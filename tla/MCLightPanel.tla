------------------------------ MODULE MCLightPanel ------------------------------
(* Instances of LightPanel for TLC. *)
EXTENDS LightPanel

FirstStates == {Blank, Off, White(2200, 10)}

=============================================================================

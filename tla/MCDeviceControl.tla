---------------------------- MODULE MCDeviceControl ----------------------------
(* Instances of DeviceControl for TLC. *)
EXTENDS DeviceControl, TLC

\* Bulbs, looks and handler slots are interchangeable (safety runs only).
Symmetry == Permutations(Device) \cup Permutations(Look) \cup Permutations(Handler)
=============================================================================

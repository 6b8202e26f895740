------------------------------- MODULE MCHierarchy -------------------------------
(***************************************************************************)
(* Instances of Hierarchy and of RoomsPage for TLC.  A behaviour is one of *)
(* the server under requests that overlap there, or one of the page with a *)
(* server that takes a request in one step; "at" says which.  The rows of  *)
(* the server stay as they are while the page is looked at, and the        *)
(* variables of the page are Null while the server is.                     *)
(***************************************************************************)
EXTENDS Hierarchy, TLC

CONSTANTS PageDevice, PageZone,   \* the devices and zones of the page
          Careful, MaxActs

VARIABLES at,
          shown, query, dialog, sent, meant, failed, acts

Page == INSTANCE RoomsPage WITH Device <- PageDevice, Zone <- PageZone,
                                   server <- shown, request <- sent

\* An id names a thing of one kind, and Null stands for none.
ASSUME PageAssumption ==
    /\ Null \notin PageDevice \cup Room \cup PageZone \cup Group
    /\ \A D \in SUBSET PageDevice : Null # D
    /\ PageDevice \cap (Room \cup PageZone \cup Group) = {}
    /\ Room \cap (PageZone \cup Group) = {} /\ PageZone \cap Group = {}

pageVars == <<shown, query, dialog, sent, meant, failed, acts>>

NoPage == /\ shown = Null /\ query = Null /\ dialog = Null /\ sent = Null
          /\ meant = Null /\ failed = Null /\ acts = Null

InitEither ==
    /\ Init
    /\ \/ at = "server" /\ NoPage
       \/ at = "page" /\ Page!Init

NextEither ==
    /\ UNCHANGED at
    /\ \/ at = "server" /\ Next /\ UNCHANGED pageVars
       \/ at = "page" /\ Page!Next /\ UNCHANGED vars

SpecEither == InitEither /\ [][NextEither]_<<at, vars, pageVars>>

\* Devices, ids and slots are interchangeable.
Symmetry == Permutations(Device) \cup Permutations(PageDevice) \cup Permutations(Room) \cup Permutations(Zone)
              \cup Permutations(Slot)

-----------------------------------------------------------------------------
(* The properties of RoomsPage, where the page is looked at. *)

\* A page of rooms at rest shows what is stored (RoomsPage).
PageIsFresh == at = "page" => Page!QuietPageIsFresh

\* The rows of the page and its copy of them have their types, and the zone of a device lies in
\* the device's room, which is there (RoomsPage).
PlacesAgree == at = "page" => Page!TypeOK /\ Page!PlacesAgree

\* Once all is answered and nothing has failed, the rows are as the user meant them (RoomsPage).
RowsAsMeant == at = "page" => Page!RowsAsMeant
=============================================================================

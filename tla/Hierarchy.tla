-------------------------------- MODULE Hierarchy --------------------------------
(***************************************************************************)
(* Rooms, zones, groups and the places of devices, under concurrent        *)
(* requests.  A request reads what it needs through the ORM, then flushes  *)
(* and commits; between the two other requests may commit.  Foreign keys   *)
(* are declared but SQLite does not enforce them (no PRAGMA foreign_keys), *)
(* so that a reference is only as good as the reads it was based on.       *)
(*                                                                         *)
(* Names, icons and sort orders are left out: they decide whether an       *)
(* UPDATE is sent at all, and a failed one changes nothing.  The SELECTs a *)
(* request makes before its first write are taken as one.                  *)
(***************************************************************************)
EXTENDS FiniteSets

CONSTANTS
  Device,         \* rows of devices: never deleted
  Room, Zone,     \* the ids that may be drawn for rooms and zones
  Group,          \* the ids that may be drawn for groups
  Slot,           \* requests in flight at once
  SerialDeletes,  \* assumed of clients: a delete overlaps no other request
  Null            \* SQL NULL, no request, no id drawn yet

ASSUME ConstantsAssumption ==
  /\ Null \notin Room \cup Zone \cup Group
  /\ SerialDeletes \in BOOLEAN

VARIABLES
  drawn,    \* ids of rooms, zones and groups used so far (UUIDs: used once)
  rooms,    \* rows of rooms
  zoneRoom, \* zones.room_id, for the rows of zones
  place,    \* devices.room_id and devices.zone_id
  groups,   \* rows of groups
  member,   \* rows of group_devices
  request   \* what each request in flight will write, from what it read

vars == <<drawn, rooms, zoneRoom, place, groups, member, request>>

Place == [room : Room \cup {Null}, zone : Zone \cup {Null}]
zones == DOMAIN zoneRoom

\* What a request in flight is: its kind, the ids it names, what it has read.
Idle == [kind |-> "idle"]
CreateZoneReq   == [kind : {"create_zone"}, id : Zone, room : Room]
UpdateZoneReq   == [kind : {"update_zone"}, id : Zone, room : Room, seen : Room]
DeleteZoneReq   == [kind : {"delete_zone"}, id : Zone, devices : SUBSET Device]
DeleteRoomReq   == [kind : {"delete_room"}, id : Room, zones : SUBSET Zone,
                    inRoom : SUBSET Device, inZones : SUBSET Device]
AssignReq       == [kind : {"assign"}, id : Device, to : Place, seen : Place]
UpdateGroupReq  == [kind : {"update_group"}, id : Group,
                    old : SUBSET Device, new : SUBSET Device]
DeleteGroupReq  == [kind : {"delete_group"}, id : Group, old : SUBSET Device]
Request == CreateZoneReq \cup UpdateZoneReq \cup DeleteZoneReq \cup DeleteRoomReq
             \cup AssignReq \cup UpdateGroupReq \cup DeleteGroupReq

Deletes == {"delete_zone", "delete_room", "delete_group"}

Init ==
  /\ drawn = {} /\ rooms = {} /\ groups = {} /\ member = {}
  /\ zoneRoom = [z \in {} |-> Null]
  /\ place = [d \in Device |-> [room |-> Null, zone |-> Null]]
  /\ request = [s \in Slot |-> Idle]

----------------------------------------------------------------------------
(* Requests arrive, naming rows that exist, and read what they need.       *)

Others(s) == {request[t] : t \in Slot \ {s}} \ {Idle}

\* Where clients keep deletes apart, a delete has the tables for itself.
MayOverlap(s, kind) ==
  SerialDeletes => /\ kind \in Deletes => Others(s) = {}
                   /\ \A r \in Others(s) : r.kind \notin Deletes

Begin(s, r) ==
  /\ request[s] = Idle
  /\ MayOverlap(s, r.kind)
  /\ request' = [request EXCEPT ![s] = r]
  /\ UNCHANGED <<rooms, zoneRoom, place, groups, member>>

InRoom(r) == {d \in Device : place[d].room = r}
\* Mutants: the unit of work loads no devices, no zones.
NoneInZone(z) == {}
NoZonesOf(r) == {}
InZone(z) == {d \in Device : place[d].zone = z}
ZonesOf(r) == {z \in zones : zoneRoom[z] = r}
MembersOf(g) == {d \in Device : <<g, d>> \in member}

\* POST /zones: a fresh id, a room the client knows of.
BeginCreateZone(s) ==
  \E z \in Zone \ drawn, r \in rooms :
    /\ Begin(s, [kind |-> "create_zone", id |-> z, room |-> r])
    /\ drawn' = drawn \cup {z}

\* PUT /zones/{id}: get_zone(), then the new room.
BeginUpdateZone(s) ==
  \E z \in zones, r \in rooms :
    /\ Begin(s, [kind |-> "update_zone", id |-> z, room |-> r, seen |-> zoneRoom[z]])
    /\ UNCHANGED drawn

\* DELETE /zones/{id}: the unit of work loads zone.devices to clear them.
BeginDeleteZone(s) ==
  \E z \in zones :
    /\ Begin(s, [kind |-> "delete_zone", id |-> z, devices |-> InZone(z)])
    /\ UNCHANGED drawn

\* DELETE /rooms/{id}: room.zones is loaded for the cascade, room.devices and
\* the zones' devices to be cleared.
BeginDeleteRoom(s) ==
  \E r \in rooms :
    /\ Begin(s, [kind |-> "delete_room", id |-> r, zones |-> ZonesOf(r),
                 inRoom |-> InRoom(r), inZones |-> UNION {InZone(z) : z \in ZonesOf(r)}])
    /\ UNCHANGED drawn

\* POST /devices/{id}/assign: the room and the zone are taken as they come,
\* the zone need not be one of the room.
BeginAssign(s) ==
  \E d \in Device, r \in rooms \cup {Null}, z \in zones \cup {Null} :
    /\ Begin(s, [kind |-> "assign", id |-> d, to |-> [room |-> r, zone |-> z], seen |-> place[d]])
    /\ UNCHANGED drawn

\* PUT /groups/{id}: the old memberships are loaded with the group.
BeginUpdateGroup(s) ==
  \E g \in groups, D \in SUBSET Device :
    /\ Begin(s, [kind |-> "update_group", id |-> g, old |-> MembersOf(g), new |-> D])
    /\ UNCHANGED drawn

\* DELETE /groups/{id}
BeginDeleteGroup(s) ==
  \E g \in groups :
    /\ Begin(s, [kind |-> "delete_group", id |-> g, old |-> MembersOf(g)])
    /\ UNCHANGED drawn

----------------------------------------------------------------------------
(* Requests flush and commit.                                              *)

Finish(s, kind) ==
  /\ request[s].kind = kind
  /\ request' = [request EXCEPT ![s] = Idle]
  /\ UNCHANGED drawn

\* POST /rooms only inserts.
CreateRoom(s) ==
  /\ request[s] = Idle /\ MayOverlap(s, "create_room")
  /\ \E r \in Room \ drawn : rooms' = rooms \cup {r} /\ drawn' = drawn \cup {r}
  /\ UNCHANGED <<zoneRoom, place, groups, member, request>>

\* INSERT INTO zones; nothing checks that the room still exists.
CreateZone(s) ==
  /\ Finish(s, "create_zone")
  /\ zoneRoom' = [z \in zones \cup {request[s].id} |->
                    IF z = request[s].id THEN request[s].room ELSE zoneRoom[z]]
  /\ UNCHANGED <<rooms, place, groups, member>>

\* UPDATE zones SET room_id, unless it equals the value read; an UPDATE that
\* matches no row fails.
UpdateZone(s) ==
  /\ Finish(s, "update_zone")
  /\ zoneRoom' = IF request[s].room # request[s].seen /\ request[s].id \in zones
                 THEN [zoneRoom EXCEPT ![request[s].id] = request[s].room]
                 ELSE zoneRoom
  /\ UNCHANGED <<rooms, place, groups, member>>

\* Mutant: the zones of a deleted room stay, with no room.
Orphaned(Z) == [z \in zones |-> IF z \in Z THEN Null ELSE zoneRoom[z]]
Without(Z) == [z \in zones \ Z |-> zoneRoom[z]]

\* UPDATE devices SET zone_id = NULL for the devices read; DELETE FROM zones.
DeleteZone(s) ==
  /\ Finish(s, "delete_zone")
  /\ zoneRoom' = Without({request[s].id})
  /\ place' = [d \in Device |->
                 IF d \in request[s].devices THEN [place[d] EXCEPT !.zone = Null] ELSE place[d]]
  /\ UNCHANGED <<rooms, groups, member>>

\* The zones read go with the room; the devices read lose the room, the zone.
DeleteRoom(s) ==
  /\ Finish(s, "delete_room")
  /\ rooms' = rooms \ {request[s].id}
  /\ zoneRoom' = Without(request[s].zones)
  /\ place' = [d \in Device |->
                 [room |-> IF d \in request[s].inRoom THEN Null ELSE place[d].room,
                  zone |-> IF d \in request[s].inZones THEN Null ELSE place[d].zone]]
  /\ UNCHANGED <<groups, member>>

\* UPDATE devices SET the columns that differ from the values read.
Assign(s) ==
  /\ Finish(s, "assign")
  /\ LET r == request[s] IN
       place' = [place EXCEPT ![r.id] =
                   [room |-> IF r.to.room = r.seen.room THEN @.room ELSE r.to.room,
                    zone |-> IF r.to.zone = r.seen.zone THEN @.zone ELSE r.to.zone]]
  /\ UNCHANGED <<rooms, zoneRoom, groups, member>>

\* POST /groups inserts the group and its members.
CreateGroup(s) ==
  /\ request[s] = Idle /\ MayOverlap(s, "create_group")
  /\ \E g \in Group \ drawn, D \in SUBSET Device :
       /\ groups' = groups \cup {g}
       /\ drawn' = drawn \cup {g}
       /\ member' = member \cup {<<g, d>> : d \in D}
  /\ UNCHANGED <<rooms, zoneRoom, place, request>>

\* The memberships read are deleted, then the new ones inserted; a membership
\* that is there by now violates the primary key, and nothing is written.
UpdateGroup(s) ==
  /\ Finish(s, "update_group")
  /\ LET kept == member \ {<<request[s].id, d>> : d \in request[s].old}
         new  == {<<request[s].id, d>> : d \in request[s].new}
     IN  member' = IF new \cap kept = {} THEN kept \cup new ELSE member
  /\ UNCHANGED <<rooms, zoneRoom, place, groups>>

\* The memberships read go with the group.
DeleteGroup(s) ==
  /\ Finish(s, "delete_group")
  /\ groups' = groups \ {request[s].id}
  /\ member' = member \ {<<request[s].id, d>> : d \in request[s].old}
  /\ UNCHANGED <<rooms, zoneRoom, place>>

\* The request fails before its commit (a duplicate name, a locked database, the
\* process dies): the session is closed and rolled back.
Fail(s) ==
  /\ request[s] # Idle
  /\ request' = [request EXCEPT ![s] = Idle]
  /\ UNCHANGED <<drawn, rooms, zoneRoom, place, groups, member>>

Read(s) ==
  \/ BeginCreateZone(s) \/ BeginUpdateZone(s) \/ BeginDeleteZone(s) \/ BeginDeleteRoom(s)
  \/ BeginAssign(s) \/ BeginUpdateGroup(s) \/ BeginDeleteGroup(s)

Write(s) ==
  \/ CreateRoom(s) \/ CreateZone(s) \/ UpdateZone(s) \/ DeleteZone(s) \/ DeleteRoom(s)
  \/ Assign(s) \/ CreateGroup(s) \/ UpdateGroup(s) \/ DeleteGroup(s)

Next == \E s \in Slot : Read(s) \/ Write(s) \/ Fail(s)

Spec == Init /\ [][Next]_vars

----------------------------------------------------------------------------
(* GET /devices/hierarchy: where a device is listed.                       *)

ListedInZone(d) == place[d].zone \in zones /\ zoneRoom[place[d].zone] \in rooms
InARoom(d) == place[d].room \in rooms
ListedInRoom(d) == InARoom(d) /\ place[d].zone = Null
ListedUnassigned(d) == ~ListedInZone(d) /\ ~InARoom(d)

----------------------------------------------------------------------------
(* Properties.                                                             *)

\* Every variable holds values of its type (the type invariant).
TypeOK ==
  /\ drawn \subseteq Room \cup Zone \cup Group
  /\ rooms \subseteq Room
  /\ zones \subseteq Zone /\ zoneRoom \in [zones -> Room]
  /\ place \in [Device -> Place]
  /\ groups \subseteq Group
  /\ member \subseteq Group \X Device
  /\ request \in [Slot -> Request \cup {Idle}]

\* "Full nested hierarchy: rooms -> zones -> devices, plus unassigned": every
\* device is listed, in a zone, in a room or among the unassigned.
EveryDeviceListed ==
  \A d \in Device : ListedInZone(d) \/ ListedInRoom(d) \/ ListedUnassigned(d)

\* A stored reference names a row: ids of deleted rooms, zones and groups do not
\* survive in zones.room_id, devices.room_id, devices.zone_id or group_devices.
\* A schedule, quick action or command that targets a deleted id thus resolves
\* to no device.
NoDanglingReference ==
  /\ \A z \in zones : zoneRoom[z] \in rooms
  /\ \A d \in Device : place[d].room \in rooms \cup {Null} /\ place[d].zone \in zones \cup {Null}
  /\ \A m \in member : m[1] \in groups
=============================================================================

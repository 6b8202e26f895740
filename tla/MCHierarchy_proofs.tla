---------------------------- MODULE MCHierarchy_proofs ----------------------------
(* Proofs about Hierarchy and RoomsPage, for any sets of ids, devices and requests. *)
EXTENDS MCHierarchy, TLAPS

\* A request in flight was based on rows that still exist: what it will store
\* names rows, and a delete has read all that refers to what it deletes.
Sound(r) ==
  /\ r.kind = "create_zone" => r.room \in rooms
  /\ r.kind = "update_zone" => r.room \in rooms
  /\ r.kind = "assign" => r.to.room \in rooms \cup {Null} /\ r.to.zone \in zones \cup {Null}
  /\ r.kind = "update_group" => r.id \in groups
  /\ r.kind = "delete_zone" => InZone(r.id) \subseteq r.devices
  /\ r.kind = "delete_room" =>
       /\ ZonesOf(r.id) \subseteq r.zones
       /\ InRoom(r.id) \subseteq r.inRoom
       /\ \A z \in r.zones : InZone(z) \subseteq r.inZones
  /\ r.kind = "delete_group" => MembersOf(r.id) \subseteq r.old

\* A delete in flight is the only request in flight.
DeletesAlone ==
  \A s, t \in Slot : request[s].kind \in Deletes /\ t # s => request[t] = Idle

AllSound == \A s \in Slot : Sound(request[s])

Inv == TypeOK /\ NoDanglingReference /\ DeletesAlone /\ AllSound

\* A device whose references name rows is listed somewhere.
LEMMA NoDanglingListed == TypeOK /\ NoDanglingReference => EveryDeviceListed
<1> SUFFICES ASSUME TypeOK, NoDanglingReference, NEW d \in Device
             PROVE  ListedInZone(d) \/ ListedInRoom(d) \/ ListedUnassigned(d)
  BY DEF EveryDeviceListed
<1>1. CASE place[d].zone = Null
  BY <1>1 DEF ListedInRoom, ListedUnassigned, ListedInZone, InARoom
<1>2. CASE place[d].zone \in zones
  BY <1>2 DEF ListedInZone, NoDanglingReference
<1> QED  BY <1>1, <1>2 DEF NoDanglingReference

\* Requests that read add nothing but a sound request.
LEMMA ReadStep ==
  ASSUME SerialDeletes, Inv, NEW s \in Slot, Read(s)
  PROVE  Inv'
<1>a. /\ rooms \subseteq Room /\ zones \subseteq Zone /\ zoneRoom \in [zones -> Room]
      /\ place \in [Device -> Place] /\ groups \subseteq Group
      /\ member \subseteq Group \X Device
      /\ request \in [Slot -> Request \cup {Idle}]
      /\ drawn \subseteq Room \cup Zone \cup Group
  BY DEF Inv, TypeOK
<1>b. \A t \in Slot \ {s} : request[t] = Idle \/ request[t] \in Others(s)
  BY DEF Others
<1>1. ASSUME NEW r \in Request, Begin(s, r), Sound(r), drawn' \subseteq Room \cup Zone \cup Group
      PROVE  Inv'
  <2>1. \A t \in Slot : request'[t] = IF t = s THEN r ELSE request[t]
    BY <1>a, <1>1 DEF Begin
  <2>2. TypeOK'
    BY <1>a, <1>1 DEF TypeOK, Begin, zones
  <2>3. NoDanglingReference'
    BY <1>1 DEF Inv, NoDanglingReference, Begin, zones
  <2>4. \A q : Sound(q)' <=> Sound(q)
    BY <1>1 DEF Begin, Sound, zones, InZone, InRoom, ZonesOf, MembersOf
  <2>5. AllSound'
    BY <1>1, <2>1, <2>4 DEF AllSound, Inv
  <2>6. /\ r.kind \in Deletes => Others(s) = {}
        /\ \A q \in Others(s) : q.kind \notin Deletes
    BY <1>1 DEF Begin, MayOverlap
  <2>7. Idle.kind \notin Deletes
    BY DEF Idle, Deletes
  <2>8. DeletesAlone'
    BY <1>b, <2>1, <2>6, <2>7 DEF DeletesAlone, Inv
  <2> QED  BY <2>2, <2>3, <2>5, <2>8 DEF Inv
<1>2. CASE BeginCreateZone(s)
  <2> PICK z \in Zone \ drawn, r \in rooms :
        /\ Begin(s, [kind |-> "create_zone", id |-> z, room |-> r])
        /\ drawn' = drawn \cup {z}
    BY <1>2 DEF BeginCreateZone
  <2>1. [kind |-> "create_zone", id |-> z, room |-> r] \in Request
    BY <1>a DEF Request, CreateZoneReq
  <2>2. Sound([kind |-> "create_zone", id |-> z, room |-> r])
    BY DEF Sound
  <2> QED  BY <1>1, <1>a, <2>1, <2>2
<1>3. CASE BeginUpdateZone(s)
  <2> PICK z \in zones, r \in rooms :
        Begin(s, [kind |-> "update_zone", id |-> z, room |-> r, seen |-> zoneRoom[z]])
    BY <1>3 DEF BeginUpdateZone
  <2>1. [kind |-> "update_zone", id |-> z, room |-> r, seen |-> zoneRoom[z]] \in Request
    BY <1>a DEF Request, UpdateZoneReq
  <2>2. Sound([kind |-> "update_zone", id |-> z, room |-> r, seen |-> zoneRoom[z]])
    BY DEF Sound
  <2> QED  BY <1>1, <1>3, <1>a, <2>1, <2>2 DEF BeginUpdateZone
<1>4. CASE BeginDeleteZone(s)
  <2> PICK z \in zones : Begin(s, [kind |-> "delete_zone", id |-> z, devices |-> InZone(z)])
    BY <1>4 DEF BeginDeleteZone
  <2>1. [kind |-> "delete_zone", id |-> z, devices |-> InZone(z)] \in Request
    BY <1>a DEF Request, DeleteZoneReq, InZone
  <2>2. Sound([kind |-> "delete_zone", id |-> z, devices |-> InZone(z)])
    BY DEF Sound
  <2> QED  BY <1>1, <1>4, <1>a, <2>1, <2>2 DEF BeginDeleteZone
<1>5. CASE BeginDeleteRoom(s)
  <2> DEFINE req(r) == [kind |-> "delete_room", id |-> r, zones |-> ZonesOf(r),
                        inRoom |-> InRoom(r), inZones |-> UNION {InZone(z) : z \in ZonesOf(r)}]
  <2> PICK r \in rooms : Begin(s, req(r))
    BY <1>5 DEF BeginDeleteRoom
  <2>1. /\ ZonesOf(r) \subseteq Zone /\ InRoom(r) \subseteq Device
        /\ UNION {InZone(z) : z \in ZonesOf(r)} \subseteq Device
    BY <1>a DEF ZonesOf, InRoom, InZone
  <2>2. req(r) \in Request
    BY <1>a, <2>1 DEF Request, DeleteRoomReq
  <2>3. Sound(req(r))
    BY DEF Sound
  <2> QED  BY <1>1, <1>5, <1>a, <2>2, <2>3 DEF BeginDeleteRoom
<1>6. CASE BeginAssign(s)
  <2> DEFINE req(d, r, z) == [kind |-> "assign", id |-> d, to |-> [room |-> r, zone |-> z],
                              seen |-> place[d]]
  <2> PICK d \in Device, r \in rooms \cup {Null}, z \in zones \cup {Null} : Begin(s, req(d, r, z))
    BY <1>6 DEF BeginAssign
  <2>1. req(d, r, z) \in Request
    BY <1>a DEF Request, AssignReq, Place
  <2>2. Sound(req(d, r, z))
    BY DEF Sound
  <2> QED  BY <1>1, <1>6, <1>a, <2>1, <2>2 DEF BeginAssign
<1>7. CASE BeginUpdateGroup(s)
  <2> DEFINE req(g, D) == [kind |-> "update_group", id |-> g, old |-> MembersOf(g), new |-> D]
  <2> PICK g \in groups, D \in SUBSET Device : Begin(s, req(g, D))
    BY <1>7 DEF BeginUpdateGroup
  <2>1. req(g, D) \in Request
    BY <1>a DEF Request, UpdateGroupReq, MembersOf
  <2>2. Sound(req(g, D))
    BY DEF Sound
  <2> QED  BY <1>1, <1>7, <1>a, <2>1, <2>2 DEF BeginUpdateGroup
<1>8. CASE BeginDeleteGroup(s)
  <2> DEFINE req(g) == [kind |-> "delete_group", id |-> g, old |-> MembersOf(g)]
  <2> PICK g \in groups : Begin(s, req(g))
    BY <1>8 DEF BeginDeleteGroup
  <2>1. req(g) \in Request
    BY <1>a DEF Request, DeleteGroupReq, MembersOf
  <2>2. Sound(req(g))
    BY DEF Sound
  <2> QED  BY <1>1, <1>8, <1>a, <2>1, <2>2 DEF BeginDeleteGroup
<1> QED  BY <1>2, <1>3, <1>4, <1>5, <1>6, <1>7, <1>8 DEF Read

\* What is sound for a request that deletes nothing stays so while tables grow.
LEMMA SoundGrows ==
  ASSUME NEW q, Sound(q), q.kind \notin Deletes,
         rooms \subseteq rooms', zones \subseteq zones', groups \subseteq groups'
  PROVE  Sound(q)'
BY DEF Sound, Deletes

\* An idle slot has read nothing that could be stale.
LEMMA IdleSound == Sound(Idle) /\ Sound(Idle)'
BY DEF Sound, Idle

\* A request of a known kind has the fields of that kind.
LEMMA RequestFields ==
  ASSUME NEW r \in Request \cup {Idle}
  PROVE  /\ r.kind = "create_zone" => r.id \in Zone /\ r.room \in Room
         /\ r.kind = "update_zone" => r.id \in Zone /\ r.room \in Room /\ r.seen \in Room
         /\ r.kind = "delete_zone" => r.id \in Zone /\ r.devices \subseteq Device
         /\ r.kind = "delete_room" => r.id \in Room /\ r.zones \subseteq Zone
         /\ r.kind = "assign" => r.id \in Device /\ r.to \in Place /\ r.seen \in Place
         /\ r.kind = "update_group" => r.id \in Group /\ r.old \subseteq Device /\ r.new \subseteq Device
         /\ r.kind = "delete_group" => r.id \in Group
BY DEF Request, Idle, CreateZoneReq, UpdateZoneReq, DeleteZoneReq, DeleteRoomReq,
       AssignReq, UpdateGroupReq, DeleteGroupReq

\* Requests that write keep references to rows, and leave the other requests'
\* reads true.
LEMMA WriteStep ==
  ASSUME SerialDeletes, Inv, NEW s \in Slot, Write(s) \/ Fail(s)
  PROVE  Inv'
<1> DEFINE r == request[s]
<1>a. /\ rooms \subseteq Room /\ zones \subseteq Zone /\ zoneRoom \in [zones -> Room]
      /\ place \in [Device -> Place] /\ groups \subseteq Group
      /\ member \subseteq Group \X Device
      /\ request \in [Slot -> Request \cup {Idle}]
      /\ drawn \subseteq Room \cup Zone \cup Group
  BY DEF Inv, TypeOK
<1>f. /\ r.kind = "create_zone" => r.id \in Zone /\ r.room \in Room
      /\ r.kind = "update_zone" => r.id \in Zone /\ r.room \in Room /\ r.seen \in Room
      /\ r.kind = "delete_zone" => r.id \in Zone /\ r.devices \subseteq Device
      /\ r.kind = "delete_room" => r.id \in Room /\ r.zones \subseteq Zone
      /\ r.kind = "assign" => r.id \in Device /\ r.to \in Place /\ r.seen \in Place
      /\ r.kind = "update_group" => r.id \in Group /\ r.old \subseteq Device /\ r.new \subseteq Device
      /\ r.kind = "delete_group" => r.id \in Group
  BY <1>a, RequestFields
<1>n. /\ \A z \in zones : zoneRoom[z] \in rooms
      /\ \A d \in Device : place[d].room \in rooms \cup {Null} /\ place[d].zone \in zones \cup {Null}
      /\ \A m \in member : m[1] \in groups
      /\ Sound(r)
  BY DEF Inv, NoDanglingReference, AllSound
\* Two ways of preserving what concerns the other requests.
<1>1. ASSUME r.kind \in Deletes, request' = [request EXCEPT ![s] = Idle]
      PROVE  AllSound' /\ DeletesAlone'
  <2>1. \A t \in Slot : request'[t] = Idle
    BY <1>a, <1>1 DEF Inv, DeletesAlone
  <2> QED  BY <2>1, IdleSound DEF AllSound, DeletesAlone, Idle, Deletes
<1>2. ASSUME rooms \subseteq rooms', zones \subseteq zones', groups \subseteq groups',
             \A t \in Slot \ {s} : request[t].kind \notin Deletes,
             request' = [request EXCEPT ![s] = Idle]
      PROVE  AllSound' /\ DeletesAlone'
  <2>1. \A t \in Slot : request'[t] = IF t = s THEN Idle ELSE request[t]
    BY <1>a, <1>2
  <2>2. \A t \in Slot \ {s} : Sound(request[t])'
    BY <1>2, SoundGrows DEF Inv, AllSound
  <2>3. \A t \in Slot : request'[t].kind \notin Deletes
    BY <1>2, <2>1 DEF Idle, Deletes
  <2>4. AllSound'
    BY <2>1, <2>2, IdleSound DEF AllSound
  <2> QED  BY <2>3, <2>4 DEF DeletesAlone
<1>3. ASSUME r # Idle, r.kind \notin Deletes
      PROVE  \A t \in Slot \ {s} : request[t].kind \notin Deletes
  BY <1>3 DEF Inv, DeletesAlone
<1>4. ASSUME request' = [request EXCEPT ![s] = Idle], drawn' = drawn
      PROVE  /\ request' \in [Slot -> Request \cup {Idle}]
             /\ drawn' \subseteq Room \cup Zone \cup Group
  BY <1>a, <1>4
<1>5. ASSUME request[s] = Idle, request' = request, NEW k, k \notin Deletes, MayOverlap(s, k)
      PROVE  /\ \A t \in Slot \ {s} : request[t].kind \notin Deletes
             /\ request' = [request EXCEPT ![s] = Idle]
  <2>1. \A t \in Slot \ {s} : request[t] = Idle \/ request[t] \in Others(s)
    BY DEF Others
  <2> QED  BY <1>a, <1>5, <2>1 DEF MayOverlap, Idle, Deletes
<1>6. CASE CreateRoom(s)
  <2>1. PICK q \in Room : rooms' = rooms \cup {q} /\ drawn' = drawn \cup {q}
    BY <1>6 DEF CreateRoom
  <2>2. AllSound' /\ DeletesAlone'
    BY <1>2, <1>5, <1>6, <2>1 DEF CreateRoom, Deletes, zones
  <2>3. NoDanglingReference'
    BY <1>n, <1>6, <2>1 DEF CreateRoom, NoDanglingReference, zones
  <2>4. TypeOK'
    BY <1>a, <1>6, <2>1 DEF CreateRoom, TypeOK, zones
  <2> QED  BY <2>2, <2>3, <2>4 DEF Inv
<1>7. CASE CreateGroup(s)
  <2>1. PICK g \in Group, D \in SUBSET Device :
          /\ groups' = groups \cup {g}
          /\ drawn' = drawn \cup {g}
          /\ member' = member \cup {<<g, d>> : d \in D}
    BY <1>7 DEF CreateGroup
  <2>2. AllSound' /\ DeletesAlone'
    BY <1>2, <1>5, <1>7, <2>1 DEF CreateGroup, Deletes, zones
  <2>3. NoDanglingReference'
    BY <1>n, <1>7, <2>1 DEF CreateGroup, NoDanglingReference, zones
  <2>4. TypeOK'
    BY <1>a, <1>7, <2>1 DEF CreateGroup, TypeOK, zones
  <2> QED  BY <2>2, <2>3, <2>4 DEF Inv
<1>8. CASE CreateZone(s)
  <2>1. /\ r.id \in Zone /\ r.room \in rooms
        /\ r # Idle /\ r.kind \notin Deletes
    BY <1>8, <1>f, <1>n DEF CreateZone, Finish, Sound, Idle, Deletes
  <2>2. /\ zones' = zones \cup {r.id}
        /\ \A z \in zones' : zoneRoom'[z] = IF z = r.id THEN r.room ELSE zoneRoom[z]
    BY <1>8 DEF CreateZone, zones
  <2>3. zoneRoom' = [z \in zones' |-> zoneRoom'[z]]
    BY <1>8 DEF CreateZone, zones
  <2>4. AllSound' /\ DeletesAlone'
    BY <1>2, <1>3, <1>8, <2>1, <2>2 DEF CreateZone, Finish
  <2>5. NoDanglingReference'
    BY <1>n, <1>8, <2>1, <2>2 DEF CreateZone, NoDanglingReference
  <2>6. \A z \in zones' : zoneRoom'[z] \in Room
    BY <1>a, <2>1, <2>2
  <2>7. TypeOK'
    BY <1>a, <1>4, <1>8, <2>1, <2>2, <2>3, <2>6 DEF CreateZone, Finish, TypeOK
  <2> QED  BY <2>4, <2>5, <2>7 DEF Inv
<1>9. CASE UpdateZone(s)
  <2>1. /\ r.id \in Zone /\ r.room \in rooms
        /\ r # Idle /\ r.kind \notin Deletes
    BY <1>9, <1>f, <1>n DEF UpdateZone, Finish, Sound, Idle, Deletes
  <2>2. /\ zones' = zones /\ zoneRoom' \in [zones -> Room]
        /\ \A z \in zones : zoneRoom'[z] \in {zoneRoom[z], r.room}
    BY <1>a, <1>9, <2>1 DEF UpdateZone, zones
  <2>3. AllSound' /\ DeletesAlone'
    BY <1>2, <1>3, <1>9, <2>1, <2>2 DEF UpdateZone, Finish
  <2>4. NoDanglingReference'
    BY <1>n, <1>9, <2>1, <2>2 DEF UpdateZone, NoDanglingReference
  <2>5. TypeOK'
    BY <1>a, <1>4, <1>9, <2>2 DEF UpdateZone, Finish, TypeOK
  <2> QED  BY <2>3, <2>4, <2>5 DEF Inv
<1>10. CASE DeleteZone(s)
  <2>1. r.kind \in Deletes /\ InZone(r.id) \subseteq r.devices
    BY <1>10, <1>n DEF DeleteZone, Finish, Sound, Deletes
  <2>2. /\ zones' = zones \ {r.id} /\ zoneRoom' = [z \in zones' |-> zoneRoom[z]]
    BY <1>10 DEF DeleteZone, Without, zones
  <2>3. /\ \A d \in Device : place'[d].room = place[d].room
        /\ \A d \in Device : place'[d].zone \in {place[d].zone, Null}
        /\ \A d \in r.devices : d \in Device => place'[d].zone = Null
        /\ place' \in [Device -> Place]
    BY <1>a, <1>10 DEF DeleteZone, Place
  <2>4. AllSound' /\ DeletesAlone'
    BY <1>1, <1>10, <2>1 DEF DeleteZone, Finish
  <2>5. \A d \in Device : place'[d].zone \in zones' \cup {Null}
    BY <1>n, <2>1, <2>2, <2>3 DEF InZone
  <2>6. NoDanglingReference'
    BY <1>n, <1>10, <2>2, <2>3, <2>5 DEF DeleteZone, NoDanglingReference
  <2>7. TypeOK'
    BY <1>a, <1>4, <1>10, <2>2, <2>3 DEF DeleteZone, Finish, TypeOK
  <2> QED  BY <2>4, <2>6, <2>7 DEF Inv
<1>11. CASE DeleteRoom(s)
  <2>1. /\ r.kind \in Deletes
        /\ ZonesOf(r.id) \subseteq r.zones /\ InRoom(r.id) \subseteq r.inRoom
        /\ \A z \in r.zones : InZone(z) \subseteq r.inZones
    BY <1>11, <1>n DEF DeleteRoom, Finish, Sound, Deletes
  <2>2. /\ rooms' = rooms \ {r.id}
        /\ zones' = zones \ r.zones /\ zoneRoom' = [z \in zones' |-> zoneRoom[z]]
    BY <1>11 DEF DeleteRoom, Without, zones
  <2>3. /\ \A d \in Device : place'[d].room = IF d \in r.inRoom THEN Null ELSE place[d].room
        /\ \A d \in Device : place'[d].zone = IF d \in r.inZones THEN Null ELSE place[d].zone
        /\ place' \in [Device -> Place]
    BY <1>a, <1>11 DEF DeleteRoom, Place
  <2>4. AllSound' /\ DeletesAlone'
    BY <1>1, <1>11, <2>1 DEF DeleteRoom, Finish
  <2>5. \A z \in zones' : zoneRoom'[z] \in rooms'
    BY <1>n, <2>1, <2>2 DEF ZonesOf
  <2>6. \A d \in Device : /\ place'[d].room \in rooms' \cup {Null}
                          /\ place'[d].zone \in zones' \cup {Null}
    BY <1>n, <2>1, <2>2, <2>3 DEF InRoom, InZone
  <2>7. NoDanglingReference'
    BY <1>n, <1>11, <2>5, <2>6 DEF DeleteRoom, NoDanglingReference
  <2>8. TypeOK'
    BY <1>a, <1>4, <1>11, <2>2, <2>3 DEF DeleteRoom, Finish, TypeOK
  <2> QED  BY <2>4, <2>7, <2>8 DEF Inv
<1>12. CASE Assign(s)
  <2>1. /\ r.id \in Device /\ r.to \in Place
        /\ r.to.room \in rooms \cup {Null} /\ r.to.zone \in zones \cup {Null}
        /\ r # Idle /\ r.kind \notin Deletes
    BY <1>12, <1>f, <1>n DEF Assign, Finish, Sound, Idle, Deletes
  <2>2. /\ place' \in [Device -> Place]
        /\ \A d \in Device : /\ place'[d].room \in {place[d].room, r.to.room}
                             /\ place'[d].zone \in {place[d].zone, r.to.zone}
    BY <1>a, <1>12, <2>1 DEF Assign, Place
  <2>3. zones' = zones
    BY <1>12 DEF Assign, zones
  <2>4. AllSound' /\ DeletesAlone'
    BY <1>2, <1>3, <1>12, <2>1, <2>3 DEF Assign, Finish
  <2>5. NoDanglingReference'
    BY <1>n, <1>12, <2>1, <2>2, <2>3 DEF Assign, NoDanglingReference
  <2>6. TypeOK'
    BY <1>a, <1>4, <1>12, <2>2, <2>3 DEF Assign, Finish, TypeOK
  <2> QED  BY <2>4, <2>5, <2>6 DEF Inv
<1>13. CASE UpdateGroup(s)
  <2>1. /\ r.id \in groups /\ r.new \subseteq Device
        /\ r # Idle /\ r.kind \notin Deletes
    BY <1>13, <1>f, <1>n DEF UpdateGroup, Finish, Sound, Idle, Deletes
  <2>2. member' \subseteq member \cup {<<r.id, d>> : d \in r.new}
    BY <1>13 DEF UpdateGroup
  <2>3. zones' = zones
    BY <1>13 DEF UpdateGroup, zones
  <2>4. AllSound' /\ DeletesAlone'
    BY <1>2, <1>3, <1>13, <2>1, <2>3 DEF UpdateGroup, Finish
  <2>5. \A m \in member' : m \in Group \X Device /\ m[1] \in groups
    BY <1>a, <1>n, <2>1, <2>2
  <2>6. NoDanglingReference'
    BY <1>n, <1>13, <2>3, <2>5 DEF UpdateGroup, NoDanglingReference
  <2>7. TypeOK'
    BY <1>a, <1>4, <1>13, <2>3, <2>5 DEF UpdateGroup, Finish, TypeOK
  <2> QED  BY <2>4, <2>6, <2>7 DEF Inv
<1>14. CASE DeleteGroup(s)
  <2>1. r.kind \in Deletes /\ MembersOf(r.id) \subseteq r.old
    BY <1>14, <1>n DEF DeleteGroup, Finish, Sound, Deletes
  <2>2. zones' = zones
    BY <1>14 DEF DeleteGroup, zones
  <2>3. AllSound' /\ DeletesAlone'
    BY <1>1, <1>14, <2>1 DEF DeleteGroup, Finish
  <2>4. member' = member \ {<<r.id, d>> : d \in r.old} /\ groups' = groups \ {r.id}
    BY <1>14 DEF DeleteGroup
  <2>5. \A m \in member' : m[1] \in groups'
    <3> SUFFICES ASSUME NEW m \in member' PROVE m[1] # r.id /\ m[1] \in groups
      BY <2>4
    <3>1. m \in member /\ m \in Group \X Device /\ m = <<m[1], m[2]>> /\ m[2] \in Device
      BY <1>a, <2>4
    <3>2. m[1] = r.id => m[2] \in MembersOf(r.id)
      BY <3>1 DEF MembersOf
    <3>3. m[1] = r.id => m \in {<<r.id, d>> : d \in r.old}
      BY <2>1, <3>1, <3>2
    <3> QED  BY <1>n, <2>4, <3>1, <3>3
  <2>6. NoDanglingReference'
    BY <1>n, <1>14, <2>2, <2>5 DEF DeleteGroup, NoDanglingReference
  <2>7. TypeOK'
    BY <1>a, <1>4, <1>14, <2>2, <2>4 DEF DeleteGroup, Finish, TypeOK
  <2> QED  BY <2>3, <2>6, <2>7 DEF Inv
<1>15. CASE Fail(s)
  <2>1. zones' = zones
    BY <1>15 DEF Fail, zones
  <2>2. r # Idle
    BY <1>15 DEF Fail
  <2>3. AllSound' /\ DeletesAlone'
    BY <1>1, <1>2, <1>3, <1>15, <2>1, <2>2 DEF Fail
  <2>4. NoDanglingReference'
    BY <1>n, <1>15, <2>1 DEF Fail, NoDanglingReference
  <2>5. TypeOK'
    BY <1>a, <1>4, <1>15, <2>1 DEF Fail, TypeOK
  <2> QED  BY <2>3, <2>4, <2>5 DEF Inv
<1> QED
  BY <1>6, <1>7, <1>8, <1>9, <1>10, <1>11, <1>12, <1>13, <1>14, <1>15 DEF Write

\* The inductive invariant holds in every reachable state.
LEMMA InductiveInvariant == ASSUME SerialDeletes PROVE Spec => []Inv
<1>1. Init => Inv
  <2> SUFFICES ASSUME Init PROVE Inv
    OBVIOUS
  <2>1. zones = {}
    BY DEF Init, zones
  <2>2. TypeOK
    BY <2>1 DEF Init, TypeOK, Place
  <2>3. NoDanglingReference
    BY <2>1 DEF Init, NoDanglingReference
  <2>4. AllSound /\ DeletesAlone
    BY IdleSound DEF Init, AllSound, DeletesAlone
  <2> QED  BY <2>2, <2>3, <2>4 DEF Inv
<1>2. Inv /\ [Next]_vars => Inv'
  <2> SUFFICES ASSUME Inv, [Next]_vars PROVE Inv'
    OBVIOUS
  <2>1. CASE Next
    BY <2>1, ReadStep, WriteStep, SerialDeletes DEF Next
  <2>2. CASE UNCHANGED vars
    <3>1. zones' = zones
      BY <2>2 DEF vars, zones
    <3>2. \A q : Sound(q)' <=> Sound(q)
      BY <2>2, <3>1 DEF vars, Sound, InZone, InRoom, ZonesOf, MembersOf
    <3> QED
      BY <2>2, <3>1, <3>2 DEF vars, Inv, TypeOK, NoDanglingReference, AllSound, DeletesAlone
  <2> QED  BY <2>1, <2>2
<1> QED  BY <1>1, <1>2, PTL DEF Spec

\* Overlapping edits of rooms, zones, groups and places leave no dangling
\* reference as long as no delete overlaps another request, although SQLite
\* enforces no foreign key and requests act on what they read before.
THEOREM ReferencesKept == ASSUME SerialDeletes PROVE Spec => []NoDanglingReference
<1>1. Inv => NoDanglingReference
  BY DEF Inv
<1> QED  BY <1>1, InductiveInvariant, SerialDeletes, PTL

\* Under the same discipline the hierarchy lists every device.
THEOREM DevicesListed == ASSUME SerialDeletes PROVE Spec => []EveryDeviceListed
<1>1. Inv => EveryDeviceListed
  BY NoDanglingListed DEF Inv
<1> QED  BY <1>1, InductiveInvariant, SerialDeletes, PTL

\* Every request that arrives is of its type, and writes values of theirs,
\* whether or not deletes are kept apart.
LEMMA ReadTyped ==
  ASSUME TypeOK, NEW s \in Slot, Read(s)
  PROVE  TypeOK'
<1>a. /\ rooms \subseteq Room /\ zones \subseteq Zone /\ zoneRoom \in [zones -> Room]
      /\ place \in [Device -> Place] /\ groups \subseteq Group
      /\ member \subseteq Group \X Device
      /\ request \in [Slot -> Request \cup {Idle}]
      /\ drawn \subseteq Room \cup Zone \cup Group
  BY DEF TypeOK
<1>1. ASSUME NEW r \in Request, Begin(s, r), drawn' \subseteq Room \cup Zone \cup Group
      PROVE  TypeOK'
  BY <1>a, <1>1 DEF TypeOK, Begin, zones
<1>2. CASE BeginCreateZone(s)
  <2> PICK z \in Zone \ drawn, r \in rooms :
        /\ Begin(s, [kind |-> "create_zone", id |-> z, room |-> r])
        /\ drawn' = drawn \cup {z}
    BY <1>2 DEF BeginCreateZone
  <2>1. [kind |-> "create_zone", id |-> z, room |-> r] \in Request
    BY <1>a DEF Request, CreateZoneReq
  <2> QED  BY <1>1, <1>a, <2>1
<1>3. CASE BeginUpdateZone(s)
  <2> PICK z \in zones, r \in rooms :
        Begin(s, [kind |-> "update_zone", id |-> z, room |-> r, seen |-> zoneRoom[z]])
    BY <1>3 DEF BeginUpdateZone
  <2>1. [kind |-> "update_zone", id |-> z, room |-> r, seen |-> zoneRoom[z]] \in Request
    BY <1>a DEF Request, UpdateZoneReq
  <2> QED  BY <1>1, <1>3, <1>a, <2>1 DEF BeginUpdateZone
<1>4. CASE BeginDeleteZone(s)
  <2> PICK z \in zones : Begin(s, [kind |-> "delete_zone", id |-> z, devices |-> InZone(z)])
    BY <1>4 DEF BeginDeleteZone
  <2>1. [kind |-> "delete_zone", id |-> z, devices |-> InZone(z)] \in Request
    BY <1>a DEF Request, DeleteZoneReq, InZone
  <2> QED  BY <1>1, <1>4, <1>a, <2>1 DEF BeginDeleteZone
<1>5. CASE BeginDeleteRoom(s)
  <2> DEFINE req(r) == [kind |-> "delete_room", id |-> r, zones |-> ZonesOf(r),
                        inRoom |-> InRoom(r), inZones |-> UNION {InZone(z) : z \in ZonesOf(r)}]
  <2> PICK r \in rooms : Begin(s, req(r))
    BY <1>5 DEF BeginDeleteRoom
  <2>1. /\ ZonesOf(r) \subseteq Zone /\ InRoom(r) \subseteq Device
        /\ UNION {InZone(z) : z \in ZonesOf(r)} \subseteq Device
    BY <1>a DEF ZonesOf, InRoom, InZone
  <2>2. req(r) \in Request
    BY <1>a, <2>1 DEF Request, DeleteRoomReq
  <2> QED  BY <1>1, <1>5, <1>a, <2>2 DEF BeginDeleteRoom
<1>6. CASE BeginAssign(s)
  <2> DEFINE req(d, r, z) == [kind |-> "assign", id |-> d, to |-> [room |-> r, zone |-> z],
                              seen |-> place[d]]
  <2> PICK d \in Device, r \in rooms \cup {Null}, z \in zones \cup {Null} : Begin(s, req(d, r, z))
    BY <1>6 DEF BeginAssign
  <2>1. req(d, r, z) \in Request
    BY <1>a DEF Request, AssignReq, Place
  <2> QED  BY <1>1, <1>6, <1>a, <2>1 DEF BeginAssign
<1>7. CASE BeginUpdateGroup(s)
  <2> DEFINE req(g, D) == [kind |-> "update_group", id |-> g, old |-> MembersOf(g), new |-> D]
  <2> PICK g \in groups, D \in SUBSET Device : Begin(s, req(g, D))
    BY <1>7 DEF BeginUpdateGroup
  <2>1. req(g, D) \in Request
    BY <1>a DEF Request, UpdateGroupReq, MembersOf
  <2> QED  BY <1>1, <1>7, <1>a, <2>1 DEF BeginUpdateGroup
<1>8. CASE BeginDeleteGroup(s)
  <2> DEFINE req(g) == [kind |-> "delete_group", id |-> g, old |-> MembersOf(g)]
  <2> PICK g \in groups : Begin(s, req(g))
    BY <1>8 DEF BeginDeleteGroup
  <2>1. req(g) \in Request
    BY <1>a DEF Request, DeleteGroupReq, MembersOf
  <2> QED  BY <1>1, <1>8, <1>a, <2>1 DEF BeginDeleteGroup
<1> QED  BY <1>2, <1>3, <1>4, <1>5, <1>6, <1>7, <1>8 DEF Read

\* What a request writes is of its type, were it read however long ago.
LEMMA WriteTyped ==
  ASSUME TypeOK, NEW s \in Slot, Write(s) \/ Fail(s)
  PROVE  TypeOK'
<1> DEFINE r == request[s]
<1>a. /\ rooms \subseteq Room /\ zones \subseteq Zone /\ zoneRoom \in [zones -> Room]
      /\ place \in [Device -> Place] /\ groups \subseteq Group
      /\ member \subseteq Group \X Device
      /\ request \in [Slot -> Request \cup {Idle}]
      /\ drawn \subseteq Room \cup Zone \cup Group
  BY DEF TypeOK
<1>f. /\ r.kind = "create_zone" => r.id \in Zone /\ r.room \in Room
      /\ r.kind = "update_zone" => r.id \in Zone /\ r.room \in Room
      /\ r.kind = "assign" => r.id \in Device /\ r.to \in Place
      /\ r.kind = "update_group" => r.id \in Group /\ r.new \subseteq Device
  BY <1>a, RequestFields
<1>1. ASSUME request' = [request EXCEPT ![s] = Idle], drawn' = drawn
      PROVE  /\ request' \in [Slot -> Request \cup {Idle}]
             /\ drawn' \subseteq Room \cup Zone \cup Group
  BY <1>a, <1>1
<1>2. ASSUME NEW Z, zoneRoom' = [z \in zones \ Z |-> zoneRoom[z]]
      PROVE  zones' \subseteq Zone /\ zoneRoom' \in [zones' -> Room]
  BY <1>a, <1>2 DEF zones
<1>3. CASE CreateRoom(s) \/ CreateGroup(s)
  <2>1. zoneRoom' = zoneRoom /\ place' = place /\ request' = request
    BY <1>3 DEF CreateRoom, CreateGroup
  <2>2. /\ rooms' \subseteq Room /\ groups' \subseteq Group /\ member' \subseteq Group \X Device
        /\ drawn' \subseteq Room \cup Zone \cup Group
    BY <1>a, <1>3 DEF CreateRoom, CreateGroup
  <2> QED  BY <1>a, <2>1, <2>2 DEF TypeOK, zones
<1>4. CASE CreateZone(s)
  <2>1. r.id \in Zone /\ r.room \in Room
    BY <1>4, <1>f DEF CreateZone, Finish
  <2>2. zones' = zones \cup {r.id} /\ zoneRoom' \in [zones' -> Room]
    BY <1>a, <1>4, <2>1 DEF CreateZone, zones
  <2> QED  BY <1>a, <1>1, <1>4, <2>1, <2>2 DEF CreateZone, Finish, TypeOK
<1>5. CASE UpdateZone(s)
  <2>1. r.room \in Room
    BY <1>5, <1>f DEF UpdateZone, Finish
  <2>2. zones' = zones /\ zoneRoom' \in [zones -> Room]
    BY <1>a, <1>5, <2>1 DEF UpdateZone, zones
  <2> QED  BY <1>a, <1>1, <1>5, <2>2 DEF UpdateZone, Finish, TypeOK
<1>6. CASE DeleteZone(s)
  <2>1. zones' \subseteq Zone /\ zoneRoom' \in [zones' -> Room]
    BY <1>2, <1>6 DEF DeleteZone, Without
  <2>2. place' \in [Device -> Place]
    BY <1>a, <1>6 DEF DeleteZone, Place
  <2> QED  BY <1>a, <1>1, <1>6, <2>1, <2>2 DEF DeleteZone, Finish, TypeOK
<1>7. CASE DeleteRoom(s)
  <2>1. zones' \subseteq Zone /\ zoneRoom' \in [zones' -> Room]
    BY <1>2, <1>7 DEF DeleteRoom, Without
  <2>2. place' \in [Device -> Place]
    BY <1>a, <1>7 DEF DeleteRoom, Place
  <2> QED  BY <1>a, <1>1, <1>7, <2>1, <2>2 DEF DeleteRoom, Finish, TypeOK
<1>8. CASE Assign(s)
  <2>1. r.id \in Device /\ r.to \in Place
    BY <1>8, <1>f DEF Assign, Finish
  <2>2. place' \in [Device -> Place] /\ zones' = zones
    BY <1>a, <1>8, <2>1 DEF Assign, Place, zones
  <2> QED  BY <1>a, <1>1, <1>8, <2>2 DEF Assign, Finish, TypeOK
<1>9. CASE UpdateGroup(s)
  <2>1. r.id \in Group /\ r.new \subseteq Device
    BY <1>9, <1>f DEF UpdateGroup, Finish
  <2>2. member' \subseteq member \cup {<<r.id, d>> : d \in r.new} /\ zones' = zones
    BY <1>9 DEF UpdateGroup, zones
  <2>3. member' \subseteq Group \X Device
    BY <1>a, <2>1, <2>2
  <2> QED  BY <1>a, <1>1, <1>9, <2>2, <2>3 DEF UpdateGroup, Finish, TypeOK
<1>10. CASE DeleteGroup(s)
  BY <1>a, <1>1, <1>10 DEF DeleteGroup, Finish, TypeOK, zones
<1>11. CASE Fail(s)
  BY <1>a, <1>1, <1>11 DEF Fail, TypeOK, zones
<1> QED
  BY <1>3, <1>4, <1>5, <1>6, <1>7, <1>8, <1>9, <1>10, <1>11 DEF Write

\* Every variable keeps values of its type, for any clients.
THEOREM TypeCorrect == Spec => []TypeOK
<1>1. Init => TypeOK
  <2> SUFFICES ASSUME Init PROVE TypeOK
    OBVIOUS
  <2>1. zones = {}
    BY DEF Init, zones
  <2> QED  BY <2>1 DEF Init, TypeOK, Place
<1>2. TypeOK /\ [Next]_vars => TypeOK'
  <2>1. ASSUME TypeOK, UNCHANGED vars PROVE TypeOK'
    BY <2>1 DEF vars, TypeOK, zones
  <2> QED  BY <2>1, ReadTyped, WriteTyped DEF Next
<1> QED  BY <1>1, <1>2, PTL DEF Spec

----------------------------------------------------------------------------
(* The page: types.                                                        *)

Maps(K, V) == UNION {[D -> V] : D \in SUBSET K}
ARoom == Room \cup {Null}
Thing == PageDevice \cup Room \cup PageZone \cup Group

\* Rows as the page may come to have them, whatever its user does.
AnyRows ==
  [rooms : SUBSET Room, zoneRoom : Maps(PageZone, ARoom),
   place : [PageDevice -> Page!Place], members : Maps(Group, SUBSET PageDevice)]

Call ==
  UNION {[kind : {"createRoom"}, from : {"create"}, id : Room],
         [kind : {"createZone"}, from : {"create"}, id : PageZone, room : Room],
         [kind : {"createGroup"}, from : {"create"}, id : Group],
         [kind : {"putRoom"}, from : {"edit"}, id : Room],
         [kind : {"putZone"}, from : {"edit"}, id : PageZone, room : ARoom],
         [kind : {"putGroup"}, from : {"edit", "members"}, id : Group, devices : SUBSET PageDevice],
         [kind : {"assign"}, from : {"add", "chip"}, id : PageDevice, to : Page!Place],
         [kind : {"deleteRoom"}, from : {"bin"}, id : Room],
         [kind : {"deleteZone"}, from : {"bin"}, id : PageZone],
         [kind : {"deleteGroup"}, from : {"bin"}, id : Group]}

Sent == [phase : {"sent", "done", "refused"}, touches : SUBSET Thing, call : Call]

Dialog ==
  UNION {{Page!NoDialog},
         [kind : {"create"}, type : {"room", "zone", "group"}, pending : Slot \cup {Null}],
         [kind : {"add", "edit"}, type : {"room"}, id : Room],
         [kind : {"add", "edit"}, type : {"zone"}, id : PageZone],
         [kind : {"add", "edit"}, type : {"group"}, id : Group]}

QueryOf(Copy) ==
  [shown : Copy, fetch : {Page!Idle, Page!Asked} \cup [phase : {"answered"}, data : Copy]]

PageTyped ==
  /\ shown \in AnyRows /\ meant \in AnyRows
  /\ query \in [Page!Query -> QueryOf(AnyRows) \cup QueryOf(SUBSET Room)]
  /\ query["hierarchy"] \in QueryOf(AnyRows) /\ query["rooms"] \in QueryOf(SUBSET Room)
  /\ dialog \in Dialog
  /\ sent \in [Slot -> {Page!NoRequest} \cup Sent]

\* What has been said of a map, said of its keys.
LEMMA MapIs ==
  ASSUME NEW K, NEW V, NEW f
  PROVE  f \in Maps(K, V) <=> f = [x \in DOMAIN f |-> f[x]] /\ DOMAIN f \subseteq K /\ \A x \in DOMAIN f : f[x] \in V
BY DEF Maps

LEMMA RowsAre ==
  ASSUME NEW s \in AnyRows
  PROVE  /\ s.rooms \subseteq Room
         /\ s.zoneRoom \in Maps(PageZone, ARoom)
         /\ s.place \in [PageDevice -> Page!Place]
         /\ s.members \in Maps(Group, SUBSET PageDevice)
         /\ s = [rooms |-> s.rooms, zoneRoom |-> s.zoneRoom, place |-> s.place, members |-> s.members]
BY DEF AnyRows

LEMMA InMaps ==
  ASSUME NEW K, NEW V, NEW D \in SUBSET K, NEW f \in [D -> V]
  PROVE  f \in Maps(K, V)
BY DEF Maps

\* These rows have these fields.
Becomes(e, a, b, c, d) ==
  e \in AnyRows /\ e.rooms = a /\ e.zoneRoom = b /\ e.place = c /\ e.members = d

LEMMA RowsMade ==
  ASSUME NEW a \in SUBSET Room, NEW b \in Maps(PageZone, ARoom),
         NEW c \in [PageDevice -> Page!Place], NEW d \in Maps(Group, SUBSET PageDevice)
  PROVE  Becomes([rooms |-> a, zoneRoom |-> b, place |-> c, members |-> d], a, b, c, d)
BY DEF AnyRows, Becomes

\* Rows of which one field is another.
LEMMA RoomsPut ==
  ASSUME NEW s \in AnyRows, NEW a \in SUBSET Room
  PROVE  Becomes([s EXCEPT !.rooms = a], a, s.zoneRoom, s.place, s.members)
BY DEF AnyRows, Becomes
LEMMA ZonesPut ==
  ASSUME NEW s \in AnyRows, NEW b \in Maps(PageZone, ARoom)
  PROVE  Becomes([s EXCEPT !.zoneRoom = b], s.rooms, b, s.place, s.members)
BY DEF AnyRows, Becomes
LEMMA PlacesPut ==
  ASSUME NEW s \in AnyRows, NEW c \in [PageDevice -> Page!Place]
  PROVE  Becomes([s EXCEPT !.place = c], s.rooms, s.zoneRoom, c, s.members)
BY DEF AnyRows, Becomes
LEMMA MembersPut ==
  ASSUME NEW s \in AnyRows, NEW d \in Maps(Group, SUBSET PageDevice)
  PROVE  Becomes([s EXCEPT !.members = d], s.rooms, s.zoneRoom, s.place, d)
BY DEF AnyRows, Becomes

\* Maps that grow, shrink, and change.
LEMMA MapsKept ==
  ASSUME NEW K, NEW V, NEW f \in Maps(K, V)
  PROVE  /\ \A S : Page!Without(f, S) \in Maps(K, V)
         /\ \A x \in K, y \in V : Page!With(f, x, y) \in Maps(K, V)
         /\ \A x : \A y \in V : [f EXCEPT ![x] = y] \in Maps(K, V)
<1>1. f = [x \in DOMAIN f |-> f[x]] /\ DOMAIN f \subseteq K /\ \A x \in DOMAIN f : f[x] \in V
  BY MapIs
<1>2. ASSUME NEW S PROVE Page!Without(f, S) \in [DOMAIN f \ S -> V] /\ DOMAIN f \ S \in SUBSET K
  BY <1>1 DEF Page!Without
<1>3. ASSUME NEW x \in K, NEW y \in V
             PROVE Page!With(f, x, y) \in [DOMAIN f \cup {x} -> V] /\ DOMAIN f \cup {x} \in SUBSET K
  BY <1>1 DEF Page!With
<1>4. ASSUME NEW x, NEW y \in V PROVE [f EXCEPT ![x] = y] \in [DOMAIN f -> V] /\ DOMAIN f \in SUBSET K
  BY <1>1
<1> QED  BY <1>2, <1>3, <1>4, InMaps

----------------------------------------------------------------------------
(* The page: what requests do to the rows, field by field.                 *)

LEMMA CreateRoomDoes ==
  ASSUME NEW s \in AnyRows, NEW q, q.kind = "createRoom", q.id \in Room
  PROVE  Becomes(Page!Effect(s, q), s.rooms \cup {q.id}, s.zoneRoom, s.place, s.members)
<1>1. Page!Effect(s, q) = [s EXCEPT !.rooms = s.rooms \cup {q.id}]
  BY DEF Page!Effect
<1>2. s.rooms \cup {q.id} \in SUBSET Room
  BY RowsAre
<1> QED  BY <1>1, <1>2, RoomsPut

LEMMA CreateZoneDoes ==
  ASSUME NEW s \in AnyRows, NEW q, q.kind = "createZone", q.id \in PageZone, q.room \in Room
  PROVE  Becomes(Page!Effect(s, q), s.rooms, Page!With(s.zoneRoom, q.id, q.room), s.place, s.members)
<1>1. Page!Effect(s, q) = [s EXCEPT !.zoneRoom = Page!With(s.zoneRoom, q.id, q.room)]
  BY DEF Page!Effect
<1>2. Page!With(s.zoneRoom, q.id, q.room) \in Maps(PageZone, ARoom)
  BY RowsAre, MapsKept DEF ARoom
<1> QED  BY <1>1, <1>2, ZonesPut

LEMMA CreateGroupDoes ==
  ASSUME NEW s \in AnyRows, NEW q, q.kind = "createGroup", q.id \in Group
  PROVE  Becomes(Page!Effect(s, q), s.rooms, s.zoneRoom, s.place, Page!With(s.members, q.id, {}))
<1>1. Page!Effect(s, q) = [s EXCEPT !.members = Page!With(s.members, q.id, {})]
  BY DEF Page!Effect
<1>2. Page!With(s.members, q.id, {}) \in Maps(Group, SUBSET PageDevice)
  BY RowsAre, MapsKept
<1> QED  BY <1>1, <1>2, MembersPut

LEMMA PutRoomDoes ==
  ASSUME NEW s, NEW q, q.kind = "putRoom"
  PROVE  Page!Effect(s, q) = s
BY DEF Page!Effect

LEMMA PutZoneDoes ==
  ASSUME NEW s \in AnyRows, NEW q, q.kind = "putZone", q.room \in ARoom
  PROVE  Becomes(Page!Effect(s, q), s.rooms, [s.zoneRoom EXCEPT ![q.id] = q.room], s.place, s.members)
<1>1. Page!Effect(s, q) = [s EXCEPT !.zoneRoom = [s.zoneRoom EXCEPT ![q.id] = q.room]]
  BY DEF Page!Effect
<1>2. [s.zoneRoom EXCEPT ![q.id] = q.room] \in Maps(PageZone, ARoom)
  BY RowsAre, MapsKept
<1> QED  BY <1>1, <1>2, ZonesPut

LEMMA PutGroupDoes ==
  ASSUME NEW s \in AnyRows, NEW q, q.kind = "putGroup", q.devices \in SUBSET PageDevice
  PROVE  Becomes(Page!Effect(s, q), s.rooms, s.zoneRoom, s.place, [s.members EXCEPT ![q.id] = q.devices])
<1>1. Page!Effect(s, q) = [s EXCEPT !.members = [s.members EXCEPT ![q.id] = q.devices]]
  BY DEF Page!Effect
<1>2. [s.members EXCEPT ![q.id] = q.devices] \in Maps(Group, SUBSET PageDevice)
  BY RowsAre, MapsKept
<1> QED  BY <1>1, <1>2, MembersPut

LEMMA AssignDoes ==
  ASSUME NEW s \in AnyRows, NEW d \in PageDevice, NEW to \in Page!Place
  PROVE  Becomes(Page!Assigned(s, d, to), s.rooms, s.zoneRoom, [s.place EXCEPT ![d] = to], s.members)
<1>1. Page!Assigned(s, d, to) = [s EXCEPT !.place = [s.place EXCEPT ![d] = to]]
  BY DEF Page!Assigned
<1>2. [s.place EXCEPT ![d] = to] \in [PageDevice -> Page!Place]
  BY RowsAre
<1> QED  BY <1>1, <1>2, PlacesPut

\* Where a device is after a room, a zone has been deleted.
Expelled(s, r) ==
  [d \in PageDevice |->
     [room |-> IF s.place[d].room = r THEN Null ELSE s.place[d].room,
      zone |-> IF s.place[d].zone \in Page!ZonesOf(s, r) THEN Null ELSE s.place[d].zone]]
Unzoned(s, z) ==
  [d \in PageDevice |-> IF s.place[d].zone = z THEN [s.place[d] EXCEPT !.zone = Null] ELSE s.place[d]]

LEMMA DeleteRoomDoes ==
  ASSUME NEW s \in AnyRows, NEW r
  PROVE  Becomes(Page!RoomDeleted(s, r), s.rooms \ {r}, Page!Without(s.zoneRoom, Page!ZonesOf(s, r)),
                 Expelled(s, r), s.members)
<1>1. Page!RoomDeleted(s, r) = [s EXCEPT !.rooms = s.rooms \ {r}, !.zoneRoom = Page!Without(s.zoneRoom, Page!ZonesOf(s, r)),
                                         !.place = Expelled(s, r)]
  BY DEF Page!RoomDeleted, Expelled
<1>2. s.rooms \ {r} \in SUBSET Room /\ s.members \in Maps(Group, SUBSET PageDevice)
  BY RowsAre
<1>3. Page!Without(s.zoneRoom, Page!ZonesOf(s, r)) \in Maps(PageZone, ARoom)
  BY RowsAre, MapsKept
<1>4. Expelled(s, r) \in [PageDevice -> Page!Place]
  BY RowsAre DEF Expelled, Page!Place
<1>5. Page!RoomDeleted(s, r) = [rooms |-> s.rooms \ {r}, zoneRoom |-> Page!Without(s.zoneRoom, Page!ZonesOf(s, r)),
                                place |-> Expelled(s, r), members |-> s.members]
  BY <1>1, RowsAre
<1> QED  BY <1>2, <1>3, <1>4, <1>5, RowsMade

LEMMA DeleteZoneDoes ==
  ASSUME NEW s \in AnyRows, NEW z
  PROVE  Becomes(Page!ZoneDeleted(s, z), s.rooms, Page!Without(s.zoneRoom, {z}), Unzoned(s, z), s.members)
<1>1. Page!ZoneDeleted(s, z) = [s EXCEPT !.zoneRoom = Page!Without(s.zoneRoom, {z}), !.place = Unzoned(s, z)]
  BY DEF Page!ZoneDeleted, Unzoned
<1>2. s.rooms \in SUBSET Room /\ s.members \in Maps(Group, SUBSET PageDevice)
  BY RowsAre
<1>3. Page!Without(s.zoneRoom, {z}) \in Maps(PageZone, ARoom)
  BY RowsAre, MapsKept
<1>4. Unzoned(s, z) \in [PageDevice -> Page!Place]
  BY RowsAre DEF Unzoned, Page!Place
<1>5. Page!ZoneDeleted(s, z) = [rooms |-> s.rooms, zoneRoom |-> Page!Without(s.zoneRoom, {z}),
                                place |-> Unzoned(s, z), members |-> s.members]
  BY <1>1, RowsAre
<1> QED  BY <1>2, <1>3, <1>4, <1>5, RowsMade

LEMMA DeleteGroupDoes ==
  ASSUME NEW s \in AnyRows, NEW g
  PROVE  Becomes(Page!GroupDeleted(s, g), s.rooms, s.zoneRoom, s.place, Page!Without(s.members, {g}))
<1>1. Page!GroupDeleted(s, g) = [s EXCEPT !.members = Page!Without(s.members, {g})]
  BY DEF Page!GroupDeleted
<1>2. Page!Without(s.members, {g}) \in Maps(Group, SUBSET PageDevice)
  BY RowsAre, MapsKept
<1> QED  BY <1>1, <1>2, MembersPut

\* The kinds of calls, one by one.
LEMMA CallsAre ==
  ASSUME NEW q \in Call
  PROVE  \/ q.kind = "createRoom" /\ q.from = "create" /\ q.id \in Room
         \/ q.kind = "createZone" /\ q.from = "create" /\ q.id \in PageZone /\ q.room \in Room
         \/ q.kind = "createGroup" /\ q.from = "create" /\ q.id \in Group
         \/ q.kind = "putRoom" /\ q.from = "edit" /\ q.id \in Room
         \/ q.kind = "putZone" /\ q.from = "edit" /\ q.id \in PageZone /\ q.room \in ARoom
         \/ q.kind = "putGroup" /\ q.id \in Group /\ q.devices \in SUBSET PageDevice
         \/ q.kind = "assign" /\ q.id \in PageDevice /\ q.to \in Page!Place
         \/ q.kind = "deleteRoom" /\ q.id \in Room
         \/ q.kind = "deleteZone" /\ q.id \in PageZone
         \/ q.kind = "deleteGroup" /\ q.id \in Group
BY DEF Call

LEMMA EffectIs ==
  ASSUME NEW s, NEW q
  PROVE  /\ q.kind = "assign" => Page!Effect(s, q) = Page!Assigned(s, q.id, q.to)
         /\ q.kind = "deleteRoom" => Page!Effect(s, q) = Page!RoomDeleted(s, q.id)
         /\ q.kind = "deleteZone" => Page!Effect(s, q) = Page!ZoneDeleted(s, q.id)
         /\ q.kind = "deleteGroup" => Page!Effect(s, q) = Page!GroupDeleted(s, q.id)
BY DEF Page!Effect

\* A request leaves rows, and only rooms that are made and deleted change the list of rooms.
LEMMA EffectsAreRows ==
  ASSUME NEW s \in AnyRows, NEW q \in Call
  PROVE  /\ Page!Effect(s, q) \in AnyRows
         /\ q.kind \notin {"createRoom", "deleteRoom"} => Page!Effect(s, q).rooms = s.rooms
<1>1. CASE q.kind = "createRoom" /\ q.id \in Room
  BY <1>1, CreateRoomDoes DEF Becomes
<1>2. CASE q.kind = "createZone" /\ q.id \in PageZone /\ q.room \in Room
  BY <1>2, CreateZoneDoes DEF Becomes
<1>3. CASE q.kind = "createGroup" /\ q.id \in Group
  BY <1>3, CreateGroupDoes DEF Becomes
<1>4. CASE q.kind = "putRoom"
  BY <1>4, PutRoomDoes
<1>5. CASE q.kind = "putZone" /\ q.room \in ARoom
  BY <1>5, PutZoneDoes DEF Becomes
<1>6. CASE q.kind = "putGroup" /\ q.devices \in SUBSET PageDevice
  BY <1>6, PutGroupDoes DEF Becomes
<1>7. CASE q.kind = "assign" /\ q.id \in PageDevice /\ q.to \in Page!Place
  <2>1. Becomes(Page!Assigned(s, q.id, q.to), s.rooms, s.zoneRoom, [s.place EXCEPT ![q.id] = q.to], s.members)
    BY <1>7, AssignDoes
  <2> QED  BY <1>7, <2>1, EffectIs DEF Becomes
<1>8. CASE q.kind = "deleteRoom"
  BY <1>8, EffectIs, DeleteRoomDoes DEF Becomes
<1>9. CASE q.kind = "deleteZone"
  <2>1. Becomes(Page!ZoneDeleted(s, q.id), s.rooms, Page!Without(s.zoneRoom, {q.id}), Unzoned(s, q.id), s.members)
    BY DeleteZoneDoes
  <2> QED  BY <1>9, <2>1, EffectIs DEF Becomes
<1>10. CASE q.kind = "deleteGroup"
  <2>1. Becomes(Page!GroupDeleted(s, q.id), s.rooms, s.zoneRoom, s.place, Page!Without(s.members, {q.id}))
    BY DeleteGroupDoes
  <2> QED  BY <1>10, <2>1, EffectIs DEF Becomes
<1> QED  BY <1>1, <1>2, <1>3, <1>4, <1>5, <1>6, <1>7, <1>8, <1>9, <1>10, CallsAre

----------------------------------------------------------------------------
(* The page: what its user does.                                           *)

\* Where the page has not been touched, the dialog that is open covers it.
DialogOn(s) ==
  \/ dialog.kind = "create" /\ dialog' = [dialog EXCEPT !.pending = s]
  \/ dialog.kind = "edit" /\ dialog' = dialog
  \/ dialog = Page!NoDialog /\ dialog' = dialog
  \/ dialog' = Page!NoDialog

Drawing(q, things, meaning) ==
  /\ q.id \notin Page!Drawn /\ meaning = Page!Effect(meant, q)
  /\ \/ q.kind = "createRoom" /\ things = {}
     \/ q.kind = "createZone" /\ q.room \in Page!roomsSeen /\ things = {q.room}
     \/ q.kind = "createGroup" /\ things = {}

Editing(q, things, meaning) ==
  /\ dialog.kind = "edit" /\ dialog.id = q.id /\ meaning = meant
  /\ \/ q.kind = "putRoom" /\ dialog.type = "room" /\ things = {q.id}
     \/ /\ q.kind = "putZone" /\ dialog.type = "zone"
        /\ q.room = Page!SeenRoom(q.id) /\ things = {q.id, q.room} \ {Null}
     \/ /\ q.kind = "putGroup" /\ dialog.type = "group"
        /\ q.devices = Page!SeenMembers(q.id) /\ things = {q.id}

Regrouping(q, things, meaning) ==
  /\ q.kind = "putGroup" /\ q.id \in DOMAIN Page!seen.members /\ things = {q.id}
  /\ \E d \in PageDevice :
       \/ /\ q.devices = Page!SeenMembers(q.id) \cup {d}
          /\ meaning = [meant EXCEPT !.members = Page!With(meant.members, q.id, Page!MeantMembers(q.id) \cup {d})]
       \/ /\ q.devices = Page!SeenMembers(q.id) \ {d}
          /\ meaning = [meant EXCEPT !.members = Page!With(meant.members, q.id, Page!MeantMembers(q.id) \ {d})]

Assigning(q, things, meaning) ==
  /\ q.kind = "assign" /\ meaning = Page!Assigned(meant, q.id, q.to)
  /\ things = {q.id, q.to.room, q.to.zone} \ {Null}
  /\ \/ q.to = Page!Nowhere
     \/ dialog.kind = "add" /\ dialog.type = "room" /\ q.to = [room |-> dialog.id, zone |-> Null]
     \/ /\ dialog.kind = "add" /\ dialog.type = "zone" /\ dialog.id \in DOMAIN Page!seen.zoneRoom
        /\ q.to = [room |-> Page!seen.zoneRoom[dialog.id], zone |-> dialog.id]
     \/ /\ Page!seen.place[q.id].zone \in DOMAIN Page!seen.zoneRoom
        /\ q.to = [room |-> Page!seen.zoneRoom[Page!seen.place[q.id].zone], zone |-> Null]

Deleting(q, things, meaning) ==
  /\ dialog = Page!NoDialog /\ dialog' = dialog
  /\ meaning = Page!Effect(meant, q)
  /\ \/ /\ q.kind = "deleteRoom" /\ q.id \in Page!seen.rooms
        /\ things = {q.id} \cup Page!ZonesOf(shown, q.id) \cup {d \in PageDevice : shown.place[d].room = q.id}
     \/ /\ q.kind = "deleteZone" /\ q.id \in DOMAIN Page!seen.zoneRoom
        /\ things = {q.id} \cup {d \in PageDevice : shown.place[d].zone = q.id}
     \/ q.kind = "deleteGroup" /\ q.id \in DOMAIN Page!seen.members /\ things = {q.id}

\* A request of the user: what it says, touches and means.
Planned(q, things, meaning) ==
  \/ Drawing(q, things, meaning) \/ Editing(q, things, meaning) \/ Regrouping(q, things, meaning)
  \/ Assigning(q, things, meaning) \/ Deleting(q, things, meaning)

Acted(s) ==
  /\ \E q \in Call, things \in SUBSET Thing, meaning \in AnyRows :
       Page!Send(s, q, things, meaning) /\ Planned(q, things, meaning)
  /\ DialogOn(s)

\* What the page shows.
LEMMA SeenIs ==
  ASSUME PageTyped
  PROVE  /\ Page!seen \in AnyRows
         /\ Page!seen.rooms \subseteq Room
         /\ DOMAIN Page!seen.zoneRoom \subseteq PageZone
         /\ \A z \in DOMAIN Page!seen.zoneRoom : Page!seen.zoneRoom[z] \in ARoom
         /\ Page!seen.place \in [PageDevice -> Page!Place]
         /\ DOMAIN Page!seen.members \subseteq Group
         /\ \A g \in DOMAIN Page!seen.members : Page!seen.members[g] \in SUBSET PageDevice
         /\ Page!roomsSeen \subseteq Room
<1>1. Page!seen \in AnyRows /\ Page!roomsSeen \subseteq Room
  BY DEF PageTyped, QueryOf, Page!seen, Page!roomsSeen
<1> QED  BY <1>1, RowsAre, MapIs

LEMMA DialogIs ==
  ASSUME NEW g \in Dialog
  PROVE  /\ g.kind \in {"none", "create", "add", "edit"}
         /\ g.kind = "none" => g = Page!NoDialog
         /\ g.kind = "create" => g.pending \in Slot \cup {Null} /\ \A s \in Slot \cup {Null} : [g EXCEPT !.pending = s] \in Dialog
         /\ g.kind \in {"add", "edit"} => \/ g.type = "room" /\ g.id \in Room
                                          \/ g.type = "zone" /\ g.id \in PageZone
                                          \/ g.type = "group" /\ g.id \in Group
BY DEF Dialog, Page!NoDialog

LEMMA CreateActs ==
  ASSUME PageTyped, NEW s \in Slot, Page!Create(s) PROVE Acted(s)
<1>0. meant \in AnyRows /\ Page!roomsSeen \subseteq Room
  BY SeenIs DEF PageTyped
<1>1. DialogOn(s)
  BY DEF Page!Create, DialogOn
<1>2. ASSUME NEW r \in Room \ Page!Drawn, NEW q, q = [kind |-> "createRoom", from |-> "create", id |-> r],
             Page!Send(s, q, {}, Page!Effect(meant, q))
      PROVE  Acted(s)
  <2>1. q \in Call /\ Page!Effect(meant, q) \in AnyRows
    BY <1>0, <1>2, EffectsAreRows DEF Call
  <2>2. Planned(q, {}, Page!Effect(meant, q))
    BY <1>2 DEF Planned, Drawing
  <2> QED  BY <1>1, <1>2, <2>1, <2>2 DEF Acted
<1>3. ASSUME NEW z \in PageZone \ Page!Drawn, NEW r \in Page!roomsSeen, NEW q,
             q = [kind |-> "createZone", from |-> "create", id |-> z, room |-> r],
             Page!Send(s, q, {r}, Page!Effect(meant, q))
      PROVE  Acted(s)
  <2>1. q \in Call /\ Page!Effect(meant, q) \in AnyRows /\ {r} \in SUBSET Thing
    BY <1>0, <1>3, EffectsAreRows DEF Call, Thing
  <2>2. Planned(q, {r}, Page!Effect(meant, q))
    BY <1>3 DEF Planned, Drawing
  <2> QED  BY <1>1, <1>3, <2>1, <2>2 DEF Acted
<1>4. ASSUME NEW g \in Group \ Page!Drawn, NEW q, q = [kind |-> "createGroup", from |-> "create", id |-> g],
             Page!Send(s, q, {}, Page!Effect(meant, q))
      PROVE  Acted(s)
  <2>1. q \in Call /\ Page!Effect(meant, q) \in AnyRows
    BY <1>0, <1>4, EffectsAreRows DEF Call
  <2>2. Planned(q, {}, Page!Effect(meant, q))
    BY <1>4 DEF Planned, Drawing
  <2> QED  BY <1>1, <1>4, <2>1, <2>2 DEF Acted
<1> QED  BY <1>2, <1>3, <1>4 DEF Page!Create

LEMMA EditActs ==
  ASSUME PageTyped, NEW s \in Slot, Page!Edit(s) PROVE Acted(s)
<1> DEFINE id == dialog.id
<1>0. meant \in AnyRows /\ dialog \in Dialog /\ dialog.kind = "edit" /\ dialog' = dialog
  BY DEF PageTyped, Page!Edit
<1>1. DialogOn(s)
  BY <1>0 DEF DialogOn
<1>2. ASSUME dialog.type = "room", NEW q, q = [kind |-> "putRoom", from |-> "edit", id |-> id],
             Page!Send(s, q, {id}, meant)
      PROVE  Acted(s)
  <2>1. id \in Room
    BY <1>0, <1>2, DialogIs
  <2>2. q \in Call /\ {id} \in SUBSET Thing
    BY <1>2, <2>1 DEF Call, Thing
  <2>3. Planned(q, {id}, meant)
    BY <1>0, <1>2 DEF Planned, Editing
  <2> QED  BY <1>0, <1>1, <1>2, <2>2, <2>3 DEF Acted
<1>3. ASSUME dialog.type = "zone", NEW q,
             q = [kind |-> "putZone", from |-> "edit", id |-> id, room |-> Page!SeenRoom(id)],
             Page!Send(s, q, {id, Page!SeenRoom(id)} \ {Null}, meant)
      PROVE  Acted(s)
  <2>1. id \in PageZone
    BY <1>0, <1>3, DialogIs
  <2>2. Page!SeenRoom(id) \in ARoom
    BY SeenIs DEF Page!SeenRoom, ARoom
  <2>3. q \in Call /\ {id, Page!SeenRoom(id)} \ {Null} \in SUBSET Thing
    BY <1>3, <2>1, <2>2 DEF Call, Thing, ARoom
  <2>4. Planned(q, {id, Page!SeenRoom(id)} \ {Null}, meant)
    BY <1>0, <1>3 DEF Planned, Editing
  <2> QED  BY <1>0, <1>1, <1>3, <2>3, <2>4 DEF Acted
<1>4. ASSUME dialog.type = "group", NEW q,
             q = [kind |-> "putGroup", from |-> "edit", id |-> id, devices |-> Page!SeenMembers(id)],
             Page!Send(s, q, {id}, meant)
      PROVE  Acted(s)
  <2>1. id \in Group
    BY <1>0, <1>4, DialogIs
  <2>2. Page!SeenMembers(id) \in SUBSET PageDevice
    BY SeenIs DEF Page!SeenMembers
  <2>3. q \in Call /\ {id} \in SUBSET Thing
    BY <1>4, <2>1, <2>2 DEF Call, Thing
  <2>4. Planned(q, {id}, meant)
    BY <1>0, <1>4 DEF Planned, Editing
  <2> QED  BY <1>0, <1>1, <1>4, <2>3, <2>4 DEF Acted
<1> QED  BY <1>2, <1>3, <1>4 DEF Page!Edit

\* A device that is assigned, where Assigning allows the place.
LEMMA AssignActs ==
  ASSUME PageTyped, NEW s \in Slot, DialogOn(s), NEW d \in PageDevice, NEW to \in Page!Place,
         NEW from \in {"add", "chip"},
         Page!Assign(s, d, to, from),
         \/ to = Page!Nowhere
         \/ dialog.kind = "add" /\ dialog.type = "room" /\ to = [room |-> dialog.id, zone |-> Null]
         \/ /\ dialog.kind = "add" /\ dialog.type = "zone" /\ dialog.id \in DOMAIN Page!seen.zoneRoom
            /\ to = [room |-> Page!seen.zoneRoom[dialog.id], zone |-> dialog.id]
         \/ /\ Page!seen.place[d].zone \in DOMAIN Page!seen.zoneRoom
            /\ to = [room |-> Page!seen.zoneRoom[Page!seen.place[d].zone], zone |-> Null]
  PROVE  Acted(s)
<1> DEFINE q == [kind |-> "assign", from |-> from, id |-> d, to |-> to]
           things == {d, to.room, to.zone} \ {Null}
<1>1. meant \in AnyRows
  BY DEF PageTyped
<1>2. Becomes(Page!Assigned(meant, d, to), meant.rooms, meant.zoneRoom, [meant.place EXCEPT ![d] = to], meant.members)
  BY <1>1, AssignDoes
<1>3. q \in Call
  BY DEF Call
<1>4. things \in SUBSET Thing
  BY DEF Thing, Page!Place
<1>5. Planned(q, things, Page!Assigned(meant, d, to))
  BY DEF Planned, Assigning
<1>6. Page!Send(s, q, things, Page!Assigned(meant, d, to))
  BY DEF Page!Assign
<1> HIDE DEF q, things
<1> QED  BY <1>2, <1>3, <1>4, <1>5, <1>6 DEF Acted, Becomes

LEMMA RegroupActs ==
  ASSUME PageTyped, NEW s \in Slot, DialogOn(s), NEW g \in DOMAIN Page!seen.members, NEW d \in PageDevice,
         \/ Page!PutMembers(s, g, Page!SeenMembers(g) \cup {d}, Page!MeantMembers(g) \cup {d})
         \/ Page!PutMembers(s, g, Page!SeenMembers(g) \ {d}, Page!MeantMembers(g) \ {d})
  PROVE  Acted(s)
<1>1. meant \in AnyRows /\ g \in Group /\ meant.members \in Maps(Group, SUBSET PageDevice)
  BY SeenIs, RowsAre DEF PageTyped
<1>2. Page!SeenMembers(g) \in SUBSET PageDevice /\ Page!MeantMembers(g) \in SUBSET PageDevice
  BY <1>1, SeenIs, MapIs DEF Page!SeenMembers, Page!MeantMembers
<1>3. {g} \in SUBSET Thing
  BY <1>1 DEF Thing
<1>4. ASSUME NEW D \in SUBSET PageDevice, NEW M \in SUBSET PageDevice, Page!PutMembers(s, g, D, M),
             \/ D = Page!SeenMembers(g) \cup {d} /\ M = Page!MeantMembers(g) \cup {d}
             \/ D = Page!SeenMembers(g) \ {d} /\ M = Page!MeantMembers(g) \ {d}
      PROVE  Acted(s)
  <2> DEFINE q == [kind |-> "putGroup", from |-> "members", id |-> g, devices |-> D]
             meaning == [meant EXCEPT !.members = Page!With(meant.members, g, M)]
  <2>1. q \in Call
    BY <1>1 DEF Call
  <2>2. Page!With(meant.members, g, M) \in Maps(Group, SUBSET PageDevice)
    BY <1>1, MapsKept
  <2>3. meaning \in AnyRows
    BY <1>1, <2>2, MembersPut DEF Becomes
  <2>4. Planned(q, {g}, meaning)
    BY <1>4 DEF Planned, Regrouping
  <2>5. Page!Send(s, q, {g}, meaning)
    BY <1>4 DEF Page!PutMembers
  <2> HIDE DEF q, meaning
  <2> QED  BY <1>3, <2>1, <2>3, <2>4, <2>5 DEF Acted
<1>5. \A S \in SUBSET PageDevice : S \cup {d} \in SUBSET PageDevice /\ S \ {d} \in SUBSET PageDevice
  OBVIOUS
<1> QED  BY <1>2, <1>4, <1>5

LEMMA AddActs ==
  ASSUME PageTyped, NEW s \in Slot, Page!AddDevice(s) PROVE Acted(s)
<1>0. dialog \in Dialog /\ dialog.kind = "add" /\ DialogOn(s)
  BY DEF PageTyped, Page!AddDevice, DialogOn
<1>1. PICK d \in PageDevice :
        \/ dialog.type = "room" /\ Page!Assign(s, d, [room |-> dialog.id, zone |-> Null], "add")
        \/ /\ dialog.type = "zone" /\ dialog.id \in DOMAIN Page!seen.zoneRoom
           /\ Page!Assign(s, d, [room |-> Page!seen.zoneRoom[dialog.id], zone |-> dialog.id], "add")
        \/ /\ dialog.type = "group" /\ dialog.id \in DOMAIN Page!seen.members
           /\ Page!PutMembers(s, dialog.id, Page!SeenMembers(dialog.id) \cup {d}, Page!MeantMembers(dialog.id) \cup {d})
  BY DEF Page!AddDevice, Page!Available
<1>2. CASE dialog.type = "room" /\ Page!Assign(s, d, [room |-> dialog.id, zone |-> Null], "add")
  <2>1. [room |-> dialog.id, zone |-> Null] \in Page!Place
    BY <1>0, <1>2, DialogIs DEF Page!Place
  <2> QED  BY <1>0, <1>2, <2>1, AssignActs
<1>3. CASE dialog.type = "zone" /\ dialog.id \in DOMAIN Page!seen.zoneRoom
           /\ Page!Assign(s, d, [room |-> Page!seen.zoneRoom[dialog.id], zone |-> dialog.id], "add")
  <2>1. [room |-> Page!seen.zoneRoom[dialog.id], zone |-> dialog.id] \in Page!Place
    BY <1>3, SeenIs DEF Page!Place, ARoom
  <2> QED  BY <1>0, <1>3, <2>1, AssignActs
<1>4. CASE dialog.type = "group" /\ dialog.id \in DOMAIN Page!seen.members
           /\ Page!PutMembers(s, dialog.id, Page!SeenMembers(dialog.id) \cup {d}, Page!MeantMembers(dialog.id) \cup {d})
  BY <1>0, <1>4, RegroupActs
<1> QED  BY <1>1, <1>2, <1>3, <1>4

LEMMA ChipActs ==
  ASSUME PageTyped, NEW s \in Slot, Page!RemoveFromRoom(s) \/ Page!RemoveFromZone(s) \/ Page!RemoveFromGroup(s)
  PROVE  Acted(s)
<1>1. DialogOn(s)
  BY DEF Page!RemoveFromRoom, Page!RemoveFromZone, Page!RemoveFromGroup, Page!Chip, DialogOn
<1>2. CASE Page!RemoveFromRoom(s)
  <2>1. Page!Nowhere \in Page!Place
    BY DEF Page!Nowhere, Page!Place
  <2>2. PICK d \in PageDevice : Page!Assign(s, d, Page!Nowhere, "chip")
    BY <1>2 DEF Page!RemoveFromRoom, Page!Chip
  <2> QED  BY <1>1, <2>1, <2>2, AssignActs
<1>3. CASE Page!RemoveFromZone(s)
  <2>1. PICK d \in PageDevice :
          /\ Page!seen.place[d].zone \in DOMAIN Page!seen.zoneRoom
          /\ Page!Assign(s, d, [room |-> Page!seen.zoneRoom[Page!seen.place[d].zone], zone |-> Null], "chip")
    BY <1>3 DEF Page!RemoveFromZone, Page!Chip
  <2>2. [room |-> Page!seen.zoneRoom[Page!seen.place[d].zone], zone |-> Null] \in Page!Place
    BY <2>1, SeenIs DEF Page!Place, ARoom
  <2> QED  BY <1>1, <2>1, <2>2, AssignActs
<1>4. CASE Page!RemoveFromGroup(s)
  <2>0. PICK g \in DOMAIN Page!seen.members : \E e \in Page!seen.members[g] :
          Page!PutMembers(s, g, Page!SeenMembers(g) \ {e}, Page!MeantMembers(g) \ {e})
    BY <1>4 DEF Page!RemoveFromGroup, Page!Chip
  <2>1. PICK d \in Page!seen.members[g] :
          Page!PutMembers(s, g, Page!SeenMembers(g) \ {d}, Page!MeantMembers(g) \ {d})
    BY <2>0
  <2>2. d \in PageDevice
    BY <2>1, SeenIs
  <2> QED  BY <1>1, <2>1, <2>2, RegroupActs
<1> QED  BY <1>2, <1>3, <1>4

LEMMA DeleteActs ==
  ASSUME PageTyped, NEW s \in Slot, Page!DeleteRoom(s) \/ Page!DeleteZone(s) \/ Page!DeleteGroup(s)
  PROVE  Acted(s)
<1>0. meant \in AnyRows /\ shown \in AnyRows
  BY DEF PageTyped
<1>1. ASSUME NEW q \in Call, NEW things \in SUBSET Thing, NEW meaning, meaning = Page!Effect(meant, q),
             dialog = Page!NoDialog, dialog' = dialog, Page!Send(s, q, things, meaning), Deleting(q, things, meaning)
      PROVE  Acted(s)
  <2>1. meaning \in AnyRows
    BY <1>0, <1>1, EffectsAreRows
  <2> QED  BY <1>1, <2>1 DEF Acted, Planned, DialogOn
<1>2. CASE Page!DeleteRoom(s)
  <2>1. PICK r \in Page!seen.rooms :
          Page!Delete(s, "deleteRoom", r,
            {r} \cup Page!ZonesOf(shown, r) \cup {d \in PageDevice : shown.place[d].room = r}, Page!RoomDeleted(meant, r))
    BY <1>2 DEF Page!DeleteRoom
  <2> DEFINE q == [kind |-> "deleteRoom", from |-> "bin", id |-> r]
             things == {r} \cup Page!ZonesOf(shown, r) \cup {d \in PageDevice : shown.place[d].room = r}
  <2>2. q \in Call
    BY SeenIs DEF Call
  <2>3. DOMAIN shown.zoneRoom \subseteq PageZone /\ r \in Room
    BY <1>0, RowsAre, MapIs, SeenIs
  <2>4. things \in SUBSET Thing
    BY <2>3 DEF Thing, Page!ZonesOf
  <2>5. Page!Effect(meant, q) = Page!RoomDeleted(meant, r)
    BY EffectIs
  <2>6. Page!Send(s, q, things, Page!Effect(meant, q)) /\ dialog = Page!NoDialog /\ dialog' = dialog
    BY <2>1, <2>5 DEF Page!Delete
  <2>7. Deleting(q, things, Page!Effect(meant, q))
    BY <2>6 DEF Deleting
  <2> HIDE DEF q, things
  <2> QED  BY <1>1, <2>2, <2>4, <2>6, <2>7
<1>3. CASE Page!DeleteZone(s)
  <2>1. PICK z \in DOMAIN Page!seen.zoneRoom :
          Page!Delete(s, "deleteZone", z, {z} \cup {d \in PageDevice : shown.place[d].zone = z}, Page!ZoneDeleted(meant, z))
    BY <1>3 DEF Page!DeleteZone
  <2> DEFINE q == [kind |-> "deleteZone", from |-> "bin", id |-> z]
             things == {z} \cup {d \in PageDevice : shown.place[d].zone = z}
  <2>2. z \in PageZone
    BY SeenIs
  <2>3. q \in Call /\ things \in SUBSET Thing
    BY <2>2 DEF Call, Thing
  <2>5. Page!Effect(meant, q) = Page!ZoneDeleted(meant, z)
    BY EffectIs
  <2>6. Page!Send(s, q, things, Page!Effect(meant, q)) /\ dialog = Page!NoDialog /\ dialog' = dialog
    BY <2>1, <2>5 DEF Page!Delete
  <2>7. Deleting(q, things, Page!Effect(meant, q))
    BY <2>6 DEF Deleting
  <2> HIDE DEF q, things
  <2> QED  BY <1>1, <2>3, <2>6, <2>7
<1>4. CASE Page!DeleteGroup(s)
  <2>1. PICK g \in DOMAIN Page!seen.members :
          Page!Delete(s, "deleteGroup", g, {g}, Page!GroupDeleted(meant, g))
    BY <1>4 DEF Page!DeleteGroup
  <2> DEFINE q == [kind |-> "deleteGroup", from |-> "bin", id |-> g]
  <2>2. g \in Group
    BY SeenIs
  <2>3. q \in Call /\ {g} \in SUBSET Thing
    BY <2>2 DEF Call, Thing
  <2>5. Page!Effect(meant, q) = Page!GroupDeleted(meant, g)
    BY EffectIs
  <2>6. Page!Send(s, q, {g}, Page!Effect(meant, q)) /\ dialog = Page!NoDialog /\ dialog' = dialog
    BY <2>1, <2>5 DEF Page!Delete
  <2>7. Deleting(q, {g}, Page!Effect(meant, q))
    BY <2>6 DEF Deleting
  <2> HIDE DEF q
  <2> QED  BY <1>1, <2>3, <2>6, <2>7
<1> QED  BY <1>2, <1>3, <1>4

LEMMA Acts == ASSUME PageTyped, NEW s \in Slot, Page!Act(s) PROVE Acted(s)
BY CreateActs, EditActs, AddActs, ChipActs, DeleteActs DEF Page!Act

----------------------------------------------------------------------------
(* The page: a copy at rest is what is stored.                             *)

\* A query that does not show what is stored is about to be asked for again, has been, or is
\* answered with what is stored.
OnItsWay(name) ==
  \/ \E s \in Slot : sent[s].phase = "done" /\ name \in Page!Invalidated(sent[s].call)
  \/ query[name].fetch = Page!Asked
  \/ query[name].fetch = Page!Answered(Page!Data(name))
  \/ query[name].fetch = Page!Idle /\ query[name].shown = Page!Data(name)

CopyInv == \A name \in Page!Query : OnItsWay(name)

PageKnown == at = "page" => PageTyped /\ CopyInv

LEMMA QueryTyped ==
  ASSUME PageTyped, NEW name \in Page!Query
  PROVE  /\ query[name] \in QueryOf(AnyRows) \cup QueryOf(SUBSET Room)
         /\ query[name].fetch.phase = "answered" => query[name].fetch # Page!Idle /\ query[name].fetch # Page!Asked
         /\ query[name].fetch = Page!Asked => query[name].fetch # Page!Idle
BY DEF PageTyped, QueryOf, Page!Idle, Page!Asked

LEMMA SentIs ==
  ASSUME PageTyped, NEW s \in Slot
  PROVE  /\ sent[s] \in {Page!NoRequest} \cup Sent
         /\ sent[s] # Page!NoRequest => sent[s].call \in Call /\ sent[s].touches \in SUBSET Thing
         /\ sent[s].phase \in {"sent", "done", "refused"} => sent[s] # Page!NoRequest /\ sent[s] \in Sent
         /\ sent[s] # Page!NoRequest => sent[s].phase \in {"sent", "done", "refused"}
         /\ \A ph \in {"sent", "done", "refused"} : sent[s] # Page!NoRequest => [sent[s] EXCEPT !.phase = ph] \in Sent
BY DEF PageTyped, Sent, Page!NoRequest

LEMMA PageStarts == ASSUME Page!Init PROVE PageTyped /\ CopyInv
<1>1. PICK r \in Room, Z \in SUBSET PageZone, G \in SUBSET Group :
        \E place1 \in [PageDevice -> {Page!Nowhere} \cup [room : {r}, zone : {Null} \cup Z]],
           members \in [G -> SUBSET PageDevice] :
         shown = [rooms |-> {r}, zoneRoom |-> [z \in Z |-> r], place |-> place1, members |-> members]
  BY DEF Page!Init
<1>2. PICK place1 \in [PageDevice -> {Page!Nowhere} \cup [room : {r}, zone : {Null} \cup Z]],
           members \in [G -> SUBSET PageDevice] :
         shown = [rooms |-> {r}, zoneRoom |-> [z \in Z |-> r], place |-> place1, members |-> members]
  BY <1>1
<1>3. place1 \in [PageDevice -> Page!Place]
  BY DEF Page!Place, Page!Nowhere
<1>4. [z \in Z |-> r] \in Maps(PageZone, ARoom) /\ members \in Maps(Group, SUBSET PageDevice)
  BY InMaps DEF ARoom
<1>5. shown \in AnyRows
  <2> DEFINE b == [z \in Z |-> r]
  <2>1. b \in Maps(PageZone, ARoom) /\ {r} \in SUBSET Room
    BY <1>4
  <2>2. shown = [rooms |-> {r}, zoneRoom |-> b, place |-> place1, members |-> members]
    BY <1>2
  <2> HIDE DEF b
  <2>3. Becomes(shown, {r}, b, place1, members)
    BY <2>1, <2>2, <1>3, <1>4, RowsMade
  <2> QED  BY <2>3 DEF Becomes
<1>6. query = [name \in Page!Query |-> [shown |-> Page!Data(name), fetch |-> Page!Idle]]
  BY DEF Page!Init
<1>7. query["hierarchy"] = [shown |-> shown, fetch |-> Page!Idle] /\ query["rooms"] = [shown |-> shown.rooms, fetch |-> Page!Idle]
  BY <1>6 DEF Page!Query, Page!Data
<1>8. query["hierarchy"] \in QueryOf(AnyRows) /\ query["rooms"] \in QueryOf(SUBSET Room)
  BY <1>5, <1>7, RowsAre DEF QueryOf
<1>9. query \in [Page!Query -> QueryOf(AnyRows) \cup QueryOf(SUBSET Room)]
  BY <1>6, <1>7, <1>8 DEF Page!Query
<1>10. dialog \in Dialog /\ meant \in AnyRows /\ sent \in [Slot -> {Page!NoRequest} \cup Sent]
  BY <1>5 DEF Page!Init, Dialog
<1>11. CopyInv
  BY <1>6 DEF CopyInv, OnItsWay
<1> QED  BY <1>5, <1>8, <1>9, <1>10, <1>11 DEF PageTyped

LEMMA OpenKeeps == ASSUME PageTyped, CopyInv, Page!Open PROVE PageTyped' /\ CopyInv'
<1>0. UNCHANGED <<shown, query, sent, meant>>
  BY DEF Page!Open, Page!OpenCreate, Page!OpenFor, Page!Cancel
<1>1. ASSUME NEW type \in {"room", "zone", "group"}, Page!OpenCreate(type) PROVE dialog' \in Dialog
  BY <1>1 DEF Page!OpenCreate, Dialog
<1>2. ASSUME NEW type \in {"room", "zone", "group"}, NEW kind \in {"add", "edit"}, Page!OpenFor(kind, type)
             PROVE dialog' \in Dialog
  <2>1. PICK id \in Page!Listed(type) : dialog' = [kind |-> kind, type |-> type, id |-> id]
    BY <1>2 DEF Page!OpenFor
  <2>2. \/ type = "room" /\ id \in Room
        \/ type = "zone" /\ id \in PageZone
        \/ type = "group" /\ id \in Group
    BY SeenIs DEF Page!Listed
  <2> QED  BY <2>1, <2>2 DEF Dialog
<1>3. ASSUME Page!Cancel PROVE dialog' \in Dialog
  BY <1>3 DEF Page!Cancel, Dialog
<1>4. dialog' \in Dialog
  BY <1>1, <1>2, <1>3 DEF Page!Open
<1>5. PageTyped'
  BY <1>0, <1>4 DEF PageTyped
<1>6. CopyInv'
  BY <1>0 DEF CopyInv, OnItsWay, Page!Data
<1> QED  BY <1>5, <1>6

LEMMA ActKeeps == ASSUME PageTyped, CopyInv, NEW s \in Slot, Page!Act(s) PROVE PageTyped' /\ CopyInv'
<1>1. Acted(s)
  BY Acts
<1>2. PICK q \in Call, things \in SUBSET Thing, meaning \in AnyRows : Page!Send(s, q, things, meaning)
  BY <1>1 DEF Acted
<1>3. /\ sent[s] = Page!NoRequest
      /\ sent' = [sent EXCEPT ![s] = [phase |-> "sent", touches |-> things, call |-> q]]
      /\ meant' = meaning
      /\ UNCHANGED <<shown, query, failed>>
  BY <1>2 DEF Page!Send
<1>4. dialog' \in Dialog
  <2>1. dialog \in Dialog /\ Page!NoDialog \in Dialog
    BY DEF PageTyped, Dialog
  <2> QED  BY <1>1, <2>1, DialogIs DEF DialogOn, Acted
<1>5. [phase |-> "sent", touches |-> things, call |-> q] \in Sent
  BY DEF Sent
<1>6. PageTyped'
  BY <1>3, <1>4, <1>5 DEF PageTyped
<1>7. \A t \in Slot : sent[t].phase = "done" => sent'[t] = sent[t]
  BY <1>3 DEF PageTyped, Page!NoRequest
<1>8. CopyInv'
  BY <1>3, <1>7 DEF CopyInv, OnItsWay, Page!Data
<1> QED  BY <1>6, <1>8

LEMMA ServeKeeps == ASSUME PageTyped, CopyInv, NEW s \in Slot, Page!Serve(s) PROVE PageTyped' /\ CopyInv'
<1> DEFINE q == sent[s].call
<1>1. sent[s].phase = "sent" /\ sent[s] # Page!NoRequest /\ q \in Call /\ shown \in AnyRows /\ UNCHANGED <<query, dialog, meant>>
  BY SentIs DEF Page!Serve, PageTyped
<1>2. Page!Effect(shown, q) \in AnyRows /\ (q.kind \notin {"createRoom", "deleteRoom"} => Page!Effect(shown, q).rooms = shown.rooms)
  BY <1>1, EffectsAreRows
<1>3. PICK ph \in {"done", "refused"} :
        /\ sent' = [sent EXCEPT ![s] = [sent[s] EXCEPT !.phase = ph]]
        /\ \/ ph = "done" /\ shown' = Page!Effect(shown, q)
           \/ ph = "refused" /\ shown' = shown
  BY DEF Page!Serve, Page!Phase
<1>4. sent[s] \in Sent /\ [sent[s] EXCEPT !.phase = ph] \in Sent
  BY <1>1, SentIs
<1>5. PageTyped'
  BY <1>1, <1>2, <1>3, <1>4 DEF PageTyped
<1>6. sent'[s].phase = ph /\ sent'[s].call = q /\ \A t \in Slot : sent[t].phase = "done" => sent'[t] = sent[t]
  BY <1>1, <1>3, <1>4 DEF PageTyped, Sent
<1>7. ASSUME NEW name \in Page!Query PROVE OnItsWay(name)'
  <2>1. OnItsWay(name)
    BY DEF CopyInv
  <2>2. CASE \E t \in Slot : sent[t].phase = "done" /\ name \in Page!Invalidated(sent[t].call)
    BY <1>6, <2>2 DEF OnItsWay
  <2>3. CASE shown' = shown
    BY <1>1, <1>6, <2>1, <2>3 DEF OnItsWay, Page!Data
  <2>4. CASE ph = "done" /\ name \in Page!Invalidated(q)
    BY <1>6, <2>4 DEF OnItsWay
  <2>5. CASE ph = "done" /\ name \notin Page!Invalidated(q) /\ shown' = Page!Effect(shown, q)
    <3>1. name = "rooms" /\ q.from \notin {"create", "edit"} /\ q.kind # "deleteRoom"
      BY <2>5 DEF Page!Invalidated, Page!Query
    <3>2. q.kind \notin {"createRoom", "deleteRoom"}
      BY <1>1, <3>1, CallsAre
    <3>3. Page!Data(name)' = Page!Data(name)
      BY <1>2, <2>5, <3>1, <3>2 DEF Page!Data
    <3> QED  BY <1>1, <1>6, <2>1, <3>3 DEF OnItsWay
  <2> QED  BY <1>3, <2>2, <2>3, <2>4, <2>5
<1> QED  BY <1>5, <1>7 DEF CopyInv

LEMMA SucceedKeeps == ASSUME PageTyped, CopyInv, NEW s \in Slot, Page!Succeed(s) PROVE PageTyped' /\ CopyInv'
<1> DEFINE q == sent[s].call
<1>1. /\ sent' = [sent EXCEPT ![s] = Page!NoRequest]
      /\ UNCHANGED <<shown, meant>>
      /\ query' = [name \in Page!Query |-> IF name \in Page!Invalidated(q)
                                           THEN [query[name] EXCEPT !.fetch = Page!Asked] ELSE query[name]]
      /\ dialog' = dialog \/ dialog' = Page!NoDialog
  BY DEF Page!Succeed
<1>2. dialog' \in Dialog
  BY <1>1 DEF PageTyped, Dialog
<1>3. ASSUME NEW Copy, NEW k \in QueryOf(Copy)
             PROVE [k EXCEPT !.fetch = Page!Asked] \in QueryOf(Copy) /\ [k EXCEPT !.fetch = Page!Asked].fetch = Page!Asked
  BY DEF QueryOf
<1>4. query'["hierarchy"] \in QueryOf(AnyRows) /\ query'["rooms"] \in QueryOf(SUBSET Room)
  BY <1>1, <1>3 DEF PageTyped, Page!Query
<1>5. query' \in [Page!Query -> QueryOf(AnyRows) \cup QueryOf(SUBSET Room)]
  BY <1>1, <1>4 DEF Page!Query
<1>6. PageTyped'
  BY <1>1, <1>2, <1>4, <1>5 DEF PageTyped
<1>7. ASSUME NEW name \in Page!Query PROVE OnItsWay(name)'
  <2>1. OnItsWay(name) /\ query[name] \in QueryOf(AnyRows) \cup QueryOf(SUBSET Room)
    BY QueryTyped DEF CopyInv
  <2>2. CASE name \in Page!Invalidated(q)
    BY <1>1, <1>3, <2>1, <2>2 DEF OnItsWay
  <2>3. CASE name \notin Page!Invalidated(q)
    <3>1. query'[name] = query[name] /\ \A t \in Slot : t # s => sent'[t] = sent[t]
      BY <1>1, <2>3 DEF PageTyped
    <3> QED  BY <1>1, <2>1, <2>3, <3>1 DEF OnItsWay, Page!Data
  <2> QED  BY <2>2, <2>3
<1> QED  BY <1>6, <1>7 DEF CopyInv

LEMMA FailKeeps == ASSUME PageTyped, CopyInv, NEW s \in Slot, Page!Fail(s) PROVE PageTyped' /\ CopyInv'
<1>1. /\ sent' = [sent EXCEPT ![s] = Page!NoRequest]
      /\ sent[s].phase \in {"sent", "refused"}
      /\ UNCHANGED <<shown, query, meant>>
      /\ \/ dialog' = dialog
         \/ dialog.kind = "create" /\ dialog' = [dialog EXCEPT !.pending = Null]
  BY DEF Page!Fail
<1>2. dialog' \in Dialog
  BY <1>1, DialogIs DEF PageTyped
<1>3. PageTyped'
  BY <1>1, <1>2 DEF PageTyped
<1>4. \A t \in Slot : sent[t].phase = "done" => sent'[t] = sent[t]
  BY <1>1 DEF PageTyped
<1>5. CopyInv'
  BY <1>1, <1>4 DEF CopyInv, OnItsWay, Page!Data
<1> QED  BY <1>3, <1>5

LEMMA FetchKeeps ==
  ASSUME PageTyped, CopyInv, NEW name \in Page!Query, Page!ServeFetch(name) \/ Page!Deliver(name)
  PROVE  PageTyped' /\ CopyInv'
<1>0. UNCHANGED <<shown, dialog, sent, meant>>
  BY DEF Page!ServeFetch, Page!Deliver
<1>1. CASE Page!ServeFetch(name)
  <2>1. /\ query[name].fetch = Page!Asked
        /\ query' = [query EXCEPT ![name] = [query[name] EXCEPT !.fetch = Page!Answered(Page!Data(name))]]
    BY <1>1 DEF Page!ServeFetch
  <2>2. ASSUME NEW Copy, NEW k \in QueryOf(Copy), NEW d \in Copy
        PROVE  [k EXCEPT !.fetch = Page!Answered(d)] \in QueryOf(Copy) /\ [k EXCEPT !.fetch = Page!Answered(d)].fetch = Page!Answered(d)
    BY DEF QueryOf, Page!Answered
  <2>3. shown \in AnyRows /\ shown.rooms \in SUBSET Room
    BY RowsAre DEF PageTyped
  <2>4. query'["hierarchy"] \in QueryOf(AnyRows) /\ query'["rooms"] \in QueryOf(SUBSET Room)
    BY <2>1, <2>2, <2>3 DEF PageTyped, Page!Query, Page!Data
  <2>5. query' \in [Page!Query -> QueryOf(AnyRows) \cup QueryOf(SUBSET Room)]
    BY <2>1, <2>4 DEF PageTyped, Page!Query
  <2>6. query'[name].fetch = Page!Answered(Page!Data(name))
    BY <2>1, <2>2, <2>3 DEF PageTyped, Page!Query, Page!Data
  <2>7. \A n \in Page!Query : n # name => query'[n] = query[n]
    BY <2>1 DEF PageTyped
  <2>8. PageTyped'
    BY <1>0, <2>4, <2>5 DEF PageTyped
  <2>9. CopyInv'
    BY <1>0, <2>6, <2>7 DEF CopyInv, OnItsWay, Page!Data
  <2> QED  BY <2>8, <2>9
<1>2. CASE Page!Deliver(name)
  <2>1. /\ query[name].fetch.phase = "answered"
        /\ query' = [query EXCEPT ![name] = [shown |-> query[name].fetch.data, fetch |-> Page!Idle]]
    BY <1>2 DEF Page!Deliver
  <2>2. ASSUME NEW Copy, NEW k \in QueryOf(Copy), k.fetch.phase = "answered"
        PROVE  [shown |-> k.fetch.data, fetch |-> Page!Idle] \in QueryOf(Copy)
    BY <2>2 DEF QueryOf, Page!Idle, Page!Asked
  <2>3. query'["hierarchy"] \in QueryOf(AnyRows) /\ query'["rooms"] \in QueryOf(SUBSET Room)
    BY <2>1, <2>2 DEF PageTyped, Page!Query
  <2>4. query' \in [Page!Query -> QueryOf(AnyRows) \cup QueryOf(SUBSET Room)]
    BY <2>1, <2>3 DEF PageTyped, Page!Query
  <2>5. query'[name].fetch = Page!Idle /\ query'[name].shown = query[name].fetch.data
    BY <2>1 DEF PageTyped
  <2>6. query[name].fetch # Page!Asked /\ query[name].fetch # Page!Idle
    BY <2>1, QueryTyped
  <2>7. OnItsWay(name)'
    <3>1. CASE \E s \in Slot : sent[s].phase = "done" /\ name \in Page!Invalidated(sent[s].call)
      BY <1>0, <3>1 DEF OnItsWay
    <3>2. CASE query[name].fetch = Page!Answered(Page!Data(name))
      <4>1. query[name].fetch.data = Page!Data(name)
        BY <3>2 DEF Page!Answered
      <4> QED  BY <1>0, <2>5, <4>1 DEF OnItsWay, Page!Data
    <3> QED  BY <2>6, <3>1, <3>2 DEF CopyInv, OnItsWay
  <2>8. \A n \in Page!Query : n # name => query'[n] = query[n]
    BY <2>1 DEF PageTyped
  <2>9. PageTyped'
    BY <1>0, <2>3, <2>4 DEF PageTyped
  <2>10. CopyInv'
    BY <1>0, <2>7, <2>8 DEF CopyInv, OnItsWay, Page!Data
  <2> QED  BY <2>9, <2>10
<1> QED  BY <1>1, <1>2

LEMMA PageIsKnown == SpecEither => []PageKnown
<1>1. InitEither => PageKnown
  BY PageStarts DEF InitEither, PageKnown
<1>2. ASSUME PageKnown, [NextEither]_<<at, vars, pageVars>> PROVE PageKnown'
  <2>1. CASE NextEither
    <3>1. CASE at = "page" /\ Page!Next
      <4>1. PageTyped /\ CopyInv
        BY <1>2, <3>1 DEF PageKnown
      <4>2. PageTyped' /\ CopyInv'
        BY <3>1, <4>1, OpenKeeps, ActKeeps, ServeKeeps, SucceedKeeps, FailKeeps, FetchKeeps DEF Page!Next
      <4> QED  BY <4>2 DEF PageKnown
    <3>2. CASE at = "server" /\ at' = at
      BY <3>2 DEF PageKnown
    <3> QED  BY <2>1, <3>1, <3>2 DEF NextEither
  <2>2. CASE UNCHANGED <<at, vars, pageVars>>
    BY <1>2, <2>2 DEF PageKnown, pageVars, PageTyped, CopyInv, OnItsWay, Page!Data
  <2> QED  BY <1>2, <2>1, <2>2
<1> QED  BY <1>1, <1>2, PTL DEF SpecEither

\* A page of rooms at rest shows what is stored: every request has the queries it changes asked
\* for again, and an answer that was read before is thrown away with the fetch it is of.
THEOREM PageFresh == SpecEither => []PageIsFresh
<1>1. PageKnown => PageIsFresh
  <2>1. ASSUME at = "page", PageTyped, CopyInv, Page!Quiet, NEW name \in Page!Query
        PROVE  query[name].shown = Page!Data(name)
    <3>1. OnItsWay(name) /\ query[name].fetch = Page!Idle
      BY <2>1 DEF CopyInv, Page!Quiet
    <3>2. \A s \in Slot : sent[s] = Page!NoRequest
      BY <2>1 DEF Page!Quiet, Page!InFlight
    <3>3. Page!Idle # Page!Asked /\ \A d : Page!Idle # Page!Answered(d)
      BY DEF Page!Idle, Page!Asked, Page!Answered
    <3> QED  BY <3>1, <3>2, <3>3 DEF OnItsWay, Page!NoRequest
  <2> QED  BY <2>1 DEF PageKnown, PageIsFresh, Page!QuietPageIsFresh
<1> QED  BY <1>1, PageIsKnown, PTL

----------------------------------------------------------------------------
(* The page: what a request does to the rows, row by row.                  *)

\* There is such a thing.
Present(s, x) == x \in PageDevice \cup s.rooms \cup DOMAIN s.zoneRoom \cup DOMAIN s.members

\* Each zone is of a room that is there, and so is each place of a device; and the zone of a
\* device lies in the device's room.
ConsistentOf(a, b, c) ==
  /\ \A z \in DOMAIN b : b[z] \in a
  /\ \A d \in PageDevice :
       /\ c[d].room \in a \cup {Null}
       /\ c[d].zone # Null => /\ c[d].zone \in DOMAIN b
                             /\ b[c[d].zone] = c[d].room
Consistent(s) == ConsistentOf(s.rooms, s.zoneRoom, s.place)

Zoned(s) == \A z \in DOMAIN s.zoneRoom : s.zoneRoom[z] \in Room

\* The fields of a row after a request, each from what it was.
RoomAfter(q, x, a) ==
  IF q.kind = "createRoom" /\ x = q.id THEN x
  ELSE IF q.kind = "deleteRoom" /\ x = q.id THEN Null ELSE a
ZoneAfter(q, x, b) ==
  IF q.kind = "createZone" /\ x = q.id THEN q.room
  ELSE IF q.kind = "putZone" /\ x = q.id /\ b # Null THEN q.room
  ELSE IF q.kind = "deleteZone" /\ x = q.id THEN Null
  ELSE IF q.kind = "deleteRoom" /\ b = q.id THEN Null ELSE b
PlaceAfter(q, x, c) ==
  IF x \notin PageDevice THEN c
  ELSE IF q.kind = "assign" /\ x = q.id THEN q.to
  ELSE IF q.kind = "deleteRoom" /\ c.room = q.id THEN Page!Nowhere
  ELSE IF q.kind = "deleteZone" /\ c.zone = q.id THEN [room |-> c.room, zone |-> Null] ELSE c
MembersAfter(q, x, e) ==
  IF q.kind = "createGroup" /\ x = q.id THEN {}
  ELSE IF q.kind = "putGroup" /\ x = q.id /\ e # Null THEN q.devices
  ELSE IF q.kind = "deleteGroup" /\ x = q.id THEN Null ELSE e
RowAfter(q, x, w) ==
  [room |-> RoomAfter(q, x, w.room), zone |-> ZoneAfter(q, x, w.zone),
   place |-> PlaceAfter(q, x, w.place), members |-> MembersAfter(q, x, w.members)]

\* What a map has at a key.
At(f, x) == IF x \in DOMAIN f THEN f[x] ELSE Null
RoomAt(a, x) == IF x \in a THEN x ELSE Null
PlaceAt(c, x) == IF x \in PageDevice THEN c[x] ELSE Null

LEMMA AtWith ==
  ASSUME NEW f, NEW x, NEW k, NEW y
  PROVE  At(Page!With(f, k, y), x) = IF x = k THEN y ELSE At(f, x)
BY DEF At, Page!With
LEMMA AtWithout ==
  ASSUME NEW f, NEW x, NEW S
  PROVE  At(Page!Without(f, S), x) = IF x \in S THEN Null ELSE At(f, x)
BY DEF At, Page!Without
LEMMA AtPut ==
  ASSUME NEW f, NEW x, NEW k, NEW y
  PROVE  At([f EXCEPT ![k] = y], x) = IF x = k /\ x \in DOMAIN f THEN y ELSE At(f, x)
BY DEF At

\* These are the fields of a row.
RowFields(w, a, b, c, e) == w = [room |-> a, zone |-> b, place |-> c, members |-> e]

LEMMA RowIs ==
  ASSUME NEW s, NEW x
  PROVE  RowFields(Page!Row(s, x), RoomAt(s.rooms, x), At(s.zoneRoom, x), PlaceAt(s.place, x), At(s.members, x))
BY DEF RowFields, Page!Row, RoomAt, At, PlaceAt

LEMMA RowMade ==
  ASSUME NEW e, NEW a, NEW b, NEW c, NEW d, Becomes(e, a, b, c, d), NEW x
  PROVE  RowFields(Page!Row(e, x), RoomAt(a, x), At(b, x), PlaceAt(c, x), At(d, x))
BY RowIs DEF Becomes

LEMMA RowAfterIs ==
  ASSUME NEW q, NEW x, NEW w, NEW a, NEW b, NEW c, NEW e, RowFields(w, a, b, c, e)
  PROVE  RowFields(RowAfter(q, x, w), RoomAfter(q, x, a), ZoneAfter(q, x, b), PlaceAfter(q, x, c), MembersAfter(q, x, e))
BY DEF RowFields, RowAfter

\* A request has done to a row what RowAfter says.
LEMMA RowChanged ==
  ASSUME NEW s, NEW q, NEW x, NEW f, NEW a, NEW b, NEW c, NEW d, Becomes(f, a, b, c, d),
         RoomAt(a, x) = RoomAfter(q, x, RoomAt(s.rooms, x)), At(b, x) = ZoneAfter(q, x, At(s.zoneRoom, x)),
         PlaceAt(c, x) = PlaceAfter(q, x, PlaceAt(s.place, x)), At(d, x) = MembersAfter(q, x, At(s.members, x))
  PROVE  Page!Row(f, x) = RowAfter(q, x, Page!Row(s, x))
<1>1. RowFields(Page!Row(f, x), RoomAt(a, x), At(b, x), PlaceAt(c, x), At(d, x))
  BY RowMade
<1>2. RowFields(RowAfter(q, x, Page!Row(s, x)), RoomAfter(q, x, RoomAt(s.rooms, x)), ZoneAfter(q, x, At(s.zoneRoom, x)),
                PlaceAfter(q, x, PlaceAt(s.place, x)), MembersAfter(q, x, At(s.members, x)))
  BY RowIs, RowAfterIs
<1> QED  BY <1>1, <1>2 DEF RowFields

\* Only requests of their kinds change the fields of a row.
LEMMA FieldsUntouched ==
  ASSUME NEW q, NEW x
  PROVE  /\ q.kind \notin {"createRoom", "deleteRoom"} => \A a : RoomAfter(q, x, a) = a
         /\ q.kind \notin {"createZone", "putZone", "deleteZone", "deleteRoom"} => \A b : ZoneAfter(q, x, b) = b
         /\ q.kind \notin {"assign", "deleteRoom", "deleteZone"} => \A c : PlaceAfter(q, x, c) = c
         /\ q.kind \notin {"createGroup", "putGroup", "deleteGroup"} => \A e : MembersAfter(q, x, e) = e
BY DEF RoomAfter, ZoneAfter, PlaceAfter, MembersAfter

LEMMA MapValues ==
  ASSUME NEW K, NEW V, NEW f \in Maps(K, V), NEW x
  PROVE  At(f, x) \in V \cup {Null} /\ (Null \notin V => (x \in DOMAIN f <=> At(f, x) # Null))
BY MapIs DEF At

LEMMA ZonedRows ==
  ASSUME NEW s \in AnyRows, Consistent(s) \/ Zoned(s)
  PROVE  /\ Zoned(s) /\ Null \notin Room
         /\ \A x : x \in DOMAIN s.zoneRoom <=> At(s.zoneRoom, x) # Null
         /\ \A x : x \in DOMAIN s.members <=> At(s.members, x) # Null
<1>1. s.rooms \subseteq Room /\ s.members \in Maps(Group, SUBSET PageDevice)
  BY RowsAre
<1>2. Zoned(s) /\ Null \notin Room /\ Null \notin SUBSET PageDevice
  BY <1>1, PageAssumption DEF Consistent, ConsistentOf, Zoned
<1>3. \A x : x \in DOMAIN s.zoneRoom <=> At(s.zoneRoom, x) # Null
  BY <1>2 DEF Zoned, At
<1> QED  BY <1>1, <1>2, <1>3, MapValues

\* What a request does to a row depends on nothing but the row.
LEMMA RowByRow ==
  ASSUME NEW s \in AnyRows, Consistent(s), NEW q \in Call, NEW x \in Thing
  PROVE  Page!Row(Page!Effect(s, q), x) = RowAfter(q, x, Page!Row(s, x))
<1>1. CASE q.kind = "createRoom" /\ q.id \in Room
  <2>1. Becomes(Page!Effect(s, q), s.rooms \cup {q.id}, s.zoneRoom, s.place, s.members)
    BY <1>1, CreateRoomDoes
  <2>2. RoomAt(s.rooms \cup {q.id}, x) = RoomAfter(q, x, RoomAt(s.rooms, x))
    BY <1>1 DEF RoomAt, RoomAfter
  <2> QED  BY <1>1, <2>1, <2>2, RowChanged, FieldsUntouched
<1>2. CASE q.kind = "createZone" /\ q.id \in PageZone /\ q.room \in Room
  <2>1. Becomes(Page!Effect(s, q), s.rooms, Page!With(s.zoneRoom, q.id, q.room), s.place, s.members)
    BY <1>2, CreateZoneDoes
  <2>2. At(Page!With(s.zoneRoom, q.id, q.room), x) = ZoneAfter(q, x, At(s.zoneRoom, x))
    <3>1. At(Page!With(s.zoneRoom, q.id, q.room), x) = IF x = q.id THEN q.room ELSE At(s.zoneRoom, x)
      BY AtWith
    <3> QED  BY <1>2, <3>1 DEF ZoneAfter
  <2> QED  BY <1>2, <2>1, <2>2, RowChanged, FieldsUntouched
<1>3. CASE q.kind = "createGroup" /\ q.id \in Group
  <2>1. Becomes(Page!Effect(s, q), s.rooms, s.zoneRoom, s.place, Page!With(s.members, q.id, {}))
    BY <1>3, CreateGroupDoes
  <2>2. At(Page!With(s.members, q.id, {}), x) = MembersAfter(q, x, At(s.members, x))
    <3>1. At(Page!With(s.members, q.id, {}), x) = IF x = q.id THEN {} ELSE At(s.members, x)
      BY AtWith
    <3> QED  BY <1>3, <3>1 DEF MembersAfter
  <2> QED  BY <1>3, <2>1, <2>2, RowChanged, FieldsUntouched
<1>4. CASE q.kind = "putRoom"
  <2>1. Page!Effect(s, q) = s
    BY <1>4, PutRoomDoes
  <2>2. Becomes(s, s.rooms, s.zoneRoom, s.place, s.members)
    BY DEF Becomes
  <2> QED  BY <1>4, <2>1, <2>2, RowChanged, FieldsUntouched
<1>5. CASE q.kind = "putZone" /\ q.room \in ARoom
  <2>1. Becomes(Page!Effect(s, q), s.rooms, [s.zoneRoom EXCEPT ![q.id] = q.room], s.place, s.members)
    BY <1>5, PutZoneDoes
  <2>2. x \in DOMAIN s.zoneRoom <=> At(s.zoneRoom, x) # Null
    BY ZonedRows
  <2>3. At([s.zoneRoom EXCEPT ![q.id] = q.room], x) = ZoneAfter(q, x, At(s.zoneRoom, x))
    <3>1. At([s.zoneRoom EXCEPT ![q.id] = q.room], x) = IF x = q.id /\ x \in DOMAIN s.zoneRoom THEN q.room ELSE At(s.zoneRoom, x)
      BY AtPut
    <3> QED  BY <1>5, <2>2, <3>1 DEF ZoneAfter
  <2> QED  BY <1>5, <2>1, <2>3, RowChanged, FieldsUntouched
<1>6. CASE q.kind = "putGroup" /\ q.devices \in SUBSET PageDevice
  <2>1. Becomes(Page!Effect(s, q), s.rooms, s.zoneRoom, s.place, [s.members EXCEPT ![q.id] = q.devices])
    BY <1>6, PutGroupDoes
  <2>2. x \in DOMAIN s.members <=> At(s.members, x) # Null
    BY ZonedRows
  <2>3. At([s.members EXCEPT ![q.id] = q.devices], x) = MembersAfter(q, x, At(s.members, x))
    <3>1. At([s.members EXCEPT ![q.id] = q.devices], x) = IF x = q.id /\ x \in DOMAIN s.members THEN q.devices ELSE At(s.members, x)
      BY DEF At
    <3> QED  BY <1>6, <2>2, <3>1 DEF MembersAfter
  <2> QED  BY <1>6, <2>1, <2>3, RowChanged, FieldsUntouched
<1>7. CASE q.kind = "assign" /\ q.id \in PageDevice /\ q.to \in Page!Place
  <2>1. Becomes(Page!Effect(s, q), s.rooms, s.zoneRoom, [s.place EXCEPT ![q.id] = q.to], s.members)
    BY <1>7, AssignDoes, EffectIs
  <2>2. s.place \in [PageDevice -> Page!Place]
    BY RowsAre
  <2>3. PlaceAt([s.place EXCEPT ![q.id] = q.to], x) = PlaceAfter(q, x, PlaceAt(s.place, x))
    BY <1>7, <2>2 DEF PlaceAfter, PlaceAt
  <2> QED  BY <1>7, <2>1, <2>3, RowChanged, FieldsUntouched
<1>8. CASE q.kind = "deleteRoom" /\ q.id \in Room
  <2>1. Becomes(Page!Effect(s, q), s.rooms \ {q.id}, Page!Without(s.zoneRoom, Page!ZonesOf(s, q.id)), Expelled(s, q.id), s.members)
    BY <1>8, DeleteRoomDoes, EffectIs
  <2>2. RoomAt(s.rooms \ {q.id}, x) = RoomAfter(q, x, RoomAt(s.rooms, x))
    BY <1>8 DEF RoomAt, RoomAfter
  <2>3. x \in Page!ZonesOf(s, q.id) <=> At(s.zoneRoom, x) = q.id
    BY <1>8, ZonedRows DEF Page!ZonesOf, At
  <2>4. At(Page!Without(s.zoneRoom, Page!ZonesOf(s, q.id)), x) = ZoneAfter(q, x, At(s.zoneRoom, x))
    BY <1>8, <2>3, AtWithout DEF ZoneAfter
  <2>5. ASSUME x \in PageDevice
        PROVE  Expelled(s, q.id)[x] = IF s.place[x].room = q.id THEN Page!Nowhere ELSE s.place[x]
    <3>1. s.place[x] \in Page!Place
      BY <2>5, RowsAre
    <3>2. s.place[x].zone \in Page!ZonesOf(s, q.id) => s.place[x].zone # Null
      BY <1>8, PageAssumption, RowsAre, MapIs DEF Page!ZonesOf
    <3>3. s.place[x].zone # Null => (s.place[x].zone \in Page!ZonesOf(s, q.id) <=> s.place[x].room = q.id)
      BY <2>5 DEF Consistent, ConsistentOf, Page!ZonesOf
    <3> QED  BY <2>5, <3>1, <3>2, <3>3 DEF Expelled, Page!Place, Page!Nowhere
  <2>6. PlaceAt(Expelled(s, q.id), x) = PlaceAfter(q, x, PlaceAt(s.place, x))
    BY <1>8, <2>5 DEF PlaceAt, PlaceAfter
  <2> QED  BY <1>8, <2>1, <2>2, <2>4, <2>6, RowChanged, FieldsUntouched
<1>9. CASE q.kind = "deleteZone" /\ q.id \in PageZone
  <2>1. Becomes(Page!Effect(s, q), s.rooms, Page!Without(s.zoneRoom, {q.id}), Unzoned(s, q.id), s.members)
    BY <1>9, DeleteZoneDoes, EffectIs
  <2>2. At(Page!Without(s.zoneRoom, {q.id}), x) = ZoneAfter(q, x, At(s.zoneRoom, x))
    BY <1>9, AtWithout DEF ZoneAfter
  <2>3. s.place \in [PageDevice -> Page!Place]
    BY RowsAre
  <2>4. PlaceAt(Unzoned(s, q.id), x) = PlaceAfter(q, x, PlaceAt(s.place, x))
    BY <1>9, <2>3 DEF Unzoned, PlaceAfter, PlaceAt, Page!Place
  <2> QED  BY <1>9, <2>1, <2>2, <2>4, RowChanged, FieldsUntouched
<1>10. CASE q.kind = "deleteGroup" /\ q.id \in Group
  <2>1. Becomes(Page!Effect(s, q), s.rooms, s.zoneRoom, s.place, Page!Without(s.members, {q.id}))
    BY <1>10, DeleteGroupDoes, EffectIs
  <2>2. At(Page!Without(s.members, {q.id}), x) = MembersAfter(q, x, At(s.members, x))
    BY <1>10, AtWithout DEF MembersAfter
  <2> QED  BY <1>10, <2>1, <2>2, RowChanged, FieldsUntouched
<1> QED  BY <1>1, <1>2, <1>3, <1>4, <1>5, <1>6, <1>7, <1>8, <1>9, <1>10, CallsAre

\* What rows tell, they tell alike where they are the same.
LEMMA SameTells ==
  ASSUME NEW s \in AnyRows, NEW t \in AnyRows, Zoned(s), Zoned(t), NEW x, Page!Row(s, x) = Page!Row(t, x)
  PROVE  /\ x # Null => (x \in s.rooms <=> x \in t.rooms)
         /\ At(s.zoneRoom, x) = At(t.zoneRoom, x)
         /\ x \in DOMAIN s.zoneRoom <=> x \in DOMAIN t.zoneRoom
         /\ x \in DOMAIN s.zoneRoom => s.zoneRoom[x] = t.zoneRoom[x]
         /\ x \in PageDevice => s.place[x] = t.place[x]
         /\ At(s.members, x) = At(t.members, x)
         /\ x \in DOMAIN s.members <=> x \in DOMAIN t.members
         /\ x \in DOMAIN s.members => s.members[x] = t.members[x]
<1>1. /\ RoomAt(s.rooms, x) = RoomAt(t.rooms, x) /\ At(s.zoneRoom, x) = At(t.zoneRoom, x)
      /\ PlaceAt(s.place, x) = PlaceAt(t.place, x) /\ At(s.members, x) = At(t.members, x)
  BY RowIs DEF RowFields
<1>2. (x \in DOMAIN s.zoneRoom <=> x \in DOMAIN t.zoneRoom) /\ (x \in DOMAIN s.members <=> x \in DOMAIN t.members)
  BY <1>1, ZonedRows
<1>3. x # Null => (x \in s.rooms <=> x \in t.rooms)
  BY <1>1 DEF RoomAt
<1>4. x \in DOMAIN s.zoneRoom => s.zoneRoom[x] = t.zoneRoom[x]
  BY <1>1, <1>2 DEF At
<1>5. x \in DOMAIN s.members => s.members[x] = t.members[x]
  BY <1>1, <1>2 DEF At
<1>6. x \in PageDevice => s.place[x] = t.place[x]
  BY <1>1 DEF PlaceAt
<1> QED  BY <1>1, <1>2, <1>3, <1>4, <1>5, <1>6

LEMMA SamePresent ==
  ASSUME NEW s \in AnyRows, NEW t \in AnyRows, Zoned(s), Zoned(t), NEW x, x # Null,
         Page!Row(s, x) = Page!Row(t, x)
  PROVE  Present(s, x) <=> Present(t, x)
BY SameTells DEF Present

----------------------------------------------------------------------------
(* The page: requests that may overlap.                                    *)

Creates == {"createRoom", "createZone", "createGroup"}
Bins == {"deleteRoom", "deleteZone", "deleteGroup"}

\* What a request has to do with: what it touches, and what it makes.
Scope(q, T) == T \cup {q.id}

\* A request touches what it names.
Shaped(q, T) ==
  /\ T \subseteq Thing
  /\ q.kind \notin Creates => q.id \in T
  /\ q.kind \in {"createZone", "putZone"} => q.room \in T
  /\ q.kind = "assign" => {q.to.room, q.to.zone} \ {Null} \subseteq T

\* What a request touches is there, what it makes is not; and the room it gives to a zone, to a
\* device with a zone, is the room of the zone.
Ready(s, q, T) ==
  /\ Shaped(q, T)
  /\ \A x \in T : Present(s, x)
  /\ q.kind \in Creates => ~Present(s, q.id)
  /\ q.kind = "putZone" => s.zoneRoom[q.id] = q.room
  /\ q.kind = "assign" /\ q.to.zone # Null => s.zoneRoom[q.to.zone] = q.to.room

\* A request changes nothing but what it has to do with.
Covered(s, q, T) == \A x \in Thing \ Scope(q, T) : RowAfter(q, x, Page!Row(s, x)) = Page!Row(s, x)

\* An id names a thing of one kind.
LEMMA KindsApart ==
  /\ Null \notin Thing /\ Thing = UNION {PageDevice, Room, PageZone, Group}
  /\ \A x : ~(x \in Room /\ x \in PageZone) /\ ~(x \in Room /\ x \in Group) /\ ~(x \in PageZone /\ x \in Group)
  /\ \A x : x \in PageDevice => x \notin Room \cup PageZone \cup Group
BY PageAssumption DEF Thing

LEMMA PresentIs ==
  ASSUME NEW s \in AnyRows, NEW x
  PROVE  /\ x \in Room => (Present(s, x) <=> x \in s.rooms)
         /\ x \in PageZone => (Present(s, x) <=> x \in DOMAIN s.zoneRoom)
         /\ x \in Group => (Present(s, x) <=> x \in DOMAIN s.members)
         /\ x \in PageDevice => Present(s, x)
         /\ Present(s, x) => x \in Thing
<1>1. s.rooms \subseteq Room /\ DOMAIN s.zoneRoom \subseteq PageZone /\ DOMAIN s.members \subseteq Group
  BY RowsAre, MapIs
<1> QED  BY <1>1, KindsApart DEF Present, Thing

LEMMA ConsistentZoned == ASSUME NEW s \in AnyRows, Consistent(s) PROVE Zoned(s)
BY ZonedRows

LEMMA CallThing ==
  ASSUME NEW q \in Call
  PROVE  /\ q.id \in Thing /\ q.id # Null
         /\ q.kind = "assign" => q.to.room \in ARoom /\ q.to.zone \in PageZone \cup {Null} /\ q.id \in PageDevice
         /\ q.kind \in {"createZone", "putZone"} => q.room \in ARoom /\ q.id \in PageZone
         /\ q.kind = "deleteRoom" => q.id \in Room
         /\ q.kind = "deleteZone" => q.id \in PageZone
<1>1. q.id \in Thing
  BY CallsAre DEF Thing
<1>2. q.kind \in {"createZone", "putZone"} => q.room \in ARoom /\ q.id \in PageZone
  BY CallsAre DEF ARoom
<1>3. q.kind = "assign" => q.to \in Page!Place /\ q.id \in PageDevice
  BY CallsAre
<1>4. (q.kind = "deleteRoom" => q.id \in Room) /\ (q.kind = "deleteZone" => q.id \in PageZone)
  BY CallsAre
<1> QED  BY <1>1, <1>2, <1>3, <1>4, KindsApart DEF Page!Place, ARoom

\* A request that is ready where rows tell this, is ready where they tell the same.
LEMMA ReadyByRows ==
  ASSUME NEW s \in AnyRows, NEW t \in AnyRows, Zoned(s), Zoned(t), NEW q \in Call, NEW T, Ready(s, q, T),
         \A x \in Scope(q, T) : Page!Row(s, x) = Page!Row(t, x)
  PROVE  Ready(t, q, T)
<1>1. \A x \in Scope(q, T) : x # Null /\ x \in Thing
  BY KindsApart, CallThing DEF Scope, Ready, Shaped
<1>2. \A x \in Scope(q, T) : Present(s, x) <=> Present(t, x)
  BY <1>1, SamePresent
<1>3. \A x \in Scope(q, T) : x \in PageZone /\ Present(s, x) => t.zoneRoom[x] = s.zoneRoom[x]
  BY PresentIs, SameTells
<1>4. (\A x \in T : Present(t, x)) /\ (q.kind \in Creates => ~Present(t, q.id))
  BY <1>2 DEF Ready, Scope
<1>5. q.kind = "putZone" => t.zoneRoom[q.id] = q.room
  BY <1>3, CallThing DEF Ready, Shaped, Scope, Creates
<1>6. q.kind = "assign" /\ q.to.zone # Null => t.zoneRoom[q.to.zone] = q.to.room
  <2>1. ASSUME q.kind = "assign", q.to.zone # Null PROVE q.to.zone \in T /\ q.to.zone \in PageZone
    BY <2>1, CallThing DEF Ready, Shaped
  <2> QED  BY <1>3, <2>1 DEF Ready, Scope
<1> QED  BY <1>4, <1>5, <1>6 DEF Ready

\* Requests that have to do with different things: what the one leaves alone, it leaves alone
\* after the other too.
LEMMA Apart ==
  ASSUME NEW p \in Call, NEW q \in Call, NEW T, NEW U, Shaped(p, T), Shaped(q, U),
         Scope(p, T) \cap Scope(q, U) = {},
         NEW x \in Thing \ Scope(q, U), NEW w, NEW a, NEW b, NEW c, NEW e, RowFields(w, a, b, c, e),
         RowAfter(q, x, w) = w
  PROVE  RowAfter(q, x, RowAfter(p, x, w)) = RowAfter(p, x, w)
<1>0. RowFields(RowAfter(p, x, w), RoomAfter(p, x, a), ZoneAfter(p, x, b), PlaceAfter(p, x, c), MembersAfter(p, x, e))
  BY RowAfterIs
<1>1. /\ RoomAfter(q, x, a) = a /\ ZoneAfter(q, x, b) = b /\ PlaceAfter(q, x, c) = c /\ MembersAfter(q, x, e) = e
  BY RowAfterIs DEF RowFields
<1>2. x # q.id
  BY DEF Scope
<1>3. RoomAfter(q, x, RoomAfter(p, x, a)) = RoomAfter(p, x, a)
  BY <1>2 DEF RoomAfter
<1>4. MembersAfter(q, x, MembersAfter(p, x, e)) = MembersAfter(p, x, e)
  BY <1>2 DEF MembersAfter
<1>5. ZoneAfter(q, x, ZoneAfter(p, x, b)) = ZoneAfter(p, x, b)
  <2>1. CASE q.kind # "deleteRoom"
    BY <1>2, <2>1 DEF ZoneAfter
  <2>2. CASE q.kind = "deleteRoom"
    <3>1. q.id # Null /\ b # q.id
      BY <1>1, <2>2, CallThing DEF ZoneAfter
    <3>2. q.id \in Scope(q, U)
      BY DEF Scope
    <3>3. p.kind \in {"createZone", "putZone"} => p.room # q.id
      BY <3>2 DEF Scope, Shaped
    <3>4. ZoneAfter(p, x, b) # q.id
      BY <3>1, <3>3 DEF ZoneAfter
    <3> QED  BY <2>2, <3>4 DEF ZoneAfter
  <2> QED  BY <2>1, <2>2
<1>6. PlaceAfter(q, x, PlaceAfter(p, x, c)) = PlaceAfter(p, x, c)
  <2>1. CASE q.kind \notin {"deleteRoom", "deleteZone"} \/ x \notin PageDevice
    BY <1>2, <2>1 DEF PlaceAfter
  <2>0. Page!Nowhere.room = Null /\ Page!Nowhere.zone = Null /\ q.id # Null
    BY CallThing DEF Page!Nowhere
  <2>2. p.kind = "assign" => q.id \notin {p.to.room, p.to.zone}
    <3>1. ASSUME p.kind = "assign"
                 PROVE {p.to.room, p.to.zone} \ {Null} \subseteq Scope(p, T) /\ q.id \in Scope(q, U)
      BY <3>1 DEF Shaped, Scope
    <3> QED  BY <2>0, <3>1
  <2>3. CASE q.kind = "deleteRoom" /\ x \in PageDevice
    <3>1. c.room # q.id
      BY <1>1, <2>0, <2>3 DEF PlaceAfter
    <3>2. PlaceAfter(p, x, c).room # q.id
      BY <2>0, <2>2, <3>1 DEF PlaceAfter
    <3> QED  BY <2>3, <3>2 DEF PlaceAfter
  <2>4. CASE q.kind = "deleteZone" /\ x \in PageDevice
    <3>1. c.zone # q.id
      BY <1>1, <2>0, <2>4 DEF PlaceAfter
    <3>2. PlaceAfter(p, x, c).zone # q.id
      BY <2>0, <2>2, <3>1 DEF PlaceAfter
    <3> QED  BY <2>4, <3>2 DEF PlaceAfter
  <2> QED  BY <2>1, <2>3, <2>4
<1>7. RowFields(RowAfter(q, x, RowAfter(p, x, w)), RoomAfter(p, x, a), ZoneAfter(p, x, b), PlaceAfter(p, x, c), MembersAfter(p, x, e))
  BY <1>0, <1>3, <1>4, <1>5, <1>6, RowAfterIs
<1> QED  BY <1>0, <1>7 DEF RowFields

LEMMA ConsistentMade ==
  ASSUME NEW f, NEW a, NEW b, NEW c, NEW d, Becomes(f, a, b, c, d), ConsistentOf(a, b, c)
  PROVE  Consistent(f)
BY DEF Becomes, Consistent

\* Rows are consistent after a request that was ready.
LEMMA ConsistentKept ==
  ASSUME NEW s \in AnyRows, Consistent(s), NEW q \in Call, NEW T, Ready(s, q, T)
  PROVE  Consistent(Page!Effect(s, q))
<1>0. ConsistentOf(s.rooms, s.zoneRoom, s.place)
  BY DEF Consistent
<1>1. CASE q.kind = "createRoom" /\ q.id \in Room
  <2>1. ConsistentOf(s.rooms \cup {q.id}, s.zoneRoom, s.place)
    BY <1>0 DEF ConsistentOf
  <2> QED  BY <1>1, <2>1, CreateRoomDoes, ConsistentMade
<1>2. CASE q.kind = "createZone" /\ q.id \in PageZone /\ q.room \in Room
  <2>1. q.id \notin DOMAIN s.zoneRoom /\ q.room \in s.rooms
    BY <1>2, PresentIs DEF Ready, Shaped, Creates
  <2>2. ConsistentOf(s.rooms, Page!With(s.zoneRoom, q.id, q.room), s.place)
    BY <1>0, <2>1 DEF ConsistentOf, Page!With
  <2> QED  BY <1>2, <2>2, CreateZoneDoes, ConsistentMade
<1>3. CASE q.kind = "createGroup" /\ q.id \in Group
  BY <1>0, <1>3, CreateGroupDoes, ConsistentMade
<1>4. CASE q.kind = "putRoom"
  BY <1>4, PutRoomDoes
<1>5. CASE q.kind = "putZone" /\ q.room \in ARoom
  <2>1. s.zoneRoom = [x \in DOMAIN s.zoneRoom |-> s.zoneRoom[x]]
    BY RowsAre, MapIs
  <2>2. [s.zoneRoom EXCEPT ![q.id] = q.room] = s.zoneRoom
    BY <1>5, <2>1 DEF Ready
  <2> QED  BY <1>0, <1>5, <2>2, PutZoneDoes, ConsistentMade
<1>6. CASE q.kind = "putGroup" /\ q.devices \in SUBSET PageDevice
  BY <1>0, <1>6, PutGroupDoes, ConsistentMade
<1>7. CASE q.kind = "assign" /\ q.id \in PageDevice /\ q.to \in Page!Place
  <2>0. s.place \in [PageDevice -> Page!Place]
    BY RowsAre
  <2>1. q.to.room \in s.rooms \cup {Null}
    BY <1>7, PresentIs DEF Ready, Shaped, Page!Place
  <2>2. q.to.zone # Null => q.to.zone \in DOMAIN s.zoneRoom /\ s.zoneRoom[q.to.zone] = q.to.room
    BY <1>7, PresentIs DEF Ready, Shaped, Page!Place
  <2>3. ConsistentOf(s.rooms, s.zoneRoom, [s.place EXCEPT ![q.id] = q.to])
    BY <1>0, <2>0, <2>1, <2>2 DEF ConsistentOf
  <2>4. Becomes(Page!Assigned(s, q.id, q.to), s.rooms, s.zoneRoom, [s.place EXCEPT ![q.id] = q.to], s.members)
    BY <1>7, AssignDoes
  <2> QED  BY <1>7, <2>3, <2>4, EffectIs, ConsistentMade
<1>8. CASE q.kind = "deleteRoom" /\ q.id \in Room
  <2>1. ConsistentOf(s.rooms \ {q.id}, Page!Without(s.zoneRoom, Page!ZonesOf(s, q.id)), Expelled(s, q.id))
    BY <1>0 DEF ConsistentOf, Page!Without, Page!ZonesOf, Expelled
  <2>2. Becomes(Page!RoomDeleted(s, q.id), s.rooms \ {q.id}, Page!Without(s.zoneRoom, Page!ZonesOf(s, q.id)), Expelled(s, q.id), s.members)
    BY DeleteRoomDoes
  <2> QED  BY <1>8, <2>1, <2>2, EffectIs, ConsistentMade
<1>9. CASE q.kind = "deleteZone" /\ q.id \in PageZone
  <2>0. s.place \in [PageDevice -> Page!Place]
    BY RowsAre
  <2>1. ConsistentOf(s.rooms, Page!Without(s.zoneRoom, {q.id}), Unzoned(s, q.id))
    BY <1>0, <2>0 DEF ConsistentOf, Page!Without, Unzoned, Page!Place
  <2>2. Becomes(Page!ZoneDeleted(s, q.id), s.rooms, Page!Without(s.zoneRoom, {q.id}), Unzoned(s, q.id), s.members)
    BY DeleteZoneDoes
  <2> QED  BY <1>9, <2>1, <2>2, EffectIs, ConsistentMade
<1>10. CASE q.kind = "deleteGroup" /\ q.id \in Group
  <2>2. Becomes(Page!GroupDeleted(s, q.id), s.rooms, s.zoneRoom, s.place, Page!Without(s.members, {q.id}))
    BY DeleteGroupDoes
  <2> QED  BY <1>0, <1>10, <2>2, EffectIs, ConsistentMade
<1> QED  BY <1>1, <1>2, <1>3, <1>4, <1>5, <1>6, <1>7, <1>8, <1>9, <1>10, CallsAre

\* What a request was ready for is there to be changed.
LEMMA ReadyExists ==
  ASSUME NEW s \in AnyRows, NEW q \in Call, NEW T, Ready(s, q, T)
  PROVE  Page!Exists(s, q)
<1>1. q.kind \in {"putRoom", "deleteRoom"} => q.id \in Room /\ Present(s, q.id)
  BY CallsAre DEF Ready, Shaped, Creates
<1>2. q.kind \in {"putZone", "deleteZone"} => q.id \in PageZone /\ Present(s, q.id)
  BY CallsAre DEF Ready, Shaped, Creates
<1>3. q.kind \in {"putGroup", "deleteGroup"} => q.id \in Group /\ Present(s, q.id)
  BY CallsAre DEF Ready, Shaped, Creates
<1> QED  BY <1>1, <1>2, <1>3, PresentIs DEF Page!Exists

----------------------------------------------------------------------------
(* The page of a user who waits for outcomes.                              *)

Sending == {s \in Slot : sent[s].phase = "sent"}
Reach(s) == Scope(sent[s].call, sent[s].touches)

\* No two requests that the server has not seen have to do with the same thing.
OnePerThing == \A s, t \in Sending : s # t => Reach(s) \cap Reach(t) = {}

AllReady ==
  \A s \in Sending : Ready(shown, sent[s].call, sent[s].touches) /\ Covered(shown, sent[s].call, sent[s].touches)

NoneRefused == \A s \in Slot : sent[s].phase # "refused"

AllConsistent ==
  /\ Consistent(shown) /\ Consistent(Page!seen)
  /\ query["hierarchy"].fetch.phase = "answered" => Consistent(query["hierarchy"].fetch.data)

\* What a dialog is about is there, and is not being deleted.
DialogStands ==
  dialog.kind \in {"add", "edit"} =>
    /\ Present(shown, dialog.id)
    /\ \A s \in Sending : sent[s].call.kind \in Bins => dialog.id \notin Reach(s)

\* A row is what the user means, once the request has been served that has to do with it.
AsMeant(x) ==
  /\ \A s \in Sending : x \in Reach(s) => Page!Row(meant, x) = RowAfter(sent[s].call, x, Page!Row(shown, x))
  /\ (\A s \in Sending : x \notin Reach(s)) => Page!Row(meant, x) = Page!Row(shown, x)

MeaningKept == failed = "no" => Consistent(meant) /\ \A x \in Thing : AsMeant(x)

Served == OnePerThing /\ AllReady /\ NoneRefused
Stands == AllConsistent /\ DialogStands /\ Zoned(meant)
CareInv == Served /\ Stands /\ MeaningKept

LEMMA SendingIs ==
  ASSUME PageTyped, NEW s \in Sending
  PROVE  /\ s \in Slot /\ sent[s] # Page!NoRequest /\ sent[s] \in Sent
         /\ sent[s].call \in Call /\ sent[s].touches \in SUBSET Thing
         /\ s \in Page!InFlight
<1>1. s \in Slot /\ sent[s].phase = "sent"
  BY DEF Sending
<1> QED  BY <1>1, SentIs DEF Page!InFlight

\* Requests that are over have to be kept no longer.
LEMMA FewerServed ==
  ASSUME Served, shown' = shown, NEW S, Sending' = S, S \subseteq Sending, \A s \in S : sent'[s] = sent[s],
         NoneRefused'
  PROVE  Served' /\ \A s \in S : Reach(s)' = Reach(s)
<1>1. \A s \in S : Reach(s)' = Reach(s)
  BY DEF Reach
<1>2. OnePerThing'
  BY <1>1 DEF Served, OnePerThing
<1>3. AllReady'
  BY DEF Served, AllReady, Ready, Covered, Present
<1> QED  BY <1>1, <1>2, <1>3 DEF Served

LEMMA CareStarts == ASSUME Page!Init PROVE CareInv
<1>0. Null \notin Room /\ Null \notin PageZone
  BY PageAssumption
<1>1. PICK r \in Room, Z \in SUBSET PageZone, G \in SUBSET Group :
        \E place1 \in [PageDevice -> {Page!Nowhere} \cup [room : {r}, zone : {Null} \cup Z]],
           members \in [G -> SUBSET PageDevice] :
         shown = [rooms |-> {r}, zoneRoom |-> [z \in Z |-> r], place |-> place1, members |-> members]
  BY DEF Page!Init
<1>2. PICK place1 \in [PageDevice -> {Page!Nowhere} \cup [room : {r}, zone : {Null} \cup Z]] :
        shown.rooms = {r} /\ shown.zoneRoom = [z \in Z |-> r] /\ shown.place = place1
  BY <1>1
<1>3. Consistent(shown)
  BY <1>2 DEF Consistent, ConsistentOf, Page!Nowhere
<1>4. /\ meant = shown /\ failed = "no" /\ dialog.kind = "none"
      /\ sent = [s \in Slot |-> Page!NoRequest]
      /\ query = [name \in Page!Query |-> [shown |-> Page!Data(name), fetch |-> Page!Idle]]
  BY DEF Page!Init, Page!NoDialog
<1>5. Page!seen = shown /\ query["hierarchy"].fetch.phase = "idle"
  BY <1>4 DEF Page!seen, Page!Query, Page!Data, Page!Idle
<1>6. Sending = {} /\ NoneRefused
  BY <1>4 DEF Sending, NoneRefused, Page!NoRequest
<1>7. Served
  BY <1>6 DEF Served, OnePerThing, AllReady
<1>8. AllConsistent /\ DialogStands
  BY <1>3, <1>4, <1>5 DEF AllConsistent, DialogStands
<1>9. shown \in AnyRows
  BY PageStarts DEF PageTyped
<1>10. Zoned(meant)
  BY <1>3, <1>4, <1>9, ConsistentZoned
<1>11. MeaningKept
  BY <1>3, <1>4, <1>6 DEF MeaningKept, AsMeant
<1> QED  BY <1>7, <1>8, <1>10, <1>11 DEF CareInv, Stands

----------------------------------------------------------------------------

LEMMA PresentBy ==
  ASSUME NEW s, NEW e, NEW a, NEW b, NEW c, NEW d, Becomes(e, a, b, c, d), NEW x, Present(s, x),
         s.rooms \subseteq a, DOMAIN s.zoneRoom \subseteq DOMAIN b, DOMAIN s.members \subseteq DOMAIN d
  PROVE  Present(e, x)
BY DEF Present, Becomes

LEMMA Grown == \A f, x, y : DOMAIN f \subseteq DOMAIN Page!With(f, x, y) /\ DOMAIN f = DOMAIN [f EXCEPT ![x] = y]
BY DEF Page!With

\* What is there stays there under a request that deletes nothing.
LEMMA PresentKept ==
  ASSUME NEW s \in AnyRows, NEW q \in Call, q.kind \notin Bins, NEW x, Present(s, x)
  PROVE  Present(Page!Effect(s, q), x)
<1>1. CASE q.kind = "createRoom" /\ q.id \in Room
  <2> DEFINE a == s.rooms \cup {q.id}
  <2>1. Becomes(Page!Effect(s, q), a, s.zoneRoom, s.place, s.members) /\ s.rooms \subseteq a
    BY <1>1, CreateRoomDoes
  <2> HIDE DEF a
  <2> QED  BY <2>1, PresentBy
<1>2. CASE q.kind = "createZone" /\ q.id \in PageZone /\ q.room \in Room
  <2>1. Becomes(Page!Effect(s, q), s.rooms, Page!With(s.zoneRoom, q.id, q.room), s.place, s.members)
    BY <1>2, CreateZoneDoes
  <2>2. DOMAIN s.zoneRoom \subseteq DOMAIN Page!With(s.zoneRoom, q.id, q.room)
    BY Grown
  <2> QED  BY <2>1, <2>2, PresentBy
<1>3. CASE q.kind = "createGroup" /\ q.id \in Group
  <2> DEFINE d == Page!With(s.members, q.id, {})
  <2>1. Becomes(Page!Effect(s, q), s.rooms, s.zoneRoom, s.place, d)
    BY <1>3, CreateGroupDoes
  <2>2. DOMAIN s.members \subseteq DOMAIN d
    BY Grown
  <2> HIDE DEF d
  <2> QED  BY <2>1, <2>2, PresentBy
<1>4. CASE q.kind = "putRoom"
  BY <1>4, PutRoomDoes
<1>5. CASE q.kind = "putZone" /\ q.room \in ARoom
  <2>1. Becomes(Page!Effect(s, q), s.rooms, [s.zoneRoom EXCEPT ![q.id] = q.room], s.place, s.members)
    BY <1>5, PutZoneDoes
  <2>2. DOMAIN s.zoneRoom = DOMAIN [s.zoneRoom EXCEPT ![q.id] = q.room]
    OBVIOUS
  <2> QED  BY <2>1, <2>2, PresentBy
<1>6. CASE q.kind = "putGroup" /\ q.devices \in SUBSET PageDevice
  <2> DEFINE d == [s.members EXCEPT ![q.id] = q.devices]
  <2>1. Becomes(Page!Effect(s, q), s.rooms, s.zoneRoom, s.place, d)
    BY <1>6, PutGroupDoes
  <2>2. DOMAIN s.members = DOMAIN d
    OBVIOUS
  <2> HIDE DEF d
  <2> QED  BY <2>1, <2>2, PresentBy
<1>7. CASE q.kind = "assign" /\ q.id \in PageDevice /\ q.to \in Page!Place
  <2>1. Becomes(Page!Assigned(s, q.id, q.to), s.rooms, s.zoneRoom, [s.place EXCEPT ![q.id] = q.to], s.members)
    BY <1>7, AssignDoes
  <2> QED  BY <1>7, <2>1, EffectIs DEF Present, Becomes
<1> QED  BY <1>1, <1>2, <1>3, <1>4, <1>5, <1>6, <1>7, CallsAre DEF Bins

\* A request that is served.
LEMMA ServeCares == ASSUME PageTyped, CareInv, NEW s \in Slot, Page!Serve(s), PageTyped' PROVE CareInv'
<1> DEFINE p == sent[s].call
           T == sent[s].touches
<1>1. s \in Sending /\ UNCHANGED <<query, dialog, meant, failed>>
  BY DEF Page!Serve, Sending
<1>2. p \in Call /\ Ready(shown, p, T) /\ Covered(shown, p, T) /\ shown \in AnyRows /\ sent[s] \in Sent
  BY <1>1, SendingIs DEF CareInv, Served, AllReady, PageTyped
<1>3. Page!Exists(shown, p)
  BY <1>2, ReadyExists
<1>4. shown' = Page!Effect(shown, p) /\ sent' = [sent EXCEPT ![s] = [sent[s] EXCEPT !.phase = "done"]]
  BY <1>3 DEF Page!Serve, Page!Phase
<1>5. Sending' = Sending \ {s} /\ NoneRefused' /\ \A t \in Sending \ {s} : sent'[t] = sent[t] /\ Reach(t)' = Reach(t)
  BY <1>1, <1>2, <1>4 DEF Sending, Sent, CareInv, Served, NoneRefused, PageTyped, Reach
<1>6. Consistent(shown) /\ Consistent(shown') /\ shown' \in AnyRows /\ Zoned(shown) /\ Zoned(shown')
  BY <1>2, <1>4, ConsistentKept, ConsistentZoned DEF CareInv, Stands, AllConsistent, PageTyped
<1>7. \A x \in Thing : Page!Row(shown', x) = RowAfter(p, x, Page!Row(shown, x))
  BY <1>2, <1>4, <1>6, RowByRow
<1>8. \A x \in Thing \ Reach(s) : Page!Row(shown', x) = Page!Row(shown, x)
  BY <1>2, <1>7 DEF Covered, Reach
<1>9. \A t \in Sending : /\ sent[t].call \in Call /\ sent[t].touches \in SUBSET Thing /\ Reach(t) \subseteq Thing
                         /\ Ready(shown, sent[t].call, sent[t].touches) /\ Covered(shown, sent[t].call, sent[t].touches)
                         /\ Shaped(sent[t].call, sent[t].touches)
  BY SendingIs, CallThing DEF CareInv, Served, AllReady, Reach, Scope, Ready
<1>10. \A t \in Sending \ {s} : Reach(t) \cap Reach(s) = {}
  BY <1>1 DEF CareInv, Served, OnePerThing
<1>11. OnePerThing'
  BY <1>5 DEF CareInv, Served, OnePerThing
<1>12. ASSUME NEW t \in Sending \ {s}
       PROVE  Ready(shown', sent[t].call, sent[t].touches) /\ Covered(shown', sent[t].call, sent[t].touches)
  <2> DEFINE q == sent[t].call
             U == sent[t].touches
  <2>0. q \in Call /\ Ready(shown, q, U) /\ Covered(shown, q, U) /\ Shaped(q, U) /\ Shaped(p, T)
    BY <1>1, <1>9, <1>12
  <2>1. \A x \in Scope(q, U) : Page!Row(shown, x) = Page!Row(shown', x)
    BY <1>8, <1>9, <1>10, <1>12 DEF Reach
  <2>2. Ready(shown', q, U)
    BY <1>2, <1>6, <2>0, <2>1, ReadyByRows
  <2>3. Scope(p, T) \cap Scope(q, U) = {}
    BY <1>10, <1>12 DEF Reach
  <2>4. ASSUME NEW x \in Thing \ Scope(q, U) PROVE RowAfter(q, x, Page!Row(shown', x)) = Page!Row(shown', x)
    <3> DEFINE w == Page!Row(shown, x)
    <3>1. RowAfter(q, x, w) = w /\ Page!Row(shown', x) = RowAfter(p, x, w)
      BY <1>7, <2>0, <2>4 DEF Covered
    <3>2. RowFields(w, RoomAt(shown.rooms, x), At(shown.zoneRoom, x), PlaceAt(shown.place, x), At(shown.members, x))
      BY RowIs
    <3> HIDE DEF w, p, q, T, U
    <3>3. RowAfter(q, x, RowAfter(p, x, w)) = RowAfter(p, x, w)
      BY <1>2, <2>0, <2>3, <2>4, <3>1, <3>2, Apart
    <3> QED  BY <3>1, <3>3
  <2>5. Covered(shown', q, U)
    BY <2>4 DEF Covered
  <2> QED  BY <2>2, <2>5
<1>13. AllReady'
  BY <1>5, <1>12 DEF AllReady
<1>14. AllConsistent' /\ Zoned(meant)'
  BY <1>1, <1>6 DEF CareInv, Stands, AllConsistent, Page!seen
<1>15. DialogStands'
  <2>1. ASSUME dialog.kind \in {"add", "edit"} PROVE Present(shown', dialog.id)
    <3>0. dialog.id \in Thing /\ dialog.id # Null /\ Present(shown, dialog.id)
      BY <1>2, <2>1, PresentIs, KindsApart DEF CareInv, Stands, DialogStands
    <3>1. CASE p.kind \in Bins
      <4>1. dialog.id \notin Reach(s)
        BY <1>1, <2>1, <3>1 DEF CareInv, Stands, DialogStands
      <4>2. Page!Row(shown, dialog.id) = Page!Row(shown', dialog.id)
        BY <1>8, <3>0, <4>1
      <4> QED  BY <1>2, <1>6, <3>0, <4>2, SamePresent
    <3>2. CASE p.kind \notin Bins
      BY <1>2, <1>4, <3>0, <3>2, PresentKept
    <3> QED  BY <3>1, <3>2
  <2> QED  BY <1>1, <1>5, <2>1 DEF CareInv, Stands, DialogStands
<1>16. MeaningKept'
  <2>1. ASSUME failed = "no", NEW x \in Thing PROVE AsMeant(x)'
    <3>0. AsMeant(x)
      BY <2>1 DEF CareInv, MeaningKept
    <3>1. ASSUME NEW t \in Sending', x \in Reach(t)'
          PROVE  Page!Row(meant, x) = RowAfter(sent'[t].call, x, Page!Row(shown', x))
      <4>1. t \in Sending \ {s} /\ x \in Reach(t) /\ x \notin Reach(s) /\ sent'[t] = sent[t]
        BY <1>5, <1>10, <3>1
      <4> QED  BY <1>8, <3>0, <4>1 DEF AsMeant
    <3>2. ASSUME \A t \in Sending' : x \notin Reach(t)' PROVE Page!Row(meant, x) = Page!Row(shown', x)
      <4>1. CASE x \in Reach(s)
        BY <1>1, <1>7, <3>0, <4>1 DEF AsMeant
      <4>2. CASE x \notin Reach(s)
        <5>1. \A t \in Sending : x \notin Reach(t)
          BY <1>5, <3>2, <4>2
        <5> QED  BY <1>8, <3>0, <4>2, <5>1 DEF AsMeant
      <4> QED  BY <4>1, <4>2
    <3>3. Page!Row(meant, x)' = Page!Row(meant', x) /\ Page!Row(shown, x)' = Page!Row(shown', x)
      BY DEF Page!Row
    <3> QED  BY <1>1, <3>1, <3>2, <3>3 DEF AsMeant, RowAfter, RoomAfter, ZoneAfter, PlaceAfter, MembersAfter
  <2>2. failed = "no" => Consistent(meant)'
    BY <1>1 DEF CareInv, MeaningKept
  <2> QED  BY <1>1, <2>1, <2>2 DEF MeaningKept
<1> QED  BY <1>5, <1>11, <1>13, <1>14, <1>15, <1>16 DEF CareInv, Served, Stands

----------------------------------------------------------------------------

\* What the page shows of settled things, and how they are.
LEMMA SettledTells ==
  ASSUME PageTyped, AllConsistent, NEW things \in SUBSET Thing, Page!Settled(things)
  PROVE  \A x \in things :
           /\ x \in Page!seen.rooms <=> x \in shown.rooms
           /\ x \in Room => (x \in Page!roomsSeen <=> x \in shown.rooms)
           /\ x \in DOMAIN Page!seen.zoneRoom <=> x \in DOMAIN shown.zoneRoom
           /\ x \in DOMAIN Page!seen.zoneRoom => Page!seen.zoneRoom[x] = shown.zoneRoom[x]
           /\ x \in DOMAIN Page!seen.members <=> x \in DOMAIN shown.members
           /\ x \in DOMAIN Page!seen.members => Page!seen.members[x] = shown.members[x]
<1>1. shown \in AnyRows /\ Page!seen \in AnyRows /\ Zoned(shown) /\ Zoned(Page!seen)
  BY SeenIs, ConsistentZoned DEF PageTyped, AllConsistent
<1>2. \A x \in things : Page!Row(Page!seen, x) = Page!Row(shown, x) /\ x # Null
  BY KindsApart DEF Page!Settled
<1>3. Page!roomsSeen \cap things = shown.rooms \cap things
  BY DEF Page!Settled
<1> QED  BY <1>1, <1>2, <1>3, SameTells

\* A dialog is opened for what is there, and is not being deleted.
LEMMA OpenCares == ASSUME Careful, PageTyped, CareInv, Page!Open, PageTyped' PROVE CareInv'
<1>0. UNCHANGED <<shown, query, sent, meant, failed>>
  BY DEF Page!Open, Page!OpenCreate, Page!OpenFor, Page!Cancel
<1>1. ASSUME NEW type \in {"room", "zone", "group"}, NEW kind, Page!OpenFor(kind, type) PROVE DialogStands'
  <2>1. PICK id \in Page!Listed(type) : Page!Settled({id}) /\ dialog' = [kind |-> kind, type |-> type, id |-> id]
    BY <1>1 DEF Page!OpenFor
  <2>2. /\ id \in Thing
        /\ \/ type = "room" /\ id \in Page!seen.rooms
           \/ type = "zone" /\ id \in DOMAIN Page!seen.zoneRoom
           \/ type = "group" /\ id \in DOMAIN Page!seen.members
    BY SeenIs DEF Page!Listed, Thing
  <2>3. Present(shown, id)
    BY <2>1, <2>2, SettledTells DEF CareInv, Stands, Present
  <2>4. ASSUME NEW s \in Sending, sent[s].call.kind \in Bins PROVE id \notin Reach(s)
    <3>1. sent[s].call.id \in sent[s].touches
      BY <2>4 DEF CareInv, Served, AllReady, Ready, Shaped, Bins, Creates
    <3>2. id \notin sent[s].touches
      BY <2>1, SendingIs DEF Page!Settled
    <3> QED  BY <3>1, <3>2 DEF Reach, Scope
  <2> QED  BY <1>0, <2>1, <2>3, <2>4 DEF DialogStands, Present, Sending, Reach
<1>2. ASSUME NEW type, Page!OpenCreate(type) PROVE DialogStands'
  BY <1>2 DEF Page!OpenCreate, DialogStands
<1>3. ASSUME Page!Cancel PROVE DialogStands'
  BY <1>3 DEF Page!Cancel, DialogStands, Page!NoDialog
<1>4. DialogStands'
  BY <1>1, <1>2, <1>3 DEF Page!Open
<1>5. Served'
  BY <1>0 DEF CareInv, Served, OnePerThing, AllReady, NoneRefused, Sending, Reach, Ready, Covered, Present
<1>6. AllConsistent' /\ Zoned(meant)'
  BY <1>0 DEF CareInv, Stands, AllConsistent, Page!seen
<1>7. MeaningKept'
  BY <1>0 DEF CareInv, MeaningKept, AsMeant, Sending, Reach, Page!Row, RowAfter, RoomAfter, ZoneAfter,
     PlaceAfter, MembersAfter
<1> QED  BY <1>4, <1>5, <1>6, <1>7 DEF CareInv, Stands

LEMMA DrawingReady ==
  ASSUME PageTyped, CareInv, NEW q \in Call, NEW things \in SUBSET Thing, NEW meaning, Page!Settled(things),
         Drawing(q, things, meaning)
  PROVE  Ready(shown, q, things)
<1>1. shown \in AnyRows /\ q.id \notin shown.rooms \cup DOMAIN shown.zoneRoom \cup DOMAIN shown.members
  BY DEF PageTyped, Drawing, Page!Drawn
<1>2. q.id \notin PageDevice /\ q.kind \in Creates
  BY CallsAre, KindsApart DEF Drawing, Creates
<1>3. ~Present(shown, q.id)
  BY <1>1, <1>2 DEF Present
<1>4. q.kind = "createZone" => q.room \in Room /\ q.room \in Page!roomsSeen /\ things = {q.room}
  BY CallsAre DEF Drawing
<1>5. \A x \in things : Present(shown, x)
  <2>1. CASE q.kind = "createZone"
    <3>1. q.room \in shown.rooms
      BY <1>4, <2>1, SettledTells DEF CareInv, Stands
    <3> QED  BY <1>4, <2>1, <3>1 DEF Present
  <2>2. CASE q.kind # "createZone"
    BY <2>2 DEF Drawing
  <2> QED  BY <2>1, <2>2
<1>6. Shaped(q, things)
  BY <1>2, <1>4 DEF Shaped, Creates
<1> QED  BY <1>2, <1>3, <1>5, <1>6 DEF Ready, Creates

LEMMA EditingReady ==
  ASSUME PageTyped, CareInv, NEW q \in Call, NEW things \in SUBSET Thing, NEW meaning, Page!Settled(things),
         Editing(q, things, meaning)
  PROVE  Ready(shown, q, things)
<1>1. shown \in AnyRows /\ Present(shown, q.id) /\ q.id \in things /\ q.kind \notin Creates
  <2>1. q.id \in Thing /\ q.id # Null
    BY CallThing
  <2> QED  BY <2>1 DEF PageTyped, Editing, CareInv, Stands, DialogStands, Creates
<1>2. CASE q.kind \in {"putRoom", "putGroup"}
  <2>1. things = {q.id}
    BY <1>2 DEF Editing
  <2> QED  BY <1>1, <1>2, <2>1 DEF Ready, Shaped
<1>3. CASE q.kind = "putZone"
  <2>1. things = {q.id, q.room} \ {Null} /\ q.room = Page!SeenRoom(q.id) /\ q.id \in PageZone
    BY <1>3, CallsAre DEF Editing
  <2>2. q.id \in DOMAIN shown.zoneRoom
    BY <1>1, <2>1, PresentIs
  <2>3. q.room = shown.zoneRoom[q.id]
    BY <1>1, <2>1, <2>2, SettledTells DEF CareInv, Stands, Page!SeenRoom
  <2>4. q.room \in shown.rooms /\ shown.rooms \subseteq Room
    BY <1>1, <2>2, <2>3, RowsAre DEF CareInv, Stands, AllConsistent, Consistent, ConsistentOf
  <2>5. things = {q.id, q.room}
    BY <1>1, <2>1, <2>4, KindsApart DEF Thing
  <2> QED  BY <1>1, <1>3, <2>3, <2>4, <2>5 DEF Ready, Shaped, Present
<1> QED  BY <1>2, <1>3 DEF Editing

LEMMA RegroupingReady ==
  ASSUME PageTyped, CareInv, NEW q \in Call, NEW things \in SUBSET Thing, NEW meaning, Page!Settled(things),
         Regrouping(q, things, meaning)
  PROVE  Ready(shown, q, things)
<1>1. q.kind = "putGroup" /\ things = {q.id} /\ q.id \in DOMAIN shown.members
  BY SettledTells DEF CareInv, Stands, Regrouping
<1> QED  BY <1>1 DEF Ready, Shaped, Present, Creates

LEMMA AssigningReady ==
  ASSUME PageTyped, CareInv, NEW q \in Call, NEW things \in SUBSET Thing, NEW meaning, Page!Settled(things),
         Assigning(q, things, meaning)
  PROVE  Ready(shown, q, things)
<1>0. shown \in AnyRows /\ Consistent(shown) /\ Consistent(Page!seen) /\ dialog \in Dialog
  BY DEF PageTyped, CareInv, Stands, AllConsistent
<1>1. /\ q.kind = "assign" /\ things = {q.id, q.to.room, q.to.zone} \ {Null} /\ q.id \in PageDevice
      /\ q.to.room \in ARoom /\ q.to.zone \in PageZone \cup {Null}
  BY CallThing DEF Assigning
<1>2. Shaped(q, things)
  BY <1>1, KindsApart DEF Shaped, Thing
<1>3. (q.to.room # Null => q.to.room \in shown.rooms)
      /\ (q.to.zone # Null => q.to.zone \in DOMAIN shown.zoneRoom /\ shown.zoneRoom[q.to.zone] = q.to.room)
  <2>1. CASE q.to = Page!Nowhere
    BY <2>1 DEF Page!Nowhere
  <2>2. CASE dialog.kind = "add" /\ dialog.type = "room" /\ q.to = [room |-> dialog.id, zone |-> Null]
    <3>1. dialog.id \in Room /\ Present(shown, dialog.id)
      BY <1>0, <2>2, DialogIs DEF CareInv, Stands, DialogStands
    <3> QED  BY <1>0, <2>2, <3>1, PresentIs
  <2>3. CASE /\ dialog.kind = "add" /\ dialog.type = "zone" /\ dialog.id \in DOMAIN Page!seen.zoneRoom
             /\ q.to = [room |-> Page!seen.zoneRoom[dialog.id], zone |-> dialog.id]
    <3>1. q.to.zone \in PageZone /\ q.to.zone # Null /\ q.to.zone \in DOMAIN Page!seen.zoneRoom /\ q.to.room = Page!seen.zoneRoom[q.to.zone]
      BY <1>1, <2>3, SeenIs, KindsApart DEF Thing
    <3>2. q.to.zone \in DOMAIN shown.zoneRoom /\ shown.zoneRoom[q.to.zone] = q.to.room
      BY <1>1, <3>1, SettledTells DEF CareInv, Stands
    <3>3. q.to.room \in shown.rooms
      BY <1>0, <3>2 DEF Consistent, ConsistentOf
    <3> QED  BY <3>2, <3>3
  <2>4. CASE /\ Page!seen.place[q.id].zone \in DOMAIN Page!seen.zoneRoom
             /\ q.to = [room |-> Page!seen.zoneRoom[Page!seen.place[q.id].zone], zone |-> Null]
    <3>1. q.to.room \in Page!seen.rooms /\ q.to.zone = Null
      BY <1>0, <2>4 DEF Consistent, ConsistentOf
    <3>2. q.to.room \in shown.rooms
      BY <1>1, <3>1, SettledTells, SeenIs, KindsApart DEF CareInv, Stands, Thing
    <3> QED  BY <3>1, <3>2
  <2> QED  BY <2>1, <2>2, <2>3, <2>4 DEF Assigning
<1>4. \A x \in things : Present(shown, x)
  BY <1>1, <1>3 DEF Present
<1> QED  BY <1>1, <1>2, <1>3, <1>4 DEF Ready, Creates

LEMMA DeletingReady ==
  ASSUME PageTyped, CareInv, NEW q \in Call, NEW things \in SUBSET Thing, NEW meaning, Page!Settled(things),
         Deleting(q, things, meaning)
  PROVE  Ready(shown, q, things)
<1>1. /\ q.id \in things /\ q.kind \in Bins
      /\ \A x \in things : x = q.id \/ x \in PageDevice \/ x \in DOMAIN shown.zoneRoom
  BY DEF Deleting, Page!ZonesOf, Bins
<1>2. Present(shown, q.id)
  BY <1>1, SettledTells DEF Deleting, CareInv, Stands, Present
<1>3. \A x \in things : Present(shown, x)
  BY <1>1, <1>2 DEF Present
<1> QED  BY <1>1, <1>3 DEF Ready, Shaped, Creates, Bins

\* What a careful user asks for can be done.
LEMMA PlanReady ==
  ASSUME PageTyped, CareInv, NEW q \in Call, NEW things \in SUBSET Thing, NEW meaning, Page!Settled(things),
         Planned(q, things, meaning)
  PROVE  Ready(shown, q, things)
BY DrawingReady, EditingReady, RegroupingReady, AssigningReady, DeletingReady DEF Planned

\* It changes nothing but what it touches, or makes.
LEMMA PlanCovered ==
  ASSUME PageTyped, CareInv, NEW q \in Call, NEW things \in SUBSET Thing, NEW meaning,
         Planned(q, things, meaning)
  PROVE  Covered(shown, q, things)
<1> SUFFICES ASSUME NEW x \in Thing \ Scope(q, things)
             PROVE  RowAfter(q, x, Page!Row(shown, x)) = Page!Row(shown, x)
  BY DEF Covered
<1> DEFINE w == Page!Row(shown, x)
           a == RoomAt(shown.rooms, x)
           b == At(shown.zoneRoom, x)
           c == PlaceAt(shown.place, x)
           e == At(shown.members, x)
<1>1. RowFields(w, a, b, c, e)
  BY RowIs
<1>2. x # q.id /\ x \notin things /\ q.id # Null
  BY CallThing DEF Scope
<1>3. q.kind = "deleteRoom" => b # q.id /\ (x \in PageDevice => c.room # q.id)
  <2>1. ASSUME q.kind = "deleteRoom"
               PROVE x \notin Page!ZonesOf(shown, q.id) /\ (x \in PageDevice => shown.place[x].room # q.id)
    BY <1>2, <2>1 DEF Planned, Drawing, Editing, Regrouping, Assigning, Deleting
  <2> QED  BY <1>2, <2>1 DEF At, PlaceAt, Page!ZonesOf
<1>4. q.kind = "deleteZone" => (x \in PageDevice => c.zone # q.id)
  <2>1. ASSUME q.kind = "deleteZone" PROVE x \in PageDevice => shown.place[x].zone # q.id
    BY <1>2, <2>1 DEF Planned, Drawing, Editing, Regrouping, Assigning, Deleting
  <2> QED  BY <2>1 DEF PlaceAt
<1>5. RoomAfter(q, x, a) = a /\ MembersAfter(q, x, e) = e
  BY <1>2 DEF RoomAfter, MembersAfter
<1>6. ZoneAfter(q, x, b) = b
  BY <1>2, <1>3 DEF ZoneAfter
<1>7. PlaceAfter(q, x, c) = c
  BY <1>2, <1>3, <1>4 DEF PlaceAfter
<1> HIDE DEF w, a, b, c, e
<1>8. RowFields(RowAfter(q, x, w), a, b, c, e)
  BY <1>1, <1>5, <1>6, <1>7, RowAfterIs
<1>9. RowAfter(q, x, w) = w
  BY <1>1, <1>8 DEF RowFields
<1> QED  BY <1>9 DEF w

\* And nothing that another request has to do with.
LEMMA PlanApart ==
  ASSUME PageTyped, CareInv, NEW q \in Call, NEW things \in SUBSET Thing, NEW meaning, Page!Settled(things),
         Planned(q, things, meaning),
         NEW t \in Sending
  PROVE  Scope(q, things) \cap Reach(t) = {}
<1> DEFINE p == sent[t].call
           T == sent[t].touches
<1>1. t \in Page!InFlight /\ T \cap things = {} /\ Ready(shown, q, things) /\ Ready(shown, p, T)
  BY SendingIs, PlanReady DEF Page!Settled, CareInv, Served, AllReady
<1>2. p.id \notin things
  BY <1>1 DEF Ready, Shaped
<1>3. q.id \notin T
  BY <1>1 DEF Ready, Shaped
<1>4. q.id # p.id
  <2>1. CASE q.kind \notin Creates
    BY <1>2, <1>1, <2>1 DEF Ready, Shaped
  <2>2. CASE q.kind \in Creates
    <3>1. q.id \notin Page!Drawn
      BY <2>2 DEF Planned, Drawing, Editing, Regrouping, Assigning, Deleting, Creates
    <3> QED  BY <1>1, <3>1 DEF Page!Drawn
  <2> QED  BY <2>1, <2>2
<1> QED  BY <1>1, <1>2, <1>3, <1>4 DEF Scope, Reach

----------------------------------------------------------------------------

\* The rows as they are meant after a request, from what they were before.
MeantBy(q, meaning) ==
  Consistent(meaning) /\ \A x \in Thing : Page!Row(meaning, x) = RowAfter(q, x, Page!Row(meant, x))

LEMMA EffectMeant ==
  ASSUME PageTyped, NEW q \in Call, NEW things, Consistent(meant), Ready(meant, q, things)
  PROVE  MeantBy(q, Page!Effect(meant, q))
BY ConsistentKept, RowByRow DEF PageTyped, MeantBy

\* An edit puts back what is meant.
LEMMA EditMeant ==
  ASSUME PageTyped, CareInv, NEW q \in Call, NEW things \in SUBSET Thing, Page!Settled(things),
         Editing(q, things, meant), Consistent(meant), Ready(meant, q, things),
         Page!Row(meant, q.id) = Page!Row(shown, q.id)
  PROVE  MeantBy(q, meant)
<1> SUFFICES ASSUME NEW x \in Thing PROVE RowAfter(q, x, Page!Row(meant, x)) = Page!Row(meant, x)
  BY DEF MeantBy
<1> DEFINE w == Page!Row(meant, x)
           a == RoomAt(meant.rooms, x)
           b == At(meant.zoneRoom, x)
           c == PlaceAt(meant.place, x)
           e == At(meant.members, x)
<1>0. meant \in AnyRows /\ shown \in AnyRows /\ Zoned(meant) /\ Zoned(shown) /\ Ready(shown, q, things)
  BY ConsistentZoned, EditingReady DEF PageTyped, CareInv, Stands, AllConsistent
<1>1. RowFields(w, a, b, c, e)
  BY RowIs
<1>2. q.kind \in {"putRoom", "putZone", "putGroup"} /\ q.id \in things
  BY <1>0 DEF Editing, Ready, Shaped, Creates
<1>3. q.kind = "putZone" /\ x = q.id /\ b # Null => q.room = b
  BY DEF Ready, At
<1>4. q.kind = "putGroup" /\ x = q.id => q.devices = e
  <2>1. ASSUME q.kind = "putGroup" PROVE q.devices = Page!SeenMembers(q.id) /\ q.id \in DOMAIN shown.members
    <3>1. q.id \in Group /\ Present(shown, q.id)
      BY <1>0, <1>2, <2>1, CallsAre DEF Ready
    <3> QED  BY <1>0, <2>1, <3>1, PresentIs DEF Editing
  <2>2. ASSUME q.id \in DOMAIN shown.members
        PROVE  Page!SeenMembers(q.id) = shown.members[q.id] /\ q.id \in DOMAIN meant.members /\ meant.members[q.id] = shown.members[q.id]
    <3>1. Page!SeenMembers(q.id) = shown.members[q.id]
      BY <1>2, <2>2, SettledTells DEF CareInv, Stands, Page!SeenMembers
    <3> QED  BY <1>0, <2>2, <3>1, SameTells
  <2> QED  BY <2>1, <2>2 DEF At
<1>5. ZoneAfter(q, x, b) = b
  BY <1>2, <1>3 DEF ZoneAfter
<1>6. MembersAfter(q, x, e) = e
  BY <1>2, <1>4 DEF MembersAfter
<1>7. RoomAfter(q, x, a) = a /\ PlaceAfter(q, x, c) = c
  BY <1>2, FieldsUntouched
<1> HIDE DEF w, a, b, c, e
<1>8. RowFields(RowAfter(q, x, w), a, b, c, e)
  BY <1>1, <1>5, <1>6, <1>7, RowAfterIs
<1>9. RowAfter(q, x, w) = w
  BY <1>1, <1>8 DEF RowFields
<1> QED  BY <1>9 DEF w

\* Putting the whole list of members, as the page's copy has it, with one more or one less, is
\* adding, taking out that one.
LEMMA RegroupMeant ==
  ASSUME PageTyped, CareInv, NEW q \in Call, NEW things \in SUBSET Thing, NEW meaning, Page!Settled(things),
         Regrouping(q, things, meaning), Consistent(meant), Page!Row(meant, q.id) = Page!Row(shown, q.id)
  PROVE  MeantBy(q, meaning)
<1>0. meant \in AnyRows /\ shown \in AnyRows /\ Zoned(meant) /\ Zoned(shown)
  BY ConsistentZoned DEF PageTyped, CareInv, Stands, AllConsistent
<1>1. q.kind = "putGroup" /\ q.id \in DOMAIN Page!seen.members /\ q.id \in things /\ q.id \in Group /\ q.devices \in SUBSET PageDevice
  BY CallsAre DEF Regrouping
<1>2. q.id \in DOMAIN shown.members /\ Page!SeenMembers(q.id) = shown.members[q.id]
  BY <1>1, SettledTells DEF CareInv, Stands, Page!SeenMembers
<1>3. q.id \in DOMAIN meant.members /\ Page!MeantMembers(q.id) = shown.members[q.id]
  BY <1>0, <1>2, SameTells DEF Page!MeantMembers
<1> DEFINE d == Page!With(meant.members, q.id, q.devices)
<1>4. meaning = [meant EXCEPT !.members = d]
  BY <1>2, <1>3 DEF Regrouping
<1>5. meant.members \in Maps(Group, SUBSET PageDevice)
  BY <1>0, RowsAre
<1>6. d \in Maps(Group, SUBSET PageDevice)
  BY <1>1, <1>5, MapsKept
<1>7. \A x : At(d, x) = IF x = q.id THEN q.devices ELSE At(meant.members, x)
  BY AtWith
<1> HIDE DEF d
<1>8. Becomes(meaning, meant.rooms, meant.zoneRoom, meant.place, d)
  BY <1>0, <1>4, <1>6, MembersPut
<1>9. Consistent(meaning)
  BY <1>8, ConsistentMade DEF Consistent
<1>10. ASSUME NEW x \in Thing PROVE Page!Row(meaning, x) = RowAfter(q, x, Page!Row(meant, x))
  <2>1. x = q.id => At(meant.members, x) # Null
    BY <1>0, <1>3, ZonedRows
  <2>2. At(d, x) = MembersAfter(q, x, At(meant.members, x))
    BY <1>1, <1>7, <2>1 DEF MembersAfter
  <2> QED  BY <1>1, <1>8, <2>2, RowChanged, FieldsUntouched
<1> QED  BY <1>9, <1>10 DEF MeantBy

\* The rows the user means have their types, whatever became of his requests.
LEMMA ZonedKept ==
  ASSUME NEW s \in AnyRows, Zoned(s), NEW q \in Call, q.kind # "putZone"
  PROVE  Zoned(Page!Effect(s, q))
<1>1. CASE q.kind = "createRoom" /\ q.id \in Room
  BY <1>1, CreateRoomDoes DEF Zoned, Becomes
<1>2. CASE q.kind = "createZone" /\ q.id \in PageZone /\ q.room \in Room
  <2>1. Page!Effect(s, q).zoneRoom = Page!With(s.zoneRoom, q.id, q.room)
    BY <1>2, CreateZoneDoes DEF Becomes
  <2> QED  BY <1>2, <2>1 DEF Zoned, Page!With
<1>3. CASE q.kind = "createGroup" /\ q.id \in Group
  BY <1>3, CreateGroupDoes DEF Zoned, Becomes
<1>4. CASE q.kind = "putRoom"
  BY <1>4, PutRoomDoes
<1>6. CASE q.kind = "putGroup" /\ q.devices \in SUBSET PageDevice
  <2>1. Page!Effect(s, q).zoneRoom = s.zoneRoom
    BY <1>6, PutGroupDoes DEF Becomes
  <2> QED  BY <2>1 DEF Zoned
<1>7. CASE q.kind = "assign" /\ q.id \in PageDevice /\ q.to \in Page!Place
  <2>1. Page!Assigned(s, q.id, q.to).zoneRoom = s.zoneRoom
    BY <1>7, AssignDoes DEF Becomes
  <2> QED  BY <1>7, <2>1, EffectIs DEF Zoned
<1>8. CASE q.kind = "deleteRoom" /\ q.id \in Room
  <2>1. Page!RoomDeleted(s, q.id).zoneRoom = Page!Without(s.zoneRoom, Page!ZonesOf(s, q.id))
    BY DeleteRoomDoes DEF Becomes
  <2> QED  BY <1>8, <2>1, EffectIs DEF Zoned, Page!Without
<1>9. CASE q.kind = "deleteZone" /\ q.id \in PageZone
  <2>1. Page!ZoneDeleted(s, q.id).zoneRoom = Page!Without(s.zoneRoom, {q.id})
    BY DeleteZoneDoes DEF Becomes
  <2> QED  BY <1>9, <2>1, EffectIs DEF Zoned, Page!Without
<1>10. CASE q.kind = "deleteGroup" /\ q.id \in Group
  <2>1. Page!GroupDeleted(s, q.id).zoneRoom = s.zoneRoom
    BY DeleteGroupDoes DEF Becomes
  <2> QED  BY <1>10, <2>1, EffectIs DEF Zoned
<1> QED  BY <1>1, <1>2, <1>3, <1>4, <1>6, <1>7, <1>8, <1>9, <1>10, CallsAre

LEMMA MeaningZoned ==
  ASSUME PageTyped, Zoned(meant), NEW q \in Call, NEW things, NEW meaning, Planned(q, things, meaning)
  PROVE  Zoned(meaning)
<1>0. meant \in AnyRows
  BY DEF PageTyped
<1>1. CASE Drawing(q, things, meaning) \/ Assigning(q, things, meaning) \/ Deleting(q, things, meaning)
  <2>1. meaning = Page!Effect(meant, q) /\ q.kind # "putZone"
    BY <1>1, EffectIs DEF Drawing, Assigning, Deleting
  <2> QED  BY <1>0, <2>1, ZonedKept
<1>2. CASE Editing(q, things, meaning)
  BY <1>2 DEF Editing
<1>3. CASE Regrouping(q, things, meaning)
  <2>1. PICK d : meaning = [meant EXCEPT !.members = d]
    BY <1>3 DEF Regrouping
  <2>2. meaning.zoneRoom = meant.zoneRoom
    BY <1>0, <2>1 DEF AnyRows
  <2> QED  BY <2>2 DEF Zoned
<1> QED  BY <1>1, <1>2, <1>3 DEF Planned

\* A request of the user: it is meant, and nothing else is.
LEMMA PlanMeant ==
  ASSUME PageTyped, CareInv, failed = "no", NEW q \in Call, NEW things \in SUBSET Thing, NEW meaning,
         Page!Settled(things), Planned(q, things, meaning)
  PROVE  /\ Consistent(meaning)
         /\ \A x \in Scope(q, things) : Page!Row(meaning, x) = RowAfter(q, x, Page!Row(shown, x))
         /\ \A x \in Thing \ Scope(q, things) : Page!Row(meaning, x) = Page!Row(meant, x)
<1>0. /\ Consistent(meant) /\ \A x \in Thing : AsMeant(x)
      /\ meant \in AnyRows /\ shown \in AnyRows /\ Zoned(meant) /\ Zoned(shown)
  BY ConsistentZoned DEF PageTyped, CareInv, Stands, AllConsistent, MeaningKept
<1>1. Ready(shown, q, things) /\ Covered(shown, q, things)
  BY PlanReady, PlanCovered
<1>2. Scope(q, things) \subseteq Thing /\ q.id \in Scope(q, things)
  BY CallThing DEF Scope
<1>3. \A x \in Scope(q, things) : Page!Row(meant, x) = Page!Row(shown, x)
  BY <1>0, <1>2, PlanApart DEF AsMeant
<1>4. Ready(meant, q, things)
  BY <1>0, <1>1, <1>3, ReadyByRows
<1>5. MeantBy(q, meaning)
  <2>1. CASE Drawing(q, things, meaning) \/ Assigning(q, things, meaning) \/ Deleting(q, things, meaning)
    <3>1. meaning = Page!Effect(meant, q)
      BY <2>1, EffectIs DEF Drawing, Assigning, Deleting
    <3> QED  BY <1>0, <1>4, <3>1, EffectMeant
  <2>2. CASE Editing(q, things, meaning)
    <3>1. meaning = meant
      BY <2>2 DEF Editing
    <3> QED  BY <1>0, <1>2, <1>3, <1>4, <2>2, <3>1, EditMeant
  <2>3. CASE Regrouping(q, things, meaning)
    BY <1>0, <1>2, <1>3, <2>3, RegroupMeant
  <2> QED  BY <2>1, <2>2, <2>3 DEF Planned
<1>6. ASSUME NEW x \in Thing \ Scope(q, things) PROVE RowAfter(q, x, Page!Row(meant, x)) = Page!Row(meant, x)
  <2> DEFINE w == Page!Row(shown, x)
  <2>1. RowAfter(q, x, w) = w
    BY <1>1 DEF Covered
  <2>2. CASE \A t \in Sending : x \notin Reach(t)
    BY <1>0, <2>1, <2>2 DEF AsMeant
  <2>3. ASSUME NEW t \in Sending, x \in Reach(t) PROVE RowAfter(q, x, Page!Row(meant, x)) = Page!Row(meant, x)
    <3> DEFINE p == sent[t].call
               T == sent[t].touches
    <3>1. Page!Row(meant, x) = RowAfter(p, x, w) /\ p \in Call /\ Shaped(p, T) /\ Shaped(q, things)
      BY <1>0, <1>1, <2>3, SendingIs DEF AsMeant, CareInv, Served, AllReady, Ready
    <3>2. Scope(p, T) \cap Scope(q, things) = {}
      BY PlanApart DEF Reach
    <3>3. RowFields(w, RoomAt(shown.rooms, x), At(shown.zoneRoom, x), PlaceAt(shown.place, x), At(shown.members, x))
      BY RowIs
    <3> HIDE DEF w, p, T
    <3>4. RowAfter(q, x, RowAfter(p, x, w)) = RowAfter(p, x, w)
      BY <2>1, <3>1, <3>2, <3>3, Apart
    <3> QED  BY <3>1, <3>4
  <2> QED  BY <2>2, <2>3
<1> QED  BY <1>2, <1>3, <1>5, <1>6 DEF MeantBy

LEMMA ActCares == ASSUME Careful, PageTyped, CareInv, NEW s \in Slot, Page!Act(s), PageTyped' PROVE CareInv'
<1>1. Acted(s)
  BY Acts
<1>2. PICK q \in Call, things \in SUBSET Thing, meaning \in AnyRows :
        Page!Send(s, q, things, meaning) /\ Planned(q, things, meaning)
  BY <1>1 DEF Acted
<1> DEFINE r == [phase |-> "sent", touches |-> things, call |-> q]
<1>3. /\ sent[s] = Page!NoRequest /\ Page!Settled(things)
      /\ sent' = [sent EXCEPT ![s] = r]
      /\ meant' = meaning
      /\ UNCHANGED <<shown, query, failed>>
  BY <1>2 DEF Page!Send
<1>4. s \notin Sending
  BY <1>3 DEF Sending, Page!NoRequest
<1>5. /\ Sending' = Sending \cup {s} /\ sent'[s] = r /\ Reach(s)' = Scope(q, things)
      /\ \A t \in Sending : sent'[t] = sent[t] /\ Reach(t)' = Reach(t)
  <2>1. sent'[s] = r /\ r.phase = "sent" /\ r.call = q /\ r.touches = things /\ \A t \in Slot \ {s} : sent'[t] = sent[t]
    BY <1>3 DEF PageTyped
  <2>2. Sending' = Sending \cup {s}
    BY <2>1 DEF Sending
  <2>3. \A t \in Sending : t \in Slot \ {s}
    BY <1>4 DEF Sending
  <2> QED  BY <2>1, <2>2, <2>3 DEF Reach, Scope
<1>6. Ready(shown, q, things) /\ Covered(shown, q, things) /\ \A t \in Sending : Scope(q, things) \cap Reach(t) = {}
  BY <1>2, <1>3, PlanReady, PlanCovered, PlanApart
<1>7. NoneRefused'
  BY <1>3 DEF CareInv, Served, NoneRefused, PageTyped
<1>8. OnePerThing'
  BY <1>5, <1>6 DEF CareInv, Served, OnePerThing
<1>9. AllReady'
  <2>1. ASSUME NEW t \in Sending'
               PROVE Ready(shown, sent'[t].call, sent'[t].touches) /\ Covered(shown, sent'[t].call, sent'[t].touches)
    BY <1>5, <1>6, <2>1 DEF CareInv, Served, AllReady
  <2> QED  BY <1>3, <2>1 DEF AllReady, Ready, Covered, Present
<1>10. AllConsistent'
  BY <1>3 DEF CareInv, Stands, AllConsistent, Page!seen
<1>11. Zoned(meant)'
  BY <1>2, <1>3, MeaningZoned DEF CareInv, Stands, Zoned
<1>12. DialogStands'
  <2>1. dialog'.kind \in {"add", "edit"} => dialog.kind = "edit" /\ dialog' = dialog
    <3>1. dialog \in Dialog
      BY DEF PageTyped
    <3>2. dialog.kind = "create" => [dialog EXCEPT !.pending = s].kind = "create"
      BY <3>1 DEF Dialog, Page!NoDialog
    <3>3. DialogOn(s) /\ Page!NoDialog.kind = "none"
      BY <1>1 DEF Acted, Page!NoDialog
    <3> QED  BY <3>2, <3>3 DEF DialogOn
  <2>2. dialog.kind = "edit" => q.kind \notin Bins
    BY <1>2 DEF Planned, Drawing, Editing, Regrouping, Assigning, Deleting, Bins, Page!NoDialog
  <2>3. ASSUME dialog.kind = "edit"
        PROVE  Present(shown, dialog.id) /\ \A t \in Sending' : sent'[t].call.kind \in Bins => dialog.id \notin Reach(t)'
    BY <1>5, <2>2, <2>3 DEF CareInv, Stands, DialogStands
  <2> QED  BY <1>3, <2>1, <2>3 DEF DialogStands, Present
<1>13. MeaningKept'
  <2>1. ASSUME failed = "no" PROVE Consistent(meant)' /\ \A x \in Thing : AsMeant(x)'
    <3>1. /\ Consistent(meaning)
          /\ \A x \in Scope(q, things) : Page!Row(meaning, x) = RowAfter(q, x, Page!Row(shown, x))
          /\ \A x \in Thing \ Scope(q, things) : Page!Row(meaning, x) = Page!Row(meant, x)
      BY <1>2, <1>3, <2>1, PlanMeant
    <3>2. ASSUME NEW x \in Thing PROVE AsMeant(x)'
      <4>0. AsMeant(x)
        BY <2>1 DEF CareInv, MeaningKept
      <4>1. ASSUME NEW t \in Sending', x \in Reach(t)'
            PROVE  Page!Row(meaning, x) = RowAfter(sent'[t].call, x, Page!Row(shown, x))
        <5>1. CASE t = s
          BY <1>5, <3>1, <4>1, <5>1
        <5>2. CASE t \in Sending
          BY <1>5, <1>6, <3>1, <4>0, <4>1, <5>2 DEF AsMeant
        <5> QED  BY <1>5, <5>1, <5>2
      <4>2. (\A t \in Sending' : x \notin Reach(t)') => Page!Row(meaning, x) = Page!Row(shown, x)
        BY <1>5, <3>1, <4>0 DEF AsMeant
      <4>3. Page!Row(meant, x)' = Page!Row(meaning, x) /\ Page!Row(shown, x)' = Page!Row(shown, x)
        BY <1>3 DEF Page!Row
      <4> QED  BY <4>1, <4>2, <4>3 DEF AsMeant, RowAfter, RoomAfter, ZoneAfter, PlaceAfter, MembersAfter
    <3> QED  BY <1>3, <3>1, <3>2
  <2> QED  BY <1>3, <2>1 DEF MeaningKept
<1> QED  BY <1>7, <1>8, <1>9, <1>10, <1>11, <1>12, <1>13 DEF CareInv, Served, Stands

\* Of a request that has succeeded nothing is left but a query to be asked again.
LEMMA SucceedCares == ASSUME PageTyped, CareInv, NEW s \in Slot, Page!Succeed(s), PageTyped' PROVE CareInv'
<1>1. /\ sent[s].phase = "done" /\ sent' = [sent EXCEPT ![s] = Page!NoRequest]
      /\ UNCHANGED <<shown, meant, failed>>
      /\ query' = [name \in Page!Query |-> IF name \in Page!Invalidated(sent[s].call)
                                           THEN [query[name] EXCEPT !.fetch = Page!Asked] ELSE query[name]]
      /\ \/ dialog' = dialog
         \/ dialog' = Page!NoDialog
  BY DEF Page!Succeed
<1>2. \A t \in Slot : t # s => sent'[t] = sent[t]
  BY <1>1 DEF PageTyped
<1>3. sent'[s] = Page!NoRequest
  BY <1>1 DEF PageTyped
<1>4. Sending' = Sending /\ (\A t \in Sending : sent'[t] = sent[t]) /\ NoneRefused'
  BY <1>1, <1>2, <1>3 DEF Sending, CareInv, Served, NoneRefused, Page!NoRequest
<1>5. Served' /\ \A t \in Sending : Reach(t)' = Reach(t)
  BY <1>1, <1>4, FewerServed DEF CareInv
<1>6. /\ query'["hierarchy"].shown = query["hierarchy"].shown
      /\ query'["hierarchy"].fetch = query["hierarchy"].fetch \/ query'["hierarchy"].fetch = Page!Asked
  <2>1. query["hierarchy"] \in QueryOf(AnyRows) /\ "hierarchy" \in Page!Query
    BY DEF PageTyped, Page!Query
  <2>2. \/ query'["hierarchy"] = query["hierarchy"]
        \/ query'["hierarchy"] = [query["hierarchy"] EXCEPT !.fetch = Page!Asked]
    BY <1>1, <2>1
  <2> QED  BY <2>1, <2>2 DEF QueryOf
<1>7. AllConsistent' /\ Zoned(meant)'
  BY <1>1, <1>6 DEF CareInv, Stands, AllConsistent, Page!seen, Page!Asked
<1>8. DialogStands'
  BY <1>1, <1>4, <1>5 DEF CareInv, Stands, DialogStands, Page!NoDialog, Present
<1>9. MeaningKept'
  BY <1>1, <1>4, <1>5 DEF CareInv, MeaningKept, AsMeant, Page!Row, RowAfter, RoomAfter, ZoneAfter, PlaceAfter,
     MembersAfter
<1> QED  BY <1>5, <1>7, <1>8, <1>9 DEF CareInv, Stands

\* After a request that has failed, nothing is said of what the user means.
LEMMA FailCares == ASSUME PageTyped, CareInv, NEW s \in Slot, Page!Fail(s), PageTyped' PROVE CareInv'
<1>1. /\ sent' = [sent EXCEPT ![s] = Page!NoRequest] /\ failed' = "yes"
      /\ UNCHANGED <<shown, query, meant>>
      /\ \/ dialog' = dialog
         \/ dialog.kind = "create" /\ dialog' = [dialog EXCEPT !.pending = Null]
  BY DEF Page!Fail
<1>2. (\A t \in Slot : t # s => sent'[t] = sent[t]) /\ sent'[s] = Page!NoRequest
  BY <1>1 DEF PageTyped
<1>3. Sending' \subseteq Sending /\ (\A t \in Sending' : sent'[t] = sent[t]) /\ NoneRefused'
  BY <1>2 DEF Sending, CareInv, Served, NoneRefused, Page!NoRequest
<1>4. Served' /\ \A t \in Sending' : Reach(t)' = Reach(t)
  BY <1>1, <1>3, FewerServed DEF CareInv
<1>5. AllConsistent' /\ Zoned(meant)'
  BY <1>1 DEF CareInv, Stands, AllConsistent, Page!seen
<1>6. dialog'.kind \in {"add", "edit"} => dialog' = dialog
  <2>1. dialog \in Dialog
    BY DEF PageTyped
  <2>2. dialog.kind = "create" => [dialog EXCEPT !.pending = Null].kind = "create"
    BY <2>1 DEF Dialog, Page!NoDialog
  <2> QED  BY <1>1, <2>2
<1>7. DialogStands'
  BY <1>1, <1>3, <1>4, <1>6 DEF CareInv, Stands, DialogStands, Present
<1>8. MeaningKept'
  BY <1>1 DEF MeaningKept
<1> QED  BY <1>4, <1>5, <1>7, <1>8 DEF CareInv, Stands

\* Answers carry rows as they were stored.
LEMMA FetchCares ==
  ASSUME PageTyped, CareInv, NEW name \in Page!Query, Page!ServeFetch(name) \/ Page!Deliver(name)
  PROVE  CareInv'
<1>0. UNCHANGED <<shown, dialog, sent, meant, failed>>
  BY DEF Page!ServeFetch, Page!Deliver
<1>1. Served'
  BY <1>0 DEF CareInv, Served, OnePerThing, AllReady, NoneRefused, Sending, Reach, Ready, Covered, Present
<1>2. DialogStands' /\ Zoned(meant)'
  BY <1>0 DEF CareInv, Stands, DialogStands, Sending, Reach, Present
<1>3. MeaningKept'
  BY <1>0 DEF CareInv, MeaningKept, AsMeant, Sending, Reach, Page!Row, RowAfter, RoomAfter, ZoneAfter,
     PlaceAfter, MembersAfter
<1>4. AllConsistent'
  <2> DEFINE h == query["hierarchy"]
  <2>0. h \in QueryOf(AnyRows) /\ Consistent(shown) /\ Consistent(h.shown) /\ (h.fetch.phase = "answered" => Consistent(h.fetch.data))
    BY DEF PageTyped, CareInv, Stands, AllConsistent, Page!seen
  <2>1. \/ query'["hierarchy"] = h
        \/ query'["hierarchy"] = [h EXCEPT !.fetch = Page!Answered(shown)]
        \/ h.fetch.phase = "answered" /\ query'["hierarchy"] = [shown |-> h.fetch.data, fetch |-> Page!Idle]
    BY DEF Page!ServeFetch, Page!Deliver, Page!Data, PageTyped, Page!Query
  <2>2. /\ Consistent(query'["hierarchy"].shown)
        /\ query'["hierarchy"].fetch.phase = "answered" => Consistent(query'["hierarchy"].fetch.data)
    <3>1. CASE query'["hierarchy"] = [h EXCEPT !.fetch = Page!Answered(shown)]
      <4>1. query'["hierarchy"].shown = h.shown /\ query'["hierarchy"].fetch = Page!Answered(shown)
        BY <2>0, <3>1 DEF QueryOf
      <4> QED  BY <2>0, <4>1 DEF Page!Answered
    <3>2. CASE h.fetch.phase = "answered" /\ query'["hierarchy"] = [shown |-> h.fetch.data, fetch |-> Page!Idle]
      BY <2>0, <3>2 DEF Page!Idle
    <3> QED  BY <2>0, <2>1, <3>1, <3>2
  <2> QED  BY <1>0, <2>0, <2>2 DEF AllConsistent, Page!seen
<1> QED  BY <1>1, <1>2, <1>3, <1>4 DEF CareInv, Stands

PageCared == at = "page" => CareInv

LEMMA PageIsCared == ASSUME Careful PROVE SpecEither => []PageCared
<1>1. InitEither => PageCared
  BY CareStarts DEF InitEither, PageCared
<1>2. ASSUME PageKnown, PageKnown', PageCared, [NextEither]_<<at, vars, pageVars>> PROVE PageCared'
  <2>1. CASE NextEither
    <3>1. CASE at = "page" /\ at' = at /\ Page!Next
      <4>1. PageTyped /\ CareInv /\ PageTyped'
        BY <1>2, <3>1 DEF PageKnown, PageCared
      <4>2. CareInv'
        BY <3>1, <4>1, OpenCares, ActCares, ServeCares, SucceedCares, FailCares, FetchCares DEF Page!Next
      <4> QED  BY <4>2 DEF PageCared
    <3>2. CASE at = "server" /\ at' = at
      BY <3>2 DEF PageCared
    <3> QED  BY <2>1, <3>1, <3>2 DEF NextEither
  <2>2. CASE UNCHANGED <<at, vars, pageVars>>
    <3>1. at' = at /\ UNCHANGED <<shown, query, dialog, sent, meant, failed>>
      BY <2>2 DEF pageVars
    <3>2. CareInv => CareInv'
      BY <3>1 DEF CareInv, Served, OnePerThing, AllReady, NoneRefused, Sending, Reach, Ready, Covered, Present,
         Stands, AllConsistent,
        DialogStands, MeaningKept, AsMeant, Page!seen, Page!Row, RowAfter, RoomAfter, ZoneAfter, PlaceAfter,
        MembersAfter
    <3> QED  BY <1>2, <3>1, <3>2 DEF PageCared
  <2> QED  BY <2>1, <2>2, <1>2
<1> QED  BY <1>1, <1>2, PageIsKnown, PTL DEF SpecEither

----------------------------------------------------------------------------

LEMMA RowsTyped ==
  ASSUME NEW s \in AnyRows, Zoned(s)
  PROVE  Page!IsRows(s)
BY RowsAre, MapIs DEF Page!IsRows, Zoned

\* Rows are rows, and the zone of a device lies in the device's room, which is there, on the page
\* of a user who waits for an outcome before he touches the same thing again.
THEOREM PlacesAlwaysAgree == ASSUME Careful PROVE SpecEither => []PlacesAgree
<1>1. PageKnown /\ PageCared => PlacesAgree
  <2>1. ASSUME PageTyped, CareInv PROVE Page!TypeOK /\ Page!PlacesAgree
    <3>1. shown \in AnyRows /\ Page!seen \in AnyRows /\ meant \in AnyRows /\ Page!roomsSeen \subseteq Room
      BY <2>1, SeenIs DEF PageTyped
    <3>2. Zoned(shown) /\ Zoned(Page!seen) /\ Zoned(meant)
      BY <2>1, <3>1, ConsistentZoned DEF CareInv, Stands, AllConsistent
    <3>3. \A s \in Page!InFlight : sent[s].phase \in {"sent", "done", "refused"}
      BY <2>1, SentIs DEF Page!InFlight
    <3>4. Page!TypeOK
      BY <3>1, <3>2, <3>3, RowsTyped DEF Page!TypeOK
    <3>5. Page!PlacesAgree
      BY <2>1 DEF CareInv, Stands, AllConsistent, Consistent, ConsistentOf, Page!PlacesAgree
    <3> QED  BY <3>4, <3>5
  <2> QED  BY <2>1 DEF PageKnown, PageCared, PlacesAgree
<1> QED  BY <1>1, PageIsKnown, PageIsCared, PTL

\* Rows that say the same of everything are the same.
LEMMA RowsTheSame ==
  ASSUME NEW s \in AnyRows, NEW t \in AnyRows, Zoned(s), Zoned(t),
         \A x \in Thing : Page!Row(s, x) = Page!Row(t, x)
  PROVE  s.rooms = t.rooms /\ s.zoneRoom = t.zoneRoom /\ s.place = t.place /\ s.members = t.members
<1>1. /\ s.rooms \subseteq Room /\ t.rooms \subseteq Room
      /\ s.place \in [PageDevice -> Page!Place] /\ t.place \in [PageDevice -> Page!Place]
      /\ s.zoneRoom = [x \in DOMAIN s.zoneRoom |-> s.zoneRoom[x]] /\ t.zoneRoom = [x \in DOMAIN t.zoneRoom |-> t.zoneRoom[x]]
      /\ s.members = [x \in DOMAIN s.members |-> s.members[x]] /\ t.members = [x \in DOMAIN t.members |-> t.members[x]]
      /\ DOMAIN s.zoneRoom \subseteq PageZone /\ DOMAIN t.zoneRoom \subseteq PageZone
      /\ DOMAIN s.members \subseteq Group /\ DOMAIN t.members \subseteq Group
  BY RowsAre, MapIs
<1>2. /\ \A x \in Room : x \in Thing /\ x # Null
      /\ \A x \in PageZone : x \in Thing
      /\ \A x \in Group : x \in Thing
      /\ \A x \in PageDevice : x \in Thing
  BY KindsApart DEF Thing
<1>3. s.rooms = t.rooms
  <2>1. \A x \in Room : x \in s.rooms <=> x \in t.rooms
    BY <1>2, SameTells
  <2> QED  BY <1>1, <2>1
<1>4. DOMAIN s.zoneRoom = DOMAIN t.zoneRoom /\ \A x \in DOMAIN s.zoneRoom : s.zoneRoom[x] = t.zoneRoom[x]
  BY <1>1, <1>2, SameTells
<1>5. DOMAIN s.members = DOMAIN t.members /\ \A x \in DOMAIN s.members : s.members[x] = t.members[x]
  BY <1>1, <1>2, SameTells
<1>6. \A x \in PageDevice : s.place[x] = t.place[x]
  BY <1>2, SameTells
<1>7. s.zoneRoom = t.zoneRoom
  BY <1>1, <1>4
<1>8. s.members = t.members
  BY <1>1, <1>5
<1>9. s.place = t.place
  BY <1>1, <1>6
<1> QED  BY <1>3, <1>7, <1>8, <1>9

\* Once all is answered and nothing has failed, the rows are as such a user meant them: although
\* his requests overtook each other, and each put back what the page's copy said.
THEOREM RowsAlwaysAsMeant == ASSUME Careful PROVE SpecEither => []RowsAsMeant
<1>1. PageKnown /\ PageCared => RowsAsMeant
  <2>1. ASSUME PageTyped, CareInv, Page!Quiet, failed = "no"
        PROVE  shown.rooms = meant.rooms /\ shown.zoneRoom = meant.zoneRoom /\ shown.place = meant.place /\ shown.members = meant.members
    <3>1. Sending = {}
      BY <2>1, SendingIs DEF Page!Quiet
    <3>2. \A x \in Thing : Page!Row(shown, x) = Page!Row(meant, x)
      BY <2>1, <3>1 DEF CareInv, MeaningKept, AsMeant
    <3>3. shown \in AnyRows /\ meant \in AnyRows /\ Zoned(shown) /\ Zoned(meant)
      BY <2>1, ConsistentZoned DEF PageTyped, CareInv, Stands, AllConsistent
    <3> QED  BY <3>2, <3>3, RowsTheSame
  <2> QED  BY <2>1 DEF PageKnown, PageCared, RowsAsMeant, Page!RowsAsMeant
<1> QED  BY <1>1, PageIsKnown, PageIsCared, PTL

NothingIsRefused == at = "page" => NoneRefused

\* No request of such a user is refused: what it names is there when it is served.
THEOREM NothingRefused == ASSUME Careful PROVE SpecEither => []NothingIsRefused
<1>1. PageCared => NothingIsRefused
  BY DEF PageCared, CareInv, Served, NothingIsRefused
<1> QED  BY <1>1, PageIsCared, PTL
===============================================================================

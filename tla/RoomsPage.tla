-------------------------------- MODULE RoomsPage --------------------------------
(***************************************************************************)
(* The page "Rooms, Zones & Groups" in one browser, and the server behind  *)
(* it.                                                                     *)
(*                                                                         *)
(* What the user does is sent as it follows from the page's copy of the    *)
(* hierarchy: a change of one member puts the whole list of a group's      *)
(* members, and a zone goes with the room the copy has it in.  Requests    *)
(* overlap; each that succeeds makes the page fetch some of its queries    *)
(* again.  Hierarchy has what the server does when requests overlap there; *)
(* here each is one step.  Names and icons are left out.                   *)
(***************************************************************************)
EXTENDS Naturals

CONSTANTS
  Device,
  Room, Zone, Group, \* ids: those in use and those to be drawn
  Slot,              \* requests in flight at once
  Careful,           \* assumed of the user: he waits for an outcome to be shown
                     \* before he touches the same thing again
  MaxActs,           \* bound: requests the user makes
  Null               \* no room, no zone

VARIABLES
  server,  \* the rows
  query,   \* the page's two queries: the copy shown, and the fetch under way
  dialog,  \* the dialog that is open
  request, \* the requests in flight
  meant,   \* history: the rows as the user means them to be
  failed,  \* history: a request has failed
  acts     \* requests made

vars == <<server, query, dialog, request, meant, failed, acts>>

Nowhere == [room |-> Null, zone |-> Null]
Place == [room : Room \cup {Null}, zone : Zone \cup {Null}]

\* The rows: the rooms, the room of each zone, the place of each device, and the
\* members of each group.
IsRows(s) ==
  /\ s.rooms \subseteq Room
  /\ DOMAIN s.zoneRoom \subseteq Zone /\ \A z \in DOMAIN s.zoneRoom : s.zoneRoom[z] \in Room
  /\ s.place \in [Device -> Place]
  /\ DOMAIN s.members \subseteq Group /\ \A g \in DOMAIN s.members : s.members[g] \subseteq Device

ZonesOf(s, r) == {z \in DOMAIN s.zoneRoom : s.zoneRoom[z] = r}
Without(f, S) == [x \in DOMAIN f \ S |-> f[x]]
With(f, x, y) == [w \in DOMAIN f \cup {x} |-> IF w = x THEN y ELSE f[w]]

----------------------------------------------------------------------------
(* What requests do to the rows.                                           *)

\* Mutant: the devices of its zones are not cleared.
RoomDeletedLoosely(s, r) ==
  [s EXCEPT
    !.rooms = @ \ {r},
    !.zoneRoom = Without(@, ZonesOf(s, r)),
    !.place = [d \in Device |->
                 [room |-> IF @[d].room = r THEN Null ELSE @[d].room, zone |-> @[d].zone]]]

RoomDeleted(s, r) ==
  [s EXCEPT
    !.rooms = @ \ {r},
    !.zoneRoom = Without(@, ZonesOf(s, r)),
    !.place = [d \in Device |->
                 [room |-> IF @[d].room = r THEN Null ELSE @[d].room,
                  zone |-> IF @[d].zone \in ZonesOf(s, r) THEN Null ELSE @[d].zone]]]

ZoneDeleted(s, z) ==
  [s EXCEPT
    !.zoneRoom = Without(@, {z}),
    !.place = [d \in Device |-> IF @[d].zone = z THEN [@[d] EXCEPT !.zone = Null] ELSE @[d]]]

GroupDeleted(s, g) == [s EXCEPT !.members = Without(@, {g})]

Assigned(s, d, to) == [s EXCEPT !.place[d] = to]

\* What a request names has to be there; a device always is.
Exists(s, q) ==
  CASE q.kind \in {"putRoom", "deleteRoom"} -> q.id \in s.rooms
    [] q.kind \in {"putZone", "deleteZone"} -> q.id \in DOMAIN s.zoneRoom
    [] q.kind \in {"putGroup", "deleteGroup"} -> q.id \in DOMAIN s.members
    [] OTHER -> TRUE

\* The rows after a request.  (A room has only its name and icon to be edited.)
Effect(s, q) ==
  CASE q.kind = "createRoom" ->
         [s EXCEPT !.rooms = @ \cup {q.id}]
    [] q.kind = "createZone" ->
         [s EXCEPT !.zoneRoom = With(@, q.id, q.room)]
    [] q.kind = "createGroup" ->
         [s EXCEPT !.members = With(@, q.id, {})]
    [] q.kind = "putRoom" -> s
    [] q.kind = "putZone" ->
         [s EXCEPT !.zoneRoom[q.id] = q.room]
    [] q.kind = "putGroup" ->
         [s EXCEPT !.members[q.id] = q.devices]
    [] q.kind = "assign" -> Assigned(s, q.id, q.to)
    [] q.kind = "deleteRoom" -> RoomDeleted(s, q.id)
    [] q.kind = "deleteZone" -> ZoneDeleted(s, q.id)
    [] q.kind = "deleteGroup" -> GroupDeleted(s, q.id)

----------------------------------------------------------------------------
(* The page's queries, and the requests it makes.                          *)

Query == {"hierarchy", "rooms"}
Idle == [phase |-> "idle"]
Asked == [phase |-> "asked"]
Answered(data) == [phase |-> "answered", data |-> data]
NoRequest == [phase |-> "idle"]
NoDialog == [kind |-> "none"]

\* GET /devices/hierarchy and GET /rooms.
Data(name) == IF name = "hierarchy" THEN server ELSE server.rooms

seen == query["hierarchy"].shown
roomsSeen == query["rooms"].shown

\* Mutant: deleting a room invalidates the hierarchy only.
InvalidatedUnlessDeleted(q) == IF q.from \in {"create", "edit"} THEN Query ELSE {"hierarchy"}

\* The queries that a request invalidates when it has succeeded.
Invalidated(q) ==
  IF q.from \in {"create", "edit"} \/ q.kind = "deleteRoom" THEN Query ELSE {"hierarchy"}

\* A house with a room, perhaps a zone and a group, and the devices anywhere.
Init ==
  /\ \E r \in Room, Z \in SUBSET Zone, G \in SUBSET Group :
       \E place \in [Device -> {Nowhere} \cup [room : {r}, zone : {Null} \cup Z]],
          members \in [G -> SUBSET Device] :
         server = [rooms |-> {r}, zoneRoom |-> [z \in Z |-> r], place |-> place,
                   members |-> members]
  /\ query = [name \in Query |-> [shown |-> Data(name), fetch |-> Idle]]
  /\ dialog = NoDialog
  /\ request = [s \in Slot |-> NoRequest]
  /\ meant = server /\ failed = "no" /\ acts = 0

InFlight == {s \in Slot : request[s] # NoRequest}

\* What a set of rows has to say about one of them.
Row(s, x) ==
  [room |-> IF x \in s.rooms THEN x ELSE Null,
   zone |-> IF x \in DOMAIN s.zoneRoom THEN s.zoneRoom[x] ELSE Null,
   place |-> IF x \in Device THEN s.place[x] ELSE Null,
   members |-> IF x \in DOMAIN s.members THEN s.members[x] ELSE Null]

\* No request is changing any of these, and the page shows them as they are.
Settled(things) ==
  /\ \A s \in InFlight : request[s].touches \cap things = {}
  /\ \A x \in things : Row(seen, x) = Row(server, x)
  /\ roomsSeen \cap things = server.rooms \cap things

\* A request goes out; it touches these things, and means this.
Send(s, q, things, meaning) ==
  /\ acts < MaxActs /\ acts' = acts + 1
  /\ request[s] = NoRequest
  /\ Careful => Settled(things)
  /\ request' = [request EXCEPT ![s] = [phase |-> "sent", touches |-> things, call |-> q]]
  /\ meant' = meaning
  /\ UNCHANGED <<server, query, failed>>

Drawn == UNION {server.rooms, DOMAIN server.zoneRoom, DOMAIN server.members,
                {request[s].call.id : s \in InFlight}}

----------------------------------------------------------------------------
(* Creating and editing, in dialogs.                                       *)

\* The buttons of the page open dialogs; a dialog covers the page.
OpenCreate(type) ==
  /\ dialog = NoDialog
  /\ dialog' = [kind |-> "create", type |-> type, pending |-> Null]
  /\ UNCHANGED <<server, query, request, meant, failed, acts>>

Listed(type) ==
  CASE type = "room" -> seen.rooms
    [] type = "zone" -> DOMAIN seen.zoneRoom
    [] type = "group" -> DOMAIN seen.members

OpenFor(kind, type) ==
  /\ dialog = NoDialog
  /\ \E id \in Listed(type) :
       /\ Careful => Settled({id})
       /\ dialog' = [kind |-> kind, type |-> type, id |-> id]
  /\ UNCHANGED <<server, query, request, meant, failed, acts>>

Cancel ==
  /\ dialog # NoDialog
  /\ dialog' = NoDialog
  /\ UNCHANGED <<server, query, request, meant, failed, acts>>

\* CreateDialog: the form is sent once at a time; the room of a zone is one of
\* the other query's.
Create(s) ==
  /\ dialog.kind = "create" /\ dialog.pending = Null
  /\ \/ /\ dialog.type = "room"
        /\ \E r \in Room \ Drawn :
             LET q == [kind |-> "createRoom", from |-> "create", id |-> r]
             IN  Send(s, q, {}, Effect(meant, q))
     \/ /\ dialog.type = "zone"
        /\ \E z \in Zone \ Drawn, r \in roomsSeen :
             LET q == [kind |-> "createZone", from |-> "create", id |-> z, room |-> r]
             IN  Send(s, q, {r}, Effect(meant, q))
     \/ /\ dialog.type = "group"
        /\ \E g \in Group \ Drawn :
             LET q == [kind |-> "createGroup", from |-> "create", id |-> g]
             IN  Send(s, q, {}, Effect(meant, q))
  /\ dialog' = [dialog EXCEPT !.pending = s]

\* What the page knows of a zone and of a group.
SeenRoom(z) == IF z \in DOMAIN seen.zoneRoom THEN seen.zoneRoom[z] ELSE Null

\* Mutant: the form knows of no members.
NoMembers(g) == {}

SeenMembers(g) == IF g \in DOMAIN seen.members THEN seen.members[g] ELSE {}

MeantMembers(g) == IF g \in DOMAIN meant.members THEN meant.members[g] ELSE {}

\* EditHierarchyDialog: the name, the icon, and with them what the copy says of
\* the rest.  The dialog is one for all targets, and waits for the last.
Edit(s) ==
  /\ dialog.kind = "edit"
  /\ \A t \in InFlight : request[t].call.from # "edit"
  /\ LET id == dialog.id IN
       \/ /\ dialog.type = "room"
          /\ Send(s, [kind |-> "putRoom", from |-> "edit", id |-> id], {id}, meant)
       \/ /\ dialog.type = "zone"
          /\ Send(s, [kind |-> "putZone", from |-> "edit", id |-> id, room |-> SeenRoom(id)],
                  {id, SeenRoom(id)} \ {Null}, meant)
       \/ /\ dialog.type = "group"
          /\ Send(s, [kind |-> "putGroup", from |-> "edit", id |-> id, devices |-> SeenMembers(id)],
                  {id}, meant)
  /\ UNCHANGED dialog

----------------------------------------------------------------------------
(* Devices.                                                                *)

Assign(s, d, to, from) ==
  Send(s, [kind |-> "assign", from |-> from, id |-> d, to |-> to],
       {d, to.room, to.zone} \ {Null}, Assigned(meant, d, to))

\* groupAddMutation: the whole list.
PutMembers(s, g, D, meaning) ==
  Send(s, [kind |-> "putGroup", from |-> "members", id |-> g, devices |-> D],
       {g}, [meant EXCEPT !.members = With(@, g, meaning)])

AssignedInRoomOrZone ==
  {d \in Device : seen.place[d].room \in seen.rooms \/ seen.place[d].zone \in DOMAIN seen.zoneRoom}

\* AddDeviceDialog offers the devices that are not yet there.
Available ==
  Device \ (IF dialog.type = "group" THEN SeenMembers(dialog.id) ELSE AssignedInRoomOrZone)

\* handleAddDevice(); the dialog closes.
AddDevice(s) ==
  /\ dialog.kind = "add"
  /\ \E d \in Available :
       LET id == dialog.id IN
       \/ /\ dialog.type = "room"
          /\ Assign(s, d, [room |-> id, zone |-> Null], "add")
       \/ /\ dialog.type = "zone" /\ id \in DOMAIN seen.zoneRoom
          /\ Assign(s, d, [room |-> seen.zoneRoom[id], zone |-> id], "add")
       \/ /\ dialog.type = "group" /\ id \in DOMAIN seen.members
          /\ PutMembers(s, id, SeenMembers(id) \cup {d}, MeantMembers(id) \cup {d})
  /\ dialog' = NoDialog

\* DeviceChip: a device where the page shows it, and the bin that takes it out.
Chip(onRemove) == dialog = NoDialog /\ onRemove /\ UNCHANGED dialog

RemoveFromRoom(s) ==
  \E d \in Device :
    /\ seen.place[d].room \in seen.rooms /\ seen.place[d].zone = Null
    /\ Chip(Assign(s, d, Nowhere, "chip"))

\* The device stays in the zone's room.
RemoveFromZone(s) ==
  \E d \in Device :
    /\ seen.place[d].zone \in DOMAIN seen.zoneRoom
    /\ Chip(Assign(s, d, [room |-> seen.zoneRoom[seen.place[d].zone], zone |-> Null], "chip"))

RemoveFromGroup(s) ==
  \E g \in DOMAIN seen.members : \E d \in seen.members[g] :
    Chip(PutMembers(s, g, SeenMembers(g) \ {d}, MeantMembers(g) \ {d}))

----------------------------------------------------------------------------
(* Deleting, without being asked whether one is sure.                      *)

Delete(s, kind, id, things, meaning) ==
  /\ dialog = NoDialog
  /\ Send(s, [kind |-> kind, from |-> "bin", id |-> id], things, meaning)
  /\ UNCHANGED dialog

DeleteRoom(s) ==
  \E r \in seen.rooms :
    Delete(s, "deleteRoom", r,
           {r} \cup ZonesOf(server, r) \cup {d \in Device : server.place[d].room = r},
           RoomDeleted(meant, r))

DeleteZone(s) ==
  \E z \in DOMAIN seen.zoneRoom :
    Delete(s, "deleteZone", z, {z} \cup {d \in Device : server.place[d].zone = z},
           ZoneDeleted(meant, z))

DeleteGroup(s) ==
  \E g \in DOMAIN seen.members : Delete(s, "deleteGroup", g, {g}, GroupDeleted(meant, g))

----------------------------------------------------------------------------
(* The server, and the answers.                                            *)

Phase(s, phase) == request' = [request EXCEPT ![s].phase = phase]

Serve(s) ==
  /\ request[s].phase = "sent"
  /\ IF Exists(server, request[s].call)
       THEN server' = Effect(server, request[s].call) /\ Phase(s, "done")
       ELSE UNCHANGED server /\ Phase(s, "refused")
  /\ UNCHANGED <<query, dialog, meant, failed, acts>>

\* onSuccess: queries are fetched again, even if an answer is on its way, and
\* the dialog that may be open by now is closed, if it is one of the kind.
Succeed(s) ==
  /\ request[s].phase = "done"
  /\ request' = [request EXCEPT ![s] = NoRequest]
  /\ query' = [name \in Query |->
                 IF name \in Invalidated(request[s].call)
                 THEN [query[name] EXCEPT !.fetch = Asked] ELSE query[name]]
  /\ dialog' = IF dialog.kind = request[s].call.from THEN NoDialog ELSE dialog
  /\ UNCHANGED <<server, meant, failed, acts>>

\* onError: the row is gone, or the server cannot do it.  The form can be sent
\* again.
Fail(s) ==
  /\ request[s].phase \in {"sent", "refused"}
  /\ request' = [request EXCEPT ![s] = NoRequest]
  /\ dialog' = IF dialog.kind = "create" /\ dialog.pending = s
               THEN [dialog EXCEPT !.pending = Null] ELSE dialog
  /\ failed' = "yes"
  /\ UNCHANGED <<server, query, meant, acts>>

ServeFetch(name) ==
  /\ query[name].fetch = Asked
  /\ query' = [query EXCEPT ![name].fetch = Answered(Data(name))]
  /\ UNCHANGED <<server, dialog, request, meant, failed, acts>>

Deliver(name) ==
  /\ query[name].fetch.phase = "answered"
  /\ query' = [query EXCEPT ![name] = [shown |-> @.fetch.data, fetch |-> Idle]]
  /\ UNCHANGED <<server, dialog, request, meant, failed, acts>>

----------------------------------------------------------------------------

Open ==
  \/ \E type \in {"room", "zone", "group"} :
       OpenCreate(type) \/ OpenFor("add", type) \/ OpenFor("edit", type)
  \/ Cancel

Act(s) ==
  \/ Create(s) \/ Edit(s) \/ AddDevice(s)
  \/ RemoveFromRoom(s) \/ RemoveFromZone(s) \/ RemoveFromGroup(s)
  \/ DeleteRoom(s) \/ DeleteZone(s) \/ DeleteGroup(s)

Next ==
  \/ Open
  \/ \E s \in Slot : Act(s) \/ Serve(s) \/ Succeed(s) \/ Fail(s)
  \/ \E name \in Query : ServeFetch(name) \/ Deliver(name)

Spec == Init /\ [][Next]_vars

----------------------------------------------------------------------------
(* Properties.                                                             *)

\* Rows are rows, on the server and in the page's copy.
TypeOK ==
  /\ IsRows(server) /\ IsRows(seen) /\ IsRows(meant)
  /\ roomsSeen \subseteq Room
  /\ \A s \in InFlight : request[s].phase \in {"sent", "done", "refused"}

Quiet == InFlight = {} /\ \A name \in Query : query[name].fetch = Idle

\* A page at rest shows what is stored: every request asks again for all it
\* has changed, and no answer read before it comes last.
QuietPageIsFresh == Quiet => \A name \in Query : query[name].shown = Data(name)

\* The zone of a device lies in the device's room, which is there.  The server
\* takes any pair; the page sends the room it has the zone in, and may be
\* moving, emptying or deleting other things at the same time.
PlacesAgree ==
  \A d \in Device : LET p == server.place[d] IN
    /\ p.room \in server.rooms \cup {Null}
    /\ p.zone # Null => p.zone \in DOMAIN server.zoneRoom /\ server.zoneRoom[p.zone] = p.room

\* Once all is answered and nothing has failed, the rows are as the user meant
\* them: although the requests about different things overtook each other and
\* each put back what its copy said, nothing was undone and nothing lost.
RowsAsMeant ==
  Quiet /\ failed = "no" =>
    /\ server.rooms = meant.rooms
    /\ server.zoneRoom = meant.zoneRoom
    /\ server.place = meant.place
    /\ server.members = meant.members
=============================================================================

---------------------------- MODULE LightPanel_proofs ----------------------------
(* Proofs about LightPanel, for any devices, colours and bounds. *)
EXTENDS LightPanel, TLAPS

\* Posts in flight.
PostInFlight ==
  [kind : {"control"}, to : SUBSET Device, command : Command, phase : {"sent", "served"}]
    \cup [kind : {"rename"}, phase : {"sent", "served"}]

\* A copy of the server's data that the page uses.
IsData(data) == data.state \in [Shown -> BulbState]

\* The command that waits, or else the one sent last, is what the user wants.
WaitsForTimer == IF timer = Blank THEN sent = wish ELSE timer = wish

Typed ==
  /\ TypeOK
  /\ posts \in Seq(PostInFlight)
  /\ cache # NoData => IsData(cache)
  /\ fetch.phase = "answered" => IsData(fetch.data)

IInv == Typed /\ WaitsForTimer /\ ControlShowsValue

----------------------------------------------------------------------------
(* Values.                                                                 *)

\* The values, one by one.
LEMMA Values ==
  ASSUME NEW v \in Value
  PROVE  \/ v = Blank
         \/ v = Off
         \/ \E d \in Dim : v = On(d)
         \/ \E c \in Color, d \in Dim : v = Rgb(c, d)
         \/ \E t \in Temp, d \in Dim : v = White(t, d)
         \/ \E d \in Dim : v = Scene(d)
BY DEF Value, Command, BulbState, Lit, Color

\* What is inferred from a value.
LEMMA Inferred ==
  ASSUME NEW v \in Value
  PROVE  /\ InferMode(v) \in {"off", "color", "temp", "scene"}
         /\ \A c \in Color : InferColor(v, c) \in Color
         /\ \A d \in Dim : InferDimming(v, d) \in Dim
         /\ \A t \in Temp : InferTemp(v, t) \in Temp
<1> USE DEF InferMode, InferColor, InferDimming, InferTemp, Says
<1>1. CASE v = Blank
  BY <1>1
<1>2. CASE v = Off
  BY <1>2 DEF Off
<1>3. CASE \E d \in Dim : v = On(d)
  BY <1>3 DEF On
<1>4. CASE \E c \in Color, d \in Dim : v = Rgb(c, d)
  BY <1>4 DEF Rgb
<1>5. CASE \E t \in Temp, d \in Dim : v = White(t, d)
  BY <1>5 DEF White
<1>6. CASE \E d \in Dim : v = Scene(d)
  BY <1>6 DEF Scene
<1> QED  BY <1>1, <1>2, <1>3, <1>4, <1>5, <1>6, Values

\* The control stays one, and shows the value it has been given.
LEMMA SyncedShows ==
  ASSUME NEW c \in Control, NEW v \in Value
  PROVE  /\ Synced(c, v) \in Control
         /\ Synced(c, v).power = "off" <=> InferMode(v) = "off"
         /\ Synced(c, v).color = InferColor(v, c.color)
         /\ Synced(c, v).dimming = InferDimming(v, c.dimming)
         /\ Synced(c, v).temp = InferTemp(v, c.temp)
         /\ Synced(c, v).power = "on" => Synced(c, v).tab = InferMode(v)
<1>1. /\ InferMode(v) \in {"off", "color", "temp", "scene"}
      /\ InferColor(v, c.color) \in Color
      /\ InferDimming(v, c.dimming) \in Dim
      /\ InferTemp(v, c.temp) \in Temp
  BY Inferred DEF Control
<1> QED  BY <1>1 DEF Synced, Control

\* The shape of what ControlShowsValue says, for any control and value.
Shows(c, v) ==
  /\ c.power = "off" <=> IsOff(v)
  /\ \A field \in {"color", "dimming", "temp"} : Says(v, field) => c[field] = v[field]
  /\ c.power = "on" => c.tab \in {"scene", InferMode(v)}

\* A control that has just been given a value shows it.
LEMMA SyncedIsShown ==
  ASSUME NEW c \in Control, NEW v \in Value, v # Blank
  PROVE  Shows(Synced(c, v), v)
<1>1. InferMode(v) = "off" <=> IsOff(v)
  BY DEF InferMode, IsOff
<1>2. ASSUME NEW field \in {"color", "dimming", "temp"}, Says(v, field)
      PROVE  Synced(c, v)[field] = v[field]
  BY <1>2, SyncedShows DEF InferColor, InferDimming, InferTemp
<1> QED  BY <1>1, <1>2, SyncedShows DEF Shows

\* Commands made from what the control shows.
LEMMA Commands ==
  ASSUME NEW c \in Control
  PROVE  /\ Off \in Command
         /\ On(c.dimming) \in Command
         /\ \A x \in Color, d \in Dim : Rgb(x, d) \in Command
         /\ \A t \in Temp, d \in Dim : White(t, d) \in Command
BY DEF Command, Control

\* A colour that was picked can be seen.
LEMMA ClampedColor == ASSUME NEW raw \in Picked PROVE Clamped(raw) \in Color
BY ConstantsAssumption DEF Clamped, Color

\* The page's command for its power buttons.
LEMMA ToggleCommand ==
  ASSUME NEW v \in Value
  PROVE  On(InferDimming(v, FullBrightness)) \in Command /\ On(FullBrightness) \in Command
BY Inferred, ConstantsAssumption DEF Command

\* Values and commands.
LEMMA CommandIsValue ==
  Command \subseteq Value /\ BulbState \subseteq Value /\ Blank \in Value /\ Blank \notin Command
BY BlankAssumption DEF Value

----------------------------------------------------------------------------
(* Posts in flight.                                                        *)

\* A post that goes out.
LEMMA PostTyped ==
  ASSUME posts \in Seq(PostInFlight), NEW to \in SUBSET Device, NEW command \in Command,
         Post(to, command)
  PROVE  posts' \in Seq(PostInFlight)
BY DEF Post, PostInFlight

\* Posts that go on and that end.
LEMMA PostsTyped ==
  ASSUME posts \in Seq(PostInFlight), NEW i \in 1 .. Len(posts)
  PROVE  /\ \A phase \in {"sent", "served"} :
              [posts EXCEPT ![i].phase = phase] \in Seq(PostInFlight)
         /\ RemoveAt(posts, i) \in Seq(PostInFlight)
<1>1. ASSUME NEW r \in PostInFlight, NEW phase \in {"sent", "served"}
      PROVE  [r EXCEPT !.phase = phase] \in PostInFlight
  BY <1>1 DEF PostInFlight
<1>2. posts[i] \in PostInFlight
  OBVIOUS
<1>3. RemoveAt(posts, i) \in Seq(PostInFlight)
  <2>1. SubSeq(posts, 1, i - 1) \in Seq(PostInFlight)
    OBVIOUS
  <2>2. SubSeq(posts, i + 1, Len(posts)) \in Seq(PostInFlight)
    OBVIOUS
  <2> QED  BY <2>1, <2>2 DEF RemoveAt
<1> QED  BY <1>1, <1>2, <1>3

\* What TypeOK says of posts.
LEMMA PostsCommand ==
  ASSUME NEW q \in Seq(PostInFlight)
  PROVE  \A i \in 1 .. Len(q) : q[i].kind = "control" => q[i].command \in Command
<1>1. ASSUME NEW r \in PostInFlight PROVE r.kind = "control" => r.command \in Command
  BY DEF PostInFlight
<1> QED  BY <1>1

----------------------------------------------------------------------------
(* The invariant.                                                          *)

\* What a step has to keep, taken apart.
LEMMA Parts ==
  ASSUME kind' \in Kind, page' \in {"open", "gone"}, value' \in Value, control' \in Control,
         {timer', wish', sent'} \subseteq Command \cup {Blank},
         posts' \in Seq(PostInFlight), store' \in [Device -> BulbState],
         faults' \subseteq {"failed", "lost", "overtaken"},
         (cache # NoData => IsData(cache))', (fetch.phase = "answered" => IsData(fetch.data))',
         WaitsForTimer', page' = "open" /\ value' # Blank => Shows(control', value')
  PROVE  IInv'
BY PostsCommand DEF IInv, Typed, TypeOK, ControlShowsValue, Shows

\* The invariant, taken apart likewise.
LEMMA Known ==
  ASSUME IInv
  PROVE  /\ kind \in Kind /\ page \in {"open", "gone"} /\ value \in Value /\ control \in Control
         /\ {timer, wish, sent} \subseteq Command \cup {Blank}
         /\ posts \in Seq(PostInFlight) /\ store \in [Device -> BulbState]
         /\ faults \subseteq {"failed", "lost", "overtaken"}
         /\ cache # NoData => IsData(cache)
         /\ fetch.phase = "answered" => IsData(fetch.data)
         /\ WaitsForTimer
         /\ page = "open" /\ value # Blank => Shows(control, value)
BY DEF IInv, Typed, TypeOK, ControlShowsValue, Shows

\* The data that is looked at belongs to the same devices as before.
LEMMA SameData ==
  ASSUME UNCHANGED kind
  PROVE  /\ Shown' = Shown
         /\ UNCHANGED cache => ((cache # NoData => IsData(cache)) => (cache # NoData => IsData(cache))')
         /\ UNCHANGED fetch => ((fetch.phase = "answered" => IsData(fetch.data))
                                 => (fetch.phase = "answered" => IsData(fetch.data))')
BY DEF Shown, IsData

LEMMA DataTyped ==
  ASSUME store \in [Device -> BulbState]
  PROVE  IsData(Data)
BY ConstantsAssumption DEF IsData, Data, Shown

LEMMA InitInvariant == ASSUME Init PROVE IInv
<1>1. store \in [Device -> BulbState]
  BY FirstAssumption DEF Init
<1>2. FreshControl \in Control
  BY ConstantsAssumption DEF FreshControl, Control, Color, DefaultColor
<1>3. cache # NoData => IsData(cache)
  BY <1>1, DataTyped DEF Init
<1>4. fetch.phase # "answered"
  BY DEF Init, Asked
<1>5. posts \in Seq(PostInFlight) /\ Len(posts) = 0
  BY DEF Init
<1>6. TypeOK
  BY <1>1, <1>2, <1>5, CommandIsValue DEF Init, TypeOK
<1> QED  BY <1>3, <1>4, <1>5, <1>6 DEF Init, IInv, Typed, WaitsForTimer, ControlShowsValue

\* A change in the control.
LEMMA StateChangeStep ==
  ASSUME IInv, NEW c \in Control, NEW next \in Command, StateChange(c, next)
  PROVE  IInv' /\ Debounce!Edit
<1>1. next \in Value /\ next # Blank
  BY CommandIsValue
<1>2. Synced(c, next) \in Control /\ Shows(Synced(c, next), next)
  BY <1>1, SyncedShows, SyncedIsShown
<1>3. WaitsForTimer'
  BY <1>1 DEF StateChange, WaitsForTimer
<1>4. IInv'
  BY <1>1, <1>2, <1>3, Known, SameData, Parts DEF StateChange, Acts, server
<1> QED  BY <1>4 DEF Debounce!Edit, StateChange

\* The scenes are opened.
LEMMA ScenesStep ==
  ASSUME IInv, Acts, control' = [control EXCEPT !.tab = "scene"],
         UNCHANGED <<value, timer, wish, posts, sent>>
  PROVE  IInv' /\ UNCHANGED <<wish, sent>>
<1>1. control' \in Control
  BY Known DEF Control
<1>2. value # Blank /\ page = "open" => Shows(control', value)
  BY Known DEF Shows, Control
<1> QED  BY <1>1, <1>2, Known, SameData, Parts DEF Acts, server, WaitsForTimer

LEMMA ControlStep ==
  ASSUME IInv,
         \/ TurnOff
         \/ \E c \in Picked : PickColor(c)
         \/ \E d \in Dim : PickBrightness(d)
         \/ \E t \in Temp : PickTemp(t)
         \/ \E tab \in {"color", "temp", "scene"} : OpenTab(tab)
  PROVE  IInv' /\ (Debounce!Edit \/ UNCHANGED <<wish, sent>>)
<1>0. control \in Control
  BY Known
<1>1. control.color \in Color /\ control.dimming \in Dim /\ control.temp \in Temp
  BY <1>0 DEF Control
<1>2. CASE TurnOff
  BY <1>0, <1>2, Commands, StateChangeStep DEF TurnOff
<1>3. CASE \E c \in Picked : PickColor(c)
  BY <1>0, <1>1, <1>3, Commands, ClampedColor, StateChangeStep DEF PickColor
<1>4. CASE \E d \in Dim : PickBrightness(d)
  BY <1>0, <1>1, <1>4, Commands, StateChangeStep DEF PickBrightness
<1>5. CASE \E t \in Temp : PickTemp(t)
  BY <1>0, <1>1, <1>5, Commands, StateChangeStep DEF PickTemp
<1>6. CASE \E tab \in {"color", "temp", "scene"} : OpenTab(tab)
  BY <1>0, <1>1, <1>6, Commands, StateChangeStep, ScenesStep DEF OpenTab
<1> QED  BY <1>2, <1>3, <1>4, <1>5, <1>6

LEMMA PressStep ==
  ASSUME IInv, NEW next \in Command, Press(next)
  PROVE  IInv' /\ Debounce!Press
<1>1. Shown \in SUBSET Device
  BY ConstantsAssumption DEF Shown
<1>2. next \in Value /\ next # Blank
  BY CommandIsValue
<1>3. Synced(control, next) \in Control /\ Shows(Synced(control, next), next)
  BY <1>2, Known, SyncedShows, SyncedIsShown
<1>4. posts' \in Seq(PostInFlight)
  BY <1>1, Known, PostTyped DEF Press
<1>5. WaitsForTimer'
  BY DEF Press, WaitsForTimer
<1>6. IInv'
  BY <1>2, <1>3, <1>4, <1>5, Known, SameData, Parts DEF Press, Acts, server
<1> QED  BY <1>6 DEF Press, Debounce!Press

LEMMA ToggleStep ==
  ASSUME IInv, Toggle \/ MasterToggle
  PROVE  IInv' /\ Debounce!Press
<1>1. TurnedOn \in Command /\ Off \in Command
  BY Known, ToggleCommand, Commands DEF TurnedOn
<1> QED  BY <1>1, PressStep DEF Toggle, MasterToggle

LEMMA FireStep == ASSUME IInv, Fire PROVE IInv' /\ (Debounce!Send \/ UNCHANGED <<wish, sent>>)
<1>1. Shown \in SUBSET Device
  BY ConstantsAssumption DEF Shown
<1>2. timer \in Command /\ timer = wish
  BY Known DEF Fire, WaitsForTimer
<1>3. posts' \in Seq(PostInFlight)
  BY <1>1, <1>2, Known, PostTyped DEF Fire
<1>4. WaitsForTimer'
  BY <1>2 DEF Fire, WaitsForTimer
<1>5. IInv'
  BY <1>2, <1>3, <1>4, Known, SameData, Parts DEF Fire, server
<1> QED  BY <1>2, <1>5 DEF Fire, Debounce!Send

\* What leaves the panel alone.
LEMMA AloneStep ==
  ASSUME IInv, UNCHANGED <<kind, page, panel, sent>>,
         posts' \in Seq(PostInFlight), store' \in [Device -> BulbState],
         faults' \subseteq {"failed", "lost", "overtaken"},
         (cache # NoData => IsData(cache))', (fetch.phase = "answered" => IsData(fetch.data))'
  PROVE  IInv' /\ UNCHANGED <<wish, sent>>
BY Known, Parts DEF panel, WaitsForTimer

LEMMA PostStep ==
  ASSUME IInv,
         \/ \E d \in Device : DeviceToggle(d)
         \/ Rename
         \/ \E i \in 1 .. Len(posts) : Serve(i) \/ Answer(i) \/ Lose(i)
  PROVE  IInv' /\ UNCHANGED <<wish, sent>>
<1>1. ASSUME NEW d \in Device, DeviceToggle(d) PROVE IInv' /\ UNCHANGED <<wish, sent>>
  <2>1. posts' \in Seq(PostInFlight)
    BY <1>1, Known, PostTyped, ToggleCommand, Commands DEF DeviceToggle
  <2> QED  BY <1>1, <2>1, Known, SameData, AloneStep DEF DeviceToggle, Acts, server, panel
<1>2. ASSUME Rename PROVE IInv' /\ UNCHANGED <<wish, sent>>
  <2>1. posts' \in Seq(PostInFlight)
    BY <1>2, Known DEF Rename, PostInFlight
  <2> QED  BY <1>2, <2>1, Known, SameData, AloneStep DEF Rename, Acts, server, panel
<1>3. ASSUME NEW i \in 1 .. Len(posts), Serve(i) PROVE IInv' /\ UNCHANGED <<wish, sent>>
  <2>1. posts' \in Seq(PostInFlight)
    BY <1>3, Known, PostsTyped DEF Serve, AnsweredBy
  <2>2. store' \in [Device -> BulbState] /\ faults' \subseteq {"failed", "lost", "overtaken"}
    BY <1>3, Known DEF Serve, ServeControl, ServeRename
  <2> QED  BY <1>3, <2>1, <2>2, Known, SameData, AloneStep DEF Serve
<1>4. ASSUME NEW i \in 1 .. Len(posts), Answer(i) PROVE IInv' /\ UNCHANGED <<wish, sent>>
  <2>1. posts' \in Seq(PostInFlight)
    BY <1>4, Known, PostsTyped DEF Answer
  <2>2. (fetch.phase = "answered" => IsData(fetch.data))'
    BY <1>4, Known, SameData DEF Answer, Invalidate, Asked
  <2> QED  BY <1>4, <2>1, <2>2, Known, SameData, AloneStep DEF Answer, server
<1>5. ASSUME NEW i \in 1 .. Len(posts), Lose(i) PROVE IInv' /\ UNCHANGED <<wish, sent>>
  <2>1. posts' \in Seq(PostInFlight)
    BY <1>5, Known, PostsTyped DEF Lose
  <2> QED  BY <1>5, <2>1, Known, SameData, AloneStep DEF Lose, server
<1> QED  BY <1>1, <1>2, <1>3, <1>4, <1>5

LEMMA FetchStep ==
  ASSUME IInv, ServeFetch \/ LoseFetch
  PROVE  IInv' /\ UNCHANGED <<wish, sent>>
<1>1. CASE ServeFetch
  <2>1. (fetch.phase = "answered" => IsData(fetch.data))'
    BY <1>1, Known, SameData, DataTyped DEF ServeFetch, Answered, IsData
  <2> QED  BY <1>1, <2>1, Known, SameData, AloneStep DEF ServeFetch, server
<1>2. CASE LoseFetch
  <2>1. (fetch.phase = "answered" => IsData(fetch.data))'
    BY <1>2 DEF LoseFetch, Idle
  <2> QED  BY <1>2, <2>1, Known, SameData, AloneStep DEF LoseFetch, server
<1> QED  BY <1>1, <1>2

LEMMA DeliverStep == ASSUME IInv, Deliver PROVE IInv' /\ UNCHANGED <<wish, sent>>
<1>1. IsData(fetch.data) /\ IsData(cache')
  BY Known, SameData DEF Deliver, Receive
<1>2. (cache # NoData => IsData(cache))' /\ (fetch.phase # "answered")'
  BY <1>1, SameData DEF Deliver, Receive, Idle, IsData
<1>3. /\ value' \in Value /\ control' \in Control
      /\ page = "open" /\ value' # Blank => Shows(control', value')
  <2>1. CASE UNCHANGED <<value, control>>
    BY <2>1, Known
  <2>2. ASSUME kind = "device", value' = fetch.data.state[Bulb],
               control' = Synced(control, value') \/ (value' = value /\ UNCHANGED control)
        PROVE  /\ value' \in Value /\ control' \in Control
               /\ page = "open" /\ value' # Blank => Shows(control', value')
    <3>1. value' \in Value
      BY <1>1, <2>2, CommandIsValue DEF IsData, Shown
    <3> QED  BY <2>1, <2>2, <3>1, Known, SyncedShows, SyncedIsShown
  <2> QED  BY <2>1, <2>2 DEF Deliver, Receive
<1> QED  BY <1>2, <1>3, Known, Parts DEF Deliver, WaitsForTimer, server

LEMMA LeaveStep == ASSUME IInv, Leave PROVE IInv' /\ UNCHANGED <<wish, sent>>
<1>1. FreshControl \in Control
  BY ConstantsAssumption DEF FreshControl, Control, Color, DefaultColor
<1>2. fetch'.phase # "answered"
  BY DEF Leave, Idle
<1> QED  BY <1>1, <1>2, Known, CommandIsValue, Parts DEF Leave, server, WaitsForTimer

\* Every step keeps the invariant and is a step of the promise.
LEMMA Step ==
  ASSUME IInv, [Next]_vars
  PROVE  IInv' /\ [Debounce!Next]_<<wish, sent>>
<1>1. ASSUME UNCHANGED vars PROVE IInv' /\ UNCHANGED <<wish, sent>>
  BY <1>1, Known, SameData, AloneStep DEF vars, server, panel
<1>2. CASE UNCHANGED vars
  BY <1>1, <1>2
<1>3. CASE User
  BY <1>3, ControlStep, ToggleStep, PostStep, LeaveStep DEF User, Debounce!Next
<1>4. CASE Fire
  BY <1>4, FireStep DEF Debounce!Next
<1>5. CASE \E i \in 1 .. Len(posts) : Serve(i) \/ Answer(i) \/ Lose(i)
  BY <1>5, PostStep
<1>6. CASE ServeFetch \/ Deliver \/ LoseFetch
  BY <1>6, FetchStep, DeliverStep
<1> QED  BY <1>2, <1>3, <1>4, <1>5, <1>6 DEF Next

----------------------------------------------------------------------------
(* Freshness.                                                              *)

\* Some post has been executed and will make the page ask again.
SomeServed == \E i \in 1 .. Len(posts) : posts[i].phase = "served"

\* What the page has, or is about to have, is what is stored, unless it will ask again.
FreshInv ==
  /\ fetch.phase \in {"idle", "asked", "answered"}
  /\ page = "open" /\ "lost" \notin faults =>
       \/ SomeServed
       \/ fetch.phase = "idle" /\ cache = Data
       \/ fetch.phase = "asked"
       \/ fetch.phase = "answered" /\ fetch.data = Data

LEMMA DataKept == UNCHANGED <<kind, title, store>> => Data' = Data
BY DEF Data, Shown

\* A post that goes out leaves the others as they are.
LEMMA Appended ==
  ASSUME posts \in Seq(PostInFlight), NEW r, posts' = Append(posts, r)
  PROVE  /\ Len(posts') = Len(posts) + 1
         /\ \A i \in 1 .. Len(posts) : posts'[i] = posts[i]
         /\ posts'[Len(posts) + 1] = r
OBVIOUS

\* What acts on the posts only by sending one.
LEMMA FreshPost ==
  ASSUME IInv, FreshInv, UNCHANGED <<kind, page, title, store, cache, fetch, faults>>,
         posts' = posts \/ \E r : posts' = Append(posts, r)
  PROVE  FreshInv'
<1>1. posts \in Seq(PostInFlight)
  BY Known
<1>2. SomeServed => SomeServed'
  <2>1. CASE posts' = posts
    BY <2>1 DEF SomeServed
  <2>2. ASSUME NEW r, posts' = Append(posts, r), SomeServed PROVE SomeServed'
    <3>1. PICK i \in 1 .. Len(posts) : posts[i].phase = "served"
      BY <2>2 DEF SomeServed
    <3>2. i \in 1 .. Len(posts') /\ posts'[i] = posts[i]
      BY <1>1, <2>2, Appended
    <3> QED  BY <3>1, <3>2 DEF SomeServed
  <2> QED  BY <2>1, <2>2
<1> QED  BY <1>2, DataKept DEF FreshInv

\* The actions of the user and of the timer send posts and nothing else.
LEMMA UserSends ==
  ASSUME User \/ Fire, ~Leave
  PROVE  /\ UNCHANGED <<kind, page, title, store, cache, fetch, faults>>
         /\ posts' = posts \/ \E r : posts' = Append(posts, r)
<1>1. ASSUME NEW c, NEW next, StateChange(c, next)
      PROVE  UNCHANGED <<kind, page, title, store, cache, fetch, faults, posts>>
  BY <1>1 DEF StateChange, Acts, server
<1>2. ASSUME NEW next, Press(next)
      PROVE  /\ UNCHANGED <<kind, page, title, store, cache, fetch, faults>>
             /\ \E r : posts' = Append(posts, r)
  BY <1>2 DEF Press, Acts, server, Post
<1>3. CASE TurnOff
  BY <1>1, <1>3 DEF TurnOff
<1>4. CASE (\E c \in Picked : PickColor(c)) \/ (\E d \in Dim : PickBrightness(d)) \/ (\E t \in Temp : PickTemp(t))
  BY <1>1, <1>4 DEF PickColor, PickBrightness, PickTemp
<1>5. CASE \E tab \in {"color", "temp", "scene"} : OpenTab(tab)
  BY <1>1, <1>5 DEF OpenTab, Acts, server
<1>6. CASE Toggle \/ MasterToggle
  BY <1>2, <1>6 DEF Toggle, MasterToggle
<1>7. CASE (\E d \in Device : DeviceToggle(d)) \/ Rename \/ Fire
  BY <1>7 DEF DeviceToggle, Rename, Fire, Post, Acts, server
<1> QED  BY <1>3, <1>4, <1>5, <1>6, <1>7 DEF User

LEMMA FreshStep == ASSUME IInv, FreshInv, [Next]_vars PROVE FreshInv'
<1>0. posts \in Seq(PostInFlight)
  BY Known
<1>1. CASE UNCHANGED vars
  BY <1>1, FreshPost DEF vars, server
<1>2. CASE Leave
  BY <1>2 DEF Leave, FreshInv, Idle
<1>3. CASE (User \/ Fire) /\ ~Leave
  BY <1>3, UserSends, FreshPost
<1>4. ASSUME NEW i \in 1 .. Len(posts), Serve(i) PROVE FreshInv'
  <2>1. posts' = [posts EXCEPT ![i] = [posts[i] EXCEPT !.phase = "served"]] /\ UNCHANGED fetch
    BY <1>4 DEF Serve, AnsweredBy
  <2>2. i \in 1 .. Len(posts') /\ posts'[i] = [posts[i] EXCEPT !.phase = "served"]
    BY <1>0, <2>1
  <2>3. posts'[i].phase = "served"
    BY <1>0, <2>2 DEF PostInFlight
  <2>4. SomeServed'
    BY <2>2, <2>3 DEF SomeServed
  <2> QED  BY <2>1, <2>4 DEF FreshInv
<1>5. ASSUME NEW i \in 1 .. Len(posts), Answer(i) PROVE FreshInv'
  BY <1>5 DEF Answer, Invalidate, Asked, FreshInv
<1>6. ASSUME NEW i \in 1 .. Len(posts), Lose(i) PROVE FreshInv'
  BY <1>6 DEF Lose, FreshInv
<1>7. CASE ServeFetch
  <2>1. fetch'.phase = "answered" /\ fetch'.data = Data /\ Data' = Data
    BY <1>7, DataKept DEF ServeFetch, Answered, server
  <2> QED  BY <2>1 DEF FreshInv
<1>8. CASE Deliver
  <2>1. fetch.phase = "answered" /\ cache' = fetch.data /\ fetch'.phase = "idle" /\ Data' = Data
        /\ UNCHANGED <<page, faults, posts>>
    BY <1>8, DataKept DEF Deliver, Receive, Idle, server
  <2>2. SomeServed' = SomeServed
    BY <2>1 DEF SomeServed
  <2> QED  BY <2>1, <2>2 DEF FreshInv
<1>9. CASE LoseFetch
  BY <1>9 DEF LoseFetch, FreshInv, Idle
<1> QED  BY <1>1, <1>2, <1>3, <1>4, <1>5, <1>6, <1>7, <1>8, <1>9 DEF Next

LEMMA FreshInit == Init => FreshInv
BY DEF Init, FreshInv, Asked

LEMMA QuietIsFresh == FreshInv => QuietPageIsFresh
<1> SUFFICES ASSUME FreshInv, Quiet, "lost" \notin faults PROVE cache = Data
  BY DEF QuietPageIsFresh
<1>1. page = "open" /\ fetch.phase = "idle" /\ Len(posts) = 0
  BY DEF Quiet, Idle
<1>2. ~SomeServed
  BY <1>1 DEF SomeServed
<1> QED  BY <1>1, <1>2 DEF FreshInv

----------------------------------------------------------------------------
(* What the control of a device's page shows, when nothing has gone wrong. *)

Unserved(q, i) == q[i].kind = "control" /\ q[i].phase = "sent"

\* A command has been given and not been executed yet.
PostPending == \E i \in 1 .. Len(posts) : Unserved(posts, i)
Pending == timer # Blank \/ PostPending

\* Of the posts to execute, the last one has the command that was sent last.
LastSent(q, command) ==
  \A i \in 1 .. Len(q) :
    Unserved(q, i) /\ (\A j \in 1 .. Len(q) : j > i => ~Unserved(q, j)) => q[i].command = command

OrderInv ==
  /\ \A i \in 1 .. Len(posts) : posts[i].kind = "control" => posts[i].to = {Bulb}
  /\ faults = {} => LastSent(posts, sent)

\* A device that has a state does not lose it: a copy never takes it back.
NewsInv ==
  /\ cache # NoData /\ cache.state[Bulb] # Blank =>
       store[Bulb] # Blank /\ (fetch.phase = "answered" => fetch.data.state[Bulb] # Blank)
  /\ fetch.phase = "answered" /\ fetch.data.state[Bulb] # Blank => store[Bulb] # Blank

\* An answer is never taken for no answer.
AnswerInv ==
  /\ title \in Nat
  /\ fetch.phase = "answered" => fetch.data # NoData

\* The value came from the server, or it is the user's wish, which the device
\* has obeyed or is about to be told.
Obeyed == store[Bulb] \in ReadBack(value, store[Bulb])
ValueInv ==
  page = "open" /\ faults = {} /\ value # Blank =>
    /\ cache # NoData
    /\ \/ value = cache.state[Bulb]
       \/ value \in Command /\ value = wish /\ (Pending \/ Obeyed)

ShownInv == AnswerInv /\ (kind = "device" => OrderInv /\ NewsInv /\ ValueInv)

\* A bulb that has executed a command has a state, and has it also when it
\* executes the command again.
LEMMA ReadBackIs ==
  ASSUME NEW v \in Command, NEW s, NEW x \in ReadBack(v, s)
  PROVE  x \in Lit \cup {Off} /\ x # Blank /\ x \in ReadBack(v, x)
<1>1. CASE v = Off
  <2>1. x = Off
    BY <1>1 DEF ReadBack, Off
  <2>2. Off # Blank
    BY CommandIsValue, BlankAssumption DEF Command
  <2> QED  BY <1>1, <2>1, <2>2 DEF ReadBack, Off
<1>2. ASSUME NEW d \in Dim, v = On(d)
      PROVE  x \in Lit /\ x \in ReadBack(v, x)
  <2>1. v.mode = "on" /\ v.dimming = d
    BY <1>2 DEF On
  <2>2. ASSUME NEW y \in Lit
        PROVE  [y EXCEPT !.dimming = d] \in Lit /\ [y EXCEPT !.dimming = d].dimming = d
               /\ (y.dimming = d => [y EXCEPT !.dimming = d] = y)
    BY DEF Lit, Rgb, White, Scene
  <2>3. CASE s \in Lit
    <3>1. x = [s EXCEPT !.dimming = d]
      BY <2>1, <2>3 DEF ReadBack
    <3>2. x \in Lit /\ x.dimming = d
      BY <2>2, <2>3, <3>1
    <3>3. [x EXCEPT !.dimming = d] = x
      BY <2>2, <3>2
    <3> QED  BY <2>1, <3>2, <3>3 DEF ReadBack
  <2>4. CASE s \notin Lit
    <3>1. x \in Lit /\ x.dimming = d
      BY <2>1, <2>4 DEF ReadBack
    <3>2. [x EXCEPT !.dimming = d] = x
      BY <2>2, <3>1
    <3> QED  BY <2>1, <3>1, <3>2 DEF ReadBack
  <2> QED  BY <2>3, <2>4
<1>3. ASSUME NEW c \in Color, NEW d \in Dim, v = Rgb(c, d)
      PROVE  x \in Lit /\ x \in ReadBack(v, x)
  <2>1. v.mode = "color" /\ v.dimming = d
    BY <1>3 DEF Rgb
  <2>2. x \in {Rgb(k, d) : k \in Reported}
    BY <2>1 DEF ReadBack
  <2>3. x \in Lit
    BY <2>2 DEF Lit
  <2> QED  BY <2>1, <2>2, <2>3 DEF ReadBack
<1>4. ASSUME NEW t \in Temp, NEW d \in Dim, v = White(t, d)
      PROVE  x \in Lit /\ x \in ReadBack(v, x)
  <2>1. v.mode = "temp"
    BY <1>4 DEF White
  <2>2. x = v /\ v \in ReadBack(v, x)
    BY <2>1 DEF ReadBack
  <2> QED  BY <1>4, <2>2 DEF Lit
<1>5. Blank \notin Lit
  BY BlankAssumption
<1> QED  BY <1>1, <1>2, <1>3, <1>4, <1>5 DEF Command

\* A post that goes out with the latest command keeps the order.
LEMMA AppendOrder ==
  ASSUME NEW q \in Seq(PostInFlight), NEW r \in PostInFlight, NEW command, NEW next,
         LastSent(q, command), IF r.kind = "control" THEN r.phase = "sent" /\ r.command = next ELSE next = command
  PROVE  LastSent(Append(q, r), next)
<1> DEFINE p == Append(q, r)
<1>1. Len(p) = Len(q) + 1 /\ p[Len(q) + 1] = r /\ \A i \in 1 .. Len(q) : p[i] = q[i]
  OBVIOUS
<1>0. Len(q) \in Nat
  OBVIOUS
<1> HIDE DEF p
<1> SUFFICES ASSUME NEW i \in 1 .. Len(p), Unserved(p, i),
                    \A j \in 1 .. Len(p) : j > i => ~Unserved(p, j)
             PROVE  p[i].command = next
  BY DEF LastSent, p
<1>2. CASE i = Len(q) + 1
  BY <1>1, <1>2 DEF Unserved
<1>3. CASE i # Len(q) + 1
  <2>1. i \in 1 .. Len(q) /\ p[i] = q[i] /\ Unserved(q, i)
    BY <1>0, <1>1, <1>3 DEF Unserved
  <2>2. ~Unserved(p, Len(q) + 1)
    BY <1>0, <1>1, <2>1
  <2>3. next = command
    BY <1>1, <2>2 DEF Unserved
  <2>4. \A j \in 1 .. Len(q) : j > i => ~Unserved(q, j)
    BY <1>0, <1>1 DEF Unserved
  <2> QED  BY <2>1, <2>3, <2>4 DEF LastSent
<1> QED  BY <1>2, <1>3

\* A post that has been executed, unless an older one was passed over.
LEMMA ServeOrder ==
  ASSUME NEW q \in Seq(PostInFlight), NEW i \in 1 .. Len(q), NEW command, LastSent(q, command)
  PROVE  LET p == [q EXCEPT ![i].phase = "served"] IN
         /\ Len(p) = Len(q)
         /\ \A j \in 1 .. Len(q) : Unserved(p, j) <=> j # i /\ Unserved(q, j)
         /\ \A j \in 1 .. Len(q) : q[j].kind = "control" <=> p[j].kind = "control"
         /\ \A j \in 1 .. Len(q) : q[j].kind = "control" => p[j].to = q[j].to
         /\ (\A j \in 1 .. i - 1 : ~Unserved(q, j)) \/ q[i].kind # "control" => LastSent(p, command)
<1> DEFINE p == [q EXCEPT ![i].phase = "served"]
<1>1. Len(p) = Len(q) /\ Len(q) \in Nat /\ \A j \in 1 .. Len(q) : j # i => p[j] = q[j]
  OBVIOUS
<1>2. p[i] = [q[i] EXCEPT !.phase = "served"]
  OBVIOUS
<1>3. ASSUME NEW r \in PostInFlight
      PROVE  LET s == [r EXCEPT !.phase = "served"] IN
             s.phase = "served" /\ s.kind = r.kind /\ (r.kind = "control" => s.to = r.to)
  BY <1>3 DEF PostInFlight
<1>4. q[i] \in PostInFlight
  OBVIOUS
<1>5. p[i].phase = "served" /\ p[i].kind = q[i].kind /\ (q[i].kind = "control" => p[i].to = q[i].to)
  BY <1>2, <1>3, <1>4
<1> HIDE DEF p
<1>6. \A j \in 1 .. Len(q) : Unserved(p, j) <=> j # i /\ Unserved(q, j)
  BY <1>1, <1>5 DEF Unserved
<1>7. ASSUME (\A j \in 1 .. i - 1 : ~Unserved(q, j)) \/ q[i].kind # "control"
      PROVE  LastSent(p, command)
  <2> SUFFICES ASSUME NEW k \in 1 .. Len(p), Unserved(p, k),
                      \A j \in 1 .. Len(p) : j > k => ~Unserved(p, j)
               PROVE  p[k].command = command
    BY DEF LastSent
  <2>1. k # i /\ Unserved(q, k) /\ p[k] = q[k] /\ k \in 1 .. Len(q)
    BY <1>1, <1>6
  <2>2. k > i \/ ~Unserved(q, i)
    BY <1>1, <1>7, <2>1 DEF Unserved
  <2>3. \A j \in 1 .. Len(q) : j > k => ~Unserved(q, j)
    BY <1>1, <1>6, <2>1, <2>2
  <2> QED  BY <2>1, <2>3 DEF LastSent
<1> QED  BY <1>1, <1>5, <1>6, <1>7 DEF p

\* A post that has been answered, or is given up.
LEMMA Removed ==
  ASSUME NEW q \in Seq(PostInFlight), NEW i \in 1 .. Len(q)
  PROVE  LET p == RemoveAt(q, i) IN
         /\ Len(p) = Len(q) - 1
         /\ \A j \in 1 .. Len(q) - 1 : p[j] = q[IF j < i THEN j ELSE j + 1]
<1>1. Len(SubSeq(q, 1, i - 1)) = i - 1 /\ \A j \in 1 .. i - 1 : SubSeq(q, 1, i - 1)[j] = q[j]
  OBVIOUS
<1>2. /\ Len(SubSeq(q, i + 1, Len(q))) = Len(q) - i
      /\ \A j \in 1 .. Len(q) - i : SubSeq(q, i + 1, Len(q))[j] = q[i + j]
  OBVIOUS
<1>3. SubSeq(q, 1, i - 1) \in Seq(PostInFlight) /\ SubSeq(q, i + 1, Len(q)) \in Seq(PostInFlight)
  OBVIOUS
<1> DEFINE a == SubSeq(q, 1, i - 1)
           b == SubSeq(q, i + 1, Len(q))
<1>4. RemoveAt(q, i) = a \o b
  BY DEF RemoveAt
<1>5. a \in Seq(PostInFlight) /\ b \in Seq(PostInFlight) /\ Len(q) \in Nat
  BY <1>3
<1>6. /\ Len(a) = i - 1 /\ Len(b) = Len(q) - i
      /\ \A j \in 1 .. i - 1 : a[j] = q[j]
      /\ \A j \in 1 .. Len(q) - i : b[j] = q[i + j]
  BY <1>1, <1>2
<1> HIDE DEF a, b
<1>7. Len(a \o b) = Len(q) - 1
  BY <1>5, <1>6
<1>8. ASSUME NEW j \in 1 .. Len(q) - 1
      PROVE  (a \o b)[j] = q[IF j < i THEN j ELSE j + 1]
  <2>1. CASE j < i
    BY <1>5, <1>6, <2>1
  <2>2. CASE j >= i
    <3>1. (a \o b)[j] = b[j - Len(a)]
      BY <1>5, <1>6, <2>2
    <3>2. j - Len(a) \in 1 .. Len(q) - i /\ i + (j - Len(a)) = j + 1
      BY <1>5, <1>6, <2>2
    <3> QED  BY <1>5, <1>6, <2>2, <3>1, <3>2
  <2>3. j < i \/ j >= i
    BY <1>5
  <2> QED  BY <2>1, <2>2, <2>3
<1> QED  BY <1>4, <1>7, <1>8

LEMMA AnswerOrder ==
  ASSUME NEW q \in Seq(PostInFlight), NEW i \in 1 .. Len(q), q[i].phase = "served",
         NEW command, LastSent(q, command)
  PROVE  LET p == RemoveAt(q, i) IN
         /\ LastSent(p, command)
         /\ (\E j \in 1 .. Len(q) : Unserved(q, j)) => (\E j \in 1 .. Len(p) : Unserved(p, j))
<1> DEFINE p == RemoveAt(q, i)
           old(j) == IF j < i THEN j ELSE j + 1
<1>0. Len(q) \in Nat
  OBVIOUS
<1>1. Len(p) = Len(q) - 1 /\ \A j \in 1 .. Len(q) - 1 : p[j] = q[old(j)]
  BY Removed
<1> HIDE DEF p
<1>2. ASSUME NEW j \in 1 .. Len(q), Unserved(q, j)
      PROVE  \E k \in 1 .. Len(p) : old(k) = j
  <2>1. j # i
    BY <1>2 DEF Unserved
  <2>2. CASE j < i
    <3>1. j \in 1 .. Len(p) /\ old(j) = j
      BY <1>0, <1>1, <2>2
    <3> QED  BY <3>1
  <2>3. CASE j > i
    <3>1. j - 1 \in 1 .. Len(p) /\ old(j - 1) = j
      BY <1>0, <1>1, <2>3
    <3> QED  BY <3>1
  <2> QED  BY <2>1, <2>2, <2>3
<1>3. \A k \in 1 .. Len(p) : old(k) \in 1 .. Len(q) /\ p[k] = q[old(k)]
  BY <1>0, <1>1
<1>4. \A k, l \in 1 .. Len(p) : old(k) > old(l) => k > l
  BY <1>0, <1>1
<1> HIDE DEF old
<1>5. ASSUME NEW k \in 1 .. Len(p), Unserved(p, k), \A j \in 1 .. Len(p) : j > k => ~Unserved(p, j)
      PROVE  p[k].command = command
  <2>1. Unserved(q, old(k)) /\ old(k) \in 1 .. Len(q)
    BY <1>3, <1>5 DEF Unserved
  <2>2. ASSUME NEW j \in 1 .. Len(q), j > old(k) PROVE ~Unserved(q, j)
    BY <1>2, <1>3, <1>4, <1>5, <2>2 DEF Unserved
  <2> QED  BY <1>3, <2>1, <2>2 DEF LastSent
<1>6. LastSent(p, command)
  BY <1>5 DEF LastSent
<1>7. (\E j \in 1 .. Len(q) : Unserved(q, j)) => (\E j \in 1 .. Len(p) : Unserved(p, j))
  BY <1>2, <1>3 DEF Unserved
<1> QED  BY <1>6, <1>7 DEF p

\* Where it does not matter what happens to the posts, the rest follows.
LEMMA AppendPending ==
  ASSUME NEW q \in Seq(PostInFlight), NEW r
  PROVE  /\ (\E i \in 1 .. Len(q) : Unserved(q, i)) =>
              (\E i \in 1 .. Len(Append(q, r)) : Unserved(Append(q, r), i))
         /\ r.kind = "control" /\ r.phase = "sent" =>
              (\E i \in 1 .. Len(Append(q, r)) : Unserved(Append(q, r), i))
         /\ (\A i \in 1 .. Len(q) : q[i].kind = "control" => q[i].to = {Bulb})
              /\ (r.kind = "control" => r.to = {Bulb}) =>
                \A i \in 1 .. Len(Append(q, r)) : Append(q, r)[i].kind = "control" => Append(q, r)[i].to = {Bulb}
<1> DEFINE p == Append(q, r)
<1>1. Len(p) = Len(q) + 1 /\ Len(q) \in Nat /\ p[Len(q) + 1] = r /\ \A i \in 1 .. Len(q) : p[i] = q[i]
  OBVIOUS
<1> HIDE DEF p
<1>2. (\E i \in 1 .. Len(q) : Unserved(q, i)) => (\E i \in 1 .. Len(p) : Unserved(p, i))
  <2> SUFFICES ASSUME NEW i \in 1 .. Len(q), Unserved(q, i) PROVE Unserved(p, i) /\ i \in 1 .. Len(p)
    OBVIOUS
  <2> QED  BY <1>1 DEF Unserved
<1>3. r.kind = "control" /\ r.phase = "sent" => Len(p) \in 1 .. Len(p) /\ Unserved(p, Len(p))
  BY <1>1 DEF Unserved
<1>4. ASSUME \A i \in 1 .. Len(q) : q[i].kind = "control" => q[i].to = {Bulb},
             r.kind = "control" => r.to = {Bulb}, NEW i \in 1 .. Len(p), p[i].kind = "control"
      PROVE  p[i].to = {Bulb}
  <2>1. i \in 1 .. Len(q) \/ i = Len(q) + 1
    BY <1>1
  <2> QED  BY <1>1, <1>4, <2>1
<1> QED  BY <1>2, <1>3, <1>4 DEF p

\* What the user does on a device's page, in one of four ways.
LEMMA UserActs ==
  ASSUME IInv, kind = "device", User, ~Leave
  PROVE  \/ \E c \in Control, next \in Command : StateChange(c, next)
         \/ Acts /\ UNCHANGED <<value, timer, wish, posts, sent>>
         \/ \E next \in Command : Press(next)
         \/ Rename
<1>0. control \in Control /\ control.color \in Color /\ control.dimming \in Dim /\ control.temp \in Temp
  BY Known DEF Control
<1>1. CASE TurnOff
  BY <1>0, <1>1, Commands DEF TurnOff
<1>2. CASE \E c \in Picked : PickColor(c)
  BY <1>0, <1>2, Commands, ClampedColor DEF PickColor
<1>3. CASE \E d \in Dim : PickBrightness(d)
  BY <1>0, <1>3, Commands DEF PickBrightness
<1>4. CASE \E t \in Temp : PickTemp(t)
  BY <1>0, <1>4, Commands DEF PickTemp
<1>5. CASE \E tab \in {"color", "temp", "scene"} : OpenTab(tab)
  BY <1>0, <1>5, Commands DEF OpenTab
<1>6. CASE Toggle
  <2>1. TurnedOn \in Command /\ Off \in Command
    BY <1>0, Known, ToggleCommand, Commands DEF TurnedOn
  <2> QED  BY <1>6, <2>1 DEF Toggle
<1>7. ~MasterToggle /\ \A d \in Device : ~DeviceToggle(d)
  BY DEF MasterToggle, DeviceToggle, HasButton
<1> QED  BY <1>1, <1>2, <1>3, <1>4, <1>5, <1>6, <1>7 DEF User

\* A new value that the user has given.
LEMMA ChangeShown ==
  ASSUME IInv, OrderInv, NewsInv, ValueInv, kind = "device",
         \/ \E c \in Control, next \in Command : StateChange(c, next)
         \/ Acts /\ UNCHANGED <<value, timer, wish, posts, sent>>
  PROVE  OrderInv' /\ NewsInv' /\ ValueInv'
<1>0. UNCHANGED <<kind, page, store, cache, fetch, faults, posts, sent>> /\ cache # NoData
  BY DEF StateChange, Acts, server, Ready
<1>1. OrderInv' /\ NewsInv'
  <2>1. LastSent(posts, sent) => LastSent(posts', sent')
    BY <1>0
  <2> QED  BY <1>0, <2>1 DEF OrderInv, NewsInv
<1>2. ASSUME NEW c \in Control, NEW next \in Command, StateChange(c, next) PROVE ValueInv'
  <2>1. value' = next /\ wish' = next /\ timer' = next /\ next # Blank
    BY <1>2, CommandIsValue DEF StateChange
  <2> QED  BY <1>0, <2>1 DEF ValueInv, Pending
<1>3. ASSUME UNCHANGED <<value, timer, wish, posts, sent>> PROVE ValueInv'
  <2>1. Pending' = Pending /\ Obeyed' = Obeyed
    BY <1>0, <1>3 DEF Pending, PostPending, Obeyed
  <2> QED  BY <1>0, <1>3, <2>1 DEF ValueInv
<1> QED  BY <1>1, <1>2, <1>3

\* A post that the page sends.
LEMMA SendShown ==
  ASSUME IInv, OrderInv, NewsInv, ValueInv, kind = "device",
         Rename \/ Fire \/ \E next \in Command : Press(next)
  PROVE  OrderInv' /\ NewsInv' /\ ValueInv'
<1>0. UNCHANGED <<kind, page, store, cache, fetch, faults>>
  BY DEF Rename, Fire, Press, Acts, server
<1>1. posts \in Seq(PostInFlight) /\ Shown = {Bulb} /\ {Bulb} \subseteq Device
  BY Known, ConstantsAssumption DEF Shown
<1>2. NewsInv'
  BY <1>0 DEF NewsInv
<1>3. ASSUME Rename PROVE OrderInv' /\ ValueInv'
  <2> DEFINE r == [kind |-> "rename", phase |-> "sent"]
  <2>1. r \in PostInFlight /\ r.kind = "rename"
    BY DEF PostInFlight
  <2>2. posts' = Append(posts, r) /\ UNCHANGED <<value, timer, wish, sent>>
    BY <1>3 DEF Rename, panel
  <2> HIDE DEF r
  <2>3. OrderInv'
    <3>1. LastSent(posts, sent) => LastSent(posts', sent')
      BY <1>1, <2>1, <2>2, AppendOrder
    <3> QED  BY <1>0, <1>1, <2>1, <2>2, <3>1, AppendPending DEF OrderInv
  <2>4. PostPending => PostPending'
    BY <1>1, <2>2, AppendPending DEF PostPending
  <2> QED  BY <1>0, <2>2, <2>3, <2>4 DEF ValueInv, Pending, Obeyed
<1>4. ASSUME NEW next \in Command, Post(Shown, next), sent' = next
      PROVE  OrderInv' /\ PostPending'
  <2> DEFINE r == [kind |-> "control", to |-> {Bulb}, command |-> next, phase |-> "sent"]
  <2>1. r \in PostInFlight /\ r.kind = "control" /\ r.phase = "sent" /\ r.to = {Bulb} /\ r.command = next
    BY <1>1 DEF PostInFlight
  <2>2. posts' = Append(posts, r)
    BY <1>1, <1>4 DEF Post
  <2> HIDE DEF r
  <2>3. LastSent(posts, sent) => LastSent(posts', sent')
    BY <1>1, <1>4, <2>1, <2>2, AppendOrder
  <2>4. PostPending'
    BY <1>1, <2>1, <2>2, AppendPending DEF PostPending
  <2> QED  BY <1>0, <1>1, <2>1, <2>2, <2>3, <2>4, AppendPending DEF OrderInv
<1>5. ASSUME Fire PROVE OrderInv' /\ ValueInv'
  <2>1. timer \in Command
    BY <1>5, Known DEF Fire
  <2>2. OrderInv' /\ PostPending' /\ UNCHANGED <<value, wish>>
    BY <1>4, <1>5, <2>1 DEF Fire
  <2> QED  BY <1>0, <2>2 DEF ValueInv, Pending
<1>6. ASSUME NEW next \in Command, Press(next) PROVE OrderInv' /\ ValueInv'
  <2>1. OrderInv' /\ PostPending' /\ value' = next /\ wish' = next /\ cache # NoData
    BY <1>4, <1>6 DEF Press, Acts, Ready
  <2> QED  BY <1>0, <2>1 DEF ValueInv, Pending
<1> QED  BY <1>2, <1>3, <1>5, <1>6

\* A post that is executed: the last one to be so is the user's wish.
LEMMA ServeShown ==
  ASSUME IInv, OrderInv, NewsInv, ValueInv, kind = "device", NEW i \in 1 .. Len(posts), Serve(i)
  PROVE  OrderInv' /\ NewsInv' /\ ValueInv'
<1>0. UNCHANGED <<kind, page, value, timer, wish, cache, fetch, sent>>
  BY DEF Serve, panel
<1>1. posts \in Seq(PostInFlight) /\ posts[i] \in PostInFlight
  BY Known
<1>2. posts' = [posts EXCEPT ![i].phase = "served"] /\ posts[i].phase = "sent"
  BY DEF Serve, AnsweredBy
<1>3. faults' = {} => faults = {}
  BY DEF Serve, ServeControl, ServeRename
<1>4. /\ Len(posts') = Len(posts)
      /\ \A j \in 1 .. Len(posts) : posts'[j].kind = "control" => posts[j].kind = "control" /\ posts'[j].to = posts[j].to
  <2> DEFINE A == LastSent(posts, sent)
  <2>1. Len(posts') = Len(posts) /\ \A j \in 1 .. Len(posts) : j # i => posts'[j] = posts[j]
    BY <1>1, <1>2
  <2>2. posts'[i] = [posts[i] EXCEPT !.phase = "served"]
    BY <1>1, <1>2
  <2>3. posts'[i].kind = posts[i].kind /\ (posts[i].kind = "control" => posts'[i].to = posts[i].to)
    BY <1>1, <2>2 DEF PostInFlight
  <2> QED  BY <2>1, <2>3
<1>5. posts[i].kind = "control" \/ posts[i].kind = "rename"
  BY <1>1 DEF PostInFlight
<1>6. ASSUME faults' = {}, posts[i].kind = "control"
      PROVE  /\ \A j \in 1 .. i - 1 : ~Unserved(posts, j)
             /\ store'[Bulb] \in ReadBack(posts[i].command, store[Bulb])
  <2>1. PICK done \in SUBSET posts[i].to :
          /\ \A d \in done : store'[d] \in ReadBack(posts[i].command, store[d])
          /\ faults' = faults \cup (IF done # posts[i].to THEN {"failed"} ELSE {})
                           \cup (IF Overtakes(i) THEN {"overtaken"} ELSE {})
    BY <1>6 DEF Serve, ServeControl, ServeRename
  <2>2. done = posts[i].to /\ ~Overtakes(i)
    BY <1>6, <2>1
  <2>3. posts[i].to = {Bulb}
    BY <1>6 DEF OrderInv
  <2> QED  BY <2>1, <2>2, <2>3 DEF Overtakes, Unserved
<1>7. /\ faults' = {} => LastSent(posts', sent)
      /\ \A j \in 1 .. Len(posts) : Unserved(posts', j) <=> j # i /\ Unserved(posts, j)
  <2>1. CASE LastSent(posts, sent)
    BY <1>1, <1>2, <1>5, <1>6, <2>1, ServeOrder
  <2>2. CASE ~LastSent(posts, sent)
    <3>1. faults' # {}
      BY <1>3, <2>2 DEF OrderInv
    <3>2. Len(posts) \in Nat
      BY <1>1
    <3>3. \A j \in 1 .. Len(posts) : j # i => posts'[j] = posts[j]
      BY <1>1, <1>2
    <3>4. posts'[i].phase = "served"
      BY <1>1, <1>2 DEF PostInFlight
    <3> QED  BY <3>1, <3>3, <3>4 DEF Unserved
  <2> QED  BY <2>1, <2>2
<1>8. OrderInv'
  BY <1>0, <1>4, <1>7 DEF OrderInv
<1>9. store'[Bulb] = store[Bulb] \/ (posts[i].kind = "control" /\ store'[Bulb] \in ReadBack(posts[i].command, store[Bulb]))
  BY ConstantsAssumption DEF Serve, ServeControl, ServeRename
<1>10. NewsInv'
  <2>1. posts[i].kind = "control" => posts[i].command \in Command
    BY <1>1, PostsCommand
  <2>2. store[Bulb] # Blank => store'[Bulb] # Blank
    BY <1>9, <2>1, ReadBackIs
  <2> QED  BY <1>0, <2>2 DEF NewsInv
<1>11. ValueInv'
  <2> SUFFICES ASSUME page = "open", faults' = {}, value # Blank, value # cache.state[Bulb],
                      ~Pending'
               PROVE  value \in Command /\ value = wish /\ Obeyed' /\ cache # NoData
    BY <1>0, <1>3 DEF ValueInv
  <2>1. value \in Command /\ value = wish /\ (Pending \/ Obeyed) /\ cache # NoData
    BY <1>3 DEF ValueInv
  <2>2. timer = Blank /\ sent = wish
    BY <1>0, Known DEF Pending, WaitsForTimer
  <2>3. \A j \in 1 .. Len(posts) : ~Unserved(posts', j)
    BY <1>4 DEF Pending, PostPending
  <2>4. \A j \in 1 .. Len(posts) : Unserved(posts, j) => j = i
    BY <1>7, <2>3
  <2>5. CASE posts[i].kind = "control"
    <3>1. \A j \in 1 .. Len(posts) : j > i => ~Unserved(posts, j)
      BY <2>4
    <3>2. LastSent(posts, sent) /\ Unserved(posts, i)
      BY <1>2, <1>3, <2>5 DEF OrderInv, Unserved
    <3>3. posts[i].command = sent
      BY <3>1, <3>2 DEF LastSent
    <3>4. store'[Bulb] \in ReadBack(value, store[Bulb])
      BY <1>6, <2>1, <2>2, <2>5, <3>3
    <3> QED  BY <1>0, <2>1, <3>4, ReadBackIs DEF Obeyed
  <2>6. CASE posts[i].kind = "rename"
    <3>1. ~Pending
      BY <2>2, <2>4, <2>6 DEF Pending, PostPending, Unserved
    <3>2. store'[Bulb] = store[Bulb]
      BY <1>9, <2>6
    <3> QED  BY <1>0, <2>1, <3>1, <3>2 DEF Obeyed
  <2> QED  BY <1>5, <2>5, <2>6
<1> QED  BY <1>8, <1>10, <1>11

\* A post that is answered, or given up.
LEMMA RemoveShown ==
  ASSUME IInv, OrderInv, NewsInv, ValueInv, kind = "device", NEW i \in 1 .. Len(posts),
         Answer(i) \/ Lose(i)
  PROVE  OrderInv' /\ NewsInv' /\ ValueInv'
<1>0. UNCHANGED <<kind, page, value, timer, wish, store, cache, sent>> /\ posts' = RemoveAt(posts, i)
  BY DEF Answer, Lose, panel, server
<1>1. posts \in Seq(PostInFlight) /\ Len(posts) \in Nat
  BY Known
<1>2. \A j \in 1 .. Len(posts') : posts'[j].kind = "control" => posts'[j].to = {Bulb}
  <2>1. /\ Len(posts') = Len(posts) - 1
        /\ \A j \in 1 .. Len(posts) - 1 : posts'[j] = posts[IF j < i THEN j ELSE j + 1]
    BY <1>0, <1>1, Removed
  <2>2. \A j \in 1 .. Len(posts) - 1 : (IF j < i THEN j ELSE j + 1) \in 1 .. Len(posts)
    BY <1>1
  <2> QED  BY <2>1, <2>2 DEF OrderInv
<1>3. NewsInv'
  BY <1>0 DEF NewsInv, Answer, Lose, Invalidate, Asked
<1>4. CASE faults' # {}
  BY <1>2, <1>3, <1>4 DEF OrderInv, ValueInv
<1>5. CASE faults' = {}
  <2>1. Answer(i) /\ posts[i].phase = "served" /\ faults = {}
    BY <1>5 DEF Answer, Lose
  <2>2. LastSent(posts', sent') /\ (PostPending => PostPending')
    BY <1>0, <1>1, <2>1, AnswerOrder DEF OrderInv, PostPending
  <2> QED  BY <1>0, <1>2, <1>3, <2>1, <2>2 DEF OrderInv, ValueInv, Pending, Obeyed
<1> QED  BY <1>4, <1>5

\* The page's query.
LEMMA QueryShown ==
  ASSUME IInv, AnswerInv, OrderInv, NewsInv, ValueInv, kind = "device", ServeFetch \/ Deliver \/ LoseFetch
  PROVE  OrderInv' /\ NewsInv' /\ ValueInv'
<1>0. UNCHANGED <<kind, page, timer, wish, posts, store, sent>>
  BY DEF ServeFetch, Deliver, LoseFetch, panel, server
<1>1. OrderInv'
  BY <1>0 DEF OrderInv, ServeFetch, Deliver, LoseFetch
<1>2. Pending' = Pending
  BY <1>0 DEF Pending, PostPending
<1>3. CASE ServeFetch
  <2>1. fetch'.phase = "answered" /\ fetch'.data.state[Bulb] = store[Bulb]
    BY <1>3 DEF ServeFetch, Answered, Data, Shown
  <2>2. UNCHANGED <<value, cache, faults>>
    BY <1>3 DEF ServeFetch, panel
  <2> QED  BY <1>0, <1>1, <1>2, <2>1, <2>2 DEF NewsInv, ValueInv, Obeyed
<1>4. CASE LoseFetch
  BY <1>0, <1>1, <1>4 DEF LoseFetch, Idle, NewsInv, ValueInv, panel
<1>5. CASE Deliver
  <2>1. fetch.phase = "answered" /\ cache' = fetch.data /\ fetch'.phase = "idle" /\ UNCHANGED faults
    BY <1>5 DEF Deliver, Receive, Idle
  <2>2. NewsInv'
    BY <1>0, <2>1 DEF NewsInv
  <2>3. CASE fetch.data # cache /\ fetch.data.state[Bulb] # Blank
    <3>1. value' = fetch.data.state[Bulb]
      BY <1>5, <2>3 DEF Deliver, Receive
    <3>2. cache' # NoData /\ value' = cache'.state[Bulb]
      BY <2>1, <3>1 DEF AnswerInv
    <3> QED  BY <1>1, <2>2, <3>2 DEF ValueInv
  <2>4. CASE fetch.data = cache \/ fetch.data.state[Bulb] = Blank
    <3>1. UNCHANGED value
      BY <1>5, <2>4 DEF Deliver, Receive
    <3>2. Obeyed' = Obeyed
      BY <1>0, <3>1 DEF Obeyed
    <3>3. cache' # NoData
      BY <2>1 DEF AnswerInv
    <3>4. value # Blank /\ cache # NoData /\ value = cache.state[Bulb] => cache' = cache
      BY <2>1, <2>4 DEF NewsInv
    <3>5. ValueInv'
      BY <1>0, <1>2, <2>1, <3>1, <3>2, <3>3, <3>4 DEF ValueInv
    <3> QED  BY <1>1, <2>2, <3>5
  <2> QED  BY <2>3, <2>4
<1> QED  BY <1>3, <1>4, <1>5

LEMMA DataIsAnswer ==
  ASSUME store \in [Device -> BulbState], title \in Nat
  PROVE  Data # NoData
<1>1. Shown \in {{Bulb}, Device} /\ Shown \subseteq Device
  BY ConstantsAssumption DEF Shown
<1>2. [d \in Shown |-> store[d]] \in [Shown -> BulbState]
  BY <1>1
<1>3. Data \in [title : Nat, state : [Shown -> BulbState]]
  BY <1>2 DEF Data
<1> QED  BY <1>1, <1>3, NoDataAssumption

LEMMA AnswerStep == ASSUME IInv, AnswerInv, [Next]_vars PROVE AnswerInv'
<1>1. CASE UNCHANGED vars
  BY <1>1 DEF vars, server, AnswerInv
<1>2. CASE Leave
  BY <1>2 DEF Leave, server, Idle, AnswerInv
<1>3. CASE (User \/ Fire) /\ ~Leave
  BY <1>3, UserSends DEF AnswerInv
<1>4. CASE \E i \in 1 .. Len(posts) : Serve(i) \/ Answer(i) \/ Lose(i)
  BY <1>4 DEF Serve, ServeControl, ServeRename, Answer, Lose, Invalidate, Asked, server, AnswerInv
<1>5. CASE ServeFetch
  <2>1. Data # NoData
    BY Known, DataIsAnswer DEF AnswerInv
  <2> QED  BY <1>5, <2>1 DEF ServeFetch, Answered, server, AnswerInv
<1>6. CASE Deliver \/ LoseFetch
  BY <1>6 DEF Deliver, LoseFetch, Idle, server, AnswerInv
<1> QED  BY <1>1, <1>2, <1>3, <1>4, <1>5, <1>6 DEF Next

LEMMA ShownInit == Init => ShownInv
<1>0. Init => AnswerInv
  BY DEF Init, Asked, AnswerInv
<1> SUFFICES ASSUME Init, kind = "device" PROVE OrderInv /\ NewsInv /\ ValueInv
  BY <1>0 DEF ShownInv
<1>1. posts = <<>> /\ Len(posts) = 0
  BY DEF Init
<1>2. OrderInv /\ ValueInv
  BY <1>1 DEF Init, OrderInv, LastSent, ValueInv
<1>3. fetch.phase # "answered"
  BY DEF Init, Asked
<1>4. cache # NoData => cache.state[Bulb] = store[Bulb]
  BY DEF Init, Data, Shown
<1> QED  BY <1>2, <1>3, <1>4 DEF NewsInv

LEMMA ShownStep == ASSUME IInv, ShownInv, [Next]_vars PROVE ShownInv'
<1>0. kind' = kind
  BY DEF vars, Next, User, TurnOff, PickColor, PickBrightness, PickTemp, OpenTab, StateChange, Toggle,
     MasterToggle, Press, DeviceToggle, Rename, Acts, Leave, Fire, Serve, Answer, Lose, ServeFetch,
     Deliver, LoseFetch
<1> SUFFICES ASSUME AnswerInv, kind = "device", OrderInv, NewsInv, ValueInv
             PROVE  OrderInv' /\ NewsInv' /\ ValueInv'
  BY <1>0, AnswerStep DEF ShownInv
<1>1. CASE UNCHANGED vars
  <2>1. UNCHANGED <<page, value, timer, wish, posts, store, cache, fetch, sent, faults>>
    BY <1>1 DEF vars, panel, server
  <2>2. OrderInv'
    BY <2>1 DEF OrderInv
  <2>3. Pending' = Pending /\ Obeyed' = Obeyed
    BY <2>1 DEF Pending, PostPending, Obeyed
  <2> QED  BY <2>1, <2>2, <2>3 DEF NewsInv, ValueInv
<1>2. CASE Leave
  <2>1. /\ UNCHANGED <<posts, sent, faults>>
        /\ page' = "gone" /\ cache' = NoData /\ fetch'.phase = "idle"
    BY <1>2 DEF Leave, Idle
  <2>2. OrderInv'
    BY <2>1 DEF OrderInv
  <2> QED  BY <2>1, <2>2 DEF NewsInv, ValueInv
<1>3. CASE User /\ ~Leave
  BY <1>3, UserActs, ChangeShown, SendShown
<1>4. CASE Fire
  BY <1>4, SendShown
<1>5. CASE \E i \in 1 .. Len(posts) : Serve(i) \/ Answer(i) \/ Lose(i)
  BY <1>5, ServeShown, RemoveShown
<1>6. CASE ServeFetch \/ Deliver \/ LoseFetch
  BY <1>6, QueryShown
<1> QED  BY <1>1, <1>2, <1>3, <1>4, <1>5, <1>6 DEF Next

LEMMA ShownIsShown == IInv /\ FreshInv /\ ShownInv => ControlShowsDevice
<1> SUFFICES ASSUME FreshInv, ValueInv, Quiet, kind = "device", faults = {}, value # Blank,
                    value # cache.state[Bulb]
             PROVE  value \in Command /\ cache.state[Bulb] \in ReadBack(value, cache.state[Bulb])
  BY DEF ControlShowsDevice, ShownInv
<1>1. page = "open" /\ timer = Blank /\ Len(posts) = 0
  BY DEF Quiet
<1>2. ~Pending
  BY <1>1 DEF Pending, PostPending
<1>3. cache = Data
  BY QuietIsFresh DEF QuietPageIsFresh
<1>4. cache.state[Bulb] = store[Bulb]
  BY <1>3 DEF Data, Shown
<1> QED  BY <1>1, <1>2, <1>4 DEF ValueInv, Obeyed

----------------------------------------------------------------------------
(* The theorems.                                                           *)

THEOREM Invariant == Spec => []IInv
<1> QED  BY InitInvariant, Step, PTL DEF Spec

\* Variables keep their types; in particular a colour that is posted was
\* reported by a bulb or is bright enough to be seen.
THEOREM TypeCorrect == Spec => []TypeOK
<1>1. IInv => TypeOK
  BY DEF IInv, Typed
<1> QED  BY <1>1, Invariant, PTL

\* The control shows the page's value, whoever has set it last.
THEOREM ControlIsTrue == Spec => []ControlShowsValue
<1>1. IInv => ControlShowsValue
  BY DEF IInv
<1> QED  BY <1>1, Invariant, PTL

\* The page sends the user's latest wish and nothing else, in the safety part
\* of what KeepsPromise asks for.
THEOREM KeepsPromiseSafely == Spec => Debounce!Safety
<1>1. Init => Debounce!Init
  BY DEF Init, Debounce!Init
<1>2. IInv /\ [Next]_vars => [Debounce!Next]_(Debounce!vars)
  BY Step DEF Debounce!vars
<1>3. Init => IInv
  BY InitInvariant
<1>4. IInv /\ [Next]_vars => IInv'
  BY Step
<1> QED  BY <1>1, <1>2, <1>3, <1>4, PTL DEF Spec, Debounce!Safety

\* A page with nothing under way shows what the server has stored, unless an
\* answer was lost: whatever is executed makes the page ask once more.
THEOREM QuietIsFreshAlways == Spec => []QuietPageIsFresh
<1>1. Init => IInv /\ FreshInv
  BY InitInvariant, FreshInit
<1>2. IInv /\ FreshInv /\ [Next]_vars => IInv' /\ FreshInv'
  BY Step, FreshStep
<1>3. FreshInv => QuietPageIsFresh
  BY QuietIsFresh
<1> QED  BY <1>1, <1>2, <1>3, PTL DEF Spec

\* When nothing has gone wrong, the control of a device's page shows what is
\* stored or a command the device has obeyed: the value came from the server,
\* or it is the user's wish, and that was posted last and executed last.
THEOREM DeviceIsShown == Spec => []ControlShowsDevice
<1>1. Init => IInv /\ FreshInv /\ ShownInv
  BY InitInvariant, FreshInit, ShownInit
<1>2. IInv /\ FreshInv /\ ShownInv /\ [Next]_vars => IInv' /\ FreshInv' /\ ShownInv'
  BY Step, FreshStep, ShownStep
<1>3. IInv /\ FreshInv /\ ShownInv => ControlShowsDevice
  BY ShownIsShown
<1> QED  BY <1>1, <1>2, <1>3, PTL DEF Spec
=============================================================================

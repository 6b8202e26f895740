------------------------------- MODULE LightPanel -------------------------------
(***************************************************************************)
(* One visit to a page that controls lights: the page of a device, or that *)
(* of a room, zone or group, whose members it lists.                       *)
(*                                                                         *)
(* The page shows a LightingStateControl.  What the user sets there is     *)
(* posted 300 ms after the last change; a power button posts at once.      *)
(* Posts overlap, and the server executes them in any order.  An answered  *)
(* post makes the page fetch its data again, and on a device's page fresh  *)
(* data overwrites the control, whatever the user is about to set.  A copy *)
(* that says the same as the one before is no news: it is not even looked  *)
(* at.  Leaving the page does not stop the timer.                          *)
(***************************************************************************)
EXTENDS Integers, Sequences, SequencesExt

CONSTANTS
  Kind,     \* the pages to visit: of a "device", or of the "members" of something
  Device,   \* the members of the room, zone or group
  Bulb,     \* the one whose page it is
  Online,   \* those the server takes to be online
  Picked,   \* colours the user picks: the brightest channel of each
  Reported, \* colours bulbs report, alike
  Temp,     \* colour temperatures in use
  Dim,      \* levels of brightness in use
  First,    \* states bulbs are in at the beginning
  Blank,    \* {} and null: a value that says nothing
  NoData,   \* nothing fetched yet
  MaxEdits, \* bound: what the user does in one visit
  MaxPosts  \* bound: posts in flight

DefaultColor == 245  \* #F59E0B
DefaultTemp == 4000
FullBrightness == 100
MinMaxChannel == 24

\* What the sliders offer.
TemperatureSteps == {t \in 2200 .. 6500 : t % 100 = 0}
BrightnessSteps == 0 .. 100

ASSUME ConstantsAssumption ==
  /\ Kind \subseteq {"device", "members"}
  /\ Bulb \in Device
  /\ Online \subseteq Device
  /\ Picked \cup Reported \subseteq 0 .. 255
  /\ DefaultTemp \in Temp /\ Temp \subseteq TemperatureSteps
  /\ FullBrightness \in Dim /\ Dim \subseteq BrightnessSteps

VARIABLES
  kind,    \* of which kind the page is
  page,    \* "open", or "gone" once the user has left
  value,   \* stateValue, the control's value
  control, \* what the LightingStateControl keeps itself
  timer,   \* the command the debounce timer will post, or Blank
  posts,   \* posts in flight, in the order they were sent
  title,   \* the server's name of the device
  store,   \* the server's last_state of each device
  cache,   \* the page's copy of the server's data
  fetch,   \* the query: idle, asked, or answered with a copy on its way
  wish,    \* history: the latest command the user has given
  sent,    \* history: the latest command posted
  faults,  \* history: what has gone wrong
  edits    \* how much the user has done

panel == <<value, control, timer, wish>>
server == <<title, store>>
vars == <<kind, page, panel, posts, server, cache, fetch, sent, faults, edits>>

----------------------------------------------------------------------------
(* Values: what the control emits, and what a device's last_state says.    *)

Off == [mode |-> "off"]
On(d) == [mode |-> "on", dimming |-> d]
Rgb(c, d) == [mode |-> "color", color |-> c, dimming |-> d]
White(t, d) == [mode |-> "temp", temp |-> t, dimming |-> d]
Scene(d) == [mode |-> "scene", dimming |-> d]

\* clampMinLuminance(): a colour too dark to see is scaled up.
Clamped(c) == IF c >= MinMaxChannel THEN c ELSE MinMaxChannel

Color ==
  {DefaultColor, MinMaxChannel} \cup Reported \cup {c \in Picked : c >= MinMaxChannel}

Command ==
  {Off} \cup {On(d) : d \in Dim}
    \cup {Rgb(c, d) : c \in Color, d \in Dim} \cup {White(t, d) : t \in Temp, d \in Dim}

Lit ==
  {Rgb(c, d) : c \in Reported, d \in Dim}
    \cup {White(t, d) : t \in Temp, d \in Dim} \cup {Scene(d) : d \in Dim}
BulbState == {Blank, Off} \cup Lit

ASSUME BlankAssumption == Blank \notin Command \cup Lit
ASSUME NoDataAssumption ==
  \A devices \in {{Bulb}, Device} : NoData \notin [title : Nat, state : [devices -> BulbState]]
ASSUME FirstAssumption == Off \in First /\ First \subseteq BulbState

IsOff(v) == v # Blank /\ v.mode = "off"
Says(v, field) == v # Blank /\ field \in DOMAIN v

InferMode(v) ==
  IF v # Blank /\ v.mode \in {"off", "scene", "temp"} THEN v.mode ELSE "color"
InferColor(v, fallback) == IF Says(v, "color") THEN v.color ELSE fallback
InferDimming(v, fallback) == IF Says(v, "dimming") THEN v.dimming ELSE fallback
InferTemp(v, fallback) == IF Says(v, "temp") THEN v.temp ELSE fallback

\* What a bulb in state s may report when it has executed a command: the
\* colour as the bulb mixes it, the brightness and the temperature as set.
ReadBack(v, s) ==
  CASE v.mode = "off" -> {Off}
    [] v.mode = "on" /\ s \in Lit -> {[s EXCEPT !.dimming = v.dimming]}
    [] v.mode = "on" /\ s \notin Lit -> {x \in Lit : x.dimming = v.dimming}
    [] v.mode = "color" -> {Rgb(c, v.dimming) : c \in Reported}
    [] v.mode \in {"temp", "scene"} -> {v}

----------------------------------------------------------------------------
(* The page and its data.                                                  *)

Idle == [phase |-> "idle"]
Asked == [phase |-> "asked"]
Answered(data) == [phase |-> "answered", data |-> data]

\* Mutant: a value without a colour or temperature leaves the tab alone.
SyncedKeepingTab(c, v) ==
  [power |-> IF InferMode(v) = "off" THEN "off" ELSE "on",
   tab |-> IF v # Blank /\ v.mode \in {"color", "temp", "scene"} THEN v.mode ELSE c.tab,
   color |-> InferColor(v, c.color),
   dimming |-> InferDimming(v, c.dimming),
   temp |-> InferTemp(v, c.temp)]

\* A new value makes the control forget what it showed, as far as it speaks.
Synced(c, v) ==
  [power |-> IF InferMode(v) = "off" THEN "off" ELSE "on",
   tab |-> IF InferMode(v) = "off" THEN c.tab ELSE InferMode(v),
   color |-> InferColor(v, c.color),
   dimming |-> InferDimming(v, c.dimming),
   temp |-> InferTemp(v, c.temp)]

FreshControl ==
  [power |-> "on", tab |-> "color", color |-> DefaultColor,
   dimming |-> FullBrightness, temp |-> DefaultTemp]

Shown == IF kind = "device" THEN {Bulb} ELSE Device

\* The answer to the page's query.
Data == [title |-> title, state |-> [d \in Shown |-> store[d]]]

\* Devices the user does not see keep a state nobody asks for.
Init ==
  /\ kind \in Kind /\ page = "open"
  /\ store \in [Device -> First]
  /\ kind = "device" => \A d \in Device \ {Bulb} : store[d] = Off
  /\ title = 0
  /\ value = Blank /\ control = FreshControl /\ timer = Blank
  /\ cache \in {NoData, Data}
  /\ fetch = Asked
  /\ posts = <<>>
  /\ wish = Blank /\ sent = Blank
  /\ faults = {} /\ edits = 0

Ready == page = "open" /\ (kind = "device" => cache # NoData)

\* Data from the server; on a device's page it overwrites the control, if it
\* differs from the copy before and the device has a state.
Receive(data) ==
  /\ cache' = data
  /\ IF kind = "device" /\ data # cache /\ data.state[Bulb] # Blank
       THEN /\ value' = data.state[Bulb]
            \* An equal value may be the very same object, and be ignored.
            /\ \/ control' = Synced(control, value')
               \/ value' = value /\ UNCHANGED control
       ELSE UNCHANGED <<value, control>>

\* Mutant: a query under way is left to finish.
InvalidateUnlessFetching == fetch' = IF page = "gone" \/ fetch # Idle THEN fetch ELSE Asked

\* invalidateQueries(): a page that is open fetches again, even if it is
\* about to receive an answer.
Invalidate == fetch' = IF page = "gone" THEN fetch ELSE Asked

Acts ==
  /\ edits < MaxEdits /\ Ready
  /\ edits' = edits + 1
  /\ UNCHANGED <<kind, page, server, cache, fetch, faults>>

Post(to, command) ==
  /\ Len(posts) < MaxPosts
  /\ posts' = Append(posts, [kind |-> "control", to |-> to, command |-> command, phase |-> "sent"])

----------------------------------------------------------------------------
(* The control.                                                            *)

\* handleStateChange(): the page takes the value and starts the timer anew.
\* The control, c by now, receives its own value back.
StateChange(c, next) ==
  /\ Acts
  /\ value' = next /\ control' = Synced(c, next)
  /\ timer' = next /\ wish' = next
  /\ UNCHANGED <<posts, sent>>

TurnOff ==
  \/ control.power = "on" /\ StateChange(control, Off)
  \/ control.power = "off" /\ StateChange(control, On(control.dimming))

\* The tabs are there only while the light is not turned off.
Showing(tab) == control.power = "on" /\ control.tab = tab

PickColor(raw) ==
  /\ Showing("color")
  /\ StateChange(control, Rgb(Clamped(raw), control.dimming))

PickBrightness(d) ==
  \/ /\ Showing("color")
     /\ StateChange(control, Rgb(control.color, d))
  \/ /\ Showing("temp")
     /\ StateChange(control, White(control.temp, d))

PickTemp(t) ==
  /\ Showing("temp")
  /\ StateChange(control, White(t, control.dimming))

\* Opening a tab is a command, but for the scenes, which cannot be set here.
OpenTab(tab) ==
  /\ control.power = "on" /\ control.tab # tab
  /\ \/ /\ tab = "color"
        /\ StateChange(control, Rgb(control.color, control.dimming))
     \/ /\ tab = "temp"
        /\ StateChange(control, White(control.temp, control.dimming))
     \/ /\ tab = "scene"
        /\ Acts
        /\ control' = [control EXCEPT !.tab = "scene"]
        /\ UNCHANGED <<value, timer, wish, posts, sent>>

----------------------------------------------------------------------------
(* The buttons of the page, and the timer.                                 *)

\* Mutant: the timer goes on.
PressAndKeepTimer(next) ==
  /\ Acts
  /\ Post(Shown, next)
  /\ value' = next /\ control' = Synced(control, next)
  /\ wish' = next /\ sent' = next
  /\ UNCHANGED timer

\* A power button: at once, and instead of what waits for the timer.
Press(next) ==
  /\ Acts
  /\ Post(Shown, next)
  /\ value' = next /\ control' = Synced(control, next)
  /\ timer' = Blank
  /\ wish' = next /\ sent' = next

TurnedOn == On(InferDimming(value, FullBrightness))

\* handleToggle(): a device without a state counts as on.
Toggle ==
  /\ kind = "device"
  /\ Press(IF IsOff(cache.state[Bulb]) THEN TurnedOn ELSE Off)

AnyOn == cache # NoData /\ \E d \in Online : ~IsOff(cache.state[d])

\* handleMasterToggle(): off if any member is on.
MasterToggle ==
  /\ kind = "members"
  /\ Press(IF AnyOn THEN Off ELSE TurnedOn)

\* Each member has a button of its own, which works while it is online.
HasButton(d) == kind = "members" /\ cache # NoData /\ d \in Online

\* handleDeviceToggle(): the button of one member.
DeviceToggle(d) ==
  /\ Acts
  /\ HasButton(d)
  /\ Post({d}, IF IsOff(cache.state[d]) THEN On(FullBrightness) ELSE Off)
  /\ UNCHANGED <<panel, sent>>

\* The pencil, the field and the tick.
Rename ==
  /\ Acts
  /\ kind = "device"
  /\ Len(posts) < MaxPosts
  /\ posts' = Append(posts, [kind |-> "rename", phase |-> "sent"])
  /\ UNCHANGED <<panel, sent>>

\* Mutant: the timer is an interval.
FireAgain ==
  /\ timer # Blank
  /\ Post(Shown, timer)
  /\ sent' = timer
  /\ UNCHANGED <<kind, page, panel, server, cache, fetch, faults, edits>>

\* The timer fires, whether or not the page is still there.
Fire ==
  /\ timer # Blank
  /\ Post(Shown, timer)
  /\ sent' = timer
  /\ timer' = Blank
  /\ UNCHANGED <<kind, page, value, control, wish, server, cache, fetch, faults, edits>>

\* Mutant: leaving the page clears the timer.
LeaveForGood ==
  /\ page # "gone"
  /\ page' = "gone"
  /\ value' = Blank /\ control' = FreshControl /\ timer' = Blank
  /\ cache' = NoData /\ fetch' = Idle
  /\ UNCHANGED <<kind, posts, server, wish, sent, faults, edits>>

Leave ==
  /\ page # "gone"
  /\ page' = "gone"
  /\ value' = Blank /\ control' = FreshControl
  /\ cache' = NoData /\ fetch' = Idle
  /\ UNCHANGED <<kind, timer, posts, server, wish, sent, faults, edits>>

----------------------------------------------------------------------------
(* The server, and the way to it and back.                                 *)

AnsweredBy(i, phase) == posts' = [posts EXCEPT ![i].phase = phase]

\* A post served before an older one.
Overtakes(i) ==
  \E j \in 1 .. i - 1 : posts[j].kind = "control" /\ posts[j].phase = "sent"

\* POST /devices/{id}/control and /devices/bulk-control: some devices may
\* fail, and keep the state they had.
ServeControl(i) ==
  /\ posts[i].kind = "control"
  /\ \E done \in SUBSET posts[i].to :
       /\ store' \in [Device -> BulbState]
       /\ \A d \in done : store'[d] \in ReadBack(posts[i].command, store[d])
       /\ \A d \in Device \ done : store'[d] = store[d]
       /\ faults' = faults \cup (IF done # posts[i].to THEN {"failed"} ELSE {})
                           \cup (IF Overtakes(i) THEN {"overtaken"} ELSE {})
  /\ UNCHANGED title

ServeRename(i) ==
  /\ posts[i].kind = "rename"
  /\ title' = title + 1
  /\ UNCHANGED <<store, faults>>

Serve(i) ==
  /\ posts[i].phase = "sent"
  /\ ServeControl(i) \/ ServeRename(i)
  /\ AnsweredBy(i, "served")
  /\ UNCHANGED <<kind, page, panel, cache, fetch, sent, edits>>

\* onSuccess, also when devices have failed.
Answer(i) ==
  /\ posts[i].phase = "served"
  /\ posts' = RemoveAt(posts, i)
  /\ Invalidate
  /\ UNCHANGED <<kind, page, panel, server, cache, sent, faults, edits>>

\* onError: the request or its answer is lost, or the server refuses.
Lose(i) ==
  /\ posts' = RemoveAt(posts, i)
  /\ faults' = faults \cup {"lost"}
  /\ UNCHANGED <<kind, page, panel, server, cache, fetch, sent, edits>>

ServeFetch ==
  /\ fetch = Asked
  /\ fetch' = Answered(Data)
  /\ UNCHANGED <<kind, page, panel, posts, server, cache, sent, faults, edits>>

Deliver ==
  /\ fetch.phase = "answered"
  /\ Receive(fetch.data)
  /\ fetch' = Idle
  /\ UNCHANGED <<kind, page, timer, wish, posts, server, sent, faults, edits>>

LoseFetch ==
  /\ fetch # Idle
  /\ fetch' = Idle
  /\ faults' = faults \cup {"lost"}
  /\ UNCHANGED <<kind, page, panel, posts, server, cache, sent, edits>>

----------------------------------------------------------------------------

User ==
  \/ TurnOff
  \/ \E c \in Picked : PickColor(c)
  \/ \E d \in Dim : PickBrightness(d)
  \/ \E t \in Temp : PickTemp(t)
  \/ \E tab \in {"color", "temp", "scene"} : OpenTab(tab)
  \/ Toggle \/ MasterToggle
  \/ \E d \in Device : DeviceToggle(d)
  \/ Rename
  \/ Leave

Next ==
  \/ User
  \/ Fire
  \/ \E i \in 1 .. Len(posts) : Serve(i) \/ Answer(i) \/ Lose(i)
  \/ ServeFetch \/ Deliver \/ LoseFetch

\* The timer fires, and requests are served and answered, in the end.
Fairness ==
  /\ WF_vars(Fire)
  /\ WF_vars(\E i \in 1 .. Len(posts) : Serve(i) \/ Answer(i))
  /\ WF_vars(ServeFetch \/ Deliver)

Spec == Init /\ [][Next]_vars /\ Fairness

----------------------------------------------------------------------------
(* Properties.                                                             *)

Value == {Blank} \cup Command \cup BulbState
Control ==
  [power : {"on", "off"}, tab : {"color", "temp", "scene"},
   color : Color, dimming : Dim, temp : Temp]

\* What each variable holds.  A command's colours are those a bulb has
\* reported or bright enough to be seen: the picker's are scaled up
\* (clampMinLuminance), the control's own come from one or the other.
TypeOK ==
  /\ kind \in Kind
  /\ page \in {"open", "gone"}
  /\ value \in Value
  /\ control \in Control
  /\ {timer, wish, sent} \subseteq Command \cup {Blank}
  /\ \A i \in 1 .. Len(posts) : posts[i].kind = "control" => posts[i].command \in Command
  /\ store \in [Device -> BulbState]
  /\ faults \subseteq {"failed", "lost", "overtaken"}

\* What the control shows is what the page holds as its value: turned off or
\* not, the colour, brightness and temperature the value has, and the tab for
\* it, unless the user looks at the scenes.  Every handler sets a part of the
\* control and emits a value, which comes back and sets the control again.
ControlShowsValue ==
  page = "open" /\ value # Blank =>
    /\ control.power = "off" <=> IsOff(value)
    /\ \A field \in {"color", "dimming", "temp"} :
         Says(value, field) => control[field] = value[field]
    /\ control.power = "on" => control.tab \in {"scene", InferMode(value)}

Quiet == page = "open" /\ timer = Blank /\ posts = <<>> /\ fetch = Idle /\ cache # NoData

\* Once nothing is under way a page shows what the server has stored, though
\* devices failed and requests overtook each other; only an answer that was
\* lost leaves it stale.  Every answered post must ask again, and an answer
\* read before the post must not come last.
QuietPageIsFresh == Quiet /\ "lost" \notin faults => cache = Data

\* And where nothing went wrong at all, the control of a device's page shows
\* either what is stored or a command the device has obeyed: although fresh
\* data may overwrite what the user is setting, and data that is no news does
\* not correct it.
ControlShowsDevice ==
  Quiet /\ kind = "device" /\ faults = {} /\ value # Blank =>
    \/ value = cache.state[Bulb]
    \/ value \in Command /\ cache.state[Bulb] \in ReadBack(value, cache.state[Bulb])

Debounce == INSTANCE DebouncedCommand WITH NoCommand <- Blank

\* The page keeps a panel's promise, whatever answers overwrite the control
\* in the meantime, and also when the user leaves before the timer fires.
KeepsPromise == Debounce!Spec

\* Everything comes to rest once the user does.
Settles == <>[](timer = Blank /\ posts = <<>> /\ fetch = Idle)
=============================================================================

------------------------------ MODULE DeviceControl ------------------------------
(***************************************************************************)
(* The path of a light command, from the handlers that accept it to the    *)
(* bulb and back into devices.last_state.                                  *)
(*                                                                         *)
(* Five kinds of handler run side by side (the API process and two Celery  *)
(* workers): the single-device route, the bulk route, a quick action, a    *)
(* schedule run by a Celery tick, and discovery.  Each owns one database   *)
(* session; what it flushed is visible to the others only once it commits, *)
(* and SQLite lets one session write at a time.  A bulb is commanded and   *)
(* read back over UDP, so handlers interleave between the command, the     *)
(* read-back, the flush and the commit.                                    *)
(*                                                                         *)
(* Abstractions: a bulb is a power flag and a look (colour, white, scene   *)
(* or brightness); a control payload is its turn_off key and a look; the   *)
(* order in which the devices of one target are taken is arbitrary.        *)
(***************************************************************************)
EXTENDS Naturals, Sequences, FiniteSets

CONSTANTS
  Device,       \* bulbs on the LAN; the same name is its row in devices
  Look,         \* what a bulb may be asked to show
  Handler,      \* request and task slots that may be busy at once
  Kind,         \* the kinds of handler a run starts
  Concurrency,  \* _BULK_CONCURRENCY
  MaxTargets,   \* bound: targets of a quick action or schedules of a tick
  MaxEvents,    \* bound: commands started, outside changes and faults
  Dark,         \* the look of a payload with "state": False
  NoLook, NoRow, NoState, NoWrite, NoOne, Nothing

AllKinds == {"single", "bulk", "quick", "schedule", "discover"}

BulbState == [on : BOOLEAN, look : Look]
\* {"state": False}: the result of a turn_off whose read-back came back empty.
OffUnread == [on |-> FALSE, look |-> NoLook]
Report == BulbState \cup {OffUnread}

\* A control payload: does it carry turn_off, and which look does it name.
Dict == [off : BOOLEAN, look : Look \cup {Dark, NoLook}]
\* The payloads a client can send: something to do, perhaps both keys.
Payload == {p \in Dict : p.off \/ p.look # NoLook}

ASSUME ConstantsAssumption ==
  /\ Kind \subseteq AllKinds
  /\ Concurrency \in Nat \ {0}
  /\ MaxTargets \in Nat \ {0}
  /\ MaxEvents \in Nat
  /\ NoOne \notin Handler
  /\ NoState \notin Report
  /\ NoRow \notin Report \cup {NoState}
  /\ NoWrite \notin Report \cup {NoState, NoRow}
  /\ Nothing \notin Dict

VARIABLES
  bulb,    \* the real state of each bulb
  row,     \* committed devices.last_state, NoRow before the device is known
  writer,  \* the handler whose transaction holds SQLite's write lock
  task,    \* what each handler slot is doing
  events   \* commands, outside changes and faults so far (bounded)

vars == <<bulb, row, writer, task, events>>

\* validate_control_state, as far as switching off is concerned: it wins alone.
Validated(p) == IF p.off \/ p.look = Dark THEN [off |-> TRUE, look |-> NoLook] ELSE p

\* The quick-action route validates each stored target; the schedule engine
\* passes on what was stored.
Effective(k, p) == IF k = "quick" THEN Validated(p) ELSE p

\* state.pop("turn_off") removes the key from the caller's dictionary.
Popped(p) == [p EXCEPT !.off = FALSE]

\* bulb.turn_off(), or bulb.turn_on(PilotBuilder(...)); a payload without a
\* look only switches the bulb on, and a pilot with state False off.
Apply(p, b) ==
  IF p.off \/ p.look = Dark THEN [b EXCEPT !.on = FALSE]
  ELSE [on |-> TRUE, look |-> IF p.look = NoLook THEN b.look ELSE p.look]

Phase == {"none", "todo", "sent", "got", "read", "failed", "done"}

Idle ==
  [kind  |-> "idle",
   rest  |-> <<>>,                            \* targets not begun
   given |-> [off |-> FALSE, look |-> NoLook], \* the current target's state
   dict  |-> [off |-> FALSE, look |-> NoLook], \* the object handed on
   phase |-> [d \in Device |-> "none"],
   sent  |-> [d \in Device |-> Nothing],      \* commands of this target
   got   |-> [d \in Device |-> NoState],      \* read back from the bulb
   seen  |-> [d \in Device |-> NoRow],        \* last_state as first loaded
   pend  |-> [d \in Device |-> NoWrite]]      \* flushed, not committed

Init ==
  /\ bulb \in [Device -> BulbState]
  /\ row \in [Device -> {NoRow, NoState}]
  /\ writer = NoOne
  /\ task = [h \in Handler |-> Idle]
  /\ events = 0

----------------------------------------------------------------------------
(* Helpers over one handler's task.                                        *)

Todo(D) == [d \in Device |-> IF d \in D THEN "todo" ELSE "none"]
Known == {d \in Device : row[d] # NoRow}
In(h, phases) == {d \in Device : task[h].phase[d] \in phases}
\* Mutant: a device that failed is waited for.
ResolvedUnlessFailed(h) == In(h, {"todo", "sent", "got", "read", "failed"}) = {}
Resolved(h) == In(h, {"todo", "sent", "got", "read"}) = {}
CanWrite(h) == writer \in {h, NoOne}

\* Mutant: only what the transaction itself has written is seen.
ViewOwnWrites(h, d) == task[h].pend[d]
\* devices.last_state as the handler's own transaction sees it.
View(h, d) == IF task[h].pend[d] # NoWrite THEN task[h].pend[d] ELSE row[d]

\* The handler's next local state.
Becomes(h, t) == task' = [task EXCEPT ![h] = t]

\* One more command, outside change or fault, within the bound.
CountEvent == events < MaxEvents /\ events' = events + 1

\* Mutant: every route hands over the same object.
DictShared(k, p) == Popped(p)
\* The dictionary control_device() receives: the quick-action and bulk routes
\* hand over dict(state), a copy; the engine hands over target.state itself.
\* (The single route's dictionary serves one device only.)
Copies(k) == k \in {"bulk", "quick"}
DictAfter(k, p) == IF Copies(k) THEN p ELSE Popped(p)

----------------------------------------------------------------------------
(* Starting a handler.                                                     *)

\* POST /devices/{id}/control: the row is loaded, the payload is not validated.
StartSingle(h) ==
  /\ "single" \in Kind /\ task[h].kind = "idle" /\ CountEvent
  /\ \E d \in Known, p \in Payload :
       Becomes(h, [Idle EXCEPT !.kind = "single", !.given = p, !.dict = p,
                               !.phase[d] = "todo", !.seen[d] = row[d]])
  /\ UNCHANGED <<bulb, row, writer>>

\* POST /devices/bulk-control: all rows are loaded before the first command.
StartBulk(h) ==
  /\ "bulk" \in Kind /\ task[h].kind = "idle" /\ CountEvent
  /\ \E D \in SUBSET Known, p \in Payload :
       Becomes(h, [Idle EXCEPT !.kind = "bulk",
                               !.given = Validated(p), !.dict = Validated(p),
                               !.phase = Todo(D),
                               !.seen = [d \in Device |-> IF d \in D THEN row[d] ELSE NoRow]])
  /\ UNCHANGED <<bulb, row, writer>>

\* A handler that goes through a list of targets, one after the other.
StartTargets(h, k) ==
  /\ k \in Kind /\ task[h].kind = "idle" /\ CountEvent
  /\ \E n \in 1 .. MaxTargets : \E ps \in [1 .. n -> Payload] :
       Becomes(h, [Idle EXCEPT !.kind = k, !.rest = [i \in 1 .. n |-> Effective(k, ps[i])]])
  /\ UNCHANGED <<bulb, row, writer>>

\* POST /quick-actions/{id}/execute: the stored targets are validated again
\* (an invalid one is skipped).
StartQuickAction(h) == StartTargets(h, "quick")

\* check_cron_schedules / recalc_sun_times: the targets of the enabled schedules
\* that are due, by priority; they share one session and one commit.
StartScheduleTick(h) == StartTargets(h, "schedule")

\* resolve_device_ids() of the next target: a room, group, all, ... of the
\* devices known by now.
BeginTarget(h) ==
  /\ task[h].rest # <<>> /\ Resolved(h)
  /\ \E D \in SUBSET Known :
       Becomes(h, [task[h] EXCEPT !.rest  = Tail(@),
                                  !.given = Head(task[h].rest),
                                  !.dict  = Head(task[h].rest),
                                  !.phase = Todo(D),
                                  !.sent  = [d \in Device |-> Nothing],
                                  !.got   = [d \in Device |-> NoState]])
  /\ UNCHANGED <<bulb, row, writer, events>>

\* discover_task (every minute) or POST /devices/discover: the bulbs that
\* answered the broadcast are about to be queried.
StartDiscover(h) ==
  /\ "discover" \in Kind /\ task[h].kind = "idle"
  /\ \E D \in SUBSET Device :
       /\ D # Device => events < MaxEvents
       /\ events' = IF D = Device THEN events ELSE events + 1
       /\ Becomes(h, [Idle EXCEPT !.kind = "discover", !.phase = Todo(D)])
  /\ UNCHANGED <<bulb, row, writer>>

----------------------------------------------------------------------------
(* Talking to the bulb.                                                    *)

\* Whether the handler may command one more device now: bulk runs up to
\* Concurrency at a time, the others go device by device.
MaySend(h) ==
  IF task[h].kind = "bulk" THEN Cardinality(In(h, {"sent"})) < Concurrency
                           ELSE In(h, {"sent", "got"}) = {}

\* control_device() up to the command: turn_off is popped, then the bulb is
\* switched off, or on with the pilot built from what is left.  get_device()
\* has just loaded the row when devices are taken one by one.
SendTo(h, d, phase) ==
  /\ task[h].kind \in {"single", "bulk", "quick", "schedule"}
  /\ task[h].phase[d] = "todo" /\ MaySend(h)
  /\ Becomes(h, [task[h] EXCEPT !.phase[d] = phase,
                                !.sent[d]  = task[h].dict,
                                !.dict     = DictAfter(task[h].kind, @),
                                !.seen[d]  = IF task[h].kind \in {"quick", "schedule"}
                                             THEN View(h, d) ELSE @])

Send(h, d) ==
  /\ SendTo(h, d, "sent")
  /\ bulb' = [bulb EXCEPT ![d] = Apply(task[h].dict, @)]
  /\ UNCHANGED <<row, writer, events>>

\* The command raises: the bulb never saw it, or only its answer was lost.
SendFails(h, d) ==
  /\ SendTo(h, d, "failed")
  /\ bulb' \in {bulb, [bulb EXCEPT ![d] = Apply(task[h].dict, @)]}
  /\ CountEvent
  /\ UNCHANGED <<row, writer>>

\* updateState() and bulb.state.pilotResult.
ReadBack(h, d) ==
  /\ task[h].phase[d] = "sent"
  /\ Becomes(h, [task[h] EXCEPT !.phase[d] = "got", !.got[d] = bulb[d]])
  /\ UNCHANGED <<bulb, row, writer, events>>

\* The read-back raises, or leaves bulb.state empty.
ReadBackFails(h, d) ==
  /\ task[h].phase[d] = "sent"
  /\ \/ Becomes(h, [task[h] EXCEPT !.phase[d] = "failed"])
     \/ /\ task[h].sent[d].off
        /\ Becomes(h, [task[h] EXCEPT !.phase[d] = "got", !.got[d] = OffUnread])
  /\ CountEvent
  /\ UNCHANGED <<bulb, row, writer>>

\* discover_devices(): one bulb is queried.
Poll(h, d) ==
  /\ task[h].kind = "discover" /\ task[h].phase[d] = "todo"
  /\ Becomes(h, [task[h] EXCEPT !.phase[d] = "got", !.got[d] = bulb[d]])
  /\ UNCHANGED <<bulb, row, writer, events>>

\* The query raises (the bulb is left out) or leaves bulb.state empty.
PollFails(h, d) ==
  /\ task[h].kind = "discover" /\ task[h].phase[d] = "todo"
  /\ \/ Becomes(h, [task[h] EXCEPT !.phase[d] = "failed"])
     \/ Becomes(h, [task[h] EXCEPT !.phase[d] = "got"])
  /\ CountEvent
  /\ UNCHANGED <<bulb, row, writer>>

----------------------------------------------------------------------------
(* Writing what was learnt.                                                *)

\* upsert_device(): is there a row with this mac?
Select(h, d) ==
  /\ task[h].kind = "discover" /\ task[h].phase[d] = "got"
  /\ In(h, {"todo", "read"}) = {}
  /\ Becomes(h, [task[h] EXCEPT !.phase[d] = "read", !.seen[d] = View(h, d)])
  /\ UNCHANGED <<bulb, row, writer, events>>

\* The handler is about to flush the row of d.
ReadyToFlush(h, d) ==
  CASE task[h].kind = "discover" -> task[h].phase[d] = "read"
    [] task[h].kind = "bulk"     -> task[h].phase[d] = "got" /\ In(h, {"todo", "sent"}) = {}
    [] OTHER                     -> task[h].phase[d] = "got"

\* Mutant: devices.mac is not unique.
MacNotUnique(h, d) == FALSE
\* INSERT into devices with a mac that another session committed meanwhile.
UniqueViolated(h, d) == task[h].seen[d] = NoRow /\ View(h, d) # NoRow

\* Mutant: only the INSERT carries the state.
FlushedOnInsert(h, d) ==
  IF task[h].seen[d] = NoRow THEN task[h].got[d] ELSE task[h].pend[d]
\* What the flush leaves in the session's transaction.  The unit of work
\* omits last_state from the UPDATE when it equals the value it loaded.
Flushed(h, d) ==
  LET t == task[h] IN
  IF t.seen[d] = NoRow THEN t.got[d]
  ELSE IF t.got[d] \in {NoState, t.seen[d]} THEN t.pend[d]
  ELSE t.got[d]

\* update_device_state() / upsert_device(): the first flush takes the lock.
Flush(h, d) ==
  /\ ReadyToFlush(h, d) /\ CanWrite(h) /\ ~UniqueViolated(h, d)
  /\ writer' = h
  /\ Becomes(h, [task[h] EXCEPT !.phase[d] = "done",
                                !.pend[d]  = Flushed(h, d),
                                !.seen[d]  = IF task[h].got[d] = NoState /\ @ # NoRow
                                             THEN @ ELSE task[h].got[d]])
  /\ UNCHANGED <<bulb, row, events>>

\* The end of a handler whose session is rolled back.
Rollback(h) ==
  /\ writer' = IF writer = h THEN NoOne ELSE writer
  /\ Becomes(h, Idle)
  /\ UNCHANGED <<bulb, row>>

\* IntegrityError: the whole discovery batch is lost.
FlushConflict(h, d) ==
  /\ ReadyToFlush(h, d) /\ CanWrite(h) /\ UniqueViolated(h, d)
  /\ Rollback(h) /\ UNCHANGED events

\* OperationalError "database is locked" after the busy timeout: the route
\* answers 500, the Celery task fails, nothing of the handler is kept.
FlushTimesOut(h, d) ==
  /\ ReadyToFlush(h, d) /\ ~CanWrite(h)
  /\ Rollback(h) /\ UNCHANGED events

\* db.commit() and the response, or the end of the task.
Commit(h) ==
  /\ task[h].kind # "idle" /\ task[h].rest = <<>> /\ Resolved(h)
  /\ row' = [d \in Device |-> View(h, d)]
  /\ writer' = IF writer = h THEN NoOne ELSE writer
  /\ Becomes(h, Idle)
  /\ UNCHANGED <<bulb, events>>

----------------------------------------------------------------------------
(* The environment.                                                        *)

\* The API or the worker process dies; SQLite rolls its transaction back.
Crash(h) ==
  /\ task[h].kind # "idle" /\ CountEvent
  /\ Rollback(h)

\* Someone uses the vendor's app or a wall switch.
Outside(d) ==
  /\ CountEvent
  /\ \E b \in BulbState : bulb' = [bulb EXCEPT ![d] = b]
  /\ UNCHANGED <<row, writer, task>>

Start(h) ==
  \/ StartSingle(h) \/ StartBulk(h) \/ StartDiscover(h)
  \/ StartQuickAction(h) \/ StartScheduleTick(h)

Work(h) ==
  \/ BeginTarget(h) \/ Commit(h)
  \/ \E d \in Device :
       \/ Send(h, d) \/ ReadBack(h, d) \/ Poll(h, d) \/ Select(h, d)
       \/ Flush(h, d) \/ FlushConflict(h, d) \/ FlushTimesOut(h, d)

Fault(h) ==
  \/ Crash(h)
  \/ \E d \in Device : SendFails(h, d) \/ ReadBackFails(h, d) \/ PollFails(h, d)

Next ==
  \/ \E h \in Handler : Start(h) \/ Work(h) \/ Fault(h)
  \/ \E d \in Device : Outside(d)

Spec == Init /\ [][Next]_vars

\* Coroutines and tasks run on, pywizlight and SQLite's busy handler give up in
\* the end, and beat keeps starting discovery.  Nothing is assumed about who
\* gets the write lock.
Fairness ==
  \A h \in Handler : WF_vars(Work(h)) /\ WF_vars(StartDiscover(h))

FairSpec == Spec /\ Fairness

----------------------------------------------------------------------------
(* Properties.                                                             *)

TaskType ==
  [kind  : AllKinds \cup {"idle"},
   rest  : Seq(Dict),
   given : Dict,
   dict  : Dict,
   phase : [Device -> Phase],
   sent  : [Device -> Dict \cup {Nothing}],
   got   : [Device -> Report \cup {NoState}],
   seen  : [Device -> Report \cup {NoRow, NoState}],
   pend  : [Device -> Report \cup {NoState, NoWrite}]]

\* Every variable holds values of its type (the type invariant).
TypeOK ==
  /\ bulb \in [Device -> BulbState]
  /\ row \in [Device -> Report \cup {NoRow, NoState}]
  /\ writer \in Handler \cup {NoOne}
  /\ task \in [Handler -> TaskType]
  /\ events \in 0 .. MaxEvents

\* What a target asks for reaches every device it resolves to, whichever
\* device of the target was commanded before it.
StateReaches(h) ==
  \A d \in Device : task[h].sent[d] # Nothing => task[h].sent[d] = task[h].given

\* Bulk control and quick actions hand each device the whole command, although
\* control_device() takes keys out of the dictionary it is given.
CopiedStateReachesEveryDevice ==
  \A h \in Handler : Copies(task[h].kind) => StateReaches(h)

\* The schedule engine executes its targets: every device of a target receives
\* the target's state.  (The code does not: the dictionary is shared.)
ScheduleStateReachesEveryDevice ==
  \A h \in Handler : task[h].kind = "schedule" => StateReaches(h)

\* Once a state has been stored for a device, some state stays stored: two
\* discoveries that both found the device unknown cannot insert it twice, and a
\* bulb that does not report its state does not erase the one on record.
StoredStateNeverErased ==
  [][\A d \in Device : row[d] \in Report => row'[d] \in Report]_row

\* Every handler ends: the write lock held across bulb I/O, by handlers that
\* may time out or crash, never leaves another one waiting for ever.
HandlersFinish ==
  \A h \in Handler : task[h].kind # "idle" ~> task[h].kind = "idle"

\* devices.last_state of every device shows what its bulb does.
Agreement == \A d \in Device : row[d] = bulb[d]

\* Read-backs may be committed in the wrong order, lost to a crash or a lock
\* timeout, or skipped; once commands and faults stop, periodic discovery
\* still brings the stored states back in line with the bulbs, for good.
Converges == <>[]Agreement
=============================================================================

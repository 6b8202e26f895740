-------------------------- MODULE DeviceControl_proofs --------------------------
(* Proofs about DeviceControl, for any sets of bulbs, looks and handlers. *)
EXTENDS DeviceControl, TLAPS

\* Validation, the quick-action route and pop() turn payloads into payloads.
LEMMA PayloadFacts ==
  /\ Payload \subseteq Dict
  /\ \A p \in Dict : Validated(p) \in Dict /\ Popped(p) \in Dict
  /\ \A p \in Dict : \A k \in AllKinds : Effective(k, p) \in Dict /\ DictAfter(k, p) \in Dict
<1>1. Payload \subseteq Dict
  BY DEF Payload
<1>2. ASSUME NEW p \in Dict PROVE Validated(p) \in Dict /\ Popped(p) \in Dict
  BY DEF Dict, Validated, Popped
<1>3. ASSUME NEW p \in Dict, NEW k \in AllKinds
      PROVE  Effective(k, p) \in Dict /\ DictAfter(k, p) \in Dict
  BY <1>2 DEF Effective, DictAfter
<1> QED  BY <1>1, <1>2, <1>3

\* A bulb's reaction to a command is one of its states.
LEMMA ApplyType ==
  ASSUME NEW p \in Dict, NEW b \in BulbState
  PROVE  Apply(p, b) \in BulbState
BY DEF Dict, BulbState, Apply

\* An idle slot is a task.
LEMMA IdleType == Idle \in TaskType
<1>1. <<>> \in Seq(Dict)
  OBVIOUS
<1>2. [off |-> FALSE, look |-> NoLook] \in Dict
  BY DEF Dict
<1> QED  BY <1>1, <1>2 DEF Idle, TaskType, Phase

\* Replacing the fields of a task by values of their types leaves a task.
LEMMA TaskUpdate ==
  ASSUME NEW t \in TaskType, NEW d \in Device, NEW p \in Phase,
         NEW c \in Dict, NEW q \in Dict,
         NEW g \in Report \cup {NoState}, NEW s \in Report \cup {NoRow, NoState},
         NEW w \in Report \cup {NoState, NoWrite}
  PROVE  /\ [t EXCEPT !.phase[d] = p] \in TaskType
         /\ [t EXCEPT !.phase[d] = p, !.got[d] = g] \in TaskType
         /\ [t EXCEPT !.phase[d] = p, !.seen[d] = s] \in TaskType
         /\ [t EXCEPT !.phase[d] = p, !.pend[d] = w, !.seen[d] = s] \in TaskType
         /\ [t EXCEPT !.phase[d] = p, !.sent[d] = c, !.dict = q, !.seen[d] = s] \in TaskType
BY DEF TaskType

\* Every device is to be done or is no target.
LEMMA TodoType == \A D : Todo(D) \in [Device -> Phase]
BY DEF Todo, Phase

\* What a handler finds in the table, or in its own transaction, is of the type
\* of a row.
LEMMA ViewType ==
  ASSUME TypeOK, NEW h \in Handler, NEW d \in Device
  PROVE  View(h, d) \in Report \cup {NoRow, NoState}
BY ConstantsAssumption DEF TypeOK, TaskType, View

\* Every handler's step gives it a task of the type of a task.
LEMMA TaskStep ==
  ASSUME TypeOK, NEW h \in Handler,
         \/ Start(h) \/ Work(h) \/ Fault(h)
  PROVE  \E t \in TaskType : Becomes(h, t)
<1>a. task[h] \in TaskType /\ row \in [Device -> Report \cup {NoRow, NoState}]
  BY DEF TypeOK
<1>1. CASE StartSingle(h)
  <2>1. PICK d \in Known, p \in Payload :
          Becomes(h, [Idle EXCEPT !.kind = "single", !.given = p, !.dict = p,
                                  !.phase[d] = "todo", !.seen[d] = row[d]])
    BY <1>1 DEF StartSingle
  <2>2. p \in Dict /\ d \in Device
    BY PayloadFacts DEF Known
  <2>3. "single" \in AllKinds /\ "todo" \in Phase
    BY DEF AllKinds, Phase
  <2>4. [Idle EXCEPT !.kind = "single", !.given = p, !.dict = p,
                     !.phase[d] = "todo", !.seen[d] = row[d]] \in TaskType
    BY <1>a, <2>2, <2>3, IdleType DEF TaskType
  <2> QED  BY <2>1, <2>4
<1>2. CASE StartBulk(h)
  <2>1. PICK D \in SUBSET Known, p \in Payload :
          Becomes(h, [Idle EXCEPT !.kind = "bulk",
                               !.given = Validated(p), !.dict = Validated(p),
                               !.phase = Todo(D),
                               !.seen = [d \in Device |-> IF d \in D THEN row[d] ELSE NoRow]])
    BY <1>2 DEF StartBulk
  <2>2. "bulk" \in AllKinds /\ Validated(p) \in Dict
    BY PayloadFacts DEF AllKinds
  <2>3. [d \in Device |-> IF d \in D THEN row[d] ELSE NoRow]
          \in [Device -> Report \cup {NoRow, NoState}]
    BY <1>a
  <2>4. [Idle EXCEPT !.kind = "bulk", !.given = Validated(p), !.dict = Validated(p),
                     !.phase = Todo(D),
                     !.seen = [d \in Device |-> IF d \in D THEN row[d] ELSE NoRow]] \in TaskType
    BY <2>2, <2>3, TodoType, IdleType DEF TaskType
  <2> QED  BY <2>1, <2>4
<1>3. ASSUME NEW k \in {"quick", "schedule"}, StartTargets(h, k)
      PROVE  \E t \in TaskType : Becomes(h, t)
  <2>1. PICK n \in 1 .. MaxTargets : \E ps \in [1 .. n -> Payload] :
          Becomes(h, [Idle EXCEPT !.kind = k, !.rest = [i \in 1 .. n |-> Effective(k, ps[i])]])
    BY <1>3 DEF StartTargets
  <2>2. PICK ps \in [1 .. n -> Payload] :
          Becomes(h, [Idle EXCEPT !.kind = k, !.rest = [i \in 1 .. n |-> Effective(k, ps[i])]])
    BY <2>1
  <2>3. k \in AllKinds /\ n \in Nat
    BY ConstantsAssumption DEF AllKinds
  <2>4. \A i \in 1 .. n : Effective(k, ps[i]) \in Dict
    BY <2>3, PayloadFacts
  <2>5. [i \in 1 .. n |-> Effective(k, ps[i])] \in Seq(Dict)
    BY <2>3, <2>4
  <2>6. [Idle EXCEPT !.kind = k, !.rest = [i \in 1 .. n |-> Effective(k, ps[i])]] \in TaskType
    BY <2>3, <2>5, IdleType DEF TaskType
  <2> QED  BY <2>2, <2>6
<1>4. CASE StartDiscover(h)
  <2>1. PICK D \in SUBSET Device : Becomes(h, [Idle EXCEPT !.kind = "discover", !.phase = Todo(D)])
    BY <1>4 DEF StartDiscover
  <2>2. "discover" \in AllKinds
    BY DEF AllKinds
  <2>3. [Idle EXCEPT !.kind = "discover", !.phase = Todo(D)] \in TaskType
    BY <2>2, TodoType, IdleType DEF TaskType
  <2> QED  BY <2>1, <2>3
<1>5. CASE BeginTarget(h)
  <2>1. PICK D \in SUBSET Known :
          Becomes(h, [task[h] EXCEPT !.rest  = Tail(@),
                                  !.given = Head(task[h].rest),
                                  !.dict  = Head(task[h].rest),
                                  !.phase = Todo(D),
                                  !.sent  = [d \in Device |-> Nothing],
                                  !.got   = [d \in Device |-> NoState]])
    BY <1>5 DEF BeginTarget
  <2>2. task[h].rest \in Seq(Dict) /\ task[h].rest # <<>>
    BY <1>a, <1>5 DEF TaskType, BeginTarget
  <2>3. Tail(task[h].rest) \in Seq(Dict) /\ Head(task[h].rest) \in Dict
    BY <2>2
  <2>4. [task[h] EXCEPT !.rest  = Tail(@),
                        !.given = Head(task[h].rest),
                        !.dict  = Head(task[h].rest),
                        !.phase = Todo(D),
                        !.sent  = [d \in Device |-> Nothing],
                        !.got   = [d \in Device |-> NoState]] \in TaskType
    BY <1>a, <2>3, TodoType DEF TaskType
  <2> QED  BY <2>1, <2>4
<1>6. ASSUME NEW d \in Device, NEW ph \in {"sent", "failed"}, SendTo(h, d, ph)
      PROVE  \E t \in TaskType : Becomes(h, t)
  <2>1. task[h].dict \in Dict /\ task[h].seen[d] \in Report \cup {NoRow, NoState}
    BY <1>a DEF TaskType
  <2>2. DictAfter(task[h].kind, task[h].dict) \in Dict
    BY <1>6, <2>1, PayloadFacts DEF SendTo, AllKinds
  <2>3. (IF task[h].kind \in {"quick", "schedule"} THEN View(h, d) ELSE task[h].seen[d])
          \in Report \cup {NoRow, NoState}
    BY <2>1, ViewType
  <2>4. ph \in Phase
    BY DEF Phase
  <2> DEFINE s == IF task[h].kind \in {"quick", "schedule"}
                  THEN View(h, d) ELSE task[h].seen[d]
             q == DictAfter(task[h].kind, task[h].dict)
             t == [task[h] EXCEPT !.phase[d] = ph, !.sent[d] = task[h].dict, !.dict = q, !.seen[d] = s]
  <2>5. s \in Report \cup {NoRow, NoState} /\ q \in Dict
    BY <2>2, <2>3
  <2>6. Becomes(h, t)
    BY <1>6 DEF SendTo
  <2> HIDE DEF s, q
  <2>7. t \in TaskType
    BY <1>a, <2>1, <2>4, <2>5, TaskUpdate
  <2> QED  BY <2>6, <2>7
<1>7. ASSUME NEW d \in Device,
             ReadBack(h, d) \/ ReadBackFails(h, d) \/ Poll(h, d) \/ PollFails(h, d)
      PROVE  \E t \in TaskType : Becomes(h, t)
  <2>1. bulb[d] \in Report /\ OffUnread \in Report /\ {"got", "failed"} \subseteq Phase
    BY DEF Report, Phase, TypeOK
  <2>2. \/ Becomes(h, [task[h] EXCEPT !.phase[d] = "got", !.got[d] = bulb[d]])
        \/ Becomes(h, [task[h] EXCEPT !.phase[d] = "got", !.got[d] = OffUnread])
        \/ Becomes(h, [task[h] EXCEPT !.phase[d] = "failed"])
        \/ Becomes(h, [task[h] EXCEPT !.phase[d] = "got"])
    BY <1>7 DEF ReadBack, ReadBackFails, Poll, PollFails
  <2>3. /\ [task[h] EXCEPT !.phase[d] = "got", !.got[d] = bulb[d]] \in TaskType
        /\ [task[h] EXCEPT !.phase[d] = "got", !.got[d] = OffUnread] \in TaskType
        /\ [task[h] EXCEPT !.phase[d] = "failed"] \in TaskType
        /\ [task[h] EXCEPT !.phase[d] = "got"] \in TaskType
    BY <1>a, <2>1 DEF TaskType
  <2> QED  BY <2>2, <2>3
<1>8. ASSUME NEW d \in Device, Select(h, d)
      PROVE  \E t \in TaskType : Becomes(h, t)
  <2>1. View(h, d) \in Report \cup {NoRow, NoState} /\ "read" \in Phase
    BY ViewType DEF Phase
  <2>2. [task[h] EXCEPT !.phase[d] = "read", !.seen[d] = View(h, d)] \in TaskType
    BY <1>a, <2>1 DEF TaskType
  <2> QED  BY <1>8, <2>2 DEF Select
<1>9. ASSUME NEW d \in Device, Flush(h, d)
      PROVE  \E t \in TaskType : Becomes(h, t)
  <2>1. /\ task[h].got[d] \in Report \cup {NoState}
        /\ task[h].pend[d] \in Report \cup {NoState, NoWrite}
        /\ task[h].seen[d] \in Report \cup {NoRow, NoState}
    BY <1>a DEF TaskType
  <2>2. Flushed(h, d) \in Report \cup {NoState, NoWrite} /\ "done" \in Phase
    BY <2>1 DEF Flushed, Phase
  <2> DEFINE s == IF task[h].got[d] = NoState /\ task[h].seen[d] # NoRow
                  THEN task[h].seen[d] ELSE task[h].got[d]
             t == [task[h] EXCEPT !.phase[d] = "done", !.pend[d] = Flushed(h, d), !.seen[d] = s]
  <2>3. s \in Report \cup {NoRow, NoState}
    BY <2>1
  <2>4. t \in TaskType
    BY <1>a, <2>2, <2>3 DEF TaskType
  <2>5. Becomes(h, t)
    BY <1>9 DEF Flush
  <2> QED  BY <2>4, <2>5
<1>10. ASSUME Becomes(h, Idle) PROVE \E t \in TaskType : Becomes(h, t)
  BY <1>10, IdleType
<1>11. CASE Commit(h)
  BY <1>10, <1>11 DEF Commit
<1>12. CASE Rollback(h)
  BY <1>10, <1>12 DEF Rollback
<1>13. CASE Start(h)
  BY <1>1, <1>2, <1>3, <1>4, <1>13 DEF Start, StartQuickAction, StartScheduleTick
<1>14. CASE Work(h)
  BY <1>5, <1>6, <1>7, <1>8, <1>9, <1>11, <1>12, <1>14 DEF Work, Send, FlushConflict, FlushTimesOut
<1>15. CASE Fault(h)
  BY <1>6, <1>7, <1>12, <1>15 DEF Fault, SendFails, Crash
<1> QED  BY <1>13, <1>14, <1>15

\* What a step does to a bulb, a row, the lock and the count of events.
LEMMA OtherStep ==
  ASSUME TypeOK, Next
  PROVE  /\ bulb' \in [Device -> BulbState]
         /\ row' \in [Device -> Report \cup {NoRow, NoState}]
         /\ writer' \in Handler \cup {NoOne}
         /\ events' \in 0 .. MaxEvents
<1>a. /\ bulb \in [Device -> BulbState]
      /\ row \in [Device -> Report \cup {NoRow, NoState}]
      /\ writer \in Handler \cup {NoOne}
      /\ events \in 0 .. MaxEvents /\ MaxEvents \in Nat
  BY ConstantsAssumption DEF TypeOK
<1>b. CountEvent => events' \in 0 .. MaxEvents
  BY <1>a DEF CountEvent
<1>1. ASSUME NEW h \in Handler, Start(h)
      PROVE  UNCHANGED <<bulb, row, writer>> /\ events' \in 0 .. MaxEvents
  <2>1. CASE StartSingle(h)  BY <1>b, <2>1 DEF StartSingle
  <2>2. CASE StartBulk(h)    BY <1>b, <2>2 DEF StartBulk
  <2>3. CASE StartTargets(h, "quick") \/ StartTargets(h, "schedule")
    BY <1>b, <2>3 DEF StartTargets
  <2>4. CASE StartDiscover(h)
    <3>1. PICK D \in SUBSET Device : /\ D # Device => events < MaxEvents
                                     /\ events' = IF D = Device THEN events ELSE events + 1
      BY <2>4 DEF StartDiscover
    <3> QED  BY <1>a, <2>4, <3>1 DEF StartDiscover
  <2> QED
    BY <1>1, <2>1, <2>2, <2>3, <2>4 DEF Start, StartQuickAction, StartScheduleTick
<1>2. ASSUME NEW h \in Handler, NEW d \in Device, Send(h, d) \/ SendFails(h, d)
      PROVE  /\ bulb' \in [Device -> BulbState]
             /\ UNCHANGED <<row, writer>> /\ events' \in 0 .. MaxEvents
  <2>1. task[h].dict \in Dict
    BY DEF TypeOK, TaskType
  <2>2. Apply(task[h].dict, bulb[d]) \in BulbState
    BY <1>a, <2>1, ApplyType
  <2> QED  BY <1>a, <1>b, <1>2, <2>2 DEF Send, SendFails
<1>3. ASSUME NEW h \in Handler, Commit(h)
      PROVE  /\ row' \in [Device -> Report \cup {NoRow, NoState}]
             /\ UNCHANGED <<bulb, events>> /\ writer' \in Handler \cup {NoOne}
  BY <1>a, <1>3, ViewType DEF Commit
<1>4. ASSUME NEW h \in Handler, Rollback(h)
      PROVE  UNCHANGED <<bulb, row>> /\ writer' \in Handler \cup {NoOne}
  BY <1>a, <1>4 DEF Rollback
<1>5. ASSUME NEW d \in Device, Outside(d)
      PROVE  /\ bulb' \in [Device -> BulbState] /\ events' \in 0 .. MaxEvents
             /\ UNCHANGED <<row, writer>>
  BY <1>a, <1>b, <1>5 DEF Outside
<1>6. ASSUME NEW h \in Handler, NEW d \in Device,
             \/ ReadBack(h, d) \/ Poll(h, d) \/ Select(h, d)
             \/ ReadBackFails(h, d) \/ PollFails(h, d) \/ BeginTarget(h) \/ Flush(h, d)
      PROVE  /\ UNCHANGED <<bulb, row>> /\ events' \in 0 .. MaxEvents
             /\ writer' \in Handler \cup {NoOne}
  BY <1>a, <1>b, <1>6 DEF ReadBack, Poll, Select, ReadBackFails, PollFails, BeginTarget, Flush
<1>7. ASSUME NEW h \in Handler, BeginTarget(h)
      PROVE  UNCHANGED <<bulb, row, writer, events>>
  BY <1>7 DEF BeginTarget
<1>8. CASE \E h \in Handler : Start(h)
  BY <1>a, <1>1, <1>8
<1>9. CASE \E h \in Handler : Work(h)
  <2> PICK h \in Handler : Work(h)
    BY <1>9
  <2>1. CASE \E d \in Device : FlushConflict(h, d) \/ FlushTimesOut(h, d)
    BY <1>a, <1>4, <2>1 DEF FlushConflict, FlushTimesOut
  <2>2. CASE \E d \in Device : ReadBack(h, d) \/ Poll(h, d) \/ Select(h, d) \/ Flush(h, d)
    BY <1>a, <1>6, <2>2
  <2>3. CASE \E d \in Device : Send(h, d)
    BY <1>a, <1>2, <2>3
  <2>4. CASE BeginTarget(h) \/ Commit(h)
    BY <1>a, <1>3, <1>7, <2>4
  <2> QED  BY <2>1, <2>2, <2>3, <2>4 DEF Work
<1>10. CASE \E h \in Handler : Fault(h)
  <2> PICK h \in Handler : Fault(h)
    BY <1>10
  <2>1. CASE Crash(h)
    BY <1>a, <1>b, <1>4, <2>1 DEF Crash
  <2>2. CASE \E d \in Device : SendFails(h, d) \/ ReadBackFails(h, d) \/ PollFails(h, d)
    BY <1>a, <1>2, <1>6, <2>2
  <2> QED  BY <2>1, <2>2 DEF Fault
<1>11. CASE \E d \in Device : Outside(d)
  BY <1>a, <1>5, <1>11
<1> QED  BY <1>8, <1>9, <1>10, <1>11 DEF Next

\* The variables keep their types.
THEOREM TypeCorrect == Spec => []TypeOK
<1>1. Init => TypeOK
  BY IdleType, ConstantsAssumption DEF Init, TypeOK, Report
<1>2. TypeOK /\ [Next]_vars => TypeOK'
  <2> SUFFICES ASSUME TypeOK, [Next]_vars PROVE TypeOK'
    OBVIOUS
  <2>a. task \in [Handler -> TaskType]
    BY DEF TypeOK
  <2>1. CASE \E h \in Handler : Start(h) \/ Work(h) \/ Fault(h)
    <3>1. Next
      BY <2>1 DEF Next
    <3>2. task' \in [Handler -> TaskType]
      BY <2>1, <2>a, TaskStep DEF Becomes
    <3> QED  BY <3>1, <3>2, OtherStep DEF TypeOK
  <2>2. CASE \E d \in Device : Outside(d)
    <3>1. Next
      BY <2>2 DEF Next
    <3>2. task' \in [Handler -> TaskType]
      BY <2>2, <2>a DEF Outside
    <3> QED  BY <3>1, <3>2, OtherStep DEF TypeOK
  <2>3. CASE UNCHANGED vars
    BY <2>3 DEF vars, TypeOK
  <2> QED  BY <2>1, <2>2, <2>3 DEF Next
<1> QED  BY <1>1, <1>2, PTL DEF Spec

----------------------------------------------------------------------------
(* Bulk control and quick actions: the whole command reaches every device.  *)

\* Querying a bulb fills in what was read, and nothing else.
LEMMA QueryKeeps ==
  ASSUME TypeOK, NEW h \in Handler, NEW d \in Device,
         ReadBack(h, d) \/ ReadBackFails(h, d) \/ Poll(h, d) \/ PollFails(h, d)
  PROVE  /\ Becomes(h, task'[h]) /\ UNCHANGED <<row, writer>>
         /\ task'[h].kind = task[h].kind /\ task'[h].dict = task[h].dict
         /\ task'[h].given = task[h].given /\ task'[h].sent = task[h].sent
         /\ task'[h].pend = task[h].pend
<1>a. task \in [Handler -> TaskType] /\ task[h] \in TaskType
  BY DEF TypeOK
<1>1. \/ \E g \in Report : Becomes(h, [task[h] EXCEPT !.phase[d] = "got", !.got[d] = g])
      \/ \E p \in Phase : Becomes(h, [task[h] EXCEPT !.phase[d] = p])
  <2>1. bulb[d] \in Report /\ OffUnread \in Report /\ {"got", "failed"} \subseteq Phase
    BY DEF Report, Phase, TypeOK
  <2>2. CASE ReadBack(h, d) \/ Poll(h, d)
    BY <2>1, <2>2 DEF ReadBack, Poll
  <2>3. CASE ReadBackFails(h, d)
    BY <2>1, <2>3 DEF ReadBackFails
  <2>4. CASE PollFails(h, d)
    BY <2>1, <2>4 DEF PollFails
  <2> QED  BY <2>2, <2>3, <2>4
<1>2. CASE \E g \in Report : Becomes(h, [task[h] EXCEPT !.phase[d] = "got", !.got[d] = g])
  BY <1>a, <1>2 DEF Becomes, TaskType, ReadBack, ReadBackFails, Poll, PollFails
<1>3. CASE \E p \in Phase : Becomes(h, [task[h] EXCEPT !.phase[d] = p])
  BY <1>a, <1>3 DEF Becomes, TaskType, ReadBack, ReadBackFails, Poll, PollFails
<1> QED  BY <1>1, <1>2, <1>3

\* The inductive form: what is handed on is still what the target asks for.
CopyIntact ==
  \A h \in Handler : Copies(task[h].kind) => task[h].dict = task[h].given /\ StateReaches(h)

\* A fresh task hands on what it was given, and has handed on nothing yet.
LEMMA FreshCopy ==
  ASSUME TypeOK, CopyIntact, NEW h \in Handler, NEW t, Becomes(h, t),
         Copies(t.kind) => /\ t.dict = t.given
                           /\ \A d \in Device : t.sent[d] # Nothing => t.sent[d] = t.given
  PROVE  CopyIntact'
BY DEF TypeOK, CopyIntact, Becomes, StateReaches

\* The steps that only fill in phases, read-backs and pending writes.
LEMMA SameCopy ==
  ASSUME TypeOK, CopyIntact, NEW h \in Handler, NEW t, Becomes(h, t),
         t.kind = task[h].kind, t.dict = task[h].dict,
         t.given = task[h].given, t.sent = task[h].sent
  PROVE  CopyIntact'
BY FreshCopy DEF CopyIntact, StateReaches

\* A bulk or quick-action command reaches each of its devices unchanged: what
\* control_device() pops from the dictionary it is given stays popped there.
THEOREM CopiedStateIsWhole == Spec => []CopiedStateReachesEveryDevice
<1>1. Init => CopyIntact
  BY DEF Init, CopyIntact, Idle, Copies
<1>2. TypeOK /\ CopyIntact /\ [Next]_vars => CopyIntact'
  <2> SUFFICES ASSUME TypeOK, CopyIntact, [Next]_vars PROVE CopyIntact'
    OBVIOUS
  <2>a. ASSUME NEW h \in Handler PROVE task[h] \in TaskType
    BY DEF TypeOK
  <2>i. ASSUME NEW h \in Handler, Becomes(h, Idle) PROVE CopyIntact'
    BY <2>i, FreshCopy DEF Idle
  <2>1. ASSUME NEW h \in Handler, Start(h) PROVE CopyIntact'
    <3>1. CASE StartSingle(h)
      BY <3>1, FreshCopy DEF StartSingle, Idle, Copies
    <3>2. CASE StartBulk(h)
      BY <3>2, FreshCopy DEF StartBulk, Idle
    <3>3. ASSUME NEW k, StartTargets(h, k) PROVE CopyIntact'
      BY <3>3, FreshCopy DEF StartTargets, Idle
    <3>4. CASE StartDiscover(h)
      BY <3>4, FreshCopy DEF StartDiscover, Idle, Copies
    <3> QED  BY <2>1, <3>1, <3>2, <3>3, <3>4 DEF Start, StartQuickAction, StartScheduleTick
  <2>2. ASSUME NEW h \in Handler, BeginTarget(h) PROVE CopyIntact'
    <3>1. PICK D \in SUBSET Known :
          Becomes(h, [task[h] EXCEPT !.rest  = Tail(@),
                                  !.given = Head(task[h].rest),
                                  !.dict  = Head(task[h].rest),
                                  !.phase = Todo(D),
                                  !.sent  = [d \in Device |-> Nothing],
                                  !.got   = [d \in Device |-> NoState]])
      BY <2>2 DEF BeginTarget
    <3> DEFINE t == [task[h] EXCEPT !.rest  = Tail(@),
                                  !.given = Head(task[h].rest),
                                  !.dict  = Head(task[h].rest),
                                  !.phase = Todo(D),
                                  !.sent  = [d \in Device |-> Nothing],
                                  !.got   = [d \in Device |-> NoState]]
    <3>2. t.dict = t.given /\ \A d \in Device : t.sent[d] = Nothing
      BY <2>a DEF TaskType
    <3>3. Becomes(h, t)
      BY <3>1
    <3> HIDE DEF t
    <3> QED  BY <3>2, <3>3, FreshCopy
  <2>3. ASSUME NEW h \in Handler, NEW d \in Device, Send(h, d) \/ SendFails(h, d)
        PROVE  CopyIntact'
    <3> DEFINE ph == task'[h].phase[d]
               t == task'[h]
    <3>1. PICK p \in {"sent", "failed"} : SendTo(h, d, p)
      BY <2>3 DEF Send, SendFails
    <3>2. /\ t.kind = task[h].kind /\ t.given = task[h].given
          /\ t.dict = DictAfter(task[h].kind, task[h].dict)
          /\ t.sent = [task[h].sent EXCEPT ![d] = task[h].dict]
          /\ Becomes(h, t)
      BY <2>a, <3>1 DEF SendTo, Becomes, TypeOK, TaskType
    <3>3. Copies(task[h].kind) =>
             /\ task[h].dict = task[h].given
             /\ DictAfter(task[h].kind, task[h].dict) = task[h].dict
             /\ \A e \in Device : task[h].sent[e] # Nothing => task[h].sent[e] = task[h].given
      BY DEF CopyIntact, StateReaches, DictAfter
    <3>4. task[h].sent \in [Device -> Dict \cup {Nothing}]
      BY <2>a DEF TaskType
    <3> HIDE DEF t
    <3> QED  BY <3>2, <3>3, <3>4, FreshCopy
  <2>4. ASSUME NEW h \in Handler, NEW d \in Device,
               \/ ReadBack(h, d) \/ ReadBackFails(h, d) \/ Poll(h, d) \/ PollFails(h, d)
               \/ Select(h, d) \/ Flush(h, d)
        PROVE  CopyIntact'
    <3> DEFINE t == task'[h]
    <3>1. /\ Becomes(h, t)
          /\ t.kind = task[h].kind /\ t.dict = task[h].dict
          /\ t.given = task[h].given /\ t.sent = task[h].sent
      <4>1. CASE ReadBack(h, d) \/ ReadBackFails(h, d) \/ Poll(h, d) \/ PollFails(h, d)
        BY <4>1, QueryKeeps
      <4>2. CASE Select(h, d)
        BY <2>a, <4>2 DEF TypeOK, TaskType, Becomes, Select
      <4>3. CASE Flush(h, d)
        BY <2>a, <4>3 DEF TypeOK, TaskType, Becomes, Flush
      <4> QED  BY <2>4, <4>1, <4>2, <4>3
    <3> HIDE DEF t
    <3> QED  BY <3>1, SameCopy
  <2>5. ASSUME NEW h \in Handler, Commit(h) \/ Rollback(h) PROVE CopyIntact'
    BY <2>5, <2>i DEF Commit, Rollback
  <2>6. CASE \E d \in Device : Outside(d)
    BY <2>6 DEF Outside, CopyIntact, StateReaches
  <2>7. CASE UNCHANGED vars
    BY <2>7 DEF vars, CopyIntact, StateReaches
  <2>8. ASSUME NEW h \in Handler, Work(h) PROVE CopyIntact'
    BY <2>2, <2>3, <2>4, <2>5, <2>8 DEF Work, FlushConflict, FlushTimesOut
  <2>9. ASSUME NEW h \in Handler, Fault(h) PROVE CopyIntact'
    BY <2>3, <2>4, <2>5, <2>9 DEF Fault, Crash
  <2> QED  BY <2>1, <2>6, <2>7, <2>8, <2>9 DEF Next
<1>3. CopyIntact => CopiedStateReachesEveryDevice
  BY DEF CopyIntact, CopiedStateReachesEveryDevice
<1> QED  BY <1>1, <1>2, <1>3, TypeCorrect, PTL DEF Spec

----------------------------------------------------------------------------
(* Stored states are never erased.                                          *)

\* Only the holder of the write lock has flushed anything.
PendingIsLocked ==
  \A h \in Handler, d \in Device : task[h].pend[d] # NoWrite => writer = h

\* A row without a state is inserted only where no row was before.
EmptyInsertIsFirst ==
  \A h \in Handler, d \in Device : task[h].pend[d] = NoState => row[d] \notin Report

StoreInv == PendingIsLocked /\ EmptyInsertIsFirst

\* A step that leaves a handler with the pending writes it had, or with none.
LEMMA QuietStep ==
  ASSUME TypeOK, StoreInv, NEW h \in Handler, NEW t, Becomes(h, t),
         row' = row, t.pend \in {task[h].pend, Idle.pend},
         writer' = writer \/ (t.pend = Idle.pend /\ writer = h)
  PROVE  StoreInv'
<1>1. \A g \in Handler : task'[g] = IF g = h THEN t ELSE task[g]
  BY DEF TypeOK, Becomes
<1>2. \A d \in Device : Idle.pend[d] = NoWrite
  BY DEF Idle
<1>3. \A g \in Handler, d \in Device : task'[g].pend[d] \in {task[g].pend[d], NoWrite}
  BY <1>1, <1>2
<1>4. \A g \in Handler, d \in Device :
         task'[g].pend[d] # NoWrite => task[g].pend[d] = task'[g].pend[d] /\ writer' = g
  BY <1>1, <1>2, <1>3 DEF StoreInv, PendingIsLocked
<1>5. PendingIsLocked'
  BY <1>4 DEF PendingIsLocked
<1>6. EmptyInsertIsFirst'
  BY <1>4, ConstantsAssumption DEF StoreInv, EmptyInsertIsFirst
<1> QED  BY <1>5, <1>6 DEF StoreInv

\* A rollback leaves nothing pending and frees the handler's lock.
LEMMA RollbackStep ==
  ASSUME TypeOK, StoreInv, NEW h \in Handler, Rollback(h)
  PROVE  StoreInv'
BY QuietStep DEF Rollback

\* The lock's holder decides what a row becomes; anyone else has nothing pending.
LEMMA CommitStep ==
  ASSUME TypeOK, StoreInv, NEW h \in Handler, Commit(h)
  PROVE  StoreInv' /\ \A d \in Device : row[d] \in Report => row'[d] \in Report
<1>a. task \in [Handler -> TaskType] /\ row \in [Device -> Report \cup {NoRow, NoState}]
  BY DEF TypeOK
<1>b. task[h].pend \in [Device -> Report \cup {NoState, NoWrite}]
  BY <1>a DEF TaskType
<1>1. ASSUME NEW d \in Device, row[d] \in Report PROVE row'[d] \in Report
  BY <1>1, <1>b, ConstantsAssumption DEF Commit, View, StoreInv, EmptyInsertIsFirst
<1>2. ASSUME NEW g \in Handler, NEW d \in Device, task'[g].pend[d] # NoWrite
      PROVE  writer' = g /\ row' = row /\ task'[g] = task[g]
  <2>1. g # h
    BY <1>a, <1>2 DEF Commit, Becomes, Idle
  <2>2. task'[g] = task[g] /\ writer = g
    BY <1>a, <1>2, <2>1 DEF Commit, Becomes, StoreInv, PendingIsLocked
  <2>3. writer' = g
    BY <2>1, <2>2 DEF Commit
  <2>4. \A e \in Device : task[h].pend[e] = NoWrite
    BY <2>1, <2>2 DEF StoreInv, PendingIsLocked
  <2>5. row' = row
    BY <1>a, <2>4 DEF Commit, View
  <2> QED  BY <2>2, <2>3, <2>5
<1>3. PendingIsLocked'
  BY <1>2 DEF PendingIsLocked
<1>4. EmptyInsertIsFirst'
  BY <1>2, ConstantsAssumption DEF EmptyInsertIsFirst, StoreInv
<1> QED  BY <1>1, <1>3, <1>4 DEF StoreInv

\* A flush that inserts a row does so only where there is none.
LEMMA FlushStep ==
  ASSUME TypeOK, StoreInv, NEW h \in Handler, NEW d \in Device, Flush(h, d)
  PROVE  StoreInv'
<1>a. task \in [Handler -> TaskType] /\ task[h] \in TaskType
  BY DEF TypeOK
<1>1. /\ \A g \in Handler \ {h} : task'[g] = task[g]
      /\ task'[h].pend = [task[h].pend EXCEPT ![d] = Flushed(h, d)]
      /\ task[h].pend \in [Device -> Report \cup {NoState, NoWrite}]
  BY <1>a DEF Flush, Becomes, TaskType
<1>2. writer' = h /\ writer \in {h, NoOne} /\ NoOne \notin Handler /\ row' = row
  BY ConstantsAssumption DEF Flush, CanWrite
<1>3. \A g \in Handler \ {h}, e \in Device : task[g].pend[e] = NoWrite
  BY <1>2 DEF StoreInv, PendingIsLocked
<1>4. Flushed(h, d) = NoState => row[d] \notin Report
  <2>1. task[h].got[d] # NoState \/ task[h].seen[d] # NoRow \/ View(h, d) = NoRow
    BY DEF Flush, UniqueViolated
  <2>2. /\ task[h].got[d] \in Report \cup {NoState}
        /\ task[h].pend[d] = NoState => row[d] \notin Report
    BY <1>a DEF TaskType, StoreInv, EmptyInsertIsFirst
  <2>3. View(h, d) = NoRow => row[d] = NoRow
    BY <1>1, ConstantsAssumption DEF View
  <2> QED  BY <2>1, <2>2, <2>3, ConstantsAssumption DEF Flushed
<1>5. PendingIsLocked'
  BY <1>1, <1>2, <1>3 DEF PendingIsLocked
<1>6. EmptyInsertIsFirst'
  BY <1>1, <1>2, <1>4 DEF EmptyInsertIsFirst, StoreInv
<1> QED  BY <1>5, <1>6 DEF StoreInv

\* No interleaving of discoveries and commands replaces a stored state by none:
\* the insertion of a device another session has inserted meanwhile fails.
THEOREM StoredStateKept == Spec => StoredStateNeverErased
<1>1. Init => StoreInv
  <2>1. Init => \A h \in Handler, d \in Device : task[h].pend[d] = NoWrite
    BY DEF Init, Idle
  <2> QED  BY <2>1, ConstantsAssumption DEF StoreInv, PendingIsLocked, EmptyInsertIsFirst
<1>2. TypeOK /\ TypeOK' /\ StoreInv /\ [Next]_vars =>
        StoreInv' /\ \A d \in Device : row[d] \in Report => row'[d] \in Report
  <2> SUFFICES ASSUME TypeOK, TypeOK', StoreInv, [Next]_vars
               PROVE  StoreInv' /\ \A d \in Device : row[d] \in Report => row'[d] \in Report
    OBVIOUS
  <2>a. task \in [Handler -> TaskType] /\ task' \in [Handler -> TaskType]
    BY DEF TypeOK
  <2>q. ASSUME NEW h \in Handler, Becomes(h, task'[h]), UNCHANGED <<row, writer>>,
               task'[h].pend \in {task[h].pend, Idle.pend}
        PROVE  StoreInv' /\ row' = row
    BY <2>a, <2>q, QuietStep
  <2>1. ASSUME NEW h \in Handler, Start(h) PROVE StoreInv' /\ row' = row
    <3>1. /\ Becomes(h, task'[h]) /\ UNCHANGED <<row, writer>>
          /\ task'[h].pend = Idle.pend
      <4>1. CASE StartSingle(h)
        BY <2>a, <4>1 DEF StartSingle, Becomes, Idle
      <4>2. CASE StartBulk(h)
        BY <2>a, <4>2 DEF StartBulk, Becomes, Idle
      <4>3. ASSUME NEW k, StartTargets(h, k)
            PROVE  /\ Becomes(h, task'[h]) /\ UNCHANGED <<row, writer>>
                   /\ task'[h].pend = Idle.pend
        BY <2>a, <4>3 DEF StartTargets, Becomes, Idle
      <4>4. CASE StartDiscover(h)
        BY <2>a, <4>4 DEF StartDiscover, Becomes, Idle
      <4> QED  BY <2>1, <4>1, <4>2, <4>3, <4>4 DEF Start, StartQuickAction, StartScheduleTick
    <3> QED  BY <2>q, <3>1
  <2>2. ASSUME NEW h \in Handler, NEW d \in Device,
               \/ Send(h, d) \/ SendFails(h, d) \/ ReadBack(h, d) \/ ReadBackFails(h, d)
               \/ Poll(h, d) \/ PollFails(h, d) \/ Select(h, d)
        PROVE  StoreInv' /\ row' = row
    <3>1. /\ Becomes(h, task'[h]) /\ UNCHANGED <<row, writer>>
          /\ task'[h].pend = task[h].pend
      <4>1. CASE Send(h, d) \/ SendFails(h, d)
        <5>1. PICK p \in {"sent", "failed"} : SendTo(h, d, p)
          BY <4>1 DEF Send, SendFails
        <5>2. Becomes(h, task'[h]) /\ task'[h].pend = task[h].pend
          BY <2>a, <5>1 DEF SendTo, Becomes, TaskType
        <5> QED  BY <4>1, <5>2 DEF Send, SendFails
      <4>2. CASE ReadBack(h, d) \/ ReadBackFails(h, d) \/ Poll(h, d) \/ PollFails(h, d)
        BY <4>2, QueryKeeps
      <4>3. CASE Select(h, d)
        BY <2>a, <4>3 DEF Select, Becomes, TaskType
      <4> QED  BY <2>2, <4>1, <4>2, <4>3
    <3> QED  BY <2>q, <3>1
  <2>3. ASSUME NEW h \in Handler, BeginTarget(h) PROVE StoreInv' /\ row' = row
    <3>1. /\ Becomes(h, task'[h]) /\ UNCHANGED <<row, writer>>
          /\ task'[h].pend = task[h].pend
      BY <2>a, <2>3 DEF BeginTarget, Becomes, TaskType
    <3> QED  BY <2>q, <3>1
  <2>4. ASSUME NEW h \in Handler, Rollback(h) PROVE StoreInv' /\ row' = row
    BY <2>4, RollbackStep DEF Rollback
  <2>5. ASSUME NEW h \in Handler, NEW d \in Device, Flush(h, d) PROVE StoreInv' /\ row' = row
    BY <2>5, FlushStep DEF Flush
  <2>6. CASE \E h \in Handler : Commit(h)
    BY <2>6, CommitStep
  <2>7. CASE \E d \in Device : Outside(d)
    BY <2>7 DEF Outside, StoreInv, PendingIsLocked, EmptyInsertIsFirst
  <2>8. CASE UNCHANGED vars
    BY <2>8 DEF vars, StoreInv, PendingIsLocked, EmptyInsertIsFirst
  <2>9. ASSUME NEW h \in Handler, Work(h), ~Commit(h) PROVE StoreInv' /\ row' = row
    BY <2>2, <2>3, <2>4, <2>5, <2>9 DEF Work, FlushConflict, FlushTimesOut
  <2>10. ASSUME NEW h \in Handler, Fault(h) PROVE StoreInv' /\ row' = row
    BY <2>2, <2>4, <2>10 DEF Fault, Crash
  <2> QED  BY <2>1, <2>6, <2>7, <2>8, <2>9, <2>10 DEF Next
<1>3. Spec => [](TypeOK /\ StoreInv)
  BY <1>1, <1>2, TypeCorrect, PTL DEF Spec
<1> QED  BY <1>2, <1>3, PTL DEF Spec, StoredStateNeverErased
=============================================================================

------------------------------- MODULE Restore -------------------------------
(***************************************************************************)
(* Restoring a backup: the restore section of the settings page, with its  *)
(* file, mode and confirmation, and the import at the server, which takes  *)
(* the file part by part in one transaction.                               *)
(*                                                                         *)
(* Rooms stand for the hierarchy and quick actions for all that aims at    *)
(* it: what is modelled is how their ids are mapped to those of this       *)
(* installation.  A file is what some installation had at some time, its   *)
(* targets among its rooms.  The server holds one write transaction at a   *)
(* time.                                                                   *)
(***************************************************************************)
EXTENDS Naturals, Sequences, FiniteSets, Functions

CONSTANTS Rooms,      \* ids of rooms, in the order of a file
          Name,       \* names of rooms
          Action,     \* ids of quick actions
          Job,        \* restores that may be under way
          None,       \* no room, no name, no file
          Patient     \* whether the mode stays until the file is read and sent

Room == Range(Rooms)

\* An installation, or a file: names of the rooms and targets of the quick actions it has.
Content == {c \in [rooms : [Room -> Name \cup {None}], aims : [Action -> Room \cup {None}]] :
              \A a \in Action : c.aims[a] # None => c.rooms[c.aims[a]] # None}

VARIABLES db,      \* what is committed
          page,    \* file and mode chosen, confirmation open or not
          job      \* restores, from the reading of the file to the answer

vars == <<db, page, job>>

Idle == [at |-> "none", file |-> None, sure |-> FALSE, mode |-> "merge", work |-> None, remap |-> None]

TypeOK ==
    /\ db \in Content
    /\ page.file \in Content \cup {None}
    /\ page.mode \in {"merge", "replace"} /\ page.asking \in BOOLEAN
    /\ \A j \in Job :
         /\ job[j].at \in {"none", "reading", "sent", "hierarchy", "actions", "done", "failed"}
         /\ job[j].at # "none" => job[j].file \in Content
         /\ job[j].mode \in {"merge", "replace"} /\ job[j].sure \in BOOLEAN

Init ==
    /\ db \in Content
    /\ page = [file |-> None, mode |-> "merge", asking |-> FALSE]
    /\ job = [j \in Job |-> Idle]

-----------------------------------------------------------------------------
(* The restore section. *)

Pending == \E j \in Job : job[j].at \notin {"none", "reading"}

\* Another file is chosen once the one before is done with: a bound.
Choose ==
    /\ ~page.asking /\ page.file = None
    /\ \E f \in Content : page' = [page EXCEPT !.file = f]
    /\ UNCHANGED <<db, job>>

SetMode ==
    /\ ~page.asking
    /\ Patient => \A j \in Job : job[j].at # "reading"
    /\ page' = [page EXCEPT !.mode = IF @ = "merge" THEN "replace" ELSE "merge"]
    /\ UNCHANGED <<db, job>>

\* Starts to read the file that is chosen; jobs differ by nothing else.
RunRestore(sure) ==
    LET free == {j \in Job : job[j] = Idle}
    IN  /\ free # {}
        /\ job' = [job EXCEPT ![CHOOSE j \in free : TRUE] =
                      [Idle EXCEPT !.at = "reading", !.file = page.file, !.sure = sure]]

\* Mutant: nothing is asked when there is nothing to lose.
MustAskIfFull == page.mode = "replace" /\ \E r \in Room : db.rooms[r] # None

MustAsk == page.mode = "replace"

\* The button is not disabled while a file is read: a second click reads it again.
BeginRestore ==
    /\ page.file # None /\ ~page.asking /\ ~Pending
    /\ IF MustAsk THEN page' = [page EXCEPT !.asking = TRUE] /\ UNCHANGED job
                  ELSE RunRestore(FALSE) /\ UNCHANGED page
    /\ UNCHANGED db

\* "Replace everything"; nothing happens when an earlier restore has taken the file away.
Confirm ==
    /\ page.asking /\ page.file # None
    /\ RunRestore(TRUE)
    /\ page' = [page EXCEPT !.asking = FALSE]
    /\ UNCHANGED db

Cancel ==
    /\ page.asking
    /\ page' = [page EXCEPT !.asking = FALSE]
    /\ UNCHANGED <<db, job>>

\* The mode goes with the request as it is when the file has been read.
Send(j) ==
    /\ job[j].at = "reading"
    /\ job' = [job EXCEPT ![j].at = "sent", ![j].mode = page.mode]
    /\ UNCHANGED <<db, page>>

Unreadable(j) ==
    /\ job[j].at = "reading"
    /\ job' = [job EXCEPT ![j] = Idle]
    /\ UNCHANGED <<db, page>>

Answer(j) ==
    /\ job[j].at \in {"done", "failed"}
    /\ job' = [job EXCEPT ![j] = Idle]
    /\ page' = IF job[j].at = "done" THEN [page EXCEPT !.file = None] ELSE page
    /\ UNCHANGED db

-----------------------------------------------------------------------------
(* The import. *)

\* One room of the file: a room of the same name is taken for it when merging, otherwise
\* one is made with the id in the file.  Two of the name, or a taken id, is an error.
ImportRoom(acc, r, file, mode) ==
    LET same == {x \in Room : mode = "merge" /\ acc.rooms[x] = file.rooms[r]}
    IN  IF acc.error \/ file.rooms[r] = None THEN acc
        ELSE IF Cardinality(same) = 1
             THEN [acc EXCEPT !.remap[r] = CHOOSE x \in same : TRUE]
        ELSE IF same # {} \/ acc.rooms[r] # None THEN [acc EXCEPT !.error = TRUE]
        ELSE [acc EXCEPT !.rooms[r] = file.rooms[r], !.remap[r] = r]

\* Room after room, in the order of the file.
ImportHierarchy(file, mode) ==
    LET none == [r \in Room |-> None]
        kept == IF mode = "replace" THEN none ELSE db.rooms
        after[k \in 0 .. Len(Rooms)] ==
            IF k = 0 THEN [rooms |-> kept, remap |-> none, error |-> FALSE]
                     ELSE ImportRoom(after[k - 1], Rooms[k], file, mode)
    IN  after[Len(Rooms)]

\* Mutant: the target is stored as it is in the file.
AimAsFiled(target, remap) == target

\* A target the file has a room for follows it; any other is kept.
Aim(target, remap) == IF target # None /\ remap[target] # None THEN remap[target] ELSE target

ImportActions(file, mode, remap) ==
    [a \in Action |-> IF file.aims[a] # None THEN Aim(file.aims[a], remap)
                      ELSE IF mode = "replace" THEN None ELSE db.aims[a]]

Hierarchy(j) ==
    /\ job[j].at = "sent"
    /\ \A o \in Job : job[o].at \notin {"hierarchy", "actions"}
    /\ LET result == ImportHierarchy(job[j].file, job[j].mode)
       IN  /\ ~result.error
           /\ job' = [job EXCEPT ![j].at = "hierarchy", ![j].remap = result.remap,
                                 ![j].work = [db EXCEPT !.rooms = result.rooms]]
    /\ UNCHANGED <<db, page>>

Actions(j) ==
    /\ job[j].at = "hierarchy"
    /\ job' = [job EXCEPT ![j].at = "actions",
                          ![j].work.aims = ImportActions(job[j].file, job[j].mode, job[j].remap)]
    /\ UNCHANGED <<db, page>>

Commit(j) ==
    /\ job[j].at = "actions"
    /\ db' = job[j].work
    /\ job' = [job EXCEPT ![j].at = "done", ![j].work = None, ![j].remap = None]
    /\ UNCHANGED page

\* An error in any part, or a server that dies, leaves nothing of what was done.
Rollback(j) ==
    /\ job[j].at \in {"sent", "hierarchy", "actions"}
    /\ job' = [job EXCEPT ![j].at = "failed", ![j].work = None, ![j].remap = None]
    /\ UNCHANGED <<db, page>>

Next ==
    \/ Choose \/ SetMode \/ BeginRestore \/ Confirm \/ Cancel
    \/ \E j \in Job : \/ Send(j) \/ Unreadable(j) \/ Answer(j)
                      \/ Hierarchy(j) \/ Actions(j) \/ Commit(j) \/ Rollback(j)

Spec == Init /\ [][Next]_vars

-----------------------------------------------------------------------------
(* Everything is replaced only by a restore that was confirmed, although    *)
(* the mode is read when the request is sent and not when it is asked for.  *)
ReplaceConfirmed == \A j \in Job : job[j].at \notin {"none", "reading"} /\ job[j].mode = "replace" => job[j].sure

(* What is committed changes by a whole restore only: afterwards every room *)
(* of the file is there by name, every quick action of the file aims at the *)
(* room that has the name of its target in the file, and a merge has left   *)
(* every room that was there and every quick action.                        *)
Restored(file, mode) ==
    /\ \A r \in Room : file.rooms[r] # None => \E x \in Room : db'.rooms[x] = file.rooms[r]
    /\ \A a \in Action : file.aims[a] # None =>
          db'.aims[a] # None /\ db'.rooms[db'.aims[a]] = file.rooms[file.aims[a]]
    /\ mode = "merge" =>
          /\ \A r \in Room : db.rooms[r] # None => db'.rooms[r] = db.rooms[r]
          /\ \A a \in Action : db.aims[a] # None => db'.aims[a] # None

RestoredStep == db' # db => \E j \in Job : job[j].at = "actions" /\ Restored(job[j].file, job[j].mode)

RestoredWholly == [][RestoredStep]_vars
=============================================================================

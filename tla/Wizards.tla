------------------------------- MODULE Wizards -------------------------------
(***************************************************************************)
(* The pages that keep quick actions and schedules: their step-by-step     *)
(* dialogs, the list of targets both share, and the cards that run and     *)
(* delete a quick action.  A behaviour is a visit to one of the pages.     *)
(*                                                                         *)
(* The state a target is to get is the subject of LightPanel.  Rooms stand *)
(* for zones and groups too, "all" also for all but some.  The page's list *)
(* of quick actions is read from the server at once.                       *)
(***************************************************************************)
EXTENDS Naturals, Sequences, FiniteSets, SequencesExt

CONSTANTS Id,           \* quick actions
          None,         \* no quick action, no target id
          Offered,      \* what a target of each type can name; nothing for "all"
          MaxTargets,   \* bound on the targets, and on the triggers, of a form
          MaxRequests   \* bound on the saves, executions and deletions outstanding

Type == DOMAIN Offered

Target == {[type |-> t, id |-> None] : t \in Type}
          \cup UNION {{[type |-> t, id |-> i] : i \in Offered[t]} : t \in Type}

VARIABLES kind,       \* the page: "quick" or "schedule"
          stored,     \* quick actions by id, with their targets
          schedules,  \* targets and triggers of the last schedule stored
          form,       \* the dialog: open or not, what it edits, step and entries
          saving,     \* the save that is outstanding for a new and for an edited one
          running,    \* executions outstanding of each quick action
          pending,    \* the card that says it is running
          deleting,   \* the quick action in the delete dialog
          removing    \* the one whose deletion is outstanding

vars == <<kind, stored, schedules, form, saving, running, pending, deleting, removing>>

Lists(S) == SeqOf(S, MaxTargets)

Save == [targets : Lists(Target), triggers : 0..MaxTargets, id : Id \cup {None}]

\* Nothing outstanding.
Nothing == [targets |-> <<>>, triggers |-> 0, id |-> None]

Steps == [quick |-> <<"name", "targets", "states", "review">>,
          schedule |-> <<"name", "triggers", "targets", "states", "review">>]

TypeOK ==
    /\ kind \in {"quick", "schedule"}
    /\ stored \in [Id -> Lists(Target)]
    /\ schedules \in [targets : Lists(Target), triggers : 0..MaxTargets, id : {None}]
    /\ form \in [open : BOOLEAN, id : Id \cup {None}, step : 1..Len(Steps[kind]), named : BOOLEAN,
                 targets : Lists(Target), triggers : 0..MaxTargets]
    /\ saving \in [{"new", "edit"} -> Save]
    /\ running \in [Id -> 0..MaxRequests]
    /\ {pending, deleting, removing} \subseteq Id \cup {None}

-----------------------------------------------------------------------------
(* A quick action that is not stored has no targets here; one that is has. *)

Exists(i) == stored[i] # <<>>

BlankForm == [open |-> FALSE, id |-> None, step |-> 1, named |-> FALSE,
              targets |-> <<[type |-> "all", id |-> None]>>, triggers |-> 1]

Init ==
    /\ kind \in {"quick", "schedule"}
    /\ \E t \in {<<>>, <<[type |-> "all", id |-> None]>>} : stored = [i \in Id |-> t]
    /\ schedules = Nothing
    /\ form = BlankForm
    /\ saving = [s \in {"new", "edit"} |-> Nothing]
    /\ running = [i \in Id |-> 0]
    /\ pending = None /\ deleting = None /\ removing = None

\* What the entries and the steps of a dialog leave alone.
others == <<kind, stored, schedules, saving, running, pending, deleting, removing>>

At(step) == form.open /\ Steps[kind][form.step] = step

-----------------------------------------------------------------------------
(* Opening, closing, moving between the steps. *)

\* The effect of the quick-action dialog fills the form whenever it opens; the schedule
\* dialog opens as it was left.
OpenCreate ==
    /\ ~form.open /\ deleting = None
    /\ form' = [IF kind = "quick" THEN BlankForm ELSE form EXCEPT !.open = TRUE]
    /\ UNCHANGED others

OpenEdit(i) ==
    /\ kind = "quick" /\ ~form.open /\ deleting = None /\ Exists(i)
    /\ form' = [BlankForm EXCEPT !.open = TRUE, !.id = i, !.named = TRUE, !.targets = stored[i]]
    /\ UNCHANGED others

\* The entries of a closed quick-action dialog are not seen again.
Closed == IF kind = "quick" THEN BlankForm ELSE [form EXCEPT !.open = FALSE]

\* "Cancel", which empties the schedule dialog, and the cross, which does not.
Close ==
    /\ form.open
    /\ form' \in {Closed} \cup (IF At("name") THEN {BlankForm} ELSE {})
    /\ UNCHANGED others

CanProceedTargets ==
    /\ form.targets # <<>>
    /\ \A k \in DOMAIN form.targets : form.targets[k].type = "all" \/ form.targets[k].id # None

\* The schedule dialog asks for a name only.
MayLeave ==
    /\ At("name") => form.named
    /\ At("targets") /\ kind = "quick" => CanProceedTargets

NextStep ==
    /\ form.open /\ form.step < Len(Steps[kind]) /\ MayLeave
    /\ form' = [form EXCEPT !.step = @ + 1]
    /\ UNCHANGED others

Back ==
    /\ form.open /\ form.step > 1
    /\ form' = [form EXCEPT !.step = @ - 1]
    /\ UNCHANGED others

TypeName ==
    /\ At("name")
    /\ form' = [form EXCEPT !.named = ~@]
    /\ UNCHANGED others

-----------------------------------------------------------------------------
(* Targets and triggers. *)

AddTarget ==
    /\ At("targets") /\ Len(form.targets) < MaxTargets
    /\ form' = [form EXCEPT !.targets = Append(@, [type |-> "all", id |-> None])]
    /\ UNCHANGED others

RemoveTarget(k) ==
    /\ At("targets")
    /\ form' = [form EXCEPT !.targets = RemoveAt(@, k)]
    /\ UNCHANGED others

\* Mutant: another type keeps the id chosen.
RetypedOnly(target, t) == [target EXCEPT !.type = t]

\* Another type forgets the target chosen.
Retyped(target, t) == [type |-> t, id |-> None]

ChangeTarget(k) ==
    /\ At("targets")
    /\ \/ \E t \in Type : form' = [form EXCEPT !.targets[k] = Retyped(@, t)]
       \/ \E i \in Offered[form.targets[k].type] : form' = [form EXCEPT !.targets[k].id = i]
    /\ UNCHANGED others

\* What a trigger says is not modelled; the last one has no bin to remove it.
AddTrigger ==
    /\ At("triggers") /\ form.triggers < MaxTargets
    /\ form' = [form EXCEPT !.triggers = @ + 1]
    /\ UNCHANGED others

RemoveTrigger ==
    /\ At("triggers") /\ form.triggers > 1
    /\ form' = [form EXCEPT !.triggers = @ - 1]
    /\ UNCHANGED others

-----------------------------------------------------------------------------
(* Saving.  A dialog's save stays outstanding when the dialog is closed and *)
(* opened again; its success then closes what it did not save.              *)

\* How much waits for the server: saves, a deletion, executions.
Outstanding ==
    Cardinality({s \in {"new", "edit"} : saving[s] # Nothing})
      + (IF removing = None THEN 0 ELSE 1)
      + Cardinality({e \in Id \X (1..MaxRequests) : e[2] <= running[e[1]]})

Slot == IF form.id = None THEN "new" ELSE "edit"

Submit ==
    /\ At("review") /\ saving[Slot] = Nothing /\ Outstanding < MaxRequests
    /\ saving' = [saving EXCEPT ![Slot] = [targets |-> form.targets, id |-> form.id,
                                           triggers |-> IF kind = "quick" THEN 0 ELSE form.triggers]]
    /\ UNCHANGED <<kind, stored, schedules, form, running, pending, deleting, removing>>

\* The server makes a quick action, rewrites one that still exists, or makes a schedule.
Accepted(s) ==
    LET data == saving[s]
        targetsFor(i) == [stored EXCEPT ![i] = data.targets]
    IN  IF kind = "schedule" THEN schedules' = data /\ UNCHANGED stored
        ELSE /\ UNCHANGED schedules
             /\ IF s = "edit" THEN Exists(data.id) /\ stored' = targetsFor(data.id)
                ELSE \E i \in Id : ~Exists(i) /\ stored' = targetsFor(i)

SaveSucceeds(s) ==
    /\ saving[s] # Nothing
    /\ Accepted(s)
    /\ saving' = [saving EXCEPT ![s] = Nothing]
    /\ form' = IF kind = "schedule" \/ Slot = s THEN BlankForm ELSE form
    /\ UNCHANGED <<kind, running, pending, deleting, removing>>

SaveFails(s) ==
    /\ saving[s] # Nothing
    /\ saving' = [saving EXCEPT ![s] = Nothing]
    /\ UNCHANGED <<kind, stored, schedules, form, running, pending, deleting, removing>>

-----------------------------------------------------------------------------
(* The cards of the quick actions; the list behind an open dialog is inert. *)

Run(i) ==
    /\ kind = "quick" /\ ~form.open /\ deleting = None /\ Exists(i) /\ Outstanding < MaxRequests
    /\ running' = [running EXCEPT ![i] = @ + 1]
    /\ pending' = i
    /\ UNCHANGED <<kind, stored, schedules, form, saving, deleting, removing>>

\* Mutant: only a good end clears the mark.
UnmarkIfGood(i) == pending' \in {None, pending}

\* The end of any execution, good or bad, clears the mark.
Unmark(i) == pending' = None

RunEnds(i) ==
    /\ running[i] > 0
    /\ running' = [running EXCEPT ![i] = @ - 1]
    /\ Unmark(i)
    /\ UNCHANGED <<kind, stored, schedules, form, saving, deleting, removing>>

AskDelete(i) ==
    /\ kind = "quick" /\ ~form.open /\ deleting = None /\ Exists(i)
    /\ deleting' = i
    /\ UNCHANGED <<kind, stored, schedules, form, saving, running, pending, removing>>

CancelDelete ==
    /\ deleting # None
    /\ deleting' = None
    /\ UNCHANGED <<kind, stored, schedules, form, saving, running, pending, removing>>

ConfirmDelete ==
    /\ deleting # None /\ removing = None /\ Outstanding < MaxRequests
    /\ removing' = deleting
    /\ UNCHANGED <<kind, stored, schedules, form, saving, running, pending, deleting>>

\* A success closes the delete dialog, whichever quick action it shows by then.
Deleted ==
    /\ removing # None
    /\ removing' = None
    /\ \/ Exists(removing) /\ stored' = [stored EXCEPT ![removing] = <<>>] /\ deleting' = None
       \/ UNCHANGED <<stored, deleting>>
    /\ UNCHANGED <<kind, schedules, form, saving, running, pending>>

Next ==
    \/ OpenCreate \/ Close \/ NextStep \/ Back \/ TypeName \/ AddTarget \/ AddTrigger \/ RemoveTrigger
    \/ \E k \in DOMAIN form.targets : RemoveTarget(k) \/ ChangeTarget(k)
    \/ Submit \/ \E s \in {"new", "edit"} : SaveSucceeds(s) \/ SaveFails(s)
    \/ \E i \in Id : OpenEdit(i) \/ Run(i) \/ RunEnds(i) \/ AskDelete(i)
    \/ CancelDelete \/ ConfirmDelete \/ Deleted

Spec == Init /\ [][Next]_vars

-----------------------------------------------------------------------------
(* What is stored names its targets: every target of a quick action has an  *)
(* id of its own type where the type needs one, however the user went back  *)
(* and forth, retyped and removed; a schedule's targets, which need none,   *)
(* have no id of another type, and a schedule has a trigger.                *)
Fits(target) == IF target.type = "all" THEN target.id = None ELSE target.id \in Offered[target.type]

StoredFormsFit ==
    /\ \A i \in Id : \A k \in DOMAIN stored[i] : Fits(stored[i][k])
    /\ \A k \in DOMAIN schedules.targets :
          schedules.targets[k].id = None \/ Fits(schedules.targets[k])
    /\ schedules # Nothing => schedules.triggers > 0

(* A card that says "Running..." belongs to an execution that is outstanding, *)
(* in whatever order overlapping executions end.                              *)
RunningIsRunning == pending # None => running[pending] > 0
=============================================================================

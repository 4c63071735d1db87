----------------------------- MODULE Onboarding -----------------------------
(***************************************************************************)
(* The onboarding of one organization: the flows administrators compose,   *)
(* the default one, assignments, live edits of the steps, and the walk of  *)
(* one person through them (services/onboarding_service.go,                *)
(* onboarding_run.go, onboarding_verify.go).  Every step is one call to    *)
(* Postgres; any other request may run between two of them.                *)
(***************************************************************************)
EXTENDS Integers, SequencesExt

CONSTANTS Clients,   \* requests that are served at the same time
          Flows,     \* ids of onboarding_flows
          StepIds,   \* ids of onboarding_steps, a number each
          NoRow,     \* no such row
          Statuses,  \* outcomes a person records: "done" and "skipped"
          Faults,    \* {"lost"} when a request may end early, or {}
          MaxEdits   \* bound on the saved step lists

Rows == [status : {"pending", "in_progress", "completed"}, feedback : BOOLEAN]

ASSUME OnboardingAssumption ==
    /\ NoRow \notin Flows /\ NoRow \notin Rows
    /\ StepIds \subseteq Nat \ {0}
    /\ Statuses \subseteq {"done", "skipped"}
    /\ MaxEdits \in Nat

VARIABLES
    flow,        \* rows of onboarding_flows
    steps,       \* the steps of each flow, in order
    used,        \* step ids that were ever given out
    assignment,  \* the person's assignment to each flow
    outcome,     \* onboarding_step_progress: the person's outcome on each step
    req,         \* where each request is, and what it has read
    edits,       \* number of saved edits
    excuse,      \* history: what happened to each assignment, see Excuses
    spoken,      \* history: flows the person has left feedback on
    nominee,     \* history: the flow last made the default
    unsettled    \* history: the default was written on a stale read, or in part

vars == <<flow, steps, used, assignment, outcome, req, edits,
          excuse, spoken, nominee, unsettled>>
tables == <<flow, steps, used, assignment, outcome, edits>>
history == <<excuse, spoken, nominee, unsettled>>
defaults == <<nominee, unsettled>>

(* "raised": a step became required since completion was derived;           *)
(* "lowered": an edit left no required step pending;                        *)
(* "overlapped": the row was saved from a read that another save overtook;  *)
(* "underived": the last outcome was recorded and completion not derived    *)
(* from it: Verify never does, and a request may end before it does.        *)
Excuses == {"raised", "lowered", "overlapped", "underived"}

Idle == [at |-> "idle", flow |-> NoRow, list |-> <<>>, default |-> FALSE, step |-> 0,
         status |-> "none", row |-> NoRow]

Live(f) == flow[f].state = "live"
Default(f) == Live(f) /\ flow[f].default
StepOf(f, id) == CHOOSE s \in Range(steps[f]) : s.id = id
HasStep(f, id) == \E s \in Range(steps[f]) : s.id = id

Required(list) == {s.id : s \in {t \in Range(list) : t.required}}

(* The required steps without an outcome. *)
Pending(list, done) == {id \in Required(list) : done[id] = "none"}

Init ==
    /\ flow = [f \in Flows |-> [state |-> "none", default |-> FALSE]]
    /\ steps = [f \in Flows |-> <<>>]
    /\ used = {}
    /\ assignment = [f \in Flows |-> NoRow]
    /\ outcome = [id \in StepIds |-> "none"]
    /\ req = [c \in Clients |-> Idle]
    /\ edits = 0
    /\ excuse = [f \in Flows |-> {}]
    /\ spoken = {} /\ nominee = NoRow /\ unsettled = FALSE

Goto(c, step) == req' = [req EXCEPT ![c].at = step]
End(c) == req' = [req EXCEPT ![c] = Idle]
Begin(c, r) == req[c].at = "idle" /\ req' = [req EXCEPT ![c] = r]

-----------------------------------------------------------------------------
(* Flows and the default *)

(* list: the steps of the template, without ids.  The incumbent default is  *)
(* demoted first.                                                           *)
CreateFlow(c, f, default, list) ==
    /\ flow[f].state = "none"
    /\ \A d \in Clients : req[d].flow # f
    /\ Begin(c, [Idle EXCEPT !.at = IF default THEN "clear" ELSE "insert",
                             !.flow = f, !.default = default, !.list = list])
    /\ UNCHANGED <<tables, history>>

(* The copy of a flow is never the default, and its steps get ids of their own. *)
DuplicateFlow(c, f, g) ==
    /\ Live(g)
    /\ CreateFlow(c, f, FALSE, [i \in DOMAIN steps[g] |-> [steps[g][i] EXCEPT !.id = 0]])

(* default is the value of the request, or the one that was read. *)
UpdateFlow(c, f, default) ==
    /\ Live(f)
    /\ Begin(c, [Idle EXCEPT !.at = IF default /\ ~flow[f].default THEN "clear" ELSE "update",
                             !.flow = f, !.default = default,
                             !.status = IF default = flow[f].default THEN "kept" ELSE "changed"])
    /\ UNCHANGED <<tables, history>>

(* Demotes every live flow but this one. *)
ClearDefaultOnboardingFlow(c) ==
    /\ req[c].at = "clear"
    /\ flow' = [g \in Flows |-> IF g = req[c].flow THEN flow[g]
                                ELSE [flow[g] EXCEPT !.default = FALSE]]
    /\ Goto(c, IF flow[req[c].flow].state = "none" THEN "insert" ELSE "update")
    /\ UNCHANGED <<steps, used, assignment, outcome, edits, history>>

\* Mutant: there is no such index.
DefaultUnindexed(c) == TRUE

(* The index admits one live default. *)
DefaultIsFree(c) == req[c].default => \A g \in Flows \ {req[c].flow} : ~Default(g)

(* The slug may have been taken since it was looked up. *)
CreateOnboardingFlow(c) ==
    /\ req[c].at = "insert"
    /\ \/ /\ DefaultIsFree(c)
          /\ flow' = [flow EXCEPT ![req[c].flow] = [state |-> "live", default |-> req[c].default]]
          /\ nominee' = IF req[c].default THEN req[c].flow ELSE nominee
          /\ IF req[c].list = <<>> THEN End(c) ELSE Goto(c, "replace")
          /\ UNCHANGED unsettled
       \/ /\ End(c)
          /\ unsettled' = (unsettled \/ req[c].default)
          /\ UNCHANGED <<flow, nominee>>
    /\ UNCHANGED <<steps, used, assignment, outcome, edits, excuse, spoken>>

(* The whole row is written, with the default that was read or asked for.   *)
UpdateOnboardingFlow(c) ==
    /\ req[c].at = "update"
    /\ End(c)
    /\ LET f == req[c].flow  default == req[c].default
           stale == req[c].status = "kept" /\ default # flow[f].default IN
       \/ /\ Live(f) /\ DefaultIsFree(c)
          /\ flow' = [flow EXCEPT ![f].default = default]
          /\ nominee' = IF stale THEN nominee
                        ELSE IF default THEN f
                        ELSE IF nominee = f THEN NoRow ELSE nominee
          /\ unsettled' = (unsettled \/ stale)
       \/ /\ ~Live(f) \/ ~DefaultIsFree(c)
          /\ unsettled' = (unsettled \/ default)
          /\ UNCHANGED <<flow, nominee>>
    /\ UNCHANGED <<steps, used, assignment, outcome, edits, excuse, spoken>>

(* Steps and assignments stay. *)
DeleteOnboardingFlow(f) ==
    /\ Live(f)
    /\ flow' = [flow EXCEPT ![f] = [state |-> "deleted", default |-> FALSE]]
    /\ nominee' = IF nominee = f THEN NoRow ELSE nominee
    /\ UNCHANGED <<steps, used, assignment, outcome, edits, req, excuse, spoken, unsettled>>

-----------------------------------------------------------------------------
(* Steps *)

(* What an administrator makes of a list: a step dropped, moved to the end, *)
(* made optional or required, or a new one at the end.                      *)
Edits(list) ==
    {RemoveAt(list, i) : i \in DOMAIN list}
    \union {Append(RemoveAt(list, i), list[i]) : i \in DOMAIN list \ {Len(list)}}
    \union {[list EXCEPT ![i].required = ~@] : i \in DOMAIN list}
    \union {Append(list, [id |-> 0, required |-> TRUE, verified |-> FALSE])}

(* The flow is live, and every step and reference of the list is valid. *)
ReplaceSteps(c, f, list) ==
    /\ edits < MaxEdits
    /\ Live(f)
    /\ Begin(c, [Idle EXCEPT !.at = "replace", !.flow = f, !.list = list])
    /\ UNCHANGED <<tables, history>>

\* Mutant: every step is deleted and inserted again.
RemovedAll(f, list) == {s.id : s \in Range(steps[f])}

(* What an edit, whose list is new, may do to a person's completion. *)
Shift(old, new, done) ==
    (IF Required(new) \subseteq Required(old) THEN {} ELSE {"raised"})
    \union (IF Required(old) \subseteq Required(new) \/ Pending(new, done) # {} THEN {} ELSE {"lowered"})

(* The steps of the flow that the list lacks. *)
Removed(f, list) == {s.id : s \in Range(steps[f])} \ {s.id : s \in Range(list)}

(* Ids of their own for the new steps of a list. *)
FreshIds(list) ==
    {ids \in [{i \in DOMAIN list : list[i].id = 0} -> StepIds \ used] :
        \A i, j \in DOMAIN ids : ids[i] = ids[j] => i = j}

\* Mutant: the new steps share one id.
NumberedSame(list, ids) ==
    [i \in DOMAIN list |-> IF list[i].id = 0 THEN [list[i] EXCEPT !.id = ids[CHOOSE j \in DOMAIN ids : TRUE]]
                           ELSE list[i]]

Numbered(list, ids) ==
    [i \in DOMAIN list |-> IF list[i].id = 0 THEN [list[i] EXCEPT !.id = ids[i]] ELSE list[i]]

(* One transaction.  Steps that keep their id are updated in place, the     *)
(* ones the list lacks are deleted, and their outcomes go with them.  An id *)
(* that is not a step of the flow any more undoes it all.                   *)
ReplaceOnboardingSteps(c) ==
    /\ req[c].at = "replace"
    /\ End(c)
    /\ LET f == req[c].flow  list == req[c].list
           kept == {s.id : s \in Range(list)} \ {0} IN
       \/ /\ \A id \in kept : HasStep(f, id)
          /\ FreshIds(list) # {}
          /\ steps' = [steps EXCEPT ![f] = Numbered(list, CHOOSE ids \in FreshIds(list) : TRUE)]
          /\ used' = used \union {s.id : s \in Range(steps'[f])}
          /\ outcome' = [id \in StepIds |-> IF id \in Removed(f, list) THEN "none" ELSE outcome[id]]
          /\ edits' = edits + 1
          /\ excuse' = [excuse EXCEPT ![f] = IF assignment[f] = NoRow THEN @
                                             ELSE @ \union Shift(steps[f], steps'[f], outcome')]
       \/ /\ \E id \in kept : ~HasStep(f, id)
          /\ UNCHANGED <<steps, used, outcome, edits, excuse>>
    /\ UNCHANGED <<flow, assignment, spoken, defaults>>

-----------------------------------------------------------------------------
(* Assignments *)

(* Who has a live assignment to the flow already keeps it. *)
Assign(c, f) ==
    /\ assignment[f] = NoRow
    /\ Begin(c, [Idle EXCEPT !.at = "create", !.flow = f])

(* The person is a member; the flow is the caller's. *)
AssignToMember(c, f) ==
    /\ Live(f)
    /\ Assign(c, f)
    /\ UNCHANGED <<tables, history>>

(* After an invite was accepted: its flow f, unless that is NoRow or gone,  *)
(* and then the default one.                                                *)
AssignFromInvite(c, f) ==
    /\ \E g \in Flows :
          /\ IF f # NoRow /\ Live(f) THEN g = f ELSE Default(g)
          /\ Assign(c, g)
    /\ UNCHANGED <<tables, history>>

(* The index admits one per person and flow. *)
CreateOnboardingAssignment(c) ==
    /\ req[c].at = "create"
    /\ End(c)
    /\ assignment' = [assignment EXCEPT ![req[c].flow] =
                          IF @ = NoRow THEN [status |-> "pending", feedback |-> FALSE] ELSE @]
    /\ UNCHANGED <<flow, steps, used, outcome, edits, history>>

-----------------------------------------------------------------------------
(* The walk *)

(* resolveOwnStep: the step, and the caller's assignment to its flow. *)
ResolveOwnStep(c, f, id, at, status) ==
    /\ HasStep(f, id)
    /\ assignment[f] # NoRow
    /\ Begin(c, [Idle EXCEPT !.at = at, !.flow = f, !.step = id, !.status = status,
                             !.row = assignment[f]])
    /\ UNCHANGED <<tables, history>>

MarkStep(c, f, id, status) == ResolveOwnStep(c, f, id, "outcome", status)

(* A verified step; nothing is recorded unless the check passes. *)
Verify(c, f, id) ==
    /\ HasStep(f, id) /\ StepOf(f, id).verified
    /\ ResolveOwnStep(c, f, id, "passed", "done")

(* The row refers to the step: when that is gone, the request fails. *)
UpsertOnboardingStepProgress(c) ==
    /\ req[c].at \in {"outcome", "passed"}
    /\ LET f == req[c].flow  id == req[c].step IN
       IF HasStep(f, id)
       THEN /\ outcome' = [outcome EXCEPT ![id] = req[c].status]
            /\ req' = [req EXCEPT ![c] = [Idle EXCEPT !.flow = f, !.row = req[c].row,
                             !.at = IF req[c].at = "passed" THEN "verified" ELSE "start"]]
            /\ excuse' = [excuse EXCEPT ![f] = IF req[c].at = "passed" /\ Pending(steps[f], outcome') = {}
                                               THEN @ \union {"underived"} ELSE @]
       ELSE /\ End(c)
            /\ UNCHANGED <<outcome, excuse>>
    /\ UNCHANGED <<flow, steps, used, assignment, edits, spoken, defaults>>

\* Mutant: the row is begun again.
MarkStartedAfresh(row) == [status |-> "in_progress", feedback |-> FALSE]
MarkStarted(row) == IF row.status = "pending" THEN [row EXCEPT !.status = "in_progress"] ELSE row

(* UpdateOnboardingAssignment writes status and feedback as they were read. *)
SaveRow(c, row) ==
    /\ assignment' = [assignment EXCEPT ![req[c].flow] = row]
    /\ UNCHANGED <<flow, steps, used, outcome, edits>>

Overlap(c, f) == IF assignment[f] # req[c].row THEN {"overlapped"} ELSE {}

SaveStarted(c) ==
    /\ req[c].at \in {"start", "verified"}
    /\ LET row == MarkStarted(req[c].row) IN
       /\ SaveRow(c, row)
       /\ req' = [req EXCEPT ![c] = IF req[c].at = "verified" THEN Idle
                                    ELSE [@ EXCEPT !.at = "steps", !.row = row]]
    /\ excuse' = [excuse EXCEPT ![req[c].flow] = @ \union Overlap(c, req[c].flow)]
    /\ UNCHANGED <<spoken, defaults>>

(* Nothing required is pending, and the request ends here. *)
Underived(f) == IF Pending(steps[f], outcome) = {} THEN {"underived"} ELSE {}

(* buildRun: a deleted flow cannot be walked. *)
ListOnboardingSteps(c) ==
    /\ req[c].at = "steps"
    /\ LET f == req[c].flow IN
       IF Live(f)
       THEN req' = [req EXCEPT ![c].at = "progress", ![c].list = steps[f]] /\ UNCHANGED excuse
       ELSE End(c) /\ excuse' = [excuse EXCEPT ![f] = @ \union Underived(f)]
    /\ UNCHANGED <<tables, spoken, defaults>>

\* Mutant: the first outcome completes the flow.
ListProgressAnyOutcome(c) ==
    /\ req[c].at = "progress"
    /\ Goto(c, "complete")
    /\ UNCHANGED <<tables, history>>

\* Mutant: optional steps count as well.
ListProgressAllSteps(c) ==
    /\ req[c].at = "progress"
    /\ IF \A s \in Range(req[c].list) : outcome[s.id] # "none"
       THEN Goto(c, "complete") ELSE End(c)
    /\ UNCHANGED <<tables, history>>

(* Completion is derived from the steps and the outcomes that were read. *)
ListOnboardingStepProgress(c) ==
    /\ req[c].at = "progress"
    /\ IF Pending(req[c].list, outcome) = {} /\ req[c].row.status # "completed"
       THEN Goto(c, "complete") ELSE End(c)
    /\ UNCHANGED <<tables, history>>

SaveCompleted(c) ==
    /\ req[c].at = "complete"
    /\ SaveRow(c, [req[c].row EXCEPT !.status = "completed"])
    /\ End(c)
    /\ LET f == req[c].flow IN
       excuse' = [excuse EXCEPT ![f] = (@ \intersect {"overlapped"}) \union Overlap(c, f)
                 \union IF Required(steps[f]) \subseteq Required(req[c].list) THEN {} ELSE {"raised"}]
    /\ UNCHANGED <<spoken, defaults>>

(* The caller's own assignment, by its id. *)
SubmitFeedback(c, f) ==
    /\ assignment[f] # NoRow
    /\ Begin(c, [Idle EXCEPT !.at = "feedback", !.flow = f, !.row = assignment[f]])
    /\ UNCHANGED <<tables, history>>

SaveFeedback(c) ==
    /\ req[c].at = "feedback"
    /\ LET f == req[c].flow IN
       /\ SaveRow(c, [req[c].row EXCEPT !.feedback = TRUE])
       /\ spoken' = spoken \union {f}
       /\ excuse' = [excuse EXCEPT ![f] = @ \union Overlap(c, f)]
    /\ End(c)
    /\ UNCHANGED defaults

-----------------------------------------------------------------------------
(* A failed call or a lost process. *)
Abort(c) ==
    /\ "lost" \in Faults
    /\ req[c].at # "idle"
    /\ End(c)
    /\ excuse' = IF req[c].at \in {"start", "steps", "progress", "complete"}
                 THEN [excuse EXCEPT ![req[c].flow] = @ \union Underived(req[c].flow)] ELSE excuse
    /\ unsettled' = (unsettled \/ (req[c].at \in {"insert", "update"} /\ req[c].default))
    /\ UNCHANGED <<tables, spoken, nominee>>

(* Seeds: a required step, and one that is verified. *)
Template == <<[id |-> 0, required |-> TRUE, verified |-> FALSE],
              [id |-> 0, required |-> TRUE, verified |-> TRUE]>>

Compose(c) ==
    \/ \E f \in Flows :
          \/ \E default \in BOOLEAN : \E list \in {<<>>, Template} : CreateFlow(c, f, default, list)
          \/ \E g \in Flows : DuplicateFlow(c, f, g)
          \/ \E default \in BOOLEAN : UpdateFlow(c, f, default)
          \/ DeleteOnboardingFlow(f)
          \/ \E list \in Edits(steps[f]) : ReplaceSteps(c, f, list)
    \/ ClearDefaultOnboardingFlow(c) \/ CreateOnboardingFlow(c) \/ UpdateOnboardingFlow(c)
    \/ ReplaceOnboardingSteps(c)

AssignFlow(c) ==
    \/ \E f \in Flows : AssignToMember(c, f)
    \/ \E f \in Flows \union {NoRow} : AssignFromInvite(c, f)
    \/ CreateOnboardingAssignment(c)

Walk(c) ==
    \/ \E f \in Flows :
          \/ \E id \in StepIds : \E status \in Statuses : MarkStep(c, f, id, status)
          \/ \E id \in StepIds : Verify(c, f, id)
          \/ SubmitFeedback(c, f)
    \/ UpsertOnboardingStepProgress(c)
    \/ SaveStarted(c) \/ ListOnboardingSteps(c) \/ ListOnboardingStepProgress(c)
    \/ SaveCompleted(c) \/ SaveFeedback(c)

Next == \E c \in Clients : Compose(c) \/ AssignFlow(c) \/ Walk(c) \/ Abort(c)

Spec == Init /\ [][Next]_vars

-----------------------------------------------------------------------------
(* Properties *)

StepRows == [id : StepIds, required : BOOLEAN, verified : BOOLEAN]

(* Types of the rows; a step belongs to one flow and its id is given once. *)
TypeOK ==
    /\ flow \in [Flows -> [state : {"none", "live", "deleted"}, default : BOOLEAN]]
    /\ steps \in [Flows -> Seq(StepRows)]
    /\ \A f, g \in Flows : \A i \in DOMAIN steps[f], j \in DOMAIN steps[g] :
          steps[f][i].id = steps[g][j].id => f = g /\ i = j
    /\ used \subseteq StepIds
    /\ assignment \in [Flows -> Rows \union {NoRow}]
    /\ outcome \in [StepIds -> {"none", "done", "skipped"}]
    /\ excuse \in [Flows -> SUBSET Excuses]
    /\ spoken \subseteq Flows /\ nominee \in Flows \union {NoRow} /\ unsettled \in BOOLEAN

(* An edit of the list never costs anybody an outcome on a step that stays. *)
OutcomesSurviveEdits ==
    [][\A f \in Flows : \A s \in Range(steps[f]) :
          outcome[s.id] # "none" /\ (\E t \in Range(steps'[f]) : t.id = s.id)
              => outcome'[s.id] # "none"]_vars

(* Who is shown as having completed a flow has an outcome on every required *)
(* step of it, unless a step was made required afterwards.                  *)
CompletedWasWalked ==
    \A f \in Flows :
        /\ assignment[f] # NoRow /\ assignment[f].status = "completed"
        /\ "raised" \notin excuse[f]
        => Pending(steps[f], outcome) = {}

(* A request is still going to derive completion. *)
Deriving(f) == \E c \in Clients : /\ req[c].flow = f
                                  /\ req[c].at \in {"start", "steps", "progress", "complete"}

Walked(f) ==
    /\ assignment[f] # NoRow
    /\ \E s \in Range(steps[f]) : outcome[s.id] # "none"
    /\ Pending(steps[f], outcome) = {}

(* The moment no required step is pending the walk is done, whichever of    *)
(* two requests at a time records the last outcome; unless an edit and not  *)
(* an outcome left none, a check was passed last, or a save or a request    *)
(* was cut.                                                                 *)
WalkedIsCompletedUnlessExcused ==
    \A f \in Flows : Walked(f) /\ ~Deriving(f) /\ excuse[f] \subseteq {"raised"}
                         => assignment[f].status = "completed"

(* Completion is derived in both directions. *)
CompletionIsDerivedUnlessExcused == CompletedWasWalked /\ WalkedIsCompletedUnlessExcused

(* What onboarding_run.go says of completion: the moment no required step   *)
(* is pending the walk is done, and a required step that an administrator   *)
(* adds reopens the flow.  Asked of a live flow somebody has begun, when no *)
(* request is at it.                                                        *)
CompletionFollowsOutcomes ==
    \A f \in Flows :
        /\ Live(f) /\ assignment[f] # NoRow /\ \A c \in Clients : req[c].flow # f
        /\ \E s \in Range(steps[f]) : outcome[s.id] # "none"
        => (assignment[f].status = "completed" <=> Pending(steps[f], outcome) = {})

(* Feedback that was stored stays, unless a save overtook another.          *)
FeedbackKeptUnlessOverlapped ==
    \A f \in spoken : "overlapped" \notin excuse[f] => assignment[f].feedback

(* An organization keeps the default it nominated, until it withdraws or    *)
(* deletes it or nominates another: unless a nomination was cut short after *)
(* it had demoted the incumbent, or an edit wrote back what it had read.    *)
DefaultKeptUnlessUnsettled ==
    nominee # NoRow /\ ~unsettled /\ (\A c \in Clients : req[c].at \notin {"insert", "update"})
        => Default(nominee) /\ \A f \in Flows \ {nominee} : ~Default(f)
=============================================================================

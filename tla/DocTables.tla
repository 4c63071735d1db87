---------------------------- MODULE DocTables -----------------------------
(***************************************************************************)
(* Documents, the tasks that generate them and the tokens they cost, and   *)
(* what holds of them whatever the requests and workers of DocGeneration   *)
(* do.                                                                     *)
(***************************************************************************)
EXTENDS Integers, Sequences

CONSTANTS Clients,     \* requests that are served at the same time
          Budget,      \* AnthropicTokensPerHour
          Costs        \* what one generation may cost, in tokens

ASSUME BudgetAssumption == Budget \in Nat /\ Costs \subseteq Nat

VARIABLES
    doc,        \* rows of doc_generations, in the order of their insertion
    task,       \* the task of each row
    opened,     \* change requests opened for each row
    spent,      \* tokens the model has charged
    req,        \* where each request is, and what it has read
    produced,   \* history: rows whose generation was recorded
    excuse,     \* history: what happened to each row, see Excuses
    overspent   \* history: how spending got past the record, see Leaks

Docs == DOMAIN doc

(* "orphaned": the row was left without a task;                             *)
(* "unsaved": the task ended and its outcome could not be written;          *)
(* "stale": a row was written back from a read that had been overtaken;     *)
(* "again": the task ran again after a change request was opened: its       *)
(* process or a save failed, or the host's answer was lost;                 *)
(* "forked": two versions replace the same one, or one does in part.        *)
Excuses == {"orphaned", "unsaved", "stale", "again", "forked"}

(* "overlap": admitted while another generation was not recorded yet;       *)
(* "unrecorded": a charge no row shows, or a sum that could not be read.    *)
Leaks == {"overlap", "unrecorded"}

---------------------------------------------------------------------------
(* Properties *)

(* A list shows one version of a document, the last, unless two edits began *)
(* from the same row or one was cut short: see "forked".                    *)
OneHeadUnlessForked ==
    \A d, e \in Docs :
        /\ doc[d].root = doc[e].root /\ "forked" \notin excuse[doc[d].root]
        /\ doc[d].superseded = 0 /\ doc[e].superseded = 0
        /\ ~\E c \in Clients : req[c].at = "supersede" /\ req[c].on \in {d, e}
        => d = e

(* A row whose generation was recorded stays completed with its content,    *)
(* unless it was written back from an older read or generated again.        *)
CompletedIsKeptUnlessStale ==
    \A d \in produced : "stale" \notin excuse[d] /\ "again" \notin excuse[d]
                            => doc[d].status = "completed" /\ doc[d].content

(* A generation opens one change request however often it fails and is run  *)
(* again, unless the process, a save or the host's answer failed after it   *)
(* was opened; and a repository's generation is not completed without.      *)
OneChangeRequestUnlessAgain ==
    \A d \in Docs :
        /\ "again" \notin excuse[d] => opened[d] <= 1
        /\ d \in produced /\ doc[d].scope = "repo" => opened[d] >= 1

(* Nobody polls for what never comes: a row that is not at its end has a    *)
(* task that waits or runs, unless its request was refused or cut after the *)
(* insert, or its last try could not be written down.                       *)
UnfinishedIsScheduledUnlessOrphaned ==
    \A d \in Docs :
        doc[d].status \in {"pending", "in_progress"} =>
            \/ task[d].state \in {"waiting", "active"}
            \/ \E c \in Clients : req[c].at = "enqueue" /\ req[c].on = d
            \/ excuse[d] \intersect {"orphaned", "unsaved", "stale"} # {}

(* Requests are refused once the budget is spent: what is charged exceeds   *)
(* it by less than one generation, the last that was admitted, unless       *)
(* generations overlap or fail after they were charged.                     *)
SpentWithinBudget ==
    overspent = {} => spent <= Budget \/ \E cost \in Costs : spent < Budget + cost

(* A list shows one version of a document, and a row that was generated     *)
(* stays so, unless two edits overlapped or an older read was written back. *)
VersionsHoldUnlessStale == OneHeadUnlessForked /\ CompletedIsKeptUnlessStale

(* A generation that is not at its end is scheduled, and opens one change   *)
(* request, unless its request was cut short, or its process or the host's  *)
(* answer was after it had opened one.                                      *)
GenerationEndsOnceUnlessCut == UnfinishedIsScheduledUnlessOrphaned /\ OneChangeRequestUnlessAgain
=============================================================================

--------------------------- MODULE DocGeneration ---------------------------
(***************************************************************************)
(* Documentation of one organization and one of its repositories: requests *)
(* for a generation, documents written or edited by hand, the task that    *)
(* asks the model and opens a change request, and the token budget         *)
(* (handlers/docs.go, docs_manual.go, workers/docs_worker.go).             *)
(***************************************************************************)
EXTENDS DocTables, FiniteSets

CONSTANTS Workers,     \* tasks that are processed at the same time
          Scopes,      \* "repo", "org"
          MaxDocs,     \* bound on the rows of doc_generations
          MaxEdits,    \* bound on the edits by hand
          MaxRetry,    \* how often asynq runs a failed task again
          MaxFaults,   \* bound on the failures and the crashes
          Faults       \* what fails: "db", "redis", "provider", "process"

VARIABLES
    job,        \* where each worker is, and the row it has read
    edits,      \* edits by hand so far
    faults      \* failures and crashes so far

vars == <<doc, task, opened, spent, req, job, edits, faults, produced, excuse, overspent>>
history == <<produced, excuse, overspent>>

NoTask == [state |-> "none", tries |-> 0]
Idle == [at |-> "idle", on |-> 0, row |-> <<>>, scope |-> "none"]
Free == [at |-> "idle", on |-> 0, row |-> <<>>]

NewRow(scope, status, content, root) ==
    [scope |-> scope, status |-> status, content |-> content, tokens |-> 0,
     superseded |-> 0, root |-> root]

Init ==
    /\ doc = <<>> /\ task = <<>> /\ opened = <<>> /\ excuse = <<>>
    /\ spent = 0 /\ edits = 0 /\ faults = 0
    /\ req = [c \in Clients |-> Idle]
    /\ job = [w \in Workers |-> Free]
    /\ produced = {} /\ overspent = {}

Goto(c, step) == req' = [req EXCEPT ![c].at = step]
End(c) == req' = [req EXCEPT ![c] = Idle]
Fails(part) == part \in Faults /\ faults < MaxFaults /\ faults' = faults + 1
Works == UNCHANGED faults
Note(d, what) == excuse' = [excuse EXCEPT ![d] = @ \union {what}]

(* The row takes the next id. *)
CreateDocGeneration(row) ==
    /\ Len(doc) < MaxDocs
    /\ doc' = Append(doc, row)
    /\ task' = Append(task, NoTask)
    /\ opened' = Append(opened, 0)

(* Save writes every column as it was read, the changes apart. *)
UpdateDocGeneration(d, row) == doc' = [doc EXCEPT ![d] = row]

-----------------------------------------------------------------------------
(* A generation is asked for *)

\* Mutant: the budget may be reached and is spent once more.
WithinBudgetOrEqual(used) == used <= Budget

WithinBudget(used) == used < Budget

(* The tokens of the rows that are completed, all of the last hour, each    *)
(* told from the others by its row and a number.  A row that was written by *)
(* a person has none.                                                       *)
TokensUsed == UNION {{d} \X (1..doc[d].tokens) : d \in {e \in Docs : doc[e].status = "completed"}}
SumTokensUsedSince == Cardinality(TokensUsed)

(* A generation that was admitted and has not been recorded. *)
Underway ==
    \/ \E d \in Docs : task[d].state \in {"waiting", "active"}
    \/ \E c \in Clients : req[c].at \in {"insert", "enqueue"}

(* Access, types, credentials and budget are checked; a sum that cannot be  *)
(* read does not stop the request.                                          *)
GenerateDocs(c, scope) ==
    /\ req[c].at = "idle"
    /\ \/ /\ WithinBudget(SumTokensUsedSince)
          /\ overspent' = IF Underway THEN overspent \union {"overlap"} ELSE overspent
          /\ Works
       \/ Fails("db") /\ overspent' = overspent \union {"unrecorded"}
    /\ req' = [req EXCEPT ![c] = [Idle EXCEPT !.at = "insert", !.scope = scope]]
    /\ UNCHANGED <<doc, task, opened, spent, job, edits, produced, excuse>>

InsertPending(c) ==
    /\ req[c].at = "insert"
    /\ CreateDocGeneration(NewRow(req[c].scope, "pending", FALSE, Len(doc) + 1))
    /\ excuse' = Append(excuse, {})
    /\ req' = [req EXCEPT ![c].at = "enqueue", ![c].on = Len(doc) + 1]
    /\ UNCHANGED <<spent, job, edits, faults, produced, overspent>>

(* The task id of a repository is taken while a task of it waits, runs, is  *)
(* archived, or is kept for ten minutes after its end.  The id of an        *)
(* organization's task names the row.                                       *)
Conflict(d) ==
    /\ doc[d].scope = "repo"
    /\ \E e \in Docs : doc[e].scope = "repo" /\ task[e].state # "none"

\* Mutant: the conflict is taken for a success.
EnqueueIgnoringConflict(c) ==
    /\ req[c].at = "enqueue"
    /\ task' = IF Conflict(req[c].on) THEN task ELSE [task EXCEPT ![req[c].on].state = "waiting"]
    /\ End(c)
    /\ UNCHANGED <<doc, opened, spent, job, edits, faults, history>>

(* Whoever is refused leaves the pending row behind. *)
Enqueue(c) ==
    /\ req[c].at = "enqueue"
    /\ \/ /\ ~Conflict(req[c].on)
          /\ task' = [task EXCEPT ![req[c].on].state = "waiting"]
          /\ Works /\ UNCHANGED excuse
       \/ /\ (Conflict(req[c].on) /\ Works) \/ Fails("redis")
          /\ Note(req[c].on, "orphaned")
          /\ UNCHANGED task
    /\ End(c)
    /\ UNCHANGED <<doc, opened, spent, job, edits, produced, overspent>>

-----------------------------------------------------------------------------
(* Documents written by a person *)

(* Completed on arrival. *)
CreateManualDoc(scope) ==
    /\ edits < MaxEdits
    /\ edits' = edits + 1
    /\ CreateDocGeneration(NewRow(scope, "completed", TRUE, Len(doc) + 1))
    /\ excuse' = Append(excuse, {})
    /\ UNCHANGED <<spent, req, job, faults, produced, overspent>>

(* Any row may be edited, a running or superseded one too. *)
UpdateDocContent(c, d) ==
    /\ req[c].at = "idle"
    /\ edits < MaxEdits
    /\ edits' = edits + 1
    /\ req' = [req EXCEPT ![c] = [Idle EXCEPT !.at = "version", !.on = d, !.row = doc[d]]]
    /\ UNCHANGED <<doc, task, opened, spent, job, faults, history>>

\* Mutant: the old version points to itself.
CreateVersionUnlinked(c) ==
    /\ req[c].at = "version"
    /\ LET prev == req[c].row IN
       CreateDocGeneration(NewRow(prev.scope, "completed", TRUE, prev.root))
    /\ excuse' = Append(excuse, {})
    /\ req' = [req EXCEPT ![c].at = "supersede", ![c].row.superseded = req[c].on]
    /\ UNCHANGED <<spent, job, edits, faults, produced, overspent>>

(* A new row, with the provenance of the one that was read. *)
CreateVersion(c) ==
    /\ req[c].at = "version"
    /\ LET prev == req[c].row  root == prev.root IN
       /\ CreateDocGeneration(NewRow(prev.scope, "completed", TRUE, root))
       /\ excuse' = Append([excuse EXCEPT ![root] =
              IF \/ doc[req[c].on].superseded # 0
                 \/ \E e \in Clients : req[e].at = "supersede" /\ req[e].on = req[c].on
              THEN @ \union {"forked"} ELSE @], {})
    /\ req' = [req EXCEPT ![c].at = "supersede", ![c].row.superseded = Len(doc) + 1]
    /\ UNCHANGED <<spent, job, edits, faults, produced, overspent>>

\* Mutant: the new version is stored and the old one not hidden.
MarkSupersededNot(c) ==
    /\ req[c].at = "supersede"
    /\ End(c)
    /\ UNCHANGED <<doc, task, opened, spent, job, edits, faults, history>>

(* Best effort: a failure is logged. *)
MarkSuperseded(c) ==
    /\ req[c].at = "supersede"
    /\ LET d == req[c].on  row == req[c].row IN
       \/ /\ UpdateDocGeneration(d, row)
          /\ IF [doc[d] EXCEPT !.superseded = row.superseded] # row
             THEN Note(d, "stale") ELSE UNCHANGED excuse
          /\ overspent' = IF doc[d].tokens > row.tokens THEN overspent \union {"unrecorded"}
                          ELSE overspent
          /\ Works
       \/ /\ Fails("db")
          /\ Note(row.root, "forked")
          /\ UNCHANGED <<doc, overspent>>
    /\ End(c)
    /\ UNCHANGED <<task, opened, spent, job, edits, produced>>

-----------------------------------------------------------------------------
(* The worker *)

At(w, step) == job[w].at = step
Move(w, step, row) == job' = [job EXCEPT ![w].at = step, ![w].row = row]
Rest(w) == job' = [job EXCEPT ![w] = Free]

(* Handle and HandleOrgDocs load the row first. *)
StartTask(w, d) ==
    /\ At(w, "idle")
    /\ task[d].state = "waiting"
    /\ task' = [task EXCEPT ![d].state = "active"]
    /\ job' = [job EXCEPT ![w] = [at |-> "start", on |-> d, row |-> doc[d]]]
    /\ UNCHANGED <<doc, opened, spent, req, edits, faults, history>>

(* Saving may replace a row that was written since it was read: an edit     *)
(* that hid it, or its own completion when the task runs again.             *)
SaveRow(w, row) ==
    LET d == job[w].on
        moved == doc[d].superseded # job[w].row.superseded IN
    /\ UpdateDocGeneration(d, row)
    /\ excuse' = [e \in Docs |->
          excuse[e]
          \union (IF moved /\ e = doc[d].root THEN {"forked"} ELSE {})
          \union (IF e = d /\ (moved \/ doc[d].status = "completed") THEN {"stale"} ELSE {})]

(* Repository, configuration and credentials are read again; what is        *)
(* missing fails the generation.  A failed save ends this try for a         *)
(* repository, and is ignored for an organization.                          *)
MarkInProgress(w) ==
    /\ At(w, "start")
    /\ LET row == [job[w].row EXCEPT !.status = "in_progress"] IN
       \/ SaveRow(w, row) /\ Move(w, "generate", row) /\ Works
       \/ /\ Fails("db")
          /\ Move(w, IF row.scope = "org" THEN "generate" ELSE "error", row)
          /\ UNCHANGED <<doc, excuse>>
       \/ Fails("provider") /\ Move(w, "fail", job[w].row) /\ UNCHANGED <<doc, excuse>>
    /\ UNCHANGED <<task, opened, spent, req, edits, produced, overspent>>

(* The model answers and charges.  Of several types one may fail after      *)
(* others were charged, which no row tells.                                 *)
GenerateDocumentation(w) ==
    /\ At(w, "generate")
    /\ \/ \E cost \in Costs :
             /\ spent' = spent + cost
             /\ Move(w, IF job[w].row.scope = "org" THEN "progress" ELSE "publish",
                     [job[w].row EXCEPT !.content = TRUE, !.tokens = cost])
             /\ Works /\ UNCHANGED overspent
       \/ /\ Fails("provider") /\ Move(w, "fail", job[w].row)
          /\ \/ UNCHANGED <<spent, overspent>>
             \/ \E cost \in Costs : spent' = spent + cost /\ overspent' = overspent \union {"unrecorded"}
    /\ UNCHANGED <<doc, task, opened, req, edits, produced, excuse>>

(* Branch, files and change request.  The host may have opened it although  *)
(* its answer does not arrive or cannot be read.                            *)
OpenChangeRequest(w) ==
    /\ At(w, "publish")
    /\ LET d == job[w].on IN
       \/ /\ opened' = [opened EXCEPT ![d] = @ + 1]
          /\ Move(w, "complete", job[w].row)
          /\ Works /\ UNCHANGED overspent
       \/ /\ Fails("provider")
          /\ Move(w, "fail", job[w].row)
          /\ overspent' = overspent \union {"unrecorded"}
          /\ opened' \in {opened, [opened EXCEPT ![d] = @ + 1]}
    /\ UNCHANGED <<doc, task, spent, req, edits, produced, excuse>>

(* updateOrgProgress saves the row with no content yet; failures are logged. *)
UpdateOrgProgress(w) ==
    /\ At(w, "progress")
    /\ \/ SaveRow(w, [job[w].row EXCEPT !.content = FALSE, !.tokens = 0]) /\ Works
       \/ Fails("db") /\ UNCHANGED <<doc, excuse>>
    /\ Move(w, "complete", job[w].row)
    /\ UNCHANGED <<task, opened, spent, req, edits, produced, overspent>>

MarkCompleted(w) ==
    /\ At(w, "complete")
    /\ \/ /\ SaveRow(w, [job[w].row EXCEPT !.status = "completed"])
          /\ produced' = produced \union {job[w].on}
          /\ Move(w, "ack", job[w].row)
          /\ overspent' = IF job[w].on \in produced THEN overspent \union {"unrecorded"}
                          ELSE overspent
          /\ Works
       \/ /\ Fails("db")
          /\ Move(w, "error", job[w].row)
          /\ overspent' = overspent \union {"unrecorded"}
          /\ UNCHANGED <<doc, excuse, produced>>
    /\ UNCHANGED <<task, opened, spent, req, edits>>

FailDocGeneration(w) ==
    /\ At(w, "fail")
    /\ \/ SaveRow(w, [job[w].row EXCEPT !.status = "failed", !.content = FALSE, !.tokens = 0]) /\ Works
       \/ Fails("db") /\ UNCHANGED <<doc, excuse>>
    /\ Move(w, "error", job[w].row)
    /\ UNCHANGED <<task, opened, spent, req, edits, produced, overspent>>

(* asynq runs a failed task again, or archives it. *)
Retried(d) ==
    IF task[d].tries < MaxRetry
    THEN [state |-> "waiting", tries |-> task[d].tries + 1]
    ELSE [task[d] EXCEPT !.state = "archived"]

NoteRetry(d) ==
    LET again == opened[d] > 0 /\ Retried(d).state = "waiting"
        left == doc[d].status \in {"pending", "in_progress"} /\ Retried(d).state = "archived" IN
    excuse' = [excuse EXCEPT ![d] = @ \union (IF again THEN {"again"} ELSE {})
                                      \union (IF left THEN {"unsaved"} ELSE {})]

ReturnError(w) ==
    /\ At(w, "error")
    /\ task' = [task EXCEPT ![job[w].on] = Retried(job[w].on)]
    /\ NoteRetry(job[w].on)
    /\ Rest(w)
    /\ UNCHANGED <<doc, opened, spent, req, edits, faults, produced, overspent>>

\* Mutant: a finished handler returns an error, and asynq runs the task again.
AcknowledgeNot(w) ==
    /\ At(w, "ack")
    /\ task' = [task EXCEPT ![job[w].on].state = "waiting"]
    /\ Rest(w)
    /\ UNCHANGED <<doc, opened, spent, req, edits, faults, history>>

(* A finished task keeps its id for ten minutes. *)
Acknowledge(w) ==
    /\ At(w, "ack")
    /\ task' = [task EXCEPT ![job[w].on].state = "kept"]
    /\ Rest(w)
    /\ UNCHANGED <<doc, opened, spent, req, edits, faults, history>>

RetentionEnds(d) ==
    /\ task[d].state = "kept"
    /\ task' = [task EXCEPT ![d].state = "none"]
    /\ UNCHANGED <<doc, opened, spent, req, job, edits, faults, history>>

-----------------------------------------------------------------------------
(* The process stops.  Requests and handlers end where they are; asynq runs *)
(* the tasks they held again.                                               *)
Crash ==
    /\ Fails("process")
    /\ req' = [c \in Clients |-> Idle]
    /\ job' = [w \in Workers |-> Free]
    /\ LET held(d) == \E w \in Workers : job[w].on = d
           Pending(step, d) == \E c \in Clients : req[c].at = step /\ req[c].on = d IN
       /\ task' = [d \in Docs |-> IF held(d) THEN Retried(d) ELSE task[d]]
       /\ overspent' = IF \E w \in Workers : job[w].at \in {"publish", "progress", "complete", "ack"}
                       THEN overspent \union {"unrecorded"} ELSE overspent
       /\ excuse' = [d \in Docs |->
              excuse[d]
              \union (IF Pending("enqueue", d) THEN {"orphaned"} ELSE {})
              \union (IF \E e \in Docs : doc[e].root = d /\ Pending("supersede", e)
                      THEN {"forked"} ELSE {})
              \union (IF held(d) /\ opened[d] > 0 THEN {"again"} ELSE {})
              \union (IF held(d) /\ Retried(d).state = "archived" THEN {"unsaved"} ELSE {})]
    /\ UNCHANGED <<doc, opened, spent, edits, produced>>

WorkerStep(w) ==
    \/ \E d \in Docs : StartTask(w, d)
    \/ MarkInProgress(w) \/ GenerateDocumentation(w) \/ OpenChangeRequest(w)
    \/ UpdateOrgProgress(w) \/ MarkCompleted(w) \/ FailDocGeneration(w)
    \/ ReturnError(w) \/ Acknowledge(w)

Next ==
    \/ \E c \in Clients :
          \/ \E s \in Scopes : GenerateDocs(c, s)
          \/ InsertPending(c) \/ Enqueue(c)
          \/ \E d \in Docs : UpdateDocContent(c, d)
          \/ CreateVersion(c) \/ MarkSuperseded(c)
    \/ \E s \in Scopes : CreateManualDoc(s)
    \/ \E w \in Workers : WorkerStep(w)
    \/ \E d \in Docs : RetentionEnds(d)
    \/ Crash

Spec == Init /\ [][Next]_vars

-----------------------------------------------------------------------------
(* Properties *)

Statuses == {"pending", "in_progress", "completed", "failed"}

(* Types; every row points to a later version of its own document. *)
TypeOK ==
    /\ \A d \in Docs :
          /\ doc[d].status \in Statuses /\ doc[d].tokens \in Costs \cup {0}
          /\ doc[d].superseded = 0 \/ (doc[d].superseded \in d + 1..Len(doc)
                                       /\ doc[doc[d].superseded].root = doc[d].root)
          /\ task[d].state \in {"none", "waiting", "active", "archived", "kept"}
    /\ spent \in Nat
    /\ \A w \in Workers : job[w].at # "idle" => task[job[w].on].state = "active"
=============================================================================

--------------------------- MODULE WebhookDelivery ---------------------------
(***************************************************************************)
(* A provider's webhook deliveries to one repository: the receivers that    *)
(* drop duplicates and record them (internal/api/handlers/webhook.go), the  *)
(* webhook:process tasks, and the worker that turns a push into a           *)
(* repository sync (internal/workers/webhook_processor.go).                 *)
(*                                                                         *)
(* One action is the code between two calls to Postgres or Redis.  A        *)
(* delivery id names at most one row of the webhooks table: the column is   *)
(* UNIQUE.                                                                  *)
(***************************************************************************)
EXTENDS WebhookTables

CONSTANT Faults \* the dependencies that may fail: "db", "redis"

Actors == Receivers \cup Workers

VARIABLES
    act,        \* what each receiver and worker is doing
    sent,       \* how often each delivery was sent
    answers,    \* the successful answers each delivery got
    gone,       \* the repository was deleted
    up,         \* the server is running
    crashes     \* how often it crashed

vars == <<hook, tasks, act, enqueued, sent, answers, gone, up, crashes>>

ReceiverPlaces == {"check", "insert", "enqueue"}
WorkerPlaces == {"load", "mark", "process", "complete", "ack", "fail"}
HoldingPlaces == {"mark", "process", "complete", "fail"}

Idle == [at |-> "idle", on |-> NoDelivery, copy |-> Absent]

StoresOK ==
    /\ hook \in [Deliveries -> Hook \cup {Absent}]
    /\ tasks \in [Deliveries -> Nat]
    /\ enqueued \in [Deliveries -> Nat]
    /\ sent \in [Deliveries -> 0..MaxSends]
    /\ answers \in [Deliveries -> SUBSET {"accepted", "duplicate"}]
    /\ gone \in BOOLEAN /\ up \in BOOLEAN
    /\ crashes \in 0..MaxCrashes

ActorsOK ==
    /\ act \in [Actors -> [at : {"idle"} \cup ReceiverPlaces \cup WorkerPlaces,
                           on : Deliveries \cup {NoDelivery},
                           copy : Hook \cup {Absent}]]
    /\ \A a \in Actors : act[a].at \in HoldingPlaces => act[a].copy \in Hook

TypeOK == StoresOK /\ ActorsOK

Init ==
    /\ hook = [d \in Deliveries |-> Absent]
    /\ tasks = [d \in Deliveries |-> 0]
    /\ act = [a \in Actors |-> Idle]
    /\ enqueued = [d \in Deliveries |-> 0]
    /\ sent = [d \in Deliveries |-> 0]
    /\ answers = [d \in Deliveries |-> {}]
    /\ gone = FALSE /\ up = TRUE
    /\ crashes = 0

At(a, d, place) == act[a].at = place /\ act[a].on = d
Begin(a, d, place) ==
    act' = [act EXCEPT ![a] = [at |-> place, on |-> d, copy |-> Absent]]
GotoWith(a, place, v) ==
    act' = [act EXCEPT ![a] = [at |-> place, on |-> @.on, copy |-> v]]
Release(a) == act' = [act EXCEPT ![a] = Idle]

Answer(d, what) == answers' = [answers EXCEPT ![d] = @ \cup {what}]

-----------------------------------------------------------------------------
(* The receivers: acceptDelivery and recordDelivery *)

\* A delivery, or a redelivery, arrives and is authenticated against the stored
\* configuration, which goes with the repository.
Receive(h, d) ==
    /\ up /\ act[h].at = "idle"
    /\ sent[d] < MaxSends
    /\ sent' = [sent EXCEPT ![d] = @ + 1]
    /\ \/ ~gone /\ Begin(h, d, "check")
       \/ (gone \/ "db" \in Faults) /\ UNCHANGED act
    /\ UNCHANGED <<hook, tasks, enqueued, answers, gone, up, crashes>>

\* A failed lookup is only logged and taken for "not seen yet".
CheckDuplicate(h, d) ==
    /\ At(h, d, "check")
    /\ \/ hook[d] # Absent /\ Answer(d, "duplicate") /\ Release(h)
       \/ /\ hook[d] = Absent \/ "db" \in Faults
          /\ GotoWith(h, "insert", Absent)
          /\ UNCHANGED answers
    /\ UNCHANGED <<hook, tasks, enqueued, sent, gone, up, crashes>>

\* Mutant: the delivery is recorded and answered, and never enqueued.
RecordHookOnly(h, d) ==
    /\ At(h, d, "insert")
    /\ hook[d] = Absent /\ ~gone
    /\ hook' = [hook EXCEPT ![d] =
                  [status |-> "pending", retries |-> 0, waiting |-> FALSE]]
    /\ Answer(d, "accepted")
    /\ Release(h)
    /\ UNCHANGED <<tasks, enqueued, sent, gone, up, crashes>>

\* The unique delivery id makes the second of two concurrent inserts fail.
RecordHook(h, d) ==
    /\ At(h, d, "insert")
    /\ \/ /\ hook[d] = Absent /\ ~gone
          /\ hook' = [hook EXCEPT ![d] =
                        [status |-> "pending", retries |-> 0, waiting |-> FALSE]]
          /\ GotoWith(h, "enqueue", Absent)
       \/ /\ hook[d] # Absent \/ gone \/ "db" \in Faults
          /\ Release(h)
          /\ UNCHANGED hook
    /\ UNCHANGED <<tasks, enqueued, sent, answers, gone, up, crashes>>

\* A failed Enqueue is only logged: the delivery is accepted all the same.
EnqueueProcessing(h, d) ==
    /\ At(h, d, "enqueue")
    /\ \/ tasks' = [tasks EXCEPT ![d] = @ + 1]
       \/ "redis" \in Faults /\ UNCHANGED tasks
    /\ Answer(d, "accepted")
    /\ Release(h)
    /\ UNCHANGED <<hook, enqueued, sent, gone, up, crashes>>

ReceiverStep(h, d) ==
    CheckDuplicate(h, d) \/ RecordHook(h, d) \/ EnqueueProcessing(h, d)

-----------------------------------------------------------------------------
(* The worker: WebhookProcessor.Handle *)

\* Mutants: everything unfinished is processed again, or everything whose backoff
\* has passed.
CanProcessUnfinished(v) == v.status # "completed" /\ ~v.waiting
CanProcessAnyStatus(v) == ~v.waiting

\* Webhook.CanProcess
CanProcess(v) == v.status \in {"pending", "failed"} /\ ~v.waiting

\* Webhook.MarkAsFailed: the next retry is planned while some are left.
MarkAsFailed(v) ==
    [status |-> "failed", retries |-> v.retries + 1,
     waiting |-> v.retries + 1 < MaxRetries]

\* UpdateWebhook, whose failure the processor ignores.  Save would insert a row
\* that is gone, which the foreign key to the repository forbids.
UpdateWebhook(d, v) ==
    \/ hook[d] # Absent /\ hook' = [hook EXCEPT ![d] = v]
    \/ (hook[d] = Absent \/ "db" \in Faults) /\ UNCHANGED hook

\* The handler returned an error: asynq runs the task again later.
Requeue(w, d) ==
    /\ Release(w)
    /\ tasks' = [tasks EXCEPT ![d] = @ + 1]

StartTask(w, d) ==
    /\ up /\ act[w].at = "idle"
    /\ tasks[d] > 0
    /\ tasks' = [tasks EXCEPT ![d] = @ - 1]
    /\ Begin(w, d, "load")
    /\ UNCHANGED <<hook, enqueued, sent, answers, gone, up, crashes>>

\* A webhook that cannot be processed now ends its task, for good.
LoadHook(w, d) ==
    /\ At(w, d, "load")
    /\ \/ /\ hook[d] # Absent /\ CanProcess(hook[d])
          /\ GotoWith(w, "mark", [hook[d] EXCEPT !.status = "processing"])
          /\ UNCHANGED tasks
       \/ /\ hook[d] # Absent /\ ~CanProcess(hook[d])
          /\ GotoWith(w, "ack", Absent)
          /\ UNCHANGED tasks
       \/ /\ hook[d] = Absent \/ "db" \in Faults
          /\ Requeue(w, d)
    /\ UNCHANGED <<hook, enqueued, sent, answers, gone, up, crashes>>

MarkAsProcessing(w, d) ==
    /\ At(w, d, "mark")
    /\ UpdateWebhook(d, act[w].copy)
    /\ GotoWith(w, "process", act[w].copy)
    /\ UNCHANGED <<tasks, enqueued, sent, answers, gone, up, crashes>>

\* Mutant: the error of Enqueue is dropped.
ProcessEventUnchecked(w, d) ==
    /\ At(w, d, "process")
    /\ \/ enqueued' = [enqueued EXCEPT ![d] = @ + 1]
       \/ "redis" \in Faults /\ UNCHANGED enqueued
    /\ GotoWith(w, "complete", [act[w].copy EXCEPT !.status = "completed"])
    /\ UNCHANGED <<hook, tasks, sent, answers, gone, up, crashes>>

\* processEvent: a push enqueues a sync, any other event is ignored.
ProcessEvent(w, d) ==
    /\ At(w, d, "process")
    /\ \/ /\ enqueued' = IF d \in Pushes THEN [enqueued EXCEPT ![d] = @ + 1] ELSE enqueued
          /\ GotoWith(w, "complete", [act[w].copy EXCEPT !.status = "completed"])
       \/ /\ d \in Pushes /\ "redis" \in Faults
          /\ act[w].copy.retries < MaxFailures
          /\ GotoWith(w, "fail", MarkAsFailed(act[w].copy))
          /\ UNCHANGED enqueued
    /\ UNCHANGED <<hook, tasks, sent, answers, gone, up, crashes>>

RecordCompleted(w, d) ==
    /\ At(w, d, "complete")
    /\ UpdateWebhook(d, act[w].copy)
    /\ GotoWith(w, "ack", Absent)
    /\ UNCHANGED <<tasks, enqueued, sent, answers, gone, up, crashes>>

\* The handler returned nil: asynq forgets the task.
Acknowledge(w, d) ==
    /\ At(w, d, "ack")
    /\ Release(w)
    /\ UNCHANGED <<hook, tasks, enqueued, sent, answers, gone, up, crashes>>

RecordFailed(w, d) ==
    /\ At(w, d, "fail")
    /\ UpdateWebhook(d, act[w].copy)
    /\ Requeue(w, d)
    /\ UNCHANGED <<enqueued, sent, answers, gone, up, crashes>>

WorkerStep(w, d) ==
    \/ LoadHook(w, d) \/ MarkAsProcessing(w, d) \/ ProcessEvent(w, d)
    \/ RecordCompleted(w, d) \/ RecordFailed(w, d) \/ Acknowledge(w, d)

-----------------------------------------------------------------------------
(* The environment *)

\* next_retry_at passes.
BackoffElapses(d) ==
    /\ hook[d] # Absent /\ hook[d].waiting
    /\ hook' = [hook EXCEPT ![d].waiting = FALSE]
    /\ UNCHANGED <<tasks, act, enqueued, sent, answers, gone, up, crashes>>

\* The repository is deleted, and its webhooks with it (ON DELETE CASCADE).
RepositoryDeleted ==
    /\ ~gone
    /\ gone' = TRUE
    /\ hook' = [d \in Deliveries |-> Absent]
    /\ UNCHANGED <<tasks, act, enqueued, sent, answers, up, crashes>>

\* Requests and handlers stop where they are; asynq runs the tasks they held again.
Crash ==
    /\ up /\ crashes < MaxCrashes
    /\ crashes' = crashes + 1
    /\ up' = FALSE
    /\ act' = [a \in Actors |-> Idle]
    /\ tasks' = [d \in Deliveries |->
                   tasks[d] + Cardinality({w \in Workers : act[w].on = d})]
    /\ UNCHANGED <<hook, enqueued, sent, answers, gone>>

Restart ==
    /\ ~up
    /\ up' = TRUE
    /\ UNCHANGED <<hook, tasks, act, enqueued, sent, answers, gone, crashes>>

-----------------------------------------------------------------------------
Next ==
    \/ \E h \in Receivers, d \in Deliveries : Receive(h, d) \/ ReceiverStep(h, d)
    \/ \E w \in Workers, d \in Deliveries : StartTask(w, d) \/ WorkerStep(w, d)
    \/ \E d \in Deliveries : BackoffElapses(d)
    \/ RepositoryDeleted \/ Crash \/ Restart

Spec == Init /\ [][Next]_vars

\* Requests and handlers run to their end, asynq dispatches waiting tasks, time
\* passes, and a dead process is started again.  The provider owes us nothing.
Fairness ==
    /\ \A h \in Receivers : WF_vars(\E d \in Deliveries : ReceiverStep(h, d))
    /\ \A w \in Workers : WF_vars(\E d \in Deliveries : WorkerStep(w, d))
    /\ \A d \in Deliveries : /\ WF_vars(\E w \in Workers : StartTask(w, d))
                             /\ WF_vars(BackoffElapses(d))
    /\ WF_vars(Restart)

FairSpec == Spec /\ Fairness

-----------------------------------------------------------------------------
(* Properties *)

\* With nothing failing, an accepted delivery is processed, unless a crash
\* interrupts its processing: "processing" is never taken up again.
AcceptedIsProcessed ==
    \A d \in Deliveries : "accepted" \in answers[d] ~>
        Is(d, "completed") \/ gone \/ (crashes > 0 /\ Is(d, "processing"))
=============================================================================

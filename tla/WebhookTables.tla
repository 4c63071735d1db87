---------------------------- MODULE WebhookTables ----------------------------
(***************************************************************************)
(* What is stored of the deliveries to one repository, and what holds of   *)
(* it whatever the receivers and workers of WebhookDelivery do.            *)
(***************************************************************************)
EXTENDS Naturals, FiniteSets

CONSTANTS
    Deliveries,     \* delivery ids
    Pushes,         \* the deliveries that report a push
    Receivers,      \* HTTP requests in flight at once
    Workers,        \* asynq worker goroutines
    Absent,         \* no such row
    NoDelivery,     \* the delivery of an idle actor
    MaxRetries,     \* Webhook.MaxRetries, 3 in recordDelivery
    MaxSends,       \* how often the provider sends one delivery
    MaxFailures,    \* failed attempts per delivery, below asynq's 25 retries
    MaxCrashes      \* number of process crashes

ASSUME ConstantsAssumption ==
    /\ Receivers \cap Workers = {}
    /\ IsFiniteSet(Workers)
    /\ Pushes \subseteq Deliveries
    /\ NoDelivery \notin Deliveries
    /\ MaxRetries \in Nat /\ MaxSends \in Nat
    /\ MaxFailures \in Nat /\ MaxCrashes \in Nat

\* waiting: next_retry_at lies in the future.
Hook == [status : {"pending", "processing", "completed", "failed"},
         retries : Nat, waiting : BOOLEAN]

ASSUME AbsentAssumption == Absent \notin Hook

VARIABLES
    hook,       \* the webhooks table
    tasks,      \* webhook:process tasks waiting in asynq, retries included
    enqueued    \* repo:sync jobs enqueued for each delivery

Is(d, status) == hook[d] # Absent /\ hook[d].status = status

-----------------------------------------------------------------------------
(* Properties *)

\* Idempotency (README.md:59): however often a delivery is sent, at once or after
\* a crash, it enqueues one sync at most, as long as the database answers.
SyncedAtMostOnce == \A d \in Deliveries : enqueued[d] <= 1

\* A push that reads "completed" has had its sync enqueued.
CompletedIsSynced ==
    \A d \in Pushes : Is(d, "completed") => enqueued[d] >= 1

\* "completed" is final: no late handler, retry or redelivery takes it back.
CompletedIsFinal ==
    [][\A d \in Deliveries :
          Is(d, "completed") => (Is(d, "completed") \/ hook[d] = Absent)']_hook
=============================================================================

----------------------------- MODULE MCLifecycle -----------------------------
(* What the workers owe for TLC, each explored by itself: the end of every   *)
(* sync, and the outcome of every webhook delivery.                          *)
EXTENDS MCRepositorySync

VARIABLES part, hook, tasks, doing, enqueued, sent, answers, gone, serving, stops

deliveryVars == <<hook, tasks, doing, enqueued, sent, answers, gone, serving, stops>>

W == INSTANCE WebhookDelivery WITH
        Deliveries <- {"d1", "d2"}, Pushes <- {"d1"}, Receivers <- {"h1", "h2"}, Workers <- {"v1", "v2"},
        NoDelivery <- NoRepo, MaxRetries <- 3, MaxSends <- 2, MaxFailures <- 0, MaxCrashes <- 1,
        Faults <- {}, act <- doing, up <- serving, crashes <- stops

MCInit == Init /\ W!Init /\ part \in {"repositories", "deliveries"}

MCNext ==
    /\ \/ part = "repositories" /\ Next /\ UNCHANGED deliveryVars
       \/ part = "deliveries" /\ W!Next /\ UNCHANGED vars
    /\ UNCHANGED part

(* What is not explored has nothing to do, and its fairness asks for nothing. *)
MCSpec == MCInit /\ [][MCNext]_<<vars, deliveryVars, part>> /\ Fairness /\ W!Fairness

(* An accepted delivery reaches its end, unless the repository goes or the *)
(* process dies while it processes it.                                     *)
AcceptedIsProcessed == W!AcceptedIsProcessed
=============================================================================

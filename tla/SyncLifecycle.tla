---------------------------- MODULE SyncLifecycle ----------------------------
(***************************************************************************)
(* What repository synchronisation promises of a row's sync_status,        *)
(* whatever the interleaving: idle -> syncing -> synced / error, where     *)
(* "syncing" is ended by a sync that is running, and by nothing else but   *)
(* the recovery that follows an interruption, when no sync is left.        *)
(* RepositorySync implements it under the conditions named there.          *)
(***************************************************************************)
CONSTANTS Repos, Workers

VARIABLES
    status,         \* sync_status of each repository, "absent" for no row
    running,        \* the syncs that will still write a final status
    interrupted     \* some process died and was not started again

vars == <<status, running, interrupted>>

Init ==
    /\ status = [r \in Repos |-> "absent"]
    /\ running = [r \in Repos |-> {}]
    /\ interrupted = FALSE

\* A repository enters the catalog.
Register(r) ==
    /\ status[r] = "absent"
    /\ status' = [status EXCEPT ![r] = "idle"]
    /\ UNCHANGED <<running, interrupted>>

\* A repository leaves it; a sync under way writes it back when it ends.
Remove(r) ==
    /\ status' = [status EXCEPT ![r] = "absent"]
    /\ UNCHANGED <<running, interrupted>>

\* A sync begins: it shows, unless its provider cannot even be resolved.
BeginSync(r, w) ==
    /\ w \notin running[r]
    /\ running' = [running EXCEPT ![r] = @ \cup {w}]
    /\ \/ status' = [status EXCEPT ![r] = "syncing"]
       \/ UNCHANGED status
    /\ UNCHANGED interrupted

\* A running sync ends with an outcome.
EndSync(r, w) ==
    /\ w \in running[r]
    /\ running' = [running EXCEPT ![r] = @ \ {w}]
    /\ \E outcome \in {"synced", "error"} :
          status' = [status EXCEPT ![r] = outcome]
    /\ UNCHANGED interrupted

\* A process dies and takes some running syncs with it.
Interrupt(lost) ==
    /\ running' = [r \in Repos |-> running[r] \ lost]
    /\ interrupted' = TRUE
    /\ UNCHANGED status

\* Recovery: nothing is running, so every "syncing" is a leftover.
Recover ==
    /\ interrupted
    /\ \A r \in Repos : running[r] = {}
    /\ status' = [r \in Repos |-> IF status[r] = "syncing" THEN "idle" ELSE status[r]]
    /\ interrupted' = FALSE
    /\ UNCHANGED running

Next ==
    \/ \E r \in Repos : Register(r) \/ Remove(r)
    \/ \E r \in Repos, w \in Workers : BeginSync(r, w) \/ EndSync(r, w)
    \/ \E lost \in SUBSET Workers : Interrupt(lost)
    \/ Recover

Spec == Init /\ [][Next]_vars
=============================================================================

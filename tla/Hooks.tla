-------------------------------- MODULE Hooks --------------------------------
(***************************************************************************)
(* The webhook of one repository (sync_service.go ensureWebhookRegistered, *)
(* postgres_repository.go, handlers/webhook.go acceptDelivery).  The last  *)
(* act of a sync registers a hook at the host and then stores its secret;  *)
(* by then the row says "synced", so the next sync may already be running. *)
(* Nothing takes a hook away from the host again.                          *)
(***************************************************************************)
EXTENDS HookTables

CONSTANT MaxHooks  \* secrets that may be generated

vars == <<present, config, hooks, work, generated, cut, overlapped>>

Idle == [at |-> "idle", secret |-> NoSecret]

Init ==
    /\ present = TRUE /\ config = NoSecret /\ hooks = {} /\ work = [s \in Syncs |-> Idle]
    /\ generated = 0 /\ cut = {} /\ overlapped = {}

At(s, place) == work[s].at = place
Goto(s, place) == work' = [work EXCEPT ![s].at = place]
End(s) == work' = [work EXCEPT ![s] = Idle]
Holding == {s \in Syncs : Secret(s) # NoSecret}

(* doSync comes to its last act; the row it read may be gone by now. *)
SyncRepository(s) ==
    /\ At(s, "idle") /\ present /\ Goto(s, "look")
    /\ UNCHANGED <<present, config, hooks, generated, cut, overlapped>>

\* Mutant: it is registered again by every sync.
LookNot(s) ==
    /\ At(s, "look") /\ generated < MaxHooks
    /\ work' = [work EXCEPT ![s] = [at |-> "register", secret |-> generated + 1]]
    /\ generated' = generated + 1
    /\ overlapped' = overlapped \cup (IF Holding = {} THEN {} ELSE {generated'} \cup {Secret(t) : t \in Holding})

(* A row there is says the hook is there; without one a secret is generated. *)
GetWebhookConfigByRepoID(s) ==
    /\ At(s, "look")
    /\ \/ config # NoSecret /\ End(s) /\ UNCHANGED <<generated, overlapped>>
       \/ /\ config = NoSecret /\ generated < MaxHooks
          /\ work' = [work EXCEPT ![s] = [at |-> "register", secret |-> generated + 1]]
          /\ generated' = generated + 1
          /\ overlapped' = overlapped \cup (IF Holding = {} THEN {} ELSE {generated'} \cup {Secret(t) : t \in Holding})

Look(s) == GetWebhookConfigByRepoID(s) /\ UNCHANGED <<present, config, hooks, cut>>

(* The host takes the hook, or takes it and its answer is lost, or refuses *)
(* it: it may be down, or refuse a second hook to one address.             *)
RegisterWebhook(s) ==
    /\ At(s, "register")
    /\ \/ hooks' = hooks \cup {Secret(s)} /\ Goto(s, "store") /\ UNCHANGED cut
       \/ hooks' = hooks \cup {Secret(s)} /\ End(s) /\ cut' = cut \cup {Secret(s)}
       \/ End(s) /\ UNCHANGED <<hooks, cut>>
    /\ UNCHANGED <<present, config, generated, overlapped>>

(* One row for a repository, and none without the repository; a failure is *)
(* logged, and the hook stays.                                             *)
CreateWebhookConfig(s) ==
    /\ At(s, "store") /\ End(s)
    /\ \/ present /\ config = NoSecret /\ config' = Secret(s) /\ UNCHANGED cut
       \/ (~present \/ config # NoSecret) /\ UNCHANGED <<config, cut>>
       \/ cut' = cut \cup {Secret(s)} /\ UNCHANGED config
    /\ UNCHANGED <<present, hooks, generated, overlapped>>

(* The process stops between two steps, or the store fails under the look. *)
Stop(s) ==
    /\ work[s] # Idle /\ End(s) /\ cut' = cut \cup ({Secret(s)} \ {NoSecret})
    /\ UNCHANGED <<present, config, hooks, generated, overlapped>>

(* The row goes, and its webhook_configs with it. *)
DeleteRepository ==
    /\ present /\ present' = FALSE /\ config' = NoSecret
    /\ UNCHANGED <<hooks, work, generated, cut, overlapped>>

Next ==
    \/ \E s \in Syncs : SyncRepository(s) \/ Look(s) \/ RegisterWebhook(s) \/ CreateWebhookConfig(s) \/ Stop(s)
    \/ DeleteRepository

Spec == Init /\ [][Next]_vars

---------------------------------------------------------------------------
(* Properties *)
TypeOK ==
    /\ present \in BOOLEAN /\ config \in 0..MaxHooks /\ generated \in 0..MaxHooks
    /\ hooks \cup cut \cup overlapped \subseteq 1..generated
    /\ work \in [Syncs -> [at : {"idle", "look", "register", "store"}, secret : 0..MaxHooks]]
=============================================================================

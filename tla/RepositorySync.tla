--------------------------- MODULE RepositorySync ---------------------------
(***************************************************************************)
(* The life of a catalogued repository's row: the sync workers that mirror *)
(* provider metadata into it (internal/services/sync_service.go), the API  *)
(* requests that edit, delete, assign or read it                           *)
(* (internal/services/repository_service.go, team_service.go), the Redis   *)
(* read-through cache of its detail response, the asynq queue of repo:sync *)
(* tasks, and the crash and restart of the processes that run all of them  *)
(* (cmd/server/main.go).                                                   *)
(*                                                                         *)
(* An actor is one goroutine: an asynq worker slot or an API request.  It  *)
(* keeps the copy of the row it read and the place it is at; one action is *)
(* the code between two calls to Postgres, Redis or the provider.          *)
(***************************************************************************)
EXTENDS Naturals, FiniteSets

CONSTANTS
    Repos,          \* repository ids
    Workers,        \* asynq worker goroutines (Concurrency in jobs/worker.go)
    Clients,        \* API requests in flight at once
    Procs,          \* server processes, each with its own workers and requests
    ProcOf,         \* the process an actor runs in
    Descs,          \* values of the user-edited columns (description, is_public)
    Teams,          \* teams that may own a repository
    NoTeam,         \* NULL owner_team_id
    Absent,         \* no such row, or no such cache entry
    NoRepo,         \* the repository of an actor that is doing nothing
    Ops,            \* the kinds of API request that arrive
    Faults,         \* the dependencies that may fail: "db", "redis"
    MaxTasks,       \* a repository with this many tasks gets no further request
    MaxCrashes      \* number of process crashes

OpKinds == {"create", "trigger", "push", "get", "edit", "delete", "own", "dropteam"}

Actors == Workers \cup Clients

ASSUME ConstantsAssumption ==
    /\ Workers \cap Clients = {}
    /\ IsFiniteSet(Workers)
    /\ ProcOf \in [Actors -> Procs]
    /\ NoTeam \notin Teams
    /\ NoRepo \notin Repos
    /\ Ops \subseteq OpKinds
    /\ Faults \subseteq {"db", "redis"}
    /\ MaxTasks \in Nat /\ MaxCrashes \in Nat

Statuses == {"idle", "syncing", "synced", "error"}
Row == [status : Statuses, desc : Descs, owner : Teams \cup {NoTeam}]

ASSUME AbsentAssumption == Absent \notin Row

VARIABLES
    row,        \* the repositories table
    cache,      \* Redis: the cached detail response of a repository
    queue,      \* repo:sync tasks waiting in asynq, retries included
    act,        \* what each actor is doing and the row it holds
    up,         \* which processes are running
    team,       \* teams that are not soft-deleted
    created,    \* repositories that have ever been created
    crashes,    \* how many crashes have happened
    bypassed    \* history: the cache entry was outdated by a step that is not
                \* followed by an invalidation

vars == <<row, cache, queue, act, up, team, created, crashes, bypassed>>

WorkerPlaces == {"load", "resolve", "mark", "markDel", "sync", "save",
                 "saveDel", "tail", "fail", "failDel"}
ClientPlaces == {"enqueue", "get", "fill", "edit", "editDel", "delete",
                 "deleteDel", "own"}

Idle == [at |-> "idle", repo |-> NoRepo, copy |-> Absent]

ActorState == [at : {"idle"} \cup WorkerPlaces \cup ClientPlaces,
               repo : Repos \cup {NoRepo},
               copy : Row \cup {Absent}]

\* Places an actor reaches only with a copy of a row that existed.
HoldingPlaces == {"resolve", "mark", "markDel", "sync", "save", "fail", "fill",
                  "edit", "own"}

StoresOK ==
    /\ row \in [Repos -> Row \cup {Absent}]
    /\ cache \in [Repos -> Row \cup {Absent}]
    /\ queue \in [Repos -> Nat]
    /\ up \in [Procs -> BOOLEAN]
    /\ team \subseteq Teams
    /\ created \subseteq Repos
    /\ crashes \in 0..MaxCrashes
    /\ bypassed \in [Repos -> BOOLEAN]

ActorsOK ==
    /\ act \in [Actors -> ActorState]
    /\ \A a \in Actors : act[a].at \in HoldingPlaces => act[a].copy \in Row

TypeOK == StoresOK /\ ActorsOK

Init ==
    /\ row = [r \in Repos |-> Absent]
    /\ cache = [r \in Repos |-> Absent]
    /\ queue = [r \in Repos |-> 0]
    /\ act = [a \in Actors |-> Idle]
    /\ up = [p \in Procs |-> TRUE]
    /\ team = Teams
    /\ created = {}
    /\ crashes = 0
    /\ bypassed = [r \in Repos |-> FALSE]

-----------------------------------------------------------------------------
(* Reading and writing the row *)

Status(r) == IF row[r] = Absent THEN "absent" ELSE row[r].status

\* The enriched SELECT behind GetRepository: the owner is joined against live
\* teams only, so an owner that was soft-deleted reads as no owner.
Shown(v, live) ==
    IF v = Absent THEN Absent
    ELSE [v EXCEPT !.owner = IF v.owner \in live THEN v.owner ELSE NoTeam]

Loaded(r) == Shown(row[r], team)

\* GORM's Save: every column is written, and a row that no longer exists is
\* inserted again.
Save(r, v) == row' = [row EXCEPT ![r] = v]

GotoWith(a, place, v) ==
    act' = [act EXCEPT ![a] = [at |-> place, repo |-> @.repo, copy |-> v]]
Goto(a, place) == GotoWith(a, place, act[a].copy)
Release(a) == act' = [act EXCEPT ![a] = Idle]

\* The entry goes; that makes up for any earlier omission.
Drop(r) ==
    /\ cache' = [cache EXCEPT ![r] = Absent]
    /\ bypassed' = [bypassed EXCEPT ![r] = FALSE]

\* A write that leaves the cached responses of the repositories in S in place.
Bypass(S) ==
    bypassed' = [r \in Repos |-> bypassed[r] \/ (r \in S /\ cache[r] # Absent)]

\* Cache.Del, whose failure nobody looks at.
Invalidate(r) ==
    \/ Drop(r)
    \/ "redis" \in Faults /\ Bypass({r}) /\ UNCHANGED cache

At(a, r, place) == act[a].at = place /\ act[a].repo = r
Running(a) == up[ProcOf[a]]

-----------------------------------------------------------------------------
(* SyncWorker.Handle and SyncService.SyncRepository *)

\* A failed handler hands its task back to asynq, which schedules a retry or,
\* after the last one, archives the task.
FailTask(w, r) ==
    /\ Release(w)
    /\ \/ queue' = [queue EXCEPT ![r] = @ + 1]
       \/ UNCHANGED queue

TaskStart(w, r) ==
    /\ Running(w) /\ act[w].at = "idle"
    /\ queue[r] > 0
    /\ queue' = [queue EXCEPT ![r] = @ - 1]
    /\ act' = [act EXCEPT ![w] = [at |-> "load", repo |-> r, copy |-> Absent]]
    /\ UNCHANGED <<row, cache, up, team, created, crashes, bypassed>>

\* Mutant: only a finished sync may be followed by another.
CanSyncOnceFinished(r) == Status(r) \in {"synced", "error"}

\* The row exists and is not being synced: evaluated when the row is read, long
\* before "syncing" is written.
CanSync(r) == Status(r) \notin {"absent", "syncing"}

LoadRepository(w, r) ==
    /\ At(w, r, "load")
    /\ \/ /\ CanSync(r)
          /\ GotoWith(w, "resolve", Loaded(r))
          /\ UNCHANGED queue
       \/ /\ ~CanSync(r) \/ "db" \in Faults
          /\ FailTask(w, r)
    /\ UNCHANGED <<row, cache, up, team, created, crashes, bypassed>>

\* providerForRepository: with a client the copy becomes "syncing", without one
\* the failure is recorded.
ResolveProvider(w, r) ==
    /\ At(w, r, "resolve")
    /\ \/ GotoWith(w, "mark", [act[w].copy EXCEPT !.status = "syncing"])
       \/ GotoWith(w, "fail", [act[w].copy EXCEPT !.status = "error"])
    /\ UNCHANGED <<row, cache, queue, up, team, created, crashes, bypassed>>

\* The write of persist before doSync; its failure is only logged.
MarkSyncing(w, r) ==
    /\ At(w, r, "mark")
    /\ \/ Save(r, act[w].copy) /\ Goto(w, "markDel")
       \/ "db" \in Faults /\ Goto(w, "sync") /\ UNCHANGED row
    /\ UNCHANGED <<cache, queue, up, team, created, crashes, bypassed>>

MarkInvalidate(w, r) ==
    /\ At(w, r, "markDel")
    /\ Invalidate(r)
    /\ Goto(w, "sync")
    /\ UNCHANGED <<row, queue, up, team, created, crashes>>

\* The provider calls of doSync, none of which touches the catalog.
FetchProvider(w, r) ==
    /\ At(w, r, "sync")
    /\ \/ GotoWith(w, "save", [act[w].copy EXCEPT !.status = "synced"])
       \/ GotoWith(w, "fail", [act[w].copy EXCEPT !.status = "error"])
    /\ UNCHANGED <<row, cache, queue, up, team, created, crashes, bypassed>>

\* The write of persist at the end of doSync; its failure fails the sync.
SaveSynced(w, r) ==
    /\ At(w, r, "save")
    /\ \/ Save(r, act[w].copy) /\ Goto(w, "saveDel")
       \/ /\ "db" \in Faults
          /\ GotoWith(w, "fail", [act[w].copy EXCEPT !.status = "error"])
          /\ UNCHANGED row
    /\ UNCHANGED <<cache, queue, up, team, created, crashes, bypassed>>

SaveInvalidate(w, r) ==
    /\ At(w, r, "saveDel")
    /\ Invalidate(r)
    /\ GotoWith(w, "tail", Absent)
    /\ UNCHANGED <<row, queue, up, team, created, crashes>>

\* The rest of doSync, fact extraction and hook registration, whose failures are
\* only logged and which write nothing of this module; then asynq forgets the task.
FinishSync(w, r) ==
    /\ At(w, r, "tail")
    /\ Release(w)
    /\ UNCHANGED <<row, cache, queue, up, team, created, crashes, bypassed>>

\* Mutant: the handler returns the error without recording it.
RecordFailureNowhere(w, r) ==
    /\ At(w, r, "fail")
    /\ FailTask(w, r)
    /\ UNCHANGED <<row, cache, up, team, created, crashes, bypassed>>

\* The write of persist with the recorded error; its failure is ignored.
RecordFailure(w, r) ==
    /\ At(w, r, "fail")
    /\ \/ Save(r, act[w].copy) /\ Goto(w, "failDel") /\ UNCHANGED queue
       \/ "db" \in Faults /\ FailTask(w, r) /\ UNCHANGED row
    /\ UNCHANGED <<cache, up, team, created, crashes, bypassed>>

FailInvalidate(w, r) ==
    /\ At(w, r, "failDel")
    /\ Invalidate(r)
    /\ FailTask(w, r)
    /\ UNCHANGED <<row, up, team, created, crashes>>

WorkerStep(w, r) ==
    \/ LoadRepository(w, r) \/ ResolveProvider(w, r)
    \/ MarkSyncing(w, r) \/ MarkInvalidate(w, r)
    \/ FetchProvider(w, r)
    \/ SaveSynced(w, r) \/ SaveInvalidate(w, r) \/ FinishSync(w, r)
    \/ RecordFailure(w, r) \/ FailInvalidate(w, r)

-----------------------------------------------------------------------------
(* RepositoryService, TeamService and the webhook processor *)

Begin(c, r, place, v) ==
    act' = [act EXCEPT ![c] = [at |-> place, repo |-> r, copy |-> v]]

Free(c, op) == Running(c) /\ act[c].at = "idle" /\ op \in Ops

\* CreateRepository: the row first, then the sync task.
CreateRepository(c, r, d) ==
    /\ Free(c, "create")
    /\ r \notin created
    /\ created' = created \cup {r}
    /\ Save(r, [status |-> "idle", desc |-> d, owner |-> NoTeam])
    /\ Begin(c, r, "enqueue", Absent)
    /\ UNCHANGED <<cache, queue, up, team, crashes, bypassed>>

\* TriggerSync up to the Enqueue; the throttled and already_syncing answers
\* change nothing.
TriggerSync(c, r) ==
    /\ Free(c, "trigger") /\ queue[r] < MaxTasks
    /\ CanSync(r)
    /\ Begin(c, r, "enqueue", Absent)
    /\ UNCHANGED <<row, cache, queue, up, team, created, crashes, bypassed>>

\* A push event: the webhook processor queues a sync without reading the row.
PushEvent(c, r) ==
    /\ Free(c, "push") /\ queue[r] < MaxTasks
    /\ r \in created
    /\ Begin(c, r, "enqueue", Absent)
    /\ UNCHANGED <<row, cache, queue, up, team, created, crashes, bypassed>>

\* Enqueue, whose failure leaves the caller's earlier writes in place.
Enqueue(c, r) ==
    /\ At(c, r, "enqueue")
    /\ Release(c)
    /\ \/ queue' = [queue EXCEPT ![r] = @ + 1]
       \/ "redis" \in Faults /\ UNCHANGED queue
    /\ UNCHANGED <<row, cache, up, team, created, crashes, bypassed>>

\* GetRepository, from a cache miss to the fill.
GetMiss(c, r) ==
    /\ Free(c, "get")
    /\ cache[r] = Absent
    /\ Begin(c, r, "get", Absent)
    /\ UNCHANGED <<row, cache, queue, up, team, created, crashes, bypassed>>

\* Mutant: the nil row of a repository that is not there goes on to the fill.
GetReadUnchecked(c, r) ==
    /\ At(c, r, "get")
    /\ GotoWith(c, "fill", Loaded(r))
    /\ UNCHANGED <<row, cache, queue, up, team, created, crashes, bypassed>>

GetRead(c, r) ==
    /\ At(c, r, "get")
    /\ \/ Loaded(r) # Absent /\ GotoWith(c, "fill", Loaded(r))
       \/ (Loaded(r) = Absent \/ "db" \in Faults) /\ Release(c)
    /\ UNCHANGED <<row, cache, queue, up, team, created, crashes, bypassed>>

GetFill(c, r) ==
    /\ At(c, r, "fill")
    /\ \/ /\ cache' = [cache EXCEPT ![r] = act[c].copy]
          /\ bypassed' = [bypassed EXCEPT ![r] = (act[c].copy # Loaded(r))]
       \/ "redis" \in Faults /\ UNCHANGED <<cache, bypassed>>
    /\ Release(c)
    /\ UNCHANGED <<row, queue, up, team, created, crashes>>

\* UpdateRepository: read, modify, write the whole row, invalidate.
EditRead(c, r, d) ==
    /\ Free(c, "edit")
    /\ Loaded(r) # Absent
    /\ Begin(c, r, "edit", [Loaded(r) EXCEPT !.desc = d])
    /\ UNCHANGED <<row, cache, queue, up, team, created, crashes, bypassed>>

\* Mutant: the update that leaves the cached response in place.
EditSaveOnly(c, r) ==
    /\ At(c, r, "edit")
    /\ Save(r, act[c].copy)
    /\ Release(c)
    /\ UNCHANGED <<cache, queue, up, team, created, crashes, bypassed>>

EditSave(c, r) ==
    /\ At(c, r, "edit")
    /\ \/ Save(r, act[c].copy) /\ Goto(c, "editDel")
       \/ "db" \in Faults /\ Release(c) /\ UNCHANGED row
    /\ UNCHANGED <<cache, queue, up, team, created, crashes, bypassed>>

\* DeleteRepository: read, delete, invalidate.  The model's deleted_at is a
\* plain *time.Time, which GORM does not treat as a soft delete.
DeleteRead(c, r) ==
    /\ Free(c, "delete")
    /\ Loaded(r) # Absent
    /\ Begin(c, r, "delete", Absent)
    /\ UNCHANGED <<row, cache, queue, up, team, created, crashes, bypassed>>

DeleteRow(c, r) ==
    /\ At(c, r, "delete")
    /\ \/ Save(r, Absent) /\ Goto(c, "deleteDel")
       \/ "db" \in Faults /\ Release(c) /\ UNCHANGED row
    /\ UNCHANGED <<cache, queue, up, team, created, crashes, bypassed>>

RequestInvalidate(c, r) ==
    /\ At(c, r, "editDel") \/ At(c, r, "deleteDel")
    /\ Invalidate(r)
    /\ Release(c)
    /\ UNCHANGED <<row, queue, up, team, created, crashes>>

\* SetRepositoryOwner: the repository and the team are checked, then the one
\* column is updated where the row still exists.  The cache is not touched.
OwnRead(c, r, t) ==
    /\ Free(c, "own")
    /\ Loaded(r) # Absent
    /\ t \in team \cup {NoTeam}
    /\ Begin(c, r, "own", [Loaded(r) EXCEPT !.owner = t])
    /\ UNCHANGED <<row, cache, queue, up, team, created, crashes, bypassed>>

OwnUpdate(c, r) ==
    /\ At(c, r, "own")
    /\ \/ /\ row[r] # Absent
          /\ Save(r, [row[r] EXCEPT !.owner = act[c].copy.owner])
          /\ Bypass({r})
       \/ /\ row[r] = Absent \/ "db" \in Faults
          /\ UNCHANGED <<row, bypassed>>
    /\ Release(c)
    /\ UNCHANGED <<cache, queue, up, team, created, crashes>>

\* DeleteTeam: one transaction soft-deletes the team and releases its rows.
DeleteTeam(c, t) ==
    /\ Free(c, "dropteam")
    /\ t \in team
    /\ team' = team \ {t}
    /\ row' = [r \in Repos |->
                 IF row[r] # Absent /\ row[r].owner = t
                 THEN [row[r] EXCEPT !.owner = NoTeam] ELSE row[r]]
    /\ Bypass({r \in Repos : row[r] # Absent /\ row[r].owner = t})
    /\ UNCHANGED <<cache, queue, act, up, created, crashes>>

RequestStart(c, r) ==
    \/ \E d \in Descs : CreateRepository(c, r, d) \/ EditRead(c, r, d)
    \/ TriggerSync(c, r) \/ PushEvent(c, r)
    \/ GetMiss(c, r) \/ DeleteRead(c, r)
    \/ \E t \in Teams \cup {NoTeam} : OwnRead(c, r, t)

RequestStep(c, r) ==
    \/ Enqueue(c, r) \/ GetRead(c, r) \/ GetFill(c, r)
    \/ EditSave(c, r) \/ DeleteRow(c, r) \/ RequestInvalidate(c, r)
    \/ OwnUpdate(c, r)

-----------------------------------------------------------------------------
(* The environment: the cache's TTL, crashes and restarts *)

CacheExpire(r) ==
    /\ cache[r] # Absent
    /\ Drop(r)
    /\ UNCHANGED <<row, queue, act, up, team, created, crashes>>

\* A row was written and the matching Cache.Del has not run yet.
PendingPlaces == {"markDel", "saveDel", "failDel", "editDel", "deleteDel"}
InvalidationPending(a, r) == act[a].repo = r /\ act[a].at \in PendingPlaces

\* The sync tasks process p is running on r.
TasksIn(p, r) == {w \in Workers : ProcOf[w] = p /\ act[w].repo = r}

\* A process dies: its requests and handlers stop where they are, and asynq
\* queues the tasks it was running again once their leases expire.
Crash(p) ==
    /\ up[p] /\ crashes < MaxCrashes
    /\ crashes' = crashes + 1
    /\ up' = [up EXCEPT ![p] = FALSE]
    /\ act' = [a \in Actors |-> IF ProcOf[a] = p THEN Idle ELSE act[a]]
    /\ queue' = [r \in Repos |-> queue[r] + Cardinality(TasksIn(p, r))]
    /\ Bypass({r \in Repos : \E a \in Actors :
                   ProcOf[a] = p /\ InvalidationPending(a, r)})
    /\ UNCHANGED <<row, cache, team, created>>

\* Mutants: the reset without its WHERE clause, and no reset at all.
EveryRow == {r \in Repos : Status(r) # "absent"}
NoRows == {}

\* ResetStaleSyncingRepositories: every row in "syncing", whoever syncs it.
StaleRows == {r \in Repos : Status(r) = "syncing"}

\* Boot: reset and re-enqueue, before this process's worker runs.  A failed
\* reset or a failed re-enqueue is only logged.
Restart(p) ==
    /\ ~up[p]
    /\ up' = [up EXCEPT ![p] = TRUE]
    /\ \/ /\ row' = [r \in Repos |-> IF r \in StaleRows
                                      THEN [row[r] EXCEPT !.status = "idle"]
                                      ELSE row[r]]
          /\ Bypass(StaleRows)
          /\ \E sent \in SUBSET StaleRows :
                /\ sent = StaleRows \/ "redis" \in Faults
                /\ queue' = [r \in Repos |-> IF r \in sent THEN queue[r] + 1
                                                          ELSE queue[r]]
       \/ /\ "db" \in Faults
          /\ UNCHANGED <<row, queue, bypassed>>
    /\ UNCHANGED <<cache, act, team, created, crashes>>

-----------------------------------------------------------------------------
Next ==
    \/ \E w \in Workers, r \in Repos : TaskStart(w, r) \/ WorkerStep(w, r)
    \/ \E c \in Clients, r \in Repos : RequestStart(c, r) \/ RequestStep(c, r)
    \/ \E c \in Clients, t \in Teams : DeleteTeam(c, t)
    \/ \E r \in Repos : CacheExpire(r)
    \/ \E p \in Procs : Crash(p) \/ Restart(p)

Spec == Init /\ [][Next]_vars

\* asynq dispatches waiting tasks to free workers and runs their handlers to the
\* end (every provider call has an HTTP timeout); a dead process is started again.
Fairness ==
    /\ \A w \in Workers : /\ WF_vars(\E r \in Repos : TaskStart(w, r))
                          /\ WF_vars(\E r \in Repos : WorkerStep(w, r))
    /\ \A p \in Procs : WF_vars(Restart(p))

FairSpec == Spec /\ Fairness

-----------------------------------------------------------------------------
(* Properties *)

\* Worker w has marked r "syncing", or is about to record a failure, and has
\* yet to write the status that ends its sync.
WillFinish(w, r) ==
    act[w].repo = r /\ act[w].at \in {"markDel", "sync", "save", "fail"}

\* What the already_syncing answer of TriggerSync promises
\* (repository_service.go:133): a row reads "syncing" only while a worker is
\* going to end it, or while the process that was syncing it waits to be
\* restarted.
SyncingIsRunning ==
    \A r \in Repos : Status(r) = "syncing" =>
        \/ \E w \in Workers : WillFinish(w, r)
        \/ \E p \in Procs : ~up[p]

\* What persist is for (sync_service.go:224-232): a cached response that is not
\* what a read would show now has an invalidation on its way, or was outdated by
\* a write that never invalidates (ownership, startup reset), a crash before the
\* invalidation, an invalidation that failed, or a fill that overlapped a write.  A status the sync wrote is
\* never what the cache silently misses.
StaleOnlyIfBypassed ==
    \A r \in Repos : cache[r] \notin {Absent, Loaded(r)} =>
        \/ \E a \in Actors : InvalidationPending(a, r)
        \/ bypassed[r]

\* The state of SyncLifecycle that a state of this module shows.
Lifecycle == INSTANCE SyncLifecycle WITH
    status <- [r \in Repos |-> Status(r)],
    running <- [r \in Repos |-> {w \in Workers : WillFinish(w, r)}],
    interrupted <- (\E p \in Procs : ~up[p])

\* The documented life of sync_status (README.md:45), as SyncLifecycle states it:
\* with one process, no UpdateRepository request and a database that answers,
\* every step of the workers, requests, crashes and restarts is one of its steps.
ImplementsLifecycle == Lifecycle!Spec

\* Every sync ends: a row does not stay "syncing".
SyncingEnds ==
    \A r \in Repos : Status(r) = "syncing" ~> Status(r) # "syncing"

\* A repository that is waiting with a task in the queue gets an outcome.
QueuedIsSynced ==
    \A r \in Repos :
        (Status(r) = "idle" /\ queue[r] > 0) ~> Status(r) \in {"synced", "error", "absent"}
=============================================================================

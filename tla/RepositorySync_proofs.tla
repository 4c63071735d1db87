------------------------ MODULE RepositorySync_proofs ------------------------
(***************************************************************************)
(* Proofs about RepositorySync, for every set of repositories, workers,    *)
(* requests, processes and faults; about Schema, for every set of          *)
(* processes, migrations, tables of secrets and keys; and about            *)
(* OnboardingContent, for every set of steps, things they name and         *)
(* requests.                                                               *)
(***************************************************************************)
EXTENDS RepositorySync, SchemaTables, ContentTables, FiniteSetTheorems, SequenceTheorems, WellFoundedInduction,
        NaturalsInduction, TLAPS

CONSTANTS Rerunnable, Releases, Tooling, HexRows, Keys, MaxStarts,
          Created, OrgTeams, Docs, People, Me, Lists, DocTypes, MaxSaves

M == INSTANCE Schema
O == INSTANCE OnboardingContent WITH Teams <- OrgTeams

-----------------------------------------------------------------------------
(* Type correctness *)

\* What a read returns is a row exactly when there is one, and it carries the
\* row's status.
LEMMA LoadedRow ==
    ASSUME StoresOK, NEW r \in Repos
    PROVE  /\ Loaded(r) \in Row \cup {Absent}
           /\ row[r] # Absent => Loaded(r) \in Row /\ Loaded(r).status = row[r].status
           /\ Loaded(r) = Absent <=> row[r] = Absent
BY AbsentAssumption DEF Loaded, Shown, StoresOK, Row

\* An actor that becomes a well-formed one, or moves on with a proper copy.
LEMMA ActorBecomes ==
    ASSUME ActorsOK, NEW a \in Actors, NEW s \in ActorState,
           s.at \in HoldingPlaces => s.copy \in Row,
           act' = [act EXCEPT ![a] = s]
    PROVE  ActorsOK'
BY DEF ActorsOK

LEMMA ActorReleased ==
    ASSUME ActorsOK, NEW a \in Actors, Release(a)
    PROVE  ActorsOK'
<1>1. Idle \in ActorState /\ Idle.at \notin HoldingPlaces
  BY DEF Idle, ActorState, HoldingPlaces
<1> QED BY <1>1, ActorBecomes DEF Release

LEMMA ActorMoves ==
    ASSUME ActorsOK, NEW a \in Actors, NEW place \in WorkerPlaces \cup ClientPlaces,
           NEW v \in Row \cup {Absent},
           place \in HoldingPlaces => v \in Row,
           GotoWith(a, place, v)
    PROVE  ActorsOK'
<1> DEFINE s == [at |-> place, repo |-> act[a].repo, copy |-> v]
<1>1. s \in ActorState /\ (s.at \in HoldingPlaces => s.copy \in Row)
  BY DEF ActorsOK, ActorState
<1>2. act' = [act EXCEPT ![a] = s]
  BY DEF GotoWith
<1> QED BY <1>1, <1>2, ActorBecomes

LEMMA ActorBegins ==
    ASSUME ActorsOK, NEW a \in Actors, NEW place \in WorkerPlaces \cup ClientPlaces,
           NEW r \in Repos, NEW v \in Row \cup {Absent},
           place \in HoldingPlaces => v \in Row,
           Begin(a, r, place, v)
    PROVE  ActorsOK'
<1> DEFINE s == [at |-> place, repo |-> r, copy |-> v]
<1>1. s \in ActorState /\ (s.at \in HoldingPlaces => s.copy \in Row)
  BY DEF ActorState
<1>2. act' = [act EXCEPT ![a] = s]
  BY DEF Begin
<1> QED BY <1>1, <1>2, ActorBecomes

\* The copy of an actor at a place that needs one is a row, and stays one when
\* its status is replaced.
LEMMA HeldCopy ==
    ASSUME ActorsOK, NEW a \in Actors, act[a].at \in HoldingPlaces
    PROVE  /\ act[a].copy \in Row
           /\ \A st \in Statuses : [act[a].copy EXCEPT !.status = st] \in Row
BY DEF ActorsOK, Row

LEMMA InitType == Init => TypeOK
<1> SUFFICES ASSUME Init PROVE TypeOK
  OBVIOUS
<1>1. Idle \in ActorState /\ Idle.at \notin HoldingPlaces
  BY DEF Idle, ActorState, HoldingPlaces
<1> QED BY <1>1, ConstantsAssumption DEF Init, TypeOK, ActorsOK, StoresOK

\* What an invalidation does, whether or not Redis answers.
LEMMA InvalidateEffect ==
    ASSUME StoresOK, NEW r \in Repos, Invalidate(r)
    PROVE  /\ cache' \in [Repos -> Row \cup {Absent}]
           /\ bypassed' \in [Repos -> BOOLEAN]
           /\ \A q \in Repos \ {r} : cache'[q] = cache[q] /\ bypassed'[q] = bypassed[q]
           /\ cache'[r] = Absent \/ (cache'[r] = cache[r] /\ bypassed'[r])
<1>1. CASE Drop(r)
  BY <1>1 DEF Drop, StoresOK
<1>2. CASE Bypass({r}) /\ UNCHANGED cache
  <2>1. \A q \in Repos : bypassed'[q] \in BOOLEAN
    BY <1>2 DEF Bypass, StoresOK
  <2>2. bypassed' \in [Repos -> BOOLEAN]
    BY <1>2, <2>1 DEF Bypass
  <2>3. \A q \in Repos \ {r} : bypassed'[q] = bypassed[q]
    BY <1>2 DEF Bypass, StoresOK
  <2>4. cache'[r] = Absent \/ bypassed'[r]
    BY <1>2 DEF Bypass
  <2> QED BY <1>2, <2>2, <2>3, <2>4 DEF StoresOK
<1> QED BY <1>1, <1>2 DEF Invalidate

\* The steps of a worker keep the types.
LEMMA WorkerType ==
    ASSUME TypeOK, NEW w \in Workers, NEW r \in Repos,
           TaskStart(w, r) \/ WorkerStep(w, r)
    PROVE  TypeOK'
<1>0. w \in Actors /\ ActorsOK /\ StoresOK
  BY DEF Actors, TypeOK
<1>s. /\ {"resolve", "mark", "markDel", "sync", "save", "fail"} \subseteq HoldingPlaces
      /\ HoldingPlaces \subseteq WorkerPlaces \cup ClientPlaces
      /\ {"load", "saveDel", "tail", "failDel"} \subseteq WorkerPlaces \ HoldingPlaces
      /\ {"syncing", "synced", "error"} \subseteq Statuses
  BY DEF HoldingPlaces, WorkerPlaces, ClientPlaces, Statuses
<1>1. CASE TaskStart(w, r)
  <2>1. ActorsOK'
    BY <1>0, <1>1, <1>s, ActorBegins DEF TaskStart, Begin
  <2>2. StoresOK'
    BY <1>0, <1>1 DEF TaskStart, StoresOK
  <2> QED BY <2>1, <2>2 DEF TypeOK
<1>2. CASE LoadRepository(w, r)
  <2>1. CanSync(r) => Loaded(r) \in Row
    BY <1>0, LoadedRow DEF CanSync, Status
  <2>2. ActorsOK'
    BY <1>0, <1>2, <1>s, <2>1, ActorMoves, ActorReleased DEF LoadRepository, FailTask
  <2>3. StoresOK'
    BY <1>0, <1>2 DEF LoadRepository, FailTask, StoresOK
  <2> QED BY <2>2, <2>3 DEF TypeOK
<1>3. CASE ResolveProvider(w, r)
  <2>1. /\ act[w].copy \in Row
        /\ \A st \in Statuses : [act[w].copy EXCEPT !.status = st] \in Row
    BY <1>0, <1>3, <1>s, HeldCopy DEF ResolveProvider, At
  <2>2. ActorsOK'
    BY <1>0, <1>3, <1>s, <2>1, ActorMoves DEF ResolveProvider
  <2>3. StoresOK'
    BY <1>0, <1>3, <2>1 DEF ResolveProvider, StoresOK
  <2> QED BY <2>2, <2>3 DEF TypeOK
<1>4. CASE MarkSyncing(w, r)
  <2>1. act[w].copy \in Row
    BY <1>0, <1>4, <1>s, HeldCopy DEF MarkSyncing, At
  <2>2. ActorsOK'
    BY <1>0, <1>4, <1>s, <2>1, ActorMoves DEF MarkSyncing, Goto
  <2>3. StoresOK'
    BY <1>0, <1>4, <2>1 DEF MarkSyncing, Save, StoresOK
  <2> QED BY <2>2, <2>3 DEF TypeOK
<1>5. CASE MarkInvalidate(w, r)
  <2>1. act[w].copy \in Row
    BY <1>0, <1>5, <1>s, HeldCopy DEF MarkInvalidate, At
  <2>2. ActorsOK'
    BY <1>0, <1>5, <1>s, <2>1, ActorMoves DEF MarkInvalidate, Goto
  <2>3. StoresOK'
    BY <1>0, <1>5, InvalidateEffect DEF MarkInvalidate, StoresOK
  <2> QED BY <2>2, <2>3 DEF TypeOK
<1>6. CASE FetchProvider(w, r)
  <2>1. /\ act[w].copy \in Row
        /\ \A st \in Statuses : [act[w].copy EXCEPT !.status = st] \in Row
    BY <1>0, <1>6, <1>s, HeldCopy DEF FetchProvider, At
  <2>2. ActorsOK'
    BY <1>0, <1>6, <1>s, <2>1, ActorMoves DEF FetchProvider
  <2>3. StoresOK'
    BY <1>0, <1>6, <2>1 DEF FetchProvider, StoresOK
  <2> QED BY <2>2, <2>3 DEF TypeOK
<1>7. CASE SaveSynced(w, r)
  <2>1. /\ act[w].copy \in Row
        /\ \A st \in Statuses : [act[w].copy EXCEPT !.status = st] \in Row
    BY <1>0, <1>7, <1>s, HeldCopy DEF SaveSynced, At
  <2>2. ActorsOK'
    BY <1>0, <1>7, <1>s, <2>1, ActorMoves DEF SaveSynced, Goto
  <2>3. StoresOK'
    BY <1>0, <1>7, <2>1 DEF SaveSynced, Save, StoresOK
  <2> QED BY <2>2, <2>3 DEF TypeOK
<1>8. CASE SaveInvalidate(w, r)
  <2>1. ActorsOK'
    BY <1>0, <1>8, <1>s, ActorMoves DEF SaveInvalidate
  <2>2. StoresOK'
    BY <1>0, <1>8, InvalidateEffect DEF SaveInvalidate, StoresOK
  <2> QED BY <2>1, <2>2 DEF TypeOK
<1>9. CASE RecordFailure(w, r)
  <2>1. act[w].copy \in Row
    BY <1>0, <1>9, <1>s, HeldCopy DEF RecordFailure, At
  <2>2. ActorsOK'
    BY <1>0, <1>9, <1>s, <2>1, ActorMoves, ActorReleased DEF RecordFailure, Goto, FailTask
  <2>3. StoresOK'
    BY <1>0, <1>9, <2>1 DEF RecordFailure, FailTask, Save, StoresOK
  <2> QED BY <2>2, <2>3 DEF TypeOK
<1>10. CASE FailInvalidate(w, r)
  <2>1. ActorsOK'
    BY <1>0, <1>10, <1>s, ActorReleased DEF FailInvalidate, FailTask
  <2>2. StoresOK'
    BY <1>0, <1>10, InvalidateEffect DEF FailInvalidate, FailTask, StoresOK
  <2> QED BY <2>1, <2>2 DEF TypeOK
<1>11. CASE FinishSync(w, r)
  <2>1. ActorsOK'
    BY <1>0, <1>11, ActorReleased DEF FinishSync
  <2>2. StoresOK'
    BY <1>0, <1>11 DEF FinishSync, StoresOK
  <2> QED BY <2>1, <2>2 DEF TypeOK
<1> QED
  BY <1>1, <1>2, <1>3, <1>4, <1>5, <1>6, <1>7, <1>8, <1>9, <1>10, <1>11 DEF WorkerStep

\* The steps of a request keep the types.
LEMMA RequestType ==
    ASSUME TypeOK, NEW c \in Clients, NEW r \in Repos,
           RequestStart(c, r) \/ RequestStep(c, r)
    PROVE  TypeOK'
<1>0. c \in Actors /\ ActorsOK /\ StoresOK
  BY DEF Actors, TypeOK
<1>s. /\ {"fill", "edit", "own"} \subseteq HoldingPlaces
      /\ HoldingPlaces \subseteq WorkerPlaces \cup ClientPlaces
      /\ {"enqueue", "get", "delete", "editDel", "deleteDel"}
            \subseteq ClientPlaces \ HoldingPlaces
      /\ "idle" \in Statuses
  BY DEF HoldingPlaces, WorkerPlaces, ClientPlaces, Statuses
<1>l. /\ Loaded(r) \in Row \cup {Absent}
      /\ Loaded(r) # Absent => Loaded(r) \in Row
  BY <1>0, LoadedRow
<1>1. CASE \E d \in Descs : CreateRepository(c, r, d)
  <2>1. ActorsOK'
    BY <1>0, <1>s, <1>1, ActorBegins DEF CreateRepository
  <2>2. StoresOK'
    BY <1>0, <1>s, <1>1, ConstantsAssumption DEF CreateRepository, Save, StoresOK, Row, Statuses
  <2> QED BY <2>1, <2>2 DEF TypeOK
<1>2. CASE \E d \in Descs : EditRead(c, r, d)
  <2>1. \A d \in Descs : Loaded(r) # Absent => [Loaded(r) EXCEPT !.desc = d] \in Row
    BY <1>l DEF Row
  <2>2. ActorsOK'
    BY <1>0, <1>s, <1>2, <2>1, ActorBegins DEF EditRead
  <2>3. StoresOK'
    BY <1>0, <1>s, <1>2 DEF EditRead, StoresOK
  <2> QED BY <2>2, <2>3 DEF TypeOK
<1>3. CASE TriggerSync(c, r)
  <2>1. ActorsOK'
    BY <1>0, <1>s, <1>3, ActorBegins DEF TriggerSync
  <2>2. StoresOK'
    BY <1>0, <1>s, <1>3 DEF TriggerSync, StoresOK
  <2> QED BY <2>1, <2>2 DEF TypeOK
<1>4. CASE PushEvent(c, r)
  <2>1. ActorsOK'
    BY <1>0, <1>s, <1>4, ActorBegins DEF PushEvent
  <2>2. StoresOK'
    BY <1>0, <1>s, <1>4 DEF PushEvent, StoresOK
  <2> QED BY <2>1, <2>2 DEF TypeOK
<1>5. CASE GetMiss(c, r)
  <2>1. ActorsOK'
    BY <1>0, <1>s, <1>5, ActorBegins DEF GetMiss
  <2>2. StoresOK'
    BY <1>0, <1>s, <1>5 DEF GetMiss, StoresOK
  <2> QED BY <2>1, <2>2 DEF TypeOK
<1>6. CASE DeleteRead(c, r)
  <2>1. ActorsOK'
    BY <1>0, <1>s, <1>6, ActorBegins DEF DeleteRead
  <2>2. StoresOK'
    BY <1>0, <1>s, <1>6 DEF DeleteRead, StoresOK
  <2> QED BY <2>1, <2>2 DEF TypeOK
<1>7. CASE \E t \in Teams \cup {NoTeam} : OwnRead(c, r, t)
  <2>1. \A t \in Teams \cup {NoTeam} : Loaded(r) # Absent => [Loaded(r) EXCEPT !.owner = t] \in Row
    BY <1>l DEF Row
  <2>2. ActorsOK'
    BY <1>0, <1>s, <1>7, <2>1, ActorBegins DEF OwnRead
  <2>3. StoresOK'
    BY <1>0, <1>s, <1>7 DEF OwnRead, StoresOK
  <2> QED BY <2>2, <2>3 DEF TypeOK
<1>8. CASE Enqueue(c, r)
  <2>1. ActorsOK'
    BY <1>0, <1>s, <1>8, ActorReleased DEF Enqueue
  <2>2. StoresOK'
    BY <1>0, <1>s, <1>8 DEF Enqueue, StoresOK
  <2> QED BY <2>1, <2>2 DEF TypeOK
<1>9. CASE GetRead(c, r)
  <2>1. ActorsOK'
    BY <1>0, <1>s, <1>9, <1>l, ActorReleased, ActorMoves DEF GetRead
  <2>2. StoresOK'
    BY <1>0, <1>s, <1>9 DEF GetRead, StoresOK
  <2> QED BY <2>1, <2>2 DEF TypeOK
<1>10. CASE GetFill(c, r)
  <2>1. act[c].copy \in Row
    BY <1>0, <1>s, <1>10, HeldCopy DEF GetFill, At
  <2>2. ActorsOK'
    BY <1>0, <1>s, <1>10, ActorReleased DEF GetFill
  <2>3. StoresOK'
    BY <1>0, <1>s, <1>10, <2>1 DEF GetFill, StoresOK
  <2> QED BY <2>2, <2>3 DEF TypeOK
<1>11. CASE EditSave(c, r)
  <2>1. act[c].copy \in Row
    BY <1>0, <1>s, <1>11, HeldCopy DEF EditSave, At
  <2>2. ActorsOK'
    BY <1>0, <1>s, <1>11, <2>1, ActorReleased, ActorMoves DEF EditSave, Goto
  <2>3. StoresOK'
    BY <1>0, <1>s, <1>11, <2>1 DEF EditSave, Save, StoresOK
  <2> QED BY <2>2, <2>3 DEF TypeOK
<1>12. CASE DeleteRow(c, r)
  <2>1. act[c].copy \in Row \cup {Absent}
    BY <1>0, <1>s, <1>12 DEF ActorsOK, ActorState
  <2>2. ActorsOK'
    BY <1>0, <1>s, <1>12, <2>1, ActorReleased, ActorMoves DEF DeleteRow, Goto
  <2>3. StoresOK'
    BY <1>0, <1>s, <1>12 DEF DeleteRow, Save, StoresOK
  <2> QED BY <2>2, <2>3 DEF TypeOK
<1>13. CASE RequestInvalidate(c, r)
  <2>1. ActorsOK'
    BY <1>0, <1>s, <1>13, ActorReleased DEF RequestInvalidate
  <2>2. StoresOK'
    BY <1>0, <1>13, InvalidateEffect DEF RequestInvalidate, StoresOK
  <2> QED BY <2>1, <2>2 DEF TypeOK
<1>14. CASE OwnUpdate(c, r)
  <2>1. act[c].copy \in Row /\ act[c].copy.owner \in Teams \cup {NoTeam}
    BY <1>0, <1>s, <1>14, HeldCopy DEF OwnUpdate, At, Row
  <2>2. row[r] # Absent => [row[r] EXCEPT !.owner = act[c].copy.owner] \in Row
    BY <1>0, <2>1 DEF StoresOK, Row
  <2>3. ActorsOK'
    BY <1>0, <1>s, <1>14, ActorReleased DEF OwnUpdate
  <2>4. StoresOK'
    BY <1>0, <1>s, <1>14, <2>2 DEF OwnUpdate, Save, Bypass, StoresOK
  <2> QED BY <2>3, <2>4 DEF TypeOK
<1> QED
  BY <1>1, <1>2, <1>3, <1>4, <1>5, <1>6, <1>7, <1>8, <1>9, <1>10, <1>11, <1>12, <1>13, <1>14
     DEF RequestStart, RequestStep

\* The steps of teams, the cache's clock and processes keep the types.
LEMMA EnvironmentType ==
    ASSUME TypeOK,
           \/ \E c \in Clients, t \in Teams : DeleteTeam(c, t)
           \/ \E r \in Repos : CacheExpire(r)
           \/ \E p \in Procs : Crash(p) \/ Restart(p)
    PROVE  TypeOK'
<1>0. ActorsOK /\ StoresOK
  BY DEF TypeOK
<1>1. ASSUME NEW c \in Clients, NEW t \in Teams, DeleteTeam(c, t) PROVE TypeOK'
  <2>1. \A r \in Repos : row[r] # Absent =>
           row[r] \in Row /\ [row[r] EXCEPT !.owner = NoTeam] \in Row
    BY <1>0 DEF StoresOK, Row
  <2>2. row' \in [Repos -> Row \cup {Absent}]
    BY <1>0, <1>1, <2>1 DEF DeleteTeam, StoresOK
  <2> QED BY <1>0, <1>1, <2>2 DEF DeleteTeam, Bypass, StoresOK, ActorsOK, TypeOK
<1>2. ASSUME NEW r \in Repos, CacheExpire(r) PROVE TypeOK'
  BY <1>0, <1>2 DEF CacheExpire, Drop, StoresOK, ActorsOK, TypeOK
<1>3. ASSUME NEW p \in Procs, Crash(p) PROVE TypeOK'
  <2>1. \A r \in Repos : Cardinality(TasksIn(p, r)) \in Nat
    BY ConstantsAssumption, FS_Subset, FS_CardinalityType DEF TasksIn
  <2>2. Idle \in ActorState /\ Idle.at \notin HoldingPlaces
    BY DEF Idle, ActorState, HoldingPlaces
  <2>3. ActorsOK'
    BY <1>0, <1>3, <2>2 DEF Crash, ActorsOK
  <2>4. StoresOK'
    <3>1. queue' \in [Repos -> Nat]
      BY <1>0, <1>3, <2>1 DEF Crash, StoresOK
    <3>2. crashes' \in 0..MaxCrashes
      BY <1>0, <1>3, ConstantsAssumption DEF Crash, StoresOK
    <3> QED BY <1>0, <1>3, <3>1, <3>2 DEF Crash, Bypass, StoresOK
  <2> QED BY <2>3, <2>4 DEF TypeOK
<1>4. ASSUME NEW p \in Procs, Restart(p) PROVE TypeOK'
  <2>1. \A r \in StaleRows : row[r] \in Row /\ [row[r] EXCEPT !.status = "idle"] \in Row
    BY <1>0 DEF StaleRows, Status, StoresOK, Row, Statuses
  <2>2. row' \in [Repos -> Row \cup {Absent}]
    BY <1>0, <1>4, <2>1 DEF Restart, StoresOK
  <2>3. queue' \in [Repos -> Nat]
    BY <1>0, <1>4 DEF Restart, StoresOK
  <2> QED BY <1>0, <1>4, <2>2, <2>3 DEF Restart, Bypass, StoresOK, ActorsOK, TypeOK
<1> QED BY <1>1, <1>2, <1>3, <1>4

\* Every variable keeps its type in every reachable state: no handler stores a
\* missing row where a row is needed, and no queue length goes negative.
THEOREM TypeCorrect == Spec => []TypeOK
<1>1. TypeOK /\ [Next]_vars => TypeOK'
  <2> SUFFICES ASSUME TypeOK, [Next]_vars PROVE TypeOK'
    OBVIOUS
  <2>1. CASE Next
    BY <2>1, WorkerType, RequestType, EnvironmentType DEF Next
  <2>2. CASE UNCHANGED vars
    BY <2>2 DEF vars, TypeOK, StoresOK, ActorsOK
  <2> QED BY <2>1, <2>2
<1> QED BY <1>1, InitType, PTL DEF Spec

-----------------------------------------------------------------------------
(* The cache *)

LEMMA PendingDistinct ==
    PendingPlaces \cap {"idle", "load", "resolve", "mark", "sync", "save", "tail",
                        "fail", "enqueue", "get", "fill", "edit", "delete", "own"} = {}
BY DEF PendingPlaces

\* An actor that owes no invalidation moves, and nothing stored changes.
LEMMA QuietStep ==
    ASSUME TypeOK, StaleOnlyIfBypassed, NEW a \in Actors, NEW s,
           act' = [act EXCEPT ![a] = s], act[a].at \notin PendingPlaces,
           UNCHANGED <<row, cache, team, bypassed>>
    PROVE  StaleOnlyIfBypassed'
<1> SUFFICES ASSUME NEW r \in Repos, (cache[r] \notin {Absent, Loaded(r)})'
             PROVE  (\E b \in Actors : InvalidationPending(b, r))' \/ bypassed'[r]
  BY DEF StaleOnlyIfBypassed
<1>1. cache[r] \notin {Absent, Loaded(r)}
  BY DEF Loaded
<1>2. CASE bypassed[r]
  BY <1>2
<1>3. ASSUME NEW b \in Actors, InvalidationPending(b, r)
      PROVE  InvalidationPending(b, r)'
  BY <1>3 DEF InvalidationPending, TypeOK, ActorsOK
<1> QED BY <1>1, <1>2, <1>3 DEF StaleOnlyIfBypassed

\* A write of r whose author then owes the invalidation.
LEMMA WriteStep ==
    ASSUME TypeOK, StaleOnlyIfBypassed, NEW a \in Actors, NEW r \in Repos, NEW v,
           act[a].repo = r, act[a].at \notin PendingPlaces,
           NEW place \in PendingPlaces, NEW u, GotoWith(a, place, u),
           Save(r, v), UNCHANGED <<cache, team, bypassed>>
    PROVE  StaleOnlyIfBypassed'
<1> SUFFICES ASSUME NEW q \in Repos, (cache[q] \notin {Absent, Loaded(q)})'
             PROVE  (\E b \in Actors : InvalidationPending(b, q))' \/ bypassed'[q]
  BY DEF StaleOnlyIfBypassed
<1>1. CASE q = r
  <2>1. InvalidationPending(a, q)'
    BY <1>1 DEF InvalidationPending, GotoWith, TypeOK, ActorsOK
  <2> QED BY <2>1
<1>2. CASE q # r
  <2>1. cache[q] \notin {Absent, Loaded(q)}
    BY <1>2 DEF Loaded, Save, TypeOK, StoresOK
  <2>2. ASSUME NEW b \in Actors, InvalidationPending(b, q)
        PROVE  InvalidationPending(b, q)'
    BY <1>2, <2>2 DEF InvalidationPending, GotoWith, TypeOK, ActorsOK
  <2> QED BY <2>1, <2>2 DEF StaleOnlyIfBypassed
<1> QED BY <1>1, <1>2

\* The invalidation of r, by an actor working on r or by none.
LEMMA InvalidateStep ==
    ASSUME TypeOK, StaleOnlyIfBypassed, NEW r \in Repos, Invalidate(r),
           \A b \in Actors : act'[b] = act[b] \/ act[b].repo = r,
           UNCHANGED <<row, team>>
    PROVE  StaleOnlyIfBypassed'
<1> SUFFICES ASSUME NEW q \in Repos, (cache[q] \notin {Absent, Loaded(q)})'
             PROVE  (\E b \in Actors : InvalidationPending(b, q))' \/ bypassed'[q]
  BY DEF StaleOnlyIfBypassed
<1>1. CASE q = r
  BY <1>1, InvalidateEffect DEF TypeOK
<1>2. CASE q # r
  <2>1. cache[q] \notin {Absent, Loaded(q)} /\ bypassed'[q] = bypassed[q]
    BY <1>2, InvalidateEffect DEF Loaded, TypeOK
  <2>2. ASSUME NEW b \in Actors, InvalidationPending(b, q)
        PROVE  InvalidationPending(b, q)'
    BY <1>2, <2>2 DEF InvalidationPending
  <2> QED BY <2>1, <2>2 DEF StaleOnlyIfBypassed
<1> QED BY <1>1, <1>2

LEMMA WorkerCache ==
    ASSUME TypeOK, StaleOnlyIfBypassed, NEW w \in Workers, NEW r \in Repos,
           TaskStart(w, r) \/ WorkerStep(w, r)
    PROVE  StaleOnlyIfBypassed'
<1>0. w \in Actors
  BY DEF Actors
<1>p. /\ {"markDel", "saveDel", "failDel"} \subseteq PendingPlaces
      /\ \A b \in Actors : b = w \/ act'[b] = act[b]
  <2>1. {"markDel", "saveDel", "failDel"} \subseteq PendingPlaces
    BY DEF PendingPlaces
  <2> QED
    BY <2>1 DEF TaskStart, WorkerStep, LoadRepository, ResolveProvider, MarkSyncing,
         MarkInvalidate, FetchProvider, SaveSynced, SaveInvalidate, FinishSync, RecordFailure,
         FailInvalidate, FailTask, Goto, GotoWith, Release, TypeOK, ActorsOK
<1>1. CASE TaskStart(w, r)
  BY <1>0, <1>1, QuietStep, PendingDistinct DEF TaskStart
<1>2. CASE LoadRepository(w, r)
  BY <1>0, <1>2, QuietStep, PendingDistinct
     DEF LoadRepository, FailTask, Release, GotoWith, At
<1>3. CASE ResolveProvider(w, r)
  BY <1>0, <1>3, QuietStep, PendingDistinct DEF ResolveProvider, GotoWith, At
<1>4. CASE MarkSyncing(w, r)
  <2>1. CASE Save(r, act[w].copy) /\ Goto(w, "markDel")
    BY <1>0, <1>4, <1>p, <2>1, WriteStep, PendingDistinct DEF MarkSyncing, Goto, At
  <2>2. CASE Goto(w, "sync") /\ UNCHANGED row
    BY <1>0, <1>4, <2>2, QuietStep, PendingDistinct DEF MarkSyncing, Goto, GotoWith, At
  <2> QED BY <1>4, <2>1, <2>2 DEF MarkSyncing
<1>5. CASE MarkInvalidate(w, r)
  BY <1>5, <1>p, InvalidateStep DEF MarkInvalidate, At
<1>6. CASE FetchProvider(w, r)
  BY <1>0, <1>6, QuietStep, PendingDistinct DEF FetchProvider, GotoWith, At
<1>7. CASE SaveSynced(w, r)
  <2>1. CASE Save(r, act[w].copy) /\ Goto(w, "saveDel")
    BY <1>0, <1>7, <1>p, <2>1, WriteStep, PendingDistinct DEF SaveSynced, Goto, At
  <2>2. CASE GotoWith(w, "fail", [act[w].copy EXCEPT !.status = "error"]) /\ UNCHANGED row
    BY <1>0, <1>7, <2>2, QuietStep, PendingDistinct DEF SaveSynced, GotoWith, At
  <2> QED BY <1>7, <2>1, <2>2 DEF SaveSynced
<1>8. CASE SaveInvalidate(w, r)
  BY <1>8, <1>p, InvalidateStep DEF SaveInvalidate, At
<1>9. CASE RecordFailure(w, r)
  <2>1. CASE Save(r, act[w].copy) /\ Goto(w, "failDel")
    BY <1>0, <1>9, <1>p, <2>1, WriteStep, PendingDistinct DEF RecordFailure, Goto, At
  <2>2. CASE FailTask(w, r) /\ UNCHANGED row
    BY <1>0, <1>9, <2>2, QuietStep, PendingDistinct DEF RecordFailure, FailTask, Release, At
  <2> QED BY <1>9, <2>1, <2>2 DEF RecordFailure
<1>10. CASE FailInvalidate(w, r)
  BY <1>10, <1>p, InvalidateStep DEF FailInvalidate, At
<1>11. CASE FinishSync(w, r)
  BY <1>0, <1>11, QuietStep, PendingDistinct DEF FinishSync, Release, At
<1> QED
  BY <1>1, <1>2, <1>3, <1>4, <1>5, <1>6, <1>7, <1>8, <1>9, <1>10, <1>11 DEF WorkerStep

\* Nothing is known about a repository that was never created, except that
\* somebody may be looking it up.
Uncreated ==
    \A r \in Repos \ created :
        /\ row[r] = Absent /\ cache[r] = Absent /\ queue[r] = 0
        /\ \A a \in Actors : act[a].repo = r => a \in Clients /\ act[a].at = "get"

\* A step that touches one created repository.
LEMMA TouchCreated ==
    ASSUME Uncreated, NEW r, r \in created', created \subseteq created',
           \A q \in Repos \ {r} : /\ row'[q] = row[q]
                                  /\ cache'[q] \in {cache[q], Absent}
                                  /\ queue'[q] = queue[q],
           \A a \in Actors : act'[a] = act[a] \/ act'[a].repo \in {r, NoRepo}
    PROVE  Uncreated'
BY ConstantsAssumption DEF Uncreated

LEMMA WorkerUncreated ==
    ASSUME TypeOK, Uncreated, NEW w \in Workers, NEW r \in Repos,
           TaskStart(w, r) \/ WorkerStep(w, r)
    PROVE  Uncreated'
<1>0. w \in Actors
  BY DEF Actors
<1>1. r \in created /\ created' = created
  <2>1. CASE TaskStart(w, r)
    BY <2>1 DEF TaskStart, Uncreated, TypeOK, StoresOK
  <2>2. CASE WorkerStep(w, r)
    BY <1>0, <2>2 DEF WorkerStep, LoadRepository, ResolveProvider, MarkSyncing,
         MarkInvalidate, FetchProvider, SaveSynced, SaveInvalidate, FinishSync, RecordFailure,
         FailInvalidate, At, Uncreated
  <2> QED BY <2>1, <2>2
<1>2. \A q \in Repos \ {r} : /\ row'[q] = row[q]
                             /\ cache'[q] \in {cache[q], Absent}
                             /\ queue'[q] = queue[q]
  BY DEF TaskStart, WorkerStep, LoadRepository, ResolveProvider, MarkSyncing,
       MarkInvalidate, FetchProvider, SaveSynced, SaveInvalidate, FinishSync, RecordFailure,
       FailInvalidate, FailTask, Invalidate, Drop, Save, TypeOK, StoresOK
<1>3. \A a \in Actors : act'[a] = act[a] \/ act'[a].repo \in {r, NoRepo}
  BY <1>0 DEF TaskStart, WorkerStep, LoadRepository, ResolveProvider, MarkSyncing,
       MarkInvalidate, FetchProvider, SaveSynced, SaveInvalidate, FinishSync, RecordFailure,
       FailInvalidate, FailTask, Goto, GotoWith, Release, Idle, At, TypeOK, ActorsOK
<1> QED BY <1>1, <1>2, <1>3, TouchCreated

LEMMA RequestUncreated ==
    ASSUME TypeOK, Uncreated, NEW c \in Clients, NEW r \in Repos,
           RequestStart(c, r) \/ RequestStep(c, r)
    PROVE  Uncreated'
<1>0. c \in Actors
  BY DEF Actors
<1>1. CASE GetMiss(c, r)
  BY <1>0, <1>1 DEF GetMiss, Begin, Uncreated, TypeOK, ActorsOK
<1>2. CASE GetRead(c, r)
  <2>1. CASE Release(c)
    BY <1>0, <1>2, <2>1, ConstantsAssumption
       DEF GetRead, Release, Idle, Uncreated, TypeOK, ActorsOK
  <2>2. CASE Loaded(r) # Absent /\ GotoWith(c, "fill", Loaded(r))
    BY <1>0, <1>2, <2>2, LoadedRow
       DEF GetRead, GotoWith, At, Uncreated, TypeOK, ActorsOK
  <2> QED BY <1>2, <2>1, <2>2 DEF GetRead
<1>3. CASE \/ \E d \in Descs : CreateRepository(c, r, d) \/ EditRead(c, r, d)
           \/ TriggerSync(c, r) \/ PushEvent(c, r) \/ DeleteRead(c, r)
           \/ \E t \in Teams \cup {NoTeam} : OwnRead(c, r, t)
  <2>1. r \in created' /\ created \subseteq created'
    <3>1. Loaded(r) # Absent => r \in created
      BY LoadedRow DEF TypeOK, Uncreated
    <3>2. CanSync(r) => r \in created
      BY DEF CanSync, Status, Uncreated
    <3> QED
      BY <1>3, <3>1, <3>2 DEF CreateRepository, EditRead, TriggerSync, PushEvent,
           DeleteRead, OwnRead
  <2>2. \A q \in Repos \ {r} : /\ row'[q] = row[q]
                               /\ cache'[q] \in {cache[q], Absent}
                               /\ queue'[q] = queue[q]
    BY <1>3 DEF CreateRepository, EditRead, TriggerSync, PushEvent, DeleteRead,
         OwnRead, Save, TypeOK, StoresOK
  <2>3. \A a \in Actors : act'[a] = act[a] \/ act'[a].repo \in {r, NoRepo}
    <3>1. \E place, v : Begin(c, r, place, v)
      BY <1>3, Zenon DEF CreateRepository, EditRead, TriggerSync, PushEvent,
           DeleteRead, OwnRead
    <3> QED BY <1>0, <3>1 DEF Begin, TypeOK, ActorsOK
  <2> QED BY <2>1, <2>2, <2>3, TouchCreated
<1>4. CASE \/ Enqueue(c, r) \/ GetFill(c, r) \/ EditSave(c, r) \/ DeleteRow(c, r)
           \/ RequestInvalidate(c, r) \/ OwnUpdate(c, r)
  <2>1. r \in created /\ created' = created
    BY <1>0, <1>4 DEF Enqueue, GetFill, EditSave, DeleteRow, RequestInvalidate,
         OwnUpdate, At, Uncreated
  <2>2. \A q \in Repos \ {r} : /\ row'[q] = row[q]
                               /\ cache'[q] \in {cache[q], Absent}
                               /\ queue'[q] = queue[q]
    BY <1>4 DEF Enqueue, GetFill, EditSave, DeleteRow, RequestInvalidate, OwnUpdate,
         Save, Invalidate, Drop, TypeOK, StoresOK
  <2>3. \A a \in Actors : act'[a] = act[a] \/ act'[a].repo \in {r, NoRepo}
    BY <1>0, <1>4 DEF Enqueue, GetFill, EditSave, DeleteRow, RequestInvalidate,
         OwnUpdate, Goto, GotoWith, Release, Idle, At, TypeOK, ActorsOK
  <2> QED BY <2>1, <2>2, <2>3, TouchCreated
<1> QED BY <1>1, <1>2, <1>3, <1>4 DEF RequestStart, RequestStep

LEMMA EnvironmentUncreated ==
    ASSUME TypeOK, Uncreated,
           \/ \E c \in Clients, t \in Teams : DeleteTeam(c, t)
           \/ \E r \in Repos : CacheExpire(r)
           \/ \E p \in Procs : Crash(p) \/ Restart(p)
    PROVE  Uncreated'
<1>1. ASSUME NEW c \in Clients, NEW t \in Teams, DeleteTeam(c, t) PROVE Uncreated'
  BY <1>1 DEF DeleteTeam, Uncreated
<1>2. ASSUME NEW r \in Repos, CacheExpire(r) PROVE Uncreated'
  BY <1>2 DEF CacheExpire, Drop, Uncreated, TypeOK, StoresOK
<1>3. ASSUME NEW p \in Procs, Crash(p) PROVE Uncreated'
  <2>1. \A r \in Repos \ created : Cardinality(TasksIn(p, r)) = 0
    <3> SUFFICES ASSUME NEW r \in Repos \ created PROVE TasksIn(p, r) = {}
      BY FS_EmptySet
    <3> QED BY ConstantsAssumption DEF TasksIn, Uncreated, Actors
  <2> QED BY <1>3, <2>1, ConstantsAssumption DEF Crash, Idle, Uncreated
<1>4. ASSUME NEW p \in Procs, Restart(p) PROVE Uncreated'
  BY <1>4 DEF Restart, StaleRows, Status, Uncreated
<1> QED BY <1>1, <1>2, <1>3, <1>4

LEMMA RequestCache ==
    ASSUME TypeOK, Uncreated, StaleOnlyIfBypassed, NEW c \in Clients, NEW r \in Repos,
           RequestStart(c, r) \/ RequestStep(c, r)
    PROVE  StaleOnlyIfBypassed'
<1>0. c \in Actors
  BY DEF Actors
<1>p. {"editDel", "deleteDel"} \subseteq PendingPlaces
  BY DEF PendingPlaces
<1>1. ASSUME NEW d \in Descs, CreateRepository(c, r, d) PROVE StaleOnlyIfBypassed'
  <2> SUFFICES ASSUME NEW q \in Repos, (cache[q] \notin {Absent, Loaded(q)})'
               PROVE  (\E b \in Actors : InvalidationPending(b, q))' \/ bypassed'[q]
    BY DEF StaleOnlyIfBypassed
  <2>1. cache[r] = Absent
    BY <1>1 DEF CreateRepository, Uncreated
  <2>2. q # r /\ cache[q] \notin {Absent, Loaded(q)}
    BY <1>1, <2>1 DEF CreateRepository, Save, Loaded, TypeOK, StoresOK
  <2>3. ASSUME NEW b \in Actors, InvalidationPending(b, q)
        PROVE  InvalidationPending(b, q)'
    BY <1>1, <2>3, PendingDistinct
       DEF CreateRepository, Begin, Free, InvalidationPending, TypeOK, ActorsOK
  <2> QED BY <1>1, <2>2, <2>3 DEF CreateRepository, StaleOnlyIfBypassed
<1>2. CASE \/ \E d \in Descs : EditRead(c, r, d)
           \/ TriggerSync(c, r) \/ PushEvent(c, r) \/ GetMiss(c, r) \/ DeleteRead(c, r)
           \/ \E t \in Teams \cup {NoTeam} : OwnRead(c, r, t)
  <2>1. \E place, v : Begin(c, r, place, v)
    BY <1>2, Zenon DEF EditRead, TriggerSync, PushEvent, GetMiss, DeleteRead, OwnRead
  <2>2. act[c].at = "idle" /\ UNCHANGED <<row, cache, team, bypassed>>
    BY <1>2 DEF EditRead, TriggerSync, PushEvent, GetMiss, DeleteRead, OwnRead, Free
  <2> QED BY <1>0, <2>1, <2>2, QuietStep, PendingDistinct DEF Begin
<1>3. CASE Enqueue(c, r)
  BY <1>0, <1>3, QuietStep, PendingDistinct DEF Enqueue, Release, At
<1>4. CASE GetRead(c, r)
  BY <1>0, <1>4, QuietStep, PendingDistinct DEF GetRead, Release, GotoWith, At
<1>5. CASE GetFill(c, r)
  <2> SUFFICES ASSUME NEW q \in Repos, (cache[q] \notin {Absent, Loaded(q)})'
               PROVE  (\E b \in Actors : InvalidationPending(b, q))' \/ bypassed'[q]
    BY DEF StaleOnlyIfBypassed
  <2>1. CASE UNCHANGED <<cache, bypassed>>
    BY <1>0, <1>5, <2>1, QuietStep, PendingDistinct DEF GetFill, Release, At,
       StaleOnlyIfBypassed
  <2>3. CASE q = r /\ ~UNCHANGED <<cache, bypassed>>
    BY <1>5, <2>3 DEF GetFill, Loaded, TypeOK, StoresOK
  <2>2. CASE q # r
    <3>1. cache[q] \notin {Absent, Loaded(q)} /\ bypassed'[q] = bypassed[q]
      BY <1>5, <2>2 DEF GetFill, Loaded, TypeOK, StoresOK
    <3>2. ASSUME NEW b \in Actors, InvalidationPending(b, q)
          PROVE  InvalidationPending(b, q)'
      BY <1>5, <2>2, <3>2 DEF GetFill, Release, At, InvalidationPending, TypeOK, ActorsOK
    <3> QED BY <3>1, <3>2 DEF StaleOnlyIfBypassed
  <2> QED BY <2>1, <2>2, <2>3
<1>6. CASE EditSave(c, r)
  <2>1. CASE Save(r, act[c].copy) /\ Goto(c, "editDel")
    BY <1>0, <1>6, <1>p, <2>1, WriteStep, PendingDistinct DEF EditSave, Goto, At
  <2>2. CASE Release(c) /\ UNCHANGED row
    BY <1>0, <1>6, <2>2, QuietStep, PendingDistinct DEF EditSave, Release, At
  <2> QED BY <1>6, <2>1, <2>2 DEF EditSave
<1>7. CASE DeleteRow(c, r)
  <2>1. CASE Save(r, Absent) /\ Goto(c, "deleteDel")
    BY <1>0, <1>7, <1>p, <2>1, WriteStep, PendingDistinct DEF DeleteRow, Goto, At
  <2>2. CASE Release(c) /\ UNCHANGED row
    BY <1>0, <1>7, <2>2, QuietStep, PendingDistinct DEF DeleteRow, Release, At
  <2> QED BY <1>7, <2>1, <2>2 DEF DeleteRow
<1>8. CASE RequestInvalidate(c, r)
  <2>1. \A b \in Actors : act'[b] = act[b] \/ act[b].repo = r
    BY <1>8 DEF RequestInvalidate, Release, At, TypeOK, ActorsOK
  <2> QED BY <1>8, <2>1, InvalidateStep DEF RequestInvalidate
<1>9. CASE OwnUpdate(c, r)
  <2>1. CASE UNCHANGED <<row, bypassed>>
    BY <1>0, <1>9, <2>1, QuietStep, PendingDistinct DEF OwnUpdate, Release, At
  <2>2. CASE Save(r, [row[r] EXCEPT !.owner = act[c].copy.owner]) /\ Bypass({r})
    <3> SUFFICES ASSUME NEW q \in Repos, (cache[q] \notin {Absent, Loaded(q)})'
                 PROVE  (\E b \in Actors : InvalidationPending(b, q))' \/ bypassed'[q]
      BY DEF StaleOnlyIfBypassed
    <3>1. q = r => bypassed'[q]
      BY <1>9, <2>2 DEF OwnUpdate, Bypass
    <3>2. q # r => cache[q] \notin {Absent, Loaded(q)} /\ bypassed'[q] = bypassed[q]
      BY <1>9, <2>2 DEF OwnUpdate, Save, Bypass, Loaded, TypeOK, StoresOK
    <3>3. ASSUME NEW b \in Actors, InvalidationPending(b, q)
          PROVE  InvalidationPending(b, q)'
      BY <1>9, <3>3, PendingDistinct
         DEF OwnUpdate, Release, At, InvalidationPending, TypeOK, ActorsOK
    <3> QED BY <3>1, <3>2, <3>3 DEF StaleOnlyIfBypassed
  <2> QED BY <1>9, <2>1, <2>2 DEF OwnUpdate
<1> QED
  BY <1>1, <1>2, <1>3, <1>4, <1>5, <1>6, <1>7, <1>8, <1>9 DEF RequestStart, RequestStep

\* A step that loses no pending invalidation, or records that it does, and
\* records every row it outdates.
LEMMA RecordedStep ==
    ASSUME TypeOK, StaleOnlyIfBypassed, NEW S, Bypass(S), cache' = cache,
           \A r \in Repos \ S : Loaded(r)' = Loaded(r),
           \A r \in Repos \ S, a \in Actors :
               InvalidationPending(a, r) => InvalidationPending(a, r)'
    PROVE  StaleOnlyIfBypassed'
BY DEF Bypass, StaleOnlyIfBypassed

LEMMA EnvironmentCache ==
    ASSUME TypeOK, StaleOnlyIfBypassed,
           \/ \E c \in Clients, t \in Teams : DeleteTeam(c, t)
           \/ \E r \in Repos : CacheExpire(r)
           \/ \E p \in Procs : Crash(p) \/ Restart(p)
    PROVE  StaleOnlyIfBypassed'
<1>1. ASSUME NEW c \in Clients, NEW t \in Teams, DeleteTeam(c, t)
      PROVE  StaleOnlyIfBypassed'
  <2> DEFINE S == {r \in Repos : row[r] # Absent /\ row[r].owner = t}
  <2>1. \A r \in Repos \ S : Loaded(r)' = Loaded(r)
    <3> SUFFICES ASSUME NEW r \in Repos \ S PROVE Loaded(r)' = Loaded(r)
      OBVIOUS
    <3>1. row'[r] = row[r]
      BY <1>1 DEF DeleteTeam
    <3>2. CASE row[r] = Absent
      BY <3>1, <3>2 DEF Loaded, Shown
    <3>3. CASE row[r] # Absent
      BY <1>1, <3>1, <3>3 DEF DeleteTeam, Loaded, Shown
    <3> QED BY <3>2, <3>3
  <2> QED BY <1>1, <2>1, RecordedStep DEF DeleteTeam, InvalidationPending
<1>2. ASSUME NEW r \in Repos, CacheExpire(r) PROVE StaleOnlyIfBypassed'
  BY <1>2, InvalidateStep DEF CacheExpire, Invalidate
<1>3. ASSUME NEW p \in Procs, Crash(p) PROVE StaleOnlyIfBypassed'
  <2> DEFINE S == {r \in Repos : \E a \in Actors :
                      ProcOf[a] = p /\ InvalidationPending(a, r)}
  <2>1. \A r \in Repos \ S : Loaded(r)' = Loaded(r)
    BY <1>3 DEF Crash, Loaded
  <2>2. \A r \in Repos \ S, a \in Actors :
            InvalidationPending(a, r) => InvalidationPending(a, r)'
    BY <1>3 DEF Crash, InvalidationPending
  <2> QED BY <1>3, <2>1, <2>2, RecordedStep DEF Crash
<1>4. ASSUME NEW p \in Procs, Restart(p) PROVE StaleOnlyIfBypassed'
  <2>1. CASE Bypass(StaleRows)
    <3>1. \A r \in Repos \ StaleRows : Loaded(r)' = Loaded(r)
      BY <1>4 DEF Restart, Loaded, StaleRows
    <3> QED BY <1>4, <2>1, <3>1, RecordedStep DEF Restart, InvalidationPending
  <2>2. CASE UNCHANGED <<row, queue, bypassed>>
    BY <1>4, <2>2 DEF Restart, StaleOnlyIfBypassed, Loaded, InvalidationPending
  <2> QED BY <1>4, <2>1, <2>2 DEF Restart
<1> QED BY <1>1, <1>2, <1>3, <1>4

\* The cache misses no write the code invalidates for: a cached response that
\* differs from the row has its Del under way or was outdated by one of the
\* steps that record it.
THEOREM CacheCoherent == Spec => []StaleOnlyIfBypassed
<1> DEFINE Inv == TypeOK /\ Uncreated /\ StaleOnlyIfBypassed
<1>1. Init => Inv
  BY InitType, ConstantsAssumption DEF Init, Idle, Uncreated, StaleOnlyIfBypassed
<1>2. Inv /\ [Next]_vars => Inv'
  <2> SUFFICES ASSUME Inv, [Next]_vars PROVE Inv'
    OBVIOUS
  <2>1. CASE Next
    BY <2>1, WorkerType, WorkerUncreated, WorkerCache, RequestType, RequestUncreated,
       RequestCache, EnvironmentType, EnvironmentUncreated, EnvironmentCache DEF Next
  <2>2. CASE UNCHANGED vars
    BY <2>2 DEF vars, TypeOK, StoresOK, ActorsOK, Uncreated, StaleOnlyIfBypassed,
                Loaded, InvalidationPending
  <2> QED BY <2>1, <2>2
<1>3. Inv => StaleOnlyIfBypassed
  OBVIOUS
<1> QED BY <1>1, <1>2, <1>3, PTL DEF Spec

-----------------------------------------------------------------------------
(* The sync status, when no UpdateRepository request and no database failure *)
(* can write a status back                                                   *)

\* A worker that is going to write an outcome holds that outcome, and no
\* request holds a whole row to write back.
OutcomeHeld ==
    /\ \A w \in Workers : /\ act[w].at = "mark" => act[w].copy.status = "syncing"
                          /\ act[w].at = "save" => act[w].copy.status = "synced"
                          /\ act[w].at = "fail" => act[w].copy.status = "error"
    /\ \A c \in Clients : act[c].at # "edit"

Undisturbed == "edit" \notin Ops /\ "db" \notin Faults

LEMMA WorkerOutcome ==
    ASSUME Undisturbed, TypeOK, OutcomeHeld, NEW w \in Workers, NEW r \in Repos,
           TaskStart(w, r) \/ WorkerStep(w, r)
    PROVE  OutcomeHeld'
<1>0. w \in Actors /\ \A c \in Clients : c \in Actors /\ c # w
  BY ConstantsAssumption DEF Actors
<1>1. \A b \in Actors : b = w \/ act'[b] = act[b]
  BY DEF TaskStart, WorkerStep, LoadRepository, ResolveProvider, MarkSyncing,
       MarkInvalidate, FetchProvider, SaveSynced, SaveInvalidate, FinishSync, RecordFailure,
       FailInvalidate, FailTask, Goto, GotoWith, Release, TypeOK, ActorsOK
<1>2. /\ act'[w].at = "mark" => act'[w].copy.status = "syncing"
      /\ act'[w].at = "save" => act'[w].copy.status = "synced"
      /\ act'[w].at = "fail" => act'[w].copy.status = "error"
  <2>1. CASE ResolveProvider(w, r)
    <3>1. act[w].copy \in Row
      BY <1>0, <2>1, HeldCopy DEF ResolveProvider, At, HoldingPlaces, TypeOK
    <3> QED BY <1>0, <2>1, <3>1 DEF ResolveProvider, GotoWith, Row, TypeOK, ActorsOK
  <2>2. CASE FetchProvider(w, r)
    <3>1. act[w].copy \in Row
      BY <1>0, <2>2, HeldCopy DEF FetchProvider, At, HoldingPlaces, TypeOK
    <3> QED BY <1>0, <2>2, <3>1 DEF FetchProvider, GotoWith, Row, TypeOK, ActorsOK
  <2>3. CASE TaskStart(w, r) \/ LoadRepository(w, r) \/ MarkSyncing(w, r)
             \/ MarkInvalidate(w, r) \/ SaveSynced(w, r) \/ SaveInvalidate(w, r)
             \/ FinishSync(w, r) \/ RecordFailure(w, r) \/ FailInvalidate(w, r)
    BY <1>0, <2>3 DEF Undisturbed, TaskStart, LoadRepository, MarkSyncing,
       MarkInvalidate, SaveSynced, SaveInvalidate, FinishSync, RecordFailure, FailInvalidate,
       FailTask, Goto, GotoWith, Release, Idle, TypeOK, ActorsOK
  <2> QED BY <2>1, <2>2, <2>3 DEF WorkerStep
<1> QED BY <1>0, <1>1, <1>2 DEF OutcomeHeld, Actors

LEMMA RequestOutcome ==
    ASSUME Undisturbed, TypeOK, OutcomeHeld, NEW c \in Clients, NEW r \in Repos,
           RequestStart(c, r) \/ RequestStep(c, r)
    PROVE  OutcomeHeld'
<1>0. c \in Actors /\ \A w \in Workers : w \in Actors /\ c # w
  BY ConstantsAssumption DEF Actors
<1>1. \A b \in Actors : b = c \/ act'[b] = act[b]
  BY DEF RequestStart, RequestStep, CreateRepository, EditRead, TriggerSync, PushEvent,
         GetMiss, DeleteRead, OwnRead, Begin, Enqueue, GetRead, GetFill, EditSave,
         DeleteRow, RequestInvalidate, OwnUpdate, Goto, GotoWith, Release, TypeOK, ActorsOK
<1>2. act'[c].at # "edit"
  <2>1. CASE RequestStart(c, r)
    <3>1. \E v : \E place \in {"enqueue", "get", "delete", "own"} : Begin(c, r, place, v)
      BY <2>1, Zenon DEF RequestStart, CreateRepository, EditRead, TriggerSync,
         PushEvent, GetMiss, DeleteRead, OwnRead, Free, Undisturbed
    <3> QED BY <1>0, <3>1 DEF Begin, TypeOK, ActorsOK
  <2>2. CASE RequestStep(c, r)
    BY <1>0, <2>2 DEF RequestStep, Enqueue, GetRead, GetFill, EditSave, DeleteRow,
       RequestInvalidate, OwnUpdate, Goto, GotoWith, Release, Idle, TypeOK, ActorsOK
  <2> QED BY <2>1, <2>2
<1> QED BY <1>0, <1>1, <1>2 DEF OutcomeHeld, Actors

LEMMA EnvironmentOutcome ==
    ASSUME TypeOK, OutcomeHeld,
           \/ \E c \in Clients, t \in Teams : DeleteTeam(c, t)
           \/ \E r \in Repos : CacheExpire(r)
           \/ \E p \in Procs : Crash(p) \/ Restart(p)
    PROVE  OutcomeHeld'
<1>1. \A a \in Actors : act'[a] \in {act[a], Idle}
  BY DEF DeleteTeam, CacheExpire, Crash, Restart, TypeOK, ActorsOK
<1> QED BY <1>1 DEF OutcomeHeld, Actors, Idle

\* A step that neither shows a new "syncing" without a worker behind it, nor
\* takes the worker behind one away.
LEMMA StatusFrame ==
    ASSUME SyncingIsRunning, up' = up,
           NEW r \in Repos,
           \A q \in Repos \ {r} : Status(q)' = Status(q),
           \A q \in Repos \ {r}, w \in Workers : WillFinish(w, q) => WillFinish(w, q)',
           Status(r)' = "syncing" =>
               \/ \E w \in Workers : WillFinish(w, r)'
               \/ /\ Status(r) = "syncing"
                  /\ \A w \in Workers : WillFinish(w, r) => WillFinish(w, r)'
    PROVE  SyncingIsRunning'
BY DEF SyncingIsRunning

LEMMA WorkerStatus ==
    ASSUME Undisturbed, TypeOK, OutcomeHeld, SyncingIsRunning,
           NEW w \in Workers, NEW r \in Repos, TaskStart(w, r) \/ WorkerStep(w, r)
    PROVE  SyncingIsRunning'
<1>0. w \in Actors /\ Workers \subseteq Actors
  BY DEF Actors
<1>1. up' = up /\ \A q \in Repos \ {r} : Status(q)' = Status(q)
  BY DEF TaskStart, WorkerStep, LoadRepository, ResolveProvider, MarkSyncing,
       MarkInvalidate, FetchProvider, SaveSynced, SaveInvalidate, FinishSync, RecordFailure,
       FailInvalidate, Save, Status, TypeOK, StoresOK
<1>2. \A b \in Actors : b = w \/ act'[b] = act[b]
  BY DEF TaskStart, WorkerStep, LoadRepository, ResolveProvider, MarkSyncing,
       MarkInvalidate, FetchProvider, SaveSynced, SaveInvalidate, FinishSync, RecordFailure,
       FailInvalidate, FailTask, Goto, GotoWith, Release, TypeOK, ActorsOK
<1>3. act[w].at = "idle" \/ act[w].repo = r
  BY DEF TaskStart, WorkerStep, LoadRepository, ResolveProvider, MarkSyncing,
       MarkInvalidate, FetchProvider, SaveSynced, SaveInvalidate, FinishSync, RecordFailure,
       FailInvalidate, At
<1>4. \A q \in Repos \ {r}, x \in Workers : WillFinish(x, q) => WillFinish(x, q)'
  BY <1>0, <1>2, <1>3 DEF WillFinish
<1>5. CASE MarkSyncing(w, r)
  <2>1. WillFinish(w, r)'
    BY <1>0, <1>5 DEF Undisturbed, MarkSyncing, Goto, GotoWith, At, WillFinish,
       TypeOK, ActorsOK
  <2> QED BY <1>1, <1>4, <2>1, StatusFrame
<1>6. CASE SaveSynced(w, r) \/ RecordFailure(w, r)
  <2>1. act[w].copy \in Row /\ act[w].copy.status \in {"synced", "error"}
    BY <1>0, <1>6, HeldCopy
       DEF SaveSynced, RecordFailure, At, HoldingPlaces, TypeOK, OutcomeHeld
  <2>2. Status(r)' # "syncing"
    BY <1>6, <2>1, AbsentAssumption
       DEF Undisturbed, SaveSynced, RecordFailure, Save, Status, TypeOK, StoresOK
  <2> QED BY <1>1, <1>4, <2>2, StatusFrame
<1>7. CASE \/ TaskStart(w, r) \/ LoadRepository(w, r) \/ ResolveProvider(w, r)
           \/ MarkInvalidate(w, r) \/ FetchProvider(w, r)
           \/ SaveInvalidate(w, r) \/ FinishSync(w, r) \/ FailInvalidate(w, r)
  <2>1. Status(r)' = Status(r)
    BY <1>7 DEF TaskStart, LoadRepository, ResolveProvider, MarkInvalidate,
       FetchProvider, SaveInvalidate, FinishSync, FailInvalidate, Status
  <2>2. WillFinish(w, r) => WillFinish(w, r)'
    BY <1>0, <1>7 DEF TaskStart, LoadRepository, ResolveProvider, MarkInvalidate,
       FetchProvider, SaveInvalidate, FinishSync, FailInvalidate, At, Goto, GotoWith, WillFinish,
       TypeOK, ActorsOK
  <2>3. \A x \in Workers : WillFinish(x, r) => WillFinish(x, r)'
    BY <1>0, <1>2, <2>2 DEF WillFinish
  <2> QED BY <1>1, <1>4, <2>1, <2>3, StatusFrame
<1> QED BY <1>5, <1>6, <1>7 DEF WorkerStep

LEMMA RequestStatus ==
    ASSUME TypeOK, OutcomeHeld, SyncingIsRunning, NEW c \in Clients, NEW r \in Repos,
           RequestStart(c, r) \/ RequestStep(c, r)
    PROVE  SyncingIsRunning'
<1>1. \A b \in Workers : act'[b] = act[b]
  BY ConstantsAssumption
     DEF RequestStart, RequestStep, CreateRepository, EditRead, TriggerSync, PushEvent,
         GetMiss, DeleteRead, OwnRead, Begin, Enqueue, GetRead, GetFill, EditSave,
         DeleteRow, RequestInvalidate, OwnUpdate, Goto, GotoWith, Release, TypeOK,
         ActorsOK, Actors
<1>2. up' = up /\ \A q \in Repos \ {r} : Status(q)' = Status(q)
  BY DEF RequestStart, RequestStep, CreateRepository, EditRead, TriggerSync, PushEvent,
         GetMiss, DeleteRead, OwnRead, Enqueue, GetRead, GetFill, EditSave,
         DeleteRow, RequestInvalidate, OwnUpdate, Save, Status, TypeOK, StoresOK
<1>3. Status(r)' = "syncing" => Status(r) = "syncing"
  <2>1. CASE \E d \in Descs : CreateRepository(c, r, d)
    BY <2>1 DEF CreateRepository, Save, Status, TypeOK, StoresOK
  <2>2. CASE DeleteRow(c, r)
    BY <2>2 DEF DeleteRow, Save, Status, TypeOK, StoresOK
  <2>3. CASE OwnUpdate(c, r)
    BY <2>3 DEF OwnUpdate, Save, Status, TypeOK, StoresOK, Row
  <2>4. ~EditSave(c, r)
    BY DEF EditSave, At, OutcomeHeld
  <2>5. CASE UNCHANGED row
    BY <2>5 DEF Status
  <2> QED
    BY <2>1, <2>2, <2>3, <2>4, <2>5
       DEF RequestStart, RequestStep, EditRead, TriggerSync, PushEvent, GetMiss,
           DeleteRead, OwnRead, Enqueue, GetRead, GetFill, RequestInvalidate
<1>4. \A q \in Repos, w \in Workers : WillFinish(w, q) => WillFinish(w, q)'
  BY <1>1 DEF WillFinish
<1> QED BY <1>2, <1>3, <1>4, StatusFrame

LEMMA EnvironmentStatus ==
    ASSUME Undisturbed, TypeOK, SyncingIsRunning,
           \/ \E c \in Clients, t \in Teams : DeleteTeam(c, t)
           \/ \E r \in Repos : CacheExpire(r)
           \/ \E p \in Procs : Crash(p) \/ Restart(p)
    PROVE  SyncingIsRunning'
<1>1. ASSUME NEW c \in Clients, NEW t \in Teams, DeleteTeam(c, t)
      PROVE  SyncingIsRunning'
  <2>1. \A r \in Repos : Status(r)' = Status(r)
    BY <1>1, AbsentAssumption DEF DeleteTeam, Status, TypeOK, StoresOK, Row
  <2> QED BY <1>1, <2>1 DEF DeleteTeam, SyncingIsRunning, WillFinish
<1>2. ASSUME NEW r \in Repos, CacheExpire(r) PROVE SyncingIsRunning'
  BY <1>2 DEF CacheExpire, SyncingIsRunning, WillFinish, Status
<1>3. ASSUME NEW p \in Procs, Crash(p) PROVE SyncingIsRunning'
  BY <1>3 DEF Crash, SyncingIsRunning, TypeOK, StoresOK
<1>4. ASSUME NEW p \in Procs, Restart(p) PROVE SyncingIsRunning'
  <2>1. \A r \in Repos : Status(r)' # "syncing"
    BY <1>4, AbsentAssumption
       DEF Undisturbed, Restart, StaleRows, Status, TypeOK, StoresOK, Row
  <2> QED BY <2>1 DEF SyncingIsRunning
<1> QED BY <1>1, <1>2, <1>3, <1>4

\* Without whole-row edits and database failures, a row that reads "syncing" is
\* being synced or waits for the restart of a dead process: any number of
\* workers and processes, crashes at any step.
THEOREM SyncingAccounted == Undisturbed /\ Spec => []SyncingIsRunning
<1> DEFINE Inv == TypeOK /\ OutcomeHeld /\ SyncingIsRunning
<1>1. Init => Inv
  BY InitType DEF Init, Idle, OutcomeHeld, SyncingIsRunning, Status, Actors
<1>2. Undisturbed /\ Inv /\ [Next]_vars => Inv'
  <2> SUFFICES ASSUME Undisturbed, Inv, [Next]_vars PROVE Inv'
    OBVIOUS
  <2>1. CASE Next
    BY <2>1, WorkerType, WorkerOutcome, WorkerStatus, RequestType, RequestOutcome,
       RequestStatus, EnvironmentType, EnvironmentOutcome, EnvironmentStatus DEF Next
  <2>2. CASE UNCHANGED vars
    BY <2>2 DEF vars, TypeOK, StoresOK, ActorsOK, OutcomeHeld, SyncingIsRunning,
                Status, WillFinish
  <2> QED BY <2>1, <2>2
<1>3. CASE Undisturbed
  <2>1. Inv /\ [Next]_vars => Inv'
    BY <1>2, <1>3
  <2> QED BY <1>1, <2>1, PTL DEF Spec
<1>4. CASE ~Undisturbed
  BY <1>4
<1> QED BY <1>3, <1>4

-----------------------------------------------------------------------------
(* RepositorySync implements SyncLifecycle *)

\* The actors of a dead process do nothing.
DownIsIdle == \A a \in Actors : ~Running(a) => act[a] = Idle

LEMMA DownIdleStep ==
    ASSUME TypeOK, DownIsIdle, Next
    PROVE  DownIsIdle'
<1>1. ASSUME NEW w \in Workers, NEW r \in Repos, TaskStart(w, r) \/ WorkerStep(w, r)
      PROVE  DownIsIdle'
  <2>1. \A b \in Actors : b = w \/ act'[b] = act[b]
    BY <1>1 DEF TaskStart, WorkerStep, LoadRepository, ResolveProvider, MarkSyncing,
         MarkInvalidate, FetchProvider, SaveSynced, SaveInvalidate, FinishSync, RecordFailure,
         FailInvalidate, FailTask, Goto, GotoWith, Release, TypeOK, ActorsOK
  <2>2. up' = up /\ (Running(w) \/ act[w].at # "idle")
    BY <1>1 DEF TaskStart, WorkerStep, LoadRepository, ResolveProvider, MarkSyncing,
         MarkInvalidate, FetchProvider, SaveSynced, SaveInvalidate, FinishSync, RecordFailure,
         FailInvalidate, At
  <2> QED BY <2>1, <2>2 DEF DownIsIdle, Running, Idle, Actors
<1>2. ASSUME NEW c \in Clients, NEW r \in Repos, RequestStart(c, r) \/ RequestStep(c, r)
      PROVE  DownIsIdle'
  <2>1. \A b \in Actors : b = c \/ act'[b] = act[b]
    BY <1>2 DEF RequestStart, RequestStep, CreateRepository, EditRead, TriggerSync,
         PushEvent, GetMiss, DeleteRead, OwnRead, Begin, Enqueue, GetRead, GetFill,
         EditSave, DeleteRow, RequestInvalidate, OwnUpdate, Goto, GotoWith, Release,
         TypeOK, ActorsOK
  <2>2. up' = up /\ (Running(c) \/ act[c].at # "idle")
    BY <1>2 DEF RequestStart, RequestStep, CreateRepository, EditRead, TriggerSync,
         PushEvent, GetMiss, DeleteRead, OwnRead, Free, Enqueue, GetRead, GetFill,
         EditSave, DeleteRow, RequestInvalidate, OwnUpdate, At
  <2> QED BY <2>1, <2>2 DEF DownIsIdle, Running, Idle, Actors
<1>3. ASSUME NEW p \in Procs, Crash(p) PROVE DownIsIdle'
  BY <1>3, ConstantsAssumption DEF Crash, DownIsIdle, Running, TypeOK, StoresOK
<1>4. ASSUME NEW p \in Procs, Restart(p) PROVE DownIsIdle'
  BY <1>4, ConstantsAssumption DEF Restart, DownIsIdle, Running, TypeOK, StoresOK
<1>5. ASSUME \/ \E c \in Clients, t \in Teams : DeleteTeam(c, t)
             \/ \E r \in Repos : CacheExpire(r)
      PROVE  DownIsIdle'
  BY <1>5 DEF DeleteTeam, CacheExpire, DownIsIdle, Running
<1> QED BY <1>1, <1>2, <1>3, <1>4, <1>5 DEF Next

\* The abstract state.
AStatus == [r \in Repos |-> Status(r)]
ARunning == [r \in Repos |-> {w \in Workers : WillFinish(w, r)}]
AInterrupted == \E p \in Procs : ~up[p]

LEMMA AbstractStutter ==
    ASSUME \A r \in Repos : Status(r)' = Status(r), up' = up,
           \A r \in Repos, w \in Workers : WillFinish(w, r)' <=> WillFinish(w, r)
    PROVE  UNCHANGED <<AStatus, ARunning, AInterrupted>>
BY DEF AStatus, ARunning, AInterrupted

AbstractWorkerStep(w, r) ==
    \/ UNCHANGED <<AStatus, ARunning, AInterrupted>>
    \/ Lifecycle!BeginSync(r, w) \/ Lifecycle!EndSync(r, w)

\* The effect of a worker's step on the abstract state.
LEMMA WorkerImplements ==
    ASSUME Undisturbed, TypeOK, OutcomeHeld, NEW w \in Workers, NEW r \in Repos,
           TaskStart(w, r) \/ WorkerStep(w, r)
    PROVE  AbstractWorkerStep(w, r)
<1> DEFINE failing == act'[w].at = "fail"
<1>0. w \in Actors /\ Workers \subseteq Actors
  BY DEF Actors
<1>1. up' = up /\ \A q \in Repos \ {r} : Status(q)' = Status(q)
  BY DEF TaskStart, WorkerStep, LoadRepository, ResolveProvider, MarkSyncing,
       MarkInvalidate, FetchProvider, SaveSynced, SaveInvalidate, FinishSync, RecordFailure,
       FailInvalidate, Save, Status, TypeOK, StoresOK
<1>2. \A b \in Actors : b = w \/ act'[b] = act[b]
  BY DEF TaskStart, WorkerStep, LoadRepository, ResolveProvider, MarkSyncing,
       MarkInvalidate, FetchProvider, SaveSynced, SaveInvalidate, FinishSync, RecordFailure,
       FailInvalidate, FailTask, Goto, GotoWith, Release, TypeOK, ActorsOK
<1>3. /\ act[w].at = "idle" \/ act[w].repo = r
      /\ act'[w].at = "idle" \/ act'[w].repo = r
  BY <1>0 DEF TaskStart, WorkerStep, LoadRepository, ResolveProvider, MarkSyncing,
       MarkInvalidate, FetchProvider, SaveSynced, SaveInvalidate, FinishSync, RecordFailure,
       FailInvalidate, FailTask, Goto, GotoWith, Release, Idle, At, TypeOK, ActorsOK
<1>4. \A q \in Repos, x \in Workers :
          q # r \/ x # w => (WillFinish(x, q)' <=> WillFinish(x, q))
  BY <1>0, <1>2, <1>3 DEF WillFinish
<1>5. CASE \/ TaskStart(w, r) \/ LoadRepository(w, r)
           \/ ResolveProvider(w, r) /\ ~failing
           \/ MarkInvalidate(w, r) \/ FetchProvider(w, r)
           \/ SaveInvalidate(w, r) \/ FinishSync(w, r) \/ FailInvalidate(w, r)
  <2>1. Status(r)' = Status(r)
    BY <1>5 DEF TaskStart, LoadRepository, ResolveProvider, MarkInvalidate,
       FetchProvider, SaveInvalidate, FinishSync, FailInvalidate, Status
  <2>2. WillFinish(w, r)' <=> WillFinish(w, r)
    BY <1>0, <1>5 DEF TaskStart, LoadRepository, ResolveProvider, MarkInvalidate,
       FetchProvider, SaveInvalidate, FinishSync, FailInvalidate, FailTask, Release, Idle, At,
       Goto, GotoWith, WillFinish, TypeOK, ActorsOK
  <2> QED BY <1>1, <1>4, <2>1, <2>2, AbstractStutter DEF AbstractWorkerStep
<1>6. CASE MarkSyncing(w, r) \/ (ResolveProvider(w, r) /\ failing)
  <2>1. ~WillFinish(w, r) /\ WillFinish(w, r)'
    BY <1>0, <1>6 DEF Undisturbed, MarkSyncing, ResolveProvider, At, Goto, GotoWith,
       WillFinish, TypeOK, ActorsOK
  <2>2. ARunning' = [ARunning EXCEPT ![r] = @ \cup {w}]
    BY <1>4, <2>1 DEF ARunning
  <2>3. CASE ResolveProvider(w, r)
    <3>1. UNCHANGED AStatus
      BY <2>3 DEF ResolveProvider, AStatus, Status
    <3> QED
      BY <1>1, <2>1, <2>2, <3>1
         DEF AbstractWorkerStep, Lifecycle!BeginSync, ARunning, AStatus
  <2>4. CASE MarkSyncing(w, r)
    <3>1. act[w].copy \in Row /\ act[w].copy.status = "syncing"
      BY <1>0, <2>4, HeldCopy DEF MarkSyncing, At, HoldingPlaces, TypeOK, OutcomeHeld
    <3>2. AStatus' = [AStatus EXCEPT ![r] = "syncing"]
      BY <1>1, <2>4, <3>1, AbsentAssumption
         DEF Undisturbed, MarkSyncing, Save, AStatus, Status, TypeOK, StoresOK
    <3> QED BY <1>1, <2>1, <2>2, <3>2 DEF AbstractWorkerStep, Lifecycle!BeginSync, ARunning, AStatus
  <2> QED BY <1>6, <2>3, <2>4
<1>7. CASE SaveSynced(w, r) \/ RecordFailure(w, r)
  <2>1. WillFinish(w, r) /\ ~WillFinish(w, r)'
    BY <1>0, <1>7 DEF Undisturbed, SaveSynced, RecordFailure, At, Goto, GotoWith,
       WillFinish, TypeOK, ActorsOK
  <2>2. ARunning' = [ARunning EXCEPT ![r] = @ \ {w}]
    BY <1>4, <2>1 DEF ARunning
  <2>3. act[w].copy \in Row /\ act[w].copy.status \in {"synced", "error"}
    BY <1>0, <1>7, HeldCopy
       DEF SaveSynced, RecordFailure, At, HoldingPlaces, TypeOK, OutcomeHeld
  <2>4. AStatus' = [AStatus EXCEPT ![r] = act[w].copy.status]
    BY <1>1, <1>7, <2>3, AbsentAssumption
       DEF Undisturbed, SaveSynced, RecordFailure, Save, AStatus, Status, TypeOK, StoresOK
  <2> QED BY <1>1, <2>1, <2>2, <2>3, <2>4 DEF AbstractWorkerStep, Lifecycle!EndSync, ARunning, AStatus
<1> HIDE DEF failing
<1> QED BY <1>5, <1>6, <1>7 DEF WorkerStep

AbstractRequestStep(r) ==
    \/ UNCHANGED <<AStatus, ARunning, AInterrupted>>
    \/ Lifecycle!Register(r) \/ Lifecycle!Remove(r)

\* A request registers a row, removes one, or leaves every status alone.
LEMMA RequestImplements ==
    ASSUME TypeOK, Uncreated, OutcomeHeld, NEW c \in Clients, NEW r \in Repos,
           RequestStart(c, r) \/ RequestStep(c, r)
    PROVE  AbstractRequestStep(r)
<1>1. \A b \in Workers : act'[b] = act[b]
  BY ConstantsAssumption
     DEF RequestStart, RequestStep, CreateRepository, EditRead, TriggerSync, PushEvent,
         GetMiss, DeleteRead, OwnRead, Begin, Enqueue, GetRead, GetFill, EditSave,
         DeleteRow, RequestInvalidate, OwnUpdate, Goto, GotoWith, Release, TypeOK,
         ActorsOK, Actors
<1>2. up' = up /\ \A q \in Repos \ {r} : Status(q)' = Status(q)
  BY DEF RequestStart, RequestStep, CreateRepository, EditRead, TriggerSync, PushEvent,
         GetMiss, DeleteRead, OwnRead, Enqueue, GetRead, GetFill, EditSave,
         DeleteRow, RequestInvalidate, OwnUpdate, Save, Status, TypeOK, StoresOK
<1>3. \A q \in Repos, w \in Workers : WillFinish(w, q)' <=> WillFinish(w, q)
  BY <1>1 DEF WillFinish
<1>4. ARunning' = ARunning /\ AInterrupted' = AInterrupted
  BY <1>2, <1>3 DEF ARunning, AInterrupted
<1>5. CASE \E d \in Descs : CreateRepository(c, r, d)
  <2>1. Status(r) = "absent"
    BY <1>5 DEF CreateRepository, Uncreated, Status
  <2>2. Status(r)' = "idle"
    BY <1>5, AbsentAssumption, ConstantsAssumption
       DEF CreateRepository, Save, Status, TypeOK, StoresOK, Row, Statuses
  <2>3. AStatus' = [AStatus EXCEPT ![r] = "idle"]
    BY <1>2, <2>2 DEF AStatus
  <2> QED
    BY <1>4, <2>1, <2>3
       DEF AbstractRequestStep, Lifecycle!Register, AStatus, ARunning, AInterrupted
<1>6. CASE DeleteRow(c, r)
  <2>1. CASE Save(r, Absent)
    <3>1. Status(r)' = "absent"
      BY <2>1 DEF Save, Status, TypeOK, StoresOK
    <3>2. AStatus' = [AStatus EXCEPT ![r] = "absent"]
      BY <1>2, <3>1 DEF AStatus
    <3> QED
      BY <1>4, <3>2
         DEF AbstractRequestStep, Lifecycle!Remove, AStatus, ARunning, AInterrupted
  <2>2. CASE UNCHANGED row
    BY <1>4, <2>2 DEF AbstractRequestStep, AStatus, Status
  <2> QED BY <1>6, <2>1, <2>2 DEF DeleteRow
<1>7. CASE OwnUpdate(c, r)
  <2>1. Status(r)' = Status(r)
    <3>1. CASE UNCHANGED row
      BY <3>1 DEF Status
    <3>2. CASE row[r] # Absent /\ Save(r, [row[r] EXCEPT !.owner = act[c].copy.owner])
      <4>1. act[c].copy \in Row
        BY <1>7 DEF OwnUpdate, At, TypeOK, ActorsOK, HoldingPlaces, Actors
      <4>2. row[r] \in Row
        BY <3>2 DEF TypeOK, StoresOK
      <4>3. [row[r] EXCEPT !.owner = act[c].copy.owner] \in Row
        BY <4>1, <4>2 DEF Row
      <4>4. row'[r] = [row[r] EXCEPT !.owner = act[c].copy.owner]
        BY <3>2 DEF Save, TypeOK, StoresOK
      <4> QED BY <3>2, <4>2, <4>3, <4>4, AbsentAssumption DEF Status, Row
    <3> QED BY <1>7, <3>1, <3>2 DEF OwnUpdate
  <2>2. AStatus' = AStatus
    BY <1>2, <2>1 DEF AStatus
  <2> QED BY <1>4, <2>2 DEF AbstractRequestStep
<1>8. CASE UNCHANGED row
  BY <1>4, <1>8 DEF AbstractRequestStep, AStatus, Status
<1>9. ~EditSave(c, r)
  BY DEF EditSave, At, OutcomeHeld
<1> QED
  BY <1>5, <1>6, <1>7, <1>8, <1>9
     DEF RequestStart, RequestStep, EditRead, TriggerSync, PushEvent, GetMiss,
         DeleteRead, OwnRead, Enqueue, GetRead, GetFill, RequestInvalidate

AbstractEnvironmentStep ==
    \/ UNCHANGED <<AStatus, ARunning, AInterrupted>>
    \/ \E lost \in SUBSET Workers : Lifecycle!Interrupt(lost)
    \/ Lifecycle!Recover

LEMMA EnvironmentImplements ==
    ASSUME Undisturbed, TypeOK, DownIsIdle, NEW pr, Procs = {pr},
           \/ \E c \in Clients, t \in Teams : DeleteTeam(c, t)
           \/ \E r \in Repos : CacheExpire(r)
           \/ \E p \in Procs : Crash(p) \/ Restart(p)
    PROVE  AbstractEnvironmentStep
<1>0. Workers \subseteq Actors
  BY DEF Actors
<1>1. ASSUME NEW c \in Clients, NEW t \in Teams, DeleteTeam(c, t)
      PROVE  AbstractEnvironmentStep
  <2>1. \A r \in Repos : Status(r)' = Status(r)
    BY <1>1, AbsentAssumption DEF DeleteTeam, Status, TypeOK, StoresOK, Row
  <2> QED
    BY <1>1, <2>1, AbstractStutter DEF DeleteTeam, WillFinish, AbstractEnvironmentStep
<1>2. ASSUME NEW r \in Repos, CacheExpire(r) PROVE AbstractEnvironmentStep
  BY <1>2, AbstractStutter DEF CacheExpire, Status, WillFinish, AbstractEnvironmentStep
<1>3. ASSUME NEW p \in Procs, Crash(p) PROVE AbstractEnvironmentStep
  <2> DEFINE lost == {w \in Workers : ProcOf[w] = p}
  <2>1. \A r \in Repos : {w \in Workers : WillFinish(w, r)'}
                            = {w \in Workers : WillFinish(w, r)} \ lost
    BY <1>0, <1>3 DEF Crash, WillFinish, Idle
  <2>2. ARunning' = [r \in Repos |-> ARunning[r] \ lost]
    BY <2>1 DEF ARunning
  <2>3. AInterrupted'
    <3>1. up'[p] = FALSE
      BY <1>3 DEF Crash, TypeOK, StoresOK
    <3> QED BY <3>1 DEF AInterrupted
  <2>4. UNCHANGED AStatus
    BY <1>3 DEF Crash, AStatus, Status
  <2>5. Lifecycle!Interrupt(lost)
    BY <2>2, <2>3, <2>4 DEF Lifecycle!Interrupt, AStatus, ARunning, AInterrupted
  <2>6. lost \in SUBSET Workers
    OBVIOUS
  <2> HIDE DEF lost
  <2> QED BY <2>5, <2>6 DEF AbstractEnvironmentStep
<1>4. ASSUME NEW p \in Procs, Restart(p) PROVE AbstractEnvironmentStep
  <2>1. \A w \in Workers : act[w] = Idle /\ act'[w] = Idle
    BY <1>0, <1>4, ConstantsAssumption DEF Restart, DownIsIdle, Running
  <2>2. \A r \in Repos, w \in Workers : ~WillFinish(w, r) /\ ~WillFinish(w, r)'
    BY <2>1 DEF WillFinish, Idle
  <2>3. ARunning' = ARunning /\ \A r \in Repos : ARunning[r] = {}
    BY <2>2 DEF ARunning
  <2>4. AInterrupted /\ ~AInterrupted'
    BY <1>4 DEF Restart, AInterrupted, TypeOK, StoresOK
  <2>5. \A r \in Repos : Status(r)' = IF Status(r) = "syncing" THEN "idle" ELSE Status(r)
    <3> SUFFICES ASSUME NEW r \in Repos
                 PROVE  Status(r)' = IF Status(r) = "syncing" THEN "idle" ELSE Status(r)
      OBVIOUS
    <3>1. row'[r] = IF r \in StaleRows THEN [row[r] EXCEPT !.status = "idle"] ELSE row[r]
      BY <1>4 DEF Undisturbed, Restart
    <3>2. r \in StaleRows <=> Status(r) = "syncing"
      BY DEF StaleRows
    <3>3. CASE Status(r) # "syncing"
      BY <3>1, <3>2, <3>3 DEF Status
    <3>4. CASE Status(r) = "syncing"
      <4>1. row[r] \in Row
        BY <3>4 DEF Status, TypeOK, StoresOK
      <4>2. row'[r] \in Row /\ row'[r].status = "idle"
        BY <3>1, <3>2, <3>4, <4>1 DEF Row, Statuses
      <4> QED BY <3>4, <4>2, AbsentAssumption DEF Status
    <3> QED BY <3>3, <3>4
  <2>6. AStatus' = [r \in Repos |-> IF AStatus[r] = "syncing" THEN "idle" ELSE AStatus[r]]
    BY <2>5 DEF AStatus
  <2>7. Lifecycle!Recover
    BY <2>3, <2>4, <2>6 DEF Lifecycle!Recover, AStatus, ARunning, AInterrupted
  <2> QED BY <2>7 DEF AbstractEnvironmentStep
<1> QED BY <1>1, <1>2, <1>3, <1>4

\* One process, no whole-row edit, no database failure: the sync status lives the
\* documented life idle -> syncing -> synced / error, whatever the number of
\* workers and wherever the process crashes.
THEOREM LifecycleImplemented ==
    ASSUME NEW pr
    PROVE  Procs = {pr} /\ Undisturbed /\ Spec => ImplementsLifecycle
<1> DEFINE Inv == TypeOK /\ Uncreated /\ OutcomeHeld /\ DownIsIdle
<1>1. Init => Inv /\ Lifecycle!Init
  <2> SUFFICES ASSUME Init PROVE Inv /\ Lifecycle!Init
    OBVIOUS
  <2>1. Inv
    BY InitType, ConstantsAssumption
       DEF Init, Idle, Uncreated, OutcomeHeld, DownIsIdle, Running, Actors
  <2>2. AStatus = [r \in Repos |-> "absent"]
    BY DEF Init, AStatus, Status
  <2>3. ARunning = [r \in Repos |-> {}]
    BY DEF Init, Idle, ARunning, WillFinish, Actors
  <2>4. ~AInterrupted
    BY DEF Init, AInterrupted
  <2> QED
    BY <2>1, <2>2, <2>3, <2>4 DEF Lifecycle!Init, AStatus, ARunning, AInterrupted
<1>2. ASSUME Undisturbed, Procs = {pr}, Inv, [Next]_vars
      PROVE  Inv' /\ [Lifecycle!Next]_(Lifecycle!vars)
  <2>1. CASE Next
    <3>1. TypeOK' /\ Uncreated' /\ OutcomeHeld' /\ DownIsIdle'
      BY <1>2, <2>1, WorkerType, WorkerUncreated, WorkerOutcome, RequestType,
         RequestUncreated, RequestOutcome, EnvironmentType, EnvironmentUncreated,
         EnvironmentOutcome, DownIdleStep DEF Next
    <3>2. \/ \E w \in Workers, r \in Repos : AbstractWorkerStep(w, r)
          \/ \E r \in Repos : AbstractRequestStep(r)
          \/ AbstractEnvironmentStep
      BY <1>2, <2>1, WorkerImplements, RequestImplements, EnvironmentImplements DEF Next
    <3>3. [Lifecycle!Next]_(Lifecycle!vars)
      BY <3>2 DEF AbstractWorkerStep, AbstractRequestStep, AbstractEnvironmentStep,
         Lifecycle!Next, Lifecycle!vars, AStatus, ARunning, AInterrupted
    <3> QED BY <3>1, <3>3
  <2>2. CASE UNCHANGED vars
    BY <1>2, <2>2 DEF vars, TypeOK, StoresOK, ActorsOK, Uncreated, OutcomeHeld,
       DownIsIdle, Running, Lifecycle!vars, Status, WillFinish
  <2> QED BY <1>2, <2>1, <2>2
<1>3. CASE Undisturbed /\ Procs = {pr}
  <2>1. Inv /\ [Next]_vars => Inv' /\ [Lifecycle!Next]_(Lifecycle!vars)
    BY <1>2, <1>3
  <2> QED BY <1>1, <2>1, PTL DEF Spec, ImplementsLifecycle, Lifecycle!Spec
<1>4. CASE ~(Undisturbed /\ Procs = {pr})
  BY <1>4
<1> QED BY <1>3, <1>4

-----------------------------------------------------------------------------
(* The schema and its secrets *)

Shaped(s) ==
    s = [at |-> s.at, kind |-> s.kind, ships |-> s.ships, key |-> s.key, todo |-> s.todo,
         again |-> s.again, table |-> s.table, rows |-> s.rows]

\* A process is at one of its places, with what it ships and has to do.
ProcessesOK ==
    /\ proc = [p \in Processes |-> proc[p]]
    /\ \A p \in Processes : Shaped(proc[p])

\* What a process is and has, of the fields that the invariant is about.
ShipsOK ==
    \A p \in Processes :
        /\ proc[p].at \in {"load", "check", "baseline", "run", "mark", "up", "read", "backfill",
                           "failed", "finished", "down"}
        /\ proc[p].ships \in SUBSET Files
        /\ \A f \in proc[p].ships : Needs[f] \subseteq proc[p].ships
        /\ proc[p].todo \subseteq proc[p].ships
        /\ proc[p].at = "mark" => proc[p].todo # {}
        /\ proc[p].at # "down" => proc[p].key \in keysUsed

KeysOK == keysUsed \subseteq Keys /\ IsFiniteSet(keysUsed)

RowsOK ==
    /\ torn \in BOOLEAN /\ overlapped \in BOOLEAN
    /\ tracked \subseteq Files /\ misled \subseteq Rows
    /\ done \subseteq Files /\ \A f \in done : Needs[f] \subseteq done
    /\ secret = [r \in Rows |-> secret[r]]

\* Two processes migrate only where that was noticed.
MigratorsOK ==
    ~overlapped => \A p, q \in Processes :
        proc[p].at \in M!Migrating /\ proc[q].at \in M!Migrating => p = q

Calm == ~torn /\ ~overlapped /\ origin # "untracked"

\* What is tracked is what is done, but for the migration to be marked; and a
\* process has to do what it ships and is not done.
TrackedOK ==
    Calm /\ (\A p \in Processes : proc[p].at # "mark") => tracked = done

ProcessTracks(p) ==
    /\ proc[p].at # "baseline"
    /\ proc[p].at = "check" => done = {}
    /\ proc[p].at \in {"check", "run", "mark"} => proc[p].ships \subseteq done \cup proc[p].todo
    /\ proc[p].at \in {"check", "run"} => proc[p].todo \cap done = {}
    /\ proc[p].at = "mark" => /\ done = tracked \cup {First(proc[p].todo)}
                              /\ proc[p].todo \cap done = {First(proc[p].todo)}
    /\ proc[p].at = "up" => proc[p].ships \subseteq done
    /\ proc[p].at = "failed" => First(proc[p].todo) = Encrypt /\ ~proc[p].again

ProcessesTrack == Calm => \A p \in Processes : ProcessTracks(p)

\* As long as there is one key, a secret has one of three forms until 006, and
\* so have the copies of the tool; 006 decodes what is sealed.
Plain(k) ==
    Encrypt \notin done =>
        /\ misled = {}
        /\ \A r \in Rows : secret[r] \in {<<None>>, <<>>, <<k, "hex">>}
        /\ \A p \in Processes : \A r \in DOMAIN proc[p].rows : r \in Rows => proc[p].rows[r] \in {<<>>, <<k, "hex">>}

Decoded(k) ==
    Encrypt \in done => \A r \in Rows : r \in misled \/ secret[r] \in {<<None>>, <<k>>}

SecretsOK == \A k \in Keys : keysUsed \subseteq {k} => Plain(k) /\ Decoded(k)

SchemaInv ==
    /\ ProcessesOK /\ ShipsOK /\ KeysOK /\ RowsOK
    /\ MigratorsOK /\ TrackedOK /\ ProcessesTrack
    /\ SecretsOK

\* The first of the migrations to do is one of them, and none is before it.
LEMMA FirstIsLeast ==
    ASSUME NEW fs \in SUBSET Nat, fs # {}
    PROVE  First(fs) \in fs /\ \A g \in fs : First(fs) <= g
<1>1. PICK f \in fs : \A g \in fs : ~(<<g, f>> \in OpToRel(<, Nat))
  BY WFMin, NatLessThanWellFounded
<1>2. ASSUME NEW g \in fs PROVE f <= g
  <2>1. g \in Nat /\ f \in Nat OBVIOUS
  <2>2. <<g, f>> \notin OpToRel(<, Nat) BY <1>1
  <2>3. ~(g < f) BY <2>1, <2>2 DEF OpToRel
  <2> QED BY <2>1, <2>3
<1> QED BY <1>1, <1>2 DEF First

\* What the tables call the first is what the steps do.
LEMMA FirstThere == \A fs : M!First(fs) = First(fs)
BY DEF First, M!First

\* A process that becomes another one, and nothing else of the processes.
LEMMA ProcessBecomes ==
    ASSUME ProcessesOK, NEW p \in Processes, NEW s, Shaped(s),
           proc' = [proc EXCEPT ![p] = s]
    PROVE  ProcessesOK' /\ proc'[p] = s /\ \A q \in Processes : q # p => proc'[q] = proc[q]
<1>1. proc'[p] = s /\ (\A q \in Processes : q # p => proc'[q] = proc[q]) /\ proc' = [q \in Processes |-> proc'[q]]
  BY DEF ProcessesOK
<1>2. \A q \in Processes : Shaped(proc'[q])
  <2>1. TAKE q \in Processes
  <2>2. CASE q = p BY <1>1, <2>2
  <2>3. CASE q # p
    <3>1. proc'[q] = proc[q] /\ Shaped(proc[q]) BY <1>1, <2>3 DEF ProcessesOK
    <3> QED BY <3>1
  <2> QED BY <2>2, <2>3
<1> QED BY <1>1, <1>2 DEF ProcessesOK

\* The process p, at a place, with what it has to do and the rows it has read.
Moved(p, place, todo, again, table, rows) ==
    [at |-> place, kind |-> proc[p].kind, ships |-> proc[p].ships, key |-> proc[p].key,
     todo |-> todo, again |-> again, table |-> table, rows |-> rows]

Others(p) == \A q \in Processes : q # p => proc'[q] = proc[q]

LEMMA ProcessMoves ==
    ASSUME ProcessesOK, NEW p \in Processes, NEW place, NEW todo, NEW again, NEW table, NEW rows,
           proc' = [proc EXCEPT ![p] = Moved(p, place, todo, again, table, rows)]
    PROVE  ProcessesOK' /\ proc'[p] = Moved(p, place, todo, again, table, rows) /\ Others(p)
<1> DEFINE s == Moved(p, place, todo, again, table, rows)
<1>1. Shaped(s) BY DEF Shaped, Moved
<1> HIDE DEF s
<1>2. proc' = [proc EXCEPT ![p] = s] BY DEF s
<1>3. ProcessesOK' /\ proc'[p] = s /\ \A q \in Processes : q # p => proc'[q] = proc[q]
  BY <1>1, <1>2, ProcessBecomes
<1> QED BY <1>3 DEF s, Others

\* What the steps make of a process.
LEMMA ProcessGoes ==
    ASSUME ProcessesOK, NEW p \in Processes, NEW place, M!Goto(p, place)
    PROVE  /\ ProcessesOK' /\ Others(p)
           /\ proc'[p] = Moved(p, place, proc[p].todo, proc[p].again, proc[p].table, proc[p].rows)
<1> DEFINE s == Moved(p, place, proc[p].todo, proc[p].again, proc[p].table, proc[p].rows)
<1>1. Shaped(s) BY DEF Shaped, Moved
<1>2. [proc[p] EXCEPT !.at = place] = s BY DEF ProcessesOK, Shaped, Moved
<1>3. proc' = [proc EXCEPT ![p] = s] BY <1>2 DEF M!Goto
<1> HIDE DEF s
<1>4. ProcessesOK' /\ proc'[p] = s /\ \A q \in Processes : q # p => proc'[q] = proc[q]
  BY <1>1, <1>3, ProcessBecomes
<1> QED BY <1>4 DEF s, Others

LEMMA ProcessRefuses ==
    ASSUME ProcessesOK, NEW p \in Processes, NEW f, M!Refuse(p, f)
    PROVE  /\ ProcessesOK' /\ Others(p)
           /\ proc'[p] = Moved(p, "failed", proc[p].todo, f \in done, proc[p].table, proc[p].rows)
<1> DEFINE s == Moved(p, "failed", proc[p].todo, f \in done, proc[p].table, proc[p].rows)
<1>1. Shaped(s) BY DEF Shaped, Moved
<1> DEFINE t == [proc[p] EXCEPT !.at = "failed"]
<1>2. t = Moved(p, "failed", proc[p].todo, proc[p].again, proc[p].table, proc[p].rows)
  BY DEF ProcessesOK, Shaped, Moved
<1>2a. [proc[p] EXCEPT !.at = "failed", !.again = f \in done] = [t EXCEPT !.again = f \in done] OBVIOUS
<1> HIDE DEF t
<1>2b. [t EXCEPT !.again = f \in done] = s BY <1>2 DEF Moved
<1>3. proc' = [proc EXCEPT ![p] = s] BY <1>2a, <1>2b DEF M!Refuse
<1> HIDE DEF s
<1>4. ProcessesOK' /\ proc'[p] = s /\ \A q \in Processes : q # p => proc'[q] = proc[q]
  BY <1>1, <1>3, ProcessBecomes
<1> QED BY <1>4 DEF s, Others

\* The rows that are left to the tool.
Left(p, r) == [q \in DOMAIN proc[p].rows \ {r} |-> proc[p].rows[q]]

LEMMA ProcessTakes ==
    ASSUME ProcessesOK, NEW p \in Processes, NEW r, M!Took(p, r)
    PROVE  /\ ProcessesOK' /\ Others(p)
           /\ proc'[p] = Moved(p, proc[p].at, proc[p].todo, proc[p].again, proc[p].table, Left(p, r))
<1> DEFINE s == Moved(p, proc[p].at, proc[p].todo, proc[p].again, proc[p].table, Left(p, r))
<1>1. Shaped(s) BY DEF Shaped, Moved
<1>2. [proc[p] EXCEPT !.rows = Left(p, r)] = s
  BY DEF ProcessesOK, Shaped, Moved
<1>3. proc' = [proc EXCEPT ![p] = s] BY <1>2 DEF M!Took, Left
<1> HIDE DEF s
<1>4. ProcessesOK' /\ proc'[p] = s /\ \A q \in Processes : q # p => proc'[q] = proc[q]
  BY <1>1, <1>3, ProcessBecomes
<1> QED BY <1>4 DEF s, Others

LEMMA ProcessHasToDo ==
    ASSUME ProcessesOK, NEW p \in Processes, NEW place, NEW todo,
           proc' = [proc EXCEPT ![p].at = place, ![p].todo = todo]
    PROVE  /\ ProcessesOK' /\ Others(p)
           /\ proc'[p] = Moved(p, place, todo, proc[p].again, proc[p].table, proc[p].rows)
<1> DEFINE s == Moved(p, place, todo, proc[p].again, proc[p].table, proc[p].rows)
<1>1. Shaped(s) BY DEF Shaped, Moved
<1> DEFINE t == [proc[p] EXCEPT !.at = place]
<1>2. t = Moved(p, place, proc[p].todo, proc[p].again, proc[p].table, proc[p].rows)
  BY DEF ProcessesOK, Shaped, Moved
<1>2a. [proc[p] EXCEPT !.at = place, !.todo = todo] = [t EXCEPT !.todo = todo] OBVIOUS
<1> HIDE DEF t
<1>2b. [t EXCEPT !.todo = todo] = s BY <1>2 DEF Moved
<1>3. proc' = [proc EXCEPT ![p] = s] BY <1>2a, <1>2b
<1> HIDE DEF s
<1>4. ProcessesOK' /\ proc'[p] = s /\ \A q \in Processes : q # p => proc'[q] = proc[q]
  BY <1>1, <1>3, ProcessBecomes
<1> QED BY <1>4 DEF s, Others

LEMMA ProcessDoes ==
    ASSUME ProcessesOK, NEW p \in Processes, NEW todo, proc' = [proc EXCEPT ![p].todo = todo]
    PROVE  /\ ProcessesOK' /\ Others(p)
           /\ proc'[p] = Moved(p, proc[p].at, todo, proc[p].again, proc[p].table, proc[p].rows)
<1> DEFINE s == Moved(p, proc[p].at, todo, proc[p].again, proc[p].table, proc[p].rows)
<1>1. Shaped(s) BY DEF Shaped, Moved
<1>2. [proc[p] EXCEPT !.todo = todo] = s BY DEF ProcessesOK, Shaped, Moved
<1>3. proc' = [proc EXCEPT ![p] = s] BY <1>2
<1> HIDE DEF s
<1>4. ProcessesOK' /\ proc'[p] = s /\ \A q \in Processes : q # p => proc'[q] = proc[q]
  BY <1>1, <1>3, ProcessBecomes
<1> QED BY <1>4 DEF s, Others

LEMMA ProcessReads ==
    ASSUME ProcessesOK, NEW p \in Processes, NEW place, NEW rows,
           proc' = [proc EXCEPT ![p].at = place, ![p].rows = rows]
    PROVE  /\ ProcessesOK' /\ Others(p)
           /\ proc'[p] = Moved(p, place, proc[p].todo, proc[p].again, proc[p].table, rows)
<1> DEFINE s == Moved(p, place, proc[p].todo, proc[p].again, proc[p].table, rows)
<1>1. Shaped(s) BY DEF Shaped, Moved
<1> DEFINE t == [proc[p] EXCEPT !.at = place]
<1>2. t = Moved(p, place, proc[p].todo, proc[p].again, proc[p].table, proc[p].rows)
  BY DEF ProcessesOK, Shaped, Moved
<1>2a. [proc[p] EXCEPT !.at = place, !.rows = rows] = [t EXCEPT !.rows = rows] OBVIOUS
<1> HIDE DEF t
<1>2b. [t EXCEPT !.rows = rows] = s BY <1>2 DEF Moved
<1>3. proc' = [proc EXCEPT ![p] = s] BY <1>2a, <1>2b
<1> HIDE DEF s
<1>4. ProcessesOK' /\ proc'[p] = s /\ \A q \in Processes : q # p => proc'[q] = proc[q]
  BY <1>1, <1>3, ProcessBecomes
<1> QED BY <1>4 DEF s, Others

LEMMA ProcessTurns ==
    ASSUME ProcessesOK, NEW p \in Processes, NEW place, NEW table,
           proc' = [proc EXCEPT ![p].at = place, ![p].table = table]
    PROVE  /\ ProcessesOK' /\ Others(p)
           /\ proc'[p] = Moved(p, place, proc[p].todo, proc[p].again, table, proc[p].rows)
<1> DEFINE s == Moved(p, place, proc[p].todo, proc[p].again, table, proc[p].rows)
<1>1. Shaped(s) BY DEF Shaped, Moved
<1> DEFINE t == [proc[p] EXCEPT !.at = place]
<1>2. t = Moved(p, place, proc[p].todo, proc[p].again, proc[p].table, proc[p].rows)
  BY DEF ProcessesOK, Shaped, Moved
<1>2a. [proc[p] EXCEPT !.at = place, !.table = table] = [t EXCEPT !.table = table] OBVIOUS
<1> HIDE DEF t
<1>2b. [t EXCEPT !.table = table] = s BY <1>2 DEF Moved
<1>3. proc' = [proc EXCEPT ![p] = s] BY <1>2a, <1>2b
<1> HIDE DEF s
<1>4. ProcessesOK' /\ proc'[p] = s /\ \A q \in Processes : q # p => proc'[q] = proc[q]
  BY <1>1, <1>3, ProcessBecomes
<1> QED BY <1>4 DEF s, Others


Places == {"load", "check", "baseline", "run", "mark", "up", "read", "backfill", "failed", "finished", "down"}

\* A process goes on with what it ships, and has no more to do than that.
LEMMA ShipsStay ==
    ASSUME ShipsOK, NEW p \in Processes, Others(p), keysUsed \subseteq keysUsed',
           proc'[p].at \in Places,
           proc'[p].ships \in SUBSET Files, \A f \in proc'[p].ships : Needs[f] \subseteq proc'[p].ships,
           proc'[p].todo \subseteq proc'[p].ships,
           proc'[p].at = "mark" => proc'[p].todo # {},
           proc'[p].at # "down" => proc'[p].key \in keysUsed'
    PROVE  ShipsOK'
<1> SUFFICES ASSUME NEW q \in Processes
             PROVE  /\ proc'[q].at \in Places
                    /\ proc'[q].ships \in SUBSET Files
                    /\ \A f \in proc'[q].ships : Needs[f] \subseteq proc'[q].ships
                    /\ proc'[q].todo \subseteq proc'[q].ships
                    /\ proc'[q].at = "mark" => proc'[q].todo # {}
                    /\ proc'[q].at # "down" => proc'[q].key \in keysUsed'
  BY DEF ShipsOK, Places
<1>1. CASE q = p BY <1>1
<1>2. CASE q # p
  <2>1. proc'[q] = proc[q] BY <1>2 DEF Others
  <2> QED BY <2>1 DEF ShipsOK, Places
<1> QED BY <1>1, <1>2

LEMMA ShipsSame ==
    ASSUME ShipsOK, keysUsed \subseteq keysUsed', UNCHANGED proc
    PROVE  ShipsOK'
BY DEF ShipsOK

\* No process begins to migrate.
LEMMA MigratorsStay ==
    ASSUME MigratorsOK, NEW p \in Processes, Others(p), ~overlapped' => ~overlapped,
           proc'[p].at \in M!Migrating => proc[p].at \in M!Migrating
    PROVE  MigratorsOK'
<1> SUFFICES ASSUME ~overlapped', NEW a \in Processes, NEW b \in Processes,
                    proc'[a].at \in M!Migrating, proc'[b].at \in M!Migrating
             PROVE  a = b
  BY DEF MigratorsOK
<1>1. \A q \in Processes : proc'[q].at \in M!Migrating => proc[q].at \in M!Migrating
  <2> TAKE q \in Processes
  <2>1. CASE q = p BY <2>1
  <2>2. CASE q # p
    <3>1. proc'[q] = proc[q] BY <2>2 DEF Others
    <3> QED BY <3>1
  <2> QED BY <2>1, <2>2
<1> QED BY <1>1 DEF MigratorsOK

\* A process starts, and where another one is migrating that is noticed.
LEMMA MigratorsStart ==
    ASSUME MigratorsOK, NEW p \in Processes, Others(p),
           ~overlapped' => ~overlapped /\ \A q \in Processes \ {p} : proc[q].at \notin M!Migrating
    PROVE  MigratorsOK'
<1> SUFFICES ASSUME ~overlapped', NEW a \in Processes, NEW b \in Processes,
                    proc'[a].at \in M!Migrating, proc'[b].at \in M!Migrating
             PROVE  a = b
  BY DEF MigratorsOK
<1>1. \A q \in Processes : proc'[q].at \in M!Migrating => q = p
  <2> TAKE q \in Processes
  <2>1. CASE q # p
    <3>1. proc'[q] = proc[q] BY <2>1 DEF Others
    <3> QED BY <3>1, <2>1
  <2> QED BY <2>1
<1> QED BY <1>1

\* Neither what is done nor what is tracked changes, and no process leaves the
\* place before its mark unnoticed.
LEMMA TracksStay ==
    ASSUME TrackedOK, ProcessesTrack, NEW p \in Processes, Others(p),
           UNCHANGED <<done, tracked>>, Calm' => Calm,
           Calm' => proc[p].at # "mark" /\ proc'[p].at # "mark",
           Calm' /\ ProcessTracks(p) => ProcessTracks(p)'
    PROVE  TrackedOK' /\ ProcessesTrack'
<1>1. TrackedOK'
  <2> SUFFICES ASSUME Calm', \A q \in Processes : proc'[q].at # "mark" PROVE tracked' = done'
    BY DEF TrackedOK
  <2>1. \A q \in Processes : proc[q].at # "mark"
    <3> TAKE q \in Processes
    <3>1. CASE q = p BY <3>1
    <3>2. CASE q # p
      <4>1. proc'[q] = proc[q] BY <3>2 DEF Others
      <4> QED BY <4>1
    <3> QED BY <3>1, <3>2
  <2> QED BY <2>1 DEF TrackedOK
<1>2. ProcessesTrack'
  <2> SUFFICES ASSUME Calm', NEW q \in Processes PROVE ProcessTracks(q)'
    BY DEF ProcessesTrack
  <2>1. ProcessTracks(q) BY DEF ProcessesTrack
  <2>2. CASE q = p BY <2>1, <2>2
  <2>3. CASE q # p
    <3>1. proc'[q] = proc[q] BY <2>3 DEF Others
    <3> QED BY <2>1, <3>1 DEF ProcessTracks, First
  <2> QED BY <2>2, <2>3
<1> QED BY <1>1, <1>2

LEMMA TracksSame ==
    ASSUME TrackedOK, ProcessesTrack, UNCHANGED <<done, tracked, proc>>, Calm' => Calm
    PROVE  TrackedOK' /\ ProcessesTrack'
<1>1. \A q \in Processes : ProcessTracks(q) => ProcessTracks(q)'
  BY DEF ProcessTracks, First
<1> QED BY <1>1 DEF TrackedOK, ProcessesTrack

\* The secrets stay as they are, and the copies are among those there were.
LEMMA SecretsStay ==
    ASSUME SecretsOK, NEW p \in Processes, Others(p), keysUsed \subseteq keysUsed',
           UNCHANGED <<done, secret, misled>>,
           \A r \in DOMAIN proc'[p].rows :
               r \in Rows => r \in DOMAIN proc[p].rows /\ proc'[p].rows[r] = proc[p].rows[r]
    PROVE  SecretsOK'
<1> SUFFICES ASSUME NEW k \in Keys, keysUsed' \subseteq {k} PROVE (Plain(k) /\ Decoded(k))'
  BY DEF SecretsOK
<1>1. Plain(k) /\ Decoded(k) BY DEF SecretsOK
<1>2. Plain(k)'
  <2> SUFFICES ASSUME Encrypt \notin done',
                      NEW q \in Processes, NEW r \in DOMAIN proc'[q].rows, r \in Rows
               PROVE  proc'[q].rows[r] \in {<<>>, <<k, "hex">>}
    BY <1>1 DEF Plain
  <2>1. CASE q = p
    <3>1. r \in DOMAIN proc[p].rows /\ proc'[p].rows[r] = proc[p].rows[r] BY <2>1
    <3> QED BY <1>1, <2>1, <3>1 DEF Plain
  <2>2. CASE q # p
    <3>1. proc'[q] = proc[q] BY <2>2 DEF Others
    <3> QED BY <1>1, <3>1 DEF Plain
  <2> QED BY <2>1, <2>2
<1>3. Decoded(k)' BY <1>1 DEF Decoded
<1> QED BY <1>2, <1>3

LEMMA SecretsSame ==
    ASSUME SecretsOK, keysUsed \subseteq keysUsed', UNCHANGED <<done, secret, misled, proc>>
    PROVE  SecretsOK'
BY DEF SecretsOK, Plain, Decoded

\* Each step keeps the invariant.
LEMMA StartKeeps ==
    ASSUME SchemaInv, M!SchemaAssumption, NEW p \in Processes, NEW kind, NEW s \in Releases \cup Tooling,
           NEW k \in Keys, M!Start(p, kind, s, k)
    PROVE  SchemaInv'
<1> DEFINE t == M!Process("load", kind, s, k)
<1>1. Shaped(t) BY DEF Shaped, M!Process
<1>3. proc' = [proc EXCEPT ![p] = t] BY DEF M!Start
<1>4. /\ proc[p].at \in {"down", "failed", "finished"}
      /\ overlapped' = (overlapped \/ \E q \in Processes \ {p} : proc[q].at \in M!Migrating)
      /\ keysUsed' = keysUsed \cup {k}
      /\ UNCHANGED <<done, tracked, secret, origin, torn, misled>>
  BY DEF M!Start, M!At
<1> HIDE DEF t
<1>5. ProcessesOK' /\ proc'[p] = t /\ Others(p)
  BY <1>1, <1>3, ProcessBecomes DEF SchemaInv, Others
<1>6. proc'[p].at = "load" /\ proc'[p].ships = s /\ proc'[p].key = k /\ proc'[p].todo = {} /\ proc'[p].rows = <<>>
  BY <1>5 DEF t, M!Process
<1>7. s \in SUBSET Files /\ \A f \in s : Needs[f] \subseteq s
  BY DEF M!SchemaAssumption
<1>8. ShipsOK' BY <1>4, <1>5, <1>6, <1>7, ShipsStay DEF SchemaInv, Places
<1>9. KeysOK' BY <1>4, FS_AddElement DEF SchemaInv, KeysOK
<1>10. overlapped' \in BOOLEAN BY <1>4 DEF SchemaInv, RowsOK
<1>11. RowsOK' BY <1>4, <1>10 DEF SchemaInv, RowsOK
<1>12. ~overlapped' => ~overlapped /\ \A q \in Processes \ {p} : proc[q].at \notin M!Migrating
  BY <1>4 DEF SchemaInv, RowsOK
<1>13. MigratorsOK' BY <1>5, <1>12, MigratorsStart DEF SchemaInv
<1>14. Calm' => Calm BY <1>4, <1>12 DEF Calm
<1>15. ProcessTracks(p)' BY <1>6 DEF ProcessTracks
<1>16. TrackedOK' /\ ProcessesTrack' BY <1>4, <1>5, <1>6, <1>14, <1>15, TracksStay DEF SchemaInv
<1>17. DOMAIN proc'[p].rows = {} BY <1>6
<1>18. SecretsOK' BY <1>4, <1>5, <1>17, SecretsStay DEF SchemaInv
<1> QED BY <1>5, <1>8, <1>9, <1>11, <1>13, <1>16, <1>18 DEF SchemaInv

\* Nobody is before a mark while a process loads what is tracked.
LEMMA LoadKeeps ==
    ASSUME SchemaInv, NEW p \in Processes, M!LoadAppliedVersions(p)
    PROVE  SchemaInv'
<1> DEFINE place == IF tracked = {} THEN "check" ELSE "run"
           todo == proc[p].ships \ tracked
<1>1. /\ proc[p].at = "load"
      /\ proc' = [proc EXCEPT ![p].at = place, ![p].todo = todo]
      /\ UNCHANGED <<done, tracked, secret, origin, torn, overlapped, misled, keysUsed, starts>>
  BY DEF M!LoadAppliedVersions, M!At
<1>2. place \in {"check", "run"} /\ (place = "check" => tracked = {}) OBVIOUS
<1> HIDE DEF place, todo
<1>3. ProcessesOK' /\ Others(p)
      /\ proc'[p] = Moved(p, place, todo, proc[p].again, proc[p].table, proc[p].rows)
  BY <1>1, ProcessHasToDo DEF SchemaInv
<1>4. /\ proc'[p].at = place /\ proc'[p].ships = proc[p].ships /\ proc'[p].key = proc[p].key
      /\ proc'[p].todo = todo /\ proc'[p].rows = proc[p].rows
  BY <1>3 DEF Moved
<1>5. ShipsOK'
  <2>1. todo \subseteq proc[p].ships BY DEF todo
  <2>5. /\ proc[p].ships \in SUBSET Files /\ \A f \in proc[p].ships : Needs[f] \subseteq proc[p].ships
        /\ proc[p].key \in keysUsed
    BY <1>1 DEF SchemaInv, ShipsOK
  <2>2. /\ proc'[p].ships \in SUBSET Files /\ \A f \in proc'[p].ships : Needs[f] \subseteq proc'[p].ships
        /\ proc'[p].key \in keysUsed'
    <3>1. keysUsed' = keysUsed BY <1>1
    <3> HIDE <1>1
    <3> QED BY <1>4, <2>5, <3>1
  <2>3. proc'[p].at \in Places /\ proc'[p].at # "mark" BY <1>2, <1>4 DEF Places
  <2>4. proc'[p].todo \subseteq proc'[p].ships BY <1>4, <2>1
  <2> QED BY <1>1, <1>3, <2>2, <2>3, <2>4, ShipsStay DEF SchemaInv
<1>6. KeysOK' /\ RowsOK' BY <1>1 DEF SchemaInv, KeysOK, RowsOK
<1>7. MigratorsOK' BY <1>1, <1>3, MigratorsStay DEF SchemaInv, M!Migrating
<1>8. Calm' => Calm BY <1>1 DEF Calm
<1>9. Calm => tracked = done
  <2> SUFFICES ASSUME Calm PROVE \A q \in Processes : proc[q].at # "mark" BY DEF SchemaInv, TrackedOK
  <2> QED BY <1>1 DEF SchemaInv, MigratorsOK, Calm, M!Migrating
<1>10. Calm' /\ ProcessTracks(p) => ProcessTracks(p)'
  BY <1>1, <1>2, <1>4, <1>8, <1>9 DEF ProcessTracks, todo
<1>11. TrackedOK' /\ ProcessesTrack' BY <1>1, <1>2, <1>3, <1>4, <1>8, <1>10, TracksStay DEF SchemaInv
<1>12. SecretsOK' BY <1>1, <1>3, <1>4, SecretsStay DEF SchemaInv
<1> QED BY <1>3, <1>5, <1>6, <1>7, <1>11, <1>12 DEF SchemaInv

\* A process that goes to another place, and nothing else changes.
LEMMA GoesKeeps ==
    ASSUME SchemaInv, NEW p \in Processes, NEW place \in Places,
           M!Goto(p, place), place \notin {"mark", "down"}, proc[p].at \notin {"mark", "down"},
           place \in M!Migrating => proc[p].at \in M!Migrating,
           UNCHANGED <<done, tracked, secret, origin, torn, overlapped, misled, keysUsed, starts>>,
           Calm => proc[p].at # "baseline" /\ place \notin {"baseline", "failed"},
           Calm /\ place = "check" => proc[p].at = "check",
           Calm /\ place = "run" => proc[p].at \in {"run", "check"},
           Calm /\ place = "up" => proc[p].ships \subseteq done
    PROVE  SchemaInv'
<1>1. ProcessesOK' /\ Others(p)
      /\ proc'[p] = Moved(p, place, proc[p].todo, proc[p].again, proc[p].table, proc[p].rows)
  BY ProcessGoes DEF SchemaInv
<1>2. /\ proc'[p].at = place /\ proc'[p].ships = proc[p].ships /\ proc'[p].key = proc[p].key
      /\ proc'[p].todo = proc[p].todo /\ proc'[p].rows = proc[p].rows
  BY <1>1 DEF Moved
<1>3. ShipsOK' BY <1>1, <1>2, ShipsStay DEF SchemaInv, ShipsOK
<1>4. KeysOK' /\ RowsOK' BY DEF SchemaInv, KeysOK, RowsOK
<1>5. MigratorsOK' BY <1>1, <1>2, MigratorsStay DEF SchemaInv
<1>6. Calm' = Calm BY DEF Calm
<1>7. Calm' /\ ProcessTracks(p) => ProcessTracks(p)'
  BY <1>2, <1>6 DEF ProcessTracks
<1>8. TrackedOK' /\ ProcessesTrack' BY <1>1, <1>2, <1>6, <1>7, TracksStay DEF SchemaInv
<1>9. SecretsOK' BY <1>1, <1>2, SecretsStay DEF SchemaInv
<1> QED BY <1>1, <1>3, <1>4, <1>5, <1>8, <1>9 DEF SchemaInv

LEMMA CheckKeeps ==
    ASSUME SchemaInv, NEW p \in Processes, M!IsBaselineNeeded(p)
    PROVE  SchemaInv'
<1> DEFINE place == IF M!Users \in done THEN "baseline" ELSE "run"
<1>1. /\ proc[p].at = "check" /\ M!Goto(p, place)
      /\ UNCHANGED <<done, tracked, secret, origin, torn, overlapped, misled, keysUsed, starts>>
  BY DEF M!IsBaselineNeeded, M!At
<1>2. place \in {"baseline", "run"} /\ (place = "baseline" => done # {}) OBVIOUS
<1> HIDE DEF place
<1>3. Calm => place = "run"
  BY <1>1, <1>2 DEF SchemaInv, ProcessesTrack, ProcessTracks
<1> QED BY <1>1, <1>2, <1>3, GoesKeeps DEF Places, M!Migrating

LEMMA MigratedKeeps ==
    ASSUME SchemaInv, NEW p \in Processes, M!Migrated(p)
    PROVE  SchemaInv'
<1> DEFINE place == IF proc[p].kind = "server" THEN "up" ELSE "read"
<1>1. /\ proc[p].at \in {"baseline", "run"} /\ proc[p].todo = {} /\ M!Goto(p, place)
      /\ UNCHANGED <<done, tracked, secret, origin, torn, overlapped, misled, keysUsed, starts>>
  BY DEF M!Migrated, M!At
<1>2. place \in {"up", "read"} OBVIOUS
<1> HIDE DEF place
<1>3. Calm => proc[p].at = "run" /\ proc[p].ships \subseteq done
  BY <1>1 DEF SchemaInv, ProcessesTrack, ProcessTracks
<1> QED BY <1>1, <1>2, <1>3, GoesKeeps DEF Places, M!Migrating

LEMMA FinishKeeps ==
    ASSUME SchemaInv, NEW p \in Processes, M!Finish(p)
    PROVE  SchemaInv'
<1>1. proc[p].at = "backfill"
      /\ UNCHANGED <<done, tracked, secret, origin, torn, overlapped, misled, keysUsed, starts>>
  BY DEF M!Finish, M!At
<1>2. CASE M!Goto(p, "finished")
  BY <1>1, <1>2, GoesKeeps DEF Places, M!Migrating
<1>3. CASE proc' = [proc EXCEPT ![p].at = "read", ![p].table = @ + 1]
  <2> DEFINE table == proc[p].table + 1
  <2>1. proc' = [proc EXCEPT ![p].at = "read", ![p].table = table]
    BY <1>3
  <2> HIDE DEF table
  <2>2. ProcessesOK' /\ Others(p)
        /\ proc'[p] = Moved(p, "read", proc[p].todo, proc[p].again, table, proc[p].rows)
    BY <2>1, ProcessTurns DEF SchemaInv
  <2>3. /\ proc'[p].at = "read" /\ proc'[p].ships = proc[p].ships /\ proc'[p].key = proc[p].key
        /\ proc'[p].todo = proc[p].todo /\ proc'[p].rows = proc[p].rows
    BY <2>2 DEF Moved
  <2>4. ShipsOK' BY <1>1, <2>2, <2>3, ShipsStay DEF SchemaInv, ShipsOK, Places
  <2>5. KeysOK' /\ RowsOK' BY <1>1 DEF SchemaInv, KeysOK, RowsOK
  <2>6. MigratorsOK' BY <1>1, <2>2, <2>3, MigratorsStay DEF SchemaInv, M!Migrating
  <2>7. Calm' = Calm BY <1>1 DEF Calm
  <2>8. ProcessTracks(p)' BY <2>3 DEF ProcessTracks
  <2>9. TrackedOK' /\ ProcessesTrack' BY <1>1, <2>2, <2>3, <2>7, <2>8, TracksStay DEF SchemaInv
  <2>10. SecretsOK' BY <1>1, <2>2, <2>3, SecretsStay DEF SchemaInv
  <2> QED BY <2>2, <2>4, <2>5, <2>6, <2>9, <2>10 DEF SchemaInv
<1> QED BY <1>2, <1>3 DEF M!Finish

LEMMA BaselineKeeps ==
    ASSUME SchemaInv, M!SchemaAssumption, NEW p \in Processes, M!BaselineFiles(p)
    PROVE  SchemaInv'
<1> DEFINE f == First(proc[p].todo)
           todo == proc[p].todo \ {f}
<1>1. /\ proc[p].at = "baseline" /\ proc[p].todo # {}
      /\ tracked' = tracked \cup {f}
      /\ proc' = [proc EXCEPT ![p].todo = todo]
      /\ UNCHANGED <<done, secret, origin, torn, overlapped, misled, keysUsed, starts>>
  BY FirstThere DEF M!BaselineFiles, M!At, M!Rest
<1>2. proc[p].todo \subseteq proc[p].ships /\ proc[p].ships \in SUBSET Files
      /\ (\A g \in proc[p].ships : Needs[g] \subseteq proc[p].ships) /\ proc[p].key \in keysUsed
  BY <1>1 DEF SchemaInv, ShipsOK
<1>3. f \in proc[p].todo
  BY <1>1, <1>2, FirstIsLeast DEF M!SchemaAssumption
<1>4. todo \subseteq proc[p].ships BY <1>2
<1> HIDE DEF f, todo
<1>5. ProcessesOK' /\ Others(p)
      /\ proc'[p] = Moved(p, proc[p].at, todo, proc[p].again, proc[p].table, proc[p].rows)
  BY <1>1, ProcessDoes DEF SchemaInv
<1>6. /\ proc'[p].at = "baseline" /\ proc'[p].ships = proc[p].ships /\ proc'[p].key = proc[p].key
      /\ proc'[p].todo = todo /\ proc'[p].rows = proc[p].rows
  BY <1>1, <1>5 DEF Moved
<1>7. ShipsOK' BY <1>1, <1>2, <1>4, <1>5, <1>6, ShipsStay DEF SchemaInv, Places
<1>8. KeysOK' BY <1>1 DEF SchemaInv, KeysOK
<1>9. RowsOK' BY <1>1, <1>2, <1>3 DEF SchemaInv, RowsOK
<1>10. MigratorsOK' BY <1>1, <1>5, <1>6, MigratorsStay DEF SchemaInv
<1>11. ~Calm' BY <1>1 DEF SchemaInv, ProcessesTrack, ProcessTracks, Calm
<1>12. TrackedOK' /\ ProcessesTrack' BY <1>11 DEF TrackedOK, ProcessesTrack
<1>13. SecretsOK' BY <1>1, <1>5, <1>6, SecretsStay DEF SchemaInv
<1> QED BY <1>5, <1>7, <1>8, <1>9, <1>10, <1>12, <1>13 DEF SchemaInv

\* The process that marks is the only one that migrates, and what is done is
\* tracked again.
LEMMA MarkKeeps ==
    ASSUME SchemaInv, M!SchemaAssumption, NEW p \in Processes, M!MarkApplied(p)
    PROVE  SchemaInv'
<1> DEFINE f == First(proc[p].todo)
           todo == proc[p].todo \ {f}
<1>1. /\ proc[p].at = "mark"
      /\ tracked' = tracked \cup {f}
      /\ proc' = [proc EXCEPT ![p].at = "run", ![p].todo = todo]
      /\ UNCHANGED <<done, secret, origin, torn, overlapped, misled, keysUsed, starts>>
  BY FirstThere DEF M!MarkApplied, M!At, M!Rest
<1>2. proc[p].todo \subseteq proc[p].ships /\ proc[p].ships \in SUBSET Files /\ proc[p].todo # {}
      /\ (\A g \in proc[p].ships : Needs[g] \subseteq proc[p].ships) /\ proc[p].key \in keysUsed
  BY <1>1 DEF SchemaInv, ShipsOK
<1>3. f \in proc[p].todo
  BY <1>1, <1>2, FirstIsLeast DEF M!SchemaAssumption
<1>4. todo \subseteq proc[p].ships BY <1>2
<1>5. Calm => done = tracked \cup {f} /\ proc[p].todo \cap done = {f} /\ proc[p].ships \subseteq done \cup proc[p].todo
  BY <1>1 DEF SchemaInv, ProcessesTrack, ProcessTracks
<1>6. Calm => done' = tracked' /\ todo \cap done' = {} /\ proc[p].ships \subseteq done' \cup todo
  BY <1>1, <1>5
<1> HIDE DEF f, todo
<1>7. ProcessesOK' /\ Others(p)
      /\ proc'[p] = Moved(p, "run", todo, proc[p].again, proc[p].table, proc[p].rows)
  BY <1>1, ProcessHasToDo DEF SchemaInv
<1>8. /\ proc'[p].at = "run" /\ proc'[p].ships = proc[p].ships /\ proc'[p].key = proc[p].key
      /\ proc'[p].todo = todo /\ proc'[p].rows = proc[p].rows
  BY <1>7 DEF Moved
<1>17. proc'[p].at \in Places /\ proc'[p].at # "mark" BY <1>8 DEF Places
<1>9. ShipsOK'
  <2>1. keysUsed' = keysUsed BY <1>1
  <2>2. proc'[p].ships \in SUBSET Files /\ (\A g \in proc'[p].ships : Needs[g] \subseteq proc'[p].ships)
        /\ proc'[p].key \in keysUsed' /\ proc'[p].todo \subseteq proc'[p].ships
    BY <1>2, <1>4, <1>8, <2>1
  <2> QED BY <1>7, <1>17, <2>1, <2>2, ShipsStay DEF SchemaInv
<1>10. KeysOK' BY <1>1 DEF SchemaInv, KeysOK
<1>11. RowsOK' BY <1>1, <1>2, <1>3 DEF SchemaInv, RowsOK
<1>12. MigratorsOK' BY <1>1, <1>7, <1>8, MigratorsStay DEF SchemaInv, M!Migrating
<1>13. Calm' = Calm BY <1>1 DEF Calm
<1>14. TrackedOK' BY <1>6, <1>13 DEF TrackedOK
<1>15. ProcessesTrack'
  <2> SUFFICES ASSUME Calm', NEW q \in Processes PROVE ProcessTracks(q)' BY DEF ProcessesTrack
  <2>1. CASE q = p BY <1>6, <1>8, <1>13, <2>1 DEF ProcessTracks
  <2>2. CASE q # p
    <3>1. proc'[q] = proc[q] BY <1>7, <2>2 DEF Others
    <3>2. ProcessTracks(q) BY <1>13 DEF SchemaInv, ProcessesTrack
    <3>3. proc[q].at \notin M!Migrating
      BY <1>1, <1>13, <2>2 DEF SchemaInv, MigratorsOK, Calm, M!Migrating
    <3> QED BY <1>1, <3>1, <3>2, <3>3 DEF ProcessTracks, M!Migrating, First
  <2> QED BY <2>1, <2>2
<1>16. SecretsOK' BY <1>1, <1>7, <1>8, SecretsStay DEF SchemaInv
<1> QED BY <1>7, <1>9, <1>10, <1>11, <1>12, <1>14, <1>15, <1>16 DEF SchemaInv

\* To stop before a mark, or in the midst of a baseline, is noticed.
LEMMA StopKeeps ==
    ASSUME SchemaInv, NEW p \in Processes, M!Stop(p)
    PROVE  SchemaInv'
<1>1. /\ proc[p].at # "down" /\ proc' = [proc EXCEPT ![p] = M!Down]
      /\ torn' = (torn \/ proc[p].at = "mark" \/ (proc[p].at = "baseline" /\ proc[p].todo # {}))
      /\ UNCHANGED <<done, tracked, secret, origin, overlapped, misled, keysUsed, starts>>
  BY DEF M!Stop, M!At
<1>2. Shaped(M!Down) BY DEF Shaped, M!Down, M!Process
<1>3. ProcessesOK' /\ proc'[p] = M!Down /\ Others(p)
  BY <1>1, <1>2, ProcessBecomes DEF SchemaInv, Others
<1>4. proc'[p].at = "down" /\ proc'[p].ships = {} /\ proc'[p].todo = {} /\ proc'[p].rows = <<>>
  BY <1>3 DEF M!Down, M!Process
<1>5. ShipsOK' BY <1>1, <1>3, <1>4, ShipsStay DEF SchemaInv, Places
<1>6. torn' \in BOOLEAN BY <1>1
<1>7. KeysOK' /\ RowsOK' BY <1>1, <1>6 DEF SchemaInv, KeysOK, RowsOK
<1>8. MigratorsOK' BY <1>1, <1>3, <1>4, MigratorsStay DEF SchemaInv, M!Migrating
<1>9. torn => torn' BY <1>1
<1>10. proc[p].at = "mark" => torn' BY <1>1
<1>11. Calm' => Calm BY <1>1, <1>9 DEF Calm
<1>12. Calm' => proc[p].at # "mark" BY <1>10 DEF Calm
<1>13. ProcessTracks(p)' BY <1>4 DEF ProcessTracks
<1>14. TrackedOK' /\ ProcessesTrack' BY <1>1, <1>3, <1>4, <1>11, <1>12, <1>13, TracksStay DEF SchemaInv
<1>15. DOMAIN proc'[p].rows = {} BY <1>4
<1>16. SecretsOK' BY <1>1, <1>3, <1>15, SecretsStay DEF SchemaInv
<1> QED BY <1>3, <1>5, <1>7, <1>8, <1>14, <1>16 DEF SchemaInv

\* A migration fails only where it needs what is not done, was done before, or
\* is 006 and a secret is not hex.
LEMMA RefuseKeeps ==
    ASSUME SchemaInv, M!SchemaAssumption, NEW p \in Processes,
           proc[p].at = "run", proc[p].todo # {},
           ~M!Accepted(First(proc[p].todo)), M!Refuse(p, First(proc[p].todo)),
           UNCHANGED <<done, tracked, secret, origin, torn, overlapped, misled, keysUsed, starts>>
    PROVE  SchemaInv'
<1> DEFINE f == First(proc[p].todo)
<1>1. proc[p].todo \subseteq proc[p].ships /\ proc[p].ships \in SUBSET Files
      /\ (\A g \in proc[p].ships : Needs[g] \subseteq proc[p].ships) /\ proc[p].key \in keysUsed
  BY DEF SchemaInv, ShipsOK
<1>2. f \in proc[p].todo /\ \A g \in proc[p].todo : f <= g
  BY <1>1, FirstIsLeast DEF M!SchemaAssumption
<1>3. ~M!Accepted(f) OBVIOUS
<1>4. M!Refuse(p, f) OBVIOUS
<1>5. Calm => f \notin done /\ f = Encrypt
  <2> SUFFICES ASSUME Calm PROVE f \notin done /\ f = Encrypt OBVIOUS
  <2>1. proc[p].ships \subseteq done \cup proc[p].todo /\ proc[p].todo \cap done = {}
    BY DEF SchemaInv, ProcessesTrack, ProcessTracks
  <2>2. f \notin done BY <1>2, <2>1
  <2>3. Needs[f] \subseteq done
    <3>1. f \in Files /\ f \in proc[p].ships BY <1>1, <1>2
    <3>2. Needs[f] \subseteq proc[p].ships BY <1>1, <3>1
    <3>3. \A g \in Needs[f] : g \in Nat /\ g < f BY <3>1 DEF M!SchemaAssumption
    <3>4. f \in Nat BY <3>1 DEF M!SchemaAssumption
    <3>5. \A g \in Needs[f] : g \notin proc[p].todo BY <1>2, <3>3, <3>4
    <3> QED BY <2>1, <3>2, <3>5
  <2>4. f = Encrypt BY <1>3, <2>2, <2>3 DEF M!Accepted
  <2> QED BY <2>2, <2>4
<1> DEFINE again == f \in done
<1>6. ProcessesOK' /\ Others(p)
      /\ proc'[p] = Moved(p, "failed", proc[p].todo, again, proc[p].table, proc[p].rows)
  BY <1>4, ProcessRefuses DEF SchemaInv
<1> HIDE DEF again
<1>7. /\ proc'[p].at = "failed" /\ proc'[p].ships = proc[p].ships /\ proc'[p].key = proc[p].key
      /\ proc'[p].todo = proc[p].todo /\ proc'[p].again = again /\ proc'[p].rows = proc[p].rows
  BY <1>6 DEF Moved
<1>8. ShipsOK' BY <1>1, <1>6, <1>7, ShipsStay DEF SchemaInv, Places
<1>9. KeysOK' /\ RowsOK' BY DEF SchemaInv, KeysOK, RowsOK
<1>10. MigratorsOK' BY <1>6, <1>7, MigratorsStay DEF SchemaInv, M!Migrating
<1>11. Calm' = Calm BY DEF Calm
<1>12. Calm => First(proc[p].todo) = Encrypt /\ ~again BY <1>5 DEF again
<1>13. Calm' => ProcessTracks(p)' BY <1>7, <1>11, <1>12 DEF ProcessTracks
<1>14. TrackedOK' /\ ProcessesTrack' BY <1>6, <1>7, <1>11, <1>13, TracksStay DEF SchemaInv
<1>15. SecretsOK' BY <1>6, <1>7, SecretsStay DEF SchemaInv
<1> QED BY <1>6, <1>8, <1>9, <1>10, <1>14, <1>15 DEF SchemaInv

\* What 006 makes of a secret in hex is what was sealed.
LEMMA Decoding ==
    ASSUME NEW k
    PROVE  M!Unhex(<<k, "hex">>) = <<k>>
<1>1. M!Last(<<k, "hex">>) = "hex" BY DEF M!Last
<1>2. <<k, "hex">> # <<>> OBVIOUS
<1>3. M!Front(<<k, "hex">>) = <<k>>
  <2> DEFINE s == <<k, "hex">>
             t == SubSeq(s, 1, 1)
             u == <<k>>
  <2>1. Len(s) = 2 /\ s \in Seq({k, "hex"}) /\ s[1] = k OBVIOUS
  <2>2. t \in Seq({k, "hex"}) /\ Len(t) = 1 /\ t[1] = s[1] BY <2>1
  <2>3. u \in Seq({k, "hex"}) /\ Len(u) = 1 /\ u[1] = k OBVIOUS
  <2>4. t = u
    <3> HIDE DEF t, u
    <3> QED BY <2>1, <2>2, <2>3, SeqEqual
  <2> QED BY <2>1, <2>4 DEF M!Front
<1> QED BY <1>1, <1>2, <1>3 DEF M!Unhex

\* The first migration to do is done, and it is the one to be marked.
LEMMA AcceptKeeps ==
    ASSUME SchemaInv, M!SchemaAssumption, NEW p \in Processes, NEW f, f = First(proc[p].todo),
           proc[p].at = "run", proc[p].todo # {},
           M!Accepted(f), done' = done \cup {f}, M!Goto(p, "mark"),
           secret' = [r \in Rows |-> IF f = Encrypt /\ Held(r) THEN M!Unhex(secret[r]) ELSE secret[r]],
           misled' = misled \cup (IF f = Encrypt THEN {r \in Rows : secret[r] = <<>>} ELSE {}),
           UNCHANGED <<tracked, origin, torn, overlapped, keysUsed, starts>>
    PROVE  SchemaInv'
<1>1. proc[p].todo \subseteq proc[p].ships /\ proc[p].ships \in SUBSET Files
      /\ (\A g \in proc[p].ships : Needs[g] \subseteq proc[p].ships) /\ proc[p].key \in keysUsed
  BY DEF SchemaInv, ShipsOK
<1>2. f \in proc[p].todo
  BY <1>1, FirstIsLeast DEF M!SchemaAssumption
<1>3. ProcessesOK' /\ Others(p)
      /\ proc'[p] = Moved(p, "mark", proc[p].todo, proc[p].again, proc[p].table, proc[p].rows)
  BY ProcessGoes DEF SchemaInv
<1>4. /\ proc'[p].at = "mark" /\ proc'[p].ships = proc[p].ships /\ proc'[p].key = proc[p].key
      /\ proc'[p].todo = proc[p].todo /\ proc'[p].rows = proc[p].rows
  BY <1>3 DEF Moved
<1>5. ShipsOK' BY <1>1, <1>3, <1>4, ShipsStay DEF SchemaInv, Places
<1>6. KeysOK' BY DEF SchemaInv, KeysOK
<1>7. f \in Files /\ Needs[f] \subseteq done BY <1>1, <1>2 DEF M!Accepted
<1>8. RowsOK'
  <2>1. done' \subseteq Files /\ \A g \in done' : Needs[g] \subseteq done'
    BY <1>7 DEF SchemaInv, RowsOK
  <2>2. misled' \subseteq Rows BY DEF SchemaInv, RowsOK
  <2>3. secret' = [r \in Rows |-> secret'[r]] OBVIOUS
  <2> QED BY <2>1, <2>2, <2>3 DEF SchemaInv, RowsOK
<1>9. MigratorsOK' BY <1>3, <1>4, MigratorsStay DEF SchemaInv, M!Migrating
<1>10. Calm' = Calm BY DEF Calm
<1>11. TrackedOK' BY <1>4 DEF TrackedOK
<1>12. ProcessesTrack'
  <2> SUFFICES ASSUME Calm', NEW q \in Processes PROVE ProcessTracks(q)' BY DEF ProcessesTrack
  <2>1. CASE q = p
    <3>1. proc[p].ships \subseteq done \cup proc[p].todo /\ proc[p].todo \cap done = {}
      BY <1>10 DEF SchemaInv, ProcessesTrack, ProcessTracks
    <3>2. \A a \in Processes : proc[a].at # "mark"
      BY <1>10 DEF SchemaInv, MigratorsOK, Calm, M!Migrating
    <3>3. tracked = done BY <1>10, <3>2 DEF SchemaInv, TrackedOK
    <3>4. First(proc'[p].todo) = f BY <1>4
    <3>5. done' = tracked' \cup {f} /\ proc[p].todo \cap done' = {f} /\ proc[p].ships \subseteq done' \cup proc[p].todo
      BY <1>2, <3>1, <3>3
    <3> QED BY <1>4, <2>1, <3>4, <3>5 DEF ProcessTracks
  <2>2. CASE q # p
    <3>1. proc'[q] = proc[q] BY <1>3, <2>2 DEF Others
    <3>2. ProcessTracks(q) BY <1>10 DEF SchemaInv, ProcessesTrack
    <3>3. proc[q].at \notin M!Migrating
      BY <1>10, <2>2 DEF SchemaInv, MigratorsOK, Calm, M!Migrating
    <3>4. First(proc'[q].todo) = First(proc[q].todo) BY <3>1
    <3> QED BY <3>1, <3>2, <3>3, <3>4 DEF ProcessTracks, M!Migrating
  <2> QED BY <2>1, <2>2
<1>13. SecretsOK'
  <2>1. CASE f # Encrypt
    <3>1. secret' = secret
      <4>1. secret' = [r \in Rows |-> secret[r]] BY <2>1
      <4> QED BY <4>1 DEF SchemaInv, RowsOK
    <3>2. misled' = misled /\ (Encrypt \in done' <=> Encrypt \in done) BY <2>1
    <3> SUFFICES ASSUME NEW k \in Keys, keysUsed' \subseteq {k} PROVE (Plain(k) /\ Decoded(k))'
      BY DEF SecretsOK
    <3>3. Plain(k) /\ Decoded(k) BY DEF SchemaInv, SecretsOK
    <3>4. Decoded(k)' BY <3>1, <3>2, <3>3 DEF Decoded
    <3>5. Plain(k)'
      <4> SUFFICES ASSUME Encrypt \notin done',
                          NEW q \in Processes, NEW r \in DOMAIN proc'[q].rows, r \in Rows
                   PROVE  proc'[q].rows[r] \in {<<>>, <<k, "hex">>}
        BY <3>1, <3>2, <3>3 DEF Plain
      <4>1. proc'[q].rows = proc[q].rows
        BY <1>3, <1>4 DEF Others
      <4> QED BY <3>2, <3>3, <4>1 DEF Plain
    <3> QED BY <3>4, <3>5
  <2>2. CASE f = Encrypt
    <3>1. Encrypt \notin done BY <2>2 DEF M!Accepted, M!SchemaAssumption
    <3>2. Encrypt \in done' BY <2>2
    <3> SUFFICES ASSUME NEW k \in Keys, keysUsed' \subseteq {k} PROVE (Plain(k) /\ Decoded(k))'
      BY DEF SecretsOK
    <3>3. Plain(k) BY DEF SchemaInv, SecretsOK
    <3>4. Plain(k)' BY <3>2 DEF Plain
    <3>5. Decoded(k)'
      <4> SUFFICES ASSUME NEW r \in Rows PROVE r \in misled' \/ secret'[r] \in {<<None>>, <<k>>}
        BY DEF Decoded
      <4>1. secret[r] \in {<<None>>, <<>>, <<k, "hex">>} BY <3>1, <3>3 DEF Plain
      <4>2. CASE secret[r] = <<None>>
        <5>1. ~Held(r) BY <4>2 DEF Held
        <5>2. secret'[r] = secret[r] BY <5>1
        <5> QED BY <4>2, <5>2
      <4>3. CASE secret[r] = <<>>
        BY <2>2, <4>3
      <4>4. CASE secret[r] = <<k, "hex">>
        <5>1. Held(r) BY <4>4 DEF Held
        <5>2. secret'[r] = M!Unhex(secret[r]) BY <2>2, <5>1
        <5>3. secret'[r] = <<k>> BY <4>4, <5>2, Decoding
        <5> QED BY <5>3
      <4> QED BY <4>1, <4>2, <4>3, <4>4
    <3> QED BY <3>4, <3>5
  <2> QED BY <2>1, <2>2
<1> QED BY <1>3, <1>5, <1>6, <1>8, <1>9, <1>11, <1>12, <1>13 DEF SchemaInv

LEMMA HeldThere == \A r : M!Held(r) = Held(r)
BY DEF Held, M!Held, None, M!None

LEMMA ExecuteKeeps ==
    ASSUME SchemaInv, M!SchemaAssumption, NEW p \in Processes, M!ExecuteMigration(p)
    PROVE  SchemaInv'
<1> DEFINE f == M!First(proc[p].todo)
<1>1. f = First(proc[p].todo) BY FirstThere
<1>2. /\ proc[p].at = "run" /\ proc[p].todo # {}
      /\ UNCHANGED <<tracked, origin, torn, overlapped, keysUsed, starts>>
  BY DEF M!ExecuteMigration, M!At
<1>3. CASE ~M!Accepted(f) /\ M!Refuse(p, f) /\ UNCHANGED <<done, secret, misled>>
  BY <1>1, <1>2, <1>3, RefuseKeeps
<1>4. CASE /\ M!Accepted(f)
           /\ done' = done \cup {f} /\ M!Goto(p, "mark")
           /\ secret' = [r \in Rows |-> IF f = Encrypt /\ M!Held(r) THEN M!Unhex(secret[r]) ELSE secret[r]]
           /\ misled' = misled \cup (IF f = Encrypt THEN {r \in Rows : secret[r] = <<>>} ELSE {})
  <2>1. secret' = [r \in Rows |-> IF f = Encrypt /\ Held(r) THEN M!Unhex(secret[r]) ELSE secret[r]]
    BY <1>4, HeldThere
  <2> HIDE DEF f
  <2> QED BY <1>1, <1>2, <1>4, <2>1, AcceptKeeps
<1>5. Rows = M!Rows BY DEF Rows, M!Rows
<1> QED BY <1>3, <1>4, <1>5 DEF M!ExecuteMigration

\* A secret is saved with the key of the process, and a row is no longer misled.
LEMMA SaveKeeps ==
    ASSUME SchemaInv, NEW p \in Processes, NEW r \in Rows, M!SaveSecret(p, r)
    PROVE  SchemaInv'
<1>1. /\ proc[p].at = "up" /\ Encrypt \in done
      /\ secret' = [secret EXCEPT ![r] = <<proc[p].key>>]
      /\ misled' = misled \ {r}
      /\ UNCHANGED <<done, tracked, proc, origin, torn, overlapped, keysUsed, starts>>
  BY DEF M!SaveSecret, M!At, M!Seal
<1>2. ProcessesOK' BY <1>1 DEF SchemaInv, ProcessesOK
<1>3. ShipsOK' BY <1>1, ShipsSame DEF SchemaInv
<1>4. KeysOK' BY <1>1 DEF SchemaInv, KeysOK
<1>5. secret' = [q \in Rows |-> secret'[q]] /\ secret'[r] = <<proc[p].key>>
      /\ \A q \in Rows : q # r => secret'[q] = secret[q]
  BY <1>1 DEF SchemaInv, RowsOK
<1>6. misled' \subseteq Rows BY <1>1 DEF SchemaInv, RowsOK
<1>7. UNCHANGED <<done, tracked, torn, overlapped>> BY <1>1
<1>8. RowsOK' BY <1>5, <1>6, <1>7 DEF SchemaInv, RowsOK
<1>9. MigratorsOK' BY <1>1 DEF SchemaInv, MigratorsOK
<1>10. Calm' = Calm BY <1>1 DEF Calm
<1>11. TrackedOK' /\ ProcessesTrack' BY <1>1, <1>10, TracksSame DEF SchemaInv
<1>12. SecretsOK'
  <2> SUFFICES ASSUME NEW k \in Keys, keysUsed' \subseteq {k} PROVE (Plain(k) /\ Decoded(k))'
    BY DEF SecretsOK
  <2>1. Decoded(k) /\ keysUsed \subseteq {k} BY <1>1 DEF SchemaInv, SecretsOK
  <2>2. Encrypt \in done' BY <1>1
  <2>3. proc[p].key = k BY <1>1, <2>1 DEF SchemaInv, ShipsOK
  <2>4. Plain(k)' BY <2>2 DEF Plain
  <2>5. Decoded(k)'
    <3> SUFFICES ASSUME NEW q \in Rows PROVE q \in misled' \/ secret'[q] \in {<<None>>, <<k>>}
      BY DEF Decoded
    <3>1. CASE q = r BY <1>5, <2>3, <3>1
    <3>2. CASE q # r
      <4>1. q \in misled \/ secret[q] \in {<<None>>, <<k>>} BY <1>1, <2>1 DEF Decoded
      <4> QED BY <1>1, <1>5, <3>2, <4>1
    <3> QED BY <3>1, <3>2
  <2> QED BY <2>4, <2>5
<1> QED BY <1>2, <1>3, <1>4, <1>8, <1>9, <1>11, <1>12 DEF SchemaInv

\* What the tool has read of a row that holds a secret is the secret.
LEMMA ReadKeeps ==
    ASSUME SchemaInv, NEW p \in Processes, M!ReadRows(p)
    PROVE  SchemaInv'
<1> DEFINE rows == [r \in {x \in Tables[proc[p].table] : M!Held(x)} |-> secret[r]]
<1>1. /\ proc[p].at = "read" /\ proc' = [proc EXCEPT ![p].at = "backfill", ![p].rows = rows]
      /\ UNCHANGED <<done, tracked, secret, origin, torn, overlapped, misled, keysUsed, starts>>
  BY DEF M!ReadRows, M!At
<1>2. \A r \in DOMAIN rows : Held(r) /\ rows[r] = secret[r] BY HeldThere
<1> HIDE DEF rows
<1>3. ProcessesOK' /\ Others(p)
      /\ proc'[p] = Moved(p, "backfill", proc[p].todo, proc[p].again, proc[p].table, rows)
  BY <1>1, ProcessReads DEF SchemaInv
<1>4. /\ proc'[p].at = "backfill" /\ proc'[p].ships = proc[p].ships /\ proc'[p].key = proc[p].key
      /\ proc'[p].todo = proc[p].todo /\ proc'[p].rows = rows
  BY <1>3 DEF Moved
<1>5. UNCHANGED <<done, tracked, secret, origin, torn, overlapped, misled, keysUsed>> BY <1>1
<1>6. proc[p].ships \in SUBSET Files /\ (\A f \in proc[p].ships : Needs[f] \subseteq proc[p].ships)
      /\ proc[p].todo \subseteq proc[p].ships /\ proc[p].key \in keysUsed
  BY <1>1 DEF SchemaInv, ShipsOK
<1>7. ShipsOK' BY <1>3, <1>4, <1>5, <1>6, ShipsStay DEF SchemaInv, Places
<1>8. KeysOK' /\ RowsOK' BY <1>5 DEF SchemaInv, KeysOK, RowsOK
<1>9. MigratorsOK' BY <1>3, <1>4, <1>5, MigratorsStay DEF SchemaInv, M!Migrating
<1>10. Calm' = Calm BY <1>5 DEF Calm
<1>11. ProcessTracks(p)' BY <1>4 DEF ProcessTracks
<1>12. TrackedOK' /\ ProcessesTrack' BY <1>1, <1>3, <1>4, <1>5, <1>10, <1>11, TracksStay DEF SchemaInv
<1>13. SecretsOK'
  <2> SUFFICES ASSUME NEW k \in Keys, keysUsed' \subseteq {k} PROVE (Plain(k) /\ Decoded(k))'
    BY DEF SecretsOK
  <2>1. Plain(k) /\ Decoded(k) BY <1>5 DEF SchemaInv, SecretsOK
  <2>2. Decoded(k)' BY <1>5, <2>1 DEF Decoded
  <2>3. Plain(k)'
    <3> SUFFICES ASSUME Encrypt \notin done',
                        NEW q \in Processes, NEW r \in DOMAIN proc'[q].rows, r \in Rows
                 PROVE  proc'[q].rows[r] \in {<<>>, <<k, "hex">>}
      BY <1>5, <2>1 DEF Plain
    <3>1. CASE q = p
      <4>1. secret[r] \in {<<None>>, <<>>, <<k, "hex">>} BY <1>5, <2>1 DEF Plain
      <4>2. Held(r) /\ proc'[q].rows[r] = secret[r] BY <1>2, <1>4, <3>1
      <4> QED BY <4>1, <4>2 DEF Held
    <3>2. CASE q # p
      <4>1. proc'[q] = proc[q] BY <1>3, <3>2 DEF Others
      <4> QED BY <1>5, <2>1, <4>1 DEF Plain
    <3> QED BY <3>1, <3>2
  <2> QED BY <2>2, <2>3
<1> QED BY <1>3, <1>7, <1>8, <1>9, <1>12, <1>13 DEF SchemaInv

\* What is sealed with the key is skipped, and what is plain is sealed.
LEMMA Sealing ==
    ASSUME M!SchemaAssumption, NEW k \in Keys, NEW r
    PROVE  /\ M!Encrypted(r, <<k, "hex">>, k)
           /\ ~M!Encrypted(r, <<>>, k)
           /\ M!Hex(M!Seal(<<>>, k)) = <<k, "hex">>
<1>1. k # "unhex" BY DEF M!SchemaAssumption
<1>2. M!Last(<<k, "hex">>) = "hex" /\ M!Last(<<k>>) = k /\ M!Last(<<"unhex">>) = "unhex" BY DEF M!Last
<1>3. <<k, "hex">> # <<>> /\ <<k>> # <<>> OBVIOUS
<1>4. M!Opens(<<k>>, k) BY <1>2, <1>3 DEF M!Opens
<1>5. M!IsHex(r, <<k, "hex">>) BY <1>2, <1>3 DEF M!IsHex
<1>6. M!Encrypted(r, <<k, "hex">>, k) BY <1>4, <1>5, Decoding DEF M!Encrypted
<1>7. M!Unhex(<<>>) = <<"unhex">> BY DEF M!Unhex
<1>8. ~M!Opens(<<"unhex">>, k) BY <1>1, <1>2 DEF M!Opens
<1>9. ~M!Encrypted(r, <<>>, k) BY <1>7, <1>8 DEF M!Encrypted
<1>10. M!Hex(M!Seal(<<>>, k)) = <<k, "hex">>
  <2>1. M!Seal(<<>>, k) = <<k>> BY DEF M!Seal
  <2>2. M!Hex(<<k>>) = <<k, "hex">>
    <3> DEFINE s == <<k>>
               t == Append(s, "hex")
               u == <<k, "hex">>
    <3>1. s \in Seq({k, "hex"}) /\ Len(s) = 1 /\ s[1] = k OBVIOUS
    <3>2. t \in Seq({k, "hex"}) /\ Len(t) = 2 /\ t[1] = s[1] /\ t[2] = "hex"
      <4> HIDE DEF s
      <4> QED BY <3>1
    <3>3. u \in Seq({k, "hex"}) /\ Len(u) = 2 /\ u[1] = k /\ u[2] = "hex" OBVIOUS
    <3>4. t = u
      <4> HIDE DEF t, u, s
      <4>1. \A i \in 1 .. Len(t) : t[i] = u[i] BY <3>1, <3>2, <3>3
      <4> QED BY <3>2, <3>3, <4>1, SeqEqual
    <3> QED BY <3>4 DEF M!Hex
  <2> QED BY <2>1, <2>2
<1> QED BY <1>6, <1>9, <1>10

LEMMA BackfillKeeps ==
    ASSUME SchemaInv, M!SchemaAssumption, NEW p \in Processes, NEW r \in Rows, M!Backfill(p, r)
    PROVE  SchemaInv'
<1> DEFINE value == proc[p].rows[r]
           sealed == M!Hex(M!Seal(value, proc[p].key))
           rows == Left(p, r)
<1>1. /\ proc[p].at = "backfill" /\ r \in DOMAIN proc[p].rows /\ M!Took(p, r)
      /\ UNCHANGED <<done, tracked, origin, torn, overlapped, keysUsed, starts>>
  BY DEF M!Backfill, M!At
<1>2. \/ M!Encrypted(r, value, proc[p].key) /\ secret' = secret /\ misled' = misled
      \/ /\ ~M!Encrypted(r, value, proc[p].key)
         /\ secret' = [secret EXCEPT ![r] = sealed]
         /\ misled' = IF Encrypt \in done THEN misled \cup {r} ELSE misled
  BY DEF M!Backfill
<1>3. ProcessesOK' /\ Others(p)
      /\ proc'[p] = Moved(p, proc[p].at, proc[p].todo, proc[p].again, proc[p].table, rows)
  BY <1>1, ProcessTakes DEF SchemaInv
<1>4. \A q \in DOMAIN rows : q \in DOMAIN proc[p].rows /\ rows[q] = proc[p].rows[q] BY DEF Left
<1> HIDE DEF rows
<1>5. /\ proc'[p].at = "backfill" /\ proc'[p].ships = proc[p].ships /\ proc'[p].key = proc[p].key
      /\ proc'[p].todo = proc[p].todo /\ proc'[p].rows = rows
  BY <1>1, <1>3 DEF Moved
<1>6. UNCHANGED <<done, tracked, origin, torn, overlapped, keysUsed>> BY <1>1
<1>7. proc[p].ships \in SUBSET Files /\ (\A f \in proc[p].ships : Needs[f] \subseteq proc[p].ships)
      /\ proc[p].todo \subseteq proc[p].ships /\ proc[p].key \in keysUsed
  BY <1>1 DEF SchemaInv, ShipsOK
<1>8. ShipsOK' BY <1>3, <1>5, <1>6, <1>7, ShipsStay DEF SchemaInv, Places
<1>9. KeysOK' BY <1>6 DEF SchemaInv, KeysOK
<1>10. misled' \subseteq Rows BY <1>2 DEF SchemaInv, RowsOK
<1>11. /\ secret' = [q \in Rows |-> secret'[q]]
       /\ \A q \in Rows : q # r => secret'[q] = secret[q]
  <2> HIDE DEF sealed, value
  <2> QED BY <1>2 DEF SchemaInv, RowsOK
<1>12. RowsOK' BY <1>6, <1>10, <1>11 DEF SchemaInv, RowsOK
<1>13. MigratorsOK' BY <1>3, <1>5, <1>6, MigratorsStay DEF SchemaInv, M!Migrating
<1>14. Calm' = Calm BY <1>6 DEF Calm
<1>15. ProcessTracks(p)' BY <1>5 DEF ProcessTracks
<1>16. TrackedOK' /\ ProcessesTrack' BY <1>1, <1>3, <1>5, <1>6, <1>14, <1>15, TracksStay DEF SchemaInv
<1>17. SecretsOK'
  <2> SUFFICES ASSUME NEW k \in Keys, keysUsed' \subseteq {k} PROVE (Plain(k) /\ Decoded(k))'
    BY DEF SecretsOK
  <2>1. Plain(k) /\ Decoded(k) BY <1>6 DEF SchemaInv, SecretsOK
  <2>2. proc[p].key = k BY <1>6, <1>7
  <2>3. CASE Encrypt \in done
    <3>1. Plain(k)' BY <1>6, <2>3 DEF Plain
    <3>2. Decoded(k)'
      <4> SUFFICES ASSUME NEW q \in Rows PROVE q \in misled' \/ secret'[q] \in {<<None>>, <<k>>}
        BY DEF Decoded
      <4>1. q \in misled \/ secret[q] \in {<<None>>, <<k>>} BY <2>1, <2>3 DEF Decoded
      <4>2. misled \subseteq misled' /\ (secret'[r] = secret[r] \/ r \in misled')
        <5> HIDE DEF sealed, value
        <5> QED BY <1>2, <2>3
      <4> QED BY <1>11, <4>1, <4>2
    <3> QED BY <3>1, <3>2
  <2>4. CASE Encrypt \notin done
    <3>1. value \in {<<>>, <<k, "hex">>} BY <1>1, <2>1, <2>4 DEF Plain
    <3>2. misled' = {}
      <4>1. misled = {} BY <2>1, <2>4 DEF Plain
      <4> HIDE DEF sealed, value
      <4> QED BY <1>2, <2>4, <4>1
    <3>3. secret'[r] \in {<<None>>, <<>>, <<k, "hex">>}
      <4>1. secret[r] \in {<<None>>, <<>>, <<k, "hex">>} BY <2>1, <2>4 DEF Plain
      <4>2. CASE value = <<>>
        <5>1. ~M!Encrypted(r, value, proc[p].key) /\ sealed = <<k, "hex">> BY <2>2, <4>2, Sealing
        <5> HIDE DEF sealed, value
        <5>2. secret'[r] = sealed BY <1>2, <5>1 DEF SchemaInv, RowsOK
        <5> QED BY <5>1, <5>2
      <4>3. CASE value = <<k, "hex">>
        <5>1. M!Encrypted(r, value, proc[p].key) BY <2>2, <4>3, Sealing
        <5> HIDE DEF sealed, value
        <5> QED BY <1>2, <4>1, <5>1
      <4> QED BY <3>1, <4>2, <4>3
    <3>4. \A q \in Rows : secret'[q] \in {<<None>>, <<>>, <<k, "hex">>}
      BY <1>11, <2>1, <2>4, <3>3 DEF Plain
    <3>5. Plain(k)'
      <4> SUFFICES ASSUME NEW q \in Processes, NEW x \in DOMAIN proc'[q].rows, x \in Rows
                   PROVE  proc'[q].rows[x] \in {<<>>, <<k, "hex">>}
        BY <3>2, <3>4 DEF Plain
      <4>1. CASE q = p
        <5>1. x \in DOMAIN proc[p].rows /\ proc'[q].rows[x] = proc[p].rows[x] BY <1>4, <1>5, <4>1
        <5> QED BY <2>1, <2>4, <5>1 DEF Plain
      <4>2. CASE q # p
        <5>1. proc'[q] = proc[q] BY <1>3, <4>2 DEF Others
        <5> QED BY <2>1, <2>4, <5>1 DEF Plain
      <4> QED BY <4>1, <4>2
    <3>6. Decoded(k)' BY <1>6, <2>4 DEF Decoded
    <3> QED BY <3>5, <3>6
  <2> QED BY <2>3, <2>4
<1> QED BY <1>3, <1>8, <1>9, <1>12, <1>13, <1>16, <1>17 DEF SchemaInv

LEMMA SchemaInit == ASSUME M!SchemaAssumption PROVE M!Init => SchemaInv
<1> SUFFICES ASSUME M!Init PROVE SchemaInv OBVIOUS
<1>1. /\ proc = [p \in Processes |-> M!Down]
      /\ torn = FALSE /\ overlapped = FALSE /\ misled = {} /\ keysUsed = {}
      /\ done = IF origin = "fresh" THEN {} ELSE {f \in Files : f < Encrypt}
      /\ tracked = IF origin = "tracked" THEN done ELSE {}
      /\ origin \in {"fresh", "untracked", "tracked"}
  BY DEF M!Init
<1>2. PICK held : secret = [r \in Rows |-> IF r \in held THEN <<>> ELSE <<None>>]
  BY DEF M!Init, Rows, M!Rows, None, M!None
<1>3. Shaped(M!Down) /\ M!Down.at = "down" /\ M!Down.ships = {} /\ M!Down.todo = {} /\ DOMAIN M!Down.rows = {}
  BY DEF Shaped, M!Down, M!Process
<1>4. \A p \in Processes : proc[p] = M!Down BY <1>1
<1>5. ProcessesOK BY <1>1, <1>3, <1>4 DEF ProcessesOK
<1>6. ShipsOK BY <1>3, <1>4 DEF ShipsOK
<1>7. KeysOK BY <1>1, FS_EmptySet DEF KeysOK
<1>8. done \subseteq Files /\ (\A f \in done : Needs[f] \subseteq done) /\ Encrypt \notin done
  <2>1. \A f \in Files : f \in Nat /\ Needs[f] \subseteq {g \in Files : g < f}
    BY DEF M!SchemaAssumption
  <2>2. CASE done = {} BY <2>2
  <2>3. CASE done = {f \in Files : f < Encrypt}
    <3>1. Encrypt \in Nat /\ Encrypt \in Files BY DEF M!SchemaAssumption
    <3>2. ASSUME NEW f \in done, NEW g \in Needs[f] PROVE g \in done
      <4>1. f \in Files /\ f \in Nat /\ f < Encrypt BY <2>1, <2>3
      <4>2. g \in Files /\ g \in Nat /\ g < f BY <2>1, <4>1
      <4> QED BY <2>3, <3>1, <4>1, <4>2
    <3>3. done \subseteq Files /\ Encrypt \notin done BY <2>3, <3>1
    <3> QED BY <3>2, <3>3
  <2> QED BY <1>1, <2>2, <2>3
<1>9. RowsOK
  <2>1. tracked \subseteq Files BY <1>1, <1>8
  <2>2. secret = [r \in Rows |-> secret[r]] BY <1>2
  <2>3. torn \in BOOLEAN /\ overlapped \in BOOLEAN /\ misled \subseteq Rows BY <1>1
  <2> QED BY <1>8, <2>1, <2>2, <2>3 DEF RowsOK
<1>10. MigratorsOK BY <1>3, <1>4 DEF MigratorsOK, M!Migrating
<1>11. TrackedOK BY <1>1 DEF TrackedOK, Calm
<1>12. ProcessesTrack BY <1>3, <1>4 DEF ProcessesTrack, ProcessTracks
<1>13. \A r \in Rows : secret[r] \in {<<None>>, <<>>} BY <1>2
<1>14. \A p \in Processes : DOMAIN proc[p].rows = {} BY <1>3, <1>4
<1>15. SecretsOK BY <1>1, <1>8, <1>13, <1>14 DEF SecretsOK, Plain, Decoded
<1> QED BY <1>5, <1>6, <1>7, <1>9, <1>10, <1>11, <1>12, <1>15 DEF SchemaInv

LEMMA SchemaStutter ==
    ASSUME SchemaInv, UNCHANGED M!vars
    PROVE  SchemaInv'
<1>1. UNCHANGED <<done, tracked, secret, proc, origin, torn, overlapped, misled, keysUsed>> BY DEF M!vars
<1>2. ProcessesOK' BY <1>1 DEF SchemaInv, ProcessesOK
<1>3. ShipsOK' BY <1>1, ShipsSame DEF SchemaInv
<1>4. KeysOK' /\ RowsOK' BY <1>1 DEF SchemaInv, KeysOK, RowsOK
<1>5. MigratorsOK' BY <1>1 DEF SchemaInv, MigratorsOK
<1>6. Calm' = Calm BY <1>1 DEF Calm
<1>7. TrackedOK' /\ ProcessesTrack' BY <1>1, <1>6, TracksSame DEF SchemaInv
<1>8. SecretsOK' BY <1>1, SecretsSame DEF SchemaInv
<1> QED BY <1>2, <1>3, <1>4, <1>5, <1>7, <1>8 DEF SchemaInv

LEMMA SchemaNext ==
    ASSUME M!SchemaAssumption, SchemaInv, [M!Next]_(M!vars)
    PROVE  SchemaInv'
<1>1. CASE UNCHANGED M!vars BY <1>1, SchemaStutter
<1>2. CASE M!Next
  <2>1. PICK p \in Processes :
          \/ \E k \in Keys : \/ \E s \in Releases : M!Start(p, "server", s, k)
                             \/ \E s \in Tooling : M!Start(p, "tool", s, k)
          \/ M!LoadAppliedVersions(p) \/ M!IsBaselineNeeded(p) \/ M!BaselineFiles(p)
          \/ M!ExecuteMigration(p) \/ M!MarkApplied(p) \/ M!Migrated(p) \/ M!Stop(p)
          \/ M!ReadRows(p) \/ M!Finish(p)
          \/ \E r \in M!Rows : M!SaveSecret(p, r) \/ M!Backfill(p, r)
    BY <1>2 DEF M!Next
  <2>2. ASSUME NEW k \in Keys, NEW s \in Releases, M!Start(p, "server", s, k) PROVE SchemaInv'
    BY <2>2, StartKeeps
  <2>3. ASSUME NEW k \in Keys, NEW s \in Tooling, M!Start(p, "tool", s, k) PROVE SchemaInv'
    BY <2>3, StartKeeps
  <2>4. ASSUME M!LoadAppliedVersions(p) PROVE SchemaInv' BY <2>4, LoadKeeps
  <2>5. ASSUME M!IsBaselineNeeded(p) PROVE SchemaInv' BY <2>5, CheckKeeps
  <2>6. ASSUME M!BaselineFiles(p) PROVE SchemaInv' BY <2>6, BaselineKeeps
  <2>7. ASSUME M!ExecuteMigration(p) PROVE SchemaInv' BY <2>7, ExecuteKeeps
  <2>8. ASSUME M!MarkApplied(p) PROVE SchemaInv' BY <2>8, MarkKeeps
  <2>9. ASSUME M!Migrated(p) PROVE SchemaInv' BY <2>9, MigratedKeeps
  <2>10. ASSUME M!Stop(p) PROVE SchemaInv' BY <2>10, StopKeeps
  <2>11. ASSUME M!ReadRows(p) PROVE SchemaInv' BY <2>11, ReadKeeps
  <2>12. ASSUME M!Finish(p) PROVE SchemaInv' BY <2>12, FinishKeeps
  <2>13. ASSUME NEW r \in M!Rows, M!SaveSecret(p, r) PROVE SchemaInv'
    <3>1. r \in Rows BY DEF Rows, M!Rows
    <3> QED BY <2>13, <3>1, SaveKeeps
  <2>14. ASSUME NEW r \in M!Rows, M!Backfill(p, r) PROVE SchemaInv'
    <3>1. r \in Rows BY DEF Rows, M!Rows
    <3> QED BY <2>14, <3>1, BackfillKeeps
  <2> QED BY <2>1, <2>2, <2>3, <2>4, <2>5, <2>6, <2>7, <2>8, <2>9, <2>10, <2>11, <2>12, <2>13, <2>14
<1> QED BY <1>1, <1>2

LEMMA SchemaInvHolds == ASSUME M!SchemaAssumption PROVE SchemaInv => SchemaHolds
<1> SUFFICES ASSUME SchemaInv PROVE SchemaHolds OBVIOUS
<1>1. SchemaTypes
  BY DEF SchemaInv, RowsOK, ShipsOK, SchemaTypes
<1>2. SchemaIsWholeUnlessTorn
  <2> SUFFICES ASSUME NEW p \in Processes
               PROVE  /\ proc[p].at = "up" => Whole(p) \/ torn \/ overlapped \/ origin = "untracked"
                      /\ proc[p].at = "failed" => torn \/ overlapped \/ origin = "untracked"
                                                  \/ (First(proc[p].todo) = Encrypt /\ ~proc[p].again)
    BY DEF SchemaIsWholeUnlessTorn
  <2>1. CASE Calm
    <3>1. ProcessTracks(p) BY <2>1 DEF SchemaInv, ProcessesTrack
    <3> QED BY <3>1 DEF ProcessTracks, Whole
  <2>2. CASE ~Calm BY <2>2 DEF Calm
  <2> QED BY <2>1, <2>2
<1>3. SecretsSurviveUnlessMisled
  <2> SUFFICES ASSUME Cardinality(keysUsed) = 1, Encrypt \in done,
                      NEW p \in Processes, NEW r \in Rows, proc[p].at = "up", Held(r), r \notin misled
               PROVE  Readable(r, proc[p].key)
    BY DEF SecretsSurviveUnlessMisled
  <2>1. PICK k : keysUsed = {k} BY FS_Singleton DEF SchemaInv, KeysOK
  <2>2. k \in Keys BY <2>1 DEF SchemaInv, KeysOK
  <2>3. proc[p].key = k BY <2>1 DEF SchemaInv, ShipsOK
  <2>4. Decoded(k) BY <2>1, <2>2 DEF SchemaInv, SecretsOK
  <2>5. secret[r] = <<k>> BY <2>4 DEF Decoded, Held
  <2> QED BY <2>3, <2>5 DEF Readable, Seal
<1> QED BY <1>1, <1>2, <1>3 DEF SchemaHolds

\* However the migrations, the server and the tool take turns, whatever stops
\* and with whatever migrations and keys: a process that serves has the schema
\* it ships, and reads what was stored, but where a mark was lost, two migrated
\* at once, the database is older than the tracking, or a secret was not hex.
THEOREM SchemaSurvives == ASSUME M!SchemaAssumption PROVE M!Spec => []SchemaHolds
<1>1. M!Init => SchemaInv BY SchemaInit
<1>2. SchemaInv /\ [M!Next]_(M!vars) => SchemaInv' BY SchemaNext
<1>3. SchemaInv => SchemaHolds BY SchemaInvHolds
<1> QED BY <1>1, <1>2, <1>3, PTL DEF M!Spec

-----------------------------------------------------------------------------
(* What the steps of an onboarding show *)

\* Nothing that a step names is foreign, and its terms were there once.
Established(d) == d.refs \cap Foreign = {} /\ \A t \in d.refs \cap Terms : term[t] # ""

\* An entry of a walk shows what its step names and exists.
Complete(r) ==
    r.step.kind \in {"repository", "team", "contacts", "glossary", "architecture"} =>
        \A e \in r.step.refs : Ours(e) => \/ e \in r.names
                                          \/ r.step.kind = "architecture" /\ Cardinality(Repositories \ Foreign) > Limit

ShownRight(r) == r.step \in Drafts /\ Established(r.step) /\ r.names \cap Foreign = {} /\ Complete(r)

Writes(q) == q.at \in {"term", "write"}

\* What a request has read, for each place where it can be.
Refers(q) ==
    q.at = "refs" =>
        /\ q.list \subseteq Drafts
        /\ \A d \in q.list : \A e \in d.refs : e \in q.todo \/ (e \notin Foreign /\ (e \in Terms => term[e] # ""))

Resolves(q) ==
    q.at \in {"resolve", "members"} =>
        /\ \A d \in q.todo : d \in Drafts /\ Established(d)
        /\ \A r \in q.shown : ShownRight(r)

Seats(q) ==
    q.at = "members" => q.team \in OrgTeams /\ q.team \notin Foreign /\ q.step \in q.todo
                        /\ q.step.kind = "team" /\ q.team \in q.step.refs

Asks(c, q) ==
    /\ q.at \in {"access", "list"} => q.step \in Drafts /\ q.step.kind = "verified" /\ q.step.check = "first_change_request"
    /\ q.at = "team" /\ q.on => q.step \in earned[c]
    /\ q.at = "passed" => q.step \in earned[c]

Counts(q) ==
    /\ q.at \in {"steps", "progress", "board"} => q.saw \in Nat /\ q.saw <= saves
    /\ q.at = "progress" /\ q.named /\ q.saw = saves => q.total = Cardinality(stepRows)
    /\ q.at = "board" /\ q.named /\ q.saw = saves => q.done <= q.total

Defines(q) == Writes(q) => q.row \in Terms /\ q.name \in Names /\ (q.new => term[q.row] = "")

Fits(c, q) == Refers(q) /\ Resolves(q) /\ Seats(q) /\ Asks(c, q) /\ Counts(q) /\ Defines(q)

\* A row that is new is one request's.
NewRows ==
    \A c, k \in Walkers :
        Writes(req[c]) /\ Writes(req[k]) /\ req[c].row = req[k].row /\ req[c].new => c = k

CallersOK == req = [c \in Walkers |-> req[c]] /\ (\A c \in Walkers : Fits(c, req[c])) /\ NewRows

StepsOK ==
    /\ stepRows \subseteq Drafts /\ saves \in Nat
    /\ \A d \in stepRows : Established(d)

OutcomesOK ==
    /\ outcome = [d \in Drafts |-> outcome[d]]
    /\ \A d \in Drafts : outcome[d] \in {"none", "done", "skipped"} /\ (outcome[d] # "none" => d \in stepRows)

TermsOK ==
    /\ term = [t \in Terms |-> term[t]]
    /\ \A t \in Terms : term[t] \in Names \cup {"", "gone"}
    /\ TermsAreDistinct

\* A check that is true of the person was noted for every request.
WorldOK ==
    /\ seats = [t \in OrgTeams |-> seats[t]]
    /\ \A t \in OrgTeams : seats[t] \cap Foreign = {}
    /\ there \cap Terms = {}
    /\ earned = [c \in Walkers |-> earned[c]]
    /\ \A c \in Walkers : O!Holding \subseteq earned[c]

ContentInv == CallersOK /\ StepsOK /\ OutcomesOK /\ TermsOK /\ WorldOK

\* What the tables call ours is what the steps do.
LEMMA OursThere ==
    /\ O!LiveTerms = LiveTerms
    /\ \A e : O!Ours(e) <=> Ours(e)
    /\ \A t, name : O!Clash(t, name) <=> Clash(t, name)
<1>1. O!LiveTerms = LiveTerms BY DEF LiveTerms, O!LiveTerms
<1>2. \A e : O!Ours(e) <=> Ours(e) BY <1>1 DEF Ours, O!Ours
<1>3. \A t, name : O!Clash(t, name) <=> Clash(t, name) BY <1>1 DEF Clash, O!Clash
<1> QED BY <1>1, <1>2, <1>3

LEMMA SizesThere ==
    /\ \A S : O!IsFiniteSet(S) <=> IsFiniteSet(S)
    /\ \A S : O!Cardinality(S) = Cardinality(S)
<1>1. \A S : O!IsFiniteSet(S) <=> IsFiniteSet(S) BY DEF O!IsFiniteSet, IsFiniteSet
<1>2. \A S : O!Cardinality(S) = Cardinality(S) BY DEF O!Cardinality, Cardinality
<1> QED BY <1>1, <1>2

\* Things go, and terms come: what becomes ours is a term that was not yet.
Fewer == \A e : Ours(e)' /\ ~Ours(e) => e \in Terms /\ term[e] = ""
TermsLast == \A t \in Terms : term[t] # "" => term'[t] # ""

LEMMA EstablishedLasts ==
    ASSUME TermsLast, NEW d, Established(d)
    PROVE  Established(d)'
BY DEF TermsLast, Established

LEMMA ShownLasts ==
    ASSUME TermsLast, Fewer, NEW r, ShownRight(r)
    PROVE  ShownRight(r)'
<1>1. Established(r.step)' BY EstablishedLasts DEF ShownRight
<1>2. Complete(r)'
  BY DEF ShownRight, Established, Complete, Fewer
<1> QED BY <1>1, <1>2 DEF ShownRight

\* What one request has read stays true while the others go on.
LEMMA FitsLasts ==
    ASSUME TermsLast, Fewer, NEW c \in Walkers, NEW q, Fits(c, q),
           earned[c] \subseteq earned'[c], saves \in Nat, saves' \in Nat, saves <= saves',
           saves' = saves => stepRows' = stepRows,
           Writes(q) /\ q.new /\ q.row \in Terms => term'[q.row] = term[q.row]
    PROVE  Fits(c, q)'
<1>1. Refers(q)' BY DEF Fits, Refers, TermsLast
<1>2. Resolves(q)'
  <2> SUFFICES ASSUME q.at \in {"resolve", "members"}
               PROVE  /\ \A d \in q.todo : d \in Drafts /\ Established(d)'
                      /\ \A r \in q.shown : ShownRight(r)'
    BY DEF Resolves
  <2>1. (\A d \in q.todo : d \in Drafts /\ Established(d)) /\ \A r \in q.shown : ShownRight(r)
    BY DEF Fits, Resolves
  <2> QED BY <2>1, EstablishedLasts, ShownLasts
<1>3. Seats(q)' BY DEF Fits, Seats
<1>4. Asks(c, q)' BY DEF Fits, Asks
<1>5. Counts(q)' BY DEF Fits, Counts
<1>6. Defines(q)' BY DEF Fits, Defines, Writes
<1> QED BY <1>1, <1>2, <1>3, <1>4, <1>5, <1>6 DEF Fits

\* One request goes on.
LEMMA CallerGoes ==
    ASSUME CallersOK, NEW c \in Walkers, NEW q, O!Goto(c, q)
    PROVE  /\ req' = [k \in Walkers |-> req'[k]] /\ req'[c] = q
           /\ \A k \in Walkers : k # c => req'[k] = req[k]
BY DEF CallersOK, O!Goto

LEMMA CallersGo ==
    ASSUME CallersOK, TermsLast, Fewer, NEW c \in Walkers, NEW q, O!Goto(c, q), Fits(c, q)',
           \A k \in Walkers : k # c => earned[k] \subseteq earned'[k], saves \in Nat, saves' \in Nat, saves <= saves',
           saves' = saves => stepRows' = stepRows,
           \A k \in Walkers : k # c /\ Writes(req[k]) /\ req[k].new /\ req[k].row \in Terms =>
               term'[req[k].row] = term[req[k].row],
           Writes(q) => \/ Writes(req[c]) /\ q.row = req[c].row /\ q.new = req[c].new
                        \/ \A k \in Walkers : Writes(req[k]) /\ req[k].row = q.row => ~q.new /\ ~req[k].new
    PROVE  CallersOK'
<1>1. /\ req' = [k \in Walkers |-> req'[k]] /\ req'[c] = q
      /\ \A k \in Walkers : k # c => req'[k] = req[k]
  BY CallerGoes
<1>2. ASSUME NEW k \in Walkers PROVE Fits(k, req[k])'
  <2>1. CASE k = c BY <1>1, <2>1
  <2>2. CASE k # c
    <3>1. PICK x : x = req[k] OBVIOUS
    <3>2. Fits(k, x) BY <3>1 DEF CallersOK
    <3>3. Writes(x) /\ x.new /\ x.row \in Terms => term'[x.row] = term[x.row] BY <2>2, <3>1
    <3>4. Fits(k, x)' BY <2>2, <3>2, <3>3, FitsLasts
    <3>5. x = req'[k] BY <1>1, <2>2, <3>1
    <3> QED BY <3>4, <3>5
  <2> QED BY <2>1, <2>2
<1>3. NewRows'
  <2> SUFFICES ASSUME NEW a \in Walkers, NEW b \in Walkers,
                      Writes(req'[a]), Writes(req'[b]), req'[a].row = req'[b].row, req'[a].new
               PROVE  a = b
    BY DEF NewRows, Writes
  <2>1. CASE a # c /\ b # c BY <1>1, <2>1 DEF CallersOK, NewRows
  <2>2. CASE a = c /\ b # c BY <1>1, <2>2 DEF CallersOK, NewRows
  <2>3. CASE a # c /\ b = c BY <1>1, <2>3 DEF CallersOK, NewRows
  <2> QED BY <2>1, <2>2, <2>3
<1> QED BY <1>1, <1>2, <1>3 DEF CallersOK

TablesSame == UNCHANGED <<there, content, seats, flowLive, access, open, term, stepRows, outcome, earned, saves>>

LEMMA TablesStay ==
    ASSUME ContentInv, TablesSame
    PROVE  StepsOK' /\ OutcomesOK' /\ TermsOK' /\ WorldOK' /\ TermsLast /\ Fewer
<1>1. UNCHANGED <<there, seats, open, term, stepRows, outcome, earned, saves>> BY DEF TablesSame
<1>2. StepsOK' BY <1>1 DEF ContentInv, StepsOK, Established
<1>3. OutcomesOK' BY <1>1 DEF ContentInv, OutcomesOK
<1>4. TermsOK' BY <1>1 DEF ContentInv, TermsOK, TermsAreDistinct, LiveTerms, Clash
<1>5. WorldOK' BY <1>1 DEF ContentInv, WorldOK, O!Holding, O!Check
<1>6. TermsLast BY <1>1 DEF TermsLast
<1>7. Fewer BY <1>1 DEF Fewer, Ours, LiveTerms
<1> QED BY <1>2, <1>3, <1>4, <1>5, <1>6, <1>7

\* A step that only reads.
LEMMA RequestGoes ==
    ASSUME ContentInv, TablesSame, NEW c \in Walkers, NEW q, O!Goto(c, q), Fits(c, q),
           Writes(q) => \/ Writes(req[c]) /\ q.row = req[c].row /\ q.new = req[c].new
                        \/ \A k \in Walkers : Writes(req[k]) /\ req[k].row = q.row => ~q.new /\ ~req[k].new
    PROVE  ContentInv'
<1>1. StepsOK' /\ OutcomesOK' /\ TermsOK' /\ WorldOK' /\ TermsLast /\ Fewer BY TablesStay
<1>2. /\ earned' = earned /\ saves \in Nat /\ saves' \in Nat /\ saves <= saves' /\ stepRows' = stepRows
      /\ term' = term
  BY DEF TablesSame, ContentInv, StepsOK
<1>3. Fits(c, q)' BY <1>1, <1>2, FitsLasts
<1>4. CallersOK' BY <1>1, <1>2, <1>3, CallersGo DEF ContentInv
<1> QED BY <1>1, <1>4 DEF ContentInv

LEMMA IdleFits == \A c : Fits(c, O!Idle) /\ Fits(c, O!Idle)' /\ ~Writes(O!Idle)
<1>1. O!Idle.at = "idle" BY DEF O!Idle
<1> QED BY <1>1 DEF Fits, Refers, Resolves, Seats, Asks, Counts, Defines, Writes

LEMMA RequestEnds ==
    ASSUME ContentInv, TablesSame, NEW c \in Walkers, NEW status, O!Answer(c, status)
    PROVE  ContentInv'
<1>1. O!Goto(c, O!Idle) BY DEF O!Answer, O!Goto
<1>2. PICK q : q = O!Idle OBVIOUS
<1> QED BY <1>1, <1>2, IdleFits, RequestGoes

LEMMA TablesUntouched ==
    UNCHANGED <<O!world, term, stepRows, outcome, earned, saves>> => TablesSame
BY DEF TablesSame, O!world

\* Saving the steps.
LEMMA ReplaceStepsKeeps ==
    ASSUME O!ContentAssumption, ContentInv, NEW c \in Walkers, NEW list \in Lists, O!ReplaceSteps(c, list)
    PROVE  ContentInv'
<1>1. TablesSame BY TablesUntouched DEF O!ReplaceSteps
<1>2. CASE O!Answer(c, 404) BY <1>1, <1>2, RequestEnds
<1>3. CASE O!Answer(c, 400) BY <1>1, <1>3, RequestEnds
<1>4. CASE O!Goto(c, O!Referring(list, UNION {d.refs : d \in list}))
  <2>1. PICK q : q = O!Referring(list, UNION {d.refs : d \in list}) OBVIOUS
  <2>2. q.at = "refs" /\ q.list = list /\ q.todo = UNION {d.refs : d \in list} BY <2>1 DEF O!Referring
  <2>3. Refers(q)
    <3>1. q.list \subseteq Drafts BY <2>2 DEF O!ContentAssumption
    <3>2. ASSUME NEW d \in q.list, NEW e \in d.refs PROVE e \in q.todo
      <4>1. d \in list BY <2>2
      <4>2. e \in UNION {x.refs : x \in list} BY <4>1
      <4> QED BY <2>2, <4>2
    <3> QED BY <3>1, <3>2 DEF Refers
  <2>4. Fits(c, q) BY <2>2, <2>3 DEF Fits, Resolves, Seats, Asks, Counts, Defines, Writes
  <2>5. ~Writes(q) BY <2>2 DEF Writes
  <2> QED BY <1>1, <1>4, <2>1, <2>4, <2>5, RequestGoes
<1> QED BY <1>2, <1>3, <1>4 DEF O!ReplaceSteps

LEMMA ValidateReferencesKeeps ==
    ASSUME O!ContentAssumption, ContentInv, NEW c \in Walkers, O!ValidateReferences(c)
    PROVE  ContentInv'
<1>1. TablesSame BY TablesUntouched DEF O!ValidateReferences
<1>2. req[c].at = "refs" BY DEF O!ValidateReferences, O!At
<1>3. PICK e : \/ O!Ours(e) /\ O!Goto(c, O!Referring(req[c].list, req[c].todo \ {e}))
               \/ O!Answer(c, 400)
  BY DEF O!ValidateReferences
<1>4. CASE O!Answer(c, 400) BY <1>1, <1>4, RequestEnds
<1>5. CASE O!Ours(e) /\ O!Goto(c, O!Referring(req[c].list, req[c].todo \ {e}))
  <2>1. PICK q : q = O!Referring(req[c].list, req[c].todo \ {e}) OBVIOUS
  <2>2. q.at = "refs" /\ q.list = req[c].list /\ q.todo = req[c].todo \ {e} BY <2>1 DEF O!Referring
  <2>3. Refers(req[c]) BY DEF ContentInv, CallersOK, Fits
  <2>4. Ours(e) BY <1>5, OursThere
  <2>5. e \notin Foreign BY <2>4 DEF Ours
  <2>6. e \in Terms => term[e] # ""
    <3>1. e \in Terms => term[e] \in Names BY <2>4 DEF Ours, LiveTerms, ContentInv, WorldOK
    <3>2. "" \notin Names BY DEF O!ContentAssumption
    <3> QED BY <3>1, <3>2
  <2>7. Refers(q) BY <1>2, <2>2, <2>3, <2>5, <2>6 DEF Refers
  <2>8. Fits(c, q) BY <2>2, <2>7 DEF Fits, Resolves, Seats, Asks, Counts, Defines, Writes
  <2>9. ~Writes(q) BY <2>2 DEF Writes
  <2> QED BY <1>1, <1>5, <2>1, <2>8, <2>9, RequestGoes
<1> QED BY <1>3, <1>4, <1>5

LEMMA BuildRunKeeps ==
    ASSUME ContentInv, NEW c \in Walkers, O!BuildRun(c)
    PROVE  ContentInv'
<1>1. TablesSame BY TablesUntouched DEF O!BuildRun
<1>2. CASE O!Answer(c, 204) BY <1>1, <1>2, RequestEnds
<1>3. CASE O!Goto(c, O!Resolving(stepRows, {}))
  <2>1. PICK q : q = O!Resolving(stepRows, {}) OBVIOUS
  <2>2. q.at = "resolve" /\ q.todo = stepRows /\ q.shown = {} BY <2>1 DEF O!Resolving
  <2>3. Resolves(q) BY <2>2 DEF Resolves, ContentInv, StepsOK
  <2>4. Fits(c, q) BY <2>2, <2>3 DEF Fits, Refers, Seats, Asks, Counts, Defines, Writes
  <2>5. ~Writes(q) BY <2>2 DEF Writes
  <2> QED BY <1>1, <1>3, <2>1, <2>4, <2>5, RequestGoes
<1> QED BY <1>2, <1>3 DEF O!BuildRun

\* An entry that is true of its step joins those that were shown.
LEMMA ShowKeeps ==
    ASSUME ContentInv, TablesSame, NEW c \in Walkers, NEW d, NEW names, O!Show(c, d, names),
           req[c].at \in {"resolve", "members"}, d \in req[c].todo,
           names \cap Foreign = {}, Complete([step |-> d, names |-> names])
    PROVE  ContentInv'
<1> DEFINE r == [step |-> d, names |-> names]
<1>1. PICK q : q = O!Resolving(req[c].todo \ {d}, req[c].shown \cup {r}) OBVIOUS
<1>2. q.at = "resolve" /\ q.todo = req[c].todo \ {d} /\ q.shown = req[c].shown \cup {r}
  BY <1>1 DEF O!Resolving
<1>3. (\A x \in req[c].todo : x \in Drafts /\ Established(x)) /\ \A x \in req[c].shown : ShownRight(x)
  BY DEF ContentInv, CallersOK, Fits, Resolves
<1>4. ShownRight(r)
  <2>1. r.step = d /\ r.names = names OBVIOUS
  <2>2. d \in Drafts /\ Established(d) BY <1>3
  <2>3. Complete(r) OBVIOUS
  <2> HIDE DEF r
  <2> QED BY <2>1, <2>2, <2>3 DEF ShownRight
<1> HIDE DEF r
<1>5. Resolves(q) BY <1>2, <1>3, <1>4 DEF Resolves
<1>6. Fits(c, q) BY <1>2, <1>5 DEF Fits, Refers, Seats, Asks, Counts, Defines, Writes
<1>7. ~Writes(q) BY <1>2 DEF Writes
<1>8. O!Goto(c, q) BY <1>1 DEF O!Show, r
<1> QED BY <1>6, <1>7, <1>8, RequestGoes

\* What each kind of step shows.
LEMMA ResolveKeeps ==
    ASSUME O!ContentAssumption, ContentInv, NEW c \in Walkers, O!resolveStep(c)
    PROVE  ContentInv'
<1>1. TablesSame BY TablesUntouched DEF O!resolveStep
<1>2. req[c].at = "resolve" BY DEF O!resolveStep, O!At
<1>3. PICK d \in req[c].todo :
          \/ O!ResolveRepository(c, d) \/ O!ResolveArchitecture(c, d) \/ O!resolveDoc(c, d)
          \/ O!resolveGlossary(c, d) \/ O!resolveContacts(c, d) \/ O!resolveTeam(c, d) \/ O!Plain(c, d)
  BY DEF O!resolveStep
<1>4. d \in Drafts /\ Established(d) /\ (\A x \in req[c].todo : x \in Drafts /\ Established(x))
      /\ (\A x \in req[c].shown : ShownRight(x))
  BY <1>2 DEF ContentInv, CallersOK, Fits, Resolves
<1>5. \A e : Ours(e) => e \notin Foreign BY DEF Ours
<1>6. CASE O!ResolveRepository(c, d)
  <2> DEFINE names == {e \in d.refs \cap Repositories : O!Ours(e)}
             r == [step |-> d, names |-> names]
  <2>1. d.kind = "repository" /\ O!Show(c, d, names) BY <1>6 DEF O!ResolveRepository
  <2>2. d.refs \subseteq Repositories BY <1>4, <2>1 DEF O!ContentAssumption
  <2>3. names \cap Foreign = {} BY <1>5, OursThere
  <2>4. \A e \in d.refs : Ours(e) => e \in names BY <2>2, OursThere
  <2>5. r.step = d /\ r.names = names OBVIOUS
  <2>6. Complete(r)
    <3> HIDE DEF r, names
    <3> QED BY <2>4, <2>5 DEF Complete
  <2> HIDE DEF names
  <2> QED BY <1>1, <1>2, <2>1, <2>3, <2>6, ShowKeeps DEF r
<1>7. CASE O!ResolveArchitecture(c, d)
  <2> DEFINE names == O!filterGraph(O!Nodes, d.refs \cap Repositories)
             r == [step |-> d, names |-> names]
  <2>1. d.kind = "architecture" /\ O!Show(c, d, names) BY <1>7 DEF O!ResolveArchitecture
  <2>2. d.refs \subseteq Repositories BY <1>4, <2>1 DEF O!ContentAssumption
  <2>3. names \subseteq O!Nodes BY DEF O!filterGraph
  <2>4. \A e \in O!Nodes : e \notin Foreign BY <1>5, OursThere DEF O!Nodes
  <2>5. names \cap Foreign = {} BY <2>3, <2>4
  <2>6. ASSUME NEW e \in d.refs, Ours(e), e \notin names
        PROVE  Cardinality(Repositories \ Foreign) > Limit
    <3>1. d.refs \cap Repositories # {} /\ e \in Repositories BY <2>2, <2>6
    <3>2. e \notin O!Nodes BY <2>6, <3>1 DEF O!filterGraph
    <3> DEFINE newer == O!Newer(e)
               ours == Repositories \ Foreign
    <3>3. ~(Cardinality(newer) < Limit)
      <4>1. O!Ours(e) BY <2>6, OursThere
      <4> HIDE DEF newer
      <4>2. newer = O!Newer(e) BY DEF newer
      <4> QED BY <3>1, <3>2, <4>1, <4>2, SizesThere DEF O!Nodes
    <3>4. e \in ours BY <1>5, <2>6, <3>1
    <3>5. newer \subseteq ours BY <1>5, OursThere DEF O!Newer
    <3>6. e \notin newer
      <4>1. Created[e] \in Nat BY <3>1 DEF O!ContentAssumption
      <4>2. ~(Created[e] > Created[e]) BY <4>1
      <4> QED BY <4>2 DEF O!Newer
    <3>15. IsFiniteSet(Repositories) BY SizesThere DEF O!ContentAssumption
    <3>7. IsFiniteSet(Repositories) /\ ours \in SUBSET Repositories BY <3>15
    <3> HIDE DEF newer, ours
    <3>8. IsFiniteSet(ours) BY <3>7, FS_Subset
    <3>9. newer \subseteq ours \ {e} BY <3>5, <3>6
    <3>10. IsFiniteSet(ours \ {e}) /\ Cardinality(ours \ {e}) = Cardinality(ours) - 1
      BY <3>4, <3>8, FS_RemoveElement
    <3>11. Cardinality(newer) <= Cardinality(ours \ {e}) /\ IsFiniteSet(newer) BY <3>9, <3>10, FS_Subset
    <3>12. Cardinality(ours) \in Nat /\ Cardinality(newer) \in Nat BY <3>8, <3>11, FS_CardinalityType
    <3>13. Limit \in Nat BY DEF O!ContentAssumption
    <3>14. Cardinality(ours) > Limit BY <3>3, <3>10, <3>11, <3>12, <3>13
    <3> QED BY <3>14 DEF ours
  <2>7. r.step = d /\ r.names = names OBVIOUS
  <2>8. Complete(r)
    <3> HIDE DEF r, names
    <3> QED BY <2>1, <2>6, <2>7 DEF Complete
  <2> HIDE DEF names
  <2> QED BY <1>1, <1>2, <2>1, <2>5, <2>8, ShowKeeps DEF r
<1>8. CASE O!resolveDoc(c, d)
  <2> DEFINE names == {e \in d.refs \cap Docs : O!Ours(e) /\ O!HasContent(e, d.type)}
             r == [step |-> d, names |-> names]
  <2>1. d.kind = "doc" /\ O!Show(c, d, names) BY <1>8 DEF O!resolveDoc
  <2>2. names \cap Foreign = {} BY <1>5, OursThere
  <2>3. r.step = d OBVIOUS
  <2>4. Complete(r)
    <3> HIDE DEF r, names
    <3> QED BY <2>1, <2>3 DEF Complete
  <2> HIDE DEF names
  <2> QED BY <1>1, <1>2, <2>1, <2>2, <2>4, ShowKeeps DEF r
<1>9. CASE O!resolveGlossary(c, d)
  <2> DEFINE names == {t \in Terms : O!Ours(t) /\ (d.refs \cap Terms = {} \/ t \in d.refs)}
             r == [step |-> d, names |-> names]
  <2>1. d.kind = "glossary" /\ O!Show(c, d, names) BY <1>9 DEF O!resolveGlossary
  <2>2. d.refs \subseteq Terms BY <1>4, <2>1 DEF O!ContentAssumption
  <2>3. names \cap Foreign = {} BY <1>5, OursThere
  <2>4. \A e \in d.refs : Ours(e) => e \in names BY <2>2, OursThere
  <2>5. r.step = d /\ r.names = names OBVIOUS
  <2>6. Complete(r)
    <3> HIDE DEF r, names
    <3> QED BY <2>4, <2>5 DEF Complete
  <2> HIDE DEF names
  <2> QED BY <1>1, <1>2, <2>1, <2>3, <2>6, ShowKeeps DEF r
<1>10. CASE O!resolveContacts(c, d)
  <2> DEFINE names == {p \in d.refs \cap People : O!Ours(p)}
             r == [step |-> d, names |-> names]
  <2>1. d.kind = "contacts" /\ O!Show(c, d, names) BY <1>10 DEF O!resolveContacts
  <2>2. d.refs \subseteq People BY <1>4, <2>1 DEF O!ContentAssumption
  <2>3. names \cap Foreign = {} BY <1>5, OursThere
  <2>4. \A e \in d.refs : Ours(e) => e \in names BY <2>2, OursThere
  <2>5. r.step = d /\ r.names = names OBVIOUS
  <2>6. Complete(r)
    <3> HIDE DEF r, names
    <3> QED BY <2>4, <2>5 DEF Complete
  <2> HIDE DEF names
  <2> QED BY <1>1, <1>2, <2>1, <2>3, <2>6, ShowKeeps DEF r
<1>11. CASE O!resolveTeam(c, d)
  <2>1. d.kind = "team" BY <1>11 DEF O!resolveTeam
  <2>2. PICK t \in d.refs \cap OrgTeams :
            \/ ~O!Ours(t) /\ O!Show(c, d, {})
            \/ O!Ours(t) /\ O!Goto(c, [at |-> "members", team |-> t, step |-> d,
                                       todo |-> req[c].todo, shown |-> req[c].shown])
    BY <1>11 DEF O!resolveTeam
  <2>3. \A e \in d.refs : e = t BY <1>4, <2>1, <2>2 DEF O!ContentAssumption
  <2>4. CASE ~O!Ours(t) /\ O!Show(c, d, {})
    <3> DEFINE names == {}
               r == [step |-> d, names |-> names]
    <3>1. r.step = d /\ ~Ours(t) BY <2>4, OursThere
    <3>2. Complete(r)
      <4> HIDE DEF r
      <4> QED BY <2>3, <3>1 DEF Complete
    <3> QED BY <1>1, <1>2, <2>4, <3>2, ShowKeeps
  <2>5. CASE O!Ours(t) /\ O!Goto(c, [at |-> "members", team |-> t, step |-> d,
                                     todo |-> req[c].todo, shown |-> req[c].shown])
    <3>1. PICK q : q = [at |-> "members", team |-> t, step |-> d, todo |-> req[c].todo, shown |-> req[c].shown]
      OBVIOUS
    <3>2. q.at = "members" /\ q.team = t /\ q.step = d /\ q.todo = req[c].todo /\ q.shown = req[c].shown BY <3>1
    <3>3. t \notin Foreign BY <1>5, <2>5, OursThere
    <3>4. Seats(q) BY <2>1, <2>2, <3>2, <3>3 DEF Seats
    <3>5. Resolves(q) BY <1>4, <3>2 DEF Resolves
    <3>6. Fits(c, q) BY <3>2, <3>4, <3>5 DEF Fits, Refers, Asks, Counts, Defines, Writes
    <3>7. ~Writes(q) BY <3>2 DEF Writes
    <3> QED BY <1>1, <2>5, <3>1, <3>6, <3>7, RequestGoes
  <2> QED BY <2>2, <2>4, <2>5
<1>12. CASE O!Plain(c, d)
  <2> DEFINE names == {}
             r == [step |-> d, names |-> names]
  <2>1. d.kind \in {"markdown", "checklist", "link", "task", "verified"} /\ O!Show(c, d, {})
    BY <1>12 DEF O!Plain
  <2>2. r.step = d OBVIOUS
  <2>3. Complete(r)
    <3> HIDE DEF r
    <3> QED BY <2>1, <2>2 DEF Complete
  <2> QED BY <1>1, <1>2, <2>1, <2>3, ShowKeeps
<1> QED BY <1>3, <1>6, <1>7, <1>8, <1>9, <1>10, <1>11, <1>12

\* The seats of a team are of the organization.
LEMMA ListTeamMembersKeeps ==
    ASSUME O!ContentAssumption, ContentInv, NEW c \in Walkers, O!ListTeamMembers(c)
    PROVE  ContentInv'
<1>1. TablesSame BY TablesUntouched DEF O!ListTeamMembers
<1> DEFINE t == req[c].team
           d == req[c].step
           names == {t} \cup seats[t]
           r == [step |-> d, names |-> names]
<1>2. req[c].at = "members" /\ O!Show(c, d, names) BY DEF O!ListTeamMembers, O!At
<1>3. t \in OrgTeams /\ t \notin Foreign /\ d \in req[c].todo /\ d.kind = "team" /\ t \in d.refs
  BY <1>2 DEF ContentInv, CallersOK, Fits, Seats
<1>4. d \in Drafts BY <1>2, <1>3 DEF ContentInv, CallersOK, Fits, Resolves
<1>5. \A e \in d.refs : e = t BY <1>3, <1>4 DEF O!ContentAssumption
<1>6. names \cap Foreign = {} BY <1>3 DEF ContentInv, WorldOK
<1>7. r.step = d /\ r.names = names OBVIOUS
<1>8. \A e \in d.refs : e \in names BY <1>5
<1>9. Complete(r)
  <2> HIDE DEF r, names, d
  <2> QED BY <1>7, <1>8 DEF Complete
<1> HIDE DEF names, d
<1> QED BY <1>1, <1>2, <1>3, <1>6, <1>9, ShowKeeps DEF r

LEMMA ListForUserKeeps ==
    ASSUME ContentInv, NEW c \in Walkers, O!ListForUser(c)
    PROVE  ContentInv'
<1>1. TablesSame BY TablesUntouched DEF O!ListForUser
<1>2. O!Answer(c, 200) BY DEF O!ListForUser
<1> QED BY <1>1, <1>2, RequestEnds

\* What a request finds true of the person is true.
LEMMA CheckedHolds ==
    ASSUME O!ContentAssumption, ContentInv, NEW d \in Drafts, d.kind = "verified"
    PROVE  /\ d.check = "first_change_request" /\ Me \in open => d \in O!Holding
           /\ \A t \in OrgTeams : /\ d.check # "first_change_request" /\ O!Ours(t) /\ Me \in seats[t]
                               /\ d.refs \cap OrgTeams \subseteq {t}
                               => d \in O!Holding
<1>1. O!Check(d) => d \in O!Holding BY DEF O!Holding
<1>2. \A t \in OrgTeams : O!Ours(t) => t \in there
  BY OursThere DEF Ours, LiveTerms, O!ContentAssumption
<1> QED BY <1>1, <1>2 DEF O!Check

\* A step of which only the verdict is kept.
LEMMA PassedFits ==
    ASSUME NEW c \in Walkers, NEW q, NEW d \in earned[c], NEW saw, q = O!Passed(d, saw)
    PROVE  Fits(c, q) /\ ~Writes(q)
<1>1. q.at = "passed" /\ q.step = d BY DEF O!Passed, O!Asking
<1> QED BY <1>1 DEF Fits, Refers, Resolves, Seats, Asks, Counts, Defines, Writes

\* What was true of the person is noted anew when a request begins to ask.
LEMMA VerifyGoes ==
    ASSUME ContentInv, NEW c \in Walkers, NEW q, O!Goto(c, q), ~Writes(q), Fits(c, q)',
           earned' = [earned EXCEPT ![c] = O!Holding],
           UNCHANGED <<there, content, seats, flowLive, access, open, term, stepRows, outcome, saves>>
    PROVE  ContentInv'
<1>1. UNCHANGED <<there, seats, open, term, stepRows, outcome, saves>> OBVIOUS
<1>2. StepsOK' BY <1>1 DEF ContentInv, StepsOK, Established
<1>3. OutcomesOK' BY <1>1 DEF ContentInv, OutcomesOK
<1>4. TermsOK' BY <1>1 DEF ContentInv, TermsOK, TermsAreDistinct, LiveTerms, Clash
<1>5. earned' = [k \in Walkers |-> earned'[k]] /\ \A k \in Walkers : k # c => earned'[k] = earned[k]
  BY DEF ContentInv, WorldOK
<1>6. earned'[c] = O!Holding BY DEF ContentInv, WorldOK
<1>7. WorldOK'
  <2>1. O!Holding' = O!Holding BY <1>1 DEF O!Holding, O!Check
  <2>2. \A k \in Walkers : O!Holding \subseteq earned'[k] BY <1>5, <1>6 DEF ContentInv, WorldOK
  <2> QED BY <1>1, <1>5, <2>1, <2>2 DEF ContentInv, WorldOK
<1>8. TermsLast /\ Fewer BY <1>1 DEF TermsLast, Fewer, Ours, LiveTerms
<1>9. CallersOK'
  <2>1. saves \in Nat BY DEF ContentInv, StepsOK
  <2>2. \A k \in Walkers : k # c => earned[k] \subseteq earned'[k] BY <1>5
  <2> QED BY <1>1, <1>8, <2>1, <2>2, CallersGo DEF ContentInv
<1> QED BY <1>2, <1>3, <1>4, <1>7, <1>9 DEF ContentInv

LEMMA VerifyKeeps ==
    ASSUME O!ContentAssumption, ContentInv, NEW c \in Walkers, NEW d \in Drafts, O!Verify(c, d)
    PROVE  ContentInv'
<1>1. /\ earned' = [earned EXCEPT ![c] = O!Holding]
      /\ UNCHANGED <<there, content, seats, flowLive, access, open, term, stepRows, outcome, saves>>
  BY DEF O!Verify, O!world
<1>2. earned'[c] = O!Holding BY <1>1 DEF ContentInv, WorldOK
<1> DEFINE mine == {t \in OrgTeams : O!Ours(t) /\ Me \in seats[t]}
           asks == d.refs \cap OrgTeams
<1>3. d.kind = "verified"
      /\ IF d.check = "first_change_request" THEN
            IF \E r \in d.refs \cap Repositories : O!Ours(r) THEN O!Goto(c, O!Asking("access", d, saves))
            ELSE O!Answer(c, "pending")
         ELSE IF asks = {} THEN
            IF mine = {} THEN O!Answer(c, "no") ELSE O!Goto(c, O!Passed(d, saves))
         ELSE O!Goto(c, [at |-> "team", step |-> d, saw |-> saves, on |-> asks \subseteq mine])
  BY DEF O!Verify
<1>4. CASE O!Goto(c, O!Idle)
  <2>1. PICK q : q = O!Idle OBVIOUS
  <2>2. O!Goto(c, q) BY <1>4, <2>1
  <2>3. Fits(c, q)' /\ ~Writes(q) BY <2>1, IdleFits
  <2> QED BY <1>1, <2>2, <2>3, VerifyGoes
<1>5. CASE d.check = "first_change_request" /\ O!Goto(c, O!Asking("access", d, saves))
  <2>1. PICK q : q = O!Asking("access", d, saves) OBVIOUS
  <2>2. q.at = "access" /\ q.step = d BY <2>1 DEF O!Asking
  <2>3. Asks(c, q)' BY <1>3, <1>5, <2>2 DEF Asks
  <2>4. Fits(c, q)' BY <2>2, <2>3 DEF Fits, Refers, Resolves, Seats, Counts, Defines, Writes
  <2>5. ~Writes(q) BY <2>2 DEF Writes
  <2>6. O!Goto(c, q) BY <1>5, <2>1
  <2> QED BY <1>1, <2>4, <2>5, <2>6, VerifyGoes
<1>6. CASE d.check # "first_change_request" /\ asks = {} /\ mine # {} /\ O!Goto(c, O!Passed(d, saves))
  <2>1. d \in O!Holding BY <1>3, <1>6, CheckedHolds
  <2>2. PICK q : q = O!Passed(d, saves) OBVIOUS
  <2>3. q.at = "passed" /\ q.step = d BY <2>2 DEF O!Passed, O!Asking
  <2>4. Asks(c, q)' BY <1>2, <2>1, <2>3 DEF Asks
  <2>5. Fits(c, q)' BY <2>3, <2>4 DEF Fits, Refers, Resolves, Seats, Counts, Defines, Writes
  <2>6. ~Writes(q) BY <2>3 DEF Writes
  <2>7. O!Goto(c, q) BY <1>6, <2>2
  <2> QED BY <1>1, <2>5, <2>6, <2>7, VerifyGoes
<1>7. CASE d.check # "first_change_request" /\ asks # {}
           /\ O!Goto(c, [at |-> "team", step |-> d, saw |-> saves, on |-> asks \subseteq mine])
  <2> DEFINE on == asks \subseteq mine
  <2>1. PICK q : q = [at |-> "team", step |-> d, saw |-> saves, on |-> on] OBVIOUS
  <2>2. on => d \in O!Holding
    <3> SUFFICES ASSUME on PROVE d \in O!Holding OBVIOUS
    <3>1. PICK t \in asks : TRUE BY <1>7
    <3>2. asks \subseteq {t} BY <3>1 DEF O!ContentAssumption
    <3>3. t \in mine BY <3>1
    <3> QED BY <1>3, <1>7, <3>2, <3>3, CheckedHolds
  <2>3. O!Goto(c, q) BY <1>7, <2>1
  <2> HIDE DEF on
  <2>4. q.at = "team" /\ q.step = d /\ q.on = on BY <2>1
  <2>5. Asks(c, q)' BY <1>2, <2>2, <2>4 DEF Asks
  <2>6. Fits(c, q)' BY <2>4, <2>5 DEF Fits, Refers, Resolves, Seats, Counts, Defines, Writes
  <2>7. ~Writes(q) BY <2>4 DEF Writes
  <2> QED BY <1>1, <2>3, <2>6, <2>7, VerifyGoes
<1>8. \A status : O!Answer(c, status) => O!Goto(c, O!Idle) BY DEF O!Answer, O!Goto
<1> QED BY <1>3, <1>4, <1>5, <1>6, <1>7, <1>8

LEMMA TeamMembershipKeeps ==
    ASSUME ContentInv, NEW c \in Walkers, O!verifyTeamMembership(c)
    PROVE  ContentInv'
<1>1. TablesSame BY TablesUntouched DEF O!verifyTeamMembership
<1>2. req[c].at = "team" BY DEF O!verifyTeamMembership, O!At
<1>3. \/ O!Answer(c, "pending")
      \/ O!Answer(c, "no")
      \/ req[c].on /\ O!Goto(c, O!Passed(req[c].step, req[c].saw))
  BY DEF O!verifyTeamMembership
<1>4. CASE O!Answer(c, "pending") BY <1>1, <1>4, RequestEnds
<1>5. CASE O!Answer(c, "no") BY <1>1, <1>5, RequestEnds
<1>6. CASE req[c].on /\ O!Goto(c, O!Passed(req[c].step, req[c].saw))
  <2>1. req[c].step \in earned[c] BY <1>2, <1>6 DEF ContentInv, CallersOK, Fits, Asks
  <2>2. PICK q : q = O!Passed(req[c].step, req[c].saw) OBVIOUS
  <2>3. Fits(c, q) /\ ~Writes(q) BY <2>1, <2>2, PassedFits
  <2> QED BY <1>1, <1>6, <2>2, <2>3, RequestGoes
<1> QED BY <1>3, <1>4, <1>5, <1>6

LEMMA ResolveAccessKeeps ==
    ASSUME ContentInv, NEW c \in Walkers, O!ResolveAccess(c)
    PROVE  ContentInv'
<1>1. TablesSame BY TablesUntouched DEF O!ResolveAccess
<1>2. req[c].at = "access" BY DEF O!ResolveAccess, O!At
<1>3. \/ O!Answer(c, "pending") \/ O!Goto(c, O!Asking("list", req[c].step, req[c].saw))
  BY DEF O!ResolveAccess
<1>4. CASE O!Answer(c, "pending") BY <1>1, <1>4, RequestEnds
<1>5. CASE O!Goto(c, O!Asking("list", req[c].step, req[c].saw))
  <2>1. PICK q : q = O!Asking("list", req[c].step, req[c].saw) OBVIOUS
  <2>2. q.at = "list" /\ q.step = req[c].step BY <2>1 DEF O!Asking
  <2>3. Asks(c, q) BY <1>2, <2>2 DEF ContentInv, CallersOK, Fits, Asks
  <2>4. Fits(c, q) BY <2>2, <2>3 DEF Fits, Refers, Resolves, Seats, Counts, Defines, Writes
  <2>5. ~Writes(q) BY <2>2 DEF Writes
  <2> QED BY <1>1, <1>5, <2>1, <2>4, <2>5, RequestGoes
<1> QED BY <1>3, <1>4, <1>5

LEMMA ChangeRequestKeeps ==
    ASSUME O!ContentAssumption, ContentInv, NEW c \in Walkers, O!verifyFirstChangeRequest(c)
    PROVE  ContentInv'
<1>1. TablesSame BY TablesUntouched DEF O!verifyFirstChangeRequest
<1>2. req[c].at = "list" BY DEF O!verifyFirstChangeRequest, O!At
<1>3. \/ O!Answer(c, "pending")
      \/ O!Answer(c, "no")
      \/ Me \in open /\ O!Goto(c, O!Passed(req[c].step, req[c].saw))
  BY DEF O!verifyFirstChangeRequest
<1>4. CASE O!Answer(c, "pending") BY <1>1, <1>4, RequestEnds
<1>5. CASE O!Answer(c, "no") BY <1>1, <1>5, RequestEnds
<1>6. CASE Me \in open /\ O!Goto(c, O!Passed(req[c].step, req[c].saw))
  <2>1. req[c].step \in Drafts /\ req[c].step.kind = "verified" /\ req[c].step.check = "first_change_request"
    BY <1>2 DEF ContentInv, CallersOK, Fits, Asks
  <2>2. req[c].step \in earned[c] BY <1>6, <2>1, CheckedHolds DEF ContentInv, WorldOK
  <2>3. PICK q : q = O!Passed(req[c].step, req[c].saw) OBVIOUS
  <2>4. Fits(c, q) /\ ~Writes(q) BY <2>2, <2>3, PassedFits
  <2> QED BY <1>1, <1>6, <2>3, <2>4, RequestGoes
<1> QED BY <1>3, <1>4, <1>5, <1>6

\* The dashboard.
LEMMA ListAssignmentsKeeps ==
    ASSUME ContentInv, NEW c \in Walkers, O!ListAssignments(c)
    PROVE  ContentInv'
<1>1. TablesSame BY TablesUntouched DEF O!ListAssignments
<1>2. PICK q : q = [at |-> "steps", named |-> flowLive, saw |-> saves] OBVIOUS
<1>3. q.at = "steps" /\ q.saw = saves BY <1>2
<1>4. Counts(q) BY <1>3 DEF Counts, ContentInv, StepsOK
<1>5. Fits(c, q) BY <1>3, <1>4 DEF Fits, Refers, Resolves, Seats, Asks, Defines, Writes
<1>6. ~Writes(q) BY <1>3 DEF Writes
<1>7. O!Goto(c, q) BY <1>2 DEF O!ListAssignments
<1> QED BY <1>1, <1>5, <1>6, <1>7, RequestGoes

LEMMA CountStepsKeeps ==
    ASSUME ContentInv, NEW c \in Walkers, O!CountOnboardingStepsByFlow(c)
    PROVE  ContentInv'
<1>1. TablesSame BY TablesUntouched DEF O!CountOnboardingStepsByFlow
<1> DEFINE total == IF req[c].named THEN O!Cardinality(stepRows) ELSE 0
<1>2. req[c].at = "steps" /\ O!Goto(c, [at |-> "progress", named |-> req[c].named, saw |-> req[c].saw, total |-> total])
  BY DEF O!CountOnboardingStepsByFlow, O!At
<1>3. req[c].named => total = Cardinality(stepRows) BY SizesThere
<1> HIDE DEF total
<1>4. PICK q : q = [at |-> "progress", named |-> req[c].named, saw |-> req[c].saw, total |-> total] OBVIOUS
<1>5. q.at = "progress" /\ q.named = req[c].named /\ q.saw = req[c].saw /\ q.total = total BY <1>4
<1>6. Counts(q) BY <1>2, <1>3, <1>5 DEF Counts, ContentInv, CallersOK, Fits
<1>7. Fits(c, q) BY <1>5, <1>6 DEF Fits, Refers, Resolves, Seats, Asks, Defines, Writes
<1>8. ~Writes(q) BY <1>5 DEF Writes
<1> QED BY <1>1, <1>2, <1>4, <1>7, <1>8, RequestGoes

\* What was walked is among the steps.
LEMMA CountProgressKeeps ==
    ASSUME O!ContentAssumption, ContentInv, NEW c \in Walkers, O!CountOnboardingProgressByAssignment(c)
    PROVE  ContentInv'
<1>1. TablesSame BY TablesUntouched DEF O!CountOnboardingProgressByAssignment
<1> DEFINE walked == {d \in Drafts : outcome[d] = "done"}
<1>2. req[c].at = "progress" /\ O!Goto(c, O!Board(c, walked))
  BY DEF O!CountOnboardingProgressByAssignment, O!At
<1>3. walked \subseteq stepRows BY DEF ContentInv, OutcomesOK
<1>4. IsFiniteSet(Drafts) BY SizesThere DEF O!ContentAssumption
<1>5. stepRows \in SUBSET Drafts BY DEF ContentInv, StepsOK
<1> HIDE DEF walked
<1>6. IsFiniteSet(stepRows) BY <1>4, <1>5, FS_Subset
<1>7. Cardinality(walked) <= Cardinality(stepRows) BY <1>3, <1>6, FS_Subset
<1>8. PICK q : q = O!Board(c, walked) OBVIOUS
<1>9. /\ q.at = "board" /\ q.named = req[c].named /\ q.saw = req[c].saw /\ q.total = req[c].total
      /\ q.done = Cardinality(walked)
  BY <1>8, SizesThere DEF O!Board
<1>10. Counts(q) BY <1>2, <1>7, <1>9 DEF Counts, ContentInv, CallersOK, Fits
<1>11. Fits(c, q) BY <1>9, <1>10 DEF Fits, Refers, Resolves, Seats, Asks, Defines, Writes
<1>12. ~Writes(q) BY <1>9 DEF Writes
<1> QED BY <1>1, <1>2, <1>8, <1>11, <1>12, RequestGoes

LEMMA DashboardKeeps ==
    ASSUME ContentInv, NEW c \in Walkers, O!Dashboard(c)
    PROVE  ContentInv'
<1>1. TablesSame BY TablesUntouched DEF O!Dashboard
<1>2. O!Answer(c, 200) BY DEF O!Dashboard
<1> QED BY <1>1, <1>2, RequestEnds

\* A term is asked for: a new row is nobody else's.
LEMMA SaveTermKeeps ==
    ASSUME ContentInv, NEW c \in Walkers, NEW t \in Terms, NEW name \in Names \cup {""}, O!SaveGlossaryTerm(c, t, name)
    PROVE  ContentInv'
<1>1. TablesSame BY TablesUntouched DEF O!SaveGlossaryTerm
<1> DEFINE new == term[t] = ""
<1>2. /\ new => \A k \in Walkers : req[k].at \in {"term", "write"} => req[k].row # t
      /\ \/ O!Answer(c, 400)
         \/ name # "" /\ O!Goto(c, [at |-> "term", row |-> t, name |-> name, new |-> new])
  BY DEF O!SaveGlossaryTerm
<1>3. CASE O!Answer(c, 400) BY <1>1, <1>3, RequestEnds
<1>4. CASE name # "" /\ O!Goto(c, [at |-> "term", row |-> t, name |-> name, new |-> new])
  <2>1. PICK q : q = [at |-> "term", row |-> t, name |-> name, new |-> new] OBVIOUS
  <2>2. O!Goto(c, q) BY <1>4, <2>1
  <2>3. new = (term[t] = "") OBVIOUS
  <2> HIDE DEF new
  <2>4. q.at = "term" /\ q.row = t /\ q.name = name /\ q.new = new BY <2>1
  <2>5. Defines(q) BY <1>4, <2>3, <2>4 DEF Defines, Writes
  <2>6. Fits(c, q) BY <2>4, <2>5 DEF Fits, Refers, Resolves, Seats, Asks, Counts
  <2>7. ASSUME NEW k \in Walkers, Writes(req[k]), req[k].row = q.row PROVE ~q.new /\ ~req[k].new
    <3>1. ~new BY <1>2, <2>4, <2>7 DEF Writes
    <3>2. req[k].new => term[req[k].row] = "" BY <2>7 DEF ContentInv, CallersOK, Fits, Defines
    <3> QED BY <2>3, <2>4, <2>7, <3>1, <3>2
  <2> QED BY <1>1, <2>2, <2>6, <2>7, RequestGoes
<1> QED BY <1>2, <1>3, <1>4

LEMMA FindTermKeeps ==
    ASSUME ContentInv, NEW c \in Walkers, O!findTermByName(c)
    PROVE  ContentInv'
<1>1. TablesSame BY TablesUntouched DEF O!findTermByName
<1>2. req[c].at = "term" BY DEF O!findTermByName, O!At
<1>3. \/ O!Answer(c, 409)
      \/ O!Goto(c, [at |-> "write", row |-> req[c].row, name |-> req[c].name, new |-> req[c].new])
  BY DEF O!findTermByName
<1>4. CASE O!Answer(c, 409) BY <1>1, <1>4, RequestEnds
<1>5. CASE O!Goto(c, [at |-> "write", row |-> req[c].row, name |-> req[c].name, new |-> req[c].new])
  <2>1. PICK q : q = [at |-> "write", row |-> req[c].row, name |-> req[c].name, new |-> req[c].new] OBVIOUS
  <2>2. q.at = "write" /\ q.row = req[c].row /\ q.name = req[c].name /\ q.new = req[c].new BY <2>1
  <2>3. Defines(q) BY <1>2, <2>2 DEF ContentInv, CallersOK, Fits, Defines, Writes
  <2>4. Fits(c, q) BY <2>2, <2>3 DEF Fits, Refers, Resolves, Seats, Asks, Counts
  <2>5. Writes(req[c]) BY <1>2 DEF Writes
  <2> QED BY <1>1, <1>5, <2>1, <2>2, <2>4, <2>5, RequestGoes
<1> QED BY <1>3, <1>4, <1>5

\* The steps that are saved name what is of the organization, and outcomes of
\* the others go.
LEMMA ReplaceStepRowsKeeps ==
    ASSUME ContentInv, NEW c \in Walkers, O!ReplaceOnboardingSteps(c)
    PROVE  ContentInv'
<1>1. /\ req[c].at = "refs" /\ req[c].todo = {}
      /\ UNCHANGED <<there, content, seats, flowLive, access, open, term, earned>>
  BY DEF O!ReplaceOnboardingSteps, O!At, O!world
<1>2. CASE O!Answer(c, 500) /\ UNCHANGED <<stepRows, outcome, saves>>
  <2>1. TablesSame BY <1>1, <1>2 DEF TablesSame
  <2> QED BY <1>2, <2>1, RequestEnds
<1>3. CASE /\ stepRows' = req[c].list /\ saves' = saves + 1
           /\ \E was \in O!Edits(req[c].list) :
                 outcome' = [d \in Drafts |-> IF d \in DOMAIN was THEN outcome[was[d]] ELSE "none"]
           /\ O!Answer(c, 200)
  <2>1. UNCHANGED <<there, seats, open, term, earned>> BY <1>1
  <2>2. Refers(req[c]) BY DEF ContentInv, CallersOK, Fits
  <2>3. stepRows' \subseteq Drafts /\ \A d \in stepRows' : Established(d)
    <3>1. req[c].list \subseteq Drafts
          /\ \A d \in req[c].list : \A e \in d.refs : e \notin Foreign /\ (e \in Terms => term[e] # "")
      BY <1>1, <2>2 DEF Refers
    <3> QED BY <1>3, <3>1 DEF Established
  <2>4. StepsOK'
    <3>1. saves' \in Nat BY <1>3 DEF ContentInv, StepsOK
    <3> QED BY <2>1, <2>3, <3>1 DEF StepsOK, Established
  <2>5. OutcomesOK'
    <3>1. PICK was \in O!Edits(req[c].list) :
             outcome' = [d \in Drafts |-> IF d \in DOMAIN was THEN outcome[was[d]] ELSE "none"]
      BY <1>3
    <3>2. outcome' = [d \in Drafts |-> outcome'[d]] BY <3>1
    <3>3. PICK kept \in SUBSET req[c].list : was \in [kept -> stepRows] BY DEF O!Edits
    <3>4. ASSUME NEW d \in Drafts
          PROVE  outcome'[d] \in {"none", "done", "skipped"} /\ (outcome'[d] # "none" => d \in stepRows')
      <4>1. CASE d \in DOMAIN was
        <5>1. d \in req[c].list /\ was[d] \in Drafts BY <3>3, <4>1 DEF ContentInv, StepsOK
        <5>2. outcome'[d] = outcome[was[d]] BY <3>1, <4>1
        <5> QED BY <1>3, <5>1, <5>2 DEF ContentInv, OutcomesOK
      <4>2. CASE d \notin DOMAIN was BY <3>1, <4>2
      <4> QED BY <4>1, <4>2
    <3> QED BY <3>2, <3>4 DEF OutcomesOK
  <2>6. TermsOK' BY <2>1 DEF ContentInv, TermsOK, TermsAreDistinct, LiveTerms, Clash
  <2>7. WorldOK' BY <2>1 DEF ContentInv, WorldOK, O!Holding, O!Check
  <2>8. TermsLast /\ Fewer BY <2>1 DEF TermsLast, Fewer, Ours, LiveTerms
  <2>9. O!Goto(c, O!Idle) BY <1>3 DEF O!Answer, O!Goto
  <2>10. saves \in Nat /\ saves' \in Nat /\ saves <= saves' /\ saves' # saves BY <1>3 DEF ContentInv, StepsOK
  <2>11. CallersOK'
    <3>1. PICK q : q = O!Idle OBVIOUS
    <3>2. Fits(c, q)' /\ ~Writes(q) BY <3>1, IdleFits
    <3>3. O!Goto(c, q) BY <2>9, <3>1
    <3> QED BY <2>1, <2>8, <2>10, <3>2, <3>3, CallersGo DEF ContentInv
  <2> QED BY <2>4, <2>5, <2>6, <2>7, <2>11 DEF ContentInv
<1> QED BY <1>2, <1>3 DEF O!ReplaceOnboardingSteps

\* An outcome is recorded.
LEMMA OutcomeKeeps ==
    ASSUME ContentInv, NEW c \in Walkers, NEW d \in stepRows, NEW status \in {"done", "skipped"}, O!Goto(c, O!Idle),
           outcome' = [outcome EXCEPT ![d] = status],
           UNCHANGED <<there, content, seats, flowLive, access, open, term, stepRows, earned, saves>>
    PROVE  ContentInv'
<1>1. UNCHANGED <<there, seats, open, term, stepRows, earned, saves>> OBVIOUS
<1>2. StepsOK' BY <1>1 DEF ContentInv, StepsOK, Established
<1>3. OutcomesOK'
  <2>1. outcome' = [x \in Drafts |-> outcome'[x]] BY DEF ContentInv, OutcomesOK
  <2>2. \A x \in Drafts : x # d => outcome'[x] = outcome[x] BY DEF ContentInv, OutcomesOK
  <2>3. d \in Drafts => outcome'[d] = status BY DEF ContentInv, OutcomesOK
  <2> QED BY <1>1, <2>1, <2>2, <2>3 DEF ContentInv, OutcomesOK
<1>4. TermsOK' BY <1>1 DEF ContentInv, TermsOK, TermsAreDistinct, LiveTerms, Clash
<1>5. WorldOK' BY <1>1 DEF ContentInv, WorldOK, O!Holding, O!Check
<1>6. TermsLast /\ Fewer BY <1>1 DEF TermsLast, Fewer, Ours, LiveTerms
<1>7. CallersOK'
  <2>1. PICK q : q = O!Idle OBVIOUS
  <2>2. Fits(c, q)' /\ ~Writes(q) BY <2>1, IdleFits
  <2>3. O!Goto(c, q) BY <2>1
  <2>4. saves \in Nat BY DEF ContentInv, StepsOK
  <2> QED BY <1>1, <1>6, <2>2, <2>3, <2>4, CallersGo DEF ContentInv
<1> QED BY <1>2, <1>3, <1>4, <1>5, <1>7 DEF ContentInv

LEMMA MarkStepKeeps ==
    ASSUME ContentInv, NEW c \in Walkers, NEW d, NEW status \in {"done", "skipped"}, O!MarkStep(c, d, status)
    PROVE  ContentInv'
<1>1. d \in stepRows /\ O!Goto(c, O!Idle) /\ outcome' = [outcome EXCEPT ![d] = status]
      /\ UNCHANGED <<there, content, seats, flowLive, access, open, term, stepRows, earned, saves>>
  BY DEF O!MarkStep, O!Answer, O!Goto, O!world
<1> QED BY <1>1, OutcomeKeeps

LEMMA RecordPassKeeps ==
    ASSUME ContentInv, NEW c \in Walkers, O!RecordPass(c)
    PROVE  ContentInv'
<1>1. /\ UNCHANGED <<there, content, seats, flowLive, access, open, term, stepRows, earned, saves>>
      /\ \A status : O!Answer(c, status) => O!Goto(c, O!Idle)
  BY DEF O!RecordPass, O!Answer, O!Goto, O!world
<1>2. CASE O!Answer(c, 500) /\ UNCHANGED outcome
  <2>1. TablesSame BY <1>1, <1>2 DEF TablesSame
  <2> QED BY <1>2, <2>1, RequestEnds
<1>3. CASE O!Answer(c, "passed") /\ \E d \in stepRows : outcome' = [outcome EXCEPT ![d] = "done"]
  <2>1. PICK d \in stepRows : outcome' = [outcome EXCEPT ![d] = "done"] BY <1>3
  <2>2. PICK status : status = "done" OBVIOUS
  <2> QED BY <1>1, <1>3, <2>1, <2>2, OutcomeKeeps
<1> QED BY <1>2, <1>3 DEF O!RecordPass

LEMMA SavesSame ==
    ASSUME saves \in Nat, saves' = saves
    PROVE  saves' \in Nat /\ saves <= saves'
OBVIOUS

\* The glossary: the index keeps the spellings apart.
LEMMA TermKeeps ==
    ASSUME O!ContentAssumption, ContentInv, NEW c \in Walkers, NEW t \in Terms, NEW name, O!Goto(c, O!Idle),
           term' = [term EXCEPT ![t] = name],
           \/ name = "gone" /\ t \in LiveTerms
           \/ name \in Names /\ ~Clash(t, name) /\ (t \in LiveTerms \/ term[t] = ""),
           \A k \in Walkers : k # c /\ Writes(req[k]) /\ req[k].new => req[k].row # t,
           UNCHANGED <<there, content, seats, flowLive, access, open, stepRows, outcome, earned, saves>>
    PROVE  ContentInv'
<1>1. UNCHANGED <<there, seats, open, stepRows, outcome, earned, saves>> OBVIOUS
<1>2. /\ term' = [x \in Terms |-> term'[x]] /\ term'[t] = name
      /\ \A x \in Terms : x # t => term'[x] = term[x]
  BY DEF ContentInv, TermsOK
<1>3. "" \notin Names /\ "gone" \notin Names BY DEF O!ContentAssumption
<1>4. TermsLast BY <1>2, <1>3 DEF TermsLast
<1>5. Fewer
  <2> SUFFICES ASSUME NEW e, Ours(e)', ~Ours(e) PROVE e \in Terms /\ term[e] = "" BY DEF Fewer
  <2>1. CASE e = t
    <3>1. t \notin LiveTerms \/ t \in Foreign BY <2>1 DEF Ours
    <3>2. t \notin Foreign BY <2>1 DEF Ours
    <3>3. term[t] = "" \/ name = "gone" BY <3>1, <3>2
    <3>4. name # "gone" BY <3>1, <3>2, <1>3
    <3> QED BY <2>1, <3>3, <3>4
  <2>2. CASE e # t BY <1>1, <1>2, <2>2 DEF Ours, LiveTerms
  <2> QED BY <2>1, <2>2
<1>6. StepsOK'
  <2>1. \A d \in stepRows : Established(d)' BY <1>4, EstablishedLasts DEF ContentInv, StepsOK
  <2> QED BY <1>1, <2>1 DEF ContentInv, StepsOK
<1>7. OutcomesOK' BY <1>1 DEF ContentInv, OutcomesOK
<1>8. TermsOK'
  <2>1. \A x \in Terms : term'[x] \in Names \cup {"", "gone"} BY <1>2 DEF ContentInv, TermsOK
  <2>2. \A x \in Terms : x # t => (x \in LiveTerms' <=> x \in LiveTerms) BY <1>2 DEF LiveTerms
  <2>3. TermsAreDistinct'
    <3> SUFFICES ASSUME NEW a \in LiveTerms', NEW b \in LiveTerms', a # b, Lower[term'[b]] = Lower[term'[a]]
                 PROVE  FALSE
      BY DEF TermsAreDistinct, Clash
    <3>1. a \in Terms /\ b \in Terms BY DEF LiveTerms
    <3>2. CASE a # t /\ b # t
      BY <1>2, <2>2, <3>1, <3>2 DEF ContentInv, TermsOK, TermsAreDistinct, Clash
    <3>3. CASE a = t
      <4>1. name \in Names /\ ~Clash(t, name) BY <1>2, <1>3, <3>3 DEF LiveTerms
      <4>2. b \in LiveTerms /\ term'[b] = term[b] BY <1>2, <2>2, <3>1, <3>3
      <4> QED BY <1>2, <3>3, <4>1, <4>2 DEF Clash
    <3>4. CASE b = t
      <4>1. name \in Names /\ ~Clash(t, name) BY <1>2, <1>3, <3>4 DEF LiveTerms
      <4>2. a \in LiveTerms /\ term'[a] = term[a] BY <1>2, <2>2, <3>1, <3>4
      <4> QED BY <1>2, <3>4, <4>1, <4>2 DEF Clash
    <3> QED BY <3>2, <3>3, <3>4
  <2> QED BY <1>2, <2>1, <2>3 DEF TermsOK
<1>9. WorldOK' BY <1>1 DEF ContentInv, WorldOK, O!Holding, O!Check
<1>10. CallersOK'
  <2>1. PICK q : q = O!Idle OBVIOUS
  <2>2. Fits(c, q)' /\ ~Writes(q) BY <2>1, IdleFits
  <2>3. O!Goto(c, q) BY <2>1
  <2>4. saves \in Nat BY DEF ContentInv, StepsOK
  <2>5. \A k \in Walkers : k # c /\ Writes(req[k]) /\ req[k].new /\ req[k].row \in Terms =>
            term'[req[k].row] = term[req[k].row]
    BY <1>2
  <2>6. saves' \in Nat /\ saves <= saves' BY <1>1, <2>4, SavesSame, Zenon
  <2>7. (\A k \in Walkers : earned[k] \subseteq earned'[k]) /\ stepRows' = stepRows BY <1>1
  <2>8. CallersOK BY DEF ContentInv
  <2> QED BY <1>4, <1>5, <2>2, <2>3, <2>4, <2>5, <2>6, <2>7, <2>8, CallersGo
<1> QED BY <1>6, <1>7, <1>8, <1>9, <1>10 DEF ContentInv

LEMMA WriteTermKeeps ==
    ASSUME O!ContentAssumption, ContentInv, NEW c \in Walkers, O!WriteGlossaryTerm(c)
    PROVE  ContentInv'
<1>1. PICK t, name : t = req[c].row /\ name = req[c].name OBVIOUS
<1>2. /\ req[c].at = "write" /\ O!Goto(c, O!Idle)
      /\ UNCHANGED <<there, content, seats, flowLive, access, open, stepRows, outcome, earned, saves>>
      /\ \/ (req[c].new \/ t \in LiveTerms) /\ ~Clash(t, name) /\ term' = [term EXCEPT ![t] = name]
         \/ UNCHANGED term
  BY <1>1, OursThere DEF O!WriteGlossaryTerm, O!TermIsFree, O!Answer, O!Goto, O!At, O!world
<1>3. CASE UNCHANGED term
  <2>1. TablesSame BY <1>2, <1>3 DEF TablesSame
  <2>2. O!Answer(c, 200) BY <1>2 DEF O!Answer, O!Goto
  <2> QED BY <2>1, <2>2, RequestEnds
<1>4. CASE (req[c].new \/ t \in LiveTerms) /\ ~Clash(t, name) /\ term' = [term EXCEPT ![t] = name]
  <2>1. Writes(req[c]) BY <1>2 DEF Writes
  <2>2. t \in Terms /\ name \in Names /\ (req[c].new => term[t] = "")
    BY <1>1, <2>1 DEF ContentInv, CallersOK, Fits, Defines
  <2>3. \A k \in Walkers : k # c /\ Writes(req[k]) /\ req[k].new => req[k].row # t
    BY <1>1, <2>1 DEF ContentInv, CallersOK, NewRows
  <2> QED BY <1>2, <1>4, <2>2, <2>3, TermKeeps, ZenonT(60)
<1> QED BY <1>2, <1>3, <1>4

LEMMA DeleteTermKeeps ==
    ASSUME O!ContentAssumption, ContentInv, NEW c \in Walkers, NEW t \in Terms, O!DeleteGlossaryTerm(c, t)
    PROVE  ContentInv'
<1>1. /\ O!Goto(c, O!Idle)
      /\ UNCHANGED <<there, content, seats, flowLive, access, open, stepRows, outcome, earned, saves>>
      /\ \/ t \in LiveTerms /\ term' = [term EXCEPT ![t] = "gone"]
         \/ UNCHANGED term
  BY OursThere DEF O!DeleteGlossaryTerm, O!Answer, O!Goto, O!world
<1>2. CASE UNCHANGED term
  <2>1. TablesSame BY <1>1, <1>2 DEF TablesSame
  <2>2. O!Answer(c, 200) BY <1>1 DEF O!Answer, O!Goto
  <2> QED BY <2>1, <2>2, RequestEnds
<1>3. CASE t \in LiveTerms /\ term' = [term EXCEPT ![t] = "gone"]
  <2>1. term[t] # "" BY <1>3 DEF LiveTerms, O!ContentAssumption
  <2>2. \A k \in Walkers : Writes(req[k]) /\ req[k].new => req[k].row # t
    BY <2>1 DEF ContentInv, CallersOK, Fits, Defines
  <2>3. PICK name : name = "gone" OBVIOUS
  <2> QED BY <1>1, <1>3, <2>2, <2>3, TermKeeps
<1> QED BY <1>1, <1>2, <1>3

\* The requests wait while something else happens.
LEMMA CallersStay ==
    ASSUME CallersOK, TermsLast, Fewer, UNCHANGED <<req, term>>,
           \A c \in Walkers : earned[c] \subseteq earned'[c], saves \in Nat, saves' = saves, stepRows' = stepRows
    PROVE  CallersOK'
<1>1. ASSUME NEW c \in Walkers PROVE Fits(c, req[c])'
  <2>1. PICK q : q = req[c] OBVIOUS
  <2>2. Fits(c, q) BY <2>1 DEF CallersOK
  <2>3. Writes(q) /\ q.new /\ q.row \in Terms => term'[q.row] = term[q.row] OBVIOUS
  <2>4. saves' \in Nat /\ saves <= saves' OBVIOUS
  <2>5. Fits(c, q)' BY <2>2, <2>3, <2>4, FitsLasts
  <2>6. q = req'[c] BY <2>1
  <2> QED BY <2>5, <2>6
<1>2. NewRows' BY DEF CallersOK, NewRows, Writes
<1>3. req' = [c \in Walkers |-> req'[c]] BY DEF CallersOK
<1> QED BY <1>1, <1>2, <1>3 DEF CallersOK

\* What the rest of the organization does: things go, a check that becomes true
\* is noted, and who is seated is one of its people.
LEMMA WorldKeeps ==
    ASSUME O!ContentAssumption, ContentInv, O!World
    PROVE  ContentInv'
<1>1. O!Earn /\ UNCHANGED <<term, stepRows, outcome, req, saves>> BY DEF O!World
<1>2. /\ earned' = [c \in Walkers |-> earned'[c]]
      /\ \A c \in Walkers : earned[c] \subseteq earned'[c] /\ O!Holding' \subseteq earned'[c]
  BY <1>1 DEF O!Earn
<1>3. there' \subseteq there
  BY DEF O!World, O!Delete, O!Generate, O!Seat, O!Grant, O!ChangeRequest, O!DeleteFlow
<1>4. seats' = [t \in OrgTeams |-> seats'[t]] /\ \A t \in OrgTeams : seats'[t] \cap Foreign = {}
  <2>1. seats = [t \in OrgTeams |-> seats[t]] /\ \A t \in OrgTeams : seats[t] \cap Foreign = {}
    BY DEF ContentInv, WorldOK
  <2>2. CASE seats' = seats BY <2>1, <2>2
  <2>3. CASE \E t \in OrgTeams : O!Seat(t)
    <3>1. PICK t \in OrgTeams : O!Seat(t) BY <2>3
    <3>2. PICK S : seats' = [seats EXCEPT ![t] = S] /\ (S = seats[t] \ {Me} \/ S = seats[t] \cup {Me})
      BY <3>1 DEF O!Seat
    <3>3. Me \notin Foreign BY DEF O!ContentAssumption
    <3>4. S \cap Foreign = {} BY <2>1, <3>2, <3>3
    <3>5. seats' = [x \in OrgTeams |-> IF x = t THEN S ELSE seats[x]] BY <2>1, <3>2
    <3> QED BY <2>1, <3>4, <3>5
  <2> QED BY <2>2, <2>3 DEF O!World, O!Delete, O!Generate, O!Grant, O!ChangeRequest, O!DeleteFlow
<1>5. StepsOK' BY <1>1 DEF ContentInv, StepsOK, Established
<1>6. OutcomesOK' BY <1>1, <1>2 DEF ContentInv, OutcomesOK
<1>7. TermsOK' BY <1>1 DEF ContentInv, TermsOK, TermsAreDistinct, LiveTerms, Clash
<1>8. WorldOK'
  <2>1. there' \cap Terms = {} BY <1>3 DEF ContentInv, WorldOK
  <2> QED BY <1>2, <1>4, <2>1 DEF WorldOK
<1>9. TermsLast BY <1>1 DEF TermsLast
<1>10. Fewer BY <1>1, <1>3 DEF Fewer, Ours, LiveTerms
<1>11. CallersOK' BY <1>1, <1>2, <1>9, <1>10, CallersStay DEF ContentInv, StepsOK
<1> QED BY <1>5, <1>6, <1>7, <1>8, <1>11 DEF ContentInv

LEMMA ContentStart ==
    ASSUME O!ContentAssumption, O!Init
    PROVE  ContentInv
<1>1. /\ there = O!Entities \ Terms /\ open = {} /\ stepRows = {} /\ saves = 0
      /\ seats = [t \in OrgTeams |-> People \ (Foreign \cup {Me})]
      /\ term = [t \in Terms |-> ""] /\ outcome = [d \in Drafts |-> "none"]
      /\ req = [c \in Walkers |-> O!Idle] /\ earned = [c \in Walkers |-> {}]
  BY DEF O!Init
<1>2. CallersOK
  <2>1. \A c \in Walkers : req[c] = O!Idle BY <1>1
  <2>2. req = [c \in Walkers |-> req[c]] BY <1>1
  <2>3. \A c \in Walkers : Fits(c, req[c]) /\ ~Writes(req[c]) BY <2>1, IdleFits
  <2>4. NewRows BY <2>3 DEF NewRows
  <2> QED BY <2>2, <2>3, <2>4 DEF CallersOK
<1>3. StepsOK BY <1>1 DEF StepsOK
<1>4. OutcomesOK BY <1>1 DEF OutcomesOK
<1>5. TermsOK
  <2>1. "" \notin Names BY DEF O!ContentAssumption
  <2>2. LiveTerms = {} BY <1>1, <2>1 DEF LiveTerms
  <2> QED BY <1>1, <2>2 DEF TermsOK, TermsAreDistinct
<1>6. WorldOK
  <2>1. O!Holding = {} BY <1>1 DEF O!Holding, O!Check
  <2> QED BY <1>1, <2>1 DEF WorldOK
<1> QED BY <1>2, <1>3, <1>4, <1>5, <1>6 DEF ContentInv

LEMMA ContentStep ==
    ASSUME O!ContentAssumption, ContentInv, [O!Next]_O!vars
    PROVE  ContentInv'
<1>1. ASSUME NEW c \in Walkers, O!Walk(c) PROVE ContentInv'
  BY <1>1, BuildRunKeeps, ResolveKeeps, ListTeamMembersKeeps, ListForUserKeeps, ReplaceStepsKeeps,
     ValidateReferencesKeeps, ReplaceStepRowsKeeps
  DEF O!Walk
<1>2. ASSUME NEW c \in Walkers, O!Prove(c) PROVE ContentInv'
  BY <1>2, VerifyKeeps, TeamMembershipKeeps, ResolveAccessKeeps, ChangeRequestKeeps, RecordPassKeeps
  DEF O!Prove
<1>3. ASSUME NEW c \in Walkers, O!Count(c) PROVE ContentInv'
  BY <1>3, ListAssignmentsKeeps, CountStepsKeeps, CountProgressKeeps, DashboardKeeps, MarkStepKeeps DEF O!Count
<1>4. ASSUME NEW c \in Walkers, O!Define(c) PROVE ContentInv'
  BY <1>4, SaveTermKeeps, DeleteTermKeeps, FindTermKeeps, WriteTermKeeps DEF O!Define
<1>5. ASSUME UNCHANGED O!vars PROVE ContentInv'
  <2>1. TablesSame /\ UNCHANGED req BY <1>5 DEF O!vars, TablesSame
  <2>2. StepsOK' /\ OutcomesOK' /\ TermsOK' /\ WorldOK' /\ TermsLast /\ Fewer BY <2>1, TablesStay
  <2>3. CallersOK' BY <2>1, <2>2, CallersStay DEF TablesSame, ContentInv, StepsOK
  <2> QED BY <2>2, <2>3 DEF ContentInv
<1> QED BY <1>1, <1>2, <1>3, <1>4, <1>5, WorldKeeps DEF O!Next

LEMMA ContentFollows ==
    ASSUME ContentInv
    PROVE  ContentHolds
<1>1. ContentTypes BY DEF ContentInv, StepsOK, OutcomesOK, TermsOK, ContentTypes
<1>2. \A c \in Walkers : req[c].at = "resolve" => \A r \in req[c].shown : ShownRight(r)
  BY DEF ContentInv, CallersOK, Fits, Resolves
<1>3. NothingForeignIsShown BY <1>2 DEF ContentInv, StepsOK, Established, ShownRight, NothingForeignIsShown
<1>4. WhatExistsIsShown
  <2> SUFFICES ASSUME NEW c \in Walkers, req[c].at = "resolve", NEW r \in req[c].shown
               PROVE  Complete(r)
    BY DEF WhatExistsIsShown, Complete
  <2> QED BY <1>2 DEF ShownRight
<1>5. PassedWasTrue BY DEF ContentInv, CallersOK, Fits, Asks, PassedWasTrue
<1>6. DashboardAddsUp BY DEF ContentInv, CallersOK, Fits, Counts, DashboardAddsUp
<1>7. TermsAreDistinct BY DEF ContentInv, TermsOK
<1> QED BY <1>1, <1>3, <1>4, <1>5, <1>6, <1>7 DEF ContentHolds

(* A walk shows what its steps name, still exists and is of the           *)
(* organization, and nothing of others; who is told that a check passed,  *)
(* of that person it was true while it was asked; the dashboard adds up,  *)
(* and terms of the glossary are distinct, whatever is saved, deleted and *)
(* asked for between the queries (onboarding_service.go,                  *)
(* onboarding_run.go, onboarding_verify.go).                              *)
THEOREM ContentIsTrue ==
    ASSUME O!ContentAssumption
    PROVE  O!Spec => []ContentHolds
<1>1. O!Init => ContentInv BY ContentStart
<1>2. ContentInv /\ [O!Next]_O!vars => ContentInv' BY ContentStep
<1>3. ContentInv => ContentHolds BY ContentFollows
<1> QED BY <1>1, <1>2, <1>3, PTL DEF O!Spec
================================================================================

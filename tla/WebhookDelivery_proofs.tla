----------------------- MODULE WebhookDelivery_proofs -----------------------
(***************************************************************************)
(* What holds of WebhookDelivery for every number of deliveries, receivers, *)
(* workers, redeliveries and crashes.                                       *)
(*                                                                         *)
(* The argument: a delivery never has more than one unit of work, be it a   *)
(* queued task, a worker that runs it or the receiver about to queue it     *)
(* (OneUnit).  So a row is written by one actor at a time, and once its     *)
(* sync is enqueued the row is past the statuses a worker takes up.         *)
(***************************************************************************)
EXTENDS WebhookDelivery, HookTables, FiniteSetTheorems, TLAPS

CONSTANT MaxHooks  \* secrets that may be generated for the hooks of a repository

\* Receivers are at receiver places, workers at worker places.
Kinds ==
    /\ \A h \in Receivers : act[h] = Idle \/ act[h].at \in ReceiverPlaces
    /\ \A w \in Workers : act[w] = Idle \/ act[w].at \in WorkerPlaces

\* Actor a holds the unit of work of delivery d.
Holds(a, d) == act[a].on = d /\ act[a].at \in WorkerPlaces \cup {"enqueue"}

OneUnit ==
    \A d \in Deliveries :
        /\ tasks[d] <= 1
        /\ \A a \in Actors : Holds(a, d) => tasks[d] = 0
        /\ \A a, b \in Actors : Holds(a, d) /\ Holds(b, d) => a = b
        /\ hook[d] = Absent /\ ~gone =>
              tasks[d] = 0 /\ \A a \in Actors : ~Holds(a, d)

GoneIsEmpty == gone => \A d \in Deliveries : hook[d] = Absent

\* The status a worker is about to write.
CopyStatus ==
    \A w \in Workers :
        /\ act[w].at \in {"mark", "process"} => act[w].copy.status = "processing"
        /\ act[w].at = "complete" => act[w].copy.status = "completed"
        /\ act[w].at = "fail" => act[w].copy.status = "failed"

\* What the worker of a delivery is doing.
Doing(w, d, places) == act[w].on = d /\ act[w].at \in places

\* With a database that answers, the row a worker is processing says so.
ProcessingIsMarked ==
    \A w \in Workers, d \in Deliveries :
        Doing(w, d, {"process", "complete", "fail"}) =>
            Is(d, "processing") \/ hook[d] = Absent

\* An enqueued sync leaves a row that no worker takes up again.
SyncedIsTaken ==
    \A d \in Deliveries : enqueued[d] >= 1 =>
        /\ Is(d, "processing") \/ Is(d, "completed") \/ gone
        /\ \A w \in Workers : ~Doing(w, d, {"mark", "process", "fail"})

\* A completed row has no worker left that writes it.
CompletedIsLeft ==
    \A d \in Deliveries : Is(d, "completed") =>
        \A w \in Workers : ~Doing(w, d, {"mark", "process", "complete", "fail"})

-----------------------------------------------------------------------------
LEMMA ActorMoves ==
    ASSUME ActorsOK, NEW a \in Actors, NEW place \in ReceiverPlaces \cup WorkerPlaces,
           NEW v \in Hook \cup {Absent}, place \in HoldingPlaces => v \in Hook,
           GotoWith(a, place, v)
    PROVE  ActorsOK'
<1> DEFINE s == [at |-> place, on |-> act[a].on, copy |-> v]
<1>1. act' = [act EXCEPT ![a] = s]
  BY DEF GotoWith
<1> QED BY <1>1 DEF ActorsOK

LEMMA ActorBegins ==
    ASSUME ActorsOK, NEW a \in Actors, NEW d \in Deliveries,
           NEW place \in {"check", "load"}, Begin(a, d, place)
    PROVE  ActorsOK'
<1>1. place \in (ReceiverPlaces \cup WorkerPlaces) \ HoldingPlaces
  BY DEF ReceiverPlaces, WorkerPlaces, HoldingPlaces
<1> QED BY <1>1 DEF ActorsOK, Begin

LEMMA ActorReleased ==
    ASSUME ActorsOK, NEW a \in Actors, Release(a)
    PROVE  ActorsOK'
<1>1. "idle" \notin HoldingPlaces
  BY DEF HoldingPlaces
<1> QED BY <1>1 DEF ActorsOK, Release, Idle

LEMMA ReceiverType ==
    ASSUME TypeOK, NEW h \in Receivers, NEW d \in Deliveries,
           Receive(h, d) \/ ReceiverStep(h, d)
    PROVE  TypeOK'
<1>0. h \in Actors /\ ActorsOK /\ StoresOK
  BY DEF Actors, TypeOK
<1>s. /\ {"insert", "enqueue"} \subseteq ReceiverPlaces \ HoldingPlaces
      /\ [status |-> "pending", retries |-> 0, waiting |-> FALSE] \in Hook
  BY DEF ReceiverPlaces, HoldingPlaces, Hook
<1>1. CASE Receive(h, d)
  <2>1. ActorsOK'
    BY <1>0, <1>1, ActorBegins DEF Receive, ActorsOK
  <2>2. StoresOK'
    BY <1>0, <1>1, ConstantsAssumption DEF Receive, StoresOK
  <2> QED BY <2>1, <2>2 DEF TypeOK
<1>2. CASE CheckDuplicate(h, d)
  <2>1. ActorsOK'
    BY <1>0, <1>s, <1>2, ActorMoves, ActorReleased DEF CheckDuplicate
  <2>2. StoresOK'
    BY <1>0, <1>2 DEF CheckDuplicate, Answer, StoresOK
  <2> QED BY <2>1, <2>2 DEF TypeOK
<1>3. CASE RecordHook(h, d)
  <2>1. ActorsOK'
    BY <1>0, <1>s, <1>3, ActorMoves, ActorReleased DEF RecordHook
  <2>2. StoresOK'
    BY <1>0, <1>s, <1>3 DEF RecordHook, StoresOK
  <2> QED BY <2>1, <2>2 DEF TypeOK
<1>4. CASE EnqueueProcessing(h, d)
  <2>1. ActorsOK'
    BY <1>0, <1>4, ActorReleased DEF EnqueueProcessing
  <2>2. StoresOK'
    BY <1>0, <1>4 DEF EnqueueProcessing, Answer, StoresOK
  <2> QED BY <2>1, <2>2 DEF TypeOK
<1> QED BY <1>1, <1>2, <1>3, <1>4 DEF ReceiverStep

LEMMA UpdateType ==
    ASSUME StoresOK, NEW d \in Deliveries, NEW v \in Hook, UpdateWebhook(d, v)
    PROVE  hook' \in [Deliveries -> Hook \cup {Absent}]
BY DEF UpdateWebhook, StoresOK

LEMMA WorkerType ==
    ASSUME TypeOK, NEW w \in Workers, NEW d \in Deliveries,
           StartTask(w, d) \/ WorkerStep(w, d)
    PROVE  TypeOK'
<1>0. w \in Actors /\ ActorsOK /\ StoresOK
  BY DEF Actors, TypeOK
<1>s. /\ HoldingPlaces \subseteq WorkerPlaces
      /\ "ack" \in WorkerPlaces \ HoldingPlaces
      /\ {"mark", "process", "complete", "fail"} \subseteq HoldingPlaces
  BY DEF WorkerPlaces, HoldingPlaces
<1>c. act[w].at \in HoldingPlaces =>
          /\ act[w].copy \in Hook
          /\ [act[w].copy EXCEPT !.status = "completed"] \in Hook
          /\ MarkAsFailed(act[w].copy) \in Hook
  BY <1>0, ConstantsAssumption DEF ActorsOK, Hook, MarkAsFailed
<1>1. CASE StartTask(w, d)
  <2>1. ActorsOK'
    BY <1>0, <1>1, ActorBegins DEF StartTask
  <2>2. StoresOK'
    BY <1>0, <1>1 DEF StartTask, StoresOK
  <2> QED BY <2>1, <2>2 DEF TypeOK
<1>2. CASE LoadHook(w, d)
  <2>1. hook[d] # Absent => [hook[d] EXCEPT !.status = "processing"] \in Hook
    BY <1>0 DEF StoresOK, Hook
  <2>2. ActorsOK'
    BY <1>0, <1>s, <1>2, <2>1, ActorMoves, ActorReleased DEF LoadHook, Requeue
  <2>3. StoresOK'
    BY <1>0, <1>2 DEF LoadHook, Requeue, StoresOK
  <2> QED BY <2>2, <2>3 DEF TypeOK
<1>3. CASE MarkAsProcessing(w, d)
  <2>1. ActorsOK'
    BY <1>0, <1>s, <1>c, <1>3, ActorMoves DEF MarkAsProcessing, At
  <2>2. StoresOK'
    BY <1>0, <1>s, <1>c, <1>3, UpdateType DEF MarkAsProcessing, At, StoresOK
  <2> QED BY <2>1, <2>2 DEF TypeOK
<1>4. CASE ProcessEvent(w, d)
  <2>1. ActorsOK'
    BY <1>0, <1>s, <1>c, <1>4, ActorMoves DEF ProcessEvent, At
  <2>2. StoresOK'
    BY <1>0, <1>4 DEF ProcessEvent, StoresOK
  <2> QED BY <2>1, <2>2 DEF TypeOK
<1>5. CASE RecordCompleted(w, d)
  <2>1. ActorsOK'
    BY <1>0, <1>s, <1>5, ActorMoves DEF RecordCompleted
  <2>2. StoresOK'
    BY <1>0, <1>s, <1>c, <1>5, UpdateType DEF RecordCompleted, At, StoresOK
  <2> QED BY <2>1, <2>2 DEF TypeOK
<1>6. CASE RecordFailed(w, d)
  <2>1. ActorsOK'
    BY <1>0, <1>6, ActorReleased DEF RecordFailed, Requeue
  <2>2. StoresOK'
    BY <1>0, <1>s, <1>c, <1>6, UpdateType DEF RecordFailed, Requeue, At, StoresOK
  <2> QED BY <2>1, <2>2 DEF TypeOK
<1>7. CASE Acknowledge(w, d)
  <2>1. ActorsOK'
    BY <1>0, <1>7, ActorReleased DEF Acknowledge
  <2>2. StoresOK'
    BY <1>0, <1>7 DEF Acknowledge, StoresOK
  <2> QED BY <2>1, <2>2 DEF TypeOK
<1> QED BY <1>1, <1>2, <1>3, <1>4, <1>5, <1>6, <1>7 DEF WorkerStep

\* The tasks a crash puts back in the queue can be counted.
LEMMA TasksCounted ==
    \A d : Cardinality({w \in Workers : act[w].on = d}) \in Nat
<1> SUFFICES ASSUME NEW d PROVE Cardinality({w \in Workers : act[w].on = d}) \in Nat
  OBVIOUS
<1>1. {w \in Workers : act[w].on = d} \subseteq Workers
  OBVIOUS
<1> QED BY <1>1, ConstantsAssumption, FS_Subset, FS_CardinalityType

LEMMA EnvironmentType ==
    ASSUME TypeOK,
           (\E d \in Deliveries : BackoffElapses(d)) \/ RepositoryDeleted \/ Crash \/ Restart
    PROVE  TypeOK'
<1>0. ActorsOK /\ StoresOK
  BY DEF TypeOK
<1>1. ASSUME NEW d \in Deliveries, BackoffElapses(d) PROVE TypeOK'
  <2>1. [hook[d] EXCEPT !.waiting = FALSE] \in Hook
    BY <1>0, <1>1 DEF BackoffElapses, StoresOK, Hook
  <2> QED BY <1>0, <1>1, <2>1 DEF BackoffElapses, StoresOK, ActorsOK, TypeOK
<1>2. CASE RepositoryDeleted
  BY <1>0, <1>2 DEF RepositoryDeleted, StoresOK, ActorsOK, TypeOK
<1>3. CASE Crash
  <2>1. ActorsOK'
    BY <1>3 DEF Crash, ActorsOK, Idle, HoldingPlaces
  <2>2. \A d \in Deliveries : tasks'[d] \in Nat
    <3> SUFFICES ASSUME NEW d \in Deliveries PROVE tasks'[d] \in Nat
      OBVIOUS
    <3>1. Cardinality({w \in Workers : act[w].on = d}) \in Nat
      BY TasksCounted
    <3>2. tasks'[d] = tasks[d] + Cardinality({w \in Workers : act[w].on = d})
      BY <1>3 DEF Crash
    <3> QED BY <1>0, <3>1, <3>2 DEF StoresOK
  <2>3. tasks' \in [Deliveries -> Nat]
    BY <1>3, <2>2 DEF Crash
  <2>4. crashes' \in 0..MaxCrashes
    BY <1>0, <1>3, ConstantsAssumption DEF Crash, StoresOK
  <2>5. StoresOK'
    BY <1>0, <1>3, <2>3, <2>4 DEF Crash, StoresOK
  <2> QED BY <2>1, <2>5 DEF TypeOK
<1>4. CASE Restart
  BY <1>0, <1>4 DEF Restart, StoresOK, ActorsOK, TypeOK
<1> QED BY <1>1, <1>2, <1>3, <1>4

LEMMA TypeStep == TypeOK /\ [Next]_vars => TypeOK'
<1> SUFFICES ASSUME TypeOK, [Next]_vars PROVE TypeOK'
  OBVIOUS
<1>1. CASE Next
  BY <1>1, ReceiverType, WorkerType, EnvironmentType DEF Next
<1>2. CASE UNCHANGED vars
  BY <1>2 DEF vars, TypeOK, StoresOK, ActorsOK
<1> QED BY <1>1, <1>2

LEMMA TypeInit == Init => TypeOK
<1> SUFFICES ASSUME Init PROVE TypeOK
  OBVIOUS
<1>1. StoresOK
  <2>1. gone \in BOOLEAN /\ up \in BOOLEAN
    BY Zenon DEF Init
  <2>2. crashes \in 0..MaxCrashes /\ sent \in [Deliveries -> 0..MaxSends]
    BY ConstantsAssumption DEF Init
  <2>3. answers \in [Deliveries -> SUBSET {"accepted", "duplicate"}]
    BY DEF Init
  <2>4. /\ hook \in [Deliveries -> Hook \cup {Absent}]
        /\ tasks \in [Deliveries -> Nat] /\ enqueued \in [Deliveries -> Nat]
    BY DEF Init
  <2> QED BY <2>1, <2>2, <2>3, <2>4 DEF StoresOK
<1>2. ActorsOK
  BY DEF Init, ActorsOK, Idle, HoldingPlaces
<1> QED BY <1>1, <1>2 DEF TypeOK

\* The tables, the queue and every actor's copy stay well-formed: in particular
\* no handler goes on with a row it did not find.
THEOREM DeliveryTypes == Spec => []TypeOK
BY TypeInit, TypeStep, PTL DEF Spec

-----------------------------------------------------------------------------
\* One step, told by what it does to the actors.
OnlyMoves(a) == \A b \in Actors : b # a => act'[b] = act[b]

LEMMA ReceiverMoves ==
    ASSUME TypeOK, Kinds, NEW h \in Receivers, NEW d \in Deliveries,
           Receive(h, d) \/ ReceiverStep(h, d)
    PROVE  OnlyMoves(h) /\ Kinds'
<1>0. h \in Actors /\ h \notin Workers /\ Receivers \subseteq Actors /\ Workers \subseteq Actors
  BY ConstantsAssumption DEF Actors
<1>1. OnlyMoves(h)
  BY <1>0 DEF Receive, ReceiverStep, CheckDuplicate, RecordHook, EnqueueProcessing,
     Begin, GotoWith, Release, OnlyMoves, TypeOK, ActorsOK
<1>2. act'[h] = Idle \/ act'[h].at \in ReceiverPlaces
  BY <1>0 DEF Receive, ReceiverStep, CheckDuplicate, RecordHook, EnqueueProcessing,
     Begin, GotoWith, Release, TypeOK, ActorsOK, ReceiverPlaces, Kinds
<1> QED BY <1>0, <1>1, <1>2 DEF OnlyMoves, Kinds

LEMMA WorkerMoves ==
    ASSUME TypeOK, Kinds, NEW w \in Workers, NEW d \in Deliveries,
           StartTask(w, d) \/ WorkerStep(w, d)
    PROVE  OnlyMoves(w) /\ Kinds'
<1>0. w \in Actors /\ w \notin Receivers /\ Receivers \subseteq Actors /\ Workers \subseteq Actors
  BY ConstantsAssumption DEF Actors
<1>1. OnlyMoves(w)
  BY <1>0 DEF StartTask, WorkerStep, LoadHook, MarkAsProcessing, ProcessEvent,
     RecordCompleted, RecordFailed, Acknowledge, Requeue, Begin, GotoWith, Release,
     OnlyMoves, TypeOK, ActorsOK
<1>2. act'[w] = Idle \/ act'[w].at \in WorkerPlaces
  BY <1>0 DEF StartTask, WorkerStep, LoadHook, MarkAsProcessing, ProcessEvent,
     RecordCompleted, RecordFailed, Acknowledge, Requeue, Begin, GotoWith, Release,
     TypeOK, ActorsOK, WorkerPlaces
<1> QED BY <1>0, <1>1, <1>2 DEF OnlyMoves, Kinds

\* A step that hands out no unit of work and takes no row away from one.
LEMMA UnitFrame ==
    ASSUME OneUnit, tasks' = tasks,
           \A a \in Actors, d \in Deliveries : Holds(a, d)' => Holds(a, d),
           \A d \in Deliveries : (hook[d] = Absent /\ ~gone)' => hook[d] = Absent /\ ~gone
    PROVE  OneUnit'
BY DEF OneUnit

\* The holder of d's unit gives it up, for the queue or for good.
LEMMA UnitGivenUp ==
    ASSUME TypeOK, OneUnit, NEW a \in Actors, NEW d \in Deliveries, Holds(a, d), Release(a),
           tasks' = [tasks EXCEPT ![d] = @ + 1] \/ tasks' = tasks, UNCHANGED gone,
           \A q \in Deliveries : hook'[q] = Absent => hook[q] = Absent
    PROVE  OneUnit'
<1>1. \A b \in Actors, q \in Deliveries : Holds(b, q)' => Holds(b, q) /\ b # a
  BY DEF Release, Idle, Holds, WorkerPlaces, TypeOK, ActorsOK
<1>2. \A b \in Actors : ~Holds(b, d)'
  BY <1>1 DEF OneUnit
<1>3. tasks[d] = 0 /\ tasks'[d] <= 1 /\ \A q \in Deliveries \ {d} : tasks'[q] = tasks[q]
  BY DEF OneUnit, TypeOK, StoresOK
<1>4. ~(hook[d] = Absent /\ ~gone)
  BY DEF OneUnit
<1> QED BY <1>1, <1>2, <1>3, <1>4 DEF OneUnit

\* An actor takes the free unit of d.
LEMMA UnitTaken ==
    ASSUME TypeOK, OneUnit, NEW a \in Actors, NEW d \in Deliveries, OnlyMoves(a),
           act'[a].on = d, tasks'[d] = 0,
           \A q \in Deliveries \ {d} : ~Holds(a, q) /\ tasks'[q] = tasks[q],
           \A b \in Actors : ~Holds(b, d), UNCHANGED gone,
           hook'[d] # Absent \/ gone,
           \A q \in Deliveries \ {d} : hook'[q] = Absent => hook[q] = Absent
    PROVE  OneUnit'
<1>1. \A b \in Actors : b # a => \A q \in Deliveries : Holds(b, q)' <=> Holds(b, q)
  BY DEF OnlyMoves, Holds
<1>2. \A q \in Deliveries \ {d} : ~Holds(a, q)'
  BY DEF Holds
<1>3. ASSUME NEW q \in Deliveries, q # d
      PROVE  \A b \in Actors : Holds(b, q)' => Holds(b, q)
  BY <1>1, <1>2, <1>3
<1>4. \A b \in Actors : Holds(b, d)' => b = a
  BY <1>1
<1> QED BY <1>3, <1>4 DEF OneUnit

LEMMA ReceiverUnit ==
    ASSUME TypeOK, Kinds, OneUnit, NEW h \in Receivers, NEW d \in Deliveries,
           Receive(h, d) \/ ReceiverStep(h, d)
    PROVE  OneUnit'
<1>0. h \in Actors /\ OnlyMoves(h)
  BY ReceiverMoves DEF Actors
<1>1. CASE Receive(h, d) \/ CheckDuplicate(h, d)
  <2>1. \A q \in Deliveries : Holds(h, q)' => Holds(h, q)
    BY <1>0, <1>1 DEF Receive, CheckDuplicate, At, Begin, GotoWith, Release, Idle,
       Holds, WorkerPlaces, TypeOK, ActorsOK
  <2>2. \A a \in Actors, q \in Deliveries : Holds(a, q)' => Holds(a, q)
    BY <1>0, <2>1 DEF OnlyMoves, Holds
  <2>3. UNCHANGED <<tasks, hook, gone>>
    BY <1>1 DEF Receive, CheckDuplicate
  <2> QED BY <2>2, <2>3, UnitFrame
<1>2. CASE RecordHook(h, d)
  <2>1. CASE Release(h) /\ UNCHANGED hook
    <3>1. \A a \in Actors, q \in Deliveries : Holds(a, q)' => Holds(a, q)
      BY <1>0, <2>1 DEF OnlyMoves, Release, Idle, Holds, WorkerPlaces, TypeOK, ActorsOK
    <3> QED BY <1>2, <2>1, <3>1, UnitFrame DEF RecordHook
  <2>2. CASE /\ hook[d] = Absent /\ ~gone
             /\ hook' = [hook EXCEPT ![d] =
                           [status |-> "pending", retries |-> 0, waiting |-> FALSE]]
             /\ GotoWith(h, "enqueue", Absent)
    <3>1. [status |-> "pending", retries |-> 0, waiting |-> FALSE] \in Hook
      BY DEF Hook
    <3>2. /\ hook'[d] # Absent
          /\ \A q \in Deliveries \ {d} : hook'[q] = hook[q]
      BY <2>2, <3>1, AbsentAssumption DEF TypeOK, StoresOK
    <3>3. act'[h].on = d /\ \A q \in Deliveries : ~Holds(h, q)
      BY <1>0, <1>2, <2>2 DEF RecordHook, At, GotoWith, Holds, WorkerPlaces, TypeOK, ActorsOK
    <3>4. tasks[d] = 0 /\ \A b \in Actors : ~Holds(b, d)
      BY <2>2 DEF OneUnit
    <3>5. UNCHANGED <<tasks, gone>>
      BY <1>2 DEF RecordHook
    <3> QED BY <1>0, <3>2, <3>3, <3>4, <3>5, UnitTaken
  <2> QED BY <1>2, <2>1, <2>2 DEF RecordHook
<1>3. CASE EnqueueProcessing(h, d)
  <2>1. Holds(h, d)
    BY <1>3 DEF EnqueueProcessing, At, Holds
  <2> QED BY <1>0, <1>3, <2>1, UnitGivenUp DEF EnqueueProcessing
<1> QED BY <1>1, <1>2, <1>3 DEF ReceiverStep

\* UpdateWebhook neither adds nor removes a row.
LEMMA UpdateKeepsRows ==
    ASSUME StoresOK, NEW d \in Deliveries, NEW v \in Hook, UpdateWebhook(d, v)
    PROVE  \A q \in Deliveries : hook'[q] = Absent <=> hook[q] = Absent
BY AbsentAssumption DEF UpdateWebhook, StoresOK

LEMMA WorkerUnit ==
    ASSUME TypeOK, Kinds, OneUnit, NEW w \in Workers, NEW d \in Deliveries,
           StartTask(w, d) \/ WorkerStep(w, d)
    PROVE  OneUnit'
<1>0. w \in Actors /\ OnlyMoves(w) /\ UNCHANGED gone
  BY WorkerMoves DEF Actors, StartTask, WorkerStep, LoadHook, MarkAsProcessing,
     ProcessEvent, RecordCompleted, RecordFailed, Acknowledge
<1>1. \A q \in Deliveries : hook'[q] = Absent <=> hook[q] = Absent
  <2>1. CASE MarkAsProcessing(w, d) \/ RecordCompleted(w, d) \/ RecordFailed(w, d)
    <3>1. act[w].copy \in Hook
      BY <1>0, <2>1 DEF MarkAsProcessing, RecordCompleted, RecordFailed, At,
         HoldingPlaces, TypeOK, ActorsOK
    <3>2. UpdateWebhook(d, act[w].copy)
      BY <2>1 DEF MarkAsProcessing, RecordCompleted, RecordFailed
    <3> QED BY <3>1, <3>2, UpdateKeepsRows DEF TypeOK
  <2>2. CASE StartTask(w, d) \/ LoadHook(w, d) \/ ProcessEvent(w, d) \/ Acknowledge(w, d)
    BY <2>2 DEF StartTask, LoadHook, ProcessEvent, Acknowledge
  <2> QED BY <2>1, <2>2 DEF WorkerStep
<1>2. CASE StartTask(w, d)
  <2>1. tasks[d] = 1 /\ tasks'[d] = 0 /\ \A q \in Deliveries \ {d} : tasks'[q] = tasks[q]
    BY <1>2 DEF StartTask, OneUnit, TypeOK, StoresOK
  <2>2. \A b \in Actors : ~Holds(b, d)
    BY <2>1 DEF OneUnit
  <2>3. \A q \in Deliveries : ~Holds(w, q)
    BY <1>2 DEF StartTask, Holds, WorkerPlaces
  <2>4. act'[w].on = d /\ hook' = hook
    BY <1>0, <1>2 DEF StartTask, Begin, TypeOK, ActorsOK
  <2>5. hook[d] # Absent \/ gone
    BY <2>1 DEF OneUnit
  <2> QED BY <1>0, <2>1, <2>2, <2>3, <2>4, <2>5, UnitTaken
<1>3. ASSUME WorkerStep(w, d), Release(w),
             tasks' = [tasks EXCEPT ![d] = @ + 1] \/ tasks' = tasks
      PROVE  OneUnit'
  <2>1. Holds(w, d)
    BY <1>3 DEF WorkerStep, LoadHook, MarkAsProcessing, ProcessEvent, RecordCompleted,
       RecordFailed, Acknowledge, At, Holds, WorkerPlaces
  <2> QED BY <1>0, <1>1, <1>3, <2>1, UnitGivenUp
<1>4. ASSUME WorkerStep(w, d), NEW place \in WorkerPlaces, NEW v, GotoWith(w, place, v),
             UNCHANGED tasks
      PROVE  OneUnit'
  <2>1. act[w].at \in WorkerPlaces
    BY <1>4 DEF WorkerStep, LoadHook, MarkAsProcessing, ProcessEvent, RecordCompleted,
       RecordFailed, Acknowledge, At, WorkerPlaces
  <2>2. \A q \in Deliveries : Holds(w, q)' => Holds(w, q)
    BY <1>0, <1>4, <2>1 DEF GotoWith, Holds, TypeOK, ActorsOK
  <2>3. \A a \in Actors, q \in Deliveries : Holds(a, q)' => Holds(a, q)
    BY <1>0, <2>2 DEF OnlyMoves, Holds
  <2> QED BY <1>0, <1>1, <1>4, <2>3, UnitFrame
<1>5. ASSUME WorkerStep(w, d)
      PROVE  \/ /\ Release(w)
                /\ tasks' = [tasks EXCEPT ![d] = @ + 1] \/ tasks' = tasks
             \/ /\ \E place \in WorkerPlaces : \E v : GotoWith(w, place, v)
                /\ UNCHANGED tasks
  <2>1. {"mark", "process", "complete", "ack", "fail"} \subseteq WorkerPlaces
    BY DEF WorkerPlaces
  <2> QED
    BY <1>5, <2>1, Zenon DEF WorkerStep, LoadHook, MarkAsProcessing, ProcessEvent,
       RecordCompleted, RecordFailed, Acknowledge, Requeue
<1> QED BY <1>2, <1>3, <1>4, <1>5

LEMMA EnvironmentUnit ==
    ASSUME TypeOK, Kinds, OneUnit,
           (\E d \in Deliveries : BackoffElapses(d)) \/ RepositoryDeleted \/ Crash \/ Restart
    PROVE  Kinds' /\ OneUnit'
<1>1. CASE Crash
  <2>1. Kinds' /\ \A a \in Actors, d \in Deliveries : ~Holds(a, d)'
    BY <1>1 DEF Crash, Kinds, Actors, Holds, Idle, WorkerPlaces
  <2>2. ASSUME NEW d \in Deliveries
        PROVE  tasks'[d] <= 1 /\ (hook[d] = Absent /\ ~gone => tasks'[d] = 0)
    <3> DEFINE running == {w \in Workers : act[w].on = d}
    <3>1. tasks'[d] = tasks[d] + Cardinality(running)
      BY <1>1 DEF Crash
    <3>2. \A w \in running : w \in Actors /\ Holds(w, d)
      BY ConstantsAssumption DEF Kinds, Idle, Holds, Actors
    <3>3. tasks[d] \in Nat /\ tasks[d] <= 1
      BY DEF OneUnit, TypeOK, StoresOK
    <3>4. CASE running = {}
      <4>1. Cardinality(running) = 0
        BY <3>4, FS_EmptySet
      <4> QED BY <3>1, <3>3, <4>1 DEF OneUnit
    <3>5. CASE running # {}
      <4>1. PICK w \in running : TRUE
        BY <3>5
      <4>2. running = {w} /\ tasks[d] = 0 /\ ~(hook[d] = Absent /\ ~gone)
        BY <3>2, <4>1 DEF OneUnit
      <4>3. Cardinality(running) = 1
        BY <4>2, FS_Singleton
      <4> QED BY <3>1, <4>2, <4>3
    <3> QED BY <3>4, <3>5
  <2>3. UNCHANGED <<hook, gone>>
    BY <1>1 DEF Crash
  <2> QED BY <2>1, <2>2, <2>3 DEF OneUnit
<1>2. ASSUME NEW d \in Deliveries, BackoffElapses(d) PROVE Kinds' /\ OneUnit'
  <2>1. UNCHANGED <<tasks, act, gone>>
    BY <1>2 DEF BackoffElapses
  <2>2. \A q \in Deliveries : hook'[q] = Absent => hook[q] = Absent
    <3>1. [hook[d] EXCEPT !.waiting = FALSE] \in Hook
      BY <1>2 DEF BackoffElapses, TypeOK, StoresOK, Hook
    <3> QED BY <1>2, <3>1, AbsentAssumption DEF BackoffElapses, TypeOK, StoresOK
  <2> QED BY <2>1, <2>2, UnitFrame DEF Kinds, Holds
<1>3. CASE RepositoryDeleted \/ Restart
  <2>1. UNCHANGED <<tasks, act>> /\ (UNCHANGED <<hook, gone>> \/ gone')
    BY <1>3 DEF RepositoryDeleted, Restart
  <2> QED BY <2>1, UnitFrame DEF Kinds, Holds
<1> QED BY <1>1, <1>2, <1>3

-----------------------------------------------------------------------------
LEMMA CopyStep ==
    ASSUME TypeOK, CopyStatus, Next
    PROVE  CopyStatus'
<1>1. ASSUME NEW w \in Workers, NEW d \in Deliveries, StartTask(w, d) \/ WorkerStep(w, d)
      PROVE  CopyStatus'
  <2>0. w \in Actors /\ Workers \subseteq Actors
    BY DEF Actors
  <2>1. \A x \in Workers : x # w => act'[x] = act[x]
    BY <1>1, <2>0 DEF StartTask, WorkerStep, LoadHook, MarkAsProcessing, ProcessEvent,
       RecordCompleted, RecordFailed, Acknowledge, Requeue, Begin, GotoWith, Release,
       TypeOK, ActorsOK
  <2>2. /\ act'[w].at \in {"mark", "process"} => act'[w].copy.status = "processing"
        /\ act'[w].at = "complete" => act'[w].copy.status = "completed"
        /\ act'[w].at = "fail" => act'[w].copy.status = "failed"
    <3>1. CASE LoadHook(w, d)
      <4>1. hook[d] # Absent => [hook[d] EXCEPT !.status = "processing"].status = "processing"
        BY DEF TypeOK, StoresOK, Hook
      <4>2. CASE hook[d] # Absent /\ GotoWith(w, "mark", [hook[d] EXCEPT !.status = "processing"])
        <5>1. act'[w].at = "mark" /\ act'[w].copy = [hook[d] EXCEPT !.status = "processing"]
          BY <2>0, <4>2 DEF GotoWith, TypeOK, ActorsOK
        <5> QED BY <4>1, <4>2, <5>1
      <4>3. CASE GotoWith(w, "ack", Absent) \/ Release(w)
        <5>1. act'[w].at \in {"ack", "idle"}
          BY <2>0, <4>3 DEF GotoWith, Release, Idle, TypeOK, ActorsOK
        <5> QED BY <5>1
      <4> QED BY <3>1, <4>2, <4>3 DEF LoadHook, Requeue
    <3>2. CASE MarkAsProcessing(w, d)
      BY <2>0, <3>2 DEF MarkAsProcessing, At, GotoWith, CopyStatus, TypeOK, ActorsOK
    <3>3. CASE ProcessEvent(w, d)
      <4>1. act[w].copy \in Hook
        BY <2>0, <3>3 DEF ProcessEvent, At, HoldingPlaces, TypeOK, ActorsOK
      <4>2. /\ [act[w].copy EXCEPT !.status = "completed"].status = "completed"
            /\ MarkAsFailed(act[w].copy).status = "failed"
        BY <4>1 DEF Hook, MarkAsFailed
      <4>3. CASE GotoWith(w, "complete", [act[w].copy EXCEPT !.status = "completed"])
        <5>1. act'[w].at = "complete" /\ act'[w].copy = [act[w].copy EXCEPT !.status = "completed"]
          BY <2>0, <4>3 DEF GotoWith, TypeOK, ActorsOK
        <5> QED BY <4>2, <5>1
      <4>4. CASE GotoWith(w, "fail", MarkAsFailed(act[w].copy))
        <5>1. act'[w].at = "fail" /\ act'[w].copy = MarkAsFailed(act[w].copy)
          BY <2>0, <4>4 DEF GotoWith, TypeOK, ActorsOK
        <5> QED BY <4>2, <5>1
      <4> QED BY <3>3, <4>3, <4>4 DEF ProcessEvent
    <3>4. CASE StartTask(w, d) \/ RecordCompleted(w, d) \/ RecordFailed(w, d) \/ Acknowledge(w, d)
      BY <2>0, <3>4 DEF StartTask, RecordCompleted, RecordFailed, Acknowledge, Requeue,
         Begin, GotoWith, Release, Idle, TypeOK, ActorsOK
    <3> QED BY <1>1, <3>1, <3>2, <3>3, <3>4 DEF WorkerStep
  <2> QED BY <2>1, <2>2 DEF CopyStatus
<1>2. ASSUME NEW h \in Receivers, NEW d \in Deliveries, Receive(h, d) \/ ReceiverStep(h, d)
      PROVE  CopyStatus'
  <2>1. \A w \in Workers : act'[w] = act[w]
    BY <1>2, ConstantsAssumption DEF Receive, ReceiverStep, CheckDuplicate, RecordHook,
       EnqueueProcessing, Begin, GotoWith, Release, TypeOK, ActorsOK, Actors
  <2> QED BY <2>1 DEF CopyStatus
<1>3. ASSUME (\E d \in Deliveries : BackoffElapses(d)) \/ RepositoryDeleted \/ Restart
      PROVE  CopyStatus'
  BY <1>3 DEF BackoffElapses, RepositoryDeleted, Restart, CopyStatus
<1>4. CASE Crash
  BY <1>4 DEF Crash, CopyStatus, Idle, Actors
<1> QED BY <1>1, <1>2, <1>3, <1>4 DEF Next

\* Workers that write rows do so alone: nobody else is past "load" on d.
LEMMA WriterIsAlone ==
    ASSUME OneUnit, NEW w \in Workers, NEW d \in Deliveries,
           act[w].on = d, act[w].at \in WorkerPlaces
    PROVE  \A x \in Workers : act[x].on = d /\ act[x].at \in WorkerPlaces => x = w
BY DEF OneUnit, Holds, Actors

\* Who can be at a writing place of some delivery after a worker's step.
LEMMA WorkerDoing ==
    ASSUME TypeOK, NEW w \in Workers, NEW d \in Deliveries, OnlyMoves(w),
           StartTask(w, d) \/ WorkerStep(w, d)
    PROVE  /\ \A x \in Workers \ {w} : act'[x] = act[x]
           /\ \A q \in Deliveries \ {d} : act'[w].on # q
           /\ \A q \in Deliveries \ {d} : hook'[q] = hook[q] /\ enqueued'[q] = enqueued[q]
           /\ UNCHANGED gone
<1>0. w \in Actors /\ Workers \subseteq Actors
  BY DEF Actors
<1>1. act'[w].on \in {d, NoDelivery}
  BY <1>0 DEF StartTask, WorkerStep, LoadHook, MarkAsProcessing, ProcessEvent,
     RecordCompleted, RecordFailed, Acknowledge, Requeue, At, Begin, GotoWith, Release,
     Idle, TypeOK, ActorsOK
<1>2. \A q \in Deliveries \ {d} : hook'[q] = hook[q] /\ enqueued'[q] = enqueued[q]
  BY DEF StartTask, WorkerStep, LoadHook, MarkAsProcessing, ProcessEvent,
     RecordCompleted, RecordFailed, Acknowledge, UpdateWebhook, TypeOK, StoresOK
<1>3. UNCHANGED gone
  BY DEF StartTask, WorkerStep, LoadHook, MarkAsProcessing, ProcessEvent,
     RecordCompleted, RecordFailed, Acknowledge
<1> QED BY <1>0, <1>1, <1>2, <1>3, ConstantsAssumption DEF OnlyMoves

\* What one step of a worker does to its delivery, told by where it was and is.
Moves(w, from, to) == act[w].at = from /\ act'[w].at = to

LEMMA WorkerOutcome ==
    ASSUME TypeOK, NEW w \in Workers, NEW d \in Deliveries,
           StartTask(w, d) \/ WorkerStep(w, d)
    PROVE  \/ act'[w].at \in {"idle", "load", "ack"} /\ UNCHANGED <<hook, enqueued>>
           \/ /\ Moves(w, "load", "mark") /\ hook[d] # Absent /\ CanProcess(hook[d])
              /\ act[w].on = d /\ act'[w].on = d /\ UNCHANGED <<hook, enqueued>>
           \/ /\ Moves(w, "mark", "process") /\ UpdateWebhook(d, act[w].copy)
              /\ act[w].on = d /\ act'[w].on = d /\ UNCHANGED enqueued
           \/ /\ Moves(w, "process", "complete") /\ act[w].on = d /\ act'[w].on = d
              /\ enqueued'[d] \in {enqueued[d], enqueued[d] + 1} /\ UNCHANGED hook
           \/ /\ Moves(w, "process", "fail") /\ act[w].on = d /\ act'[w].on = d
              /\ UNCHANGED <<hook, enqueued>>
           \/ /\ Moves(w, "complete", "ack") /\ act[w].on = d
              /\ UpdateWebhook(d, act[w].copy) /\ UNCHANGED enqueued
           \/ /\ Moves(w, "fail", "idle") /\ act[w].on = d
              /\ UpdateWebhook(d, act[w].copy) /\ UNCHANGED enqueued
<1>0. w \in Actors
  BY DEF Actors
<1>1. ASSUME NEW place, NEW v, GotoWith(w, place, v)
      PROVE  act'[w].at = place /\ act'[w].on = act[w].on
  BY <1>0, <1>1 DEF GotoWith, TypeOK, ActorsOK
<1>2. Release(w) => act'[w].at = "idle"
  BY <1>0 DEF Release, Idle, TypeOK, ActorsOK
<1>3. Begin(w, d, "load") => act'[w].at = "load"
  BY <1>0 DEF Begin, TypeOK, ActorsOK
<1>4. CASE StartTask(w, d)
  BY <1>3, <1>4 DEF StartTask
<1>5. CASE LoadHook(w, d)
  BY <1>1, <1>2, <1>5 DEF LoadHook, Requeue, At, Moves
<1>6. CASE MarkAsProcessing(w, d)
  BY <1>1, <1>6 DEF MarkAsProcessing, At, Moves
<1>7. CASE ProcessEvent(w, d)
  <2>1. enqueued' = enqueued \/ enqueued' = [enqueued EXCEPT ![d] = @ + 1]
    BY <1>7 DEF ProcessEvent
  <2>2. enqueued'[d] \in {enqueued[d], enqueued[d] + 1}
    BY <2>1 DEF TypeOK, StoresOK
  <2> QED BY <1>1, <1>7, <2>2 DEF ProcessEvent, At, Moves
<1>8. CASE RecordCompleted(w, d)
  BY <1>1, <1>8 DEF RecordCompleted, At, Moves
<1>9. CASE RecordFailed(w, d)
  BY <1>2, <1>9 DEF RecordFailed, Requeue, At, Moves
<1>10. CASE Acknowledge(w, d)
  BY <1>2, <1>10 DEF Acknowledge
<1> QED BY <1>4, <1>5, <1>6, <1>7, <1>8, <1>9, <1>10 DEF WorkerStep

LEMMA ReceiverOutcome ==
    ASSUME TypeOK, NEW h \in Receivers, NEW d \in Deliveries,
           Receive(h, d) \/ ReceiverStep(h, d)
    PROVE  /\ \A w \in Workers : act'[w] = act[w]
           /\ UNCHANGED <<enqueued, gone>>
           /\ \A q \in Deliveries :
                \/ hook'[q] = hook[q]
                \/ hook[q] = Absent /\ ~gone /\ Is(q, "pending")'
<1>1. \A w \in Workers : act'[w] = act[w]
  BY ConstantsAssumption DEF Receive, ReceiverStep, CheckDuplicate, RecordHook,
     EnqueueProcessing, Begin, GotoWith, Release, TypeOK, ActorsOK, Actors
<1>2. UNCHANGED <<enqueued, gone>>
  BY DEF Receive, ReceiverStep, CheckDuplicate, RecordHook, EnqueueProcessing
<1>3. ASSUME hook' # hook
      PROVE  /\ hook[d] = Absent /\ ~gone
             /\ hook' = [hook EXCEPT ![d] =
                           [status |-> "pending", retries |-> 0, waiting |-> FALSE]]
  BY <1>3 DEF Receive, ReceiverStep, CheckDuplicate, RecordHook, EnqueueProcessing
<1>4. [status |-> "pending", retries |-> 0, waiting |-> FALSE] \in Hook
  BY DEF Hook
<1>5. [status |-> "pending", retries |-> 0, waiting |-> FALSE] # Absent
  BY <1>4, AbsentAssumption
<1> QED BY <1>1, <1>2, <1>3, <1>5 DEF TypeOK, StoresOK, Is

\* The environment keeps every row's status, but for the deletion that takes all.
LEMMA EnvironmentOutcome ==
    ASSUME TypeOK,
           (\E d \in Deliveries : BackoffElapses(d)) \/ RepositoryDeleted \/ Crash \/ Restart
    PROVE  /\ \A w \in Workers : act'[w] = act[w] \/ act'[w] = Idle
           /\ UNCHANGED enqueued
           /\ \/ gone' /\ \A q \in Deliveries : hook'[q] = Absent
              \/ /\ UNCHANGED gone
                 /\ \A q \in Deliveries :
                      \/ hook[q] = Absent /\ hook'[q] = Absent
                      \/ /\ hook[q] # Absent /\ hook'[q] # Absent
                         /\ hook'[q].status = hook[q].status
<1>1. ASSUME NEW d \in Deliveries, BackoffElapses(d)
      PROVE  /\ UNCHANGED <<act, enqueued, gone>>
             /\ \A q \in Deliveries :
                      \/ hook[q] = Absent /\ hook'[q] = Absent
                      \/ /\ hook[q] # Absent /\ hook'[q] # Absent
                         /\ hook'[q].status = hook[q].status
  <2>1. LET v == [hook[d] EXCEPT !.waiting = FALSE]
        IN  v \in Hook /\ v # Absent /\ v.status = hook[d].status
    BY <1>1, AbsentAssumption DEF BackoffElapses, TypeOK, StoresOK, Hook
  <2> QED BY <1>1, <2>1 DEF BackoffElapses, TypeOK, StoresOK
<1>2. CASE RepositoryDeleted
  BY <1>2 DEF RepositoryDeleted
<1>3. CASE Crash
  BY <1>3 DEF Crash, Actors
<1>4. CASE Restart
  BY <1>4 DEF Restart
<1> QED BY <1>1, <1>2, <1>3, <1>4

-----------------------------------------------------------------------------
\* What holds whatever fails.
Settled ==
    /\ TypeOK /\ Kinds /\ OneUnit /\ GoneIsEmpty
    /\ CopyStatus /\ CompletedIsLeft

\* A step keeps GoneIsEmpty and CompletedIsLeft, and no completed row changes
\* its status.
LEMMA CompletedStep ==
    ASSUME Settled, Next
    PROVE  /\ GoneIsEmpty' /\ CompletedIsLeft'
           /\ \A q \in Deliveries :
                Is(q, "completed") => (Is(q, "completed") \/ hook[q] = Absent)'
<1> USE DEF Settled
<1>1. ASSUME NEW h \in Receivers, NEW d \in Deliveries, Receive(h, d) \/ ReceiverStep(h, d)
      PROVE  /\ GoneIsEmpty' /\ CompletedIsLeft'
             /\ \A q \in Deliveries : Is(q, "completed") => Is(q, "completed")'
  <2>1. \A q \in Deliveries : Is(q, "pending")' => ~Is(q, "completed")'
    BY DEF Is
  <2> QED
    BY <1>1, <2>1, ReceiverOutcome DEF GoneIsEmpty, CompletedIsLeft, Doing, Is
<1>2. ASSUME (\E d \in Deliveries : BackoffElapses(d)) \/ RepositoryDeleted \/ Crash \/ Restart
      PROVE  /\ GoneIsEmpty' /\ CompletedIsLeft'
             /\ \A q \in Deliveries :
                  Is(q, "completed") => (Is(q, "completed") \/ hook[q] = Absent)'
  BY <1>2, EnvironmentOutcome DEF GoneIsEmpty, CompletedIsLeft, Doing, Is, Idle
<1>3. ASSUME NEW w \in Workers, NEW d \in Deliveries, StartTask(w, d) \/ WorkerStep(w, d)
      PROVE  /\ GoneIsEmpty' /\ CompletedIsLeft'
             /\ \A q \in Deliveries : Is(q, "completed") => Is(q, "completed")'
  <2> DEFINE Left(q) == Is(q, "completed") =>
                 \A x \in Workers : ~Doing(x, q, {"mark", "process", "complete", "fail"})
  <2>0. w \in Actors /\ TypeOK' /\ OneUnit'
    BY <1>3, WorkerType, WorkerUnit DEF Actors
  <2>1. /\ \A x \in Workers \ {w} : act'[x] = act[x]
        /\ \A q \in Deliveries \ {d} : act'[w].on # q
        /\ \A q \in Deliveries \ {d} : hook'[q] = hook[q]
        /\ UNCHANGED gone
    BY <1>3, WorkerMoves, WorkerDoing
  <2>2. \A q \in Deliveries \ {d} : Left(q)' /\ (Is(q, "completed") => Is(q, "completed")')
    BY <2>1 DEF CompletedIsLeft, Doing, Is
  <2>3. /\ Left(d)' /\ (Is(d, "completed") => Is(d, "completed")')
        /\ hook[d] = Absent => hook'[d] = Absent
    <3>1. CASE act'[w].at \in {"idle", "load", "ack"} /\ UNCHANGED hook
      BY <2>1, <3>1 DEF CompletedIsLeft, Doing, Is
    <3>2. CASE /\ Moves(w, "load", "mark") /\ hook[d] # Absent /\ CanProcess(hook[d])
               /\ UNCHANGED hook
      BY <2>1, <3>2 DEF CanProcess, Is
    <3>3. CASE Moves(w, "process", "complete") /\ act[w].on = d /\ UNCHANGED hook
      BY <3>3 DEF Moves, CompletedIsLeft, Doing, Is
    <3>4. CASE Moves(w, "process", "fail") /\ act[w].on = d /\ UNCHANGED hook
      BY <3>4 DEF Moves, CompletedIsLeft, Doing, Is
    <3>5. ASSUME act[w].on = d, act[w].at \in {"mark", "complete", "fail"},
                 UpdateWebhook(d, act[w].copy)
          PROVE  /\ ~Is(d, "completed")
                 /\ hook[d] = Absent => hook'[d] = Absent
                 /\ Is(d, "completed")' => act[w].at = "complete"
      <4>1. act[w].copy \in Hook /\ act[w].copy # Absent
        BY <2>0, <3>5, AbsentAssumption DEF HoldingPlaces, TypeOK, ActorsOK
      <4>2. ~Is(d, "completed")
        BY <3>5 DEF CompletedIsLeft, Doing
      <4>3. hook'[d] = hook[d] \/ (hook[d] # Absent /\ hook'[d] = act[w].copy)
        BY <3>5 DEF UpdateWebhook, TypeOK, StoresOK
      <4> QED BY <3>5, <4>1, <4>2, <4>3 DEF CopyStatus, Is
    <3>6. CASE Moves(w, "mark", "process") /\ act[w].on = d /\ UpdateWebhook(d, act[w].copy)
      BY <3>5, <3>6 DEF Moves
    <3>7. CASE Moves(w, "fail", "idle") /\ act[w].on = d /\ UpdateWebhook(d, act[w].copy)
      BY <3>5, <3>7 DEF Moves
    <3>8. CASE Moves(w, "complete", "ack") /\ act[w].on = d /\ UpdateWebhook(d, act[w].copy)
      <4>1. act[w].at \in WorkerPlaces
        BY <3>8 DEF Moves, WorkerPlaces
      <4>2. \A x \in Workers \ {w} : ~Doing(x, d, {"mark", "process", "complete", "fail"})
        BY <3>8, <4>1, WriterIsAlone DEF Doing, WorkerPlaces
      <4> QED BY <2>1, <3>5, <3>8, <4>2 DEF Moves, Doing
    <3> QED
      BY <1>3, <3>1, <3>2, <3>3, <3>4, <3>6, <3>7, <3>8, WorkerOutcome
  <2> QED BY <2>1, <2>2, <2>3 DEF GoneIsEmpty, CompletedIsLeft
<1> QED BY <1>1, <1>2, <1>3 DEF Next

LEMMA SettledStep == Settled /\ [Next]_vars => Settled'
<1> SUFFICES ASSUME Settled, [Next]_vars PROVE Settled'
  OBVIOUS
<1>1. CASE Next
  <2>1. TypeOK' /\ CopyStatus' /\ GoneIsEmpty' /\ CompletedIsLeft'
    BY <1>1, TypeStep, CopyStep, CompletedStep DEF Settled
  <2>2. Kinds' /\ OneUnit'
    BY <1>1, ReceiverMoves, ReceiverUnit, WorkerMoves, WorkerUnit, EnvironmentUnit
       DEF Settled, Next
  <2> QED BY <2>1, <2>2 DEF Settled
<1>2. CASE UNCHANGED vars
  BY <1>2 DEF vars, Settled, TypeOK, StoresOK, ActorsOK, Kinds, OneUnit, Holds,
     GoneIsEmpty, CopyStatus, CompletedIsLeft, Doing, Is
<1> QED BY <1>1, <1>2

LEMMA SettledInit == Init => Settled
<1> SUFFICES ASSUME Init PROVE Settled
  OBVIOUS
<1>1. \A a \in Actors : act[a] = Idle
  BY DEF Init
<1>2. Kinds /\ CopyStatus /\ CompletedIsLeft
  BY <1>1 DEF Kinds, CopyStatus, CompletedIsLeft, Doing, Idle, Actors
<1>3. OneUnit
  BY <1>1 DEF Init, OneUnit, Holds, Idle, WorkerPlaces
<1>4. GoneIsEmpty
  BY DEF Init, GoneIsEmpty
<1> QED BY <1>2, <1>3, <1>4, TypeInit DEF Settled

\* No late handler, retry, redelivery, crash or failing dependency takes a row
\* out of "completed".
THEOREM CompletedStays == Spec => CompletedIsFinal
<1>1. Settled /\ [Next]_vars =>
        [\A d \in Deliveries :
            Is(d, "completed") => (Is(d, "completed") \/ hook[d] = Absent)']_hook
  BY CompletedStep DEF vars, Is
<1> QED BY <1>1, SettledInit, SettledStep, PTL DEF Spec, CompletedIsFinal

-----------------------------------------------------------------------------
\* What holds besides when the database answers.
Marked == ProcessingIsMarked /\ SyncedIsTaken /\ SyncedAtMostOnce

LEMMA MarkedFrame ==
    ASSUME Marked, UNCHANGED enqueued, gone => gone',
           \A w \in Workers : act'[w] = act[w] \/ act'[w] = Idle,
           \A q \in Deliveries :
                \/ gone' /\ hook'[q] = Absent
                \/ hook[q] = Absent /\ hook'[q] = Absent
                \/ hook[q] # Absent /\ hook'[q] # Absent /\ hook'[q].status = hook[q].status
    PROVE  Marked'
BY DEF Marked, ProcessingIsMarked, SyncedIsTaken, SyncedAtMostOnce, Doing, Is, Idle

LEMMA MarkedReceiver ==
    ASSUME Settled, Marked, NEW h \in Receivers, NEW d \in Deliveries,
           Receive(h, d) \/ ReceiverStep(h, d)
    PROVE  Marked'
<1>1. /\ \A w \in Workers : act'[w] = act[w]
      /\ UNCHANGED <<enqueued, gone>>
      /\ \A q \in Deliveries :
           \/ hook'[q] = hook[q]
           \/ hook[q] = Absent /\ ~gone /\ Is(q, "pending")'
  BY ReceiverOutcome DEF Settled
<1>2. ASSUME NEW q \in Deliveries, hook[q] = Absent, ~gone
      PROVE  /\ \A w \in Workers : ~Doing(w, q, {"mark", "process", "complete", "fail"})
             /\ ~(enqueued[q] >= 1)
  <2>1. \A w \in Workers : ~Holds(w, q)
    BY <1>2 DEF Settled, OneUnit, Actors
  <2> QED BY <1>2, <2>1 DEF Holds, WorkerPlaces, Doing, Marked, SyncedIsTaken, Is
<1> QED BY <1>1, <1>2 DEF Marked, ProcessingIsMarked, SyncedIsTaken, SyncedAtMostOnce,
        Doing, Is

LEMMA MarkedWorker ==
    ASSUME "db" \notin Faults, Settled, Marked, NEW w \in Workers, NEW d \in Deliveries,
           StartTask(w, d) \/ WorkerStep(w, d)
    PROVE  Marked'
<1> DEFINE DoneAs(q) == \A x \in Workers : Doing(x, q, {"process", "complete", "fail"}) =>
                     Is(q, "processing") \/ hook[q] = Absent
           Taken(q) == enqueued[q] >= 1 =>
                     /\ Is(q, "processing") \/ Is(q, "completed") \/ gone
                     /\ \A x \in Workers : ~Doing(x, q, {"mark", "process", "fail"})
           Good(q) == DoneAs(q) /\ Taken(q) /\ enqueued[q] <= 1
<1>0. w \in Actors /\ TypeOK /\ Good(d) /\ enqueued[d] \in Nat
  BY DEF Actors, Settled, Marked, ProcessingIsMarked, SyncedIsTaken, SyncedAtMostOnce,
     TypeOK, StoresOK
<1>1. /\ \A x \in Workers \ {w} : act'[x] = act[x]
      /\ \A q \in Deliveries \ {d} : act'[w].on # q
      /\ \A q \in Deliveries \ {d} : hook'[q] = hook[q] /\ enqueued'[q] = enqueued[q]
      /\ UNCHANGED gone
  BY WorkerMoves, WorkerDoing DEF Settled
<1>2. \A q \in Deliveries \ {d} : Good(q)'
  BY <1>1 DEF Marked, ProcessingIsMarked, SyncedIsTaken, SyncedAtMostOnce, Doing, Is
<1>3. ASSUME act[w].on = d, act[w].at \in WorkerPlaces
      PROVE  \A x \in Workers \ {w} : ~Doing(x, d, {"mark", "process", "complete", "fail"})
  BY <1>3, WriterIsAlone DEF Settled, Doing, WorkerPlaces
<1>4. {"load", "mark", "process", "complete", "fail"} \subseteq WorkerPlaces
  BY DEF WorkerPlaces
<1>5. ASSUME act[w].on = d, act[w].at \in {"mark", "complete", "fail"},
             UpdateWebhook(d, act[w].copy), UNCHANGED enqueued
      PROVE  \/ hook[d] = Absent /\ hook'[d] = Absent
             \/ hook[d] # Absent /\ hook'[d] = act[w].copy /\ hook'[d] # Absent
  <2>1. act[w].copy \in Hook
    BY <1>0, <1>5 DEF HoldingPlaces, TypeOK, ActorsOK
  <2> QED BY <1>0, <1>5, <2>1, AbsentAssumption DEF UpdateWebhook, TypeOK, StoresOK
<1>6. Good(d)'
  <2>1. CASE act'[w].at \in {"idle", "load", "ack"} /\ UNCHANGED <<hook, enqueued>>
    BY <1>0, <1>1, <2>1 DEF Doing, Is
  <2>2. CASE /\ Moves(w, "load", "mark") /\ hook[d] # Absent /\ CanProcess(hook[d])
             /\ act[w].on = d /\ UNCHANGED <<hook, enqueued>>
    <3>1. ~(enqueued[d] >= 1)
      BY <1>0, <2>2 DEF CanProcess, Is, Settled, GoneIsEmpty
    <3> QED BY <1>0, <1>1, <1>3, <1>4, <2>2, <3>1 DEF Moves, Doing, Is
  <2>3. CASE /\ Moves(w, "mark", "process") /\ UpdateWebhook(d, act[w].copy)
             /\ act[w].on = d /\ UNCHANGED enqueued
    <3>1. ~(enqueued[d] >= 1)
      BY <1>0, <2>3 DEF Moves, Doing
    <3>2. Is(d, "processing")' \/ hook'[d] = Absent
      BY <1>5, <2>3 DEF Moves, Is, Settled, CopyStatus
    <3> QED BY <1>0, <2>3, <3>1, <3>2
  <2>4. CASE /\ Moves(w, "process", "complete") /\ act[w].on = d
             /\ enqueued'[d] \in {enqueued[d], enqueued[d] + 1} /\ UNCHANGED hook
    <3>1. enqueued[d] = 0 /\ enqueued'[d] <= 1
      BY <1>0, <2>4 DEF Moves, Doing
    <3>2. Is(d, "processing") \/ hook[d] = Absent
      BY <1>0, <2>4 DEF Moves, Doing
    <3>3. hook[d] = Absent => gone
      <4>1. Holds(w, d)
        BY <1>4, <2>4 DEF Moves, Holds
      <4> QED BY <1>0, <4>1 DEF Settled, OneUnit
    <3>4. \A x \in Workers : ~Doing(x, d, {"mark", "process", "fail"})'
      BY <1>1, <1>3, <1>4, <2>4 DEF Moves, Doing
    <3>5. Is(d, "processing")' <=> Is(d, "processing")
      BY <2>4 DEF Is
    <3> QED BY <1>1, <2>4, <3>1, <3>2, <3>3, <3>4, <3>5
  <2>5. CASE /\ Moves(w, "process", "fail") /\ act[w].on = d /\ UNCHANGED <<hook, enqueued>>
    <3>1. ~(enqueued[d] >= 1) /\ (Is(d, "processing") \/ hook[d] = Absent)
      BY <1>0, <2>5 DEF Moves, Doing
    <3> QED BY <1>0, <2>5, <3>1 DEF Is
  <2>6. CASE /\ act[w].on = d /\ UpdateWebhook(d, act[w].copy) /\ UNCHANGED enqueued
             /\ Moves(w, "complete", "ack")
    <3>1. \A x \in Workers : ~Doing(x, d, {"mark", "process", "complete", "fail"})'
      BY <1>1, <1>3, <1>4, <2>6 DEF Moves, Doing
    <3>2. Is(d, "completed")' \/ hook'[d] = Absent
      BY <1>5, <2>6 DEF Moves, Is, Settled, CopyStatus
    <3>3. hook'[d] = Absent => gone
      <4>1. Holds(w, d) /\ (hook'[d] = Absent => hook[d] = Absent)
        BY <1>4, <1>5, <2>6 DEF Moves, Holds
      <4> QED BY <1>0, <4>1 DEF Settled, OneUnit
    <3> QED BY <1>0, <1>1, <2>6, <3>1, <3>2, <3>3 DEF Doing
  <2>7. CASE /\ act[w].on = d /\ UpdateWebhook(d, act[w].copy) /\ UNCHANGED enqueued
             /\ Moves(w, "fail", "idle")
    <3>1. ~(enqueued[d] >= 1)
      BY <1>0, <2>7 DEF Moves, Doing
    <3>2. \A x \in Workers : ~Doing(x, d, {"process", "complete", "fail"})'
      BY <1>1, <1>3, <1>4, <2>7 DEF Moves, Doing
    <3> QED BY <1>0, <2>7, <3>1, <3>2
  <2> QED BY <1>0, <2>1, <2>2, <2>3, <2>4, <2>5, <2>6, <2>7, WorkerOutcome
<1> QED BY <1>2, <1>6 DEF Marked, ProcessingIsMarked, SyncedIsTaken, SyncedAtMostOnce

LEMMA MarkedStep ==
    ASSUME "db" \notin Faults
    PROVE  Settled /\ Marked /\ [Next]_vars => Marked'
<1> SUFFICES ASSUME Settled, Marked, [Next]_vars PROVE Marked'
  OBVIOUS
<1>1. CASE (\E d \in Deliveries : BackoffElapses(d)) \/ RepositoryDeleted \/ Crash \/ Restart
  BY <1>1, EnvironmentOutcome, MarkedFrame DEF Settled
<1>2. CASE UNCHANGED vars
  BY <1>2 DEF vars, Marked, ProcessingIsMarked, SyncedIsTaken, SyncedAtMostOnce, Doing, Is
<1> QED BY <1>1, <1>2, MarkedReceiver, MarkedWorker DEF Next

\* Idempotency for every number of redeliveries, workers and crashes: while the
\* database answers, a delivery enqueues at most one sync, though the queue may fail.
THEOREM AtMostOneSync == "db" \notin Faults /\ Spec => []SyncedAtMostOnce
<1>1. Init => Marked
  <2> SUFFICES ASSUME Init PROVE Marked
    OBVIOUS
  <2>1. \A w \in Workers : act[w] = Idle
    BY DEF Init, Actors
  <2> QED BY <2>1 DEF Init, Marked, ProcessingIsMarked, SyncedIsTaken, SyncedAtMostOnce,
             Doing, Idle
<1>2. CASE "db" \notin Faults
  <2>1. Settled /\ Marked /\ [Next]_vars => (Settled /\ Marked)'
    BY <1>2, SettledStep, MarkedStep
  <2>2. Marked => SyncedAtMostOnce
    BY DEF Marked
  <2> QED BY <1>1, <2>1, <2>2, SettledInit, PTL DEF Spec
<1> QED BY <1>2
-----------------------------------------------------------------------------
\* A worker that is about to write "completed" has enqueued the sync of a push.
Handled ==
    \A d \in Pushes :
        /\ Is(d, "completed") => enqueued[d] >= 1
        /\ \A w \in Workers : Doing(w, d, {"complete"}) => enqueued[d] >= 1

LEMMA PushEnqueues ==
    ASSUME TypeOK, NEW w \in Workers, NEW d \in Pushes,
           StartTask(w, d) \/ WorkerStep(w, d), Moves(w, "process", "complete")
    PROVE  enqueued'[d] = enqueued[d] + 1
<1>0. w \in Actors /\ d \in Deliveries
  BY ConstantsAssumption DEF Actors
<1>1. ProcessEvent(w, d)
  BY DEF StartTask, WorkerStep, LoadHook, MarkAsProcessing, RecordCompleted, RecordFailed, Acknowledge,
         At, Moves
<1>2. ~GotoWith(w, "fail", MarkAsFailed(act[w].copy))
  <2>1. ASSUME GotoWith(w, "fail", MarkAsFailed(act[w].copy)) PROVE act'[w].at = "fail"
    BY <1>0, <2>1 DEF GotoWith, TypeOK, ActorsOK
  <2> QED BY <2>1 DEF Moves
<1>3. enqueued' = [enqueued EXCEPT ![d] = @ + 1]
  BY <1>1, <1>2 DEF ProcessEvent
<1> QED BY <1>0, <1>3 DEF TypeOK, StoresOK

LEMMA HandledWorker ==
    ASSUME Settled, Handled, NEW w \in Workers, NEW d \in Deliveries,
           StartTask(w, d) \/ WorkerStep(w, d)
    PROVE  Handled'
<1>0. TypeOK /\ w \in Actors /\ \A q \in Pushes : q \in Deliveries
  BY ConstantsAssumption DEF Settled, Actors
<1>1. /\ \A x \in Workers \ {w} : act'[x] = act[x]
      /\ \A q \in Deliveries \ {d} : act'[w].on # q
      /\ \A q \in Deliveries \ {d} : hook'[q] = hook[q] /\ enqueued'[q] = enqueued[q]
  BY WorkerMoves, WorkerDoing DEF Settled
<1>2. ASSUME NEW q \in Pushes, q # d
      PROVE  /\ Is(q, "completed")' => enqueued'[q] >= 1
             /\ \A x \in Workers : Doing(x, q, {"complete"})' => enqueued'[q] >= 1
  BY <1>0, <1>1, <1>2 DEF Handled, Doing, Is
<1>3. ASSUME d \in Pushes
      PROVE  /\ Is(d, "completed")' => enqueued'[d] >= 1
             /\ \A x \in Workers : Doing(x, d, {"complete"})' => enqueued'[d] >= 1
  <2>0. enqueued[d] \in Nat
    BY <1>0 DEF TypeOK, StoresOK
  <2>1. enqueued'[d] \in {enqueued[d], enqueued[d] + 1}
    BY <1>0, WorkerOutcome
  \* What the step leaves of the row and of the other workers.
  <2>2. \A x \in Workers \ {w} : Doing(x, d, {"complete"})' => enqueued'[d] >= 1
    BY <1>1, <1>3, <2>0, <2>1 DEF Handled, Doing
  <2>3. Doing(w, d, {"complete"})' => enqueued'[d] >= 1
    <3>1. act'[w].at = "complete" => Moves(w, "process", "complete")
      BY <1>0, WorkerOutcome DEF Moves
    <3> QED BY <1>0, <1>3, <2>0, <3>1, PushEnqueues DEF Doing
  <2>4. Is(d, "completed")' => Is(d, "completed") \/ (act[w].at = "complete" /\ act[w].on = d)
    <3>1. ASSUME act[w].on = d, act[w].at \in {"mark", "complete", "fail"}, UpdateWebhook(d, act[w].copy)
          PROVE  Is(d, "completed")' => Is(d, "completed") \/ act[w].at = "complete"
      <4>1. hook'[d] = hook[d] \/ hook'[d] = act[w].copy
        BY <1>0, <3>1 DEF UpdateWebhook, TypeOK, StoresOK
      <4> QED BY <3>1, <4>1 DEF Settled, CopyStatus, Is
    <3>2. CASE UNCHANGED hook
      BY <3>2 DEF Is
    <3> QED BY <1>0, <3>1, <3>2, WorkerOutcome DEF Moves
  <2>5. Is(d, "completed")' => enqueued'[d] >= 1
    BY <1>3, <2>0, <2>1, <2>4 DEF Handled, Doing
  <2> QED BY <2>2, <2>3, <2>5
<1>4. ASSUME NEW q \in Pushes
      PROVE  /\ Is(q, "completed")' => enqueued'[q] >= 1
             /\ \A x \in Workers : Doing(x, q, {"complete"})' => enqueued'[q] >= 1
  BY <1>2, <1>3
<1> QED BY <1>4 DEF Handled

LEMMA HandledStep == Settled /\ Handled /\ [Next]_vars => Handled'
<1> SUFFICES ASSUME Settled, Handled, [Next]_vars PROVE Handled'
  OBVIOUS
<1>0. TypeOK /\ \A d \in Pushes : d \in Deliveries
  BY ConstantsAssumption DEF Settled
<1>1. ASSUME NEW h \in Receivers, NEW d \in Deliveries, Receive(h, d) \/ ReceiverStep(h, d)
      PROVE  Handled'
  <2>1. \A q \in Deliveries : Is(q, "pending")' => ~Is(q, "completed")'
    BY DEF Is
  <2> QED BY <1>0, <1>1, <2>1, ReceiverOutcome DEF Handled, Doing, Is
<1>2. CASE (\E d \in Deliveries : BackoffElapses(d)) \/ RepositoryDeleted \/ Crash \/ Restart
  BY <1>0, <1>2, EnvironmentOutcome DEF Handled, Doing, Is, Idle
<1>3. CASE UNCHANGED vars
  BY <1>3 DEF vars, Handled, Doing, Is
<1> QED BY <1>1, <1>2, <1>3, HandledWorker DEF Next

\* A push whose row reads "completed" has had its sync enqueued, whatever fails
\* and whatever is sent again: ProcessEvent enqueues before it is recorded.
THEOREM CompletedMeansSynced == Spec => []CompletedIsSynced
<1>1. Init => Handled
  <2> SUFFICES ASSUME Init PROVE Handled
    OBVIOUS
  <2>1. \A w \in Workers : act[w] = Idle
    BY DEF Init, Actors
  <2>2. \A d \in Pushes : hook[d] = Absent
    BY ConstantsAssumption DEF Init
  <2> QED BY <2>1, <2>2 DEF Handled, Doing, Idle, Is
<1>2. Handled => CompletedIsSynced
  BY DEF Handled, CompletedIsSynced
<1> QED BY <1>1, <1>2, SettledInit, SettledStep, HandledStep, PTL DEF Spec
-----------------------------------------------------------------------------
(* The hooks of a repository *)

H == INSTANCE Hooks

Jobs == [at : {"idle", "look", "register", "store"}, secret : Nat]

\* Secrets are generated one after the other, and each belongs to one job.
SecretsOK ==
    /\ present \in BOOLEAN /\ generated \in Nat /\ config \in 0..generated
    /\ hooks \subseteq 1..generated /\ cut \subseteq 1..generated
    /\ overlapped \subseteq 1..generated
    /\ work \in [Syncs -> Jobs]
    /\ \A s \in Syncs : Secret(s) <= generated
    /\ \A s \in Syncs : Secret(s) = 0 <=> work[s].at \in {"idle", "look"}
    /\ \A s, t \in Syncs : Secret(s) = Secret(t) /\ Secret(s) # 0 => s = t

\* A secret on its way is not at the host before its hook is, and is there after; two
\* on their way at once are beside each other, and so is one that comes after a row.
OnTheirWay ==
    /\ \A s \in Syncs : work[s].at = "register" => Secret(s) \notin hooks
    /\ \A s \in Syncs : work[s].at = "store" => Secret(s) \in hooks
    /\ \A s, t \in Syncs : Secret(s) # 0 /\ Secret(t) # 0 /\ s # t => Secret(s) \in overlapped
    /\ config # 0 => \A s \in Syncs : Secret(s) # 0 => Secret(s) \in overlapped

HookInv == SecretsOK /\ OnTheirWay /\ HooksAreHeardUnlessCut

LEMMA HookInit == H!Init => HookInv
<1> SUFFICES ASSUME H!Init PROVE HookInv
  OBVIOUS
<1>1. \A s \in Syncs : work[s].at = "idle" /\ work[s].secret = 0 /\ work[s] \in Jobs
  BY DEF H!Init, H!Idle, H!NoSecret, Jobs
<1>2. SecretsOK
  BY <1>1 DEF H!Init, H!NoSecret, SecretsOK, Secret
<1> QED BY <1>1, <1>2 DEF H!Init, H!NoSecret, NoSecret, HookInv, OnTheirWay, Secret,
                          HooksAreHeardUnlessCut

\* A job that moves or ends is the only one that does.
LEMMA JobMoves ==
    ASSUME SecretsOK, NEW s \in Syncs,
           NEW j \in Jobs, work' = [work EXCEPT ![s] = j]
    PROVE  /\ work' \in [Syncs -> Jobs] /\ work'[s] = j
           /\ \A t \in Syncs \ {s} : work'[t] = work[t]
  BY DEF SecretsOK

LEMMA JobGoes ==
    ASSUME SecretsOK, NEW s \in Syncs,
           NEW p \in {"idle", "look", "register", "store"}, H!Goto(s, p)
    PROVE  /\ work' \in [Syncs -> Jobs] /\ work'[s].at = p /\ work'[s].secret = work[s].secret
           /\ \A t \in Syncs \ {s} : work'[t] = work[t]
  BY DEF SecretsOK, H!Goto, Jobs

LEMMA JobEnds ==
    ASSUME SecretsOK, NEW s \in Syncs, H!End(s)
    PROVE  /\ work' \in [Syncs -> Jobs] /\ work'[s].at = "idle" /\ work'[s].secret = 0
           /\ \A t \in Syncs \ {s} : work'[t] = work[t]
<1>1. H!Idle \in Jobs /\ H!Idle.at = "idle" /\ H!Idle.secret = 0
  BY DEF H!Idle, H!NoSecret, Jobs
<1>2. work' = [work EXCEPT ![s] = H!Idle]
  BY DEF H!End
<1> QED BY <1>1, <1>2, JobMoves

\* A job that ends gives up its secret: one that is heard, cut off, or never reached
\* the host.
LEMMA JobGivesUp ==
    ASSUME HookInv, NEW s \in Syncs, H!End(s),
           present' = present, generated' = generated, overlapped' = overlapped,
           config' \in 0..generated, cut' \subseteq 1..generated, hooks' \subseteq 1..generated,
           hooks' = hooks \/ hooks' = hooks \cup {Secret(s)}, cut \subseteq cut',
           config' = config \/ (config = 0 /\ config' = Secret(s)),
           config' # 0 => config' \in hooks',
           present /\ Secret(s) \in hooks' => Secret(s) \in cut' \cup overlapped \cup {config'}
    PROVE  HookInv'
<1>1. /\ work' \in [Syncs -> Jobs] /\ work'[s].at = "idle" /\ work'[s].secret = 0
      /\ \A t \in Syncs \ {s} : work'[t] = work[t]
  BY JobEnds DEF HookInv
<1>2. SecretsOK'
  BY <1>1 DEF HookInv, SecretsOK, Secret
<1>3. \A t \in Syncs \ {s} : Secret(t) # 0 => Secret(t) # Secret(s)
  BY DEF HookInv, SecretsOK
<1>4. OnTheirWay'
  BY <1>1, <1>3 DEF HookInv, SecretsOK, OnTheirWay, Secret
<1>5. ASSUME present, NEW h \in hooks', h \notin cut', h \notin overlapped,
             \A t \in Syncs : h # work'[t].secret
      PROVE  config' = h
  <2>1. CASE h = Secret(s)
    BY <1>5, <2>1
  <2>2. CASE h # Secret(s)
    <3>1. \A t \in Syncs : h # Secret(t)
      BY <1>1, <1>5, <2>2 DEF Secret
    <3>2. config = h /\ h # 0
      BY <1>5, <2>2, <3>1 DEF HookInv, SecretsOK, HooksAreHeardUnlessCut, Heard
    <3> QED BY <3>2
  <2> QED BY <2>1, <2>2
<1> QED BY <1>2, <1>4, <1>5 DEF HookInv, HooksAreHeardUnlessCut, Heard, NoSecret, Secret

LEMMA LookKeepsHooks == ASSUME HookInv, NEW s \in Syncs, H!Look(s) PROVE HookInv'
<1> USE DEF HookInv
<1>0. /\ present' = present /\ config' = config /\ hooks' = hooks /\ cut' = cut
      /\ work[s].at = "look" /\ Secret(s) = 0
  BY DEF H!Look, H!GetWebhookConfigByRepoID, H!At, SecretsOK
<1>1. CASE H!End(s) /\ UNCHANGED <<generated, overlapped>>
  <2>1. Secret(s) \notin hooks
    BY <1>0 DEF SecretsOK
  <2> QED BY <1>0, <1>1, <2>1, JobGivesUp DEF SecretsOK, HooksAreHeardUnlessCut, NoSecret
<1>2. CASE /\ config = 0
           /\ work' = [work EXCEPT ![s] = [at |-> "register", secret |-> generated + 1]]
           /\ generated' = generated + 1
           /\ overlapped' = overlapped \cup
                 (IF H!Holding = {} THEN {} ELSE {generated'} \cup {Secret(t) : t \in H!Holding})
  <2>0. generated \in Nat
    BY DEF SecretsOK
  <2>1. [at |-> "register", secret |-> generated + 1] \in Jobs
    BY <2>0 DEF Jobs
  <2>2. /\ work' \in [Syncs -> Jobs] /\ work'[s].at = "register"
        /\ work'[s].secret = generated + 1
        /\ \A t \in Syncs \ {s} : work'[t] = work[t]
    BY <1>2, <2>1, JobMoves
  <2>3. H!Holding = {t \in Syncs : Secret(t) # 0}
    BY DEF H!Holding, H!Secret, H!NoSecret, Secret
  <2>4. /\ overlapped \subseteq overlapped'
        /\ \A t \in Syncs : Secret(t) # 0 => /\ Secret(t) \in overlapped'
                                             /\ generated + 1 \in overlapped'
        /\ \A x \in overlapped' : x \in overlapped \/ x = generated + 1
                                  \/ \E t \in Syncs : x = Secret(t) /\ x # 0
    BY <1>2, <2>3
  <2>5. overlapped' \subseteq 1..generated'
    <3>1. \A t \in Syncs : Secret(t) \in 0..generated
      BY DEF SecretsOK, Jobs, Secret
    <3>2. overlapped \subseteq 1..generated
      BY DEF SecretsOK
    <3>3. ASSUME NEW x \in overlapped' PROVE x \in 1..generated + 1
      BY <2>0, <2>4, <3>1, <3>2, <3>3
    <3> QED BY <1>2, <3>3
  <2>6. SecretsOK'
    <3>1. /\ \A t \in Syncs : work'[t].secret <= generated'
          /\ \A t \in Syncs : work'[t].secret = 0 <=> work'[t].at \in {"idle", "look"}
      BY <1>2, <2>0, <2>2 DEF SecretsOK, Jobs, Secret
    <3>2. \A t, u \in Syncs : work'[t].secret = work'[u].secret /\ work'[t].secret # 0 => t = u
      BY <1>2, <2>0, <2>2 DEF SecretsOK, Jobs, Secret
    <3>3. /\ present' \in BOOLEAN /\ generated' \in Nat /\ config' \in 0..generated'
          /\ hooks' \subseteq 1..generated' /\ cut' \subseteq 1..generated'
      BY <1>0, <1>2, <2>0 DEF SecretsOK
    <3> QED BY <2>2, <2>5, <3>1, <3>2, <3>3 DEF SecretsOK, Secret
  <2>7. OnTheirWay'
    <3>1. \A t \in Syncs : work'[t].at = "register" => work'[t].secret \notin hooks
      BY <1>0, <2>0, <2>2 DEF SecretsOK, OnTheirWay, Secret
    <3>2. \A t \in Syncs : work'[t].at = "store" => work'[t].secret \in hooks
      BY <2>2 DEF OnTheirWay, Secret
    <3>3. \A t, u \in Syncs : work'[t].secret # 0 /\ work'[u].secret # 0 /\ t # u =>
             work'[t].secret \in overlapped'
      BY <2>2, <2>4 DEF OnTheirWay, Secret
    <3> QED BY <1>0, <1>2, <3>1, <3>2, <3>3 DEF OnTheirWay, Secret
  <2>8. ASSUME present, NEW h \in hooks, h \notin cut, h \notin overlapped',
               \A t \in Syncs : h # work'[t].secret
        PROVE  config = h
    <3>1. \A t \in Syncs : h # Secret(t)
      BY <1>0, <2>2, <2>8 DEF SecretsOK, Secret
    <3> QED BY <2>4, <2>8, <3>1 DEF HooksAreHeardUnlessCut, Heard
  <2> QED BY <1>0, <2>6, <2>7, <2>8 DEF HooksAreHeardUnlessCut, Heard, NoSecret, Secret
<1> QED BY <1>1, <1>2 DEF H!Look, H!GetWebhookConfigByRepoID, H!NoSecret, H!Secret, Secret

LEMMA RegisterKeepsHooks == ASSUME HookInv, NEW s \in Syncs, H!RegisterWebhook(s) PROVE HookInv'
<1> USE DEF HookInv
<1>0. /\ present' = present /\ config' = config /\ generated' = generated
      /\ overlapped' = overlapped /\ work[s].at = "register"
      /\ Secret(s) \in 1..generated /\ Secret(s) \notin hooks /\ H!Secret(s) = Secret(s)
  BY DEF H!RegisterWebhook, H!At, SecretsOK, OnTheirWay, Jobs, Secret, H!Secret
<1>1. CASE hooks' = hooks \cup {Secret(s)} /\ H!Goto(s, "store") /\ UNCHANGED cut
  <2>1. /\ work' \in [Syncs -> Jobs] /\ work'[s].at = "store"
        /\ work'[s].secret = work[s].secret
        /\ \A t \in Syncs \ {s} : work'[t] = work[t]
    BY <1>1, JobGoes
  <2>2. SecretsOK'
    BY <1>0, <1>1, <2>1, ZenonT(60) DEF SecretsOK, Secret
  <2>3. OnTheirWay'
    BY <1>0, <1>1, <2>1 DEF SecretsOK, OnTheirWay, Secret
  <2>4. \A t \in Syncs : Secret(t)' = Secret(t)
    BY <2>1 DEF Secret
  <2>5. HooksAreHeardUnlessCut'
    BY <1>0, <1>1, <2>4 DEF HooksAreHeardUnlessCut, Heard
  <2> QED BY <2>2, <2>3, <2>5
<1>2. CASE hooks' = hooks \cup {Secret(s)} /\ H!End(s) /\ cut' = cut \cup {Secret(s)}
  BY <1>0, <1>2, JobGivesUp DEF SecretsOK, HooksAreHeardUnlessCut, NoSecret
<1>3. CASE H!End(s) /\ UNCHANGED <<hooks, cut>>
  BY <1>0, <1>3, JobGivesUp DEF SecretsOK, HooksAreHeardUnlessCut, NoSecret
<1> QED BY <1>0, <1>1, <1>2, <1>3 DEF H!RegisterWebhook

LEMMA StoreKeepsHooks == ASSUME HookInv, NEW s \in Syncs, H!CreateWebhookConfig(s) PROVE HookInv'
<1> USE DEF HookInv
<1>0. /\ present' = present /\ hooks' = hooks /\ generated' = generated
      /\ overlapped' = overlapped /\ work[s].at = "store" /\ H!End(s)
      /\ Secret(s) \in 1..generated /\ Secret(s) \in hooks /\ H!Secret(s) = Secret(s)
  BY DEF H!CreateWebhookConfig, H!At, SecretsOK, OnTheirWay, Jobs, Secret, H!Secret
<1>1. CASE present /\ config = 0 /\ config' = Secret(s) /\ UNCHANGED cut
  BY <1>0, <1>1, JobGivesUp DEF SecretsOK
<1>2. CASE (~present \/ config # 0) /\ UNCHANGED <<config, cut>>
  <2>1. present => Secret(s) \in overlapped
    BY <1>0, <1>2 DEF OnTheirWay
  <2> QED BY <1>0, <1>2, <2>1, JobGivesUp DEF SecretsOK, HooksAreHeardUnlessCut, NoSecret
<1>3. CASE cut' = cut \cup {Secret(s)} /\ UNCHANGED config
  BY <1>0, <1>3, JobGivesUp DEF SecretsOK, HooksAreHeardUnlessCut, NoSecret
<1> QED BY <1>0, <1>1, <1>2, <1>3 DEF H!CreateWebhookConfig, H!NoSecret

LEMMA HookNext == ASSUME HookInv, [H!Next]_H!vars PROVE HookInv'
<1>1. ASSUME NEW s \in Syncs, H!SyncRepository(s) PROVE HookInv'
  <2>1. /\ present' = present /\ config' = config /\ hooks' = hooks /\ cut' = cut
        /\ generated' = generated /\ overlapped' = overlapped /\ work[s].at = "idle"
        /\ H!Goto(s, "look")
    BY <1>1 DEF H!SyncRepository, H!At
  <2>2. /\ work' \in [Syncs -> Jobs] /\ work'[s].at = "look"
        /\ work'[s].secret = work[s].secret
        /\ \A t \in Syncs \ {s} : work'[t] = work[t]
    BY <2>1, JobGoes DEF HookInv
  <2>3. \A t \in Syncs : Secret(t)' = Secret(t)
    BY <2>2 DEF Secret
  <2>4. SecretsOK'
    BY <2>1, <2>2, <2>3 DEF HookInv, SecretsOK
  <2>5. OnTheirWay'
    BY <2>1, <2>2, <2>3 DEF HookInv, OnTheirWay
  <2> QED BY <2>1, <2>3, <2>4, <2>5 DEF HookInv, HooksAreHeardUnlessCut, Heard
<1>2. ASSUME NEW s \in Syncs, H!Stop(s) PROVE HookInv'
  <2>1. /\ present' = present /\ config' = config /\ hooks' = hooks
        /\ generated' = generated /\ overlapped' = overlapped
        /\ H!End(s) /\ cut' = cut \cup ({Secret(s)} \ {0})
    BY <1>2 DEF H!Stop, H!Secret, Secret, H!NoSecret
  <2>2. cut' \subseteq 1..generated
    <3>1. Secret(s) \in 0..generated
      BY DEF HookInv, SecretsOK, Jobs, Secret
    <3>2. cut \subseteq 1..generated /\ generated \in Nat
      BY DEF HookInv, SecretsOK
    <3>3. ASSUME NEW x \in cut' PROVE x \in 1..generated
      BY <2>1, <3>1, <3>2, <3>3
    <3> QED BY <3>3
  <2>3. Secret(s) \in hooks => Secret(s) \in cut'
    BY <2>1 DEF HookInv, SecretsOK
  <2> QED BY <2>1, <2>2, <2>3, JobGivesUp DEF HookInv, SecretsOK, HooksAreHeardUnlessCut, NoSecret
<1>3. CASE H!DeleteRepository
  <2>1. /\ present' = FALSE /\ config' = 0 /\ hooks' = hooks /\ work' = work
        /\ generated' = generated /\ cut' = cut /\ overlapped' = overlapped
    BY <1>3 DEF H!DeleteRepository, H!NoSecret
  <2>2. \A t \in Syncs : Secret(t)' = Secret(t)
    BY <2>1 DEF Secret
  <2>3. SecretsOK'
    <3>1. present' \in BOOLEAN
      BY <2>1
    <3>2. config' \in 0..generated
      BY <2>1 DEF HookInv, SecretsOK
    <3> QED BY <2>1, <2>2, <3>1, <3>2 DEF HookInv, SecretsOK
  <2>4. OnTheirWay'
    BY <2>1, <2>2 DEF HookInv, OnTheirWay
  <2> QED BY <2>1, <2>3, <2>4 DEF HookInv, HooksAreHeardUnlessCut, NoSecret
<1>4. CASE UNCHANGED H!vars
  BY <1>4 DEF H!vars, HookInv, SecretsOK, OnTheirWay, HooksAreHeardUnlessCut, Heard, Secret
<1> QED BY <1>1, <1>2, <1>3, <1>4, LookKeepsHooks, RegisterKeepsHooks, StoreKeepsHooks DEF H!Next

\* Every hook the host keeps once its sync has ended is heard, and the row stands for a
\* hook at the host, but for hooks cut off or made beside another, for any number of
\* overlapping syncs and of secrets, wherever a sync dies or the repository is deleted.
THEOREM HooksAreHeard == H!Spec => []HooksAreHeardUnlessCut
<1>1. HookInv /\ [H!Next]_H!vars => HookInv'
  BY HookNext
<1>2. HookInv => HooksAreHeardUnlessCut
  BY DEF HookInv
<1> QED BY <1>1, <1>2, HookInit, PTL DEF H!Spec

\* Every row of the hooks' tables and every job keeps its type.
THEOREM HookTypes == ASSUME MaxHooks \in Nat PROVE H!Spec => []H!TypeOK
<1> DEFINE Bounded == HookInv /\ generated <= MaxHooks
<1>1. H!Init => Bounded
  BY HookInit DEF H!Init
<1>2. Bounded /\ [H!Next]_H!vars => Bounded'
  <2> SUFFICES ASSUME Bounded, [H!Next]_H!vars PROVE generated' <= MaxHooks
    BY HookNext
  <2>1. generated' = generated \/ (generated' = generated + 1 /\ generated < MaxHooks)
    BY DEF H!Next, H!vars, H!SyncRepository, H!Look, H!GetWebhookConfigByRepoID,
           H!RegisterWebhook, H!CreateWebhookConfig, H!Stop, H!DeleteRepository
  <2> QED BY <2>1 DEF HookInv, SecretsOK
<1>3. Bounded => H!TypeOK
  <2> SUFFICES ASSUME Bounded PROVE H!TypeOK
    OBVIOUS
  <2>1. generated \in 0..MaxHooks /\ config \in 0..MaxHooks
    BY DEF HookInv, SecretsOK
  <2>2. \A s \in Syncs : work[s].secret \in 0..MaxHooks
    <3> SUFFICES ASSUME NEW s \in Syncs PROVE work[s].secret \in 0..MaxHooks
      OBVIOUS
    <3>1. work[s].secret \in Nat /\ work[s].secret <= generated
      BY DEF HookInv, SecretsOK, Jobs, Secret
    <3> QED BY <3>1 DEF HookInv, SecretsOK
  <2>3. work \in [Syncs -> [at : {"idle", "look", "register", "store"}, secret : 0..MaxHooks]]
    BY <2>2 DEF HookInv, SecretsOK, Jobs
  <2> QED BY <2>1, <2>3 DEF HookInv, SecretsOK, H!TypeOK
<1> QED BY <1>1, <1>2, <1>3, PTL DEF H!Spec
=============================================================================

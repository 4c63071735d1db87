------------------------ MODULE DocGeneration_proofs ------------------------
(***************************************************************************)
(* What holds of DocGeneration for every number of documents, requests,    *)
(* workers, retries and failures; and, at the end, of the host that it     *)
(* publishes at (Providers).                                               *)
(*                                                                         *)
(* The argument: a task has one worker and a pending row one request that  *)
(* enqueues it (Apart), so what a worker has in hand is the row as it was, *)
(* or the row is noted as overtaken (ClientOK, WorkerOK, TaskOK); a list   *)
(* gets its next head only from who hides the last one; and while nothing  *)
(* got past the record, one generation at a time is admitted, what is      *)
(* charged is recorded or is the cost of that one, and it was admitted     *)
(* below the budget (Accounts).                                            *)
(***************************************************************************)
EXTENDS DocGeneration, ProviderTables, SequenceTheorems, FiniteSetTheorems, WellFoundedInduction, NaturalsInduction, TLAPS

TaskStates == {"none", "waiting", "active", "archived", "kept"}
Tasks == [state : TaskStates, tries : Nat]
Charges == Costs \cup {0}
DocRow == [scope : Scopes, status : Statuses, content : BOOLEAN, tokens : Charges,
           superseded : Nat, root : Nat]
ClientPlaces == {"idle", "insert", "enqueue", "version", "supersede"}
WorkerPlaces == {"idle", "start", "generate", "publish", "progress", "complete", "ack", "fail", "error"}
Request == [at : ClientPlaces, on : Nat, row : DocRow \union {<<>>}, scope : Scopes \union {"none"}]
Work == [at : WorkerPlaces, on : Nat, row : DocRow \union {<<>>}]

Shapes ==
    /\ doc \in Seq(DocRow) /\ task \in Seq(Tasks)
    /\ opened \in Seq(Nat) /\ excuse \in Seq(SUBSET Excuses)
    /\ Len(task) = Len(doc) /\ Len(opened) = Len(doc) /\ Len(excuse) = Len(doc)
    /\ produced \subseteq Docs /\ spent \in Nat
    /\ req \in [Clients -> Request] /\ job \in [Workers -> Work]

\* A version is of the document of what it replaces, and comes after it.
Linked(row, d) == row.superseded = 0 \/ (row.superseded \in d + 1..Len(doc)
                                         /\ doc[row.superseded].root = doc[d].root)
\* A copy is of its row.
CopyOf(row, d) == row \in DocRow /\ d \in Docs /\ row.root = doc[d].root /\ row.scope = doc[d].scope
                  /\ Linked(row, d)

RowsOK == \A d \in Docs : doc[d].root \in 1..d /\ Linked(doc[d], d)

\* A request has a row that nobody else has a task for, or a copy.
ClientOK(r) ==
    /\ r.at = "insert" => r.scope \in Scopes
    /\ r.at = "enqueue" => /\ r.on \in Docs /\ r.on \notin produced
                           /\ task[r.on].state = "none" /\ opened[r.on] = 0
    /\ r.at \in {"version", "supersede"} => CopyOf(r.row, r.on)
    /\ r.at = "supersede" => r.row.superseded # 0

\* A worker has the task of its row, and knows whether a request was opened.
WorkerOK(j) ==
    /\ j.at = "idle" => j.on = 0
    /\ j.at # "idle" => CopyOf(j.row, j.on) /\ task[j.on].state = "active"
    /\ j.at \in {"start", "generate", "publish"} /\ "again" \notin excuse[j.on] => opened[j.on] = 0
    /\ j.at \in {"publish", "progress", "complete"} => j.row.content
    /\ j.at = "progress" => j.row.scope = "org"
    /\ j.at = "complete" /\ j.row.scope = "repo" => opened[j.on] >= 1
    /\ j.at = "ack" => doc[j.on].status = "completed" \/ "stale" \in excuse[j.on]

\* A task that waits has opened nothing, or is noted to run again.
TaskOK(d) == task[d].state = "waiting" /\ "again" \notin excuse[d] => opened[d] = 0

Apart ==
    /\ \A c, e \in Clients : req[c].at = "enqueue" /\ req[e].at = "enqueue" /\ req[c].on = req[e].on => c = e
    /\ \A v, w \in Workers : job[v].at # "idle" /\ job[w].at # "idle" /\ job[v].on = job[w].on => v = w

Base ==
    /\ Shapes /\ RowsOK /\ Apart
    /\ \A c \in Clients : ClientOK(req[c])
    /\ \A w \in Workers : WorkerOK(job[w])
    /\ \A d \in Docs : TaskOK(d)

\* What is admitted, scheduled, charged; and whether a charge is to come.
Admitted(c) == req[c].at \in {"insert", "enqueue"}
Scheduled(d) == task[d].state \in {"waiting", "active"}
Charged(w) == job[w].at \in {"publish", "progress", "complete"}
Owes == \/ \E c \in Clients : Admitted(c)
        \/ \E d \in Docs : Scheduled(d) /\ d \notin produced

\* One generation at a time is on its way.
Alone ==
    /\ \A c, e \in Clients : Admitted(c) /\ Admitted(e) => c = e
    /\ \A d, e \in Docs : Scheduled(d) /\ Scheduled(e) => d = e
    /\ \A c \in Clients, d \in Docs : ~(Admitted(c) /\ Scheduled(d))

\* A row that shows a cost is that of a recorded generation, and so is a copy.
RowRecorded(d) ==
    /\ doc[d].tokens # 0 => d \in produced /\ doc[d].status = "completed"
    /\ task[d].state = "waiting" => d \notin produced
ClientRecorded(c) ==
    req[c].at \in {"version", "supersede"} /\ req[c].row.tokens # 0
       => /\ req[c].on \in produced /\ req[c].row.status = "completed"
          /\ doc[req[c].on].tokens = req[c].row.tokens
WorkerRecorded(w) ==
    /\ job[w].at = "ack" => job[w].on \in produced
    /\ job[w].at \notin {"idle", "ack"} =>
          /\ job[w].on \notin produced
          /\ Charged(w) => job[w].row.tokens \in Costs
          /\ ~Charged(w) => job[w].row.tokens = 0
Recorded ==
    /\ \A d \in Docs : RowRecorded(d)
    /\ \A c \in Clients : ClientRecorded(c)
    /\ \A w \in Workers : WorkerRecorded(w)

\* Below the budget, or over it by less than one generation.
Within(used) == used <= Budget \/ \E cost \in Costs : used < Budget + cost

\* What is charged is recorded, or in the hands of the worker that charged it.
Accounts ==
    /\ \A w \in Workers : Charged(w) => spent = SumTokensUsedSince + job[w].row.tokens
    /\ (\A w \in Workers : ~Charged(w)) => spent = SumTokensUsedSince
    /\ Owes => SumTokensUsedSince < Budget
    /\ Within(SumTokensUsedSince)

Balanced == Alone /\ Recorded /\ Accounts
Books == overspent = {} => Balanced

\* What the runs check of the rows.
Held ==
    /\ OneHeadUnlessForked
    /\ CompletedIsKeptUnlessStale
    /\ OneChangeRequestUnlessAgain
    /\ UnfinishedIsScheduledUnlessOrphaned

IInv == Base /\ Held /\ Books

-----------------------------------------------------------------------------
(* Rows, requests and workers by their parts *)

LEMMA ChargesAre == Charges \subseteq Nat /\ 0 \in Charges /\ Costs \subseteq Charges /\ Costs \subseteq Nat
  BY BudgetAssumption DEF Charges

LEMMA RowParts ==
    ASSUME NEW row \in DocRow
    PROVE  /\ row.scope \in Scopes /\ row.status \in Statuses /\ row.content \in BOOLEAN
           /\ row.tokens \in Charges /\ row.superseded \in Nat /\ row.root \in Nat
  BY DEF DocRow

\* A row with another status, content and charge.
LEMMA RowWritten ==
    ASSUME NEW row \in DocRow, NEW st \in Statuses, NEW co \in BOOLEAN, NEW tk \in Charges,
           NEW new, new = [row EXCEPT !.status = st, !.content = co, !.tokens = tk]
    PROVE  /\ new \in DocRow /\ new.scope = row.scope /\ new.root = row.root
           /\ new.superseded = row.superseded
           /\ new.status = st /\ new.content = co /\ new.tokens = tk
  BY DEF DocRow

LEMMA RowHidden ==
    ASSUME NEW row \in DocRow, NEW n \in Nat, NEW new, new = [row EXCEPT !.superseded = n]
    PROVE  /\ new \in DocRow /\ new.scope = row.scope /\ new.root = row.root
           /\ new.superseded = n
           /\ new.status = row.status /\ new.content = row.content /\ new.tokens = row.tokens
  BY DEF DocRow

LEMMA RowNew ==
    ASSUME NEW sc \in Scopes, NEW st \in Statuses, NEW co \in BOOLEAN, NEW rt \in Nat,
           NEW new, new = NewRow(sc, st, co, rt)
    PROVE  /\ new \in DocRow /\ new.scope = sc /\ new.root = rt /\ new.superseded = 0
           /\ new.status = st /\ new.content = co /\ new.tokens = 0
  BY ChargesAre DEF DocRow, NewRow

LEMMA TaskParts ==
    ASSUME NEW t \in Tasks
    PROVE  t.state \in TaskStates /\ t.tries \in Nat
  BY DEF Tasks

LEMMA RequestParts ==
    ASSUME NEW r \in Request
    PROVE  /\ r.at \in ClientPlaces /\ r.on \in Nat /\ r.row \in DocRow \union {<<>>}
           /\ r.scope \in Scopes \union {"none"}
  BY DEF Request

LEMMA WorkParts ==
    ASSUME NEW j \in Work
    PROVE  j.at \in WorkerPlaces /\ j.on \in Nat /\ j.row \in DocRow \union {<<>>}
  BY DEF Work

LEMMA IdleIs ==
    /\ Idle \in Request /\ Idle.at = "idle" /\ Idle.on = 0
    /\ Free \in Work /\ Free.at = "idle" /\ Free.on = 0
  BY DEF Idle, Request, ClientPlaces, Free, Work, WorkerPlaces

\* What the tables are.
LEMMA Tables ==
    ASSUME Shapes
    PROVE  /\ Len(doc) \in Nat /\ Docs = 1..Len(doc)
           /\ \A d \in Docs : /\ doc[d] \in DocRow /\ task[d] \in Tasks
                              /\ opened[d] \in Nat /\ excuse[d] \in SUBSET Excuses
           /\ DOMAIN task = Docs /\ DOMAIN opened = Docs /\ DOMAIN excuse = Docs
           /\ \A c \in Clients : req[c] \in Request
           /\ \A w \in Workers : job[w] \in Work
  <1>1. Len(doc) \in Nat /\ Docs = 1..Len(doc)
    BY LenProperties DEF Shapes, Docs
  <1>2. DOMAIN task = Docs /\ DOMAIN opened = Docs /\ DOMAIN excuse = Docs
    BY <1>1, LenProperties DEF Shapes
  <1>3. \A d \in Docs : doc[d] \in DocRow
    BY <1>1, ElementOfSeq DEF Shapes
  <1>4. \A d \in Docs : task[d] \in Tasks
    BY <1>1, ElementOfSeq DEF Shapes
  <1>5. \A d \in Docs : opened[d] \in Nat
    BY <1>1, ElementOfSeq DEF Shapes
  <1>6. \A d \in Docs : excuse[d] \in SUBSET Excuses
    BY <1>1, ElementOfSeq DEF Shapes
  <1>7. (\A c \in Clients : req[c] \in Request) /\ (\A w \in Workers : job[w] \in Work)
    BY DEF Shapes
  <1>. QED  BY <1>1, <1>2, <1>3, <1>4, <1>5, <1>6, <1>7

-----------------------------------------------------------------------------
(* The parts steps are made of *)

\* A row is inserted.
LEMMA Created ==
    ASSUME Shapes, NEW row \in DocRow, CreateDocGeneration(row)
    PROVE  /\ doc' \in Seq(DocRow) /\ task' \in Seq(Tasks) /\ opened' \in Seq(Nat)
           /\ Len(doc') = Len(doc) + 1 /\ Len(task') = Len(doc) + 1 /\ Len(opened') = Len(doc) + 1
           /\ Docs' = 1..Len(doc) + 1 /\ doc'[Len(doc) + 1] = row
           /\ task'[Len(doc) + 1].state = "none" /\ opened'[Len(doc) + 1] = 0
           /\ \A d \in Docs : doc'[d] = doc[d] /\ task'[d] = task[d] /\ opened'[d] = opened[d]
  <1>1. Len(doc) \in Nat /\ Docs = 1..Len(doc)
    BY Tables
  <1>2. NoTask \in Tasks /\ NoTask.state = "none"
    BY DEF NoTask, Tasks, TaskStates
  <1>3. doc' \in Seq(DocRow) /\ Len(doc') = Len(doc) + 1 /\ doc'[Len(doc) + 1] = row
        /\ \A d \in 1..Len(doc) : doc'[d] = doc[d]
    BY <1>1, AppendProperties DEF CreateDocGeneration, Shapes
  <1>4. task' \in Seq(Tasks) /\ Len(task') = Len(task) + 1 /\ task'[Len(task) + 1] = NoTask
        /\ \A d \in 1..Len(task) : task'[d] = task[d]
    BY <1>1, <1>2, AppendProperties DEF CreateDocGeneration, Shapes
  <1>5. opened' \in Seq(Nat) /\ Len(opened') = Len(opened) + 1 /\ opened'[Len(opened) + 1] = 0
        /\ \A d \in 1..Len(opened) : opened'[d] = opened[d]
    BY <1>1, AppendProperties DEF CreateDocGeneration, Shapes
  <1>6. Docs' = 1..Len(doc')
    BY <1>3, LenProperties DEF Docs
  <1>. QED  BY <1>1, <1>2, <1>3, <1>4, <1>5, <1>6 DEF Shapes

\* A row is written.
LEMMA Written ==
    ASSUME Shapes, NEW d \in Docs, NEW row \in DocRow, UpdateDocGeneration(d, row)
    PROVE  /\ doc' \in Seq(DocRow) /\ Len(doc') = Len(doc) /\ Docs' = Docs
           /\ \A e \in Docs : doc'[e] = IF e = d THEN row ELSE doc[e]
  <1>1. Len(doc) \in Nat /\ Docs = 1..Len(doc)
    BY Tables
  <1>2. doc' = [doc EXCEPT ![d] = row] /\ doc \in Seq(DocRow)
    BY DEF UpdateDocGeneration, Shapes
  <1>3. doc' \in Seq(DocRow) /\ Len(doc') = Len(doc)
        /\ \A e \in 1..Len(doc) : doc'[e] = IF e = d THEN row ELSE doc[e]
    BY <1>1, <1>2, ExceptSeq
  <1>4. Docs' = 1..Len(doc')
    BY <1>3, LenProperties DEF Docs
  <1>. QED  BY <1>1, <1>3, <1>4

\* A task, or a row's history, changes.
LEMMA TaskSet ==
    ASSUME Shapes, NEW d \in Docs, NEW t \in Tasks, task' = [task EXCEPT ![d] = t]
    PROVE  /\ task' \in Seq(Tasks) /\ Len(task') = Len(doc)
           /\ \A e \in Docs : task'[e] = IF e = d THEN t ELSE task[e]
  <1>1. Len(doc) \in Nat /\ Docs = 1..Len(doc)
    BY Tables
  <1>. QED  BY <1>1, ExceptSeq DEF Shapes

LEMMA TaskMoved ==
    ASSUME Shapes, NEW d \in Docs, NEW s \in TaskStates, task' = [task EXCEPT ![d].state = s]
    PROVE  /\ task' \in Seq(Tasks) /\ Len(task') = Len(doc)
           /\ task'[d].state = s
           /\ \A e \in Docs : e # d => task'[e] = task[e]
  <1>. DEFINE t == [task[d] EXCEPT !.state = s]
  <1>1. task[d] \in Tasks
    BY Tables
  <1>2. t \in Tasks /\ t.state = s
    BY <1>1 DEF Tasks
  <1>3. task' = [task EXCEPT ![d] = t]
    OBVIOUS
  <1>. HIDE DEF t
  <1>4. /\ task' \in Seq(Tasks) /\ Len(task') = Len(doc)
        /\ \A e \in Docs : task'[e] = IF e = d THEN t ELSE task[e]
    BY <1>2, <1>3, TaskSet
  <1>. QED  BY <1>2, <1>4

LEMMA Noted ==
    ASSUME Shapes, NEW d \in Docs, NEW set \in SUBSET Excuses,
           excuse' = [excuse EXCEPT ![d] = @ \union set]
    PROVE  /\ excuse' \in Seq(SUBSET Excuses) /\ Len(excuse') = Len(doc)
           /\ \A e \in Docs : excuse'[e] = IF e = d THEN excuse[e] \union set ELSE excuse[e]
  <1>1. Len(doc) \in Nat /\ Docs = 1..Len(doc) /\ excuse[d] \in SUBSET Excuses
    BY Tables
  <1>2. excuse[d] \union set \in SUBSET Excuses
    BY <1>1
  <1>3. excuse' = [excuse EXCEPT ![d] = excuse[d] \union set]
    OBVIOUS
  <1>4. excuse \in Seq(SUBSET Excuses) /\ Len(excuse) = Len(doc)
    BY DEF Shapes
  <1>5. /\ excuse' \in Seq(SUBSET Excuses) /\ Len(excuse') = Len(excuse)
        /\ \A e \in 1..Len(excuse) : excuse'[e] = IF e = d THEN excuse[d] \union set ELSE excuse[e]
    BY <1>1, <1>2, <1>3, <1>4, ExceptSeq
  <1>. QED  BY <1>1, <1>4, <1>5

\* A worker moves on, or is free again.
LEMMA Moved ==
    ASSUME Shapes, NEW w \in Workers, NEW step \in WorkerPlaces, NEW row \in DocRow \union {<<>>},
           Move(w, step, row)
    PROVE  /\ job' \in [Workers -> Work]
           /\ job'[w].at = step /\ job'[w].on = job[w].on /\ job'[w].row = row
           /\ \A v \in Workers : v # w => job'[v] = job[v]
  <1>. DEFINE j == [job[w] EXCEPT !.at = step, !.row = row]
  <1>1. job[w] \in Work /\ job \in [Workers -> Work]
    BY DEF Shapes
  <1>2. j \in Work /\ j.at = step /\ j.on = job[w].on /\ j.row = row
    BY <1>1 DEF Work
  <1>3. job' = [job EXCEPT ![w] = j]
    BY DEF Move
  <1>. HIDE DEF j
  <1>. QED  BY <1>1, <1>2, <1>3

LEMMA Rested ==
    ASSUME Shapes, NEW w \in Workers, Rest(w)
    PROVE  /\ job' \in [Workers -> Work] /\ job'[w] = Free
           /\ \A v \in Workers : v # w => job'[v] = job[v]
  BY IdleIs DEF Rest, Shapes

LEMMA Ended ==
    ASSUME Shapes, NEW c \in Clients, End(c)
    PROVE  /\ req' \in [Clients -> Request] /\ req'[c] = Idle
           /\ \A e \in Clients : e # c => req'[e] = req[e]
  BY IdleIs DEF End, Shapes

LEMMA Placed ==
    ASSUME Shapes, NEW c \in Clients, NEW r \in Request, req' = [req EXCEPT ![c] = r]
    PROVE  /\ req' \in [Clients -> Request] /\ req'[c] = r
           /\ \A e \in Clients : e # c => req'[e] = req[e]
  BY DEF Shapes

-----------------------------------------------------------------------------
(* What every step keeps *)

\* Rows stay where they are, of their document; what is noted and opened stays.
Keeps ==
    /\ Docs \subseteq Docs' /\ Len(doc) <= Len(doc')
    /\ \A d \in Docs : /\ doc'[d].root = doc[d].root /\ doc'[d].scope = doc[d].scope
                       /\ excuse[d] \subseteq excuse'[d]

LEMMA KeepsSame ==
    ASSUME Shapes, doc' = doc, excuse' = excuse
    PROVE  Keeps
  <1>1. Len(doc) \in Nat /\ Docs = 1..Len(doc)
    BY Tables
  <1>. QED  BY <1>1 DEF Keeps, Docs

LEMMA LinkKept ==
    ASSUME Shapes, Keeps, Len(doc') \in Nat, Docs' = 1..Len(doc'),
           NEW row, NEW d \in Docs, row.superseded \in Nat, Linked(row, d)
    PROVE  Linked(row, d)'
  <1>1. Len(doc) \in Nat /\ Docs = 1..Len(doc)
    BY Tables
  <1>. QED  BY <1>1 DEF Keeps, Linked

LEMMA CopyKept ==
    ASSUME Shapes, Keeps, Len(doc') \in Nat, Docs' = 1..Len(doc'), NEW row, NEW d, CopyOf(row, d)
    PROVE  CopyOf(row, d)'
  <1>1. row \in DocRow /\ d \in Docs /\ row.root = doc[d].root /\ row.scope = doc[d].scope
        /\ Linked(row, d)
    BY DEF CopyOf
  <1>2. row.superseded \in Nat
    BY <1>1, RowParts
  <1>3. Linked(row, d)'
    BY <1>1, <1>2, LinkKept
  <1>. QED  BY <1>1, <1>3 DEF CopyOf, Keeps

LEMMA ClientKept ==
    ASSUME Shapes, Shapes', Keeps, NEW r \in Request, ClientOK(r),
           r.at = "enqueue" => /\ r.on \notin produced' /\ task'[r.on].state = "none"
                               /\ opened'[r.on] = opened[r.on]
    PROVE  ClientOK(r)'
  <1>1. Len(doc') \in Nat /\ Docs' = 1..Len(doc')
    BY LenProperties DEF Shapes, Docs
  <1>2. r.at \in {"version", "supersede"} => CopyOf(r.row, r.on)'
    BY <1>1, CopyKept DEF ClientOK
  <1>3. r.at = "enqueue" => r.on \in Docs'
    BY DEF ClientOK, Keeps
  <1>. QED  BY <1>2, <1>3 DEF ClientOK

LEMMA WorkerKept ==
    ASSUME Shapes, Shapes', Keeps, NEW j \in Work, WorkerOK(j),
           j.at # "idle" =>
              /\ task'[j.on].state = "active" /\ opened'[j.on] = opened[j.on]
              /\ \/ doc'[j.on].status = doc[j.on].status
                 \/ doc[j.on].status = "completed" => "stale" \in excuse'[j.on]
    PROVE  WorkerOK(j)'
  <1>1. Len(doc') \in Nat /\ Docs' = 1..Len(doc')
    BY LenProperties DEF Shapes, Docs
  <1>2. CASE j.at = "idle"
    BY <1>2 DEF WorkerOK
  <1>3. CASE j.at # "idle"
    <2>1. CopyOf(j.row, j.on) /\ j.on \in Docs
      BY <1>3 DEF WorkerOK, CopyOf
    <2>2. CopyOf(j.row, j.on)' /\ excuse[j.on] \subseteq excuse'[j.on]
      BY <1>1, <2>1, CopyKept DEF Keeps
    <2>3. j.at = "ack" => doc'[j.on].status = "completed" \/ "stale" \in excuse'[j.on]
      BY <1>3, <2>2 DEF WorkerOK
    <2>4. j.at \in {"start", "generate", "publish"} /\ "again" \notin excuse'[j.on] => opened'[j.on] = 0
      BY <1>3, <2>2 DEF WorkerOK
    <2>5. j.at = "complete" /\ j.row.scope = "repo" => opened'[j.on] >= 1
      BY <1>3 DEF WorkerOK
    <2>6. /\ j.at \in {"publish", "progress", "complete"} => j.row.content
          /\ j.at = "progress" => j.row.scope = "org"
      BY DEF WorkerOK
    <2>7. task'[j.on].state = "active"
      BY <1>3
    <2>. QED  BY <2>2, <2>3, <2>4, <2>5, <2>6, <2>7 DEF WorkerOK
  <1>. QED  BY <1>2, <1>3

LEMMA ClientsKept ==
    ASSUME Base, Shapes', Keeps,
           \A e \in Clients :
              \/ /\ req'[e] = req[e]
                 /\ req[e].at = "enqueue" =>
                       /\ req[e].on \notin produced' /\ task'[req[e].on].state = "none"
                       /\ opened'[req[e].on] = opened[req[e].on]
              \/ ClientOK(req[e])'
    PROVE  \A e \in Clients : ClientOK(req[e])'
  <1>1. SUFFICES ASSUME NEW e \in Clients, req'[e] = req[e],
                        req[e].at = "enqueue" =>
                           /\ req[e].on \notin produced' /\ task'[req[e].on].state = "none"
                           /\ opened'[req[e].on] = opened[req[e].on]
                 PROVE  ClientOK(req[e])'
    OBVIOUS
  <1>2. PICK r \in Request : r = req[e] /\ r = req'[e]
    BY <1>1, Tables DEF Base
  <1>3. ClientOK(r)
    BY <1>2 DEF Base
  <1>4. r.at = "enqueue" => /\ r.on \notin produced' /\ task'[r.on].state = "none"
                            /\ opened'[r.on] = opened[r.on]
    BY <1>1, <1>2
  <1>5. ClientOK(r)'
    BY <1>3, <1>4, ClientKept DEF Base
  <1>. QED  BY <1>2, <1>5

LEMMA WorkersKept ==
    ASSUME Base, Shapes', Keeps,
           \A v \in Workers :
              \/ /\ job'[v] = job[v]
                 /\ job[v].at # "idle" =>
                       /\ task'[job[v].on].state = "active" /\ opened'[job[v].on] = opened[job[v].on]
                       /\ \/ doc'[job[v].on].status = doc[job[v].on].status
                          \/ doc[job[v].on].status = "completed" => "stale" \in excuse'[job[v].on]
              \/ WorkerOK(job[v])'
    PROVE  \A v \in Workers : WorkerOK(job[v])'
  <1>1. SUFFICES ASSUME NEW v \in Workers, job'[v] = job[v],
                        job[v].at # "idle" =>
                          /\ task'[job[v].on].state = "active" /\ opened'[job[v].on] = opened[job[v].on]
                          /\ \/ doc'[job[v].on].status = doc[job[v].on].status
                             \/ doc[job[v].on].status = "completed" => "stale" \in excuse'[job[v].on]
                 PROVE  WorkerOK(job[v])'
    OBVIOUS
  <1>2. PICK j \in Work : j = job[v] /\ j = job'[v]
    BY <1>1, Tables DEF Base
  <1>3. WorkerOK(j)
    BY <1>2 DEF Base
  <1>4. j.at # "idle" =>
              /\ task'[j.on].state = "active" /\ opened'[j.on] = opened[j.on]
              /\ \/ doc'[j.on].status = doc[j.on].status
                 \/ doc[j.on].status = "completed" => "stale" \in excuse'[j.on]
    BY <1>1, <1>2
  <1>5. WorkerOK(j)'
    BY <1>3, <1>4, WorkerKept DEF Base
  <1>. QED  BY <1>2, <1>5

LEMMA RowsKept ==
    ASSUME Shapes, Shapes', Keeps, RowsOK,
           \A d \in Docs' : \/ d \in Docs /\ doc'[d] = doc[d]
                            \/ doc'[d].root \in 1..d /\ Linked(doc[d], d)'
    PROVE  RowsOK'
  <1>1. SUFFICES ASSUME NEW d \in Docs, d \in Docs', doc'[d] = doc[d]
                 PROVE  doc'[d].root \in 1..d /\ Linked(doc[d], d)'
    BY DEF RowsOK
  <1>2. PICK row \in DocRow : row = doc[d] /\ row = doc'[d]
    BY <1>1, Tables
  <1>3. Linked(row, d) /\ row.root \in 1..d /\ row.superseded \in Nat
    BY <1>2, RowParts DEF RowsOK
  <1>4. Len(doc') \in Nat /\ Docs' = 1..Len(doc')
    BY LenProperties DEF Shapes, Docs
  <1>5. Linked(row, d)'
    BY <1>3, <1>4, LinkKept
  <1>. QED  BY <1>2, <1>3, <1>5

LEMMA ApartKept ==
    ASSUME Apart,
           \A e \in Clients : req'[e].at = "enqueue" => req[e].at = "enqueue" /\ req'[e].on = req[e].on,
           \A v \in Workers : job'[v].at # "idle" => job[v].at # "idle" /\ job'[v].on = job[v].on
    PROVE  Apart'
  BY DEF Apart

\* What a step has to show: of each part it may disturb, that it is right.
LEMMA BaseNext ==
    ASSUME Base, Shapes', Keeps, Apart',
           \A d \in Docs' : \/ d \in Docs /\ doc'[d] = doc[d]
                            \/ doc'[d].root \in 1..d /\ Linked(doc[d], d)',
           \A e \in Clients :
              \/ /\ req'[e] = req[e]
                 /\ req[e].at = "enqueue" =>
                       /\ req[e].on \notin produced' /\ task'[req[e].on].state = "none"
                       /\ opened'[req[e].on] = opened[req[e].on]
              \/ ClientOK(req[e])',
           \A v \in Workers :
              \/ /\ job'[v] = job[v]
                 /\ job[v].at # "idle" =>
                       /\ task'[job[v].on].state = "active" /\ opened'[job[v].on] = opened[job[v].on]
                       /\ \/ doc'[job[v].on].status = doc[job[v].on].status
                          \/ doc[job[v].on].status = "completed" => "stale" \in excuse'[job[v].on]
              \/ WorkerOK(job[v])',
           \A d \in Docs' : \/ d \in Docs /\ task'[d] = task[d] /\ opened'[d] = opened[d]
                            \/ TaskOK(d)'
    PROVE  Base'
  <1>1. RowsOK'
    BY RowsKept DEF Base
  <1>2. \A e \in Clients : ClientOK(req[e])'
    BY ClientsKept
  <1>3. \A v \in Workers : WorkerOK(job[v])'
    BY WorkersKept
  <1>4. \A d \in Docs' : TaskOK(d)'
    BY DEF Base, TaskOK, Keeps
  <1>. QED  BY <1>1, <1>2, <1>3, <1>4 DEF Base

\* Rows and notes stay as they are.
LEMMA RowsStay ==
    ASSUME Base, doc' = doc, excuse' = excuse
    PROVE  Keeps /\ Docs' = Docs /\ Len(doc') = Len(doc)
  BY KeepsSame DEF Base, Docs

\* What is known of the row and the task a worker has.
LEMMA AtWork ==
    ASSUME Base, NEW w \in Workers, job[w].at # "idle"
    PROVE  /\ job[w].on \in Docs /\ doc[job[w].on] \in DocRow /\ job[w].row \in DocRow
           /\ job[w].row.root = doc[job[w].on].root /\ job[w].row.scope = doc[job[w].on].scope
           /\ Linked(job[w].row, job[w].on)
           /\ doc[job[w].on].root \in Docs /\ doc[job[w].on].root \in 1..job[w].on
           /\ task[job[w].on].state = "active" /\ task[job[w].on] \in Tasks
           /\ \A v \in Workers : v # w /\ job[v].at # "idle" => job[v].on # job[w].on
           /\ \A e \in Clients : req[e].at = "enqueue" => req[e].on \in Docs /\ req[e].on # job[w].on
  <1>1. WorkerOK(job[w]) /\ Shapes
    BY DEF Base
  <1>2. CopyOf(job[w].row, job[w].on) /\ task[job[w].on].state = "active"
    BY <1>1 DEF WorkerOK
  <1>3. job[w].on \in Docs /\ doc[job[w].on] \in DocRow /\ task[job[w].on] \in Tasks
        /\ Docs = 1..Len(doc) /\ Len(doc) \in Nat
    BY <1>1, <1>2, Tables DEF CopyOf
  <1>4. doc[job[w].on].root \in 1..job[w].on
    BY <1>3 DEF Base, RowsOK
  <1>5. \A v \in Workers : v # w /\ job[v].at # "idle" => job[v].on # job[w].on
    BY DEF Base, Apart
  <1>6. \A e \in Clients : req[e].at = "enqueue" => req[e].on \in Docs /\ task[req[e].on].state = "none"
    BY DEF Base, ClientOK
  <1>. QED  BY <1>2, <1>3, <1>4, <1>5, <1>6 DEF CopyOf

\* A sequence over the rows, given row by row.
LEMMA IsSeq ==
    ASSUME Shapes, NEW S, NEW s, DOMAIN s = Docs, s = [e \in DOMAIN s |-> s[e]],
           \A e \in Docs : s[e] \in S
    PROVE  s \in Seq(S) /\ Len(s) = Len(doc)
  <1>1. Len(doc) \in Nat /\ Docs = 1..Len(doc)
    BY Tables
  <1>2. s \in [1..Len(doc) -> S]
    BY <1>1
  <1>3. s \in Seq(S)
    BY <1>1, <1>2, SeqDef
  <1>4. Len(s) \in Nat /\ DOMAIN s = 1..Len(s)
    BY <1>3, LenProperties
  <1>. QED  BY <1>1, <1>3, <1>4

\* What a save by a worker writes and notes.
LEMMA Saved ==
    ASSUME Base, NEW w \in Workers, job[w].at # "idle", NEW row \in DocRow,
           row.root = job[w].row.root, row.scope = job[w].row.scope,
           row.superseded = job[w].row.superseded,
           SaveRow(w, row)
    PROVE  /\ doc' \in Seq(DocRow) /\ Len(doc') = Len(doc) /\ Docs' = Docs /\ Keeps
           /\ excuse' \in Seq(SUBSET Excuses) /\ Len(excuse') = Len(doc)
           /\ doc'[job[w].on] = row
           /\ \A e \in Docs : e # job[w].on => doc'[e] = doc[e]
           /\ \A e \in Docs : e = job[w].on => doc'[e].root \in 1..e /\ Linked(doc[e], e)'
           /\ doc[job[w].on].superseded # row.superseded =>
                 /\ "forked" \in excuse'[doc[job[w].on].root] /\ "stale" \in excuse'[job[w].on]
           /\ doc[job[w].on].status = "completed" => "stale" \in excuse'[job[w].on]
  <1>1. PICK d \in Docs : d = job[w].on
    BY AtWork
  <1>2. PICK root \in Docs : root = doc[d].root
    BY <1>1, AtWork
  <1>3. /\ Shapes /\ root \in 1..d
        /\ row.root = root /\ row.scope = doc[d].scope /\ Linked(row, d)
        /\ Len(doc) \in Nat /\ Docs = 1..Len(doc)
    BY <1>1, <1>2, AtWork, Tables DEF Base, Linked
  <1>4. /\ UpdateDocGeneration(d, row)
        /\ excuse' = [e \in Docs |->
              excuse[e]
              \union (IF doc[d].superseded # row.superseded /\ e = root THEN {"forked"} ELSE {})
              \union (IF e = d /\ (doc[d].superseded # row.superseded \/ doc[d].status = "completed")
                      THEN {"stale"} ELSE {})]
    BY <1>1, <1>2 DEF SaveRow
  <1>5. /\ doc' \in Seq(DocRow) /\ Len(doc') = Len(doc) /\ Docs' = Docs
        /\ \A e \in Docs : doc'[e] = IF e = d THEN row ELSE doc[e]
    BY <1>3, <1>4, Written
  <1>6. \A e \in Docs : excuse'[e] \in SUBSET Excuses /\ excuse[e] \subseteq excuse'[e]
    BY <1>3, <1>4, Tables DEF Excuses
  <1>7. excuse' \in Seq(SUBSET Excuses) /\ Len(excuse') = Len(doc)
    <2>1. DOMAIN excuse' = Docs /\ excuse' = [e \in DOMAIN excuse' |-> excuse'[e]]
      BY <1>4
    <2>2. PICK S : S = SUBSET Excuses
      OBVIOUS
    <2>3. PICK s : s = excuse'
      OBVIOUS
    <2>4. s \in Seq(S) /\ Len(s) = Len(doc)
      BY <1>3, <1>6, <2>1, <2>2, <2>3, IsSeq
    <2>. QED  BY <2>2, <2>3, <2>4
  <1>8. /\ doc[d].superseded # row.superseded => "forked" \in excuse'[root] /\ "stale" \in excuse'[d]
        /\ doc[d].status = "completed" => "stale" \in excuse'[d]
    BY <1>4
  <1>9. Keeps
    <2>1. \A e \in Docs : doc'[e].root = doc[e].root /\ doc'[e].scope = doc[e].scope
      BY <1>2, <1>3, <1>5
    <2>. QED  BY <1>3, <1>5, <1>6, <2>1 DEF Keeps
  <1>10. Linked(row, d)'
    <2>1. row.superseded \in Nat /\ Len(doc') \in Nat /\ Docs' = 1..Len(doc')
      BY <1>3, <1>5, RowParts
    <2>. QED  BY <1>3, <1>9, <2>1, LinkKept
  <1>11. doc'[d].root \in 1..d /\ Linked(doc[d], d)'
    BY <1>3, <1>5, <1>10
  <1>. QED  BY <1>1, <1>2, <1>5, <1>7, <1>8, <1>9, <1>11

-----------------------------------------------------------------------------
(* What each request's step does, and that the tables stay right *)

\* A request goes on and nothing else changes.
LEMMA RequestMoves ==
    ASSUME Base, NEW c \in Clients, NEW r \in Request, req' = [req EXCEPT ![c] = r],
           r.at # "enqueue", ClientOK(r)',
           doc' = doc, task' = task, opened' = opened, spent' = spent, job' = job,
           produced' = produced, excuse' = excuse
    PROVE  Base'
  <1>1. Shapes
    BY DEF Base
  <1>2. /\ req' \in [Clients -> Request] /\ req'[c] = r
        /\ \A e \in Clients : e # c => req'[e] = req[e]
    BY <1>1, Placed
  <1>3. Shapes'
    BY <1>1, <1>2 DEF Shapes, Docs
  <1>4. Keeps /\ Docs' = Docs
    BY RowsStay
  <1>5. Apart'
    BY <1>2, ApartKept DEF Base
  <1>6. \A e \in Clients : e # c /\ req[e].at = "enqueue" =>
            /\ req[e].on \notin produced /\ task[req[e].on].state = "none"
    BY DEF Base, ClientOK
  <1>7. \A v \in Workers : job[v].at # "idle" => task[job[v].on].state = "active"
    BY DEF Base, WorkerOK
  <1>8. ClientOK(req[c])'
    BY <1>2
  <1>. QED  BY <1>2, <1>3, <1>4, <1>5, <1>6, <1>7, <1>8, BaseNext

LEMMA GenerateDocsDoes ==
    ASSUME Base, NEW c \in Clients, NEW s \in Scopes, GenerateDocs(c, s)
    PROVE  /\ req[c].at = "idle" /\ req'[c].at = "insert"
           /\ \A e \in Clients : e # c => req'[e] = req[e]
           /\ Base'
  <1>1. PICK r : r = [Idle EXCEPT !.at = "insert", !.scope = s]
    OBVIOUS
  <1>2. r \in Request /\ r.at = "insert" /\ r.scope = s
    BY <1>1 DEF Idle, Request, ClientPlaces
  <1>3. req' = [req EXCEPT ![c] = r]
    BY <1>1 DEF GenerateDocs
  <1>4. ClientOK(r)'
    BY <1>2 DEF ClientOK
  <1>5. Base'
    BY <1>2, <1>3, <1>4, RequestMoves DEF GenerateDocs
  <1>. QED  BY <1>2, <1>3, <1>5, Placed DEF GenerateDocs, Base

LEMMA UpdateDocContentDoes ==
    ASSUME Base, NEW c \in Clients, NEW d \in Docs, UpdateDocContent(c, d)
    PROVE  /\ req[c].at = "idle" /\ req'[c].at = "version"
           /\ req'[c].on = d /\ req'[c].row = doc[d]
           /\ \A e \in Clients : e # c => req'[e] = req[e]
           /\ Base'
  <1>1. PICK r : r = [Idle EXCEPT !.at = "version", !.on = d, !.row = doc[d]]
    OBVIOUS
  <1>0. d \in Nat /\ doc[d] \in DocRow /\ Shapes
    BY Tables DEF Base
  <1>2. r \in Request /\ r.at = "version" /\ r.on = d /\ r.row = doc[d]
    BY <1>0, <1>1 DEF Idle, Request, ClientPlaces
  <1>3. req' = [req EXCEPT ![c] = r] /\ doc' = doc /\ excuse' = excuse
    BY <1>1 DEF UpdateDocContent, history
  <1>4. CopyOf(r.row, r.on)
    BY <1>0, <1>2 DEF CopyOf, Base, RowsOK
  <1>5. CopyOf(r.row, r.on)'
    <2>1. Len(doc') \in Nat /\ Docs' = 1..Len(doc') /\ Keeps
      BY <1>0, <1>3, KeepsSame, Tables DEF Docs
    <2>2. PICK row, e : row = r.row /\ e = r.on
      OBVIOUS
    <2>3. CopyOf(row, e)
      BY <1>4, <2>2
    <2>4. CopyOf(row, e)'
      BY <1>0, <2>1, <2>3, CopyKept
    <2>. QED  BY <2>2, <2>4
  <1>6. ClientOK(r)'
    BY <1>2, <1>5 DEF ClientOK
  <1>7. Base'
    BY <1>2, <1>3, <1>6, RequestMoves DEF UpdateDocContent, history
  <1>. QED  BY <1>0, <1>2, <1>3, <1>7, Placed DEF UpdateDocContent

\* A row that nobody has named yet is inserted.
LEMMA Inserted ==
    ASSUME Base, NEW row \in DocRow, row.root = Len(doc) + 1, row.superseded = 0,
           CreateDocGeneration(row), excuse' = Append(excuse, {}),
           produced' = produced, spent' = spent, job' = job, req' \in [Clients -> Request]
    PROVE  /\ Keeps /\ Shapes' /\ Docs' = 1..Len(doc) + 1 /\ doc'[Len(doc) + 1] = row
           /\ task'[Len(doc) + 1].state = "none" /\ opened'[Len(doc) + 1] = 0
           /\ excuse'[Len(doc) + 1] = {}
           /\ \A d \in Docs : /\ doc'[d] = doc[d] /\ task'[d] = task[d] /\ opened'[d] = opened[d]
                              /\ excuse'[d] = excuse[d]
           /\ \A d \in Docs' : \/ d \in Docs /\ doc'[d] = doc[d]
                               \/ doc'[d].root \in 1..d /\ Linked(doc[d], d)'
           /\ \A d \in Docs' : \/ d \in Docs /\ task'[d] = task[d] /\ opened'[d] = opened[d]
                               \/ TaskOK(d)'
           /\ \A v \in Workers :
                 /\ job'[v] = job[v]
                 /\ job[v].at # "idle" =>
                       /\ task'[job[v].on].state = "active" /\ opened'[job[v].on] = opened[job[v].on]
                       /\ doc'[job[v].on].status = doc[job[v].on].status
           /\ \A e \in Clients : req[e].at = "enqueue" =>
                 /\ req[e].on \notin produced' /\ task'[req[e].on].state = "none"
                 /\ opened'[req[e].on] = opened[req[e].on]
  <1>0. Shapes /\ Len(doc) \in Nat /\ Docs = 1..Len(doc)
    BY Tables DEF Base
  <1>1. /\ doc' \in Seq(DocRow) /\ task' \in Seq(Tasks) /\ opened' \in Seq(Nat)
        /\ Len(doc') = Len(doc) + 1 /\ Len(task') = Len(doc) + 1 /\ Len(opened') = Len(doc) + 1
        /\ Docs' = 1..Len(doc) + 1 /\ doc'[Len(doc) + 1] = row
        /\ task'[Len(doc) + 1].state = "none" /\ opened'[Len(doc) + 1] = 0
        /\ \A d \in Docs : doc'[d] = doc[d] /\ task'[d] = task[d] /\ opened'[d] = opened[d]
    BY <1>0, Created
  <1>2. /\ excuse' \in Seq(SUBSET Excuses) /\ Len(excuse') = Len(doc) + 1
        /\ excuse'[Len(doc) + 1] = {} /\ \A d \in Docs : excuse'[d] = excuse[d]
    <2>1. {} \in SUBSET Excuses /\ excuse \in Seq(SUBSET Excuses) /\ Len(excuse) = Len(doc)
      BY <1>0 DEF Shapes
    <2>2. /\ excuse' \in Seq(SUBSET Excuses) /\ Len(excuse') = Len(excuse) + 1
          /\ excuse'[Len(excuse) + 1] = {}
          /\ \A d \in 1..Len(excuse) : excuse'[d] = excuse[d]
      BY <2>1, AppendProperties
    <2>. QED  BY <1>0, <2>1, <2>2
  <1>3. Keeps
    BY <1>0, <1>1, <1>2 DEF Keeps
  <1>4. Shapes'
    BY <1>0, <1>1, <1>2 DEF Shapes
  <1>5. \A d \in Docs' : \/ d \in Docs /\ doc'[d] = doc[d]
                         \/ doc'[d].root \in 1..d /\ Linked(doc[d], d)'
    BY <1>0, <1>1 DEF Linked
  <1>6. \A d \in Docs' : \/ d \in Docs /\ task'[d] = task[d] /\ opened'[d] = opened[d]
                         \/ TaskOK(d)'
    BY <1>0, <1>1 DEF TaskOK
  <1>7. \A v \in Workers : job[v].at # "idle" => job[v].on \in Docs /\ task[job[v].on].state = "active"
    BY AtWork
  <1>8. \A e \in Clients : req[e].at = "enqueue" =>
            req[e].on \in Docs /\ req[e].on \notin produced /\ task[req[e].on].state = "none"
    BY DEF Base, ClientOK
  <1>. QED  BY <1>1, <1>2, <1>3, <1>4, <1>5, <1>6, <1>7, <1>8, ZenonT(60)

LEMMA InsertPendingDoes ==
    ASSUME Base, NEW c \in Clients, InsertPending(c)
    PROVE  /\ req[c].at = "insert"
           /\ req'[c].at = "enqueue" /\ req'[c].on = Len(doc) + 1
           /\ \A e \in Clients : e # c => req'[e] = req[e]
           /\ Docs' = 1..Len(doc) + 1 /\ Keeps
           /\ doc'[Len(doc) + 1].root = Len(doc) + 1 /\ doc'[Len(doc) + 1].tokens = 0
           /\ task'[Len(doc) + 1].state = "none" /\ opened'[Len(doc) + 1] = 0
           /\ \A d \in Docs : /\ doc'[d] = doc[d] /\ task'[d] = task[d] /\ opened'[d] = opened[d]
                              /\ excuse'[d] = excuse[d]
           /\ Base'
  <1>0. Shapes /\ Len(doc) \in Nat /\ Docs = 1..Len(doc) /\ req[c] \in Request /\ req[c].scope \in Scopes
    BY Tables DEF Base, ClientOK, InsertPending
  <1>1. PICK row : row = NewRow(req[c].scope, "pending", FALSE, Len(doc) + 1)
    OBVIOUS
  <1>2. row \in DocRow /\ row.root = Len(doc) + 1 /\ row.superseded = 0 /\ row.tokens = 0
    <2>1. PICK sc \in Scopes, rt \in Nat : sc = req[c].scope /\ rt = Len(doc) + 1
      BY <1>0
    <2>. QED  BY <1>1, <2>1, ChargesAre DEF NewRow, DocRow, Statuses
  <1>3. PICK r : r = [req[c] EXCEPT !.at = "enqueue", !.on = Len(doc) + 1]
    OBVIOUS
  <1>4. r \in Request /\ r.at = "enqueue" /\ r.on = Len(doc) + 1
    <2>1. PICK q \in Request, n \in Nat : q = req[c] /\ n = Len(doc) + 1
      BY <1>0
    <2>. QED  BY <1>3, <2>1 DEF Request, ClientPlaces
  <1>5. req' = [req EXCEPT ![c] = r]
    BY <1>3 DEF InsertPending
  <1>6. /\ req' \in [Clients -> Request] /\ req'[c] = r
        /\ \A e \in Clients : e # c => req'[e] = req[e]
    BY <1>0, <1>4, <1>5, Placed
  <1>7. /\ Keeps /\ Shapes' /\ Docs' = 1..Len(doc) + 1 /\ doc'[Len(doc) + 1] = row
        /\ task'[Len(doc) + 1].state = "none" /\ opened'[Len(doc) + 1] = 0
        /\ \A d \in Docs : /\ doc'[d] = doc[d] /\ task'[d] = task[d] /\ opened'[d] = opened[d]
                           /\ excuse'[d] = excuse[d]
        /\ \A d \in Docs' : \/ d \in Docs /\ doc'[d] = doc[d]
                            \/ doc'[d].root \in 1..d /\ Linked(doc[d], d)'
        /\ \A d \in Docs' : \/ d \in Docs /\ task'[d] = task[d] /\ opened'[d] = opened[d]
                            \/ TaskOK(d)'
        /\ \A v \in Workers :
              /\ job'[v] = job[v]
              /\ job[v].at # "idle" =>
                    /\ task'[job[v].on].state = "active" /\ opened'[job[v].on] = opened[job[v].on]
                    /\ doc'[job[v].on].status = doc[job[v].on].status
        /\ \A e \in Clients : req[e].at = "enqueue" =>
              /\ req[e].on \notin produced' /\ task'[req[e].on].state = "none"
              /\ opened'[req[e].on] = opened[req[e].on]
    BY <1>1, <1>2, <1>6, Inserted DEF InsertPending
  <1>8. ClientOK(req[c])'
    <2>1. r.on \in Docs' /\ r.on \notin produced'
      BY <1>0, <1>4, <1>7 DEF Shapes, InsertPending
    <2>2. task'[r.on].state = "none" /\ opened'[r.on] = 0
      BY <1>4, <1>7
    <2>. QED  BY <1>4, <1>6, <2>1, <2>2 DEF ClientOK
  <1>9. Apart'
    <2>1. \A e \in Clients : req[e].at = "enqueue" => req[e].on \in Docs
      BY DEF Base, ClientOK
    <2>2. \A e \in Clients : e # c /\ req'[e].at = "enqueue" => req'[e].on # Len(doc) + 1
      BY <1>0, <1>6, <2>1
    <2>3. \A e, f \in Clients : req'[e].at = "enqueue" /\ req'[f].at = "enqueue"
                                /\ req'[e].on = req'[f].on => e = f
      BY <1>4, <1>6, <2>2 DEF Base, Apart
    <2>. QED  BY <1>7, <2>3 DEF Base, Apart
  <1>10. Base'
    BY <1>6, <1>7, <1>8, <1>9, BaseNext
  <1>. QED  BY <1>2, <1>4, <1>6, <1>7, <1>10 DEF InsertPending

LEMMA EnqueueDoes ==
    ASSUME Base, NEW c \in Clients, Enqueue(c)
    PROVE  /\ req[c].at = "enqueue" /\ req[c].on \in Docs /\ req[c].on \notin produced
           /\ task[req[c].on].state = "none"
           /\ req'[c].at = "idle" /\ \A e \in Clients : e # c => req'[e] = req[e]
           /\ doc' = doc /\ Docs' = Docs /\ Keeps
           /\ \A d \in Docs : d # req[c].on => task'[d] = task[d]
           /\ \/ task'[req[c].on].state = "waiting"
              \/ task' = task /\ "orphaned" \in excuse'[req[c].on]
           /\ Base'
  <1>1. PICK d \in Docs : d = req[c].on
    BY DEF Base, ClientOK, Enqueue
  <1>2. /\ Shapes /\ task[d] \in Tasks /\ task[d].state = "none" /\ opened[d] = 0 /\ d \notin produced
        /\ req[c].at = "enqueue"
    BY <1>1, Tables DEF Base, ClientOK, Enqueue
  <1>3. /\ req' \in [Clients -> Request] /\ req'[c] = Idle
        /\ \A e \in Clients : e # c => req'[e] = req[e]
    BY <1>2, Ended DEF Enqueue
  <1>4. /\ task' \in Seq(Tasks) /\ Len(task') = Len(doc)
        /\ excuse' \in Seq(SUBSET Excuses) /\ Len(excuse') = Len(doc)
        /\ \A e \in Docs : excuse[e] \subseteq excuse'[e]
        /\ \A e \in Docs : e # d => task'[e] = task[e]
        /\ \/ task'[d].state = "waiting"
           \/ task' = task /\ "orphaned" \in excuse'[d]
    <2>1. CASE task' = [task EXCEPT ![d].state = "waiting"] /\ excuse' = excuse
      <3>1. "waiting" \in TaskStates
        BY DEF TaskStates
      <3>. QED  BY <1>2, <2>1, <3>1, TaskMoved DEF Shapes
    <2>2. CASE Note(d, "orphaned") /\ task' = task
      <3>1. PICK set : set = {"orphaned"}
        OBVIOUS
      <3>2. set \in SUBSET Excuses /\ excuse' = [excuse EXCEPT ![d] = @ \union set]
        BY <2>2, <3>1 DEF Note, Excuses
      <3>3. /\ excuse' \in Seq(SUBSET Excuses) /\ Len(excuse') = Len(doc)
            /\ \A e \in Docs : excuse'[e] = IF e = d THEN excuse[e] \union set ELSE excuse[e]
        BY <1>2, <3>2, Noted
      <3>. QED  BY <1>2, <2>2, <3>1, <3>3 DEF Shapes
    <2>. QED  BY <1>1, <2>1, <2>2 DEF Enqueue
  <1>5. doc' = doc /\ opened' = opened /\ spent' = spent /\ job' = job /\ produced' = produced
    BY DEF Enqueue
  <1>6. Docs' = Docs /\ Len(doc) \in Nat /\ Keeps
    BY <1>2, <1>4, <1>5, Tables DEF Docs, Keeps
  <1>7. Shapes'
    BY <1>2, <1>3, <1>4, <1>5, <1>6 DEF Shapes
  <1>8. ClientOK(req[c])'
    BY <1>3, IdleIs DEF ClientOK
  <1>9. \A e \in Clients : e # c /\ req[e].at = "enqueue" =>
            /\ req[e].on \notin produced' /\ task'[req[e].on].state = "none"
            /\ opened'[req[e].on] = opened[req[e].on]
    <2>1. \A e \in Clients : e # c /\ req[e].at = "enqueue" =>
              req[e].on \in Docs /\ req[e].on # d /\ req[e].on \notin produced /\ task[req[e].on].state = "none"
      BY <1>1, <1>2 DEF Base, ClientOK, Apart
    <2>. QED  BY <1>4, <1>5, <2>1
  <1>10. \A v \in Workers : job[v].at # "idle" =>
            task'[job[v].on].state = "active"
    <2>1. \A v \in Workers : job[v].at # "idle" => job[v].on \in Docs /\ task[job[v].on].state = "active"
      BY AtWork
    <2>. QED  BY <1>2, <1>4, <2>1
  <1>11. TaskOK(d)'
    BY <1>2, <1>5 DEF TaskOK
  <1>12. Apart'
    BY <1>3, <1>5, IdleIs, ApartKept DEF Base
  <1>13. Base'
    BY <1>3, <1>4, <1>5, <1>6, <1>7, <1>8, <1>9, <1>10, <1>11, <1>12, BaseNext
  <1>. QED  BY <1>1, <1>2, <1>3, <1>4, <1>5, <1>6, <1>13, IdleIs

LEMMA CreateManualDocDoes ==
    ASSUME Base, NEW s \in Scopes, CreateManualDoc(s)
    PROVE  /\ Docs' = 1..Len(doc) + 1 /\ Keeps
           /\ doc'[Len(doc) + 1].root = Len(doc) + 1 /\ doc'[Len(doc) + 1].tokens = 0
           /\ doc'[Len(doc) + 1].status = "completed"
           /\ task'[Len(doc) + 1].state = "none" /\ opened'[Len(doc) + 1] = 0
           /\ \A d \in Docs : /\ doc'[d] = doc[d] /\ task'[d] = task[d] /\ opened'[d] = opened[d]
                              /\ excuse'[d] = excuse[d]
           /\ Base'
  <1>0. Shapes /\ Len(doc) \in Nat /\ Docs = 1..Len(doc)
    BY Tables DEF Base
  <1>1. PICK row : row = NewRow(s, "completed", TRUE, Len(doc) + 1)
    OBVIOUS
  <1>2. /\ row \in DocRow /\ row.root = Len(doc) + 1 /\ row.superseded = 0 /\ row.tokens = 0
        /\ row.status = "completed"
    <2>1. PICK rt \in Nat : rt = Len(doc) + 1
      BY <1>0
    <2>. QED  BY <1>1, <2>1, ChargesAre DEF NewRow, DocRow, Statuses
  <1>3. req' = req /\ req' \in [Clients -> Request]
    BY <1>0 DEF CreateManualDoc, Shapes
  <1>7. /\ Keeps /\ Shapes' /\ Docs' = 1..Len(doc) + 1 /\ doc'[Len(doc) + 1] = row
        /\ task'[Len(doc) + 1].state = "none" /\ opened'[Len(doc) + 1] = 0
        /\ \A d \in Docs : /\ doc'[d] = doc[d] /\ task'[d] = task[d] /\ opened'[d] = opened[d]
                           /\ excuse'[d] = excuse[d]
        /\ \A d \in Docs' : \/ d \in Docs /\ doc'[d] = doc[d]
                            \/ doc'[d].root \in 1..d /\ Linked(doc[d], d)'
        /\ \A d \in Docs' : \/ d \in Docs /\ task'[d] = task[d] /\ opened'[d] = opened[d]
                            \/ TaskOK(d)'
        /\ \A v \in Workers :
              /\ job'[v] = job[v]
              /\ job[v].at # "idle" =>
                    /\ task'[job[v].on].state = "active" /\ opened'[job[v].on] = opened[job[v].on]
                    /\ doc'[job[v].on].status = doc[job[v].on].status
        /\ \A e \in Clients : req[e].at = "enqueue" =>
              /\ req[e].on \notin produced' /\ task'[req[e].on].state = "none"
              /\ opened'[req[e].on] = opened[req[e].on]
    BY <1>1, <1>2, <1>3, Inserted DEF CreateManualDoc
  <1>8. Apart'
    BY <1>3, <1>7, ApartKept DEF Base
  <1>9. Base'
    BY <1>3, <1>7, <1>8, BaseNext
  <1>. QED  BY <1>2, <1>7, <1>9

\* What is known of the row and the copy of a request that edits.
LEMMA AtEdit ==
    ASSUME Base, NEW c \in Clients, req[c].at \in {"version", "supersede"}
    PROVE  /\ req[c] \in Request /\ req[c].row \in DocRow /\ req[c].on \in Docs
           /\ doc[req[c].on] \in DocRow
           /\ req[c].row.root = doc[req[c].on].root /\ req[c].row.scope = doc[req[c].on].scope
           /\ Linked(req[c].row, req[c].on) /\ req[c].row.root \in 1..req[c].on
           /\ req[c].row.root \in Docs /\ doc[req[c].on].root \in Docs
  <1>1. CopyOf(req[c].row, req[c].on) /\ Shapes
    BY DEF Base, ClientOK
  <1>2. req[c] \in Request /\ Docs = 1..Len(doc) /\ Len(doc) \in Nat /\ req[c].on \in Docs
        /\ doc[req[c].on] \in DocRow
    BY <1>1, Tables DEF CopyOf
  <1>3. doc[req[c].on].root \in 1..req[c].on
    BY <1>2 DEF Base, RowsOK
  <1>. QED  BY <1>1, <1>2, <1>3 DEF CopyOf

LEMMA CreateVersionDoes ==
    ASSUME Base, NEW c \in Clients, CreateVersion(c)
    PROVE  /\ req[c].at = "version" /\ req[c].on \in Docs /\ doc[req[c].on].root \in Docs
           /\ req'[c].at = "supersede" /\ req'[c].on = req[c].on
           /\ req'[c].row.tokens = req[c].row.tokens /\ req'[c].row.status = req[c].row.status
           /\ \A e \in Clients : e # c => req'[e] = req[e]
           /\ Docs' = 1..Len(doc) + 1 /\ Keeps
           /\ doc'[Len(doc) + 1].root = doc[req[c].on].root /\ doc'[Len(doc) + 1].tokens = 0
           /\ doc'[Len(doc) + 1].status = "completed" 
           /\ task'[Len(doc) + 1].state = "none" /\ opened'[Len(doc) + 1] = 0
           /\ \A d \in Docs : doc'[d] = doc[d] /\ task'[d] = task[d] /\ opened'[d] = opened[d]
           /\ "forked" \notin excuse'[doc[req[c].on].root] =>
                 /\ doc[req[c].on].superseded = 0
                 /\ \A e \in Clients : ~(req[e].at = "supersede" /\ req[e].on = req[c].on)
           /\ Base'
  <1>0. /\ Shapes /\ Len(doc) \in Nat /\ Docs = 1..Len(doc) /\ req[c].at = "version"
        /\ excuse \in Seq(SUBSET Excuses) /\ Len(excuse) = Len(doc)
    BY Tables DEF Base, CreateVersion, Shapes
  <1>1. PICK d \in Docs, prev \in DocRow, root \in Docs, n \in Nat :
           d = req[c].on /\ prev = req[c].row /\ root = prev.root /\ n = Len(doc) + 1
    BY <1>0, AtEdit
  <1>2. root = doc[d].root /\ root \in 1..d /\ prev.scope = doc[d].scope /\ prev.scope \in Scopes
        /\ root \in Nat /\ req[c] \in Request
    BY <1>0, <1>1, AtEdit, RowParts
  <1>3. PICK row : row = NewRow(prev.scope, "completed", TRUE, root)
    OBVIOUS
  <1>4. /\ row \in DocRow /\ row.root = root /\ row.superseded = 0 /\ row.tokens = 0
        /\ row.status = "completed"
    BY <1>2, <1>3, ChargesAre DEF NewRow, DocRow, Statuses
  <1>5. CreateDocGeneration(row)
    BY <1>1, <1>3 DEF CreateVersion
  <1>6. /\ doc' \in Seq(DocRow) /\ task' \in Seq(Tasks) /\ opened' \in Seq(Nat)
        /\ Len(doc') = n /\ Len(task') = n /\ Len(opened') = n
        /\ Docs' = 1..n /\ doc'[n] = row
        /\ task'[n].state = "none" /\ opened'[n] = 0
        /\ \A e \in Docs : doc'[e] = doc[e] /\ task'[e] = task[e] /\ opened'[e] = opened[e]
    BY <1>0, <1>1, <1>4, <1>5, Created
  <1>7. PICK hide \in DocRow : hide = [prev EXCEPT !.superseded = n]
    BY RowHidden
  <1>8. /\ hide.scope = prev.scope /\ hide.root = root /\ hide.superseded = n
        /\ hide.status = prev.status /\ hide.tokens = prev.tokens
    BY <1>1, <1>7, RowHidden
  <1>9. PICK r \in Request : r = [req[c] EXCEPT !.at = "supersede", !.row = hide]
    BY <1>2 DEF Request, ClientPlaces
  <1>10. r.at = "supersede" /\ r.on = d /\ r.row = hide
    BY <1>1, <1>2, <1>9 DEF Request
  <1>11. req' = [req EXCEPT ![c] = r]
    <2>1. req' = [req EXCEPT ![c].at = "supersede", ![c].row.superseded = n]
      BY <1>1 DEF CreateVersion
    <2>2. req \in [Clients -> Request]
      BY <1>0 DEF Shapes
    <2>3. req' = [req EXCEPT ![c] = [req[c] EXCEPT !.at = "supersede", !.row = [req[c].row EXCEPT !.superseded = n]]]
      BY <1>2, <2>1, <2>2 DEF Request
    <2>. QED  BY <1>1, <1>7, <1>9, <2>3
  <1>12. /\ req' \in [Clients -> Request] /\ req'[c] = r
         /\ \A e \in Clients : e # c => req'[e] = req[e]
    BY <1>0, <1>11, Placed
  <1>13. PICK forks \in SUBSET Excuses :
            /\ excuse' = Append([excuse EXCEPT ![root] = excuse[root] \union forks], {})
            /\ "forked" \notin forks =>
                  /\ doc[d].superseded = 0
                  /\ \A e \in Clients : ~(req[e].at = "supersede" /\ req[e].on = d)
    <2>1. excuse' = Append([excuse EXCEPT ![root] =
                IF \/ doc[d].superseded # 0
                   \/ \E e \in Clients : req[e].at = "supersede" /\ req[e].on = d
                THEN excuse[root] \union {"forked"} ELSE excuse[root]], {})
      BY <1>1 DEF CreateVersion
    <2>2. CASE \/ doc[d].superseded # 0
               \/ \E e \in Clients : req[e].at = "supersede" /\ req[e].on = d
      <3>1. {"forked"} \in SUBSET Excuses
        BY DEF Excuses
      <3>2. excuse' = Append([excuse EXCEPT ![root] = excuse[root] \union {"forked"}], {})
        BY <2>1, <2>2
      <3>. QED  BY <3>1, <3>2
    <2>3. CASE ~(\/ doc[d].superseded # 0
                 \/ \E e \in Clients : req[e].at = "supersede" /\ req[e].on = d)
      <3>1. {} \in SUBSET Excuses /\ excuse[root] \union {} = excuse[root]
        OBVIOUS
      <3>2. excuse' = Append([excuse EXCEPT ![root] = excuse[root] \union {}], {})
        BY <2>1, <2>3, <3>1
      <3>. QED  BY <2>3, <3>1, <3>2
    <2>. QED  BY <2>2, <2>3
  <1>14. /\ excuse' \in Seq(SUBSET Excuses) /\ Len(excuse') = n
         /\ \A e \in Docs : excuse[e] \subseteq excuse'[e]
         /\ forks \subseteq excuse'[root]
    <2>1. PICK y : y = [excuse EXCEPT ![root] = excuse[root] \union forks]
      OBVIOUS
    <2>2. excuse[root] \union forks \in SUBSET Excuses
      BY <1>0, Tables
    <2>3. /\ y \in Seq(SUBSET Excuses) /\ Len(y) = Len(excuse)
          /\ \A e \in 1..Len(excuse) : y[e] = IF e = root THEN excuse[root] \union forks ELSE excuse[e]
      BY <1>0, <2>1, <2>2, ExceptSeq
    <2>4. excuse' = Append(y, {}) /\ {} \in SUBSET Excuses
      BY <1>13, <2>1
    <2>5. /\ excuse' \in Seq(SUBSET Excuses) /\ Len(excuse') = Len(y) + 1
          /\ \A e \in 1..Len(y) : excuse'[e] = y[e]
      BY <2>3, <2>4, AppendProperties
    <2>. QED  BY <1>0, <1>1, <2>3, <2>5
  <1>15. Keeps
    BY <1>0, <1>1, <1>6, <1>14 DEF Keeps
  <1>16. job' = job /\ produced' = produced /\ spent' = spent
    BY DEF CreateVersion
  <1>17. Shapes'
    BY <1>0, <1>1, <1>6, <1>12, <1>14, <1>16 DEF Shapes
  <1>18. Linked(row, n)'
    BY <1>4 DEF Linked
  <1>19. \A e \in Docs' : \/ e \in Docs /\ doc'[e] = doc[e]
                          \/ doc'[e].root \in 1..e /\ Linked(doc[e], e)'
    BY <1>0, <1>1, <1>2, <1>4, <1>6, <1>18
  <1>20. \A e \in Docs' : \/ e \in Docs /\ task'[e] = task[e] /\ opened'[e] = opened[e]
                          \/ TaskOK(e)'
    BY <1>0, <1>1, <1>6 DEF TaskOK
  <1>21. \A v \in Workers : job[v].at # "idle" => job[v].on \in Docs /\ task[job[v].on].state = "active"
    BY AtWork
  <1>22. \A e \in Clients : req[e].at = "enqueue" =>
            req[e].on \in Docs /\ req[e].on \notin produced /\ task[req[e].on].state = "none"
    BY DEF Base, ClientOK
  <1>23. ClientOK(req[c])'
    <2>1. Linked(hide, d)'
      BY <1>0, <1>1, <1>2, <1>4, <1>6, <1>8 DEF Linked
    <2>2. CopyOf(hide, d)'
      BY <1>0, <1>1, <1>2, <1>6, <1>7, <1>8, <2>1 DEF CopyOf
    <2>3. hide.superseded # 0
      BY <1>0, <1>1, <1>8
    <2>. QED  BY <1>10, <1>12, <2>2, <2>3 DEF ClientOK
  <1>24. Apart'
    BY <1>10, <1>12, <1>16, ApartKept DEF Base
  <1>25. Base'
    BY <1>6, <1>12, <1>15, <1>16, <1>17, <1>19, <1>20, <1>21, <1>22, <1>23, <1>24, BaseNext
  <1>26. "forked" \notin excuse'[root] => "forked" \notin forks
    BY <1>14
  <1>. QED  BY <1>0, <1>1, <1>2, <1>4, <1>6, <1>8, <1>10, <1>12, <1>13, <1>15, <1>25, <1>26, ZenonT(60)

LEMMA MarkSupersededDoes ==
    ASSUME Base, NEW c \in Clients, MarkSuperseded(c)
    PROVE  /\ req[c].at = "supersede" /\ req[c].on \in Docs /\ doc[req[c].on].root \in Docs
           /\ req'[c].at = "idle" /\ \A e \in Clients : e # c => req'[e] = req[e]
           /\ Docs' = Docs /\ Keeps
           /\ \A e \in Docs : e # req[c].on => doc'[e] = doc[e]
           /\ \/ /\ doc'[req[c].on] = req[c].row /\ doc'[req[c].on].superseded # 0
                 /\ doc[req[c].on].tokens > req[c].row.tokens => overspent' # {}
                 /\ "stale" \notin excuse'[req[c].on] =>
                       /\ doc'[req[c].on].status = doc[req[c].on].status
                       /\ doc'[req[c].on].content = doc[req[c].on].content
              \/ doc' = doc /\ "forked" \in excuse'[doc[req[c].on].root]
           /\ Base'
  <1>0. Shapes /\ Len(doc) \in Nat /\ Docs = 1..Len(doc) /\ req[c].at = "supersede"
    BY Tables DEF Base, MarkSuperseded
  <1>1. PICK d \in Docs, row \in DocRow, root \in Docs :
           d = req[c].on /\ row = req[c].row /\ root = row.root
    BY <1>0, AtEdit
  <1>2. /\ root = doc[d].root /\ root \in 1..d /\ row.scope = doc[d].scope /\ Linked(row, d)
        /\ doc[d] \in DocRow
    BY <1>0, <1>1, AtEdit
  <1>3. row.superseded # 0
    BY <1>0, <1>1 DEF Base, ClientOK
  <1>4. /\ req' \in [Clients -> Request] /\ req'[c] = Idle
        /\ \A e \in Clients : e # c => req'[e] = req[e]
    BY <1>0, Ended DEF MarkSuperseded
  <1>5. task' = task /\ opened' = opened /\ spent' = spent /\ job' = job /\ produced' = produced
    BY DEF MarkSuperseded
  <1>6. /\ doc' \in Seq(DocRow) /\ Len(doc') = Len(doc) /\ Docs' = Docs
        /\ excuse' \in Seq(SUBSET Excuses) /\ Len(excuse') = Len(doc)
        /\ \A e \in Docs : excuse[e] \subseteq excuse'[e]
        /\ \A e \in Docs : e # d => doc'[e] = doc[e]
        /\ \/ /\ doc'[d] = row
              /\ doc[d].tokens > row.tokens => overspent' # {}
              /\ "stale" \notin excuse'[d] =>
                    row.status = doc[d].status /\ row.content = doc[d].content
           \/ doc' = doc /\ "forked" \in excuse'[root]
    <2>1. CASE /\ UpdateDocGeneration(d, row)
               /\ IF [doc[d] EXCEPT !.superseded = row.superseded] # row
                  THEN Note(d, "stale") ELSE excuse' = excuse
               /\ overspent' = IF doc[d].tokens > row.tokens THEN overspent \union {"unrecorded"}
                               ELSE overspent
      <3>1. /\ doc' \in Seq(DocRow) /\ Len(doc') = Len(doc) /\ Docs' = Docs
            /\ \A e \in Docs : doc'[e] = IF e = d THEN row ELSE doc[e]
        BY <1>0, <2>1, Written
      <3>2. /\ excuse' \in Seq(SUBSET Excuses) /\ Len(excuse') = Len(doc)
            /\ \A e \in Docs : excuse[e] \subseteq excuse'[e]
            /\ "stale" \notin excuse'[d] => [doc[d] EXCEPT !.superseded = row.superseded] = row
        <4>1. CASE [doc[d] EXCEPT !.superseded = row.superseded] = row
          BY <1>0, <2>1, <4>1 DEF Shapes
        <4>2. CASE [doc[d] EXCEPT !.superseded = row.superseded] # row
          <5>1. PICK set : set = {"stale"}
            OBVIOUS
          <5>2. set \in SUBSET Excuses /\ excuse' = [excuse EXCEPT ![d] = @ \union set]
            BY <2>1, <4>2, <5>1 DEF Note, Excuses
          <5>3. /\ excuse' \in Seq(SUBSET Excuses) /\ Len(excuse') = Len(doc)
                /\ \A e \in Docs : excuse'[e] = IF e = d THEN excuse[e] \union set ELSE excuse[e]
            BY <1>0, <5>2, Noted
          <5>. QED  BY <5>1, <5>3
        <4>. QED  BY <4>1, <4>2
      <3>3. [doc[d] EXCEPT !.superseded = row.superseded] = row =>
               row.status = doc[d].status /\ row.content = doc[d].content
        <4>1. PICK x \in DocRow, n \in Nat : x = doc[d] /\ n = row.superseded
          BY <1>2, RowParts
        <4>2. PICK new : new = [x EXCEPT !.superseded = n]
          OBVIOUS
        <4>3. new.status = x.status /\ new.content = x.content
          BY <4>2, RowHidden
        <4>. QED  BY <4>1, <4>2, <4>3
      <3>4. doc[d].tokens > row.tokens => overspent' # {}
        BY <2>1
      <3>. QED  BY <3>1, <3>2, <3>3, <3>4
    <2>2. CASE Note(root, "forked") /\ doc' = doc
      <3>1. PICK set : set = {"forked"}
        OBVIOUS
      <3>2. set \in SUBSET Excuses /\ excuse' = [excuse EXCEPT ![root] = @ \union set]
        BY <2>2, <3>1 DEF Note, Excuses
      <3>3. /\ excuse' \in Seq(SUBSET Excuses) /\ Len(excuse') = Len(doc)
            /\ \A e \in Docs : excuse'[e] = IF e = root THEN excuse[e] \union set ELSE excuse[e]
        BY <1>0, <3>2, Noted
      <3>. QED  BY <1>0, <2>2, <3>1, <3>3 DEF Shapes, Docs
    <2>3. \/ /\ UpdateDocGeneration(d, row)
             /\ IF [doc[d] EXCEPT !.superseded = row.superseded] # row
                THEN Note(d, "stale") ELSE excuse' = excuse
             /\ overspent' = IF doc[d].tokens > row.tokens THEN overspent \union {"unrecorded"}
                             ELSE overspent
          \/ Note(root, "forked") /\ doc' = doc
      BY <1>1 DEF MarkSuperseded
    <2>. QED  BY <2>1, <2>2, <2>3
  <1>7. Keeps
    <2>1. doc'[d] = row \/ doc' = doc
      BY <1>6
    <2>2. \A e \in Docs : doc'[e].root = doc[e].root /\ doc'[e].scope = doc[e].scope
      BY <1>1, <1>2, <1>6, <2>1
    <2>3. Docs \subseteq Docs' /\ Len(doc) <= Len(doc')
      BY <1>0, <1>6
    <2>. QED  BY <1>6, <2>2, <2>3 DEF Keeps
  <1>8. Shapes'
    BY <1>0, <1>4, <1>5, <1>6 DEF Shapes
  <1>9. Linked(row, d)'
    <2>1. row.superseded \in Nat /\ Len(doc') \in Nat /\ Docs' = 1..Len(doc')
      BY <1>0, <1>6, RowParts
    <2>. QED  BY <1>0, <1>2, <1>7, <2>1, LinkKept
  <1>10. \A e \in Docs' : \/ e \in Docs /\ doc'[e] = doc[e]
                          \/ doc'[e].root \in 1..e /\ Linked(doc[e], e)'
    BY <1>1, <1>2, <1>6, <1>9
  <1>11. ClientOK(req[c])'
    BY <1>4, IdleIs DEF ClientOK
  <1>12. \A e \in Clients : req[e].at = "enqueue" =>
            req[e].on \notin produced /\ task[req[e].on].state = "none"
    BY DEF Base, ClientOK
  <1>13. \A v \in Workers : job[v].at # "idle" =>
            /\ task[job[v].on].state = "active"
            /\ \/ doc'[job[v].on].status = doc[job[v].on].status
               \/ doc[job[v].on].status = "completed" => "stale" \in excuse'[job[v].on]
    <2>1. \A e \in Docs : \/ doc'[e].status = doc[e].status
                          \/ "stale" \in excuse'[e]
      BY <1>1, <1>6
    <2>2. \A v \in Workers : job[v].at # "idle" => job[v].on \in Docs /\ task[job[v].on].state = "active"
      BY AtWork
    <2>. QED  BY <2>1, <2>2
  <1>14. Apart'
    BY <1>4, <1>5, IdleIs, ApartKept DEF Base
  <1>15. Base'
    BY <1>4, <1>5, <1>6, <1>7, <1>8, <1>10, <1>11, <1>12, <1>13, <1>14, BaseNext
  <1>. QED  BY <1>0, <1>1, <1>2, <1>3, <1>4, <1>6, <1>7, <1>15, IdleIs

-----------------------------------------------------------------------------
(* What each worker's step does, and that the tables stay right *)

\* A copy that says of its row what the worker's copy says.
SameDoc(w, row) ==
    /\ row \in DocRow /\ row.root = job[w].row.root /\ row.scope = job[w].row.scope
    /\ row.superseded = job[w].row.superseded

\* The rows stay, or the worker saves its own.
Saves(w) == \/ doc' = doc /\ excuse' = excuse
            \/ \E row \in DocRow : SameDoc(w, row) /\ SaveRow(w, row)

LEMMA SavesDoes ==
    ASSUME Base, NEW w \in Workers, job[w].at # "idle", Saves(w)
    PROVE  /\ doc' \in Seq(DocRow) /\ Len(doc') = Len(doc) /\ Docs' = Docs /\ Keeps
           /\ excuse' \in Seq(SUBSET Excuses) /\ Len(excuse') = Len(doc)
           /\ \A e \in Docs : e # job[w].on => doc'[e] = doc[e]
           /\ \A e \in Docs : \/ doc'[e] = doc[e]
                              \/ doc'[e].root \in 1..e /\ Linked(doc[e], e)'
           /\ doc'[job[w].on] # doc[job[w].on] /\ doc[job[w].on].status = "completed"
                 => "stale" \in excuse'[job[w].on]
           /\ doc'[job[w].on].superseded # doc[job[w].on].superseded
                 => "forked" \in excuse'[doc[job[w].on].root]
  <1>1. CASE doc' = doc /\ excuse' = excuse
    <2>1. Keeps /\ Docs' = Docs /\ Len(doc') = Len(doc)
      BY <1>1, RowsStay
    <2>2. job[w].on \in Docs
      BY AtWork
    <2>. QED  BY <1>1, <2>1, <2>2 DEF Base, Shapes
  <1>2. CASE \E row \in DocRow : SameDoc(w, row) /\ SaveRow(w, row)
    <2>1. PICK row \in DocRow : SameDoc(w, row) /\ SaveRow(w, row)
      BY <1>2
    <2>2. /\ doc' \in Seq(DocRow) /\ Len(doc') = Len(doc) /\ Docs' = Docs /\ Keeps
          /\ excuse' \in Seq(SUBSET Excuses) /\ Len(excuse') = Len(doc)
          /\ doc'[job[w].on] = row
          /\ \A e \in Docs : e # job[w].on => doc'[e] = doc[e]
          /\ \A e \in Docs : e = job[w].on => doc'[e].root \in 1..e /\ Linked(doc[e], e)'
          /\ doc[job[w].on].superseded # row.superseded =>
                /\ "forked" \in excuse'[doc[job[w].on].root] /\ "stale" \in excuse'[job[w].on]
          /\ doc[job[w].on].status = "completed" => "stale" \in excuse'[job[w].on]
      BY <2>1, Saved DEF SameDoc
    <2>. QED  BY <2>2
  <1>. QED  BY <1>1, <1>2 DEF Saves

\* A worker goes on with its row.
LEMMA WorkerMoves ==
    ASSUME Base, NEW w \in Workers, job[w].at # "idle",
           NEW step \in WorkerPlaces \ {"idle"}, NEW row \in DocRow, SameDoc(w, row),
           Move(w, step, row), Saves(w), task' = task, req' = req, spent' \in Nat,
           produced' \subseteq produced \union {job[w].on},
           opened' \in Seq(Nat), Len(opened') = Len(doc),
           \A e \in Docs : e # job[w].on => opened'[e] = opened[e],
           step \in {"start", "generate", "publish"} /\ "again" \notin excuse'[job[w].on]
              => opened'[job[w].on] = 0,
           step \in {"publish", "progress", "complete"} => row.content,
           step = "progress" => row.scope = "org",
           step = "complete" /\ row.scope = "repo" => opened'[job[w].on] >= 1,
           step = "ack" => doc'[job[w].on].status = "completed" \/ "stale" \in excuse'[job[w].on]
    PROVE  /\ job'[w].at = step /\ job'[w].on = job[w].on /\ job'[w].row = row
           /\ \A v \in Workers : v # w => job'[v] = job[v]
           /\ Keeps /\ Docs' = Docs
           /\ Base'
  <1>0. Shapes /\ Len(doc) \in Nat /\ Docs = 1..Len(doc)
    BY Tables DEF Base
  <1>1. PICK d \in Docs : d = job[w].on
    BY AtWork
  <1>2. /\ job' \in [Workers -> Work]
        /\ job'[w].at = step /\ job'[w].on = d /\ job'[w].row = row
        /\ \A v \in Workers : v # w => job'[v] = job[v]
    <2>1. step \in WorkerPlaces /\ row \in DocRow \union {<<>>}
      OBVIOUS
    <2>. QED  BY <1>0, <1>1, <2>1, Moved
  <1>3. /\ doc' \in Seq(DocRow) /\ Len(doc') = Len(doc) /\ Docs' = Docs /\ Keeps
        /\ excuse' \in Seq(SUBSET Excuses) /\ Len(excuse') = Len(doc)
        /\ \A e \in Docs : e # d => doc'[e] = doc[e]
        /\ \A e \in Docs : \/ doc'[e] = doc[e]
                           \/ doc'[e].root \in 1..e /\ Linked(doc[e], e)'
    BY <1>1, SavesDoes
  <1>4. Shapes'
    BY <1>0, <1>1, <1>2, <1>3 DEF Shapes
  <1>5. CopyOf(row, d)'
    <2>1. Linked(row, d) /\ row.root = doc[d].root /\ row.scope = doc[d].scope
      BY <1>1, AtWork DEF SameDoc, Linked
    <2>2. CopyOf(row, d)
      BY <2>1 DEF CopyOf
    <2>3. Len(doc') \in Nat /\ Docs' = 1..Len(doc')
      BY <1>0, <1>3
    <2>. QED  BY <1>0, <1>3, <2>2, <2>3, CopyKept
  <1>6. WorkerOK(job[w])'
    <2>1. task'[d].state = "active"
      BY <1>1, AtWork
    <2>. QED  BY <1>1, <1>2, <1>5, <2>1 DEF WorkerOK
  <1>7. \A v \in Workers : v # w /\ job[v].at # "idle" =>
           /\ task'[job[v].on].state = "active" /\ opened'[job[v].on] = opened[job[v].on]
           /\ doc'[job[v].on].status = doc[job[v].on].status
    <2>1. \A v \in Workers : v # w /\ job[v].at # "idle" =>
             job[v].on \in Docs /\ job[v].on # d /\ task[job[v].on].state = "active"
      BY <1>1, AtWork
    <2>. QED  BY <1>1, <1>3, <2>1
  <1>8. \A e \in Clients : req[e].at = "enqueue" =>
           /\ req[e].on \notin produced' /\ task'[req[e].on].state = "none"
           /\ opened'[req[e].on] = opened[req[e].on]
    <2>1. \A e \in Clients : req[e].at = "enqueue" =>
             /\ req[e].on \in Docs /\ req[e].on # d /\ req[e].on \notin produced
             /\ task[req[e].on].state = "none"
      BY <1>1, AtWork DEF Base, ClientOK
    <2>. QED  BY <1>1, <2>1
  <1>9. \A e \in Docs' : \/ e \in Docs /\ task'[e] = task[e] /\ opened'[e] = opened[e]
                         \/ TaskOK(e)'
    <2>1. task'[d].state # "waiting"
      BY <1>1, AtWork
    <2>2. TaskOK(d)'
      BY <2>1 DEF TaskOK
    <2>. QED  BY <1>1, <1>3, <2>2
  <1>10. Apart'
    BY <1>1, <1>2, ApartKept DEF Base
  <1>11. Base'
    BY <1>2, <1>3, <1>4, <1>6, <1>7, <1>8, <1>9, <1>10, BaseNext
  <1>. QED  BY <1>1, <1>2, <1>3, <1>11

\* What the steps of a worker that keeps its task have in common.
WorkerGoes(w) ==
    /\ job[w].at # "idle" /\ job'[w].on = job[w].on
    /\ \A v \in Workers : v # w => job'[v] = job[v]
    /\ Keeps /\ Docs' = Docs /\ Saves(w) /\ task' = task /\ req' = req
    /\ Base'

LEMMA MarkInProgressDoes ==
    ASSUME Base, NEW w \in Workers, MarkInProgress(w)
    PROVE  /\ WorkerGoes(w)
           /\ job[w].at = "start" /\ job'[w].at \in {"generate", "error", "fail"}
           /\ job'[w].row.tokens = job[w].row.tokens
           /\ doc'[job[w].on] = doc[job[w].on] \/ doc'[job[w].on].tokens = job[w].row.tokens
  <1>0. /\ Shapes /\ job[w].at = "start" /\ job[w].at # "idle"
        /\ task' = task /\ req' = req /\ spent' = spent /\ opened' = opened /\ produced' = produced
    BY DEF Base, MarkInProgress, At
  <1>1. PICK old \in DocRow : old = job[w].row
    BY <1>0, AtWork
  <1>2. PICK row : row = [old EXCEPT !.status = "in_progress"]
    OBVIOUS
  <1>3. /\ row \in DocRow /\ row.scope = old.scope /\ row.root = old.root
        /\ row.superseded = old.superseded /\ row.tokens = old.tokens
    BY <1>2 DEF DocRow, Statuses
  <1>4. SameDoc(w, row) /\ SameDoc(w, old)
    BY <1>1, <1>3 DEF SameDoc
  <1>5. "again" \notin excuse[job[w].on] => opened[job[w].on] = 0
    BY <1>0 DEF Base, WorkerOK
  <1>6. opened \in Seq(Nat) /\ Len(opened) = Len(doc) /\ spent \in Nat
    BY <1>0 DEF Shapes
  <1>7. \/ SaveRow(w, row) /\ Move(w, "generate", row)
        \/ /\ Move(w, IF row.scope = "org" THEN "generate" ELSE "error", row)
           /\ doc' = doc /\ excuse' = excuse
        \/ Move(w, "fail", old) /\ doc' = doc /\ excuse' = excuse
    BY <1>1, <1>2 DEF MarkInProgress
  <1>8. PICK step \in {"generate", "error", "fail"}, cur \in {row, old} :
           /\ Move(w, step, cur)
           /\ \/ doc' = doc /\ excuse' = excuse
              \/ SaveRow(w, row)
    BY <1>7
  <1>9. Saves(w) /\ SameDoc(w, cur) /\ cur \in DocRow /\ cur.tokens = old.tokens
    BY <1>3, <1>4, <1>8 DEF Saves
  <1>10. Keeps /\ job[w].on \in Docs
    BY <1>0, <1>9, SavesDoes, AtWork
  <1>11. "again" \notin excuse'[job[w].on] => opened'[job[w].on] = 0
    BY <1>0, <1>5, <1>10 DEF Keeps
  <1>12. step \in WorkerPlaces \ {"idle"} /\ step \notin {"publish", "progress", "complete", "ack"}
    BY <1>8 DEF WorkerPlaces
  <1>13. /\ job'[w].at = step /\ job'[w].on = job[w].on /\ job'[w].row = cur
         /\ \A v \in Workers : v # w => job'[v] = job[v]
         /\ Keeps /\ Docs' = Docs
         /\ Base'
    BY <1>0, <1>6, <1>8, <1>9, <1>11, <1>12, WorkerMoves
  <1>14. doc'[job[w].on] = doc[job[w].on] \/ doc'[job[w].on].tokens = old.tokens
    <2>1. CASE doc' = doc
      BY <2>1
    <2>2. CASE SaveRow(w, row)
      <3>1. doc'[job[w].on] = row
        BY <1>0, <1>4, <2>2, Saved DEF SameDoc
      <3>. QED  BY <1>3, <3>1
    <2>. QED  BY <1>8, <2>1, <2>2
  <1>. QED  BY <1>0, <1>1, <1>8, <1>9, <1>13, <1>14 DEF WorkerGoes

LEMMA GenerateDocumentationDoes ==
    ASSUME Base, NEW w \in Workers, GenerateDocumentation(w)
    PROVE  /\ WorkerGoes(w) /\ job[w].at = "generate"
           /\ doc' = doc /\ excuse' = excuse /\ opened' = opened
           /\ \/ \E cost \in Costs :
                    /\ spent' = spent + cost /\ job'[w].at \in {"progress", "publish"}
                    /\ job'[w].row.tokens = cost
              \/ /\ job'[w].at = "fail" /\ job'[w].row = job[w].row
                 /\ spent' = spent \/ overspent' # {}
  <1>0. /\ Shapes /\ job[w].at = "generate" /\ job[w].at # "idle"
        /\ doc' = doc /\ excuse' = excuse /\ task' = task /\ req' = req
        /\ opened' = opened /\ produced' = produced
    BY DEF Base, GenerateDocumentation, At
  <1>1. PICK old \in DocRow : old = job[w].row
    BY <1>0, AtWork
  <1>2. "again" \notin excuse[job[w].on] => opened[job[w].on] = 0
    BY <1>0 DEF Base, WorkerOK
  <1>3. opened \in Seq(Nat) /\ Len(opened) = Len(doc) /\ spent \in Nat
        /\ \A cost \in Costs : spent + cost \in Nat
    BY <1>0, ChargesAre DEF Shapes
  <1>4. SameDoc(w, old) /\ Saves(w)
    BY <1>0, <1>1 DEF SameDoc, Saves
  <1>5. ASSUME NEW cost \in Costs, spent' = spent + cost,
               Move(w, IF old.scope = "org" THEN "progress" ELSE "publish",
                    [old EXCEPT !.content = TRUE, !.tokens = cost])
        PROVE  /\ WorkerGoes(w) /\ job'[w].at \in {"progress", "publish"}
               /\ job'[w].row.tokens = cost
    <2>1. PICK row : row = [old EXCEPT !.content = TRUE, !.tokens = cost]
      OBVIOUS
    <2>2. /\ row \in DocRow /\ row.scope = old.scope /\ row.root = old.root
          /\ row.superseded = old.superseded /\ row.tokens = cost /\ row.content
      <3>1. /\ row.scope = old.scope /\ row.root = old.root /\ row.superseded = old.superseded
            /\ row.tokens = cost
        BY <2>1 DEF DocRow
      <3>2. row.content = TRUE
        BY <2>1 DEF DocRow
      <3>3. row \in DocRow
        <4>1. PICK co \in BOOLEAN, tk \in Charges : co = TRUE /\ tk = cost
          BY ChargesAre
        <4>2. row = [old EXCEPT !.content = co, !.tokens = tk]
          BY <2>1, <4>1
        <4>. QED  BY <4>2 DEF DocRow
      <3>. QED  BY <3>1, <3>2, <3>3
    <2>3. SameDoc(w, row)
      BY <1>1, <2>2 DEF SameDoc
    <2>4. PICK step \in {"progress", "publish"} :
             Move(w, step, row) /\ (step = "progress" => row.scope = "org")
      BY <1>5, <2>1, <2>2
    <2>5. step \in WorkerPlaces \ {"idle"} /\ step \notin {"complete", "ack"}
      BY <2>4 DEF WorkerPlaces
    <2>6. /\ job'[w].at = step /\ job'[w].on = job[w].on /\ job'[w].row = row
          /\ \A v \in Workers : v # w => job'[v] = job[v]
          /\ Keeps /\ Docs' = Docs
          /\ Base'
      BY <1>0, <1>2, <1>3, <1>4, <1>5, <2>2, <2>3, <2>4, <2>5, WorkerMoves
    <2>. QED  BY <1>0, <1>4, <2>2, <2>4, <2>6 DEF WorkerGoes
  <1>6. ASSUME Move(w, "fail", old), spent' \in Nat
        PROVE  WorkerGoes(w) /\ job'[w].at = "fail" /\ job'[w].row = job[w].row
    <2>1. "fail" \in WorkerPlaces \ {"idle"}
      BY DEF WorkerPlaces
    <2>2. /\ job'[w].at = "fail" /\ job'[w].on = job[w].on /\ job'[w].row = old
          /\ \A v \in Workers : v # w => job'[v] = job[v]
          /\ Keeps /\ Docs' = Docs
          /\ Base'
      BY <1>0, <1>3, <1>4, <1>6, <2>1, WorkerMoves
    <2>. QED  BY <1>0, <1>1, <1>4, <2>2 DEF WorkerGoes
  <1>7. CASE \E cost \in Costs :
                /\ spent' = spent + cost
                /\ Move(w, IF old.scope = "org" THEN "progress" ELSE "publish",
                        [old EXCEPT !.content = TRUE, !.tokens = cost])
    BY <1>0, <1>5, <1>7
  <1>8. CASE /\ Move(w, "fail", old)
             /\ \/ spent' = spent
                \/ \E cost \in Costs : spent' = spent + cost /\ overspent' = overspent \union {"unrecorded"}
    <2>1. spent' \in Nat /\ (spent' = spent \/ overspent' # {})
      BY <1>3, <1>8
    <2>. QED  BY <1>0, <1>6, <1>8, <2>1
  <1>9. \/ \E cost \in Costs :
              /\ spent' = spent + cost
              /\ Move(w, IF old.scope = "org" THEN "progress" ELSE "publish",
                      [old EXCEPT !.content = TRUE, !.tokens = cost])
        \/ /\ Move(w, "fail", old)
           /\ \/ spent' = spent
              \/ \E cost \in Costs : spent' = spent + cost /\ overspent' = overspent \union {"unrecorded"}
    BY <1>1 DEF GenerateDocumentation
  <1>. QED  BY <1>7, <1>8, <1>9

LEMMA OpenChangeRequestDoes ==
    ASSUME Base, NEW w \in Workers, OpenChangeRequest(w)
    PROVE  /\ WorkerGoes(w) /\ job[w].at = "publish"
           /\ doc' = doc /\ excuse' = excuse
           /\ \A e \in Docs : e # job[w].on => opened'[e] = opened[e]
           /\ \/ /\ job'[w].at = "complete" /\ job'[w].row = job[w].row
                 /\ opened'[job[w].on] = opened[job[w].on] + 1
              \/ /\ overspent' # {}
                 /\ opened' = opened \/ opened'[job[w].on] = opened[job[w].on] + 1
  <1>0. /\ Shapes /\ job[w].at = "publish" /\ job[w].at # "idle"
        /\ doc' = doc /\ excuse' = excuse /\ task' = task /\ req' = req
        /\ spent' = spent /\ produced' = produced
    BY DEF Base, OpenChangeRequest, At
  <1>1. PICK old \in DocRow, d \in Docs : old = job[w].row /\ d = job[w].on
    BY <1>0, AtWork
  <1>2. SameDoc(w, old) /\ Saves(w)
    BY <1>0, <1>1 DEF SameDoc, Saves
  <1>3. old.content
    BY <1>0, <1>1 DEF Base, WorkerOK
  <1>4. /\ opened \in Seq(Nat) /\ Len(opened) = Len(doc) /\ spent \in Nat
        /\ Len(doc) \in Nat /\ Docs = 1..Len(doc) /\ opened[d] \in Nat
    BY <1>0, Tables DEF Shapes
  <1>5. CASE opened' = [opened EXCEPT ![d] = @ + 1] /\ Move(w, "complete", old)
    <2>1. PICK n \in Nat : n = opened[d] + 1
      BY <1>4
    <2>2. opened' = [opened EXCEPT ![d] = n]
      BY <1>5, <2>1
    <2>3. /\ opened' \in Seq(Nat) /\ Len(opened') = Len(doc)
          /\ \A e \in Docs : opened'[e] = IF e = d THEN n ELSE opened[e]
      BY <1>1, <1>4, <2>1, <2>2, ExceptSeq
    <2>4. PICK step \in WorkerPlaces \ {"idle"} : step = "complete"
      BY DEF WorkerPlaces
    <2>5. step \notin {"start", "generate", "publish", "progress", "ack"} /\ opened'[job[w].on] >= 1
          /\ \A e \in Docs : e # job[w].on => opened'[e] = opened[e]
      BY <1>1, <1>4, <2>1, <2>3, <2>4, SMTT(60)
    <2>6. /\ job'[w].at = step /\ job'[w].on = job[w].on /\ job'[w].row = old
          /\ \A v \in Workers : v # w => job'[v] = job[v]
          /\ Keeps /\ Docs' = Docs
          /\ Base'
      BY <1>0, <1>2, <1>3, <1>4, <1>5, <2>3, <2>4, <2>5, WorkerMoves, SMTT(60)
    <2>. QED  BY <1>0, <1>1, <1>2, <2>1, <2>3, <2>4, <2>6 DEF WorkerGoes
  <1>6. CASE /\ Move(w, "fail", old) /\ opened' \in {opened, [opened EXCEPT ![d] = @ + 1]}
             /\ overspent' = overspent \union {"unrecorded"}
    <2>1. "fail" \in WorkerPlaces \ {"idle"}
      BY DEF WorkerPlaces
    <2>2. /\ opened' \in Seq(Nat) /\ Len(opened') = Len(doc)
          /\ \A e \in Docs : e # d => opened'[e] = opened[e]
          /\ opened' = opened \/ opened'[d] = opened[d] + 1
      <3>1. CASE opened' = opened
        BY <1>4, <3>1
      <3>2. CASE opened' = [opened EXCEPT ![d] = @ + 1]
        <4>1. PICK n \in Nat : n = opened[d] + 1
          BY <1>4
        <4>2. opened' = [opened EXCEPT ![d] = n]
          BY <3>2, <4>1
        <4>3. /\ opened' \in Seq(Nat) /\ Len(opened') = Len(doc)
              /\ \A e \in Docs : opened'[e] = IF e = d THEN n ELSE opened[e]
          BY <1>1, <1>4, <4>1, <4>2, ExceptSeq
        <4>. QED  BY <4>1, <4>3
      <3>. QED  BY <1>6, <3>1, <3>2
    <2>3. /\ job'[w].at = "fail" /\ job'[w].on = job[w].on /\ job'[w].row = old
          /\ \A v \in Workers : v # w => job'[v] = job[v]
          /\ Keeps /\ Docs' = Docs
          /\ Base'
      BY <1>0, <1>1, <1>2, <1>4, <1>6, <2>1, <2>2, WorkerMoves
    <2>4. overspent' # {}
      BY <1>6
    <2>. QED  BY <1>0, <1>1, <1>2, <1>6, <2>2, <2>3, <2>4 DEF WorkerGoes
  <1>7. \/ opened' = [opened EXCEPT ![d] = @ + 1] /\ Move(w, "complete", old)
        \/ /\ Move(w, "fail", old) /\ opened' \in {opened, [opened EXCEPT ![d] = @ + 1]}
           /\ overspent' = overspent \union {"unrecorded"}
    BY <1>1 DEF OpenChangeRequest
  <1>. QED  BY <1>5, <1>6, <1>7

LEMMA UpdateOrgProgressDoes ==
    ASSUME Base, NEW w \in Workers, UpdateOrgProgress(w)
    PROVE  /\ WorkerGoes(w)
           /\ job[w].at = "progress" /\ job'[w].at = "complete" /\ job'[w].row = job[w].row
           /\ doc'[job[w].on] = doc[job[w].on] \/ doc'[job[w].on].tokens = 0
  <1>0. /\ Shapes /\ job[w].at = "progress" /\ job[w].at # "idle"
        /\ task' = task /\ req' = req /\ spent' = spent /\ opened' = opened /\ produced' = produced
    BY DEF Base, UpdateOrgProgress, At
  <1>1. PICK old \in DocRow : old = job[w].row
    BY <1>0, AtWork
  <1>2. PICK row : row = [old EXCEPT !.content = FALSE, !.tokens = 0]
    OBVIOUS
  <1>3. /\ row \in DocRow /\ row.scope = old.scope /\ row.root = old.root
        /\ row.superseded = old.superseded /\ row.tokens = 0
    <2>1. PICK co \in BOOLEAN : co = FALSE
      OBVIOUS
    <2>2. PICK tk \in Charges : tk = 0
      BY ChargesAre
    <2>3. row = [old EXCEPT !.content = co, !.tokens = tk]
      BY <1>2, <2>1, <2>2
    <2>. QED  BY <2>2, <2>3 DEF DocRow
  <1>4. SameDoc(w, row) /\ SameDoc(w, old)
    BY <1>1, <1>3 DEF SameDoc
  <1>5. old.content /\ old.scope = "org"
    BY <1>0, <1>1 DEF Base, WorkerOK
  <1>6. opened \in Seq(Nat) /\ Len(opened) = Len(doc) /\ spent \in Nat
    BY <1>0 DEF Shapes
  <1>7. Move(w, "complete", old) /\ (SaveRow(w, row) \/ (doc' = doc /\ excuse' = excuse))
    BY <1>1, <1>2 DEF UpdateOrgProgress
  <1>8. Saves(w)
    BY <1>3, <1>4, <1>7 DEF Saves
  <1>9. PICK step \in WorkerPlaces \ {"idle"} : step = "complete"
    BY DEF WorkerPlaces
  <1>10. step \notin {"start", "generate", "publish", "progress", "ack"} /\ old.scope # "repo"
    BY <1>5, <1>9
  <1>11. /\ job'[w].at = step /\ job'[w].on = job[w].on /\ job'[w].row = old
         /\ \A v \in Workers : v # w => job'[v] = job[v]
         /\ Keeps /\ Docs' = Docs
         /\ Base'
    BY <1>0, <1>4, <1>5, <1>6, <1>7, <1>8, <1>9, <1>10, WorkerMoves
  <1>12. doc'[job[w].on] = doc[job[w].on] \/ doc'[job[w].on].tokens = 0
    <2>1. CASE doc' = doc
      BY <2>1
    <2>2. CASE SaveRow(w, row)
      <3>1. doc'[job[w].on] = row
        BY <1>0, <1>4, <2>2, Saved DEF SameDoc
      <3>. QED  BY <1>3, <3>1
    <2>. QED  BY <1>7, <2>1, <2>2
  <1>. QED  BY <1>0, <1>1, <1>8, <1>9, <1>11, <1>12 DEF WorkerGoes

LEMMA MarkCompletedDoes ==
    ASSUME Base, NEW w \in Workers, MarkCompleted(w)
    PROVE  /\ WorkerGoes(w)
           /\ job[w].at = "complete" /\ job'[w].row = job[w].row /\ opened' = opened
           /\ \/ /\ job'[w].at = "ack" /\ produced' = produced \union {job[w].on}
                 /\ doc'[job[w].on].status = "completed" /\ doc'[job[w].on].content
                 /\ doc'[job[w].on].tokens = job[w].row.tokens
                 /\ job[w].row.scope = "repo" => opened[job[w].on] >= 1
              \/ produced' = produced /\ overspent' # {}
  <1>0. /\ Shapes /\ job[w].at = "complete" /\ job[w].at # "idle"
        /\ task' = task /\ req' = req /\ spent' = spent /\ opened' = opened
    BY DEF Base, MarkCompleted, At
  <1>1. PICK old \in DocRow : old = job[w].row
    BY <1>0, AtWork
  <1>2. PICK row : row = [old EXCEPT !.status = "completed"]
    OBVIOUS
  <1>3. /\ row \in DocRow /\ row.scope = old.scope /\ row.root = old.root
        /\ row.superseded = old.superseded /\ row.tokens = old.tokens
        /\ row.status = "completed" /\ row.content = old.content
    BY <1>2 DEF DocRow, Statuses
  <1>4. SameDoc(w, row) /\ SameDoc(w, old)
    BY <1>1, <1>3 DEF SameDoc
  <1>5. old.content /\ (old.scope = "repo" => opened[job[w].on] >= 1)
    BY <1>0, <1>1 DEF Base, WorkerOK
  <1>6. opened \in Seq(Nat) /\ Len(opened) = Len(doc) /\ spent \in Nat
    BY <1>0 DEF Shapes
  <1>7. \/ /\ SaveRow(w, row) /\ produced' = produced \union {job[w].on}
           /\ Move(w, "ack", old)
        \/ /\ Move(w, "error", old) /\ overspent' = overspent \union {"unrecorded"}
           /\ doc' = doc /\ excuse' = excuse /\ produced' = produced
    BY <1>1, <1>2 DEF MarkCompleted
  <1>8. CASE /\ SaveRow(w, row) /\ produced' = produced \union {job[w].on}
             /\ Move(w, "ack", old)
    <2>1. Saves(w)
      BY <1>3, <1>4, <1>8 DEF Saves
    <2>2. doc'[job[w].on] = row
      BY <1>0, <1>3, <1>4, <1>8, Saved DEF SameDoc
    <2>3. PICK step \in WorkerPlaces \ {"idle"} : step = "ack"
      BY DEF WorkerPlaces
    <2>4. step \notin {"start", "generate", "publish", "progress", "complete"}
      BY <2>3
    <2>5. /\ job'[w].at = step /\ job'[w].on = job[w].on /\ job'[w].row = old
          /\ \A v \in Workers : v # w => job'[v] = job[v]
          /\ Keeps /\ Docs' = Docs
          /\ Base'
      BY <1>0, <1>3, <1>4, <1>6, <1>8, <2>1, <2>2, <2>3, <2>4, WorkerMoves
    <2>. QED  BY <1>0, <1>1, <1>3, <1>5, <1>8, <2>1, <2>2, <2>3, <2>5 DEF WorkerGoes
  <1>9. CASE /\ Move(w, "error", old) /\ overspent' = overspent \union {"unrecorded"}
             /\ doc' = doc /\ excuse' = excuse /\ produced' = produced
    <2>1. Saves(w) /\ overspent' # {}
      BY <1>9 DEF Saves
    <2>2. PICK step \in WorkerPlaces \ {"idle"} : step = "error"
      BY DEF WorkerPlaces
    <2>3. step \notin {"start", "generate", "publish", "progress", "complete", "ack"}
      BY <2>2
    <2>4. /\ job'[w].at = step /\ job'[w].on = job[w].on /\ job'[w].row = old
          /\ \A v \in Workers : v # w => job'[v] = job[v]
          /\ Keeps /\ Docs' = Docs
          /\ Base'
      BY <1>0, <1>4, <1>6, <1>9, <2>1, <2>2, <2>3, WorkerMoves
    <2>. QED  BY <1>0, <1>1, <1>9, <2>1, <2>4 DEF WorkerGoes
  <1>. QED  BY <1>7, <1>8, <1>9

LEMMA FailDocGenerationDoes ==
    ASSUME Base, NEW w \in Workers, FailDocGeneration(w)
    PROVE  /\ WorkerGoes(w)
           /\ job[w].at = "fail" /\ job'[w].at = "error" /\ job'[w].row = job[w].row
           /\ doc'[job[w].on] = doc[job[w].on] \/ doc'[job[w].on].tokens = 0
  <1>0. /\ Shapes /\ job[w].at = "fail" /\ job[w].at # "idle"
        /\ task' = task /\ req' = req /\ spent' = spent /\ opened' = opened /\ produced' = produced
    BY DEF Base, FailDocGeneration, At
  <1>1. PICK old \in DocRow : old = job[w].row
    BY <1>0, AtWork
  <1>2. PICK row : row = [old EXCEPT !.status = "failed", !.content = FALSE, !.tokens = 0]
    OBVIOUS
  <1>3. /\ row \in DocRow /\ row.scope = old.scope /\ row.root = old.root
        /\ row.superseded = old.superseded /\ row.tokens = 0
    <2>1. PICK co \in BOOLEAN : co = FALSE
      OBVIOUS
    <2>2. PICK tk \in Charges : tk = 0
      BY ChargesAre
    <2>3. PICK st \in Statuses : st = "failed"
      BY DEF Statuses
    <2>4. row = [old EXCEPT !.status = st, !.content = co, !.tokens = tk]
      BY <1>2, <2>1, <2>2, <2>3
    <2>. QED  BY <2>2, <2>4 DEF DocRow
  <1>4. SameDoc(w, row) /\ SameDoc(w, old)
    BY <1>1, <1>3 DEF SameDoc
  <1>6. opened \in Seq(Nat) /\ Len(opened) = Len(doc) /\ spent \in Nat
    BY <1>0 DEF Shapes
  <1>7. Move(w, "error", old) /\ (SaveRow(w, row) \/ (doc' = doc /\ excuse' = excuse))
    BY <1>1, <1>2 DEF FailDocGeneration
  <1>8. Saves(w)
    BY <1>3, <1>4, <1>7 DEF Saves
  <1>9. PICK step \in WorkerPlaces \ {"idle"} : step = "error"
    BY DEF WorkerPlaces
  <1>10. step \notin {"start", "generate", "publish", "progress", "complete", "ack"}
    BY <1>9
  <1>11. /\ job'[w].at = step /\ job'[w].on = job[w].on /\ job'[w].row = old
         /\ \A v \in Workers : v # w => job'[v] = job[v]
         /\ Keeps /\ Docs' = Docs
         /\ Base'
    BY <1>0, <1>4, <1>6, <1>7, <1>8, <1>9, <1>10, WorkerMoves
  <1>12. doc'[job[w].on] = doc[job[w].on] \/ doc'[job[w].on].tokens = 0
    <2>1. CASE doc' = doc
      BY <2>1
    <2>2. CASE SaveRow(w, row)
      <3>1. doc'[job[w].on] = row
        BY <1>0, <1>4, <2>2, Saved DEF SameDoc
      <3>. QED  BY <1>3, <3>1
    <2>. QED  BY <1>7, <2>1, <2>2
  <1>. QED  BY <1>0, <1>1, <1>8, <1>9, <1>11, <1>12 DEF WorkerGoes

LEMMA StartTaskDoes ==
    ASSUME Base, NEW w \in Workers, NEW d \in Docs, StartTask(w, d)
    PROVE  /\ job[w].at = "idle" /\ task[d].state = "waiting" /\ task'[d].state = "active"
           /\ \A e \in Docs : e # d => task'[e] = task[e]
           /\ job'[w].at = "start" /\ job'[w].on = d /\ job'[w].row = doc[d]
           /\ \A v \in Workers : v # w => job'[v] = job[v]
           /\ Keeps /\ Docs' = Docs
           /\ Base'
  <1>0. /\ Shapes /\ job[w].at = "idle" /\ task[d].state = "waiting"
        /\ doc' = doc /\ excuse' = excuse /\ opened' = opened /\ spent' = spent /\ req' = req
        /\ produced' = produced
        /\ d \in Nat /\ doc[d] \in DocRow
    BY Tables DEF Base, StartTask, At, history
  <1>1. Keeps /\ Docs' = Docs /\ Len(doc') = Len(doc)
    BY <1>0, RowsStay
  <1>2. "active" \in TaskStates /\ task' = [task EXCEPT ![d].state = "active"]
    BY DEF TaskStates, StartTask
  <1>3. /\ task' \in Seq(Tasks) /\ Len(task') = Len(doc) /\ task'[d].state = "active"
        /\ \A e \in Docs : e # d => task'[e] = task[e]
    BY <1>0, <1>2, TaskMoved
  <1>4. PICK j : j = [at |-> "start", on |-> d, row |-> doc[d]]
    OBVIOUS
  <1>5. j \in Work /\ j.at = "start" /\ j.on = d /\ j.row = doc[d]
    BY <1>0, <1>4 DEF Work, WorkerPlaces
  <1>6. /\ job' \in [Workers -> Work] /\ job'[w] = j
        /\ \A v \in Workers : v # w => job'[v] = job[v]
    BY <1>0, <1>4, <1>5 DEF StartTask, Shapes
  <1>7. Shapes'
    BY <1>0, <1>1, <1>3, <1>6 DEF Shapes
  <1>8. \A v \in Workers : job[v].at # "idle" =>
           job[v].on \in Docs /\ job[v].on # d /\ task[job[v].on].state = "active"
    BY <1>0, AtWork
  <1>9. \A e \in Clients : req[e].at = "enqueue" =>
           req[e].on \in Docs /\ req[e].on # d /\ task[req[e].on].state = "none"
           /\ req[e].on \notin produced
    BY <1>0 DEF Base, ClientOK
  <1>10. CopyOf(doc[d], d)'
    <2>1. PICK row : row = doc[d] /\ row = doc'[d]
      BY <1>0
    <2>2. CopyOf(row, d)
      BY <1>0, <2>1 DEF CopyOf, Base, RowsOK
    <2>3. Len(doc') \in Nat /\ Docs' = 1..Len(doc')
      BY <1>0, <1>1, Tables
    <2>4. CopyOf(row, d)'
      BY <1>0, <1>1, <2>2, <2>3, CopyKept
    <2>. QED  BY <2>1, <2>4
  <1>11. WorkerOK(job[w])'
    <2>1. "again" \notin excuse'[d] => opened'[d] = 0
      BY <1>0 DEF Base, TaskOK
    <2>2. job'[w].row = doc'[d] /\ job'[w].on = d /\ job'[w].at = "start"
      BY <1>0, <1>5, <1>6
    <2>. QED  BY <1>3, <1>10, <2>1, <2>2 DEF WorkerOK
  <1>12. Apart'
    <2>1. \A v \in Workers : v # w /\ job'[v].at # "idle" => job'[v].on # d
      BY <1>6, <1>8
    <2>2. job'[w].on = d
      BY <1>5, <1>6
    <2>3. \A u, v \in Workers : job'[u].at # "idle" /\ job'[v].at # "idle" /\ job'[u].on = job'[v].on => u = v
      <3>1. TAKE u, v \in Workers
      <3>2. CASE u = w \/ v = w
        BY <2>1, <2>2, <3>2
      <3>3. CASE u # w /\ v # w
        BY <1>6, <3>3 DEF Base, Apart
      <3>. QED  BY <3>2, <3>3
    <2>. QED  BY <1>0, <2>3 DEF Base, Apart
  <1>13. TaskOK(d)'
    BY <1>3 DEF TaskOK
  <1>14. Base'
    BY <1>0, <1>1, <1>3, <1>6, <1>7, <1>8, <1>9, <1>11, <1>12, <1>13, BaseNext
  <1>. QED  BY <1>0, <1>1, <1>3, <1>5, <1>6, <1>14

LEMMA RetriedIs ==
    ASSUME Base, NEW d \in Docs
    PROVE  Retried(d) \in Tasks /\ Retried(d).state \in {"waiting", "archived"}
  <1>1. PICK t \in Tasks : t = task[d]
    BY Tables DEF Base
  <1>2. t.tries + 1 \in Nat
    BY <1>1, TaskParts
  <1>3. Retried(d) = IF t.tries < MaxRetry THEN [state |-> "waiting", tries |-> t.tries + 1]
                     ELSE [t EXCEPT !.state = "archived"]
    BY <1>1 DEF Retried
  <1>4. CASE t.tries < MaxRetry
    BY <1>2, <1>3, <1>4 DEF Tasks, TaskStates
  <1>5. CASE ~(t.tries < MaxRetry)
    BY <1>1, <1>3, <1>5 DEF Tasks, TaskStates
  <1>. QED  BY <1>4, <1>5

\* A worker is done with its task.
LEMMA WorkerRests ==
    ASSUME Base, NEW w \in Workers, job[w].at # "idle", Rest(w),
           NEW t \in Tasks, task' = [task EXCEPT ![job[w].on] = t],
           doc' = doc, opened' = opened, spent' = spent, req' = req, produced' = produced,
           excuse' \in Seq(SUBSET Excuses), Len(excuse') = Len(doc),
           \A e \in Docs : excuse[e] \subseteq excuse'[e],
           t.state = "waiting" /\ opened[job[w].on] # 0 => "again" \in excuse'[job[w].on]
    PROVE  /\ task'[job[w].on] = t /\ \A e \in Docs : e # job[w].on => task'[e] = task[e]
           /\ job'[w].at = "idle" /\ \A v \in Workers : v # w => job'[v] = job[v]
           /\ Keeps /\ Docs' = Docs
           /\ Base'
  <1>0. Shapes /\ Len(doc) \in Nat /\ Docs = 1..Len(doc)
    BY Tables DEF Base
  <1>1. PICK d \in Docs : d = job[w].on
    BY AtWork
  <1>2. /\ task' \in Seq(Tasks) /\ Len(task') = Len(doc)
        /\ \A e \in Docs : task'[e] = IF e = d THEN t ELSE task[e]
    BY <1>0, <1>1, TaskSet, ZenonT(60)
  <1>3. /\ job' \in [Workers -> Work] /\ job'[w] = Free
        /\ \A v \in Workers : v # w => job'[v] = job[v]
    BY <1>0, Rested
  <1>4. Docs' = Docs /\ Keeps
    BY <1>0 DEF Docs, Keeps
  <1>5. Shapes'
    BY <1>0, <1>2, <1>3, <1>4 DEF Shapes
  <1>6. \A v \in Workers : v # w /\ job[v].at # "idle" =>
           job[v].on \in Docs /\ job[v].on # d /\ task[job[v].on].state = "active"
    BY <1>1, AtWork
  <1>7. \A e \in Clients : req[e].at = "enqueue" =>
           req[e].on \in Docs /\ req[e].on # d /\ task[req[e].on].state = "none"
           /\ req[e].on \notin produced
    BY <1>1, AtWork DEF Base, ClientOK
  <1>8. WorkerOK(job[w])'
    BY <1>3, IdleIs DEF WorkerOK
  <1>9. TaskOK(d)'
    BY <1>1, <1>2 DEF TaskOK
  <1>10. Apart'
    BY <1>3, IdleIs, ApartKept DEF Base
  <1>11. Base'
    BY <1>2, <1>3, <1>4, <1>5, <1>6, <1>7, <1>8, <1>9, <1>10, BaseNext
  <1>. QED  BY <1>1, <1>2, <1>3, <1>4, <1>11, IdleIs

LEMMA ReturnErrorDoes ==
    ASSUME Base, NEW w \in Workers, ReturnError(w)
    PROVE  /\ job[w].at = "error" /\ job[w].at # "idle"
           /\ task'[job[w].on].state \in {"waiting", "archived"}
           /\ \A e \in Docs : e # job[w].on => task'[e] = task[e]
           /\ doc[job[w].on].status \in {"pending", "in_progress"} /\ task'[job[w].on].state = "archived"
                 => "unsaved" \in excuse'[job[w].on]
           /\ job'[w].at = "idle" /\ \A v \in Workers : v # w => job'[v] = job[v]
           /\ Keeps /\ Docs' = Docs
           /\ Base'
  <1>0. /\ Shapes /\ job[w].at = "error" /\ job[w].at # "idle" /\ Rest(w)
        /\ doc' = doc /\ opened' = opened /\ spent' = spent /\ req' = req /\ produced' = produced
    BY DEF Base, ReturnError, At
  <1>1. PICK d \in Docs : d = job[w].on
    BY <1>0, AtWork
  <1>2. PICK t \in Tasks : t = Retried(d) /\ t.state \in {"waiting", "archived"}
    BY RetriedIs
  <1>3. task' = [task EXCEPT ![d] = t]
    BY <1>1, <1>2 DEF ReturnError
  <1>4. PICK set : set = (IF opened[d] > 0 /\ t.state = "waiting" THEN {"again"} ELSE {})
                         \union (IF doc[d].status \in {"pending", "in_progress"} /\ t.state = "archived"
                                 THEN {"unsaved"} ELSE {})
    OBVIOUS
  <1>5. set \in SUBSET Excuses
    BY <1>4 DEF Excuses
  <1>6. excuse' = [excuse EXCEPT ![d] = @ \union set]
    BY <1>1, <1>2, <1>4 DEF ReturnError, NoteRetry
  <1>7. /\ excuse' \in Seq(SUBSET Excuses) /\ Len(excuse') = Len(doc)
        /\ \A e \in Docs : excuse'[e] = IF e = d THEN excuse[e] \union set ELSE excuse[e]
    BY <1>0, <1>5, <1>6, Noted
  <1>8. t.state = "waiting" /\ opened[d] # 0 => "again" \in excuse'[d]
    <2>1. opened[d] \in Nat
      BY <1>0, Tables
    <2>. QED  BY <1>4, <1>7, <2>1
  <1>9. doc[d].status \in {"pending", "in_progress"} /\ t.state = "archived"
           => "unsaved" \in excuse'[d]
    BY <1>4, <1>7
  <1>10. /\ task'[d] = t /\ \A e \in Docs : e # d => task'[e] = task[e]
         /\ job'[w].at = "idle" /\ \A v \in Workers : v # w => job'[v] = job[v]
         /\ Keeps /\ Docs' = Docs
         /\ Base'
    BY <1>0, <1>1, <1>3, <1>7, <1>8, WorkerRests, ZenonT(60)
  <1>. QED  BY <1>0, <1>1, <1>2, <1>9, <1>10

LEMMA AcknowledgeDoes ==
    ASSUME Base, NEW w \in Workers, Acknowledge(w)
    PROVE  /\ job[w].at = "ack" /\ job[w].at # "idle"
           /\ task'[job[w].on].state = "kept"
           /\ \A e \in Docs : e # job[w].on => task'[e] = task[e]
           /\ job'[w].at = "idle" /\ \A v \in Workers : v # w => job'[v] = job[v]
           /\ doc[job[w].on].status = "completed" \/ "stale" \in excuse[job[w].on]
           /\ Keeps /\ Docs' = Docs
           /\ Base'
  <1>0. /\ Shapes /\ job[w].at = "ack" /\ job[w].at # "idle" /\ Rest(w)
        /\ doc' = doc /\ opened' = opened /\ spent' = spent /\ req' = req /\ produced' = produced
        /\ excuse' = excuse
    BY DEF Base, Acknowledge, At, history
  <1>1. PICK d \in Docs : d = job[w].on
    BY <1>0, AtWork
  <1>2. PICK t : t = [task[d] EXCEPT !.state = "kept"]
    OBVIOUS
  <1>3. t \in Tasks /\ t.state = "kept"
    <2>1. PICK x \in Tasks : x = task[d]
      BY <1>0, Tables
    <2>. QED  BY <1>2, <2>1 DEF Tasks, TaskStates
  <1>4. task' = [task EXCEPT ![d] = t]
    BY <1>1, <1>2 DEF Acknowledge
  <1>5. excuse' \in Seq(SUBSET Excuses) /\ Len(excuse') = Len(doc)
        /\ \A e \in Docs : excuse[e] \subseteq excuse'[e]
    BY <1>0 DEF Shapes
  <1>6. /\ task'[d] = t /\ \A e \in Docs : e # d => task'[e] = task[e]
        /\ job'[w].at = "idle" /\ \A v \in Workers : v # w => job'[v] = job[v]
        /\ Keeps /\ Docs' = Docs
        /\ Base'
    BY <1>0, <1>1, <1>3, <1>4, <1>5, WorkerRests
  <1>7. doc[d].status = "completed" \/ "stale" \in excuse[d]
    BY <1>0, <1>1 DEF Base, WorkerOK
  <1>. QED  BY <1>0, <1>1, <1>3, <1>6, <1>7

LEMMA RetentionEndsDoes ==
    ASSUME Base, NEW d \in Docs, RetentionEnds(d)
    PROVE  /\ task[d].state = "kept" /\ task'[d].state = "none"
           /\ \A e \in Docs : e # d => task'[e] = task[e]
           /\ Keeps /\ Docs' = Docs
           /\ Base'
  <1>0. /\ Shapes /\ task[d].state = "kept"
        /\ doc' = doc /\ opened' = opened /\ spent' = spent /\ req' = req /\ produced' = produced
        /\ excuse' = excuse /\ job' = job
    BY DEF Base, RetentionEnds, history
  <1>1. Keeps /\ Docs' = Docs /\ Len(doc') = Len(doc)
    BY <1>0, RowsStay
  <1>2. "none" \in TaskStates /\ task' = [task EXCEPT ![d].state = "none"]
    BY DEF TaskStates, RetentionEnds
  <1>3. /\ task' \in Seq(Tasks) /\ Len(task') = Len(doc) /\ task'[d].state = "none"
        /\ \A e \in Docs : e # d => task'[e] = task[e]
    BY <1>0, <1>2, TaskMoved
  <1>4. Shapes'
    BY <1>0, <1>1, <1>3 DEF Shapes
  <1>5. \A v \in Workers : job[v].at # "idle" =>
           job[v].on \in Docs /\ job[v].on # d /\ task[job[v].on].state = "active"
    BY <1>0, AtWork
  <1>6. \A e \in Clients : req[e].at = "enqueue" =>
           req[e].on \in Docs /\ req[e].on # d /\ task[req[e].on].state = "none"
           /\ req[e].on \notin produced
    BY <1>0 DEF Base, ClientOK
  <1>7. TaskOK(d)'
    BY <1>3 DEF TaskOK
  <1>8. Apart'
    BY <1>0, ApartKept DEF Base
  <1>9. Base'
    BY <1>0, <1>1, <1>3, <1>4, <1>5, <1>6, <1>7, <1>8, BaseNext
  <1>. QED  BY <1>0, <1>1, <1>3, <1>9

LEMMA CrashDoes ==
    ASSUME Base, Crash
    PROVE  /\ doc' = doc /\ opened' = opened /\ produced' = produced
           /\ \A c \in Clients : req'[c].at = "idle"
           /\ \A w \in Workers : job'[w].at = "idle"
           /\ \A d \in Docs :
                 \/ task'[d] = task[d] /\ \A w \in Workers : job[w].at # "idle" => job[w].on # d
                 \/ /\ \E w \in Workers : job[w].at # "idle" /\ job[w].on = d
                    /\ task[d].state = "active" /\ task'[d].state \in {"waiting", "archived"}
                    /\ task'[d].state = "archived" => "unsaved" \in excuse'[d]
           /\ \A c \in Clients :
                 /\ req[c].at = "enqueue" => req[c].on \in Docs /\ "orphaned" \in excuse'[req[c].on]
                 /\ req[c].at = "supersede" => "forked" \in excuse'[doc[req[c].on].root]
           /\ Keeps /\ Docs' = Docs
           /\ Base'
  <1>0. /\ Shapes /\ Len(doc) \in Nat /\ Docs = 1..Len(doc)
        /\ doc' = doc /\ opened' = opened /\ spent' = spent /\ produced' = produced
    BY Tables DEF Base, Crash
  <1>1. /\ req' = [c \in Clients |-> Idle] /\ job' = [w \in Workers |-> Free]
    BY DEF Crash
  <1>. DEFINE held(d) == \E w \in Workers : job[w].on = d
              Pending(step, d) == \E c \in Clients : req[c].at = step /\ req[c].on = d
              notes(d) == (IF Pending("enqueue", d) THEN {"orphaned"} ELSE {})
                          \union (IF \E e \in Docs : doc[e].root = d /\ Pending("supersede", e)
                                  THEN {"forked"} ELSE {})
                          \union (IF held(d) /\ opened[d] > 0 THEN {"again"} ELSE {})
                          \union (IF held(d) /\ Retried(d).state = "archived" THEN {"unsaved"} ELSE {})
  <1>2. task' = [d \in Docs |-> IF held(d) THEN Retried(d) ELSE task[d]]
    BY DEF Crash
  <1>3. /\ DOMAIN excuse' = Docs
        /\ excuse' = [d \in DOMAIN excuse' |-> excuse'[d]]
        /\ \A d \in Docs : excuse'[d] = excuse[d] \union notes(d)
    <2>1. excuse' = [d \in Docs |->
              excuse[d]
              \union (IF Pending("enqueue", d) THEN {"orphaned"} ELSE {})
              \union (IF \E e \in Docs : doc[e].root = d /\ Pending("supersede", e)
                      THEN {"forked"} ELSE {})
              \union (IF held(d) /\ opened[d] > 0 THEN {"again"} ELSE {})
              \union (IF held(d) /\ Retried(d).state = "archived" THEN {"unsaved"} ELSE {})]
      BY DEF Crash
    <2>2. \A d \in Docs : excuse'[d] =
              excuse[d]
              \union (IF Pending("enqueue", d) THEN {"orphaned"} ELSE {})
              \union (IF \E e \in Docs : doc[e].root = d /\ Pending("supersede", e)
                      THEN {"forked"} ELSE {})
              \union (IF held(d) /\ opened[d] > 0 THEN {"again"} ELSE {})
              \union (IF held(d) /\ Retried(d).state = "archived" THEN {"unsaved"} ELSE {})
      BY <2>1
    <2>. HIDE DEF held, Pending
    <2>3. \A d \in Docs : excuse'[d] = excuse[d] \union notes(d)
      BY <2>2
    <2>. QED  BY <2>1, <2>3
  <1>4. \A d \in Docs : notes(d) \in SUBSET Excuses
    BY DEF Excuses
  <1>5. \A d \in Docs :
           /\ Pending("enqueue", d) => "orphaned" \in notes(d)
           /\ (\E e \in Docs : doc[e].root = d /\ Pending("supersede", e)) => "forked" \in notes(d)
           /\ held(d) /\ opened[d] > 0 => "again" \in notes(d)
           /\ held(d) /\ Retried(d).state = "archived" => "unsaved" \in notes(d)
    OBVIOUS
  <1>6. \A d \in Docs : held(d) => /\ \E w \in Workers : job[w].at # "idle" /\ job[w].on = d
                                   /\ task[d].state = "active"
    <2>1. TAKE d \in Docs
    <2>2. HAVE held(d)
    <2>3. PICK w \in Workers : job[w].on = d
      BY <2>2
    <2>4. job[w].at # "idle"
      BY <1>0, <2>3 DEF Base, WorkerOK
    <2>. QED  BY <2>3, <2>4, AtWork
  <1>7. \A d \in Docs : ~held(d) => \A w \in Workers : job[w].at # "idle" => job[w].on # d
    OBVIOUS
  <1>8. \A c \in Clients :
           /\ req[c].at = "enqueue" => req[c].on \in Docs /\ Pending("enqueue", req[c].on)
           /\ req[c].at = "supersede" =>
                 /\ doc[req[c].on].root \in Docs
                 /\ \E e \in Docs : doc[e].root = doc[req[c].on].root /\ Pending("supersede", e)
    <2>1. TAKE c \in Clients
    <2>2. CASE req[c].at = "enqueue"
      <3>1. req[c].on \in Docs
        BY <2>2 DEF Base, ClientOK
      <3>. QED  BY <2>2, <3>1
    <2>3. CASE req[c].at = "supersede"
      <3>1. req[c].on \in Docs /\ doc[req[c].on].root \in Docs
        BY <2>3, AtEdit
      <3>. QED  BY <2>3, <3>1
    <2>. QED  BY <2>2, <2>3
  <1>. HIDE DEF held, Pending, notes
  <1>9. \A d \in Docs : excuse'[d] \in SUBSET Excuses /\ excuse[d] \subseteq excuse'[d]
                        /\ notes(d) \subseteq excuse'[d]
    BY <1>0, <1>3, <1>4, Tables
  <1>10. excuse' \in Seq(SUBSET Excuses) /\ Len(excuse') = Len(doc)
    <2>1. PICK S, s : S = SUBSET Excuses /\ s = excuse'
      OBVIOUS
    <2>2. s \in Seq(S) /\ Len(s) = Len(doc)
      BY <1>0, <1>3, <1>9, <2>1, IsSeq
    <2>. QED  BY <2>1, <2>2
  <1>11. task' \in Seq(Tasks) /\ Len(task') = Len(doc)
    <2>1. \A d \in Docs : task'[d] \in Tasks
      BY <1>0, <1>2, Tables, RetriedIs
    <2>2. DOMAIN task' = Docs /\ task' = [d \in DOMAIN task' |-> task'[d]]
      BY <1>2
    <2>3. PICK s : s = task'
      OBVIOUS
    <2>4. s \in Seq(Tasks) /\ Len(s) = Len(doc)
      BY <1>0, <2>1, <2>2, <2>3, IsSeq
    <2>. QED  BY <2>3, <2>4
  <1>12. \A d \in Docs : task'[d] = IF held(d) THEN Retried(d) ELSE task[d]
    BY <1>2
  <1>13. Docs' = Docs /\ Keeps
    BY <1>0, <1>9 DEF Docs, Keeps
  <1>14. Shapes'
    BY <1>0, <1>1, <1>10, <1>11, <1>13, IdleIs DEF Shapes
  <1>15. \A d \in Docs : \/ task'[d] = task[d] /\ opened'[d] = opened[d]
                         \/ TaskOK(d)'
    <2>1. TAKE d \in Docs
    <2>2. CASE held(d)
      <3>1. opened[d] \in Nat /\ (opened[d] > 0 => "again" \in excuse'[d])
        BY <1>0, <1>5, <1>9, <2>2, Tables
      <3>2. "again" \notin excuse'[d] => opened'[d] = 0
        BY <1>0, <3>1
      <3>. QED  BY <3>2 DEF TaskOK
    <2>3. CASE ~held(d)
      BY <1>0, <1>12, <2>3
    <2>. QED  BY <2>2, <2>3
  <1>16. (\A c \in Clients : ClientOK(req[c])') /\ (\A w \in Workers : WorkerOK(job[w])')
    BY <1>1, IdleIs DEF ClientOK, WorkerOK
  <1>17. Apart'
    BY <1>1, IdleIs DEF Apart
  <1>18. Base'
    BY <1>0, <1>13, <1>14, <1>15, <1>16, <1>17, BaseNext
  <1>19. \A d \in Docs :
            \/ task'[d] = task[d] /\ \A w \in Workers : job[w].at # "idle" => job[w].on # d
            \/ /\ \E w \in Workers : job[w].at # "idle" /\ job[w].on = d
               /\ task[d].state = "active" /\ task'[d].state \in {"waiting", "archived"}
               /\ task'[d].state = "archived" => "unsaved" \in excuse'[d]
    <2>1. TAKE d \in Docs
    <2>2. CASE held(d)
      <3>1. task'[d] = Retried(d) /\ Retried(d).state \in {"waiting", "archived"}
        BY <1>12, <2>2, RetriedIs
      <3>2. Retried(d).state = "archived" => "unsaved" \in excuse'[d]
        BY <1>5, <1>9, <2>2
      <3>. QED  BY <1>6, <2>2, <3>1, <3>2
    <2>3. CASE ~held(d)
      BY <1>7, <1>12, <2>3
    <2>. QED  BY <2>2, <2>3
  <1>20. \A c \in Clients :
            /\ req[c].at = "enqueue" => req[c].on \in Docs /\ "orphaned" \in excuse'[req[c].on]
            /\ req[c].at = "supersede" => "forked" \in excuse'[doc[req[c].on].root]
    BY <1>5, <1>8, <1>9
  <1>. QED  BY <1>0, <1>1, <1>13, <1>18, <1>19, <1>20, IdleIs

-----------------------------------------------------------------------------
(* What a step has to show of the rows it may disturb *)

\* Only who hides the last version makes another.
LEMMA HeadKept ==
    ASSUME Base, OneHeadUnlessForked, Keeps, Docs' = Docs,
           \A d \in Docs : doc'[d].superseded = doc[d].superseded
                           \/ doc'[d].superseded # 0 \/ "forked" \in excuse'[doc[d].root],
           \A c \in Clients : req[c].at = "supersede" =>
              \/ req'[c] = req[c]
              \/ doc'[req[c].on].superseded # 0
              \/ "forked" \in excuse'[doc[req[c].on].root]
    PROVE  OneHeadUnlessForked'
  <1>1. SUFFICES ASSUME NEW d \in Docs, NEW e \in Docs,
                        doc'[d].root = doc'[e].root, "forked" \notin excuse'[doc'[d].root],
                        doc'[d].superseded = 0, doc'[e].superseded = 0,
                        \A c \in Clients : ~(req'[c].at = "supersede" /\ req'[c].on \in {d, e})
                 PROVE  d = e
    BY DEF OneHeadUnlessForked
  <1>2. doc'[d].root = doc[d].root /\ doc'[e].root = doc[e].root /\ doc[d].root \in Docs
    <2>1. Docs = 1..Len(doc) /\ Len(doc) \in Nat /\ doc[d].root \in 1..d
      BY Tables DEF Base, RowsOK
    <2>. QED  BY <2>1 DEF Keeps
  <1>3. "forked" \notin excuse[doc[d].root] /\ doc[d].root = doc[e].root
    BY <1>1, <1>2 DEF Keeps
  <1>4. doc[d].superseded = 0 /\ doc[e].superseded = 0
    BY <1>1, <1>2
  <1>5. \A c \in Clients : ~(req[c].at = "supersede" /\ req[c].on \in {d, e})
    BY <1>1, <1>2
  <1>. QED  BY <1>3, <1>4, <1>5 DEF OneHeadUnlessForked

LEMMA CompletedKept ==
    ASSUME Base, CompletedIsKeptUnlessStale, Keeps,
           \A d \in produced' :
              \/ doc'[d].status = "completed" /\ doc'[d].content
              \/ /\ d \in produced
                 /\ \/ doc'[d].status = doc[d].status /\ doc'[d].content = doc[d].content
                    \/ doc[d].status = "completed" => "stale" \in excuse'[d]
    PROVE  CompletedIsKeptUnlessStale'
  <1>1. produced \subseteq Docs
    BY DEF Base, Shapes
  <1>. QED  BY <1>1 DEF CompletedIsKeptUnlessStale, Keeps

LEMMA ChangeRequestKept ==
    ASSUME Base, OneChangeRequestUnlessAgain, Keeps,
           \A d \in Docs' :
              \/ d \in Docs /\ opened'[d] = opened[d] /\ (d \in produced' => d \in produced)
              \/ /\ "again" \notin excuse'[d] => opened'[d] <= 1
                 /\ d \in produced' /\ doc'[d].scope = "repo" => opened'[d] >= 1
    PROVE  OneChangeRequestUnlessAgain'
  BY DEF OneChangeRequestUnlessAgain, Keeps

\* A row that nobody has to wait for in vain.
Awaited(d) ==
    \/ task[d].state \in {"waiting", "active"}
    \/ \E c \in Clients : req[c].at = "enqueue" /\ req[c].on = d
    \/ excuse[d] \intersect {"orphaned", "unsaved", "stale"} # {}

LEMMA UnfinishedKept ==
    ASSUME UnfinishedIsScheduledUnlessOrphaned,
           \A d \in Docs' :
              \/ d \in Docs /\ doc'[d].status = doc[d].status /\ (Awaited(d) => Awaited(d)')
              \/ doc'[d].status \notin {"pending", "in_progress"}
              \/ Awaited(d)'
    PROVE  UnfinishedIsScheduledUnlessOrphaned'
  BY DEF UnfinishedIsScheduledUnlessOrphaned, Awaited

\* A row whose task and request stay is awaited as before.
LEMMA AwaitedKept ==
    ASSUME Keeps, NEW d \in Docs, Awaited(d),
           task'[d].state = task[d].state \/ task'[d].state \in {"waiting", "active"},
           \A c \in Clients : req[c].at = "enqueue" /\ req[c].on = d => req'[c] = req[c]
    PROVE  Awaited(d)'
  <1>1. CASE task[d].state \in {"waiting", "active"}
    BY <1>1 DEF Awaited
  <1>2. CASE \E c \in Clients : req[c].at = "enqueue" /\ req[c].on = d
    BY <1>2 DEF Awaited
  <1>3. CASE excuse[d] \intersect {"orphaned", "unsaved", "stale"} # {}
    <2>1. excuse'[d] \intersect {"orphaned", "unsaved", "stale"} # {}
      BY <1>3 DEF Keeps
    <2>. QED  BY <2>1 DEF Awaited
  <1>. QED  BY <1>1, <1>2, <1>3 DEF Awaited

\* A step that changes no row.
LEMMA HeldInPlace ==
    ASSUME Base, Held, Keeps, Docs' = Docs, doc' = doc, opened' = opened, produced' = produced,
           \A c \in Clients : req[c].at = "supersede" =>
              req'[c] = req[c] \/ "forked" \in excuse'[doc[req[c].on].root],
           \A d \in Docs : \/ doc[d].status \notin {"pending", "in_progress"}
                           \/ Awaited(d) => Awaited(d)'
    PROVE  Held'
  <1>1. OneHeadUnlessForked'
    BY HeadKept DEF Held
  <1>2. CompletedIsKeptUnlessStale'
    BY CompletedKept DEF Held
  <1>3. OneChangeRequestUnlessAgain'
    BY ChangeRequestKept DEF Held
  <1>4. UnfinishedIsScheduledUnlessOrphaned'
    BY UnfinishedKept DEF Held
  <1>. QED  BY <1>1, <1>2, <1>3, <1>4 DEF Held

\* A worker that goes on with its task makes no version and leaves no row waiting.
LEMMA WorkerHolds ==
    ASSUME Base, Held, NEW w \in Workers, WorkerGoes(w)
    PROVE  (OneHeadUnlessForked /\ UnfinishedIsScheduledUnlessOrphaned)'
  <1>1. /\ Keeps /\ Docs' = Docs /\ task' = task /\ req' = req
        /\ job[w].on \in Docs /\ task[job[w].on].state = "active"
        /\ \A e \in Docs : e # job[w].on => doc'[e] = doc[e]
        /\ doc'[job[w].on].superseded # doc[job[w].on].superseded
              => "forked" \in excuse'[doc[job[w].on].root]
    BY SavesDoes, AtWork DEF WorkerGoes
  <1>2. \A d \in Docs : doc'[d].superseded = doc[d].superseded
                        \/ doc'[d].superseded # 0 \/ "forked" \in excuse'[doc[d].root]
    BY <1>1
  <1>3. OneHeadUnlessForked'
    BY <1>1, <1>2, HeadKept DEF Held
  <1>4. \A d \in Docs' :
              \/ d \in Docs /\ doc'[d].status = doc[d].status /\ (Awaited(d) => Awaited(d)')
              \/ Awaited(d)'
    <2>1. TAKE d \in Docs'
    <2>2. CASE d = job[w].on
      BY <1>1, <2>2 DEF Awaited
    <2>3. CASE d # job[w].on
      BY <1>1, <2>3, AwaitedKept
    <2>. QED  BY <2>2, <2>3
  <1>5. UnfinishedIsScheduledUnlessOrphaned'
    BY <1>4, UnfinishedKept DEF Held
  <1>. QED  BY <1>3, <1>5

LEMMA WorkerHoldsAll ==
    ASSUME Base, Held, NEW w \in Workers, WorkerGoes(w), opened' = opened, produced' = produced
    PROVE  Held'
  <1>1. /\ Keeps /\ Docs' = Docs
        /\ \A e \in Docs : e # job[w].on => doc'[e] = doc[e]
        /\ doc'[job[w].on] # doc[job[w].on] /\ doc[job[w].on].status = "completed"
              => "stale" \in excuse'[job[w].on]
        /\ produced \subseteq Docs
    BY SavesDoes DEF WorkerGoes, Base, Shapes
  <1>2. CompletedIsKeptUnlessStale'
    BY <1>1, CompletedKept DEF Held
  <1>3. OneChangeRequestUnlessAgain'
    BY <1>1, ChangeRequestKept DEF Held
  <1>. QED  BY <1>2, <1>3, WorkerHolds DEF Held

-----------------------------------------------------------------------------
(* The four properties of the rows, step by step *)

LEMMA AskingHolds ==
    ASSUME Base, Held, NEW c \in Clients,
           (\E s \in Scopes : GenerateDocs(c, s)) \/ (\E d \in Docs : UpdateDocContent(c, d))
    PROVE  Held'
  <1>1. /\ doc' = doc /\ task' = task /\ opened' = opened /\ produced' = produced
        /\ excuse' = excuse
    BY DEF GenerateDocs, UpdateDocContent, history
  <1>2. req[c].at = "idle" /\ \A e \in Clients : e # c => req'[e] = req[e]
    BY GenerateDocsDoes, UpdateDocContentDoes
  <1>3. Keeps /\ Docs' = Docs
    BY <1>1, RowsStay
  <1>4. \A d \in Docs : Awaited(d) => Awaited(d)'
    BY <1>1, <1>2, <1>3, AwaitedKept
  <1>5. \A e \in Clients : req[e].at = "supersede" => req'[e] = req[e]
    BY <1>2
  <1>. QED  BY <1>1, <1>3, <1>4, <1>5, HeldInPlace

\* A new document has one version.
LEMMA NewDocumentHolds ==
    ASSUME Base, Held, Keeps, Docs' = 1..Len(doc) + 1,
           doc'[Len(doc) + 1].root = Len(doc) + 1,
           opened'[Len(doc) + 1] = 0, produced' = produced,
           \A d \in Docs : /\ doc'[d] = doc[d] /\ task'[d] = task[d] /\ opened'[d] = opened[d]
                           /\ excuse'[d] = excuse[d],
           \A e \in Clients : req[e].at \in {"supersede", "enqueue"} => req'[e] = req[e],
           \A d \in Docs' : d \in Docs \/ doc'[d].status \notin {"pending", "in_progress"} \/ Awaited(d)'
    PROVE  Held'
  <1>0. /\ Len(doc) \in Nat /\ Docs = 1..Len(doc) /\ produced \subseteq Docs
        /\ \A d \in Docs : doc[d].root \in Docs
    BY Tables DEF Base, RowsOK, Shapes
  <1>1. PICK n \in Nat : n = Len(doc) + 1
    BY <1>0
  <1>2. OneHeadUnlessForked'
    <2>1. SUFFICES ASSUME NEW d \in Docs', NEW e \in Docs',
                          doc'[d].root = doc'[e].root, "forked" \notin excuse'[doc'[d].root],
                          doc'[d].superseded = 0, doc'[e].superseded = 0,
                          \A c \in Clients : ~(req'[c].at = "supersede" /\ req'[c].on \in {d, e})
                   PROVE  d = e
      BY DEF OneHeadUnlessForked
    <2>2. \A b \in Docs' : b = n \/ b \in Docs
      BY <1>0, <1>1
    <2>3. n \notin Docs /\ doc'[n].root = n /\ \A b \in Docs : doc'[b].root \in Docs
      BY <1>0, <1>1
    <2>4. CASE d = n \/ e = n
      BY <2>1, <2>2, <2>3, <2>4
    <2>5. CASE d \in Docs /\ e \in Docs
      <3>1. /\ doc[d].root = doc[e].root /\ "forked" \notin excuse[doc[d].root]
            /\ doc[d].superseded = 0 /\ doc[e].superseded = 0
        BY <1>0, <2>1, <2>5
      <3>2. \A c \in Clients : ~(req[c].at = "supersede" /\ req[c].on \in {d, e})
        BY <2>1
      <3>. QED  BY <2>5, <3>1, <3>2 DEF Held, OneHeadUnlessForked
    <2>. QED  BY <2>2, <2>4, <2>5
  <1>3. CompletedIsKeptUnlessStale'
    BY <1>0, CompletedKept DEF Held
  <1>4. OneChangeRequestUnlessAgain'
    BY <1>0, <1>1, ChangeRequestKept DEF Held
  <1>5. UnfinishedIsScheduledUnlessOrphaned'
    <2>1. \A d \in Docs : Awaited(d) => Awaited(d)'
      BY AwaitedKept
    <2>2. \A d \in Docs' :
              \/ d \in Docs /\ doc'[d].status = doc[d].status /\ (Awaited(d) => Awaited(d)')
              \/ doc'[d].status \notin {"pending", "in_progress"}
              \/ Awaited(d)'
      BY <2>1
    <2>. QED  BY <2>2, UnfinishedKept DEF Held
  <1>. QED  BY <1>2, <1>3, <1>4, <1>5 DEF Held

LEMMA InsertPendingHolds ==
    ASSUME Base, Held, NEW c \in Clients, InsertPending(c)
    PROVE  Held'
  <1>1. /\ req[c].at = "insert"
        /\ req'[c].at = "enqueue" /\ req'[c].on = Len(doc) + 1
        /\ \A e \in Clients : e # c => req'[e] = req[e]
        /\ Docs' = 1..Len(doc) + 1 /\ Keeps
        /\ doc'[Len(doc) + 1].root = Len(doc) + 1 /\ opened'[Len(doc) + 1] = 0
        /\ \A d \in Docs : /\ doc'[d] = doc[d] /\ task'[d] = task[d] /\ opened'[d] = opened[d]
                           /\ excuse'[d] = excuse[d]
        /\ produced' = produced
    BY InsertPendingDoes DEF InsertPending
  <1>2. Docs = 1..Len(doc) /\ Len(doc) \in Nat
    BY Tables DEF Base
  <1>3. \A d \in Docs' : d \in Docs \/ Awaited(d)'
    <2>1. \A d \in Docs' : d \in Docs \/ d = req'[c].on
      BY <1>1, <1>2
    <2>. QED  BY <1>1, <2>1 DEF Awaited
  <1>4. \A e \in Clients : req[e].at \in {"supersede", "enqueue"} => req'[e] = req[e]
    BY <1>1
  <1>. QED  BY <1>1, <1>3, <1>4, NewDocumentHolds

LEMMA CreateManualDocHolds ==
    ASSUME Base, Held, NEW s \in Scopes, CreateManualDoc(s)
    PROVE  Held'
  <1>1. /\ Docs' = 1..Len(doc) + 1 /\ Keeps
        /\ doc'[Len(doc) + 1].root = Len(doc) + 1 /\ opened'[Len(doc) + 1] = 0
        /\ doc'[Len(doc) + 1].status = "completed"
        /\ \A d \in Docs : /\ doc'[d] = doc[d] /\ task'[d] = task[d] /\ opened'[d] = opened[d]
                           /\ excuse'[d] = excuse[d]
        /\ produced' = produced /\ req' = req
    BY CreateManualDocDoes DEF CreateManualDoc
  <1>2. Docs = 1..Len(doc) /\ Len(doc) \in Nat
    BY Tables DEF Base
  <1>3. \A d \in Docs' : d \in Docs \/ doc'[d].status \notin {"pending", "in_progress"}
    <2>1. \A d \in Docs' : d \in Docs \/ d = Len(doc) + 1
      BY <1>1, <1>2
    <2>. QED  BY <1>1, <2>1
  <1>4. \A e \in Clients : req[e].at \in {"supersede", "enqueue"} => req'[e] = req[e]
    BY <1>1
  <1>. QED  BY <1>1, <1>3, <1>4, NewDocumentHolds

LEMMA EnqueueHolds ==
    ASSUME Base, Held, NEW c \in Clients, Enqueue(c)
    PROVE  Held'
  <1>1. PICK d \in Docs : d = req[c].on
    BY EnqueueDoes
  <1>2. /\ req[c].at = "enqueue" /\ \A e \in Clients : e # c => req'[e] = req[e]
        /\ doc' = doc /\ Docs' = Docs /\ Keeps
        /\ \A e \in Docs : e # d => task'[e] = task[e]
        /\ \/ task'[d].state = "waiting"
           \/ "orphaned" \in excuse'[d]
        /\ opened' = opened /\ produced' = produced
    BY <1>1, EnqueueDoes DEF Enqueue
  <1>3. \A e \in Docs : Awaited(e) => Awaited(e)'
    <2>1. Awaited(d)'
      BY <1>2 DEF Awaited
    <2>2. \A e \in Docs : e # d /\ Awaited(e) => Awaited(e)'
      BY <1>1, <1>2, AwaitedKept
    <2>. QED  BY <2>1, <2>2
  <1>4. \A e \in Clients : req[e].at = "supersede" => req'[e] = req[e]
    BY <1>2
  <1>. QED  BY <1>2, <1>3, <1>4, HeldInPlace

\* Whoever adds a version to one that nobody has hidden makes it the last.
LEMMA CreateVersionHolds ==
    ASSUME Base, Held, NEW c \in Clients, CreateVersion(c)
    PROVE  Held'
  <1>0. /\ Len(doc) \in Nat /\ Docs = 1..Len(doc) /\ produced \subseteq Docs
        /\ \A d \in Docs : doc[d].root \in Docs
    BY Tables DEF Base, RowsOK, Shapes
  <1>1. PICK n \in Nat, on \in Docs, root \in Docs :
           n = Len(doc) + 1 /\ on = req[c].on /\ root = doc[on].root
    BY <1>0, CreateVersionDoes
  <1>2. /\ req[c].at = "version" /\ req'[c].at = "supersede" /\ req'[c].on = on
        /\ \A e \in Clients : e # c => req'[e] = req[e]
        /\ Docs' = 1..n /\ Keeps
        /\ doc'[n].root = root /\ doc'[n].status = "completed" /\ opened'[n] = 0
        /\ \A d \in Docs : doc'[d] = doc[d] /\ task'[d] = task[d] /\ opened'[d] = opened[d]
        /\ "forked" \notin excuse'[root] =>
              /\ doc[on].superseded = 0
              /\ \A e \in Clients : ~(req[e].at = "supersede" /\ req[e].on = on)
        /\ produced' = produced
    BY <1>1, CreateVersionDoes DEF CreateVersion
  <1>3. \A d \in Docs' : d \in Docs \/ d = n
    BY <1>0, <1>1, <1>2
  <1>4. \A d, e \in Docs :
           /\ doc[d].root = doc[e].root /\ "forked" \notin excuse'[doc[d].root]
           /\ doc[d].superseded = 0 /\ doc[e].superseded = 0
           /\ \A f \in Clients : ~(req[f].at = "supersede" /\ req[f].on \in {d, e})
           => d = e
    <2>1. \A d \in Docs : "forked" \notin excuse'[doc[d].root] => "forked" \notin excuse[doc[d].root]
      BY <1>0, <1>2 DEF Keeps
    <2>. QED  BY <2>1 DEF Held, OneHeadUnlessForked
  <1>5. \A f \in Clients : req[f].at = "supersede" => req'[f] = req[f]
    BY <1>2
  \* Any other head of the document is the row that is being hidden.
  <1>6. \A d \in Docs : ~(/\ doc[d].root = root /\ "forked" \notin excuse'[root]
                          /\ doc[d].superseded = 0
                          /\ \A f \in Clients : ~(req'[f].at = "supersede" /\ req'[f].on = d))
    <2>1. SUFFICES ASSUME NEW d \in Docs, doc[d].root = root, "forked" \notin excuse'[root],
                          doc[d].superseded = 0,
                          \A f \in Clients : ~(req'[f].at = "supersede" /\ req'[f].on = d)
                   PROVE  FALSE
      OBVIOUS
    <2>2. \A f \in Clients : ~(req[f].at = "supersede" /\ req[f].on = d)
      BY <1>5, <2>1
    <2>3. \A f \in Clients : ~(req[f].at = "supersede" /\ req[f].on \in {d, on})
      BY <1>2, <2>1, <2>2
    <2>4. doc[on].superseded = 0 /\ doc[on].root = root
      BY <1>1, <1>2, <2>1
    <2>5. d = on
      BY <1>4, <2>1, <2>3, <2>4
    <2>. QED  BY <1>2, <2>1, <2>5
  <1>7. OneHeadUnlessForked'
    <2>1. SUFFICES ASSUME NEW d \in Docs', NEW e \in Docs',
                          doc'[d].root = doc'[e].root, "forked" \notin excuse'[doc'[d].root],
                          doc'[d].superseded = 0, doc'[e].superseded = 0,
                          \A f \in Clients : ~(req'[f].at = "supersede" /\ req'[f].on \in {d, e})
                   PROVE  d = e
      BY DEF OneHeadUnlessForked
    <2>2. CASE d \in Docs /\ e \in Docs
      BY <1>2, <1>4, <1>5, <2>1, <2>2
    <2>3. CASE d = n /\ e \in Docs
      BY <1>2, <1>6, <2>1, <2>3
    <2>4. CASE d \in Docs /\ e = n
      BY <1>2, <1>6, <2>1, <2>4
    <2>. QED  BY <1>3, <2>2, <2>3, <2>4
  <1>8. CompletedIsKeptUnlessStale'
    BY <1>0, <1>2, CompletedKept DEF Held
  <1>9. OneChangeRequestUnlessAgain'
    BY <1>0, <1>1, <1>2, <1>3, ChangeRequestKept DEF Held
  <1>10. UnfinishedIsScheduledUnlessOrphaned'
    <2>1. \A d \in Docs : Awaited(d) => Awaited(d)'
      BY <1>2, AwaitedKept
    <2>2. \A d \in Docs' :
              \/ d \in Docs /\ doc'[d].status = doc[d].status /\ (Awaited(d) => Awaited(d)')
              \/ doc'[d].status \notin {"pending", "in_progress"}
              \/ Awaited(d)'
      BY <1>2, <1>3, <2>1
    <2>. QED  BY <2>2, UnfinishedKept DEF Held
  <1>. QED  BY <1>7, <1>8, <1>9, <1>10 DEF Held

LEMMA MarkSupersededHolds ==
    ASSUME Base, Held, NEW c \in Clients, MarkSuperseded(c)
    PROVE  Held'
  <1>0. produced \subseteq Docs
    BY DEF Base, Shapes
  <1>1. PICK on \in Docs, root \in Docs : on = req[c].on /\ root = doc[on].root
    BY MarkSupersededDoes
  <1>2. /\ req[c].at = "supersede"
        /\ \A e \in Clients : e # c => req'[e] = req[e]
        /\ Docs' = Docs /\ Keeps
        /\ \A e \in Docs : e # on => doc'[e] = doc[e]
        /\ \/ /\ doc'[on].superseded # 0
              /\ "stale" \notin excuse'[on] =>
                    doc'[on].status = doc[on].status /\ doc'[on].content = doc[on].content
           \/ doc' = doc /\ "forked" \in excuse'[root]
        /\ task' = task /\ opened' = opened /\ produced' = produced
    BY <1>1, MarkSupersededDoes DEF MarkSuperseded
  <1>3. OneHeadUnlessForked'
    <2>1. \A d \in Docs : doc'[d].superseded = doc[d].superseded \/ doc'[d].superseded # 0
      BY <1>2
    <2>2. \A e \in Clients : req[e].at = "supersede" =>
              \/ req'[e] = req[e]
              \/ doc'[req[e].on].superseded # 0
              \/ "forked" \in excuse'[doc[req[e].on].root]
      BY <1>1, <1>2
    <2>. QED  BY <1>2, <2>1, <2>2, HeadKept DEF Held
  <1>4. \A d \in Docs : \/ doc'[d].status = doc[d].status /\ doc'[d].content = doc[d].content
                        \/ "stale" \in excuse'[d]
    BY <1>2
  <1>5. CompletedIsKeptUnlessStale'
    BY <1>0, <1>2, <1>4, CompletedKept DEF Held
  <1>6. OneChangeRequestUnlessAgain'
    BY <1>2, ChangeRequestKept DEF Held
  <1>7. UnfinishedIsScheduledUnlessOrphaned'
    <2>1. \A d \in Docs : Awaited(d) => Awaited(d)'
      <3>1. \A e \in Clients : req[e].at = "enqueue" => req'[e] = req[e]
        BY <1>2
      <3>. QED  BY <1>2, <3>1, AwaitedKept
    <2>2. \A d \in Docs : "stale" \in excuse'[d] => Awaited(d)'
      BY DEF Awaited
    <2>3. \A d \in Docs' :
              \/ d \in Docs /\ doc'[d].status = doc[d].status /\ (Awaited(d) => Awaited(d)')
              \/ Awaited(d)'
      BY <1>2, <1>4, <2>1, <2>2
    <2>. QED  BY <2>3, UnfinishedKept DEF Held
  <1>. QED  BY <1>3, <1>5, <1>6, <1>7 DEF Held

LEMMA OpenChangeRequestHolds ==
    ASSUME Base, Held, NEW w \in Workers, OpenChangeRequest(w)
    PROVE  Held'
  <1>0. Len(doc) \in Nat /\ produced \subseteq Docs
    BY Tables DEF Base, Shapes
  <1>1. /\ WorkerGoes(w) /\ job[w].at = "publish"
        /\ doc' = doc /\ excuse' = excuse /\ produced' = produced
        /\ \A e \in Docs : e # job[w].on => opened'[e] = opened[e]
        /\ opened'[job[w].on] = opened[job[w].on] + 1 \/ opened' = opened
    BY OpenChangeRequestDoes DEF OpenChangeRequest
  <1>2. /\ "again" \notin excuse[job[w].on] => opened[job[w].on] = 0
        /\ job[w].on \in Docs
    BY <1>1, AtWork DEF Base, WorkerOK
  <1>3. CompletedIsKeptUnlessStale'
    BY <1>1, CompletedKept DEF Held, WorkerGoes
  <1>4. OneChangeRequestUnlessAgain'
    <2>1. opened[job[w].on] \in Nat
      BY <1>2, Tables DEF Base
    <2>2. /\ "again" \notin excuse'[job[w].on] => opened'[job[w].on] <= 1
          /\ opened'[job[w].on] >= 1 \/ opened' = opened
      BY <1>1, <1>2, <2>1
    <2>3. Docs' = Docs /\ Keeps
      BY <1>1 DEF WorkerGoes
    <2>. QED  BY <1>1, <2>2, <2>3, ChangeRequestKept DEF Held
  <1>. QED  BY <1>1, <1>3, <1>4, WorkerHolds DEF Held

LEMMA MarkCompletedHolds ==
    ASSUME Base, Held, NEW w \in Workers, MarkCompleted(w)
    PROVE  Held'
  <1>0. produced \subseteq Docs
    BY DEF Base, Shapes
  <1>1. /\ WorkerGoes(w) /\ job[w].at = "complete" /\ opened' = opened
        /\ \/ /\ produced' = produced \union {job[w].on}
              /\ doc'[job[w].on].status = "completed" /\ doc'[job[w].on].content
              /\ job[w].row.scope = "repo" => opened[job[w].on] >= 1
           \/ produced' = produced
    BY MarkCompletedDoes
  <1>2. CASE produced' = produced
    BY <1>1, <1>2, WorkerHoldsAll
  <1>3. CASE /\ produced' = produced \union {job[w].on}
             /\ doc'[job[w].on].status = "completed" /\ doc'[job[w].on].content
             /\ job[w].row.scope = "repo" => opened[job[w].on] >= 1
    <2>1. /\ Keeps /\ Docs' = Docs /\ job[w].on \in Docs
          /\ job[w].row.scope = doc[job[w].on].scope
          /\ \A e \in Docs : e # job[w].on => doc'[e] = doc[e]
      BY <1>1, SavesDoes, AtWork DEF WorkerGoes
    <2>2. CompletedIsKeptUnlessStale'
      BY <1>0, <1>3, <2>1, CompletedKept DEF Held
    <2>3. OneChangeRequestUnlessAgain'
      <3>1. doc'[job[w].on].scope = "repo" => opened'[job[w].on] >= 1
        BY <1>1, <1>3, <2>1 DEF Keeps
      <3>2. "again" \notin excuse'[job[w].on] => opened'[job[w].on] <= 1
        BY <1>1, <2>1 DEF Keeps, Held, OneChangeRequestUnlessAgain
      <3>. QED  BY <1>1, <1>3, <2>1, <3>1, <3>2, ChangeRequestKept DEF Held
    <2>. QED  BY <1>1, <2>2, <2>3, WorkerHolds DEF Held
  <1>. QED  BY <1>1, <1>2, <1>3

\* The steps of a worker that open nothing and record nothing.
LEMMA WorkingHolds ==
    ASSUME Base, Held, NEW w \in Workers,
           \/ MarkInProgress(w) \/ GenerateDocumentation(w)
           \/ UpdateOrgProgress(w) \/ FailDocGeneration(w)
    PROVE  Held'
  <1>1. opened' = opened /\ produced' = produced
    BY DEF MarkInProgress, GenerateDocumentation, UpdateOrgProgress, FailDocGeneration, history
  <1>2. WorkerGoes(w)
    BY MarkInProgressDoes, GenerateDocumentationDoes, UpdateOrgProgressDoes, FailDocGenerationDoes
  <1>. QED  BY <1>1, <1>2, WorkerHoldsAll

LEMMA TasksHold ==
    ASSUME Base, Held,
           \/ \E w \in Workers, d \in Docs : StartTask(w, d)
           \/ \E w \in Workers : ReturnError(w) \/ Acknowledge(w)
           \/ \E d \in Docs : RetentionEnds(d)
    PROVE  Held'
  <1>1. doc' = doc /\ opened' = opened /\ produced' = produced /\ req' = req
    BY DEF StartTask, ReturnError, Acknowledge, RetentionEnds, history
  <1>2. CASE \E w \in Workers, d \in Docs : StartTask(w, d)
    <2>1. PICK w \in Workers, d \in Docs : StartTask(w, d)
      BY <1>2
    <2>2. /\ task'[d].state = "active" /\ \A e \in Docs : e # d => task'[e] = task[e]
          /\ Keeps /\ Docs' = Docs
      BY <2>1, StartTaskDoes
    <2>3. \A e \in Docs : Awaited(e) => Awaited(e)'
      BY <1>1, <2>2, AwaitedKept
    <2>. QED  BY <1>1, <2>2, <2>3, HeldInPlace
  <1>3. CASE \E w \in Workers : ReturnError(w)
    <2>1. PICK w \in Workers : ReturnError(w)
      BY <1>3
    <2>2. PICK d \in Docs : d = job[w].on
      BY <2>1, ReturnErrorDoes, AtWork
    <2>3. /\ task'[d].state \in {"waiting", "archived"}
          /\ \A e \in Docs : e # d => task'[e] = task[e]
          /\ doc[d].status \in {"pending", "in_progress"} /\ task'[d].state = "archived"
                => "unsaved" \in excuse'[d]
          /\ Keeps /\ Docs' = Docs
      BY <2>1, <2>2, ReturnErrorDoes
    <2>4. \A e \in Docs : e # d /\ Awaited(e) => Awaited(e)'
      BY <1>1, <2>3, AwaitedKept
    <2>5. doc[d].status \notin {"pending", "in_progress"} \/ Awaited(d)'
      BY <2>3 DEF Awaited
    <2>6. \A e \in Docs : \/ doc[e].status \notin {"pending", "in_progress"}
                          \/ Awaited(e) => Awaited(e)'
      BY <2>4, <2>5
    <2>. QED  BY <1>1, <2>3, <2>6, HeldInPlace
  <1>4. CASE \E w \in Workers : Acknowledge(w)
    <2>1. PICK w \in Workers : Acknowledge(w)
      BY <1>4
    <2>2. PICK d \in Docs : d = job[w].on
      BY <2>1, AcknowledgeDoes, AtWork
    <2>3. /\ \A e \in Docs : e # d => task'[e] = task[e]
          /\ doc[d].status = "completed" \/ "stale" \in excuse[d]
          /\ Keeps /\ Docs' = Docs
      BY <2>1, <2>2, AcknowledgeDoes
    <2>4. \A e \in Docs : e # d /\ Awaited(e) => Awaited(e)'
      BY <1>1, <2>3, AwaitedKept
    <2>5. doc[d].status \notin {"pending", "in_progress"} \/ Awaited(d)'
      <3>1. "stale" \in excuse[d] => "stale" \in excuse'[d]
        BY <2>3 DEF Keeps
      <3>. QED  BY <2>3, <3>1 DEF Awaited
    <2>6. \A e \in Docs : \/ doc[e].status \notin {"pending", "in_progress"}
                          \/ Awaited(e) => Awaited(e)'
      BY <2>4, <2>5
    <2>. QED  BY <1>1, <2>3, <2>6, HeldInPlace
  <1>5. CASE \E d \in Docs : RetentionEnds(d)
    <2>1. PICK d \in Docs : RetentionEnds(d)
      BY <1>5
    <2>2. /\ task[d].state = "kept" /\ \A e \in Docs : e # d => task'[e] = task[e]
          /\ Keeps /\ Docs' = Docs
      BY <2>1, RetentionEndsDoes
    <2>3. \A e \in Docs : e # d /\ Awaited(e) => Awaited(e)'
      BY <1>1, <2>2, AwaitedKept
    <2>4. Awaited(d) => Awaited(d)'
      BY <1>1, <2>2 DEF Awaited, Keeps
    <2>5. \A e \in Docs : Awaited(e) => Awaited(e)'
      BY <2>3, <2>4
    <2>. QED  BY <1>1, <2>2, <2>5, HeldInPlace
  <1>. QED  BY <1>2, <1>3, <1>4, <1>5

LEMMA CrashHolds ==
    ASSUME Base, Held, Crash
    PROVE  Held'
  <1>1. /\ doc' = doc /\ opened' = opened /\ produced' = produced /\ Keeps /\ Docs' = Docs
        /\ \A c \in Clients :
              /\ req[c].at = "enqueue" => req[c].on \in Docs /\ "orphaned" \in excuse'[req[c].on]
              /\ req[c].at = "supersede" => "forked" \in excuse'[doc[req[c].on].root]
        /\ \A d \in Docs : \/ task'[d] = task[d]
                           \/ /\ task'[d].state \in {"waiting", "archived"}
                              /\ task'[d].state = "archived" => "unsaved" \in excuse'[d]
    BY CrashDoes
  <1>2. \A d \in Docs : Awaited(d) => Awaited(d)'
    <2>1. SUFFICES ASSUME NEW d \in Docs, Awaited(d), task'[d] = task[d]
                   PROVE  Awaited(d)'
      BY <1>1 DEF Awaited
    <2>2. CASE task[d].state \in {"waiting", "active"}
      BY <2>1, <2>2 DEF Awaited
    <2>3. CASE \E c \in Clients : req[c].at = "enqueue" /\ req[c].on = d
      BY <1>1, <2>3 DEF Awaited
    <2>4. CASE excuse[d] \intersect {"orphaned", "unsaved", "stale"} # {}
      <3>1. excuse'[d] \intersect {"orphaned", "unsaved", "stale"} # {}
        BY <1>1, <2>4 DEF Keeps
      <3>. QED  BY <3>1 DEF Awaited
    <2>. QED  BY <2>1, <2>2, <2>3, <2>4 DEF Awaited
  <1>. QED  BY <1>1, <1>2, HeldInPlace

-----------------------------------------------------------------------------
(* The token budget *)

(* The tokens the rows show; nothing here depends on the state. *)

UsedOf(rows) ==
    UNION {{d} \X (1..rows[d].tokens) : d \in {e \in DOMAIN rows : rows[e].status = "completed"}}

\* Rows that show a cost only when they are completed.
Shown(rows) ==
    \A d \in DOMAIN rows : rows[d].tokens \in Nat /\ (rows[d].tokens # 0 => rows[d].status = "completed")

LEMMA UsedIn ==
    ASSUME NEW rows, Shown(rows), NEW x
    PROVE  x \in UsedOf(rows) <=> \E d \in DOMAIN rows : x \in {d} \X (1..rows[d].tokens)
  <1>1. ASSUME NEW d \in DOMAIN rows, x \in {d} \X (1..rows[d].tokens)
        PROVE  rows[d].status = "completed"
    <2>1. PICK t \in Nat : t = rows[d].tokens
      BY DEF Shown
    <2>2. PICK n \in 1..t : TRUE
      BY <1>1, <2>1
    <2>3. t # 0
      BY <2>2
    <2>. QED  BY <2>1, <2>3 DEF Shown
  <1>. QED  BY <1>1 DEF UsedOf

LEMMA UsedIsFinite ==
    ASSUME NEW rows, Shown(rows), IsFiniteSet(DOMAIN rows)
    PROVE  IsFiniteSet(UsedOf(rows)) /\ Cardinality(UsedOf(rows)) \in Nat
  <1>. DEFINE D == {e \in DOMAIN rows : rows[e].status = "completed"}
              f == [d \in D |-> {d} \X (1..rows[d].tokens)]
              S == {{d} \X (1..rows[d].tokens) : d \in D}
  <1>1. IsFiniteSet(D)
    BY FS_Subset
  <1>2. f \in Surjection(D, S)
    BY DEF Surjection
  <1>3. IsFiniteSet(S)
    <2>. HIDE DEF D, f, S
    <2>. QED  BY <1>1, <1>2, FS_Surjection
  <1>4. \A T \in S : IsFiniteSet(T)
    <2>1. ASSUME NEW d \in D
          PROVE  IsFiniteSet({d} \X (1..rows[d].tokens))
      <3>1. PICK t \in Int : t = rows[d].tokens
        BY DEF Shown
      <3>2. IsFiniteSet({d})
        BY FS_Singleton
      <3>3. IsFiniteSet(1..t)
        BY FS_Interval
      <3>. QED  BY <3>1, <3>2, <3>3, FS_Product
    <2>. QED  BY <2>1
  <1>5. IsFiniteSet(UNION S)
    <2>. HIDE DEF S
    <2>. QED  BY <1>3, <1>4, FS_UNION
  <1>. QED  BY <1>5, FS_CardinalityType DEF UsedOf

\* Rows that show the same show the same tokens.
LEMMA UsedSame ==
    ASSUME NEW old, NEW new, Shown(old), Shown(new), DOMAIN old \subseteq DOMAIN new,
           \A d \in DOMAIN old : new[d].tokens = old[d].tokens,
           \A d \in DOMAIN new \ DOMAIN old : new[d].tokens = 0
    PROVE  UsedOf(new) = UsedOf(old)
  <1>1. ASSUME NEW x
        PROVE  (\E d \in DOMAIN new : x \in {d} \X (1..new[d].tokens))
                  <=> \E d \in DOMAIN old : x \in {d} \X (1..old[d].tokens)
    <2>1. ASSUME NEW d \in DOMAIN new, x \in {d} \X (1..new[d].tokens)
          PROVE  d \in DOMAIN old
      <3>1. 1..0 = {}
        OBVIOUS
      <3>2. new[d].tokens # 0
        BY <2>1, <3>1
      <3>. QED  BY <3>2
    <2>. QED  BY <2>1
  <1>2. \A x : x \in UsedOf(new) <=> x \in UsedOf(old)
    BY <1>1, UsedIn
  <1>. QED  BY <1>2

\* One more row shows its cost.
LEMMA UsedMore ==
    ASSUME NEW old, NEW new, Shown(old), Shown(new), IsFiniteSet(DOMAIN old),
           DOMAIN new = DOMAIN old, NEW d \in DOMAIN old, old[d].tokens = 0,
           \A e \in DOMAIN old : e # d => new[e].tokens = old[e].tokens
    PROVE  Cardinality(UsedOf(new)) = Cardinality(UsedOf(old)) + new[d].tokens
  <1>1. PICK n \in Nat : n = new[d].tokens
    BY DEF Shown
  <1>. DEFINE more == {d} \X (1..n)
  <1>2. 1..0 = {}
    OBVIOUS
  <1>3. \A x : x \in UsedOf(old) <=> \E e \in DOMAIN old : e # d /\ x \in {e} \X (1..old[e].tokens)
    BY <1>2, UsedIn
  <1>4. UsedOf(new) = UsedOf(old) \union more
    <2>1. ASSUME NEW x
          PROVE  (\E e \in DOMAIN new : x \in {e} \X (1..new[e].tokens))
                    <=> \/ \E e \in DOMAIN old : e # d /\ x \in {e} \X (1..old[e].tokens)
                        \/ x \in more
      BY <1>1
    <2>2. \A x : x \in UsedOf(new) <=> x \in UsedOf(old) \/ x \in more
      BY <1>3, <2>1, UsedIn
    <2>. QED  BY <2>2
  <1>5. UsedOf(old) \intersect more = {}
    BY <1>3
  <1>6. IsFiniteSet(more) /\ Cardinality(more) = n
    <2>1. IsFiniteSet({d}) /\ Cardinality({d}) = 1
      BY FS_Singleton
    <2>2. IsFiniteSet(1..n) /\ Cardinality(1..n) = IF 1 > n THEN 0 ELSE n - 1 + 1
      <3>1. 1 \in Int /\ n \in Int
        OBVIOUS
      <3>. QED  BY <3>1, FS_Interval
    <2>3. IsFiniteSet(more) /\ Cardinality(more) = Cardinality({d}) * Cardinality(1..n)
      <3>1. PICK S : S = 1..n
        OBVIOUS
      <3>2. IsFiniteSet({d} \X S) /\ Cardinality({d} \X S) = Cardinality({d}) * Cardinality(S)
        BY <2>1, <2>2, <3>1, FS_Product
      <3>. QED  BY <3>1, <3>2
    <2>4. Cardinality(1..n) = n
      BY <1>1, <2>2
    <2>. QED  BY <1>1, <2>1, <2>3, <2>4
  <1>7. IsFiniteSet(UsedOf(old)) /\ Cardinality(UsedOf(old)) \in Nat
    BY UsedIsFinite
  <1>. HIDE DEF more
  <1>8. Cardinality(UsedOf(old) \union more) = Cardinality(UsedOf(old)) + n - Cardinality({})
    BY <1>5, <1>6, <1>7, FS_Union
  <1>9. Cardinality({}) = 0
    BY FS_EmptySet
  <1>. QED  BY <1>1, <1>4, <1>7, <1>8, <1>9

LEMMA RowsShow ==
    ASSUME NEW rows \in Seq(DocRow),
           \A d \in DOMAIN rows : rows[d].tokens # 0 => rows[d].status = "completed"
    PROVE  Shown(rows) /\ IsFiniteSet(DOMAIN rows)
  <1>1. Len(rows) \in Nat /\ DOMAIN rows = 1..Len(rows)
    BY LenProperties
  <1>2. \A d \in DOMAIN rows : rows[d].tokens \in Nat
    <2>1. \A d \in DOMAIN rows : rows[d] \in DocRow
      BY <1>1, ElementOfSeq
    <2>. QED  BY <2>1, RowParts, ChargesAre
  <1>3. IsFiniteSet(DOMAIN rows)
    BY <1>1, FS_Interval
  <1>. QED  BY <1>2, <1>3 DEF Shown

-----------------------------------------------------------------------------
(* The token budget *)

\* The rows show what is used.
LEMMA DocShows ==
    ASSUME Base, Balanced
    PROVE  /\ Shown(doc) /\ IsFiniteSet(DOMAIN doc)
           /\ SumTokensUsedSince = Cardinality(UsedOf(doc)) /\ SumTokensUsedSince \in Nat
  <1>1. Shown(doc) /\ IsFiniteSet(DOMAIN doc)
    BY RowsShow DEF Base, Shapes, Balanced, Recorded, RowRecorded, Docs
  <1>2. SumTokensUsedSince = Cardinality(UsedOf(doc))
    BY DEF SumTokensUsedSince, TokensUsed, UsedOf, Docs
  <1>. QED  BY <1>1, <1>2, UsedIsFinite

LEMMA DocShowsNext ==
    ASSUME Base', \A d \in Docs' : RowRecorded(d)'
    PROVE  Shown(doc') /\ SumTokensUsedSince' = Cardinality(UsedOf(doc'))
  <1>1. Shown(doc')
    BY RowsShow DEF Base, Shapes, RowRecorded, Docs
  <1>. QED  BY <1>1 DEF SumTokensUsedSince, TokensUsed, UsedOf, Docs

\* The rows show the same costs as before, and new ones none.
TokensStay ==
    /\ \A d \in Docs : doc'[d].tokens = doc[d].tokens
    /\ \A d \in Docs' \ Docs : doc'[d].tokens = 0

\* What a worker has charged stays in its hands.
ChargeStays(w) ==
    /\ Charged(w)' <=> Charged(w)
    /\ Charged(w) => job'[w].row.tokens = job[w].row.tokens

LEMMA SumStays ==
    ASSUME Base, Balanced, Base', \A d \in Docs' : RowRecorded(d)', Keeps, TokensStay
    PROVE  SumTokensUsedSince' = SumTokensUsedSince
  <1>1. Shown(doc) /\ SumTokensUsedSince = Cardinality(UsedOf(doc))
    BY DocShows
  <1>2. Shown(doc') /\ SumTokensUsedSince' = Cardinality(UsedOf(doc'))
    BY DocShowsNext
  <1>3. UsedOf(doc') = UsedOf(doc)
    BY <1>1, <1>2, UsedSame DEF TokensStay, Keeps, Docs
  <1>. QED  BY <1>1, <1>2, <1>3

\* What got past the record stays noted.
LEMMA OverspentGrows ==
    ASSUME Next, overspent' = {}
    PROVE  overspent = {}
  BY DEF Next, WorkerStep, GenerateDocs, InsertPending, Enqueue, UpdateDocContent, CreateVersion,
         MarkSuperseded, CreateManualDoc, StartTask, MarkInProgress, GenerateDocumentation,
         OpenChangeRequest, UpdateOrgProgress, MarkCompleted, FailDocGeneration, ReturnError,
         Acknowledge, RetentionEnds, Crash, history

\* A copy tells of its row what it told.
LEMMA CopyStays ==
    ASSUME Base, produced' = produced, TokensStay, NEW c \in Clients, ClientRecorded(c), req'[c] = req[c]
    PROVE  ClientRecorded(c)'
  <1>1. req[c].at \in {"version", "supersede"} => req[c].on \in Docs
    BY DEF Base, ClientOK, CopyOf
  <1>. QED  BY <1>1 DEF ClientRecorded, TokensStay

\* A step that admits, charges and records nothing.
LEMMA BooksKept ==
    ASSUME Base, Balanced, Base', Keeps, produced' = produced, spent' = spent, TokensStay,
           \A c \in Clients : Admitted(c)' => Admitted(c),
           \A d \in Docs' : Scheduled(d)' => d \in Docs /\ Scheduled(d),
           \A w \in Workers : ChargeStays(w),
           \A d \in Docs' : RowRecorded(d)',
           \A c \in Clients : req'[c] = req[c] \/ ClientRecorded(c)',
           \A w \in Workers : job'[w] = job[w] \/ WorkerRecorded(w)'
    PROVE  Balanced'
  <1>1. Alone'
    BY DEF Balanced, Alone
  <1>2. Recorded'
    <2>1. \A c \in Clients : ClientRecorded(c)'
      BY CopyStays DEF Balanced, Recorded
    <2>2. \A w \in Workers : WorkerRecorded(w)'
      BY DEF Balanced, Recorded, WorkerRecorded, Charged
    <2>. QED  BY <2>1, <2>2 DEF Recorded
  <1>3. Owes' => Owes
    BY DEF Owes, Keeps
  <1>4. SumTokensUsedSince' = SumTokensUsedSince
    BY SumStays
  <1>5. Accounts'
    <2>1. \A w \in Workers : Charged(w)' => spent' = SumTokensUsedSince' + job'[w].row.tokens
      BY <1>4 DEF Balanced, Accounts, ChargeStays
    <2>2. (\A w \in Workers : ~Charged(w)') => spent' = SumTokensUsedSince'
      BY <1>4 DEF Balanced, Accounts, ChargeStays
    <2>3. Owes' => SumTokensUsedSince' < Budget
      BY <1>3, <1>4 DEF Balanced, Accounts
    <2>4. Within(SumTokensUsedSince')
      BY <1>4 DEF Balanced, Accounts
    <2>. QED  BY <2>1, <2>2, <2>3, <2>4 DEF Accounts
  <1>. QED  BY <1>1, <1>2, <1>5 DEF Balanced

\* Rows that stay as they are are recorded as before.
LEMMA RowRecordedKept ==
    ASSUME Balanced, produced' = produced, NEW d \in Docs, doc'[d] = doc[d],
           task'[d].state = "waiting" => task[d].state = "waiting"
    PROVE  RowRecorded(d)'
  BY DEF Balanced, Recorded, RowRecorded

\* Who is admitted is alone.
LEMMA GenerateDocsBooks ==
    ASSUME Base, Base', Books, NEW c \in Clients, NEW s \in Scopes, GenerateDocs(c, s), overspent' = {}
    PROVE  Balanced'
  <1>0. Balanced
    <2>1. overspent = {}
      BY DEF GenerateDocs
    <2>. QED  BY <2>1 DEF Books
  <1>1. /\ WithinBudget(SumTokensUsedSince) /\ ~Underway
        /\ req[c].at = "idle"
        /\ doc' = doc /\ task' = task /\ spent' = spent /\ job' = job /\ produced' = produced
    <2>1. overspent' # overspent \union {"unrecorded"} /\ overspent' # overspent \union {"overlap"}
      OBVIOUS
    <2>. QED  BY <2>1 DEF GenerateDocs
  <1>2. req'[c].at = "insert" /\ \A e \in Clients : e # c => req'[e] = req[e]
    BY GenerateDocsDoes
  <1>3. (\A e \in Clients : ~Admitted(e)) /\ (\A d \in Docs : ~Scheduled(d))
    BY <1>1 DEF Underway, Admitted, Scheduled
  <1>4. Docs' = Docs /\ \A d \in Docs : ~Scheduled(d)'
    BY <1>1, <1>3 DEF Docs, Scheduled
  <1>5. \A e \in Clients : e # c => ~Admitted(e)'
    BY <1>2, <1>3 DEF Admitted
  <1>6. Alone'
    BY <1>4, <1>5 DEF Alone
  <1>7. Recorded'
    <2>1. \A d \in Docs' : RowRecorded(d)'
      BY <1>0, <1>1, <1>4 DEF Balanced, Recorded, RowRecorded
    <2>2. \A e \in Clients : ClientRecorded(e)'
      BY <1>0, <1>1, <1>2 DEF Balanced, Recorded, ClientRecorded
    <2>3. \A w \in Workers : WorkerRecorded(w)'
      BY <1>0, <1>1 DEF Balanced, Recorded, WorkerRecorded, Charged
    <2>. QED  BY <2>1, <2>2, <2>3 DEF Recorded
  <1>8. SumTokensUsedSince' = SumTokensUsedSince
    BY <1>1 DEF SumTokensUsedSince, TokensUsed, Docs
  <1>9. Accounts'
    <2>1. \A w \in Workers : (Charged(w)' <=> Charged(w)) /\ job'[w].row.tokens = job[w].row.tokens
      BY <1>1 DEF Charged
    <2>2. SumTokensUsedSince < Budget
      BY <1>1 DEF WithinBudget
    <2>. QED  BY <1>0, <1>1, <1>8, <2>1, <2>2 DEF Balanced, Accounts
  <1>. QED  BY <1>6, <1>7, <1>9 DEF Balanced

LEMMA InsertPendingBooks ==
    ASSUME Base, Balanced, NEW c \in Clients, InsertPending(c)
    PROVE  Balanced'
  <1>1. /\ req[c].at = "insert" /\ req'[c].at = "enqueue"
        /\ \A e \in Clients : e # c => req'[e] = req[e]
        /\ Docs' = 1..Len(doc) + 1 /\ Keeps
        /\ doc'[Len(doc) + 1].tokens = 0 /\ task'[Len(doc) + 1].state = "none"
        /\ \A d \in Docs : doc'[d] = doc[d] /\ task'[d] = task[d]
        /\ produced' = produced /\ spent' = spent /\ job' = job /\ Base'
    BY InsertPendingDoes DEF InsertPending
  <1>2. Docs = 1..Len(doc) /\ Len(doc) \in Nat /\ produced \subseteq Docs
    BY Tables DEF Base, Shapes
  <1>3. PICK n \in Nat : n = Len(doc) + 1
    BY <1>2
  <1>4. \A d \in Docs' : d \in Docs \/ d = n
    BY <1>1, <1>2, <1>3
  <1>5. \A d \in Docs' : RowRecorded(d)'
    <2>1. \A d \in Docs : RowRecorded(d)'
      BY <1>1, RowRecordedKept
    <2>2. RowRecorded(n)'
      BY <1>1, <1>2, <1>3 DEF RowRecorded
    <2>. QED  BY <1>4, <2>1, <2>2
  <1>6. \A d \in Docs' : Scheduled(d)' => d \in Docs /\ Scheduled(d)
    BY <1>1, <1>3, <1>4 DEF Scheduled
  <1>7. \A e \in Clients : Admitted(e)' => Admitted(e)
    BY <1>1 DEF Admitted
  <1>8. \A e \in Clients : req'[e] = req[e] \/ ClientRecorded(e)'
    BY <1>1 DEF ClientRecorded
  <1>9. \A w \in Workers : ChargeStays(w)
    BY <1>1 DEF ChargeStays, Charged
  <1>10. TokensStay
    BY <1>1, <1>3, <1>4 DEF TokensStay
  <1>. QED  BY <1>1, <1>5, <1>6, <1>7, <1>8, <1>9, <1>10, BooksKept

LEMMA CreateManualDocBooks ==
    ASSUME Base, Balanced, NEW s \in Scopes, CreateManualDoc(s)
    PROVE  Balanced'
  <1>1. /\ Docs' = 1..Len(doc) + 1 /\ Keeps
        /\ doc'[Len(doc) + 1].tokens = 0 /\ task'[Len(doc) + 1].state = "none"
        /\ \A d \in Docs : doc'[d] = doc[d] /\ task'[d] = task[d]
        /\ produced' = produced /\ spent' = spent /\ job' = job /\ req' = req
        /\ Base'
    BY CreateManualDocDoes DEF CreateManualDoc
  <1>2. Docs = 1..Len(doc) /\ Len(doc) \in Nat /\ produced \subseteq Docs
    BY Tables DEF Base, Shapes
  <1>3. PICK n \in Nat : n = Len(doc) + 1
    BY <1>2
  <1>4. \A d \in Docs' : d \in Docs \/ d = n
    BY <1>1, <1>2, <1>3
  <1>5. \A d \in Docs' : RowRecorded(d)'
    <2>1. \A d \in Docs : RowRecorded(d)'
      BY <1>1, RowRecordedKept
    <2>2. RowRecorded(n)'
      BY <1>1, <1>2, <1>3 DEF RowRecorded
    <2>. QED  BY <1>4, <2>1, <2>2
  <1>6. \A d \in Docs' : Scheduled(d)' => d \in Docs /\ Scheduled(d)
    BY <1>1, <1>3, <1>4 DEF Scheduled
  <1>7. \A e \in Clients : Admitted(e)' => Admitted(e)
    BY <1>1 DEF Admitted
  <1>8. \A w \in Workers : ChargeStays(w)
    BY <1>1 DEF ChargeStays, Charged
  <1>9. TokensStay
    BY <1>1, <1>3, <1>4 DEF TokensStay
  <1>. QED  BY <1>1, <1>5, <1>6, <1>7, <1>8, <1>9, BooksKept

LEMMA EditBooks ==
    ASSUME Base, Balanced, NEW c \in Clients,
           (\E d \in Docs : UpdateDocContent(c, d)) \/ CreateVersion(c)
    PROVE  Balanced'
  <1>0. Docs = 1..Len(doc) /\ Len(doc) \in Nat /\ produced \subseteq Docs
    BY Tables DEF Base, Shapes
  <1>1. CASE \E d \in Docs : UpdateDocContent(c, d)
    <2>1. PICK d \in Docs : UpdateDocContent(c, d)
      BY <1>1
    <2>2. /\ req[c].at = "idle" /\ req'[c].at = "version"
          /\ req'[c].on = d /\ req'[c].row = doc[d]
          /\ \A e \in Clients : e # c => req'[e] = req[e]
          /\ doc' = doc /\ task' = task /\ spent' = spent /\ job' = job
          /\ produced' = produced /\ excuse' = excuse /\ Base'
      BY <2>1, UpdateDocContentDoes DEF UpdateDocContent, history
    <2>3. Keeps /\ Docs' = Docs
      BY <2>2, RowsStay
    <2>4. \A e \in Docs' : RowRecorded(e)'
      BY <2>2, <2>3, RowRecordedKept
    <2>5. ClientRecorded(c)'
      BY <2>2 DEF Balanced, Recorded, RowRecorded, ClientRecorded
    <2>6. \A e \in Clients : Admitted(e)' => Admitted(e)
      BY <2>2 DEF Admitted
    <2>7. /\ \A e \in Docs' : Scheduled(e)' => e \in Docs /\ Scheduled(e)
          /\ \A w \in Workers : ChargeStays(w)
      BY <2>2, <2>3 DEF Scheduled, ChargeStays, Charged
    <2>8. TokensStay
      BY <2>2, <2>3 DEF TokensStay
    <2>. QED  BY <2>2, <2>3, <2>4, <2>5, <2>6, <2>7, <2>8, BooksKept
  <1>2. CASE CreateVersion(c)
    <2>1. /\ req[c].at = "version" /\ req'[c].at = "supersede" /\ req'[c].on = req[c].on
          /\ req'[c].row.tokens = req[c].row.tokens /\ req'[c].row.status = req[c].row.status
          /\ \A e \in Clients : e # c => req'[e] = req[e]
          /\ Docs' = 1..Len(doc) + 1 /\ Keeps
          /\ doc'[Len(doc) + 1].tokens = 0 /\ task'[Len(doc) + 1].state = "none"
          /\ \A d \in Docs : doc'[d] = doc[d] /\ task'[d] = task[d]
          /\ produced' = produced /\ spent' = spent /\ job' = job /\ Base'
      BY <1>2, CreateVersionDoes DEF CreateVersion
    <2>2. PICK n \in Nat : n = Len(doc) + 1
      BY <1>0
    <2>3. \A d \in Docs' : d \in Docs \/ d = n
      BY <1>0, <2>1, <2>2
    <2>4. \A d \in Docs' : RowRecorded(d)'
      <3>1. \A d \in Docs : RowRecorded(d)'
        BY <2>1, RowRecordedKept
      <3>2. RowRecorded(n)'
        BY <1>0, <2>1, <2>2 DEF RowRecorded
      <3>. QED  BY <2>3, <3>1, <3>2
    <2>5. \A d \in Docs' : Scheduled(d)' => d \in Docs /\ Scheduled(d)
      BY <2>1, <2>2, <2>3 DEF Scheduled
    <2>6. \A e \in Clients : Admitted(e)' => Admitted(e)
      BY <2>1 DEF Admitted
    <2>7. ClientRecorded(c)'
      <3>1. req[c].on \in Docs
        BY <2>1 DEF Base, ClientOK, CopyOf
      <3>. QED  BY <2>1, <3>1 DEF Balanced, Recorded, ClientRecorded
    <2>8. \A w \in Workers : ChargeStays(w)
      BY <2>1 DEF ChargeStays, Charged
    <2>9. TokensStay
      BY <2>1, <2>2, <2>3 DEF TokensStay
    <2>. QED  BY <2>1, <2>4, <2>5, <2>6, <2>7, <2>8, <2>9, BooksKept
  <1>. QED  BY <1>1, <1>2

LEMMA MarkSupersededBooks ==
    ASSUME Base, Balanced, NEW c \in Clients, MarkSuperseded(c), overspent' = {}
    PROVE  Balanced'
  <1>1. PICK on \in Docs : on = req[c].on
    BY MarkSupersededDoes
  <1>2. /\ req[c].at = "supersede" /\ req'[c].at = "idle"
        /\ \A e \in Clients : e # c => req'[e] = req[e]
        /\ Docs' = Docs /\ Keeps
        /\ \A e \in Docs : e # on => doc'[e] = doc[e]
        /\ \/ doc'[on] = req[c].row /\ ~(doc[on].tokens > req[c].row.tokens)
           \/ doc' = doc
        /\ task' = task /\ spent' = spent /\ job' = job /\ produced' = produced /\ Base'
    BY <1>1, MarkSupersededDoes DEF MarkSuperseded
  <1>3. RowRecorded(on)' /\ doc'[on].tokens = doc[on].tokens
    <2>1. CASE doc' = doc
      BY <1>2, <2>1, RowRecordedKept
    <2>2. CASE doc'[on] = req[c].row /\ ~(doc[on].tokens > req[c].row.tokens)
      <3>1. PICK a \in Nat, b \in Nat : a = doc[on].tokens /\ b = req[c].row.tokens
        BY <1>2, <1>1, AtEdit, RowParts, ChargesAre
      <3>2. b # 0 => on \in produced /\ req[c].row.status = "completed" /\ a = b
        BY <1>1, <1>2, <3>1 DEF Balanced, Recorded, ClientRecorded
      <3>3. task[on].state = "waiting" => on \notin produced
        BY <3>1 DEF Balanced, Recorded, RowRecorded
      <3>4. ~(a > b)
        BY <2>2, <3>1
      <3>5. a = b
        BY <3>2, <3>4
      <3>. QED  BY <1>2, <2>2, <3>1, <3>2, <3>3, <3>5 DEF RowRecorded
    <2>. QED  BY <1>2, <2>1, <2>2
  <1>4. \A e \in Docs' : RowRecorded(e)'
    BY <1>2, <1>3, RowRecordedKept
  <1>5. ClientRecorded(c)'
    BY <1>2 DEF ClientRecorded
  <1>6. \A e \in Clients : Admitted(e)' => Admitted(e)
    BY <1>2 DEF Admitted
  <1>7. /\ \A e \in Docs' : Scheduled(e)' => e \in Docs /\ Scheduled(e)
        /\ \A w \in Workers : ChargeStays(w)
    BY <1>2 DEF Scheduled, ChargeStays, Charged
  <1>8. TokensStay
    BY <1>2, <1>3 DEF TokensStay
  <1>. QED  BY <1>2, <1>4, <1>5, <1>6, <1>7, <1>8, BooksKept

LEMMA EnqueueBooks ==
    ASSUME Base, Balanced, NEW c \in Clients, Enqueue(c)
    PROVE  Balanced'
  <1>1. PICK d \in Docs : d = req[c].on
    BY EnqueueDoes
  <1>2. /\ req[c].at = "enqueue" /\ d \notin produced
        /\ req'[c].at = "idle" /\ \A e \in Clients : e # c => req'[e] = req[e]
        /\ doc' = doc /\ Docs' = Docs /\ Keeps
        /\ \A e \in Docs : e # d => task'[e] = task[e]
        /\ task'[d].state = "waiting" \/ task' = task
        /\ spent' = spent /\ job' = job /\ produced' = produced /\ Base'
    BY <1>1, EnqueueDoes DEF Enqueue
  <1>3. \A e \in Docs : RowRecorded(e)'
    <2>1. RowRecorded(d)'
      BY <1>2 DEF Balanced, Recorded, RowRecorded
    <2>. QED  BY <1>2, <2>1, RowRecordedKept
  <1>4. ClientRecorded(c)'
    BY <1>2 DEF ClientRecorded
  <1>5. \A e \in Clients : Admitted(e)' => Admitted(e) /\ e # c
    BY <1>2 DEF Admitted
  <1>6. TokensStay /\ \A w \in Workers : ChargeStays(w)
    BY <1>2 DEF TokensStay, ChargeStays, Charged
  <1>7. CASE task' = task
    <2>1. \A e \in Docs' : Scheduled(e)' => e \in Docs /\ Scheduled(e)
      BY <1>2, <1>7 DEF Scheduled
    <2>. QED  BY <1>2, <1>3, <1>4, <1>5, <1>6, <2>1, BooksKept
  <1>8. CASE task'[d].state = "waiting"
    <2>1. Admitted(c) /\ Owes
      BY <1>2 DEF Admitted, Owes
    <2>2. (\A e \in Docs : ~Scheduled(e)) /\ (\A e \in Clients : e # c => ~Admitted(e))
      BY <2>1 DEF Balanced, Alone
    <2>3. (\A e \in Docs : Scheduled(e)' => e = d) /\ (\A e \in Clients : ~Admitted(e)')
      BY <1>2, <1>5, <2>2 DEF Scheduled
    <2>4. Alone'
      BY <1>2, <2>3 DEF Alone
    <2>5. Recorded'
      <3>1. \A e \in Clients : ClientRecorded(e)'
        BY <1>2, <1>4, <1>6, CopyStays DEF Balanced, Recorded
      <3>2. \A w \in Workers : WorkerRecorded(w)'
        BY <1>2 DEF Balanced, Recorded, WorkerRecorded, Charged
      <3>. QED  BY <1>2, <1>3, <3>1, <3>2 DEF Recorded
    <2>6. Accounts'
      <3>1. SumTokensUsedSince < Budget
        BY <2>1 DEF Balanced, Accounts
      <3>2. SumTokensUsedSince' = SumTokensUsedSince
        BY <1>2 DEF SumTokensUsedSince, TokensUsed, Docs
      <3>3. \A w \in Workers : (Charged(w)' <=> Charged(w)) /\ job'[w].row.tokens = job[w].row.tokens
        BY <1>2 DEF Charged
      <3>. QED  BY <1>2, <3>1, <3>2, <3>3 DEF Balanced, Accounts
    <2>. QED  BY <2>4, <2>5, <2>6 DEF Balanced
  <1>. QED  BY <1>2, <1>7, <1>8

\* Only one worker has a task, and no request is admitted meanwhile.
LEMMA OneWorks ==
    ASSUME Base, Alone, NEW w \in Workers, job[w].at # "idle"
    PROVE  /\ job[w].on \in Docs /\ Scheduled(job[w].on)
           /\ \A v \in Workers : v # w => job[v].at = "idle"
           /\ \A d \in Docs : Scheduled(d) => d = job[w].on
           /\ \A c \in Clients : ~Admitted(c)
  <1>1. job[w].on \in Docs /\ Scheduled(job[w].on)
    BY AtWork DEF Scheduled
  <1>2. \A d \in Docs : Scheduled(d) => d = job[w].on
    BY <1>1 DEF Alone
  <1>3. \A v \in Workers : v # w /\ job[v].at # "idle" =>
           job[v].on \in Docs /\ job[v].on # job[w].on /\ Scheduled(job[v].on)
    BY AtWork DEF Scheduled
  <1>. QED  BY <1>1, <1>2, <1>3 DEF Alone

\* What the worker's steps that charge and record nothing have to show.
LEMMA WorkerKeepsBooks ==
    ASSUME Base, Balanced, NEW w \in Workers, WorkerGoes(w), job[w].at # "ack",
           spent' = spent, produced' = produced,
           job'[w].at \notin {"idle", "ack"}, Charged(w)' <=> Charged(w),
           job'[w].row.tokens = job[w].row.tokens,
           doc'[job[w].on] = doc[job[w].on] \/ doc'[job[w].on].tokens = 0
    PROVE  Balanced'
  <1>1. PICK d \in Docs : d = job[w].on
    BY AtWork DEF WorkerGoes
  <1>2. /\ Keeps /\ Docs' = Docs /\ task' = task /\ req' = req
        /\ job[w].at # "idle" /\ job'[w].on = d
        /\ \A v \in Workers : v # w => job'[v] = job[v]
        /\ \A e \in Docs : e # d => doc'[e] = doc[e]
        /\ Base'
    BY <1>1, SavesDoes DEF WorkerGoes
  <1>3. /\ d \notin produced
        /\ Charged(w) => job[w].row.tokens \in Costs
        /\ ~Charged(w) => job[w].row.tokens = 0
    BY <1>1, <1>2 DEF Balanced, Recorded, WorkerRecorded
  <1>4. WorkerRecorded(w)'
    BY <1>2, <1>3 DEF WorkerRecorded
  <1>5. RowRecorded(d)' /\ doc'[d].tokens = doc[d].tokens
    <2>1. doc[d].tokens = 0
      BY <1>3 DEF Balanced, Recorded, RowRecorded
    <2>. QED  BY <1>1, <1>3, <2>1 DEF RowRecorded
  <1>6. \A e \in Docs' : RowRecorded(e)'
    BY <1>2, <1>5, RowRecordedKept
  <1>7. TokensStay /\ \A v \in Workers : ChargeStays(v)
    BY <1>2, <1>5 DEF TokensStay, ChargeStays, Charged
  <1>8. /\ \A e \in Docs' : Scheduled(e)' => e \in Docs /\ Scheduled(e)
        /\ \A c \in Clients : Admitted(c)' => Admitted(c)
    BY <1>2 DEF Scheduled, Admitted
  <1>. QED  BY <1>2, <1>4, <1>6, <1>7, <1>8, BooksKept

LEMMA WorkingBooks ==
    ASSUME Base, Balanced, NEW w \in Workers,
           MarkInProgress(w) \/ UpdateOrgProgress(w) \/ FailDocGeneration(w)
    PROVE  Balanced'
  <1>1. spent' = spent /\ produced' = produced
    BY DEF MarkInProgress, UpdateOrgProgress, FailDocGeneration
  <1>2. CASE MarkInProgress(w)
    <2>1. /\ WorkerGoes(w) /\ job[w].at = "start" /\ job'[w].at \in {"generate", "error", "fail"}
          /\ job'[w].row.tokens = job[w].row.tokens
          /\ doc'[job[w].on] = doc[job[w].on] \/ doc'[job[w].on].tokens = job[w].row.tokens
      BY <1>2, MarkInProgressDoes
    <2>2. ~Charged(w) /\ ~Charged(w)'
      BY <2>1 DEF Charged
    <2>3. job[w].row.tokens = 0
      BY <2>1, <2>2 DEF Balanced, Recorded, WorkerRecorded
    <2>4. job[w].at # "ack" /\ job'[w].at \notin {"idle", "ack"}
      BY <2>1
    <2>. QED  BY <1>1, <2>1, <2>2, <2>3, <2>4, WorkerKeepsBooks
  <1>3. CASE UpdateOrgProgress(w)
    <2>1. /\ WorkerGoes(w) /\ job[w].at = "progress" /\ job'[w].at = "complete"
          /\ job'[w].row = job[w].row
          /\ doc'[job[w].on] = doc[job[w].on] \/ doc'[job[w].on].tokens = 0
      BY <1>3, UpdateOrgProgressDoes
    <2>2. Charged(w) /\ Charged(w)'
      BY <2>1 DEF Charged
    <2>3. job[w].at # "ack" /\ job'[w].at \notin {"idle", "ack"}
      BY <2>1
    <2>. QED  BY <1>1, <2>1, <2>2, <2>3, WorkerKeepsBooks
  <1>4. CASE FailDocGeneration(w)
    <2>1. /\ WorkerGoes(w) /\ job[w].at = "fail" /\ job'[w].at = "error"
          /\ job'[w].row = job[w].row
          /\ doc'[job[w].on] = doc[job[w].on] \/ doc'[job[w].on].tokens = 0
      BY <1>4, FailDocGenerationDoes
    <2>2. ~Charged(w) /\ ~Charged(w)'
      BY <2>1 DEF Charged
    <2>3. job[w].at # "ack" /\ job'[w].at \notin {"idle", "ack"}
      BY <2>1
    <2>. QED  BY <1>1, <2>1, <2>2, <2>3, WorkerKeepsBooks
  <1>. QED  BY <1>2, <1>3, <1>4

LEMMA OpenChangeRequestBooks ==
    ASSUME Base, Balanced, NEW w \in Workers, OpenChangeRequest(w), overspent' = {}
    PROVE  Balanced'
  <1>1. /\ WorkerGoes(w) /\ job[w].at = "publish" /\ doc' = doc
        /\ job'[w].at = "complete" /\ job'[w].row = job[w].row
        /\ spent' = spent /\ produced' = produced
    BY OpenChangeRequestDoes DEF OpenChangeRequest
  <1>2. Charged(w) /\ Charged(w)'
    BY <1>1 DEF Charged
  <1>3. job[w].at # "ack" /\ job'[w].at \notin {"idle", "ack"}
    BY <1>1
  <1>. QED  BY <1>1, <1>2, <1>3, WorkerKeepsBooks

\* The one generation on its way is charged.
LEMMA GenerateDocumentationBooks ==
    ASSUME Base, Balanced, NEW w \in Workers, GenerateDocumentation(w), overspent' = {}
    PROVE  Balanced'
  <1>1. /\ WorkerGoes(w) /\ job[w].at = "generate" /\ doc' = doc /\ produced' = produced
        /\ \/ \E cost \in Costs :
                 /\ spent' = spent + cost /\ job'[w].at \in {"progress", "publish"}
                 /\ job'[w].row.tokens = cost
           \/ spent' = spent /\ job'[w].at = "fail" /\ job'[w].row = job[w].row
    BY GenerateDocumentationDoes DEF GenerateDocumentation
  <1>2. CASE spent' = spent /\ job'[w].at = "fail" /\ job'[w].row = job[w].row
    <2>1. ~Charged(w) /\ ~Charged(w)'
      BY <1>1, <1>2 DEF Charged
    <2>2. job[w].at # "ack" /\ job'[w].at \notin {"idle", "ack"}
      BY <1>1, <1>2
    <2>. QED  BY <1>1, <1>2, <2>1, <2>2, WorkerKeepsBooks
  <1>3. CASE \E cost \in Costs :
                /\ spent' = spent + cost /\ job'[w].at \in {"progress", "publish"}
                /\ job'[w].row.tokens = cost
    <2>0. PICK cost \in Costs :
             /\ spent' = spent + cost /\ job'[w].at \in {"progress", "publish"}
             /\ job'[w].row.tokens = cost
      BY <1>3
    <2>1. /\ job[w].at # "idle" /\ job'[w].on = job[w].on /\ Docs' = Docs /\ task' = task /\ req' = req
          /\ \A v \in Workers : v # w => job'[v] = job[v]
      BY <1>1 DEF WorkerGoes
    <2>2. (\A v \in Workers : ~Charged(v)) /\ Charged(w)'
      <3>1. \A v \in Workers : v # w => job[v].at = "idle"
        BY <2>1, OneWorks DEF Balanced
      <3>. QED  BY <1>1, <2>0, <2>1, <3>1 DEF Charged
    <2>3. Alone'
      BY <2>1 DEF Balanced, Alone, Admitted, Scheduled
    <2>4. Recorded'
      <3>1. \A d \in Docs' : RowRecorded(d)'
        BY <1>1, <2>1 DEF Balanced, Recorded, RowRecorded
      <3>2. \A c \in Clients : ClientRecorded(c)'
        BY <1>1, <2>1 DEF Balanced, Recorded, ClientRecorded
      <3>3. job[w].on \notin produced
        BY <1>1 DEF Balanced, Recorded, WorkerRecorded
      <3>4. WorkerRecorded(w)'
        BY <1>1, <2>0, <2>1, <2>2, <3>3 DEF WorkerRecorded
      <3>5. \A v \in Workers : v # w => WorkerRecorded(v)'
        BY <1>1, <2>1 DEF Balanced, Recorded, WorkerRecorded, Charged
      <3>. QED  BY <3>1, <3>2, <3>4, <3>5 DEF Recorded
    <2>5. Accounts'
      <3>1. SumTokensUsedSince' = SumTokensUsedSince
        BY <1>1, <2>1 DEF SumTokensUsedSince, TokensUsed
      <3>2. spent = SumTokensUsedSince
        BY <2>2 DEF Balanced, Accounts
      <3>3. Owes' <=> Owes
        BY <1>1, <2>1 DEF Owes, Admitted, Scheduled
      <3>4. \A v \in Workers : Charged(v)' => v = w
        BY <2>1, <2>2 DEF Charged
      <3>5. /\ \A v \in Workers : Charged(v)' => spent' = SumTokensUsedSince' + job'[v].row.tokens
            /\ (\A v \in Workers : ~Charged(v)') => spent' = SumTokensUsedSince'
        BY <2>0, <2>2, <3>1, <3>2, <3>4
      <3>6. (Owes' => SumTokensUsedSince' < Budget) /\ Within(SumTokensUsedSince')
        BY <3>1, <3>3 DEF Balanced, Accounts
      <3>. QED  BY <3>5, <3>6 DEF Accounts
    <2>. QED  BY <2>3, <2>4, <2>5 DEF Balanced
  <1>. QED  BY <1>1, <1>2, <1>3

\* The charge is recorded, and nothing is owed any more.
LEMMA MarkCompletedBooks ==
    ASSUME Base, Balanced, NEW w \in Workers, MarkCompleted(w), overspent' = {}
    PROVE  Balanced'
  <1>1. /\ WorkerGoes(w) /\ job[w].at = "complete" /\ job'[w].row = job[w].row
        /\ job'[w].at = "ack" /\ produced' = produced \union {job[w].on}
        /\ doc'[job[w].on].status = "completed"
        /\ doc'[job[w].on].tokens = job[w].row.tokens
        /\ spent' = spent
    BY MarkCompletedDoes DEF MarkCompleted
  <1>2. PICK d \in Docs : d = job[w].on
    BY <1>1, AtWork DEF WorkerGoes
  <1>3. /\ job[w].at # "idle" /\ job'[w].on = d /\ Docs' = Docs /\ task' = task /\ req' = req
        /\ \A v \in Workers : v # w => job'[v] = job[v]
        /\ \A e \in Docs : e # d => doc'[e] = doc[e]
    BY <1>1, <1>2, SavesDoes DEF WorkerGoes
  <1>4. Charged(w) /\ ~Charged(w)'
    BY <1>1 DEF Charged
  <1>5. d \notin produced /\ job[w].row.tokens \in Costs /\ doc[d].tokens = 0
    BY <1>1, <1>2, <1>3, <1>4 DEF Balanced, Recorded, WorkerRecorded, RowRecorded
  <1>6. /\ Scheduled(d)
        /\ \A v \in Workers : v # w => job[v].at = "idle"
        /\ \A e \in Docs : Scheduled(e) => e = d
        /\ \A c \in Clients : ~Admitted(c)
    BY <1>2, <1>3, OneWorks DEF Balanced
  <1>7. Alone'
    BY <1>3 DEF Balanced, Alone, Admitted, Scheduled
  <1>8. Recorded'
    <2>1. RowRecorded(d)'
      <3>1. task'[d].state = "active"
        BY <1>2, <1>3, AtWork
      <3>. QED  BY <1>1, <1>2, <1>5, <3>1 DEF RowRecorded
    <2>2. \A e \in Docs : e # d => RowRecorded(e)'
      BY <1>1, <1>2, <1>3 DEF Balanced, Recorded, RowRecorded
    <2>3. \A c \in Clients : ClientRecorded(c)'
      <3>1. \A c \in Clients : req[c].at \in {"version", "supersede"} => req[c].on \in Docs
        BY DEF Base, ClientOK, CopyOf
      <3>. QED  BY <1>1, <1>3, <1>5, <3>1 DEF Balanced, Recorded, ClientRecorded
    <2>4. WorkerRecorded(w)'
      BY <1>1, <1>2, <1>3 DEF WorkerRecorded
    <2>5. \A v \in Workers : v # w => WorkerRecorded(v)'
      BY <1>3, <1>6 DEF WorkerRecorded
    <2>. QED  BY <1>3, <2>1, <2>2, <2>3, <2>4, <2>5 DEF Recorded
  <1>9. Accounts'
    <2>1. Shown(doc) /\ IsFiniteSet(DOMAIN doc) /\ SumTokensUsedSince = Cardinality(UsedOf(doc))
          /\ SumTokensUsedSince \in Nat
      BY DocShows
    <2>2. Shown(doc') /\ SumTokensUsedSince' = Cardinality(UsedOf(doc'))
      BY <1>1, <1>8, DocShowsNext DEF Recorded, WorkerGoes
    <2>3. PICK cost \in Costs : cost = job[w].row.tokens
      BY <1>5
    <2>4. SumTokensUsedSince' = SumTokensUsedSince + cost
      <3>1. /\ DOMAIN doc' = DOMAIN doc /\ d \in DOMAIN doc /\ doc'[d].tokens = cost
            /\ \A e \in DOMAIN doc : e # d => doc'[e].tokens = doc[e].tokens
        BY <1>1, <1>2, <1>3, <2>3 DEF Docs
      <3>. QED  BY <1>5, <2>1, <2>2, <3>1, UsedMore
    <2>5. Owes
      BY <1>5, <1>6 DEF Owes
    <2>6. spent = SumTokensUsedSince + cost /\ SumTokensUsedSince < Budget
      BY <1>4, <2>3, <2>5 DEF Balanced, Accounts
    <2>7. ~Owes'
      <3>1. \A c \in Clients : ~Admitted(c)'
        BY <1>3, <1>6 DEF Admitted
      <3>2. \A e \in Docs' : Scheduled(e)' => e \in produced'
        BY <1>1, <1>2, <1>3, <1>6 DEF Scheduled
      <3>. QED  BY <3>1, <3>2 DEF Owes
    <2>8. \A v \in Workers : ~Charged(v)'
      BY <1>3, <1>4, <1>6 DEF Charged
    <2>9. Within(SumTokensUsedSince')
      <3>1. cost \in Nat /\ Budget \in Nat
        BY ChargesAre, BudgetAssumption
      <3>2. SumTokensUsedSince + cost < Budget + cost
        BY <2>1, <2>6, <3>1
      <3>. QED  BY <2>4, <3>2 DEF Within
    <2>. QED  BY <1>1, <2>4, <2>6, <2>7, <2>8, <2>9 DEF Accounts
  <1>. QED  BY <1>7, <1>8, <1>9 DEF Balanced

LEMMA TasksBooks ==
    ASSUME Base, Balanced,
           \/ \E w \in Workers, d \in Docs : StartTask(w, d)
           \/ \E w \in Workers : ReturnError(w) \/ Acknowledge(w)
           \/ \E d \in Docs : RetentionEnds(d)
    PROVE  Balanced'
  <1>0. doc' = doc /\ spent' = spent /\ produced' = produced /\ req' = req
    BY DEF StartTask, ReturnError, Acknowledge, RetentionEnds, history
  <1>1. doc' = doc /\ spent' = spent /\ produced' = produced /\ req' = req /\ TokensStay
    BY <1>0 DEF TokensStay, Docs
  <1>2. \A c \in Clients : Admitted(c)' => Admitted(c)
    BY <1>1 DEF Admitted
  <1>3. CASE \E w \in Workers, d \in Docs : StartTask(w, d)
    <2>1. PICK w \in Workers, d \in Docs : StartTask(w, d)
      BY <1>3
    <2>2. /\ job[w].at = "idle" /\ task[d].state = "waiting" /\ task'[d].state = "active"
          /\ \A e \in Docs : e # d => task'[e] = task[e]
          /\ job'[w].at = "start" /\ job'[w].on = d /\ job'[w].row = doc[d]
          /\ \A v \in Workers : v # w => job'[v] = job[v]
          /\ Keeps /\ Docs' = Docs /\ Base'
      BY <2>1, StartTaskDoes
    <2>3. d \notin produced /\ doc[d].tokens = 0
      BY <2>2 DEF Balanced, Recorded, RowRecorded
    <2>4. WorkerRecorded(w)'
      BY <1>1, <2>2, <2>3 DEF WorkerRecorded, Charged
    <2>5. \A e \in Docs' : RowRecorded(e)'
      <3>1. \A e \in Docs : task'[e].state = "waiting" => task[e].state = "waiting"
        BY <2>2
      <3>. QED  BY <1>1, <2>2, <3>1, RowRecordedKept
    <2>6. \A e \in Docs' : Scheduled(e)' => e \in Docs /\ Scheduled(e)
      BY <2>2 DEF Scheduled
    <2>7. \A v \in Workers : ChargeStays(v)
      BY <2>2 DEF ChargeStays, Charged
    <2>. QED  BY <1>1, <1>2, <2>2, <2>4, <2>5, <2>6, <2>7, BooksKept
  <1>4. CASE \E w \in Workers : ReturnError(w)
    <2>1. PICK w \in Workers : ReturnError(w)
      BY <1>4
    <2>2. PICK d \in Docs : d = job[w].on
      BY <2>1, ReturnErrorDoes, AtWork
    <2>3. /\ job[w].at = "error" /\ job[w].at # "idle"
          /\ \A e \in Docs : e # d => task'[e] = task[e]
          /\ job'[w].at = "idle" /\ \A v \in Workers : v # w => job'[v] = job[v]
          /\ Keeps /\ Docs' = Docs /\ Base'
      BY <2>1, <2>2, ReturnErrorDoes
    <2>4. d \notin produced
      BY <2>2, <2>3 DEF Balanced, Recorded, WorkerRecorded
    <2>5. Scheduled(d)
      BY <2>2, <2>3, AtWork DEF Scheduled
    <2>6. WorkerRecorded(w)'
      BY <2>3 DEF WorkerRecorded
    <2>7. \A e \in Docs' : RowRecorded(e)'
      <3>1. RowRecorded(d)'
        BY <1>1, <2>4 DEF Balanced, Recorded, RowRecorded
      <3>. QED  BY <1>1, <2>3, <3>1, RowRecordedKept
    <2>8. \A e \in Docs' : Scheduled(e)' => e \in Docs /\ Scheduled(e)
      BY <2>3, <2>5 DEF Scheduled
    <2>9. \A v \in Workers : ChargeStays(v)
      BY <2>3 DEF ChargeStays, Charged
    <2>. QED  BY <1>1, <1>2, <2>3, <2>6, <2>7, <2>8, <2>9, BooksKept
  <1>5. CASE \E w \in Workers : Acknowledge(w)
    <2>1. PICK w \in Workers : Acknowledge(w)
      BY <1>5
    <2>2. PICK d \in Docs : d = job[w].on
      BY <2>1, AcknowledgeDoes, AtWork
    <2>3. /\ job[w].at = "ack"
          /\ task'[d].state = "kept" /\ \A e \in Docs : e # d => task'[e] = task[e]
          /\ job'[w].at = "idle" /\ \A v \in Workers : v # w => job'[v] = job[v]
          /\ Keeps /\ Docs' = Docs /\ Base'
      BY <2>1, <2>2, AcknowledgeDoes
    <2>4. WorkerRecorded(w)'
      BY <2>3 DEF WorkerRecorded
    <2>5. \A e \in Docs' : RowRecorded(e)'
      <3>1. \A e \in Docs : task'[e].state = "waiting" => task[e].state = "waiting"
        BY <2>3
      <3>. QED  BY <1>1, <2>3, <3>1, RowRecordedKept
    <2>6. \A e \in Docs' : Scheduled(e)' => e \in Docs /\ Scheduled(e)
      BY <2>3 DEF Scheduled
    <2>7. \A v \in Workers : ChargeStays(v)
      BY <2>3 DEF ChargeStays, Charged
    <2>. QED  BY <1>1, <1>2, <2>3, <2>4, <2>5, <2>6, <2>7, BooksKept
  <1>6. CASE \E d \in Docs : RetentionEnds(d)
    <2>1. PICK d \in Docs : RetentionEnds(d)
      BY <1>6
    <2>2. /\ task'[d].state = "none" /\ \A e \in Docs : e # d => task'[e] = task[e]
          /\ Keeps /\ Docs' = Docs /\ job' = job /\ Base'
      BY <2>1, RetentionEndsDoes DEF RetentionEnds
    <2>3. \A e \in Docs' : RowRecorded(e)'
      <3>1. \A e \in Docs : task'[e].state = "waiting" => task[e].state = "waiting"
        BY <2>2
      <3>. QED  BY <1>1, <2>2, <3>1, RowRecordedKept
    <2>4. \A e \in Docs' : Scheduled(e)' => e \in Docs /\ Scheduled(e)
      BY <2>2 DEF Scheduled
    <2>5. \A v \in Workers : ChargeStays(v)
      BY <2>2 DEF ChargeStays, Charged
    <2>. QED  BY <1>1, <1>2, <2>2, <2>3, <2>4, <2>5, BooksKept
  <1>. QED  BY <1>3, <1>4, <1>5, <1>6

LEMMA CrashBooks ==
    ASSUME Base, Balanced, Crash, overspent' = {}
    PROVE  Balanced'
  <1>1. /\ doc' = doc /\ produced' = produced /\ spent' = spent /\ Keeps /\ Docs' = Docs
        /\ Base' /\ TokensStay
        /\ \A c \in Clients : req'[c].at = "idle"
        /\ \A w \in Workers : job'[w].at = "idle"
        /\ \A d \in Docs :
              \/ task'[d] = task[d]
              \/ /\ \E w \in Workers : job[w].at # "idle" /\ job[w].on = d
                 /\ task[d].state = "active"
    BY CrashDoes DEF Crash, TokensStay, Docs
  <1>2. \A w \in Workers : job[w].at \notin {"publish", "progress", "complete", "ack"}
    <2>1. overspent' # overspent \union {"unrecorded"}
      OBVIOUS
    <2>. QED  BY <2>1 DEF Crash
  <1>3. \A w \in Workers : ChargeStays(w)
    BY <1>1, <1>2 DEF ChargeStays, Charged
  <1>4. \A d \in Docs' : RowRecorded(d)'
    <2>1. TAKE d \in Docs'
    <2>2. CASE task'[d] = task[d]
      BY <1>1, <2>2, RowRecordedKept
    <2>3. CASE \E w \in Workers : job[w].at # "idle" /\ job[w].on = d
      <3>1. d \notin produced
        BY <1>2, <2>3 DEF Balanced, Recorded, WorkerRecorded
      <3>. QED  BY <1>1, <3>1 DEF Balanced, Recorded, RowRecorded
    <2>. QED  BY <1>1, <2>2, <2>3
  <1>5. \A d \in Docs' : Scheduled(d)' => d \in Docs /\ Scheduled(d)
    BY <1>1 DEF Scheduled
  <1>6. \A c \in Clients : (Admitted(c)' => Admitted(c)) /\ ClientRecorded(c)'
    BY <1>1 DEF Admitted, ClientRecorded
  <1>7. \A w \in Workers : WorkerRecorded(w)'
    BY <1>1 DEF WorkerRecorded
  <1>. QED  BY <1>1, <1>3, <1>4, <1>5, <1>6, <1>7, BooksKept

-----------------------------------------------------------------------------
(* The theorems *)

LEMMA InitHolds ==
    ASSUME Init
    PROVE  IInv
  <1>1. /\ doc = <<>> /\ task = <<>> /\ opened = <<>> /\ excuse = <<>> /\ spent = 0
        /\ req = [c \in Clients |-> Idle] /\ job = [w \in Workers |-> Free] /\ produced = {}
    BY DEF Init
  <1>2. Docs = {} /\ Len(doc) = 0
    BY <1>1 DEF Docs
  <1>3. Shapes
    <2>1. /\ doc \in Seq(DocRow) /\ task \in Seq(Tasks) /\ opened \in Seq(Nat)
          /\ excuse \in Seq(SUBSET Excuses)
      BY <1>1, EmptySeq
    <2>2. req \in [Clients -> Request] /\ job \in [Workers -> Work]
      BY <1>1, IdleIs
    <2>. QED  BY <1>1, <1>2, <2>1, <2>2 DEF Shapes
  <1>4. (\A c \in Clients : req[c].at = "idle") /\ (\A w \in Workers : job[w].at = "idle" /\ job[w].on = 0)
    BY <1>1, IdleIs
  <1>5. Base
    BY <1>2, <1>3, <1>4 DEF Base, RowsOK, Apart, ClientOK, WorkerOK
  <1>6. Held
    BY <1>1, <1>2 DEF Held, OneHeadUnlessForked, CompletedIsKeptUnlessStale,
                      OneChangeRequestUnlessAgain, UnfinishedIsScheduledUnlessOrphaned
  <1>7. Balanced
    <2>1. Alone /\ Recorded
      BY <1>2, <1>4 DEF Alone, Recorded, Admitted, ClientRecorded, WorkerRecorded
    <2>2. ~Owes /\ \A w \in Workers : ~Charged(w)
      BY <1>2, <1>4 DEF Owes, Admitted, Charged
    <2>3. SumTokensUsedSince = 0
      <3>1. TokensUsed = {}
        BY <1>2 DEF TokensUsed
      <3>. QED  BY <3>1, FS_EmptySet DEF SumTokensUsedSince
    <2>4. Accounts
      BY <1>1, <2>2, <2>3, BudgetAssumption DEF Accounts, Within
    <2>. QED  BY <2>1, <2>4 DEF Balanced
  <1>. QED  BY <1>5, <1>6, <1>7 DEF IInv, Books

LEMMA StutterHolds ==
    ASSUME IInv, UNCHANGED vars
    PROVE  IInv'
  <1>1. /\ doc' = doc /\ task' = task /\ opened' = opened /\ spent' = spent /\ req' = req /\ job' = job
        /\ produced' = produced /\ excuse' = excuse /\ overspent' = overspent
    BY DEF vars
  <1>2. Base /\ Held /\ Books
    BY DEF IInv
  <1>3. Keeps /\ Docs' = Docs /\ Len(doc') = Len(doc)
    BY <1>1, <1>2, RowsStay
  <1>4. Base'
    <2>1. Shapes'
      <3>1. Shapes
        BY <1>2 DEF Base
      <3>. QED  BY <3>1, <1>1, <1>3 DEF Shapes
    <2>2. Apart'
      BY <1>1, <1>2 DEF Base, Apart
    <2>3. \A e \in Clients : req[e].at = "enqueue" =>
             req[e].on \notin produced /\ task[req[e].on].state = "none"
      BY <1>2 DEF Base, ClientOK
    <2>4. \A v \in Workers : job[v].at # "idle" => task[job[v].on].state = "active"
      BY <1>2 DEF Base, WorkerOK
    <2>. QED  BY <1>1, <1>2, <1>3, <2>1, <2>2, <2>3, <2>4, BaseNext
  <1>5. Held'
    <2>1. \A d \in Docs : Awaited(d) => Awaited(d)'
      BY <1>1 DEF Awaited
    <2>. QED  BY <1>1, <1>2, <1>3, <2>1, HeldInPlace
  <1>6. overspent' = {} => Balanced'
    <2>1. SUFFICES ASSUME overspent = {}
                   PROVE  Balanced'
      BY <1>1
    <2>2. Balanced
      BY <1>2, <2>1 DEF Books
    <2>3. \A d \in Docs' : RowRecorded(d)'
      BY <1>1, <1>3, <2>2 DEF Balanced, Recorded, RowRecorded
    <2>4. \A c \in Clients : Admitted(c)' => Admitted(c)
      BY <1>1 DEF Admitted
    <2>5. \A d \in Docs' : Scheduled(d)' => d \in Docs /\ Scheduled(d)
      BY <1>1, <1>3 DEF Scheduled
    <2>6. TokensStay /\ \A w \in Workers : ChargeStays(w)
      BY <1>1, <1>3 DEF TokensStay, ChargeStays, Charged
    <2>. QED  BY <1>1, <1>2, <1>3, <1>4, <2>2, <2>3, <2>4, <2>5, <2>6, BooksKept
  <1>. QED  BY <1>4, <1>5, <1>6 DEF IInv, Books

LEMMA RequestStepHolds ==
    ASSUME IInv, NEW c \in Clients,
           \/ \E s \in Scopes : GenerateDocs(c, s)
           \/ InsertPending(c) \/ Enqueue(c)
           \/ \E d \in Docs : UpdateDocContent(c, d)
           \/ CreateVersion(c) \/ MarkSuperseded(c),
           overspent' = {} => overspent = {}
    PROVE  IInv'
  <1>1. Base /\ Held /\ Books /\ (overspent' = {} => Balanced)
    BY DEF IInv, Books
  <1>2. CASE \E s \in Scopes : GenerateDocs(c, s)
    <2>1. PICK s \in Scopes : GenerateDocs(c, s)
      BY <1>2
    <2>2. Base' /\ Held'
      BY <1>1, <2>1, GenerateDocsDoes, AskingHolds
    <2>3. Books'
      BY <1>1, <2>1, <2>2, GenerateDocsBooks DEF Books
    <2>. QED  BY <2>2, <2>3 DEF IInv
  <1>3. CASE InsertPending(c)
    BY <1>1, <1>3, InsertPendingDoes, InsertPendingHolds, InsertPendingBooks DEF IInv, Books
  <1>4. CASE Enqueue(c)
    BY <1>1, <1>4, EnqueueDoes, EnqueueHolds, EnqueueBooks DEF IInv, Books
  <1>5. CASE \E d \in Docs : UpdateDocContent(c, d)
    BY <1>1, <1>5, UpdateDocContentDoes, AskingHolds, EditBooks DEF IInv, Books
  <1>6. CASE CreateVersion(c)
    BY <1>1, <1>6, CreateVersionDoes, CreateVersionHolds, EditBooks DEF IInv, Books
  <1>7. CASE MarkSuperseded(c)
    BY <1>1, <1>7, MarkSupersededDoes, MarkSupersededHolds, MarkSupersededBooks DEF IInv, Books
  <1>. QED  BY <1>2, <1>3, <1>4, <1>5, <1>6, <1>7

LEMMA WorkerStepHolds ==
    ASSUME IInv, NEW w \in Workers, WorkerStep(w), overspent' = {} => overspent = {}
    PROVE  IInv'
  <1>1. Base /\ Held /\ Books /\ (overspent' = {} => Balanced)
    BY DEF IInv, Books
  <1>2. CASE \E d \in Docs : StartTask(w, d)
    BY <1>1, <1>2, StartTaskDoes, TasksHold, TasksBooks DEF IInv, Books
  <1>3. CASE MarkInProgress(w) \/ UpdateOrgProgress(w) \/ FailDocGeneration(w)
    <2>1. Base'
      BY <1>1, <1>3, MarkInProgressDoes, UpdateOrgProgressDoes, FailDocGenerationDoes DEF WorkerGoes
    <2>. QED  BY <1>1, <1>3, <2>1, WorkingHolds, WorkingBooks DEF IInv, Books
  <1>4. CASE GenerateDocumentation(w)
    <2>1. Base'
      BY <1>1, <1>4, GenerateDocumentationDoes DEF WorkerGoes
    <2>. QED  BY <1>1, <1>4, <2>1, WorkingHolds, GenerateDocumentationBooks DEF IInv, Books
  <1>5. CASE OpenChangeRequest(w)
    <2>1. Base'
      BY <1>1, <1>5, OpenChangeRequestDoes DEF WorkerGoes
    <2>. QED  BY <1>1, <1>5, <2>1, OpenChangeRequestHolds, OpenChangeRequestBooks DEF IInv, Books
  <1>6. CASE MarkCompleted(w)
    <2>1. Base'
      BY <1>1, <1>6, MarkCompletedDoes DEF WorkerGoes
    <2>. QED  BY <1>1, <1>6, <2>1, MarkCompletedHolds, MarkCompletedBooks DEF IInv, Books
  <1>7. CASE ReturnError(w) \/ Acknowledge(w)
    <2>1. Base'
      BY <1>1, <1>7, ReturnErrorDoes, AcknowledgeDoes
    <2>. QED  BY <1>1, <1>7, <2>1, TasksHold, TasksBooks DEF IInv, Books
  <1>. QED  BY <1>2, <1>3, <1>4, <1>5, <1>6, <1>7 DEF WorkerStep

\* Every step keeps the invariant.
LEMMA NextHolds ==
    ASSUME IInv, [Next]_vars
    PROVE  IInv'
  <1>1. CASE UNCHANGED vars
    BY <1>1, StutterHolds
  <1>2. CASE Next
    <2>1. overspent' = {} => overspent = {}
      BY <1>2, OverspentGrows
    <2>2. Base /\ Held /\ Books /\ (overspent' = {} => Balanced)
      BY <2>1 DEF IInv, Books
    <2>3. CASE \E c \in Clients :
                  \/ \E s \in Scopes : GenerateDocs(c, s)
                  \/ InsertPending(c) \/ Enqueue(c)
                  \/ \E d \in Docs : UpdateDocContent(c, d)
                  \/ CreateVersion(c) \/ MarkSuperseded(c)
      BY <2>1, <2>3, RequestStepHolds
    <2>4. CASE \E s \in Scopes : CreateManualDoc(s)
      BY <2>2, <2>4, CreateManualDocDoes, CreateManualDocHolds, CreateManualDocBooks DEF IInv, Books
    <2>5. CASE \E w \in Workers : WorkerStep(w)
      BY <2>1, <2>5, WorkerStepHolds
    <2>6. CASE \E d \in Docs : RetentionEnds(d)
      BY <2>2, <2>6, RetentionEndsDoes, TasksHold, TasksBooks DEF IInv, Books
    <2>7. CASE Crash
      BY <2>2, <2>7, CrashDoes, CrashHolds, CrashBooks DEF IInv, Books
    <2>. QED  BY <1>2, <2>3, <2>4, <2>5, <2>6, <2>7 DEF Next
  <1>. QED  BY <1>1, <1>2

LEMMA Invariant == Spec => []IInv
  <1>. QED  BY InitHolds, NextHolds, PTL DEF Spec

LEMMA ImpliesTypes ==
    ASSUME IInv
    PROVE  TypeOK
  <1>1. Base /\ Shapes
    BY DEF IInv, Base
  <1>2. \A d \in Docs : /\ doc[d] \in DocRow /\ task[d] \in Tasks
    BY <1>1, Tables
  <1>3. \A d \in Docs : /\ doc[d].status \in Statuses /\ doc[d].tokens \in Costs \cup {0}
                        /\ task[d].state \in TaskStates
    BY <1>2, RowParts, TaskParts DEF Charges
  <1>4. \A d \in Docs : doc[d].superseded = 0 \/ (doc[d].superseded \in d + 1..Len(doc)
                                                  /\ doc[doc[d].superseded].root = doc[d].root)
    BY <1>1 DEF Base, RowsOK, Linked
  <1>5. \A w \in Workers : job[w].at # "idle" => task[job[w].on].state = "active"
    BY <1>1 DEF Base, WorkerOK
  <1>. QED  BY <1>1, <1>3, <1>4, <1>5 DEF TypeOK, TaskStates, Shapes

\* While nothing got past the record, what is charged is recorded or owed.
LEMMA ImpliesBudget ==
    ASSUME IInv
    PROVE  SpentWithinBudget
  <1>1. SUFFICES ASSUME overspent = {}
                 PROVE  Within(spent)
    BY DEF SpentWithinBudget, Within
  <1>2. Base /\ Balanced
    BY <1>1 DEF IInv, Books
  <1>3. CASE \E w \in Workers : Charged(w)
    <2>1. PICK w \in Workers : Charged(w)
      BY <1>3
    <2>2. job[w].at \notin {"idle", "ack"}
      BY <2>1 DEF Charged
    <2>3. /\ job[w].on \in Docs /\ task[job[w].on].state = "active" /\ job[w].on \notin produced
          /\ job[w].row.tokens \in Costs
      BY <1>2, <2>1, <2>2, AtWork DEF Balanced, Recorded, WorkerRecorded
    <2>4. Owes
      BY <2>3 DEF Owes, Scheduled
    <2>5. spent = SumTokensUsedSince + job[w].row.tokens /\ SumTokensUsedSince < Budget
      BY <1>2, <2>1, <2>4 DEF Balanced, Accounts
    <2>6. PICK cost \in Costs : cost = job[w].row.tokens
      BY <2>3
    <2>7. cost \in Nat /\ Budget \in Nat /\ SumTokensUsedSince \in Nat
      BY <1>2, ChargesAre, BudgetAssumption, DocShows
    <2>8. spent < Budget + cost
      BY <2>5, <2>6, <2>7
    <2>. QED  BY <2>8 DEF Within
  <1>4. CASE ~\E w \in Workers : Charged(w)
    BY <1>2, <1>4 DEF Balanced, Accounts
  <1>. QED  BY <1>3, <1>4

(* Rows, tasks and requests are well formed; a version comes after what it  *)
(* replaces, in the same document; and a worker has the task it works on    *)
(* (storage/models.DocGeneration, workers/docs_worker.go).                  *)
THEOREM DocTypes == Spec => []TypeOK
  <1>1. IInv => TypeOK
    BY ImpliesTypes
  <1>. QED  BY <1>1, Invariant, PTL

(* A document shows one version, the last, and a row whose generation was   *)
(* recorded stays completed with its content, unless two edits overlapped   *)
(* or a row was written back from an older read (UpdateDocContent,          *)
(* processDoc).                                                             *)
THEOREM VersionsHold == Spec => []VersionsHoldUnlessStale
  <1>1. IInv => VersionsHoldUnlessStale
    BY DEF IInv, Held, VersionsHoldUnlessStale
  <1>. QED  BY <1>1, Invariant, PTL

(* A generation that is not at its end has a task, and opens one change     *)
(* request however often it is run again, unless its request was refused or *)
(* cut, or its process, a save or the host's answer was after it had opened *)
(* one (GenerateDocs, Handle).                                              *)
THEOREM GenerationEndsOnce == Spec => []GenerationEndsOnceUnlessCut
  <1>1. IInv => GenerationEndsOnceUnlessCut
    BY DEF IInv, Held, GenerationEndsOnceUnlessCut
  <1>. QED  BY <1>1, Invariant, PTL

(* While no two generations are admitted at once and none fails after it    *)
(* was charged, what is charged is within the budget or over it by less     *)
(* than the cost of one generation, whatever each costs (GenerateDocs).     *)
THEOREM BudgetHolds == Spec => []SpentWithinBudget
  <1>1. IInv => SpentWithinBudget
    BY ImpliesBudget
  <1>. QED  BY <1>1, Invariant, PTL

-----------------------------------------------------------------------------
(* The host (Providers).  A login's last position is its verdict, because  *)
(* comments leave it (LastStands); and a walk that has seen one tree only  *)
(* has read its pages so far (WalkInv). *)

CONSTANTS Paths, MaxPages, MaxReviews, MaxPushes, MaxCalls, MaxLost
P == INSTANCE Providers

\* S goes on from a to b.
GoesOn(S, a, b) == \A n \in Nat : a <= n /\ n < b /\ n \in S => n + 1 \in S

\* Induction from a to b, for a set.
LEMMA UpToIn ==
    ASSUME NEW a \in Nat, NEW b \in Nat, NEW S, a \in S, GoesOn(S, a, b)
    PROVE  \A n \in Nat : a <= n /\ n <= b => n \in S
<1> DEFINE bad == {n \in Nat : a <= n /\ n <= b /\ n \notin S}
<1> SUFFICES ASSUME bad # {} PROVE FALSE OBVIOUS
<1>1. PICK k \in bad : \A m \in bad : ~(<<m, k>> \in OpToRel(<, Nat))
  BY WFMin, NatLessThanWellFounded
<1>2. k \in Nat /\ a <= k /\ k <= b /\ k \notin S OBVIOUS
<1>3. k # a BY <1>2
<1>4. k - 1 \in Nat /\ a <= k - 1 /\ k - 1 < b /\ k - 1 <= b BY <1>2, <1>3
<1>5. k - 1 \notin bad
  <2> SUFFICES ASSUME k - 1 \in bad PROVE FALSE OBVIOUS
  <2>1. <<k - 1, k>> \in OpToRel(<, Nat) BY <1>2, <1>4 DEF OpToRel
  <2> QED BY <1>1, <2>1
<1>6. k - 1 \in S BY <1>4, <1>5
<1>7. (k - 1) + 1 \in S BY <1>4, <1>6 DEF GoesOn
<1>8. (k - 1) + 1 = k BY <1>2
<1> QED BY <1>2, <1>7, <1>8

States == {"APPROVED", "CHANGES_REQUESTED", "COMMENTED", "DISMISSED"}
ReviewRow == [login : Logins, state : States, person : People]
Blank == [l \in Logins |-> "none"]

\* f replays the first k reviews of a list.
Replays(f, list, k) == f = [n \in 0..k |-> IF n = 0 THEN Blank ELSE Verdict(f[n - 1], list[n])]

LEMMA ReplayGoesOn ==
    ASSUME NEW list \in Seq(ReviewRow), NEW k \in Nat, NEW g, Replays(g, list, k)
    PROVE  \E f : Replays(f, list, k + 1)
<1> DEFINE f == [n \in 0..k + 1 |-> IF n = k + 1 THEN Verdict(g[k], list[k + 1]) ELSE g[n]]
<1>1. \A n \in 0..k : g[n] = IF n = 0 THEN Blank ELSE Verdict(g[n - 1], list[n]) BY DEF Replays
<1>2. ASSUME NEW n \in 0..k + 1 PROVE f[n] = IF n = 0 THEN Blank ELSE Verdict(f[n - 1], list[n])
  <2>1. CASE n = k + 1
    <3>1. n - 1 = k /\ n # 0 /\ k \in 0..k + 1 /\ k # k + 1 BY <2>1
    <3>2. f[n - 1] = g[k] BY <3>1
    <3> QED BY <2>1, <3>1, <3>2
  <2>2. CASE n # k + 1 /\ n # 0
    <3>1. n \in 0..k /\ n - 1 \in 0..k + 1 /\ n - 1 # k + 1 BY <2>2
    <3>2. f[n - 1] = g[n - 1] /\ f[n] = g[n] BY <3>1
    <3> QED BY <1>1, <2>2, <3>1, <3>2
  <2>3. CASE n = 0
    <3>1. n \in 0..k /\ n # k + 1 BY <2>3
    <3>2. f[n] = g[n] BY <3>1
    <3> QED BY <1>1, <2>3, <3>1, <3>2
  <2> QED BY <2>1, <2>2, <2>3
<1>3. f = [n \in 0..k + 1 |-> f[n]] OBVIOUS
<1> HIDE DEF f
<1>4. f = [n \in 0..k + 1 |-> IF n = 0 THEN Blank ELSE Verdict(f[n - 1], list[n])] BY <1>2, <1>3
<1> QED BY <1>4 DEF Replays

\* There is a replay of every list.
LEMMA ReplayExists ==
    ASSUME NEW list \in Seq(ReviewRow)
    PROVE  \E f : Replays(f, list, Len(list))
<1> DEFINE S == {k \in Nat : \E f : Replays(f, list, k)}
<1>1. 0 \in S
  <2> DEFINE f == [n \in 0..0 |-> Blank]
  <2>1. f = [n \in 0..0 |-> IF n = 0 THEN Blank ELSE Verdict(f[n - 1], list[n])] OBVIOUS
  <2>2. Replays(f, list, 0) BY <2>1 DEF Replays
  <2> QED BY <2>2
<1>2. \A n \in Nat : n \in S => n + 1 \in S BY ReplayGoesOn
<1>3. Len(list) \in Nat OBVIOUS
<1>4. GoesOn(S, 0, Len(list)) BY <1>2 DEF GoesOn
<1>5. 0 \in Nat OBVIOUS
<1> HIDE DEF S
<1>6. \A n \in Nat : 0 <= n /\ n <= Len(list) => n \in S BY <1>1, <1>3, <1>4, <1>5, UpToIn
<1>7. Len(list) \in S BY <1>3, <1>6
<1> QED BY <1>7 DEF S

LEMMA ReplayedIs ==
    ASSUME NEW list \in Seq(ReviewRow)
    PROVE  \E f : Replays(f, list, Len(list)) /\ Replayed(list) = f[Len(list)]
<1> DEFINE f == CHOOSE f : Replays(f, list, Len(list))
<1>1. Replays(f, list, Len(list)) BY ReplayExists
<1>2. Replayed(list) = f[Len(list)] BY DEF Replayed, Replays, Blank
<1> QED BY <1>1, <1>2

Verdicts == {"none", "APPROVED", "CHANGES_REQUESTED"}

\* What the last position of a login in a list is, is its verdict.
LEMMA LastStands ==
    ASSUME NEW list \in Seq(ReviewRow), NEW i \in 1..Len(list), list[i].state = "CHANGES_REQUESTED",
           \A j \in 1..Len(list) : j > i /\ list[j].login = list[i].login => list[j].state = "COMMENTED"
    PROVE  Replayed(list)[list[i].login] = "CHANGES_REQUESTED"
<1>1. PICK f : Replays(f, list, Len(list)) /\ Replayed(list) = f[Len(list)] BY ReplayedIs
<1>2. Len(list) \in Nat OBVIOUS
<1>3. f[0] = Blank /\ \A n \in 1..Len(list) : f[n] = Verdict(f[n - 1], list[n])
  BY <1>1, <1>2 DEF Replays
<1>4. \A n \in 1..Len(list) : list[n] \in ReviewRow OBVIOUS
<1> DEFINE S == {n \in Nat : f[n] \in [Logins -> Verdicts]}
<1>5. \A n \in Nat : 0 <= n /\ n <= Len(list) => n \in S
  <2>1. 0 \in S BY <1>3 DEF Blank, Verdicts
  <2>2. ASSUME NEW n \in Nat, n < Len(list), n \in S PROVE n + 1 \in S
    <3>1. n + 1 \in 1..Len(list) /\ (n + 1) - 1 = n BY <1>2, <2>2
    <3>2. f[n + 1] = Verdict(f[n], list[n + 1]) BY <1>3, <3>1
    <3>3. PICK g, r : g = f[n] /\ r = list[n + 1] OBVIOUS
    <3>4. g \in [Logins -> Verdicts] /\ r.login \in Logins BY <1>4, <2>2, <3>1, <3>3 DEF ReviewRow
    <3>5. Verdict(g, r) \in [Logins -> Verdicts] BY <3>4 DEF Verdict, Verdicts
    <3> QED BY <3>2, <3>3, <3>5
  <2>3. GoesOn(S, 0, Len(list)) BY <2>2 DEF GoesOn
  <2>4. 0 \in Nat OBVIOUS
  <2> HIDE DEF S
  <2> QED BY <1>2, <2>1, <2>3, <2>4, UpToIn
<1>6. PICK l : l = list[i].login OBVIOUS
<1>7. l \in Logins BY <1>4, <1>6 DEF ReviewRow
<1> DEFINE T == {n \in Nat : f[n][l] = "CHANGES_REQUESTED"}
<1>8. \A n \in Nat : i <= n /\ n <= Len(list) => n \in T
  <2>1. i \in T
    <3>1. i - 1 \in Nat /\ i - 1 <= Len(list) /\ 0 <= i - 1 BY <1>2
    <3>2. PICK g, r : g = f[i - 1] /\ r = list[i] OBVIOUS
    <3>3. g \in [Logins -> Verdicts] BY <1>5, <3>1, <3>2
    <3>4. f[i] = Verdict(g, r) BY <1>3, <3>2
    <3>5. Verdict(g, r) = [g EXCEPT ![l] = "CHANGES_REQUESTED"] BY <1>6, <3>2 DEF Verdict
    <3>6. f[i][l] = "CHANGES_REQUESTED" BY <1>7, <3>3, <3>4, <3>5
    <3> QED BY <1>2, <3>6
  <2>2. ASSUME NEW n \in Nat, i <= n, n < Len(list), n \in T PROVE n + 1 \in T
    <3>1. n + 1 \in 1..Len(list) /\ (n + 1) - 1 = n /\ n + 1 > i BY <1>2, <2>2
    <3>2. PICK g, r : g = f[n] /\ r = list[n + 1] OBVIOUS
    <3>3. g \in [Logins -> Verdicts] /\ g[l] = "CHANGES_REQUESTED" BY <1>2, <1>5, <2>2, <3>2
    <3>4. f[n + 1] = Verdict(g, r) BY <1>3, <3>1, <3>2
    <3>5. r.login = l => r.state = "COMMENTED" BY <1>6, <3>1, <3>2
    <3>6. Verdict(g, r)[l] = "CHANGES_REQUESTED" BY <3>3, <3>5 DEF Verdict
    <3> QED BY <3>4, <3>6
  <2>3. GoesOn(T, i, Len(list)) BY <2>2 DEF GoesOn
  <2>4. i \in Nat BY <1>2
  <2> HIDE DEF T
  <2> QED BY <1>2, <2>1, <2>3, <2>4, UpToIn
<1>9. Len(list) \in T BY <1>2, <1>8
<1> QED BY <1>1, <1>6, <1>9

\* The files of tree t up to its page n.
UptoOf(t, n) == {file \in t : Cardinality({f \in t : f <= file}) <= n * PageSize}

ReviewsInv ==
    /\ platform \in {"github", "gitlab"}
    /\ reviews \in Seq(ReviewRow)
    /\ platform = "gitlab" => \A i \in DOMAIN reviews : reviews[i].state # "CHANGES_REQUESTED"

(* What was read of the one tree that was seen are its pages so far. *)
WalkInv ==
    /\ listing \in SUBSET Paths
    /\ walk.at = "walking" =>
          /\ walk.page \in Nat \ {0}
          /\ walk.seen = {} => walk.page = 1 /\ walk.entries = {}
          /\ \A t \in SUBSET Paths : walk.seen = {t} => walk.entries = UptoOf(t, walk.page - 1)
    /\ ListingIsWhole

CallIs(r) ==
    /\ r.at = "sent" => r.person \in People /\ r.state \in {"APPROVED", "CHANGES_REQUESTED"}
    /\ r.at = "answered" =>
          /\ r.code = 204 => r.recorded
          /\ r.code \in {400, 404, 409, 501} => ~r.recorded

CallInv == DOMAIN call = Submitters /\ \A c \in Submitters : CallIs(call[c])

ProviderInv == ReviewsInv /\ WalkInv /\ CallInv

-----------------------------------------------------------------------------
(* Reviews *)

LEMMA ProviderSame ==
    /\ \A login, state, person : P!Review(login, state, person) = Review(login, state, person)
    /\ P!Token = Token /\ P!Logins = Logins
BY DEF P!Review, Review, P!Token, Token, P!Logins, Logins

LEMMA ReviewParts ==
    ASSUME NEW l \in Logins, NEW s \in States, NEW p \in People
    PROVE  /\ Review(l, s, p) \in ReviewRow
           /\ Review(l, s, p).login = l /\ Review(l, s, p).state = s /\ Review(l, s, p).person = p
BY DEF Review, ReviewRow

LEMMA ReviewRecorded ==
    ASSUME ReviewsInv, NEW l \in Logins, NEW p \in People, NEW s \in States \ {"DISMISSED"},
           s = "CHANGES_REQUESTED" => platform = "github",
           reviews' = Append(reviews, Review(l, s, p)), platform' = platform
    PROVE  ReviewsInv'
<1>1. PICK r : r = Review(l, s, p) OBVIOUS
<1>2. r \in ReviewRow /\ r.state = s BY <1>1, ReviewParts
<1>3. reviews \in Seq(ReviewRow) /\ reviews' = Append(reviews, r) BY <1>1 DEF ReviewsInv
<1>4. reviews' \in Seq(ReviewRow) BY <1>2, <1>3
<1>5. ASSUME platform = "gitlab", NEW i \in DOMAIN reviews' PROVE reviews'[i].state # "CHANGES_REQUESTED"
  <2>1. i \in 1..Len(reviews) + 1 /\ Len(reviews) \in Nat BY <1>2, <1>3
  <2>2. CASE i = Len(reviews) + 1
    <3>1. reviews'[i] = r BY <1>2, <1>3, <2>2
    <3>2. s # "CHANGES_REQUESTED" BY <1>5
    <3> QED BY <1>2, <3>1, <3>2
  <2>3. CASE i # Len(reviews) + 1
    <3>1. i \in DOMAIN reviews /\ reviews'[i] = reviews[i] BY <1>2, <1>3, <2>1, <2>3
    <3> QED BY <1>5, <3>1 DEF ReviewsInv
  <2> QED BY <2>2, <2>3
<1> QED BY <1>4, <1>5 DEF ReviewsInv

LEMMA ReviewDismissed ==
    ASSUME ReviewsInv, NEW i \in DOMAIN reviews, platform' = platform,
           reviews' = [reviews EXCEPT ![i] = Review(reviews[i].login, "DISMISSED", reviews[i].person)]
    PROVE  ReviewsInv'
<1>1. PICK r : r = Review(reviews[i].login, "DISMISSED", reviews[i].person) OBVIOUS
<1>2. reviews \in Seq(ReviewRow) BY DEF ReviewsInv
<1>3. reviews[i] \in ReviewRow BY <1>2
<1>4. reviews[i].login \in Logins /\ reviews[i].person \in People /\ "DISMISSED" \in States
  BY <1>3 DEF ReviewRow, States
<1>5. r \in ReviewRow /\ r.state = "DISMISSED" BY <1>1, <1>4, ReviewParts
<1>6. reviews' = [reviews EXCEPT ![i] = r] BY <1>1
<1>7. reviews' \in Seq(ReviewRow) BY <1>2, <1>5, <1>6
<1>8. ASSUME platform = "gitlab", NEW j \in DOMAIN reviews' PROVE reviews'[j].state # "CHANGES_REQUESTED"
  <2>1. j \in DOMAIN reviews /\ reviews'[j] = IF j = i THEN r ELSE reviews[j] BY <1>2, <1>6
  <2> QED BY <1>5, <1>8, <2>1 DEF ReviewsInv
<1> QED BY <1>7, <1>8 DEF ReviewsInv

LEMMA ObjectionsStand ==
    ASSUME ReviewsInv, PageSize \in Nat
    PROVE  ObjectionsAreShown
<1> SUFFICES ASSUME NEW p \in People, NEW i \in DOMAIN reviews,
                    IsLastOf(p, i), reviews[i].state = "CHANGES_REQUESTED",
                    Len(reviews) <= PageSize, ~Displaced(i)
             PROVE  GetChangeRequestReviews.decision = "changes_requested"
  BY DEF ObjectionsAreShown
<1>1. reviews \in Seq(ReviewRow) /\ i \in 1..Len(reviews) BY DEF ReviewsInv
<1>2. platform = "github" BY DEF ReviewsInv
<1>3. ListReviews = reviews BY DEF ListReviews
<1>4. \A j \in 1..Len(reviews) : j > i /\ reviews[j].login = reviews[i].login => reviews[j].state = "COMMENTED"
  BY <1>1 DEF Displaced, Position
<1>5. PICK l, v : l = reviews[i].login /\ v = Replayed(reviews) OBVIOUS
<1>6. v[l] = "CHANGES_REQUESTED" BY <1>1, <1>4, <1>5, LastStands
<1>7. l \in Logins
  <2>1. reviews[i] \in ReviewRow BY <1>1
  <2> QED BY <1>5, <2>1 DEF ReviewRow
<1>8. {m \in Logins : v[m] = "CHANGES_REQUESTED"} # {} BY <1>6, <1>7
<1>9. GitHubReviews.decision = "changes_requested" BY <1>3, <1>5, <1>8 DEF GitHubReviews
<1> QED BY <1>2, <1>9 DEF GetChangeRequestReviews

-----------------------------------------------------------------------------
(* The listing *)

LEMMA SetsSame ==
    /\ \A S : P!IsFiniteSet(S) <=> IsFiniteSet(S)
    /\ \A S : P!Cardinality(S) = Cardinality(S)
<1>1. \A S : P!IsFiniteSet(S) <=> IsFiniteSet(S) BY DEF P!IsFiniteSet, IsFiniteSet
<1>2. \A S : P!Cardinality(S) = Cardinality(S) BY DEF P!Cardinality, Cardinality
<1> QED BY <1>1, <1>2

LEMMA UptoIs == \A n : P!Upto(n) = UptoOf(listing, n)
<1> TAKE n
<1>1. \A file : P!Place(file) = Cardinality({f \in listing : f <= file}) BY SetsSame DEF P!Place
<1> QED BY <1>1 DEF P!Upto, UptoOf

\* What is assumed of the constants.
Sizes == IsFiniteSet(Paths) /\ Paths \subseteq Int /\ PageSize \in Nat \ {0} /\ MaxPages \in Nat \ {0}

LEMMA SizesAre == P!ProviderAssumption <=> Sizes
BY SetsSame DEF P!ProviderAssumption, Sizes

\* How much of a tree is read after page 0, one more page, and the last one.
LEMMA PagesOf ==
    ASSUME Sizes, NEW t \in SUBSET Paths, NEW n \in Nat
    PROVE  /\ UptoOf(t, 0) = {}
           /\ n # 0 => UptoOf(t, n - 1) \subseteq UptoOf(t, n)
           /\ Cardinality(t) <= n * PageSize => UptoOf(t, n) = t
<1>1. IsFiniteSet(t) /\ t \subseteq Int /\ PageSize \in Nat \ {0} BY FS_Subset DEF Sizes
<1> DEFINE before(file) == {f \in t : f <= file}
<1>2. ASSUME NEW file \in t
      PROVE  Cardinality(before(file)) \in Nat /\ Cardinality(before(file)) <= Cardinality(t)
             /\ Cardinality(before(file)) # 0
  <2>1. before(file) \in SUBSET t OBVIOUS
  <2>2. file \in before(file) BY <1>1
  <2> HIDE DEF before
  <2>3. IsFiniteSet(before(file)) /\ Cardinality(before(file)) <= Cardinality(t) BY <1>1, <2>1, FS_Subset
  <2>4. Cardinality(before(file)) \in Nat BY <2>3, FS_CardinalityType
  <2>5. Cardinality(before(file)) # 0 BY <2>2, <2>3, FS_EmptySet
  <2> QED BY <2>3, <2>4, <2>5
<1>3. \A m : UptoOf(t, m) = {file \in t : Cardinality(before(file)) <= m * PageSize} BY DEF UptoOf
<1>4. Cardinality(t) \in Nat BY <1>1, FS_CardinalityType
<1> HIDE DEF before
<1>5. UptoOf(t, 0) = {}
  <2>1. 0 * PageSize = 0 BY <1>1
  <2> QED BY <1>2, <1>3, <2>1
<1>6. ASSUME n # 0 PROVE UptoOf(t, n - 1) \subseteq UptoOf(t, n)
  <2>1. (n - 1) * PageSize <= n * PageSize /\ (n - 1) * PageSize \in Int /\ n * PageSize \in Int
    <3>1. n - 1 \in Int /\ n = (n - 1) + 1 OBVIOUS
    <3>2. n * PageSize = (n - 1) * PageSize + PageSize BY <1>1, <3>1
    <3>3. (n - 1) * PageSize \in Int BY <1>1
    <3> QED BY <1>1, <3>2, <3>3
  <2>2. PICK a, b : a = (n - 1) * PageSize /\ b = n * PageSize OBVIOUS
  <2>3. a \in Int /\ b \in Int /\ a <= b BY <2>1, <2>2
  <2>4. \A x \in Nat : x <= a => x <= b BY <2>3
  <2> QED BY <1>2, <1>3, <2>2, <2>4
<1>7. ASSUME Cardinality(t) <= n * PageSize PROVE UptoOf(t, n) = t
  <2>1. PICK b : b = n * PageSize OBVIOUS
  <2>2. b \in Int BY <1>1, <2>1
  <2>3. \A x \in Nat : x <= Cardinality(t) => x <= b BY <1>4, <1>7, <2>1, <2>2
  <2> QED BY <1>2, <1>3, <2>1, <2>3
<1> QED BY <1>5, <1>6, <1>7

\* The fields of a walk.
LEMMA WalkParts ==
    ASSUME NEW w, NEW at, NEW page, NEW entries, NEW truncated, NEW seen,
           w = P!Walk(at, page, entries, truncated, seen)
    PROVE  w.at = at /\ w.page = page /\ w.entries = entries /\ w.truncated = truncated /\ w.seen = seen
BY DEF P!Walk

\* What is listed after page n, of which the tree of now is one.
LEMMA ReadOne ==
    ASSUME Sizes, WalkInv, walk.at = "walking",
           NEW t \in SUBSET Paths, walk.seen \union {listing} = {t}
    PROVE  t = listing /\ walk.entries \union P!Page(walk.page) = UptoOf(t, walk.page)
<1>1. listing \in walk.seen \union {listing} OBVIOUS
<1>2. t = listing BY <1>1
<1>3. walk.seen = {} \/ walk.seen = {t} BY <1>2
<1>4. walk.page \in Nat \ {0} /\ listing \in SUBSET Paths BY DEF WalkInv
<1>5. PICK n : n = walk.page OBVIOUS
<1>6. n \in Nat /\ n # 0 BY <1>4, <1>5
<1>7. UptoOf(t, n - 1) \subseteq UptoOf(t, n) /\ UptoOf(t, 0) = {} BY <1>6, PagesOf
<1>8. P!Page(n) = UptoOf(t, n) \ UptoOf(t, n - 1) BY <1>2, UptoIs DEF P!Page
<1>9. walk.entries = UptoOf(t, n - 1)
  <2>1. CASE walk.seen = {}
    <3>1. n = 1 /\ walk.entries = {} BY <1>5, <2>1 DEF WalkInv
    <3>2. n - 1 = 0 BY <3>1
    <3> QED BY <1>7, <3>1, <3>2
  <2>2. CASE walk.seen = {t} BY <1>5, <2>2 DEF WalkInv
  <2> QED BY <1>3, <2>1, <2>2
<1> QED BY <1>2, <1>5, <1>7, <1>8, <1>9

\* A listing that is over.
LEMMA ListedHolds ==
    ASSUME NEW page, NEW entries, NEW truncated \in BOOLEAN, NEW seen, listing' \in SUBSET Paths,
           walk' = P!Walk("listed", page, entries, truncated, seen),
           truncated = FALSE => entries \in seen \/ (platform' = "gitlab" /\ \E s, t \in seen : s # t)
    PROVE  WalkInv'
<1>1. walk'.at = "listed" /\ walk'.truncated = truncated /\ walk'.entries = entries /\ walk'.seen = seen
  BY WalkParts
<1>2. ListingIsWhole' BY <1>1 DEF ListingIsWhole
<1> QED BY <1>1, <1>2 DEF WalkInv

\* A walk that begins again, or has ended with nothing.
LEMMA FreshHolds ==
    ASSUME NEW at \in {"walking", "none"}, listing' \in SUBSET Paths,
           walk' = P!Walk(at, 1, {}, FALSE, {})
    PROVE  WalkInv'
<1>1. walk'.at = at /\ walk'.page = 1 /\ walk'.entries = {} /\ walk'.seen = {} BY DEF P!Walk
<1>2. ListingIsWhole' BY <1>1 DEF ListingIsWhole
<1>3. \A t : walk'.seen # {t} BY <1>1
<1>4. \A t \in SUBSET Paths : walk'.seen = {t} => walk'.entries = UptoOf(t, walk'.page - 1)' BY <1>3
<1>5. walk'.page \in Nat \ {0}
  <2>1. 1 \in Nat \ {0} OBVIOUS
  <2> QED BY <1>1, <2>1, Zenon
<1> QED BY <1>1, <1>2, <1>4, <1>5 DEF WalkInv

LEMMA MoreIs == \A n : P!More(n) <=> n * PageSize < Cardinality(listing)
BY SetsSame DEF P!More

\* Nothing more after page n: it is the whole tree.
LEMMA NoMore ==
    ASSUME Sizes, listing \in SUBSET Paths, NEW n \in Nat, ~P!More(n)
    PROVE  P!Upto(n) = listing
<1>1. IsFiniteSet(listing) BY FS_Subset DEF Sizes
<1>2. Cardinality(listing) \in Nat BY <1>1, FS_CardinalityType
<1>3. n * PageSize \in Int BY DEF Sizes
<1>4. Cardinality(listing) <= n * PageSize BY <1>2, <1>3, MoreIs
<1> QED BY <1>4, PagesOf, UptoIs

LEMMA GetTreeHolds == ASSUME Sizes, ReviewsInv, WalkInv, P!GetTree PROVE WalkInv'
<1> DEFINE read == walk.entries \union P!Page(walk.page)
           seen == walk.seen \union {listing}
<1>1. walk.at = "walking" /\ listing' = listing /\ platform' = platform BY DEF P!GetTree
<1>2. walk.page \in Nat \ {0} /\ listing \in SUBSET Paths BY <1>1 DEF WalkInv
<1>3. PICK n : n = walk.page OBVIOUS
<1>4. n \in Nat /\ n # 0 BY <1>2, <1>3
<1>5. walk' = IF platform = "github" THEN P!Walk("listed", n, P!Upto(MaxPages), P!More(MaxPages), seen)
              ELSE IF P!LastPage(n) THEN P!Walk("listed", n, read, FALSE, seen)
              ELSE IF n >= MaxPages THEN P!Walk("listed", n, read, TRUE, seen)
              ELSE P!Walk("walking", n + 1, read, FALSE, seen)
  BY <1>3 DEF P!GetTree
<1>6. \A t \in SUBSET Paths : seen = {t} => t = listing /\ read = UptoOf(t, n) BY <1>1, <1>3, ReadOne
<1>7. listing \in seen OBVIOUS
<1> HIDE DEF read, seen
<1>8. CASE platform = "github"
  <2>1. walk' = P!Walk("listed", n, P!Upto(MaxPages), P!More(MaxPages), seen) BY <1>5, <1>8
  <2>2. P!More(MaxPages) \in BOOLEAN BY DEF P!More
  <2>3. MaxPages \in Nat BY DEF Sizes
  <2>4. P!More(MaxPages) = FALSE => P!Upto(MaxPages) \in seen BY <1>2, <1>7, <2>3, NoMore
  <2> QED BY <1>1, <1>2, <2>1, <2>2, <2>4, ListedHolds
<1>9. CASE platform # "github" /\ P!LastPage(n)
  <2>1. walk' = P!Walk("listed", n, read, FALSE, seen) BY <1>5, <1>9
  <2>2. UptoOf(listing, n) = listing BY <1>2, <1>4, <1>9, NoMore, UptoIs DEF P!LastPage
  <2>3. read \in seen \/ \E s, t \in seen : s # t
    <3>1. CASE seen = {listing}
      <4>1. read = UptoOf(listing, n) BY <1>2, <1>6, <3>1
      <4> QED BY <1>7, <2>2, <4>1
    <3>2. CASE seen # {listing} BY <1>7, <3>2
    <3> QED BY <3>1, <3>2
  <2>4. platform' = "gitlab" BY <1>1, <1>9 DEF ReviewsInv
  <2> QED BY <1>1, <1>2, <2>1, <2>3, <2>4, ListedHolds
<1>10. CASE platform # "github" /\ ~P!LastPage(n) /\ n >= MaxPages
  <2>1. walk' = P!Walk("listed", n, read, TRUE, seen) BY <1>5, <1>10
  <2> QED BY <1>1, <1>2, <2>1, ListedHolds
<1>11. CASE platform # "github" /\ ~P!LastPage(n) /\ ~(n >= MaxPages)
  <2>1. walk' = P!Walk("walking", n + 1, read, FALSE, seen) BY <1>5, <1>11
  <2>2. walk'.at = "walking" /\ walk'.page = n + 1 /\ walk'.entries = read /\ walk'.seen = seen
    BY <2>1 DEF P!Walk
  <2>3. n + 1 \in Nat \ {0} /\ (n + 1) - 1 = n BY <1>4
  <2>4. ListingIsWhole' BY <2>2 DEF ListingIsWhole
  <2>5. \A t \in SUBSET Paths : walk'.seen = {t} => walk'.entries = UptoOf(t, walk'.page - 1)
    BY <1>6, <2>2, <2>3
  <2>6. walk'.seen # {} BY <1>7, <2>2
  <2> QED BY <1>1, <1>2, <2>2, <2>3, <2>4, <2>5, <2>6 DEF WalkInv, UptoOf
<1> QED BY <1>8, <1>9, <1>10, <1>11

-----------------------------------------------------------------------------
(* The calls *)

LEMMA CallParts ==
    ASSUME NEW r, NEW at, NEW person, NEW state, NEW code, NEW recorded,
           r = P!Call(at, person, state, code, recorded)
    PROVE  r.at = at /\ r.person = person /\ r.state = state /\ r.code = code /\ r.recorded = recorded
BY DEF P!Call

LEMMA CallMoves ==
    ASSUME CallInv, NEW c \in Submitters, NEW r, CallIs(r), call' = [call EXCEPT ![c] = r]
    PROVE  CallInv'
<1>1. DOMAIN call' = Submitters /\ \A d \in Submitters : call'[d] = IF d = c THEN r ELSE call[d]
  BY DEF CallInv
<1>2. PICK f : f = call' OBVIOUS
<1>3. \A d \in Submitters : CallIs(f[d]) BY <1>1, <1>2 DEF CallInv
<1> QED BY <1>1, <1>2, <1>3 DEF CallInv, CallIs

LEMMA AnswerHolds ==
    ASSUME CallInv, NEW c \in Submitters, NEW code, NEW recorded \in BOOLEAN, P!Answer(c, code, recorded),
           code = 204 => recorded, code \in {400, 404, 409, 501} => ~recorded
    PROVE  CallInv'
<1>1. PICK r : r = P!Call("answered", call[c].person, call[c].state, code, recorded) OBVIOUS
<1>2. r.at = "answered" /\ r.code = code /\ r.recorded = recorded BY <1>1, CallParts
<1>3. CallIs(r) BY <1>2 DEF CallIs
<1>4. call' = [call EXCEPT ![c] = r] BY <1>1 DEF P!Answer
<1> QED BY <1>3, <1>4, CallMoves

LEMMA Kept ==
    /\ ReviewsInv /\ UNCHANGED <<platform, reviews>> => ReviewsInv'
    /\ WalkInv /\ UNCHANGED <<platform, listing, walk>> => WalkInv'
    /\ CallInv /\ UNCHANGED call => CallInv'
<1>1. ASSUME ReviewsInv, UNCHANGED <<platform, reviews>> PROVE ReviewsInv' BY <1>1 DEF ReviewsInv
<1>2. ASSUME WalkInv, UNCHANGED <<platform, listing, walk>> PROVE WalkInv'
  BY <1>2 DEF WalkInv, ListingIsWhole, UptoOf
<1>3. ASSUME CallInv, UNCHANGED call PROVE CallInv' BY <1>3 DEF CallInv, CallIs
<1> QED BY <1>1, <1>2, <1>3

\* A push leaves what was read.
LEMMA PushHolds ==
    ASSUME WalkInv, listing' \in SUBSET Paths, UNCHANGED <<platform, walk>>
    PROVE  WalkInv'
BY DEF WalkInv, ListingIsWhole, UptoOf

\* The code a caller gets for a host's refusal, whatever it is.
LEMMA RefusalCode ==
    /\ \A err : P!providerError(err) \in {400, 404, 409, 503}
    /\ P!providerError("unavailable") = 503
BY DEF P!providerError

-----------------------------------------------------------------------------
(* The steps *)

LEMMA TreeHolds ==
    ASSUME Sizes, ProviderInv, P!TreeNext
    PROVE  ProviderInv'
<1> USE DEF ProviderInv
<1>1. UNCHANGED <<platform, reviews>> /\ UNCHANGED call
  BY DEF P!TreeNext, P!BeginTree, P!GetTree, P!LoseTree, P!Push
<1>2. ReviewsInv' /\ CallInv' BY <1>1, Kept
<1>3. WalkInv'
  <2>1. CASE P!BeginTree
    <3>1. walk' = P!Walk("walking", 1, {}, FALSE, {}) /\ listing' = listing BY <2>1 DEF P!BeginTree
    <3>2. listing' \in SUBSET Paths BY <3>1 DEF WalkInv
    <3> QED BY <3>1, <3>2, FreshHolds
  <2>2. CASE P!GetTree BY <2>2, GetTreeHolds
  <2>3. CASE P!LoseTree
    <3>1. walk' = P!Walk("none", 1, {}, FALSE, {}) /\ listing' = listing BY <2>3 DEF P!LoseTree, P!NoWalk
    <3>2. listing' \in SUBSET Paths BY <3>1 DEF WalkInv
    <3> QED BY <3>1, <3>2, FreshHolds
  <2>4. ASSUME NEW files \in SUBSET Paths, P!Push(files) PROVE WalkInv'
    <3>1. listing' \in SUBSET Paths /\ UNCHANGED <<platform, walk>> BY <2>4 DEF P!Push
    <3> QED BY <3>1, PushHolds
  <2> QED BY <2>1, <2>2, <2>3, <2>4 DEF P!TreeNext
<1> QED BY <1>2, <1>3

LEMMA ReviewAtHostHolds ==
    ASSUME ProviderInv, NEW p \in People, NEW s \in {"APPROVED", "CHANGES_REQUESTED", "COMMENTED"},
           P!ReviewAtHost(p, s)
    PROVE  ProviderInv'
<1> USE DEF ProviderInv
<1>1. UNCHANGED <<platform, listing, walk>> /\ UNCHANGED call BY DEF P!ReviewAtHost
<1>2. reviews' = Append(reviews, Review(p, s, p)) BY ProviderSame DEF P!ReviewAtHost, P!Record
<1>3. p \in Logins /\ s \in States \ {"DISMISSED"} BY DEF Logins, States
<1>4. s = "CHANGES_REQUESTED" => platform = "github" BY DEF P!ReviewAtHost
<1>5. ReviewsInv' BY <1>1, <1>2, <1>3, <1>4, ReviewRecorded
<1> QED BY <1>1, <1>5, Kept

LEMMA DismissAtHostHolds ==
    ASSUME ProviderInv, NEW i \in DOMAIN reviews, P!DismissAtHost(i)
    PROVE  ProviderInv'
<1> USE DEF ProviderInv
<1>1. UNCHANGED <<platform, listing, walk>> /\ UNCHANGED call BY DEF P!DismissAtHost
<1>2. reviews' = [reviews EXCEPT ![i] = Review(reviews[i].login, "DISMISSED", reviews[i].person)]
  BY ProviderSame DEF P!DismissAtHost
<1>3. ReviewsInv' BY <1>1, <1>2, ReviewDismissed
<1> QED BY <1>1, <1>3, Kept

LEMMA SubmitReviewHolds ==
    ASSUME ProviderInv, NEW c \in Submitters, NEW p \in People, NEW s \in {"APPROVED", "CHANGES_REQUESTED"},
           P!SubmitReview(c, p, s)
    PROVE  ProviderInv'
<1> USE DEF ProviderInv
<1>1. UNCHANGED <<platform, listing, walk>> /\ UNCHANGED <<platform, reviews>> BY DEF P!SubmitReview
<1>2. PICK r : r = P!Call("sent", p, s, 0, FALSE) OBVIOUS
<1>3. r.at = "sent" /\ r.person = p /\ r.state = s BY <1>2 DEF P!Call
<1>4. CallIs(r) BY <1>3 DEF CallIs
<1>5. call' = [call EXCEPT ![c] = r] BY <1>2 DEF P!SubmitReview
<1> QED BY <1>1, <1>4, <1>5, CallMoves, Kept

LEMMA UnsupportedHolds ==
    ASSUME ProviderInv, NEW c \in Submitters, P!Unsupported(c)
    PROVE  ProviderInv'
<1> USE DEF ProviderInv
<1>1. UNCHANGED <<platform, listing, walk>> /\ UNCHANGED <<platform, reviews>> BY DEF P!Unsupported
<1>2. PICK code : code = 501 OBVIOUS
<1>3. P!Answer(c, code, FALSE) BY <1>2 DEF P!Unsupported
<1>4. code # 204 BY <1>2
<1>5. CallInv' BY <1>3, <1>4, AnswerHolds
<1> QED BY <1>1, <1>5, Kept

LEMMA AcceptedHolds ==
    ASSUME ProviderInv, NEW c \in Submitters, P!Accepted(c)
    PROVE  ProviderInv'
<1> USE DEF ProviderInv
<1>1. UNCHANGED <<platform, listing, walk>> BY DEF P!Accepted
<1>2. PICK p, s : p = call[c].person /\ s = call[c].state OBVIOUS
<1>3. call[c].at = "sent" BY DEF P!Accepted, P!Supported
<1>4. p \in People /\ s \in {"APPROVED", "CHANGES_REQUESTED"} BY <1>2, <1>3 DEF CallInv, CallIs
<1>5. reviews' = Append(reviews, Review(Token, s, p)) BY <1>2, ProviderSame DEF P!Accepted, P!Record
<1>6. s = "CHANGES_REQUESTED" => platform = "github" BY <1>2 DEF P!Accepted, P!Supported
<1>7. Token \in Logins /\ s \in States \ {"DISMISSED"} BY <1>4 DEF Logins, States
<1>8. ReviewsInv' BY <1>1, <1>4, <1>5, <1>6, <1>7, ReviewRecorded
<1>9. PICK code : (code = 204 \/ code = P!providerError("unavailable")) /\ P!Answer(c, code, TRUE)
  BY DEF P!Accepted
<1>10. code = 204 \/ code = 503 BY <1>9, RefusalCode
<1>11. code \notin {400, 404, 409, 501} BY <1>10
<1>12. CallInv'
  <2>1. PICK r : r = P!Call("answered", call[c].person, call[c].state, code, TRUE) OBVIOUS
  <2>2. r.at = "answered" /\ r.code = code /\ r.recorded BY <2>1 DEF P!Call
  <2>3. CallIs(r) BY <1>11, <2>2 DEF CallIs
  <2>4. call' = [call EXCEPT ![c] = r] BY <1>9, <2>1 DEF P!Answer
  <2> QED BY <2>3, <2>4, CallMoves
<1> QED BY <1>1, <1>8, <1>12, Kept

LEMMA RefusedHolds ==
    ASSUME ProviderInv, NEW c \in Submitters, NEW status, NEW header, NEW message,
           P!Refused(c, status, header, message)
    PROVE  ProviderInv'
<1> USE DEF ProviderInv
<1>1. UNCHANGED <<platform, listing, walk>> /\ UNCHANGED <<platform, reviews>> BY DEF P!Refused
<1>2. PICK code : code = P!providerError(P!Translate(status, header, message)) OBVIOUS
<1>3. P!Answer(c, code, FALSE) BY <1>2 DEF P!Refused
<1>4. code # 204 BY <1>2, RefusalCode
<1>5. CallInv' BY <1>3, <1>4, AnswerHolds
<1> QED BY <1>1, <1>5, Kept

LEMMA ReviewHolds ==
    ASSUME ProviderInv, P!ReviewNext
    PROVE  ProviderInv'
<1>1. ASSUME NEW c \in Submitters, NEW r \in P!Refusals, P!Refused(c, r[1], r[2], r[3]) PROVE ProviderInv'
  <2>1. PICK status, header, message : status = r[1] /\ header = r[2] /\ message = r[3] OBVIOUS
  <2>2. P!Refused(c, status, header, message) BY <1>1, <2>1
  <2> QED BY <2>2, RefusedHolds
<1> QED BY <1>1, ReviewAtHostHolds, DismissAtHostHolds, SubmitReviewHolds, UnsupportedHolds, AcceptedHolds
        DEF P!ReviewNext

LEMMA PublishHolds ==
    ASSUME ProviderInv, P!PublishNext
    PROVE  ProviderInv'
<1> USE DEF ProviderInv
<1>1. UNCHANGED <<platform, listing, walk>> /\ UNCHANGED <<platform, reviews>> /\ UNCHANGED call
  BY DEF P!PublishNext, P!CreateBranch, P!UpsertFile, P!OpenChangeRequest, P!LosePublish
<1> QED BY <1>1, Kept

LEMMA ProviderBegins == P!Init => ProviderInv
<1> SUFFICES ASSUME P!Init PROVE ProviderInv OBVIOUS
<1>1. platform \in {"github", "gitlab"} /\ listing \in SUBSET Paths /\ reviews = <<>> BY DEF P!Init
<1>2. ReviewsInv BY <1>1 DEF ReviewsInv
<1>3. walk = P!Walk("none", 1, {}, FALSE, {}) BY DEF P!Init, P!NoWalk
<1>4. walk.at = "none" BY <1>3 DEF P!Walk
<1>5. WalkInv BY <1>1, <1>4 DEF WalkInv, ListingIsWhole
<1>6. PICK r : r = P!Call("none", "", "", 0, FALSE) OBVIOUS
<1>7. r.at = "none" BY <1>6 DEF P!Call
<1>8. call = [c \in Submitters |-> r] BY <1>6 DEF P!Init, P!NoCall
<1>9. CallInv BY <1>7, <1>8 DEF CallInv, CallIs
<1> QED BY <1>2, <1>5, <1>9 DEF ProviderInv

LEMMA ProviderGoesOn == ASSUME Sizes, ProviderInv, [P!Next]_P!vars PROVE ProviderInv'
<1>1. CASE P!Next BY <1>1, TreeHolds, ReviewHolds, PublishHolds DEF P!Next
<1>2. CASE UNCHANGED P!vars
  <2>1. UNCHANGED <<platform, listing, walk>> /\ UNCHANGED <<platform, reviews>> /\ UNCHANGED call
    BY <1>2 DEF P!vars
  <2> QED BY <2>1, Kept DEF ProviderInv
<1> QED BY <1>1, <1>2

LEMMA ProviderTrue == ASSUME Sizes, ProviderInv PROVE HostIsToldTruly
<1>1. ListingIsWhole BY DEF ProviderInv, WalkInv
<1>2. ObjectionsAreShown BY ObjectionsStand DEF ProviderInv, Sizes
<1>3. AnswersAreTrue BY DEF ProviderInv, CallInv, CallIs, AnswersAreTrue
<1> QED BY <1>1, <1>2, <1>3 DEF HostIsToldTruly

(* A listing that does not say it was cut is whole, unless the branch      *)
(* moved; whoever last asked for changes blocks the decision that is       *)
(* shown; and no answer says of a verdict what the host does not have: for *)
(* any number of files, pages, reviews, pushes and lost answers (GetTree,  *)
(* GetChangeRequestReviews, submitReview). *)
THEOREM HostIsToldTheTruth ==
    ASSUME P!ProviderAssumption
    PROVE  P!Spec => []HostIsToldTruly
<1>1. Sizes BY SizesAre
<1>2. P!Init => ProviderInv BY ProviderBegins
<1>3. ProviderInv /\ [P!Next]_P!vars => ProviderInv' BY <1>1, ProviderGoesOn
<1>4. ProviderInv => HostIsToldTruly BY <1>1, ProviderTrue
<1> QED BY <1>2, <1>3, <1>4, PTL DEF P!Spec

=============================================================================

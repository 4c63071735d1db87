--------------------- MODULE ArchitectureReconcile_proofs ---------------------
(* Theorems about ArchitectureReconcile, for any organization and any failures. *)
EXTENDS ArchitectureReconcile, ViewTables, FiniteSetTheorems, TLAPS

-----------------------------------------------------------------------------
(* Type correctness *)

LEMMA IdleValues ==
    /\ IdleSync \in [at : {"idle", "extract", "store", "enqueue"},
                     repo : Repos, sha : Shas, got : Fact \cup {NoFact}]
    /\ IdleSync.at = "idle"
    /\ IdleRun \in [at : {"idle", "list", "apply", "write", "done"}, started : Nat,
                    todo : SUBSET Edges, complete : BOOLEAN, read : Facts,
                    edge : SUBSET Edges, id : Ids \cup {0}]
    /\ IdleRun.at = "idle" /\ IdleRun.started = 0 /\ IdleRun.todo = {}
    /\ IdleEdit \in [at : {"idle", "save"}, id : Ids \cup {0}, copy : Row \cup {NoRow}]
    /\ IdleEdit.at = "idle"
<1>1. (CHOOSE r \in Repos : TRUE) \in Repos /\ (CHOOSE s \in Shas : TRUE) \in Shas
  BY ConstantsAssumption
<1>2. [r \in Repos |-> NoFact] \in Facts
  BY DEF Facts
<1> QED BY <1>1, <1>2 DEF IdleSync, IdleRun, IdleEdit

LEMMA InitType == Init => TypeOK
<1> SUFFICES ASSUME Init PROVE TypeOK
  OBVIOUS
<1> USE DEF Init
<1>1. fact \in Facts /\ head \in [Repos -> Shas]
  BY DEF Facts
<1>2. \A y \in Syncers : sync[y] = IdleSync
  OBVIOUS
<1>3. \A c \in Clients : edit[c] = IdleEdit
  OBVIOUS
<1>4. sync \in [Syncers -> [at : {"idle", "extract", "store", "enqueue"},
                             repo : Repos, sha : Shas, got : Fact \cup {NoFact}]]
  BY <1>2, IdleValues
<1>5. edit \in [Clients -> [at : {"idle", "save"}, id : Ids \cup {0},
                             copy : Row \cup {NoRow}]]
  BY <1>3, IdleValues
<1>6. runs \in 0..MaxRuns /\ crashes \in 0..MaxCrashes
  BY ConstantsAssumption
<1> QED BY <1>1, <1>2, <1>3, <1>4, <1>5, <1>6, IdleValues DEF TypeOK

LEMMA DeriveType == ASSUME NEW f PROVE Derive(f) \subseteq Edges
  BY DEF Derive

LEMMA FactOfType ==
    ASSUME NEW p \in Payload, NEW s \in Shas, NEW k \in BOOLEAN
    PROVE  FactOf(p, s, k) \in Fact
  BY DEF FactOf, Payload, Fact

LEMMA CommitType ==
    ASSUME TypeOK, NEW r \in Repos, NEW s \in Shas, Commit(r, s) PROVE TypeOK'
  BY DEF TypeOK, Commit

LEMMA SyncType == ASSUME TypeOK, Sync PROVE TypeOK'
<1> PICK y \in Syncers : \/ \E r \in Repos : ReadTree(y, r)
                         \/ Extract(y) \/ StoreFact(y) \/ EnqueueDerivation(y)
  BY DEF Sync
<1>0. sync[y] \in [at : {"idle", "extract", "store", "enqueue"},
                   repo : Repos, sha : Shas, got : Fact \cup {NoFact}]
  BY DEF TypeOK
<1>1. ASSUME NEW r \in Repos, ReadTree(y, r) PROVE TypeOK'
  BY <1>1 DEF ReadTree, TypeOK
<1>2. CASE Extract(y)
  <2>1. CASE sync' = [sync EXCEPT ![y] = IdleSync]
    BY <1>2, <2>1, IdleValues DEF Extract, TypeOK
  <2>2. ASSUME NEW f \in Fact, sync' = [sync EXCEPT ![y].at = "store", ![y].got = f]
        PROVE TypeOK'
    BY <1>0, <1>2, <2>2, ConstantsAssumption, ZenonT(60) DEF Extract, TypeOK
  <2>3. \/ sync' = [sync EXCEPT ![y] = IdleSync]
        \/ \E f \in Fact : sync' = [sync EXCEPT ![y].at = "store", ![y].got = f]
    <3>1. \A r \in Repos, s \in Shas : ReadsOf(r, s) \subseteq Payload
      BY DEF ReadsOf
    <3>2. \A p \in Payload : PartOf(p) \subseteq Payload
      BY DEF PartOf
    <3> QED BY <1>0, <1>2, <3>1, <3>2, FactOfType DEF Extract
  <2> QED BY <2>1, <2>2, <2>3
<1>3. CASE StoreFact(y)
  <2>1. CASE sync' = [sync EXCEPT ![y] = IdleSync] /\ UNCHANGED fact
    BY <1>3, <2>1, IdleValues DEF StoreFact, TypeOK
  <2>2. CASE /\ fact' = [fact EXCEPT ![sync[y].repo] = sync[y].got]
             /\ sync' = [sync EXCEPT ![y].at = "enqueue", ![y].got = NoFact]
    BY <1>0, <1>3, <2>2 DEF StoreFact, TypeOK, Facts
  <2> QED BY <1>3, <2>1, <2>2 DEF StoreFact
<1>4. CASE EnqueueDerivation(y)
  BY <1>4, IdleValues DEF EnqueueDerivation, TypeOK
<1> QED BY <1>1, <1>2, <1>3, <1>4

LEMMA ReconcileType == ASSUME TypeOK, Reconcile PROVE TypeOK'
<1>0. /\ run \in [at : {"idle", "list", "apply", "write", "done"}, started : Nat,
                  todo : SUBSET Edges, complete : BOOLEAN, read : Facts,
                  edge : SUBSET Edges, id : Ids \cup {0}]
      /\ rel \in [Ids -> Row \cup {NoRow}]
      /\ clock \in Nat
  BY DEF TypeOK
<1>1. CASE StartRun
  <2>1. clock + 2 \in Nat /\ runs' \in 0..MaxRuns
    BY <1>1, ConstantsAssumption DEF StartRun, TypeOK
  <2>2. run' \in [at : {"idle", "list", "apply", "write", "done"}, started : Nat,
                  todo : SUBSET Edges, complete : BOOLEAN, read : Facts,
                  edge : SUBSET Edges, id : Ids \cup {0}]
    BY <1>1, <2>1, IdleValues DEF StartRun
  <2> QED BY <1>1, <2>1, <2>2 DEF StartRun, TypeOK
<1>2. CASE ListFacts
  <2>1. AllComplete(fact) \in BOOLEAN /\ Derive(fact) \in SUBSET Edges
    BY DeriveType DEF AllComplete
  <2>2. run' \in [at : {"idle", "list", "apply", "write", "done"}, started : Nat,
                  todo : SUBSET Edges, complete : BOOLEAN, read : Facts,
                  edge : SUBSET Edges, id : Ids \cup {0}]
    BY <1>0, <1>2, <2>1 DEF ListFacts, TypeOK
  <2> QED BY <1>2, <2>2 DEF ListFacts, TypeOK
<1>3. ASSUME NEW e \in Edges, UpsertLookup(e) PROVE TypeOK'
  <2>1. run' \in [at : {"idle", "list", "apply", "write", "done"}, started : Nat,
                  todo : SUBSET Edges, complete : BOOLEAN, read : Facts,
                  edge : SUBSET Edges, id : Ids \cup {0}]
    <3>1. ASSUME NEW i \in Ids \cup {0},
                 run' = [run EXCEPT !.at = "write", !.edge = {e}, !.id = i]
          PROVE  run' \in [at : {"idle", "list", "apply", "write", "done"}, started : Nat,
                  todo : SUBSET Edges, complete : BOOLEAN, read : Facts,
                  edge : SUBSET Edges, id : Ids \cup {0}]
      BY <1>0, <3>1
    <3> QED BY <1>3, <3>1 DEF UpsertLookup
  <2>2. run'.id # 0 => rel'[run'.id] # NoRow
    <3>1. CASE \E i \in Ids : Preferred(e, i)
                               /\ run' = [run EXCEPT !.at = "write", !.edge = {e}, !.id = i]
      <4> PICK i \in Ids : Preferred(e, i)
                           /\ run' = [run EXCEPT !.at = "write", !.edge = {e}, !.id = i]
        BY <3>1
      <4>1. rel[i] # NoRow /\ run'.id = i /\ rel' = rel
        BY <1>0, <1>3 DEF UpsertLookup, Preferred, Matches
      <4> QED BY <4>1
    <3>2. CASE run' = [run EXCEPT !.at = "write", !.edge = {e}, !.id = 0]
      BY <1>0, <3>2
    <3> QED BY <1>3, <3>1, <3>2 DEF UpsertLookup
  <2> QED BY <1>3, <2>1, <2>2 DEF UpsertLookup, TypeOK
<1>4. ASSUME NEW e \in Edges, UpsertWrite(e) PROVE TypeOK'
  <2>1. run' \in [at : {"idle", "list", "apply", "write", "done"}, started : Nat,
                  todo : SUBSET Edges, complete : BOOLEAN, read : Facts,
                  edge : SUBSET Edges, id : Ids \cup {0}]
    BY <1>0, <1>4 DEF UpsertWrite
  <2>2. Seen \in Nat
    BY <1>0 DEF Seen
  <2>3. ASSUME NEW i \in Ids, run.id = 0, 
               rel' = [rel EXCEPT ![i] = [edge |-> e, by |-> "deriver", origin |-> "deriver",
                                          text |-> "deriver", live |-> TRUE, seen |-> Seen]]
        PROVE  rel' \in [Ids -> Row \cup {NoRow}]
    BY <1>0, <2>2, <2>3 DEF Row, Authors
  <2>4. ASSUME run.id # 0,
               rel' = [rel EXCEPT ![run.id] =
                         [@ EXCEPT !.text = "deriver", !.live = TRUE, !.seen = Seen]]
        PROVE  rel' \in [Ids -> Row \cup {NoRow}]
    <3>1. rel[run.id] \in Row /\ run.id \in Ids
      BY <1>0, <1>4, <2>4 DEF UpsertWrite, TypeOK
    <3>2. [rel[run.id] EXCEPT !.text = "deriver", !.live = TRUE, !.seen = Seen] \in Row
      BY <3>1, <2>2 DEF Row, Authors
    <3> DEFINE new == [rel[run.id] EXCEPT !.text = "deriver", !.live = TRUE, !.seen = Seen]
    <3>3. rel' = [rel EXCEPT ![run.id] = new]
      BY <2>4
    <3>4. new \in Row
      BY <3>2
    <3>5. rel \in [Ids -> Row \cup {NoRow}]
      BY <1>0
    <3> HIDE DEF new
    <3> QED BY <3>1, <3>3, <3>4, <3>5
  <2>5. rel' \in [Ids -> Row \cup {NoRow}]
    <3>1. CASE run.id = 0
      BY <1>4, <2>3, <3>1 DEF UpsertWrite
    <3>2. CASE run.id # 0
      BY <1>4, <2>4, <3>2 DEF UpsertWrite
    <3> QED BY <3>1, <3>2
  <2>6. run'.at = "apply"
    BY <1>0, <1>4 DEF UpsertWrite
  <2> QED BY <1>4, <2>1, <2>5, <2>6 DEF UpsertWrite, TypeOK
<1>5. CASE FinishEdges
  <2>1. rel' \in [Ids -> Row \cup {NoRow}]
    <3>1. \A i \in Swept : [rel[i] EXCEPT !.live = FALSE] \in Row
      BY <1>0 DEF Swept, Row
    <3> QED BY <1>0, <1>5, <3>1 DEF FinishEdges
  <2>2. run' \in [at : {"idle", "list", "apply", "write", "done"}, started : Nat,
                  todo : SUBSET Edges, complete : BOOLEAN, read : Facts,
                  edge : SUBSET Edges, id : Ids \cup {0}]
    BY <1>0, <1>5 DEF FinishEdges
  <2> QED BY <1>5, <2>1, <2>2 DEF FinishEdges, TypeOK
<1>6. CASE FinishRun
  BY <1>6, IdleValues DEF FinishRun, TypeOK
<1>7. CASE FailRun
  BY <1>7, IdleValues DEF FailRun, TypeOK
<1> QED BY <1>1, <1>2, <1>3, <1>4, <1>5, <1>6, <1>7 DEF Reconcile

\* A row is never removed, so the row of a pending write stays.
LEMMA RowKept ==
    ASSUME TypeOK, run' = run, \A i \in Ids : rel[i] # NoRow => rel'[i] # NoRow
    PROVE  (run.at = "write" /\ run.id # 0 => rel[run.id] # NoRow)'
<1>1. run.id \in Ids \cup {0}
  BY DEF TypeOK
<1> QED BY <1>1 DEF TypeOK

LEMMA PeopleType == ASSUME TypeOK, People PROVE TypeOK'
<1> PICK c \in Clients : \/ \E e \in Edges : CreateRelationship(c, e)
                         \/ \E i \in Ids : UpdateRead(c, i) \/ DeleteRelationship(c, i)
                         \/ UpdateSave(c)
  BY DEF People
<1>0. /\ rel \in [Ids -> Row \cup {NoRow}]
      /\ edit[c] \in [at : {"idle", "save"}, id : Ids \cup {0}, copy : Row \cup {NoRow}]
  BY DEF TypeOK
<1>1. ASSUME NEW e \in Edges, CreateRelationship(c, e) PROVE TypeOK'
  <2>1. rel' \in [Ids -> Row \cup {NoRow}]
    BY <1>0, <1>1 DEF CreateRelationship, Row, Authors
  <2>2. \A i \in Ids : rel[i] # NoRow => rel'[i] # NoRow
    BY <1>0, <1>1 DEF CreateRelationship, Fresh
  <2>3. run' = run
    BY <1>1 DEF CreateRelationship
  <2>4. (run.at = "write" /\ run.id # 0 => rel[run.id] # NoRow)'
    BY <2>2, <2>3, RowKept
  <2> QED BY <1>1, <2>1, <2>4 DEF CreateRelationship, TypeOK
<1>2. ASSUME NEW i \in Ids, UpdateRead(c, i) PROVE TypeOK'
  <2>1. [rel[i] EXCEPT !.by = "person", !.text = "person", !.seen = 0] \in Row
    BY <1>0, <1>2 DEF UpdateRead, Row, Authors
  <2> QED BY <1>2, <2>1 DEF UpdateRead, TypeOK
<1>3. ASSUME NEW i \in Ids, DeleteRelationship(c, i) PROVE TypeOK'
  <2>1. /\ rel' \in [Ids -> Row \cup {NoRow}] /\ rel[i].edge \in Edges
        /\ rel'[i] \in Row
    BY <1>0, <1>3 DEF DeleteRelationship, Row
  <2>2. \A j \in Ids : rel[j] # NoRow => rel'[j] # NoRow
    BY <1>0, <1>3, <2>1, NoRowAssumption DEF DeleteRelationship
  <2>3. run' = run
    BY <1>3 DEF DeleteRelationship
  <2>4. (run.at = "write" /\ run.id # 0 => rel[run.id] # NoRow)'
    BY <2>2, <2>3, RowKept
  <2> QED BY <1>3, <2>1, <2>4 DEF DeleteRelationship, TypeOK
<1>4. CASE UpdateSave(c)
  <2>1. edit[c].id \in Ids /\ edit[c].copy \in Row
    BY <1>4 DEF UpdateSave, TypeOK
  <2>2. \A j \in Ids : rel[j] # NoRow => rel'[j] # NoRow
    BY <1>0, <1>4, <2>1, NoRowAssumption DEF UpdateSave
  <2>3. run' = run
    BY <1>4 DEF UpdateSave
  <2>4. (run.at = "write" /\ run.id # 0 => rel[run.id] # NoRow)'
    BY <2>2, <2>3, RowKept
  <2>5. rel' \in [Ids -> Row \cup {NoRow}]
    BY <1>0, <1>4, <2>1 DEF UpdateSave
  <2>6. \A d \in Clients : edit'[d] = IF d = c THEN IdleEdit ELSE edit[d]
    BY <1>4 DEF UpdateSave, TypeOK
  <2> QED BY <1>4, <2>4, <2>5, <2>6, IdleValues DEF UpdateSave, TypeOK
<1> QED BY <1>1, <1>2, <1>3, <1>4

LEMMA CrashType == ASSUME TypeOK, Crash PROVE TypeOK'
  BY IdleValues, ConstantsAssumption DEF Crash, TypeOK

LEMMA NextType == TypeOK /\ [Next]_vars => TypeOK'
<1> SUFFICES ASSUME TypeOK, [Next]_vars PROVE TypeOK'
  OBVIOUS
<1>1. CASE UNCHANGED vars
  BY <1>1 DEF vars, TypeOK
<1> QED BY <1>1, CommitType, SyncType, ReconcileType, PeopleType, CrashType DEF Next

\* Every state of the graph, the task and the requests has its type.
THEOREM GraphTypes == Spec => []TypeOK
  BY InitType, NextType, PTL DEF Spec

-----------------------------------------------------------------------------
(* One row per derived fact, and the rows of people *)

\* What a person saves was promoted when it was read.
SavesArePromoted == \A c \in Clients : edit[c].at = "save" => edit[c].copy.by = "person"

\* What the lookup found is still all there is to find: only the run inserts
\* derived rows.
LookupHolds ==
    run.at = "write" =>
        \A j \in Ids : Derived(j) /\ rel[j].edge \in run.edge => j = run.id

RowInv == TypeOK /\ OneDerivedRow /\ SavesArePromoted /\ LookupHolds

LEMMA RowInit == Init => RowInv
<1> SUFFICES ASSUME Init PROVE RowInv
  OBVIOUS
<1>1. TypeOK
  BY InitType
<1>2. OneDerivedRow
  BY DEF Init, OneDerivedRow, Derived
<1>3. SavesArePromoted
  BY DEF Init, SavesArePromoted, IdleEdit
<1>4. LookupHolds
  BY DEF Init, LookupHolds, IdleRun
<1> QED BY <1>1, <1>2, <1>3, <1>4 DEF RowInv

\* A step that leaves the rows alone, and the pending write or drops it.
LEMMA RowsUntouched ==
    ASSUME RowInv, TypeOK', rel' = rel, run' = run \/ run'.at # "write",
           edit' = edit \/ \A c \in Clients : edit'[c] = IdleEdit
    PROVE  RowInv'
<1>1. OneDerivedRow'
  BY DEF RowInv, OneDerivedRow, Derived
<1>2. SavesArePromoted'
  BY IdleValues DEF RowInv, SavesArePromoted
<1>3. LookupHolds'
  BY DEF RowInv, LookupHolds, Derived
<1> QED BY <1>1, <1>2, <1>3 DEF RowInv

LEMMA LookupRows ==
    ASSUME RowInv, TypeOK', NEW e \in Edges, UpsertLookup(e) PROVE RowInv'
<1>0. /\ run.at = "apply" /\ rel' = rel /\ edit' = edit
      /\ Derive(fact) \subseteq Edges
  BY DeriveType DEF UpsertLookup
<1>1. OneDerivedRow' /\ SavesArePromoted'
  BY <1>0 DEF RowInv, OneDerivedRow, Derived, SavesArePromoted
<1>2. run'.edge = {e} /\ run'.id \in Ids \cup {0}
  BY DEF UpsertLookup, RowInv, TypeOK
<1>3. ASSUME NEW j \in Ids, Derived(j), rel[j].edge = e PROVE j = run'.id
  <2>1. j \in Matches(e)
    BY <1>3 DEF Matches, Derived
  <2>2. PICK i \in Ids : Preferred(e, i)
                         /\ run' = [run EXCEPT !.at = "write", !.edge = {e}, !.id = i]
    BY <2>1 DEF UpsertLookup
  <2>3. Derived(i) /\ rel[i].edge = e /\ run'.id = i
    BY <2>2 DEF Preferred, Matches, Derived, RowInv, TypeOK
  <2> QED BY <1>3, <2>3 DEF RowInv, OneDerivedRow
<1>4. LookupHolds'
  BY <1>0, <1>2, <1>3 DEF LookupHolds, Derived
<1> QED BY <1>1, <1>4 DEF RowInv

\* How the write changes the table: it inserts the missing row, or marks one
\* without changing whose it is.
LEMMA WriteRows ==
    ASSUME TypeOK, NEW e \in Edges, UpsertWrite(e)
    PROVE  /\ run' = [run EXCEPT !.at = "apply", !.todo = @ \ {e}, !.edge = {}, !.id = 0]
           /\ run.at = "write" /\ run.edge = {e} /\ edit' = edit
           /\ \/ /\ run.id = 0
                 /\ \E i \in Ids :
                      /\ rel[i] = NoRow
                      /\ rel'[i] = [edge |-> e, by |-> "deriver", origin |-> "deriver",
                                    text |-> "deriver", live |-> TRUE, seen |-> Seen]
                      /\ \A j \in Ids \ {i} : rel'[j] = rel[j]
              \/ /\ run.id \in Ids /\ rel[run.id] \in Row
                 /\ rel'[run.id] = [rel[run.id] EXCEPT !.text = "deriver", !.live = TRUE,
                                                       !.seen = Seen]
                 /\ \A j \in Ids \ {run.id} : rel'[j] = rel[j]
<1>1. /\ run' = [run EXCEPT !.at = "apply", !.todo = @ \ {e}, !.edge = {}, !.id = 0]
      /\ run.at = "write" /\ run.edge = {e} /\ edit' = edit
  BY DEF UpsertWrite
<1>2. rel \in [Ids -> Row \cup {NoRow}] /\ run.id \in Ids \cup {0}
  BY DEF TypeOK
<1>3. CASE run.id = 0
  BY <1>1, <1>2, <1>3 DEF UpsertWrite, Fresh
<1>4. CASE run.id # 0
  <2>1. run.id \in Ids /\ rel[run.id] \in Row
    BY <1>1, <1>2, <1>4 DEF TypeOK
  <2>2. rel' = [rel EXCEPT ![run.id] = [@ EXCEPT !.text = "deriver", !.live = TRUE,
                                                 !.seen = Seen]]
    BY <1>4 DEF UpsertWrite
  <2> DEFINE new == [rel[run.id] EXCEPT !.text = "deriver", !.live = TRUE, !.seen = Seen]
  <2>3. rel' = [rel EXCEPT ![run.id] = new]
    BY <2>2
  <2>4. rel'[run.id] = new /\ \A j \in Ids \ {run.id} : rel'[j] = rel[j]
    <3> HIDE DEF new
    <3> QED BY <1>2, <2>1, <2>3
  <2> QED BY <1>1, <2>1, <2>4
<1> QED BY <1>3, <1>4

LEMMA WriteKeepsRows ==
    ASSUME RowInv, TypeOK', NEW e \in Edges, UpsertWrite(e) PROVE RowInv'
<1>0. TypeOK
  BY DEF RowInv
<1>w. /\ run' = [run EXCEPT !.at = "apply", !.todo = @ \ {e}, !.edge = {}, !.id = 0]
      /\ run.at = "write" /\ run.edge = {e} /\ edit' = edit
  BY <1>0, WriteRows
<1>1. SavesArePromoted' /\ LookupHolds'
  <2>1. run'.at = "apply"
    BY <1>0, <1>w DEF TypeOK
  <2> QED BY <1>w, <2>1 DEF RowInv, SavesArePromoted, LookupHolds
<1>2. OneDerivedRow'
  <2>1. ASSUME NEW i \in Ids, run.id = 0, rel[i] = NoRow,
               rel'[i] = [edge |-> e, by |-> "deriver", origin |-> "deriver",
                          text |-> "deriver", live |-> TRUE, seen |-> Seen],
               \A j \in Ids \ {i} : rel'[j] = rel[j]
        PROVE  OneDerivedRow'
    <3>1. \A j \in Ids : Derived(j) => rel[j].edge # e
      BY <1>w, <2>1, ConstantsAssumption DEF RowInv, LookupHolds
    <3> QED BY <2>1, <3>1 DEF RowInv, OneDerivedRow, Derived
  <2>2. ASSUME run.id \in Ids, rel[run.id] \in Row,
               rel'[run.id] = [rel[run.id] EXCEPT !.text = "deriver", !.live = TRUE,
                                                 !.seen = Seen],
               \A j \in Ids \ {run.id} : rel'[j] = rel[j]
        PROVE  OneDerivedRow'
    <3>1. rel'[run.id].edge = rel[run.id].edge /\ rel'[run.id].by = rel[run.id].by
      BY <2>2 DEF Row
    <3>2. \A j \in Ids : Derived(j)' => Derived(j) /\ rel'[j].edge = rel[j].edge
      BY <2>2, <3>1, NoRowAssumption DEF Derived
    <3> QED BY <3>2 DEF RowInv, OneDerivedRow
  <2> QED BY <1>0, <2>1, <2>2, WriteRows
<1> QED BY <1>1, <1>2 DEF RowInv

\* The sweep takes live derived rows off the graph and changes nothing else.
LEMMA SweepRows ==
    ASSUME TypeOK, FinishEdges
    PROVE  /\ run.at = "apply" /\ run' = [run EXCEPT !.at = "done"] /\ edit' = edit
           /\ \A i \in Ids : \/ rel'[i] = rel[i]
                             \/ /\ i \in Swept /\ run.complete /\ rel[i] \in Row
                                /\ rel'[i] = [rel[i] EXCEPT !.live = FALSE]
<1>1. \A i \in Swept : rel[i] \in Row
  BY DEF TypeOK, Swept
<1> QED BY <1>1 DEF FinishEdges

LEMMA SweepKeepsRows == ASSUME RowInv, TypeOK', FinishEdges PROVE RowInv'
<1>1. TypeOK
  BY DEF RowInv
<1>2. /\ run.at = "apply" /\ run' = [run EXCEPT !.at = "done"] /\ edit' = edit
      /\ \A i \in Ids : \/ rel'[i] = rel[i]
                        \/ /\ i \in Swept /\ run.complete /\ rel[i] \in Row
                           /\ rel'[i] = [rel[i] EXCEPT !.live = FALSE]
  BY <1>1, SweepRows
<1>3. \A i \in Ids : Derived(i)' => Derived(i) /\ rel'[i].edge = rel[i].edge
  BY <1>2, NoRowAssumption DEF Derived, Row
<1>4. run'.at = "done"
  BY <1>1, <1>2 DEF TypeOK
<1>5. OneDerivedRow' /\ SavesArePromoted' /\ LookupHolds'
  BY <1>2, <1>3, <1>4 DEF RowInv, OneDerivedRow, SavesArePromoted, LookupHolds
<1> QED BY <1>5 DEF RowInv

\* People insert no derived row and make none of theirs one; what they do to a
\* derived row leaves its edge, its mark and its key, or takes it from the deriver.
LEMMA PeopleRows ==
    ASSUME TypeOK, SavesArePromoted, People
    PROVE  /\ run' = run /\ fact' = fact /\ sync' = sync /\ head' = head
           /\ SavesArePromoted'
           /\ \A i \in Ids : Derived(i)' =>
                 /\ Derived(i) /\ rel'[i].edge = rel[i].edge /\ rel'[i].seen = rel[i].seen
                 /\ Live(i)' => Live(i)
           /\ \A i \in Ids : Human(i) => Human(i)'
<1> PICK c \in Clients : \/ \E e \in Edges : CreateRelationship(c, e)
                         \/ \E i \in Ids : UpdateRead(c, i) \/ DeleteRelationship(c, i)
                         \/ UpdateSave(c)
  BY DEF People
<1>0. /\ rel \in [Ids -> Row \cup {NoRow}]
      /\ edit \in [Clients -> [at : {"idle", "save"}, id : Ids \cup {0},
                                copy : Row \cup {NoRow}]]
  BY DEF TypeOK
<1>r. rel \in [Ids -> Row \cup {NoRow}]
  BY <1>0
<1>1. ASSUME NEW e \in Edges, CreateRelationship(c, e)
      PROVE  \A i \in Ids : \/ rel'[i] = rel[i]
                            \/ rel[i] = NoRow /\ rel'[i].by = "person"
                               /\ rel'[i] # NoRow
  <2>1. PICK i \in Ids :
          /\ Fresh(i)
          /\ rel' = [rel EXCEPT ![i] = [edge |-> e, by |-> "person", origin |-> "person",
                                        text |-> "person", live |-> TRUE, seen |-> 0]]
    BY <1>1 DEF CreateRelationship
  <2>2. /\ rel[i] = NoRow
        /\ rel'[i] = [edge |-> e, by |-> "person", origin |-> "person",
                      text |-> "person", live |-> TRUE, seen |-> 0]
        /\ \A j \in Ids \ {i} : rel'[j] = rel[j]
    BY <1>r, <2>1 DEF Fresh
  <2>3. rel'[i] \in Row /\ rel'[i].by = "person"
    BY <2>2 DEF Row, Authors
  <2>4. \A j \in Ids : j = i \/ rel'[j] = rel[j]
    BY <2>2
  <2>5. rel'[i] # NoRow
    BY <2>3, NoRowAssumption
  <2> QED BY <2>2, <2>3, <2>4, <2>5
<1>2. ASSUME NEW i \in Ids, UpdateRead(c, i)
      PROVE  rel' = rel /\ SavesArePromoted'
  <2>1. rel[i] \in Row
    BY <1>0, <1>2 DEF UpdateRead
  <2>2. [rel[i] EXCEPT !.by = "person", !.text = "person", !.seen = 0].by = "person"
    BY <2>1 DEF Row
  <2> QED BY <1>0, <1>2, <2>2 DEF UpdateRead, SavesArePromoted
<1>3. ASSUME NEW i \in Ids, DeleteRelationship(c, i)
      PROVE  /\ rel[i] \in Row /\ rel' = [rel EXCEPT ![i].live = FALSE]
             /\ edit' = edit
  BY <1>0, <1>3 DEF DeleteRelationship
<1>4. CASE UpdateSave(c)
  <2>1. /\ edit[c].id \in Ids /\ edit[c].copy \in Row /\ edit[c].copy.by = "person"
        /\ rel' = [rel EXCEPT ![edit[c].id] = edit[c].copy]
        /\ edit' = [edit EXCEPT ![c] = IdleEdit]
    BY <1>4 DEF UpdateSave, TypeOK, SavesArePromoted
  <2>2. \A i \in Ids : \/ rel'[i] = rel[i]
                       \/ rel'[i] \in Row /\ rel'[i].by = "person"
    <3> DEFINE copy == edit[c].copy
               id == edit[c].id
    <3>1. rel' = [rel EXCEPT ![id] = copy] /\ id \in Ids /\ copy \in Row /\ copy.by = "person"
      BY <2>1
    <3> HIDE DEF copy, id
    <3>2. rel'[id] = copy /\ \A i \in Ids \ {id} : rel'[i] = rel[i]
      BY <1>r, <3>1
    <3> QED BY <3>1, <3>2
  <2>3. SavesArePromoted'
    BY <1>0, <2>1, IdleValues DEF SavesArePromoted
  <2>4. run' = run /\ fact' = fact /\ sync' = sync /\ head' = head
    BY <1>4 DEF UpdateSave
  <2> QED BY <2>2, <2>3, <2>4, NoRowAssumption DEF Derived, Human, Live
<1>5. ASSUME NEW e \in Edges, CreateRelationship(c, e)
      PROVE  run' = run /\ fact' = fact /\ sync' = sync /\ head' = head /\ edit' = edit
  BY <1>5 DEF CreateRelationship
<1>6. ASSUME NEW i \in Ids, UpdateRead(c, i) \/ DeleteRelationship(c, i)
      PROVE  run' = run /\ fact' = fact /\ sync' = sync /\ head' = head
  BY <1>6 DEF UpdateRead, DeleteRelationship
<1>7. CASE \E e \in Edges : CreateRelationship(c, e)
  BY <1>1, <1>5, <1>7 DEF Derived, Human, Live, SavesArePromoted
<1>8. CASE \E i \in Ids : UpdateRead(c, i)
  BY <1>2, <1>6, <1>8 DEF Derived, Human, Live
<1>9. CASE \E i \in Ids : DeleteRelationship(c, i)
  <2> PICK i \in Ids : DeleteRelationship(c, i)
    BY <1>9
  <2>1. \A j \in Ids : \/ rel'[j] = rel[j]
                       \/ rel[j] \in Row /\ rel'[j] = [rel[j] EXCEPT !.live = FALSE]
    <3>1. rel[i] \in Row /\ rel' = [rel EXCEPT ![i].live = FALSE]
      BY <1>3
    <3>2. /\ rel'[i] = [rel[i] EXCEPT !.live = FALSE]
          /\ \A j \in Ids \ {i} : rel'[j] = rel[j]
      BY <1>r, <3>1
    <3> QED BY <3>1, <3>2
  <2>2. \A j \in Ids : \/ rel'[j] = rel[j]
                       \/ /\ rel[j] \in Row /\ rel'[j] \in Row
                          /\ rel'[j].by = rel[j].by /\ rel'[j].edge = rel[j].edge
                          /\ rel'[j].seen = rel[j].seen /\ ~rel'[j].live
    BY <2>1, ZenonT(60) DEF Row
  <2> QED BY <1>3, <1>6, <2>2, NoRowAssumption DEF Derived, Human, Live, SavesArePromoted
<1> QED BY <1>4, <1>7, <1>8, <1>9

LEMMA PeopleKeepRows == ASSUME RowInv, TypeOK', People PROVE RowInv'
<1>1. TypeOK /\ SavesArePromoted
  BY DEF RowInv
<1>2. /\ run' = run /\ SavesArePromoted'
      /\ \A i \in Ids : Derived(i)' => Derived(i) /\ rel'[i].edge = rel[i].edge
  BY <1>1, PeopleRows
<1> QED BY <1>2 DEF RowInv, OneDerivedRow, LookupHolds

LEMMA RowNext == RowInv /\ [Next]_vars => RowInv'
<1> SUFFICES ASSUME RowInv, [Next]_vars PROVE RowInv'
  OBVIOUS
<1>1. TypeOK'
  BY NextType DEF RowInv
<1>2. TypeOK
  BY DEF RowInv
<1>3. CASE UNCHANGED vars
  BY <1>1, <1>3, RowsUntouched DEF vars
<1>4. ASSUME NEW r \in Repos, NEW s \in Shas, Commit(r, s) PROVE RowInv'
  BY <1>1, <1>4, RowsUntouched DEF Commit
<1>5. CASE Sync
  <2>1. rel' = rel /\ run' = run /\ edit' = edit
    BY <1>5 DEF Sync, ReadTree, Extract, StoreFact, EnqueueDerivation
  <2> QED BY <1>1, <2>1, RowsUntouched
<1>6. CASE StartRun \/ ListFacts \/ FinishRun \/ FailRun
  <2>1. rel' = rel /\ edit' = edit /\ run'.at # "write"
    BY <1>2, <1>6, IdleValues DEF StartRun, ListFacts, FinishRun, FailRun, TypeOK, IdleRun
  <2> QED BY <1>1, <2>1, RowsUntouched
<1>7. ASSUME NEW e \in Edges, UpsertLookup(e) PROVE RowInv'
  BY <1>1, <1>7, LookupRows
<1>8. ASSUME NEW e \in Edges, UpsertWrite(e) PROVE RowInv'
  BY <1>1, <1>8, WriteKeepsRows
<1>9. CASE FinishEdges
  BY <1>1, <1>9, SweepKeepsRows
<1>10. CASE People
  BY <1>1, <1>10, PeopleKeepRows
<1>11. CASE Crash
  <2>1. rel' = rel /\ run'.at # "write" /\ \A c \in Clients : edit'[c] = IdleEdit
    BY <1>11, IdleValues DEF Crash
  <2> QED BY <1>1, <2>1, RowsUntouched
<1> QED BY <1>3, <1>4, <1>5, <1>6, <1>7, <1>8, <1>9, <1>10, <1>11 DEF Next, Reconcile

\* However many runs fail, are retried or die half-way, an edge has one row with the
\* derivation key.
THEOREM OneRowPerEdge == Spec => []OneDerivedRow
<1>1. RowInv => OneDerivedRow
  BY DEF RowInv
<1> QED BY <1>1, RowInit, RowNext, PTL DEF Spec

LEMMA HumanStep ==
    RowInv /\ [Next]_vars =>
        [\A i \in Ids : Human(i) =>
            /\ Human(i)'
            /\ run' # run => /\ Live(i) => Live(i)'
                             /\ rel'[i] # rel[i] => run.at = "write" /\ run.id = i]_vars
<1> SUFFICES ASSUME RowInv, [Next]_vars, NEW i \in Ids, Human(i)
             PROVE  /\ Human(i)'
                    /\ run' # run => /\ Live(i) => Live(i)'
                                     /\ rel'[i] # rel[i] => run.at = "write" /\ run.id = i
  BY DEF Human, Live
<1>1. TypeOK /\ SavesArePromoted
  BY DEF RowInv
<1>2. CASE rel'[i] = rel[i]
  BY <1>2 DEF Human, Live
<1>3. CASE People
  BY <1>1, <1>3, PeopleRows
<1>4. ASSUME NEW e \in Edges, UpsertWrite(e), rel'[i] # rel[i]
      PROVE  Human(i)' /\ Live(i)' /\ run.at = "write" /\ run.id = i
  <2>1. /\ run.at = "write" /\ run.id = i /\ rel[i] \in Row
        /\ rel'[i] = [rel[i] EXCEPT !.text = "deriver", !.live = TRUE, !.seen = Seen]
    <3>1. rel[i] # NoRow
      BY DEF Human
    <3> QED BY <1>1, <1>4, <3>1, WriteRows
  <2>2. Seen \in Nat
    BY <1>1 DEF Seen, TypeOK
  <2>3. rel'[i] \in Row /\ rel'[i].by = rel[i].by /\ rel'[i].live
    BY <2>1, <2>2 DEF Row, Authors
  <2> QED BY <2>1, <2>3, NoRowAssumption DEF Human, Live
<1>5. CASE FinishEdges
  <2>1. i \notin Swept
    BY DEF Swept, Human
  <2> QED BY <1>1, <1>2, <1>5, <2>1, SweepRows
<1>6. rel' = rel \/ People \/ FinishEdges \/ \E e \in Edges : UpsertWrite(e)
  BY DEF Next, vars, Commit, Sync, ReadTree, Extract, StoreFact, EnqueueDerivation,
         Reconcile, StartRun, ListFacts, FinishRun, FailRun, UpsertLookup, Crash
<1> QED BY <1>2, <1>3, <1>4, <1>5, <1>6

\* Whatever fails and however runs and people interleave, a relationship that a
\* person declared or took over stays a person's, no run takes it off the graph, and a
\* run writes into it only if it had looked it up before.
THEOREM PeopleKeepTheirRows == Spec => HumansKeepTheirRows
  BY RowInit, RowNext, HumanStep, PTL DEF Spec, HumansKeepTheirRows

-----------------------------------------------------------------------------
(* What the sweep may rely on *)

\* A complete fact says what its tree says.
Honest(f, r) == f # NoFact /\ f.complete => f = FactOf(Content[r][f.sha], f.sha, TRUE)

\* No commit lands between the listing and the reads of an extraction.
ListingHolds ==
    \A y \in Syncers : sync[y].at = "extract" => head[sync[y].repo] = sync[y].sha

FactsHonest ==
    /\ \A r \in Repos : Honest(fact[r], r)
    /\ \A y \in Syncers : sync[y].at = "store" => Honest(sync[y].got, sync[y].repo)

\* The run knows what it read, whether that was complete, and every live derived
\* row it has already asserted carries its mark.
RunMarks ==
    /\ run.at \in {"apply", "write"} =>
        /\ \A r \in Repos : Honest(run.read[r], r)
        /\ run.complete => AllComplete(run.read)
        /\ \A i \in Ids : /\ Derived(i) /\ Live(i)
                          /\ rel[i].edge \in Derive(run.read) \ run.todo
                         => rel[i].seen >= run.started

SweepInv == RowInv /\ ListingHolds /\ FactsHonest /\ RunMarks

LEMMA SweepInit == Init => SweepInv
<1> SUFFICES ASSUME Init PROVE SweepInv
  OBVIOUS
<1>1. \A y \in Syncers : sync[y].at = "idle"
  BY IdleValues DEF Init
<1>2. run.at = "idle"
  BY IdleValues DEF Init
<1>3. FactsHonest
  BY <1>1 DEF Init, FactsHonest, Honest
<1> QED BY <1>1, <1>2, <1>3, RowInit DEF SweepInv, ListingHolds, RunMarks

\* Without a commit in between, the reads give what the listed tree holds.
LEMMA ReadsAreTheTree ==
    ASSUME NEW r \in Repos, head[r] \in Shas, NEW p \in ReadsOf(r, head[r])
    PROVE  p = Content[r][head[r]]
<1>1. Content[r][head[r]] \in Payload /\ p \in Payload
  BY ConstantsAssumption DEF ReadsOf
<1>2. p.pub = Content[r][head[r]].pub /\ p.req = Content[r][head[r]].req
  BY DEF ReadsOf
<1> QED BY <1>1, <1>2 DEF Payload

LEMMA ExtractHonest ==
    ASSUME TypeOK, ListingHolds, FactsHonest, NEW y \in Syncers, Extract(y)
    PROVE  ListingHolds' /\ FactsHonest'
<1> DEFINE r == sync[y].repo
           s == sync[y].sha
<1>1. /\ sync \in [Syncers -> [at : {"idle", "extract", "store", "enqueue"},
                                repo : Repos, sha : Shas, got : Fact \cup {NoFact}]]
      /\ r \in Repos /\ s \in Shas /\ head[r] = s
      /\ head' = head /\ fact' = fact
  BY DEF TypeOK, ListingHolds, Extract
<1>2. CASE sync' = [sync EXCEPT ![y] = IdleSync]
  BY <1>1, <1>2, IdleValues DEF ListingHolds, FactsHonest
<1>3. ASSUME NEW f \in Fact, Honest(f, r),
             sync' = [sync EXCEPT ![y].at = "store", ![y].got = f]
      PROVE  ListingHolds' /\ FactsHonest'
  <2>1. /\ sync'[y].at = "store" /\ sync'[y].got = f /\ sync'[y].repo = r
        /\ \A z \in Syncers \ {y} : sync'[z] = sync[z]
    BY <1>1, <1>3
  <2> QED BY <1>1, <1>3, <2>1 DEF ListingHolds, FactsHonest
<1>4. \/ sync' = [sync EXCEPT ![y] = IdleSync]
      \/ \E f \in Fact : /\ Honest(f, r)
                         /\ sync' = [sync EXCEPT ![y].at = "store", ![y].got = f]
  <2>1. ASSUME NEW p \in ReadsOf(r, s),
               sync' = [sync EXCEPT ![y].at = "store", ![y].got = FactOf(p, s, TRUE)]
        PROVE  \E f \in Fact : /\ Honest(f, r)
                               /\ sync' = [sync EXCEPT ![y].at = "store", ![y].got = f]
    <3>1. p = Content[r][s] /\ p \in Payload
      BY <1>1, ReadsAreTheTree DEF ReadsOf
    <3>2. FactOf(p, s, TRUE) \in Fact /\ FactOf(p, s, TRUE).sha = s
      BY <1>1, <3>1, FactOfType DEF FactOf
    <3>3. Honest(FactOf(p, s, TRUE), r)
      BY <3>1, <3>2 DEF Honest
    <3> QED BY <2>1, <3>2, <3>3
  <2>2. ASSUME NEW p \in ReadsOf(r, s), NEW q \in PartOf(p),
               sync' = [sync EXCEPT ![y].at = "store", ![y].got = FactOf(q, s, FALSE)]
        PROVE  \E f \in Fact : /\ Honest(f, r)
                               /\ sync' = [sync EXCEPT ![y].at = "store", ![y].got = f]
    <3>1. q \in Payload
      BY DEF PartOf
    <3>2. FactOf(q, s, FALSE) \in Fact /\ ~FactOf(q, s, FALSE).complete
      BY <1>1, <3>1, FactOfType DEF FactOf
    <3>3. Honest(FactOf(q, s, FALSE), r)
      BY <3>2 DEF Honest
    <3> QED BY <2>2, <3>2, <3>3
  <2> QED BY <2>1, <2>2 DEF Extract
<1> QED BY <1>2, <1>3, <1>4

LEMMA SyncHonest ==
    ASSUME TypeOK, ListingHolds, FactsHonest, Sync
    PROVE  ListingHolds' /\ FactsHonest'
<1> PICK y \in Syncers : \/ \E r \in Repos : ReadTree(y, r)
                         \/ Extract(y) \/ StoreFact(y) \/ EnqueueDerivation(y)
  BY DEF Sync
<1>1. sync \in [Syncers -> [at : {"idle", "extract", "store", "enqueue"},
                            repo : Repos, sha : Shas, got : Fact \cup {NoFact}]]
  BY DEF TypeOK
<1>2. ASSUME NEW r \in Repos, ReadTree(y, r) PROVE ListingHolds' /\ FactsHonest'
  BY <1>1, <1>2 DEF ReadTree, ListingHolds, FactsHonest
<1>3. CASE StoreFact(y)
  <2>1. CASE sync' = [sync EXCEPT ![y] = IdleSync] /\ UNCHANGED fact
    BY <1>1, <1>3, <2>1, IdleValues DEF StoreFact, ListingHolds, FactsHonest
  <2>2. CASE /\ fact' = [fact EXCEPT ![sync[y].repo] = sync[y].got]
             /\ sync' = [sync EXCEPT ![y].at = "enqueue", ![y].got = NoFact]
    <3>1. /\ \A z \in Syncers : sync'[z] = sync[z] \/ sync'[z].at = "enqueue"
          /\ head' = head
      BY <1>1, <1>3, <2>2 DEF StoreFact
    <3>2. \A r \in Repos : fact'[r] = fact[r] \/ (r = sync[y].repo /\ fact'[r] = sync[y].got)
      BY <2>2 DEF TypeOK, Facts
    <3>3. Honest(sync[y].got, sync[y].repo)
      BY <1>3 DEF StoreFact, FactsHonest
    <3> QED BY <3>1, <3>2, <3>3 DEF ListingHolds, FactsHonest
  <2> QED BY <1>3, <2>1, <2>2 DEF StoreFact
<1>4. CASE EnqueueDerivation(y)
  BY <1>1, <1>4, IdleValues DEF EnqueueDerivation, ListingHolds, FactsHonest
<1> QED BY <1>2, <1>3, <1>4, ExtractHonest

LEMMA FactsNext ==
    ASSUME ~MidReadCommits, TypeOK, ListingHolds, FactsHonest, [Next]_vars
    PROVE  ListingHolds' /\ FactsHonest'
<1>1. CASE head' = head /\ fact' = fact /\ sync' = sync
  BY <1>1 DEF ListingHolds, FactsHonest
<1>2. ASSUME NEW r \in Repos, NEW s \in Shas, Commit(r, s)
      PROVE  ListingHolds' /\ FactsHonest'
  <2>1. /\ fact' = fact /\ sync' = sync
        /\ \A y \in Syncers : sync[y].at = "idle" \/ sync[y].repo # r
        /\ \A q \in Repos : q # r => head'[q] = head[q]
    BY <1>2 DEF Commit, TypeOK
  <2> QED BY <2>1 DEF ListingHolds, FactsHonest, TypeOK
<1>3. CASE Crash
  <2>1. fact' = fact /\ \A y \in Syncers : sync'[y].at = "idle"
    BY <1>3, IdleValues DEF Crash
  <2> QED BY <2>1 DEF ListingHolds, FactsHonest
<1>4. CASE Reconcile
  <2>1. head' = head /\ fact' = fact /\ sync' = sync
    BY <1>4 DEF Reconcile, StartRun, ListFacts, UpsertLookup, UpsertWrite, FinishEdges,
                FinishRun, FailRun
  <2> QED BY <1>1, <2>1
<1>5. CASE People
  <2>1. head' = head /\ fact' = fact /\ sync' = sync
    BY <1>5 DEF People, CreateRelationship, UpdateRead, UpdateSave, DeleteRelationship
  <2> QED BY <1>1, <2>1
<1>6. CASE UNCHANGED vars
  BY <1>1, <1>6 DEF vars
<1> QED BY <1>2, <1>3, <1>4, <1>5, <1>6, SyncHonest DEF Next

\* The write marks the only derived row its edge has.
LEMMA WriteMarks ==
    ASSUME RowInv, RunMarks, NEW e \in Edges, UpsertWrite(e) PROVE RunMarks'
<1>1. TypeOK
  BY DEF RowInv
<1>2. /\ run' = [run EXCEPT !.at = "apply", !.todo = @ \ {e}, !.edge = {}, !.id = 0]
      /\ run.at = "write" /\ run.edge = {e}
  BY <1>1, WriteRows
<1>3. /\ run'.at = "apply" /\ run'.todo = run.todo \ {e} /\ run'.read = run.read
      /\ run'.complete = run.complete /\ run'.started = run.started
      /\ run.started \in Nat /\ Seen = run.started + 1
  BY <1>1, <1>2 DEF TypeOK, Seen
<1>4. ASSUME NEW i \in Ids, Derived(i)', Live(i)', rel'[i].edge \in Derive(run.read),
             rel'[i].edge \notin run.todo \/ rel'[i].edge = e
      PROVE  rel'[i].seen >= run.started
  <2>1. CASE rel'[i] = rel[i]
    <3>1. CASE rel[i].edge = e
      <4>1. Derived(i) /\ i = run.id
        BY <1>2, <1>4, <2>1, <3>1 DEF RowInv, LookupHolds, Derived
      <4>2. rel'[i] = [rel[i] EXCEPT !.text = "deriver", !.live = TRUE, !.seen = Seen]
            /\ rel[i] \in Row
        BY <1>1, <4>1, ConstantsAssumption, WriteRows
      <4>3. rel'[i].seen = Seen
        BY <4>2 DEF Row
      <4> QED BY <1>3, <4>3
    <3>2. CASE rel[i].edge # e
      BY <1>2, <1>4, <2>1, <3>2 DEF RunMarks, Derived, Live
    <3> QED BY <3>1, <3>2
  <2>2. CASE rel'[i].seen = Seen
    BY <1>3, <2>2
  <2>3. rel'[i] = rel[i] \/ rel'[i].seen = Seen
    <3>1. CASE run.id = 0
      <4>1. run.id \notin Ids
        BY <3>1, ConstantsAssumption
      <4>2. PICK j \in Ids :
              /\ rel'[j] = [edge |-> e, by |-> "deriver", origin |-> "deriver",
                            text |-> "deriver", live |-> TRUE, seen |-> Seen]
              /\ \A k \in Ids \ {j} : rel'[k] = rel[k]
        BY <1>1, <4>1, WriteRows
      <4> QED BY <4>2
    <3>2. CASE run.id # 0
      <4>1. /\ run.id \in Ids /\ rel[run.id] \in Row
            /\ rel'[run.id] = [rel[run.id] EXCEPT !.text = "deriver", !.live = TRUE,
                                                  !.seen = Seen]
            /\ \A j \in Ids \ {run.id} : rel'[j] = rel[j]
        BY <1>1, <3>2, WriteRows
      <4>2. rel'[run.id].seen = Seen
        BY <4>1 DEF Row
      <4> QED BY <4>1, <4>2
    <3> QED BY <3>1, <3>2
  <2> QED BY <2>1, <2>2, <2>3
<1>5. \A r \in Repos : Honest(run'.read[r], r)
  BY <1>2, <1>3 DEF RunMarks
<1>6. run'.complete => AllComplete(run'.read)
  BY <1>2, <1>3 DEF RunMarks
<1> QED BY <1>3, <1>4, <1>5, <1>6 DEF RunMarks

LEMMA MarksNext ==
    ASSUME RowInv, FactsHonest, RunMarks, [Next]_vars PROVE RunMarks'
<1>1. TypeOK
  BY DEF RowInv
<1>2. CASE rel' = rel /\ run' = run
  BY <1>2 DEF RunMarks, Derived, Live
<1>3. CASE run'.at \notin {"apply", "write"}
  BY <1>3 DEF RunMarks
<1>4. CASE ListFacts
  <2>1. /\ run'.read = fact /\ run'.todo = Derive(fact) /\ run'.complete = AllComplete(fact)
    BY <1>1, <1>4 DEF ListFacts, TypeOK
  <2> QED BY <2>1 DEF RunMarks, FactsHonest
<1>5. ASSUME NEW e \in Edges, UpsertLookup(e) PROVE RunMarks'
  <2>1. /\ rel' = rel /\ run.at = "apply" /\ run'.read = run.read /\ run'.todo = run.todo
        /\ run'.complete = run.complete /\ run'.started = run.started
    BY <1>1, <1>5 DEF UpsertLookup, TypeOK
  <2> QED BY <2>1 DEF RunMarks, Derived, Live
<1>6. ASSUME NEW e \in Edges, UpsertWrite(e) PROVE RunMarks'
  BY <1>6, WriteMarks
<1>7. CASE People
  <2>1. /\ run' = run
        /\ \A i \in Ids : Derived(i)' =>
              /\ Derived(i) /\ rel'[i].edge = rel[i].edge /\ rel'[i].seen = rel[i].seen
              /\ Live(i)' => Live(i)
    BY <1>1, <1>7, PeopleRows DEF RowInv
  <2> QED BY <2>1 DEF RunMarks
<1>8. CASE StartRun \/ FinishEdges \/ FinishRun \/ FailRun \/ Crash
  <2>1. run'.at \notin {"apply", "write"}
    BY <1>1, <1>8, IdleValues DEF StartRun, FinishEdges, FinishRun, FailRun, Crash, TypeOK
  <2> QED BY <1>3, <2>1
<1>9. ASSUME NEW r \in Repos, NEW s \in Shas, Commit(r, s) PROVE RunMarks'
  BY <1>2, <1>9 DEF Commit
<1>10. CASE Sync
  <2>1. rel' = rel /\ run' = run
    BY <1>10 DEF Sync, ReadTree, Extract, StoreFact, EnqueueDerivation
  <2> QED BY <1>2, <2>1
<1>11. CASE UNCHANGED vars
  BY <1>2, <1>11 DEF vars
<1> QED BY <1>4, <1>5, <1>6, <1>7, <1>8, <1>9, <1>10, <1>11 DEF Next, Reconcile

LEMMA SweepNext == ASSUME ~MidReadCommits, SweepInv, [Next]_vars PROVE SweepInv'
  BY RowNext, FactsNext, MarksNext DEF SweepInv, RowInv

LEMMA SweepStep ==
    ASSUME SweepInv, run.at = "apply", run'.at = "done", [Next]_vars,
           NEW i \in Ids, Live(i), ~Live(i)'
    PROVE  rel[i].edge \notin Truth(run.read)
<1>1. TypeOK
  BY DEF SweepInv, RowInv
<1>2. FinishEdges
  <2>1. run' # run
    BY <1>1 DEF TypeOK
  <2>2. ~People
    BY <2>1 DEF People, CreateRelationship, UpdateRead, UpdateSave, DeleteRelationship
  <2>3. ~Sync
    BY <2>1 DEF Sync, ReadTree, Extract, StoreFact, EnqueueDerivation
  <2>4. ~Crash /\ ~StartRun /\ ~ListFacts /\ ~FinishRun /\ ~FailRun
    BY <1>1, IdleValues DEF Crash, StartRun, ListFacts, FinishRun, FailRun, TypeOK
  <2>5. \A e \in Edges : ~UpsertLookup(e) /\ ~UpsertWrite(e)
    BY <1>1 DEF UpsertLookup, UpsertWrite, TypeOK
  <2> QED BY <2>1, <2>2, <2>3, <2>4, <2>5 DEF Next, vars, Reconcile, Commit
<1>3. i \in Swept /\ run.complete
  BY <1>1, <1>2, SweepRows DEF Live
<1>4. rel[i].seen \in Nat /\ run.started \in Nat /\ run.read \in Facts
  BY <1>1, <1>3 DEF TypeOK, Swept, Row
<1>5. rel[i].edge \notin Derive(run.read)
  BY <1>2, <1>3, <1>4 DEF SweepInv, RunMarks, FinishEdges, Swept, Derived, Live
<1>6. \A r \in Repos : run.read[r] # NoFact =>
         run.read[r] = FactOf(Content[r][run.read[r].sha], run.read[r].sha, TRUE)
  BY <1>3 DEF SweepInv, RunMarks, AllComplete, Honest
<1>7. Truth(run.read) = Derive(run.read)
  <2> DEFINE told == [r \in Repos |-> IF run.read[r] = NoFact THEN NoFact
                            ELSE FactOf(Content[r][run.read[r].sha], run.read[r].sha, TRUE)]
  <2>1. told = run.read
    BY <1>4, <1>6 DEF Facts
  <2> QED BY <2>1 DEF Truth
<1> QED BY <1>5, <1>7

\* While no commit lands in the middle of an extraction, no run retracts an edge that
\* the trees behind its facts declare, whatever calls fail, wherever runs die and
\* whatever people do meanwhile.
THEOREM SweepIsCorrect == ASSUME ~MidReadCommits PROVE Spec => NothingCorrectSwept
<1>1. SweepInv /\ [Next]_vars => SweepInv'
  BY SweepNext
<1>2. SweepInv /\ [Next]_vars =>
        [\A i \in Ids :
            (run.at = "apply" /\ run'.at = "done" /\ Live(i) /\ ~Live(i)') =>
                rel[i].edge \notin Truth(run.read)]_vars
  BY SweepStep
<1> QED BY <1>1, <1>2, SweepInit, PTL DEF Spec, NothingCorrectSwept
-----------------------------------------------------------------------------
(* The graph at rest follows the facts *)

\* What a person is about to save is the live row it was read from, promoted.
CopiesHold ==
    \A c \in Clients : edit[c].at = "save" =>
        /\ rel[edit[c].id] # NoRow /\ edit[c].copy.edge = rel[edit[c].id].edge
        /\ edit[c].copy.by = "person" /\ edit[c].copy.live /\ edit[c].copy.seen = 0

\* The run and its task go together, and the row under the write is the edge's.
RunHolds ==
    /\ run.at = "idle" <=> job # "active"
    /\ run.at \in {"idle", "done"} => run.todo = {}
    /\ run.at = "write" => /\ run.edge \subseteq run.todo
                           /\ run.id # 0 => rel[run.id].edge \in run.edge
    /\ run.started <= clock
    /\ run.at = "list" => run.started > 0

\* Every mark is older than the start of the next run.
MarksHold ==
    \A i \in Ids : rel[i] # NoRow =>
        /\ rel[i].seen <= clock + 1
        /\ run.at = "list" => rel[i].seen < run.started

\* Facts the graph need not show yet: a listing is to come, or none ever is.
Pending == \/ missed \/ job \in {"waiting", "archived"} \/ run.at = "list"
           \/ \E y \in Syncers : sync[y].at = "enqueue"

\* The edge is on the graph, and the run's sweep will leave it there.
Kept(e) == \E i \in Ids : /\ Live(i) /\ rel[i].edge = e
                          /\ rel[i].by = "person" \/ rel[i].seen >= run.started

\* The run works from the facts as they are, has asserted all it has done with, and
\* the derived rows the facts do not declare are those its sweep will find.
Followed ==
    /\ run.at # "idle" => run.todo \subseteq Derive(fact) /\ run.complete = AllComplete(fact)
    /\ \A e \in Derive(fact) \ (dismissed \cup run.todo) : Kept(e)
    /\ AllComplete(fact) =>
         \A i \in Ids : Derived(i) /\ Live(i) =>
             \/ rel[i].edge \in Derive(fact)
             \/ run.at \in {"apply", "write"} /\ rel[i].seen < run.started

FollowInv == RowInv /\ CopiesHold /\ RunHolds /\ MarksHold /\ (~Pending => Followed)

LEMMA FollowInit == Init => FollowInv
<1> SUFFICES ASSUME Init PROVE FollowInv
  OBVIOUS
<1>1. RowInv
  BY RowInit
<1>2. CopiesHold
  BY IdleValues DEF Init, CopiesHold
<1>3. RunHolds
  BY IdleValues DEF Init, RunHolds
<1>4. MarksHold
  BY DEF Init, MarksHold
<1>5. Derive(fact) = {}
  BY DEF Init, Derive, Edges
<1>6. Followed
  BY <1>5, IdleValues DEF Init, Followed, Derived
<1> QED BY <1>1, <1>2, <1>3, <1>4, <1>6 DEF FollowInv

LEMMA RowFields ==
    ASSUME TypeOK, NEW i \in Ids, rel[i] # NoRow
    PROVE  /\ rel[i] \in Row /\ rel[i].edge \in Edges /\ rel[i].seen \in Nat
           /\ rel[i].live \in BOOLEAN /\ rel[i].by \in Authors
  BY DEF TypeOK, Row

\* A row keeps its edge for good.
EdgesKept == \A i \in Ids : rel[i] # NoRow => rel'[i] # NoRow /\ rel'[i].edge = rel[i].edge

\* What people do to the rows, one of them at a time.
LEMMA PeopleEdit ==
    ASSUME TypeOK, CopiesHold, People
    PROVE  /\ run' = run /\ fact' = fact /\ sync' = sync /\ job' = job
           /\ clock' = clock /\ missed' = missed
           /\ dismissed \subseteq dismissed'
           /\ \A i \in Ids :
                 \/ rel'[i] = rel[i]
                 \/ /\ rel[i] = NoRow /\ rel'[i] \in Row
                    /\ rel'[i].by = "person" /\ rel'[i].seen = 0
                 \/ /\ rel[i] # NoRow /\ rel'[i] \in Row /\ rel'[i].edge = rel[i].edge
                    /\ rel'[i].by = "person" /\ rel'[i].live /\ rel'[i].seen = 0
                 \/ /\ rel[i] # NoRow /\ rel'[i] \in Row /\ rel'[i].edge = rel[i].edge
                    /\ rel'[i].by = rel[i].by /\ rel'[i].seen = rel[i].seen
                    /\ ~rel'[i].live /\ rel[i].edge \in dismissed'
           /\ \A c \in Clients :
                 \/ edit'[c] = edit[c] \/ edit'[c].at # "save"
                 \/ /\ edit'[c].id \in Ids /\ rel[edit'[c].id] # NoRow
                    /\ edit'[c].copy.edge = rel[edit'[c].id].edge
                    /\ edit'[c].copy.by = "person" /\ edit'[c].copy.live
                    /\ edit'[c].copy.seen = 0
<1> PICK c \in Clients : \/ \E e \in Edges : CreateRelationship(c, e)
                         \/ \E i \in Ids : UpdateRead(c, i) \/ DeleteRelationship(c, i)
                         \/ UpdateSave(c)
  BY DEF People
<1>0. /\ rel \in [Ids -> Row \cup {NoRow}]
      /\ edit \in [Clients -> [at : {"idle", "save"}, id : Ids \cup {0},
                                copy : Row \cup {NoRow}]]
  BY DEF TypeOK
<1>r. rel \in [Ids -> Row \cup {NoRow}]
  BY <1>0
<1>1. ASSUME NEW e \in Edges, CreateRelationship(c, e)
      PROVE  \A i \in Ids : \/ rel'[i] = rel[i]
                            \/ /\ rel[i] = NoRow /\ rel'[i] \in Row
                               /\ rel'[i].by = "person" /\ rel'[i].seen = 0
  <2> DEFINE new == [edge |-> e, by |-> "person", origin |-> "person",
                     text |-> "person", live |-> TRUE, seen |-> 0]
  <2>1. PICK i \in Ids : rel[i] = NoRow /\ rel' = [rel EXCEPT ![i] = new]
    BY <1>1 DEF CreateRelationship, Fresh
  <2>2. new \in Row /\ new.by = "person" /\ new.seen = 0
    BY DEF Row, Authors
  <2> HIDE DEF new
  <2> QED BY <1>r, <2>1, <2>2
<1>2. ASSUME NEW i \in Ids, UpdateRead(c, i)
      PROVE  \A d \in Clients :
                 \/ edit'[d] = edit[d]
                 \/ /\ edit'[d].id \in Ids /\ rel[edit'[d].id] # NoRow
                    /\ edit'[d].copy.edge = rel[edit'[d].id].edge
                    /\ edit'[d].copy.by = "person" /\ edit'[d].copy.live
                    /\ edit'[d].copy.seen = 0
  <2> DEFINE new == [rel[i] EXCEPT !.by = "person", !.text = "person", !.seen = 0]
  <2>1. rel[i] # NoRow /\ rel[i] \in Row /\ rel[i].live
    BY <1>0, <1>2 DEF UpdateRead
  <2>2. new.edge = rel[i].edge /\ new.by = "person" /\ new.live /\ new.seen = 0
    BY <2>1 DEF Row
  <2>3. edit' = [edit EXCEPT ![c] = [at |-> "save", id |-> i, copy |-> new]]
    BY <1>2 DEF UpdateRead
  <2> HIDE DEF new
  <2>4. \A d \in Clients : edit'[d] = edit[d] \/ (edit'[d].id = i /\ edit'[d].copy = new)
    BY <1>0, <2>3
  <2> QED BY <2>1, <2>2, <2>4
<1>3. ASSUME NEW i \in Ids, DeleteRelationship(c, i)
      PROVE  \A j \in Ids :
                 \/ rel'[j] = rel[j]
                 \/ /\ rel[j] # NoRow /\ rel'[j] \in Row /\ rel'[j].edge = rel[j].edge
                    /\ rel'[j].by = rel[j].by /\ rel'[j].seen = rel[j].seen
                    /\ ~rel'[j].live /\ rel[j].edge \in dismissed'
  <2> DEFINE new == [rel[i] EXCEPT !.live = FALSE]
  <2>1. /\ rel[i] # NoRow /\ rel[i] \in Row /\ rel' = [rel EXCEPT ![i] = new]
        /\ rel[i].edge \in dismissed'
    BY <1>0, <1>3 DEF DeleteRelationship
  <2>2. /\ new \in Row /\ new.edge = rel[i].edge /\ new.by = rel[i].by
        /\ new.seen = rel[i].seen /\ ~new.live
    BY <2>1 DEF Row
  <2> HIDE DEF new
  <2> QED BY <1>r, <2>1, <2>2
<1>4. ASSUME UpdateSave(c)
      PROVE  /\ \A i \in Ids :
                   \/ rel'[i] = rel[i]
                   \/ /\ rel[i] # NoRow /\ rel'[i] \in Row /\ rel'[i].edge = rel[i].edge
                      /\ rel'[i].by = "person" /\ rel'[i].live /\ rel'[i].seen = 0
             /\ \A d \in Clients : edit'[d] = edit[d] \/ edit'[d].at # "save"
  <2> DEFINE copy == edit[c].copy
             id == edit[c].id
  <2>1. /\ rel' = [rel EXCEPT ![id] = copy] /\ id \in Ids /\ copy \in Row
        /\ rel[id] # NoRow /\ copy.edge = rel[id].edge /\ copy.by = "person"
        /\ copy.live /\ copy.seen = 0
    BY <1>4 DEF UpdateSave, TypeOK, CopiesHold
  <2>2. \A d \in Clients : edit'[d] = edit[d] \/ edit'[d].at # "save"
    BY <1>0, <1>4, IdleValues DEF UpdateSave
  <2> HIDE DEF copy, id
  <2> QED BY <1>r, <2>1, <2>2
<1>5. ASSUME NEW e \in Edges, CreateRelationship(c, e)
      PROVE  /\ run' = run /\ fact' = fact /\ sync' = sync /\ job' = job /\ clock' = clock
             /\ missed' = missed /\ dismissed' = dismissed /\ edit' = edit
  BY <1>5 DEF CreateRelationship
<1>6. ASSUME NEW i \in Ids, UpdateRead(c, i)
      PROVE  /\ run' = run /\ fact' = fact /\ sync' = sync /\ job' = job /\ clock' = clock
             /\ missed' = missed /\ dismissed' = dismissed /\ rel' = rel
  BY <1>6 DEF UpdateRead
<1>7. ASSUME NEW i \in Ids, DeleteRelationship(c, i)
      PROVE  /\ run' = run /\ fact' = fact /\ sync' = sync /\ job' = job /\ clock' = clock
             /\ missed' = missed /\ dismissed \subseteq dismissed' /\ edit' = edit
  BY <1>7 DEF DeleteRelationship
<1>8. ASSUME UpdateSave(c)
      PROVE  /\ run' = run /\ fact' = fact /\ sync' = sync /\ job' = job /\ clock' = clock
             /\ missed' = missed /\ dismissed' = dismissed
  BY <1>8 DEF UpdateSave
<1>9. CASE \E e \in Edges : CreateRelationship(c, e)
  BY <1>1, <1>5, <1>9
<1>10. CASE \E i \in Ids : UpdateRead(c, i)
  BY <1>2, <1>6, <1>10
<1>11. CASE \E i \in Ids : DeleteRelationship(c, i)
  BY <1>3, <1>7, <1>11
<1>12. CASE UpdateSave(c)
  BY <1>4, <1>8, <1>12
<1> QED BY <1>9, <1>10, <1>11, <1>12

\* What a step of a run makes of the row fields: it keeps the edge, marks with Seen or
\* leaves the mark, and takes off the graph only what the sweep finds.
LEMMA ReconcileRows ==
    ASSUME RowInv, RunHolds, Reconcile
    PROVE  /\ edit' = edit
           /\ \A i \in Ids :
                 \/ rel'[i] = rel[i]
                 \/ /\ run.at = "write" /\ rel'[i] \in Row /\ rel'[i].edge \in run.edge
                    /\ rel[i] # NoRow => rel'[i].edge = rel[i].edge
                    /\ rel'[i].live /\ rel'[i].seen = Seen
                 \/ /\ i \in Swept /\ run.at = "apply" /\ run'.at = "done" /\ run.complete
                    /\ rel'[i] \in Row /\ rel'[i].edge = rel[i].edge
                    /\ rel'[i].seen = rel[i].seen /\ ~rel'[i].live
<1>0. TypeOK
  BY DEF RowInv
<1>1. CASE StartRun \/ ListFacts \/ FinishRun \/ FailRun \/ \E e \in Edges : UpsertLookup(e)
  BY <1>1 DEF StartRun, ListFacts, FinishRun, FailRun, UpsertLookup
<1>2. ASSUME NEW e \in Edges, UpsertWrite(e)
      PROVE  /\ edit' = edit
             /\ \A i \in Ids :
                 \/ rel'[i] = rel[i]
                 \/ /\ run.at = "write" /\ rel'[i] \in Row /\ rel'[i].edge \in run.edge
                    /\ rel[i] # NoRow => rel'[i].edge = rel[i].edge
                    /\ rel'[i].live /\ rel'[i].seen = Seen
  <2>0. run.at = "write" /\ run.edge = {e} /\ edit' = edit
    BY <1>2 DEF UpsertWrite
  <2>s. Seen \in Nat
    BY <1>0 DEF Seen, TypeOK
  <2>1. ASSUME NEW i \in Ids, rel[i] = NoRow,
               rel'[i] = [edge |-> e, by |-> "deriver", origin |-> "deriver",
                          text |-> "deriver", live |-> TRUE, seen |-> Seen]
        PROVE  /\ rel'[i] \in Row /\ rel'[i].edge = e
               /\ rel'[i].live /\ rel'[i].seen = Seen
    BY <2>0, <2>s, <2>1 DEF Row, Authors
  <2>2. ASSUME NEW i \in Ids, run.id = i, i # 0, rel[i] \in Row,
               rel'[i] = [rel[i] EXCEPT !.text = "deriver", !.live = TRUE, !.seen = Seen]
        PROVE  /\ rel'[i] \in Row /\ rel'[i].edge = e /\ rel'[i].edge = rel[i].edge
               /\ rel'[i].live /\ rel'[i].seen = Seen
    <3>1. rel[i].edge = e
      BY <2>0, <2>2 DEF RunHolds
    <3> QED BY <2>0, <2>s, <2>2, <3>1 DEF Row, Authors
  <2>3. CASE run.id = 0
    <3>1. PICK i \in Ids :
            /\ rel[i] = NoRow
            /\ rel'[i] = [edge |-> e, by |-> "deriver", origin |-> "deriver",
                          text |-> "deriver", live |-> TRUE, seen |-> Seen]
            /\ \A j \in Ids \ {i} : rel'[j] = rel[j]
      BY <1>0, <1>2, <2>3, WriteRows, ConstantsAssumption
    <3> QED BY <2>0, <2>1, <3>1
  <2>4. CASE run.id # 0
    <3>1. /\ run.id \in Ids /\ rel[run.id] \in Row
          /\ rel'[run.id] = [rel[run.id] EXCEPT !.text = "deriver", !.live = TRUE,
                                                !.seen = Seen]
          /\ \A j \in Ids \ {run.id} : rel'[j] = rel[j]
      BY <1>0, <1>2, <2>4, WriteRows
    <3>2. /\ rel'[run.id] \in Row /\ rel'[run.id].edge = e
          /\ rel'[run.id].edge = rel[run.id].edge
          /\ rel'[run.id].live /\ rel'[run.id].seen = Seen
      BY <2>2, <2>4, <3>1
    <3> QED BY <2>0, <3>1, <3>2
  <2> QED BY <2>3, <2>4
<1>3. CASE FinishEdges
  <2>1. /\ run.at = "apply" /\ run' = [run EXCEPT !.at = "done"] /\ edit' = edit
        /\ \A i \in Ids : \/ rel'[i] = rel[i]
                          \/ /\ i \in Swept /\ run.complete /\ rel[i] \in Row
                             /\ rel'[i] = [rel[i] EXCEPT !.live = FALSE]
    BY <1>0, <1>3, SweepRows
  <2>2. run'.at = "done"
    BY <1>0, <2>1 DEF TypeOK
  <2> QED BY <2>1, <2>2, ZenonT(60) DEF Row
<1> QED BY <1>1, <1>2, <1>3 DEF Reconcile

LEMMA OthersLeaveRows ==
    ASSUME TypeOK,
           UNCHANGED vars \/ Sync \/ Crash \/ \E r \in Repos, s \in Shas : Commit(r, s)
    PROVE  rel' = rel /\ \A c \in Clients : edit'[c] = edit[c] \/ edit'[c].at # "save"
<1>1. CASE Crash
  BY <1>1, IdleValues DEF Crash
<1>2. CASE Sync
  BY <1>2 DEF Sync, ReadTree, Extract, StoreFact, EnqueueDerivation
<1>3. CASE UNCHANGED vars \/ \E r \in Repos, s \in Shas : Commit(r, s)
  BY <1>3 DEF vars, Commit
<1> QED BY <1>1, <1>2, <1>3

LEMMA EdgesLast == ASSUME RowInv, CopiesHold, RunHolds, [Next]_vars PROVE EdgesKept
<1>0. TypeOK
  BY DEF RowInv
<1>1. CASE People
  BY <1>0, <1>1, PeopleEdit, NoRowAssumption DEF EdgesKept
<1>2. CASE Reconcile
  BY <1>2, ReconcileRows, NoRowAssumption DEF EdgesKept
<1>3. CASE UNCHANGED vars \/ Sync \/ Crash \/ \E r \in Repos, s \in Shas : Commit(r, s)
  BY <1>0, <1>3, OthersLeaveRows DEF EdgesKept
<1> QED BY <1>1, <1>2, <1>3 DEF Next

LEMMA CopiesNext == ASSUME RowInv, CopiesHold, RunHolds, [Next]_vars PROVE CopiesHold'
<1>0. TypeOK /\ EdgesKept
  BY EdgesLast DEF RowInv
<1>1. \A c \in Clients : edit[c].at = "save" => edit[c].id \in Ids
  BY <1>0 DEF TypeOK
<1>2. CASE People
  <2>1. \A c \in Clients :
           \/ edit'[c] = edit[c] \/ edit'[c].at # "save"
           \/ /\ edit'[c].id \in Ids /\ rel[edit'[c].id] # NoRow
              /\ edit'[c].copy.edge = rel[edit'[c].id].edge
              /\ edit'[c].copy.by = "person" /\ edit'[c].copy.live
              /\ edit'[c].copy.seen = 0
    BY <1>0, <1>2, PeopleEdit
  <2> QED BY <1>0, <1>1, <2>1 DEF CopiesHold, EdgesKept
<1>3. CASE \A c \in Clients : edit'[c] = edit[c] \/ edit'[c].at # "save"
  BY <1>0, <1>1, <1>3 DEF CopiesHold, EdgesKept
<1>4. CASE Reconcile
  BY <1>3, <1>4, ReconcileRows
<1>5. CASE UNCHANGED vars \/ Sync \/ Crash \/ \E r \in Repos, s \in Shas : Commit(r, s)
  BY <1>0, <1>3, <1>5, OthersLeaveRows
<1> QED BY <1>2, <1>4, <1>5 DEF Next

\* How a run and its task move.
LEMMA ReconcileRuns ==
    ASSUME TypeOK, RunHolds, Reconcile
    PROVE  /\ fact' = fact /\ sync' = sync
           /\ \/ /\ StartRun /\ job' = "active" /\ clock' = clock + 2 /\ rel' = rel
                 /\ run'.at = "list" /\ run'.started = clock + 2 /\ run'.todo = {}
                 /\ missed' = missed /\ dismissed' = dismissed
              \/ /\ ListFacts /\ run.at = "list" /\ run'.at = "apply" /\ job' = job /\ rel' = rel
                 /\ run'.started = run.started /\ clock' = clock
                 /\ run'.todo = Derive(fact) /\ run'.complete = AllComplete(fact)
                 /\ dismissed' = dismissed
              \/ /\ run.at = "apply" /\ run'.at = "write" /\ job' = job /\ rel' = rel
                 /\ run'.started = run.started /\ clock' = clock
                 /\ run'.todo = run.todo /\ run'.complete = run.complete
                 /\ \E e \in run.todo :
                       /\ run'.edge = {e} /\ e \in Edges
                       /\ run'.id # 0 => run'.id \in Ids /\ rel[run'.id].edge = e
                 /\ missed' = missed /\ dismissed' = dismissed
              \/ /\ run.at = "write" /\ run'.at = "apply" /\ job' = job
                 /\ run'.started = run.started /\ clock' = clock
                 /\ \E e \in Edges : UpsertWrite(e) /\ run.edge = {e} /\ run'.todo = run.todo \ {e}
                                     /\ dismissed' = dismissed \ {e}
                 /\ run'.complete = run.complete
                 /\ missed' = missed
              \/ /\ FinishEdges /\ run.at = "apply" /\ run'.at = "done" /\ job' = job
                 /\ run'.started = run.started /\ clock' = clock
                 /\ run.todo = {} /\ run'.todo = {} /\ run'.complete = run.complete
                 /\ missed' = missed /\ dismissed' = dismissed
              \/ /\ run' = IdleRun /\ clock' = clock /\ rel' = rel
                 /\ missed' = missed /\ dismissed' = dismissed
                 /\ \/ run.at = "done" /\ job' = "none"
                    \/ job' \in {"waiting", "archived"}
<1>0. /\ run \in [at : {"idle", "list", "apply", "write", "done"}, started : Nat,
                  todo : SUBSET Edges, complete : BOOLEAN, read : Facts,
                  edge : SUBSET Edges, id : Ids \cup {0}]
  BY DEF TypeOK
<1>1. CASE StartRun
  <2>1. run'.at = "list" /\ run'.started = clock + 2 /\ run'.todo = {}
    BY <1>1, IdleValues DEF StartRun, IdleRun
  <2> QED BY <1>1, <2>1 DEF StartRun
<1>2. CASE ListFacts
  BY <1>0, <1>2 DEF ListFacts
<1>3. ASSUME NEW e \in Edges, UpsertLookup(e)
      PROVE  /\ fact' = fact /\ sync' = sync
             /\ run.at = "apply" /\ run'.at = "write" /\ job' = job /\ rel' = rel
             /\ run'.started = run.started /\ clock' = clock
             /\ run'.todo = run.todo /\ run'.complete = run.complete
             /\ e \in run.todo /\ run'.edge = {e}
             /\ run'.id # 0 => run'.id \in Ids /\ rel[run'.id].edge = e
             /\ missed' = missed /\ dismissed' = dismissed
  <2>1. ASSUME NEW i \in Ids \cup {0},
               run' = [run EXCEPT !.at = "write", !.edge = {e}, !.id = i]
        PROVE  /\ run'.at = "write" /\ run'.started = run.started /\ run'.todo = run.todo
               /\ run'.complete = run.complete /\ run'.edge = {e} /\ run'.id = i
    BY <1>0, <2>1
  <2>2. PICK i \in Ids \cup {0} :
           /\ run' = [run EXCEPT !.at = "write", !.edge = {e}, !.id = i]
           /\ i # 0 => i \in Ids /\ rel[i].edge = e
    BY <1>3 DEF UpsertLookup, Preferred, Matches
  <2> QED BY <1>3, <2>1, <2>2 DEF UpsertLookup
<1>4. ASSUME NEW e \in Edges, UpsertWrite(e)
      PROVE  /\ fact' = fact /\ sync' = sync
             /\ run.at = "write" /\ run'.at = "apply" /\ job' = job
             /\ run'.started = run.started /\ clock' = clock
             /\ run.edge = {e} /\ run'.todo = run.todo \ {e} /\ dismissed' = dismissed \ {e}
             /\ run'.complete = run.complete
             /\ missed' = missed
  BY <1>0, <1>4 DEF UpsertWrite
<1>5. CASE FinishEdges
  BY <1>0, <1>5 DEF FinishEdges
<1>6. CASE FinishRun \/ FailRun
  BY <1>6 DEF FinishRun, FailRun
<1>7. CASE \E e \in Edges : UpsertLookup(e)
  BY <1>3, <1>7
<1>8. CASE \E e \in Edges : UpsertWrite(e)
  BY <1>4, <1>8
<1> QED BY <1>1, <1>2, <1>5, <1>6, <1>7, <1>8 DEF Reconcile

LEMMA RunHoldsNext ==
    ASSUME RowInv, CopiesHold, RunHolds, [Next]_vars PROVE RunHolds'
<1>0. TypeOK /\ EdgesKept
  BY EdgesLast DEF RowInv
<1>1. run.at = "write" /\ run.id # 0 => run.id \in Ids /\ rel[run.id] # NoRow
  BY <1>0 DEF TypeOK
<1>2. clock \in Nat /\ run.started \in Nat
  BY <1>0 DEF TypeOK
<1>3. CASE Reconcile
  BY <1>0, <1>2, <1>3, ReconcileRuns, IdleValues DEF RunHolds
<1>4. ASSUME run' = run, clock' = clock, job' = job \/ (job # "active" /\ job' # "active")
      PROVE  RunHolds'
  BY <1>0, <1>1, <1>4 DEF RunHolds, EdgesKept
<1>5. CASE People
  BY <1>0, <1>4, <1>5, PeopleEdit
<1>6. CASE Sync
  <2>1. run' = run /\ clock' = clock /\ (job' = job \/ (job # "active" /\ job' # "active"))
    BY <1>6 DEF Sync, ReadTree, Extract, StoreFact, EnqueueDerivation
  <2> QED BY <1>4, <2>1
<1>7. CASE Crash
  BY <1>2, <1>7, IdleValues DEF Crash, RunHolds
<1>8. CASE UNCHANGED vars \/ \E r \in Repos, s \in Shas : Commit(r, s)
  BY <1>4, <1>8 DEF vars, Commit
<1> QED BY <1>3, <1>5, <1>6, <1>7, <1>8 DEF Next

LEMMA MarksHoldNext ==
    ASSUME RowInv, CopiesHold, RunHolds, MarksHold, [Next]_vars PROVE MarksHold'
<1>0. TypeOK /\ clock \in Nat /\ run.started \in Nat /\ Seen = run.started + 1
  BY DEF RowInv, TypeOK, Seen
<1>t. \A i \in Ids : rel[i] # NoRow => rel[i].seen \in Nat
  BY <1>0, RowFields
<1>1. CASE People
  <2>1. /\ run' = run /\ clock' = clock
        /\ \A i \in Ids : \/ rel'[i] = rel[i] \/ rel'[i].seen = 0
                          \/ rel[i] # NoRow /\ rel'[i].seen = rel[i].seen
    BY <1>0, <1>1, PeopleEdit
  <2> QED BY <1>0, <2>1 DEF MarksHold, RunHolds
<1>2. CASE Reconcile
  <2>1. \A i \in Ids : \/ rel'[i] = rel[i]
                       \/ rel'[i].seen = Seen
                       \/ rel[i] # NoRow /\ rel'[i].seen = rel[i].seen
    BY <1>2, ReconcileRows DEF Swept
  <2>2. \/ run'.at = "list" /\ run'.started = clock + 2 /\ clock' = clock + 2 /\ rel' = rel
        \/ run'.at # "list" /\ clock' = clock
    BY <1>0, <1>2, ReconcileRuns, IdleValues
  <2> QED BY <1>0, <1>t, <2>1, <2>2 DEF MarksHold, RunHolds
<1>3. CASE UNCHANGED vars \/ Sync \/ Crash \/ \E r \in Repos, s \in Shas : Commit(r, s)
  <2>1. rel' = rel
    BY <1>0, <1>3, OthersLeaveRows
  <2>2. clock' = clock /\ (run' = run \/ run'.at = "idle")
    BY <1>3, IdleValues DEF vars, Sync, ReadTree, Extract, StoreFact, EnqueueDerivation,
                            Crash, Commit
  <2> QED BY <2>1, <2>2 DEF MarksHold
<1> QED BY <1>1, <1>2, <1>3 DEF Next

\* What people do leaves every edge on the graph that they do not delete, and makes
\* no derived row live.
LEMMA PeopleFollow ==
    ASSUME RowInv, CopiesHold, Followed, People PROVE Followed'
<1>0. TypeOK
  BY DEF RowInv
<1>1. /\ run' = run /\ fact' = fact /\ dismissed \subseteq dismissed'
      /\ \A i \in Ids :
            \/ rel'[i] = rel[i]
            \/ /\ rel[i] = NoRow /\ rel'[i] \in Row
               /\ rel'[i].by = "person" /\ rel'[i].seen = 0
            \/ /\ rel[i] # NoRow /\ rel'[i] \in Row /\ rel'[i].edge = rel[i].edge
               /\ rel'[i].by = "person" /\ rel'[i].live /\ rel'[i].seen = 0
            \/ /\ rel[i] # NoRow /\ rel'[i] \in Row /\ rel'[i].edge = rel[i].edge
               /\ rel'[i].by = rel[i].by /\ rel'[i].seen = rel[i].seen
               /\ ~rel'[i].live /\ rel[i].edge \in dismissed'
  BY <1>0, PeopleEdit
<1>2. ASSUME NEW e \in Derive(fact) \ (dismissed' \cup run.todo) PROVE Kept(e)'
  <2>1. Kept(e)
    BY <1>1 DEF Followed
  <2>2. PICK i \in Ids : /\ Live(i) /\ rel[i].edge = e
                         /\ rel[i].by = "person" \/ rel[i].seen >= run.started
    BY <2>1 DEF Kept
  <2>3. Live(i)' /\ rel'[i].edge = e /\ (rel'[i].by = "person" \/ rel'[i].seen >= run.started)
    BY <1>1, <2>2, NoRowAssumption DEF Live
  <2> QED BY <1>1, <2>3 DEF Kept
<1>3. ASSUME NEW i \in Ids, Derived(i)', Live(i)' PROVE rel'[i] = rel[i]
  BY <1>1, <1>3 DEF Derived, Live
<1> QED BY <1>1, <1>2, <1>3 DEF Followed, Derived, Live

\* The write puts its edge on the graph, marked.
LEMMA WriteFollows ==
    ASSUME RowInv, CopiesHold, RunHolds, Followed, run.at = "write", run'.at = "apply",
           NEW e \in Edges, UpsertWrite(e), run.edge = {e}, fact' = fact,
           run'.todo = run.todo \ {e}, run'.started = run.started,
           run'.complete = run.complete, dismissed' = dismissed \ {e}
    PROVE  Followed'
<1>0. /\ TypeOK /\ run.started \in Nat /\ Seen = run.started + 1
  BY DEF RowInv, TypeOK, Seen
<1>1. \A i \in Ids :
         \/ rel'[i] = rel[i]
         \/ /\ rel'[i] \in Row /\ rel'[i].edge = e
            /\ rel[i] # NoRow => rel'[i].edge = rel[i].edge
            /\ rel'[i].live /\ rel'[i].seen = Seen
  <2>1. Reconcile
    BY DEF Reconcile
  <2>2. \A i \in Ids :
           \/ rel'[i] = rel[i]
           \/ /\ rel'[i] \in Row /\ rel'[i].edge \in run.edge
              /\ rel[i] # NoRow => rel'[i].edge = rel[i].edge
              /\ rel'[i].live /\ rel'[i].seen = Seen
           \/ run.at = "apply"
    BY <2>1, ReconcileRows
  <2> QED BY <2>2
<1>2. e \in Derive(fact)
  BY DEF Followed, RunHolds
<1>3. Kept(e)'
  <2>1. \E i \in Ids : rel'[i] # NoRow /\ rel'[i].live /\ rel'[i].edge = e /\ rel'[i].seen = Seen
    <3>1. CASE run.id = 0
      <4>1. PICK i \in Ids :
              rel'[i] = [edge |-> e, by |-> "deriver", origin |-> "deriver",
                         text |-> "deriver", live |-> TRUE, seen |-> Seen]
        BY <1>0, <3>1, WriteRows, ConstantsAssumption
      <4>2. rel'[i] \in Row
        BY <1>0, <4>1 DEF Row, Authors
      <4> QED BY <4>1, <4>2, NoRowAssumption
    <3>2. CASE run.id # 0
      <4>1. /\ run.id \in Ids /\ rel[run.id] \in Row
            /\ rel'[run.id] = [rel[run.id] EXCEPT !.text = "deriver", !.live = TRUE,
                                                  !.seen = Seen]
        BY <1>0, <3>2, WriteRows
      <4>2. rel[run.id].edge = e
        BY <3>2 DEF RunHolds
      <4>3. /\ rel'[run.id] \in Row /\ rel'[run.id].edge = e
            /\ rel'[run.id].live /\ rel'[run.id].seen = Seen
        <5>1. Seen \in Nat
          BY <1>0
        <5> QED BY <4>1, <4>2, <5>1 DEF Row, Authors
      <4> QED BY <4>1, <4>3, NoRowAssumption
    <3> QED BY <3>1, <3>2
  <2> QED BY <1>0, <2>1 DEF Kept, Live
<1>4. ASSUME NEW d \in Derive(fact) \ (dismissed' \cup run'.todo), d # e PROVE Kept(d)'
  <2>1. Kept(d)
    BY <1>4 DEF Followed
  <2>2. PICK i \in Ids : /\ Live(i) /\ rel[i].edge = d
                         /\ rel[i].by = "person" \/ rel[i].seen >= run.started
    BY <2>1 DEF Kept
  <2>3. rel'[i] = rel[i]
    BY <1>1, <1>4, <2>2 DEF Live
  <2> QED BY <2>2, <2>3 DEF Kept, Live
<1>5. ASSUME AllComplete(fact), NEW i \in Ids, Derived(i)', Live(i)'
      PROVE  \/ rel'[i].edge \in Derive(fact)
             \/ rel'[i].seen < run.started
  BY <1>1, <1>2, <1>5 DEF Followed, Derived, Live
<1>6. run'.todo \subseteq Derive(fact) /\ run'.complete = AllComplete(fact)
  BY DEF Followed
<1> QED BY <1>3, <1>4, <1>5, <1>6 DEF Followed

\* The sweep takes exactly the rows the facts do not declare.
LEMMA SweepFollows ==
    ASSUME RowInv, RunHolds, Followed, FinishEdges, run.at = "apply", run'.at = "done",
           fact' = fact, run.todo = {}, run'.todo = {}, run'.started = run.started,
           run'.complete = run.complete, dismissed' = dismissed
    PROVE  Followed'
<1>0. TypeOK
  BY DEF RowInv
<1>1. /\ \A i \in Ids : \/ rel'[i] = rel[i]
                        \/ /\ i \in Swept /\ run.complete /\ rel[i] \in Row
                           /\ rel'[i] = [rel[i] EXCEPT !.live = FALSE]
  BY <1>0, SweepRows
<1>2. ASSUME NEW d \in Derive(fact) \ dismissed PROVE Kept(d)'
  <2>1. Kept(d)
    BY <1>2 DEF Followed
  <2>2. PICK i \in Ids : /\ Live(i) /\ rel[i].edge = d
                         /\ rel[i].by = "person" \/ rel[i].seen >= run.started
    BY <2>1 DEF Kept
  <2>3. i \notin Swept
    <3>1. rel[i].seen \in Nat /\ run.started \in Nat
      BY <1>0, <2>2, RowFields DEF Live, TypeOK
    <3> QED BY <2>2, <3>1 DEF Swept
  <2>4. rel'[i] = rel[i]
    BY <1>1, <2>3
  <2> QED BY <2>2, <2>4 DEF Kept, Live
<1>3. ASSUME AllComplete(fact), NEW i \in Ids, Derived(i)', Live(i)'
      PROVE  rel'[i].edge \in Derive(fact)
  <2>1. rel'[i] = rel[i]
    BY <1>1, <1>3 DEF Live, Row
  <2>2. run.complete
    BY <1>3 DEF Followed
  <2>3. i \notin Swept
    <3>1. rel[i] \in Row /\ rel[i].live
      BY <1>0, <1>3, <2>1, RowFields DEF Live
    <3>2. ~[rel[i] EXCEPT !.live = FALSE].live
      BY <3>1 DEF Row
    <3>3. rel' = [j \in Ids |-> IF j \in Swept THEN [rel[j] EXCEPT !.live = FALSE] ELSE rel[j]]
      BY <2>2 DEF FinishEdges
    <3>4. i \in Swept => rel'[i] = [rel[i] EXCEPT !.live = FALSE]
      BY <3>3
    <3> QED BY <2>1, <3>1, <3>2, <3>4
  <2> QED BY <1>3, <2>1, <2>3 DEF Followed, Swept, Derived, Live
<1>4. run'.todo \subseteq Derive(fact) /\ run'.complete = AllComplete(fact)
  BY DEF Followed
<1> QED BY <1>2, <1>3, <1>4 DEF Followed

\* A step that leaves facts, rows, run and dismissals leaves what was followed.
LEMMA FollowedKept ==
    ASSUME Followed, fact' = fact, rel' = rel, run' = run, dismissed' = dismissed
    PROVE  Followed'
  BY DEF Followed, Kept, Live, Derived

LEMMA SyncFollows ==
    ASSUME RowInv, RunHolds, ~Pending => Followed, Sync, ~Pending' PROVE Followed'
<1>0. TypeOK
  BY DEF RowInv
<1> PICK y \in Syncers : \/ \E r \in Repos : ReadTree(y, r)
                         \/ Extract(y) \/ StoreFact(y) \/ EnqueueDerivation(y)
  BY DEF Sync
<1>1. sync \in [Syncers -> [at : {"idle", "extract", "store", "enqueue"},
                            repo : Repos, sha : Shas, got : Fact \cup {NoFact}]]
  BY <1>0 DEF TypeOK
<1>2. ASSUME fact' = fact, rel' = rel, run' = run, dismissed' = dismissed,
             job' = job, missed' = missed,
             \A z \in Syncers \ {y} : sync'[z] = sync[z], sync[y].at # "enqueue"
      PROVE  Followed'
  <2>1. ~Pending
    BY <1>2 DEF Pending
  <2> QED BY <1>2, <2>1, FollowedKept
<1>3. ASSUME NEW r \in Repos, ReadTree(y, r) PROVE Followed'
  BY <1>1, <1>2, <1>3 DEF ReadTree
<1>4. CASE Extract(y)
  <2>1. \A z \in Syncers \ {y} : sync'[z] = sync[z]
    BY <1>1, <1>4 DEF Extract
  <2> QED BY <1>2, <1>4, <2>1 DEF Extract
<1>5. CASE StoreFact(y)
  <2>1. CASE fact' = [fact EXCEPT ![sync[y].repo] = sync[y].got]
             /\ sync' = [sync EXCEPT ![y].at = "enqueue", ![y].got = NoFact]
    <3>1. sync'[y].at = "enqueue"
      BY <1>1, <2>1
    <3> QED BY <3>1 DEF Pending
  <2>2. CASE sync' = [sync EXCEPT ![y] = IdleSync] /\ UNCHANGED fact
    BY <1>1, <1>2, <1>5, <2>2 DEF StoreFact
  <2> QED BY <1>5, <2>1, <2>2 DEF StoreFact
<1>6. CASE EnqueueDerivation(y)
  <2>1. job' = "waiting" \/ missed' \/ WillList
    BY <1>6 DEF EnqueueDerivation
  <2>2. WillList => Pending'
    BY <1>6 DEF WillList, Pending, EnqueueDerivation
  <2> QED BY <2>1, <2>2 DEF Pending
<1> QED BY <1>3, <1>4, <1>5, <1>6

LEMMA ReconcileFollows ==
    ASSUME RowInv, CopiesHold, RunHolds, MarksHold, ~Pending => Followed, Reconcile, ~Pending'
    PROVE  Followed'
<1>0. TypeOK /\ run.started \in Nat
  BY DEF RowInv, TypeOK
<1>1. CASE run.at = "list" /\ run'.at = "apply" /\ job' = job /\ rel' = rel
           /\ run'.started = run.started /\ fact' = fact
           /\ run'.todo = Derive(fact) /\ run'.complete = AllComplete(fact)
           /\ dismissed' = dismissed
  <2>1. \A i \in Ids : rel[i] # NoRow => rel[i].seen < run.started
    BY <1>1 DEF MarksHold
  <2> QED BY <1>1, <2>1 DEF Followed, Derived
<1>2. ASSUME fact' = fact, sync' = sync, job' = job, missed' = missed, run.at # "list"
      PROVE  Followed
  BY <1>2 DEF Pending
<1>3. CASE run.at = "apply" /\ run'.at = "write" /\ job' = job /\ rel' = rel
           /\ run'.started = run.started /\ fact' = fact /\ sync' = sync
           /\ run'.todo = run.todo /\ run'.complete = run.complete
           /\ missed' = missed /\ dismissed' = dismissed
  <2>1. Followed
    BY <1>2, <1>3
  <2> QED BY <1>3, <2>1 DEF Followed, Kept, Derived, Live
<1>4. ASSUME NEW e \in Edges, UpsertWrite(e), run.edge = {e}, run'.todo = run.todo \ {e},
             dismissed' = dismissed \ {e}, run.at = "write", run'.at = "apply", job' = job,
             run'.started = run.started, run'.complete = run.complete, missed' = missed,
             fact' = fact, sync' = sync
      PROVE  Followed'
  BY <1>2, <1>4, WriteFollows
<1>5. CASE FinishEdges /\ run.at = "apply" /\ run'.at = "done" /\ job' = job
           /\ run'.started = run.started /\ fact' = fact /\ sync' = sync
           /\ run.todo = {} /\ run'.todo = {} /\ run'.complete = run.complete
           /\ missed' = missed /\ dismissed' = dismissed
  BY <1>2, <1>5, SweepFollows
<1>6. CASE run' = IdleRun /\ fact' = fact /\ sync' = sync /\ rel' = rel
           /\ missed' = missed /\ dismissed' = dismissed
           /\ run.at = "done" /\ job' = "none"
  <2>1. job = "active" /\ run.todo = {}
    BY <1>6 DEF RunHolds
  <2>2. Followed
    BY <1>6, <2>1 DEF Pending
  <2>3. \A i \in Ids : rel[i] # NoRow => rel[i].seen >= 0
    BY <1>0, RowFields
  <2>4. run'.at = "idle" /\ run'.todo = {} /\ run'.started = 0
    BY <1>6, IdleValues
  <2>5. ASSUME NEW e, Kept(e) PROVE Kept(e)'
    BY <1>6, <2>3, <2>4, <2>5 DEF Kept, Live
  <2>6. \A e \in Derive(fact) \ (dismissed' \cup run'.todo) : Kept(e)'
    BY <1>6, <2>1, <2>2, <2>5 DEF Followed
  <2> QED BY <1>6, <2>2, <2>4, <2>6 DEF Followed, Derived, Live
<1>7. run'.at # "list" /\ job' \notin {"waiting", "archived"}
  BY DEF Pending
<1>8. \/ /\ run.at = "list" /\ run'.at = "apply" /\ job' = job /\ rel' = rel
         /\ run'.started = run.started /\ fact' = fact
         /\ run'.todo = Derive(fact) /\ run'.complete = AllComplete(fact)
         /\ dismissed' = dismissed
      \/ /\ run.at = "apply" /\ run'.at = "write" /\ job' = job /\ rel' = rel
         /\ run'.started = run.started /\ fact' = fact /\ sync' = sync
         /\ run'.todo = run.todo /\ run'.complete = run.complete
         /\ missed' = missed /\ dismissed' = dismissed
      \/ \E e \in Edges :
           /\ UpsertWrite(e) /\ run.edge = {e} /\ run'.todo = run.todo \ {e}
           /\ dismissed' = dismissed \ {e} /\ run.at = "write" /\ run'.at = "apply"
           /\ job' = job /\ run'.started = run.started /\ run'.complete = run.complete
           /\ missed' = missed /\ fact' = fact /\ sync' = sync
      \/ /\ FinishEdges /\ run.at = "apply" /\ run'.at = "done" /\ job' = job
         /\ run'.started = run.started /\ fact' = fact /\ sync' = sync
         /\ run.todo = {} /\ run'.todo = {} /\ run'.complete = run.complete
         /\ missed' = missed /\ dismissed' = dismissed
      \/ /\ run' = IdleRun /\ fact' = fact /\ sync' = sync /\ rel' = rel
         /\ missed' = missed /\ dismissed' = dismissed
         /\ run.at = "done" /\ job' = "none"
  BY <1>0, <1>7, ReconcileRuns
<1> QED BY <1>1, <1>3, <1>4, <1>5, <1>6, <1>8

LEMMA FollowNext == FollowInv /\ [Next]_vars => FollowInv'
<1> SUFFICES ASSUME FollowInv, [Next]_vars PROVE FollowInv'
  OBVIOUS
<1> USE DEF FollowInv
<1>1. RowInv' /\ CopiesHold' /\ RunHolds' /\ MarksHold'
  BY RowNext, CopiesNext, RunHoldsNext, MarksHoldNext
<1>2. ASSUME ~Pending' PROVE Followed'
  <2>1. CASE Sync
    BY <1>2, <2>1, SyncFollows
  <2>2. CASE Reconcile
    BY <1>2, <2>2, ReconcileFollows
  <2>3. CASE People
    <3>1. TypeOK
      BY DEF RowInv
    <3>2. run' = run /\ sync' = sync /\ job' = job /\ missed' = missed
      BY <2>3, <3>1, PeopleEdit
    <3>3. ~Pending
      BY <1>2, <3>2 DEF Pending
    <3> QED BY <2>3, <3>3, PeopleFollow
  <2>4. CASE Crash
    <3>1. job # "active" /\ job' = job
      BY <1>2, <2>4 DEF Crash, Pending
    <3>2. run.at = "idle" /\ run.todo = {}
      BY <3>1 DEF RunHolds
    <3>3. ~Pending
      BY <1>2, <2>4, <3>1, <3>2 DEF Crash, Pending
    <3>4. run'.at = "idle" /\ run'.todo = {} /\ run'.started = 0
      BY <2>4, IdleValues DEF Crash
    <3>5. \A i \in Ids : rel[i] # NoRow => rel[i].seen >= 0
      BY RowFields DEF RowInv
    <3>6. fact' = fact /\ rel' = rel /\ dismissed' = dismissed
      BY <2>4 DEF Crash
    <3>7. ASSUME NEW e, Kept(e) PROVE Kept(e)'
      BY <3>4, <3>5, <3>6, <3>7 DEF Kept, Live
    <3> QED BY <3>2, <3>3, <3>4, <3>6, <3>7 DEF Followed, Derived, Live
  <2>5. CASE UNCHANGED vars \/ \E r \in Repos, s \in Shas : Commit(r, s)
    <3>1. /\ fact' = fact /\ rel' = rel /\ run' = run /\ dismissed' = dismissed
          /\ sync' = sync /\ job' = job /\ missed' = missed
      BY <2>5 DEF vars, Commit
    <3>2. ~Pending
      BY <1>2, <3>1 DEF Pending
    <3> QED BY <3>1, <3>2, FollowedKept
  <2> QED BY <2>1, <2>2, <2>3, <2>4, <2>5 DEF Next
<1> QED BY <1>1, <1>2

LEMMA FollowImplies == FollowInv => GraphFollowsFacts
<1> SUFFICES ASSUME FollowInv, Quiet, ~missed
             PROVE  /\ \A e \in Derive(fact) \ dismissed :
                          \E i \in Ids : Live(i) /\ rel[i].edge = e
                    /\ AllComplete(fact) =>
                          \A i \in Ids : Derived(i) /\ Live(i) => rel[i].edge \in Derive(fact)
  BY DEF GraphFollowsFacts
<1>1. run.at = "idle" /\ run.todo = {}
  BY DEF FollowInv, Quiet, RunHolds
<1>2. Followed
  BY <1>1 DEF FollowInv, Quiet, Pending
<1> QED BY <1>1, <1>2 DEF Followed, Kept

\* Once no derivation is queued or running and no stored fact was left without one,
\* the graph asserts what the facts declare, except what people deleted, and, when
\* the facts are whole, derives nothing else: whatever failed, died, was retried or
\* was edited by people on the way.
THEOREM GraphAtRest == Spec => []GraphFollowsFacts
  BY FollowInit, FollowNext, FollowImplies, PTL DEF Spec
-----------------------------------------------------------------------------
(* Contested names *)

\* The run asserts what it read, and the rows it did not assert are those its sweep
\* finds; once it has swept, there are none.
RunAsserts ==
    /\ run.at \in {"apply", "write", "done"} =>
        /\ run.todo \subseteq Derive(run.read)
        /\ run.complete = AllComplete(run.read)
        /\ \A r \in Repos : Honest(run.read[r], r)
    /\ run.at \in {"apply", "write"} =>
        \A i \in Ids : Derived(i) /\ Live(i) =>
            rel[i].edge \in Derive(run.read) \/ rel[i].seen < run.started
    /\ run.at = "done" /\ AllComplete(run.read) =>
        \A i \in Ids : Derived(i) /\ Live(i) => rel[i].edge \in Derive(run.read)

AssertInv == RowInv /\ CopiesHold /\ RunHolds /\ MarksHold /\ ListingHolds /\ FactsHonest
                /\ RunAsserts

LEMMA AssertInit == Init => AssertInv
<1> SUFFICES ASSUME Init PROVE AssertInv
  OBVIOUS
<1>1. run.at = "idle"
  BY IdleValues DEF Init
<1> QED BY <1>1, FollowInit, SweepInit DEF AssertInv, FollowInv, SweepInv, RunAsserts

\* What a run has read stays as it was until it ends.
LEMMA ReadsLast ==
    ASSUME TypeOK, NEW e \in Edges, UpsertLookup(e) \/ UpsertWrite(e) \/ FinishEdges
    PROVE  run'.read = run.read
  BY DEF TypeOK, UpsertLookup, UpsertWrite, FinishEdges

LEMMA ReconcileAsserts == ASSUME AssertInv, Reconcile PROVE RunAsserts'
<1>0. TypeOK /\ run.started \in Nat /\ Seen = run.started + 1
  BY DEF AssertInv, RowInv, TypeOK, Seen
<1>t. \A i \in Ids : rel[i] # NoRow => rel[i].seen \in Nat
  BY <1>0, RowFields
<1>1. CASE run'.at \notin {"apply", "write", "done"}
  BY <1>1 DEF RunAsserts
<1>2. CASE ListFacts
  <2>1. /\ run'.at = "apply" /\ run'.read = fact /\ run'.todo = Derive(fact)
        /\ run'.complete = AllComplete(fact) /\ run'.started = run.started
        /\ run.at = "list" /\ rel' = rel
    BY <1>0, <1>2 DEF ListFacts, TypeOK
  <2>2. \A i \in Ids : rel[i] # NoRow => rel[i].seen < run.started
    BY <2>1 DEF AssertInv, MarksHold
  <2> QED BY <2>1, <2>2 DEF RunAsserts, AssertInv, FactsHonest, Derived
<1>3. ASSUME NEW e \in Edges, UpsertLookup(e) PROVE RunAsserts'
  <2>1. /\ run'.at = "write" /\ run.at = "apply" /\ rel' = rel /\ run'.todo = run.todo
        /\ run'.complete = run.complete /\ run'.started = run.started /\ run'.read = run.read
    BY <1>0, <1>3 DEF UpsertLookup, TypeOK
  <2> QED BY <2>1 DEF AssertInv, RunAsserts, Derived, Live
<1>4. ASSUME NEW e \in Edges, UpsertWrite(e) PROVE RunAsserts'
  <2>1. /\ run'.at = "apply" /\ run.at = "write" /\ run'.todo = run.todo \ {e}
        /\ run'.complete = run.complete /\ run'.started = run.started /\ run'.read = run.read
        /\ run.edge = {e}
    BY <1>0, <1>4 DEF UpsertWrite, TypeOK
  <2>2. e \in Derive(run.read)
    BY <2>1 DEF AssertInv, RunHolds, RunAsserts
  <2>3. Reconcile
    BY <1>4 DEF Reconcile
  <2>4. \A i \in Ids : rel'[i] = rel[i] \/ rel'[i].edge = e
    BY <2>1, <2>3, ReconcileRows DEF AssertInv
  <2> QED BY <2>1, <2>2, <2>4 DEF AssertInv, RunAsserts, Derived, Live
<1>5. CASE FinishEdges
  <2>1. /\ run'.at = "done" /\ run.at = "apply" /\ run'.todo = run.todo
        /\ run'.complete = run.complete /\ run'.read = run.read
    BY <1>0, <1>5 DEF FinishEdges, TypeOK
  <2>2. ASSUME AllComplete(run.read), NEW i \in Ids, Derived(i)', Live(i)'
        PROVE  rel'[i].edge \in Derive(run.read)
    <3>1. rel' = [j \in Ids |-> IF j \in Swept THEN [rel[j] EXCEPT !.live = FALSE] ELSE rel[j]]
      BY <1>5, <2>1, <2>2 DEF FinishEdges, AssertInv, RunAsserts
    <3>2. i \notin Swept
      <4>1. SUFFICES ASSUME i \in Swept PROVE FALSE
        OBVIOUS
      <4>2. rel'[i] = [rel[i] EXCEPT !.live = FALSE] /\ rel[i] \in Row
        BY <1>0, <3>1, <4>1, RowFields DEF Swept
      <4> QED BY <2>2, <4>2 DEF Row, Live
    <3>3. rel'[i] = rel[i]
      BY <3>1, <3>2
    <3> QED BY <2>1, <2>2, <3>2, <3>3 DEF AssertInv, RunAsserts, Swept, Derived, Live
  <2> QED BY <2>1, <2>2 DEF AssertInv, RunAsserts
<1>6. CASE StartRun \/ FinishRun \/ FailRun
  <2>1. run'.at \in {"list", "idle"}
    BY <1>6, IdleValues DEF StartRun, FinishRun, FailRun, IdleRun
  <2> QED BY <1>1, <2>1
<1> QED BY <1>2, <1>3, <1>4, <1>5, <1>6 DEF Reconcile

LEMMA AssertNext == ASSUME ~MidReadCommits, AssertInv, [Next]_vars PROVE AssertInv'
<1>0. TypeOK
  BY DEF AssertInv, RowInv
<1>1. RowInv' /\ CopiesHold' /\ RunHolds' /\ MarksHold' /\ ListingHolds' /\ FactsHonest'
  BY <1>0, RowNext, CopiesNext, RunHoldsNext, MarksHoldNext, FactsNext DEF AssertInv
<1>2. CASE People
  <2>1. /\ run' = run
        /\ \A i \in Ids : Derived(i)' =>
              /\ Derived(i) /\ rel'[i].edge = rel[i].edge /\ rel'[i].seen = rel[i].seen
              /\ Live(i)' => Live(i)
    BY <1>0, <1>2, PeopleRows DEF AssertInv, RowInv
  <2> QED BY <1>1, <2>1 DEF AssertInv, RunAsserts
<1>3. CASE Crash
  <2>1. run'.at = "idle"
    BY <1>3, IdleValues DEF Crash
  <2> QED BY <1>1, <2>1 DEF AssertInv, RunAsserts
<1>4. CASE UNCHANGED vars \/ Sync \/ \E r \in Repos, s \in Shas : Commit(r, s)
  <2>1. rel' = rel /\ run' = run
    BY <1>4 DEF vars, Commit, Sync, ReadTree, Extract, StoreFact, EnqueueDerivation
  <2> QED BY <1>1, <2>1 DEF AssertInv, RunAsserts, Derived, Live
<1> QED BY <1>1, <1>2, <1>3, <1>4, ReconcileAsserts DEF Next, AssertInv

\* The facts tell all there is, so that the claimants of a name in them are those of
\* the trees.
LEMMA AssertImplies == AssertInv => ContestedIsNotAsserted
<1> SUFFICES ASSUME AssertInv, NEW i \in Ids, Derived(i), Live(i), run.at = "done",
                    \A r \in Repos : run.read[r] # NoFact /\ run.read[r].complete
             PROVE  Cardinality({r \in Repos :
                        rel[i].edge.name \in Content[r][run.read[r].sha].pub}) <= 1
  BY DEF ContestedIsNotAsserted
<1>1. rel[i].edge \in Derive(run.read)
  BY DEF AssertInv, RunAsserts, AllComplete
<1>2. Claimants(run.read, rel[i].edge.name) = {rel[i].edge.dst}
  BY <1>1 DEF Derive
<1>3. \A r \in Repos : run.read[r].pub = Content[r][run.read[r].sha].pub
  <2> SUFFICES ASSUME NEW r \in Repos
               PROVE  run.read[r].pub = Content[r][run.read[r].sha].pub
    OBVIOUS
  <2> DEFINE f == run.read[r]
  <2>1. f = FactOf(Content[r][f.sha], f.sha, TRUE)
    BY DEF AssertInv, RunAsserts, Honest
  <2>2. FactOf(Content[r][f.sha], f.sha, TRUE).pub = Content[r][f.sha].pub
    BY DEF FactOf
  <2> HIDE DEF f
  <2>3. f.pub = Content[r][f.sha].pub
    BY <2>1, <2>2
  <2> QED BY <2>3 DEF f
<1>4. {r \in Repos : rel[i].edge.name \in Content[r][run.read[r].sha].pub} = {rel[i].edge.dst}
  BY <1>2, <1>3 DEF Claimants
<1>5. Cardinality({rel[i].edge.dst}) = 1
  BY FS_Singleton
<1>6. Cardinality({rel[i].edge.dst}) <= 1
  BY <1>5
<1> QED BY <1>4, <1>6, Zenon

\* While no commit lands in the middle of an extraction and every repository has told
\* all of its tree, a run leaves no derived edge to a name that two repositories
\* publish, whatever failed, died or was edited on the way.
THEOREM ContestedNamesAreNotAsserted ==
    ASSUME ~MidReadCommits PROVE Spec => []ContestedIsNotAsserted
<1>1. AssertInv /\ [Next]_vars => AssertInv'
  BY AssertNext
<1> QED BY <1>1, AssertInit, AssertImplies, PTL DEF Spec

-----------------------------------------------------------------------------
(* The graph (GraphView) *)

CONSTANTS OwnerOf, Asks, Wishes
V == INSTANCE GraphView

ViewFields == {"at", "ask", "status", "total", "repos", "matched", "rels", "nodes", "edges"}
RelFields == {"live", "src", "dst", "kind", "source", "confidence", "derived"}
Ours(r) == r \in Repositories /\ OrgOf[r] = "own"

\* A row, whatever became of the repositories.
Whole(r) == DOMAIN r = RelFields /\ Ours(r.src) /\ Ours(r.dst)
NoRowYet(r) == DOMAIN r = {"live", "src"} /\ r.src = 0 /\ ~r.live
RowIs(r) == NoRowYet(r) \/ (Whole(r) /\ IsValid(r) /\ Present(r.src) /\ Present(r.dst))

TablesInv ==
    /\ repo \in [Repositories -> Statuses]
    /\ api \in [DOMAIN APIOf -> Statuses]
    /\ link \in [Links -> Statuses]
    /\ DOMAIN relation = Rels /\ \A i \in Rels : RowIs(relation[i])
    /\ \A x \in DOMAIN APIOf : api[x] = "live" => Present(APIOf[x])

(* What was checked of a wish stays so: repositories do not move. *)
RequestInv ==
    /\ request.at \in {"source", "target", "insert"} =>
          IsValidRepositoryRelationshipKind(request.wish.kind) /\ request.wish.src # request.wish.dst
    /\ request.at \in {"target", "insert"} => Ours(request.wish.src)
    /\ request.at = "insert" => Ours(request.wish.dst)
    /\ request.at \in {"save", "delete"} => request.id \in Rels
    /\ request.at = "save" => Whole(request.copy)

FloorOK(asked) == asked.floor = NaN \/ asked.floor \in 0..4
CutIn(v) == Cardinality(v.repos) < Cardinality(v.matched)

\* What was listed of the repositories.
PageOK(v) ==
    /\ v.repos \subseteq v.matched /\ \A r \in v.matched : Ours(r)
    /\ ~CutIn(v) => v.repos = v.matched
    /\ v.ask.what = "graph" => \A r \in Own : Stood(<<"repo", r>>) => r \in v.matched

\* What was read, up to any of the later queries.
RelsOK(v) ==
    /\ \A x, y \in v.rels : x.id = y.id => x = y
    /\ \A i \in Rels : relation[i].live /\ Passes(v.ask, relation[i]) /\ Stood(<<"rel", i>>) =>
          \E x \in v.rels : x.id = i /\ x.row = relation[i]
NodesOK(v) == \A r \in Repositories : <<"repo", r>> \in v.nodes <=> r \in v.repos
EdgesOK(v) ==
    \A e \in v.edges : \/ \E x \in DOMAIN APIOf : e = V!APIProvidesEdge(x)
                       \/ \E l \in Links : e = V!ResourceUsesEdge(l)
APIsOK(v) ==
    \A x \in DOMAIN APIOf : <<"api", x>> \in v.nodes =>
        /\ V!APIProvidesEdge(x) \in v.edges
        /\ ~CutIn(v) /\ Stood(<<"repo", APIOf[x]>>) => APIOf[x] \in v.repos
Collected(v) == FloorOK(v.ask) /\ PageOK(v) /\ RelsOK(v) /\ NodesOK(v) /\ EdgesOK(v) /\ APIsOK(v)

Reads(v) ==
    /\ v.at \in {"idle", "fetch", "count", "page", "relationships", "apis", "resources", "links", "shown", "refused"}
    /\ v.at # "idle" => DOMAIN v = ViewFields /\ v.ask \in Asks
    /\ v.at \in {"fetch", "relationships", "apis", "resources", "links"} => v.ask.what = "graph"
    /\ v.at \in {"count", "page", "relationships"} => v.rels = {} /\ v.nodes = {} /\ v.edges = {}
    /\ v.at \in {"count", "page"} => v.repos = {} /\ v.matched = {}
    /\ v.at = "count" => v.total = 0
    /\ v.at \in {"count", "page", "relationships"} /\ v.ask.what = "graph" => FloorOK(v.ask)
    /\ v.at = "page" /\ touched = {} => v.total = Cardinality(V!OwnedBy(v.ask.team))
    /\ v.at = "relationships" => PageOK(v)
    /\ v.at \in {"apis", "resources", "links"} => Collected(v)
    /\ v.at = "apis" => v.edges = {} /\ \A x \in DOMAIN APIOf : <<"api", x>> \notin v.nodes

ViewInv == Reads(view) /\ GraphIsSound /\ PageMatchesTotal

GraphInv == TablesInv /\ RequestInv /\ ViewInv

GraphConstants ==
    /\ IsFiniteSet(Repositories) /\ Repositories \subseteq Nat \ {0} /\ DefaultLimit \in Nat \ {0}
    /\ \A x \in DOMAIN APIOf : APIOf[x] \in Repositories
    /\ \A q \in Asks : q.what \in {"graph", "list"} /\ q.limit \in Int /\ q.offset \in Int
    /\ \A q \in Asks : q.what = "graph" => q.limit = 0 /\ q.offset = 0 /\ q.team = None

LEMMA GraphConstantsAre == V!ViewAssumption => GraphConstants
<1>1. V!IsFiniteSet(Repositories) <=> IsFiniteSet(Repositories) BY DEF V!IsFiniteSet, IsFiniteSet
<1> QED BY <1>1 DEF V!ViewAssumption, GraphConstants, V!None, None

LEMMA SameOnGraph ==
    /\ \A r : V!Present(r) <=> Present(r)
    /\ V!Own = Own
    /\ \A r : V!IsValid(r) <=> IsValid(r)
    /\ \A k : V!IsValidRepositoryRelationshipKind(k) <=> IsValidRepositoryRelationshipKind(k)
    /\ \A n : V!Limit(n) = Limit(n)
    /\ \A S : V!Cardinality(S) = Cardinality(S)
    /\ V!NaN = NaN /\ V!None = None
<1>1. \A r : V!Present(r) <=> Present(r) BY DEF V!Present, Present
<1>2. V!Own = Own BY <1>1 DEF V!Own, Own
<1>3. \A k : V!IsValidRepositoryRelationshipKind(k) <=> IsValidRepositoryRelationshipKind(k)
  BY DEF V!IsValidRepositoryRelationshipKind, IsValidRepositoryRelationshipKind
<1>4. \A r : V!IsValid(r) <=> IsValid(r)
  BY DEF V!IsValid, IsValid, V!IsValidRepositoryRelationshipKind, IsValidRepositoryRelationshipKind,
         V!IsValidRepositoryRelationshipSource, IsValidRepositoryRelationshipSource
<1>5. \A n : V!Limit(n) = Limit(n) BY DEF V!Limit, Limit
<1>6. \A S : V!Cardinality(S) = Cardinality(S) BY DEF V!Cardinality, Cardinality
<1>7. V!NaN = NaN /\ V!None = None BY DEF V!NaN, NaN, V!None, None
<1> QED BY <1>1, <1>2, <1>3, <1>4, <1>5, <1>6, <1>7

-----------------------------------------------------------------------------
(* Rows and requests *)

LEMMA NoRelIs == NoRowYet(V!NoRel)
BY DEF V!NoRel, NoRowYet

LEMMA RelationshipIs ==
    ASSUME NEW src, NEW dst, NEW kind, NEW source, NEW confidence, NEW derived, NEW r,
           r = V!Relationship(src, dst, kind, source, confidence, derived)
    PROVE  /\ DOMAIN r = RelFields /\ r.src = src /\ r.dst = dst /\ r.kind = kind
           /\ r.source = source /\ r.confidence = confidence
BY DEF V!Relationship, RelFields

LEMMA DeletedIs ==
    ASSUME NEW r, DOMAIN r = RelFields, NEW d, d = V!Deleted(r)
    PROVE  /\ DOMAIN d = RelFields /\ d.src = r.src /\ d.dst = r.dst /\ d.kind = r.kind
           /\ d.source = r.source /\ d.confidence = r.confidence
BY DEF V!Deleted, RelFields

LEMMA PromotedIs ==
    ASSUME NEW r, DOMAIN r = RelFields, NEW w, NEW d, d = V!Promoted(r, w)
    PROVE  DOMAIN d = RelFields /\ d.src = r.src /\ d.dst = r.dst
BY DEF V!Promoted, RelFields

\* A deleted row still is one.
LEMMA DeletedStays ==
    ASSUME NEW r, RowIs(r)
    PROVE  RowIs(V!Deleted(r))
<1>1. PICK d : d = V!Deleted(r) OBVIOUS
<1>2. CASE NoRowYet(r) BY <1>2 DEF RowIs, NoRowYet, V!Deleted
<1>3. CASE Whole(r) /\ IsValid(r) /\ Present(r.src) /\ Present(r.dst)
  <2>1. /\ DOMAIN d = RelFields /\ d.src = r.src /\ d.dst = r.dst /\ d.kind = r.kind
        /\ d.source = r.source /\ d.confidence = r.confidence
    BY <1>1, <1>3, DeletedIs DEF Whole
  <2>2. Whole(d) /\ Present(d.src) /\ Present(d.dst) BY <1>3, <2>1 DEF Whole
  <2>3. IsValid(d) BY <1>3, <2>1 DEF IsValid
  <2> QED BY <1>1, <2>2, <2>3 DEF RowIs
<1> QED BY <1>2, <1>3 DEF RowIs

\* One row is written.
LEMMA RowWrittenOnGraph ==
    ASSUME TablesInv, NEW i \in Rels, NEW r, RowIs(r), relation' = [relation EXCEPT ![i] = r],
           UNCHANGED <<repo, api, link>>
    PROVE  TablesInv'
<1>1. DOMAIN relation' = Rels /\ \A j \in Rels : relation'[j] = IF j = i THEN r ELSE relation[j]
  BY DEF TablesInv
<1>2. \A j \in Rels : RowIs(relation'[j]) BY <1>1 DEF TablesInv
<1>3. repo' = repo /\ api' = api /\ link' = link OBVIOUS
<1>4. \A x : RowIs(x)' <=> RowIs(x) BY <1>3 DEF RowIs, Present
<1>5. \A x : Present(x)' <=> Present(x) BY <1>3 DEF Present
<1>6. \A j \in Rels : RowIs(relation[j])' BY <1>2, <1>3 DEF RowIs, Present
<1> QED BY <1>1, <1>3, <1>5, <1>6 DEF TablesInv

\* A repository goes, with what refers to it.
LEMMA DeleteRepositoryOK ==
    ASSUME TablesInv, GraphConstants, NEW r \in Repositories, V!DeleteRepository(r)
    PROVE  TablesInv'
<1>1. repo' = [repo EXCEPT ![r] = "gone"] BY DEF V!DeleteRepository
<1>2. api' = [x \in DOMAIN api |-> IF APIOf[x] = r /\ api[x] = "live" THEN "gone" ELSE api[x]]
  BY DEF V!DeleteRepository
<1>3. link' = [l \in Links |-> IF l.repo = r /\ link[l] = "live" THEN "gone" ELSE link[l]]
  BY DEF V!DeleteRepository
<1>4. relation' = [i \in Rels |-> IF relation[i].src # 0 /\ r \in {relation[i].src, relation[i].dst} THEN V!NoRel
                                  ELSE relation[i]]
  BY DEF V!DeleteRepository
<1>5. \A q : q # r => (Present(q)' <=> Present(q)) BY <1>1 DEF Present, TablesInv
<1>6. repo' \in [Repositories -> Statuses] BY <1>1 DEF TablesInv, Statuses
<1>7. api' \in [DOMAIN APIOf -> Statuses] BY <1>2 DEF TablesInv, Statuses
<1>8. link' \in [Links -> Statuses] BY <1>3 DEF TablesInv, Statuses
<1>9. ASSUME NEW i \in Rels PROVE RowIs(relation[i])'
  <2>1. PICK x : x = relation[i] OBVIOUS
  <2>2. NoRowYet(x) \/ (Whole(x) /\ IsValid(x) /\ Present(x.src) /\ Present(x.dst)) BY <2>1 DEF TablesInv, RowIs
  <2>3. relation'[i] = IF x.src # 0 /\ r \in {x.src, x.dst} THEN V!NoRel ELSE x BY <1>4, <2>1
  <2>4. CASE relation'[i] = V!NoRel BY <2>4, NoRelIs DEF RowIs, NoRowYet
  <2>6. CASE relation'[i] = x /\ NoRowYet(x) BY <2>6 DEF RowIs, NoRowYet
  <2>5. CASE relation'[i] = x /\ ~NoRowYet(x) /\ ~(x.src # 0 /\ r \in {x.src, x.dst})
    <3>1. x.src # 0 BY <2>2, <2>5 DEF Whole, Ours, GraphConstants
    <3>2. x.src # r /\ x.dst # r BY <2>5, <3>1
    <3>3. Present(x.src)' /\ Present(x.dst)' BY <1>5, <2>2, <2>5, <3>2
    <3>4. Whole(x) /\ IsValid(x) BY <2>2, <2>5
    <3>5. PICK z : z = relation'[i] OBVIOUS
    <3>6. z = x BY <2>5, <3>5
    <3>7. Whole(z) /\ IsValid(z) /\ Present(z.src)' /\ Present(z.dst)' BY <3>3, <3>4, <3>6
    <3> QED BY <3>5, <3>7 DEF RowIs, Whole, IsValid, Present
  <2> QED BY <2>3, <2>4, <2>5, <2>6
<1>10. ASSUME NEW x \in DOMAIN APIOf, api'[x] = "live" PROVE Present(APIOf[x])'
  <2>1. x \in DOMAIN api BY DEF TablesInv
  <2>2. api[x] = "live" /\ APIOf[x] # r BY <1>2, <1>10, <2>1
  <2> QED BY <1>5, <2>2 DEF TablesInv
<1>11. DOMAIN relation' = Rels BY <1>4
<1> QED BY <1>6, <1>7, <1>8, <1>9, <1>10, <1>11 DEF TablesInv

LEMMA CreateRepositoryOK ==
    ASSUME TablesInv, NEW r \in Repositories, V!CreateRepository(r)
    PROVE  TablesInv'
<1>1. repo' = [repo EXCEPT ![r] = "live"] /\ api' = api /\ link' = link /\ relation' = relation
  BY DEF V!CreateRepository
<1>2. repo' \in [Repositories -> Statuses] BY <1>1 DEF TablesInv, Statuses
<1>3. \A q : Present(q) => Present(q)' BY <1>1 DEF Present, TablesInv
<1>4. ASSUME NEW i \in Rels PROVE RowIs(relation[i])'
  <2>1. PICK x : x = relation[i] OBVIOUS
  <2>2. NoRowYet(x) \/ (Whole(x) /\ IsValid(x) /\ Present(x.src)' /\ Present(x.dst)')
    BY <1>3, <2>1 DEF TablesInv, RowIs
  <2>3. x = relation'[i] BY <1>1, <2>1
  <2> QED BY <2>2, <2>3 DEF RowIs, NoRowYet, Whole, IsValid, Present
<1> QED BY <1>1, <1>2, <1>3, <1>4 DEF TablesInv

LEMMA DeriveAPIOK ==
    ASSUME TablesInv, NEW x \in DOMAIN APIOf, V!DeriveAPI(x)
    PROVE  TablesInv'
<1>1. PICK s : s \in {"live", "gone"} /\ api' = [api EXCEPT ![x] = s] BY DEF V!DeriveAPI
<1>2. repo' = repo /\ link' = link /\ relation' = relation /\ Present(APIOf[x])
  BY SameOnGraph DEF V!DeriveAPI
<1>3. api' \in [DOMAIN APIOf -> Statuses] BY <1>1 DEF TablesInv, Statuses
<1>4. \A q : Present(q)' <=> Present(q) BY <1>2 DEF Present
<1>5. \A y \in DOMAIN APIOf : api'[y] = "live" => Present(APIOf[y])' BY <1>1, <1>2, <1>4 DEF TablesInv
<1>6. \A i \in Rels : RowIs(relation[i])' BY <1>2 DEF TablesInv, RowIs, NoRowYet, Whole, IsValid, Present
<1> QED BY <1>2, <1>3, <1>5, <1>6 DEF TablesInv

LEMMA DeriveLinkOK ==
    ASSUME TablesInv, NEW l \in Links, V!DeriveLink(l)
    PROVE  TablesInv'
<1>1. PICK s : s \in {"live", "gone"} /\ link' = [link EXCEPT ![l] = s] BY DEF V!DeriveLink
<1>2. repo' = repo /\ api' = api /\ relation' = relation BY DEF V!DeriveLink
<1>3. link' \in [Links -> Statuses] BY <1>1 DEF TablesInv, Statuses
<1>4. \A q : Present(q)' <=> Present(q) BY <1>2 DEF Present
<1>5. \A y \in DOMAIN APIOf : api'[y] = "live" => Present(APIOf[y])' BY <1>2, <1>4 DEF TablesInv
<1>6. \A i \in Rels : RowIs(relation[i])' BY <1>2 DEF TablesInv, RowIs, NoRowYet, Whole, IsValid, Present
<1> QED BY <1>2, <1>3, <1>5, <1>6 DEF TablesInv

LEMMA DeriveRelOK ==
    ASSUME TablesInv, NEW i \in Rels, V!DeriveRel(i)
    PROVE  TablesInv'
<1>1. UNCHANGED <<repo, api, link>> BY DEF V!DeriveRel
<1>2. CASE relation' = [relation EXCEPT ![i] = V!Deleted(relation[i])]
  <2>1. RowIs(V!Deleted(relation[i])) BY DeletedStays DEF TablesInv
  <2> QED BY <1>1, <1>2, <2>1, RowWrittenOnGraph
<1>3. ASSUME NEW r \in Own, NEW q \in Own, r # q,
             relation' = [relation EXCEPT ![i] = V!Relationship(r, q, "library", "manifest", 2, TRUE)]
      PROVE  TablesInv'
  <2>1. PICK x : x = V!Relationship(r, q, "library", "manifest", 2, TRUE) OBVIOUS
  <2>2. /\ DOMAIN x = RelFields /\ x.src = r /\ x.dst = q /\ x.kind = "library" /\ x.source = "manifest"
        /\ x.confidence = 2
    BY <2>1 DEF V!Relationship, RelFields
  <2>3. Whole(x) /\ Present(x.src) /\ Present(x.dst) BY <2>2 DEF Whole, Own, Ours
  <2>4. IsValid(x)
    BY <1>3, <2>2 DEF IsValid, IsValidRepositoryRelationshipKind, IsValidRepositoryRelationshipSource
  <2>5. RowIs(x) BY <2>3, <2>4 DEF RowIs
  <2>6. relation' = [relation EXCEPT ![i] = x] BY <1>3, <2>1
  <2> QED BY <1>1, <2>5, <2>6, RowWrittenOnGraph
<1> QED BY <1>2, <1>3, SameOnGraph DEF V!DeriveRel

LEMMA RowsOK == ASSUME TablesInv, GraphConstants, V!Rows PROVE TablesInv'
BY CreateRepositoryOK, DeleteRepositoryOK, DeriveAPIOK, DeriveLinkOK, DeriveRelOK DEF V!Rows

\* What a request has read is of no row that goes.
LEMMA RequestStays == ASSUME RequestInv, UNCHANGED request PROVE RequestInv'
BY DEF RequestInv, Ours, Whole

LEMMA AnsweredOK == ASSUME NEW status, V!Answered(status) PROVE RequestInv'
<1>1. PICK q : q = request' OBVIOUS
<1>2. q.at = "answered" BY <1>1 DEF V!Answered
<1> QED BY <1>1, <1>2 DEF RequestInv

LEMMA AskingOK ==
    ASSUME NEW at \in {"source", "target", "insert"}, NEW w, V!Asking(at, w),
           IsValidRepositoryRelationshipKind(w.kind), w.src # w.dst,
           at # "source" => Ours(w.src), at = "insert" => Ours(w.dst)
    PROVE  RequestInv'
<1>1. PICK q : q = request' OBVIOUS
<1>2. q.at = at /\ q.wish = w BY <1>1 DEF V!Asking
<1> QED BY <1>1, <1>2 DEF RequestInv, Ours, IsValidRepositoryRelationshipKind

LEMMA RequiredIs == ASSUME NEW r, V!Required(r) = "ok" PROVE Present(r) /\ Ours(r)
BY SameOnGraph DEF V!Required, Present, Ours

LEMMA BeginCreateOK == ASSUME NEW w, V!BeginCreate(w) PROVE RequestInv'
<1>1. CASE V!Answered(V!Told("invalid")) BY <1>1, AnsweredOK
<1>2. CASE V!IsValidRepositoryRelationshipKind(w.kind) /\ w.src # w.dst /\ V!Asking("source", w)
  BY <1>2, SameOnGraph, AskingOK
<1> QED BY <1>1, <1>2 DEF V!BeginCreate

LEMMA RequireEndsOK == ASSUME RequestInv, V!RequireEnds PROVE RequestInv'
<1>1. PICK w : w = request.wish OBVIOUS
<1>2. ASSUME NEW status, V!Answered(status) PROVE RequestInv' BY <1>2, AnsweredOK
<1>3. CASE request.at = "source" /\ V!Required(w.src) = "ok" /\ V!Asking("target", w)
  <2>1. IsValidRepositoryRelationshipKind(w.kind) /\ w.src # w.dst BY <1>1, <1>3 DEF RequestInv
  <2>2. Ours(w.src) BY <1>3, RequiredIs
  <2> QED BY <1>3, <2>1, <2>2, AskingOK
<1>4. CASE request.at = "target" /\ V!Required(w.dst) = "ok" /\ V!Asking("insert", w)
  <2>1. IsValidRepositoryRelationshipKind(w.kind) /\ w.src # w.dst /\ Ours(w.src)
    BY <1>1, <1>4 DEF RequestInv
  <2>2. Ours(w.dst) BY <1>4, RequiredIs
  <2> QED BY <1>4, <2>1, <2>2, AskingOK
<1> QED BY <1>1, <1>2, <1>3, <1>4 DEF V!RequireEnds

LEMMA InsertRelationshipOK ==
    ASSUME TablesInv, RequestInv, V!InsertRelationship
    PROVE  TablesInv' /\ RequestInv'
<1>1. RequestInv' BY AnsweredOK DEF V!InsertRelationship
<1>2. UNCHANGED <<repo, api, link>> BY DEF V!InsertRelationship
<1>3. PICK w : w = request.wish OBVIOUS
<1>4. IsValidRepositoryRelationshipKind(w.kind) /\ w.src # w.dst /\ Ours(w.src) /\ Ours(w.dst)
  BY <1>3 DEF V!InsertRelationship, RequestInv
<1>5. CASE UNCHANGED relation
  <2>1. \A i \in Rels : RowIs(relation[i])' BY <1>2, <1>5 DEF TablesInv, RowIs, NoRowYet, Whole, IsValid, Present
  <2> QED BY <1>1, <1>2, <1>5, <2>1 DEF TablesInv, Present
<1>6. ASSUME Present(w.src), Present(w.dst), NEW i \in Rels,
             relation' = [relation EXCEPT ![i] = V!Relationship(w.src, w.dst, w.kind, "manual", 4, FALSE)]
      PROVE  TablesInv'
  <2>1. PICK x : x = V!Relationship(w.src, w.dst, w.kind, "manual", 4, FALSE) OBVIOUS
  <2>2. /\ DOMAIN x = RelFields /\ x.src = w.src /\ x.dst = w.dst /\ x.kind = w.kind /\ x.source = "manual"
        /\ x.confidence = 4
    BY <2>1 DEF V!Relationship, RelFields
  <2>3. Whole(x) /\ Present(x.src) /\ Present(x.dst) BY <1>4, <1>6, <2>2 DEF Whole
  <2>4. IsValid(x) BY <1>4, <2>2 DEF IsValid, IsValidRepositoryRelationshipSource
  <2>5. RowIs(x) BY <2>3, <2>4 DEF RowIs
  <2>6. relation' = [relation EXCEPT ![i] = x] BY <1>6, <2>1
  <2> QED BY <1>2, <2>5, <2>6, RowWrittenOnGraph
<1> QED BY <1>1, <1>3, <1>5, <1>6, SameOnGraph DEF V!InsertRelationship

LEMMA ReadRelationshipOK ==
    ASSUME TablesInv, NEW w, NEW i \in Rels, V!ReadRelationship(w, i)
    PROVE  RequestInv'
<1>1. PICK q : q = request' OBVIOUS
<1>2. CASE \E status : V!Answered(status) BY <1>2, AnsweredOK
<1>3. CASE relation[i].live /\ request' = [at |-> "save", id |-> i, copy |-> V!Promoted(relation[i], w)]
  <2>1. PICK x : x = V!Promoted(relation[i], w) OBVIOUS
  <2>2. Whole(relation[i]) BY <1>3 DEF TablesInv, RowIs, NoRowYet
  <2>3. Whole(x) BY <2>1, <2>2, PromotedIs DEF Whole
  <2>4. q.at = "save" /\ q.id = i /\ q.copy = x BY <1>1, <1>3, <2>1
  <2> QED BY <1>1, <2>3, <2>4 DEF RequestInv, Whole, Ours
<1>4. CASE request' = [at |-> "delete", id |-> i]
  <2>1. q.at = "delete" /\ q.id = i BY <1>1, <1>4
  <2> QED BY <1>1, <2>1 DEF RequestInv
<1> QED BY <1>2, <1>3, <1>4 DEF V!ReadRelationship

LEMMA SaveRelationshipOK ==
    ASSUME TablesInv, RequestInv, V!SaveRelationship
    PROVE  TablesInv' /\ RequestInv'
<1>1. RequestInv' BY AnsweredOK DEF V!SaveRelationship
<1>2. UNCHANGED <<repo, api, link>> BY DEF V!SaveRelationship
<1>3. CASE UNCHANGED relation
  <2>1. \A i \in Rels : RowIs(relation[i])' BY <1>2, <1>3 DEF TablesInv, RowIs, NoRowYet, Whole, IsValid, Present
  <2> QED BY <1>1, <1>2, <1>3, <2>1 DEF TablesInv, Present
<1>4. CASE /\ IsValid(request.copy) /\ Present(request.copy.src) /\ Present(request.copy.dst)
           /\ relation' = [relation EXCEPT ![request.id] = request.copy]
  <2>1. request.id \in Rels /\ Whole(request.copy) BY DEF V!SaveRelationship, RequestInv
  <2>2. RowIs(request.copy) BY <1>4, <2>1 DEF RowIs
  <2> QED BY <1>1, <1>2, <1>4, <2>1, <2>2, RowWrittenOnGraph
<1> QED BY <1>3, <1>4, SameOnGraph DEF V!SaveRelationship

LEMMA DeleteRelationshipOK ==
    ASSUME TablesInv, RequestInv, V!DeleteRelationship
    PROVE  TablesInv' /\ RequestInv'
<1>1. RequestInv' BY AnsweredOK DEF V!DeleteRelationship
<1>2. UNCHANGED <<repo, api, link>> BY DEF V!DeleteRelationship
<1>3. request.id \in Rels BY DEF V!DeleteRelationship, RequestInv
<1>4. PICK i \in Rels : i = request.id BY <1>3
<1>5. relation' = [relation EXCEPT ![i] = V!Deleted(relation[i])] BY <1>4 DEF V!DeleteRelationship
<1>6. RowIs(V!Deleted(relation[i])) BY DeletedStays DEF TablesInv
<1> QED BY <1>1, <1>2, <1>5, <1>6, RowWrittenOnGraph

LEMMA TablesStay == ASSUME TablesInv, UNCHANGED <<repo, api, link, relation>> PROVE TablesInv'
<1>1. \A i \in Rels : RowIs(relation[i])' BY DEF TablesInv, RowIs, NoRowYet, Whole, IsValid, Present
<1> QED BY <1>1 DEF TablesInv, Present

LEMMA DeclareOK == ASSUME TablesInv, RequestInv, V!Declare PROVE TablesInv' /\ RequestInv'
<1>1. ASSUME NEW w, V!BeginCreate(w) PROVE TablesInv' /\ RequestInv'
  <2>1. UNCHANGED <<repo, api, link, relation>> BY <1>1 DEF V!BeginCreate
  <2> QED BY <1>1, <2>1, TablesStay, BeginCreateOK
<1>2. ASSUME NEW w, NEW i \in Rels, V!ReadRelationship(w, i) PROVE TablesInv' /\ RequestInv'
  <2>1. UNCHANGED <<repo, api, link, relation>> BY <1>2 DEF V!ReadRelationship
  <2> QED BY <1>2, <2>1, TablesStay, ReadRelationshipOK
<1>3. CASE V!RequireEnds
  <2>1. UNCHANGED <<repo, api, link, relation>> BY <1>3 DEF V!RequireEnds
  <2> QED BY <1>3, <2>1, TablesStay, RequireEndsOK
<1> QED BY <1>1, <1>2, <1>3, InsertRelationshipOK, SaveRelationshipOK, DeleteRelationshipOK DEF V!Declare

-----------------------------------------------------------------------------
(* What a reader has, while rows change *)

\* Every row that changes is noted.
Noted ==
    /\ touched \subseteq touched'
    /\ \A r \in Repositories : repo'[r] # repo[r] => <<"repo", r>> \in touched'
    /\ \A i \in Rels : relation'[i] # relation[i] => <<"rel", i>> \in touched'
Noticed == Noted /\ view' = view

LEMMA TouchIs ==
    ASSUME NEW rows, V!Touch(rows), view.at \notin {"idle", "refused"}
    PROVE  touched' = touched \cup rows
BY DEF V!Touch

LEMMA RowsAreNoticed ==
    ASSUME TablesInv, V!Rows, view.at \notin {"idle", "refused"}
    PROVE  Noticed
<1>1. ASSUME NEW r \in Repositories, V!CreateRepository(r) PROVE Noticed
  <2>1. repo' = [repo EXCEPT ![r] = "live"] /\ relation' = relation /\ view' = view
        /\ V!Touch({<<"repo", r>>})
    BY <1>1 DEF V!CreateRepository
  <2>2. touched' = touched \cup {<<"repo", r>>} BY <2>1, TouchIs
  <2> QED BY <2>1, <2>2 DEF Noticed, Noted, TablesInv
<1>2. ASSUME NEW r \in Repositories, V!DeleteRepository(r) PROVE Noticed
  <2>1. repo' = [repo EXCEPT ![r] = "gone"] /\ view' = view BY <1>2 DEF V!DeleteRepository
  <2>2. PICK more : touched' = touched \cup ({<<"repo", r>>} \cup
                       {<<"rel", i>> : i \in {x \in Rels : relation[x] # relation'[x]}} \cup more)
    <3>1. PICK A, B : V!Touch({<<"repo", r>>} \cup A
                              \cup {<<"rel", i>> : i \in {x \in Rels : relation[x] # relation'[x]}} \cup B)
      BY <1>2 DEF V!DeleteRepository
    <3>2. touched' = touched \cup ({<<"repo", r>>} \cup A
                              \cup {<<"rel", i>> : i \in {x \in Rels : relation[x] # relation'[x]}} \cup B)
      BY <3>1, TouchIs
    <3>3. touched' = touched \cup ({<<"repo", r>>} \cup
                       {<<"rel", i>> : i \in {x \in Rels : relation[x] # relation'[x]}} \cup (A \cup B))
      BY <3>2
    <3> QED BY <3>3
  <2> QED BY <2>1, <2>2 DEF Noticed, Noted, TablesInv
<1>3. ASSUME NEW x \in DOMAIN APIOf, V!DeriveAPI(x) PROVE Noticed
  <2>1. UNCHANGED <<repo, relation, view>> /\ V!Touch({<<"api", x>>}) BY <1>3 DEF V!DeriveAPI
  <2>2. touched' = touched \cup {<<"api", x>>} BY <2>1, TouchIs
  <2> QED BY <2>1, <2>2 DEF Noticed, Noted
<1>4. ASSUME NEW l \in Links, V!DeriveLink(l) PROVE Noticed
  <2>1. UNCHANGED <<repo, relation, view>> /\ V!Touch({<<"link", l>>, <<"resource", l.resource>>})
    BY <1>4 DEF V!DeriveLink
  <2>2. touched' = touched \cup {<<"link", l>>, <<"resource", l.resource>>} BY <2>1, TouchIs
  <2> QED BY <2>1, <2>2 DEF Noticed, Noted
<1>5. ASSUME NEW i \in Rels, V!DeriveRel(i) PROVE Noticed
  <2>1. UNCHANGED <<repo, view>> /\ V!Touch({<<"rel", i>>}) BY <1>5 DEF V!DeriveRel
  <2>2. touched' = touched \cup {<<"rel", i>>} BY <2>1, TouchIs
  <2>3. \A j \in Rels : j # i => relation'[j] = relation[j] BY <1>5 DEF V!DeriveRel, TablesInv
  <2> QED BY <2>1, <2>2, <2>3 DEF Noticed, Noted
<1> QED BY <1>1, <1>2, <1>3, <1>4, <1>5 DEF V!Rows

LEMMA DeclareIsNoticed ==
    ASSUME TablesInv, V!Declare, view.at \notin {"idle", "refused"}
    PROVE  Noticed
<1>1. CASE UNCHANGED <<repo, relation, view, touched>> BY <1>1 DEF Noticed, Noted
<1>2. ASSUME NEW i \in Rels, NEW x, relation' = [relation EXCEPT ![i] = x], V!Touch({<<"rel", i>>}),
             UNCHANGED <<repo, view>>
      PROVE  Noticed
  <2>1. touched' = touched \cup {<<"rel", i>>} BY <1>2, TouchIs
  <2> QED BY <1>2, <2>1 DEF Noticed, Noted, TablesInv
<1>3. ASSUME NEW i, NEW x, i \notin Rels, relation' = [relation EXCEPT ![i] = x], V!Touch({<<"rel", i>>}),
             UNCHANGED <<repo, view>>
      PROVE  Noticed
  <2>1. touched' = touched \cup {<<"rel", i>>} BY <1>3, TouchIs
  <2> QED BY <1>3, <2>1 DEF Noticed, Noted, TablesInv
<1>4. CASE V!InsertRelationship
  <2>1. UNCHANGED <<repo, view>> BY <1>4 DEF V!InsertRelationship
  <2> QED BY <1>1, <1>2, <1>4, <2>1 DEF V!InsertRelationship
<1>5. CASE V!SaveRelationship
  <2>1. UNCHANGED <<repo, view>> BY <1>5 DEF V!SaveRelationship
  <2> QED BY <1>1, <1>2, <1>3, <1>5, <2>1 DEF V!SaveRelationship
<1>6. CASE V!DeleteRelationship
  <2>1. UNCHANGED <<repo, view>> BY <1>6 DEF V!DeleteRelationship
  <2> QED BY <1>2, <1>3, <1>6, <2>1 DEF V!DeleteRelationship
<1>7. CASE V!RequireEnds BY <1>1, <1>7 DEF V!RequireEnds
<1>8. ASSUME NEW w, V!BeginCreate(w) PROVE Noticed BY <1>1, <1>8 DEF V!BeginCreate
<1>9. ASSUME NEW w, NEW i, V!ReadRelationship(w, i) PROVE Noticed BY <1>1, <1>9 DEF V!ReadRelationship
<1> QED BY <1>4, <1>5, <1>6, <1>7, <1>8, <1>9 DEF V!Declare

\* Whose row stood is as it was.
LEMMA StoodIs ==
    ASSUME Noted
    PROVE  /\ \A row : Stood(row)' => Stood(row)
           /\ \A r : r \in Own' /\ Stood(<<"repo", r>>)' => r \in Own
           /\ \A i \in Rels : Stood(<<"rel", i>>)' => relation'[i] = relation[i]
           /\ touched' = {} => touched = {} /\ Own' = Own
<1>1. \A row : Stood(row)' => Stood(row) BY DEF Noted, Stood
<1>2. \A r \in Repositories : Stood(<<"repo", r>>)' => repo'[r] = repo[r] BY DEF Noted, Stood
<1>3. \A r : r \in Own' /\ Stood(<<"repo", r>>)' => r \in Own BY <1>2 DEF Own, Present
<1>4. \A i \in Rels : Stood(<<"rel", i>>)' => relation'[i] = relation[i] BY DEF Noted, Stood
<1>5. ASSUME touched' = {} PROVE touched = {} /\ Own' = Own
  <2>1. \A r \in Repositories : repo'[r] = repo[r] BY <1>5 DEF Noted
  <2> QED BY <1>5, <2>1 DEF Noted, Own, Present
<1> QED BY <1>1, <1>3, <1>4, <1>5

LEMMA PageKept ==
    ASSUME Noted, NEW v, PageOK(v)
    PROVE  PageOK(v)'
<1>1. \A r \in Own' : v.ask.what = "graph" /\ Stood(<<"repo", r>>)' => r \in v.matched
  BY StoodIs DEF PageOK
<1>2. \A r \in v.matched : Ours(r) BY DEF PageOK
<1>3. (~CutIn(v))' => v.repos = v.matched BY DEF PageOK, CutIn
<1> QED BY <1>1, <1>2, <1>3 DEF PageOK, Ours, CutIn, Stood

LEMMA RelsKept ==
    ASSUME Noted, NEW v, RelsOK(v)
    PROVE  RelsOK(v)'
<1>1. ASSUME NEW i \in Rels, relation'[i].live, Passes(v.ask, relation'[i]), Stood(<<"rel", i>>)'
      PROVE  \E x \in v.rels : x.id = i /\ x.row = relation'[i]
  <2>1. relation'[i] = relation[i] /\ Stood(<<"rel", i>>) BY <1>1, StoodIs
  <2> QED BY <1>1, <2>1 DEF RelsOK
<1> QED BY <1>1 DEF RelsOK, Passes, Stood

LEMMA CollectedKept ==
    ASSUME Noted, NEW v, Collected(v)
    PROVE  Collected(v)'
<1>1. PageOK(v)' /\ RelsOK(v)' BY PageKept, RelsKept DEF Collected
<1>2. APIsOK(v)' BY StoodIs DEF Collected, APIsOK, CutIn, Stood, V!APIProvidesEdge, V!Edge, V!GraphNodeID
<1>3. FloorOK(v.ask)' /\ NodesOK(v)' BY DEF Collected, FloorOK, NodesOK
<1>4. EdgesOK(v)' BY DEF Collected, EdgesOK, V!APIProvidesEdge, V!ResourceUsesEdge, V!Edge, V!GraphNodeID
<1> QED BY <1>1, <1>2, <1>3, <1>4 DEF Collected

LEMMA SoundKept ==
    ASSUME Noticed, GraphIsSound
    PROVE  GraphIsSound'
<1> SUFFICES ASSUME Drawn' PROVE GraphIsSound' BY DEF GraphIsSound
<1> Noted BY DEF Noticed
<1>1. view' = view /\ Drawn BY DEF Noticed, Drawn
<1>2. PICK v : v = view OBVIOUS
<1>3. ASSUME NEW i \in Rels, relation'[i].live, Passes(v.ask, relation'[i]), Stood(<<"rel", i>>)'
      PROVE  LET e == RepositoryRelationshipToGraphEdge(i, relation'[i])
             IN e.source \in v.nodes /\ e.target \in v.nodes /\ Within(v.ask, e) => e \in v.edges
  <2>1. relation'[i] = relation[i] /\ Stood(<<"rel", i>>) BY <1>3, StoodIs
  <2> QED BY <1>1, <1>2, <1>3, <2>1 DEF GraphIsSound
<1>4. ASSUME ~(Cardinality(v.repos) < Cardinality(v.matched)), NEW r \in Own', Stood(<<"repo", r>>)'
      PROVE  <<"repo", r>> \in v.nodes
  <2>1. r \in Own /\ Stood(<<"repo", r>>) BY <1>4, StoodIs
  <2> QED BY <1>1, <1>2, <1>4, <2>1 DEF GraphIsSound, Cut
<1>5. ASSUME ~(Cardinality(v.repos) < Cardinality(v.matched)), NEW x \in DOMAIN APIOf,
             <<"api", x>> \in v.nodes, Stood(<<"repo", APIOf[x]>>)'
      PROVE  \E e \in v.edges : e.id = <<"provides", x>> /\ e.target = <<"api", x>>
  <2>1. Stood(<<"repo", APIOf[x]>>) BY <1>5, StoodIs
  <2> QED BY <1>1, <1>2, <1>5, <2>1 DEF GraphIsSound, Cut
<1>6. /\ \A e \in v.edges : e.source \in v.nodes /\ e.target \in v.nodes /\ Within(v.ask, e)
      /\ \A e, f \in v.edges : e.id = f.id => e = f
      /\ \A r \in Repositories : <<"repo", r>> \in v.nodes => OrgOf[r] = "own"
  BY <1>1, <1>2 DEF GraphIsSound
<1> QED BY <1>1, <1>2, <1>3, <1>4, <1>5, <1>6 DEF GraphIsSound, Cut, Passes, Within, Stood,
           RepositoryRelationshipToGraphEdge, Edge, GraphNodeID

LEMMA ReadsKept ==
    ASSUME Noted, NEW v, Reads(v)
    PROVE  Reads(v)'
<1>1. v.at = "relationships" => PageOK(v)' BY PageKept DEF Reads
<1>2. v.at \in {"apis", "resources", "links"} => Collected(v)' BY CollectedKept DEF Reads
<1>3. ASSUME v.at = "page", touched' = {} PROVE v.total = Cardinality(V!OwnedBy(v.ask.team)')
  <2>1. touched = {} BY <1>3, StoodIs
  <2>2. \A r \in Repositories : repo'[r] = repo[r] BY <1>3 DEF Noted
  <2>3. V!OwnedBy(v.ask.team)' = V!OwnedBy(v.ask.team) BY <2>2 DEF V!OwnedBy, V!Own, V!Present
  <2> QED BY <1>3, <2>1, <2>3 DEF Reads
<1> QED BY <1>1, <1>2, <1>3 DEF Reads, FloorOK

LEMMA ReadsAre ==
    ASSUME NEW v, view' = v, Reads(v)'
    PROVE  Reads(view)'
BY DEF Reads, Collected, FloorOK, PageOK, RelsOK, NodesOK, EdgesOK, APIsOK, CutIn

LEMMA ViewKept == ASSUME ViewInv, Noticed PROVE ViewInv'
<1>1. PICK v : v = view OBVIOUS
<1>2. Reads(v) BY <1>1 DEF ViewInv, Reads, Collected, FloorOK, PageOK, RelsOK, NodesOK, EdgesOK, APIsOK, CutIn
<1>3. Reads(view)' BY <1>1, <1>2, ReadsKept, ReadsAre DEF Noticed
<1>4. GraphIsSound' BY SoundKept DEF ViewInv
<1>5. PageMatchesTotal' BY StoodIs DEF ViewInv, PageMatchesTotal, Noticed
<1> QED BY <1>3, <1>4, <1>5 DEF ViewInv

\* A reader with nothing yet, or refused.
LEMMA IdleKept ==
    ASSUME ViewInv, view.at \in {"idle", "refused"}, view' = view
    PROVE  ViewInv'
<1>1. Reads(view)' BY DEF ViewInv, Reads
<1> QED BY <1>1 DEF ViewInv, GraphIsSound, Drawn, PageMatchesTotal

-----------------------------------------------------------------------------
(* What a reader reads next *)

Unmoved == UNCHANGED <<repo, api, link, relation, touched>>

LEMMA UnmovedIs == ASSUME Unmoved PROVE Noted
BY DEF Unmoved, Noted

LEMMA NextRead ==
    ASSUME Unmoved, NEW v, Reads(v), view' = v, v.at # "shown"
    PROVE  ViewInv'
<1>1. Reads(view)' BY UnmovedIs, ReadsKept, ReadsAre
<1> QED BY <1>1 DEF ViewInv, GraphIsSound, Drawn, PageMatchesTotal

LEMMA ReadingIs ==
    ASSUME NEW q, NEW at, NEW v, v = V!Reading(q, at)
    PROVE  /\ DOMAIN v = ViewFields /\ v.at = at /\ v.ask = q /\ v.total = 0 /\ v.repos = {} /\ v.matched = {}
           /\ v.rels = {} /\ v.nodes = {} /\ v.edges = {}
BY DEF V!Reading, ViewFields

\* A reading that begins.
LEMMA ReadingOK ==
    ASSUME NEW q \in Asks, NEW at \in {"count", "fetch"}, view' = V!Reading(q, at),
           q.what = "graph" /\ at = "count" => FloorOK(q), at = "fetch" => q.what = "graph"
    PROVE  ViewInv'
<1>1. PICK v : v = view' OBVIOUS
<1>2. /\ DOMAIN v = ViewFields /\ v.at = at /\ v.ask = q /\ v.total = 0 /\ v.repos = {} /\ v.matched = {}
      /\ v.rels = {} /\ v.nodes = {} /\ v.edges = {}
  BY <1>1, ReadingIs
<1>3. Reads(v)' BY <1>2 DEF Reads, FloorOK
<1> QED BY <1>1, <1>2, <1>3, ReadsAre DEF ViewInv, GraphIsSound, Drawn, PageMatchesTotal

LEMMA RefusedOK ==
    ASSUME NEW q \in Asks, NEW status, view' = V!Refused(q, status)
    PROVE  ViewInv'
<1>1. PICK v : v = view' OBVIOUS
<1>2. PICK w : w = V!Reading(q, "refused") OBVIOUS
<1>3. v = [w EXCEPT !.status = status] BY <1>1, <1>2 DEF V!Refused
<1>4. DOMAIN w = ViewFields /\ w.at = "refused" /\ w.ask = q BY <1>2, ReadingIs
<1>5. DOMAIN v = ViewFields /\ v.at = "refused" /\ v.ask = q BY <1>3, <1>4 DEF ViewFields
<1>6. Reads(v)' BY <1>5 DEF Reads
<1> QED BY <1>1, <1>5, <1>6, ReadsAre DEF ViewInv, GraphIsSound, Drawn, PageMatchesTotal

LEMMA BeginReadOK == ASSUME GraphConstants, NEW q \in Asks, V!BeginRead(q) PROVE ViewInv'
<1>1. q.what \in {"list", "graph"} BY DEF GraphConstants
<1>2. V!ValidNodes(q) => FloorOK(q) BY SameOnGraph DEF V!ValidNodes, FloorOK
<1>3. \/ q.what = "list" /\ view' = V!Reading(q, "count")
      \/ q.what = "graph" /\ view' = V!Reading(q, "fetch")
      \/ q.what = "graph" /\ V!ValidNodes(q) /\ view' = V!Reading(q, "count")
      \/ view' = V!Refused(q, 400)
  BY <1>1 DEF V!BeginRead
<1>4. CASE q.what = "list" /\ view' = V!Reading(q, "count") BY <1>4, ReadingOK
<1>5. CASE q.what = "graph" /\ view' = V!Reading(q, "fetch") BY <1>5, ReadingOK
<1>6. CASE q.what = "graph" /\ V!ValidNodes(q) /\ view' = V!Reading(q, "count") BY <1>2, <1>6, ReadingOK
<1>7. CASE view' = V!Refused(q, 400) BY <1>7, RefusedOK
<1> QED BY <1>3, <1>4, <1>5, <1>6, <1>7

LEMMA FetchRepositoryOK == ASSUME ViewInv, V!FetchRepository PROVE ViewInv'
<1>1. view.ask \in Asks /\ view.ask.what = "graph" BY DEF V!FetchRepository, ViewInv, Reads
<1>2. PICK q \in Asks : q = view.ask BY <1>1
<1>3. V!ValidNodes(q) => FloorOK(q) BY SameOnGraph DEF V!ValidNodes, FloorOK
<1>4. \/ \E status : view' = V!Refused(q, status)
      \/ V!ValidNodes(q) /\ view' = V!Reading(q, "count")
  BY <1>2 DEF V!FetchRepository
<1> QED BY <1>1, <1>2, <1>3, <1>4, ReadingOK, RefusedOK

-----------------------------------------------------------------------------
(* The list of repositories *)

LEMMA OwnedByIs ==
    ASSUME GraphConstants, NEW team
    PROVE  /\ V!OwnedBy(team) \subseteq Own /\ V!OwnedBy(None) = Own
           /\ V!OwnedBy(team) \subseteq Repositories /\ IsFiniteSet(V!OwnedBy(team))
<1>1. V!OwnedBy(team) \subseteq Own /\ V!OwnedBy(None) = Own BY SameOnGraph DEF V!OwnedBy
<1>2. Own \subseteq Repositories BY DEF Own
<1>3. IsFiniteSet(V!OwnedBy(team)) BY <1>1, <1>2, FS_Subset DEF GraphConstants
<1> QED BY <1>1, <1>2, <1>3

\* A page that is not cut is the list.
LEMMA PageIs ==
    ASSUME NEW rs, IsFiniteSet(rs), rs \subseteq Nat, NEW limit \in Nat, NEW offset \in Nat
    PROVE  /\ V!Page(rs, limit, offset) \subseteq rs
           /\ ~(Cardinality(V!Page(rs, limit, offset)) < Cardinality(rs)) => V!Page(rs, limit, offset) = rs
           /\ offset = 0 /\ limit >= Cardinality(rs) => V!Page(rs, limit, offset) = rs
<1>1. PICK page : page = V!Page(rs, limit, offset) OBVIOUS
<1>2. page \subseteq rs BY <1>1 DEF V!Page
<1>3. ~(Cardinality(page) < Cardinality(rs)) => page = rs
  <2>1. IsFiniteSet(page) /\ Cardinality(page) <= Cardinality(rs) /\ (Cardinality(rs) = Cardinality(page) => rs = page)
    BY <1>2, FS_Subset
  <2>2. Cardinality(page) \in Nat /\ Cardinality(rs) \in Nat BY <2>1, FS_CardinalityType
  <2> QED BY <2>1, <2>2
<1>4. ASSUME offset = 0, limit >= Cardinality(rs), NEW r \in rs PROVE r \in page
  <2>1. PICK newer : newer = {q \in rs : q >= r} OBVIOUS
  <2>2. newer \subseteq rs /\ r \in newer BY <2>1
  <2>3. IsFiniteSet(newer) /\ Cardinality(newer) <= Cardinality(rs) BY <2>2, FS_Subset
  <2>4. Cardinality(newer) \in Nat /\ Cardinality(rs) \in Nat BY <2>3, FS_CardinalityType
  <2>5. Cardinality(newer) # 0 BY <2>2, <2>3, FS_EmptySet
  <2>6. V!Rank(r, rs) = Cardinality(newer) BY <2>1, SameOnGraph DEF V!Rank
  <2> QED BY <1>1, <1>4, <2>3, <2>4, <2>5, <2>6 DEF V!Page
<1> QED BY <1>1, <1>2, <1>3, <1>4

LEMMA CountRepositoriesOK == ASSUME GraphConstants, ViewInv, V!CountRepositories PROVE ViewInv'
<1>1. PICK v : v = view' OBVIOUS
<1>2. PICK counted : counted = V!OwnedBy(view.ask.team) OBVIOUS
<1>3. Unmoved BY DEF V!CountRepositories, Unmoved
<1>4. /\ DOMAIN view = ViewFields /\ view.at = "count" /\ view.ask \in Asks /\ view.total = 0
      /\ view.repos = {} /\ view.matched = {} /\ view.rels = {} /\ view.nodes = {} /\ view.edges = {}
      /\ view.ask.what = "graph" => FloorOK(view.ask)
  BY DEF V!CountRepositories, ViewInv, Reads
<1>5. PICK q \in Asks : q = view.ask BY <1>4
<1>6. q.what \in {"graph", "list"} BY DEF GraphConstants
<1>7. CASE counted # {}
  <2>1. v = [view EXCEPT !.at = "page", !.total = V!Cardinality(counted)] BY <1>1, <1>2, <1>7 DEF V!CountRepositories
  <2>2. V!Cardinality(counted) = Cardinality(counted) BY SameOnGraph
  <2>3. /\ DOMAIN v = ViewFields /\ v.at = "page" /\ v.ask = q /\ v.total = Cardinality(V!OwnedBy(q.team))
        /\ v.repos = {} /\ v.matched = {} /\ v.rels = {} /\ v.nodes = {} /\ v.edges = {}
    BY <1>2, <1>4, <1>5, <2>1, <2>2 DEF ViewFields
  <2>4. Reads(v) BY <1>4, <1>5, <2>3 DEF Reads
  <2> QED BY <1>1, <1>3, <2>3, <2>4, NextRead
<1>8. CASE counted = {}
  <2>1. v = [view EXCEPT !.at = IF q.what = "list" THEN "shown" ELSE "relationships"]
    BY <1>1, <1>2, <1>5, <1>8 DEF V!CountRepositories
  <2>2. /\ DOMAIN v = ViewFields /\ v.at = IF q.what = "list" THEN "shown" ELSE "relationships"
        /\ v.ask = q /\ v.total = 0
        /\ v.repos = {} /\ v.matched = {} /\ v.rels = {} /\ v.nodes = {} /\ v.edges = {}
    BY <1>4, <1>5, <2>1 DEF ViewFields
  <2>3. CASE q.what = "graph"
    <3>1. Own = {} BY <1>2, <1>5, <1>8, <2>3, OwnedByIs DEF GraphConstants
    <3>2. PageOK(v) BY <2>2, <3>1 DEF PageOK
    <3>3. Reads(v) BY <1>4, <1>5, <2>2, <2>3, <3>2 DEF Reads
    <3> QED BY <1>1, <1>3, <2>2, <2>3, <3>3, NextRead
  <2>4. CASE q.what = "list"
    <3>1. Reads(v)' BY <2>2, <2>4 DEF Reads
    <3>2. Reads(view)' BY <1>1, <3>1, ReadsAre
    <3>3. ~Drawn' BY <1>1, <2>2, <2>4 DEF Drawn
    <3>4. PageMatchesTotal' BY <1>1, <2>2, FS_EmptySet DEF PageMatchesTotal
    <3> QED BY <3>2, <3>3, <3>4 DEF ViewInv, GraphIsSound
  <2> QED BY <1>6, <2>3, <2>4
<1> QED BY <1>7, <1>8

LEMMA ListRepositoriesOK == ASSUME GraphConstants, ViewInv, V!ListRepositories PROVE ViewInv'
<1>1. PICK v : v = view' OBVIOUS
<1>2. PICK rs : rs = V!OwnedBy(view.ask.team) OBVIOUS
<1>3. Unmoved BY DEF V!ListRepositories, Unmoved
<1>4. /\ DOMAIN view = ViewFields /\ view.at = "page" /\ view.ask \in Asks
      /\ view.rels = {} /\ view.nodes = {} /\ view.edges = {}
      /\ view.ask.what = "graph" => FloorOK(view.ask)
      /\ touched = {} => view.total = Cardinality(V!OwnedBy(view.ask.team))
  BY DEF V!ListRepositories, ViewInv, Reads
<1>5. PICK q \in Asks : q = view.ask BY <1>4
<1>6. q.what \in {"graph", "list"} /\ q.offset \in Int /\ q.limit \in Int BY DEF GraphConstants
<1>7. PICK page : page = V!Page(rs, V!Limit(q.limit), q.offset) OBVIOUS
<1>8. CASE view' = [view EXCEPT !.at = "refused", !.status = 500]
  <2>1. DOMAIN v = ViewFields /\ v.at = "refused" /\ v.ask = q BY <1>1, <1>4, <1>5, <1>8 DEF ViewFields
  <2>2. Reads(v) BY <2>1 DEF Reads
  <2> QED BY <1>1, <1>3, <2>1, <2>2, NextRead
<1>9. CASE /\ q.offset >= 0
           /\ view' = [view EXCEPT !.at = IF q.what = "list" THEN "shown" ELSE "relationships",
                                   !.repos = page, !.matched = rs]
  <2>1. /\ DOMAIN v = ViewFields /\ v.at = IF q.what = "list" THEN "shown" ELSE "relationships"
        /\ v.ask = q /\ v.total = view.total
        /\ v.repos = page /\ v.matched = rs /\ v.rels = {} /\ v.nodes = {} /\ v.edges = {}
    BY <1>1, <1>4, <1>5, <1>9 DEF ViewFields
  <2>2. V!Limit(q.limit) = Limit(q.limit) /\ Limit(q.limit) \in Nat BY <1>6, SameOnGraph DEF Limit, GraphConstants
  <2>3. rs \subseteq Own /\ rs \subseteq Repositories /\ IsFiniteSet(rs) /\ rs \subseteq Nat
    BY <1>2, OwnedByIs DEF GraphConstants
  <2>4. /\ page \subseteq rs
        /\ ~(Cardinality(page) < Cardinality(rs)) => page = rs
        /\ q.offset = 0 /\ Limit(q.limit) >= Cardinality(rs) => page = rs
    BY <1>6, <1>7, <1>9, <2>2, <2>3, PageIs
  <2>5. CASE q.what = "graph"
    <3>1. rs = Own BY <1>2, <1>5, <2>5, OwnedByIs DEF GraphConstants
    <3>2. PageOK(v) BY <2>1, <2>3, <2>4, <3>1 DEF PageOK, CutIn, Own, Ours
    <3>3. Reads(v) BY <1>4, <1>5, <2>1, <2>5, <3>2 DEF Reads
    <3> QED BY <1>1, <1>3, <2>1, <2>5, <3>3, NextRead
  <2>6. CASE q.what = "list"
    <3>1. Reads(v)' BY <2>1, <2>6 DEF Reads
    <3>2. Reads(view)' BY <1>1, <3>1, ReadsAre
    <3>3. ~Drawn' BY <1>1, <2>1, <2>6 DEF Drawn
    <3>4. touched' = {} => v.total = Cardinality(rs) BY <1>2, <1>3, <1>4, <2>1 DEF Unmoved
    <3>5. PageMatchesTotal' BY <1>1, <2>1, <2>4, <3>4 DEF PageMatchesTotal, Limit
    <3> QED BY <3>2, <3>3, <3>5 DEF ViewInv, GraphIsSound
  <2> QED BY <1>6, <2>5, <2>6
<1> QED BY <1>2, <1>5, <1>7, <1>8, <1>9 DEF V!ListRepositories

-----------------------------------------------------------------------------
(* The graph *)

LEMMA NodeIs ==
    /\ \A x : V!RepositoryToGraphNode(x) = <<"repo", x>>
    /\ \A x : V!APIToGraphNode(x) = <<"api", x>>
    /\ \A x : V!ResourceToGraphNode(x) = <<"resource", x>>
BY DEF V!RepositoryToGraphNode, V!APIToGraphNode, V!ResourceToGraphNode, V!GraphNodeID

LEMMA ProvidesIs ==
    ASSUME NEW x, NEW e, e = V!APIProvidesEdge(x)
    PROVE  /\ e.id = <<"provides", x>> /\ e.source = <<"repo", APIOf[x]>> /\ e.target = <<"api", x>>
           /\ e.confidence = 4
BY DEF V!APIProvidesEdge, V!Edge, V!GraphNodeID

LEMMA UsesIs ==
    ASSUME NEW l, NEW e, e = V!ResourceUsesEdge(l)
    PROVE  e.id = <<"link", l>>
BY DEF V!ResourceUsesEdge, V!Edge

LEMMA RelEdgeIs ==
    ASSUME NEW i, NEW r
    PROVE  /\ V!RepositoryRelationshipToGraphEdge(i, r) = RepositoryRelationshipToGraphEdge(i, r)
           /\ RepositoryRelationshipToGraphEdge(i, r).id = <<"rel", i>>
BY DEF V!RepositoryRelationshipToGraphEdge, RepositoryRelationshipToGraphEdge, V!Edge, Edge,
       V!GraphNodeID, GraphNodeID

\* The edges that are shown.
ShownEdges(v) ==
    {e \in v.edges \cup {RepositoryRelationshipToGraphEdge(x.id, x.row) : x \in v.rels} :
        e.source \in v.nodes /\ e.target \in v.nodes /\ Within(v.ask, e)}

LEMMA PrunedIs ==
    ASSUME NEW v, DOMAIN v = ViewFields, NEW w, w = V!Shown(v)
    PROVE  /\ DOMAIN w = ViewFields /\ w.at = "shown" /\ w.ask = v.ask /\ w.repos = v.repos /\ w.matched = v.matched
           /\ w.nodes = v.nodes /\ w.edges = ShownEdges(v)
<1>1. PICK edges : edges = v.edges \cup {V!RepositoryRelationshipToGraphEdge(x.id, x.row) : x \in v.rels} OBVIOUS
<1>2. PICK pruned : pruned = V!pruneEdges(edges, v.nodes, v.ask.floor) OBVIOUS
<1>3. w = [v EXCEPT !.at = "shown", !.edges = pruned, !.rels = {}] BY <1>1, <1>2 DEF V!Shown
<1>4. /\ DOMAIN w = ViewFields /\ w.at = "shown" /\ w.ask = v.ask /\ w.repos = v.repos /\ w.matched = v.matched
      /\ w.nodes = v.nodes /\ w.edges = pruned
  BY <1>3 DEF ViewFields
<1>5. edges = v.edges \cup {RepositoryRelationshipToGraphEdge(x.id, x.row) : x \in v.rels} BY <1>1, RelEdgeIs
<1>6. pruned = {e \in edges : e.source \in v.nodes /\ e.target \in v.nodes /\ Within(v.ask, e)}
  BY <1>2, SameOnGraph DEF V!pruneEdges, Within
<1> QED BY <1>4, <1>5, <1>6 DEF ShownEdges

\* Every edge has an id of its own.
LEMMA EdgesDiffer ==
    ASSUME NEW v, EdgesOK(v), RelsOK(v), NEW e \in ShownEdges(v), NEW f \in ShownEdges(v), e.id = f.id
    PROVE  e = f
<1>1. ASSUME NEW g \in ShownEdges(v)
      PROVE  \/ \E x \in DOMAIN APIOf : g = V!APIProvidesEdge(x) /\ g.id = <<"provides", x>>
             \/ \E l \in Links : g = V!ResourceUsesEdge(l) /\ g.id = <<"link", l>>
             \/ \E x \in v.rels : g = RepositoryRelationshipToGraphEdge(x.id, x.row) /\ g.id = <<"rel", x.id>>
  <2>1. \/ g \in v.edges
        \/ \E x \in v.rels : g = RepositoryRelationshipToGraphEdge(x.id, x.row)
    BY DEF ShownEdges
  <2>2. CASE g \in v.edges BY <2>2, ProvidesIs, UsesIs DEF EdgesOK
  <2>3. ASSUME NEW x \in v.rels, g = RepositoryRelationshipToGraphEdge(x.id, x.row) PROVE g.id = <<"rel", x.id>>
    BY <2>3, RelEdgeIs
  <2> QED BY <2>1, <2>2, <2>3
<1>2. ASSUME NEW x \in DOMAIN APIOf, e = V!APIProvidesEdge(x), e.id = <<"provides", x>> PROVE e = f
  <2>1. PICK y \in DOMAIN APIOf : f = V!APIProvidesEdge(y) /\ f.id = <<"provides", y>> BY <1>1, <1>2
  <2>2. x = y BY <1>2, <2>1
  <2> QED BY <1>2, <2>1, <2>2
<1>3. ASSUME NEW l \in Links, e = V!ResourceUsesEdge(l), e.id = <<"link", l>> PROVE e = f
  <2>1. PICK y \in Links : f = V!ResourceUsesEdge(y) /\ f.id = <<"link", y>> BY <1>1, <1>3
  <2>2. l = y BY <1>3, <2>1
  <2> QED BY <1>3, <2>1, <2>2
<1>4. ASSUME NEW x \in v.rels, e = RepositoryRelationshipToGraphEdge(x.id, x.row), e.id = <<"rel", x.id>> PROVE e = f
  <2>1. PICK y \in v.rels : f = RepositoryRelationshipToGraphEdge(y.id, y.row) /\ f.id = <<"rel", y.id>>
    BY <1>1, <1>4
  <2>2. x.id = y.id BY <1>4, <2>1
  <2>3. x = y BY <2>2 DEF RelsOK
  <2> QED BY <1>4, <2>1, <2>3
<1> QED BY <1>1, <1>2, <1>3, <1>4

\* What was collected makes a sound graph.
LEMMA CollectedIsSound ==
    ASSUME GraphConstants, NEW v, Collected(v), v.ask.what = "graph", NEW w, view' = w, UNCHANGED <<repo, relation, touched>>,
           w.at = "shown", w.ask = v.ask, w.repos = v.repos, w.matched = v.matched, w.nodes = v.nodes,
           w.edges = ShownEdges(v)
    PROVE  GraphIsSound'
<1>1. \A e \in w.edges : e.source \in w.nodes /\ e.target \in w.nodes /\ Within(w.ask, e) BY DEF ShownEdges
<1>2. \A e, f \in w.edges : e.id = f.id => e = f BY EdgesDiffer DEF Collected
<1>3. \A r \in Repositories : <<"repo", r>> \in w.nodes => OrgOf[r] = "own"
  BY DEF Collected, NodesOK, PageOK, Ours
<1>4. ASSUME NEW i \in Rels, relation[i].live, Passes(w.ask, relation[i]), Stood(<<"rel", i>>), NEW e,
             e = RepositoryRelationshipToGraphEdge(i, relation[i]),
             e.source \in w.nodes, e.target \in w.nodes, Within(w.ask, e)
      PROVE  e \in w.edges
  <2>1. PICK x \in v.rels : x.id = i /\ x.row = relation[i] BY <1>4 DEF Collected, RelsOK
  <2> QED BY <1>4, <2>1 DEF ShownEdges
<1>5. ASSUME ~(Cardinality(w.repos) < Cardinality(w.matched)), NEW r \in Own, Stood(<<"repo", r>>)
      PROVE  <<"repo", r>> \in w.nodes
  BY <1>5 DEF Collected, PageOK, CutIn, NodesOK, Own
<1>6. ASSUME ~(Cardinality(w.repos) < Cardinality(w.matched)), NEW x \in DOMAIN APIOf,
             <<"api", x>> \in w.nodes, Stood(<<"repo", APIOf[x]>>)
      PROVE  \E e \in w.edges : e.id = <<"provides", x>> /\ e.target = <<"api", x>>
  <2>1. PICK e : e = V!APIProvidesEdge(x) OBVIOUS
  <2>2. /\ e.id = <<"provides", x>> /\ e.source = <<"repo", APIOf[x]>> /\ e.target = <<"api", x>>
        /\ e.confidence = 4
    BY <2>1, ProvidesIs
  <2>3. e \in v.edges /\ APIOf[x] \in v.repos BY <1>6, <2>1 DEF Collected, APIsOK, CutIn
  <2>4. <<"repo", APIOf[x]>> \in v.nodes BY <2>3 DEF Collected, NodesOK, GraphConstants
  <2>5. Within(v.ask, e) BY <2>2 DEF Collected, FloorOK, Within, NaN
  <2>6. e \in ShownEdges(v) BY <1>6, <2>2, <2>3, <2>4, <2>5 DEF ShownEdges
  <2> QED BY <2>2, <2>6
<1>7. ASSUME NEW i \in Rels, relation'[i].live, Passes(w.ask, relation'[i]), Stood(<<"rel", i>>)'
      PROVE  LET e == RepositoryRelationshipToGraphEdge(i, relation'[i])
             IN e.source \in w.nodes /\ e.target \in w.nodes /\ Within(w.ask, e) => e \in w.edges
  <2>1. relation' = relation /\ Stood(<<"rel", i>>) BY <1>7 DEF Stood
  <2>2. PICK e : e = RepositoryRelationshipToGraphEdge(i, relation[i]) OBVIOUS
  <2>3. e.source \in w.nodes /\ e.target \in w.nodes /\ Within(w.ask, e) => e \in w.edges BY <1>4, <1>7, <2>1, <2>2
  <2> QED BY <2>1, <2>2, <2>3
<1>8. Own' = Own /\ \A row : Stood(row)' <=> Stood(row) BY DEF Own, Present, Stood
<1>9. ASSUME ~(Cardinality(w.repos) < Cardinality(w.matched))
      PROVE  /\ \A r \in Own' : Stood(<<"repo", r>>)' => <<"repo", r>> \in w.nodes
             /\ \A x \in DOMAIN APIOf : <<"api", x>> \in w.nodes /\ Stood(<<"repo", APIOf[x]>>)' =>
                    \E e \in w.edges : e.id = <<"provides", x>> /\ e.target = <<"api", x>>
  BY <1>5, <1>6, <1>8, <1>9
<1>10. \A i \in Rels : relation'[i].live /\ Passes(w.ask, relation'[i]) /\ Stood(<<"rel", i>>)' =>
          LET e == RepositoryRelationshipToGraphEdge(i, relation'[i])
          IN e.source \in w.nodes /\ e.target \in w.nodes /\ Within(w.ask, e) => e \in w.edges
  BY <1>7, Zenon
<1>11. Cut' <=> Cardinality(w.repos) < Cardinality(w.matched) BY DEF Cut
<1> QED BY <1>1, <1>2, <1>3, <1>9, <1>10, <1>11 DEF GraphIsSound

LEMMA ShownOK ==
    ASSUME GraphConstants, Unmoved, NEW v, DOMAIN v = ViewFields, v.ask \in Asks, Collected(v), v.ask.what = "graph",
           view' = V!Shown(v)
    PROVE  ViewInv'
<1>1. PICK w : w = view' OBVIOUS
<1>2. /\ DOMAIN w = ViewFields /\ w.at = "shown" /\ w.ask = v.ask /\ w.repos = v.repos /\ w.matched = v.matched
      /\ w.nodes = v.nodes /\ w.edges = ShownEdges(v)
  BY <1>1, PrunedIs
<1>3. GraphIsSound' BY <1>1, <1>2, CollectedIsSound DEF Unmoved
<1>4. Reads(w)' BY <1>2 DEF Reads
<1>5. Reads(view)' BY <1>1, <1>4, ReadsAre
<1>6. PageMatchesTotal' BY <1>1, <1>2 DEF PageMatchesTotal
<1> QED BY <1>3, <1>5, <1>6 DEF ViewInv

\* A query of the graph is followed by another.
LEMMA CollectingOK ==
    ASSUME Unmoved, NEW v, DOMAIN v = ViewFields, v.ask \in Asks, Collected(v), v.ask.what = "graph",
           NEW at \in {"apis", "resources", "links"}, view' = [v EXCEPT !.at = at],
           at = "apis" => v.edges = {} /\ \A x \in DOMAIN APIOf : <<"api", x>> \notin v.nodes
    PROVE  ViewInv'
<1>1. PICK w : w = view' OBVIOUS
<1>2. /\ DOMAIN w = ViewFields /\ w.at = at /\ w.ask = v.ask /\ w.repos = v.repos /\ w.matched = v.matched
      /\ w.rels = v.rels /\ w.nodes = v.nodes /\ w.edges = v.edges
  BY <1>1 DEF ViewFields
<1>3. Collected(w) BY <1>2 DEF Collected, FloorOK, PageOK, CutIn, RelsOK, NodesOK, EdgesOK, APIsOK
<1>4. Reads(w) BY <1>2, <1>3 DEF Reads
<1> QED BY <1>1, <1>2, <1>4, NextRead

LEMMA AfterAPIsOK ==
    ASSUME GraphConstants, Unmoved, NEW v, DOMAIN v = ViewFields, v.ask \in Asks, Collected(v), v.ask.what = "graph",
           view' = V!AfterAPIs(v)
    PROVE  ViewInv'
BY ShownOK, CollectingOK DEF V!AfterAPIs

LEMMA ListRepositoryRelationshipsOK ==
    ASSUME GraphConstants, ViewInv, V!ListRepositoryRelationships
    PROVE  ViewInv'
<1>1. Unmoved BY DEF V!ListRepositoryRelationships, Unmoved
<1>2. PICK q : q = view.ask OBVIOUS
<1>3. /\ DOMAIN view = ViewFields /\ view.at = "relationships" /\ q \in Asks /\ q.what = "graph"
      /\ view.edges = {} /\ FloorOK(q) /\ PageOK(view)
  BY <1>2 DEF V!ListRepositoryRelationships, ViewInv, Reads
<1>4. PICK found : found = {i \in Rels : /\ relation[i].live
                                         /\ q.repo # 0 => q.repo \in {relation[i].src, relation[i].dst}
                                         /\ q.kind # None => relation[i].kind = q.kind
                                         /\ q.source # None => relation[i].source = q.source}
  OBVIOUS
<1>5. PICK v : v = [view EXCEPT !.rels = {[id |-> i, row |-> relation[i]] : i \in found},
                                !.nodes = {V!RepositoryToGraphNode(r) : r \in view.repos}]
  OBVIOUS
<1>6. view' = IF "api" \in V!nodeKindSet(q.kinds) THEN [v EXCEPT !.at = "apis"] ELSE V!AfterAPIs(v)
  BY <1>2, <1>4, <1>5, SameOnGraph DEF V!ListRepositoryRelationships
<1>7. /\ DOMAIN v = ViewFields /\ v.ask = q /\ v.repos = view.repos /\ v.matched = view.matched /\ v.edges = {}
      /\ v.rels = {[id |-> i, row |-> relation[i]] : i \in found}
      /\ v.nodes = {<<"repo", r>> : r \in view.repos}
  BY <1>2, <1>3, <1>5, NodeIs DEF ViewFields
<1>8. PageOK(v) BY <1>2, <1>3, <1>7 DEF PageOK, CutIn
<1>9. RelsOK(v)
  <2>1. \A x \in v.rels : x.id \in found /\ x = [id |-> x.id, row |-> relation[x.id]] BY <1>7
  <2>2. \A x, y \in v.rels : x.id = y.id => x = y BY <2>1
  <2>3. ASSUME NEW i \in Rels, relation[i].live, Passes(q, relation[i])
        PROVE  \E x \in v.rels : x.id = i /\ x.row = relation[i]
    <3>1. i \in found BY <1>4, <2>3 DEF Passes
    <3>2. [id |-> i, row |-> relation[i]] \in v.rels BY <1>7, <3>1
    <3> QED BY <3>2
  <2> QED BY <1>7, <2>2, <2>3 DEF RelsOK
<1>10. NodesOK(v) BY <1>7 DEF NodesOK
<1>11. \A x : <<"api", x>> \notin v.nodes BY <1>7
<1>12. Collected(v) BY <1>3, <1>7, <1>8, <1>9, <1>10, <1>11 DEF Collected, EdgesOK, APIsOK
<1> QED BY <1>1, <1>3, <1>6, <1>7, <1>11, <1>12, AfterAPIsOK, CollectingOK

LEMMA ListAPIsOK == ASSUME GraphConstants, TablesInv, ViewInv, V!ListAPIs PROVE ViewInv'
<1>1. Unmoved BY DEF V!ListAPIs, Unmoved
<1>2. PICK u : u = view OBVIOUS
<1>3. /\ DOMAIN u = ViewFields /\ u.at = "apis" /\ u.ask \in Asks /\ u.ask.what = "graph"
      /\ u.edges = {} /\ \A x \in DOMAIN APIOf : <<"api", x>> \notin u.nodes
  BY <1>2 DEF V!ListAPIs, ViewInv, Reads
<1>4. Collected(u)
  BY <1>2, <1>3 DEF ViewInv, Reads, Collected, FloorOK, PageOK, CutIn, RelsOK, NodesOK, EdgesOK, APIsOK
<1>5. PICK found : found = {x \in DOMAIN api : api[x] = "live" /\ OrgOf[APIOf[x]] = "own"} OBVIOUS
<1>6. PICK v : v = [u EXCEPT !.nodes = @ \cup {V!APIToGraphNode(x) : x \in found},
                             !.edges = {V!APIProvidesEdge(x) : x \in found}]
  OBVIOUS
<1>7. view' = V!AfterAPIs(v) BY <1>2, <1>5, <1>6 DEF V!ListAPIs
<1>8. /\ DOMAIN v = ViewFields /\ v.ask = u.ask /\ v.repos = u.repos /\ v.matched = u.matched /\ v.rels = u.rels
      /\ v.nodes = u.nodes \cup {<<"api", x>> : x \in found}
      /\ v.edges = {V!APIProvidesEdge(x) : x \in found}
  BY <1>3, <1>6, NodeIs DEF ViewFields
<1>9. found \subseteq DOMAIN APIOf BY <1>5 DEF TablesInv
<1>10. PageOK(v) BY <1>4, <1>8 DEF Collected, PageOK, CutIn
<1>11. RelsOK(v) BY <1>4, <1>8 DEF Collected, RelsOK
<1>12. NodesOK(v) BY <1>4, <1>8 DEF Collected, NodesOK
<1>13. EdgesOK(v) BY <1>8, <1>9 DEF EdgesOK
<1>14. APIsOK(v)
  <2>1. ASSUME NEW x \in DOMAIN APIOf, <<"api", x>> \in v.nodes
        PROVE  /\ V!APIProvidesEdge(x) \in v.edges
               /\ ~CutIn(v) /\ Stood(<<"repo", APIOf[x]>>) => APIOf[x] \in v.repos
    <3>1. x \in found BY <1>3, <1>8, <2>1
    <3>2. APIOf[x] \in Own BY <1>5, <3>1 DEF TablesInv, Own, Present
    <3> QED BY <1>3, <1>8, <1>10, <3>1, <3>2 DEF PageOK
  <2> QED BY <2>1 DEF APIsOK
<1>15. Collected(v) BY <1>4, <1>8, <1>10, <1>11, <1>12, <1>13, <1>14 DEF Collected, FloorOK
<1> QED BY <1>1, <1>3, <1>7, <1>8, <1>15, AfterAPIsOK

LEMMA ListResourcesOK == ASSUME ViewInv, V!ListResources PROVE ViewInv'
<1>1. Unmoved BY DEF V!ListResources, Unmoved
<1>2. PICK u : u = view OBVIOUS
<1>3. DOMAIN u = ViewFields /\ u.at = "resources" /\ u.ask \in Asks /\ u.ask.what = "graph"
  BY <1>2 DEF V!ListResources, ViewInv, Reads
<1>4. Collected(u)
  BY <1>2, <1>3 DEF ViewInv, Reads, Collected, FloorOK, PageOK, CutIn, RelsOK, NodesOK, EdgesOK, APIsOK
<1>5. PICK more : more = {V!ResourceToGraphNode(l.resource) : l \in V!OwnLinks} OBVIOUS
<1>6. PICK v : v = view' OBVIOUS
<1>7. v = [u EXCEPT !.at = "links", !.nodes = @ \cup more] BY <1>2, <1>5, <1>6 DEF V!ListResources
<1>8. /\ DOMAIN v = ViewFields /\ v.at = "links" /\ v.ask = u.ask /\ v.repos = u.repos /\ v.matched = u.matched
      /\ v.rels = u.rels /\ v.nodes = u.nodes \cup more /\ v.edges = u.edges
  BY <1>3, <1>7 DEF ViewFields
<1>9. \A x : <<"repo", x>> \notin more /\ <<"api", x>> \notin more BY <1>5, NodeIs
<1>10. Collected(v)
  BY <1>4, <1>8, <1>9 DEF Collected, FloorOK, PageOK, CutIn, RelsOK, NodesOK, EdgesOK, APIsOK
<1>11. Reads(v) BY <1>3, <1>8, <1>10 DEF Reads
<1> QED BY <1>1, <1>6, <1>8, <1>11, NextRead

LEMMA ListRepositoryResourcesOK == ASSUME GraphConstants, ViewInv, V!ListRepositoryResources PROVE ViewInv'
<1>1. Unmoved BY DEF V!ListRepositoryResources, Unmoved
<1>2. PICK u : u = view OBVIOUS
<1>3. DOMAIN u = ViewFields /\ u.at = "links" /\ u.ask \in Asks /\ u.ask.what = "graph"
  BY <1>2 DEF V!ListRepositoryResources, ViewInv, Reads
<1>4. Collected(u)
  BY <1>2, <1>3 DEF ViewInv, Reads, Collected, FloorOK, PageOK, CutIn, RelsOK, NodesOK, EdgesOK, APIsOK
<1>5. PICK more : more = {V!ResourceUsesEdge(l) : l \in V!OwnLinks} OBVIOUS
<1>6. PICK v : v = [u EXCEPT !.edges = @ \cup more] OBVIOUS
<1>7. view' = V!Shown(v) BY <1>2, <1>5, <1>6 DEF V!ListRepositoryResources
<1>8. /\ DOMAIN v = ViewFields /\ v.ask = u.ask /\ v.repos = u.repos /\ v.matched = u.matched
      /\ v.rels = u.rels /\ v.nodes = u.nodes /\ v.edges = u.edges \cup more
  BY <1>3, <1>6 DEF ViewFields
<1>9. \A e \in more : \E l \in Links : e = V!ResourceUsesEdge(l) BY <1>5 DEF V!OwnLinks
<1>10. EdgesOK(v) BY <1>4, <1>8, <1>9 DEF Collected, EdgesOK
<1>11. Collected(v) BY <1>4, <1>8, <1>10 DEF Collected, FloorOK, PageOK, CutIn, RelsOK, NodesOK, APIsOK
<1> QED BY <1>1, <1>3, <1>7, <1>8, <1>11, ShownOK

-----------------------------------------------------------------------------
(* All steps *)

LEMMA LookOK == ASSUME GraphConstants, TablesInv, RequestInv, ViewInv, V!Look PROVE GraphInv'
<1>1. UNCHANGED <<repo, api, link, relation, request>>
  BY DEF V!Look, V!BeginRead, V!FetchRepository, V!CountRepositories, V!ListRepositories,
         V!ListRepositoryRelationships, V!ListAPIs, V!ListResources, V!ListRepositoryResources
<1>2. TablesInv' /\ RequestInv' BY <1>1, TablesStay, RequestStays
<1>3. ViewInv'
  BY BeginReadOK, FetchRepositoryOK, CountRepositoriesOK, ListRepositoriesOK, ListRepositoryRelationshipsOK,
     ListAPIsOK, ListResourcesOK, ListRepositoryResourcesOK DEF V!Look
<1> QED BY <1>2, <1>3 DEF GraphInv

LEMMA GraphInit == V!Init => GraphInv
<1> SUFFICES ASSUME V!Init PROVE GraphInv OBVIOUS
<1>1. \A i \in Rels : relation[i] = V!NoRel BY DEF V!Init
<1>2. \A i \in Rels : RowIs(relation[i]) BY <1>1, NoRelIs DEF RowIs, NoRowYet
<1>3. TablesInv BY <1>2 DEF V!Init, TablesInv, Statuses
<1>4. request.at = "idle" /\ view.at = "idle" BY DEF V!Init, V!Idle
<1>5. RequestInv BY <1>4 DEF RequestInv
<1>6. ViewInv BY <1>4 DEF ViewInv, Reads, GraphIsSound, Drawn, PageMatchesTotal
<1> QED BY <1>3, <1>5, <1>6 DEF GraphInv

LEMMA GraphStep == ASSUME GraphConstants, GraphInv, [V!Next]_V!vars PROVE GraphInv'
<1> USE DEF GraphInv
<1>1. CASE V!Rows
  <2>1. UNCHANGED <<request, view>>
    BY <1>1 DEF V!Rows, V!CreateRepository, V!DeleteRepository, V!DeriveAPI, V!DeriveLink, V!DeriveRel
  <2>2. TablesInv' /\ RequestInv' BY <1>1, <2>1, RowsOK, RequestStays
  <2> QED BY <1>1, <2>1, <2>2, RowsAreNoticed, ViewKept, IdleKept
<1>2. CASE V!Declare
  <2>1. UNCHANGED view
    BY <1>2 DEF V!Declare, V!BeginCreate, V!ReadRelationship, V!RequireEnds, V!InsertRelationship,
                V!SaveRelationship, V!DeleteRelationship
  <2> QED BY <1>2, <2>1, DeclareOK, DeclareIsNoticed, ViewKept, IdleKept
<1>3. CASE V!Look BY <1>3, LookOK
<1>4. CASE UNCHANGED V!vars
  <2>1. UNCHANGED <<repo, api, link, relation, request, view, touched>> BY <1>4 DEF V!vars
  <2>2. TablesInv' /\ RequestInv' BY <2>1, TablesStay, RequestStays
  <2>3. Noticed BY <2>1 DEF Noticed, Noted
  <2> QED BY <2>2, <2>3, ViewKept
<1> QED BY <1>1, <1>2, <1>3, <1>4 DEF V!Next

LEMMA GraphInvHolds == GraphConstants /\ GraphInv => GraphViewHolds
<1> SUFFICES ASSUME GraphConstants, GraphInv PROVE GraphViewHolds OBVIOUS
<1>1. ASSUME NEW i \in Rels, relation[i].src # 0
      PROVE  /\ Present(relation[i].src) /\ Present(relation[i].dst) /\ IsValid(relation[i])
             /\ OrgOf[relation[i].src] = "own" /\ OrgOf[relation[i].dst] = "own"
  <2>1. RowIs(relation[i]) BY DEF GraphInv, TablesInv
  <2> QED BY <1>1, <2>1 DEF RowIs, NoRowYet, Whole, Ours
<1>2. RowsAreThere /\ RelationshipsStayInside BY <1>1 DEF RowsAreThere, RelationshipsStayInside, GraphInv, TablesInv
<1> QED BY <1>2 DEF GraphViewHolds, GraphInv, ViewInv

(* What is there from the first query to the last is drawn, and nothing    *)
(* else: for any repositories, APIs, links and relationships, whatever     *)
(* people ask for and declare meanwhile; and a relationship joins two      *)
(* repositories of the organization that are there (GetGraph, pruneEdges,  *)
(* repository_relationship_service.go; ListPaginated of repositories).     *)
THEOREM GraphShowsWhatIsThere ==
    ASSUME V!ViewAssumption
    PROVE  V!Spec => []GraphViewHolds
<1>1. GraphConstants BY GraphConstantsAre
<1>2. V!Init => GraphInv BY GraphInit
<1>3. GraphInv /\ [V!Next]_V!vars => GraphInv' BY <1>1, GraphStep
<1>4. GraphInv => GraphViewHolds BY <1>1, GraphInvHolds
<1> QED BY <1>2, <1>3, <1>4, PTL DEF V!Spec
=============================================================================

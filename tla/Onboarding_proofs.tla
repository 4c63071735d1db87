-------------------------- MODULE Onboarding_proofs --------------------------
(***************************************************************************)
(* What holds of Onboarding for every number of requests, flows, steps and  *)
(* edits.                                                                  *)
(*                                                                         *)
(* The argument: what a request carries from a read stays within what the  *)
(* tables can hold (RequestsOK, StepsOK); a row that says completed was    *)
(* read or written when no required step was pending, and a step that was  *)
(* made required since is marked (CompletedHolds, CompletingHolds);        *)
(* whoever recorded the last outcome is still going to derive it, also     *)
(* when edits add required steps (DerivationHolds); and a nominee that is  *)
(* not the default has a request under way that nominates again            *)
(* (NominationHolds).                                                      *)
(***************************************************************************)
EXTENDS Onboarding, SequenceTheorems, TLAPS

Places == {"idle", "clear", "insert", "update", "replace", "create", "outcome", "passed",
           "start", "verified", "steps", "progress", "complete", "feedback"}

ReadingPlaces == {"outcome", "passed", "start", "verified", "steps", "progress", "complete", "feedback"}

\* Steps as a request names them: 0 is the id of a new one.
Drafts == [id : StepIds \union {0}, required : BOOLEAN, verified : BOOLEAN]

Requests == [at : Places, flow : Flows \union {NoRow}, list : Seq(Drafts), default : BOOLEAN,
             step : Nat, status : {"none", "kept", "changed", "done", "skipped"},
             row : Rows \union {NoRow}]

OneIdEach(list) == \A i, j \in DOMAIN list : list[i].id = list[j].id => i = j \/ list[i].id = 0

\* What the steps of a request rely on.
RequestOK(c) ==
    /\ req[c].at # "idle" => req[c].flow \in Flows
    /\ req[c].at \in ReadingPlaces => req[c].row \in Rows /\ assignment[req[c].flow] # NoRow
    /\ req[c].at \in {"outcome", "passed"} => req[c].step \in StepIds /\ req[c].status \in {"done", "skipped"}
    /\ req[c].at \in {"progress", "complete"} => \A s \in Range(req[c].list) : s.id \in used
    /\ OneIdEach(req[c].list)
    /\ req[c].at = "clear" => req[c].default
    /\ req[c].at = "insert" => flow[req[c].flow].state = "none"

Creates(c, f) == req[c].at \in {"clear", "insert"} /\ req[c].flow = f

RequestsOK ==
    /\ req \in [Clients -> Requests]
    /\ \A c \in Clients : RequestOK(c)
    /\ \A f \in Flows : flow[f].state = "none" =>
          \A c, d \in Clients : Creates(c, f) /\ Creates(d, f) => c = d

\* Ids are given once, and an outcome needs an assignment.
StepsOK ==
    /\ \A f \in Flows : \A s \in Range(steps[f]) : s.id \in used
    /\ \A id \in StepIds : outcome[id] # "none" => id \in used
    /\ \A f \in Flows : \A s \in Range(steps[f]) : outcome[s.id] # "none" => assignment[f] # NoRow
    /\ \A f \in spoken : assignment[f] # NoRow

AllWalked(f) == Pending(steps[f], outcome) = {}

\* Whoever holds the row of f as completed: the table, or a request that read it.
SaysCompleted(f) ==
    \/ assignment[f] # NoRow /\ assignment[f].status = "completed"
    \/ \E c \in Clients : /\ req[c].at \in ReadingPlaces /\ req[c].flow = f
                          /\ req[c].row.status = "completed"

CompletedHolds == \A f \in Flows : SaysCompleted(f) => "raised" \in excuse[f] \/ AllWalked(f)

\* A request that is about to write completed has seen an outcome on every
\* required step that is still there.
CompletingHolds ==
    \A c \in Clients : req[c].at = "complete" =>
        \A s \in Range(req[c].list) :
            s.required => outcome[s.id] # "none" \/ ~HasStep(req[c].flow, s.id)

\* A request that will find that no required step is pending.
WillDerive(c, f) ==
    /\ req[c].flow = f
    /\ \/ req[c].at \in {"start", "steps", "complete"}
       \/ req[c].at = "progress" /\ Required(req[c].list) \subseteq Required(steps[f])

\* Nothing but a step made required has come between the outcomes and completion.
Plain(f) == excuse[f] \subseteq {"raised"}

DerivationHolds ==
    /\ \A f \in Flows : Walked(f) /\ Plain(f) =>
          assignment[f].status = "completed" \/ \E c \in Clients : WillDerive(c, f)
    /\ \A c \in Clients : LET f == req[c].flow IN
          /\ req[c].at \in {"steps", "progress"} /\ req[c].row.status = "completed"
          /\ "overlapped" \notin excuse[f]
          => assignment[f].status = "completed"

\* The default is nominated, or a request that demoted it is about to.
NominationHolds ==
    nominee # NoRow /\ ~unsettled =>
        \/ Default(nominee) /\ \A f \in Flows \ {nominee} : ~Default(f)
        \/ \E c \in Clients : req[c].at \in {"insert", "update"} /\ req[c].default

WalkInv == CompletedHolds /\ CompletingHolds /\ DerivationHolds
IInv == TypeOK /\ RequestsOK /\ StepsOK /\ WalkInv /\ NominationHolds /\ FeedbackKeptUnlessOverlapped

-----------------------------------------------------------------------------
(* Lists of steps. *)

LEMMA StepRowsAreDrafts == StepRows \subseteq Drafts /\ Seq(StepRows) \subseteq Seq(Drafts)
<1>1. StepRows \subseteq Drafts
  BY DEF StepRows, Drafts
<1>2. ASSUME NEW s \in Seq(StepRows) PROVE s \in Seq(Drafts)
  BY <1>1
<1> QED BY <1>1, <1>2

LEMMA DraftChanged ==
    ASSUME NEW d \in Drafts, NEW x \in BOOLEAN
    PROVE  [d EXCEPT !.required = x] \in Drafts /\ [d EXCEPT !.required = x].id = d.id
BY DEF Drafts

LEMMA RemovedAt ==
    ASSUME NEW S, NEW s \in Seq(S), NEW i \in DOMAIN s
    PROVE  /\ RemoveAt(s, i) \in Seq(S)
           /\ Len(RemoveAt(s, i)) = Len(s) - 1
           /\ \A j \in DOMAIN RemoveAt(s, i) : RemoveAt(s, i)[j] = IF j < i THEN s[j] ELSE s[j + 1]
<1> DEFINE a == SubSeq(s, 1, i - 1)
           b == SubSeq(s, i + 1, Len(s))
<1>1. a \in Seq(S) /\ Len(a) = i - 1 /\ \A j \in 1..i - 1 : a[j] = s[j]
  OBVIOUS
<1>2. b \in Seq(S) /\ Len(b) = Len(s) - i /\ \A j \in 1..Len(s) - i : b[j] = s[i + j]
  OBVIOUS
<1>3. RemoveAt(s, i) = a \o b
  BY DEF RemoveAt
<1> HIDE DEF a, b
<1> QED BY <1>1, <1>2, <1>3, SMTT(60)

LEMMA EditedList ==
    ASSUME NEW s \in Seq(StepRows), \A i, j \in DOMAIN s : s[i].id = s[j].id => i = j,
           NEW list \in Edits(s)
    PROVE  list \in Seq(Drafts) /\ OneIdEach(list)
<1>0. s \in Seq(Drafts)
  BY StepRowsAreDrafts
<1> DEFINE new == [id |-> 0, required |-> TRUE, verified |-> FALSE]
<1>1. ASSUME NEW i \in DOMAIN s
      PROVE  /\ RemoveAt(s, i) \in Seq(Drafts) /\ OneIdEach(RemoveAt(s, i))
             /\ Append(RemoveAt(s, i), s[i]) \in Seq(Drafts) /\ OneIdEach(Append(RemoveAt(s, i), s[i]))
  <2> DEFINE r == RemoveAt(s, i)
  <2>1. /\ r \in Seq(Drafts) /\ Len(r) = Len(s) - 1
        /\ \A j \in DOMAIN r : r[j] = IF j < i THEN s[j] ELSE s[j + 1]
    BY <1>0, RemovedAt
  <2> HIDE DEF r
  <2>2. i \in 1..Len(s) /\ s[i] \in Drafts
    BY <1>0
  <2>3. OneIdEach(r)
    <3> DEFINE at(j) == IF j < i THEN j ELSE j + 1
    <3>1. \A j \in DOMAIN r : at(j) \in DOMAIN s /\ r[j] = s[at(j)]
      BY <2>1, <2>2
    <3>2. \A j, k \in DOMAIN r : at(j) = at(k) => j = k
      BY <2>1, <2>2
    <3> HIDE DEF at
    <3> QED BY <3>1, <3>2 DEF OneIdEach
  <2>4. Append(r, s[i]) \in Seq(Drafts)
    BY <2>1, <2>2
  <2>5. OneIdEach(Append(r, s[i]))
    <3> DEFINE at(j) == IF j = Len(s) THEN i ELSE IF j < i THEN j ELSE j + 1
    <3>1. \A j \in DOMAIN Append(r, s[i]) : at(j) \in DOMAIN s /\ Append(r, s[i])[j] = s[at(j)]
      BY <2>1, <2>2
    <3>2. \A j, k \in DOMAIN Append(r, s[i]) : at(j) = at(k) => j = k
      BY <2>1, <2>2
    <3> HIDE DEF at
    <3> QED BY <3>1, <3>2 DEF OneIdEach
  <2> QED BY <2>1, <2>3, <2>4, <2>5 DEF r
<1>2. ASSUME NEW i \in DOMAIN s
      PROVE  [s EXCEPT ![i].required = ~@] \in Seq(Drafts) /\ OneIdEach([s EXCEPT ![i].required = ~@])
  <2> DEFINE r == [s EXCEPT ![i].required = ~@]
             d == [s[i] EXCEPT !.required = ~s[i].required]
  <2>1. r = [s EXCEPT ![i] = d]
    OBVIOUS
  <2>2. d \in Drafts /\ d.id = s[i].id
    <3>1. s[i] \in Drafts
      BY <1>0
    <3> QED BY <3>1, DraftChanged DEF Drafts
  <2> HIDE DEF r, d
  <2>3. r \in Seq(Drafts) /\ DOMAIN r = DOMAIN s
    BY <1>0, <2>1, <2>2
  <2>4. \A j \in DOMAIN s : r[j].id = s[j].id
    BY <1>0, <2>1, <2>2
  <2>5. OneIdEach(r)
    BY <2>3, <2>4 DEF OneIdEach
  <2> QED BY <2>3, <2>5 DEF r
<1>3. new \in Drafts
  BY DEF Drafts
<1>4. new.id = 0
  OBVIOUS
<1> HIDE DEF new
<1>5. Append(s, new) \in Seq(Drafts)
  BY <1>0, <1>3
<1>6. OneIdEach(Append(s, new))
  BY <1>0, <1>4 DEF OneIdEach
<1> QED BY <1>1, <1>2, <1>5, <1>6 DEF Edits, new
LEMMA TemplateOK == Template \in Seq(Drafts) /\ OneIdEach(Template) /\ <<>> \in Seq(Drafts) /\ OneIdEach(<<>>)
<1>1. /\ [id |-> 0, required |-> TRUE, verified |-> FALSE] \in Drafts
      /\ [id |-> 0, required |-> TRUE, verified |-> TRUE] \in Drafts
  BY DEF Drafts
<1>2. Template \in Seq(Drafts)
  BY <1>1 DEF Template
<1> QED BY <1>2 DEF Template, OneIdEach

\* The steps of a flow, copied as new ones.
LEMMA CopiedList ==
    ASSUME NEW s \in Seq(StepRows)
    PROVE  LET copy == [i \in DOMAIN s |-> [s[i] EXCEPT !.id = 0]]
           IN  copy \in Seq(Drafts) /\ OneIdEach(copy)
<1>1. \A r \in StepRows : [r EXCEPT !.id = 0] \in Drafts /\ [r EXCEPT !.id = 0].id = 0
  BY DEF StepRows, Drafts
<1>2. \A i \in DOMAIN s : s[i] \in StepRows
  OBVIOUS
<1> DEFINE copy == [i \in DOMAIN s |-> [s[i] EXCEPT !.id = 0]]
<1>3. DOMAIN copy = 1..Len(s) /\ Len(s) \in Nat /\ \A i \in 1..Len(s) : copy[i] \in Drafts /\ copy[i].id = 0
  BY <1>1, <1>2
<1>4. copy = [i \in 1..Len(s) |-> copy[i]]
  OBVIOUS
<1> HIDE DEF copy
<1>5. copy \in Seq(Drafts)
  BY <1>3, <1>4
<1>6. OneIdEach(copy)
  BY <1>3 DEF OneIdEach
<1> QED BY <1>5, <1>6 DEF copy

\* What a saved list becomes: its steps keep their ids, new ones get ids that
\* were never given out.
LEMMA NumberedList ==
    ASSUME NEW list \in Seq(Drafts), OneIdEach(list), used \subseteq StepIds,
           NEW ids \in FreshIds(list),
           \A i \in DOMAIN list : list[i].id # 0 => list[i].id \in used
    PROVE  LET rows == Numbered(list, ids)
           IN  /\ rows \in Seq(StepRows)
               /\ DOMAIN rows = DOMAIN list
               /\ \A i \in DOMAIN list :
                      IF list[i].id = 0 THEN rows[i].id \in StepIds \ used ELSE rows[i] = list[i]
               /\ \A i, j \in DOMAIN list : rows[i].id = rows[j].id => i = j
<1> DEFINE new == {i \in DOMAIN list : list[i].id = 0}
           rows == Numbered(list, ids)
<1>1. ids \in [new -> StepIds \ used] /\ \A i, j \in new : ids[i] = ids[j] => i = j
  BY DEF FreshIds
<1>2. \A d \in Drafts : \A x \in StepIds : [d EXCEPT !.id = x] \in StepRows /\ [d EXCEPT !.id = x].id = x
  BY DEF Drafts, StepRows
<1>3. \A d \in Drafts : d.id # 0 => d \in StepRows
  BY DEF Drafts, StepRows
<1>4. /\ DOMAIN list = 1..Len(list) /\ Len(list) \in Nat
      /\ \A i \in 1..Len(list) : list[i] \in Drafts
  OBVIOUS
<1>5. /\ rows = [i \in DOMAIN list |-> rows[i]]
      /\ \A i \in DOMAIN list : rows[i] = IF list[i].id = 0 THEN [list[i] EXCEPT !.id = ids[i]] ELSE list[i]
  BY DEF Numbered
<1> HIDE DEF rows
<1>6. \A i \in 1..Len(list) : rows[i] \in StepRows
  BY <1>1, <1>2, <1>3, <1>4, <1>5
<1>7. rows \in Seq(StepRows) /\ DOMAIN rows = DOMAIN list
  BY <1>4, <1>5, <1>6
<1>8. \A i \in DOMAIN list : IF list[i].id = 0 THEN rows[i].id \in StepIds \ used /\ rows[i].id = ids[i]
                                               ELSE rows[i] = list[i] /\ rows[i].id \in used
  <2>1. ASSUME NEW i \in DOMAIN list, list[i].id = 0
        PROVE  rows[i].id \in StepIds \ used /\ rows[i].id = ids[i]
    <3>1. i \in new /\ list[i] \in Drafts /\ ids[i] \in StepIds \ used
      BY <2>1, <1>1, <1>4
    <3>2. rows[i] = [list[i] EXCEPT !.id = ids[i]]
      BY <2>1, <1>5
    <3>3. [list[i] EXCEPT !.id = ids[i]].id = ids[i]
      BY <3>1, <1>2
    <3> QED BY <3>1, <3>2, <3>3
  <2>2. ASSUME NEW i \in DOMAIN list, list[i].id # 0
        PROVE  rows[i] = list[i] /\ rows[i].id \in used
    BY <2>2, <1>5
  <2> QED BY <2>1, <2>2
<1>9. \A i, j \in DOMAIN list : rows[i].id = rows[j].id => i = j
  <2>1. ASSUME NEW i \in DOMAIN list, NEW j \in DOMAIN list, rows[i].id = rows[j].id PROVE i = j
    <3>1. CASE list[i].id = 0
      <4>1. list[j].id = 0
        BY <2>1, <3>1, <1>8
      <4> QED BY <2>1, <3>1, <4>1, <1>1, <1>8
    <3>2. CASE list[i].id # 0
      <4>1. list[j].id # 0
        BY <2>1, <3>2, <1>8
      <4> QED BY <2>1, <3>2, <4>1, <1>8 DEF OneIdEach
    <3> QED BY <3>1, <3>2
  <2> QED BY <2>1
<1> QED BY <1>7, <1>8, <1>9 DEF rows

-----------------------------------------------------------------------------
(* Requests. *)

LEMMA RequestType ==
    ASSUME RequestsOK, NEW c \in Clients
    PROVE  /\ req[c] \in Requests
           /\ Idle \in Requests
           /\ \A r \in Requests : [req EXCEPT ![c] = r] \in [Clients -> Requests]
<1>1. Idle \in Requests
  <2>1. <<>> \in Seq(Drafts)
    BY TemplateOK
  <2> QED BY <2>1 DEF Requests, Idle, Places
<1> QED BY <1>1 DEF RequestsOK

LEMMA RequestUpdated ==
    ASSUME NEW r \in Requests, NEW at \in Places, NEW list \in Seq(Drafts), NEW row \in Rows \union {NoRow}
    PROVE  /\ [r EXCEPT !.at = at] \in Requests
           /\ [r EXCEPT !.at = at, !.row = row] \in Requests
           /\ [r EXCEPT !.at = at, !.list = list] \in Requests
BY DEF Requests
\* A request that begins: it has read the row it will save, and what it is
\* about to do is legal.
Starts(c) ==
    /\ req[c].at = "idle"
    /\ req'[c] \in Requests
    /\ req' = [req EXCEPT ![c] = req'[c]]
    /\ req'[c].at \in {"clear", "insert", "update", "replace", "create", "outcome", "passed", "feedback"}
    /\ req'[c].at \in ReadingPlaces => req'[c].row = assignment[req'[c].flow]
    /\ RequestOK(c)'
    /\ \A f \in Flows : Creates(c, f)' /\ flow[f].state = "none" => \A d \in Clients : ~Creates(d, f)
    /\ UNCHANGED <<tables, history>>

LEMMA CreateStarts ==
    ASSUME TypeOK, RequestsOK, NEW c \in Clients, NEW f \in Flows, NEW default \in BOOLEAN,
           NEW list \in Seq(Drafts), OneIdEach(list), CreateFlow(c, f, default, list)
    PROVE  Starts(c)
<1> DEFINE at == IF default THEN "clear" ELSE "insert"
<1>1. [Idle EXCEPT !.at = at, !.flow = f, !.default = default, !.list = list] \in Requests
  BY TemplateOK DEF Requests, Idle, Places
<1>2. /\ req' = [req EXCEPT ![c] = [Idle EXCEPT !.at = at, !.flow = f, !.default = default, !.list = list]]
      /\ req[c].at = "idle" /\ flow[f].state = "none" /\ \A d \in Clients : req[d].flow # f
      /\ UNCHANGED <<tables, history>>
  BY DEF CreateFlow, Begin
<1>3. req'[c] = [Idle EXCEPT !.at = at, !.flow = f, !.default = default, !.list = list]
  BY <1>2, RequestType DEF RequestsOK
<1>4. req'[c].at = at /\ req'[c].flow = f /\ req'[c].default = default /\ req'[c].list = list
  BY <1>3 DEF Idle
<1>5. RequestOK(c)'
  BY <1>2, <1>4 DEF RequestOK, ReadingPlaces, tables
<1> HIDE DEF at
<1>6. at \in {"clear", "insert"}
  BY DEF at
<1> QED BY <1>1, <1>2, <1>3, <1>4, <1>5, <1>6 DEF Starts, ReadingPlaces, Creates

LEMMA EditStarts ==
    ASSUME TypeOK, RequestsOK, NEW c \in Clients, NEW f \in Flows,
           \/ \E default \in BOOLEAN : UpdateFlow(c, f, default)
           \/ \E list \in Edits(steps[f]) : ReplaceSteps(c, f, list)
           \/ Assign(c, f) /\ UNCHANGED <<tables, history>>
    PROVE  Starts(c)
<1>1. CASE \E default \in BOOLEAN : UpdateFlow(c, f, default)
  <2>1. PICK default \in BOOLEAN : UpdateFlow(c, f, default)
    BY <1>1
  <2> DEFINE at == IF default /\ ~flow[f].default THEN "clear" ELSE "update"
             status == IF default = flow[f].default THEN "kept" ELSE "changed"
             r == [Idle EXCEPT !.at = at, !.flow = f, !.default = default, !.status = status]
  <2>2. r \in Requests
    BY TemplateOK DEF Requests, Idle, Places
  <2>3. /\ req' = [req EXCEPT ![c] = r] /\ req[c].at = "idle" /\ flow[f].state = "live"
        /\ UNCHANGED <<tables, history>>
    BY <2>1 DEF UpdateFlow, Begin, Live
  <2>4. r.at = at /\ r.flow = f /\ r.default = default /\ r.list = <<>> /\ r.row = NoRow
    BY DEF Idle
  <2>5. at \in {"clear", "update"} /\ (at = "clear" => default)
    OBVIOUS
  <2> HIDE DEF at, status, r
  <2>6. req'[c] = r
    BY <2>3, RequestType DEF RequestsOK
  <2>7. RequestOK(c)'
    BY <2>3, <2>4, <2>5, <2>6, TemplateOK DEF RequestOK, ReadingPlaces, tables
  <2> QED BY <2>2, <2>3, <2>4, <2>5, <2>6, <2>7 DEF Starts, ReadingPlaces, Creates
<1>2. CASE \E list \in Edits(steps[f]) : ReplaceSteps(c, f, list)
  <2>1. PICK list \in Edits(steps[f]) : ReplaceSteps(c, f, list)
    BY <1>2
  <2> DEFINE r == [Idle EXCEPT !.at = "replace", !.flow = f, !.list = list]
  <2>2. list \in Seq(Drafts) /\ OneIdEach(list)
    BY EditedList DEF TypeOK
  <2>3. r \in Requests
    BY <2>2, TemplateOK DEF Requests, Idle, Places
  <2>4. req' = [req EXCEPT ![c] = r] /\ req[c].at = "idle" /\ UNCHANGED <<tables, history>>
    BY <2>1 DEF ReplaceSteps, Begin
  <2>5. r.at = "replace" /\ r.flow = f /\ r.list = list
    BY DEF Idle
  <2> HIDE DEF r
  <2>6. req'[c] = r
    BY <2>4, RequestType DEF RequestsOK
  <2>7. RequestOK(c)'
    BY <2>2, <2>5, <2>6 DEF RequestOK, ReadingPlaces
  <2> QED BY <2>3, <2>4, <2>5, <2>6, <2>7 DEF Starts, ReadingPlaces, Creates
<1>3. CASE Assign(c, f) /\ UNCHANGED <<tables, history>>
  <2> DEFINE r == [Idle EXCEPT !.at = "create", !.flow = f]
  <2>1. r \in Requests
    BY TemplateOK DEF Requests, Idle, Places
  <2>2. req' = [req EXCEPT ![c] = r] /\ req[c].at = "idle"
    BY <1>3 DEF Assign, Begin
  <2>3. r.at = "create" /\ r.flow = f /\ r.list = <<>>
    BY DEF Idle
  <2> HIDE DEF r
  <2>4. req'[c] = r
    BY <2>2, RequestType DEF RequestsOK
  <2>5. RequestOK(c)'
    BY <2>3, <2>4, TemplateOK DEF RequestOK, ReadingPlaces
  <2> QED BY <1>3, <2>1, <2>2, <2>3, <2>4, <2>5 DEF Starts, ReadingPlaces, Creates
<1> QED BY <1>1, <1>2, <1>3

LEMMA WalkStarts ==
    ASSUME TypeOK, RequestsOK, NEW c \in Clients, NEW f \in Flows,
           \/ \E id \in StepIds : \E status \in Statuses : MarkStep(c, f, id, status)
           \/ \E id \in StepIds : Verify(c, f, id)
           \/ SubmitFeedback(c, f)
    PROVE  Starts(c)
<1>0. assignment[f] \in Rows \union {NoRow}
  BY DEF TypeOK
<1>1. ASSUME NEW id \in StepIds, NEW status \in {"done", "skipped"}, NEW at \in {"outcome", "passed"},
             ResolveOwnStep(c, f, id, at, status)
      PROVE  Starts(c)
  <2> DEFINE r == [Idle EXCEPT !.at = at, !.flow = f, !.step = id, !.status = status, !.row = assignment[f]]
  <2>1. r \in Requests
    BY <1>0, TemplateOK, OnboardingAssumption DEF Requests, Idle, Places
  <2>2. /\ req' = [req EXCEPT ![c] = r] /\ req[c].at = "idle" /\ UNCHANGED <<tables, history>>
        /\ assignment[f] # NoRow
    BY <1>1 DEF ResolveOwnStep, Begin
  <2>3. /\ r.at = at /\ r.flow = f /\ r.list = <<>> /\ r.row = assignment[f]
        /\ r.step = id /\ r.status = status
    BY DEF Idle
  <2> HIDE DEF r
  <2>4. req'[c] = r
    BY <2>2, RequestType DEF RequestsOK
  <2>5. RequestOK(c)'
    BY <1>0, <2>2, <2>3, <2>4, TemplateOK DEF RequestOK, ReadingPlaces, tables
  <2> QED BY <2>1, <2>2, <2>3, <2>4, <2>5 DEF Starts, ReadingPlaces, Creates
<1>2. CASE SubmitFeedback(c, f)
  <2> DEFINE r == [Idle EXCEPT !.at = "feedback", !.flow = f, !.row = assignment[f]]
  <2>1. r \in Requests
    BY <1>0, TemplateOK DEF Requests, Idle, Places
  <2>2. /\ req' = [req EXCEPT ![c] = r] /\ req[c].at = "idle" /\ UNCHANGED <<tables, history>>
        /\ assignment[f] # NoRow
    BY <1>2 DEF SubmitFeedback, Begin
  <2>3. r.at = "feedback" /\ r.flow = f /\ r.list = <<>> /\ r.row = assignment[f]
    BY DEF Idle
  <2> HIDE DEF r
  <2>4. req'[c] = r
    BY <2>2, RequestType DEF RequestsOK
  <2>5. RequestOK(c)'
    BY <1>0, <2>2, <2>3, <2>4, TemplateOK DEF RequestOK, ReadingPlaces, tables
  <2> QED BY <2>1, <2>2, <2>3, <2>4, <2>5 DEF Starts, ReadingPlaces, Creates
<1> QED BY <1>1, <1>2, OnboardingAssumption DEF MarkStep, Verify
\* The steps that are not the first of a request.
Goes(c) ==
    \/ ClearDefaultOnboardingFlow(c) \/ CreateOnboardingFlow(c) \/ UpdateOnboardingFlow(c)
    \/ ReplaceOnboardingSteps(c) \/ CreateOnboardingAssignment(c)
    \/ UpsertOnboardingStepProgress(c) \/ SaveStarted(c) \/ ListOnboardingSteps(c)
    \/ ListOnboardingStepProgress(c) \/ SaveCompleted(c) \/ SaveFeedback(c) \/ Abort(c)

LEMMA EveryStep ==
    ASSUME TypeOK, RequestsOK, [Next]_vars
    PROVE  \/ UNCHANGED vars
           \/ \E f \in Flows : DeleteOnboardingFlow(f)
           \/ \E c \in Clients : Starts(c) \/ Goes(c)
<1>1. ASSUME NEW c \in Clients, Compose(c)
      PROVE  Starts(c) \/ Goes(c) \/ \E f \in Flows : DeleteOnboardingFlow(f)
  <2>1. ASSUME NEW f \in Flows, NEW default \in BOOLEAN, NEW list \in {<<>>, Template},
               CreateFlow(c, f, default, list)
        PROVE  Starts(c)
    BY <2>1, CreateStarts, TemplateOK
  <2>2. ASSUME NEW f \in Flows, NEW g \in Flows, DuplicateFlow(c, f, g) PROVE Starts(c)
    <3> DEFINE copy == [i \in DOMAIN steps[g] |-> [steps[g][i] EXCEPT !.id = 0]]
    <3>1. copy \in Seq(Drafts) /\ OneIdEach(copy)
      BY CopiedList DEF TypeOK
    <3>2. CreateFlow(c, f, FALSE, copy)
      BY <2>2 DEF DuplicateFlow
    <3> HIDE DEF copy
    <3> QED BY <3>1, <3>2, CreateStarts
  <2>3. ASSUME NEW f \in Flows, \/ \E default \in BOOLEAN : UpdateFlow(c, f, default)
                               \/ \E list \in Edits(steps[f]) : ReplaceSteps(c, f, list)
        PROVE  Starts(c)
    BY <2>3, EditStarts
  <2> QED BY <1>1, <2>1, <2>2, <2>3 DEF Compose, Goes
<1>2. ASSUME NEW c \in Clients, AssignFlow(c) PROVE Starts(c) \/ Goes(c)
  <2>1. ASSUME NEW f \in Flows, AssignToMember(c, f) PROVE Starts(c)
    BY <2>1, EditStarts DEF AssignToMember
  <2>2. ASSUME NEW f \in Flows \union {NoRow}, AssignFromInvite(c, f) PROVE Starts(c)
    <3>1. PICK g \in Flows : Assign(c, g) /\ UNCHANGED <<tables, history>>
      BY <2>2 DEF AssignFromInvite
    <3> QED BY <3>1, EditStarts
  <2> QED BY <1>2, <2>1, <2>2 DEF AssignFlow, Goes
<1>3. ASSUME NEW c \in Clients, Walk(c) PROVE Starts(c) \/ Goes(c)
  BY <1>3, WalkStarts DEF Walk, Goes
<1>4. ASSUME NEW c \in Clients, Abort(c) PROVE Goes(c)
  BY <1>4 DEF Goes
<1> QED BY <1>1, <1>2, <1>3, <1>4 DEF Next

\* What the other requests rely on.
LEMMA RequestsMove ==
    ASSUME TypeOK, RequestsOK, NEW c \in Clients, NEW r \in Requests,
           req' = [req EXCEPT ![c] = r], RequestOK(c)',
           \A f \in Flows : Creates(c, f)' /\ flow[f].state = "none" =>
               Creates(c, f) \/ \A d \in Clients : ~Creates(d, f),
           \A f \in Flows : flow'[f].state = "none" => flow[f].state = "none",
           \A f \in Flows : flow'[f].state # flow[f].state => \A d \in Clients \ {c} : ~Creates(d, f),
           used \subseteq used',
           \A f \in Flows : assignment[f] # NoRow => assignment'[f] # NoRow
    PROVE  RequestsOK'
<1>1. req' \in [Clients -> Requests] /\ req'[c] = r /\ \A d \in Clients \ {c} : req'[d] = req[d]
  BY DEF RequestsOK
<1>2. ASSUME NEW d \in Clients \ {c} PROVE RequestOK(d)'
  <2>1. RequestOK(d)
    BY DEF RequestsOK
  <2>2. req'[d] = req[d]
    BY <1>1
  <2>3. req[d].at = "insert" => flow'[req[d].flow].state = "none"
    BY <2>1 DEF RequestOK, Creates
  <2> QED BY <2>1, <2>2, <2>3 DEF RequestOK, ReadingPlaces
<1>3. ASSUME NEW f \in Flows, flow'[f].state = "none", NEW d \in Clients, NEW e \in Clients,
             Creates(d, f)', Creates(e, f)'
      PROVE  d = e
  BY <1>1, <1>3 DEF RequestsOK, Creates
<1> QED BY <1>1, <1>2, <1>3 DEF RequestsOK

Base == TypeOK /\ RequestsOK /\ StepsOK

LEMMA StartBase ==
    ASSUME Base, NEW c \in Clients, Starts(c)
    PROVE  Base'
<1>1. RequestsOK'
  BY RequestsMove DEF Base, Starts, tables
<1>2. TypeOK'
  BY DEF Base, TypeOK, Starts, tables, history
<1>3. StepsOK'
  BY DEF Base, StepsOK, Starts, tables, history
<1> QED BY <1>1, <1>2, <1>3 DEF Base

LEMMA FlowUpdated ==
    ASSUME TypeOK, NEW f \in Flows, NEW b \in BOOLEAN
    PROVE  LET Rowset == [state : {"none", "live", "deleted"}, default : BOOLEAN] IN
           /\ [flow EXCEPT ![f] = [state |-> "live", default |-> b]] \in [Flows -> Rowset]
           /\ [flow EXCEPT ![f].default = b] \in [Flows -> Rowset]
           /\ \A g \in Flows : [flow EXCEPT ![f].default = b][g].state = flow[g].state
           /\ [flow EXCEPT ![f].default = b][f].default = b
           /\ \A g \in Flows \ {f} : [flow EXCEPT ![f].default = b][g] = flow[g]
<1>1. /\ flow \in [Flows -> [state : {"none", "live", "deleted"}, default : BOOLEAN]]
      /\ \A g \in Flows : flow[g] \in [state : {"none", "live", "deleted"}, default : BOOLEAN]
  BY DEF TypeOK
<1>2. [state |-> "live", default |-> b] \in [state : {"none", "live", "deleted"}, default : BOOLEAN]
  OBVIOUS
<1>3. /\ [flow[f] EXCEPT !.default = b] \in [state : {"none", "live", "deleted"}, default : BOOLEAN]
      /\ [flow[f] EXCEPT !.default = b].state = flow[f].state
      /\ [flow[f] EXCEPT !.default = b].default = b
  BY <1>1
<1> QED BY <1>1, <1>2, <1>3

\* The steps of administrators on the flows.
LEMMA FlowBase ==
    ASSUME Base, \/ \E f \in Flows : DeleteOnboardingFlow(f)
                 \/ \E c \in Clients : \/ ClearDefaultOnboardingFlow(c)
                                       \/ CreateOnboardingFlow(c) \/ UpdateOnboardingFlow(c)
    PROVE  Base'
<1>0. \A f \in Flows : flow[f] \in [state : {"none", "live", "deleted"}, default : BOOLEAN]
  BY DEF Base, TypeOK
<1>1. CASE \E f \in Flows : DeleteOnboardingFlow(f)
  <2>1. PICK f \in Flows : DeleteOnboardingFlow(f)
    BY <1>1
  <2>2. TypeOK'
    BY <2>1 DEF Base, TypeOK, DeleteOnboardingFlow
  <2>3. StepsOK'
    BY <2>1 DEF Base, StepsOK, DeleteOnboardingFlow
  <2>4. flow[f].state = "live" /\ \A g \in Flows \ {f} : flow'[g] = flow[g]
    BY <2>1 DEF DeleteOnboardingFlow, Live
  <2>5. RequestsOK'
    <3>1. \A g \in Flows : flow'[g].state = "none" <=> flow[g].state = "none"
      BY <2>1, <2>4 DEF DeleteOnboardingFlow, Base, TypeOK
    <3>2. \A d \in Clients : RequestOK(d)'
      BY <2>1, <3>1 DEF Base, RequestsOK, RequestOK, ReadingPlaces, DeleteOnboardingFlow
    <3> QED BY <2>1, <3>1, <3>2 DEF Base, RequestsOK, Creates, DeleteOnboardingFlow
  <2> QED BY <2>2, <2>3, <2>5 DEF Base
<1>2. ASSUME NEW c \in Clients, ClearDefaultOnboardingFlow(c)
      PROVE  Base'
  <2> DEFINE f == req[c].flow
             r == [req[c] EXCEPT !.at = IF flow[f].state = "none" THEN "insert" ELSE "update"]
  <2>1. f \in Flows /\ req[c] \in Requests /\ RequestOK(c) /\ req[c].at = "clear"
    BY <1>2 DEF ClearDefaultOnboardingFlow, Base, RequestsOK, RequestOK
  <2>2. flow' \in [Flows -> [state : {"none", "live", "deleted"}, default : BOOLEAN]]
        /\ \A g \in Flows : flow'[g].state = flow[g].state
    BY <1>0, <1>2 DEF ClearDefaultOnboardingFlow
  <2>3. TypeOK' /\ StepsOK'
    BY <1>2, <2>2 DEF ClearDefaultOnboardingFlow, Base, TypeOK, StepsOK, history
  <2>4. /\ r \in Requests /\ req' = [req EXCEPT ![c] = r] /\ r.at \in {"insert", "update"}
        /\ r.flow = f /\ r.list = req[c].list /\ (r.at = "insert" => flow[f].state = "none")
    BY <1>2, <2>1 DEF ClearDefaultOnboardingFlow, Goto, Requests, Places
  <2> HIDE DEF f, r
  <2>5. req'[c] = r
    BY <2>4 DEF Base, RequestsOK
  <2>6. RequestOK(c)'
    BY <2>1, <2>2, <2>4, <2>5 DEF RequestOK, ReadingPlaces
  <2>7. \A g \in Flows : Creates(c, g)' => Creates(c, g)
    BY <2>1, <2>4, <2>5 DEF Creates, f
  <2>8. RequestsOK'
    BY <1>2, <2>2, <2>4, <2>6, <2>7, RequestsMove DEF Base, ClearDefaultOnboardingFlow
  <2> QED BY <2>3, <2>8 DEF Base
<1>3. ASSUME NEW c \in Clients, CreateOnboardingFlow(c)
      PROVE  Base'
  <2> DEFINE f == req[c].flow
             r == req'[c]
  <2>1. /\ f \in Flows /\ req[c] \in Requests /\ RequestOK(c) /\ req[c].at = "insert"
        /\ flow[f].state = "none" /\ req[c].default \in BOOLEAN
    BY <1>3 DEF CreateOnboardingFlow, Base, RequestsOK, RequestOK, Requests
  <2>2. /\ flow' \in [Flows -> [state : {"none", "live", "deleted"}, default : BOOLEAN]]
        /\ \A g \in Flows : g # f => flow'[g] = flow[g]
        /\ nominee' \in Flows \union {NoRow} /\ unsettled' \in BOOLEAN
    <3>1. flow \in [Flows -> [state : {"none", "live", "deleted"}, default : BOOLEAN]]
      BY DEF Base, TypeOK
    <3>2. \/ flow' = [flow EXCEPT ![f] = [state |-> "live", default |-> req[c].default]]
          \/ flow' = flow
      BY <1>3 DEF CreateOnboardingFlow
    <3>3. nominee' \in Flows \union {NoRow} /\ unsettled' \in BOOLEAN
      BY <1>3, <2>1 DEF CreateOnboardingFlow, Base, TypeOK
    <3> QED BY <2>1, <3>1, <3>2, <3>3, FlowUpdated DEF Base
  <2>3. TypeOK' /\ StepsOK'
    BY <1>3, <2>2 DEF CreateOnboardingFlow, Base, TypeOK, StepsOK
  <2>4. \/ r = Idle /\ req' = [req EXCEPT ![c] = Idle]
        \/ r = [req[c] EXCEPT !.at = "replace"] /\ req' = [req EXCEPT ![c] = [req[c] EXCEPT !.at = "replace"]]
    BY <1>3 DEF CreateOnboardingFlow, End, Goto, Base, RequestsOK
  <2>5. r \in Requests /\ req' = [req EXCEPT ![c] = r]
    <3>1. [req[c] EXCEPT !.at = "replace"] \in Requests
      BY <2>1 DEF Requests, Places
    <3> QED BY <2>4, <3>1, RequestType DEF Base
  <2>6. \/ r.at = "idle" /\ r.list = <<>>
        \/ r.at = "replace" /\ r.flow = f /\ r.list = req[c].list
    BY <2>1, <2>4 DEF Idle, Requests
  <2> HIDE DEF f, r
  <2>7. RequestOK(c)' /\ \A g \in Flows : ~Creates(c, g)'
    BY <2>1, <2>6, TemplateOK DEF RequestOK, ReadingPlaces, Creates, r
  <2>8. \A d \in Clients \ {c} : ~Creates(d, f)
    BY <2>1 DEF Base, RequestsOK, Creates, f
  <2>9. \A g \in Flows : flow'[g].state = "none" => flow[g].state = "none"
    BY <2>1, <2>2
  <2>10. used' = used /\ assignment' = assignment
    BY <1>3 DEF CreateOnboardingFlow
  <2>11. \A g \in Flows : flow'[g].state # flow[g].state => \A d \in Clients \ {c} : ~Creates(d, g)
    BY <2>2, <2>8
  <2>12. RequestsOK'
    BY <2>5, <2>7, <2>9, <2>10, <2>11, RequestsMove DEF Base
  <2> QED BY <2>3, <2>12 DEF Base
<1>4. ASSUME NEW c \in Clients, UpdateOnboardingFlow(c)
      PROVE  Base'
  <2>1. req[c].flow \in Flows /\ req[c].default \in BOOLEAN
    BY <1>4 DEF UpdateOnboardingFlow, Base, RequestsOK, RequestOK, Requests
  <2>2. /\ flow' \in [Flows -> [state : {"none", "live", "deleted"}, default : BOOLEAN]]
        /\ \A g \in Flows : flow'[g].state = flow[g].state
        /\ nominee' \in Flows \union {NoRow} /\ unsettled' \in BOOLEAN
    <3>1. \/ flow' = [flow EXCEPT ![req[c].flow].default = req[c].default]
          \/ flow' = flow
      BY <1>4 DEF UpdateOnboardingFlow
    <3>2. nominee' \in Flows \union {NoRow} /\ unsettled' \in BOOLEAN
      BY <1>4, <2>1 DEF UpdateOnboardingFlow, Base, TypeOK
    <3>3. flow \in [Flows -> [state : {"none", "live", "deleted"}, default : BOOLEAN]]
      BY DEF Base, TypeOK
    <3> QED BY <2>1, <3>1, <3>2, <3>3, FlowUpdated DEF Base
  <2>3. TypeOK' /\ StepsOK'
    BY <1>4, <2>2 DEF UpdateOnboardingFlow, Base, TypeOK, StepsOK
  <2>4. Idle \in Requests /\ req' = [req EXCEPT ![c] = Idle] /\ req'[c] = Idle
    BY <1>4, RequestType DEF UpdateOnboardingFlow, End, Base, RequestsOK
  <2>5. RequestOK(c)' /\ \A g \in Flows : ~Creates(c, g)'
    BY <2>4, TemplateOK DEF RequestOK, ReadingPlaces, Creates, Idle
  <2>6. RequestsOK'
    BY <1>4, <2>2, <2>4, <2>5, RequestsMove DEF Base, UpdateOnboardingFlow
  <2> QED BY <2>3, <2>6 DEF Base
<1> QED BY <1>1, <1>2, <1>3, <1>4
\* What saving a list does to the steps of its flow.
Replaces(f, list, rows) ==
    /\ f \in Flows /\ list \in Seq(Drafts)
    /\ steps' = [steps EXCEPT ![f] = rows]
    /\ rows \in Seq(StepRows)
    /\ DOMAIN rows = DOMAIN list
    /\ \A i \in DOMAIN list : IF list[i].id = 0 THEN rows[i].id \in StepIds \ used
                               ELSE rows[i] = list[i] /\ HasStep(f, list[i].id)
    /\ \A i, j \in DOMAIN list : rows[i].id = rows[j].id => i = j
    /\ used' = used \union {s.id : s \in Range(rows)}
    /\ outcome' = [id \in StepIds |-> IF id \in Removed(f, list) THEN "none" ELSE outcome[id]]
    /\ excuse' = [excuse EXCEPT ![f] = IF assignment[f] = NoRow THEN @
                                        ELSE @ \union Shift(steps[f], rows, outcome')]

LEMMA ReplaceCases ==
    ASSUME Base, NEW c \in Clients, ReplaceOnboardingSteps(c)
    PROVE  \/ UNCHANGED <<steps, used, outcome, edits, excuse>>
           \/ \E rows : Replaces(req[c].flow, req[c].list, rows)
<1> DEFINE f == req[c].flow
           list == req[c].list
           kept == {s.id : s \in Range(list)} \ {0}
<1>1. f \in Flows /\ list \in Seq(Drafts) /\ OneIdEach(list)
  BY DEF ReplaceOnboardingSteps, Base, RequestsOK, RequestOK, Requests
<1>2. ASSUME \A id \in kept : HasStep(f, id), FreshIds(list) # {},
             steps' = [steps EXCEPT ![f] = Numbered(list, CHOOSE ids \in FreshIds(list) : TRUE)],
             used' = used \union {s.id : s \in Range(steps'[f])},
             outcome' = [id \in StepIds |-> IF id \in Removed(f, list) THEN "none" ELSE outcome[id]],
             excuse' = [excuse EXCEPT ![f] = IF assignment[f] = NoRow THEN @
                                        ELSE @ \union Shift(steps[f], steps'[f], outcome')]
      PROVE  \E rows : Replaces(f, list, rows)
  <2> DEFINE ids == CHOOSE x \in FreshIds(list) : TRUE
             rows == Numbered(list, ids)
  <2>1. ids \in FreshIds(list)
    BY <1>2
  <2>2. \A i \in DOMAIN list : list[i].id # 0 => HasStep(f, list[i].id)
    BY <1>2 DEF Range
  <2>3. \A id : HasStep(f, id) => id \in used
    BY <1>1 DEF HasStep, Base, StepsOK
  <2>4. steps' = [steps EXCEPT ![f] = rows] /\ steps'[f] = rows
    BY <1>1, <1>2 DEF Base, TypeOK
  <2> HIDE DEF ids
  <2>5. /\ rows \in Seq(StepRows) /\ DOMAIN rows = DOMAIN list
        /\ \A i \in DOMAIN list : IF list[i].id = 0 THEN rows[i].id \in StepIds \ used ELSE rows[i] = list[i]
        /\ \A i, j \in DOMAIN list : rows[i].id = rows[j].id => i = j
    <3>1. \A i \in DOMAIN list : list[i].id # 0 => list[i].id \in used
      BY <2>2, <2>3
    <3>2. used \subseteq StepIds
      BY DEF Base, TypeOK
    <3> HIDE DEF f, list
    <3> QED BY <1>1, <2>1, <3>1, <3>2, NumberedList
  <2> HIDE DEF rows, f, list
  <2>6. Replaces(f, list, rows)
    BY <1>1, <1>2, <2>2, <2>4, <2>5 DEF Replaces
  <2> QED BY <2>6
<1> QED BY <1>2 DEF ReplaceOnboardingSteps, Replaces

LEMMA ReplaceBase ==
    ASSUME Base, NEW c \in Clients, ReplaceOnboardingSteps(c)
    PROVE  Base'
<1> DEFINE f == req[c].flow
           list == req[c].list
<1>1. Idle \in Requests /\ req' = [req EXCEPT ![c] = Idle] /\ req'[c] = Idle
  BY RequestType DEF ReplaceOnboardingSteps, End, Base, RequestsOK
<1>2. UNCHANGED <<flow, assignment, spoken, defaults>>
  BY DEF ReplaceOnboardingSteps
<1>3. ASSUME NEW rows, Replaces(f, list, rows)
      PROVE  TypeOK' /\ StepsOK' /\ used \subseteq used'
  <2> HIDE DEF f, list
  <2>1. /\ \A g \in Flows : steps[g] \in Seq(StepRows)
        /\ steps' \in [Flows -> Seq(StepRows)] /\ steps'[f] = rows
        /\ \A g \in Flows \ {f} : steps'[g] = steps[g]
    BY <1>3 DEF Replaces, Base, TypeOK
  <2>2. /\ \A i \in DOMAIN rows : rows[i] \in StepRows
        /\ used' \subseteq StepIds /\ used \subseteq used'
    <3>1. \A i \in DOMAIN rows : rows[i] \in StepRows /\ rows[i].id \in StepIds
      <4>1. rows \in Seq(StepRows) /\ \A r \in StepRows : r.id \in StepIds
        BY <1>3 DEF Replaces, StepRows
      <4> QED BY <4>1
    <3>2. \A s \in Range(rows) : s.id \in StepIds
      BY <3>1 DEF Range
    <3>3. used \subseteq StepIds
      BY DEF Base, TypeOK
    <3> QED BY <1>3, <3>1, <3>2, <3>3 DEF Replaces
  \* A row of the new list is new, or was a step of the flow.
  <2>3. \A i \in DOMAIN rows : \/ rows[i].id \in StepIds \ used
                               \/ \E k \in DOMAIN steps[f] : rows[i].id = steps[f][k].id
    BY <1>3, SMTT(60) DEF Replaces, HasStep, Range
  <2>4. \A g \in Flows : \A k \in DOMAIN steps[g] : steps[g][k].id \in used
    BY DEF Base, StepsOK, Range
  <2>5. \A g \in Flows \ {f} : \A i \in DOMAIN rows, k \in DOMAIN steps[g] : rows[i].id # steps[g][k].id
    BY <1>3, <2>3, <2>4 DEF Replaces, Base, TypeOK
  <2>6. \A g, h \in Flows : \A i \in DOMAIN steps'[g], j \in DOMAIN steps'[h] :
           steps'[g][i].id = steps'[h][j].id => g = h /\ i = j
    <3>1. \A i, j \in DOMAIN rows : rows[i].id = rows[j].id => i = j
      BY <1>3 DEF Replaces
    <3>2. ASSUME NEW g \in Flows, NEW h \in Flows, NEW i \in DOMAIN steps'[g], NEW j \in DOMAIN steps'[h],
                 steps'[g][i].id = steps'[h][j].id
          PROVE  g = h /\ i = j
      <4>1. CASE g = f /\ h = f
        BY <2>1, <3>1, <3>2, <4>1
      <4>2. CASE g = f /\ h # f
        BY <2>1, <2>5, <3>2, <4>2
      <4>3. CASE g # f /\ h = f
        BY <2>1, <2>5, <3>2, <4>3
      <4>4. CASE g # f /\ h # f
        BY <2>1, <3>2, <4>4 DEF Base, TypeOK
      <4> QED BY <4>1, <4>2, <4>3, <4>4
    <3> QED BY <3>2
  <2>7. outcome' \in [StepIds -> {"none", "done", "skipped"}] /\ excuse' \in [Flows -> SUBSET Excuses]
    <3>1. Shift(steps[f], rows, outcome') \subseteq Excuses
      BY DEF Shift, Excuses
    <3> QED BY <1>3, <3>1 DEF Replaces, Base, TypeOK
  <2>8. TypeOK'
    BY <1>2, <2>1, <2>2, <2>6, <2>7 DEF Base, TypeOK, defaults
  <2>9. \A id \in StepIds : outcome'[id] # "none" => outcome[id] # "none"
    BY <1>3 DEF Replaces
  <2>10. ASSUME NEW g \in Flows, NEW s \in Range(steps'[g])
         PROVE  s.id \in used' /\ (outcome'[s.id] # "none" => assignment[g] # NoRow)
    <3>1. CASE g # f
      BY <2>1, <2>2, <2>9, <2>10, <3>1 DEF Base, StepsOK, TypeOK
    <3>2. CASE g = f
      <4>1. PICK i \in DOMAIN rows : s = rows[i]
        BY <2>1, <2>10, <3>2 DEF Range
      <4>2. s.id \in used' /\ s.id \in StepIds
        BY <1>3, <2>2, <4>1 DEF Replaces, Range, StepRows
      <4>3. CASE s.id \in StepIds \ used
        BY <2>9, <4>2, <4>3 DEF Base, StepsOK
      <4>4. CASE \E k \in DOMAIN steps[f] : s.id = steps[f][k].id
        BY <2>9, <3>2, <4>2, <4>4 DEF Base, StepsOK, Range
      <4> QED BY <2>3, <4>1, <4>2, <4>3, <4>4
    <3> QED BY <3>1, <3>2
  <2>11. StepsOK'
    BY <1>2, <2>2, <2>9, <2>10 DEF Base, StepsOK
  <2> QED BY <2>2, <2>8, <2>11
<1>4. ASSUME UNCHANGED <<steps, used, outcome, edits, excuse>>
      PROVE  TypeOK' /\ StepsOK' /\ used \subseteq used'
  BY <1>2, <1>4 DEF Base, TypeOK, StepsOK, defaults
<1>5. TypeOK' /\ StepsOK' /\ used \subseteq used'
  BY <1>3, <1>4, ReplaceCases
<1>6. RequestOK(c)' /\ \A g \in Flows : ~Creates(c, g)'
  BY <1>1, TemplateOK DEF RequestOK, ReadingPlaces, Creates, Idle
<1>7. RequestsOK'
  BY <1>1, <1>2, <1>5, <1>6, RequestsMove DEF Base
<1> QED BY <1>5, <1>7 DEF Base
LEMMA StepTyped ==
    ASSUME TypeOK, NEW f \in Flows, NEW s \in Range(steps[f])
    PROVE  s \in StepRows /\ s.id \in StepIds /\ HasStep(f, s.id)
<1>1. steps[f] \in Seq(StepRows)
  BY DEF TypeOK
<1>2. PICK i \in DOMAIN steps[f] : s = steps[f][i]
  BY DEF Range
<1>3. s \in StepRows
  BY <1>1, <1>2
<1> QED BY <1>3 DEF StepRows, HasStep

\* A step belongs to one flow.
LEMMA OneFlowEach ==
    ASSUME TypeOK, NEW f \in Flows, NEW g \in Flows, NEW id, HasStep(f, id), HasStep(g, id)
    PROVE  f = g
BY DEF TypeOK, HasStep, Range

LEMMA RowUpdated ==
    ASSUME NEW row \in Rows
    PROVE  /\ MarkStarted(row) \in Rows
           /\ MarkStarted(row).feedback = row.feedback
           /\ (MarkStarted(row).status = "completed" <=> row.status = "completed")
           /\ [row EXCEPT !.status = "completed"] \in Rows
           /\ [row EXCEPT !.status = "completed"].status = "completed"
           /\ [row EXCEPT !.status = "completed"].feedback = row.feedback
           /\ [row EXCEPT !.feedback = TRUE] \in Rows
           /\ [row EXCEPT !.feedback = TRUE].feedback
           /\ [row EXCEPT !.feedback = TRUE].status = row.status
BY DEF Rows, MarkStarted

\* What a step of the walk does: it moves its request, may write the row of
\* its flow, and the outcome on a step of it.
Walks(c, r) ==
    /\ r \in Requests /\ req' = [req EXCEPT ![c] = r]
    /\ UNCHANGED <<flow, steps, used, edits, defaults>>
    /\ \/ r.at = "idle"
       \/ r.at \in {"start", "verified", "steps"} /\ r.flow = req[c].flow
    /\ excuse' \in [Flows -> SUBSET Excuses]

LEMMA WalkRequests ==
    ASSUME Base, NEW c \in Clients, NEW r, Walks(c, r),
           r.at # "idle" => r.row \in Rows /\ assignment'[r.flow] # NoRow,
           OneIdEach(r.list), req[c].flow \in Flows,
           \A f \in Flows : assignment[f] # NoRow => assignment'[f] # NoRow
    PROVE  RequestsOK'
<1>1. req'[c] = r
  BY DEF Walks, Base, RequestsOK
<1>2. RequestOK(c)'
  BY <1>1 DEF RequestOK, ReadingPlaces, Walks
<1>3. \A f \in Flows : ~Creates(c, f)'
  BY <1>1 DEF Creates, Walks
<1> QED BY <1>2, <1>3, RequestsMove DEF Walks, Base

LEMMA WalkTables ==
    ASSUME Base, NEW c \in Clients, NEW r, Walks(c, r),
           assignment' \in [Flows -> Rows \union {NoRow}],
           \A f \in Flows : assignment[f] # NoRow => assignment'[f] # NoRow,
           UNCHANGED outcome,
           spoken' = spoken \/ \E f \in Flows : spoken' = spoken \union {f} /\ assignment[f] # NoRow
    PROVE  TypeOK' /\ StepsOK'
<1>1. TypeOK'
  BY DEF Base, TypeOK, Walks, defaults
<1>2. \A f \in Flows : \A s \in Range(steps[f]) : outcome[s.id] # "none" => assignment'[f] # NoRow
  BY DEF Base, StepsOK
<1>3. \A f \in spoken' : assignment'[f] # NoRow
  BY DEF Base, StepsOK, TypeOK
<1> QED BY <1>1, <1>2, <1>3 DEF Base, StepsOK, Walks

LEMMA RowBase ==
    ASSUME Base, NEW c \in Clients,
           \/ CreateOnboardingAssignment(c) \/ SaveStarted(c) \/ SaveCompleted(c) \/ SaveFeedback(c)
    PROVE  Base'
<1> DEFINE f == req[c].flow
           r == req'[c]
<1>1. /\ f \in Flows /\ req[c] \in Requests /\ RequestOK(c) /\ Idle \in Requests
      /\ assignment \in [Flows -> Rows \union {NoRow}] /\ NoRow \notin Rows
      /\ excuse \in [Flows -> SUBSET Excuses]
  BY RequestType, OnboardingAssumption
     DEF Base, TypeOK, RequestsOK, RequestOK, CreateOnboardingAssignment, SaveStarted, SaveCompleted, SaveFeedback
<1>2. Idle.at = "idle" /\ OneIdEach(Idle.list)
  BY TemplateOK DEF Idle
<1>3. CASE CreateOnboardingAssignment(c)
  <2>1. [status |-> "pending", feedback |-> FALSE] \in Rows
    BY DEF Rows
  <2>2. /\ assignment' \in [Flows -> Rows \union {NoRow}]
        /\ \A g \in Flows : assignment[g] # NoRow => assignment'[g] # NoRow
    BY <1>1, <1>3, <2>1 DEF CreateOnboardingAssignment
  <2>3. Walks(c, Idle)
    BY <1>1, <1>2, <1>3 DEF CreateOnboardingAssignment, Walks, End, history, defaults
  <2>4. RequestsOK'
    BY <1>1, <1>2, <2>2, <2>3, WalkRequests
  <2>5. UNCHANGED <<outcome, spoken>>
    BY <1>3 DEF CreateOnboardingAssignment, history
  <2>6. TypeOK' /\ StepsOK'
    BY <2>2, <2>3, <2>5, WalkTables
  <2> QED BY <2>4, <2>6 DEF Base
<1>4. CASE SaveStarted(c)
  <2> DEFINE row == MarkStarted(req[c].row)
             s == [req[c] EXCEPT !.at = "steps", !.row = row]
  <2>1. req[c].row \in Rows /\ row \in Rows /\ assignment[f] # NoRow
    BY <1>1, <1>4, RowUpdated DEF SaveStarted, RequestOK, ReadingPlaces
  <2> HIDE DEF row
  <2>2. /\ assignment' \in [Flows -> Rows \union {NoRow}]
        /\ \A g \in Flows : assignment[g] # NoRow => assignment'[g] # NoRow
    BY <1>1, <1>4, <2>1 DEF SaveStarted, SaveRow, row
  <2>3. s \in Requests /\ s.at = "steps" /\ s.flow = f /\ s.row = row /\ s.list = req[c].list
    BY <1>1, <2>1 DEF Requests, Places
  <2>4. \/ req' = [req EXCEPT ![c] = Idle] \/ req' = [req EXCEPT ![c] = s]
    BY <1>4 DEF SaveStarted, row
  <2> HIDE DEF s
  <2>5. UNCHANGED <<flow, steps, used, edits, outcome, spoken, defaults>>
    BY <1>4 DEF SaveStarted, SaveRow
  <2>6. excuse' \in [Flows -> SUBSET Excuses]
    BY <1>1, <1>4 DEF SaveStarted, Overlap, Excuses
  <2>7. Walks(c, Idle) \/ Walks(c, s)
    BY <1>1, <1>2, <2>3, <2>4, <2>5, <2>6 DEF Walks
  <2>8. OneIdEach(s.list) /\ assignment'[f] # NoRow
    BY <1>1, <2>1, <2>2, <2>3 DEF RequestOK
  <2>9. RequestsOK'
    <3>1. CASE Walks(c, Idle)
      BY <1>1, <1>2, <2>2, <3>1, WalkRequests
    <3>2. CASE Walks(c, s)
      BY <1>1, <2>1, <2>2, <2>3, <2>8, <3>2, WalkRequests
    <3> QED BY <2>7, <3>1, <3>2
  <2>10. TypeOK' /\ StepsOK'
    BY <2>2, <2>5, <2>7, WalkTables
  <2> QED BY <2>9, <2>10 DEF Base
<1>5. CASE SaveCompleted(c) \/ SaveFeedback(c)
  <2>1. req[c].row \in Rows /\ assignment[f] # NoRow
    BY <1>1, <1>5 DEF SaveCompleted, SaveFeedback, RequestOK, ReadingPlaces
  <2>2. PICK row \in Rows : assignment' = [assignment EXCEPT ![f] = row]
    BY <1>5, <2>1, RowUpdated DEF SaveCompleted, SaveFeedback, SaveRow
  <2>3. /\ assignment' \in [Flows -> Rows \union {NoRow}]
        /\ \A g \in Flows : assignment[g] # NoRow => assignment'[g] # NoRow
    BY <1>1, <2>2
  <2>4. excuse' \in [Flows -> SUBSET Excuses]
    BY <1>1, <1>5 DEF SaveCompleted, SaveFeedback, Overlap, Excuses
  <2>5. Walks(c, Idle) /\ UNCHANGED outcome
    BY <1>1, <1>2, <1>5, <2>4 DEF SaveCompleted, SaveFeedback, SaveRow, End, Walks
  <2>6. spoken' = spoken \/ spoken' = spoken \union {f}
    BY <1>5 DEF SaveCompleted, SaveFeedback
  <2>7. RequestsOK'
    BY <1>1, <1>2, <2>3, <2>5, WalkRequests
  <2>8. TypeOK' /\ StepsOK'
    BY <1>1, <2>1, <2>3, <2>5, <2>6, WalkTables
  <2> QED BY <2>7, <2>8 DEF Base
<1> QED BY <1>3, <1>4, <1>5

LEMMA ReadBase ==
    ASSUME Base, NEW c \in Clients,
           ListOnboardingSteps(c) \/ ListOnboardingStepProgress(c) \/ Abort(c)
    PROVE  Base'
<1> DEFINE f == req[c].flow
<1>1. /\ f \in Flows /\ req[c] \in Requests /\ RequestOK(c) /\ Idle \in Requests
      /\ assignment \in [Flows -> Rows \union {NoRow}]
      /\ steps[f] \in Seq(Drafts) /\ steps[f] \in Seq(StepRows)
      /\ excuse \in [Flows -> SUBSET Excuses]
  <2>1. f \in Flows
    BY DEF Base, RequestsOK, RequestOK, ListOnboardingSteps, ListOnboardingStepProgress, Abort
  <2> QED BY <2>1, RequestType, StepRowsAreDrafts DEF Base, TypeOK, RequestsOK
<1>2. Idle.at = "idle" /\ OneIdEach(Idle.list)
  BY TemplateOK DEF Idle
<1>3. UNCHANGED <<flow, steps, used, edits, assignment, outcome, spoken, nominee>>
  BY DEF ListOnboardingSteps, ListOnboardingStepProgress, Abort, tables, history, defaults
<1>4. excuse' \in [Flows -> SUBSET Excuses]
  <2>1. \A x : Underived(x) \subseteq Excuses
    BY DEF Underived, Excuses
  <2> QED BY <1>1, <2>1 DEF ListOnboardingSteps, ListOnboardingStepProgress, Abort, history
<1>5. unsettled' \in BOOLEAN
  BY <1>1 DEF ListOnboardingSteps, ListOnboardingStepProgress, Abort, history, defaults,
              Base, TypeOK, Requests
<1>6. TypeOK' /\ StepsOK'
  BY <1>3, <1>4, <1>5 DEF Base, TypeOK, StepsOK
<1>7. PICK r : /\ r \in Requests /\ req' = [req EXCEPT ![c] = r] /\ OneIdEach(r.list)
               /\ \/ r.at = "idle"
                  \/ /\ r.at \in {"progress", "complete"} /\ r.flow = f /\ r.row \in Rows
                     /\ assignment[f] # NoRow /\ \A s \in Range(r.list) : s.id \in used
  <2>1. CASE req' = [req EXCEPT ![c] = Idle]
    BY <1>1, <1>2, <2>1
  <2>2. CASE ListOnboardingSteps(c) /\ Live(f)
    <3> DEFINE s == [req[c] EXCEPT !.at = "progress", !.list = steps[f]]
    <3>1. req' = [req EXCEPT ![c] = s]
      BY <1>1, <2>2 DEF ListOnboardingSteps, Base, RequestsOK
    <3>2. s \in Requests /\ s.at = "progress" /\ s.list = steps[f] /\ s.flow = f /\ s.row = req[c].row
      BY <1>1 DEF Requests, Places
    <3>3. OneIdEach(steps[f]) /\ \A t \in Range(steps[f]) : t.id \in used
      BY <1>1 DEF OneIdEach, Base, TypeOK, StepsOK
    <3>4. req[c].row \in Rows /\ assignment[f] # NoRow
      BY <1>1, <2>2 DEF ListOnboardingSteps, RequestOK, ReadingPlaces
    <3> HIDE DEF s
    <3> QED BY <3>1, <3>2, <3>3, <3>4
  <2>3. CASE ListOnboardingStepProgress(c) /\ req' = [req EXCEPT ![c].at = "complete"]
    <3> DEFINE s == [req[c] EXCEPT !.at = "complete"]
    <3>1. req' = [req EXCEPT ![c] = s]
      BY <2>3
    <3>2. s \in Requests /\ s.at = "complete" /\ s.list = req[c].list /\ s.flow = f /\ s.row = req[c].row
      BY <1>1 DEF Requests, Places
    <3>3. /\ req[c].row \in Rows /\ assignment[f] # NoRow /\ OneIdEach(req[c].list)
          /\ \A t \in Range(req[c].list) : t.id \in used
      BY <1>1, <2>3 DEF ListOnboardingStepProgress, RequestOK, ReadingPlaces
    <3> HIDE DEF s
    <3> QED BY <3>1, <3>2, <3>3
  <2> QED BY <2>1, <2>2, <2>3 DEF ListOnboardingSteps, ListOnboardingStepProgress, Abort, End, Goto
<1>8. req'[c] = r
  BY <1>7 DEF Base, RequestsOK
<1>9. RequestOK(c)' /\ \A g \in Flows : ~Creates(c, g)'
  BY <1>1, <1>3, <1>7, <1>8 DEF RequestOK, ReadingPlaces, Creates
<1>10. RequestsOK'
  BY <1>3, <1>7, <1>9, RequestsMove DEF Base
<1> QED BY <1>6, <1>10 DEF Base

LEMMA OutcomeBase ==
    ASSUME Base, NEW c \in Clients, UpsertOnboardingStepProgress(c)
    PROVE  Base'
<1> DEFINE f == req[c].flow
           id == req[c].step
           at == IF req[c].at = "passed" THEN "verified" ELSE "start"
           s == [Idle EXCEPT !.flow = f, !.row = req[c].row, !.at = at]
<1>1. /\ f \in Flows /\ req[c] \in Requests /\ Idle \in Requests /\ req[c].row \in Rows
      /\ id \in StepIds /\ req[c].status \in {"done", "skipped"} /\ assignment[f] # NoRow
      /\ outcome \in [StepIds -> {"none", "done", "skipped"}] /\ excuse \in [Flows -> SUBSET Excuses]
  <2>1. RequestOK(c) /\ req[c].at \in {"outcome", "passed"}
    BY DEF Base, RequestsOK, UpsertOnboardingStepProgress
  <2> QED BY <2>1, RequestType DEF Base, TypeOK, RequestsOK, RequestOK, ReadingPlaces
<1>2. /\ s \in Requests /\ s.at = at /\ s.flow = f /\ s.row = req[c].row /\ s.list = <<>>
      /\ Idle.at = "idle" /\ Idle.list = <<>> /\ OneIdEach(<<>>)
  BY <1>1, TemplateOK DEF Requests, Idle, Places
<1>3. UNCHANGED <<flow, steps, used, assignment, edits, spoken, defaults>>
  BY DEF UpsertOnboardingStepProgress
<1>4. \/ req' = [req EXCEPT ![c] = s] \/ req' = [req EXCEPT ![c] = Idle]
  BY DEF UpsertOnboardingStepProgress, End
<1>5. excuse' \in [Flows -> SUBSET Excuses]
  BY <1>1 DEF UpsertOnboardingStepProgress, Excuses
<1>6. at \in {"start", "verified"}
  OBVIOUS
<1>7. \/ UNCHANGED outcome
      \/ HasStep(f, id) /\ outcome' = [outcome EXCEPT ![id] = req[c].status]
  BY DEF UpsertOnboardingStepProgress
<1> HIDE DEF s, at
<1>8. RequestsOK'
  <2>1. Walks(c, s) \/ Walks(c, Idle)
    BY <1>1, <1>2, <1>3, <1>4, <1>5, <1>6 DEF Walks
  <2> QED BY <1>1, <1>2, <1>3, <1>6, <2>1, WalkRequests
<1>9. outcome' \in [StepIds -> {"none", "done", "skipped"}]
  BY <1>1, <1>7
<1>10. TypeOK'
  BY <1>3, <1>5, <1>9 DEF Base, TypeOK, defaults
<1>11. StepsOK'
  <2>1. \A g \in Flows : HasStep(g, id) => g = f \/ ~HasStep(f, id)
    BY <1>1 DEF HasStep, Range, Base, TypeOK
  <2>2. HasStep(f, id) => id \in used
    BY <1>1 DEF HasStep, Base, StepsOK
  <2>3. \A i \in StepIds : outcome'[i] # "none" => i \in used
    BY <1>1, <1>7, <2>2 DEF Base, StepsOK
  <2>4. ASSUME NEW g \in Flows, NEW t \in Range(steps[g]), outcome'[t.id] # "none"
        PROVE  assignment[g] # NoRow
    <3>1. CASE t.id = id /\ HasStep(f, id)
      BY <1>1, <2>1, <2>4, <3>1 DEF HasStep
    <3>2. CASE ~(t.id = id /\ HasStep(f, id))
      <4>1. t.id \in StepIds
        BY StepTyped DEF Base
      <4>2. outcome[t.id] # "none"
        BY <1>1, <1>7, <2>4, <3>2, <4>1
      <4> QED BY <4>2 DEF Base, StepsOK
    <3> QED BY <3>1, <3>2
  <2> QED BY <1>3, <2>3, <2>4 DEF Base, StepsOK
<1> QED BY <1>8, <1>10, <1>11 DEF Base

LEMMA BaseStep == ASSUME Base, [Next]_vars PROVE Base'
<1>1. CASE UNCHANGED vars
  <2>1. TypeOK'
    BY <1>1 DEF Base, TypeOK, vars
  <2>2. RequestsOK'
    BY <1>1 DEF Base, RequestsOK, RequestOK, Creates, vars
  <2>3. StepsOK'
    BY <1>1 DEF Base, StepsOK, vars
  <2> QED BY <2>1, <2>2, <2>3 DEF Base
<1>2. CASE \E f \in Flows : DeleteOnboardingFlow(f)
  BY <1>2, FlowBase
<1>3. ASSUME NEW c \in Clients, Starts(c) PROVE Base'
  BY <1>3, StartBase
<1>4. ASSUME NEW c \in Clients, Goes(c) PROVE Base'
  BY <1>4, FlowBase, ReplaceBase, RowBase, ReadBase, OutcomeBase DEF Goes
<1> QED BY <1>1, <1>2, <1>3, <1>4, EveryStep DEF Base
-----------------------------------------------------------------------------
(* What each kind of step leaves alone. *)

LEMMA OthersStay ==
    ASSUME Base, NEW c \in Clients, Starts(c) \/ Goes(c)
    PROVE  \A d \in Clients \ {c} : req'[d] = req[d]
<1>1. \E r : req' = [req EXCEPT ![c] = r]
  <2>1. ASSUME NEW at PROVE Goto(c, at) => req' = [req EXCEPT ![c] = [req[c] EXCEPT !.at = at]]
    BY DEF Goto
  <2>2. UpsertOnboardingStepProgress(c) \/ SaveStarted(c) => \E r : req' = [req EXCEPT ![c] = r]
    BY DEF UpsertOnboardingStepProgress, SaveStarted, End
  <2>3. ListOnboardingSteps(c) => \E r : req' = [req EXCEPT ![c] = r]
    <3>1. [req EXCEPT ![c].at = "progress", ![c].list = steps[req[c].flow]]
              = [req EXCEPT ![c] = [req[c] EXCEPT !.at = "progress", !.list = steps[req[c].flow]]]
      BY DEF Base, RequestsOK
    <3> QED BY <3>1 DEF ListOnboardingSteps, End
  <2> QED BY <2>1, <2>2, <2>3
        DEF Starts, Goes, ClearDefaultOnboardingFlow, CreateOnboardingFlow, UpdateOnboardingFlow,
            ReplaceOnboardingSteps, CreateOnboardingAssignment, ListOnboardingStepProgress,
            SaveCompleted, SaveFeedback, Abort, End
<1> QED BY <1>1 DEF Base, RequestsOK

\* A save of the row that a request read.
Saves(c, row) ==
    /\ req[c].flow \in Flows /\ req[c].row \in Rows /\ row \in Rows
    /\ assignment[req[c].flow] \in Rows
    /\ assignment'[req[c].flow] = row
    /\ \A g \in Flows \ {req[c].flow} : assignment'[g] = assignment[g] /\ excuse'[g] = excuse[g]
    /\ "overlapped" \in excuse[req[c].flow] => "overlapped" \in excuse'[req[c].flow]
    /\ assignment[req[c].flow] # req[c].row => "overlapped" \in excuse'[req[c].flow]
    /\ UNCHANGED <<flow, steps, used, outcome, edits, defaults>>

LEMMA RowSaved ==
    ASSUME Base, NEW c \in Clients
    PROVE  /\ SaveStarted(c) => /\ Saves(c, MarkStarted(req[c].row))
                                /\ excuse[req[c].flow] \subseteq excuse'[req[c].flow]
           /\ SaveCompleted(c) => Saves(c, [req[c].row EXCEPT !.status = "completed"])
           /\ SaveFeedback(c) => /\ Saves(c, [req[c].row EXCEPT !.feedback = TRUE])
                                 /\ excuse[req[c].flow] \subseteq excuse'[req[c].flow]
<1>0. assignment \in [Flows -> Rows \union {NoRow}] /\ excuse \in [Flows -> SUBSET Excuses]
  BY DEF Base, TypeOK
<1>1. ASSUME SaveStarted(c) \/ SaveCompleted(c) \/ SaveFeedback(c)
      PROVE  req[c].flow \in Flows /\ req[c].row \in Rows /\ assignment[req[c].flow] \in Rows
  BY <1>0, <1>1 DEF Base, RequestsOK, RequestOK, ReadingPlaces, SaveStarted, SaveCompleted, SaveFeedback
<1>2. ASSUME SaveStarted(c)
      PROVE  Saves(c, MarkStarted(req[c].row)) /\ excuse[req[c].flow] \subseteq excuse'[req[c].flow]
  BY <1>0, <1>1, <1>2, RowUpdated DEF SaveStarted, SaveRow, Saves, Overlap
<1>3. ASSUME SaveCompleted(c) PROVE Saves(c, [req[c].row EXCEPT !.status = "completed"])
  BY <1>0, <1>1, <1>3, RowUpdated DEF SaveCompleted, SaveRow, Saves, Overlap
<1>4. ASSUME SaveFeedback(c)
      PROVE  Saves(c, [req[c].row EXCEPT !.feedback = TRUE]) /\ excuse[req[c].flow] \subseteq excuse'[req[c].flow]
  BY <1>0, <1>1, <1>4, RowUpdated DEF SaveFeedback, SaveRow, Saves, Overlap
<1> QED BY <1>2, <1>3, <1>4

-----------------------------------------------------------------------------
(* Outcomes and feedback *)

\* What a save of the list does to a step that had an outcome: it keeps the
\* outcome, or the step is gone.
LEMMA StepsReplaced ==
    ASSUME Base, NEW f, NEW list, NEW rows, Replaces(f, list, rows),
           NEW g \in Flows, NEW id \in used
    PROVE  /\ HasStep(g, id)' => HasStep(g, id)
           /\ HasStep(g, id)' => outcome'[id] = outcome[id]
<1>0. id \in StepIds /\ f \in Flows
  BY DEF Base, TypeOK, Replaces
<1>1. /\ steps'[f] = rows /\ \A h \in Flows \ {f} : steps'[h] = steps[h] /\ excuse'[h] = excuse[h]
      /\ DOMAIN rows = DOMAIN list
  BY DEF Replaces, Base, TypeOK
<1>2. outcome'[id] = IF id \in Removed(f, list) THEN "none" ELSE outcome[id]
  BY <1>0 DEF Replaces
<1>3. CASE g = f
  <2>1. ASSUME HasStep(g, id)' PROVE HasStep(g, id) /\ id \notin Removed(f, list)
    <3>1. PICK i \in DOMAIN rows : rows[i].id = id
      BY <1>1, <1>3, <2>1 DEF HasStep, Range
    <3>2. list[i].id = id /\ HasStep(f, id)
      BY <1>1, <3>1 DEF Replaces
    <3> QED BY <1>1, <1>3, <3>1, <3>2 DEF Removed, Range
  <2> QED BY <1>2, <1>3, <2>1
<1>4. CASE g # f
  <2>1. steps'[g] = steps[g] /\ excuse'[g] = excuse[g]
    BY <1>1, <1>4
  <2>2. HasStep(g, id)' <=> HasStep(g, id)
    BY <2>1 DEF HasStep
  <2>3. HasStep(g, id) => ~HasStep(f, id)
    BY <1>0, <1>4, OneFlowEach DEF Base
  <2>4. ~HasStep(f, id) => id \notin Removed(f, list)
    BY DEF HasStep, Removed
  <2> QED BY <1>2, <1>4, <2>1, <2>2, <2>3, <2>4
<1> QED BY <1>3, <1>4

LEMMA ReplacedElsewhere ==
    ASSUME Base, NEW f, NEW list, NEW rows, Replaces(f, list, rows), NEW g \in Flows, g # f
    PROVE  steps'[g] = steps[g] /\ excuse'[g] = excuse[g]
BY DEF Replaces, Base, TypeOK

LEMMA OutcomeGrows ==
    ASSUME Base, NEW c \in Clients, UpsertOnboardingStepProgress(c)
    PROVE  /\ \A id \in StepIds : outcome[id] # "none" => outcome'[id] # "none"
           /\ \A f \in Flows : \A s \in Range(steps[f]) : outcome[s.id] # "none" => outcome'[s.id] # "none"
<1>1. req[c].status \in {"done", "skipped"} /\ outcome \in [StepIds -> {"none", "done", "skipped"}]
  BY DEF Base, TypeOK, RequestsOK, RequestOK, UpsertOnboardingStepProgress
<1>2. \A id \in StepIds : outcome[id] # "none" => outcome'[id] # "none"
  BY <1>1 DEF UpsertOnboardingStepProgress
<1> QED BY <1>2, StepTyped DEF Base

LEMMA OutcomeMoves ==
    ASSUME Base, NEW c \in Clients, UpsertOnboardingStepProgress(c)
    PROVE  IF HasStep(req[c].flow, req[c].step)
           THEN /\ req'[c].at = IF req[c].at = "passed" THEN "verified" ELSE "start"
                /\ req'[c].flow = req[c].flow /\ req'[c].row = req[c].row
           ELSE req'[c] = Idle
<1> DEFINE r == [Idle EXCEPT !.flow = req[c].flow, !.row = req[c].row,
                             !.at = IF req[c].at = "passed" THEN "verified" ELSE "start"]
<1>1. /\ r.at = IF req[c].at = "passed" THEN "verified" ELSE "start"
      /\ r.flow = req[c].flow /\ r.row = req[c].row
  BY DEF Idle
<1>2. IF HasStep(req[c].flow, req[c].step) THEN req' = [req EXCEPT ![c] = r]
                                           ELSE req' = [req EXCEPT ![c] = Idle]
  BY DEF UpsertOnboardingStepProgress, End
<1> HIDE DEF r
<1> QED BY <1>1, <1>2 DEF Base, RequestsOK

LEMMA OutcomeKept ==
    ASSUME Base, [Next]_vars, NEW f \in Flows, NEW s \in Range(steps[f]), outcome[s.id] # "none",
           \E t \in Range(steps'[f]) : t.id = s.id
    PROVE  outcome'[s.id] # "none"
<1>0. s.id \in StepIds /\ s.id \in used /\ HasStep(f, s.id)'
  BY StepTyped DEF Base, StepsOK, HasStep
<1>1. CASE UNCHANGED outcome
  BY <1>1
<1>2. ASSUME NEW c \in Clients, ReplaceOnboardingSteps(c) PROVE outcome'[s.id] # "none"
  BY <1>0, <1>2, ReplaceCases, StepsReplaced
<1>3. ASSUME NEW c \in Clients, UpsertOnboardingStepProgress(c) PROVE outcome'[s.id] # "none"
  <2>1. req[c].status \in {"done", "skipped"} /\ outcome \in [StepIds -> {"none", "done", "skipped"}]
    BY <1>3 DEF Base, TypeOK, RequestsOK, RequestOK, UpsertOnboardingStepProgress
  <2> QED BY <1>0, <1>3, <2>1 DEF UpsertOnboardingStepProgress
<1>4. ASSUME NEW c \in Clients, Goes(c) PROVE outcome'[s.id] # "none"
  BY <1>1, <1>2, <1>3, <1>4
     DEF Goes, ClearDefaultOnboardingFlow, CreateOnboardingFlow, UpdateOnboardingFlow,
         CreateOnboardingAssignment, SaveStarted, SaveRow, ListOnboardingSteps, ListOnboardingStepProgress,
         SaveCompleted, SaveFeedback, Abort, tables
<1> QED BY <1>1, <1>4, EveryStep DEF Base, vars, DeleteOnboardingFlow, Starts, tables

LEMMA FeedbackStep ==
    ASSUME Base, FeedbackKeptUnlessOverlapped, [Next]_vars
    PROVE  FeedbackKeptUnlessOverlapped'
<1>1. CASE UNCHANGED <<assignment, excuse, spoken>>
  BY <1>1 DEF FeedbackKeptUnlessOverlapped
<1>2. ASSUME UNCHANGED <<assignment, spoken>>, \A f \in Flows : "overlapped" \in excuse[f] => "overlapped" \in excuse'[f]
      PROVE  FeedbackKeptUnlessOverlapped'
  BY <1>2 DEF FeedbackKeptUnlessOverlapped, Base, TypeOK
<1>3. ASSUME NEW c \in Clients, ReplaceOnboardingSteps(c) \/ UpsertOnboardingStepProgress(c)
                               \/ ListOnboardingSteps(c) \/ Abort(c)
      PROVE  FeedbackKeptUnlessOverlapped'
  <2>1. excuse \in [Flows -> SUBSET Excuses]
    BY DEF Base, TypeOK
  <2>2. \A f \in Flows : "overlapped" \in excuse[f] => "overlapped" \in excuse'[f]
    <3>1. ReplaceOnboardingSteps(c) => \A f \in Flows : excuse[f] \subseteq excuse'[f]
      <4>1. ASSUME NEW f, NEW list, NEW rows, Replaces(f, list, rows), NEW g \in Flows
            PROVE  excuse[g] \subseteq excuse'[g]
        BY <2>1, <4>1 DEF Replaces
      <4> QED BY <4>1, ReplaceCases
    <3>2. UpsertOnboardingStepProgress(c) => \A f \in Flows : excuse[f] \subseteq excuse'[f]
      BY <2>1 DEF UpsertOnboardingStepProgress
    <3>3. ListOnboardingSteps(c) \/ Abort(c) => \A f \in Flows : excuse[f] \subseteq excuse'[f]
      BY <2>1 DEF ListOnboardingSteps, Abort
    <3> QED BY <1>3, <3>1, <3>2, <3>3
  <2> QED BY <1>2, <1>3, <2>2
          DEF ReplaceOnboardingSteps, UpsertOnboardingStepProgress, ListOnboardingSteps, Abort, tables
<1>4. ASSUME NEW c \in Clients, CreateOnboardingAssignment(c)
      PROVE  FeedbackKeptUnlessOverlapped'
  <2>1. \A f \in spoken : assignment'[f] = assignment[f]
    BY <1>4 DEF CreateOnboardingAssignment, Base, TypeOK, StepsOK
  <2> QED BY <1>4, <2>1 DEF CreateOnboardingAssignment, FeedbackKeptUnlessOverlapped, history
<1>5. ASSUME NEW c \in Clients, SaveStarted(c) \/ SaveCompleted(c) \/ SaveFeedback(c)
      PROVE  FeedbackKeptUnlessOverlapped'
  <2>1. PICK row : Saves(c, row) /\ (req[c].row.feedback => row.feedback)
                   /\ (row.feedback \/ spoken' = spoken)
    <3>1. CASE SaveStarted(c)
      <4>1. Saves(c, MarkStarted(req[c].row)) /\ spoken' = spoken
        BY <3>1, RowSaved DEF SaveStarted
      <4>2. MarkStarted(req[c].row).feedback = req[c].row.feedback
        BY <4>1, RowUpdated DEF Saves
      <4> QED BY <4>1, <4>2
    <3>2. CASE SaveCompleted(c)
      <4>1. Saves(c, [req[c].row EXCEPT !.status = "completed"]) /\ spoken' = spoken
        BY <3>2, RowSaved DEF SaveCompleted
      <4>2. [req[c].row EXCEPT !.status = "completed"].feedback = req[c].row.feedback
        BY <4>1, RowUpdated DEF Saves
      <4> QED BY <4>1, <4>2
    <3>3. CASE SaveFeedback(c)
      <4>1. Saves(c, [req[c].row EXCEPT !.feedback = TRUE])
        BY <3>3, RowSaved
      <4>2. [req[c].row EXCEPT !.feedback = TRUE].feedback
        BY <4>1, RowUpdated DEF Saves
      <4> QED BY <4>1, <4>2
    <3> QED BY <1>5, <3>1, <3>2, <3>3
  <2>2. spoken' = spoken \/ spoken' = spoken \union {req[c].flow}
    BY <1>5 DEF SaveStarted, SaveCompleted, SaveFeedback
  <2>3. ASSUME NEW f \in spoken', "overlapped" \notin excuse'[f] PROVE assignment'[f].feedback
    <3>0. f \in Flows
      BY <2>1, <2>2 DEF Base, TypeOK, Saves
    <3>1. CASE f # req[c].flow
      BY <2>1, <2>2, <2>3, <3>0, <3>1 DEF Saves, FeedbackKeptUnlessOverlapped
    <3>2. CASE f = req[c].flow /\ row.feedback
      BY <2>1, <3>2 DEF Saves
    <3>3. CASE f = req[c].flow /\ spoken' = spoken
      BY <2>1, <2>3, <3>3 DEF Saves, FeedbackKeptUnlessOverlapped
    <3> QED BY <2>1, <3>1, <3>2, <3>3
  <2> QED BY <2>3 DEF FeedbackKeptUnlessOverlapped
<1>6. ASSUME NEW c \in Clients, Goes(c) PROVE FeedbackKeptUnlessOverlapped'
  BY <1>1, <1>3, <1>4, <1>5, <1>6
     DEF Goes, ClearDefaultOnboardingFlow, CreateOnboardingFlow, UpdateOnboardingFlow,
         ListOnboardingStepProgress, tables, history
<1> QED BY <1>1, <1>6, EveryStep DEF Base, vars, DeleteOnboardingFlow, Starts, tables, history
-----------------------------------------------------------------------------
(* Completion *)

\* A row says completed only if it did, or this step completes it.
LEMMA Says ==
    ASSUME NEW f \in Flows, NEW c \in Clients, \A d \in Clients \ {c} : req'[d] = req[d],
           SaysCompleted(f)', ~SaysCompleted(f)
    PROVE  \/ assignment'[f] # NoRow /\ assignment'[f].status = "completed" /\ assignment'[f] # assignment[f]
           \/ /\ req'[c].at \in ReadingPlaces /\ req'[c].flow = f
              /\ req'[c].row.status = "completed"
BY DEF SaysCompleted

LEMMA RequiredIs ==
    ASSUME NEW list
    PROVE  \A id : id \in Required(list) <=> \E s \in Range(list) : s.required /\ s.id = id
BY DEF Required

LEMMA PendingIs ==
    ASSUME NEW list, NEW done
    PROVE  Pending(list, done) = {} <=> \A id \in Required(list) : done[id] # "none"
BY DEF Pending

\* The required steps of a flow are steps of it.
LEMMA RequiredSteps ==
    ASSUME Base, NEW f \in Flows, NEW id \in Required(steps[f])
    PROVE  HasStep(f, id) /\ id \in used
BY RequiredIs DEF HasStep, Base, StepsOK

LEMMA WalkedStays ==
    ASSUME NEW f \in Flows, UNCHANGED steps, AllWalked(f),
           \A s \in Range(steps[f]) : outcome[s.id] # "none" => outcome'[s.id] # "none"
    PROVE  AllWalked(f)'
<1>1. \A id \in Required(steps[f]) : outcome'[id] # "none"
  BY PendingIs, RequiredIs DEF AllWalked
<1>2. Pending(steps[f], outcome') = {}
  BY <1>1, PendingIs
<1> QED BY <1>2 DEF AllWalked

\* Every step but a save of the list or of completed: no outcome is lost, no
\* mark is lost, and no other row says completed.
LEMMA QuietCompleted ==
    ASSUME Base, CompletedHolds, UNCHANGED steps,
           \A f \in Flows : \A s \in Range(steps[f]) : outcome[s.id] # "none" => outcome'[s.id] # "none",
           \A f \in Flows : "raised" \in excuse[f] => "raised" \in excuse'[f],
           \A f \in Flows : SaysCompleted(f)' => SaysCompleted(f)
    PROVE  CompletedHolds'
BY WalkedStays DEF CompletedHolds

LEMMA CompletedReplace ==
    ASSUME Base, CompletedHolds, NEW c \in Clients, ReplaceOnboardingSteps(c)
    PROVE  CompletedHolds'
<1> DEFINE f == req[c].flow
<1>0. req'[c] = Idle /\ UNCHANGED assignment /\ \A d \in Clients \ {c} : req'[d] = req[d]
  BY OthersStay DEF ReplaceOnboardingSteps, End, Base, RequestsOK, Goes
<1>1. \A g \in Flows : SaysCompleted(g)' => SaysCompleted(g)
  BY <1>0, Says DEF Idle, ReadingPlaces
<1>2. ASSUME NEW rows, Replaces(f, req[c].list, rows), NEW g \in Flows, SaysCompleted(g)'
      PROVE  "raised" \in excuse'[g] \/ AllWalked(g)'
  <2>1. CASE g = f
    <3>1. assignment[g] # NoRow
      BY <1>1, <1>2, <2>1 DEF SaysCompleted, Base, RequestsOK, RequestOK
    <3>2. excuse'[g] = excuse[g] \union Shift(steps[g], rows, outcome') /\ steps'[g] = rows
      BY <1>2, <2>1, <3>1 DEF Replaces, Base, TypeOK
    <3>3. CASE ~(Required(rows) \subseteq Required(steps[g]))
      BY <3>2, <3>3 DEF Shift
    <3>4. CASE Required(rows) \subseteq Required(steps[g]) /\ AllWalked(g)
      <4>1. ASSUME NEW id \in Required(rows) PROVE outcome'[id] # "none"
        <5>1. outcome[id] # "none" /\ id \in used
          BY <3>4, <4>1, PendingIs, RequiredSteps DEF AllWalked
        <5>2. HasStep(g, id)'
          BY <3>2, <4>1, RequiredIs DEF HasStep
        <5>3. outcome'[id] = outcome[id]
          BY <1>2, <5>1, <5>2, StepsReplaced
        <5> QED BY <5>1, <5>3
      <4>2. Pending(rows, outcome') = {}
        BY <4>1, PendingIs
      <4> QED BY <3>2, <4>2 DEF AllWalked
    <3>5. "raised" \in excuse[g] \/ AllWalked(g)
      BY <1>1, <1>2 DEF CompletedHolds
    <3> QED BY <3>2, <3>3, <3>4, <3>5
  <2>2. CASE g # f
    <3>1. steps'[g] = steps[g] /\ excuse'[g] = excuse[g]
      BY <1>2, <2>2, ReplacedElsewhere
    <3>2. \A s \in Range(steps[g]) : outcome'[s.id] = outcome[s.id]
      <4>1. ASSUME NEW s \in Range(steps[g]) PROVE outcome'[s.id] = outcome[s.id]
        <5>1. s.id \in used /\ HasStep(g, s.id)'
          BY <3>1 DEF HasStep, Base, StepsOK
        <5> QED BY <1>2, <5>1, StepsReplaced
      <4> QED BY <4>1
    <3>3. AllWalked(g) => AllWalked(g)'
      <4>1. AllWalked(g) => \A id \in Required(steps[g]) : outcome'[id] # "none"
        BY <3>2, PendingIs, RequiredIs DEF AllWalked
      <4>2. AllWalked(g) => Pending(steps[g], outcome') = {}
        BY <4>1, PendingIs
      <4> QED BY <3>1, <4>2 DEF AllWalked
    <3> QED BY <1>1, <1>2, <3>1, <3>3 DEF CompletedHolds
  <2> QED BY <2>1, <2>2
<1>3. CASE UNCHANGED <<steps, used, outcome, edits, excuse>>
  BY <1>1, <1>3 DEF CompletedHolds, AllWalked
<1> QED BY <1>2, <1>3, ReplaceCases DEF CompletedHolds

LEMMA CompletedSave ==
    ASSUME Base, CompletedHolds, CompletingHolds, NEW c \in Clients, SaveCompleted(c)
    PROVE  CompletedHolds'
<1>f. PICK f \in Flows : f = req[c].flow
  BY RowSaved DEF Saves
<1>0. Saves(c, [req[c].row EXCEPT !.status = "completed"]) /\ req'[c] = Idle
      /\ \A d \in Clients \ {c} : req'[d] = req[d]
  BY RowSaved, OthersStay DEF SaveCompleted, End, Base, RequestsOK, Goes
<1>1. \A g \in Flows \ {f} : SaysCompleted(g)' => SaysCompleted(g)
  BY <1>f, <1>0, Says DEF Saves, Idle, ReadingPlaces
<1>2. ASSUME NEW g \in Flows \ {f}, SaysCompleted(g)' PROVE "raised" \in excuse'[g] \/ AllWalked(g)'
  BY <1>f, <1>0, <1>1, <1>2 DEF CompletedHolds, Saves, AllWalked
<1>3. "raised" \in excuse'[f] \/ AllWalked(f)'
  <2>1. CASE Required(steps[f]) \subseteq Required(req[c].list)
    <3>1. ASSUME NEW id \in Required(steps[f]) PROVE outcome[id] # "none"
      <4>1. PICK s \in Range(req[c].list) : s.required /\ s.id = id
        BY <2>1, <3>1, RequiredIs
      <4>2. HasStep(f, id)
        BY <3>1, RequiredSteps
      <4> QED BY <1>f, <4>1, <4>2 DEF CompletingHolds, SaveCompleted
    <3>2. AllWalked(f)
      BY <3>1, PendingIs DEF AllWalked
    <3>3. f \in Flows /\ UNCHANGED <<steps, outcome>>
      BY <1>0 DEF Saves
    <3> QED BY <3>2, <3>3, WalkedStays
  <2>2. CASE ~(Required(steps[f]) \subseteq Required(req[c].list))
    BY <1>f, <1>0, <2>2 DEF SaveCompleted, Base, TypeOK, Saves
  <2> QED BY <2>1, <2>2
<1>4. ASSUME NEW g \in Flows, SaysCompleted(g)' PROVE "raised" \in excuse'[g] \/ AllWalked(g)'
  BY <1>2, <1>3, <1>4
<1> QED BY <1>4 DEF CompletedHolds

LEMMA CompletedStep ==
    ASSUME Base, CompletedHolds, CompletingHolds, [Next]_vars
    PROVE  CompletedHolds'
<1>0. excuse \in [Flows -> SUBSET Excuses]
  BY DEF Base, TypeOK
<1>1. CASE UNCHANGED vars \/ \E f \in Flows : DeleteOnboardingFlow(f)
  BY <1>1 DEF vars, DeleteOnboardingFlow, CompletedHolds, SaysCompleted, AllWalked
<1>2. ASSUME NEW c \in Clients, Starts(c) PROVE CompletedHolds'
  <2>1. UNCHANGED <<steps, outcome, excuse, assignment>>
    BY <1>2 DEF Starts, tables, history
  <2>2. \A f \in Flows : SaysCompleted(f)' => SaysCompleted(f)
    BY <1>2, <2>1, Says, OthersStay DEF Starts, SaysCompleted, RequestOK
  <2> QED BY <2>1, <2>2, QuietCompleted
\* The requests that neither save nor record: they keep their row, or end.
<1>3. ASSUME NEW c \in Clients,
             \/ ClearDefaultOnboardingFlow(c) \/ CreateOnboardingFlow(c) \/ UpdateOnboardingFlow(c)
             \/ ListOnboardingSteps(c) \/ ListOnboardingStepProgress(c) \/ Abort(c)
      PROVE  CompletedHolds'
  <2>1. UNCHANGED <<steps, outcome, assignment>> /\ \A f \in Flows : excuse[f] \subseteq excuse'[f]
    BY <1>0, <1>3 DEF ClearDefaultOnboardingFlow, CreateOnboardingFlow, UpdateOnboardingFlow,
             ListOnboardingSteps, ListOnboardingStepProgress, Abort, tables, history
  <2>2. \/ req'[c].at \notin ReadingPlaces
        \/ req[c].at \in ReadingPlaces /\ req'[c].flow = req[c].flow /\ req'[c].row = req[c].row
    BY <1>3 DEF ClearDefaultOnboardingFlow, CreateOnboardingFlow, UpdateOnboardingFlow,
             ListOnboardingSteps, ListOnboardingStepProgress, Abort, End, Goto, Base, RequestsOK,
             Requests, Idle, ReadingPlaces
  <2>3. \A f \in Flows : SaysCompleted(f)' => SaysCompleted(f)
    BY <1>3, <2>1, <2>2, Says, OthersStay DEF Goes, SaysCompleted
  <2> QED BY <2>1, <2>3, QuietCompleted
<1>4. ASSUME NEW c \in Clients, UpsertOnboardingStepProgress(c) PROVE CompletedHolds'
  <2>1. UNCHANGED <<steps, assignment>> /\ \A f \in Flows : excuse[f] \subseteq excuse'[f]
    BY <1>0, <1>4 DEF UpsertOnboardingStepProgress
  <2>2. \/ req'[c].at \notin ReadingPlaces
        \/ req[c].at \in ReadingPlaces /\ req'[c].flow = req[c].flow /\ req'[c].row = req[c].row
    <3>1. req[c].at \in ReadingPlaces
      BY <1>4 DEF UpsertOnboardingStepProgress, ReadingPlaces
    <3> QED BY <1>4, <3>1, OutcomeMoves DEF Idle, ReadingPlaces
  <2>3. \A f \in Flows : SaysCompleted(f)' => SaysCompleted(f)
    BY <1>4, <2>1, <2>2, Says, OthersStay DEF Goes, SaysCompleted
  <2>4. \A f \in Flows : \A s \in Range(steps[f]) : outcome[s.id] # "none" => outcome'[s.id] # "none"
    BY <1>4, <2>1, OutcomeGrows
  <2> QED BY <2>1, <2>3, <2>4, QuietCompleted
<1>5. ASSUME NEW c \in Clients, CreateOnboardingAssignment(c) PROVE CompletedHolds'
  <2>1. UNCHANGED <<steps, outcome, excuse>> /\ req'[c] = Idle
    BY <1>5 DEF CreateOnboardingAssignment, End, Base, RequestsOK, history
  <2>2. \A f \in Flows : assignment'[f] = assignment[f] \/ assignment'[f].status = "pending"
    BY <1>5 DEF CreateOnboardingAssignment, Base, TypeOK
  <2>3. \A f \in Flows : SaysCompleted(f)' => SaysCompleted(f)
    BY <1>5, <2>1, <2>2, Says, OthersStay DEF Goes, Idle, ReadingPlaces
  <2> QED BY <2>1, <2>3, QuietCompleted
<1>6. ASSUME NEW c \in Clients, SaveStarted(c) \/ SaveFeedback(c) PROVE CompletedHolds'
  <2>1. PICK row : /\ Saves(c, row) /\ excuse[req[c].flow] \subseteq excuse'[req[c].flow]
                   /\ row.status = "completed" <=> req[c].row.status = "completed"
                   /\ \/ req'[c] = Idle
                      \/ req'[c].at = "steps" /\ req'[c].flow = req[c].flow /\ req'[c].row = row
    <3>1. CASE SaveStarted(c)
      <4>1. Saves(c, MarkStarted(req[c].row)) /\ excuse[req[c].flow] \subseteq excuse'[req[c].flow]
        BY <3>1, RowSaved
      <4>2. MarkStarted(req[c].row).status = "completed" <=> req[c].row.status = "completed"
        BY <4>1, RowUpdated DEF Saves
      <4>3. \/ req'[c] = Idle
            \/ /\ req'[c].at = "steps" /\ req'[c].flow = req[c].flow
               /\ req'[c].row = MarkStarted(req[c].row)
        BY <3>1 DEF SaveStarted, Base, RequestsOK, Requests
      <4> QED BY <4>1, <4>2, <4>3
    <3>2. CASE SaveFeedback(c)
      <4>1. /\ Saves(c, [req[c].row EXCEPT !.feedback = TRUE])
            /\ excuse[req[c].flow] \subseteq excuse'[req[c].flow]
        BY <3>2, RowSaved
      <4>2. [req[c].row EXCEPT !.feedback = TRUE].status = req[c].row.status
        BY <4>1, RowUpdated DEF Saves
      <4>3. req'[c] = Idle
        BY <3>2 DEF SaveFeedback, End, Base, RequestsOK
      <4> QED BY <4>1, <4>2, <4>3
    <3> QED BY <1>6, <3>1, <3>2
  <2>2. req[c].at \in ReadingPlaces /\ \A d \in Clients \ {c} : req'[d] = req[d]
    BY <1>6, OthersStay DEF SaveStarted, SaveFeedback, ReadingPlaces, Goes
  <2>3. \A f \in Flows : SaysCompleted(f)' => SaysCompleted(f)
    BY <2>1, <2>2, Says DEF Saves, SaysCompleted, Idle, ReadingPlaces
  <2>4. \A f \in Flows : excuse[f] \subseteq excuse'[f]
    BY <2>1 DEF Saves
  <2> QED BY <2>1, <2>3, <2>4, QuietCompleted DEF Saves
<1>7. ASSUME NEW c \in Clients, Goes(c) PROVE CompletedHolds'
  BY <1>3, <1>4, <1>5, <1>6, <1>7, CompletedReplace, CompletedSave DEF Goes
<1> QED BY <1>1, <1>2, <1>7, EveryStep DEF Base
\* One request that is about to write completed.
CompletingOK(c) ==
    req[c].at = "complete" =>
        \A s \in Range(req[c].list) :
            s.required => outcome[s.id] # "none" \/ ~HasStep(req[c].flow, s.id)

\* It stays right while no outcome is lost on a step that stays.
LEMMA CompletingStays ==
    ASSUME Base, NEW d \in Clients, CompletingOK(d), req'[d] = req[d],
           \A f \in Flows : \A id \in used :
               HasStep(f, id)' => HasStep(f, id) /\ (outcome[id] # "none" => outcome'[id] # "none")
    PROVE  CompletingOK(d)'
<1>1. SUFFICES ASSUME req[d].at = "complete", NEW s \in Range(req[d].list), s.required
               PROVE  outcome'[s.id] # "none" \/ ~HasStep(req[d].flow, s.id)'
  BY DEF CompletingOK
<1>2. PICK f \in Flows : f = req[d].flow
  BY <1>1 DEF Base, RequestsOK, RequestOK
<1>3. s.id \in used
  BY <1>1 DEF Base, RequestsOK, RequestOK
<1>4. outcome[s.id] # "none" \/ ~HasStep(f, s.id)
  BY <1>1, <1>2 DEF CompletingOK
<1>5. outcome'[s.id] # "none" \/ ~HasStep(f, s.id)'
  BY <1>2, <1>3, <1>4
<1> QED BY <1>2, <1>5 DEF HasStep

LEMMA CompletingStep ==
    ASSUME Base, CompletingHolds, [Next]_vars
    PROVE  CompletingHolds'
<1>0. \A c \in Clients : CompletingOK(c)
  BY DEF CompletingHolds, CompletingOK
<1>1. CASE UNCHANGED vars \/ \E f \in Flows : DeleteOnboardingFlow(f)
  BY <1>1 DEF vars, DeleteOnboardingFlow, CompletingHolds, HasStep
<1>2. ASSUME NEW c \in Clients, Starts(c) \/ Goes(c) PROVE CompletingHolds'
  <2>1. \A f \in Flows : \A id \in used :
           HasStep(f, id)' => HasStep(f, id) /\ (outcome[id] # "none" => outcome'[id] # "none")
    <3>1. CASE UNCHANGED <<steps, outcome>>
      BY <3>1 DEF HasStep
    <3>2. CASE ReplaceOnboardingSteps(c)
      BY <3>1, <3>2, ReplaceCases, StepsReplaced
    <3>3. CASE UpsertOnboardingStepProgress(c)
      <4>1. \A id \in used : outcome[id] # "none" => outcome'[id] # "none"
        BY <3>3, OutcomeGrows DEF Base, TypeOK
      <4> QED BY <3>3, <4>1 DEF UpsertOnboardingStepProgress, HasStep
    <3> QED BY <1>2, <3>1, <3>2, <3>3
            DEF Starts, Goes, ClearDefaultOnboardingFlow, CreateOnboardingFlow, UpdateOnboardingFlow,
                CreateOnboardingAssignment, SaveStarted, SaveRow, ListOnboardingSteps,
                ListOnboardingStepProgress, SaveCompleted, SaveFeedback, Abort, tables
  <2>2. \A d \in Clients \ {c} : CompletingOK(d)'
    BY <1>0, <1>2, <2>1, OthersStay, CompletingStays
  <2>3. CompletingOK(c)'
    <3>1. CASE ListOnboardingStepProgress(c) /\ Goto(c, "complete")
      <4>1. /\ Pending(req[c].list, outcome) = {} /\ outcome' = outcome
            /\ req'[c].list = req[c].list
        <5>1. Goto(c, "complete") => req'[c].at = "complete"
          BY DEF Goto, Base, RequestsOK, Requests
        <5>2. End(c) => req'[c] = Idle
          BY DEF End, Base, RequestsOK
        <5>3. ~(Goto(c, "complete") /\ End(c))
          BY <5>1, <5>2 DEF Idle
        <5>4. Goto(c, "complete") => req'[c].list = req[c].list
          BY DEF Goto, Base, RequestsOK, Requests
        <5> QED BY <3>1, <5>3, <5>4 DEF ListOnboardingStepProgress, tables
      <4>2. \A s \in Range(req[c].list) : s.required => outcome[s.id] # "none"
        BY <4>1, PendingIs, RequiredIs
      <4> QED BY <4>1, <4>2 DEF CompletingOK
    <3>2. CASE ~(ListOnboardingStepProgress(c) /\ Goto(c, "complete"))
      <4>1. CASE Starts(c)
        BY <4>1 DEF Starts, CompletingOK
      <4>2. CASE req' = [req EXCEPT ![c] = Idle]
        BY <4>2 DEF CompletingOK, Idle, Base, RequestsOK
      <4>3. CASE UpsertOnboardingStepProgress(c)
        BY <4>3, OutcomeMoves DEF CompletingOK, Idle
      <4>4. CASE ClearDefaultOnboardingFlow(c) \/ CreateOnboardingFlow(c)
        BY <4>4 DEF ClearDefaultOnboardingFlow, CreateOnboardingFlow, Goto, End, Idle, Base, RequestsOK,
                    Requests, CompletingOK
      <4>5. CASE SaveStarted(c) \/ ListOnboardingSteps(c)
        <5>1. SaveStarted(c) => req'[c].at \in {"idle", "steps"}
          BY DEF SaveStarted, Idle, Base, RequestsOK, Requests
        <5>2. ListOnboardingSteps(c) => req'[c].at \in {"idle", "progress"}
          BY DEF ListOnboardingSteps, End, Idle, Base, RequestsOK, Requests
        <5> QED BY <4>5, <5>1, <5>2 DEF CompletingOK
      <4> QED BY <1>2, <3>2, <4>1, <4>2, <4>3, <4>4, <4>5
              DEF Goes, UpdateOnboardingFlow, ReplaceOnboardingSteps, CreateOnboardingAssignment,
                  ListOnboardingStepProgress, SaveCompleted, SaveFeedback, Abort, End
    <3> QED BY <3>1, <3>2
  <2>4. \A d \in Clients : CompletingOK(d)'
    BY <2>2, <2>3
  <2> QED BY <2>4 DEF CompletingOK, CompletingHolds
<1> QED BY <1>1, <1>2, EveryStep DEF Base

-----------------------------------------------------------------------------
(* The default *)

\* A request that will make its flow the default.
Nominates(c) == req[c].at \in {"insert", "update"} /\ req[c].default

LEMMA NominationStep ==
    ASSUME Base, NominationHolds, [Next]_vars
    PROVE  NominationHolds'
<1>0. \A f \in Flows : flow[f] \in [state : {"none", "live", "deleted"}, default : BOOLEAN]
  BY DEF Base, TypeOK
<1>1. CASE UNCHANGED vars
  BY <1>1 DEF vars, NominationHolds, Default, Live
\* A nominating request stays where it is, or the default is unsettled.
<1>2. ASSUME UNCHANGED <<flow, nominee, unsettled>>,
             \A c \in Clients : Nominates(c) => Nominates(c)'
      PROVE  NominationHolds'
  BY <1>2 DEF NominationHolds, Default, Live, Nominates
<1>3. CASE \E f \in Flows : DeleteOnboardingFlow(f)
  <2>1. PICK f \in Flows : DeleteOnboardingFlow(f)
    BY <1>3
  <2>2. flow'[f].default = FALSE /\ \A g \in Flows \ {f} : flow'[g] = flow[g]
    BY <2>1 DEF DeleteOnboardingFlow, Base, TypeOK
  <2> QED BY <2>1, <2>2 DEF DeleteOnboardingFlow, NominationHolds, Default, Live
<1>4. ASSUME NEW c \in Clients, Starts(c) PROVE NominationHolds'
  <2>1. \A d \in Clients : Nominates(d) => Nominates(d)'
    BY <1>4, OthersStay DEF Starts, Nominates
  <2> QED BY <1>2, <1>4, <2>1 DEF Starts, tables, history, defaults
<1>5. ASSUME NEW c \in Clients, ClearDefaultOnboardingFlow(c) PROVE NominationHolds'
  <2>1. req[c].default /\ req[c] \in Requests
    BY <1>5 DEF ClearDefaultOnboardingFlow, Base, RequestsOK, RequestOK
  <2>2. Nominates(c)'
    BY <1>5, <2>1 DEF ClearDefaultOnboardingFlow, Goto, Nominates, Base, RequestsOK, Requests
  <2> QED BY <2>2 DEF NominationHolds, Nominates
<1>6. ASSUME NEW c \in Clients, CreateOnboardingFlow(c), nominee' # NoRow, ~unsettled'
      PROVE  \/ Default(nominee)' /\ \A f \in Flows \ {nominee'} : ~Default(f)'
             \/ \E d \in Clients : Nominates(d)'
  <2>1. PICK f \in Flows : f = req[c].flow
    BY <1>6 DEF CreateOnboardingFlow, Base, RequestsOK, RequestOK
  <2>2. flow[f].state = "none" /\ flow \in [Flows -> [state : {"none", "live", "deleted"}, default : BOOLEAN]]
    BY <1>6, <2>1 DEF CreateOnboardingFlow, Base, TypeOK, RequestsOK, RequestOK
  <2>3. \A d \in Clients \ {c} : Nominates(d) => Nominates(d)'
    BY <1>6, OthersStay DEF Goes, Nominates
  <2>4. CASE req[c].default
    <3>1. /\ flow' = [flow EXCEPT ![f] = [state |-> "live", default |-> TRUE]] /\ nominee' = f
          /\ \A g \in Flows \ {f} : ~Default(g)
      BY <1>6, <2>1, <2>4 DEF CreateOnboardingFlow, DefaultIsFree
    <3> QED BY <2>2, <3>1 DEF Default, Live
  <2>5. CASE ~req[c].default
    <3>1. /\ nominee' = nominee /\ unsettled' = unsettled
          /\ flow' = flow \/ flow' = [flow EXCEPT ![f] = [state |-> "live", default |-> req[c].default]]
      BY <1>6, <2>1, <2>5 DEF CreateOnboardingFlow, Base, TypeOK
    <3>2. \A g \in Flows : Default(g)' <=> Default(g) /\ g # f
      BY <2>2, <2>5, <3>1 DEF Default, Live
    <3>3. CASE Default(nominee) /\ \A g \in Flows \ {nominee} : ~Default(g)
      <4>1. nominee \in Flows /\ nominee # f
        BY <1>6, <2>2, <3>1, <3>3 DEF Default, Live, Base, TypeOK
      <4> QED BY <3>1, <3>2, <3>3, <4>1 DEF Default, Live
    <3>4. CASE \E d \in Clients : Nominates(d)
      BY <2>3, <2>5, <3>4 DEF Nominates
    <3> QED BY <1>6, <3>1, <3>3, <3>4 DEF NominationHolds, Nominates
  <2> QED BY <2>4, <2>5
<1>7. ASSUME NEW c \in Clients, UpdateOnboardingFlow(c), nominee' # NoRow, ~unsettled'
      PROVE  \/ Default(nominee)' /\ \A f \in Flows \ {nominee'} : ~Default(f)'
             \/ \E d \in Clients : Nominates(d)'
  <2>1. PICK f \in Flows : f = req[c].flow
    BY <1>7 DEF UpdateOnboardingFlow, Base, RequestsOK, RequestOK
  <2>2. PICK b \in BOOLEAN : b = req[c].default
    BY DEF Base, RequestsOK, Requests
  <2>3. /\ flow' = flow \/ flow' = [flow EXCEPT ![f].default = b]
        /\ ~unsettled
    BY <1>7, <2>1, <2>2 DEF UpdateOnboardingFlow, Base, TypeOK
  <2>4. \A d \in Clients \ {c} : Nominates(d) => Nominates(d)'
    BY <1>7, OthersStay DEF Goes, Nominates
  <2>5. CASE b
    <3>1. /\ flow' = [flow EXCEPT ![f].default = TRUE] /\ Live(f)
          /\ \A g \in Flows \ {f} : ~Default(g)
      BY <1>7, <2>1, <2>2, <2>5 DEF UpdateOnboardingFlow, DefaultIsFree
    <3>2. nominee' = f
      BY <1>7, <2>1, <2>2, <2>5 DEF UpdateOnboardingFlow
    <3>3. Default(f)' /\ \A g \in Flows \ {f} : ~Default(g)'
      BY <1>0, <3>1, FlowUpdated DEF Default, Live, Base
    <3> QED BY <3>2, <3>3 DEF Default, Live
  <2>6. CASE ~b
    <3>1. \A g \in Flows : Default(g)' => Default(g)
      BY <1>0, <2>3, <2>6, FlowUpdated DEF Default, Live, Base
    <3>2. \A g \in Flows \ {f} : Default(g) => Default(g)'
      BY <1>0, <2>3, FlowUpdated DEF Default, Live, Base
    <3>3. CASE UNCHANGED <<flow, nominee>>
      BY <1>7, <2>2, <2>3, <2>4, <2>6, <3>3 DEF NominationHolds, Nominates, Default, Live
    <3>4. CASE nominee' = nominee /\ nominee # f
      <4>1. CASE Default(nominee) /\ \A g \in Flows \ {nominee} : ~Default(g)
        <5>1. nominee \in Flows
          BY <1>7, <3>4 DEF Base, TypeOK
        <5>2. Default(nominee)'
          BY <3>2, <3>4, <4>1, <5>1 DEF Default, Live
        <5> QED BY <3>1, <3>4, <4>1, <5>2
      <4>2. CASE \E d \in Clients : Nominates(d)
        BY <2>2, <2>4, <2>6, <4>2 DEF Nominates
      <4> QED BY <1>7, <2>3, <3>4, <4>1, <4>2 DEF NominationHolds, Nominates
    <3> QED BY <1>7, <2>1, <2>2, <2>6, <3>3, <3>4 DEF UpdateOnboardingFlow
  <2> QED BY <2>5, <2>6
<1>8. ASSUME NEW c \in Clients, Abort(c) PROVE NominationHolds'
  <2>1. CASE Nominates(c)
    BY <1>8, <2>1 DEF Abort, Nominates, NominationHolds
  <2>2. CASE ~Nominates(c)
    <3>1. UNCHANGED <<flow, nominee, unsettled>>
      BY <1>8, <2>2 DEF Abort, Nominates, tables, Base, TypeOK
    <3>2. \A d \in Clients : Nominates(d) => Nominates(d)'
      BY <1>8, <2>2, OthersStay DEF Goes, Nominates
    <3> QED BY <1>2, <3>1, <3>2
  <2> QED BY <2>1, <2>2
<1>9. ASSUME NEW c \in Clients,
             \/ ReplaceOnboardingSteps(c) \/ CreateOnboardingAssignment(c)
             \/ UpsertOnboardingStepProgress(c) \/ SaveStarted(c) \/ ListOnboardingSteps(c)
             \/ ListOnboardingStepProgress(c) \/ SaveCompleted(c) \/ SaveFeedback(c)
      PROVE  NominationHolds'
  <2>1. UNCHANGED <<flow, nominee, unsettled>> /\ ~Nominates(c)
    BY <1>9 DEF ReplaceOnboardingSteps, CreateOnboardingAssignment, UpsertOnboardingStepProgress,
         SaveStarted, ListOnboardingSteps, ListOnboardingStepProgress, SaveCompleted, SaveFeedback,
         SaveRow, tables, history, defaults, Nominates
  <2>2. \A d \in Clients : Nominates(d) => Nominates(d)'
    BY <1>9, <2>1, OthersStay DEF Goes, Nominates
  <2> QED BY <1>2, <2>1, <2>2
<1>10. ASSUME NEW c \in Clients, Goes(c) PROVE NominationHolds'
  <2>1. CASE CreateOnboardingFlow(c)
    BY <1>6, <2>1 DEF NominationHolds, Nominates
  <2>2. CASE UpdateOnboardingFlow(c)
    BY <1>7, <2>2 DEF NominationHolds, Nominates
  <2> QED BY <1>5, <1>8, <1>9, <1>10, <2>1, <2>2 DEF Goes
<1> QED BY <1>1, <1>3, <1>4, <1>10, EveryStep DEF Base
-----------------------------------------------------------------------------
(* Whoever recorded the last outcome derives completion. *)

\* A row that says completed is overwritten only by a save that overlapped,
\* and that mark stays.
LEMMA CompletedRowStays ==
    ASSUME Base, [Next]_vars, NEW f \in Flows, "overlapped" \notin excuse'[f]
    PROVE  /\ "overlapped" \notin excuse[f]
           /\ assignment[f] # NoRow /\ assignment[f].status = "completed" =>
                  assignment'[f] # NoRow /\ assignment'[f].status = "completed"
<1>0. excuse \in [Flows -> SUBSET Excuses] /\ NoRow \notin Rows
  BY OnboardingAssumption DEF Base, TypeOK
<1>1. CASE UNCHANGED <<assignment, excuse>>
  BY <1>1
<1>2. ASSUME NEW c \in Clients, ReplaceOnboardingSteps(c)
      PROVE  "overlapped" \notin excuse[f] /\ assignment' = assignment
  <2>1. ASSUME NEW g, NEW list, NEW rows, Replaces(g, list, rows) PROVE excuse[f] \subseteq excuse'[f]
    BY <1>0, <2>1 DEF Replaces
  <2> QED BY <1>2, <2>1, ReplaceCases DEF ReplaceOnboardingSteps
<1>3. ASSUME NEW c \in Clients, UpsertOnboardingStepProgress(c)
      PROVE  "overlapped" \notin excuse[f] /\ assignment' = assignment
  BY <1>0, <1>3 DEF UpsertOnboardingStepProgress
<1>4. ASSUME NEW c \in Clients, ListOnboardingSteps(c) \/ Abort(c)
      PROVE  "overlapped" \notin excuse[f] /\ assignment' = assignment
  BY <1>0, <1>4 DEF ListOnboardingSteps, Abort, tables
<1>5. ASSUME NEW c \in Clients, CreateOnboardingAssignment(c)
      PROVE  excuse' = excuse /\ (assignment[f] # NoRow => assignment'[f] = assignment[f])
  BY <1>5 DEF CreateOnboardingAssignment, Base, TypeOK, history
<1>6. ASSUME NEW c \in Clients, NEW row, Saves(c, row),
             req[c].row.status = "completed" => row.status = "completed"
      PROVE  /\ "overlapped" \notin excuse[f]
             /\ assignment[f] # NoRow /\ assignment[f].status = "completed" =>
                    assignment'[f] # NoRow /\ assignment'[f].status = "completed"
  BY <1>0, <1>6 DEF Saves
<1>7. ASSUME NEW c \in Clients, SaveStarted(c) \/ SaveCompleted(c) \/ SaveFeedback(c)
      PROVE  \E row : Saves(c, row) /\ (req[c].row.status = "completed" => row.status = "completed")
  <2>1. SaveStarted(c) => Saves(c, MarkStarted(req[c].row))
    BY RowSaved
  <2>2. SaveCompleted(c) => Saves(c, [req[c].row EXCEPT !.status = "completed"])
    BY RowSaved
  <2>3. SaveFeedback(c) => Saves(c, [req[c].row EXCEPT !.feedback = TRUE])
    BY RowSaved
  <2>4. req[c].row \in Rows
    BY <1>7, <2>1, <2>2, <2>3 DEF Saves
  <2>5. /\ MarkStarted(req[c].row).status = "completed" <=> req[c].row.status = "completed"
        /\ [req[c].row EXCEPT !.status = "completed"].status = "completed"
        /\ [req[c].row EXCEPT !.feedback = TRUE].status = req[c].row.status
    BY <2>4, RowUpdated
  <2>6. CASE SaveStarted(c)
    BY <2>1, <2>5, <2>6
  <2>7. CASE SaveCompleted(c)
    BY <2>2, <2>5, <2>7
  <2>8. CASE SaveFeedback(c)
    BY <2>3, <2>5, <2>8
  <2> QED BY <1>7, <2>6, <2>7, <2>8
<1>8. ASSUME NEW c \in Clients, Goes(c)
      PROVE  /\ "overlapped" \notin excuse[f]
             /\ assignment[f] # NoRow /\ assignment[f].status = "completed" =>
                    assignment'[f] # NoRow /\ assignment'[f].status = "completed"
  BY <1>1, <1>2, <1>3, <1>4, <1>5, <1>6, <1>7, <1>8
     DEF Goes, ClearDefaultOnboardingFlow, CreateOnboardingFlow, UpdateOnboardingFlow,
         ListOnboardingStepProgress, tables, history
<1> QED BY <1>1, <1>8, EveryStep DEF Base, vars, DeleteOnboardingFlow, Starts, tables, history

\* The two parts of DerivationHolds, for one request and for one flow.
RowIsCurrent(c) ==
    /\ req[c].at \in {"steps", "progress"} /\ req[c].row.status = "completed"
    /\ "overlapped" \notin excuse[req[c].flow]
    => assignment[req[c].flow].status = "completed"

Derives(f) ==
    Walked(f) /\ Plain(f) =>
        assignment[f].status = "completed" \/ \E c \in Clients : WillDerive(c, f)

LEMMA DerivationParts ==
    DerivationHolds <=> (\A f \in Flows : Derives(f)) /\ \A c \in Clients : RowIsCurrent(c)
BY DEF DerivationHolds, RowIsCurrent, Derives

LEMMA RowStaysCurrent ==
    ASSUME Base, [Next]_vars, NEW d \in Clients, RowIsCurrent(d),
           req'[d].at \in {"steps", "progress"} =>
               req[d].at \in {"steps", "progress"} /\ req'[d].flow = req[d].flow /\ req'[d].row = req[d].row
    PROVE  RowIsCurrent(d)'
<1>1. SUFFICES ASSUME req'[d].at \in {"steps", "progress"}, req'[d].row.status = "completed",
                      "overlapped" \notin excuse'[req'[d].flow]
               PROVE  assignment'[req'[d].flow].status = "completed"
  BY DEF RowIsCurrent
<1>2. req[d].flow \in Flows /\ assignment[req[d].flow] # NoRow
  BY <1>1 DEF Base, RequestsOK, RequestOK, ReadingPlaces
<1> QED BY <1>1, <1>2, CompletedRowStays DEF RowIsCurrent

LEMMA RowsStayCurrent ==
    ASSUME Base, \A c \in Clients : RowIsCurrent(c), [Next]_vars
    PROVE  \A c \in Clients : RowIsCurrent(c)'
<1>1. ASSUME UNCHANGED req PROVE \A c \in Clients : RowIsCurrent(c)'
  BY <1>1, RowStaysCurrent
<1>2. ASSUME NEW c \in Clients, Starts(c) \/ Goes(c), NEW d \in Clients PROVE RowIsCurrent(d)'
  <2>1. CASE d # c
    BY <1>2, <2>1, OthersStay, RowStaysCurrent
  <2>2. CASE d = c /\ SaveStarted(c)
    <3>1. Saves(c, MarkStarted(req[c].row))
      BY <2>2, RowSaved
    <3>2. req'[c].at = "steps" => req'[c].flow = req[c].flow /\ req'[c].row = MarkStarted(req[c].row)
      BY <2>2 DEF SaveStarted, Idle, Base, RequestsOK, Requests
    <3>3. req'[c].at \in {"idle", "steps"}
      BY <2>2 DEF SaveStarted, Idle, Base, RequestsOK, Requests
    <3> QED BY <2>2, <3>1, <3>2, <3>3 DEF Saves, RowIsCurrent
  <2>3. CASE d = c /\ (ListOnboardingSteps(c) \/ ListOnboardingStepProgress(c))
    <3>1. ListOnboardingSteps(c) =>
             \/ req'[c].at = "idle"
             \/ req[c].at = "steps" /\ req'[c].flow = req[c].flow /\ req'[c].row = req[c].row
      BY DEF ListOnboardingSteps, End, Idle, Base, RequestsOK, Requests
    <3>2. ListOnboardingStepProgress(c) => req'[c].at \in {"idle", "complete"}
      BY DEF ListOnboardingStepProgress, Goto, End, Idle, Base, RequestsOK, Requests
    <3> QED BY <2>3, <3>1, <3>2, RowStaysCurrent
  <2>4. CASE d = c /\ UpsertOnboardingStepProgress(c)
    BY <2>4, OutcomeMoves, RowStaysCurrent DEF Idle
  <2>5. CASE d = c /\ Starts(c)
    BY <2>5, RowStaysCurrent DEF Starts
  <2>6. CASE d = c /\ (ClearDefaultOnboardingFlow(c) \/ CreateOnboardingFlow(c))
    <3>1. req'[c].at \in {"insert", "update", "replace", "idle"}
      BY <2>6 DEF ClearDefaultOnboardingFlow, CreateOnboardingFlow, Goto, End, Idle, Base, RequestsOK, Requests
    <3> QED BY <2>6, <3>1, RowStaysCurrent
  <2>7. CASE d = c /\ End(c)
    <3>1. req'[c].at = "idle"
      BY <2>7 DEF End, Idle, Base, RequestsOK
    <3> QED BY <2>7, <3>1, RowStaysCurrent
  <2> QED BY <1>2, <2>1, <2>2, <2>3, <2>4, <2>5, <2>6, <2>7
          DEF Goes, UpdateOnboardingFlow, ReplaceOnboardingSteps, CreateOnboardingAssignment,
              SaveCompleted, SaveFeedback, Abort
<1> QED BY <1>1, <1>2, EveryStep DEF Base, vars, DeleteOnboardingFlow
LEMMA WalkedBefore ==
    ASSUME Base, NEW f \in Flows, Walked(f)', steps'[f] = steps[f],
           \A s \in Range(steps[f]) : outcome'[s.id] = outcome[s.id]
    PROVE  Walked(f)
<1>1. assignment[f] # NoRow
  BY DEF Walked, Base, StepsOK
<1>2. \E s \in Range(steps[f]) : outcome[s.id] # "none"
  BY DEF Walked
<1>3. Pending(steps[f], outcome') = {}
  BY DEF Walked
<1>4. \A id \in Required(steps[f]) : outcome[id] # "none"
  BY <1>3, PendingIs, RequiredIs
<1> QED BY <1>1, <1>2, <1>4, PendingIs DEF Walked

\* A flow that nothing excuses stays derived while no other request leaves.
LEMMA DerivesStays ==
    ASSUME Base, DerivationHolds, NEW c \in Clients, NEW f \in Flows, Walked(f), Plain(f),
           \A d \in Clients \ {c} : req'[d] = req[d], Required(steps[f]) \subseteq Required(steps'[f]),
           assignment[f].status = "completed" => assignment'[f].status = "completed",
           WillDerive(c, f) => WillDerive(c, f)' \/ assignment'[f].status = "completed"
    PROVE  assignment'[f].status = "completed" \/ \E d \in Clients : WillDerive(d, f)'
<1>1. CASE assignment[f].status = "completed"
  BY <1>1
<1>2. CASE \E d \in Clients : WillDerive(d, f)
  <2>1. PICK d \in Clients : WillDerive(d, f)
    BY <1>2
  <2>2. CASE d = c
    BY <2>1, <2>2
  <2>3. CASE d # c
    <3>1. req'[d] = req[d]
      BY <2>3
    <3>2. WillDerive(d, f)'
      BY <2>1, <3>1 DEF WillDerive
    <3> QED BY <3>2
  <2> QED BY <2>2, <2>3
<1> QED BY <1>1, <1>2, DerivationParts DEF Derives

LEMMA DerivesStep ==
    ASSUME Base, DerivationHolds, [Next]_vars, NEW f \in Flows, Walked(f)', Plain(f)'
    PROVE  assignment'[f].status = "completed" \/ \E d \in Clients : WillDerive(d, f)'
<1>0. /\ excuse \in [Flows -> SUBSET Excuses]
      /\ assignment[f] # NoRow /\ assignment[f].status = "completed" => assignment'[f].status = "completed"
  <2>1. "overlapped" \notin excuse'[f]
    BY DEF Plain
  <2> QED BY <2>1, CompletedRowStays DEF Base, TypeOK
<1> DEFINE Goal == assignment'[f].status = "completed" \/ \E d \in Clients : WillDerive(d, f)'
           Kept == steps'[f] = steps[f] /\ \A s \in Range(steps[f]) : outcome'[s.id] = outcome[s.id]
\* What most steps amount to.
<1>1. ASSUME NEW c \in Clients, Starts(c) \/ Goes(c), Kept, excuse[f] \subseteq excuse'[f],
             WillDerive(c, f) => WillDerive(c, f)' \/ assignment'[f].status = "completed"
      PROVE  Goal
  <2>1. Walked(f) /\ Plain(f) /\ assignment[f] # NoRow
    BY <1>1, WalkedBefore DEF Walked, Plain
  <2> QED BY <1>0, <1>1, <2>1, OthersStay, DerivesStays
<1>2. CASE UNCHANGED vars \/ \E g \in Flows : DeleteOnboardingFlow(g)
  <2>1. UNCHANGED <<steps, outcome, assignment, excuse, req>>
    BY <1>2 DEF vars, DeleteOnboardingFlow
  <2>2. Walked(f) /\ Plain(f)
    BY <2>1, WalkedBefore DEF Plain
  <2>3. assignment[f].status = "completed" \/ \E d \in Clients : WillDerive(d, f)
    BY <2>2, DerivationParts DEF Derives
  <2> QED BY <2>1, <2>3 DEF WillDerive
<1>3. ASSUME NEW c \in Clients,
             \/ Starts(c) \/ ClearDefaultOnboardingFlow(c) \/ CreateOnboardingFlow(c)
             \/ UpdateOnboardingFlow(c) \/ CreateOnboardingAssignment(c)
      PROVE  Goal
  <2>1. ~WillDerive(c, f)
    BY <1>3 DEF Starts, ClearDefaultOnboardingFlow, CreateOnboardingFlow, UpdateOnboardingFlow,
                CreateOnboardingAssignment, WillDerive
  <2>2. Kept /\ excuse' = excuse
    BY <1>3 DEF Starts, ClearDefaultOnboardingFlow, CreateOnboardingFlow, UpdateOnboardingFlow,
                CreateOnboardingAssignment, tables, history
  <2> QED BY <1>1, <1>3, <2>1, <2>2 DEF Goes
<1>4. ASSUME NEW c \in Clients, ReplaceOnboardingSteps(c) PROVE Goal
  <2>0. ~WillDerive(c, f)
    BY <1>4 DEF ReplaceOnboardingSteps, WillDerive
  <2>1. CASE UNCHANGED <<steps, used, outcome, edits, excuse>>
    BY <1>1, <1>4, <2>0, <2>1 DEF Goes
  <2>2. ASSUME NEW rows, Replaces(req[c].flow, req[c].list, rows) PROVE Goal
    <3>1. CASE f = req[c].flow
      <4>1. assignment[f] # NoRow
        BY <1>4 DEF Walked, ReplaceOnboardingSteps
      <4>2. excuse'[f] = excuse[f] \union Shift(steps[f], rows, outcome') /\ steps'[f] = rows
        BY <1>0, <2>2, <3>1, <4>1 DEF Replaces, Base, TypeOK
      \* No step that was pending became optional or was dropped.
      <4>3. Plain(f) /\ Required(steps[f]) \subseteq Required(rows)
        <5>1. Pending(rows, outcome') = {}
          BY <4>2 DEF Walked
        <5>2. Plain(f) /\ "lowered" \notin Shift(steps[f], rows, outcome')
          BY <4>2 DEF Plain
        <5> QED BY <5>1, <5>2 DEF Shift
      \* An outcome is of a step that was there, and it stays.
      <4>4. ASSUME NEW s \in Range(rows), outcome'[s.id] # "none"
            PROVE  HasStep(f, s.id) /\ outcome[s.id] # "none"
        <5>1. s.id \in StepIds /\ HasStep(f, s.id)'
          <6>1. PICK i \in DOMAIN rows : rows[i] = s
            BY <4>4 DEF Range
          <6>2. rows[i] \in StepRows
            BY <2>2 DEF Replaces
          <6>3. s.id \in StepIds
            BY <6>1, <6>2 DEF StepRows
          <6>4. \E t \in Range(steps'[f]) : t.id = s.id
            BY <4>2, <4>4
          <6> QED BY <6>3, <6>4 DEF HasStep
        <5>2. s.id \in used
          BY <2>2, <4>4, <5>1 DEF Replaces, Base, StepsOK
        <5> QED BY <2>2, <4>4, <5>1, <5>2, StepsReplaced
      <4>5. Walked(f)
        <5>1. PICK s \in Range(rows) : outcome'[s.id] # "none"
          BY <4>2 DEF Walked
        <5>2. \E t \in Range(steps[f]) : outcome[t.id] # "none"
          BY <4>4, <5>1 DEF HasStep
        <5>3. ASSUME NEW id \in Required(steps[f]) PROVE outcome[id] # "none"
          <6>1. Pending(rows, outcome') = {}
            BY <4>2 DEF Walked
          <6>2. id \in Required(rows) /\ outcome'[id] # "none"
            BY <4>3, <5>3, <6>1, PendingIs
          <6> QED BY <4>4, <6>2, RequiredIs
        <5> QED BY <4>1, <5>2, <5>3, PendingIs DEF Walked
      <4>6. Required(steps[f]) \subseteq Required(steps'[f])
        BY <4>2, <4>3
      <4> QED BY <1>0, <1>4, <2>0, <4>1, <4>3, <4>5, <4>6, OthersStay, DerivesStays DEF Goes
    <3>2. CASE f # req[c].flow
      <4>1. steps'[f] = steps[f] /\ excuse'[f] = excuse[f]
        BY <2>2, <3>2, ReplacedElsewhere
      <4>2. ASSUME NEW s \in Range(steps[f]) PROVE outcome'[s.id] = outcome[s.id]
        <5>1. s.id \in used /\ HasStep(f, s.id)'
          BY <4>1 DEF HasStep, Base, StepsOK
        <5> QED BY <2>2, <5>1, StepsReplaced
      <4> QED BY <1>1, <1>4, <2>0, <4>1, <4>2 DEF Goes
    <3> QED BY <3>1, <3>2
  <2> QED BY <1>4, <2>1, <2>2, ReplaceCases
<1>5. ASSUME NEW c \in Clients, UpsertOnboardingStepProgress(c) PROVE Goal
  <2>0. ~WillDerive(c, f) /\ req[c].flow \in Flows /\ steps' = steps
    BY <1>5 DEF UpsertOnboardingStepProgress, WillDerive, Base, RequestsOK, RequestOK
  <2>1. CASE ~HasStep(req[c].flow, req[c].step)
    BY <1>1, <1>5, <2>0, <2>1 DEF Goes, UpsertOnboardingStepProgress
  <2>2. CASE HasStep(req[c].flow, req[c].step) /\ req[c].flow = f
    <3>1. CASE req[c].at = "passed"
      <4>1. Pending(steps[f], outcome') = {}
        BY <2>0 DEF Walked
      <4>2. "underived" \in excuse'[f]
        BY <1>0, <1>5, <2>2, <3>1, <4>1 DEF UpsertOnboardingStepProgress
      <4> QED BY <4>2 DEF Plain
    <3>2. CASE req[c].at # "passed"
      BY <1>5, <2>2, <3>2, OutcomeMoves DEF WillDerive
    <3> QED BY <3>1, <3>2
  <2>3. CASE HasStep(req[c].flow, req[c].step) /\ req[c].flow # f
    <3>1. excuse'[f] = excuse[f]
      BY <1>0, <1>5, <2>0, <2>3 DEF UpsertOnboardingStepProgress
    <3>2. ASSUME NEW s \in Range(steps[f]) PROVE outcome'[s.id] = outcome[s.id]
      <4>1. s.id \in StepIds /\ HasStep(f, s.id)
        BY StepTyped DEF Base
      <4>2. s.id # req[c].step
        BY <2>0, <2>3, <4>1, OneFlowEach DEF Base
      <4> QED BY <1>5, <4>1, <4>2 DEF UpsertOnboardingStepProgress, Base, TypeOK
    <3> QED BY <1>1, <1>5, <2>0, <3>1, <3>2 DEF Goes
  <2> QED BY <2>1, <2>2, <2>3
<1>6. ASSUME NEW c \in Clients, SaveStarted(c) PROVE Goal
  <2>1. Saves(c, MarkStarted(req[c].row)) /\ excuse[req[c].flow] \subseteq excuse'[req[c].flow]
    BY <1>6, RowSaved
  <2>2. Kept /\ excuse[f] \subseteq excuse'[f]
    BY <2>1 DEF Saves
  <2>3. WillDerive(c, f) => req'[c].at = "steps" /\ req'[c].flow = f
    BY <1>6 DEF SaveStarted, WillDerive, Base, RequestsOK, Requests
  <2> QED BY <1>1, <1>6, <2>2, <2>3 DEF Goes, WillDerive
<1>7. ASSUME NEW c \in Clients, SaveFeedback(c) PROVE Goal
  <2>1. Saves(c, [req[c].row EXCEPT !.feedback = TRUE]) /\ excuse[req[c].flow] \subseteq excuse'[req[c].flow]
    BY <1>7, RowSaved
  <2>2. Kept /\ excuse[f] \subseteq excuse'[f] /\ ~WillDerive(c, f)
    BY <1>7, <2>1 DEF Saves, SaveFeedback, WillDerive
  <2> QED BY <1>1, <1>7, <2>2 DEF Goes
<1>8. ASSUME NEW c \in Clients, SaveCompleted(c) PROVE Goal
  <2>1. Saves(c, [req[c].row EXCEPT !.status = "completed"])
    BY <1>8, RowSaved
  <2>2. CASE req[c].flow = f
    <3>1. assignment'[f].status = "completed"
      <4>1. [req[c].row EXCEPT !.status = "completed"].status = "completed"
        BY <2>1, RowUpdated DEF Saves
      <4> QED BY <2>1, <2>2, <4>1 DEF Saves
    <3> QED BY <3>1
  <2>3. CASE req[c].flow # f
    <3>1. Kept /\ excuse[f] \subseteq excuse'[f] /\ ~WillDerive(c, f)
      BY <2>1, <2>3 DEF Saves, WillDerive
    <3> QED BY <1>1, <1>8, <3>1 DEF Goes
  <2> QED BY <2>2, <2>3
<1>9. ASSUME NEW c \in Clients, ListOnboardingSteps(c) PROVE Goal
  <2>1. Kept /\ excuse[f] \subseteq excuse'[f]
    BY <1>0, <1>9 DEF ListOnboardingSteps, tables
  <2>2. ASSUME WillDerive(c, f) PROVE WillDerive(c, f)'
    <3>1. req[c].flow = f
      BY <2>2 DEF WillDerive
    <3>2. Live(f)
      <4>1. Underived(f) = {"underived"}
        BY <2>1, WalkedBefore DEF Underived, Walked
      <4>2. ~Live(f) => "underived" \in excuse'[f]
        BY <1>0, <1>9, <3>1, <4>1 DEF ListOnboardingSteps
      <4> QED BY <4>2 DEF Plain
    <3>3. req'[c].at = "progress" /\ req'[c].flow = f /\ req'[c].list = steps[f] /\ steps' = steps
      BY <1>9, <3>1, <3>2 DEF ListOnboardingSteps, Base, RequestsOK, Requests, tables
    <3> QED BY <3>3 DEF WillDerive
  <2> QED BY <1>1, <1>9, <2>1, <2>2 DEF Goes
<1>10. ASSUME NEW c \in Clients, ListOnboardingStepProgress(c) PROVE Goal
  <2>1. Kept /\ UNCHANGED <<excuse, assignment, steps, outcome>>
    BY <1>10 DEF ListOnboardingStepProgress, tables, history
  <2>2. Walked(f) /\ assignment[f] # NoRow
    BY <2>1, WalkedBefore DEF Walked
  <2>3. ASSUME WillDerive(c, f) PROVE WillDerive(c, f)' \/ assignment'[f].status = "completed"
    <3>1. req[c].flow = f /\ Required(req[c].list) \subseteq Required(steps[f]) /\ req[c].at = "progress"
      BY <1>10, <2>3 DEF WillDerive, ListOnboardingStepProgress
    <3>2. CASE req[c].row.status = "completed"
      <4>1. RowIsCurrent(c) /\ "overlapped" \notin excuse[f]
        BY <2>1, DerivationParts DEF Plain
      <4> QED BY <2>1, <3>1, <3>2, <4>1 DEF RowIsCurrent
    <3>3. CASE req[c].row.status # "completed"
      <4>0. Pending(req[c].list, outcome) = {}
        BY <2>2, <3>1, PendingIs DEF Walked
      <4>1. Goto(c, "complete")
        BY <1>10, <3>3, <4>0 DEF ListOnboardingStepProgress
      <4>2. req'[c].at = "complete" /\ req'[c].flow = f
        BY <3>1, <4>1 DEF Goto, Base, RequestsOK, Requests
      <4> QED BY <4>2 DEF WillDerive
    <3> QED BY <3>2, <3>3
  <2> QED BY <1>1, <1>10, <2>1, <2>3 DEF Goes
<1>11. ASSUME NEW c \in Clients, Abort(c) PROVE Goal
  <2>1. Kept /\ excuse[f] \subseteq excuse'[f]
    BY <1>0, <1>11 DEF Abort, tables
  <2>2. ~WillDerive(c, f)
    <3>1. Underived(f) = {"underived"}
      BY <2>1, WalkedBefore DEF Underived, Walked
    <3>2. ASSUME WillDerive(c, f) PROVE "underived" \in excuse'[f]
      BY <1>0, <1>11, <3>1, <3>2 DEF Abort, WillDerive
    <3> QED BY <3>2 DEF Plain
  <2> QED BY <1>1, <1>11, <2>1, <2>2 DEF Goes
<1>12. ASSUME NEW c \in Clients, Starts(c) \/ Goes(c) PROVE Goal
  BY <1>3, <1>4, <1>5, <1>6, <1>7, <1>8, <1>9, <1>10, <1>11, <1>12 DEF Goes
<1> QED BY <1>2, <1>12, EveryStep DEF Base

LEMMA DerivationStep ==
    ASSUME Base, DerivationHolds, [Next]_vars
    PROVE  DerivationHolds'
<1>1. \A f \in Flows : Derives(f)'
  BY DerivesStep DEF Derives
<1>2. \A c \in Clients : RowIsCurrent(c)'
  BY RowsStayCurrent, DerivationParts
<1> QED BY <1>1, <1>2 DEF DerivationHolds, Derives, RowIsCurrent

-----------------------------------------------------------------------------
(* The theorems *)

LEMMA InitInv == Init => IInv
<1> SUFFICES ASSUME Init PROVE IInv
  OBVIOUS
<1>1. Idle \in Requests /\ OneIdEach(<<>>) /\ <<>> \in Seq(StepRows) /\ Idle.at = "idle" /\ Idle.list = <<>>
  <2>1. Idle \in Requests
    BY TemplateOK DEF Requests, Idle, Places
  <2> QED BY <2>1, TemplateOK DEF Idle
<1>2. TypeOK
  <2>1. flow \in [Flows -> [state : {"none", "live", "deleted"}, default : BOOLEAN]]
    BY DEF Init
  <2>2. steps \in [Flows -> Seq(StepRows)] /\ \A f \in Flows : DOMAIN steps[f] = {}
    BY <1>1 DEF Init
  <2>3. /\ outcome \in [StepIds -> {"none", "done", "skipped"}] /\ excuse \in [Flows -> SUBSET Excuses]
        /\ assignment \in [Flows -> Rows \union {NoRow}]
    BY DEF Init
  <2>4. used = {} /\ spoken = {} /\ nominee = NoRow /\ unsettled = FALSE
    BY DEF Init
  <2> QED BY <2>1, <2>2, <2>3, <2>4 DEF TypeOK
<1>3. RequestsOK
  BY <1>1 DEF Init, RequestsOK, RequestOK, ReadingPlaces, Creates
<1>4. StepsOK
  BY DEF Init, StepsOK, Range
<1>5. CompletedHolds /\ CompletingHolds
  BY <1>1 DEF Init, CompletedHolds, CompletingHolds, SaysCompleted, AllWalked, Pending, Required, ReadingPlaces, Range
<1>6. DerivationHolds
  BY <1>1 DEF Init, DerivationHolds, Walked
<1>7. NominationHolds /\ FeedbackKeptUnlessOverlapped
  BY DEF Init, NominationHolds, FeedbackKeptUnlessOverlapped
<1> QED BY <1>2, <1>3, <1>4, <1>5, <1>6, <1>7 DEF IInv, WalkInv

LEMMA InvStep == IInv /\ [Next]_vars => IInv'
<1> SUFFICES ASSUME IInv, [Next]_vars PROVE IInv'
  OBVIOUS
<1>1. Base /\ Base'
  BY BaseStep DEF IInv, Base
<1> QED BY <1>1, CompletedStep, CompletingStep, DerivationStep, NominationStep, FeedbackStep
        DEF IInv, WalkInv, Base

LEMMA Inductive == Spec => []IInv
BY InitInv, InvStep, PTL DEF Spec

\* Every row, request and mark stays in its type, and an id belongs to one
\* step of one flow: ReplaceOnboardingSteps never hands out an id twice.
THEOREM OnboardingTypes == Spec => []TypeOK
<1>1. IInv => TypeOK
  BY DEF IInv
<1> QED BY <1>1, Inductive, PTL

\* An edit of the list never costs anybody an outcome on a step that stays:
\* ReplaceOnboardingSteps updates the steps it keeps in place.
THEOREM OutcomesSurvive == Spec => OutcomesSurviveEdits
<1>1. IInv /\ [Next]_vars =>
          [\A f \in Flows : \A s \in Range(steps[f]) :
              outcome[s.id] # "none" /\ (\E t \in Range(steps'[f]) : t.id = s.id)
                  => outcome'[s.id] # "none"]_vars
  BY OutcomeKept DEF IInv, Base
<1> QED BY <1>1, Inductive, PTL DEF Spec, OutcomesSurviveEdits

\* Feedback that was stored stays, unless a save of the whole row overtook
\* another that had read it.
THEOREM FeedbackKept == Spec => []FeedbackKeptUnlessOverlapped
<1>1. IInv => FeedbackKeptUnlessOverlapped
  BY DEF IInv
<1> QED BY <1>1, Inductive, PTL

\* An organization keeps the default it nominated, however the demotion of the
\* incumbent and the write of the new one fall between other requests.
THEOREM DefaultKept == Spec => []DefaultKeptUnlessUnsettled
<1>1. IInv => DefaultKeptUnlessUnsettled
  BY DEF IInv, NominationHolds, DefaultKeptUnlessUnsettled
<1> QED BY <1>1, Inductive, PTL

\* Completed means that every required step has an outcome, and a walk with
\* an outcome on every required step is completed or about to be, whatever
\* edits add or require since; unless a step was made required after it was
\* completed (first half), or an edit left no required step pending, a save
\* overlapped or the last outcome was not followed up (second half).
THEOREM CompletionIsDerived == Spec => []CompletionIsDerivedUnlessExcused
<1>1. IInv => CompletedWasWalked
  BY DEF IInv, WalkInv, CompletedHolds, SaysCompleted, AllWalked, CompletedWasWalked
<1>2. IInv => WalkedIsCompletedUnlessExcused
  BY DEF IInv, WalkInv, DerivationHolds, Plain, WillDerive, Deriving, WalkedIsCompletedUnlessExcused
<1>3. IInv => CompletionIsDerivedUnlessExcused
  BY <1>1, <1>2 DEF CompletionIsDerivedUnlessExcused
<1> QED BY <1>3, Inductive, PTL
=============================================================================

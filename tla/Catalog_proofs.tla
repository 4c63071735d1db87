--------------------------- MODULE Catalog_proofs ---------------------------
(***************************************************************************)
(* What holds of Catalog for every number of repositories, trees, syncs,   *)
(* reconciliations and lost processes.                                     *)
(*                                                                         *)
(* The argument: a table is stored one repository after another, so what   *)
(* is fresh is what the facts of the repositories that are done name, and  *)
(* what is still pending of the current one (InWork); a sweep then kills   *)
(* what is not fresh, where the fact was whole.  When a phase ends without *)
(* an error and no sync stored a fact since it listed them, its table is   *)
(* what the facts of now name (FollowsAPIs, FollowsLinks, FollowsCalls),   *)
(* and stays so through the later phases (SettledOK).                      *)
(*                                                                         *)
(* What a call is derived from is a fold over the hosts in some order; it  *)
(* is counted position by position (Counted): the edge of a target has the *)
(* largest confidence of the hosts that name it, and is a test while they  *)
(* all are.                                                                *)
(***************************************************************************)
EXTENDS Catalog, FiniteSetTheorems, WellFoundedInduction, NaturalsInduction, TLAPS

-----------------------------------------------------------------------------
(* What a call is derived from *)

\* S goes on from a to b.
GoesOn(S, a, b) == \A n \in Nat : a <= n /\ n < b /\ n \in S => n + 1 \in S

\* Induction from a to b, for a set.
LEMMA UpToIn ==
    ASSUME NEW a \in Nat, NEW b \in Nat, NEW S, a \in S, GoesOn(S, a, b)
    PROVE  \A n \in Nat : a <= n /\ n <= b => n \in S
<1> DEFINE bad == {n \in Nat : a <= n /\ n <= b /\ n \notin S}
<1> SUFFICES ASSUME bad # {} PROVE FALSE OBVIOUS
<1>1. PICK k \in bad : \A m \in bad : ~(<<m, k>> \in OpToRel(<, Nat))
  BY WFMin, NatLessThanWellFounded
<1>2. k \in Nat /\ a <= k /\ k <= b /\ k \notin S OBVIOUS
<1>3. k # a BY <1>2
<1>4. k - 1 \in Nat /\ a <= k - 1 /\ k - 1 < b /\ k - 1 <= b BY <1>2, <1>3
<1>5. k - 1 \notin bad
  <2> SUFFICES ASSUME k - 1 \in bad PROVE FALSE OBVIOUS
  <2>1. <<k - 1, k>> \in OpToRel(<, Nat) BY <1>2, <1>4 DEF OpToRel
  <2> QED BY <1>1, <2>1
<1>6. k - 1 \in S BY <1>4, <1>5
<1>7. (k - 1) + 1 \in S BY <1>4, <1>6 DEF GoesOn
<1>8. (k - 1) + 1 = k BY <1>2
<1> QED BY <1>2, <1>7, <1>8

\* One host more.
HostStep(l, r, acc, h) ==
    IF \E m \in Match(l, h) : m.target # r
    THEN MergeConsumeEdge(acc, ConsumeEdge(r, h, CHOOSE m \in Match(l, h) : TRUE))
    ELSE acc

\* f gives the edges of the hosts at any positions of a list, up to n of them.
Upto(hosts, n) == {s \in SUBSET DOMAIN hosts : Cardinality(s) <= n}
Gathers(f, l, r, hosts, positions) ==
    f = [s \in positions |-> IF s = {} THEN {} ELSE HostStep(l, r, f[s \ {Max(s)}], hosts[Max(s)])]

\* The edges of one repository.
EdgesOf(l, r) ==
    FoldLeft(LAMBDA acc, h : IF \E m \in Match(l, h) : m.target # r
                             THEN MergeConsumeEdge(acc, ConsumeEdge(r, h, CHOOSE m \in Match(l, h) : TRUE))
                             ELSE acc,
             {}, SetToSeq(l[r].data.consumed))

LEMMA EdgesGathered ==
    ASSUME NEW l, NEW r, NEW hosts, hosts = SetToSeq(l[r].data.consumed)
    PROVE  EdgesOf(l, r) = (CHOOSE f : Gathers(f, l, r, hosts, SUBSET DOMAIN hosts))[DOMAIN hosts]
BY DEF EdgesOf, FoldLeft, MapThenFoldSet, Gathers, HostStep

LEMMA DeriveIs == ASSUME NEW l PROVE DeriveConsume(l) = UNION {EdgesOf(l, r) : r \in DOMAIN l}
BY DEF DeriveConsume, EdgesOf

\* The largest of some positions.
LEMMA LargestIs ==
    ASSUME NEW n \in Nat, NEW s \in SUBSET (1..n), s # {}
    PROVE  Max(s) \in s /\ \A i \in s : i <= Max(s)
<1> DEFINE S == {k \in Nat : \A u \in SUBSET (1..k) : u # {} => \E m \in u : \A i \in u : m >= i}
<1>1. 0 \in S
  <2>1. \A u \in SUBSET (1..0) : u = {} OBVIOUS
  <2> QED BY <2>1
<1>2. ASSUME NEW k \in Nat, k \in S PROVE k + 1 \in S
  <2> SUFFICES ASSUME NEW u \in SUBSET (1..k + 1), u # {} PROVE \E m \in u : \A i \in u : m >= i OBVIOUS
  <2>1. CASE k + 1 \in u
    <3>1. \A i \in u : k + 1 >= i OBVIOUS
    <3> QED BY <2>1, <3>1
  <2>2. CASE k + 1 \notin u
    <3>1. \A i \in u : i \in 1..k
      <4> TAKE i \in u
      <4>1. i \in 1..k + 1 /\ i # k + 1 BY <2>2
      <4> QED BY <4>1
    <3>2. u \in SUBSET (1..k) BY <3>1
    <3> QED BY <1>2, <3>2
  <2> QED BY <2>1, <2>2
<1>3. n \in S
  <2>1. GoesOn(S, 0, n) BY <1>2 DEF GoesOn
  <2> HIDE DEF S
  <2>2. \A k \in Nat : 0 <= k /\ k <= n => k \in S BY <1>1, <2>1, UpToIn
  <2> QED BY <2>2
<1>4. PICK m \in s : \A i \in s : m >= i BY <1>3
<1>5. Max(s) \in s /\ \A i \in s : Max(s) >= i BY <1>4 DEF Max
<1>6. \A i \in s : i \in 1..n OBVIOUS
<1>7. PICK largest : largest = Max(s) OBVIOUS
<1>8. largest \in 1..n /\ \A i \in s : largest >= i BY <1>5, <1>6, <1>7
<1>9. \A i \in s : i <= largest BY <1>6, <1>8
<1> QED BY <1>5, <1>7, <1>9

LEMMA GathersMore ==
    ASSUME NEW l, NEW r, NEW n \in Nat, NEW hosts, DOMAIN hosts = 1..n, NEW k \in Nat,
           NEW g, Gathers(g, l, r, hosts, Upto(hosts, k))
    PROVE  \E f : Gathers(f, l, r, hosts, Upto(hosts, k + 1))
<1> DEFINE Value(s, h) == IF s = {} THEN {} ELSE HostStep(l, r, h[s \ {Max(s)}], hosts[Max(s)])
           f == [s \in Upto(hosts, k + 1) |-> Value(s, g)]
<1>1. \A s \in Upto(hosts, k) : g[s] = Value(s, g) BY DEF Gathers
<1>2. ASSUME NEW s \in Upto(hosts, k + 1), s # {}
      PROVE  s \ {Max(s)} \in Upto(hosts, k) /\ s \ {Max(s)} \in Upto(hosts, k + 1)
  <2>1. s \in SUBSET (1..n) /\ Cardinality(s) <= k + 1 BY DEF Upto
  <2>2. Max(s) \in s BY <1>2, <2>1, LargestIs
  <2>3. IsFiniteSet(1..n) BY FS_Interval
  <2>4. IsFiniteSet(s) BY <2>1, <2>3, FS_Subset
  <2>5. Cardinality(s) \in Nat BY <2>4, FS_CardinalityType
  <2>6. Cardinality(s \ {Max(s)}) = Cardinality(s) - 1 BY <2>2, <2>4, FS_RemoveElement
  <2>7. Cardinality(s \ {Max(s)}) <= k /\ Cardinality(s \ {Max(s)}) <= k + 1 BY <2>1, <2>5, <2>6
  <2>8. s \ {Max(s)} \in SUBSET DOMAIN hosts BY <2>1
  <2> QED BY <2>7, <2>8 DEF Upto
<1>3. ASSUME NEW s \in Upto(hosts, k + 1) PROVE f[s] = Value(s, f)
  <2>1. CASE s = {} BY <2>1
  <2>2. CASE s # {}
    <3>1. s \ {Max(s)} \in Upto(hosts, k) /\ s \ {Max(s)} \in Upto(hosts, k + 1) BY <1>2, <2>2
    <3>2. f[s \ {Max(s)}] = Value(s \ {Max(s)}, g) BY <3>1
    <3>3. f[s \ {Max(s)}] = g[s \ {Max(s)}] BY <1>1, <3>1, <3>2
    <3> QED BY <2>2, <3>3
  <2> QED BY <2>1, <2>2
<1>4. f = [s \in Upto(hosts, k + 1) |-> f[s]] OBVIOUS
<1> HIDE DEF f
<1>5. f = [s \in Upto(hosts, k + 1) |-> Value(s, f)] BY <1>3, <1>4
<1> QED BY <1>5 DEF Gathers

LEMMA GathersAll ==
    ASSUME NEW l, NEW r, NEW n \in Nat, NEW hosts, DOMAIN hosts = 1..n
    PROVE  \E f : Gathers(f, l, r, hosts, SUBSET DOMAIN hosts)
<1> DEFINE S == {k \in Nat : \E f : Gathers(f, l, r, hosts, Upto(hosts, k))}
<1>1. 0 \in S
  <2> DEFINE f == [s \in Upto(hosts, 0) |-> {}]
  <2>1. \A s \in Upto(hosts, 0) : s = {}
    <3> TAKE s \in Upto(hosts, 0)
    <3>1. s \in SUBSET (1..n) /\ Cardinality(s) <= 0 BY DEF Upto
    <3>2. IsFiniteSet(1..n) BY FS_Interval
    <3>3. IsFiniteSet(s) BY <3>1, <3>2, FS_Subset
    <3>4. Cardinality(s) \in Nat BY <3>3, FS_CardinalityType
    <3>5. Cardinality(s) = 0 BY <3>1, <3>4
    <3> QED BY <3>3, <3>5, FS_EmptySet
  <2>2. f = [s \in Upto(hosts, 0) |-> IF s = {} THEN {} ELSE HostStep(l, r, f[s \ {Max(s)}], hosts[Max(s)])]
    BY <2>1
  <2>3. Gathers(f, l, r, hosts, Upto(hosts, 0)) BY <2>2 DEF Gathers
  <2> QED BY <2>3
<1>2. \A k \in Nat : k \in S => k + 1 \in S BY GathersMore
<1>3. n \in S
  <2>1. GoesOn(S, 0, n) BY <1>2 DEF GoesOn
  <2> HIDE DEF S
  <2>2. \A k \in Nat : 0 <= k /\ k <= n => k \in S BY <1>1, <2>1, UpToIn
  <2> QED BY <2>2
<1>4. Upto(hosts, n) = SUBSET DOMAIN hosts
  <2>1. IsFiniteSet(1..n) /\ Cardinality(1..n) = n
    <3>1. 1 \in Int /\ n \in Int OBVIOUS
    <3>2. IsFiniteSet(1..n) BY <3>1, FS_Interval
    <3>3. Cardinality(1..n) = IF 1 > n THEN 0 ELSE n - 1 + 1 BY <3>1, FS_Interval
    <3>4. Cardinality(1..n) = n BY <3>3
    <3> QED BY <3>2, <3>4
  <2>2. \A s \in SUBSET (1..n) : Cardinality(s) <= n BY <2>1, FS_Subset
  <2> QED BY <2>2 DEF Upto
<1> QED BY <1>3, <1>4

\* One position after the other.
InOrder(f, l, r, n, hosts) ==
    f[1..0] = {} /\ \A k \in Nat : k < n => f[1..k + 1] = HostStep(l, r, f[1..k], hosts[k + 1])

LEMMA GatheredInOrder ==
    ASSUME NEW l, NEW r, NEW n \in Nat, NEW hosts, DOMAIN hosts = 1..n,
           NEW f, Gathers(f, l, r, hosts, SUBSET DOMAIN hosts)
    PROVE  InOrder(f, l, r, n, hosts)
<1>1. \A s \in SUBSET (1..n) : f[s] = IF s = {} THEN {} ELSE HostStep(l, r, f[s \ {Max(s)}], hosts[Max(s)])
  BY DEF Gathers
<1>2. f[1..0] = {}
  <2>1. 1..0 = {} /\ {} \in SUBSET (1..n) OBVIOUS
  <2> QED BY <1>1, <2>1
<1>3. ASSUME NEW k \in Nat, k < n PROVE f[1..k + 1] = HostStep(l, r, f[1..k], hosts[k + 1])
  <2>1. 1..k + 1 \in SUBSET (1..n) /\ 1..k + 1 # {} /\ k + 1 \in 1..k + 1 BY <1>3
  <2>2. Max(1..k + 1) \in 1..k + 1 /\ \A i \in 1..k + 1 : i <= Max(1..k + 1) BY <2>1, LargestIs
  <2>3. Max(1..k + 1) = k + 1 BY <2>1, <2>2
  <2>4. (1..k + 1) \ {k + 1} = 1..k OBVIOUS
  <2> QED BY <1>1, <2>1, <2>3, <2>4
<1> QED BY <1>2, <1>3 DEF InOrder

Hitting(l, r, h) == \E m \in Match(l, h) : m.target # r
MatchOf(l, h) == CHOOSE m \in Match(l, h) : TRUE
Fits(e, l, h) == e.target = MatchOf(l, h).target /\ e.kind = KindOf(h)
EdgeFields == {"source", "target", "kind", "confidence", "rule", "test", "path", "var", "also", "print"}
EdgeIs(e, r) ==
    /\ DOMAIN e = EdgeFields
    /\ e.source = r /\ e.confidence \in Nat /\ e.test \in BOOLEAN

\* What the edges of a repository say of the hosts that were counted.
Counted(acc, l, r, H) ==
    /\ \A e \in acc : EdgeIs(e, r)
    /\ \A e, d \in acc : e.target = d.target /\ e.kind = d.kind => e = d
    /\ \A h \in H : Hitting(l, r, h) => \E e \in acc : Fits(e, l, h)
    /\ \A e \in acc : \E h \in H : Hitting(l, r, h) /\ Fits(e, l, h) /\ e.confidence = MatchOf(l, h).confidence
    /\ \A e \in acc, h \in H : Hitting(l, r, h) /\ Fits(e, l, h) => e.confidence >= MatchOf(l, h).confidence
    /\ \A e \in acc : e.test <=> \A h \in H : Hitting(l, r, h) /\ Fits(e, l, h) => h.test

LEMMA MatchIs ==
    ASSUME NEW l, NEW h, Match(l, h) # {}
    PROVE  /\ Match(l, h) = {MatchOf(l, h)}
           /\ MatchOf(l, h).confidence \in Nat
<1>1. MatchOf(l, h) \in Match(l, h) BY DEF MatchOf
<1> DEFINE service == Resolve(l, "services", ServiceLabel(h.host))
           ingress == Resolve(l, "hosts", h.host)
           Hit(o, rule, c) == {[target |-> CHOOSE x \in o : TRUE, rule |-> rule, confidence |-> c]}
<1>2. ASSUME NEW m \in Match(l, h) PROVE Match(l, h) = {m} /\ m.confidence \in Nat
  <2>1. Match(l, h) = IF service # {}
       THEN IF h.rule = "depends_on" THEN Hit(service, "depends_on", ConfidenceComposeTopology)
            ELSE Hit(service, "service_host", ConfidenceDeclaredHost)
       ELSE IF h.rule # "depends_on" /\ ingress # {} THEN Hit(ingress, "ingress_host", ConfidenceComposeTopology)
       ELSE {}
    BY DEF Match
  <2> HIDE DEF service, ingress
  <2>2. ASSUME NEW o, NEW rule, NEW c, c \in Nat, m \in Hit(o, rule, c) PROVE Hit(o, rule, c) = {m} /\ m.confidence \in Nat
    <3>1. PICK v : v = [target |-> CHOOSE x \in o : TRUE, rule |-> rule, confidence |-> c] OBVIOUS
    <3>2. Hit(o, rule, c) = {v} /\ v.confidence = c BY <3>1
    <3>3. m = v BY <2>2, <3>2
    <3> QED BY <2>2, <3>2, <3>3
  <2>3. ConfidenceComposeTopology \in Nat /\ ConfidenceDeclaredHost \in Nat
    BY DEF ConfidenceComposeTopology, ConfidenceDeclaredHost
  <2> HIDE DEF Hit
  <2> QED BY <2>1, <2>2, <2>3
<1> QED BY <1>1, <1>2

LEMMA MergedIs ==
    ASSUME NEW e, NEW r, EdgeIs(e, r), NEW x, EdgeIs(x, r)
    PROVE  /\ EdgeIs(Merge(e, x), r)
           /\ Merge(e, x).target = e.target /\ Merge(e, x).kind = e.kind
           /\ Merge(e, x).confidence = IF x.confidence > e.confidence THEN x.confidence ELSE e.confidence
           /\ (Merge(e, x).test <=> e.test /\ x.test)
<1> DEFINE stronger == IF x.confidence > e.confidence
                       THEN [e EXCEPT !.confidence = x.confidence, !.rule = x.rule, !.print = x.print] ELSE e
           noted == [stronger EXCEPT !.also = @ \union {x.path}]
           outside == [noted EXCEPT !.test = FALSE, !.path = x.path, !.rule = x.rule, !.print = x.print, !.var = x.var]
<1>1. /\ EdgeIs(stronger, r) /\ stronger.target = e.target /\ stronger.kind = e.kind /\ stronger.test = e.test
      /\ stronger.confidence = IF x.confidence > e.confidence THEN x.confidence ELSE e.confidence
  <2>1. CASE x.confidence > e.confidence BY <2>1 DEF EdgeIs, EdgeFields
  <2>2. CASE ~(x.confidence > e.confidence) BY <2>2 DEF EdgeIs
  <2> QED BY <2>1, <2>2
<1> HIDE DEF stronger
<1>2. /\ EdgeIs(noted, r) /\ noted.target = e.target /\ noted.kind = e.kind /\ noted.test = e.test
      /\ noted.confidence = IF x.confidence > e.confidence THEN x.confidence ELSE e.confidence
  BY <1>1 DEF EdgeIs, EdgeFields
<1> HIDE DEF noted
<1>3. /\ EdgeIs(outside, r) /\ outside.target = e.target /\ outside.kind = e.kind /\ outside.test = FALSE
      /\ outside.confidence = IF x.confidence > e.confidence THEN x.confidence ELSE e.confidence
  <2>1. PICK a, b, c, d : a = x.path /\ b = x.rule /\ c = x.print /\ d = x.var OBVIOUS
  <2> DEFINE v == [noted EXCEPT !.test = FALSE, !.path = a, !.rule = b, !.print = c, !.var = d]
  <2>2. DOMAIN noted = EdgeFields BY <1>2 DEF EdgeIs
  <2>3. /\ DOMAIN v = EdgeFields /\ v.source = noted.source /\ v.target = noted.target /\ v.kind = noted.kind
        /\ v.confidence = noted.confidence /\ v.test = FALSE
    BY <2>2 DEF EdgeFields
  <2>4. outside = v BY <2>1
  <2> HIDE DEF v, outside
  <2>5. EdgeIs(outside, r) BY <1>2, <2>3, <2>4 DEF EdgeIs
  <2> QED BY <1>2, <2>3, <2>4, <2>5
<1> HIDE DEF outside
<1>4. Merge(e, x) = IF e.test /\ ~x.test THEN outside ELSE noted
  BY DEF Merge, outside, noted, stronger
<1> QED BY <1>2, <1>3, <1>4

LEMMA CountedStep ==
    ASSUME NEW l, NEW r, NEW acc, NEW H, Counted(acc, l, r, H), NEW h, h.test \in BOOLEAN
    PROVE  Counted(HostStep(l, r, acc, h), l, r, H \cup {h})
<1>1. CASE ~Hitting(l, r, h)
  <2>1. HostStep(l, r, acc, h) = acc BY <1>1 DEF HostStep, Hitting
  <2> QED BY <1>1, <2>1 DEF Counted
<1>2. CASE Hitting(l, r, h)
  <2> DEFINE m == MatchOf(l, h)
             x == ConsumeEdge(r, h, m)
             same == {e \in acc : e.source = x.source /\ e.target = x.target /\ e.kind = x.kind}
             new == HostStep(l, r, acc, h)
  <2>1. m.confidence \in Nat BY <1>2, MatchIs DEF Hitting
  <2>2. EdgeIs(x, r) /\ x.target = m.target /\ x.kind = KindOf(h) /\ x.confidence = m.confidence /\ x.test = h.test
    BY <2>1 DEF ConsumeEdge, EdgeIs, EdgeFields
  <2>3. new = IF same = {} THEN acc \union {x} ELSE (acc \ same) \union {Merge(e, x) : e \in same}
    BY <1>2 DEF HostStep, Hitting, MatchOf, MergeConsumeEdge
  <2>4. \A e \in acc : e \in same <=> Fits(e, l, h) BY <2>2 DEF Counted, EdgeIs, Fits
  <2> HIDE DEF x, m, new
  <2>5. CASE same = {}
    <3>1. new = acc \cup {x} BY <2>3, <2>5
    <3>2. \A e \in acc : ~Fits(e, l, h) BY <2>4, <2>5
    <3>3. Fits(x, l, h) BY <2>2 DEF Fits, m
    <3>4. \A g \in H : Hitting(l, r, g) /\ Fits(x, l, g) => FALSE
      <4> SUFFICES ASSUME NEW g \in H, Hitting(l, r, g), Fits(x, l, g) PROVE FALSE OBVIOUS
      <4>1. PICK e \in acc : Fits(e, l, g) BY DEF Counted
      <4>2. Fits(e, l, h) BY <3>3, <4>1 DEF Fits
      <4> QED BY <3>2, <4>1, <4>2
    <3> USE DEF Counted
    <3>5. \A e \in new : EdgeIs(e, r) BY <2>2, <3>1
    <3>6. \A e, d \in new : e.target = d.target /\ e.kind = d.kind => e = d BY <3>1, <3>2, <3>3 DEF Fits
    <3>7. \A g \in H \cup {h} : Hitting(l, r, g) => \E e \in new : Fits(e, l, g) BY <3>1, <3>3
    <3>8. \A e \in new : \E g \in H \cup {h} : Hitting(l, r, g) /\ Fits(e, l, g) /\ e.confidence = MatchOf(l, g).confidence
      BY <1>2, <2>2, <3>1, <3>3 DEF m
    <3>9. \A e \in new, g \in H \cup {h} : Hitting(l, r, g) /\ Fits(e, l, g) => e.confidence >= MatchOf(l, g).confidence
      BY <2>1, <2>2, <3>1, <3>2, <3>4 DEF m
    <3>10. \A e \in new : e.test <=> \A g \in H \cup {h} : Hitting(l, r, g) /\ Fits(e, l, g) => g.test
      <4>1. ASSUME NEW e \in acc PROVE e.test <=> \A g \in H \cup {h} : Hitting(l, r, g) /\ Fits(e, l, g) => g.test
        BY <3>2
      <4>2. x.test <=> \A g \in H \cup {h} : Hitting(l, r, g) /\ Fits(x, l, g) => g.test
        BY <1>2, <2>2, <3>3, <3>4
      <4> QED BY <3>1, <4>1, <4>2
    <3> QED BY <3>5, <3>6, <3>7, <3>8, <3>9, <3>10 DEF new
  <2>6. CASE same # {}
    <3>1. PICK e \in acc : Fits(e, l, h) BY <2>4, <2>6
    <3>2. same = {e}
      <4>1. e \in same BY <2>4, <3>1
      <4>2. \A d \in same : d = e BY <3>1, <2>4 DEF Fits, Counted
      <4> QED BY <4>1, <4>2
    <3> DEFINE y == Merge(e, x)
    <3>3. new = (acc \ {e}) \cup {y} BY <2>3, <2>6, <3>2
    <3>4. EdgeIs(e, r) BY DEF Counted
    <3>5. /\ EdgeIs(y, r) /\ y.target = e.target /\ y.kind = e.kind
          /\ y.confidence = IF x.confidence > e.confidence THEN x.confidence ELSE e.confidence
          /\ (y.test <=> e.test /\ x.test)
      <4>1. EdgeIs(x, r) BY <2>2
      <4>2. /\ EdgeIs(Merge(e, x), r)
            /\ Merge(e, x).target = e.target /\ Merge(e, x).kind = e.kind
            /\ Merge(e, x).confidence = IF x.confidence > e.confidence THEN x.confidence ELSE e.confidence
            /\ (Merge(e, x).test <=> e.test /\ x.test)
        BY <3>4, <4>1, MergedIs
      <4> QED BY <4>2
    <3> HIDE DEF y
    <3>6. \A g : Fits(y, l, g) <=> Fits(e, l, g) BY <3>5 DEF Fits
    <3>7. \A d \in acc \ {e} : d \in acc /\ ~Fits(d, l, h) BY <2>4, <3>2
    <3> USE DEF Counted
    <3>8. \A d \in new : EdgeIs(d, r) BY <3>3, <3>5
    <3>9. \A d, c \in new : d.target = c.target /\ d.kind = c.kind => d = c BY <3>3, <3>5
    <3>10. \A g \in H \cup {h} : Hitting(l, r, g) => \E d \in new : Fits(d, l, g)
      <4> SUFFICES ASSUME NEW g \in H \cup {h}, Hitting(l, r, g) PROVE \E d \in new : Fits(d, l, g) OBVIOUS
      <4>1. PICK d \in acc : Fits(d, l, g) BY <3>1
      <4>2. CASE d = e BY <3>3, <3>6, <4>1, <4>2
      <4>3. CASE d # e BY <3>3, <4>1, <4>3
      <4> QED BY <4>2, <4>3
    <3>11. e.confidence \in Nat /\ x.confidence \in Nat /\ x.confidence = MatchOf(l, h).confidence
      BY <2>2, <3>4 DEF EdgeIs, m
    <3>12. \A d \in new : \E g \in H \cup {h} : Hitting(l, r, g) /\ Fits(d, l, g) /\ d.confidence = MatchOf(l, g).confidence
      <4>1. CASE x.confidence > e.confidence
        <5>1. Fits(y, l, h) /\ y.confidence = MatchOf(l, h).confidence BY <3>1, <3>5, <3>6, <3>11, <4>1
        <5> QED BY <1>2, <3>3, <5>1
      <4>2. CASE ~(x.confidence > e.confidence)
        <5>1. y.confidence = e.confidence BY <3>5, <4>2
        <5> QED BY <3>3, <3>6, <5>1
      <4> QED BY <4>1, <4>2
    <3>13. \A d \in new, g \in H \cup {h} : Hitting(l, r, g) /\ Fits(d, l, g) => d.confidence >= MatchOf(l, g).confidence
      <4> SUFFICES ASSUME NEW d \in new, NEW g \in H \cup {h}, Hitting(l, r, g), Fits(d, l, g)
                   PROVE  d.confidence >= MatchOf(l, g).confidence
        OBVIOUS
      <4>1. MatchOf(l, g).confidence \in Nat BY MatchIs DEF Hitting
      <4>2. CASE d # y
        <5>1. d \in acc /\ ~Fits(d, l, h) BY <3>3, <3>7, <4>2
        <5>2. g \in H BY <5>1
        <5> QED BY <5>1, <5>2
      <4>3. CASE d = y /\ g = h BY <3>5, <3>11, <4>3
      <4>4. CASE d = y /\ g # h
        <5>1. g \in H /\ Fits(e, l, g) BY <3>6, <4>4
        <5>2. e.confidence >= MatchOf(l, g).confidence BY <5>1
        <5> QED BY <3>5, <3>11, <4>1, <4>4, <5>2
      <4> QED BY <4>2, <4>3, <4>4
    <3>14. \A d \in new : d.test <=> \A g \in H \cup {h} : Hitting(l, r, g) /\ Fits(d, l, g) => g.test
      <4>1. ASSUME NEW d \in acc \ {e} PROVE d.test <=> \A g \in H \cup {h} : Hitting(l, r, g) /\ Fits(d, l, g) => g.test
        BY <3>7
      <4>2. e.test <=> \A g \in H : Hitting(l, r, g) /\ Fits(e, l, g) => g.test OBVIOUS
      <4>3. y.test <=> e.test /\ h.test
        <5>1. e.test \in BOOLEAN /\ x.test = h.test BY <2>2, <3>4 DEF EdgeIs
        <5> QED BY <3>5, <5>1
      <4>4. y.test <=> \A g \in H \cup {h} : Hitting(l, r, g) /\ Fits(y, l, g) => g.test
        BY <1>2, <3>1, <3>6, <4>2, <4>3
      <4> QED BY <3>3, <4>1, <4>4
    <3> QED BY <3>8, <3>9, <3>10, <3>12, <3>13, <3>14 DEF new
  <2> QED BY <2>5, <2>6
<1> QED BY <1>1, <1>2

(* The edges of a repository are counted from all the hosts it names. *)
LEMMA EdgesCounted ==
    ASSUME NEW l, NEW r, IsFiniteSet(l[r].data.consumed), \A h \in l[r].data.consumed : h.test \in BOOLEAN
    PROVE  Counted(EdgesOf(l, r), l, r, l[r].data.consumed)
<1> DEFINE all == l[r].data.consumed
           hosts == SetToSeq(all)
           n == Cardinality(all)
<1>1. n \in Nat BY FS_CardinalityType
<1>2. hosts \in [1..n -> all] /\ all = {hosts[i] : i \in 1..n}
  <2>1. PICK b : b \in Bijection(1..n, all) BY FS_CardinalityType DEF ExistsBijection
  <2>2. b \in [1..n -> all] /\ IsInjective(b) BY <2>1 DEF Bijection, Injection, Surjection, IsInjective
  <2>3. hosts \in [1..n -> all] /\ IsInjective(hosts) BY <2>2 DEF SetToSeq
  <2> HIDE DEF hosts
  <2>4. hosts \in Injection(1..n, all) BY <2>3 DEF Injection, IsInjective
  <2>5. Cardinality(1..n) = n
    <3>1. 1 \in Int /\ n \in Int BY <1>1
    <3>2. Cardinality(1..n) = IF 1 > n THEN 0 ELSE n - 1 + 1 BY <3>1, FS_Interval
    <3> HIDE DEF n
    <3> QED BY <1>1, <3>2
  <2>6. hosts \in Surjection(1..n, all) BY <2>4, <2>5, FS_Injection
  <2> QED BY <2>3, <2>6 DEF Surjection
<1>3. DOMAIN hosts = 1..n BY <1>2
<1>4. PICK f : Gathers(f, l, r, hosts, SUBSET DOMAIN hosts) /\ EdgesOf(l, r) = f[DOMAIN hosts]
  <2> DEFINE g == CHOOSE f : Gathers(f, l, r, hosts, SUBSET DOMAIN hosts)
  <2> HIDE DEF n
  <2>1. \E f : Gathers(f, l, r, hosts, SUBSET DOMAIN hosts) BY <1>1, <1>3, GathersAll
  <2>2. Gathers(g, l, r, hosts, SUBSET DOMAIN hosts) BY <2>1
  <2>3. EdgesOf(l, r) = g[DOMAIN hosts] BY EdgesGathered
  <2> QED BY <2>2, <2>3
<1> DEFINE Met(k) == {hosts[i] : i \in 1..k}
           S == {k \in Nat : Counted(f[1..k], l, r, Met(k))}
<1> HIDE DEF n, hosts
<1>5. f[1..0] = {} /\ \A k \in Nat : k < n => f[1..k + 1] = HostStep(l, r, f[1..k], hosts[k + 1])
  <2>1. Gathers(f, l, r, hosts, SUBSET DOMAIN hosts) BY <1>4
  <2> HIDE DEF all
  <2>2. InOrder(f, l, r, n, hosts) BY <1>1, <1>3, <2>1, GatheredInOrder
  <2> QED BY <2>2 DEF InOrder
<1>6. 0 \in S
  <2>1. Met(0) = {} OBVIOUS
  <2> QED BY <1>5, <2>1 DEF Counted
<1>7. ASSUME NEW k \in Nat, k < n, k \in S PROVE k + 1 \in S
  <2>1. hosts[k + 1] \in all /\ hosts[k + 1].test \in BOOLEAN
    <3>1. k + 1 \in 1..n BY <1>1, <1>7
    <3>2. hosts[k + 1] \in all BY <1>2, <3>1
    <3> QED BY <3>2
  <2>2. Met(k + 1) = Met(k) \cup {hosts[k + 1]}
    <3>1. 1..k + 1 = (1..k) \cup {k + 1} OBVIOUS
    <3> QED BY <3>1
  <2>3. Counted(HostStep(l, r, f[1..k], hosts[k + 1]), l, r, Met(k) \cup {hosts[k + 1]})
    BY <1>7, <2>1, CountedStep
  <2>4. f[1..k + 1] = HostStep(l, r, f[1..k], hosts[k + 1]) BY <1>5, <1>7
  <2>5. Counted(f[1..k + 1], l, r, Met(k + 1)) BY <2>2, <2>3, <2>4
  <2> HIDE DEF Met
  <2> QED BY <2>5
<1>8. n \in S
  <2>1. GoesOn(S, 0, n) BY <1>7 DEF GoesOn
  <2> HIDE DEF S
  <2>2. \A k \in Nat : 0 <= k /\ k <= n => k \in S BY <1>1, <1>6, <2>1, UpToIn
  <2> QED BY <1>1, <2>2
<1> QED BY <1>2, <1>3, <1>4, <1>8

-----------------------------------------------------------------------------
(* The hosts a call is derived from are those that name its target *)

HostFacts ==
    /\ DOMAIN fact = Repos
    /\ \A r \in Known("hosts") : HostsNamed(fact[r]["hosts"].data)

LEMMA ListedIs ==
    ASSUME NEW k
    PROVE  /\ DOMAIN Listed(k) = Known(k)
           /\ \A r \in Known(k) : Listed(k)[r] = fact[r][k]
BY DEF Listed, Known

LEMMA ResolveIs ==
    ASSUME CatalogAssumption, HostFacts, NEW part \in {"services", "hosts"}, NEW name
    PROVE  /\ Resolve(Listed("hosts"), part, name) = {b \in Repos : Alone(b, part, name)}
           /\ \A b, c \in Repos : Alone(b, part, name) /\ Alone(c, part, name) => b = c
<1> DEFINE o == Owners(Listed("hosts"), part, name)
<1>1. o = {b \in Repos : Declares(b, part, name)}
  <2>1. ASSUME NEW b \in Known("hosts"), name \in fact[b]["hosts"].data[part] PROVE ~IsPlaceholderHost(name)
    <3>1. HostsNamed(fact[b]["hosts"].data) BY <2>1 DEF HostFacts
    <3>2. name \in fact[b]["hosts"].data.services \union fact[b]["hosts"].data.hosts BY <2>1
    <3> QED BY <3>1, <3>2 DEF HostsNamed
  <2>2. Known("hosts") \subseteq Repos BY DEF Known
  <2> QED BY <2>1, <2>2, ListedIs DEF Owners, Declares
<1>2. IsFiniteSet(o) BY <1>1, FS_Subset DEF CatalogAssumption
<1>3. Cardinality(o) = 1 <=> \E b : o = {b} BY <1>2, FS_Singleton
<1>4. (\E b : o = {b}) => o = {b \in Repos : Alone(b, part, name)}
  <2> SUFFICES ASSUME NEW b, o = {b} PROVE o = {c \in Repos : Alone(c, part, name)} OBVIOUS
  <2>1. b \in Repos /\ \A c \in Repos : Declares(c, part, name) <=> c = b BY <1>1
  <2>2. \A c \in Repos : Alone(c, part, name) <=> c = b BY <2>1 DEF Alone
  <2> QED BY <2>1, <2>2
<1>5. (\E b \in Repos : Alone(b, part, name)) => \E b : o = {b}
  <2> SUFFICES ASSUME NEW b \in Repos, Alone(b, part, name) PROVE o = {b} OBVIOUS
  <2> QED BY <1>1 DEF Alone
<1>6. \A b, c \in Repos : Alone(b, part, name) /\ Alone(c, part, name) => b = c BY DEF Alone
<1> HIDE DEF o
<1>7. Resolve(Listed("hosts"), part, name) = IF Cardinality(o) = 1 THEN o ELSE {} BY DEF Resolve, o
<1> QED BY <1>3, <1>4, <1>5, <1>6, <1>7

LEMMA TierIs ==
    ASSUME CatalogAssumption, HostFacts, NEW h, NEW b \in Repos
    PROVE  /\ (\E m \in Match(Listed("hosts"), h) : m.target = b) <=> Tier(h, b) > 0
           /\ \A m \in Match(Listed("hosts"), h) : m.target \in Repos /\ (m.target = b => m.confidence = Tier(h, b))
<1> DEFINE label == ServiceLabel(h.host)
           service == Resolve(Listed("hosts"), "services", label)
           ingress == Resolve(Listed("hosts"), "hosts", h.host)
           Hit(o, rule, c) == {[target |-> CHOOSE x \in o : TRUE, rule |-> rule, confidence |-> c]}
           S(c) == Alone(c, "services", label)
           I(c) == Alone(c, "hosts", h.host)
<1>1. service = {c \in Repos : S(c)} /\ \A c, d \in Repos : S(c) /\ S(d) => c = d BY ResolveIs
<1>2. ingress = {c \in Repos : I(c)} /\ \A c, d \in Repos : I(c) /\ I(d) => c = d BY ResolveIs
<1>3. Match(Listed("hosts"), h) = IF service # {}
       THEN IF h.rule = "depends_on" THEN Hit(service, "depends_on", 75)
            ELSE Hit(service, "service_host", 85)
       ELSE IF h.rule # "depends_on" /\ ingress # {} THEN Hit(ingress, "ingress_host", 75)
       ELSE {}
  BY DEF Match, ConfidenceComposeTopology, ConfidenceDeclaredHost
<1>4. Tier(h, b) = IF S(b) THEN (IF h.rule = "depends_on" THEN 75 ELSE 85)
                   ELSE IF ~(\E c \in Repos : S(c)) /\ h.rule # "depends_on" /\ I(b) THEN 75 ELSE 0
  BY DEF Tier
<1> HIDE DEF service, ingress, S, I
<1>5. ASSUME NEW o, NEW rule, NEW c, o # {}, NEW m \in Hit(o, rule, c)
      PROVE  m.target \in o /\ m.confidence = c
  <2>1. m.target = (CHOOSE x \in o : TRUE) /\ m.confidence = c OBVIOUS
  <2> QED BY <1>5, <2>1
<1>6. ASSUME NEW o, NEW rule, NEW c PROVE \E m : m \in Hit(o, rule, c) OBVIOUS
<1> HIDE DEF Hit
<1>7. CASE service # {}
  <2>1. \A m \in Match(Listed("hosts"), h) : m.target \in service /\ m.confidence = IF h.rule = "depends_on" THEN 75 ELSE 85
    BY <1>3, <1>5, <1>7
  <2>2. \E m : m \in Match(Listed("hosts"), h) BY <1>3, <1>6, <1>7
  <2>3. (\E c \in Repos : S(c)) /\ (Tier(h, b) > 0 <=> S(b)) /\ (S(b) => Tier(h, b) = IF h.rule = "depends_on" THEN 75 ELSE 85)
    BY <1>1, <1>4, <1>7
  <2>4. \A m \in Match(Listed("hosts"), h) : m.target \in Repos /\ S(m.target) BY <1>1, <2>1
  <2>5. \A m \in Match(Listed("hosts"), h) : m.target = b <=> S(b) BY <1>1, <2>4
  <2> QED BY <2>1, <2>2, <2>3, <2>4, <2>5
<1>8. CASE service = {} /\ h.rule # "depends_on" /\ ingress # {}
  <2>1. \A m \in Match(Listed("hosts"), h) : m.target \in ingress /\ m.confidence = 75 BY <1>3, <1>5, <1>8
  <2>2. \E m : m \in Match(Listed("hosts"), h) BY <1>3, <1>6, <1>8
  <2>3. ~(\E c \in Repos : S(c)) BY <1>1, <1>8
  <2>4. (Tier(h, b) > 0 <=> I(b)) /\ (I(b) => Tier(h, b) = 75) BY <1>4, <1>8, <2>3
  <2>5. \A m \in Match(Listed("hosts"), h) : m.target \in Repos /\ I(m.target) BY <1>2, <2>1
  <2>6. \A m \in Match(Listed("hosts"), h) : m.target = b <=> I(b) BY <1>2, <2>5
  <2> QED BY <2>1, <2>2, <2>4, <2>5, <2>6
<1>9. CASE service = {} /\ ~(h.rule # "depends_on" /\ ingress # {})
  <2>1. Match(Listed("hosts"), h) = {} BY <1>3, <1>9
  <2>2. ~(\E c \in Repos : S(c)) BY <1>1, <1>9
  <2>3. Tier(h, b) = 0 BY <1>2, <1>4, <1>9, <2>2
  <2> QED BY <2>1, <2>3
<1> QED BY <1>7, <1>8, <1>9

LEMMA HitIs ==
    ASSUME CatalogAssumption, HostFacts, NEW r \in Known("hosts"), NEW h, NEW b \in Repos, b # r
    PROVE  /\ Hitting(Listed("hosts"), r, h) /\ MatchOf(Listed("hosts"), h).target = b <=> Tier(h, b) > 0
           /\ Tier(h, b) > 0 => MatchOf(Listed("hosts"), h).confidence = Tier(h, b)
<1> DEFINE M == Match(Listed("hosts"), h)
           m == MatchOf(Listed("hosts"), h)
<1>1. M # {} => M = {m} BY MatchIs
<1>2. /\ (\E n \in M : n.target = b) <=> Tier(h, b) > 0
      /\ \A n \in M : n.target = b => n.confidence = Tier(h, b)
  BY TierIs
<1>3. Hitting(Listed("hosts"), r, h) <=> \E n \in M : n.target # r BY DEF Hitting
<1> HIDE DEF M, m
<1> QED BY <1>1, <1>2, <1>3 DEF m

\* The call an edge stands for.
CallIs(e) == [source |-> e.source, target |-> e.target, kind |-> e.kind]
Says(e) ==
    /\ \A h \in Hits(CallIs(e)) : e.confidence >= Tier(h, e.target)
    /\ \E h \in Hits(CallIs(e)) : e.confidence = Tier(h, e.target)
    /\ e.test <=> \A h \in Hits(CallIs(e)) : h.test

LEMMA CountedCalls ==
    ASSUME CatalogAssumption, HostFacts, NEW r \in Known("hosts")
    PROVE  /\ \A e \in EdgesOf(Listed("hosts"), r) : CallIs(e) \in Calls /\ Says(e)
           /\ \A c \in Calls : c.source = r => \E e \in EdgesOf(Listed("hosts"), r) : CallIs(e) = c
<1> DEFINE L == Listed("hosts")
           H == fact[r]["hosts"].data.consumed
           E == EdgesOf(L, r)
<1>1. r \in Repos /\ L[r].data.consumed = H BY ListedIs DEF Known
<1>2. Counted(E, L, r, H)
  <2>1. HostsNamed(fact[r]["hosts"].data) BY DEF HostFacts
  <2>2. IsFiniteSet(H) /\ \A h \in H : h.test \in BOOLEAN BY <2>1 DEF HostsNamed
  <2> QED BY <1>1, <2>2, EdgesCounted
<1>3. \A h \in H : KindOf(h) \in {"http", "async"} BY DEF KindOf
<1> HIDE DEF L, H, E
<1>4. \A h \in H, b \in Repos : b # r =>
          /\ Hitting(L, r, h) /\ MatchOf(L, h).target = b <=> Tier(h, b) > 0
          /\ Tier(h, b) > 0 => MatchOf(L, h).confidence = Tier(h, b)
  BY HitIs DEF L
<1>5. \A h \in H : Hitting(L, r, h) => MatchOf(L, h).target \in Repos /\ MatchOf(L, h).target # r
  <2> SUFFICES ASSUME NEW h \in H, Hitting(L, r, h) PROVE MatchOf(L, h).target \in Repos /\ MatchOf(L, h).target # r
    OBVIOUS
  <2>1. Match(L, h) = {MatchOf(L, h)} BY MatchIs DEF Hitting
  <2>2. MatchOf(L, h).target # r BY <2>1 DEF Hitting
  <2>3. r \in Repos /\ \A m \in Match(L, h) : m.target \in Repos BY <1>1, TierIs DEF L
  <2> QED BY <2>1, <2>2, <2>3
<1>6. ASSUME NEW c, c.source = r
      PROVE  Hits(c) = {h \in H : KindOf(h) = c.kind /\ Tier(h, c.target) > 0}
  BY <1>6 DEF Hits, H
<1>7. ASSUME NEW e \in E PROVE CallIs(e) \in Calls /\ Says(e)
  <2>1. EdgeIs(e, r) BY <1>2 DEF Counted
  <2>2. PICK h \in H : Hitting(L, r, h) /\ Fits(e, L, h) /\ e.confidence = MatchOf(L, h).confidence
    BY <1>2 DEF Counted
  <2>3. e.target \in Repos /\ e.target # r /\ e.kind = KindOf(h) BY <1>5, <2>2 DEF Fits
  <2>4. Tier(h, e.target) > 0 /\ e.confidence = Tier(h, e.target) BY <1>4, <2>2, <2>3 DEF Fits
  <2> DEFINE c == CallIs(e)
  <2>5. c.source = r /\ c.target = e.target /\ c.kind = e.kind /\ e.source = r BY <2>1 DEF CallIs, EdgeIs
  <2>6. c \in [source : Known("hosts"), target : Repos, kind : {"http", "async"}]
    BY <1>3, <2>3, <2>5 DEF CallIs
  <2> HIDE DEF c
  <2>7. Hits(c) = {g \in H : KindOf(g) = e.kind /\ Tier(g, e.target) > 0} BY <1>6, <2>5
  <2>8. c \in Calls BY <2>2, <2>3, <2>4, <2>5, <2>6 DEF Calls, H
  <2>9. Hits(c) = {g \in H : Hitting(L, r, g) /\ Fits(e, L, g)}
    BY <1>4, <2>3, <2>7 DEF Fits
  <2>10. \A g \in Hits(c) : e.confidence >= Tier(g, e.target)
    <3> SUFFICES ASSUME NEW g \in Hits(c) PROVE e.confidence >= Tier(g, e.target) OBVIOUS
    <3>1. g \in H /\ Hitting(L, r, g) /\ Fits(e, L, g) BY <2>9
    <3>2. e.confidence >= MatchOf(L, g).confidence BY <1>2, <3>1 DEF Counted
    <3>3. Tier(g, e.target) > 0 BY <2>7
    <3> QED BY <1>4, <2>3, <3>1, <3>2, <3>3
  <2>11. h \in Hits(c) BY <2>3, <2>4, <2>7
  <2>12. e.test <=> \A g \in Hits(c) : g.test BY <1>2, <2>9 DEF Counted
  <2> QED BY <2>4, <2>8, <2>10, <2>11, <2>12 DEF Says, c
<1>8. ASSUME NEW c \in Calls, c.source = r PROVE \E e \in E : CallIs(e) = c
  <2>1. /\ c \in [source : Known("hosts"), target : Repos, kind : {"http", "async"}] /\ c.source # c.target
        /\ \E h \in fact[c.source]["hosts"].data.consumed : KindOf(h) = c.kind /\ Tier(h, c.target) > 0
    BY DEF Calls
  <2>2. PICK h \in H : KindOf(h) = c.kind /\ Tier(h, c.target) > 0 BY <1>8, <2>1 DEF H
  <2>3. Hitting(L, r, h) /\ MatchOf(L, h).target = c.target BY <1>4, <1>8, <2>1, <2>2
  <2>4. PICK e \in E : Fits(e, L, h) BY <1>2, <2>3 DEF Counted
  <2>5. e.source = r /\ e.target = c.target /\ e.kind = c.kind BY <1>2, <2>2, <2>3, <2>4 DEF Counted, EdgeIs, Fits
  <2>6. CallIs(e) = c BY <1>8, <2>1, <2>5 DEF CallIs
  <2> QED BY <2>6
<1> QED BY <1>7, <1>8 DEF E, L

LEMMA DerivedAre ==
    ASSUME CatalogAssumption, HostFacts
    PROVE  /\ \A e \in DeriveConsume(Listed("hosts")) : CallIs(e) \in Calls /\ Says(e)
           /\ \A c \in Calls : \E e \in DeriveConsume(Listed("hosts")) : CallIs(e) = c
<1>1. \A c \in Calls : c.source \in Known("hosts") BY DEF Calls
<1> QED BY <1>1, CountedCalls, DeriveIs, ListedIs

-----------------------------------------------------------------------------
(* Tables *)

RowFields == {"id", "data", "live", "fresh"}
RowsOK(T) ==
    /\ \A x \in T : DOMAIN x = RowFields /\ x.live \in BOOLEAN /\ x.fresh \in BOOLEAN
    /\ \A x, y \in T : x.id = y.id => x = y
FreshLive(T) == \A x \in T : x.fresh => x.live
Killed(T, K) == {IF x \in K THEN [x EXCEPT !.live = FALSE] ELSE x : x \in T}

LEMMA StaleIs ==
    ASSUME NEW T, RowsOK(T)
    PROVE  /\ RowsOK(Stale(T)) /\ LiveIds(Stale(T)) = LiveIds(T) /\ Retired(T, Stale(T)) = {}
           /\ \A y \in Stale(T) : ~y.fresh /\ \E x \in T : x.id = y.id /\ x.live = y.live
<1> DEFINE S(x) == [x EXCEPT !.fresh = FALSE]
<1>1. \A x \in T : /\ DOMAIN S(x) = RowFields /\ S(x).id = x.id /\ S(x).live = x.live /\ S(x).data = x.data
                   /\ S(x).fresh = FALSE
  BY DEF RowsOK, RowFields
<1>2. \A y \in Stale(T) : \E x \in T : y = S(x) BY DEF Stale
<1>3. \A x \in T : S(x) \in Stale(T) BY DEF Stale
<1> HIDE DEF S
<1>4. RowsOK(Stale(T))
  <2>1. \A y \in Stale(T) : DOMAIN y = RowFields /\ y.live \in BOOLEAN /\ y.fresh \in BOOLEAN BY <1>1, <1>2, ZenonT(60) DEF RowsOK
  <2>2. \A y, z \in Stale(T) : y.id = z.id => y = z
    <3> SUFFICES ASSUME NEW y \in Stale(T), NEW z \in Stale(T), y.id = z.id PROVE y = z OBVIOUS
    <3>1. PICK v \in T : y = S(v) BY <1>2
    <3>2. PICK w \in T : z = S(w) BY <1>2
    <3> QED BY <1>1, <3>1, <3>2 DEF RowsOK
  <2> QED BY <2>1, <2>2 DEF RowsOK
<1>5. LiveIds(Stale(T)) = LiveIds(T)
  <2>1. \A i : i \in LiveIds(Stale(T)) => i \in LiveIds(T) BY <1>1, <1>2 DEF LiveIds, Live
  <2>2. \A i : i \in LiveIds(T) => i \in LiveIds(Stale(T)) BY <1>1, <1>3 DEF LiveIds, Live
  <2> QED BY <2>1, <2>2
<1>6. Retired(T, Stale(T)) = {}
  <2> SUFFICES ASSUME NEW x \in Live(T), NEW y \in Stale(T), y.id = x.id, ~y.live PROVE FALSE BY DEF Retired
  <2>1. PICK w \in T : y = S(w) BY <1>2
  <2> QED BY <1>1, <2>1 DEF RowsOK, Live
<1> QED BY <1>1, <1>2, <1>4, <1>5, <1>6

LEMMA UpsertIs ==
    ASSUME NEW T, RowsOK(T), NEW id, NEW data
    PROVE  /\ RowsOK(Upserted(T, id, data)) /\ LiveIds(Upserted(T, id, data)) = LiveIds(T) \cup {id}
           /\ Retired(T, Upserted(T, id, data)) = {}
           /\ \E y \in Upserted(T, id, data) : y.id = id /\ y.data = data /\ y.live /\ y.fresh
           /\ \A y \in Upserted(T, id, data) : (y.id = id /\ y.live /\ y.fresh) \/ (y \in T /\ y.id # id)
           /\ \A x \in T : x.id # id => x \in Upserted(T, id, data)
<1>1. PICK row : row = Row(id, data) OBVIOUS
<1>2. DOMAIN row = RowFields /\ row.id = id /\ row.data = data /\ row.live = TRUE /\ row.fresh = TRUE
  BY <1>1 DEF Row, RowFields
<1>3. Upserted(T, id, data) = {x \in T : x.id # id} \cup {row} BY <1>1 DEF Upserted
<1>4. RowsOK(Upserted(T, id, data)) BY <1>2, <1>3 DEF RowsOK
<1>5. LiveIds(Upserted(T, id, data)) = LiveIds(T) \cup {id} BY <1>2, <1>3 DEF LiveIds, Live
<1>6. Retired(T, Upserted(T, id, data)) = {}
  <2> SUFFICES ASSUME NEW x \in Live(T), NEW y \in Upserted(T, id, data), y.id = x.id, ~y.live PROVE FALSE
    BY DEF Retired
  <2> QED BY <1>2, <1>3 DEF RowsOK, Live
<1>7. row \in Upserted(T, id, data) BY <1>3
<1>8. \A y \in Upserted(T, id, data) : (y.id = id /\ y.live /\ y.fresh) \/ (y \in T /\ y.id # id)
  <2>1. \A y \in Upserted(T, id, data) : y = row \/ (y \in T /\ y.id # id) BY <1>3
  <2> QED BY <1>2, <2>1
<1> QED BY <1>2, <1>3, <1>4, <1>5, <1>6, <1>7, <1>8

LEMMA KilledIs ==
    ASSUME NEW T, RowsOK(T), NEW K \in SUBSET T
    PROVE  /\ RowsOK(Killed(T, K)) /\ LiveIds(Killed(T, K)) = {x.id : x \in Live(T) \ K}
           /\ Retired(T, Killed(T, K)) = Live(T) \cap K
           /\ \A y \in Killed(T, K) :
                 \/ y \in T /\ y \notin K
                 \/ ~y.live /\ \E x \in K : x.id = y.id /\ x.fresh = y.fresh /\ x.data = y.data
           /\ \A x \in T \ K : x \in Killed(T, K)
<1> DEFINE S(x) == [x EXCEPT !.live = FALSE]
<1>1. \A x \in T : /\ DOMAIN S(x) = RowFields /\ S(x).id = x.id /\ S(x).fresh = x.fresh /\ S(x).data = x.data
                   /\ S(x).live = FALSE
  BY DEF RowsOK, RowFields
<1>2. \A y \in Killed(T, K) : y \in T \ K \/ \E x \in K : y = S(x) BY DEF Killed
<1>3. (\A x \in K : S(x) \in Killed(T, K)) /\ (\A x \in T \ K : x \in Killed(T, K)) BY DEF Killed
<1> HIDE DEF S
<1>4. RowsOK(Killed(T, K))
  <2>1. ASSUME NEW y \in Killed(T, K) PROVE DOMAIN y = RowFields /\ y.live \in BOOLEAN /\ y.fresh \in BOOLEAN
    <3>1. CASE y \in T \ K BY <3>1 DEF RowsOK
    <3>2. ASSUME NEW x \in K, y = S(x) PROVE DOMAIN y = RowFields /\ y.live \in BOOLEAN /\ y.fresh \in BOOLEAN
      <4>1. x \in T /\ x.fresh \in BOOLEAN BY DEF RowsOK
      <4>2. DOMAIN y = RowFields /\ y.fresh = x.fresh /\ y.live = FALSE BY <1>1, <3>2, <4>1
      <4> QED BY <4>1, <4>2
    <3> QED BY <1>2, <3>1, <3>2
  <2>2. \A y \in Killed(T, K) : \E x \in T : y.id = x.id /\ y = IF x \in K THEN S(x) ELSE x BY <1>1, <1>2
  <2>3. \A y, z \in Killed(T, K) : y.id = z.id => y = z
    <3> SUFFICES ASSUME NEW y \in Killed(T, K), NEW z \in Killed(T, K), y.id = z.id PROVE y = z OBVIOUS
    <3>1. PICK v \in T : y.id = v.id /\ y = IF v \in K THEN S(v) ELSE v BY <2>2
    <3>2. PICK w \in T : z.id = w.id /\ z = IF w \in K THEN S(w) ELSE w BY <2>2
    <3>3. v = w BY <3>1, <3>2 DEF RowsOK
    <3> QED BY <3>1, <3>2, <3>3
  <2> QED BY <2>1, <2>3 DEF RowsOK
<1>5. LiveIds(Killed(T, K)) = {x.id : x \in Live(T) \ K}
  <2>1. \A i : i \in LiveIds(Killed(T, K)) => i \in {x.id : x \in Live(T) \ K} BY <1>1, <1>2 DEF LiveIds, Live
  <2>2. \A i : i \in {x.id : x \in Live(T) \ K} => i \in LiveIds(Killed(T, K)) BY <1>3 DEF LiveIds, Live
  <2> QED BY <2>1, <2>2
<1>6. Retired(T, Killed(T, K)) = Live(T) \cap K
  <2>1. ASSUME NEW x \in Live(T), NEW y \in Killed(T, K), y.id = x.id, ~y.live PROVE x \in K
    <3>1. CASE y \in T \ K BY <2>1, <3>1 DEF RowsOK, Live
    <3>2. CASE \E w \in K : y = S(w) BY <1>1, <2>1, <3>2 DEF RowsOK, Live
    <3> QED BY <1>2, <3>1, <3>2
  <2>2. ASSUME NEW x \in Live(T) \cap K PROVE \E y \in Killed(T, K) : y.id = x.id /\ ~y.live
    BY <1>1, <1>3
  <2> QED BY <2>1, <2>2 DEF Retired
<1>7. ASSUME NEW y \in Killed(T, K)
      PROVE  \/ y \in T /\ y \notin K
             \/ ~y.live /\ \E x \in K : x.id = y.id /\ x.fresh = y.fresh /\ x.data = y.data
  <2>1. CASE y \in T \ K BY <2>1
  <2>2. ASSUME NEW x \in K, y = S(x) PROVE ~y.live /\ x.id = y.id /\ x.fresh = y.fresh /\ x.data = y.data
    <3>1. x \in T OBVIOUS
    <3> QED BY <1>1, <2>2, <3>1
  <2> QED BY <1>2, <2>1, <2>2
<1> QED BY <1>3, <1>4, <1>5, <1>6, <1>7

-----------------------------------------------------------------------------
(* The rows of a run, one repository after another *)

Mine(T, r) == {i \in LiveIds(T) : i[1] = r}
Holds(T, r, names, whole) ==
    /\ names[r] \subseteq Mine(T, r)
    /\ r \in whole => Mine(T, r) = names[r]
InWork(T, left, cur, pending, names, whole, done) ==
    /\ \A x \in T : x.fresh /\ x.id[1] \in left => x.id[1] = cur /\ x.id \in names[cur]
    /\ left # {} => \A i \in names[cur] : i \in pending \/ \E x \in T : x.id = i /\ x.fresh
    /\ \A r \in done : Holds(T, r, names, whole)
OwnNames(names) == \A r \in DOMAIN names : \A i \in names[r] : i[1] = r

LEMMA WorkUpserts ==
    ASSUME NEW T, RowsOK(T), NEW left, NEW cur \in left, NEW pending, NEW names, NEW whole, NEW done, cur \notin done,
           InWork(T, left, cur, pending, names, whole, done), cur \in DOMAIN names, OwnNames(names),
           NEW id \in names[cur], NEW data, NEW rest, pending \ {id} \subseteq rest
    PROVE  InWork(Upserted(T, id, data), left, cur, rest, names, whole, done)
<1> DEFINE U == Upserted(T, id, data)
<1>1. /\ LiveIds(U) = LiveIds(T) \cup {id}
      /\ \E y \in U : y.id = id /\ y.fresh
      /\ \A y \in U : (y.id = id /\ y.live /\ y.fresh) \/ (y \in T /\ y.id # id)
      /\ \A x \in T : x.id # id => x \in U
  BY UpsertIs
<1> HIDE DEF U
<1>2. id[1] = cur BY DEF OwnNames
<1>3. \A x \in U : x.fresh /\ x.id[1] \in left => x.id[1] = cur /\ x.id \in names[cur] BY <1>1, <1>2 DEF InWork
<1>4. \A i \in names[cur] : i \in rest \/ \E x \in U : x.id = i /\ x.fresh BY <1>1 DEF InWork
<1>5. \A r \in done : Mine(U, r) = Mine(T, r) BY <1>1, <1>2 DEF Mine
<1>6. \A r \in done : Holds(U, r, names, whole) BY <1>5 DEF InWork, Holds
<1> QED BY <1>3, <1>4, <1>6 DEF InWork, U

\* What is pending when the next repository begins.
Starts(left, next, names, pending) == left # {} => names[next] \subseteq pending

\* A sweep of the rows the repository no longer names, if it may.
SweptOf(T, cur, whole) == IF cur \in whole THEN Killed(T, {x \in T : x.id[1] = cur /\ ~x.fresh}) ELSE T

LEMMA WorkSweeps ==
    ASSUME NEW T, RowsOK(T), FreshLive(T), NEW left, NEW cur \in left, NEW names, NEW whole, NEW done,
           InWork(T, left, cur, {}, names, whole, done), cur \in DOMAIN names, OwnNames(names), cur \notin done,
           NEW next, NEW pending, Starts(left \ {cur}, next, names, pending)
    PROVE  /\ RowsOK(SweptOf(T, cur, whole)) /\ FreshLive(SweptOf(T, cur, whole))
           /\ LiveIds(SweptOf(T, cur, whole)) \subseteq LiveIds(T)
           /\ \A y \in SweptOf(T, cur, whole) : \E x \in T : y.id = x.id
           /\ InWork(SweptOf(T, cur, whole), left \ {cur}, next, pending, names, whole, done \cup {cur})
           /\ \A x \in Retired(T, SweptOf(T, cur, whole)) : x.id[1] = cur /\ cur \in whole /\ x.id \notin names[cur]
<1> DEFINE K == IF cur \in whole THEN {x \in T : x.id[1] = cur /\ ~x.fresh} ELSE {}
           U == Killed(T, K)
<1>1. U = SweptOf(T, cur, whole)
  <2>1. Killed(T, {}) = T BY DEF Killed
  <2> QED BY <2>1 DEF SweptOf
<1>2. K \in SUBSET T /\ \A x \in K : x.id[1] = cur /\ ~x.fresh /\ cur \in whole OBVIOUS
<1>3. cur \in whole => \A x \in T : x \in K <=> x.id[1] = cur /\ ~x.fresh OBVIOUS
<1> HIDE DEF K, U
<1>4. /\ RowsOK(U) /\ LiveIds(U) = {x.id : x \in Live(T) \ K} /\ Retired(T, U) = Live(T) \cap K
      /\ \A y \in U :
            \/ y \in T /\ y \notin K
            \/ ~y.live /\ \E x \in K : x.id = y.id /\ x.fresh = y.fresh /\ x.data = y.data
      /\ \A x \in T \ K : x \in U
  BY <1>2, KilledIs DEF U
<1>5. \A y \in U : y.fresh => y \in T BY <1>2, <1>4
<1>6. FreshLive(U) BY <1>2, <1>4, <1>5 DEF FreshLive
<1>7. \A y \in U : \E x \in T : y.id = x.id BY <1>2, <1>4
<1>8. \A i \in names[cur] : i[1] = cur /\ \E x \in Live(T) \ K : x.id = i
  <2> SUFFICES ASSUME NEW i \in names[cur] PROVE i[1] = cur /\ \E x \in Live(T) \ K : x.id = i OBVIOUS
  <2>1. PICK x \in T : x.id = i /\ x.fresh BY DEF InWork
  <2>2. x.live BY <2>1 DEF FreshLive
  <2> QED BY <1>2, <2>1, <2>2 DEF OwnNames, Live
<1>9. \A x \in U : x.fresh /\ x.id[1] \in left \ {cur} => FALSE BY <1>5 DEF InWork
<1>10. \A r \in done : Holds(U, r, names, whole)
  <2> SUFFICES ASSUME NEW r \in done PROVE Holds(U, r, names, whole) OBVIOUS
  <2>1. r # cur OBVIOUS
  <2>2. \A x \in Live(T) : x.id[1] = r => x \notin K BY <1>2, <2>1
  <2>3. LiveIds(T) = {x.id : x \in Live(T)} BY DEF LiveIds
  <2>4. \A i : i \in LiveIds(U) /\ i[1] = r => i \in LiveIds(T) BY <1>4, <2>3
  <2>5. \A i : i \in LiveIds(T) /\ i[1] = r => i \in LiveIds(U) BY <1>4, <2>2, <2>3
  <2>6. Mine(U, r) = Mine(T, r) BY <2>4, <2>5 DEF Mine
  <2> QED BY <2>6 DEF InWork, Holds
<1>11. Holds(U, cur, names, whole)
  <2>1. names[cur] \subseteq Mine(U, cur) BY <1>4, <1>8 DEF Mine
  <2>2. cur \in whole => Mine(U, cur) \subseteq names[cur] BY <1>3, <1>4 DEF Mine, Live, InWork
  <2> QED BY <2>1, <2>2 DEF Holds
<1>12. InWork(U, left \ {cur}, next, pending, names, whole, done \cup {cur}) BY <1>9, <1>10, <1>11 DEF InWork, Starts
<1>13. ASSUME NEW x \in Retired(T, U) PROVE x.id[1] = cur /\ cur \in whole /\ x.id \notin names[cur]
  <2>1. x \in T /\ x \in K BY <1>4 DEF Live
  <2>2. x.id \in names[cur] => FALSE
    <3> SUFFICES ASSUME x.id \in names[cur] PROVE FALSE OBVIOUS
    <3>1. PICK y \in Live(T) \ K : y.id = x.id BY <1>8
    <3> QED BY <2>1, <3>1 DEF RowsOK, Live
  <2> QED BY <1>2, <2>1, <2>2
<1>14. LiveIds(U) \subseteq LiveIds(T) BY <1>4 DEF LiveIds
<1> QED BY <1>1, <1>4, <1>6, <1>7, <1>12, <1>13, <1>14

LEMMA WorkSkips ==
    ASSUME NEW T, NEW left, NEW cur \in left, NEW some, NEW names, NEW whole, NEW done,
           InWork(T, left, cur, some, names, whole, done),
           NEW next, NEW pending, left \ {cur} # {} => names[next] \subseteq pending
    PROVE  InWork(T, left \ {cur}, next, pending, names, whole, done)
BY DEF InWork

LEMMA WorkBegins ==
    ASSUME NEW T, \A x \in T : ~x.fresh, NEW left, NEW cur, NEW names, NEW whole,
           NEW pending, left # {} => names[cur] \subseteq pending
    PROVE  InWork(T, left, cur, pending, names, whole, {})
BY DEF InWork

-----------------------------------------------------------------------------
(* The inductive invariant *)

RunFields == {"at", "listed", "left", "items", "swept", "failed", "clean"}
KindNames == {"packages", "apis", "resources", "hosts"}
Hows == {"ok", "absent", "failed"}

SyncIs(s) ==
    \E r \in Repos : \E t \in DOMAIN Trees[r] : \E truncated \in BOOLEAN, bad \in PathsOf(r, t) \union {None},
       how \in Hows, step \in DOMAIN Kinds :
          s = [repo |-> r, step |-> step, tree |-> t, truncated |-> truncated, bad |-> bad, how |-> how]

FactsOK ==
    /\ DOMAIN fact = Repos /\ \A r \in Repos : DOMAIN fact[r] = KindNames
    /\ \A r \in Known("resources") : ResourcesNamed(fact[r]["resources"].data)
    /\ \A r \in Known("hosts") : HostsNamed(fact[r]["hosts"].data)
    /\ sync = NoSync \/ SyncIs(sync)

RunOK ==
    /\ DOMAIN run = RunFields /\ run.at \in {"idle", "apis", "resources", "hosts"}
    /\ run.clean \in BOOLEAN /\ run.swept \in BOOLEAN
    /\ run.clean => run.failed = {}
    /\ run.at = "hosts" => run.left = {}
    /\ run.listed # <<>> =>
        /\ run.listed.kind = run.at /\ run.at # "idle"
        /\ DOMAIN run.listed.of \subseteq Known(run.at) /\ run.left \subseteq DOMAIN run.listed.of
        /\ run.clean => run.listed.of = Listed(run.at)
        /\ run.at = "resources" => \A r \in DOMAIN run.listed.of : ResourcesNamed(run.listed.of[r].data)

TablesOK == RowsOK(apis) /\ RowsOK(resources) /\ RowsOK(links) /\ RowsOK(edges)

APINames(l) == [r \in DOMAIN l |-> {<<r, s.path>> : s \in l[r].data}]
LinkNames(l) == [r \in DOMAIN l |-> {LinkId(r, x.finding) : x \in l[r].data.resources}]
WholeOf(l) == {r \in DOMAIN l : l[r].complete}
NoneFresh(T) == \A x \in T : ~x.fresh

\* The contracts of a run that listed the facts l, and met an error at those that failed.
APIsWork(T, l, left, cur, items, failed) ==
    /\ left # {} => items \subseteq l[cur].data
    /\ InWork(T, left, cur, {<<cur, s.path>> : s \in items}, APINames(l), WholeOf(l), DOMAIN l \ (left \union failed))

FollowsAPIs == \A r \in Known("apis") : Holds(apis, r, APINames(Listed("apis")), WholeOf(Listed("apis")))
ApisOK ==
    /\ FreshLive(apis)
    /\ run.at = "apis" /\ run.listed = <<>> => NoneFresh(apis)
    /\ run.at = "apis" /\ run.listed # <<>> =>
        APIsWork(apis, run.listed.of, run.left, Current, run.items, run.failed)
    /\ run.at \in {"resources", "hosts"} /\ run.clean => FollowsAPIs

LinkShape(i) == i[2][1] \in {i[1], "shared"} /\ (i[2][1] = "shared" => i[5] # <<>>)
LinksSound ==
    /\ \A l \in links : LinkShape(l.id)
    /\ \A i \in LiveIds(links) : i[2] \in LiveIds(resources)

FindingOf(i, f) ==
    /\ DOMAIN i = {"what", "found"} /\ i.what \in {"resource", "link"}
    /\ \E x \in f.data.resources : i.found = x.finding
LinksWork(T, ids, l, left, cur, items, failed) ==
    /\ left # {} => \A i \in items : /\ FindingOf(i, l[cur])
                                     /\ i.what = "link" => ResourceId(cur, i.found) \in ids
    /\ InWork(T, left, cur, {LinkId(cur, i.found) : i \in items}, LinkNames(l), WholeOf(l), DOMAIN l \ (left \union failed))
FollowsLinks ==
    /\ \A r \in Known("resources") : Holds(links, r, LinkNames(Listed("resources")), WholeOf(Listed("resources")))
    /\ WholeOf(Listed("resources")) # {} => LiveIds(resources) = {x[2] : x \in LiveIds(links)}
LinksOK ==
    /\ FreshLive(links)
    /\ run.at = "apis" \/ (run.at = "resources" /\ run.listed = <<>>) => NoneFresh(links)
    /\ run.at = "resources" /\ run.listed # <<>> =>
        /\ LinksWork(links, LiveIds(resources), run.listed.of, run.left, Current, run.items, run.failed)
        /\ run.clean /\ ~run.swept => WholeOf(run.listed.of) \subseteq run.left
    /\ run.at = "hosts" /\ run.clean => FollowsLinks

EdgeData(e) == [confidence |-> e.confidence, test |-> e.test]
EdgesWork(T, items, D) ==
    /\ items \subseteq D
    /\ \A x \in T : x.fresh => \E e \in D : x.id = EdgeId(e) /\ x.data = EdgeData(e)
    /\ \A e \in D : e \in items \/ \E x \in T : x.fresh /\ x.id = EdgeId(e)
Tabulated(l) == l = [r \in DOMAIN l |-> l[r]]
EdgesOK ==
    /\ FreshLive(edges)
    /\ run.at \in {"apis", "resources"} \/ (run.at = "hosts" /\ run.listed = <<>>) => NoneFresh(edges)
    /\ run.at = "hosts" /\ run.listed # <<>> =>
        EdgesWork(edges, run.items, DeriveConsume(run.listed.of)) /\ Tabulated(run.listed.of)

FollowsCalls ==
    /\ Calls \subseteq {CallOf(e) : e \in Live(edges)}
    /\ (\A r \in Known("hosts") : fact[r]["hosts"].complete) =>
           /\ Calls = {CallOf(e) : e \in Live(edges)}
           /\ \A e \in Live(edges) : SaysWhatIsNamed(e)
SettledOK == settled => run.at = "idle" /\ FollowsAPIs /\ FollowsLinks /\ FollowsCalls

IInv == FactsOK /\ RunOK /\ TablesOK /\ ApisOK /\ LinksSound /\ LinksOK /\ EdgesOK /\ SettledOK

-----------------------------------------------------------------------------
(* What the steps make of the run *)

ChosenOf(S) == CHOOSE r \in S : TRUE

LEMMA ChosenIs ==
           /\ Current = ChosenOf(run.left) /\ Current' = ChosenOf(run'.left) /\ Item = ChosenOf(run.items)
           /\ run.left # {} => Current \in run.left
           /\ run.items # {} => Item \in run.items
<1>1. \A S : S # {} => ChosenOf(S) \in S BY DEF ChosenOf
<1>2. Current = ChosenOf(run.left) /\ Current' = ChosenOf(run'.left) /\ Item = ChosenOf(run.items)
  BY DEF Current, Item, ChosenOf
<1> QED BY <1>1, <1>2

LEMMA NextRepoIs ==
    ASSUME RunOK
    PROVE  /\ DOMAIN NextRepo(SpecsOf) = RunFields /\ NextRepo(SpecsOf).at = run.at
           /\ NextRepo(SpecsOf).listed = run.listed /\ NextRepo(SpecsOf).left = run.left \ {Current}
           /\ NextRepo(SpecsOf).swept = run.swept /\ NextRepo(SpecsOf).failed = run.failed
           /\ NextRepo(SpecsOf).clean = run.clean
           /\ NextRepo(SpecsOf).left # {} =>
                  NextRepo(SpecsOf).items = SpecsOf(run.listed.of[ChosenOf(run.left \ {Current})])
           /\ DOMAIN NextRepo(FindingsOf) = RunFields /\ NextRepo(FindingsOf).at = run.at
           /\ NextRepo(FindingsOf).listed = run.listed /\ NextRepo(FindingsOf).left = run.left \ {Current}
           /\ NextRepo(FindingsOf).swept = run.swept /\ NextRepo(FindingsOf).failed = run.failed
           /\ NextRepo(FindingsOf).clean = run.clean
           /\ NextRepo(FindingsOf).left # {} =>
                  NextRepo(FindingsOf).items = FindingsOf(run.listed.of[ChosenOf(run.left \ {Current})])
<1>1. DOMAIN run = RunFields BY DEF RunOK
<1>2. PICK left, next : left = run.left \ {Current} /\ next = ChosenOf(left) OBVIOUS
<1>3. PICK specs, findings : /\ specs = IF left = {} THEN {} ELSE SpecsOf(run.listed.of[next])
                             /\ findings = IF left = {} THEN {} ELSE FindingsOf(run.listed.of[next])
  OBVIOUS
<1>4. /\ NextRepo(SpecsOf) = [run EXCEPT !.left = left, !.items = specs]
      /\ NextRepo(FindingsOf) = [run EXCEPT !.left = left, !.items = findings]
  BY <1>2, <1>3 DEF NextRepo, ChosenOf
<1>6. PICK a, b : a = NextRepo(SpecsOf) /\ b = NextRepo(FindingsOf) OBVIOUS
<1>7. /\ DOMAIN a = RunFields /\ a.at = run.at /\ a.listed = run.listed /\ a.left = left /\ a.items = specs
      /\ a.swept = run.swept /\ a.failed = run.failed /\ a.clean = run.clean
  <2>1. a = [run EXCEPT !.left = left, !.items = specs] BY <1>4, <1>6
  <2> QED BY <1>1, <2>1 DEF RunFields
<1>8. /\ DOMAIN b = RunFields /\ b.at = run.at /\ b.listed = run.listed /\ b.left = left /\ b.items = findings
      /\ b.swept = run.swept /\ b.failed = run.failed /\ b.clean = run.clean
  <2>1. b = [run EXCEPT !.left = left, !.items = findings] BY <1>4, <1>6
  <2> QED BY <1>1, <2>1 DEF RunFields
<1> QED BY <1>2, <1>3, <1>6, <1>7, <1>8

\* The fields of the run after a step, its items apart.
RunTo(at, listed, left, swept, failed, clean) ==
    /\ DOMAIN run' = RunFields
    /\ run'.at = at /\ run'.listed = listed /\ run'.left = left /\ run'.swept = swept
    /\ run'.failed = failed /\ run'.clean = clean

LEMMA NoRunIs == DOMAIN NoRun = RunFields /\ NoRun.at = "idle" /\ NoRun.listed = <<>> /\ NoRun.left = {}
                 /\ NoRun.items = {} /\ NoRun.swept = FALSE /\ NoRun.failed = {} /\ NoRun.clean = TRUE
BY DEF NoRun, RunFields

LEMMA BeginRunIs ==
    ASSUME BeginRun
    PROVE  RunTo("apis", <<>>, {}, FALSE, {}, TRUE)
<1>1. run' = [NoRun EXCEPT !.at = "apis"] BY DEF BeginRun
<1>2. PICK n : n = NoRun OBVIOUS
<1> QED BY <1>1, <1>2, NoRunIs DEF RunTo, RunFields

LEMMA ListIs ==
    ASSUME RunOK
    PROVE  /\ List("apis", SpecsOf) =>
                 /\ run.at = "apis" /\ run.listed = <<>>
                 /\ RunTo("apis", [kind |-> "apis", of |-> Listed("apis")], Known("apis"), run.swept, run.failed, run.clean)
                 /\ run'.left # {} => run'.items = SpecsOf(run'.listed.of[Current'])
           /\ List("resources", FindingsOf) =>
                 /\ run.at = "resources" /\ run.listed = <<>>
                 /\ RunTo("resources", [kind |-> "resources", of |-> Listed("resources")], Known("resources"), run.swept,
                          run.failed, run.clean)
                 /\ run'.left # {} => run'.items = FindingsOf(run'.listed.of[Current'])
<1>1. DOMAIN run = RunFields BY DEF RunOK
<1>3. ASSUME List("apis", SpecsOf)
      PROVE  /\ run.at = "apis" /\ run.listed = <<>>
             /\ RunTo("apis", [kind |-> "apis", of |-> Listed("apis")], Known("apis"), run.swept, run.failed, run.clean)
             /\ run'.left # {} => run'.items = SpecsOf(run'.listed.of[Current'])
  <2>1. PICK l : l = Listed("apis") OBVIOUS
  <2>2. DOMAIN l = Known("apis") BY <2>1, ListedIs
  <2>3. PICK listed : listed = [kind |-> "apis", of |-> l] OBVIOUS
  <2>4. PICK items : items = IF DOMAIN l = {} THEN {} ELSE SpecsOf(l[ChosenOf(DOMAIN l)]) OBVIOUS
  <2>5. run.at = "apis" /\ run.listed = <<>> /\ run' = [run EXCEPT !.listed = listed, !.left = Known("apis"), !.items = items]
    BY <1>3, <2>1, <2>2, <2>3, <2>4 DEF List, Running, ChosenOf
  <2>6. RunTo("apis", listed, Known("apis"), run.swept, run.failed, run.clean) /\ run'.items = items
    BY <1>1, <2>5 DEF RunTo, RunFields
  <2>7. run'.left = DOMAIN l /\ run'.listed.of = l BY <2>2, <2>3, <2>6 DEF RunTo
  <2> QED BY <2>1, <2>3, <2>4, <2>5, <2>6, <2>7, ChosenIs
<1>4. ASSUME List("resources", FindingsOf)
      PROVE  /\ run.at = "resources" /\ run.listed = <<>>
             /\ RunTo("resources", [kind |-> "resources", of |-> Listed("resources")], Known("resources"), run.swept,
                      run.failed, run.clean)
             /\ run'.left # {} => run'.items = FindingsOf(run'.listed.of[Current'])
  <2>1. PICK l : l = Listed("resources") OBVIOUS
  <2>2. DOMAIN l = Known("resources") BY <2>1, ListedIs
  <2>3. PICK listed : listed = [kind |-> "resources", of |-> l] OBVIOUS
  <2>4. PICK items : items = IF DOMAIN l = {} THEN {} ELSE FindingsOf(l[ChosenOf(DOMAIN l)]) OBVIOUS
  <2>5. /\ run.at = "resources" /\ run.listed = <<>>
        /\ run' = [run EXCEPT !.listed = listed, !.left = Known("resources"), !.items = items]
    BY <1>4, <2>1, <2>2, <2>3, <2>4 DEF List, Running, ChosenOf
  <2>6. RunTo("resources", listed, Known("resources"), run.swept, run.failed, run.clean) /\ run'.items = items
    BY <1>1, <2>5 DEF RunTo, RunFields
  <2>7. run'.left = DOMAIN l /\ run'.listed.of = l BY <2>2, <2>3, <2>6 DEF RunTo
  <2> QED BY <2>1, <2>3, <2>4, <2>5, <2>6, <2>7, ChosenIs
<1> QED BY <1>3, <1>4

Same == RunTo(run.at, run.listed, run.left, run.swept, run.failed, run.clean)

LEMMA ItemDone ==
    ASSUME RunOK, NEW items, run' = [run EXCEPT !.items = items]
    PROVE  Same /\ run'.items = items /\ Current' = Current
<1>1. DOMAIN run = RunFields BY DEF RunOK
<1>2. Same /\ run'.items = items BY <1>1 DEF Same, RunTo, RunFields
<1> QED BY <1>2, ChosenIs DEF Same, RunTo

LEMMA UpsertsAre ==
    ASSUME RunOK
    PROVE  /\ UpsertDerivedAPI =>
                 /\ run.at = "apis" /\ run.listed # <<>> /\ Current \in run.left /\ Item \in run.items
                 /\ Same /\ run'.items = run.items \ {Item} /\ Current' = Current
           /\ UpsertDerivedResource =>
                 /\ run.at = "resources" /\ run.listed # <<>> /\ Current \in run.left /\ Item \in run.items
                 /\ Item.what = "resource"
                 /\ Same /\ run'.items = (run.items \ {Item}) \union {[Item EXCEPT !.what = "link"]} /\ Current' = Current
           /\ UpsertDerivedRepositoryResource =>
                 /\ run.at = "resources" /\ run.listed # <<>> /\ Current \in run.left /\ Item \in run.items
                 /\ Item.what = "link"
                 /\ Same /\ run'.items = run.items \ {Item} /\ Current' = Current
           /\ UpsertDerivedRelationship =>
                 /\ run.at = "hosts" /\ run.listed # <<>> /\ Item \in run.items
                 /\ Same /\ run'.items = run.items \ {Item} /\ Current' = Current
<1>1. PICK item, less, more : /\ item = Item /\ less = run.items \ {Item}
                              /\ more = (run.items \ {Item}) \union {[Item EXCEPT !.what = "link"]}
  OBVIOUS
<1>2. DOMAIN run = RunFields BY DEF RunOK
<1>3. ASSUME UpsertDerivedAPI
      PROVE  /\ run.at = "apis" /\ run.listed # <<>> /\ Current \in run.left /\ Item \in run.items
             /\ Same /\ run'.items = run.items \ {Item} /\ Current' = Current
  <2>1. run.at = "apis" /\ run.listed # <<>> /\ run.left # {} /\ run.items # {}
    BY <1>3 DEF UpsertDerivedAPI, Busy, Running
  <2>2. run' = [run EXCEPT !.items = less] BY <1>1, <1>3 DEF UpsertDerivedAPI
  <2>3. Same /\ run'.items = less /\ Current' = Current BY <2>2, ItemDone
  <2> QED BY <1>1, <2>1, <2>3, ChosenIs
<1>4. ASSUME UpsertDerivedResource
      PROVE  /\ run.at = "resources" /\ run.listed # <<>> /\ Current \in run.left /\ Item \in run.items
             /\ Item.what = "resource"
             /\ Same /\ run'.items = (run.items \ {Item}) \union {[Item EXCEPT !.what = "link"]} /\ Current' = Current
  <2>1. run.at = "resources" /\ run.listed # <<>> /\ run.left # {} /\ run.items # {} /\ Item.what = "resource"
    BY <1>4 DEF UpsertDerivedResource, Busy, Running
  <2>2. run' = [run EXCEPT !.items = more] BY <1>1, <1>4 DEF UpsertDerivedResource
  <2>3. Same /\ run'.items = more /\ Current' = Current BY <2>2, ItemDone
  <2> QED BY <1>1, <2>1, <2>3, ChosenIs
<1>5. ASSUME UpsertDerivedRepositoryResource
      PROVE  /\ run.at = "resources" /\ run.listed # <<>> /\ Current \in run.left /\ Item \in run.items
             /\ Item.what = "link"
             /\ Same /\ run'.items = run.items \ {Item} /\ Current' = Current
  <2>1. run.at = "resources" /\ run.listed # <<>> /\ run.left # {} /\ run.items # {} /\ Item.what = "link"
    BY <1>5 DEF UpsertDerivedRepositoryResource, Busy, Running
  <2>2. run' = [run EXCEPT !.items = less] BY <1>1, <1>5 DEF UpsertDerivedRepositoryResource
  <2>3. Same /\ run'.items = less /\ Current' = Current BY <2>2, ItemDone
  <2> QED BY <1>1, <2>1, <2>3, ChosenIs
<1>6. ASSUME UpsertDerivedRelationship
      PROVE  /\ run.at = "hosts" /\ run.listed # <<>> /\ Item \in run.items
             /\ Same /\ run'.items = run.items \ {Item} /\ Current' = Current
  <2>1. run.at = "hosts" /\ run.listed # <<>> /\ run.items # {}
    BY <1>6 DEF UpsertDerivedRelationship, Running
  <2>2. run' = [run EXCEPT !.items = less] BY <1>1, <1>6 DEF UpsertDerivedRelationship
  <2>3. Same /\ run'.items = less /\ Current' = Current BY <2>2, ItemDone
  <2> QED BY <1>1, <2>1, <2>3, ChosenIs
<1> QED BY <1>3, <1>4, <1>5, <1>6

LEMMA PhaseIs ==
    ASSUME RunOK, NEW at
    PROVE  /\ DOMAIN Phase(at) = RunFields /\ Phase(at).at = at /\ Phase(at).listed = <<>> /\ Phase(at).left = {}
           /\ Phase(at).items = {} /\ Phase(at).swept = run.swept /\ Phase(at).failed = run.failed
           /\ Phase(at).clean = run.clean
<1>1. DOMAIN run = RunFields BY DEF RunOK
<1>2. PICK a : a = Phase(at) OBVIOUS
<1>3. a = [run EXCEPT !.at = at, !.listed = <<>>, !.left = {}, !.items = {}] BY <1>2 DEF Phase
<1>4. /\ DOMAIN a = RunFields /\ a.at = at /\ a.listed = <<>> /\ a.left = {} /\ a.items = {}
      /\ a.swept = run.swept /\ a.failed = run.failed /\ a.clean = run.clean
  BY <1>1, <1>3 DEF RunFields
<1> QED BY <1>2, <1>4

LEMMA MovesAre ==
    ASSUME RunOK
    PROVE  /\ SweepDerivedAPIs =>
                 /\ run.at = "apis" /\ run.listed # <<>> /\ Current \in run.left /\ run.items = {}
                 /\ RunTo(run.at, run.listed, run.left \ {Current}, run.swept, run.failed, run.clean)
                 /\ run'.left # {} => run'.items = SpecsOf(run'.listed.of[Current'])
           /\ SweepDerivedRepositoryResources =>
                 /\ run.at = "resources" /\ run.listed # <<>> /\ Current \in run.left /\ run.items = {}
                 /\ RunTo(run.at, run.listed, run.left \ {Current}, run.swept \/ run.listed.of[Current].complete,
                          run.failed, run.clean)
                 /\ run'.left # {} => run'.items = FindingsOf(run'.listed.of[Current'])
           /\ SkipRepository =>
                 /\ run.at \in {"apis", "resources"} /\ run.listed # <<>> /\ Current \in run.left
                 /\ RunTo(run.at, run.listed, run.left \ {Current}, run.swept, run.failed \union {Current}, FALSE)
                 /\ run'.left # {} /\ run.at = "apis" => run'.items = SpecsOf(run'.listed.of[Current'])
                 /\ run'.left # {} /\ run.at = "resources" => run'.items = FindingsOf(run'.listed.of[Current'])
<1>1. PICK a, b : a = NextRepo(SpecsOf) /\ b = NextRepo(FindingsOf) OBVIOUS
<1>2. /\ DOMAIN a = RunFields /\ a.at = run.at /\ a.listed = run.listed /\ a.left = run.left \ {Current}
      /\ a.swept = run.swept /\ a.failed = run.failed /\ a.clean = run.clean
      /\ a.left # {} => a.items = SpecsOf(run.listed.of[ChosenOf(run.left \ {Current})])
  BY <1>1, NextRepoIs
<1>3. /\ DOMAIN b = RunFields /\ b.at = run.at /\ b.listed = run.listed /\ b.left = run.left \ {Current}
      /\ b.swept = run.swept /\ b.failed = run.failed /\ b.clean = run.clean
      /\ b.left # {} => b.items = FindingsOf(run.listed.of[ChosenOf(run.left \ {Current})])
  BY <1>1, NextRepoIs
<1>4. ASSUME SweepDerivedAPIs
      PROVE  /\ run.at = "apis" /\ run.listed # <<>> /\ Current \in run.left /\ run.items = {}
             /\ RunTo(run.at, run.listed, run.left \ {Current}, run.swept, run.failed, run.clean)
             /\ run'.left # {} => run'.items = SpecsOf(run'.listed.of[Current'])
  <2>1. run.at = "apis" /\ run.listed # <<>> /\ run.left # {} /\ run.items = {} /\ run' = a
    BY <1>1, <1>4 DEF SweepDerivedAPIs, Busy, Running
  <2> QED BY <1>2, <2>1, ChosenIs DEF RunTo
<1>5. ASSUME SweepDerivedRepositoryResources
      PROVE  /\ run.at = "resources" /\ run.listed # <<>> /\ Current \in run.left /\ run.items = {}
             /\ RunTo(run.at, run.listed, run.left \ {Current}, run.swept \/ run.listed.of[Current].complete,
                      run.failed, run.clean)
             /\ run'.left # {} => run'.items = FindingsOf(run'.listed.of[Current'])
  <2>1. PICK swept : swept = (b.swept \/ run.listed.of[Current].complete) OBVIOUS
  <2>2. /\ run.at = "resources" /\ run.listed # <<>> /\ run.left # {} /\ run.items = {}
        /\ run' = [b EXCEPT !.swept = swept]
    BY <1>1, <1>5, <2>1 DEF SweepDerivedRepositoryResources, Busy, Running
  <2>3. /\ DOMAIN run' = RunFields /\ run'.at = b.at /\ run'.listed = b.listed /\ run'.left = b.left
        /\ run'.items = b.items /\ run'.swept = swept /\ run'.failed = b.failed /\ run'.clean = b.clean
    BY <1>3, <2>2 DEF RunFields
  <2>4. swept = (run.swept \/ run.listed.of[Current].complete) BY <1>3, <2>1
  <2> QED BY <1>3, <2>2, <2>3, <2>4, ChosenIs DEF RunTo
<1>6. ASSUME SkipRepository
      PROVE  /\ run.at \in {"apis", "resources"} /\ run.listed # <<>> /\ Current \in run.left
             /\ RunTo(run.at, run.listed, run.left \ {Current}, run.swept, run.failed \union {Current}, FALSE)
             /\ run'.left # {} /\ run.at = "apis" => run'.items = SpecsOf(run'.listed.of[Current'])
             /\ run'.left # {} /\ run.at = "resources" => run'.items = FindingsOf(run'.listed.of[Current'])
  <2>1. PICK failed, n : failed = run.failed \union {Current} /\ n = IF run.at = "apis" THEN a ELSE b OBVIOUS
  <2>2. run.at \in {"apis", "resources"} /\ run.listed # <<>> /\ run.left # {}
    BY <1>6 DEF SkipRepository, Busy, Running
  <2>3. run' = [n EXCEPT !.failed = failed, !.clean = FALSE]
    <3>1. n.failed \union {Current} = failed BY <1>2, <1>3, <2>1
    <3>2. run' = [n EXCEPT !.failed = @ \union {Current}, !.clean = FALSE]
      BY <1>1, <1>6, <2>1 DEF SkipRepository, Running
    <3> QED BY <3>1, <3>2
  <2>4. /\ DOMAIN n = RunFields /\ n.at = run.at /\ n.listed = run.listed /\ n.left = run.left \ {Current}
        /\ n.swept = run.swept
    BY <1>2, <1>3, <2>1
  <2>5. /\ DOMAIN run' = RunFields /\ run'.at = n.at /\ run'.listed = n.listed /\ run'.left = n.left
        /\ run'.items = n.items /\ run'.swept = n.swept /\ run'.failed = failed /\ run'.clean = FALSE
    BY <2>3, <2>4 DEF RunFields
  <2>6. RunTo(run.at, run.listed, run.left \ {Current}, run.swept, run.failed \union {Current}, FALSE)
    BY <2>1, <2>4, <2>5 DEF RunTo
  <2>7. Current' = ChosenOf(run.left \ {Current}) /\ run'.listed = run.listed BY <2>4, <2>5, ChosenIs
  <2>8. CASE run.at = "apis"
    <3>1. n = a BY <2>1, <2>8
    <3> QED BY <1>2, <2>2, <2>5, <2>6, <2>7, <2>8, <3>1, ChosenIs
  <2>9. CASE run.at = "resources"
    <3>1. n = b BY <2>1, <2>9
    <3> QED BY <1>3, <2>2, <2>5, <2>6, <2>7, <2>9, <3>1, ChosenIs
  <2> QED BY <2>2, <2>8, <2>9
<1> QED BY <1>4, <1>5, <1>6

LEMMA PhasesAre ==
    ASSUME RunOK
    PROVE  /\ ResourcesPhase =>
                 /\ run.at = "apis" /\ run.listed # <<>> /\ run.left = {}
                 /\ RunTo("resources", <<>>, {}, run.swept, run.failed, run.clean)
           /\ RetireOrphanResources =>
                 /\ run.at = "resources" /\ run.listed # <<>> /\ run.left = {}
                 /\ \/ /\ RunTo("hosts", <<>>, {}, run.swept, run.failed, run.clean)
                       /\ resources' = IF run.swept
                                       THEN Killed(resources, {r \in resources : ~\E l \in Live(links) : l.id[2] = r.id})
                                       ELSE resources
                    \/ /\ RunTo("hosts", <<>>, {}, run.swept, run.failed, FALSE)
                       /\ resources' = resources
           /\ ListHosts =>
                 /\ run.at = "hosts" /\ run.listed = <<>>
                 /\ RunTo("hosts", [kind |-> "hosts", of |-> Listed("hosts")], run.left, run.swept, run.failed, run.clean)
                 /\ run'.items = DeriveConsume(Listed("hosts"))
           /\ SweepDerivedRelationships =>
                 /\ run.at = "hosts" /\ run.listed # <<>> /\ run.items = {}
                 /\ RunTo("idle", <<>>, {}, FALSE, {}, TRUE) /\ settled' = run.clean
           /\ EndRun => run.at # "idle" /\ RunTo("idle", <<>>, {}, FALSE, {}, TRUE)
           /\ ExtractOne =>
                 \/ /\ RunTo(run.at, run.listed, run.left, run.swept, run.failed, FALSE)
                    /\ run'.items = run.items /\ Current' = Current /\ settled' = FALSE
                 \/ UNCHANGED <<fact, run, settled>>
<1>1. DOMAIN run = RunFields BY DEF RunOK
<1>2. ASSUME ResourcesPhase
      PROVE  /\ run.at = "apis" /\ run.listed # <<>> /\ run.left = {}
             /\ RunTo("resources", <<>>, {}, run.swept, run.failed, run.clean)
  <2>1. run.at = "apis" /\ run.listed # <<>> /\ run.left = {} /\ run' = Phase("resources")
    BY <1>2 DEF ResourcesPhase, Running
  <2> QED BY <2>1, PhaseIs DEF RunTo
<1>3. ASSUME RetireOrphanResources
      PROVE  /\ run.at = "resources" /\ run.listed # <<>> /\ run.left = {}
             /\ \/ /\ RunTo("hosts", <<>>, {}, run.swept, run.failed, run.clean)
                   /\ resources' = IF run.swept
                                   THEN Killed(resources, {r \in resources : ~\E l \in Live(links) : l.id[2] = r.id})
                                   ELSE resources
                \/ /\ RunTo("hosts", <<>>, {}, run.swept, run.failed, FALSE)
                   /\ resources' = resources
  <2>1. run.at = "resources" /\ run.listed # <<>> /\ run.left = {} BY <1>3 DEF RetireOrphanResources, Running
  <2>2. \/ /\ run' = Phase("hosts")
           /\ resources' = IF run.swept
                           THEN {IF \E l \in Live(links) : l.id[2] = r.id THEN r ELSE [r EXCEPT !.live = FALSE] : r \in resources}
                           ELSE resources
        \/ /\ run' = [Phase("hosts") EXCEPT !.clean = FALSE]
           /\ resources' = resources
    BY <1>3 DEF RetireOrphanResources
  <2>3. {IF \E l \in Live(links) : l.id[2] = r.id THEN r ELSE [r EXCEPT !.live = FALSE] : r \in resources}
          = Killed(resources, {r \in resources : ~\E l \in Live(links) : l.id[2] = r.id})
    <3> DEFINE K == {r \in resources : ~\E l \in Live(links) : l.id[2] = r.id}
    <3>1. \A r \in resources : r \in K <=> ~\E l \in Live(links) : l.id[2] = r.id OBVIOUS
    <3> HIDE DEF K
    <3>2. \A r \in resources : (IF \E l \in Live(links) : l.id[2] = r.id THEN r ELSE [r EXCEPT !.live = FALSE])
                                 = (IF r \in K THEN [r EXCEPT !.live = FALSE] ELSE r)
      BY <3>1
    <3>3. Killed(resources, K) = {IF r \in K THEN [r EXCEPT !.live = FALSE] ELSE r : r \in resources} BY DEF Killed
    <3> DEFINE A(r) == IF \E l \in Live(links) : l.id[2] = r.id THEN r ELSE [r EXCEPT !.live = FALSE]
               B(r) == IF r \in K THEN [r EXCEPT !.live = FALSE] ELSE r
    <3>4. {A(r) : r \in resources} = {B(r) : r \in resources}
      <4>1. \A r \in resources : A(r) = B(r) BY <3>2
      <4> HIDE DEF A, B
      <4> QED BY <4>1
    <3> QED BY <3>3, <3>4 DEF K
  <2>4. run' = Phase("hosts") => RunTo("hosts", <<>>, {}, run.swept, run.failed, run.clean) BY PhaseIs DEF RunTo
  <2>5. run' = [Phase("hosts") EXCEPT !.clean = FALSE] => RunTo("hosts", <<>>, {}, run.swept, run.failed, FALSE)
    <3>1. PICK p : p = Phase("hosts") OBVIOUS
    <3> QED BY <3>1, PhaseIs DEF RunTo, RunFields
  <2> QED BY <2>1, <2>2, <2>3, <2>4, <2>5
<1>4. ASSUME ListHosts
      PROVE  /\ run.at = "hosts" /\ run.listed = <<>>
             /\ RunTo("hosts", [kind |-> "hosts", of |-> Listed("hosts")], run.left, run.swept, run.failed, run.clean)
             /\ run'.items = DeriveConsume(Listed("hosts"))
  <2>1. PICK listed, items : /\ listed = [kind |-> "hosts", of |-> Listed("hosts")]
                             /\ items = DeriveConsume(Listed("hosts"))
    OBVIOUS
  <2>2. run.at = "hosts" /\ run.listed = <<>> /\ run' = [run EXCEPT !.listed = listed, !.items = items]
    BY <1>4, <2>1 DEF ListHosts, Running
  <2>3. RunTo("hosts", listed, run.left, run.swept, run.failed, run.clean) /\ run'.items = items
    BY <1>1, <2>2 DEF RunTo, RunFields
  <2> QED BY <2>1, <2>2, <2>3
<1>5. ASSUME SweepDerivedRelationships
      PROVE  /\ run.at = "hosts" /\ run.listed # <<>> /\ run.items = {}
             /\ RunTo("idle", <<>>, {}, FALSE, {}, TRUE) /\ settled' = run.clean
  <2>1. run.at = "hosts" /\ run.listed # <<>> /\ run.items = {} /\ run' = NoRun /\ settled' = run.clean
    BY <1>5 DEF SweepDerivedRelationships, Running
  <2> QED BY <2>1, NoRunIs DEF RunTo
<1>6. ASSUME EndRun PROVE run.at # "idle" /\ RunTo("idle", <<>>, {}, FALSE, {}, TRUE)
  BY <1>6, NoRunIs DEF EndRun, RunTo
<1>7. ASSUME ExtractOne
      PROVE  \/ /\ RunTo(run.at, run.listed, run.left, run.swept, run.failed, FALSE)
                /\ run'.items = run.items /\ Current' = Current /\ settled' = FALSE
             \/ UNCHANGED <<fact, run, settled>>
  <2>1. \/ run' = [run EXCEPT !.clean = FALSE] /\ settled' = FALSE
        \/ UNCHANGED <<fact, run, settled>>
    BY <1>7 DEF ExtractOne
  <2>2. CASE run' = [run EXCEPT !.clean = FALSE] /\ settled' = FALSE
    <3>1. RunTo(run.at, run.listed, run.left, run.swept, run.failed, FALSE) /\ run'.items = run.items
      BY <1>1, <2>2 DEF RunTo, RunFields
    <3> QED BY <2>2, <3>1, ChosenIs DEF RunTo
  <2> QED BY <2>1, <2>2
<1> QED BY <1>2, <1>3, <1>4, <1>5, <1>6, <1>7

(* What each step leaves alone. *)
LEMMA Frames ==
    /\ Sync => UNCHANGED <<fact, rows, run, settled>>
    /\ CrashSync => UNCHANGED <<fact, rows, run, settled>>
    /\ ExtractOne => UNCHANGED rows
    /\ BeginRun => UNCHANGED <<fact, sync>> /\ ~settled' /\ run.at = "idle"
         /\ apis' = Stale(apis) /\ resources' = Stale(resources) /\ links' = Stale(links) /\ edges' = Stale(edges)
    /\ List("apis", SpecsOf) \/ List("resources", FindingsOf) \/ ListHosts \/ ResourcesPhase \/ SkipRepository \/ EndRun
         => UNCHANGED <<fact, sync, rows, settled>>
    /\ UpsertDerivedAPI \/ SweepDerivedAPIs => UNCHANGED <<fact, sync, resources, links, edges, settled>>
    /\ UpsertDerivedResource \/ RetireOrphanResources => UNCHANGED <<fact, sync, apis, links, edges, settled>>
    /\ UpsertDerivedRepositoryResource \/ SweepDerivedRepositoryResources
         => UNCHANGED <<fact, sync, apis, resources, edges, settled>>
    /\ UpsertDerivedRelationship => UNCHANGED <<fact, sync, apis, resources, links, settled>>
    /\ SweepDerivedRelationships => UNCHANGED <<fact, sync, apis, resources, links>>
<1>1. Sync \/ CrashSync => UNCHANGED <<fact, rows, run, settled>>
  <2>1. ASSUME NEW r, NEW t, NEW truncated, NEW fallback, NEW bad, NEW how,
               SyncTree(r, t, truncated, bad, how, fallback)
        PROVE  UNCHANGED <<fact, rows, run, settled>>
    BY <2>1 DEF SyncTree
  <2>2. Sync => UNCHANGED <<fact, rows, run, settled>> BY <2>1 DEF Sync
  <2> QED BY <2>2 DEF CrashSync
<1>2. ExtractOne => UNCHANGED rows BY DEF ExtractOne, rows
<1>3. ASSUME BeginRun
      PROVE  /\ UNCHANGED <<fact, sync>> /\ ~settled' /\ run.at = "idle"
             /\ apis' = Stale(apis) /\ resources' = Stale(resources) /\ links' = Stale(links) /\ edges' = Stale(edges)
  <2>1. settled' = FALSE BY <1>3 DEF BeginRun
  <2> QED BY <1>3, <2>1 DEF BeginRun
<1>4. List("apis", SpecsOf) \/ List("resources", FindingsOf) \/ ListHosts \/ ResourcesPhase \/ SkipRepository \/ EndRun
         => UNCHANGED <<fact, sync, rows, settled>>
  BY DEF List, ListHosts, ResourcesPhase, SkipRepository, EndRun, Reconciling, rows
<1>5. UpsertDerivedAPI \/ SweepDerivedAPIs => UNCHANGED <<fact, sync, resources, links, edges, settled>>
  BY DEF UpsertDerivedAPI, SweepDerivedAPIs, Reconciling
<1>6. UpsertDerivedResource \/ RetireOrphanResources => UNCHANGED <<fact, sync, apis, links, edges, settled>>
  BY DEF UpsertDerivedResource, RetireOrphanResources, Reconciling
<1>7. UpsertDerivedRepositoryResource \/ SweepDerivedRepositoryResources
         => UNCHANGED <<fact, sync, apis, resources, edges, settled>>
  BY DEF UpsertDerivedRepositoryResource, SweepDerivedRepositoryResources, Reconciling
<1>8. UpsertDerivedRelationship => UNCHANGED <<fact, sync, apis, resources, links, settled>>
  BY DEF UpsertDerivedRelationship, Reconciling
<1>9. SweepDerivedRelationships => UNCHANGED <<fact, sync, apis, resources, links>>
  BY DEF SweepDerivedRelationships, Reconciling
<1> QED BY <1>1, <1>2, <1>3, <1>4, <1>5, <1>6, <1>7, <1>8, <1>9

-----------------------------------------------------------------------------
(* The facts *)

LEMMA KindsAre == ToSet(Kinds) = KindNames /\ DOMAIN Kinds = 1..4 /\ Len(Kinds) = 4 /\ \A i \in 1..4 : Kinds[i] \in KindNames
BY DEF Kinds, KindNames, ToSet

\* A sync under way extracts what the assumption speaks of.
LEMMA SyncExtracts ==
    ASSUME CatalogAssumption, NEW s, SyncIs(s)
    PROVE  /\ s.repo \in Repos /\ s.tree \in Nat \ {0} /\ s.step \in 1..4
           /\ ResourcesNamed(Extract("resources", s).data) /\ HostsNamed(Extract("hosts", s).data)
           /\ s.step # 4 => SyncIs([s EXCEPT !.step = @ + 1])
<1>r. PICK r \in Repos : \E t \in DOMAIN Trees[r] : \E truncated \in BOOLEAN, bad \in PathsOf(r, t) \union {None},
         how \in Hows, step \in DOMAIN Kinds :
          s = [repo |-> r, step |-> step, tree |-> t, truncated |-> truncated, bad |-> bad, how |-> how]
  BY DEF SyncIs
<1>t. PICK t \in DOMAIN Trees[r] : \E truncated \in BOOLEAN, bad \in PathsOf(r, t) \union {None},
         how \in Hows, step \in DOMAIN Kinds :
          s = [repo |-> r, step |-> step, tree |-> t, truncated |-> truncated, bad |-> bad, how |-> how]
  BY <1>r
<1>1. PICK truncated \in BOOLEAN, bad \in PathsOf(r, t) \union {None}, how \in Hows, step \in DOMAIN Kinds :
          s = [repo |-> r, step |-> step, tree |-> t, truncated |-> truncated, bad |-> bad, how |-> how]
  BY <1>t
<1>2. ResourcesNamed(Extract("resources", s).data) /\ HostsNamed(Extract("hosts", s).data)
  <2>1. how \in {"ok", "absent", "failed"} BY DEF Hows
  <2>2. LET a == [repo |-> r, step |-> step, tree |-> t, truncated |-> truncated, bad |-> bad, how |-> how]
        IN ResourcesNamed(Extract("resources", a).data) /\ HostsNamed(Extract("hosts", a).data)
    BY <2>1, <1>1 DEF CatalogAssumption
  <2> QED BY <1>1, <2>2
<1>3. s.repo = r /\ s.tree = t /\ s.step = step /\ step \in 1..4 BY <1>1, KindsAre
<1>4. s.tree \in Nat \ {0} BY <1>1, <1>3 DEF CatalogAssumption
<1>5. ASSUME s.step # 4 PROVE SyncIs([s EXCEPT !.step = @ + 1])
  <2>1. PICK next : next = step + 1 OBVIOUS
  <2>2. next \in DOMAIN Kinds BY <1>3, <1>5, <2>1, KindsAre
  <2>3. [s EXCEPT !.step = @ + 1]
          = [repo |-> r, step |-> next, tree |-> t, truncated |-> truncated, bad |-> bad, how |-> how]
    BY <1>1, <2>1
  <2> QED BY <2>2, <2>3, SMTT(60) DEF SyncIs
<1> QED BY <1>2, <1>3, <1>4, <1>5

LEMMA FactsStep ==
    ASSUME CatalogAssumption, FactsOK, [Next]_vars
    PROVE  FactsOK' /\ \A k \in KindNames : Known(k) \subseteq Known(k)'
<1>1. CASE UNCHANGED <<fact, sync>>
  BY <1>1 DEF FactsOK, Known
<1>2. ASSUME NEW r \in Repos, NEW t \in DOMAIN Trees[r], NEW truncated \in BOOLEAN, NEW fallback \in BOOLEAN,
             NEW bad \in (PathsOf(r, t) \cap Unsteady) \union {None}, NEW how \in {"ok", "absent", "failed"},
             SyncTree(r, t, truncated, bad, how, fallback)
      PROVE  FactsOK' /\ \A k \in KindNames : Known(k) \subseteq Known(k)'
  <2>1. UNCHANGED fact BY <1>2 DEF SyncTree
  <2>2. sync' = [repo |-> r, step |-> 1, tree |-> t, truncated |-> truncated, bad |-> bad, how |-> how]
    BY <1>2 DEF SyncTree
  <2>3. 1 \in DOMAIN Kinds /\ how \in Hows /\ bad \in PathsOf(r, t) \union {None} BY KindsAre DEF Hows
  <2>4. SyncIs(sync') BY <2>2, <2>3 DEF SyncIs
  <2> QED BY <2>1, <2>4 DEF FactsOK, Known
<1>3. CASE CrashSync
  BY <1>3 DEF CrashSync, FactsOK, Known
<1>4. CASE ExtractOne
  <2>1. SyncIs(sync) BY <1>4 DEF ExtractOne, FactsOK
  <2> DEFINE k == Kinds[sync.step]
             x == Extract(k, sync)
  <2>2. /\ sync.repo \in Repos /\ sync.tree \in Nat \ {0} /\ sync.step \in 1..4 /\ k \in KindNames
        /\ ResourcesNamed(Extract("resources", sync).data) /\ HostsNamed(Extract("hosts", sync).data)
        /\ sync.step # 4 => SyncIs([sync EXCEPT !.step = @ + 1])
    BY <2>1, SyncExtracts, KindsAre
  <2>3. sync' = NoSync \/ SyncIs(sync')
    BY <1>4, <2>2, KindsAre DEF ExtractOne, NextKind
  <2>4. CASE UNCHANGED fact BY <2>3, <2>4 DEF FactsOK, Known
  <2>5. ASSUME NEW row, row.data = x.data, row.seen = sync.tree, fact' = [fact EXCEPT ![sync.repo][k] = row]
        PROVE  FactsOK' /\ \A j \in KindNames : Known(j) \subseteq Known(j)'
    <3>1. row.seen > 0 BY <2>2, <2>5
    <3> HIDE DEF k, x
    <3>2. /\ DOMAIN fact' = Repos /\ \A r \in Repos : DOMAIN fact'[r] = KindNames
          /\ \A r \in Repos, j \in KindNames : fact'[r][j] = IF r = sync.repo /\ j = k THEN row ELSE fact[r][j]
      BY <2>2, <2>5 DEF FactsOK
    <3>3. \A j \in KindNames : Known(j)' = Known(j) \union (IF j = k THEN {sync.repo} ELSE {})
      BY <2>2, <3>1, <3>2 DEF Known
    <3>4. \A r \in Known("resources")' : ResourcesNamed(fact'[r]["resources"].data)
      <4> SUFFICES ASSUME NEW r \in Known("resources")' PROVE ResourcesNamed(fact'[r]["resources"].data) OBVIOUS
      <4>1. "resources" \in KindNames /\ r \in Repos BY DEF KindNames, Known
      <4>2. CASE r = sync.repo /\ k = "resources"
        <5>1. fact'[r]["resources"] = row BY <3>2, <4>1, <4>2
        <5>2. row.data = Extract("resources", sync).data BY <2>5, <4>2 DEF x
        <5> QED BY <2>2, <5>1, <5>2
      <4>3. CASE ~(r = sync.repo /\ k = "resources")
        <5>1. fact'[r]["resources"] = fact[r]["resources"] /\ r \in Known("resources") BY <3>2, <3>3, <4>1, <4>3
        <5> QED BY <5>1 DEF FactsOK
      <4> QED BY <4>2, <4>3
    <3>5. \A r \in Known("hosts")' : HostsNamed(fact'[r]["hosts"].data)
      <4> SUFFICES ASSUME NEW r \in Known("hosts")' PROVE HostsNamed(fact'[r]["hosts"].data) OBVIOUS
      <4>1. "hosts" \in KindNames /\ r \in Repos BY DEF KindNames, Known
      <4>2. CASE r = sync.repo /\ k = "hosts"
        <5>1. fact'[r]["hosts"] = row BY <3>2, <4>1, <4>2
        <5>2. row.data = Extract("hosts", sync).data BY <2>5, <4>2 DEF x
        <5> QED BY <2>2, <5>1, <5>2
      <4>3. CASE ~(r = sync.repo /\ k = "hosts")
        <5>1. fact'[r]["hosts"] = fact[r]["hosts"] /\ r \in Known("hosts") BY <3>2, <3>3, <4>1, <4>3
        <5> QED BY <5>1 DEF FactsOK
      <4> QED BY <4>2, <4>3
    <3> QED BY <2>3, <3>2, <3>3, <3>4, <3>5 DEF FactsOK
  <2>6. UNCHANGED fact \/ \E row : row.data = x.data /\ row.seen = sync.tree /\ fact' = [fact EXCEPT ![sync.repo][k] = row]
    <3>1. PICK row : row = [sha |-> TreeSHA(sync), complete |-> x.complete, data |-> x.data,
                   seen |-> sync.tree, gone |-> IF sync.how = "absent" THEN {sync.bad} ELSE {}]
      OBVIOUS
    <3>2. row.data = x.data /\ row.seen = sync.tree BY <3>1
    <3>3. UNCHANGED fact \/ fact' = [fact EXCEPT ![sync.repo][k] = row] BY <1>4, <3>1 DEF ExtractOne
    <3> QED BY <3>2, <3>3
  <2> QED BY <2>4, <2>5, <2>6
<1>5. CASE ReconcileStep
  <2>1. UNCHANGED <<fact, sync>> BY <1>5, Frames DEF ReconcileStep, SweepDerivedRelationships, Reconciling
  <2> QED BY <1>1, <2>1
<1> QED BY <1>1, <1>2, <1>3, <1>4, <1>5 DEF Next, Sync, vars

-----------------------------------------------------------------------------
(* The run *)

LEMMA FactSame == UNCHANGED fact => \A k : Known(k)' = Known(k) /\ Listed(k)' = Listed(k)
BY DEF Known, Listed

LEMMA RunStep ==
    ASSUME CatalogAssumption, FactsOK, RunOK, [Next]_vars
    PROVE  RunOK'
<1> DEFINE knows == [k \in KindNames |-> Known(k)']
           lists == [k \in KindNames |-> Listed(k)']
           L(listed, at, left, clean) ==
             listed # <<>> =>
                /\ listed.kind = at /\ at # "idle"
                /\ DOMAIN listed.of \subseteq knows[at] /\ left \subseteq DOMAIN listed.of
                /\ clean => listed.of = lists[at]
                /\ at = "resources" => \A r \in DOMAIN listed.of : ResourcesNamed(listed.of[r].data)
<1>1. /\ DOMAIN run = RunFields /\ run.at \in {"idle", "apis", "resources", "hosts"}
      /\ run.clean \in BOOLEAN /\ run.swept \in BOOLEAN /\ (run.clean => run.failed = {})
      /\ run.at = "hosts" => run.left = {}
      /\ run.listed # <<>> =>
                /\ run.listed.kind = run.at /\ run.at # "idle"
                /\ DOMAIN run.listed.of \subseteq Known(run.at) /\ run.left \subseteq DOMAIN run.listed.of
                /\ run.clean => run.listed.of = Listed(run.at)
                /\ run.at = "resources" => \A r \in DOMAIN run.listed.of : ResourcesNamed(run.listed.of[r].data)
  BY DEF RunOK
<1>k. \A k \in KindNames : knows[k] = Known(k)' /\ lists[k] = Listed(k)' OBVIOUS
<1>a. {"idle", "apis", "resources", "hosts"} \subseteq KindNames \union {"idle"} BY DEF KindNames
<1> HIDE DEF knows, lists
<1>2. ASSUME NEW at \in {"idle", "apis", "resources", "hosts"}, NEW listed, NEW left, NEW swept \in BOOLEAN, NEW failed,
             NEW clean \in BOOLEAN, RunTo(at, listed, left, swept, failed, clean), clean => failed = {}, at = "hosts" => left = {},
             L(listed, at, left, clean)
      PROVE  RunOK'
  <2>1. run'.at = at /\ run'.listed = listed BY <1>2 DEF RunTo
  <2>2. listed # <<>> => Known(run.at)' = knows[at] /\ Listed(run.at)' = lists[at] BY <1>2, <1>a, <1>k, <2>1
  <2> QED BY <1>2, <2>1, <2>2 DEF RunTo, RunOK
<1>3. \A k \in KindNames : Known(k) \subseteq knows[k] BY <1>k, FactsStep
<1>s. UNCHANGED fact => \A k \in KindNames : knows[k] = Known(k) /\ lists[k] = Listed(k) BY <1>k, FactSame
<1>4. ASSUME UNCHANGED fact, NEW left, left \subseteq run.left, NEW swept \in BOOLEAN, NEW failed, NEW clean \in BOOLEAN,
             RunTo(run.at, run.listed, left, swept, failed, clean), clean => failed = {}, clean => run.clean
      PROVE  RunOK'
  <2>2. L(run.listed, run.at, left, clean) BY <1>1, <1>4, <1>a, <1>s
  <2> HIDE DEF L
  <2> QED BY <1>1, <1>2, <1>4, <2>2
<1>5. ASSUME NEW at \in {"idle", "apis", "resources", "hosts"}, NEW failed, NEW swept \in BOOLEAN, NEW clean \in BOOLEAN, NEW left,
             RunTo(at, <<>>, left, swept, failed, clean), clean => failed = {}, at = "hosts" => left = {}
      PROVE  RunOK'
  <2>1. L(<<>>, at, left, clean) OBVIOUS
  <2> HIDE DEF L
  <2> QED BY <1>2, <1>5, <2>1
<1>6. CASE UNCHANGED <<fact, run>>
  <2> QED BY <1>6 DEF RunOK, Known, Listed
<1>7. CASE ExtractOne /\ ~UNCHANGED <<fact, run>>
  <2>1. RunTo(run.at, run.listed, run.left, run.swept, run.failed, FALSE) BY <1>7, PhasesAre
  <2>2. L(run.listed, run.at, run.left, FALSE) BY <1>1, <1>3, <1>a
  <2> HIDE DEF L
  <2> QED BY <1>1, <1>2, <2>1, <2>2
<1>8. ASSUME NEW k \in {"apis", "resources", "hosts"}, UNCHANGED fact, NEW left, left \subseteq Known(k),
             k = "hosts" => left = {},
             RunTo(k, [kind |-> k, of |-> Listed(k)], left, run.swept, run.failed, run.clean)
      PROVE  RunOK'
  <2>1. PICK listed : listed = [kind |-> k, of |-> Listed(k)] OBVIOUS
  <2>2. listed.kind = k /\ listed.of = Listed(k) /\ lists[k] = Listed(k) /\ knows[k] = Known(k)
    BY <1>8, <1>a, <1>s, <2>1
  <2>3. DOMAIN listed.of = Known(k) BY <2>2, ListedIs
  <2>4. k = "resources" => \A r \in DOMAIN listed.of : ResourcesNamed(listed.of[r].data)
    BY <2>2, <2>3, ListedIs DEF FactsOK
  <2>5. L(listed, k, left, run.clean) BY <1>8, <2>2, <2>3, <2>4
  <2>6. RunTo(k, listed, left, run.swept, run.failed, run.clean) BY <1>8, <2>1
  <2> HIDE DEF L
  <2> QED BY <1>1, <1>2, <1>8, <2>5, <2>6
<1> HIDE DEF L
<1>9. CASE Sync \/ CrashSync BY <1>6, <1>9, Frames
<1>10. CASE ExtractOne BY <1>6, <1>7, <1>10
<1>11. CASE ReconcileStep
  <2>1. CASE BeginRun BY <1>5, <2>1, BeginRunIs
  <2>2. CASE List("apis", SpecsOf)
    BY <1>8, <2>2, ListIs, Frames
  <2>3. CASE List("resources", FindingsOf) BY <1>8, <2>3, ListIs, Frames
  <2>4. CASE UpsertDerivedAPI \/ UpsertDerivedResource \/ UpsertDerivedRepositoryResource \/ UpsertDerivedRelationship
    <3>1. Same BY <2>4, UpsertsAre
    <3>2. UNCHANGED fact BY <2>4, Frames
    <3> QED BY <1>1, <1>4, <3>1, <3>2 DEF Same
  <2>5. CASE SweepDerivedAPIs
    <3>1. RunTo(run.at, run.listed, run.left \ {Current}, run.swept, run.failed, run.clean) BY <2>5, MovesAre
    <3>2. UNCHANGED fact BY <2>5, Frames
    <3> QED BY <1>1, <1>4, <3>1, <3>2
  <2>6. CASE SweepDerivedRepositoryResources
    <3>1. RunTo(run.at, run.listed, run.left \ {Current}, run.swept \/ run.listed.of[Current].complete, run.failed, run.clean)
      BY <2>6, MovesAre
    <3>2. UNCHANGED fact BY <2>6, Frames
    <3>3. (run.swept \/ run.listed.of[Current].complete) \in BOOLEAN OBVIOUS
    <3> QED BY <1>1, <1>4, <3>1, <3>2, <3>3
  <2>7. CASE SkipRepository
    <3>1. RunTo(run.at, run.listed, run.left \ {Current}, run.swept, run.failed \union {Current}, FALSE) BY <2>7, MovesAre
    <3>2. UNCHANGED fact BY <2>7, Frames
    <3> QED BY <1>1, <1>4, <3>1, <3>2
  <2>8. CASE ResourcesPhase BY <1>1, <1>5, <2>8, PhasesAre
  <2>9. CASE RetireOrphanResources BY <1>1, <1>5, <2>9, PhasesAre
  <2>10. CASE ListHosts
    <3>1. RunTo("hosts", [kind |-> "hosts", of |-> Listed("hosts")], {}, run.swept, run.failed, run.clean)
      BY <1>1, <2>10, PhasesAre
    <3> QED BY <1>8, <2>10, <3>1, Frames
  <2>11. CASE SweepDerivedRelationships BY <1>5, <2>11, PhasesAre
  <2>12. CASE EndRun BY <1>5, <2>12, PhasesAre
  <2> QED BY <1>11, <2>1, <2>2, <2>3, <2>4, <2>5, <2>6, <2>7, <2>8, <2>9, <2>10, <2>11, <2>12 DEF ReconcileStep
<1> QED BY <1>6, <1>9, <1>10, <1>11 DEF Next, vars

-----------------------------------------------------------------------------
(* The tables *)

LEMMA SweepsAre ==
    ASSUME RunOK
    PROVE  /\ SweepDerivedAPIs => apis' = SweptOf(apis, Current, WholeOf(run.listed.of))
           /\ SweepDerivedRepositoryResources => links' = SweptOf(links, Current, WholeOf(run.listed.of))
           /\ SweepDerivedRelationships =>
                 edges' = IF MaySweep(run.listed.of) THEN Killed(edges, {x \in edges : ~x.fresh}) ELSE edges
<1>1. ASSUME NEW T, NEW cur
      PROVE  Swept(T, LAMBDA r : r.id[1] = cur) = Killed(T, {x \in T : x.id[1] = cur /\ ~x.fresh})
  <2> DEFINE A(r) == IF r.id[1] = cur /\ ~r.fresh THEN [r EXCEPT !.live = FALSE] ELSE r
             B(r) == IF r \in {x \in T : x.id[1] = cur /\ ~x.fresh} THEN [r EXCEPT !.live = FALSE] ELSE r
  <2>1. \A r \in T : A(r) = B(r) OBVIOUS
  <2>2. Swept(T, LAMBDA r : r.id[1] = cur) = {A(r) : r \in T} BY DEF Swept
  <2>3. Killed(T, {x \in T : x.id[1] = cur /\ ~x.fresh}) = {B(r) : r \in T} BY DEF Killed
  <2> HIDE DEF A, B
  <2> QED BY <2>1, <2>2, <2>3
<1>2. Swept(edges, LAMBDA e : TRUE) = Killed(edges, {x \in edges : ~x.fresh})
  <2> DEFINE A(r) == IF TRUE /\ ~r.fresh THEN [r EXCEPT !.live = FALSE] ELSE r
             B(r) == IF r \in {x \in edges : ~x.fresh} THEN [r EXCEPT !.live = FALSE] ELSE r
  <2>1. \A r \in edges : A(r) = B(r) OBVIOUS
  <2>2. Swept(edges, LAMBDA e : TRUE) = {A(r) : r \in edges} BY DEF Swept
  <2>3. Killed(edges, {x \in edges : ~x.fresh}) = {B(r) : r \in edges} BY DEF Killed
  <2> HIDE DEF A, B
  <2> QED BY <2>1, <2>2, <2>3
<1>3. run.listed # <<>> => run.left \subseteq DOMAIN run.listed.of BY DEF RunOK
<1>4. \A r \in DOMAIN run.listed.of : r \in WholeOf(run.listed.of) <=> run.listed.of[r].complete BY DEF WholeOf
<1>5. ASSUME SweepDerivedAPIs PROVE apis' = SweptOf(apis, Current, WholeOf(run.listed.of))
  <2>1. Current \in DOMAIN run.listed.of BY <1>3, <1>5, MovesAre
  <2>2. apis' = IF run.listed.of[Current].complete THEN Swept(apis, LAMBDA r : r.id[1] = Current) ELSE apis
    BY <1>5 DEF SweepDerivedAPIs
  <2>3. Swept(apis, LAMBDA r : r.id[1] = Current) = Killed(apis, {x \in apis : x.id[1] = Current /\ ~x.fresh}) BY <1>1
  <2> QED BY <1>4, <2>1, <2>2, <2>3 DEF SweptOf
<1>6. ASSUME SweepDerivedRepositoryResources PROVE links' = SweptOf(links, Current, WholeOf(run.listed.of))
  <2>1. Current \in DOMAIN run.listed.of BY <1>3, <1>6, MovesAre
  <2>2. links' = IF run.listed.of[Current].complete THEN Swept(links, LAMBDA r : r.id[1] = Current) ELSE links
    BY <1>6 DEF SweepDerivedRepositoryResources
  <2>3. Swept(links, LAMBDA r : r.id[1] = Current) = Killed(links, {x \in links : x.id[1] = Current /\ ~x.fresh}) BY <1>1
  <2> QED BY <1>4, <2>1, <2>2, <2>3 DEF SweptOf
<1>7. ASSUME SweepDerivedRelationships
      PROVE  edges' = IF MaySweep(run.listed.of) THEN Killed(edges, {x \in edges : ~x.fresh}) ELSE edges
  BY <1>2, <1>7 DEF SweepDerivedRelationships
<1> QED BY <1>5, <1>6, <1>7

LEMMA TablesStep ==
    ASSUME RunOK, TablesOK, [Next]_vars
    PROVE  TablesOK'
<1>1. ASSUME NEW T, RowsOK(T), NEW K \in SUBSET T PROVE RowsOK(Killed(T, K)) BY <1>1, KilledIs
<1>2. ASSUME NEW T, RowsOK(T), NEW id, NEW data PROVE RowsOK(Upserted(T, id, data)) BY <1>2, UpsertIs
<1>3. RowsOK(apis) /\ RowsOK(resources) /\ RowsOK(links) /\ RowsOK(edges) BY DEF TablesOK
<1>4. CASE UNCHANGED rows BY <1>4 DEF TablesOK, RowsOK, rows
<1>5. ASSUME RowsOK(apis'), RowsOK(resources'), RowsOK(links'), RowsOK(edges') PROVE TablesOK'
  BY <1>5 DEF TablesOK, RowsOK
<1>6. CASE Sync \/ CrashSync \/ ExtractOne BY <1>4, <1>6, Frames DEF rows
<1>7. CASE ReconcileStep
  <2>1. CASE BeginRun
    <3>1. apis' = Stale(apis) /\ resources' = Stale(resources) /\ links' = Stale(links) /\ edges' = Stale(edges)
      BY <2>1, Frames
    <3> QED BY <1>3, <1>5, <3>1, StaleIs
  <2>2. CASE List("apis", SpecsOf) \/ List("resources", FindingsOf) \/ ListHosts \/ ResourcesPhase \/ SkipRepository \/ EndRun
    BY <1>4, <2>2, Frames DEF rows
  <2>3. CASE UpsertDerivedAPI
    <3>1. apis' = Upserted(apis, <<Current, Item.path>>, Item) BY <2>3 DEF UpsertDerivedAPI
    <3> QED BY <1>2, <1>3, <1>5, <2>3, <3>1, Frames
  <2>4. CASE UpsertDerivedResource
    <3>1. resources' = Upserted(resources, ResourceId(Current, Item.found), Item.found.name) BY <2>4 DEF UpsertDerivedResource
    <3> QED BY <1>2, <1>3, <1>5, <2>4, <3>1, Frames
  <2>5. CASE UpsertDerivedRepositoryResource
    <3>1. links' = Upserted(links, LinkId(Current, Item.found), Item.found.confidence) BY <2>5 DEF UpsertDerivedRepositoryResource
    <3> QED BY <1>2, <1>3, <1>5, <2>5, <3>1, Frames
  <2>6. CASE UpsertDerivedRelationship
    <3>1. edges' = Upserted(edges, EdgeId(Item), [confidence |-> Item.confidence, test |-> Item.test])
      BY <2>6 DEF UpsertDerivedRelationship
    <3> QED BY <1>2, <1>3, <1>5, <2>6, <3>1, Frames
  <2>7. CASE SweepDerivedAPIs
    <3>1. RowsOK(apis') BY <1>1, <1>3, <2>7, SweepsAre DEF SweptOf
    <3> QED BY <1>3, <1>5, <2>7, <3>1, Frames
  <2>8. CASE SweepDerivedRepositoryResources
    <3>1. RowsOK(links') BY <1>1, <1>3, <2>8, SweepsAre DEF SweptOf
    <3> QED BY <1>3, <1>5, <2>8, <3>1, Frames
  <2>9. CASE SweepDerivedRelationships
    <3>1. RowsOK(edges') BY <1>1, <1>3, <2>9, SweepsAre
    <3> QED BY <1>3, <1>5, <2>9, <3>1, Frames
  <2>10. CASE RetireOrphanResources
    <3>1. RowsOK(resources') BY <1>1, <1>3, <2>10, PhasesAre
    <3> QED BY <1>3, <1>5, <2>10, <3>1, Frames
  <2> QED BY <1>7, <2>1, <2>2, <2>3, <2>4, <2>5, <2>6, <2>7, <2>8, <2>9, <2>10 DEF ReconcileStep
<1> QED BY <1>4, <1>6, <1>7 DEF Next, vars, rows

-----------------------------------------------------------------------------
(* The contracts *)

LEMMA APINamesOwn == \A l : OwnNames(APINames(l)) /\ DOMAIN APINames(l) = DOMAIN l
                            /\ \A r \in DOMAIN l : APINames(l)[r] = {<<r, s.path>> : s \in l[r].data}
BY DEF OwnNames, APINames

LEMMA APIsBegin ==
    ASSUME NEW T, NoneFresh(T), NEW l, NEW cur, NEW items, NEW failed,
           DOMAIN l # {} => cur \in DOMAIN l /\ items = SpecsOf(l[cur])
    PROVE  APIsWork(T, l, DOMAIN l, cur, items, failed)
<1>1. DOMAIN l # {} => APINames(l)[cur] = {<<cur, s.path>> : s \in items} BY APINamesOwn DEF SpecsOf
<1>2. InWork(T, DOMAIN l, cur, {<<cur, s.path>> : s \in items}, APINames(l), WholeOf(l), {})
  BY <1>1, WorkBegins DEF NoneFresh
<1>3. DOMAIN l \ (DOMAIN l \union failed) = {} OBVIOUS
<1> QED BY <1>2, <1>3 DEF APIsWork, SpecsOf

LEMMA APIsUpsert ==
    ASSUME NEW T, RowsOK(T), NEW l, NEW left \in SUBSET DOMAIN l, NEW cur \in left, NEW items, NEW failed,
           APIsWork(T, l, left, cur, items, failed), NEW item \in items, NEW data
    PROVE  APIsWork(Upserted(T, <<cur, item.path>>, data), l, left, cur, items \ {item}, failed)
<1> DEFINE done == DOMAIN l \ (left \union failed)
           pending == {<<cur, s.path>> : s \in items}
           rest == {<<cur, s.path>> : s \in items \ {item}}
<1>1. cur \in DOMAIN APINames(l) /\ OwnNames(APINames(l)) /\ cur \notin done BY APINamesOwn
<1>2. items \subseteq l[cur].data BY DEF APIsWork
<1>3. <<cur, item.path>> \in APINames(l)[cur] BY <1>2, APINamesOwn
<1>4. pending \ {<<cur, item.path>>} \subseteq rest OBVIOUS
<1>5. InWork(T, left, cur, pending, APINames(l), WholeOf(l), done) BY DEF APIsWork
<1> HIDE DEF done, pending, rest
<1>6. InWork(Upserted(T, <<cur, item.path>>, data), left, cur, rest, APINames(l), WholeOf(l), done)
  BY <1>1, <1>3, <1>4, <1>5, WorkUpserts
<1> QED BY <1>2, <1>6 DEF APIsWork, done, rest

LEMMA WorkLess ==
    ASSUME NEW T, NEW left, NEW cur, NEW pending, NEW names, NEW whole, NEW done, InWork(T, left, cur, pending, names, whole, done),
           NEW less, less \subseteq done
    PROVE  InWork(T, left, cur, pending, names, whole, less)
BY DEF InWork

\* The specs of the next repository, if there is one.
APIsNext(l, left, next, items) == left # {} => next \in left /\ items = SpecsOf(l[next])

LEMMA APIsSweep ==
    ASSUME NEW T, RowsOK(T), FreshLive(T), NEW l, NEW left \in SUBSET DOMAIN l, NEW cur \in left, NEW items, items = {}, NEW failed,
           APIsWork(T, l, left, cur, items, failed), NEW next, NEW more,
           APIsNext(l, left \ {cur}, next, more)
    PROVE  /\ FreshLive(SweptOf(T, cur, WholeOf(l)))
           /\ APIsWork(SweptOf(T, cur, WholeOf(l)), l, left \ {cur}, next, more, failed)
           /\ \A x \in Retired(T, SweptOf(T, cur, WholeOf(l))) :
                 x.id[1] = cur /\ cur \in WholeOf(l) /\ x.id \notin APINames(l)[cur]
<1> DEFINE done == DOMAIN l \ (left \union failed)
           pending == {<<next, s.path>> : s \in more}
<1>1. cur \in DOMAIN APINames(l) /\ OwnNames(APINames(l)) /\ cur \notin done BY APINamesOwn
<1>2. InWork(T, left, cur, {}, APINames(l), WholeOf(l), done) 
  <2>1. {<<cur, s.path>> : s \in items} = {} OBVIOUS
  <2> QED BY <2>1 DEF APIsWork
<1>3. left \ {cur} # {} => APINames(l)[next] \subseteq pending BY APINamesOwn DEF SpecsOf, APIsNext
<1>4. DOMAIN l \ ((left \ {cur}) \union failed) \subseteq done \union {cur} OBVIOUS
<1> HIDE DEF done, pending
<1>5. /\ FreshLive(SweptOf(T, cur, WholeOf(l)))
      /\ InWork(SweptOf(T, cur, WholeOf(l)), left \ {cur}, next, pending, APINames(l), WholeOf(l), done \cup {cur})
      /\ \A x \in Retired(T, SweptOf(T, cur, WholeOf(l))) :
                 x.id[1] = cur /\ cur \in WholeOf(l) /\ x.id \notin APINames(l)[cur]
  <2>1. PICK names, whole : names = APINames(l) /\ whole = WholeOf(l) OBVIOUS
  <2>2. /\ cur \in DOMAIN names /\ OwnNames(names) /\ InWork(T, left, cur, {}, names, whole, done)
        /\ Starts(left \ {cur}, next, names, pending)
    BY <1>1, <1>2, <1>3, <2>1 DEF Starts
  <2>3. /\ FreshLive(SweptOf(T, cur, whole))
        /\ InWork(SweptOf(T, cur, whole), left \ {cur}, next, pending, names, whole, done \cup {cur})
        /\ \A x \in Retired(T, SweptOf(T, cur, whole)) : x.id[1] = cur /\ cur \in whole /\ x.id \notin names[cur]
    BY <1>1, <2>2, WorkSweeps
  <2> QED BY <2>1, <2>3
<1>6. InWork(SweptOf(T, cur, WholeOf(l)), left \ {cur}, next, pending, APINames(l), WholeOf(l),
             DOMAIN l \ ((left \ {cur}) \union failed))
  BY <1>4, <1>5, WorkLess
<1> QED BY <1>5, <1>6 DEF APIsWork, pending, SpecsOf, APIsNext

LEMMA APIsSkip ==
    ASSUME NEW T, NEW l, NEW left \in SUBSET DOMAIN l, NEW cur \in left, NEW items, NEW failed,
           APIsWork(T, l, left, cur, items, failed), NEW next, NEW more,
           APIsNext(l, left \ {cur}, next, more)
    PROVE  APIsWork(T, l, left \ {cur}, next, more, failed \union {cur})
<1> DEFINE done == DOMAIN l \ (left \union failed)
           pending == {<<next, s.path>> : s \in more}
<1>1. PICK some : InWork(T, left, cur, some, APINames(l), WholeOf(l), done) BY DEF APIsWork
<1>2. left \ {cur} # {} => APINames(l)[next] \subseteq pending BY APINamesOwn DEF SpecsOf, APIsNext
<1>3. DOMAIN l \ ((left \ {cur}) \union (failed \union {cur})) \subseteq done OBVIOUS
<1> HIDE DEF done, pending
<1>4. InWork(T, left \ {cur}, next, pending, APINames(l), WholeOf(l), done) BY <1>1, <1>2, WorkSkips
<1>5. InWork(T, left \ {cur}, next, pending, APINames(l), WholeOf(l), DOMAIN l \ ((left \ {cur}) \union (failed \union {cur})))
  BY <1>3, <1>4, WorkLess
<1> QED BY <1>5 DEF APIsWork, pending, SpecsOf, APIsNext

LEMMA RetiredNone == ASSUME NEW T, RowsOK(T) PROVE Retired(T, T) = {}
BY DEF Retired, RowsOK, Live

APIsKept ==
    \A x \in Retired(apis, apis') :
        AsListed(x.id[1]) => fact[x.id[1]]["apis"].complete /\ x.id \notin NamedAPIs(x.id[1])

LEMMA APIsStep ==
    ASSUME CatalogAssumption, FactsOK, RunOK, TablesOK, ApisOK, [Next]_vars
    PROVE  ApisOK' /\ APIsKept
<1>1. /\ FreshLive(apis) /\ RowsOK(apis)
      /\ run.at = "apis" /\ run.listed = <<>> => NoneFresh(apis)
      /\ run.at = "apis" /\ run.listed # <<>> => APIsWork(apis, run.listed.of, run.left, Current, run.items, run.failed)
      /\ run.at \in {"resources", "hosts"} /\ run.clean => FollowsAPIs
  BY DEF ApisOK, TablesOK
<1>2. ASSUME FreshLive(apis'),
             run'.at = "apis" /\ run'.listed = <<>> => NoneFresh(apis'),
             run'.at = "apis" /\ run'.listed # <<>> => APIsWork(apis', run'.listed.of, run'.left, Current', run'.items, run'.failed),
             run'.at \in {"resources", "hosts"} /\ run'.clean => FollowsAPIs'
      PROVE  ApisOK'
  BY <1>2 DEF ApisOK
<1>3. UNCHANGED <<fact, apis>> => (FollowsAPIs' <=> FollowsAPIs) BY DEF FollowsAPIs, Known, Listed
<1>4. UNCHANGED apis => APIsKept BY <1>1, RetiredNone DEF APIsKept
<1>5. ASSUME UNCHANGED <<apis, fact>>, NEW clean, clean => run.clean,
             RunTo(run.at, run.listed, run.left, run.swept, run.failed, clean),
             run'.items = run.items \/ run.at # "apis", Current' = Current
      PROVE  ApisOK'
  <2>1. APIsWork(apis, run.listed.of, run.left, Current, run.items, run.failed) /\ run.at = "apis" =>
           APIsWork(apis', run'.listed.of, run'.left, Current', run'.items, run'.failed)
    BY <1>5 DEF RunTo
  <2> QED BY <1>1, <1>2, <1>3, <1>5, <2>1 DEF RunTo
<1>6. CASE UNCHANGED <<fact, rows, run>>
  <2>1. apis' = apis /\ run' = run /\ Current' = Current BY <1>6, ChosenIs DEF rows
  <2> QED BY <1>1, <1>2, <1>3, <1>4, <1>6, <2>1
<1>7. CASE ExtractOne
  <2>1. apis' = apis BY <1>7, Frames DEF rows
  <2>2. CASE UNCHANGED <<fact, run, settled>> BY <1>6, <1>7, <2>2, Frames DEF rows
  <2>3. CASE /\ RunTo(run.at, run.listed, run.left, run.swept, run.failed, FALSE)
             /\ run'.items = run.items /\ Current' = Current
    <3>1. /\ run'.at = run.at /\ run'.listed = run.listed /\ run'.left = run.left /\ run'.failed = run.failed
          /\ run'.clean = FALSE
      BY <2>3 DEF RunTo
    <3> QED BY <1>1, <1>2, <1>4, <2>1, <2>3, <3>1
  <2> QED BY <1>7, <2>2, <2>3, PhasesAre
<1>8. CASE ReconcileStep
  <2>1. CASE BeginRun
    <3>1. apis' = Stale(apis) BY <2>1, Frames
    <3>2. NoneFresh(apis') /\ Retired(apis, apis') = {} BY <1>1, <3>1, StaleIs DEF NoneFresh
    <3>3. run'.at = "apis" /\ run'.listed = <<>> BY <2>1, BeginRunIs DEF RunTo
    <3>4. FreshLive(apis') BY <3>2 DEF NoneFresh, FreshLive
    <3> QED BY <1>2, <3>2, <3>3, <3>4 DEF APIsKept
  <2>2. CASE List("apis", SpecsOf)
    <3>1. PICK l : l = Listed("apis") OBVIOUS
    <3>2. /\ run.at = "apis" /\ run.listed = <<>>
          /\ RunTo("apis", [kind |-> "apis", of |-> l], Known("apis"), run.swept, run.failed, run.clean)
          /\ run'.left # {} => run'.items = SpecsOf(run'.listed.of[Current'])
      BY <2>2, <3>1, ListIs
    <3>3. run'.at = "apis" /\ run'.listed.of = l /\ run'.left = DOMAIN l /\ run'.failed = run.failed
      BY <3>1, <3>2, ListedIs DEF RunTo
    <3>4. apis' = apis BY <2>2, Frames DEF rows
    <3>5. NoneFresh(apis) BY <1>1, <3>2
    <3>6. run'.left # {} => Current' \in run'.left
      <4>1. \A S : S # {} => ChosenOf(S) \in S BY DEF ChosenOf
      <4> QED BY <4>1, ChosenIs
    <3>7. APIsWork(apis, l, DOMAIN l, Current', run'.items, run.failed) BY <3>2, <3>3, <3>5, <3>6, APIsBegin
    <3> QED BY <1>1, <1>2, <1>4, <3>3, <3>4, <3>5, <3>7
  <2>3. CASE UpsertDerivedAPI
    <3>1. /\ run.at = "apis" /\ run.listed # <<>> /\ Current \in run.left /\ Item \in run.items
          /\ Same /\ run'.items = run.items \ {Item} /\ Current' = Current
      BY <2>3, UpsertsAre
    <3>2. apis' = Upserted(apis, <<Current, Item.path>>, Item) BY <2>3 DEF UpsertDerivedAPI
    <3>3. run.left \in SUBSET DOMAIN run.listed.of BY <3>1 DEF RunOK
    <3>4. APIsWork(apis', run.listed.of, run.left, Current, run.items \ {Item}, run.failed)
      BY <1>1, <3>1, <3>2, <3>3, APIsUpsert
    <3>5. FreshLive(apis') /\ Retired(apis, apis') = {} BY <1>1, <3>2, UpsertIs DEF FreshLive
    <3> QED BY <1>2, <3>1, <3>4, <3>5 DEF Same, RunTo, APIsKept
  <2>4. CASE SweepDerivedAPIs
    <3>1. /\ run.at = "apis" /\ run.listed # <<>> /\ Current \in run.left /\ run.items = {}
          /\ RunTo(run.at, run.listed, run.left \ {Current}, run.swept, run.failed, run.clean)
          /\ run'.left # {} => run'.items = SpecsOf(run'.listed.of[Current'])
      BY <2>4, MovesAre
    <3>2. PICK l, w : l = run.listed.of /\ w = WholeOf(l) OBVIOUS
    <3>3. apis' = SweptOf(apis, Current, w) BY <2>4, <3>2, SweepsAre
    <3>4. run.left \in SUBSET DOMAIN l /\ run.listed.kind = "apis" BY <3>1, <3>2 DEF RunOK
    <3>5. run'.left = run.left \ {Current} /\ run'.listed = run.listed /\ run'.failed = run.failed /\ run'.at = "apis"
      BY <3>1 DEF RunTo
    <3>6. run'.left # {} => Current' \in run'.left
      <4>1. \A S : S # {} => ChosenOf(S) \in S BY DEF ChosenOf
      <4> QED BY <4>1, ChosenIs
    <3>7. APIsNext(l, run.left \ {Current}, Current', run'.items)
      BY <3>1, <3>2, <3>5, <3>6 DEF APIsNext
    <3>8. APIsWork(apis, l, run.left, Current, run.items, run.failed) BY <1>1, <3>1, <3>2
    <3>9. /\ FreshLive(apis')
          /\ APIsWork(apis', l, run.left \ {Current}, Current', run'.items, run.failed)
          /\ \A x \in Retired(apis, apis') : x.id[1] = Current /\ Current \in WholeOf(l) /\ x.id \notin APINames(l)[Current]
      <4>1. PICK T, cur, left, items, next, more, failed :
               /\ T = apis /\ cur = Current /\ left = run.left /\ items = run.items /\ next = Current' /\ more = run'.items
               /\ failed = run.failed
        OBVIOUS
      <4>2. /\ RowsOK(T) /\ FreshLive(T) /\ left \in SUBSET DOMAIN l /\ cur \in left /\ items = {}
            /\ APIsWork(T, l, left, cur, items, failed) /\ APIsNext(l, left \ {cur}, next, more)
        BY <1>1, <3>1, <3>4, <3>7, <3>8, <4>1
      <4>3. /\ FreshLive(SweptOf(T, cur, WholeOf(l)))
            /\ APIsWork(SweptOf(T, cur, WholeOf(l)), l, left \ {cur}, next, more, failed)
            /\ \A x \in Retired(T, SweptOf(T, cur, WholeOf(l))) :
                  x.id[1] = cur /\ cur \in WholeOf(l) /\ x.id \notin APINames(l)[cur]
        BY <4>2, APIsSweep
      <4>4. apis' = SweptOf(T, cur, WholeOf(l)) BY <3>2, <3>3, <4>1
      <4> QED BY <4>1, <4>3, <4>4
    <3>10. ApisOK' BY <1>2, <3>1, <3>2, <3>5, <3>9
    <3>11. ASSUME NEW x \in Retired(apis, apis'), AsListed(x.id[1])
           PROVE  fact[x.id[1]]["apis"].complete /\ x.id \notin NamedAPIs(x.id[1])
      <4>1. x.id[1] = Current /\ Current \in WholeOf(l) /\ x.id \notin APINames(l)[Current] BY <3>9
      <4>2. Current \in DOMAIN l /\ l[Current] = fact[Current]["apis"] BY <3>2, <3>4, <3>11, <4>1 DEF AsListed
      <4>3. l[Current].complete BY <4>1 DEF WholeOf
      <4>4. APINames(l)[Current] = NamedAPIs(Current) BY <4>2, APINamesOwn DEF NamedAPIs
      <4> QED BY <4>1, <4>2, <4>3, <4>4
    <3> QED BY <3>10, <3>11 DEF APIsKept
  <2>5. CASE ResourcesPhase
    <3>1. run.at = "apis" /\ run.listed # <<>> /\ run.left = {} /\ RunTo("resources", <<>>, {}, run.swept, run.failed, run.clean)
      BY <2>5, PhasesAre
    <3>2. apis' = apis /\ fact' = fact BY <2>5, Frames DEF rows
    <3>3. ASSUME run.clean PROVE FollowsAPIs
      <4>1. run.failed = {} /\ run.listed.of = Listed("apis") BY <3>1, <3>3 DEF RunOK
      <4>2. \A r \in DOMAIN run.listed.of : Holds(apis, r, APINames(run.listed.of), WholeOf(run.listed.of))
        BY <1>1, <3>1, <4>1 DEF APIsWork, InWork
      <4> QED BY <4>1, <4>2, ListedIs DEF FollowsAPIs
    <3> QED BY <1>1, <1>2, <1>3, <1>4, <3>1, <3>2, <3>3 DEF RunTo
  <2>6. CASE SkipRepository
    <3>1. /\ run.at \in {"apis", "resources"} /\ run.listed # <<>> /\ Current \in run.left
          /\ RunTo(run.at, run.listed, run.left \ {Current}, run.swept, run.failed \union {Current}, FALSE)
          /\ run'.left # {} /\ run.at = "apis" => run'.items = SpecsOf(run'.listed.of[Current'])
      BY <2>6, MovesAre
    <3>2. apis' = apis BY <2>6, Frames DEF rows
    <3>3. /\ run'.left = run.left \ {Current} /\ run'.listed = run.listed /\ run'.failed = run.failed \union {Current}
          /\ run'.at = run.at /\ run'.clean = FALSE
      BY <3>1 DEF RunTo
    <3>4. CASE run.at = "apis"
      <4>1. run.left \in SUBSET DOMAIN run.listed.of BY <3>1 DEF RunOK
      <4>2. run'.left # {} => Current' \in run'.left
        <5>1. \A S : S # {} => ChosenOf(S) \in S BY DEF ChosenOf
        <5> QED BY <5>1, ChosenIs
      <4>3. APIsNext(run.listed.of, run.left \ {Current}, Current', run'.items)
        BY <3>1, <3>3, <3>4, <4>2 DEF APIsNext
      <4>4. APIsWork(apis, run.listed.of, run.left, Current, run.items, run.failed) BY <1>1, <3>1, <3>4
      <4>5. APIsWork(apis, run.listed.of, run.left \ {Current}, Current', run'.items, run.failed \union {Current})
        BY <3>1, <4>1, <4>3, <4>4, APIsSkip
      <4> QED BY <1>1, <1>2, <1>4, <3>1, <3>2, <3>3, <3>4, <4>5
    <3>5. CASE run.at # "apis" BY <1>1, <1>2, <1>4, <3>2, <3>3, <3>5
    <3> QED BY <3>4, <3>5
  <2>7. ASSUME UNCHANGED <<apis, fact>>, run'.at # "apis",
               run'.at = "idle" \/ (run.at \in {"resources", "hosts"} /\ (run'.clean => run.clean))
        PROVE  ApisOK' /\ APIsKept
    BY <1>1, <1>2, <1>3, <1>4, <2>7
  <2>8. CASE List("resources", FindingsOf) BY <2>7, <2>8, ListIs, Frames DEF RunTo, rows
  <2>9. CASE UpsertDerivedResource \/ UpsertDerivedRepositoryResource \/ UpsertDerivedRelationship
    <3>1. Same /\ run.at \in {"resources", "hosts"} BY <2>9, UpsertsAre
    <3>2. UNCHANGED <<apis, fact>> BY <2>9, Frames
    <3> QED BY <2>7, <3>1, <3>2 DEF Same, RunTo
  <2>10. CASE SweepDerivedRepositoryResources BY <2>7, <2>10, MovesAre, Frames DEF RunTo
  <2>11. CASE RetireOrphanResources
    <3>1. run.at = "resources" /\ run'.at = "hosts" /\ (run'.clean => run.clean) BY <2>11, PhasesAre DEF RunTo
    <3> QED BY <2>7, <2>11, <3>1, Frames
  <2>12. CASE ListHosts BY <2>7, <2>12, PhasesAre, Frames DEF RunTo, rows
  <2>13. CASE SweepDerivedRelationships \/ EndRun BY <2>7, <2>13, PhasesAre, Frames DEF RunTo, rows
  <2> QED BY <1>8, <2>1, <2>2, <2>3, <2>4, <2>5, <2>6, <2>8, <2>9, <2>10, <2>11, <2>12, <2>13 DEF ReconcileStep
<1>9. CASE Sync \/ CrashSync BY <1>6, <1>9, Frames
<1>10. CASE UNCHANGED vars BY <1>6, <1>10 DEF vars, rows
<1> QED BY <1>7, <1>8, <1>9, <1>10 DEF Next

-----------------------------------------------------------------------------
(* The links and the resources *)

LEMMA LinkNamesOwn == \A l : OwnNames(LinkNames(l)) /\ DOMAIN LinkNames(l) = DOMAIN l
                             /\ \A r \in DOMAIN l : LinkNames(l)[r] = {LinkId(r, x.finding) : x \in l[r].data.resources}
<1>1. \A r, f : LinkId(r, f)[1] = r BY DEF LinkId
<1> QED BY <1>1 DEF OwnNames, LinkNames

LEMMA FindingsAre ==
    ASSUME NEW f
    PROVE  /\ \A i \in FindingsOf(f) : FindingOf(i, f) /\ i.what = "resource"
           /\ \A x \in f.data.resources : \E i \in FindingsOf(f) : i.found = x.finding
<1>1. ASSUME NEW x \in f.data.resources
      PROVE  /\ [what |-> "resource", found |-> x.finding] \in FindingsOf(f)
             /\ FindingOf([what |-> "resource", found |-> x.finding], f)
  BY DEF FindingsOf, FindingOf
<1>2. \A i \in FindingsOf(f) : \E x \in f.data.resources : i = [what |-> "resource", found |-> x.finding]
  BY DEF FindingsOf
<1>3. ASSUME NEW i \in FindingsOf(f) PROVE FindingOf(i, f) /\ i.what = "resource"
  <2>1. PICK x \in f.data.resources : i = [what |-> "resource", found |-> x.finding] BY <1>2
  <2>2. i.what = "resource" BY <2>1
  <2> QED BY <1>1, <2>1, <2>2
<1>4. ASSUME NEW x \in f.data.resources PROVE \E i \in FindingsOf(f) : i.found = x.finding
  <2>1. PICK i : i = [what |-> "resource", found |-> x.finding] OBVIOUS
  <2>2. i \in FindingsOf(f) /\ i.found = x.finding BY <1>1, <2>1
  <2> QED BY <2>2
<1> QED BY <1>3, <1>4

\* The findings of the next repository, if there is one.
LinksNext(l, left, next, items) == left # {} => next \in left /\ items = FindingsOf(l[next])

LEMMA LinksPending ==
    ASSUME NEW l, NEW left \in SUBSET DOMAIN l, NEW next, NEW items, LinksNext(l, left, next, items)
    PROVE  /\ Starts(left, next, LinkNames(l), {LinkId(next, i.found) : i \in items})
           /\ left # {} => \A i \in items : FindingOf(i, l[next]) /\ i.what = "resource"
<1> SUFFICES ASSUME left # {}
             PROVE  /\ LinkNames(l)[next] \subseteq {LinkId(next, i.found) : i \in items}
                    /\ \A i \in items : FindingOf(i, l[next]) /\ i.what = "resource"
  BY DEF Starts
<1>1. next \in DOMAIN l /\ items = FindingsOf(l[next]) BY DEF LinksNext
<1>2. LinkNames(l)[next] = {LinkId(next, x.finding) : x \in l[next].data.resources} BY <1>1, LinkNamesOwn
<1> QED BY <1>1, <1>2, FindingsAre

LEMMA LinksBegin ==
    ASSUME NEW T, NoneFresh(T), NEW ids, NEW l, NEW cur, NEW items, NEW failed, LinksNext(l, DOMAIN l, cur, items)
    PROVE  LinksWork(T, ids, l, DOMAIN l, cur, items, failed)
<1>1. /\ Starts(DOMAIN l, cur, LinkNames(l), {LinkId(cur, i.found) : i \in items})
      /\ DOMAIN l # {} => \A i \in items : FindingOf(i, l[cur]) /\ i.what = "resource"
  BY LinksPending
<1>2. InWork(T, DOMAIN l, cur, {LinkId(cur, i.found) : i \in items}, LinkNames(l), WholeOf(l), {})
  BY <1>1, WorkBegins DEF NoneFresh, Starts
<1>3. DOMAIN l \ (DOMAIN l \union failed) = {} OBVIOUS
<1> QED BY <1>1, <1>2, <1>3 DEF LinksWork

LEMMA LinksResource ==
    ASSUME NEW T, NEW ids, NEW l, NEW left, NEW cur \in left, NEW items, NEW failed,
           LinksWork(T, ids, l, left, cur, items, failed), NEW item \in items
    PROVE  LinksWork(T, ids \union {ResourceId(cur, item.found)}, l, left, cur,
                     (items \ {item}) \union {[item EXCEPT !.what = "link"]}, failed)
<1> DEFINE new == [item EXCEPT !.what = "link"]
           rest == (items \ {item}) \union {new}
<1>1. \A i \in items : FindingOf(i, l[cur]) /\ (i.what = "link" => ResourceId(cur, i.found) \in ids) BY DEF LinksWork
<1>2. DOMAIN new = {"what", "found"} /\ new.what = "link" /\ new.found = item.found BY <1>1 DEF FindingOf
<1> HIDE DEF new
<1>3. FindingOf(new, l[cur]) BY <1>1, <1>2 DEF FindingOf
<1>4. \A i \in rest : FindingOf(i, l[cur])
                      /\ (i.what = "link" => ResourceId(cur, i.found) \in ids \union {ResourceId(cur, item.found)})
  BY <1>1, <1>2, <1>3
<1>5. {LinkId(cur, i.found) : i \in rest} = {LinkId(cur, i.found) : i \in items}
  <2>1. \A i \in rest : \E j \in items : i.found = j.found BY <1>2
  <2>2. \A j \in items : \E i \in rest : i.found = j.found BY <1>2
  <2> HIDE DEF rest
  <2> QED BY <2>1, <2>2
<1> HIDE DEF rest
<1> QED BY <1>4, <1>5 DEF LinksWork, rest, new

LEMMA LinksUpsert ==
    ASSUME NEW T, RowsOK(T), NEW ids, NEW l, NEW left \in SUBSET DOMAIN l, NEW cur \in left, NEW items, NEW failed,
           LinksWork(T, ids, l, left, cur, items, failed), NEW item \in items, NEW data
    PROVE  LinksWork(Upserted(T, LinkId(cur, item.found), data), ids, l, left, cur, items \ {item}, failed)
<1> DEFINE done == DOMAIN l \ (left \union failed)
           pending == {LinkId(cur, i.found) : i \in items}
           rest == {LinkId(cur, i.found) : i \in items \ {item}}
<1>1. cur \in DOMAIN LinkNames(l) /\ OwnNames(LinkNames(l)) /\ cur \notin done BY LinkNamesOwn
<1>2. \A i \in items : FindingOf(i, l[cur]) /\ (i.what = "link" => ResourceId(cur, i.found) \in ids) BY DEF LinksWork
<1>3. LinkId(cur, item.found) \in LinkNames(l)[cur]
  <2>1. PICK x \in l[cur].data.resources : item.found = x.finding BY <1>2 DEF FindingOf
  <2> QED BY <2>1, LinkNamesOwn
<1>4. pending \ {LinkId(cur, item.found)} \subseteq rest OBVIOUS
<1>5. InWork(T, left, cur, pending, LinkNames(l), WholeOf(l), done) BY DEF LinksWork
<1> HIDE DEF done, pending, rest
<1>6. InWork(Upserted(T, LinkId(cur, item.found), data), left, cur, rest, LinkNames(l), WholeOf(l), done)
  BY <1>1, <1>3, <1>4, <1>5, WorkUpserts
<1> QED BY <1>2, <1>6 DEF LinksWork, done, rest

LEMMA SweptIds == ASSUME NEW T, RowsOK(T), NEW cur, NEW whole
                  PROVE  \A y \in SweptOf(T, cur, whole) : \E x \in T : y.id = x.id
<1>1. ASSUME NEW K \in SUBSET T PROVE \A y \in Killed(T, K) : \E x \in T : y.id = x.id BY KilledIs
<1> QED BY <1>1 DEF SweptOf

LEMMA LinksSweep ==
    ASSUME NEW T, RowsOK(T), FreshLive(T), NEW ids, NEW l, NEW left \in SUBSET DOMAIN l, NEW cur \in left, NEW items, items = {},
           NEW failed, LinksWork(T, ids, l, left, cur, items, failed), NEW next, NEW more, LinksNext(l, left \ {cur}, next, more)
    PROVE  /\ FreshLive(SweptOf(T, cur, WholeOf(l)))
           /\ LiveIds(SweptOf(T, cur, WholeOf(l))) \subseteq LiveIds(T)
           /\ \A y \in SweptOf(T, cur, WholeOf(l)) : \E x \in T : y.id = x.id
           /\ LinksWork(SweptOf(T, cur, WholeOf(l)), ids, l, left \ {cur}, next, more, failed)
           /\ \A x \in Retired(T, SweptOf(T, cur, WholeOf(l))) :
                 x.id[1] = cur /\ cur \in WholeOf(l) /\ x.id \notin LinkNames(l)[cur]
<1> DEFINE done == DOMAIN l \ (left \union failed)
           pending == {LinkId(next, i.found) : i \in more}
           names == LinkNames(l)
           whole == WholeOf(l)
<1>1. cur \in DOMAIN names /\ OwnNames(names) /\ cur \notin done BY LinkNamesOwn
<1>2. InWork(T, left, cur, {}, names, whole, done)
  <2>1. {LinkId(cur, i.found) : i \in items} = {} OBVIOUS
  <2> QED BY <2>1 DEF LinksWork
<1>3. /\ Starts(left \ {cur}, next, names, pending)
      /\ left \ {cur} # {} => \A i \in more : FindingOf(i, l[next]) /\ i.what = "resource"
  BY LinksPending
<1>4. DOMAIN l \ ((left \ {cur}) \union failed) \subseteq done \union {cur} OBVIOUS
<1> HIDE DEF done, pending, names, whole
<1>5. /\ FreshLive(SweptOf(T, cur, whole))
      /\ LiveIds(SweptOf(T, cur, whole)) \subseteq LiveIds(T)
      /\ \A y \in SweptOf(T, cur, whole) : \E x \in T : y.id = x.id
      /\ InWork(SweptOf(T, cur, whole), left \ {cur}, next, pending, names, whole, done \cup {cur})
      /\ \A x \in Retired(T, SweptOf(T, cur, whole)) : x.id[1] = cur /\ cur \in whole /\ x.id \notin names[cur]
  <2>1. PICK n, w, d, p : n = names /\ w = whole /\ d = done /\ p = pending OBVIOUS
  <2>2. /\ cur \in DOMAIN n /\ OwnNames(n) /\ cur \notin d
        /\ InWork(T, left, cur, {}, n, w, d) /\ Starts(left \ {cur}, next, n, p)
    BY <1>1, <1>2, <1>3, <2>1
  <2>3. /\ FreshLive(SweptOf(T, cur, w))
        /\ InWork(SweptOf(T, cur, w), left \ {cur}, next, p, n, w, d \cup {cur})
        /\ \A x \in Retired(T, SweptOf(T, cur, w)) : x.id[1] = cur /\ cur \in w /\ x.id \notin n[cur]
    BY <2>2, WorkSweeps
  <2>4. LiveIds(SweptOf(T, cur, w)) \subseteq LiveIds(T) BY <2>2, WorkSweeps
  <2>5. \A y \in SweptOf(T, cur, w) : \E x \in T : y.id = x.id BY SweptIds
  <2> QED BY <2>1, <2>3, <2>4, <2>5
<1>6. InWork(SweptOf(T, cur, whole), left \ {cur}, next, pending, names, whole, DOMAIN l \ ((left \ {cur}) \union failed))
  BY <1>4, <1>5, WorkLess
<1>7. LinksWork(SweptOf(T, cur, whole), ids, l, left \ {cur}, next, more, failed)
  BY <1>3, <1>6 DEF LinksWork, pending, names, whole
<1> QED BY <1>5, <1>7 DEF names, whole

LEMMA LinksSkip ==
    ASSUME NEW T, NEW ids, NEW l, NEW left \in SUBSET DOMAIN l, NEW cur \in left, NEW items, NEW failed,
           LinksWork(T, ids, l, left, cur, items, failed), NEW next, NEW more, LinksNext(l, left \ {cur}, next, more)
    PROVE  LinksWork(T, ids, l, left \ {cur}, next, more, failed \union {cur})
<1> DEFINE done == DOMAIN l \ (left \union failed)
           pending == {LinkId(next, i.found) : i \in more}
<1>1. PICK some : InWork(T, left, cur, some, LinkNames(l), WholeOf(l), done) BY DEF LinksWork
<1>2. /\ Starts(left \ {cur}, next, LinkNames(l), pending)
      /\ left \ {cur} # {} => \A i \in more : FindingOf(i, l[next]) /\ i.what = "resource"
  BY LinksPending
<1>3. DOMAIN l \ ((left \ {cur}) \union (failed \union {cur})) \subseteq done OBVIOUS
<1> HIDE DEF done, pending
<1>4. InWork(T, left \ {cur}, next, pending, LinkNames(l), WholeOf(l), done) BY <1>1, <1>2, WorkSkips DEF Starts
<1>5. InWork(T, left \ {cur}, next, pending, LinkNames(l), WholeOf(l), DOMAIN l \ ((left \ {cur}) \union (failed \union {cur})))
  BY <1>3, <1>4, WorkLess
<1> QED BY <1>2, <1>5 DEF LinksWork, pending

LinksKept ==
    \A x \in Retired(links, links') :
        AsListed(x.id[1]) => fact[x.id[1]]["resources"].complete /\ x.id \notin NamedLinks(x.id[1])
ResourcesKept ==
    \A x \in Retired(resources, resources') : \A r \in Known("resources") :
        AsListed(r) /\ r \notin run.failed => x.id \notin NamedResources(r)

\* What LinksSound says of a pair of tables.
Led(L, R) == (\A l \in L : LinkShape(l.id)) /\ (\A i \in LiveIds(L) : i[2] \in LiveIds(R))

LEMMA LinkOfNamed ==
    ASSUME CatalogAssumption, NEW r \in Repos, NEW f, ~f.scoped => f.locator.host # <<>>
    PROVE  LinkShape(LinkId(r, f)) /\ LinkId(r, f)[1] = r /\ LinkId(r, f)[2] = ResourceId(r, f)
<1>1. LinkId(r, f)[1] = r /\ LinkId(r, f)[2] = ResourceId(r, f) /\ LinkId(r, f)[5] = f.locator.host BY DEF LinkId
<1>2. CASE f.scoped
  <2>1. ResourceId(r, f) = <<r, f.locator.engine, f.name>> BY <1>2 DEF ResourceId
  <2>2. ResourceId(r, f)[1] = r BY <2>1
  <2>3. r # "shared" BY DEF CatalogAssumption
  <2> QED BY <1>1, <2>2, <2>3 DEF LinkShape
<1>3. CASE ~f.scoped
  <2>1. ResourceId(r, f) = <<"shared", f.locator>> BY <1>3 DEF ResourceId
  <2>2. ResourceId(r, f)[1] = "shared" BY <2>1
  <2> QED BY <1>1, <1>3, <2>2 DEF LinkShape
<1> QED BY <1>2, <1>3

LEMMA LedUpserts ==
    ASSUME NEW L, NEW R, RowsOK(L), RowsOK(R), Led(L, R), NEW id, NEW data
    PROVE  /\ Led(L, Upserted(R, id, data))
           /\ LinkShape(id) /\ id[2] \in LiveIds(R) => Led(Upserted(L, id, data), R)
<1>1. LiveIds(Upserted(R, id, data)) = LiveIds(R) \cup {id} BY UpsertIs
<1>2. /\ LiveIds(Upserted(L, id, data)) = LiveIds(L) \cup {id}
      /\ \A y \in Upserted(L, id, data) : (y.id = id /\ y.live /\ y.fresh) \/ (y \in L /\ y.id # id)
  BY UpsertIs
<1> QED BY <1>1, <1>2 DEF Led

LEMMA LedSweeps ==
    ASSUME NEW L, NEW R, RowsOK(L), RowsOK(R), Led(L, R)
    PROVE  /\ Led(Stale(L), Stale(R))
           /\ \A S : LiveIds(S) \subseteq LiveIds(L) /\ (\A y \in S : \E x \in L : y.id = x.id) => Led(S, R)
           /\ Led(L, Killed(R, {x \in R : ~\E l \in Live(L) : l.id[2] = x.id}))
           /\ LiveIds(Killed(R, {x \in R : ~\E l \in Live(L) : l.id[2] = x.id})) = {i[2] : i \in LiveIds(L)}
<1>1. LiveIds(Stale(R)) = LiveIds(R) BY StaleIs
<1>2. LiveIds(Stale(L)) = LiveIds(L) /\ \A y \in Stale(L) : \E x \in L : x.id = y.id BY StaleIs
<1>3. Led(Stale(L), Stale(R)) BY <1>1, <1>2 DEF Led
<1>4. ASSUME NEW S, LiveIds(S) \subseteq LiveIds(L), \A y \in S : \E x \in L : y.id = x.id PROVE Led(S, R)
  BY <1>4 DEF Led
<1> DEFINE K == {x \in R : ~\E l \in Live(L) : l.id[2] = x.id}
<1>5. K \in SUBSET R /\ \A x \in R : x \in K <=> ~\E l \in Live(L) : l.id[2] = x.id OBVIOUS
<1> HIDE DEF K
<1>6. LiveIds(Killed(R, K)) = {x.id : x \in Live(R) \ K} BY <1>5, KilledIs
<1>7. LiveIds(Killed(R, K)) = {i[2] : i \in LiveIds(L)}
  <2>1. \A j : j \in LiveIds(Killed(R, K)) => j \in {i[2] : i \in LiveIds(L)} BY <1>5, <1>6 DEF LiveIds, Live
  <2>2. ASSUME NEW i \in LiveIds(L) PROVE i[2] \in LiveIds(Killed(R, K))
    <3>1. PICK l \in Live(L) : l.id = i BY DEF LiveIds
    <3>2. PICK x \in Live(R) : x.id = i[2] BY DEF Led, LiveIds
    <3>3. x \notin K BY <1>5, <3>1, <3>2 DEF Live
    <3> QED BY <1>6, <3>2, <3>3
  <2> QED BY <2>1, <2>2
<1>8. Led(L, Killed(R, K)) BY <1>7 DEF Led
<1> QED BY <1>3, <1>4, <1>7, <1>8 DEF K

LEMMA NextIsLeft == run'.left # {} => Current' \in run'.left
<1>1. \A S : S # {} => ChosenOf(S) \in S BY DEF ChosenOf
<1> QED BY <1>1, ChosenIs

\* A resource that goes is named by none of the repositories whose links are all there.
LEMMA RetiredResources ==
    ASSUME NEW R, RowsOK(R), NEW L, NEW x \in Retired(R, Killed(R, {y \in R : ~\E l \in Live(L) : l.id[2] = y.id})),
           NEW r, NEW f, LinkId(r, f) \in LiveIds(L)
    PROVE  x.id # ResourceId(r, f)
<1>1. LinkId(r, f)[2] = ResourceId(r, f) BY DEF LinkId
<1>2. PICK l \in Live(L) : l.id = LinkId(r, f) BY DEF LiveIds
<1> DEFINE K == {y \in R : ~\E k \in Live(L) : k.id[2] = y.id}
<1>3. K \in SUBSET R /\ \A y \in K : ~\E k \in Live(L) : k.id[2] = y.id OBVIOUS
<1>4. x \in Retired(R, Killed(R, K)) OBVIOUS
<1> HIDE DEF K
<1>5. x \in K BY <1>3, <1>4, KilledIs
<1> QED BY <1>1, <1>2, <1>3, <1>5

LEMMA LinksStep ==
    ASSUME CatalogAssumption, FactsOK, RunOK, TablesOK, LinksSound, LinksOK, [Next]_vars
    PROVE  LinksSound' /\ LinksOK' /\ LinksKept /\ ResourcesKept
<1> DEFINE All == LinksSound' /\ LinksOK' /\ LinksKept /\ ResourcesKept
           Left == run.clean /\ ~run.swept => WholeOf(run.listed.of) \subseteq run.left
           LeftNext == run'.clean /\ ~run'.swept => WholeOf(run'.listed.of) \subseteq run'.left
           Work == LinksWork(links, LiveIds(resources), run.listed.of, run.left, Current, run.items, run.failed)
           WorkNext == LinksWork(links', LiveIds(resources'), run'.listed.of, run'.left, Current', run'.items, run'.failed)
<1>1. /\ FreshLive(links) /\ RowsOK(links) /\ RowsOK(resources) /\ Led(links, resources)
      /\ run.at = "apis" \/ (run.at = "resources" /\ run.listed = <<>>) => NoneFresh(links)
      /\ run.at = "resources" /\ run.listed # <<>> => Work /\ Left
      /\ run.at = "hosts" /\ run.clean => FollowsLinks
  BY DEF LinksOK, LinksSound, TablesOK, Led
<1>2. ASSUME Led(links', resources'), FreshLive(links'),
             run'.at = "apis" \/ (run'.at = "resources" /\ run'.listed = <<>>) => NoneFresh(links'),
             run'.at = "resources" /\ run'.listed # <<>> => WorkNext /\ LeftNext,
             run'.at = "hosts" /\ run'.clean => FollowsLinks'
      PROVE  LinksSound' /\ LinksOK'
  <2>1. LinksSound'
    <3>1. (\A l \in links' : LinkShape(l.id)) /\ (\A i \in LiveIds(links') : i[2] \in LiveIds(resources')) BY <1>2 DEF Led
    <3>2. LiveIds(links)' = LiveIds(links') /\ LiveIds(resources)' = LiveIds(resources') BY DEF LiveIds, Live
    <3> QED BY <3>1, <3>2 DEF LinksSound, LinkShape
  <2>2. LinksOK' BY <1>2 DEF LinksOK
  <2> QED BY <2>1, <2>2
<1>3. UNCHANGED <<fact, links, resources>> => (FollowsLinks' <=> FollowsLinks)
  BY DEF FollowsLinks, Known, Listed
<1>4. UNCHANGED links => LinksKept BY <1>1, RetiredNone DEF LinksKept
<1>5. UNCHANGED resources => ResourcesKept BY <1>1, RetiredNone DEF ResourcesKept
<1> HIDE DEF Left, LeftNext, Work, WorkNext
<1>6. CASE UNCHANGED <<fact, rows, run>>
  <2>1. links' = links /\ resources' = resources /\ run' = run /\ Current' = Current /\ fact' = fact
    BY <1>6, ChosenIs DEF rows
  <2>2. (WorkNext <=> Work) /\ (LeftNext <=> Left) BY <2>1 DEF WorkNext, Work, LeftNext, Left
  <2> QED BY <1>1, <1>2, <1>3, <1>4, <1>5, <2>1, <2>2
<1>7. CASE ExtractOne
  <2>1. links' = links /\ resources' = resources BY <1>7, Frames DEF rows
  <2>2. CASE UNCHANGED <<fact, run, settled>> BY <1>6, <1>7, <2>2, Frames DEF rows
  <2>3. CASE /\ RunTo(run.at, run.listed, run.left, run.swept, run.failed, FALSE)
             /\ run'.items = run.items /\ Current' = Current
    <3>1. /\ run'.at = run.at /\ run'.listed = run.listed /\ run'.left = run.left /\ run'.failed = run.failed
          /\ run'.clean = FALSE
      BY <2>3 DEF RunTo
    <3>2. (WorkNext <=> Work) /\ LeftNext BY <2>1, <2>3, <3>1 DEF WorkNext, Work, LeftNext
    <3> QED BY <1>1, <1>2, <1>4, <1>5, <2>1, <3>1, <3>2
  <2> QED BY <1>7, <2>2, <2>3, PhasesAre
<1>8. CASE ReconcileStep
  <2>1. CASE BeginRun
    <3>1. links' = Stale(links) /\ resources' = Stale(resources) BY <2>1, Frames
    <3>2. NoneFresh(links') /\ Retired(links, links') = {} /\ Retired(resources, resources') = {}
      BY <1>1, <3>1, StaleIs DEF NoneFresh
    <3>3. run'.at = "apis" /\ run'.listed = <<>> BY <2>1, BeginRunIs DEF RunTo
    <3>4. FreshLive(links') BY <3>2 DEF NoneFresh, FreshLive
    <3>5. Led(links', resources') BY <1>1, <3>1, LedSweeps
    <3> QED BY <1>2, <3>2, <3>3, <3>4, <3>5 DEF LinksKept, ResourcesKept
  <2>2. CASE List("resources", FindingsOf)
    <3>1. PICK l : l = Listed("resources") OBVIOUS
    <3>2. /\ run.at = "resources" /\ run.listed = <<>>
          /\ RunTo("resources", [kind |-> "resources", of |-> l], Known("resources"), run.swept, run.failed, run.clean)
          /\ run'.left # {} => run'.items = FindingsOf(run'.listed.of[Current'])
      BY <2>2, <3>1, ListIs
    <3>3. run'.at = "resources" /\ run'.listed.of = l /\ run'.left = DOMAIN l /\ run'.failed = run.failed
      BY <3>1, <3>2, ListedIs DEF RunTo
    <3>4. links' = links /\ resources' = resources BY <2>2, Frames DEF rows
    <3>5. NoneFresh(links) BY <1>1, <3>2
    <3>6. LinksNext(l, DOMAIN l, Current', run'.items) BY <3>2, <3>3, NextIsLeft DEF LinksNext
    <3>7. LinksWork(links, LiveIds(resources), l, DOMAIN l, Current', run'.items, run.failed)
      <4>1. PICK cur, items : cur = Current' /\ items = run'.items OBVIOUS
      <4> QED BY <3>5, <3>6, <4>1, LinksBegin
    <3>8. WorkNext BY <3>3, <3>4, <3>7 DEF WorkNext
    <3>9. LeftNext BY <3>3 DEF LeftNext, WholeOf
    <3> QED BY <1>1, <1>2, <1>4, <1>5, <3>2, <3>3, <3>4, <3>8, <3>9 DEF RunTo
  <2>3. CASE UpsertDerivedResource
    <3>1. /\ run.at = "resources" /\ run.listed # <<>> /\ Current \in run.left /\ Item \in run.items
          /\ Same /\ run'.items = (run.items \ {Item}) \union {[Item EXCEPT !.what = "link"]} /\ Current' = Current
      BY <2>3, UpsertsAre
    <3>2. /\ resources' = Upserted(resources, ResourceId(Current, Item.found), Item.found.name) /\ links' = links
      BY <2>3, Frames DEF UpsertDerivedResource
    <3>3. /\ run'.at = run.at /\ run'.listed = run.listed /\ run'.left = run.left /\ run'.failed = run.failed
          /\ run'.clean = run.clean /\ run'.swept = run.swept
      BY <3>1 DEF Same, RunTo
    <3>4. LiveIds(resources') = LiveIds(resources) \cup {ResourceId(Current, Item.found)} /\ Retired(resources, resources') = {}
      BY <1>1, <3>2, UpsertIs
    <3>5. LinksWork(links, LiveIds(resources) \union {ResourceId(Current, Item.found)}, run.listed.of, run.left, Current,
                    (run.items \ {Item}) \union {[Item EXCEPT !.what = "link"]}, run.failed)
      BY <1>1, <3>1, LinksResource DEF Work
    <3>6. WorkNext BY <3>1, <3>2, <3>3, <3>4, <3>5 DEF WorkNext
    <3>7. LeftNext BY <1>1, <3>1, <3>3 DEF Left, LeftNext
    <3>8. Led(links', resources') BY <1>1, <3>2, LedUpserts
    <3> QED BY <1>1, <1>2, <1>4, <3>1, <3>2, <3>3, <3>4, <3>6, <3>7, <3>8 DEF ResourcesKept
  <2>4. CASE UpsertDerivedRepositoryResource
    <3>1. /\ run.at = "resources" /\ run.listed # <<>> /\ Current \in run.left /\ Item \in run.items /\ Item.what = "link"
          /\ Same /\ run'.items = run.items \ {Item} /\ Current' = Current
      BY <2>4, UpsertsAre
    <3>2. /\ links' = Upserted(links, LinkId(Current, Item.found), Item.found.confidence) /\ resources' = resources
      BY <2>4, Frames DEF UpsertDerivedRepositoryResource
    <3>3. /\ run'.at = run.at /\ run'.listed = run.listed /\ run'.left = run.left /\ run'.failed = run.failed
          /\ run'.clean = run.clean /\ run'.swept = run.swept
      BY <3>1 DEF Same, RunTo
    <3>4. run.left \in SUBSET DOMAIN run.listed.of BY <3>1 DEF RunOK
    <3>5. LinksWork(links', LiveIds(resources), run.listed.of, run.left, Current, run.items \ {Item}, run.failed)
      <4>1. PICK T, ids, l, left, cur, items, failed, item, data :
               /\ T = links /\ ids = LiveIds(resources) /\ l = run.listed.of /\ left = run.left /\ cur = Current /\ items = run.items
               /\ failed = run.failed /\ item = Item /\ data = Item.found.confidence
        OBVIOUS
      <4>2. /\ RowsOK(T) /\ left \in SUBSET DOMAIN l /\ cur \in left /\ LinksWork(T, ids, l, left, cur, items, failed)
            /\ item \in items
        BY <1>1, <3>1, <3>4, <4>1 DEF Work
      <4>3. LinksWork(Upserted(T, LinkId(cur, item.found), data), ids, l, left, cur, items \ {item}, failed)
        BY <4>2, LinksUpsert
      <4> QED BY <3>2, <4>1, <4>3
    <3>6. WorkNext BY <3>1, <3>2, <3>3, <3>5 DEF WorkNext
    <3>7. LeftNext BY <1>1, <3>1, <3>3 DEF Left, LeftNext
    <3>8. FreshLive(links') /\ Retired(links, links') = {} BY <1>1, <3>2, UpsertIs DEF FreshLive
    <3>9. LinkShape(LinkId(Current, Item.found)) /\ LinkId(Current, Item.found)[2] \in LiveIds(resources)
      <4>1. /\ FindingOf(Item, run.listed.of[Current]) /\ ResourceId(Current, Item.found) \in LiveIds(resources)
        BY <1>1, <3>1 DEF Work, LinksWork
      <4>2. PICK x \in run.listed.of[Current].data.resources : Item.found = x.finding BY <4>1 DEF FindingOf
      <4>3. ResourcesNamed(run.listed.of[Current].data) /\ Current \in Repos BY <3>1, <3>4 DEF RunOK, Known
      <4>4. ~Item.found.scoped => Item.found.locator.host # <<>> BY <4>2, <4>3 DEF ResourcesNamed
      <4> QED BY <4>1, <4>3, <4>4, LinkOfNamed
    <3>10. Led(links', resources') BY <1>1, <3>2, <3>9, LedUpserts
    <3> QED BY <1>1, <1>2, <1>5, <3>1, <3>2, <3>3, <3>6, <3>7, <3>8, <3>10 DEF LinksKept
  <2>5. CASE SweepDerivedRepositoryResources
    <3>1. /\ run.at = "resources" /\ run.listed # <<>> /\ Current \in run.left /\ run.items = {}
          /\ RunTo(run.at, run.listed, run.left \ {Current}, run.swept \/ run.listed.of[Current].complete, run.failed, run.clean)
          /\ run'.left # {} => run'.items = FindingsOf(run'.listed.of[Current'])
      BY <2>5, MovesAre
    <3>2. PICK l, w : l = run.listed.of /\ w = WholeOf(l) OBVIOUS
    <3>3. links' = SweptOf(links, Current, w) /\ resources' = resources BY <2>5, <3>2, SweepsAre, Frames
    <3>4. run.left \in SUBSET DOMAIN l /\ run.listed.kind = "resources" BY <3>1, <3>2 DEF RunOK
    <3>5. /\ run'.left = run.left \ {Current} /\ run'.listed = run.listed /\ run'.failed = run.failed /\ run'.at = "resources"
          /\ run'.swept = (run.swept \/ l[Current].complete) /\ run'.clean = run.clean
      BY <3>1, <3>2 DEF RunTo
    <3>6. LinksNext(l, run.left \ {Current}, Current', run'.items) BY <3>1, <3>2, <3>5, NextIsLeft DEF LinksNext
    <3>7. /\ FreshLive(links') /\ LiveIds(links') \subseteq LiveIds(links) /\ \A y \in links' : \E x \in links : y.id = x.id
      <4>1. PICK T, ids, cur, left, items, next, more, failed :
               /\ T = links /\ ids = LiveIds(resources) /\ cur = Current /\ left = run.left /\ items = run.items /\ next = Current'
               /\ more = run'.items /\ failed = run.failed
        OBVIOUS
      <4>2. /\ RowsOK(T) /\ FreshLive(T) /\ left \in SUBSET DOMAIN l /\ cur \in left /\ items = {}
            /\ LinksWork(T, ids, l, left, cur, items, failed) /\ LinksNext(l, left \ {cur}, next, more)
        BY <1>1, <3>1, <3>2, <3>4, <3>6, <4>1 DEF Work
      <4>3. FreshLive(SweptOf(T, cur, WholeOf(l))) /\ LiveIds(SweptOf(T, cur, WholeOf(l))) \subseteq LiveIds(T)
        BY <4>2, LinksSweep
      <4>4. \A y \in SweptOf(T, cur, WholeOf(l)) : \E x \in T : y.id = x.id BY <4>2, SweptIds
      <4>5. links' = SweptOf(T, cur, WholeOf(l)) BY <3>2, <3>3, <4>1
      <4> QED BY <4>1, <4>3, <4>4, <4>5
    <3>8. /\ LinksWork(links', LiveIds(resources), l, run.left \ {Current}, Current', run'.items, run.failed)
          /\ \A x \in Retired(links, links') : x.id[1] = Current /\ Current \in WholeOf(l) /\ x.id \notin LinkNames(l)[Current]
      <4>1. PICK T, ids, cur, left, items, next, more, failed :
               /\ T = links /\ ids = LiveIds(resources) /\ cur = Current /\ left = run.left /\ items = run.items /\ next = Current'
               /\ more = run'.items /\ failed = run.failed
        OBVIOUS
      <4>2. /\ RowsOK(T) /\ FreshLive(T) /\ left \in SUBSET DOMAIN l /\ cur \in left /\ items = {}
            /\ LinksWork(T, ids, l, left, cur, items, failed) /\ LinksNext(l, left \ {cur}, next, more)
        BY <1>1, <3>1, <3>2, <3>4, <3>6, <4>1 DEF Work
      <4>3. /\ LinksWork(SweptOf(T, cur, WholeOf(l)), ids, l, left \ {cur}, next, more, failed)
            /\ \A x \in Retired(T, SweptOf(T, cur, WholeOf(l))) :
                  x.id[1] = cur /\ cur \in WholeOf(l) /\ x.id \notin LinkNames(l)[cur]
        BY <4>2, LinksSweep
      <4>4. links' = SweptOf(T, cur, WholeOf(l)) BY <3>2, <3>3, <4>1
      <4> QED BY <4>1, <4>3, <4>4
    <3>9. WorkNext BY <3>2, <3>3, <3>5, <3>8 DEF WorkNext
    <3>10. LeftNext
      <4>1. Left /\ Current \in DOMAIN l BY <1>1, <3>1, <3>4
      <4> SUFFICES ASSUME run'.clean, ~run'.swept PROVE WholeOf(run'.listed.of) \subseteq run'.left BY DEF LeftNext
      <4>2. ~run.swept /\ ~l[Current].complete /\ run.clean BY <3>5
      <4>3. Current \notin WholeOf(l) BY <4>2 DEF WholeOf
      <4> QED BY <3>2, <3>5, <4>1, <4>2, <4>3 DEF Left
    <3>11. Led(links', resources') BY <1>1, <3>3, <3>7, LedSweeps
    <3>12. ASSUME NEW x \in Retired(links, links'), AsListed(x.id[1])
           PROVE  fact[x.id[1]]["resources"].complete /\ x.id \notin NamedLinks(x.id[1])
      <4>1. x.id[1] = Current /\ Current \in WholeOf(l) /\ x.id \notin LinkNames(l)[Current] BY <3>8
      <4>2. Current \in DOMAIN l /\ l[Current] = fact[Current]["resources"] BY <3>2, <3>4, <3>12, <4>1 DEF AsListed
      <4>3. l[Current].complete BY <4>1 DEF WholeOf
      <4>4. LinkNames(l)[Current] = NamedLinks(Current) BY <4>2, LinkNamesOwn DEF NamedLinks
      <4> QED BY <4>1, <4>2, <4>3, <4>4
    <3>13. LinksSound' /\ LinksOK' BY <1>2, <3>1, <3>5, <3>7, <3>9, <3>10, <3>11
    <3> QED BY <1>5, <3>3, <3>12, <3>13 DEF LinksKept
  <2>6. CASE RetireOrphanResources
    <3>1. PICK K : K = {r \in resources : ~\E l \in Live(links) : l.id[2] = r.id} OBVIOUS
    <3>2. /\ run.at = "resources" /\ run.listed # <<>> /\ run.left = {}
          /\ run'.at = "hosts" /\ (run'.clean => run.clean) /\ run'.listed = <<>>
          /\ run'.clean => resources' = (IF run.swept THEN Killed(resources, K) ELSE resources)
          /\ resources' = resources \/ resources' = Killed(resources, K)
      BY <2>6, <3>1, PhasesAre DEF RunTo
    <3>3. UNCHANGED <<links, fact>> BY <2>6, Frames
    <3>4. Led(links, Killed(resources, K)) /\ LiveIds(Killed(resources, K)) = {i[2] : i \in LiveIds(links)}
      BY <1>1, <3>1, LedSweeps
    <3>5. PICK l : l = run.listed.of OBVIOUS
    <3>6. /\ run.listed.kind = "resources" /\ DOMAIN l \subseteq Known("resources")
          /\ run.clean => run.failed = {} /\ l = Listed("resources")
      BY <3>2, <3>5 DEF RunOK
    <3>7. /\ \A r \in DOMAIN l \ run.failed : Holds(links, r, LinkNames(l), WholeOf(l))
          /\ run.clean /\ ~run.swept => WholeOf(l) = {}
      BY <1>1, <3>2, <3>5 DEF Work, Left, LinksWork, InWork
    <3>8. ASSUME run'.clean PROVE FollowsLinks'
      <4>1. run.failed = {} /\ l = Listed("resources") /\ DOMAIN l = Known("resources") BY <3>2, <3>6, <3>8, ListedIs
      <4>2. \A r \in Known("resources") : Holds(links, r, LinkNames(l), WholeOf(l)) BY <3>7, <4>1
      <4>3. WholeOf(l) # {} => LiveIds(resources') = {x[2] : x \in LiveIds(links)} BY <3>2, <3>4, <3>7, <3>8
      <4>4. Known("resources")' = Known("resources") /\ Listed("resources")' = l BY <3>3, <4>1, FactSame
      <4>5. \A r \in Known("resources")' : Holds(links', r, LinkNames(Listed("resources")'), WholeOf(Listed("resources")'))
        BY <3>3, <4>2, <4>4
      <4>6. WholeOf(Listed("resources")') # {} => LiveIds(resources') = {x[2] : x \in LiveIds(links')}
        BY <3>3, <4>3, <4>4
      <4> QED BY <4>5, <4>6 DEF FollowsLinks, Holds, Mine, LiveIds, Live, LinkNames, WholeOf
    <3>9. ASSUME NEW x \in Retired(resources, resources'), NEW r \in Known("resources"), AsListed(r), r \notin run.failed
          PROVE  x.id \notin NamedResources(r)
      <4>1. resources' = Killed(resources, K)
        <5>1. Retired(resources, resources) = {} BY <1>1, RetiredNone
        <5> QED BY <3>2, <3>9, <5>1
      <4>2. r \in DOMAIN l /\ l[r] = fact[r]["resources"] BY <3>5, <3>6, <3>9 DEF AsListed
      <4>3. \A i \in LinkNames(l)[r] : i \in LiveIds(links) BY <3>7, <3>9, <4>2 DEF Holds, Mine
      <4>4. ASSUME NEW f \in fact[r]["resources"].data.resources PROVE x.id # ResourceId(r, f.finding)
        <5>1. LinkId(r, f.finding) \in LiveIds(links) BY <4>2, <4>3, LinkNamesOwn
        <5> QED BY <1>1, <3>1, <3>9, <4>1, <5>1, RetiredResources
      <4> QED BY <4>4 DEF NamedResources
    <3>10. LinksSound' /\ LinksOK' BY <1>1, <1>2, <3>2, <3>3, <3>4, <3>8
    <3> QED BY <1>4, <3>3, <3>9, <3>10 DEF ResourcesKept
  <2>7. CASE SkipRepository
    <3>1. /\ run.at \in {"apis", "resources"} /\ run.listed # <<>> /\ Current \in run.left
          /\ RunTo(run.at, run.listed, run.left \ {Current}, run.swept, run.failed \union {Current}, FALSE)
          /\ run'.left # {} /\ run.at = "resources" => run'.items = FindingsOf(run'.listed.of[Current'])
      BY <2>7, MovesAre
    <3>2. links' = links /\ resources' = resources BY <2>7, Frames DEF rows
    <3>3. /\ run'.left = run.left \ {Current} /\ run'.listed = run.listed /\ run'.failed = run.failed \union {Current}
          /\ run'.at = run.at /\ run'.clean = FALSE
      BY <3>1 DEF RunTo
    <3>4. CASE run.at = "resources"
      <4>1. run.left \in SUBSET DOMAIN run.listed.of BY <3>1 DEF RunOK
      <4>2. LinksNext(run.listed.of, run.left \ {Current}, Current', run'.items)
        BY <3>1, <3>3, <3>4, NextIsLeft DEF LinksNext
      <4>3. LinksWork(links, LiveIds(resources), run.listed.of, run.left \ {Current}, Current', run'.items,
                      run.failed \union {Current})
        <5>1. PICK ids, l, cur, left, items, next, more, failed :
                 /\ ids = LiveIds(resources) /\ l = run.listed.of /\ cur = Current /\ left = run.left /\ items = run.items
                 /\ next = Current' /\ more = run'.items /\ failed = run.failed
          OBVIOUS
        <5>2. /\ left \in SUBSET DOMAIN l /\ cur \in left
              /\ LinksWork(links, ids, l, left, cur, items, failed) /\ LinksNext(l, left \ {cur}, next, more)
          BY <1>1, <3>1, <3>4, <4>1, <4>2, <5>1 DEF Work
        <5>3. LinksWork(links, ids, l, left \ {cur}, next, more, failed \union {cur}) BY <5>2, LinksSkip
        <5> QED BY <5>1, <5>3
      <4>4. WorkNext BY <3>2, <3>3, <4>3 DEF WorkNext
      <4>5. LeftNext BY <3>3 DEF LeftNext
      <4> QED BY <1>1, <1>2, <1>4, <1>5, <3>1, <3>2, <3>3, <3>4, <4>4, <4>5
    <3>5. CASE run.at # "resources" BY <1>1, <1>2, <1>4, <1>5, <3>1, <3>2, <3>3, <3>5
    <3> QED BY <3>4, <3>5
  <2>8. ASSUME UNCHANGED <<links, resources, fact>>, run'.at = "idle" \/ (run'.at = "hosts" /\ run.at = "hosts")
                   \/ (run'.at = "apis" /\ run.at = "apis") \/ (run'.at = "resources" /\ run.at = "apis" /\ run'.listed = <<>>),
               run'.clean => run.clean \/ run'.at = "idle"
        PROVE  LinksSound' /\ LinksOK' /\ LinksKept /\ ResourcesKept
    <3>1. UNCHANGED links /\ UNCHANGED resources BY <2>8
    <3>2. LinksSound' /\ LinksOK' BY <1>1, <1>2, <1>3, <2>8
    <3> QED BY <1>4, <1>5, <3>1, <3>2
  <2>9. CASE List("apis", SpecsOf) BY <2>8, <2>9, ListIs, Frames DEF RunTo, rows
  <2>10. CASE UpsertDerivedAPI \/ UpsertDerivedRelationship
    <3>1. Same /\ run.at \in {"apis", "hosts"} BY <2>10, UpsertsAre
    <3>2. UNCHANGED <<links, resources, fact>> BY <2>10, Frames
    <3> QED BY <2>8, <3>1, <3>2 DEF Same, RunTo
  <2>11. CASE SweepDerivedAPIs BY <2>8, <2>11, MovesAre, Frames DEF RunTo
  <2>12. CASE ResourcesPhase BY <2>8, <2>12, PhasesAre, Frames DEF RunTo, rows
  <2>13. CASE ListHosts BY <2>8, <2>13, PhasesAre, Frames DEF RunTo, rows
  <2>14. CASE SweepDerivedRelationships \/ EndRun BY <2>8, <2>14, PhasesAre, Frames DEF RunTo, rows
  <2> QED BY <1>8, <2>1, <2>2, <2>3, <2>4, <2>5, <2>6, <2>7, <2>9, <2>10, <2>11, <2>12, <2>13, <2>14 DEF ReconcileStep
<1>9. CASE Sync \/ CrashSync BY <1>6, <1>9, Frames
<1>10. CASE UNCHANGED vars BY <1>6, <1>10 DEF vars, rows
<1> QED BY <1>7, <1>8, <1>9, <1>10 DEF Next

-----------------------------------------------------------------------------
(* The edges *)

LEMMA CallOfEdge ==
    ASSUME NEW x, NEW e, x.id = EdgeId(e), x.data = EdgeData(e)
    PROVE  CallOf(x) = CallIs(e) /\ (Says(e) => SaysWhatIsNamed(x))
<1>1. x.id[1] = e.source /\ x.id[2] = e.target /\ x.id[3] = e.kind BY DEF EdgeId
<1>2. CallOf(x) = CallIs(e) BY <1>1 DEF CallOf, CallIs
<1>3. x.data.confidence = e.confidence /\ x.data.test = e.test BY DEF EdgeData
<1> QED BY <1>1, <1>2, <1>3 DEF Says, SaysWhatIsNamed

\* What is fresh when nothing is left to store is what the facts name.
LEMMA EdgesSwept ==
    ASSUME CatalogAssumption, HostFacts, NEW T, RowsOK(T), FreshLive(T), EdgesWork(T, {}, DeriveConsume(Listed("hosts")))
    PROVE  /\ Calls \subseteq {CallOf(e) : e \in Live(T)}
           /\ Calls = {CallOf(e) : e \in Live(Killed(T, {x \in T : ~x.fresh}))}
           /\ \A e \in Live(Killed(T, {x \in T : ~x.fresh})) : SaysWhatIsNamed(e)
<1> DEFINE D == DeriveConsume(Listed("hosts"))
           K == {x \in T : ~x.fresh}
           S == Killed(T, K)
<1>1. /\ \A e \in D : CallIs(e) \in Calls /\ Says(e)
      /\ \A c \in Calls : \E e \in D : CallIs(e) = c
  BY DerivedAre
<1>2. K \in SUBSET T /\ \A x \in T : x \in K <=> ~x.fresh OBVIOUS
<1>3. /\ \A x \in T : x.fresh => \E e \in D : x.id = EdgeId(e) /\ x.data = EdgeData(e)
      /\ \A e \in D : \E x \in T : x.fresh /\ x.id = EdgeId(e)
  BY DEF EdgesWork
<1> HIDE DEF D, K
<1>4. /\ \A y \in S :
            \/ y \in T /\ y \notin K
            \/ ~y.live /\ \E x \in K : x.id = y.id /\ x.fresh = y.fresh /\ x.data = y.data
      /\ \A x \in T \ K : x \in S
  BY <1>2, KilledIs
<1> HIDE DEF S
<1>5. ASSUME NEW c \in Calls PROVE \E x \in T : x \in S /\ x.live /\ CallOf(x) = c
  <2>1. PICK e \in D : CallIs(e) = c BY <1>1
  <2>2. PICK x \in T : x.fresh /\ x.id = EdgeId(e) BY <1>3
  <2>3. PICK d \in D : x.id = EdgeId(d) /\ x.data = EdgeData(d) BY <1>3, <2>2
  <2>4. CallIs(d) = CallIs(e)
    <3>1. EdgeId(d) = EdgeId(e) BY <2>2, <2>3
    <3>2. d.source = e.source /\ d.target = e.target /\ d.kind = e.kind BY <3>1 DEF EdgeId
    <3> QED BY <3>2 DEF CallIs
  <2>5. CallOf(x) = c BY <2>1, <2>3, <2>4, CallOfEdge
  <2>6. x \in S /\ x.live BY <1>2, <1>4, <2>2 DEF FreshLive
  <2> QED BY <2>5, <2>6
<1>6. ASSUME NEW x \in Live(S) PROVE CallOf(x) \in Calls /\ SaysWhatIsNamed(x)
  <2>1. x \in T /\ x.fresh BY <1>2, <1>4 DEF Live
  <2>2. PICK e \in D : x.id = EdgeId(e) /\ x.data = EdgeData(e) BY <1>3, <2>1
  <2> QED BY <1>1, <2>2, CallOfEdge
<1>7. Calls \subseteq {CallOf(e) : e \in Live(T)} BY <1>5 DEF Live
<1>8. Calls \subseteq {CallOf(e) : e \in Live(S)} BY <1>5 DEF Live
<1>9. {CallOf(e) : e \in Live(S)} \subseteq Calls BY <1>6
<1> QED BY <1>6, <1>7, <1>8, <1>9 DEF S, K

LEMMA EdgesUpsert ==
    ASSUME NEW T, RowsOK(T), NEW items, NEW D, EdgesWork(T, items, D), NEW e \in items
    PROVE  EdgesWork(Upserted(T, EdgeId(e), EdgeData(e)), items \ {e}, D)
<1> DEFINE U == Upserted(T, EdgeId(e), EdgeData(e))
<1>1. /\ RowsOK(U) /\ \E y \in U : y.id = EdgeId(e) /\ y.data = EdgeData(e) /\ y.live /\ y.fresh
      /\ \A y \in U : (y.id = EdgeId(e) /\ y.live /\ y.fresh) \/ (y \in T /\ y.id # EdgeId(e))
      /\ \A x \in T : x.id # EdgeId(e) => x \in U
  BY UpsertIs
<1> HIDE DEF U
<1>2. PICK y \in U : y.id = EdgeId(e) /\ y.data = EdgeData(e) /\ y.fresh BY <1>1
<1>3. e \in D BY DEF EdgesWork
<1>4. \A x \in U : x.fresh => \E d \in D : x.id = EdgeId(d) /\ x.data = EdgeData(d)
  <2> SUFFICES ASSUME NEW x \in U, x.fresh PROVE \E d \in D : x.id = EdgeId(d) /\ x.data = EdgeData(d) OBVIOUS
  <2>1. CASE x.id = EdgeId(e)
    <3>1. x = y BY <1>1, <1>2, <2>1 DEF RowsOK
    <3> QED BY <1>2, <1>3, <3>1
  <2>2. CASE x.id # EdgeId(e) BY <1>1, <2>2 DEF EdgesWork
  <2> QED BY <2>1, <2>2
<1>5. \A d \in D : d \in items \ {e} \/ \E x \in U : x.fresh /\ x.id = EdgeId(d)
  <2> SUFFICES ASSUME NEW d \in D, d \notin items \ {e} PROVE \E x \in U : x.fresh /\ x.id = EdgeId(d) OBVIOUS
  <2>1. CASE EdgeId(d) = EdgeId(e) BY <1>2, <2>1
  <2>2. CASE EdgeId(d) # EdgeId(e)
    <3>1. d # e BY <2>2
    <3>2. PICK x \in T : x.fresh /\ x.id = EdgeId(d) BY <3>1 DEF EdgesWork
    <3> QED BY <1>1, <2>2, <3>2
  <2> QED BY <2>1, <2>2
<1>6. items \ {e} \subseteq D BY DEF EdgesWork
<1> QED BY <1>4, <1>5, <1>6 DEF EdgesWork, U

EdgesKept ==
    \A x \in Retired(edges, edges') :
        (\A r \in Known("hosts") : AsListed(r)) =>
            /\ \A r \in Known("hosts") : fact[r]["hosts"].complete
            /\ CallOf(x) \in Calls => \E e \in Live(edges') : CallOf(e) = CallOf(x)

LEMMA EdgesStep ==
    ASSUME CatalogAssumption, FactsOK, RunOK, TablesOK, EdgesOK, [Next]_vars
    PROVE  EdgesOK' /\ EdgesKept
<1> DEFINE Work == EdgesWork(edges, run.items, DeriveConsume(run.listed.of)) /\ Tabulated(run.listed.of)
           WorkNext == EdgesWork(edges', run'.items, DeriveConsume(run'.listed.of)) /\ Tabulated(run'.listed.of)
<1>1. /\ FreshLive(edges) /\ RowsOK(edges)
      /\ run.at \in {"apis", "resources"} \/ (run.at = "hosts" /\ run.listed = <<>>) => NoneFresh(edges)
      /\ run.at = "hosts" /\ run.listed # <<>> => Work
  BY DEF EdgesOK, TablesOK
<1>2. ASSUME FreshLive(edges'),
             run'.at \in {"apis", "resources"} \/ (run'.at = "hosts" /\ run'.listed = <<>>) => NoneFresh(edges'),
             run'.at = "hosts" /\ run'.listed # <<>> => WorkNext
      PROVE  EdgesOK'
  <2>1. DeriveConsume(run.listed.of)' = DeriveConsume(run'.listed.of)
    OBVIOUS
  <2> QED BY <1>2 DEF EdgesOK
<1>3. UNCHANGED edges => EdgesKept BY <1>1, RetiredNone DEF EdgesKept
<1>d. HostFacts BY DEF FactsOK, HostFacts
<1> HIDE DEF Work, WorkNext
<1>4. CASE UNCHANGED <<edges, run>>
  <2>1. WorkNext <=> Work BY <1>4 DEF WorkNext, Work
  <2> QED BY <1>1, <1>2, <1>3, <1>4, <2>1
<1>5. CASE ExtractOne
  <2>1. edges' = edges BY <1>5, Frames DEF rows
  <2>2. CASE UNCHANGED <<fact, run, settled>> BY <1>4, <2>1, <2>2
  <2>3. CASE RunTo(run.at, run.listed, run.left, run.swept, run.failed, FALSE) /\ run'.items = run.items
    <3>1. run'.at = run.at /\ run'.listed = run.listed /\ run'.items = run.items BY <2>3 DEF RunTo
    <3>2. WorkNext <=> Work BY <2>1, <3>1 DEF WorkNext, Work
    <3> QED BY <1>1, <1>2, <1>3, <2>1, <3>1, <3>2
  <2> QED BY <1>5, <2>2, <2>3, PhasesAre
<1>6. CASE ReconcileStep
  <2>1. CASE BeginRun
    <3>1. edges' = Stale(edges) BY <2>1, Frames
    <3>2. NoneFresh(edges') /\ Retired(edges, edges') = {} BY <1>1, <3>1, StaleIs DEF NoneFresh
    <3>3. run'.at = "apis" BY <2>1, BeginRunIs DEF RunTo
    <3>4. FreshLive(edges') BY <3>2 DEF NoneFresh, FreshLive
    <3> QED BY <1>2, <3>2, <3>3, <3>4 DEF EdgesKept
  <2>2. CASE ListHosts
    <3>1. PICK l : l = Listed("hosts") OBVIOUS
    <3>2. /\ run.at = "hosts" /\ run.listed = <<>> /\ run'.at = "hosts" /\ run'.listed.of = l
          /\ run'.items = DeriveConsume(l)
      BY <2>2, <3>1, PhasesAre DEF RunTo
    <3>3. edges' = edges /\ NoneFresh(edges) BY <1>1, <2>2, <3>2, Frames DEF rows
    <3>4. Tabulated(l) BY <3>1 DEF Tabulated, Listed
    <3>5. EdgesWork(edges, DeriveConsume(l), DeriveConsume(l)) BY <3>3 DEF EdgesWork, NoneFresh
    <3>6. WorkNext BY <3>2, <3>3, <3>4, <3>5 DEF WorkNext
    <3>7. run'.listed # <<>>
      <4>1. run'.listed = [kind |-> "hosts", of |-> l] BY <2>2, <3>1, PhasesAre DEF RunTo
      <4> QED BY <4>1
    <3> QED BY <1>1, <1>2, <1>3, <3>2, <3>3, <3>6, <3>7
  <2>3. CASE UpsertDerivedRelationship
    <3>1. /\ run.at = "hosts" /\ run.listed # <<>> /\ Item \in run.items
          /\ Same /\ run'.items = run.items \ {Item}
      BY <2>3, UpsertsAre
    <3>2. edges' = Upserted(edges, EdgeId(Item), EdgeData(Item)) BY <2>3 DEF UpsertDerivedRelationship, EdgeData
    <3>3. run'.at = run.at /\ run'.listed = run.listed BY <3>1 DEF Same, RunTo
    <3>4. EdgesWork(edges', run.items \ {Item}, DeriveConsume(run.listed.of)) /\ Tabulated(run.listed.of)
      BY <1>1, <3>1, <3>2, EdgesUpsert DEF Work
    <3>5. FreshLive(edges') /\ Retired(edges, edges') = {} BY <1>1, <3>2, UpsertIs DEF FreshLive
    <3>6. WorkNext BY <3>1, <3>3, <3>4 DEF WorkNext
    <3> QED BY <1>2, <3>1, <3>3, <3>5, <3>6 DEF EdgesKept
  <2>4. CASE SweepDerivedRelationships
    <3>1. PICK K, S : K = {x \in edges : ~x.fresh} /\ S = Killed(edges, K) OBVIOUS
    <3>2. /\ run.at = "hosts" /\ run.listed # <<>> /\ run.items = {} /\ run'.at = "idle"
          /\ edges' = IF MaySweep(run.listed.of) THEN S ELSE edges
      BY <2>4, <3>1, PhasesAre, SweepsAre DEF RunTo
    <3>3. FreshLive(S)
      <4>1. \A y \in S : \/ y \in edges /\ y \notin K
                         \/ ~y.live /\ \E x \in K : x.id = y.id /\ x.fresh = y.fresh /\ x.data = y.data
        BY <1>1, <3>1, KilledIs
      <4> QED BY <1>1, <3>1, <4>1 DEF FreshLive
    <3>4. EdgesOK' BY <1>1, <1>2, <3>2, <3>3
    <3>5. ASSUME NEW x \in Retired(edges, edges'), \A r \in Known("hosts") : AsListed(r)
          PROVE  /\ \A r \in Known("hosts") : fact[r]["hosts"].complete
                 /\ CallOf(x) \in Calls => \E e \in Live(edges') : CallOf(e) = CallOf(x)
      <4>1. MaySweep(run.listed.of) /\ edges' = S
        <5>1. Retired(edges, edges) = {} BY <1>1, RetiredNone
        <5> QED BY <3>2, <3>5, <5>1
      <4>2. PICK l : l = run.listed.of OBVIOUS
      <4>3. run.listed.kind = "hosts" /\ DOMAIN l \subseteq Known("hosts") BY <3>2, <4>2 DEF RunOK
      <4>4. \A r \in Known("hosts") : r \in DOMAIN l /\ l[r] = fact[r]["hosts"] BY <3>5, <4>2, <4>3 DEF AsListed
      <4>5. \A r \in Known("hosts") : fact[r]["hosts"].complete BY <4>1, <4>2, <4>4 DEF MaySweep
      <4>6. l = Listed("hosts")
        <5>1. Tabulated(l) /\ DOMAIN l = Known("hosts") BY <1>1, <3>2, <4>2, <4>3, <4>4 DEF Work
        <5>2. l = [r \in Known("hosts") |-> l[r]] BY <5>1 DEF Tabulated
        <5>3. Listed("hosts") = [r \in Known("hosts") |-> fact[r]["hosts"]] BY DEF Listed, Known
        <5> QED BY <4>4, <5>2, <5>3
      <4>7. EdgesWork(edges, {}, DeriveConsume(Listed("hosts"))) BY <1>1, <3>2, <4>2, <4>6 DEF Work
      <4>8. Calls = {CallOf(e) : e \in Live(S)} BY <1>1, <1>d, <3>1, <4>7, EdgesSwept
      <4> QED BY <4>1, <4>5, <4>8
    <3> QED BY <3>4, <3>5 DEF EdgesKept
  <2>5. ASSUME UNCHANGED edges, run'.at = "idle" \/ run.at \in {"apis", "resources"},
               run'.at = "hosts" => run'.listed = <<>>
        PROVE  EdgesOK' /\ EdgesKept
    BY <1>1, <1>2, <1>3, <2>5
  <2>6. CASE List("apis", SpecsOf) \/ List("resources", FindingsOf) BY <2>5, <2>6, ListIs, Frames DEF RunTo, rows
  <2>7. CASE UpsertDerivedAPI \/ UpsertDerivedResource \/ UpsertDerivedRepositoryResource
    <3>1. Same /\ run.at \in {"apis", "resources"} /\ edges' = edges BY <2>7, UpsertsAre, Frames
    <3> QED BY <2>5, <3>1 DEF Same, RunTo
  <2>8. CASE SweepDerivedAPIs \/ SweepDerivedRepositoryResources \/ SkipRepository
    <3>1. run.at \in {"apis", "resources"} /\ run'.at = run.at BY <2>8, MovesAre DEF RunTo
    <3>2. edges' = edges BY <2>8, Frames DEF rows
    <3> QED BY <2>5, <3>1, <3>2
  <2>9. CASE ResourcesPhase \/ RetireOrphanResources
    <3>1. run.at \in {"apis", "resources"} /\ run'.listed = <<>> BY <2>9, PhasesAre DEF RunTo
    <3>2. edges' = edges BY <2>9, Frames DEF rows
    <3> QED BY <2>5, <3>1, <3>2
  <2>10. CASE EndRun BY <2>5, <2>10, PhasesAre, Frames DEF RunTo, rows
  <2> QED BY <1>6, <2>1, <2>2, <2>3, <2>4, <2>6, <2>7, <2>8, <2>9, <2>10 DEF ReconcileStep
<1>7. CASE Sync \/ CrashSync BY <1>4, <1>7, Frames DEF rows
<1>8. CASE UNCHANGED vars BY <1>4, <1>8 DEF vars
<1> QED BY <1>5, <1>6, <1>7, <1>8 DEF Next

-----------------------------------------------------------------------------
(* A run that nothing disturbed *)

LEMMA CallsSame ==
    ASSUME UNCHANGED fact
    PROVE  /\ Calls' = Calls /\ Known("hosts")' = Known("hosts")
           /\ \A e : SaysWhatIsNamed(e)' <=> SaysWhatIsNamed(e)
<1>1. Known("hosts")' = Known("hosts") BY DEF Known
<1>2. ASSUME NEW h, NEW b PROVE Tier(h, b)' = Tier(h, b) BY <1>1 DEF Tier, Alone, Declares, Known
<1>3. ASSUME NEW c PROVE Hits(c)' = Hits(c)
  <2>1. \A h : Tier(h, c.target)' = Tier(h, c.target) BY <1>2
  <2>2. \A h : KindOf(h)' = KindOf(h) OBVIOUS
  <2> QED BY <2>1 DEF Hits
<1>4. Calls' = Calls
  <2>1. \A h, b : Tier(h, b)' = Tier(h, b) BY <1>2
  <2> QED BY <1>1, <2>1 DEF Calls
<1>5. ASSUME NEW e PROVE SaysWhatIsNamed(e)' <=> SaysWhatIsNamed(e)
  <2>1. Hits(CallOf(e))' = Hits(CallOf(e)) BY <1>3
  <2>2. \A h : Tier(h, e.id[2])' = Tier(h, e.id[2]) BY <1>2
  <2> QED BY <2>1, <2>2 DEF SaysWhatIsNamed
<1> QED BY <1>1, <1>4, <1>5

LEMMA SettledStep ==
    ASSUME CatalogAssumption, FactsOK, RunOK, TablesOK, ApisOK, LinksOK, EdgesOK, SettledOK, [Next]_vars
    PROVE  SettledOK'
<1>1. CASE UNCHANGED <<fact, rows, run, settled>>
  <2>1. UNCHANGED <<fact, apis, resources, links, edges>> BY <1>1 DEF rows
  <2>2. FollowsAPIs' <=> FollowsAPIs BY <2>1 DEF FollowsAPIs, Known, Listed
  <2>3. FollowsLinks' <=> FollowsLinks BY <2>1 DEF FollowsLinks, Known, Listed
  <2>4. FollowsCalls' <=> FollowsCalls BY <2>1, CallsSame DEF FollowsCalls
  <2> QED BY <1>1, <2>2, <2>3, <2>4 DEF SettledOK
<1>2. CASE settled' = FALSE BY <1>2 DEF SettledOK
<1>3. CASE run.at # "idle" /\ UNCHANGED settled BY <1>3 DEF SettledOK
<1>4. CASE ExtractOne BY <1>1, <1>2, <1>4, PhasesAre, Frames
<1>5. CASE SweepDerivedRelationships
  <2>1. /\ run.at = "hosts" /\ run.listed # <<>> /\ run.items = {} /\ run'.at = "idle" /\ settled' = run.clean
        /\ edges' = IF MaySweep(run.listed.of) THEN Killed(edges, {x \in edges : ~x.fresh}) ELSE edges
    BY <1>5, PhasesAre, SweepsAre DEF RunTo
  <2>2. UNCHANGED <<fact, apis, resources, links>> BY <1>5, Frames
  <2> SUFFICES ASSUME run.clean PROVE FollowsAPIs' /\ FollowsLinks' /\ FollowsCalls' BY <2>1 DEF SettledOK
  <2>3. FollowsAPIs'
    <3>1. FollowsAPIs BY <2>1 DEF ApisOK
    <3> QED BY <2>2, <3>1 DEF FollowsAPIs, Known, Listed
  <2>4. FollowsLinks'
    <3>1. FollowsLinks BY <2>1 DEF LinksOK
    <3> QED BY <2>2, <3>1 DEF FollowsLinks, Known, Listed
  <2>5. FollowsCalls'
    <3>1. PICK S : S = Killed(edges, {x \in edges : ~x.fresh}) OBVIOUS
    <3>2. HostFacts BY DEF FactsOK, HostFacts
    <3>3. run.listed.of = Listed("hosts") BY <2>1 DEF RunOK
    <3>4. EdgesWork(edges, {}, DeriveConsume(Listed("hosts"))) BY <2>1, <3>3 DEF EdgesOK
    <3>5. /\ Calls \subseteq {CallOf(e) : e \in Live(edges)}
          /\ Calls = {CallOf(e) : e \in Live(S)}
          /\ \A e \in Live(S) : SaysWhatIsNamed(e)
      BY <3>1, <3>2, <3>4, EdgesSwept DEF TablesOK, EdgesOK
    <3>6. MaySweep(run.listed.of) <=> \A r \in Known("hosts") : fact[r]["hosts"].complete
      BY <3>3, ListedIs DEF MaySweep
    <3>7. Calls \subseteq {CallOf(e) : e \in Live(edges')} BY <2>1, <3>1, <3>5
    <3>8. (\A r \in Known("hosts") : fact[r]["hosts"].complete) =>
              /\ Calls = {CallOf(e) : e \in Live(edges')}
              /\ \A e \in Live(edges') : SaysWhatIsNamed(e)
      BY <2>1, <3>1, <3>5, <3>6
    <3>9. {CallOf(e) : e \in Live(edges)}' = {CallOf(e) : e \in Live(edges')} /\ Live(edges)' = Live(edges') OBVIOUS
    <3>10. \A r \in Known("hosts") : fact'[r]["hosts"].complete <=> fact[r]["hosts"].complete BY <2>2
    <3> QED BY <2>2, <3>7, <3>8, <3>9, <3>10, CallsSame DEF FollowsCalls
  <2> QED BY <2>3, <2>4, <2>5
<1>6. CASE BeginRun BY <1>2, <1>6, Frames DEF SettledOK
<1>7. CASE ReconcileStep /\ ~BeginRun /\ ~SweepDerivedRelationships
  <2>1. CASE List("apis", SpecsOf) \/ List("resources", FindingsOf) BY <1>3, <2>1, ListIs, Frames
  <2>2. CASE UpsertDerivedAPI \/ UpsertDerivedResource \/ UpsertDerivedRepositoryResource \/ UpsertDerivedRelationship
    BY <1>3, <2>2, UpsertsAre, Frames
  <2>3. CASE SweepDerivedAPIs \/ SweepDerivedRepositoryResources \/ SkipRepository
    <3>1. run.at # "idle" BY <2>3, MovesAre
    <3> QED BY <1>3, <2>3, <3>1, Frames
  <2>4. CASE ResourcesPhase \/ RetireOrphanResources \/ ListHosts \/ EndRun
    <3>1. run.at # "idle" BY <2>4, PhasesAre
    <3> QED BY <1>3, <2>4, <3>1, Frames
  <2> QED BY <1>7, <2>1, <2>2, <2>3, <2>4 DEF ReconcileStep
<1>8. CASE Sync \/ CrashSync BY <1>1, <1>8, Frames
<1>9. CASE UNCHANGED vars BY <1>1, <1>9 DEF vars, rows
<1> QED BY <1>4, <1>5, <1>6, <1>7, <1>8, <1>9 DEF Next

-----------------------------------------------------------------------------
(* The invariant is inductive, and shows what the runs check *)

LEMMA IInvInit ==
    ASSUME CatalogAssumption, Init
    PROVE  IInv
<1>1. Known("apis") = {} /\ Known("resources") = {} /\ Known("hosts") = {}
  <2>1. "apis" \in ToSet(Kinds) /\ "resources" \in ToSet(Kinds) /\ "hosts" \in ToSet(Kinds) BY KindsAre DEF KindNames
  <2>2. \A r \in Repos, k \in ToSet(Kinds) : fact[r][k].seen = 0 BY DEF Init, NoFact
  <2> QED BY <2>1, <2>2 DEF Known
<1>2. FactsOK BY <1>1, KindsAre DEF FactsOK, Init
<1>3. run = NoRun BY DEF Init
<1>4. RunOK BY <1>3, NoRunIs DEF RunOK
<1>5. TablesOK BY DEF Init, TablesOK, RowsOK
<1>6. ApisOK BY <1>3, NoRunIs DEF Init, ApisOK, FreshLive
<1>7. LinksSound BY DEF Init, LinksSound, LiveIds, Live
<1>8. LinksOK BY <1>3, NoRunIs DEF Init, LinksOK, FreshLive
<1>9. EdgesOK BY <1>3, NoRunIs DEF Init, EdgesOK, FreshLive
<1>10. SettledOK BY DEF Init, SettledOK
<1> QED BY <1>2, <1>4, <1>5, <1>6, <1>7, <1>8, <1>9, <1>10 DEF IInv

LEMMA IInvNext ==
    ASSUME CatalogAssumption, IInv, [Next]_vars
    PROVE  IInv' /\ APIsKept /\ LinksKept /\ ResourcesKept /\ EdgesKept
<1>1. FactsOK /\ RunOK /\ TablesOK /\ ApisOK /\ LinksSound /\ LinksOK /\ EdgesOK /\ SettledOK BY DEF IInv
<1>2. FactsOK' /\ RunOK' /\ TablesOK' BY <1>1, FactsStep, RunStep, TablesStep
<1>3. ApisOK' /\ APIsKept BY <1>1, APIsStep
<1>4. LinksSound' /\ LinksOK' /\ LinksKept /\ ResourcesKept BY <1>1, LinksStep
<1>5. EdgesOK' /\ EdgesKept BY <1>1, EdgesStep
<1>6. SettledOK' BY <1>1, SettledStep
<1> QED BY <1>2, <1>3, <1>4, <1>5, <1>6 DEF IInv

LEMMA IInvShows ==
    ASSUME IInv
    PROVE  CatalogFollowsFacts
<1>1. LinksLead BY DEF IInv, LinksSound, LinkShape, LinksLead, LiveIds, Live
<1> SUFFICES ASSUME settled
             PROVE  /\ \A r \in Known("apis") : /\ NamedAPIs(r) \subseteq Mine(apis, r)
                                                /\ fact[r]["apis"].complete => Mine(apis, r) = NamedAPIs(r)
                    /\ \A r \in Known("resources") : /\ NamedLinks(r) \subseteq Mine(links, r)
                                                     /\ fact[r]["resources"].complete => Mine(links, r) = NamedLinks(r)
                    /\ (\E r \in Known("resources") : fact[r]["resources"].complete) =>
                           LiveIds(resources) = {x[2] : x \in LiveIds(links)}
                    /\ FollowsCalls
  BY <1>1 DEF CatalogFollowsFacts, Mine, FollowsCalls
<1>2. FollowsAPIs /\ FollowsLinks /\ FollowsCalls BY DEF IInv, SettledOK
<1>3. ASSUME NEW r \in Known("apis")
      PROVE  /\ NamedAPIs(r) \subseteq Mine(apis, r)
             /\ fact[r]["apis"].complete => Mine(apis, r) = NamedAPIs(r)
  <2>1. PICK l : l = Listed("apis") OBVIOUS
  <2>2. r \in DOMAIN l /\ l[r] = fact[r]["apis"] BY <2>1, ListedIs
  <2>3. APINames(l)[r] = NamedAPIs(r) /\ (r \in WholeOf(l) <=> fact[r]["apis"].complete)
    BY <2>2, APINamesOwn DEF NamedAPIs, WholeOf
  <2> QED BY <1>2, <2>1, <2>3 DEF FollowsAPIs, Holds
<1>4. ASSUME NEW r \in Known("resources")
      PROVE  /\ NamedLinks(r) \subseteq Mine(links, r)
             /\ fact[r]["resources"].complete => Mine(links, r) = NamedLinks(r)
             /\ fact[r]["resources"].complete => r \in WholeOf(Listed("resources"))
  <2>1. PICK l : l = Listed("resources") OBVIOUS
  <2>2. r \in DOMAIN l /\ l[r] = fact[r]["resources"] BY <2>1, ListedIs
  <2>3. LinkNames(l)[r] = NamedLinks(r) /\ (r \in WholeOf(l) <=> fact[r]["resources"].complete)
    BY <2>2, LinkNamesOwn DEF NamedLinks, WholeOf
  <2> QED BY <1>2, <2>1, <2>3 DEF FollowsLinks, Holds
<1>5. (\E r \in Known("resources") : fact[r]["resources"].complete) => LiveIds(resources) = {x[2] : x \in LiveIds(links)}
  BY <1>2, <1>4 DEF FollowsLinks
<1> QED BY <1>2, <1>3, <1>4, <1>5

(* After a reconciliation that nothing disturbed, the contracts, resources *)
(* and calls of the catalog are what the facts of the repositories name,   *)
(* and at least that where a fact is incomplete; a link always leads to a  *)
(* live resource (Reconcile, reconcileAPIs, reconcileResources and         *)
(* applyEdges of the architecture service).                                *)
THEOREM CatalogFollows ==
    ASSUME CatalogAssumption
    PROVE  Spec => []CatalogFollowsFacts
<1>1. Init => IInv BY IInvInit
<1>2. IInv /\ [Next]_vars => IInv' BY IInvNext
<1>3. IInv => CatalogFollowsFacts BY IInvShows
<1> QED BY <1>1, <1>2, <1>3, PTL DEF Spec

(* A sweep retires a row only when the facts it was derived from are whole *)
(* and none of them names it, whatever syncs store facts and whatever      *)
(* repositories are skipped while it runs (the sweeps of reconcileAPIs,    *)
(* reconcileResources and applyEdges, and RetireOrphanResources).          *)
THEOREM NamedIsKept ==
    ASSUME CatalogAssumption
    PROVE  Spec => NothingNamedIsRetired
<1>1. Init => IInv BY IInvInit
<1>2. IInv /\ [Next]_vars => IInv' BY IInvNext
<1>3. IInv /\ [Next]_vars => APIsKept /\ LinksKept /\ ResourcesKept /\ EdgesKept BY IInvNext
<1>4. APIsKept /\ LinksKept /\ ResourcesKept /\ EdgesKept
        <=> (/\ \A x \in Retired(apis, apis') :
                    AsListed(x.id[1]) => fact[x.id[1]]["apis"].complete /\ x.id \notin NamedAPIs(x.id[1])
             /\ \A x \in Retired(links, links') :
                    AsListed(x.id[1]) => fact[x.id[1]]["resources"].complete /\ x.id \notin NamedLinks(x.id[1])
             /\ \A x \in Retired(resources, resources') : \A r \in Known("resources") :
                    AsListed(r) /\ r \notin run.failed => x.id \notin NamedResources(r)
             /\ \A x \in Retired(edges, edges') :
                    (\A r \in Known("hosts") : AsListed(r)) =>
                        /\ \A r \in Known("hosts") : fact[r]["hosts"].complete
                        /\ CallOf(x) \in Calls => \E e \in Live(edges') : CallOf(e) = CallOf(x))
  BY DEF APIsKept, LinksKept, ResourcesKept, EdgesKept
<1> QED BY <1>1, <1>2, <1>3, <1>4, PTL DEF Spec, NothingNamedIsRetired
=============================================================================

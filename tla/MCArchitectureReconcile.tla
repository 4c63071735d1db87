------------------------ MODULE MCArchitectureReconcile ------------------------
(* A small organization for TLC: a may require the package that b may publish. *)
(* A behaviour is about people who edit the graph while it is derived, about   *)
(* derivations that fail, about who declares relationships or who looks at them *)
EXTENDS ArchitectureReconcile, ViewTables, Sequences

CONSTANTS a, b, n,
          Parts   \* what the behaviours of a run are about

VARIABLES part

viewVars == <<repo, api, link, relation, request, view, touched>>

\* Tree 1 of a requires n and tree 1 of b publishes it; tree 2 of a publishes n
\* itself, and tree 2 of b nothing.
Trees ==
    [r \in {a, b} |-> [s \in {1, 2} |->
        CASE r = a /\ s = 1 -> [pub |-> {}, req |-> {n}]
          [] r = a /\ s = 2 -> [pub |-> {n}, req |-> {n}]
          [] r = b /\ s = 1 -> [pub |-> {n}, req |-> {}]
          [] r = b /\ s = 2 -> [pub |-> {}, req |-> {}]]]

\* With people, and one run less; without people, and whatever fails.
P == INSTANCE ArchitectureReconcile WITH MaxRuns <- MaxRuns - 1
F == INSTANCE ArchitectureReconcile WITH Faults <- {"db", "redis", "read"}

Unattended == (\E r \in Repos, s \in Shas : F!Commit(r, s)) \/ F!Sync \/ F!Reconcile \/ F!Crash

\* Repository 2 is another organization's.
Ask == [what |-> "graph", limit |-> 0, offset |-> 0, team |-> "none", repo |-> 0, kind |-> "none", source |-> "none",
        kinds |-> {}, floor |-> 0]
Graphs ==
    {Ask, [Ask EXCEPT !.kinds = {"api", "resource"}], [Ask EXCEPT !.kinds = {"resource"}, !.floor = 3],
     [Ask EXCEPT !.repo = 1, !.kind = "library", !.source = "manifest"], [Ask EXCEPT !.repo = 2],
     [Ask EXCEPT !.repo = 3, !.kinds = {"team"}], [Ask EXCEPT !.floor = 9, !.kinds = {"repo"}], [Ask EXCEPT !.floor = 8]}
Lists ==
    {[Ask EXCEPT !.what = "list"], [Ask EXCEPT !.what = "list", !.limit = 1, !.offset = 1],
     [Ask EXCEPT !.what = "list", !.team = "core", !.limit = 9], [Ask EXCEPT !.what = "list", !.offset = -1]}
Wish == [op |-> "create", src |-> 1, dst |-> 3, kind |-> "http", confidence |-> 4]
MCWishes ==
    {Wish, [Wish EXCEPT !.dst = 2], [Wish EXCEPT !.dst = 1], [Wish EXCEPT !.op = "update", !.confidence = 1],
     [Wish EXCEPT !.op = "update", !.kind = "friend"], [Wish EXCEPT !.op = "delete"]}

\* What repositories 1 to 4 have.
Organizations == <<"own", "other", "own", "own">>
OneAPI == [x \in {"orders"} |-> 3]
OneLink == {[repo |-> 1, resource |-> "db", confidence |-> 2]}

V == INSTANCE GraphView WITH
        OwnerOf <- <<"core", "core", "none", "none">>, Asks <- Graphs \cup Lists, Wishes <- MCWishes

ASSUME ViewConstants == V!ViewAssumption

\* At most three rows change under a reader, and nobody looks at an old page.
ViewStep == V!Look \/ (view.at # "shown" /\ V!Rows /\ Cardinality(touched') <= 3)

MCInit ==
    /\ Init /\ V!Init /\ part \in Parts
    /\ part \in {"view", "declare"} => head = [r \in Repos |-> 1]

MCNext ==
    /\ \/ part = "people" /\ P!Next /\ UNCHANGED viewVars
       \/ part = "failures" /\ Unattended /\ UNCHANGED viewVars
       \/ part = "declare" /\ (V!Rows \/ V!Declare) /\ UNCHANGED vars
       \/ part = "view" /\ ViewStep /\ UNCHANGED vars
    /\ UNCHANGED part

MCSpec == MCInit /\ [][MCNext]_<<vars, viewVars, part>>
==============================================================================

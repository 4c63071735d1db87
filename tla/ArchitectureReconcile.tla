------------------------ MODULE ArchitectureReconcile ------------------------
(***************************************************************************)
(* The dependency graph of one organization, derived from what its          *)
(* repositories commit (internal/services/architecture_service.go and       *)
(* architecture_packages.go): the facts a sync extracts, the debounced      *)
(* architecture:derive task with one task id per organization, the          *)
(* reconciliation that upserts and sweeps the derived relationships         *)
(* (internal/storage/postgres/postgres_repository.go), and the people who   *)
(* declare, edit and delete relationships at the same time                  *)
(* (internal/services/repository_relationship_service.go).                  *)
(*                                                                         *)
(* A package name stands for (ecosystem, name, manifest path), and an edge   *)
(* for the columns that identify a derived row: source, target, kind,        *)
(* derivation key and fingerprint.  One action is the code between two calls *)
(* to Postgres, Redis or the provider.                                       *)
(***************************************************************************)
EXTENDS Naturals, FiniteSets

CONSTANTS
    Repos,          \* repositories of the organization
    Names,          \* package names
    Shas,           \* trees a repository's default branch may point at
    Content,        \* what a tree publishes and requires
    Syncers,        \* syncs in flight at once
    Clients,        \* relationship requests in flight at once
    Ids,            \* ids of repository_relationships rows, in order of creation
    NoRow,          \* an id that is not used yet
    NoFact,         \* no repository_facts row, or no fact in hand
    Faults,         \* what may fail: "db", "redis", "read" (a provider read)
    MidReadCommits, \* may a commit land between the listing and the file reads?
    MaxRuns,        \* reconciliations started
    MaxCrashes      \* process crashes

Payload == [pub : SUBSET Names, req : SUBSET Names]
Fact == [pub : SUBSET Names, req : SUBSET Names, sha : Shas, complete : BOOLEAN]
Facts == [Repos -> Fact \cup {NoFact}]
Edges == {e \in [src : Repos, dst : Repos, name : Names] : e.src # e.dst}

ASSUME ConstantsAssumption ==
    /\ Repos # {} /\ Shas # {}
    /\ Ids \subseteq Nat \ {0}
    /\ Content \in [Repos -> [Shas -> Payload]]
    /\ Faults \subseteq {"db", "redis", "read"}
    /\ MidReadCommits \in BOOLEAN
    /\ MaxRuns \in Nat /\ MaxCrashes \in Nat
    /\ NoFact \notin Fact

\* A relationship row.  by is "deriver" while derivation_key is set; origin is who
\* inserted the row; text is who wrote its label, source and confidence last.
Authors == {"person", "deriver"}
Row == [edge : Edges, by : Authors, origin : Authors, text : Authors,
        live : BOOLEAN, seen : Nat]

ASSUME NoRowAssumption == NoRow \notin Row

VARIABLES
    head,       \* the tree each default branch points at
    fact,       \* the repository_facts table, for the packages fact
    sync,       \* what each sync is doing, with the tree or fact in its hand
    job,        \* the architecture:derive task id in asynq
    run,        \* the reconciliation the worker is in
    rel,        \* the repository_relationships table
    edit,       \* what each relationship request is doing
    clock,      \* milliseconds, as far as the marks need them
    runs,       \* how many reconciliations have started
    crashes,    \* how many crashes have happened
    missed,     \* history: facts were stored and nothing will list them
    dismissed   \* history: edges a person deleted since the deriver wrote them

vars == <<head, fact, sync, job, run, rel, edit, clock, runs, crashes, missed, dismissed>>

IdleSync == [at |-> "idle", repo |-> CHOOSE r \in Repos : TRUE,
             sha |-> CHOOSE s \in Shas : TRUE, got |-> NoFact]
IdleRun == [at |-> "idle", started |-> 0, todo |-> {}, complete |-> FALSE,
            read |-> [r \in Repos |-> NoFact], edge |-> {}, id |-> 0]
IdleEdit == [at |-> "idle", id |-> 0, copy |-> NoRow]

TypeOK ==
    /\ head \in [Repos -> Shas]
    /\ fact \in Facts
    /\ sync \in [Syncers -> [at : {"idle", "extract", "store", "enqueue"},
                             repo : Repos, sha : Shas, got : Fact \cup {NoFact}]]
    /\ \A y \in Syncers : sync[y].at = "store" => sync[y].got # NoFact
    /\ job \in {"none", "waiting", "active", "archived"}
    /\ run \in [at : {"idle", "list", "apply", "write", "done"}, started : Nat,
                todo : SUBSET Edges, complete : BOOLEAN, read : Facts,
                edge : SUBSET Edges, id : Ids \cup {0}]
    /\ rel \in [Ids -> Row \cup {NoRow}]
    /\ run.at = "write" /\ run.id # 0 => rel[run.id] # NoRow
    /\ edit \in [Clients -> [at : {"idle", "save"}, id : Ids \cup {0},
                             copy : Row \cup {NoRow}]]
    /\ \A c \in Clients : edit[c].at = "save" => edit[c].id \in Ids /\ edit[c].copy \in Row
    /\ clock \in Nat /\ runs \in 0..MaxRuns /\ crashes \in 0..MaxCrashes
    /\ missed \in BOOLEAN
    /\ dismissed \subseteq Edges

Init ==
    /\ head \in [Repos -> Shas]
    /\ fact = [r \in Repos |-> NoFact]
    /\ sync = [y \in Syncers |-> IdleSync]
    /\ job = "none"
    /\ run = IdleRun
    /\ rel = [i \in Ids |-> NoRow]
    /\ edit = [c \in Clients |-> IdleEdit]
    /\ clock = 0 /\ runs = 0 /\ crashes = 0
    /\ missed = FALSE
    /\ dismissed = {}

-----------------------------------------------------------------------------
(* The pure half: libDepDeriver.Derive over PackageIndex *)

Claimants(facts, n) == {r \in Repos : facts[r] # NoFact /\ n \in facts[r].pub}

\* Mutant: a contested name goes to each of its claimants.
DeriveContested(facts) ==
    {e \in Edges : /\ facts[e.src] # NoFact
                   /\ e.name \in facts[e.src].req
                   /\ e.dst \in Claimants(facts, e.name)}

\* An edge for each required name that exactly one repository publishes, unless
\* that is the repository itself.
Derive(facts) ==
    {e \in Edges : /\ facts[e.src] # NoFact
                   /\ e.name \in facts[e.src].req
                   /\ Claimants(facts, e.name) = {e.dst}}

\* Mutant: the repositories that could be read authorise the sweep.
SomeComplete(facts) == \E r \in Repos : facts[r] # NoFact /\ facts[r].complete

\* DerivedSet.Complete: one incomplete fact withdraws the sweep for everyone.
AllComplete(facts) == \A r \in Repos : facts[r] # NoFact => facts[r].complete

-----------------------------------------------------------------------------
(* Pass one: a sync extracts the facts of its repository *)

\* A push changes the default branch.
Commit(r, s) ==
    /\ head[r] # s
    /\ MidReadCommits \/ \A y \in Syncers : sync[y].at = "idle" \/ sync[y].repo # r
    /\ head' = [head EXCEPT ![r] = s]
    /\ UNCHANGED <<fact, sync, job, run, rel, edit, clock, runs, crashes, missed, dismissed>>

\* doSync has the tree and has persisted the repository.
ReadTree(y, r) ==
    /\ sync[y].at = "idle"
    /\ sync' = [sync EXCEPT ![y] = [at |-> "extract", repo |-> r, sha |-> head[r],
                                    got |-> NoFact]]
    /\ UNCHANGED <<head, fact, job, run, rel, edit, clock, runs, crashes, missed, dismissed>>

\* Same tree, complete fact: the extraction is skipped.
UpToDate(r, s) == fact[r] # NoFact /\ fact[r].complete /\ fact[r].sha = s

\* The files are listed in tree s and read from the branch: one that has changed
\* since is read as it is now, one that has gone counts as absent, one that is new
\* is not seen.
ReadsOf(r, s) ==
    LET listed == Content[r][s]  now == Content[r][head[r]]
    IN {p \in Payload : /\ listed.pub \cap now.pub \subseteq p.pub /\ p.pub \subseteq now.pub
                        /\ listed.req \cap now.req \subseteq p.req /\ p.req \subseteq now.req}

\* What is left when a listing is truncated or a read fails for any other reason
\* than absence.
PartOf(p) == {q \in Payload : q.pub \subseteq p.pub /\ q.req \subseteq p.req}

FactOf(p, s, complete) ==
    [pub |-> p.pub, req |-> p.req, sha |-> s, complete |-> complete]

Extract(y) ==
    /\ sync[y].at = "extract"
    /\ LET r == sync[y].repo  s == sync[y].sha IN
       \/ /\ UpToDate(r, s) \/ "db" \in Faults
          /\ sync' = [sync EXCEPT ![y] = IdleSync]
       \/ /\ ~UpToDate(r, s)
          /\ \E p \in ReadsOf(r, s) :
                \/ sync' = [sync EXCEPT ![y].at = "store", ![y].got = FactOf(p, s, TRUE)]
                \/ /\ "read" \in Faults
                   /\ \E q \in PartOf(p) :
                        sync' = [sync EXCEPT ![y].at = "store", ![y].got = FactOf(q, s, FALSE)]
    /\ UNCHANGED <<head, fact, job, run, rel, edit, clock, runs, crashes, missed, dismissed>>

\* UpsertRepositoryFact, whose failure is only logged.
StoreFact(y) ==
    /\ sync[y].at = "store"
    /\ \/ /\ fact' = [fact EXCEPT ![sync[y].repo] = sync[y].got]
          /\ sync' = [sync EXCEPT ![y].at = "enqueue", ![y].got = NoFact]
       \/ /\ "db" \in Faults
          /\ sync' = [sync EXCEPT ![y] = IdleSync]
          /\ UNCHANGED fact
    /\ UNCHANGED <<head, job, run, rel, edit, clock, runs, crashes, missed, dismissed>>

\* A listing is still to come: it will see every fact stored by now.
WillList == job = "waiting" \/ run.at = "list"

\* Mutant: only a complete fact is worth a reconciliation.
EnqueueIfComplete(y) ==
    /\ sync[y].at = "enqueue"
    /\ \/ fact[sync[y].repo].complete /\ job = "none" /\ job' = "waiting" /\ UNCHANGED missed
       \/ fact[sync[y].repo].complete /\ job # "none"
          /\ missed' = (missed \/ ~WillList) /\ UNCHANGED job
       \/ ~fact[sync[y].repo].complete /\ UNCHANGED <<job, missed>>
    /\ sync' = [sync EXCEPT ![y] = IdleSync]
    /\ UNCHANGED <<head, fact, run, rel, edit, clock, runs, crashes, dismissed>>

\* The task id is the organization: while a task of that id exists, in whatever
\* state, asynq refuses another one, and the refusal is taken for the queued task.
EnqueueDerivation(y) ==
    /\ sync[y].at = "enqueue"
    /\ \/ job = "none" /\ job' = "waiting" /\ UNCHANGED missed
       \/ job # "none" /\ missed' = (missed \/ ~WillList) /\ UNCHANGED job
       \/ "redis" \in Faults /\ missed' = (missed \/ ~WillList) /\ UNCHANGED job
    /\ sync' = [sync EXCEPT ![y] = IdleSync]
    /\ UNCHANGED <<head, fact, run, rel, edit, clock, runs, crashes, dismissed>>

-----------------------------------------------------------------------------
(* Pass two: ArchitectureWorker.Handle, Reconcile and applyEdges *)

\* The debounce and every retry delay are longer than the millisecond by which a
\* mark exceeds the start of its run.
StartRun ==
    /\ job = "waiting" /\ runs < MaxRuns
    /\ job' = "active"
    /\ runs' = runs + 1
    /\ clock' = clock + 2
    /\ run' = [IdleRun EXCEPT !.at = "list", !.started = clock + 2]
    /\ UNCHANGED <<head, fact, sync, rel, edit, crashes, missed, dismissed>>

\* ListRepositoryFacts and Derive.  Nothing in the program writes a suppression,
\* so the suppressed fingerprints of applyEdges are none.
ListFacts ==
    /\ run.at = "list"
    /\ run' = [run EXCEPT !.at = "apply", !.read = fact,
                          !.todo = Derive(fact),
                          !.complete = AllComplete(fact)]
    /\ missed' = FALSE
    /\ UNCHANGED <<head, fact, sync, job, rel, edit, clock, runs, crashes, dismissed>>

\* Mutant: the lookup passes over soft-deleted rows.
MatchesLive(e) == {i \in Ids : /\ rel[i] # NoRow /\ rel[i].live
                               /\ rel[i].by = "deriver" /\ rel[i].edge = e}

\* The rows UpsertDerivedRelationship may find: those with the derivation key.
Matches(e) == {i \in Ids : rel[i] # NoRow /\ rel[i].by = "deriver" /\ rel[i].edge = e}

\* A live row wins over a soft-deleted twin; among twins, the newest.
Preferred(e, i) ==
    /\ i \in Matches(e)
    /\ \A j \in Matches(e) : \/ rel[i].live /\ ~rel[j].live
                             \/ rel[i].live = rel[j].live /\ j <= i

UpsertLookup(e) ==
    /\ run.at = "apply" /\ e \in run.todo
    /\ \/ \E i \in Ids : Preferred(e, i) /\ run' = [run EXCEPT !.at = "write", !.edge = {e}, !.id = i]
       \/ Matches(e) = {} /\ run' = [run EXCEPT !.at = "write", !.edge = {e}, !.id = 0]
    /\ UNCHANGED <<head, fact, sync, job, rel, edit, clock, runs, crashes, missed, dismissed>>

Fresh(i) == rel[i] = NoRow /\ \A j \in Ids : rel[j] = NoRow => i <= j

Seen == run.started + 1

\* Mutant: reviving a row forgets to mark it as seen.
WriteUnmarked(e) ==
    /\ run.at = "write" /\ run.edge = {e}
    /\ \/ /\ run.id = 0
          /\ \E i \in Ids :
                /\ Fresh(i)
                /\ rel' = [rel EXCEPT ![i] = [edge |-> e, by |-> "deriver", origin |-> "deriver",
                                              text |-> "deriver", live |-> TRUE, seen |-> Seen]]
       \/ /\ run.id # 0
          /\ rel' = [rel EXCEPT ![run.id] = [@ EXCEPT !.text = "deriver", !.live = TRUE]]
    /\ run' = [run EXCEPT !.at = "apply", !.todo = @ \ {e}, !.edge = {}, !.id = 0]
    /\ dismissed' = dismissed \ {e}
    /\ UNCHANGED <<head, fact, sync, job, edit, clock, runs, crashes, missed>>

\* The insert, or the update of the id that was found, whatever that row is by now.
UpsertWrite(e) ==
    /\ run.at = "write" /\ run.edge = {e}
    /\ \/ /\ run.id = 0
          /\ \E i \in Ids :
                /\ Fresh(i)
                /\ rel' = [rel EXCEPT ![i] = [edge |-> e, by |-> "deriver", origin |-> "deriver",
                                              text |-> "deriver", live |-> TRUE, seen |-> Seen]]
       \/ /\ run.id # 0
          /\ rel' = [rel EXCEPT ![run.id] = [@ EXCEPT !.text = "deriver", !.live = TRUE,
                                                      !.seen = Seen]]
    /\ run' = [run EXCEPT !.at = "apply", !.todo = @ \ {e}, !.edge = {}, !.id = 0]
    /\ dismissed' = dismissed \ {e}
    /\ UNCHANGED <<head, fact, sync, job, edit, clock, runs, crashes, missed>>

\* Mutant: the sweep without the derivation key in its WHERE clause.
SweptAnyone == {i \in Ids : rel[i] # NoRow /\ rel[i].live /\ rel[i].seen < run.started}

\* SweepDerivedRelationships: live rows of the key that this run did not mark.
Swept == {i \in Ids : /\ rel[i] # NoRow /\ rel[i].live /\ rel[i].by = "deriver"
                      /\ rel[i].seen < run.started}

\* applyEdges ends with the sweep if the facts were complete, without it if not.
FinishEdges ==
    /\ run.at = "apply" /\ run.todo = {}
    /\ \/ /\ run.complete
          /\ rel' = [i \in Ids |-> IF i \in Swept THEN [rel[i] EXCEPT !.live = FALSE] ELSE rel[i]]
       \/ ~run.complete /\ UNCHANGED rel
    /\ run' = [run EXCEPT !.at = "done"]
    /\ UNCHANGED <<head, fact, sync, job, edit, clock, runs, crashes, missed, dismissed>>

\* The handler returned nil: asynq forgets the task and its id.
FinishRun ==
    /\ run.at = "done"
    /\ run' = IdleRun
    /\ job' = "none"
    /\ UNCHANGED <<head, fact, sync, rel, edit, clock, runs, crashes, missed, dismissed>>

\* Any call of the run fails: asynq retries the task or, after the last retry,
\* archives it.
FailRun ==
    /\ "db" \in Faults
    /\ run.at \in {"list", "apply", "write"}
    /\ run' = IdleRun
    /\ job' \in {"waiting", "archived"}
    /\ UNCHANGED <<head, fact, sync, rel, edit, clock, runs, crashes, missed, dismissed>>

-----------------------------------------------------------------------------
(* RepositoryRelationshipService: people *)

CreateRelationship(c, e) ==
    /\ edit[c].at = "idle"
    /\ \E i \in Ids :
          /\ Fresh(i)
          /\ rel' = [rel EXCEPT ![i] = [edge |-> e, by |-> "person", origin |-> "person",
                                        text |-> "person", live |-> TRUE, seen |-> 0]]
    /\ UNCHANGED <<head, fact, sync, job, run, edit, clock, runs, crashes, missed, dismissed>>

\* Mutant: the nil row of an id that does not exist goes on to the save.
UpdateReadUnchecked(c, i) ==
    /\ edit[c].at = "idle"
    /\ edit' = [edit EXCEPT ![c] = [at |-> "save", id |-> i,
                   copy |-> IF rel[i] = NoRow THEN NoRow
                            ELSE [rel[i] EXCEPT !.by = "person", !.text = "person", !.seen = 0]]]
    /\ UNCHANGED <<head, fact, sync, job, run, rel, clock, runs, crashes, missed, dismissed>>

\* UpdateRelationship, for an edit that keeps the kind: the row is read and promoted,
\* then saved whole.
UpdateRead(c, i) ==
    /\ edit[c].at = "idle"
    /\ rel[i] # NoRow /\ rel[i].live
    /\ edit' = [edit EXCEPT ![c] = [at |-> "save", id |-> i,
                   copy |-> [rel[i] EXCEPT !.by = "person", !.text = "person", !.seen = 0]]]
    /\ UNCHANGED <<head, fact, sync, job, run, rel, clock, runs, crashes, missed, dismissed>>

UpdateSave(c) ==
    /\ edit[c].at = "save"
    /\ rel' = [rel EXCEPT ![edit[c].id] = edit[c].copy]
    /\ edit' = [edit EXCEPT ![c] = IdleEdit]
    /\ UNCHANGED <<head, fact, sync, job, run, clock, runs, crashes, missed, dismissed>>

DeleteRelationship(c, i) ==
    /\ edit[c].at = "idle"
    /\ rel[i] # NoRow /\ rel[i].live
    /\ rel' = [rel EXCEPT ![i].live = FALSE]
    /\ dismissed' = dismissed \cup {rel[i].edge}
    /\ UNCHANGED <<head, fact, sync, job, run, edit, clock, runs, crashes, missed>>

-----------------------------------------------------------------------------
(* The server process dies and is started again: asynq runs its tasks anew *)

Crash ==
    /\ crashes < MaxCrashes
    /\ crashes' = crashes + 1
    /\ sync' = [y \in Syncers |-> IdleSync]
    /\ edit' = [c \in Clients |-> IdleEdit]
    /\ run' = IdleRun
    /\ job' = IF job = "active" THEN "waiting" ELSE job
    /\ missed' = \/ missed
                 \/ /\ \E y \in Syncers : sync[y].at = "enqueue"
                    /\ job \notin {"waiting", "active"}
    /\ UNCHANGED <<head, fact, rel, clock, runs, dismissed>>

-----------------------------------------------------------------------------
Sync == \E y \in Syncers : \/ \E r \in Repos : ReadTree(y, r)
                           \/ Extract(y) \/ StoreFact(y) \/ EnqueueDerivation(y)

Reconcile == \/ StartRun \/ ListFacts \/ FinishEdges \/ FinishRun \/ FailRun
             \/ \E e \in Edges : UpsertLookup(e) \/ UpsertWrite(e)

People == \E c \in Clients :
             \/ \E e \in Edges : CreateRelationship(c, e)
             \/ \E i \in Ids : UpdateRead(c, i) \/ DeleteRelationship(c, i)
             \/ UpdateSave(c)

Next == \/ \E r \in Repos, s \in Shas : Commit(r, s)
        \/ Sync \/ Reconcile \/ People \/ Crash

Spec == Init /\ [][Next]_vars

-----------------------------------------------------------------------------
(* Properties *)

Human(i) == rel[i] # NoRow /\ rel[i].by = "person"
Derived(i) == rel[i] # NoRow /\ rel[i].by = "deriver"
Live(i) == rel[i] # NoRow /\ rel[i].live

\* UpsertDerivedRelationship revives instead of inserting (postgres_repository.go:
\* 713-720): a fact has one row with the derivation key, dead or alive, so that
\* its id and every link to it last.
OneDerivedRow ==
    \A i, j \in Ids : Derived(i) /\ Derived(j) /\ rel[i].edge = rel[j].edge => i = j

\* The first invariant of applyEdges (architecture_service.go:408-410) as far as it
\* holds: a row a person declared or took over stays a person's, only a person
\* takes it off the graph, and a run writes into it only if it had looked the row
\* up while it was still derived.
HumansKeepTheirRows ==
    [][\A i \in Ids : Human(i) =>
          /\ Human(i)'
          /\ run' # run => /\ Live(i) => Live(i)'
                           /\ rel'[i] # rel[i] => run.at = "write" /\ run.id = i]_vars

\* What the trees really say, where a fact was stored.
Truth(facts) ==
    Derive([r \in Repos |-> IF facts[r] = NoFact THEN NoFact
                            ELSE FactOf(Content[r][facts[r].sha], facts[r].sha, TRUE)])

\* The second one (architecture_service.go:411-414): a failed read, a truncated
\* listing, a retry or a crash never makes the sweep retract an edge that the
\* trees behind the facts declare.
NothingCorrectSwept ==
    [][\A i \in Ids :
          (run.at = "apply" /\ run'.at = "done" /\ Live(i) /\ ~Live(i)') =>
              rel[i].edge \notin Truth(run.read)]_vars

\* No task, and no sync that is about to queue one.
Quiet == job = "none" /\ \A y \in Syncers : sync[y].at # "enqueue"

\* What derivation promises once it has come to rest: the live derived edges are
\* those of the facts, except for edges people deleted, and for facts whose
\* derivation was never queued.
GraphFollowsFacts ==
    Quiet /\ ~missed =>
        /\ \A e \in Derive(fact) \ dismissed :
              \E i \in Ids : Live(i) /\ rel[i].edge = e
        /\ AllComplete(fact) =>
              \A i \in Ids : Derived(i) /\ Live(i) => rel[i].edge \in Derive(fact)

\* The comment of EnqueueDerivation (architecture_service.go:281-283): after a
\* conflict, the reconciliation that is already queued sees the facts just
\* written, so nothing is ever missed.
ConflictIsSeen ==
    Quiet => \A e \in Derive(fact) \ dismissed :
                \E i \in Ids : Live(i) /\ rel[i].edge = e

\* The rule of PackageIndex.Resolve (derive/index.go:52-58): a name that two
\* repositories publish yields no edge.  Every repository has told all of its tree:
\* an incomplete fact may hide the second claimant.
ContestedIsNotAsserted ==
    \A i \in Ids :
        (Derived(i) /\ Live(i) /\ run.at = "done"
            /\ \A r \in Repos : run.read[r] # NoFact /\ run.read[r].complete) =>
        Cardinality({r \in Repos : rel[i].edge.name \in Content[r][run.read[r].sha].pub}) <= 1
=============================================================================

------------------------------ MODULE Catalog ------------------------------
(***************************************************************************)
(* The nodes of the architecture graph and the calls between repositories: *)
(* the syncs that store what the files of a repository say (ConfigFacts),  *)
(* and the reconciliation that turns the stored facts into contracts,      *)
(* resources, the links to them, and consumption edges                     *)
(* (architecture_service.go, architecture_apis.go,                         *)
(* architecture_resources.go, architecture_consume.go).                    *)
(*                                                                         *)
(* A row is fresh when its last_seen_at is not before the start of the     *)
(* run.  Versions of the extractors do not change while the program runs,  *)
(* and nothing writes a suppression.                                       *)
(***************************************************************************)
EXTENDS ConfigFacts, FiniteSets

CONSTANTS Repos,
          Trees,        \* the trees a repository's default branch may point at
          Languages,    \* the languages of each repository
          Dominant,     \* the one the provider names when the breakdown fails
          NoTreeSHA,    \* repositories whose provider reports no SHA of a tree
          Unsteady,     \* the files whose read may fail or find nothing
          Caps,         \* candidates read for each kind of fact
          Faults,       \* what fails: "db", "read", "process"
          MaxSyncs, MaxRuns, MaxFaults

VARIABLES signal, fact, sync, synced, apis, resources, links, edges, run, faults, syncs, runs, settled

vars == <<signal, fact, sync, synced, apis, resources, links, edges, run, faults, syncs, runs, settled>>
rows == <<apis, resources, links, edges>>

Kinds == <<"packages", "apis", "resources", "hosts">>
NoFact == [sha |-> 0, complete |-> FALSE, data |-> {}, seen |-> 0, gone |-> {}]
NoSync == [repo |-> None, step |-> 0]
NoRun == [at |-> "idle", listed |-> <<>>, left |-> {}, items |-> {}, swept |-> FALSE, failed |-> {}, clean |-> TRUE]
Row(id, data) == [id |-> id, data |-> data, live |-> TRUE, fresh |-> TRUE]
Live(table) == {r \in table : r.live}

Init ==
    /\ signal = [r \in Repos |-> [ci |-> "unknown", tests |-> "unknown"]]
    /\ fact = [r \in Repos |-> [k \in ToSet(Kinds) |-> NoFact]]
    /\ synced = [r \in Repos |-> [tree |-> 0, truncated |-> FALSE, fallback |-> FALSE]]
    /\ apis = {} /\ resources = {} /\ links = {} /\ edges = {}
    /\ sync = NoSync /\ run = NoRun
    /\ faults = 0 /\ syncs = 0 /\ runs = 0
    /\ settled = FALSE

Failing(part, n) == (n > 0 => part \in Faults) /\ faults' = faults + n /\ faults' <= MaxFaults
Fails(part) == Failing(part, 1)
Works == UNCHANGED faults

---------------------------------------------------------------------------
(* A sync: the signals of the listing, then one fact after another. *)

Listing(r, t, truncated) == IF truncated THEN Front(Trees[r][t]) ELSE Trees[r][t]

SyncTree(r, t, truncated, bad, how, fallback) ==
    /\ sync = NoSync /\ syncs < MaxSyncs
    /\ Failing("read", Cardinality({f \in {"bad", "truncated", "fallback"} :
                            CASE f = "bad" -> how # "ok" [] f = "truncated" -> truncated [] f = "fallback" -> fallback}))
    /\ how = "ok" <=> bad = None
    /\ LET tree == Listing(r, t, truncated)
           languages == IF fallback THEN {Dominant[r]} ELSE Languages[r]
       IN signal' = [signal EXCEPT ![r] = [ci |-> DetectCI(tree, truncated),
                                           tests |-> DetectTests(tree, languages, truncated)]]
    /\ synced' = [synced EXCEPT ![r] = [tree |-> t, truncated |-> truncated, fallback |-> fallback]]
    /\ sync' = [repo |-> r, step |-> 1, tree |-> t, truncated |-> truncated, bad |-> bad, how |-> how]
    /\ syncs' = syncs + 1
    /\ UNCHANGED <<fact, rows, run, runs, settled>>

Served(s) == [f \in {f.path : f \in ToSet(Trees[s.repo][s.tree])} |-> IF f = s.bad THEN s.how ELSE "ok"]

Extract(k, s) ==
    LET tree == Listing(s.repo, s.tree, s.truncated)
    IN CASE k = "packages" -> ExtractPackages(tree, s.truncated, Caps[k], Served(s))
         [] k = "apis" -> ExtractAPIs(tree, s.truncated, Caps[k], Served(s))
         [] k = "resources" -> ExtractResources(tree, s.truncated, Caps[k], Served(s))
         [] k = "hosts" -> ExtractHosts(tree, s.truncated, Caps[k], Served(s))

TreeSHA(s) == IF s.repo \in NoTreeSHA THEN 0 ELSE s.tree

(* A complete fact of the same tree is kept as it is. *)
Unchanged(k, s) ==
    LET f == fact[s.repo][k] IN f.complete /\ f.sha # 0 /\ f.sha = TreeSHA(s)

NextKind == sync' = IF sync.step = Len(Kinds) THEN NoSync ELSE [sync EXCEPT !.step = @ + 1]

ExtractOne ==
    /\ sync # NoSync
    /\ LET k == Kinds[sync.step]
           x == Extract(k, sync)
           row == [sha |-> TreeSHA(sync), complete |-> x.complete, data |-> x.data,
                   seen |-> sync.tree, gone |-> IF sync.how = "absent" THEN {sync.bad} ELSE {}]
       IN \/ ~Unchanged(k, sync) /\ Works
             /\ fact' = [fact EXCEPT ![sync.repo][k] = row]
             /\ settled' = FALSE
             /\ run' = [run EXCEPT !.clean = FALSE]
          \/ Unchanged(k, sync) /\ Works /\ UNCHANGED <<fact, settled, run>>
          \/ Fails("db") /\ UNCHANGED <<fact, settled, run>>
    /\ NextKind
    /\ UNCHANGED <<signal, synced, rows, syncs, runs>>

CrashSync ==
    /\ sync # NoSync /\ Fails("process")
    /\ sync' = NoSync
    /\ UNCHANGED <<signal, fact, synced, rows, run, syncs, runs, settled>>

---------------------------------------------------------------------------
(* A reconciliation.  listed is what it read of the facts, left the        *)
(* repositories to do, items what is left of the current one.              *)

Listed(k) == [r \in {r \in Repos : fact[r][k].seen > 0} |-> fact[r][k]]
Current == CHOOSE r \in run.left : TRUE
Item == CHOOSE i \in run.items : TRUE

Stale(table) == {[r EXCEPT !.fresh = FALSE] : r \in table}

(* The row of this identity, live or revived. *)
Upserted(table, id, data) == {r \in table : r.id # id} \union {Row(id, data)}

Swept(table, Mine(_)) == {IF Mine(r) /\ ~r.fresh THEN [r EXCEPT !.live = FALSE] ELSE r : r \in table}

Start(r, items) == [run EXCEPT !.left = r, !.items = items]

SpecsOf(f) == f.data
FindingsOf(f) == {[what |-> "resource", found |-> x.finding] : x \in f.data.resources}

BeginRun ==
    /\ run.at = "idle" /\ runs < MaxRuns
    /\ runs' = runs + 1
    /\ apis' = Stale(apis) /\ resources' = Stale(resources) /\ links' = Stale(links) /\ edges' = Stale(edges)
    /\ run' = [NoRun EXCEPT !.at = "apis"]
    /\ settled' = FALSE
    /\ UNCHANGED <<signal, fact, sync, synced, syncs, faults>>

Running(at) == run.at = at
Reconciling == UNCHANGED <<signal, fact, sync, synced, syncs, runs>>

(* The facts of a kind are listed when its phase begins. *)
List(k, Items(_)) ==
    /\ Running(k) /\ run.listed = <<>>
    /\ Works
    /\ LET l == Listed(k)
       IN run' = [run EXCEPT !.listed = [kind |-> k, of |-> l], !.left = DOMAIN l,
                             !.items = IF DOMAIN l = {} THEN {} ELSE Items(l[CHOOSE r \in DOMAIN l : TRUE])]
    /\ UNCHANGED <<rows, settled>> /\ Reconciling

NextRepo(Items(_)) ==
    LET left == run.left \ {Current}
    IN [run EXCEPT !.left = left,
                   !.items = IF left = {} THEN {} ELSE Items(run.listed.of[CHOOSE r \in left : TRUE])]

Phase(at) == [run EXCEPT !.at = at, !.listed = <<>>, !.left = {}, !.items = {}]

Busy(k) == Running(k) /\ run.listed # <<>> /\ run.left # {}

UpsertDerivedAPI ==
    /\ Busy("apis") /\ run.items # {}
    /\ Works
    /\ apis' = Upserted(apis, <<Current, Item.path>>, Item)
    /\ run' = [run EXCEPT !.items = @ \ {Item}]
    /\ UNCHANGED <<resources, links, edges, settled>> /\ Reconciling

SweepDerivedAPIs ==
    /\ Busy("apis") /\ run.items = {}
    /\ Works
    /\ apis' = IF run.listed.of[Current].complete THEN Swept(apis, LAMBDA r : r.id[1] = Current) ELSE apis
    /\ run' = NextRepo(SpecsOf)
    /\ UNCHANGED <<resources, links, edges, settled>> /\ Reconciling

\* Mutant: what lives on one host is taken for everybody's.
ResourceIdShared(r, f) == <<"shared", f.locator>>

(* A scoped resource belongs to its repository, any other to whoever names *)
(* its locator.                                                            *)
ResourceId(r, f) == IF f.scoped THEN <<r, f.locator.engine, f.name>> ELSE <<"shared", f.locator>>

\* Mutant: the link leads to the shared resource of the same locator.
LinkIdUnscoped(r, f) == <<r, <<"shared", f.locator>>, f.rule, f.locator.engine, f.locator.host, f.locator.namespace, f.name>>

(* The print leaves the port out; a link is found by its resource too. *)
LinkId(r, f) == <<r, ResourceId(r, f), f.rule, f.locator.engine, f.locator.host, f.locator.namespace, f.name>>

UpsertDerivedResource ==
    /\ Busy("resources") /\ run.items # {} /\ Item.what = "resource"
    /\ Works
    /\ resources' = Upserted(resources, ResourceId(Current, Item.found), Item.found.name)
    /\ run' = [run EXCEPT !.items = (@ \ {Item}) \union {[Item EXCEPT !.what = "link"]}]
    /\ UNCHANGED <<apis, links, edges, settled>> /\ Reconciling

UpsertDerivedRepositoryResource ==
    /\ Busy("resources") /\ run.items # {} /\ Item.what = "link"
    /\ Works
    /\ links' = Upserted(links, LinkId(Current, Item.found), Item.found.confidence)
    /\ run' = [run EXCEPT !.items = @ \ {Item}]
    /\ UNCHANGED <<apis, resources, edges, settled>> /\ Reconciling

SweepDerivedRepositoryResources ==
    /\ Busy("resources") /\ run.items = {}
    /\ Works
    /\ LET complete == run.listed.of[Current].complete
       IN /\ links' = IF complete THEN Swept(links, LAMBDA l : l.id[1] = Current) ELSE links
          /\ run' = [NextRepo(FindingsOf) EXCEPT !.swept = @ \/ complete]
    /\ UNCHANGED <<apis, resources, edges, settled>> /\ Reconciling

(* A resource no live link names is retired, after every repository. *)
RetireOrphanResources ==
    /\ Running("resources") /\ run.listed # <<>> /\ run.left = {}
    /\ \/ Works /\ run' = Phase("hosts")
          /\ resources' = IF run.swept
                          THEN {IF \E l \in Live(links) : l.id[2] = r.id THEN r ELSE [r EXCEPT !.live = FALSE] : r \in resources}
                          ELSE resources
       \/ run.swept /\ Fails("db") /\ run' = [Phase("hosts") EXCEPT !.clean = FALSE] /\ UNCHANGED resources
    /\ UNCHANGED <<apis, links, edges, settled>> /\ Reconciling

ResourcesPhase ==
    /\ Running("apis") /\ run.listed # <<>> /\ run.left = {}
    /\ Works /\ run' = Phase("resources")
    /\ UNCHANGED <<rows, settled>> /\ Reconciling

(* An error of one repository's nodes skips the repository. *)
SkipRepository ==
    /\ Busy("apis") \/ Busy("resources")
    /\ Fails("db")
    /\ run' = [IF Running("apis") THEN NextRepo(SpecsOf) ELSE NextRepo(FindingsOf) EXCEPT
                   !.failed = @ \union {Current}, !.clean = FALSE]
    /\ UNCHANGED <<rows, settled>> /\ Reconciling

---------------------------------------------------------------------------
(* Consumption edges. *)

Owners(l, part, name) == {r \in DOMAIN l : name \in l[r].data[part] /\ ~IsPlaceholderHost(name)}

Resolve(l, part, name) == LET o == Owners(l, part, name) IN IF Cardinality(o) = 1 THEN o ELSE {}

(* A declared service first, a public host second; an alias of a compose   *)
(* file is no public host.                                                 *)
Match(l, h) ==
    LET service == Resolve(l, "services", ServiceLabel(h.host))
        ingress == Resolve(l, "hosts", h.host)
        Hit(r, rule, c) == {[target |-> CHOOSE x \in r : TRUE, rule |-> rule, confidence |-> c]}
    IN IF service # {}
       THEN IF h.rule = "depends_on" THEN Hit(service, "depends_on", ConfidenceComposeTopology)
            ELSE Hit(service, "service_host", ConfidenceDeclaredHost)
       ELSE IF h.rule # "depends_on" /\ ingress # {} THEN Hit(ingress, "ingress_host", ConfidenceComposeTopology)
       ELSE {}

BrokerVars == {"KAFKA_BROKERS", "ORDERS_QUEUE_URL"}

KindOf(h) == IF h.var \in BrokerVars THEN "async" ELSE "http"

ConsumeEdge(r, h, m) ==
    [source |-> r, target |-> m.target, kind |-> KindOf(h), confidence |-> m.confidence,
     rule |-> m.rule, test |-> h.test, path |-> h.path, var |-> h.var, also |-> {},
     print |-> <<m.rule, h.test, h.host, h.path>>]

(* The stronger rule owns the print; evidence outside the tests owns all   *)
(* but the confidence.                                                     *)
Merge(e, x) ==
    LET stronger == IF x.confidence > e.confidence
                    THEN [e EXCEPT !.confidence = x.confidence, !.rule = x.rule, !.print = x.print] ELSE e
        also == [stronger EXCEPT !.also = @ \union {x.path}]
    IN IF e.test /\ ~x.test
       THEN [also EXCEPT !.test = FALSE, !.path = x.path, !.rule = x.rule, !.print = x.print, !.var = x.var]
       ELSE also

MergeConsumeEdge(acc, x) ==
    LET same == {e \in acc : e.source = x.source /\ e.target = x.target /\ e.kind = x.kind}
    IN IF same = {} THEN acc \union {x} ELSE (acc \ same) \union {Merge(e, x) : e \in same}

(* The hosts of a repository are met in one fixed order. *)
DeriveConsume(l) ==
    UNION {FoldLeft(LAMBDA acc, h : IF \E m \in Match(l, h) : m.target # r
                                    THEN MergeConsumeEdge(acc, ConsumeEdge(r, h, CHOOSE m \in Match(l, h) : TRUE))
                                    ELSE acc,
                    {}, SetToSeq(l[r].data.consumed)) : r \in DOMAIN l}

EdgeId(e) == <<e.source, e.target, e.kind, e.print>>

ListHosts ==
    /\ Running("hosts") /\ run.listed = <<>>
    /\ Works
    /\ LET l == Listed("hosts")
       IN run' = [run EXCEPT !.listed = [kind |-> "hosts", of |-> l], !.items = DeriveConsume(l)]
    /\ UNCHANGED <<rows, settled>> /\ Reconciling

UpsertDerivedRelationship ==
    /\ Running("hosts") /\ run.listed # <<>> /\ run.items # {}
    /\ Works
    /\ edges' = Upserted(edges, EdgeId(Item), [confidence |-> Item.confidence, test |-> Item.test])
    /\ run' = [run EXCEPT !.items = @ \ {Item}]
    /\ UNCHANGED <<apis, resources, links, settled>> /\ Reconciling

(* One incomplete fact withdraws the sweep of every edge. *)
MaySweep(l) == \A r \in DOMAIN l : l[r].complete

SweepDerivedRelationships ==
    /\ Running("hosts") /\ run.listed # <<>> /\ run.items = {}
    /\ Works
    /\ edges' = IF MaySweep(run.listed.of) THEN Swept(edges, LAMBDA e : TRUE) ELSE edges
    /\ run' = NoRun
    /\ settled' = run.clean
    /\ UNCHANGED <<apis, resources, links>> /\ Reconciling

(* Any other error ends the run, and so does a crash; asynq starts it again. *)
EndRun ==
    /\ run.at # "idle"
    /\ \/ Fails("db") /\ (run.listed = <<>> \/ Running("hosts"))
       \/ Fails("process")
    /\ run' = NoRun
    /\ UNCHANGED <<rows, settled>> /\ Reconciling

ReconcileStep ==
    \/ BeginRun \/ List("apis", SpecsOf) \/ UpsertDerivedAPI \/ SweepDerivedAPIs \/ ResourcesPhase
    \/ List("resources", FindingsOf) \/ UpsertDerivedResource \/ UpsertDerivedRepositoryResource
    \/ SweepDerivedRepositoryResources \/ RetireOrphanResources \/ SkipRepository
    \/ ListHosts \/ UpsertDerivedRelationship \/ SweepDerivedRelationships \/ EndRun

PathsOf(r, t) == {f.path : f \in ToSet(Trees[r][t])}

Sync ==
    \E r \in Repos : \E t \in DOMAIN Trees[r] :
        \E truncated, fallback \in BOOLEAN, bad \in (PathsOf(r, t) \cap Unsteady) \union {None}, how \in {"ok", "absent", "failed"} :
            SyncTree(r, t, truncated, bad, how, fallback)

(* What the collector makes of files: an unscoped resource has a host, no  *)
(* name it declares is a placeholder, and its hosts are finitely many.     *)
ResourcesNamed(data) == \A x \in data.resources : ~x.finding.scoped => x.finding.locator.host # <<>>
HostsNamed(data) ==
    /\ \A name \in data.services \union data.hosts : ~IsPlaceholderHost(name)
    /\ IsFiniteSet(data.consumed) /\ \A h \in data.consumed : h.test \in BOOLEAN

CatalogAssumption ==
    /\ IsFiniteSet(Repos) /\ "shared" \notin Repos
    /\ \A r \in Repos : DOMAIN Trees[r] \subseteq Nat \ {0}
    /\ \A r \in Repos : \A t \in DOMAIN Trees[r] : \A truncated \in BOOLEAN, bad \in PathsOf(r, t) \union {None},
          how \in {"ok", "absent", "failed"}, step \in DOMAIN Kinds :
             LET s == [repo |-> r, step |-> step, tree |-> t, truncated |-> truncated, bad |-> bad, how |-> how]
             IN ResourcesNamed(Extract("resources", s).data) /\ HostsNamed(Extract("hosts", s).data)

Next == Sync \/ ExtractOne \/ CrashSync \/ ReconcileStep

Spec == Init /\ [][Next]_vars

---------------------------------------------------------------------------
(* What the stored facts say, written without the collector's order. *)

Rows(r) == 0..Len(Trees[r])

(* Types of the tables and of the work under way. *)
TypeOK ==
    /\ signal \in [Repos -> [ci : {"yes", "no", "unknown"}, tests : {"yes", "no", "unknown"}]]
    /\ DOMAIN fact = Repos
    /\ \A r \in Repos, k \in ToSet(Kinds) : fact[r][k].sha \in Rows(r) /\ fact[r][k].seen \in Rows(r)
    /\ sync = NoSync \/ (sync.repo \in Repos /\ sync.step \in DOMAIN Kinds)
    /\ \A table \in {apis, resources, links, edges} : \A x, y \in table : x.id = y.id => x = y
    /\ run.at \in {"idle", "apis", "resources", "hosts"} /\ run.left \subseteq Repos
    /\ settled \in BOOLEAN

(* What a read of the whole tree gives, without the files that are gone. *)
Whole ==
    [r \in Repos |-> [t \in DOMAIN Trees[r] |-> [gone \in {{}} \union {{p} : p \in Unsteady} |->
        LET tree == SelectSeq(Trees[r][t], LAMBDA x : x.path \notin gone)
            all == [p \in PathsOf(r, t) |-> "ok"]
        IN [packages |-> ExtractPackages(tree, FALSE, Len(tree), all),
            apis |-> ExtractAPIs(tree, FALSE, Len(tree), all),
            resources |-> ExtractResources(tree, FALSE, Len(tree), all),
            hosts |-> ExtractHosts(tree, FALSE, Len(tree), all)]]]]

(* A fact that may authorise a sweep holds what a read of the whole tree,  *)
(* without a fault, gives: nothing was cut, failed or unparsable.          *)
CompleteFactsAreWhole ==
    \A r \in Repos, k \in ToSet(Kinds) :
        LET f == fact[r][k]
        IN f.complete => [data |-> f.data, complete |-> TRUE] = Whole[r][f.seen][f.gone][k]

EnvOf(f) ==
    CASE IsComposeFile(f) -> UNION {s.env : s \in f.services}
      [] IsK8sManifest(f) -> LET docs == SelectSeq(f.documents, LAMBDA d : d.parses)
                             IN LastOfEach(FlattenSeq([i \in DOMAIN docs |-> docs[i].env]))
      [] OTHER -> f.strings

(* The hosts a file names, each with the variable that names it. *)
Named(f) ==
    UNION {{[host |-> h, var |-> e.key.name] : h \in HostFromValue(e.value)} :
              e \in {e \in EnvOf(f) : e.key.connection /\ e.value.form # "empty" /\ ParseDSN(e.value) = {}}}
    \union (IF ~IsComposeFile(f) THEN {}
            ELSE {[host |-> <<t>>, var |-> None] :
                     t \in {t \in UNION {s.dependsOn \ {s.name} : s \in f.services} :
                               Engine(f, t) = None /\ ~IsPlaceholderHost(<<t>>)}})

Sightings ==
    [r \in Repos |-> [t \in DOMAIN Trees[r] |->
        UNION {{[named |-> n, path |-> f.path, test |-> IsComposeFile(f) /\ IsTestCompose(f)] : n \in Named(f)} :
                  f \in {f \in ToSet(Trees[r][t]) : IsConfigCandidate(f) /\ ~IsVendored(f) /\ Readable(f)}}]]

(* A host is marked as a test's exactly when no other file names it, and   *)
(* its evidence is a file outside the tests as soon as there is one.       *)
EvidenceIsProduction ==
    \A r \in Repos : LET f == fact[r]["hosts"] IN f.complete =>
        LET seen == {x \in Sightings[r][f.seen] : x.path \notin f.gone}
            NameOf(c) == [host |-> c.host, var |-> c.var]
        IN /\ {NameOf(c) : c \in f.data.consumed} = {x.named : x \in seen}
           /\ \A c \in f.data.consumed :
                /\ c.test <=> \A x \in seen : x.named = NameOf(c) => x.test
                /\ [named |-> NameOf(c), path |-> c.path, test |-> c.test] \in seen

(* "No CI" and "no tests" are said of a tree that holds none, listed whole *)
(* and, for the tests, with the languages the repository has.              *)
AbsenceIsProven ==
    \A r \in Repos : LET s == synced[r] IN s.tree > 0 =>
        LET files == ToSet(Trees[r][s.tree])
        IN /\ signal[r].ci = "no" => \A f \in files : ~f.ci
           /\ signal[r].tests = "no" /\ ~s.fallback =>
                \A f \in files : IsVendored(f) \/ f.testOf \cap Languages[r] = {}

(* What is stored of a repository is what its files prove: a complete fact *)
(* is whole, its evidence is from outside the tests where it can be, and   *)
(* an absence is asserted of a tree that was seen.                         *)
FactsAreProven == CompleteFactsAreWhole /\ EvidenceIsProduction /\ AbsenceIsProven

---------------------------------------------------------------------------
LiveIds(table) == {x.id : x \in Live(table)}
Known(k) == {r \in Repos : fact[r][k].seen > 0}
NamedAPIs(r) == {<<r, s.path>> : s \in fact[r]["apis"].data}
NamedLinks(r) == {LinkId(r, x.finding) : x \in fact[r]["resources"].data.resources}
NamedResources(r) == {ResourceId(r, x.finding) : x \in fact[r]["resources"].data.resources}

Declares(b, part, name) == b \in Known("hosts") /\ name \in fact[b]["hosts"].data[part]
Alone(b, part, name) == Declares(b, part, name) /\ \A c \in Repos : Declares(c, part, name) => c = b

(* The confidence at which h names b, 0 when it does not. *)
Tier(h, b) ==
    CASE Alone(b, "services", ServiceLabel(h.host)) -> IF h.rule = "depends_on" THEN 75 ELSE 85
      [] /\ ~\E c \in Repos : Alone(c, "services", ServiceLabel(h.host))
         /\ h.rule # "depends_on" /\ Alone(b, "hosts", h.host) -> 75
      [] OTHER -> 0

Calls ==
    {c \in [source : Known("hosts"), target : Repos, kind : {"http", "async"}] :
        /\ c.source # c.target
        /\ \E h \in fact[c.source]["hosts"].data.consumed : KindOf(h) = c.kind /\ Tier(h, c.target) > 0}

Hits(c) == {h \in fact[c.source]["hosts"].data.consumed : KindOf(h) = c.kind /\ Tier(h, c.target) > 0}

CallOf(e) == [source |-> e.id[1], target |-> e.id[2], kind |-> e.id[3]]

(* A call has one tier, the best of what names it, and is a test's only    *)
(* when every file that names it is.                                       *)
SaysWhatIsNamed(e) ==
    /\ \A h \in Hits(CallOf(e)) : e.data.confidence >= Tier(h, e.id[2])
    /\ \E h \in Hits(CallOf(e)) : e.data.confidence = Tier(h, e.id[2])
    /\ e.data.test <=> \A h \in Hits(CallOf(e)) : h.test

(* A live link leads to a live resource, and a scoped resource is linked   *)
(* by its repository alone.                                                *)
LinksLead ==
    \A l \in Live(links) : /\ \E x \in Live(resources) : x.id = l.id[2]
                           /\ l.id[2][1] \in {l.id[1], "shared"}
                           /\ l.id[2][1] = "shared" => l.id[5] # <<>>

(* After a run that nothing disturbed, the rows are what the facts name,   *)
(* and where a fact is incomplete at least that.                           *)
CatalogFollowsFacts ==
    /\ LinksLead
    /\ settled =>
        /\ \A r \in Known("apis") : LET mine == {x \in LiveIds(apis) : x[1] = r}
               IN NamedAPIs(r) \subseteq mine /\ (fact[r]["apis"].complete => mine = NamedAPIs(r))
        /\ \A r \in Known("resources") : LET mine == {x \in LiveIds(links) : x[1] = r}
               IN NamedLinks(r) \subseteq mine /\ (fact[r]["resources"].complete => mine = NamedLinks(r))
        /\ (\E r \in Known("resources") : fact[r]["resources"].complete) =>
               LiveIds(resources) = {x[2] : x \in LiveIds(links)}
        /\ Calls \subseteq {CallOf(e) : e \in Live(edges)}
        /\ (\A r \in Known("hosts") : fact[r]["hosts"].complete) =>
               /\ Calls = {CallOf(e) : e \in Live(edges)}
               /\ \A e \in Live(edges) : SaysWhatIsNamed(e)

Retired(table, after) == {x \in Live(table) : \E y \in after : y.id = x.id /\ ~y.live}
AsListed(r) == r \in DOMAIN run.listed.of /\ run.listed.of[r] = fact[r][run.listed.kind]

(* A row is retired by a run that read whole facts, none of which names    *)
(* it, unless a sync stored another fact since the run read them, or the   *)
(* repository that names it was skipped.                                   *)
NothingNamedIsRetired == [][
    /\ \A x \in Retired(apis, apis') :
           AsListed(x.id[1]) => fact[x.id[1]]["apis"].complete /\ x.id \notin NamedAPIs(x.id[1])
    /\ \A x \in Retired(links, links') :
           AsListed(x.id[1]) => fact[x.id[1]]["resources"].complete /\ x.id \notin NamedLinks(x.id[1])
    /\ \A x \in Retired(resources, resources') : \A r \in Known("resources") :
           AsListed(r) /\ r \notin run.failed => x.id \notin NamedResources(r)
    /\ \A x \in Retired(edges, edges') :
           (\A r \in Known("hosts") : AsListed(r)) =>
               /\ \A r \in Known("hosts") : fact[r]["hosts"].complete
               /\ CallOf(x) \in Calls => \E e \in Live(edges') : CallOf(e) = CallOf(x)]_vars
=============================================================================

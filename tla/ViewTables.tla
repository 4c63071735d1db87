------------------------------ MODULE ViewTables ------------------------------
(***************************************************************************)
(* The rows of an organization that its graph is drawn from, what a reader *)
(* has of them, and what holds of both whatever the steps of GraphView do. *)
(*                                                                         *)
(* Confidences are in quarters.  A repository of another organization is   *)
(* one that OrgOf says is not "own".                                       *)
(***************************************************************************)
EXTENDS Integers, FiniteSets

CONSTANTS Repositories,  \* ids of repositories, a number each: later ones are larger
          OrgOf,         \* the organization of a repository
          APIOf,         \* the repository of each API
          Links,         \* the links that may be derived: [repo, resource, confidence]
          Rels,          \* ids of repository_relationships
          DefaultLimit   \* rows of a list whose limit is not given: 20

VARIABLES repo,      \* repositories: "none" until created, then "live" or "gone"
          api, link, \* apis and repository_resources, the same way
          relation,  \* repository_relationships
          request,   \* what a request that declares or changes one has read
          view,      \* what a request that reads has read
          touched    \* history: the rows that changed since it began

None == "none"
NaN == 9    \* a floor that is not a number
Statuses == {"none", "live", "gone"}
Present(r) == r \in Repositories /\ repo[r] = "live"
Own == {r \in Repositories : Present(r) /\ OrgOf[r] = "own"}

---------------------------------------------------------------------------
(* Relationships people declare *)

IsValidRepositoryRelationshipKind(kind) ==
    kind \in {"http", "async", "library", "data", "infra", "manual", "other", "provides", "uses"}
IsValidRepositoryRelationshipSource(source) ==
    source \in {"manual", "analysis", "manifest", "import", "webhook", "legacy_dependency", "config"}

IsValid(r) ==
    /\ r.src # r.dst /\ r.confidence \in 0..4
    /\ IsValidRepositoryRelationshipKind(r.kind) /\ IsValidRepositoryRelationshipSource(r.source)

---------------------------------------------------------------------------
(* The list and the graph *)

(* The handler parses the numbers, and what is none counts as 0; the       *)
(* service puts the default for a limit that is not positive.              *)
Limit(n) == IF n <= 0 THEN DefaultLimit ELSE n

GraphNodeID(kind, id) == <<IF kind \in {"api", "resource"} THEN kind ELSE "repo", id>>

Edge(id, source, target, kind, provenance, confidence, derived) ==
    [id |-> id, source |-> source, target |-> target, kind |-> kind, provenance |-> provenance,
     confidence |-> confidence, derived |-> derived]

RepositoryRelationshipToGraphEdge(i, r) ==
    Edge(<<"rel", i>>, GraphNodeID("repo", r.src), GraphNodeID("repo", r.dst), r.kind, r.source, r.confidence, r.derived)

---------------------------------------------------------------------------
(* Properties *)

(* Types of the tables; a relationship joins two repositories that are there. *)
RowsAreThere ==
    /\ repo \in [Repositories -> Statuses]
    /\ api \in [DOMAIN APIOf -> Statuses]
    /\ link \in [Links -> Statuses]
    /\ \A i \in Rels : relation[i].src # 0 =>
          Present(relation[i].src) /\ Present(relation[i].dst) /\ IsValid(relation[i])

(* No relationship leaves the organization (requireRepositoryInOrganization *)
(* is asked for each end, and repositories do not move).                    *)
RelationshipsStayInside ==
    \A i \in Rels : relation[i].src # 0 => OrgOf[relation[i].src] = "own" /\ OrgOf[relation[i].dst] = "own"

Drawn == view.at = "shown" /\ view.ask.what = "graph"
Stood(row) == row \notin touched

(* The default limit cut the repositories of the graph. *)
Cut == Cardinality(view.repos) < Cardinality(view.matched)

Within(asked, e) == asked.floor = NaN \/ e.confidence >= asked.floor
Passes(asked, r) ==
    /\ asked.repo = 0 \/ asked.repo \in {r.src, r.dst}
    /\ asked.kind = None \/ r.kind = asked.kind
    /\ asked.source = None \/ r.source = asked.source

(* A graph never draws a line into nowhere, nor one below the floor, nor    *)
(* two edges of one id, nor a repository of others; and what was there from *)
(* the first query to the last, and passes the filter, is drawn: edges      *)
(* between drawn nodes, and no API without the repository it hangs off.     *)
(* The limit that cuts the repositories is the exception.                   *)
GraphIsSound ==
    Drawn =>
    /\ \A e \in view.edges : e.source \in view.nodes /\ e.target \in view.nodes /\ Within(view.ask, e)
    /\ \A e, f \in view.edges : e.id = f.id => e = f
    /\ \A r \in Repositories : <<"repo", r>> \in view.nodes => OrgOf[r] = "own"
    /\ \A i \in Rels : relation[i].live /\ Passes(view.ask, relation[i]) /\ Stood(<<"rel", i>>) =>
          LET e == RepositoryRelationshipToGraphEdge(i, relation[i])
          IN e.source \in view.nodes /\ e.target \in view.nodes /\ Within(view.ask, e) => e \in view.edges
    /\ ~Cut =>
          /\ \A r \in Own : Stood(<<"repo", r>>) => <<"repo", r>> \in view.nodes
          /\ \A x \in DOMAIN APIOf :
                <<"api", x>> \in view.nodes /\ Stood(<<"repo", APIOf[x]>>) =>
                    \E e \in view.edges : e.id = <<"provides", x>> /\ e.target = <<"api", x>>

(* A page and its total agree: "the total always matches the rows"          *)
(* (postgres_repository.go:390), when nothing changed between the queries.  *)
PageMatchesTotal ==
    view.at = "shown" /\ view.ask.what = "list" /\ touched = {} =>
        /\ view.total = Cardinality(view.matched)
        /\ view.ask.offset = 0 /\ Limit(view.ask.limit) >= view.total => view.repos = view.matched

(* What the graph and the list show is there, and what is there they show. *)
GraphViewHolds == RowsAreThere /\ RelationshipsStayInside /\ GraphIsSound /\ PageMatchesTotal

(* "Graph endpoint: `GET /repositories/graph` returns all organization      *)
(* repositories as nodes, including independent repos" (README.md:53), and  *)
(* "a half-drawn graph is worse than none, so paginating was never an       *)
(* option" (repository_relationship_service.go:34-35).                      *)
GraphShowsEveryRepository ==
    Drawn => \A r \in Own : Stood(<<"repo", r>>) => <<"repo", r>> \in view.nodes
=============================================================================

------------------------------ MODULE GraphView ------------------------------
(***************************************************************************)
(* What a person sees of the repositories of an organization: the graph    *)
(* and the list (services/repository_relationship_service.go,              *)
(* models/repository_relationship_dto.go, handlers/repository.go), read    *)
(* with several queries and no transaction, while repositories come and go,*)
(* reconciliations write and sweep, and people declare relationships.      *)
(***************************************************************************)
EXTENDS ViewTables

CONSTANTS OwnerOf,       \* the team of a repository
          Asks,          \* what people ask to see
          Wishes         \* what people ask to declare or change

(* The graph asks with neither limit, offset nor team. *)
ViewAssumption ==
    /\ IsFiniteSet(Repositories) /\ Repositories \subseteq Nat \ {0} /\ DefaultLimit \in Nat \ {0}
    /\ \A x \in DOMAIN APIOf : APIOf[x] \in Repositories
    /\ \A a \in Asks : a.what \in {"graph", "list"} /\ a.limit \in Int /\ a.offset \in Int
    /\ \A a \in Asks : a.what = "graph" => a.limit = 0 /\ a.offset = 0 /\ a.team = None

vars == <<repo, api, link, relation, request, view, touched>>

Text == 8   \* a floor that the parser refuses
NoRel == [live |-> FALSE, src |-> 0]
Relationship(src, dst, kind, source, confidence, derived) ==
    [live |-> TRUE, src |-> src, dst |-> dst, kind |-> kind, source |-> source, confidence |-> confidence,
     derived |-> derived]
Deleted(r) == [r EXCEPT !.live = FALSE]
Idle == [at |-> "idle"]

Init ==
    /\ repo = [r \in Repositories |-> "none"]
    /\ api = [a \in DOMAIN APIOf |-> "none"]
    /\ link = [l \in Links |-> "none"]
    /\ relation = [i \in Rels |-> NoRel]
    /\ request = Idle /\ view = Idle /\ touched = {}

Touch(rows) == touched' = IF view.at \in {"idle", "refused"} THEN {} ELSE touched \cup rows

---------------------------------------------------------------------------
(* Rows come and go *)

CreateRepository(r) ==
    /\ repo[r] = "none" /\ \A q \in Repositories : q < r => repo[q] # "none"
    /\ repo' = [repo EXCEPT ![r] = "live"]
    /\ Touch({<<"repo", r>>}) /\ UNCHANGED <<api, link, relation, request, view>>

(* The delete is a real one, and the foreign keys take the rest with it. *)
DeleteRepository(r) ==
    /\ Present(r)
    /\ repo' = [repo EXCEPT ![r] = "gone"]
    /\ api' = [a \in DOMAIN api |-> IF APIOf[a] = r /\ api[a] = "live" THEN "gone" ELSE api[a]]
    /\ link' = [l \in Links |-> IF l.repo = r /\ link[l] = "live" THEN "gone" ELSE link[l]]
    /\ relation' = [i \in Rels |-> IF relation[i].src # 0 /\ r \in {relation[i].src, relation[i].dst} THEN NoRel
                                  ELSE relation[i]]
    /\ Touch({<<"repo", r>>} \cup {<<"api", a>> : a \in {x \in DOMAIN api : APIOf[x] = r}}
             \cup {<<"rel", i>> : i \in {x \in Rels : relation[x] # relation'[x]}}
             \cup {<<"link", l>> : l \in {x \in Links : x.repo = r}})
    /\ UNCHANGED <<request, view>>

(* UpsertDerivedAPI and SweepDerivedAPIs. *)
DeriveAPI(a) ==
    /\ Present(APIOf[a]) /\ api[a] # "gone"
    /\ api' = [api EXCEPT ![a] = IF @ = "live" THEN "gone" ELSE "live"]
    /\ Touch({<<"api", a>>}) /\ UNCHANGED <<repo, link, relation, request, view>>

(* UpsertDerivedRepositoryResource and its sweep.  A resource has a row *)
(* while a link leads to it.                                            *)
DeriveLink(l) ==
    /\ Present(l.repo) /\ link[l] # "gone"
    /\ link' = [link EXCEPT ![l] = IF @ = "live" THEN "gone" ELSE "live"]
    /\ Touch({<<"link", l>>, <<"resource", l.resource>>}) /\ UNCHANGED <<repo, api, relation, request, view>>

(* UpsertDerivedRelationship and its sweep. *)
DeriveRel(i) ==
    /\ \/ /\ relation[i] = NoRel /\ \A j \in Rels : j < i => relation[j] # NoRel
          /\ \E r, q \in Own :
                r # q /\ relation' = [relation EXCEPT ![i] = Relationship(r, q, "library", "manifest", 2, TRUE)]
       \/ relation[i].live /\ relation[i].derived /\ relation' = [relation EXCEPT ![i] = Deleted(@)]
    /\ Touch({<<"rel", i>>}) /\ UNCHANGED <<repo, api, link, request, view>>

---------------------------------------------------------------------------
(* Relationships people declare *)

(* relationshipErrToJSON. *)
Told(err) ==
    CASE err \in {"repository", "relationship"} -> 404
      [] err = "forbidden" -> 403
      [] err = "invalid" -> 400
      [] OTHER -> 500

Asking(at, wish) == request' = [at |-> at, wish |-> wish]
Answered(status) == request' = [at |-> "answered", status |-> status]

BeginCreate(w) ==
    /\ request.at \in {"idle", "answered"} /\ w.op = "create"
    /\ \/ IsValidRepositoryRelationshipKind(w.kind) /\ w.src # w.dst /\ Asking("source", w)
       \/ ~(IsValidRepositoryRelationshipKind(w.kind) /\ w.src # w.dst) /\ Answered(Told("invalid"))
    /\ UNCHANGED <<repo, api, link, relation, view, touched>>

(* requireRepositoryInOrganization, of one end. *)
Required(r) ==
    CASE ~Present(r) -> "repository"
      [] Present(r) /\ OrgOf[r] # "own" -> "forbidden"
      [] OTHER -> "ok"

\* Mutant: only the source is looked up.
RequireEndsSourceOnly ==
    /\ request.at = "source"
    /\ \/ Required(request.wish.src) = "ok" /\ Asking("insert", request.wish)
       \/ Required(request.wish.src) # "ok" /\ Answered(Told(Required(request.wish.src)))
    /\ UNCHANGED <<repo, api, link, relation, view, touched>>

RequireEnds ==
    /\ \/ /\ request.at = "source"
          /\ \/ Required(request.wish.src) = "ok" /\ Asking("target", request.wish)
             \/ Required(request.wish.src) # "ok" /\ Answered(Told(Required(request.wish.src)))
       \/ /\ request.at = "target"
          /\ \/ Required(request.wish.dst) = "ok" /\ Asking("insert", request.wish)
             \/ Required(request.wish.dst) # "ok" /\ Answered(Told(Required(request.wish.dst)))
    /\ UNCHANGED <<repo, api, link, relation, view, touched>>

(* A foreign key refuses a row whose end has gone since. *)
InsertRelationship ==
    /\ request.at = "insert"
    /\ LET w == request.wish IN
       \/ /\ Present(w.src) /\ Present(w.dst)
          /\ \E i \in Rels :
                /\ relation[i] = NoRel /\ \A j \in Rels : j < i => relation[j] # NoRel
                /\ relation' = [relation EXCEPT ![i] = Relationship(w.src, w.dst, w.kind, "manual", 4, FALSE)]
                /\ Touch({<<"rel", i>>})
          /\ Answered(201)
       \/ ~(Present(w.src) /\ Present(w.dst)) /\ Answered(500) /\ UNCHANGED <<relation, touched>>
    /\ UNCHANGED <<repo, api, link, view>>

(* Changed and promoted: no derivation key any more. *)
Promoted(r, w) == [r EXCEPT !.kind = w.kind, !.confidence = w.confidence, !.derived = FALSE]

(* The row is read. *)
ReadRelationship(w, i) ==
    /\ request.at \in {"idle", "answered"} /\ w.op \in {"update", "delete"}
    /\ \/ ~relation[i].live /\ Answered(Told("relationship"))
       \/ /\ relation[i].live /\ w.op = "update"
          /\ ~(IsValidRepositoryRelationshipKind(w.kind) /\ w.confidence \in 0..4)
          /\ Answered(Told("invalid"))
       \/ /\ relation[i].live /\ w.op = "update"
          /\ IsValidRepositoryRelationshipKind(w.kind) /\ w.confidence \in 0..4
          /\ request' = [at |-> "save", id |-> i, copy |-> Promoted(relation[i], w)]
       \/ relation[i].live /\ w.op = "delete" /\ request' = [at |-> "delete", id |-> i]
    /\ UNCHANGED <<repo, api, link, relation, view, touched>>

(* Save updates the row, or inserts one the foreign keys have taken: they *)
(* refuse that.                                                           *)
SaveRelationship ==
    /\ request.at = "save"
    /\ \/ /\ IsValid(request.copy) /\ Present(request.copy.src) /\ Present(request.copy.dst)
          /\ relation' = [relation EXCEPT ![request.id] = request.copy]
          /\ Touch({<<"rel", request.id>>}) /\ Answered(200)
       \/ /\ ~(IsValid(request.copy) /\ Present(request.copy.src) /\ Present(request.copy.dst))
          /\ Answered(500) /\ UNCHANGED <<relation, touched>>
    /\ UNCHANGED <<repo, api, link, view>>

DeleteRelationship ==
    /\ request.at = "delete"
    /\ relation' = [relation EXCEPT ![request.id] = Deleted(@)]
    /\ Touch({<<"rel", request.id>>}) /\ Answered(204)
    /\ UNCHANGED <<repo, api, link, view>>

---------------------------------------------------------------------------
(* The list of repositories *)

OwnedBy(team) == {r \in Own : team = None \/ OwnerOf[r] = team}

(* The newest come first.  A page is the set of its rows. *)
Rank(r, rs) == Cardinality({q \in rs : q >= r})
Page(rs, limit, offset) == {r \in rs : Rank(r, rs) > offset /\ Rank(r, rs) <= offset + limit}

\* Mutant: the total of the whole organization, whoever owns what.
CountRepositoriesAll ==
    /\ view.at = "count"
    /\ view' = IF Own = {} THEN [view EXCEPT !.at = IF view.ask.what = "list" THEN "shown" ELSE "relationships"]
               ELSE [view EXCEPT !.at = "page", !.total = Cardinality(Own)]
    /\ UNCHANGED <<repo, api, link, relation, request, touched>>

(* Two queries: without a repository to count, the second is not made. *)
CountRepositories ==
    /\ view.at = "count"
    /\ LET counted == OwnedBy(view.ask.team) IN
       view' = IF counted = {} THEN [view EXCEPT !.at = IF view.ask.what = "list" THEN "shown" ELSE "relationships"]
               ELSE [view EXCEPT !.at = "page", !.total = Cardinality(counted)]
    /\ UNCHANGED <<repo, api, link, relation, request, touched>>

(* An offset before the first row is an error of the query.  The graph asks *)
(* with neither limit nor offset.                                           *)
ListRepositories ==
    /\ view.at = "page"
    /\ \/ view.ask.offset < 0 /\ view' = [view EXCEPT !.at = "refused", !.status = 500]
       \/ /\ view.ask.offset >= 0
          /\ view' = [view EXCEPT !.at = IF view.ask.what = "list" THEN "shown" ELSE "relationships",
                                  !.repos = Page(OwnedBy(view.ask.team), Limit(view.ask.limit), view.ask.offset),
                                  !.matched = OwnedBy(view.ask.team)]
    /\ UNCHANGED <<repo, api, link, relation, request, touched>>

---------------------------------------------------------------------------
(* The graph *)

IsValidGraphNodeKind(kind) == kind \in {"repo", "api", "resource"}

(* Repositories are never optional, and APIs are shown to who does not choose. *)
nodeKindSet(kinds) == {"repo"} \cup (IF kinds = {} THEN {"api"} ELSE kinds)

(* The order of the checks of GetGraph: the repository asked for is looked *)
(* up between those of the edges and those of the nodes.                   *)
ValidEdges(a) ==
    /\ a.kind = None \/ IsValidRepositoryRelationshipKind(a.kind)
    /\ a.source = None \/ IsValidRepositoryRelationshipSource(a.source)
ValidNodes(a) == (\A k \in a.kinds : IsValidGraphNodeKind(k)) /\ (a.floor = NaN \/ a.floor \in 0..4)

Reading(a, at) == [at |-> at, ask |-> a, status |-> 200, total |-> 0, repos |-> {}, matched |-> {}, rels |-> {},
                   nodes |-> {}, edges |-> {}]
Refused(a, status) == [Reading(a, "refused") EXCEPT !.status = status]

(* A number that cannot be parsed is refused; NaN is a number to the parser. *)
BeginRead(a) ==
    /\ view.at \in {"idle", "shown", "refused"}
    /\ view' = CASE a.what = "list" -> Reading(a, "count")
                 [] a.what = "graph" /\ (a.floor = Text \/ ~ValidEdges(a)) -> Refused(a, 400)
                 [] a.what = "graph" /\ a.floor # Text /\ ValidEdges(a) /\ a.repo # 0 -> Reading(a, "fetch")
                 [] OTHER -> IF ValidNodes(a) THEN Reading(a, "count") ELSE Refused(a, 400)
    /\ touched' = {}
    /\ UNCHANGED <<repo, api, link, relation, request>>

(* fetchRepositoryInOrganization. *)
FetchRepository ==
    /\ view.at = "fetch"
    /\ LET asked == view.ask IN
       view' = IF Required(asked.repo) # "ok" THEN Refused(asked, Told(Required(asked.repo)))
               ELSE IF ValidNodes(asked) THEN Reading(asked, "count") ELSE Refused(asked, 400)
    /\ UNCHANGED <<repo, api, link, relation, request, touched>>

RepositoryToGraphNode(r) == GraphNodeID("repo", r)
APIToGraphNode(a) == GraphNodeID("api", a)
ResourceToGraphNode(x) == GraphNodeID("resource", x)

APIProvidesEdge(a) == Edge(<<"provides", a>>, GraphNodeID("repo", APIOf[a]), GraphNodeID("api", a), "provides", "manifest", 4, FALSE)
ResourceUsesEdge(l) ==
    Edge(<<"link", l>>, GraphNodeID("repo", l.repo), GraphNodeID("resource", l.resource), "uses", "config", l.confidence, TRUE)

\* Mutant: an edge with one end on the graph is kept.
pruneEdgesHalf(edges, nodes, floor) ==
    {e \in edges : e.source \in nodes /\ (floor = NaN \/ e.confidence >= floor)}

(* An edge needs both ends and the confidence; nothing is less than NaN. *)
pruneEdges(edges, nodes, floor) ==
    {e \in edges : e.source \in nodes /\ e.target \in nodes /\ (floor = NaN \/ e.confidence >= floor)}

Shown(v) ==
    LET nodes == v.nodes
        edges == v.edges \cup {RepositoryRelationshipToGraphEdge(x.id, x.row) : x \in v.rels}
    IN [v EXCEPT !.at = "shown", !.edges = pruneEdges(edges, nodes, v.ask.floor), !.rels = {}]

(* What is read after the relationships, if it is wanted. *)
AfterAPIs(v) == IF "resource" \in nodeKindSet(v.ask.kinds) THEN [v EXCEPT !.at = "resources"] ELSE Shown(v)

(* The filter narrows the relationships and no node. *)
ListRepositoryRelationships ==
    /\ view.at = "relationships"
    /\ LET asked == view.ask
           found == {i \in Rels : /\ relation[i].live
                                  /\ asked.repo # 0 => asked.repo \in {relation[i].src, relation[i].dst}
                                  /\ asked.kind # None => relation[i].kind = asked.kind
                                  /\ asked.source # None => relation[i].source = asked.source}
           v == [view EXCEPT !.rels = {[id |-> i, row |-> relation[i]] : i \in found},
                             !.nodes = {RepositoryToGraphNode(r) : r \in view.repos}]
       IN view' = IF "api" \in nodeKindSet(asked.kinds) THEN [v EXCEPT !.at = "apis"] ELSE AfterAPIs(v)
    /\ UNCHANGED <<repo, api, link, relation, request, touched>>

ListAPIs ==
    /\ view.at = "apis"
    /\ LET found == {a \in DOMAIN api : api[a] = "live" /\ OrgOf[APIOf[a]] = "own"}
       IN view' = AfterAPIs([view EXCEPT !.nodes = @ \cup {APIToGraphNode(a) : a \in found},
                                         !.edges = {APIProvidesEdge(a) : a \in found}])
    /\ UNCHANGED <<repo, api, link, relation, request, touched>>

OwnLinks == {l \in Links : link[l] = "live" /\ OrgOf[l.repo] = "own"}

ListResources ==
    /\ view.at = "resources"
    /\ view' = [view EXCEPT !.at = "links", !.nodes = @ \cup {ResourceToGraphNode(l.resource) : l \in OwnLinks}]
    /\ UNCHANGED <<repo, api, link, relation, request, touched>>

ListRepositoryResources ==
    /\ view.at = "links"
    /\ view' = Shown([view EXCEPT !.edges = @ \cup {ResourceUsesEdge(l) : l \in OwnLinks}])
    /\ UNCHANGED <<repo, api, link, relation, request, touched>>

---------------------------------------------------------------------------
Rows ==
    \/ \E r \in Repositories : CreateRepository(r) \/ DeleteRepository(r)
    \/ \E a \in DOMAIN APIOf : DeriveAPI(a)
    \/ \E l \in Links : DeriveLink(l)
    \/ \E i \in Rels : DeriveRel(i)

Declare ==
    \/ \E w \in Wishes : BeginCreate(w) \/ \E i \in Rels : ReadRelationship(w, i)
    \/ RequireEnds \/ InsertRelationship \/ SaveRelationship \/ DeleteRelationship

Look ==
    \/ \E a \in Asks : BeginRead(a)
    \/ FetchRepository \/ CountRepositories \/ ListRepositories
    \/ ListRepositoryRelationships \/ ListAPIs \/ ListResources \/ ListRepositoryResources

Next == Rows \/ Declare \/ Look

Spec == Init /\ [][Next]_vars

=============================================================================

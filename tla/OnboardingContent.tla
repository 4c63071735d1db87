-------------------------- MODULE OnboardingContent --------------------------
(***************************************************************************)
(* What the steps of one flow show (services/onboarding_service.go,        *)
(* onboarding_run.go, onboarding_verify.go): steps are saved with          *)
(* references, and each walk resolves them against live data; a verified   *)
(* step asks the platform; the glossary and the dashboard beside them.     *)
(* Every step is one call to Postgres or to the provider.  The order and   *)
(* the ids of the steps, completion and assignments are in Onboarding.     *)
(***************************************************************************)
EXTENDS ContentTables

CONSTANTS Created,   \* the order in which the repositories were created
          Teams, Docs, People, \* the other things a step can name
          Me,        \* who walks the flow
          Lists,     \* the sets of steps that are saved
          DocTypes,  \* the types of a document
          MaxSaves

vars == <<there, content, seats, term, flowLive, stepRows, outcome, access, open, req, earned, saves>>
world == <<there, content, seats, flowLive, access, open>>

Idle == [at |-> "idle"]
At(c, place) == req[c].at = place
(* The answer is not kept. *)
Answer(c, status) == req' = [req EXCEPT ![c] = Idle]
Goto(c, place) == req' = [req EXCEPT ![c] = place]

Referring(list, todo) == [at |-> "refs", list |-> list, todo |-> todo]
Resolving(todo, shown) == [at |-> "resolve", todo |-> todo, shown |-> shown]
Asking(place, d, saw) == [at |-> place, step |-> d, saw |-> saw]
Passed(d, saw) == Asking("passed", d, saw)

Entities == Repositories \cup Teams \cup Docs \cup Terms \cup People

(* A step names things of its kind, and one team at most. *)
ContentAssumption ==
    /\ IsFiniteSet(Drafts) /\ IsFiniteSet(Repositories) /\ Limit \in Nat
    /\ Created \in [Repositories -> Nat]
    /\ Me \notin Foreign /\ Terms \cap Teams = {} /\ Names \cap {"", "gone"} = {}
    /\ Lists \subseteq SUBSET Drafts
    /\ \A d \in Drafts :
          /\ d.kind \in {"repository", "architecture"} => d.refs \subseteq Repositories
          /\ d.kind = "team" => d.refs \subseteq Teams
          /\ d.kind = "contacts" => d.refs \subseteq People
          /\ d.kind = "glossary" => d.refs \subseteq Terms
          /\ \A t, u \in d.refs \cap Teams : t = u

(* Content that was given is not taken away; checks are true of Me. *)
Check(d) ==
    IF d.check = "first_change_request" THEN Me \in open
    ELSE \E t \in there \cap Teams : Me \in seats[t] /\ d.refs \cap Teams \subseteq {t}

Holding == {d \in Drafts : d.kind = "verified" /\ Check(d)}

Init ==
    /\ there = Entities \ Terms
    /\ content = [d \in Docs |-> {}]
    /\ seats = [t \in Teams |-> People \ (Foreign \cup {Me})]
    /\ term = [t \in Terms |-> ""]
    /\ flowLive = TRUE /\ stepRows = {} /\ outcome = [d \in Drafts |-> "none"]
    /\ access = {} /\ open = {}
    /\ req = [c \in Walkers |-> Idle] /\ earned = [c \in Walkers |-> {}] /\ saves = 0

---------------------------------------------------------------------------
(* Saving the steps *)

IsKnown(kind) ==
    kind \in {"markdown", "checklist", "link", "contacts", "task", "repository", "team",
              "doc", "architecture", "glossary", "verified"}

(* Step.Validate; text: it has the words or links its kind needs. *)
Validate(d) ==
    /\ IsKnown(d.kind)
    /\ d.kind \in {"markdown", "link", "checklist", "task"} => d.text
    /\ d.kind = "repository" => d.refs \cap Repositories # {}
    /\ d.kind = "team" => d.refs \cap Teams # {}
    /\ d.kind = "doc" => d.refs \cap Docs # {}
    /\ d.kind = "contacts" => d.refs \cap People # {}
    /\ d.kind = "verified" => \/ d.check = "first_change_request" /\ d.refs \cap Repositories # {}
                              \/ d.check = "team_membership"

(* The flow is the caller's, and every step has the shape of its kind. *)
ReplaceSteps(c, list) ==
    /\ At(c, "idle") /\ saves < MaxSaves
    /\ \/ ~flowLive /\ Answer(c, 404)
       \/ flowLive /\ (\E d \in list : ~Validate(d)) /\ Answer(c, 400)
       \/ /\ flowLive /\ \A d \in list : Validate(d)
          /\ Goto(c, Referring(list, UNION {d.refs : d \in list}))
    /\ UNCHANGED <<world, term, stepRows, outcome, earned, saves>>

Kinds == <<Repositories, Teams, Docs, Terms, People>>
FirstKind(es) == Kinds[CHOOSE k \in 1..5 : Kinds[k] \cap es # {} /\ \A j \in 1..k-1 : Kinds[j] \cap es = {}]

\* Mutant: the people of a contact are not looked up.
ValidateReferencesButPeople(c) ==
    /\ At(c, "refs") /\ req[c].todo # {}
    /\ \E e \in FirstKind(req[c].todo) \cap req[c].todo :
          \/ (e \in People \/ Ours(e)) /\ Goto(c, Referring(req[c].list, req[c].todo \ {e}))
          \/ e \notin People /\ ~Ours(e) /\ Answer(c, 400)
    /\ UNCHANGED <<world, term, stepRows, outcome, earned, saves>>

(* One query for each reference; the steps may have named it before. *)
ValidateReferences(c) ==
    /\ At(c, "refs") /\ req[c].todo # {}
    /\ \E e \in FirstKind(req[c].todo) \cap req[c].todo :
          \/ Ours(e) /\ Goto(c, Referring(req[c].list, req[c].todo \ {e}))
          \/ ~Ours(e) /\ Answer(c, 400)
    /\ UNCHANGED <<world, term, stepRows, outcome, earned, saves>>

(* Which steps of a list carry the id of a row that is there, and of which. *)
Edits(list) ==
    {was \in UNION {[kept -> stepRows] : kept \in SUBSET list} :
        \A d, e \in DOMAIN was : was[d] = was[e] => d = e}

(* Those are updated in place: their outcome stays, whatever becomes of the *)
(* kind and the check.  Outcomes of the steps that are dropped go with      *)
(* them, and an id that is not of the flow undoes it all.                   *)
ReplaceOnboardingSteps(c) ==
    /\ At(c, "refs") /\ req[c].todo = {}
    /\ \/ /\ stepRows' = req[c].list /\ saves' = saves + 1
          /\ \E was \in Edits(req[c].list) :
                outcome' = [d \in Drafts |-> IF d \in DOMAIN was THEN outcome[was[d]] ELSE "none"]
          /\ Answer(c, 200)
       \/ req[c].list # {} /\ Answer(c, 500) /\ UNCHANGED <<stepRows, outcome, saves>>
    /\ UNCHANGED <<world, term, earned>>

---------------------------------------------------------------------------
(* The walk *)

(* buildRun: the flow, its steps and the outcomes; without the flow the *)
(* person is shown no run.                                              *)
BuildRun(c) ==
    /\ At(c, "idle")
    /\ \/ ~flowLive /\ Answer(c, 204)
       \/ /\ flowLive
          /\ Goto(c, Resolving(stepRows, {}))
    /\ UNCHANGED <<world, term, stepRows, outcome, earned, saves>>

(* What a step shows: the things it names, or, when names is empty, an *)
(* explanation in their place.                                         *)
Show(c, d, names) ==
    Goto(c, Resolving(req[c].todo \ {d}, req[c].shown \cup {[step |-> d, names |-> names]}))

(* The newest repositories of the organization, as GetGraph draws them. *)
Newer(r) == {x \in Repositories : Ours(x) /\ Created[x] > Created[r]}
Nodes == {r \in Repositories : Ours(r) /\ Cardinality(Newer(r)) < Limit}
filterGraph(nodes, chosen) == IF chosen = {} THEN nodes ELSE nodes \cap chosen

ResolveRepository(c, d) == d.kind = "repository" /\ Show(c, d, {e \in d.refs \cap Repositories : Ours(e)})
ResolveArchitecture(c, d) == d.kind = "architecture" /\ Show(c, d, filterGraph(Nodes, d.refs \cap Repositories))

(* The only type, if none is named. *)
HasContent(e, type) == type \in content[e] \/ (type = "" /\ Cardinality(content[e]) = 1)
resolveDoc(c, d) == d.kind = "doc" /\ Show(c, d, {e \in d.refs \cap Docs : Ours(e) /\ HasContent(e, d.type)})

(* No selection is the whole vocabulary. *)
resolveGlossary(c, d) ==
    /\ d.kind = "glossary"
    /\ Show(c, d, {t \in Terms : Ours(t) /\ (d.refs \cap Terms = {} \/ t \in d.refs)})

(* The area of one who left is shown without the person. *)
resolveContacts(c, d) == d.kind = "contacts" /\ Show(c, d, {p \in d.refs \cap People : Ours(p)})

resolveTeam(c, d) ==
    /\ d.kind = "team"
    /\ \E t \in d.refs \cap Teams :
          \/ ~Ours(t) /\ Show(c, d, {})
          \/ Ours(t) /\ Goto(c, [at |-> "members", team |-> t, step |-> d,
                                 todo |-> req[c].todo, shown |-> req[c].shown])

(* Its seats, and the repositories it owns. *)
ListTeamMembers(c) ==
    /\ At(c, "members")
    /\ Show(c, req[c].step, {req[c].team} \cup seats[req[c].team])
    /\ UNCHANGED <<world, term, stepRows, outcome, earned, saves>>

(* Editorial steps carry what they need; a verified one says its claim. *)
Plain(c, d) == d.kind \in {"markdown", "checklist", "link", "task", "verified"} /\ Show(c, d, {})

resolveStep(c) ==
    /\ At(c, "resolve")
    /\ \E d \in req[c].todo :
          \/ ResolveRepository(c, d) \/ ResolveArchitecture(c, d) \/ resolveDoc(c, d)
          \/ resolveGlossary(c, d) \/ resolveContacts(c, d) \/ resolveTeam(c, d) \/ Plain(c, d)
    /\ UNCHANGED <<world, term, stepRows, outcome, earned, saves>>

ListForUser(c) ==
    /\ At(c, "resolve") /\ req[c].todo = {}
    /\ Answer(c, 200)
    /\ UNCHANGED <<world, term, stepRows, outcome, earned, saves>>

(* Of any kind: a verified step too is done when the person says so. *)
MarkStep(c, d, status) ==
    /\ At(c, "idle") /\ d \in stepRows
    /\ outcome' = [outcome EXCEPT ![d] = status] /\ Answer(c, 200)
    /\ UNCHANGED <<world, term, stepRows, earned, saves>>

---------------------------------------------------------------------------
(* Verification *)

(* A team check reads the seats and then the team; the other the repository. *)
Verify(c, d) ==
    /\ At(c, "idle") /\ d \in stepRows /\ d.kind = "verified"
    /\ LET mine == {t \in Teams : Ours(t) /\ Me \in seats[t]}  asks == d.refs \cap Teams IN
       IF d.check = "first_change_request" THEN
          IF \E r \in d.refs \cap Repositories : Ours(r) THEN Goto(c, Asking("access", d, saves))
          ELSE Answer(c, "pending")
       ELSE IF asks = {} THEN
          IF mine = {} THEN Answer(c, "no") ELSE Goto(c, Passed(d, saves))
       ELSE Goto(c, [at |-> "team", step |-> d, saw |-> saves, on |-> asks \subseteq mine])
    /\ earned' = [earned EXCEPT ![c] = Holding]
    /\ UNCHANGED <<world, term, stepRows, outcome, saves>>

verifyTeamMembership(c) ==
    /\ At(c, "team")
    /\ \/ (\E t \in req[c].step.refs \cap Teams : ~Ours(t)) /\ Answer(c, "pending")
       \/ /\ \A t \in req[c].step.refs \cap Teams : Ours(t)
          /\ IF req[c].on THEN Goto(c, Passed(req[c].step, req[c].saw)) ELSE Answer(c, "no")
    /\ UNCHANGED <<world, term, stepRows, outcome, earned, saves>>

(* The URL, the login of the person, the token of the organization. *)
ResolveAccess(c) ==
    /\ At(c, "access")
    /\ \/ access = {"login", "token"} /\ Goto(c, Asking("list", req[c].step, req[c].saw))
       \/ access # {"login", "token"} /\ Answer(c, "pending")
    /\ UNCHANGED <<world, term, stepRows, outcome, earned, saves>>

\* Mutant: whoever could not be looked up has passed.
verifyFirstChangeRequestAlways(c) ==
    /\ At(c, "list")
    /\ Goto(c, Passed(req[c].step, req[c].saw))
    /\ UNCHANGED <<world, term, stepRows, outcome, earned, saves>>

(* The provider lists the open ones, or cannot be asked. *)
verifyFirstChangeRequest(c) ==
    /\ At(c, "list")
    /\ \/ Me \in open /\ Goto(c, Passed(req[c].step, req[c].saw))
       \/ Me \notin open /\ Answer(c, "no")
       \/ Answer(c, "pending")
    /\ UNCHANGED <<world, term, stepRows, outcome, earned, saves>>

(* Only a pass is recorded, as what the person marks is: done.  The row    *)
(* with the step's id may be gone, or be another step since it was edited. *)
RecordPass(c) ==
    /\ At(c, "passed")
    /\ LET edited == req[c].saw # saves IN
       \/ /\ \E d \in stepRows : (edited \/ d = req[c].step) /\ outcome' = [outcome EXCEPT ![d] = "done"]
          /\ Answer(c, "passed")
       \/ edited /\ Answer(c, 500) /\ UNCHANGED outcome
    /\ UNCHANGED <<world, term, stepRows, earned, saves>>

---------------------------------------------------------------------------
(* The dashboard: the flows, their steps, the members, the outcomes.  A *)
(* flow that is deleted has no steps; what was skipped does not count.  *)
ListAssignments(c) ==
    /\ At(c, "idle")
    /\ Goto(c, [at |-> "steps", named |-> flowLive, saw |-> saves])
    /\ UNCHANGED <<world, term, stepRows, outcome, earned, saves>>

CountOnboardingStepsByFlow(c) ==
    /\ At(c, "steps")
    /\ Goto(c, [at |-> "progress", named |-> req[c].named, saw |-> req[c].saw,
                total |-> IF req[c].named THEN Cardinality(stepRows) ELSE 0])
    /\ UNCHANGED <<world, term, stepRows, outcome, earned, saves>>

Board(c, walked) ==
    [at |-> "board", named |-> req[c].named, saw |-> req[c].saw, total |-> req[c].total,
     done |-> Cardinality(walked)]

\* Mutant: outcomes of steps that are no longer there are counted.
CountEveryStep(c) ==
    /\ At(c, "progress")
    /\ Goto(c, Board(c, Drafts))
    /\ UNCHANGED <<world, term, stepRows, outcome, earned, saves>>

CountOnboardingProgressByAssignment(c) ==
    /\ At(c, "progress")
    /\ Goto(c, Board(c, {d \in Drafts : outcome[d] = "done"}))
    /\ UNCHANGED <<world, term, stepRows, outcome, earned, saves>>

Dashboard(c) ==
    /\ At(c, "board") /\ Answer(c, 200)
    /\ UNCHANGED <<world, term, stepRows, outcome, earned, saves>>

---------------------------------------------------------------------------
(* The glossary *)

(* Create, of a row that is new, and update, whose copy is the row it read. *)
SaveGlossaryTerm(c, t, name) ==
    /\ At(c, "idle") /\ term[t] # "gone"
    /\ term[t] = "" => \A k \in Walkers : req[k].at \in {"term", "write"} => req[k].row # t
    /\ \/ name = "" /\ Answer(c, 400)
       \/ name # "" /\ Goto(c, [at |-> "term", row |-> t, name |-> name, new |-> term[t] = ""])
    /\ UNCHANGED <<world, term, stepRows, outcome, earned, saves>>

findTermByName(c) ==
    /\ At(c, "term")
    /\ \/ Clash(req[c].row, req[c].name) /\ Answer(c, 409)
       \/ ~Clash(req[c].row, req[c].name) /\ Goto(c, [at |-> "write", row |-> req[c].row,
                                                                name |-> req[c].name, new |-> req[c].new])
    /\ UNCHANGED <<world, term, stepRows, outcome, earned, saves>>

\* Mutant: the index compares the spellings.
TermIsFreeExactly(t, name) == \A x \in LiveTerms \ {t} : term[x] # name

(* The unique index on lower(term) of the live rows. *)
TermIsFree(t, name) == ~Clash(t, name)

(* An update of a row that was deleted changes nothing. *)
WriteGlossaryTerm(c) ==
    /\ At(c, "write")
    /\ LET t == req[c].row  name == req[c].name  live == req[c].new \/ t \in LiveTerms IN
       \/ live /\ TermIsFree(t, name) /\ term' = [term EXCEPT ![t] = name] /\ Answer(c, 200)
       \/ ~live /\ Answer(c, 200) /\ UNCHANGED term
       \/ live /\ ~TermIsFree(t, name) /\ Answer(c, 500) /\ UNCHANGED term
    /\ UNCHANGED <<world, stepRows, outcome, earned, saves>>

DeleteGlossaryTerm(c, t) ==
    /\ At(c, "idle")
    /\ IF t \in LiveTerms THEN term' = [term EXCEPT ![t] = "gone"] /\ Answer(c, 204)
       ELSE Answer(c, 404) /\ UNCHANGED term
    /\ UNCHANGED <<world, stepRows, outcome, earned, saves>>

---------------------------------------------------------------------------
(* What else happens in the organization and at its provider. *)

Earn == earned' = [c \in Walkers |-> earned[c] \cup Holding']

(* A repository, a team or a document is deleted, or a member is removed: *)
(* the seats of the member stay.                                          *)
Delete(e) ==
    /\ e \in there \ Foreign /\ e # Me
    /\ there' = there \ {e}
    /\ UNCHANGED <<content, seats, flowLive, access, open>>

Generate(d, type) ==
    /\ d \in there /\ content' = [content EXCEPT ![d] = @ \cup {type}]
    /\ UNCHANGED <<there, seats, flowLive, access, open>>

Seat(t) ==
    /\ t \in there \ Foreign
    /\ seats' = [seats EXCEPT ![t] = IF Me \in @ THEN @ \ {Me} ELSE @ \cup {Me}]
    /\ UNCHANGED <<there, content, flowLive, access, open>>

Grant(what) ==
    /\ access' = IF what \in access THEN access \ {what} ELSE access \cup {what}
    /\ UNCHANGED <<there, content, seats, flowLive, open>>

ChangeRequest ==
    /\ open' = IF Me \in open THEN open \ {Me} ELSE open \cup {Me}
    /\ UNCHANGED <<there, content, seats, flowLive, access>>

DeleteFlow ==
    /\ flowLive /\ flowLive' = FALSE
    /\ UNCHANGED <<there, content, seats, access, open>>

World ==
    /\ \/ \E e \in Entities : Delete(e)
       \/ \E d \in Docs, type \in DocTypes : Generate(d, type)
       \/ \E t \in Teams : Seat(t)
       \/ \E what \in {"login", "token"} : Grant(what)
       \/ ChangeRequest \/ DeleteFlow
    /\ Earn
    /\ UNCHANGED <<term, stepRows, outcome, req, saves>>

---------------------------------------------------------------------------
Walk(c) ==
    \/ BuildRun(c) \/ resolveStep(c) \/ ListTeamMembers(c) \/ ListForUser(c)
    \/ \E list \in Lists : ReplaceSteps(c, list)
    \/ ValidateReferences(c) \/ ReplaceOnboardingSteps(c)

Prove(c) ==
    \/ \E d \in Drafts : Verify(c, d)
    \/ verifyTeamMembership(c) \/ ResolveAccess(c) \/ verifyFirstChangeRequest(c) \/ RecordPass(c)

Count(c) ==
    \/ ListAssignments(c) \/ CountOnboardingStepsByFlow(c) \/ CountOnboardingProgressByAssignment(c)
    \/ Dashboard(c) \/ \E d \in Drafts, status \in {"done", "skipped"} : MarkStep(c, d, status)

Define(c) ==
    \/ \E t \in Terms : \/ \E name \in Names \cup {""} : SaveGlossaryTerm(c, t, name)
                        \/ DeleteGlossaryTerm(c, t)
    \/ findTermByName(c) \/ WriteGlossaryTerm(c)

Next == (\E c \in Walkers : Walk(c) \/ Prove(c) \/ Count(c) \/ Define(c)) \/ World

Spec == Init /\ [][Next]_vars
=============================================================================

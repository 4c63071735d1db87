------------------------------ MODULE Requests ------------------------------
(***************************************************************************)
(* One request to the HTTP API (internal/api): the route's floor, then the *)
(* calls its handler and the service behind it make, in their order, and   *)
(* the status each way out is told with.  The row the path names may go,   *)
(* and the name the body asks for may be taken, between any two of them.   *)
(*                                                                         *)
(* A handler is a route: its steps are data, and one machine runs them.    *)
(* Webhooks, reports of coverage and settings have modules of their own.   *)
(***************************************************************************)
EXTENDS Integers, Sequences, FiniteSets, TLC

VARIABLES row,  \* the row the path names: of this organization, of another, or gone
          req   \* the request

vars == <<row, req>>

Roles == <<"viewer", "developer", "maintainer", "admin">>
Callers == {"none"} \cup {Roles[i] : i \in 1..4}
Rank(role) == Cardinality({i \in 1..4 : \E j \in i..4 : Roles[j] = role})
HasPermission(role, floor) == Rank(role) >= Rank(floor)

---------------------------------------------------------------------------
(* What a handler does, step by step, and which error each way out raises. *)

Refuse(errs) == [do |-> "refuse", errs |-> errs, gone |-> "", foreign |-> "",
                 fails |-> "failed", may |-> FALSE, index |-> "none", status |-> 0]

Doing(what) == [Refuse({}) EXCEPT !.do = what]

Look(errs) == [Doing("look") EXCEPT !.errs = errs]  \* at other rows
Free(e) == [Doing("free") EXCEPT !.errs = {e}]      \* whether the name is free
Find(gone, foreign) == [Doing("find") EXCEPT !.gone = gone, !.foreign = foreign]
FindAny(gone) == Find(gone, "")                     \* whose organization is not compared
Store == Doing("store")                             \* a write that needs no row and no name
Child == Doing("child")                             \* of a row that refers to the path's by a foreign key
Insert == [Doing("insert") EXCEPT !.index = "free"]  \* one that a unique index may refuse
Update == Doing("update")                           \* the row, if it is still there
Save == Doing("save")                               \* the row, which is inserted if it is gone
Delete == Doing("delete")
Quiet == Doing("quiet")                             \* a call whose failure is only logged
Act(errs) == [Doing("act") EXCEPT !.errs = errs]    \* a change at the host
Exit(status) == [Doing("exit") EXCEPT !.status = status]

May(step) == [step EXCEPT !.may = TRUE]             \* when the body asks for it
Checked(step, gone) == [step EXCEPT !.gone = gone]  \* RowsAffected = 0 is an error
FailsAs(step, e) == [step EXCEPT !.fails = e]
Named(step) == [step EXCEPT !.index = "free"]
Alone(step) == [step EXCEPT !.index = "any"]        \* nobody looked before

Bad == Refuse({"bad"})
Bind == Bad                                         \* ShouldBindJSON
TokenPair == <<Store, Store>>

Route(floor, steps, ok, told) ==
    [floor |-> floor, steps |-> steps, ok |-> ok, other |-> 500, told |-> told @@ [bad |-> 400]]

Otherwise(route, status) == [route EXCEPT !.other = status]

---------------------------------------------------------------------------
(* handlers/auth.go: whatever fails is told with one status. *)
NoErrors == [bad |-> 400]

Login(steps, ok, status) == Otherwise(Route("public", steps \o TokenPair, ok, NoErrors), status)

LoginWithEmail == Login(<<Bind, Look({"credentials"}), Look({"organization"}), Exit(202)>>, 200, 401)
SelectOrganization == Login(<<Bind, Refuse({"ticket"}), Look({"member"})>>, 200, 401)
RefreshTokens == Login(<<Bind, Look({"token"}), Store, Look({"user", "organization", "member"})>>, 200, 401)
OAuthCallback ==
    Login(<<Bad, Look({"state", "code", "organization"}), May(Insert), Store, Insert>>, 200, 401)

RegisterWithEmail ==
    [Login(<<Bind, Bad, Refuse({"password"}), Look({"RequiresInvite", "InviteRejected"}), May(Alone(Insert)),
             Quiet, May(Alone(Insert)), [Insert EXCEPT !.errs = {"InviteRejected"}]>>, 201, 400)
        EXCEPT !.told = @ @@ [RequiresInvite |-> 403, InviteRejected |-> 403]]

Logout == Route("any", <<Bad, Store, Quiet>>, 204, NoErrors)
GetCurrentUser == Route("any", <<Quiet>>, 200, NoErrors)
OAuthLogin ==
    Route("public", <<May(FailsAs(Look({"bad"}), "bad")), Bad, FailsAs(Look({"bad"}), "bad")>>, 307, NoErrors)

---------------------------------------------------------------------------
(* handlers/repository.go *)
repoErrToJSON == [NotFound |-> 404, Forbidden |-> 403, NotRepositoryOwner |-> 403]

Found == Find("NotFound", "Forbidden")
CanWriteRepository == [Doing("own") EXCEPT !.errs = {"NotRepositoryOwner"}, !.fails = "NotRepositoryOwner"]

CreateRepository ==
    Otherwise(Route("developer", <<Bind, Refuse({"url"}), Free("AlreadyExists"), Insert, Quiet>>, 201, [AlreadyExists |-> 409]), 400)

GetRepository == Route("any", <<Exit(200), Found, Quiet>>, 200, repoErrToJSON)
SyncRepository == Route("developer", <<Found, Exit(503), Exit(202), Store>>, 202, repoErrToJSON)
ListRepositories == Route("any", <<Look({})>>, 200, NoErrors)
UpdateRepository == Route("developer", <<Bind, Found, CanWriteRepository, Save, Quiet>>, 200, repoErrToJSON)
DeleteRepository == Route("developer", <<Found, CanWriteRepository, Delete, Quiet>>, 204, repoErrToJSON)

(* handlers/repository_relationship.go *)
relationshipErrToJSON ==
    [NotFound |-> 404, RelationshipNotFound |-> 404, Forbidden |-> 403, InvalidRelationship |-> 400]

Relationship == Find("RelationshipNotFound", "Forbidden")
Invalid == Refuse({"InvalidRelationship"})

GetGraph ==
    Route("any", <<Bad, Invalid, May(Found), Invalid, Look({}), Look({}), May(Look({}))>>, 200, relationshipErrToJSON)

CreateRelationship ==
    Route("developer", <<Bind, Invalid, Found, Look({"NotFound", "Forbidden"}), Child>>, 201, relationshipErrToJSON)

UpdateRelationship == Route("developer", <<Bind, Relationship, Invalid, Save>>, 200, relationshipErrToJSON)
DeleteRelationship == Route("developer", <<Relationship, Delete>>, 204, relationshipErrToJSON)

---------------------------------------------------------------------------
(* handlers/team.go *)
handleTeamError ==
    [TeamInvalid |-> 400, TeamSlugTaken |-> 409, TeamNotLocal |-> 409,
     UserNotInOrganization |-> 409, TeamNotFound |-> 404, RepositoryNotFound |-> 404]

getScoped == Find("TeamNotFound", "TeamNotFound")
Local == Refuse({"TeamNotLocal"})

ListTeams == Route("any", <<Look({}), Quiet>>, 200, NoErrors)
GetTeam == Route("any", <<getScoped>>, 200, handleTeamError)
ListTeamMembers == Route("any", <<getScoped, Look({})>>, 200, handleTeamError)
CreateTeam ==
    Route("maintainer", <<Bind, Refuse({"TeamInvalid"}), Free("TeamSlugTaken"), Insert, Quiet>>, 201, handleTeamError)
UpdateTeam == Route("maintainer", <<Bind, getScoped, Refuse({"TeamInvalid"}), Save>>, 200, handleTeamError)
DeleteTeam ==
    Route("maintainer", <<getScoped, FailsAs(Checked(Delete, "TeamNotFound"), "TeamNotFound")>>, 204, handleTeamError)
AddTeamMember ==
    Route("maintainer", <<Bind, getScoped, Local, Look({"UserNotInOrganization"}), Store>>, 204, handleTeamError)
RemoveTeamMember ==
    Route("maintainer", <<getScoped, Local, Refuse({"TeamNotFound"}), FailsAs(Store, "TeamNotFound")>>, 204, handleTeamError)
SetRepositoryOwner ==
    Route("maintainer", <<Bind, Find("RepositoryNotFound", "RepositoryNotFound"), May(Look({"TeamNotFound"})),
                          Checked(Update, "ErrRecordNotFound")>>, 204, handleTeamError)

---------------------------------------------------------------------------
(* handlers/organization_members.go *)
handleMembershipError ==
    [InviteInvalidEmail |-> 400, InviteInvalidRole |-> 400, InviteAlreadyMember |-> 409,
     LastAdmin |-> 409, SelfDemotion |-> 409, InviteNotFound |-> 404, MemberNotFound |-> 404]

Member == Find("MemberNotFound", "MemberNotFound")
ensureNotLastAdmin == May(Look({"LastAdmin"}))

ListMembers == Route("admin", <<Look({})>>, 200, NoErrors)
UpdateMemberRole ==
    Route("admin", <<Bind, Refuse({"InviteInvalidRole", "SelfDemotion"}), Member, Exit(204), ensureNotLastAdmin,
                     Checked(Update, "ErrRecordNotFound")>>, 204, handleMembershipError)
RemoveMember ==
    Route("admin", <<Refuse({"SelfDemotion"}), Member, ensureNotLastAdmin,
                     Checked(Delete, "ErrRecordNotFound")>>, 204, handleMembershipError)
CreateInvite ==
    Route("admin", <<Bind, Refuse({"InviteInvalidEmail", "InviteInvalidRole"}), Look({"InviteAlreadyMember"}),
                     May(Look({"FlowNotFound"})), Alone(Insert)>>, 201, handleMembershipError)
ListInvites == Route("admin", <<Look({})>>, 200, NoErrors)
RevokeInvite ==
    Route("admin", <<Find("InviteNotFound", "InviteNotFound"),
                     FailsAs(Checked(Update, "InviteNotFound"), "InviteNotFound")>>, 204, handleMembershipError)

(* handlers/coverage.go: the repository of the path is not looked for, and *)
(* its organization is compared only for the setup.                        *)
CreateCoverageToken == Route("maintainer", <<Bind, Child>>, 201, NoErrors)
ListCoverageTokens == Route("maintainer", <<Look({})>>, 200, NoErrors)
GetCoverageSetup == Route("maintainer", <<Found, Quiet>>, 200, repoErrToJSON)
RevokeCoverageToken ==
    Route("maintainer", <<[FindAny("TokenNotFound") EXCEPT !.errs = {"TokenNotFound"}],
                          Checked(Update, "TokenNotFound")>>, 204, [TokenNotFound |-> 404])

---------------------------------------------------------------------------
(* handlers/docs.go and docs_manual.go *)
requireOrgAdmin == Doing("admin")
bindManualDoc == <<Bind, Bad>>
Documented == [NotFound |-> 404, Forbidden |-> 403, unavailable |-> 503, spent |-> 429, conflict |-> 409]
WithinBudget == [Quiet EXCEPT !.errs = {"spent"}]
Enqueue == [Store EXCEPT !.errs = {"conflict"}]
Configured == FailsAs(Look({"unavailable"}), "unavailable")

CreateRepositoryDoc == Route("developer", <<Found>> \o bindManualDoc \o <<Child>>, 201, Documented)
CreateOrgDoc == Route("any", <<requireOrgAdmin>> \o bindManualDoc \o <<Store>>, 201, Documented)
GenerateRepositoryDocs ==
    Route("developer", <<Found, Bind, Configured, Refuse({"bad", "unavailable"}), WithinBudget, Child, Enqueue>>, 202, Documented)
ListRepositoryDocs == Route("any", <<Found, Bad, Look({})>>, 200, Documented)
GetDocGeneration ==
    Route("any", <<Look({"NotFound", "Forbidden"}), Exit(200), FailsAs(Found, "NotFound")>>, 200, Documented)
GenerateOrgDocs ==
    Route("any", <<requireOrgAdmin, Bind, Bad, Configured, WithinBudget, Store, Enqueue>>, 202, Documented)
ListOrgDocs == Route("any", <<Look({})>>, 200, Documented)
UpdateDocContent ==
    Route("developer", <<requireOrgAdmin, Bind, Bad, FailsAs(Found, "NotFound"), Child, Quiet>>, 200, Documented)
ListDocTemplates == Route("any", <<Bad>>, 200, Documented)

---------------------------------------------------------------------------
(* handlers/scm_context.go, repository_browse.go and pull_requests.go *)
providerError ==
    [NotFound |-> 404, Forbidden |-> 403, NotRepositoryOwner |-> 403, UnsupportedCapability |-> 501,
     UnsupportedProvider |-> 400, MissingCredentials |-> 503, HostNotFound |-> 404, HostUnauthorized |-> 503,
     HostRateLimited |-> 503, SelfReview |-> 409, ProviderRejected |-> 409]

Hosted == {"HostNotFound", "HostUnauthorized", "HostRateLimited", "ProviderRejected", "unreachable"}
Ask == Refuse(Hosted)

resolveRepository == <<Found, Bad, Look({}), Refuse({"UnsupportedProvider", "MissingCredentials"})>>

OfHost(floor, steps, ok) == Route(floor, steps, ok, providerError @@ [failed |-> 500, unreachable |-> 503])

ListIssues == OfHost("any", resolveRepository \o <<Ask>>, 200)
ListContributors == OfHost("any", resolveRepository \o <<Ask, Quiet, Quiet>>, 200)
CloseIssue == OfHost("developer", <<Bad>> \o resolveRepository \o <<CanWriteRepository, Act(Hosted)>>, 204)

ListPullRequests == OfHost("any", resolveRepository \o <<Ask, Quiet>>, 200)
GetPullRequest == OfHost("any", <<Bad>> \o resolveRepository \o <<Ask, Ask, Quiet, Quiet>>, 200)
GetPullRequestFiles == OfHost("any", <<Bad>> \o resolveRepository \o <<Ask>>, 200)
submitReview ==
    OfHost("developer", <<Bad, Bind>> \o resolveRepository
               \o <<CanWriteRepository, Act(Hosted \cup {"SelfReview", "UnsupportedCapability"})>>, 204)

---------------------------------------------------------------------------
(* handlers/onboarding.go *)

\* Mutant: one refusal of the service has no answer of its own.
onboardingErrorFewer ==
    [FlowNotFound |-> 404, AssignmentNotFound |-> 404, StepNotFound |-> 404, StepStatusInvalid |-> 400,
     TermNotFound |-> 404, FlowSlugTaken |-> 409, TermTaken |-> 409,
     FlowInvalid |-> 400, StepInvalid |-> 400, ReferenceNotInOrganization |-> 400, TemplateNotFound |-> 400,
     TermInvalid |-> 400]

onboardingError ==
    [FlowNotFound |-> 404, AssignmentNotFound |-> 404, StepNotFound |-> 404, StepStatusInvalid |-> 400,
     TermNotFound |-> 404, FlowSlugTaken |-> 409, TermTaken |-> 409, UserNotInOrganization |-> 400,
     FlowInvalid |-> 400, StepInvalid |-> 400, ReferenceNotInOrganization |-> 400, TemplateNotFound |-> 400,
     TermInvalid |-> 400]

Onboarding(floor, steps, ok) == Route(floor, steps, ok, onboardingError)
getScopedFlow == Find("FlowNotFound", "FlowNotFound")
resolveOwnStep == <<Find("StepNotFound", "AssignmentNotFound"), Look({"AssignmentNotFound"})>>
Term == Find("TermNotFound", "TermNotFound")

ListFlows == Onboarding("any", <<Look({}), May(Look({}))>>, 200)
GetFlow == Onboarding("any", <<getScopedFlow, Look({})>>, 200)
ListTemplates == Onboarding("any", <<>>, 200)
CreateFlow ==
    Onboarding("admin", <<Bind, Refuse({"FlowInvalid"}), Free("FlowSlugTaken"), May(Refuse({"TemplateNotFound"})),
                          May(Store), Insert, May(Store)>>, 201)
UpdateFlow ==
    Onboarding("admin", <<Bind, getScopedFlow, Refuse({"FlowInvalid"}), May(Free("FlowSlugTaken")), May(Store), Named(Update)>>, 200)
DeleteFlow == Onboarding("admin", <<getScopedFlow, Delete>>, 204)
DuplicateFlow ==
    Onboarding("admin", <<getScopedFlow, Look({}), Free("FlowSlugTaken"), Insert, May(Store)>>, 201)
ReplaceSteps ==
    Onboarding("admin", <<Bind, getScopedFlow, Refuse({"StepInvalid"}), Look({"ReferenceNotInOrganization"}),
                          [Store EXCEPT !.errs = {"NotOfTheFlow"}], getScopedFlow, Look({})>>, 200)
AssignFlow ==
    Onboarding("maintainer", <<Bind, getScopedFlow, Look({"UserNotInOrganization"}), Look({}), Exit(201), Insert>>, 201)
ListAssignments == Onboarding("admin", <<Look({})>>, 200)

MyOnboarding == Onboarding("any", <<Look({})>>, 200)
MarkStep ==
    Onboarding("any", <<Bind, Refuse({"StepStatusInvalid"})>> \o resolveOwnStep
                          \o <<Child, Store, Look({"AssignmentNotFound"}), May(Store)>>, 200)
VerifyStep ==
    Onboarding("any", resolveOwnStep \o <<Refuse({"StepNotFound"}), Exit(200), Look({}), Exit(200), Child, Store>>, 200)
SubmitFeedback ==
    Onboarding("any", <<Bind, Find("AssignmentNotFound", "AssignmentNotFound"), Update>>, 204)

ListGlossaryTerms == Onboarding("any", <<Look({})>>, 200)
CreateGlossaryTerm ==
    Onboarding("maintainer", <<Bind, Refuse({"TermInvalid"}), Free("TermTaken"), Insert>>, 201)
UpdateGlossaryTerm ==
    Onboarding("maintainer", <<Bind, Term, Refuse({"TermInvalid"}), Free("TermTaken"), Named(Update)>>, 200)
DeleteGlossaryTerm == Onboarding("maintainer", <<Term, Delete>>, 204)

---------------------------------------------------------------------------
(* routes.go *)
Routes ==
    {LoginWithEmail, SelectOrganization, RegisterWithEmail, RefreshTokens, Logout, GetCurrentUser, OAuthLogin, OAuthCallback,
     CreateRepository, GetRepository, SyncRepository, ListRepositories, UpdateRepository, DeleteRepository,
     GetGraph, CreateRelationship, UpdateRelationship, DeleteRelationship,
     ListTeams, GetTeam, ListTeamMembers, CreateTeam, UpdateTeam, DeleteTeam, AddTeamMember, RemoveTeamMember, SetRepositoryOwner,
     ListMembers, UpdateMemberRole, RemoveMember, CreateInvite, ListInvites, RevokeInvite,
     CreateCoverageToken, ListCoverageTokens, GetCoverageSetup, RevokeCoverageToken,
     CreateRepositoryDoc, CreateOrgDoc, GenerateRepositoryDocs, ListRepositoryDocs, GetDocGeneration, GenerateOrgDocs,
     ListOrgDocs, UpdateDocContent, ListDocTemplates,
     ListIssues, ListContributors, CloseIssue, ListPullRequests, GetPullRequest, GetPullRequestFiles, submitReview,
     ListFlows, GetFlow, ListTemplates, CreateFlow, UpdateFlow, DeleteFlow, DuplicateFlow, ReplaceSteps, AssignFlow,
     ListAssignments, MyOnboarding, MarkStep, VerifyStep, SubmitFeedback,
     ListGlossaryTerms, CreateGlossaryTerm, UpdateGlossaryTerm, DeleteGlossaryTerm}

(* Its path names a row that a step of it depends on. *)
NamesARow(route) ==
    \E i \in 1..Len(route.steps) : route.steps[i].do \in {"find", "child", "update", "save", "delete"}

Idle == [phase |-> "idle"]

Init == row = "own" /\ req = Idle

(* What happened to the request is history: whether it wrote, ended early, *)
(* saw the store fail or an index refuse, and what changed beside it.      *)
Send(route, role, names) ==
    /\ req = Idle
    /\ NamesARow(route) \/ names = "own"
    /\ row' = names
    /\ req' = [phase |-> "arrived", route |-> route, role |-> role, at |-> 1, status |-> 0, error |-> "",
               wrote |-> FALSE, early |-> FALSE, failed |-> FALSE, clash |-> FALSE, vanished |-> FALSE, raced |-> FALSE]

Answered(status) == [req EXCEPT !.phase = "answered", !.status = status]

(* AuthMiddleware: a record that cannot be read is a token that is not valid. *)
AuthMiddleware ==
    /\ req.phase = "arrived"
    /\ \/ /\ req.route.floor = "public" \/ req.role # "none"
          /\ req' = [req EXCEPT !.phase = "authorized"]
       \/ req.route.floor # "public" /\ req.role = "none" /\ req' = Answered(401)
       \/ req.route.floor # "public" /\ req' = [Answered(401) EXCEPT !.failed = TRUE]
    /\ UNCHANGED row

Steps == req.route.steps
Now == Steps[req.at]

Continue(from) ==
    IF from.at >= Len(from.route.steps) THEN [from EXCEPT !.phase = "answered", !.status = from.route.ok]
    ELSE [from EXCEPT !.phase = "serving", !.at = @ + 1]

RequireRole ==
    /\ req.phase = "authorized"
    /\ \/ ~HasPermission(req.role, req.route.floor) /\ req' = Answered(403)
       \/ HasPermission(req.role, req.route.floor) /\ req' = Continue([req EXCEPT !.at = 0])
    /\ UNCHANGED row

Raise(e) ==
    LET told == req.route.told
    IN [Answered(IF e \in DOMAIN told THEN told[e] ELSE req.route.other) EXCEPT !.error = e]

Serving(kinds) == req.phase = "serving" /\ Now.do \in kinds

(* The body does not ask for it. *)
Skip == req.phase = "serving" /\ Now.may /\ req' = Continue(req) /\ UNCHANGED row

(* What was asked is refused. *)
Refused ==
    /\ req.phase = "serving"
    /\ \E e \in Now.errs : (Now.do = "own" => ~HasPermission(req.role, "maintainer")) /\ req' = Raise(e)
    /\ UNCHANGED row

(* The store does not answer. *)
Fail ==
    /\ Serving({"look", "free", "find", "own", "store", "child", "insert", "update", "save", "delete"})
    /\ Now.do = "own" => ~HasPermission(req.role, "maintainer")
    /\ req' = [Raise(Now.fails) EXCEPT !.failed = TRUE]
    /\ UNCHANGED row

Pass ==
    /\ \/ Serving({"refuse", "look", "own", "quiet", "exit"}) /\ req' = Continue(req)
       \/ Serving({"exit"}) /\ req' = [Answered(Now.status) EXCEPT !.early = TRUE]
       \/ Serving({"free"}) /\ ~req.raced /\ req' = Continue(req)
    /\ UNCHANGED row

FindRow ==
    /\ Serving({"find"}) /\ UNCHANGED row
    /\ \/ (row = "own" \/ (row = "foreign" /\ Now.foreign = "")) /\ req' = Continue(req)
       \/ row = "gone" /\ req' = Raise(Now.gone)
       \/ row = "foreign" /\ Now.foreign # "" /\ req' = Raise(Now.foreign)

RequireOrgAdmin ==
    /\ Serving({"admin"}) /\ UNCHANGED row
    /\ \/ req.role = "admin" /\ req' = Continue(req)
       \/ req.role # "admin" /\ req' = Answered(403)

Wrote == Continue([req EXCEPT !.wrote = TRUE])

(* A name is taken before the write, or was all along. *)
Clash ==
    /\ Serving({"insert", "update"}) /\ Now.index \in (IF req.raced THEN {"free", "any"} ELSE {"any"})
    /\ req' = [Raise(Now.fails) EXCEPT !.clash = TRUE] /\ UNCHANGED row

Write ==
    /\ ~(req.phase = "serving" /\ Now.index = "free" /\ req.raced)
    /\ \/ Serving({"store", "insert"}) /\ req' = Wrote /\ UNCHANGED row
       \/ Serving({"child"}) /\ req' = (IF row = "gone" THEN Raise("ForeignKey") ELSE Wrote) /\ UNCHANGED row
       \/ Serving({"update", "save", "delete"}) /\ row # "gone" /\ req' = Wrote
          /\ row' = IF Now.do = "delete" THEN "gone" ELSE row
       \/ Serving({"save"}) /\ row = "gone" /\ req' = Wrote /\ row' = "own"
       \/ Serving({"update", "delete"}) /\ row = "gone" /\ UNCHANGED row
          /\ req' = IF Now.gone = "" THEN Continue(req) ELSE Raise(Now.gone)

(* The host does what it is asked, and its answer may be lost. *)
ActAtHost ==
    /\ Serving({"act"}) /\ UNCHANGED row
    /\ \/ req' = Wrote
       \/ req' = [Raise("unreachable") EXCEPT !.wrote = TRUE]

(* Beside it, the row goes or the name is taken. *)
World ==
    /\ req.phase \in {"arrived", "authorized", "serving"}
    /\ \/ row # "gone" /\ row' = "gone" /\ req' = [req EXCEPT !.vanished = TRUE]
       \/ ~req.raced /\ req' = [req EXCEPT !.raced = TRUE] /\ UNCHANGED row

Close == req.phase = "answered" /\ req' = Idle /\ row' = "own"

Next ==
    \/ \E route \in Routes, role \in Callers, names \in {"own", "foreign", "gone"} : Send(route, role, names)
    \/ AuthMiddleware \/ RequireRole
    \/ Skip \/ Refused \/ Fail \/ Pass \/ FindRow \/ RequireOrgAdmin \/ Clash \/ Write \/ ActAtHost
    \/ World \/ Close

Spec == Init /\ [][Next]_vars

---------------------------------------------------------------------------
(* Properties *)
TypeOK ==
    /\ row \in {"own", "foreign", "gone"}
    /\ req # Idle =>
          /\ req.phase \in {"arrived", "authorized", "serving", "answered"}
          /\ req.route \in Routes /\ req.role \in Callers
          /\ req.phase = "serving" => req.at \in 1..Len(Steps)
          /\ req.phase = "answered" => req.status \in 200..599

Does(kinds) == \E i \in 1..Len(Steps) : Steps[i].do \in kinds
Succeeded == req.status \in 200..299
WasRefused == req.status \in 400..499

(* What a success says is done, unless there was nothing to do or the row  *)
(* went between the look and the write.                                    *)
SuccessIsDone ==
    Succeeded /\ Does({"store", "child", "insert", "update", "save", "delete", "act"}) => req.wrote \/ req.early \/ req.vanished

(* A refusal leaves nothing behind, but where a handler goes on after its  *)
(* first write: what registration, a token pair, a generation, the steps   *)
(* of a flow or an outcome stored stays when a later call fails.           *)
RefusalsLeaveNothing ==
    WasRefused /\ req.wrote =>
        req.route \in {LoginWithEmail, SelectOrganization, RegisterWithEmail, RefreshTokens, OAuthCallback,
                       GenerateRepositoryDocs, GenerateOrgDocs, ReplaceSteps, MarkStep}

(* 500 means that something broke or raced; every other refusal of a       *)
(* service has an answer of its own, but the unknown flow of an invite,    *)
(* the step that is not of the flow, and the repository of a token that is *)
(* not there.                                                              *)
ErrorsAreExplained ==
    req.status = 500 =>
        \/ req.failed \/ req.clash
        \/ req.vanished /\ req.error \in {"ErrRecordNotFound", "ForeignKey"}
        \/ req.route = CreateInvite /\ req.error = "FlowNotFound"
        \/ req.route = ReplaceSteps /\ req.error = "NotOfTheFlow"
        \/ req.route = CreateCoverageToken /\ req.error = "ForeignKey"

(* A store that does not answer is not told as the caller's mistake, but   *)
(* where every error of a call has one status.                             *)
FailuresAreTold ==
    req.failed /\ WasRefused =>
        \/ req.status = 401 /\ req.error = ""
        \/ req.route \in {LoginWithEmail, SelectOrganization, RegisterWithEmail, RefreshTokens, OAuthLogin, OAuthCallback,
                           CreateRepository, UpdateRepository, DeleteRepository, CloseIssue, submitReview,
                           DeleteTeam, RemoveTeamMember, RevokeInvite, GetDocGeneration, UpdateDocContent}

(* What is written was open to the role, and, but for the two routes that  *)
(* do not compare the organization, to the organization.                   *)
OnlyThePermitted ==
    req.wrote =>
        /\ HasPermission(req.role, req.route.floor)
        /\ Does({"admin"}) => req.role = "admin"
        /\ row = "foreign" => req.route \in {CreateCoverageToken, RevokeCoverageToken}

(* The answer of a request says what became of it, whatever goes or fails  *)
(* while it is served.                                                     *)
AnswersAreTrue ==
    req.phase = "answered" =>
        SuccessIsDone /\ RefusalsLeaveNothing /\ ErrorsAreExplained /\ FailuresAreTold /\ OnlyThePermitted
=============================================================================

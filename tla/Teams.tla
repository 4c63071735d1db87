------------------------------- MODULE Teams -------------------------------
(***************************************************************************)
(* The teams of one organization, their members, the team that owns a      *)
(* repository, and the third layer of authorization that ownership is      *)
(* (internal/services/team_service.go, repository_authz.go, and the role   *)
(* gate of internal/api/middleware).                                       *)
(*                                                                         *)
(* A request is one call of Postgres after another; any other request may  *)
(* run between two of them, and a request may end early.  Only local teams *)
(* are produced.                                                           *)
(***************************************************************************)
EXTENDS TeamTables

CONSTANTS Clients,      \* requests that are served at the same time
          Members,      \* users that have been members of the organization
          Lead,         \* the one of them that begins as a maintainer
          Slugs,        \* slugs of the teams
          MaxTeams, MaxRequests, MaxChanges

VARIABLES req,      \* where each request is, and what it has read
          requests, changes

vars == <<role, claim, team, seat, owner, req, written, overtaken, requests, changes>>

UserRoles == {"viewer", "developer", "maintainer", "admin"}

Idle == [at |-> "idle", op |-> None, by |-> None, team |-> 0, slug |-> None, user |-> None, owner |-> 0, moved |-> FALSE]
TeamIds == 0..MaxTeams

Init ==
    /\ role = [u \in Members |-> IF u = Lead THEN "maintainer" ELSE "developer"] /\ claim = role
    /\ team = <<[slug |-> CHOOSE s \in Slugs : TRUE, live |-> TRUE]>>
    /\ seat \in {{<<1, u>>} : u \in Members}
    /\ owner \in {0, 1}
    /\ req = [c \in Clients |-> Idle] /\ written = NoWrite
    /\ overtaken = {} /\ requests = 0 /\ changes = 0

---------------------------------------------------------------------------
(* The role gate of the routes. *)
Gate == [createTeam |-> "maintainer", updateTeam |-> "maintainer", deleteTeam |-> "maintainer",
         addMember |-> "maintainer", removeMember |-> "maintainer", setOwner |-> "maintainer",
         updateRepository |-> "developer", actOnHost |-> "developer"]

RequireRole(u, op) == HasPermission(claim[u], Gate[op])

Begin(c, op, u, t, slug, target) ==
    /\ req[c].at = "idle" /\ requests < MaxRequests
    /\ RequireRole(u, op)
    /\ requests' = requests + 1
    /\ req' = [req EXCEPT ![c] = [Idle EXCEPT !.at = "begun", !.op = op, !.by = u, !.team = t, !.slug = slug, !.user = target]]
    /\ UNCHANGED <<role, claim, team, seat, owner, written, overtaken, changes>>

At(c, op, at) == req[c].op = op /\ req[c].at = at

Goto(c, at) == req' = [req EXCEPT ![c].at = at]

(* Every request under way is told that what it has read has moved. *)
Moved(c) == [d \in Clients |-> IF d = c THEN Idle ELSE [req[d] EXCEPT !.moved = TRUE]]

End(c) == req' = [req EXCEPT ![c] = Idle]

Abandon(c) ==
    /\ req[c].at # "idle" /\ End(c)
    /\ UNCHANGED <<role, claim, team, seat, owner, written, overtaken, requests, changes>>

Reads == UNCHANGED <<role, claim, team, seat, owner, written, overtaken, requests, changes>>

SlugTaken(slug, but) == \E t \in DOMAIN team : t # but /\ LiveTeam(t) /\ team[t].slug = slug

---------------------------------------------------------------------------
(* Teams. *)

GetTeamBySlug(c) ==
    /\ At(c, "createTeam", "begun")
    /\ IF SlugTaken(req[c].slug, 0) THEN End(c) ELSE Goto(c, "insert")
    /\ Reads

(* The index on the slugs of the live teams refuses the second insert. *)
CreateTeam(c) ==
    /\ At(c, "createTeam", "insert") /\ Len(team) < MaxTeams
    /\ IF SlugTaken(req[c].slug, 0) THEN End(c) /\ UNCHANGED team
       ELSE /\ team' = Append(team, [slug |-> req[c].slug, live |-> TRUE])
            /\ req' = [req EXCEPT ![c].at = "lead", ![c].team = Len(team) + 1]
    /\ UNCHANGED <<role, claim, seat, owner, written, overtaken, requests, changes>>

(* A failure to seat the creator is only logged. *)
SeatCreator(c) ==
    /\ At(c, "createTeam", "lead")
    /\ seat' \in {seat, seat \union {<<req[c].team, req[c].by>>}}
    /\ req' = Moved(c)
    /\ UNCHANGED <<role, claim, team, owner, written, overtaken, requests, changes>>

(* Every handler of a team reads it first, and only a live one is found. *)
GetScoped(c) ==
    /\ req[c].op \in {"updateTeam", "deleteTeam", "removeMember", "addMember"} /\ req[c].at = "begun"
    /\ IF ~LiveTeam(req[c].team) THEN End(c)
       ELSE Goto(c, IF req[c].op = "addMember" THEN "member" ELSE "write")
    /\ Reads

(* The whole row is saved, deleted_at as it was read; the index on the     *)
(* slugs refuses a row whose slug another live team has taken meanwhile.   *)
UpdateTeam(c) ==
    LET t == req[c].team
    IN /\ At(c, "updateTeam", "write")
       /\ IF SlugTaken(team[t].slug, t) THEN End(c) /\ UNCHANGED <<team, overtaken>>
          ELSE /\ team' = [team EXCEPT ![t].live = TRUE]
               /\ overtaken' = IF LiveTeam(t) THEN overtaken ELSE overtaken \union {t}
               /\ req' = IF LiveTeam(t) THEN [req EXCEPT ![c] = Idle] ELSE Moved(c)
       /\ UNCHANGED <<role, claim, seat, owner, written, requests, changes>>

\* Mutant: the repositories of a deleted team are left to the foreign key.
DeleteTeamKeepsOwner(c) ==
    LET t == req[c].team
    IN /\ At(c, "deleteTeam", "write")
       /\ team' = [team EXCEPT ![t].live = FALSE]
       /\ req' = Moved(c)
       /\ UNCHANGED <<role, claim, seat, owner, written, overtaken, requests, changes>>

(* One transaction deletes the team and releases its repositories. *)
DeleteTeam(c) ==
    LET t == req[c].team
    IN /\ At(c, "deleteTeam", "write")
       /\ IF ~LiveTeam(t) THEN End(c) /\ UNCHANGED <<team, owner>>
          ELSE /\ team' = [team EXCEPT ![t].live = FALSE]
               /\ owner' = IF owner = t THEN 0 ELSE owner
               /\ req' = Moved(c)
       /\ UNCHANGED <<role, claim, seat, written, overtaken, requests, changes>>

GetOrganizationMember(c) ==
    /\ At(c, "addMember", "member")
    /\ IF role[req[c].user] = None THEN End(c) ELSE Goto(c, "write")
    /\ Reads

UpsertTeamMember(c) ==
    /\ At(c, "addMember", "write")
    /\ seat' = seat \union {<<req[c].team, req[c].user>>}
    /\ req' = Moved(c)
    /\ UNCHANGED <<role, claim, team, owner, written, overtaken, requests, changes>>

DeleteTeamMember(c) ==
    /\ At(c, "removeMember", "write")
    /\ seat' = seat \ {<<req[c].team, req[c].user>>}
    /\ req' = Moved(c)
    /\ UNCHANGED <<role, claim, team, owner, written, overtaken, requests, changes>>

---------------------------------------------------------------------------
(* Ownership. *)

SetRepositoryOwner(c) ==
    /\ At(c, "setOwner", "begun")
    /\ IF req[c].team # 0 /\ ~LiveTeam(req[c].team) THEN End(c) ELSE Goto(c, "write")
    /\ Reads

SetRepositoryOwnerTeam(c) ==
    /\ At(c, "setOwner", "write")
    /\ owner' = req[c].team
    /\ overtaken' = IF req[c].team # 0 /\ ~LiveTeam(req[c].team) THEN overtaken \union {req[c].team} ELSE overtaken
    /\ req' = Moved(c)
    /\ UNCHANGED <<role, claim, team, seat, written, requests, changes>>

(* An update of the repository, or an action on its host, reads the row,   *)
(* with its owner only when that team is live... *)
GetRepository(c) ==
    /\ req[c].op \in {"updateRepository", "actOnHost"} /\ req[c].at = "begun"
    /\ req' = [req EXCEPT ![c].at = "authorize", ![c].owner = IF LiveTeam(owner) THEN owner ELSE 0]
    /\ Reads

\* Mutant: ownership is only asked of who is not a developer.
CanWriteRepositoryByRole(c) ==
    /\ At(c, req[c].op, "authorize")
    /\ IF HasPermission(claim[req[c].by], "developer") THEN Goto(c, "act") ELSE End(c)
    /\ Reads

(* ...decides by the role of the token and, for a developer, by the teams  *)
(* the user is on now...                                                   *)
CanWriteRepository(c) ==
    LET u == req[c].by
    IN /\ At(c, req[c].op, "authorize")
       /\ IF \/ HasPermission(claim[u], "maintainer")
             \/ HasPermission(claim[u], "developer") /\ req[c].owner \in TeamsOf(u)
          THEN Goto(c, "act") ELSE End(c)
       /\ Reads

(* ...and acts.  UpdateRepository saves the whole row it has read. *)
Act(c) ==
    LET u == req[c].by
        saved == IF req[c].op = "updateRepository" THEN req[c].owner ELSE owner
    IN /\ At(c, req[c].op, "act")
       /\ owner' = saved
       /\ overtaken' = IF saved \notin {0, owner} /\ ~LiveTeam(saved) THEN overtaken \union {saved} ELSE overtaken
       /\ written' = [by |-> u, claim |-> claim[u], entitled |-> owner # 0 /\ owner \in TeamsOf(u), moved |-> req[c].moved]
       /\ req' = IF saved # owner THEN Moved(c) ELSE [req EXCEPT ![c] = Idle]
       /\ UNCHANGED <<role, claim, team, seat, requests, changes>>

---------------------------------------------------------------------------
(* An administrator changes a role or removes a member, whose seats stay.  *)
ChangeMember(u, r) ==
    /\ changes < MaxChanges /\ r # role[u]
    /\ changes' = changes + 1
    /\ role' = [role EXCEPT ![u] = r]
    /\ UNCHANGED <<claim, team, seat, owner, req, written, overtaken, requests>>

(* A new access token names the role of the moment; none is issued to who  *)
(* is no member.                                                           *)
RefreshTokens(u) ==
    /\ role[u] # claim[u]
    /\ claim' = [claim EXCEPT ![u] = role[u]]
    /\ req' = [c \in Clients |-> IF req[c].by = u THEN Idle ELSE req[c]]
    /\ UNCHANGED <<role, team, seat, owner, written, overtaken, requests, changes>>

Next ==
    \/ \E c \in Clients, u \in Members :
          \/ \E s \in Slugs : Begin(c, "createTeam", u, 0, s, None)
          \/ \E t \in 1..MaxTeams : Begin(c, "updateTeam", u, t, None, None) \/ Begin(c, "deleteTeam", u, t, None, None)
          \/ \E t \in 1..MaxTeams, v \in Members : Begin(c, "addMember", u, t, None, v) \/ Begin(c, "removeMember", u, t, None, v)
          \/ \E t \in TeamIds : Begin(c, "setOwner", u, t, None, None)
          \/ Begin(c, "updateRepository", u, 0, None, None) \/ Begin(c, "actOnHost", u, 0, None, None)
    \/ \E c \in Clients :
          \/ Abandon(c) \/ GetTeamBySlug(c) \/ CreateTeam(c) \/ SeatCreator(c) \/ GetScoped(c)
          \/ UpdateTeam(c) \/ DeleteTeam(c) \/ GetOrganizationMember(c) \/ UpsertTeamMember(c) \/ DeleteTeamMember(c)
          \/ SetRepositoryOwner(c) \/ SetRepositoryOwnerTeam(c) \/ GetRepository(c) \/ CanWriteRepository(c) \/ Act(c)
    \/ \E u \in Members : RefreshTokens(u) \/ \E r \in {None, "viewer", "developer"} : ChangeMember(u, r)

Spec == Init /\ [][Next]_vars

---------------------------------------------------------------------------
(* Types of the tables and of the requests. *)
TypeOK ==
    /\ role \in [Members -> UserRoles \union {None}] /\ claim \in [Members -> UserRoles \union {None}]
    /\ Len(team) <= MaxTeams /\ \A t \in DOMAIN team : team[t].slug \in Slugs /\ team[t].live \in BOOLEAN
    /\ seat \subseteq (DOMAIN team) \X Members
    /\ owner \in {0} \union DOMAIN team
    /\ \A c \in Clients : req[c].team \in TeamIds /\ req[c].owner \in {0} \union DOMAIN team
=============================================================================

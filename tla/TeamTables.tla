---------------------------- MODULE TeamTables -----------------------------
(***************************************************************************)
(* The teams of one organization and the repository they may own, and what *)
(* holds of them whatever the requests of Teams do.                        *)
(***************************************************************************)
EXTENDS Integers, Sequences

VARIABLES role,     \* the role of each member, None when it was removed
          claim,    \* the role its access token names
          team,     \* rows of teams
          seat,     \* rows of team_members
          owner,    \* owner_team_id of the repository, 0 when nobody owns it
          written,  \* history: the last action on the repository
          overtaken \* history: teams a late write made owner, or brought back

None == "none"
Rank == [none |-> 0, viewer |-> 1, developer |-> 2, maintainer |-> 3, admin |-> 4]
HasPermission(r, required) == Rank[r] >= Rank[required]

NoWrite == [by |-> None, claim |-> None, entitled |-> TRUE, moved |-> FALSE]

LiveTeam(t) == t \in DOMAIN team /\ team[t].live

(* ListTeamIDsForUser. *)
TeamsOf(u) == {t \in DOMAIN team : team[t].live /\ <<t, u>> \in seat}

---------------------------------------------------------------------------
(* Properties *)

(* A repository is owned by a team that can be opened, and one slug names  *)
(* one live team; a write that was checked before the team was deleted can *)
(* break the first, and only that.                                         *)
OwnerIsLiveUnlessRaced ==
    /\ owner # 0 /\ owner \notin overtaken => LiveTeam(owner)
    /\ \A t, s \in DOMAIN team : LiveTeam(t) /\ LiveTeam(s) /\ team[t].slug = team[s].slug => t = s

(* Who acts on a repository is a maintainer by its token, or a developer   *)
(* on the team that owns the repository at that very moment; what is       *)
(* checked before can be overtaken only by a change of the teams, of their *)
(* members or of the owner.                                                *)
WritesAreEntitledUnlessMoved ==
    \/ HasPermission(written.claim, "maintainer")
    \/ written = NoWrite
    \/ HasPermission(written.claim, "developer") /\ (written.entitled \/ written.moved)

(* Both together: what ownership promises of a repository and of a write.  *)
OwnershipHoldsUnlessRaced == OwnerIsLiveUnlessRaced /\ WritesAreEntitledUnlessMoved
=============================================================================

----------------------------- MODULE Membership -----------------------------
(***************************************************************************)
(* Who belongs to an organization and how they got there: registration,    *)
(* the OAuth callback, invites, roles and removal (auth_service.go,        *)
(* membership_service.go).  Every step is one call to Postgres; any other  *)
(* request may run between two of them.                                    *)
(***************************************************************************)
EXTENDS MembershipTables

CONSTANTS Clients,     \* requests that are served at the same time
          MaxInvites   \* bound on the rows of organization_invites

VARIABLE req  \* where each request is, and what it has read

vars == <<user, org, members, invite, claims, req, admission, spent, raced>>

Idle == [at |-> "idle", oauth |-> FALSE, user |-> "", org |-> "", inv |-> 0,
         role |-> Outsider, target |-> Outsider, clean |-> TRUE]

Init ==
    /\ user = {} /\ org = {}
    /\ members = [o \in Orgs |-> [u \in Users |-> Outsider]]
    /\ invite = <<>>
    /\ claims = [o \in Orgs |-> {}]
    /\ req = [c \in Clients |-> Idle]
    /\ admission = [o \in Orgs |-> [u \in Users |-> "none"]]
    /\ spent = <<>>
    /\ raced = [o \in Orgs |-> {}]

(* A request goes on, or ends; what it answers is not kept, so one that is   *)
(* refused by its first read does nothing at all.                           *)
Goto(c, step) == req' = [req EXCEPT ![c].at = step]
End(c) == req' = [req EXCEPT ![c] = Idle]

-----------------------------------------------------------------------------
(* Which organization a registration lands in *)

(* IsRedeemable and MatchesEmail. *)
IsRedeemable(i) ==
    /\ invite[i].acceptedBy = "" /\ ~invite[i].revoked /\ ~invite[i].expired
MatchesEmail(i, u) == invite[i].email = u

(* ResolveInvite: the invite may be redeemed by this address. *)
ResolveInvite(i, u) == IsRedeemable(i) /\ MatchesEmail(i, u)

(* resolveOrganizationForRegistration with an invite: organization and role *)
(* come from the invite, whatever the body names.                           *)
RegisterWithInvite(c, u, i) ==
    /\ req[c].at = "idle"
    /\ ResolveInvite(i, u)
    /\ req' = [req EXCEPT ![c] = [Idle EXCEPT !.at = "finduser", !.user = u, !.inv = i,
                                              !.org = invite[i].org, !.role = invite[i].role]]
    /\ UNCHANGED tables

(* Without one, the slug must be free. *)
RegisterWithEmail(c, u, o) ==
    /\ req[c].at = "idle"
    /\ o \notin org
    /\ req' = [req EXCEPT ![c] = [Idle EXCEPT !.at = "findorg", !.user = u, !.org = o]]
    /\ UNCHANGED tables

(* getOrCreateOrganization looks again, and takes what another request made. *)
GetOrCreateOrganization(c) ==
    /\ req[c].at = "findorg"
    /\ Goto(c, IF req[c].org \in org THEN "finduser" ELSE "createorg")
    /\ UNCHANGED tables

(* The slug is unique: the second insert fails. *)
CreateOrganization(c) ==
    /\ req[c].at = "createorg"
    /\ IF req[c].org \in org
       THEN End(c) /\ UNCHANGED org
       ELSE org' = org \union {req[c].org} /\ Goto(c, "finduser")
    /\ UNCHANGED <<user, members, invite, claims, admission, spent, raced>>

(* The signed state names an existing organization, or one to create. *)
LoginWithOAuth(c, u, o, i) ==
    /\ req[c].at = "idle"
    /\ req' = [req EXCEPT ![c] = [Idle EXCEPT !.oauth = TRUE, !.user = u, !.org = o, !.inv = i,
                                              !.at = IF o \in org THEN "finduser" ELSE "findorg"]]
    /\ UNCHANGED tables

-----------------------------------------------------------------------------
(* The account *)

FindUser(c) ==
    /\ req[c].at = "finduser"
    /\ Goto(c, IF req[c].user \notin user THEN "createuser"
               ELSE IF req[c].oauth THEN "admitoauth" ELSE "admit")
    /\ UNCHANGED tables

(* The address is unique. *)
CreateUser(c) ==
    /\ req[c].at = "createuser"
    /\ IF req[c].user \in user
       THEN End(c) /\ UNCHANGED user
       ELSE /\ user' = user \union {req[c].user}
            /\ Goto(c, IF req[c].oauth THEN "admitoauth" ELSE "admit")
    /\ UNCHANGED <<org, members, invite, claims, admission, spent, raced>>

-----------------------------------------------------------------------------
(* Admission *)

(* admitOAuth: a member passes; an invite must be for this organization.    *)
AdmitOAuth(c) ==
    /\ req[c].at = "admitoauth"
    /\ LET o == req[c].org  u == req[c].user  i == req[c].inv IN
       IF IsMember(o, u) THEN End(c)
       ELSE IF i = 0 THEN Goto(c, "admit")
       ELSE Goto(c, "resolve")
    /\ UNCHANGED tables

ResolveOAuthInvite(c) ==
    /\ req[c].at = "resolve"
    /\ LET i == req[c].inv IN
       IF ResolveInvite(i, req[c].user) /\ invite[i].org = req[c].org
       THEN req' = [req EXCEPT ![c].at = "admit", ![c].role = invite[i].role]
       ELSE End(c)
    /\ UNCHANGED tables

(* admit and ensureOrganizationMember begin alike: a member stays as it is. *)
Admit(c) ==
    /\ req[c].at = "admit"
    /\ LET o == req[c].org  u == req[c].user  i == req[c].inv IN
       IF ~IsMember(o, u) THEN Goto(c, IF i = 0 THEN "count" ELSE "accept")
       ELSE IF i = 0 THEN End(c)
       ELSE Goto(c, "redundant")
    /\ UNCHANGED tables

(* RevokeOrganizationInvite leaves an invite alone that was accepted or revoked. *)
RevokeOrganizationInvite(i) ==
    invite' = [invite EXCEPT ![i].revoked = @ \/ invite[i].acceptedBy = ""]

(* A member already: the invite should not be left dangling. *)
RevokeRedundant(c) ==
    /\ req[c].at = "redundant"
    /\ RevokeOrganizationInvite(req[c].inv)
    /\ End(c)
    /\ UNCHANGED <<user, org, members, claims, admission, spent, raced>>

(* A member row is inserted; its key is (organization, user). *)
InsertMember(o, u, role, how) ==
    /\ members' = [members EXCEPT ![o][u] = role]
    /\ admission' = [admission EXCEPT ![o][u] = how]
    /\ claims' = IF role = "admin" THEN [claims EXCEPT ![o] = @ \union {u}] ELSE claims

\* Mutant: the update of the invite is not guarded.
AcceptOrganizationInviteUnguarded(c) ==
    /\ req[c].at = "accept"
    /\ LET o == req[c].org  u == req[c].user  i == req[c].inv IN
       IF ~IsMember(o, u)
       THEN /\ invite' = [invite EXCEPT ![i].acceptedBy = u]
            /\ InsertMember(o, u, req[c].role, "invite")
            /\ spent' = [spent EXCEPT ![i] = @ + 1]
            /\ End(c)
       ELSE /\ End(c)
            /\ UNCHANGED <<invite, members, admission, claims, spent>>
    /\ UNCHANGED <<user, org, raced>>

\* Mutant: the member row does not wait for the update of the invite.
AcceptOrganizationInviteApart(c) ==
    /\ req[c].at = "accept"
    /\ LET o == req[c].org  u == req[c].user  i == req[c].inv IN
       /\ InsertMember(o, u, req[c].role, "invite")
       /\ invite' = IF IsRedeemable(i) THEN [invite EXCEPT ![i].acceptedBy = u] ELSE invite
       /\ spent' = [spent EXCEPT ![i] = @ + 1]
       /\ End(c)
    /\ UNCHANGED <<user, org, raced>>

(* AcceptOrganizationInvite: the guarded update and the insert are one      *)
(* transaction, so a second redemption or a second row undoes both.         *)
AcceptOrganizationInvite(c) ==
    /\ req[c].at = "accept"
    /\ LET o == req[c].org  u == req[c].user  i == req[c].inv IN
       IF IsRedeemable(i) /\ ~IsMember(o, u)
       THEN /\ invite' = [invite EXCEPT ![i].acceptedBy = u]
            /\ InsertMember(o, u, req[c].role, "invite")
            /\ spent' = [spent EXCEPT ![i] = @ + 1]
            /\ End(c)
       ELSE /\ End(c)
            /\ UNCHANGED <<invite, members, admission, claims, spent>>
    /\ UNCHANGED <<user, org, raced>>

\* Mutant: the members are not counted.
CountOrganizationMembersNot(c) ==
    /\ req[c].at = "count"
    /\ Goto(c, "found")
    /\ UNCHANGED tables

(* ensureOrganizationMember: only an organization without members takes     *)
(* someone without an invite.                                               *)
CountOrganizationMembers(c) ==
    /\ req[c].at = "count"
    /\ LET o == req[c].org IN
       IF MembersOf(o) # {}
       THEN End(c) /\ UNCHANGED raced
       ELSE /\ Goto(c, "found")
            /\ raced' = IF \E d \in Clients : req[d].at = "found" /\ req[d].org = o
                        THEN [raced EXCEPT ![o] = @ \union {"founders"}] ELSE raced
    /\ UNCHANGED <<user, org, members, invite, claims, admission, spent>>

CreateFounder(c) ==
    /\ req[c].at = "found"
    /\ LET o == req[c].org  u == req[c].user IN
       IF IsMember(o, u)
       THEN End(c) /\ UNCHANGED <<members, admission, claims>>
       ELSE InsertMember(o, u, "admin", "founder") /\ End(c)
    /\ UNCHANGED <<user, org, invite, spent, raced>>

-----------------------------------------------------------------------------
(* Invites *)

(* The address does not belong to a member. *)
CreateInvite(c, o, email, role) ==
    /\ req[c].at = "idle"
    /\ email \notin MembersOf(o)
    /\ req' = [req EXCEPT ![c] = [Idle EXCEPT !.at = "invite", !.user = email,
                                              !.org = o, !.role = role]]
    /\ UNCHANGED tables

(* One invite per address that is neither accepted nor revoked, expired or  *)
(* not (the index of migration 025).                                        *)
CreateOrganizationInvite(c) ==
    /\ req[c].at = "invite"
    /\ LET o == req[c].org  u == req[c].user IN
       IF \E i \in Invite : /\ invite[i].org = o /\ invite[i].email = u
                            /\ invite[i].acceptedBy = "" /\ ~invite[i].revoked
       THEN End(c) /\ UNCHANGED <<invite, spent>>
       ELSE /\ Len(invite) < MaxInvites
            /\ invite' = Append(invite, [org |-> o, email |-> u, role |-> req[c].role,
                                         acceptedBy |-> "", revoked |-> FALSE, expired |-> FALSE])
            /\ spent' = Append(spent, 0)
            /\ End(c)
    /\ UNCHANGED <<user, org, members, claims, admission, raced>>

(* The invite belongs to the caller's organization, which never changes, so *)
(* what counts is the guarded update.                                       *)
RevokeInvite(c, o, i) ==
    /\ req[c].at = "idle"
    /\ invite[i].org = o
    /\ invite[i].acceptedBy = "" /\ ~invite[i].revoked
    /\ RevokeOrganizationInvite(i)
    /\ UNCHANGED <<user, org, members, claims, req, admission, spent, raced>>

InviteExpires(i) ==
    /\ ~invite[i].expired
    /\ invite' = [invite EXCEPT ![i].expired = TRUE]
    /\ UNCHANGED <<user, org, members, claims, req, admission, spent, raced>>

-----------------------------------------------------------------------------
(* Members *)

(* UpdateMemberRole and RemoveMember (role NoRole) by an administrator a,   *)
(* who may not be the target: the member is read, and an admin must not be  *)
(* the last one.                                                            *)
ChangeMember(c, o, a, target, role) ==
    /\ req[c].at = "idle"
    /\ a # target
    /\ IsMember(o, target) /\ members[o][target] # role
    /\ req' = [req EXCEPT ![c] = [Idle EXCEPT
                  !.user = target, !.org = o, !.target = role,
                  !.at = IF members[o][target] = "admin" THEN "lastadmin" ELSE "write"]]
    /\ UNCHANGED tables

\* Mutant: one administrator is enough.
EnsureNotLastAdminButOne(c) ==
    /\ req[c].at = "lastadmin"
    /\ Goto(c, IF Admins(req[c].org) # {} THEN "write" ELSE "idle")
    /\ UNCHANGED tables

EnsureNotLastAdmin(c) ==
    /\ req[c].at = "lastadmin"
    /\ IF \E a, b \in Admins(req[c].org) : a # b
       THEN Goto(c, "write")
       ELSE End(c)
    /\ UNCHANGED tables

(* Every request on the organization that is between reading and writing.   *)
NoteRace(c, o) ==
    req' = [d \in Clients |-> IF d = c THEN Idle
                              ELSE IF req[d].at \in {"lastadmin", "write"} /\ req[d].org = o
                              THEN [req[d] EXCEPT !.clean = FALSE]
                              ELSE req[d]]

\* Mutant: the write inserts the row when it is gone.
WriteMemberUpsert(c) ==
    /\ req[c].at = "write"
    /\ LET o == req[c].org  u == req[c].user  role == req[c].target IN
       /\ members' = [members EXCEPT ![o][u] = role]
       /\ admission' = [admission EXCEPT ![o][u] = IF role = Outsider THEN "none" ELSE @]
       /\ claims' = IF role = "admin" THEN [claims EXCEPT ![o] = @ \union {u}] ELSE claims
       /\ NoteRace(c, o)
       /\ raced' = IF req[c].clean THEN raced ELSE [raced EXCEPT ![o] = @ \union {"admins"}]
    /\ UNCHANGED <<user, org, invite, spent>>

(* UpdateOrganizationMemberRole or DeleteOrganizationMember: the write does *)
(* not look at what was read.                                               *)
WriteMember(c) ==
    /\ req[c].at = "write"
    /\ LET o == req[c].org  u == req[c].user  role == req[c].target IN
       IF ~IsMember(o, u)
       THEN /\ End(c)
            /\ UNCHANGED <<members, admission, claims, raced>>
       ELSE /\ members' = [members EXCEPT ![o][u] = role]
            /\ admission' = [admission EXCEPT ![o][u] = IF role = Outsider THEN "none" ELSE @]
            /\ claims' = IF role = "admin" THEN [claims EXCEPT ![o] = @ \union {u}] ELSE claims
            /\ NoteRace(c, o)
            /\ raced' = IF req[c].clean THEN raced
                        ELSE [raced EXCEPT ![o] = @ \union {"admins"}]
    /\ UNCHANGED <<user, org, invite, spent>>

(* The access tokens of a former administrator run out. *)
ClaimExpires(o, u) ==
    /\ u \in claims[o] \ Admins(o)
    /\ claims' = [claims EXCEPT ![o] = @ \ {u}]
    /\ UNCHANGED <<user, org, members, invite, req, admission, spent, raced>>

-----------------------------------------------------------------------------
(* A failed call or a lost process. *)
Abort(c) ==
    /\ req[c].at # "idle"
    /\ End(c)
    /\ UNCHANGED tables

Join(c) ==
    \/ \E u \in Users : \E o \in Orgs :
          \/ RegisterWithEmail(c, u, o)
          \/ \E i \in Invite \union {0} : LoginWithOAuth(c, u, o, i)
    \/ \E u \in Users : \E i \in Invite : RegisterWithInvite(c, u, i)
    \/ GetOrCreateOrganization(c) \/ CreateOrganization(c)
    \/ FindUser(c) \/ CreateUser(c)
    \/ AdmitOAuth(c) \/ ResolveOAuthInvite(c) \/ Admit(c) \/ RevokeRedundant(c)
    \/ AcceptOrganizationInvite(c)
    \/ CountOrganizationMembers(c) \/ CreateFounder(c)

(* The middleware lets in whoever has a token that says admin. *)
Administer(c) ==
    \/ \E o \in Orgs : \E a \in claims[o] :
          \/ \E u \in Users : \E r \in UserRoles : CreateInvite(c, o, u, r)
          \/ \E i \in Invite : RevokeInvite(c, o, i)
          \/ \E u \in Users : \E r \in UserRoles \union {Outsider} : ChangeMember(c, o, a, u, r)
    \/ CreateOrganizationInvite(c)
    \/ EnsureNotLastAdmin(c) \/ WriteMember(c)

Next ==
    \/ \E c \in Clients : Join(c) \/ Administer(c) \/ Abort(c)
    \/ \E i \in Invite : InviteExpires(i)
    \/ \E o \in Orgs : \E u \in Users : ClaimExpires(o, u)

Spec == Init /\ [][Next]_vars

-----------------------------------------------------------------------------
(* Properties *)

(* Types; a member has an account in an organization that exists and was    *)
(* admitted, every administrator may hold a claim, and one invite per        *)
(* address and organization is open.                                        *)
TypeOK ==
    /\ user \subseteq Users /\ org \subseteq Orgs
    /\ \A o \in Orgs :
          /\ MembersOf(o) \subseteq user /\ (MembersOf(o) # {} => o \in org)
          /\ Admins(o) \subseteq claims[o] /\ claims[o] \subseteq Users
          /\ \A u \in Users : /\ members[o][u] \in UserRoles \union {Outsider}
                              /\ admission[o][u] = "none" <=> ~IsMember(o, u)
    /\ \A i, j \in Invite : /\ invite[i].org = invite[j].org
                            /\ invite[i].email = invite[j].email
                            /\ \A k \in {i, j} : invite[k].acceptedBy = "" /\ ~invite[k].revoked
                            => i = j
    /\ DOMAIN spent = Invite
    /\ raced \in [Orgs -> SUBSET Races]
=============================================================================

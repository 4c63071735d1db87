-------------------------- MODULE Membership_proofs --------------------------
(***************************************************************************)
(* What holds of Membership for every number of requests, accounts,        *)
(* organizations and invites; and, at the end, of the settings of one      *)
(* organization (Settings).                                                *)
(*                                                                         *)
(* The argument: what a request carries of its invite is what the invite   *)
(* says (Sent), so the transaction that spends it admits the person it was *)
(* sent to.  A request that found its organization empty is the only one   *)
(* that founds it (Founders), and while nobody writes a role in between,   *)
(* a request about to write one leaves an administrator (Administrators).  *)
(***************************************************************************)
EXTENDS Membership, SequenceTheorems, TLAPS

\* The addresses and the roles are told from what stands for none.
DistinctNames == "" \notin Users /\ "" \notin Orgs /\ Outsider \notin UserRoles

Roles == UserRoles \union {Outsider}
Hows == {"none", "founder", "invite"}

\* An administrator's role; the address of somebody.
IsAdmin(role) == role = "admin"
Somebody(u) == u # ""

InviteRow == [org : Orgs, email : Users, role : UserRoles, acceptedBy : Users \union {""},
              revoked : BOOLEAN, expired : BOOLEAN]

\* The steps of a request once its organization, and its account, are there.
Known == {"admitoauth", "resolve", "admit", "redundant", "accept", "count", "found"}
Placed == Known \union {"finduser", "createuser", "invite", "lastadmin", "write"}
Steps == Placed \union {"idle", "findorg", "createorg"}

Request == [at : Steps, oauth : BOOLEAN, user : Users \union {""}, org : Orgs \union {""},
            inv : Nat, role : Roles, target : Roles, clean : BOOLEAN]

Shapes ==
    /\ user \subseteq Users
    /\ org \subseteq Orgs
    /\ members \in [Orgs -> [Users -> Roles]]
    /\ admission \in [Orgs -> [Users -> Hows]]
    /\ invite \in Seq(InviteRow)
    /\ spent \in Seq(Nat)
    /\ Len(spent) = Len(invite)
    /\ claims \in [Orgs -> SUBSET Users]
    /\ raced \in [Orgs -> SUBSET Races]
    /\ req \in [Clients -> Request]

\* The invite is one to this organization, for this person and with this role.
Sent(r) == /\ invite[r.inv].org = r.org
           /\ invite[r.inv].email = r.user
           /\ invite[r.inv].role = r.role

\* What the steps of a request rely on.
RequestOK(r) ==
    /\ r.at # "idle" => r.user \in Users /\ r.org \in Orgs /\ r.inv \in Invite \union {0}
    /\ r.at \in Placed => r.org \in org
    /\ r.at \in Known => r.user \in user
    /\ r.at \in {"resolve", "redundant", "accept"} => r.inv # 0
    /\ r.at \in Known \union {"finduser", "createuser"} /\ r.inv # 0
           /\ (~r.oauth \/ r.at \in {"admit", "redundant", "accept"}) => Sent(r)
    /\ r.at \in {"findorg", "createorg"} /\ r.inv # 0 => r.oauth
    /\ r.at = "invite" => r.role \in UserRoles

RequestsOK == \A c \in Clients : RequestOK(req[c])

\* A member has an account, a history and, as an administrator, a claim.
RowsOK ==
    /\ \A o \in Orgs :
          /\ MembersOf(o) \subseteq user
          /\ MembersOf(o) # {} => o \in org
          /\ claims[o] # {} => o \in org
          /\ Admins(o) \subseteq claims[o]
          /\ \A u \in Users : admission[o][u] = "none" <=> ~IsMember(o, u)
    /\ \A i \in Invite : invite[i].org \in org

\* One invite per address and organization is open.
Open(i) == invite[i].acceptedBy = "" /\ ~invite[i].revoked
OneOpen ==
    \A i, j \in Invite : /\ invite[i].org = invite[j].org
                         /\ invite[i].email = invite[j].email
                         /\ Open(i) /\ Open(j)
                         => i = j

\* While no two requests found an organization empty at once, one founds it.
Founding(c, o) == req[c].at = "found" /\ req[c].org = o
Founded(o, u) == IsMember(o, u) /\ admission[o][u] = "founder"
Founders ==
    \A o \in Orgs : "founders" \notin raced[o] =>
        /\ \A c, d \in Clients : Founding(c, o) /\ Founding(d, o) => c = d
        /\ \A c \in Clients : Founding(c, o) => \A u \in Users : ~Founded(o, u)
        /\ \A u, v \in Users : Founded(o, u) /\ Founded(o, v) => u = v

\* Whoever may invite got in first, so an invited organization has members; and
\* a request about to write a role leaves another administrator.
Begun(o) ==
    \/ claims[o] # {}
    \/ \E i \in Invite : invite[i].org = o
    \/ \E c \in Clients : req[c].org = o /\ req[c].at \in {"invite", "lastadmin", "write"}
Administrators ==
    \A o \in Orgs : "admins" \notin raced[o] =>
        /\ Begun(o) => MembersOf(o) # {}
        /\ MembersOf(o) # {} => Admins(o) # {}
        /\ \A c \in Clients : req[c].at = "write" /\ req[c].org = o /\ req[c].clean
                              => \E a \in Admins(o) : a # req[c].user

IInv ==
    /\ DistinctNames
    /\ Shapes /\ RequestsOK /\ RowsOK /\ OneOpen
    /\ InviteAdmitsOnce /\ MembersWereInvited
    /\ Founders /\ Administrators

-----------------------------------------------------------------------------
(* What the writes of the tables do *)

\* A row of the members is inserted; the others stay.
LEMMA MemberInserted ==
    ASSUME Shapes, NEW o \in Orgs, NEW u \in Users, NEW role \in UserRoles, NEW how \in Hows,
           InsertMember(o, u, role, how)
    PROVE  /\ members' \in [Orgs -> [Users -> Roles]]
           /\ admission' \in [Orgs -> [Users -> Hows]]
           /\ claims' \in [Orgs -> SUBSET Users]
           /\ \A p \in Orgs : \A v \in Users :
                 /\ members'[p][v] = IF p = o /\ v = u THEN role ELSE members[p][v]
                 /\ admission'[p][v] = IF p = o /\ v = u THEN how ELSE admission[p][v]
           /\ \A p \in Orgs :
                 claims'[p] = IF p = o /\ IsAdmin(role) THEN claims[p] \union {u} ELSE claims[p]
  BY DEF Shapes, InsertMember, Roles, IsAdmin

\* A role is written, or a member is removed.
LEMMA MemberWritten ==
    ASSUME Shapes, NEW c \in Clients, WriteMember(c), req[c].org \in Orgs, req[c].user \in Users,
           IsMember(req[c].org, req[c].user), Outsider \notin UserRoles
    PROVE  /\ members' \in [Orgs -> [Users -> Roles]]
           /\ admission' \in [Orgs -> [Users -> Hows]]
           /\ claims' \in [Orgs -> SUBSET Users]
           /\ req[c].target \in Roles
           /\ \A p \in Orgs : \A v \in Users :
                 /\ members'[p][v] = IF p = req[c].org /\ v = req[c].user
                                    THEN req[c].target ELSE members[p][v]
                 /\ admission'[p][v] = IF p = req[c].org /\ v = req[c].user
                                          /\ req[c].target = Outsider
                                       THEN "none" ELSE admission[p][v]
           /\ \A p \in Orgs :
                 claims'[p] = IF p = req[c].org /\ req[c].target = "admin"
                              THEN claims[p] \union {req[c].user} ELSE claims[p]
  <1>1. req[c].target \in Roles
    BY DEF Shapes, Request
  <1>. DEFINE o == req[c].org  u == req[c].user  role == req[c].target
  <1>2. /\ members' = [members EXCEPT ![o][u] = role]
        /\ admission' = [admission EXCEPT ![o][u] = IF role = Outsider THEN "none" ELSE @]
        /\ claims' = IF role = "admin" THEN [claims EXCEPT ![o] = @ \union {u}] ELSE claims
    BY DEF WriteMember
  <1>3. PICK p \in Orgs, v \in Users, r \in Roles : p = o /\ v = u /\ r = role
    BY <1>1
  <1>. HIDE DEF o, u, role
  <1>4. /\ members' \in [Orgs -> [Users -> Roles]]
        /\ \A q \in Orgs : \A w \in Users :
              members'[q][w] = IF q = o /\ w = u THEN role ELSE members[q][w]
    BY <1>2, <1>3 DEF Shapes
  <1>5. /\ admission' \in [Orgs -> [Users -> Hows]]
        /\ \A q \in Orgs : \A w \in Users :
              admission'[q][w] = IF q = o /\ w = u /\ role = Outsider THEN "none" ELSE admission[q][w]
    BY <1>2, <1>3 DEF Shapes, Hows
  <1>6. /\ claims' \in [Orgs -> SUBSET Users]
        /\ \A q \in Orgs :
              claims'[q] = IF q = o /\ role = "admin" THEN claims[q] \union {u} ELSE claims[q]
    BY <1>2, <1>3 DEF Shapes
  <1>. QED  BY <1>1, <1>4, <1>5, <1>6 DEF o, u, role

\* A change of one invite keeps the others, and what it was sent for.
LEMMA InviteChanged ==
    ASSUME Shapes, NEW i \in Invite, NEW row \in InviteRow,
           invite' = [invite EXCEPT ![i] = row]
    PROVE  /\ invite' \in Seq(InviteRow)
           /\ Len(invite') = Len(invite)
           /\ \A j \in Invite : invite'[j] = IF j = i THEN row ELSE invite[j]
  BY DEF Shapes, Invite

LEMMA InviteRevoked ==
    ASSUME Shapes, NEW i \in Invite, RevokeOrganizationInvite(i)
    PROVE  /\ invite' \in Seq(InviteRow)
           /\ Len(invite') = Len(invite)
           /\ \A j \in Invite :
                 /\ invite'[j].org = invite[j].org
                 /\ invite'[j].email = invite[j].email
                 /\ invite'[j].role = invite[j].role
                 /\ invite'[j].acceptedBy = invite[j].acceptedBy
                 /\ invite[j].revoked => invite'[j].revoked
  <1>. DEFINE new == [invite[i] EXCEPT !.revoked = @ \/ invite[i].acceptedBy = ""]
  <1>1. invite[i] \in InviteRow
    BY DEF Shapes, Invite
  <1>2. new \in InviteRow /\ invite' = [invite EXCEPT ![i] = new]
    BY <1>1 DEF InviteRow, RevokeOrganizationInvite
  <1>3. /\ new.org = invite[i].org /\ new.email = invite[i].email /\ new.role = invite[i].role
        /\ new.acceptedBy = invite[i].acceptedBy
        /\ invite[i].revoked => new.revoked
    BY <1>1 DEF InviteRow
  <1>. HIDE DEF new
  <1>5. PICK row \in InviteRow :
           /\ invite' = [invite EXCEPT ![i] = row]
           /\ row.org = invite[i].org /\ row.email = invite[i].email /\ row.role = invite[i].role
           /\ row.acceptedBy = invite[i].acceptedBy
           /\ invite[i].revoked => row.revoked
    BY <1>2, <1>3
  <1>6. /\ invite' \in Seq(InviteRow)
        /\ Len(invite') = Len(invite)
        /\ \A j \in Invite : invite'[j] = IF j = i THEN row ELSE invite[j]
    BY <1>5, InviteChanged
  <1>. QED  BY <1>5, <1>6

LEMMA InviteExpired ==
    ASSUME Shapes, NEW i \in Invite, InviteExpires(i)
    PROVE  /\ invite' \in Seq(InviteRow)
           /\ Len(invite') = Len(invite)
           /\ \A j \in Invite :
                 /\ invite'[j].org = invite[j].org
                 /\ invite'[j].email = invite[j].email
                 /\ invite'[j].role = invite[j].role
                 /\ invite'[j].acceptedBy = invite[j].acceptedBy
                 /\ invite'[j].revoked = invite[j].revoked
  <1>. DEFINE new == [invite[i] EXCEPT !.expired = TRUE]
  <1>1. invite[i] \in InviteRow
    BY DEF Shapes, Invite
  <1>2. new \in InviteRow /\ invite' = [invite EXCEPT ![i] = new]
    BY <1>1 DEF InviteRow, InviteExpires
  <1>3. /\ new.org = invite[i].org /\ new.email = invite[i].email /\ new.role = invite[i].role
        /\ new.acceptedBy = invite[i].acceptedBy
        /\ new.revoked = invite[i].revoked
    BY <1>1 DEF InviteRow
  <1>. HIDE DEF new
  <1>5. PICK row \in InviteRow :
           /\ invite' = [invite EXCEPT ![i] = row]
           /\ row.org = invite[i].org /\ row.email = invite[i].email /\ row.role = invite[i].role
           /\ row.acceptedBy = invite[i].acceptedBy
           /\ row.revoked = invite[i].revoked
    BY <1>2, <1>3
  <1>6. /\ invite' \in Seq(InviteRow)
        /\ Len(invite') = Len(invite)
        /\ \A j \in Invite : invite'[j] = IF j = i THEN row ELSE invite[j]
    BY <1>5, InviteChanged
  <1>. QED  BY <1>5, <1>6

\* The transaction that admits a person spends the invite.
LEMMA InviteSpent ==
    ASSUME Shapes, NEW i \in Invite, NEW u \in Users, IsRedeemable(i),
           invite' = [invite EXCEPT ![i].acceptedBy = u],
           spent' = [spent EXCEPT ![i] = @ + 1]
    PROVE  /\ invite' \in Seq(InviteRow)
           /\ spent' \in Seq(Nat)
           /\ Len(invite') = Len(invite)
           /\ Len(spent') = Len(spent)
           /\ \A j \in Invite :
                 /\ invite'[j].org = invite[j].org
                 /\ invite'[j].email = invite[j].email
                 /\ invite'[j].role = invite[j].role
                 /\ invite'[j].acceptedBy = IF j = i THEN u ELSE invite[j].acceptedBy
                 /\ invite'[j].revoked = invite[j].revoked
                 /\ spent'[j] = IF j = i THEN spent[j] + 1 ELSE spent[j]
  <1>. DEFINE new == [invite[i] EXCEPT !.acceptedBy = u]
  <1>1. invite[i] \in InviteRow
    BY DEF Shapes, Invite
  <1>2. new \in InviteRow /\ invite' = [invite EXCEPT ![i] = new]
    BY <1>1 DEF InviteRow
  <1>3. /\ new.org = invite[i].org /\ new.email = invite[i].email /\ new.role = invite[i].role
        /\ new.acceptedBy = u
        /\ new.revoked = invite[i].revoked
    BY <1>1 DEF InviteRow
  <1>. HIDE DEF new
  <1>5. PICK row \in InviteRow :
           /\ invite' = [invite EXCEPT ![i] = row]
           /\ row.org = invite[i].org /\ row.email = invite[i].email /\ row.role = invite[i].role
           /\ row.acceptedBy = u
           /\ row.revoked = invite[i].revoked
    BY <1>2, <1>3
  <1>4. /\ spent' \in Seq(Nat) /\ Len(spent') = Len(spent)
        /\ \A j \in Invite : spent'[j] = IF j = i THEN spent[j] + 1 ELSE spent[j]
    BY DEF Shapes, Invite
  <1>6. /\ invite' \in Seq(InviteRow)
        /\ Len(invite') = Len(invite)
        /\ \A j \in Invite : invite'[j] = IF j = i THEN row ELSE invite[j]
    BY <1>5, InviteChanged
  <1>. QED  BY <1>4, <1>5, <1>6

\* A new invite stands behind the others.
LEMMA InviteCreated ==
    ASSUME Shapes, NEW row \in InviteRow,
           invite' = Append(invite, row), spent' = Append(spent, 0)
    PROVE  /\ invite' \in Seq(InviteRow)
           /\ spent' \in Seq(Nat)
           /\ Len(invite') = Len(invite) + 1
           /\ Len(spent') = Len(invite')
           /\ Len(invite) \in Nat
           /\ invite'[Len(invite')] = row
           /\ spent'[Len(invite')] = 0
           /\ \A j \in Invite : invite'[j] = invite[j] /\ spent'[j] = spent[j]
  BY DEF Shapes, Invite

-----------------------------------------------------------------------------
(* What a step of a request does to the requests *)

LEMMA Moved ==
    ASSUME Shapes, NEW c \in Clients, NEW step \in Steps, Goto(c, step)
    PROVE  /\ req' \in [Clients -> Request]
           /\ \A d \in Clients : d # c => req'[d] = req[d]
           /\ req'[c].at = step
           /\ req'[c].oauth = req[c].oauth /\ req'[c].user = req[c].user
           /\ req'[c].org = req[c].org /\ req'[c].inv = req[c].inv
           /\ req'[c].role = req[c].role /\ req'[c].target = req[c].target
           /\ req'[c].clean = req[c].clean
  <1>1. req[c] \in Request
    BY DEF Shapes
  <1>2. [req[c] EXCEPT !.at = step] \in Request
    BY <1>1 DEF Request
  <1>. QED  BY <1>1, <1>2 DEF Shapes, Goto, Request

LEMMA IdleIsRequest == Idle \in Request /\ Idle.at = "idle"
  <1>1. Outsider \in Roles
    BY DEF Roles
  <1>. QED  BY <1>1 DEF Idle, Request, Steps

LEMMA Ended ==
    ASSUME Shapes, NEW c \in Clients, End(c)
    PROVE  /\ req' \in [Clients -> Request]
           /\ \A d \in Clients : d # c => req'[d] = req[d]
           /\ req'[c].at = "idle"
  BY IdleIsRequest DEF Shapes, End

\* A role that is written marks the requests of the organization that will write one.
LEMMA RaceNoted ==
    ASSUME Shapes, NEW c \in Clients, NEW o, NoteRace(c, o)
    PROVE  /\ req' \in [Clients -> Request]
           /\ req'[c].at = "idle"
           /\ \A d \in Clients : d # c =>
                 /\ req'[d].at = req[d].at /\ req'[d].oauth = req[d].oauth
                 /\ req'[d].user = req[d].user /\ req'[d].org = req[d].org
                 /\ req'[d].inv = req[d].inv /\ req'[d].role = req[d].role
                 /\ req'[d].clean => req[d].clean /\ ~(req[d].at = "write" /\ req[d].org = o)
  <1>1. \A d \in Clients : req[d] \in Request
    BY DEF Shapes
  <1>2. \A d \in Clients :
           LET r == [req[d] EXCEPT !.clean = FALSE] IN
           /\ r \in Request
           /\ r.at = req[d].at /\ r.oauth = req[d].oauth /\ r.user = req[d].user
           /\ r.org = req[d].org /\ r.inv = req[d].inv /\ r.role = req[d].role
           /\ ~r.clean
    BY <1>1 DEF Request
  <1>3. req' \in [Clients -> Request]
    BY <1>1, <1>2, IdleIsRequest DEF NoteRace
  <1>. QED  BY <1>1, <1>2, <1>3, IdleIsRequest DEF NoteRace

\* A request that begins.
Begins(c, r) == req[c].at = "idle" /\ req' = [req EXCEPT ![c] = r]

LEMMA Began ==
    ASSUME Shapes, NEW c \in Clients, NEW r \in Request, Begins(c, r)
    PROVE  /\ req' \in [Clients -> Request]
           /\ \A d \in Clients : d # c => req'[d] = req[d]
           /\ req'[c] = r
  BY DEF Shapes, Begins

-----------------------------------------------------------------------------
(* Every step changes the requests only, or is one of these. *)
Writes ==
    \/ \E c \in Clients :
          \/ CreateOrganization(c) \/ CreateUser(c) \/ RevokeRedundant(c)
          \/ AcceptOrganizationInvite(c) \/ CountOrganizationMembers(c) \/ CreateFounder(c)
          \/ CreateOrganizationInvite(c) \/ WriteMember(c)
          \/ \E o \in Orgs : \E i \in Invite : RevokeInvite(c, o, i)
    \/ \E i \in Invite : InviteExpires(i)
    \/ \E o \in Orgs : \E u \in Users : ClaimExpires(o, u)

Reads(c) ==
    \/ \E u \in Users : \E o \in Orgs :
          \/ RegisterWithEmail(c, u, o)
          \/ \E i \in Invite \union {0} : LoginWithOAuth(c, u, o, i)
    \/ \E u \in Users : \E i \in Invite : RegisterWithInvite(c, u, i)
    \/ GetOrCreateOrganization(c) \/ FindUser(c)
    \/ AdmitOAuth(c) \/ ResolveOAuthInvite(c) \/ Admit(c)
    \/ \E o \in Orgs : \E a \in claims[o] :
          \/ \E u \in Users : \E r \in UserRoles : CreateInvite(c, o, u, r)
          \/ \E u \in Users : \E r \in Roles : ChangeMember(c, o, a, u, r)
    \/ EnsureNotLastAdmin(c) \/ Abort(c)

LEMMA Alternatives ==
    ASSUME Next
    PROVE  Writes \/ \E c \in Clients : Reads(c)
  BY DEF Next, Join, Administer, Writes, Reads, Roles

LEMMA ReadsKeepTables ==
    ASSUME NEW c \in Clients, Reads(c)
    PROVE  UNCHANGED tables
  BY DEF Reads, RegisterWithEmail, LoginWithOAuth, RegisterWithInvite, GetOrCreateOrganization,
         FindUser, AdmitOAuth, ResolveOAuthInvite, Admit, CreateInvite, ChangeMember,
         EnsureNotLastAdmin, Abort

\* What no step takes back.
Kept ==
    /\ org \subseteq org' /\ user \subseteq user'
    /\ Len(invite) <= Len(invite')
    /\ \A j \in Invite : /\ invite'[j].org = invite[j].org
                         /\ invite'[j].email = invite[j].email
                         /\ invite'[j].role = invite[j].role

LEMMA RequestKept ==
    ASSUME Shapes, Kept, Len(invite) \in Nat, Len(invite') \in Nat,
           NEW r \in Request, RequestOK(r)
    PROVE  RequestOK(r)'
  <1>1. Invite \subseteq Invite'
    BY DEF Invite, Kept
  <1>2. r.inv # 0 /\ r.inv \in Invite /\ Sent(r) => Sent(r)'
    BY DEF Sent, Kept
  <1>. QED  BY <1>1, <1>2 DEF RequestOK, Kept, Known, Placed

\* What a step that only reads leaves behind.
Leaves(c) ==
    /\ req' \in [Clients -> Request]
    /\ \A d \in Clients : d # c => req'[d] = req[d]
    /\ RequestOK(req'[c])
    /\ req'[c].at # "found"
    /\ req'[c].at \in {"invite", "lastadmin", "write"} => Begun(req'[c].org)
    /\ req'[c].at = "write" /\ "admins" \notin raced[req'[c].org]
          => \E a \in Admins(req'[c].org) : a # req'[c].user

LEMMA BeginLeaves ==
    ASSUME Shapes, NEW c \in Clients, NEW r \in Request, Begins(c, r), RequestOK(r),
           r.at # "found",
           r.at \in {"invite", "lastadmin", "write"} => Begun(r.org),
           r.at = "write" /\ "admins" \notin raced[r.org] => \E a \in Admins(r.org) : a # r.user
    PROVE  Leaves(c)
  BY Began DEF Leaves

LEMMA EndLeaves ==
    ASSUME Shapes, NEW c \in Clients, End(c)
    PROVE  Leaves(c)
  BY Ended DEF Leaves, RequestOK, Placed, Known

LEMMA GotoLeaves ==
    ASSUME Shapes, RequestsOK, NEW c \in Clients,
           NEW step \in {"finduser", "createuser", "createorg", "admitoauth", "admit",
                         "resolve", "redundant", "accept", "count"},
           req[c].at \in Steps \ {"idle"},
           step # "createorg" => req[c].org \in org,
           step \notin {"finduser", "createuser", "createorg"} => req[c].user \in user,
           step \in {"resolve", "redundant", "accept"} => req[c].inv # 0,
           step # "createorg" /\ req[c].inv # 0
              /\ (~req[c].oauth \/ step \in {"admit", "redundant", "accept"}) => Sent(req[c]),
           step = "createorg" /\ req[c].inv # 0 => req[c].oauth,
           Goto(c, step)
    PROVE  Leaves(c)
  <1>1. step \in Steps
    BY DEF Steps, Placed, Known
  <1>2. /\ req' \in [Clients -> Request]
        /\ \A d \in Clients : d # c => req'[d] = req[d]
        /\ req'[c].at = step
        /\ req'[c].oauth = req[c].oauth /\ req'[c].user = req[c].user
        /\ req'[c].org = req[c].org /\ req'[c].inv = req[c].inv
        /\ req'[c].role = req[c].role
    BY <1>1, Moved
  <1>3. Sent(req'[c]) <=> Sent(req[c])
    BY <1>2 DEF Sent
  <1>4. req[c].user \in Users /\ req[c].org \in Orgs /\ req[c].inv \in Invite \union {0}
    BY DEF RequestsOK, RequestOK
  <1>5. RequestOK(req'[c])
    BY <1>2, <1>3, <1>4 DEF RequestOK, Placed, Known
  <1>. QED  BY <1>2, <1>5 DEF Leaves

LEMMA RegistrationLeaves ==
    ASSUME IInv, NEW c \in Clients, NEW u \in Users,
           \/ \E o \in Orgs : RegisterWithEmail(c, u, o)
           \/ \E i \in Invite : RegisterWithInvite(c, u, i)
           \/ \E o \in Orgs : \E i \in Invite \union {0} : LoginWithOAuth(c, u, o, i)
    PROVE  Leaves(c)
  <1>1. ASSUME NEW o \in Orgs, RegisterWithEmail(c, u, o)
        PROVE  Leaves(c)
    <2>. DEFINE r == [Idle EXCEPT !.at = "findorg", !.user = u, !.org = o]
    <2>1. /\ r \in Request /\ r.at = "findorg" /\ r.user = u /\ r.org = o /\ r.inv = 0
      BY DEF Idle, Request, Steps, Roles
    <2>2. Begins(c, r)
      BY <1>1 DEF RegisterWithEmail, Begins
    <2>. HIDE DEF r
    <2>3. RequestOK(r)
      BY <2>1 DEF RequestOK, Placed, Known
    <2>. QED  BY <2>1, <2>2, <2>3, Began DEF Leaves, IInv
  <1>2. ASSUME NEW i \in Invite, RegisterWithInvite(c, u, i)
        PROVE  Leaves(c)
    <2>. DEFINE r == [Idle EXCEPT !.at = "finduser", !.user = u, !.inv = i,
                                  !.org = invite[i].org, !.role = invite[i].role]
    <2>1. /\ invite[i].org \in Orgs /\ invite[i].role \in UserRoles
          /\ i \in Nat /\ invite[i].org \in org
      <3>1. i \in Nat /\ invite[i] \in InviteRow
        BY DEF IInv, Shapes, Invite
      <3>. QED  BY <3>1 DEF IInv, InviteRow, RowsOK
    <2>2. /\ r \in Request /\ r.at = "finduser" /\ r.user = u /\ r.org = invite[i].org
          /\ r.inv = i /\ r.role = invite[i].role
      BY <2>1 DEF Idle, Request, Steps, Placed, Roles
    <2>3. Begins(c, r) /\ invite[i].email = u
      BY <1>2 DEF RegisterWithInvite, Begins, ResolveInvite, MatchesEmail
    <2>. HIDE DEF r
    <2>4. Sent(r)
      BY <2>2, <2>3 DEF Sent
    <2>5. RequestOK(r)
      BY <2>1, <2>2, <2>4 DEF RequestOK, Placed, Known
    <2>. QED  BY <2>2, <2>3, <2>5, Began DEF Leaves, IInv
  <1>3. ASSUME NEW o \in Orgs, NEW i \in Invite \union {0}, LoginWithOAuth(c, u, o, i)
        PROVE  Leaves(c)
    <2>. DEFINE r == [Idle EXCEPT !.oauth = TRUE, !.user = u, !.org = o, !.inv = i,
                                  !.at = IF o \in org THEN "finduser" ELSE "findorg"]
    <2>1. i \in Nat
      BY DEF Invite
    <2>2. /\ r \in Request /\ r.user = u /\ r.org = o /\ r.inv = i /\ r.oauth
          /\ r.at \in {"finduser", "findorg"} /\ (r.at = "finduser" => o \in org)
      BY <2>1 DEF Idle, Request, Steps, Placed, Roles
    <2>3. Begins(c, r)
      BY <1>3 DEF LoginWithOAuth, Begins
    <2>. HIDE DEF r
    <2>4. RequestOK(r)
      BY <2>2 DEF RequestOK, Placed, Known
    <2>. QED  BY <2>2, <2>3, <2>4, Began DEF Leaves, IInv
  <1>. QED  BY <1>1, <1>2, <1>3

LEMMA JoiningLeaves ==
    ASSUME IInv, NEW c \in Clients,
           \/ GetOrCreateOrganization(c) \/ FindUser(c)
           \/ AdmitOAuth(c) \/ Admit(c)
    PROVE  Leaves(c)
  <1>0. Shapes /\ RequestsOK /\ RequestOK(req[c])
    BY DEF IInv, RequestsOK
  <1>1. ASSUME GetOrCreateOrganization(c)
        PROVE  Leaves(c)
    <2>1. CASE req[c].org \in org
      BY <1>0, <1>1, <2>1, GotoLeaves
         DEF GetOrCreateOrganization, RequestOK, Steps, Placed, Known
    <2>2. CASE req[c].org \notin org
      BY <1>0, <1>1, <2>2, GotoLeaves
         DEF GetOrCreateOrganization, RequestOK, Steps, Placed, Known
    <2>. QED  BY <2>1, <2>2
  <1>2. ASSUME FindUser(c)
        PROVE  Leaves(c)
    <2>1. CASE req[c].user \notin user
      BY <1>0, <1>2, <2>1, GotoLeaves DEF FindUser, RequestOK, Steps, Placed, Known
    <2>2. CASE req[c].user \in user /\ req[c].oauth
      BY <1>0, <1>2, <2>2, GotoLeaves DEF FindUser, RequestOK, Steps, Placed, Known
    <2>3. CASE req[c].user \in user /\ ~req[c].oauth
      BY <1>0, <1>2, <2>3, GotoLeaves DEF FindUser, RequestOK, Steps, Placed, Known
    <2>. QED  BY <2>1, <2>2, <2>3
  <1>3. ASSUME AdmitOAuth(c)
        PROVE  Leaves(c)
    <2>1. CASE IsMember(req[c].org, req[c].user)
      BY <1>0, <1>3, <2>1, EndLeaves DEF AdmitOAuth
    <2>2. CASE ~IsMember(req[c].org, req[c].user) /\ req[c].inv = 0
      BY <1>0, <1>3, <2>2, GotoLeaves DEF AdmitOAuth, RequestOK, Steps, Placed, Known
    <2>3. CASE ~IsMember(req[c].org, req[c].user) /\ req[c].inv # 0
      BY <1>0, <1>3, <2>3, GotoLeaves DEF AdmitOAuth, RequestOK, Steps, Placed, Known
    <2>. QED  BY <2>1, <2>2, <2>3
  <1>4. ASSUME Admit(c)
        PROVE  Leaves(c)
    <2>1. CASE IsMember(req[c].org, req[c].user) /\ req[c].inv = 0
      BY <1>0, <1>4, <2>1, EndLeaves DEF Admit
    <2>2. CASE IsMember(req[c].org, req[c].user) /\ req[c].inv # 0
      BY <1>0, <1>4, <2>2, GotoLeaves DEF Admit, RequestOK, Steps, Placed, Known
    <2>3. CASE ~IsMember(req[c].org, req[c].user) /\ req[c].inv = 0
      BY <1>0, <1>4, <2>3, GotoLeaves DEF Admit, RequestOK, Steps, Placed, Known
    <2>4. CASE ~IsMember(req[c].org, req[c].user) /\ req[c].inv # 0
      BY <1>0, <1>4, <2>4, GotoLeaves DEF Admit, RequestOK, Steps, Placed, Known
    <2>. QED  BY <2>1, <2>2, <2>3, <2>4
  <1>. QED  BY <1>1, <1>2, <1>3, <1>4

LEMMA InviteIsResolved ==
    ASSUME IInv, NEW c \in Clients, ResolveOAuthInvite(c)
    PROVE  Leaves(c)
  <1>0. Shapes /\ RequestsOK /\ RequestOK(req[c]) /\ req[c] \in Request
    BY DEF IInv, RequestsOK, Shapes
  <1>. DEFINE i == req[c].inv
              r == [req[c] EXCEPT !.at = "admit", !.role = invite[i].role]
  <1>1. i \in Invite /\ req[c].org \in org /\ req[c].user \in user
    BY <1>0 DEF ResolveOAuthInvite, RequestOK, Placed, Known
  <1>2. invite[i].role \in UserRoles
    <2>1. invite[i] \in InviteRow
      BY <1>0, <1>1 DEF Shapes, Invite
    <2>. QED  BY <2>1 DEF InviteRow
  <1>3. CASE ResolveInvite(i, req[c].user) /\ invite[i].org = req[c].org
    <2>1. /\ r \in Request /\ r.at = "admit" /\ r.role = invite[i].role
          /\ r.user = req[c].user /\ r.org = req[c].org /\ r.inv = i
      BY <1>0, <1>2 DEF Request, Steps, Placed, Known, Roles
    <2>2. req' = [req EXCEPT ![c] = r]
      BY <1>0, <1>3 DEF ResolveOAuthInvite, Shapes
    <2>. HIDE DEF r
    <2>3. Sent(r)
      BY <1>3, <2>1 DEF Sent, ResolveInvite, MatchesEmail
    <2>4. RequestOK(r)
      BY <1>0, <1>1, <2>1, <2>3 DEF RequestOK, Known, Placed, ResolveOAuthInvite
    <2>5. /\ req' \in [Clients -> Request]
          /\ \A d \in Clients : d # c => req'[d] = req[d]
          /\ req'[c] = r
      BY <1>0, <2>1, <2>2 DEF Shapes
    <2>. QED  BY <2>1, <2>4, <2>5 DEF Leaves
  <1>4. CASE ~(ResolveInvite(i, req[c].user) /\ invite[i].org = req[c].org)
    BY <1>0, <1>4, EndLeaves DEF ResolveOAuthInvite
  <1>. QED  BY <1>3, <1>4

LEMMA AdministeringLeaves ==
    ASSUME IInv, NEW c \in Clients, NEW o \in Orgs, NEW a \in claims[o], NEW u \in Users,
           \/ \E r \in UserRoles : CreateInvite(c, o, u, r)
           \/ \E r \in Roles : ChangeMember(c, o, a, u, r)
    PROVE  Leaves(c)
  <1>0. Shapes /\ Begun(o) /\ o \in org
    BY DEF IInv, Begun, RowsOK
  <1>1. ASSUME NEW role \in UserRoles, CreateInvite(c, o, u, role)
        PROVE  Leaves(c)
    <2>. DEFINE r == [Idle EXCEPT !.at = "invite", !.user = u, !.org = o, !.role = role]
    <2>1. /\ r \in Request /\ r.at = "invite" /\ r.user = u /\ r.org = o /\ r.inv = 0
          /\ r.role = role
      BY DEF Idle, Request, Steps, Placed, Roles
    <2>2. Begins(c, r)
      BY <1>1 DEF CreateInvite, Begins
    <2>. HIDE DEF r
    <2>3. RequestOK(r)
      BY <1>0, <2>1 DEF RequestOK, Placed, Known
    <2>. QED  BY <1>0, <2>1, <2>2, <2>3, Began DEF Leaves
  <1>2. ASSUME NEW role \in Roles, ChangeMember(c, o, a, u, role)
        PROVE  Leaves(c)
    <2>. DEFINE r == [Idle EXCEPT !.user = u, !.org = o, !.target = role,
                         !.at = IF members[o][u] = "admin" THEN "lastadmin" ELSE "write"]
    <2>1. /\ r \in Request /\ r.user = u /\ r.org = o /\ r.inv = 0
          /\ r.at = IF members[o][u] = "admin" THEN "lastadmin" ELSE "write"
      BY DEF Idle, Request, Steps, Placed, Roles
    <2>2. Begins(c, r) /\ IsMember(o, u)
      BY <1>2 DEF ChangeMember, Begins
    <2>. HIDE DEF r
    <2>3. RequestOK(r)
      BY <1>0, <2>1 DEF RequestOK, Placed, Known
    <2>4. ASSUME r.at = "write", "admins" \notin raced[o]
          PROVE  \E b \in Admins(o) : b # u
      <3>1. PICK b \in Admins(o) : TRUE
        BY <2>2, <2>4 DEF IInv, Administrators, MembersOf
      <3>2. members[o][u] # "admin"
        BY <2>1, <2>4
      <3>. QED  BY <3>1, <3>2 DEF Admins
    <2>. QED  BY <1>0, <2>1, <2>2, <2>3, <2>4, Began DEF Leaves
  <1>. QED  BY <1>1, <1>2

LEMMA ReadLeaves ==
    ASSUME IInv, NEW c \in Clients, Reads(c)
    PROVE  Leaves(c)
  <1>0. Shapes /\ RequestsOK /\ RequestOK(req[c])
    BY DEF IInv, RequestsOK
  <1>1. CASE Abort(c)
    BY <1>0, <1>1, EndLeaves DEF Abort
  <1>2. CASE EnsureNotLastAdmin(c)
    <2>1. CASE \E a, b \in Admins(req[c].org) : a # b
      <3>1. Goto(c, "write") /\ req[c].at = "lastadmin" /\ "write" \in Steps
        BY <1>2, <2>1 DEF EnsureNotLastAdmin, Steps, Placed
      <3>2. /\ req' \in [Clients -> Request]
            /\ \A d \in Clients : d # c => req'[d] = req[d]
            /\ req'[c].at = "write"
            /\ req'[c].user = req[c].user /\ req'[c].org = req[c].org /\ req'[c].inv = req[c].inv
        BY <1>0, <3>1, Moved
      <3>3. RequestOK(req'[c])
        BY <1>0, <3>1, <3>2 DEF RequestOK, Placed, Known
      <3>4. Begun(req[c].org)
        BY <3>1 DEF Begun
      <3>5. \E a \in Admins(req[c].org) : a # req[c].user
        BY <2>1
      <3>. QED  BY <3>2, <3>3, <3>4, <3>5 DEF Leaves
    <2>2. CASE ~ \E a, b \in Admins(req[c].org) : a # b
      BY <1>0, <1>2, <2>2, EndLeaves DEF EnsureNotLastAdmin
    <2>. QED  BY <2>1, <2>2
  <1>3. CASE ResolveOAuthInvite(c)
    BY <1>3, InviteIsResolved
  <1>4. CASE GetOrCreateOrganization(c) \/ FindUser(c) \/ AdmitOAuth(c) \/ Admit(c)
    BY <1>4, JoiningLeaves
  <1>5. ASSUME NEW o \in Orgs, NEW a \in claims[o],
               \/ \E u \in Users : \E r \in UserRoles : CreateInvite(c, o, u, r)
               \/ \E u \in Users : \E r \in Roles : ChangeMember(c, o, a, u, r)
        PROVE  Leaves(c)
    BY <1>5, AdministeringLeaves
  <1>6. ASSUME NEW u \in Users,
               \/ \E o \in Orgs : RegisterWithEmail(c, u, o)
               \/ \E i \in Invite : RegisterWithInvite(c, u, i)
               \/ \E o \in Orgs : \E i \in Invite \union {0} : LoginWithOAuth(c, u, o, i)
        PROVE  Leaves(c)
    BY <1>6, RegistrationLeaves
  <1>. QED  BY <1>1, <1>2, <1>3, <1>4, <1>5, <1>6 DEF Reads

-----------------------------------------------------------------------------
(* A step that only reads preserves the invariant. *)

LEMMA ReadNext ==
    ASSUME IInv, NEW c \in Clients, Reads(c)
    PROVE  IInv'
  <1>1. UNCHANGED tables
    BY ReadsKeepTables
  <1>2. Leaves(c)
    BY ReadLeaves
  <1>3. Shapes'
    BY <1>1, <1>2 DEF IInv, Shapes, Leaves, tables
  <1>4. RequestsOK'
    <2>1. ASSUME NEW d \in Clients
          PROVE  RequestOK(req[d])'
      <3>1. RequestOK(req'[d])
        BY <1>2 DEF Leaves, IInv, RequestsOK
      <3>. QED  BY <1>1, <3>1 DEF RequestOK, Sent, Invite, tables
    <2>. QED  BY <2>1 DEF RequestsOK
  <1>5. (RowsOK /\ OneOpen /\ InviteAdmitsOnce /\ MembersWereInvited)'
    <2>1. /\ user' = user /\ org' = org /\ members' = members /\ invite' = invite
          /\ claims' = claims /\ admission' = admission /\ spent' = spent
      BY <1>1 DEF tables
    <2>2. RowsOK'
      BY <2>1 DEF IInv, RowsOK, Invite, MembersOf, Admins, IsMember
    <2>3. OneOpen'
      BY <2>1 DEF IInv, OneOpen, Invite, Open
    <2>4. InviteAdmitsOnce'
      BY <2>1 DEF IInv, InviteAdmitsOnce, Invite
    <2>5. MembersWereInvited'
      BY <2>1 DEF IInv, MembersWereInvited, Invite, MembersOf, IsMember
    <2>. QED  BY <2>2, <2>3, <2>4, <2>5
  <1>6. Founders'
    <2>1. \A d \in Clients : \A o : Founding(d, o)' => Founding(d, o)
      BY <1>2 DEF Leaves, Founding
    <2>2. \A o : \A u : Founded(o, u)' <=> Founded(o, u)
      BY <1>1 DEF Founded, IsMember, tables
    <2>3. raced' = raced
      BY <1>1 DEF tables
    <2>. QED  BY <2>1, <2>2, <2>3 DEF IInv, Founders
  <1>7. Administrators'
    <2>. SUFFICES ASSUME NEW o \in Orgs, "admins" \notin raced[o]
                  PROVE  /\ Begun(o)' => MembersOf(o)' # {}
                         /\ MembersOf(o)' # {} => Admins(o)' # {}
                         /\ \A d \in Clients : req'[d].at = "write" /\ req'[d].org = o /\ req'[d].clean
                                => \E a \in Admins(o)' : a # req'[d].user
      BY <1>1 DEF Administrators, tables
    <2>1. MembersOf(o)' = MembersOf(o) /\ Admins(o)' = Admins(o)
      BY <1>1 DEF tables, MembersOf, Admins, IsMember
    <2>2. Begun(o)' => Begun(o)
      BY <1>1, <1>2 DEF tables, Begun, Leaves, Invite
    <2>3. ASSUME NEW d \in Clients, req'[d].at = "write", req'[d].org = o, req'[d].clean
          PROVE  \E a \in Admins(o) : a # req'[d].user
      <3>1. CASE d = c
        BY <1>2, <2>3, <3>1 DEF Leaves
      <3>2. CASE d # c
        BY <1>2, <2>3, <3>2 DEF Leaves, IInv, Administrators
      <3>. QED  BY <3>1, <3>2
    <2>. QED  BY <2>1, <2>2, <2>3 DEF IInv, Administrators
  <1>. QED  BY <1>3, <1>4, <1>5, <1>6, <1>7 DEF IInv, DistinctNames

-----------------------------------------------------------------------------
(* The writes: what they keep, and the types *)

\* A request that is served goes on, or is done.
Served(c) ==
    /\ req' \in [Clients -> Request]
    /\ \A d \in Clients : d # c =>
          /\ req'[d].at = req[d].at /\ req'[d].oauth = req[d].oauth
          /\ req'[d].user = req[d].user /\ req'[d].org = req[d].org
          /\ req'[d].inv = req[d].inv /\ req'[d].role = req[d].role
          /\ req'[d].clean => req[d].clean
    /\ \/ req'[c].at = "idle"
       \/ /\ req'[c].oauth = req[c].oauth /\ req'[c].user = req[c].user
          /\ req'[c].org = req[c].org /\ req'[c].inv = req[c].inv
          /\ req'[c].role = req[c].role
          /\ \/ req[c].at = "createorg" /\ req'[c].at = "finduser"
             \/ req[c].at = "createuser" /\ req'[c].at \in {"admitoauth", "admit"}
                /\ (req'[c].at = "admit" => ~req[c].oauth)
             \/ req[c].at = "count" /\ req'[c].at = "found"

LEMMA EndServed ==
    ASSUME Shapes, NEW c \in Clients, End(c)
    PROVE  Served(c)
  BY Ended DEF Served

LEMMA WriteServed ==
    ASSUME IInv, NEW c \in Clients,
           \/ CreateOrganization(c) \/ CreateUser(c) \/ RevokeRedundant(c)
           \/ AcceptOrganizationInvite(c) \/ CountOrganizationMembers(c) \/ CreateFounder(c)
           \/ CreateOrganizationInvite(c) \/ WriteMember(c)
    PROVE  Served(c)
  <1>0. Shapes
    BY DEF IInv
  <1>1. CASE End(c)
    BY <1>0, <1>1, EndServed
  <1>2. CASE CreateOrganization(c) /\ ~End(c)
    <2>1. Goto(c, "finduser") /\ req[c].at = "createorg" /\ "finduser" \in Steps
      BY <1>2 DEF CreateOrganization, Steps, Placed
    <2>. QED  BY <1>0, <2>1, Moved DEF Served
  <1>3. CASE CreateUser(c) /\ ~End(c)
    <2>1. PICK step \in {"admitoauth", "admit"} :
             Goto(c, step) /\ (step = "admit" => ~req[c].oauth)
      BY <1>3 DEF CreateUser
    <2>2. step \in Steps /\ req[c].at = "createuser"
      BY <1>3 DEF CreateUser, Steps, Placed, Known
    <2>. QED  BY <1>0, <2>1, <2>2, Moved DEF Served
  <1>4. CASE CountOrganizationMembers(c) /\ ~End(c)
    <2>1. Goto(c, "found") /\ req[c].at = "count" /\ "found" \in Steps
      BY <1>4 DEF CountOrganizationMembers, Steps, Placed, Known
    <2>. QED  BY <1>0, <2>1, Moved DEF Served
  <1>5. CASE WriteMember(c) /\ ~End(c)
    <2>1. NoteRace(c, req[c].org)
      BY <1>5 DEF WriteMember
    <2>. QED  BY <1>0, <2>1, RaceNoted DEF Served
  <1>6. CASE RevokeRedundant(c) \/ AcceptOrganizationInvite(c) \/ CreateFounder(c)
              \/ CreateOrganizationInvite(c)
    <2>1. End(c)
      BY <1>6 DEF RevokeRedundant, AcceptOrganizationInvite, CreateFounder,
                  CreateOrganizationInvite
    <2>. QED  BY <1>1, <2>1
  <1>. QED  BY <1>1, <1>2, <1>3, <1>4, <1>5, <1>6

LEMMA RequestsNext ==
    ASSUME IInv, Kept, Shapes', NEW c \in Clients, Served(c),
           req[c].at = "createorg" /\ req'[c].at = "finduser" => req[c].org \in org',
           req[c].at = "createuser" /\ req'[c].at # "idle" => req[c].user \in user'
    PROVE  RequestsOK'
  <1>0. Shapes /\ Len(invite) \in Nat /\ Len(invite') \in Nat
    BY DEF IInv, Shapes
  <1>1. ASSUME NEW d \in Clients
        PROVE  RequestOK(req[d])'
    <2>1. req[d] \in Request /\ RequestOK(req[d])
      BY DEF IInv, Shapes, RequestsOK
    <2>2. PICK r \in Request : r = req[d]
      BY <2>1
    <2>3. RequestOK(r)'
      BY <1>0, <2>1, <2>2, RequestKept
    <2>4. CASE req'[d].at = "idle"
      BY <2>4 DEF RequestOK, Placed, Known
    <2>5. CASE /\ req'[d].at = r.at /\ req'[d].oauth = r.oauth /\ req'[d].user = r.user
               /\ req'[d].org = r.org /\ req'[d].inv = r.inv /\ req'[d].role = r.role
      BY <2>3, <2>5 DEF RequestOK, Placed, Known, Sent
    <2>6. CASE d = c /\ req'[c].at # "idle"
      <3>1. /\ req'[c].oauth = r.oauth /\ req'[c].user = r.user
            /\ req'[c].org = r.org /\ req'[c].inv = r.inv /\ req'[c].role = r.role
        BY <2>2, <2>6 DEF Served
      <3>2. \/ r.at = "createorg" /\ req'[c].at = "finduser"
            \/ r.at = "createuser" /\ req'[c].at \in {"admitoauth", "admit"}
               /\ (req'[c].at = "admit" => ~r.oauth)
            \/ r.at = "count" /\ req'[c].at = "found"
        BY <2>2, <2>6 DEF Served
      <3>3. CASE r.at = "createorg" /\ req'[c].at = "finduser"
        BY <2>2, <2>3, <2>6, <3>1, <3>3 DEF RequestOK, Placed, Known, Sent
      <3>4. CASE r.at = "createuser" /\ req'[c].at = "admitoauth"
        BY <2>2, <2>3, <2>6, <3>1, <3>4 DEF RequestOK, Placed, Known, Sent
      <3>5. CASE r.at = "createuser" /\ req'[c].at = "admit" /\ ~r.oauth
        BY <2>2, <2>3, <2>6, <3>1, <3>5 DEF RequestOK, Placed, Known, Sent
      <3>6. CASE r.at = "count" /\ req'[c].at = "found"
        BY <2>2, <2>3, <2>6, <3>1, <3>6 DEF RequestOK, Placed, Known, Sent
      <3>. QED  BY <3>2, <3>3, <3>4, <3>5, <3>6
    <2>. QED  BY <2>2, <2>4, <2>5, <2>6 DEF Served
  <1>. QED  BY <1>1 DEF RequestsOK

\* What the tables become when a step writes a member, an invite, or neither.
MembersStay == members' = members /\ admission' = admission
InvitesStay == invite' = invite /\ spent' = spent

\* What follows for the rest when neither members nor invites change.
LEMMA RowsStay ==
    ASSUME IInv, MembersStay, InvitesStay, org \subseteq org', user \subseteq user',
           \A o \in Orgs : claims'[o] \subseteq claims[o] /\ Admins(o) \subseteq claims'[o]
    PROVE  (RowsOK /\ OneOpen /\ InviteAdmitsOnce /\ MembersWereInvited)'
  <1>2. RowsOK'
    BY DEF IInv, RowsOK, Invite, MembersOf, Admins, IsMember, MembersStay, InvitesStay
  <1>3. OneOpen'
    BY DEF IInv, OneOpen, Invite, Open, InvitesStay
  <1>4. InviteAdmitsOnce'
    BY DEF IInv, InviteAdmitsOnce, Invite, InvitesStay
  <1>5. MembersWereInvited'
    BY DEF IInv, MembersWereInvited, Invite, MembersOf, IsMember, MembersStay, InvitesStay
  <1>. QED  BY <1>2, <1>3, <1>4, <1>5

\* Nobody founds who was not about to, and nobody is about to write who was not.
NoNewcomers ==
    \A d \in Clients :
        /\ req'[d].at \in {"found", "invite", "lastadmin", "write"}
              => /\ req'[d].at = req[d].at /\ req'[d].org = req[d].org
                 /\ req'[d].user = req[d].user
                 /\ req'[d].clean => req[d].clean

LEMMA ServedNewcomers ==
    ASSUME NEW c \in Clients, Served(c), req'[c].at # "found"
    PROVE  NoNewcomers
  BY DEF Served, NoNewcomers

LEMMA FoundersStay ==
    ASSUME IInv, NoNewcomers, MembersStay, raced' = raced
    PROVE  Founders'
  <1>1. \A d \in Clients : \A o : Founding(d, o)' => Founding(d, o)
    BY DEF NoNewcomers, Founding
  <1>2. \A o : \A u : Founded(o, u)' <=> Founded(o, u)
    BY DEF Founded, IsMember, MembersStay
  <1>. QED  BY <1>1, <1>2 DEF IInv, Founders

LEMMA AdministratorsStay ==
    ASSUME IInv, Shapes', NoNewcomers, MembersStay,
           \A o \in Orgs : raced'[o] \subseteq raced[o] \union {"founders"}
                           /\ raced[o] \subseteq raced'[o],
           \A o \in Orgs : claims'[o] \subseteq claims[o],
           \A i \in Invite' : \/ i \in Invite /\ invite'[i].org = invite[i].org
                              \/ Begun(invite'[i].org)
    PROVE  Administrators'
  <1>. SUFFICES ASSUME NEW o \in Orgs, "admins" \notin raced'[o]
                PROVE  /\ Begun(o)' => MembersOf(o)' # {}
                       /\ MembersOf(o)' # {} => Admins(o)' # {}
                       /\ \A d \in Clients : req'[d].at = "write" /\ req'[d].org = o /\ req'[d].clean
                              => \E a \in Admins(o)' : a # req'[d].user
    BY DEF Administrators
  <1>1. MembersOf(o)' = MembersOf(o) /\ Admins(o)' = Admins(o)
    BY DEF MembersStay, MembersOf, Admins, IsMember
  <1>2. "admins" \notin raced[o]
    OBVIOUS
  <1>3. Begun(o)' => Begun(o)
    BY DEF Begun, NoNewcomers
  <1>4. ASSUME NEW d \in Clients, req'[d].at = "write", req'[d].org = o, req'[d].clean
        PROVE  \E a \in Admins(o) : a # req'[d].user
    BY <1>2, <1>4 DEF NoNewcomers, IInv, Administrators
  <1>. QED  BY <1>1, <1>2, <1>3, <1>4 DEF IInv, Administrators

-----------------------------------------------------------------------------
(* The writes, one by one *)

LEMMA CreationNext ==
    ASSUME IInv, NEW c \in Clients, CreateOrganization(c) \/ CreateUser(c)
    PROVE  IInv'
  <1>1. /\ MembersStay /\ InvitesStay /\ claims' = claims /\ raced' = raced
        /\ org' = org \/ org' = org \union {req[c].org}
        /\ user' = user \/ user' = user \union {req[c].user}
        /\ org' \subseteq Orgs /\ user' \subseteq Users
    BY DEF CreateOrganization, CreateUser, MembersStay, InvitesStay, IInv, Shapes,
           RequestsOK, RequestOK
  <1>2. Served(c) /\ req'[c].at # "found"
    <2>1. Served(c)
      BY WriteServed
    <2>2. req[c].at # "count"
      BY DEF CreateOrganization, CreateUser
    <2>. QED  BY <2>1, <2>2 DEF Served
  <1>3. Shapes'
    BY <1>1, <1>2 DEF IInv, Shapes, Served, MembersStay, InvitesStay
  <1>4. Kept
    <2>1. Len(invite) \in Nat
      BY DEF IInv, Shapes
    <2>. QED  BY <1>1, <2>1 DEF Kept, InvitesStay
  <1>5. RequestsOK'
    <2>1. ASSUME req[c].at = "createorg" /\ req'[c].at = "finduser"
          PROVE  req[c].org \in org'
      <3>1. Idle.at = "idle" /\ c \in DOMAIN req
        BY IdleIsRequest DEF IInv, Shapes
      <3>. QED  BY <2>1, <3>1, Ended DEF CreateOrganization, CreateUser, IInv
    <2>2. ASSUME req[c].at = "createuser" /\ req'[c].at # "idle"
          PROVE  req[c].user \in user'
      BY <2>2, Ended DEF CreateOrganization, CreateUser, IInv
    <2>. QED  BY <1>2, <1>3, <1>4, <2>1, <2>2, RequestsNext
  <1>6. (RowsOK /\ OneOpen /\ InviteAdmitsOnce /\ MembersWereInvited)'
    BY <1>1, RowsStay DEF IInv, RowsOK
  <1>7. NoNewcomers
    BY <1>2, ServedNewcomers
  <1>8. Founders' /\ Administrators'
    <2>1. \A i \in Invite' : i \in Invite /\ invite'[i].org = invite[i].org
      BY <1>1 DEF InvitesStay, Invite
    <2>. QED  BY <1>1, <1>3, <1>7, <2>1, FoundersStay, AdministratorsStay
  <1>. QED  BY <1>3, <1>5, <1>6, <1>8 DEF IInv, DistinctNames

\* An invite that is revoked or expires opens nothing.
LEMMA ClosingNext ==
    ASSUME IInv,
           \/ \E c \in Clients :
                 \/ RevokeRedundant(c)
                 \/ \E o \in Orgs : \E i \in Invite : RevokeInvite(c, o, i)
           \/ \E i \in Invite : InviteExpires(i)
    PROVE  IInv'
  <1>0. Shapes
    BY DEF IInv
  <1>1. /\ MembersStay /\ spent' = spent /\ claims' = claims /\ raced' = raced
        /\ org' = org /\ user' = user
    BY DEF RevokeRedundant, RevokeInvite, InviteExpires, MembersStay
  <1>2. \/ \E c \in Clients : Served(c) /\ req'[c].at = "idle"
        \/ req' = req
    <2>1. ASSUME NEW c \in Clients, RevokeRedundant(c)
          PROVE  Served(c) /\ req'[c].at = "idle"
      BY <1>0, <2>1, Ended, EndServed DEF RevokeRedundant
    <2>2. CASE ~ \E c \in Clients : RevokeRedundant(c)
      BY <2>2 DEF RevokeInvite, InviteExpires
    <2>. QED  BY <2>1, <2>2
  <1>. DEFINE Closed ==
                /\ invite' \in Seq(InviteRow)
                /\ Len(invite') = Len(invite)
                /\ \A j \in Invite :
                      /\ invite'[j].org = invite[j].org
                      /\ invite'[j].email = invite[j].email
                      /\ invite'[j].role = invite[j].role
                      /\ invite'[j].acceptedBy = invite[j].acceptedBy
                      /\ invite[j].revoked => invite'[j].revoked
  <1>3. Closed
    <2>1. ASSUME NEW c \in Clients, RevokeRedundant(c)
          PROVE  Closed
      <3>1. req[c].inv \in Invite
        BY <2>1 DEF RevokeRedundant, IInv, RequestsOK, RequestOK
      <3>2. RevokeOrganizationInvite(req[c].inv)
        BY <2>1 DEF RevokeRedundant
      <3>. QED  BY <1>0, <3>1, <3>2, InviteRevoked
    <2>2. ASSUME NEW c \in Clients, NEW o \in Orgs, NEW i \in Invite, RevokeInvite(c, o, i)
          PROVE  Closed
      <3>1. RevokeOrganizationInvite(i)
        BY <2>2 DEF RevokeInvite
      <3>. QED  BY <1>0, <3>1, InviteRevoked
    <2>3. ASSUME NEW i \in Invite, InviteExpires(i)
          PROVE  Closed
      BY <1>0, <2>3, InviteExpired
    <2>. QED  BY <2>1, <2>2, <2>3
  <1>4. Invite' = Invite
    BY <1>3 DEF Invite
  <1>5. Shapes'
    BY <1>1, <1>2, <1>3 DEF IInv, Shapes, Served, MembersStay
  <1>6. Kept
    <2>1. Len(invite) \in Nat
      BY <1>0 DEF Shapes
    <2>. QED  BY <1>1, <1>3, <2>1 DEF Kept
  <1>7. RequestsOK'
    <2>1. ASSUME NEW c \in Clients, Served(c) /\ req'[c].at = "idle"
          PROVE  RequestsOK'
      BY <1>5, <1>6, <2>1, RequestsNext
    <2>2. CASE req' = req
      <3>1. ASSUME NEW d \in Clients
            PROVE  RequestOK(req[d])'
        <4>1. req[d] \in Request /\ RequestOK(req[d])
          BY <1>0 DEF IInv, Shapes, RequestsOK
        <4>2. PICK r \in Request : r = req[d]
          BY <4>1
        <4>3. Len(invite) \in Nat /\ Len(invite') \in Nat
          BY <1>0, <1>3 DEF Shapes
        <4>4. RequestOK(r)'
          BY <1>0, <1>6, <4>1, <4>2, <4>3, RequestKept
        <4>. QED  BY <2>2, <4>2, <4>4 DEF RequestOK, Sent
      <3>. QED  BY <3>1 DEF RequestsOK
    <2>. QED  BY <1>2, <2>1, <2>2
  <1>8. RowsOK'
    BY <1>1, <1>3, <1>4 DEF IInv, RowsOK, MembersOf, Admins, IsMember, MembersStay
  <1>9. OneOpen'
    <2>1. \A j \in Invite : Open(j)' => Open(j)
      <3>1. \A j \in Invite : invite[j] \in InviteRow /\ invite'[j] \in InviteRow
        BY <1>0, <1>3 DEF Shapes, Invite
      <3>. QED  BY <1>3, <3>1 DEF Open, InviteRow
    <2>. QED  BY <1>3, <1>4, <2>1 DEF IInv, OneOpen
  <1>10. InviteAdmitsOnce' /\ MembersWereInvited'
    <2>1. InviteAdmitsOnce'
      BY <1>1, <1>3, <1>4 DEF IInv, InviteAdmitsOnce
    <2>2. MembersWereInvited'
      BY <1>1, <1>3, <1>4 DEF IInv, MembersWereInvited, MembersOf, IsMember, MembersStay
    <2>. QED  BY <2>1, <2>2
  <1>11. NoNewcomers
    BY <1>2, ServedNewcomers DEF NoNewcomers
  <1>12. Founders' /\ Administrators'
    BY <1>1, <1>3, <1>4, <1>5, <1>11, FoundersStay, AdministratorsStay
  <1>. QED  BY <1>5, <1>7, <1>8, <1>9, <1>10, <1>12 DEF IInv, DistinctNames

\* Only the claims of a former administrator go.
LEMMA ClaimNext ==
    ASSUME IInv, NEW o \in Orgs, NEW u \in Users, ClaimExpires(o, u)
    PROVE  IInv'
  <1>0. Shapes /\ Len(invite) \in Nat
    BY DEF IInv, Shapes
  <1>1. /\ MembersStay /\ InvitesStay /\ raced' = raced
        /\ org' = org /\ user' = user /\ req' = req
    BY DEF ClaimExpires, MembersStay, InvitesStay
  <1>2. /\ claims' \in [Orgs -> SUBSET Users]
        /\ \A p \in Orgs : claims'[p] \subseteq claims[p] /\ Admins(p) \subseteq claims'[p]
    BY <1>0 DEF ClaimExpires, Shapes, IInv, RowsOK
  <1>3. Shapes'
    BY <1>0, <1>1, <1>2 DEF Shapes, MembersStay, InvitesStay
  <1>4. RequestsOK'
    BY <1>1 DEF IInv, RequestsOK, RequestOK, Sent, InvitesStay, Invite
  <1>5. (RowsOK /\ OneOpen /\ InviteAdmitsOnce /\ MembersWereInvited)'
    BY <1>1, <1>2, RowsStay
  <1>6. NoNewcomers
    BY <1>1 DEF NoNewcomers
  <1>7. Founders' /\ Administrators'
    <2>1. \A i \in Invite' : i \in Invite /\ invite'[i].org = invite[i].org
      BY <1>1 DEF InvitesStay, Invite
    <2>. QED  BY <1>1, <1>2, <1>3, <1>6, <2>1, FoundersStay, AdministratorsStay
  <1>. QED  BY <1>3, <1>4, <1>5, <1>7 DEF IInv, DistinctNames

LEMMA CountNext ==
    ASSUME IInv, NEW c \in Clients, CountOrganizationMembers(c)
    PROVE  IInv'
  <1>0. Shapes /\ Len(invite) \in Nat /\ req[c].org \in Orgs /\ req[c].at = "count"
    BY DEF IInv, Shapes, RequestsOK, RequestOK, CountOrganizationMembers
  <1>. DEFINE o == req[c].org
  <1>1. /\ MembersStay /\ InvitesStay /\ claims' = claims
        /\ org' = org /\ user' = user
    BY DEF CountOrganizationMembers, MembersStay, InvitesStay
  <1>2. Served(c)
    BY WriteServed
  <1>3. /\ raced' \in [Orgs -> SUBSET Races]
        /\ \A p \in Orgs : raced'[p] \subseteq raced[p] \union {"founders"}
                           /\ raced[p] \subseteq raced'[p]
    <2>. DEFINE Noted == [raced EXCEPT ![o] = raced[o] \union {"founders"}]
    <2>1. raced \in [Orgs -> SUBSET Races] /\ o \in Orgs /\ "founders" \in Races
      BY <1>0 DEF Shapes, Races
    <2>2. raced' = raced \/ raced' = Noted
      BY DEF CountOrganizationMembers
    <2>3. /\ Noted \in [Orgs -> SUBSET Races]
          /\ \A p \in Orgs : p # o => Noted[p] = raced[p]
          /\ Noted[o] = raced[o] \union {"founders"}
      <3>. HIDE DEF o
      <3>1. raced[o] \union {"founders"} \in SUBSET Races
        BY <2>1
      <3>. QED  BY <2>1, <3>1
    <2>. HIDE DEF o, Noted
    <2>. QED  BY <2>1, <2>2, <2>3
  <1>4. Shapes'
    BY <1>0, <1>1, <1>2, <1>3 DEF Shapes, Served, MembersStay, InvitesStay
  <1>5. RequestsOK'
    BY <1>0, <1>1, <1>2, <1>4, RequestsNext DEF Kept, InvitesStay
  <1>6. (RowsOK /\ OneOpen /\ InviteAdmitsOnce /\ MembersWereInvited)'
    BY <1>1, RowsStay DEF IInv, RowsOK
  <1>7. Founders'
    <2>. SUFFICES ASSUME NEW p \in Orgs, "founders" \notin raced'[p]
                  PROVE  /\ \A d, e \in Clients : Founding(d, p)' /\ Founding(e, p)' => d = e
                         /\ \A d \in Clients : Founding(d, p)' => \A u \in Users : ~Founded(p, u)'
                         /\ \A u, v \in Users : Founded(p, u)' /\ Founded(p, v)' => u = v
      BY DEF Founders
    <2>1. "founders" \notin raced[p]
      BY <1>3
    <2>2. \A u : Founded(p, u)' <=> Founded(p, u)
      BY <1>1 DEF Founded, IsMember, MembersStay
    <2>3. \A d \in Clients : d # c => (Founding(d, p)' <=> Founding(d, p))
      BY <1>2 DEF Founding, Served
    <2>4. ASSUME Founding(c, p)'
          PROVE  /\ p = o /\ MembersOf(o) = {}
                 /\ \A d \in Clients : ~Founding(d, p)
      <3>1. ~End(c)
        BY <1>0, <2>4, Ended DEF Founding
      <3>2. /\ MembersOf(o) = {}
            /\ raced' = IF \E d \in Clients : req[d].at = "found" /\ req[d].org = o
                        THEN [raced EXCEPT ![o] = @ \union {"founders"}] ELSE raced
        BY <3>1 DEF CountOrganizationMembers
      <3>3. p = o
        BY <1>2, <2>4 DEF Founding, Served
      <3>4. ~ \E d \in Clients : req[d].at = "found" /\ req[d].org = o
        BY <1>0, <3>2, <3>3 DEF Shapes
      <3>. QED  BY <3>2, <3>3, <3>4 DEF Founding
    <2>5. MembersOf(p) = {} => \A u \in Users : ~Founded(p, u)
      BY DEF Founded, MembersOf
    <2>. QED  BY <2>1, <2>2, <2>3, <2>4, <2>5 DEF IInv, Founders
  <1>8. Administrators'
    <2>. SUFFICES ASSUME NEW p \in Orgs, "admins" \notin raced'[p]
                  PROVE  /\ Begun(p)' => MembersOf(p)' # {}
                         /\ MembersOf(p)' # {} => Admins(p)' # {}
                         /\ \A d \in Clients : req'[d].at = "write" /\ req'[d].org = p /\ req'[d].clean
                                => \E a \in Admins(p)' : a # req'[d].user
      BY DEF Administrators
    <2>1. MembersOf(p)' = MembersOf(p) /\ Admins(p)' = Admins(p) /\ "admins" \notin raced[p]
      BY <1>1, <1>3 DEF MembersStay, MembersOf, Admins, IsMember
    <2>2. \A d \in Clients : req'[d].at \in {"invite", "lastadmin", "write"}
              => /\ req'[d].at = req[d].at /\ req'[d].org = req[d].org
                 /\ req'[d].user = req[d].user /\ (req'[d].clean => req[d].clean)
      BY <1>0, <1>2 DEF Served
    <2>3. Begun(p)' => Begun(p)
      BY <1>1, <2>2 DEF Begun, InvitesStay, Invite
    <2>. QED  BY <2>1, <2>2, <2>3 DEF IInv, Administrators
  <1>. QED  BY <1>4, <1>5, <1>6, <1>7, <1>8 DEF IInv, DistinctNames

\* A request that was served and is done.
Done(c) == Served(c) /\ req'[c].at = "idle"

\* A person who gets in leaves every administrator where they were.
LEMMA AdmittedAdministrators ==
    ASSUME IInv, NEW c \in Clients, Shapes', Done(c),
           NEW o \in Orgs, NEW u \in Users, NEW role \in UserRoles,
           ~IsMember(o, u), raced' = raced,
           ~IsAdmin(role) => Begun(o),
           \A p \in Orgs : \A v \in Users :
              members'[p][v] = IF p = o /\ v = u THEN role ELSE members[p][v],
           \A p \in Orgs :
              claims'[p] = IF p = o /\ IsAdmin(role) THEN claims[p] \union {u} ELSE claims[p],
           Invite' = Invite, \A i \in Invite : invite'[i].org = invite[i].org
    PROVE  Administrators'
  <1>. SUFFICES ASSUME NEW p \in Orgs, "admins" \notin raced[p]
                PROVE  /\ Begun(p)' => MembersOf(p)' # {}
                       /\ MembersOf(p)' # {} => Admins(p)' # {}
                       /\ \A d \in Clients : req'[d].at = "write" /\ req'[d].org = p /\ req'[d].clean
                              => \E a \in Admins(p)' : a # req'[d].user
    BY DEF Administrators
  <1>1. MembersOf(p) \subseteq MembersOf(p)'
    BY DEF MembersOf, IsMember, IInv, DistinctNames
  <1>2. Admins(p) \subseteq Admins(p)'
    BY DEF Admins, IInv, DistinctNames, IsMember, UserRoles
  <1>3. p = o => u \in MembersOf(p)' /\ (IsAdmin(role) => u \in Admins(p)')
    BY ZenonT(60) DEF MembersOf, IsMember, Admins, IInv, DistinctNames, IsAdmin
  <1>4. p # o => MembersOf(p)' = MembersOf(p) /\ Admins(p)' = Admins(p)
    BY DEF MembersOf, IsMember, Admins
  <1>5. \A d \in Clients : req'[d].at \in {"invite", "lastadmin", "write"}
            => /\ req'[d].at = req[d].at /\ req'[d].org = req[d].org
               /\ req'[d].user = req[d].user /\ (req'[d].clean => req[d].clean)
    BY DEF Served, Done
  <1>6. Begun(p)' => MembersOf(p)' # {}
    <2>1. CASE p = o
      BY <1>3, <2>1
    <2>2. CASE p # o
      <3>1. Begun(p)' => Begun(p)
        BY <1>5, <2>2 DEF Begun
      <3>. QED  BY <1>4, <2>2, <3>1 DEF IInv, Administrators
    <2>. QED  BY <2>1, <2>2
  <1>7. MembersOf(p)' # {} => Admins(p)' # {}
    <2>1. CASE p = o /\ IsAdmin(role)
      BY <1>3, <2>1
    <2>2. CASE p = o /\ ~IsAdmin(role)
      BY <1>2, <2>2 DEF IInv, Administrators
    <2>3. CASE p # o
      BY <1>4, <2>3 DEF IInv, Administrators
    <2>. QED  BY <2>1, <2>2, <2>3
  <1>8. ASSUME NEW d \in Clients, req'[d].at = "write", req'[d].org = p, req'[d].clean
        PROVE  \E a \in Admins(p)' : a # req'[d].user
    BY <1>2, <1>5, <1>8 DEF IInv, Administrators
  <1>. QED  BY <1>6, <1>7, <1>8

LEMMA FounderNext ==
    ASSUME IInv, NEW c \in Clients, CreateFounder(c)
    PROVE  IInv'
  <1>0. /\ Shapes /\ Len(invite) \in Nat /\ req[c].at = "found"
        /\ req[c].org \in Orgs /\ req[c].user \in Users
        /\ req[c].org \in org /\ req[c].user \in user
    BY DEF IInv, Shapes, RequestsOK, RequestOK, CreateFounder, Known, Placed
  <1>9. PICK o \in Orgs, u \in Users : o = req[c].org /\ u = req[c].user
    BY <1>0
  <1>1. /\ InvitesStay /\ raced' = raced /\ org' = org /\ user' = user /\ End(c)
    BY DEF CreateFounder, InvitesStay
  <1>2. Served(c) /\ req'[c].at = "idle"
    BY <1>0, <1>1, Ended, EndServed
  <1>3. CASE IsMember(o, u)
    <2>1. MembersStay /\ claims' = claims
      BY <1>3, <1>9 DEF CreateFounder, MembersStay
    <2>2. Shapes'
      BY <1>0, <1>1, <1>2, <2>1 DEF Shapes, Served, MembersStay, InvitesStay
    <2>3. RequestsOK'
      BY <1>0, <1>1, <1>2, <2>2, RequestsNext DEF Kept, InvitesStay
    <2>4. (RowsOK /\ OneOpen /\ InviteAdmitsOnce /\ MembersWereInvited)'
      BY <1>1, <2>1, RowsStay DEF IInv, RowsOK
    <2>5. NoNewcomers
      BY <1>2, ServedNewcomers
    <2>6. Founders' /\ Administrators'
      <3>1. \A i \in Invite' : i \in Invite /\ invite'[i].org = invite[i].org
        BY <1>1 DEF InvitesStay, Invite
      <3>. QED  BY <1>1, <2>1, <2>2, <2>5, <3>1, FoundersStay, AdministratorsStay
    <2>. QED  BY <2>2, <2>3, <2>4, <2>6 DEF IInv, DistinctNames
  <1>4. CASE ~IsMember(o, u)
    <2>2. PICK role \in UserRoles, how \in Hows : IsAdmin(role) /\ how = "founder"
      BY DEF UserRoles, Hows, IsAdmin
    <2>1. InsertMember(o, u, role, how)
      BY <1>4, <1>9, <2>2 DEF CreateFounder, IsAdmin
    <2>3. /\ members' \in [Orgs -> [Users -> Roles]]
          /\ admission' \in [Orgs -> [Users -> Hows]]
          /\ claims' \in [Orgs -> SUBSET Users]
          /\ \A p \in Orgs : \A v \in Users :
                /\ members'[p][v] = IF p = o /\ v = u THEN role ELSE members[p][v]
                /\ admission'[p][v] = IF p = o /\ v = u THEN how ELSE admission[p][v]
          /\ \A p \in Orgs :
                claims'[p] = IF p = o /\ IsAdmin(role) THEN claims[p] \union {u} ELSE claims[p]
      <3>1. Shapes /\ o \in Orgs /\ u \in Users /\ role \in UserRoles /\ how \in Hows
        BY <1>0, <1>9, <2>2
      <3>. QED  BY <2>1, <3>1, MemberInserted, ZenonT(60)
    <2>4. Shapes'
      BY <1>0, <1>1, <1>2, <2>3 DEF Shapes, Served, InvitesStay
    <2>5. RequestsOK'
      BY <1>0, <1>1, <1>2, <2>4, RequestsNext DEF Kept, InvitesStay
    <2>6. o \in org /\ u \in user /\ o \in Orgs /\ u \in Users
      BY <1>0, <1>9
    <2>7. RowsOK'
      <3>1. Invite' = Invite
        BY <1>1 DEF InvitesStay, Invite
      <3>2. \A i \in Invite' : invite'[i].org \in org'
        BY <1>1, <3>1 DEF IInv, RowsOK, InvitesStay
      <3>3. ASSUME NEW p \in Orgs
            PROVE  /\ MembersOf(p)' \subseteq user'
                   /\ MembersOf(p)' # {} => p \in org'
                   /\ claims'[p] # {} => p \in org'
                   /\ Admins(p)' \subseteq claims'[p]
                   /\ \A v \in Users : admission'[p][v] = "none" <=> ~IsMember(p, v)'
        <4>1. /\ MembersOf(p) \subseteq user
              /\ MembersOf(p) # {} => p \in org
              /\ claims[p] # {} => p \in org
              /\ Admins(p) \subseteq claims[p]
              /\ \A x \in Users : admission[p][x] = "none" <=> ~IsMember(p, x)
          BY DEF IInv, RowsOK
        <4>2. role # Outsider
          BY <1>9, <2>2 DEF IInv, DistinctNames
        <4>3. MembersOf(p)' = MembersOf(p) \union (IF p = o THEN {u} ELSE {})
          <5>1. \A x \in Users : IsMember(p, x)' <=> IsMember(p, x) \/ (p = o /\ x = u)
            BY <2>3, <4>2 DEF IsMember
          <5>2. u \in Users
            BY <2>6
          <5>. QED  BY <5>1, <5>2 DEF MembersOf
        <4>4. Admins(p)' \subseteq Admins(p) \union (IF p = o /\ IsAdmin(role) THEN {u} ELSE {})
          BY <2>3, <2>6 DEF Admins, IsAdmin
        <4>5. \A x \in Users : admission'[p][x] = "none" <=> ~IsMember(p, x)'
          BY <2>2, <2>3, <2>6, <4>1, <4>2 DEF IsMember
        <4>6. claims'[p] = IF p = o /\ IsAdmin(role) THEN claims[p] \union {u} ELSE claims[p]
          BY <2>3
        <4>. QED  BY <1>1, <2>6, <4>1, <4>3, <4>4, <4>5, <4>6
      <3>. QED  BY <3>2, <3>3 DEF RowsOK
    <2>8. OneOpen' /\ InviteAdmitsOnce'
      BY <1>1 DEF IInv, OneOpen, Open, InviteAdmitsOnce, InvitesStay, Invite
    <2>9. MembersWereInvited'
      BY <1>1, <2>2, <2>3, <2>6 DEF IInv, MembersWereInvited, InvitesStay, Invite, MembersOf, IsMember
    <2>10. Founders'
      <3>. SUFFICES ASSUME NEW p \in Orgs, "founders" \notin raced[p]
                    PROVE  /\ \A d, e \in Clients : Founding(d, p)' /\ Founding(e, p)' => d = e
                           /\ \A d \in Clients : Founding(d, p)' => \A v \in Users : ~Founded(p, v)'
                           /\ \A v, w \in Users : Founded(p, v)' /\ Founded(p, w)' => v = w
        BY <1>1 DEF Founders
      <3>1. \A d \in Clients : Founding(d, p)' => d # c /\ Founding(d, p)
        BY <1>2 DEF Founding, Served
      <3>2. CASE p # o
        <4>1. \A v \in Users : Founded(p, v)' <=> Founded(p, v)
          BY <2>3, <3>2 DEF Founded, IsMember
        <4>. QED  BY <3>1, <4>1 DEF IInv, Founders
      <3>3. CASE p = o
        <4>1. Founding(c, p)
          BY <1>0, <1>9, <3>3 DEF Founding
        <4>2. \A d \in Clients : ~Founding(d, p)'
          BY <3>1, <4>1 DEF IInv, Founders
        <4>3. \A v \in Users : Founded(p, v)' => v = u
          BY <2>3, <4>1 DEF IInv, Founders, Founded, IsMember
        <4>. QED  BY <4>2, <4>3
      <3>. QED  BY <3>2, <3>3
    <2>11. Administrators'
      <3>1. Invite' = Invite /\ \A i \in Invite : invite'[i].org = invite[i].org
        BY <1>1 DEF InvitesStay, Invite
      <3>2. ~IsMember(o, u)
        BY <1>4
      <3>3. /\ role \in UserRoles /\ raced' = raced /\ IsAdmin(role) /\ o \in Orgs /\ u \in Users
        BY <1>1, <2>2, <2>6
      <3>4. Done(c) /\ (~IsAdmin(role) => Begun(o))
        BY <1>2, <3>3 DEF Done
      <3>. QED  BY <2>3, <2>4, <3>1, <3>2, <3>3, <3>4, AdmittedAdministrators
    <2>. QED  BY <2>4, <2>5, <2>7, <2>8, <2>9, <2>10, <2>11 DEF IInv, DistinctNames
  <1>. QED  BY <1>3, <1>4

LEMMA AcceptNext ==
    ASSUME IInv, NEW c \in Clients, AcceptOrganizationInvite(c)
    PROVE  IInv'
  <1>0. /\ Shapes /\ Len(invite) \in Nat /\ req[c].at = "accept"
        /\ req[c].org \in Orgs /\ req[c].user \in Users /\ req[c].inv \in Invite
        /\ req[c].org \in org /\ req[c].user \in user /\ Sent(req[c])
    BY DEF IInv, Shapes, RequestsOK, RequestOK, AcceptOrganizationInvite, Known, Placed
  <1>8. req[c].role \in UserRoles
    <2>1. invite[req[c].inv] \in InviteRow
      BY <1>0 DEF Shapes, Invite
    <2>. QED  BY <1>0, <2>1 DEF InviteRow, Sent
  <1>9. PICK o \in Orgs, u \in Users, i \in Invite, role \in UserRoles :
           o = req[c].org /\ u = req[c].user /\ i = req[c].inv /\ role = req[c].role
    BY <1>0, <1>8
  <1>1. raced' = raced /\ org' = org /\ user' = user /\ End(c)
    BY DEF AcceptOrganizationInvite
  <1>2. Served(c) /\ req'[c].at = "idle"
    BY <1>0, <1>1, Ended, EndServed
  <1>3. CASE ~(IsRedeemable(i) /\ ~IsMember(o, u))
    <2>1. MembersStay /\ InvitesStay /\ claims' = claims
      BY <1>3, <1>9 DEF AcceptOrganizationInvite, MembersStay, InvitesStay
    <2>2. Shapes'
      BY <1>0, <1>1, <1>2, <2>1 DEF Shapes, Served, MembersStay, InvitesStay
    <2>3. RequestsOK'
      BY <1>0, <1>1, <1>2, <2>1, <2>2, RequestsNext DEF Kept, InvitesStay
    <2>4. (RowsOK /\ OneOpen /\ InviteAdmitsOnce /\ MembersWereInvited)'
      BY <1>1, <2>1, RowsStay DEF IInv, RowsOK
    <2>5. NoNewcomers
      BY <1>2, ServedNewcomers
    <2>6. Founders' /\ Administrators'
      <3>1. \A j \in Invite' : j \in Invite /\ invite'[j].org = invite[j].org
        BY <2>1 DEF InvitesStay, Invite
      <3>. QED  BY <1>1, <2>1, <2>2, <2>5, <3>1, FoundersStay, AdministratorsStay
    <2>. QED  BY <2>2, <2>3, <2>4, <2>6 DEF IInv, DistinctNames
  <1>4. CASE IsRedeemable(i) /\ ~IsMember(o, u)
    <2>1. /\ InsertMember(o, u, role, "invite")
          /\ invite' = [invite EXCEPT ![i].acceptedBy = u]
          /\ spent' = [spent EXCEPT ![i] = @ + 1]
      BY <1>4, <1>9 DEF AcceptOrganizationInvite
    <2>2. "invite" \in Hows
      BY DEF Hows
    <2>3. /\ members' \in [Orgs -> [Users -> Roles]]
          /\ admission' \in [Orgs -> [Users -> Hows]]
          /\ claims' \in [Orgs -> SUBSET Users]
          /\ \A p \in Orgs : \A v \in Users :
                /\ members'[p][v] = IF p = o /\ v = u THEN role ELSE members[p][v]
                /\ admission'[p][v] = IF p = o /\ v = u THEN "invite" ELSE admission[p][v]
          /\ \A p \in Orgs :
                claims'[p] = IF p = o /\ IsAdmin(role) THEN claims[p] \union {u} ELSE claims[p]
      <3>1. Shapes /\ o \in Orgs /\ u \in Users /\ role \in UserRoles /\ "invite" \in Hows
        BY <1>0, <1>9, <2>2
      <3>. QED  BY <2>1, <3>1, MemberInserted, ZenonT(60)
    <2>5. /\ invite' \in Seq(InviteRow)
          /\ spent' \in Seq(Nat)
          /\ Len(invite') = Len(invite)
          /\ Len(spent') = Len(spent)
          /\ \A k \in Invite :
                /\ invite'[k].org = invite[k].org
                /\ invite'[k].email = invite[k].email
                /\ invite'[k].role = invite[k].role
                /\ invite'[k].acceptedBy = IF k = i THEN u ELSE invite[k].acceptedBy
                /\ invite'[k].revoked = invite[k].revoked
                /\ spent'[k] = IF k = i THEN spent[k] + 1 ELSE spent[k]
      BY <1>0, <1>4, <1>9, <2>1, InviteSpent
    <2>6. /\ o \in org /\ u \in user /\ o \in Orgs /\ u \in Users /\ Somebody(u)
          /\ invite[i].org = o /\ invite[i].email = u /\ i \in Invite
          /\ invite[i].acceptedBy = ""
      BY <1>0, <1>4, <1>9 DEF Sent, IInv, DistinctNames, IsRedeemable, Somebody
    <2>7. Shapes'
      BY <1>0, <1>1, <1>2, <2>3, <2>5 DEF Shapes, Served
    <2>8. Kept /\ Invite' = Invite
      BY <1>0, <1>1, <2>5 DEF Kept, Invite
    <2>9. RequestsOK'
      BY <1>0, <1>1, <1>2, <2>7, <2>8, RequestsNext
    <2>10. RowsOK'
      <3>1. \A k \in Invite' : invite'[k].org \in org'
        BY <1>1, <2>5, <2>8 DEF IInv, RowsOK
      <3>2. ASSUME NEW p \in Orgs
            PROVE  /\ MembersOf(p)' \subseteq user'
                   /\ MembersOf(p)' # {} => p \in org'
                   /\ claims'[p] # {} => p \in org'
                   /\ Admins(p)' \subseteq claims'[p]
                   /\ \A w \in Users : admission'[p][w] = "none" <=> ~IsMember(p, w)'
        <4>1. /\ MembersOf(p) \subseteq user
              /\ MembersOf(p) # {} => p \in org
              /\ claims[p] # {} => p \in org
              /\ Admins(p) \subseteq claims[p]
              /\ \A x \in Users : admission[p][x] = "none" <=> ~IsMember(p, x)
          BY DEF IInv, RowsOK
        <4>2. role # Outsider
          BY <1>9, <2>2 DEF IInv, DistinctNames
        <4>3. MembersOf(p)' = MembersOf(p) \union (IF p = o THEN {u} ELSE {})
          <5>1. \A x \in Users : IsMember(p, x)' <=> IsMember(p, x) \/ (p = o /\ x = u)
            BY <2>3, <4>2 DEF IsMember
          <5>2. u \in Users
            BY <2>6
          <5>. QED  BY <5>1, <5>2 DEF MembersOf
        <4>4. Admins(p)' \subseteq Admins(p) \union (IF p = o /\ IsAdmin(role) THEN {u} ELSE {})
          BY <2>3, <2>6, ZenonT(60) DEF Admins, IsAdmin
        <4>5. \A x \in Users : admission'[p][x] = "none" <=> ~IsMember(p, x)'
          BY <2>2, <2>3, <2>6, <4>1, <4>2, ZenonT(60) DEF IsMember
        <4>6. claims'[p] = IF p = o /\ IsAdmin(role) THEN claims[p] \union {u} ELSE claims[p]
          BY <2>3
        <4>. QED  BY <1>1, <2>6, <4>1, <4>3, <4>4, <4>5, <4>6
      <3>. QED  BY <3>1, <3>2 DEF RowsOK
    <2>11. OneOpen'
      <3>1. \A k \in Invite : Open(k)' => Open(k)
        BY <2>5, <2>6 DEF Open, Somebody
      <3>. QED  BY <2>5, <2>8, <3>1 DEF IInv, OneOpen
    <2>12. InviteAdmitsOnce'
      <3>1. ASSUME NEW k \in Invite
            PROVE  /\ spent'[k] <= 1
                   /\ spent'[k] = 1 <=> invite'[k].acceptedBy # ""
                   /\ invite'[k].acceptedBy \in {"", invite'[k].email}
        <4>1. CASE k # i
          BY <2>5, <4>1 DEF IInv, InviteAdmitsOnce
        <4>2. CASE k = i
          <5>3. i \in Invite
            BY <2>6
          <5>1. spent[i] \in Nat
            <6>1. spent \in Seq(Nat) /\ Len(spent) = Len(invite)
              BY <1>0 DEF Shapes
            <6>. QED  BY <5>3, <6>1 DEF Invite
          <5>2. /\ spent[i] <= 1
                /\ spent[i] = 1 <=> invite[i].acceptedBy # ""
            BY <5>3 DEF IInv, InviteAdmitsOnce
          <5>6. spent[i] <= 1 /\ spent[i] # 1
            BY <2>6, <5>2, Zenon
          <5>4. spent[i] = 0
            BY <5>1, <5>6
          <5>5. /\ spent'[k] = spent[i] + 1 /\ invite'[k].acceptedBy = u
                /\ invite'[k].email = u
            BY <2>5, <2>6, <4>2
          <5>7. spent'[k] = 1
            BY <5>4, <5>5
          <5>8. u # ""
            BY <2>6 DEF Somebody
          <5>9. invite'[k].acceptedBy # "" /\ invite'[k].acceptedBy = invite'[k].email
            BY <5>5, <5>8, Zenon
          <5>10. spent'[k] <= 1
            BY <5>7
          <5>. QED  BY <5>7, <5>9, <5>10, Zenon
        <4>. QED  BY <4>1, <4>2
      <3>. QED  BY <2>8, <3>1 DEF InviteAdmitsOnce
    <2>13. MembersWereInvited'
      <3>. SUFFICES ASSUME NEW p \in Orgs, NEW w \in MembersOf(p)'
                    PROVE  \/ admission'[p][w] = "founder"
                           \/ \E k \in Invite : invite'[k].org = p /\ invite'[k].acceptedBy = w
        BY <2>8 DEF MembersWereInvited
      <3>1. CASE p = o /\ w = u
        BY <2>5, <2>6, <3>1
      <3>2. CASE ~(p = o /\ w = u)
        <4>1. w \in MembersOf(p) /\ admission'[p][w] = admission[p][w] /\ w \in Users
          BY <2>3, <3>2 DEF MembersOf, IsMember
        <4>2. CASE admission[p][w] = "founder"
          BY <4>1, <4>2
        <4>3. CASE \E k \in Invite : invite[k].org = p /\ invite[k].acceptedBy = w
          <5>1. PICK k \in Invite : invite[k].org = p /\ invite[k].acceptedBy = w
            BY <4>3
          <5>2. k # i
            BY <2>6, <4>1, <5>1 DEF IInv, DistinctNames, Somebody
          <5>. QED  BY <2>5, <5>1, <5>2
        <4>. QED  BY <4>1, <4>2, <4>3 DEF IInv, MembersWereInvited
      <3>. QED  BY <3>1, <3>2
    <2>14. Founders'
      <3>1. \A d \in Clients : \A p : Founding(d, p)' => Founding(d, p)
        BY <1>2 DEF Founding, Served
      <3>2. \A p \in Orgs : \A w \in Users : Founded(p, w)' => Founded(p, w)
        BY <2>3, <2>6, ZenonT(60) DEF Founded, IsMember
      <3>. QED  BY <1>1, <3>1, <3>2 DEF IInv, Founders
    <2>15. Administrators'
      <3>1. \A k \in Invite : invite'[k].org = invite[k].org
        BY <2>5
      <3>2. ~IsMember(o, u) /\ Begun(o)
        BY <1>4, <2>6 DEF Begun
      <3>3. role \in UserRoles /\ raced' = raced /\ o \in Orgs /\ u \in Users
        BY <1>1, <1>9, <2>6
      <3>4. Done(c) /\ Invite' = Invite
        BY <1>2, <2>8 DEF Done
      <3>. QED  BY <2>3, <2>7, <3>1, <3>2, <3>3, <3>4, AdmittedAdministrators
    <2>. QED  BY <2>7, <2>9, <2>10, <2>11, <2>12, <2>13, <2>14, <2>15 DEF IInv, DistinctNames
  <1>. QED  BY <1>3, <1>4

LEMMA InvitationNext ==
    ASSUME IInv, NEW c \in Clients, CreateOrganizationInvite(c)
    PROVE  IInv'
  <1>0. /\ Shapes /\ Len(invite) \in Nat /\ req[c].at = "invite"
        /\ req[c].org \in Orgs /\ req[c].user \in Users /\ req[c].org \in org
        /\ req[c].role \in UserRoles
    <2>1. Shapes /\ RequestOK(req[c]) /\ req[c].at = "invite"
      BY DEF IInv, RequestsOK, CreateOrganizationInvite
    <2>2. Len(invite) \in Nat
      BY <2>1 DEF Shapes
    <2>. QED  BY <2>1, <2>2 DEF RequestOK, Placed
  <1>9. PICK o \in Orgs, u \in Users, role \in UserRoles :
           o = req[c].org /\ u = req[c].user /\ role = req[c].role
    BY <1>0
  <1>1. /\ MembersStay /\ claims' = claims /\ raced' = raced
        /\ org' = org /\ user' = user /\ End(c)
    BY DEF CreateOrganizationInvite, MembersStay
  <1>2. Served(c) /\ req'[c].at = "idle"
    BY <1>0, <1>1, Ended, EndServed
  <1>3. NoNewcomers
    BY <1>2, ServedNewcomers
  <1>. DEFINE Taken == \E i \in Invite : /\ invite[i].org = o /\ invite[i].email = u
                                         /\ Open(i)
  <1>4. CASE Taken
    <2>1. InvitesStay
      BY <1>4, <1>9 DEF CreateOrganizationInvite, InvitesStay, Open
    <2>2. Shapes'
      BY <1>0, <1>1, <1>2, <2>1 DEF Shapes, Served, MembersStay, InvitesStay
    <2>3. RequestsOK'
      BY <1>0, <1>1, <1>2, <2>1, <2>2, RequestsNext DEF Kept, InvitesStay
    <2>4. (RowsOK /\ OneOpen /\ InviteAdmitsOnce /\ MembersWereInvited)'
      BY <1>1, <2>1, RowsStay DEF IInv, RowsOK
    <2>5. Founders' /\ Administrators'
      <3>1. \A j \in Invite' : j \in Invite /\ invite'[j].org = invite[j].org
        BY <2>1 DEF InvitesStay, Invite
      <3>. QED  BY <1>1, <1>3, <2>2, <3>1, FoundersStay, AdministratorsStay
    <2>. QED  BY <2>2, <2>3, <2>4, <2>5 DEF IInv, DistinctNames
  <1>5. CASE ~Taken
    <2>. DEFINE new == [org |-> o, email |-> u, role |-> role,
                        acceptedBy |-> "", revoked |-> FALSE, expired |-> FALSE]
    <2>1. invite' = Append(invite, new) /\ spent' = Append(spent, 0)
      BY <1>5, <1>9 DEF CreateOrganizationInvite, Open
    <2>2. /\ new \in InviteRow /\ new.org = o /\ new.email = u /\ new.acceptedBy = ""
      BY <1>9 DEF InviteRow
    <2>. HIDE DEF new
    <2>3. PICK row \in InviteRow :
             /\ invite' = Append(invite, row) /\ spent' = Append(spent, 0)
             /\ row.org = o /\ row.email = u /\ row.acceptedBy = ""
      BY <2>1, <2>2
    <2>4. /\ invite' \in Seq(InviteRow)
          /\ spent' \in Seq(Nat)
          /\ Len(invite') = Len(invite) + 1
          /\ Len(spent') = Len(invite')
          /\ invite'[Len(invite')] = row
          /\ spent'[Len(invite')] = 0
          /\ \A j \in Invite : invite'[j] = invite[j] /\ spent'[j] = spent[j]
      BY <1>0, <2>3, InviteCreated
    <2>5. PICK n \in Nat : n = Len(invite')
      BY <1>0, <2>4
    <2>6. Invite' = Invite \union {n} /\ n \notin Invite /\ invite'[n] = row /\ spent'[n] = 0
      BY <1>0, <2>4, <2>5 DEF Invite
    <2>7. Shapes'
      BY <1>0, <1>1, <1>2, <2>4 DEF Shapes, Served, MembersStay
    <2>8. RequestsOK'
      <3>1. Kept
        BY <1>0, <1>1, <2>4 DEF Kept
      <3>. QED  BY <1>0, <1>1, <1>2, <2>7, <3>1, RequestsNext
    <2>9. RowsOK'
      <3>1. o \in org
        BY <1>0, <1>9
      <3>2. \A j \in Invite' : invite'[j].org \in org'
        BY <1>1, <2>3, <2>4, <2>6, <3>1 DEF IInv, RowsOK
      <3>. QED  BY <1>1, <3>2 DEF IInv, RowsOK, MembersOf, Admins, IsMember, MembersStay
    <2>10. OneOpen'
      <3>. SUFFICES ASSUME NEW i \in Invite', NEW j \in Invite',
                           invite'[i].org = invite'[j].org,
                           invite'[i].email = invite'[j].email,
                           Open(i)', Open(j)'
                    PROVE  i = j
        BY DEF OneOpen
      <3>1. \A k \in Invite : Open(k)' => Open(k)
        BY <2>4 DEF Open
      <3>2. CASE i \in Invite /\ j \in Invite
        BY <2>4, <3>1, <3>2 DEF IInv, OneOpen
      <3>3. CASE i = n /\ j = n
        BY <3>3
      <3>4. CASE i \in Invite /\ j = n
        <4>1. invite[i].org = o /\ invite[i].email = u /\ Open(i)
          BY <2>3, <2>4, <2>6, <3>1, <3>4
        <4>. QED  BY <1>5, <3>4, <4>1
      <3>5. CASE i = n /\ j \in Invite
        <4>1. invite[j].org = o /\ invite[j].email = u /\ Open(j)
          BY <2>3, <2>4, <2>6, <3>1, <3>5
        <4>. QED  BY <1>5, <3>5, <4>1
      <3>. QED  BY <2>6, <3>2, <3>3, <3>4, <3>5
    <2>11. InviteAdmitsOnce'
      <3>1. ASSUME NEW k \in Invite
            PROVE  /\ spent'[k] <= 1
                   /\ spent'[k] = 1 <=> invite'[k].acceptedBy # ""
                   /\ invite'[k].acceptedBy \in {"", invite'[k].email}
        BY <2>4 DEF IInv, InviteAdmitsOnce
      <3>2. invite'[n].acceptedBy = ""
        BY <2>3, <2>6
      <3>5. spent'[n] = 0
        BY <2>6
      <3>3. /\ spent'[n] <= 1
            /\ spent'[n] = 1 <=> invite'[n].acceptedBy # ""
            /\ invite'[n].acceptedBy \in {"", invite'[n].email}
        <4>1. spent'[n] <= 1 /\ spent'[n] # 1
          BY <3>5
        <4>. QED  BY <3>2, <4>1, Zenon
      <3>4. \A k \in Invite' : k \in Invite \/ k = n
        BY <2>6
      <3>. QED  BY <3>1, <3>3, <3>4, Zenon DEF InviteAdmitsOnce
    <2>12. MembersWereInvited'
      <3>1. Invite \subseteq Invite' /\ \A j \in Invite : invite'[j] = invite[j]
        BY <2>4, <2>6
      <3>. QED  BY <1>1, <3>1 DEF IInv, MembersWereInvited, MembersOf, IsMember, MembersStay
    <2>13. Founders' /\ Administrators'
      <3>1. Begun(o)
        BY <1>0, <1>9 DEF Begun
      <3>2. \A j \in Invite' : \/ j \in Invite /\ invite'[j].org = invite[j].org
                               \/ Begun(invite'[j].org)
        BY <2>3, <2>4, <2>6, <3>1
      <3>. QED  BY <1>1, <1>3, <2>7, <3>2, FoundersStay, AdministratorsStay
    <2>. QED  BY <2>7, <2>8, <2>9, <2>10, <2>11, <2>12, <2>13 DEF IInv, DistinctNames
  <1>. QED  BY <1>4, <1>5

LEMMA WriteNext ==
    ASSUME IInv, NEW c \in Clients, WriteMember(c)
    PROVE  IInv'
  <1>0. /\ Shapes /\ Len(invite) \in Nat /\ req[c].at = "write"
        /\ req[c].org \in Orgs /\ req[c].user \in Users /\ req[c].org \in org
        /\ req[c].target \in Roles /\ Outsider \notin UserRoles
    <2>1. Shapes /\ RequestOK(req[c]) /\ req[c].at = "write" /\ Outsider \notin UserRoles
      BY DEF IInv, RequestsOK, WriteMember, DistinctNames
    <2>2. Len(invite) \in Nat /\ req[c] \in Request
      BY <2>1 DEF Shapes
    <2>. QED  BY <2>1, <2>2 DEF RequestOK, Placed, Request
  <1>9. PICK o \in Orgs, u \in Users, role \in Roles :
           o = req[c].org /\ u = req[c].user /\ role = req[c].target
    BY <1>0
  <1>1. InvitesStay /\ org' = org /\ user' = user
    BY DEF WriteMember, InvitesStay
  <1>2. Served(c)
    BY WriteServed
  <1>3. CASE ~IsMember(o, u)
    <2>1. MembersStay /\ claims' = claims /\ raced' = raced /\ End(c)
      BY <1>3, <1>9 DEF WriteMember, MembersStay
    <2>2. Shapes'
      BY <1>0, <1>1, <1>2, <2>1 DEF Shapes, Served, MembersStay, InvitesStay
    <2>3. RequestsOK'
      BY <1>0, <1>1, <1>2, <2>2, RequestsNext DEF Kept, InvitesStay
    <2>4. (RowsOK /\ OneOpen /\ InviteAdmitsOnce /\ MembersWereInvited)'
      BY <1>1, <2>1, RowsStay DEF IInv, RowsOK
    <2>5. NoNewcomers
      BY <1>0, <1>2, <2>1, Ended, ServedNewcomers
    <2>6. Founders' /\ Administrators'
      <3>1. \A j \in Invite' : j \in Invite /\ invite'[j].org = invite[j].org
        BY <1>1 DEF InvitesStay, Invite
      <3>. QED  BY <2>1, <2>2, <2>5, <3>1, FoundersStay, AdministratorsStay
    <2>. QED  BY <2>2, <2>3, <2>4, <2>6 DEF IInv, DistinctNames
  <1>4. CASE IsMember(o, u)
    <2>1. /\ members' \in [Orgs -> [Users -> Roles]]
          /\ admission' \in [Orgs -> [Users -> Hows]]
          /\ claims' \in [Orgs -> SUBSET Users]
          /\ \A p \in Orgs : \A v \in Users :
                /\ members'[p][v] = IF p = o /\ v = u THEN role ELSE members[p][v]
                /\ admission'[p][v] = IF p = o /\ v = u /\ role = Outsider
                                      THEN "none" ELSE admission[p][v]
          /\ \A p \in Orgs :
                claims'[p] = IF p = o /\ IsAdmin(role) THEN claims[p] \union {u} ELSE claims[p]
      <3>1. IsMember(req[c].org, req[c].user)
        BY <1>4, <1>9
      <3>2. /\ members' \in [Orgs -> [Users -> Roles]]
            /\ admission' \in [Orgs -> [Users -> Hows]]
            /\ claims' \in [Orgs -> SUBSET Users]
            /\ req[c].target \in Roles
            /\ \A p \in Orgs : \A v \in Users :
                  /\ members'[p][v] = IF p = req[c].org /\ v = req[c].user
                                     THEN req[c].target ELSE members[p][v]
                  /\ admission'[p][v] = IF p = req[c].org /\ v = req[c].user
                                           /\ req[c].target = Outsider
                                        THEN "none" ELSE admission[p][v]
            /\ \A p \in Orgs :
                  claims'[p] = IF p = req[c].org /\ req[c].target = "admin"
                               THEN claims[p] \union {req[c].user} ELSE claims[p]
        BY <1>0, <3>1, MemberWritten
      <3>. QED  BY <1>9, <3>2 DEF IsAdmin
    <2>2. /\ NoteRace(c, o)
          /\ raced' = IF req[c].clean THEN raced ELSE [raced EXCEPT ![o] = @ \union {"admins"}]
      BY <1>4, <1>9 DEF WriteMember
    <2>3. /\ raced' \in [Orgs -> SUBSET Races]
          /\ \A p \in Orgs : /\ raced[p] \subseteq raced'[p]
                             /\ "founders" \in raced'[p] => "founders" \in raced[p]
                             /\ p = o /\ ~req[c].clean => "admins" \in raced'[p]
      BY <1>0, <2>2 DEF Shapes, Races
    <2>4. Shapes'
      BY <1>0, <1>1, <1>2, <2>1, <2>3 DEF Shapes, Served, InvitesStay
    <2>5. RequestsOK'
      BY <1>0, <1>1, <1>2, <2>4, RequestsNext DEF Kept, InvitesStay
    <2>6. OneOpen' /\ InviteAdmitsOnce'
      BY <1>1 DEF IInv, OneOpen, Open, InviteAdmitsOnce, InvitesStay, Invite
    <2>7. \A p \in Orgs : MembersOf(p)' \subseteq MembersOf(p)
      BY <1>4, <2>1 DEF MembersOf, IsMember
    <2>8. \A p \in Orgs : \A v \in MembersOf(p)' : admission'[p][v] = admission[p][v]
      BY <2>1 DEF MembersOf, IsMember
    <2>9. RowsOK'
      <3>1. \A j \in Invite' : invite'[j].org \in org'
        BY <1>1 DEF IInv, RowsOK, InvitesStay, Invite
      <3>2. ASSUME NEW p \in Orgs
            PROVE  /\ MembersOf(p)' \subseteq user'
                   /\ MembersOf(p)' # {} => p \in org'
                   /\ claims'[p] # {} => p \in org'
                   /\ Admins(p)' \subseteq claims'[p]
                   /\ \A v \in Users : admission'[p][v] = "none" <=> ~IsMember(p, v)'
        <4>1. /\ MembersOf(p) \subseteq user
              /\ MembersOf(p) # {} => p \in org
              /\ claims[p] # {} => p \in org
              /\ Admins(p) \subseteq claims[p]
              /\ \A x \in Users : admission[p][x] = "none" <=> ~IsMember(p, x)
          BY DEF IInv, RowsOK
        <4>2. o \in org
          BY <1>0, <1>9
        <4>3. Admins(p)' \subseteq Admins(p) \union (IF p = o /\ IsAdmin(role) THEN {u} ELSE {})
          BY <2>1 DEF Admins, IsAdmin
        <4>4. \A x \in Users : admission'[p][x] = "none" <=> ~IsMember(p, x)'
          BY <1>4, <2>1, <4>1 DEF IsMember
        <4>5. claims'[p] = IF p = o /\ IsAdmin(role) THEN claims[p] \union {u} ELSE claims[p]
          BY <2>1
        <4>6. MembersOf(p)' \subseteq MembersOf(p)
          BY <2>7
        <4>. QED  BY <1>1, <4>1, <4>2, <4>3, <4>4, <4>5, <4>6
      <3>. QED  BY <3>1, <3>2 DEF RowsOK
    <2>10. MembersWereInvited'
      <3>1. Invite' = Invite /\ invite' = invite
        BY <1>1 DEF InvitesStay, Invite
      <3>. QED  BY <2>7, <2>8, <3>1 DEF IInv, MembersWereInvited
    <2>11. Founders'
      <3>1. \A d \in Clients : \A p : Founding(d, p)' => Founding(d, p)
        BY <1>0, <1>2 DEF Founding, Served
      <3>2. \A p \in Orgs : \A v \in Users : Founded(p, v)' => Founded(p, v)
        BY <2>7, <2>8 DEF Founded, MembersOf
      <3>. QED  BY <2>3, <3>1, <3>2 DEF IInv, Founders
    <2>12. Administrators'
      <3>. SUFFICES ASSUME NEW p \in Orgs, "admins" \notin raced'[p]
                    PROVE  /\ Begun(p)' => MembersOf(p)' # {}
                           /\ MembersOf(p)' # {} => Admins(p)' # {}
                           /\ \A d \in Clients : req'[d].at = "write" /\ req'[d].org = p /\ req'[d].clean
                                  => \E a \in Admins(p)' : a # req'[d].user
        BY DEF Administrators
      <3>1. "admins" \notin raced[p]
        BY <2>3
      <3>2. /\ req'[c].at = "idle"
            /\ \A d \in Clients : d # c =>
                 /\ req'[d].at = req[d].at /\ req'[d].user = req[d].user /\ req'[d].org = req[d].org
                 /\ req'[d].clean => req[d].clean /\ ~(req[d].at = "write" /\ req[d].org = o)
        BY <1>0, <2>2, RaceNoted
      <3>3. CASE p = o
        <4>1. req[c].clean
          BY <2>3, <3>3
        <4>2. \E a \in Admins(p) : a # u
          BY <1>0, <1>9, <3>1, <3>3, <4>1 DEF IInv, Administrators
        <4>3. PICK a \in Admins(p)' : a \in Users
          BY <2>1, <4>2 DEF Admins
        <4>4. a \in MembersOf(p)'
          BY <1>0, <4>3 DEF Admins, MembersOf, IsMember, UserRoles
        <4>5. \A d \in Clients : ~(req'[d].at = "write" /\ req'[d].org = p /\ req'[d].clean)
          BY <3>2, <3>3
        <4>. QED  BY <4>3, <4>4, <4>5
      <3>4. CASE p # o
        <4>1. MembersOf(p)' = MembersOf(p) /\ Admins(p)' = Admins(p)
          BY <2>1, <3>4 DEF MembersOf, Admins, IsMember
        <4>2. Begun(p)' => Begun(p)
          <5>1. claims'[p] = claims[p] /\ invite' = invite /\ Invite' = Invite
            BY <1>1, <2>1, <3>4 DEF InvitesStay, Invite
          <5>. QED  BY <3>2, <5>1 DEF Begun
        <4>3. \A d \in Clients : req'[d].at = "write" /\ req'[d].org = p /\ req'[d].clean
                 => \E a \in Admins(p) : a # req'[d].user
          BY <3>1, <3>2 DEF IInv, Administrators
        <4>. QED  BY <3>1, <4>1, <4>2, <4>3 DEF IInv, Administrators
      <3>. QED  BY <3>3, <3>4
    <2>. QED  BY <2>4, <2>5, <2>6, <2>9, <2>10, <2>11, <2>12 DEF IInv, DistinctNames
  <1>. QED  BY <1>3, <1>4

-----------------------------------------------------------------------------
(* Every step preserves the invariant. *)

LEMMA InitInv ==
    ASSUME DistinctNames, Init
    PROVE  IInv
  <1>1. \A o \in Orgs : MembersOf(o) = {} /\ Admins(o) = {}
    BY DEF Init, MembersOf, Admins, IsMember, DistinctNames, UserRoles
  <1>2. Invite = {} /\ Len(invite) = 0
    BY DEF Init, Invite
  <1>3. Shapes
    <2>1. req \in [Clients -> Request]
      BY IdleIsRequest DEF Init
    <2>. QED  BY <1>2, <2>1 DEF Init, Shapes, Roles, Hows, Races
  <1>4. \A c \in Clients : req[c].at = "idle"
    BY IdleIsRequest DEF Init
  <1>5. RequestsOK
    BY <1>4 DEF RequestsOK, RequestOK, Placed, Known
  <1>6. RowsOK
    BY <1>1, <1>2 DEF RowsOK, Init, IsMember
  <1>7. OneOpen /\ InviteAdmitsOnce /\ MembersWereInvited
    BY <1>1, <1>2 DEF OneOpen, InviteAdmitsOnce, MembersWereInvited
  <1>8. Founders
    BY <1>1, <1>4 DEF Founders, Founding, Founded, MembersOf
  <1>9. Administrators
    BY <1>1, <1>2, <1>4 DEF Administrators, Begun, Init
  <1>. QED  BY <1>3, <1>5, <1>6, <1>7, <1>8, <1>9 DEF IInv

LEMMA StepInv ==
    ASSUME IInv, [Next]_vars
    PROVE  IInv'
  <1>1. CASE UNCHANGED vars
    <2>1. /\ user' = user /\ org' = org /\ members' = members /\ invite' = invite
          /\ claims' = claims /\ req' = req /\ admission' = admission /\ spent' = spent
          /\ raced' = raced
      BY <1>1 DEF vars
    <2>2. (Shapes /\ RequestsOK)'
      BY <2>1 DEF IInv, Shapes, RequestsOK, RequestOK, Sent, Invite
    <2>3. (RowsOK /\ OneOpen)'
      BY <2>1 DEF IInv, RowsOK, OneOpen, Open, MembersOf, Admins, IsMember, Invite
    <2>7. InviteAdmitsOnce'
      BY <2>1 DEF IInv, InviteAdmitsOnce, Invite
    <2>4. MembersWereInvited'
      BY <2>1 DEF IInv, MembersWereInvited, MembersOf, IsMember, Invite
    <2>5. Founders'
      BY <2>1 DEF IInv, Founders, Founding, Founded, IsMember
    <2>6. Administrators'
      BY <2>1 DEF IInv, Administrators, Begun, MembersOf, Admins, IsMember, Invite
    <2>. QED  BY <2>2, <2>3, <2>4, <2>5, <2>6, <2>7 DEF IInv, DistinctNames
  <1>2. ASSUME NEW c \in Clients, Reads(c)
        PROVE  IInv'
    BY <1>2, ReadNext
  <1>3. ASSUME NEW c \in Clients,
               \/ CreateOrganization(c) \/ CreateUser(c) \/ RevokeRedundant(c)
               \/ AcceptOrganizationInvite(c) \/ CountOrganizationMembers(c) \/ CreateFounder(c)
               \/ CreateOrganizationInvite(c) \/ WriteMember(c)
               \/ \E o \in Orgs : \E i \in Invite : RevokeInvite(c, o, i)
        PROVE  IInv'
    BY <1>3, CreationNext, ClosingNext, AcceptNext, CountNext, FounderNext, InvitationNext,
       WriteNext
  <1>4. ASSUME NEW i \in Invite, InviteExpires(i)
        PROVE  IInv'
    BY <1>4, ClosingNext
  <1>5. ASSUME NEW o \in Orgs, NEW u \in Users, ClaimExpires(o, u)
        PROVE  IInv'
    BY <1>5, ClaimNext
  <1>. QED  BY <1>1, <1>2, <1>3, <1>4, <1>5, Alternatives DEF Writes

-----------------------------------------------------------------------------
(* Theorems *)

LEMMA Inductive == DistinctNames /\ Spec => []IInv
  <1>1. DistinctNames /\ Init => IInv
    BY InitInv
  <1>2. IInv /\ [Next]_vars => IInv'
    BY StepInv
  <1>. QED  BY <1>1, <1>2, PTL DEF Spec

(* Accounts, organizations and members fit together, an administrator may   *)
(* always act as one, and an address has one open invite to an organization *)
(* (the foreign keys and indexes that auth_service.go and                   *)
(* membership_service.go rely on).                                          *)
THEOREM MembershipTypes == DistinctNames /\ Spec => []TypeOK
  <1>1. IInv => TypeOK
    <2>. SUFFICES ASSUME IInv PROVE TypeOK
      OBVIOUS
    <2>1. user \subseteq Users /\ org \subseteq Orgs /\ raced \in [Orgs -> SUBSET Races]
      BY DEF IInv, Shapes
    <2>2. DOMAIN spent = Invite
      BY DEF IInv, Shapes, Invite
    <2>3. ASSUME NEW o \in Orgs
          PROVE  /\ MembersOf(o) \subseteq user /\ (MembersOf(o) # {} => o \in org)
                 /\ Admins(o) \subseteq claims[o] /\ claims[o] \subseteq Users
                 /\ \A u \in Users : /\ members[o][u] \in UserRoles \union {Outsider}
                                     /\ admission[o][u] = "none" <=> ~IsMember(o, u)
      BY DEF IInv, Shapes, RowsOK, Roles
    <2>4. \A i, j \in Invite : /\ invite[i].org = invite[j].org
                               /\ invite[i].email = invite[j].email
                               /\ \A k \in {i, j} : invite[k].acceptedBy = "" /\ ~invite[k].revoked
                               => i = j
      BY DEF IInv, OneOpen, Open
    <2>. QED  BY <2>1, <2>2, <2>3, <2>4 DEF TypeOK
  <1>. QED  BY <1>1, Inductive, PTL

(* An invite admits the one person it was sent to, nobody else but the      *)
(* founder gets in, one person founds an organization, and an administrator *)
(* stays, the last two unless requests overlapped between a count and the   *)
(* write it allowed (AcceptOrganizationInvite, ensureOrganizationMember and *)
(* ensureNotLastAdmin).                                                     *)
THEOREM MembershipHolds == DistinctNames /\ Spec => []MembershipHoldsUnlessRaced
  <1>1. IInv => MembershipHoldsUnlessRaced
    <2>. SUFFICES ASSUME IInv PROVE MembershipHoldsUnlessRaced
      OBVIOUS
    <2>1. OneFounderUnlessRaced
      BY DEF IInv, Founders, OneFounderUnlessRaced, Founded, MembersOf
    <2>2. AdminRemainsUnlessRaced
      BY DEF IInv, Administrators, AdminRemainsUnlessRaced
    <2>. QED  BY <2>1, <2>2 DEF IInv, MembershipHoldsUnlessRaced
  <1>. QED  BY <1>1, Inductive, PTL

-----------------------------------------------------------------------------
(* The settings of an organization (Settings).  A request that is about to *)
(* write has a copy that is the row, as long as nothing was written since  *)
(* it read it (CopyOK); and every copy has a client id beside the secret   *)
(* that goes with it.                                                      *)

CONSTANTS Requests, Asks, Canonical, SecretOf, MaxWrites
VARIABLES settings, asking, told, overwritten, version

S == INSTANCE Settings WITH row <- settings, req <- asking

Tabled(c) == c = [f \in S!Fields |-> c[f]]

\* A row that was stored, or a copy of one.
GoodRow(c) ==
    /\ DOMAIN c = S!Fields /\ c.budget # 0 /\ c.language # "" /\ Tabled(c)
    /\ S!PairOK(c.clientID, c.clientSecret)

RowOK == settings = S!NoRow \/ GoodRow(settings)
ToldOK ==
    /\ Tabled(told)
    /\ ~overwritten => told = IF settings = S!NoRow THEN S!ApplyDefaults(S!Blank) ELSE settings

\* What is written back over the row that it was read from.
CopyOK(r) ==
    /\ r.at \in {"read", "create"} => r.op \in {"get", "update"}
    /\ r.at # "idle" => S!GivenOK(r.given)
    /\ r.at \in {"create", "write"} => r.seen \in Nat /\ r.seen <= version
    /\ r.at = "create" /\ r.seen = version => settings = S!NoRow
    /\ r.at = "write" => GoodRow(r.cfg)
    /\ r.at = "write" /\ r.seen = version => r.cfg = settings

SettingsInv ==
    /\ S!SettingsAssumption
    /\ version \in Nat /\ DOMAIN asking = Requests
    /\ RowOK /\ ToldOK
    /\ \A q \in Requests : CopyOK(asking[q])

\* A row has its defaults, so it is told from no row.
LEMMA GoodIsStored == ASSUME NEW c, GoodRow(c) PROVE c # S!NoRow
<1>1. PICK b : b = S!NoRow OBVIOUS
<1>2. b.budget = 0 BY <1>1 DEF S!NoRow, S!Blank
<1>3. c.budget # 0 BY DEF GoodRow
<1> QED BY <1>1, <1>2, <1>3

\* The defaults stand where nothing was set.
LEMMA DefaultsAre ==
    ASSUME NEW c, DOMAIN c = S!Fields, Tabled(c), NEW d, d = S!ApplyDefaults(c)
    PROVE  /\ DOMAIN d = S!Fields /\ Tabled(d)
           /\ d.token = c.token /\ d.clientID = c.clientID /\ d.clientSecret = c.clientSecret
           /\ d.budget # 0 /\ (c.budget # 0 => d.budget = c.budget)
           /\ d.language # "" /\ (c.language # "" => d.language = c.language)
           /\ c.budget # 0 /\ c.language # "" => d = c
<1>1. PICK budget : budget = S!DefaultBudget(c.budget) OBVIOUS
<1>2. PICK language : language = S!DefaultLanguage(c.language) OBVIOUS
<1>3. budget # 0 /\ (c.budget # 0 => budget = c.budget)
  <2>1. budget = IF c.budget = 0 THEN 20000 ELSE c.budget BY <1>1 DEF S!DefaultBudget
  <2>2. CASE c.budget = 0
    <3>1. budget = 20000 BY <2>1, <2>2
    <3> QED BY <2>2, <3>1
  <2>3. CASE c.budget # 0 BY <2>1, <2>3
  <2> QED BY <2>2, <2>3
<1>4. language # "" /\ (c.language # "" => language = c.language) BY <1>2 DEF S!DefaultLanguage
<1>5. d = [c EXCEPT !.budget = budget, !.language = language] BY <1>1, <1>2 DEF S!ApplyDefaults
<1>6. DOMAIN d = S!Fields BY <1>5
<1>7. Tabled(d)
  <2>1. d = [f \in DOMAIN c |-> IF f = "language" THEN language ELSE [c EXCEPT !.budget = budget][f]] BY <1>5
  <2> QED BY <1>6, <2>1 DEF Tabled
<1>8. d.budget = budget /\ d.language = language BY <1>5 DEF S!Fields
<1>9. d.token = c.token /\ d.clientID = c.clientID /\ d.clientSecret = c.clientSecret BY <1>5 DEF S!Fields
<1>10. ASSUME c.budget # 0, c.language # "" PROVE d = c
  <2>1. d.budget = c.budget /\ d.language = c.language BY <1>3, <1>4, <1>8, <1>10
  <2>2. ASSUME NEW f \in S!Fields PROVE d[f] = c[f]
    <3>1. f \in {"token", "clientID", "clientSecret", "budget", "language"} BY <2>2 DEF S!Fields
    <3> QED BY <1>9, <2>1, <3>1
  <2>3. [f \in S!Fields |-> d[f]] = [f \in S!Fields |-> c[f]] BY <2>2
  <2> QED BY <1>7, <2>3 DEF Tabled
<1> QED BY <1>3, <1>4, <1>6, <1>7, <1>8, <1>9, <1>10

\* The defaults that the first request stores.
LEMMA BlankIsGood == LET d == S!ApplyDefaults(S!Blank) IN GoodRow(d) /\ d # S!NoRow /\ S!ApplyDefaults(d) = d
<1>1. PICK b, d : b = S!Blank /\ d = S!ApplyDefaults(b) OBVIOUS
<1>2. DOMAIN b = S!Fields /\ Tabled(b) /\ b.clientID = "" /\ b.clientSecret = "" /\ b.budget = 0
  BY <1>1 DEF S!Blank, S!Fields, Tabled
<1>3. GoodRow(d)
  <2>1. d.clientID = "" /\ d.clientSecret = "" BY <1>1, <1>2, DefaultsAre
  <2>2. S!PairOK(d.clientID, d.clientSecret) BY <2>1 DEF S!PairOK
  <2>3. DOMAIN d = S!Fields /\ d.budget # 0 /\ d.language # "" BY <1>1, <1>2, DefaultsAre
  <2>4. Tabled(d) BY <1>1, <1>2, DefaultsAre
  <2> QED BY <2>2, <2>3, <2>4 DEF GoodRow
<1>4. d # b BY <1>1, <1>2, DefaultsAre
<1>5. S!ApplyDefaults(d) = d
  <2>1. PICK e : e = S!ApplyDefaults(d) OBVIOUS
  <2> QED BY <1>3, <2>1, DefaultsAre DEF GoodRow
<1> QED BY <1>1, <1>3, <1>4, <1>5 DEF S!NoRow

\* A copy in which some fields are set is written as it is.
LEMMA GivenIsGood ==
    ASSUME NEW c, GoodRow(c), NEW given, S!GivenOK(given), NEW d, d = S!applyOrganizationConfigUpdate(c, given)
    PROVE  /\ GoodRow(d) /\ d # S!NoRow /\ S!ApplyDefaults(d) = d
           /\ \A f \in S!Fields \ DOMAIN given : d[f] = c[f]
<1>1. PICK g : g = S!Given(given, c) OBVIOUS
<1>2. /\ DOMAIN g = S!Fields /\ Tabled(g)
      /\ \A f \in S!Fields : g[f] = IF f \in DOMAIN given THEN given[f] ELSE c[f]
  BY <1>1 DEF S!Given, Tabled
<1>3. d = S!ApplyDefaults(g) BY <1>1 DEF S!applyOrganizationConfigUpdate
<1>4. S!PairOK(g.clientID, g.clientSecret)
  <2>1. CASE "clientID" \in DOMAIN given
    <3>1. g.clientID = given.clientID /\ g.clientSecret = given.clientSecret BY <1>2, <2>1 DEF S!GivenOK, S!Fields
    <3> QED BY <2>1, <3>1 DEF S!GivenOK
  <2>2. CASE "clientID" \notin DOMAIN given
    <3>1. g.clientID = c.clientID /\ g.clientSecret = c.clientSecret BY <1>2, <2>2 DEF S!GivenOK, S!Fields
    <3> QED BY <3>1 DEF GoodRow
  <2> QED BY <2>1, <2>2
<1>5. GoodRow(d) BY <1>2, <1>3, <1>4, DefaultsAre, ZenonT(60) DEF GoodRow
<1>6. S!ApplyDefaults(d) = d
  <2>1. PICK e : e = S!ApplyDefaults(d) OBVIOUS
  <2> QED BY <1>5, <2>1, DefaultsAre DEF GoodRow
<1>7. d # S!NoRow BY <1>5, GoodIsStored
<1>8. ASSUME NEW f \in S!Fields \ DOMAIN given PROVE d[f] = c[f]
  <2>1. g[f] = c[f] BY <1>2, <1>8
  <2>2. c.budget # 0 /\ c.language # "" BY DEF GoodRow
  <2>3. /\ d.token = g.token /\ d.clientID = g.clientID /\ d.clientSecret = g.clientSecret
        /\ g.budget # 0 => d.budget = g.budget
        /\ g.language # "" => d.language = g.language
    BY <1>2, <1>3, DefaultsAre
  <2>4. CASE f = "budget" BY <2>1, <2>2, <2>3, <2>4
  <2>5. CASE f = "language" BY <2>1, <2>2, <2>3, <2>5
  <2>6. CASE f = "token" BY <2>1, <2>3, <2>6
  <2>7. CASE f = "clientID" BY <2>1, <2>3, <2>7
  <2>8. CASE f = "clientSecret" BY <2>1, <2>3, <2>8
  <2> QED BY <2>4, <2>5, <2>6, <2>7, <2>8 DEF S!Fields
<1> QED BY <1>5, <1>6, <1>7, <1>8

\* The row stays, and one request goes on.
LEMMA ReaderNext ==
    ASSUME SettingsInv, UNCHANGED <<settings, told, overwritten, version>>, NEW q \in Requests, NEW r, CopyOK(r),
           asking' = [asking EXCEPT ![q] = r]
    PROVE  SettingsInv'
<1>1. DOMAIN asking' = Requests /\ asking'[q] = r /\ \A p \in Requests \ {q} : asking'[p] = asking[p] BY DEF SettingsInv
<1>2. \A p \in Requests : CopyOK(asking'[p]) BY <1>1 DEF SettingsInv
<1>3. \A p \in Requests : CopyOK(asking[p])' BY <1>2 DEF CopyOK
<1> QED BY <1>1, <1>3 DEF SettingsInv, RowOK, ToldOK

\* The row is written, by one request.
LEMMA WriterNext ==
    ASSUME SettingsInv, NEW q \in Requests, asking[q].at \in {"create", "write"}, S!Wrote(q),
           GoodRow(settings'), settings' # S!NoRow, NEW r, asking' = [asking EXCEPT ![q] = r], CopyOK(r)',
           Tabled(told'),
           ~overwritten /\ version = asking[q].seen => told' = settings'
    PROVE  SettingsInv'
<1>1. DOMAIN asking' = Requests /\ asking'[q] = r /\ \A p \in Requests \ {q} : asking'[p] = asking[p] BY DEF SettingsInv
<1>2. version \in Nat /\ version' = version + 1 /\ (~overwritten' => ~overwritten /\ version = asking[q].seen)
  BY DEF SettingsInv, S!Wrote
<1>3. ASSUME NEW p \in Requests \ {q} PROVE CopyOK(asking[p])'
  <2>1. CopyOK(asking[p]) /\ asking'[p] = asking[p] BY <1>1, <1>3 DEF SettingsInv
  <2>2. PICK o : o = asking[p] /\ asking'[p] = o BY <2>1
  <2>3. o.at \in {"create", "write"} => o.seen \in Nat /\ o.seen <= version' /\ o.seen # version'
    BY <1>2, <2>1, <2>2 DEF CopyOK
  <2> QED BY <2>1, <2>2, <2>3 DEF CopyOK
<1>4. CopyOK(asking[q])' BY <1>1
<1>5. \A p \in Requests : CopyOK(asking[p])' BY <1>3, <1>4
<1>6. ToldOK' /\ RowOK' BY <1>2 DEF ToldOK, RowOK
<1> QED BY <1>1, <1>2, <1>5, <1>6 DEF SettingsInv

LEMMA SettingsStep ==
    ASSUME SettingsInv, [S!Next]_(S!vars)
    PROVE  SettingsInv'
<1>1. ASSUME NEW q \in Requests, NEW ask \in Asks, S!Begin(q, ask) PROVE SettingsInv'
  <2>1. UNCHANGED <<settings, told, overwritten, version>> BY <1>1 DEF S!Begin
  <2>2. CASE \E status : S!Answer(q, status)
    <3>1. PICK r : r.at = "idle" /\ asking' = [asking EXCEPT ![q] = r] BY <2>2 DEF S!Answer
    <3>2. CopyOK(r) BY <3>1 DEF CopyOK
    <3> QED BY <2>1, <3>1, <3>2, ReaderNext
  <2>3. CASE ~\E status : S!Answer(q, status)
    <3>1. PICK tag : /\ tag = IF "language" \in DOMAIN ask.given THEN ask.given.language ELSE ""
                     /\ asking' = [asking EXCEPT ![q] = [at |-> "read", op |-> ask.op, given |->
                            IF tag = "" THEN ask.given ELSE [ask.given EXCEPT !.language = Canonical[tag]]]]
      BY <1>1, <2>3 DEF S!Begin
    <3>2. PICK given : given = IF tag = "" THEN ask.given ELSE [ask.given EXCEPT !.language = Canonical[tag]] OBVIOUS
    <3>3. PICK r : r = [at |-> "read", op |-> ask.op, given |-> given] OBVIOUS
    <3>4. asking' = [asking EXCEPT ![q] = r] BY <3>1, <3>2, <3>3
    <3>5. ask.op \in {"get", "update"} /\ S!GivenOK(ask.given) BY DEF SettingsInv, S!SettingsAssumption
    <3>6. /\ DOMAIN given = DOMAIN ask.given
          /\ "clientID" \in DOMAIN given => given.clientID = ask.given.clientID
          /\ "clientSecret" \in DOMAIN given => given.clientSecret = ask.given.clientSecret
      BY <3>2
    <3>7. S!GivenOK(given) BY <3>5, <3>6 DEF S!GivenOK
    <3>8. CopyOK(r) BY <3>3, <3>5, <3>7 DEF CopyOK
    <3> QED BY <2>1, <3>4, <3>8, ReaderNext
  <2> QED BY <2>2, <2>3
<1>2. ASSUME NEW q \in Requests, S!GetOrganizationConfig(q) PROVE SettingsInv'
  <2>1. /\ UNCHANGED <<settings, told, overwritten, version>> /\ asking[q].at = "read" /\ CopyOK(asking[q])
        /\ version \in Nat /\ RowOK
    BY <1>2 DEF S!GetOrganizationConfig, S!At, SettingsInv
  <2>2. CASE \E status : S!Answer(q, status)
    <3>1. PICK r : r.at = "idle" /\ asking' = [asking EXCEPT ![q] = r] BY <2>2 DEF S!Answer
    <3>2. CopyOK(r) BY <3>1 DEF CopyOK
    <3> QED BY <2>1, <3>1, <3>2, ReaderNext
  <2>3. CASE settings = S!NoRow /\ ~\E status : S!Answer(q, status)
    <3>1. asking' = [asking EXCEPT ![q] = [at |-> "create", op |-> asking[q].op, given |-> asking[q].given, seen |-> version]]
      BY <1>2, <2>3 DEF S!GetOrganizationConfig
    <3>2. PICK r : r = [at |-> "create", op |-> asking[q].op, given |-> asking[q].given, seen |-> version] OBVIOUS
    <3>3. CopyOK(r) BY <2>1, <2>3, <3>2 DEF CopyOK
    <3> QED BY <2>1, <3>1, <3>2, <3>3, ReaderNext
  <2>4. CASE settings # S!NoRow /\ ~\E status : S!Answer(q, status)
    <3>1. PICK c : c = S!ApplyDefaults(settings) OBVIOUS
    <3>2. asking' = [asking EXCEPT ![q] = [at |-> "write", given |-> asking[q].given, cfg |-> c, seen |-> version]]
      BY <1>2, <2>4, <3>1 DEF S!GetOrganizationConfig, S!Proceed
    <3>3. PICK r : r = [at |-> "write", given |-> asking[q].given, cfg |-> c, seen |-> version] OBVIOUS
    <3>4. GoodRow(settings) BY <2>1, <2>4 DEF RowOK
    <3>5. c = settings BY <3>1, <3>4, DefaultsAre DEF GoodRow
    <3>6. CopyOK(r) BY <2>1, <3>3, <3>4, <3>5 DEF CopyOK
    <3> QED BY <2>1, <3>2, <3>3, <3>6, ReaderNext
  <2> QED BY <2>2, <2>3, <2>4
<1>3. ASSUME NEW q \in Requests, S!CreateConfig(q) PROVE SettingsInv'
  <2>1. PICK d : d = S!ApplyDefaults(S!Blank) OBVIOUS
  <2>2. GoodRow(d) /\ d # S!NoRow BY <2>1, BlankIsGood
  <2>3. /\ settings' = d /\ S!Wrote(q) /\ told' = told /\ asking[q].at = "create" /\ CopyOK(asking[q]) /\ version \in Nat
        /\ version' = version + 1 /\ ToldOK
    BY <1>3, <2>1 DEF S!CreateConfig, S!UpsertOrganizationConfig, S!At, S!Wrote, SettingsInv
  <2>4. PICK r : asking' = [asking EXCEPT ![q] = r]
                 /\ (r.at = "idle" \/ r = [at |-> "write", given |-> asking[q].given, cfg |-> d, seen |-> version + 1])
    <3>1. CASE S!Answer(q, 200)
      <4>1. PICK o : o = [at |-> "idle", status |-> 200] OBVIOUS
      <4>2. o.at = "idle" /\ asking' = [asking EXCEPT ![q] = o] BY <3>1, <4>1 DEF S!Answer
      <4> QED BY <4>2
    <3>2. CASE ~S!Answer(q, 200) BY <1>3, <2>1, <3>2 DEF S!CreateConfig, S!Proceed
    <3> QED BY <3>1, <3>2
  <2>5. CopyOK(r)'
    <3>1. CASE r.at = "idle" BY <3>1 DEF CopyOK
    <3>2. CASE r = [at |-> "write", given |-> asking[q].given, cfg |-> d, seen |-> version + 1]
      <4>1. S!GivenOK(asking[q].given) BY <2>3 DEF CopyOK
      <4>2. r.at = "write" /\ r.given = asking[q].given /\ r.cfg = d /\ r.seen = version' BY <2>3, <3>2
      <4>3. version' \in Nat BY <2>3
      <4> QED BY <2>2, <2>3, <4>1, <4>2, <4>3 DEF CopyOK
    <3> QED BY <2>4, <3>1, <3>2
  <2>6. Tabled(told') BY <2>3 DEF ToldOK
  <2>7. ~overwritten /\ version = asking[q].seen => told' = settings'
    BY <2>1, <2>3 DEF CopyOK, ToldOK
  <2> QED BY <2>2, <2>3, <2>4, <2>5, <2>6, <2>7, WriterNext
<1>4. ASSUME NEW q \in Requests, S!UpdateConfig(q) PROVE SettingsInv'
  <2>1. asking[q].at = "write" /\ CopyOK(asking[q]) /\ ToldOK /\ RowOK BY <1>4 DEF S!UpdateConfig, S!At, SettingsInv
  <2>2. PICK c, given : c = asking[q].cfg /\ given = asking[q].given OBVIOUS
  <2>3. GoodRow(c) /\ S!GivenOK(given) /\ (asking[q].seen = version => c = settings) BY <2>1, <2>2 DEF CopyOK
  <2>4. PICK d : d = S!applyOrganizationConfigUpdate(c, given) OBVIOUS
  <2>5. GoodRow(d) /\ d # S!NoRow /\ S!ApplyDefaults(d) = d /\ \A f \in S!Fields \ DOMAIN given : d[f] = c[f]
    BY <2>3, <2>4, GivenIsGood
  <2>6. /\ settings' = d /\ S!Wrote(q) /\ S!Answer(q, 200)
        /\ told' = [f \in S!Fields |-> IF f \in DOMAIN given THEN d[f] ELSE told[f]]
    BY <1>4, <2>2, <2>4, <2>5 DEF S!UpdateConfig, S!UpsertOrganizationConfig
  <2>7. PICK r : r.at = "idle" /\ asking' = [asking EXCEPT ![q] = r] BY <2>6 DEF S!Answer
  <2>8. CopyOK(r)' BY <2>7 DEF CopyOK
  <2>9. Tabled(told') BY <2>6 DEF Tabled
  <2>10. ASSUME ~overwritten, version = asking[q].seen PROVE told' = settings'
    <3>1. c = settings /\ settings # S!NoRow
      <4>1. c # S!NoRow BY <2>3, GoodIsStored
      <4> QED BY <2>3, <2>10, <4>1
    <3>2. told = c BY <2>1, <2>10, <3>1 DEF ToldOK
    <3>3. \A f \in S!Fields : told'[f] = d[f] BY <2>5, <2>6, <3>2
    <3>4. Tabled(d) BY <2>5 DEF GoodRow
    <3> QED BY <2>6, <2>9, <3>3, <3>4 DEF Tabled
  <2> QED BY <2>1, <2>5, <2>6, <2>7, <2>8, <2>9, <2>10, WriterNext
<1>5. ASSUME NEW q \in Requests, S!Fail(q) PROVE SettingsInv'
  <2>1. UNCHANGED <<settings, told, overwritten, version>> BY <1>5 DEF S!Fail
  <2>2. PICK r : r.at = "idle" /\ asking' = [asking EXCEPT ![q] = r] BY <1>5 DEF S!Fail, S!Answer
  <2>3. CopyOK(r) BY <2>2 DEF CopyOK
  <2> QED BY <2>1, <2>2, <2>3, ReaderNext
<1>6. CASE UNCHANGED S!vars
  BY <1>6 DEF S!vars, SettingsInv, RowOK, ToldOK, CopyOK
<1> QED BY <1>1, <1>2, <1>3, <1>4, <1>5, <1>6 DEF S!Next

LEMMA SettingsInit == ASSUME S!SettingsAssumption, S!Init PROVE SettingsInv
<1>1. PICK d : d = S!ApplyDefaults(S!Blank) OBVIOUS
<1>2. Tabled(d) BY <1>1, BlankIsGood DEF GoodRow
<1>3. \A q \in Requests : asking[q].at = "idle" BY DEF S!Init, S!Idle
<1>4. \A q \in Requests : CopyOK(asking[q]) BY <1>3 DEF CopyOK
<1> QED BY <1>1, <1>2, <1>4 DEF S!Init, SettingsInv, RowOK, ToldOK

(* What an administrator was told is set stays set until it is set again,  *)
(* unless a request wrote a copy older than the row; and a client id never *)
(* stands beside the secret of another, whatever overlaps                  *)
(* (UpdateConfig and getOrCreateConfig of organization_config.go): for any *)
(* requests that set a client id with its secret.                          *)
THEOREM SettingsHold ==
    ASSUME S!SettingsAssumption
    PROVE  S!Spec => [](S!TypeOK /\ S!SettingsHoldUnlessOverwritten)
<1>1. S!Init => SettingsInv BY SettingsInit
<1>2. SettingsInv /\ [S!Next]_(S!vars) => SettingsInv' BY SettingsStep
<1>3. SettingsInv => S!TypeOK /\ S!SettingsHoldUnlessOverwritten
  BY DEF SettingsInv, RowOK, ToldOK, GoodRow, S!TypeOK, S!SettingsHoldUnlessOverwritten
<1> QED BY <1>1, <1>2, <1>3, PTL DEF S!Spec
==============================================================================

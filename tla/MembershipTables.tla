------------------------ MODULE MembershipTables ------------------------
(***************************************************************************)
(* The tables that say who belongs to an organization, and what holds of   *)
(* them whatever the requests of Membership do.                            *)
(***************************************************************************)
EXTENDS Integers, Sequences

CONSTANTS Users,   \* addresses; an account is named by its address
          Orgs,    \* slugs; an organization is named by its slug
          Outsider \* the role of who is not a member

VARIABLES
    user,      \* accounts that exist
    org,       \* organizations that exist
    members,   \* organization_members: the role of each user in each organization
    invite,    \* organization_invites, in the order of their insertion
    claims,    \* users that may hold an access token which says admin
    admission, \* history: how each current member was admitted
    spent,     \* history: how many members each invite admitted
    raced      \* history: see Races

tables == <<user, org, members, invite, claims, admission, spent, raced>>

(* Two of the four roles: admin and one below.  isAssignableRole admits all. *)
UserRoles == {"admin", "developer"}

(* "founders": two requests that found the organization empty overlapped;   *)
(* "admins": a role was written while another administrator's request was   *)
(* between what it read and what it writes.                                 *)
Races == {"founders", "admins"}

Invite == 1..Len(invite)

IsMember(o, u) == members[o][u] # Outsider
MembersOf(o) == {u \in Users : IsMember(o, u)}
Admins(o) == {u \in Users : members[o][u] = "admin"}

---------------------------------------------------------------------------
(* Properties *)

(* An invite admits one person, the one it was sent to. *)
InviteAdmitsOnce ==
    \A i \in Invite :
        /\ spent[i] <= 1
        /\ spent[i] = 1 <=> invite[i].acceptedBy # ""
        /\ invite[i].acceptedBy \in {"", invite[i].email}

(* Every member either founded the organization or was sent an invite to it *)
(* that it spent: no slug or other organization's invite gets anybody in.   *)
MembersWereInvited ==
    \A o \in Orgs : \A u \in MembersOf(o) :
        \/ admission[o][u] = "founder"
        \/ \E i \in Invite : invite[i].org = o /\ invite[i].acceptedBy = u

(* Only the first member of an organization gets in without an invite,      *)
(* unless two requests found it empty at once.                              *)
OneFounderUnlessRaced ==
    \A o \in Orgs : "founders" \notin raced[o] =>
        \A u, v \in MembersOf(o) :
            admission[o][u] = "founder" /\ admission[o][v] = "founder" => u = v

(* An organization with members has an administrator, unless a role was     *)
(* written between what another request read and wrote.                     *)
AdminRemainsUnlessRaced ==
    \A o \in Orgs : "admins" \notin raced[o] /\ MembersOf(o) # {} => Admins(o) # {}

(* The four together. *)
MembershipHoldsUnlessRaced ==
    InviteAdmitsOnce /\ MembersWereInvited /\ OneFounderUnlessRaced /\ AdminRemainsUnlessRaced

(* ErrLastAdmin: an organization never loses its last administrator. *)
AdminRemains == \A o \in Orgs : MembersOf(o) # {} => Admins(o) # {}
=============================================================================

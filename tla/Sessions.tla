------------------------------ MODULE Sessions ------------------------------
(***************************************************************************)
(* The tokens of one user in one organization: login, organization         *)
(* selection, refresh with rotation, reuse detection and logout            *)
(* (internal/services/auth_service.go).  Between two calls to Postgres any *)
(* other request may run, and a request may end early: a failed call, a    *)
(* lost process, or a client that never reads the answer.                  *)
(***************************************************************************)
EXTENDS Integers, Sequences

CONSTANTS Clients,      \* requests that are served at the same time
          Roles,        \* roles a member can have
          NoRole,       \* the user is not a member
          MaxFamilies,  \* bound on the logins
          MaxTokens,    \* bound on the rows of the tokens table
          MaxChanges    \* bound on the changes of the membership

ASSUME SessionsAssumption ==
    /\ NoRole \notin Roles
    /\ MaxFamilies \in Nat /\ MaxTokens \in Nat /\ MaxChanges \in Nat

VARIABLES
    token,     \* rows of tokens, in the order of their insertion
    families,  \* number of families begun
    member,    \* role of the user in the organization
    ticket,    \* the user holds a login ticket that names the organization
    held,      \* tokens that were delivered to the user
    req,       \* where each request is, and what it has read
    changes,   \* changes of the membership so far
    ended,     \* history: families revoked as a whole
    forked,    \* history: families one token of which two requests rotated
    mark       \* history: how a token came late, see Marks

vars == <<token, families, member, ticket, held, req, changes, ended, forked, mark>>
ghosts == <<ended, forked, mark>>

(* "stale": the role was read before the membership changed;               *)
(* "raced": it stems from a refresh that had passed its check when the      *)
(* family was revoked.                                                     *)
Marks == {"stale", "raced"}

Family == 1..families
Idle == [at |-> "idle", tok |-> 0, fam |-> 0, parent |-> 0, role |-> NoRole,
         access |-> 0, marks |-> {}]
Steps == {"idle", "access", "refresh", "reuse", "rotate", "reload", "logout"}

Row(type, fam, parent, role) ==
    [type |-> type, fam |-> fam, parent |-> parent, role |-> role,
     revoked |-> FALSE, expired |-> FALSE]

(* What ValidateToken accepts as a bearer credential. *)
ValidToken(t) ==
    /\ token[t].type = "access"
    /\ ~token[t].revoked
    /\ ~token[t].expired

Live(t) == token[t].type = "refresh" /\ ~token[t].revoked

LiveIn(f) == {t \in DOMAIN token : Live(t) /\ token[t].fam = f}

Init ==
    /\ token = <<>> /\ families = 0 /\ held = {} /\ changes = 0
    /\ member \in Roles
    /\ ticket = FALSE
    /\ req = [c \in Clients |-> Idle]
    /\ ended = {} /\ forked = {} /\ mark = <<>>

-----------------------------------------------------------------------------
(* Login *)

(* generateTokenPair begins a family of its own. *)
generateTokenPair(c, role) ==
    /\ families < MaxFamilies
    /\ families' = families + 1
    /\ req' = [req EXCEPT ![c] = [Idle EXCEPT !.at = "access", !.role = role,
                                              !.fam = families + 1]]

(* The password is right and the user active.  A user of one organization  *)
(* gets tokens, one of several a ticket that names the organizations.      *)
LoginWithEmail(c) ==
    /\ req[c].at = "idle"
    /\ member # NoRole
    /\ \/ generateTokenPair(c, member) /\ UNCHANGED ticket
       \/ ticket' = TRUE /\ UNCHANGED <<families, req>>
    /\ UNCHANGED <<token, member, held, changes, ghosts>>

(* The ticket names the organization, and the membership is read again. *)
SelectOrganization(c) ==
    /\ req[c].at = "idle"
    /\ ticket
    /\ member # NoRole
    /\ generateTokenPair(c, member)
    /\ UNCHANGED <<token, member, ticket, held, changes, ghosts>>

(* Five minutes after the login. *)
TicketExpires ==
    /\ ticket
    /\ ticket' = FALSE
    /\ UNCHANGED <<token, families, member, held, req, changes, ghosts>>

-----------------------------------------------------------------------------
(* The two rows of a pair *)

generateAccessToken(c) ==
    /\ req[c].at = "access"
    /\ Len(token) + 1 < MaxTokens
    /\ token' = Append(token, Row("access", req[c].fam, 0, req[c].role))
    /\ mark' = Append(mark, req[c].marks)
    /\ req' = [req EXCEPT ![c].at = "refresh", ![c].access = Len(token) + 1]
    /\ UNCHANGED <<families, member, ticket, held, changes, ended, forked>>

\* Mutant: the refresh token is stored without its family.
generateRefreshTokenAlone(c) ==
    /\ req[c].at = "refresh"
    /\ Len(token) < MaxTokens
    /\ token' = Append(token, Row("refresh", 0, req[c].parent, NoRole))
    /\ mark' = Append(mark, req[c].marks)
    /\ held' \in {held, held \union {req[c].access, Len(token) + 1}}
    /\ req' = [req EXCEPT ![c] = Idle]
    /\ UNCHANGED <<families, member, ticket, changes, ended, forked>>

(* The pair is answered; the answer may be lost. *)
generateRefreshToken(c) ==
    /\ req[c].at = "refresh"
    /\ Len(token) < MaxTokens
    /\ token' = Append(token, Row("refresh", req[c].fam, req[c].parent, NoRole))
    /\ mark' = Append(mark, req[c].marks)
    /\ held' \in {held, held \union {req[c].access, Len(token) + 1}}
    /\ req' = [req EXCEPT ![c] = Idle]
    /\ UNCHANGED <<families, member, ticket, changes, ended, forked>>

-----------------------------------------------------------------------------
(* Refresh *)

(* GetTokenByHash and the checks on what it returned.  A request that finds *)
(* another access token, or an expired one, ends here without effect.       *)
RefreshTokens(c, t) ==
    /\ req[c].at = "idle"
    /\ token[t].type = "refresh"
    /\ \/ /\ token[t].revoked
          /\ req' = [req EXCEPT ![c] = [Idle EXCEPT !.at = "reuse", !.fam = token[t].fam]]
          /\ UNCHANGED forked
       \/ /\ ~token[t].revoked
          /\ ~token[t].expired
          /\ req' = [req EXCEPT ![c] = [Idle EXCEPT !.at = "rotate", !.tok = t,
                                                    !.fam = token[t].fam, !.parent = t,
                                                    !.marks = mark[t] \ {"stale"}]]
          /\ forked' = IF \E d \in Clients : req[d].at = "rotate" /\ req[d].tok = t
                       THEN forked \union {token[t].fam}
                       ELSE forked
    /\ UNCHANGED <<token, families, member, ticket, held, changes, ended, mark>>

\* Mutant: the old token stays valid.
RotateTokenNot(c) ==
    /\ req[c].at = "rotate"
    /\ req' = [req EXCEPT ![c].at = "reload"]
    /\ UNCHANGED <<token, families, member, ticket, held, changes, ghosts>>

(* RevokeToken writes the row whatever it is by now. *)
RotateToken(c) ==
    /\ req[c].at = "rotate"
    /\ token' = [token EXCEPT ![req[c].tok].revoked = TRUE]
    /\ req' = [req EXCEPT ![c].at = "reload"]
    /\ UNCHANGED <<families, member, ticket, held, changes, ghosts>>

\* Mutant: the role is the one of the first access token of the family.
ReloadMemberNot(c) ==
    /\ req[c].at = "reload"
    /\ LET first == CHOOSE t \in DOMAIN token :
                        token[t].fam = req[c].fam /\ token[t].type = "access" IN
       req' = [req EXCEPT ![c].at = "access", ![c].role = token[first].role]
    /\ UNCHANGED <<token, families, member, ticket, held, changes, ghosts>>

(* The role of the new pair is the one the membership has now. *)
ReloadMember(c) ==
    /\ req[c].at = "reload"
    /\ IF member = NoRole
       THEN req' = [req EXCEPT ![c] = Idle]
       ELSE req' = [req EXCEPT ![c].at = "access", ![c].role = member]
    /\ UNCHANGED <<token, families, member, ticket, held, changes, ghosts>>

\* Mutant: only the tokens of the login are revoked.
RevokeTokenFamilyRoot(f) ==
    /\ token' = [t \in DOMAIN token |->
                    [token[t] EXCEPT !.revoked = @ \/ (token[t].fam = f /\ token[t].parent = 0)]]
    /\ ended' = ended \union {f}

(* One update of every row of the family that is not revoked yet. *)
RevokeTokenFamily(f) ==
    /\ token' = [t \in DOMAIN token |->
                    [token[t] EXCEPT !.revoked = @ \/ token[t].fam = f]]
    /\ ended' = ended \union {f}

(* Requests of the family that are past their check will add to it. *)
PastCheck(r) == r.at \in {"rotate", "reload", "access", "refresh"}

NoteRaced(c, f) ==
    req' = [d \in Clients |->
               IF d = c THEN Idle
               ELSE IF PastCheck(req[d]) /\ req[d].fam = f
                    THEN [req[d] EXCEPT !.marks = @ \union {"raced"}]
                    ELSE req[d]]

DetectReuse(c) ==
    /\ req[c].at = "reuse"
    /\ RevokeTokenFamily(req[c].fam)
    /\ NoteRaced(c, req[c].fam)
    /\ UNCHANGED <<families, member, ticket, held, changes, forked, mark>>

-----------------------------------------------------------------------------
(* Logout *)

(* The middleware has accepted the access token; it is revoked by its id.  *)
(* r is the token of the body, whatever its type, 0 when there is none.    *)
RevokeToken(c, a, r) ==
    /\ req[c].at = "idle"
    /\ ValidToken(a)
    /\ token' = [token EXCEPT ![a].revoked = TRUE]
    /\ req' = IF r = 0 THEN req
              ELSE [req EXCEPT ![c] = [Idle EXCEPT !.at = "logout", !.fam = token[r].fam]]
    /\ UNCHANGED <<families, member, ticket, held, changes, ghosts>>

RevokeRefreshTokenFamily(c) ==
    /\ req[c].at = "logout"
    /\ RevokeTokenFamily(req[c].fam)
    /\ NoteRaced(c, req[c].fam)
    /\ UNCHANGED <<families, member, ticket, held, changes, forked, mark>>

-----------------------------------------------------------------------------
(* What happens around the requests *)

(* A failed call or a lost process: nothing further of the request happens. *)
Abort(c) ==
    /\ req[c].at # "idle"
    /\ req' = [req EXCEPT ![c] = Idle]
    /\ UNCHANGED <<token, families, member, ticket, held, changes, ghosts>>

(* Tokens of a type live equally long, so they expire as they were issued. *)
TokenExpires(t) ==
    /\ ~token[t].expired
    /\ \A s \in 1..t - 1 : token[s].type = token[t].type => token[s].expired
    /\ token' = [token EXCEPT ![t].expired = TRUE]
    /\ UNCHANGED <<families, member, ticket, held, req, changes, ghosts>>

(* An administrator changes the role, removes the member or admits it again. *)
(* No token is touched: the roles that were read before live on in them.     *)
MembershipChanges ==
    /\ changes < MaxChanges
    /\ changes' = changes + 1
    /\ member' \in (Roles \union {NoRole}) \ {member}
    /\ mark' = [t \in DOMAIN mark |-> mark[t] \union {"stale"}]
    /\ req' = [c \in Clients |->
                  IF req[c].at \in {"access", "refresh"}
                  THEN [req[c] EXCEPT !.marks = @ \union {"stale"}] ELSE req[c]]
    /\ UNCHANGED <<token, families, ticket, held, ended, forked>>

Next ==
    \/ \E c \in Clients :
          \/ LoginWithEmail(c) \/ SelectOrganization(c)
          \/ generateAccessToken(c) \/ generateRefreshToken(c)
          \/ \E t \in held : RefreshTokens(c, t)
          \/ RotateToken(c) \/ ReloadMember(c) \/ DetectReuse(c)
          \/ \E a \in held : \E r \in held \union {0} : RevokeToken(c, a, r)
          \/ RevokeRefreshTokenFamily(c)
          \/ Abort(c)
    \/ \E t \in DOMAIN token : TokenExpires(t)
    \/ TicketExpires
    \/ MembershipChanges

Spec == Init /\ [][Next]_vars

-----------------------------------------------------------------------------
(* Properties *)

Rows == [type : {"access", "refresh"}, fam : Nat, parent : Nat,
         role : Roles \union {NoRole}, revoked : BOOLEAN, expired : BOOLEAN]

Reqs == [at : Steps, tok : Nat, fam : Nat, parent : Nat,
         role : Roles \union {NoRole}, access : Nat, marks : SUBSET Marks]

(* Types of the rows, the requests and the history; every row is of a family *)
(* that was begun.                                                          *)
TypeOK ==
    /\ token \in Seq(Rows) /\ Len(token) <= MaxTokens
    /\ \A t \in DOMAIN token : token[t].fam \in Family
    /\ families \in 0..MaxFamilies
    /\ member \in Roles \union {NoRole}
    /\ ticket \in BOOLEAN
    /\ held \subseteq DOMAIN token
    /\ req \in [Clients -> Reqs]
    /\ changes \in 0..MaxChanges
    /\ ended \subseteq Family /\ forked \subseteq Family
    /\ mark \in Seq(SUBSET Marks) /\ Len(mark) = Len(token)

(* Requests that will still add a refresh token to the family. *)
Coming(f) ==
    {c \in Clients : req[c].at \in {"reload", "access", "refresh"} /\ req[c].fam = f}

(* A session has one live refresh token, or one on its way, unless two      *)
(* requests rotated the same token at the same time: then rotation forks it. *)
OneLiveUnlessForked ==
    \A f \in Family \ forked :
        /\ \A t, u \in LiveIn(f) : t = u
        /\ \A c, d \in Coming(f) : c = d
        /\ LiveIn(f) = {} \/ Coming(f) = {}

(* Reuse and logout end a session: what is live in the family afterwards    *)
(* stems from a refresh that had passed its check before.                   *)
EndedUnlessRaced ==
    \A f \in ended : \A t \in LiveIn(f) : "raced" \in mark[t]

(* A family of refresh tokens has one live token, and none once it was     *)
(* ended, unless a rotation raced another rotation or the logout.          *)
FamiliesEndUnlessRaced == OneLiveUnlessForked /\ EndedUnlessRaced

(* A bearer token grants the role the user has now, unless the membership   *)
(* changed after the pair's role was read: a refresh never carries a role   *)
(* over, and none is issued to a user who is not a member any more.         *)
RoleIsCurrentUnlessStale ==
    \A t \in DOMAIN token :
        ValidToken(t) /\ "stale" \notin mark[t] => token[t].role = member

(* CHECKPOINT.md: reuse of a rotated token revokes the whole family at once. *)
ReuseEndsFamily == \A f \in ended : LiveIn(f) = {}
=============================================================================

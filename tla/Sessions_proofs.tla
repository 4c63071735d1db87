--------------------------- MODULE Sessions_proofs ---------------------------
(***************************************************************************)
(* What holds of Sessions for every number of requests, roles, logins,      *)
(* tokens and changes of the membership; and, at the end, of the teams of   *)
(* the organization and the repository they own (Teams).                    *)
(*                                                                         *)
(* The argument: a family that nobody forked has one unit at a time, be it  *)
(* a live refresh token, a request that is about to add one, or a request   *)
(* that rotates a token somebody else has revoked since (OneUnit).  What    *)
(* reuse and logout leave behind carries the mark that they put on every    *)
(* request past its check (RacedAreMarked), and a role that was read stays  *)
(* the current one until a change of the membership marks it (RoleIsRead). *)
(***************************************************************************)
EXTENDS Sessions, TeamTables, SequenceTheorems, TLAPS

\* What the steps of a request rely on.
RequestOK(c) ==
    /\ req[c].at # "idle" => req[c].fam \in Family
    /\ req[c].at = "rotate" => /\ req[c].tok \in DOMAIN token
                               /\ token[req[c].tok].type = "refresh"
                               /\ token[req[c].tok].fam = req[c].fam
    /\ req[c].at = "refresh" => req[c].access \in DOMAIN token

RequestsOK == \A c \in Clients : RequestOK(c)

LiveOf(t, f) == Live(t) /\ token[t].fam = f

\* A request that will add to the family, or rotate what is not live any more.
Adds(c, f) ==
    /\ req[c].fam = f
    /\ \/ req[c].at \in {"reload", "access", "refresh"}
       \/ req[c].at = "rotate" /\ ~Live(req[c].tok)

Rotates(c, t) == req[c].at = "rotate" /\ req[c].tok = t

OneUnit ==
    \A f \in Family \ forked :
        /\ \A t, u \in DOMAIN token : LiveOf(t, f) /\ LiveOf(u, f) => t = u
        /\ \A c, d \in Clients : Adds(c, f) /\ Adds(d, f) => c = d
        /\ \A c \in Clients, t \in DOMAIN token : ~(Adds(c, f) /\ LiveOf(t, f))
        /\ \A t \in DOMAIN token : token[t].fam = f =>
              \A c, d \in Clients : Rotates(c, t) /\ Rotates(d, t) => c = d

\* A request past its check in a family that was ended will mark what it adds.
RacedAreMarked ==
    \A f \in ended :
        /\ \A t \in DOMAIN token : LiveOf(t, f) => "raced" \in mark[t]
        /\ \A c \in Clients : PastCheck(req[c]) /\ req[c].fam = f => "raced" \in req[c].marks

\* The role a request has read is the one the user has, unless it is marked.
RoleIsRead ==
    \A c \in Clients : req[c].at = "access" /\ "stale" \notin req[c].marks => req[c].role = member

SessionInv == OneUnit /\ RacedAreMarked /\ RoleIsRead /\ RoleIsCurrentUnlessStale

IInv == TypeOK /\ RequestsOK /\ SessionInv

-----------------------------------------------------------------------------
(* The table of the tokens: rows are appended and changed in place. *)

LEMMA RowAppended ==
    ASSUME TypeOK, NEW r \in Rows, NEW m \in SUBSET Marks
    PROVE  /\ Append(token, r) \in Seq(Rows)
           /\ Len(Append(token, r)) = Len(token) + 1
           /\ DOMAIN Append(token, r) = DOMAIN token \union {Len(token) + 1}
           /\ Len(token) + 1 \notin DOMAIN token
           /\ \A t \in DOMAIN token : Append(token, r)[t] = token[t]
           /\ Append(token, r)[Len(token) + 1] = r
           /\ Append(mark, m) \in Seq(SUBSET Marks)
           /\ Len(Append(mark, m)) = Len(token) + 1
           /\ \A t \in DOMAIN token : Append(mark, m)[t] = mark[t]
           /\ Append(mark, m)[Len(token) + 1] = m
BY DEF TypeOK

LEMMA Mapped ==
    ASSUME NEW S, NEW s \in Seq(S), NEW s2, s2 = [t \in DOMAIN s |-> s2[t]],
           \A t \in DOMAIN s : s2[t] \in S
    PROVE  s2 \in Seq(S) /\ Len(s2) = Len(s) /\ DOMAIN s2 = DOMAIN s
OBVIOUS

\* What a request reads and writes of itself.
LEMMA RequestType ==
    ASSUME TypeOK, NEW c \in Clients
    PROVE  /\ req[c] \in Reqs
           /\ Idle \in Reqs
           /\ \A r \in Reqs : [req EXCEPT ![c] = r] \in [Clients -> Reqs]
<1>1. Idle \in Reqs
  BY DEF Reqs, Idle, Steps, Marks
<1> QED BY <1>1 DEF TypeOK

LEMMA RequestMarked ==
    ASSUME NEW r \in Reqs, NEW m \in Marks
    PROVE  [r EXCEPT !.marks = @ \union {m}] \in Reqs
<1>1. r.marks \union {m} \in SUBSET Marks
  BY DEF Reqs
<1> QED BY <1>1 DEF Reqs

LEMMA RequestUpdated ==
    ASSUME NEW r \in Reqs, NEW at \in Steps, NEW ro \in Roles \union {NoRole},
           NEW t \in Nat, NEW f \in Nat, NEW p \in Nat, NEW m \in SUBSET Marks
    PROVE  /\ [r EXCEPT !.at = at] \in Reqs
           /\ [r EXCEPT !.marks = m] \in Reqs
           /\ [r EXCEPT !.at = at, !.fam = f] \in Reqs
           /\ [r EXCEPT !.at = at, !.access = t] \in Reqs
           /\ [r EXCEPT !.at = at, !.role = ro] \in Reqs
           /\ [r EXCEPT !.at = at, !.role = ro, !.fam = f] \in Reqs
           /\ [r EXCEPT !.at = at, !.tok = t, !.fam = f, !.parent = p, !.marks = m] \in Reqs
BY DEF Reqs

LEMMA InitType == Init => TypeOK
<1>1. Idle \in Reqs
  BY DEF Reqs, Idle, Steps, Marks
<1>2. \A S : <<>> \in Seq(S) /\ Len(<<>>) = 0 /\ DOMAIN <<>> = {}
  OBVIOUS
<1>3. ASSUME Init PROVE TypeOK
  <2>1. token \in Seq(Rows) /\ mark \in Seq(SUBSET Marks) /\ Len(token) = 0 /\ Len(mark) = 0 /\ DOMAIN token = {}
    BY <1>2, <1>3 DEF Init
  <2>2. req \in [Clients -> Reqs]
    BY <1>1, <1>3 DEF Init
  <2>3. ticket \in BOOLEAN /\ member \in Roles \union {NoRole} /\ held = {} /\ ended = {} /\ forked = {}
    BY <1>3 DEF Init
  <2>4. 0 <= MaxTokens /\ families \in 0..MaxFamilies /\ changes \in 0..MaxChanges
    BY <1>3, SessionsAssumption DEF Init
  <2> QED BY <2>1, <2>2, <2>3, <2>4 DEF TypeOK
<1> QED BY <1>3

\* The first step of a login.
LEMMA LoginType ==
    ASSUME TypeOK, NEW c \in Clients, LoginWithEmail(c) \/ SelectOrganization(c)
    PROVE  TypeOK'
<1>0. member \in Roles \union {NoRole} /\ families + 1 \in Nat
  BY SessionsAssumption DEF TypeOK
<1>1. CASE generateTokenPair(c, member)
  <2>1. [Idle EXCEPT !.at = "access", !.role = member, !.fam = families + 1] \in Reqs
    BY <1>0, RequestType, RequestUpdated DEF Steps
  <2>2. req' \in [Clients -> Reqs]
    BY <1>1, <2>1, RequestType DEF generateTokenPair
  <2> QED BY <1>1, <2>2, SessionsAssumption, SMTT(60)
          DEF TypeOK, LoginWithEmail, SelectOrganization, generateTokenPair, Family, ghosts
<1>2. CASE ~generateTokenPair(c, member)
  BY <1>2 DEF TypeOK, LoginWithEmail, SelectOrganization, Family, ghosts
<1> QED BY <1>1, <1>2

\* The two rows of a pair.
LEMMA PairType ==
    ASSUME TypeOK, RequestsOK, NEW c \in Clients, generateAccessToken(c) \/ generateRefreshToken(c)
    PROVE  TypeOK'
<1>0. /\ req[c] \in Reqs /\ req[c].fam \in Family /\ families \in Nat
      /\ req[c].marks \in SUBSET Marks /\ req[c].role \in Roles \union {NoRole} /\ req[c].parent \in Nat
  BY RequestType, SessionsAssumption DEF TypeOK, RequestsOK, RequestOK, Reqs, generateAccessToken, generateRefreshToken
<1>1. req[c].fam \in Nat
  BY <1>0 DEF Family
<1>2. CASE generateAccessToken(c)
  <2> DEFINE r == Row("access", req[c].fam, 0, req[c].role)
  <2>1. r \in Rows /\ r.fam = req[c].fam
    BY <1>0, <1>1 DEF Row, Rows
  <2> HIDE DEF r
  <2>2. token' = Append(token, r) /\ mark' = Append(mark, req[c].marks)
    BY <1>2 DEF generateAccessToken, r
  <2>3. req' \in [Clients -> Reqs]
    <3>1. Len(token) + 1 \in Nat
      BY DEF TypeOK
    <3> QED BY <1>0, <1>2, <3>1, RequestType, RequestUpdated, ZenonT(60) DEF generateAccessToken, Steps
  <2>4. Len(token) + 1 <= MaxTokens
    BY <1>2, SessionsAssumption DEF generateAccessToken, TypeOK
  <2> QED BY <1>0, <1>2, <2>1, <2>2, <2>3, <2>4, RowAppended
          DEF TypeOK, generateAccessToken, Family
<1>3. CASE generateRefreshToken(c)
  <2> DEFINE r == Row("refresh", req[c].fam, req[c].parent, NoRole)
  <2>1. r \in Rows /\ r.fam = req[c].fam
    BY <1>0, <1>1 DEF Row, Rows
  <2> HIDE DEF r
  <2>2. token' = Append(token, r) /\ mark' = Append(mark, req[c].marks)
    BY <1>3 DEF generateRefreshToken, r
  <2>3. req' \in [Clients -> Reqs]
    BY <1>3, RequestType DEF generateRefreshToken
  <2>4. Len(token) + 1 <= MaxTokens
    BY <1>3, SessionsAssumption DEF generateRefreshToken, TypeOK
  <2>5. held' \subseteq DOMAIN token \union {Len(token) + 1}
    BY <1>3 DEF generateRefreshToken, TypeOK, RequestsOK, RequestOK
  <2> QED BY <1>0, <1>3, <2>1, <2>2, <2>3, <2>4, <2>5, RowAppended
          DEF TypeOK, generateRefreshToken, Family
<1> QED BY <1>2, <1>3

\* Steps that only move the request.
LEMMA MoveType ==
    ASSUME TypeOK, RequestsOK, NEW c \in Clients,
           (\E t \in held : RefreshTokens(c, t)) \/ ReloadMember(c) \/ Abort(c)
    PROVE  TypeOK'
<1>1. CASE \E t \in held : RefreshTokens(c, t)
  <2>1. PICK t \in held : RefreshTokens(c, t)
    BY <1>1
  <2>2. t \in Nat /\ token[t].fam \in Family /\ token[t].fam \in Nat /\ mark[t] \in SUBSET Marks
    BY DEF TypeOK, Family
  <2>3. req' \in [Clients -> Reqs]
    <3>1. CASE token[t].revoked
      <4>1. [Idle EXCEPT !.at = "reuse", !.fam = token[t].fam] \in Reqs
        BY <2>2, RequestType, RequestUpdated DEF Steps
      <4> QED BY <2>1, <3>1, <4>1, RequestType DEF RefreshTokens
    <3>2. CASE ~token[t].revoked
      <4>1. [Idle EXCEPT !.at = "rotate", !.tok = t, !.fam = token[t].fam, !.parent = t,
                         !.marks = mark[t] \ {"stale"}] \in Reqs
        BY <2>2, RequestType, RequestUpdated, ZenonT(60) DEF Steps
      <4> QED BY <2>1, <3>2, <4>1, RequestType DEF RefreshTokens
    <3> QED BY <3>1, <3>2
  <2>4. forked' \subseteq Family
    BY <2>1, <2>2 DEF RefreshTokens, TypeOK
  <2> QED BY <2>1, <2>3, <2>4 DEF TypeOK, RefreshTokens, Family
<1>2. CASE ReloadMember(c)
  <2>1. req' \in [Clients -> Reqs]
    BY <1>2, RequestType, RequestUpdated, ZenonT(60) DEF ReloadMember, TypeOK, Steps
  <2> QED BY <1>2, <2>1 DEF TypeOK, ReloadMember, Family, ghosts
<1>3. CASE Abort(c)
  <2>1. req' \in [Clients -> Reqs]
    BY <1>3, RequestType DEF Abort
  <2> QED BY <1>3, <2>1 DEF TypeOK, Abort, Family, ghosts
<1> QED BY <1>1, <1>2, <1>3

LEMMA RowChanged ==
    ASSUME TypeOK, NEW t \in DOMAIN token, NEW r \in Rows, r.fam = token[t].fam,
           token' = [token EXCEPT ![t] = r]
    PROVE  /\ token' \in Seq(Rows) /\ Len(token') = Len(token) /\ DOMAIN token' = DOMAIN token
           /\ token'[t] = r /\ \A u \in DOMAIN token \ {t} : token'[u] = token[u]
           /\ \A u \in DOMAIN token : token'[u].fam = token[u].fam
BY DEF TypeOK

LEMMA RowUpdated ==
    ASSUME NEW r \in Rows
    PROVE  /\ [r EXCEPT !.revoked = TRUE] \in Rows
           /\ [r EXCEPT !.expired = TRUE] \in Rows
           /\ \A x \in BOOLEAN : [r EXCEPT !.revoked = x] \in Rows
           /\ [r EXCEPT !.revoked = TRUE].fam = r.fam /\ [r EXCEPT !.expired = TRUE].fam = r.fam
BY DEF Rows

\* One row is revoked, by a rotation or by its id.
LEMMA RowType ==
    ASSUME TypeOK, RequestsOK, NEW c \in Clients,
           \/ RotateToken(c)
           \/ \E a \in held : \E r \in held \union {0} : RevokeToken(c, a, r)
    PROVE  TypeOK'
<1>0. \A t \in DOMAIN token : token[t] \in Rows /\ token[t].fam \in Family /\ token[t].fam \in Nat
  BY DEF TypeOK, Family
<1>1. CASE RotateToken(c)
  <2>1. req[c].tok \in DOMAIN token
    BY <1>1 DEF RotateToken, RequestsOK, RequestOK
  <2> DEFINE r == [token[req[c].tok] EXCEPT !.revoked = TRUE]
  <2>2. token' = [token EXCEPT ![req[c].tok] = r]
    BY <1>1 DEF RotateToken
  <2>3. r \in Rows /\ r.fam = token[req[c].tok].fam
    BY <1>0, <2>1, RowUpdated
  <2> HIDE DEF r
  <2>4. req' \in [Clients -> Reqs]
    BY <1>1, RequestType, RequestUpdated DEF RotateToken, Steps
  <2> QED BY <1>1, <2>1, <2>2, <2>3, <2>4, RowChanged DEF TypeOK, RotateToken, Family, ghosts
<1>2. CASE \E a \in held : \E r \in held \union {0} : RevokeToken(c, a, r)
  <2>1. PICK a \in held, r \in held \union {0} : RevokeToken(c, a, r)
    BY <1>2
  <2> DEFINE x == [token[a] EXCEPT !.revoked = TRUE]
  <2>2. a \in DOMAIN token /\ token' = [token EXCEPT ![a] = x]
    BY <2>1 DEF RevokeToken, TypeOK
  <2>3. x \in Rows /\ x.fam = token[a].fam
    BY <1>0, <2>2, RowUpdated
  <2> HIDE DEF x
  <2>4. req' \in [Clients -> Reqs]
    <3>1. CASE r = 0
      BY <2>1, <3>1 DEF RevokeToken, TypeOK
    <3>2. CASE r # 0
      <4>1. r \in DOMAIN token
        BY <3>2 DEF TypeOK
      <4>2. [Idle EXCEPT !.at = "logout", !.fam = token[r].fam] \in Reqs
        BY <1>0, <4>1, RequestType, RequestUpdated DEF Steps
      <4> QED BY <2>1, <3>2, <4>2, RequestType DEF RevokeToken
    <3> QED BY <3>1, <3>2
  <2> QED BY <2>1, <2>2, <2>3, <2>4, RowChanged DEF TypeOK, RevokeToken, Family, ghosts
<1> QED BY <1>1, <1>2

LEMMA ExpiryType ==
    ASSUME TypeOK, NEW t \in DOMAIN token, TokenExpires(t)
    PROVE  TypeOK'
<1>0. token[t] \in Rows
  BY DEF TypeOK
<1> DEFINE x == [token[t] EXCEPT !.expired = TRUE]
<1>1. token' = [token EXCEPT ![t] = x]
  BY DEF TokenExpires
<1>2. x \in Rows /\ x.fam = token[t].fam
  BY <1>0, RowUpdated
<1> HIDE DEF x
<1> QED BY <1>1, <1>2, RowChanged DEF TypeOK, TokenExpires, Family, ghosts

\* A family is revoked as a whole, and the requests past their check are marked.
LEMMA FamilyType ==
    ASSUME TypeOK, RequestsOK, NEW c \in Clients, DetectReuse(c) \/ RevokeRefreshTokenFamily(c)
    PROVE  TypeOK'
<1> DEFINE f == req[c].fam
<1>1. /\ f \in Family /\ RevokeTokenFamily(f) /\ NoteRaced(c, f)
      /\ UNCHANGED <<families, member, ticket, held, changes, forked, mark>>
  BY DEF DetectReuse, RevokeRefreshTokenFamily, RequestsOK, RequestOK
<1> HIDE DEF f
<1>2. token' = [t \in DOMAIN token |-> token'[t]]
  BY <1>1 DEF RevokeTokenFamily
<1>3. \A t \in DOMAIN token : token'[t] \in Rows /\ token'[t].fam = token[t].fam
  <2>1. \A t \in DOMAIN token : token[t] \in Rows
    BY DEF TypeOK
  <2>2. \A t \in DOMAIN token : token'[t] = [token[t] EXCEPT !.revoked = @ \/ token[t].fam = f]
    BY <1>1 DEF RevokeTokenFamily
  <2>3. ASSUME NEW t \in DOMAIN token
        PROVE  token'[t] \in Rows /\ token'[t].fam = token[t].fam
    <3>1. (token[t].revoked \/ token[t].fam = f) \in BOOLEAN
      OBVIOUS
    <3>2. [token[t] EXCEPT !.revoked = token[t].revoked \/ token[t].fam = f] \in Rows
      BY <2>1, <3>1, RowUpdated
    <3> QED BY <2>1, <2>2, <3>2 DEF Rows
  <2> QED BY <2>3
<1>4. token' \in Seq(Rows) /\ Len(token') = Len(token) /\ DOMAIN token' = DOMAIN token
  BY <1>2, <1>3, Mapped DEF TypeOK
<1>5. req' \in [Clients -> Reqs]
  <2>1. \A d \in Clients : req'[d] \in Reqs
    BY <1>1, RequestType, RequestMarked DEF NoteRaced, Marks
  <2> QED BY <1>1, <2>1 DEF NoteRaced
<1>6. ended' \subseteq Family
  BY <1>1 DEF RevokeTokenFamily, TypeOK
<1> QED BY <1>1, <1>3, <1>4, <1>5, <1>6 DEF TypeOK, Family

LEMMA MemberType ==
    ASSUME TypeOK, TicketExpires \/ MembershipChanges
    PROVE  TypeOK'
<1>1. CASE TicketExpires
  BY <1>1 DEF TypeOK, TicketExpires, Family, ghosts
<1>2. CASE MembershipChanges
  <2>1. mark' \in Seq(SUBSET Marks) /\ Len(mark') = Len(mark)
    <3>1. mark' = [t \in DOMAIN mark |-> mark'[t]]
      BY <1>2 DEF MembershipChanges
    <3>2. \A t \in DOMAIN mark : mark'[t] \in SUBSET Marks
      BY <1>2 DEF MembershipChanges, TypeOK, Marks
    <3> QED BY <3>1, <3>2, Mapped DEF TypeOK
  <2>2. req' \in [Clients -> Reqs]
    <3>1. \A d \in Clients : req'[d] \in Reqs
      BY <1>2, RequestType, RequestMarked DEF MembershipChanges, Marks
    <3> QED BY <1>2, <3>1 DEF MembershipChanges
  <2>3. changes' \in 0..MaxChanges /\ member' \in Roles \union {NoRole}
    BY <1>2, SessionsAssumption DEF MembershipChanges, TypeOK
  <2> QED BY <1>2, <2>1, <2>2, <2>3 DEF TypeOK, MembershipChanges, Family
<1> QED BY <1>1, <1>2

LEMMA TypeStep == ASSUME TypeOK, RequestsOK, [Next]_vars PROVE TypeOK'
<1>1. ASSUME NEW c \in Clients, LoginWithEmail(c) \/ SelectOrganization(c) PROVE TypeOK'
  BY <1>1, LoginType
<1>2. ASSUME NEW c \in Clients, generateAccessToken(c) \/ generateRefreshToken(c) PROVE TypeOK'
  BY <1>2, PairType
<1>3. ASSUME NEW c \in Clients, (\E t \in held : RefreshTokens(c, t)) \/ ReloadMember(c) \/ Abort(c)
      PROVE TypeOK'
  BY <1>3, MoveType
<1>4. ASSUME NEW c \in Clients,
             RotateToken(c) \/ \E a \in held : \E r \in held \union {0} : RevokeToken(c, a, r)
      PROVE TypeOK'
  BY <1>4, RowType
<1>5. ASSUME NEW t \in DOMAIN token, TokenExpires(t) PROVE TypeOK'
  BY <1>5, ExpiryType
<1>6. ASSUME NEW c \in Clients, DetectReuse(c) \/ RevokeRefreshTokenFamily(c) PROVE TypeOK'
  BY <1>6, FamilyType
<1>7. CASE TicketExpires \/ MembershipChanges
  BY <1>7, MemberType
<1>8. CASE UNCHANGED vars
  BY <1>8 DEF vars, TypeOK, Family
<1> QED BY <1>1, <1>2, <1>3, <1>4, <1>5, <1>6, <1>7, <1>8 DEF Next

-----------------------------------------------------------------------------
(* What every step leaves of the rows and the other requests. *)

Kept ==
    /\ Family \subseteq Family'
    /\ \A t \in DOMAIN token :
          /\ t \in DOMAIN token'
          /\ token'[t].type = token[t].type /\ token'[t].fam = token[t].fam
          /\ token[t].revoked => token'[t].revoked

LEMMA RowsKept == ASSUME TypeOK, RequestsOK, [Next]_vars PROVE Kept
<1>1. ASSUME NEW c \in Clients, LoginWithEmail(c) \/ SelectOrganization(c) PROVE Kept
  BY <1>1 DEF Kept, LoginWithEmail, SelectOrganization, generateTokenPair, Family, TypeOK
<1>2. ASSUME NEW c \in Clients, generateAccessToken(c) PROVE Kept
  BY <1>2 DEF Kept, generateAccessToken, Family, TypeOK
<1>3. ASSUME NEW c \in Clients, generateRefreshToken(c) PROVE Kept
  BY <1>3 DEF Kept, generateRefreshToken, Family, TypeOK
<1>4. ASSUME NEW c \in Clients, (\E t \in held : RefreshTokens(c, t)) \/ ReloadMember(c) \/ Abort(c)
      PROVE Kept
  BY <1>4 DEF Kept, RefreshTokens, ReloadMember, Abort, Family
<1>5. ASSUME NEW c \in Clients, RotateToken(c) PROVE Kept
  BY <1>5 DEF Kept, RotateToken, RequestsOK, RequestOK, Family, TypeOK, Rows
<1>6. ASSUME NEW c \in Clients, NEW a \in held, NEW r \in held \union {0}, RevokeToken(c, a, r) PROVE Kept
  BY <1>6 DEF Kept, RevokeToken, Family, TypeOK, Rows
<1>7. ASSUME NEW c \in Clients, DetectReuse(c) \/ RevokeRefreshTokenFamily(c) PROVE Kept
  <2>1. \A t \in DOMAIN token : token[t] \in Rows
    BY DEF TypeOK
  <2>2. /\ DOMAIN token' = DOMAIN token
        /\ \A t \in DOMAIN token : token'[t] = [token[t] EXCEPT !.revoked = @ \/ token[t].fam = req[c].fam]
    BY <1>7 DEF DetectReuse, RevokeRefreshTokenFamily, RevokeTokenFamily
  <2>3. families' = families
    BY <1>7 DEF DetectReuse, RevokeRefreshTokenFamily
  <2> QED BY <2>1, <2>2, <2>3 DEF Kept, Family, Rows
<1>8. ASSUME NEW t \in DOMAIN token, TokenExpires(t) PROVE Kept
  BY <1>8 DEF Kept, TokenExpires, Family, TypeOK, Rows
<1>9. CASE TicketExpires \/ MembershipChanges \/ UNCHANGED vars
  BY <1>9 DEF Kept, TicketExpires, MembershipChanges, Family, vars
<1> QED BY <1>1, <1>2, <1>3, <1>4, <1>5, <1>6, <1>7, <1>8, <1>9 DEF Next

Same(d) ==
    req'[d].at = req[d].at /\ req'[d].tok = req[d].tok /\ req'[d].fam = req[d].fam
    /\ req'[d].access = req[d].access

LEMMA SameIsOK ==
    ASSUME RequestsOK, Kept, NEW d \in Clients, Same(d) \/ req'[d] = Idle
    PROVE  RequestOK(d)'
BY DEF RequestsOK, RequestOK, Kept, Same, Idle

\* Only c moves.
Alone(c) == \A d \in Clients \ {c} : req'[d] = req[d]

LEMMA AloneIsSame == ASSUME NEW c \in Clients, Alone(c) PROVE \A d \in Clients \ {c} : Same(d)
BY DEF Alone, Same

\* Who is not the one that acts stays where it is.
LEMMA OthersStay ==
    ASSUME TypeOK, NEW c \in Clients
    PROVE  /\ \A r : req' = [req EXCEPT ![c] = r] => req'[c] = r /\ Alone(c)
           /\ \A f : NoteRaced(c, f) => /\ req'[c] = Idle
                                        /\ \A d \in Clients \ {c} : Same(d)
           /\ MembershipChanges => \A d \in Clients : Same(d)
           /\ UNCHANGED req => \A d \in Clients : Same(d)
<1>1. \A d \in Clients : \A m : LET s == [req[d] EXCEPT !.marks = m]
          IN s.at = req[d].at /\ s.tok = req[d].tok /\ s.fam = req[d].fam /\ s.access = req[d].access
  BY DEF Reqs, TypeOK
<1>2. \A r : req' = [req EXCEPT ![c] = r] => req'[c] = r /\ Alone(c)
  BY DEF Alone, TypeOK
<1>3. \A f : NoteRaced(c, f) => req'[c] = Idle /\ \A d \in Clients \ {c} : Same(d)
  BY <1>1 DEF NoteRaced, Same
<1>4. MembershipChanges => \A d \in Clients : Same(d)
  BY <1>1 DEF MembershipChanges, Same
<1>5. UNCHANGED req => \A d \in Clients : Same(d)
  BY DEF Same
<1> QED BY <1>2, <1>3, <1>4, <1>5

LEMMA RequestsStep == ASSUME TypeOK, RequestsOK, [Next]_vars PROVE RequestsOK'
<1>k. Kept
  BY RowsKept
<1>0. ASSUME NEW c \in Clients, Alone(c), RequestOK(c)' PROVE RequestsOK'
  BY <1>0, <1>k, AloneIsSame, SameIsOK DEF RequestsOK
<1>1. ASSUME NEW c \in Clients, LoginWithEmail(c) \/ SelectOrganization(c) PROVE RequestsOK'
  <2>1. CASE generateTokenPair(c, member)
    <3>1. Alone(c) /\ req'[c] = [Idle EXCEPT !.at = "access", !.role = member, !.fam = families + 1]
      BY <2>1, OthersStay DEF generateTokenPair
    <3>2. req'[c].at = "access" /\ req'[c].fam = families + 1
      BY <3>1 DEF Idle
    <3>3. families + 1 \in Family'
      BY <2>1, SessionsAssumption DEF Family, TypeOK, generateTokenPair
    <3>4. RequestOK(c)'
      BY <3>2, <3>3 DEF RequestOK
    <3> QED BY <1>0, <3>1, <3>4
  <2>2. CASE ~generateTokenPair(c, member)
    BY <1>1, <1>k, <2>2, OthersStay, SameIsOK DEF RequestsOK, LoginWithEmail, SelectOrganization
  <2> QED BY <2>1, <2>2
<1>2. ASSUME NEW c \in Clients, generateAccessToken(c) PROVE RequestsOK'
  <2>1. Alone(c)
    BY <1>2 DEF generateAccessToken, Alone, TypeOK
  <2>2. Len(token) + 1 \in DOMAIN token'
    BY <1>2 DEF generateAccessToken, TypeOK
  <2>3. req'[c].at = "refresh" /\ req'[c].access = Len(token) + 1 /\ req'[c].fam = req[c].fam
    BY <1>2, RequestType DEF generateAccessToken, Reqs, TypeOK
  <2>4. RequestOK(c)'
    BY <1>2, <1>k, <2>2, <2>3 DEF RequestsOK, RequestOK, generateAccessToken, Kept
  <2> QED BY <1>0, <2>1, <2>4
<1>3. ASSUME NEW c \in Clients, generateRefreshToken(c) \/ Abort(c) PROVE RequestsOK'
  <2>1. req' = [req EXCEPT ![c] = Idle]
    BY <1>3 DEF generateRefreshToken, Abort
  <2>2. Alone(c) /\ req'[c] = Idle
    BY <2>1, OthersStay
  <2> QED BY <1>k, <1>0, <2>2, SameIsOK
<1>4. ASSUME NEW c \in Clients, NEW t \in held, RefreshTokens(c, t) PROVE RequestsOK'
  <2>1. t \in DOMAIN token /\ token[t].fam \in Family
    BY DEF TypeOK
  <2>2. Alone(c)
    BY <1>4, OthersStay DEF RefreshTokens
  <2>3. CASE token[t].revoked
    <3>1. req'[c] = [Idle EXCEPT !.at = "reuse", !.fam = token[t].fam]
      BY <1>4, <2>3, OthersStay DEF RefreshTokens
    <3>2. req'[c].at = "reuse" /\ req'[c].fam = token[t].fam
      BY <3>1 DEF Idle
    <3> QED BY <1>0, <1>k, <2>1, <2>2, <3>2 DEF RequestOK, Kept
  <2>4. CASE ~token[t].revoked
    <3>1. req'[c] = [Idle EXCEPT !.at = "rotate", !.tok = t, !.fam = token[t].fam, !.parent = t,
                                 !.marks = mark[t] \ {"stale"}]
      BY <1>4, <2>4, OthersStay DEF RefreshTokens
    <3>2. req'[c].at = "rotate" /\ req'[c].fam = token[t].fam /\ req'[c].tok = t
      BY <3>1 DEF Idle
    <3>3. token[t].type = "refresh"
      BY <1>4 DEF RefreshTokens
    <3> QED BY <1>0, <1>k, <2>1, <2>2, <3>2, <3>3 DEF RequestOK, Kept
  <2> QED BY <2>3, <2>4
<1>5. ASSUME NEW c \in Clients, RotateToken(c) PROVE RequestsOK'
  <2>1. Alone(c) /\ req'[c] = [req[c] EXCEPT !.at = "reload"]
    BY <1>5, OthersStay DEF RotateToken
  <2>2. req'[c].at = "reload" /\ req'[c].fam = req[c].fam
    BY <2>1, RequestType DEF Reqs
  <2> QED BY <1>0, <1>5, <1>k, <2>1, <2>2 DEF RequestsOK, RequestOK, RotateToken, Kept
<1>6. ASSUME NEW c \in Clients, ReloadMember(c) PROVE RequestsOK'
  <2>1. CASE member = NoRole
    <3>1. Alone(c) /\ req'[c] = Idle
      BY <1>6, <2>1, OthersStay DEF ReloadMember
    <3> QED BY <1>0, <1>k, <3>1, SameIsOK
  <2>2. CASE member # NoRole
    <3>1. Alone(c)
      BY <1>6, <2>2 DEF ReloadMember, Alone, TypeOK
    <3>2. req'[c].at = "access" /\ req'[c].fam = req[c].fam
      BY <1>6, <2>2, RequestType DEF ReloadMember, Reqs, TypeOK
    <3> QED BY <1>0, <1>6, <1>k, <3>1, <3>2 DEF RequestsOK, RequestOK, ReloadMember, Kept
  <2> QED BY <2>1, <2>2
<1>7. ASSUME NEW c \in Clients, DetectReuse(c) \/ RevokeRefreshTokenFamily(c) PROVE RequestsOK'
  BY <1>7, <1>k, OthersStay, SameIsOK DEF RequestsOK, DetectReuse, RevokeRefreshTokenFamily
<1>8. ASSUME NEW c \in Clients, NEW a \in held, NEW r \in held \union {0}, RevokeToken(c, a, r)
      PROVE RequestsOK'
  <2>1. CASE r = 0
    BY <1>8, <1>k, <2>1, OthersStay, SameIsOK DEF RequestsOK, RevokeToken
  <2>2. CASE r # 0
    <3>1. r \in DOMAIN token /\ token[r].fam \in Family
      BY <2>2 DEF TypeOK
    <3>2. Alone(c) /\ req'[c] = [Idle EXCEPT !.at = "logout", !.fam = token[r].fam]
      BY <1>8, <2>2, OthersStay DEF RevokeToken
    <3>3. req'[c].at = "logout" /\ req'[c].fam = token[r].fam
      BY <3>2 DEF Idle
    <3> QED BY <1>0, <1>k, <3>1, <3>2, <3>3 DEF RequestOK, Kept
  <2> QED BY <2>1, <2>2
<1>9. ASSUME NEW t \in DOMAIN token, TokenExpires(t) PROVE RequestsOK'
  BY <1>9, <1>k, OthersStay, SameIsOK DEF RequestsOK, TokenExpires
<1>10. CASE TicketExpires \/ MembershipChanges \/ UNCHANGED vars
  BY <1>10, <1>k, OthersStay, SameIsOK DEF RequestsOK, TicketExpires, vars, Same
<1> QED BY <1>1, <1>2, <1>3, <1>4, <1>5, <1>6, <1>7, <1>8, <1>9, <1>10 DEF Next

-----------------------------------------------------------------------------
(* The units of the families, the marks and the roles. *)

\* A step that leaves the rows alone and lets c end where it was.
LEMMA EndKeeps ==
    ASSUME IInv, NEW c \in Clients, Alone(c), req'[c] = Idle,
           UNCHANGED <<token, families, member, ended, forked, mark>>
    PROVE  SessionInv'
<1>1. OneUnit'
  BY DEF IInv, SessionInv, OneUnit, LiveOf, Live, Adds, Rotates, Alone, Idle, Family
<1>2. RacedAreMarked'
  BY DEF IInv, SessionInv, RacedAreMarked, LiveOf, Live, PastCheck, Alone, Idle
<1>3. RoleIsRead' /\ RoleIsCurrentUnlessStale'
  BY DEF IInv, SessionInv, RoleIsRead, RoleIsCurrentUnlessStale, ValidToken, Alone, Idle
<1> QED BY <1>1, <1>2, <1>3 DEF SessionInv

LEMMA FrameKeeps ==
    ASSUME IInv, UNCHANGED <<token, families, member, req, ended, forked, mark>>
    PROVE  SessionInv'
<1>1. OneUnit'
  BY DEF IInv, SessionInv, OneUnit, LiveOf, Live, Adds, Rotates, Family
<1>2. RacedAreMarked'
  BY DEF IInv, SessionInv, RacedAreMarked, LiveOf, Live, PastCheck
<1>3. RoleIsRead' /\ RoleIsCurrentUnlessStale'
  BY DEF IInv, SessionInv, RoleIsRead, RoleIsCurrentUnlessStale, ValidToken
<1> QED BY <1>1, <1>2, <1>3 DEF SessionInv

\* A login adds to a family that nothing belongs to yet.
LEMMA LoginKeeps ==
    ASSUME IInv, NEW c \in Clients, generateTokenPair(c, member), req[c].at = "idle",
           UNCHANGED <<token, member, ended, forked, mark>>
    PROVE  SessionInv'
<1> DEFINE f == families + 1
<1>0. TypeOK /\ RequestsOK
  BY DEF IInv
<1>1. Alone(c) /\ req'[c] = [Idle EXCEPT !.at = "access", !.role = member, !.fam = f]
  BY <1>0, OthersStay DEF generateTokenPair
<1>2. /\ Alone(c) /\ UNCHANGED <<token, member, ended, forked, mark>>
      /\ req'[c].at = "access" /\ req'[c].fam = f /\ req'[c].role = member /\ req'[c].marks = {}
  BY <1>1 DEF Idle
<1>3. /\ Family' = Family \union {f} /\ f \notin Family /\ ended \subseteq Family
      /\ \A t \in DOMAIN token : token[t].fam \in Family
  BY <1>0, SessionsAssumption DEF generateTokenPair, Family, TypeOK
<1>4. \A d \in Clients : req[d].at # "idle" => req[d].fam \in Family
  BY <1>0 DEF RequestsOK, RequestOK
<1> HIDE DEF f
<1>5. OneUnit'
  BY <1>2, <1>3, <1>4 DEF IInv, SessionInv, OneUnit, LiveOf, Live, Adds, Rotates, Alone
<1>6. RacedAreMarked'
  BY <1>2, <1>3 DEF IInv, SessionInv, RacedAreMarked, LiveOf, Live, PastCheck, Alone
<1>7. RoleIsRead' /\ RoleIsCurrentUnlessStale'
  BY <1>2 DEF IInv, SessionInv, RoleIsRead, RoleIsCurrentUnlessStale, ValidToken, Alone
<1> QED BY <1>5, <1>6, <1>7 DEF SessionInv

\* The access token of a pair is no unit, and carries the role that was read.
LEMMA AccessKeeps ==
    ASSUME IInv, NEW c \in Clients, generateAccessToken(c)
    PROVE  SessionInv'
<1> DEFINE n == Len(token) + 1
<1>0. TypeOK /\ RequestsOK
  BY DEF IInv
<1>1. Alone(c)
  BY <1>0 DEF generateAccessToken, Alone, TypeOK
<1>2. req'[c].at = "refresh" /\ req'[c].fam = req[c].fam /\ req'[c].marks = req[c].marks
  BY <1>0, RequestType DEF generateAccessToken, Reqs, TypeOK
<1>3. req[c].marks \in SUBSET Marks
  BY <1>0, RequestType DEF Reqs
<1>4. Row("access", req[c].fam, 0, req[c].role) \in Rows
  BY <1>0, RequestType DEF Rows, Row, Reqs
<1>5. /\ DOMAIN token' = DOMAIN token \union {n} /\ n \notin DOMAIN token
      /\ \A t \in DOMAIN token : token'[t] = token[t] /\ mark'[t] = mark[t]
      /\ token'[n] = Row("access", req[c].fam, 0, req[c].role) /\ mark'[n] = req[c].marks
  BY <1>0, <1>3, <1>4, RowAppended, ZenonT(60) DEF generateAccessToken
<1>6. token'[n].type = "access" /\ token'[n].role = req[c].role
  BY <1>5 DEF Row
<1>7. \A d \in Clients : req[d].at = "rotate" => req[d].tok \in DOMAIN token
  BY <1>0 DEF RequestsOK, RequestOK
<1>8. req[c].at = "access" /\ UNCHANGED <<families, member, ended, forked>>
  BY DEF generateAccessToken
<1> HIDE DEF n
<1>9. OneUnit'
  BY <1>1, <1>2, <1>5, <1>6, <1>7, <1>8, SMTT(60)
     DEF IInv, SessionInv, OneUnit, LiveOf, Live, Adds, Rotates, Alone, Family
<1>10. RacedAreMarked'
  BY <1>1, <1>2, <1>5, <1>6, <1>8 DEF IInv, SessionInv, RacedAreMarked, LiveOf, Live, PastCheck, Alone
<1>11. RoleIsRead' /\ RoleIsCurrentUnlessStale'
  BY <1>1, <1>2, <1>5, <1>6, <1>8 DEF IInv, SessionInv, RoleIsRead, RoleIsCurrentUnlessStale, ValidToken, Alone
<1> QED BY <1>9, <1>10, <1>11 DEF SessionInv

\* The refresh token is the unit that its request was.
LEMMA RefreshKeeps ==
    ASSUME IInv, NEW c \in Clients, generateRefreshToken(c)
    PROVE  SessionInv'
<1> DEFINE n == Len(token) + 1
<1>0. TypeOK /\ RequestsOK
  BY DEF IInv
<1>1. Alone(c) /\ req'[c] = Idle
  BY <1>0, OthersStay DEF generateRefreshToken
<1>3. req[c].marks \in SUBSET Marks
  BY <1>0, RequestType DEF Reqs
<1>4. Row("refresh", req[c].fam, req[c].parent, NoRole) \in Rows
  BY <1>0, RequestType DEF Rows, Row, Reqs
<1>5. /\ DOMAIN token' = DOMAIN token \union {n} /\ n \notin DOMAIN token
      /\ \A t \in DOMAIN token : token'[t] = token[t] /\ mark'[t] = mark[t]
      /\ token'[n] = Row("refresh", req[c].fam, req[c].parent, NoRole) /\ mark'[n] = req[c].marks
  BY <1>0, <1>3, <1>4, RowAppended, ZenonT(60) DEF generateRefreshToken
<1>6. token'[n].type = "refresh" /\ token'[n].fam = req[c].fam
  BY <1>5 DEF Row
<1>7. \A d \in Clients : req[d].at = "rotate" => req[d].tok \in DOMAIN token
  BY <1>0 DEF RequestsOK, RequestOK
<1>8. req[c].at = "refresh" /\ UNCHANGED <<families, member, ended, forked>>
  BY DEF generateRefreshToken
<1> HIDE DEF n
<1>9. OneUnit'
  BY <1>1, <1>5, <1>6, <1>7, <1>8
     DEF IInv, SessionInv, OneUnit, LiveOf, Live, Adds, Rotates, Alone, Family, Idle
<1>10. RacedAreMarked'
  BY <1>1, <1>5, <1>6, <1>8 DEF IInv, SessionInv, RacedAreMarked, LiveOf, Live, PastCheck, Alone, Idle
<1>11. RoleIsRead' /\ RoleIsCurrentUnlessStale'
  BY <1>1, <1>5, <1>6, <1>8
     DEF IInv, SessionInv, RoleIsRead, RoleIsCurrentUnlessStale, ValidToken, Alone, Idle
<1> QED BY <1>9, <1>10, <1>11 DEF SessionInv

\* The check of a live token adds no unit; two checks of one token fork its family.
LEMMA CheckKeeps ==
    ASSUME IInv, NEW c \in Clients, NEW t \in held, RefreshTokens(c, t)
    PROVE  SessionInv'
<1>0. TypeOK /\ RequestsOK /\ t \in DOMAIN token
  BY DEF IInv, TypeOK
<1>1. Alone(c) /\ UNCHANGED <<token, families, member, ended, mark>>
  BY <1>0, OthersStay DEF RefreshTokens
<1>2. CASE token[t].revoked
  <2>0. req'[c] = [Idle EXCEPT !.at = "reuse", !.fam = token[t].fam]
    BY <1>0, <1>2, OthersStay DEF RefreshTokens
  <2>1. req'[c].at = "reuse"
    BY <2>0 DEF Idle
  <2>2. forked' = forked
    BY <1>2 DEF RefreshTokens
  <2>3. OneUnit'
    BY <1>1, <2>1, <2>2 DEF IInv, SessionInv, OneUnit, LiveOf, Live, Adds, Rotates, Alone, Family
  <2>4. RacedAreMarked'
    BY <1>1, <2>1 DEF IInv, SessionInv, RacedAreMarked, LiveOf, Live, PastCheck, Alone
  <2>5. RoleIsRead' /\ RoleIsCurrentUnlessStale'
    BY <1>1, <2>1 DEF IInv, SessionInv, RoleIsRead, RoleIsCurrentUnlessStale, ValidToken, Alone
  <2> QED BY <2>3, <2>4, <2>5 DEF SessionInv
<1>3. CASE ~token[t].revoked
  <2> DEFINE f == token[t].fam
  <2>1. req'[c].at = "rotate" /\ req'[c].tok = t /\ req'[c].fam = f /\ req'[c].marks = mark[t] \ {"stale"}
    <3>1. req'[c] = [Idle EXCEPT !.at = "rotate", !.tok = t, !.fam = f, !.parent = t,
                                 !.marks = mark[t] \ {"stale"}]
      BY <1>0, <1>3, OthersStay DEF RefreshTokens
    <3> QED BY <3>1 DEF Idle
  <2>2. /\ forked \subseteq forked'
        /\ (\E d \in Clients : req[d].at = "rotate" /\ req[d].tok = t) => f \in forked'
        /\ LiveOf(t, f)
    BY <1>3 DEF RefreshTokens, LiveOf, Live
  <2> HIDE DEF f
  <2>3. OneUnit'
    BY <1>1, <2>1, <2>2 DEF IInv, SessionInv, OneUnit, LiveOf, Live, Adds, Rotates, Alone, Family
  <2>4. RacedAreMarked'
    BY <1>0, <1>1, <2>1, <2>2 DEF IInv, SessionInv, RacedAreMarked, LiveOf, Live, PastCheck, Alone
  <2>5. RoleIsRead' /\ RoleIsCurrentUnlessStale'
    BY <1>1, <2>1 DEF IInv, SessionInv, RoleIsRead, RoleIsCurrentUnlessStale, ValidToken, Alone
  <2> QED BY <2>3, <2>4, <2>5 DEF SessionInv
<1> QED BY <1>2, <1>3

\* The request takes over the unit of the token it revokes.
LEMMA RotateKeeps ==
    ASSUME IInv, NEW c \in Clients, RotateToken(c)
    PROVE  SessionInv'
<1> DEFINE t == req[c].tok
<1>0. TypeOK /\ RequestsOK
  BY DEF IInv
<1>1. /\ t \in DOMAIN token /\ token[t].type = "refresh" /\ token[t].fam = req[c].fam
      /\ req[c].at = "rotate"
      /\ \A d \in Clients : req[d].at = "rotate" => /\ req[d].tok \in DOMAIN token
                                                    /\ token[req[d].tok].fam = req[d].fam
  BY <1>0 DEF RotateToken, RequestsOK, RequestOK
<1>2. Alone(c) /\ req'[c] = [req[c] EXCEPT !.at = "reload"]
  BY <1>0, OthersStay DEF RotateToken
<1>3. /\ Alone(c) /\ UNCHANGED <<families, member, ended, forked, mark>>
      /\ req'[c].at = "reload" /\ req'[c].fam = req[c].fam /\ req'[c].marks = req[c].marks
  BY <1>0, <1>2, RequestType DEF Reqs, RotateToken, ghosts
<1>4. /\ DOMAIN token' = DOMAIN token /\ token'[t].revoked
      /\ \A u \in DOMAIN token \ {t} : token'[u] = token[u]
      /\ token'[t].fam = token[t].fam /\ token'[t].type = token[t].type
  <2>1. token[t] \in Rows
    BY <1>0, <1>1 DEF TypeOK
  <2> DEFINE r == [token[t] EXCEPT !.revoked = TRUE]
  <2>2. r.revoked /\ r.fam = token[t].fam /\ r.type = token[t].type
    BY <2>1 DEF Rows
  <2>3. token' = [token EXCEPT ![t] = r]
    BY DEF RotateToken
  <2> HIDE DEF r, t
  <2> QED BY <1>0, <1>1, <2>2, <2>3 DEF TypeOK
<1> HIDE DEF t
<1>5. OneUnit'
  BY <1>1, <1>3, <1>4 DEF IInv, SessionInv, OneUnit, LiveOf, Live, Adds, Rotates, Alone, Family, t
<1>6. RacedAreMarked'
  BY <1>1, <1>3, <1>4 DEF IInv, SessionInv, RacedAreMarked, LiveOf, Live, PastCheck, Alone
<1>7. RoleIsRead' /\ RoleIsCurrentUnlessStale'
  BY <1>1, <1>3, <1>4 DEF IInv, SessionInv, RoleIsRead, RoleIsCurrentUnlessStale, ValidToken, Alone
<1> QED BY <1>5, <1>6, <1>7 DEF SessionInv

LEMMA ReloadKeeps ==
    ASSUME IInv, NEW c \in Clients, ReloadMember(c)
    PROVE  SessionInv'
<1>0. TypeOK /\ RequestsOK
  BY DEF IInv
<1>1. req[c].at = "reload" /\ UNCHANGED <<token, families, member, ended, forked, mark>>
  BY DEF ReloadMember, ghosts
<1>2. CASE member = NoRole
  <2>1. Alone(c) /\ req'[c] = Idle
    BY <1>0, <1>2, OthersStay DEF ReloadMember
  <2> QED BY <1>1, <2>1, EndKeeps
<1>3. CASE member # NoRole
  <2>1. Alone(c)
    BY <1>0, <1>3 DEF ReloadMember, Alone, TypeOK
  <2>2. /\ req'[c].at = "access" /\ req'[c].fam = req[c].fam /\ req'[c].marks = req[c].marks
        /\ req'[c].role = member
    BY <1>0, <1>3, RequestType DEF ReloadMember, Reqs, TypeOK
  <2>3. OneUnit'
    BY <1>1, <2>1, <2>2 DEF IInv, SessionInv, OneUnit, LiveOf, Live, Adds, Rotates, Alone, Family
  <2>4. RacedAreMarked'
    BY <1>1, <2>1, <2>2 DEF IInv, SessionInv, RacedAreMarked, LiveOf, Live, PastCheck, Alone
  <2>5. RoleIsRead' /\ RoleIsCurrentUnlessStale'
    BY <1>1, <2>1, <2>2 DEF IInv, SessionInv, RoleIsRead, RoleIsCurrentUnlessStale, ValidToken, Alone
  <2> QED BY <2>3, <2>4, <2>5 DEF SessionInv
<1> QED BY <1>2, <1>3

\* Nothing is live in a family that was revoked; who rotates becomes its unit.
LEMMA FamilyKeeps ==
    ASSUME IInv, NEW c \in Clients, DetectReuse(c) \/ RevokeRefreshTokenFamily(c)
    PROVE  SessionInv'
<1> DEFINE f == req[c].fam
<1>0. TypeOK /\ RequestsOK
  BY DEF IInv
<1>1. /\ NoteRaced(c, f) /\ RevokeTokenFamily(f) /\ UNCHANGED <<families, member, forked, mark>>
      /\ req[c].at \in {"reuse", "logout"}
  BY DEF DetectReuse, RevokeRefreshTokenFamily
<1>2. \A d \in Clients : req[d].at = "rotate" => /\ req[d].tok \in DOMAIN token
                                                 /\ token[req[d].tok].fam = req[d].fam
  BY <1>0 DEF RequestsOK, RequestOK
<1> HIDE DEF f
<1>3. /\ DOMAIN token' = DOMAIN token
      /\ \A t \in DOMAIN token : /\ token'[t].type = token[t].type /\ token'[t].fam = token[t].fam
                                 /\ token'[t].expired = token[t].expired /\ token'[t].role = token[t].role
                                 /\ token'[t].revoked <=> token[t].revoked \/ token[t].fam = f
  <2>1. \A t \in DOMAIN token : token[t] \in Rows
    BY <1>0 DEF TypeOK
  <2>2. /\ DOMAIN token' = DOMAIN token
        /\ \A t \in DOMAIN token : token'[t] = [token[t] EXCEPT !.revoked = @ \/ token[t].fam = f]
    BY <1>1 DEF RevokeTokenFamily
  <2> QED BY <2>1, <2>2 DEF Rows
<1>4. req'[c].at = "idle" /\ \A d \in Clients \ {c} : Same(d)
  BY <1>0, <1>1, OthersStay DEF Idle
<1>5. \A d \in Clients \ {c} :
          /\ req'[d].role = req[d].role
          /\ req'[d].marks = IF PastCheck(req[d]) /\ req[d].fam = f
                             THEN req[d].marks \union {"raced"} ELSE req[d].marks
  BY <1>0, <1>1, RequestType DEF NoteRaced, Reqs
<1>6. OneUnit'
  <2>1. ASSUME NEW g \in Family \ forked
        PROVE  /\ \A t, u \in DOMAIN token : LiveOf(t, g)' /\ LiveOf(u, g)' => t = u
               /\ \A d, e \in Clients : Adds(d, g)' /\ Adds(e, g)' => d = e
               /\ \A d \in Clients, t \in DOMAIN token : ~(Adds(d, g)' /\ LiveOf(t, g)')
               /\ \A t \in DOMAIN token : token'[t].fam = g =>
                     \A d, e \in Clients : Rotates(d, t)' /\ Rotates(e, t)' => d = e
    <3>0. \A d \in Clients, t \in DOMAIN token : Rotates(d, t)' => Rotates(d, t)
      BY <1>4 DEF Same, Rotates
    <3>1. \A t \in DOMAIN token : LiveOf(t, g)' <=> LiveOf(t, g) /\ g # f
      BY <1>3 DEF LiveOf, Live
    <3>2. \A d \in Clients : Adds(d, g)' => \/ Adds(d, g)
                                            \/ /\ g = f /\ req[d].at = "rotate"
                                               /\ LiveOf(req[d].tok, g) /\ Rotates(d, req[d].tok)
      BY <1>2, <1>3, <1>4 DEF Adds, LiveOf, Live, Same, Rotates
    <3>3. /\ \A t, u \in DOMAIN token : LiveOf(t, g) /\ LiveOf(u, g) => t = u
          /\ \A d, e \in Clients : Adds(d, g) /\ Adds(e, g) => d = e
          /\ \A d \in Clients, t \in DOMAIN token : ~(Adds(d, g) /\ LiveOf(t, g))
          /\ \A t \in DOMAIN token : token[t].fam = g =>
                \A d, e \in Clients : Rotates(d, t) /\ Rotates(e, t) => d = e
      BY <2>1 DEF IInv, SessionInv, OneUnit
    <3>4. \A d, e \in Clients : Adds(d, g)' /\ Adds(e, g)' => d = e
      BY <1>2, <3>2, <3>3 DEF LiveOf
    <3>5. \A d \in Clients, t \in DOMAIN token : ~(Adds(d, g)' /\ LiveOf(t, g)')
      BY <3>1, <3>2, <3>3
    <3> QED BY <1>3, <3>0, <3>1, <3>3, <3>4, <3>5
  <2> QED BY <1>1, <1>3, <2>1 DEF OneUnit, Family
<1>a. \A d \in Clients :
          /\ req'[d].at = "access" => req[d].at = "access" /\ req'[d].role = req[d].role
          /\ PastCheck(req[d])' => /\ PastCheck(req[d]) /\ req'[d].fam = req[d].fam
                                   /\ req[d].marks \subseteq req'[d].marks
                                   /\ req[d].fam = f => "raced" \in req'[d].marks
          /\ req'[d].at = "access" => req[d].marks \subseteq req'[d].marks
  BY <1>4, <1>5 DEF Same, PastCheck
<1>b. \A t \in DOMAIN token : /\ \A g : LiveOf(t, g)' => LiveOf(t, g) /\ g # f
                              /\ ValidToken(t)' => ValidToken(t)
  BY <1>3 DEF LiveOf, Live, ValidToken
<1>7. RacedAreMarked'
  <2>1. ended' = ended \union {f}
    BY <1>1 DEF RevokeTokenFamily
  <2> QED BY <1>1, <1>3, <1>a, <1>b, <2>1 DEF IInv, SessionInv, RacedAreMarked
<1>8. RoleIsRead' /\ RoleIsCurrentUnlessStale'
  BY <1>1, <1>3, <1>a, <1>b DEF IInv, SessionInv, RoleIsRead, RoleIsCurrentUnlessStale
<1> QED BY <1>6, <1>7, <1>8 DEF SessionInv

\* A logout that names no family revokes an access token, which is no unit.
LEMMA LogoutKeeps ==
    ASSUME IInv, NEW c \in Clients, NEW a \in held, NEW r \in held \union {0}, RevokeToken(c, a, r)
    PROVE  SessionInv'
<1>0. TypeOK /\ RequestsOK /\ a \in DOMAIN token
  BY DEF IInv, TypeOK
<1>1. token[a].type = "access" /\ UNCHANGED <<families, member, ended, forked, mark>>
  BY DEF RevokeToken, ValidToken, ghosts
<1>2. /\ DOMAIN token' = DOMAIN token
      /\ \A u \in DOMAIN token \ {a} : token'[u] = token[u]
      /\ token'[a].fam = token[a].fam /\ token'[a].type = "access" /\ token'[a].revoked
  <2>1. token[a] \in Rows
    BY <1>0 DEF TypeOK
  <2> DEFINE x == [token[a] EXCEPT !.revoked = TRUE]
  <2>2. x.revoked /\ x.fam = token[a].fam /\ x.type = token[a].type
    BY <2>1 DEF Rows
  <2>3. token' = [token EXCEPT ![a] = x]
    BY DEF RevokeToken
  <2> HIDE DEF x
  <2> QED BY <1>0, <1>1, <2>2, <2>3 DEF TypeOK
<1>3. /\ Alone(c) /\ req[c].at = "idle"
      /\ req'[c].at \in {"idle", "logout"}
  <2>1. CASE r = 0
    BY <2>1 DEF RevokeToken, Alone
  <2>2. CASE r # 0
    <3>1. Alone(c) /\ req'[c] = [Idle EXCEPT !.at = "logout", !.fam = token[r].fam]
      BY <1>0, <2>2, OthersStay DEF RevokeToken
    <3>2. req'[c].at = "logout"
      BY <3>1 DEF Idle
    <3> QED BY <3>1, <3>2 DEF RevokeToken
  <2> QED BY <2>1, <2>2
<1>4. \A d \in Clients : req[d].at = "rotate" => req[d].tok \in DOMAIN token
  BY <1>0 DEF RequestsOK, RequestOK
<1>5. OneUnit'
  BY <1>0, <1>1, <1>2, <1>3, <1>4 DEF IInv, SessionInv, OneUnit, LiveOf, Live, Adds, Rotates, Alone, Family
<1>6. RacedAreMarked'
  BY <1>0, <1>1, <1>2, <1>3 DEF IInv, SessionInv, RacedAreMarked, LiveOf, Live, PastCheck, Alone
<1>7. RoleIsRead' /\ RoleIsCurrentUnlessStale'
  BY <1>0, <1>1, <1>2, <1>3 DEF IInv, SessionInv, RoleIsRead, RoleIsCurrentUnlessStale, ValidToken, Alone
<1> QED BY <1>5, <1>6, <1>7 DEF SessionInv

\* The revocation of a token does not depend on its age.
LEMMA ExpiryKeeps ==
    ASSUME IInv, NEW a \in DOMAIN token, TokenExpires(a)
    PROVE  SessionInv'
<1>0. TypeOK /\ RequestsOK
  BY DEF IInv
<1>1. UNCHANGED <<families, member, req, ended, forked, mark>>
  BY DEF TokenExpires, ghosts
<1>2. /\ DOMAIN token' = DOMAIN token
      /\ \A u \in DOMAIN token \ {a} : token'[u] = token[u]
      /\ token'[a].fam = token[a].fam /\ token'[a].type = token[a].type
      /\ token'[a].revoked = token[a].revoked /\ token'[a].expired
  <2>1. token[a] \in Rows
    BY <1>0 DEF TypeOK
  <2> DEFINE x == [token[a] EXCEPT !.expired = TRUE]
  <2>2. x.expired /\ x.fam = token[a].fam /\ x.type = token[a].type /\ x.revoked = token[a].revoked
    BY <2>1 DEF Rows
  <2>3. token' = [token EXCEPT ![a] = x]
    BY DEF TokenExpires
  <2> HIDE DEF x
  <2> QED BY <1>0, <2>2, <2>3 DEF TypeOK
<1>3. \A d \in Clients : req[d].at = "rotate" => req[d].tok \in DOMAIN token
  BY <1>0 DEF RequestsOK, RequestOK
<1>4. OneUnit'
  BY <1>1, <1>2, <1>3 DEF IInv, SessionInv, OneUnit, LiveOf, Live, Adds, Rotates, Family
<1>5. RacedAreMarked'
  BY <1>1, <1>2 DEF IInv, SessionInv, RacedAreMarked, LiveOf, Live, PastCheck
<1>6. RoleIsRead' /\ RoleIsCurrentUnlessStale'
  BY <1>1, <1>2 DEF IInv, SessionInv, RoleIsRead, RoleIsCurrentUnlessStale, ValidToken
<1> QED BY <1>4, <1>5, <1>6 DEF SessionInv

\* A change of the membership marks what carries the role it had.
LEMMA MembershipKeeps ==
    ASSUME IInv, MembershipChanges
    PROVE  SessionInv'
<1>0. TypeOK /\ RequestsOK
  BY DEF IInv
<1>1. UNCHANGED <<token, families, ended, forked>>
  BY DEF MembershipChanges
<1>2. \A t \in DOMAIN token : mark'[t] = mark[t] \union {"stale"}
  BY <1>0 DEF MembershipChanges, TypeOK
<1>3. \A d \in Clients : /\ Same(d)
                         /\ req[d].marks \subseteq req'[d].marks
                         /\ req[d].at = "access" => "stale" \in req'[d].marks
  <2>1. \A d \in Clients : req[d] \in Reqs
    BY <1>0 DEF TypeOK
  <2> QED BY <2>1 DEF MembershipChanges, Same, Reqs
<1>a. /\ \A d \in Clients : \A x : (Adds(d, x)' <=> Adds(d, x)) /\ (Rotates(d, x)' <=> Rotates(d, x))
      /\ \A t, x : LiveOf(t, x)' <=> LiveOf(t, x)
      /\ \A d \in Clients : PastCheck(req[d])' <=> PastCheck(req[d])
      /\ Family' = Family
  BY <1>1, <1>3 DEF LiveOf, Live, Adds, Rotates, Family, Same, PastCheck
<1>4. OneUnit'
  BY <1>1, <1>a DEF IInv, SessionInv, OneUnit
<1>5. RacedAreMarked'
  <2>1. \A t \in DOMAIN token : mark[t] \subseteq mark'[t]
    BY <1>2
  <2>2. \A d \in Clients : req[d].marks \subseteq req'[d].marks /\ req'[d].fam = req[d].fam
    BY <1>3 DEF Same
  <2> QED BY <1>1, <1>a, <2>1, <2>2 DEF IInv, SessionInv, RacedAreMarked
<1>6. RoleIsRead' /\ RoleIsCurrentUnlessStale'
  <2>1. \A d \in Clients : req'[d].at = "access" => "stale" \in req'[d].marks
    BY <1>3 DEF Same
  <2>2. \A t \in DOMAIN token' : "stale" \in mark'[t]
    BY <1>1, <1>2
  <2> QED BY <2>1, <2>2 DEF RoleIsRead, RoleIsCurrentUnlessStale
<1> QED BY <1>4, <1>5, <1>6 DEF SessionInv

LEMMA SessionStep == ASSUME IInv, [Next]_vars PROVE SessionInv'
<1>0. TypeOK
  BY DEF IInv
<1>1. ASSUME NEW c \in Clients, LoginWithEmail(c) \/ SelectOrganization(c) PROVE SessionInv'
  <2>1. CASE generateTokenPair(c, member)
    BY <1>1, <2>1, LoginKeeps DEF LoginWithEmail, SelectOrganization, ghosts
  <2>2. CASE ~generateTokenPair(c, member)
    BY <1>1, <2>2, FrameKeeps DEF LoginWithEmail, SelectOrganization, ghosts
  <2> QED BY <2>1, <2>2
<1>2. ASSUME NEW c \in Clients, Abort(c) PROVE SessionInv'
  <2>1. Alone(c) /\ req'[c] = Idle
    BY <1>0, <1>2, OthersStay DEF Abort
  <2> QED BY <1>2, <2>1, EndKeeps DEF Abort, ghosts
<1>3. CASE TicketExpires \/ UNCHANGED vars
  BY <1>3, FrameKeeps DEF TicketExpires, vars, ghosts
<1> QED BY <1>1, <1>2, <1>3, AccessKeeps, RefreshKeeps, CheckKeeps, RotateKeeps, ReloadKeeps, FamilyKeeps,
           LogoutKeeps, ExpiryKeeps, MembershipKeeps DEF Next

-----------------------------------------------------------------------------
LEMMA Inductive == Spec => []IInv
<1>1. Init => IInv
  <2>1. Init => RequestsOK /\ SessionInv
    BY DEF Init, RequestsOK, RequestOK, SessionInv, OneUnit, Adds, Rotates, RacedAreMarked, RoleIsRead,
           RoleIsCurrentUnlessStale, Idle, Family
  <2> QED BY <2>1, InitType DEF IInv
<1>2. IInv /\ [Next]_vars => IInv'
  BY TypeStep, RequestsStep, SessionStep DEF IInv
<1> QED BY <1>1, <1>2, PTL DEF Spec

(* The rows of the tokens, the requests and the history keep their types,   *)
(* and every row is of a family that was begun.                            *)
THEOREM SessionTypes == Spec => []TypeOK
<1>1. IInv => TypeOK
  BY DEF IInv
<1> QED BY <1>1, Inductive, PTL

(* RefreshTokens, RotateToken and RevokeTokenFamily leave a session with    *)
(* one live refresh token or one on its way, and with none once reuse or    *)
(* logout ended it, unless two requests rotated the same token at once or a *)
(* refresh had passed its check before the end.                            *)
THEOREM FamiliesEnd == Spec => []FamiliesEndUnlessRaced
<1>1. IInv => OneLiveUnlessForked
  BY DEF IInv, SessionInv, OneUnit, OneLiveUnlessForked, LiveIn, Coming, LiveOf, Live, Adds
<1>2. IInv => EndedUnlessRaced
  BY DEF IInv, SessionInv, RacedAreMarked, EndedUnlessRaced, LiveIn, LiveOf, Live
<1>3. IInv => FamiliesEndUnlessRaced
  BY <1>1, <1>2 DEF FamiliesEndUnlessRaced
<1> QED BY <1>3, Inductive, PTL

(* An access token that ValidateToken accepts carries the role its user has *)
(* now, unless the membership changed after ReloadMember or the login had   *)
(* read it.                                                                *)
THEOREM RoleIsCurrent == Spec => []RoleIsCurrentUnlessStale
<1>1. IInv => RoleIsCurrentUnlessStale
  BY DEF IInv, SessionInv
<1> QED BY <1>1, Inductive, PTL

-----------------------------------------------------------------------------
(* The teams (Teams), whose requests are asked here.  A request on the      *)
(* repository that nothing has moved since it read the row still has the    *)
(* owner in hand (Reading), so a developer it lets act is on the owning     *)
(* team (Entitled); and whoever writes an owner notes the team when it is   *)
(* not live.                                                                *)

CONSTANTS Members, Lead, Slugs, MaxTeams, MaxRequests
VARIABLES asked, requests, moves

T == INSTANCE Teams WITH req <- asked, changes <- moves

\* There is a slug for the team that begins, and room for it.
Room == Slugs # {} /\ MaxTeams \in Nat \ {0}

TeamRow == [slug : Slugs, live : BOOLEAN]
Ops == {"createTeam", "updateTeam", "deleteTeam", "addMember", "removeMember", "setOwner",
        "updateRepository", "actOnHost", T!None}
Places == {"idle", "begun", "insert", "lead", "member", "write", "authorize", "act"}
Request == [at : Places, op : Ops, by : Members \union {T!None}, team : T!TeamIds,
            slug : Slugs \union {T!None}, user : Members \union {T!None}, owner : Nat, moved : BOOLEAN]

TeamShapes ==
    /\ role \in [Members -> T!UserRoles \union {T!None}]
    /\ claim \in [Members -> T!UserRoles \union {T!None}]
    /\ team \in Seq(TeamRow)
    /\ Len(team) <= MaxTeams
    /\ seat \subseteq (DOMAIN team) \X Members
    /\ owner \in {0} \union DOMAIN team
    /\ asked \in [Clients -> Request]

Ours == {"updateRepository", "actOnHost"}

\* What the steps of a request rely on.
AskedOK(r) ==
    /\ r.at # "idle" => r.by \in Members
    /\ r.owner \in {0} \union DOMAIN team
    /\ r.op = "createTeam" => r.slug \in Slugs
    /\ r.op = "createTeam" /\ r.at = "lead" => r.team \in DOMAIN team
    /\ r.op \in {"addMember", "removeMember"} => r.user \in Members
    /\ r.op \in {"updateTeam", "deleteTeam", "addMember", "removeMember"}
          /\ r.at \in {"write", "member"} => r.team \in DOMAIN team
    /\ r.at \in {"authorize", "act"} => r.op \in Ours
    /\ r.op = "setOwner" /\ r.at = "write" => r.team \in {0} \union DOMAIN team

\* A request that nothing has moved has the owner in hand, when it is live.
Reading(r) == r.op \in Ours /\ r.at \in {"authorize", "act"} /\ ~r.moved
                 => r.owner = IF T!LiveTeam(owner) THEN owner ELSE 0

\* Who may act is a maintainer, or a developer on the owning team or overtaken.
Entitled(r) == r.op \in Ours /\ r.at = "act"
                  => \/ T!HasPermission(claim[r.by], "maintainer")
                     \/ /\ T!HasPermission(claim[r.by], "developer")
                        /\ r.moved \/ (owner # 0 /\ owner \in T!TeamsOf(r.by))

TeamOK(r) == AskedOK(r) /\ Reading(r) /\ Entitled(r)
AllAskedOK == \A c \in Clients : TeamOK(asked[c])

TeamInv ==
    /\ Room /\ TeamShapes /\ AllAskedOK
    /\ T!OwnerIsLiveUnlessRaced
    /\ T!WritesAreEntitledUnlessMoved

-----------------------------------------------------------------------------
(* What a step does to the requests *)

LEMMA IdleIsRequest ==
    ASSUME Room
    PROVE  T!Idle \in Request /\ T!Idle.at = "idle" /\ T!Idle.op = "none" /\ T!Idle.owner = 0
  <1>1. 0 \in T!TeamIds
    BY DEF Room, T!TeamIds
  <1>. QED  BY <1>1 DEF T!Idle, Request, Places, Ops, T!None

LEMMA IdleIsOK ==
    ASSUME Room
    PROVE  TeamOK(T!Idle) /\ TeamOK(T!Idle)'
  BY IdleIsRequest DEF TeamOK, AskedOK, Reading, Entitled, Ours

\* The rows of the teams stay where they are.
Grows == DOMAIN team \subseteq DOMAIN team'

\* Nobody can tell the owner and its members from what they were.
OwnerStays ==
    /\ owner' = owner
    /\ T!LiveTeam(owner)' <=> T!LiveTeam(owner)
    /\ owner # 0 => \A u : owner \in T!TeamsOf(u) => (owner \in T!TeamsOf(u))'

LEMMA RequestStays ==
    ASSUME Grows, OwnerStays, claim' = claim, NEW r \in Request, TeamOK(r)
    PROVE  TeamOK(r)'
  <1>1. AskedOK(r)'
    BY DEF TeamOK, AskedOK, Grows
  <1>2. Reading(r)'
    BY DEF TeamOK, Reading, OwnerStays
  <1>3. Entitled(r)'
    BY DEF TeamOK, Entitled, OwnerStays
  <1>. QED  BY <1>1, <1>2, <1>3 DEF TeamOK

LEMMA RequestMoves ==
    ASSUME Grows, claim' = claim, NEW r \in Request, TeamOK(r), NEW m, m = [r EXCEPT !.moved = TRUE]
    PROVE  m \in Request /\ TeamOK(m)'
  <1>1. /\ m \in Request /\ m.moved
        /\ m.at = r.at /\ m.op = r.op /\ m.by = r.by /\ m.team = r.team /\ m.slug = r.slug
        /\ m.user = r.user /\ m.owner = r.owner
    BY DEF Request
  <1>2. AskedOK(m)'
    BY <1>1 DEF TeamOK, AskedOK, Grows
  <1>3. Reading(m)' /\ Entitled(m)'
    BY <1>1 DEF TeamOK, Reading, Entitled
  <1>. QED  BY <1>1, <1>2, <1>3 DEF TeamOK

\* A request goes on, or ends, and the others do not notice.
LEMMA OtherAskedStay ==
    ASSUME TeamInv, NEW c \in Clients, NEW r \in Request, asked' = [asked EXCEPT ![c] = r],
           Grows, OwnerStays, claim' = claim, TeamOK(r)'
    PROVE  asked' \in [Clients -> Request] /\ AllAskedOK'
  <1>1. asked' \in [Clients -> Request]
    BY DEF TeamInv, TeamShapes
  <1>2. ASSUME NEW d \in Clients
        PROVE  TeamOK(asked[d])'
    <2>1. CASE d = c
      BY <2>1 DEF TeamInv, TeamShapes
    <2>2. CASE d # c
      <3>1. PICK q \in Request : q = asked[d] /\ q = asked'[d]
        BY <2>2 DEF TeamInv, TeamShapes
      <3>2. TeamOK(q)
        BY <3>1 DEF TeamInv, AllAskedOK
      <3>3. TeamOK(q)'
        BY <3>2, RequestStays
      <3>. QED  BY <3>1, <3>3
    <2>. QED  BY <2>1, <2>2
  <1>. QED  BY <1>1, <1>2 DEF AllAskedOK

\* A request is done, and the others are told.
LEMMA OthersMove ==
    ASSUME TeamInv, NEW c \in Clients, asked' = T!Moved(c), Grows, claim' = claim
    PROVE  asked' \in [Clients -> Request] /\ AllAskedOK'
  <1>1. ASSUME NEW d \in Clients
        PROVE  asked'[d] \in Request /\ TeamOK(asked[d])'
    <2>1. CASE d = c
      <3>1. asked'[d] = T!Idle
        BY <2>1 DEF T!Moved
      <3>. QED  BY <3>1, IdleIsRequest, IdleIsOK DEF TeamInv
    <2>2. CASE d # c
      <3>1. PICK q \in Request : q = asked[d]
        BY DEF TeamInv, TeamShapes
      <3>2. TeamOK(q)
        BY <3>1 DEF TeamInv, AllAskedOK
      <3>3. PICK m : m = [q EXCEPT !.moved = TRUE]
        OBVIOUS
      <3>4. asked'[d] = m
        BY <2>2, <3>1, <3>3 DEF T!Moved
      <3>5. m \in Request /\ TeamOK(m)'
        BY <3>2, <3>3, RequestMoves
      <3>. QED  BY <3>4, <3>5
    <2>. QED  BY <2>1, <2>2
  <1>2. asked' \in [Clients -> Request]
    BY <1>1 DEF T!Moved
  <1>. QED  BY <1>1, <1>2 DEF AllAskedOK

\* The fields of a request that goes to another place.
LEMMA GoesOn ==
    ASSUME TeamShapes, NEW c \in Clients, NEW at \in Places
    PROVE  LET r == [asked[c] EXCEPT !.at = at] IN
           /\ r \in Request /\ r.at = at
           /\ r.op = asked[c].op /\ r.by = asked[c].by /\ r.team = asked[c].team
           /\ r.slug = asked[c].slug /\ r.user = asked[c].user /\ r.owner = asked[c].owner
           /\ r.moved = asked[c].moved
           /\ [asked EXCEPT ![c].at = at] = [asked EXCEPT ![c] = r]
  <1>1. asked[c] \in Request
    BY DEF TeamShapes
  <1>2. [asked EXCEPT ![c].at = at] = [asked EXCEPT ![c] = [asked[c] EXCEPT !.at = at]]
    BY DEF TeamShapes
  <1>. QED  BY <1>1, <1>2 DEF Request

\* A request goes to another place and nothing else changes.
LEMMA GotoOK ==
    ASSUME TeamInv, NEW c \in Clients, NEW at \in Places, T!Goto(c, at), T!Reads, asked[c].at # "idle",
           AskedOK(asked[c]),
           asked[c].op = "createTeam" => at # "lead",
           asked[c].op \in {"updateTeam", "deleteTeam", "addMember", "removeMember"}
              /\ at \in {"write", "member"} => asked[c].team \in DOMAIN team,
           asked[c].op = "setOwner" /\ at = "write" => asked[c].team \in {0} \union DOMAIN team,
           asked[c].op \in Ours => at = "act" /\ asked[c].at = "authorize",
           at \in {"authorize", "act"} => asked[c].op \in Ours,
           asked[c].op \in Ours =>
              \/ T!HasPermission(claim[asked[c].by], "maintainer")
              \/ T!HasPermission(claim[asked[c].by], "developer") /\ asked[c].owner \in T!TeamsOf(asked[c].by)
    PROVE  asked' \in [Clients -> Request] /\ AllAskedOK'
  <1>0. TeamShapes /\ TeamOK(asked[c]) /\ Room
    BY DEF TeamInv, AllAskedOK
  <1>. DEFINE new == [asked[c] EXCEPT !.at = at]
  <1>1. /\ new \in Request /\ new.at = at
        /\ new.op = asked[c].op /\ new.by = asked[c].by /\ new.team = asked[c].team
        /\ new.slug = asked[c].slug /\ new.user = asked[c].user /\ new.owner = asked[c].owner
        /\ new.moved = asked[c].moved
        /\ asked' = [asked EXCEPT ![c] = new]
    BY <1>0, GoesOn DEF T!Goto
  <1>. HIDE DEF new
  <1>2. PICK r \in Request :
           /\ r.at = at
           /\ r.op = asked[c].op /\ r.by = asked[c].by /\ r.team = asked[c].team
           /\ r.slug = asked[c].slug /\ r.user = asked[c].user /\ r.owner = asked[c].owner
           /\ r.moved = asked[c].moved
           /\ asked' = [asked EXCEPT ![c] = r]
    BY <1>1
  <1>3. AskedOK(r)
    BY <1>2 DEF AskedOK
  <1>4. Reading(r)
    BY <1>0, <1>2 DEF Reading, TeamOK
  <1>5. Entitled(r)
    <2>1. CASE r.op \in Ours /\ ~r.moved /\ ~T!HasPermission(claim[r.by], "maintainer")
      <3>1. /\ T!HasPermission(claim[r.by], "developer") /\ r.owner \in T!TeamsOf(r.by)
            /\ r.owner = IF T!LiveTeam(owner) THEN owner ELSE 0
        BY <1>0, <1>2, <2>1 DEF TeamOK, Reading
      <3>2. r.owner # 0
        BY <1>0, <3>1 DEF T!TeamsOf, TeamShapes
      <3>. QED  BY <3>1, <3>2 DEF Entitled
    <2>2. CASE ~(r.op \in Ours /\ ~r.moved /\ ~T!HasPermission(claim[r.by], "maintainer"))
      BY <1>2, <2>2 DEF Entitled
    <2>. QED  BY <2>1, <2>2
  <1>6. Grows /\ OwnerStays /\ claim' = claim
    BY DEF T!Reads, Grows, OwnerStays, T!LiveTeam, T!TeamsOf
  <1>7. TeamOK(r)'
    BY <1>3, <1>4, <1>5, <1>6, RequestStays DEF TeamOK
  <1>. QED  BY <1>2, <1>6, <1>7, OtherAskedStay

LEMMA EndOK ==
    ASSUME TeamInv, NEW c \in Clients, asked' = [asked EXCEPT ![c] = T!Idle], Grows, OwnerStays, claim' = claim
    PROVE  asked' \in [Clients -> Request] /\ AllAskedOK'
  <1>1. PICK r \in Request : r = T!Idle
    BY IdleIsRequest DEF TeamInv
  <1>2. TeamOK(r)'
    BY <1>1, IdleIsOK DEF TeamInv
  <1>. QED  BY <1>1, <1>2, OtherAskedStay

-----------------------------------------------------------------------------
(* The steps, one by one *)

\* Nothing but requests, seats and roles changes.
TeamsStay == team' = team /\ owner' = owner /\ overtaken' = overtaken /\ written' = written

LEMMA TeamsStayOK ==
    ASSUME TeamInv, TeamsStay
    PROVE  Grows /\ (T!OwnerIsLiveUnlessRaced /\ T!WritesAreEntitledUnlessMoved)'
  BY DEF TeamInv, TeamsStay, Grows, T!OwnerIsLiveUnlessRaced, T!WritesAreEntitledUnlessMoved, T!LiveTeam

\* What a step that leaves the teams alone has to show.
LEMMA QuietNext ==
    ASSUME TeamInv, TeamsStay, asked' \in [Clients -> Request], AllAskedOK',
           role' \in [Members -> T!UserRoles \union {T!None}],
           claim' \in [Members -> T!UserRoles \union {T!None}],
           seat' \subseteq (DOMAIN team) \X Members
    PROVE  TeamInv'
  <1>1. TeamShapes'
    BY DEF TeamInv, TeamShapes, TeamsStay
  <1>. QED  BY <1>1, TeamsStayOK DEF TeamInv, Room

LEMMA BeginNext ==
    ASSUME TeamInv, NEW c \in Clients, NEW op \in Ops \ {T!None}, NEW u \in Members, NEW t \in T!TeamIds,
           NEW slug \in Slugs \union {T!None}, NEW target \in Members \union {T!None},
           op = "createTeam" => slug \in Slugs,
           op \in {"addMember", "removeMember"} => target \in Members,
           T!Begin(c, op, u, t, slug, target)
    PROVE  TeamInv'
  <1>. DEFINE new == [T!Idle EXCEPT !.at = "begun", !.op = op, !.by = u, !.team = t,
                                  !.slug = slug, !.user = target]
  <1>1. /\ new \in Request /\ new.at = "begun" /\ new.op = op /\ new.by = u /\ new.team = t
        /\ new.slug = slug /\ new.user = target /\ new.owner = 0
    BY DEF T!Idle, Request, Places, Ops
  <1>2. asked' = [asked EXCEPT ![c] = new]
    BY DEF T!Begin
  <1>. HIDE DEF new
  <1>3. PICK r \in Request :
           /\ r.at = "begun" /\ r.op = op /\ r.by = u /\ r.team = t
           /\ r.slug = slug /\ r.user = target /\ r.owner = 0
           /\ asked' = [asked EXCEPT ![c] = r]
    BY <1>1, <1>2
  <1>4. TeamOK(r)
    BY <1>3 DEF TeamOK, AskedOK, Reading, Entitled
  <1>5. TeamsStay /\ Grows /\ OwnerStays /\ claim' = claim /\ role' = role /\ seat' = seat
    BY DEF T!Begin, TeamsStay, Grows, OwnerStays, T!LiveTeam, T!TeamsOf
  <1>6. TeamOK(r)'
    BY <1>4, <1>5, RequestStays
  <1>7. asked' \in [Clients -> Request] /\ AllAskedOK'
    BY <1>3, <1>5, <1>6, OtherAskedStay
  <1>. QED  BY <1>5, <1>7, QuietNext DEF TeamInv, TeamShapes

LEMMA ReadNext ==
    ASSUME TeamInv, NEW c \in Clients,
           \/ T!GetTeamBySlug(c) \/ T!GetScoped(c) \/ T!GetOrganizationMember(c)
           \/ T!SetRepositoryOwner(c) \/ T!CanWriteRepository(c) \/ T!Abandon(c)
    PROVE  TeamInv'
  <1>0. TeamShapes /\ TeamOK(asked[c]) /\ AskedOK(asked[c])
    BY DEF TeamInv, AllAskedOK, TeamOK
  <1>1. TeamsStay /\ T!Reads
    BY DEF TeamsStay, T!Reads, T!GetTeamBySlug, T!GetScoped, T!GetOrganizationMember, T!SetRepositoryOwner,
           T!CanWriteRepository, T!Abandon
  <1>2. Grows /\ OwnerStays /\ claim' = claim /\ role' = role /\ seat' = seat
    BY <1>1 DEF T!Reads, Grows, OwnerStays, T!LiveTeam, T!TeamsOf
  <1>3. CASE T!End(c)
    BY <1>2, <1>3, EndOK, <1>1, QuietNext DEF T!End, TeamInv, TeamShapes
  <1>4. CASE T!GetTeamBySlug(c) /\ ~T!End(c)
    <2>1. T!Goto(c, "insert") /\ asked[c].op = "createTeam" /\ asked[c].at # "idle"
      BY <1>4 DEF T!GetTeamBySlug, T!At
    <2>2. "insert" \in Places
      BY DEF Places
    <2>3. asked' \in [Clients -> Request] /\ AllAskedOK'
      BY <1>0, <1>1, <2>1, <2>2, GotoOK DEF Ours
    <2>. QED  BY <1>1, <1>2, <2>3, QuietNext DEF TeamInv, TeamShapes
  <1>5. CASE T!GetScoped(c) /\ ~T!End(c)
    <2>1. PICK at \in {"write", "member"} : T!Goto(c, at)
      BY <1>5 DEF T!GetScoped
    <2>2. /\ asked[c].op \in {"updateTeam", "deleteTeam", "addMember", "removeMember"}
          /\ asked[c].at # "idle" /\ asked[c].team \in DOMAIN team /\ at \in Places
      BY <1>5 DEF T!GetScoped, T!LiveTeam, Places
    <2>3. asked' \in [Clients -> Request] /\ AllAskedOK'
      BY <1>0, <1>1, <2>1, <2>2, GotoOK DEF Ours
    <2>. QED  BY <1>1, <1>2, <2>3, QuietNext DEF TeamInv, TeamShapes
  <1>6. CASE T!GetOrganizationMember(c) /\ ~T!End(c)
    <2>1. T!Goto(c, "write") /\ asked[c].op = "addMember" /\ asked[c].at = "member"
      BY <1>6 DEF T!GetOrganizationMember, T!At
    <2>2. "write" \in Places /\ asked[c].team \in DOMAIN team
      BY <1>0, <2>1 DEF Places, AskedOK
    <2>3. asked' \in [Clients -> Request] /\ AllAskedOK'
      BY <1>0, <1>1, <2>1, <2>2, GotoOK DEF Ours
    <2>. QED  BY <1>1, <1>2, <2>3, QuietNext DEF TeamInv, TeamShapes
  <1>7. CASE T!SetRepositoryOwner(c) /\ ~T!End(c)
    <2>1. /\ T!Goto(c, "write") /\ asked[c].op = "setOwner" /\ asked[c].at = "begun"
          /\ asked[c].team \in {0} \union DOMAIN team
      BY <1>7 DEF T!SetRepositoryOwner, T!At, T!LiveTeam
    <2>2. "write" \in Places
      BY DEF Places
    <2>3. asked' \in [Clients -> Request] /\ AllAskedOK'
      BY <1>0, <1>1, <2>1, <2>2, GotoOK DEF Ours
    <2>. QED  BY <1>1, <1>2, <2>3, QuietNext DEF TeamInv, TeamShapes
  <1>8. CASE T!CanWriteRepository(c) /\ ~T!End(c)
    <2>1. /\ T!Goto(c, "act") /\ asked[c].at = "authorize"
          /\ \/ T!HasPermission(claim[asked[c].by], "maintainer")
             \/ T!HasPermission(claim[asked[c].by], "developer") /\ asked[c].owner \in T!TeamsOf(asked[c].by)
      BY <1>8 DEF T!CanWriteRepository, T!At
    <2>2. "act" \in Places /\ asked[c].op \in Ours
      BY <1>0, <2>1 DEF Places, AskedOK
    <2>3. asked' \in [Clients -> Request] /\ AllAskedOK'
      BY <1>0, <1>1, <2>1, <2>2, GotoOK
    <2>. QED  BY <1>1, <1>2, <2>3, QuietNext DEF TeamInv, TeamShapes
  <1>. QED  BY <1>3, <1>4, <1>5, <1>6, <1>7, <1>8 DEF T!Abandon

\* The owner that is read is the live one.
LEMMA GetRepositoryNext ==
    ASSUME TeamInv, NEW c \in Clients, T!GetRepository(c)
    PROVE  TeamInv'
  <1>0. TeamShapes /\ AskedOK(asked[c]) /\ asked[c] \in Request
    BY DEF TeamInv, AllAskedOK, TeamOK, TeamShapes
  <1>1. TeamsStay /\ T!Reads
    BY DEF TeamsStay, T!Reads, T!GetRepository
  <1>2. Grows /\ OwnerStays /\ claim' = claim /\ role' = role /\ seat' = seat
    BY <1>1 DEF T!Reads, Grows, OwnerStays, T!LiveTeam, T!TeamsOf
  <1>3. PICK own \in Nat : own = IF T!LiveTeam(owner) THEN owner ELSE 0
    BY <1>0 DEF TeamShapes
  <1>. DEFINE new == [asked[c] EXCEPT !.at = "authorize", !.owner = own]
  <1>4. /\ new \in Request /\ new.at = "authorize" /\ new.owner = own
        /\ new.op = asked[c].op /\ new.by = asked[c].by
    BY <1>0 DEF Request, Places
  <1>5. asked' = [asked EXCEPT ![c] = new]
    BY <1>0, <1>3 DEF T!GetRepository, TeamShapes
  <1>. HIDE DEF new
  <1>6. PICK r \in Request : /\ r.at = "authorize" /\ r.owner = own
                             /\ r.op = asked[c].op /\ r.by = asked[c].by
                             /\ asked' = [asked EXCEPT ![c] = r]
    BY <1>4, <1>5
  <1>7. r.op \in Ours /\ asked[c].at = "begun" /\ own \in {0} \union DOMAIN team
    BY <1>0, <1>3, <1>6 DEF T!GetRepository, Ours, TeamShapes
  <1>8. AskedOK(r)
    BY <1>0, <1>6, <1>7 DEF AskedOK, Ours
  <1>9. Reading(r) /\ Entitled(r)
    BY <1>3, <1>6 DEF Reading, Entitled
  <1>10. TeamOK(r)'
    BY <1>2, <1>8, <1>9, RequestStays DEF TeamOK
  <1>11. asked' \in [Clients -> Request] /\ AllAskedOK'
    BY <1>2, <1>6, <1>10, OtherAskedStay
  <1>. QED  BY <1>1, <1>2, <1>11, QuietNext DEF TeamInv, TeamShapes

LEMMA SeatNext ==
    ASSUME TeamInv, NEW c \in Clients,
           T!SeatCreator(c) \/ T!UpsertTeamMember(c) \/ T!DeleteTeamMember(c)
    PROVE  TeamInv'
  <1>0. TeamShapes /\ AskedOK(asked[c])
    BY DEF TeamInv, AllAskedOK, TeamOK
  <1>1. TeamsStay /\ claim' = claim /\ role' = role /\ asked' = T!Moved(c)
    BY DEF TeamsStay, T!SeatCreator, T!UpsertTeamMember, T!DeleteTeamMember
  <1>2. seat' \subseteq (DOMAIN team) \X Members
    <2>1. CASE T!SeatCreator(c)
      <3>1. asked[c].team \in DOMAIN team /\ asked[c].by \in Members
        BY <1>0, <2>1 DEF T!SeatCreator, T!At, AskedOK
      <3>. QED  BY <1>0, <2>1, <3>1 DEF T!SeatCreator, TeamShapes
    <2>2. CASE T!UpsertTeamMember(c)
      <3>1. asked[c].team \in DOMAIN team /\ asked[c].user \in Members
        BY <1>0, <2>2 DEF T!UpsertTeamMember, T!At, AskedOK
      <3>. QED  BY <1>0, <2>2, <3>1 DEF T!UpsertTeamMember, TeamShapes
    <2>3. CASE T!DeleteTeamMember(c)
      BY <1>0, <2>3 DEF T!DeleteTeamMember, TeamShapes
    <2>. QED  BY <2>1, <2>2, <2>3
  <1>3. asked' \in [Clients -> Request] /\ AllAskedOK'
    BY <1>1, TeamsStayOK, OthersMove
  <1>. QED  BY <1>1, <1>2, <1>3, QuietNext DEF TeamInv, TeamShapes

LEMMA MemberNext ==
    ASSUME TeamInv, NEW u \in Members,
           T!RefreshTokens(u) \/ \E r \in {T!None, "viewer", "developer"} : T!ChangeMember(u, r)
    PROVE  TeamInv'
  <1>0. TeamShapes
    BY DEF TeamInv
  <1>1. CASE T!RefreshTokens(u)
    <2>1. TeamsStay /\ role' = role /\ seat' = seat /\ claim' = [claim EXCEPT ![u] = role[u]]
      BY <1>1 DEF T!RefreshTokens, TeamsStay
    <2>2. /\ claim' \in [Members -> T!UserRoles \union {T!None}]
          /\ \A v \in Members : v # u => claim'[v] = claim[v]
      BY <1>0, <2>1 DEF TeamShapes
    <2>3. Grows /\ OwnerStays
      BY <2>1 DEF TeamsStay, Grows, OwnerStays, T!LiveTeam, T!TeamsOf
    <2>4. ASSUME NEW c \in Clients
          PROVE  asked'[c] \in Request /\ TeamOK(asked[c])'
      <3>1. CASE asked[c].by = u
        <4>1. asked'[c] = T!Idle
          BY <1>1, <3>1 DEF T!RefreshTokens
        <4>. QED  BY <4>1, IdleIsRequest, IdleIsOK DEF TeamInv
      <3>2. CASE asked[c].by # u
        <4>1. PICK q \in Request : q = asked[c] /\ q = asked'[c]
          BY <1>0, <1>1, <3>2 DEF T!RefreshTokens, TeamShapes
        <4>2. TeamOK(q)
          BY <4>1 DEF TeamInv, AllAskedOK
        <4>3. AskedOK(q)' /\ Reading(q)'
          BY <2>3, <4>2 DEF TeamOK, AskedOK, Reading, Grows, OwnerStays
        <4>4. q.at # "idle" => claim'[q.by] = claim[q.by]
          BY <2>2, <3>2, <4>1, <4>2 DEF TeamOK, AskedOK
        <4>5. Entitled(q)'
          BY <2>3, <4>2, <4>4 DEF TeamOK, Entitled, OwnerStays
        <4>. QED  BY <4>1, <4>3, <4>5 DEF TeamOK
      <3>. QED  BY <3>1, <3>2
    <2>5. asked' \in [Clients -> Request] /\ AllAskedOK'
      BY <1>1, <2>4 DEF T!RefreshTokens, AllAskedOK
    <2>. QED  BY <1>0, <2>1, <2>2, <2>5, QuietNext DEF TeamShapes
  <1>2. ASSUME NEW r \in {T!None, "viewer", "developer"}, T!ChangeMember(u, r)
        PROVE  TeamInv'
    <2>1. TeamsStay /\ claim' = claim /\ seat' = seat /\ asked' = asked
      BY <1>2 DEF T!ChangeMember, TeamsStay
    <2>2. role' \in [Members -> T!UserRoles \union {T!None}]
      BY <1>0, <1>2 DEF T!ChangeMember, TeamShapes, T!UserRoles
    <2>3. Grows /\ OwnerStays
      BY <2>1 DEF TeamsStay, Grows, OwnerStays, T!LiveTeam, T!TeamsOf
    <2>4. AllAskedOK'
      <3>1. ASSUME NEW c \in Clients
            PROVE  TeamOK(asked[c])'
        <4>1. PICK q \in Request : q = asked[c] /\ q = asked'[c]
          BY <1>0, <2>1 DEF TeamShapes
        <4>2. TeamOK(q)
          BY <4>1 DEF TeamInv, AllAskedOK
        <4>. QED  BY <2>1, <2>3, <4>1, <4>2, RequestStays
      <3>. QED  BY <3>1 DEF AllAskedOK
    <2>. QED  BY <1>0, <2>1, <2>2, <2>4, QuietNext DEF TeamShapes
  <1>. QED  BY <1>1, <1>2

-----------------------------------------------------------------------------
(* The steps that write a team or the owner *)

OneSlug == \A t, s \in DOMAIN team : T!LiveTeam(t) /\ T!LiveTeam(s) /\ team[t].slug = team[s].slug => t = s
OwnerIsLive == owner # 0 /\ owner \notin overtaken => T!LiveTeam(owner)

LEMMA CreateNext ==
    ASSUME TeamInv, NEW c \in Clients, T!CreateTeam(c)
    PROVE  TeamInv'
  <1>0. /\ TeamShapes /\ AskedOK(asked[c]) /\ asked[c] \in Request /\ asked[c].op = "createTeam"
        /\ asked[c].at = "insert" /\ asked[c].slug \in Slugs /\ asked[c].by \in Members
    BY DEF TeamInv, AllAskedOK, TeamOK, TeamShapes, T!CreateTeam, T!At, AskedOK
  <1>1. /\ role' = role /\ claim' = claim /\ seat' = seat /\ owner' = owner
        /\ overtaken' = overtaken /\ written' = written
    BY DEF T!CreateTeam
  <1>2. CASE T!SlugTaken(asked[c].slug, 0)
    <2>1. TeamsStay /\ asked' = [asked EXCEPT ![c] = T!Idle]
      BY <1>1, <1>2 DEF T!CreateTeam, TeamsStay, T!End
    <2>2. Grows /\ OwnerStays
      BY <1>1, <2>1 DEF TeamsStay, Grows, OwnerStays, T!LiveTeam, T!TeamsOf
    <2>3. asked' \in [Clients -> Request] /\ AllAskedOK'
      BY <1>1, <2>1, <2>2, EndOK
    <2>. QED  BY <1>0, <1>1, <2>1, <2>3, QuietNext DEF TeamShapes
  <1>3. CASE ~T!SlugTaken(asked[c].slug, 0)
    <2>. DEFINE row == [slug |-> asked[c].slug, live |-> TRUE]
    <2>. PICK n \in Nat : n = Len(team) + 1
      BY <1>0 DEF TeamShapes
    <2>1. row \in TeamRow /\ row.slug = asked[c].slug /\ row.live
      BY <1>0 DEF TeamRow
    <2>2. /\ team' = Append(team, row) /\ Len(team) < MaxTeams
          /\ asked' = [asked EXCEPT ![c].at = "lead", ![c].team = n]
      BY <1>3 DEF T!CreateTeam
    <2>3. Len(team) \in Nat /\ DOMAIN team = 1..Len(team) /\ MaxTeams \in Nat
      BY <1>0 DEF TeamShapes, TeamInv, Room
    <2>. HIDE DEF row
    <2>4. /\ team' \in Seq(TeamRow) /\ Len(team') = n
          /\ DOMAIN team' = DOMAIN team \union {n} /\ n \notin DOMAIN team /\ n \in T!TeamIds
          /\ team'[n] = row /\ \A t \in DOMAIN team : team'[t] = team[t]
      BY <1>0, <2>1, <2>2, <2>3 DEF TeamShapes, T!TeamIds
    <2>5. Len(team') <= MaxTeams
      BY <2>2, <2>3, <2>4
    <2>6. /\ \A t \in DOMAIN team : T!LiveTeam(t)' <=> T!LiveTeam(t)
          /\ T!LiveTeam(n)'
      <3>1. ASSUME NEW t \in DOMAIN team
            PROVE  T!LiveTeam(t)' <=> T!LiveTeam(t)
        <4>1. t \in DOMAIN team' /\ team'[t] = team[t]
          BY <2>4, <3>1
        <4>. QED  BY <3>1, <4>1 DEF T!LiveTeam
      <3>2. n \in DOMAIN team' /\ team'[n].live
        BY <2>1, <2>4
      <3>3. T!LiveTeam(n)'
        BY <3>2 DEF T!LiveTeam
      <3>. QED  BY <3>1, <3>3
    <2>7. Grows /\ OwnerStays
      <3>1. T!LiveTeam(owner)' <=> T!LiveTeam(owner)
        BY <1>0, <1>1, <2>3, <2>4, <2>6 DEF TeamShapes, T!LiveTeam
      <3>2. owner # 0 => \A u : owner \in T!TeamsOf(u) => (owner \in T!TeamsOf(u))'
        BY <1>1, <2>4 DEF T!TeamsOf
      <3>. QED  BY <1>1, <2>4, <3>1, <3>2 DEF Grows, OwnerStays
    <2>8. asked' \in [Clients -> Request] /\ AllAskedOK'
      <3>. DEFINE new == [asked[c] EXCEPT !.at = "lead", !.team = n]
      <3>1. /\ new \in Request /\ new.at = "lead" /\ new.team = n /\ new.op = "createTeam"
            /\ new.slug = asked[c].slug /\ new.by = asked[c].by /\ new.owner = asked[c].owner
        BY <1>0, <2>4 DEF Request, Places
      <3>2. asked' = [asked EXCEPT ![c] = new]
        BY <1>0, <2>2 DEF TeamShapes
      <3>. HIDE DEF new
      <3>3. PICK r \in Request :
               /\ r.at = "lead" /\ r.team = n /\ r.op = "createTeam"
               /\ r.slug = asked[c].slug /\ r.by = asked[c].by /\ r.owner = asked[c].owner
               /\ asked' = [asked EXCEPT ![c] = r]
        BY <3>1, <3>2
      <3>4. r.owner \in ({0} \union DOMAIN team)' /\ r.team \in DOMAIN team'
        BY <1>0, <2>4, <3>3 DEF AskedOK
      <3>5. TeamOK(r)'
        BY <1>0, <3>3, <3>4 DEF TeamOK, AskedOK, Reading, Entitled, Ours
      <3>. QED  BY <1>1, <2>7, <3>3, <3>5, OtherAskedStay
    <2>9. TeamShapes'
      <3>1. DOMAIN team \subseteq DOMAIN team'
        BY <2>4
      <3>2. seat' \subseteq (DOMAIN team') \X Members
        BY <1>0, <1>1, <3>1 DEF TeamShapes
      <3>3. owner' \in {0} \union (DOMAIN team')
        BY <1>0, <1>1, <3>1 DEF TeamShapes
      <3>. QED  BY <1>0, <1>1, <2>4, <2>5, <2>8, <3>2, <3>3 DEF TeamShapes
    <2>10. OneSlug'
      <3>1. \A t \in DOMAIN team : T!LiveTeam(t) => team[t].slug # asked[c].slug
        BY <1>3, <2>3 DEF T!SlugTaken
      <3>. QED  BY <2>1, <2>4, <2>6, <3>1 DEF OneSlug, TeamInv, T!OwnerIsLiveUnlessRaced
    <2>11. OwnerIsLive'
      BY <1>1, <2>7 DEF OwnerIsLive, OwnerStays, TeamInv, T!OwnerIsLiveUnlessRaced
    <2>12. T!WritesAreEntitledUnlessMoved'
      BY <1>1 DEF TeamInv, T!WritesAreEntitledUnlessMoved
    <2>. QED  BY <2>8, <2>9, <2>10, <2>11, <2>12
              DEF TeamInv, Room, T!OwnerIsLiveUnlessRaced, OneSlug, OwnerIsLive
  <1>. QED  BY <1>2, <1>3

\* A team becomes live or not; its slug and the other teams stay.
LEMMA TeamWritten ==
    ASSUME TeamShapes, NEW t \in DOMAIN team, NEW b \in BOOLEAN,
           team' = [team EXCEPT ![t].live = b]
    PROVE  /\ team' \in Seq(TeamRow) /\ Len(team') = Len(team) /\ DOMAIN team' = DOMAIN team
           /\ \A s \in DOMAIN team : team'[s].slug = team[s].slug
           /\ \A s : T!LiveTeam(s)' <=> IF s = t THEN b ELSE T!LiveTeam(s)
  <1>. DEFINE new == [team[t] EXCEPT !.live = b]
  <1>1. team[t] \in TeamRow
    BY DEF TeamShapes
  <1>2. new \in TeamRow /\ new.slug = team[t].slug /\ new.live = b
    BY <1>1 DEF TeamRow
  <1>3. team' = [team EXCEPT ![t] = new]
    BY DEF TeamShapes
  <1>. HIDE DEF new
  <1>4. /\ team' \in Seq(TeamRow) /\ Len(team') = Len(team) /\ DOMAIN team' = DOMAIN team
        /\ \A s \in DOMAIN team : team'[s] = IF s = t THEN new ELSE team[s]
    BY <1>2, <1>3 DEF TeamShapes
  <1>. QED  BY <1>2, <1>4 DEF T!LiveTeam

LEMMA UpdateNext ==
    ASSUME TeamInv, NEW c \in Clients, T!UpdateTeam(c)
    PROVE  TeamInv'
  <1>0. /\ TeamShapes /\ AskedOK(asked[c]) /\ asked[c].team \in DOMAIN team
    BY DEF TeamInv, AllAskedOK, TeamOK, T!UpdateTeam, T!At, AskedOK
  <1>1. /\ role' = role /\ claim' = claim /\ seat' = seat /\ owner' = owner /\ written' = written
    BY DEF T!UpdateTeam
  <1>2. PICK t \in DOMAIN team : t = asked[c].team
    BY <1>0
  <1>3. CASE T!SlugTaken(team[t].slug, t)
    <2>1. TeamsStay /\ asked' = [asked EXCEPT ![c] = T!Idle]
      BY <1>1, <1>2, <1>3 DEF T!UpdateTeam, TeamsStay, T!End
    <2>2. Grows /\ OwnerStays
      BY <1>1, <2>1 DEF TeamsStay, Grows, OwnerStays, T!LiveTeam, T!TeamsOf
    <2>3. asked' \in [Clients -> Request] /\ AllAskedOK'
      BY <1>1, <2>1, <2>2, EndOK
    <2>. QED  BY <1>0, <1>1, <2>1, <2>3, QuietNext DEF TeamShapes
  <1>4. CASE ~T!SlugTaken(team[t].slug, t)
    <2>1. /\ team' = [team EXCEPT ![t].live = TRUE]
          /\ overtaken' = IF T!LiveTeam(t) THEN overtaken ELSE overtaken \union {t}
          /\ asked' = IF T!LiveTeam(t) THEN [asked EXCEPT ![c] = T!Idle] ELSE T!Moved(c)
      BY <1>2, <1>4 DEF T!UpdateTeam
    <2>2. PICK b \in BOOLEAN : b = TRUE
      OBVIOUS
    <2>3. /\ team' \in Seq(TeamRow) /\ Len(team') = Len(team) /\ DOMAIN team' = DOMAIN team
          /\ \A s \in DOMAIN team : team'[s].slug = team[s].slug
          /\ \A s : T!LiveTeam(s)' <=> IF s = t THEN b ELSE T!LiveTeam(s)
      BY <1>0, <2>1, <2>2, TeamWritten
    <2>4. Grows /\ \A s : T!LiveTeam(s) => T!LiveTeam(s)'
      BY <2>2, <2>3 DEF Grows
    <2>5. asked' \in [Clients -> Request] /\ AllAskedOK'
      <3>1. CASE T!LiveTeam(t)
        <4>1. OwnerStays
          <5>1. T!LiveTeam(owner)' <=> T!LiveTeam(owner)
            BY <1>1, <2>2, <2>3, <3>1
          <5>2. ASSUME NEW u, owner \in T!TeamsOf(u)
                PROVE  (owner \in T!TeamsOf(u))'
            <6>1. T!LiveTeam(owner) /\ <<owner, u>> \in seat
              BY <5>2 DEF T!TeamsOf, T!LiveTeam
            <6>2. T!LiveTeam(owner)' /\ (<<owner, u>> \in seat)'
              BY <1>1, <2>4, <6>1
            <6>. QED  BY <6>2 DEF T!TeamsOf, T!LiveTeam
          <5>. QED  BY <1>1, <5>1, <5>2 DEF OwnerStays
        <4>. QED  BY <1>1, <2>1, <2>4, <3>1, <4>1, EndOK
      <3>2. CASE ~T!LiveTeam(t)
        BY <1>1, <2>1, <2>4, <3>2, OthersMove
      <3>. QED  BY <3>1, <3>2
    <2>6. TeamShapes'
      BY <1>0, <1>1, <2>3, <2>5 DEF TeamShapes
    <2>7. OneSlug'
      <3>1. \A s \in DOMAIN team : s # t /\ T!LiveTeam(s) => team[s].slug # team[t].slug
        BY <1>4 DEF T!SlugTaken
      <3>2. \A s, q \in DOMAIN team : s # t /\ q # t /\ T!LiveTeam(s) /\ T!LiveTeam(q)
                                         /\ team[s].slug = team[q].slug => s = q
        BY DEF TeamInv, T!OwnerIsLiveUnlessRaced
      <3>. QED  BY <2>3, <3>1, <3>2 DEF OneSlug
    <2>8. OwnerIsLive'
      <3>1. overtaken \subseteq overtaken'
        BY <2>1
      <3>. QED  BY <1>1, <2>4, <3>1 DEF OwnerIsLive, TeamInv, T!OwnerIsLiveUnlessRaced
    <2>9. T!WritesAreEntitledUnlessMoved'
      BY <1>1 DEF TeamInv, T!WritesAreEntitledUnlessMoved
    <2>. QED  BY <2>5, <2>6, <2>7, <2>8, <2>9
              DEF TeamInv, Room, T!OwnerIsLiveUnlessRaced, OneSlug, OwnerIsLive
  <1>. QED  BY <1>3, <1>4

LEMMA DeleteNext ==
    ASSUME TeamInv, NEW c \in Clients, T!DeleteTeam(c)
    PROVE  TeamInv'
  <1>0. /\ TeamShapes /\ AskedOK(asked[c]) /\ asked[c].team \in DOMAIN team
    BY DEF TeamInv, AllAskedOK, TeamOK, T!DeleteTeam, T!At, AskedOK
  <1>1. /\ role' = role /\ claim' = claim /\ seat' = seat /\ overtaken' = overtaken /\ written' = written
    BY DEF T!DeleteTeam
  <1>2. PICK t \in DOMAIN team : t = asked[c].team
    BY <1>0
  <1>3. CASE ~T!LiveTeam(t)
    <2>1. TeamsStay /\ asked' = [asked EXCEPT ![c] = T!Idle]
      BY <1>1, <1>2, <1>3 DEF T!DeleteTeam, TeamsStay, T!End
    <2>2. Grows /\ OwnerStays
      BY <1>1, <2>1 DEF TeamsStay, Grows, OwnerStays, T!LiveTeam, T!TeamsOf
    <2>3. asked' \in [Clients -> Request] /\ AllAskedOK'
      BY <1>1, <2>1, <2>2, EndOK
    <2>. QED  BY <1>0, <1>1, <2>1, <2>3, QuietNext DEF TeamShapes
  <1>4. CASE T!LiveTeam(t)
    <2>1. /\ team' = [team EXCEPT ![t].live = FALSE]
          /\ owner' = IF owner = t THEN 0 ELSE owner
          /\ asked' = T!Moved(c)
      BY <1>2, <1>4 DEF T!DeleteTeam
    <2>2. PICK b \in BOOLEAN : b = FALSE
      OBVIOUS
    <2>3. /\ team' \in Seq(TeamRow) /\ Len(team') = Len(team) /\ DOMAIN team' = DOMAIN team
          /\ \A s \in DOMAIN team : team'[s].slug = team[s].slug
          /\ \A s : T!LiveTeam(s)' <=> IF s = t THEN b ELSE T!LiveTeam(s)
      BY <1>0, <2>1, <2>2, TeamWritten
    <2>4. asked' \in [Clients -> Request] /\ AllAskedOK'
      BY <1>1, <2>1, <2>3, OthersMove DEF Grows
    <2>5. TeamShapes'
      BY <1>0, <1>1, <2>1, <2>3, <2>4 DEF TeamShapes
    <2>6. OneSlug'
      BY <2>2, <2>3 DEF OneSlug, TeamInv, T!OwnerIsLiveUnlessRaced
    <2>7. OwnerIsLive'
      BY <1>1, <2>1, <2>3 DEF OwnerIsLive, TeamInv, T!OwnerIsLiveUnlessRaced
    <2>8. T!WritesAreEntitledUnlessMoved'
      BY <1>1 DEF TeamInv, T!WritesAreEntitledUnlessMoved
    <2>. QED  BY <2>4, <2>5, <2>6, <2>7, <2>8
              DEF TeamInv, Room, T!OwnerIsLiveUnlessRaced, OneSlug, OwnerIsLive
  <1>. QED  BY <1>3, <1>4

LEMMA OwnerNext ==
    ASSUME TeamInv, NEW c \in Clients, T!SetRepositoryOwnerTeam(c)
    PROVE  TeamInv'
  <1>0. /\ TeamShapes /\ AskedOK(asked[c]) /\ asked[c].team \in {0} \union DOMAIN team
    BY DEF TeamInv, AllAskedOK, TeamOK, T!SetRepositoryOwnerTeam, T!At, AskedOK
  <1>1. /\ role' = role /\ claim' = claim /\ seat' = seat /\ team' = team /\ written' = written
        /\ owner' = asked[c].team /\ asked' = T!Moved(c)
        /\ overtaken' = IF asked[c].team # 0 /\ ~T!LiveTeam(asked[c].team) THEN overtaken \union {asked[c].team} ELSE overtaken
    BY DEF T!SetRepositoryOwnerTeam
  <1>2. asked' \in [Clients -> Request] /\ AllAskedOK'
    BY <1>1, OthersMove DEF Grows
  <1>3. TeamShapes'
    BY <1>0, <1>1, <1>2 DEF TeamShapes
  <1>4. T!OwnerIsLiveUnlessRaced'
    <2>1. \A s : T!LiveTeam(s)' <=> T!LiveTeam(s)
      BY <1>1 DEF T!LiveTeam
    <2>. QED  BY <1>1, <2>1 DEF TeamInv, T!OwnerIsLiveUnlessRaced
  <1>5. T!WritesAreEntitledUnlessMoved'
    BY <1>1 DEF TeamInv, T!WritesAreEntitledUnlessMoved
  <1>. QED  BY <1>2, <1>3, <1>4, <1>5 DEF TeamInv, Room

\* The write that a check allowed, perhaps some time ago.
LEMMA ActNext ==
    ASSUME TeamInv, NEW c \in Clients, T!Act(c)
    PROVE  TeamInv'
  <1>0. /\ TeamShapes /\ AskedOK(asked[c]) /\ Entitled(asked[c]) /\ asked[c].at = "act"
        /\ asked[c].op \in Ours
    <2>1. TeamShapes /\ AskedOK(asked[c]) /\ Entitled(asked[c]) /\ asked[c].at = "act"
      BY DEF TeamInv, AllAskedOK, TeamOK, T!Act, T!At
    <2>2. asked[c].op \in Ours
      BY <2>1 DEF AskedOK
    <2>. QED  BY <2>1, <2>2
  <1>. DEFINE u == asked[c].by
              saved == IF asked[c].op = "updateRepository" THEN asked[c].owner ELSE owner
  <1>1. /\ role' = role /\ claim' = claim /\ seat' = seat /\ team' = team
        /\ owner' = saved
        /\ overtaken' = IF saved \notin {0, owner} /\ ~T!LiveTeam(saved) THEN overtaken \union {saved} ELSE overtaken
        /\ asked' = IF saved # owner THEN T!Moved(c) ELSE [asked EXCEPT ![c] = T!Idle]
        /\ written' = [by |-> u, claim |-> claim[u],
                       entitled |-> owner # 0 /\ owner \in T!TeamsOf(u), moved |-> asked[c].moved]
    BY DEF T!Act
  <1>2. saved \in {0} \union DOMAIN team
    BY <1>0 DEF AskedOK, TeamShapes
  <1>. HIDE DEF saved
  <1>3. \A s : T!LiveTeam(s)' <=> T!LiveTeam(s)
    BY <1>1 DEF T!LiveTeam
  <1>4. asked' \in [Clients -> Request] /\ AllAskedOK'
    <2>1. CASE saved # owner
      BY <1>1, <2>1, OthersMove DEF Grows
    <2>2. CASE saved = owner
      BY <1>1, <1>3, <2>2, EndOK DEF Grows, OwnerStays, T!TeamsOf
    <2>. QED  BY <2>1, <2>2
  <1>5. TeamShapes'
    BY <1>0, <1>1, <1>2, <1>4 DEF TeamShapes
  <1>6. T!OwnerIsLiveUnlessRaced'
    BY <1>1, <1>3 DEF TeamInv, T!OwnerIsLiveUnlessRaced
  <1>7. T!WritesAreEntitledUnlessMoved'
    <2>1. \/ T!HasPermission(claim[u], "maintainer")
          \/ /\ T!HasPermission(claim[u], "developer")
             /\ asked[c].moved \/ (owner # 0 /\ owner \in T!TeamsOf(u))
      BY <1>0 DEF Entitled
    <2>2. /\ written'.claim = claim[u]
          /\ written'.moved = asked[c].moved
          /\ written'.entitled = (owner # 0 /\ owner \in T!TeamsOf(u))
      BY <1>1
    <2>3. CASE T!HasPermission(claim[u], "maintainer")
      BY <2>2, <2>3 DEF T!WritesAreEntitledUnlessMoved, T!HasPermission
    <2>4. CASE T!HasPermission(claim[u], "developer") /\ asked[c].moved
      BY <2>2, <2>4 DEF T!WritesAreEntitledUnlessMoved, T!HasPermission
    <2>5. CASE T!HasPermission(claim[u], "developer") /\ owner # 0 /\ owner \in T!TeamsOf(u)
      BY <2>2, <2>5 DEF T!WritesAreEntitledUnlessMoved, T!HasPermission
    <2>. QED  BY <2>1, <2>3, <2>4, <2>5
  <1>. QED  BY <1>4, <1>5, <1>6, <1>7 DEF TeamInv, Room

-----------------------------------------------------------------------------
(* The invariant *)

LEMMA TeamInit ==
    ASSUME Room, T!Init
    PROVE  TeamInv
  <1>. DEFINE row == [slug |-> CHOOSE s \in Slugs : TRUE, live |-> TRUE]
  <1>1. row \in TeamRow
    BY DEF Room, TeamRow
  <1>2. team = <<row>>
    BY DEF T!Init
  <1>. HIDE DEF row
  <1>3. team \in Seq(TeamRow) /\ Len(team) = 1 /\ DOMAIN team = {1}
    BY <1>1, <1>2
  <1>4. Len(team) <= MaxTeams
    BY <1>3 DEF Room
  <1>5. seat \subseteq (DOMAIN team) \X Members
    BY <1>3 DEF T!Init
  <1>6. owner \in {0} \union DOMAIN team
    BY <1>3 DEF T!Init
  <1>7. /\ role \in [Members -> T!UserRoles \union {T!None}]
        /\ claim \in [Members -> T!UserRoles \union {T!None}]
    BY DEF T!Init, T!UserRoles
  <1>8. asked \in [Clients -> Request] /\ AllAskedOK
    <2>1. \A c \in Clients : asked[c] = T!Idle
      BY DEF T!Init
    <2>2. TeamOK(T!Idle)
      BY IdleIsOK
    <2>. QED  BY <2>1, <2>2, IdleIsRequest DEF T!Init, AllAskedOK
  <1>9. T!OwnerIsLiveUnlessRaced
    <2>1. T!LiveTeam(1)
      <3>1. row.live
        BY DEF row
      <3>. QED  BY <1>2, <1>3, <3>1 DEF T!LiveTeam
    <2>2. owner # 0 => owner = 1
      BY DEF T!Init
    <2>. QED  BY <1>3, <2>1, <2>2 DEF T!OwnerIsLiveUnlessRaced
  <1>10. T!WritesAreEntitledUnlessMoved
    BY DEF T!Init, T!WritesAreEntitledUnlessMoved
  <1>. QED  BY <1>3, <1>4, <1>5, <1>6, <1>7, <1>8, <1>9, <1>10 DEF TeamInv, TeamShapes

\* The requests that the routes let begin.
LEMMA AnyBeginNext ==
    ASSUME TeamInv, NEW c \in Clients, NEW u \in Members,
           \/ \E s \in Slugs : T!Begin(c, "createTeam", u, 0, s, T!None)
           \/ \E t \in 1..MaxTeams : T!Begin(c, "updateTeam", u, t, T!None, T!None) \/ T!Begin(c, "deleteTeam", u, t, T!None, T!None)
           \/ \E t \in 1..MaxTeams, v \in Members : T!Begin(c, "addMember", u, t, T!None, v) \/ T!Begin(c, "removeMember", u, t, T!None, v)
           \/ \E t \in T!TeamIds : T!Begin(c, "setOwner", u, t, T!None, T!None)
           \/ T!Begin(c, "updateRepository", u, 0, T!None, T!None) \/ T!Begin(c, "actOnHost", u, 0, T!None, T!None)
    PROVE  TeamInv'
  <1>1. /\ 0 \in T!TeamIds /\ 1..MaxTeams \subseteq T!TeamIds
        /\ {"createTeam", "updateTeam", "deleteTeam", "addMember", "removeMember", "setOwner",
            "updateRepository", "actOnHost"} = Ops \ {T!None}
    BY DEF TeamInv, Room, T!TeamIds, Ops, T!None
  <1>2. ASSUME NEW s \in Slugs, T!Begin(c, "createTeam", u, 0, s, T!None)
        PROVE  TeamInv'
    BY <1>1, <1>2, BeginNext
  <1>3. ASSUME NEW t \in 1..MaxTeams, NEW op \in {"updateTeam", "deleteTeam"},
               T!Begin(c, op, u, t, T!None, T!None)
        PROVE  TeamInv'
    BY <1>1, <1>3, BeginNext
  <1>4. ASSUME NEW t \in 1..MaxTeams, NEW v \in Members, NEW op \in {"addMember", "removeMember"},
               T!Begin(c, op, u, t, T!None, v)
        PROVE  TeamInv'
    BY <1>1, <1>4, BeginNext
  <1>5. ASSUME NEW t \in T!TeamIds, T!Begin(c, "setOwner", u, t, T!None, T!None)
        PROVE  TeamInv'
    BY <1>1, <1>5, BeginNext
  <1>6. ASSUME NEW op \in Ours, T!Begin(c, op, u, 0, T!None, T!None)
        PROVE  TeamInv'
    BY <1>1, <1>6, BeginNext DEF Ours
  <1>. QED  BY <1>2, <1>3, <1>4, <1>5, <1>6 DEF Ours

LEMMA TeamStep ==
    ASSUME TeamInv, [T!Next]_(T!vars)
    PROVE  TeamInv'
  <1>1. ASSUME NEW c \in Clients, NEW u \in Members,
               \/ \E s \in Slugs : T!Begin(c, "createTeam", u, 0, s, T!None)
               \/ \E t \in 1..MaxTeams : T!Begin(c, "updateTeam", u, t, T!None, T!None) \/ T!Begin(c, "deleteTeam", u, t, T!None, T!None)
               \/ \E t \in 1..MaxTeams, v \in Members : T!Begin(c, "addMember", u, t, T!None, v) \/ T!Begin(c, "removeMember", u, t, T!None, v)
               \/ \E t \in T!TeamIds : T!Begin(c, "setOwner", u, t, T!None, T!None)
               \/ T!Begin(c, "updateRepository", u, 0, T!None, T!None) \/ T!Begin(c, "actOnHost", u, 0, T!None, T!None)
        PROVE  TeamInv'
    BY <1>1, AnyBeginNext
  <1>2. ASSUME NEW c \in Clients,
               \/ T!Abandon(c) \/ T!GetTeamBySlug(c) \/ T!GetScoped(c) \/ T!GetOrganizationMember(c)
               \/ T!SetRepositoryOwner(c) \/ T!CanWriteRepository(c)
        PROVE  TeamInv'
    BY <1>2, ReadNext
  <1>3. ASSUME NEW c \in Clients, T!GetRepository(c)
        PROVE  TeamInv'
    BY <1>3, GetRepositoryNext
  <1>4. ASSUME NEW c \in Clients, T!SeatCreator(c) \/ T!UpsertTeamMember(c) \/ T!DeleteTeamMember(c)
        PROVE  TeamInv'
    BY <1>4, SeatNext
  <1>5. ASSUME NEW c \in Clients, T!CreateTeam(c)
        PROVE  TeamInv'
    BY <1>5, CreateNext
  <1>6. ASSUME NEW c \in Clients, T!UpdateTeam(c)
        PROVE  TeamInv'
    BY <1>6, UpdateNext
  <1>7. ASSUME NEW c \in Clients, T!DeleteTeam(c)
        PROVE  TeamInv'
    BY <1>7, DeleteNext
  <1>8. ASSUME NEW c \in Clients, T!SetRepositoryOwnerTeam(c)
        PROVE  TeamInv'
    BY <1>8, OwnerNext
  <1>9. ASSUME NEW c \in Clients, T!Act(c)
        PROVE  TeamInv'
    BY <1>9, ActNext
  <1>10. ASSUME NEW u \in Members,
                T!RefreshTokens(u) \/ \E r \in {T!None, "viewer", "developer"} : T!ChangeMember(u, r)
         PROVE  TeamInv'
    BY <1>10, MemberNext
  <1>11. CASE UNCHANGED T!vars
    BY <1>11 DEF T!vars, TeamInv, Room, TeamShapes, AllAskedOK, TeamOK, AskedOK, Reading, Entitled,
                 T!LiveTeam, T!TeamsOf, T!OwnerIsLiveUnlessRaced, T!WritesAreEntitledUnlessMoved
  <1>. QED  BY <1>1, <1>2, <1>3, <1>4, <1>5, <1>6, <1>7, <1>8, <1>9, <1>10, <1>11 DEF T!Next

LEMMA TeamsInductive == Room /\ T!Spec => []TeamInv
  <1>1. Room /\ T!Init => TeamInv
    BY TeamInit
  <1>2. TeamInv /\ [T!Next]_(T!vars) => TeamInv'
    BY TeamStep
  <1>. QED  BY <1>1, <1>2, PTL DEF T!Spec

-----------------------------------------------------------------------------
(* The tables and the requests hold what their columns may hold: seats are *)
(* seats of teams that exist, and so is the owner of the repository.       *)
THEOREM TeamTypes == Room /\ T!Spec => []T!TypeOK
  <1>1. TeamInv => T!TypeOK
    <2>. SUFFICES ASSUME TeamInv PROVE T!TypeOK
      OBVIOUS
    <2>1. TeamShapes /\ AllAskedOK
      BY DEF TeamInv
    <2>2. ASSUME NEW t \in DOMAIN team
          PROVE  team[t].slug \in Slugs /\ team[t].live \in BOOLEAN
      <3>1. team[t] \in TeamRow
        BY <2>1 DEF TeamShapes
      <3>. QED  BY <3>1 DEF TeamRow
    <2>3. \A c \in Clients : asked[c].team \in T!TeamIds /\ asked[c].owner \in {0} \union DOMAIN team
      BY <2>1 DEF TeamShapes, AllAskedOK, TeamOK, AskedOK, Request
    <2>. QED  BY <2>1, <2>2, <2>3 DEF TeamShapes, T!TypeOK
  <1>. QED  BY <1>1, TeamsInductive, PTL

(* A repository is owned by a live team unless a write that was checked    *)
(* before the team was deleted came late, one slug names one live team,    *)
(* and who acts on a repository is a maintainer, or a developer on the     *)
(* team that owns it unless the teams changed since it was checked         *)
(* (team_service.go, repository_authz.go): for every number of requests.   *)
THEOREM OwnershipHolds == Room /\ T!Spec => []OwnershipHoldsUnlessRaced
  <1>1. TeamInv => OwnershipHoldsUnlessRaced
    BY DEF TeamInv, OwnershipHoldsUnlessRaced, OwnerIsLiveUnlessRaced, WritesAreEntitledUnlessMoved,
           T!OwnerIsLiveUnlessRaced, T!WritesAreEntitledUnlessMoved, LiveTeam, T!LiveTeam,
           HasPermission, T!HasPermission, Rank, T!Rank, NoWrite, T!NoWrite, None, T!None
  <1>. QED  BY <1>1, TeamsInductive, PTL
=============================================================================

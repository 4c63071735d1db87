----------------------------- MODULE MCAccounts -----------------------------
(* Who may do what, for TLC, each part explored by itself: the tokens of one *)
(* user, the members of one organization, its teams with the repository they *)
(* own, and the tokens its builds report coverage with.                      *)
EXTENDS Sessions, MembershipTables, TeamTables, FiniteSets, TLC

CONSTANTS c1, c2, admin, viewer, MaxInvites

VARIABLES
    part, request, asked, requests, moves,
    uploadToken, upload, run, row, entry, fill, clock, untouched, losses

membershipVars == <<tables, request>>
teamVars == <<role, claim, team, seat, owner, asked, written, overtaken, requests, moves>>
coverageVars == <<uploadToken, upload, run, row, entry, fill, clock, untouched, losses>>

M == INSTANCE Membership WITH req <- request

T == INSTANCE Teams WITH
        Members <- {"u", "v"}, Lead <- "v", Slugs <- {"core"}, MaxTeams <- 2, MaxRequests <- 3, MaxChanges <- 1,
        req <- asked, changes <- moves

(* A report with two files, one without its end; one without a single line, *)
(* which is refused; and one without a file.                                *)
SF(path) == [tag |-> "SF", path |-> path]
DA(n) == [tag |-> "DA", hits |-> n]
Reports ==
    {[format |-> "lcov", size |-> 1, items |-> <<SF("a"), DA(1), DA(0), [tag |-> "end"], SF("b"), DA(2)>>],
     [format |-> "go", size |-> 1, items |-> <<>>]}
Refused == [format |-> "cobertura", size |-> 1, items |-> [valid |-> 0, covered |-> 0, classes |-> <<>>]]

(* A repository that was never synchronized and one whose last one failed. *)
NeverSynced ==
    [orgURL |-> "", platformURL |-> "localhost", languages |-> [go |-> 40, html |-> 60], owned |-> TRUE,
     described |-> TRUE, synced |-> FALSE, status |-> "idle", docs |-> FALSE, webhook |-> FALSE, ci |-> "nil", tests |-> "no"]
Failed == [NeverSynced EXCEPT !.orgURL = "https", !.languages = [php |-> 1, dart |-> 1], !.synced = TRUE, !.status = "error"]

(* Two builds of two repositories at once, and the page of one repository   *)
(* while its builds report.                                                 *)
C == INSTANCE Coverage WITH
        Runners <- Clients, Repos <- {"r", "s"}, Payloads <- Reports, RepoRows <- [r |-> NeverSynced, s |-> Failed],
        Looked <- {}, MaxTokens <- 2, MaxUploads <- 2, MaxLosses <- 1, token <- uploadToken

D == INSTANCE Coverage WITH
        Runners <- Clients, Repos <- {"r"}, Payloads <- Reports \cup {Refused}, RepoRows <- [r |-> NeverSynced],
        Looked <- {"r"}, MaxTokens <- 1, MaxUploads <- 3, MaxLosses <- 0, token <- uploadToken

(* Bound: of two tokens, one expires and is revoked, or each is withdrawn once. *)
TwiceWithdrawn ==
    LET now == uploadToken'
    IN Cardinality({t \in DOMAIN now : now[t].expired}) + Cardinality({t \in DOMAIN now : now[t].revoked}) <= 2

\* Requests are interchangeable, and so are the roles a token carries.
Symmetry == Permutations({c1, c2}) \cup Permutations({admin, viewer})

MCInit ==
    /\ Init /\ M!Init /\ T!Init
    /\ part \in {"sessions", "membership", "teams", "coverage", "page"}
    /\ IF part = "page" THEN D!Init ELSE C!Init
    /\ part = "teams" \/ (seat = {<<1, "u">>} /\ owner = 0)

MCNext ==
    /\ \/ /\ \/ part = "sessions" /\ Next /\ UNCHANGED <<membershipVars, teamVars>>
             \/ part = "membership" /\ M!Next /\ UNCHANGED <<vars, teamVars>>
             \/ part = "teams" /\ T!Next /\ UNCHANGED <<vars, membershipVars>>
          /\ UNCHANGED coverageVars
       \/ /\ \/ part = "coverage" /\ C!Next /\ TwiceWithdrawn
             \/ part = "page" /\ D!Next
          /\ UNCHANGED <<vars, membershipVars, teamVars>>
    /\ UNCHANGED part

MCSpec == MCInit /\ [][MCNext]_<<vars, membershipVars, teamVars, coverageVars, part>>

(* Coverage shown is coverage somebody uploaded to the repository with a    *)
(* token of its own, line for line; and on a page that is answered from     *)
(* Redis, of the moment the answer was kept.                                *)
CoverageIsAccounted ==
    IF part = "page" THEN D!TypeOK /\ D!CoverageIsAccounted
    ELSE part = "coverage" => C!TypeOK /\ C!CoverageIsAccounted
=============================================================================

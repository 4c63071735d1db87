------------------------------ MODULE Coverage ------------------------------
(***************************************************************************)
(* Coverage of the repositories of one organization: the tokens a CI       *)
(* uploads with, the four report formats, the uploads, what the setup      *)
(* panel tells of them, and the scorecard that judges a repository by the  *)
(* row every list and page reads (internal/coverage, internal/scorecard,   *)
(* services/coverage_service.go, models/repository_dto.go).                *)
(*                                                                         *)
(* An upload is one call of Postgres after another; other uploads, a       *)
(* revocation or an expiry may come between two of them.  So may a request *)
(* for the detail of a repository, which is answered from Redis for as     *)
(* long as the entry is there (services/repository_service.go).            *)
(***************************************************************************)
EXTENDS Integers, Sequences, SequencesExt, FiniteSetsExt

CONSTANTS Runners,    \* uploads that are served at the same time
          Repos,
          Payloads,   \* reports a CI may send, see Parse
          RepoRows,   \* what else the row of each repository says
          Looked,     \* the repositories whose detail is asked for
          MaxTokens, MaxUploads, MaxLosses

VARIABLES token,      \* rows of coverage_upload_tokens
          upload,     \* rows of coverage_uploads, in the order of their insertion
          run,        \* where each upload is, and what it has read
          row,        \* the other columns of each repository
          entry,      \* Redis: the detail kept under RepoKey
          fill,       \* a request that missed the entry, and what it read
          clock,      \* what created_at is read from
          untouched,  \* history: tokens an upload of which was not noted on them
          losses      \* failures so far

vars == <<token, upload, run, row, entry, fill, clock, untouched, losses>>
detail == <<entry, fill>>

Idle == [at |-> "idle", token |-> 0, repo |-> "", payload |-> <<>>, stamp |-> 0]

---------------------------------------------------------------------------
(* The reports.  A payload is [format, size, items]; an item is what the   *)
(* format's reader tells apart.                                            *)

Formats == {"go", "lcov", "cobertura", "jacoco"}
MaxReportFileBytes == 5

FileCoverage(path, covered, total) == [path |-> path, covered |-> covered, total |-> total]
Report(covered, total, files) == [ok |-> TRUE, covered |-> covered, total |-> total, files |-> files]
Unreadable == [ok |-> FALSE, covered |-> 0, total |-> 0, files |-> <<>>]

Covered(files) == FoldLeft(LAMBDA n, f : n + f.covered, 0, files)
Total(files) == FoldLeft(LAMBDA n, f : n + f.total, 0, files)

(* A profile per file, its blocks [statements, count]. *)
ParseGoCover(profiles) ==
    LET Hit(b) == IF b.count > 0 THEN b.statements ELSE 0
        files == [i \in DOMAIN profiles |->
                    FileCoverage(profiles[i].path,
                        FoldLeft(LAMBDA n, b : n + Hit(b), 0, profiles[i].blocks),
                        FoldLeft(LAMBDA n, b : n + b.statements, 0, profiles[i].blocks))]
    IN Report(Covered(files), Total(files), files)

Flush(s) ==
    IF s.path = "" /\ s.total = 0 THEN s
    ELSE [files |-> Append(s.files, FileCoverage(s.path, s.covered, s.total)), path |-> "", covered |-> 0, total |-> 0]

(* "SF" opens a file, "end" closes it, "DA" is a line; what cannot be read *)
(* is passed over.                                                         *)
LCOVRecord(s, r) ==
    CASE r.tag = "SF" -> [s EXCEPT !.path = r.path]
      [] r.tag = "end" -> Flush(s)
      [] r.tag = "DA" ->
            [s EXCEPT !.total = @ + 1, !.covered = IF r.hits > 0 THEN @ + 1 ELSE @]
      [] OTHER -> s

(* What is open at the end of the file is closed. *)
ParseLCOV(records) ==
    LET last == Flush(FoldLeft(LCOVRecord, [files |-> <<>>, path |-> "", covered |-> 0, total |-> 0], records))
    IN Report(Covered(last.files), Total(last.files), last.files)

(* The aggregates of the root are preferred; the classes of one file are   *)
(* merged, and counted when the root has no lines.                         *)
ParseCobertura(root) ==
    LET paths == {root.classes[i].path : i \in DOMAIN root.classes}
        Of(p) == SelectSeq(root.classes, LAMBDA c : c.path = p)
        files == [i \in 1..Cardinality(paths) |->
                    LET p == SetToSeq(paths)[i] IN FileCoverage(p, Covered(Of(p)), Total(Of(p)))]
    IN IF root.valid > 0 THEN Report(root.covered, root.valid, files)
       ELSE IF Total(files) > 0 THEN Report(Covered(files), Total(files), files)
       ELSE Unreadable

(* The root's counter of lines for the whole, each source file's own. *)
ParseJaCoCo(root) ==
    Report(root.covered, root.missed + root.covered,
           [i \in DOMAIN root.sources |->
                FileCoverage(root.sources[i].path, root.sources[i].covered,
                             root.sources[i].missed + root.sources[i].covered)])

Parse(payload) ==
    CASE payload.format = "go" -> ParseGoCover(payload.items)
      [] payload.format = "lcov" -> ParseLCOV(payload.items)
      [] payload.format = "cobertura" -> ParseCobertura(payload.items)
      [] payload.format = "jacoco" -> ParseJaCoCo(payload.items)

(* The files are kept by path: the last of a path wins, "" is dropped. *)
FileMap(files) ==
    LET paths == {files[i].path : i \in DOMAIN files} \ {""}
    IN [p \in paths |-> files[Max({i \in DOMAIN files : files[i].path = p})]]

---------------------------------------------------------------------------
(* Tokens. *)

CreateUploadToken(r) ==
    /\ Len(token) < MaxTokens
    /\ token' = Append(token, [repo |-> r, expired |-> FALSE, revoked |-> FALSE, used |-> FALSE])
    /\ UNCHANGED <<upload, run, row, detail, clock, untouched, losses>>

(* One that was created without an expiry never takes this step. *)
Expire(t) ==
    /\ ~token[t].expired
    /\ token' = [token EXCEPT ![t].expired = TRUE]
    /\ UNCHANGED <<upload, run, row, detail, clock, untouched, losses>>

(* Only a token of the repository, and only once. *)
RevokeUploadToken(r, t) ==
    /\ token[t].repo = r /\ ~token[t].revoked
    /\ token' = [token EXCEPT ![t].revoked = TRUE]
    /\ UNCHANGED <<upload, run, row, detail, clock, untouched, losses>>

IsActive(t) == ~token[t].revoked /\ ~token[t].expired

---------------------------------------------------------------------------
(* An upload.  Whatever is refused ends it and leaves nothing. *)

\* Mutant: the token is looked up, and its repository not compared.
AuthenticateAnyToken(t, r) == IsActive(t)

AuthenticateToken(t, r) == token[t].repo = r /\ IsActive(t)

(* The headers, the format and the token. *)
IngestCoverage(c, r, t, payload) ==
    /\ run[c].at = "idle" /\ Len(upload) < MaxUploads
    /\ payload.format \in Formats /\ AuthenticateToken(t, r)
    /\ run' = [run EXCEPT ![c] = [Idle EXCEPT !.at = "read", !.token = t, !.repo = r, !.payload = payload]]
    /\ UNCHANGED <<token, upload, row, detail, clock, untouched, losses>>

(* The body is read, and parsed, which may take a while. *)
ReadReport(c) ==
    /\ run[c].at = "read"
    /\ IF run[c].payload.size <= MaxReportFileBytes /\ Parse(run[c].payload).ok
       THEN /\ run' = [run EXCEPT ![c].at = "insert", ![c].stamp = clock + 1]
            /\ clock' = clock + 1
       ELSE run' = [run EXCEPT ![c] = Idle] /\ UNCHANGED clock
    /\ UNCHANGED <<token, upload, row, detail, untouched, losses>>

CreateCoverageUpload(c) ==
    LET report == Parse(run[c].payload)
    IN /\ run[c].at = "insert" /\ Len(upload) < MaxUploads
       /\ upload' = Append(upload, [repo |-> run[c].repo, token |-> run[c].token, payload |-> run[c].payload,
                                    covered |-> report.covered, total |-> report.total, files |-> FileMap(report.files),
                                    status |-> IF report.total = 0 THEN "failed" ELSE "ok", at |-> run[c].stamp])
       /\ run' = [run EXCEPT ![c].at = "touch"]
       /\ UNCHANGED <<token, row, detail, clock, untouched, losses>>

TouchCoverageUploadTokenUsage(c) ==
    /\ run[c].at = "touch"
    /\ token' = [token EXCEPT ![run[c].token].used = TRUE]
    /\ run' = [run EXCEPT ![c] = Idle]
    /\ UNCHANGED <<upload, row, detail, clock, untouched, losses>>

(* A call fails, or the process stops: the rest of the upload is lost. *)
Lose(c) ==
    /\ run[c].at # "idle" /\ losses < MaxLosses
    /\ losses' = losses + 1
    /\ untouched' = IF run[c].at = "touch" THEN untouched \union {run[c].token} ELSE untouched
    /\ run' = [run EXCEPT ![c] = Idle]
    /\ UNCHANGED <<token, upload, row, detail, clock>>

---------------------------------------------------------------------------
(* What is told of it. *)

(* GetRepository joins the newest upload by created_at. *)
Latest(r) ==
    LET mine == {u \in DOMAIN upload : upload[u].repo = r}
    IN IF mine = {} THEN 0 ELSE CHOOSE u \in mine : \A v \in mine : upload[v].at <= upload[u].at

ActiveTokens(r) == {t \in DOMAIN token : token[t].repo = r /\ IsActive(t)}

(* The languages with a conventional report, in the order of their names. *)
languageSuggestions ==
    << <<"c#", "cobertura">>, <<"dart", "lcov">>, <<"elixir", "lcov">>, <<"go", "go">>, <<"java", "jacoco">>,
       <<"javascript", "lcov">>, <<"kotlin", "jacoco">>, <<"php", "cobertura">>, <<"python", "cobertura">>,
       <<"ruby", "lcov">>, <<"rust", "lcov">>, <<"scala", "cobertura">>, <<"swift", "lcov">>, <<"typescript", "lcov">> >>

(* The heaviest language with a suggestion, the first of the equally heavy *)
(* by name; LCOV for a stack that is not known.                            *)
SuggestFromLanguages(weights) ==
    LET known == {i \in DOMAIN languageSuggestions : languageSuggestions[i][1] \in DOMAIN weights}
        Weight(i) == weights[languageSuggestions[i][1]]
        heaviest == {i \in known : \A j \in known : Weight(j) <= Weight(i)}
    IN IF known = {} THEN "lcov" ELSE languageSuggestions[Min(heaviest)][2]

(* The setup panel: the organization's own URL before the platform's; no   *)
(* snippet for a URL no runner can reach.                                  *)
BuildSetup(r) ==
    LET url == IF row[r].orgURL # "" THEN row[r].orgURL ELSE row[r].platformURL
    IN [reachable |-> url \notin {"", "localhost"},
        format |-> SuggestFromLanguages(row[r].languages),
        hasActiveToken |-> ActiveTokens(r) # {},
        lastUpload |-> \E t \in ActiveTokens(r) : token[t].used]

(* The row that is read and the newest upload, as facts for the checks.    *)
RepositoryFacts(r) ==
    [row |-> row[r], skipped |-> row[r].platformURL \in {"", "localhost"}, hasCoverage |-> Latest(r) # 0,
     coverage |-> IF Latest(r) = 0 THEN "none" ELSE upload[Latest(r)].status]

(* No entry; and one that keeps facts, read when seen uploads were stored. *)
NoEntry == [kept |-> FALSE, facts |-> <<>>, seen |-> 0]
Entry(r) == [kept |-> TRUE, facts |-> RepositoryFacts(r), seen |-> Len(upload)]

(* A request that finds no entry reads the tables; it fills the entry      *)
(* later, whatever was stored or invalidated meanwhile.                    *)
GetRepository(r) ==
    /\ ~entry[r].kept /\ fill.repo = ""
    /\ fill' = [repo |-> r, entry |-> Entry(r)]
    /\ UNCHANGED <<token, upload, run, row, entry, clock, untouched, losses>>

(* The fill may fail, unnoticed. *)
FillEntry ==
    /\ fill.repo # ""
    /\ \/ entry' = [entry EXCEPT ![fill.repo] = fill.entry]
       \/ UNCHANGED entry
    /\ fill' = [repo |-> "", entry |-> NoEntry]
    /\ UNCHANGED <<token, upload, run, row, clock, untouched, losses>>

(* The hour is over, or the repository was synced or edited.  An upload    *)
(* leaves the entry where it is.                                           *)
DropEntry(r) ==
    /\ entry[r].kept
    /\ entry' = [entry EXCEPT ![r] = NoEntry]
    /\ UNCHANGED <<token, upload, run, row, fill, clock, untouched, losses>>

(* What the page of one repository shows; a list shows RepositoryFacts.    *)
RepositoryDetail(r) == IF entry[r].kept THEN entry[r].facts ELSE RepositoryFacts(r)

(* One verdict per check.  What was not determined is "n/a". *)
Verdict(pass) == IF pass THEN "pass" ELSE "fail"
TriState(known) == IF known = "nil" THEN "n/a" ELSE Verdict(known = "yes")

Registry(facts) ==
    LET f == facts.row
    IN [owner |-> Verdict(f.owned),
        description |-> Verdict(f.described),
        sync |-> IF ~f.synced THEN "n/a" ELSE Verdict(f.status # "error"),
        docs |-> Verdict(f.docs),
        webhook |-> IF facts.skipped THEN "n/a" ELSE Verdict(f.webhook),
        ci |-> TriState(f.ci),
        tests |-> TriState(f.tests),
        coverage |-> Verdict(facts.hasCoverage /\ facts.coverage # "failed")]

(* A check that is not judged is not counted. *)
Evaluate(facts) ==
    LET verdict == Registry(facts)
        Count(v) == Cardinality({k \in DOMAIN verdict : verdict[k] = v})
    IN [verdict |-> verdict, passing |-> Count("pass"), failing |-> Count("fail"),
        notApplicable |-> Count("n/a"), total |-> Count("pass") + Count("fail")]

---------------------------------------------------------------------------
Init ==
    /\ token = <<>> /\ upload = <<>> /\ clock = 0 /\ untouched = {} /\ losses = 0
    /\ run = [c \in Runners |-> Idle]
    /\ row = RepoRows
    /\ entry = [r \in Repos |-> NoEntry] /\ fill = [repo |-> "", entry |-> NoEntry]

Next ==
    \/ \E r \in Repos : CreateUploadToken(r)
    \/ \E t \in DOMAIN token : Expire(t) \/ \E r \in Repos : RevokeUploadToken(r, t)
    \/ FillEntry \/ \E r \in Looked : GetRepository(r) \/ DropEntry(r)
    \/ \E c \in Runners :
          \/ \E r \in Repos, t \in DOMAIN token, payload \in Payloads : IngestCoverage(c, r, t, payload)
          \/ ReadReport(c) \/ CreateCoverageUpload(c) \/ TouchCoverageUploadTokenUsage(c) \/ Lose(c)

Spec == Init /\ [][Next]_vars

---------------------------------------------------------------------------
(* Types of the tables, and of what is told of them. *)
TypeOK ==
    /\ \A t \in DOMAIN token : token[t].repo \in Repos /\ {token[t].used, token[t].revoked, token[t].expired} \subseteq BOOLEAN
    /\ \A u \in DOMAIN upload : upload[u].token \in DOMAIN token /\ upload[u].total \in Nat /\ upload[u].status \in {"ok", "failed"}
    /\ \A r \in Repos : BuildSetup(r).format \in Formats

(* The lines of a file of an LCOV report: the DA records after the SF that *)
(* names it and before anything closes or replaces it.                     *)
LinesOf(records, path) ==
    {i \in DOMAIN records : /\ records[i].tag = "DA"
                            /\ \E j \in 1..i : /\ records[j].tag = "SF" /\ records[j].path = path
                                               /\ \A k \in j + 1..i : records[k].tag \notin {"SF", "end"}}

(* A record opens a file only where none is open, and no file twice. *)
Tidy(records) ==
    LET opens == {i \in DOMAIN records : records[i].tag = "SF"}
    IN /\ \A i, j \in opens : records[i].path = records[j].path => i = j
       /\ \A i \in opens : i = 1 \/ records[i - 1].tag = "end"

(* A stored LCOV report counts every line once, and for the file it is of, *)
(* unless the report opens a file twice or before the last was closed.     *)
LinesAreCounted ==
    \A u \in DOMAIN upload :
        LET p == upload[u].payload
        IN p.format = "lcov" =>
            /\ upload[u].total = Cardinality({i \in DOMAIN p.items : p.items[i].tag = "DA"})
            /\ Tidy(p.items) => \A f \in DOMAIN upload[u].files :
                   /\ upload[u].files[f].total = Cardinality(LinesOf(p.items, f))
                   /\ upload[u].files[f].covered =
                          Cardinality({i \in LinesOf(p.items, f) : p.items[i].hits > 0})

(* The panel tells of an upload exactly when an active token has one, but  *)
(* for the uploads whose note on the token is under way or was lost.       *)
SetupTellsUploads ==
    \A r \in Repos :
        LET used == {t \in ActiveTokens(r) : \E u \in DOMAIN upload : upload[u].token = t}
            pending == untouched \union {run[c].token : c \in {d \in Runners : run[d].at = "touch"}}
        IN /\ BuildSetup(r).lastUpload => used # {}
           /\ used \ pending # {} => BuildSetup(r).lastUpload

(* A list tells, and judges, the report that was sent last: coverage       *)
(* passes when, and only when, that one had lines.                         *)
ListsTellLastReport ==
    \A r \in Repos :
        LET sent == {u \in DOMAIN upload : upload[u].repo = r}
        IN Evaluate(RepositoryFacts(r)).verdict.coverage = "pass" <=>
              \E u \in sent : upload[u].total > 0 /\ \A v \in sent : upload[v].at <= upload[u].at

(* The page of a repository may lag behind the list, but only for an       *)
(* upload stored after the entry it is answered from was read.             *)
DetailLagsOnlyUploads ==
    \A r \in Repos : RepositoryDetail(r) # RepositoryFacts(r) => Latest(r) > entry[r].seen

(* Coverage is told as it was reported: a repository's uploads come from   *)
(* its own tokens and count the lines of their reports, the setup panel    *)
(* and the lists know of them, and the repository's page of all but those  *)
(* that came while its answer was cached.                                  *)
CoverageIsAccounted ==
    /\ LinesAreCounted /\ SetupTellsUploads /\ ListsTellLastReport /\ DetailLagsOnlyUploads
    /\ \A u \in DOMAIN upload : token[upload[u].token].repo = upload[u].repo
=============================================================================

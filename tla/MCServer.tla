------------------------------ MODULE MCServer ------------------------------
(* What one server keeps for TLC, each part explored by itself: repositories *)
(* with failing stores, the schema and its secrets, the settings of an       *)
(* organization, what the steps of an onboarding show, and every request.    *)
EXTENDS MCRepositorySync, SchemaTables, ContentTables

VARIABLES
    part,
    settings, asked, lastTold, overwritten, version,
    target, call

schemaVars == <<done, tracked, secret, proc, origin, torn, overlapped, misled, keysUsed, starts>>
settingsVars == <<settings, asked, lastTold, overwritten, version>>
contentVars == <<there, content, seats, term, flowLive, stepRows, outcome, access, open, req, earned, saves>>
requestVars == <<target, call>>

---------------------------------------------------------------------------
(* Four migrations, the third of them 006; the tool may find it beside it. *)
MCNeeds == <<{}, {1}, {2}, {1, 3}>>
MCTables == <<{"token"}, {"hook"}>>

M == INSTANCE Schema WITH
        Rerunnable <- {1, 2, 4}, Releases <- {1..3, 1..4}, Tooling <- {1..2, 1..3}, HexRows <- {"hook"},
        Keys <- {"k"}, MaxStarts <- 3

ASSUME SchemaConstants == M!SchemaAssumption

Update(given) == [op |-> "update", role |-> "admin", given |-> given]

S == INSTANCE Settings WITH
        row <- settings, req <- asked, told <- lastTold, Requests <- {"p", "q"}, MaxWrites <- 4,
        Canonical <- [x \in {"PT-br"} |-> "pt-BR"], SecretOf <- [a |-> "sa", b |-> "sb"],
        Asks <- {[op |-> "get", role |-> "admin", given |-> <<>>], [op |-> "update", role |-> "viewer", given |-> <<>>],
                 Update([token |-> "t"]), Update([clientID |-> "a", clientSecret |-> "sa"]),
                 Update([clientID |-> "b", clientSecret |-> "sb", budget |-> 5]),
                 Update([language |-> "PT-br", budget |-> 0]), Update([language |-> "bad"])}

ASSUME SettingsConstants == S!SettingsAssumption

---------------------------------------------------------------------------
(* Three repositories, one of another organization, in a graph of two nodes. *)
Step(kind, refs) == [kind |-> kind, refs |-> refs, text |-> TRUE, type |-> "", check |-> "none"]
Verified(check, refs) == [Step("verified", refs) EXCEPT !.check = check]

Plain == {Step("markdown", {}), Step("glossary", {})}
Checks == {Verified("first_change_request", {"r1"}), Verified("team_membership", {}), Verified("team_membership", {"team"})}
Pairs ==
    {{Step("team", {"team"}), Step("repository", {"r1"})}, {Step("contacts", {"ana", "stranger"})},
     {Step("contacts", {"ana"}), Step("architecture", {"r1"})}, {Step("glossary", {"t"}), Step("team", {"team"})},
     {Step("glossary", {}), [Step("doc", {"doc"}) EXCEPT !.type = "adr"]},
     {Step("doc", {"doc"}), Step("architecture", {"r1"})}, {Step("repository", {"r3"})},
     {[Step("link", {}) EXCEPT !.text = FALSE]}}
StepLists == Pairs \cup {{d} : d \in Checks} \cup SUBSET Plain

People == {"me", "ana", "stranger"}

MCDrafts == UNION StepLists
MCLower == [SLO |-> "slo", slo |-> "slo", API |-> "api"]

O == INSTANCE OnboardingContent WITH
        Created <- [r1 |-> 1, r2 |-> 2, r3 |-> 3], Teams <- {"team"}, Docs <- {"doc"}, People <- People, Me <- "me",
        Lists <- StepLists, DocTypes <- {"adr", "spec"}, MaxSaves <- 2

ASSUME ContentConstants == O!ContentAssumption

(* One request saves and the other walks, while things come and go. *)
ShowNext ==
    \/ /\ \E c \in Walkers :
             \/ O!Walk(c) \/ O!findTermByName(c) \/ O!WriteGlossaryTerm(c)
             \/ c = "a" /\ (O!SaveGlossaryTerm(c, "t", "API") \/ O!DeleteGlossaryTerm(c, "t"))
       /\ req'["b"].at # "refs" /\ req'["a"].at # "resolve"
       /\ req'["a"].at = "refs" => req'["a"].list \in Pairs
    \/ O!World /\ access' = access /\ open' = open /\ seats' = seats /\ flowLive' = flowLive

(* Verified steps, and what they are checked against, while they are saved. *)
ProveNext ==
    \/ /\ O!Walk("a") \/ \E c \in Walkers : O!Prove(c)
       /\ \A c \in Walkers : req'[c].at # "resolve" /\ (req'[c].at = "refs" => req'[c].list \subseteq Checks)
    \/ O!World /\ there \ there' \subseteq {"r1", "team"} /\ content' = content

(* The dashboard, while the steps are saved. *)
CountNext ==
    \/ \E c \in Walkers :
          \/ O!Count(c)
          \/ c = "a" /\ (O!ReplaceOnboardingSteps(c) \/ \E list \in SUBSET Plain : O!ReplaceSteps(c, list))
    \/ O!World /\ flowLive' # flowLive

---------------------------------------------------------------------------
A == INSTANCE Requests WITH row <- target, req <- call

MCInit ==
    /\ Init /\ M!Init /\ S!Init /\ O!Init /\ A!Init
    /\ part \in {"repositories", "schema", "settings", "show", "prove", "count", "define", "requests"}
    /\ part = "schema" \/ (origin = "fresh")

MCNext ==
    /\ \/ part = "repositories" /\ Next /\ UNCHANGED <<schemaVars, settingsVars, contentVars, requestVars>>
       \/ part = "schema" /\ M!Next /\ UNCHANGED <<vars, settingsVars, contentVars, requestVars>>
       \/ part = "settings" /\ S!Next /\ UNCHANGED <<vars, schemaVars, contentVars, requestVars>>
       \/ part = "show" /\ ShowNext /\ UNCHANGED <<vars, schemaVars, settingsVars, requestVars>>
       \/ part = "prove" /\ ProveNext /\ UNCHANGED <<vars, schemaVars, settingsVars, requestVars>>
       \/ part = "count" /\ CountNext /\ UNCHANGED <<vars, schemaVars, settingsVars, requestVars>>
       \/ part = "define" /\ (\E c \in Walkers : O!Define(c)) /\ UNCHANGED <<vars, schemaVars, settingsVars, requestVars>>
       \/ part = "requests" /\ A!Next /\ UNCHANGED <<vars, schemaVars, settingsVars, contentVars>>
    /\ UNCHANGED part

MCSpec == MCInit /\ [][MCNext]_<<vars, schemaVars, settingsVars, contentVars, requestVars, part>>

---------------------------------------------------------------------------
(* The answer of a request says what became of it, and what an             *)
(* administrator was told is set stays set, unless an older copy overwrote *)
(* it.                                                                     *)
AnswersHold ==
    /\ part = "requests" => A!TypeOK /\ A!AnswersAreTrue
    /\ part = "settings" => S!TypeOK /\ S!SettingsHoldUnlessOverwritten

(* "skips rows that are already encrypted" and encrypts the others         *)
(* (cmd/migrate-encrypt/main.go:1-9).                                      *)
ToolEncrypts == M!ToolEncrypts

(* "safe to restart at any time" (README.md:561).                          *)
RestartIsSafe == M!RestartIsSafe
=============================================================================

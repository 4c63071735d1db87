------------------------------ MODULE Settings ------------------------------
(***************************************************************************)
(* The settings of one organization (handlers/organization_config.go,      *)
(* models/organization.go): every request reads the whole row, the first   *)
(* one creates it, and an update writes the whole copy back.               *)
(***************************************************************************)
EXTENDS Integers

CONSTANTS Requests,  \* requests of administrators that may overlap
          Asks,      \* what they ask: [op, role, given], given a record of fields
          Canonical, \* the languages that parse, each with its canonical tag
          SecretOf,  \* history: the secret that goes with each client id
          MaxWrites

VARIABLES row,        \* organization_configs: NoRow, or the settings
          req,        \* the requests
          told,       \* history: the value of each field in the last answer about it
          overwritten,\* history: a copy older than the row was written over it
          version     \* history: how often the row was written

vars == <<row, req, told, overwritten, version>>

Idle == [at |-> "idle"]
Fields == {"token", "clientID", "clientSecret", "budget", "language"}
Blank == [token |-> "", clientID |-> "", clientSecret |-> "", budget |-> 0, language |-> ""]
NoRow == Blank  \* no row is stored without its defaults

DefaultBudget(budget) == IF budget = 0 THEN 20000 ELSE budget
DefaultLanguage(tag) == IF tag = "" THEN "en" ELSE tag

ApplyDefaults(cfg) ==
    [cfg EXCEPT !.budget = DefaultBudget(cfg.budget), !.language = DefaultLanguage(cfg.language)]

Init ==
    /\ row = NoRow /\ req = [q \in Requests |-> Idle] /\ told = ApplyDefaults(Blank)
    /\ overwritten = FALSE /\ version = 0

At(q, place) == req[q].at = place
Answer(q, status) == req' = [req EXCEPT ![q] = [at |-> "idle", status |-> status]]

(* requireAdmin, and the language that is given, if it is not empty. *)
Begin(q, ask) ==
    /\ At(q, "idle") /\ version < MaxWrites
    /\ \/ ask.role # "admin" /\ Answer(q, 403)
       \/ /\ ask.role = "admin"
          /\ LET tag == IF "language" \in DOMAIN ask.given THEN ask.given.language ELSE ""
             IN \/ tag \notin DOMAIN Canonical \cup {""} /\ Answer(q, 400)
                \/ /\ tag \in DOMAIN Canonical \cup {""}
                   /\ req' = [req EXCEPT ![q] = [at |-> "read", op |-> ask.op, given |->
                         IF tag = "" THEN ask.given ELSE [ask.given EXCEPT !.language = Canonical[tag]]]]
    /\ UNCHANGED <<row, told, overwritten, version>>

(* The row is at hand: a read is answered, and an update goes on with the copy. *)
Proceed(q, cfg, seen) ==
    \/ req[q].op = "get" /\ Answer(q, 200)
    \/ req[q].op = "update" /\ req' = [req EXCEPT ![q] = [at |-> "write", given |-> req[q].given, cfg |-> cfg, seen |-> seen]]

(* getOrCreateConfig. *)
GetOrganizationConfig(q) ==
    /\ At(q, "read")
    /\ \/ row # NoRow /\ Proceed(q, ApplyDefaults(row), version)
       \/ row = NoRow /\ req' = [req EXCEPT ![q] = [at |-> "create", op |-> req[q].op, given |-> req[q].given, seen |-> version]]
    /\ UNCHANGED <<row, told, overwritten, version>>

\* Mutant: one column is missing from the list of those that are updated.
UpsertLosing(cfg) ==
    row' = IF row = NoRow THEN ApplyDefaults(cfg) ELSE [ApplyDefaults(cfg) EXCEPT !.clientSecret = row.clientSecret]

(* The row is inserted, or every column of the list takes the new value. *)
UpsertOrganizationConfig(cfg) == row' = ApplyDefaults(cfg)

Wrote(q) ==
    /\ overwritten' = (overwritten \/ version # req[q].seen)
    /\ version' = version + 1

(* getOrCreateConfig: a row of defaults, over one created meanwhile. *)
CreateConfig(q) ==
    /\ At(q, "create")
    /\ UpsertOrganizationConfig(Blank) /\ Wrote(q)
    /\ Proceed(q, ApplyDefaults(Blank), version + 1)
    /\ UNCHANGED told

(* The fields that are given, and the others as they were. *)
Given(given, cfg) == [f \in Fields |-> IF f \in DOMAIN given THEN given[f] ELSE cfg[f]]

\* Mutant: what is not given is emptied.
applyOrganizationConfigUpdateBlank(cfg, given) == ApplyDefaults(Given(given, Blank))

(* Only what is given changes. *)
applyOrganizationConfigUpdate(cfg, given) == ApplyDefaults(Given(given, cfg))

UpdateConfig(q) ==
    /\ At(q, "write")
    /\ LET cfg == applyOrganizationConfigUpdate(req[q].cfg, req[q].given)
       IN /\ UpsertOrganizationConfig(cfg) /\ Wrote(q)
          /\ told' = [f \in Fields |-> IF f \in DOMAIN req[q].given THEN cfg[f] ELSE told[f]]
    /\ Answer(q, 200)

(* A request loses the database and answers with an error. *)
Fail(q) ==
    /\ ~At(q, "idle") /\ Answer(q, 500)
    /\ UNCHANGED <<row, told, overwritten, version>>

(* Who sets a client id sets the secret that goes with it.                 *)
PairOK(id, secret) == (id = "" <=> secret = "") /\ (id # "" => secret = SecretOf[id])
GivenOK(given) ==
    /\ DOMAIN given \subseteq Fields
    /\ "clientID" \in DOMAIN given <=> "clientSecret" \in DOMAIN given
    /\ "clientID" \in DOMAIN given => PairOK(given.clientID, given.clientSecret)

SettingsAssumption ==
    \A ask \in Asks : ask.op \in {"get", "update"} /\ GivenOK(ask.given)

Next == \E q \in Requests :
    \/ \E ask \in Asks : Begin(q, ask)
    \/ GetOrganizationConfig(q) \/ CreateConfig(q) \/ UpdateConfig(q) \/ Fail(q)

Spec == Init /\ [][Next]_vars

---------------------------------------------------------------------------
(* Types of the row. *)
TypeOK == row # NoRow => /\ DOMAIN row = Fields
                         /\ row.language # "" /\ row.budget # 0

(* What an administrator was told is set stays set until it is set again,  *)
(* unless a request wrote a copy older than the row; and a client id never *)
(* stands beside the secret of another, whatever overlaps.                 *)
SettingsHoldUnlessOverwritten ==
    /\ row # NoRow /\ ~overwritten => row = told
    /\ row # NoRow => PairOK(row.clientID, row.clientSecret)
=============================================================================

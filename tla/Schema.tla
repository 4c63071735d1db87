------------------------------- MODULE Schema -------------------------------
(***************************************************************************)
(* The schema and the secrets it stores: storage.New runs the migrations   *)
(* of every process that opens the database (storage/migrations.go), the   *)
(* server and cmd/migrate-encrypt alike, and both seal secrets with a key  *)
(* of the environment (crypto/cipher.go, crypto/serializer.go).            *)
(***************************************************************************)
EXTENDS SchemaTables, SequencesExt

CONSTANTS Rerunnable,   \* migrations that may be executed again
          Releases,     \* the migrations that lie beside a binary
          Tooling,      \* those that may lie beside migrate-encrypt
          HexRows,      \* rows whose plain text is hex digits
          Keys,         \* encryption keys
          MaxStarts

vars == <<done, tracked, secret, proc, origin, torn, overlapped, misled, keysUsed, starts>>

Users == 1       \* the migration that creates the table of users
Process(place, kind, ships, key) ==
    [at |-> place, kind |-> kind, ships |-> ships, key |-> key, todo |-> {}, again |-> FALSE,
     table |-> 1, rows |-> <<>>]
Down == Process("down", "none", {}, "none")
Migrating == {"load", "check", "baseline", "run", "mark"}
At(p, places) == proc[p].at \in places

(* What is shipped is shipped with all it needs, a file needs earlier ones,  *)
(* 006 does not run on what it has converted, and a key is no other state   *)
(* of a secret.                                                             *)
SchemaAssumption ==
    /\ Files \subseteq Nat /\ Encrypt \in Files
    /\ \A f \in Files : Needs[f] \subseteq {g \in Files : g < f}
    /\ \A s \in Releases \cup Tooling : s \subseteq Files /\ \A f \in s : Needs[f] \subseteq s
    /\ Encrypt \notin Rerunnable
    /\ Keys \cap {"none", "hex", "unhex"} = {}

(* A new database, one from before migrations were tracked, and one of an *)
(* earlier release; the old ones hold secrets in plain text.              *)
Init ==
    /\ origin \in {"fresh", "untracked", "tracked"}
    /\ done = IF origin = "fresh" THEN {} ELSE {f \in Files : f < Encrypt}
    /\ tracked = IF origin = "tracked" THEN done ELSE {}
    /\ \E held \in IF origin = "fresh" THEN {{}} ELSE SUBSET Rows :
          secret = [r \in Rows |-> IF r \in held THEN <<>> ELSE <<None>>]
    /\ proc = [p \in Processes |-> Down]
    /\ torn = FALSE /\ overlapped = FALSE /\ misled = {} /\ keysUsed = {} /\ starts = 0

Goto(p, place) == proc' = [proc EXCEPT ![p].at = place]
Rest(p) == proc[p].todo \ {First(proc[p].todo)}

---------------------------------------------------------------------------
(* Encryption *)

IsHex(r, value) == IF value = <<>> THEN r \in HexRows ELSE Last(value) = "hex"
Hex(value) == Append(value, "hex")
Unhex(value) == IF value # <<>> /\ Last(value) = "hex" THEN Front(value) ELSE Append(value, "unhex")

(* Decrypt opens what its key sealed last; the version byte and the tag tell. *)
Opens(value, key) == value # <<>> /\ Last(value) = key

---------------------------------------------------------------------------
(* Migrations *)

(* A process opens the database; without a key of 32 bytes it does not. *)
Start(p, kind, ships, key) ==
    /\ At(p, {"down", "failed", "finished"}) /\ starts < MaxStarts
    /\ proc' = [proc EXCEPT ![p] = Process("load", kind, ships, key)]
    /\ overlapped' = (overlapped \/ \E q \in Processes \ {p} : At(q, Migrating))
    /\ keysUsed' = keysUsed \cup {key} /\ starts' = starts + 1
    /\ UNCHANGED <<done, tracked, secret, origin, torn, misled>>

(* loadAppliedVersions, after the tracking table is created. *)
LoadAppliedVersions(p) ==
    /\ At(p, {"load"})
    /\ proc' = [proc EXCEPT ![p].at = IF tracked = {} THEN "check" ELSE "run",
                            ![p].todo = proc[p].ships \ tracked]
    /\ UNCHANGED <<done, tracked, secret, origin, torn, overlapped, misled, keysUsed, starts>>

IsBaselineNeeded(p) ==
    /\ At(p, {"check"})
    /\ Goto(p, IF Users \in done THEN "baseline" ELSE "run")
    /\ UNCHANGED <<done, tracked, secret, origin, torn, overlapped, misled, keysUsed, starts>>

(* Every file is marked, one row after the other, and none is executed. *)
BaselineFiles(p) ==
    /\ At(p, {"baseline"}) /\ proc[p].todo # {}
    /\ tracked' = tracked \cup {First(proc[p].todo)}
    /\ proc' = [proc EXCEPT ![p].todo = Rest(p)]
    /\ UNCHANGED <<done, secret, origin, torn, overlapped, misled, keysUsed, starts>>

(* decode(..., 'hex') refuses a value that is none, and with it the file. *)
Accepted(f) ==
    /\ Needs[f] \subseteq done
    /\ f \in done => f \in Rerunnable
    /\ f = Encrypt => \A r \in Rows : Held(r) => IsHex(r, secret[r])

Refuse(p, f) == proc' = [proc EXCEPT ![p].at = "failed", ![p].again = f \in done]

\* Mutant: the columns change their type and the values stay as they are.
ExecuteMigrationAsIs(p) ==
    /\ At(p, {"run"}) /\ proc[p].todo # {}
    /\ LET f == First(proc[p].todo) IN
       IF Accepted(f) THEN done' = done \cup {f} /\ Goto(p, "mark")
       ELSE UNCHANGED done /\ Refuse(p, f)
    /\ UNCHANGED <<tracked, secret, origin, torn, overlapped, misled, keysUsed, starts>>

(* The file runs in a transaction of its own; an error ends the process. *)
ExecuteMigration(p) ==
    /\ At(p, {"run"}) /\ proc[p].todo # {}
    /\ LET f == First(proc[p].todo) IN
       \/ /\ Accepted(f)
          /\ done' = done \cup {f} /\ Goto(p, "mark")
          /\ secret' = [r \in Rows |-> IF f = Encrypt /\ Held(r) THEN Unhex(secret[r]) ELSE secret[r]]
          /\ misled' = misled \cup (IF f = Encrypt THEN {r \in Rows : secret[r] = <<>>} ELSE {})
       \/ ~Accepted(f) /\ Refuse(p, f) /\ UNCHANGED <<done, secret, misled>>
    /\ UNCHANGED <<tracked, origin, torn, overlapped, keysUsed, starts>>

\* Mutant: the mark is forgotten.
MarkAppliedNot(p) ==
    /\ At(p, {"mark"})
    /\ proc' = [proc EXCEPT ![p].at = "run", ![p].todo = Rest(p)]
    /\ UNCHANGED <<done, tracked, secret, origin, torn, overlapped, misled, keysUsed, starts>>

(* The mark is a statement of its own, after the commit. *)
MarkApplied(p) ==
    /\ At(p, {"mark"})
    /\ tracked' = tracked \cup {First(proc[p].todo)}
    /\ proc' = [proc EXCEPT ![p].at = "run", ![p].todo = Rest(p)]
    /\ UNCHANGED <<done, secret, origin, torn, overlapped, misled, keysUsed, starts>>

(* RunMigrations is over: the server serves, and the tool reads its rows. *)
Migrated(p) ==
    /\ At(p, {"baseline", "run"}) /\ proc[p].todo = {}
    /\ Goto(p, IF proc[p].kind = "server" THEN "up" ELSE "read")
    /\ UNCHANGED <<done, tracked, secret, origin, torn, overlapped, misled, keysUsed, starts>>

(* The process is stopped, or loses the database, anywhere. *)
Stop(p) ==
    /\ ~At(p, {"down", "failed", "finished"})
    /\ proc' = [proc EXCEPT ![p] = Down]
    /\ torn' = (torn \/ At(p, {"mark"}) \/ (At(p, {"baseline"}) /\ proc[p].todo # {}))
    /\ UNCHANGED <<done, tracked, secret, origin, overlapped, misled, keysUsed, starts>>

---------------------------------------------------------------------------
(* The server stores a secret: UpsertOAuthConnection, CreateWebhookConfig. *)
(* Bytes do not go into a column of text.                                  *)
SaveSecret(p, r) ==
    /\ At(p, {"up"}) /\ Encrypt \in done
    /\ secret' = [secret EXCEPT ![r] = Seal(<<>>, proc[p].key)]
    /\ misled' = misled \ {r}
    /\ UNCHANGED <<done, tracked, proc, origin, torn, overlapped, keysUsed, starts>>

(* The tool reads every row of a table that is not NULL, and then takes *)
(* one by one.                                                         *)
ReadRows(p) ==
    /\ At(p, {"read"})
    /\ proc' = [proc EXCEPT ![p].at = "backfill",
                            ![p].rows = [r \in {x \in Tables[proc[p].table] : Held(x)} |-> secret[r]]]
    /\ UNCHANGED <<done, tracked, secret, origin, torn, overlapped, misled, keysUsed, starts>>

(* Skipped: what is hex and opens with the key. *)
Encrypted(r, value, key) == IsHex(r, value) /\ Opens(Unhex(value), key)

Took(p, r) == proc' = [proc EXCEPT ![p].rows = [q \in DOMAIN @ \ {r} |-> @[q]]]

\* Mutant: rows encrypted before are encrypted again.
BackfillAgain(p, r) ==
    /\ At(p, {"backfill"}) /\ r \in DOMAIN proc[p].rows
    /\ secret' = [secret EXCEPT ![r] = Hex(Seal(proc[p].rows[r], proc[p].key))]
    /\ misled' = IF Encrypt \in done THEN misled \cup {r} ELSE misled
    /\ Took(p, r)
    /\ UNCHANGED <<done, tracked, origin, torn, overlapped, keysUsed, starts>>

(* The update names the row only, whatever it holds by now. *)
Backfill(p, r) ==
    /\ At(p, {"backfill"}) /\ r \in DOMAIN proc[p].rows
    /\ LET value == proc[p].rows[r] IN
       \/ Encrypted(r, value, proc[p].key) /\ UNCHANGED <<secret, misled>>
       \/ /\ ~Encrypted(r, value, proc[p].key)
          /\ secret' = [secret EXCEPT ![r] = Hex(Seal(value, proc[p].key))]
          /\ misled' = IF Encrypt \in done THEN misled \cup {r} ELSE misled
    /\ Took(p, r)
    /\ UNCHANGED <<done, tracked, origin, torn, overlapped, keysUsed, starts>>

Finish(p) ==
    /\ At(p, {"backfill"}) /\ DOMAIN proc[p].rows = {}
    /\ \/ proc[p].table = Len(Tables) /\ Goto(p, "finished")
       \/ proc[p].table # Len(Tables) /\ proc' = [proc EXCEPT ![p].at = "read", ![p].table = @ + 1]
    /\ UNCHANGED <<done, tracked, secret, origin, torn, overlapped, misled, keysUsed, starts>>

---------------------------------------------------------------------------
Next == \E p \in Processes :
    \/ \E k \in Keys : \/ \E s \in Releases : Start(p, "server", s, k)
                       \/ \E s \in Tooling : Start(p, "tool", s, k)
    \/ LoadAppliedVersions(p) \/ IsBaselineNeeded(p) \/ BaselineFiles(p)
    \/ ExecuteMigration(p) \/ MarkApplied(p) \/ Migrated(p) \/ Stop(p)
    \/ ReadRows(p) \/ Finish(p)
    \/ \E r \in Rows : SaveSecret(p, r) \/ Backfill(p, r)

Spec == Init /\ [][Next]_vars

---------------------------------------------------------------------------
(* What is said of it. *)

(* "Runner skips files already in the table - safe to restart at any time"   *)
(* (README.md:561): whoever starts on a new database, one after the other,   *)
(* serves the schema it ships.                                               *)
RestartIsSafe ==
    origin = "fresh" /\ ~overlapped =>
        \A p \in Processes : ~At(p, {"failed"}) /\ (At(p, {"up"}) => Whole(p))

(* "reads plaintext oauth_connections.access_token and webhook_configs.secret *)
(* rows, encrypts them, and writes back the encrypted bytes as hex strings"   *)
(* (cmd/migrate-encrypt/main.go:1-3): when the tool is done, what was plain   *)
(* is sealed, in hex until 006 has decoded it.                                *)
ToolEncrypts ==
    \A p \in Processes, r \in Rows : At(p, {"finished"}) /\ Held(r) /\ Cardinality(keysUsed) = 1 =>
        secret[r] = IF Encrypt \in done THEN Seal(<<>>, proc[p].key) ELSE Hex(Seal(<<>>, proc[p].key))
=============================================================================

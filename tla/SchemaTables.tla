----------------------------- MODULE SchemaTables -----------------------------
(***************************************************************************)
(* The schema, the secrets it stores and the processes that open the       *)
(* database, and what holds of them whatever the steps of Schema do.       *)
(*                                                                         *)
(* A secret is what it was written as and what has been done to it since:  *)
(* sealed with a key, written out in hex, or decoded from hex.             *)
(***************************************************************************)
EXTENDS Integers, Sequences, FiniteSets

CONSTANTS Processes,    \* processes
          Files,        \* migrations, numbered in the order of their names
          Needs,        \* the migrations whose tables each of them alters
          Encrypt,      \* 006: the columns of secrets become bytea
          Tables        \* tables with a secret in each row, in the order of the tool

VARIABLES done, tracked, \* the migrations in effect, and the rows of schema_migrations
          secret,        \* the secret of each row
          proc,          \* the processes
          origin,        \* history: what the database was
          torn,          \* history: a process stopped between a migration and its mark
          overlapped,    \* history: two processes were migrating at once
          misled,        \* history: secrets converted in plain text, or written by the tool as bytea
          keysUsed,      \* history: the keys of the processes
          starts

Rows == UNION {Tables[i] : i \in DOMAIN Tables}
None == "none"
Held(r) == secret[r] # <<None>>

Seal(value, key) == Append(value, key)

(* Scan: what the server reads of a row, the text it was given or an error. *)
Readable(r, key) == Encrypt \in done /\ secret[r] = Seal(<<>>, key)

First(fs) == CHOOSE f \in fs : \A g \in fs : f <= g

---------------------------------------------------------------------------
(* Properties *)

(* Types; a migration that is needed is in effect before its user. *)
SchemaTypes ==
    /\ tracked \subseteq Files /\ misled \subseteq Rows
    /\ \A f \in done : f \in Files /\ Needs[f] \subseteq done
    /\ \A p \in Processes : proc[p].at \in {"load", "check", "baseline", "run", "mark", "up", "read", "backfill",
                                            "failed", "finished", "down"}

Whole(p) == proc[p].ships \subseteq done

(* Safe to restart (README.md:561), but for the moments when it is not: the *)
(* migrations of a process that starts end with the schema it ships, whatever *)
(* stopped others before, unless a process was stopped between a commit and *)
(* its mark or in the midst of a baseline, two migrated at once, the        *)
(* database is older than the tracking, or the secrets are not hex.         *)
SchemaIsWholeUnlessTorn ==
    \A p \in Processes :
        /\ proc[p].at = "up" => Whole(p) \/ torn \/ overlapped \/ origin = "untracked"
        /\ proc[p].at = "failed" =>
              torn \/ overlapped \/ origin = "untracked" \/ (First(proc[p].todo) = Encrypt /\ ~proc[p].again)

(* A secret that was stored is read again by whoever serves with the key it *)
(* was stored with: neither a migration nor the tool loses it, but where a  *)
(* plain one was converted or the tool wrote to a column that was.          *)
SecretsSurviveUnlessMisled ==
    (Cardinality(keysUsed) = 1 /\ Encrypt \in done) =>
        \A p \in Processes, r \in Rows : proc[p].at = "up" /\ Held(r) => Readable(r, proc[p].key) \/ r \in misled

SchemaHolds == SchemaTypes /\ SchemaIsWholeUnlessTorn /\ SecretsSurviveUnlessMisled
=============================================================================

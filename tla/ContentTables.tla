----------------------------- MODULE ContentTables -----------------------------
(***************************************************************************)
(* The steps of an onboarding flow, what they name, the glossary and the   *)
(* requests that read and write them, and what holds of them whatever the  *)
(* steps of OnboardingContent do.                                          *)
(***************************************************************************)
EXTENDS Integers, FiniteSets

CONSTANTS Walkers,      \* requests that are served at the same time
          Repositories, \* repositories a step can name
          Terms,        \* rows of the glossary
          Foreign,      \* what belongs to another organization
          Drafts,       \* steps: [kind, refs, text, type, check]
          Names, Lower, \* spellings of a term, and each in lower case
          Limit         \* nodes the graph draws: 20

VARIABLES
    there,      \* what exists; people: the members
    content,    \* the types each document has content of
    seats,      \* team_members
    term,       \* organization_glossary_terms: the spelling, "" before and "gone" after
    flowLive,   \* the flow is not deleted
    stepRows,   \* its steps
    outcome,    \* onboarding_step_progress of Me
    access,     \* of the provider: "login" of Me and "token" of the organization
    open,       \* people with an open change request
    req,        \* the requests
    earned,     \* history: checks that were true of Me since each request asked
    saves

LiveTerms == {t \in Terms : term[t] \in Names}
Ours(e) == e \in (there \cup LiveTerms) \ Foreign
Clash(t, name) == \E x \in LiveTerms \ {t} : Lower[term[x]] = Lower[name]

---------------------------------------------------------------------------
(* Properties *)

(* Types; the outcomes belong to steps of the flow. *)
ContentTypes ==
    /\ stepRows \subseteq Drafts
    /\ \A d \in Drafts : outcome[d] \in {"none", "done", "skipped"} /\ (outcome[d] # "none" => d \in stepRows)
    /\ \A t \in Terms : term[t] \in Names \cup {"", "gone"}

(* No step of a flow names a thing of another organization, and no walk   *)
(* shows one, whatever was deleted since and between its queries.         *)
NothingForeignIsShown ==
    /\ \A d \in stepRows : d.refs \cap Foreign = {}
    /\ \A c \in Walkers : req[c].at = "resolve" => \A r \in req[c].shown : r.names \cap Foreign = {}

(* What a step names and still exists, its walk has shown: the explanation *)
(* takes the place of nothing but what is gone, of a document without      *)
(* content of the type, and of a repository beyond the newest Limit.       *)
WhatExistsIsShown ==
    \A c \in Walkers : req[c].at = "resolve" => \A r \in req[c].shown :
        r.step.kind \in {"repository", "team", "contacts", "glossary", "architecture"} =>
            \A e \in r.step.refs : Ours(e) => \/ e \in r.names
                                              \/ r.step.kind = "architecture" /\ Cardinality(Repositories \ Foreign) > Limit

(* Who is answered that a check passed, of that person it was true at a    *)
(* time while it was asked.  What is stored is done, as for a step that    *)
(* the person marked.                                                      *)
PassedWasTrue == \A c \in Walkers : req[c].at = "passed" => req[c].step \in earned[c]

(* The dashboard never counts more steps done than there are, unless the *)
(* flow was deleted or its steps were saved between the queries.         *)
DashboardAddsUp ==
    \A c \in Walkers : req[c].at = "board" /\ req[c].named /\ req[c].saw = saves => req[c].done <= req[c].total

(* No two terms differ in their case only, whoever creates them at a time. *)
TermsAreDistinct == \A t \in LiveTerms : ~Clash(t, term[t])

(* A walk shows what exists and nothing of others, checks were true of who *)
(* is told so, the dashboard adds up, and terms are distinct.              *)
ContentHolds ==
    /\ ContentTypes
    /\ NothingForeignIsShown /\ WhatExistsIsShown /\ PassedWasTrue
    /\ DashboardAddsUp /\ TermsAreDistinct
================================================================================

----------------------------- MODULE MCServices -----------------------------
(* The services around a repository for TLC, each explored by itself: the    *)
(* deliveries of its host and the hooks they come from, what the host tells, *)
(* its documentation, and the catalog of what its files name.                *)
EXTENDS MCCatalog, WebhookTables, HookTables, DocTables, ProviderTables, TLC

CONSTANTS c1, c2

VARIABLES
    part,
    act, sent, answers, gone, up, crashes,
    job, edits, losses

deliveryVars == <<hook, tasks, act, enqueued, sent, answers, gone, up, crashes>>
hookVars == <<present, config, hooks, work, generated, cut, overlapped>>
docVars == <<doc, task, opened, spent, req, job, edits, losses, produced, excuse, overspent>>
hostVars == <<platform, author, listing, reviews, walk, call, publish, pushes, calls, lost>>

W == INSTANCE WebhookDelivery WITH Faults <- {"redis"}

(* Three hooks at most. *)
H == INSTANCE Hooks WITH MaxHooks <- 3

P == INSTANCE Providers WITH
        Paths <- 1..5, MaxPages <- 2, MaxReviews <- 3, MaxPushes <- 1, MaxCalls <- 2, MaxLost <- 1

ASSUME ProviderConstants == P!ProviderAssumption

G == INSTANCE DocGeneration WITH
        Workers <- {"w1"}, Scopes <- {"repo", "org"}, MaxDocs <- 3, MaxEdits <- 2, MaxRetry <- 1, Costs <- {2},
        Faults <- {"db", "redis", "provider", "process"}, faults <- losses

(* What generations cost, small and large, without edits. *)
B == INSTANCE DocGeneration WITH
        Workers <- {"w1"}, Scopes <- {"repo", "org"}, MaxDocs <- 3, MaxEdits <- 0, MaxRetry <- 1,
        Faults <- {"db", "redis", "provider", "process"}, faults <- losses

\* Requests are interchangeable, and so are receivers and workers.
Symmetry == Permutations({c1, c2}) \cup Permutations(Receivers) \cup Permutations(Workers)

(* Bounds: two edits, or one and a fault; one request at a time where the  *)
(* costs differ; and only the last of the syncs runs while a               *)
(* reconciliation does.                                                    *)
EditsAndLosses == edits' + losses' <= 2
OneAsksAtATime == Cardinality({c \in Clients : req'[c].at # "idle"}) <= 1
OverlappingSyncs == sync'.step > 0 /\ run'.at # "idle" => syncs' = MaxSyncs

(* The parts share nothing; those of the host neither. *)
MCInit ==
    /\ Init /\ W!Init /\ H!Init /\ P!Init /\ G!Init
    /\ part \in {"deliveries", "hooks", "docs", "budget", "tree", "verdicts", "publish", "catalog"}
    /\ part = "verdicts" \/ author = Token
    /\ part = "tree" \/ listing = {}
    /\ part \in {"tree", "verdicts", "publish"} \/ platform = "github"

MCNext ==
    /\ \/ /\ \/ part = "deliveries" /\ W!Next /\ UNCHANGED hookVars
             \/ part = "hooks" /\ H!Next /\ UNCHANGED deliveryVars
          /\ UNCHANGED <<vars, docVars, hostVars>>
       \/ /\ \/ part = "docs" /\ G!Next /\ EditsAndLosses /\ UNCHANGED hostVars
             \/ part = "budget" /\ B!Next /\ OneAsksAtATime /\ UNCHANGED hostVars
             \/ part = "tree" /\ P!TreeNext /\ UNCHANGED docVars
             \/ part = "verdicts" /\ P!ReviewNext /\ UNCHANGED docVars
             \/ part = "publish" /\ P!PublishNext /\ UNCHANGED docVars
          /\ UNCHANGED <<vars, deliveryVars, hookVars>>
       \/ /\ part = "catalog" /\ Next /\ OverlappingSyncs
          /\ UNCHANGED <<docVars, hostVars, deliveryVars, hookVars>>
    /\ UNCHANGED part

MCSpec == MCInit /\ [][MCNext]_<<vars, deliveryVars, hookVars, hostVars, docVars, part>>

(* Types of the rows of every part. *)
TypesOK ==
    CASE part \in {"docs", "budget"} -> B!TypeOK
      [] part = "catalog" -> TypeOK
      [] OTHER -> P!TypeOK
=============================================================================

---------------------------- MODULE MCOnboarding ----------------------------
(***************************************************************************)
(* A behaviour either composes and assigns flows, or walks the one flow    *)
(* that was composed and is edited meanwhile: the bounds of the two add up *)
(* and do not multiply.                                                    *)
(***************************************************************************)
EXTENDS Onboarding, TLC
CONSTANTS c1, c2, f1, f2
VARIABLE focus

Symmetry == Permutations({c1, c2})

MCInit == Init /\ focus \in {"flows", "walk"}

(* A default flow starts without steps, and no list is edited. *)
FlowsOnly ==
    /\ \A c \in Clients : /\ req'[c].default => req'[c].list = <<>>
                          /\ req'[c].at = "replace" => steps[req'[c].flow] = <<>>

(* One flow, from the template, never the default and never renamed. *)
WalkOnly ==
    \A c \in Clients : /\ req'[c].flow # f2 /\ ~req'[c].default
                       /\ req'[c].at # "update"
                       /\ req'[c].at = "insert" => req'[c].list = Template

MCNext ==
    /\ UNCHANGED focus
    /\ \E c \in Clients : \/ Compose(c) \/ AssignFlow(c) \/ Abort(c)
                          \/ focus = "walk" /\ Walk(c)
    /\ IF focus = "flows" THEN FlowsOnly ELSE WalkOnly

MCSpec == MCInit /\ [][MCNext]_<<vars, focus>>
=============================================================================

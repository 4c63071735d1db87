------------------------------ MODULE HookTables ------------------------------
(***************************************************************************)
(* The hooks of one repository at its host and in webhook_configs, and     *)
(* what holds of them whatever the syncs of Hooks do.                      *)
(***************************************************************************)
EXTENDS Naturals

CONSTANT Syncs  \* jobs that may overlap

VARIABLES present,    \* the repository has its row
          config,     \* webhook_configs: the secret of its row, or NoSecret
          hooks,      \* at the host: the secrets of the hooks that post here
          work,       \* the jobs
          generated,  \* history: how many secrets were
          cut,        \* history: secrets whose way from the host to the row was cut
          overlapped  \* history: secrets generated beside another

NoSecret == 0
Secret(s) == work[s].secret

---------------------------------------------------------------------------
(* Properties *)

(* acceptDelivery answers 401 to a delivery that is not signed with the    *)
(* secret of the row.                                                      *)
Heard(secret) == config = secret

(* Every hook the host keeps is heard once the sync that made it has       *)
(* ended, and the row stands for a hook at the host: but for a hook cut    *)
(* off by a stop, a lost answer or a failed write, one made beside another *)
(* sync's, and those of a repository that was deleted.                     *)
HooksAreHeardUnlessCut ==
    /\ config # NoSecret => config \in hooks
    /\ present => \A h \in hooks \ (cut \cup overlapped \cup {Secret(s) : s \in Syncs}) : Heard(h)
=============================================================================

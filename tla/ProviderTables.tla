---------------------------- MODULE ProviderTables ----------------------------
(***************************************************************************)
(* What a source-code host has of one repository and one change request,   *)
(* and what the platform has read of it and asked it to record; and what   *)
(* holds of them whatever the steps of Providers do.                       *)
(***************************************************************************)
EXTENDS Integers, Sequences, FiniteSets

CONSTANTS Submitters,  \* requests that are served at the same time
          People,      \* who reviews, here or at the host
          PageSize     \* entries, or reviews, of one page

VARIABLES platform,    \* the host: "github" or "gitlab"
          author,      \* the login that opened the change request
          listing,     \* the files of the branch
          reviews,     \* at the host, oldest first: login, state, and who it was
          walk,        \* the listing under way, or the last one
          call,        \* the review each request is sending
          publish,     \* what a generation has left at the host
          pushes, calls, lost

Token == "token"   \* the login the organization's token acts as
Logins == People \union {Token}
Review(login, state, person) == [login |-> login, state |-> state, person |-> person]

---------------------------------------------------------------------------
(* Verdicts *)

(* ListReviews reads one page, the oldest. *)
ListReviews == IF Len(reviews) <= PageSize THEN reviews ELSE SubSeq(reviews, 1, PageSize)

\* Mutant: a comment takes the place of a verdict.
VerdictOrComment(verdicts, r) == [verdicts EXCEPT ![r.login] = IF r.state = "DISMISSED" THEN "none" ELSE r.state]

(* A comment is no position, and a dismissed review takes the position back. *)
Verdict(verdicts, r) ==
    CASE r.state \in {"APPROVED", "CHANGES_REQUESTED"} -> [verdicts EXCEPT ![r.login] = r.state]
      [] r.state = "DISMISSED" -> [verdicts EXCEPT ![r.login] = "none"]
      [] OTHER -> verdicts

(* Replayed in order: the last position of each login stays. *)
Replayed(list) ==
    LET after[n \in 0..Len(list)] ==
            IF n = 0 THEN [l \in Logins |-> "none"] ELSE Verdict(after[n - 1], list[n])
    IN after[Len(list)]

GitHubReviews ==
    LET verdicts == Replayed(ListReviews)
        Of(state) == {l \in Logins : verdicts[l] = state}
    IN [approvedBy |-> Of("APPROVED"), changesBy |-> Of("CHANGES_REQUESTED"),
        decision |-> CASE Of("CHANGES_REQUESTED") # {} -> "changes_requested"
                       [] Of("APPROVED") # {} /\ Of("CHANGES_REQUESTED") = {} -> "approved"
                       [] OTHER -> IF \E i \in DOMAIN ListReviews : ListReviews[i].state = "COMMENTED"
                                   THEN "commented" ELSE "none"]

(* GitLab only knows who approves. *)
GitLabReviews ==
    LET approvers == {reviews[i].login : i \in {j \in DOMAIN reviews : reviews[j].state = "APPROVED"}}
    IN [approvedBy |-> approvers, changesBy |-> {},
        decision |-> IF approvers # {} THEN "approved" ELSE "none"]

GetChangeRequestReviews == IF platform = "github" THEN GitHubReviews ELSE GitLabReviews

---------------------------------------------------------------------------
(* Properties *)

(* A listing that does not say it was cut is the whole of one tree the     *)
(* branch had, unless the branch moved while its pages were read.          *)
ListingIsWhole ==
    walk.at = "listed" /\ ~walk.truncated
        => \/ walk.entries \in walk.seen
           \/ platform = "gitlab" /\ \E s, t \in walk.seen : s # t

(* The last position a person took, and whether another one was recorded   *)
(* under the same login since.                                             *)
Position(i) == reviews[i].state # "COMMENTED"
IsLastOf(p, i) ==
    /\ reviews[i].person = p /\ Position(i)
    /\ \A j \in DOMAIN reviews : j > i /\ Position(j) => reviews[j].person # p
Displaced(i) == \E j \in DOMAIN reviews : j > i /\ reviews[j].login = reviews[i].login /\ Position(j)

(* Whoever last asked for changes still blocks the decision that is shown, *)
(* whatever is commented or approved by others later; unless more was      *)
(* recorded than one page holds, or another person has spoken through the  *)
(* same login.                                                             *)
ObjectionsAreShown ==
    \A p \in People, i \in DOMAIN reviews :
        /\ IsLastOf(p, i) /\ reviews[i].state = "CHANGES_REQUESTED"
        /\ Len(reviews) <= PageSize /\ ~Displaced(i)
        => GetChangeRequestReviews.decision = "changes_requested"

(* Who is told that a verdict was given finds it at the host, and who is   *)
(* told that the host refused it does not: only "unavailable" leaves open  *)
(* whether it was recorded.                                                *)
AnswersAreTrue ==
    \A c \in Submitters : call[c].at = "answered" =>
        /\ call[c].code = 204 => call[c].recorded
        /\ call[c].code \in {400, 404, 409, 501} => ~call[c].recorded

(* The host's state reaches who asks for it: a whole tree, standing        *)
(* objections, the fate of a verdict.                                      *)
HostIsToldTruly == ListingIsWhole /\ ObjectionsAreShown /\ AnswersAreTrue
================================================================================

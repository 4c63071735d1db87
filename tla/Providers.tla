----------------------------- MODULE Providers -----------------------------
(***************************************************************************)
(* What the platform asks of a source-code host and how it tells the       *)
(* answer: the listing of a tree, page by page, while others push; the     *)
(* verdicts on a change request, recorded under the one account the        *)
(* organization's token belongs to; the branch, the files and the change   *)
(* request a generation publishes; and the errors of two hosts brought to  *)
(* one vocabulary (internal/integrations, handlers/scm_context.go,         *)
(* handlers/pull_requests.go).                                             *)
(*                                                                         *)
(* The host is the environment: it is modelled by the answers the clients  *)
(* tell apart.  A call may be carried out and its answer lost.             *)
(***************************************************************************)
EXTENDS ProviderTables, SequencesExt

CONSTANTS Paths,       \* files of the repository, as numbers
          MaxPages,    \* maxTreePages
          MaxReviews, MaxPushes, MaxCalls, MaxLost

ProviderAssumption ==
    /\ IsFiniteSet(Paths) /\ Paths \subseteq Int
    /\ PageSize \in Nat \ {0} /\ MaxPages \in Nat \ {0}

vars == <<platform, author, listing, reviews, walk, call, publish, pushes, calls, lost>>

---------------------------------------------------------------------------
(* Errors.  A host's status, with what else is looked at, in the neutral   *)
(* vocabulary. *)

(* A 403 with a spent quota or a Retry-After. *)
isRateLimited(header) == header \in {"retry-after", "no quota"}

githubRejectionReason(message) ==
    CASE message = "approve your own" -> "self_review"
      [] message = "already approved" -> "already_reviewed"
      [] OTHER -> "rejected"

classifyGitHubAPIError(status, message) ==
    IF status >= 500 THEN "unavailable" ELSE githubRejectionReason(message)

translateGitHubErr(status, header, message) ==
    CASE status \in 200..299 -> "ok"
      [] status = 401 -> "unauthorized"
      [] status = 403 /\ isRateLimited(header) -> "rate_limited"
      [] status = 404 -> "not_found"
      [] OTHER -> classifyGitHubAPIError(status, message)

classifyGitLabAPIError(status) == IF status >= 500 THEN "unavailable" ELSE "rejected"

translateGitLabErr(status) ==
    CASE status \in 200..299 -> "ok"
      [] status \in {401, 403} -> "unauthorized"
      [] status = 429 -> "rate_limited"
      [] status = 404 -> "not_found"
      [] OTHER -> classifyGitLabAPIError(status)

Translate(status, header, message) ==
    IF platform = "github" THEN translateGitHubErr(status, header, message) ELSE translateGitLabErr(status)

\* Mutant: what the platform cannot place is passed on as a refusal.
providerErrorConflict(err) ==
    CASE err = "unsupported" -> 400
      [] err = "not_found" -> 404
      [] OTHER -> 409

(* The status a caller is answered with. *)
providerError(err) ==
    CASE err = "unsupported" -> 400
      [] err = "not_found" -> 404
      [] err \in {"self_review", "already_reviewed", "rejected"} -> 409
      [] OTHER -> 503

(* Only the organization's token, and only that of the host. *)
For(host, tokens) ==
    CASE host \notin {"github", "gitlab"} -> "unsupported"
      [] host \notin tokens -> "missing"
      [] OTHER -> "ok"

(* The row, the caller's organization, the address, the client. *)
resolveRepository(r) ==
    CASE ~r.found -> 404
      [] ~r.own -> 403
      [] ~r.address -> 400
      [] For(r.host, r.tokens) # "ok" -> providerError(For(r.host, r.tokens))
      [] OTHER -> 200

---------------------------------------------------------------------------
(* The tree. *)

Walk(at, page, entries, truncated, seen) ==
    [at |-> at, page |-> page, entries |-> entries, truncated |-> truncated, seen |-> seen]
NoWalk == Walk("none", 1, {}, FALSE, {})

(* Pages are cut from the listing in the order of the paths. *)
Place(file) == Cardinality({f \in listing : f <= file})
Upto(n) == {file \in listing : Place(file) <= n * PageSize}
Page(n) == Upto(n) \ Upto(n - 1)
More(n) == n * PageSize < Cardinality(listing)

\* Mutant: the ceiling ends the walk as if it were the last page.
LastPageSilent(n) == ~More(n) \/ n >= MaxPages

LastPage(n) == ~More(n)

BeginTree ==
    /\ walk.at # "walking"
    /\ walk' = Walk("walking", 1, {}, FALSE, {})
    /\ UNCHANGED <<platform, author, listing, reviews, call, publish, pushes, calls, lost>>

(* One page of GitLab's; GitHub answers at once, and says itself when the  *)
(* listing was cut. *)
GetTree ==
    LET n == walk.page
        read == walk.entries \union Page(n)
        seen == walk.seen \union {listing}
    IN /\ walk.at = "walking"
       /\ walk' = IF platform = "github" THEN Walk("listed", n, Upto(MaxPages), More(MaxPages), seen)
                  ELSE IF LastPage(n) THEN Walk("listed", n, read, FALSE, seen)
                  ELSE IF n >= MaxPages THEN Walk("listed", n, read, TRUE, seen)
                  ELSE Walk("walking", n + 1, read, FALSE, seen)
       /\ UNCHANGED <<platform, author, listing, reviews, call, publish, pushes, calls, lost>>

(* A page that cannot be read ends the walk with nothing. *)
LoseTree ==
    /\ walk.at = "walking" /\ lost < MaxLost
    /\ lost' = lost + 1
    /\ walk' = NoWalk
    /\ UNCHANGED <<platform, author, listing, reviews, call, publish, pushes, calls>>

(* Somebody pushes to the branch. *)
Push(files) ==
    /\ pushes < MaxPushes /\ files # listing
    /\ pushes' = pushes + 1
    /\ listing' = files
    /\ UNCHANGED <<platform, author, reviews, walk, call, publish, calls, lost>>

---------------------------------------------------------------------------
(* Verdicts. *)

(* The page of a list asks for the verdicts of the first ones only. *)
Attempted(n, ceiling) == 1..Min({n, ceiling})

(* The caller's login at the host, when it is known, against the author's. *)
reviewBlockedReason(login) == IF login # "" /\ login = author THEN "self_authored" ELSE "none"

Record(login, state, person) ==
    /\ Len(reviews) < MaxReviews
    /\ reviews' = Append(reviews, Review(login, state, person))

(* A verdict given at the host itself, where nobody reviews its own. *)
ReviewAtHost(p, state) ==
    /\ p # author /\ (state = "APPROVED" \/ platform = "github")
    /\ Record(p, state, p)
    /\ UNCHANGED <<platform, author, listing, walk, call, publish, pushes, calls, lost>>

DismissAtHost(i) ==
    /\ platform = "github" /\ reviews[i].state \in {"APPROVED", "CHANGES_REQUESTED"}
    /\ reviews' = [reviews EXCEPT ![i] = Review(reviews[i].login, "DISMISSED", reviews[i].person)]
    /\ UNCHANGED <<platform, author, listing, walk, call, publish, pushes, calls, lost>>

Call(at, person, state, code, recorded) ==
    [at |-> at, person |-> person, state |-> state, code |-> code, recorded |-> recorded]
NoCall == Call("none", "", "", 0, FALSE)

(* A request that was resolved and may write. *)
SubmitReview(c, p, state) ==
    /\ call[c].at \in {"none", "answered"} /\ calls < MaxCalls
    /\ calls' = calls + 1
    /\ call' = [call EXCEPT ![c] = Call("sent", p, state, 0, FALSE)]
    /\ UNCHANGED <<platform, author, listing, reviews, walk, publish, pushes, lost>>

Answer(c, code, recorded) ==
    call' = [call EXCEPT ![c] = Call("answered", call[c].person, call[c].state, code, recorded)]

(* GitLab has no such verdict. *)
Unsupported(c) ==
    /\ call[c].at = "sent" /\ platform = "gitlab" /\ call[c].state = "CHANGES_REQUESTED"
    /\ Answer(c, 501, FALSE)
    /\ UNCHANGED <<platform, author, listing, reviews, walk, publish, pushes, calls, lost>>

Supported(c) == call[c].at = "sent" /\ (platform = "github" \/ call[c].state = "APPROVED")

(* The host records the verdict, under the token's login.  GitLab's note,  *)
(* which names who it was, may fail: that is only logged. *)
Accepted(c) ==
    /\ Supported(c) /\ author # Token
    /\ Record(Token, call[c].state, call[c].person)
    /\ \/ Answer(c, 204, TRUE) /\ UNCHANGED lost
       \/ /\ lost < MaxLost /\ lost' = lost + 1
          /\ Answer(c, providerError("unavailable"), TRUE)
    /\ UNCHANGED <<platform, author, listing, walk, publish, pushes, calls>>

(* GitHub refuses the author's own review; the identity behind the token   *)
(* is asked for then, and its failure loses only that detail.  Any other   *)
(* refusal, or no answer at all, is told as it is classified. *)
Refused(c, status, header, message) ==
    /\ Supported(c)
    /\ message = "approve your own" => author = Token
    /\ status >= 500 \/ header = "retry-after" => lost < MaxLost
    /\ lost' = IF status >= 500 \/ header = "retry-after" THEN lost + 1 ELSE lost
    /\ Answer(c, providerError(Translate(status, header, message)), FALSE)
    /\ UNCHANGED <<platform, author, listing, reviews, walk, publish, pushes, calls>>

Refusals ==
    {<<422, "none", "approve your own">>, <<422, "none", "already approved">>, <<403, "none", "scope">>,
     <<403, "retry-after", "">>, <<429, "retry-after", "">>, <<502, "none", "">>, <<401, "none", "">>, <<404, "none", "">>}

---------------------------------------------------------------------------
(* A branch, the file in it, and the change request for it. *)

NoPublish == [at |-> "branch", branch |-> FALSE, file |-> FALSE, opened |-> FALSE]

CreateBranch ==
    /\ publish.at = "branch"
    /\ publish' = [publish EXCEPT !.at = "file", !.branch = TRUE]
    /\ UNCHANGED <<platform, author, listing, reviews, walk, call, pushes, calls, lost>>

(* The file is looked for first: the host tells a new one from a change.   *)
UpsertFile ==
    /\ publish.at = "file"
    /\ publish' = [publish EXCEPT !.at = "open", !.file = TRUE]
    /\ UNCHANGED <<platform, author, listing, reviews, walk, call, pushes, calls, lost>>

OpenChangeRequest ==
    /\ publish.at = "open"
    /\ publish' = [publish EXCEPT !.at = "done", !.opened = TRUE]
    /\ UNCHANGED <<platform, author, listing, reviews, walk, call, pushes, calls, lost>>

(* A failure leaves what is there, and the next try takes another branch.  *)
LosePublish ==
    /\ publish.at \in {"file", "open"} /\ lost < MaxLost
    /\ lost' = lost + 1
    /\ publish' = NoPublish
    /\ UNCHANGED <<platform, author, listing, reviews, walk, call, pushes, calls>>

---------------------------------------------------------------------------
(* Shapes that differ between the hosts. *)

(* Percentages, in tenths, become weights; what is there is never 0. *)
ListLanguages(percent) ==
    [l \in DOMAIN percent |->
        LET weight == (percent[l] + 5) \div 10 IN IF weight < 1 /\ percent[l] > 0 THEN 1 ELSE weight]

gitlabState(state) == IF state \in {"opened", "locked"} THEN "open" ELSE "closed"

(* GitHub lists change requests among the issues, marked as such. *)
ListIssues(listed) == SelectSeq(listed, LAMBDA i : ~i.pullRequest)

(* A line of a diff by the signs it begins with. *)
countDiffLines(diff) ==
    [additions |-> Cardinality({i \in DOMAIN diff : diff[i] = "+"}),
     deletions |-> Cardinality({i \in DOMAIN diff : diff[i] = "-"})]

gitlabFileStatus(diff) ==
    CASE diff.new -> "added" [] diff.deleted -> "removed" [] diff.renamed -> "renamed" [] OTHER -> "modified"

---------------------------------------------------------------------------
Init ==
    /\ platform \in {"github", "gitlab"} /\ author \in People \union {Token}
    /\ listing \in SUBSET Paths /\ reviews = <<>> /\ walk = NoWalk
    /\ call = [c \in Submitters |-> NoCall] /\ publish = NoPublish
    /\ pushes = 0 /\ calls = 0 /\ lost = 0

TreeNext == BeginTree \/ GetTree \/ LoseTree \/ \E files \in SUBSET Paths : Push(files)

ReviewNext ==
    \/ \E p \in People, state \in {"APPROVED", "CHANGES_REQUESTED", "COMMENTED"} : ReviewAtHost(p, state)
    \/ \E i \in DOMAIN reviews : DismissAtHost(i)
    \/ \E c \in Submitters :
          \/ \E p \in People, state \in {"APPROVED", "CHANGES_REQUESTED"} : SubmitReview(c, p, state)
          \/ Unsupported(c) \/ Accepted(c) \/ \E r \in Refusals : Refused(c, r[1], r[2], r[3])

PublishNext == CreateBranch \/ UpsertFile \/ OpenChangeRequest \/ LosePublish

Next == TreeNext \/ ReviewNext \/ PublishNext

Spec == Init /\ [][Next]_vars

---------------------------------------------------------------------------
(* Types of what the platform holds. *)
TypeOK ==
    /\ Len(reviews) <= MaxReviews /\ \A i \in DOMAIN reviews : reviews[i].login \in Logins
    /\ walk.entries \subseteq Paths /\ walk.page \in 1..MaxPages /\ walk.seen \subseteq SUBSET Paths
    /\ \A c \in Submitters : call[c].code \in {0, 204, 400, 404, 409, 501, 503}

=============================================================================

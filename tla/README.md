# A TLA+ model of the developer platform server

The repository is the backend of an internal developer platform: a Go HTTP API
(`internal/api`), services that hold the logic (`internal/services`), asynq
workers (`internal/workers`), Postgres through GORM (`internal/storage/postgres`),
Redis as cache and queue (`internal/storage/redis`, `internal/jobs`), and GitHub
and GitLab as hosts (`internal/integrations`). Requests and workers share nothing
but Postgres, Redis and the hosts, so the interesting behaviour lies between two
calls to one of those: another request, another worker, a crash or a failed call
can come in between. One action of these modules is the code between two such
calls. The exceptions are pure code (parsers, detection, scorecard, derivation),
which is operators and functions, and `Requests`, where a route is a sequence of
steps given as data.

Contents: [inventory](#inventory), [modules](#modules), [runs](#runs),
[proofs](#proofs), [disagreements](#disagreements-with-the-documentation),
[not modelled](#not-modelled), [plan](#plan).

## Inventory

| Component | State | Operations | Hard part | What makes it correct |
|---|---|---|---|---|
| Repository synchronisation (`sync_service.go`, `sync_worker.go`) | the row's `sync_status`, the cached response, `repo:sync` tasks | SyncRepository, doSync, persist | minutes pass between reading and writing the row; crashes; ignored errors | the documented lifecycle; "syncing" always ends; the cache never silently misses a status |
| Hook registration (end of a sync) | `webhook_configs`, hooks at the host | ensureWebhookRegistered | find, register, store without a lock | every hook the host keeps is one whose secret is stored |
| Catalog requests (`repository_service.go`) | the same row and cache | create, trigger, get, list, update, delete | read-modify-write of whole rows, read-through fill | as above |
| Teams and write authorisation (`team_service.go`, `repository_authz.go`) | teams, members, owner of a repository | team CRUD, members, SetRepositoryOwner, CanWriteRepository | a soft delete the foreign key does not see; checks used later | the owner can be opened; who writes may write at that moment |
| Webhook deliveries (`webhook.go`, `webhook_processor.go`) | the webhooks table, `webhook:process` tasks | receive, deduplicate, record, process, retry | redeliveries, two retry schemes, crashes | one sync per delivery; accepted is processed |
| Job queue (`internal/jobs`) | tasks | Enqueue, EnqueueIn, retries | task ids, at-least-once | nothing queued is lost |
| Server, migrations, encryption (`cmd`, `storage/migrations.go`, `crypto`) | processes, schema, sealed secrets | boot reset, baseline, apply, record, encrypt | several instances; two transactions per file | the schema a binary ships is the one it serves; a stored secret is read again |
| Authentication (`auth_service.go`) | tokens and their families | login, select, refresh, logout | rotation without compare-and-set | one live refresh token per family; reuse ends it; the role is the member's |
| Membership (`membership_service.go`) | members, invites | register, OAuth, invite, revoke, admit, change role, remove | count then write | an invite admits one person; nobody else gets in; an administrator stays |
| Onboarding (`onboarding_service.go`, `onboarding_run.go`, `onboarding_verify.go`) | flows, steps, assignments, outcomes | edit flows, assign, mark, verify, feedback, glossary, dashboard | live edits, whole-row saves, references that go | outcomes survive edits; completed exactly when nothing required is open; a walk shows what exists |
| Documentation (`docs.go`, `docs_manual.go`, `docs_worker.go`) | `doc_generations` rows, tasks | request, generate, edit, fail | task id conflicts, retries with outside effects | every row gets an outcome; one change request; one head; the budget |
| Architecture (`architecture_*.go`, `internal/derive`) | facts, derived nodes and edges | extract, debounce, reconcile | mark and sweep over incomplete facts | people's rows are left to them; nothing correct is swept; the graph follows the facts |
| Relationships and the graph (`repository_relationship_service.go`) | declared edges | create, change, delete, view | share a table with derived edges; several reads without a transaction | what is shown is there |
| Coverage, scorecard, detection (`coverage_service.go`, `internal/coverage`, `internal/scorecard`, `internal/detect`) | upload tokens, uploads | create, revoke, ingest, judge | revocation during an upload; four parsers | coverage shown was uploaded with a token of the repository |
| Hosts (`internal/integrations`) | trees, reviews, branches | list, review, publish | pages that move, one login for everybody, lost answers | a listing that is not cut is whole; an objection stands |
| HTTP layer (`internal/api`) | settings | every route | many lookups and writes, one answer | the status says what became of the request |

Requests and workers meet in the tables; the calls between components are: a
webhook enqueues a sync; a sync registers the hook, extracts facts and enqueues the
organization's derivation; a derivation reads facts and writes the graph; a
generation asks the host and opens a change request; every request passes the
authorisation of the HTTP layer. `PROJECT.json` lists the hazards at their lines.

## Modules

| Module | Contents | Theorems |
|---|---|---|
| `RepositorySync` | row, cache, queue and actors of synchronisation and catalog requests | `RepositorySync_proofs` |
| `SyncLifecycle` | what synchronisation promises, without its steps; implemented by `RepositorySync` | |
| `WebhookDelivery`, `WebhookTables` | receivers, webhooks table, processing tasks and workers | `WebhookDelivery_proofs` |
| `ArchitectureReconcile` | package facts, the reconciliation task, derived and declared edges | `ArchitectureReconcile_proofs` |
| `Sessions` | refresh tokens, families, the role in an access token | `Sessions_proofs` |
| `Onboarding` | flows, steps, assignments, outcomes, completion, feedback | `Onboarding_proofs` |
| `Membership`, `MembershipTables` | registration, admission, invites, roles | `Membership_proofs` |
| `Teams`, `TeamTables` | teams, seats, the owner of a repository and the writes that allows | `Sessions_proofs` |
| `Hooks`, `HookTables` | the webhook of one repository and its secret | `WebhookDelivery_proofs` |
| `Coverage` | upload tokens, the parsers, uploads, what pages and scorecard say | |
| `OnboardingContent`, `ContentTables` | what steps refer to, verified steps, glossary, dashboard | `RepositorySync_proofs` |
| `DocGeneration`, `DocTables` | generation and manual editing of documents, budget | `DocGeneration_proofs` |
| `ConfigFacts` | what the files of a tree say (operators and functions only) | |
| `Catalog` | extraction of every kind of fact and the reconciliation of APIs, resources, links and calls; extends `ConfigFacts` | `Catalog_proofs` |
| `GraphView`, `ViewTables` | the graph and list queries, and who declares edges | `ArchitectureReconcile_proofs` |
| `Providers`, `ProviderTables` | tree listing, reviews, publication, errors of the hosts | `DocGeneration_proofs` |
| `Schema`, `SchemaTables` | migrations and sealed secrets | `RepositorySync_proofs` |
| `Settings` | the settings row of an organization | `Membership_proofs` |
| `Requests` | every route: guards, lookups, writes, status | |
| `MC...` | instances for TLC | |

The `MC` modules put small values in, and compose components that do not share
state by a variable `part`: a behaviour is about one part, so that their state
spaces add up and do not multiply.

A `...Tables` module holds the tables of its component and the properties of them. The component's
module extends it to add the steps; the MC module, and a proof module that is about several components, extend
it and take the steps from an INSTANCE, so that a run and a theorem mean the same definition.

### RepositorySync

`row` is the `repositories` table with the columns that matter: `sync_status`, one
value `desc` for the columns a user edits, and `owner_team_id`. `cache` is the
detail response under `RepoKey`, `queue` counts the `repo:sync` tasks that wait,
`team` holds the teams that are not soft-deleted, `up` the running processes.
`act` gives each worker slot and each request its place in the handler and its
copy of the row. A save writes the whole copy, as GORM's `Save` does, and
inserts a row that has gone; a read joins the owner against live teams only.
`bypassed` is a history variable: it notes that an entry was outdated by a step
that no invalidation follows.

`SyncRepository` is LoadRepository (with CanSync), ResolveProvider, MarkSyncing
and MarkInvalidate (the two calls of `persist`), FetchProvider, SaveSynced,
SaveInvalidate and FinishSync, with RecordFailure and FailInvalidate on the error
paths; a failed handler returns its task to asynq or, after the last retry,
loses it. Requests are split in the same way. `Faults` names the dependencies
whose calls may fail ("db", "redis"), `Ops` the requests that arrive. A push is
modelled here by its effect on the queue only; `WebhookDelivery` has the rest.

`SyncLifecycle` has the status, the syncs that will still write an outcome, and
whether a process is down. "syncing" begins with a sync, ends with an outcome of
that sync, or is reset once nothing runs. `RepositorySync` maps WillFinish to `running`.

### WebhookDelivery and Hooks

`hook` is the row of a delivery id (status, retry count, and whether
`next_retry_at` lies ahead), `tasks` the asynq tasks, `act` the places of receivers
and workers with the copy of the row a worker holds, `enqueued` how many syncs a
delivery has enqueued, `answers` what the provider was told. `recordDelivery` is
CheckDuplicate, RecordHook, EnqueueProcessing; `Handle` is LoadHook,
MarkAsProcessing, ProcessEvent, then RecordCompleted and Acknowledge or RecordFailed.
Time is the action BackoffElapses. That asynq's first retry (15 to 44 seconds)
comes before the webhook's first minute needs no clock: both orders are
behaviours of the model. A call to Redis that fails has not taken effect: an
enqueue that took effect and whose reply is lost is left out.

`Hooks` is `ensureWebhookRegistered` for one repository: syncs that find no
configuration, register a hook with a new secret at the host, and store it. `config`
is the stored secret, `hooks` the secrets at the host. Nothing removes a hook.

### ArchitectureReconcile

`head` is the tree of each default branch, `fact` the `repository_facts` rows of kind
`packages`, `job` the one `architecture:derive` task an organization may have (its
task id is the organization), `run` the reconciliation in progress with the facts it
read and the edges it has still to write, `rel` the `repository_relationships` rows.
A row keeps its edge (source, target, kind and fingerprint), whether it has the
derivation key (`by`), who inserted it, who wrote its text last, whether it is
soft-deleted, and `last_seen_at`. `sync` and `edit` give syncs and requests their place.

`extractOne` is ReadTree (the end of doSync), Extract, StoreFact; EnqueueDerivation is the
call after it, with the conflict taken for success. `Reconcile` is StartRun, ListFacts
(with Derive, which is an operator), UpsertLookup and UpsertWrite for each edge in any
order (the code ranges over a map), FinishEdges with or without the sweep, FinishRun or
FailRun. A commit may land between the listing and the reads when `MidReadCommits` is
set: a name may then be seen as the branch has it now. A truncated listing, a failed read
and an unparseable manifest give part of the names and an incomplete fact.
`missed` and `dismissed` are history variables: facts stored with no listing to come, and
edges deleted by a person since they were last written. `suppressed` is empty because
nothing in the program writes a suppression.

### Catalog and ConfigFacts

`ConfigFacts` is the pure half: which files of a tree are candidates and in which order
(tiers, caps), and what each yields: resources and their fingerprints, hosts, contracts,
packages, CI and tests. A file is a record of what its parsers read in it; the text formats
are abstracted to their parsed form. `Catalog` adds the state: for each repository the facts
of four kinds, the sync that extracts them one after the other (an unreadable file, a cap
or a truncated tree makes a fact incomplete), and one reconciliation that goes through
the three node tables and the consumption edges with their listings, upserts and sweeps, `apis`,
`resources`, `links` and `edges`. `settled` is a history variable: a run finished that
nothing disturbed.

### GraphView

The rows a viewer can see (`repo`, `api`, `link`, `relation`), the request that declares or changes a
relationship (`request`), and the request that reads the graph or the list (`view`), query by query. `touched`
are the rows that changed while it read. A page is the set of its rows: a row is on it by the number of newer
ones (Rank), and the order inside a page is left out.

### Sessions, Membership, Teams

`Sessions`: `token` is the tokens table in the order of insertion (a row has type, family, parent, role,
revoked, expired), `req` where each request is and what it has read, `held` the tokens
the user got. Login and organization selection begin a family; the rotation is
RefreshTokens (the read and its checks), RotateToken (the unconditional update), ReloadMember,
generateAccessToken, generateRefreshToken; DetectReuse and RevokeRefreshTokenFamily end the family. `forked`, `ended` and `mark` are history: a token
two requests rotated, a family that was revoked as a whole, and how a token came late.

`Membership`: accounts, organizations, members with role, invites. Registration with and without
an invite and the OAuth callback are followed to the insert of the member row; an administrator's
requests read, check (EnsureNotLastAdmin) and write. `admission` and `spent` are
history; `raced` notes two founders or two administrators between a count and a write.

`Teams`: roles and the role a token carries, teams, seats, the owner of a repository, and requests that pass the
route's role, read, check and write. `overtaken` and `written` are history.

### Onboarding and OnboardingContent

`Onboarding` has the flows, their steps in order with ids, the person's assignments and
outcomes, and requests at their places. ReplaceOnboardingSteps is one action (one
transaction) that keeps the ids of the steps that stay; marking a step is a read, the
write of the outcome, the start of the walk, the list of steps, and the save of the
whole assignment row. `excuse` notes what happened to an assignment: a step became required
since completion was derived (raised), an edit left no required step pending (lowered), the row was saved from a
read that another save overtook (overlapped), the last outcome was recorded and nothing derived
completion from it, because Verify never does or the request was cut (underived). A row that is derived again loses
all of them but overlapped. `nominee` and `unsettled` note who was last made default and whether that was
disturbed.

`OnboardingContent` has what the steps refer to: what is validated at
the save and resolved at the walk, verified steps with the host's answer, glossary and dashboard. A step whose id is
kept is updated in place, whatever becomes of its kind and its check, and its outcome stays (Edits). What a person marks and
what a check passed are stored as the same "done", and MarkStep does not ask for the kind of a step; so a stored
outcome proves nothing, and what the model promises of a check (PassedWasTrue) is about the person who is answered
"passed": it was true at a time while it was asked, which `earned` notes.

### Coverage

Tokens, uploads in order, the uploads under way, and clock. An upload is IngestCoverage (AuthenticateToken),
ReadReport (`Parse`, a function of lines that are already tokens of the format), CreateCoverageUpload,
and TouchCoverageUploadTokenUsage. What a list and the scorecard say of a repository is an operator of the tables
(RepositoryFacts). The page of one repository is answered from Redis while there is an entry (RepositoryDetail): `fill` is a
request that missed it and has read the tables, FillEntry stores what it read, and DropEntry is the end of the hour or
the invalidation by a sync or an edit. An upload drops nothing. The module is explored by `MCAccounts`.

### DocGeneration

`doc` is the `doc_generations` table, `task` the task of each row, `opened` the change requests,
`spent` the tokens charged; requests admit by budget, insert and enqueue; a worker loads,
marks, asks the model, opens the change request and records. A generation costs any of `Costs` tokens, and one that fails may
have been charged; it is admitted while the recorded tokens are below the budget, whatever it will cost. When OpenChangeRequest
fails, the host may have opened the change request nevertheless. Manual edits store a version and
then supersede the old one. `excuse` and `overspent` note what came between.

### Providers, Schema, Settings, Requests

`Providers`: a tree listed page by page while pushes move it; reviews recorded under the token's login;
branch, files and change request of a publication; the translation of errors to a status. `Schema`:
`done` and `tracked` are the migrations in effect and those recorded; processes load, baseline, run and mark; secrets
are what was written and what was done to it since. `Settings`: a whole row read, changed and written back. `Requests`: a
route is a role and a list of steps (lookup, rule, write, call to the host), each with the status of its
ways out; `row` is what the path names, of this organization or another, and may go at any time. Find compares the
organization and FindAny does not; Child inserts a row that refers to the path's by a foreign key, without a look at it:
the routes of coverage tokens are of these two kinds, so a repository that is missing answers 500 there, and one of another
organization is written to. ReplaceSteps answers 500 for the id of a step that is not of the flow.

## Runs

| Run (module, cfg) | Question | Properties | Result |
|---|---|---|---|
| `lifecycle` (`MCLifecycle`, `Lifecycle.cfg`) | Does a row follow the documented life, does every sync end, is a queued repository synced, is an accepted delivery processed? | TypeOK, SyncingIsRunning, ImplementsLifecycle, SyncingEnds, QueuedIsSynced, AcceptedIsProcessed | holds |
| `server` (`MCServer`, `Server.cfg`) | Which cache entry may be stale when Postgres and Redis fail; do schema and secrets survive boots; does every status say what happened; do steps of an onboarding show what exists? | StaleOnlyIfBypassed, SchemaHolds, AnswersHold, ContentHolds | holds |
| `graph` (`MCArchitectureReconcile`, `ArchitectureReconcile_graph.cfg`) | Does the graph at rest follow the facts, with one row per edge, no contested edge, people's rows left to them and nothing correct swept; is the view true? | TypeOK, OneDerivedRow, GraphFollowsFacts, ContestedIsNotAsserted, GraphViewHolds, HumansKeepTheirRows, NothingCorrectSwept | holds |
| `accounts` (`MCAccounts`, `Accounts.cfg`) | Does a session have one live refresh token; who gets into an organization; who may write to a repository; whose coverage is shown? | TypeOK, FamiliesEndUnlessRaced, RoleIsCurrentUnlessStale, MembershipHoldsUnlessRaced, OwnershipHoldsUnlessRaced, CoverageIsAccounted | holds |
| `onboarding` (`MCOnboarding`, `Onboarding_walk.cfg`) | Do outcomes, completion, feedback and the default flow survive edits and overlapping saves? | TypeOK, CompletionIsDerivedUnlessExcused, FeedbackKeptUnlessOverlapped, DefaultKeptUnlessUnsettled, OutcomesSurviveEdits | holds |
| `services` (`MCServices`, `Services.cfg`) | Does a delivery sync once, however often it is sent, and is every hook the host keeps heard; does a generation end once within the budget; is a host told and heard truly; does the catalog follow the facts and keep what they name? | CompletedIsSynced, SyncedAtMostOnce, HooksAreHeardUnlessCut, CompletedIsFinal, TypesOK, VersionsHoldUnlessStale, GenerationEndsOnceUnlessCut, SpentWithinBudget, HostIsToldTruly, FactsAreProven, CatalogFollowsFacts, NothingNamedIsRetired | holds |
| `edit` (`MCRepositorySync`, `RepositorySync_edit.cfg`) | Does `already_syncing` mean that a sync is running? | SyncingIsRunning | violated |
| `conflict` (`MCArchitectureReconcile`, `ArchitectureReconcile_conflict.cfg`) | Does the task a conflict points at see the new facts? | ConflictIsSeen | violated |
| `nodes` (`MCArchitectureReconcile`, `ArchitectureReconcile_nodes.cfg`) | Does the graph show every repository? | GraphShowsEveryRepository | violated |
| `completion` (`MCOnboarding`, `Onboarding_completion.cfg`) | Is a flow completed exactly while no required step is pending? | CompletionFollowsOutcomes | violated |
| `encrypt` (`MCServer`, `Server_encrypt.cfg`) | Does the encryption tool encrypt, when it is run as its comment says? | ToolEncrypts | violated |
| `restart` (`MCServer`, `Server_restart.cfg`) | May the server be stopped at any moment of a migration? | RestartIsSafe | violated |

A property named `...Unless...` is the promise with the races the code leaves
open written into it: each of them is noted by a history variable at the step
that causes it, so the property says that nothing *else* breaks the promise.
`ReuseEndsFamily` (in `Sessions`) and `AdminRemains` (in `MembershipTables`) are the same promises
without the exception; they are false in the code and checked by no run.

The runs check for deadlock where the system never stops (the graph runs). The
others say `CHECK_DEADLOCK FALSE`: requests, deliveries and syncs are bounded,
and a system in which all of them ended has really stopped.

### Bounds

* `lifecycle`: one repository, two workers and one request, one process, at most two tasks
  and one crash; two deliveries (one a push) with two receivers, two workers, two
  sendings and one crash. No step relates two repositories but DeleteTeam and the boot
  reset, which treat each row by itself; two actors on a row are what every race here
  needs. No faults: SyncingIsRunning and the liveness properties presume a database that answers.
* `server`: one worker, one request, every operation, both dependencies failing at any call,
  two values of a description, one team; four migrations, two processes and three
  starts; two requests on the settings with four writes; three repositories, a list limit of two
  and two saves for the content of onboardings; every route of `Requests`.
* `graph`: two repositories and one package give every case of Derive (an edge,
  none, a contested name, a repository's own package); two trees; two rows; two
  reconciliations (three where runs fail), so that the second meets what the first
  left; one crash. `people` and `failures` are separate parts because together they are too
  large; the theorems cover both at once. Four repositories, one of another organization, one API, one
  link and one relationship for the view, with pages of two and at most three rows that change under a reader. No commit lands between a listing and the reads
  (`MidReadCommits`), which leaves facts that no tree says.
* `accounts`: two requests; one session of six tokens and one change of membership; two
  users, one organization and one invite; two members, two teams, three requests; two
  repositories, two tokens that are withdrawn twice in all (TwiceWithdrawn) and two uploads, one of them lost, and, for the page of one
  repository, one token and three uploads.
* `onboarding`: two requests, two flows, four step ids, two edits, lost calls. The parts
  `flows` and `walk` split the operations on flows from those on an assignment.
* `services`: two deliveries, one of them a push, three sendings, two receivers and two workers, two failed attempts
  (asynq gives up after 25; nothing depends on which), two crashes and a
  queue that fails; three syncs and three secrets for the hook; for documents one worker, two scopes, a budget of two,
  three documents and one retry: once with two edits, generations of two tokens, and two edits
  and faults in all (EditsAndLosses), and once without edits, with generations of one or two tokens and one request at a time
  (OneAsksAtATime; a second may arrive while the first one's generation runs); five paths in pages of two, one push, two pages,
  three reviews, one lost answer; two repositories, three syncs, two reconciliations, one failing call, and
  only the last sync overlaps a reconciliation (OverlappingSyncs).

### Fairness

`lifecycle` is the one run with liveness. Workers: asynq dispatches waiting tasks to free
slots, and a handler runs to its end because every call to a provider has an HTTP timeout. A dead
process is started again by whatever supervises it. For webhooks, a receiver that
has begun also ends, a task's turn comes (StartTask of each delivery), and the time of a backoff passes
(BackoffElapses). All of this is weak fairness of those actions. Requests, edits,
redeliveries, pushes and crashes owe nothing.

## Proofs

A component's theorems are in a module of its own, or, where they speak of one component by an
INSTANCE, in the module of the component it works with. All hold for every value of the constants
(any number of repositories, workers, requests, rows, retries, crashes), with the
hypotheses named here. In each, an inductive invariant strengthens the property, and there is one
lemma per action. An assumption on constants (`...Assumption`) is stated where they are declared and evaluated
by TLC for the values of the runs. Where a proof needs an induction over positions, it takes the least element of a set of
naturals.

`RepositorySync_proofs`
* `TypeCorrect`: TypeOK, with any faults. Inductive once it says that an actor at a
  place that writes holds a row.
* `CacheCoherent`: StaleOnlyIfBypassed, with any faults. Each write either moves its actor to a
  place whose next step is the invalidation, or sets `bypassed`.
* `SyncingAccounted`: SyncingIsRunning when no edit is among the operations and the
  database answers (`Undisturbed`). The strengthening says which status each copy
  carries, and that every actor other than a finishing worker holds a copy that is
  not "syncing"; without it, a save could restore an old "syncing". With edits it is
  false, as `edit` shows.
* `LifecycleImplemented`: under the same conditions and with one process, the initial
  states and every step of `RepositorySync` are those of `SyncLifecycle`, or stutters. One
  process is needed for Recover: a second one that boots would reset a sync that runs.
* `SchemaSurvives`: SchemaHolds of `Schema`, for any migrations that need earlier ones only, any releases and tools that
  ship what their files need, any processes and keys. While nothing was torn or overlapped and the database is
  not older than the tracking (Calm), what is tracked is what is done but for the migration to be marked, and each process has to do what it
  ships and is not done (TrackedOK, ProcessTracks). As long as there is one key, a secret has one of three forms until 006 and is decoded
  after it, and so are the copies the tool holds (Plain, Decoded).
* `ContentIsTrue`: ContentHolds of `OnboardingContent`, for any drafts of steps, things they name and requests at
  once. What it says of checks is that whoever is answered "passed" passed, for a stored "done" does not tell a check from a
  mark. CallersOK says for each place what the request has read: of the steps it resolves nothing is foreign and the terms were
  there once (Established), an entry shows what its step names and exists (Complete), a check about to
  be answered was true while it was asked, whatever was edited since, counts are those of the steps unless they were saved since, and a new row of the glossary is one
  request's. OutcomesOK and WorldOK say the same of stored outcomes and of the person.

`WebhookDelivery_proofs`
* `DeliveryTypes`, `CompletedStays` (CompletedIsFinal), `CompletedMeansSynced` (CompletedIsSynced), with any
  faults. The last rests on Handled: a copy that a worker is about to store as completed is one
  whose event it has processed.
* `AtMostOneSync`: SyncedAtMostOnce while the database answers. It rests on OneUnit: a
  delivery never has more than one unit of work, be it a queued task, the worker that
  runs it, or the receiver about to queue it, because only the insert creates one and
  the insert happens once. With a failing database MarkAsProcessing may be lost, and a crash then lets the
  delivery sync twice.
* `HooksAreHeard` (HooksAreHeardUnlessCut) and `HookTypes`, of `Hooks`. Each secret belongs to one job (SecretsOK). OnTheirWay: two
  secrets on their way at once are noted as overlapping, and so is one that comes after a row was stored; so
  whoever stores its secret over another's has been noted before.

`ArchitectureReconcile_proofs`
* `GraphTypes`: TypeOK, with any faults; the row of a pending write is there because rows are
  never removed.
* `OneRowPerEdge`: OneDerivedRow, with any faults. RowInv says that what a
  lookup found is all there is until its write (LookupHolds), because only the one
  reconciliation inserts rows with the key, and that what people save has no key (SavesArePromoted).
* `PeopleKeepTheirRows`: HumansKeepTheirRows, from the same invariant.
* `SweepIsCorrect`: NothingCorrectSwept when no commit lands in the middle of an extraction
  (`~MidReadCommits`). SweepInv adds that every complete fact, stored or in hand,
  says what its tree says, and that every live derived row of an edge the run has dealt with
  carries the run's mark; the latter needs OneDerivedRow, since the write marks one row only.
* `GraphAtRest`: GraphFollowsFacts, with any faults. FollowInv says of the time in which nothing is `Pending` (no
  listing to come, no sync about to enqueue, no fact missed): the run works from
  the facts as they are (RunHolds, CopiesHold), every declared edge it is done with is on the graph, in a
  row that the sweep will leave, and every derived row that the facts do not
  declare has an older mark, so that the sweep finds it (MarksHold).
* `ContestedNamesAreNotAsserted`: ContestedIsNotAsserted, under `~MidReadCommits`. AssertInv adds to the above that every fact
  is honest about its tree and that, once a run over complete facts has swept, no derived row is left whose edge it did not
  derive (RunAsserts). A derived edge needs that its name has one claimant in the facts, and over honest and
  complete facts these are all the claimants there are.
* `GraphShowsWhatIsThere`: GraphViewHolds of `GraphView`, for any finite set of repositories and any APIs, links, relationships
  and requests (ViewAssumption: the graph asks with neither limit, offset nor team, as its handler does). TablesInv: a row's ends are present and
  of the organization, which the deletes keep because they take the rows with them. RequestInv: what was checked of a
  wish stays so, because repositories do not move. ViewInv: what the reader has collected so far holds of every row that
  stood since it began (Collected), and a step of anybody else puts each row it changes in `touched`, so that nothing that still counts as
  standing has changed (Noticed). That a page which is not cut is the whole list (PageIs) needs that ranks of a
  finite set are at most its size.

`Sessions_proofs`
* `SessionTypes`, `FamiliesEnd` (FamiliesEndUnlessRaced), `RoleIsCurrent` (RoleIsCurrentUnlessStale). OneUnit
  says that a family that nobody forked has one live refresh token or one request about to
  insert one, never two; RacedAreMarked that a token of an ended family was marked when it
  was inserted; RoleIsRead that the role a request carries is the member's unless the membership changed since.
* `TeamTypes`, `OwnershipHolds` (OwnershipHoldsUnlessRaced) of `Teams`, for at least one slug and room for one team (`Room`). Reading: a request on a repository that nothing has moved since it read
  the row still has the live owner in hand. Entitled: so whoever may act is a maintainer,
  or a developer on the owning team, or was overtaken. Who writes an owner
  notes in `overtaken` a team that is not live.

`Catalog_proofs` (for finitely many repositories, none of them called "shared", trees numbered from 1, and collectors
that give an unscoped resource a host, declare no placeholder and find finitely many hosts: CatalogAssumption)
* `CatalogFollows` (CatalogFollowsFacts) and `NamedIsKept` (NothingNamedIsRetired), with any faults, skips and syncs in
  between. A phase stores one repository after another: what is fresh in its table is what the facts of the repositories
  that are done name, or no longer pending of the current one, and everything fresh is live (InWork); so a sweep, which
  takes what is not fresh, leaves what is named (Holds). A run is `clean` while no call failed and no fact was stored since it
  began, so that what it listed is what is known; then a phase that has ended leaves its table following the
  facts (FollowsAPIs, FollowsLinks, FollowsCalls), and no later phase touches it (SettledOK). Links are inserted after
  their resource and resources retired when no live link names them, so a link leads somewhere at every moment (LinksSound).
* The calls: DeriveConsume folds over the hosts of a repository in an order that nothing fixes. Its values are constructed
  position by position (EdgesGathered), and counted (Counted): a repository has an edge for a target and kind
  exactly when a host it names resolves to that target, with the largest confidence of such hosts, and marked as a test
  while they all are. So the edges do not depend on the order.

`Onboarding_proofs`
* `OnboardingTypes`, `OutcomesSurvive`, `FeedbackKept`, `DefaultKept`, `CompletionIsDerived`. StepsOK keeps
  ids of steps apart, so that an outcome never moves to another step;
  CompletedHolds and CompletingHolds say what a completed row, and a request about to complete one, have seen of the required
  steps, unless one was raised since; DerivationHolds who will still derive: as long as the row is neither lowered, overlapped nor underived, a
  walk that leaves nothing pending has a request at it or is completed, also after edits that add required steps; NominationHolds which request is
  between the demotion of the old default and the promotion of the new.

`Membership_proofs` (for distinct names of organizations and users, `DistinctNames`)
* `MembershipTypes`, `MembershipHolds` (MembershipHoldsUnlessRaced). Sent: what a request carries of its
  invite is what the invite says, so the one transaction that spends it admits the
  person it was sent to. Founders: a request that found the organization empty is the only one founding it, unless raced.
  Administrators: whoever may invite or change roles got in first; a request about to write a
  role or a removal, that nobody raced, leaves another administrator.
* `SettingsHold` of `Settings` (the part of AnswersHold about settings), for any requests that set a client id together with
  its secret (SettingsAssumption). CopyOK: a request about to write has a copy that is the row, if nothing was written since it read it;
  and every copy has a client id beside its own secret, so a copy that is written late loses what was set but mixes nothing.

`DocGeneration_proofs` (for any `Budget` in Nat and any `Costs`, a set of naturals)
* `DocTypes`, `VersionsHold` (VersionsHoldUnlessStale), `GenerationEndsOnce` (GenerationEndsOnceUnlessCut),
  `BudgetHolds` (SpentWithinBudget). The invariant has three parts.
* Base: a task has one worker and a fresh row one request that will enqueue it (Apart). So the copy that a request or a
  worker saves is of its row, its task runs, and whether a change request was opened for it is known from its place
  (ClientOK, WorkerOK, TaskOK); a replacement comes after what it replaces, in the same document (RowsOK).
* Held: the four promises on rows. The next head of a document is inserted by the request that goes on to hide the last one, so a list
  shows two heads only if that request was cut or another had begun from the same row, and both are noted. A row has one
  change request unless its process, a save or the host's answer failed after it was opened, since the retry opens another.
* Books, for as long as nothing got past the record: at most one generation is on its way (Alone), the completed rows
  with a charge are those in `produced` (Recorded), `spent` is the sum of their tokens and the charge in hand, and a
  generation that is owed was admitted below the budget (Accounts). So spending is within the budget, or over it by less
  than what the last generation cost: that much one generation exceeds it by itself. The check of the budget sees recorded rows only, which is why
  the statement needs Alone: it is false as soon as two requests are admitted at once.
* `HostIsToldTheTruth`: HostIsToldTruly of `Providers`, for any finite set of paths, pages of any size, and any number of reviews, pushes, calls and
  lost answers. WalkInv: what a walk has read of the one tree it has seen is the pages of that tree so far, so the last page
  completes it (PagesOf). CallInv: an answer of 204 was recorded, a refusal was not. Whose objection stands is
  the last verdict of each login, a function of the list of reviews. Its value exists and is unique by induction over the
  positions, and what a login said last is what it holds at the end (LastStands).

Only model-checked, and why:
* SyncingEnds, QueuedIsSynced, AcceptedIsProcessed: liveness under fairness.
* FactsAreProven and CoverageIsAccounted: what they say is computed by folds over the files of a tree and the entries in them, or
  over the lines of a report, one inside the other, and what a fold computes needs induction over data; and the files are picked
  with SelectSeq, which the prover cannot expand, so nothing is known of the list that is folded. That is why `Catalog_proofs`
  takes what it needs of the files as CatalogAssumption, which TLC evaluates for every tree, cut and failing file of the run.
* AnswersHold, its part about the settings apart: a route is a list given as data; TLC goes through every route, and there
  is no constant to generalise over.
* TypesOK of `services` joins the type invariants of its parts: that of documents is a theorem.

## Disagreements with the documentation

The violated runs, each a sentence of the repository that the code does not keep
(`PROJECT.json` quotes them):

* `edit`: an edit that overlaps a sync writes "syncing" back, and nothing but a restart ends it.
* `conflict`: a fact stored while the reconciliation is past its listing waits for another sync.
* `nodes`: the graph shows the twenty newest repositories.
* `completion`: completion is said to be derived, in both directions (onboarding_run.go:415-417). A check that passes last
  completes nothing, because Verify records the outcome and returns; a required step that is added later leaves
  the flow completed until the person marks a step again.
* `encrypt`: the tool applies migration 006 before it encrypts, so it finds nothing in plain text.
* `restart`: a stop between the commit of a migration and its record makes the next boot fail or record files it never ran.

Behaviours of the models without a run of their own. The properties that hold are stated around
them.

* Answers. CreateInvite answers 500 for an unknown flow and for an address with an open invite.
  A store that fails is answered 400 (CreateRepository), 401 (login, refresh, select, OAuth
  callback), 403 (the lookups of CanWriteRepository) or 404 (DeleteTeam, RemoveMember,
  RevokeInvite, GetDocGeneration, UpdateDocContent). ReplaceSteps and MarkStep may answer 404 or 500 after
  they saved. ReplaceSteps answers 500 for a step id that is not of the flow, which onboarding_repository.go:244-249 calls
  the caller's mistake. The routes of coverage tokens do not compare the
  repository's organization, and answer 500 for one that is missing. UpdateFlow answers an empty list of steps. A host's 429 becomes 409.
* Registration that fails after the insert of the organization leaves its name taken by an
  organization without members. CreateFlow and DuplicateFlow write twice without a transaction.
* Syncs. A read that overlaps a failing sync fills the cache with the older status. A second server
  process that boots resets the sync of the first. A team deleted between the read of a row and its save
  stays the owner. Hooks are never removed from the host, and a sync cut between
  registration and insert leaves one that nobody can verify. A language the detector does not know is
  reported as having no tests (sync_service.go:149-151). A first sync that failed shows "not yet synced".
* Webhooks. A failed delivery is never retried although README.md:60 says so: asynq's retry comes
  before the row's own backoff and is acknowledged without work. A delivery whose worker dies stays "processing".
* The graph. An update promotes a row, and the next run derives the same edge beside it
  (repository_relationship_service.go:249-252 says otherwise). An incomplete fact hides the second
  claimant of a name (derive/index.go:54-57). A derived edge that a person deletes comes
  back. Rows of an earlier version of the deriver are swept by nobody. Files read after a commit are
  stored under the older tree. The view takes five to seven queries without a transaction
  (docs/ARCHITECTURE.md:175 and 210 say one), and `min_confidence=NaN` is accepted and hides nothing.
  "Soft delete" of a repository removes the row and everything that refers to it.
* Sessions and membership. Two refreshes of one token at once fork the family, and reuse then ends only
  what it sees. Two administrators that remove or demote each other at once leave none.
* Onboarding. Completion is not derived when the call after an outcome is lost. A verified step is
  "Checked by the platform rather than claimed by the person" (models/onboarding.go:65 and 83-86), but MarkStep does not look at
  the kind, stores the same "done", and a step that is edited in place keeps the outcome it had as another kind
  or with another check. `StepsDone` counts only
  "done" although onboarding_dto.go says recorded outcomes. A team step names members who left. A one-step
  flow whose entity is gone can no longer be saved. A step on a kind of document with several
  documents shows "no content yet".
* Documents and settings. A budget of 0 becomes 20000. `webhook_base_url` cannot be set. A GET that found no settings
  writes the defaults over what another request saved since. A crash between a change request and
  its record opens a second one, and so does an answer of the host that is lost or cannot be decoded: the generation is
  failed and retried (docs_worker.go:157-160). The budget admits while it is not used up
  (docs.go:97-98 and 421-422), so the last generation may exceed it by almost all it costs.
* Catalog. Of several findings of one call the strongest gives the edge its rule, also when it is a test's and a finding in
  production came first (architecture_consume.go:228-235, against the comment at 241-244).
* Coverage and hosts. The page of a repository shows the coverage it was cached with for up to an hour, since an upload
  invalidates nothing (coverage_service.go:124-132), although repository_dto.go:47-49 says that "there is no stored result to go stale between a coverage
  upload and the next page view"; the lists are up to date. A token that is revoked while its upload is read is
  honoured. PatchCodeAnalysisCoverage has no caller although the doc of IngestCoverage
  names it. "Report could not be read" is shown only for reports without lines. GitHub's reviews are cut at the first
  hundred and issues are filtered after paging. GitLab's tree is walked by branch name, so a push mixes
  two listings. Verdicts under the platform's login displace each other.
* Migrations. The baseline records files it never ran, and an interrupted baseline is not
  finished.

## Not modelled

Graceful shutdown, the throttle of TriggerSync (it only refuses), the
cache and queue of a server without Redis (they do nothing), the contents of signatures and signed tokens, text
formats and prompts, calls that only fetch a list from a host, the OAuth exchange, reading the
environment, test support, the generated Swagger document and the logger. asynq is modelled from how it is used: a task
is delivered to one worker at a time, again after an error or a crash, and is dropped after its last retry;
retention is modelled where a task id depends on it (`DocGeneration`), priorities are not.

Simplifications of what is modelled:
* A call whose answer is lost although it took effect is an outcome of its own where the host is changed (`DocGeneration`,
  `Providers`, `Requests`). The writes of `Settings` and the enqueues of `WebhookDelivery` either take effect or fail. In the
  code such an enqueue is retried, and the repository is synced twice for one delivery.
* `Providers` follows the lost answer of a review and of a publication by itself. The retry of a generation after a lost
  answer is in `DocGeneration`; the two are not composed.
* GitLab's tree listing also ends, without the mark of a truncated one, when the header of the next page cannot be read
  (gitlab/client.go:304-307). `Providers` ends a listing at its last page or at the ceiling.

## Plan

What is left to prove is what the collectors of `ConfigFacts` compute: with the choice of files written as a function
of positions in place of SelectSeq, each collector is a fold whose values can be constructed position by position, as
EdgesGathered does for DeriveConsume. That would turn CatalogAssumption into an assumption about the shape of a
file, and is the way to FactsAreProven. Liveness stays with TLC.

# Skillplane: TLA+ models, model checks and proofs

Skillplane keeps versioned "skills" (bundles of instructions) for workspaces.
A workspace lives in one regional cell (a PostgreSQL database and a bucket); a
control plane knows where each workspace is placed and holds what the public may
see. This directory specifies the parts of that system whose correctness depends
on the order of steps of several actors, checks them with TLC on small instances
and proves their main properties with TLAPS for every value of the constants.
Paths below are relative to `src/`; `domain/` stands for `packages/domain/src/`,
`control-plane/` for `packages/control-plane/src/`, and so on.

## 1. Inventory

| Component | State it keeps | Operations | What is hard | What makes it correct |
|---|---|---|---|---|
| Domain services (`domain/skills.ts`, `skill-versions.ts`, `publication.ts`, `amendments.ts`, `reviews.ts`, `amendment-policy.ts`) | `skills`, `skill_versions`, `amendment_reviews` | create, propose, amend, publish, reject, approve, archive, set visibility, set policy | reads and bundle uploads precede the transaction that locks the skill; revision numbers are reserved in one transaction and used in another; a version can be decided by two services | one line of releases, reservations held, decisions stand, limits of trusted credentials |
| Idempotency store (`domain/idempotency.ts`) | `idempotency_records` | claim, complete, release | three statements at read committed; locks expire under their holders; releases do not say whose claim they delete | at most one change per key, the same answer for all |
| Bundle store (`storage/r2.ts`) | a bucket, read beside `skill_versions` | put, delete if unreferenced, clean up orphans | two stores without a common transaction | referenced bundles are kept, orphans go |
| Outbox events (`domain/projection-events.ts`) | `regional_projection_outbox`, `regional_projection_sequences` | enqueue in the transaction of the change | numbering must survive retention | one increasing sequence per workspace |
| Drainer (`control-plane/projection-outbox.ts`, `projection/src`) | claims on the rows | claim, process, acknowledge, release, retire | at-least-once, leases overrun, two databases, poison events | in order, in effect once, none lost, none stuck |
| Public directory (`control-plane/publication.ts`, `api/public-projections.ts`) | heads, projected versions, withdrawals, counters with checkpoints | publish, unpublish, count, read | redelivery and late effects | shows what the cell holds once drained; a head points to a visible version |
| Migration (`control-plane/migration.ts`, `concrete-migration.ts`, `placement.ts`, `db/migrations/0041…`) | placement, write fence of each cell, journal | prepare, quiesce, drain, copy, verify, resume, roll back | writes and drainers of the old cell while the workspace moves | one cell admits writes; no event is lost or shown by the wrong cell |
| Routing and replay (`control-plane/routing.ts`, `replay.ts`, `api/workspace-routing.ts`) | placement cache, nonces | route a request under region and epoch | stale routes | stale routes are refused by the cell |
| Version lifecycle and composition (`domain/version-lifecycle.ts`, `composition-service.ts`) | marks of a version in both databases | deprecate, revoke; resolve and validate a dependency lock | two writes of which one may fail, read node by node while they change | a revoked version is served to no call that began later |
| Contexts and notes (`domain/contexts.ts`, `context-knowledge.ts`, `context-notes.ts`) | rows with `updated_at` and revisions | edit, archive, restore, revise | tokens of a coarser precision than the column, clocks that step back | no edit overwrites one its author has not seen |
| Git sources (`domain/git-sources.ts`, `git-provenance.ts`) | source with a lease, bindings, runs with results | preview, apply, bind, disconnect | a plan carried out in dozens of transactions, any of which may lose the lease, be cut off or lose its answer | each content is imported once; a binding tells the truth; complete means every item |
| Local projections (`local-runtime/projections.ts`, `store.ts`) | SQLite store, links and generations on disk | sync, recover, uninstall, roll back, approve | crashes between store and file system, several processes, a user's hand | links and store agree or recover makes them agree; shared projections stand; nothing unreviewed runs |
| Usage delivery (`local-runtime/analytics.ts`, `mcp/src/tools/usage.ts`) | queue on the client, receipts on the server | record, upload, receive | lost answers, two uploads, overlapping calls | counted once, and counted when shown as uploaded |
| Audit history (`observability/rollups.ts`, `retention.ts`) | audit rows, daily aggregates | roll up, expire | commands that overlap, die and are run again, under a fence that comes and goes | aggregates survive the detail |
| Groups, verification, learning metadata, search | their own tables | create, update, read | one transaction each, under the idempotency store | — |
| OAuth for MCP (`authfn-mcp-oauth/`) | codes, token families | authorize, exchange, refresh, revoke | rotation against reuse | a code is exchanged once |
| API, MCP server, app, docs, observability, deployment | none of their own, or audit rows | parsing, rendering, metrics | — | — |

Interaction: API → domain service → (claim of the idempotency key) → reads, bundle
upload → one regional transaction that changes the skill, enqueues outbox events
and completes the key → drainer of the cell → control plane. The migration driver
moves a workspace between cells and coordinates with the first and the last only
through the fence row and the placement.

`PROJECT.json` lists all components with what is left out of each, and under
`hazards` what is hard to test, at its line, with the properties that watch it.

## 2. Modules

| Module | Models | Kind |
|---|---|---|
| `PublicDirectory` | the SQL statements of the public directory and the counter, as operators on values | component, used by the next |
| `ProjectionOutbox` | regional transactions, outbox, drainers, retention, placement, fence and move | component (composition of cell, drainer, directory and migration) |
| `OrderedDelivery` | what the pipeline promises: a prefix of the committed events has been executed | abstract specification |
| `Idempotency` | the idempotency store, statement by statement | component |
| `OnceOnly` | what a key promises | abstract specification |
| `SkillVersions` | versions, reviews, policy and release pointer of a skill | component |
| `ReleaseHistory` | what publishing promises: a line of releases that only grows, one decision per candidate | abstract specification |
| `BundleStore` | bucket, version rows, compensation and collection | component |
| `LocalProjections` | the installed skills of one machine: links, generations, store, processes | component |
| `GitSources` | one Git source, its previews, and the workers that apply them | component |
| `UsageDelivery` | the usage queue of a client and the receipts of the server | composition of client and server |
| `Composition` | marks of versions in two databases and the readers of a dependency lock | composition of version lifecycle and composition service |
| `ContextEdits` | one context, its knowledge and a note under several editors | component |
| `WorkspaceMoves` | the commands that move a workspace, their journal and drills, over the rows that are copied | component |
| `TestedMoves` | what moving promises: one store with one home, which only an exercised move changes | abstract specification |
| `AnalyticsHistory` | audit rows, daily aggregates, and the commands that compute and expire them | component |
| `MC…` | constants and symmetry for TLC | model checking |
| `…Proofs` | theorems | proofs |

### ProjectionOutbox and PublicDirectory

State and code: `skill` is the part of a `skills` row that events speak of;
`outbox[w]` is the table `regional_projection_outbox` of a workspace indexed by
`sequence` (a retired row keeps its place, with status `retired`, so that
properties can still speak of its event; the code paths see live rows only, through
`LiveSequences` and `Pending`); `lastSequence` is `regional_projection_sequences`.
A drainer's `pc`, `todo`, `current` and `blocked` are the local variables of
`drainRegionalProjectionOutbox`: `todo` the claimed rows not looked at yet,
`current` the one in the loop body, `blocked` is `blockedWorkspaceIds`. `token` and
`live` are `claim_token` and "`claimed_at` within the lease". `directory`,
`counter`, `routes` and `placement` are the control plane's tables; `fence[w][r]`
is the row of `regional_workspace_migration_fences` in cell `r` (`raised` is
`source_epoch > 0`, `active` is `active_epoch`); `routed[w]` are the (region,
epoch) pairs that placements have ever handed to a request.

Actions: `CreateSkill`, `PublishCandidate`, `PublishAmendment`, `SetVisibility`
and `SetArchived` are whole regional transactions with the events each enqueues
(publication of a candidate announces public skills only, an amendment announces
every skill; showing or unarchiving announces the whole history). `Claim`,
`Check`, `Apply`, `Ack`, `Fail`, `Finish` and `Crash` are the drainer's statements:
the placement is read in `Check` and the effect written in `Apply`, with anything
in between. `LapseClaim` and `OverrunLease` are the passing of a lease;
`RetireRow` and `RetireCount` the two retention queries. The move's hooks are
`PrepareSource`, `QuiesceSource`, `DrainOutboxes`, `ResumeTarget` and
`RollbackSource`; `BeginMove` and `Activate` are DataFn's compare-and-set of the
placement, of which the repository's code demands only that it raises the epoch.
`quiesceSource` is one step because raising the fence row waits for the writers
that hold it in share mode. The outbox travels with the workspace's other tables,
so `outbox[w]` is the table of the cell the workspace is placed in.

Abstractions: a skill is its count of releases and two flags, an event its kind
and the values readers see; bundle copies are immutable puts before the statement
modelled; `resource_route` is only enqueued by creation (those of candidates,
contexts and notes are further idempotent upserts); `agent_skill_used` has no
caller; placement caches are the old members of `routed`. A workspace whose fence
row does not exist yet is taken to have the row the trigger inserts.

### Idempotency and OnceOnly

`record[k]` is the row of a key (`status` combines its presence and
`response_status`), an attempt's `pc` the statement it is about to run. `claim` is
`Insert`, `Select`, `Reclaim`, each atomic, others in between; `Completed` is
`complete` inside the operation's transaction, so the change (`effects`) and the
response appear together; `CommitUnseen` is a commit whose answer is lost;
`Overtaken` the throw of `complete`; `Reject` any refusal of the operation;
`Release` the delete in the catch blocks of every service; `Crash` a dead worker
or a release whose error is dropped. `now[r]` is the instant read before the
transaction; `Lease` is `lockDurationMs`.

### SkillVersions

`versions[v]` is revision `v` with its review; `attempt` holds what an operation
remembers between its reads and its transaction: the base it read and the revision
it reserved. `Reserve`/`InsertCandidate` are the two transactions of
`createCandidate` (the second looks neither at the base nor at `archived_at` again,
as in the code); `ReadBase`/`Amend`, `PickCandidate`/`Publish` and
`PickReview`/`Approve` are pre-read and transaction of the others.
`RejectCandidate`, `RejectReview`, `SetArchived` and `UpdatePolicy` are single
transactions. A rule keeps credential, greatest bump and daily limit; whether
scopes and contexts match is the set `met`, chosen freely. A rule without a limit
publishes freely and is left out. `versions[v].rule` is `matchedRule`, the rule's
position, by which the code counts.

`KeepsHistory` is the refinement of `ReleaseHistory`: the head is the release pointer, the
releases are the rows of the published versions, which stand whole, open candidates are
the versions that wait, with what they were made on. Everything else (reservations,
attempts, reviews, rules, days) is unseen there. What it adds to the invariants
is about steps: a candidate waits for the release it was proposed for until its one
decision, no decided version is decided again by another service, and a version enters the
line only at its end, under a number greater than that of the release it follows, and not
while the skill is archived.

### BundleStore

`object[d]` is the object under the digest `d` (key: workspace, skill and digest).
`Head`, `Put` and `Verify` are the calls of `putCanonicalBundle`, `Commit` and its
alternatives the transaction, `Check` and `Delete` the query and the call of
`deleteIfUnreferenced`; `List`, `Filter` and `DeleteListed` are `cleanupOrphans`.
`Age` assumes that the job's age limit is longer than an operation takes.

### LocalProjections

`link[p]` is what the discovery path `p` holds: one of our generations, nothing, or
something foreign; `made[g]` is the record written with generation `g`. `projection`,
`owners`, `journal`, `leaving`, `history`, `trust` and `pending` are the key
families and tables of the SQLite store, by their prefixes. `proc[p]` is where a command
is and what it has read. `sync` is `BeginSync` (everything it reads outside a
transaction, with each refusal), `SyncStage` (generation and journal entry, each written
for itself), and the swap transaction: `SyncSwap` when it commits, `SyncSwapCut` when the
process dies between the rename of the link and the commit; `SyncConfirm` is the
transaction of a sync that finds nothing to change; like a swap it forgets the record and the
owners of an id it replaces (`Remember`). `recover` reads the announced
removals (`RecoverRead`), finishes each in a transaction (`FinishUninstall`, or
`FinishCut` for a death between unlink and commit) and settles the journal
(`RecoverJournal`). `BeginUninstall` is the announcing transaction of `uninstall`,
`Approve` and `Rollback`/`RollbackSync` their commands, `Stop` a command's end or death,
`Meddle` a user who removes a link or puts something else there.

While modelling we met three races that the code leaves open; the properties name them
by ghost variables, so that they hold of everything else:

* `robbed` — a `recover` deletes the journal entry of a swap another process is about
  to make; if that process then dies between rename and commit, nothing on disk or in the
  store leads back to the link (`docs/local-first-workspaces.md:207` promises that the
  journal reconciles it).
* `overrun` — a sync that read "nothing installed" swaps after another command has
  installed a projection at that path and its link was removed by hand: two records for
  one path, after which a removal may be one that `recover` can never finish, and
  `recover` throws for every command. The same sync may replace a projection that two
  projects share.
* `disarmed` — a removal read long ago is found stale and deletes the *newer*
  announcement of the same id (`local-runtime/src/projections.ts:443-447` deletes by id):
  what was to be uninstalled stays installed.

Not modelled of this part: `resolve` and the bundle cache of `runtime.ts` (reads), and
the constructor's one-time migration of owners.

### GitSources

`source` is the row with its revision and its lease (`token`, and `live`: its time has not
run out); a claim's token is the revision it moved the source to. `run[r]` is a
`skill_source_runs` row with its plan and results, `worker[w]` a request inside `apply`.
`PreviewRead`, `PreviewPlan` and `PreviewSave` are the three moments of a preview;
`Claim`, `Renew`, `Look`, `Reserve`, `Insert`, `BindVersion`, `Keep`, `Note`,
`SaveError`, `Finish`, `MarkPartial` and `Release` are the transactions of an apply, each
of which checks the lease (`Fenced`) and may commit without its answer arriving; `Crash`
and the expiry of the lease may fall anywhere. `Update`, `Bind` and `Disconnect` are a
person's, and so are reviewing, publishing and archiving meanwhile
(`MaxInterventions` of them). Abstractions: the provider returns some commit of
`Commits`; a bundle is its content and composition's refusals are errors an item may
meet; slugs are injective in the paths (`SlugOf`).

Two kinds of plan can be made without knowing the candidates of their path, and of these a
second open candidate with the same path, base and content is possible
(`NoDuplicateCandidates` excepts them, by `Unaware`; `docs/operations/git-sources.md:30-33`
says that a pending imported candidate is never duplicated):

* A preview that cannot prepare a bundle swallows the error
  (`domain/git-sources.ts:552-554`): the entry stays changed, names no candidate and no
  prepared digest, and the apply creates one without comparing. `PreviewPlan` chooses the
  paths that are `refused`; `prepared` of an entry tells them apart. After an apply that
  died between import and binding, such a plan imports the content again.
* A preview that began under another run's live lease (the ghost `overtaken`) has the
  revision of that run's claim and the bindings of before its writes. The comment at
  `domain/git-sources.ts:674-676` takes its plan to be refused; it is not (finding 5).

`LastClaimShows` is what the fence is for: a path that some run has settled shows what the
run claimed last made of it, never something an earlier worker wrote after it had lost its
lease. It looks at the applied revision of each run that has a result for the path, since
results are merged whether or not the lease is still held.

### UsageDelivery

`queue` is the client's table, `upload[u]` a running `usage-upload`, `call[c]` a request
under way, `receipt[a][e]` the idempotency record of an event under an account and
`counted[a][e]` its audit rows. The client's and the server's steps interleave, any
answer may be lost, a receipt lapses after its lease. Two outcomes are the code's and no
property forbids them: an attempt that was overtaken is answered
`IDEMPOTENCY_KEY_REUSED` (finding 2) and shows an accepted event as quarantined; and an
event sent again under another login is counted there as well, since receipts belong to
an account.

### Composition

`controlMark` and `cellMark` are the marks of a version in the control plane and in its
cell. An order to mark is claimed, checked, written to the control plane, then to the
cell with the completion of the claim; each of these may fail or be the last
(`SetterDies`). A reader takes the nodes of a lock in any order, and of each first the
mark, then the source; a publication's reads of the cell are one serializable snapshot
taken at its beginning, those of the control plane are not.

### ContextEdits

`context.stamp` is `updated_at` in microseconds, an editor's `millis` what the API gave
it. Each edit is one serializable transaction, so an action; the clock returns anything
(it may step back, or be another cell's). `context.writes` counts writes and is read only
by the property.

### WorkspaceMoves

`ProjectionOutbox` has what a move means for events; this module has what it means for
rows and for what is said of a move. `rows[r]` counts the workspace's writes present in
cell `r`, `written` those committed; `gate[r]` is the fence row; `placed` DataFn's
placement, of which the repository's code uses that each transition raises the epoch and
that a recovery takes up the recorded move. `command` is the running script: finalize a
pending run, or drill, then move, then record. `journal` and `drills` are
`workspace_migration_runs`. A command may die at every step (`CommandDies`), a hook may
fail (`HookFails`), and the completion may not be recorded. Assumptions: one command runs
at a time (DataFn's recovery lease; `rollbackSource` deletes with
`session_replication_role = replica`, past every trigger, so this lease is all that
protects the rows), and a recovery is the retry of the interrupted move to the same
target. A death between activation and the recording of `completed` leaves the row
`running`; `scripts/migrate-workspace.mjs` then refuses because source and target are
equal, so the row stays.

`KeepsMoves` is the refinement of `TestedMoves`: the home is the placed cell, its content
that cell's rows, the latest move the one the placement was last fenced for, the exercised
moves those whose rollback was completed, and the proof the one a command has answered
with. Copying, deleting, gates, records and deaths are unseen there. What it adds to `MovesHonest`
is about steps: a new home comes only from a move that was rolled back just before, with
its fence as the only epoch in between; nothing but a write ever changes what the home
holds, the change of home included; and proved is the move of the present placement.

### AnalyticsHistory

`logged` are the audit rows with their time and retention class, `summary[d]` the set of
events the stored aggregates of a day were computed from, `ran[d]` the run's row.
`CountRows` and `ReplaceDay` are the two statements of one recomputation, which at read
committed see different rows; `DeleteBatch` one batch of the retention. `ChangeFence`
waits for transactions that hold the fence's row. The ghost `spoiled` holds the days for
which `.conduct/decisions/DECISION-0006…` ("aggregate counts survive expiry") does not
hold: days of which a retention deleted events although its roll-up had passed the day
over because the fence was up just then, and days somebody recomputes after events of it
have expired (`analytics:rollup --day`). An event's row may commit up to `Late` after the
time it bears; `HistoryAssumption` says that the retention outlasts a day and such a
commit, so that no event is committed on a day of which something has expired.

## 3. Runs

Bounds are CONSTANTS, named with `Max…`, and stand in the guards.

| Run | Instance | States | Shows |
|---|---|---|---|
| `OutboxDrain` | 1 workspace, 2 cells, 1 skill, 2 drainers, 2 versions, 1 fault; 5 events where it stays, 3 events and 5 epochs where it moves (a move and a move back, or roll backs) | 427 k | types; the drained directory is the cell's state, over moves too; a public head is visible; acknowledged means applied; the counter counts each event once; one home; a left-over drainer changes nothing the public sees; refinement of `OrderedDelivery` |
| `OutboxSettles` | 2 workspaces, 2 drainers, 2 events each with 1 fault; or one of them with 1 event and up to 4 faults; fairness | 40 k | every event is acknowledged in the end |
| `OutboxRollback` | 2 cells, 1 drainer, 2 events, a move that fails, fairness | violation | finding 1 |
| `Idempotency` | 3 attempts, 1 key, 2 inputs, 4 instants, lease 1, 2 faults | 283 k | types; a key is blocked no longer than a lease; refinement of `OnceOnly`, from which `AnswersAgree` follows |
| `IdempotencyReuse` | as above | violation | finding 2 |
| `SkillVersions` | 2 operations, 2 credentials, 3 revisions, 2 days, policy on and off | 410 k | types; line of releases; reservations; decisions; limits; refinement of `ReleaseHistory`, from which `ReleasesFrozen` follows |
| `SkillVersionsPolicy` | a policy whose rules move | violation | finding 3 |
| `BundleStore` | 3 operations, two with the same bundle, 2 faults | 12 k | types; only a failed twin costs a bundle; no orphan without a fault |
| `BundleStoreTwins` | no fault | violation | finding 4 |
| `LocalProjections` | 2 processes, 2 ids on one path, 2 projects, 3 versions, in one of 4 plans: 3 generations without, 2 with one touch by the user | 1.26 M | types; links and store reconciled; one record per path, owned; installed stays; removals can be finished; reviewed before use; shared projections stand |
| `Services` | one of ten small systems, see below | 1.11 M | types; Git: no duplicate candidate, honest bindings, the last claim shows, complete means every item, results stand; usage counted once; revoked stays out; nothing overwritten; moves honest; refinement of `TestedMoves`; history survives |
| `GitSourcesSibling` | 1 path, 2 previews, 1 worker, 3 revisions | violation | finding 5 |

Why the bounds are enough. Five events are the creation of a private skill (route
and count), its publication, and either an archive with its count or a change of
visibility and back: with two versions that is the shortest history in which a
republished skill has an older version to announce behind its current one, a
counter goes up and down, and retention can remove rows before the last event. Two
drainers are needed for a claim to be taken over and one overrun lease or crash to
cause it; a third would repeat the second. Five epochs are two complete moves
(each takes two), so a cell is source, tombstone and target again; three events are one from
each of the three places a workspace has been. `StayOrMove` of the MC module keeps the
product of both out: a workspace that has committed more than `MovedEvents` does not move.
Four faults let one event fail again and again, past its drainer's death and a lost claim,
while the other workspace must go on; with two busy workspaces one fault is allowed
(`FewFaults`). Neither commits nor faults are under fairness, so cutting them off takes no
fair step away. Three attempts
let one overrun its lock, one take it over and one find the result. Three
revisions give two competitors for one base and one successor. The larger
directions are covered by the proofs.

The four plans of `LocalProjections` each fix what `sync` may be asked for: updates and
narrowing of one skill (three generations, so that a rollback has somewhere to go); two
sources that compete for the path (three: there, away, and back); two projects that share
a projection one of them wants changed; and the same with another source that claims the
path, these two with a user who touches the path once. Two processes give every pair of a
stale reader and a writer, which all three races above are.

`Services` checks ten systems that share no variable, one per behaviour: the variable
`part` is chosen in the initial state, and the variables of the others keep a fixed value,
so the state space is the sum of the ten and not their product. A property says of its part
what the component's module defines. The parts and their bounds: the Git source four
times (two previews and one worker with one intervention; two previews, of which the second
may be refused the preparation of a bundle, and two workers; one preview, two workers and two
interventions, up to four versions and interventions together and four revisions; two paths
whose commits may remove or break a bundle, one preview, one worker and one intervention) —
each bound is the shortest in which a worker loses its lease after an import, another recovers
it, and a second plan competes; usage (two uploads, three calls: first, overlapping and
repeated); composition (a lock of an own and a foreign version, three orders on them, of
which only those on one version meet, two setters, one reader); edits (two editors, two edits, two microseconds to the millisecond,
any clock: one edit overwrites what the other has read); moves (two cells, three runs,
three drills, two faults, one write: there and back with an unrecorded completion in
between); history twice, with days of two instants, a retention of two and a commit that
is at most one late: once up to instant 3, with three commands at the most and two changes
of the fence (roll-ups and the retention of the first day overlap, die and are repeated),
once up to instant 5, with two commands (several days expire).

Deadlock is not checked: the bounds end every behaviour, and a system without
requests legitimately stops.

Symmetry: drainers, attempts, hashes, processes, workers and contents, which no
definition orders, in runs of invariants and of step properties only; the runs of liveness
use none. Of two previews `FirstCome` names the first.

Fairness (`FairSpec`). The cron trigger (`projection/src/index.ts:117-125`) starts
an invocation every minute: weak fairness of `Claim`, `Apply`, `Ack`, `Finish`. A
running invocation looks at its claimed events with a soft budget of 45 seconds
for statements of milliseconds; that it does not reach the deadline before its
first event time and again is strong fairness of `Check`. A lease passes with the
clock: weak fairness of `LapseClaim`. The migration driver goes on with a move it
has begun: weak fairness of its steps after `BeginMove`; beginning a move and
rolling it back are not fair. Faults are bounded: a cell that fails for ever
delivers nothing.

## 4. Findings

1. **An event of a rolled-back move cannot be settled** (`OutboxRollback`). A write
   admitted between the pre-drain and the quiesce carries the source's old epoch;
   after a roll back the placement's epoch is higher; `applyRegionalPublicProjection`
   (`control-plane/projection-outbox.ts:461-472`) refuses the event for ever and
   with it everything behind it, and migration 0041 allows neither to rewrite nor to
   delete it. The comment at `control-plane/concrete-migration.ts:936-941` promises
   that such a write can be settled.
2. **Overtaken attempts are told that the key was reused** (`IdempotencyReuse`),
   although the input was the same (`domain/idempotency.ts:204`); the specification
   reserves that answer for different input.
3. **The daily limit of a trusted rule restarts when the rule moves**
   (`SkillVersionsPolicy`), because automatic publications are counted by the
   position of the rule (`domain/amendment-policy.ts:408-427`).
4. **A compensation can delete a bundle that has just been referenced**
   (`BundleStoreTwins`): the query and the delete of `deleteIfUnreferenced`
   (`storage/r2.ts:270-290`) are not one step, and two operations with the same
   bundle share the object.
5. **A sibling preview can be applied after another run's writes** (`GitSourcesSibling`).
   The revision is raised when an apply begins and not when it writes
   (`domain/git-sources.ts:677-694`), so a preview that reads in between is current by its
   revision and plans from bindings that are about to change; the comment at
   `domain/git-sources.ts:674-676` and `docs/operations/git-sources.md:58-60` say that such
   a plan is stale. What is written then is still fenced and true (`BindingHonest`); the
   cost is a second candidate with the content of the first.

Observed while reading, without a document that says otherwise: publishing or
rejecting an amendment's version directly leaves its review pending for ever
(`domain/publication.ts:409-438`); an amended version is not announced to the
resource directory, as a candidate is (`domain/skill-versions.ts:447`); the comment
at `control-plane/migration.ts:272` says that consumers reject events of a moving
workspace, but they accept those of its source epoch. Further disagreements met while
modelling are named where they bite, by ghost variables whose exceptions the properties
state: `robbed`, `overrun` and `disarmed` of `LocalProjections`, `spoiled` of
`AnalyticsHistory`, the plans without a prepared bundle of `GitSources`, and the two outcomes
listed under `UsageDelivery` (section 2). They have no run of their own.

## 5. Proofs

All theorems hold for arbitrary sets and bounds. Each rests on the named assumption of its
module about the constants and on no other (`ConstantsAssumption`, `MaxVersionAssumption`,
`LocalAssumption`, `GitAssumption`, `CallsAssumption`, `OrdersAssumption`,
`ClockAssumption`, `MovesAssumption`, `HistoryAssumption`), which TLC evaluates in the
passing runs. They say that bounds are numbers, that names differ from the values that
stand for "none", and that functions of the constants have their types. Four say more:
the projects of a machine are finitely many, which is what lets the code count owners
(`LocalAssumption`); audit events are finitely many and their retention outlasts a day and
a late commit (`HistoryAssumption`); a millisecond is at least one microsecond
(`ClockAssumption`); an order names a version of the lock (`OrdersAssumption`). Two theorems
have a hypothesis of their own, see there: `RulesStay` of `LimitsHold`, and the distinct
bundles of `DistinctBundlesKept`.

* `ProjectionOutboxProofs`
  * `TypeCorrect`: `Spec => []TypeOK`. Types alone are not inductive: that an event
    extends the sequence needs that the counter equals the length of the outbox
    (`Dense`), and that a drainer's row exists needs that what it holds was claimed
    from the outbox, which never shrinks (`InHand`). Invariant: `TypeInv`.
  * `Delivered`: `Spec => []AckedMeansApplied`. An acknowledgement is one step later
    than the effect and retention forgets counted ids, so the induction adds: a
    drainer about to acknowledge has caused the effect (`AppliedInHand`), and ids
    the counter remembers are covered by its checkpoint (`Remembered`). The control
    plane only grows (`ControlGrows`), so an effect is never undone by another
    drainer's late delivery. Invariant: `DeliveryInv`.
  * `OneHome`: `Spec => []OnlyHomeAdmits`, from `HomeInv`: which fences are up and
    from which epoch on in each phase of a move (`MovePhase`), and that every route
    ever handed out is older than the home's epoch or leads to the home
    (`RoutesFenced`).
* `ProjectionPipelineProofs` goes on from these three, with `PipelineInv`.
  * Its idea: a ledger. What the directory, the counter and the routes hold is what a prefix
    of the workspace's events adds up to (`ControlInv`, of `EntryInv`, `CounterInv` and the
    routes), and what all events add up to is what the cell holds (`LogInv`). The first is
    kept by the drainer's steps, the second by the transactions. For a skill, what a log adds
    up to is the versions announced and not withdrawn since (`Standing`); for the counter, how
    many events raise it less how many lower it (`Balance`).
  * That the effects form a prefix is `InOrder`: an event has its effect only when all before
    it are settled. It needs that all rows before one that a drainer has in its hands are
    settled (`OldestInHand`), which is why a failure blocks the rest of the workspace in that
    invocation.
  * `DrainedCurrent` (`Spec => []DrainedMeansCurrent`), `HeadVisible`
    (`[]CurrentVersionVisible`) and `CounterExact` (`[]CountedOnce`) read this off.
  * `InOrderOnce` (`Spec => DeliversInOrder`): every step is a step of `OrderedDelivery`, the
    delivery of a workspace's next event, or leaves the mapped state alone. The work is in
    showing that an event in effect changes nothing when it is applied again, late and by
    another drainer.
  * `OldCellSilent` (`Spec => StaleCellSilent`): a workspace whose placement is activated has
    been drained, and a drainer about to apply a pending event is in the workspace's cell
    (`MovedSettled`), so a left-over drainer holds only events that are in effect already.
* `IdempotencyProofs`: `TypeCorrect`, `Agreement` (`Spec => []AnswersAgree`) and
  `Implementation` (`Spec => KeepsPromise`, the refinement of `OnceOnly`), from
  `IInv`: the record is completed exactly when one change is committed, by the
  attempt named in its response and for its input (`RecordHolds`), and only attempts
  that have asked are anywhere (`Asks`).
  `PutOffOnlyByOthers` (`Spec => []PutOffByAnother`) adds that an open record was left by
  an attempt that is known, not later than its lease says.
* `SkillVersionsProofs`: `TypeCorrect`, `OneLine`, `NumbersReserved`, `Decided` and
  `NeverChanged` (`ReleasesFrozen`, a property of steps), from `SkillInv`. It has a part
  about the releases (`LineInv`: exactly the published versions have a version number and a
  released base, which with the pointer compared under the lock keeps the line), one about
  revision numbers (`NumbersInv`: numbers are used below the counter only, so what is
  reserved stays free) and the remaining types. `LimitsHold`
  (`RulesStay => (Spec => []CredentialWithinLimit)`) counts: a publication counts those of its
  rule on the day under the skill's lock, and each that was made under a rule names one of its
  credential (`RulesTold`), so that counting by rule is counting by credential.
  `RulesStay` — a credential's rules have the same position in all policies — is needed
  because publications are counted by position: the run `SkillVersionsPolicy` shows the
  limit exceeded without it (finding 3).
  `PromiseKept` (`Spec => KeepsHistory`) is the refinement of `ReleaseHistory`. A step changes
  one row (`OnlyRow`), and what the abstract specification sees of it is decided by the row's
  status before and after: `ProposalShown`, `RefusalShown`, `ReleaseShown`. The invariant
  gives what the abstract guards ask: that a candidate is inserted for a base that is
  released, although it was read before the bundle was stored (`NumbersInv`), and that the
  new version is the greatest of all, since the pointer is (`ReleaseLine` after the step).
* `GitSourcesProofs`: `ImportsInOrder` (`GitSpec => []GitInv`), from which `OneCandidateEach`
  (but for the two kinds of plan that are unaware of the first candidate), `BindingsTrue`,
  `NothingLeftOut` and `NoResultReplaced` (`ResultsStand`, a property of steps) follow. The invariant is about revisions of the source, since these serve as
  tokens: each claim moved the source to a revision of its own, and while it lasts no run has
  read that revision but an `overtaken` one (`ClaimsApart`). What a worker remembers is true
  of its run's results and of the catalog (`WorkersFit`), or `Fenced` refuses it. Where the
  candidate that a plan would create is there already, from another run, the plan's run was
  read and applied at older revisions and can never claim the source again (`TwinsShutOut`).
  `PlansFit`, `BindingsFit` and `ImportsOfRuns` say what a plan, a binding and a result name
  in the catalog.
  `LastClaimHasTheWord` (`GitSpec => []LastClaimShows`) rests on the order of claims: results
  come only of a claim, which is later than what the run had read (`ClaimsCame`). A worker
  that passes the fence has the source's revision, above the claims of all other runs, so
  what it settles is the latest (`BindingShows`); a run that is claimed again after it has
  settled something goes on where its own last claim left the source, so it was the latest
  already (`ClaimShows`).
* `ServicesProofs` has the five components that are small enough to share a module; no part
  but the last uses another's variables.
  * `UsageDelivery`: `ReceiptsAgree` (`[]UsageInv`), `CountedOncePerAccount`
    (`[]UsageCountedOnce`). A receipt is completed exactly when the event was counted, once
    (`CountedByReceipt`), and a verdict that marks a row as uploaded is given only of a
    completed receipt (`UploadedDone`).
  * `Composition`: `MarksInOrder` (`[]CompositionInv`), `RevokedNeverServed`
    (`[]RevokedStaysOut`). A mark is in the control plane before it is in the cell
    (`ControlFirst`) and in both before the order is answered (`DoneMarked`); a reader that
    began after a revocation still has the node ahead of it (`StillAhead`), so it will be
    refused.
  * `ContextEdits`: `TimesTell` (`[]EditsInv`), `NoLostEdits` (`NothingOverwritten`, a
    property of steps). Every write moves the time by at least one millisecond, so the
    truncated time strictly grows with the writes, and an editor whose time equals the
    context's has seen its last write (`OldTimesDiffer`).
  * `WorkspaceMoves`: `MovesInOrder` (`[]MovesInv`), `NoWriteLost` (`[]MovesHonest`). The
    workspace's cell holds every write (`EveryWriteKept`) because the phase says where the
    workspace is (`PlacedByPhase`), every other cell that a request may still be routed to has
    its gate raised (`OldCellsFenced`), and the target is activated only with the source's
    rows (`CommandFits`). The records are true of what was exercised (`RecordsTrue`), and
    `CommandFits` ties each step of a script to the move under way and to the row that it will
    complete.
    `MovesAreTested` (`MovesSpec => KeepsMoves`) is the refinement of `TestedMoves`, from
    `LatestInv`: while a command's move runs, the placement is one epoch past the one it was
    fenced at (`FenceFresh`), so no recovery came between the drill and the change of home;
    a command that completes a run does so for the latest move (`CompletesLatest`); and a
    pending proof is of a past epoch or of the move that made the present one
    (`ProofsOfPast`), which is why a late finalization proves nothing that was undone since.
  * `AnalyticsHistory`: `DaysAccountedFor` (`[]HistoryInv`), `CountsSurvive`
    (`[]HistorySurvives`). A day expires only when it is over, so its events stand still, and an
    expired day is still to be recomputed by its retention, passed over by it, or kept
    (`RetentionHolds`). A stored day has only events of the day, and its run counts no more
    than are stored (`StoredHolds`); so one whose run counts as many as the day has is whole,
    and what is gone was in it (`GoneHolds`). What a command counted before it replaces a day
    is still all of the day, unless no retention relies on the day (`BuildHolds`); two
    commands never replace the same day at once, for they lock it (`BuildersApart`).
  * Types with their bounds: `EditsHaveTypes` (`[]EditsTyped`: the
    number of writes bounds time and revision, `InBounds`) and `HistoryHasTypes` (`[]HistoryTypeOK`, from
    `HistoryTyped`); the other components have theirs in the invariants named above.
  * `EveryTypeHolds` (`Spec => []TypeOK`) is about the composition `MCServices`. That each of
    its steps is a step of one part and a stutter of the others is a lemma (`NothingShared`),
    true by the way it is written; with it each theorem above holds of what TLC checks.
* `LocalProjectionsProofs`: `TypesHold` and the six properties the run checks, the last of
  them a property of steps, all from `Inv`. What a command read before its transaction is
  only a hint, so the invariant says what remains true of it: the generations it names were
  staged for its id or its path (`CommandsKnow`), and a generation on its way to its swap is
  nowhere else (`SwapsFresh`). What a path shows is the recorded projection's generation or
  one that replaces it, and of a shared projection the same content (`ShownAs`), which is why
  `recover` may adopt it. A removal in some command's hands is still announced, unless its
  announcement was erased (`RemovalsAnnounced`), and what is announced is still installed and
  unshared (`RemovalsReady`). `AllGranted` carries the review through staging, approval and
  rollback.
* `BundleStoreProofs`: `TypeCorrect`, `OnlyTwinsLose` (`Spec => []LostOnlyToTwin`)
  and `DistinctBundlesKept` (if all bundles differ, every committed version keeps
  its bundle). The strengthening says what a deleter and the collection still know
  although they asked earlier (`LostToTwin`, `DeletersFailed`, `ListedOver`,
  `UploadersKnown`). `NothingLeftBehind` (`Spec => []NoOrphanWithoutFault`): without a
  fault every present bundle is referenced or has an operation that will still see to it.

Only model-checked: liveness (`EveryEventSettles`), which rests on fairness and ENABLED.
Every other property of a passing run is a theorem above, `CredentialWithinLimit` under
`RulesStay`, which the policies of its run satisfy. What stays out of reach of the proofs
besides: what a recursive definition computes for every input, for which the modules state
invariants of the results instead (the ledger of `ProjectionPipelineProofs`).

## 6. Not modelled

* Of the move: the digests by which copied tables and bundles are verified, the copy of
  bundles (immutable puts), DataFn's own permission outbox and its recovery lease.
* OAuth for MCP: each exchange of a code or a refresh token is one transaction under a row
  lock; memberships and invitations likewise. The shape of one such exchange is that of
  `ContextEdits`; the statements over all tokens of a family, which meet exchanges of other
  rows, are not covered by any module.
* Of the bundle store: a COMMIT whose answer was lost and that takes effect only after the
  compensation's query; `CommitUnseen` commits at once.
* Groups, verification, learning metadata, search: single transactions or reads.
* Resolution and cache of the local runtime, providers, CLI parsing, adapters.
* Caches and signatures of routing; the nonce table is one INSERT.
* Expiry of idempotency records: no code deletes them.
* Bundle format, manifests, trust envelopes: pure functions over bytes; the models take a
  content as a value and an envelope as a set.
* Web application, UI components, database schema, generated clients, observability
  formatting, deployment and scripts. They are most of the repository: of its 88 000
  lines of implementation about 7 % carry the protocols above, and these are the lines the
  modules translate. The rest renders, parses, declares or configures, and has no state
  whose steps interleave.

The reasons stand with each component in `PROJECT.json`.

## 7. Plan

1. (done) `PublicDirectory`, `ProjectionOutbox`, `OrderedDelivery`: the pipeline
   and the move; type correctness, delivery and one home proved.
2. (done) `Idempotency`, `OnceOnly`; agreement, refinement and waiting proved.
3. (done) `SkillVersions`, `BundleStore`, both with proofs.
4. (done) `LocalProjections`, with proofs.
5. (done) `Composition`, `WorkspaceMoves`, `ContextEdits`, `GitSources`,
   `UsageDelivery`, `AnalyticsHistory`, all with proofs.
6. (done) The convergence of the public directory and the counter, the refinement of
   `OrderedDelivery`, and the silence of the old cell, proved on top of `ProjectionOutbox`.
7. (done) What publishing and moving promise, as the abstract specifications
   `ReleaseHistory` and `TestedMoves`, and the refinements proved; all types proved.
8. Left: an abstract specification of a Git source (each content imported once per base)
   that `GitSources` implements; the exchange of refresh tokens, which no module has.

## 8. Running

    tlc -workers 2 -config OutboxDrain.cfg MCProjectionOutbox
    tlapm ProjectionOutboxProofs.tla

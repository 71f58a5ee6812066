# Digital Student Assistant: TLA+ models

Models, model-checking runs and proofs for the Digital Student Assistant: a
Django service (`src/web`) that keeps projects, applications and users, and two
FastAPI services, `src/ml` (recommendations) and `src/graph` (Neo4j), that read
its outbox over HTTP. Paths below are relative to the repository root.

## 1. Inventory

How the parts run. `web` runs several gunicorn workers on PostgreSQL (SQLite in
development and tests). `ATOMIC_REQUESTS` is off, so every ORM statement commits
on its own unless the code opens a transaction, and handlers of different
requests interleave between statements. A `save(update_fields=...)` writes those
fields and raises if the row is gone; a plain `save()` writes every field of the
loaded copy and inserts the row again if it is gone. `ml` and `graph` are single
event loops: their coroutines interleave at `await`s only.

| Component | State | Operations | Talks to | Hard behaviour | Correct when |
|---|---|---|---|---|---|
| Outbox (`apps/outbox`) | event table, one checkpoint row per consumer | emit, list (poll, replay), ack, snapshot | written by all apps, read by ml, graph | commit order, unlocked checkpoint row, late requests, a snapshot read in several queries | nothing is acknowledged unapplied; offsets are monotonic; a snapshot replaces the feed below its watermark |
| Consumers (`src/ml`, `src/graph`) | read model, mirror of the offset | poll loop, /sync, /replay, /project, /reindex | outbox endpoints | timeouts, restarts, overlapping syncs, half-applied pages | every event is applied; the read model converges |
| Graph projection (`graph_store.py`) | Neo4j nodes and edges | one query or two per event | outbox events | deleted nodes merged again, matches in two transactions | the edges of an aggregate are those of its last event |
| Projects (`apps/projects`) | row: status, team size, accepted count | create, edit, update, submit, moderate, archive, delete, import | applications, outbox | stale copies saved, recount of a stale copy | catalog only after clearance; count and status exact |
| Applications (`apps/applications`, `frontend/views/applications.py`) | row: status, applicant, project | apply, review, withdraw, delete, PUT | recount of the project | double review, withdrawal during review | a decision comes from one review and stands |
| Technologies (`projects/models.py`, `frontend/views/technologies.py`) | directory with a status, links of projects | name, approve, reject, relate | projects, profiles, import | a rejection over an import, two saves of one project | approved names were chosen; links follow tags |
| EPP import (`projects/importers.py`, `apps/imports`, `bootstrap_epp_if_empty`) | EPPs, projects, import runs, a state file | import a row, run, bootstrap, command | projects, technologies, outbox | locks of rows, deadlocks, refused rows, death half-way | rows whole or absent; statistics add up; a clean import is complete |
| Initiative proposals (`projects/initiative_*.py`) | proposal, submissions | create, edit, submit, decide | creates a project | check before lock | one pending submission; one project |
| Email verification (`users/email_verification.py`, `cleanup_email_verifications`) | accounts, codes with attempts and expiry | register, verify, resend, clean up | sign-up form, login form | unlocked cooldown, resends that overlap, clean-up during a verification | guesses are bounded; confirmed users stay |
| External access (`frontend/views/cpprp.py`, `users/models.py`) | allowlist, requests | request, approve, reject, bulk add, toggle | registration | two commits, no status check | only cleared addresses register |
| Faculty sync (`apps/faculty`) | persons, courses, publications, matches | sync, reconcile | remote API, outbox on commit | key is a content hash, order of persons | the mirror follows the service and is announced |
| Recommendation gateway (`apps/recs`, `frontend/views/projects.py`) | cache of 300 s in each worker | search, recommend, reindex | ml | stale cache, fallback | nothing shown long after it left the catalogue |
| Favourites, profiles (`apps/users`) | profile row, related technologies | toggle, replace, add, remove, PATCH, page | technologies, outbox | read-modify-write of one row | a field keeps what its requests asked for |
| Deadlines, templates (`apps/account`) | two tables with slug, audience, switch | create, switch, delete, show, download | roles | switch of a loaded copy | deleted stays deleted; a switch is kept |
| Lists, pages, export | none | which rows each list shows | all of the above | same question answered in SQL and in Python | lists, filters, numbers and pages agree |
| Ranking (`src/ml/app/search`), tokens and SSO, metrics, deployment | none, or outside the program | | | | not modelled |

`PROJECT.json` lists each component with its status, and the hazards at the line
where each bites.

## 2. Plan

Done, in order of importance:

1. `AtLeastOnce`, `Outbox`, `OutboxConsumer`: delivery, the system's backbone;
   three runs, and proofs of its safety.
2. `ProjectStaffing`: projects, applications and their counts; one run, proofs.
3. `InitiativeProposal`: proposals, submissions, decisions; two runs, proofs.
4. `Snapshot` on top of `Outbox`: how a consumer starts; one run, proofs.
5. `Registration`, which joins `EmailVerification` and `ExternalAccess`; one run,
   proofs.
6. `GraphStore` (what an event does to the graph), `GraphConsumer` (pages, replays,
   deaths), `GraphMirror` (the rows behind the events); one run, proofs.
7. `FacultySync`, on top of `GraphConsumer`; one run with liveness, proofs.
8. `EppImport`, on top of `Technologies`; one run, proofs.
9. `Catalog`, on top of `Notices`, on top of `Profiles`; one run, proofs.

Every safety property that a passing run checks is proved, for every value of the
constants; liveness stays with TLC (section 13). Next:

10. Abstract specifications of staffing and of proposals (a decision is taken once, a
    project is made once), with the refinement proved as for `AtLeastOnce`.

Modules are written to be proved about: constants with named assumptions, an
action per statement that commits, no RECURSIVE operator.

## 3. The outbox and its consumers

### Modules

* `AtLeastOnce` - the contract: what is visible, what was processed, the
  acknowledged offset. `Acknowledge` moves over processed or waived events only; an event
  is waived when it appears out of the feed's reach or a replay passes over it.
* `Outbox` - the web side for one consumer. `seq`, `status` and `keyOf` are the
  event table (an id is drawn, then its insert commits or is lost), `checkpoint`
  the consumer's row, `request` the server threads.
* `OutboxConsumer` (extends `Outbox`) - the service: `worker` holds the poller and
  the HTTP callers, `index` the read model (for each aggregate, the event its
  entry comes from), `mirror` the service's note of its offset, `projected` the
  ids applied at least once (history), `waived` those the feed does not promise (history).

| Action | Code |
|---|---|
| `EmitEvent`, `CommitEvent`, `AbortEvent` | `emit_event`: get_or_create by idempotency key; the insert in the database |
| `ListEvents`, `ReadPage`, `MarkPolled` | list handler: load the checkpoint row; run the page query; save `last_seen_event_id` from the loaded row |
| `EventEmitted`, `EventSettled`, `PageRead` | the same steps of the web side, beside a service; they record what becomes `waived` |
| `PostAck`, `AckEvent` | ack endpoint; `ack_event` on the locked row |
| `FetchEvents`, `EventsFetched` | `fetch_events` of the poller, `/sync`, `/replay`; its answer |
| `ProjectPage`, `ProjectionFails`, `AckServed` | `sync_from_outbox` after the fetch: events in order, ack, mirror; the store raises half-way |
| `TimeOut`, `Restart`, `ProjectDirect` | httpx gives up, the server goes on; the process dies; events posted to /project, /reindex, /replay |

A payload is its idempotency key; `Subject` says which aggregate it is about.
Not modelled: the `event_type` filter, lists without a consumer (they move no
checkpoint), several consumers (they share only the event table, which none of
them writes).

### Runs

* `outbox_safety` - the poller, one HTTP caller, two server threads, three events,
  pages of two, a replay from 2, one timeout, one failed projection or restart,
  aborted inserts, commits in any order. Checks `TypeOK`, `NothingSkipped`, `MirrorNeverAhead`,
  `CheckpointNeverRegresses` and the refinement `DeliversAtLeastOnce`. Three ids with
  a page of two give a full page, a partial one, a gap and an overlap of two pages;
  the proofs remove the bounds.
* `outbox_liveness` - the poller with two timeouts, one failure and one direct
  event: `EveryEventIsAcked`; `IndexSurvivesOneFault`. Two events on one aggregate
  are enough to apply an old one over a new one.
* `outbox_commit_order` (violation) - `EverythingDelivered` fails when inserts commit in
  another order than they drew their ids, as PostgreSQL sessions may: the later id
  is delivered and acknowledged before the earlier one is visible. NFR 03 and the
  delivery contract promise at-least-once.

### What the feed does not promise

Two kinds of events end up behind the acknowledged offset unapplied, by the code's own
rules. Every list request reads above an offset, so an event that commits below one the
service has acknowledged, sent to be acknowledged or holds in a page is `Overtaken`: the
violation run shows it lost. And a `/replay` that starts ahead of the checkpoint is asked
to leave out the events in between (`LeftOut`), and its ack moves over them. `waived` names
exactly these events when they arise; of every other event `NothingSkipped` and
`DeliversAtLeastOnce` hold, for commits in any order and replays from anywhere.
`CheckpointNeverRegresses` and `MirrorNeverAhead` except nothing.

`IndexSurvivesOneFault` is conditional because the read model may stay behind for
good after a late ack followed by a failure: the ack moves the checkpoint although
its client gave up, the page is applied again, fails half-way with old events over
new ones, and is never delivered again. It also assumes that no event is out of reach
(`waived = {}`): one that was overtaken never reaches the model.

### Fairness

Transactions end (`EventSettled`), server threads finish their
requests, and the poller loops (`_poll_forever` catches every exception). Nothing
obliges anyone to emit, to call `/sync`, or a fault to happen. Faults are bounded:
an event the store can never apply does stop the poller at that event for ever.

### Proofs (TLAPS)

`SetLemmas` has facts about finite sets of naturals (least element, `Max`) and quotients,
`OutboxProofs` the web side, then the service, then the snapshots of the next section.
The last two share the web side and nothing else: no theorem about one uses an assumption
on the constants of the other.

* `WebTypeCorrect`, `AnyClientsMonotonicAck`: for clients that send anything.
* `TypeCorrect`, `MirrorBehindServer`, `ConsumerMonotonicAck`: types and offsets.
* `AlwaysSettled`: `Spec => []IInv`, then `NothingIsSkipped` and `ImplementsAtLeastOnce`
  from it. None of them assumes an order of commits or a range of replays.

Why the invariant: `NothingSkipped` says nothing of requests under way. `IInv` adds that
a polling request reads from at most the checkpoint, that a page in flight or in a worker
is complete (every visible event up to its last is in it, applied or waived), and that an
ack in flight names a settled offset. Pages stay complete because an event that commits
below one of their ids is waived by that very step. The central lemma is
`PageHasNoHoles`: a page of the first `Limit` events above a bound leaves out no visible
event between the bound and its last one; what lies below the bound is settled, or waived
by the replay that named it.

Only model-checked: both liveness properties (liveness and ENABLED are out of the
prover's reach).

### Snapshots

`Snapshot` (extends `Outbox`) is how a new consumer starts: the handler reads the
newest visible event as the watermark, then the serializer reads one resource after
the other, with nothing held in between; meanwhile other handlers write rows
(`SaveRow`, `DestroyRow`), emit the event of a write in a transaction of its own
(`Announce`) or never do (`SayNothing`: HTML pages, the admin, a worker that died).
A row is its version, an event names the version it announces.

`snapshot_safety` checks `SnapshotCovers`: a consumer that starts from a snapshot
never needs an event at or below the watermark, not even one that commits after the
snapshot was read. It holds although ids commit in any order, the very thing that
breaks `EverythingDelivered`, because a snapshot holds rows, which committed before their
events were drawn. The instance has a project and an application, two handlers, two
writes of each row, three ids and any order of commits: a write on each side of the
watermark and of each read, and one id that commits late.

The last part of `OutboxProofs` proves it for all constants (`SnapshotSpec`): an event,
drawn or about to be, announces a version its row has reached, and the watermark is an id
that was drawn, so what lies at or below it is older than every later read (`SnapshotInv`,
`EventsTrailTheirRows`). `SnapshotAlwaysCovers` and `SnapshotAlwaysReplacesFeed` follow:
whoever applies a snapshot and the visible events above its watermark is never behind one
who applied the whole feed. Assumed: the changes of rows are idempotency keys of their own
(`Changes \subseteq Keys`), as the keys name the row and the time of its last write.

## 4. Projects and applications

### Module

`ProjectStaffing` has a row per project (status, team size, accepted count) and
per application, and for each server thread the handler it runs with the copies it
loaded. An action is a statement that commits:

| Actions | Code |
|---|---|
| `CreateProject`, `CreateImported` | API and pages; initiative page (straight to moderation) and approved proposals; a new row of the import |
| `LoadForSubmit`, `SubmitForModeration` | `submit_project_for_moderation` |
| `LoadForModeration`, `Moderate`, then `CountAccepted`, `SaveStaffing` | `moderate_project`, `recalculate_project_staffing` |
| `LoadForReview`, `Review`, then `CountAccepted`, `SaveStaffing` | `review_application` (API and page) |
| `LoadForUpdate`, `UpdateProject` | PUT/PATCH: a full save of the copy |
| `LoadForEdit`, `EditProject` | edit page: `update_fields` with the team size |
| `LoadForImport`, `ImportRow` | `upsert_from_payload` of a known row |
| `LoadForDelete`, `DeleteProject` | API and page; cascades to applications |
| `LoadForApply`, `Apply` | API and pages; the pages' guard (published, free seat) is a special case of the API's (in the catalog) |
| `LoadForWithdraw`, `LoadForRemove`, `DeleteApplication` | page; API |
| `LoadForRewrite`, `RewriteApplication` | PUT/PATCH, which may name another project |
| `PublishSelected`, `ArchiveSelected` | admin bulk actions |
| `HandlerDies` | a worker is killed, or a statement fails |

What a request carries (decision, team size, student) is chosen at the saving
step, which is the same as choosing it on arrival. A refused project is to be revised or
rejected by its source, which any form may have changed: either may happen. History variables (`cleared`,
`reviewed`, `pastCounts`, `drifted`, `overlapped`) only record. The application
window's dates, comments, roles, tags and the admin's change form (where staff may
set any field) are not modelled.

### Runs

* `staffing_safety` - two threads, an initiative and an imported project, two
  applications, two students, team sizes 0 to 2 (the API's serializer takes a zero), up to
  six requests of every kind.
  Under full interleaving with stale saves: `CatalogIsCleared`,
  `DecisionsAreReviewed`, `ShownCountWasTrue`. As long as requests did not overlap:
  `SettledBetweenRequests`; it excepts projects whose seats changed with no recount
  (deleting or moving an accepted application, PUT of the team size, admin publish, the
  approval of an initiative with no places, import, a handler that died before its
  recount) until the next recount. Six
  requests allow create, apply, accept, delete, apply, accept, and every pair of
  handlers on rows in every reachable state.

### Proofs (TLAPS)

`ProjectStaffingProofs` proves `IInv` inductive for any number of projects,
applications, threads and requests, and from it `StaffingTypeCorrect`,
`AlwaysCleared`, `AlwaysReviewed` and `ShownCountAlwaysWasTrue`. The properties of
rows are not inductive, since a stale save writes a copy: `CopyOK` claims the same of
every copy a handler holds, and it stays true because `cleared`, `reviewed` and
`pastCounts` only grow. `OneProjectWritten`, `OneApplicationWritten` and
`OneHandlerMoves` carry the argument; one lemma per action applies them. The only
assumption used of the data is that there are finitely many applications.

`AlwaysSettledBetweenRequests` needs what is true while requests do not overlap
(`SequentialInv`): then the copy a handler holds is the row itself (`Current`), the row
it will write is the recount of it, and every project that is not `drifted` is settled
unless the one handler under way is about to recount it. `HandlerIsAlone` says that a step
which overlaps with nothing finds all others idle. The proof does not assume that a
project has a seat: trying to prove it for a team size of zero, which the API accepts,
showed that `_build_project_from_submission` publishes such a project without a recount
(`initiative_transitions.py:103`) although `transitions.py:140` would call it staffed; the
model marks it `drifted`.

## 5. Initiative proposals

### Module

`InitiativeProposal` has one proposal row (nothing relates two), its submissions by
number, the projects made of it, and a handler with a copy per server thread.

| Actions | Code |
|---|---|
| `Create` | POST: a draft |
| `LoadForEdit`, `SaveEdit` | PUT/PATCH: `_ensure_initiative_proposal_editable`, then a plain `save()` of the copy |
| `LoadForDelete`, `DeleteProposal` | DELETE, with the same check; cascades to submissions |
| `LoadForSubmit`, `Submit` | `submit_initiative_proposal_for_moderation`: check of the copy; the transaction on the locked row |
| `LoadForModeration`, `Moderate` | `moderate_initiative_proposal`: check of the copy; the transaction (`Settles`, then `Approve` or `Reject`) |
| `DeleteProject` | deletion of a catalog project, which sets the references to null |
| `ChangeSource` | PUT of a catalog project by staff, with another source or reference |
| `HandlerDies` | a worker is killed; transactions are all or nothing |

An approval writes `initiative-proposal:<pk>` to the project's `source_ref`, and
`source_type` and `source_ref` are unique together (`projects/models.py:676`): while a live
project bears the reference (`~Unborne`), a second approval is an IntegrityError that rolls
its transaction back, and the submission can only be rejected. A project is made of the
submission's snapshot, but a team size of 0 there is taken for none and gives way to the
proposal's (`PlacesOf`, `initiative_transitions.py:103`).

A content is a text and a number of places; comments, reviewers and times are left out. A transaction
is one action: PostgreSQL locks the row and rereads it, SQLite has one writer.
`LocksOuterJoins` says whether the database accepts the lock of the moderation query. Not
modelled: staff's PUT that gives the reference to a project again, and a customer who takes
it for a project of his beforehand (approvals then fail like `HandlerDies`).

### Runs

* `initiative_safety` - three threads, nine requests, three numbers, two projects, two
  texts, 0 or 1 places. Three threads are enough for a stale PUT and a stale submit to meet
  a decision; with nine requests a deletion and a re-insertion fit in between.
  `WaitingHasPending` excepts a row that a PUT inserted again after a DELETE.
  `PublishedAsSubmitted`: the text is the submission's, and the places, unless 0.
  `OneLiveProject`: a PUT loaded before an approval takes the link to the project back, so
  a second submission (loaded before the approval, too) that is pending gets as far as its
  own approval; still, two live projects never bear the reference, and every live project
  is what one approved submission became, and no other's.
* `initiative_postgres` (violation) - `ModerationDecides`: PostgreSQL does not allow
  FOR UPDATE on the nullable side of an outer join, which is what
  `select_for_update().select_related("published_project")` asks for; production
  settings allow PostgreSQL only, and the tests run on SQLite. The refusal is a
  fact about the database, taken as the value FALSE of `LocksOuterJoins`.

### Proofs (TLAPS)

`InitiativeProposalProofs`: `ProposalTypeCorrect` (with `HasContent`, since a project
is made of a snapshot), `DecisionsAlwaysStand` and `WaitingAlwaysHasPending`. For the
last, `NumbersRun` is the strengthening: as long as the row was never deleted, the
taken numbers are 1 to some k, and the row's number and every number a PUT holds is
one of them or 0; a free next number is then necessarily the latest. Nothing is
assumed of the numbers of threads, submissions and projects.

`AlwaysPublishedAsSubmitted` and `AlwaysOneLiveProject` share `PublicationInv`: a project's
key is drawn once, so what it was made with stays; an approval finds no live project that
bears the reference, so it adds the only one; and its submission alone names the new
project. Stale copies need no exception.

## 6. Registration

### Modules

`EmailVerification` has the accounts, the codes and a clock in ticks (a tick is about a
minute); `ExternalAccess` the allowlist and the access requests; `Registration` joins
them in the sign-up form.

| Actions | Code |
|---|---|
| `PostRegister` (`StartRegistration`, `NeedsModeration`), `SaveRequest` | POST of the register tab: the existence check, or a request for access |
| `CreateUser` | its transaction: inactive user, profile, code, mail |
| `ResendSignupCode`, `OpenIssue`, `CommitIssue` | the cooldown's query; the UPDATE and the INSERT of `create_signup_verification` |
| `WrongCode`, `RightCode` | `verify_signup_code` on the locked newest code of the address |
| `CleanupCodes`, `CollectStaleUsers`, `DeleteStaleUsers` | `cleanup_email_verifications`: the SELECT and the DELETE of `QuerySet.delete()` |
| `GiveUp` | the mail is refused, the username is taken, the process dies |
| `OpenApproval`, `ApproveEntry`, `MarkApproved`; `Reject`; `BulkAdd`; `OpenToggle`, `Toggle`; `Abandon` | the CPPRP pages, one action per commit |

Texts of mails, hashes of codes, names and comments are left out.

### Run

`registration_safety` - two request threads, a moderator, one external address, three
accounts and codes, three clock values, lifetime and cooldown of one tick, one attempt.
Two threads give every race of two registrations, two resends, a resend and a
verification; a corporate address takes the same path without the moderator, so one
address of the wider kind is enough. It checks that the wrong guesses compared for an
account stay within attempts x (1 + threads x elapsed cooldowns) (`GuessesBounded`), that
the clean-up never deletes the row a running cooldown is computed from
(`CooldownRemembered`), that overlapping resends leave no more codes, and overlapping
registrations no more accounts, than threads (`PendingCodesBounded`,
`AccountsPerEmailBounded`), that an approved request is never without an allowlist entry
and no external account exists for an address CPPRP never let in (`ApprovedIsListed`,
`ExternalWasCleared`), and that the clean-up keeps every user that was confirmed before
its SELECT (`ConfirmedUsersStay`).

What the bounds say is also what the code does not do: the cooldown is read outside the
transaction that issues the code, so as many codes as threads can be sent at once, and a
user that confirms between the SELECT and the DELETE is deleted.

### Proofs

`RegistrationProofs` proves, for any addresses, threads, moderators and bounds,
`TypeOK`, `ApprovedIsListed`, `ExternalWasCleared`, `AccountsPerEmailBounded`,
`CooldownRemembered` and the action property `ConfirmedUsersStay`, from the named
assumptions on the constants: finitely many threads (`HandlersAssumption`), external
addresses are addresses, and a cooldown that is positive and no longer than the codes
live (`TimesAssumption`; the settings are one and fifteen minutes).
None of them is inductive alone. `IInv` adds, in two halves:

- the desk (`AccessInv`): a moderator between the two commits of an approval has listed
  the address (`MarkedIsListed`), entries are never removed, and an address that is
  listed was let in (`ListedWasCleared`);
- accounts and codes (`VerifyInv`): what a thread remembers still holds
  (`HandlersRemember`: an address it registers was let in, the codes it saw are its
  user's); a pending code has a live owner (`CodesHaveOwners`); the accounts of an address
  and the registrations on the way to one have a thread each (`SeatsKept`: a thread only
  starts while the address is free, and hands its seat to the account it creates); the
  last code of a pending account is pending, or was deleted after it expired
  (`LastCodeStands`), and no code is newer than the last one issued (`SentInThePast`).

The steps that issue no code share one lemma (`RowsMove`), the two that do another
(`IssueKeeps`), the threads' moves a third (`ThreadKeeps`). `CooldownRemembered` then
follows because a last code that was deleted had expired, so the cooldown was over.

The two limits rest on `LimitInv`. The rows do not say which thread issued which code, so
`ThreadsTakeTurns` says that some assignment of threads to codes explains them: two codes
of an account with the same thread are a cooldown apart and not both pending, and a thread
that renews has let the cooldown of its own last code pass and sees it if it is pending.
Hence an account has no two pending codes of one thread (`PendingCodesAreBounded`), and
codes of one thread fall into different periods of the cooldown since the account joined
(`GuessesAreBounded`: codes map one to one into threads x periods, but for the first one,
and `GuessesCounted` says that the guesses are the sum of the codes' attempts).

## 7. The graph

### Modules

* `GraphStore` - the Cypher of `graph_store.py` as functions from a graph and an event to
  a graph: `MERGE`, `DELETE` of owned edges, `DETACH DELETE`. `Claims` and `Owned` are the
  reference: the edges an event speaks of and those its aggregate owns.
* `GraphConsumer` - the feed as the service reads it, one page at a time: `Poll` from the
  checkpoint, `Replay` from any event, each with one batch of any length (`FetchEvents`;
  the caller names `batch_size` and the code does not loop), `ProjectEvent`, `FinishMatch`
  (the second transaction of a match), `AckEvent`, `GraphDies`. `shown` (history) says up to
  where the events stand in their order: a page that ends before the feed does leaves all
  that follow it to be read again, whether the batch was short or the service died.
* `GraphMirror` - projects, applications and profiles of the web service. A handler
  commits its row and emits the event in a later transaction, from its own copy;
  `WorkerDies` falls in between, and `EditPage`, `DeletePage`, `WithdrawPage` and
  `ProfilePage` emit nothing, as only API views call `emit_event`. `deadline.changed` is
  emitted too, but no consumer handles it.

Texts of nodes and the counters of `/summary` are left out. Events come in the order of
their commits: what late commits do is the subject of `OutboxConsumer`. A page that a
`/sync` fetched before another request moved the checkpoint starts, to the graph, like a
`Replay`.

### Run

`graph_safety` - a project, an application and a user whose profile has another primary
key than the account, two threads, three events, pages of every length, one replay, one
death. `GraphShowsLastEvents`: whenever nothing is left to be read (`CaughtUp`), the edges
each aggregate owns are those its last event claims, except at nodes removed later. For a
service that only polls, nothing is left when the checkpoint is at the end of the feed;
after a replay the events it went back over, or left out, have to be read once more.
Three events allow create, delete and an event that arrives after the deletion, in every
order of emission; the replay and the death repeat any part. The graph's types are checked
by `faculty_safety`, which contains the same consumer.

The property says what it takes after a replay because the code does not provide it: a `/replay`
with a batch shorter than what follows puts old events over newer ones, its ack is answered
`already_acked`, and the poller, whose checkpoint is at the end, never reads the rest again
(`ReplaysAreIdempotent`, section 11).

### Proofs (TLAPS)

The first two parts of `FacultySyncProofs` are about `GraphStore` and `GraphConsumer`
alone. `AnyFeedIsShown`: beside any producer of well-formed events (`FeedSpec`), for a feed
and pages of any length and any number of replays and deaths, `GraphShowsLastEvents` and
`OneFacultyEdge` hold. Well formed (`IsFeed`) means an event of a known kind with an id,
and a course that stays with its teacher. `FacultySync` and `GraphMirror` are such
producers: for the one `FeedOfEvents` proves it, for the other `SiteIsAProducer` proves that
`GraphMirror`'s specification implements `FeedSpec` (`SiteInv`: what a thread has loaded or
is about to emit is a row or an event of the site), from the assumptions that keys are not
blank and profiles have numbers. `SiteIsShown` follows: `GraphShowsLastEvents` holds of
`GraphMirror` for any number of threads, rows, events, replays and deaths.

The projection: an edge belongs to one aggregate, which its relation and one of its ends
tell (`Owner`), and to project an event keeps the edges of other aggregates, but those at
nodes it removes, and leaves its own aggregate exactly its claims (`ProjectKeepsAndAdds`,
`AttachAdds`, one lemma per kind).

The consumer: `GraphInv` says where every event stands, from `shown`. The last event about
an aggregate that is settled (up to `shown`) or in the page `Shows`: the aggregate has no
edge but its claims, those that no later event takes are there, and those that a later
projected event takes are not (`AppliedAfter`). The last half is why `shown` must be
remembered: after a replay that ended early, an old event stands over later ones until the
rest has been read again. `PageInv` relates the page to `shown`: a page that starts after a
hole claims nothing, one that starts within makes its own end the new place. Between its
two transactions a confirmed match has no edge (`HalfInv`).

## 8. Faculty

### Module

`FacultySync` (extends `GraphConsumer`) - the remote service (`source`), the supervisors of
projects, the mirror and the running command. `SyncPerson` is the transaction of one
person with its publications and courses; `EmitScheduled` its `on_commit` callbacks, which
drop a key that is in the outbox already; `MatchProject` saves a match, whose event is
emitted afterwards; `SyncFails` and `SyncDies` end the command before and after a commit;
`Environment` is the service and the projects changing. One command runs at a time.

The idempotency key is the hash of the content, so a person, publication or course that
returns to an earlier content is not announced again, and a publication whose authors get
their persons later is linked without an event. `missed` names exactly these aggregates.

### Run

`faculty_safety` - two persons, a publication of both or one of them, a course, a project
whose supervisor is known by mail or by unit, one change, eight events, one death.
`MirrorIsAnnounced`: what the mirror holds was announced last, but for `missed`.
`OneFacultyEdge`: whatever died between the two transactions of a match, a project has at
most one confirmed supervisor in the graph. `MirrorConverges` (liveness): if the service
stops changing, the mirror gets its profiles and every author with a person is linked, in
whatever order persons are read. Two persons give both orders of an author and its
publication. The events are enough for two whole runs of the command.

Fairness: the command is re-run and takes its steps, since
`docs/architecture/connector-boundary.md` makes it (or an equivalent job) what keeps the
mirror in step, and the poller polls. No fault and no change is obliged to happen.

### Proofs (TLAPS)

The third part of `FacultySyncProofs` proves `MirrorInv` inductive, and from it
`FacultyTypeCorrect`, `AlwaysAnnounced`, `AlwaysOneFacultyEdge` and `MirrorIsShown`, for any
persons, publications, projects and bounds. What the mirror holds is a set of events
(`Holds`), at most one about each aggregate (`OneEventEach`). Each is told: scheduled,
announced last, or in `missed`. The strengthening is that a scheduled event says what the
mirror still holds, unless the project was deleted meanwhile (`Scheduled`): then an event
that is appended late announces no older content, and an event that is dropped because its
key is known has an aggregate that was announced (`KeyTellsAggregate`).

Assumed of the constants (`KeysAssumption`): keys and rows are not null, and two persons
share no course, since `normalization.py:31` hashes the person's key into the course's.
Without that a course could change its teacher, whom `EventsOf` would not announce.
`MirrorConverges` is liveness and stays with TLC.

Not modelled: `--limit`, `--person-id`, the stale flag, sync counters and texts.

## 9. Import and technologies

### Modules

`Technologies` - the directory, projects with their tags and their source, the links between
them. A save writes the row, then names one technology after the other, then sets the links,
in separate statements; moderators read a pending name and write its status later. Names
become approved when the copy that is saved has the source `epp` (`models.py:744`), and
`source_type` is a field that API customers may write (`serializers.py:69`): `Create` and
`SaveForm` (PUT, PATCH) carry any source, `SavePage` (the edit page) writes the tags and
leaves the source, `SaveStatus` (a transition) writes neither. `chosen` (history) is what a
moderator approved, the spreadsheet named, or a form named for a project of that source.
Not modelled: staff who give an imported project another source, edit a `source_ref` by
hand or delete an imported project.

`EppImport` (extends it) - a row's transaction: `BeginRow` locks the EPP and the project,
`TagRow` a technology in the order of the cells, `CommitRow` ends it; `RowIsRefused`,
`StatusIsRefused` and `Deadlock` roll it back. The callers: the bootstrap with its state
file (`BootstrapIsRefused`, `BootstrapIsSkipped`, `BootstrapReads`, `BootstrapEnds`), the
command, and uploads with their import run and its event; `ImportDies` is a process killed
anywhere. A number of places is converted as `parse_int` does, cutting towards zero.

### Run

`import_safety` - one container, one upload, five files (two sheets that name the same
technologies in opposite orders, one with refused rows, a missing and a damaged one), two
threads that save, one decision of a moderator, two starts, one death. The two
sheets shift a row and share an EPP: an EPP lock, a deadlock and a new project from a
moved row all occur.

`RowsAreWhole`: no EPP, project or technology of a row without the others, whatever was
refused, aborted or killed. `StatsAddUp`: what an import counts is what it did.
`CleanImportsAreComplete`: a file read without an error is in the database. `DirectoryHolds`:
no technology is approved that is not in `chosen`, and the links of a project whose last
save ran alone are its tags.

Two threads save a project up to three times, so that a copy of one source meets a row that
another request gave the other source: a form approves no name for a project without that
source, and a transition, which names the tags of its stale copy, approves none beyond those
a form named for that source. `SavesOrImports` bounds the product: beside imports there is
one save or one decision of the moderator, more of them only without an import. A rejection
that a later save overrides needs no import, and the proofs have no such bound.

What the model also shows, without a property: a bootstrap killed half-way leaves its rows
and the state `in_progress`, and the next start finds a database that is not empty, skips
the import and serves; a damaged file leaves `in_progress` as well; a save of an EPP project
approves a technology that a moderator has rejected; a row that moves in the sheet makes a
second project, since its number is part of `build_source_ref`; the victim of a deadlock is
counted as an error though its file is right.

### Proofs (TLAPS)

`EppImportProofs`, for any files, containers, uploads, savers and technologies. Assumed:
projects and technologies are rows of two tables, containers and uploads are different
importers, and a sheet is a sequence of rows whose tags are technologies and whose places
are numbers in halves (`TagsAssumption`, `FilesAssumption`, `ImportBoundsAssumption`).

`ImportInv` is inductive (`ImportInvariant`). Of the directory: a saver has a row that
exists, a name linked to a project of the spreadsheet is decided, a settled project is
linked to its tags and nobody is about to relate it, and a saver that runs alone has the
only copy of its row while no import holds it (`AloneIsAlone`): without that another save
could join the one that is about to settle the project. Of the importers: an open row is a
complete row of its sheet, whose names are still to come, held, or decided (`OpenRows`);
two open rows are of different EPPs, hence of different projects, and hold different names
(`Apart`); and `locked` is what they hold (`LockedIsHeld`). Without `Apart` a commit could
release what another transaction holds. `ImportTypeCorrect` and `DirectoryAlwaysHolds`
follow.

Why nothing is approved that was not chosen: `SourcesAreChosen`. A row or a copy with the
source `epp` has tags that were chosen, what a saver has still to name is among the tags of
its copy, and projects of the spreadsheet keep their source.

The other three need more than a state of locks. `StepHasShape` says what a step does to
rows and counters: it passes a row, begins one, reports, loses an import, or none of these.
On it rest `RowsAreTogether` (an EPP is there exactly with one of its projects) and
`CleanSoFar` (an import without an error has committed every complete row it is past), for
`RowsAreAlwaysWhole` and `CleanImportsAreAlwaysComplete`; and `CountInv` for
`StatsAlwaysAddUp`: the created projects are counted as pairs of an importer and a number,
which are disjoint between importers, so that a commit adds a pair and a project, and a
report moves an importer's pairs to `created`. Two imports that both believe a project to
be new are kept apart by the lock of its EPP.

## 10. What users are shown

### Modules

* `Profiles` - the profile row with the interests and the favourites, and its handlers:
  `Load` a copy, `Save` the whole row (PATCH) or some fields, `Relate` the technologies of
  the copy's interests in a later transaction (which a bookmark does too, over interests
  saved meanwhile).
* `Notices` - deadlines and templates, which have the same columns and handlers:
  `CreateNotice`, `LoadNotice`, `Switch`, `DeleteNotice`; who is shown them.
* `Catalog` - which projects each list, page, number and file shows whom; search and
  recommendations (`Ask`, `RemoteAnswers`, `RemoteFails`, `GatewayRaises`), with rows that
  are loaded before the ml service is asked; the cache of the project page, which is
  local memory and so one per gunicorn worker (`PageHit`, `PageMiss`, `WorkerDies`).

The ml service may name any projects. A second router (`base/v2/projects`) lists every
row; bookmarks and overviews show rows of any status, while the API's favourites keep to
the catalogue; the project page's catalogue is the published projects, the API's has the
staffed ones too. All of these are modelled as they are. `project_alt_view` and
`project_mixin_view` have no route and are left out.

### Run

`catalog_safety` - a student, a customer who owns both projects, a staff moderator and a
visitor; two workers, two projects, two notices with one slug; two requests, one change of
a status or death of a worker, four clock values, cache and call of one tick. Two requests
meet in every way two handlers of one row can; three ticks outlast cache and call.
`ShownWasPublic`: a project is shown by search or recommendations only if it was in the
catalogue one call ago, on the page one call and one cache life ago. `RequestsAreKept`: a
field of a profile is what its requests asked for unless two wrote it at once, and a
deleted notice stays deleted. `SurfacesAgree`: filters in SQL select the rows that say of
themselves in Python what is asked, on the first and last day too; what a list shows, its
page opens; a number counts what the list beside it shows. Exceptions it states: a
window whose end is before its start is "upcoming" and "closed" at once for the filters;
a moderator who is not staff cannot open the page of a project in the queue; bookmarks
may name projects that left the catalogue.

### Proofs (TLAPS)

`CatalogProofs`, for any users, projects, workers, notices, durations and bounds. Assumed:
the table of projects is finite, users and notices are rows of different tables, statuses,
roles and inputs are of their types. `CatalogInv` has four parts, each inductive with the
first:

* `TypeInv` (`CatalogTypeCorrect`): the types of everything, the history and the cache
  included; a call for the page is by a student with interests.
* `PublicInv` (`ShownAlwaysWasPublic`): a call under way began at most `RemoteTicks` ago
  with rows that were in the catalogue then; a cached entry names projects that were in it
  when its call began, at most `RemoteTicks` before the entry was stored and so
  `CacheTTL + RemoteTicks` before it expires. What is shown says nothing of either.
* `NoticeInv`: a button that was pressed was loaded from a row that is there and still is as
  the copy says, unless two presses of the notice overlapped.
* `ProfileInv`: the copy in flight is what its change makes of the row as it is now, in
  every field that no other request writes; rows that wait to be related have the interests
  of the row. With `ChangedFields` (a change acts on each field by that field alone) and
  `SavedFields` (a save writes its own fields alone) this gives `RequestsAreAlwaysKept`.

`SurfacesAlwaysAgree` needs no more than types: windows are compared by arithmetic,
published and staffed projects are disjoint parts of a finite table.

## 11. Disagreements that need no run of their own

TLC refutes these definitions of the modules on the instances named here; each states
what a line of the repository says, and each is kept beside the properties that do hold
in its place.

| Definition | Instance | What happens | Said in |
|---|---|---|---|
| `IndexConverges` (`OutboxConsumer`) | poller and one `/sync`, three ids, pages of two, no fault | a page fetched early is applied after a later one was applied and acknowledged | `docs/architecture/adr/ADR-001.md:69`, eventual consistency |
| `AcceptedCountIsCurrent` (`ProjectStaffing`) | one project, two applications, two threads, five requests | two overlapping reviews leave the count of neither moment | help text, `src/web/apps/projects/models.py:329` |
| `DecisionIsFinal` (`ProjectStaffing`) | one application, two threads, four requests | two reviews that loaded the submitted application | "Only submitted applications can be reviewed.", `src/web/apps/applications/transitions.py:27` |
| `NumberIsSequential` (`InitiativeProposal`) | two threads, five requests, two numbers | a stale PUT takes the submission number back; every later submit fails the constraint | `src/web/apps/projects/initiative_models.py:101` |
| `LoginNeverFails` (`Registration`) | the instance of section 6 | two overlapping registrations of one address; the login form's `get()` raises | `src/web/apps/frontend/views/auth.py:263` |
| `ReplaysAreIdempotent` (`GraphConsumer`) | one thread, two events on a project, one replay | a replay of the first event alone is applied over the second, with the checkpoint at the end | `docs/architecture/contracts/outbox_delivery_contract.json:36`, "projector applies events idempotently"; `docs/03 NFR.md:32` |
| `DeletedProjectsLeave` (`GraphMirror`) | two threads, two events | the tombstone is emitted before another request's project.changed, which merges the node again | `src/graph/tests/integration/test_projector.py:649` |
| `GraphConverges` (`FacultySync`) | two persons, one publication, no fault | authors linked without an event never reach the graph | `docs/architecture/adr/ADR-001.md:69` |

## 12. Not modelled

* The ranking of `src/ml`: scores over text, with no state and no property but its formula.
* Tokens, the SSO header, service principals: checks of one request without state.
* Metrics, deployment scripts, migrations, templates and scripts of the pages.
* The admin's change forms, where staff may set any field of any row; staff's PUT or DELETE
  of an imported project beside the import.
* Texts, comments, dates other than the application window, ordering and paging of lists,
  and filters that only narrow a list.
* The reindex request beyond its event: its key is the user and the reason, so a repeat
  is dropped, as `EmitEvent` drops every known key.

## 13. How to run

    tlc -workers 2 -config OutboxSafety.cfg MCOutboxConsumer.tla
    tlc -workers 2 -config OutboxLiveness.cfg MCOutboxConsumer.tla
    tlc -workers 2 -config OutboxCommitOrder.cfg MCOutboxConsumer.tla
    tlc -workers 2 -config SnapshotSafety.cfg MCSnapshot.tla
    tlc -workers 2 -config StaffingSafety.cfg MCProjectStaffing.tla
    tlc -workers 2 -config InitiativeSafety.cfg MCInitiativeProposal.tla
    tlc -workers 2 -config InitiativePostgres.cfg MCInitiativeProposal.tla
    tlc -workers 2 -config RegistrationSafety.cfg MCRegistration.tla
    tlc -workers 2 -config GraphSafety.cfg MCGraphMirror.tla
    tlc -workers 2 -config FacultySafety.cfg MCFacultySync.tla
    tlc -workers 2 -config ImportSafety.cfg MCEppImport.tla
    tlc -workers 2 -config CatalogSafety.cfg MCCatalog.tla
    tlapm OutboxProofs.tla
    tlapm ProjectStaffingProofs.tla
    tlapm InitiativeProposalProofs.tla
    tlapm RegistrationProofs.tla
    tlapm FacultySyncProofs.tla
    tlapm EppImportProofs.tla
    tlapm CatalogProofs.tla

Only model-checked are the liveness properties (`EveryEventIsAcked`,
`IndexSurvivesOneFault`, `MirrorConverges`), since liveness and ENABLED are out of the
prover's reach, and the two violations. A cfg whose system may simply stop (bounds reached, nobody calls) sets
`CHECK_DEADLOCK FALSE`. Definitions commented as mutations are wrong on purpose: each is a
plausible slip in the code that some property must catch.

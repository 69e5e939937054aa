# Handdraw server: TLA+ models and proofs

Handdraw is a drawing service. This directory models the parts of its Go/PostgreSQL
server whose correctness depends on interleavings, failures and ordering, checks them
with TLC on small instances, and proves the results that matter most with TLAPS for every
value of the constants. Paths below are relative to the repository.

## The system

| component | where | state it keeps | operations |
|---|---|---|---|
| cloud collaboration | `internal/collaboration`, `app/collaboration` | rooms in memory, sockets, one pinned database session; the `board_documents` row | connect, authenticate, hello/join, Step1, update, checkpoint, presence, leave, close |
| local sharing relay | `app/local_sharing` | sessions, grants, sockets and snapshots in memory, nothing durable | create, join, renew, revoke, attach, reauthenticate, publish, activity, presence, detach, sweep, close |
| membership and invitations | `app/membership`, migration 9 | members, invitations, board grants, access revision | invite, accept, revoke, change role, remove |
| assets and storage usage | `app/asset_management`, `internal/asset`, migrations 3, 11 | asset rows, objects, used and reserved bytes per workspace | reserve, complete, expire, clean up |
| transfers | `app/transfer`, migration 12 | import/export jobs with leases | enqueue, lease, prepare, complete, fail |
| billing | `app/billing`, `internal/billing`, migrations 13-16 | change intents, contracts, subscriptions, webhook inbox, retention episodes | quote, confirm, lease, provider event, apply, maintenance/purge |
| boards, projects, idempotency | `app/board_management`, `internal/board`, `internal/idempotency`, `internal/job`, migrations 5, 8 | boards, projects, idempotency records, deletion jobs | create once, compare-and-swap metadata, delete, clean up |
| discussion | `app/discussion`, `internal/comment`, migration 10 | threads and comments | create, reply, resolve, delete |
| access policy | `app/access`, migration 6 | none (a decision over rows) | require |
| workspaces, onboarding | `app/workspace_management`, `app/onboarding` | workspaces | create, rename, delete |
| identity, document codec, `pkg`, wiring | `internal/identity`, `internal/document`, `pkg`, `cmd` | profiles; none | verify token; decode, merge and validate a document |

How they interact. Every HTTP request and every collaboration frame is authenticated
(identity), mapped to a profile, and run in one PostgreSQL transaction under row-level
security (`pkg/rlstx`). Membership, billing, board deletion, assets and content changes all
lock the workspace row first, so they exclude each other per workspace. Collaboration alone
keeps document state in memory between transactions; it does so behind one advisory lock
that only one process of the deployment can hold. Background jobs (cleanup, transfers,
billing, webhooks) lease rows and must survive their own crash. The local sharing relay
shares nothing with the rest but authentication.

What is hard in it: goroutines that check and act in separate steps; permissions that change
between a check and a write; a commit whose response is lost; a second runtime after the
authority connection died; rooms that are created, aborted and removed while sockets join;
sessions ended by a timer, a token, a host and a socket error at once; leases that outlive
their worker; counters kept incrementally over many transactions; provider events delivered
twice and out of order. `PROJECT.json` lists each of these hazards at its line.

What makes each component correct:

* cloud collaboration: what a client was told is saved is never lost; a room shows committed
  content only, to users who could read it when it was committed; there is one room per board; every
  commit is authorized when it happens; connected synchronized clients converge.
* local sharing relay: a session lives exactly as long as its host is attached and its
  deadlines have not passed; ending one never blocks the relay; viewers end up with the
  newest snapshot; the byte budget counts exactly what is retained.
* membership: members and pending invitations never exceed the seats; a revoked invitation is
  not accepted afterwards; the access revision moves with every change of access but those by
  the clock and by a board's own status.
* storage: used and reserved bytes are the sums over assets and open imports in every
  transaction's result; an object is deleted only when no row needs it.
* transfers: one outcome per job; a worker past its lease changes nothing; a retried import
  does not reserve twice.
* billing: an older provider event never replaces a newer one; a quote is applied to the
  state it was computed from or not at all; a purge and a renewal exclude each other.
* boards and idempotency: a key creates at most one resource, whatever is retried; metadata
  changes are not lost; a board is gone exactly when its cleanup job has succeeded.
* discussion: comments exist only under live threads of readable boards.
* access policy, identity, codec: decisions and conversions that are functions of their input.

## Modules

| module | what it is |
|---|---|
| `DurableBoard` | the abstract board: one durable row that only grows, one revision per commit, clients that are told only durable things |
| `CollabServer` | the collaboration server on one board; implements `DurableBoard` |
| `LocalRelay` | the local sharing relay and the sockets of its server |
| `Access` | the access policy, as written in Go and as written in SQL, over the same rows |
| `Membership` | members, invitations and guests of one workspace; uses `Access` |
| `Storage` | assets, quota, object store, transfer jobs, their workers, cleanup and purge |
| `Billing` | intents, the payment provider, the billing worker, grace, maintenance, retention |
| `Content` | workspaces, projects, boards, idempotency keys, deletion jobs, listing; uses `Access` |
| `Discussion` | threads and comments on the boards of `Content`; composed with it |
| `Process` | one process from configuration to exit, its workers and sockets, and signing in |
| `MC...` | instances of a module for TLC: constants, symmetry, constraints |
| `...Proofs` | the theorems about a module |
| `Sums` | lemmas about sums over finite sets, for the counters of the relay and of storage |

### CollabServer

One socket per peer. `pc[p]` is where its reader goroutine is, and both mutexes are read off
it: `RoomLocked(r)` says somebody is inside `room.mu`, `AuthorityBusy` that somebody is in a
database transaction under `Authority.mu`. Mutual exclusion is therefore a property
(`OneSerialRoom`) and not an assumption. A document is the set of changes merged into it and
its revision, which is all that a CRDT merge and a compare-and-swap on the revision can tell
apart; a frame carries a nonempty set of changes.

| code | model |
|---|---|
| `serve`: limits, deferred `leave` | `Connect`, `Disconnect`, `Leave` |
| `authenticate`, `client-hello`, `join` | `Authenticate`, `Hello` (load without a lock), `JoinNew/JoinExisting/JoinStale/JoinRefused`, `Ready` |
| `handle` + `check` before `room.mu` | `Request`; the work is a later step of its own |
| Step1, `save-checkpoint` | `AnswerStep1`, `AnswerCheckpoint` |
| `sync` of an update, `Service.Apply` | `ReadTransaction`, `LockTransaction`, `CommitTransaction` or `CommitFails` (rolled back, or committed with the response lost), `Notice`, `CheckRecipient`, `SendUpdate`, `Acknowledge` |
| `room.abort`, `peer.fail`, `peer.stop` | `AbortAndFail`, `Fail`, the variable `stopped` (closed `done`) |
| `maintain` | `RevokeSession`, `ExpireSession` |
| `Server.Close` | `Close` (then `CloseDrains`) |
| policy, billing, membership changes | `ChangePermission`, excluded while a content transaction holds the workspace row |
| the advisory lock | `LoseAuthority`, `ForeignCommit` by another runtime, `Restart` |

A restart is a crash at any step, or the start after a Close: rooms and sockets vanish, the
row stays. A peer that is stopped still runs its handler to the next read or write, as the
goroutine does. Every socket write may fail, and every transaction may fail at every step.
`acked`, `known`, `synced` and `visible` are history variables: what a client was told is
saved, what its session has seen, whether it had a full answer, and the newest content its
user was allowed to read. So is `missed` of a room: the changes that passed a peer by because
their sender's activity notice failed.

`Server.mu` is not a variable: the server's critical sections are single actions. A socket
that waits for a room while it holds `Server.mu` delays `Connect`, `Close` and other joins,
which the model lets run earlier; it holds no room meanwhile and the holder of a room never
asks for `Server.mu`, so no cycle of waiting is lost.

### LocalRelay

The relay is a monitor: each method runs under `r.mu`, so each is one action on the record
`relay` (sessions `rooms`, attached sockets `peers`, the byte counter, and the channels
`slot` and `ended` of each socket, which the writers read without the mutex). `Broadcast`,
`End`, `DetachAll` and `Sweep` are operators from one state of the monitor to another, named
after the private methods of `relay.go`; every entry point sweeps first, as the code does,
except `Detach` and `Close`. Deadlines are numbers of ticks left; `Tick` moves them all, at
any time, also between the ticks of the sweeper.

| code | model |
|---|---|
| `create`, `join`, `renew`, `revoke` | `Create`, `Join`, `Renew`, `Revoke` |
| `socket` up to the writer's start | `Connect`, `Attach` or `Reject`, `Admit` |
| the reader's loop | `Reauthenticate`, `Publish`, `Activity`, `Presence`; `Refuse` is any frame that is invalid or answered with an error; `ReadFails`, `ReadTimesOut` |
| the deferred functions | `Detach`, then `HangUp` (closes `done` and the connection), then `Finish` once the writer has returned |
| the writer's `select` | `TakeEvent`, `WriteEvent`, `TellReason`, `WriterDone` |
| the sweeper of `New`, `Server.Close` | `SweepTick`; `CloseServer`, `CloseRelay`, `CloseConns` |

A token is represented by its grant: issuing a new one invalidates the previous, and a stale
token is a `Reject` or a `Refuse`. A refused request changes what its sweep changes, which
is a `SweepTick`. Snapshots are sizes and revisions; `shown` is a history variable, the
revision the client holds. A write may fail on an open connection (the 3 second deadline of
a slow client), which is a `lost` connection for the model.

### Access and Membership

`Access` has no state. `EntitlementEditable`, `CanReadWorkspace`, `CanWriteWorkspace`,
`BoardContentReadable` are the SQL guards of migrations 6 and 9; `Load`, `Resolve` and
`Allowed` are the statement, the decision and the action table of `app/access`. Both read one
record of rows, so the two policies can be compared (`PoliciesAgree`).

A request of `Membership` is two steps: `Ask...` is the service's unlocked check, and the
second step is the SQL function under the lock of the workspace row, which repeats the checks
on what it then finds. `Refused` is every exception of that function, which rolls back.

| code | model |
|---|---|
| `change_member` | `AskChange`, `ChangeMember` |
| `create_invitation` | `AskInvite`, `Invite` |
| `accept_invitation` | `AskAccept`, `Accept` |
| `revoke_invitation`, `remove_board_guest` | `AskRevoke`, `Revoke`, `AskRemoveGuest`, `RemoveGuest` |
| `require_editor_capacity`, the triggers on `access_revision` | `EditorCapacity`, `Touch` |
| billing, board creation and deletion, confirmed addresses, the clock | `SubscriptionPaid`, `SubscriptionLapses`, `Purged`, `BoardChanges`, `EmailChanges`, `InvitationAges` |

`touched` says that the last step raised `access_revision`; `stale` is a history variable, the
invitations that an explicit decision overruled.

### Storage

Every transaction locks the workspace row before it decides, so it is one step. The object
store takes no part in a transaction: `PublishFails`, `CompleteFails` and `CleanFails` roll the
rows back and leave any objects that were written or removed on the way.

| code | model |
|---|---|
| `reserve_asset`, `Upload`, `complete_asset`, `Download` | `Reserve`, `Upload`, `Complete`/`CompleteFails`/`CompleteFailsCommitted`, `Download` |
| `create_transfer` | `EnqueueImport`, `EnqueueExport` |
| `lease_transfer` with its recovery of old leases | `Lease` (`Recovered`) |
| `Service.RunOne`: the prepare transaction, the publish transaction, `fail_transfer` | `Prepare`/`PrepareFails`, `Publish`/`PublishFails`, `Fail`, `WorkerDies` |
| the asset cleanup worker | `Pick`, then `Clean`, `CleanFails` or `CleanSkips` |
| deadlines, leases, backoff, the one-day limit | `Expires`, `LeaseExpires`, `BackoffEnds`, `DayPasses` |
| edits, board deletion, `billing_maintenance` | `Edit`, `DeleteBoard`, `AccessChanges`, `PurgeStarts`, `PurgeStep` |

A lease token is identified by the attempt; a worker remembers the attempt it leased.

### Billing

A request becomes an intent; a worker leases it, observes the provider outside any
transaction and applies the answer in one. Revisions are compared only with what they are
now, so an intent carries whether they moved since its quote. `now` is a clock of ticks; a
version is the provider's modification time.

| code | model |
|---|---|
| `quote`, `confirm`, and both at once | `Request`, `Confirm`, `CheckoutAfterTeam`, `Refresh` |
| subscriptions, orders and refunds at Polar; the fixture | `ProviderStep` (`Pays`, `Renews`, `Charges`, `RenewalFails`, `Stops`, `Flips`, `Refunds`) |
| the webhook inbox | `Webhook`: late, repeated and out of order, it only makes intents due |
| `lease_billing_intent`, `Observe` of each provider, the reads of orders | `Lease`, `ObserveLocal`, `Mutate`, `Retrieve`, `OpenCheckout`, `ReadMoney`, `Abandon`, `LeaseEnds` |
| `apply_billing_observation`, `apply_polar_billing` | `RecordCheckout`, `ApplyOlder`, `ApplyWithoutEffect`, `ApplyCancellation`, `ApplyGrace`, `ApplyOver`, `ApplyEffective`, chosen by `Verdict` |
| `billing_maintenance` | `Maintain`, `Purge` |

### Content and Discussion

A request is an unlocked check (`Ask...`), then one transaction under the workspace lock, or a
`RollBack`: a refusal, a cancellation, a crash before the commit. A changed row is compared
with the revision the client read. `keys` are the idempotency records, whose advisory lock is
held until the transaction ends. `CleanUp` and `CleanUpFails` are runs of the deletion worker.
`ListBoards`, `NextPage`, `ServePage` and `PageFails` are one client's traversal: the page is
read first, and each of its boards again afterwards. `Discussion` extends `Content`: a
step of `Content` takes `Cascade` along (foreign keys), and the discussion functions commit
steps of their own under the same lock. Thread and comment identifiers are random and never used
again, so a deleted one is `Gone`, not `None`; a listing is the set of boards on its page and the
set below its cursor, the board that changed last first.

### Process

`Plan` is what `main.run` acquires for a configuration, in order; `deferred` is what it has
deferred so far. `Acquire`, `OpenFails`, `CheckFails` are its steps; `Listen` to `Drain` is
`fx.Server.Run` of `pkg/fiber` with its two flags; `Tell`, `Release`, `CloseAuthority` run the
deferred functions, last first, and `Exit` ends the process and whatever still runs in it.
Workers tick, run a pass and stop; a connection is a client that asks, probes `readyz` (two
loads of the flags, then the checks), upgrades to a socket, or signs in: verification, the
insert of a candidate profile, the read of the profile that is there, a transaction under it.

## Runs

| run | instance | what it shows |
|---|---|---|
| `collab` | 3 peers, 2 changes, 1 room object; `Stories` | the inductive invariant, durability of what was acknowledged, one room, no content after revocation but a missed change (Observations), commits authorized at the commit, convergence, refinement of `DurableBoard` |
| `collab_liveness` | 2 peers, 1 change, `LiveSpec` | failed rooms drain, Close returns, peers without access leave |
| `relay` | host, viewer, 1 session, 2 sockets, snapshots of 1 and 2 bytes, budget 2 | session and host live together, termination never blocks, viewers converge, the byte counter is exact, nothing expired is revived |
| `relay_live` | host, viewer, 2 sockets, `FairSpec` | idle sessions end, ended sockets leave, Close returns |
| `relay_termination` | 1 socket, 1 session | a disagreement (below) |
| `membership` | owner and one user, 2 addresses, 2 requests, 2 invitations, 2 seats | seats fit, decisions stand, `access_revision` moves with rights (but for clock and board status), both policies agree |
| `storage` | 1 upload, 2 jobs of one file, 2 workers, quota 2, 2 attempts | quota conserved, nothing served without bytes, references resolve, late workers change nothing, a purge stands |
| `billing` | 2 intents, 2 workers, 1 member, both providers, 3 ticks, 3 versions | access is paid for, editing ends on time, requests meet the members that were reviewed and payment opens the workspace, a purge waits |
| `billing_checkout` | 2 intents, 1 worker, Polar, `LiveSpec` | a disagreement (below) |
| `billing_decreases` | 2 intents, 1 worker, 1 member, the fixture | a disagreement (below) |
| `content` | owner and member, 2 boards, 1 project, workspace, key and thread, 2 comments, 2 requests | retries agree, tables agree, a traversal is complete, changes are current |
| `process` | 6 configurations, 2 connections, 1 person | pools outlive their users, one profile per subject, an ending process exits |

### Bounds and why they are enough

`collab` follows three stories, one constraint each: two clients with one change and one
disturbance at a time (changing permissions, a lost authority with foreign commits, or Close)
plus restarts; two clients with two changes and a second runtime; three clients of one
runtime, two of them busy at a time. Two peers are every pair of goroutines (a committer
and a joiner, a committer and a revoked recipient, two leavers); the third makes a fan-out with
two recipients, one of which fails. Commits are bounded by the changes, so the revision needs
no bound. The refusal of a full room is reached through the failed room.

For the relay, a host and one viewer are every pair of roles, and the second socket is also
the host's next connection or a viewer's second one. Two publications make a revision that
was sent differ from one that was not (`MaxRevision`); ticks need no bound, since deadlines
stop at 0, and one tick per deadline separates before from after. Session identifiers are
random in the code; the model uses one again only after its session has ended. `OneHost` names
the host, `Running` leaves the shutdown to `relay_live`, and `Undisturbed`, `Seated` leave
broken connections of the viewer to `relay`.

`membership`: two overlapping requests for the last seat are the hard case, and an invitation
that a decision overrules while another is accepted needs two invitations. `Addressed` gives
everyone but the owner a confirmed address, `Overlap` lets requests overlap until the last
invitation was created and while board and subscription serve, `Serving` leaves out requests
that every check refuses. `storage`: one running and one active job (`MaxRunning`, `MaxActive`),
two attempts, so that a lost lease meets its successor; `Quiet` lets one worker run the second
job alone, `Simple` and `Aging` leave read-only access and old jobs of busy workers out.
`billing`: a purchase and one later request; every period, trial, grace and retention is one
tick, and `FewCases`/`FewSteps` (in `MCBilling`, explained there one by one) leave out steps that
change nothing or commute with a step that is kept. Two passes overlap in the first tick, which
holds a whole purchase and the request after it. What the bounds leave out is covered by the
theorems, which use none of them: all four properties of `billing` are proved. `MaxVersion` bounds
the events of one subscription. `content`: `Stories` (in `MCContent`) follows one story at a time
(onboarding, retries, listing, discussion, ends of a workspace), each with all its interleavings; a page holds one row
(`Limit`), a job runs twice (`MaxAttempts`), a row is written twice (`MaxRevision` 3). `process`
needs no bound: connections end.

### Fairness

Collaboration (`Fairness`, used by `LiveSpec`): a goroutine that can run does, and Go's mutexes
hand over to a starved waiter, hence strong fairness of each reader's next step; a read of a
closed socket fails, hence weak fairness of `Disconnect` once stopped; the maintenance ticker
checks every 15 seconds, hence strong fairness of `RevokeSession`, which needs the authority's
mutex. Nothing obliges a client to send. Relay (`FairSpec`): goroutines run, a read on a closed
connection fails, the sweeper ticks; read deadlines are possible but not fair. Process: main
runs, a pass ends (its jobs have timeouts), a stopped socket ends, and a `select` that finds the
context done again and again takes that case sometime (strong fairness of `WorkerStops`).
Billing (`billing_checkout`): the process keeps running its passes and leases run out.

Runs turn deadlock checking off where the system really may stop: a closed server whose
sockets are gone, a process that has exited, a workspace that was purged.

### Disagreements

* `relay_termination`. `model/session.go:68` calls the `Ended` channel "a separate reliable
  termination signal", and the relay always fills it. Its only reader, the writer goroutine of
  `server.go`, selects between that channel and `done`; when a frame reaches the relay after it
  ended the session, the reader returns with `ErrEnded`, closes `done`, and the select may return
  without the reason: a client whose connection was fine is closed without `session-ended`.
* `billing_checkout`. `docs/polar-billing.md:17` says that a change from Cloud to Team opens a Team
  subscription. The intent of a paying customer always carries the old subscription
  (`000016_polar_lifecycle.up.sql:19`), `Observe` retrieves that one, finds another product and
  answers a conflict on every pass, so the checkout is never opened.
* `billing_decreases`. `000013_billing_lifecycle.up.sql:161` says that decreases "remain pending until
  the paid period ends and the reviewed member plan still matches". A decrease asked with the action
  `checkout` is inserted as requested and confirmed at once (line 184); only the confirmation of a
  quote asks for a member plan (lines 134-140), and only other kinds are compared with the seats in
  use (line 164). `apply_billing` applies it when the period ends, the members being those of the
  snapshot, and a team with more editors than seats cannot edit (`DecreasesFit`).

### Observations

Met while modelling, not stated as properties; each follows from the lines it names.

* A Polar renewal is lost when an applied cancel or resume intent stores the newer contract
  version first. A confirmed downgrade is `scheduled`, so `Observe` never changes it at Polar. A
  torn read of subscription and orders can hide a renewal until the next event.
* A user whose access was revoked can be sent content committed afterwards. A Step1 is checked
  (`protocol.go:330`), then waits for the room, whose holder commits a change; a revocation comes
  before the commit. If the committer's activity notice fails (lines 380-382), `sync` returns before
  the fan-out that would have checked and stopped that user, the room has not failed, and the answer
  (line 353) contains the change. `NoContentAfterRevocation` exempts exactly such changes (`Missed`),
  and `SynchronizedPeersConverge` exempts them too, since other peers are left without them.
* Objects can outlive their workspace. A worker of a job writes its objects (`transfer.go:145-158`)
  before `complete_transfer` finds that cleanup has deleted an asset's row
  (`000012_transfers.up.sql:126`); the transaction rolls back, the objects stay, and no row leads a
  cleanup to them, although `000013_billing_lifecycle.up.sql:346` says that before a purge cleanup
  "must verify object absence first". `PurgeStands` asks for absent objects of uploads, and of
  jobs' files only that none is written once the purge has begun.
* `000010_discussion.up.sql:47` says that readers may discuss an editable board, and Go computes
  `can_comment` for a guest (`app/access/service/access.go:53`); `lock_discussion` (line 55) asks for
  an entitlement that is shown to members only, so every comment of a guest is refused.
* A torn read can also undo an increase of seats. A pass reads Polar's subscription, and its orders
  and refunds afterwards; the snapshot's version is the latest of both (`infra/polar/lifecycle.go:182`).
  When a confirmed increase is sent and applied by another worker in between, a member becomes
  editor and a charge or refund raises the later part, the old seats carry a version newer than
  the contract's and are applied again: fewer seats than editors, and the owner cannot edit. The
  next pass finds the version it stored and changes nothing (`000013_billing_lifecycle.up.sql:261`),
  so it takes a newer event at Polar. The lease of an intent does not exclude a pass of another intent of the
  workspace. No property covers it: `EditingEndsOnTime` is about time and plan, and asks for seats.
* A returning customer's second checkout never opens (`000016_polar_lifecycle.up.sql:19`).
* The export of a board with an attachment older than its upload deadline fails as
  `invalid_transfer` (`000012_transfers.up.sql:94`).
* A second, concurrent delete of a project answers 404 instead of 204, since its state is read
  before the lock (the comment at `board_management/inbound/api/handler.go:551`). A page of boards
  answers 404 as a whole when one of them starts being deleted between the page and its row.
* A cleanup job that failed five times leaves its board deleting and the project undeletable.
* Comments of one second are listed in random order (KSUIDs), and one created below the cursor
  can be missed.
* `authority.Check` waits for the authority's mutex without its context, although
  `pkg/fiber/probe.go:14` says that a check returns when the context ends. After an expired drain
  `readyz` on a surviving connection sees `running` unset and runs its checks.

## Theorems

Eight modules hold proofs: one for each module that has a run, and `Sums`. Every theorem is about the
module's `Spec` (`DiscussionSpec`, the composition, in `ContentProofs`), for every value of the constants; the only
assumptions are the `ASSUME` of the module that declares the constants (sizes and limits are positive,
`None` is none of the identifiers nor a row, and finite sets where a sum or a count needs them), which TLC
evaluates in the runs. Bounds that a module itself declares (`MaxTime`, `MaxRevision` and the like) are constants of any value;
no constraint of an MC module is used. Each module states an inductive invariant as
a conjunction of named parts, has a lemma per action that it is kept, and derives the properties.

| module | inductive invariant | properties of the runs that are proved |
|---|---|---|
| `CollabServerProofs` | `Inv` = `RoomInv`, `DeliveryInv` | `OneSerialRoom`, `RoomIsCommitted`, `AcknowledgedIsDurable`, `ReadsOwnSavedChanges`, `SynchronizedPeersConverge`, `NoContentAfterRevocation`, `CommitsAreAuthorized`, `ImplementsDurableBoard`, `Inv` |
| `LocalRelayProofs` | `RelayInv`, `Weighed` | `EndNeverBlocks`, `HostKeepsSession`, `ViewersConverge`, `BytesAreStored`, `ExpiredStaysExpired` |
| `MembershipProofs` | `MembershipInv` | `SeatsFit`, `DecisionsStand`, `AccessRevisionMoves`, `PoliciesAgree` |
| `StorageProofs` | `StorageInv` | `Conserved`, `ServedIsStored`, `ReferencesResolve`, `LateWorkersChangeNothing`, `PurgeStands` |
| `BillingProofs` | `BillingInv`, `ReviewInv` | `AccessIsPaid`, `EditingEndsOnTime`, `PaymentOpensWorkspace`, `PurgeAfterRetention` |
| `ContentProofs` | `ContentInv`, `KeysInv` | `RetriesAgree`, `AllRowsAgree`, `TraversalComplete`, `ChangesAreCurrent` |
| `ProcessProofs` | `ProcessInv` | `PoolsOutliveUsers`, `OneProfilePerSubject` |

Why the invariants are what they are:

* **CollabServer**, documents (`RoomInv`). Durability of acknowledgements is not inductive:
  `save-checkpoint` acknowledges whatever the session knows, so what a session knows, and what a
  frame in a fan-out carries, must be contained in the room's document (`RoomIsAhead`), and the
  room's document in the row. A document in memory may be old: `Snapshots` says that each one is
  a past value of the row, and any two are ordered by their revisions. This is what makes the
  comparison `rm.doc.Revision < doc.Revision` in `join` sufficient. `FrameIsNew` makes every
  commit a `Commit` of the abstract board, and `Refinement` maps every action to a commit, a
  disclosure, an acknowledgement, a forgetting, or a stutter.
* **CollabServer**, delivery (`DeliveryInv`). A synchronized client may lack the frame that is being
  fanned out, as long as the fan-out has yet to reach it (`FanOutCompletes`, `Owes`), and what it
  has missed; an answer that waits for the room is about content its client may read or has missed,
  or the fan-out that will check its right comes first (`AnswersAreReadable`). A transaction works on the room's own
  document, since nothing touches it meanwhile (`TransactionsAreCurrent`).
* **LocalRelay**. Most entries sweep, act and broadcast under one lock, so `Monitor` is a predicate on
  states of the monitor and `Shrinks` a relation between them; what ends, detaches and sweeps is
  proved once. `Seat` ties a socket's reader and writer to the monitor: a state that waits in a
  viewer's slot is the newest one, or the writer has already taken it. The byte counter needs sums
  over a set of sessions that changes: `Sums` proves that adding, removing and changing an
  element does what it should; induction is out of reach as a rule, so it takes a least
  counterexample (`WFMin` over subsets of a finite set).
* **Membership**. An owner's decision stands because an overruled invitation was closed at
  once and no step opens one (`OverruledAreClosed`); `SeatsFit` follows from the check that each
  transaction repeats under the lock. `PoliciesAgree` needs no invariant: Go and SQL agree on
  every record of rows, which the proof shows by the cases of `Resolve`.
* **Storage**. `FilesInv` says when bytes must be there (what is served, what a board refers to), `JobsInv`
  what a job and its files have to do with each other, and that at most one import is unfinished or
  done; `Conserved` is kept by each transaction separately, with `Sums` for the files of a job.
  `LateWorkersAreIgnored` and `PurgeIsFinal` are about steps and follow from the types and the guards; that a
  deleted workspace has no object of an upload left follows from `FilesInv`.
* **Billing**. `KnownInv`: whatever a subscription row, request, contract, webhook or worker remembers
  exists at the provider. `PaidInv`: a trial or active subscription has no grace left over from before;
  nobody could edit after the deadline (`open < Deadline(sub)`, where `open` is the last day somebody
  could), which the retention is counted from. `ReviewInv`: a request that was not overtaken still has
  the members of its snapshot before it, a purchase has a seat for each of them, and one request at a time
  is open, so nothing else takes effect first. From it `PaymentOpensWorkspace` follows for any overlap of
  passes. `EditingEndsOnTime` follows from the stored version and the period ends that orders cover.
* **Content, Discussion**. `RowsInv` relates boards, deletion jobs and live projects, `TalkInv` threads to
  boards, `RequestsInv` what a request read to what the rows are now: a row never returns to a
  revision it had (`Onward`, `ThreadOnward`), so a change that finds the revision it read changes what
  it read. `ReaderInv`: what stands still while somebody lists is listed, on the page, or below
  the cursor. `KeysInv`: a key has one record, and every answer is of a record.
* **Process**. Main holds a beginning of its plan (`MainInv`); the lemma `PlanGrounded` shows for every
  configuration that a step comes after the steps it needs, hence what is held has what it needs
  (`HeldGrounded`), and giving back in reverse keeps it so. `ClientsInv`, `SocketsInv`, `WorkersInv` say who may
  still run in which phase; `ProfilesInv` is the insert that never replaces a profile.

`BillingInv`, `Inv`, `Monitor` and `Conserved` are also what a reader should look at first when the code
changes: a change that breaks one of them breaks a promise above.

Only model-checked:

* liveness: the properties of `collab_liveness` and `relay_live`, and `StopsOnceEnding` of `process`. Reasoning
  under fairness, and `ENABLED`, are out of the provers' reach. The three disagreements too: TLC's
  counterexample is the result there.

## Not modelled

* The document codec (`internal/document`): decoding, merging and validating one CRDT document are
  functions of their input; a document is the set of its changes, and validation is a choice.
* Collaboration: presence, the idle tier, notices and the wire format. Billing: amounts,
  intervals, the portal link, notices, history. Identity: the checks of a token's claims.
* Workspaces: the unique index of the personal workspace, the list of workspaces.
* `pkg`: logging, error values, middleware, validation rules, identifiers; HTTP and WebSocket
  encoding; generated code and the OpenAPI contract.

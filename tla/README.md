# Candy Cloud: a TLA+ development of the SD-WAN control plane

Candy Cloud is the control plane of an SD-WAN product. Tenants describe Segments
(overlay networks), Sites, Nodes, Attachments, Prefixes and policies through a
management API; a worker turns every change into a signed, numbered *generation*
of routes; the Runtimes on the tenants' devices fetch the current generation,
prepare it, commit it and report back. All state is in MySQL (READ COMMITTED,
explicit row locks); the services are Rust processes that may run several times
and may die at any point.

This directory holds TLA+ modules for the core of that system, the TLC
configurations that check them, and TLAPS proofs. Every definition is translated
from the source; `PROJECT.json` maps each one to its lines.

## 1. Inventory

| Component | State it keeps | Operations | What is hard | What makes it correct |
|---|---|---|---|---|
| Management mutations (`cloud-db/control.rs`, `cloud-api/management.rs`) | resource documents with revisions, references, idempotency rows | create, update, disable, delete; each queues the Segments it affects | concurrent edits; deletion while a lane works | references stay whole; each revision has one author; every Segment concerned is told |
| Transport identity (`control.rs`) | endpoints of a Node | provision, withdraw, by the Runtime | request repeated, requests that alternate | endpoint changes reach a publication, behind the prepare barrier |
| Generation queue (`control.rs`) | head revision and one job per revision | enqueue, claim with a lease, receipt, failure, renewal, recovery | several processes, expired leases, late receipts | one lease per Segment, request order, history kept |
| Publication lanes (`cloud-worker`) | nothing; values held between transactions | claim, snapshot, materialise, bind, build, sign, publish, receipt | crash or timeout between any two transactions; stale snapshot | every queued change ends; retries change nothing |
| Publication log (`sdwan.rs`) | the Segment's current generation, publications, members | materialise topology, publish | two lanes on one head, replay of a commit | no gap, no fork, one publication per revision |
| Runtime rollout (`sdwan.rs`, `cloud-auth/service.rs`) | rollout state, status rows, resync events | deliver configuration, record status | reports lost, repeated, delayed, overtaken; the ETag moves | prepare barrier; COMPLETE is true; Grants match catalogs; the rollout ends |
| Grants (`authorization.rs`, `issuance.rs`) | authorization generations, grants | choose the policy a Grant names, issue, replay | a policy published while a Grant is issued | a Grant is admitted by the peers |
| Enrollment (`enrollment*.rs`) | codes, challenges, devices, certificates | bootstrap, challenge, proof, completion, re-enrollment | retries, competing completions | one device per code; a replay returns the same certificate |
| Certificate renewal (`certificate_renewal.rs`) | certificates, renewals | renew, replay | two renewals race; a renewal meets the replacement of its identity | one ACTIVE certificate per device; a replaced identity stays dead |
| Human identity (`identity.rs`, `cloud-identity`) | users, memberships, sessions, refresh tokens | login, rotate, revoke, invite, transfer | reused refresh tokens, revocation races | revoked sessions stay revoked; one owner |
| Node upgrades (`upgrades.rs`) | upgrade jobs | create, poll, report | repeated reports, a replaced identity | one open job per Node, terminal states final; not modelled (section 8) |
| Terminal clients (`client_*.rs`) | devices, keys, policies, grants, projections, receipts | register, rotate, bind, issue, receive | generations per device, assignment leases | monotone generations, permitted receipts |
| Core module, geo provider, accounting, telemetry, HTTP, web, OpenWrt, deployment | libraries, caches, observations | | | outside this development (section 8) |

Components interact through the database only. An edit and its job are one
transaction. A lane is a sequence of transactions, and whatever it read in one
is what it acts on in the next. A status report is two transactions: the service
compares the ETag, then the repository records the report under the row lock of
the Segment. The handlers of people, enrolling devices and terminal devices are
cut the same way: what they read, what they await (a mail, a signature, a
certificate) and what they write are steps between which any other request may
act.

Every connection is READ COMMITTED (`cloud-db/src/lib.rs:30`), and the modules
follow it: a plain `SELECT` sees what is committed at that moment, `FOR SHARE` and
`FOR UPDATE` wait for and lock the rows that exist, and nothing locks a row that
is not there yet. Reads that lock, and the writes they protect, are one step; what
was read plainly may be stale by then. Unique keys are guards of the write.

## 2. Modules

* **SegmentPublication** - one Segment from edit to log. `control` and
  `endpoints` are the resource graph, abstracted to *versions*: the transport
  part and the policy part each carry the revision of the edit that last changed
  them, and `paths` says what the graph lacks: nothing (COMPLETE), a Node, Peer or
  Path (INCOMPLETE), or a transport identity for its Paths (BOUND, ready once
  endpoints are provisioned). `head`, `jobs` are the two queue tables; `segment`, `publications` the
  materialised row and the log; `completed` the rollouts known COMPLETE; `lanes`
  what each lane holds between two transactions; `reader` the same for the
  readiness GET, which takes a snapshot and so writes. One action per
  transaction: `CreateSegment` ... `WithdrawTransportIdentity` (management),
  `ClaimNext`, `ReadGraph`, `MaterializeSnapshot`, `LoadTransportBindings`,
  `RejectSnapshot`, `MaterializePublication`, `FindPublication`, `BuildInput`,
  `AwaitInput` (the snapshot is not ready: RETRY, as often as it happens),
  `RejectInput`, `PublishRoutes`, `PublishRefused`, `WriteReceipt` (the lane),
  `RefreshExpiring`, `RecoverFailedHead`, `ReconcileSupersededHead` (scanners),
  `ExpireLease`, `Timeout`, `Crash`, `TransientFailure` (time and failure).
  A re-enrolled Node queues a job with a hash of its own and is a
  `MutateTransport`.
* **PublicationLog** - the abstract specification: requests count up, the log
  grows at its end, each entry newer than all before it. SegmentPublication
  implements it (`ImplementsLog`) under the mapping that reads the log off the
  publications by generation.
* **RuntimeRollout** - the generations of one Segment on its Runtimes:
  `Publish` (the rollout half of the publish transaction), `ChangeTopology`,
  `GoStale`; `Fetch`, `CheckStatus`, `RecordStatus` (the service); `Apply`,
  `Reject`, `SendReport`, `LoseReport` (the Runtime and the network, external:
  they follow the contract the routes give). `CurrentConfiguration` is both the
  answer and, as a value, its ETag: generation, phase and the peer catalogs.
  `GrantedRequested` and `GrantedDefault` are the two queries that decide which
  generation a Grant may name: the one the request asked for, and the one chosen
  when it asked for none (`route_policy` is optional, `docs/api-contract.md:216`).
* **ControlResources** - the mutations that feed the queue. `resources` holds
  state, revision and document of each resource, `records` the idempotency
  records, `heads` the desired revision of each Segment, `transactions` what each
  open mutation has read and locked. `Create`, `Replace` and `Delete` begin
  `ControlRepository::mutate` (idempotency record, own row `FOR UPDATE`, dependent
  Segments), `Validate` is `validate_cross_resource` with the rows it reads
  `FOR SHARE`, `Commit` writes resource, jobs and record, `Abort` is a refusal, a
  deadlock or a crash. A wait for a lock is a step not yet taken.
  `ReplaceNodeIdentity` is the other writer of resources: a completed re-enrollment
  gives a Node its new identity, and so a new revision, without an idempotency
  record; `replacements` is its audit row. It locks the Node's row first, and is one
  step because nobody can begin to refer to the Node before it commits.
* **DeviceEnrollment** - `codes`, `challenges`, `devices`, `certificates` and the
  `node` that a device is the identity of; `calls` are requests between what they
  read and their transaction. Operators: `CreateActivation`, `RevokeActivation`,
  `ListActivations` (which marks codes expired), `CreateNode`, `DeleteNode`. The
  installation: `ExchangeBootstrap`, `ReserveChallenge`, `BeginComplete` and
  `Complete` or `CompleteConflict` or `ReplayCompletion`, `BeginRenew` and `Renew`.
  Time: `LapseCode`, `LapseChallenge`, `Age`, `CloseWindow`. `Abandon` is a lost
  connection or a crash at any await. The ghosts `answers` and `replaced` say what
  was told to whom and which identities a Node has left.
* **IdentitySessions** - `users`, `members`, `sessions`, `refresh`, `links`,
  `invitations`, and `clients`, the requests under way. Registration and mailed
  links (`Register` ... `UpdatePassword`), sessions (`Login`, `ReadMembership`,
  `OpenSession`, `Refresh`, `Logout`, `RevokeSession`, `SwitchContext`,
  `SwitchCheck`, `SwitchWrite`, `Expire`), administration by a request that was
  authenticated some time ago (`InviteMember` ... `TransferOwnership`). The ghost
  `condemned` holds the sessions that something should have ended.
* **TerminalClient** - one terminal device: `device`, `keys`, the access policy and
  settings, `grants`, `projections`, `receipts`, `modeRequests`, and `calls`.
  `GrantSnapshot`, `GrantNodes`, `GrantSign`, `GrantStore`, `GrantInsert` are
  `grant_for_device` and `write_grant` statement by statement;
  `ProjectionGather`, `ProjectionAssemble`, `ProjectionSign`, `ProjectionStore` the
  same for `projection_for_device`; `CheckMode` and `SetTrafficMode`,
  `RecordReceipt`, `AskRevocation`, `RevokeDevice`, `RevokeProjections` the other
  requests of the device; `RegisterDevice`, `PublishPolicy`, `BindPolicy`,
  `PublishSettings`, `SuspendDevice`, `ActivateDevice`, `RotateDeviceKey`,
  `NodesChange`, `Tick` what surrounds it.
* **SegmentPublicationTypes**, **SegmentPublicationProofs**,
  **SegmentPublicationLogProofs**, **RuntimeRolloutProofs**,
  **ControlResourcesProofs**, **DeviceEnrollmentProofs**,
  **IdentitySessionsProofs**, **TerminalClientProofs** - theorems (section 5).
* **MC...** - one module per specification with the symmetry sets and state
  constraints for TLC; MCControlResources also holds the instance's documents.

SegmentPublication and RuntimeRollout share the publish transaction. Each has
the half that matters to it: in SegmentPublication a rollout may complete at any
time (`CompleteRollout`); in RuntimeRollout a publication may come at any time
the guards allow. ControlResources and SegmentPublication share the commit of a
mutation: `heads` of the one counts what arrives in `head` of the other, and a
deleted Segment's queue ends in SegmentPublication. A completed recovery in
DeviceEnrollment is a `ReplaceNodeIdentity` in ControlResources and a
`MutateTransport` in SegmentPublication, and the device that
authenticates in DeviceEnrollment is the one that reports in RuntimeRollout.

### Abstractions

* Time is the passing of a lease (`expired`, `overdue`) and of `stale_until`
  (`stale`, generations expire oldest first). Retry delays are not modelled: a
  RETRY job may be claimed at once or late.
* A lane stops at its deadline because `run_lane` wraps the iteration in a
  timeout of the lease's length; a transaction already sent may commit after
  it (`PublishRoutes` and `WriteReceipt` have no deadline). `Overrun = TRUE`
  drops the deadline: paused processes and skewed clocks.
* A fault (`TransientFailure`, bounded by `MaxFaults`) is a database, file or network
  error or a busy Geo provider. A snapshot that is not ready is no fault: `AwaitInput`
  is unbounded and lasts as long as the graph does not change. Bindings that
  `load_transport_bindings` drops because a subscription or entitlement has ended are
  endpoints withdrawn.
* `attempt_count` and `next_attempt_at` are left out, as are signatures,
  hashes, projection heads and expansion objects. A replayed publication is
  compared by what the model keeps of it; as the real comparison also covers
  signed bytes with times in them, `PublishFailure` allows the divergent answer
  even when the parts agree.
* Which codes the recovery scanner takes up (`recoverable_route_error`) is the
  job's `error`: RECOVERABLE or OTHER.
* `allowed_ordinal` is always the number of members, so the branch that
  delivers an older generation cannot be taken and is not modelled.
* `MaxRevision` is the end of the revision's range (`checked_add`), `MaxGeneration`,
  `MaxStale`, `MaxInFlight` and `MaxFaults` bound what TLC explores, and so do the
  `Max...` constants of the other modules, one for each table that only grows
  (`MaxReplacements`: the Node identities replaced).
* Of a resource document ControlResources keeps the Segment, the references and a
  set of addresses; the shape of a single document is checked before the
  transaction begins and is left out. An idempotency record is not expired in the
  model (24 hours are longer than any race it shows).
* In DeviceEnrollment a proof of possession verifies or the request ends; a device
  and its key are one row, because they are created and revoked together. A
  certificate has an age instead of two times.
* In IdentitySessions a session and its refresh tokens expire together, as the code
  sets their times. Audit rows, password hashing and rate limits are left out.
* In TerminalClient a signature is the row it covers, the resources and DNS entries
  of a Projection are left out, and the clock counts in units in which a lease, a
  refresh margin and the lives of Grant and Projection keep the order that the
  code asserts at compile time (`WindowsAssumption`).

## 3. Runs

| Run | Specification and bounds | Properties |
|---|---|---|
| `edits` | 2 lanes, 4 revisions, 1 fault, only edits, graphs not ready, 1 failed job at a time | PublicationOrder, DesiredIsLive, PrepareFence, ImplementsLog |
| `lifecycle` | 2 lanes without deadline, 3 revisions, 1 fault, graphs not ready, disable, delete, polled | TypeOK, LogContiguous, ReceiptTruthful, OneLease, HistoryKept |
| `liveness` | fair, 1 lane, 3 revisions, endpoints, 1 fault, graphs not ready in both ways | TransportChangeEnds |
| `barrier` | 2 devices that both roam, 2 generations, 2 reports under way, 1 fault, gate on | TypeOK, BarrierHolds, CompleteTruthful, CommitKept, GrantsAdmitted |
| `overtaking` | 4 generations, window 1, 1 expires, gate on | ActiveTruthful, ActiveMonotone, GrantsAdmitted, ResyncAnnounced |
| `convergence` | fair, 2 generations, two transport nodes, 1 fault, gate off | RolloutEnds |
| `mutations` | 2 transactions, 2 Segments, a Site, a Node replaced once, their Attachment, a Prefix, a policy, 2 keys | TypeOK, NoDangling, AddressPlanSound, RevisionsAccounted, SegmentsTold |
| `identity` | 3 codes, 3 certificates, 2 installations, 2 requests under way | TypeOK, OneIdentityPerCode, OneActiveCertificate, ReplacedIsDead, NewestCodeTakesOver |
| `sessions` | 2 people and workspaces, 2 requests, 2 sessions, 3 tokens, 2 invitations | TypeOK, OneOwner, CondemnedAreDead, OneLiveToken |
| `terminal` | 2 keys, 2 request ids, 2 requests, 2 Nodes, 2 Grants, 2 Projections, 4 receipts | TypeOK, SignedOnce, OnePublished, ProjectionWithinGrant, SuspendedUnpublished, ReceiptsForward |
| `deleted_segment` | see section 6 | DeletedWithdrawn, violated |
| `grant_after_revoke` | see section 6 | NoUsableGrantBehind, violated |

Why the bounds are enough to be interesting: two lanes are what a race, a
takeover and a late commit need; four revisions give a published transport edit,
a failed one, a policy job around it and one more to follow; one fault puts a
crash, a missed deadline or a database error at every point of a lane, once.
Two devices are a reporter and the one it waits for; window 1 with four
generations has a device inside, at the edge of and beyond the window, which the
code's window of 32 has in the same way. `overtaking` has only policy publications
after its first (`PolicyChain`), so that a device at N-1 across a transport change is
not in it; `barrier` has that case, with rejected and blocked rollouts. The state
constraints only restrict the kinds of requests (`EditsOnly`, `PolicyChain`), the
jobs that have failed at one time (`OneFailure`, in `edits`) or the reports under
way (`TwoReports`, `ReportOrRoam`: two reports cross while everybody is attached,
one while a device is detached).

In `mutations` the Attachment and the policy may move from one Segment to the
other, the overlay of one Segment may grow over the Prefix's address, and the Node's
identity is replaced once, by a re-enrollment or by an edit, in either order. A second
Prefix would show no more than the proofs do: siblings are read and not protected
(section 6). In `identity`
the first code enrolls and two more recover the Node, so a recovery code is
overtaken by a newer one; the third certificate is a renewal of either identity.
Two requests overlap when they concern one code or one certificate, or when a
renewal meets a completion, and one thing is put out of use by an operator or by
time (`MCDeviceEnrollment!Bounds`); two completions of different codes at one time are
cut (`Overlap`), and only the proofs cover them. In `sessions` one person is the demo account,
sessions are opened by login, invitation or switch, and a token is rotated, lost
and repeated with three tokens; a request that sends mail is served alone
(`MailAlone`), what it leaves behind meets everybody. In `terminal` two requests
race for each document at every await, with one event in between: time passing,
a policy replaced, a key rotated, a Node leaving or a mode changed; suspension,
activation and revocation are not counted as events. Four receipts are one
Projection's way from RECEIVED to COMMITTED, or several rejected and repeated ones.

Lanes, devices, requests, keys and transactions are interchangeable where symmetry
is used (no definition chooses among them), never in a liveness run. Deadlock is not checked: once the bounds are used up and all jobs
have ended, the system is at rest.

### Fairness

`SegmentPublication!Fairness`: each lane makes its next step (tokio runs the
lanes independently, and a timed-out iteration is dropped), some lane polls the
queue (`poll_interval`), and a lease's end comes. Nothing is assumed of
operators, scanners, faults or Runtimes; rollouts may never complete. An operator who
never completes the graph keeps a job in RETRY for ever, as in the code, which is why
`TransportChangeEnds` has the hypothesis that the graph is ready from some time on.
`RuntimeRollout!Fairness`: a Runtime polls, applies and repeats its report with
each heartbeat, and the service answers; publications may stop.
The other modules state safety only: nothing in them is retried by the services
themselves, so no liveness follows from their code.

## 4. Properties

* `PublicationOrder`, `LogContiguous`, `ImplementsLog`: the log is a sequence in
  request order. The only protection in `publish` is the head comparison; the
  order rests on the claim's `NOT EXISTS (earlier ...)` and on lanes that stop.
* `DesiredIsLive`: PUBLISHED for the desired revision means that the live
  publication is that one, with the graph as it is now, although the graph is
  read long after the job was queued.
* `PrepareFence`: a POLICY_ONLY publication has the transport graph of the one
  before it, although its snapshot may contain queued or failed transport edits.
* `OneLease`, `HistoryKept`, `ReceiptTruthful`: what the queue records.
* `TransportChangeEnds`: once the graph stays ready (`GraphReady`), no transport change
  is stuck for ever, neither by attempts on snapshots that were not ready nor behind a
  policy job that waits for a rollout (the waiting job is promoted). Without the
  hypothesis TLC shows the code's own endless retry.
* `BarrierHolds`: whoever runs a generation runs it on a transport generation
  that all its members had prepared. `CommitKept`: commit is final.
* `CompleteTruthful`: COMPLETE is the licence for policy publications.
* `ActiveTruthful`, `ActiveMonotone`: the believed running version.
* `GrantsAdmitted`, `ResyncAnnounced`: the Grant queries, the catalog query and the
  event query agree at the edges of the window. Without a route policy a Grant is
  admitted only for a device that is a member of the current publication and runs
  nothing, what it is granted, or the current generation. In a BLOCKED rollout the
  query grants the previous generation to any device: one that runs an older version, or
  that the current publication left out, gets a Grant that no peer's catalog lists. The
  property says exactly where the two agree.
* `RolloutEnds`: under fairness the rollout completes, although every receipt
  moves the peers' ETags.
* `NoDangling`: the deletion locks its row `FOR UPDATE` and the mutation that refers
  to it locks the same row `FOR SHARE`, in different orders; whoever is second sees
  the first.
* `AddressPlanSound`: an overlay grows while members are created in or outside it.
* `RevisionsAccounted`: a key that arrives twice before the first has committed, two
  edits of one revision, and an edit that races with the Node's re-enrollment make one
  revision each; a revision without a record is a replaced identity.
* `SegmentsTold`: dependent Segments are read twice, before and after the resource
  is validated, and the union is queued.
* `OneIdentityPerCode`: completions repeated under the same or another request id, by
  requests that overlap. `NewestCodeTakesOver`: a recovery code supersedes the
  earlier ones although their challenges are out.
* `OneActiveCertificate`, `ReplacedIsDead`: renewals race with each other and with the
  replacement of the identity, also inside the replay window.
* `OneOwner`: owners act on an authentication of some time ago; membership rows are
  locked and read again.
* `CondemnedAreDead`: a session that was to end authenticates nothing, though its
  membership, role or ownership comes back. `OneLiveToken`: rotation under a lost
  answer.
* `SignedOnce`, `OnePublished`: optimistic generations with retries. `ProjectionWithinGrant`:
  a Projection is assembled from a Grant, a policy and a mode that were read at
  different times. `SuspendedUnpublished`, `ReceiptsForward`: what
  operators and the device decided is not undone by what was late.

Each property has a mutated definition next to the one it replaces, a plausible
slip in that code, under which TLC finds the property violated.

## 5. Proofs

TLAPS proves every safety property that a passing run checks, and the refinement,
for all values of the constants: any number of lanes, devices, resources, codes,
people, keys, requests and transactions, any bound, both settings of the gates.
The runs show the same formulas on small instances. The proofs use the ASSUMEs of
the specifications and nothing else:

* the tenant of ControlResources starts with resources that refer to each other and
  fit their address plan, and a document that belongs to a Segment refers to it
  (`resource_references`);
* there is at least one person in IdentitySessions, and OWNER is not a role an
  invitation may carry (the code's list of assignable roles);
* the compatibility window is not empty (the code has 32);
* the lifetimes in TerminalClient are ordered as its compile-time assertions have
  them;
* bounds are natural numbers, and names that stand for "none" are no one's.

`LogIsOrdered`, `DesiredConfigurationIsLive`, `PolicyFollowsTransport` and
`PipelineImplementsLog` have the hypothesis `~Overrun`: lanes stop at their
deadline, as the timeout of `run_lane` makes them. Everything else about the pipeline
is proved with overruns.

| Module | Theorem | States |
|---|---|---|
| SegmentPublicationTypes | `TypeCorrect` | `TypeOK` |
| SegmentPublicationProofs | `LeaseIsUnique` | `OneLease` |
| | `HistoryIsKept` | `HistoryKept` |
| | `LogIsContiguous` | `LogContiguous` |
| | `ReceiptsAreTruthful` | `ReceiptTruthful` |
| | `LogIsOrdered` | `PublicationOrder` |
| | `DesiredConfigurationIsLive` | `DesiredIsLive` |
| SegmentPublicationLogProofs | `PolicyFollowsTransport` | `PrepareFence` |
| | `PipelineImplementsLog` | `ImplementsLog` |
| RuntimeRolloutProofs | `TypeCorrect` | `TypeOK` |
| | `TheBarrierHolds` | `BarrierHolds` |
| | `CompleteIsTruthful` | `CompleteTruthful` |
| | `CommitsAreKept` | `CommitKept` |
| | `ActiveIsTruthful` | `ActiveTruthful` |
| | `ActiveIsMonotone` | `ActiveMonotone` |
| | `GrantsAreAdmitted` | `GrantsAdmitted` |
| | `ResyncIsAnnounced` | `ResyncAnnounced` |
| ControlResourcesProofs | `TypeCorrect` | `TypeOK` |
| | `ReferencesAreWhole` | `NoDangling` |
| | `AddressPlanIsSound` | `AddressPlanSound` |
| | `RevisionsAreAccounted` | `RevisionsAccounted` |
| | `SegmentsAreTold` | `SegmentsTold` |
| DeviceEnrollmentProofs | `TypeCorrect` | `TypeOK` |
| | `CodesYieldOneIdentity` | `OneIdentityPerCode` |
| | `OneCertificateIsActive` | `OneActiveCertificate` |
| | `ReplacedIdentitiesAreDead` | `ReplacedIsDead` |
| | `NewestRecoveryCodeTakesOver` | `NewestCodeTakesOver` |
| IdentitySessionsProofs | `TypeCorrect` | `TypeOK` |
| | `WorkspacesHaveOneOwner` | `OneOwner` |
| | `CondemnedStayDead` | `CondemnedAreDead` |
| | `OneTokenIsLive` | `OneLiveToken` |
| TerminalClientProofs | `TypeCorrect` | `TypeOK` |
| | `DocumentsAreSignedOnce` | `SignedOnce` |
| | `OneProjectionIsPublished` | `OnePublished` |
| | `ProjectionsStayWithinGrants` | `ProjectionWithinGrant` |
| | `SuspensionUnpublishes` | `SuspendedUnpublished` |
| | `ReceiptsGoForward` | `ReceiptsForward` |

Each proof module first reduces the steps of its specification to a few kinds (what a
step may do to one table or one row) and then proves its invariants in layers, each
from the ones before.

### The pipeline

`TypeInv` adds to TypeOK that a busy lane holds a revision. `QueueInv`: jobs are
dense up to the head; they end in order; a lease names a lane; everything before a
revision that a lane was given, or that is published, has ended. `LogInv`: the log is contiguous, and a lane with a
receipt to write names a generation that its own publication has; this needs no
deadline, because publish compares the head under the row lock. `OrderInv` is
where the deadline comes in: a lane that is not overdue holds the live lease, unless
the Segment was deleted underneath it, so before it fixes a generation nothing newer
is published or on its way; what it has built follows everything older. A lane that
is overdue can only commit what it built on the present head, and by that time nobody
has published a later revision. `GraphInv`: the versions of the graph are revisions up
to the head; a lane's graph and a publication's graph are at least as new as their
revision, so for the head revision they are the current ones.

Without `LaneBuilt` and `NoneAhead` neither order nor liveness of the desired
configuration is inductive: the head comparison alone lets an old lane append
after a new one, which is what TLC shows with `Overrun = TRUE` when asked for
PublicationOrder.

`FenceInv` is what `PrepareFence` needs. The last transport edit has a TUNNEL job of
its own (`TransportQueued`). A lane that goes out POLICY_ONLY read, together with its
graph, that a job at or after that edit had reported publication; call that
publication `a`. Everything published from `a` up to the lane's revision then has the
graph the lane read, and so has every other lane that may still publish in that range
(`LaneFence`): such a lane is overdue and cannot read again, because everything before
a claimed revision has ended. When the lane publishes, the generation before its own
lies in that range.

`PipelineImplementsLog` maps `desired` to the head and `log` to the revisions by
generation, which LogContiguous makes a sequence. The publish transaction appends
the lane's revision, and BuiltInOrder makes it newer than every entry; a step that
moves the head is a Request; no other step is visible.

### The rollout

`GenerationInv` and `ReceiptInv`: what a Runtime holds, what it runs, what its reports
say and what Cloud recorded of them are each no more than the one before, also for a
report that was checked and is not yet recorded; this gives ActiveTruthful and
ActiveMonotone. `PhaseInv`: what a Runtime holds for commit or runs is delivered for
commit, and by CommitKept it stays so. `PreparedInv`: a transport publication past
its barrier was prepared by all its members. `SettledInv`: a policy publication stands
on a transport publication that is COMPLETE, which publish tests under the row lock.
BarrierHolds follows from the last three. `ResyncInv` relates the window at each
publication to the events it wrote; it is stated of the members of the current
publication, attached or not, because a device may be detached when it falls out of
the window and attached afterwards.

### The management mutations

`LockInv` is two-phase locking over the rows: a row locked FOR UPDATE is locked by
nobody else. `ValidInv`: what a validated mutation refers to is locked and active, and
what a validated deletion removes is not referred to; it holds until commit because
whoever would change it needs a lock that conflicts. `PlanInv` is the same for the
address plan, except for a Segment whose creation has lost its row. `RecordInv` is a
bijection between the revisions that no replacement made and the idempotency records;
a replacement needs a row that no open mutation has locked, so none is based on the
revision before it. SegmentsTold is proved
of `Dependents`, the least set of resources closed under being referred to, so that
no recursion is needed.

### Enrollment and renewal

`CallInv` and `IssuedInv` say what requests under way and answered challenges refer
to. `IdentityInv`: a code is used up exactly when its device exists, and every answer
names the certificate recorded with the challenge. `ReplacedInv`: a replaced device is
revoked, and nothing activates a device again. `CertificateInv`: active certificates
belong to active devices and each active device has one. `RecoveryInv`: an open
recovery code is the newest one, reserved ones included.

### Human identity

`RefInv`: tokens and acting requests name sessions that exist. `CondemnedInv`: a
condemned session is ended, and no step revives a session. `TokenInv`: at most one
unused token of a session, live or not. `WorkspaceInv`: a founded workspace has one
owner, and invitations and acting requests are about founded workspaces and never
carry the role of an owner.

### Terminal devices

`TypeInv` includes what each call may rely on between its steps (`CallSound`: a Grant
that was read keeps key, policy and time), that a device in service has exactly one
key in use, that the greatest Grant generation is that of some row, and that
Projections are numbered by their rows. `WithinInv` is ProjectionWithinGrant of every
row, superseded ones included. `ReceiptInv`: each receipt stands on the earlier ones
of its Projection.

### Only model-checked

`TransportChangeEnds` and `RolloutEnds` are liveness under fairness, and the prover
does not treat ENABLED. The violations of section 6 are counterexamples.

## 6. Where code, comments and documents disagree

Shown by a run each:

1. `deleted_segment`: a snapshot, also the one of the readiness GET, writes a
   deleted Segment back to ACTIVE.
2. `grant_after_revoke`: `write_grant` reads that the device and key are ACTIVE and
   inserts later; a revocation in between leaves an ACTIVE Grant on a revoked device,
   which the comment of `revoke_device` rules out.

Found while modelling; the modules allow each of them, and PROJECT.json quotes the
lines that disagree:

3. Two first Grants of a device can carry the same generation: `MAX(generation) ...
   FOR UPDATE` locks no row when there is none, and no unique key covers it. The
   comment there says that one of the two "loses here and the caller re-signs".
4. Provisioning an endpoint set again after a withdrawal meets its old job and is
   not published (`enqueue_generation`). Having no job, the change is then carried
   by the next policy publication, past the prepare barrier.
5. ACTIVE, REJECTED, then a delayed PREPARED moves a status record back behind the
   barrier.
6. A Prefix edit, which is POLICY_ONLY, brings in a member that never prepared.
7. Two overlapping Prefixes created at one time both pass; the Segment's publications
   then fail until one is removed.
8. A registration whose mail could not be delivered is not removed: rows that
   `register_user_and_workspace` wrote still refer to the tenant.
9. The replay window of a renewal is not bounded by the old certificate's expiry.
10. A repeated DELETE is not answered from its idempotency record, because the
    resource is loaded first.
11. `write_projection` compares the device's status and mode but not its key.
12. A device suspended between the lookup and the write of its own revocation is told
    that it is revoked.
13. `authorization.rs` speaks of a repeatable transaction; the pool is READ COMMITTED.
14. `client_projection.rs` (in `cloud-db`, lines 486, 546 and 818) names the columns
    `request_id`, `request_hash` and `signing_key_id` of `client_projections`, which
    neither migration of that table (0038, 0046) gives it. With the committed schema
    every Projection request ends in an error, and the one live test of this path
    (`tests/client_projection.rs:421`) asserts nothing. TerminalClient models what the
    statements say; the error is its `Abandon`.

Smaller ones, visible in the modules: the lease fences the receipt and not the
publication (`PublishRoutes` has no deadline; the comment in `generation_loop.rs`
says late commits are fenced, and the head comparison is what keeps the log in
order); an older projection's ACTIVE is accepted by `RecordHistorical`, where the
API contract has 409; the ETag comparison (`CheckStatus`) refuses most of the
receipts that this path was written for; the normal renewal window is 72 hours in
`certificates.rs` and 48 in the API contract; the context switch's `SELECT
EXISTS(...) FOR UPDATE` locks nothing of the session it tests, so two switches of one
session can both succeed (`SwitchCheck`, `SwitchWrite`); a challenge that lapses leaves its code RESERVED, which no
new challenge can take up; replays of Grants and Projections by request id do not
look at the row's status; publishing an access policy unbinds every device until it
is bound again; a revoked device's Projections are revoked by a second statement.

## 7. Plan

1. *(done)* SegmentPublication, PublicationLog, RuntimeRollout with their runs;
   the queue, log and order theorems.
2. *(done)* ControlResources, DeviceEnrollment, IdentitySessions, TerminalClient.
3. *(done)* Proofs of every safety property of the runs and of the refinement.
4. Theorems that the runs do not ask for but the proofs have within reach: what
   SegmentPublication keeps with `Overrun = TRUE` beyond the contiguous log, and which
   part of `DesiredIsLive` extends to endpoints.
5. Grant issuance for Runtimes around RuntimeRollout's Grant queries, and node upgrades
   together with the replacement of a Node's identity.

## 8. Not modelled

* Node upgrades: one serialised job per Node identity with a small state machine.
  Its hard part is that a job of a replaced identity stays open and that a running
  job reports a new phase of the same state; both are listed as hazards.
* Issuance of Runtime Grants beyond the choice of the policy they may name, and the
  revocation generations.
* Replay of transport-identity requests by request id; the reasons that the
  activation readiness reports.
* Telemetry and accounting record observations that nothing decides on. The geo
  provider is a settings row and a file cache; a busy one is a transient failure of
  a lane.
* The HTTP layer, the web console, the OpenWrt scripts, deployment and migrations
  keep no protocol state. Rate limits and audit rows are left out of every handler.
* The Core module is a closed library behind an ABI; that it may refuse an input is
  an action of the lane.
* What `build_input` computes - paths, prefixes, address sets - is data that no
  property of these modules tells apart.

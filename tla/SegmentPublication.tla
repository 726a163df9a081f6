------------------------- MODULE SegmentPublication -------------------------
(***************************************************************************)
(* The signed-route publication pipeline of one (tenant, segment):         *)
(*                                                                         *)
(*   management mutations and transport-identity requests                  *)
(*     -> generation jobs (segment_generation_heads / _jobs)               *)
(*     -> publication lanes of the worker processes, under leases          *)
(*     -> the signed publication log (segments, segment_route_publications)*)
(*                                                                         *)
(* cloud-db/src/control.rs      enqueue, claim, receipts, recovery         *)
(* cloud-db/src/sdwan.rs        materialisation and the publish transaction*)
(* cloud-worker/src/generation_loop.rs, control_publisher.rs   the lanes   *)
(*                                                                         *)
(* Every action is one database transaction (or one failure).  Everything  *)
(* a lane does between two transactions happens on values it has already   *)
(* read, kept in lanes[l].  Time appears only as the passing of a lease.   *)
(***************************************************************************)
EXTENDS Naturals, FiniteSets

CONSTANTS
  Lanes,          \* publication lanes; a lane is its own fencing owner
  NoLane,         \* lease_owner IS NULL
  EndpointSets,   \* the endpoint sets a Runtime may provision
  NoEndpoints,    \* every endpoint disabled
  FreshHash,      \* an idempotency hash no other request shares
  PathGaps,       \* what an edit may leave the paths of the graph short of
  MaxRevision,    \* the last desired_revision (u64 checked_add)
  MaxFaults,      \* bound on crashes, missed deadlines and transient errors
  PolicyIsolation,\* the policy-isolation gate of SdwanRepository
  Polled,         \* is the readiness of the Segment polled?
  Overrun         \* may a lane act after the deadline of its lease?

ASSUME LanesAssumption == NoLane \notin Lanes
ASSUME EndpointAssumption == NoEndpoints \notin EndpointSets
ASSUME HashAssumption == FreshHash \notin EndpointSets \cup {NoEndpoints}
ASSUME PathsAssumption == PathGaps \subseteq {"INCOMPLETE", "BOUND"}
ASSUME BoundsAssumption == MaxRevision \in Nat /\ MaxFaults \in Nat
ASSUME FlagsAssumption == {PolicyIsolation, Polled, Overrun} \subseteq BOOLEAN

VARIABLES
  control,      \* the Segment's resource graph, as versions of its two parts
  endpoints,    \* the transport endpoints ACTIVE for the attached Node
  head,         \* segment_generation_heads.desired_revision
  jobs,         \* segment_generation_jobs, by desired_revision
  segment,      \* the materialised row of segments and its attachments
  publications, \* segment_route_publications, by the revision in their id
  completed,    \* generations whose runtime rollout is COMPLETE
  lanes,        \* what each lane holds between two transactions
  faults,       \* faults used up
  reader        \* what a readiness request holds between two transactions

vars == <<control, endpoints, head, jobs, segment, publications, completed,
          lanes, faults, reader>>

-----------------------------------------------------------------------------
(***************************************************************************)
(* State                                                                   *)
(***************************************************************************)
Revisions == 1..MaxRevision
Versions  == 0..MaxRevision   \* a part's version is the revision that set it
Modes     == {"TUNNEL", "POLICY_ONLY"}
Endpoints == EndpointSets \cup {NoEndpoints}

\* The paths between the Sites that take part.  INCOMPLETE: a Node, a Peer or a
\* Path is missing; BOUND: a Path runs over the Node, so it needs its endpoints.
Paths == PathGaps \cup {"COMPLETE"}

Terminal == {"PUBLISHED", "PERMANENT_FAILURE"}
Pending  == {"PENDING", "LEASED", "RETRY"}

Control ==
  [state : {"ABSENT", "ACTIVE", "DISABLED", "DELETED"},
   transport : Versions, policy : Versions, attached : BOOLEAN,
   paths : Paths]

Job ==
  [state : Pending \cup Terminal \cup {"ABSENT"}, mode : Modes,
   hash : Endpoints \cup {FreshHash}, owner : Lanes \cup {NoLane},
   expired : BOOLEAN, published : Nat,
   error : {"NONE", "RECOVERABLE", "OTHER"}]

NoJob == [state |-> "ABSENT", mode |-> "TUNNEL", hash |-> FreshHash,
          owner |-> NoLane, expired |-> FALSE, published |-> 0,
          error |-> "NONE"]

Segment ==
  [state : {"ABSENT", "ACTIVE", "DELETED"}, generation : Nat,
   transport : Versions, attached : BOOLEAN]

Publication ==
  [generation : Nat, mode : Modes, transport : Versions,
   policy : Versions, endpoints : Endpoints]

NoPublication == [generation |-> 0, mode |-> "TUNNEL", transport |-> 0,
                  policy |-> 0, endpoints |-> NoEndpoints]

\* The steps of run_claimed_once after the claim, in order.
Working == {"claimed", "graph", "materialized", "bound", "ready", "fresh",
            "built"}

\* The steps at which the lane holds a resource graph it has read.
Holding == Working \ {"claimed"}

Lane ==
  [pc : Working \cup {"idle", "receipt"}, revision : Versions,
   overdue : BOOLEAN, mode : Modes, transport : Versions, policy : Versions,
   attached : BOOLEAN, paths : Paths, endpoints : Endpoints,
   generation : Nat,
   outcome : {"NONE", "PUBLISHED", "RETRY", "RECOVERABLE", "OTHER"}]

IdleLane == [pc |-> "idle", revision |-> 0, overdue |-> FALSE,
             mode |-> "TUNNEL", transport |-> 0, policy |-> 0,
             attached |-> FALSE, paths |-> "COMPLETE",
             endpoints |-> NoEndpoints, generation |-> 0, outcome |-> "NONE"]

\* runtime_activation_readiness between the snapshot's transactions.
Reader == [reading : BOOLEAN, transport : Versions, attached : BOOLEAN]

IdleReader == [reading |-> FALSE, transport |-> 0, attached |-> FALSE]

Init ==
  /\ control = [state |-> "ABSENT", transport |-> 0, policy |-> 0,
                attached |-> FALSE, paths |-> "COMPLETE"]
  /\ endpoints = NoEndpoints
  /\ head = 0
  /\ jobs = [r \in Revisions |-> NoJob]
  /\ segment = [state |-> "ABSENT", generation |-> 0, transport |-> 0,
                attached |-> FALSE]
  /\ publications = [r \in Revisions |-> NoPublication]
  /\ completed = {}
  /\ lanes = [l \in Lanes |-> IdleLane]
  /\ faults = 0
  /\ reader = IdleReader

-----------------------------------------------------------------------------
(***************************************************************************)
(* Management mutations and transport identity (ControlRepository)         *)
(***************************************************************************)
EnqueuedBefore(hash) ==
  hash # FreshHash /\ \E r \in 1..head : jobs[r].hash = hash

\* Mutated form of AppendJob: the head advances without checked_add.
AppendJobUnchecked(hash, mode) ==
  /\ head' = head + 1
  /\ jobs' = [jobs EXCEPT ![head + 1] =
                [NoJob EXCEPT !.state = "PENDING", !.hash = hash,
                              !.mode = mode]]

\* The job INSERT and head advance shared by every enqueuing transaction.
AppendJob(hash, mode) ==
  /\ head < MaxRevision
  /\ head' = head + 1
  /\ jobs' = [jobs EXCEPT ![head + 1] =
                [NoJob EXCEPT !.state = "PENDING", !.hash = hash,
                              !.mode = mode]]

EnqueueGeneration(hash, mode) ==
  \/ EnqueuedBefore(hash) /\ UNCHANGED <<head, jobs>>
  \/ ~EnqueuedBefore(hash) /\ AppendJob(hash, mode)

CreateSegment ==
  /\ control.state = "ABSENT"
  /\ EnqueueGeneration(FreshHash, "TUNNEL")
  /\ control' = [control EXCEPT !.state = "ACTIVE", !.transport = head + 1]
  /\ UNCHANGED <<endpoints, segment, publications, completed, lanes, faults,
                 reader>>

\* An edit of the Segment, a Node, Site, Attachment, Peer, Path or Relay;
\* attached says whether a Site is attached afterwards, paths what the paths
\* between attached Sites are then.  References must be ACTIVE, so a DISABLED
\* Segment gains nothing: what is attached to it may still be edited or deleted.
MutateTransport(attached, paths) ==
  /\ \/ control.state = "ACTIVE"
     \/ control.state = "DISABLED" /\ control.attached
  /\ attached \/ paths = "COMPLETE"
  /\ EnqueueGeneration(FreshHash, "TUNNEL")
  /\ control' = [control EXCEPT !.transport = head + 1, !.attached = attached,
                                !.paths = paths]
  /\ UNCHANGED <<endpoints, segment, publications, completed, lanes, faults,
                 reader>>

\* Mutated form of MutatePolicy: the edit is not queued for publication.
MutatePolicyUnqueued(paths) ==
  /\ control.state \in {"ACTIVE", "DISABLED"} /\ head < MaxRevision
  /\ control.attached \/ paths = "COMPLETE"
  /\ control' = [control EXCEPT !.policy = head + 1, !.paths = paths]
  /\ UNCHANGED <<endpoints, head, jobs, segment, publications, completed,
                 lanes, faults, reader>>

\* A ServicePolicy, Prefix or Egress edit (policy_only_activation).  Prefixes
\* and egress rules decide which Sites take part, so which paths are needed.
MutatePolicy(paths) ==
  /\ control.state \in {"ACTIVE", "DISABLED"}
  /\ control.attached \/ paths = "COMPLETE"
  /\ EnqueueGeneration(FreshHash, "POLICY_ONLY")
  /\ control' = [control EXCEPT !.policy = head + 1, !.paths = paths]
  /\ UNCHANGED <<endpoints, segment, publications, completed, lanes, faults,
                 reader>>

SetSegmentState(state) ==
  /\ control.state \in {"ACTIVE", "DISABLED"} \ {state}
  /\ EnqueueGeneration(FreshHash, "TUNNEL")
  /\ control' = [control EXCEPT !.state = state, !.transport = head + 1]
  /\ UNCHANGED <<endpoints, segment, publications, completed, lanes, faults,
                 reader>>

RetiredJob(job) ==
  IF job.state \in Pending
  THEN [job EXCEPT !.state = "PERMANENT_FAILURE", !.owner = NoLane,
                   !.expired = FALSE, !.published = 0, !.error = "OTHER"]
  ELSE job

DeleteSegment ==
  /\ control.state \in {"ACTIVE", "DISABLED"}
  /\ ~control.attached
  /\ control' = [control EXCEPT !.state = "DELETED"]
  /\ segment' = IF segment.state = "ABSENT" THEN segment
                ELSE [segment EXCEPT !.state = "DELETED"]
  /\ jobs' = [r \in Revisions |-> RetiredJob(jobs[r])]
  /\ UNCHANGED <<endpoints, head, publications, completed, lanes, faults,
                 reader>>

\* The Segment depends on the Node through a non-deleted Attachment.
DependentSegment == control.state \in {"ACTIVE", "DISABLED"} /\ control.attached

ReplaceEndpoints(e, hash) ==
  /\ endpoints' = e
  /\ \/ DependentSegment /\ EnqueueGeneration(hash, "TUNNEL")
     \/ ~DependentSegment /\ UNCHANGED <<head, jobs>>
  /\ UNCHANGED <<control, segment, publications, completed, lanes, faults,
                 reader>>

\* A request under a new request_id.  The hash covers the endpoint set only.
ProvisionTransportIdentity(e) == ReplaceEndpoints(e, e)

\* The hash covers the device only.
WithdrawTransportIdentity == ReplaceEndpoints(NoEndpoints, NoEndpoints)

-----------------------------------------------------------------------------
(***************************************************************************)
(* The queue (GenerationJobRepository)                                     *)
(***************************************************************************)
\* Mutated form of TransportChangePending: failed edits are forgotten.
TransportChangeQueued ==
  \E c \in Revisions : jobs[c].state \in Pending /\ jobs[c].mode = "TUNNEL"

\* Mutated form of TransportChangePending: edits still queued are not seen.
TransportChangeFailed ==
  \E c \in Revisions :
    /\ jobs[c].state = "PERMANENT_FAILURE" /\ jobs[c].mode = "TUNNEL"
    /\ \A a \in Revisions : jobs[a].state = "PUBLISHED" => a < c

\* Is a transport edit queued or failed after the last job that reported
\* publication?  Its content is part of the graph a snapshot reads now.
TransportChangePending ==
  \E c \in Revisions :
    /\ jobs[c].state # "ABSENT" /\ jobs[c].mode = "TUNNEL"
    /\ \A a \in Revisions : jobs[a].state = "PUBLISHED" => a < c

RefreshExpiring ==
  /\ segment.state = "ACTIVE" /\ segment.generation > 0
  /\ \A r \in Revisions : jobs[r].state \notin Pending
  /\ AppendJob(FreshHash,
               IF TransportChangePending THEN "TUNNEL" ELSE "POLICY_ONLY")
  /\ UNCHANGED <<control, endpoints, segment, publications, completed, lanes,
                 faults, reader>>

\* Mutated form of Claimable: the NOT EXISTS clause asks for any other lease on
\* the Segment, and no longer for an earlier job.
ClaimableUnleased(r) ==
  /\ \/ jobs[r].state \in {"PENDING", "RETRY"}
     \/ jobs[r].state = "LEASED" /\ jobs[r].expired
  /\ \A other \in Revisions \ {r} : jobs[other].state # "LEASED"

\* Mutated form of Claimable: without the NOT EXISTS (... earlier ...) clause.
ClaimableUnordered(r) ==
  \/ jobs[r].state \in {"PENDING", "RETRY"}
  \/ jobs[r].state = "LEASED" /\ jobs[r].expired

Claimable(r) ==
  /\ \/ jobs[r].state \in {"PENDING", "RETRY"}
     \/ jobs[r].state = "LEASED" /\ jobs[r].expired
  /\ \A earlier \in 1..(r - 1) : jobs[earlier].state \in Terminal

ClaimNext(l) ==
  /\ lanes[l].pc = "idle"
  /\ \E r \in Revisions :
       /\ Claimable(r)
       /\ jobs' = [jobs EXCEPT ![r] = [@ EXCEPT !.state = "LEASED",
                      !.owner = l, !.expired = FALSE, !.error = "NONE"]]
       /\ lanes' = [lanes EXCEPT ![l] = [IdleLane EXCEPT !.pc = "claimed",
                                                         !.revision = r]]
  /\ UNCHANGED <<control, endpoints, head, segment, publications, completed,
                 faults, reader>>

RecoverFailedHead ==
  /\ control.state = "ACTIVE" /\ head > 0
  /\ jobs[head].state = "PERMANENT_FAILURE"
  /\ jobs[head].error = "RECOVERABLE"
  /\ jobs' = [jobs EXCEPT ![head] = [@ EXCEPT !.state = "RETRY",
                 !.owner = NoLane, !.expired = FALSE, !.error = "NONE"]]
  /\ UNCHANGED <<control, endpoints, head, segment, publications, completed,
                 lanes, faults, reader>>

ReconcileSupersededHead ==
  /\ control.state = "ACTIVE" /\ head > 0
  /\ jobs[head].state = "PUBLISHED"
  /\ \/ segment.state # "ACTIVE"
     \/ jobs[head].published # segment.generation
  /\ AppendJob(FreshHash, "TUNNEL")
  /\ UNCHANGED <<control, endpoints, segment, publications, completed, lanes,
                 faults, reader>>

\* Mutated form of HoldsLease: the receipt is not fenced.
HoldsAnyLease(l) == lanes[l].revision \in Revisions

HoldsLease(l) ==
  LET r == lanes[l].revision IN
  /\ r \in Revisions
  /\ jobs[r].state = "LEASED" /\ jobs[r].owner = l /\ ~jobs[r].expired

\* lease_until passes.  For a lane still at work this is its own deadline too.
ExpireLease(r) ==
  /\ jobs[r].state = "LEASED" /\ ~jobs[r].expired
  /\ jobs' = [jobs EXCEPT ![r].expired = TRUE]
  /\ \/ /\ lanes[jobs[r].owner].pc # "idle"
        /\ lanes[jobs[r].owner].revision = r
        /\ faults < MaxFaults /\ faults' = faults + 1
        /\ lanes' = [lanes EXCEPT ![jobs[r].owner].overdue = TRUE]
     \/ /\ \/ lanes[jobs[r].owner].pc = "idle"
           \/ lanes[jobs[r].owner].revision # r
        /\ UNCHANGED <<lanes, faults>>
  /\ UNCHANGED <<control, endpoints, head, segment, publications, completed,
                 reader>>

-----------------------------------------------------------------------------
(***************************************************************************)
(* A lane's iteration (run_claimed_once and what it calls)                 *)
(***************************************************************************)
\* Mutated form of InTime: no deadline.
InTimeAlways(l) == lanes[l].pc # "idle"

\* tokio::time::timeout(lease_ttl, ...) stops a lane at its deadline.
InTime(l) == Overrun \/ ~lanes[l].overdue

\* The lane leaves the publisher with an outcome and goes on to its receipt.
Conclude(l, outcome, generation) ==
  lanes' = [lanes EXCEPT ![l] = [IdleLane EXCEPT !.pc = "receipt",
                !.revision = lanes[l].revision, !.overdue = lanes[l].overdue,
                !.outcome = outcome, !.generation = generation]]

\* First transaction of segment_snapshot: effective mode and current graph.
ReadGraph(l) ==
  /\ lanes[l].pc = "claimed" /\ InTime(l)
  /\ \/ /\ control.state = "ACTIVE"
        /\ lanes' = [lanes EXCEPT ![l] = [@ EXCEPT !.pc = "graph",
             !.mode = IF TransportChangePending THEN "TUNNEL"
                      ELSE jobs[lanes[l].revision].mode,
             !.transport = control.transport, !.policy = control.policy,
             !.attached = control.attached, !.paths = control.paths]]
     \/ control.state # "ACTIVE" /\ Conclude(l, "OTHER", 0)
  /\ UNCHANGED <<control, endpoints, head, jobs, segment, publications,
                 completed, faults, reader>>

\* ensure_control_topology writes the graph of a snapshot over the materialised
\* Segment and its attachments.
Materialized(snapshot) ==
  [segment EXCEPT !.state = "ACTIVE", !.transport = snapshot.transport,
                  !.attached = snapshot.attached]

\* It runs in segment_snapshot and once more in publish_snapshot.
EnsureControlTopology(l, from, to) ==
  /\ lanes[l].pc = from /\ InTime(l)
  /\ segment' = Materialized(lanes[l])
  /\ lanes' = [lanes EXCEPT ![l].pc = to]
  /\ UNCHANGED <<control, endpoints, head, jobs, publications, completed,
                 faults, reader>>

MaterializeSnapshot(l) == EnsureControlTopology(l, "graph", "materialized")

\* Third transaction of segment_snapshot.
LoadTransportBindings(l) ==
  /\ lanes[l].pc = "materialized" /\ InTime(l)
  /\ lanes' = [lanes EXCEPT ![l] = [@ EXCEPT !.pc = "bound",
                                               !.endpoints = endpoints]]
  /\ UNCHANGED <<control, endpoints, head, jobs, segment, publications,
                 completed, faults, reader>>

\* Either transaction refuses a graph whose Attachment or Path refers to a Node
\* that is not ACTIVE (CONTROL_SNAPSHOT_*, never recovered).
RejectSnapshot(l) ==
  /\ lanes[l].pc \in {"graph", "materialized"} /\ InTime(l)
  /\ Conclude(l, "OTHER", 0)
  /\ UNCHANGED <<control, endpoints, head, jobs, segment, publications,
                 completed, faults, reader>>

MaterializePublication(l) == EnsureControlTopology(l, "bound", "ready")

\* published_generation: an earlier attempt may have lost only its receipt.
FindPublication(l) ==
  LET found == publications[lanes[l].revision].generation IN
  /\ lanes[l].pc = "ready" /\ InTime(l)
  /\ \/ found > 0 /\ Conclude(l, "PUBLISHED", found)
     \/ found = 0 /\ lanes' = [lanes EXCEPT ![l].pc = "fresh"]
  /\ UNCHANGED <<control, endpoints, head, jobs, segment, publications,
                 completed, faults, reader>>

\* What build_input needs of the paths in its snapshot (InputReadinessError).
InputReady(paths, bound) ==
  \/ paths = "COMPLETE"
  \/ paths = "BOUND" /\ bound # NoEndpoints

\* build_input reads the publication head; Core then signs generation head + 1.
BuildInput(l) ==
  /\ lanes[l].pc = "fresh" /\ InTime(l)
  /\ lanes[l].attached /\ InputReady(lanes[l].paths, lanes[l].endpoints)
  /\ lanes' = [lanes EXCEPT ![l] = [@ EXCEPT !.pc = "built",
                                     !.generation = segment.generation + 1]]
  /\ UNCHANGED <<control, endpoints, head, jobs, segment, publications,
                 completed, faults, reader>>

\* A Node, Peer, Path or transport identity is still missing: the job is retried
\* every five seconds, for as long as it is.
AwaitInput(l) ==
  /\ lanes[l].pc = "fresh" /\ InTime(l)
  /\ lanes[l].attached /\ ~InputReady(lanes[l].paths, lanes[l].endpoints)
  /\ Conclude(l, "RETRY", 0)
  /\ UNCHANGED <<control, endpoints, head, jobs, segment, publications,
                 completed, faults, reader>>

\* build_input, Core or the write's own validation refuses the graph
\* (ROUTE_INPUT_*, ROUTE_BUILD_*, and MissingProjection when nothing is
\* attached or routed).
RejectInput(l) ==
  /\ lanes[l].pc = "fresh" /\ InTime(l)
  /\ \E outcome \in {"RECOVERABLE", "OTHER"} : Conclude(l, outcome, 0)
  /\ UNCHANGED <<control, endpoints, head, jobs, segment, publications,
                 completed, faults, reader>>

LatestTunnel(g) ==
  \E r \in Revisions :
    /\ publications[r].generation = g /\ publications[r].mode = "TUNNEL"
    /\ \A q \in Revisions : publications[q].mode = "TUNNEL"
         => publications[q].generation <= g

\* May a POLICY_ONLY publication follow the current generation?
RolloutSettled ==
  /\ segment.generation > 0
  /\ PolicyIsolation \/ segment.generation \in completed
  /\ \E g \in completed : LatestTunnel(g)

Built(l) == [generation |-> lanes[l].generation, mode |-> lanes[l].mode,
             transport |-> lanes[l].transport, policy |-> lanes[l].policy,
             endpoints |-> lanes[l].endpoints]

\* Mutated form of GenerationFree: the expected head is not compared.
RevisionFree(l) ==
  /\ publications[lanes[l].revision].generation = 0
  /\ segment.state = "ACTIVE"

\* The guards of SdwanRepository::publish, in the order the code tests them.
GenerationFree(l) ==
  /\ publications[lanes[l].revision].generation = 0
  /\ segment.state = "ACTIVE"
  /\ lanes[l].generation = segment.generation + 1

Publishable(l) ==
  /\ GenerationFree(l)
  /\ lanes[l].mode = "POLICY_ONLY" => RolloutSettled
  /\ segment.attached

\* The one transaction that extends the log.  It is not fenced by the lease:
\* a commit already on its way to the database lands after the deadline too.
PublishRoutes(l) ==
  /\ lanes[l].pc = "built"
  /\ Publishable(l)
  /\ publications' = [publications EXCEPT ![lanes[l].revision] = Built(l)]
  /\ segment' = [segment EXCEPT !.generation = lanes[l].generation]
  /\ Conclude(l, "PUBLISHED", lanes[l].generation)
  /\ UNCHANGED <<control, endpoints, head, jobs, completed, faults, reader>>

\* Mutated form of PublishFailure: publication_matches is not consulted.
PublishFailureUnmatched(l) ==
  IF publications[lanes[l].revision].generation > 0 THEN {"PUBLISHED"}
  ELSE IF ~GenerationFree(l) \/ ~segment.attached THEN {"OTHER"}
  ELSE {}

\* How publish refuses what it does not write.
PublishFailure(l) ==
  IF publications[lanes[l].revision].generation > 0
  THEN {"OTHER"}                                       \* DivergentReplay
       \cup IF publications[lanes[l].revision] = Built(l)
            THEN {"PUBLISHED"} ELSE {}                 \* Replayed
  ELSE IF ~GenerationFree(l)
  THEN {"OTHER"}                        \* SegmentNotFound, GenerationGap
  ELSE IF lanes[l].mode = "POLICY_ONLY" /\ ~RolloutSettled
  THEN {"RETRY"}                                       \* RolloutPending
  ELSE IF ~Publishable(l)
  THEN {"OTHER"}                                       \* MissingProjection
  ELSE IF segment.transport # lanes[l].transport
  THEN {"RECOVERABLE", "OTHER"}         \* ScopeMismatch, MissingProjection
  ELSE {}

PublishRefused(l) ==
  /\ lanes[l].pc = "built"
  /\ \E outcome \in PublishFailure(l) :
       Conclude(l, outcome,
                IF outcome = "PUBLISHED" THEN lanes[l].generation ELSE 0)
  /\ UNCHANGED <<control, endpoints, head, jobs, segment, publications,
                 completed, faults, reader>>

ReceiptState(outcome) ==
  CASE outcome = "PUBLISHED" -> "PUBLISHED"
    [] outcome = "RETRY" -> "RETRY"
    [] OTHER -> "PERMANENT_FAILURE"

Receipted(job, l) ==
  [job EXCEPT !.state = ReceiptState(lanes[l].outcome), !.owner = NoLane,
              !.expired = FALSE,
              !.published = IF lanes[l].outcome = "PUBLISHED"
                            THEN lanes[l].generation ELSE job.published,
              !.error = IF lanes[l].outcome \in {"RECOVERABLE", "OTHER"}
                        THEN lanes[l].outcome ELSE "NONE"]

\* GenerationJobRepository::publish / fail, fenced by owner and lease; a lane
\* that lost its lease changes nothing (LeaseLost).
WriteReceipt(l) ==
  /\ lanes[l].pc = "receipt"
  /\ \/ /\ HoldsLease(l)
        /\ jobs' = [jobs EXCEPT ![lanes[l].revision] =
                      Receipted(jobs[lanes[l].revision], l)]
     \/ ~HoldsLease(l) /\ UNCHANGED jobs
  /\ lanes' = [lanes EXCEPT ![l] = IdleLane]
  /\ UNCHANGED <<control, endpoints, head, segment, publications, completed,
                 faults, reader>>

-----------------------------------------------------------------------------
(***************************************************************************)
(* Failures and the environment                                            *)
(***************************************************************************)
\* A database, file or network error, or a Geo provider that is busy, at some
\* step: classified Retryable.
TransientFailure(l) ==
  /\ lanes[l].pc \in Working /\ InTime(l)
  /\ faults < MaxFaults /\ faults' = faults + 1
  /\ Conclude(l, "RETRY", 0)
  /\ UNCHANGED <<control, endpoints, head, jobs, segment, publications,
                 completed, reader>>

\* The process dies or shuts down, or the receipt is lost: the job stays leased.
Crash(l) ==
  /\ lanes[l].pc # "idle"
  /\ faults < MaxFaults /\ faults' = faults + 1
  /\ lanes' = [lanes EXCEPT ![l] = IdleLane]
  /\ UNCHANGED <<control, endpoints, head, jobs, segment, publications,
                 completed, reader>>

\* The timeout of run_lane drops the iteration of a lane past its deadline.
Timeout(l) ==
  /\ lanes[l].pc # "idle" /\ lanes[l].overdue
  /\ lanes' = [lanes EXCEPT ![l] = IdleLane]
  /\ UNCHANGED <<control, endpoints, head, jobs, segment, publications,
                 completed, faults, reader>>

\* Every Runtime of the current generation reports ACTIVE (module
\* RuntimeRollout); receipts for older generations no longer count.
CompleteRollout ==
  /\ segment.generation > 0
  /\ segment.generation \notin completed
  /\ completed' = completed \cup {segment.generation}
  /\ UNCHANGED <<control, endpoints, head, jobs, segment, publications, lanes,
                 faults, reader>>

-----------------------------------------------------------------------------
(***************************************************************************)
(* runtime_activation_readiness: a GET of the management API that takes a  *)
(* snapshot of the Segment, with the writes segment_snapshot makes         *)
(***************************************************************************)
ReadinessRead ==
  /\ Polled /\ ~reader.reading
  /\ head > 0 /\ control.state = "ACTIVE"
  /\ reader' = [reading |-> TRUE, transport |-> control.transport,
                attached |-> control.attached]
  /\ UNCHANGED <<control, endpoints, head, jobs, segment, publications,
                 completed, lanes, faults>>

\* The transaction is rolled back when it refuses the graph.
ReadinessMaterialize ==
  /\ reader.reading
  /\ segment' \in {segment, Materialized(reader)}
  /\ reader' = IdleReader
  /\ UNCHANGED <<control, endpoints, head, jobs, publications, completed,
                 lanes, faults>>

ReadinessStep == ReadinessRead \/ ReadinessMaterialize

-----------------------------------------------------------------------------
LaneStep(l) ==
  \/ ReadGraph(l)
  \/ MaterializeSnapshot(l)
  \/ LoadTransportBindings(l)
  \/ RejectSnapshot(l)
  \/ MaterializePublication(l)
  \/ FindPublication(l)
  \/ BuildInput(l)
  \/ AwaitInput(l)
  \/ RejectInput(l)
  \/ PublishRoutes(l)
  \/ PublishRefused(l)
  \/ WriteReceipt(l)
  \/ Timeout(l)

ManagementStep ==
  \/ CreateSegment
  \/ \E attached \in BOOLEAN, paths \in Paths : MutateTransport(attached, paths)
  \/ \E paths \in Paths : MutatePolicy(paths)
  \/ \E state \in {"ACTIVE", "DISABLED"} : SetSegmentState(state)
  \/ DeleteSegment
  \/ \E e \in EndpointSets : ProvisionTransportIdentity(e)
  \/ WithdrawTransportIdentity

QueueStep ==
  \/ RefreshExpiring
  \/ RecoverFailedHead
  \/ ReconcileSupersededHead
  \/ \E r \in Revisions : ExpireLease(r)

FaultStep == \E l \in Lanes : TransientFailure(l) \/ Crash(l)

Next ==
  \/ ManagementStep
  \/ QueueStep
  \/ \E l \in Lanes : ClaimNext(l) \/ LaneStep(l)
  \/ FaultStep
  \/ ReadinessStep
  \/ CompleteRollout

Spec == Init /\ [][Next]_vars

\* The lanes, the claim poll and the clock keep going; nothing forces a
\* management request, a scanner, a fault or a Runtime's report.
Fairness ==
  /\ \A l \in Lanes : WF_vars(LaneStep(l))
  /\ WF_vars(\E l \in Lanes : ClaimNext(l))
  /\ \A r \in Revisions : WF_vars(ExpireLease(r))

FairSpec == Spec /\ Fairness

-----------------------------------------------------------------------------
(***************************************************************************)
(* Properties                                                              *)
(***************************************************************************)
TypeOK ==
  /\ control \in Control
  /\ endpoints \in Endpoints
  /\ head \in Versions
  /\ jobs \in [Revisions -> Job]
  /\ segment \in Segment
  /\ publications \in [Revisions -> Publication]
  /\ completed \subseteq Nat
  /\ lanes \in [Lanes -> Lane]
  /\ faults \in 0..MaxFaults
  /\ reader \in Reader

Published(r) == publications[r].generation > 0

\* The publication log has no gap and no fork: whatever lanes raced, died or
\* repeated a job, generations 1..current_generation are each the publication
\* of exactly one desired revision (the head check of publish and the stable
\* publication id).
LogContiguous ==
  /\ \A g \in 1..segment.generation :
       \E r \in Revisions : publications[r].generation = g
  /\ \A r \in Revisions : publications[r].generation <= segment.generation
  /\ \A r, q \in Revisions :
       Published(r) /\ publications[r].generation = publications[q].generation
         => r = q

\* A job says PUBLISHED only with the generation its own publication has, also
\* when the receipt was written by another lane than the one that published.
ReceiptTruthful ==
  \A r \in Revisions :
    jobs[r].state = "PUBLISHED" =>
      Published(r) /\ jobs[r].published = publications[r].generation

\* The queue serialises the Segment across all lanes and processes: at most
\* one of its jobs is leased, and every earlier job has ended.
OneLease ==
  \A r \in Revisions : jobs[r].state = "LEASED" =>
    \A q \in Revisions :
      /\ q < r => jobs[q].state \in Terminal
      /\ q > r => jobs[q].state \in {"ABSENT", "PENDING"}

\* A newer desired revision is never overwritten by an older one: the log's
\* order is the order of the requests.
PublicationOrder ==
  \A r, q \in Revisions :
    r < q /\ Published(r) /\ Published(q)
      => publications[r].generation < publications[q].generation

\* No lost update: when the job of the desired revision says PUBLISHED, the
\* live publication is that job's and carries the graph as it is now.
DesiredIsLive ==
  control.state = "ACTIVE" /\ head > 0 /\ jobs[head].state = "PUBLISHED" =>
    /\ publications[head].generation = segment.generation
    /\ publications[head].transport = control.transport
    /\ publications[head].policy = control.policy

\* A POLICY_ONLY publication skips the prepare barrier, so it must carry the
\* transport graph of the generation it follows, although a snapshot reads the
\* current graph with whatever edits are queued or failed around the job.
PrepareFence ==
  \A r \in Revisions :
    Published(r) /\ publications[r].mode = "POLICY_ONLY" =>
      \E q \in Revisions :
        /\ Published(q)
        /\ publications[q].generation + 1 = publications[r].generation
        /\ publications[q].transport = publications[r].transport

\* The revision published as generation g.
RevisionOf(g) == CHOOSE r \in Revisions : publications[r].generation = g

Log == INSTANCE PublicationLog WITH
         desired <- head,
         log <- [g \in 1..segment.generation |-> RevisionOf(g)]

\* The pipeline implements the append-only, request-ordered publication log,
\* through every crash, lost receipt and concurrent lane.
ImplementsLog == Log!LogSpec

\* A job that ended stays as it ended once a newer revision is desired: no
\* late receipt, retirement or recovery scan rewrites history.
HistoryKept ==
  [][\A r \in Revisions :
       r < head /\ jobs[r].state \in Terminal => jobs'[r] = jobs[r]]_vars

\* Has the graph, as it is now, all the paths and identities that build_input
\* waits for?
GraphReady == control.attached => InputReady(control.paths, endpoints)

\* Once the graph is ready and stays so, a queued transport change ends: no
\* attempt that waited on an unready snapshot leaves it behind, nor does a
\* policy job in front of it that waits for a rollout which never completes
\* (the waiting job itself is promoted to the full activation).
TransportChangeEnds ==
  <>[]GraphReady =>
    \A r \in Revisions :
      jobs[r].state \in Pending /\ jobs[r].mode = "TUNNEL"
        ~> jobs[r].state \in Terminal

\* A deleted Segment is withdrawn: its materialised row is not ACTIVE.
DeletedWithdrawn == control.state = "DELETED" => segment.state # "ACTIVE"
=============================================================================

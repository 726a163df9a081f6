---------------------- MODULE SegmentPublicationProofs ----------------------
(***************************************************************************)
(* Safety of the publication pipeline of a Segment: an inductive invariant *)
(* in four parts (the queue, the log, the order of the log, the graph the  *)
(* log carries), each part proved from the ones before it.                 *)
(***************************************************************************)
EXTENDS SegmentPublicationTypes

USE LanesAssumption, EndpointAssumption, HashAssumption, BoundsAssumption,
    FlagsAssumption

-----------------------------------------------------------------------------
(***************************************************************************)
(* The inductive invariant                                                 *)
(***************************************************************************)
\* Jobs exist exactly up to the head.
JobsDense == \A r \in Revisions : jobs[r].state = "ABSENT" <=> r > head

\* Only the first job that has not ended may have been claimed or retried.
QueueOrder ==
  \A q \in Revisions : jobs[q].state \notin {"ABSENT", "PENDING"} =>
    \A r \in 1..(q - 1) : jobs[r].state \in Terminal

LeaseOwned ==
  \A r \in Revisions : jobs[r].state = "LEASED" => jobs[r].owner \in Lanes

\* Everything before the revision a lane was given has ended, and stays ended.
LaneClaim ==
  \A l \in Lanes : lanes[l].pc # "idle" =>
    /\ lanes[l].revision \in 1..head
    /\ \A r \in 1..(lanes[l].revision - 1) : jobs[r].state \in Terminal

\* So has everything before a published revision.
PublishedEarlier ==
  \A q \in Revisions : Published(q) =>
    /\ q <= head
    /\ \A r \in 1..(q - 1) : jobs[r].state \in Terminal

QueueInv ==
  JobsDense /\ QueueOrder /\ LeaseOwned /\ LaneClaim /\ PublishedEarlier

\* A lane about to report PUBLISHED reports what the log says.
LaneGeneration ==
  \A l \in Lanes :
    lanes[l].pc = "receipt" /\ lanes[l].outcome = "PUBLISHED" =>
      /\ Published(lanes[l].revision)
      /\ lanes[l].generation = publications[lanes[l].revision].generation

\* Core never signs a generation beyond the next one.
LaneBuilt ==
  \A l \in Lanes :
    lanes[l].pc = "built" => lanes[l].generation <= segment.generation + 1

LogInv == LogContiguous /\ LaneGeneration /\ LaneBuilt /\ ReceiptTruthful

\* A lane within its deadline still holds its lease, unless the Segment was
\* deleted underneath it.
LiveLease ==
  \A l \in Lanes : lanes[l].pc \in Working /\ ~lanes[l].overdue =>
    HoldsLease(l) \/ control.state = "DELETED"

\* Before it fixes a generation, nothing newer is published or on its way.
NoneAhead ==
  \A l \in Lanes : lanes[l].pc \in Working \ {"built"} /\ ~lanes[l].overdue =>
    /\ \A q \in Revisions : Published(q) => q <= lanes[l].revision
    /\ \A k \in Lanes : lanes[k].pc \in Holding =>
         lanes[k].revision <= lanes[l].revision

\* A generation that would still be accepted belongs to the newest revision.
BuiltInOrder ==
  \A l \in Lanes :
    lanes[l].pc = "built" /\ lanes[l].generation = segment.generation + 1 =>
      \A q \in Revisions : Published(q) => q <= lanes[l].revision

OrderInv == LiveLease /\ NoneAhead /\ BuiltInOrder /\ PublicationOrder

\* Every edit is queued.
VersionsQueued == control.transport <= head /\ control.policy <= head

\* The graph a lane holds has every edit up to the lane's revision.
LaneGraph ==
  \A l \in Lanes : lanes[l].pc \in Holding =>
    /\ control.transport <= lanes[l].revision =>
         lanes[l].transport = control.transport
    /\ control.policy <= lanes[l].revision => lanes[l].policy = control.policy

\* So has the graph a revision was published with.
PublishedGraph ==
  \A r \in Revisions : Published(r) =>
    /\ control.transport <= r => publications[r].transport = control.transport
    /\ control.policy <= r => publications[r].policy = control.policy

GraphInv == VersionsQueued /\ LaneGraph /\ PublishedGraph

-----------------------------------------------------------------------------
(***************************************************************************)
(* The kinds of steps                                                      *)
(***************************************************************************)
\* The queue as an enqueuing transaction leaves it.
Extended ==
  \/ UNCHANGED <<head, jobs>>
  \/ /\ head' = head + 1 /\ head + 1 \in Revisions
     /\ jobs'[head + 1].state = "PENDING"
     /\ \A r \in Revisions : r # head + 1 => jobs'[r] = jobs[r]

\* The version of a part of the graph is kept, or new with the queued job.
Fresh(new, old) ==
  \/ new = old
  \/ new = head + 1 /\ head' = head + 1

EnqueueStep ==
  /\ Extended
  /\ Fresh(control'.transport, control.transport)
  /\ Fresh(control'.policy, control.policy)
  /\ control.state = "DELETED" => control'.state = "DELETED"
  /\ UNCHANGED <<segment, publications, lanes>>

LEMMA AppendExtends ==
  ASSUME TypeOK, NEW hash, NEW mode, AppendJob(hash, mode)
  PROVE  Extended /\ head' = head + 1
<1>1. jobs = [q \in Revisions |-> jobs[q]] /\ head + 1 \in Revisions
  BY DEF TypeOK, AppendJob, Revisions, Versions
<1>2. jobs'[head + 1] = [NoJob EXCEPT !.state = "PENDING", !.hash = hash,
                                      !.mode = mode]
  BY <1>1 DEF AppendJob
<1>3. jobs'[head + 1].state = "PENDING"
  BY <1>2 DEF NoJob
<1>4. \A r \in Revisions : r # head + 1 => jobs'[r] = jobs[r]
  BY <1>1 DEF AppendJob
<1> QED
  BY <1>1, <1>3, <1>4 DEF Extended, AppendJob

\* Every transaction that may enqueue is an EnqueueStep.
LEMMA Enqueues ==
  ASSUME TypeOK,
         ManagementStep \/ RefreshExpiring \/ ReconcileSupersededHead,
         ~DeleteSegment
  PROVE  EnqueueStep
<1> USE DEF TypeOK, Control
<1>1. ASSUME NEW mode, EnqueueGeneration(FreshHash, mode)
      PROVE  Extended /\ head' = head + 1
  BY <1>1, AppendExtends DEF EnqueueGeneration, EnqueuedBefore
<1>2. CASE CreateSegment
  BY <1>1, <1>2 DEF CreateSegment, EnqueueStep, Fresh
<1>3. ASSUME NEW attached \in BOOLEAN, NEW paths \in Paths,
             MutateTransport(attached, paths)
      PROVE  EnqueueStep
  BY <1>1, <1>3 DEF MutateTransport, EnqueueStep, Fresh
<1>4. ASSUME NEW paths \in Paths, MutatePolicy(paths) PROVE EnqueueStep
  BY <1>1, <1>4 DEF MutatePolicy, EnqueueStep, Fresh
<1>5. ASSUME NEW state \in {"ACTIVE", "DISABLED"}, SetSegmentState(state)
      PROVE  EnqueueStep
  BY <1>1, <1>5 DEF SetSegmentState, EnqueueStep, Fresh
<1>6. ASSUME NEW e, ReplaceEndpoints(e, e)
      PROVE  EnqueueStep
  <2>1. ASSUME EnqueueGeneration(e, "TUNNEL") PROVE Extended
    <3>1. CASE AppendJob(e, "TUNNEL")
      BY <3>1, AppendExtends
    <3>2. CASE UNCHANGED <<head, jobs>>
      BY <3>2 DEF Extended
    <3> QED
      BY <2>1, <3>1, <3>2 DEF EnqueueGeneration
  <2>2. ASSUME UNCHANGED <<head, jobs>> PROVE Extended
    BY <2>2 DEF Extended
  <2>3. Extended
    BY <1>6, <2>1, <2>2 DEF ReplaceEndpoints
  <2>4. UNCHANGED <<control, segment, publications, lanes>>
    BY <1>6 DEF ReplaceEndpoints
  <2> QED
    BY <2>3, <2>4 DEF EnqueueStep, Fresh
<1>7. CASE RefreshExpiring
  BY <1>7, AppendExtends DEF RefreshExpiring, EnqueueStep, Fresh
<1>8. CASE ReconcileSupersededHead
  BY <1>8, AppendExtends DEF ReconcileSupersededHead, EnqueueStep, Fresh
<1> QED
  BY <1>2, <1>3, <1>4, <1>5, <1>6, <1>7, <1>8 DEF ManagementStep,
     ProvisionTransportIdentity, WithdrawTransportIdentity

\* A lane moves on with the graph it holds, or with the one it has just read.
Advance(l) ==
  /\ lanes[l].pc \in Working \ {"built"} /\ InTime(l)
  /\ lanes'[l].pc \in Holding
  /\ \/ /\ lanes[l].pc = "claimed" /\ control.state = "ACTIVE"
        /\ lanes'[l].mode = "POLICY_ONLY" => ~TransportChangePending
        /\ lanes'[l].transport = control.transport
        /\ lanes'[l].policy = control.policy
     \/ /\ lanes[l].pc \in Holding
        /\ lanes'[l].mode = lanes[l].mode
        /\ lanes'[l].transport = lanes[l].transport
        /\ lanes'[l].policy = lanes[l].policy
  /\ lanes'[l].pc = "built" => lanes'[l].generation = segment.generation + 1

\* A lane gives up its claim or has an outcome to report.
Ends(l) ==
  \/ lanes'[l].pc = "idle"
  \/ /\ lanes'[l].pc = "receipt"
     /\ lanes'[l].outcome = "PUBLISHED" =>
          /\ publications'[lanes[l].revision].generation > 0
          /\ lanes'[l].generation = publications'[lanes[l].revision].generation

\* What a lane reports as published is published under its revision.
LEMMA ConcludeEnds ==
  ASSUME TypeOK, NEW l \in Lanes, NEW outcome, NEW g, Conclude(l, outcome, g),
         outcome = "PUBLISHED" =>
           /\ publications'[lanes[l].revision].generation > 0
           /\ g = publications'[lanes[l].revision].generation
  PROVE  Ends(l)
<1>1. lanes = [k \in Lanes |-> lanes[k]]
  BY DEF TypeOK
<1>2. /\ lanes'[l].pc = "receipt" /\ lanes'[l].outcome = outcome
      /\ lanes'[l].generation = g
  BY <1>1 DEF Conclude, IdleLane
<1> QED
  BY <1>2 DEF Ends

LaneKinds(l) ==
  /\ UNCHANGED <<control, head>>
  /\ UNCHANGED jobs \/ WriteReceipt(l)
  /\ \/ publications' = publications /\ segment'.generation = segment.generation
     \/ PublishRoutes(l)
  /\ Advance(l) \/ Ends(l)

\* Every step of a lane is of one of these kinds.
LEMMA LaneEffect ==
  ASSUME TypeInv, NEW l \in Lanes,
         LaneStep(l) \/ TransientFailure(l) \/ Crash(l)
  PROVE  LaneKinds(l)
<1> USE DEF TypeInv
<1>1. lanes[l] \in Lane /\ lanes = [k \in Lanes |-> lanes[k]]
  BY DEF TypeOK
<1>2. lanes[l].revision \in Revisions
  BY LaneFrame DEF ClaimedRevision
<1>3. CASE ReadGraph(l)
  <2>1. CASE control.state = "ACTIVE"
    <3>1. PICK m :
            /\ lanes' = [lanes EXCEPT ![l] = [@ EXCEPT !.pc = "graph",
                 !.mode = m, !.transport = control.transport,
                 !.policy = control.policy, !.attached = control.attached,
                 !.paths = control.paths]]
            /\ m = IF TransportChangePending THEN "TUNNEL"
                   ELSE jobs[lanes[l].revision].mode
      BY <1>3, <2>1, Zenon DEF ReadGraph
    <3>2. /\ lanes'[l].pc = "graph"
          /\ lanes'[l].mode = "POLICY_ONLY" => ~TransportChangePending
          /\ lanes'[l].transport = control.transport
          /\ lanes'[l].policy = control.policy
      BY <1>1, <3>1 DEF Lane
    <3>3. Advance(l)
      BY <1>3, <2>1, <3>2 DEF Advance, ReadGraph, Working, Holding
    <3> QED
      BY <1>3, <3>3 DEF LaneKinds, ReadGraph
  <2>2. CASE control.state # "ACTIVE"
    BY <1>3, <2>2, ConcludeEnds DEF ReadGraph, LaneKinds
  <2> QED
    BY <2>1, <2>2
<1>4. ASSUME NEW from \in {"graph", "bound"}, NEW to \in {"materialized", "ready"},
             EnsureControlTopology(l, from, to)
      PROVE  LaneKinds(l)
  <2>1. /\ lanes'[l].pc = to
        /\ lanes'[l].mode = lanes[l].mode
        /\ lanes'[l].transport = lanes[l].transport
        /\ lanes'[l].policy = lanes[l].policy
    BY <1>1, <1>4 DEF EnsureControlTopology, Lane
  <2>2. Advance(l)
    BY <1>4, <2>1 DEF Advance, EnsureControlTopology, Working, Holding
  <2>3. segment'.generation = segment.generation
    BY <1>4 DEF EnsureControlTopology, Materialized, TypeOK, Segment
  <2> QED
    BY <1>4, <2>2, <2>3 DEF LaneKinds, EnsureControlTopology
<1>5. CASE LoadTransportBindings(l)
  <2>1. /\ lanes'[l].pc = "bound"
        /\ lanes'[l].mode = lanes[l].mode
        /\ lanes'[l].transport = lanes[l].transport
        /\ lanes'[l].policy = lanes[l].policy
    BY <1>1, <1>5 DEF LoadTransportBindings, Lane
  <2>2. Advance(l)
    BY <1>5, <2>1 DEF Advance, LoadTransportBindings, Working, Holding
  <2> QED
    BY <1>5, <2>2 DEF LaneKinds, LoadTransportBindings
<1>6. CASE FindPublication(l)
  <2> DEFINE found == publications[lanes[l].revision].generation
  <2>1. CASE found > 0
    <3>1. Conclude(l, "PUBLISHED", found)
      BY <1>2, <1>6, <2>1 DEF FindPublication, TypeOK, Publication
    <3>2. publications' = publications
      BY <1>6 DEF FindPublication
    <3> QED
      BY <1>6, <2>1, <3>1, <3>2, ConcludeEnds DEF FindPublication, LaneKinds
  <2>2. CASE found = 0
    <3>1. /\ lanes'[l].pc = "fresh"
          /\ lanes'[l].mode = lanes[l].mode
          /\ lanes'[l].transport = lanes[l].transport
          /\ lanes'[l].policy = lanes[l].policy
      BY <1>1, <1>6, <2>2 DEF FindPublication, Lane
    <3>2. Advance(l)
      BY <1>6, <3>1 DEF Advance, FindPublication, Working, Holding
    <3> QED
      BY <1>6, <3>2 DEF LaneKinds, FindPublication
  <2> QED
    BY <1>6, <2>1, <2>2 DEF FindPublication
<1>7. CASE BuildInput(l)
  <2>1. /\ lanes'[l].pc = "built"
        /\ lanes'[l].mode = lanes[l].mode
        /\ lanes'[l].transport = lanes[l].transport
        /\ lanes'[l].policy = lanes[l].policy
        /\ lanes'[l].generation = segment.generation + 1
    BY <1>1, <1>7 DEF BuildInput, Lane
  <2>2. Advance(l)
    BY <1>7, <2>1 DEF Advance, BuildInput, Working, Holding
  <2> QED
    BY <1>7, <2>2 DEF LaneKinds, BuildInput
<1>8. CASE RejectSnapshot(l) \/ AwaitInput(l) \/ RejectInput(l)
  BY <1>8, ConcludeEnds DEF RejectSnapshot, AwaitInput, RejectInput, LaneKinds
<1>9. CASE PublishRoutes(l)
  <2>1. /\ Conclude(l, "PUBLISHED", lanes[l].generation)
        /\ publications' = [publications EXCEPT ![lanes[l].revision] = Built(l)]
        /\ lanes[l].generation = segment.generation + 1
    BY <1>9 DEF PublishRoutes, Publishable, GenerationFree
  <2>2. /\ publications'[lanes[l].revision].generation = lanes[l].generation
        /\ lanes[l].generation > 0
    BY <1>2, <2>1 DEF TypeOK, Segment, Built
  <2> QED
    BY <1>9, <2>1, <2>2, ConcludeEnds DEF PublishRoutes, LaneKinds
<1>10. CASE PublishRefused(l)
  <2>1. PICK outcome \in PublishFailure(l) :
          Conclude(l, outcome,
                   IF outcome = "PUBLISHED" THEN lanes[l].generation ELSE 0)
    BY <1>10 DEF PublishRefused
  <2>2. outcome = "PUBLISHED" =>
          /\ publications[lanes[l].revision].generation > 0
          /\ publications[lanes[l].revision] = Built(l)
    BY DEF PublishFailure
  <2>3. outcome = "PUBLISHED" =>
          /\ publications[lanes[l].revision].generation > 0
          /\ lanes[l].generation = publications[lanes[l].revision].generation
    BY <2>2 DEF Built
  <2>4. publications' = publications
    BY <1>10 DEF PublishRefused
  <2>5. Ends(l)
    BY <2>1, <2>3, <2>4, ConcludeEnds
  <2> QED
    BY <1>10, <2>5 DEF PublishRefused, LaneKinds
<1>11. CASE WriteReceipt(l) \/ Timeout(l) \/ Crash(l)
  <2>1. lanes'[l].pc = "idle"
    BY <1>1, <1>11 DEF WriteReceipt, Timeout, Crash, IdleLane
  <2> QED
    BY <1>11, <2>1 DEF WriteReceipt, Timeout, Crash, LaneKinds, Ends
<1>12. CASE TransientFailure(l)
  BY <1>12, ConcludeEnds DEF TransientFailure, LaneKinds
<1> QED
  BY <1>3, <1>4, <1>5, <1>6, <1>7, <1>8, <1>9, <1>10, <1>11, <1>12
     DEF LaneStep, MaterializeSnapshot, MaterializePublication

\* The receipt of the holder of the lease; anyone else's changes nothing.
LEMMA ReceiptEffect ==
  ASSUME TypeInv, NEW l \in Lanes, WriteReceipt(l)
  PROVE  \/ UNCHANGED jobs
         \/ /\ HoldsLease(l) /\ lanes[l].pc = "receipt"
            /\ \A q \in Revisions : q # lanes[l].revision => jobs'[q] = jobs[q]
            /\ jobs'[lanes[l].revision].state \in Terminal \cup {"RETRY"}
            /\ jobs'[lanes[l].revision].state = "PUBLISHED" =>
                 /\ lanes[l].outcome = "PUBLISHED"
                 /\ jobs'[lanes[l].revision].published = lanes[l].generation
<1> USE DEF TypeInv
<1>1. CASE ~HoldsLease(l)
  BY <1>1 DEF WriteReceipt
<1>2. CASE HoldsLease(l)
  <2> DEFINE r == lanes[l].revision
  <2>1. jobs = [q \in Revisions |-> jobs[q]] /\ r \in Revisions /\ jobs[r] \in Job
    BY <1>2 DEF TypeOK, HoldsLease
  <2>2. jobs' = [jobs EXCEPT ![r] = Receipted(jobs[r], l)]
    BY <1>2 DEF WriteReceipt
  <2>3. jobs'[r] = Receipted(jobs[r], l)
        /\ \A q \in Revisions : q # r => jobs'[q] = jobs[q]
    BY <2>1, <2>2
  <2>4. /\ Receipted(jobs[r], l).state = ReceiptState(lanes[l].outcome)
        /\ lanes[l].outcome = "PUBLISHED" =>
             Receipted(jobs[r], l).published = lanes[l].generation
    BY <2>1 DEF Receipted, Job
  <2>5. /\ ReceiptState(lanes[l].outcome) \in Terminal \cup {"RETRY"}
        /\ ReceiptState(lanes[l].outcome) = "PUBLISHED" =>
             lanes[l].outcome = "PUBLISHED"
    BY DEF ReceiptState, Terminal
  <2> QED
    BY <1>2, <2>3, <2>4, <2>5 DEF WriteReceipt
<1> QED
  BY <1>1, <1>2

RecoverEffect ==
  /\ jobs[head].state = "PERMANENT_FAILURE" /\ jobs'[head].state = "RETRY"
  /\ head \in Revisions
  /\ \A q \in Revisions : q # head => jobs'[q] = jobs[q]
  /\ UNCHANGED <<control, head, segment, publications, lanes>>

LEMMA Recovers ==
  ASSUME TypeOK, RecoverFailedHead
  PROVE  RecoverEffect
<1>1. head \in Revisions /\ jobs = [q \in Revisions |-> jobs[q]]
  BY DEF RecoverFailedHead, TypeOK, Revisions, Versions
<1>2. jobs[head] \in Job
  BY <1>1 DEF TypeOK
<1>3. jobs'[head].state = "RETRY"
  BY <1>1, <1>2 DEF RecoverFailedHead, Job
<1>4. \A q \in Revisions : q # head => jobs'[q] = jobs[q]
  BY <1>1 DEF RecoverFailedHead
<1> QED
  BY <1>1, <1>3, <1>4 DEF RecoverFailedHead, RecoverEffect

DeleteEffect ==
  /\ \A r \in Revisions :
       \/ jobs[r].state \notin Pending /\ jobs'[r] = jobs[r]
       \/ jobs[r].state \in Pending /\ jobs'[r].state = "PERMANENT_FAILURE"
  /\ control' = [control EXCEPT !.state = "DELETED"]
  /\ segment'.generation = segment.generation
  /\ UNCHANGED <<head, publications, lanes>>

LEMMA Deletes ==
  ASSUME TypeOK, DeleteSegment
  PROVE  DeleteEffect
<1>1. \A r \in Revisions : jobs[r] \in Job
  BY DEF TypeOK
<1>2. \A r \in Revisions : jobs'[r] = RetiredJob(jobs[r])
  BY DEF DeleteSegment
<1>3. \A r \in Revisions :
        \/ jobs[r].state \notin Pending /\ jobs'[r] = jobs[r]
        \/ jobs[r].state \in Pending /\ jobs'[r].state = "PERMANENT_FAILURE"
  BY <1>1, <1>2 DEF RetiredJob, Job
<1>4. segment'.generation = segment.generation
  BY DEF DeleteSegment, TypeOK, Segment
<1> QED
  BY <1>3, <1>4 DEF DeleteSegment, DeleteEffect

\* Nothing the invariant looks at changes.
Quiet ==
  /\ UNCHANGED <<control, head, jobs, publications, lanes>>
  /\ segment'.generation = segment.generation

\* A step is of one of these kinds.
LEMMA StepKinds ==
  ASSUME TypeInv, [Next]_vars
  PROVE  \/ EnqueueStep
         \/ DeleteSegment /\ DeleteEffect
         \/ RecoverEffect
         \/ \E r \in Revisions : ExpireLease(r)
         \/ \E l \in Lanes : ClaimNext(l)
         \/ \E l \in Lanes :
              (LaneStep(l) \/ TransientFailure(l) \/ Crash(l)) /\ LaneKinds(l)
         \/ Quiet
<1> USE DEF TypeInv
<1>1. CASE DeleteSegment
  BY <1>1, Deletes
<1>2. CASE (ManagementStep \/ RefreshExpiring \/ ReconcileSupersededHead)
             /\ ~DeleteSegment
  BY <1>2, Enqueues
<1>3. CASE RecoverFailedHead
  BY <1>3, Recovers
<1>4. ASSUME NEW l \in Lanes,
             LaneStep(l) \/ TransientFailure(l) \/ Crash(l)
      PROVE  LaneKinds(l)
  BY <1>4, LaneEffect
<1>5. CASE CompleteRollout \/ ReadinessStep \/ UNCHANGED vars
  BY <1>5 DEF CompleteRollout, ReadinessStep, ReadinessRead,
     ReadinessMaterialize, Materialized, vars, Quiet, TypeOK, Segment
<1> QED
  BY <1>1, <1>2, <1>3, <1>4, <1>5 DEF Next, QueueStep, FaultStep

-----------------------------------------------------------------------------
(***************************************************************************)
(* The queue                                                               *)
(***************************************************************************)
\* Ended jobs before the head are never written again.
LEMMA HistoryStep ==
  ASSUME TypeInv, [Next]_vars, NEW r \in Revisions, r < head,
         jobs[r].state \in Terminal
  PROVE  jobs'[r] = jobs[r]
<1> USE DEF TypeInv, Terminal
<1>1. head \in Nat /\ r \in Nat
  BY DEF TypeOK, Versions, Revisions
<1>2. CASE EnqueueStep
  BY <1>1, <1>2 DEF EnqueueStep, Extended
<1>3. CASE DeleteEffect
  BY <1>3 DEF DeleteEffect, Pending
<1>4. CASE RecoverEffect
  BY <1>1, <1>4 DEF RecoverEffect
<1>5. ASSUME NEW q \in Revisions, ExpireLease(q) PROVE jobs'[r] = jobs[r]
  BY <1>5, ExpireEffect DEF ExpireLease
<1>6. ASSUME NEW l \in Lanes, ClaimNext(l) PROVE jobs'[r] = jobs[r]
  BY <1>6, ClaimEffect DEF Claimable
<1>7. ASSUME NEW l \in Lanes, LaneKinds(l) PROVE jobs'[r] = jobs[r]
  <2>1. CASE UNCHANGED jobs
    BY <2>1
  <2>2. CASE WriteReceipt(l)
    BY <2>2, ReceiptEffect DEF HoldsLease
  <2> QED
    BY <1>7, <2>1, <2>2 DEF LaneKinds
<1>8. CASE Quiet
  BY <1>8 DEF Quiet
<1> QED
  BY <1>2, <1>3, <1>4, <1>5, <1>6, <1>7, <1>8, StepKinds

\* A job that ended stays as it ended once a newer revision is desired: every
\* write of claim_next, of a receipt and of the recovery scan tests the state
\* of the row it writes, and the scan is confined to the head.
THEOREM HistoryIsKept == Spec => HistoryKept
<1>1. TypeInv /\ [Next]_vars =>
        [\A r \in Revisions : r < head /\ jobs[r].state \in Terminal
           => jobs'[r] = jobs[r]]_vars
  BY HistoryStep
<1> QED
  BY <1>1, TypeInductive, PTL DEF Spec, HistoryKept

\* The head never goes back.
LEMMA HeadGrows ==
  ASSUME TypeInv, [Next]_vars
  PROVE  head \in Nat /\ head' \in Nat /\ head <= head'
<1>1. head \in Nat
  BY DEF TypeInv, TypeOK, Versions
<1>2. head' = head \/ head' = head + 1
  BY StepKinds DEF EnqueueStep, Extended, DeleteEffect, RecoverEffect,
     ExpireLease, ClaimNext, LaneKinds, Quiet
<1> QED
  BY <1>1, <1>2

\* One write of a job that is not behind the front of the queue keeps it in
\* order.
LEMMA FrontWrite ==
  ASSUME TypeInv, JobsDense, QueueOrder, UNCHANGED head, NEW r \in Revisions,
         jobs[r].state # "ABSENT", jobs'[r].state # "ABSENT",
         \A q \in Revisions : q # r => jobs'[q] = jobs[q],
         \A q \in 1..(r - 1) : jobs[q].state \in Terminal,
         jobs[r].state \notin Terminal \/ r = head
  PROVE  JobsDense' /\ QueueOrder'
<1>1. head \in Nat /\ Revisions \subseteq Nat
  BY DEF TypeInv, TypeOK, Versions, Revisions
<1>2. JobsDense'
  BY DEF JobsDense
<1>3. ASSUME NEW q \in Revisions, jobs'[q].state \notin {"ABSENT", "PENDING"},
             NEW p \in 1..(q - 1)
      PROVE  jobs'[p].state \in Terminal
  <2>1. p \in Revisions /\ p < q
    BY DEF Revisions
  <2>2. CASE q = r
    BY <1>1, <2>1, <2>2
  <2>3. CASE q # r
    <3>1. jobs[p].state \in Terminal /\ r # q /\ q <= head
      BY <1>1, <1>3, <2>3 DEF QueueOrder, JobsDense
    <3>2. p # r
      BY <1>1, <2>1, <3>1
    <3> QED
      BY <2>1, <3>1, <3>2
  <2> QED
    BY <2>2, <2>3
<1> QED
  BY <1>2, <1>3 DEF QueueOrder

LEMMA QueueJobs ==
  ASSUME TypeInv, QueueInv, [Next]_vars
  PROVE  JobsDense' /\ QueueOrder' /\ LeaseOwned'
<1> USE DEF QueueInv
<1>1. head \in Nat /\ Revisions \subseteq Nat
  BY DEF TypeInv, TypeOK, Versions, Revisions
<1>2. CASE EnqueueStep
  <2>1. CASE UNCHANGED <<head, jobs>>
    BY <2>1 DEF JobsDense, QueueOrder, LeaseOwned
  <2>2. CASE ~ UNCHANGED <<head, jobs>>
    <3>1. /\ head' = head + 1 /\ head + 1 \in Revisions
          /\ jobs'[head + 1].state = "PENDING"
          /\ \A r \in Revisions : r # head + 1 => jobs'[r] = jobs[r]
      BY <1>2, <2>2 DEF EnqueueStep, Extended
    <3>2. JobsDense'
      BY <1>1, <3>1 DEF JobsDense
    <3>3. QueueOrder'
      <4> SUFFICES ASSUME NEW q \in Revisions,
                          jobs'[q].state \notin {"ABSENT", "PENDING"},
                          NEW p \in 1..(q - 1)
                   PROVE  jobs'[p].state \in Terminal
        BY DEF QueueOrder
      <4>1. q # head + 1 /\ jobs[q] = jobs'[q]
        BY <3>1
      <4>2. q <= head /\ jobs[p].state \in Terminal
        BY <1>1, <4>1 DEF JobsDense, QueueOrder
      <4>3. p \in Revisions /\ p # head + 1
        BY <1>1, <4>2 DEF Revisions
      <4> QED
        BY <3>1, <4>2, <4>3
    <3>4. LeaseOwned'
      BY <3>1 DEF LeaseOwned
    <3> QED
      BY <3>2, <3>3, <3>4
  <2> QED
    BY <2>1, <2>2
<1>3. CASE DeleteEffect
  <2>1. \A r \in Revisions :
          /\ jobs'[r].state = "ABSENT" <=> jobs[r].state = "ABSENT"
          /\ jobs'[r].state \in Terminal \cup {"ABSENT"}
    BY <1>3 DEF DeleteEffect, Pending, Terminal, TypeInv, TypeOK, Job
  <2>2. JobsDense' /\ LeaseOwned'
    BY <1>3, <2>1 DEF DeleteEffect, JobsDense, LeaseOwned, Terminal
  <2>3. QueueOrder'
    <3> SUFFICES ASSUME NEW q \in Revisions, jobs'[q].state # "ABSENT",
                        NEW p \in 1..(q - 1)
                 PROVE  jobs'[p].state \in Terminal
      BY DEF QueueOrder
    <3>1. p \in Revisions /\ p <= head
      BY <1>1, <2>1 DEF JobsDense, Revisions
    <3> QED
      BY <1>1, <2>1, <3>1 DEF JobsDense
  <2> QED
    BY <2>2, <2>3
<1>4. CASE RecoverEffect
  <2>1. \A q \in 1..(head - 1) : jobs[q].state \in Terminal
    BY <1>4 DEF RecoverEffect, QueueOrder
  <2>2. JobsDense' /\ QueueOrder'
    BY <1>4, <2>1, FrontWrite DEF RecoverEffect
  <2>3. LeaseOwned'
    BY <1>4 DEF RecoverEffect, LeaseOwned
  <2> QED
    BY <2>2, <2>3
<1>5. ASSUME NEW r \in Revisions, ExpireLease(r)
      PROVE  JobsDense' /\ QueueOrder' /\ LeaseOwned'
  <2>1. /\ \A q \in Revisions : jobs'[q].state = jobs[q].state
        /\ \A q \in Revisions : jobs[q].state = "LEASED" =>
             jobs'[q].owner = jobs[q].owner
    BY <1>5, ExpireEffect DEF ExpireLease, TypeInv
  <2>2. UNCHANGED head
    BY <1>5 DEF ExpireLease
  <2>3. \A q \in Revisions : \A p \in 1..(q - 1) : p \in Revisions
    BY <1>1 DEF Revisions
  <2> QED
    BY <2>1, <2>2, <2>3 DEF JobsDense, QueueOrder, LeaseOwned
<1>6. ASSUME NEW l \in Lanes, ClaimNext(l)
      PROVE  JobsDense' /\ QueueOrder' /\ LeaseOwned'
  <2>1. PICK r \in Revisions :
           /\ Claimable(r)
           /\ \A q \in Revisions : q # r => jobs'[q] = jobs[q]
           /\ jobs'[r] = [jobs[r] EXCEPT !.state = "LEASED", !.owner = l,
                                          !.expired = FALSE, !.error = "NONE"]
    BY <1>6, ClaimEffect DEF TypeInv
  <2>2. jobs[r] \in Job
    BY DEF TypeInv, TypeOK
  <2>3. jobs'[r].state = "LEASED" /\ jobs'[r].owner = l
    BY <2>1, <2>2 DEF Job
  <2>4. UNCHANGED head
    BY <1>6 DEF ClaimNext
  <2>5. /\ jobs[r].state \notin Terminal /\ jobs[r].state # "ABSENT"
        /\ \A q \in 1..(r - 1) : jobs[q].state \in Terminal
    BY <2>1 DEF Claimable, Terminal
  <2>6. JobsDense' /\ QueueOrder'
    BY <2>1, <2>3, <2>4, <2>5, FrontWrite
  <2>7. LeaseOwned'
    BY <2>1, <2>3 DEF LeaseOwned
  <2> QED
    BY <2>6, <2>7
<1>7. ASSUME NEW l \in Lanes, LaneKinds(l)
      PROVE  JobsDense' /\ QueueOrder' /\ LeaseOwned'
  <2>1. UNCHANGED head
    BY <1>7 DEF LaneKinds
  <2>2. CASE UNCHANGED jobs
    BY <2>1, <2>2 DEF JobsDense, QueueOrder, LeaseOwned
  <2>3. CASE WriteReceipt(l) /\ ~ UNCHANGED jobs
    <3> DEFINE r == lanes[l].revision
    <3>1. /\ r \in Revisions /\ jobs[r].state = "LEASED"
          /\ \A q \in Revisions : q # r => jobs'[q] = jobs[q]
          /\ jobs'[r].state \in Terminal \cup {"RETRY"}
      BY <2>3, ReceiptEffect DEF HoldsLease
    <3>2. \A q \in 1..(r - 1) : jobs[q].state \in Terminal
      BY <3>1 DEF QueueOrder
    <3>3. JobsDense' /\ QueueOrder'
      BY <2>1, <3>1, <3>2, FrontWrite DEF Terminal
    <3>4. LeaseOwned'
      BY <3>1 DEF LeaseOwned, Terminal
    <3> QED
      BY <3>3, <3>4
  <2> QED
    BY <1>7, <2>2, <2>3 DEF LaneKinds
<1>8. CASE Quiet
  BY <1>8 DEF Quiet, JobsDense, QueueOrder, LeaseOwned
<1> QED
  BY <1>2, <1>3, <1>4, <1>5, <1>6, <1>7, <1>8, StepKinds

\* Only PublishRoutes extends the log.
LEMMA LogStep ==
  ASSUME TypeInv, [Next]_vars
  PROVE  \/ publications' = publications /\ segment'.generation = segment.generation
         \/ \E l \in Lanes : PublishRoutes(l)
BY StepKinds DEF EnqueueStep, DeleteEffect, RecoverEffect, ExpireLease,
   ClaimNext, LaneKinds, Quiet

\* What a step may do to one lane.
LEMMA LanesStep ==
  ASSUME TypeInv, [Next]_vars, NEW k \in Lanes
  PROVE  \/ SameWork(k) /\ (lanes'[k].overdue = lanes[k].overdue \/ lanes'[k].overdue)
         \/ /\ ClaimNext(k)
            /\ \E r \in Revisions :
                 /\ Claimable(r)
                 /\ \A q \in Revisions : q # r => jobs'[q] = jobs[q]
                 /\ jobs'[r].state = "LEASED" /\ jobs'[r].owner = k
                 /\ ~jobs'[r].expired
                 /\ lanes'[k].pc = "claimed" /\ lanes'[k].revision = r
         \/ /\ lanes[k].pc # "idle"
            /\ LaneStep(k) \/ TransientFailure(k) \/ Crash(k)
            /\ LaneKinds(k)
            /\ \/ lanes'[k].pc = "idle"
               \/ /\ lanes'[k].revision = lanes[k].revision
                  /\ lanes'[k].overdue = lanes[k].overdue
<1> DEFINE Goal ==
         \/ SameWork(k) /\ (lanes'[k].overdue = lanes[k].overdue \/ lanes'[k].overdue)
         \/ /\ ClaimNext(k)
            /\ \E r \in Revisions :
                 /\ Claimable(r)
                 /\ \A q \in Revisions : q # r => jobs'[q] = jobs[q]
                 /\ jobs'[r].state = "LEASED" /\ jobs'[r].owner = k
                 /\ ~jobs'[r].expired
                 /\ lanes'[k].pc = "claimed" /\ lanes'[k].revision = r
         \/ /\ lanes[k].pc # "idle"
            /\ LaneStep(k) \/ TransientFailure(k) \/ Crash(k)
            /\ LaneKinds(k)
            /\ \/ lanes'[k].pc = "idle"
               \/ /\ lanes'[k].revision = lanes[k].revision
                  /\ lanes'[k].overdue = lanes[k].overdue
<1> USE DEF TypeInv
<1>1. ASSUME lanes'[k] = lanes[k] PROVE Goal
  BY <1>1 DEF SameWork
<1>2. CASE UNCHANGED lanes
  BY <1>1, <1>2
<1>3. ASSUME NEW r \in Revisions, ExpireLease(r) PROVE Goal
  BY <1>3, ExpireEffect
<1>4. ASSUME NEW l \in Lanes, ClaimNext(l) PROVE Goal
  <2>1. PICK r \in Revisions :
           /\ Claimable(r)
           /\ \A q \in Revisions : q # r => jobs'[q] = jobs[q]
           /\ jobs'[r] = [jobs[r] EXCEPT !.state = "LEASED", !.owner = l,
                                          !.expired = FALSE, !.error = "NONE"]
           /\ \A j \in Lanes : j # l => lanes'[j] = lanes[j]
           /\ lanes'[l] = [IdleLane EXCEPT !.pc = "claimed", !.revision = r]
    BY <1>4, ClaimEffect
  <2>2. CASE k # l
    BY <1>1, <2>1, <2>2
  <2>3. CASE k = l
    <3>1. jobs[r] \in Job
      BY DEF TypeOK
    <3>2. /\ jobs'[r].state = "LEASED" /\ jobs'[r].owner = l
          /\ ~jobs'[r].expired
      BY <2>1, <3>1 DEF Job
    <3>3. lanes'[l].pc = "claimed" /\ lanes'[l].revision = r
      BY <2>1 DEF IdleLane
    <3> QED
      BY <1>4, <2>1, <2>3, <3>2, <3>3
  <2> QED
    BY <2>2, <2>3
<1>5. ASSUME NEW l \in Lanes,
             LaneStep(l) \/ TransientFailure(l) \/ Crash(l), LaneKinds(l)
      PROVE  Goal
  <2>1. CASE k # l
    BY <1>1, <1>5, <2>1, LaneFrame
  <2>2. CASE k = l
    BY <1>5, <2>2, LaneFrame DEF IdleLane
  <2> QED
    BY <2>1, <2>2
<1> QED
  BY <1>2, <1>3, <1>4, <1>5, StepKinds DEF EnqueueStep, DeleteEffect,
     RecoverEffect, Quiet

LEMMA QueueStepInv ==
  ASSUME TypeInv, QueueInv, [Next]_vars
  PROVE  QueueInv'
<1> USE DEF QueueInv
<1>1. /\ head \in Nat /\ head' \in Nat /\ head <= head'
      /\ Revisions \subseteq Nat /\ TypeInv'
  BY HeadGrows, TypeStep DEF Revisions
<1>2. \A q \in Revisions : \A r \in 1..(q - 1) : r \in Revisions /\ r < q
  BY <1>1 DEF Revisions
<1>3. LaneClaim'
  <2> SUFFICES ASSUME NEW k \in Lanes, lanes'[k].pc # "idle"
               PROVE  /\ lanes'[k].revision \in 1..(head')
                      /\ \A r \in 1..(lanes'[k].revision - 1) :
                           jobs'[r].state \in Terminal
    BY DEF LaneClaim
  <2>1. CASE lanes[k].pc # "idle" /\ lanes'[k].revision = lanes[k].revision
    <3>1. /\ lanes[k].revision \in 1..head /\ lanes[k].revision \in Revisions
          /\ \A r \in 1..(lanes[k].revision - 1) : jobs[r].state \in Terminal
      BY <2>1 DEF LaneClaim, TypeInv, ClaimedRevision
    <3>2. ASSUME NEW r \in 1..(lanes[k].revision - 1)
          PROVE  jobs'[r].state \in Terminal
      <4>1. r \in Revisions /\ r < head /\ jobs[r].state \in Terminal
        BY <1>1, <1>2, <3>1
      <4> QED
        BY <4>1, HistoryStep
    <3> QED
      BY <1>1, <2>1, <3>1, <3>2
  <2>2. CASE \E r \in Revisions :
                 /\ Claimable(r)
                 /\ \A q \in Revisions : q # r => jobs'[q] = jobs[q]
                 /\ jobs'[r].state = "LEASED"
                 /\ lanes'[k].revision = r
    <3>1. PICK r \in Revisions :
                 /\ Claimable(r)
                 /\ \A q \in Revisions : q # r => jobs'[q] = jobs[q]
                 /\ lanes'[k].revision = r
      BY <2>2
    <3>2. r <= head
      BY <1>1, <3>1 DEF Claimable, JobsDense
    <3>3. \A q \in 1..(r - 1) : jobs'[q].state \in Terminal
      BY <1>1, <1>2, <3>1 DEF Claimable
    <3>4. r \in 1..(head')
      BY <1>1, <3>2 DEF Revisions
    <3> QED
      BY <3>1, <3>3, <3>4
  <2> QED
    BY <2>1, <2>2, LanesStep DEF SameWork
<1>4. PublishedEarlier'
  <2> SUFFICES ASSUME NEW q \in Revisions, publications'[q].generation > 0
               PROVE  /\ q <= head'
                      /\ \A r \in 1..(q - 1) : jobs'[r].state \in Terminal
    BY DEF PublishedEarlier, Published
  <2>1. /\ q <= head
        /\ \A r \in 1..(q - 1) : jobs[r].state \in Terminal
    <3>1. CASE Published(q)
      BY <3>1 DEF PublishedEarlier
    <3>2. CASE ~Published(q)
      <4>1. PICK l \in Lanes : PublishRoutes(l)
        BY <3>2, LogStep DEF Published
      <4>2. q = lanes[l].revision
        BY <3>2, <4>1 DEF PublishRoutes, Published, TypeInv, TypeOK
      <4> QED
        BY <1>1, <4>1, <4>2 DEF PublishRoutes, LaneClaim
    <3> QED
      BY <3>1, <3>2
  <2>2. ASSUME NEW r \in 1..(q - 1)
        PROVE  jobs'[r].state \in Terminal
    <3>1. r \in Revisions /\ r < head /\ jobs[r].state \in Terminal
      BY <1>1, <1>2, <2>1
    <3> QED
      BY <3>1, HistoryStep
  <2> QED
    BY <1>1, <2>1, <2>2
<1> QED
  BY <1>3, <1>4, QueueJobs

LEMMA QueueInductive == Spec => [](TypeInv /\ QueueInv)
<1>1. Init => QueueInv
  <2> SUFFICES ASSUME Init PROVE QueueInv
    OBVIOUS
  <2>1. head = 0 /\ \A r \in Revisions : jobs[r].state = "ABSENT"
    BY DEF Init, NoJob
  <2>2. \A l \in Lanes : lanes[l].pc = "idle"
    BY DEF Init, IdleLane
  <2>3. \A r \in Revisions : ~Published(r)
    BY DEF Init, NoPublication, Published
  <2> QED
    BY <2>1, <2>2, <2>3 DEF QueueInv, JobsDense, QueueOrder, LeaseOwned,
       LaneClaim, PublishedEarlier, Revisions
<1>2. TypeInv /\ QueueInv /\ [Next]_vars => QueueInv'
  BY QueueStepInv
<1> QED
  BY <1>1, <1>2, TypeInductive, PTL DEF Spec

\* At most one job of the Segment is leased at any time, behind ended jobs only
\* and before untouched ones only: the NOT EXISTS clause of claim_next keeps
\* this although recovery reopens jobs and deletion ends them underneath.
THEOREM LeaseIsUnique == Spec => []OneLease
<1>1. TypeInv /\ QueueInv => OneLease
  <2> SUFFICES ASSUME TypeInv, QueueInv, NEW r \in Revisions,
                      jobs[r].state = "LEASED", NEW q \in Revisions
               PROVE  /\ q < r => jobs[q].state \in Terminal
                      /\ q > r => jobs[q].state \in {"ABSENT", "PENDING"}
    BY DEF OneLease
  <2>1. r \in Nat /\ q \in Nat /\ r >= 1 /\ q >= 1
    BY DEF Revisions
  <2> QED
    BY <2>1 DEF QueueInv, QueueOrder, Terminal
<1> QED
  BY <1>1, QueueInductive, PTL

-----------------------------------------------------------------------------
(***************************************************************************)
(* The log                                                                 *)
(***************************************************************************)
\* What PublishRoutes does to the log.
LEMMA PublishEffect ==
  ASSUME TypeInv, NEW l \in Lanes, PublishRoutes(l)
  PROVE  /\ lanes[l].pc = "built" /\ lanes[l].revision \in Revisions
         /\ ~Published(lanes[l].revision)
         /\ lanes[l].generation = segment.generation + 1
         /\ segment.generation \in Nat
         /\ segment'.generation = segment.generation + 1
         /\ publications'[lanes[l].revision].generation = segment.generation + 1
         /\ publications'[lanes[l].revision].mode = lanes[l].mode
         /\ publications'[lanes[l].revision].transport = lanes[l].transport
         /\ publications'[lanes[l].revision].policy = lanes[l].policy
         /\ \A q \in Revisions : q # lanes[l].revision =>
              publications'[q] = publications[q]
<1> USE DEF TypeInv
<1>1. lanes[l].pc = "built" /\ lanes[l].revision \in Revisions
  BY DEF PublishRoutes, ClaimedRevision
<1>2. /\ lanes[l].generation = segment.generation + 1
      /\ segment.generation \in Nat /\ ~Published(lanes[l].revision)
  BY DEF PublishRoutes, Publishable, GenerationFree, TypeOK, Segment, Published
<1>3. publications' = [publications EXCEPT ![lanes[l].revision] = Built(l)]
      /\ segment' = [segment EXCEPT !.generation = lanes[l].generation]
  BY DEF PublishRoutes
<1>4. segment'.generation = segment.generation + 1
  BY <1>2, <1>3 DEF TypeOK, Segment
<1>5. /\ publications'[lanes[l].revision] = Built(l)
      /\ \A q \in Revisions : q # lanes[l].revision =>
           publications'[q] = publications[q]
  BY <1>1, <1>3 DEF TypeOK
<1> QED
  BY <1>1, <1>2, <1>4, <1>5 DEF Built

\* A publication is never rewritten.
LEMMA PublishedStays ==
  ASSUME TypeInv, [Next]_vars, NEW r \in Revisions, Published(r)
  PROVE  publications'[r] = publications[r]
BY LogStep, PublishEffect

\* A job that says PUBLISHED said so before, or a receipt just said it.
LEMMA PublishedJobs ==
  ASSUME TypeInv, [Next]_vars, NEW r \in Revisions,
         jobs'[r].state = "PUBLISHED"
  PROVE  \/ jobs[r].state = "PUBLISHED" /\ jobs'[r] = jobs[r]
         \/ \E l \in Lanes :
              /\ lanes[l].pc = "receipt" /\ lanes[l].outcome = "PUBLISHED"
              /\ lanes[l].revision = r
              /\ jobs'[r].published = lanes[l].generation
              /\ publications' = publications
<1>1. CASE EnqueueStep
  BY <1>1 DEF EnqueueStep, Extended
<1>2. CASE DeleteEffect
  BY <1>2 DEF DeleteEffect
<1>3. CASE RecoverEffect
  BY <1>3 DEF RecoverEffect
<1>4. ASSUME NEW q \in Revisions, ExpireLease(q) PROVE jobs'[r] = jobs[r]
  BY <1>4, ExpireEffect DEF TypeInv
<1>5. ASSUME NEW l \in Lanes, ClaimNext(l) PROVE jobs'[r] = jobs[r]
  <2>1. PICK q \in Revisions :
           /\ \A p \in Revisions : p # q => jobs'[p] = jobs[p]
           /\ jobs'[q] = [jobs[q] EXCEPT !.state = "LEASED", !.owner = l,
                                          !.expired = FALSE, !.error = "NONE"]
    BY <1>5, ClaimEffect DEF TypeInv
  <2>2. jobs[q] \in Job
    BY DEF TypeInv, TypeOK
  <2>3. jobs'[q].state = "LEASED"
    BY <2>1, <2>2 DEF Job
  <2> QED
    BY <2>1, <2>3
<1>6. ASSUME NEW l \in Lanes, LaneKinds(l)
      PROVE  \/ jobs'[r] = jobs[r]
             \/ /\ lanes[l].pc = "receipt" /\ lanes[l].outcome = "PUBLISHED"
                /\ lanes[l].revision = r
                /\ jobs'[r].published = lanes[l].generation
                /\ publications' = publications
  <2>1. CASE UNCHANGED jobs
    BY <2>1
  <2>2. CASE WriteReceipt(l)
    BY <2>2, ReceiptEffect DEF WriteReceipt
  <2> QED
    BY <1>6, <2>1, <2>2 DEF LaneKinds
<1>7. CASE Quiet
  BY <1>7 DEF Quiet
<1> QED
  BY <1>1, <1>2, <1>3, <1>4, <1>5, <1>6, <1>7, StepKinds

LEMMA LogStepInv ==
  ASSUME TypeInv, LogInv, [Next]_vars
  PROVE  LogInv'
<1> USE DEF LogInv
<1>1. LogContiguous'
  <2>1. CASE publications' = publications /\ segment'.generation = segment.generation
    BY <2>1 DEF LogContiguous, Published
  <2>2. ASSUME NEW l \in Lanes, PublishRoutes(l) PROVE LogContiguous'
    <3> DEFINE n == lanes[l].revision
    <3>1. /\ n \in Revisions /\ segment.generation \in Nat
          /\ segment'.generation = segment.generation + 1
          /\ publications'[n].generation = segment.generation + 1
          /\ \A q \in Revisions : q # n => publications'[q] = publications[q]
          /\ ~Published(n)
      BY <2>2, PublishEffect
    <3>2. \A r \in Revisions : publications[r].generation \in Nat
      BY DEF TypeInv, TypeOK, Publication
    <3>3. ASSUME NEW g \in 1..(segment'.generation)
          PROVE  \E r \in Revisions : publications'[r].generation = g
      <4>1. CASE g = segment.generation + 1
        BY <3>1, <4>1
      <4>2. CASE g # segment.generation + 1
        <5>1. g \in 1..segment.generation
          BY <3>1, <4>2
        <5>2. PICK r \in Revisions : publications[r].generation = g
          BY <5>1 DEF LogContiguous
        <5>3. r # n
          BY <3>1, <5>1, <5>2 DEF Published
        <5> QED
          BY <3>1, <5>2, <5>3
      <4> QED
        BY <4>1, <4>2
    <3>4. \A r \in Revisions : publications'[r].generation <= segment'.generation
      BY <3>1, <3>2 DEF LogContiguous
    <3>5. ASSUME NEW r \in Revisions, NEW q \in Revisions,
                 publications'[r].generation > 0,
                 publications'[r].generation = publications'[q].generation
          PROVE  r = q
      <4>1. \A p \in Revisions : publications[p].generation <= segment.generation
        BY DEF LogContiguous
      <4>2. (r = n) <=> (q = n)
        BY <3>1, <3>2, <3>5, <4>1
      <4> QED
        BY <3>1, <3>5, <4>2 DEF LogContiguous, Published
    <3> QED
      BY <3>3, <3>4, <3>5 DEF LogContiguous, Published
  <2> QED
    BY <2>1, <2>2, LogStep
<1>2. LaneGeneration'
  <2> SUFFICES ASSUME NEW k \in Lanes, lanes'[k].pc = "receipt",
                      lanes'[k].outcome = "PUBLISHED"
               PROVE  /\ publications'[lanes'[k].revision].generation > 0
                      /\ lanes'[k].generation
                           = publications'[lanes'[k].revision].generation
    BY DEF LaneGeneration, Published
  <2>1. CASE SameWork(k)
    <3>1. Published(lanes[k].revision) /\ lanes[k].revision \in Revisions
      BY <2>1 DEF SameWork, LaneGeneration, TypeInv, ClaimedRevision
    <3> QED
      BY <2>1, <3>1, PublishedStays DEF SameWork, LaneGeneration, Published
  <2>2. CASE LaneKinds(k) /\ lanes'[k].revision = lanes[k].revision
    <3>1. Ends(k)
      BY <2>2 DEF LaneKinds, Advance, Holding, Working
    <3> QED
      BY <2>2, <3>1 DEF Ends
  <2> QED
    BY <2>1, <2>2, LanesStep
<1>3. ReceiptTruthful'
  <2> SUFFICES ASSUME NEW r \in Revisions, jobs'[r].state = "PUBLISHED"
               PROVE  /\ publications'[r].generation > 0
                      /\ jobs'[r].published = publications'[r].generation
    BY DEF ReceiptTruthful, Published
  <2>1. CASE jobs[r].state = "PUBLISHED" /\ jobs'[r] = jobs[r]
    BY <2>1, PublishedStays DEF ReceiptTruthful, Published
  <2>2. ASSUME NEW l \in Lanes,
               lanes[l].pc = "receipt" /\ lanes[l].outcome = "PUBLISHED",
               lanes[l].revision = r,
               jobs'[r].published = lanes[l].generation,
               publications' = publications
        PROVE  /\ publications'[r].generation > 0
               /\ jobs'[r].published = publications'[r].generation
    BY <2>2 DEF LaneGeneration, Published
  <2> QED
    BY <2>1, <2>2, PublishedJobs
<1>4. LaneBuilt'
  <2> SUFFICES ASSUME NEW k \in Lanes, lanes'[k].pc = "built"
               PROVE  lanes'[k].generation <= segment'.generation + 1
    BY DEF LaneBuilt
  <2>1. /\ segment.generation \in Nat /\ segment'.generation \in Nat
        /\ segment.generation <= segment'.generation
    BY LogStep, PublishEffect DEF TypeInv, TypeOK, Segment
  <2>2. CASE SameWork(k)
    <3>1. /\ lanes[k].generation <= segment.generation + 1
          /\ lanes[k].generation \in Nat
          /\ lanes'[k].generation = lanes[k].generation
      BY <2>2 DEF SameWork, LaneBuilt, TypeInv, TypeOK, Lane
    <3> QED
      BY <2>1, <3>1
  <2>3. CASE LaneKinds(k)
    <3>1. lanes'[k].generation = segment.generation + 1
      BY <2>3 DEF LaneKinds, Advance, Ends
    <3> QED
      BY <2>1, <3>1
  <2> QED
    BY <2>2, <2>3, LanesStep
<1> QED
  BY <1>1, <1>2, <1>3, <1>4

LEMMA LogInductive == Spec => []LogInv
<1>1. Init => LogInv
  <2> SUFFICES ASSUME Init PROVE LogInv
    OBVIOUS
  <2>1. \A r \in Revisions :
          jobs[r].state = "ABSENT" /\ publications[r].generation = 0
    BY DEF Init, NoJob, NoPublication
  <2>2. segment.generation = 0 /\ \A l \in Lanes : lanes[l].pc = "idle"
    BY DEF Init, IdleLane
  <2> QED
    BY <2>1, <2>2 DEF LogInv, LogContiguous, LaneGeneration, LaneBuilt,
       ReceiptTruthful, Published
<1>2. TypeInv /\ LogInv /\ [Next]_vars => LogInv'
  BY LogStepInv
<1> QED
  BY <1>1, <1>2, TypeInductive, PTL DEF Spec

\* The signed log of a Segment is contiguous and never forks, for any number of
\* lanes and whatever they do past their deadlines (the head comparison inside
\* the publish transaction).
THEOREM LogIsContiguous == Spec => []LogContiguous
BY LogInductive, PTL DEF LogInv

\* A job says PUBLISHED only with its own publication's generation, also after
\* lost receipts and takeovers.
THEOREM ReceiptsAreTruthful == Spec => []ReceiptTruthful
BY LogInductive, PTL DEF LogInv

-----------------------------------------------------------------------------
(***************************************************************************)
(* The order of the log, when every lane stops at its deadline             *)
(***************************************************************************)
LEMMA DeletedStays ==
  ASSUME TypeInv, [Next]_vars, control.state = "DELETED"
  PROVE  control'.state = "DELETED"
<1>1. CASE DeleteEffect
  BY <1>1 DEF DeleteEffect, TypeInv, TypeOK, Control
<1> QED
  BY <1>1, StepKinds DEF EnqueueStep, RecoverEffect, ExpireLease, ClaimNext,
     LaneKinds, Quiet

\* Only its own lane, the clock and a deletion take a lease away.
LEMMA LeaseKept ==
  ASSUME TypeInv, QueueInv, [Next]_vars, NEW k \in Lanes, HoldsLease(k),
         lanes[k].pc \in Working, lanes'[k].pc \in Working,
         ~lanes'[k].overdue, lanes'[k].revision = lanes[k].revision
  PROVE  HoldsLease(k)' \/ control'.state = "DELETED"
<1> DEFINE r == lanes[k].revision
<1> USE DEF TypeInv
<1>1. /\ r \in Revisions /\ jobs[r].state = "LEASED" /\ jobs[r].owner = k
      /\ ~jobs[r].expired /\ r <= head /\ head \in Nat /\ r \in Nat
  BY DEF HoldsLease, QueueInv, JobsDense, TypeOK, Versions, Revisions
<1>2. ASSUME jobs'[r] = jobs[r] PROVE HoldsLease(k)'
  BY <1>1, <1>2 DEF HoldsLease
<1>3. CASE EnqueueStep
  BY <1>1, <1>2, <1>3 DEF EnqueueStep, Extended
<1>4. CASE DeleteEffect
  BY <1>4 DEF DeleteEffect, TypeOK, Control
<1>5. CASE RecoverEffect
  BY <1>1, <1>2, <1>5 DEF RecoverEffect
<1>6. ASSUME NEW q \in Revisions, ExpireLease(q) PROVE HoldsLease(k)'
  <2>1. lanes[k].pc # "idle"
    BY DEF Working
  <2>2. q # r
    BY <1>1, <1>6, <2>1, ExpireEffect
  <2> QED
    BY <1>1, <1>2, <1>6, <2>2, ExpireEffect
<1>7. ASSUME NEW l \in Lanes, ClaimNext(l) PROVE HoldsLease(k)'
  BY <1>1, <1>2, <1>7, ClaimEffect DEF Claimable
<1>8. ASSUME NEW l \in Lanes, LaneKinds(l),
             LaneStep(l) \/ TransientFailure(l) \/ Crash(l)
      PROVE  HoldsLease(k)'
  <2>1. CASE UNCHANGED jobs
    BY <1>2, <2>1
  <2>2. CASE WriteReceipt(l)
    <3>1. l # k
      BY <2>2 DEF WriteReceipt, Working
    <3> QED
      BY <1>1, <1>2, <2>2, <3>1, ReceiptEffect DEF HoldsLease
  <2> QED
    BY <1>8, <2>1, <2>2 DEF LaneKinds
<1>9. CASE Quiet
  BY <1>2, <1>9 DEF Quiet
<1> QED
  BY <1>3, <1>4, <1>5, <1>6, <1>7, <1>8, <1>9, StepKinds

\* Where a lane within its deadline may come from.
LEMMA WorkingStep ==
  ASSUME TypeInv, [Next]_vars, NEW k \in Lanes, lanes'[k].pc \in Working,
         ~lanes'[k].overdue
  PROVE  \/ /\ lanes[k].pc \in Working /\ ~lanes[k].overdue
            /\ lanes'[k].revision = lanes[k].revision
            /\ lanes'[k].pc # "built" => lanes[k].pc # "built"
         \/ \E r \in Revisions :
              /\ Claimable(r)
              /\ \A q \in Revisions : q # r => jobs'[q] = jobs[q]
              /\ jobs'[r].state = "LEASED" /\ jobs'[r].owner = k
              /\ ~jobs'[r].expired
              /\ lanes'[k].pc = "claimed" /\ lanes'[k].revision = r
<1>1. CASE SameWork(k) /\ (lanes'[k].overdue = lanes[k].overdue \/ lanes'[k].overdue)
  BY <1>1 DEF SameWork
<1>2. CASE LaneKinds(k) /\ lanes'[k].revision = lanes[k].revision
             /\ lanes'[k].overdue = lanes[k].overdue
  BY <1>2 DEF LaneKinds, Advance, Ends, Working
<1>3. CASE lanes'[k].pc = "idle"
  BY <1>3 DEF Working
<1> QED
  BY <1>1, <1>2, <1>3, LanesStep

\* A lane holds a graph it held before, or reads one while the Segment is ACTIVE.
LEMMA HoldingStep ==
  ASSUME TypeInv, [Next]_vars, NEW k \in Lanes, lanes'[k].pc \in Holding
  PROVE  /\ lanes'[k].revision = lanes[k].revision
         /\ \/ /\ lanes[k].pc \in Holding
               /\ lanes'[k].mode = lanes[k].mode
               /\ lanes'[k].transport = lanes[k].transport
               /\ lanes'[k].policy = lanes[k].policy
            \/ /\ lanes[k].pc = "claimed" /\ InTime(k)
               /\ control.state = "ACTIVE" /\ UNCHANGED <<control, head>>
               /\ lanes'[k].mode = "POLICY_ONLY" => ~TransportChangePending
               /\ lanes'[k].transport = control.transport
               /\ lanes'[k].policy = control.policy
<1>1. CASE SameWork(k)
  BY <1>1 DEF SameWork
<1>2. CASE LaneKinds(k) /\ lanes'[k].revision = lanes[k].revision
  BY <1>2 DEF LaneKinds, Advance, Ends, Holding, Working
<1>3. CASE lanes'[k].pc = "idle" \/ lanes'[k].pc = "claimed"
  BY <1>3 DEF Holding, Working
<1> QED
  BY <1>1, <1>2, <1>3, LanesStep

LEMMA OrderStepInv ==
  ASSUME ~Overrun, TypeInv, QueueInv, LogInv, OrderInv, [Next]_vars
  PROVE  OrderInv'
<1> USE DEF OrderInv
<1>1. /\ Revisions \subseteq Nat /\ head \in Nat /\ TypeInv' /\ QueueInv'
  BY TypeStep, QueueStepInv DEF Revisions, TypeInv, TypeOK, Versions
<1>2. LiveLease'
  <2> SUFFICES ASSUME NEW k \in Lanes, lanes'[k].pc \in Working,
                      ~lanes'[k].overdue
               PROVE  HoldsLease(k)' \/ control'.state = "DELETED"
    BY DEF LiveLease
  <2>1. CASE /\ lanes[k].pc \in Working /\ ~lanes[k].overdue
             /\ lanes'[k].revision = lanes[k].revision
    BY <2>1, LeaseKept, DeletedStays DEF LiveLease
  <2>2. CASE \E r \in Revisions :
               /\ jobs'[r].state = "LEASED" /\ jobs'[r].owner = k
               /\ ~jobs'[r].expired /\ lanes'[k].revision = r
    BY <2>2 DEF HoldsLease
  <2> QED
    BY <2>1, <2>2, WorkingStep
<1>3. NoneAhead'
  <2> SUFFICES ASSUME NEW l \in Lanes, lanes'[l].pc \in Working \ {"built"},
                      ~lanes'[l].overdue
               PROVE  /\ \A q \in Revisions : publications'[q].generation > 0 =>
                           q <= lanes'[l].revision
                      /\ \A k \in Lanes : lanes'[k].pc \in Holding =>
                           lanes'[k].revision <= lanes'[l].revision
    BY DEF NoneAhead, Published
  <2>0. lanes'[l].pc # "idle" /\ lanes'[l].revision \in Revisions
    BY <1>1 DEF Working, TypeInv, ClaimedRevision
  <2>1. CASE /\ lanes[l].pc \in Working \ {"built"} /\ ~lanes[l].overdue
             /\ lanes'[l].revision = lanes[l].revision
    <3>1. ASSUME NEW q \in Revisions, publications'[q].generation > 0
          PROVE  q <= lanes'[l].revision
      <4>1. CASE Published(q)
        BY <2>1, <4>1 DEF NoneAhead
      <4>2. CASE ~Published(q)
        <5>1. PICK j \in Lanes : PublishRoutes(j)
          BY <3>1, <4>2, LogStep DEF Published
        <5>2. lanes[j].pc = "built" /\ lanes[j].revision = q
          BY <3>1, <4>2, <5>1, PublishEffect DEF Published
        <5> QED
          BY <2>1, <5>2 DEF NoneAhead, Holding, Working
      <4> QED
        BY <4>1, <4>2
    <3>2. ASSUME NEW k \in Lanes, lanes'[k].pc \in Holding
          PROVE  lanes'[k].revision <= lanes'[l].revision
      <4>1. CASE lanes[k].pc \in Holding
        BY <2>1, <3>2, <4>1, HoldingStep DEF NoneAhead
      <4>2. CASE lanes[k].pc = "claimed" /\ control.state = "ACTIVE"
        <5>1. /\ lanes[l].revision \in Revisions
              /\ jobs[lanes[l].revision].state = "LEASED"
          BY <2>1, <4>2 DEF LiveLease, HoldsLease
        <5>2. /\ lanes[k].revision \in Revisions
              /\ \A r \in 1..(lanes[k].revision - 1) : jobs[r].state \in Terminal
          BY <4>2 DEF QueueInv, LaneClaim, TypeInv, ClaimedRevision
        <5>3. ~(lanes[l].revision < lanes[k].revision)
          BY <1>1, <5>1, <5>2 DEF Terminal, Revisions
        <5>4. lanes'[k].revision = lanes[k].revision
          BY <3>2, HoldingStep
        <5>5. lanes[k].revision \in Nat /\ lanes[l].revision \in Nat
          BY <1>1, <5>1, <5>2
        <5>6. lanes[k].revision <= lanes[l].revision
          BY <5>3, <5>5
        <5> QED
          BY <2>1, <5>4, <5>6
      <4> QED
        BY <3>2, <4>1, <4>2, HoldingStep
    <3> QED
      BY <3>1, <3>2
  <2>2. CASE jobs'[lanes'[l].revision].state = "LEASED"
    <3>1. ASSUME NEW q \in Revisions, lanes'[l].revision < q
          PROVE  lanes'[l].revision \in 1..(q - 1)
      BY <1>1, <2>0, <3>1 DEF Revisions
    <3>2. ASSUME NEW q \in Revisions,
                 \A r \in 1..(q - 1) : jobs'[r].state \in Terminal
          PROVE  q <= lanes'[l].revision
      <4>1. ~(lanes'[l].revision < q)
        BY <2>2, <3>1, <3>2 DEF Terminal
      <4> QED
        BY <1>1, <2>0, <4>1
    <3>3. \A q \in Revisions : publications'[q].generation > 0 =>
            q <= lanes'[l].revision
      BY <1>1, <3>2 DEF QueueInv, PublishedEarlier, Published
    <3>4. ASSUME NEW k \in Lanes, lanes'[k].pc \in Holding
          PROVE  lanes'[k].revision <= lanes'[l].revision
      <4>1. lanes'[k].pc # "idle"
        BY <3>4 DEF Holding, Working
      <4>2. /\ lanes'[k].revision \in Revisions
            /\ \A r \in 1..(lanes'[k].revision - 1) :
                 jobs'[r].state \in Terminal
        BY <1>1, <4>1 DEF QueueInv, LaneClaim, TypeInv, ClaimedRevision
      <4> QED
        BY <3>2, <4>2
    <3> QED
      BY <3>3, <3>4
  <2> QED
    BY <2>1, <2>2, WorkingStep
<1>4. BuiltInOrder'
  <2> SUFFICES ASSUME NEW l \in Lanes, lanes'[l].pc = "built",
                      lanes'[l].generation = segment'.generation + 1,
                      NEW q \in Revisions, publications'[q].generation > 0
               PROVE  q <= lanes'[l].revision
    BY DEF BuiltInOrder, Published
  <2>1. CASE SameWork(l)
    <3>1. publications' = publications /\ segment'.generation = segment.generation
      <4>1. ASSUME NEW j \in Lanes, PublishRoutes(j) PROVE FALSE
        <5>1. /\ segment'.generation = segment.generation + 1
              /\ segment.generation \in Nat
          BY <4>1, PublishEffect
        <5>2. lanes[l].generation = segment.generation + 2
          BY <2>1, <5>1 DEF SameWork
        <5>3. lanes[l].generation <= segment.generation + 1
          BY <2>1 DEF SameWork, LogInv, LaneBuilt
        <5> QED
          BY <5>1, <5>2, <5>3
      <4> QED
        BY <4>1, LogStep
    <3> QED
      BY <2>1, <3>1 DEF SameWork, BuiltInOrder, Published
  <2>2. CASE Advance(l) /\ LaneKinds(l) /\ lanes'[l].revision = lanes[l].revision
    <3>1. ~PublishRoutes(l)
      BY <2>2 DEF Advance, PublishRoutes, Working
    <3>2. publications' = publications
      BY <2>2, <3>1 DEF LaneKinds
    <3>3. ~lanes[l].overdue /\ lanes[l].pc \in Working \ {"built"}
      BY <2>2 DEF Advance, InTime
    <3> QED
      BY <2>2, <3>2, <3>3 DEF NoneAhead, Published
  <2> QED
    BY <2>1, <2>2, LanesStep DEF LaneKinds, Ends
<1>5. PublicationOrder'
  <2>1. CASE publications' = publications
    BY <2>1 DEF PublicationOrder, Published
  <2>2. ASSUME NEW l \in Lanes, PublishRoutes(l) PROVE PublicationOrder'
    <3> DEFINE n == lanes[l].revision
    <3>1. /\ n \in Revisions /\ segment.generation \in Nat
          /\ publications'[n].generation = segment.generation + 1
          /\ \A q \in Revisions : q # n => publications'[q] = publications[q]
          /\ lanes[l].pc = "built"
          /\ lanes[l].generation = segment.generation + 1
      BY <2>2, PublishEffect
    <3>2. \A q \in Revisions : /\ publications[q].generation \in Nat
                               /\ publications[q].generation <= segment.generation
      BY DEF TypeInv, TypeOK, Publication, LogInv, LogContiguous
    <3>3. \A q \in Revisions : Published(q) => q <= n
      BY <3>1 DEF BuiltInOrder
    <3> SUFFICES ASSUME NEW r \in Revisions, NEW q \in Revisions, r < q,
                        publications'[r].generation > 0,
                        publications'[q].generation > 0
                 PROVE  publications'[r].generation < publications'[q].generation
      BY DEF PublicationOrder, Published
    <3>4. CASE r = n
      BY <1>1, <3>1, <3>3, <3>4 DEF Published
    <3>5. CASE q = n
      BY <1>1, <3>1, <3>2, <3>5
    <3>6. CASE r # n /\ q # n
      BY <3>1, <3>6 DEF PublicationOrder, Published
    <3> QED
      BY <3>4, <3>5, <3>6
  <2> QED
    BY <2>1, <2>2, LogStep
<1> QED
  BY <1>2, <1>3, <1>4, <1>5

LEMMA OrderInductive ==
  ASSUME ~Overrun
  PROVE  Spec => []OrderInv
<1>1. Init => OrderInv
  <2> SUFFICES ASSUME Init PROVE OrderInv
    OBVIOUS
  <2>1. \A l \in Lanes : lanes[l].pc = "idle"
    BY DEF Init, IdleLane
  <2>2. \A r \in Revisions : ~Published(r)
    BY DEF Init, NoPublication, Published
  <2> QED
    BY <2>1, <2>2 DEF OrderInv, LiveLease, NoneAhead, BuiltInOrder,
       PublicationOrder, Working
<1>2. TypeInv /\ QueueInv /\ LogInv /\ OrderInv /\ [Next]_vars => OrderInv'
  BY OrderStepInv
<1> QED
  BY <1>1, <1>2, QueueInductive, LogInductive, PTL DEF Spec

\* With every lane stopped by the timeout of run_lane at the deadline of its
\* lease, the log's order is the order of the requests, although the publish
\* transaction itself is not fenced by the lease and may still land late.
THEOREM LogIsOrdered ==
  ASSUME ~Overrun
  PROVE  Spec => []PublicationOrder
BY OrderInductive, PTL DEF OrderInv

-----------------------------------------------------------------------------
(***************************************************************************)
(* The graph the log carries                                               *)
(***************************************************************************)
LEMMA ControlStep ==
  ASSUME TypeInv, [Next]_vars
  PROVE  /\ Fresh(control'.transport, control.transport)
         /\ Fresh(control'.policy, control.policy)
<1>1. CASE DeleteEffect
  BY <1>1 DEF DeleteEffect, TypeInv, TypeOK, Control, Fresh
<1> QED
  BY <1>1, StepKinds DEF EnqueueStep, RecoverEffect, ExpireLease, ClaimNext,
     LaneKinds, Quiet, Fresh

\* A version at most r, for a queued r, is not new.
LEMMA OldVersion ==
  ASSUME TypeInv, [Next]_vars, NEW r \in Revisions, r <= head,
         NEW new, NEW old, Fresh(new, old), new <= r
  PROVE  new = old
<1>1. r \in Nat /\ head \in Nat
  BY DEF TypeInv, TypeOK, Versions, Revisions
<1> QED
  BY <1>1 DEF Fresh

LEMMA GraphStepInv ==
  ASSUME TypeInv, QueueInv, GraphInv, [Next]_vars
  PROVE  GraphInv'
<1> USE DEF GraphInv
<1>1. VersionsQueued'
  <2>1. /\ head \in Nat /\ head' \in Nat /\ head <= head'
        /\ control.transport \in Nat /\ control.policy \in Nat
    BY HeadGrows DEF TypeInv, TypeOK, Control, Versions
  <2> QED
    BY <2>1, ControlStep DEF VersionsQueued, Fresh
<1>2. LaneGraph'
  <2> SUFFICES ASSUME NEW k \in Lanes, lanes'[k].pc \in Holding
               PROVE  /\ control'.transport <= lanes'[k].revision =>
                           lanes'[k].transport = control'.transport
                      /\ control'.policy <= lanes'[k].revision =>
                           lanes'[k].policy = control'.policy
    BY DEF LaneGraph
  <2>1. CASE /\ lanes[k].pc \in Holding
             /\ lanes'[k].revision = lanes[k].revision
             /\ lanes'[k].transport = lanes[k].transport
             /\ lanes'[k].policy = lanes[k].policy
    <3>1. lanes[k].pc # "idle"
      BY <2>1 DEF Holding, Working
    <3>2. lanes[k].revision \in Revisions /\ lanes[k].revision <= head
      BY <3>1 DEF TypeInv, ClaimedRevision, QueueInv, LaneClaim
    <3>3. /\ control'.transport <= lanes[k].revision =>
               control'.transport = control.transport
          /\ control'.policy <= lanes[k].revision =>
               control'.policy = control.policy
      BY <3>2, ControlStep, OldVersion
    <3> QED
      BY <2>1, <3>3 DEF LaneGraph
  <2>2. CASE /\ UNCHANGED control
             /\ lanes'[k].transport = control.transport
             /\ lanes'[k].policy = control.policy
    BY <2>2
  <2> QED
    BY <2>1, <2>2, HoldingStep
<1>3. PublishedGraph'
  <2> SUFFICES ASSUME NEW r \in Revisions, publications'[r].generation > 0
               PROVE  /\ control'.transport <= r =>
                           publications'[r].transport = control'.transport
                      /\ control'.policy <= r =>
                           publications'[r].policy = control'.policy
    BY DEF PublishedGraph, Published
  <2>1. CASE Published(r)
    <3>1. publications'[r] = publications[r] /\ r <= head
      BY <2>1, PublishedStays DEF QueueInv, PublishedEarlier
    <3>2. /\ control'.transport <= r => control'.transport = control.transport
          /\ control'.policy <= r => control'.policy = control.policy
      BY <3>1, ControlStep, OldVersion
    <3> QED
      BY <2>1, <3>1, <3>2 DEF PublishedGraph
  <2>2. CASE ~Published(r)
    <3>1. PICK l \in Lanes : PublishRoutes(l)
      BY <2>2, LogStep DEF Published
    <3>2. /\ lanes[l].revision = r /\ lanes[l].pc = "built"
          /\ publications'[r].transport = lanes[l].transport
          /\ publications'[r].policy = lanes[l].policy
      BY <2>2, <3>1, PublishEffect DEF Published
    <3>3. UNCHANGED control
      BY <3>1 DEF PublishRoutes
    <3>4. lanes[l].pc \in Holding
      BY <3>2 DEF Holding, Working
    <3> QED
      BY <3>2, <3>3, <3>4 DEF LaneGraph
  <2> QED
    BY <2>1, <2>2
<1> QED
  BY <1>1, <1>2, <1>3

LEMMA GraphInductive == Spec => []GraphInv
<1>1. Init => GraphInv
  <2> SUFFICES ASSUME Init PROVE GraphInv
    OBVIOUS
  <2>1. \A l \in Lanes : lanes[l].pc = "idle"
    BY DEF Init, IdleLane
  <2>2. \A r \in Revisions : ~Published(r)
    BY DEF Init, NoPublication, Published
  <2>3. VersionsQueued
    BY DEF Init, VersionsQueued
  <2> QED
    BY <2>1, <2>2, <2>3 DEF GraphInv, LaneGraph, PublishedGraph, Holding,
       Working
<1>2. TypeInv /\ QueueInv /\ GraphInv /\ [Next]_vars => GraphInv'
  BY GraphStepInv
<1> QED
  BY <1>1, <1>2, QueueInductive, PTL DEF Spec

\* No lost update: once the job of the desired revision says PUBLISHED, the
\* live generation is that job's publication and carries the current graph.
THEOREM DesiredConfigurationIsLive ==
  ASSUME ~Overrun
  PROVE  Spec => []DesiredIsLive
<1>1. TypeInv /\ QueueInv /\ LogInv /\ OrderInv /\ GraphInv => DesiredIsLive
  <2> SUFFICES ASSUME TypeInv, QueueInv, LogInv, OrderInv, GraphInv,
                      head > 0, jobs[head].state = "PUBLISHED"
               PROVE  /\ publications[head].generation = segment.generation
                      /\ publications[head].transport = control.transport
                      /\ publications[head].policy = control.policy
    BY DEF DesiredIsLive
  <2>1. head \in Revisions /\ Revisions \subseteq Nat
    BY DEF TypeInv, TypeOK, Versions, Revisions
  <2>2. Published(head)
    BY <2>1 DEF LogInv, ReceiptTruthful
  <2>3. \A r \in Revisions : publications[r].generation \in Nat
    BY DEF TypeInv, TypeOK, Publication
  <2>4. segment.generation \in 1..segment.generation
        /\ publications[head].generation <= segment.generation
    BY <2>1, <2>2, <2>3 DEF LogInv, LogContiguous, Published, TypeInv, TypeOK,
       Segment
  <2>5. PICK r \in Revisions : publications[r].generation = segment.generation
    BY <2>4 DEF LogInv, LogContiguous
  <2>6. Published(r) /\ r <= head
    BY <2>4, <2>5 DEF Published, QueueInv, PublishedEarlier
  <2>7. r = head
    <3>1. ~(r < head)
      BY <2>1, <2>2, <2>3, <2>4, <2>5, <2>6 DEF OrderInv, PublicationOrder
    <3> QED
      BY <2>1, <2>6, <3>1
  <2> QED
    BY <2>1, <2>2, <2>5, <2>7 DEF GraphInv, VersionsQueued, PublishedGraph
<1> QED
  BY <1>1, QueueInductive, LogInductive, OrderInductive, GraphInductive, PTL
=============================================================================

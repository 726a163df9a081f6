---------------------- MODULE SegmentPublicationTypes -----------------------
(***************************************************************************)
(* Type correctness of SegmentPublication for every number of lanes,       *)
(* endpoint sets, revisions and faults, and what each kind of step leaves  *)
(* alone.                                                                  *)
(***************************************************************************)
EXTENDS SegmentPublication, TLAPS

USE LanesAssumption, EndpointAssumption, HashAssumption, BoundsAssumption,
    FlagsAssumption

-----------------------------------------------------------------------------
(***************************************************************************)
(* Type correctness                                                        *)
(***************************************************************************)
LEMMA NoJobType == NoJob \in Job
BY DEF NoJob, Job, Pending, Terminal, Modes, Versions, Endpoints

\* Every lease, receipt and recovery write keeps a job well-typed.
LEMMA JobEditType ==
  ASSUME NEW job \in Job, NEW s \in Pending \cup Terminal,
         NEW o \in Lanes \cup {NoLane}, NEW x \in BOOLEAN,
         NEW err \in {"NONE", "RECOVERABLE", "OTHER"}, NEW g \in Nat
  PROVE  /\ [job EXCEPT !.expired = x] \in Job
         /\ [job EXCEPT !.state = s, !.owner = o, !.expired = x,
                        !.error = err] \in Job
         /\ [job EXCEPT !.state = s, !.owner = o, !.expired = x,
                        !.published = g, !.error = err] \in Job
<1>1. [job EXCEPT !.expired = x] \in Job
  BY DEF Job
<1>2. [job EXCEPT !.state = s, !.owner = o, !.expired = x, !.error = err]
        \in Job
  BY DEF Job
<1>3. [job EXCEPT !.state = s, !.owner = o, !.expired = x, !.published = g,
                  !.error = err] \in Job
  BY DEF Job
<1> QED
  BY <1>1, <1>2, <1>3

LEMMA IdleLaneType == IdleLane \in Lane
BY DEF IdleLane, Lane, Working, Modes, Versions, Endpoints, Paths

\* Enqueuing keeps the queue well-typed.
LEMMA AppendJobType ==
  ASSUME TypeOK, NEW hash \in Endpoints \cup {FreshHash}, NEW mode \in Modes,
         AppendJob(hash, mode)
  PROVE  head' \in Versions /\ jobs' \in [Revisions -> Job]
         /\ head + 1 \in Versions
<1>1. head' \in Versions /\ head + 1 \in Revisions /\ head + 1 \in Versions
  BY DEF AppendJob, TypeOK, Versions, Revisions
<1>2. [NoJob EXCEPT !.state = "PENDING", !.hash = hash, !.mode = mode] \in Job
  BY NoJobType DEF NoJob, Job, Pending
<1> QED
  BY <1>1, <1>2 DEF AppendJob, TypeOK

LEMMA EnqueueType ==
  ASSUME TypeOK, NEW hash \in Endpoints \cup {FreshHash}, NEW mode \in Modes,
         EnqueueGeneration(hash, mode)
  PROVE  /\ head' \in Versions /\ jobs' \in [Revisions -> Job]
         /\ hash = FreshHash => head + 1 \in Versions
BY AppendJobType DEF EnqueueGeneration, EnqueuedBefore, TypeOK

\* A lane that leaves the publisher is well-typed.
LEMMA ConcludeType ==
  ASSUME TypeOK, NEW l \in Lanes,
         NEW outcome \in {"PUBLISHED", "RETRY", "RECOVERABLE", "OTHER"},
         NEW generation \in Nat, Conclude(l, outcome, generation)
  PROVE  lanes' \in [Lanes -> Lane]
<1>1. lanes[l] \in Lane
  BY DEF TypeOK
<1>2. [IdleLane EXCEPT !.pc = "receipt", !.revision = lanes[l].revision,
          !.overdue = lanes[l].overdue, !.outcome = outcome,
          !.generation = generation] \in Lane
  BY <1>1, IdleLaneType DEF Lane, IdleLane
<1> QED
  BY <1>2 DEF Conclude, TypeOK

LEMMA TypeInit == Init => TypeOK
BY NoJobType, IdleLaneType DEF Init, TypeOK, Control, Endpoints, Versions,
   Segment, NoPublication, Publication, Modes, Reader, IdleReader, Paths

LEMMA TypeManagement == TypeOK /\ ManagementStep => TypeOK'
<1> SUFFICES ASSUME TypeOK, ManagementStep PROVE TypeOK'
  OBVIOUS
<1>1. CASE CreateSegment
  BY <1>1, EnqueueType DEF CreateSegment, TypeOK, Control, Modes
<1>2. ASSUME NEW attached \in BOOLEAN, NEW paths \in Paths,
             MutateTransport(attached, paths)
      PROVE  TypeOK'
  BY <1>2, EnqueueType DEF MutateTransport, TypeOK, Control, Modes
<1>3. ASSUME NEW paths \in Paths, MutatePolicy(paths) PROVE TypeOK'
  BY <1>3, EnqueueType DEF MutatePolicy, TypeOK, Control, Modes
<1>4. ASSUME NEW state \in {"ACTIVE", "DISABLED"}, SetSegmentState(state)
      PROVE  TypeOK'
  BY <1>4, EnqueueType DEF SetSegmentState, TypeOK, Control, Modes
<1>5. CASE DeleteSegment
  <2>1. \A r \in Revisions : RetiredJob(jobs[r]) \in Job
    <3> TAKE r \in Revisions
    <3>1. jobs[r] \in Job
      BY DEF TypeOK
    <3> QED
      BY <3>1, JobEditType DEF RetiredJob, Terminal
  <2>2. jobs' \in [Revisions -> Job]
    BY <1>5, <2>1 DEF DeleteSegment
  <2> QED
    BY <1>5, <2>2 DEF DeleteSegment, TypeOK, Control, Segment
<1>6. ASSUME NEW e \in Endpoints, ReplaceEndpoints(e, e) PROVE TypeOK'
  BY <1>6, EnqueueType DEF ReplaceEndpoints, TypeOK, Modes
<1> QED
  BY <1>1, <1>2, <1>3, <1>4, <1>5, <1>6 DEF ManagementStep, Endpoints,
     ProvisionTransportIdentity, WithdrawTransportIdentity

LEMMA TypeQueue ==
  ASSUME TypeOK, QueueStep \/ \E l \in Lanes : ClaimNext(l)
  PROVE  TypeOK'
<1>1. CASE RefreshExpiring
  BY <1>1, AppendJobType DEF RefreshExpiring, TypeOK, Modes
<1>2. CASE RecoverFailedHead
  <2> DEFINE b == jobs[head]
             r == [b EXCEPT !.state = "RETRY", !.owner = NoLane,
                            !.expired = FALSE, !.error = "NONE"]
  <2>1. head \in Revisions => r \in Job
    <3>1. head \in Revisions => b \in Job
      BY DEF TypeOK
    <3> HIDE DEF b
    <3> QED
      BY <3>1 DEF Job, Pending
  <2>2. jobs' = [jobs EXCEPT ![head] = r]
    BY <1>2 DEF RecoverFailedHead
  <2> HIDE DEF r
  <2>3. jobs' \in [Revisions -> Job]
    BY <2>1, <2>2 DEF TypeOK
  <2> QED
    BY <1>2, <2>3 DEF RecoverFailedHead, TypeOK
<1>3. CASE ReconcileSupersededHead
  BY <1>3, AppendJobType DEF ReconcileSupersededHead, TypeOK, Modes
<1>4. ASSUME NEW r \in Revisions, ExpireLease(r) PROVE TypeOK'
  <2>1. jobs[r] \in Job
    BY DEF TypeOK
  <2>2. [jobs[r] EXCEPT !.expired = TRUE] \in Job
    BY <2>1 DEF Job
  <2>3. jobs' \in [Revisions -> Job]
    BY <1>4, <2>2 DEF ExpireLease, TypeOK
  <2>4. \A l \in Lanes : [lanes[l] EXCEPT !.overdue = TRUE] \in Lane
    <3> TAKE l \in Lanes
    <3>1. lanes[l] \in Lane
      BY DEF TypeOK
    <3> QED
      BY <3>1 DEF Lane
  <2>5. [lanes EXCEPT ![jobs[r].owner].overdue = TRUE] \in [Lanes -> Lane]
    <3>1. CASE jobs[r].owner \in Lanes
      BY <3>1, <2>4 DEF TypeOK
    <3>2. CASE jobs[r].owner \notin Lanes
      BY <3>2 DEF TypeOK
    <3> QED
      BY <3>1, <3>2
  <2>6. lanes' \in [Lanes -> Lane] /\ faults' \in 0..MaxFaults
    BY <1>4, <2>5 DEF ExpireLease, TypeOK
  <2> QED
    BY <1>4, <2>3, <2>6 DEF ExpireLease, TypeOK
<1>5. ASSUME NEW l \in Lanes, ClaimNext(l) PROVE TypeOK'
  <2>1. PICK r \in Revisions :
          /\ jobs' = [jobs EXCEPT ![r] = [@ EXCEPT !.state = "LEASED",
                         !.owner = l, !.expired = FALSE, !.error = "NONE"]]
          /\ lanes' = [lanes EXCEPT ![l] = [IdleLane EXCEPT !.pc = "claimed",
                                                            !.revision = r]]
    BY <1>5 DEF ClaimNext
  <2>2. jobs[r] \in Job
    BY DEF TypeOK
  <2>3. [jobs[r] EXCEPT !.state = "LEASED", !.owner = l, !.expired = FALSE,
                        !.error = "NONE"] \in Job
    BY <2>2, JobEditType DEF Pending
  <2>4. jobs' \in [Revisions -> Job]
    BY <2>1, <2>3 DEF TypeOK
  <2>5. r \in Versions /\ "claimed" \in Working
    BY DEF Revisions, Versions, Working
  <2>6. [IdleLane EXCEPT !.pc = "claimed", !.revision = r] \in Lane
    BY <2>5, IdleLaneType DEF Lane
  <2> QED
    BY <1>5, <2>1, <2>4, <2>6 DEF ClaimNext, TypeOK
<1> QED
  BY <1>1, <1>2, <1>3, <1>4, <1>5 DEF QueueStep

\* A lane that holds a claim holds it for a job of the queue.
ClaimedRevision ==
  \A l \in Lanes : lanes[l].pc # "idle" => lanes[l].revision \in Revisions

TypeInv == TypeOK /\ ClaimedRevision

\* What a lane's step may not touch: the other lanes, and its own claim unless
\* it gives it up.
LEMMA LaneFrame ==
  ASSUME TypeOK, NEW l \in Lanes,
         LaneStep(l) \/ TransientFailure(l) \/ Crash(l)
  PROVE  /\ lanes[l].pc # "idle"
         /\ \A k \in Lanes : k # l => lanes'[k] = lanes[k]
         /\ \/ lanes'[l] = IdleLane
            \/ /\ lanes'[l].revision = lanes[l].revision
               /\ lanes'[l].overdue = lanes[l].overdue
<1> DEFINE Frame ==
      /\ lanes[l].pc # "idle"
      /\ \A k \in Lanes : k # l => lanes'[k] = lanes[k]
      /\ \/ lanes'[l] = IdleLane
         \/ /\ lanes'[l].revision = lanes[l].revision
            /\ lanes'[l].overdue = lanes[l].overdue
<1>1. lanes[l] \in Lane /\ lanes = [k \in Lanes |-> lanes[k]]
  BY DEF TypeOK
<1>2. ASSUME NEW outcome, NEW g, Conclude(l, outcome, g), lanes[l].pc # "idle"
      PROVE  Frame
  BY <1>1, <1>2 DEF Conclude, IdleLane
<1>3. CASE ReadGraph(l)
  <2>1. CASE control.state = "ACTIVE"
    <3>1. PICK m : lanes' = [lanes EXCEPT ![l] = [@ EXCEPT !.pc = "graph",
             !.mode = m, !.transport = control.transport,
             !.policy = control.policy, !.attached = control.attached,
             !.paths = control.paths]]
      BY <1>3, <2>1, Zenon DEF ReadGraph
    <3> QED
      BY <1>1, <1>3, <3>1 DEF ReadGraph, Lane
  <2>2. CASE control.state # "ACTIVE"
    BY <1>2, <1>3, <2>2 DEF ReadGraph
  <2> QED
    BY <2>1, <2>2
<1>4. CASE MaterializeSnapshot(l) \/ MaterializePublication(l)
  BY <1>1, <1>4 DEF MaterializeSnapshot, MaterializePublication,
     EnsureControlTopology, Lane
<1>5. CASE LoadTransportBindings(l)
  BY <1>1, <1>5 DEF LoadTransportBindings, Lane
<1>6. CASE FindPublication(l)
  BY <1>1, <1>2, <1>6 DEF FindPublication, Lane
<1>7. CASE BuildInput(l)
  BY <1>1, <1>7 DEF BuildInput, Lane
<1>8. CASE RejectSnapshot(l) \/ AwaitInput(l) \/ RejectInput(l)
  BY <1>2, <1>8 DEF RejectSnapshot, AwaitInput, RejectInput
<1>9. CASE PublishRoutes(l)
  BY <1>2, <1>9 DEF PublishRoutes
<1>10. CASE PublishRefused(l)
  BY <1>2, <1>10 DEF PublishRefused
<1>11. CASE WriteReceipt(l) \/ Timeout(l) \/ Crash(l)
  BY <1>1, <1>11 DEF WriteReceipt, Timeout, Crash
<1>12. CASE TransientFailure(l)
  BY <1>2, <1>12 DEF TransientFailure, Working
<1> QED
  BY <1>3, <1>4, <1>5, <1>6, <1>7, <1>8, <1>9, <1>10, <1>11, <1>12
     DEF LaneStep

LEMMA ReceiptedType ==
  ASSUME NEW l \in Lanes, lanes[l] \in Lane, NEW job \in Job
  PROVE  Receipted(job, l) \in Job
<1>1. ReceiptState(lanes[l].outcome) \in Pending \cup Terminal
  BY DEF ReceiptState, Pending, Terminal
<1>2. (IF lanes[l].outcome = "PUBLISHED" THEN lanes[l].generation
       ELSE job.published) \in Nat
  BY DEF Lane, Job
<1>3. (IF lanes[l].outcome \in {"RECOVERABLE", "OTHER"} THEN lanes[l].outcome
       ELSE "NONE") \in {"NONE", "RECOVERABLE", "OTHER"}
  OBVIOUS
<1> QED
  BY <1>1, <1>2, <1>3, JobEditType DEF Receipted

LEMMA TypeLane ==
  ASSUME TypeInv, NEW l \in Lanes, LaneStep(l)
  PROVE  TypeOK'
<1> USE DEF TypeInv
<1>1. lanes[l] \in Lane
  BY DEF TypeOK
<1>2. /\ lanes[l].revision \in Versions /\ lanes[l].generation \in Nat
      /\ lanes[l].mode \in Modes /\ lanes[l].endpoints \in Endpoints
      /\ lanes[l].transport \in Versions /\ lanes[l].policy \in Versions
      /\ lanes[l].attached \in BOOLEAN
  BY <1>1 DEF Lane
<1>r. lanes[l].revision \in Revisions
  BY LaneFrame DEF ClaimedRevision
<1>3. CASE ReadGraph(l)
  <2>1. CASE control.state # "ACTIVE"
    BY <1>3, <2>1, ConcludeType DEF ReadGraph, TypeOK
  <2>2. CASE control.state = "ACTIVE"
    <3> DEFINE m == IF TransportChangePending THEN "TUNNEL"
                    ELSE jobs[lanes[l].revision].mode
    <3>1. m \in Modes
      <4>1. jobs[lanes[l].revision] \in Job
        BY <1>r DEF TypeOK
      <4> QED
        BY <4>1 DEF Job, Modes
    <3>2. /\ control.transport \in Versions /\ control.policy \in Versions
          /\ control.attached \in BOOLEAN /\ control.paths \in Paths
      BY DEF TypeOK, Control
    <3> HIDE DEF m
    <3>3. [lanes[l] EXCEPT !.pc = "graph", !.mode = m,
             !.transport = control.transport, !.policy = control.policy,
             !.attached = control.attached, !.paths = control.paths] \in Lane
      BY <1>1, <3>1, <3>2 DEF Working, Lane
    <3> QED
      BY <1>3, <2>2, <3>3 DEF m, ReadGraph, TypeOK
  <2> QED
    BY <2>1, <2>2
<1>4. CASE MaterializeSnapshot(l) \/ MaterializePublication(l)
  <2>1. PICK to \in {"materialized", "ready"} :
          /\ lanes' = [lanes EXCEPT ![l].pc = to]
          /\ segment' = [segment EXCEPT !.state = "ACTIVE",
                           !.transport = lanes[l].transport,
                           !.attached = lanes[l].attached]
    BY <1>4 DEF MaterializeSnapshot, MaterializePublication,
       EnsureControlTopology, Materialized
  <2>2. [lanes[l] EXCEPT !.pc = to] \in Lane
    BY <1>1 DEF Working, Lane
  <2>3. segment' \in Segment
    BY <1>2, <2>1 DEF TypeOK, Segment
  <2>4. lanes' \in [Lanes -> Lane]
    BY <2>1, <2>2 DEF TypeOK
  <2> QED
    BY <1>4, <2>3, <2>4 DEF MaterializeSnapshot, MaterializePublication,
       EnsureControlTopology, TypeOK
<1>5. CASE LoadTransportBindings(l)
  <2>1. [lanes[l] EXCEPT !.pc = "bound", !.endpoints = endpoints] \in Lane
    BY <1>1 DEF Working, Lane, TypeOK
  <2> QED
    BY <1>5, <2>1 DEF LoadTransportBindings, TypeOK
<1>6. CASE FindPublication(l)
  <2>1. CASE publications[lanes[l].revision].generation > 0
    <3>1. publications[lanes[l].revision].generation \in Nat
      BY <1>r DEF TypeOK, Publication
    <3> QED
      BY <1>6, <2>1, <3>1, ConcludeType DEF FindPublication, TypeOK
  <2>2. CASE publications[lanes[l].revision].generation = 0
    <3>1. [lanes[l] EXCEPT !.pc = "fresh"] \in Lane
      BY <1>1 DEF Working, Lane
    <3> QED
      BY <1>6, <2>2, <3>1 DEF FindPublication, TypeOK
  <2> QED
    BY <1>6, <2>1, <2>2 DEF FindPublication
<1>7. CASE BuildInput(l)
  <2>1. segment.generation + 1 \in Nat
    BY DEF TypeOK, Segment
  <2>2. [lanes[l] EXCEPT !.pc = "built", !.generation = segment.generation + 1]
          \in Lane
    BY <1>1, <2>1 DEF Working, Lane
  <2> QED
    BY <1>7, <2>2 DEF BuildInput, TypeOK
<1>8. CASE RejectSnapshot(l) \/ AwaitInput(l) \/ RejectInput(l)
  <2>1. \E outcome \in {"RETRY", "RECOVERABLE", "OTHER"} :
          Conclude(l, outcome, 0)
    BY <1>8 DEF RejectSnapshot, AwaitInput, RejectInput
  <2>2. lanes' \in [Lanes -> Lane]
    BY <2>1, ConcludeType
  <2> QED
    BY <1>8, <2>2 DEF RejectSnapshot, AwaitInput, RejectInput, TypeOK
<1>9. CASE PublishRoutes(l)
  <2>1. lanes' \in [Lanes -> Lane]
    BY <1>2, <1>9, ConcludeType DEF PublishRoutes
  <2>2. Built(l) \in Publication
    BY <1>2 DEF Built, Publication
  <2>3. segment' \in Segment
    BY <1>2, <1>9 DEF PublishRoutes, TypeOK, Segment
  <2>4. publications' \in [Revisions -> Publication]
    BY <1>9, <2>2 DEF PublishRoutes, TypeOK
  <2> QED
    BY <1>9, <2>1, <2>3, <2>4 DEF PublishRoutes, TypeOK
<1>10. CASE PublishRefused(l)
  <2>1. PICK outcome \in PublishFailure(l) :
          Conclude(l, outcome,
                   IF outcome = "PUBLISHED" THEN lanes[l].generation ELSE 0)
    BY <1>10 DEF PublishRefused
  <2>2. outcome \in {"PUBLISHED", "RETRY", "RECOVERABLE", "OTHER"}
    BY DEF PublishFailure
  <2>3. lanes' \in [Lanes -> Lane]
    BY <1>2, <2>1, <2>2, ConcludeType
  <2> QED
    BY <1>10, <2>3 DEF PublishRefused, TypeOK
<1>11. CASE WriteReceipt(l)
  <2>1. CASE HoldsLease(l)
    <3>1. jobs[lanes[l].revision] \in Job
      BY <2>1 DEF HoldsLease, TypeOK
    <3>2. Receipted(jobs[lanes[l].revision], l) \in Job
      BY <1>1, <3>1, ReceiptedType
    <3> QED
      BY <1>11, <2>1, <3>2, IdleLaneType DEF WriteReceipt, TypeOK
  <2>2. CASE ~HoldsLease(l)
    BY <1>11, <2>2, IdleLaneType DEF WriteReceipt, TypeOK
  <2> QED
    BY <2>1, <2>2
<1>12. CASE Timeout(l)
  BY <1>12, IdleLaneType DEF Timeout, TypeOK
<1> QED
  BY <1>3, <1>4, <1>5, <1>6, <1>7, <1>8, <1>9, <1>10, <1>11, <1>12
     DEF LaneStep

\* What a lane keeps when a lease passes: everything but the mark overdue.
SameWork(k) ==
  /\ lanes'[k].pc = lanes[k].pc /\ lanes'[k].revision = lanes[k].revision
  /\ lanes'[k].mode = lanes[k].mode
  /\ lanes'[k].transport = lanes[k].transport
  /\ lanes'[k].policy = lanes[k].policy
  /\ lanes'[k].generation = lanes[k].generation
  /\ lanes'[k].outcome = lanes[k].outcome

\* The passing of a lease marks one job expired, and overdue the lane that
\* still works on it.
LEMMA ExpireEffect ==
  ASSUME TypeOK, NEW r \in Revisions, ExpireLease(r)
  PROVE  /\ \A q \in Revisions : q # r => jobs'[q] = jobs[q]
         /\ jobs'[r].state = "LEASED" /\ jobs'[r].owner = jobs[r].owner
         /\ \A k \in Lanes :
              /\ SameWork(k)
              /\ lanes'[k].overdue = lanes[k].overdue \/ lanes'[k].overdue
              /\ jobs[r].owner = k /\ lanes[k].pc # "idle"
                   /\ lanes[k].revision = r => lanes'[k].overdue
<1>1. jobs = [q \in Revisions |-> jobs[q]] /\ lanes = [k \in Lanes |-> lanes[k]]
  BY DEF TypeOK
<1>2. jobs[r] \in Job
  BY DEF TypeOK
<1>3. \A q \in Revisions : q # r => jobs'[q] = jobs[q]
  BY <1>1 DEF ExpireLease
<1>4. jobs'[r].state = "LEASED" /\ jobs'[r].owner = jobs[r].owner
  BY <1>1, <1>2 DEF ExpireLease, Job
<1>5. ASSUME NEW k \in Lanes
      PROVE  /\ SameWork(k)
             /\ lanes'[k].overdue = lanes[k].overdue \/ lanes'[k].overdue
             /\ jobs[r].owner = k /\ lanes[k].pc # "idle"
                  /\ lanes[k].revision = r => lanes'[k].overdue
  <2>1. lanes[k] \in Lane
    BY DEF TypeOK
  <2>2. CASE lanes'[k] = lanes[k] /\ ~(jobs[r].owner = k
               /\ lanes[k].pc # "idle" /\ lanes[k].revision = r)
    BY <2>2 DEF SameWork
  <2>3. CASE lanes'[k] = [lanes[k] EXCEPT !.overdue = TRUE]
    BY <2>1, <2>3 DEF SameWork, Lane
  <2> QED
    BY <1>1, <2>2, <2>3 DEF ExpireLease
<1> QED
  BY <1>3, <1>4, <1>5

LEMMA ClaimEffect ==
  ASSUME TypeOK, NEW l \in Lanes, ClaimNext(l)
  PROVE  \E r \in Revisions :
           /\ Claimable(r)
           /\ \A q \in Revisions : q # r => jobs'[q] = jobs[q]
           /\ jobs'[r] = [jobs[r] EXCEPT !.state = "LEASED", !.owner = l,
                                          !.expired = FALSE, !.error = "NONE"]
           /\ \A k \in Lanes : k # l => lanes'[k] = lanes[k]
           /\ lanes'[l] = [IdleLane EXCEPT !.pc = "claimed", !.revision = r]
<1>1. jobs = [q \in Revisions |-> jobs[q]] /\ lanes = [k \in Lanes |-> lanes[k]]
  BY DEF TypeOK
<1>2. PICK r \in Revisions :
        /\ Claimable(r)
        /\ jobs' = [jobs EXCEPT ![r] = [@ EXCEPT !.state = "LEASED",
                       !.owner = l, !.expired = FALSE, !.error = "NONE"]]
        /\ lanes' = [lanes EXCEPT ![l] = [IdleLane EXCEPT !.pc = "claimed",
                                                          !.revision = r]]
  BY DEF ClaimNext
<1> WITNESS r \in Revisions
<1> QED
  BY <1>1, <1>2

LEMMA TypeStep == TypeInv /\ [Next]_vars => TypeInv'
<1> SUFFICES ASSUME TypeInv, [Next]_vars PROVE TypeInv'
  OBVIOUS
<1> USE DEF TypeInv
<1>1. CASE ManagementStep \/ RefreshExpiring \/ RecoverFailedHead
             \/ ReconcileSupersededHead
  <2>1. TypeOK'
    BY <1>1, TypeManagement, TypeQueue DEF QueueStep
  <2>2. UNCHANGED lanes
    BY <1>1 DEF ManagementStep, CreateSegment, MutateTransport, MutatePolicy,
       SetSegmentState, DeleteSegment, ProvisionTransportIdentity,
       WithdrawTransportIdentity, ReplaceEndpoints, RefreshExpiring,
       RecoverFailedHead, ReconcileSupersededHead
  <2> QED
    BY <2>1, <2>2 DEF ClaimedRevision
<1>2. ASSUME NEW r \in Revisions, ExpireLease(r) PROVE TypeInv'
  <2>1. TypeOK'
    BY <1>2, TypeQueue DEF QueueStep
  <2>2. \A k \in Lanes : SameWork(k)
    BY <1>2, ExpireEffect
  <2> QED
    BY <2>1, <2>2 DEF ClaimedRevision, SameWork
<1>3. ASSUME NEW l \in Lanes, ClaimNext(l) PROVE TypeInv'
  <2>1. TypeOK'
    BY <1>3, TypeQueue
  <2>2. \A k \in Lanes : k = l \/ lanes'[k] = lanes[k]
    BY <1>3, ClaimEffect
  <2>3. lanes'[l].revision \in Revisions
    BY <1>3, ClaimEffect DEF IdleLane
  <2> QED
    BY <2>1, <2>2, <2>3 DEF ClaimedRevision
<1>4. ASSUME NEW l \in Lanes,
             LaneStep(l) \/ TransientFailure(l) \/ Crash(l)
      PROVE  TypeInv'
  <2>1. TypeOK'
    <3>1. CASE LaneStep(l)
      BY <3>1, TypeLane
    <3>2. CASE TransientFailure(l)
      BY <3>2, ConcludeType DEF TransientFailure, TypeOK
    <3>3. CASE Crash(l)
      BY <3>3, IdleLaneType DEF Crash, TypeOK
    <3> QED
      BY <1>4, <3>1, <3>2, <3>3
  <2> QED
    BY <1>4, <2>1, LaneFrame DEF ClaimedRevision, IdleLane
<1>5. CASE CompleteRollout
  BY <1>5 DEF CompleteRollout, TypeOK, Segment, ClaimedRevision
<1>6. CASE UNCHANGED vars
  BY <1>6 DEF vars, TypeOK, ClaimedRevision
<1>7. CASE ReadinessStep
  <2>1. segment' \in Segment /\ reader' \in Reader
    <3>1. CASE ReadinessRead
      BY <3>1 DEF ReadinessRead, TypeOK, Control, Reader
    <3>2. CASE ReadinessMaterialize
      <4>1. IdleReader \in Reader
        BY DEF Reader, IdleReader, Versions
      <4>2. reader.transport \in Versions /\ reader.attached \in BOOLEAN
        BY DEF TypeOK, Reader
      <4>3. Materialized(reader) \in Segment
        BY <4>2 DEF Materialized, TypeOK, Segment
      <4>4. segment \in Segment
        BY DEF TypeOK
      <4> QED
        BY <3>2, <4>1, <4>3, <4>4 DEF ReadinessMaterialize
    <3> QED
      BY <1>7, <3>1, <3>2 DEF ReadinessStep
  <2> QED
    BY <1>7, <2>1 DEF ReadinessStep, ReadinessRead, ReadinessMaterialize,
       TypeOK, ClaimedRevision
<1> QED
  BY <1>1, <1>2, <1>3, <1>4, <1>5, <1>6, <1>7 DEF Next, QueueStep, FaultStep

LEMMA TypeInductive == Spec => []TypeInv
<1>1. Init => TypeInv
  BY TypeInit DEF Init, TypeInv, ClaimedRevision, IdleLane
<1> QED
  BY <1>1, TypeStep, PTL DEF Spec

\* Every row and every value a lane holds is well-formed in every reachable
\* state; in particular the head never passes the last desired_revision
\* (the checked_add of every enqueuing transaction).
THEOREM TypeCorrect == Spec => []TypeOK
BY TypeInductive, PTL DEF TypeInv
=============================================================================

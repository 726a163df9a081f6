--------------------- MODULE SegmentPublicationLogProofs ---------------------
(***************************************************************************)
(* What the log of a Segment is for its Runtimes, when every lane stops at *)
(* its deadline: an entry that skips the prepare barrier repeats the       *)
(* transport graph of the entry before it, and the log as a whole          *)
(* implements PublicationLog.                                              *)
(***************************************************************************)
EXTENDS SegmentPublicationProofs, SequenceTheorems

USE LanesAssumption, EndpointAssumption, HashAssumption, BoundsAssumption,
    FlagsAssumption

-----------------------------------------------------------------------------
(***************************************************************************)
(* The refinement of PublicationLog                                        *)
(***************************************************************************)
\* The log of PublicationLog, as the refinement mapping builds it.
LogNow == [g \in 1..segment.generation |-> RevisionOf(g)]

\* Every generation up to the current one has its revision.
LEMMA RevisionOfLog ==
  ASSUME LogContiguous, NEW g \in 1..segment.generation
  PROVE  /\ RevisionOf(g) \in Revisions
         /\ publications[RevisionOf(g)].generation = g
<1>1. \E r \in Revisions : publications[r].generation = g
  BY DEF LogContiguous
<1> QED
  BY <1>1 DEF RevisionOf

LEMMA LogIsASequence ==
  ASSUME TypeInv, LogContiguous
  PROVE  /\ segment.generation \in Nat
         /\ LogNow \in Seq(Revisions) /\ Len(LogNow) = segment.generation
<1>1. segment.generation \in Nat
  BY DEF TypeInv, TypeOK, Segment
<1>2. LogNow \in [1..segment.generation -> Revisions]
  BY RevisionOfLog DEF LogNow
<1>3. LogNow \in Seq(Revisions)
  BY <1>1, <1>2, SeqDef
<1>4. /\ Len(LogNow) \in Nat /\ DOMAIN LogNow = 1..Len(LogNow)
  BY <1>3, LenProperties
<1>5. DOMAIN LogNow = 1..segment.generation
  BY DEF LogNow
<1> QED
  BY <1>1, <1>3, <1>4, <1>5

\* What is published keeps its place in the log.
LEMMA PlaceKept ==
  ASSUME TypeInv, LogContiguous, LogContiguous', [Next]_vars,
         NEW g \in 1..segment.generation
  PROVE  RevisionOf(g)' = RevisionOf(g)
<1>1. /\ RevisionOf(g) \in Revisions
      /\ publications[RevisionOf(g)].generation = g
  BY RevisionOfLog
<1>2. PICK r \in Revisions : r = RevisionOf(g)
  BY <1>1
<1>3. g > 0 /\ Published(r)
  BY <1>1, <1>2 DEF Published, TypeInv, TypeOK, Segment
<1>4. publications'[r] = publications[r] /\ publications'[r].generation = g
  BY <1>1, <1>2, <1>3, PublishedStays
<1>5. PICK x : x = (CHOOSE q \in Revisions : publications'[q].generation = g)
  OBVIOUS
<1>6. x \in Revisions /\ publications'[x].generation = g
  BY <1>4, <1>5
<1>7. x = r
  BY <1>3, <1>4, <1>6 DEF LogContiguous, Published
<1> QED
  BY <1>2, <1>5, <1>7 DEF RevisionOf

\* The publish transaction is one Publish of the log, of the lane's revision.
LEMMA PublishAppends ==
  ASSUME TypeInv, LogInv, TypeInv', LogInv', [Next]_vars,
         NEW l \in Lanes, PublishRoutes(l)
  PROVE  LogNow' = Append(LogNow, lanes[l].revision)
<1> DEFINE n == lanes[l].revision
           m == segment.generation
<1>1. LogContiguous /\ LogContiguous'
  BY DEF LogInv
<1>2. /\ n \in Revisions /\ m \in Nat /\ segment'.generation = m + 1
      /\ publications'[n].generation = m + 1
  BY PublishEffect
<1>3. /\ LogNow \in Seq(Revisions) /\ Len(LogNow) = m
  BY <1>1, LogIsASequence
<1>4. /\ Append(LogNow, n) \in Seq(Revisions)
      /\ Len(Append(LogNow, n)) = m + 1
      /\ \A i \in 1..m : Append(LogNow, n)[i] = LogNow[i]
      /\ Append(LogNow, n)[m + 1] = n
  BY <1>2, <1>3, AppendProperties
<1>5. DOMAIN Append(LogNow, n) = 1..(m + 1)
  BY <1>4, LenProperties
<1>6. Append(LogNow, n) = [i \in 1..(m + 1) |-> Append(LogNow, n)[i]]
  BY <1>4, <1>5, LenProperties
<1>7. LogNow' = [g \in 1..(m + 1) |-> RevisionOf(g)']
  BY <1>2 DEF LogNow, RevisionOf
<1>8. ASSUME NEW g \in 1..(m + 1)
      PROVE  RevisionOf(g)' = Append(LogNow, n)[g]
  <2>1. CASE g \in 1..m
    <3>1. RevisionOf(g)' = RevisionOf(g)
      BY <1>1, <2>1, PlaceKept
    <3>2. LogNow[g] = RevisionOf(g)
      BY <2>1 DEF LogNow
    <3> QED
      BY <1>4, <2>1, <3>1, <3>2
  <2>2. CASE g = m + 1
    <3>1. PICK x : x = (CHOOSE q \in Revisions : publications'[q].generation = m + 1)
      OBVIOUS
    <3>2. x \in Revisions /\ publications'[x].generation = m + 1
      BY <1>2, <3>1
    <3>3. x = n
      BY <1>1, <1>2, <3>2 DEF LogContiguous, Published
    <3> QED
      BY <1>4, <2>2, <3>1, <3>3 DEF RevisionOf
  <2>3. g \in 1..m \/ g = m + 1
    BY <1>2
  <2> QED
    BY <2>1, <2>2, <2>3
<1> QED
  BY <1>6, <1>7, <1>8

\* No other step touches the log.
LEMMA LogStutters ==
  ASSUME TypeInv, publications' = publications,
         segment'.generation = segment.generation
  PROVE  LogNow' = LogNow
BY DEF LogNow, RevisionOf

\* Every step requests, publishes in the order of the requests, or leaves
\* desired revision and log alone.
LEMMA LogRefinement ==
  ASSUME ~Overrun, TypeInv, QueueInv, LogInv, OrderInv, TypeInv', LogInv',
         [Next]_vars
  PROVE  [Log!LogNext]_<<head, LogNow>>
<1>1. CASE publications' = publications /\ segment'.generation = segment.generation
  <2>1. LogNow' = LogNow
    BY <1>1, LogStutters
  <2>2. head' = head \/ head' = head + 1
    BY StepKinds DEF EnqueueStep, Extended, DeleteEffect, RecoverEffect,
       ExpireLease, ClaimNext, LaneKinds, Quiet
  <2> QED
    BY <2>1, <2>2 DEF Log!LogNext, Log!Request, LogNow
<1>2. ASSUME NEW l \in Lanes, PublishRoutes(l)
      PROVE  Log!LogNext
  <2> DEFINE n == lanes[l].revision
  <2>1. /\ n \in Revisions /\ lanes[l].pc = "built"
        /\ lanes[l].generation = segment.generation + 1
        /\ segment.generation \in Nat /\ ~Published(n)
    BY <1>2, PublishEffect
  <2>2. n \in 1..head /\ UNCHANGED head
    BY <1>2, <2>1 DEF QueueInv, LaneClaim, PublishRoutes
  <2>3. LogContiguous /\ Len(LogNow) = segment.generation
    BY LogIsASequence DEF LogInv
  <2>4. ASSUME NEW g \in 1..segment.generation PROVE LogNow[g] < n
    <3>1. PICK r \in Revisions : r = RevisionOf(g)
      BY <2>3, RevisionOfLog
    <3>2. publications[r].generation = g
      BY <2>3, <3>1, RevisionOfLog
    <3>3. Published(r)
      BY <2>1, <3>2 DEF Published
    <3>4. r <= n /\ r # n
      BY <2>1, <3>3 DEF OrderInv, BuiltInOrder
    <3>5. r < n
      BY <2>1, <3>4 DEF Revisions
    <3> QED
      BY <3>1, <3>5 DEF LogNow
  <2>5. LogNow' = Append(LogNow, n)
    BY <1>2, PublishAppends
  <2>6. Log!Publish(n)
    BY <2>2, <2>3, <2>4, <2>5 DEF Log!Publish, LogNow
  <2> QED
    BY <2>2, <2>6 DEF Log!LogNext
<1> QED
  BY <1>1, <1>2, LogStep

\* The pipeline implements the append-only, request-ordered publication log:
\* whatever lanes crash, overlap or lose their receipts, each of its steps is
\* a request, a publication at the end of the log, or invisible there.
THEOREM PipelineImplementsLog ==
  ASSUME ~Overrun
  PROVE  Spec => ImplementsLog
<1>1. Init => Log!LogInit
  <2> SUFFICES ASSUME Init PROVE Log!LogInit
    OBVIOUS
  <2>1. head = 0 /\ segment.generation = 0
    BY DEF Init
  <2>2. [g \in 1..segment.generation |-> RevisionOf(g)] = <<>>
    BY <2>1
  <2> QED
    BY <2>1, <2>2 DEF Log!LogInit
<1>2. TypeInv /\ QueueInv /\ LogInv /\ OrderInv /\ TypeInv' /\ LogInv'
        /\ [Next]_vars
        => [Log!LogNext]_<<head, [g \in 1..segment.generation |-> RevisionOf(g)]>>
  <2> SUFFICES ASSUME TypeInv, QueueInv, LogInv, OrderInv, TypeInv', LogInv',
                      [Next]_vars
               PROVE  \/ Log!LogNext
                      \/ UNCHANGED <<head,
                           [g \in 1..segment.generation |-> RevisionOf(g)]>>
    OBVIOUS
  <2>1. Log!LogNext \/ UNCHANGED <<head, LogNow>>
    BY LogRefinement
  <2> QED
    BY <2>1 DEF LogNow
<1> QED
  BY <1>1, <1>2, QueueInductive, LogInductive, OrderInductive, PTL
     DEF Spec, ImplementsLog, Log!LogSpec

-----------------------------------------------------------------------------
(***************************************************************************)
(* The prepare fence                                                       *)
(***************************************************************************)
\* The last transport edit has its own job, and that job keeps its mode.
TransportQueued ==
  control.state # "ABSENT" =>
    control.transport \in 1..head /\ jobs[control.transport].mode = "TUNNEL"

\* A lane that is to publish POLICY_ONLY has a publication a before it such
\* that everything published, or still publishable, from a up to the lane's own
\* revision carries the transport graph the lane has read.
LaneFence ==
  \A l \in Lanes :
    lanes[l].pc \in Holding /\ lanes[l].mode = "POLICY_ONLY" =>
      \E a \in 1..(lanes[l].revision - 1) :
        /\ Published(a)
        /\ \A q \in a..(lanes[l].revision - 1) :
             /\ Published(q) => publications[q].transport = lanes[l].transport
             /\ \A k \in Lanes :
                  lanes[k].pc \in Holding /\ lanes[k].revision = q =>
                    lanes[k].transport = lanes[l].transport

FenceInv == TransportQueued /\ LaneFence /\ PrepareFence

\* A job keeps the mode it was queued with.
LEMMA ModeKept ==
  ASSUME TypeInv, [Next]_vars, NEW r \in Revisions, r <= head
  PROVE  jobs'[r].mode = jobs[r].mode
<1> USE DEF TypeInv
<1>1. head \in Nat /\ r \in Nat /\ jobs[r] \in Job
  BY DEF TypeOK, Versions, Revisions
<1>2. jobs = [q \in Revisions |-> jobs[q]]
  BY DEF TypeOK
<1>3. CASE EnqueueStep
  BY <1>1, <1>3 DEF EnqueueStep, Extended
<1>4. CASE DeleteSegment
  <2>1. jobs'[r] = RetiredJob(jobs[r])
    BY <1>4 DEF DeleteSegment
  <2> QED
    BY <1>1, <2>1 DEF RetiredJob, Job
<1>5. CASE RecoverFailedHead
  <2>1. head \in Revisions
    BY <1>1, <1>5 DEF RecoverFailedHead, TypeOK, Versions, Revisions
  <2> QED
    BY <1>1, <1>2, <1>5, <2>1 DEF RecoverFailedHead, Job
<1>6. ASSUME NEW q \in Revisions, ExpireLease(q)
      PROVE  jobs'[r].mode = jobs[r].mode
  BY <1>1, <1>2, <1>6 DEF ExpireLease, Job
<1>7. ASSUME NEW l \in Lanes, ClaimNext(l)
      PROVE  jobs'[r].mode = jobs[r].mode
  <2>1. PICK q \in Revisions :
           /\ \A p \in Revisions : p # q => jobs'[p] = jobs[p]
           /\ jobs'[q] = [jobs[q] EXCEPT !.state = "LEASED", !.owner = l,
                                          !.expired = FALSE, !.error = "NONE"]
    BY <1>7, ClaimEffect
  <2>2. CASE q = r
    BY <1>1, <2>1, <2>2 DEF Job
  <2> QED
    BY <2>1, <2>2
<1>8. ASSUME NEW l \in Lanes, WriteReceipt(l), HoldsLease(l)
      PROVE  jobs'[r].mode = jobs[r].mode
  <2>1. jobs' = [jobs EXCEPT ![lanes[l].revision] =
                   Receipted(jobs[lanes[l].revision], l)]
    BY <1>8 DEF WriteReceipt
  <2>2. lanes[l].revision \in Revisions
    BY <1>8 DEF HoldsLease
  <2>3. CASE lanes[l].revision = r
    <3>1. jobs'[r] = Receipted(jobs[r], l)
      BY <1>2, <2>1, <2>2, <2>3
    <3> QED
      BY <1>1, <3>1 DEF Receipted, Job
  <2>4. CASE lanes[l].revision # r
    BY <1>2, <2>1, <2>2, <2>4
  <2> QED
    BY <2>3, <2>4
<1>9. ASSUME NEW l \in Lanes, LaneKinds(l)
      PROVE  jobs'[r].mode = jobs[r].mode
  BY <1>8, <1>9 DEF LaneKinds, WriteReceipt
<1>10. CASE Quiet
  BY <1>10 DEF Quiet
<1>11. CASE (ManagementStep \/ RefreshExpiring \/ ReconcileSupersededHead)
             /\ ~DeleteSegment
  BY <1>3, <1>11, Enqueues
<1>12. CASE CompleteRollout \/ ReadinessStep \/ UNCHANGED vars
  BY <1>12 DEF CompleteRollout, ReadinessStep, ReadinessRead,
     ReadinessMaterialize, vars
<1>13. ASSUME NEW l \in Lanes,
              LaneStep(l) \/ TransientFailure(l) \/ Crash(l)
       PROVE  jobs'[r].mode = jobs[r].mode
  BY <1>9, <1>13, LaneEffect
<1> QED
  BY <1>4, <1>5, <1>6, <1>7, <1>11, <1>12, <1>13 DEF Next, QueueStep, FaultStep

\* Every edit of the transport graph is queued as a TUNNEL job of its own.
LEMMA TransportQueuedStep ==
  ASSUME TypeInv, TransportQueued, [Next]_vars
  PROVE  TransportQueued'
<1> USE DEF TypeInv
<1>1. /\ head \in Nat /\ head' \in Nat /\ head <= head' /\ head <= MaxRevision
      /\ jobs = [q \in Revisions |-> jobs[q]]
  BY HeadGrows DEF TypeOK, Versions
<1>2. ASSUME control'.transport = control.transport,
             control'.state # "ABSENT" => control.state # "ABSENT"
      PROVE  TransportQueued'
  <2> SUFFICES ASSUME control.state # "ABSENT"
               PROVE  /\ control.transport \in 1..(head')
                      /\ jobs'[control.transport].mode = "TUNNEL"
    BY <1>2 DEF TransportQueued
  <2>1. PICK t : t = control.transport
    OBVIOUS
  <2>2. t \in 1..head /\ jobs[t].mode = "TUNNEL"
    BY <2>1 DEF TransportQueued
  <2>3. t \in Revisions /\ t <= head
    BY <1>1, <2>2 DEF Revisions
  <2>4. jobs'[t].mode = "TUNNEL"
    BY <2>2, <2>3, ModeKept
  <2> QED
    BY <1>1, <2>1, <2>2, <2>4
<1>3. ASSUME control'.transport = head + 1,
             EnqueueGeneration(FreshHash, "TUNNEL")
      PROVE  TransportQueued'
  <2>1. AppendJob(FreshHash, "TUNNEL")
    BY <1>3 DEF EnqueueGeneration, EnqueuedBefore
  <2>2. head + 1 \in Revisions /\ head' = head + 1
    BY <1>1, <2>1 DEF AppendJob, Revisions
  <2>3. jobs'[head + 1] = [NoJob EXCEPT !.state = "PENDING",
                             !.hash = FreshHash, !.mode = "TUNNEL"]
    BY <1>1, <2>1, <2>2 DEF AppendJob
  <2>4. jobs'[head + 1].mode = "TUNNEL"
    BY <2>3 DEF NoJob
  <2> QED
    BY <1>1, <1>3, <2>2, <2>4 DEF TransportQueued
<1>4. CASE UNCHANGED control
  BY <1>2, <1>4
<1>5. CASE CreateSegment
  BY <1>3, <1>5 DEF CreateSegment, TypeOK, Control
<1>6. ASSUME NEW attached \in BOOLEAN, NEW paths \in Paths,
             MutateTransport(attached, paths)
      PROVE  TransportQueued'
  BY <1>3, <1>6 DEF MutateTransport, TypeOK, Control
<1>7. ASSUME NEW paths \in Paths, MutatePolicy(paths) PROVE TransportQueued'
  BY <1>2, <1>7 DEF MutatePolicy, TypeOK, Control
<1>8. ASSUME NEW state \in {"ACTIVE", "DISABLED"}, SetSegmentState(state)
      PROVE  TransportQueued'
  BY <1>3, <1>8 DEF SetSegmentState, TypeOK, Control
<1>9. CASE DeleteSegment
  BY <1>2, <1>9 DEF DeleteSegment, TypeOK, Control
<1>10. ASSUME NEW e, ReplaceEndpoints(e, e) PROVE UNCHANGED control
  BY <1>10 DEF ReplaceEndpoints
<1>11. ASSUME NEW l \in Lanes,
              LaneStep(l) \/ TransientFailure(l) \/ Crash(l)
       PROVE  UNCHANGED control
  BY <1>11, LaneEffect DEF LaneKinds
<1>12. CASE ManagementStep
  BY <1>4, <1>5, <1>6, <1>7, <1>8, <1>9, <1>10, <1>12 DEF ManagementStep,
     ProvisionTransportIdentity, WithdrawTransportIdentity
<1>13. CASE QueueStep \/ CompleteRollout \/ ReadinessStep \/ UNCHANGED vars
  BY <1>4, <1>13 DEF QueueStep, RefreshExpiring, RecoverFailedHead,
     ReconcileSupersededHead, ExpireLease, CompleteRollout, ReadinessStep,
     ReadinessRead, ReadinessMaterialize, vars
<1>14. ASSUME NEW l \in Lanes, ClaimNext(l) PROVE UNCHANGED control
  BY <1>14 DEF ClaimNext
<1> QED
  BY <1>4, <1>11, <1>12, <1>13, <1>14 DEF Next, FaultStep

\* At its first read a POLICY_ONLY lane has the fence: the last transport edit
\* is in a publication before the lane's revision.
LEMMA FenceRead ==
  ASSUME TypeInv, QueueInv, LogInv, GraphInv, TransportQueued,
         NEW l \in Lanes, lanes[l].pc = "claimed", HoldsLease(l),
         control.state = "ACTIVE", ~TransportChangePending
  PROVE  \E a \in 1..(lanes[l].revision - 1) :
           /\ Published(a)
           /\ \A q \in a..(lanes[l].revision - 1) :
                /\ Published(q) => publications[q].transport = control.transport
                /\ \A k \in Lanes :
                     lanes[k].pc \in Holding /\ lanes[k].revision = q =>
                       lanes[k].transport = control.transport
<1> DEFINE n == lanes[l].revision
           t == control.transport
<1>1. /\ Revisions \subseteq Nat /\ head \in Nat /\ head <= MaxRevision
      /\ \A r \in Revisions : r >= 1
  BY DEF TypeInv, TypeOK, Versions, Revisions
<1>2. n \in Revisions /\ jobs[n].state = "LEASED"
  BY DEF HoldsLease
<1>3. t \in 1..head /\ jobs[t].mode = "TUNNEL"
  BY DEF TransportQueued
<1>4. t \in Revisions /\ t <= head
  BY <1>1, <1>3 DEF Revisions
<1>5. jobs[t].state # "ABSENT"
  <2>1. head \in Nat /\ t \in Nat
    BY <1>1, <1>4
  <2>2. ~(t > head)
    BY <1>4, <2>1
  <2> QED
    BY <1>4, <2>2 DEF QueueInv, JobsDense
<1>6. PICK a \in Revisions : jobs[a].state = "PUBLISHED" /\ ~(a < t)
  BY <1>3, <1>4, <1>5 DEF TransportChangePending
<1>7. Published(a)
  BY <1>6 DEF LogInv, ReceiptTruthful
<1>8. a < n
  <2>1. \A r \in 1..(a - 1) : jobs[r].state \in Terminal
    BY <1>6 DEF QueueInv, QueueOrder
  <2>2. ~(n \in 1..(a - 1))
    BY <1>2, <2>1 DEF Terminal
  <2>3. a # n
    BY <1>2, <1>6
  <2>4. n \in Nat /\ n >= 1 /\ a \in Nat
    BY <1>1, <1>2
  <2> QED
    BY <2>2, <2>3, <2>4
<1>9. ASSUME NEW q \in a..(n - 1)
      PROVE  /\ Published(q) => publications[q].transport = t
             /\ \A k \in Lanes : lanes[k].pc \in Holding /\ lanes[k].revision = q
                  => lanes[k].transport = t
  <2>1. q \in Revisions /\ t <= q
    BY <1>1, <1>2, <1>4, <1>6 DEF Revisions
  <2> QED
    BY <2>1 DEF GraphInv, PublishedGraph, LaneGraph
<1>10. a \in 1..(n - 1)
  <2>1. n \in Nat /\ a \in Nat /\ a >= 1
    BY <1>1, <1>2
  <2> QED
    BY <1>8, <2>1
<1> QED
  BY <1>7, <1>9, <1>10

LEMMA FenceStepInv ==
  ASSUME ~Overrun, TypeInv, QueueInv, LogInv, OrderInv, GraphInv, FenceInv,
         [Next]_vars
  PROVE  FenceInv'
<1> USE DEF FenceInv
<1>1. TransportQueued'
  BY TransportQueuedStep
<1>2. /\ Revisions \subseteq Nat /\ TypeInv'
      /\ \A r \in Revisions : publications[r].generation \in Nat
  <2>1. TypeInv'
    BY TypeStep
  <2>2. Revisions \subseteq Nat
    BY DEF Revisions
  <2>3. \A r \in Revisions : publications[r].generation \in Nat
    BY DEF TypeInv, TypeOK, Publication
  <2> QED
    BY <2>1, <2>2, <2>3
<1>3. LaneFence'
  <2> SUFFICES ASSUME NEW l \in Lanes, lanes'[l].pc \in Holding,
                      lanes'[l].mode = "POLICY_ONLY"
               PROVE  \E a \in 1..(lanes'[l].revision - 1) :
                        /\ publications'[a].generation > 0
                        /\ \A q \in a..(lanes'[l].revision - 1) :
                             /\ publications'[q].generation > 0 =>
                                  publications'[q].transport = lanes'[l].transport
                             /\ \A k \in Lanes :
                                  lanes'[k].pc \in Holding /\ lanes'[k].revision = q
                                    => lanes'[k].transport = lanes'[l].transport
    BY DEF LaneFence, Published
  <2> DEFINE n == lanes[l].revision
             t == lanes'[l].transport
  <2>1. lanes'[l].revision = n /\ lanes[l].pc # "idle"
    BY HoldingStep DEF Holding, Working
  <2>2. n \in Revisions /\ \A r \in 1..(n - 1) : jobs[r].state \in Terminal
    BY <2>1 DEF QueueInv, LaneClaim, TypeInv, ClaimedRevision
  <2>3. ASSUME NEW a \in 1..(n - 1), Published(a),
               \A q \in a..(n - 1) :
                 /\ Published(q) => publications[q].transport = t
                 /\ \A k \in Lanes :
                      lanes[k].pc \in Holding /\ lanes[k].revision = q =>
                        lanes[k].transport = t
        PROVE  /\ publications'[a].generation > 0
               /\ \A q \in a..(n - 1) :
                    /\ publications'[q].generation > 0 =>
                         publications'[q].transport = t
                    /\ \A k \in Lanes :
                         lanes'[k].pc \in Holding /\ lanes'[k].revision = q
                           => lanes'[k].transport = t
    <3>1. \A q \in a..(n - 1) : q \in Revisions /\ q \in 1..(n - 1)
      BY <1>2, <2>2 DEF Revisions
    <3>2. publications'[a].generation > 0
      <4>1. a \in Revisions
        BY <1>2, <2>2 DEF Revisions
      <4> QED
        BY <2>3, <4>1, PublishedStays DEF Published
    <3>3. ASSUME NEW q \in a..(n - 1), publications'[q].generation > 0
          PROVE  publications'[q].transport = t
      <4>1. CASE Published(q)
        BY <2>3, <3>1, <4>1, PublishedStays
      <4>2. CASE ~Published(q)
        <5>1. PICK k \in Lanes : PublishRoutes(k)
          BY <3>3, <4>2, LogStep DEF Published
        <5>2. /\ lanes[k].revision = q /\ lanes[k].pc = "built"
              /\ publications'[q].transport = lanes[k].transport
          BY <3>1, <3>3, <4>2, <5>1, PublishEffect DEF Published
        <5>3. lanes[k].pc \in Holding
          BY <5>2 DEF Holding, Working
        <5> QED
          BY <2>3, <5>2, <5>3
      <4> QED
        BY <4>1, <4>2
    <3>4. ASSUME NEW q \in a..(n - 1), NEW k \in Lanes,
                 lanes'[k].pc \in Holding, lanes'[k].revision = q
          PROVE  lanes'[k].transport = t
      <4>1. CASE lanes[k].pc \in Holding /\ lanes'[k].transport = lanes[k].transport
        BY <2>3, <3>4, <4>1, HoldingStep
      <4>2. CASE lanes[k].pc = "claimed" /\ InTime(k) /\ control.state = "ACTIVE"
        <5>1. lanes[k].revision = q
          BY <3>4, HoldingStep
        <5>2. jobs[q].state = "LEASED"
          BY <4>2, <5>1 DEF OrderInv, LiveLease, HoldsLease, InTime, Working
        <5> QED
          BY <2>2, <3>1, <5>2 DEF Terminal
      <4> QED
        BY <3>4, <4>1, <4>2, HoldingStep
    <3> QED
      BY <3>2, <3>3, <3>4
  <2>4. \E a \in 1..(n - 1) :
          /\ Published(a)
          /\ \A q \in a..(n - 1) :
               /\ Published(q) => publications[q].transport = t
               /\ \A k \in Lanes :
                    lanes[k].pc \in Holding /\ lanes[k].revision = q =>
                      lanes[k].transport = t
    <3>1. CASE /\ lanes[l].pc \in Holding /\ lanes'[l].mode = lanes[l].mode
               /\ lanes'[l].transport = lanes[l].transport
      BY <3>1 DEF LaneFence
    <3>2. CASE /\ lanes[l].pc = "claimed" /\ InTime(l)
               /\ control.state = "ACTIVE" /\ ~TransportChangePending
               /\ lanes'[l].transport = control.transport
      <4>1. HoldsLease(l)
        BY <3>2 DEF OrderInv, LiveLease, InTime, Working
      <4>2. \E a \in 1..(lanes[l].revision - 1) :
              /\ Published(a)
              /\ \A q \in a..(lanes[l].revision - 1) :
                   /\ Published(q) =>
                        publications[q].transport = control.transport
                   /\ \A k \in Lanes :
                        lanes[k].pc \in Holding /\ lanes[k].revision = q =>
                          lanes[k].transport = control.transport
        BY <3>2, <4>1, FenceRead
      <4> QED
        BY <3>2, <4>2
    <3> QED
      BY <3>1, <3>2, HoldingStep
  <2> HIDE DEF t
  <2> QED
    BY <2>1, <2>3, <2>4 DEF t
<1>4. PrepareFence'
  <2> SUFFICES ASSUME NEW r \in Revisions, publications'[r].generation > 0,
                      publications'[r].mode = "POLICY_ONLY"
               PROVE  \E q \in Revisions :
                        /\ publications'[q].generation > 0
                        /\ publications'[q].generation + 1
                             = publications'[r].generation
                        /\ publications'[q].transport = publications'[r].transport
    BY DEF PrepareFence, Published
  <2>1. CASE Published(r)
    <3>1. publications'[r] = publications[r]
      BY <2>1, PublishedStays
    <3>2. PICK q \in Revisions :
            /\ Published(q)
            /\ publications[q].generation + 1 = publications[r].generation
            /\ publications[q].transport = publications[r].transport
      BY <2>1, <3>1 DEF PrepareFence
    <3>3. publications'[q] = publications[q]
      BY <3>2, PublishedStays
    <3> QED
      BY <3>1, <3>2, <3>3 DEF Published
  <2>2. CASE ~Published(r)
    <3>1. PICK l \in Lanes : PublishRoutes(l)
      BY <2>2, LogStep DEF Published
    <3>2. /\ lanes[l].revision = r /\ lanes[l].pc = "built"
          /\ lanes[l].mode = "POLICY_ONLY"
          /\ lanes[l].generation = segment.generation + 1
          /\ segment.generation \in Nat
          /\ publications'[r].generation = segment.generation + 1
          /\ publications'[r].transport = lanes[l].transport
      BY <2>2, <3>1, PublishEffect DEF Published
    <3>3. segment.generation > 0
      BY <3>1, <3>2 DEF PublishRoutes, Publishable, RolloutSettled
    <3>4. PICK q \in Revisions : publications[q].generation = segment.generation
      BY <3>2, <3>3 DEF LogInv, LogContiguous
    <3>5. Published(q) /\ q <= r /\ q # r
      BY <2>2, <3>2, <3>3, <3>4 DEF Published, OrderInv, BuiltInOrder
    <3>6. PICK a \in 1..(r - 1) :
            /\ Published(a)
            /\ \A p \in a..(r - 1) :
                 Published(p) => publications[p].transport = lanes[l].transport
      BY <3>2 DEF LaneFence, Holding, Working
    <3>7. a \in Revisions
      BY <1>2 DEF Revisions
    <3>8. ~(q < a)
      <4>1. publications[a].generation <= publications[q].generation
        BY <3>4, <3>7 DEF LogInv, LogContiguous
      <4>2. q < a => publications[q].generation < publications[a].generation
        BY <3>5, <3>6, <3>7 DEF OrderInv, PublicationOrder
      <4> QED
        BY <1>2, <3>7, <4>1, <4>2
    <3>9. q \in a..(r - 1)
      <4>1. q \in Nat /\ a \in Nat /\ r \in Nat
        BY <1>2, <3>7
      <4> QED
        BY <3>5, <3>8, <4>1
    <3>10. publications'[q] = publications[q]
      BY <3>5, PublishedStays
    <3> QED
      BY <3>2, <3>4, <3>5, <3>6, <3>9, <3>10 DEF Published
  <2> QED
    BY <2>1, <2>2
<1> QED
  BY <1>1, <1>3, <1>4

\* A POLICY_ONLY publication carries the transport graph of the generation it
\* follows, whatever transport edits are queued, fail or are promoted around
\* it: the effective mode read with the graph sees every edit that graph holds
\* beyond the last reported publication.
THEOREM PolicyFollowsTransport ==
  ASSUME ~Overrun
  PROVE  Spec => []PrepareFence
<1>1. Init => FenceInv
  <2> SUFFICES ASSUME Init PROVE FenceInv
    OBVIOUS
  <2>1. \A l \in Lanes : lanes[l].pc = "idle"
    BY DEF Init, IdleLane
  <2>2. \A r \in Revisions : ~Published(r)
    BY DEF Init, NoPublication, Published
  <2>3. control.state = "ABSENT"
    BY DEF Init
  <2> QED
    BY <2>1, <2>2, <2>3 DEF FenceInv, TransportQueued, LaneFence, PrepareFence,
       Holding, Working
<1>2. TypeInv /\ QueueInv /\ LogInv /\ OrderInv /\ GraphInv /\ FenceInv
        /\ [Next]_vars => FenceInv'
  BY FenceStepInv
<1>3. FenceInv => PrepareFence
  BY DEF FenceInv
<1> QED
  BY <1>1, <1>2, <1>3, QueueInductive, LogInductive, OrderInductive,
     GraphInductive, PTL DEF Spec

==============================================================================

------------------------ MODULE RuntimeRolloutProofs ------------------------
(***************************************************************************)
(* Proofs about the rollout of the generations of a Segment, for any       *)
(* number of devices, generations and reports under way, any compatibility *)
(* window and both settings of the policy-isolation gate.                  *)
(***************************************************************************)
EXTENDS RuntimeRollout, TLAPS

USE NodesAssumption, BoundsAssumption

-----------------------------------------------------------------------------
(***************************************************************************)
(* The steps, one action at a time                                         *)
(***************************************************************************)
LEMMA NextCases ==
  ASSUME Next
  PROVE  \/ \E m \in Modes : \E p \in SUBSET attached : Publish(m, p)
         \/ \E d \in Roaming : ChangeTopology(d)
         \/ GoStale
         \/ \E d \in Devices : Fetch(d) \/ Apply(d) \/ SendReport(d) \/ Reject(d)
         \/ \E m \in reports : CheckStatus(m) \/ RecordStatus(m) \/ LoseReport(m)
BY DEF Next, PublisherStep, RuntimeStep, Handle, InFlight, FaultStep

LEMMA CompatibilityType ==
  ASSUME TypeOK, NEW d \in Devices, Deliverable(d)
  PROVE  CurrentConfiguration(d) \in Offer
<1>1. ASSUME NEW e \in Devices, Compatible(e, Retained(e))
      PROVE  Retained(e) \in Generations
  BY <1>1 DEF Compatible, Generations, TypeOK
<1>2. Compatibility(d) \subseteq Devices \X Generations
  BY <1>1 DEF Compatibility, TypeOK
<1> QED
  BY <1>2 DEF CurrentConfiguration, Offer, TypeOK, ActivationPhase, Phases

\* A fetch replaces the held configuration by the current one; a result stays
\* if generation and phase are those it was reached with.
LEMMA FetchShape ==
  ASSUME TypeOK, NEW d \in Devices, Fetch(d)
  PROVE  /\ runtime' \in [Devices -> Runtime]
         /\ \A e \in Devices : e # d => runtime'[e] = runtime[e]
         /\ runtime'[d].offer.generation = current /\ current > 0
         /\ runtime'[d].offer.phase = ActivationPhase(current)
         /\ runtime'[d].prepared = runtime[d].prepared
         /\ runtime'[d].running = runtime[d].running
         /\ \/ runtime'[d].result = "NONE"
            \/ /\ runtime'[d].result = runtime[d].result
               /\ runtime[d].offer.generation = current
               /\ runtime[d].offer.phase = ActivationPhase(current)
<1> DEFINE o == CurrentConfiguration(d)
           b == runtime[d]
           x == IF o.generation = b.offer.generation /\ o.phase = b.offer.phase
                THEN b.result ELSE "NONE"
           r == [b EXCEPT !.offer = o, !.result = x]
<1>1. b \in Runtime /\ o \in Offer /\ b.result \in ApplyStates \cup {"NONE"}
  BY CompatibilityType DEF TypeOK, Runtime, Fetch
<1>2. x \in ApplyStates \cup {"NONE"}
  BY <1>1
<1>3. runtime' = [runtime EXCEPT ![d] = r]
  BY DEF Fetch
<1>4. o.generation = current /\ o.phase = ActivationPhase(current) /\ current > 0
  BY DEF CurrentConfiguration, Fetch, Deliverable
<1>5. /\ r \in Runtime /\ r.offer = o /\ r.result = x
      /\ r.prepared = b.prepared /\ r.running = b.running
  <2> HIDE DEF b, o, x
  <2> QED
    BY <1>1, <1>2 DEF Runtime
<1>6. x = "NONE" \/ (x = b.result /\ b.offer.generation = current
                     /\ b.offer.phase = ActivationPhase(current))
  BY <1>4
<1> HIDE DEF r, o, x
<1>7. runtime'[d] = r /\ \A e \in Devices : e # d => runtime'[e] = runtime[e]
  BY <1>3 DEF TypeOK
<1>8. runtime' \in [Devices -> Runtime]
  BY <1>3, <1>5 DEF TypeOK
<1> QED
  BY <1>4, <1>5, <1>6, <1>7, <1>8

\* Applying marks the generation prepared, or makes it the running one.
LEMMA ApplyShape ==
  ASSUME TypeOK, NEW d \in Devices, Apply(d)
  PROVE  /\ runtime' \in [Devices -> Runtime]
         /\ \A e \in Devices : e # d => runtime'[e] = runtime[e]
         /\ runtime'[d].offer = runtime[d].offer
         /\ runtime[d].offer.generation \in Generations
         /\ \/ /\ runtime'[d].result = "PREPARED"
               /\ runtime'[d].prepared =
                    runtime[d].prepared \cup {runtime[d].offer.generation}
               /\ runtime'[d].running = runtime[d].running
            \/ /\ runtime[d].offer.phase = "COMMIT"
               /\ runtime'[d].result = "ACTIVE"
               /\ runtime'[d].prepared = runtime[d].prepared
               /\ runtime'[d].running = runtime[d].offer.generation
<1> DEFINE b == runtime[d]
           g == b.offer.generation
           p == [b EXCEPT !.result = "PREPARED", !.prepared = b.prepared \cup {g}]
           c == [b EXCEPT !.result = "ACTIVE", !.running = g]
<1>1. b \in Runtime /\ b.offer \in Offer
  BY DEF TypeOK, Runtime
<1>2. g \in 0..MaxGeneration /\ g > 0
  BY <1>1 DEF Offer, Apply
<1>3. g \in Generations
  BY <1>2 DEF Generations
<1>4. \/ runtime' = [runtime EXCEPT ![d] = p]
      \/ runtime' = [runtime EXCEPT ![d] = c] /\ b.offer.phase = "COMMIT"
  BY DEF Apply
<1>5. /\ p \in Runtime /\ p.offer = b.offer /\ p.result = "PREPARED"
      /\ p.prepared = b.prepared \cup {g} /\ p.running = b.running
      /\ c \in Runtime /\ c.offer = b.offer /\ c.result = "ACTIVE"
      /\ c.prepared = b.prepared /\ c.running = g
  <2> HIDE DEF b, g
  <2> QED
    BY <1>1, <1>2, <1>3 DEF Runtime, ApplyStates
<1> HIDE DEF p, c
<1>6. CASE runtime' = [runtime EXCEPT ![d] = p]
  BY <1>3, <1>5, <1>6 DEF TypeOK
<1>7. CASE runtime' = [runtime EXCEPT ![d] = c] /\ b.offer.phase = "COMMIT"
  BY <1>3, <1>5, <1>7 DEF TypeOK
<1> QED
  BY <1>4, <1>6, <1>7

LEMMA RejectShape ==
  ASSUME TypeOK, NEW d \in Devices, Reject(d)
  PROVE  /\ runtime' \in [Devices -> Runtime]
         /\ \A e \in Devices : e # d => runtime'[e] = runtime[e]
         /\ runtime'[d].offer = runtime[d].offer
         /\ runtime'[d].result = "REJECTED"
         /\ runtime'[d].prepared = runtime[d].prepared
         /\ runtime'[d].running = runtime[d].running
<1>1. runtime' = [runtime EXCEPT ![d] = [runtime[d] EXCEPT !.result = "REJECTED"]]
  BY DEF Reject, TypeOK
<1> QED
  BY <1>1 DEF TypeOK, Runtime, ApplyStates

\* The four ways the rollout state moves with a receipt.
LEMMA NextPhaseCases ==
  ASSUME NEW state \in ApplyStates, NEW receipts
  PROVE  \/ /\ NextPhase(state, receipts) = "COMMITTING"
            /\ state = "PREPARED" /\ rollout[current] \in {"PREPARING", "BLOCKED"}
            /\ AllReport(receipts, "PREPARED")
         \/ /\ NextPhase(state, receipts) = "COMPLETE"
            /\ state = "ACTIVE" /\ rollout[current] \in {"COMMITTING", "BLOCKED"}
            /\ AllReport(receipts, "ACTIVE")
         \/ /\ NextPhase(state, receipts) = "BLOCKED" /\ rollout[current] = "PREPARING"
         \/ NextPhase(state, receipts) = rollout[current]
<1>1. CASE state = "PREPARED" /\ rollout[current] \in {"PREPARING", "BLOCKED"}
           /\ AllReport(receipts, "PREPARED")
  BY <1>1 DEF NextPhase
<1>2. CASE state = "ACTIVE" /\ rollout[current] \in {"COMMITTING", "BLOCKED"}
           /\ AllReport(receipts, "ACTIVE")
  BY <1>2 DEF NextPhase
<1>3. CASE state = "REJECTED" /\ rollout[current] = "PREPARING"
  BY <1>3 DEF NextPhase
<1>4. CASE /\ ~(state = "PREPARED" /\ rollout[current] \in {"PREPARING", "BLOCKED"}
                /\ AllReport(receipts, "PREPARED"))
           /\ ~(state = "ACTIVE" /\ rollout[current] \in {"COMMITTING", "BLOCKED"}
                /\ AllReport(receipts, "ACTIVE"))
           /\ ~(state = "REJECTED" /\ rollout[current] = "PREPARING")
  BY <1>4 DEF NextPhase
<1> QED
  BY <1>1, <1>2, <1>3, <1>4

\* The receipt of the current generation: the device's row is replaced, and the
\* rollout moves by the receipts that then stand.
Recorded(m) ==
  /\ m.etag.generation = current /\ current \in Generations
  /\ m.device \in members[current]
  /\ \A e \in Devices : e # m.device => status'[e] = status[e]
  /\ status'[m.device].generation = current
  /\ status'[m.device].state = m.state
  /\ \/ m.state = "ACTIVE" /\ status'[m.device].active = current
     \/ m.state # "ACTIVE" /\ status'[m.device].active = status[m.device].active
  /\ \A g \in Generations : g # current => rollout'[g] = rollout[g]
  /\ \/ /\ rollout'[current] = "COMMITTING"
        /\ m.state = "PREPARED" /\ rollout[current] \in {"PREPARING", "BLOCKED"}
        /\ AllReport(status', "PREPARED")
     \/ /\ rollout'[current] = "COMPLETE"
        /\ m.state = "ACTIVE" /\ rollout[current] \in {"COMMITTING", "BLOCKED"}
        /\ AllReport(status', "ACTIVE")
     \/ rollout'[current] = "BLOCKED" /\ rollout[current] = "PREPARING"
     \/ rollout'[current] = rollout[current]

\* The receipt of an earlier generation inside the window: only the running
\* version moves, forward, or a first receipt is written.
RecordedLate(m) ==
  /\ rollout' = rollout
  /\ m.state = "ACTIVE" /\ m.etag.generation < current
  /\ m.etag.generation + Window >= current
  /\ \A e \in Devices : e # m.device => status'[e] = status[e]
  /\ status[m.device].active < m.etag.generation
  /\ status'[m.device].active = m.etag.generation
  /\ \/ /\ status'[m.device].state = "ACTIVE"
        /\ status'[m.device].generation = m.etag.generation
     \/ /\ status'[m.device].state = status[m.device].state
        /\ status'[m.device].generation = status[m.device].generation

LEMMA CurrentShape ==
  ASSUME TypeOK, NEW m \in reports, Deliverable(m.device),
         m.etag.generation = current, RecordCurrent(m)
  PROVE  /\ status' \in [Devices -> Status]
         /\ rollout' \in [Generations ->
              {"NONE", "PREPARING", "BLOCKED", "COMMITTING", "COMPLETE"}]
         /\ UNCHANGED <<status, rollout>> \/ Recorded(m)
<1>1. CASE DelayedPrepare(m)
  BY <1>1 DEF RecordCurrent, TypeOK
<1>2. CASE ~DelayedPrepare(m)
  <2> DEFINE d == m.device
             r == [generation |-> current, state |-> m.state,
                   active |-> IF m.state = "ACTIVE" THEN current ELSE status[d].active]
             receipts == [status EXCEPT ![d] = r]
             x == NextPhase(m.state, receipts)
  <2>1. d \in Devices /\ m.state \in ApplyStates
    BY DEF TypeOK, Report
  <2>2. current \in Generations /\ d \in members[current]
    BY DEF TypeOK, Deliverable, Generations
  <2>3. status' = receipts /\ rollout' = [rollout EXCEPT ![current] = x]
    BY <1>2 DEF RecordCurrent
  <2>4. r \in Status
    BY <2>1 DEF TypeOK, Status
  <2>5. /\ r.generation = current /\ r.state = m.state
        /\ \/ m.state = "ACTIVE" /\ r.active = current
           \/ m.state # "ACTIVE" /\ r.active = status[d].active
    OBVIOUS
  <2> HIDE DEF r
  <2>6. /\ receipts \in [Devices -> Status] /\ receipts[d] = r
        /\ \A e \in Devices : e # d => receipts[e] = status[e]
    BY <2>1, <2>4 DEF TypeOK
  <2> HIDE DEF receipts, d
  <2>7. \/ /\ x = "COMMITTING"
           /\ m.state = "PREPARED" /\ rollout[current] \in {"PREPARING", "BLOCKED"}
           /\ AllReport(receipts, "PREPARED")
        \/ /\ x = "COMPLETE"
           /\ m.state = "ACTIVE" /\ rollout[current] \in {"COMMITTING", "BLOCKED"}
           /\ AllReport(receipts, "ACTIVE")
        \/ /\ x = "BLOCKED" /\ rollout[current] = "PREPARING"
        \/ x = rollout[current]
    BY <2>1, NextPhaseCases
  <2> HIDE DEF x
  <2>8. /\ rollout' \in [Generations ->
              {"NONE", "PREPARING", "BLOCKED", "COMMITTING", "COMPLETE"}]
        /\ rollout'[current] = x
        /\ \A g \in Generations : g # current => rollout'[g] = rollout[g]
    BY <2>2, <2>3, <2>7 DEF TypeOK
  <2>9. m.device = d
    BY DEF d
  <2> QED
    BY <2>2, <2>3, <2>5, <2>6, <2>7, <2>8, <2>9 DEF Recorded
<1> QED
  BY <1>1, <1>2

LEMMA LateShape ==
  ASSUME TypeOK, NEW m \in reports, Historical(m), RecordHistorical(m)
  PROVE  /\ status' \in [Devices -> Status]
         /\ UNCHANGED <<status, rollout>> \/ RecordedLate(m)
<1> DEFINE d == m.device
           g == m.etag.generation
           n == [generation |-> g, state |-> "ACTIVE", active |-> g]
<1>1. d \in Devices /\ m.etag \in Offer
  BY DEF TypeOK, Report
<1>2. g \in 0..MaxGeneration
  BY <1>1 DEF Offer
<1>3. /\ m.state = "ACTIVE" /\ g < current /\ g + Window >= current /\ rollout' = rollout
  BY DEF Historical, RecordHistorical
<1>4. status[d] \in Status /\ status[d].active \in Nat
  BY <1>1 DEF TypeOK, Status
<1>5. CASE status[d].active >= g
  BY <1>3, <1>5 DEF RecordHistorical, TypeOK
<1>6. CASE ~(status[d].active >= g) /\ status[d].state = "NONE"
  <2>1. status' = [status EXCEPT ![d] = n]
    BY <1>6 DEF RecordHistorical
  <2>2. n \in Status /\ n.active = g /\ n.state = "ACTIVE" /\ n.generation = g
    BY <1>2 DEF Status, ApplyStates
  <2> HIDE DEF n
  <2>3. status' \in [Devices -> Status] /\ status'[d] = n
        /\ \A e \in Devices : e # d => status'[e] = status[e]
    BY <1>1, <2>1, <2>2 DEF TypeOK
  <2> QED
    BY <1>2, <1>3, <1>4, <1>6, <2>2, <2>3 DEF RecordedLate
<1>7. CASE ~(status[d].active >= g) /\ status[d].state # "NONE"
  <2> DEFINE b == status[d]
             r == [b EXCEPT !.active = g]
  <2>1. status' = [status EXCEPT ![d] = r]
    BY <1>1, <1>7 DEF RecordHistorical, TypeOK
  <2>2. b \in Status
    BY <1>4
  <2> HIDE DEF b
  <2>3. r \in Status /\ r.active = g /\ r.state = b.state /\ r.generation = b.generation
    BY <1>2, <2>2 DEF Status
  <2> HIDE DEF r
  <2>4. status' \in [Devices -> Status] /\ status'[d] = r
        /\ \A e \in Devices : e # d => status'[e] = status[e]
    BY <1>1, <2>1, <2>3 DEF TypeOK
  <2>5. b = status[d]
    BY DEF b
  <2> QED
    BY <1>2, <1>3, <1>4, <1>7, <2>3, <2>4, <2>5 DEF RecordedLate
<1> QED
  BY <1>5, <1>6, <1>7

\* A report that is recorded leaves no other trace than these.
LEMMA RecordShape ==
  ASSUME TypeOK, NEW m \in reports, RecordStatus(m)
  PROVE  /\ status' \in [Devices -> Status]
         /\ rollout' \in [Generations ->
              {"NONE", "PREPARING", "BLOCKED", "COMMITTING", "COMPLETE"}]
         /\ UNCHANGED <<status, rollout>> \/ Recorded(m) \/ RecordedLate(m)
         /\ reports' \subseteq reports
         /\ UNCHANGED <<current, mode, members, attached, stale, announced, runtime, faults>>
<1>1. /\ reports' \subseteq reports
      /\ UNCHANGED <<current, mode, members, attached, stale, announced, runtime, faults>>
  BY DEF RecordStatus
<1>2. CASE Deliverable(m.device) /\ m.etag.generation = current /\ RecordCurrent(m)
  BY <1>1, <1>2, CurrentShape
<1>3. CASE Deliverable(m.device) /\ Historical(m) /\ RecordHistorical(m)
  <2>1. rollout' = rollout
    BY <1>3 DEF RecordHistorical
  <2> QED
    BY <1>1, <1>3, <2>1, LateShape DEF TypeOK
<1>4. CASE UNCHANGED <<status, rollout>>
  BY <1>1, <1>4 DEF TypeOK
<1> QED
  BY <1>2, <1>3, <1>4 DEF RecordStatus

-----------------------------------------------------------------------------
(***************************************************************************)
(* Types                                                                   *)
(***************************************************************************)
LEMMA TypeInit == Init => TypeOK
BY DEF Init, TypeOK, Status, Runtime, Offer, NoOffer, Modes, Phases, Generations

LEMMA PublishType ==
  ASSUME TypeOK, NEW m \in Modes, NEW p \in SUBSET attached, Publish(m, p)
  PROVE  TypeOK'
<1>1. current' \in 0..MaxGeneration /\ current + 1 \in Generations
  BY DEF TypeOK, Publish, Generations
<1>2. {<<e, status[e].active>> : e \in Lagging} \subseteq Devices \X Generations
  BY DEF Lagging, TypeOK, Status, Generations
<1>3. announced' \subseteq Devices \X Generations
  BY <1>2 DEF Publish, TypeOK
<1>4. stale' \in 0..current'
  BY DEF Publish, TypeOK
<1>5. /\ mode' \in [Generations -> Modes]
      /\ members' \in [Generations -> SUBSET Devices]
      /\ rollout' \in [Generations ->
            {"NONE", "PREPARING", "BLOCKED", "COMMITTING", "COMPLETE"}]
  BY <1>1 DEF Publish, TypeOK
<1> QED
  BY <1>1, <1>3, <1>4, <1>5 DEF Publish, TypeOK

LEMMA TypeNext == TypeOK /\ [Next]_vars => TypeOK'
<1> SUFFICES ASSUME TypeOK, [Next]_vars PROVE TypeOK'
  OBVIOUS
<1>1. CASE UNCHANGED vars
  BY <1>1 DEF TypeOK, vars
<1>2. ASSUME NEW m \in Modes, NEW p \in SUBSET attached, Publish(m, p) PROVE TypeOK'
  BY <1>2, PublishType
<1>3. ASSUME NEW d \in Roaming, ChangeTopology(d) PROVE TypeOK'
  BY <1>3 DEF TypeOK, ChangeTopology
<1>4. ASSUME GoStale PROVE TypeOK'
  BY <1>4 DEF TypeOK, GoStale
<1>5. ASSUME NEW d \in Devices, Fetch(d) PROVE TypeOK'
  <2>1. runtime' \in [Devices -> Runtime]
    BY <1>5, FetchShape
  <2> QED
    BY <1>5, <2>1 DEF TypeOK, Fetch, cloud
<1>6. ASSUME NEW d \in Devices, Apply(d) PROVE TypeOK'
  <2>1. runtime' \in [Devices -> Runtime]
    BY <1>6, ApplyShape
  <2> QED
    BY <1>6, <2>1 DEF TypeOK, Apply, cloud
<1>7. ASSUME NEW d \in Devices, Reject(d) PROVE TypeOK'
  <2>1. runtime' \in [Devices -> Runtime]
    BY <1>7, RejectShape
  <2>2. faults' \in 0..MaxFaults
    BY <1>7 DEF TypeOK, Reject
  <2> QED
    BY <1>7, <2>1, <2>2 DEF TypeOK, Reject, cloud
<1>8. ASSUME NEW d \in Devices, SendReport(d) PROVE TypeOK'
  <2>1. runtime[d].offer \in Offer /\ runtime[d].result \in ApplyStates
    BY <1>8 DEF TypeOK, SendReport, Runtime
  <2>2. [device |-> d, etag |-> runtime[d].offer, state |-> runtime[d].result,
         checked |-> FALSE] \in Report
    BY <2>1 DEF Report
  <2>3. reports' \subseteq Report
    BY <1>8, <2>2 DEF TypeOK, SendReport
  <2> QED
    BY <1>8, <2>3 DEF TypeOK, SendReport, cloud
<1>9. ASSUME NEW m \in reports, CheckStatus(m) PROVE TypeOK'
  <2>1. m \in Report
    BY DEF TypeOK
  <2>2. [m EXCEPT !.checked = TRUE] \in Report
    BY <2>1 DEF Report
  <2>3. reports' \subseteq Report
    BY <1>9, <2>2 DEF TypeOK, CheckStatus
  <2> QED
    BY <1>9, <2>3 DEF TypeOK, CheckStatus, cloud
<1>10. ASSUME NEW m \in reports, RecordStatus(m) PROVE TypeOK'
  BY <1>10, RecordShape DEF TypeOK
<1>11. ASSUME NEW m \in reports, LoseReport(m) PROVE TypeOK'
  BY <1>11 DEF TypeOK, LoseReport, cloud
<1> QED
  BY <1>1, <1>2, <1>3, <1>4, <1>5, <1>6, <1>7, <1>8, <1>9, <1>10, <1>11, NextCases

\* Every row, configuration and report keeps its shape whatever the order in
\* which they come, and only published generations expire.
THEOREM TypeCorrect == Spec => []TypeOK
BY TypeInit, TypeNext, PTL DEF Spec

-----------------------------------------------------------------------------
(***************************************************************************)
(* What never goes back                                                    *)
(***************************************************************************)
\* A Runtime holds a published generation and runs none newer than it holds.
GenerationInv ==
  \A d \in Devices : /\ runtime[d].offer.generation <= current
                     /\ runtime[d].running <= runtime[d].offer.generation

LEMMA RuntimeTypes ==
  ASSUME TypeOK, NEW d \in Devices
  PROVE  /\ runtime[d].offer.generation \in 0..MaxGeneration
         /\ runtime[d].running \in 0..MaxGeneration
         /\ runtime[d].prepared \in SUBSET Generations
         /\ runtime[d].result \in ApplyStates \cup {"NONE"}
<1>1. runtime[d] \in Runtime
  BY DEF TypeOK
<1> QED
  BY <1>1 DEF Runtime, Offer

\* Every action but the three of a Runtime leaves the Runtimes alone.
LEMMA RuntimeKinds ==
  ASSUME TypeOK, [Next]_vars
  PROVE  \/ UNCHANGED runtime
         \/ \E d \in Devices : Fetch(d) \/ Apply(d) \/ Reject(d)
BY NextCases DEF vars, Publish, ChangeTopology, GoStale, SendReport, CheckStatus,
                 RecordStatus, LoseReport

LEMMA GenerationStep ==
  ASSUME TypeOK, TypeOK', GenerationInv, [Next]_vars
  PROVE  GenerationInv'
<1>1. current' >= current /\ current \in Nat /\ current' \in Nat
  <2>1. current \in Nat /\ current' \in Nat
    BY DEF TypeOK
  <2>2. current' = current \/ current' = current + 1
    BY NextCases DEF vars, Publish, ChangeTopology, GoStale, Fetch, Apply, SendReport,
                     Reject, CheckStatus, RecordStatus, LoseReport, cloud
  <2> QED
    BY <2>1, <2>2
<1>2. CASE UNCHANGED runtime
  BY <1>1, <1>2, RuntimeTypes DEF GenerationInv
<1>3. ASSUME NEW d \in Devices, Fetch(d) PROVE GenerationInv'
  <2>1. current' = current
    BY <1>3 DEF Fetch, cloud
  <2>2. runtime'[d].offer.generation = current /\ runtime'[d].running = runtime[d].running
        /\ \A e \in Devices : e # d => runtime'[e] = runtime[e]
    BY <1>3, FetchShape
  <2> QED
    BY <1>1, <2>1, <2>2, RuntimeTypes DEF GenerationInv
<1>4. ASSUME NEW d \in Devices, Apply(d) PROVE GenerationInv'
  <2>1. current' = current
    BY <1>4 DEF Apply, cloud
  <2>2. /\ runtime'[d].offer = runtime[d].offer
        /\ runtime'[d].running \in {runtime[d].running, runtime[d].offer.generation}
        /\ \A e \in Devices : e # d => runtime'[e] = runtime[e]
    BY <1>4, ApplyShape
  <2> QED
    BY <1>1, <2>1, <2>2, RuntimeTypes DEF GenerationInv
<1>5. ASSUME NEW d \in Devices, Reject(d) PROVE GenerationInv'
  <2>1. current' = current
    BY <1>5 DEF Reject, cloud
  <2>2. /\ runtime'[d].offer = runtime[d].offer /\ runtime'[d].running = runtime[d].running
        /\ \A e \in Devices : e # d => runtime'[e] = runtime[e]
    BY <1>5, RejectShape
  <2> QED
    BY <2>1, <2>2 DEF GenerationInv
<1> QED
  BY <1>2, <1>3, <1>4, <1>5, RuntimeKinds

\* A Runtime prepares more and runs newer generations, never less or older.
LEMMA RuntimesAdvance ==
  ASSUME TypeOK, GenerationInv, [Next]_vars, NEW d \in Devices
  PROVE  /\ runtime[d].prepared \subseteq runtime'[d].prepared
         /\ runtime[d].running <= runtime'[d].running
<1>1. runtime[d].running \in Nat
  BY RuntimeTypes
<1>2. CASE UNCHANGED runtime
  BY <1>1, <1>2
<1>3. ASSUME NEW e \in Devices, Fetch(e) PROVE runtime'[d].prepared = runtime[d].prepared
                                               /\ runtime'[d].running = runtime[d].running
  BY <1>3, FetchShape
<1>4. ASSUME NEW e \in Devices, Reject(e) PROVE runtime'[d].prepared = runtime[d].prepared
                                                /\ runtime'[d].running = runtime[d].running
  BY <1>4, RejectShape
<1>5. ASSUME NEW e \in Devices, Apply(e)
      PROVE  /\ runtime[d].prepared \subseteq runtime'[d].prepared
             /\ runtime[d].running <= runtime'[d].running
  <2>1. CASE d # e
    BY <1>1, <1>5, <2>1, ApplyShape
  <2>2. CASE d = e
    <3>1. /\ runtime'[d].running \in {runtime[d].running, runtime[d].offer.generation}
          /\ runtime[d].prepared \subseteq runtime'[d].prepared
      BY <1>5, <2>2, ApplyShape
    <3> QED
      BY <1>1, <3>1 DEF GenerationInv
  <2> QED
    BY <2>1, <2>2
<1> QED
  BY <1>1, <1>2, <1>3, <1>4, <1>5, RuntimeKinds

\* Publications are immutable, and neither a commit nor a completion is undone.
LEMMA TablesAdvance ==
  ASSUME TypeOK, [Next]_vars, NEW g \in 1..current
  PROVE  /\ current <= current'
         /\ mode'[g] = mode[g] /\ members'[g] = members[g]
         /\ rollout[g] = "COMPLETE" => rollout'[g] = "COMPLETE"
         /\ rollout[g] \in {"COMMITTING", "COMPLETE"} =>
              rollout'[g] \in {"COMMITTING", "COMPLETE"}
<1>1. g \in Generations /\ current \in Nat /\ g # current + 1 /\ g \in Nat
  BY DEF TypeOK, Generations
<1>2. ASSUME NEW m \in Modes, NEW p \in SUBSET attached, Publish(m, p)
      PROVE  /\ current <= current' /\ mode'[g] = mode[g] /\ members'[g] = members[g]
             /\ rollout'[g] = rollout[g]
  BY <1>1, <1>2 DEF Publish, TypeOK
<1>3. ASSUME NEW m \in reports, RecordStatus(m)
      PROVE  /\ current' = current /\ mode' = mode /\ members' = members
             /\ rollout[g] = "COMPLETE" => rollout'[g] = "COMPLETE"
             /\ rollout[g] \in {"COMMITTING", "COMPLETE"} =>
                  rollout'[g] \in {"COMMITTING", "COMPLETE"}
  <2>1. /\ UNCHANGED <<status, rollout>> \/ Recorded(m) \/ RecordedLate(m)
        /\ UNCHANGED <<current, mode, members>>
    BY <1>3, RecordShape
  <2>2. CASE Recorded(m)
    BY <1>1, <2>1, <2>2 DEF Recorded
  <2> QED
    BY <2>1, <2>2 DEF RecordedLate
<1>4. ASSUME ~(\E m \in Modes : \E p \in SUBSET attached : Publish(m, p)),
             ~(\E m \in reports : RecordStatus(m))
      PROVE  UNCHANGED <<current, mode, members, rollout>>
  BY <1>4, NextCases DEF vars, ChangeTopology, GoStale, Fetch, Apply, SendReport,
                         Reject, CheckStatus, LoseReport, cloud
<1> QED
  BY <1>1, <1>2, <1>3, <1>4

LEMMA CommitStays ==
  ASSUME TypeOK, [Next]_vars, NEW g \in 1..current, ActivationPhase(g) = "COMMIT"
  PROVE  ActivationPhase(g)' = "COMMIT"
<1>1. mode[g] = "POLICY_ONLY" \/ rollout[g] \in {"COMMITTING", "COMPLETE"}
  BY DEF ActivationPhase
<1> QED
  BY <1>1, TablesAdvance DEF ActivationPhase

\* Commit is final: once the phase of a published generation is COMMIT, no report
\* of any member, late or rejecting, makes load_current_runtime_configuration
\* deliver PREPARE for it again.
THEOREM CommitsAreKept == Spec => CommitKept
<1>1. ASSUME TypeOK, [Next]_vars PROVE [CommitKeptStep]_vars
  <2>1. ASSUME NEW g \in Generations, ActivationPhase(g) = "COMMIT", g <= current
        PROVE  ActivationPhase(g)' = "COMMIT"
    <3>1. g \in 1..current
      BY <2>1 DEF Generations, TypeOK
    <3> QED
      BY <1>1, <2>1, <3>1, CommitStays
  <2> QED
    BY <2>1 DEF CommitKeptStep
<1> QED
  BY <1>1, TypeCorrect, PTL DEF Spec, CommitKept

-----------------------------------------------------------------------------
(***************************************************************************)
(* What a receipt is worth                                                 *)
(***************************************************************************)
\* PREPARED and ACTIVE are truthful wherever they are: in the Runtime, in the
\* receipt Cloud recorded, in a report under way.
ResultSound(d) ==
  /\ runtime[d].result = "ACTIVE" => runtime[d].offer.generation <= runtime[d].running
  /\ runtime[d].result = "PREPARED" => runtime[d].offer.generation \in runtime[d].prepared

StatusSound(d) ==
  /\ status[d].state = "ACTIVE" => status[d].generation <= runtime[d].running
  /\ status[d].state = "PREPARED" => status[d].generation \in runtime[d].prepared
  /\ status[d].active <= runtime[d].running

ReportSound(m) ==
  /\ m.state = "ACTIVE" => m.etag.generation <= runtime[m.device].running
  /\ m.state = "PREPARED" => m.etag.generation \in runtime[m.device].prepared

ReceiptInv == /\ \A d \in Devices : ResultSound(d) /\ StatusSound(d)
              /\ \A m \in reports : ReportSound(m)

LEMMA StatusTypes ==
  ASSUME TypeOK, NEW d \in Devices
  PROVE  /\ status[d].generation \in 0..MaxGeneration
         /\ status[d].active \in 0..MaxGeneration
BY DEF TypeOK, Status

LEMMA ReportTypes ==
  ASSUME TypeOK, NEW m \in reports
  PROVE  m.device \in Devices /\ m.etag.generation \in 0..MaxGeneration
         /\ m.state \in ApplyStates
BY DEF TypeOK, Report, Offer

LEMMA ResultStep ==
  ASSUME TypeOK, TypeOK', GenerationInv, ReceiptInv, [Next]_vars, NEW d \in Devices
  PROVE  ResultSound(d)'
<1>1. ResultSound(d)
  BY DEF ReceiptInv
<1>2. CASE UNCHANGED runtime
  BY <1>1, <1>2 DEF ResultSound
<1>3. ASSUME NEW e \in Devices, Fetch(e) PROVE ResultSound(d)'
  <2>1. CASE d # e
    BY <1>1, <1>3, <2>1, FetchShape DEF ResultSound
  <2>2. CASE d = e
    BY <1>1, <1>3, <2>2, FetchShape DEF ResultSound
  <2> QED
    BY <2>1, <2>2
<1>4. ASSUME NEW e \in Devices, Apply(e) PROVE ResultSound(d)'
  <2>1. CASE d # e
    BY <1>1, <1>4, <2>1, ApplyShape DEF ResultSound
  <2>2. CASE d = e
    <3>1. runtime[d].offer.generation \in Nat
      BY RuntimeTypes
    <3>2. \/ /\ runtime'[d].result = "PREPARED"
             /\ runtime'[d].offer.generation \in runtime'[d].prepared
          \/ /\ runtime'[d].result = "ACTIVE"
             /\ runtime'[d].offer.generation = runtime'[d].running
      BY <1>4, <2>2, ApplyShape
    <3>3. runtime'[d].offer = runtime[d].offer
      BY <1>4, <2>2, ApplyShape
    <3> QED
      BY <3>1, <3>2, <3>3 DEF ResultSound
  <2> QED
    BY <2>1, <2>2
<1>5. ASSUME NEW e \in Devices, Reject(e) PROVE ResultSound(d)'
  <2>1. CASE d # e
    BY <1>1, <1>5, <2>1, RejectShape DEF ResultSound
  <2>2. CASE d = e
    BY <1>5, <2>2, RejectShape DEF ResultSound
  <2> QED
    BY <2>1, <2>2
<1> QED
  BY <1>2, <1>3, <1>4, <1>5, RuntimeKinds

LEMMA StatusKinds ==
  ASSUME TypeOK, [Next]_vars
  PROVE  \/ UNCHANGED <<status, rollout>>
         \/ \E m \in Modes : \E p \in SUBSET attached : Publish(m, p)
         \/ \E m \in reports : Recorded(m) /\ RecordStatus(m)
         \/ \E m \in reports : RecordedLate(m) /\ RecordStatus(m)
<1>1. ASSUME NEW m \in reports, RecordStatus(m)
      PROVE  UNCHANGED <<status, rollout>> \/ Recorded(m) \/ RecordedLate(m)
  BY <1>1, RecordShape
<1> QED
  BY <1>1, NextCases DEF vars, ChangeTopology, GoStale, Fetch, Apply, SendReport,
                         Reject, CheckStatus, LoseReport, cloud

LEMMA StatusStep ==
  ASSUME TypeOK, TypeOK', GenerationInv, ReceiptInv, [Next]_vars, NEW d \in Devices
  PROVE  StatusSound(d)'
<1>1. StatusSound(d)
  BY DEF ReceiptInv
<1>2. /\ runtime[d].prepared \subseteq runtime'[d].prepared
      /\ runtime[d].running <= runtime'[d].running
      /\ runtime[d].running \in Nat /\ runtime'[d].running \in Nat
  <2>1. runtime'[d].running \in 0..MaxGeneration
    BY DEF TypeOK, Runtime
  <2> QED
    BY <2>1, RuntimesAdvance, RuntimeTypes
<1>3. status[d].generation \in Nat /\ status[d].active \in Nat
  BY StatusTypes
<1>4. CASE status'[d] = status[d]
  BY <1>1, <1>2, <1>3, <1>4 DEF StatusSound
<1>5. ASSUME NEW m \in reports, Recorded(m), m.device = d PROVE StatusSound(d)'
  <2>1. ReportSound(m)
    BY DEF ReceiptInv
  <2>2. m.etag.generation = current /\ current \in Nat
    BY <1>5 DEF Recorded, TypeOK
  <2>3. /\ m.state = "ACTIVE" => current <= runtime'[d].running
        /\ m.state = "PREPARED" => current \in runtime'[d].prepared
    BY <1>2, <1>5, <2>1, <2>2 DEF ReportSound
  <2>4. /\ status'[d].generation = current /\ status'[d].state = m.state
        /\ \/ m.state = "ACTIVE" /\ status'[d].active = current
           \/ status'[d].active = status[d].active
    BY <1>5 DEF Recorded
  <2> QED
    BY <1>1, <1>2, <1>3, <2>3, <2>4 DEF StatusSound
<1>6. ASSUME NEW m \in reports, RecordedLate(m), m.device = d PROVE StatusSound(d)'
  <2>1. ReportSound(m) /\ m.etag.generation \in Nat
    BY ReportTypes DEF ReceiptInv
  <2>2. m.etag.generation <= runtime'[d].running
    BY <1>2, <1>6, <2>1 DEF ReportSound, RecordedLate
  <2> QED
    BY <1>1, <1>2, <1>3, <1>6, <2>2 DEF StatusSound, RecordedLate
<1>7. \/ status'[d] = status[d]
      \/ \E m \in reports : (Recorded(m) \/ RecordedLate(m)) /\ m.device = d
  <2>1. ASSUME NEW m \in Modes, NEW p \in SUBSET attached, Publish(m, p)
        PROVE  status' = status
    BY <2>1 DEF Publish
  <2> QED
    BY <2>1, StatusKinds DEF Recorded, RecordedLate
<1> QED
  BY <1>4, <1>5, <1>6, <1>7

LEMMA ReportStep ==
  ASSUME TypeOK, TypeOK', GenerationInv, ReceiptInv, [Next]_vars, NEW m \in reports'
  PROVE  ReportSound(m)'
<1>1. ASSUME NEW n \in reports, n.device = m.device, n.etag = m.etag, n.state = m.state
      PROVE  ReportSound(m)'
  <2>1. ReportSound(n) /\ n.device \in Devices /\ n.etag.generation \in Nat
    BY ReportTypes DEF ReceiptInv
  <2>2. /\ runtime[n.device].prepared \subseteq runtime'[n.device].prepared
        /\ runtime[n.device].running <= runtime'[n.device].running
        /\ runtime[n.device].running \in Nat
    BY <2>1, RuntimesAdvance, RuntimeTypes
  <2>3. runtime'[n.device].running \in 0..MaxGeneration
    BY <2>1 DEF TypeOK, Runtime
  <2> QED
    BY <1>1, <2>1, <2>2, <2>3 DEF ReportSound
<1>2. ASSUME NEW d \in Devices, SendReport(d) PROVE ReportSound(m)'
  <2>1. CASE m \in reports
    BY <1>1, <2>1
  <2>2. CASE m \notin reports
    <3>1. /\ m.device = d /\ m.etag = runtime[d].offer /\ m.state = runtime[d].result
          /\ runtime' = runtime
      BY <1>2, <2>2 DEF SendReport
    <3>2. ResultSound(d)
      BY DEF ReceiptInv
    <3> QED
      BY <3>1, <3>2 DEF ResultSound, ReportSound
  <2> QED
    BY <2>1, <2>2
<1>3. ASSUME NEW n \in reports, CheckStatus(n) PROVE ReportSound(m)'
  <2>1. CASE m \in reports
    BY <1>1, <2>1
  <2>2. CASE m \notin reports
    <3>1. m = [n EXCEPT !.checked = TRUE]
      BY <1>3, <2>2 DEF CheckStatus
    <3>2. n \in Report
      BY DEF TypeOK
    <3>3. n.device = m.device /\ n.etag = m.etag /\ n.state = m.state
      BY <3>1, <3>2 DEF Report
    <3> QED
      BY <1>1, <3>3
  <2> QED
    BY <2>1, <2>2
<1>4. \/ reports' \subseteq reports
      \/ \E d \in Devices : SendReport(d)
      \/ \E n \in reports : CheckStatus(n)
  BY NextCases DEF vars, Publish, ChangeTopology, GoStale, Fetch, Apply,
                   Reject, RecordStatus, LoseReport, cloud
<1> QED
  BY <1>1, <1>2, <1>3, <1>4

LEMMA ReceiptStep ==
  ASSUME TypeOK, TypeOK', GenerationInv, ReceiptInv, [Next]_vars
  PROVE  ReceiptInv'
<1>1. \A d \in Devices : ResultSound(d)' /\ StatusSound(d)'
  BY ResultStep, StatusStep
<1>2. \A m \in reports' : ReportSound(m)'
  BY ReportStep
<1> QED
  BY <1>1, <1>2 DEF ReceiptInv

BaseInv == TypeOK /\ GenerationInv /\ ReceiptInv

LEMMA BaseCorrect == Spec => []BaseInv
<1>1. Init => BaseInv
  <2> SUFFICES ASSUME Init PROVE BaseInv
    OBVIOUS
  <2>1. TypeOK
    BY TypeInit
  <2>2. GenerationInv /\ ReceiptInv
    BY DEF Init, GenerationInv, ReceiptInv, ResultSound, StatusSound, ReportSound, NoOffer
  <2> QED
    BY <2>1, <2>2 DEF BaseInv
<1>2. BaseInv /\ [Next]_vars => BaseInv'
  BY TypeNext, GenerationStep, ReceiptStep DEF BaseInv
<1> QED
  BY <1>1, <1>2, PTL DEF Spec

\* Cloud never believes that a device runs what it has not activated, however
\* late its ACTIVE receipt is recorded and whatever was published meanwhile.
THEOREM ActiveIsTruthful == Spec => []ActiveTruthful
<1>1. BaseInv => ActiveTruthful
  BY DEF BaseInv, ReceiptInv, StatusSound, ActiveTruthful
<1> QED
  BY <1>1, BaseCorrect, PTL

\* The believed running version never goes back, although record_status checks
\* a receipt in one transaction and records it in a later one.
THEOREM ActiveIsMonotone == Spec => ActiveMonotone
<1>1. ASSUME BaseInv, [Next]_vars PROVE [ActiveMonotoneStep]_vars
  <2>1. ASSUME NEW d \in Devices PROVE status'[d].active >= status[d].active
    <3>1. status[d].active \in Nat /\ runtime[d].running \in Nat
          /\ runtime[d].offer.generation \in Nat /\ current \in Nat
      BY <1>1, StatusTypes, RuntimeTypes DEF BaseInv, TypeOK
    <3>2. status[d].active <= current
      BY <1>1, <3>1 DEF BaseInv, GenerationInv, ReceiptInv, StatusSound
    <3>3. CASE status'[d] = status[d]
      BY <3>1, <3>3
    <3>4. ASSUME NEW m \in reports, Recorded(m), m.device = d
          PROVE  status'[d].active >= status[d].active
      BY <3>1, <3>2, <3>4 DEF Recorded
    <3>5. ASSUME NEW m \in reports, RecordedLate(m), m.device = d
          PROVE  status'[d].active >= status[d].active
      BY <1>1, <3>1, <3>5, ReportTypes DEF RecordedLate, BaseInv
    <3>6. ASSUME NEW m \in Modes, NEW p \in SUBSET attached, Publish(m, p)
          PROVE  status' = status
      BY <3>6 DEF Publish
    <3> QED
      BY <1>1, <3>3, <3>4, <3>5, <3>6, StatusKinds DEF BaseInv, Recorded, RecordedLate
  <2> QED
    BY <2>1 DEF ActiveMonotoneStep
<1> QED
  BY <1>1, BaseCorrect, PTL DEF Spec, ActiveMonotone

-----------------------------------------------------------------------------
(***************************************************************************)
(* The prepare barrier                                                     *)
(***************************************************************************)
\* What a Runtime holds for commit, and what it runs, is delivered for commit.
PhaseInv ==
  \A d \in Devices :
    /\ runtime[d].offer.generation > 0 /\ runtime[d].offer.phase = "COMMIT" =>
         ActivationPhase(runtime[d].offer.generation) = "COMMIT"
    /\ runtime[d].running > 0 =>
         ActivationPhase(runtime[d].running) = "COMMIT"

LEMMA PhaseStep ==
  ASSUME BaseInv, BaseInv', PhaseInv, [Next]_vars
  PROVE  PhaseInv'
<1> USE DEF BaseInv
<1>1. ASSUME NEW g \in 0..MaxGeneration, g > 0, g <= current, ActivationPhase(g) = "COMMIT"
      PROVE  ActivationPhase(g)' = "COMMIT"
  <2>1. g \in 1..current
    BY <1>1 DEF TypeOK
  <2> QED
    BY <1>1, <2>1, CommitStays
<1>2. ASSUME NEW d \in Devices, NEW h \in 0..MaxGeneration, h > 0,
             \/ h = runtime[d].offer.generation /\ runtime[d].offer.phase = "COMMIT"
             \/ h = runtime[d].running
      PROVE  ActivationPhase(h)' = "COMMIT"
  <2>1. ActivationPhase(h) = "COMMIT"
    BY <1>2 DEF PhaseInv
  <2>2. h <= current
    BY <1>2, RuntimeTypes DEF GenerationInv, TypeOK
  <2> QED
    BY <1>1, <1>2, <2>1, <2>2
<1>3. SUFFICES ASSUME NEW d \in Devices, NEW h \in 0..MaxGeneration, h > 0,
                      \/ h = runtime'[d].offer.generation /\ runtime'[d].offer.phase = "COMMIT"
                      \/ h = runtime'[d].running
               PROVE  ActivationPhase(h)' = "COMMIT"
  <2>1. \A d \in Devices : /\ runtime'[d].offer.generation \in 0..MaxGeneration
                           /\ runtime'[d].running \in 0..MaxGeneration
    BY DEF TypeOK, Runtime, Offer
  <2> QED
    BY <2>1 DEF PhaseInv
<1>4. CASE runtime'[d] = runtime[d]
  BY <1>2, <1>3, <1>4
<1>5. CASE Fetch(d)
  <2>1. CASE h = runtime'[d].running
    BY <1>2, <1>3, <1>5, <2>1, FetchShape
  <2>2. CASE h # runtime'[d].running
    <3>1. h = current /\ ActivationPhase(current) = "COMMIT" /\ current' = current
      BY <1>3, <1>5, <2>2, FetchShape DEF Fetch, cloud
    <3>2. UNCHANGED <<mode, rollout>>
      BY <1>5 DEF Fetch, cloud
    <3> QED
      BY <3>1, <3>2 DEF ActivationPhase
  <2> QED
    BY <2>1, <2>2
<1>6. CASE Apply(d)
  BY <1>2, <1>3, <1>6, ApplyShape
<1>7. CASE Reject(d)
  BY <1>2, <1>3, <1>7, RejectShape
<1>8. \/ runtime'[d] = runtime[d]
      \/ Fetch(d) \/ Apply(d) \/ Reject(d)
  <2>1. ASSUME NEW e \in Devices, e # d, Fetch(e) \/ Apply(e) \/ Reject(e)
        PROVE  runtime'[d] = runtime[d]
    BY <2>1, FetchShape, ApplyShape, RejectShape
  <2> QED
    BY <2>1, RuntimeKinds
<1> QED
  BY <1>4, <1>5, <1>6, <1>7, <1>8

\* A committed transport publication is prepared by all its members; a complete
\* publication is run by all of them.
PreparedInv ==
  \A g \in Generations :
    mode[g] = "TUNNEL" /\ rollout[g] \in {"COMMITTING", "COMPLETE"} =>
      \A e \in members[g] : g \in runtime[e].prepared

LEMMA RolloutStep ==
  ASSUME BaseInv, BaseInv', PhaseInv, PreparedInv, CompleteTruthful, [Next]_vars
  PROVE  PreparedInv' /\ CompleteTruthful'
<1> USE DEF BaseInv
<1>1. ASSUME NEW g \in Generations, mode'[g] = mode[g], members'[g] = members[g],
             rollout'[g] = rollout[g]
      PROVE  /\ mode'[g] = "TUNNEL" /\ rollout'[g] \in {"COMMITTING", "COMPLETE"} =>
                  \A e \in members'[g] : g \in runtime'[e].prepared
             /\ rollout'[g] = "COMPLETE" => \A e \in members'[g] : runtime'[e].running >= g
  <2>1. members[g] \subseteq Devices
    BY DEF TypeOK
  <2>2. ASSUME NEW e \in members[g]
        PROVE  /\ runtime[e].prepared \subseteq runtime'[e].prepared
               /\ runtime[e].running <= runtime'[e].running
               /\ runtime[e].running \in Nat /\ runtime'[e].running \in Nat
    <3>1. e \in Devices
      BY <2>1
    <3>2. runtime'[e].running \in 0..MaxGeneration
      BY <3>1 DEF TypeOK, Runtime
    <3> QED
      BY <3>1, <3>2, RuntimesAdvance, RuntimeTypes
  <2>3. ASSUME rollout[g] = "COMPLETE", NEW e \in members[g] PROVE runtime'[e].running >= g
    <3>1. runtime[e].running >= g /\ g \in Nat
      BY <2>3 DEF CompleteTruthful, Generations
    <3> QED
      BY <2>2, <3>1
  <2> QED
    BY <1>1, <2>2, <2>3 DEF PreparedInv
<1>2. ASSUME NEW m \in Modes, NEW p \in SUBSET attached, Publish(m, p)
      PROVE  PreparedInv' /\ CompleteTruthful'
  <2>1. current + 1 \in Generations
    BY <1>2 DEF Publish, TypeOK, Generations
  <2>2. /\ mode'[current + 1] = m
        /\ rollout'[current + 1] # "COMPLETE"
        /\ m = "TUNNEL" => rollout'[current + 1] = "PREPARING"
        /\ \A g \in Generations : g # current + 1 =>
             mode'[g] = mode[g] /\ members'[g] = members[g] /\ rollout'[g] = rollout[g]
    BY <1>2, <2>1 DEF Publish, TypeOK
  <2> QED
    BY <1>1, <2>2 DEF PreparedInv, CompleteTruthful
<1>3. ASSUME NEW m \in reports, Recorded(m), RecordStatus(m)
      PROVE  PreparedInv' /\ CompleteTruthful'
  <2>1. UNCHANGED <<current, mode, members, runtime>>
    BY <1>3 DEF RecordStatus
  <2>2. \A g \in Generations : g # current => rollout'[g] = rollout[g]
    BY <1>3 DEF Recorded
  <2>3. current \in Generations /\ members[current] \subseteq Devices
    BY <1>3 DEF Recorded, TypeOK
  <2>4. CASE /\ rollout'[current] = "COMMITTING"
             /\ AllReport(status', "PREPARED")
    <3>1. ASSUME NEW e \in members[current] PROVE current \in runtime'[e].prepared
      <4>1. e \in Devices /\ status'[e].generation = current /\ status'[e].state = "PREPARED"
        BY <2>3, <2>4 DEF AllReport
      <4> QED
        BY <4>1 DEF ReceiptInv, StatusSound
    <3> QED
      BY <1>1, <2>1, <2>2, <2>3, <2>4, <3>1 DEF PreparedInv, CompleteTruthful
  <2>5. CASE /\ rollout'[current] = "COMPLETE"
             /\ m.state = "ACTIVE" /\ rollout[current] \in {"COMMITTING", "BLOCKED"}
             /\ AllReport(status', "ACTIVE")
    <3>1. ASSUME NEW e \in members[current] PROVE runtime'[e].running >= current
      <4>1. e \in Devices /\ status'[e].generation = current /\ status'[e].state = "ACTIVE"
        BY <2>3, <2>5 DEF AllReport
      <4>2. status'[e].generation <= runtime'[e].running
        BY <4>1 DEF ReceiptInv, StatusSound
      <4>3. runtime'[e].running \in 0..MaxGeneration
        BY <4>1 DEF TypeOK, Runtime
      <4> QED
        BY <4>1, <4>2, <4>3, <2>3 DEF Generations
    <3>2. ActivationPhase(current) = "COMMIT"
      <4>1. m.device \in Devices /\ m.etag.generation = current /\ current > 0
        BY <1>3, <2>3, ReportTypes DEF Recorded, Generations
      <4>2. current <= runtime[m.device].running
        BY <2>5, <4>1 DEF ReceiptInv, ReportSound
      <4>3. /\ runtime[m.device].running \in Nat /\ current \in Nat
            /\ runtime[m.device].offer.generation \in Nat
        BY <4>1, RuntimeTypes DEF TypeOK
      <4>4. runtime[m.device].running = current
        BY <4>1, <4>2, <4>3 DEF GenerationInv
      <4> QED
        BY <4>1, <4>4 DEF PhaseInv
    <3>3. mode[current] = "TUNNEL" => rollout[current] = "COMMITTING"
      BY <2>5, <3>2 DEF ActivationPhase
    <3> QED
      BY <1>1, <2>1, <2>2, <2>3, <2>5, <3>1, <3>3 DEF PreparedInv, CompleteTruthful
  <2>6. CASE rollout'[current] = "BLOCKED"
    BY <1>1, <2>1, <2>2, <2>3, <2>6 DEF PreparedInv, CompleteTruthful
  <2>7. CASE rollout'[current] = rollout[current]
    BY <1>1, <2>1, <2>2, <2>7 DEF PreparedInv, CompleteTruthful
  <2> QED
    BY <1>3, <2>4, <2>5, <2>6, <2>7 DEF Recorded
<1>4. CASE UNCHANGED <<mode, members, rollout>>
  BY <1>1, <1>4 DEF PreparedInv, CompleteTruthful
<1>5. ASSUME ~(\E m \in Modes : \E p \in SUBSET attached : Publish(m, p))
      PROVE  UNCHANGED <<mode, members>>
  BY <1>5, NextCases DEF vars, ChangeTopology, GoStale, Fetch, Apply, SendReport,
                         Reject, CheckStatus, RecordStatus, LoseReport, cloud
<1>6. ASSUME NEW m \in reports, RecordedLate(m) PROVE UNCHANGED rollout
  BY <1>6 DEF RecordedLate
<1> QED
  BY <1>2, <1>3, <1>4, <1>5, <1>6, StatusKinds

\* A policy publication stands on a transport publication that is complete.
SettledInv ==
  \A g \in 1..current : mode[g] = "POLICY_ONLY" =>
    \E t \in 1..g : LastTunnel(t, g) /\ rollout[t] = "COMPLETE"

LEMMA SettledStep ==
  ASSUME TypeOK, TypeOK', SettledInv, [Next]_vars
  PROVE  SettledInv'
<1>1. ASSUME NEW g \in 1..current, NEW t \in 1..g, LastTunnel(t, g), rollout[t] = "COMPLETE"
      PROVE  LastTunnel(t, g)' /\ rollout'[t] = "COMPLETE"
  <2>1. \A c \in 1..current : mode'[c] = mode[c]
    BY TablesAdvance
  <2>2. t \in 1..current /\ \A c \in (t + 1)..g : c \in 1..current
    BY DEF TypeOK
  <2>3. rollout'[t] = "COMPLETE"
    BY <1>1, <2>2, TablesAdvance
  <2> QED
    BY <1>1, <2>1, <2>2, <2>3 DEF LastTunnel
<1>2. ASSUME NEW g \in 1..current, mode'[g] = "POLICY_ONLY"
      PROVE  \E t \in 1..g : LastTunnel(t, g)' /\ rollout'[t] = "COMPLETE"
  <2>1. mode[g] = "POLICY_ONLY"
    BY <1>2, TablesAdvance
  <2>2. PICK t \in 1..g : LastTunnel(t, g) /\ rollout[t] = "COMPLETE"
    BY <2>1 DEF SettledInv
  <2> QED
    BY <1>1, <2>2
<1>3. CASE current' = current
  BY <1>2, <1>3 DEF SettledInv
<1>4. ASSUME NEW m \in Modes, NEW p \in SUBSET attached, Publish(m, p) PROVE SettledInv'
  <2>1. current' = current + 1 /\ current \in Nat /\ current + 1 \in Generations
    BY <1>4 DEF Publish, TypeOK, Generations
  <2>2. mode'[current + 1] = m
    BY <1>4, <2>1 DEF Publish, TypeOK
  <2>3. ASSUME NEW n \in Nat, n = current + 1, mode'[n] = "POLICY_ONLY"
        PROVE  \E t \in 1..n : LastTunnel(t, n)' /\ rollout'[t] = "COMPLETE"
    <3>1. PICK t \in 1..current : LastTunnel(t, current) /\ rollout[t] = "COMPLETE"
      BY <1>4, <2>2, <2>3 DEF Publish, PolicyPublishable, TransportSettled
    <3>2. rollout'[t] = "COMPLETE" /\ mode'[t] = "TUNNEL"
      BY <3>1, TablesAdvance DEF LastTunnel
    <3>3. ASSUME NEW c \in (t + 1)..n PROVE mode'[c] = "POLICY_ONLY"
      <4>1. CASE c = n
        BY <2>3, <4>1
      <4>2. CASE c # n
        <5>1. c \in (t + 1)..current /\ c \in 1..current
          BY <2>1, <2>3, <4>2
        <5> QED
          BY <3>1, <5>1, TablesAdvance DEF LastTunnel
      <4> QED
        BY <4>1, <4>2
    <3>4. t \in 1..n
      BY <2>1, <2>3
    <3>5. LastTunnel(t, n)'
      BY <3>2, <3>3 DEF LastTunnel
    <3> QED
      BY <3>2, <3>4, <3>5
  <2>4. ASSUME NEW g \in 1..current', mode'[g] = "POLICY_ONLY"
        PROVE  \E t \in 1..g : LastTunnel(t, g)' /\ rollout'[t] = "COMPLETE"
    <3>1. g \in Nat /\ (g \in 1..current \/ g = current + 1)
      BY <2>1
    <3> QED
      BY <1>2, <2>3, <2>4, <3>1
  <2> QED
    BY <2>4 DEF SettledInv
<1> QED
  BY <1>3, <1>4, NextCases DEF vars, ChangeTopology, GoStale, Fetch, Apply, SendReport,
                               Reject, CheckStatus, RecordStatus, LoseReport, cloud

BarrierInv == PhaseInv /\ PreparedInv /\ CompleteTruthful /\ SettledInv

LEMMA BarrierCorrect == Spec => [](BaseInv /\ BarrierInv)
<1>1. Init => BarrierInv
  <2> SUFFICES ASSUME Init PROVE BarrierInv
    OBVIOUS
  <2>1. PhaseInv
    BY DEF Init, PhaseInv, NoOffer
  <2>2. PreparedInv /\ CompleteTruthful
    BY DEF Init, PreparedInv, CompleteTruthful
  <2>3. SettledInv
    BY DEF Init, SettledInv
  <2> QED
    BY <2>1, <2>2, <2>3 DEF BarrierInv
<1>2. BaseInv /\ BaseInv' /\ BarrierInv /\ [Next]_vars => BarrierInv'
  BY PhaseStep, RolloutStep, SettledStep DEF BarrierInv, BaseInv
<1> QED
  BY <1>1, <1>2, BaseCorrect, PTL DEF Spec

\* COMPLETE is truthful: every member of a complete publication has activated it,
\* whichever of their receipts were refused, lost or repeated on the way.
THEOREM CompleteIsTruthful == Spec => []CompleteTruthful
BY BarrierCorrect, PTL DEF BarrierInv

\* The two-phase barrier: what a Runtime runs stands on a transport publication
\* that every one of its members had prepared, whatever the order of reports,
\* publications and topology changes.
THEOREM TheBarrierHolds == Spec => []BarrierHolds
<1>1. ASSUME BaseInv, BarrierInv PROVE BarrierHolds
  <2> USE DEF BaseInv, BarrierInv
  <2>1. ASSUME NEW g \in Generations, NEW t \in 1..g, mode[t] = "TUNNEL",
               rollout[t] \in {"COMMITTING", "COMPLETE"}
        PROVE  \A e \in members[t] : t \in runtime[e].prepared
    <3>1. t \in Generations
      BY DEF Generations
    <3> QED
      BY <1>1, <2>1, <3>1 DEF PreparedInv
  <2>2. ASSUME NEW g \in Generations, g <= current, ActivationPhase(g) = "COMMIT"
        PROVE  \E t \in 1..g : /\ LastTunnel(t, g)
                               /\ \A e \in members[t] : t \in runtime[e].prepared
    <3>1. CASE mode[g] = "TUNNEL"
      <4>1. g \in 1..g /\ LastTunnel(g, g)
        BY <3>1 DEF Generations, LastTunnel
      <4>2. rollout[g] \in {"COMMITTING", "COMPLETE"}
        BY <2>2, <3>1 DEF ActivationPhase
      <4> QED
        BY <2>1, <3>1, <4>1, <4>2
    <3>2. CASE mode[g] = "POLICY_ONLY"
      <4>1. g \in 1..current
        BY <1>1, <2>2 DEF Generations, TypeOK
      <4>2. PICK t \in 1..g : LastTunnel(t, g) /\ rollout[t] = "COMPLETE"
        BY <1>1, <3>2, <4>1 DEF SettledInv
      <4> QED
        BY <2>1, <4>2 DEF LastTunnel
    <3> QED
      BY <1>1, <3>1, <3>2 DEF TypeOK, Modes
  <2>3. ASSUME NEW d \in Devices, NEW g \in Nat, g = runtime[d].running, g > 0
        PROVE  g \in Generations /\ g <= current /\ ActivationPhase(g) = "COMMIT"
    <3>1. /\ g \in 0..MaxGeneration /\ current \in Nat
          /\ runtime[d].offer.generation \in Nat
      BY <1>1, <2>3, RuntimeTypes DEF TypeOK
    <3>2. g <= current
      BY <1>1, <2>3, <3>1 DEF GenerationInv
    <3> QED
      BY <1>1, <2>3, <3>1, <3>2 DEF PhaseInv, Generations
  <2>4. \A d \in Devices : runtime[d].running \in Nat
    BY <1>1, RuntimeTypes
  <2> QED
    BY <2>2, <2>3, <2>4 DEF BarrierHolds
<1> QED
  BY <1>1, BarrierCorrect, PTL

-----------------------------------------------------------------------------
(***************************************************************************)
(* The compatibility window                                                *)
(***************************************************************************)
\* What load_for_policy lets a Grant name, the configuration delivered to every
\* transport node admits: the queries draw the window at the same place.  A Grant
\* without route_policy is included where a blocked rollout falls back on the
\* generation before it, for a device that is not still behind that one.
THEOREM GrantsAreAdmitted == Spec => []GrantsAdmitted
<1>1. ASSUME TypeOK PROVE GrantsAdmitted
  <2> SUFFICES ASSUME NEW e \in Devices, NEW p \in 1..(current - 1),
                      \/ GrantedRequested(e, p)
                      \/ /\ GrantedDefault(e, p) /\ e \in members[current]
                         /\ status[e].active \in {0, p, current},
                      NEW d \in TransportNodes \ {e}, Deliverable(d)
               PROVE  <<e, p>> \in CurrentConfiguration(d).compat
    BY DEF GrantsAdmitted
  <2>1. current \in Nat /\ p \in Nat /\ p # current /\ p > 0 /\ p < current
    BY <1>1 DEF TypeOK
  <2> DEFINE Goal == /\ e \in members[p] /\ stale < p /\ Deliverable(e)
                     /\ \/ p = current - 1
                        \/ PolicyIsolation /\ p + Window >= current /\ OnlyPolicySince(p)
                     /\ Retained(e) = p
  <2>a. ASSUME GrantedRequested(e, p) PROVE Goal
    <3>1. /\ p = status[e].active /\ e \in members[p] /\ stale < p /\ Deliverable(e)
          /\ p = current - 1 \/ (PolicyIsolation /\ p + Window >= current /\ OnlyPolicySince(p))
      BY <2>1, <2>a DEF GrantedRequested
    <3> QED
      BY <2>1, <3>1 DEF Retained
  <2>b. ASSUME GrantedDefault(e, p), e \in members[current],
               status[e].active \in {0, p, current}
        PROVE  Goal
    <3>1. p = current - 1 /\ e \in members[p] /\ stale < p /\ Deliverable(e)
      BY <2>1, <2>b DEF GrantedDefault, Deliverable
    <3> QED
      BY <2>1, <2>b, <3>1 DEF Retained
  <2>2. Goal
    BY <2>a, <2>b
  <2>4. PolicyIsolation => p + Window >= current
    BY <2>1, <2>2, WindowAssumption
  <2>5. Compatible(e, p)
    BY <2>2, <2>4 DEF Compatible
  <2>6. e \in (attached \cap members[current]) \ {d} /\ d \in TransportNodes
    BY <2>2 DEF Deliverable
  <2>7. <<e, p>> \in Compatibility(d)
    BY <2>2, <2>5, <2>6 DEF Compatibility
  <2> QED
    BY <2>7 DEF CurrentConfiguration
<1> QED
  BY <1>1, TypeCorrect, PTL

\* A member of the current publication that policy publications alone carried out
\* of the window was announced when they did, attached since or not.
ResyncInv ==
  \A d \in Devices : \A a \in 1..current :
    ( /\ PolicyIsolation /\ current > 0 /\ d \in members[current]
      /\ a = status[d].active /\ a + Window < current /\ OnlyPolicySince(a) )
    => <<d, a>> \in announced

LEMMA ResyncStep ==
  ASSUME TypeOK, TypeOK', ResyncInv, [Next]_vars
  PROVE  ResyncInv'
<1> SUFFICES ASSUME NEW d \in Devices, NEW a \in 1..current', PolicyIsolation, current' > 0,
                    d \in members'[current'], a = status'[d].active, a + Window < current',
                    OnlyPolicySince(a)'
             PROVE  <<d, a>> \in announced'
  BY DEF ResyncInv
<1>1. ASSUME NEW m \in Modes, NEW p \in SUBSET attached, Publish(m, p)
      PROVE  <<d, a>> \in announced'
  <2>1. /\ current' = current + 1 /\ current \in Nat /\ current + 1 \in Generations
        /\ status' = status
    BY <1>1 DEF Publish, TypeOK, Generations
  <2>2. members'[current + 1] = p /\ mode'[current + 1] = m
    BY <1>1, <2>1 DEF Publish, TypeOK
  <2>3. m = "POLICY_ONLY"
    <3>1. current' \in (a + 1)..current'
      BY <2>1
    <3> QED
      BY <2>1, <2>2, <3>1 DEF OnlyPolicySince
  <2>4. d \in Lagging
    BY <2>1, <2>2 DEF Lagging
  <2> QED
    BY <1>1, <2>1, <2>3, <2>4 DEF Publish
<1>2. ASSUME UNCHANGED <<current, mode, members, announced>>, status'[d].active = status[d].active
      PROVE  <<d, a>> \in announced'
  BY <1>2 DEF ResyncInv, OnlyPolicySince
<1>3. ASSUME NEW m \in reports, Recorded(m) \/ RecordedLate(m), m.device = d, RecordStatus(m)
      PROVE  status'[d].active = status[d].active
  <2>1. current' = current /\ current \in Nat
    BY <1>3 DEF RecordStatus, TypeOK
  <2>2. CASE Recorded(m)
    BY <1>3, <2>1, <2>2 DEF Recorded
  <2>3. CASE RecordedLate(m)
    BY <1>3, <2>1, <2>3, ReportTypes DEF RecordedLate
  <2> QED
    BY <1>3, <2>2, <2>3
<1>4. ASSUME ~(\E m \in Modes : \E p \in SUBSET attached : Publish(m, p))
      PROVE  UNCHANGED <<current, mode, members, announced>>
  BY <1>4, NextCases DEF vars, ChangeTopology, GoStale, Fetch, Apply, SendReport,
                         Reject, CheckStatus, RecordStatus, LoseReport, cloud
<1>5. ASSUME ~(\E m \in Modes : \E p \in SUBSET attached : Publish(m, p))
      PROVE  status'[d].active = status[d].active
  BY <1>3, <1>5, StatusKinds DEF Recorded, RecordedLate
<1> QED
  BY <1>1, <1>2, <1>4, <1>5

\* No device is cut off silently: when policy publications alone take its running
\* version out of the window, publish has written the resync event, also for a
\* device that was detached and attached again.
THEOREM ResyncIsAnnounced == Spec => []ResyncAnnounced
<1>1. Init => ResyncInv
  BY DEF Init, ResyncInv
<1>2. TypeOK /\ TypeOK' /\ ResyncInv /\ [Next]_vars => ResyncInv'
  BY ResyncStep
<1>3. ASSUME BaseInv, ResyncInv PROVE ResyncAnnounced
  <2> SUFFICES ASSUME NEW d \in Devices, NEW a \in Nat, a = status[d].active, PolicyIsolation,
                      Deliverable(d), a > 0, d \in members[a], stale < a, OnlyPolicySince(a),
                      ~GrantedRequested(d, a)
               PROVE  <<d, a>> \in announced
    BY <1>3, StatusTypes DEF ResyncAnnounced, BaseInv
  <2>1. current \in Nat /\ stale \in Nat
    BY <1>3 DEF BaseInv, TypeOK
  <2>2. a <= current
    BY <1>3, <2>1, RuntimeTypes DEF BaseInv, GenerationInv, ReceiptInv, StatusSound
  <2>3. a \in 1..current
    BY <2>1, <2>2
  <2>4. a + Window < current
    BY <2>1, <2>3 DEF GrantedRequested
  <2> QED
    BY <1>3, <2>1, <2>3, <2>4 DEF ResyncInv, Deliverable
<1> QED
  BY <1>1, <1>2, <1>3, BaseCorrect, TypeCorrect, PTL DEF Spec

=============================================================================

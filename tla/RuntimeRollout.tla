--------------------------- MODULE RuntimeRollout ---------------------------
(***************************************************************************)
(* The two-phase activation of the published generations of one Segment on *)
(* the Runtimes attached to it:                                            *)
(*                                                                         *)
(*   a publication opens a rollout      (module SegmentPublication)        *)
(*     -> each Runtime fetches the current configuration with its ETag     *)
(*     -> prepares or commits it, and reports with If-Match                *)
(*     -> the reports of all members move the rollout to its next phase    *)
(*                                                                         *)
(* cloud-db/src/sdwan.rs          publish, current configuration, receipts *)
(* cloud-db/src/authorization.rs  which route policy a Grant may name      *)
(* cloud-auth/src/service.rs      the ETag and the two steps of a report   *)
(*                                                                         *)
(* The Runtime is another program.  It is modelled by the contract the     *)
(* routes give it: it applies what it fetched, keeps the last good         *)
(* generation, and repeats its report.                                     *)
(***************************************************************************)
EXTENDS Naturals, FiniteSets

CONSTANTS
  Devices,         \* the devices that may be attached to the Segment
  TransportNodes,  \* those whose Node has an ACTIVE endpoint peers dial
  Roaming,         \* those whose attachment comes and goes
  MaxGeneration,   \* bound on the published generations
  Window,          \* MAX_COMPATIBILITY_GENERATIONS
  PolicyIsolation, \* the policy-isolation gate of SdwanRepository
  MaxStale,        \* bound on the generations that expire
  MaxInFlight,     \* bound on the reports of a device that are under way
  MaxFaults        \* bound on lost reports and rejected configurations

ASSUME NodesAssumption == TransportNodes \cup Roaming \subseteq Devices
ASSUME BoundsAssumption ==
  {MaxGeneration, Window, MaxStale, MaxInFlight, MaxFaults} \subseteq Nat
ASSUME WindowAssumption == Window > 0
ASSUME GateAssumption == PolicyIsolation \in BOOLEAN

VARIABLES
  current,   \* segments.current_generation
  mode,      \* segment_route_publications.activation_mode
  members,   \* segment_route_publication_members, as devices
  rollout,   \* runtime_configuration_rollouts.state
  attached,  \* devices with an ACTIVE attachment, site, device and key
  stale,     \* generations 1..stale are past their stale_until
  status,    \* runtime_configuration_status
  announced, \* the resync audit events: <<device, active generation>>
  runtime,   \* the Runtimes (external)
  reports,   \* status requests under way
  faults     \* faults used up

cloud == <<current, mode, members, rollout, attached, stale, announced>>
vars == <<current, mode, members, rollout, attached, stale, status,
          announced, runtime, reports, faults>>

-----------------------------------------------------------------------------
(***************************************************************************)
(* State                                                                   *)
(***************************************************************************)
Generations == 1..MaxGeneration
Modes       == {"TUNNEL", "POLICY_ONLY"}
Phases      == {"PREPARE", "COMMIT"}
ApplyStates == {"PREPARED", "ACTIVE", "REJECTED"}

\* A delivered configuration.  Its ETag covers exactly these parts.
Offer == [generation : 0..MaxGeneration, phase : Phases,
          compat : SUBSET (Devices \X Generations)]

NoOffer == [generation |-> 0, phase |-> "PREPARE", compat |-> {}]

Status == [generation : 0..MaxGeneration, state : ApplyStates \cup {"NONE"},
           active : 0..MaxGeneration]

Runtime == [offer : Offer, result : ApplyStates \cup {"NONE"},
            prepared : SUBSET Generations, running : 0..MaxGeneration]

Report == [device : Devices, etag : Offer, state : ApplyStates,
           checked : BOOLEAN]

Init ==
  /\ current = 0
  /\ mode = [g \in Generations |-> "TUNNEL"]
  /\ members = [g \in Generations |-> {}]
  /\ rollout = [g \in Generations |-> "NONE"]
  /\ attached = Devices \ Roaming
  /\ stale = 0
  /\ status = [d \in Devices |->
                 [generation |-> 0, state |-> "NONE", active |-> 0]]
  /\ announced = {}
  /\ runtime = [d \in Devices |-> [offer |-> NoOffer, result |-> "NONE",
                                   prepared |-> {}, running |-> 0]]
  /\ reports = {}
  /\ faults = 0

-----------------------------------------------------------------------------
(***************************************************************************)
(* What the tables say                                                     *)
(***************************************************************************)
OnlyPolicySince(p) == \A c \in (p + 1)..current : mode[c] = "POLICY_ONLY"

\* Is generation t the last transport publication up to g?
LastTunnel(t, g) ==
  /\ mode[t] = "TUNNEL"
  /\ \A c \in (t + 1)..g : mode[c] = "POLICY_ONLY"

\* The device has one projection of the current publication.
Deliverable(d) ==
  current > 0 /\ d \in attached /\ d \in members[current]

\* Mutated form of Retained: nothing is kept for a peer without a receipt.
RetainedKnown(e) ==
  IF status[e].active = current THEN current - 1 ELSE status[e].active

\* The one older identity kept for a peer: what it reported as running, or the
\* previous generation if that is unknown or current.
Retained(e) ==
  IF status[e].active \in {0, current} THEN current - 1 ELSE status[e].active

\* Mutated form of Compatible: the window is one generation too short.
CompatibleShort(e, p) ==
  /\ p \in 1..(current - 1) /\ e \in members[p] /\ stale < p
  /\ PolicyIsolation => p + Window > current
  /\ p = current - 1 \/ (PolicyIsolation /\ OnlyPolicySince(p))

Compatible(e, p) ==
  /\ p \in 1..(current - 1) /\ e \in members[p] /\ stale < p
  /\ PolicyIsolation => p + Window >= current
  /\ p = current - 1 \/ (PolicyIsolation /\ OnlyPolicySince(p))

\* compatibility_generations: only a transport node admits peers.
Compatibility(d) ==
  {<<e, Retained(e)>> : e \in
     {e \in (attached \cap members[current]) \ {d} :
        d \in TransportNodes /\ Compatible(e, Retained(e))}}

ActivationPhase(g) ==
  IF mode[g] = "POLICY_ONLY" \/ rollout[g] \in {"COMMITTING", "COMPLETE"}
  THEN "COMMIT" ELSE "PREPARE"

\* load_current_runtime_configuration.  allowed_ordinal is always the member
\* count, so the delivered generation is always the current one.
CurrentConfiguration(d) ==
  [generation |-> current, phase |-> ActivationPhase(current),
   compat |-> Compatibility(d)]

\* load_for_policy with a route_policy: may a Grant name generation p of the
\* device's projection, as it asks?
GrantedRequested(d, p) ==
  /\ Deliverable(d) /\ p \in 1..current /\ d \in members[p] /\ stale < p
  /\ \/ p = current
     \/ /\ p = status[d].active
        /\ \/ p = current - 1
           \/ PolicyIsolation /\ p + Window >= current /\ OnlyPolicySince(p)

\* load_for_policy without one: the current generation, or the one before it
\* while the rollout is blocked.  What the device runs is not asked, nor whether
\* it takes part in the current publication.
GrantedDefault(d, p) ==
  /\ d \in attached /\ p \in 1..current /\ d \in members[p] /\ stale < p
  /\ \/ rollout[current] = "BLOCKED" /\ p = current - 1
     \/ rollout[current] # "BLOCKED" /\ p = current
     \/ /\ rollout[current] = "BLOCKED" /\ p = current
        /\ current > 1 => d \notin members[current - 1]

-----------------------------------------------------------------------------
(***************************************************************************)
(* Publication and topology                                                *)
(***************************************************************************)
TransportSettled == \E t \in 1..current :
                      LastTunnel(t, current) /\ rollout[t] = "COMPLETE"

PolicyPublishable ==
  /\ current > 0
  /\ PolicyIsolation \/ rollout[current] = "COMPLETE"
  /\ TransportSettled

\* Mutated forms of Lagging: devices without a receipt are counted; the window
\* is measured from the previous generation.
LaggingUnreported == {e \in attached : status[e].active + Window < current + 1}

LaggingLate == {e \in attached : status[e].active > 0
                                 /\ status[e].active + Window < current}

\* Peers that fall out of the compatibility window of the new generation.
Lagging == {e \in attached : status[e].active > 0
                             /\ status[e].active + Window < current + 1}

\* The rollout half of SdwanRepository::publish.  The members are the
\* participating attachments, which a Prefix edit (POLICY_ONLY) changes too.
Publish(m, participants) ==
  /\ current < MaxGeneration
  /\ participants # {} /\ participants \subseteq attached
  /\ m = "POLICY_ONLY" => PolicyPublishable
  /\ current' = current + 1
  /\ mode' = [mode EXCEPT ![current + 1] = m]
  /\ members' = [members EXCEPT ![current + 1] = participants]
  /\ rollout' = [rollout EXCEPT ![current + 1] =
                   IF m = "POLICY_ONLY" THEN "COMMITTING" ELSE "PREPARING"]
  /\ announced' = IF m = "POLICY_ONLY" /\ PolicyIsolation
                  THEN announced \cup {<<e, status[e].active>> : e \in Lagging}
                  ELSE announced
  /\ UNCHANGED <<attached, stale, status, runtime, reports, faults>>

\* ensure_control_topology, a revoked device or a disabled site.
ChangeTopology(d) ==
  /\ attached' = IF d \in attached THEN attached \ {d} ELSE attached \cup {d}
  /\ UNCHANGED <<current, mode, members, rollout, stale, status, announced,
                 runtime, reports, faults>>

\* stale_until of the oldest publication passes.
GoStale ==
  /\ stale < current /\ stale < MaxStale
  /\ stale' = stale + 1
  /\ UNCHANGED <<current, mode, members, rollout, attached, status, announced,
                 runtime, reports, faults>>

-----------------------------------------------------------------------------
(***************************************************************************)
(* The Runtime (external)                                                  *)
(***************************************************************************)
\* GET runtime/configuration with If-None-Match: answered when the ETag moved.
Fetch(d) ==
  LET offer == CurrentConfiguration(d)
      held  == runtime[d].offer
  IN /\ Deliverable(d) /\ offer # held
     /\ runtime' = [runtime EXCEPT ![d] = [runtime[d] EXCEPT
          !.offer = offer,
          !.result = IF offer.generation = held.generation
                        /\ offer.phase = held.phase
                     THEN runtime[d].result ELSE "NONE"]]
     /\ UNCHANGED <<cloud, status, reports, faults>>

Apply(d) ==
  LET g == runtime[d].offer.generation IN
  /\ g > 0
  /\ \/ /\ runtime[d].offer.phase = "PREPARE" /\ runtime[d].result # "PREPARED"
        /\ runtime' = [runtime EXCEPT ![d] = [runtime[d] EXCEPT
             !.result = "PREPARED", !.prepared = runtime[d].prepared \cup {g}]]
     \/ /\ runtime[d].offer.phase = "COMMIT" /\ runtime[d].result # "ACTIVE"
        /\ runtime' = [runtime EXCEPT ![d] = [runtime[d] EXCEPT
             !.result = "ACTIVE", !.running = g]]
  /\ UNCHANGED <<cloud, status, reports, faults>>

\* The Runtime refuses the candidate, or fails on one it has applied before.
Reject(d) ==
  /\ runtime[d].offer.generation > 0 /\ runtime[d].result # "REJECTED"
  /\ faults < MaxFaults /\ faults' = faults + 1
  /\ runtime' = [runtime EXCEPT ![d].result = "REJECTED"]
  /\ UNCHANGED <<cloud, status, reports>>

InFlight(d) == {m \in reports : m.device = d}

\* The report of the applied configuration, repeated with every heartbeat.
SendReport(d) ==
  /\ runtime[d].result # "NONE" /\ Cardinality(InFlight(d)) < MaxInFlight
  /\ reports' = reports \cup
       {[device |-> d, etag |-> runtime[d].offer, state |-> runtime[d].result,
         checked |-> FALSE]}
  /\ UNCHANGED <<cloud, status, runtime, faults>>

LoseReport(m) ==
  /\ faults < MaxFaults /\ faults' = faults + 1
  /\ reports' = reports \ {m}
  /\ UNCHANGED <<cloud, status, runtime>>

-----------------------------------------------------------------------------
(***************************************************************************)
(* A status report, in its two transactions                                *)
(***************************************************************************)
\* record_status compares If-Match with the ETag of the current configuration.
CheckStatus(m) ==
  /\ ~m.checked
  /\ reports' = (reports \ {m}) \cup
       IF Deliverable(m.device) /\ m.etag = CurrentConfiguration(m.device)
       THEN {[m EXCEPT !.checked = TRUE]} ELSE {}
  /\ UNCHANGED <<cloud, status, runtime, faults>>

\* Mutated form of AllReport: receipts of older generations count.
AllReportAnyGeneration(receipts, state) ==
  \A e \in members[current] : receipts[e].state = state

\* Every member's receipt for the current generation is of this state.
AllReport(receipts, state) ==
  \A e \in members[current] :
    receipts[e].generation = current /\ receipts[e].state = state

\* Mutated form of NextPhase: a rejection blocks a committed rollout too.
NextPhaseReverting(state, receipts) ==
  CASE /\ state = "PREPARED" /\ rollout[current] \in {"PREPARING", "BLOCKED"}
       /\ AllReport(receipts, "PREPARED")                -> "COMMITTING"
    [] /\ state = "ACTIVE" /\ rollout[current] \in {"COMMITTING", "BLOCKED"}
       /\ AllReport(receipts, "ACTIVE")                  -> "COMPLETE"
    [] state = "REJECTED"                                -> "BLOCKED"
    [] OTHER                                             -> rollout[current]

\* Mutated form of NextPhase: nothing leads out of BLOCKED.
NextPhaseBlocked(state, receipts) ==
  CASE /\ state = "PREPARED" /\ rollout[current] = "PREPARING"
       /\ AllReport(receipts, "PREPARED")                -> "COMMITTING"
    [] /\ state = "ACTIVE" /\ rollout[current] = "COMMITTING"
       /\ AllReport(receipts, "ACTIVE")                  -> "COMPLETE"
    [] state = "REJECTED" /\ rollout[current] = "PREPARING" -> "BLOCKED"
    [] OTHER                                             -> rollout[current]

\* Mutated form of NextPhase: COMPLETE does not wait for detached members.
NextPhaseAttached(state, receipts) ==
  CASE /\ state = "PREPARED" /\ rollout[current] \in {"PREPARING", "BLOCKED"}
       /\ AllReport(receipts, "PREPARED")                -> "COMMITTING"
    [] /\ state = "ACTIVE" /\ rollout[current] \in {"COMMITTING", "BLOCKED"}
       /\ \A e \in members[current] \cap attached :
            receipts[e].generation = current
            /\ receipts[e].state = "ACTIVE"              -> "COMPLETE"
    [] state = "REJECTED" /\ rollout[current] = "PREPARING" -> "BLOCKED"
    [] OTHER                                             -> rollout[current]

\* The rollout state after a receipt; a commit is never blocked.
NextPhase(state, receipts) ==
  CASE /\ state = "PREPARED" /\ rollout[current] \in {"PREPARING", "BLOCKED"}
       /\ AllReport(receipts, "PREPARED")                -> "COMMITTING"
    [] /\ state = "ACTIVE" /\ rollout[current] \in {"COMMITTING", "BLOCKED"}
       /\ AllReport(receipts, "ACTIVE")                  -> "COMPLETE"
    [] state = "REJECTED" /\ rollout[current] = "PREPARING" -> "BLOCKED"
    [] OTHER                                             -> rollout[current]

\* A delayed PREPARED does not replace the ACTIVE of the same publication.
DelayedPrepare(m) ==
  /\ m.state = "PREPARED"
  /\ status[m.device].generation = current
  /\ status[m.device].state = "ACTIVE"

RecordCurrent(m) ==
  LET d == m.device
      receipts == [status EXCEPT ![d] =
                     [generation |-> current, state |-> m.state,
                      active |-> IF m.state = "ACTIVE" THEN current
                                 ELSE status[d].active]]
  IN IF DelayedPrepare(m) THEN UNCHANGED <<status, rollout>>
     ELSE /\ status' = receipts
          /\ rollout' = [rollout EXCEPT ![current] =
                           NextPhase(m.state, receipts)]

\* An ACTIVE receipt of a generation superseded since its ETag was checked,
\* by policy publications only.
Historical(m) ==
  /\ PolicyIsolation /\ m.state = "ACTIVE"
  /\ m.etag.generation < current /\ stale < m.etag.generation
  /\ OnlyPolicySince(m.etag.generation)
  /\ m.etag.generation + Window >= current

\* Mutated forms of RecordHistorical: recorded as the current generation;
\* recorded over a newer one.
RecordHistoricalAsCurrent(m) ==
  /\ status' = [status EXCEPT ![m.device].active = current]
  /\ UNCHANGED rollout

RecordHistoricalAlways(m) ==
  /\ status' = [status EXCEPT ![m.device].active = m.etag.generation]
  /\ UNCHANGED rollout

\* Only the running identity moves; a device without a receipt gets one.
RecordHistorical(m) ==
  LET d == m.device
      g == m.etag.generation
  IN /\ status' = IF status[d].active >= g THEN status
                  ELSE IF status[d].state = "NONE"
                  THEN [status EXCEPT ![d] = [generation |-> g,
                          state |-> "ACTIVE", active |-> g]]
                  ELSE [status EXCEPT ![d].active = g]
     /\ UNCHANGED rollout

\* record_runtime_configuration_status: one transaction under the row lock of
\* the Segment.  What it does not record it refuses.
RecordStatus(m) ==
  /\ m.checked
  /\ reports' = reports \ {m}
  /\ \/ /\ Deliverable(m.device) /\ m.etag.generation = current
        /\ RecordCurrent(m)
     \/ Deliverable(m.device) /\ Historical(m) /\ RecordHistorical(m)
     \/ /\ \/ ~Deliverable(m.device)
           \/ m.etag.generation < current /\ ~Historical(m)
        /\ UNCHANGED <<status, rollout>>
  /\ UNCHANGED <<current, mode, members, attached, stale, announced, runtime,
                 faults>>

-----------------------------------------------------------------------------
Handle(d) == \E m \in InFlight(d) : CheckStatus(m) \/ RecordStatus(m)

PublisherStep ==
  \/ \E m \in Modes : \E participants \in SUBSET attached :
       Publish(m, participants)
  \/ \E d \in Roaming : ChangeTopology(d)
  \/ GoStale

RuntimeStep(d) == Fetch(d) \/ Apply(d) \/ SendReport(d)

FaultStep == (\E d \in Devices : Reject(d)) \/ (\E m \in reports : LoseReport(m))

Next ==
  \/ PublisherStep
  \/ \E d \in Devices : RuntimeStep(d) \/ Handle(d)
  \/ FaultStep

Spec == Init /\ [][Next]_vars

\* Runtimes poll, apply and repeat their report; the service answers.
Fairness ==
  \A d \in Devices : /\ WF_vars(Fetch(d)) /\ WF_vars(Apply(d))
                     /\ WF_vars(SendReport(d)) /\ WF_vars(Handle(d))

FairSpec == Spec /\ Fairness

-----------------------------------------------------------------------------
(***************************************************************************)
(* Properties                                                              *)
(***************************************************************************)
TypeOK ==
  /\ current \in 0..MaxGeneration
  /\ mode \in [Generations -> Modes]
  /\ members \in [Generations -> SUBSET Devices]
  /\ rollout \in [Generations ->
       {"NONE", "PREPARING", "BLOCKED", "COMMITTING", "COMPLETE"}]
  /\ attached \subseteq Devices
  /\ stale \in 0..current
  /\ status \in [Devices -> Status]
  /\ announced \subseteq Devices \X Generations
  /\ runtime \in [Devices -> Runtime]
  /\ reports \subseteq Report
  /\ faults \in 0..MaxFaults

\* The prepare barrier: a Runtime that runs a generation does so on a
\* transport publication that every one of its members had prepared, whatever
\* reports were late, repeated, lost or checked against an older phase.
BarrierHolds ==
  \A d \in Devices : runtime[d].running > 0 =>
    \E t \in 1..runtime[d].running :
      /\ LastTunnel(t, runtime[d].running)
      /\ \A e \in members[t] : t \in runtime[e].prepared

\* COMPLETE means what it says: every member has activated the generation.
\* Policy publications and their relaxed barrier rest on it.
CompleteTruthful ==
  \A g \in Generations : rollout[g] = "COMPLETE" =>
    \A d \in members[g] : runtime[d].running >= g

\* Cloud never believes a device runs what it has not activated: Grants and
\* peer catalogs are cut to the believed version.
ActiveTruthful ==
  \A d \in Devices : status[d].active <= runtime[d].running

\* The believed running version of a device never goes back, although an old
\* ACTIVE receipt may be recorded after a newer one.
ActiveMonotoneStep ==
  \A d \in Devices : status'[d].active >= status[d].active

ActiveMonotone == [][ActiveMonotoneStep]_vars

\* Commit is final: the phase delivered for a generation never returns to
\* prepare, whichever members reject it afterwards.
CommitKeptStep ==
  \A g \in Generations :
    ActivationPhase(g) = "COMMIT" /\ g <= current
      => ActivationPhase(g)' = "COMMIT"

CommitKept == [][CommitKeptStep]_vars

\* What a Grant for an older generation lets a device present, every peer that
\* holds the current configuration admits: the Grant queries and the catalog
\* query agree.  Without a route_policy this is so only for a device that takes
\* part in the current publication and runs no older version than the one it is
\* granted: a blocked rollout grants the previous generation to anyone.
GrantsAdmitted ==
  \A e \in Devices : \A p \in 1..(current - 1) :
    ( \/ GrantedRequested(e, p)
      \/ /\ GrantedDefault(e, p)
         /\ e \in members[current] /\ status[e].active \in {0, p, current} )
    => \A d \in TransportNodes \ {e} :
         Deliverable(d) => <<e, p>> \in CurrentConfiguration(d).compat

\* A device is not cut off silently: when its running version gets no more
\* Grants across policy publications alone, the resync event has been written.
ResyncAnnounced ==
  \A d \in Devices :
    LET a == status[d].active IN
    ( /\ PolicyIsolation /\ Deliverable(d) /\ a > 0 /\ d \in members[a]
      /\ stale < a /\ OnlyPolicySince(a) /\ ~GrantedRequested(d, a) )
    => <<d, a>> \in announced

\* Once publications pause, the rollout ends: the current generation becomes
\* COMPLETE unless a member has left, although each receipt may move the ETag
\* of the peers and so refuse the reports they have under way.
RolloutEnds ==
  current > 0 ~> /\ current > 0
                 /\ \/ rollout[current] = "COMPLETE"
                    \/ ~(members[current] \subseteq attached)
=============================================================================

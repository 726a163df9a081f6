------------------------ MODULE TerminalClientProofs ------------------------
(***************************************************************************)
(* Proofs about a terminal device: its keys, Grants, Projections, receipts *)
(* and mode, for any number of keys, requests served at one time and       *)
(* documents, and any lengths of the windows.                              *)
(***************************************************************************)
EXTENDS TerminalClient, FiniteSetTheorems, TLAPS

\* The limits one by one, as the leaves use them.
LEMMA Limits ==
  /\ MaxNodes \in Nat /\ MaxNodes # 0 /\ MaxAttempts \in Nat /\ MaxAttempts # 0
  /\ LeaseSecs \in Nat /\ LeaseSecs # 0 /\ GrantTtl \in Nat /\ GrantTtl # 0
  /\ ProjectionTtl \in Nat /\ ProjectionTtl # 0 /\ RefreshMargin \in Nat /\ RefreshMargin # 0
  /\ MaxTime \in Nat /\ MaxPolicies \in Nat /\ MaxSettings \in Nat
  /\ MaxGrants \in Nat /\ MaxProjections \in Nat /\ MaxReceipts \in Nat
BY LimitsAssumption

USE Limits

-----------------------------------------------------------------------------
(***************************************************************************)
(* The calls                                                               *)
(***************************************************************************)
Signing == {"PROJECTION_SIGN", "PROJECTION_STORE"}
Gathered == Signing \cup {"PROJECTION_ASSEMBLE"}
Issuing == {"GRANT_NODES", "GRANT_SIGN", "GRANT_STORE", "GRANT_INSERT"}

\* What a call knows at its step still holds of the tables it read: policies and
\* Grants are only added.
CallSound(call) ==
  /\ call.step # "IDLE" => call.key \in Keys
  /\ call.step \notin {"IDLE", "REVOKE", "SWEEP"} => call.request \in Requests
  /\ call.step \in Issuing \cup Gathered => call.policy \in 1..Len(policies)
  /\ call.step \in Gathered =>
       call.settings \in 1..MaxSettings /\ Permits(call.policy, call.mode)
  /\ call.step \in Signing =>
       /\ call.grant \in DOMAIN grants
       /\ grants[call.grant].key = call.key
       /\ grants[call.grant].policy = call.policy
       /\ call.now < StaleAt(call.now, call.grant)
       /\ call.now < grants[call.grant].issued + LeaseSecs
CallInv == \A c \in Calls : CallSound(calls[c])

LEMMA IdleType == IdleCall \in CallRows /\ CallSound(IdleCall)
BY DEF IdleCall, CallRows, CallSteps, Modes, CallSound, Signing, Gathered, Issuing

-----------------------------------------------------------------------------
(***************************************************************************)
(* The rows                                                                *)
(***************************************************************************)
\* Some row claims the greatest generation: next_grant_generation is defined.
HasNewest(rows) ==
  rows # <<>> => \E i \in DOMAIN rows :
                   \A j \in DOMAIN rows : rows[j].generation <= rows[i].generation

\* MAX(generation) + 1 is above every generation, and 1 without any.
LEMMA NextGenerationValue ==
  ASSUME NEW rows, HasNewest(rows),
         \A i \in DOMAIN rows : rows[i].generation \in Nat
  PROVE  /\ NextGeneration(rows) \in Nat
         /\ \A i \in DOMAIN rows : rows[i].generation < NextGeneration(rows)
         /\ \/ NextGeneration(rows) = 1
            \/ \E i \in DOMAIN rows : NextGeneration(rows) = rows[i].generation + 1
<1> DEFINE N == {1} \cup {m + 1 : m \in Generations(rows)}
           Above(n) == \A m \in Generations(rows) : m < n
<1>1. \A m : m \in Generations(rows) <=> \E i \in DOMAIN rows : m = rows[i].generation
  BY DEF Generations
<1>2. \E n \in N : Above(n)
  <2>1. CASE rows = <<>>
    <3>1. DOMAIN rows = {}
      BY <2>1
    <3> QED
      BY <1>1, <3>1
  <2>2. CASE rows # <<>>
    <3>1. PICK i \in DOMAIN rows :
                 \A j \in DOMAIN rows : rows[j].generation <= rows[i].generation
      BY <2>2 DEF HasNewest
    <3>2. rows[i].generation \in Generations(rows)
      BY <1>1
    <3>3. Above(rows[i].generation + 1)
      BY <1>1, <3>1
    <3>4. rows[i].generation + 1 \in N
      BY <3>2
    <3> QED
      BY <3>3, <3>4
  <2> QED
    BY <2>1, <2>2
<1>3. NextGeneration(rows) = CHOOSE n \in N : Above(n)
  BY DEF NextGeneration
<1>4. NextGeneration(rows) \in N /\ Above(NextGeneration(rows))
  <2> HIDE DEF N, Above
  <2> QED
    BY <1>2, <1>3
<1> QED
  BY <1>1, <1>4

\* A row added to the end: the others stay where they are.
LEMMA Added ==
  ASSUME NEW S, NEW rows \in Seq(S), NEW r \in S
  PROVE  /\ Append(rows, r) \in Seq(S) /\ Len(Append(rows, r)) = Len(rows) + 1
         /\ DOMAIN rows = 1..Len(rows) /\ DOMAIN Append(rows, r) = 1..(Len(rows) + 1)
         /\ \A i \in 1..Len(rows) : Append(rows, r)[i] = rows[i]
         /\ Append(rows, r)[Len(rows) + 1] = r /\ Len(rows) \in Nat
OBVIOUS

LEMMA RowTypes ==
  ASSUME NEW S, NEW rows \in Seq(S)
  PROVE  /\ DOMAIN rows = 1..Len(rows) /\ Len(rows) \in Nat
         /\ \A i \in DOMAIN rows : rows[i] \in S
OBVIOUS

\* A table whose rows are replaced one for one.
LEMMA Mapped ==
  ASSUME NEW S, NEW rows \in Seq(S), NEW table,
         table = [i \in DOMAIN rows |-> table[i]], \A i \in DOMAIN rows : table[i] \in S
  PROVE  table \in Seq(S) /\ Len(table) = Len(rows) /\ DOMAIN table = DOMAIN rows
<1>1. Len(rows) \in Nat /\ DOMAIN rows = 1..Len(rows)
  OBVIOUS
<1>2. table \in [1..Len(rows) -> S]
  BY <1>1
<1> QED
  BY <1>1, <1>2

LEMMA GrantRow ==
  ASSUME NEW b \in GrantRows
  PROVE  LET r == [b EXCEPT !.status = "REVOKED"] IN
           /\ r \in GrantRows /\ r.key = b.key /\ r.request = b.request
           /\ r.policy = b.policy /\ r.issued = b.issued /\ r.generation = b.generation
           /\ r.status = "REVOKED"
BY DEF GrantRows

LEMMA ProjectionRow ==
  ASSUME NEW b \in ProjectionRows, NEW s \in {"PUBLISHED", "SUPERSEDED", "REVOKED"}
  PROVE  LET r == [b EXCEPT !.status = s] IN
           /\ r \in ProjectionRows /\ r.key = b.key /\ r.request = b.request
           /\ r.grant = b.grant /\ r.policy = b.policy /\ r.mode = b.mode
           /\ r.generation = b.generation /\ r.issued = b.issued /\ r.stale = b.stale
           /\ r.status = s
BY DEF ProjectionRows

-----------------------------------------------------------------------------
(***************************************************************************)
(* The steps, one table at a time                                          *)
(***************************************************************************)
LEMMA NextCases ==
  ASSUME [Next]_vars
  PROVE  \/ UNCHANGED vars
         \/ \E k \in Keys : RegisterDevice(k) \/ RotateDeviceKey(k)
         \/ \E global \in BOOLEAN : PublishPolicy(global)
         \/ BindPolicy \/ PublishSettings \/ SuspendDevice \/ ActivateDevice
         \/ \E n \in Nodes : NodesChange(n)
         \/ Tick
         \/ \E k \in Keys, p \in DOMAIN projections, state \in ReceiptStates :
              RecordReceipt(k, p, state)
         \/ \E c \in Calls, k \in Keys, r \in Requests, s \in {"GRANT", "PROJECTION", "MODE"} :
              Arrive(c, s, k, r)
         \/ \E c \in Calls, k \in Keys : AskRevocation(c, k)
         \/ \E c \in Calls : Served(c) \/ Abandon(c)
<1>1. ASSUME NEW c \in Calls, Requested(c)
      PROVE  \/ \E k \in Keys, r \in Requests, s \in {"GRANT", "PROJECTION", "MODE"} :
                  Arrive(c, s, k, r)
             \/ \E k \in Keys : AskRevocation(c, k)
  BY <1>1 DEF Requested, IssueClientGrant, FetchClientProjection, SetClientTrafficMode
<1> QED
  BY <1>1 DEF Next, Operators

\* The columns of a Grant that are never written again.
SameGrant(a, b) ==
  /\ b.key = a.key /\ b.request = a.request /\ b.policy = a.policy
  /\ b.issued = a.issued /\ b.generation = a.generation
GrantsKept(table) ==
  /\ DOMAIN grants \subseteq DOMAIN table
  /\ \A g \in DOMAIN grants : SameGrant(grants[g], table[g])

\* The row that a call inserts.
GrantOf(call) == [key |-> call.key, request |-> call.request, policy |-> call.policy,
                  nodes |-> call.nodes, generation |-> call.generation, issued |-> call.now,
                  status |-> "ACTIVE"]
ProjectionOf(call) ==
  [key |-> call.key, request |-> call.request, grant |-> call.grant,
   policy |-> call.policy, settings |-> call.settings, mode |-> call.mode,
   generation |-> call.generation, issued |-> call.now,
   stale |-> StaleAt(call.now, call.grant), status |-> "PUBLISHED"]

Inserted(c) ==
  /\ At(c, "GRANT_INSERT") /\ RequestRows(grants, calls[c].request) = {}
  /\ Len(grants) < MaxGrants
  /\ grants' = Append(grants, GrantOf(calls[c]))
Stored(c) ==
  /\ At(c, "PROJECTION_STORE") /\ DeviceStill(calls[c].mode)
  /\ RequestRows(projections, calls[c].request) = {}
  /\ NextFree(projections, calls[c].generation)
  /\ Len(projections) < MaxProjections
  /\ projections' = Append(Superseded(calls[c].key), ProjectionOf(calls[c]))

\* Most steps of a call leave both tables of documents, the device and its keys.
LEMMA ServedCases ==
  ASSUME NEW c \in Calls, Served(c)
  PROVE  /\ UNCHANGED <<clock, policies, bound, settings, candidates, receipts>>
         /\ \/ UNCHANGED <<device, keys, documents, modeRequests>>
            \/ Inserted(c) /\ UNCHANGED <<device, keys, projections, modeRequests>>
            \/ Stored(c) /\ UNCHANGED <<device, keys, grants, modeRequests>>
            \/ /\ SetTrafficMode(c) /\ UNCHANGED <<keys, documents>>
            \/ /\ At(c, "REVOKE") /\ Active(calls[c].key) /\ RevokeDevice(c)
               /\ UNCHANGED <<projections, modeRequests>>
            \/ /\ At(c, "SWEEP") /\ RevokeProjections(c)
               /\ UNCHANGED <<device, keys, grants, modeRequests>>
<1> USE DEF authorization, documents, reports
<1>1. CASE GrantInsert(c)
  BY <1>1 DEF GrantInsert, Inserted, GrantOf
<1>2. CASE ProjectionStore(c)
  BY <1>2 DEF ProjectionStore, Stored, ProjectionOf
<1>3. CASE SetTrafficMode(c)
  BY <1>3 DEF SetTrafficMode
<1>4. CASE RevokeDevice(c)
  BY <1>4 DEF RevokeDevice
<1>5. CASE RevokeProjections(c)
  BY <1>5 DEF RevokeProjections
<1>6. CASE \/ GrantSnapshot(c) \/ GrantNodes(c) \/ GrantSign(c) \/ GrantStore(c)
           \/ ProjectionGather(c) \/ ProjectionAssemble(c) \/ ProjectionSign(c)
           \/ \E mode \in Modes : CheckMode(c, mode)
  BY <1>6 DEF GrantSnapshot, GrantNodes, GrantSign, GrantStore, ProjectionGather,
              ProjectionAssemble, ProjectionSign, CheckMode
<1> QED
  BY <1>1, <1>2, <1>3, <1>4, <1>5, <1>6 DEF Served

LEMMA GrantKinds ==
  ASSUME [Next]_vars
  PROVE  \/ UNCHANGED grants
         \/ grants' = GrantsRevoked
         \/ \E c \in Calls : Inserted(c) /\ UNCHANGED projections
<1>1. ASSUME NEW c \in Calls, Served(c)
      PROVE  \/ UNCHANGED grants
             \/ grants' = GrantsRevoked
             \/ Inserted(c) /\ UNCHANGED projections
  BY <1>1, ServedCases DEF RevokeDevice, documents
<1> QED
  BY <1>1, NextCases DEF vars, documents, RegisterDevice, RotateDeviceKey, PublishPolicy,
     BindPolicy, PublishSettings, SuspendDevice, ActivateDevice, NodesChange, Tick,
     RecordReceipt, Arrive, AskRevocation, Abandon

LEMMA ProjectionKinds ==
  ASSUME [Next]_vars
  PROVE  \/ UNCHANGED projections
         \/ \E ks : projections' = ProjectionsRevokedOf(ks)
         \/ \E c \in Calls : Stored(c) /\ UNCHANGED <<device, keys, grants>>
<1>1. ASSUME NEW c \in Calls, Served(c)
      PROVE  \/ UNCHANGED projections
             \/ \E ks : projections' = ProjectionsRevokedOf(ks)
             \/ Stored(c) /\ UNCHANGED <<device, keys, grants>>
  BY <1>1, ServedCases DEF RevokeProjections, documents
<1> QED
  BY <1>1, NextCases DEF vars, documents, RegisterDevice, RotateDeviceKey, PublishPolicy,
     BindPolicy, PublishSettings, SuspendDevice, ActivateDevice, NodesChange, Tick,
     RecordReceipt, Arrive, AskRevocation, Abandon, AllProjectionsRevoked

\* Policies are only added.
LEMMA PoliciesKept ==
  ASSUME policies \in Seq(BOOLEAN), [Next]_vars
  PROVE  /\ Len(policies) <= Len(policies')
         /\ \A i \in 1..Len(policies) : policies'[i] = policies[i]
<1>1. ASSUME NEW b \in BOOLEAN, PublishPolicy(b)
      PROVE  /\ Len(policies) <= Len(policies')
             /\ \A i \in 1..Len(policies) : policies'[i] = policies[i]
  BY <1>1, Added DEF PublishPolicy
<1>2. ASSUME NEW c \in Calls, Served(c) PROVE UNCHANGED policies
  BY <1>2, ServedCases
<1>3. UNCHANGED policies \/ \E b \in BOOLEAN : PublishPolicy(b)
  BY <1>2, NextCases DEF vars, authorization, RegisterDevice, RotateDeviceKey,
     BindPolicy, PublishSettings, SuspendDevice, ActivateDevice, NodesChange, Tick,
     RecordReceipt, Arrive, AskRevocation, Abandon
<1> QED
  BY <1>1, <1>3

-----------------------------------------------------------------------------
(***************************************************************************)
(* Types                                                                   *)
(***************************************************************************)
InService == device.status \in {"ACTIVE", "SUSPENDED"}
\* A device in service has one key in use, any other none.
KeyInv ==
  /\ InService => \E k \in Keys : {j \in Keys : keys[j] = "ACTIVE"} = {k}
  /\ ~InService => {j \in Keys : keys[j] = "ACTIVE"} = {}
\* The signed generations of the Projections have no gap and no duplicate.
Numbered == \A p \in DOMAIN projections : projections[p].generation = p

TypeInv == TypeOK /\ KeyInv /\ CallInv /\ HasNewest(grants) /\ Numbered

LEMMA CallTypes ==
  ASSUME TypeInv, NEW c \in Calls
  PROVE  calls[c] \in CallRows /\ CallSound(calls[c])
BY DEF TypeInv, TypeOK, CallInv

LEMMA GrantTypes ==
  ASSUME TypeInv
  PROVE  /\ grants \in Seq(GrantRows) /\ DOMAIN grants = 1..Len(grants) /\ Len(grants) \in Nat
         /\ \A g \in DOMAIN grants : grants[g] \in GrantRows
<1>1. grants \in Seq(GrantRows)
  BY DEF TypeInv, TypeOK
<1> QED
  BY <1>1, RowTypes

LEMMA ProjectionTypes ==
  ASSUME TypeInv
  PROVE  /\ projections \in Seq(ProjectionRows)
         /\ DOMAIN projections = 1..Len(projections) /\ Len(projections) \in Nat
         /\ \A p \in DOMAIN projections : projections[p] \in ProjectionRows
<1>1. projections \in Seq(ProjectionRows)
  BY DEF TypeInv, TypeOK
<1> QED
  BY <1>1, RowTypes

LEMMA RevokedGrants ==
  ASSUME TypeInv, NEW table, table = GrantsRevoked
  PROVE  /\ table \in Seq(GrantRows) /\ Len(table) = Len(grants)
         /\ DOMAIN table = DOMAIN grants
         /\ \A g \in DOMAIN grants : SameGrant(grants[g], table[g])
<1>1. table = [g \in DOMAIN grants |-> table[g]]
  BY DEF GrantsRevoked
<1>2. ASSUME NEW g \in DOMAIN grants
      PROVE  table[g] \in GrantRows /\ SameGrant(grants[g], table[g])
  <2>1. table[g] = [grants[g] EXCEPT !.status = "REVOKED"] /\ grants[g] \in GrantRows
    BY GrantTypes DEF GrantsRevoked
  <2> QED
    BY <2>1, GrantRow DEF SameGrant
<1> QED
  BY <1>1, <1>2, GrantTypes, Mapped

LEMMA InsertedGrant ==
  ASSUME TypeInv, NEW c \in Calls, Inserted(c)
  PROVE  /\ GrantOf(calls[c]) \in GrantRows
         /\ grants' \in Seq(GrantRows) /\ Len(grants') = Len(grants) + 1
         /\ DOMAIN grants' = 1..(Len(grants) + 1)
         /\ \A g \in DOMAIN grants : grants'[g] = grants[g]
         /\ grants'[Len(grants) + 1] = GrantOf(calls[c])
<1>1. calls[c] \in CallRows /\ CallSound(calls[c]) /\ calls[c].step = "GRANT_INSERT"
  BY CallTypes DEF Inserted, At
<1>2. /\ calls[c].key \in Keys /\ calls[c].request \in Requests
      /\ calls[c].policy \in 1..Len(policies)
  BY <1>1 DEF CallSound, Issuing
<1>3. calls[c].policy \in 1..MaxPolicies
  <2>1. policies \in Seq(BOOLEAN) /\ Len(policies) <= MaxPolicies
    BY DEF TypeInv, TypeOK
  <2>2. Len(policies) \in Nat
    BY <2>1
  <2> QED
    BY <1>2, <2>1, <2>2
<1>4. calls[c].nodes \in SUBSET Nodes /\ calls[c].generation \in Nat /\ calls[c].now \in 0..MaxTime
  BY <1>1 DEF CallRows
<1>5. GrantOf(calls[c]) \in GrantRows
  BY <1>2, <1>3, <1>4 DEF GrantOf, GrantRows
<1> QED
  BY <1>5, GrantTypes, Added DEF Inserted

LEMMA GrantTable ==
  ASSUME TypeInv, [Next]_vars
  PROVE  /\ grants' \in Seq(GrantRows) /\ Len(grants') <= MaxGrants
         /\ GrantsKept(grants')
         /\ HasNewest(grants)'
<1>1. Len(grants) <= MaxGrants /\ HasNewest(grants)
  BY DEF TypeInv, TypeOK
<1>2. CASE UNCHANGED grants
  BY <1>1, <1>2, GrantTypes DEF GrantsKept, SameGrant
<1>3. CASE grants' = GrantsRevoked
  <2>1. /\ grants' \in Seq(GrantRows) /\ Len(grants') = Len(grants)
        /\ DOMAIN grants' = DOMAIN grants
        /\ \A g \in DOMAIN grants : SameGrant(grants[g], grants'[g])
    BY <1>3, RevokedGrants
  <2>2. grants' # <<>> => grants # <<>>
    BY <2>1, GrantTypes
  <2> QED
    BY <1>1, <2>1, <2>2 DEF GrantsKept, SameGrant, HasNewest
<1>4. ASSUME NEW c \in Calls, Inserted(c)
      PROVE  /\ grants' \in Seq(GrantRows) /\ Len(grants') <= MaxGrants
             /\ GrantsKept(grants') /\ HasNewest(grants)'
  <2> DEFINE n == Len(grants) + 1
  <2>1. /\ grants' \in Seq(GrantRows) /\ Len(grants') = n /\ DOMAIN grants' = 1..n
        /\ \A g \in DOMAIN grants : grants'[g] = grants[g]
        /\ grants'[n] \in GrantRows /\ n \in Nat /\ n \in DOMAIN grants'
        /\ DOMAIN grants = 1..Len(grants) /\ DOMAIN grants \subseteq DOMAIN grants'
        /\ \A g \in DOMAIN grants' : g = n \/ g \in DOMAIN grants
    BY <1>4, InsertedGrant, GrantTypes
  <2>2. n <= MaxGrants
    BY <1>1, <1>4, GrantTypes DEF Inserted
  <2> HIDE DEF n
  <2>3. \A g \in DOMAIN grants' : grants'[g].generation \in Nat
    <3>1. \A g \in DOMAIN grants' : grants'[g] \in GrantRows
      BY <2>1, RowTypes
    <3> QED
      BY <3>1 DEF GrantRows
  <2>4. HasNewest(grants)'
    <3>1. CASE \A g \in DOMAIN grants : grants'[g].generation <= grants'[n].generation
      <4>1. grants'[n].generation <= grants'[n].generation
        BY <2>1, <2>3
      <4>2. \A g \in DOMAIN grants' : grants'[g].generation <= grants'[n].generation
        BY <2>1, <3>1, <4>1
      <4> QED
        BY <2>1, <4>2 DEF HasNewest
    <3>2. CASE \E g \in DOMAIN grants : ~(grants'[g].generation <= grants'[n].generation)
      <4>1. PICK h \in DOMAIN grants : ~(grants'[h].generation <= grants'[n].generation)
        BY <3>2
      <4>2. grants # <<>>
        BY <4>1
      <4>3. PICK i \in DOMAIN grants :
                   \A j \in DOMAIN grants : grants[j].generation <= grants[i].generation
        BY <1>1, <4>2 DEF HasNewest
      <4>4. \A j \in DOMAIN grants : grants'[j].generation <= grants'[i].generation
        BY <2>1, <4>3
      <4>5. grants'[n].generation <= grants'[i].generation
        <5> DEFINE a == grants'[n].generation
                   b == grants'[h].generation
                   e == grants'[i].generation
        <5>1. a \in Nat /\ b \in Nat /\ e \in Nat
          BY <2>1, <2>3
        <5>2. ~(b <= a) /\ b <= e
          BY <4>1, <4>4
        <5> HIDE DEF a, b, e
        <5>3. a <= e
          BY <5>1, <5>2
        <5> QED
          BY <5>3 DEF a, e
      <4> QED
        BY <2>1, <4>4, <4>5 DEF HasNewest
    <3> QED
      BY <3>1, <3>2
  <2> QED
    BY <2>1, <2>2, <2>4 DEF GrantsKept, SameGrant
<1> QED
  BY <1>2, <1>3, <1>4, GrantKinds

\* The columns of a Projection that are never written again.
SameProjection(a, b) ==
  /\ b.key = a.key /\ b.request = a.request /\ b.grant = a.grant /\ b.policy = a.policy
  /\ b.mode = a.mode /\ b.generation = a.generation /\ b.issued = a.issued
  /\ b.stale = a.stale

\* A table whose Projections were withdrawn or superseded, all or some.
Settled(table) ==
  /\ table \in Seq(ProjectionRows) /\ Len(table) = Len(projections)
  /\ DOMAIN table = DOMAIN projections
  /\ \A p \in DOMAIN projections :
       /\ SameProjection(projections[p], table[p])
       /\ table[p].status = "PUBLISHED" => projections[p].status = "PUBLISHED"

LEMMA RevokedProjections ==
  ASSUME TypeInv, NEW ks, NEW table, table = ProjectionsRevokedOf(ks)
  PROVE  /\ Settled(table)
         /\ \A p \in DOMAIN projections :
              projections[p].key \in ks => table[p].status # "PUBLISHED"
<1>1. table = [p \in DOMAIN projections |-> table[p]]
  BY DEF ProjectionsRevokedOf
<1>2. ASSUME NEW p \in DOMAIN projections
      PROVE  /\ table[p] \in ProjectionRows /\ SameProjection(projections[p], table[p])
             /\ table[p].status = "PUBLISHED" => projections[p].status = "PUBLISHED"
             /\ projections[p].key \in ks => table[p].status # "PUBLISHED"
  <2> DEFINE b == projections[p]
             r == [b EXCEPT !.status = "REVOKED"]
  <2>1. b \in ProjectionRows
    BY ProjectionTypes
  <2>2. \/ table[p] = b /\ (b.status # "PUBLISHED" \/ b.key \notin ks)
        \/ table[p] = r
    BY DEF ProjectionsRevokedOf, Withdrawn
  <2>3. /\ r \in ProjectionRows /\ SameProjection(b, r) /\ r.status = "REVOKED"
    <3> HIDE DEF b
    <3> QED
      BY <2>1, ProjectionRow DEF SameProjection
  <2> HIDE DEF r
  <2> QED
    BY <2>1, <2>2, <2>3 DEF SameProjection
<1> QED
  BY <1>1, <1>2, ProjectionTypes, Mapped DEF Settled

LEMMA SupersededProjections ==
  ASSUME TypeInv, NEW k, NEW table, table = Superseded(k)
  PROVE  /\ Settled(table)
         /\ \A p \in DOMAIN projections : table[p].status # "PUBLISHED"
<1>1. table = [p \in DOMAIN projections |-> table[p]]
  BY DEF Superseded
<1>2. ASSUME NEW p \in DOMAIN projections
      PROVE  /\ table[p] \in ProjectionRows /\ SameProjection(projections[p], table[p])
             /\ table[p].status # "PUBLISHED"
  <2> DEFINE b == projections[p]
             r == [b EXCEPT !.status = "SUPERSEDED"]
  <2>1. b \in ProjectionRows
    BY ProjectionTypes
  <2>2. (table[p] = b /\ b.status # "PUBLISHED") \/ table[p] = r
    BY DEF Superseded
  <2>3. /\ r \in ProjectionRows /\ SameProjection(b, r) /\ r.status = "SUPERSEDED"
    <3> HIDE DEF b
    <3> QED
      BY <2>1, ProjectionRow DEF SameProjection
  <2> HIDE DEF r
  <2> QED
    BY <2>1, <2>2, <2>3 DEF SameProjection
<1> QED
  BY <1>1, <1>2, ProjectionTypes, Mapped DEF Settled

\* The Projections are numbered, so MAX(generation) + 1 is their next number.
LEMMA NextProjection ==
  ASSUME TypeInv
  PROVE  NextGeneration(projections) = Len(projections) + 1
<1> DEFINE n == Len(projections)
<1>1. \A p \in DOMAIN projections : projections[p].generation = p
  BY DEF TypeInv, Numbered
<1>2. DOMAIN projections = 1..n /\ n \in Nat
  BY ProjectionTypes
<1>3. HasNewest(projections)
  <2>1. CASE n = 0
    BY <1>2, <2>1, ProjectionTypes DEF HasNewest
  <2>2. CASE n # 0
    <3>1. n \in DOMAIN projections
      BY <1>2, <2>2
    <3>2. \A p \in DOMAIN projections : projections[p].generation <= projections[n].generation
      BY <1>1, <1>2, <3>1
    <3> QED
      BY <3>1, <3>2 DEF HasNewest
  <2> QED
    BY <2>1, <2>2
<1>4. \A p \in DOMAIN projections : projections[p].generation \in Nat
  BY <1>1, <1>2
<1>5. /\ NextGeneration(projections) \in Nat
      /\ \A p \in DOMAIN projections : projections[p].generation < NextGeneration(projections)
      /\ \/ NextGeneration(projections) = 1
         \/ \E p \in DOMAIN projections : NextGeneration(projections) = projections[p].generation + 1
  BY <1>3, <1>4, NextGenerationValue
<1>6. NextGeneration(projections) = n + 1
  <2> DEFINE x == NextGeneration(projections)
  <2> HIDE DEF x, n
  <2>1. x \in Nat /\ (\A p \in 1..n : p < x) /\ (x = 1 \/ \E p \in 1..n : x = p + 1)
    BY <1>1, <1>2, <1>5 DEF x
  <2>2. x = n + 1
    BY <1>2, <2>1
  <2> QED
    BY <2>2 DEF x
<1> QED
  BY <1>6

LEMMA StoredProjection ==
  ASSUME TypeInv, NEW c \in Calls, Stored(c)
  PROVE  /\ ProjectionOf(calls[c]) \in ProjectionRows
         /\ calls[c].generation = Len(projections) + 1
         /\ projections' \in Seq(ProjectionRows)
         /\ Len(projections') = Len(projections) + 1
         /\ DOMAIN projections' = 1..(Len(projections) + 1)
         /\ \A p \in DOMAIN projections :
              /\ SameProjection(projections[p], projections'[p])
              /\ projections'[p].status # "PUBLISHED"
         /\ projections'[Len(projections) + 1] = ProjectionOf(calls[c])
<1> DEFINE call == calls[c]
           n == Len(projections)
<1>1. call \in CallRows /\ CallSound(call) /\ call.step = "PROJECTION_STORE"
  BY CallTypes DEF Stored, At
<1>2. /\ call.key \in Keys /\ call.request \in Requests
      /\ call.policy \in 1..Len(policies) /\ call.settings \in 1..MaxSettings
      /\ call.grant \in DOMAIN grants
  BY <1>1 DEF CallSound, Gathered, Signing
<1>3. call.policy \in 1..MaxPolicies
  <2>1. policies \in Seq(BOOLEAN) /\ Len(policies) <= MaxPolicies
    BY DEF TypeInv, TypeOK
  <2>2. Len(policies) \in Nat
    BY <2>1
  <2> QED
    BY <1>2, <2>1, <2>2
<1>4. call.grant \in 1..MaxGrants
  <2>1. Len(grants) <= MaxGrants
    BY DEF TypeInv, TypeOK
  <2> QED
    BY <1>2, <2>1, GrantTypes
<1>5. call.mode \in Modes /\ call.generation \in Nat /\ call.now \in 0..MaxTime
  BY <1>1 DEF CallRows
<1>6. StaleAt(call.now, call.grant) \in Nat
  <2>1. grants[call.grant] \in GrantRows
    BY <1>2, GrantTypes
  <2>2. grants[call.grant].issued \in Nat
    BY <2>1 DEF GrantRows
  <2> QED
    BY <1>5, <2>2 DEF StaleAt, Expires, Lesser
<1>7. ProjectionOf(call) \in ProjectionRows
  BY <1>2, <1>3, <1>4, <1>5, <1>6 DEF ProjectionOf, ProjectionRows
<1>8. call.generation = n + 1
  BY NextProjection DEF Stored, NextFree
<1>9. PICK table : table = Superseded(call.key)
  OBVIOUS
<1>10. /\ Settled(table)
       /\ \A p \in DOMAIN projections : table[p].status # "PUBLISHED"
  BY <1>9, SupersededProjections
<1>11. projections' = Append(table, ProjectionOf(call))
  BY <1>9 DEF Stored
<1>12. /\ projections' \in Seq(ProjectionRows) /\ Len(projections') = n + 1
       /\ DOMAIN projections' = 1..(n + 1)
       /\ \A p \in 1..n : projections'[p] = table[p]
       /\ projections'[n + 1] = ProjectionOf(call)
  BY <1>7, <1>10, <1>11, Added DEF Settled
<1> QED
  BY <1>7, <1>8, <1>10, <1>12, ProjectionTypes DEF Settled

LEMMA ProjectionTable ==
  ASSUME TypeInv, [Next]_vars
  PROVE  /\ projections' \in Seq(ProjectionRows) /\ Len(projections') <= MaxProjections
         /\ DOMAIN projections \subseteq DOMAIN projections'
         /\ \A p \in DOMAIN projections : SameProjection(projections[p], projections'[p])
         /\ Numbered'
<1>1. Len(projections) <= MaxProjections /\ Numbered
  BY DEF TypeInv, TypeOK
<1>2. CASE UNCHANGED projections
  BY <1>1, <1>2, ProjectionTypes DEF SameProjection, Numbered
<1>3. ASSUME NEW ks, projections' = ProjectionsRevokedOf(ks) PROVE Settled(projections')
  BY <1>3, RevokedProjections
<1>4. CASE Settled(projections')
  BY <1>1, <1>4 DEF Settled, SameProjection, Numbered
<1>5. ASSUME NEW c \in Calls, Stored(c)
      PROVE  /\ projections' \in Seq(ProjectionRows) /\ Len(projections') <= MaxProjections
             /\ DOMAIN projections \subseteq DOMAIN projections'
             /\ \A p \in DOMAIN projections : SameProjection(projections[p], projections'[p])
             /\ Numbered'
  <2> DEFINE n == Len(projections)
  <2>1. n < MaxProjections /\ n \in Nat /\ DOMAIN projections = 1..n
    BY <1>5, ProjectionTypes DEF Stored
  <2>2. /\ projections' \in Seq(ProjectionRows) /\ Len(projections') = n + 1
        /\ DOMAIN projections' = 1..(n + 1)
        /\ \A p \in DOMAIN projections : SameProjection(projections[p], projections'[p])
        /\ projections'[n + 1].generation = n + 1
    <3>1. ProjectionOf(calls[c]).generation = calls[c].generation
      BY DEF ProjectionOf
    <3> QED
      BY <1>5, <3>1, StoredProjection
  <2> HIDE DEF n
  <2>3. ASSUME NEW p \in DOMAIN projections' PROVE projections'[p].generation = p
    <3>1. p \in DOMAIN projections \/ p = n + 1
      BY <2>1, <2>2
    <3> QED
      BY <1>1, <2>2, <3>1 DEF Numbered, SameProjection
  <2>4. Len(projections') <= MaxProjections
    BY <2>1, <2>2
  <2>5. DOMAIN projections \subseteq DOMAIN projections'
    BY <2>1, <2>2
  <2> QED
    BY <2>2, <2>3, <2>4, <2>5 DEF Numbered
<1> QED
  BY <1>2, <1>3, <1>4, <1>5, ProjectionKinds

\* What sets a call in motion leaves it sound.
LEMMA ArrivalCall ==
  ASSUME TypeInv, NEW c \in Calls, NEW k \in Keys,
         \/ \E r \in Requests, s \in {"GRANT", "PROJECTION", "MODE"} : Arrive(c, s, k, r)
         \/ AskRevocation(c, k)
  PROVE  \E x \in CallRows : Become(c, x) /\ CallSound(x)
<1>0. clock \in 0..MaxTime /\ device.mode \in Modes
  BY DEF TypeInv, TypeOK
<1>1. ASSUME NEW r \in Requests, NEW s \in {"GRANT", "PROJECTION", "MODE"}, Arrive(c, s, k, r)
      PROVE  \E x \in CallRows : Become(c, x) /\ CallSound(x)
  <2> DEFINE x == [IdleCall EXCEPT !.step = s, !.key = k, !.request = r, !.now = clock,
                                   !.mode = device.mode]
  <2>1. x \in CallRows /\ x.step = s /\ x.key = k /\ x.request = r
    <3> DEFINE b == IdleCall
               t == clock
               m == device.mode
               y == [b EXCEPT !.step = s, !.key = k, !.request = r, !.now = t, !.mode = m]
    <3>1. b \in CallRows /\ t \in 0..MaxTime /\ m \in Modes /\ s \in CallSteps
      BY <1>0, IdleType DEF CallSteps
    <3> HIDE DEF b, t, m
    <3>2. y \in CallRows /\ y.step = s /\ y.key = k /\ y.request = r
      BY <3>1 DEF CallRows
    <3> QED
      BY <3>2 DEF b, t, m
  <2>2. Become(c, x)
    BY <1>1 DEF Arrive
  <2> HIDE DEF x
  <2> QED
    BY <2>1, <2>2 DEF CallSound, Issuing, Gathered, Signing
<1>2. ASSUME AskRevocation(c, k)
      PROVE  \E x \in CallRows : Become(c, x) /\ CallSound(x)
  <2> DEFINE x == [IdleCall EXCEPT !.step = "REVOKE", !.key = k]
  <2>1. x \in CallRows /\ x.step = "REVOKE" /\ x.key = k
    <3> DEFINE b == IdleCall
    <3>1. b \in CallRows
      BY IdleType
    <3> HIDE DEF b
    <3>2. [b EXCEPT !.step = "REVOKE", !.key = k] \in CallRows
          /\ [b EXCEPT !.step = "REVOKE", !.key = k].step = "REVOKE"
          /\ [b EXCEPT !.step = "REVOKE", !.key = k].key = k
      BY <3>1 DEF CallRows, CallSteps
    <3> QED
      BY <3>2 DEF b
  <2>2. Become(c, x)
    BY <1>2 DEF AskRevocation
  <2> HIDE DEF x
  <2> QED
    BY <2>1, <2>2 DEF CallSound, Issuing, Gathered, Signing
<1> QED
  BY <1>1, <1>2

\* The steps of a Grant's call.
LEMMA GrantCall ==
  ASSUME TypeInv, NEW c \in Calls,
         \/ GrantSnapshot(c) \/ GrantNodes(c) \/ GrantSign(c) \/ GrantStore(c) \/ GrantInsert(c)
  PROVE  \E x \in CallRows : Become(c, x) /\ CallSound(x)
<1> DEFINE b == calls[c]
<1>1. b \in CallRows /\ CallSound(b)
  BY CallTypes
<1>2. CASE Finish(c)
  BY <1>2, IdleType DEF Finish
<1>3. bound \in 0..Len(policies) /\ Len(policies) \in Nat /\ Len(policies) <= MaxPolicies
      /\ candidates \subseteq Nodes
  BY DEF TypeInv, TypeOK
<1>4. CASE GrantSnapshot(c)
  <2> DEFINE x == [b EXCEPT !.step = "GRANT_NODES", !.policy = bound]
  <2>1. Finish(c) \/ (Become(c, x) /\ bound \in 1..Len(policies))
    BY <1>3, <1>4 DEF GrantSnapshot, Authorized
  <2>2. bound \in 0..MaxPolicies
    BY <1>3
  <2>3. b.key \in Keys /\ b.request \in Requests
    BY <1>1, <1>4 DEF GrantSnapshot, At, CallSound
  <2> HIDE DEF b
  <2>4. /\ x \in CallRows /\ x.step = "GRANT_NODES" /\ x.policy = bound
        /\ x.key = b.key /\ x.request = b.request
    BY <1>1, <2>2 DEF CallRows, CallSteps
  <2> HIDE DEF x
  <2> QED
    BY <1>2, <2>1, <2>3, <2>4 DEF CallSound, Issuing, Gathered, Signing
<1>5. CASE GrantNodes(c)
  <2>1. ASSUME NEW g \in DOMAIN grants PROVE grants[g].nodes \in SUBSET Nodes
    <3>1. grants[g] \in GrantRows
      BY GrantTypes
    <3> QED
      BY <3>1 DEF GrantRows
  <2>2. \A n \in ReusableNodes(b.key, b.now) : n \in SUBSET Nodes
    BY <2>1 DEF ReusableNodes, ActiveGrant
  <2>3. FreshNodes \in SUBSET Nodes
    BY <1>3 DEF FreshNodes
  <2>4. \/ Finish(c)
        \/ \E n \in SUBSET Nodes : Become(c, [b EXCEPT !.step = "GRANT_SIGN", !.nodes = n])
    BY <1>5, <2>2, <2>3 DEF GrantNodes
  <2>5. b.key \in Keys /\ b.request \in Requests /\ b.policy \in 1..Len(policies)
    BY <1>1, <1>5 DEF GrantNodes, At, CallSound, Issuing
  <2>6. ASSUME NEW n \in SUBSET Nodes, Become(c, [b EXCEPT !.step = "GRANT_SIGN", !.nodes = n])
        PROVE  \E x \in CallRows : Become(c, x) /\ CallSound(x)
    <3> DEFINE x == [b EXCEPT !.step = "GRANT_SIGN", !.nodes = n]
    <3> HIDE DEF b
    <3>1. /\ x \in CallRows /\ x.step = "GRANT_SIGN" /\ x.policy = b.policy
          /\ x.key = b.key /\ x.request = b.request
      BY <1>1 DEF CallRows, CallSteps
    <3> HIDE DEF x
    <3> QED
      BY <2>5, <2>6, <3>1 DEF CallSound, Issuing, Gathered, Signing, x
  <2> QED
    BY <1>2, <2>4, <2>6
<1>6. CASE GrantSign(c)
  <2> DEFINE n == NextGeneration(grants)
             x == [b EXCEPT !.step = "GRANT_STORE", !.generation = n]
  <2>1. Finish(c) \/ Become(c, x)
    BY <1>6 DEF GrantSign
  <2>2. n \in Nat
    <3>1. HasNewest(grants)
      BY DEF TypeInv
    <3>2. \A g \in DOMAIN grants : grants[g].generation \in Nat
      BY GrantTypes DEF GrantRows
    <3> QED
      BY <3>1, <3>2, NextGenerationValue
  <2>3. b.key \in Keys /\ b.request \in Requests /\ b.policy \in 1..Len(policies)
    BY <1>1, <1>6 DEF GrantSign, At, CallSound, Issuing
  <2> HIDE DEF b, n
  <2>4. /\ x \in CallRows /\ x.step = "GRANT_STORE" /\ x.policy = b.policy
        /\ x.key = b.key /\ x.request = b.request
    BY <1>1, <2>2 DEF CallRows, CallSteps
  <2> HIDE DEF x
  <2> QED
    BY <1>2, <2>1, <2>3, <2>4 DEF CallSound, Issuing, Gathered, Signing
<1>7. CASE GrantStore(c)
  <2> DEFINE x == [b EXCEPT !.step = "GRANT_SIGN", !.attempt = @ + 1]
             y == [b EXCEPT !.step = "GRANT_INSERT"]
  <2>1. Finish(c) \/ (Become(c, x) /\ b.attempt + 1 < MaxAttempts) \/ Become(c, y)
    <3>1. CASE RequestRows(grants, b.request) # {}
      BY <1>7, <3>1 DEF GrantStore
    <3>2. CASE RequestRows(grants, b.request) = {} /\ ~NextFree(grants, b.generation)
      <4>1. Retry(c, "GRANT_SIGN")
        BY <1>7, <3>2 DEF GrantStore
      <4> QED
        BY <4>1 DEF Retry
    <3>3. CASE RequestRows(grants, b.request) = {} /\ NextFree(grants, b.generation)
      BY <1>7, <3>3 DEF GrantStore
    <3> QED
      BY <3>1, <3>2, <3>3
  <2>2. b.key \in Keys /\ b.request \in Requests /\ b.policy \in 1..Len(policies)
    BY <1>1, <1>7 DEF GrantStore, At, CallSound, Issuing
  <2> HIDE DEF b
  <2>3. ASSUME b.attempt + 1 < MaxAttempts PROVE x \in CallRows /\ CallSound(x)
    <3>1. /\ x \in CallRows /\ x.step = "GRANT_SIGN" /\ x.policy = b.policy
          /\ x.key = b.key /\ x.request = b.request
      <4>1. b.attempt + 1 \in 0..(MaxAttempts - 1)
        BY <1>1, <2>3 DEF CallRows
      <4> QED
        BY <1>1, <4>1 DEF CallRows, CallSteps
    <3> HIDE DEF x
    <3> QED
      BY <2>2, <3>1 DEF CallSound, Issuing, Gathered, Signing
  <2>4. y \in CallRows /\ CallSound(y)
    <3>1. /\ y \in CallRows /\ y.step = "GRANT_INSERT" /\ y.policy = b.policy
          /\ y.key = b.key /\ y.request = b.request
      BY <1>1 DEF CallRows, CallSteps
    <3> HIDE DEF y
    <3> QED
      BY <2>2, <3>1 DEF CallSound, Issuing, Gathered, Signing
  <2> HIDE DEF x, y
  <2> QED
    BY <1>2, <2>1, <2>3, <2>4
<1>8. CASE GrantInsert(c)
  BY <1>2, <1>8 DEF GrantInsert
<1> QED
  BY <1>4, <1>5, <1>6, <1>7, <1>8

\* What assemble checked of the Grant holds of the call that signs for it.
LEMMA Assembled ==
  ASSUME TypeInv, NEW call \in CallRows, NEW g \in ActiveGrant(call.key, call.now),
         Assembles(call, g)
  PROVE  /\ g \in DOMAIN grants /\ g \in 0..MaxGrants
         /\ grants[g].key = call.key /\ grants[g].policy = call.policy
         /\ call.now < StaleAt(call.now, g)
         /\ call.now < grants[g].issued + LeaseSecs
<1>1. g \in DOMAIN grants /\ grants[g].key = call.key
  BY DEF ActiveGrant
<1>2. grants[g] \in GrantRows /\ g \in 1..Len(grants) /\ Len(grants) \in Nat
  BY <1>1, GrantTypes
<1>3. Len(grants) <= MaxGrants
  BY DEF TypeInv, TypeOK
<1>4. grants[g].issued \in Nat /\ call.now \in Nat
  <2>1. grants[g].issued \in 0..MaxTime
    BY <1>2 DEF GrantRows
  <2>2. call.now \in 0..MaxTime
    BY DEF CallRows
  <2> QED
    BY <2>1, <2>2
<1>5. StaleAt(call.now, g) > call.now /\ grants[g].policy = call.policy
      /\ ~(call.now >= Lesser(LeaseUntil(grants[g].issued), StaleAt(call.now, g)))
  BY DEF Assembles, LeaseIsOver
<1>6. StaleAt(call.now, g) \in Nat
  BY <1>4 DEF StaleAt, Expires, Lesser
<1>7. LeaseUntil(grants[g].issued) \in Nat /\ LeaseUntil(grants[g].issued) <= grants[g].issued + LeaseSecs
  BY <1>4 DEF LeaseUntil, Lesser
<1>8. call.now < grants[g].issued + LeaseSecs
  <2> DEFINE u == LeaseUntil(grants[g].issued)
             v == StaleAt(call.now, g)
             i == grants[g].issued
             t == call.now
  <2>1. u \in Nat /\ v \in Nat /\ i \in Nat /\ t \in Nat /\ u <= i + LeaseSecs
        /\ ~(t >= IF u < v THEN u ELSE v)
    BY <1>4, <1>5, <1>6, <1>7 DEF Lesser
  <2> HIDE DEF u, v, i, t
  <2>2. t < i + LeaseSecs
    BY <2>1
  <2> QED
    BY <2>2 DEF t, i
<1> QED
  BY <1>1, <1>2, <1>3, <1>4, <1>5, <1>6, <1>8

\* The steps of a Projection's call.
LEMMA ProjectionCall ==
  ASSUME TypeInv, NEW c \in Calls,
         \/ ProjectionGather(c) \/ ProjectionAssemble(c) \/ ProjectionSign(c)
         \/ ProjectionStore(c)
  PROVE  \E x \in CallRows : Become(c, x) /\ CallSound(x)
<1> DEFINE b == calls[c]
<1>1. b \in CallRows /\ CallSound(b)
  BY CallTypes
<1>2. CASE Finish(c)
  BY <1>2, IdleType DEF Finish
<1>3. CASE ProjectionGather(c)
  <2> DEFINE p == bound
             t == settings
             x == [b EXCEPT !.step = "PROJECTION_ASSEMBLE", !.policy = p, !.settings = t]
  <2>1. Finish(c) \/ (Become(c, x) /\ Permits(p, b.mode) /\ p > 0 /\ t > 0)
    BY <1>3 DEF ProjectionGather, Authorized
  <2>2. p \in 0..Len(policies) /\ Len(policies) \in Nat /\ Len(policies) <= MaxPolicies
        /\ t \in 0..MaxSettings
    BY DEF TypeInv, TypeOK
  <2>3. b.key \in Keys /\ b.request \in Requests
    BY <1>1, <1>3 DEF ProjectionGather, At, CallSound
  <2> HIDE DEF b, p, t
  <2>4. p \in 0..MaxPolicies
    BY <2>2
  <2>5. /\ x \in CallRows /\ x.step = "PROJECTION_ASSEMBLE" /\ x.policy = p
        /\ x.settings = t /\ x.key = b.key /\ x.request = b.request /\ x.mode = b.mode
    BY <1>1, <2>2, <2>4 DEF CallRows, CallSteps
  <2>6. p > 0 => p \in 1..Len(policies)
    BY <2>2
  <2>7. t > 0 => t \in 1..MaxSettings
    BY <2>2
  <2> HIDE DEF x
  <2> QED
    BY <1>2, <2>1, <2>3, <2>5, <2>6, <2>7 DEF CallSound, Issuing, Gathered, Signing
<1>4. CASE ProjectionAssemble(c)
  <2>1. \/ Finish(c)
        \/ \E g \in ActiveGrant(b.key, b.now) :
             Assembles(b, g) /\ Become(c, [b EXCEPT !.step = "PROJECTION_SIGN", !.grant = g])
    BY <1>4 DEF ProjectionAssemble
  <2>2. /\ b.key \in Keys /\ b.request \in Requests /\ b.policy \in 1..Len(policies)
        /\ b.settings \in 1..MaxSettings /\ Permits(b.policy, b.mode)
    BY <1>1, <1>4 DEF ProjectionAssemble, At, CallSound, Issuing, Gathered, Signing
  <2>3. ASSUME NEW g \in ActiveGrant(b.key, b.now), Assembles(b, g),
               Become(c, [b EXCEPT !.step = "PROJECTION_SIGN", !.grant = g])
        PROVE  \E x \in CallRows : Become(c, x) /\ CallSound(x)
    <3> DEFINE x == [b EXCEPT !.step = "PROJECTION_SIGN", !.grant = g]
    <3>1. /\ g \in DOMAIN grants /\ g \in 0..MaxGrants
          /\ grants[g].key = b.key /\ grants[g].policy = b.policy
          /\ b.now < StaleAt(b.now, g) /\ b.now < grants[g].issued + LeaseSecs
      BY <1>1, <2>3, Assembled
    <3> HIDE DEF b
    <3>2. /\ x \in CallRows /\ x.step = "PROJECTION_SIGN" /\ x.grant = g /\ x.now = b.now
          /\ x.key = b.key /\ x.request = b.request /\ x.policy = b.policy
          /\ x.settings = b.settings /\ x.mode = b.mode
      BY <1>1, <3>1 DEF CallRows, CallSteps
    <3>3. Become(c, x)
      BY <2>3
    <3> HIDE DEF x
    <3> QED
      BY <2>2, <3>1, <3>2, <3>3 DEF CallSound, Issuing, Gathered, Signing
  <2> QED
    BY <1>2, <2>1, <2>3
<1>5. CASE ProjectionSign(c)
  <2> DEFINE n == NextGeneration(projections)
             x == [b EXCEPT !.step = "PROJECTION_STORE", !.generation = n]
  <2>1. Finish(c) \/ Become(c, x)
    BY <1>5 DEF ProjectionSign
  <2>2. n \in Nat
    BY NextProjection, ProjectionTypes
  <2>3. b.step = "PROJECTION_SIGN"
    BY <1>5 DEF ProjectionSign, At
  <2> HIDE DEF b, n
  <2>4. /\ x \in CallRows /\ x.step = "PROJECTION_STORE" /\ x.grant = b.grant /\ x.now = b.now
        /\ x.key = b.key /\ x.request = b.request /\ x.policy = b.policy
        /\ x.settings = b.settings /\ x.mode = b.mode
    BY <1>1, <2>2 DEF CallRows, CallSteps
  <2> HIDE DEF x
  <2> QED
    BY <1>1, <1>2, <2>1, <2>3, <2>4 DEF CallSound, Issuing, Gathered, Signing
<1>6. CASE ProjectionStore(c)
  <2> DEFINE x == [b EXCEPT !.step = "PROJECTION", !.attempt = @ + 1]
  <2>1. Finish(c) \/ (Become(c, x) /\ b.attempt + 1 < MaxAttempts)
    BY <1>6 DEF ProjectionStore, Retry
  <2>2. b.key \in Keys /\ b.request \in Requests
    BY <1>1, <1>6 DEF ProjectionStore, At, CallSound
  <2>3. ASSUME b.attempt + 1 < MaxAttempts PROVE x \in CallRows /\ CallSound(x)
    <3> HIDE DEF b
    <3>1. b.attempt + 1 \in 0..(MaxAttempts - 1)
      BY <1>1, <2>3 DEF CallRows
    <3>2. x \in CallRows /\ x.step = "PROJECTION" /\ x.key = b.key /\ x.request = b.request
      BY <1>1, <3>1 DEF CallRows, CallSteps
    <3> HIDE DEF x
    <3> QED
      BY <2>2, <3>2 DEF CallSound, Issuing, Gathered, Signing
  <2> HIDE DEF x
  <2> QED
    BY <1>2, <2>1, <2>3
<1> QED
  BY <1>3, <1>4, <1>5, <1>6

LEMMA OtherCall ==
  ASSUME TypeInv, NEW c \in Calls,
         \/ \E mode \in Modes : CheckMode(c, mode)
         \/ SetTrafficMode(c) \/ RevokeDevice(c) \/ RevokeProjections(c) \/ Abandon(c)
  PROVE  \E x \in CallRows : Become(c, x) /\ CallSound(x)
<1> DEFINE b == calls[c]
<1>1. b \in CallRows /\ CallSound(b)
  BY CallTypes
<1>2. CASE Finish(c)
  BY <1>2, IdleType DEF Finish
<1>3. ASSUME NEW m \in Modes, CheckMode(c, m)
      PROVE  \E x \in CallRows : Become(c, x) /\ CallSound(x)
  <2> DEFINE x == [b EXCEPT !.step = "MODE_SET", !.mode = m]
  <2>1. Become(c, x) /\ b.key \in Keys /\ b.request \in Requests
    BY <1>1, <1>3 DEF CheckMode, At, CallSound
  <2> HIDE DEF b
  <2>2. x \in CallRows /\ x.step = "MODE_SET" /\ x.key = b.key /\ x.request = b.request
    BY <1>1 DEF CallRows, CallSteps
  <2> HIDE DEF x
  <2> QED
    BY <2>1, <2>2 DEF CallSound, Issuing, Gathered, Signing
<1>4. CASE RevokeDevice(c)
  <2> DEFINE x == [b EXCEPT !.step = "SWEEP"]
  <2>1. Become(c, x) /\ b.key \in Keys
    BY <1>1, <1>4 DEF RevokeDevice, At, CallSound
  <2> HIDE DEF b
  <2>2. x \in CallRows /\ x.step = "SWEEP" /\ x.key = b.key
    BY <1>1 DEF CallRows, CallSteps
  <2> HIDE DEF x
  <2> QED
    BY <2>1, <2>2 DEF CallSound, Issuing, Gathered, Signing
<1> QED
  BY <1>2, <1>3, <1>4 DEF SetTrafficMode, RevokeProjections, Abandon

\* What a call knows stays true of the tables.
LEMMA SoundStays ==
  ASSUME TypeInv, [Next]_vars, NEW x, CallSound(x)
  PROVE  CallSound(x)'
<1>1. /\ Len(policies) <= Len(policies') /\ Len(policies) \in Nat
      /\ \A i \in 1..Len(policies) : policies'[i] = policies[i]
  BY PoliciesKept DEF TypeInv, TypeOK
<1>2. Len(policies') \in Nat
  <2>1. policies' = policies \/ \E b \in BOOLEAN : policies' = Append(policies, b)
    <3>1. ASSUME NEW c \in Calls, Served(c) PROVE UNCHANGED policies
      BY <3>1, ServedCases
    <3> QED
      BY <3>1, NextCases DEF vars, authorization, RegisterDevice, RotateDeviceKey, PublishPolicy,
         BindPolicy, PublishSettings, SuspendDevice, ActivateDevice, NodesChange, Tick,
         RecordReceipt, Arrive, AskRevocation, Abandon
  <2>2. policies \in Seq(BOOLEAN)
    BY DEF TypeInv, TypeOK
  <2> QED
    BY <2>1, <2>2
<1>3. /\ DOMAIN grants \subseteq DOMAIN grants'
      /\ \A g \in DOMAIN grants : SameGrant(grants[g], grants'[g])
  BY GrantTable DEF GrantsKept
<1>4. ASSUME x.policy \in 1..Len(policies)
      PROVE  /\ x.policy \in 1..Len(policies')
             /\ policies'[x.policy] = policies[x.policy]
  BY <1>1, <1>2, <1>4
<1>5. ASSUME x.grant \in DOMAIN grants
      PROVE  /\ x.grant \in DOMAIN grants'
             /\ grants'[x.grant].key = grants[x.grant].key
             /\ grants'[x.grant].policy = grants[x.grant].policy
             /\ grants'[x.grant].issued = grants[x.grant].issued
  BY <1>3, <1>5 DEF SameGrant
<1> USE DEF CallSound
<1>6. x.step \in Issuing \cup Gathered => x.policy \in 1..Len(policies')
  BY <1>4
<1>7. x.step \in Gathered =>
        x.settings \in 1..MaxSettings /\ (x.mode = "GLOBAL" => policies'[x.policy])
  BY <1>4 DEF Permits, Gathered
<1>8. x.step \in Signing =>
        /\ x.grant \in DOMAIN grants'
        /\ grants'[x.grant].key = x.key /\ grants'[x.grant].policy = x.policy
        /\ x.now < Lesser(x.now + ProjectionTtl, grants'[x.grant].issued + GrantTtl)
        /\ x.now < grants'[x.grant].issued + LeaseSecs
  BY <1>5 DEF StaleAt, Expires
<1> QED
  BY <1>6, <1>7, <1>8 DEF Permits, StaleAt, Expires

LEMMA CallTable ==
  ASSUME TypeInv, [Next]_vars
  PROVE  calls' \in [Calls -> CallRows] /\ CallInv'
<1>1. calls \in [Calls -> CallRows] /\ \A c \in Calls : CallSound(calls[c])
  BY DEF TypeInv, TypeOK, CallInv
<1>2. \/ UNCHANGED calls
      \/ \E c \in Calls : \E x \in CallRows : Become(c, x) /\ CallSound(x)
  <2>1. ASSUME NEW c \in Calls, Served(c) \/ Abandon(c)
        PROVE  \E x \in CallRows : Become(c, x) /\ CallSound(x)
    BY <2>1, GrantCall, ProjectionCall, OtherCall DEF Served
  <2> QED
    BY <2>1, ArrivalCall, NextCases DEF vars, RegisterDevice, RotateDeviceKey, PublishPolicy,
       BindPolicy, PublishSettings, SuspendDevice, ActivateDevice, NodesChange, Tick,
       RecordReceipt
<1>3. /\ calls' \in [Calls -> CallRows]
      /\ \A c \in Calls : CallSound(calls'[c])
  <2>1. CASE UNCHANGED calls
    BY <1>1, <2>1
  <2>2. ASSUME NEW c \in Calls, NEW x \in CallRows, Become(c, x), CallSound(x)
        PROVE  /\ calls' \in [Calls -> CallRows]
               /\ \A d \in Calls : calls'[d] = calls[d] \/ calls'[d] = x
    BY <1>1, <2>2 DEF Become
  <2>3. ASSUME NEW c \in Calls, NEW x \in CallRows, Become(c, x), CallSound(x), NEW d \in Calls
        PROVE  CallSound(calls'[d])
    BY <1>1, <2>2, <2>3
  <2> QED
    BY <1>2, <2>1, <2>2, <2>3
<1>4. ASSUME NEW x, CallSound(x) PROVE CallSound(x)'
  BY <1>4, SoundStays
<1>5. ASSUME NEW c \in Calls, NEW x, x = calls'[c] PROVE CallSound(x)'
  BY <1>3, <1>4, <1>5
<1>6. ASSUME NEW c \in Calls PROVE CallSound(calls[c])'
  BY <1>5 DEF CallSound, Permits, StaleAt, Expires
<1> QED
  BY <1>3, <1>6 DEF CallInv

\* The keys of a device: registration and rotation leave one, revocation none.
LEMMA KeyTable ==
  ASSUME TypeInv, [Next]_vars
  PROVE  /\ device' \in [status : {"ABSENT", "ACTIVE", "SUSPENDED", "REVOKED"}, mode : Modes]
         /\ keys' \in [Keys -> {"UNUSED", "ACTIVE", "RETIRED", "REVOKED"}]
         /\ KeyInv'
<1>1. /\ device \in [status : {"ABSENT", "ACTIVE", "SUSPENDED", "REVOKED"}, mode : Modes]
      /\ keys \in [Keys -> {"UNUSED", "ACTIVE", "RETIRED", "REVOKED"}]
      /\ KeyInv
  BY DEF TypeInv, TypeOK
<1>2. CASE UNCHANGED <<device, keys>>
  BY <1>1, <1>2 DEF KeyInv, InService
<1>3. ASSUME NEW k \in Keys, RegisterDevice(k)
      PROVE  /\ device' \in [status : {"ABSENT", "ACTIVE", "SUSPENDED", "REVOKED"}, mode : Modes]
             /\ keys' \in [Keys -> {"UNUSED", "ACTIVE", "RETIRED", "REVOKED"}]
             /\ KeyInv'
  <2>1. device.status = "ABSENT" /\ device'.status = "ACTIVE" /\ device'.mode = device.mode
        /\ device' \in [status : {"ABSENT", "ACTIVE", "SUSPENDED", "REVOKED"}, mode : Modes]
    BY <1>1, <1>3 DEF RegisterDevice
  <2>2. {j \in Keys : keys[j] = "ACTIVE"} = {}
    BY <1>1, <2>1 DEF KeyInv, InService
  <2>3. keys' = [keys EXCEPT ![k] = "ACTIVE"]
    BY <1>3 DEF RegisterDevice
  <2>4. {j \in Keys : keys'[j] = "ACTIVE"} = {k}
    BY <1>1, <2>2, <2>3
  <2> QED
    BY <1>1, <2>1, <2>3, <2>4 DEF KeyInv, InService
<1>4. ASSUME NEW k \in Keys, RotateDeviceKey(k)
      PROVE  /\ device' = device
             /\ keys' \in [Keys -> {"UNUSED", "ACTIVE", "RETIRED", "REVOKED"}]
             /\ KeyInv'
  <2>1. device' = device /\ device.status = "ACTIVE"
    BY <1>4 DEF RotateDeviceKey
  <2>2. keys' = KeysRotated(k)
    BY <1>4 DEF RotateDeviceKey
  <2>3. {j \in Keys : keys'[j] = "ACTIVE"} = {k}
        /\ keys' \in [Keys -> {"UNUSED", "ACTIVE", "RETIRED", "REVOKED"}]
    BY <1>1, <2>2 DEF KeysRotated
  <2> QED
    BY <2>1, <2>3 DEF KeyInv, InService
<1>5. CASE SuspendDevice \/ ActivateDevice
  <2>1. /\ keys' = keys /\ device.status \in {"ACTIVE", "SUSPENDED"}
        /\ device'.status \in {"ACTIVE", "SUSPENDED"}
        /\ device' \in [status : {"ABSENT", "ACTIVE", "SUSPENDED", "REVOKED"}, mode : Modes]
    BY <1>1, <1>5 DEF SuspendDevice, ActivateDevice
  <2> QED
    BY <1>1, <2>1 DEF KeyInv, InService
<1>6. ASSUME NEW c \in Calls, SetTrafficMode(c)
      PROVE  /\ device' \in [status : {"ABSENT", "ACTIVE", "SUSPENDED", "REVOKED"}, mode : Modes]
             /\ keys' = keys /\ KeyInv'
  <2>1. calls[c].mode \in Modes
    BY CallTypes DEF CallRows
  <2>2. /\ keys' = keys /\ device'.status = device.status
        /\ device' \in [status : {"ABSENT", "ACTIVE", "SUSPENDED", "REVOKED"}, mode : Modes]
    BY <1>1, <1>6, <2>1 DEF SetTrafficMode
  <2> QED
    BY <1>1, <2>2 DEF KeyInv, InService
<1>7. ASSUME NEW c \in Calls, Active(calls[c].key), RevokeDevice(c)
      PROVE  /\ device' \in [status : {"ABSENT", "ACTIVE", "SUSPENDED", "REVOKED"}, mode : Modes]
             /\ keys' \in [Keys -> {"UNUSED", "ACTIVE", "RETIRED", "REVOKED"}]
             /\ KeyInv'
  <2>1. /\ device'.status = "REVOKED"
        /\ device' \in [status : {"ABSENT", "ACTIVE", "SUSPENDED", "REVOKED"}, mode : Modes]
        /\ keys' = [k \in Keys |-> IF keys[k] = "UNUSED" THEN keys[k] ELSE "REVOKED"]
    BY <1>1, <1>7 DEF RevokeDevice
  <2>2. {j \in Keys : keys'[j] = "ACTIVE"} = {}
        /\ keys' \in [Keys -> {"UNUSED", "ACTIVE", "RETIRED", "REVOKED"}]
    BY <1>1, <2>1
  <2> QED
    BY <2>1, <2>2 DEF KeyInv, InService
<1>8. \/ UNCHANGED <<device, keys>>
      \/ \E k \in Keys : RegisterDevice(k) \/ RotateDeviceKey(k)
      \/ SuspendDevice \/ ActivateDevice
      \/ \E c \in Calls : SetTrafficMode(c) \/ (Active(calls[c].key) /\ RevokeDevice(c))
  <2>1. ASSUME NEW c \in Calls, Served(c)
        PROVE  \/ UNCHANGED <<device, keys>>
               \/ SetTrafficMode(c) \/ (Active(calls[c].key) /\ RevokeDevice(c))
    BY <2>1, ServedCases
  <2> QED
    BY <2>1, NextCases DEF vars, PublishPolicy, BindPolicy, PublishSettings, NodesChange, Tick,
       RecordReceipt, Arrive, AskRevocation, Abandon
<1> QED
  BY <1>1, <1>2, <1>3, <1>4, <1>5, <1>6, <1>7, <1>8

LEMMA OtherTables ==
  ASSUME TypeInv, [Next]_vars
  PROVE  /\ clock' \in 0..MaxTime
         /\ policies' \in Seq(BOOLEAN) /\ Len(policies') <= MaxPolicies
         /\ bound' \in 0..Len(policies')
         /\ settings' \in 0..MaxSettings
         /\ candidates' \subseteq Nodes
         /\ receipts' \in Seq([projection : 1..MaxProjections, state : ReceiptStates])
         /\ modeRequests' \in [Requests -> Modes \cup {"NONE"}]
<1> DEFINE Goal == /\ clock' \in 0..MaxTime
                   /\ policies' \in Seq(BOOLEAN) /\ Len(policies') <= MaxPolicies
                   /\ bound' \in 0..Len(policies')
                   /\ settings' \in 0..MaxSettings
                   /\ candidates' \subseteq Nodes
                   /\ receipts' \in Seq([projection : 1..MaxProjections, state : ReceiptStates])
                   /\ modeRequests' \in [Requests -> Modes \cup {"NONE"}]
<1>1. /\ clock \in 0..MaxTime
      /\ policies \in Seq(BOOLEAN) /\ Len(policies) <= MaxPolicies /\ Len(policies) \in Nat
      /\ bound \in 0..Len(policies)
      /\ settings \in 0..MaxSettings
      /\ candidates \subseteq Nodes
      /\ receipts \in Seq([projection : 1..MaxProjections, state : ReceiptStates])
      /\ modeRequests \in [Requests -> Modes \cup {"NONE"}]
  BY RowTypes DEF TypeInv, TypeOK
<1>2. CASE UNCHANGED <<clock, policies, bound, settings, candidates, receipts, modeRequests>>
  BY <1>1, <1>2
<1>3. ASSUME NEW b \in BOOLEAN, PublishPolicy(b) PROVE Goal
  <2>1. policies' \in Seq(BOOLEAN) /\ Len(policies') = Len(policies) + 1
    BY <1>1, <1>3 DEF PublishPolicy
  <2>2. Len(policies') <= MaxPolicies /\ bound' \in 0..Len(policies')
    BY <1>1, <1>3, <2>1 DEF PublishPolicy
  <2> QED
    BY <1>1, <1>3, <2>1, <2>2 DEF PublishPolicy, reports
<1>4. CASE BindPolicy
  BY <1>1, <1>4 DEF BindPolicy, reports
<1>5. CASE PublishSettings
  BY <1>1, <1>5 DEF PublishSettings, reports
<1>6. ASSUME NEW n \in Nodes, NodesChange(n) PROVE Goal
  BY <1>1, <1>6 DEF NodesChange, reports
<1>7. CASE Tick
  <2>1. clock' \in 0..MaxTime
    BY <1>1, <1>7 DEF Tick
  <2> QED
    BY <1>1, <1>7, <2>1 DEF Tick, reports, authorization
<1>8. ASSUME NEW k \in Keys, NEW p \in DOMAIN projections, NEW state \in ReceiptStates,
             RecordReceipt(k, p, state)
      PROVE  Goal
  <2>1. p \in 1..MaxProjections
    <3>1. Len(projections) <= MaxProjections
      BY DEF TypeInv, TypeOK
    <3> QED
      BY <3>1, ProjectionTypes
  <2>2. receipts' \in Seq([projection : 1..MaxProjections, state : ReceiptStates])
    BY <1>1, <1>8, <2>1 DEF RecordReceipt
  <2> QED
    BY <1>1, <1>8, <2>2 DEF RecordReceipt, authorization
<1>9. ASSUME NEW c \in Calls, SetTrafficMode(c) PROVE Goal
  <2>1. calls[c].mode \in Modes
    BY CallTypes DEF CallRows
  <2>2. modeRequests' \in [Requests -> Modes \cup {"NONE"}]
    BY <1>1, <1>9, <2>1 DEF SetTrafficMode
  <2> QED
    BY <1>1, <1>9, <2>2 DEF SetTrafficMode, authorization
<1>10. ASSUME NEW c \in Calls, Served(c), ~SetTrafficMode(c)
       PROVE  UNCHANGED <<clock, policies, bound, settings, candidates, receipts, modeRequests>>
  BY <1>10, ServedCases
<1> HIDE DEF Goal
<1>11. Goal
  BY <1>2, <1>3, <1>4, <1>5, <1>6, <1>7, <1>8, <1>9, <1>10, NextCases
     DEF vars, authorization, reports, RegisterDevice, RotateDeviceKey, SuspendDevice,
         ActivateDevice, Arrive, AskRevocation, Abandon, Goal
<1> QED
  BY <1>11 DEF Goal

LEMMA KeyCount ==
  ASSUME KeyInv
  PROVE  Cardinality({k \in Keys : keys[k] = "ACTIVE"}) =
           IF device.status \in {"ACTIVE", "SUSPENDED"} THEN 1 ELSE 0
<1> DEFINE T == {k \in Keys : keys[k] = "ACTIVE"}
<1>1. /\ InService => \E k \in Keys : T = {k}
      /\ ~InService => T = {}
  BY DEF KeyInv
<1> HIDE DEF T
<1>2. InService => Cardinality(T) = 1
  BY <1>1, FS_Singleton
<1>3. ~InService => Cardinality(T) = 0
  BY <1>1, FS_EmptySet
<1> QED
  BY <1>2, <1>3 DEF T, InService

LEMMA TypeInit == Init => TypeInv
<1> SUFFICES ASSUME Init PROVE TypeInv
  OBVIOUS
<1>1. KeyInv
  BY DEF Init, KeyInv, InService
<1>2. HasNewest(grants) /\ Numbered
  BY DEF Init, HasNewest, Numbered
<1>3. CallInv /\ calls \in [Calls -> CallRows]
  BY IdleType DEF Init, CallInv
<1>4. TypeOK
  BY <1>1, <1>3, KeyCount DEF Init, TypeOK, Modes
<1> QED
  BY <1>1, <1>2, <1>3, <1>4 DEF TypeInv

LEMMA TypeNext == TypeInv /\ [Next]_vars => TypeInv'
<1> SUFFICES ASSUME TypeInv, [Next]_vars PROVE TypeInv'
  OBVIOUS
<1>1. KeyInv'
  BY KeyTable
<1>2. (Cardinality({k \in Keys : keys[k] = "ACTIVE"}) =
         IF device.status \in {"ACTIVE", "SUSPENDED"} THEN 1 ELSE 0)'
  BY <1>1, KeyCount, PTL
<1>3. TypeOK'
  BY <1>2, KeyTable, CallTable, GrantTable, ProjectionTable, OtherTables DEF TypeOK
<1> QED
  BY <1>1, <1>3, CallTable, GrantTable, ProjectionTable DEF TypeInv

LEMMA TypesHold == Spec => []TypeInv
BY TypeInit, TypeNext, PTL DEF Spec

\* Rows and calls keep the shape of their tables, and a device in service has
\* exactly one key in use, whatever requests registration, rotation and
\* revocation race with.
THEOREM TypeCorrect == Spec => []TypeOK
BY TypesHold, PTL DEF TypeInv

-----------------------------------------------------------------------------
(***************************************************************************)
(* Documents                                                               *)
(***************************************************************************)
Unique(rows) == \A i, j \in DOMAIN rows : rows[i].request = rows[j].request => i = j

LEMMA UniqueRows ==
  ASSUME NEW rows
  PROVE  Unique(rows) <=> \A i \in DOMAIN rows : RequestRows(rows, rows[i].request) = {i}
BY DEF Unique, RequestRows

LEMMA UniqueStep ==
  ASSUME TypeInv, Unique(grants), Unique(projections), [Next]_vars
  PROVE  Unique(grants') /\ Unique(projections')
<1>1. Unique(grants')
  <2>1. CASE UNCHANGED grants
    BY <2>1
  <2>2. CASE grants' = GrantsRevoked
    <3>1. DOMAIN grants' = DOMAIN grants
          /\ \A g \in DOMAIN grants : grants'[g].request = grants[g].request
      BY <2>2, RevokedGrants DEF SameGrant
    <3> QED
      BY <3>1 DEF Unique
  <2>3. ASSUME NEW c \in Calls, Inserted(c) PROVE Unique(grants')
    <3> DEFINE n == Len(grants) + 1
               q == calls[c].request
    <3>1. /\ DOMAIN grants' = 1..n /\ n \in Nat /\ DOMAIN grants = 1..Len(grants)
          /\ \A g \in DOMAIN grants : grants'[g] = grants[g]
          /\ grants'[n] = GrantOf(calls[c])
      BY <2>3, InsertedGrant, GrantTypes
    <3>2. grants'[n].request = q /\ \A g \in DOMAIN grants : grants[g].request # q
      BY <2>3, <3>1 DEF Inserted, RequestRows, GrantOf
    <3>3. \A g \in DOMAIN grants' : g = n \/ g \in DOMAIN grants
      BY <3>1, GrantTypes
    <3> HIDE DEF n, q
    <3> QED
      BY <3>1, <3>2, <3>3 DEF Unique
  <2> QED
    BY <2>1, <2>2, <2>3, GrantKinds
<1>2. Unique(projections')
  <2>1. CASE UNCHANGED projections
    BY <2>1
  <2>2. ASSUME NEW ks, projections' = ProjectionsRevokedOf(ks) PROVE Unique(projections')
    <3>1. DOMAIN projections' = DOMAIN projections
          /\ \A p \in DOMAIN projections : projections'[p].request = projections[p].request
      BY <2>2, RevokedProjections DEF SameProjection, Settled
    <3> QED
      BY <3>1 DEF Unique
  <2>3. ASSUME NEW c \in Calls, Stored(c) PROVE Unique(projections')
    <3> DEFINE n == Len(projections) + 1
               q == calls[c].request
    <3>1. /\ DOMAIN projections' = 1..n
          /\ \A p \in DOMAIN projections : SameProjection(projections[p], projections'[p])
          /\ projections'[n] = ProjectionOf(calls[c])
      BY <2>3, StoredProjection
    <3>2. ProjectionOf(calls[c]).request = q
      BY DEF ProjectionOf
    <3>3. \A p \in DOMAIN projections : projections[p].request # q
      BY <2>3 DEF Stored, RequestRows
    <3>4. \A p \in DOMAIN projections' : p = n \/ p \in DOMAIN projections
      BY <3>1, ProjectionTypes
    <3> HIDE DEF n, q
    <3> QED
      BY <3>1, <3>2, <3>3, <3>4 DEF Unique, SameProjection
  <2> QED
    BY <2>1, <2>2, <2>3, ProjectionKinds
<1> QED
  BY <1>1, <1>2

\* One Grant and one Projection of a request id, and Projections numbered without
\* gap or duplicate, whatever issuances and retries ran at the same time.
THEOREM DocumentsAreSignedOnce == Spec => []SignedOnce
<1> DEFINE U == Unique(grants) /\ Unique(projections)
<1>1. Init => U
  BY DEF Init, Unique
<1>2. TypeInv /\ U /\ [Next]_vars => U'
  <2> SUFFICES ASSUME TypeInv, U, [Next]_vars PROVE Unique(grants') /\ Unique(projections')
    BY DEF Unique
  <2> QED
    BY UniqueStep
<1>3. TypeInv /\ U => SignedOnce
  <2> SUFFICES ASSUME TypeInv, U PROVE SignedOnce
    OBVIOUS
  <2>1. \A rows \in {grants, projections} : Unique(rows)
    OBVIOUS
  <2>2. \A rows \in {grants, projections} : \A i \in DOMAIN rows :
          RequestRows(rows, rows[i].request) = {i}
    BY <2>1, UniqueRows
  <2> QED
    BY <2>2 DEF SignedOnce, TypeInv, Numbered
<1> HIDE DEF U
<1> QED
  BY <1>1, <1>2, <1>3, TypesHold, PTL DEF Spec

\* A device has at most one published Projection, the last one signed: two calls
\* that stored one each, for the same key or for two, left the later one.
THEOREM OneProjectionIsPublished == Spec => []OnePublished
<1>1. Init => OnePublished
  BY DEF Init, OnePublished
<1>2. ASSUME TypeInv, OnePublished, [Next]_vars PROVE OnePublished'
  <2>1. CASE UNCHANGED projections
    BY <1>2, <2>1 DEF OnePublished
  <2>2. ASSUME NEW ks, projections' = ProjectionsRevokedOf(ks) PROVE OnePublished'
    <3>1. Settled(projections')
      BY <1>2, <2>2, RevokedProjections
    <3> QED
      BY <1>2, <3>1 DEF OnePublished, Settled
  <2>3. ASSUME NEW c \in Calls, Stored(c) PROVE OnePublished'
    <3> DEFINE n == Len(projections) + 1
    <3>1. /\ DOMAIN projections' = 1..n /\ Len(projections') = n
          /\ \A p \in DOMAIN projections : projections'[p].status # "PUBLISHED"
      BY <1>2, <2>3, StoredProjection
    <3>2. \A p \in DOMAIN projections' : p = n \/ p \in DOMAIN projections
      BY <1>2, <3>1, ProjectionTypes
    <3> HIDE DEF n
    <3> QED
      BY <3>1, <3>2 DEF OnePublished
  <2> QED
    BY <1>2, <2>1, <2>2, <2>3, ProjectionKinds
<1> QED
  BY <1>1, <1>2, TypesHold, PTL DEF Spec

\* A suspended device has no published Projection, not even one that a slow
\* request stored for a key retired meanwhile.
THEOREM SuspensionUnpublishes == Spec => []SuspendedUnpublished
<1>1. Init => SuspendedUnpublished
  BY DEF Init, SuspendedUnpublished
<1>2. ASSUME TypeInv, SuspendedUnpublished, [Next]_vars PROVE SuspendedUnpublished'
  <2>1. CASE SuspendDevice
    <3>1. projections' = ProjectionsRevokedOf(Keys)
      BY <2>1 DEF SuspendDevice, AllProjectionsRevoked
    <3>2. Settled(projections') /\ \A p \in DOMAIN projections :
            projections[p].key \in Keys => projections'[p].status # "PUBLISHED"
      BY <1>2, <3>1, RevokedProjections
    <3>3. \A p \in DOMAIN projections : projections[p].key \in Keys
      BY <1>2, ProjectionTypes DEF ProjectionRows
    <3> QED
      BY <3>2, <3>3 DEF SuspendedUnpublished, Settled
  <2>2. CASE ~SuspendDevice
    <3>1. device'.status = "SUSPENDED" => device.status = "SUSPENDED"
      <4>0. device \in [status : {"ABSENT", "ACTIVE", "SUSPENDED", "REVOKED"}, mode : Modes]
        BY <1>2 DEF TypeInv, TypeOK
      <4>1. ASSUME NEW c \in Calls, Served(c)
            PROVE  device'.status = "SUSPENDED" => device.status = "SUSPENDED"
        BY <4>0, <4>1, ServedCases DEF SetTrafficMode, RevokeDevice
      <4> QED
        BY <1>2, <2>2, <4>0, <4>1, NextCases DEF vars, RegisterDevice, RotateDeviceKey,
           PublishPolicy, BindPolicy, PublishSettings, ActivateDevice, NodesChange, Tick,
           RecordReceipt, Arrive, AskRevocation, Abandon
    <3>2. CASE UNCHANGED projections
      BY <1>2, <3>1, <3>2 DEF SuspendedUnpublished
    <3>3. ASSUME NEW ks, projections' = ProjectionsRevokedOf(ks) PROVE SuspendedUnpublished'
      <4>1. Settled(projections')
        BY <1>2, <3>3, RevokedProjections
      <4> QED
        BY <1>2, <3>1, <4>1 DEF SuspendedUnpublished, Settled
    <3>4. ASSUME NEW c \in Calls, Stored(c), UNCHANGED device PROVE SuspendedUnpublished'
      BY <3>4 DEF Stored, DeviceStill, SuspendedUnpublished
    <3> QED
      BY <1>2, <3>2, <3>3, <3>4, ProjectionKinds
  <2> QED
    BY <2>1, <2>2
<1> QED
  BY <1>1, <1>2, TypesHold, PTL DEF Spec

\* A Projection against the Grant and the policy it names.
RowWithin(row) ==
  /\ row.grant \in DOMAIN grants /\ row.policy \in 1..Len(policies)
  /\ row.key = grants[row.grant].key /\ row.policy = grants[row.grant].policy
  /\ Permits(row.policy, row.mode)
  /\ row.issued < row.stale
  /\ row.stale <= grants[row.grant].issued + GrantTtl
  /\ row.issued < grants[row.grant].issued + LeaseSecs
WithinInv == \A p \in DOMAIN projections : RowWithin(projections[p])

LEMMA WithinStays ==
  ASSUME TypeInv, [Next]_vars, NEW x, RowWithin(x)
  PROVE  RowWithin(x)'
<1>1. /\ Len(policies) <= Len(policies') /\ Len(policies) \in Nat /\ Len(policies') \in Nat
      /\ \A i \in 1..Len(policies) : policies'[i] = policies[i]
  BY PoliciesKept, OtherTables, RowTypes DEF TypeInv, TypeOK
<1>2. /\ DOMAIN grants \subseteq DOMAIN grants'
      /\ \A g \in DOMAIN grants : SameGrant(grants[g], grants'[g])
  BY GrantTable DEF GrantsKept
<1>3. x.policy \in 1..Len(policies') /\ policies'[x.policy] = policies[x.policy]
  BY <1>1 DEF RowWithin
<1>4. /\ x.grant \in DOMAIN grants'
      /\ grants'[x.grant].key = grants[x.grant].key
      /\ grants'[x.grant].policy = grants[x.grant].policy
      /\ grants'[x.grant].issued = grants[x.grant].issued
  BY <1>2 DEF RowWithin, SameGrant
<1> QED
  BY <1>3, <1>4 DEF RowWithin, Permits

LEMMA WithinStep ==
  ASSUME TypeInv, WithinInv, [Next]_vars
  PROVE  WithinInv'
<1>1. ASSUME NEW p \in DOMAIN projections' PROVE RowWithin(projections'[p])
  <2>1. CASE p \in DOMAIN projections
    <3>1. SameProjection(projections[p], projections'[p])
      BY <2>1, ProjectionTable
    <3>2. RowWithin(projections[p])
      BY <2>1 DEF WithinInv
    <3> QED
      BY <3>1, <3>2 DEF RowWithin, SameProjection
  <2>2. CASE p \notin DOMAIN projections
    <3>1. ASSUME NEW ks, projections' = ProjectionsRevokedOf(ks) PROVE FALSE
      BY <2>2, <3>1, RevokedProjections DEF Settled
    <3>2. PICK c \in Calls : Stored(c)
      BY <2>2, <3>1, ProjectionKinds
    <3> DEFINE call == calls[c]
               row == ProjectionOf(call)
    <3>3. projections'[p] = row
      <4>1. DOMAIN projections' = 1..(Len(projections) + 1)
            /\ projections'[Len(projections) + 1] = row
        BY <3>2, StoredProjection
      <4> QED
        BY <2>2, <4>1, ProjectionTypes
    <3>4. /\ row.key = call.key /\ row.grant = call.grant /\ row.policy = call.policy
          /\ row.mode = call.mode /\ row.issued = call.now
          /\ row.stale = StaleAt(call.now, call.grant)
      BY DEF ProjectionOf
    <3>5. call \in CallRows /\ CallSound(call) /\ call.step = "PROJECTION_STORE"
      BY <3>2, CallTypes DEF Stored, At
    <3>6. /\ call.policy \in 1..Len(policies) /\ Permits(call.policy, call.mode)
          /\ call.grant \in DOMAIN grants
          /\ grants[call.grant].key = call.key /\ grants[call.grant].policy = call.policy
          /\ call.now < StaleAt(call.now, call.grant)
          /\ call.now < grants[call.grant].issued + LeaseSecs
      BY <3>5 DEF CallSound, Gathered, Signing
    <3>7. StaleAt(call.now, call.grant) <= grants[call.grant].issued + GrantTtl
      <4>1. grants[call.grant] \in GrantRows
        BY <3>6, GrantTypes
      <4>2. grants[call.grant].issued \in 0..MaxTime
        BY <4>1 DEF GrantRows
      <4>3. call.now \in 0..MaxTime
        BY <3>5 DEF CallRows
      <4> QED
        BY <4>2, <4>3 DEF StaleAt, Expires, Lesser
    <3> HIDE DEF row, call
    <3> QED
      BY <3>3, <3>4, <3>6, <3>7 DEF RowWithin
  <2> QED
    BY <2>1, <2>2
<1>2. ASSUME NEW x, RowWithin(x) PROVE RowWithin(x)'
  BY <1>2, WithinStays
<1>3. ASSUME NEW p \in DOMAIN projections', NEW x, x = projections'[p] PROVE RowWithin(x)'
  BY <1>1, <1>2, <1>3
<1>4. ASSUME NEW p \in DOMAIN projections' PROVE RowWithin(projections[p])'
  BY <1>3 DEF RowWithin, Permits
<1> QED
  BY <1>4 DEF WithinInv

\* A Projection says what its Grant says: key, policy generation, a mode that the
\* policy permits, a window inside the Grant's, and nodes under lease when it was
\* signed, although Grant, policy and settings are read in separate statements.
THEOREM ProjectionsStayWithinGrants == Spec => []ProjectionWithinGrant
<1>1. Init => WithinInv
  BY DEF Init, WithinInv
<1>2. TypeInv /\ WithinInv /\ [Next]_vars => WithinInv'
  BY WithinStep
<1>3. WithinInv => ProjectionWithinGrant
  BY DEF WithinInv, RowWithin, ProjectionWithinGrant
<1> QED
  BY <1>1, <1>2, <1>3, TypesHold, PTL DEF Spec

-----------------------------------------------------------------------------
(***************************************************************************)
(* Receipts and the mode                                                   *)
(***************************************************************************)
\* What a receipt of each state stands on.
Passed(state) ==
  IF state = "VERIFIED" THEN {"RECEIVED"}
  ELSE IF state = "STAGED" THEN {"RECEIVED", "VERIFIED"}
  ELSE IF state = "COMMITTED" THEN {"RECEIVED", "VERIFIED", "STAGED"} ELSE {}

\* Every receipt of a Projection stands on the earlier ones, none of which is a
\* rejection.
ReceiptInv ==
  \A i \in DOMAIN receipts :
    /\ \A j \in DOMAIN receipts : j < i /\ receipts[j].projection = receipts[i].projection =>
         receipts[j].state # "REJECTED"
    /\ \A s \in Passed(receipts[i].state) : \E j \in DOMAIN receipts :
         j < i /\ receipts[j].projection = receipts[i].projection /\ receipts[j].state = s

LEMMA PermittedReceipt ==
  ASSUME NEW from \in ReceiptStates, NEW to \in ReceiptStates, PermitsReceipt(from, to)
  PROVE  from # "REJECTED" /\ Passed(to) \subseteq Passed(from) \cup {from}
<1>1. NextState("RECEIVED") = {"VERIFIED"} /\ NextState("VERIFIED") = {"STAGED"}
      /\ NextState("STAGED") = {"COMMITTED"} /\ NextState("COMMITTED") = {}
      /\ NextState("REJECTED") = {}
  BY DEF NextState
<1> QED
  BY <1>1 DEF PermitsReceipt, ReceiptStates, Passed

LEMMA ReceiptStep ==
  ASSUME TypeInv, ReceiptInv, [Next]_vars
  PROVE  ReceiptInv'
<1>1. CASE UNCHANGED receipts
  BY <1>1 DEF ReceiptInv
<1>2. ASSUME NEW k \in Keys, NEW p \in DOMAIN projections, NEW state \in ReceiptStates,
             RecordReceipt(k, p, state)
      PROVE  ReceiptInv'
  <2> DEFINE n == Len(receipts) + 1
             row == [projection |-> p, state |-> state]
  <2>1. receipts \in Seq([projection : 1..MaxProjections, state : ReceiptStates])
    BY DEF TypeInv, TypeOK
  <2>2. /\ DOMAIN receipts = 1..Len(receipts) /\ Len(receipts) \in Nat
        /\ \A i \in DOMAIN receipts : receipts[i].state \in ReceiptStates
    <3>1. \A i \in DOMAIN receipts :
            receipts[i] \in [projection : 1..MaxProjections, state : ReceiptStates]
      BY <2>1, RowTypes
    <3> QED
      BY <2>1, <3>1
  <2>3. receipts' = Append(receipts, row) /\ Acceptable(p, state)
    BY <1>2 DEF RecordReceipt
  <2>4. row \in [projection : 1..MaxProjections, state : ReceiptStates]
    <3>1. Len(projections) <= MaxProjections
      BY DEF TypeInv, TypeOK
    <3> QED
      BY <3>1, ProjectionTypes
  <2>5. /\ DOMAIN receipts' = 1..n /\ n \in Nat /\ receipts'[n] = row
        /\ \A i \in DOMAIN receipts : receipts'[i] = receipts[i]
    BY <2>1, <2>2, <2>3, <2>4, Added
  <2>6. \A i \in DOMAIN receipts' : i = n \/ i \in DOMAIN receipts
    BY <2>2, <2>5
  <2>7. \A i \in DOMAIN receipts : i < n /\ ~(n < i) /\ i \in DOMAIN receipts' /\ i \in Nat
    BY <2>2, <2>5
  <2>8. row.projection = p /\ row.state = state
    OBVIOUS
  <2>9. /\ \A j \in DOMAIN receipts : receipts[j].projection = p => receipts[j].state # "REJECTED"
        /\ \A s \in Passed(state) : \E j \in DOMAIN receipts :
             receipts[j].projection = p /\ receipts[j].state = s
    <3>1. CASE ReceiptsOf(p) = {}
      <4>1. state = "RECEIVED"
        BY <2>3, <3>1 DEF Acceptable
      <4> QED
        BY <3>1, <4>1 DEF ReceiptsOf, Passed
    <3>2. CASE ReceiptsOf(p) # {}
      <4>1. PICK i \in ReceiptsOf(p) : /\ \A j \in ReceiptsOf(p) : j <= i
                                       /\ PermitsReceipt(receipts[i].state, state)
        BY <2>3, <3>2 DEF Acceptable
      <4>2. i \in DOMAIN receipts /\ receipts[i].projection = p
        BY DEF ReceiptsOf
      <4>3. receipts[i].state # "REJECTED"
            /\ Passed(state) \subseteq Passed(receipts[i].state) \cup {receipts[i].state}
        BY <2>2, <4>1, <4>2, PermittedReceipt
      <4>4. ASSUME NEW j \in DOMAIN receipts, receipts[j].projection = p
            PROVE  receipts[j].state # "REJECTED"
        <5>1. j <= i /\ j \in Nat /\ i \in Nat
          BY <2>7, <4>1, <4>2, <4>4 DEF ReceiptsOf
        <5>2. CASE j = i
          BY <4>3, <5>2
        <5>3. CASE j < i
          BY <4>2, <4>4, <5>3 DEF ReceiptInv
        <5> QED
          BY <5>1, <5>2, <5>3
      <4>5. ASSUME NEW s \in Passed(state)
            PROVE  \E j \in DOMAIN receipts : receipts[j].projection = p /\ receipts[j].state = s
        <5>1. CASE s = receipts[i].state
          BY <4>2, <5>1
        <5>2. CASE s \in Passed(receipts[i].state)
          BY <4>2, <5>2 DEF ReceiptInv
        <5> QED
          BY <4>3, <5>1, <5>2
      <4> QED
        BY <4>4, <4>5
    <3> QED
      BY <3>1, <3>2
  <2> HIDE DEF n, row
  <2>10. ASSUME NEW i \in DOMAIN receipts', NEW j \in DOMAIN receipts', j < i,
                receipts'[j].projection = receipts'[i].projection
         PROVE  receipts'[j].state # "REJECTED"
    <3>1. j \in DOMAIN receipts
      <4>1. ~(n < n)
        BY <2>5
      <4> QED
        BY <2>6, <2>7, <2>10, <4>1
    <3>2. CASE i = n
      BY <2>5, <2>8, <2>9, <2>10, <3>1, <3>2
    <3>3. CASE i \in DOMAIN receipts
      BY <2>5, <2>10, <3>1, <3>3 DEF ReceiptInv
    <3> QED
      BY <2>6, <3>2, <3>3
  <2>11. ASSUME NEW i \in DOMAIN receipts', NEW s \in Passed(receipts'[i].state)
         PROVE  \E j \in DOMAIN receipts' :
                  /\ j < i /\ receipts'[j].projection = receipts'[i].projection
                  /\ receipts'[j].state = s
    <3>1. CASE i = n
      <4>1. PICK j \in DOMAIN receipts : receipts[j].projection = p /\ receipts[j].state = s
        BY <2>5, <2>8, <2>9, <2>11, <3>1
      <4> QED
        BY <2>5, <2>7, <2>8, <3>1, <4>1
    <3>2. CASE i \in DOMAIN receipts
      <4>0. s \in Passed(receipts[i].state)
        BY <2>5, <2>11, <3>2
      <4>1. PICK j \in DOMAIN receipts : /\ j < i /\ receipts[j].state = s
                                         /\ receipts[j].projection = receipts[i].projection
        BY <3>2, <4>0 DEF ReceiptInv
      <4> QED
        BY <2>5, <2>7, <3>2, <4>1
    <3> QED
      BY <2>6, <3>1, <3>2
  <2> QED
    BY <2>10, <2>11 DEF ReceiptInv
<1>3. \/ UNCHANGED receipts
      \/ \E k \in Keys, p \in DOMAIN projections, state \in ReceiptStates :
           RecordReceipt(k, p, state)
  <2>1. ASSUME NEW c \in Calls, Served(c) PROVE UNCHANGED receipts
    BY <2>1, ServedCases
  <2> QED
    BY <2>1, NextCases DEF vars, reports, RegisterDevice, RotateDeviceKey, PublishPolicy,
       BindPolicy, PublishSettings, SuspendDevice, ActivateDevice, NodesChange, Tick,
       Arrive, AskRevocation, Abandon
<1> QED
  BY <1>1, <1>2, <1>3

\* What is committed was received, verified and staged before, and nothing follows
\* a rejection, whatever receipts are repeated or late.
THEOREM ReceiptsGoForward == Spec => []ReceiptsForward
<1>1. Init => ReceiptInv
  BY DEF Init, ReceiptInv
<1>2. TypeInv /\ ReceiptInv /\ [Next]_vars => ReceiptInv'
  BY ReceiptStep
<1>3. ASSUME ReceiptInv PROVE ReceiptsForward
  <2>1. ASSUME NEW i \in DOMAIN receipts
        PROVE  LET before == {j \in ReceiptsOf(receipts[i].projection) : j < i}
                   reported == {receipts[j].state : j \in before}
               IN /\ "REJECTED" \notin reported
                  /\ receipts[i].state = "COMMITTED" =>
                       {"RECEIVED", "VERIFIED", "STAGED"} \subseteq reported
    <3> DEFINE before == {j \in ReceiptsOf(receipts[i].projection) : j < i}
               reported == {receipts[j].state : j \in before}
    <3>1. "REJECTED" \notin reported
      BY <1>3 DEF ReceiptInv, ReceiptsOf
    <3>2. ASSUME receipts[i].state = "COMMITTED", NEW s \in {"RECEIVED", "VERIFIED", "STAGED"}
          PROVE  s \in reported
      <4>1. s \in Passed(receipts[i].state)
        BY <3>2 DEF Passed
      <4>2. PICK j \in DOMAIN receipts : /\ j < i /\ receipts[j].state = s
                                         /\ receipts[j].projection = receipts[i].projection
        BY <1>3, <4>1 DEF ReceiptInv
      <4>3. j \in before
        BY <4>2 DEF ReceiptsOf
      <4> QED
        BY <4>2, <4>3
    <3> QED
      BY <3>1, <3>2
  <2> QED
    BY <2>1 DEF ReceiptsForward
<1> QED
  BY <1>1, <1>2, <1>3, TypesHold, PTL DEF Spec

=============================================================================

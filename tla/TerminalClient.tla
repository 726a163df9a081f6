--------------------------- MODULE TerminalClient ---------------------------
(***************************************************************************)
(* One terminal device (Windows, macOS, Android) in the control plane: its *)
(* registration and keys, the access policy bound to it, the Grants and    *)
(* Projections signed for it, the receipts it sends, and what suspends,    *)
(* rotates or revokes it.                                                  *)
(*                                                                         *)
(*   cloud-api/src/client_api.rs, client_projection_api.rs   its requests  *)
(*   cloud-api/src/client_issuance.rs, client_projection.rs  signing       *)
(*   cloud-api/src/management.rs                             operators     *)
(*   cloud-db/src/client_*.rs                      one transaction each    *)
(*                                                                         *)
(* A request of the device is a handler that reads, awaits and writes, so  *)
(* it is several steps of a call, and operators act in between.  Under     *)
(* READ COMMITTED a plain SELECT reads what is committed then, and FOR     *)
(* UPDATE locks the rows that exist: what a transaction locks, or writes   *)
(* at once, is one step; what it read plainly may have changed by then.    *)
(* A document's row is numbered by its place; its generation is what the   *)
(* signed bytes claim.  Rows of different devices never meet.              *)
(***************************************************************************)
EXTENDS Integers, FiniteSets, Sequences

CONSTANTS
  Keys,          \* device_key_id values the client mints
  Requests,      \* request ids of Grants, Projections and mode changes
  Calls,         \* requests being served at one time
  Nodes,         \* node_id with node_key_id, in the order select_nodes sorts them
  MaxNodes,      \* MAX_CLIENT_NODE_BACKUPS + 1
  LeaseSecs,     \* CLIENT_GRANT_NODE_LEASE_SECS
  GrantTtl,      \* CLIENT_GRANT_TTL_SECS
  ProjectionTtl, \* CLIENT_PROJECTION_TTL_SECS
  RefreshMargin, \* CLIENT_PROJECTION_REFRESH_MARGIN_SECS
  MaxAttempts,   \* MAX_GENERATION_ATTEMPTS
  MaxTime,       \* bound on the clock
  MaxPolicies,   \* bound on client_access_policies
  MaxSettings,   \* bound on client_projection_settings
  MaxGrants,     \* bound on client_grants
  MaxProjections,\* bound on client_projections
  MaxReceipts    \* bound on client_projection_receipts

ASSUME LimitsAssumption ==
  /\ {MaxNodes, MaxAttempts} \subseteq Nat \ {0}
  /\ {LeaseSecs, GrantTtl, ProjectionTtl, RefreshMargin} \subseteq Nat \ {0}
  /\ {MaxTime, MaxPolicies, MaxSettings, MaxGrants, MaxProjections, MaxReceipts} \subseteq Nat
  /\ Nodes \subseteq Nat
\* The const assertions of client_issuance.rs and client_projection.rs.
ASSUME WindowsAssumption == LeaseSecs < GrantTtl /\ RefreshMargin < ProjectionTtl

VARIABLES
  clock,
  device,       \* client_devices: status and traffic_mode
  keys,         \* client_device_keys of the device
  policies,     \* client_access_policies: does each allow global mode; the last is ACTIVE
  bound,        \* client_access_policy_bindings: the policy of the device, 0 if none
  settings,     \* generation of the ACTIVE client_projection_settings, 0 if none
  candidates,   \* what active_candidates would return
  grants,       \* client_grants
  projections,  \* client_projections
  receipts,     \* client_projection_receipts, in the order they were stored
  modeRequests, \* client_traffic_mode_requests: the mode each request asked for
  calls         \* requests under way, with what each has read

vars == <<clock, device, keys, policies, bound, settings, candidates, grants, projections,
          receipts, modeRequests, calls>>
authorization == <<policies, bound, settings, candidates>>
documents == <<grants, projections>>
reports == <<receipts, modeRequests>>

-----------------------------------------------------------------------------
(***************************************************************************)
(* State                                                                   *)
(***************************************************************************)
NoKey     == "NO_KEY"
NoRequest == "NO_REQUEST"
Modes     == {"POLICY", "GLOBAL"}
ReceiptStates == {"RECEIVED", "VERIFIED", "STAGED", "COMMITTED", "REJECTED"}

GrantRows == [key : Keys, request : Requests, policy : 1..MaxPolicies, nodes : SUBSET Nodes,
              generation : Nat, issued : 0..MaxTime, status : {"ACTIVE", "REVOKED"}]
ProjectionRows == [key : Keys, request : Requests, grant : 1..MaxGrants,
                   policy : 1..MaxPolicies, settings : 1..MaxSettings, mode : Modes,
                   generation : Nat, issued : 0..MaxTime, stale : Nat,
                   status : {"PUBLISHED", "SUPERSEDED", "REVOKED"}]
CallSteps == {"IDLE", "GRANT", "GRANT_NODES", "GRANT_SIGN", "GRANT_STORE", "GRANT_INSERT",
              "PROJECTION", "PROJECTION_ASSEMBLE", "PROJECTION_SIGN", "PROJECTION_STORE",
              "MODE", "MODE_SET", "REVOKE", "SWEEP"}
CallRows == [step : CallSteps, key : Keys \cup {NoKey},
             request : Requests \cup {NoRequest},
             now : 0..MaxTime, mode : Modes, policy : 0..MaxPolicies, nodes : SUBSET Nodes,
             grant : 0..MaxGrants, settings : 0..MaxSettings, generation : Nat,
             attempt : 0..(MaxAttempts - 1)]
IdleCall == [step |-> "IDLE", key |-> NoKey, request |-> NoRequest, now |-> 0,
             mode |-> "POLICY", policy |-> 0, nodes |-> {}, grant |-> 0, settings |-> 0,
             generation |-> 0, attempt |-> 0]

Init ==
  /\ clock = 0
  /\ device = [status |-> "ABSENT", mode |-> "POLICY"]
  /\ keys = [k \in Keys |-> "UNUSED"]
  /\ policies = <<>>
  /\ bound = 0
  /\ settings = 0
  /\ candidates = Nodes
  /\ grants = <<>>
  /\ projections = <<>>
  /\ receipts = <<>>
  /\ modeRequests = [r \in Requests |-> "NONE"]
  /\ calls = [c \in Calls |-> IdleCall]

Active(k) == device.status = "ACTIVE" /\ k \in Keys /\ keys[k] = "ACTIVE"
At(c, step) == calls[c].step = step
Become(c, call) == calls' = [calls EXCEPT ![c] = call]
Finish(c) == Become(c, IdleCall)
Lesser(a, b) == IF a < b THEN a ELSE b

\* authorization_snapshot: an active device and key, and a bound policy that no
\* later one has superseded.  Users, memberships and tenants stay active here.
Authorized(k) == Active(k) /\ bound > 0 /\ bound = Len(policies)
Permits(policy, mode) == mode = "GLOBAL" => policies[policy]

Expires(g) == grants[g].issued + GrantTtl
\* assignment_lease_deadline: the instant that ends a Grant's node assignment.
LeaseUntil(issued) == Lesser(issued + LeaseSecs, issued + GrantTtl)
\* assignment_lease_state: the window is half-open.
LeaseIsOver(now, until) == now >= until

\* active_grant: the newest unexpired Grants of a key, of which one is read; two
\* that were issued at one time may claim one generation.
ActiveGrant(k, now) ==
  LET live == {g \in DOMAIN grants : grants[g].key = k /\ grants[g].status = "ACTIVE"
                                     /\ Expires(g) > now}
  IN {g \in live : \A h \in live :
        \/ grants[h].generation < grants[g].generation
        \/ grants[h].generation = grants[g].generation /\ grants[h].issued <= grants[g].issued}
\* current_projection: the newest published Projection of a key still valid.
CurrentProjection(k, now) ==
  LET live == {p \in DOMAIN projections : projections[p].key = k
                                          /\ projections[p].status = "PUBLISHED"
                                          /\ projections[p].stale > now}
  IN {p \in live : \A q \in live : q <= p}
\* The rows of one idempotent request.
RequestRows(rows, r) == {i \in DOMAIN rows : rows[i].request = r}

-----------------------------------------------------------------------------
(***************************************************************************)
(* Registration, policy and settings                                       *)
(***************************************************************************)
\* A later registration of the device is a replay, a conflict or gone.
RegisterDevice(k) ==
  /\ device.status = "ABSENT"
  /\ keys[k] = "UNUSED"
  /\ device' = [device EXCEPT !.status = "ACTIVE"]
  /\ keys' = [keys EXCEPT ![k] = "ACTIVE"]
  /\ UNCHANGED <<clock, authorization, documents, reports, calls>>

\* The policy before it is SUPERSEDED: a device bound to it has none.
PublishPolicy(global) ==
  /\ Len(policies) < MaxPolicies
  /\ policies' = Append(policies, global)
  /\ UNCHANGED <<clock, device, keys, bound, settings, candidates, documents, reports, calls>>

BindPolicy ==
  /\ device.status = "ACTIVE"
  /\ policies # <<>>
  /\ bound' = Len(policies)
  /\ UNCHANGED <<clock, device, keys, policies, settings, candidates, documents, reports, calls>>

PublishSettings ==
  /\ settings < MaxSettings
  /\ settings' = settings + 1
  /\ UNCHANGED <<clock, device, keys, policies, bound, candidates, documents, reports, calls>>

\* External: a Node joins or leaves the tenant's pool, or changes its key.
NodesChange(n) ==
  /\ candidates' = IF n \in candidates THEN candidates \ {n} ELSE candidates \cup {n}
  /\ UNCHANGED <<clock, device, keys, policies, bound, settings, documents, reports, calls>>

Tick ==
  /\ clock < MaxTime
  /\ clock' = clock + 1
  /\ UNCHANGED <<device, keys, authorization, documents, reports, calls>>

-----------------------------------------------------------------------------
(***************************************************************************)
(* Operators put a device out of service                                   *)
(***************************************************************************)
GrantsRevoked == [g \in DOMAIN grants |-> [grants[g] EXCEPT !.status = "REVOKED"]]
Withdrawn(p) == IF projections[p].status = "PUBLISHED"
                THEN [projections[p] EXCEPT !.status = "REVOKED"]
                ELSE projections[p]
ProjectionsRevokedOf(ks) ==
  [p \in DOMAIN projections |-> IF projections[p].key \in ks THEN Withdrawn(p)
                                                             ELSE projections[p]]
\* Mutated form of AllProjectionsRevoked: those of the current key only.
CurrentProjectionsRevoked == ProjectionsRevokedOf({k \in Keys : keys[k] = "ACTIVE"})
\* Not filtered by key: a retired key may still have a published Projection.
AllProjectionsRevoked == ProjectionsRevokedOf(Keys)

SuspendDevice ==
  /\ device.status = "ACTIVE"
  /\ device' = [device EXCEPT !.status = "SUSPENDED"]
  /\ grants' = GrantsRevoked
  /\ projections' = AllProjectionsRevoked
  /\ UNCHANGED <<clock, keys, authorization, reports, calls>>

ActivateDevice ==
  /\ device.status = "SUSPENDED"
  /\ device' = [device EXCEPT !.status = "ACTIVE"]
  /\ UNCHANGED <<clock, keys, authorization, documents, reports, calls>>

\* Mutated form of KeysRotated: the key before it goes on serving.
KeysAdded(k) == [keys EXCEPT ![k] = "ACTIVE"]
KeysRotated(k) ==
  [j \in Keys |-> IF j = k THEN "ACTIVE" ELSE IF keys[j] = "ACTIVE" THEN "RETIRED" ELSE keys[j]]

\* A key id is used once, and rotation is never replayed.
RotateDeviceKey(k) ==
  /\ device.status = "ACTIVE"
  /\ keys[k] = "UNUSED"
  /\ keys' = KeysRotated(k)
  /\ grants' = GrantsRevoked
  /\ projections' = AllProjectionsRevoked
  /\ UNCHANGED <<clock, device, authorization, reports, calls>>

-----------------------------------------------------------------------------
(***************************************************************************)
(* A request of the device arrives: resolve_active_device, and the key in  *)
(* the body is the one Cloud has.  The heartbeat stops here.               *)
(***************************************************************************)
Arrive(c, step, k, r) ==
  /\ At(c, "IDLE")
  /\ Active(k)
  /\ Become(c, [IdleCall EXCEPT !.step = step, !.key = k, !.request = r, !.now = clock,
                                !.mode = device.mode])
  /\ UNCHANGED <<clock, device, keys, authorization, documents, reports>>

IssueClientGrant(c, k, r) == Arrive(c, "GRANT", k, r)
FetchClientProjection(c, k, r) == Arrive(c, "PROJECTION", k, r)
SetClientTrafficMode(c, k, r) == Arrive(c, "MODE", k, r)

\* The handler's future is dropped, or the process stops, between two steps.
Abandon(c) ==
  /\ ~At(c, "IDLE")
  /\ Finish(c)
  /\ UNCHANGED <<clock, device, keys, authorization, documents, reports>>

-----------------------------------------------------------------------------
(***************************************************************************)
(* A Grant: grant_for_device and write_grant                               *)
(***************************************************************************)
\* A request that is stored is answered with its row; otherwise the snapshot of
\* what the device is authorized for, whose key must be the caller's.
GrantSnapshot(c) ==
  /\ At(c, "GRANT")
  /\ IF RequestRows(grants, calls[c].request) = {} /\ Authorized(calls[c].key)
     THEN Become(c, [calls[c] EXCEPT !.step = "GRANT_NODES", !.policy = bound])
     ELSE Finish(c)
  /\ UNCHANGED <<clock, device, keys, authorization, documents, reports>>

\* select_nodes: the first in order.
FreshNodes == {n \in candidates : Cardinality({m \in candidates : m < n}) < MaxNodes}
\* plan_assignment: the nodes of the Grant held, while its lease lasts and every
\* one of them is still a candidate.
ReusableNodes(k, now) ==
  {grants[g].nodes : g \in {h \in ActiveGrant(k, now) :
                              /\ ~LeaseIsOver(now, LeaseUntil(grants[h].issued))
                              /\ grants[h].nodes \subseteq candidates}}

GrantNodes(c) ==
  /\ At(c, "GRANT_NODES")
  /\ LET reusable == ReusableNodes(calls[c].key, calls[c].now)
     IN IF candidates = {} THEN Finish(c)
        ELSE \E nodes \in (IF reusable = {} THEN {FreshNodes} ELSE reusable) :
               Become(c, [calls[c] EXCEPT !.step = "GRANT_SIGN", !.nodes = nodes])
  /\ UNCHANGED <<clock, device, keys, authorization, documents, reports>>

\* next_grant_generation, next_projection_generation: MAX(generation) + 1.
Generations(rows) == {rows[i].generation : i \in DOMAIN rows}
NextGeneration(rows) ==
  CHOOSE n \in {1} \cup {m + 1 : m \in Generations(rows)} : \A m \in Generations(rows) : m < n

\* The generation is read and signed; then write_grant opens its transaction and
\* reads, plainly, that the device and the key are active.
GrantSign(c) ==
  /\ At(c, "GRANT_SIGN")
  /\ IF Active(calls[c].key)
     THEN Become(c, [calls[c] EXCEPT !.step = "GRANT_STORE", !.generation = NextGeneration(grants)])
     ELSE Finish(c)
  /\ UNCHANGED <<clock, device, keys, authorization, documents, reports>>

\* Mutated form of NextFree: the generation the signature claims is believed.
NextFreeOrNot(rows, generation) == TRUE
\* The compare-and-set on the generation.
NextFree(rows, generation) == generation = NextGeneration(rows)

Retry(c, step) ==
  IF calls[c].attempt + 1 < MaxAttempts
  THEN Become(c, [calls[c] EXCEPT !.step = step, !.attempt = @ + 1])
  ELSE Finish(c)

\* Another write_grant holds the rows of the device's Grants, if there were any.
GrantsLocked(c) == \E d \in Calls \ {c} : At(d, "GRANT_INSERT") /\ calls[d].generation > 1

\* write_grant after its checks reads the request's row and the generation FOR
\* UPDATE, waiting for whoever has the rows.
GrantStore(c) ==
  LET call == calls[c] IN
  /\ At(c, "GRANT_STORE")
  /\ ~GrantsLocked(c)
  /\ CASE RequestRows(grants, call.request) # {} -> Finish(c)
       [] RequestRows(grants, call.request) = {} /\ ~NextFree(grants, call.generation) ->
            Retry(c, "GRANT_SIGN")
       [] OTHER -> Become(c, [call EXCEPT !.step = "GRANT_INSERT"])
  /\ UNCHANGED <<clock, device, keys, authorization, documents, reports>>

\* Then it inserts; the request id is unique, the generation is not.
GrantInsert(c) ==
  LET call == calls[c] IN
  /\ At(c, "GRANT_INSERT")
  /\ \/ /\ RequestRows(grants, call.request) # {}
        /\ UNCHANGED grants
     \/ /\ RequestRows(grants, call.request) = {}
        /\ Len(grants) < MaxGrants
        /\ grants' = Append(grants, [key |-> call.key, request |-> call.request,
                                     policy |-> call.policy, nodes |-> call.nodes,
                                     generation |-> call.generation, issued |-> call.now,
                                     status |-> "ACTIVE"])
  /\ Finish(c)
  /\ UNCHANGED <<clock, device, keys, authorization, projections, reports>>

-----------------------------------------------------------------------------
(***************************************************************************)
(* A Projection: projection_for_device and write_projection                *)
(***************************************************************************)
\* A request that is stored is answered with its row (first attempt); otherwise
\* gather_inputs reads the snapshot and the settings.
ProjectionGather(c) ==
  LET call == calls[c] IN
  /\ At(c, "PROJECTION")
  /\ IF /\ call.attempt = 0 => RequestRows(projections, call.request) = {}
        /\ Authorized(call.key)
        /\ settings > 0
        /\ Permits(bound, call.mode)
     THEN Become(c, [call EXCEPT !.step = "PROJECTION_ASSEMBLE", !.policy = bound,
                                 !.settings = settings])
     ELSE Finish(c)
  /\ UNCHANGED <<clock, device, keys, authorization, documents, reports>>

StaleAt(now, g) == Lesser(now + ProjectionTtl, Expires(g))
\* inputs_hash: what a Projection was signed from.
SameInputs(p, call, g) ==
  /\ projections[p].policy = call.policy
  /\ projections[p].settings = call.settings
  /\ projections[p].mode = call.mode
  /\ projections[p].grant = g
\* A poll that finds nothing changed is answered from storage.
AnsweredFromStorage(call, g) ==
  call.attempt = 0 /\ \E p \in CurrentProjection(call.key, call.now) :
    SameInputs(p, call, g) /\ projections[p].stale - call.now >= RefreshMargin

\* Mutated form of Assembles: a Grant of another policy generation will do.
AssemblesAnyPolicy(call, g) ==
  /\ StaleAt(call.now, g) > call.now
  /\ ~LeaseIsOver(call.now, Lesser(LeaseUntil(grants[g].issued), StaleAt(call.now, g)))
\* The rest of gather_inputs (GrantStale) and assemble (NodeLeaseExpired).
Assembles(call, g) ==
  /\ grants[g].policy = call.policy
  /\ StaleAt(call.now, g) > call.now
  /\ ~LeaseIsOver(call.now, Lesser(LeaseUntil(grants[g].issued), StaleAt(call.now, g)))

ProjectionAssemble(c) ==
  LET call == calls[c]
      active == ActiveGrant(call.key, call.now)
  IN /\ At(c, "PROJECTION_ASSEMBLE")
     /\ \/ active = {} /\ Finish(c)
        \/ \E g \in active :
             IF Assembles(call, g) /\ ~AnsweredFromStorage(call, g)
             THEN Become(c, [call EXCEPT !.step = "PROJECTION_SIGN", !.grant = g])
             ELSE Finish(c)
     /\ UNCHANGED <<clock, device, keys, authorization, documents, reports>>

\* The generation is read and signed; then write_projection opens its transaction
\* and reads, plainly, that the Grant is active.
ProjectionSign(c) ==
  LET call == calls[c] IN
  /\ At(c, "PROJECTION_SIGN")
  /\ IF grants[call.grant].status = "ACTIVE"
     THEN Become(c, [call EXCEPT !.step = "PROJECTION_STORE",
                                 !.generation = NextGeneration(projections)])
     ELSE Finish(c)
  /\ UNCHANGED <<clock, device, keys, authorization, documents, reports>>

\* The device row, locked: active and in the mode that was signed.
DeviceStill(mode) == device.status = "ACTIVE" /\ device.mode = mode

\* Mutated form of Superseded: only one of the same key makes room.
SupersededOfKey(k) ==
  [p \in DOMAIN projections |->
     IF projections[p].status = "PUBLISHED" /\ projections[p].key = k
     THEN [projections[p] EXCEPT !.status = "SUPERSEDED"] ELSE projections[p]]
\* Whatever the device has published makes room, of any key.
Superseded(k) ==
  [p \in DOMAIN projections |->
     IF projections[p].status = "PUBLISHED"
     THEN [projections[p] EXCEPT !.status = "SUPERSEDED"] ELSE projections[p]]

ProjectionStore(c) ==
  LET call == calls[c] IN
  /\ At(c, "PROJECTION_STORE")
  /\ \/ /\ ~DeviceStill(call.mode) \/ RequestRows(projections, call.request) # {}
        /\ Finish(c)
        /\ UNCHANGED projections
     \/ /\ DeviceStill(call.mode) /\ RequestRows(projections, call.request) = {}
        /\ ~NextFree(projections, call.generation)
        /\ Retry(c, "PROJECTION")
        /\ UNCHANGED projections
     \/ /\ DeviceStill(call.mode) /\ RequestRows(projections, call.request) = {}
        /\ NextFree(projections, call.generation)
        /\ Len(projections) < MaxProjections
        /\ projections' =
             Append(Superseded(call.key),
                    [key |-> call.key, request |-> call.request, grant |-> call.grant,
                     policy |-> call.policy, settings |-> call.settings, mode |-> call.mode,
                     generation |-> call.generation, issued |-> call.now,
                     stale |-> StaleAt(call.now, call.grant), status |-> "PUBLISHED"])
        /\ Finish(c)
  /\ UNCHANGED <<clock, device, keys, authorization, grants, reports>>

-----------------------------------------------------------------------------
(***************************************************************************)
(* Traffic mode, receipts and the device's own revocation                  *)
(***************************************************************************)
\* The mode asked for is checked against the bound policy, if there is one.
CheckMode(c, mode) ==
  /\ At(c, "MODE")
  /\ mode = "GLOBAL" => Authorized(calls[c].key) /\ Permits(bound, mode)
  /\ Become(c, [calls[c] EXCEPT !.step = "MODE_SET", !.mode = mode])
  /\ UNCHANGED <<clock, device, keys, authorization, documents, reports>>

ModeDecided(r) == modeRequests[r] # "NONE"

\* set_traffic_mode: a request id that was decided is answered with the decision.
SetTrafficMode(c) ==
  LET call == calls[c] IN
  /\ At(c, "MODE_SET")
  /\ IF device.status = "ACTIVE" /\ ~ModeDecided(call.request)
     THEN /\ device' = [device EXCEPT !.mode = call.mode]
          /\ modeRequests' = [modeRequests EXCEPT ![call.request] = call.mode]
     ELSE UNCHANGED <<device, modeRequests>>
  /\ Finish(c)
  /\ UNCHANGED <<clock, keys, authorization, documents, receipts>>

NextState(state) ==
  CASE state = "RECEIVED" -> {"VERIFIED"}
    [] state = "VERIFIED" -> {"STAGED"}
    [] state = "STAGED"   -> {"COMMITTED"}
    [] OTHER              -> {}
\* Mutated form of PermitsReceipt: a later state may be reported at once.
PermitsLater(from, to) == from # "REJECTED"
PermitsReceipt(from, to) ==
  IF to = "REJECTED" THEN from # "REJECTED" ELSE to = from \/ to \in NextState(from)

ReceiptsOf(p) == {i \in DOMAIN receipts : receipts[i].projection = p}
\* The first receipt opens the progression, a later one follows the latest.
Acceptable(p, state) ==
  IF ReceiptsOf(p) = {} THEN state = "RECEIVED"
  ELSE \E i \in ReceiptsOf(p) : /\ \A j \in ReceiptsOf(p) : j <= i
                                /\ PermitsReceipt(receipts[i].state, state)

\* The handler resolved the device, by a key that was active then, and
\* record_receipt asks no more of it: the Projection is one of that key.  A
\* report that is refused, and one repeated under its request id, change nothing.
RecordReceipt(k, p, state) ==
  /\ Len(receipts) < MaxReceipts
  /\ keys[k] # "UNUSED"
  /\ projections[p].key = k
  /\ Acceptable(p, state)
  /\ receipts' = Append(receipts, [projection |-> p, state |-> state])
  /\ UNCHANGED <<clock, device, keys, authorization, documents, modeRequests, calls>>

\* The device is resolved in any state; the key is checked while it is active.
AskRevocation(c, k) ==
  /\ At(c, "IDLE")
  /\ device.status # "ABSENT"
  /\ device.status = "ACTIVE" => keys[k] = "ACTIVE"
  /\ Become(c, [IdleCall EXCEPT !.step = "REVOKE", !.key = k])
  /\ UNCHANGED <<clock, device, keys, authorization, documents, reports>>

\* revoke_device: nothing, unless the device and the key are active now.
RevokeDevice(c) ==
  /\ At(c, "REVOKE")
  /\ IF Active(calls[c].key)
     THEN /\ device' = [device EXCEPT !.status = "REVOKED"]
          /\ keys' = [k \in Keys |-> IF keys[k] = "UNUSED" THEN keys[k] ELSE "REVOKED"]
          /\ grants' = GrantsRevoked
     ELSE UNCHANGED <<device, keys, grants>>
  /\ Become(c, [calls[c] EXCEPT !.step = "SWEEP"])
  /\ UNCHANGED <<clock, authorization, projections, reports>>

\* revoke_projections, a statement of its own; then the device is answered.
RevokeProjections(c) ==
  /\ At(c, "SWEEP")
  /\ projections' = ProjectionsRevokedOf({calls[c].key})
  /\ Finish(c)
  /\ UNCHANGED <<clock, device, keys, authorization, grants, reports>>

-----------------------------------------------------------------------------
Operators ==
  \/ \E global \in BOOLEAN : PublishPolicy(global)
  \/ BindPolicy \/ PublishSettings
  \/ SuspendDevice \/ ActivateDevice
  \/ \E k \in Keys : RotateDeviceKey(k)

Requested(c) ==
  \/ \E k \in Keys, r \in Requests :
       IssueClientGrant(c, k, r) \/ FetchClientProjection(c, k, r) \/ SetClientTrafficMode(c, k, r)
  \/ \E k \in Keys : AskRevocation(c, k)

Served(c) ==
  \/ GrantSnapshot(c) \/ GrantNodes(c) \/ GrantSign(c) \/ GrantStore(c) \/ GrantInsert(c)
  \/ ProjectionGather(c) \/ ProjectionAssemble(c) \/ ProjectionSign(c) \/ ProjectionStore(c)
  \/ \E mode \in Modes : CheckMode(c, mode)
  \/ SetTrafficMode(c)
  \/ RevokeDevice(c) \/ RevokeProjections(c)

Next ==
  \/ \E k \in Keys : RegisterDevice(k)
  \/ Operators
  \/ \E n \in Nodes : NodesChange(n)
  \/ Tick
  \/ \E k \in Keys, p \in DOMAIN projections, state \in ReceiptStates : RecordReceipt(k, p, state)
  \/ \E c \in Calls : Requested(c) \/ Served(c) \/ Abandon(c)

Spec == Init /\ [][Next]_vars

-----------------------------------------------------------------------------
(***************************************************************************)
(* Properties                                                              *)
(***************************************************************************)
\* Rows and calls have the shape of their tables, a device that is not absent
\* has one key in use or has been revoked, and nothing is stored beyond what a
\* handler could have read: the type of the state.
TypeOK ==
  /\ clock \in 0..MaxTime
  /\ device \in [status : {"ABSENT", "ACTIVE", "SUSPENDED", "REVOKED"}, mode : Modes]
  /\ keys \in [Keys -> {"UNUSED", "ACTIVE", "RETIRED", "REVOKED"}]
  /\ Cardinality({k \in Keys : keys[k] = "ACTIVE"}) =
       IF device.status \in {"ACTIVE", "SUSPENDED"} THEN 1 ELSE 0
  /\ policies \in Seq(BOOLEAN) /\ Len(policies) <= MaxPolicies
  /\ bound \in 0..Len(policies)
  /\ settings \in 0..MaxSettings
  /\ candidates \subseteq Nodes
  /\ grants \in Seq(GrantRows) /\ Len(grants) <= MaxGrants
  /\ projections \in Seq(ProjectionRows) /\ Len(projections) <= MaxProjections
  /\ receipts \in Seq([projection : 1..MaxProjections, state : ReceiptStates])
  /\ modeRequests \in [Requests -> Modes \cup {"NONE"}]
  /\ calls \in [Calls -> CallRows]

\* Concurrent issuances, replays and retries leave one Grant and one Projection of
\* a request id, and Projections whose signed generations have no gap and no
\* duplicate (write_grant, write_projection).
SignedOnce ==
  /\ \A rows \in {grants, projections} : \A i \in DOMAIN rows :
       RequestRows(rows, rows[i].request) = {i}
  /\ \A p \in DOMAIN projections : projections[p].generation = p

\* A device has one published Projection at most, and it is the last one signed,
\* whatever keys and requests raced for it (write_projection's supersession).
OnePublished ==
  \A p \in DOMAIN projections :
    projections[p].status = "PUBLISHED" => p = Len(projections)

\* A Projection says what its Grant says: the same key and policy generation, a
\* mode that policy permits, a window inside the Grant's, and nodes whose lease
\* had not ended when it was signed (gather_inputs, assemble).
ProjectionWithinGrant ==
  \A p \in DOMAIN projections :
    LET projection == projections[p]
        grant == grants[projection.grant]
    IN /\ projection.key = grant.key
       /\ projection.policy = grant.policy
       /\ Permits(projection.policy, projection.mode)
       /\ projection.issued < projection.stale
       /\ projection.stale <= grant.issued + GrantTtl
       /\ projection.issued < grant.issued + LeaseSecs

\* A suspended device has no published Projection, not even one that a slow
\* request stored for a key retired meanwhile (set_device_status).
SuspendedUnpublished ==
  device.status = "SUSPENDED" =>
    \A p \in DOMAIN projections : projections[p].status # "PUBLISHED"

\* What is committed was received, verified and staged before, and nothing
\* follows a rejection, whatever is repeated or late (record_receipt).
ReceiptsForward ==
  \A i \in DOMAIN receipts :
    LET before == {j \in ReceiptsOf(receipts[i].projection) : j < i}
        reported == {receipts[j].state : j \in before}
    IN /\ "REJECTED" \notin reported
       /\ receipts[i].state = "COMMITTED" => {"RECEIVED", "VERIFIED", "STAGED"} \subseteq reported

\* client_control.rs: the device row, its keys and its Grants leave ACTIVE in one
\* transaction "so no ordering can leave a live key or a usable Grant behind".
NoUsableGrantBehind ==
  device.status = "REVOKED" =>
    /\ \A k \in Keys : keys[k] # "ACTIVE"
    /\ \A g \in DOMAIN grants : grants[g].status # "ACTIVE"
=============================================================================

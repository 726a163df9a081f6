-------------------------- MODULE DeviceEnrollment --------------------------
(***************************************************************************)
(* How a device gets its identity and keeps it: a join code, the challenge *)
(* reserved with it, the completion that issues device, key and            *)
(* certificate, the replacement of a Node's identity by a recovery code,   *)
(* and the renewal of certificates with its replay window.                 *)
(*                                                                         *)
(*   cloud-api/src/management.rs           operators: create, list, revoke *)
(*   cloud-auth/src/enrollment.rs          challenge, complete, replay     *)
(*   cloud-auth/src/certificate_renewal.rs renew                           *)
(*   cloud-db/src/enrollment*.rs, certificate_renewal.rs,                  *)
(*                device_identity.rs       one transaction each            *)
(*                                                                         *)
(* An installation proves a challenge with a key only it has, so what it   *)
(* sends is repeated by it alone: under the same request id or another,    *)
(* while an earlier request of its own is still being served.  A device    *)
(* and its key are created and revoked together, and are one row here.     *)
(* Validity is an age: a certificate is FRESH, DUE in its last             *)
(* NORMAL_RENEWAL_WINDOW, EXPIRED for EMERGENCY_RENEWAL_WINDOW, then DEAD. *)
(***************************************************************************)
EXTENDS Naturals, FiniteSets

CONSTANTS
  MaxCodes,        \* bound on enrollment_activation_codes
  MaxCertificates, \* bound on device_certificates
  Instances,       \* installations
  RequestIds,      \* completion and renewal request ids
  Calls            \* requests being served at one time

ASSUME LimitsAssumption == MaxCodes \in Nat /\ MaxCertificates \in Nat

VARIABLES
  codes,        \* enrollment_activation_codes
  challenges,   \* enrollment_challenges: at most one per code (unique key)
  devices,      \* devices with device_keys: a code's device has its number
  certificates, \* device_certificates with device_certificate_renewals
  node,         \* the device of the control Node, 0 if there is none
  calls,        \* requests under way, with what each has read
  answers,      \* ghost: <<code, certificate>> told to an installation
  replaced      \* ghost: devices whose Node was given another identity

vars == <<codes, challenges, devices, certificates, node, calls, answers, replaced>>
enrollment == <<codes, challenges>>
identities == <<devices, certificates>>
ghosts == <<answers, replaced>>

-----------------------------------------------------------------------------
(***************************************************************************)
(* State                                                                   *)
(***************************************************************************)
Codes        == 1..MaxCodes
Certificates == 1..MaxCertificates
Devices      == Codes
NoInstance   == "NONE"
NoRequest    == "NO_REQUEST"

CodeRows == [status : {"ABSENT", "ACTIVE", "RESERVED", "CONSUMED", "REVOKED", "EXPIRED"},
             intent : BOOLEAN,     \* site, name, platform and architecture given
             replaces : BOOLEAN,   \* replace_node_id
             bound : Instances \cup {NoInstance},
             lapsed : BOOLEAN]     \* expires_at has passed
ChallengeRows == [status : {"ABSENT", "CHALLENGED", "ISSUED", "EXPIRED"},
                  lapsed : BOOLEAN, request : RequestIds \cup {NoRequest},
                  certificate : 0..MaxCertificates]
Ages == {"FRESH", "DUE", "EXPIRED", "DEAD"}
\* next, request, window: the renewal that superseded the certificate; late: it
\* was renewed after it had expired.
CertificateRows == [device : 0..MaxCodes, status : {"ACTIVE", "SUPERSEDED"}, age : Ages,
                    next : 0..MaxCertificates, request : RequestIds \cup {NoRequest},
                    window : {"NONE", "OPEN", "CLOSED"}, late : BOOLEAN]
\* A request between what it has read and the transaction that it comes to.
CallSteps == {"IDLE", "COMPLETE", "RENEW"}
CallRows == [pc : CallSteps, ref : Nat, request : RequestIds \cup {NoRequest}]

NoCertificate == [device |-> 0, status |-> "ACTIVE", age |-> "FRESH", next |-> 0,
                  request |-> NoRequest, window |-> "NONE", late |-> FALSE]
IdleCall == [pc |-> "IDLE", ref |-> 0, request |-> NoRequest]

Init ==
  /\ codes = [k \in Codes |-> [status |-> "ABSENT", intent |-> FALSE, replaces |-> FALSE,
                               bound |-> NoInstance, lapsed |-> FALSE]]
  /\ challenges = [k \in Codes |-> [status |-> "ABSENT", lapsed |-> FALSE,
                                    request |-> NoRequest, certificate |-> 0]]
  /\ devices = [d \in Devices |-> "ABSENT"]
  /\ certificates = [x \in Certificates |-> NoCertificate]
  /\ node = 0
  /\ calls = [a \in Calls |-> IdleCall]
  /\ answers = {}
  /\ replaced = {}

FreshCode == {k \in Codes : /\ codes[k].status = "ABSENT"
                            /\ \A j \in 1..(k - 1) : codes[j].status # "ABSENT"}
FreshCertificate == {x \in Certificates : /\ certificates[x].device = 0
                                          /\ \A y \in 1..(x - 1) : certificates[y].device # 0}
Open(k) == codes[k].status \in {"ACTIVE", "RESERVED"}
ActiveOf(d) == {x \in Certificates : certificates[x].device = d
                                     /\ certificates[x].status = "ACTIVE"}
At(a, step) == calls[a].pc = step
Finish(a) == calls' = [calls EXCEPT ![a] = IdleCall]

-----------------------------------------------------------------------------
(***************************************************************************)
(* Operators                                                               *)
(***************************************************************************)
\* Mutated form of EarlierRecoveryCodes: one that is reserved is left alone.
ActiveRecoveryCodes == {k \in Codes : codes[k].replaces /\ codes[k].status = "ACTIVE"}
\* The codes that a recovery code for the same Node puts out of use.
EarlierRecoveryCodes == {k \in Codes : codes[k].replaces /\ Open(k)}

\* insert_activation_code
ActivationInserted(k, intent, replaces) ==
  [j \in Codes |->
     IF j = k
     THEN [status |-> "ACTIVE", intent |-> intent, replaces |-> replaces,
           bound |-> NoInstance, lapsed |-> FALSE]
     ELSE IF replaces /\ j \in EarlierRecoveryCodes
     THEN [codes[j] EXCEPT !.status = "REVOKED"]
     ELSE codes[j]]

CreateActivation(intent, replaces) ==
  /\ replaces => intent /\ node # 0
  /\ \E k \in FreshCode : codes' = ActivationInserted(k, intent, replaces)
  /\ UNCHANGED <<challenges, identities, node, calls, ghosts>>

RevokeActivation(k) ==
  /\ Open(k)
  /\ codes' = [codes EXCEPT ![k].status = "REVOKED"]
  /\ UNCHANGED <<challenges, identities, node, calls, ghosts>>

\* The list of codes first marks what has lapsed.
ListActivations ==
  /\ challenges' = [k \in Codes |->
       IF challenges[k].status = "CHALLENGED" /\ challenges[k].lapsed
       THEN [challenges[k] EXCEPT !.status = "EXPIRED"] ELSE challenges[k]]
  /\ codes' = [k \in Codes |->
       IF Open(k) /\ codes[k].lapsed
       THEN [codes[k] EXCEPT !.status = "EXPIRED"] ELSE codes[k]]
  /\ UNCHANGED <<identities, node, calls, ghosts>>

\* A NODE resource is created for an enrolled device, and deleted.
CreateNode(d) ==
  /\ node = 0
  /\ devices[d] = "ACTIVE"
  /\ node' = d
  /\ UNCHANGED <<enrollment, identities, calls, ghosts>>
DeleteNode ==
  /\ node # 0
  /\ node' = 0
  /\ UNCHANGED <<enrollment, identities, calls, ghosts>>

-----------------------------------------------------------------------------
(***************************************************************************)
(* Enrollment                                                              *)
(***************************************************************************)
\* exchange_bootstrap_code: the first installation binds the code; from then on
\* the enrollment credential is derived from the installation's id.
ExchangeBootstrap(k, i) ==
  /\ codes[k].intent
  /\ Open(k) /\ ~codes[k].lapsed
  /\ codes[k].bound = NoInstance
  /\ codes' = IF codes[k].status = "ACTIVE"
              THEN [codes EXCEPT ![k].bound = i, ![k].status = "RESERVED"]
              ELSE codes
  /\ UNCHANGED <<challenges, identities, node, calls, ghosts>>

\* reserve_challenge: a code that is bound is RESERVED already and only for the
\* installation it is bound to.  A repeated request is answered from the row.
Usable(k, i) ==
  /\ ~codes[k].lapsed
  /\ IF codes[k].bound = NoInstance
     THEN codes[k].status = "ACTIVE"
     ELSE codes[k].status = "RESERVED" /\ codes[k].bound = i

ReserveChallenge(k, i) ==
  /\ Usable(k, i)
  /\ challenges[k].status = "ABSENT"
  /\ challenges' = [challenges EXCEPT ![k].status = "CHALLENGED"]
  /\ codes' = [codes EXCEPT ![k].status = "RESERVED"]
  /\ UNCHANGED <<identities, node, calls, ghosts>>

\* load_challenge_for_proof
BeginComplete(a, k, r) ==
  /\ At(a, "IDLE")
  /\ challenges[k].status = "CHALLENGED" /\ ~challenges[k].lapsed
  /\ codes[k].status = "RESERVED"
  /\ calls' = [calls EXCEPT ![a] = [pc |-> "COMPLETE", ref |-> k, request |-> r]]
  /\ UNCHANGED <<enrollment, identities, node, ghosts>>

\* load_issued: only the request id that was issued to is answered.
Issued(k, r) ==
  challenges[k].status = "ISSUED" /\ codes[k].status = "CONSUMED" /\ challenges[k].request = r
ReplayCompletion(k, r) ==
  /\ Issued(k, r)
  /\ answers' = answers \cup {<<k, challenges[k].certificate>>}
  /\ UNCHANGED <<enrollment, identities, node, calls, replaced>>

\* Mutated form of MayReplace: the Node may be gone.
MayReplaceGone(k) == codes[k].replaces /\ node # 0 => devices[node] = "ACTIVE"
\* The identity that a completion under this code takes the Node away from.
\* replace_control_node_identity fails, and the transaction with it, unless the
\* Node is there and its identity is active.
MayReplace(k) == codes[k].replaces => node # 0 /\ devices[node] = "ACTIVE"
Displaced(k) == IF codes[k].replaces THEN {node} ELSE {}

\* Mutated form of DevicesIssued: the identity that was replaced stays active.
DevicesKept(k) == [devices EXCEPT ![k] = "ACTIVE"]
\* devices.status after the completion under code k.
DevicesIssued(k) == [d \in Devices |->
  IF d = k THEN "ACTIVE" ELSE IF d \in Displaced(k) THEN "REVOKED" ELSE devices[d]]

\* Mutated form of Completable: a challenge that was issued is issued again.
CompletableAgain(k) == challenges[k].status \in {"CHALLENGED", "ISSUED"}
                       /\ codes[k].status \in {"RESERVED", "CONSUMED"}
\* What the completing transaction requires of challenge and code.  It compares
\* expires_at with the time read before the challenge was loaded, so a challenge
\* that has lapsed since is completed all the same.
Completable(k) == challenges[k].status = "CHALLENGED" /\ codes[k].status = "RESERVED"

\* complete: device, key, certificate, replacement, code and challenge in one
\* transaction, serialized by the tenant row.
Complete(a) ==
  LET k == calls[a].ref
      r == calls[a].request IN
    /\ At(a, "COMPLETE")
    /\ \A j \in Codes \ {k} : challenges[j].request # r
    /\ Completable(k)
    /\ MayReplace(k)
    /\ \E x \in FreshCertificate :
         /\ certificates' = [y \in Certificates |->
              IF y = x THEN [NoCertificate EXCEPT !.device = k]
              ELSE IF /\ certificates[y].device \in Displaced(k)
                      /\ certificates[y].status = "ACTIVE"
              THEN [certificates[y] EXCEPT !.status = "SUPERSEDED"]
              ELSE certificates[y]]
         /\ challenges' = [challenges EXCEPT ![k].status = "ISSUED", ![k].request = r,
                                             ![k].certificate = x]
         /\ answers' = answers \cup {<<k, x>>}
    /\ devices' = DevicesIssued(k)
    /\ codes' = [codes EXCEPT ![k].status = "CONSUMED"]
    /\ node' = IF codes[k].replaces THEN k ELSE node
    /\ replaced' = replaced \cup Displaced(k)
    /\ Finish(a)

\* The identifiers are new in every attempt, so the fingerprint of a completion
\* that has been issued meanwhile never matches: Conflict, answered by replay.
CompleteConflict(a) ==
  LET k == calls[a].ref
      r == calls[a].request IN
    /\ At(a, "COMPLETE")
    /\ \/ \E j \in Codes \ {k} : challenges[j].request = r
       \/ challenges[k].status = "ISSUED"
    /\ answers' = IF Issued(k, r) THEN answers \cup {<<k, challenges[k].certificate>>} ELSE answers
    /\ Finish(a)
    /\ UNCHANGED <<enrollment, identities, node, replaced>>

-----------------------------------------------------------------------------
(***************************************************************************)
(* Certificates                                                            *)
(***************************************************************************)
\* authenticate: every device route but the renewal.
Authenticates(x) ==
  /\ certificates[x].device # 0
  /\ devices[certificates[x].device] = "ACTIVE"
  /\ certificates[x].status = "ACTIVE"
  /\ certificates[x].age \in {"FRESH", "DUE"}

\* authenticate_for_certificate_renewal: also for EMERGENCY_RENEWAL_WINDOW after
\* the certificate expired, and superseded as long as its renewal is replayed.
AuthenticatesForRenewal(x) ==
  /\ certificates[x].device # 0
  /\ devices[certificates[x].device] = "ACTIVE"
  /\ certificates[x].age # "DEAD"
  /\ certificates[x].status = "ACTIVE" \/ certificates[x].window = "OPEN"

RenewalOf(d, r) == {y \in Certificates : certificates[y].device = d
                                         /\ certificates[y].next # 0
                                         /\ certificates[y].request = r}
\* load_replay: the request is answered with the certificate it was given.
RenewalReplayed(x, r) ==
  \E y \in RenewalOf(certificates[x].device, r) :
    certificates[y].window = "OPEN" /\ x \in {y, certificates[y].next}
\* load_identity, and whether the certificate is due.
RenewalDue(x) ==
  /\ devices[certificates[x].device] = "ACTIVE"
  /\ certificates[x].status = "ACTIVE"
  /\ certificates[x].age \in {"DUE", "EXPIRED"}

\* What a renewal reads before its transaction.  One that is answered by replay,
\* or refused, writes nothing and is not followed.
BeginRenew(a, x, r) ==
  /\ At(a, "IDLE")
  /\ AuthenticatesForRenewal(x)
  /\ ~RenewalReplayed(x, r)
  /\ RenewalDue(x)
  /\ calls' = [calls EXCEPT ![a] = [pc |-> "RENEW", ref |-> x, request |-> r]]
  /\ UNCHANGED <<enrollment, identities, node, ghosts>>

\* Mutated form of Renewed: the old certificate stays active until it expires.
RenewedStillActive(x, y, r) ==
  [certificates[x] EXCEPT !.next = y, !.request = r, !.window = "OPEN",
                          !.late = (certificates[x].age # "DUE")]
\* The row of the superseded certificate with its renewal.
Renewed(x, y, r) ==
  [certificates[x] EXCEPT !.status = "SUPERSEDED", !.next = y, !.request = r,
                          !.window = "OPEN", !.late = (certificates[x].age # "DUE")]

\* renew.  A request id that has been renewed under, and a certificate that is
\* no longer the active one, are answered from the renewal row or refused.  The
\* age is compared with the time the request began.
Renew(a) ==
  LET x == calls[a].ref
      d == certificates[x].device
      r == calls[a].request IN
    /\ At(a, "RENEW")
    /\ IF /\ RenewalOf(d, r) = {}
          /\ devices[d] = "ACTIVE"
          /\ certificates[x].status = "ACTIVE"
       THEN \E y \in FreshCertificate :
              certificates' = [certificates EXCEPT
                ![x] = Renewed(x, y, r), ![y] = [NoCertificate EXCEPT !.device = d]]
       ELSE UNCHANGED certificates
    /\ Finish(a)
    /\ UNCHANGED <<enrollment, devices, node, ghosts>>

-----------------------------------------------------------------------------
(***************************************************************************)
(* Time and faults                                                         *)
(***************************************************************************)
\* Time is followed only as far as something still compares with it.  A
\* challenge expires with its code or before it.
LapseChallenge(k) ==
  /\ challenges[k].status = "CHALLENGED" /\ ~challenges[k].lapsed
  /\ challenges' = [challenges EXCEPT ![k].lapsed = TRUE]
  /\ UNCHANGED <<codes, identities, node, calls, ghosts>>
LapseCode(k) ==
  /\ Open(k) /\ ~codes[k].lapsed
  /\ challenges[k].status = "CHALLENGED" => challenges[k].lapsed
  /\ codes' = [codes EXCEPT ![k].lapsed = TRUE]
  /\ UNCHANGED <<challenges, identities, node, calls, ghosts>>

\* A certificate is younger than the replay window that it came with, and a
\* certificate renewed before its expiry outlives the window by its grace.
Age(x) ==
  /\ AuthenticatesForRenewal(x)
  /\ certificates[x].age = "FRESH" =>
       \A y \in Certificates : certificates[y].next = x => certificates[y].window = "CLOSED"
  /\ certificates[x].age = "EXPIRED" /\ certificates[x].window = "OPEN" =>
       certificates[x].late
  /\ certificates' = [certificates EXCEPT ![x].age =
       CASE @ = "FRESH" -> "DUE" [] @ = "DUE" -> "EXPIRED" [] OTHER -> "DEAD"]
  /\ UNCHANGED <<enrollment, devices, node, calls, ghosts>>
CloseWindow(x) ==
  /\ certificates[x].window = "OPEN"
  /\ certificates' = [certificates EXCEPT ![x].window = "CLOSED"]
  /\ UNCHANGED <<enrollment, devices, node, calls, ghosts>>

\* A request is refused or lost where it stands; its client may try again.
Abandon(a) ==
  /\ ~At(a, "IDLE")
  /\ Finish(a)
  /\ UNCHANGED <<enrollment, identities, node, ghosts>>

Operator ==
  \/ \E i, r \in BOOLEAN : CreateActivation(i, r)
  \/ \E k \in Codes : RevokeActivation(k)
  \/ ListActivations
  \/ \E d \in Devices : CreateNode(d)
  \/ DeleteNode

Enrolling ==
  \/ \E k \in Codes, i \in Instances : ExchangeBootstrap(k, i) \/ ReserveChallenge(k, i)
  \/ \E a \in Calls, k \in Codes, r \in RequestIds : BeginComplete(a, k, r)
  \/ \E k \in Codes, r \in RequestIds : ReplayCompletion(k, r)
  \/ \E a \in Calls : Complete(a) \/ CompleteConflict(a)

Renewing ==
  \/ \E a \in Calls, x \in Certificates, r \in RequestIds : BeginRenew(a, x, r)
  \/ \E a \in Calls : Renew(a)

Passing ==
  \/ \E k \in Codes : LapseChallenge(k) \/ LapseCode(k)
  \/ \E x \in Certificates : Age(x) \/ CloseWindow(x)
  \/ \E a \in Calls : Abandon(a)

Next == Operator \/ Enrolling \/ Renewing \/ Passing

Spec == Init /\ [][Next]_vars

-----------------------------------------------------------------------------
(***************************************************************************)
(* Properties                                                              *)
(***************************************************************************)
\* Every table row and every request has its type.
TypeOK ==
  /\ codes \in [Codes -> CodeRows]
  /\ challenges \in [Codes -> ChallengeRows]
  /\ devices \in [Devices -> {"ABSENT", "ACTIVE", "REVOKED"}]
  /\ certificates \in [Certificates -> CertificateRows]
  /\ node \in 0..MaxCodes
  /\ calls \in [Calls -> CallRows]
  /\ answers \subseteq Codes \X Certificates
  /\ replaced \subseteq Devices

\* However a completion is repeated, under the same request id or another, by
\* requests that overlap, a code yields one identity, and everyone who was
\* answered was told the certificate that the challenge records.
OneIdentityPerCode ==
  \A k \in Codes :
    /\ \A p \in answers : p[1] = k => p[2] = challenges[k].certificate
    /\ (devices[k] # "ABSENT") = (codes[k].status = "CONSUMED")

\* Renewals that race for a certificate, and renewals that race with the
\* replacement of the identity, leave an active device with exactly one active
\* certificate and a revoked one with none.
OneActiveCertificate ==
  \A d \in Devices : Cardinality(ActiveOf(d)) = IF devices[d] = "ACTIVE" THEN 1 ELSE 0

\* The identity that a Node was moved away from is accepted nowhere, also not on
\* the renewal route with a certificate that is in its replay window.
ReplacedIsDead ==
  \A x \in Certificates :
    certificates[x].device \in replaced => ~Authenticates(x) /\ ~AuthenticatesForRenewal(x)

\* A Node is taken over only with the newest recovery code that was made for it:
\* whoever holds an older one, even with its challenge in hand, comes too late.
NewestCodeStep ==
  \A k \in Codes :
    codes[k].replaces /\ codes'[k].status = "CONSUMED" /\ codes[k].status # "CONSUMED"
      => \A j \in (k + 1)..MaxCodes : ~codes[j].replaces
NewestCodeTakesOver == [][NewestCodeStep]_vars
=============================================================================

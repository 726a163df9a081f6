----------------------- MODULE DeviceEnrollmentProofs -----------------------
(***************************************************************************)
(* Proofs about enrollment, recovery and renewal, for any number of codes, *)
(* certificates, installations and requests served at one time.            *)
(***************************************************************************)
EXTENDS DeviceEnrollment, FiniteSetTheorems, TLAPS

USE LimitsAssumption

\* One edited row of the codes.
LEMMA CodeEdit ==
  ASSUME NEW rows \in [Codes -> CodeRows], NEW k \in Codes,
         NEW s \in {"ABSENT", "ACTIVE", "RESERVED", "CONSUMED", "REVOKED", "EXPIRED"},
         NEW b \in BOOLEAN
  PROVE  /\ [rows EXCEPT ![k].status = s] \in [Codes -> CodeRows]
         /\ [rows EXCEPT ![k].lapsed = b] \in [Codes -> CodeRows]
<1>1. ASSUME NEW r \in CodeRows
      PROVE  [r EXCEPT !.status = s] \in CodeRows /\ [r EXCEPT !.lapsed = b] \in CodeRows
  BY DEF CodeRows
<1>2. rows[k] \in CodeRows
  OBVIOUS
<1>3. /\ [rows[k] EXCEPT !.status = s] \in CodeRows
      /\ [rows[k] EXCEPT !.lapsed = b] \in CodeRows
  BY <1>1, <1>2
<1> QED
  BY <1>3

-----------------------------------------------------------------------------
(***************************************************************************)
(* Types                                                                   *)
(***************************************************************************)
\* A completion has a code, a renewal a certificate that was issued; a challenge
\* that was answered records the certificate.
CallInv ==
  \A a \in Calls :
    /\ At(a, "COMPLETE") => calls[a].ref \in Codes /\ calls[a].request \in RequestIds
    /\ At(a, "RENEW") => /\ calls[a].ref \in Certificates /\ calls[a].request \in RequestIds
                         /\ certificates[calls[a].ref].device # 0
IssuedInv ==
  \A k \in Codes : challenges[k].status = "ISSUED" => challenges[k].certificate \in Certificates
TypeInv == TypeOK /\ CallInv /\ IssuedInv

LEMMA TypeInit == Init => TypeInv
<1> SUFFICES ASSUME Init PROVE TypeInv
  OBVIOUS
<1> USE DEF Init
<1>1. TypeOK
  BY DEF TypeOK, CodeRows, ChallengeRows, CertificateRows, CallRows, CallSteps, Ages, NoInstance,
         NoRequest, NoCertificate, IdleCall, Devices, Codes
<1>2. CallInv /\ IssuedInv
  BY DEF CallInv, IssuedInv, At, IdleCall
<1> QED
  BY <1>1, <1>2 DEF TypeInv

\* Rows that a transaction writes.
LEMMA NewRow ==
  ASSUME NEW c \in CertificateRows, NEW d \in 0..MaxCodes
  PROVE  LET e == [c EXCEPT !.device = d] IN
           e \in CertificateRows /\ e.device = d /\ e.status = c.status
BY DEF CertificateRows

LEMMA NewCertificateType ==
  ASSUME NEW d \in Codes
  PROVE  LET e == [NoCertificate EXCEPT !.device = d] IN
           e \in CertificateRows /\ e.device = d /\ e.status = "ACTIVE"
<1>1. NoCertificate \in CertificateRows /\ NoCertificate.status = "ACTIVE"
  BY DEF NoCertificate, CertificateRows, Ages
<1>2. d \in 0..MaxCodes
  BY DEF Codes
<1> QED
  BY <1>1, <1>2, NewRow

\* A step of an operator, of time or of a request that keeps the identities.
LEMMA OperatorType == TypeInv /\ Operator => TypeInv'
<1> SUFFICES ASSUME TypeInv, Operator PROVE TypeInv'
  OBVIOUS
<1> USE DEF TypeInv, enrollment, identities, ghosts
<1>1. ASSUME NEW i \in BOOLEAN, NEW r \in BOOLEAN, CreateActivation(i, r) PROVE TypeInv'
  <2>1. PICK k \in Codes : codes' = ActivationInserted(k, i, r)
    BY <1>1 DEF CreateActivation, FreshCode
  <2>2. codes' \in [Codes -> CodeRows]
    BY <2>1 DEF ActivationInserted, TypeOK, CodeRows, NoInstance
  <2> QED
    BY <1>1, <2>2 DEF CreateActivation, TypeOK, CallInv, IssuedInv, At
<1>2. ASSUME NEW k \in Codes, RevokeActivation(k) PROVE TypeInv'
  <2>1. codes' \in [Codes -> CodeRows]
    BY <1>2 DEF RevokeActivation, TypeOK, CodeRows
  <2> QED
    BY <1>2, <2>1 DEF RevokeActivation, TypeOK, CallInv, IssuedInv, At
<1>3. CASE ListActivations
  <2>1. codes' \in [Codes -> CodeRows]
    <3>1. \A k \in Codes : codes[k] \in CodeRows
      BY DEF TypeOK
    <3>2. ASSUME NEW b \in CodeRows PROVE [b EXCEPT !.status = "EXPIRED"] \in CodeRows
      BY DEF CodeRows
    <3>3. \A k \in Codes : [codes[k] EXCEPT !.status = "EXPIRED"] \in CodeRows
      BY <3>1, <3>2
    <3> QED
      BY <1>3, <3>1, <3>3 DEF ListActivations
  <2>2. challenges' \in [Codes -> ChallengeRows]
    BY <1>3 DEF ListActivations, TypeOK, ChallengeRows
  <2>3. IssuedInv'
    BY <1>3 DEF ListActivations, TypeOK, ChallengeRows, IssuedInv
  <2> QED
    BY <1>3, <2>1, <2>2, <2>3 DEF ListActivations, TypeOK, CallInv, At
<1>4. ASSUME NEW d \in Devices, CreateNode(d) PROVE TypeInv'
  BY <1>4 DEF CreateNode, TypeOK, CallInv, IssuedInv, At, Devices, Codes
<1>5. CASE DeleteNode
  BY <1>5 DEF DeleteNode, TypeOK, CallInv, IssuedInv, At
<1> QED
  BY <1>1, <1>2, <1>3, <1>4, <1>5 DEF Operator

LEMMA EnrollingType == TypeInv /\ Enrolling => TypeInv'
<1> SUFFICES ASSUME TypeInv, Enrolling PROVE TypeInv'
  OBVIOUS
<1> USE DEF TypeInv, enrollment, identities, ghosts
<1>1. ASSUME NEW k \in Codes, NEW i \in Instances, ExchangeBootstrap(k, i) PROVE TypeInv'
  <2>1. codes' \in [Codes -> CodeRows]
    BY <1>1 DEF ExchangeBootstrap, TypeOK, CodeRows
  <2> QED
    BY <1>1, <2>1 DEF ExchangeBootstrap, TypeOK, CallInv, IssuedInv, At
<1>2. ASSUME NEW k \in Codes, NEW i \in Instances, ReserveChallenge(k, i) PROVE TypeInv'
  <2>1. codes' \in [Codes -> CodeRows]
    BY <1>2 DEF ReserveChallenge, TypeOK, CodeRows
  <2>2. challenges' \in [Codes -> ChallengeRows]
    BY <1>2 DEF ReserveChallenge, TypeOK, ChallengeRows
  <2>3. IssuedInv'
    BY <1>2 DEF ReserveChallenge, TypeOK, ChallengeRows, IssuedInv
  <2> QED
    BY <1>2, <2>1, <2>2, <2>3 DEF ReserveChallenge, TypeOK, CallInv, At
<1>3. ASSUME NEW a \in Calls, NEW k \in Codes, NEW r \in RequestIds, BeginComplete(a, k, r) PROVE TypeInv'
  <2>1. calls' \in [Calls -> CallRows]
    BY <1>3 DEF BeginComplete, TypeOK, CallRows, CallSteps, Codes
  <2>2. CallInv'
    BY <1>3 DEF BeginComplete, TypeOK, CallInv, At
  <2> QED
    BY <1>3, <2>1, <2>2 DEF BeginComplete, TypeOK, IssuedInv
<1>4. ASSUME NEW k \in Codes, NEW r \in RequestIds, ReplayCompletion(k, r) PROVE TypeInv'
  <2>1. answers' \subseteq Codes \X Certificates
    BY <1>4 DEF ReplayCompletion, Issued, IssuedInv, TypeOK
  <2> QED
    BY <1>4, <2>1 DEF ReplayCompletion, TypeOK, CallInv, IssuedInv, At
<1>5. ASSUME NEW a \in Calls, Complete(a) PROVE TypeInv'
  <2> DEFINE k == calls[a].ref
             r == calls[a].request
  <2>1. k \in Codes /\ r \in RequestIds
    BY <1>5 DEF Complete, CallInv
  <2>2. PICK x \in FreshCertificate :
         /\ certificates' = [y \in Certificates |->
              IF y = x THEN [NoCertificate EXCEPT !.device = k]
              ELSE IF /\ certificates[y].device \in Displaced(k)
                      /\ certificates[y].status = "ACTIVE"
              THEN [certificates[y] EXCEPT !.status = "SUPERSEDED"]
              ELSE certificates[y]]
         /\ challenges' = [challenges EXCEPT ![k].status = "ISSUED", ![k].request = r,
                                             ![k].certificate = x]
         /\ answers' = answers \cup {<<k, x>>}
    BY <1>5 DEF Complete
  <2>3. x \in Certificates
    BY DEF FreshCertificate
  <2>4. /\ devices' = DevicesIssued(k)
        /\ codes' = [codes EXCEPT ![k].status = "CONSUMED"]
        /\ node' = IF codes[k].replaces THEN k ELSE node
        /\ replaced' = replaced \cup Displaced(k)
        /\ calls' = [calls EXCEPT ![a] = IdleCall]
        /\ MayReplace(k)
    BY <1>5 DEF Complete, Finish
  <2> HIDE DEF k, r
  <2>5. codes' \in [Codes -> CodeRows]
    BY <2>1, <2>4, CodeEdit DEF TypeOK
  <2>6. challenges' \in [Codes -> ChallengeRows] /\ IssuedInv'
    <3> DEFINE c == [challenges[k] EXCEPT !.status = "ISSUED", !.request = r, !.certificate = x]
    <3>1. challenges' = [challenges EXCEPT ![k] = c]
      BY <2>2
    <3>2. c \in ChallengeRows /\ c.certificate = x
      <4> DEFINE b == challenges[k]
      <4>1. b \in ChallengeRows /\ x \in 0..MaxCertificates
        BY <2>1, <2>3 DEF TypeOK, Certificates
      <4>2. c = [b EXCEPT !.status = "ISSUED", !.request = r, !.certificate = x]
        OBVIOUS
      <4> HIDE DEF b, c
      <4> QED
        BY <2>1, <4>1, <4>2 DEF ChallengeRows
    <3> HIDE DEF c
    <3> QED
      BY <2>1, <2>3, <3>1, <3>2 DEF TypeOK, IssuedInv
  <2>7. devices' \in [Devices -> {"ABSENT", "ACTIVE", "REVOKED"}] /\ node' \in 0..MaxCodes
    BY <2>1, <2>4 DEF TypeOK, DevicesIssued, Codes, Devices
  <2>8. certificates' \in [Certificates -> CertificateRows]
    <3>1. [NoCertificate EXCEPT !.device = k] \in CertificateRows
      BY <2>1, NewCertificateType
    <3>2. \A y \in Certificates : [certificates[y] EXCEPT !.status = "SUPERSEDED"] \in CertificateRows
      BY DEF TypeOK, CertificateRows
    <3> QED
      BY <2>2, <3>1, <3>2 DEF TypeOK
  <2>9. \A y \in Certificates : certificates[y].device # 0 => certificates'[y].device # 0
    BY <2>1, <2>2 DEF TypeOK, CertificateRows, NoCertificate, Codes
  <2>10. calls' \in [Calls -> CallRows] /\ CallInv'
    BY <2>4, <2>9 DEF TypeOK, CallRows, CallSteps, IdleCall, CallInv, At
  <2>11. answers' \subseteq Codes \X Certificates
    BY <2>1, <2>2, <2>3 DEF TypeOK
  <2>12. replaced' \subseteq Devices
    BY <2>4 DEF TypeOK, Displaced, MayReplace, Devices, Codes
  <2> QED
    BY <2>5, <2>6, <2>7, <2>8, <2>10, <2>11, <2>12 DEF TypeOK
<1>6. ASSUME NEW a \in Calls, CompleteConflict(a) PROVE TypeInv'
  <2>1. calls' \in [Calls -> CallRows] /\ CallInv'
    BY <1>6 DEF CompleteConflict, Finish, TypeOK, CallRows, CallSteps, IdleCall, CallInv, At
  <2>2. answers' \subseteq Codes \X Certificates
    BY <1>6 DEF CompleteConflict, Issued, IssuedInv, TypeOK, CallInv
  <2> QED
    BY <1>6, <2>1, <2>2 DEF CompleteConflict, TypeOK, IssuedInv
<1> QED
  BY <1>1, <1>2, <1>3, <1>4, <1>5, <1>6 DEF Enrolling

\* A renewal that finds its certificate still active supersedes it by a new one.
LEMMA RenewEffect ==
  ASSUME TypeInv, NEW a \in Calls, Renew(a)
  PROVE  /\ UNCHANGED <<codes, challenges, devices, node, answers, replaced>>
         /\ calls' = [calls EXCEPT ![a] = IdleCall]
         /\ \/ UNCHANGED certificates
            \/ \E x, y \in Certificates :
                 /\ certificates[x].device # 0 /\ certificates[x].status = "ACTIVE"
                 /\ devices[certificates[x].device] = "ACTIVE"
                 /\ certificates[y].device = 0
                 /\ \E e, n \in CertificateRows :
                      /\ e.device = certificates[x].device /\ e.status = "SUPERSEDED"
                      /\ n.device = certificates[x].device /\ n.status = "ACTIVE"
                      /\ certificates' = [certificates EXCEPT ![x] = e, ![y] = n]
<1> DEFINE x == calls[a].ref
           d == certificates[x].device
           r == calls[a].request
<1>1. x \in Certificates /\ r \in RequestIds /\ d # 0
  BY DEF Renew, TypeInv, CallInv
<1>2. UNCHANGED <<codes, challenges, devices, node, answers, replaced>>
      /\ calls' = [calls EXCEPT ![a] = IdleCall]
  BY DEF Renew, Finish, enrollment, ghosts
<1>3. CASE UNCHANGED certificates
  BY <1>2, <1>3
<1>4. CASE certificates' # certificates
  <2>1. devices[d] = "ACTIVE" /\ certificates[x].status = "ACTIVE"
    BY <1>4 DEF Renew
  <2>2. PICK y \in FreshCertificate :
          certificates' = [certificates EXCEPT
                ![x] = Renewed(x, y, r), ![y] = [NoCertificate EXCEPT !.device = d]]
    BY <1>4 DEF Renew
  <2>3. y \in Certificates /\ certificates[y].device = 0
    BY DEF FreshCertificate
  <2>4. certificates[x] \in CertificateRows /\ d \in Codes
    BY <1>1 DEF TypeInv, TypeOK, CertificateRows, Codes
  <2> DEFINE e == Renewed(x, y, r)
             n == [NoCertificate EXCEPT !.device = d]
  <2>5. e \in CertificateRows /\ e.device = d /\ e.status = "SUPERSEDED"
    <3> DEFINE b == certificates[x]
    <3>1. /\ b \in CertificateRows /\ y \in 0..MaxCertificates /\ r \in RequestIds
          /\ (b.age # "DUE") \in BOOLEAN
      BY <1>1, <2>3, <2>4 DEF Certificates
    <3>2. e = [b EXCEPT !.status = "SUPERSEDED", !.next = y, !.request = r,
                        !.window = "OPEN", !.late = (b.age # "DUE")] /\ d = b.device
      BY DEF Renewed
    <3> HIDE DEF b, r, d, e
    <3> QED
      BY <3>1, <3>2 DEF CertificateRows
  <2>6. n \in CertificateRows /\ n.device = d /\ n.status = "ACTIVE"
    BY <2>4, NewCertificateType
  <2> HIDE DEF e, n
  <2> QED
    BY <1>1, <1>2, <2>1, <2>2, <2>3, <2>5, <2>6 DEF e, n
<1> QED
  BY <1>3, <1>4

LEMMA RenewingType == TypeInv /\ Renewing => TypeInv'
<1> SUFFICES ASSUME TypeInv, Renewing PROVE TypeInv'
  OBVIOUS
<1>1. ASSUME NEW a \in Calls, NEW x \in Certificates, NEW r \in RequestIds, BeginRenew(a, x, r) PROVE TypeInv'
  <2>1. calls' \in [Calls -> CallRows]
    BY <1>1 DEF BeginRenew, TypeInv, TypeOK, CallRows, CallSteps, Certificates
  <2>2. CallInv'
    BY <1>1 DEF BeginRenew, AuthenticatesForRenewal, TypeInv, TypeOK, CallInv, At, identities
  <2> QED
    BY <1>1, <2>1, <2>2 DEF BeginRenew, TypeInv, TypeOK, IssuedInv, enrollment, identities, ghosts
<1>2. ASSUME NEW a \in Calls, Renew(a) PROVE TypeInv'
  <2>1. /\ certificates' \in [Certificates -> CertificateRows]
        /\ \A y \in Certificates : certificates[y].device # 0 => certificates'[y].device # 0
    <3>1. CASE UNCHANGED certificates
      BY <3>1 DEF TypeInv, TypeOK
    <3>2. CASE certificates' # certificates
      BY <1>2, <3>2, RenewEffect DEF TypeInv, TypeOK
    <3> QED
      BY <3>1, <3>2
  <2>2. UNCHANGED <<codes, challenges, devices, node, answers, replaced>>
        /\ calls' = [calls EXCEPT ![a] = IdleCall]
    BY <1>2, RenewEffect
  <2>3. calls' \in [Calls -> CallRows] /\ CallInv'
    BY <2>1, <2>2 DEF TypeInv, TypeOK, CallRows, CallSteps, IdleCall, CallInv, At
  <2> QED
    BY <2>1, <2>2, <2>3 DEF TypeInv, TypeOK, IssuedInv
<1> QED
  BY <1>1, <1>2 DEF Renewing

\* Time changes neither the device nor the status of a certificate.
LEMMA PassingCertificates ==
  ASSUME TypeInv, NEW x \in Certificates, Age(x) \/ CloseWindow(x)
  PROVE  /\ certificates' \in [Certificates -> CertificateRows]
         /\ \A y \in Certificates : /\ certificates'[y].device = certificates[y].device
                                    /\ certificates'[y].status = certificates[y].status
         /\ UNCHANGED <<codes, challenges, devices, node, calls, answers, replaced>>
<1>1. CASE Age(x)
  <2>1. PICK age \in Ages : certificates' = [certificates EXCEPT ![x].age = age]
    BY <1>1 DEF Age, Ages
  <2> QED
    BY <1>1, <2>1 DEF Age, TypeInv, TypeOK, CertificateRows, enrollment, ghosts
<1>2. CASE CloseWindow(x)
  BY <1>2 DEF CloseWindow, TypeInv, TypeOK, CertificateRows, enrollment, ghosts
<1> QED
  BY <1>1, <1>2

LEMMA PassingType == TypeInv /\ Passing => TypeInv'
<1> SUFFICES ASSUME TypeInv, Passing PROVE TypeInv'
  OBVIOUS
<1>1. ASSUME NEW k \in Codes, LapseChallenge(k) PROVE TypeInv'
  <2>1. challenges' \in [Codes -> ChallengeRows] /\ IssuedInv'
    BY <1>1 DEF LapseChallenge, TypeInv, TypeOK, ChallengeRows, IssuedInv
  <2> QED
    BY <1>1, <2>1 DEF LapseChallenge, TypeInv, TypeOK, CallInv, At, identities, ghosts
<1>2. ASSUME NEW k \in Codes, LapseCode(k) PROVE TypeInv'
  <2>1. codes' \in [Codes -> CodeRows]
    BY <1>2, CodeEdit DEF LapseCode, TypeInv, TypeOK
  <2> QED
    BY <1>2, <2>1 DEF LapseCode, TypeInv, TypeOK, CallInv, IssuedInv, At, identities, ghosts
<1>3. ASSUME NEW x \in Certificates, Age(x) \/ CloseWindow(x) PROVE TypeInv'
  BY <1>3, PassingCertificates DEF TypeInv, TypeOK, CallInv, IssuedInv, At
<1>4. ASSUME NEW a \in Calls, Abandon(a) PROVE TypeInv'
  <2>1. calls' \in [Calls -> CallRows] /\ CallInv'
    BY <1>4 DEF Abandon, Finish, TypeInv, TypeOK, CallRows, CallSteps, IdleCall, CallInv, At, identities
  <2> QED
    BY <1>4, <2>1 DEF Abandon, TypeInv, TypeOK, IssuedInv, enrollment, identities, ghosts
<1> QED
  BY <1>1, <1>2, <1>3, <1>4 DEF Passing

LEMMA TypeStep == TypeInv /\ [Next]_vars => TypeInv'
<1>1. TypeInv /\ UNCHANGED vars => TypeInv'
  BY DEF vars, TypeInv, TypeOK, CallInv, IssuedInv, At
<1> QED
  BY <1>1, OperatorType, EnrollingType, RenewingType, PassingType DEF Next

LEMMA TypeInductive == Spec => []TypeInv
BY TypeInit, TypeStep, PTL DEF Spec

\* The rows of enrollment and renewal, and the requests under way, have their
\* types whatever is asked and repeated; in particular a completion is answered
\* with a certificate that exists.
THEOREM TypeCorrect == Spec => []TypeOK
BY TypeInductive, PTL DEF TypeInv

-----------------------------------------------------------------------------
(***************************************************************************)
(* What the steps do to identities                                         *)
(***************************************************************************)
\* A completion, in terms of the rows it changes.
LEMMA CompleteEffect ==
  ASSUME TypeInv, NEW a \in Calls, Complete(a)
  PROVE  \E k \in Codes, x \in Certificates :
           /\ codes[k].status = "RESERVED"
           /\ MayReplace(k)
           /\ certificates[x].device = 0
           /\ codes' = [codes EXCEPT ![k].status = "CONSUMED"]
           /\ devices' = DevicesIssued(k)
           /\ answers' = answers \cup {<<k, x>>}
           /\ replaced' = replaced \cup Displaced(k)
           /\ \A j \in Codes : challenges'[j].certificate = IF j = k THEN x ELSE challenges[j].certificate
           /\ \A y \in Certificates :
                /\ certificates'[y].device = IF y = x THEN k ELSE certificates[y].device
                /\ certificates'[y].status =
                     IF y = x THEN "ACTIVE"
                     ELSE IF certificates[y].device \in Displaced(k) THEN "SUPERSEDED"
                     ELSE certificates[y].status
<1> DEFINE k == calls[a].ref
           r == calls[a].request
<1>1. k \in Codes /\ r \in RequestIds
  BY DEF Complete, TypeInv, CallInv
<1>2. PICK x \in FreshCertificate :
         /\ certificates' = [y \in Certificates |->
              IF y = x THEN [NoCertificate EXCEPT !.device = k]
              ELSE IF /\ certificates[y].device \in Displaced(k)
                      /\ certificates[y].status = "ACTIVE"
              THEN [certificates[y] EXCEPT !.status = "SUPERSEDED"]
              ELSE certificates[y]]
         /\ challenges' = [challenges EXCEPT ![k].status = "ISSUED", ![k].request = r,
                                             ![k].certificate = x]
         /\ answers' = answers \cup {<<k, x>>}
  BY DEF Complete
<1>3. x \in Certificates /\ certificates[x].device = 0
  BY DEF FreshCertificate
<1>4. /\ devices' = DevicesIssued(k)
      /\ codes' = [codes EXCEPT ![k].status = "CONSUMED"]
      /\ replaced' = replaced \cup Displaced(k)
      /\ MayReplace(k) /\ codes[k].status = "RESERVED"
  BY DEF Complete, Completable
<1> HIDE DEF k, r
<1>5. \A j \in Codes : challenges'[j].certificate = IF j = k THEN x ELSE challenges[j].certificate
  <2> DEFINE b == challenges[k]
             c == [b EXCEPT !.status = "ISSUED", !.request = r, !.certificate = x]
  <2>1. challenges' = [challenges EXCEPT ![k] = c]
    BY <1>2
  <2>2. b \in ChallengeRows
    BY <1>1 DEF TypeInv, TypeOK
  <2>3. c.certificate = x
    <3> HIDE DEF b
    <3> QED
      BY <2>2 DEF ChallengeRows
  <2> HIDE DEF c
  <2> QED
    BY <1>1, <2>1, <2>3 DEF TypeInv, TypeOK
<1>6. ASSUME NEW y \in Certificates
      PROVE  /\ certificates'[y].device = IF y = x THEN k ELSE certificates[y].device
             /\ certificates'[y].status =
                  IF y = x THEN "ACTIVE"
                  ELSE IF certificates[y].device \in Displaced(k) THEN "SUPERSEDED"
                  ELSE certificates[y].status
  <2>1. CASE y = x
    BY <1>1, <1>2, <2>1, NewCertificateType
  <2>2. CASE y # x
    <3> DEFINE b == certificates[y]
    <3>1. b \in CertificateRows
      BY DEF TypeInv, TypeOK
    <3>2. certificates'[y] = IF b.device \in Displaced(k) /\ b.status = "ACTIVE"
                             THEN [b EXCEPT !.status = "SUPERSEDED"] ELSE b
      BY <1>2, <2>2
    <3>3. [b EXCEPT !.status = "SUPERSEDED"].status = "SUPERSEDED"
          /\ [b EXCEPT !.status = "SUPERSEDED"].device = b.device
          /\ b.status \in {"ACTIVE", "SUPERSEDED"}
      <4> HIDE DEF b
      <4> QED
        BY <3>1 DEF CertificateRows
    <3> QED
      BY <2>2, <3>2, <3>3
  <2> QED
    BY <2>1, <2>2
<1> QED
  BY <1>1, <1>2, <1>3, <1>4, <1>5, <1>6

\* Steps that issue nothing and create no code.
Quiet ==
  /\ UNCHANGED <<devices, replaced>>
  /\ \A y \in Certificates : /\ certificates'[y].device = certificates[y].device
                             /\ certificates'[y].status = certificates[y].status
  /\ \A k \in Codes :
       /\ codes'[k].replaces = codes[k].replaces
       /\ \/ codes'[k].status = codes[k].status
          \/ Open(k) /\ codes'[k].status \in {"RESERVED", "REVOKED", "EXPIRED"}
       /\ challenges'[k].certificate = challenges[k].certificate
  /\ \A p \in answers' :
       p \in answers \/ \E k \in Codes : p = <<k, challenges[k].certificate>> /\ codes[k].status = "CONSUMED"

LEMMA StepKinds ==
  ASSUME TypeInv, [Next]_vars
  PROVE  \/ \E a \in Calls : Complete(a)
         \/ \E a \in Calls : Renew(a)
         \/ \E i, r \in BOOLEAN : CreateActivation(i, r)
         \/ Quiet
<1> USE DEF Quiet, TypeInv, TypeOK, enrollment, identities, ghosts
<1>1. CASE Operator
  <2>1. ASSUME NEW k \in Codes, RevokeActivation(k) PROVE Quiet
    BY <2>1 DEF RevokeActivation, Open, CodeRows
  <2>2. CASE ListActivations
    BY <2>2 DEF ListActivations, Open, CodeRows, ChallengeRows
  <2>3. ASSUME NEW d \in Devices, CreateNode(d) PROVE Quiet
    BY <2>3 DEF CreateNode
  <2>4. CASE DeleteNode
    BY <2>4 DEF DeleteNode
  <2> QED
    BY <1>1, <2>1, <2>2, <2>3, <2>4 DEF Operator
<1>2. CASE Enrolling
  <2>1. ASSUME NEW k \in Codes, NEW i \in Instances, ExchangeBootstrap(k, i) PROVE Quiet
    <3>1. CASE codes[k].status = "ACTIVE"
      <4> DEFINE b == codes[k]
                 c == [b EXCEPT !.bound = i, !.status = "RESERVED"]
      <4>1. codes' = [codes EXCEPT ![k] = c]
        BY <2>1, <3>1 DEF ExchangeBootstrap
      <4>2. b \in CodeRows
        OBVIOUS
      <4>3. c.status = "RESERVED" /\ c.replaces = b.replaces
        <5> HIDE DEF b
        <5> QED
          BY <4>2 DEF CodeRows
      <4> HIDE DEF c
      <4> QED
        BY <2>1, <3>1, <4>1, <4>3 DEF ExchangeBootstrap, Open
    <3>2. CASE codes[k].status # "ACTIVE"
      BY <2>1, <3>2 DEF ExchangeBootstrap
    <3> QED
      BY <3>1, <3>2
  <2>2. ASSUME NEW k \in Codes, NEW i \in Instances, ReserveChallenge(k, i) PROVE Quiet
    BY <2>2 DEF ReserveChallenge, Usable, Open, CodeRows, ChallengeRows
  <2>3. ASSUME NEW a \in Calls, NEW k \in Codes, NEW r \in RequestIds, BeginComplete(a, k, r) PROVE Quiet
    BY <2>3 DEF BeginComplete
  <2>4. ASSUME NEW k \in Codes, NEW r \in RequestIds, ReplayCompletion(k, r) PROVE Quiet
    BY <2>4 DEF ReplayCompletion, Issued
  <2>5. ASSUME NEW a \in Calls, CompleteConflict(a) PROVE Quiet
    BY <2>5 DEF CompleteConflict, Issued, CallInv
  <2> QED
    BY <1>2, <2>1, <2>2, <2>3, <2>4, <2>5 DEF Enrolling
<1>3. CASE Renewing
  <2>1. ASSUME NEW a \in Calls, NEW x \in Certificates, NEW r \in RequestIds, BeginRenew(a, x, r) PROVE Quiet
    BY <2>1 DEF BeginRenew
  <2> QED
    BY <1>3, <2>1 DEF Renewing
<1>4. CASE Passing
  <2>1. ASSUME NEW k \in Codes, LapseChallenge(k) PROVE Quiet
    BY <2>1 DEF LapseChallenge, ChallengeRows
  <2>2. ASSUME NEW k \in Codes, LapseCode(k) PROVE Quiet
    BY <2>2 DEF LapseCode, CodeRows
  <2>3. ASSUME NEW x \in Certificates, Age(x) \/ CloseWindow(x) PROVE Quiet
    BY <2>3, PassingCertificates
  <2>4. ASSUME NEW a \in Calls, Abandon(a) PROVE Quiet
    BY <2>4 DEF Abandon
  <2> QED
    BY <1>4, <2>1, <2>2, <2>3, <2>4 DEF Passing
<1>5. CASE UNCHANGED vars
  BY <1>5 DEF vars
<1> QED
  BY <1>1, <1>2, <1>3, <1>4, <1>5 DEF Next

\* A code is created where there was none, and a recovery code revokes those that
\* are open.
LEMMA CreateEffect ==
  ASSUME TypeInv, NEW i \in BOOLEAN, NEW r \in BOOLEAN, CreateActivation(i, r)
  PROVE  /\ UNCHANGED <<devices, replaced, certificates, challenges, answers>>
         /\ \E k \in FreshCode :
              /\ codes'[k].status = "ACTIVE" /\ codes'[k].replaces = r
              /\ \A j \in Codes \ {k} :
                   /\ codes'[j].replaces = codes[j].replaces
                   /\ codes'[j].status = IF r /\ codes[j].replaces /\ Open(j) THEN "REVOKED" ELSE codes[j].status
<1>1. UNCHANGED <<devices, replaced, certificates, challenges, answers>>
  BY DEF CreateActivation, identities, ghosts
<1>2. PICK k \in FreshCode : codes' = ActivationInserted(k, i, r)
  BY DEF CreateActivation
<1>3. k \in Codes
  BY DEF FreshCode
<1>4. codes'[k].status = "ACTIVE" /\ codes'[k].replaces = r
  BY <1>2, <1>3 DEF ActivationInserted
<1>5. ASSUME NEW j \in Codes \ {k}
      PROVE  /\ codes'[j].replaces = codes[j].replaces
             /\ codes'[j].status = IF r /\ codes[j].replaces /\ Open(j) THEN "REVOKED" ELSE codes[j].status
  <2>1. codes[j] \in CodeRows
    BY DEF TypeInv, TypeOK
  <2>2. codes'[j] = IF r /\ codes[j].replaces /\ Open(j) THEN [codes[j] EXCEPT !.status = "REVOKED"] ELSE codes[j]
    BY <1>2, <1>5 DEF ActivationInserted, EarlierRecoveryCodes
  <2> QED
    BY <2>1, <2>2 DEF CodeRows
<1> QED
  BY <1>1, <1>2, <1>4, <1>5

-----------------------------------------------------------------------------
(***************************************************************************)
(* One identity per code                                                   *)
(***************************************************************************)
\* Who was answered was answered for a code that is used up, and that is for ever.
IdentityInv ==
  /\ \A p \in answers : codes[p[1]].status = "CONSUMED" /\ p[2] = challenges[p[1]].certificate
  /\ \A k \in Codes : devices[k] # "ABSENT" <=> codes[k].status = "CONSUMED"
\* A device that was replaced is revoked.
ReplacedInv == \A d \in replaced : devices[d] = "REVOKED"

LEMMA CompleteDevices ==
  ASSUME TypeInv, IdentityInv, NEW k \in Codes, codes[k].status = "RESERVED", MayReplace(k),
         devices' = DevicesIssued(k)
  PROVE  /\ devices[k] = "ABSENT" /\ devices'[k] = "ACTIVE" /\ k \notin Displaced(k)
         /\ Displaced(k) \subseteq Devices
         /\ \A d \in Displaced(k) : devices[d] = "ACTIVE" /\ devices'[d] = "REVOKED"
         /\ \A d \in Devices \ ({k} \cup Displaced(k)) : devices'[d] = devices[d]
BY DEF TypeInv, TypeOK, IdentityInv, MayReplace, Displaced, DevicesIssued, Devices, Codes

LEMMA IdentityStep == TypeInv /\ IdentityInv /\ ReplacedInv /\ [Next]_vars => IdentityInv' /\ ReplacedInv'
<1> SUFFICES ASSUME TypeInv, IdentityInv, ReplacedInv, [Next]_vars PROVE IdentityInv' /\ ReplacedInv'
  OBVIOUS
<1>0. answers \subseteq Codes \X Certificates
  BY DEF TypeInv, TypeOK
<1>1. ASSUME NEW a \in Calls, Complete(a) PROVE IdentityInv' /\ ReplacedInv'
  <2>1. PICK k \in Codes, x \in Certificates :
           /\ codes[k].status = "RESERVED" /\ MayReplace(k)
           /\ codes' = [codes EXCEPT ![k].status = "CONSUMED"]
           /\ devices' = DevicesIssued(k)
           /\ answers' = answers \cup {<<k, x>>}
           /\ replaced' = replaced \cup Displaced(k)
           /\ \A j \in Codes : challenges'[j].certificate = IF j = k THEN x ELSE challenges[j].certificate
    BY <1>1, CompleteEffect
  <2>2. \A j \in Codes : codes'[j].status = IF j = k THEN "CONSUMED" ELSE codes[j].status
    BY <2>1 DEF TypeInv, TypeOK, CodeRows
  <2>3. ASSUME NEW p \in answers' PROVE codes'[p[1]].status = "CONSUMED" /\ p[2] = challenges'[p[1]].certificate
    <3>1. CASE p = <<k, x>>
      BY <2>1, <2>2, <3>1
    <3>2. CASE p \in answers
      BY <1>0, <2>1, <2>2, <3>2 DEF IdentityInv
    <3> QED
      BY <2>1, <2>3, <3>1, <3>2
  <2>4. ASSUME NEW j \in Codes PROVE devices'[j] # "ABSENT" <=> codes'[j].status = "CONSUMED"
    BY <2>1, <2>2, CompleteDevices DEF IdentityInv, Devices
  <2>5. ReplacedInv'
    BY <2>1, CompleteDevices DEF ReplacedInv, TypeInv, TypeOK
  <2> QED
    BY <2>3, <2>4, <2>5 DEF IdentityInv
<1>2. ASSUME NEW a \in Calls, Renew(a) PROVE IdentityInv' /\ ReplacedInv'
  BY <1>2, RenewEffect DEF IdentityInv, ReplacedInv
<1>3. ASSUME NEW i \in BOOLEAN, NEW r \in BOOLEAN, CreateActivation(i, r) PROVE IdentityInv' /\ ReplacedInv'
  <2>1. UNCHANGED <<devices, replaced, challenges, answers>>
    BY <1>3, CreateEffect
  <2>2. \A k \in Codes : codes[k].status = "CONSUMED" <=> codes'[k].status = "CONSUMED"
    BY <1>3, CreateEffect DEF FreshCode, Open
  <2> QED
    BY <1>0, <2>1, <2>2 DEF IdentityInv, ReplacedInv
<1>4. CASE Quiet
  <2>1. \A k \in Codes : codes[k].status = "CONSUMED" <=> codes'[k].status = "CONSUMED"
    BY <1>4 DEF Quiet, Open
  <2>2. ASSUME NEW p \in answers' PROVE codes'[p[1]].status = "CONSUMED" /\ p[2] = challenges'[p[1]].certificate
    <3>1. CASE p \in answers
      BY <1>0, <1>4, <2>1, <3>1 DEF IdentityInv, Quiet
    <3>2. ASSUME NEW k \in Codes, p = <<k, challenges[k].certificate>>, codes[k].status = "CONSUMED"
          PROVE  codes'[p[1]].status = "CONSUMED" /\ p[2] = challenges'[p[1]].certificate
      BY <1>4, <2>1, <3>2 DEF Quiet
    <3> QED
      BY <1>4, <2>2, <3>1, <3>2 DEF Quiet
  <2> QED
    BY <1>4, <2>1, <2>2 DEF IdentityInv, ReplacedInv, Quiet
<1> QED
  BY <1>1, <1>2, <1>3, <1>4, StepKinds

LEMMA IdentityInductive == Spec => [](TypeInv /\ IdentityInv /\ ReplacedInv)
<1>1. Init => IdentityInv /\ ReplacedInv
  BY DEF Init, IdentityInv, ReplacedInv, Devices
<1> QED
  BY <1>1, TypeInit, TypeStep, IdentityStep, PTL DEF Spec

\* However often a completion is repeated and whichever requests overlap, a code
\* yields one identity and every answer names the certificate of that identity.
THEOREM CodesYieldOneIdentity == Spec => []OneIdentityPerCode
<1>1. TypeInv /\ IdentityInv => OneIdentityPerCode
  BY DEF IdentityInv, OneIdentityPerCode
<1> QED
  BY <1>1, IdentityInductive, PTL

\* The identity that a Node was moved away from is accepted on no route, renewal
\* and its replay window included: its device is revoked for ever.
THEOREM ReplacedIdentitiesAreDead == Spec => []ReplacedIsDead
<1>1. ReplacedInv => ReplacedIsDead
  BY DEF ReplacedInv, ReplacedIsDead, Authenticates, AuthenticatesForRenewal
<1> QED
  BY <1>1, IdentityInductive, PTL

-----------------------------------------------------------------------------
(***************************************************************************)
(* One active certificate                                                  *)
(***************************************************************************)
\* An active certificate belongs to an active device, a device has no two, and an
\* active device has one.
CertificateInv ==
  /\ \A x \in Certificates :
       certificates[x].device # 0 /\ certificates[x].status = "ACTIVE"
         => devices[certificates[x].device] = "ACTIVE"
  /\ \A x, y \in Certificates :
       /\ certificates[x].device # 0 /\ certificates[x].device = certificates[y].device
       /\ certificates[x].status = "ACTIVE" /\ certificates[y].status = "ACTIVE"
       => x = y
  /\ \A d \in Devices : devices[d] = "ACTIVE" =>
       \E x \in Certificates : certificates[x].device = d /\ certificates[x].status = "ACTIVE"

\* Devices are known by their code, so a certificate that was issued has a device.
LEMMA CertificateDevice ==
  ASSUME TypeInv, NEW x \in Certificates, certificates[x].device # 0
  PROVE  certificates[x].device \in Devices
BY DEF TypeInv, TypeOK, CertificateRows, Devices, Codes

LEMMA CertificateStep ==
  TypeInv /\ IdentityInv /\ CertificateInv /\ [Next]_vars => CertificateInv'
<1> SUFFICES ASSUME TypeInv, IdentityInv, CertificateInv, [Next]_vars PROVE CertificateInv'
  OBVIOUS
<1>1. ASSUME NEW a \in Calls, Complete(a) PROVE CertificateInv'
  <2>1. PICK k \in Codes, x \in Certificates :
           /\ codes[k].status = "RESERVED" /\ MayReplace(k)
           /\ certificates[x].device = 0
           /\ devices' = DevicesIssued(k)
           /\ \A y \in Certificates :
                /\ certificates'[y].device = IF y = x THEN k ELSE certificates[y].device
                /\ certificates'[y].status =
                     IF y = x THEN "ACTIVE"
                     ELSE IF certificates[y].device \in Displaced(k) THEN "SUPERSEDED"
                     ELSE certificates[y].status
    BY <1>1, CompleteEffect
  <2>2. /\ devices[k] = "ABSENT" /\ devices'[k] = "ACTIVE" /\ k \notin Displaced(k)
        /\ \A d \in Displaced(k) : devices[d] = "ACTIVE" /\ devices'[d] = "REVOKED"
        /\ \A d \in Devices \ ({k} \cup Displaced(k)) : devices'[d] = devices[d]
    BY <2>1, CompleteDevices
  \* What is active afterwards is the new certificate, or was active before and
  \* belongs to another device.
  <2>3. ASSUME NEW y \in Certificates, certificates'[y].device # 0, certificates'[y].status = "ACTIVE", y # x
        PROVE  /\ certificates'[y].device = certificates[y].device
               /\ certificates[y].status = "ACTIVE" /\ certificates[y].device \in Devices
               /\ certificates[y].device # k /\ certificates[y].device \notin Displaced(k)
    <3>1. /\ certificates'[y].device = certificates[y].device
          /\ certificates[y].status = "ACTIVE" /\ certificates[y].device \notin Displaced(k)
      BY <2>1, <2>3
    <3>2. certificates[y].device # 0 /\ devices[certificates[y].device] = "ACTIVE"
      BY <2>3, <3>1 DEF CertificateInv
    <3> QED
      BY <2>2, <3>1, <3>2, CertificateDevice
  <2>4. ASSUME NEW y \in Certificates, certificates'[y].device # 0, certificates'[y].status = "ACTIVE"
        PROVE  devices'[certificates'[y].device] = "ACTIVE"
    <3>1. CASE y = x
      BY <2>1, <2>2, <3>1
    <3>2. CASE y # x
      BY <2>2, <2>3, <2>4, <3>2 DEF CertificateInv
    <3> QED
      BY <3>1, <3>2
  <2>5. ASSUME NEW y \in Certificates, NEW z \in Certificates,
               certificates'[y].device # 0, certificates'[y].device = certificates'[z].device,
               certificates'[y].status = "ACTIVE", certificates'[z].status = "ACTIVE"
        PROVE  y = z
    <3>1. CASE y # x /\ z # x
      BY <2>3, <2>5, <3>1 DEF CertificateInv
    <3>2. CASE y = x \/ z = x
      BY <2>1, <2>3, <2>5, <3>2
    <3> QED
      BY <3>1, <3>2
  <2>6. ASSUME NEW d \in Devices, devices'[d] = "ACTIVE"
        PROVE  \E y \in Certificates : certificates'[y].device = d /\ certificates'[y].status = "ACTIVE"
    <3>1. CASE d = k
      BY <2>1, <3>1
    <3>2. CASE d # k
      <4>1. devices[d] = "ACTIVE" /\ d \notin Displaced(k) /\ d # 0
        BY <2>2, <2>6, <3>2 DEF Devices, Codes
      <4>2. PICK y \in Certificates : certificates[y].device = d /\ certificates[y].status = "ACTIVE"
        BY <4>1 DEF CertificateInv
      <4> QED
        BY <2>1, <4>1, <4>2
    <3> QED
      BY <3>1, <3>2
  <2> QED
    BY <2>4, <2>5, <2>6 DEF CertificateInv
<1>2. ASSUME NEW a \in Calls, Renew(a) PROVE CertificateInv'
  <2>1. UNCHANGED devices
    BY <1>2, RenewEffect
  <2>2. CASE UNCHANGED certificates
    BY <2>1, <2>2 DEF CertificateInv
  <2>3. CASE certificates' # certificates
    <3>1. PICK x \in Certificates, y \in Certificates :
                 /\ certificates[x].device # 0 /\ certificates[x].status = "ACTIVE"
                 /\ devices[certificates[x].device] = "ACTIVE"
                 /\ certificates[y].device = 0
                 /\ \E e, n \in CertificateRows :
                      /\ e.device = certificates[x].device /\ e.status = "SUPERSEDED"
                      /\ n.device = certificates[x].device /\ n.status = "ACTIVE"
                      /\ certificates' = [certificates EXCEPT ![x] = e, ![y] = n]
      BY <1>2, <2>3, RenewEffect
    <3>2. \A z \in Certificates :
            /\ certificates'[z].device = IF z = y THEN certificates[x].device ELSE certificates[z].device
            /\ certificates'[z].status = IF z = y THEN "ACTIVE" ELSE IF z = x THEN "SUPERSEDED"
                                         ELSE certificates[z].status
      BY <3>1 DEF TypeInv, TypeOK
    <3>3. ASSUME NEW z \in Certificates, certificates'[z].device # 0, certificates'[z].status = "ACTIVE"
          PROVE  devices'[certificates'[z].device] = "ACTIVE"
      <4>1. CASE z = y
        BY <2>1, <3>1, <3>2, <4>1
      <4>2. CASE z # y
        <5>1. certificates'[z].device = certificates[z].device /\ certificates[z].status = "ACTIVE"
          BY <3>2, <3>3, <4>2
        <5> QED
          BY <2>1, <3>3, <5>1 DEF CertificateInv
      <4> QED
        BY <4>1, <4>2
    <3>4. ASSUME NEW z \in Certificates, NEW w \in Certificates,
                 certificates'[z].device # 0, certificates'[z].device = certificates'[w].device,
                 certificates'[z].status = "ACTIVE", certificates'[w].status = "ACTIVE"
          PROVE  z = w
      <4>1. CASE z # y /\ w # y
        BY <3>2, <3>4, <4>1 DEF CertificateInv
      <4>2. ASSUME NEW v \in Certificates, v # y, certificates'[v].device = certificates[x].device
            PROVE  certificates'[v].status # "ACTIVE"
        <5>1. CASE v = x
          BY <3>2, <4>2, <5>1
        <5>2. CASE v # x
          <6>1. certificates[v].device = certificates[x].device /\ certificates'[v].status = certificates[v].status
            BY <3>2, <4>2, <5>2
          <6> QED
            BY <3>1, <5>2, <6>1 DEF CertificateInv
        <5> QED
          BY <5>1, <5>2
      <4> QED
        BY <3>2, <3>4, <4>1, <4>2
    <3>5. ASSUME NEW d \in Devices, devices'[d] = "ACTIVE"
          PROVE  \E z \in Certificates : certificates'[z].device = d /\ certificates'[z].status = "ACTIVE"
      <4>1. CASE d = certificates[x].device
        BY <3>2, <4>1
      <4>2. CASE d # certificates[x].device
        <5>1. PICK z \in Certificates : certificates[z].device = d /\ certificates[z].status = "ACTIVE"
          BY <2>1, <3>5 DEF CertificateInv
        <5>2. d # 0
          BY DEF Devices, Codes
        <5> QED
          BY <3>1, <3>2, <4>2, <5>1, <5>2
      <4> QED
        BY <4>1, <4>2
    <3> QED
      BY <3>3, <3>4, <3>5 DEF CertificateInv
  <2> QED
    BY <2>2, <2>3
<1>3. ASSUME NEW i \in BOOLEAN, NEW r \in BOOLEAN, CreateActivation(i, r) PROVE CertificateInv'
  BY <1>3, CreateEffect DEF CertificateInv
<1>4. CASE Quiet
  BY <1>4 DEF CertificateInv, Quiet
<1> QED
  BY <1>1, <1>2, <1>3, <1>4, StepKinds

\* Renewals that race for a certificate, and renewals that race with the
\* replacement of the identity, leave an active device with exactly one active
\* certificate and every other device with none.
THEOREM OneCertificateIsActive == Spec => []OneActiveCertificate
<1>1. Init => CertificateInv
  BY DEF Init, CertificateInv, NoCertificate
<1>2. CertificateInv => OneActiveCertificate
  <2> SUFFICES ASSUME CertificateInv, NEW d \in Devices
               PROVE  Cardinality(ActiveOf(d)) = IF devices[d] = "ACTIVE" THEN 1 ELSE 0
    BY DEF OneActiveCertificate
  <2>0. d # 0
    BY DEF Devices, Codes
  <2>1. CASE devices[d] = "ACTIVE"
    <3>1. PICK x \in Certificates : certificates[x].device = d /\ certificates[x].status = "ACTIVE"
      BY <2>1 DEF CertificateInv
    <3>2. ActiveOf(d) = {x}
      BY <2>0, <3>1 DEF CertificateInv, ActiveOf
    <3> QED
      BY <2>1, <3>2, FS_Singleton
  <2>2. CASE devices[d] # "ACTIVE"
    <3>1. ActiveOf(d) = {}
      BY <2>0, <2>2 DEF CertificateInv, ActiveOf
    <3> QED
      BY <2>2, <3>1, FS_EmptySet
  <2> QED
    BY <2>1, <2>2
<1> QED
  BY <1>1, <1>2, CertificateStep, IdentityInductive, PTL DEF Spec

-----------------------------------------------------------------------------
(***************************************************************************)
(* Recovery codes                                                          *)
(***************************************************************************)
\* Codes are made in order, and a recovery code that is open is the newest.
RecoveryInv ==
  \A k \in Codes :
    /\ codes[k].status = "ABSENT" =>
         ~codes[k].replaces /\ \A j \in (k + 1)..MaxCodes : codes[j].status = "ABSENT"
    /\ Open(k) /\ codes[k].replaces => \A j \in (k + 1)..MaxCodes : ~codes[j].replaces

LEMMA RecoveryStep ==
  TypeInv /\ RecoveryInv /\ [Next]_vars => RecoveryInv' /\ [NewestCodeStep]_vars
<1> SUFFICES ASSUME TypeInv, RecoveryInv, [Next]_vars PROVE RecoveryInv' /\ NewestCodeStep
  OBVIOUS
<1> USE DEF Codes
<1>1. ASSUME NEW a \in Calls, Complete(a) PROVE RecoveryInv' /\ NewestCodeStep
  <2>1. PICK k \in Codes : codes[k].status = "RESERVED" /\ codes' = [codes EXCEPT ![k].status = "CONSUMED"]
    BY <1>1, CompleteEffect
  <2>2. \A j \in Codes : /\ codes'[j].status = IF j = k THEN "CONSUMED" ELSE codes[j].status
                         /\ codes'[j].replaces = codes[j].replaces
    BY <2>1 DEF TypeInv, TypeOK, CodeRows
  <2> QED
    BY <2>1, <2>2 DEF RecoveryInv, NewestCodeStep, Open
<1>2. ASSUME NEW a \in Calls, Renew(a) PROVE RecoveryInv' /\ NewestCodeStep
  <2>1. UNCHANGED codes
    BY <1>2, RenewEffect
  <2> QED
    BY <2>1 DEF RecoveryInv, NewestCodeStep, Open
<1>3. ASSUME NEW i \in BOOLEAN, NEW r \in BOOLEAN, CreateActivation(i, r) PROVE RecoveryInv' /\ NewestCodeStep
  <2>1. PICK k \in FreshCode :
              /\ codes'[k].status = "ACTIVE" /\ codes'[k].replaces = r
              /\ \A j \in Codes \ {k} :
                   /\ codes'[j].replaces = codes[j].replaces
                   /\ codes'[j].status = IF r /\ codes[j].replaces /\ Open(j) THEN "REVOKED" ELSE codes[j].status
    BY <1>3, CreateEffect
  <2>2. k \in Codes /\ codes[k].status = "ABSENT" /\ \A j \in 1..(k - 1) : codes[j].status # "ABSENT"
    BY DEF FreshCode
  <2>3. \A j \in Codes : j > k => codes[j].status = "ABSENT" /\ ~codes[j].replaces
    BY <2>2 DEF RecoveryInv
  <2>4. ASSUME NEW m \in Codes, codes'[m].status = "ABSENT"
        PROVE  ~codes'[m].replaces /\ \A j \in (m + 1)..MaxCodes : codes'[j].status = "ABSENT"
    <3>1. m # k /\ codes[m].status = "ABSENT" /\ m > k
      BY <2>1, <2>2, <2>4
    <3>2. \A j \in Codes : j > k => codes'[j].status = "ABSENT" /\ ~codes'[j].replaces
      BY <2>1, <2>2, <2>3
    <3> QED
      BY <2>2, <3>1, <3>2
  <2>5. ASSUME NEW m \in Codes, Open(m)', codes'[m].replaces, NEW j \in (m + 1)..MaxCodes
        PROVE  ~codes'[j].replaces
    <3>1. CASE m = k
      BY <2>1, <2>3, <3>1
    <3>2. CASE m # k
      <4>1. Open(m) /\ codes[m].replaces /\ ~r
        BY <2>1, <2>5, <3>2 DEF Open
      <4> QED
        BY <2>1, <2>5, <4>1 DEF RecoveryInv
    <3> QED
      BY <3>1, <3>2
  <2>6. NewestCodeStep
    BY <2>1, <2>2 DEF NewestCodeStep
  <2> QED
    BY <2>4, <2>5, <2>6 DEF RecoveryInv
<1>4. CASE Quiet
  <2>1. \A k \in Codes : /\ codes'[k].replaces = codes[k].replaces
                         /\ codes[k].status = "ABSENT" <=> codes'[k].status = "ABSENT"
                         /\ Open(k)' => Open(k)
                         /\ codes'[k].status = "CONSUMED" => codes[k].status = "CONSUMED"
    BY <1>4 DEF Quiet, Open
  <2> QED
    BY <2>1 DEF RecoveryInv, NewestCodeStep
<1> QED
  BY <1>1, <1>2, <1>3, <1>4, StepKinds

\* A Node is taken over only with the newest recovery code that was made for it: a
\* new recovery code revokes every open one, reserved ones included.
THEOREM NewestRecoveryCodeTakesOver == Spec => NewestCodeTakesOver
<1>1. Init => RecoveryInv
  BY DEF Init, RecoveryInv, Open, Codes
<1> QED
  BY <1>1, RecoveryStep, TypeInductive, PTL DEF Spec, NewestCodeTakesOver

=============================================================================

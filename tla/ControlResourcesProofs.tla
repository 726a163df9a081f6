----------------------- MODULE ControlResourcesProofs -----------------------
(***************************************************************************)
(* Proofs about the management mutations, for every set of resources,      *)
(* documents, keys and concurrent transactions.                            *)
(*                                                                         *)
(* The argument is about locks.  TypeInv says what an open transaction     *)
(* holds, LockInv that no two hold conflicting locks, ValidInv that what   *)
(* Validate found still holds when the transaction commits, because nobody *)
(* else can write the rows it has locked.                                  *)
(***************************************************************************)
EXTENDS ControlResources, FiniteSetTheorems, TLAPS

USE InstanceAssumption, DocumentsAssumption, ExistingAssumption

-----------------------------------------------------------------------------
(***************************************************************************)
(* The inductive invariant                                                 *)
(***************************************************************************)
\* A resource that was never created has no revision; one that is active has a
\* document of its own.
RowsInv ==
  \A i \in Ids :
    /\ resources[i].state = "ABSENT" => resources[i].revision = 0
    /\ Active(i) => Document(i) \in Documents[i]

\* An open transaction names a resource and a document for it; unless it creates
\* the resource, that one is active and still has the revision it was opened on.
OpenInv ==
  \A t \in Transactions :
    LET x == transactions[t] IN
    /\ x.pc = "IDLE" => x = Idle
    /\ x.pc = "OPEN" => x.locked = {}
    /\ x.pc # "IDLE" => /\ x.id \in Ids /\ x.key \in AllKeys /\ x.method \in Methods
                        /\ x.document \in Documents[x.id]
                        /\ x.method = "POST" => x.revision = 1
                        /\ x.method # "POST" => /\ Active(x.id)
                                                /\ x.revision = resources[x.id].revision + 1

TypeInv == TypeOK /\ RowsInv /\ OpenInv

\* No row is locked FOR UPDATE by one transaction and at all by another.
LockInv ==
  \A t, u \in Transactions : t # u => Exclusive(t) \cap (Exclusive(u) \cup Shared(u)) = {}

\* What Validate found is so until the end: what is referred to is locked and
\* active, what is deleted is not referred to.
ValidInv ==
  \A t \in Transactions :
    LET x == transactions[t] IN
    x.pc = "VALID" =>
      /\ x.method # "DELETE" => x.document.refs \subseteq x.locked /\ ReferencesActive(x.document)
      /\ x.method = "DELETE" => Unreferenced(x.id)

\* The same of the address plan.  A Segment that is created at the same time by
\* another request has lost its row to it and will not be written.
PlanInv ==
  \A t \in Transactions :
    LET x == transactions[t] IN
    x.pc = "VALID" /\ x.method # "DELETE" /\ RowAsExpected(t) => OverlayFits(x.id, x.document)

-----------------------------------------------------------------------------
(***************************************************************************)
(* Types                                                                   *)
(***************************************************************************)
LEMMA DocumentType ==
  ASSUME NEW i \in Ids, NEW d \in Documents[i] \cup {NoDocument}
  PROVE  /\ d \in AllDocuments \cup {NoDocument}
         /\ SegmentOf(i, d) \in Segments \cup {NoId}
         /\ d.refs \subseteq Ids
BY DEF AllDocuments, NoDocument, SegmentOf, Segments

\* dependent_segments returns Segments.
LEMMA DependentSegmentsType ==
  ASSUME TypeOK, RowsInv, NEW i \in Ids
  PROVE  DependentSegments(i) \subseteq Segments
<1> SUFFICES ASSUME NEW j \in Ids, Active(j), SegmentOf(j, Document(j)) # NoId
             PROVE  SegmentOf(j, Document(j)) \in Segments
  BY DEF DependentSegments, Dependents
<1>1. Document(j) \in Documents[j]
  BY DEF RowsInv
<1> QED
  BY <1>1, DocumentType

LEMMA TypeInit == Init => TypeInv
<1> SUFFICES ASSUME Init PROVE TypeInv
  OBVIOUS
<1>1. Idle \in TransactionRows
  BY DEF Idle, Steps, TransactionRows
<1>2. \A i \in DOMAIN Existing : Existing[i] \in AllDocuments
  BY DocumentType DEF AllDocuments
<1>3. TypeOK
  BY <1>1, <1>2 DEF Init, TypeOK, NoDocument, NoRecord, Methods, AllKeys
<1>4. RowsInv
  BY DEF Init, RowsInv, Active, Document
<1>5. OpenInv
  BY DEF Init, OpenInv, Idle
<1> QED
  BY <1>3, <1>4, <1>5 DEF TypeInv

-----------------------------------------------------------------------------
(***************************************************************************)
(* What the steps do                                                       *)
(***************************************************************************)
\* The three ways to open a transaction are one.
LEMMA Opens ==
  ASSUME TypeInv, NEW t \in Transactions, NEW i \in Ids,
         Create(t, i) \/ \E k \in Keys : Replace(t, k, i) \/ Delete(t, k, i)
  PROVE  \E method \in Methods, k \in AllKeys, d \in Documents[i] : Open(t, method, k, i, d)
<1>1. CASE Create(t, i)
  BY <1>1 DEF Create, Methods, AllKeys
<1>2. ASSUME NEW k \in Keys, Replace(t, k, i) PROVE \E d \in Documents[i] : Open(t, "PUT", k, i, d)
  BY <1>2 DEF Replace
<1>3. ASSUME NEW k \in Keys, Delete(t, k, i) PROVE Document(i) \in Documents[i] /\ Open(t, "DELETE", k, i, Document(i))
  BY <1>3 DEF Delete, Open, TypeInv, RowsInv
<1> QED
  BY <1>1, <1>2, <1>3 DEF Methods, AllKeys

LEMMA OpenType ==
  ASSUME TypeInv, NEW t \in Transactions, NEW i \in Ids, NEW method \in Methods,
         NEW k \in AllKeys, NEW d \in Documents[i], Open(t, method, k, i, d)
  PROVE  TypeInv'
<1> DEFINE x == [pc |-> "OPEN", method |-> method, key |-> k, id |-> i,
                 revision |-> (IF method = "POST" THEN 0 ELSE resources[i].revision) + 1,
                 document |-> d, affected |-> DependentSegments(i), locked |-> {}]
<1>1. transactions' = [transactions EXCEPT ![t] = x]
  BY DEF Open
<1>2. UNCHANGED <<resources, records, replacements, heads>>
  BY DEF Open
<1>3. x \in TransactionRows
  <2>1. DependentSegments(i) \subseteq Segments
    BY DependentSegmentsType DEF TypeInv
  <2>2. resources[i].revision \in Nat
    BY DEF TypeInv, TypeOK
  <2> QED
    BY <2>1, <2>2, DocumentType DEF Steps, TransactionRows
<1>4. TypeOK'
  BY <1>1, <1>2, <1>3 DEF TypeInv, TypeOK
<1>5. RowsInv'
  BY <1>2 DEF TypeInv, RowsInv, Active, Document
<1>6. OpenInv'
  <2> SUFFICES ASSUME NEW u \in Transactions PROVE OpenInv!(u)'
    BY DEF OpenInv
  <2>1. CASE u = t
    <3>1. transactions'[u] = x
      BY <1>1, <2>1 DEF TypeInv, TypeOK
    <3>2. method # "POST" => Active(i)
      BY DEF Open
    <3> QED
      BY <1>2, <3>1, <3>2 DEF Active
  <2>2. CASE u # t
    <3>1. transactions'[u] = transactions[u]
      BY <1>1, <2>2 DEF TypeInv, TypeOK
    <3> QED
      BY <1>2, <3>1 DEF TypeInv, OpenInv, Active
  <2> QED
    BY <2>1, <2>2
<1> QED
  BY <1>4, <1>5, <1>6 DEF TypeInv

LEMMA ValidatedType ==
  ASSUME NEW x \in TransactionRows, NEW rows \in SUBSET Ids
  PROVE  [x EXCEPT !.pc = "VALID", !.locked = rows] \in TransactionRows
BY DEF TransactionRows, Steps

LEMMA ValidateType ==
  ASSUME TypeInv, NEW t \in Transactions, Validate(t)
  PROVE  /\ TypeInv'
         /\ UNCHANGED <<resources, records, replacements, heads>>
         /\ \E rows \in SUBSET Ids :
              /\ RowsShareable(t, rows)
              /\ transactions[t].method # "DELETE" =>
                   rows = RowsRead(transactions[t].id, transactions[t].document)
              /\ Valid(transactions[t].method, transactions[t].id, transactions[t].document)
              /\ transactions' = [transactions EXCEPT ![t] =
                   [transactions[t] EXCEPT !.pc = "VALID", !.locked = rows]]
<1> DEFINE x == transactions[t]
           rows == IF x.method = "DELETE" THEN {} ELSE RowsRead(x.id, x.document)
           y == [x EXCEPT !.pc = "VALID", !.locked = rows]
<1>1. UNCHANGED <<resources, records, replacements, heads>> /\ x.pc = "OPEN"
  BY DEF Validate
<1>2. transactions' = [transactions EXCEPT ![t] = y]
  BY DEF Validate
<1>3. x.id \in Ids /\ x.document \in Documents[x.id]
  BY <1>1 DEF TypeInv, OpenInv
<1>4. rows \in SUBSET Ids
  <2>1. x.document.refs \subseteq Ids
    BY <1>3
  <2>2. \A r : AttachmentOf(r) \subseteq Ids
    BY DEF AttachmentOf, ActiveOfKind
  <2>3. /\ Siblings(x.id, x.document) \subseteq Ids
        /\ Members(x.id) \subseteq Ids
    BY DEF Siblings, Members, ActiveOfKind
  <2>4. UNION {AttachmentOf(r) : r \in x.document.refs} \subseteq Ids
    BY <2>2
  <2> QED
    BY <2>1, <2>3, <2>4 DEF RowsRead
<1>5. y \in TransactionRows
  <2>1. x \in TransactionRows
    BY DEF TypeInv, TypeOK
  <2> QED
    BY <1>4, <2>1, ValidatedType
<1>6. TypeOK'
  BY <1>1, <1>2, <1>5 DEF TypeInv, TypeOK
<1>7. RowsInv'
  BY <1>1 DEF TypeInv, RowsInv, Active, Document
<1>8. OpenInv'
  <2> SUFFICES ASSUME NEW u \in Transactions PROVE OpenInv!(u)'
    BY DEF OpenInv
  <2>1. CASE u = t
    <3>1. transactions'[u] = y
      BY <1>2, <2>1 DEF TypeInv, TypeOK
    <3>2. /\ y.pc = "VALID" /\ y.method = x.method /\ y.key = x.key /\ y.id = x.id
          /\ y.revision = x.revision /\ y.document = x.document
      <4>1. x \in TransactionRows
        BY DEF TypeInv, TypeOK
      <4> HIDE DEF rows, x
      <4> QED
        BY <4>1 DEF TransactionRows
    <3> QED
      BY <1>1, <3>1, <3>2 DEF TypeInv, OpenInv, Active
  <2>2. CASE u # t
    <3>1. transactions'[u] = transactions[u]
      BY <1>2, <2>2 DEF TypeInv, TypeOK
    <3> QED
      BY <1>1, <3>1 DEF TypeInv, OpenInv, Active
  <2> QED
    BY <2>1, <2>2
<1>9. RowsShareable(t, rows) /\ Valid(x.method, x.id, x.document)
  BY DEF Validate
<1> QED
  BY <1>1, <1>2, <1>4, <1>6, <1>7, <1>8, <1>9 DEF TypeInv

LEMMA AbortType ==
  ASSUME TypeInv, NEW t \in Transactions, Abort(t)
  PROVE  TypeInv'
<1>1. UNCHANGED <<resources, records, replacements, heads>> /\ transactions' = [transactions EXCEPT ![t] = Idle]
  BY DEF Abort
<1>2. TypeOK'
  BY <1>1 DEF TypeInv, TypeOK, Idle, Steps, TransactionRows
<1>3. RowsInv'
  BY <1>1 DEF TypeInv, RowsInv, Active, Document
<1>4. OpenInv'
  <2> SUFFICES ASSUME NEW u \in Transactions PROVE OpenInv!(u)'
    BY DEF OpenInv
  <2>1. CASE u = t
    <3>1. transactions'[u] = Idle
      BY <1>1, <2>1 DEF TypeInv, TypeOK
    <3> QED
      BY <3>1 DEF Idle
  <2>2. CASE u # t
    <3>1. transactions'[u] = transactions[u]
      BY <1>1, <2>2 DEF TypeInv, TypeOK
    <3> QED
      BY <1>1, <3>1 DEF TypeInv, OpenInv, Active
  <2> QED
    BY <2>1, <2>2
<1> QED
  BY <1>2, <1>3, <1>4 DEF TypeInv

\* A commit writes a row that no other transaction has locked, unless the row was
\* not there, and ends its transaction.
LEMMA CommitEffect ==
  ASSUME TypeInv, LockInv, NEW t \in Transactions, NEW published, Commit(t, published)
  PROVE  LET x == transactions[t] IN
         /\ x.pc = "VALID" /\ x.id \in Ids /\ x.method \in Methods /\ x.document \in Documents[x.id]
         /\ RowAsExpected(t)
         /\ resources' = [resources EXCEPT ![x.id] =
              [state |-> IF x.method = "DELETE" THEN "DELETED" ELSE "ACTIVE",
               revision |-> x.revision, document |-> x.document]]
         /\ transactions' = [transactions EXCEPT ![t] = Idle]
         /\ transactions'[t] = Idle
         /\ \A u \in Transactions \ {t} :
              /\ transactions'[u] = transactions[u]
              /\ \A j \in Exclusive(u) \cup Shared(u) : Active(j) => j # x.id
<1> DEFINE x == transactions[t]
<1>1. x.pc = "VALID" /\ RowAsExpected(t) /\ transactions' = [transactions EXCEPT ![t] = Idle]
  BY DEF Commit, Writable
<1>2. x.id \in Ids /\ x.method \in Methods /\ x.document \in Documents[x.id]
  BY <1>1 DEF TypeInv, OpenInv
<1>3. resources' = [resources EXCEPT ![x.id] =
              [state |-> IF x.method = "DELETE" THEN "DELETED" ELSE "ACTIVE",
               revision |-> x.revision, document |-> x.document]]
  BY DEF Commit
<1>4. transactions'[t] = Idle /\ \A u \in Transactions \ {t} : transactions'[u] = transactions[u]
  BY <1>1 DEF TypeInv, TypeOK
<1>5. ASSUME NEW u \in Transactions \ {t}, NEW j \in Exclusive(u) \cup Shared(u), Active(j)
      PROVE  j # x.id
  <2>1. CASE x.method = "POST"
    BY <1>1, <1>5, <2>1 DEF RowAsExpected, Active
  <2>2. CASE x.method # "POST"
    BY <1>1, <1>5, <2>2 DEF Exclusive, LockInv
  <2> QED
    BY <2>1, <2>2
<1> QED
  BY <1>1, <1>2, <1>3, <1>4, <1>5

LEMMA CommitType ==
  ASSUME TypeInv, LockInv, NEW t \in Transactions, NEW published \in BOOLEAN, Commit(t, published)
  PROVE  TypeInv'
<1> DEFINE x == transactions[t]
<1>1. /\ x.pc = "VALID" /\ x.id \in Ids /\ x.method \in Methods /\ x.document \in Documents[x.id]
      /\ RowAsExpected(t)
      /\ transactions' = [transactions EXCEPT ![t] = Idle]
  BY CommitEffect
<1>2. resources' = [resources EXCEPT ![x.id] =
        [state |-> IF x.method = "DELETE" THEN "DELETED" ELSE "ACTIVE",
         revision |-> x.revision, document |-> x.document]]
  BY CommitEffect
<1>3. x.revision \in Nat \ {0} /\ x.key \in AllKeys
  BY <1>1 DEF TypeInv, TypeOK, OpenInv
<1>4. TypeOK'
  <2>1. resources' \in [Ids -> [state : {"ABSENT", "ACTIVE", "DELETED"}, revision : Nat,
                                document : AllDocuments \cup {NoDocument}]]
    BY <1>1, <1>2, <1>3, DocumentType DEF TypeInv, TypeOK
  <2>2. records' \in [AllKeys -> [method : Methods \cup {"NONE"}, id : Ids \cup {NoId}, revision : Nat]]
    BY <1>1, <1>3 DEF Commit, TypeInv, TypeOK
  <2>3. heads' \in [Segments -> Nat]
    BY DEF Commit, TypeInv, TypeOK
  <2>4. transactions' \in [Transactions -> TransactionRows]
    BY <1>1 DEF TypeInv, TypeOK, Idle, Steps, TransactionRows
  <2>5. replacements' \subseteq Nodes \X Nat
    BY DEF Commit, TypeInv, TypeOK
  <2> QED
    BY <2>1, <2>2, <2>3, <2>4, <2>5 DEF TypeOK
<1>5. RowsInv'
  BY <1>1, <1>2 DEF TypeInv, TypeOK, RowsInv, Active, Document
<1>6. OpenInv'
  <2> SUFFICES ASSUME NEW u \in Transactions PROVE OpenInv!(u)'
    BY DEF OpenInv
  <2>1. CASE u = t
    <3>1. transactions'[u] = Idle
      BY <2>1, CommitEffect
    <3> QED
      BY <3>1 DEF Idle
  <2>2. CASE u # t
    <3>1. transactions'[u] = transactions[u]
      BY <2>2, CommitEffect
    <3>2. transactions[u].pc # "IDLE" /\ transactions[u].method # "POST" =>
            resources'[transactions[u].id] = resources[transactions[u].id]
      <4> HAVE transactions[u].pc # "IDLE" /\ transactions[u].method # "POST"
      <4>1. transactions[u].id \in Exclusive(u) /\ Active(transactions[u].id) /\ transactions[u].id \in Ids
        BY DEF Exclusive, TypeInv, OpenInv
      <4>2. transactions[u].id # x.id
        BY <2>2, <4>1, CommitEffect
      <4> QED
        BY <1>2, <4>1, <4>2 DEF TypeInv, TypeOK
    <3> QED
      BY <3>1, <3>2 DEF TypeInv, OpenInv, Active
  <2> QED
    BY <2>1, <2>2
<1> QED
  BY <1>4, <1>5, <1>6 DEF TypeInv

\* The replacement of an identity writes a Node that nobody has locked, and leaves
\* its Segment and its references.
LEMMA ReplaceEffect ==
  ASSUME TypeInv, NEW i \in Ids, NEW d \in Documents[i], ReplaceNodeIdentity(i, d)
  PROVE  /\ Kind[i] = "NODE" /\ Active(i) /\ RowUnlocked(i)
         /\ UNCHANGED <<records, transactions>>
         /\ replacements' = replacements \cup {<<i, resources[i].revision + 1>>}
         /\ resources'[i].state = "ACTIVE" /\ resources'[i].document = d
         /\ resources'[i].revision = resources[i].revision + 1
         /\ \A j \in Ids : j # i => resources'[j] = resources[j]
<1> DEFINE new == [state |-> "ACTIVE", revision |-> resources[i].revision + 1, document |-> d]
<1>1. /\ Kind[i] = "NODE" /\ Active(i) /\ RowUnlocked(i)
      /\ d.segment = Document(i).segment /\ d.refs = Document(i).refs
      /\ resources' = [resources EXCEPT ![i] = new]
      /\ replacements' = replacements \cup {<<i, resources[i].revision + 1>>}
      /\ UNCHANGED <<records, transactions>>
  BY DEF ReplaceNodeIdentity
<1>2. resources'[i] = new /\ \A j \in Ids : j # i => resources'[j] = resources[j]
  BY <1>1 DEF TypeInv, TypeOK
<1>3. resources'[i].state = "ACTIVE" /\ resources'[i].document = d
      /\ resources'[i].revision = resources[i].revision + 1
  BY <1>2
<1> QED
  BY <1>1, <1>2, <1>3

\* What every resource keeps.
LEMMA ReplaceKeeps ==
  ASSUME TypeInv, NEW i \in Ids, NEW d \in Documents[i], ReplaceNodeIdentity(i, d),
         NEW j \in Ids
  PROVE  /\ resources'[j].state = resources[j].state
         /\ resources'[j].document.segment = resources[j].document.segment
         /\ resources'[j].document.refs = resources[j].document.refs
         /\ Kind[j] # "NODE" => resources'[j].document = resources[j].document
<1>1. CASE j = i
  <2>1. d.segment = Document(i).segment /\ d.refs = Document(i).refs
    BY DEF ReplaceNodeIdentity
  <2> QED
    BY <1>1, <2>1, ReplaceEffect DEF Active, Document
<1>2. CASE j # i
  BY <1>2, ReplaceEffect
<1> QED
  BY <1>1, <1>2

\* Whoever has locked its own row has not locked this one.
LEMMA ReplaceOthers ==
  ASSUME TypeInv, NEW i \in Ids, NEW d \in Documents[i], ReplaceNodeIdentity(i, d),
         NEW u \in Transactions, transactions[u].pc # "IDLE", transactions[u].method # "POST"
  PROVE  resources'[transactions[u].id] = resources[transactions[u].id]
<1>1. transactions[u].id \in Exclusive(u) /\ transactions[u].id \in Ids
  BY DEF Exclusive, TypeInv, OpenInv
<1>2. transactions[u].id # i
  BY <1>1, ReplaceEffect DEF RowUnlocked
<1> QED
  BY <1>1, <1>2, ReplaceEffect

LEMMA ReplaceType ==
  ASSUME TypeInv, NEW i \in Ids, NEW d \in Documents[i], ReplaceNodeIdentity(i, d)
  PROVE  TypeInv'
<1>1. /\ Kind[i] = "NODE" /\ UNCHANGED <<records, transactions>>
      /\ replacements' = replacements \cup {<<i, resources[i].revision + 1>>}
  BY ReplaceEffect
<1>2. resources[i].revision \in Nat
  BY DEF TypeInv, TypeOK
<1>3. TypeOK'
  <2>1. resources' \in [Ids -> [state : {"ABSENT", "ACTIVE", "DELETED"}, revision : Nat,
                                document : AllDocuments \cup {NoDocument}]]
    BY <1>2, DocumentType DEF ReplaceNodeIdentity, TypeInv, TypeOK
  <2>2. replacements' \subseteq Nodes \X Nat
    BY <1>1, <1>2 DEF TypeInv, TypeOK, Nodes
  <2>3. heads' \in [Segments -> Nat]
    BY DEF ReplaceNodeIdentity, TypeInv, TypeOK
  <2> QED
    BY <1>1, <2>1, <2>2, <2>3 DEF TypeInv, TypeOK
<1>4. RowsInv'
  <2> SUFFICES ASSUME NEW j \in Ids PROVE RowsInv!(j)'
    BY DEF RowsInv
  <2>1. CASE j = i
    BY <2>1, ReplaceEffect DEF Document
  <2>2. CASE j # i
    BY <2>2, ReplaceEffect DEF TypeInv, RowsInv, Active, Document
  <2> QED
    BY <2>1, <2>2
<1>5. OpenInv'
  <2> SUFFICES ASSUME NEW u \in Transactions PROVE OpenInv!(u)'
    BY DEF OpenInv
  <2>1. transactions'[u] = transactions[u]
    BY <1>1
  <2> QED
    BY <2>1, ReplaceOthers DEF TypeInv, OpenInv, Active
<1> QED
  BY <1>3, <1>4, <1>5 DEF TypeInv

\* Every step is one of six.
LEMMA StepKinds ==
  ASSUME TypeInv, [Next]_vars
  PROVE  \/ \E t \in Transactions, i \in Ids, method \in Methods, k \in AllKeys :
              \E d \in Documents[i] : Open(t, method, k, i, d)
         \/ \E t \in Transactions : Validate(t)
         \/ \E t \in Transactions : Abort(t)
         \/ \E t \in Transactions, published \in BOOLEAN : Commit(t, published)
         \/ \E i \in Ids : \E d \in Documents[i] : ReplaceNodeIdentity(i, d)
         \/ UNCHANGED vars
BY Opens DEF Next

\* Only a commit and the replacement of an identity write rows.
LEMMA QuietRows ==
  ASSUME TypeInv, [Next]_vars
  PROVE  \/ UNCHANGED <<resources, records, replacements>>
         \/ \E t \in Transactions, published \in BOOLEAN : Commit(t, published)
         \/ \E i \in Ids : \E d \in Documents[i] : ReplaceNodeIdentity(i, d)
<1>1. ASSUME NEW t, NEW method, NEW k, NEW i, NEW d, Open(t, method, k, i, d)
      PROVE  UNCHANGED <<resources, records, replacements>>
  BY <1>1 DEF Open
<1>2. ASSUME NEW t, Validate(t) PROVE UNCHANGED <<resources, records, replacements>>
  BY <1>2 DEF Validate
<1>3. ASSUME NEW t, Abort(t) PROVE UNCHANGED <<resources, records, replacements>>
  BY <1>3 DEF Abort
<1>4. UNCHANGED vars => UNCHANGED <<resources, records, replacements>>
  BY DEF vars
<1> QED
  BY <1>1, <1>2, <1>3, <1>4, StepKinds

-----------------------------------------------------------------------------
(***************************************************************************)
(* Locks                                                                   *)
(***************************************************************************)
\* Locks depend on the transaction alone.
LEMMA LocksKept ==
  ASSUME NEW u \in Transactions, transactions'[u] = transactions[u]
  PROVE  Exclusive(u)' = Exclusive(u) /\ Shared(u)' = Shared(u)
BY DEF Exclusive, Shared

LEMMA LockStep == TypeInv /\ LockInv /\ [Next]_vars => LockInv'
<1> SUFFICES ASSUME TypeInv, LockInv, [Next]_vars PROVE LockInv'
  OBVIOUS
<1>1. ASSUME NEW t \in Transactions, NEW i \in Ids, NEW method \in Methods, NEW k \in AllKeys,
             NEW d \in Documents[i], Open(t, method, k, i, d)
      PROVE  LockInv'
  <2>1. Exclusive(t)' \subseteq {i} /\ Shared(t)' = {}
    BY <1>1 DEF Open, TypeInv, TypeOK, Exclusive, Shared
  <2>2. Exclusive(t)' = {} \/ RowFree(t, i)
    BY <1>1 DEF Open, TypeInv, TypeOK, Exclusive
  <2>3. \A u \in Transactions \ {t} : transactions'[u] = transactions[u]
    BY <1>1 DEF Open, TypeInv, TypeOK
  <2>4. \A u \in Transactions \ {t} : Exclusive(u)' = Exclusive(u) /\ Shared(u)' = Shared(u)
    BY <2>3, LocksKept
  <2>5. \A u \in Transactions : transactions[u].pc = "IDLE" => Exclusive(u) = {} /\ Shared(u) = {}
    BY DEF TypeInv, OpenInv, Idle, Exclusive, Shared
  <2>6. ASSUME NEW u \in Transactions \ {t}
        PROVE  /\ Exclusive(t)' \cap (Exclusive(u)' \cup Shared(u)') = {}
               /\ Exclusive(u)' \cap (Exclusive(t)' \cup Shared(t)') = {}
    <3>1. CASE Exclusive(t)' = {}
      BY <2>1, <3>1
    <3>2. CASE RowFree(t, i)
      <4>1. i \notin Exclusive(u) \cup Shared(u)
        BY <2>5, <3>2 DEF RowFree, Others
      <4> QED
        BY <2>1, <2>4, <4>1
    <3> QED
      BY <2>2, <3>1, <3>2
  <2> QED
    BY <2>4, <2>6 DEF LockInv
<1>2. ASSUME NEW t \in Transactions, Validate(t) PROVE LockInv'
  <2>1. PICK rows \in SUBSET Ids :
              /\ RowsShareable(t, rows)
              /\ transactions' = [transactions EXCEPT ![t] =
                   [transactions[t] EXCEPT !.pc = "VALID", !.locked = rows]]
    BY <1>2, ValidateType
  <2>2. transactions[t].pc = "OPEN"
    BY <1>2 DEF Validate
  <2>3. Exclusive(t)' = Exclusive(t) /\ Shared(t)' = rows
    BY <2>1, <2>2 DEF TypeInv, TypeOK, TransactionRows, Exclusive, Shared
  <2>4. \A u \in Transactions \ {t} : transactions'[u] = transactions[u]
    BY <2>1 DEF TypeInv, TypeOK
  <2>5. \A u \in Transactions \ {t} : Exclusive(u)' = Exclusive(u) /\ Shared(u)' = Shared(u)
    BY <2>4, LocksKept
  <2>6. \A u \in Transactions \ {t} : Exclusive(u) \cap rows = {}
    BY <2>1 DEF RowsShareable, Others, Exclusive
  <2> QED
    BY <2>3, <2>5, <2>6 DEF LockInv
<1>3. ASSUME NEW t \in Transactions, transactions' = [transactions EXCEPT ![t] = Idle] PROVE LockInv'
  <2>1. Exclusive(t)' = {} /\ Shared(t)' = {}
    BY <1>3 DEF TypeInv, TypeOK, Idle, Exclusive, Shared
  <2>2. \A u \in Transactions \ {t} : transactions'[u] = transactions[u]
    BY <1>3 DEF TypeInv, TypeOK
  <2>3. \A u \in Transactions \ {t} : Exclusive(u)' = Exclusive(u) /\ Shared(u)' = Shared(u)
    BY <2>2, LocksKept
  <2> QED
    BY <2>1, <2>3 DEF LockInv
<1>4. CASE UNCHANGED transactions
  BY <1>4, LocksKept DEF LockInv
<1> QED
  BY <1>1, <1>2, <1>3, <1>4, StepKinds DEF Abort, Commit, ReplaceNodeIdentity, vars

LEMMA TypeStep == TypeInv /\ LockInv /\ [Next]_vars => TypeInv'
<1> SUFFICES ASSUME TypeInv, LockInv, [Next]_vars PROVE TypeInv'
  OBVIOUS
<1>1. CASE UNCHANGED vars
  BY <1>1 DEF vars, TypeInv, TypeOK, RowsInv, OpenInv, Active, Document
<1> QED
  BY <1>1, StepKinds, OpenType, ValidateType, AbortType, CommitType, ReplaceType

LEMMA TypeInductive == Spec => [](TypeInv /\ LockInv)
<1>1. Init => LockInv
  BY DEF Init, LockInv, Idle, Exclusive, Shared
<1> QED
  BY <1>1, TypeInit, TypeStep, LockStep, PTL DEF Spec

\* The tables and the transactions that work on them have their types, whatever the
\* requests: in particular a mutation queues jobs for Segments only.
THEOREM TypeCorrect == Spec => []TypeOK
BY TypeInductive, PTL DEF TypeInv

-----------------------------------------------------------------------------
(***************************************************************************)
(* References                                                              *)
(***************************************************************************)
ReferenceInv == ValidInv /\ NoDangling

\* A transaction that is not touched, on resources that are not touched.
LEMMA QuietValid ==
  ASSUME ValidInv, PlanInv, UNCHANGED resources, NEW u \in Transactions,
         transactions'[u] = transactions[u]
  PROVE  ValidInv!(u)' /\ PlanInv!(u)'
BY DEF ValidInv, PlanInv, ReferencesActive, Unreferenced, Referring, Active, Document,
       OverlayFits, Members, ActiveOfKind, RowAsExpected

\* Steps that leave the resources alone keep what the others found.
LEMMA QuietStep ==
  ASSUME TypeInv, ReferenceInv, PlanInv, AddressPlanSound, NEW t \in Transactions,
         UNCHANGED resources,
         \A u \in Transactions \ {t} : transactions'[u] = transactions[u],
         transactions'[t].pc # "VALID" \/ Validate(t)
  PROVE  ReferenceInv' /\ PlanInv' /\ AddressPlanSound'
<1> DEFINE x == transactions[t]
<1>1. NoDangling' /\ AddressPlanSound'
  BY DEF ReferenceInv, NoDangling, AddressPlanSound, Active, Document, ActiveOfKind, Members
<1>2. \A u \in Transactions \ {t} : ValidInv!(u)' /\ PlanInv!(u)'
  BY QuietValid DEF ReferenceInv
<1>3. CASE Validate(t)
  <2>1. PICK rows \in SUBSET Ids :
              /\ x.method # "DELETE" => rows = RowsRead(x.id, x.document)
              /\ Valid(x.method, x.id, x.document)
              /\ transactions' = [transactions EXCEPT ![t] = [x EXCEPT !.pc = "VALID", !.locked = rows]]
    BY <1>3, ValidateType
  <2>2. x \in TransactionRows
    BY DEF TypeInv, TypeOK
  <2>3. /\ transactions'[t].method = x.method /\ transactions'[t].id = x.id
        /\ transactions'[t].document = x.document /\ transactions'[t].locked = rows
    BY <2>1, <2>2 DEF TypeInv, TypeOK, TransactionRows
  <2>4. x.method = "DELETE" => Unreferenced(x.id)
    BY <2>1 DEF Valid
  <2>5. x.method # "DELETE" =>
          /\ ReferencesActive(x.document) /\ OverlayFits(x.id, x.document)
          /\ x.document.refs \subseteq rows
    BY <2>1 DEF Valid, RowsRead
  <2>7. ValidInv!(t)'
    BY <2>3, <2>4, <2>5 DEF Unreferenced, Referring, ReferencesActive, Active, Document
  <2>8. PlanInv!(t)'
    BY <2>3, <2>5 DEF OverlayFits, Members, ActiveOfKind, Active, Document
  <2> QED
    BY <1>1, <1>2, <2>7, <2>8 DEF ReferenceInv, ValidInv, PlanInv
<1>4. CASE transactions'[t].pc # "VALID"
  BY <1>1, <1>2, <1>4 DEF ReferenceInv, ValidInv, PlanInv
<1> QED
  BY <1>3, <1>4

\* What the committed row looks like, and that the others are as before.
LEMMA CommitRows ==
  ASSUME TypeInv, LockInv, NEW t \in Transactions, NEW published, Commit(t, published),
         NEW j \in Ids
  PROVE  /\ j # transactions[t].id =>
              /\ Active(j)' = Active(j) /\ Document(j)' = Document(j)
              /\ resources'[j] = resources[j]
         /\ j = transactions[t].id =>
              /\ Active(j)' = (transactions[t].method # "DELETE")
              /\ Document(j)' = transactions[t].document
              /\ resources'[j].state # "ABSENT"
              /\ resources'[j].revision = transactions[t].revision
<1> DEFINE x == transactions[t]
<1>1. resources' = [resources EXCEPT ![x.id] =
              [state |-> IF x.method = "DELETE" THEN "DELETED" ELSE "ACTIVE",
               revision |-> x.revision, document |-> x.document]]
  BY CommitEffect
<1>2. resources \in [Ids -> [state : {"ABSENT", "ACTIVE", "DELETED"}, revision : Nat,
                            document : AllDocuments \cup {NoDocument}]]
  BY DEF TypeInv, TypeOK
<1> HIDE DEF x
<1>3. j # x.id => resources'[j] = resources[j]
  BY <1>1, <1>2
<1>4. j = x.id => resources'[j] = [state |-> IF x.method = "DELETE" THEN "DELETED" ELSE "ACTIVE",
               revision |-> x.revision, document |-> x.document]
  BY <1>1, <1>2
<1> QED
  BY <1>3, <1>4 DEF Active, Document, x

LEMMA CommitEnds ==
  ASSUME TypeInv, LockInv, NEW t \in Transactions, NEW published, Commit(t, published),
         NEW u \in Transactions
  PROVE  /\ u = t => transactions'[u].pc = "IDLE"
         /\ u # t => transactions'[u] = transactions[u]
<1>1. transactions'[t] = Idle
  BY CommitEffect
<1>2. u # t => transactions'[u] = transactions[u]
  BY CommitEffect
<1> QED
  BY <1>1, <1>2 DEF Idle

LEMMA CommitReferences ==
  ASSUME TypeInv, LockInv, ReferenceInv, NEW t \in Transactions, NEW published, Commit(t, published)
  PROVE  ReferenceInv'
<1> DEFINE x == transactions[t]
<1>1. /\ x.pc = "VALID" /\ x.id \in Ids /\ x.document \in Documents[x.id]
      /\ x.document.refs \subseteq Ids
  BY CommitEffect
<1>2. /\ x.method # "DELETE" => x.document.refs \subseteq x.locked /\ ReferencesActive(x.document)
      /\ x.method = "DELETE" => Unreferenced(x.id)
  BY <1>1 DEF ReferenceInv, ValidInv
<1>3. \A j \in Ids : Active(j) => Document(j).refs \subseteq Ids
  BY DEF TypeInv, RowsInv
<1>4. NoDangling'
  <2> SUFFICES ASSUME NEW j \in Ids, Active(j)', NEW r \in Document(j).refs'
               PROVE  Active(r)'
    BY DEF NoDangling
  <2>1. CASE j = x.id
    <3>1. x.method # "DELETE" /\ r \in x.document.refs
      BY <1>1, <2>1, CommitRows
    <3>2. r \in Ids /\ Active(r)
      BY <1>1, <1>2, <3>1 DEF ReferencesActive
    <3> QED
      BY <3>1, <3>2, CommitRows
  <2>2. CASE j # x.id
    <3>1. Active(j) /\ r \in Document(j).refs /\ Active(r) /\ r \in Ids
      BY <1>3, <2>2, CommitRows DEF ReferenceInv, NoDangling
    <3>2. CASE r = x.id
      <4>1. x.method # "DELETE"
        BY <1>2, <3>1, <3>2 DEF Unreferenced, Referring
      <4> QED
        BY <3>1, <3>2, <4>1, CommitRows
    <3>3. CASE r # x.id
      BY <3>1, <3>3, CommitRows
    <3> QED
      BY <3>2, <3>3
  <2> QED
    BY <2>1, <2>2
<1>5. ASSUME NEW u \in Transactions PROVE ValidInv!(u)'
  <2>1. CASE u = t
    BY <2>1, CommitEnds
  <2>2. CASE u # t /\ transactions[u].pc = "VALID" /\ transactions[u].method # "DELETE"
    <3> DEFINE y == transactions[u]
    <3>1. transactions'[u] = y
      BY <2>2, CommitEffect
    <3>2. y.document.refs \subseteq y.locked /\ ReferencesActive(y.document)
      BY <2>2 DEF ReferenceInv, ValidInv
    <3>3. y.document.refs \subseteq Ids
      BY <2>2 DEF TypeInv, OpenInv
    <3>4. \A r \in y.document.refs : r # x.id
      BY <2>2, <3>2, CommitEffect DEF Shared, ReferencesActive
    <3>5. ReferencesActive(y.document)'
      BY <3>1, <3>2, <3>3, <3>4, CommitRows DEF ReferencesActive
    <3> QED
      BY <2>2, <3>1, <3>2, <3>5
  <2>3. CASE u # t /\ transactions[u].pc = "VALID" /\ transactions[u].method = "DELETE"
    <3> DEFINE y == transactions[u]
    <3>1. transactions'[u] = y
      BY <2>3, CommitEffect
    <3>2. Unreferenced(y.id) /\ y.id \in Exclusive(u)
      BY <2>3 DEF ReferenceInv, ValidInv, Exclusive
    <3>3. ASSUME NEW j \in Ids, Active(j)', y.id \in Document(j).refs' PROVE FALSE
      <4>1. CASE j = x.id
        BY <1>2, <2>3, <3>2, <3>3, <4>1, CommitRows DEF LockInv, Shared
      <4>2. CASE j # x.id
        BY <3>2, <3>3, <4>2, CommitRows DEF Unreferenced, Referring
      <4> QED
        BY <4>1, <4>2
    <3>4. Unreferenced(y.id)'
      BY <3>1, <3>3 DEF Unreferenced, Referring
    <3> QED
      BY <2>3, <3>1, <3>4
  <2>4. CASE u # t /\ transactions[u].pc # "VALID"
    BY <2>4, CommitEffect
  <2> QED
    BY <2>1, <2>2, <2>3, <2>4
<1> QED
  BY <1>4, <1>5 DEF ReferenceInv, ValidInv

-----------------------------------------------------------------------------
(***************************************************************************)
(* The address plan                                                        *)
(***************************************************************************)
LEMMA CommitPlan ==
  ASSUME TypeInv, LockInv, ReferenceInv, PlanInv, AddressPlanSound,
         NEW t \in Transactions, NEW published, Commit(t, published)
  PROVE  PlanInv' /\ AddressPlanSound'
<1> DEFINE x == transactions[t]
<1>1. /\ x.pc = "VALID" /\ x.id \in Ids /\ x.document \in Documents[x.id]
      /\ RowAsExpected(t)
  BY CommitEffect
<1>2. x.method # "DELETE" =>
        x.document.refs \subseteq Shared(t) /\ OverlayFits(x.id, x.document)
        /\ \A r \in x.document.refs : Active(r)
  BY <1>1 DEF ReferenceInv, ValidInv, PlanInv, Shared, ReferencesActive
<1>3. \A g \in Ids : \A m \in Members(g)' :
        /\ m \in Ids /\ Active(m)' /\ Document(m).segment' = g
        /\ Kind[m] \in {"ATTACHMENT", "PREFIX"}
        /\ m # x.id => m \in Members(g)
        /\ m = x.id => x.method # "DELETE" /\ x.document.segment = g
  BY CommitRows DEF Members, ActiveOfKind
<1>4. AddressPlanSound'
  <2> SUFFICES ASSUME NEW g \in Ids, Kind[g] = "SEGMENT", Active(g)', NEW m \in Members(g)'
               PROVE  InPlan(m, Document(m).addresses', Document(g).addresses')
    BY DEF AddressPlanSound, ActiveOfKind
  <2>1. CASE m = x.id
    <3>1. g # x.id /\ g # NoId /\ x.document.segment = g /\ x.method # "DELETE"
      BY <1>3, <2>1
    <3>2. InPlan(x.id, x.document.addresses, Document(g).addresses)
      BY <1>2, <1>3, <2>1, <3>1 DEF OverlayFits
    <3>3. Document(m)' = x.document
      BY <1>1, <2>1, CommitRows
    <3>4. Document(g)' = Document(g)
      BY <3>1, CommitRows
    <3> QED
      BY <2>1, <3>2, <3>3, <3>4
  <2>2. CASE m # x.id /\ g = x.id
    <3>0. Active(g)' = (x.method # "DELETE")
      BY <2>2, CommitRows
    <3>1. m \in Members(x.id) /\ x.method # "DELETE"
      BY <1>3, <2>2, <3>0
    <3>2. InPlan(m, Document(m).addresses, x.document.addresses)
      BY <1>2, <2>2, <3>1 DEF OverlayFits
    <3> QED
      BY <1>3, <2>2, <3>2, CommitRows
  <2>3. CASE m # x.id /\ g # x.id
    BY <1>3, <2>3, CommitRows DEF AddressPlanSound, ActiveOfKind
  <2> QED
    BY <2>1, <2>2, <2>3
<1>5. ASSUME NEW u \in Transactions,
             transactions'[u].pc = "VALID", transactions'[u].method # "DELETE", RowAsExpected(u)'
      PROVE  OverlayFits(transactions[u].id, transactions[u].document)'
  <2> DEFINE y == transactions[u]
  <2>1. u # t /\ transactions'[u] = y
    BY <1>5, CommitEnds
  <2>2. y.id \in Ids /\ y.document \in Documents[y.id] /\ y.pc = "VALID" /\ y.method # "DELETE"
    BY <1>5, <2>1 DEF TypeInv, OpenInv
  <2>3. RowAsExpected(u)
    <3>1. CASE y.method = "POST"
      BY <1>5, <2>1, <2>2, <3>1, CommitRows DEF RowAsExpected
    <3>2. CASE y.method # "POST"
      BY <2>2, <3>2 DEF TypeInv, OpenInv, RowAsExpected
    <3> QED
      BY <3>1, <3>2
  <2>4. OverlayFits(y.id, y.document)
    BY <2>2, <2>3 DEF PlanInv
  <2>5. CASE Kind[y.id] = "SEGMENT"
    <3>1. ASSUME NEW m \in Members(y.id)'
          PROVE  InPlan(m, Document(m).addresses', y.document.addresses)
      <4>1. m # x.id
        <5> SUFFICES ASSUME m = x.id PROVE FALSE
          OBVIOUS
        <5>1. x.document.segment = y.id /\ x.method # "DELETE"
          BY <1>3, <2>1, <2>2
        <5>2. y.id \in x.document.refs
          BY <1>1, <2>2, <5>1
        <5>3. y.id \in Shared(t) /\ Active(y.id)
          BY <1>2, <5>1, <5>2
        <5>4. y.method # "POST"
          BY <2>3, <5>3 DEF RowAsExpected, Active
        <5>5. y.id \in Exclusive(u)
          BY <2>2, <5>4 DEF Exclusive
        <5> QED
          BY <2>1, <5>3, <5>5 DEF LockInv
      <4>2. m \in Members(y.id) /\ m \in Ids
        BY <1>3, <2>1, <2>2, <4>1
      <4> QED
        BY <2>4, <2>5, <4>1, <4>2, CommitRows DEF OverlayFits
    <3> QED
      BY <2>1, <2>5, <3>1 DEF OverlayFits
  <2>6. CASE Kind[y.id] # "SEGMENT" /\ y.document.segment # NoId
    <3>1. y.document.segment \in y.document.refs /\ y.document.segment \in Ids
      BY <2>2, <2>6
    <3>2. y.document.segment \in Shared(u) /\ Active(y.document.segment)
      BY <2>2, <3>1 DEF ReferenceInv, ValidInv, Shared, ReferencesActive
    <3>3. y.document.segment # x.id
      BY <2>1, <3>2, CommitEffect
    <3> QED
      BY <2>1, <2>4, <2>6, <3>1, <3>3, CommitRows DEF OverlayFits
  <2>7. CASE Kind[y.id] # "SEGMENT" /\ y.document.segment = NoId
    BY <2>1, <2>7 DEF OverlayFits
  <2> QED
    BY <2>5, <2>6, <2>7
<1>6. PlanInv'
  BY <1>5, CommitEffect DEF PlanInv, Idle
<1> QED
  BY <1>4, <1>6

\* A new identity of a Node changes no reference and no address of the plan.
LEMMA ReplaceSound ==
  ASSUME TypeInv, ReferenceInv, PlanInv, AddressPlanSound,
         NEW i \in Ids, NEW d \in Documents[i], ReplaceNodeIdentity(i, d)
  PROVE  ReferenceInv' /\ PlanInv' /\ AddressPlanSound'
<1>1. \A j \in Ids : /\ Active(j)' = Active(j)
                     /\ Document(j).segment' = Document(j).segment
                     /\ Document(j).refs' = Document(j).refs
                     /\ Kind[j] # "NODE" => Document(j)' = Document(j)
  BY ReplaceKeeps DEF Active, Document
<1>2. NoDangling'
  <2> SUFFICES ASSUME NEW j \in Ids, Active(j)', NEW r \in Document(j).refs'
               PROVE  Active(r)'
    BY DEF NoDangling
  <2>1. Active(j) /\ r \in Document(j).refs
    BY <1>1
  <2>2. r \in Ids /\ Active(r)
    BY <2>1 DEF ReferenceInv, NoDangling, TypeInv, RowsInv
  <2> QED
    BY <1>1, <2>2
<1>3. \A g \in Ids : Members(g)' = Members(g)
  BY <1>1 DEF Members, ActiveOfKind
<1>4. \A g \in Ids : \A m \in Members(g) : m \in Ids /\ Document(m)' = Document(m)
  BY <1>1 DEF Members, ActiveOfKind
<1>5. AddressPlanSound'
  <2> SUFFICES ASSUME NEW g \in Ids, Kind[g] = "SEGMENT", Active(g)', NEW m \in Members(g)'
               PROVE  InPlan(m, Document(m).addresses', Document(g).addresses')
    BY DEF AddressPlanSound, ActiveOfKind
  <2>1. Active(g) /\ m \in Members(g) /\ Document(m)' = Document(m) /\ Document(g)' = Document(g)
    BY <1>1, <1>3, <1>4
  <2> QED
    BY <2>1 DEF AddressPlanSound, ActiveOfKind
<1>6. ASSUME NEW u \in Transactions PROVE ValidInv!(u)' /\ PlanInv!(u)'
  <2> DEFINE y == transactions[u]
  <2>1. transactions'[u] = y
    BY ReplaceEffect
  <2>2. y.pc # "IDLE" => y.id \in Ids /\ y.document \in Documents[y.id]
    BY DEF TypeInv, OpenInv
  <2>3. ValidInv!(u)'
    <3>1. y.pc = "VALID" /\ ReferencesActive(y.document) => ReferencesActive(y.document)'
      BY <1>1, <2>1, <2>2 DEF ReferencesActive
    <3>2. y.pc = "VALID" /\ Unreferenced(y.id) => Unreferenced(y.id)'
      BY <1>1, <2>1, <2>2 DEF Unreferenced, Referring
    <3> QED
      BY <2>1, <3>1, <3>2 DEF ReferenceInv, ValidInv
  <2>4. ASSUME y.pc = "VALID", y.method # "DELETE", RowAsExpected(u)'
        PROVE  OverlayFits(y.id, y.document)'
    <3>1. RowAsExpected(u)
      <4>1. CASE y.method = "POST"
        BY <2>1, <2>2, <2>4, <4>1, ReplaceEffect DEF RowAsExpected
      <4>2. CASE y.method # "POST"
        BY <2>4, <4>2 DEF TypeInv, OpenInv, RowAsExpected
      <4> QED
        BY <4>1, <4>2
    <3>2. OverlayFits(y.id, y.document)
      BY <2>4, <3>1 DEF PlanInv
    <3>3. CASE Kind[y.id] = "SEGMENT"
      <4>1. ASSUME NEW m \in Members(y.id)'
            PROVE  InPlan(m, Document(m).addresses', y.document.addresses)
        BY <1>3, <1>4, <2>1, <2>2, <2>4, <3>2, <3>3, <4>1 DEF OverlayFits
      <4> QED
        BY <2>1, <3>3, <4>1 DEF OverlayFits
    <3>4. CASE Kind[y.id] # "SEGMENT" /\ y.document.segment # NoId
      <4>1. y.document.segment \in Ids /\ Kind[y.document.segment] # "NODE"
        BY <2>2, <2>4, <3>4
      <4> QED
        BY <1>1, <2>1, <3>2, <3>4, <4>1 DEF OverlayFits
    <3>5. CASE Kind[y.id] # "SEGMENT" /\ y.document.segment = NoId
      BY <2>1, <3>5 DEF OverlayFits
    <3> QED
      BY <3>3, <3>4, <3>5
  <2> QED
    BY <2>1, <2>3, <2>4
<1> QED
  BY <1>2, <1>5, <1>6 DEF ReferenceInv, ValidInv, PlanInv

\* What a mutation may rely on, and what it leaves behind.
SoundInv == TypeInv /\ LockInv /\ ReferenceInv /\ PlanInv /\ AddressPlanSound

LEMMA SoundInit == Init => SoundInv
<1> SUFFICES ASSUME Init PROVE SoundInv
  OBVIOUS
<1>1. TypeInv
  BY TypeInit
<1>2. LockInv /\ ValidInv /\ PlanInv
  BY DEF Init, LockInv, ValidInv, PlanInv, Idle, Exclusive, Shared
<1>3. \A i \in Ids : /\ Active(i) => i \in DOMAIN Existing
                     /\ i \in DOMAIN Existing => Active(i) /\ Document(i) = Existing[i]
  BY DEF Init, Active, Document
<1>4. NoDangling
  BY <1>3 DEF NoDangling
<1>5. AddressPlanSound
  <2> SUFFICES ASSUME NEW g \in ActiveOfKind("SEGMENT"), NEW m \in Members(g)
               PROVE  InPlan(m, Document(m).addresses, Document(g).addresses)
    BY DEF AddressPlanSound
  <2>1. g \in Ids /\ m \in DOMAIN Existing /\ g \in DOMAIN Existing /\ Existing[m].segment = g
    BY <1>3 DEF ActiveOfKind, Members
  <2>2. InPlan(m, Existing[m].addresses, Existing[g].addresses)
    BY <2>1, ExistingPlanAssumption
  <2> QED
    BY <1>3, <2>1, <2>2
<1> QED
  BY <1>1, <1>2, <1>4, <1>5 DEF SoundInv, ReferenceInv

LEMMA SoundStep == SoundInv /\ [Next]_vars => SoundInv'
<1> SUFFICES ASSUME SoundInv, [Next]_vars PROVE SoundInv'
  OBVIOUS
<1> USE DEF SoundInv
<1>1. TypeInv' /\ LockInv'
  BY TypeStep, LockStep
<1>2. ASSUME NEW t \in Transactions, NEW i \in Ids, NEW method \in Methods, NEW k \in AllKeys,
             NEW d \in Documents[i], Open(t, method, k, i, d)
      PROVE  SoundInv'
  <2>1. UNCHANGED resources /\ \A u \in Transactions \ {t} : transactions'[u] = transactions[u]
    BY <1>2 DEF Open, TypeInv, TypeOK
  <2>2. transactions'[t].pc # "VALID"
    BY <1>2 DEF Open, TypeInv, TypeOK
  <2> QED
    BY <1>1, <2>1, <2>2, QuietStep
<1>3. ASSUME NEW t \in Transactions, Validate(t) PROVE SoundInv'
  <2>1. UNCHANGED resources /\ \A u \in Transactions \ {t} : transactions'[u] = transactions[u]
    <3>1. PICK rows \in SUBSET Ids : transactions' = [transactions EXCEPT ![t] =
                   [transactions[t] EXCEPT !.pc = "VALID", !.locked = rows]]
      BY <1>3, ValidateType
    <3>2. UNCHANGED resources
      BY <1>3 DEF Validate
    <3> QED
      BY <3>1, <3>2 DEF TypeInv, TypeOK
  <2> QED
    BY <1>1, <1>3, <2>1, QuietStep
<1>4. ASSUME NEW t \in Transactions, Abort(t) PROVE SoundInv'
  <2>1. UNCHANGED resources /\ \A u \in Transactions \ {t} : transactions'[u] = transactions[u]
    BY <1>4 DEF Abort, TypeInv, TypeOK
  <2>2. transactions'[t].pc # "VALID"
    BY <1>4 DEF Abort, TypeInv, TypeOK, Idle
  <2> QED
    BY <1>1, <2>1, <2>2, QuietStep
<1>5. ASSUME NEW t \in Transactions, NEW published \in BOOLEAN, Commit(t, published) PROVE SoundInv'
  BY <1>1, <1>5, CommitReferences, CommitPlan
<1>7. ASSUME NEW i \in Ids, NEW d \in Documents[i], ReplaceNodeIdentity(i, d) PROVE SoundInv'
  BY <1>1, <1>7, ReplaceSound
<1>6. CASE UNCHANGED vars
  <2>1. NoDangling' /\ AddressPlanSound'
    BY <1>6 DEF vars, ReferenceInv, NoDangling, AddressPlanSound, Active, Document, ActiveOfKind, Members
  <2>2. ValidInv' /\ PlanInv'
    BY <1>6, QuietValid DEF vars, ReferenceInv, ValidInv, PlanInv
  <2> QED
    BY <1>1, <2>1, <2>2 DEF ReferenceInv
<1> QED
  BY <1>2, <1>3, <1>4, <1>5, <1>6, <1>7, StepKinds

LEMMA SoundInductive == Spec => []SoundInv
BY SoundInit, SoundStep, PTL DEF Spec

\* Whatever is created, edited and deleted at one time, what is active refers only
\* to what is active: between the validation of a mutation and its commit nobody
\* can delete a row that it has read FOR SHARE, and nobody can refer to a row that
\* is locked for its deletion.
THEOREM ReferencesAreWhole == Spec => []NoDangling
BY SoundInductive, PTL DEF SoundInv, ReferenceInv

\* Whatever is edited at one time, the Attachments of a Segment lie in its overlay
\* and its Prefixes outside: a member locks the Segment it was compared with, and
\* that is enough, because a Segment that is edited has its row locked.
THEOREM AddressPlanIsSound == Spec => []AddressPlanSound
BY SoundInductive, PTL DEF SoundInv

-----------------------------------------------------------------------------
(***************************************************************************)
(* Revisions and their requests                                            *)
(***************************************************************************)
\* A record is of a revision that the resource has, no two are of the same one,
\* and every revision has one, unless it is a replaced identity.
RecordInv ==
  /\ \A k \in AllKeys : records[k].id \in Ids =>
       records[k].revision \in 1..resources[records[k].id].revision
  /\ \A k, l \in AllKeys :
       records[k].id \in Ids /\ records[k].id = records[l].id /\ records[k].revision = records[l].revision
         => k = l
  /\ \A i \in Ids : \A v \in 1..resources[i].revision :
       <<i, v>> \in replacements \/ \E k \in AllKeys : records[k].id = i /\ records[k].revision = v
  /\ \A i \in Ids : \A v \in Nat : <<i, v>> \in replacements =>
       v <= resources[i].revision /\ \A k \in AllKeys : records[k].id = i => records[k].revision # v

LEMMA RecordInit == Init => RecordInv
<1> SUFFICES ASSUME Init PROVE RecordInv
  OBVIOUS
<1>1. \A k \in AllKeys : /\ k \in DOMAIN Existing => records[k].id = k /\ records[k].revision = 1
                         /\ k \notin DOMAIN Existing => records[k].id = NoId
  BY DEF Init, NoRecord
<1>2. \A i \in Ids : resources[i].revision = IF i \in DOMAIN Existing THEN 1 ELSE 0
  BY DEF Init
<1>3. replacements = {}
  BY DEF Init
<1> QED
  BY <1>1, <1>2, <1>3 DEF RecordInv, AllKeys

LEMMA RecordStep == SoundInv /\ RecordInv /\ [Next]_vars => RecordInv'
<1> SUFFICES ASSUME SoundInv, RecordInv, [Next]_vars PROVE RecordInv'
  OBVIOUS
<1>1. CASE UNCHANGED <<resources, records, replacements>>
  BY <1>1 DEF RecordInv
<1>2. ASSUME NEW t \in Transactions, NEW published \in BOOLEAN, Commit(t, published) PROVE RecordInv'
  <2> DEFINE x == transactions[t]
  <2>1. x.id \in Ids /\ x.key \in AllKeys /\ resources[x.id].revision \in Nat
    BY <1>2, CommitEffect DEF SoundInv, TypeInv, TypeOK, OpenInv
  <2>2. x.revision = resources[x.id].revision + 1
    <3>1. RowAsExpected(t) /\ (x.method = "POST" => x.revision = 1)
      BY <1>2, CommitEffect DEF SoundInv, TypeInv, OpenInv
    <3> QED
      BY <2>1, <3>1 DEF RowAsExpected, SoundInv, TypeInv, RowsInv
  <2>3. records[x.key].id \notin Ids
    BY <1>2 DEF Commit, Writable, Replayed, NoRecord
  <2>4. records' = [records EXCEPT ![x.key] = [method |-> x.method, id |-> x.id, revision |-> x.revision]]
    BY <1>2 DEF Commit
  <2>5. /\ \A j \in Ids : j # x.id => resources'[j].revision = resources[j].revision
        /\ \A j \in Ids : j = x.id => resources'[j].revision = resources[j].revision + 1
    BY <1>2, <2>2, CommitRows DEF SoundInv
  <2>6. /\ \A k \in AllKeys : k # x.key => records'[k] = records[k]
        /\ \A k \in AllKeys : k = x.key =>
             records'[k].id = x.id /\ records'[k].revision = resources[x.id].revision + 1
    <3>1. records \in [AllKeys -> [method : Methods \cup {"NONE"}, id : Ids \cup {NoId}, revision : Nat]]
      BY DEF SoundInv, TypeInv, TypeOK
    <3> HIDE DEF x
    <3> QED
      BY <2>2, <2>4, <3>1
  <2>7. \A j \in Ids : resources[j].revision \in Nat
    BY DEF SoundInv, TypeInv, TypeOK
  <2> HIDE DEF x
  <2>11. UNCHANGED replacements
    BY <1>2 DEF Commit
  <2>8. ASSUME NEW k \in AllKeys, records'[k].id \in Ids
        PROVE  records'[k].revision \in 1..resources'[records'[k].id].revision
    <3>1. CASE k = x.key
      BY <2>1, <2>5, <2>6, <3>1
    <3>2. CASE k # x.key
      BY <2>5, <2>6, <2>7, <2>8, <3>2 DEF RecordInv
    <3> QED
      BY <3>1, <3>2
  <2>9. ASSUME NEW k \in AllKeys, NEW l \in AllKeys, records'[k].id \in Ids,
               records'[k].id = records'[l].id, records'[k].revision = records'[l].revision
        PROVE  k = l
    <3>1. ASSUME NEW m \in AllKeys, m # x.key, records'[m].id = x.id
          PROVE  records'[m].revision # resources[x.id].revision + 1
      BY <2>1, <2>6, <3>1 DEF RecordInv
    <3> QED
      BY <2>6, <2>9, <3>1 DEF RecordInv
  <2>10. ASSUME NEW i \in Ids, NEW v \in 1..resources'[i].revision
         PROVE  <<i, v>> \in replacements'
                \/ \E k \in AllKeys : records'[k].id = i /\ records'[k].revision = v
    <3>1. CASE i = x.id /\ v = resources[i].revision + 1
      BY <2>1, <2>6, <3>1
    <3>2. CASE ~(i = x.id /\ v = resources[i].revision + 1)
      <4>1. v \in 1..resources[i].revision
        BY <2>5, <2>7, <3>2
      <4>2. CASE <<i, v>> \in replacements
        BY <2>11, <4>2
      <4>3. ASSUME NEW k \in AllKeys, records[k].id = i, records[k].revision = v
            PROVE  records'[k].id = i /\ records'[k].revision = v
        BY <2>3, <2>6, <4>3
      <4> QED
        BY <4>1, <4>2, <4>3 DEF RecordInv
    <3> QED
      BY <3>1, <3>2
  <2>12. ASSUME NEW i \in Ids, NEW v \in Nat, <<i, v>> \in replacements'
         PROVE  /\ v <= resources'[i].revision
                /\ \A k \in AllKeys : records'[k].id = i => records'[k].revision # v
    <3>1. v <= resources[i].revision /\ \A k \in AllKeys : records[k].id = i => records[k].revision # v
      BY <2>11, <2>12 DEF RecordInv
    <3> QED
      BY <2>5, <2>6, <2>7, <3>1
  <2> QED
    BY <2>8, <2>9, <2>10, <2>12 DEF RecordInv
<1>3. ASSUME NEW i \in Ids, NEW d \in Documents[i], ReplaceNodeIdentity(i, d) PROVE RecordInv'
  <2>1. /\ UNCHANGED records
        /\ replacements' = replacements \cup {<<i, resources[i].revision + 1>>}
        /\ resources'[i].revision = resources[i].revision + 1
        /\ \A j \in Ids : j # i => resources'[j].revision = resources[j].revision
    BY <1>3, ReplaceEffect DEF SoundInv
  <2>2. \A j \in Ids : resources[j].revision \in Nat
    BY DEF SoundInv, TypeInv, TypeOK
  <2>3. ASSUME NEW k \in AllKeys, records[k].id \in Ids
        PROVE  records[k].revision \in 1..resources[records[k].id].revision
    BY <2>3 DEF RecordInv
  <2>4. \A j \in Ids : resources'[j].revision \in Nat /\ resources'[j].revision >= resources[j].revision
    BY <2>1, <2>2
  <2>5. ASSUME NEW k \in AllKeys, records'[k].id \in Ids
        PROVE  records'[k].revision \in 1..resources'[records'[k].id].revision
    BY <2>1, <2>2, <2>3, <2>4, <2>5
  <2>6. ASSUME NEW j \in Ids, NEW v \in 1..resources'[j].revision
        PROVE  <<j, v>> \in replacements'
               \/ \E k \in AllKeys : records'[k].id = j /\ records'[k].revision = v
    <3>1. CASE j = i /\ v = resources[i].revision + 1
      BY <2>1, <3>1
    <3>2. CASE ~(j = i /\ v = resources[i].revision + 1)
      <4>1. v \in 1..resources[j].revision
        BY <2>1, <2>2, <3>2
      <4> QED
        BY <2>1, <4>1 DEF RecordInv
    <3> QED
      BY <3>1, <3>2
  <2>7. ASSUME NEW j \in Ids, NEW v \in Nat, <<j, v>> \in replacements'
        PROVE  /\ v <= resources'[j].revision
               /\ \A k \in AllKeys : records'[k].id = j => records'[k].revision # v
    <3>1. CASE <<j, v>> \in replacements
      <4>1. v <= resources[j].revision /\ \A k \in AllKeys : records[k].id = j => records[k].revision # v
        BY <3>1 DEF RecordInv
      <4> QED
        BY <2>1, <2>2, <2>4, <4>1
    <3>2. CASE j = i /\ v = resources[i].revision + 1
      BY <2>1, <2>2, <2>3, <3>2
    <3> QED
      BY <2>1, <2>7, <3>1, <3>2
  <2>8. \A k, l \in AllKeys :
          records'[k].id \in Ids /\ records'[k].id = records'[l].id
          /\ records'[k].revision = records'[l].revision => k = l
    BY <2>1 DEF RecordInv
  <2> QED
    BY <2>5, <2>6, <2>7, <2>8 DEF RecordInv
<1> QED
  BY <1>1, <1>2, <1>3, QuietRows DEF SoundInv

\* Each revision of a resource was made once, by one management request or by the
\* replacement of a Node's identity: a second mutation on the same revision finds
\* its row locked or changed, a second use of a key finds its record, and an
\* identity is replaced only while no mutation has the row.
THEOREM RevisionsAreAccounted == Spec => []RevisionsAccounted
<1>1. RecordInv => RevisionsAccounted
  <2> SUFFICES ASSUME RecordInv, NEW i \in Ids, NEW v \in 1..resources[i].revision
               PROVE  /\ <<i, v>> \in replacements => MadeBy(i, v) = {}
                      /\ <<i, v>> \notin replacements => Cardinality(MadeBy(i, v)) = 1
    BY DEF RevisionsAccounted
  <2>1. CASE <<i, v>> \in replacements
    BY <2>1 DEF RecordInv, MadeBy
  <2>2. CASE <<i, v>> \notin replacements
    <3>1. PICK k \in AllKeys : records[k].id = i /\ records[k].revision = v
      BY <2>2 DEF RecordInv
    <3>2. MadeBy(i, v) = {k}
      BY <3>1 DEF RecordInv, MadeBy
    <3> QED
      BY <2>2, <3>2, FS_Singleton
  <2> QED
    BY <2>1, <2>2
<1> QED
  BY <1>1, RecordInit, RecordStep, SoundInductive, PTL DEF Spec

-----------------------------------------------------------------------------
(***************************************************************************)
(* The Segments that are told                                              *)
(***************************************************************************)
\* dependent_segments finds the Segments of the resource and of what refers to it.
LEMMA DependentsFound ==
  ASSUME NEW i \in Ids
  PROVE  Concerned(resources, i) \subseteq DependentSegments(i)
<1> SUFFICES ASSUME NEW j \in Ids, Active(j), j = i \/ i \in Document(j).refs,
                    SegmentOf(j, Document(j)) # NoId
             PROVE  SegmentOf(j, Document(j)) \in DependentSegments(i)
  BY DEF Concerned, Active, Document
<1>1. ASSUME NEW S, Referring(S \cup {i}) \subseteq S, j # i PROVE j \in S
  BY <1>1 DEF Referring
<1>2. j \in Dependents(i)
  BY <1>1 DEF Dependents
<1> QED
  BY <1>2 DEF DependentSegments

LEMMA CommitTold ==
  ASSUME SoundInv, NEW t \in Transactions, NEW published \in BOOLEAN, Commit(t, published)
  PROVE  SegmentsToldStep
<1> SUFFICES ASSUME NEW i \in Ids,
                    resources[i].document # resources'[i].document \/ resources[i].state # resources'[i].state,
                    NEW g \in Concerned(resources, i) \cup Concerned(resources', i),
                    resources'[g].state = "ACTIVE"
             PROVE  heads'[g] > heads[g]
  BY DEF SegmentsToldStep
<1>1. Commit(t, published)
  OBVIOUS
<1> DEFINE x == transactions[t]
<1>2. i = x.id
  BY <1>1, CommitRows DEF SoundInv
<1>3. published
  <2> SUFFICES ASSUME FALSE \in RequiresPublication(t) PROVE FALSE
    BY <1>1 DEF Commit
  <2>1. x.method = "PUT" /\ x.document = Document(x.id)
    BY DEF RequiresPublication
  <2>2. Active(i) /\ Document(i)' = x.document /\ Active(i)'
    <3>1. TypeInv /\ LockInv
      BY DEF SoundInv
    <3>2. x.pc = "VALID"
      BY <1>1, <3>1, CommitEffect
    <3>3. Active(i)
      BY <1>2, <2>1, <3>1, <3>2 DEF TypeInv, OpenInv
    <3> QED
      BY <1>1, <1>2, <2>1, <3>1, <3>3, CommitRows
  <2> QED
    BY <1>2, <2>1, <2>2 DEF Active, Document
<1>4. g \in DependentSegments(i) \/ g \in {SegmentOf(i, x.document)} \ {NoId}
  <2>1. CASE g \in Concerned(resources, i)
    BY <2>1, DependentsFound
  <2>2. CASE g \in Concerned(resources', i)
    <3>1. PICK j \in Ids : /\ Active(j)' /\ (j = i \/ i \in Document(j).refs')
                           /\ g = SegmentOf(j, Document(j)') /\ g # NoId
      BY <2>2 DEF Concerned, Active, Document
    <3>2. CASE j = i
      BY <1>1, <1>2, <3>1, <3>2, CommitRows DEF SoundInv
    <3>3. CASE j # i
      <4>1. Active(j) /\ i \in Document(j).refs /\ g = SegmentOf(j, Document(j))
        BY <1>1, <1>2, <3>1, <3>3, CommitRows DEF SoundInv
      <4> QED
        BY <3>1, <4>1, DependentsFound DEF Concerned, Active, Document
    <3> QED
      BY <3>2, <3>3
  <2> QED
    BY <2>1, <2>2
<1>5. g \in Segments
  <2>1. DependentSegments(i) \subseteq Segments
    BY DependentSegmentsType DEF SoundInv, TypeInv
  <2>2. x.document \in Documents[i]
    BY <1>1, <1>2, CommitEffect DEF SoundInv
  <2> QED
    BY <1>4, <2>1, <2>2, DocumentType
<1>6. g \in Told(t)
  <2>1. x.method = "DELETE" => ~Active(i)'
    BY <1>1, <1>2, CommitRows DEF SoundInv
  <2>2. x.method = "DELETE" => g # i
    BY <2>1 DEF Active
  <2> QED
    BY <1>2, <1>4, <2>2 DEF Told
<1>7. heads'[g] = heads[g] + 1
  BY <1>1, <1>3, <1>5, <1>6 DEF Commit
<1> QED
  BY <1>5, <1>7 DEF SoundInv, TypeInv, TypeOK

\* A Node's dependents are told of its new identity.
LEMMA ReplaceTold ==
  ASSUME SoundInv, NEW n \in Ids, NEW d \in Documents[n], ReplaceNodeIdentity(n, d)
  PROVE  SegmentsToldStep
<1> SUFFICES ASSUME NEW i \in Ids,
                    resources[i].document # resources'[i].document \/ resources[i].state # resources'[i].state,
                    NEW g \in Concerned(resources, i) \cup Concerned(resources', i)
             PROVE  heads'[g] > heads[g]
  BY DEF SegmentsToldStep
<1>1. /\ \A j \in Ids : j # n => resources'[j] = resources[j]
      /\ \A j \in Ids : /\ resources'[j].state = resources[j].state
                       /\ Document(j).segment' = Document(j).segment
                       /\ Document(j).refs' = Document(j).refs
  <2>1. TypeInv
    BY DEF SoundInv
  <2> QED
    BY <2>1, ReplaceEffect, ReplaceKeeps DEF Document
<1>2. i = n
  BY <1>1
<1>3. Concerned(resources', i) = Concerned(resources, i)
  BY <1>1 DEF Concerned, SegmentOf, Document
<1>4. g \in DependentSegments(n) /\ g \in Segments
  BY <1>2, <1>3, DependentsFound, DependentSegmentsType DEF SoundInv, TypeInv
<1>5. heads'[g] = heads[g] + 1
  BY <1>4 DEF ReplaceNodeIdentity
<1> QED
  BY <1>4, <1>5 DEF SoundInv, TypeInv, TypeOK

LEMMA ToldStep == SoundInv /\ [Next]_vars => [SegmentsToldStep]_vars
<1> SUFFICES ASSUME SoundInv, [Next]_vars PROVE SegmentsToldStep
  OBVIOUS
<1>1. CASE UNCHANGED <<resources, records, replacements>>
  BY <1>1 DEF SegmentsToldStep
<1> QED
  BY <1>1, QuietRows, CommitTold, ReplaceTold DEF SoundInv

\* Every mutation queues a generation for every Segment whose configuration it
\* changes: the one the resource leaves, the one it enters, and those of the
\* resources that refer to it when it is written.
THEOREM SegmentsAreTold == Spec => SegmentsTold
BY ToldStep, SoundInductive, PTL DEF Spec, SegmentsTold

=============================================================================

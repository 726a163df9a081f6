-------------------------- MODULE ControlResources --------------------------
(***************************************************************************)
(* The management mutations of one tenant: resources with their references *)
(* and revisions, the idempotency records, and the generation jobs that a  *)
(* mutation owes to the Segments that depend on what it changed; and the   *)
(* other writer of resources, a Node's completed re-enrollment.            *)
(*                                                                         *)
(*   cloud-api/src/management.rs  create, replace, delete                  *)
(*   cloud-db/src/control.rs      ControlRepository::mutate                *)
(*   cloud-db/src/enrollment_completion.rs  replace_control_node_identity  *)
(*                                                                         *)
(* A mutation is one InnoDB transaction (READ COMMITTED) in three steps.   *)
(* Open looks for the idempotency record, locks its own row and reads the  *)
(* Segments that depend on it.  Validate reads what is there by then: some *)
(* of it plainly, some FOR SHARE, which waits for whoever has the row and  *)
(* keeps it until the end.  A row that is not there yet is locked by       *)
(* nobody.  Commit writes everything.  A transaction that waits simply has *)
(* not taken its step; a deadlock, a refusal or a crash is an Abort.       *)
(*                                                                         *)
(* A resource is known by the idempotency key that it was created with     *)
(* (idempotent_resource_id).  Of a document the model keeps the Segment,   *)
(* the references and the addresses: the overlay of a Segment, the address *)
(* of an Attachment, the networks of a Prefix, the identity of a Node.     *)
(***************************************************************************)
EXTENDS Naturals, FiniteSets

CONSTANTS
  Ids,          \* resources
  Kind,         \* the kind of each
  Documents,    \* the documents that each may be given
  Existing,     \* the resources at the start, a function to their documents
  Keys,         \* idempotency keys of replace and delete
  Transactions, \* mutations being served at one time
  MaxReplacements, \* bound on the Node identities that are replaced
  NoId

Kinds == {"NODE", "SITE", "SEGMENT", "ATTACHMENT", "PREFIX", "PEER", "RELAY",
          "PATH_CANDIDATE", "EGRESS", "SERVICE_POLICY", "DNS_INTENT"}

ASSUME BoundAssumption == MaxReplacements \in Nat

ASSUME InstanceAssumption ==
  /\ Kind \in [Ids -> Kinds]
  /\ NoId \notin Ids
  /\ DOMAIN Documents = Ids /\ DOMAIN Existing \subseteq Ids
  /\ Ids \cap Keys = {}

\* resource_references: whatever belongs to a Segment refers to it.
ASSUME DocumentsAssumption ==
  \A i \in Ids : \A d \in Documents[i] :
    /\ d.refs \subseteq Ids
    /\ d.segment = NoId \/ (d.segment \in d.refs /\ Kind[d.segment] = "SEGMENT")

\* The tenant starts with resources that are complete among themselves.
ASSUME ExistingAssumption ==
  \A i \in DOMAIN Existing :
    Existing[i] \in Documents[i] /\ Existing[i].refs \subseteq DOMAIN Existing

VARIABLES
  resources,    \* sdwan_control_resources with sdwan_control_resource_references
  records,      \* management_idempotency_records
  replacements, \* the audit of replaced Node identities: <<node, new revision>>
  heads,        \* segment_generation_heads: desired_revision of each Segment
  transactions  \* mutations under way, with what each has read

vars == <<resources, records, replacements, heads, transactions>>

-----------------------------------------------------------------------------
(***************************************************************************)
(* State                                                                   *)
(***************************************************************************)
Segments == {i \in Ids : Kind[i] = "SEGMENT"}
Nodes == {i \in Ids : Kind[i] = "NODE"}
AllDocuments == UNION {Documents[i] : i \in Ids}
AllKeys == Ids \cup Keys
Methods == {"POST", "PUT", "DELETE"}
Steps == {"IDLE", "OPEN", "VALID"}

NoDocument == [segment |-> NoId, refs |-> {}, addresses |-> {}]
NoRecord == [method |-> "NONE", id |-> NoId, revision |-> 0]
TransactionRows ==
  [pc : Steps, method : Methods \cup {"NONE"}, key : AllKeys \cup {NoId},
   id : Ids \cup {NoId}, revision : Nat, document : AllDocuments \cup {NoDocument},
   affected : SUBSET Segments, locked : SUBSET Ids]
Idle == [pc |-> "IDLE", method |-> "NONE", key |-> NoId, id |-> NoId, revision |-> 0,
         document |-> NoDocument, affected |-> {}, locked |-> {}]

Init ==
  /\ resources = [i \in Ids |->
       IF i \in DOMAIN Existing
       THEN [state |-> "ACTIVE", revision |-> 1, document |-> Existing[i]]
       ELSE [state |-> "ABSENT", revision |-> 0, document |-> NoDocument]]
  /\ records = [k \in AllKeys |->
       IF k \in DOMAIN Existing
       THEN [method |-> "POST", id |-> k, revision |-> 1] ELSE NoRecord]
  /\ replacements = {}
  /\ heads = [g \in Segments |-> 0]
  /\ transactions = [t \in Transactions |-> Idle]

Active(i) == resources[i].state = "ACTIVE"
Document(i) == resources[i].document
Others(t) == {u \in Transactions \ {t} : transactions[u].pc # "IDLE"}
ActiveOfKind(k) == {i \in Ids : Kind[i] = k /\ Active(i)}

\* affected_segment_id
SegmentOf(i, d) == IF Kind[i] = "SEGMENT" THEN i ELSE d.segment

\* dependent_segments: the Segments of the resource and of everything that refers
\* to it, directly or through others: the least set that the recursive query closes.
Referring(S) == {i \in Ids : Active(i) /\ Document(i).refs \cap S # {}}
Dependents(i) ==
  LET closed == {S \in SUBSET Referring(Ids) : Referring(S \cup {i}) \subseteq S}
  IN {j \in Ids : j = i \/ \A S \in closed : j \in S}
\* Mutated form of DependentSegments: also of resources that have no Segment.
DependentSegmentsOrNull(i) ==
  {SegmentOf(j, Document(j)) : j \in {k \in Dependents(i) : Active(k)}}
DependentSegments(i) ==
  {SegmentOf(j, Document(j)) : j \in {k \in Dependents(i) : Active(k)}} \ {NoId}

-----------------------------------------------------------------------------
(***************************************************************************)
(* Locks                                                                   *)
(***************************************************************************)
\* Its own row, locked FOR UPDATE when the transaction begins.
Exclusive(t) ==
  IF transactions[t].pc # "IDLE" /\ transactions[t].method # "POST"
  THEN {transactions[t].id} ELSE {}
\* The rows it has read FOR SHARE.
Shared(t) == transactions[t].locked

\* Mutated form of RowFree: readers FOR SHARE are not waited for.
RowFreeOfWriters(t, i) == \A u \in Others(t) : i \notin Exclusive(u)
\* The row can be locked FOR UPDATE.
RowFree(t, i) == \A u \in Others(t) : i \notin Exclusive(u) \cup Shared(u)

\* Mutated form of RowsShareable: the rows are read without a lock.
RowsReadable(t, rows) == TRUE
\* The rows can be locked FOR SHARE.
RowsShareable(t, rows) == \A u \in Others(t) : Exclusive(u) \cap rows = {}

Siblings(i, d) ==
  {j \in Ids \ {i} : Active(j) /\ Kind[j] = Kind[i] /\ Document(j).segment = d.segment}
Members(g) ==
  {i \in ActiveOfKind("ATTACHMENT") \cup ActiveOfKind("PREFIX") : Document(i).segment = g}
AttachmentOf(r) == IF Kind[r] = "EGRESS" THEN Document(r).refs \cap ActiveOfKind("ATTACHMENT") ELSE {}

\* What validate_cross_resource reads FOR SHARE: the resources it refers to, the
\* Attachment behind an Egress, the siblings of a Prefix or Peer, the members of
\* a Segment.
RowsRead(i, d) ==
  d.refs \cup (UNION {AttachmentOf(r) : r \in d.refs})
    \cup (IF Kind[i] \in {"PREFIX", "PEER"} THEN Siblings(i, d) ELSE {})
    \cup (IF Kind[i] = "SEGMENT" THEN Members(i) ELSE {})

-----------------------------------------------------------------------------
(***************************************************************************)
(* validate_cross_resource                                                 *)
(***************************************************************************)
\* site_attached_to_segment, for every Site that the document names; a plain read.
NeedsAttachment == {"PREFIX", "PEER", "SERVICE_POLICY", "DNS_INTENT"}
SitesAttached(i, d) ==
  Kind[i] \in NeedsAttachment =>
    \A s \in {r \in d.refs : Kind[r] = "SITE"} :
      \E a \in ActiveOfKind("ATTACHMENT") : Document(a).segment = d.segment /\ s \in Document(a).refs

\* The address of an Attachment and the identity of a Node are compared with the
\* others by a plain read as well.
FreeOfTwins(i, d) ==
  Kind[i] \in {"ATTACHMENT", "NODE"} =>
    \A j \in Siblings(i, d) : Document(j).addresses \cap d.addresses = {}

\* Nothing that is active refers to what is deleted.
Unreferenced(i) == Referring({i}) = {}

\* Everything it refers to is ACTIVE.
ReferencesActive(d) == \A r \in d.refs : Active(r)

\* Two Prefixes of a Segment that overlap, two Peers of the same Sites.
Collide(i, d, e) ==
  IF Kind[i] = "PREFIX" THEN d.addresses \cap e.addresses # {} ELSE d.refs = e.refs
SiblingsApart(i, d) ==
  Kind[i] \in {"PREFIX", "PEER"} => \A j \in Siblings(i, d) : ~Collide(i, d, Document(j))

\* An Attachment lies in the overlay of its Segment, a Prefix outside it; the
\* Segment compares the members it has (validate_segment_overlay).
InPlan(i, addresses, overlay) ==
  CASE Kind[i] = "ATTACHMENT" -> addresses \subseteq overlay
    [] Kind[i] = "PREFIX" -> addresses \cap overlay = {}
    [] OTHER -> TRUE

\* The resources the tenant starts with keep to their address plan.
ASSUME ExistingPlanAssumption ==
  \A i \in DOMAIN Existing : Existing[i].segment # NoId =>
    InPlan(i, Existing[i].addresses, Existing[Existing[i].segment].addresses)

OverlayFits(i, d) ==
  IF Kind[i] = "SEGMENT"
  THEN \A m \in Members(i) : InPlan(m, Document(m).addresses, d.addresses)
  ELSE d.segment # NoId => InPlan(i, d.addresses, Document(d.segment).addresses)

\* What it refers to belongs to its own Segment (validate_path_candidate_references
\* and the arms of Egress, ServicePolicy and DnsIntent); an Egress stands for its
\* Attachment.
SegmentsOfReference(r) ==
  IF Kind[r] = "EGRESS" THEN {Document(a).segment : a \in AttachmentOf(r)} ELSE {Document(r).segment}
SameSegment(i, d) ==
  d.segment # NoId => \A r \in d.refs : SegmentsOfReference(r) \subseteq {NoId, d.segment}

-----------------------------------------------------------------------------
(***************************************************************************)
(* mutate                                                                  *)
(***************************************************************************)
\* The key was used: the request is answered from the record and changes nothing.
Replayed(k) == records[k] # NoRecord

\* The row that the request may build on.  A create has none; If-Match names the
\* revision of the others, and a stale one is refused.
Open(t, method, k, i, d) ==
  /\ transactions[t].pc = "IDLE"
  /\ ~Replayed(k)
  /\ IF method = "POST" THEN k = i ELSE k \in Keys /\ Active(i) /\ RowFree(t, i)
  /\ transactions' = [transactions EXCEPT ![t] =
       [pc |-> "OPEN", method |-> method, key |-> k, id |-> i,
        revision |-> (IF method = "POST" THEN 0 ELSE resources[i].revision) + 1,
        document |-> d, affected |-> DependentSegments(i), locked |-> {}]]
  /\ UNCHANGED <<resources, records, replacements, heads>>

Create(t, i) == \E d \in Documents[i] : Open(t, "POST", i, i, d)
Replace(t, k, i) == \E d \in Documents[i] : Open(t, "PUT", k, i, d)
\* The document of a deletion is the one that is deleted.
Delete(t, k, i) == Open(t, "DELETE", k, i, Document(i))

\* Nothing refers to what is deleted; what is written fits the others.
Valid(method, i, d) ==
  IF method = "DELETE" THEN Unreferenced(i)
  ELSE /\ ReferencesActive(d) /\ SameSegment(i, d)
       /\ SitesAttached(i, d) /\ FreeOfTwins(i, d)
       /\ SiblingsApart(i, d) /\ OverlayFits(i, d)

Validate(t) ==
  LET i == transactions[t].id
      d == transactions[t].document
      rows == IF transactions[t].method = "DELETE" THEN {} ELSE RowsRead(i, d) IN
    /\ transactions[t].pc = "OPEN"
    /\ RowsShareable(t, rows)
    /\ Valid(transactions[t].method, i, d)
    /\ transactions' = [transactions EXCEPT ![t].pc = "VALID", ![t].locked = rows]
    /\ UNCHANGED <<resources, records, replacements, heads>>

RowAsExpected(t) ==
  LET i == transactions[t].id IN
    IF transactions[t].method = "POST" THEN resources[i].state = "ABSENT"
    ELSE resources[i].revision + 1 = transactions[t].revision
\* Mutated form of Writable: a record of another request is overwritten.
WritableOverRecord(t) == RowAsExpected(t)
\* The primary keys of the resource and of the record are free.
Writable(t) == RowAsExpected(t) /\ ~Replayed(transactions[t].key)

\* Mutated form of Told: only the Segments that depend on the new document.
ToldAfter(t) == {SegmentOf(transactions[t].id, transactions[t].document)} \ {NoId}
\* The Segments that get a job: those that depended on the resource when the
\* mutation began, those that depend on it now, and its own; but not a Segment that
\* is deleted, whose queue ends with it (SegmentPublication).
Told(t) ==
  LET i == transactions[t].id
      own == {SegmentOf(i, transactions[t].document)} \ {NoId}
      all == transactions[t].affected \cup DependentSegments(i) \cup own IN
    IF transactions[t].method = "DELETE" /\ Kind[i] = "SEGMENT" THEN all \ {i} ELSE all

\* mutation_requires_publication: a service policy may be edited in a way that no
\* Segment has to know of, none of which shows in what the model keeps of it.
RequiresPublication(t) ==
  LET i == transactions[t].id IN
    IF /\ transactions[t].method = "PUT" /\ Kind[i] = "SERVICE_POLICY"
       /\ transactions[t].document = Document(i)
    THEN BOOLEAN ELSE {TRUE}

Commit(t, published) ==
  LET i == transactions[t].id IN
    /\ transactions[t].pc = "VALID"
    /\ Writable(t)
    /\ resources' = [resources EXCEPT ![i] =
         [state |-> IF transactions[t].method = "DELETE" THEN "DELETED" ELSE "ACTIVE",
          revision |-> transactions[t].revision, document |-> transactions[t].document]]
    /\ published \in RequiresPublication(t)
    /\ heads' = [g \in Segments |-> heads[g] + IF published /\ g \in Told(t) THEN 1 ELSE 0]
    /\ records' = [records EXCEPT ![transactions[t].key] =
         [method |-> transactions[t].method, id |-> i, revision |-> transactions[t].revision]]
    /\ transactions' = [transactions EXCEPT ![t] = Idle]
    /\ UNCHANGED replacements

Abort(t) ==
  /\ transactions[t].pc # "IDLE"
  /\ transactions' = [transactions EXCEPT ![t] = Idle]
  /\ UNCHANGED <<resources, records, replacements, heads>>

-----------------------------------------------------------------------------
(***************************************************************************)
(* replace_control_node_identity, in the transaction that completes the    *)
(* re-enrollment of a Node (DeviceEnrollment)                              *)
(***************************************************************************)
\* The row can be locked FOR UPDATE by a transaction that is none of these.
RowUnlocked(i) == \A u \in Transactions : i \notin Exclusive(u) \cup Shared(u)

\* The device has just been created.
NewIdentity(d) == \A j \in Nodes : Document(j).addresses \cap d.addresses = {}

\* The row is locked first and nobody can begin to refer to it before the commit,
\* so that the transaction is one step.  It leaves no idempotency record.
ReplaceNodeIdentity(i, d) ==
  /\ Kind[i] = "NODE" /\ Active(i) /\ RowUnlocked(i)
  /\ d.segment = Document(i).segment /\ d.refs = Document(i).refs /\ NewIdentity(d)
  /\ Cardinality(replacements) < MaxReplacements
  /\ resources' = [resources EXCEPT ![i] =
       [state |-> "ACTIVE", revision |-> resources[i].revision + 1, document |-> d]]
  /\ replacements' = replacements \cup {<<i, resources[i].revision + 1>>}
  /\ heads' = [g \in Segments |-> heads[g] + IF g \in DependentSegments(i) THEN 1 ELSE 0]
  /\ UNCHANGED <<records, transactions>>

Next ==
  \/ \E t \in Transactions, i \in Ids :
       \/ Create(t, i)
       \/ \E k \in Keys : Replace(t, k, i) \/ Delete(t, k, i)
  \/ \E t \in Transactions : Validate(t) \/ Abort(t)
  \/ \E t \in Transactions, published \in BOOLEAN : Commit(t, published)
  \/ \E i \in Ids : \E d \in Documents[i] : ReplaceNodeIdentity(i, d)

Spec == Init /\ [][Next]_vars

-----------------------------------------------------------------------------
(***************************************************************************)
(* Properties                                                              *)
(***************************************************************************)
\* Rows and transactions have their types; in particular what a mutation found to
\* depend on its resource is a set of Segments (dependent_segments).
TypeOK ==
  /\ resources \in [Ids -> [state : {"ABSENT", "ACTIVE", "DELETED"}, revision : Nat,
                            document : AllDocuments \cup {NoDocument}]]
  /\ records \in [AllKeys -> [method : Methods \cup {"NONE"}, id : Ids \cup {NoId}, revision : Nat]]
  /\ replacements \subseteq Nodes \X Nat
  /\ heads \in [Segments -> Nat]
  /\ transactions \in [Transactions -> TransactionRows]

\* However creates, edits and deletions interleave, what is active refers only to
\* what is active: a resource is not deleted under a mutation that has just found
\* it and is about to refer to it.
NoDangling == \A i \in Ids : Active(i) => \A r \in Document(i).refs : Active(r)

\* However the overlay of a Segment and its members are edited at one time, its
\* Attachments lie in it and its Prefixes outside.
AddressPlanSound ==
  \A g \in ActiveOfKind("SEGMENT") : \A m \in Members(g) :
    InPlan(m, Document(m).addresses, Document(g).addresses)

\* The requests that made revision v of a resource, by their idempotency records.
MadeBy(i, v) == {k \in AllKeys : records[k].id = i /\ records[k].revision = v}

\* Every revision of a resource was made once, however often requests are repeated
\* and however many were based on the same revision: by one management request,
\* which has its record, or, for a Node, by the replacement of its identity, which
\* has none and which no request based on the revision before it survives.
RevisionsAccounted ==
  \A i \in Ids : \A v \in 1..resources[i].revision :
    IF <<i, v>> \in replacements THEN MadeBy(i, v) = {}
    ELSE Cardinality(MadeBy(i, v)) = 1

\* The Segments of a resource and of those that refer to it, in some state of the rows.
Concerned(rows, i) ==
  {SegmentOf(j, rows[j].document) :
     j \in {k \in Ids : rows[k].state = "ACTIVE" /\ (k = i \/ i \in rows[k].document.refs)}} \ {NoId}

\* A mutation queues a generation for every Segment whose configuration it
\* changes: the one it leaves and the one it enters, and those of the resources
\* that refer to it, also of one that came while the mutation was under way.
SegmentsToldStep ==
  \A i \in Ids :
    resources[i].document # resources'[i].document \/ resources[i].state # resources'[i].state =>
      \A g \in Concerned(resources, i) \cup Concerned(resources', i) :
        resources'[g].state = "ACTIVE" => heads'[g] > heads[g]
SegmentsTold == [][SegmentsToldStep]_vars
=============================================================================

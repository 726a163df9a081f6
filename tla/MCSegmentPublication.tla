------------------------ MODULE MCSegmentPublication ------------------------
(* Small instances of SegmentPublication for TLC. *)
EXTENDS SegmentPublication, TLC

Symmetry == Permutations(Lanes)

\* The deep run follows edits of a Segment that stays ACTIVE; disabling and
\* deleting it, and transport-identity requests, are left to the other runs.
EditsOnly ==
  /\ control.state \in {"ABSENT", "ACTIVE"}
  /\ \A r \in Revisions : jobs[r].hash = FreshHash

\* At any time at most one job is a permanent failure: the failed transport
\* edit that later jobs must carry along.
OneFailure ==
  /\ EditsOnly
  /\ Cardinality({r \in Revisions : jobs[r].state = "PERMANENT_FAILURE"}) <= 1
=============================================================================

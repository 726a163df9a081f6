--------------------------- MODULE PublicationLog ---------------------------
(***************************************************************************)
(* What the publication pipeline of a Segment promises its Runtimes: a log *)
(* of signed generations that only grows at its end, in the order in which *)
(* the configuration was requested.  log[g] is the desired revision that   *)
(* generation g was published for.  Implemented by SegmentPublication.     *)
(***************************************************************************)
EXTENDS Naturals, Sequences

VARIABLES desired, log

LogInit == desired = 0 /\ log = <<>>

Request == desired' = desired + 1 /\ UNCHANGED log

Publish(r) ==
  /\ \A g \in 1..Len(log) : log[g] < r
  /\ log' = Append(log, r)
  /\ UNCHANGED desired

LogNext == Request \/ \E r \in 1..desired : Publish(r)

LogSpec == LogInit /\ [][LogNext]_<<desired, log>>
=============================================================================

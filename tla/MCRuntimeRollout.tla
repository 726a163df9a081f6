-------------------------- MODULE MCRuntimeRollout --------------------------
(* Small instances of RuntimeRollout for TLC. *)
EXTENDS RuntimeRollout, TLC

Symmetry == Permutations(Devices)

\* Two reports are under way in all.
TwoReports == Cardinality(reports) <= 2

\* At most two reports are under way, and as long as a device is detached at
\* most one of them.
ReportOrRoam == Cardinality(reports) + Cardinality(Devices \ attached) <= 2

\* One transport publication, then policy publications that overtake receipts;
\* every attached device takes part.
PolicyChain ==
  /\ TwoReports
  /\ \A g \in 1..current : members[g] = Devices
  /\ \A g \in 2..current : mode[g] = "POLICY_ONLY"
=============================================================================

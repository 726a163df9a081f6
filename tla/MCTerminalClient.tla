-------------------------- MODULE MCTerminalClient --------------------------
(* Small instances of TerminalClient for TLC. *)
EXTENDS TerminalClient, TLC

CONSTANTS MaxEvents, MaxDocuments

Symmetry == Permutations(Keys) \cup Permutations(Requests) \cup Permutations(Calls)

Above(n, least) == IF n > least THEN n - least ELSE 0
\* What happens to a device that was set up: time passes, its policy is replaced,
\* its key is rotated, Nodes leave, its mode is changed.
Events ==
  clock + Above(Len(policies), 1) + Above(Cardinality({k \in Keys : keys[k] # "UNUSED"}), 1)
  + Cardinality(Nodes \ candidates)
  + Cardinality({r \in Requests : modeRequests[r] # "NONE"})

Busy == {c \in Calls : ~At(c, "IDLE")}
\* Few documents are stored or under way.  A policy that allows global mode and
\* the settings are there before the device; receipts come from a device of one
\* Grant with one other request under way; a mode is changed while a Projection
\* is signed.
Bounds ==
  /\ device.status = "ABSENT" => Events = 0 /\ bound = 0
  /\ device.status # "ABSENT" => policies # <<>> /\ settings > 0
  /\ policies # <<>> => policies[1]
  /\ Events <= MaxEvents
  /\ Len(grants) + Len(projections) + Cardinality(Busy) <= MaxDocuments
  /\ receipts # <<>> => Events = 0 /\ Len(grants) = 1 /\ Cardinality(Busy) <= 1
  /\ (\E c \in Busy : calls[c].step \in {"MODE", "MODE_SET"}) =>
       \A c \in Busy : calls[c].step \notin {"GRANT", "GRANT_NODES", "GRANT_SIGN", "GRANT_STORE",
                                       "GRANT_INSERT"}
=============================================================================

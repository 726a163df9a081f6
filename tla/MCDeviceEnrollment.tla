------------------------- MODULE MCDeviceEnrollment -------------------------
(* Small instances of DeviceEnrollment for TLC. *)
EXTENDS DeviceEnrollment, TLC

Symmetry == Permutations(Instances) \cup Permutations(RequestIds) \cup Permutations(Calls)

\* Two requests overlap when they are about one code or one certificate, or when
\* a renewal meets the completion of a recovery.
Overlap(a, b) ==
  \/ calls[a].pc = calls[b].pc /\ calls[a].ref = calls[b].ref
  \/ {calls[a].pc, calls[b].pc} = {"COMPLETE", "RENEW"}

\* What was put out of use, by an operator or by time.
Spoilt ==
  Cardinality({k \in Codes : codes[k].lapsed \/ challenges[k].lapsed
                             \/ codes[k].status \in {"REVOKED", "EXPIRED"}})
  + Cardinality({x \in Certificates : certificates[x].age \in {"EXPIRED", "DEAD"}})

\* The first code enrolls, the others recover; one thing is spoilt.
Bounds ==
  /\ \A a, b \in {c \in Calls : ~At(c, "IDLE")} : Overlap(a, b)
  /\ \A k \in Codes \ {1} : codes[k].status # "ABSENT" => codes[k].replaces
  /\ Spoilt <= 1
=============================================================================

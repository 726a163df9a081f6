------------------------- MODULE MCIdentitySessions -------------------------
(* Small instances of IdentitySessions for TLC. *)
EXTENDS IdentitySessions, TLC

Symmetry == Permutations(Clients) \cup Permutations(Users \ DemoUsers)

\* A request that writes and sends a link or an invitation is served alone;
\* what it leaves behind meets every other request.
MailAlone ==
  \A c, d \in Clients :
    /\ clients[c].pc \in {"SUPERSEDE", "INSERT", "MAIL", "ROLLBACK", "MARK",
                        "INVITE_MAIL", "WITHDRAW"}
    /\ c # d
    => clients[d].pc = "IDLE"

\* A second invitation is sent only when the first has been used up.
Reinvited ==
  Cardinality({i \in Invitations : invitations[i].state \in {"OPEN", "REVOKED"}}) <= 1

Bounds == MailAlone /\ Reinvited
=============================================================================

------------------------- MODULE MCControlResources -------------------------
(* Small instances of ControlResources for TLC. *)
EXTENDS ControlResources, TLC

CONSTANTS g, h, s, n, a, p, y

MCIds == {g, h, s, n, a, p, y}
MCKind == g :> "SEGMENT" @@ h :> "SEGMENT" @@ s :> "SITE" @@ n :> "NODE" @@ a :> "ATTACHMENT"
          @@ p :> "PREFIX" @@ y :> "SERVICE_POLICY"
Doc(segment, refs, addresses) == [segment |-> segment, refs |-> refs, addresses |-> addresses]

\* Two Segments, the overlay of one may grow, a Site, a Node whose identity may be
\* replaced, the Site's Attachment to either Segment, a Prefix behind it that the
\* overlay may grow over, and a policy for it.
MCDocuments ==
  g :> {Doc(NoId, {}, {1}), Doc(NoId, {}, {1, 2})}
  @@ h :> {Doc(NoId, {}, {1})}
  @@ s :> {Doc(NoId, {}, {})}
  @@ n :> {Doc(NoId, {}, {1}), Doc(NoId, {}, {2})}
  @@ a :> {Doc(g, {g, s, n}, {1}), Doc(h, {h, s, n}, {1})}
  @@ p :> {Doc(g, {g, s}, {2})}
  @@ y :> {Doc(g, {g, s}, {}), Doc(h, {h, s}, {})}
MCExisting ==
  g :> Doc(NoId, {}, {1}) @@ h :> Doc(NoId, {}, {1}) @@ s :> Doc(NoId, {}, {})
  @@ n :> Doc(NoId, {}, {1})

Symmetry == Permutations(Keys) \cup Permutations(Transactions)
=============================================================================

--------------------------- MODULE MCFrozenInputs ---------------------------
(***************************************************************************)
(* Instances of FrozenInputs for TLC.                                      *)
(***************************************************************************)
EXTENDS FrozenInputs, TLC

CONSTANTS b1, b2, p1, p2, c1, c2, body1, body2, k1, r1, f1, q1, q2

\* The first body names the second context, the others none.
NamesOne == [body \in Bodies |-> IF body = body1 THEN c2 ELSE None]

Alike == Permutations(Builders) \cup Permutations(Printers) \cup Permutations(Profiles)

\* The two halves share the run and the table of pins, and never a reference.
Apart ==
  \/ made = 0 /\ \A p \in Printers : pc[p] = "idle"
  \/ Len(journal) = 1 /\ DOMAIN artifacts = {} /\ begun = 0 /\ \A b \in Builders : pc[b] = "idle"
=============================================================================

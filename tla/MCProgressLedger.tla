-------------------------- MODULE MCProgressLedger --------------------------
EXTENDS ProgressLedger, TLC

CONSTANTS h1, h2, w1, w2, s1, p1, c1, c2

\* Threads of one kind behave alike, and so do contexts.
Alike == Permutations(Handlers) \cup Permutations(Workers) \cup Permutations(Contexts)

=============================================================================

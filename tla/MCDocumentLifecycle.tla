------------------------ MODULE MCDocumentLifecycle ------------------------
(***************************************************************************)
(* Instances of DocumentLifecycle for TLC.                                 *)
(***************************************************************************)
EXTENDS DocumentLifecycle, TLC

\* Every snapshot is of the one kind.
OneKind == [s \in Snapshots |-> CHOOSE d \in Documents : TRUE]

\* Handlers behave alike, and so do snapshots of one kind and contents.
Alike == Permutations(Threads) \cup Permutations(Snapshots) \cup Permutations(Contents)

=============================================================================

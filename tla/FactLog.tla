------------------------------ MODULE FactLog ------------------------------
(***************************************************************************)
(* What the ledger of apps/api/research_runs.py promises to its producers: *)
(* a journal per run that only grows, in which a fact is written once and  *)
(* under a key that has not been used before.                              *)
(***************************************************************************)
EXTENDS Sequences

CONSTANTS Runs, Keys, Facts

VARIABLES
  log,     \* the facts of a run in the order of commitment
  used     \* the keys of each run under which something has been recorded

Init ==
  /\ log = [r \in Runs |-> <<>>]
  /\ used = {}

IsLogged(f) == \E r \in Runs : \E i \in DOMAIN log[r] : log[r][i] = f

\* A fact that is new is appended to the journal, under a key that is new there.
Record(r, k) ==
  /\ <<r, k>> \notin used /\ used' = used \cup {<<r, k>>}
  /\ \E f \in Facts :
       ~IsLogged(f) /\ log' = [log EXCEPT ![r] = Append(@, f)]

Next == \E r \in Runs, k \in Keys : Record(r, k)

Spec == Init /\ [][Next]_<<log, used>>

=============================================================================

-------------------------- MODULE MCBrowserSessions --------------------------
(***************************************************************************)
(* Instances of BrowserSessions for TLC.                                   *)
(***************************************************************************)
EXTENDS BrowserSessions, TLC

CONSTANTS t1, t2, acc1, acc2

Symmetric == Permutations(Threads) \cup Permutations(Accounts)
=============================================================================

---------------------------- MODULE MCRenderJobs ----------------------------
(***************************************************************************)
(* Instances of RenderJobs for TLC.                                        *)
(***************************************************************************)
EXTENDS RenderJobs, TLC

\* Every target is asked for by the one tenant.
OneTenant == [x \in Targets |-> CHOOSE n \in Tenants : TRUE]

\* One target belongs to the first tenant, the others to the second.
TwoTenants ==
  LET first == CHOOSE x \in Targets : TRUE
      n1 == CHOOSE n \in Tenants : TRUE
  IN  [x \in Targets |-> IF x = first THEN n1 ELSE CHOOSE n \in Tenants : n # n1]

\* Handlers behave alike.
Alike == Permutations(Clients)

=============================================================================

------------------------ MODULE MCAgentCredentials ------------------------
(* The plans of two runs: a baseline task that asks for the quota role on  *)
(* a pinned plan, and a privileged task that declines it on an unpinned    *)
(* plan under both hatches.                                                *)
EXTENDS AgentCredentials, TLC

Plan(privileged, quota, pinned, hatches) ==
  [privileged |-> privileged, quota_writes |-> quota, pinned |-> pinned,
   allow_ambient |-> hatches, allow_admin |-> hatches]

MCPlans == {Plan(FALSE, TRUE, TRUE, FALSE), Plan(TRUE, FALSE, FALSE, TRUE)}
\* Two runs differ only in what they draw, so either may be the first.
Symmetry == Permutations(Runs)
===========================================================================

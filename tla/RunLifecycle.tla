----------------------------- MODULE RunLifecycle -----------------------------
(***************************************************************************)
(* What one task run promises, whatever fails on the way (_run_one of      *)
(* devops_bench/evalharness/default.py seen from outside): it acquires     *)
(* resources, the agent acts with what was acquired by then, exactly one   *)
(* outcome is settled, and only then are resources given back, all but     *)
(* those the operator asked to keep.                                       *)
(***************************************************************************)
CONSTANT Resource

VARIABLES
  kept,                \* what the operator asked to keep
  phase, held, outcome

lifecycleVars == <<kept, phase, held, outcome>>

Init ==
  /\ kept \subseteq Resource
  /\ phase = "preparing"
  /\ held = {}
  /\ outcome = "none"

Acquire ==
  /\ phase = "preparing"
  /\ held' \in SUBSET Resource
  /\ held \subseteq held'
  /\ UNCHANGED <<kept, phase, outcome>>

Act ==
  /\ phase = "preparing"
  /\ phase' = "acting"
  /\ UNCHANGED <<kept, held, outcome>>

\* Success needs an agent that acted; an interrupted run has no outcome.  What
\* was being acquired when the run failed is held as well.
Settle ==
  /\ phase \in {"preparing", "acting"}
  /\ phase' = "settled"
  /\ \/ outcome' = "success" /\ phase = "acting"
     \/ outcome' \in {"failed", "interrupted"}
  /\ held' \in SUBSET Resource
  /\ held \subseteq held'
  /\ phase = "acting" => held' = held
  /\ UNCHANGED kept

Release ==
  /\ phase = "settled"
  /\ held' \in SUBSET held
  /\ held \cap kept \subseteq held'
  /\ UNCHANGED <<kept, phase, outcome>>

Finish ==
  /\ phase = "settled"
  /\ held' = held \cap kept
  /\ phase' = "over"
  /\ UNCHANGED <<kept, outcome>>

Next == Acquire \/ Act \/ Settle \/ Release \/ Finish

Spec == Init /\ [][Next]_lifecycleVars
=============================================================================

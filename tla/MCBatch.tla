------------------------------- MODULE MCBatch -------------------------------
(***************************************************************************)
(* Plans that bring out one concern each: a batch in the operator's home,  *)
(* with a task that comes back and a second one whose prompt does or does  *)
(* not name the same deliverable; the same with a sandboxed task between;  *)
(* attempts and invocations of a short batch; and the sandbox executor.    *)
(***************************************************************************)
EXTENDS Batch

CONSTANTS A, B, report, seed, skills

MCTasks == {A, B}
MCNames == {report, seed, skills}
MCBaseline == {skills}

MCHomes == {[n \in MCNames |-> CASE n = report -> r [] n = seed -> s [] n = skills -> "skills"] :
              r \in {"none", "old", A}, s \in {"none", "input"}}

Base == [tasks |-> <<A>>, exempt |-> {}, sandboxed |-> FALSE, owner |-> "", parallel |-> FALSE,
         sibling |-> "none", remap |-> FALSE, attempts |-> 1, invocations |-> 1,
         homes |-> {[n \in MCNames |-> IF n = skills THEN "skills" ELSE "none"]},
         named |-> [t \in MCTasks |-> IF t = A THEN {report, seed} ELSE {}],
         delivered |-> [t \in MCTasks |-> IF t = A THEN {seed} ELSE {}]]

BothNamed == [t \in MCTasks |-> {report, seed}]

Ambient == {[Base EXCEPT !.tasks = <<A, B, A>>, !.homes = MCHomes],
            [Base EXCEPT !.tasks = <<A, B, A>>, !.homes = MCHomes, !.named = BothNamed]}
(* A leftover that is a copy of the input, or of what the environment holds. *)
Copies == {[Base EXCEPT !.tasks = <<A, A>>, !.homes =
              {[n \in MCNames |-> CASE n = report -> r [] n = seed -> s [] n = skills -> "old"] :
                 r \in {"old", "input"}, s \in {"none", "input"}}]}
MCMixed == {[Base EXCEPT !.homes = MCHomes, !.tasks = <<A, B, A>>, !.sandboxed = TRUE, !.exempt = {A}]}
Repeated == {[Base EXCEPT !.tasks = ts, !.sandboxed = TRUE, !.attempts = 2, !.invocations = n] :
               ts \in {<<A>>}, n \in {2, 3}}
Boxed == {[Base EXCEPT !.sandboxed = TRUE, !.attempts = 2, !.remap = r, !.owner = o,
                       !.parallel = p, !.sibling = s] :
            r \in BOOLEAN, o \in {"", "x"}, p \in BOOLEAN, s \in {"none", "", "y"}}

(* Another harness beside this one is what "parallel", or an owner, is for. *)
MCPlans == Ambient \cup Copies \cup MCMixed \cup Repeated
           \cup {p \in Boxed : p.sibling # "none" => p.parallel \/ p.owner # ""}

=============================================================================

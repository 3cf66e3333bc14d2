-------------------------- MODULE VerificationTree --------------------------
(***************************************************************************)
(* verification/runner.py: one verification entry, evaluated over its tree *)
(* of checks (sequence, parallel, any, none, leaf) against one deadline,   *)
(* while the cluster changes and calls take their time, fail or are given  *)
(* up on.  The leaves poll as in verification/base.py and                  *)
(* k8s/conditions.py.                                                      *)
(*                                                                         *)
(* A child that a parallel group gave up on runs on in its thread; nobody  *)
(* reads what it answers, so it is dropped here.                           *)
(***************************************************************************)
EXTENDS Integers, Sequences, FiniteSets

CONSTANTS
  Entries,             \* [kind, kids, mode, timeout, call]: a tree with root 1
  MinLeaf,             \* _MIN_LEAF_BUDGET_SECONDS
  Grace,               \* _CHILD_HANDOFF_GRACE_SEC
  Ceiling,             \* _SINGLE_SHOT_WAIT_CEILING_SEC
  InitialDelay, MaxDelay,
  MaxChanges,          \* conditions that change, in a behaviour
  MaxErrors            \* calls that could not be evaluated, in a behaviour

Kinds    == {"leaf", "sequence", "parallel", "any", "none"}
Statuses == {"pass", "fail", "error"}

\* Children have greater numbers than their parent, and one parent each; a group has
\* one child at least.
ASSUME TreeAssumption ==
  /\ \A e \in Entries :
       /\ e.kind \in Seq(Kinds) /\ Len(e.kind) > 0 /\ DOMAIN e.kids = DOMAIN e.kind
       /\ \A n \in DOMAIN e.kind :
            /\ e.kids[n] \in Seq(n + 1 .. Len(e.kind))
            /\ e.kids[n] = <<>> <=> e.kind[n] = "leaf"
            /\ \A m \in DOMAIN e.kind : \A i \in DOMAIN e.kids[n], j \in DOMAIN e.kids[m] :
                 e.kids[n][i] = e.kids[m][j] => n = m /\ i = j
       /\ e.mode \in {"converge", "assert"}
       /\ e.timeout \in Nat /\ e.call \in Nat
  /\ MinLeaf \in Nat /\ Grace \in Nat /\ Ceiling \in Nat
  /\ InitialDelay \in Nat \ {0} /\ MaxDelay \in Nat /\ InitialDelay <= MaxDelay
  /\ MaxChanges \in Nat /\ MaxErrors \in Nat

\* A call needs some time, and a single pass may wait longer than a handoff.
ASSUME BudgetAssumption == MinLeaf # 0 /\ Grace <= Ceiling

VARIABLES
  entry,
  now,                 \* time.monotonic(), from the start of run_entry
  holds,               \* per leaf: whether its condition holds
  node,                \* per node: the state of its evaluation
  changes, errors

vars == <<entry, now, holds, node, changes, errors>>

Nodes    == DOMAIN entry.kind
Leaves   == {n \in Nodes : entry.kind[n] = "leaf"}
Kids(n)  == {entry.kids[n][i] : i \in DOMAIN entry.kids[n]}
Width(n) == Len(entry.kids[n])
Least(a, b) == IF a < b THEN a ELSE b

Below[n \in Nodes] == Kids(n) \cup UNION {Below[k] : k \in Kids(n)}

\* converge; single: single_shot; round: single_shot within a converging group's
\* round (bounded_round), where the deadline is real.
Modes == {"converge", "single", "round"}

\* An evaluation that has not begun, and one that begins.  `seen' is what a leaf
\* observed last; `exhausted' is written for it when the deadline was gone.
Idle == [phase |-> "idle", how |-> "single", at |-> 0, due |-> 0,
         delay |-> InitialDelay, seen |-> "unseen", status |-> "error"]
Begun(how) == [Idle EXCEPT !.phase = "run", !.how = how]
Given(status, seen) == [Idle EXCEPT !.phase = "done", !.status = status, !.seen = seen]

Deadline == IF entry.mode = "converge" THEN entry.timeout ELSE 0

TypeOK ==
  /\ entry \in Entries
  /\ now \in Nat
  /\ holds \in [Leaves -> BOOLEAN]
  /\ node \in [Nodes -> [phase : {"idle", "run", "call", "sleep", "wait", "done"},
                         how : Modes, at : Nat, due : Nat,
                         delay : InitialDelay .. MaxDelay,
                         seen : Statuses \cup {"unseen", "exhausted"},
                         status : Statuses]]
  /\ \A n \in Nodes : node[n].at <= Width(n)
  /\ changes \in 0 .. MaxChanges
  /\ errors \in 0 .. MaxErrors

Init ==
  /\ entry \in Entries
  /\ now = 0
  /\ holds \in [Leaves -> BOOLEAN]
  /\ node = [n \in Nodes |->
              IF n = 1 THEN Begun(IF entry.mode = "converge" THEN "converge" ELSE "single")
              ELSE Idle]
  /\ changes = 0
  /\ errors = 0

\* One step of the evaluation: the nodes that change, and nothing else.
Becomes(updates) ==
  /\ node' = [n \in Nodes |-> IF n \in DOMAIN updates THEN updates[n] ELSE node[n]]
  /\ UNCHANGED <<entry, now, holds, changes>>

Only(n, state) == [m \in {n} |-> state]
At(n, kind, phase) == entry.kind[n] = kind /\ node[n].phase = phase
Done(n) == node[n].phase = "done"

-----------------------------------------------------------------------------
(* Leaves: _run_leaf, and verify through _poll_to_result and poll_until. *)

\* Doubled after every failed check, up to a bound.
BackoffFault(delay) == 2 * delay
Backoff(delay) == Least(2 * delay, MaxDelay)

\* Asleep until the next check; the last sleep is cut at the deadline.
Asleep(n) == [node[n] EXCEPT !.phase = "sleep",
                             !.due = now + Least(node[n].delay, Deadline - now),
                             !.delay = Backoff(node[n].delay)]

\* Too little is left on the deadline; the verifier is not called.
LeafExpires(n) ==
  /\ At(n, "leaf", "run")
  /\ node[n].how = "converge" /\ Deadline - now < MinLeaf
  /\ Becomes(Only(n, Given("fail", "exhausted")))
  /\ UNCHANGED errors

BeginCall(n) ==
  /\ \/ At(n, "leaf", "run") /\ ~(node[n].how = "converge" /\ Deadline - now < MinLeaf)
     \/ At(n, "leaf", "sleep") /\ now = node[n].due
  /\ Becomes(Only(n, [node[n] EXCEPT !.phase = "call", !.due = now + entry.call]))
  /\ UNCHANGED errors

\* The call answers for the cluster as it is when it answers.  The last observation
\* is the result, also when it is that nothing could be observed.
EndCall(n) ==
  /\ At(n, "leaf", "call")
  /\ \E answer \in {IF holds[n] THEN "pass" ELSE "fail", "error"} :
       /\ IF answer = "error" THEN errors < MaxErrors /\ errors' = errors + 1
          ELSE UNCHANGED errors
       /\ LET observed == [node[n] EXCEPT !.seen = answer, !.status = answer] IN
          IF answer = "pass" \/ node[n].how # "converge" \/ now >= Deadline
          THEN Becomes(Only(n, [observed EXCEPT !.phase = "done"]))
          ELSE Becomes(Only(n, [Asleep(n) EXCEPT !.seen = answer, !.status = answer]))

-----------------------------------------------------------------------------
(* Groups.  A child that is skipped has its status given to it. *)

\* The children after the first `at', none of which was looked at.
Skipped(n, at, status, seen) ==
  [k \in {entry.kids[n][i] : i \in at + 1 .. Width(n)} |-> Given(status, seen)]

Child(n)        == entry.kids[n][node[n].at]
Outcome(n)      == {node[k].status : k \in Kids(n)}
Finish(n, status) == [node[n] EXCEPT !.phase = "done", !.status = status]

\* The functions f and g over disjoint nodes, as one.
And(f, g) == [n \in DOMAIN f \cup DOMAIN g |-> IF n \in DOMAIN f THEN f[n] ELSE g[n]]

Conjunction(statuses) ==
  IF "fail" \in statuses THEN "fail"
  ELSE IF "error" \in statuses THEN "error" ELSE "pass"

DisjunctionFault(statuses) == IF "pass" \in statuses THEN "pass" ELSE "fail"
Disjunction(statuses) ==
  IF "pass" \in statuses THEN "pass"
  ELSE IF "error" \in statuses THEN "error" ELSE "fail"

NegatedDisjunction(statuses) ==
  IF "pass" \in statuses THEN "fail"
  ELSE IF "error" \in statuses THEN "error" ELSE "pass"

-----------------------------------------------------------------------------
(* _run_sequence: one child after the other, in the sequence's own mode. *)

SequenceExpires(n) ==
  /\ At(n, "sequence", "run")
  /\ node[n].how = "converge" /\ now >= Deadline /\ node[n].at < Width(n)
  /\ Becomes(And(Only(n, Finish(n, "fail")), Skipped(n, node[n].at, "fail", "exhausted")))
  /\ UNCHANGED errors

SequenceProceeds(n) ==
  /\ At(n, "sequence", "run")
  /\ ~(node[n].how = "converge" /\ now >= Deadline) \/ node[n].at = Width(n)
  /\ IF node[n].at = Width(n)
     THEN Becomes(Only(n, Finish(n, "pass")))
     ELSE Becomes(And(Only(n, [node[n] EXCEPT !.phase = "wait", !.at = @ + 1]),
                      Only(entry.kids[n][node[n].at + 1], Begun(node[n].how))))
  /\ UNCHANGED errors

\* The first child that does not pass ends the sequence; the rest is skipped.
SequenceHears(n) ==
  /\ At(n, "sequence", "wait") /\ Done(Child(n))
  /\ LET status == node[Child(n)].status IN
     IF status = "pass"
     THEN Becomes(Only(n, [node[n] EXCEPT !.phase = "run"]))
     ELSE Becomes(And(Only(n, Finish(n, status)),
                      Skipped(n, node[n].at, status, "unseen")))
  /\ UNCHANGED errors

-----------------------------------------------------------------------------
(* _run_any and _run_none: rounds over the children, each evaluated once;   *)
(* under converge, rounds are repeated by _poll_rounds.                     *)

IsChoice(n) == entry.kind[n] \in {"any", "none"}

\* Children never poll: one that holds to the deadline would starve its siblings.
RoundModeFault(n) == node[n].how
RoundMode(n) == IF node[n].how = "single" THEN "single" ELSE "round"

\* A converging group's own round ends at the deadline, its first child apart.
RoundExpired(n) == node[n].how = "converge" /\ node[n].at > 0 /\ now >= Deadline

ChoiceProceeds(n) ==
  /\ IsChoice(n) /\ node[n].phase = "run"
  /\ node[n].at < Width(n) /\ ~RoundExpired(n)
  /\ Becomes(And(Only(n, [node[n] EXCEPT !.phase = "wait", !.at = @ + 1]),
                 Only(entry.kids[n][node[n].at + 1], Begun(RoundMode(n)))))
  /\ UNCHANGED errors

\* A round ends without a pass: every child was looked at, or time was up.
RoundStatus(n, statuses) ==
  IF entry.kind[n] = "any" THEN Disjunction(statuses) ELSE NegatedDisjunction(statuses)

\* The group's result, or a pause before the next round.
EndRound(n, statuses, others) ==
  LET status == RoundStatus(n, statuses) IN
  IF status = "pass" \/ node[n].how # "converge" \/ now >= Deadline
  THEN Becomes(And(Only(n, Finish(n, status)), others))
  ELSE Becomes(And(Only(n, Asleep(n)), others))

RoundRunsOut(n) ==
  /\ IsChoice(n) /\ node[n].phase = "run"
  /\ node[n].at = Width(n) \/ RoundExpired(n)
  /\ LET rest == Skipped(n, node[n].at, "error", "unseen") IN
     EndRound(n, {node[entry.kids[n][i]].status : i \in 1 .. node[n].at}
                 \cup {rest[k].status : k \in DOMAIN rest}, rest)
  /\ UNCHANGED errors

\* The first child that passes ends the round.
ChoiceHears(n) ==
  /\ IsChoice(n) /\ node[n].phase = "wait" /\ Done(Child(n))
  /\ IF node[Child(n)].status = "pass"
     THEN EndRound(n, {node[entry.kids[n][i]].status : i \in 1 .. node[n].at},
                   [k \in {} |-> Idle])
     ELSE Becomes(Only(n, [node[n] EXCEPT !.phase = "run"]))
  /\ UNCHANGED errors

NextRound(n) ==
  /\ IsChoice(n) /\ node[n].phase = "sleep" /\ now = node[n].due
  /\ Becomes(And(Only(n, [node[n] EXCEPT !.phase = "run", !.at = 0]),
                 [k \in Below[n] |-> Idle]))
  /\ UNCHANGED errors

-----------------------------------------------------------------------------
(* _run_parallel: all children at once, and a bounded wait for them. *)

WaitFault(n) ==
  IF node[n].how = "converge" THEN Deadline + Grace - now
  ELSE IF Deadline > now THEN Least(Ceiling, Deadline - now) ELSE Ceiling
NoGraceFault(n) ==
  IF node[n].how = "converge" THEN Deadline - now
  ELSE IF Deadline > now THEN Least(Ceiling, Deadline - now)
  ELSE IF node[n].how = "round" THEN Grace ELSE Ceiling
Wait(n) ==
  IF node[n].how = "converge" THEN Deadline + Grace - now
  ELSE IF Deadline > now THEN Least(Ceiling, Deadline - now)
  ELSE IF node[n].how = "round" THEN Grace ELSE Ceiling

ParallelBegins(n) ==
  /\ At(n, "parallel", "run")
  /\ Becomes(And(Only(n, [node[n] EXCEPT !.phase = "wait",
                                         !.due = now + (IF Wait(n) < 0 THEN 0 ELSE Wait(n))]),
                 [k \in Kids(n) |-> Begun(node[n].how)]))
  /\ UNCHANGED errors

\* The wait ends when all children are done, or in time; a child that is not done
\* was never observed.
ParallelCollects(n) ==
  /\ At(n, "parallel", "wait")
  /\ (\A k \in Kids(n) : Done(k)) \/ now = node[n].due
  /\ LET late  == {k \in Kids(n) : ~Done(k)}
         below == UNION {Below[k] : k \in late}
     IN Becomes(And(Only(n, Finish(n, Conjunction({IF k \in late THEN "error"
                                                   ELSE node[k].status : k \in Kids(n)}))),
                    [k \in late \cup below |->
                       IF k \in late THEN Given("error", "unseen") ELSE Idle]))
  /\ UNCHANGED errors

-----------------------------------------------------------------------------
Step(n) ==
  \/ LeafExpires(n) \/ BeginCall(n) \/ EndCall(n)
  \/ SequenceExpires(n) \/ SequenceProceeds(n) \/ SequenceHears(n)
  \/ ChoiceProceeds(n) \/ RoundRunsOut(n) \/ ChoiceHears(n) \/ NextRound(n)
  \/ ParallelBegins(n) \/ ParallelCollects(n)

\* Nothing but calls, sleeps and waits takes time.
CanWait(n) ==
  \/ node[n].phase \in {"idle", "done"}
  \/ node[n].phase \in {"call", "sleep"} /\ now < node[n].due
  \/ At(n, "parallel", "wait") /\ now < node[n].due /\ \E k \in Kids(n) : ~Done(k)
  \/ entry.kind[n] # "parallel" /\ node[n].phase = "wait" /\ ~Done(Child(n))

Tick ==
  /\ ~Done(1) /\ \A n \in Nodes : CanWait(n)
  /\ now' = now + 1
  /\ UNCHANGED <<entry, holds, node, changes, errors>>

\* The cluster changes under the evaluation.
Change(n) ==
  /\ ~Done(1) /\ changes < MaxChanges
  /\ holds' = [holds EXCEPT ![n] = ~@]
  /\ changes' = changes + 1
  /\ UNCHANGED <<entry, now, node, errors>>

Evaluated == Done(1) /\ UNCHANGED vars

Next ==
  \/ ~Done(1) /\ \E n \in Nodes : Step(n)
  \/ Tick
  \/ \E n \in Leaves : Change(n)
  \/ Evaluated

Spec == Init /\ [][Next]_vars

-----------------------------------------------------------------------------
(* Properties. *)

\* The three-valued values of the nodes where the leaves, and any node else, have the
\* given ones: Kleene's logic, without time or order.
Conjoined(values) == IF "false" \in values THEN "false"
                     ELSE IF "unknown" \in values THEN "unknown" ELSE "true"
Disjoined(values) == IF "true" \in values THEN "true"
                     ELSE IF "unknown" \in values THEN "unknown" ELSE "false"
Opposite(value)   == IF value = "true" THEN "false"
                     ELSE IF value = "false" THEN "true" ELSE value

Connective(n, values) ==
  IF entry.kind[n] = "any" THEN Disjoined(values)
  ELSE IF entry.kind[n] = "none" THEN Opposite(Disjoined(values)) ELSE Conjoined(values)

Values(given) ==
  LET v[n \in Nodes] == IF n \in DOMAIN given THEN given[n]
                        ELSE Connective(n, {v[k] : k \in Kids(n)})
  IN v
Kleene(given) == Values(given)[1]

\* What this evaluation knows: its last observations; what the deadline left
\* without one counts as not having come about.
Known == [n \in Leaves \cup {m \in Nodes : node[m].seen = "exhausted"} |->
            IF node[n].seen = "pass" THEN "true"
            ELSE IF node[n].seen \in {"fail", "exhausted"} THEN "false" ELSE "unknown"]

Truth == [n \in Leaves |-> IF holds[n] THEN "true" ELSE "false"]

\* A verdict of pass or fail follows from what was observed of the leaves in the
\* evaluation that gave it, whatever was skipped, repeated, given up on or could not
\* be evaluated.
VerdictIsJustified ==
  Done(1) => /\ node[1].status = "pass" => Kleene(Known) = "true"
             /\ node[1].status = "fail" => Kleene(Known) = "false"

\* How long one pass over a node takes at most when it begins no later than the
\* deadline: in assert mode, in a round, and past the deadline under converge.
Sum(f, n) ==
  LET s[i \in 0 .. Width(n)] == IF i = 0 THEN 0 ELSE s[i - 1] + f[entry.kids[n][i]]
  IN s[Width(n)]
Most(f, n) == CHOOSE m \in {f[k] : k \in Kids(n)} : \A k \in Kids(n) : f[k] <= m

Single ==
  LET f[n \in Nodes] == IF entry.kind[n] = "leaf" THEN entry.call
                        ELSE IF entry.kind[n] = "parallel" THEN Least(Ceiling, Most(f, n))
                        ELSE Sum(f, n)
  IN f
Round ==
  LET f[n \in Nodes] == IF entry.kind[n] = "leaf" THEN entry.call
                        ELSE IF entry.kind[n] = "parallel" THEN Grace
                        ELSE Sum(f, n)
  IN f
Over ==
  LET f[n \in Nodes] == IF entry.kind[n] = "leaf" THEN entry.call
                        ELSE IF entry.kind[n] = "parallel" THEN Least(Grace, Most(f, n))
                        ELSE IF entry.kind[n] = "sequence" THEN Most(f, n)
                        ELSE Most(Round, n)
  IN f

\* An evaluation ends: on its deadline but for what was under way, which is one call
\* of a leaf, one child of a round, or the handoff of a parallel group; in assert mode
\* after one call of each leaf, or the ceiling of a parallel group.
EndsInTime ==
  now <= IF entry.mode = "converge" THEN entry.timeout + Over[1] ELSE Single[1]

\* On a cluster that does not change, where calls answer, one pass over all leaves
\* takes less than the handoff, and the deadline leaves room for it, the verdict is
\* the truth: no sibling starves a child that holds, and what polled to the very end
\* still counts.  A converging any or none that does not come about may end without a
\* verdict instead: its last round, at the deadline, skips all children but the first.
Roomy ==
  /\ changes = 0 /\ errors = 0
  /\ entry.call * Cardinality(Leaves) < Grace
  /\ IF entry.mode = "converge"
     THEN entry.timeout >= MinLeaf + entry.call * Cardinality(Leaves)
     ELSE entry.call * Cardinality(Leaves) < Ceiling

LastRoundIsCut == entry.mode = "converge" /\ \E n \in Nodes : IsChoice(n)

VerdictIsTrue ==
  Done(1) /\ Roomy =>
    IF Kleene(Truth) = "true" THEN node[1].status = "pass"
    ELSE \/ node[1].status = "fail"
         \/ LastRoundIsCut /\ node[1].status = "error"

=============================================================================

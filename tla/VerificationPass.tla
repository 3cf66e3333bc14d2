-------------------------- MODULE VerificationPass --------------------------
(***************************************************************************)
(* devops_bench/evalharness/default.py, _run_verification, with            *)
(* run_hold_window of hold.py: after the agent's turn every entry of the   *)
(* task is evaluated once, in two loops, on the harness's own thread.      *)
(*                                                                         *)
(* Only time makes this sequential code hard.  Entries take what they      *)
(* like, and those that wait for a condition share a budget.  The clock is *)
(* reset when an entry starts: the code only uses differences, and carries *)
(* no time but the budget from one entry to the next.                      *)
(* `grants', `observed' and `history' are kept by the model alone.         *)
(***************************************************************************)
EXTENDS HoldObservation, FiniteSets

CONSTANTS
  NumEntries,                \* verification entries of the task
  Kind,                      \* resolved mode and role of each of them
  Window,                    \* hold_window_sec of a soak
  PollInterval,              \* effective_poll_interval of a soak
  VERIFICATION_TIMEOUT_SEC,
  MIN_LEAF_BUDGET_SECONDS,
  Overrides,                 \* values of total_budget_sec
  MaxLag,                    \* bound: time between two steps, oversleeping
  MaxOverrun,                \* bound: how far a call exceeds its budget
  MaxCall                    \* bound: duration of one sample

Kinds == {"converge", "assert", "safeguard_hold", "soak"}
Entry == 1..NumEntries
NoBudget == -1               \* None, for total_budget_sec

\* The entry validator wants an interval shorter than the window.  A converging
\* entry is given far more than the least a leaf can use.
ASSUME PassAssumption ==
  /\ NumEntries \in Nat
  /\ Kind \in [Entry -> Kinds]
  /\ Window \in [Entry -> Nat \ {0}]
  /\ PollInterval \in [Entry -> Nat \ {0}]
  /\ \A e \in Entry : PollInterval[e] < Window[e]
  /\ Overrides \subseteq Nat \cup {NoBudget}
  /\ MIN_LEAF_BUDGET_SECONDS \in Nat \ {0}
  /\ MaxLag \in Nat /\ MaxOverrun \in Nat /\ MaxCall \in Nat
  /\ VERIFICATION_TIMEOUT_SEC \in Nat
  /\ VERIFICATION_TIMEOUT_SEC >= MIN_LEAF_BUDGET_SECONDS + MaxLag

VARIABLES
  override,            \* total_budget_sec
  budget_left,
  pc,                  \* the loop, or the place inside a soak
  pos,                 \* the entry the loop is at
  rows,                \* the status in an entry's row
  clock,               \* time since the soak was granted its share
  granted, start,      \* the soak's share; when its window began
  obs,                 \* the soak's HoldObservation
  wake_at,             \* end of its sleep
  history,             \* the samples folded into obs
  grants,              \* what each entry was granted
  observed             \* the entries somebody looked at and got an answer

loopVars == <<override, budget_left, pc, pos, rows>>
soakVars == <<clock, granted, start, obs, wake_at, history>>
vars == <<loopVars, soakVars, grants, observed>>

NoRow == "none"

TypeOK ==
  /\ override \in Nat \cup {NoBudget}
  /\ budget_left \in Nat
  /\ pc \in {"entries", "soaks", "open", "test", "asleep", "over", "done"}
  /\ pos \in 1..NumEntries + 1
  /\ rows \in [Entry -> SampleStatus \cup {NoRow}]
  /\ clock \in Nat /\ granted \in Nat /\ start \in Nat /\ wake_at \in Nat
  /\ obs \in HoldObservations
  /\ history \in Seq(Sample)
  /\ grants \in [Entry -> Nat \cup {NotYet}]
  /\ observed \in SUBSET Entry

-----------------------------------------------------------------------------
(* The budget.  What a task needs is a sum over its entries, counted here as *)
(* the number of its seconds, one pair for each second of each entry.         *)

Lesser(a, b) == IF a <= b THEN a ELSE b

Cap(e) == CASE Kind[e] = "converge" -> VERIFICATION_TIMEOUT_SEC
            [] Kind[e] = "soak"     -> Window[e]
            [] OTHER                -> 0

Seconds(E) == UNION {{e} \X (1..Cap(e)) : e \in E}

\* Definitions named ...Fault are seeded faults, as in the other modules; here:
\* the budget of a task forgets its soaks.
BudgetFault == Cardinality(Seconds({e \in Entry : Kind[e] = "converge"}))
verification_budget_sec == Cardinality(Seconds(Entry))

Grant(e) == Lesser(Cap(e), budget_left)

\* Seeded fault: an entry is charged its overrun, too.
ChargeFault(share, spent) == spent
Charge(share, spent) == Lesser(share, spent)

Init ==
  /\ override \in Overrides
  /\ budget_left = IF override = NoBudget THEN verification_budget_sec
                                          ELSE override
  /\ pc = "entries" /\ pos = 1
  /\ rows = [e \in Entry |-> NoRow]
  /\ clock = 0 /\ granted = 0 /\ start = 0 /\ wake_at = 0
  /\ obs = NewObservation
  /\ history = << >>
  /\ grants = [e \in Entry |-> NotYet]
  /\ observed = {}

-----------------------------------------------------------------------------
(* The first loop: everything but soaks. *)

At(loop, kind) == pc = loop /\ pos \in Entry /\ Kind[pos] = kind

Report(status, seen) ==
  /\ rows' = [rows EXCEPT ![pos] = status]
  /\ observed' = IF seen THEN observed \cup {pos} ELSE observed
  /\ pos' = pos + 1

\* Seeded fault: what was never looked at counts against the agent.
ExhaustedFault == "fail"
Exhausted == "error"

ScoreFreely(status, seen) ==
  /\ Report(status, seen)
  /\ UNCHANGED <<override, budget_left, pc, soakVars, grants>>

\* The monitor's observation of an entry it sampled, or one without samples if
\* the name is missing.  Two samples are enough for each rule of the verdict.
MonitorObservations ==
  LET once == {FoldSample(NewObservation, s, 0) : s \in SampleStatus}
  IN  {NewObservation} \cup once
        \cup {FoldSample(o, s, 1) : o \in once, s \in SampleStatus}

SafeguardHold(o) ==
  /\ At("entries", "safeguard_hold")
  /\ ScoreFreely(HoldVerdict(o), o.sample_count # o.error_count)

\* Evaluated once with a budget of zero, whatever is left; an exception is an
\* "error" row, here and below.
AssertEntry(status) ==
  /\ At("entries", "assert")
  /\ ScoreFreely(status, status # "error")

\* Soaks are left for the second loop.
DeferSoak ==
  /\ At("entries", "soak")
  /\ pos' = pos + 1
  /\ UNCHANGED <<override, budget_left, pc, rows, soakVars, grants, observed>>

ConvergeExhausted ==
  /\ At("entries", "converge")
  /\ Grant(pos) < MIN_LEAF_BUDGET_SECONDS
  /\ grants' = [grants EXCEPT ![pos] = Grant(pos)]
  /\ Report(Exhausted, FALSE)
  /\ UNCHANGED <<override, budget_left, pc, soakVars>>

ConvergeSpends(spent) ==
  /\ At("entries", "converge")
  /\ Grant(pos) >= MIN_LEAF_BUDGET_SECONDS
  /\ grants' = [grants EXCEPT ![pos] = Grant(pos)]
  /\ budget_left' = budget_left - Charge(Grant(pos), spent)
  /\ UNCHANGED <<override, pc, soakVars>>

ConvergeEvaluated(status, spent) ==
  /\ ConvergeSpends(spent)
  /\ spent <= Grant(pos) + MaxOverrun
  /\ Report(status, status # "error")

\* _run_leaf reads the clock again: a grant that was just enough no longer is,
\* and the row says "fail" although nobody looked.
ConvergeExpires(lag) ==
  /\ ConvergeSpends(lag)
  /\ Grant(pos) - lag < MIN_LEAF_BUDGET_SECONDS
  /\ Report("fail", FALSE)

EndEntries ==
  /\ pc = "entries" /\ pos = NumEntries + 1
  /\ pc' = "soaks" /\ pos' = 1
  /\ UNCHANGED <<override, budget_left, rows, soakVars, grants, observed>>

-----------------------------------------------------------------------------
(* The second loop: one soak after another, each a run_hold_window. *)

SkipEvaluated ==
  /\ pc = "soaks" /\ pos \in Entry /\ Kind[pos] # "soak"
  /\ pos' = pos + 1
  /\ UNCHANGED <<override, budget_left, pc, rows, soakVars, grants, observed>>

\* Seeded fault: the loop ends with the first soak that gets nothing.
AfterExhaustedSoakFault == pc' = "done"
AfterExhaustedSoak == pc' = pc

SoakExhausted ==
  /\ At("soaks", "soak")
  /\ budget_left <= 0
  /\ Report(Exhausted, FALSE)
  /\ AfterExhaustedSoak
  /\ UNCHANGED <<override, budget_left, soakVars, grants>>

GrantSoak ==
  /\ At("soaks", "soak")
  /\ budget_left > 0
  /\ granted' = Grant(pos)
  /\ grants' = [grants EXCEPT ![pos] = Grant(pos)]
  /\ pc' = "open"
  /\ UNCHANGED <<override, budget_left, pos, rows, clock, start, obs, wake_at,
                 history, observed>>

OpenWindow(lag) ==
  /\ pc = "open"
  /\ clock' = clock + lag /\ start' = clock + lag
  /\ pc' = "test"
  /\ UNCHANGED <<override, budget_left, pos, rows, granted, obs, wake_at,
                 history, grants, observed>>

\* Seeded fault: the window is the entry's own, whatever share it was granted.
WindowDeadlineFault == start + Window[pos]
WindowDeadline == Lesser(start + Window[pos], granted)

\* Seeded fault: a soak that dipped is not watched any further.
SoakGoesOnFault(o, t) == t < WindowDeadline /\ ~o.violated
SoakGoesOn(o, t) == t < WindowDeadline

Sleep(t) == Lesser(PollInterval[pos], WindowDeadline - t)

\* One turn of the loop, up to its sleep: evaluate, fold, sleep or break.
TakeSample(status, spent) ==
  LET elapsed == clock - start
      folded  == FoldSample(obs, status, elapsed)
      t       == clock + spent
  IN  /\ pc = "test"
      /\ clock < WindowDeadline
      /\ clock' = t
      /\ obs' = folded
      /\ history' = Append(history, [status |-> status, at |-> elapsed])
      /\ IF SoakGoesOn(folded, t)
         THEN pc' = "asleep" /\ wake_at' = t + Sleep(t)
         ELSE pc' = "over" /\ UNCHANGED wake_at
      /\ UNCHANGED <<override, budget_left, pos, rows, granted, start, grants,
                     observed>>

\* A sleep lasts what it was asked to, or a little longer.
SleepOver(lag) ==
  /\ pc = "asleep"
  /\ clock' = wake_at + lag
  /\ wake_at' = 0
  /\ pc' = "test"
  /\ UNCHANGED <<override, budget_left, pos, rows, granted, start, obs, history,
                 grants, observed>>

WindowRunsOut ==
  /\ pc = "test"
  /\ clock >= WindowDeadline
  /\ pc' = "over"
  /\ UNCHANGED <<override, budget_left, pos, rows, soakVars, grants, observed>>

CloseSoak ==
  /\ pc = "over"
  /\ Report(HoldVerdict(obs), obs.sample_count # obs.error_count)
  /\ budget_left' = budget_left - Charge(granted, clock)
  /\ pc' = "soaks"
  /\ clock' = 0 /\ granted' = 0 /\ start' = 0 /\ wake_at' = 0
  /\ obs' = NewObservation /\ history' = << >>
  /\ UNCHANGED <<override, grants>>

EndSoaks ==
  /\ pc = "soaks" /\ pos = NumEntries + 1
  /\ pc' = "done"
  /\ UNCHANGED <<override, budget_left, pos, rows, soakVars, grants, observed>>

Done == pc = "done" /\ UNCHANGED vars

-----------------------------------------------------------------------------
Entries ==
  \/ \E o \in MonitorObservations : SafeguardHold(o)
  \/ \E status \in SampleStatus : AssertEntry(status)
  \/ DeferSoak
  \/ ConvergeExhausted
  \/ \E status \in SampleStatus,
        spent \in 0..VERIFICATION_TIMEOUT_SEC + MaxOverrun :
       ConvergeEvaluated(status, spent)
  \/ \E lag \in 0..MaxLag : ConvergeExpires(lag)
  \/ EndEntries

HoldWindow ==
  \/ \E lag \in 0..MaxLag : OpenWindow(lag) \/ SleepOver(lag)
  \/ \E status \in SampleStatus, spent \in 0..MaxCall : TakeSample(status, spent)
  \/ WindowRunsOut

Soaks ==
  \/ SkipEvaluated
  \/ SoakExhausted
  \/ GrantSoak
  \/ HoldWindow
  \/ CloseSoak
  \/ EndSoaks

Next == Entries \/ Soaks \/ Done

Spec == Init /\ [][Next]_vars

-----------------------------------------------------------------------------
(* What the pass promises. *)

\* Under the budget its own spec asks for, no entry is starved by those before
\* it: whatever they overran, each gets its whole cap (_run_verification and
\* verification_budget_sec; a starved objective withholds the run's score).
NoEntryStarves ==
  override = NoBudget =>
    \A e \in Entry : grants[e] # NotYet => grants[e] = Cap(e)

\* A row says "pass" or "fail" only of what somebody observed, whatever the
\* budget; what nobody looked at stays unresolved (_budget_exhausted_row,
\* hold_verdict).  Only a grant that was just enough when it was tested, and no
\* longer when the leaf looked, makes a "fail" of nothing; that needs an override.
UnobservedStaysUnresolved ==
  \A e \in Entry : rows[e] \in {"pass", "fail"} /\ e \notin observed =>
    /\ override # NoBudget
    /\ rows[e] = "fail"
    /\ grants[e] \in MIN_LEAF_BUDGET_SECONDS .. MIN_LEAF_BUDGET_SECONDS + MaxLag - 1

\* The report drops entries without a row without a word: two loops and four
\* ways out of them must leave none (_run_verification, its last statement).
EveryEntryIsReported == pc = "done" => \A e \in Entry : rows[e] # NoRow

\* A soak is over only when its window is.  The samples are spread over it: none
\* too early, none late by more than a call and an overslept pause, none that
\* began after the end; and the verdict is the one its samples call for
\* (run_hold_window: "sampling does NOT stop early").
SoakCoversWindow ==
  pc = "over" =>
    /\ clock >= WindowDeadline
    /\ HoldVerdict(obs) = VerdictOf(history)
    /\ \A i \in DOMAIN history : start + history[i].at < WindowDeadline
    /\ \A i \in 2..Len(history) :
         LET gap == history[i].at - history[i-1].at
         IN  PollInterval[pos] <= gap /\ gap <= MaxCall + PollInterval[pos] + MaxLag

\* A soak never overruns its share by more than the one call, or the one sleep,
\* that was under way (run_hold_window: "one entry's soak can never overrun the
\* budget the rest of the task's verification draws from").
SoakStaysInGrant ==
  pc \in {"test", "asleep", "over"} => clock <= granted + MaxCall + MaxLag
=============================================================================

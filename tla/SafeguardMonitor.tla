-------------------------- MODULE SafeguardMonitor --------------------------
(***************************************************************************)
(* devops_bench/evalharness/hold.py, class SafeguardMonitor: a daemon      *)
(* thread samples the hold-mode safeguards while the harness's main thread *)
(* runs the agent.                                                         *)
(*                                                                         *)
(* One step is what a thread does between two points where the other can  *)
(* see a difference: the verifier call of a sample runs outside the lock,  *)
(* its fold is one critical section.  A call may take any time and the     *)
(* bounded waits may run out at any moment their condition is still false. *)
(* A local of the thread is reset when it is dead.                         *)
(* `history' and `late' record what was sampled; the code keeps neither.    *)
(***************************************************************************)
EXTENDS HoldObservation, FiniteSets

CONSTANTS
  NumEntries,          \* hold-mode safeguards, in the order of the task
  Interval,            \* effective_poll_interval of each of them
  SCHEDULER_TICK_SEC,
  MaxStops,            \* bound: calls of stop()
  MaxTime              \* bound: the last tick of the clock

ASSUME MonitorAssumption ==
  /\ NumEntries \in Nat
  /\ Interval \in [1..NumEntries -> Nat \ {0}]
  /\ SCHEDULER_TICK_SEC \in Nat \ {0}
  /\ MaxStops \in Nat \ {0}
  /\ MaxTime \in Nat

Entry == 1..NumEntries

VARIABLES
  now,                 \* time.monotonic()
  main,                \* where the main thread is
  stops,               \* how often it called stop()
  stop_event, first_pass_done, start_time,
  observations,
  thread,              \* where the sampling thread is
  pos,                 \* the entry its for-loop is at
  pass_now,            \* its `now', read once per pass
  elapsed,             \* its `elapsed', read before the verifier call
  next_due,
  wake_at,             \* when its stop_event.wait times out
  history,             \* every sample folded so far, per entry
  late                 \* how many of them ended after the first stop()

mainVars   == <<main, stops>>
threadVars == <<thread, pos, pass_now, elapsed, next_due, wake_at>>
ghosts     == <<history, late>>
vars == <<now, mainVars, stop_event, first_pass_done, start_time,
          observations, threadVars, ghosts>>

MainPc   == {"new", "starting", "running", "joining", "stopped"}
ThreadPc == {"none", "test", "pass", "sampling", "waiting", "exited"}

TablesTypeOK ==
  /\ observations \in [Entry -> HoldObservations]
  /\ next_due \in [Entry -> Nat]
  /\ history \in [Entry -> Seq(Sample)]
  /\ late \in [Entry -> Nat]

TypeOK ==
  /\ now \in Nat
  /\ main \in MainPc
  /\ stops \in Nat
  /\ stop_event \in BOOLEAN
  /\ first_pass_done \in BOOLEAN
  /\ start_time \in Nat \cup {NotYet}
  /\ thread \in ThreadPc
  /\ pos \in Nat \ {0}
  /\ pass_now \in Nat
  /\ elapsed \in Nat
  /\ wake_at \in Nat
  /\ TablesTypeOK

Init ==
  /\ now = 1                           \* the clock is never at 0
  /\ main = "new"
  /\ stops = 0
  /\ stop_event = FALSE
  /\ first_pass_done = FALSE
  /\ start_time = NotYet
  /\ observations = [e \in Entry |-> NewObservation]
  /\ thread = "none"
  /\ pos = 1
  /\ pass_now = 0
  /\ elapsed = 0
  /\ next_due = [e \in Entry |-> 0]
  /\ wake_at = 0
  /\ history = [e \in Entry |-> << >>]
  /\ late = [e \in Entry |-> 0]

-----------------------------------------------------------------------------
(* The main thread. *)

\* Definitions named ...Fault are seeded faults: each stands for a slip the code
\* could have had, and some property below fails with it in the place of the
\* definition that follows it.
WindowFault == start_time - now
Window == now - start_time

StartMayReturnFault(timedOut) == first_pass_done /\ ~timedOut   \* wait()
StartMayReturn(timedOut) == first_pass_done = ~timedOut         \* wait(120)

\* Without entries start() is a no-op.
Start ==
  /\ main = "new"
  /\ IF NumEntries = 0
     THEN main' = "running" /\ UNCHANGED <<start_time, thread>>
     ELSE main' = "starting" /\ start_time' = now /\ thread' = "test"
  /\ UNCHANGED <<now, stops, stop_event, first_pass_done, observations, pos,
                 pass_now, elapsed, next_due, wake_at, ghosts>>

\* start() returns whether or not its wait of _FIRST_PASS_TIMEOUT_SEC ran out.
StartReturns(timedOut) ==
  /\ main = "starting"
  /\ StartMayReturn(timedOut)
  /\ main' = "running"
  /\ UNCHANGED <<now, stops, stop_event, first_pass_done, start_time,
                 observations, threadVars, ghosts>>

Stop ==
  /\ main \in {"new", "running", "stopped"}
  /\ stops < MaxStops
  /\ stops' = stops + 1
  /\ stop_event' = TRUE
  /\ main' = IF thread = "none" THEN "stopped" ELSE "joining"
  /\ UNCHANGED <<now, first_pass_done, start_time, observations, threadVars,
                 ghosts>>

\* The join ended because the thread did, or because its budget ran out; both
\* ways the window is stamped on every observation, under the lock.
StopReturns(timedOut) ==
  /\ main = "joining"
  /\ (thread = "exited") = ~timedOut
  /\ observations' = [e \in Entry |->
       [observations[e] EXCEPT !.observed_window_sec = Window]]
  /\ main' = "stopped"
  /\ UNCHANGED <<now, stops, stop_event, first_pass_done, start_time,
                 threadVars, ghosts>>

-----------------------------------------------------------------------------
(* The sampling thread, _run and _sample_one. *)

LoopEndsFault == FALSE
LoopEnds == stop_event

ElapsedFault == now
Elapsed == now - start_time

NextDueFault(e) == pass_now + Interval[e]       \* a period, not a pause
NextDue(e) == now + Interval[e]

TestStop ==
  /\ thread = "test"
  /\ IF LoopEnds
     THEN thread' = "exited" /\ UNCHANGED <<pos, pass_now>>
     ELSE thread' = "pass" /\ pos' = 1 /\ pass_now' = now
  /\ UNCHANGED <<now, mainVars, stop_event, first_pass_done, start_time,
                 observations, elapsed, next_due, wake_at, ghosts>>

SkipEntry ==
  /\ thread = "pass"
  /\ pos \in Entry
  /\ pass_now < next_due[pos]
  /\ pos' = pos + 1
  /\ UNCHANGED <<now, mainVars, stop_event, first_pass_done, start_time,
                 observations, thread, pass_now, elapsed, next_due, wake_at, ghosts>>

BeginSample ==
  /\ thread = "pass"
  /\ pos \in Entry
  /\ pass_now >= next_due[pos]
  /\ thread' = "sampling"
  /\ elapsed' = Elapsed
  /\ UNCHANGED <<now, mainVars, stop_event, first_pass_done, start_time,
                 observations, pos, pass_now, next_due, wake_at, ghosts>>

\* An exception of the verifier call is an "error" sample.
EndSample(status) ==
  /\ thread = "sampling"
  /\ observations' = [observations EXCEPT ![pos] = FoldSample(@, status, elapsed)]
  /\ history' = [history EXCEPT ![pos] =
                   Append(@, [status |-> status, at |-> elapsed])]
  /\ late' = [late EXCEPT ![pos] = @ + IF stop_event THEN 1 ELSE 0]
  /\ next_due' = [next_due EXCEPT ![pos] = NextDue(pos)]
  /\ pos' = pos + 1
  /\ thread' = "pass"
  /\ elapsed' = 0
  /\ UNCHANGED <<now, mainVars, stop_event, first_pass_done, start_time,
                 pass_now, wake_at>>

\* The wait is cut to one tick, or to the entry that is due first.
EndPass ==
  /\ thread = "pass"
  /\ pos = NumEntries + 1
  /\ first_pass_done' = TRUE
  /\ thread' = "waiting"
  /\ \E due \in {next_due[e] : e \in Entry} :
       /\ \A e \in Entry : due <= next_due[e]
       /\ wake_at' = IF due <= now THEN now
                     ELSE IF due <= now + SCHEDULER_TICK_SEC THEN due
                     ELSE now + SCHEDULER_TICK_SEC
  /\ pos' = 1 /\ pass_now' = 0
  /\ UNCHANGED <<now, mainVars, stop_event, start_time, observations, elapsed,
                 next_due, ghosts>>

\* The `except' of the loop: a pass that fails still releases start().
PassFails ==
  /\ thread = "pass"
  /\ first_pass_done' = TRUE
  /\ thread' = "waiting"
  /\ wake_at' = now + SCHEDULER_TICK_SEC
  /\ pos' = 1 /\ pass_now' = 0
  /\ UNCHANGED <<now, mainVars, stop_event, start_time, observations, elapsed,
                 next_due, ghosts>>

Wake ==
  /\ thread = "waiting"
  /\ stop_event \/ now >= wake_at
  /\ thread' = "test"
  /\ wake_at' = 0
  /\ UNCHANGED <<now, mainVars, stop_event, first_pass_done, start_time,
                 observations, pos, pass_now, elapsed, next_due, ghosts>>

-----------------------------------------------------------------------------
Tick ==
  /\ main # "new"
  /\ now < MaxTime
  /\ now' = now + 1
  /\ UNCHANGED <<mainVars, stop_event, first_pass_done, start_time,
                 observations, threadVars, ghosts>>

\* The harness is through with the monitor and the thread has ended.
Finished ==
  /\ main = "stopped"
  /\ thread \in {"none", "exited"}
  /\ UNCHANGED vars

Main ==
  \/ Start
  \/ \E timedOut \in BOOLEAN : StartReturns(timedOut) \/ StopReturns(timedOut)
  \/ Stop

SampleCall == \E status \in SampleStatus : EndSample(status)

Thread ==
  \/ TestStop
  \/ SkipEntry
  \/ BeginSample
  \/ SampleCall
  \/ EndPass
  \/ PassFails
  \/ Wake

Next == Main \/ Thread \/ Tick \/ Finished

Spec == Init /\ [][Next]_vars

\* The waits of start() and stop() are bounded, so the harness comes back from
\* them.  Nothing is assumed of the sampling thread: its verifier call may hang.
Returns == \E timedOut \in BOOLEAN : StartReturns(timedOut) \/ StopReturns(timedOut)
FairSpec == Spec /\ WF_vars(Returns)

-----------------------------------------------------------------------------
(* What the monitor promises. *)

\* hold_verdict(), which sees six counters and flags, returns the verdict its
\* docstring words on the whole sequence of samples: samples of a lost
\* observation, a dip that recovered and an absorbed blip are told apart.  And
\* the time reported for a violation is that of the first failing sample.
ObservationIsFaithful ==
  \A e \in Entry :
    /\ HoldVerdict(observations[e]) = VerdictOf(history[e])
    /\ LET at == observations[e].first_violation_at_sec
       IN  IF Failed(history[e]) = {} THEN at = NotYet
           ELSE \E i \in Failed(history[e]) :
                  /\ \A j \in Failed(history[e]) : i <= j
                  /\ at = history[e][i].at

\* One thread samples every entry, and tests next_due against a clock it read
\* when the pass began; still no entry is sampled again before its own interval
\* has passed, which bounds the load on the API server (_run, next_due).
SamplesAreSpaced ==
  \A e \in Entry : \A i \in 2..Len(history[e]) :
    history[e][i].at >= history[e][i-1].at + Interval[e]

\* The for-loop of _run does not look at stop_event between entries: after
\* stop() a pass under way goes on, but it takes at most one more sample of each
\* entry, also when stop() gave the thread up.
AtMostOneLateSample == \A e \in Entry : late[e] <= 1

\* The window stop() stamps covers every violation: no report says "violated 9s
\* into" a window of 8s, unless the sample was folded after stop() was called and
\* the thread had been given up.
WindowCoversViolation ==
  main = "stopped" /\ thread # "none" =>
    \A e \in Entry :
      late[e] = 0 => observations[e].first_violation_at_sec
                       <= observations[e].observed_window_sec

\* A verifier call that never returns does not hang the harness in start() or
\* stop().
HarnessIsNotHeld == main \in {"starting", "joining"} ~> main \in {"running", "stopped"}

\* As long as verifier calls return, stop() does end the thread: no wait of the
\* loop outlasts it.
ThreadEnds == WF_vars(Thread) => (stop_event ~> thread \in {"none", "exited"})
=============================================================================

----------------------- MODULE SafeguardMonitorProofs -----------------------
(***************************************************************************)
(* Proofs about SafeguardMonitor, for any number of safeguards, intervals, *)
(* calls of stop() and length of the run.                                  *)
(***************************************************************************)
EXTENDS SafeguardMonitor, HoldObservationProofs, TLAPS

-----------------------------------------------------------------------------
(* The inductive invariant. *)

\* Where the threads are, and what the clock has to do with it.
Clocked ==
  /\ thread # "none" => start_time \in Nat /\ start_time <= now
  /\ main = "new" => thread = "none"
  /\ main \in {"starting", "joining"} => thread # "none"
  /\ main \in {"joining", "stopped"} => stop_event
  /\ thread \in {"pass", "sampling"} => pass_now <= now
  /\ thread = "sampling" =>
       /\ pos \in Entry
       /\ start_time + elapsed <= now
       /\ next_due[pos] <= start_time + elapsed

\* No sample of an entry has been taken without a thread; the last one of each
\* entry set its next_due.
Spaced(e) ==
  /\ history[e] # << >> =>
       /\ thread # "none"
       /\ next_due[e] >= start_time + history[e][Len(history[e])].at + Interval[e]
  /\ \A i \in 2..Len(history[e]) :
       history[e][i].at >= history[e][i-1].at + Interval[e]

\* An entry that has its late sample is behind the thread for good.
Late(e) ==
  /\ late[e] <= 1
  /\ late[e] = 1 => /\ stop_event
                    /\ thread \in {"pass", "sampling"} => pos > e

\* A violation is never in the future, and after stop() never beyond the window
\* unless its sample was late.
Windowed(e) ==
  LET at == observations[e].first_violation_at_sec
  IN  /\ thread = "none" => at = NotYet
      /\ thread # "none" => start_time + at <= now
      /\ main = "stopped" /\ late[e] = 0 => at <= observations[e].observed_window_sec

IInv ==
  /\ TypeOK
  /\ Clocked
  /\ \A e \in Entry : /\ Matches(observations[e], history[e])
                      /\ Spaced(e)
                      /\ Late(e)
                      /\ Windowed(e)

USE TrailingAssumption, MonitorAssumption DEF Entry, NotYet, SampleStatus

\* No operation of either thread leaves the types, and the clock is never behind.
LEMMA TypeStep == TypeOK /\ Clocked /\ [Next]_vars => TypeOK' /\ Clocked'
<1> SUFFICES ASSUME TypeOK, Clocked, [Next]_vars
             PROVE  TypeOK' /\ Clocked'
  OBVIOUS
<1> USE DEF TypeOK, Clocked, MainPc, ThreadPc, vars, mainVars, threadVars, ghosts
<1>0. UNCHANGED <<observations, next_due, history, late>> => TablesTypeOK'
  BY DEF TablesTypeOK
<1>1. CASE Start
  BY <1>0, <1>1 DEF Start
<1>2. ASSUME NEW timedOut \in BOOLEAN, StartReturns(timedOut)
      PROVE  TypeOK' /\ Clocked'
  BY <1>0, <1>2 DEF StartReturns
<1>3. CASE Stop
  BY <1>0, <1>3 DEF Stop
<1>4. ASSUME NEW timedOut \in BOOLEAN, StopReturns(timedOut)
      PROVE  TypeOK' /\ Clocked'
  <2>1. Window \in Nat
    BY <1>4 DEF StopReturns, Window
  <2>2. ASSUME NEW e \in Entry
        PROVE  [observations[e] EXCEPT !.observed_window_sec = Window]
                 \in HoldObservations
    <3>1. observations[e] \in HoldObservations
      BY DEF TablesTypeOK
    <3> HIDE DEF TypeOK
    <3> QED BY <2>1, <3>1 DEF HoldObservations
  <2>3. TablesTypeOK'
    BY <1>4, <2>2 DEF StopReturns, TablesTypeOK
  <2> QED BY <1>4, <2>3 DEF StopReturns
<1>5. CASE TestStop
  BY <1>0, <1>5 DEF TestStop, LoopEnds
<1>6. CASE SkipEntry
  BY <1>0, <1>6 DEF SkipEntry
<1>7. CASE BeginSample
  <2>1. /\ start_time \in Nat /\ start_time <= now
        /\ next_due[pos] \in Nat /\ next_due[pos] <= pass_now /\ pass_now <= now
    BY <1>7 DEF BeginSample, TablesTypeOK
  <2>2. elapsed' \in Nat /\ start_time + elapsed' = now
    BY <1>7, <2>1 DEF BeginSample, Elapsed
  <2>3. TypeOK'
    BY <1>0, <1>7, <2>2 DEF BeginSample
  <2>4. Clocked'
    BY <1>7, <2>1, <2>2 DEF BeginSample
  <2> QED BY <2>3, <2>4
<1>8. ASSUME NEW status \in SampleStatus, EndSample(status)
      PROVE  TypeOK' /\ Clocked'
  <2>1. /\ observations[pos] \in HoldObservations
        /\ history[pos] \in Seq(Sample)
        /\ late[pos] \in Nat
        /\ Interval[pos] \in Nat
    BY <1>8 DEF EndSample, TablesTypeOK
  <2>2. FoldSample(observations[pos], status, elapsed) \in HoldObservations
    BY <2>1, FoldType
  <2>3. Append(history[pos], [status |-> status, at |-> elapsed]) \in Seq(Sample)
    BY <2>1 DEF Sample
  <2>4. NextDue(pos) \in Nat
    BY <2>1 DEF NextDue
  <2>5. late[pos] + (IF stop_event THEN 1 ELSE 0) \in Nat
    BY <2>1
  <2>6. observations' \in [Entry -> HoldObservations]
    BY <1>8, <2>2 DEF EndSample, TablesTypeOK
  <2>7. history' \in [Entry -> Seq(Sample)]
    BY <1>8, <2>3 DEF EndSample, TablesTypeOK
  <2>8. next_due' \in [Entry -> Nat]
    BY <1>8, <2>4 DEF EndSample, TablesTypeOK
  <2>9. late' \in [Entry -> Nat]
    BY <1>8, <2>5 DEF EndSample, TablesTypeOK
  <2>10. TablesTypeOK'
    BY <2>6, <2>7, <2>8, <2>9 DEF TablesTypeOK
  <2> QED BY <1>8, <2>10 DEF EndSample
<1>9. CASE EndPass
  <2>1. \A due \in {next_due[e] : e \in Entry} : due \in Nat
    BY DEF TablesTypeOK
  <2>2. wake_at' \in Nat
    BY <1>9, <2>1 DEF EndPass
  <2> QED BY <1>0, <1>9, <2>2 DEF EndPass
<1>10. CASE PassFails
  BY <1>0, <1>10 DEF PassFails
<1>11. CASE Wake
  BY <1>0, <1>11 DEF Wake
<1>12. CASE Tick
  BY <1>0, <1>12 DEF Tick
<1>13. CASE UNCHANGED vars
  BY <1>0, <1>13
<1> QED BY <1>1, <1>2, <1>3, <1>4, <1>5, <1>6, <1>7, <1>8, <1>9, <1>10, <1>11,
           <1>12, <1>13 DEF Next, Main, Thread, SampleCall, Finished

EntryInv(e) ==
  Matches(observations[e], history[e]) /\ Spaced(e) /\ Late(e) /\ Windowed(e)

\* What is known of each entry survives every step.
LEMMA EntryStep ==
  ASSUME IInv, [Next]_vars, NEW e \in Entry
  PROVE  EntryInv(e)'
<1> USE DEF IInv, EntryInv, TypeOK, Clocked, MainPc, ThreadPc, vars, mainVars,
            threadVars, ghosts
<1>0. /\ observations[e] \in HoldObservations
      /\ observations[e].first_violation_at_sec \in Nat \cup {NotYet}
      /\ observations[e].observed_window_sec \in Nat
      /\ next_due[e] \in Nat
      /\ history[e] \in Seq(Sample)
      /\ late[e] \in Nat
      /\ Interval[e] \in Nat \ {0}
  BY DEF TablesTypeOK, HoldObservations
<1> DEFINE Same == UNCHANGED <<observations, history, late, next_due>>
\* Steps that sample nothing, and let no entry come under the loop again once
\* it has been stopped.
<1>1. ASSUME Same, stop_event' = stop_event, start_time' = start_time,
             now' >= now, now' \in Nat,
             thread # "none", thread' # "none",
             main' = "stopped" => main = "stopped",
             thread' \in {"pass", "sampling"} =>
               \/ thread \in {"pass", "sampling"} /\ pos' >= pos /\ pos' \in Nat
               \/ ~stop_event
      PROVE  EntryInv(e)'
  <2>1. Matches(observations[e], history[e])'
    BY <1>1
  <2>2. Spaced(e)'
    BY <1>1 DEF Spaced
  <2>3. Late(e)'
    BY <1>0, <1>1 DEF Late
  <2>4. Windowed(e)'
    <3> DEFINE at == observations[e].first_violation_at_sec
    <3>1. start_time \in Nat /\ at \in Int /\ now \in Nat
      BY <1>0, <1>1
    <3>2. start_time + at <= now
      BY <1>1 DEF Windowed
    <3> HIDE DEF at
    <3>3. start_time + at <= now'
      BY <1>1, <3>1, <3>2
    <3> USE DEF at
    <3> QED BY <1>1, <3>3 DEF Windowed
  <2> QED BY <2>1, <2>2, <2>3, <2>4
<1>2. CASE Start
  <2>1. Same /\ stop_event' = stop_event /\ thread = "none" /\ main' # "stopped"
    BY <1>2 DEF Start
  <2>2. Matches(observations[e], history[e])' /\ Late(e)'
    BY <2>1, <1>2 DEF Start, Late
  <2>3. Spaced(e)'
    BY <2>1 DEF Spaced
  <2>4. Windowed(e)'
    BY <1>0, <1>2, <2>1 DEF Start, Windowed
  <2> QED BY <2>2, <2>3, <2>4
<1>3. ASSUME NEW timedOut \in BOOLEAN, StartReturns(timedOut)
      PROVE  EntryInv(e)'
  BY <1>1, <1>3 DEF StartReturns
<1>4. CASE Stop
  <2>1. /\ Same /\ thread' = thread /\ pos' = pos /\ now' = now
        /\ start_time' = start_time
        /\ main' = "stopped" => thread = "none"
        /\ stop_event'
    BY <1>4 DEF Stop
  <2>2. Matches(observations[e], history[e])' /\ Late(e)'
    BY <2>1 DEF Late
  <2>3. Spaced(e)'
    BY <2>1 DEF Spaced
  <2>4. Windowed(e)'
    BY <1>0, <2>1 DEF Windowed
  <2> QED BY <2>2, <2>3, <2>4
<1>5. ASSUME NEW timedOut \in BOOLEAN, StopReturns(timedOut)
      PROVE  EntryInv(e)'
  <2>1. /\ UNCHANGED <<now, start_time, stop_event, thread, pos, next_due,
                       history, late>>
        /\ thread # "none"
    BY <1>5 DEF StopReturns
  <2>2. observations[e]' = [observations[e] EXCEPT !.observed_window_sec = Window]
    BY <1>5 DEF StopReturns
  <2>3. /\ observations[e]'.observed_window_sec = now - start_time
        /\ observations[e]'.first_violation_at_sec
             = observations[e].first_violation_at_sec
        /\ observations[e]'.violated = observations[e].violated
        /\ observations[e]'.sample_count = observations[e].sample_count
        /\ observations[e]'.error_count = observations[e].error_count
        /\ observations[e]'.trailing_error_count
             = observations[e].trailing_error_count
    BY <1>0, <2>2 DEF Window, HoldObservations
  <2>4. Matches(observations[e], history[e])'
    BY <2>1, <2>3 DEF Matches, Counted, Latched, Trailing
  <2>5. Windowed(e)'
    BY <1>0, <2>1, <2>3 DEF Windowed
  <2>6. Spaced(e)' /\ Late(e)'
    BY <2>1 DEF Spaced, Late
  <2> QED BY <2>4, <2>5, <2>6
<1>6. CASE TestStop
  BY <1>1, <1>6 DEF TestStop, LoopEnds
<1>7. CASE SkipEntry
  BY <1>1, <1>7 DEF SkipEntry
<1>8. CASE BeginSample
  BY <1>1, <1>8 DEF BeginSample
<1>9. ASSUME NEW status \in SampleStatus, EndSample(status)
      PROVE  EntryInv(e)'
  <2>0. /\ UNCHANGED <<now, main, start_time, stop_event>>
        /\ thread = "sampling" /\ thread' = "pass"
        /\ pos \in Entry /\ pos' = pos + 1
    BY <1>9 DEF EndSample
  <2>1. CASE e # pos
    <3>1. /\ observations[e]' = observations[e]
          /\ history[e]' = history[e]
          /\ late[e]' = late[e]
          /\ next_due[e]' = next_due[e]
      BY <1>9, <2>0, <2>1 DEF EndSample, TablesTypeOK
    <3>2. Matches(observations[e], history[e])' /\ Spaced(e)'
      BY <2>0, <3>1 DEF Spaced
    <3>3. Late(e)' /\ Windowed(e)'
      BY <2>0, <3>1 DEF Late, Windowed
    <3> QED BY <3>2, <3>3
  <2>2. CASE e = pos
    <3> DEFINE h == history[e]
               g == Append(h, [status |-> status, at |-> elapsed])
               o == FoldSample(observations[e], status, elapsed)
    <3>1. /\ observations[e]' = o
          /\ history[e]' = g
          /\ late[e]' = late[e] + (IF stop_event THEN 1 ELSE 0)
          /\ next_due[e]' = now + Interval[e]
      BY <1>9, <2>0, <2>2 DEF EndSample, NextDue, TablesTypeOK
    <3>2. Matches(observations[e], history[e])'
      BY <1>0, <3>1, FoldMatches
    <3>3. /\ Len(h) \in Nat
          /\ Len(g) = Len(h) + 1
          /\ g # << >>
          /\ g[Len(g)].at = elapsed
          /\ \A i \in 1..Len(h) : g[i] = h[i] /\ h[i].at \in Nat
      <4>1. [status |-> status, at |-> elapsed] \in Sample
        BY DEF Sample
      <4>2. /\ Len(h) \in Nat /\ g \in Seq(Sample) /\ Len(g) = Len(h) + 1
            /\ \A i \in 1..Len(h) : h[i] \in Sample /\ g[i] = h[i]
            /\ g[Len(g)] = [status |-> status, at |-> elapsed]
        BY <1>0, <4>1
      <4> HIDE DEF g, h
      <4> QED BY <4>2 DEF Sample
    <3>4. Spaced(e)'
      <4> HIDE DEF g, h
      <4>1. now + Interval[e] >= start_time + g[Len(g)].at + Interval[e]
        BY <1>0, <2>0, <3>3
      <4>2. ASSUME NEW i \in 2..Len(g), i = Len(g)
            PROVE  g[i].at >= g[i-1].at + Interval[e]
        <5>1. Len(h) \in 1..Len(h) /\ i - 1 = Len(h)
          BY <3>3, <4>2
        <5> DEFINE a == h[Len(h)].at
        <5>2. g[i-1].at = a /\ a \in Nat
          BY <3>3, <5>1
        <5>3. h # << >>
          BY <5>1
        <5>4. next_due[e] >= start_time + a + Interval[e]
          BY <5>3 DEF Spaced, h
        <5>5. next_due[e] <= start_time + elapsed /\ start_time \in Nat /\ elapsed \in Nat
          BY <2>0, <2>2
        <5>6. g[i].at = elapsed
          BY <3>3, <4>2
        <5> HIDE DEF a
        <5>7. elapsed >= a + Interval[e]
          BY <1>0, <5>2, <5>4, <5>5
        <5> QED BY <5>2, <5>6, <5>7
      <4>3. ASSUME NEW i \in 2..Len(g), i # Len(g)
            PROVE  g[i].at >= g[i-1].at + Interval[e]
        <5>1. i \in 2..Len(h) /\ i - 1 \in 1..Len(h) /\ i \in 1..Len(h)
          BY <3>3, <4>3
        <5> QED BY <3>3, <5>1 DEF Spaced, h
      <4> QED BY <2>0, <3>1, <3>3, <4>1, <4>2, <4>3 DEF Spaced
    <3>5. Late(e)'
      <4>1. late[e] = 0
        BY <1>0, <2>0, <2>2 DEF Late
      <4>2. late[e]' = (IF stop_event THEN 1 ELSE 0)
        BY <3>1, <4>1
      <4>3. pos' > e
        BY <2>0, <2>2
      <4> QED BY <2>0, <4>2, <4>3 DEF Late
    <3>6. Windowed(e)'
      <4>1. \/ o.first_violation_at_sec = elapsed
            \/ o.first_violation_at_sec = observations[e].first_violation_at_sec
        BY <1>0 DEF FoldSample, FoldErrorSample, FoldEvaluatedSample,
                    Evaluation, HoldObservations
      <4>2. main = "stopped" => late[e]' # 0
        BY <1>0, <3>1
      <4> HIDE DEF o
      <4> QED BY <1>0, <2>0, <2>2, <3>1, <4>1, <4>2 DEF Windowed
    <3> QED BY <3>2, <3>4, <3>5, <3>6
  <2> QED BY <2>1, <2>2
<1>10. CASE EndPass
  BY <1>1, <1>10 DEF EndPass
<1>11. CASE PassFails
  BY <1>1, <1>11 DEF PassFails
<1>12. CASE Wake
  BY <1>1, <1>12 DEF Wake
<1>13. CASE Tick
  <2>1. /\ Same /\ now' = now + 1
        /\ UNCHANGED <<main, stop_event, start_time, thread, pos>>
    BY <1>13 DEF Tick
  <2>2. Matches(observations[e], history[e])' /\ Late(e)' /\ Spaced(e)'
    BY <2>1 DEF Late, Spaced
  <2>3. Windowed(e)'
    <3> DEFINE at == observations[e].first_violation_at_sec
    <3>1. at \in Int /\ now \in Nat
      BY <1>0
    <3>2. thread # "none" => start_time \in Nat /\ start_time + at <= now + 1
      BY <3>1 DEF Windowed
    <3> QED BY <2>1, <3>2 DEF Windowed
  <2> QED BY <2>2, <2>3
<1>14. CASE UNCHANGED vars
  BY <1>14 DEF Spaced, Late, Windowed
<1> QED BY <1>2, <1>3, <1>4, <1>5, <1>6, <1>7, <1>8, <1>9, <1>10, <1>11, <1>12,
           <1>13, <1>14 DEF Next, Main, Thread, SampleCall, Finished

\* The inductive invariant holds in every behaviour.
THEOREM Invariance == Spec => []IInv
<1>1. Init => IInv
  <2> SUFFICES ASSUME Init PROVE IInv
    OBVIOUS
  <2>1. NewObservation \in HoldObservations
    BY DEF NewObservation, HoldObservations
  <2>2. TablesTypeOK
    BY <2>1 DEF Init, TablesTypeOK
  <2>3. TypeOK /\ Clocked
    <3>1. /\ now = 1 /\ main = "new" /\ stops = 0 /\ stop_event = FALSE
          /\ first_pass_done = FALSE /\ start_time = NotYet /\ thread = "none"
          /\ pos = 1 /\ pass_now = 0 /\ elapsed = 0 /\ wake_at = 0
      BY DEF Init
    <3> HIDE DEF Init
    <3>2. TypeOK
      <4>1. stop_event \in BOOLEAN /\ first_pass_done \in BOOLEAN
        BY <3>1, Zenon
      <4>2. main \in MainPc /\ thread \in ThreadPc
        BY <3>1, Zenon DEF MainPc, ThreadPc
      <4>3. /\ now \in Nat /\ stops \in Nat /\ pos \in Nat \ {0}
            /\ pass_now \in Nat /\ elapsed \in Nat /\ wake_at \in Nat
            /\ start_time \in Nat \cup {NotYet}
        BY <3>1
      <4> QED BY <2>2, <4>1, <4>2, <4>3, Zenon DEF TypeOK
    <3>3. Clocked
      BY <3>1 DEF Clocked
    <3> QED BY <3>2, <3>3
  <2>4. ASSUME NEW e \in Entry
        PROVE  EntryInv(e)
    <3>1. /\ observations[e] = NewObservation /\ history[e] = << >> /\ late[e] = 0
          /\ thread = "none" /\ main = "new"
      BY DEF Init
    <3>2. Matches(observations[e], history[e])
      BY <3>1 DEF Matches, Counted, Latched, Trailing, NewObservation
    <3>3. Spaced(e) /\ Late(e)
      BY <3>1 DEF Spaced, Late
    <3>4. Windowed(e)
      BY <3>1 DEF Windowed, NewObservation
    <3> QED BY <3>2, <3>3, <3>4 DEF EntryInv
  <2> QED BY <2>3, <2>4 DEF IInv, EntryInv
<1>2. IInv /\ [Next]_vars => IInv'
  BY TypeStep, EntryStep DEF IInv, EntryInv
<1> QED BY <1>1, <1>2, PTL DEF Spec

-----------------------------------------------------------------------------
(* What a reader should know of. *)

\* Every variable stays in its type, and in particular no window is negative.
THEOREM TypeCorrect == Spec => []TypeOK
BY Invariance, PTL DEF IInv

\* hold_verdict() on the counters is its docstring on the samples.
THEOREM VerdictsAreFaithful == Spec => []ObservationIsFaithful
<1>1. IInv => ObservationIsFaithful
  BY MatchingVerdict, MatchingFirstViolation
  DEF IInv, TypeOK, TablesTypeOK, ObservationIsFaithful
<1> QED BY <1>1, Invariance, PTL

\* The monitor never samples an entry faster than its interval.
THEOREM Spacing == Spec => []SamplesAreSpaced
<1>1. IInv => SamplesAreSpaced
  BY DEF IInv, Spaced, SamplesAreSpaced
<1> QED BY <1>1, Invariance, PTL

\* After stop() each entry has at most one more sample.
THEOREM LateSamples == Spec => []AtMostOneLateSample
<1>1. IInv => AtMostOneLateSample
  BY DEF IInv, Late, AtMostOneLateSample
<1> QED BY <1>1, Invariance, PTL

\* Only a late sample can report a violation outside the window.
THEOREM WindowCovers == Spec => []WindowCoversViolation
<1>1. IInv => WindowCoversViolation
  BY DEF IInv, Windowed, WindowCoversViolation
<1> QED BY <1>1, Invariance, PTL
=============================================================================

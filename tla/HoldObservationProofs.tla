------------------------ MODULE HoldObservationProofs ------------------------
(***************************************************************************)
(* What an observation stands for: the counters of hold.py against the     *)
(* sequence of samples, for sequences of any length.  Both drivers, the    *)
(* monitor and the soak, cite these lemmas.                                *)
(***************************************************************************)
EXTENDS HoldObservation, TLAPS

-----------------------------------------------------------------------------
(* The counters of an observation, against the samples they count. *)

IsError(h, i) == h[i].status = "error"
IsFail(h, i)  == h[i].status = "fail"

Counted(obs, h) ==
  /\ obs.sample_count = Len(h)
  /\ obs.error_count <= Len(h)
  /\ obs.error_count = Len(h) <=> \A i \in 1..Len(h) : IsError(h, i)

Latched(obs, h) ==
  /\ obs.violated <=> \E i \in 1..Len(h) : IsFail(h, i)
  /\ ~obs.violated => obs.first_violation_at_sec = NotYet
  /\ obs.violated => \E i \in 1..Len(h) :
                       /\ IsFail(h, i)
                       /\ \A j \in 1..Len(h) : IsFail(h, j) => i <= j
                       /\ obs.first_violation_at_sec = h[i].at

Trailing(obs, h) ==
  /\ obs.trailing_error_count <= Len(h)
  /\ \A i \in Len(h) - obs.trailing_error_count + 1 .. Len(h) : IsError(h, i)
  /\ obs.trailing_error_count < Len(h) =>
       ~IsError(h, Len(h) - obs.trailing_error_count)

Matches(obs, h) == Counted(obs, h) /\ Latched(obs, h) /\ Trailing(obs, h)

\* A new observation stands for no samples.
LEMMA NewMatches == NewObservation \in HoldObservations /\ Matches(NewObservation, << >>)
<1>1. NewObservation \in HoldObservations
  BY DEF NewObservation, HoldObservations
<1>2. Matches(NewObservation, << >>)
  BY DEF Matches, Counted, Latched, Trailing, NewObservation
<1> QED BY <1>1, <1>2

\* _fold_sample keeps an observation well formed.
LEMMA FoldType ==
  ASSUME NEW obs \in HoldObservations, NEW status \in SampleStatus, NEW at \in Nat
  PROVE  FoldSample(obs, status, at) \in HoldObservations
<1> DEFINE n == obs.sample_count + 1
           m == obs.error_count + 1
           k == obs.trailing_error_count + 1
<1>1. n \in Nat /\ m \in Nat /\ k \in Nat
  BY DEF HoldObservations
<1> HIDE DEF n, m, k
<1>2. [obs EXCEPT !.sample_count = n, !.error_count = m,
                  !.trailing_error_count = k] \in HoldObservations
  BY <1>1 DEF HoldObservations
<1>3. FoldErrorSample(obs) \in HoldObservations
  BY <1>2 DEF FoldErrorSample, n, m, k
<1>4. [obs EXCEPT !.sample_count = n, !.trailing_error_count = 0]
        \in HoldObservations
  BY <1>1 DEF HoldObservations
<1>5. Evaluation(obs) \in HoldObservations
  BY <1>4 DEF Evaluation, n
<1>6. FoldEvaluatedSample(obs, status, at) \in HoldObservations
  BY <1>5 DEF FoldEvaluatedSample, HoldObservations
<1> QED BY <1>3, <1>6 DEF FoldSample

\* _fold_sample keeps an observation in step with the samples it stands for.
LEMMA FoldMatches ==
  ASSUME NEW obs \in HoldObservations, NEW h \in Seq(Sample), Matches(obs, h),
         NEW status \in SampleStatus, NEW at \in Nat
  PROVE  Matches(FoldSample(obs, status, at),
                 Append(h, [status |-> status, at |-> at]))
<1> DEFINE s  == [status |-> status, at |-> at]
           g  == Append(h, s)
           o  == FoldSample(obs, status, at)
<1>1. /\ s \in Sample
      /\ Len(h) \in Nat
      /\ Len(g) = Len(h) + 1
      /\ \A i \in 1..Len(h) : g[i] = h[i]
      /\ g[Len(g)] = s
  BY DEF Sample
<1>2. /\ \A i \in 1..Len(h) : IsError(g, i) <=> IsError(h, i)
      /\ \A i \in 1..Len(h) : IsFail(g, i) <=> IsFail(h, i)
      /\ IsError(g, Len(g)) <=> status = "error"
      /\ IsFail(g, Len(g)) <=> status = "fail"
      /\ 1..Len(g) = 1..Len(h) \cup {Len(g)}
  BY <1>1 DEF IsError, IsFail
<1> HIDE DEF g, s
<1>3. CASE status = "error"
  <2>1. /\ o.sample_count = obs.sample_count + 1
        /\ o.error_count = obs.error_count + 1
        /\ o.trailing_error_count = obs.trailing_error_count + 1
        /\ o.violated = obs.violated
        /\ o.first_violation_at_sec = obs.first_violation_at_sec
    BY <1>3 DEF FoldSample, FoldErrorSample, HoldObservations
  <2> HIDE DEF o
  <2>2. /\ obs.sample_count = Len(h)
        /\ obs.error_count \in Nat
        /\ obs.trailing_error_count \in Nat
    BY DEF Matches, Counted, HoldObservations
  <2>3. Counted(o, g)
    BY <1>1, <1>2, <1>3, <2>1, <2>2, SMTT(30) DEF Matches, Counted
  <2>4. Latched(o, g)
    BY <1>1, <1>2, <1>3, <2>1 DEF Matches, Latched
  <2>5. Trailing(o, g)
    <3> DEFINE m == Len(h)
               n == obs.trailing_error_count
    <3>1. /\ m \in Nat /\ n \in Nat
          /\ Len(g) = m + 1
          /\ o.trailing_error_count = n + 1
          /\ n <= m
          /\ \A i \in m - n + 1 .. m : IsError(h, i)
          /\ n < m => ~IsError(h, m - n)
          /\ \A i \in 1..m : IsError(g, i) <=> IsError(h, i)
          /\ IsError(g, m + 1)
      BY <1>1, <1>2, <1>3, <2>1, <2>2 DEF Matches, Trailing
    <3> HIDE DEF m, n
    <3>2. (m + 1) - (n + 1) = m - n /\ n + 1 <= m + 1
      BY <3>1
    <3>3. ASSUME NEW i \in m - n + 1 .. m + 1
          PROVE  IsError(g, i)
      <4>1. CASE i = m + 1
        BY <3>1, <4>1
      <4>2. CASE i # m + 1
        <5>1. i \in m - n + 1 .. m /\ i \in 1..m
          BY <3>1, <4>2
        <5> QED BY <3>1, <5>1
      <4> QED BY <4>1, <4>2
    <3>4. ASSUME n + 1 < m + 1
          PROVE  ~IsError(g, m - n)
      <4>1. m - n \in 1..m /\ n < m
        BY <3>1, <3>4
      <4> QED BY <3>1, <4>1
    <3> QED BY <3>1, <3>2, <3>3, <3>4 DEF Trailing
  <2> QED BY <2>3, <2>4, <2>5 DEF Matches, g, s, o
<1>4. CASE status # "error"
  <2>1. /\ o.sample_count = obs.sample_count + 1
        /\ o.error_count = obs.error_count
        /\ o.trailing_error_count = 0
        /\ o.violated <=> obs.violated \/ status = "fail"
        /\ o.first_violation_at_sec =
             IF status = "fail" /\ ~obs.violated THEN at
             ELSE obs.first_violation_at_sec
    BY <1>4 DEF FoldSample, FoldEvaluatedSample, Evaluation, HoldObservations
  <2> HIDE DEF o
  <2>2. Counted(o, g)
    <3>1. /\ obs.sample_count = Len(h)
          /\ obs.error_count \in Nat
          /\ obs.error_count <= Len(h)
      BY DEF Matches, Counted, HoldObservations
    <3>2. o.error_count < Len(g) /\ o.sample_count = Len(g)
      BY <1>1, <2>1, <3>1
    <3>3. Len(g) \in 1..Len(g) /\ ~IsError(g, Len(g))
      BY <1>1, <1>2, <1>4
    <3>4. o.error_count \in Nat
      BY <2>1, <3>1
    <3> QED BY <1>1, <3>2, <3>3, <3>4 DEF Counted
  <2>3. Latched(o, g)
    <3>1. CASE obs.violated
      BY <1>1, <1>2, <1>4, <2>1, <3>1 DEF Matches, Latched
    <3>2. CASE ~obs.violated /\ status = "fail"
      <4>1. g[Len(g)].at = at
        BY <1>1 DEF s
      <4> QED BY <1>1, <1>2, <2>1, <3>2, <4>1 DEF Matches, Latched
    <3>3. CASE ~obs.violated /\ status # "fail"
      BY <1>1, <1>2, <1>4, <2>1, <3>3 DEF Matches, Latched
    <3> QED BY <3>1, <3>2, <3>3
  <2>4. Trailing(o, g)
    <3>1. Len(g) \in Nat /\ Len(g) > 0 /\ ~IsError(g, Len(g))
      BY <1>1, <1>2, <1>4
    <3>2. o.trailing_error_count = 0
      BY <2>1
    <3> QED BY <3>1, <3>2 DEF Trailing
  <2> QED BY <2>2, <2>3, <2>4 DEF Matches, g, s, o
<1> QED BY <1>3, <1>4

\* The verdict on the counters is the verdict on the samples.
LEMMA MatchingVerdict ==
  ASSUME NEW obs \in HoldObservations, NEW h \in Seq(Sample), Matches(obs, h)
  PROVE  HoldVerdict(obs) = VerdictOf(h)
<1>1. /\ Len(h) \in Nat
      /\ DOMAIN h = 1..Len(h)
      /\ obs.sample_count \in Nat
      /\ obs.error_count \in Nat
      /\ obs.trailing_error_count \in Nat
  BY DEF HoldObservations
<1>2. obs.sample_count = obs.error_count <=> Evaluated(h) = {}
  BY <1>1 DEF Matches, Counted, Evaluated, IsError
<1>3. obs.violated <=> Failed(h) # {}
  BY <1>1 DEF Matches, Latched, Failed, IsFail
<1>4. ASSUME Evaluated(h) # {}
      PROVE  obs.trailing_error_count >= HOLD_TRAILING_ERROR_SAMPLES
               <=> EndsInErrors(h)
  <2>1. obs.trailing_error_count < Len(h)
    BY <1>1, <1>4 DEF Matches, Trailing, Evaluated, IsError
  <2>2. HOLD_TRAILING_ERROR_SAMPLES \in Nat \ {0}
    BY TrailingAssumption
  <2> DEFINE n == Len(h)
             k == HOLD_TRAILING_ERROR_SAMPLES
             c == obs.trailing_error_count
  <2>3. /\ c < n /\ c \in Nat /\ n \in Nat /\ k \in Nat \ {0}
        /\ \A i \in n - c + 1 .. n : IsError(h, i)
        /\ ~IsError(h, n - c)
    BY <1>1, <2>1, <2>2 DEF Matches, Trailing
  <2>4. EndsInErrors(h) <=> n >= k /\ \A i \in n - k + 1 .. n : IsError(h, i)
    BY DEF EndsInErrors, IsError
  <2> HIDE DEF n, k, c
  <2>5. c >= k => n >= k /\ \A i \in n - k + 1 .. n : IsError(h, i)
    BY <2>3
  <2>6. ASSUME c < k, n >= k
        PROVE  ~\A i \in n - k + 1 .. n : IsError(h, i)
    <3>1. n - c \in n - k + 1 .. n
      BY <2>3, <2>6
    <3> QED BY <2>3, <3>1
  <2> QED BY <2>3, <2>4, <2>5, <2>6 DEF n, k, c
<1> QED BY <1>2, <1>3, <1>4 DEF HoldVerdict, VerdictOf

\* The time of the reported violation is that of the first failing sample.
LEMMA MatchingFirstViolation ==
  ASSUME NEW obs \in HoldObservations, NEW h \in Seq(Sample), Matches(obs, h)
  PROVE  IF Failed(h) = {} THEN obs.first_violation_at_sec = NotYet
         ELSE \E i \in Failed(h) : /\ \A j \in Failed(h) : i <= j
                                   /\ obs.first_violation_at_sec = h[i].at
BY DEF Matches, Latched, Failed, IsFail
=============================================================================

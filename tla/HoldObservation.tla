--------------------------- MODULE HoldObservation ---------------------------
(***************************************************************************)
(* devops_bench/evalharness/hold.py: what is remembered about one hold     *)
(* entry, how one sample is folded into it, and the verdict on it.  The    *)
(* monitor (SafeguardMonitor) and the soak (VerificationPass) use these    *)
(* operators, as both Python drivers use the same three functions.  Reasons *)
(* are left out: they are wording.  Times are whole clock units.           *)
(***************************************************************************)
EXTENDS Integers, Sequences

CONSTANT HOLD_TRAILING_ERROR_SAMPLES   \* errors that end a window badly (2)

ASSUME TrailingAssumption == HOLD_TRAILING_ERROR_SAMPLES \in Nat \ {0}

NotYet == -1                           \* None, for a time

SampleStatus == {"pass", "fail", "error"}

HoldObservations ==
  [ observed_window_sec    : Nat,
    violated               : BOOLEAN,
    first_violation_at_sec : Nat \cup {NotYet},
    sample_count           : Nat,
    error_count            : Nat,
    trailing_error_count   : Nat ]

NewObservation ==
  [ observed_window_sec    |-> 0,
    violated               |-> FALSE,
    first_violation_at_sec |-> NotYet,
    sample_count           |-> 0,
    error_count            |-> 0,
    trailing_error_count   |-> 0 ]

FoldErrorSample(obs) ==
  [obs EXCEPT !.sample_count = @ + 1,
              !.error_count = @ + 1,
              !.trailing_error_count = @ + 1]

\* Seeded fault: an evaluated sample does not end the run of errors.
EvaluationFault(obs) == [obs EXCEPT !.sample_count = @ + 1]
Evaluation(obs)     == [obs EXCEPT !.sample_count = @ + 1,
                                   !.trailing_error_count = 0]

FoldEvaluatedSample(obs, status, elapsed) ==
  IF status = "fail" /\ ~obs.violated
  THEN [Evaluation(obs) EXCEPT !.violated = TRUE,
                               !.first_violation_at_sec = elapsed]
  ELSE Evaluation(obs)

FoldSample(obs, status, elapsed) ==
  IF status = "error" THEN FoldErrorSample(obs)
                      ELSE FoldEvaluatedSample(obs, status, elapsed)

\* The order of the rules is the code's: a violation outranks the errors that
\* follow it, and only a window without any evaluated sample outranks it.
HoldVerdict(obs) ==
  IF obs.sample_count = obs.error_count THEN "error"    \* rules 1 and 2
  ELSE IF obs.violated THEN "fail"
  ELSE IF obs.trailing_error_count >= HOLD_TRAILING_ERROR_SAMPLES THEN "error"
  ELSE "pass"

-----------------------------------------------------------------------------
(* The reference: the verdict as the docstring of hold_verdict words it, on *)
(* the whole list of samples (each with its status and its time) instead of *)
(* on the counters.                                                         *)

Sample == [status : SampleStatus, at : Nat]

Evaluated(h) == {i \in DOMAIN h : h[i].status # "error"}
Failed(h)    == {i \in DOMAIN h : h[i].status = "fail"}

EndsInErrors(h) ==
  /\ Len(h) >= HOLD_TRAILING_ERROR_SAMPLES
  /\ \A i \in Len(h) - HOLD_TRAILING_ERROR_SAMPLES + 1 .. Len(h) :
       h[i].status = "error"

VerdictOf(h) ==
  IF Evaluated(h) = {} THEN "error"
  ELSE IF Failed(h) # {} THEN "fail"
  ELSE IF EndsInErrors(h) THEN "error"
  ELSE "pass"
=============================================================================

---------------------------- MODULE ChaosScenario ----------------------------
(***************************************************************************)
(* devops_bench/evalharness/scenario.py, class ScenarioManager, and the    *)
(* fault it drives, GenerateLoadFault of chaos/faults/generate_load.py: a  *)
(* daemon thread waits for the trigger, opens a way to the workload, lets  *)
(* an LLM run load commands against it, and then verifies the workload,    *)
(* while the harness's main thread waits for chaos_active_event, reads the *)
(* reports and may abort.                                                  *)
(*                                                                         *)
(* Commands of the LLM that are no load spike change nothing here and are  *)
(* left out.  An `except' branch of the thread is a step of its own.       *)
(***************************************************************************)
EXTENDS Integers

CONSTANTS
  VerifyRefs,          \* kinds of `verify:' references of the spec
  Transports,          \* kinds of clusters the load may have to reach
  MaxCalls             \* bound: load commands the LLM issues

ASSUME ScenarioAssumption ==
  /\ VerifyRefs \subseteq {"none", "known", "unknown"}
  /\ Transports \subseteq {"skip", "local", "remote"}
  /\ MaxCalls \in Nat

VARIABLES
  verify, transport,   \* the spec's, fixed for a run
  scenario,            \* where the scenario thread is
  aborted,
  chaos_active_event,
  chaos_report, perf_report,
  service_url,         \* of the action's target: spec's own, lb or tunnel
  tunnel,              \* a kubectl port-forward is open
  load_result,
  chaos_result,        \* success of the ChaosResult inject returns
  calls                \* how many load commands there were

scenarioVars == <<verify, transport, scenario, aborted, chaos_active_event,
                  chaos_report, perf_report, service_url, tunnel, load_result,
                  chaos_result, calls>>

ScenarioPc == {"none", "begin", "trigger", "address", "open", "loop", "loading",
               "close", "report", "unblock", "check", "verifying", "ending",
               "exited"}

Reports == [ status       : {"none", "initiated", "success", "failed"},
             verification : {"none", "pass", "fail", "raised", "unresolved"} ]

NoReport == [status |-> "none", verification |-> "none"]

ScenarioTypeOK ==
  /\ verify \in VerifyRefs
  /\ transport \in Transports
  /\ scenario \in ScenarioPc
  /\ aborted \in BOOLEAN
  /\ chaos_active_event \in BOOLEAN
  /\ chaos_report \in Reports
  /\ perf_report \in {"none", "pass", "fail"}
  /\ service_url \in {"spec", "lb", "tunnel"}
  /\ tunnel \in BOOLEAN
  /\ load_result \in {"none", "ok", "failed"}
  /\ chaos_result \in {"none", "success", "failed"}
  /\ calls \in 0..MaxCalls

\* A manager before its thread is started.
ScenarioInit ==
  /\ verify \in VerifyRefs
  /\ transport \in Transports
  /\ scenario = "none"
  /\ aborted = FALSE
  /\ chaos_active_event = FALSE
  /\ chaos_report = NoReport
  /\ perf_report = "none"
  /\ service_url = "spec"
  /\ tunnel = FALSE
  /\ load_result = "none"
  /\ chaos_result = "none"
  /\ calls = 0

-----------------------------------------------------------------------------
(* What the main thread does to the manager. *)

StartScenario ==
  /\ scenario = "none"
  /\ scenario' = "begin"
  /\ UNCHANGED <<verify, transport, aborted, chaos_active_event, chaos_report,
                 perf_report, service_url, tunnel, load_result, chaos_result, calls>>

\* ScenarioManager.stop
AbortScenario ==
  /\ aborted' = TRUE
  /\ UNCHANGED <<verify, transport, scenario, chaos_active_event, chaos_report,
                 perf_report, service_url, tunnel, load_result, chaos_result, calls>>

-----------------------------------------------------------------------------
(* The scenario thread: run_chaos_and_verification. *)

Goto(pc) == scenario' = pc

\* Nothing of the fault: the steps of the manager itself.
FaultUnchanged ==
  UNCHANGED <<verify, transport, aborted, service_url, tunnel, load_result,
              chaos_result, calls>>

Begin ==
  /\ scenario = "begin"
  /\ chaos_report' = [NoReport EXCEPT !.status = "initiated"]
  /\ Goto("trigger")
  /\ FaultUnchanged
  /\ UNCHANGED <<chaos_active_event, perf_report>>

TriggerFires ==
  /\ scenario = "trigger"
  /\ Goto("address")
  /\ FaultUnchanged
  /\ UNCHANGED <<chaos_active_event, chaos_report, perf_report>>

\* A trigger that raises: the failure is reported first, the event set after.
TriggerRaises ==
  /\ scenario = "trigger"
  /\ chaos_report' = [chaos_report EXCEPT !.status = "failed"]
  /\ Goto("unblock")
  /\ FaultUnchanged
  /\ UNCHANGED <<chaos_active_event, perf_report>>

Unblock ==
  /\ scenario = "unblock"
  /\ chaos_active_event' = TRUE
  /\ Goto("ending")
  /\ FaultUnchanged
  /\ UNCHANGED <<chaos_report, perf_report>>

\* _inject_chaos: only a remote cluster is asked for an external address.
ResolveAddress(found) ==
  /\ scenario = "address"
  /\ found => transport = "remote"
  /\ service_url' = IF found THEN "lb" ELSE service_url
  /\ Goto("open")
  /\ UNCHANGED <<verify, transport, aborted, chaos_active_event, chaos_report,
                 perf_report, tunnel, load_result, chaos_result, calls>>

-----------------------------------------------------------------------------
(* GenerateLoadFault.inject: no exception leaves it. *)

SkipPortForward == transport = "skip" \/ service_url = "lb"

\* With a tunnel the target is its local end until the loop is left.
EnterLoop ==
  /\ scenario = "open"
  /\ tunnel' = ~SkipPortForward
  /\ service_url' = IF SkipPortForward THEN service_url ELSE "tunnel"
  /\ Goto("loop")
  /\ UNCHANGED <<verify, transport, aborted, chaos_active_event, chaos_report,
                 perf_report, load_result, chaos_result, calls>>

\* kubectl port-forward exited within the settle time.
TunnelFails ==
  /\ scenario = "open"
  /\ ~SkipPortForward
  /\ chaos_result' = "failed"
  /\ Goto("report")
  /\ UNCHANGED <<verify, transport, aborted, chaos_active_event, chaos_report,
                 perf_report, service_url, tunnel, load_result, calls>>

\* run_chaos_command on a command that parses to `fortio load': the event is set
\* before the command runs.
BeginLoad ==
  /\ scenario = "loop"
  /\ calls < MaxCalls
  /\ calls' = calls + 1
  /\ chaos_active_event' = TRUE
  /\ Goto("loading")
  /\ UNCHANGED <<verify, transport, aborted, chaos_report, perf_report,
                 service_url, tunnel, load_result, chaos_result>>

\* A non-zero exit, a timeout and a missing binary are all failures; the last
\* load command decides.
EndLoad(ok) ==
  /\ scenario = "loading"
  /\ load_result' = IF ok THEN "ok" ELSE "failed"
  /\ Goto("loop")
  /\ UNCHANGED <<verify, transport, aborted, chaos_active_event, chaos_report,
                 perf_report, service_url, tunnel, chaos_result, calls>>

\* The text names a load, but shlex cannot split it.
UnparsableLoad ==
  /\ scenario = "loop"
  /\ calls < MaxCalls
  /\ calls' = calls + 1
  /\ load_result' = "failed"
  /\ UNCHANGED <<verify, transport, scenario, aborted, chaos_active_event,
                 chaos_report, perf_report, service_url, tunnel, chaos_result>>

\* A malformed call, a tool the loop does not have, a command that is no load:
\* the model gets its answer, and nothing else happens.
AnswerCall ==
  /\ scenario = "loop"
  /\ calls < MaxCalls
  /\ calls' = calls + 1
  /\ UNCHANGED <<verify, transport, scenario, aborted, chaos_active_event,
                 chaos_report, perf_report, service_url, tunnel, load_result,
                 chaos_result>>

\* Seeded fault: a loop that ends cleanly counts as a spike that landed.
LandedFault(raised) == ~raised
Landed(raised) == ~raised /\ load_result = "ok"

\* Seeded fault: the URL is restored after the loop, not in a `finally'.
RestoreUrlFault(raised) == IF raised THEN service_url ELSE "spec"
RestoreUrl(raised) == IF tunnel THEN "spec" ELSE service_url

\* The agent loop ends, or raises: an LLM call failed.
LeaveLoop(raised) ==
  /\ scenario = "loop"
  /\ service_url' = RestoreUrl(raised)
  /\ chaos_result' = IF Landed(raised) THEN "success" ELSE "failed"
  /\ Goto("close")
  /\ UNCHANGED <<verify, transport, aborted, chaos_active_event, chaos_report,
                 perf_report, tunnel, load_result, calls>>

\* Seeded fault: the exit waits for the kubectl process, which may outlive any
\* signal.  The code waits a bounded time after SIGTERM and after SIGKILL, and
\* then abandons it.
TunnelLetsGoFault == ~tunnel
TunnelLetsGo == TRUE

CloseTunnel ==
  /\ scenario = "close"
  /\ TunnelLetsGo
  /\ tunnel' = FALSE
  /\ Goto("report")
  /\ UNCHANGED <<verify, transport, aborted, chaos_active_event, chaos_report,
                 perf_report, service_url, load_result, chaos_result, calls>>

-----------------------------------------------------------------------------
(* run_chaos_and_verification again, with the ChaosResult. *)

\* _chaos_report_from_result replaces the whole report.
ReportInjection ==
  /\ scenario = "report"
  /\ chaos_report' = [NoReport EXCEPT !.status = chaos_result]
  /\ Goto("check")
  /\ FaultUnchanged
  /\ UNCHANGED <<chaos_active_event, perf_report>>

NothingToVerify ==
  /\ scenario = "check"
  /\ aborted \/ verify = "none"
  /\ Goto("ending")
  /\ FaultUnchanged
  /\ UNCHANGED <<chaos_active_event, chaos_report, perf_report>>

UnknownReference ==
  /\ scenario = "check"
  /\ ~aborted /\ verify = "unknown"
  /\ chaos_report' = [chaos_report EXCEPT !.verification = "unresolved"]
  /\ Goto("ending")
  /\ FaultUnchanged
  /\ UNCHANGED <<chaos_active_event, perf_report>>

BeginVerification ==
  /\ scenario = "check"
  /\ ~aborted /\ verify = "known"
  /\ Goto("verifying")
  /\ FaultUnchanged
  /\ UNCHANGED <<chaos_active_event, chaos_report, perf_report>>

\* Seeded fault: the performance report waits for a section of its own.
PerfFault(outcome) == perf_report
\* Seeded fault: the report speaks of success and failure, like the other one.
PerfWordsFault(outcome) == IF outcome = "pass" THEN "success" ELSE "failed"
PerfFromVerification(outcome) == outcome

\* Both reports are written in one critical section.
Verified(outcome) ==
  /\ scenario = "verifying"
  /\ chaos_report' = [chaos_report EXCEPT !.verification = outcome]
  /\ perf_report' = PerfFromVerification(outcome)
  /\ Goto("ending")
  /\ FaultUnchanged
  /\ UNCHANGED chaos_active_event

VerifierRaises ==
  /\ scenario = "verifying"
  /\ chaos_report' = [chaos_report EXCEPT !.verification = "raised"]
  /\ Goto("ending")
  /\ FaultUnchanged
  /\ UNCHANGED <<chaos_active_event, perf_report>>

\* is_alive() is still true between the last write and this.
Exit ==
  /\ scenario = "ending"
  /\ Goto("exited")
  /\ FaultUnchanged
  /\ UNCHANGED <<chaos_active_event, chaos_report, perf_report>>

Load == BeginLoad \/ (\E ok \in BOOLEAN : EndLoad(ok)) \/ UnparsableLoad \/ AnswerCall

Inject ==
  \/ \E found \in BOOLEAN : ResolveAddress(found)
  \/ EnterLoop
  \/ TunnelFails
  \/ Load
  \/ \E raised \in BOOLEAN : LeaveLoop(raised)
  \/ CloseTunnel

ScenarioThread ==
  \/ Begin
  \/ TriggerFires
  \/ TriggerRaises
  \/ Unblock
  \/ Inject
  \/ ReportInjection
  \/ NothingToVerify
  \/ UnknownReference
  \/ BeginVerification
  \/ \E outcome \in {"pass", "fail"} : Verified(outcome)
  \/ VerifierRaises
  \/ Exit

ScenarioEnded == scenario = "exited" /\ UNCHANGED scenarioVars

ScenarioNext == StartScenario \/ AbortScenario \/ ScenarioThread \/ ScenarioEnded

ScenarioSpec == ScenarioInit /\ [][ScenarioNext]_scenarioVars

\* The thread runs and what it calls returns.
ScenarioFairSpec == ScenarioSpec /\ WF_scenarioVars(ScenarioThread)

-----------------------------------------------------------------------------
(* What the scenario promises. *)

\* A reader of get_reports never sees one report without the other: perf_report
\* is there exactly when a verification came to an outcome, and with the same
\* outcome (the one lock of run_chaos_and_verification).
ReportsAgree ==
  perf_report = IF chaos_report.verification \in {"pass", "fail"}
                THEN chaos_report.verification ELSE "none"

\* inject fails closed: a report of success means a load was signalled to the
\* harness, it ran, and no later load failed to reach the workload.
SuccessMeansLoadLanded ==
  chaos_report.status = "success" => chaos_active_event /\ load_result = "ok"

\* The URL the LLM is given is the tunnel's exactly while there is a tunnel, and
\* no tunnel and no tunnel URL is left behind when the injection is over, however
\* the loop ended.
UrlFollowsTunnel ==
  /\ scenario \in {"loop", "loading"} => (tunnel <=> service_url = "tunnel")
  /\ scenario \in {"report", "check", "verifying", "ending", "exited"} =>
       ~tunnel /\ service_url # "tunnel"

\* As long as the calls of the thread return, a started scenario ends, whatever
\* the reference, the transport, the load and an abort do.
ScenarioEnds == scenario = "begin" ~> scenario = "exited"
=============================================================================

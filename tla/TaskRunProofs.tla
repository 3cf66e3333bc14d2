---------------------------- MODULE TaskRunProofs ----------------------------
(***************************************************************************)
(* Proofs about ChaosScenario and about TaskRun, which contains it, for    *)
(* any kinds of clusters, boundaries, references and transports and any    *)
(* number of load commands.  First the scenario by itself: its reports and *)
(* its tunnel.  Then the run: its steps are steps of the scenario or leave *)
(* it alone, the records are truthful, and a run implements RunLifecycle.  *)
(***************************************************************************)
EXTENDS TaskRun, TLAPS

(***************************************************************************)
(* The scenario.                                                           *)
(***************************************************************************)
\* Before a verification ends there is nothing of it in either report.
NothingVerifiedYet ==
  scenario \notin {"ending", "exited"} =>
    chaos_report.verification = "none" /\ perf_report = "none"

\* Success is handed down: from a load to the fault's result to the report.
SuccessIsHandedDown ==
  /\ scenario = "loading" => chaos_active_event
  /\ load_result = "ok" => chaos_active_event
  /\ chaos_result = "success" =>
       /\ load_result = "ok"
       /\ scenario \in {"close", "report", "check", "verifying", "ending", "exited"}
  /\ chaos_report.status = "success" => chaos_result = "success"

\* Where a tunnel, and its URL, can be met at all.
TunnelIsLocal ==
  /\ tunnel => scenario \in {"loop", "loading", "close"}
  /\ service_url = "tunnel" => scenario \in {"loop", "loading"}
  /\ scenario \in {"loop", "loading"} => (tunnel <=> service_url = "tunnel")

ScenarioIInv ==
  /\ ScenarioTypeOK
  /\ ReportsAgree
  /\ NothingVerifiedYet
  /\ SuccessIsHandedDown
  /\ TunnelIsLocal

-----------------------------------------------------------------------------
\* The type invariant holds of every step (the fields of the reports stay in
\* their sets).
LEMMA ScenarioTypeStep == ScenarioTypeOK /\ [ScenarioNext]_scenarioVars => ScenarioTypeOK'
<1> SUFFICES ASSUME ScenarioTypeOK, [ScenarioNext]_scenarioVars
             PROVE  ScenarioTypeOK'
  OBVIOUS
<1> USE DEF ScenarioTypeOK, ScenarioPc, Reports, NoReport, Goto, FaultUnchanged
<1>1. CASE StartScenario BY <1>1 DEF StartScenario
<1>2. CASE AbortScenario BY <1>2 DEF AbortScenario
<1>3. CASE ScenarioEnded \/ UNCHANGED scenarioVars
  BY <1>3 DEF ScenarioEnded, scenarioVars
<1>4. CASE ScenarioThread
  <2>1. CASE Begin BY <2>1 DEF Begin
  <2>2. CASE TriggerFires \/ Unblock BY <2>2 DEF TriggerFires, Unblock
  <2>14. CASE TriggerRaises BY <2>14 DEF TriggerRaises
  <2>3. CASE \E found \in BOOLEAN : ResolveAddress(found)
    BY <2>3 DEF ResolveAddress
  <2>4. CASE EnterLoop BY <2>4 DEF EnterLoop, SkipPortForward
  <2>5. CASE TunnelFails BY <2>5 DEF TunnelFails
  <2>6. CASE BeginLoad
    <3>1. calls' \in 0..MaxCalls BY <2>6, ScenarioAssumption DEF BeginLoad
    <3> QED BY <2>6, <3>1 DEF BeginLoad
  <2>15. CASE UnparsableLoad
    <3>1. calls' \in 0..MaxCalls BY <2>15, ScenarioAssumption DEF UnparsableLoad
    <3> QED BY <2>15, <3>1 DEF UnparsableLoad
  <2>16. CASE AnswerCall
    <3>1. calls' \in 0..MaxCalls BY <2>16, ScenarioAssumption DEF AnswerCall
    <3> QED BY <2>16, <3>1 DEF AnswerCall
  <2>7. CASE \E ok \in BOOLEAN : EndLoad(ok) BY <2>7 DEF EndLoad
  <2>8. CASE \E raised \in BOOLEAN : LeaveLoop(raised)
    BY <2>8 DEF LeaveLoop, RestoreUrl, Landed
  <2>9. CASE CloseTunnel
    <3>1. tunnel' \in BOOLEAN BY <2>9, Zenon DEF CloseTunnel
    <3>2. scenario' \in ScenarioPc BY <2>9, SMTT(30) DEF CloseTunnel
    <3>3. UNCHANGED <<verify, transport, aborted, chaos_active_event,
                      chaos_report, perf_report, service_url, load_result,
                      chaos_result, calls>>
      BY <2>9, Zenon DEF CloseTunnel
    <3> QED BY <3>1, <3>2, <3>3, ZenonT(30)
  <2>10. CASE ReportInjection BY <2>10 DEF ReportInjection
  <2>11. CASE NothingToVerify \/ UnknownReference \/ BeginVerification
    BY <2>11 DEF NothingToVerify, UnknownReference, BeginVerification
  <2>12. CASE \E answer \in {"pass", "fail"} : Verified(answer)
    BY <2>12 DEF Verified, PerfFromVerification
  <2>13. CASE VerifierRaises \/ Exit BY <2>13 DEF VerifierRaises, Exit
  <2> QED BY <1>4, <2>1, <2>2, <2>3, <2>4, <2>5, <2>6, <2>7, <2>8, <2>9, <2>10,
             <2>11, <2>12, <2>13, <2>14, <2>15, <2>16
          DEF ScenarioThread, Inject, Load
<1> QED BY <1>1, <1>2, <1>3, <1>4 DEF ScenarioNext

\* The reports agree, because until the one critical section of a verification
\* neither has anything to agree on.
LEMMA ReportsStep ==
  ScenarioIInv /\ [ScenarioNext]_scenarioVars => ReportsAgree' /\ NothingVerifiedYet'
<1> SUFFICES ASSUME ScenarioIInv, [ScenarioNext]_scenarioVars
             PROVE  ReportsAgree' /\ NothingVerifiedYet'
  OBVIOUS
<1> USE DEF ScenarioIInv, ReportsAgree, NothingVerifiedYet, ScenarioTypeOK, Reports,
            NoReport, Goto, FaultUnchanged
<1>1. CASE StartScenario \/ AbortScenario
  BY <1>1 DEF StartScenario, AbortScenario
<1>2. CASE ScenarioEnded \/ UNCHANGED scenarioVars
  BY <1>2 DEF ScenarioEnded, scenarioVars
<1>3. CASE ScenarioThread
  <2>1. CASE Begin \/ TriggerFires \/ TriggerRaises \/ Unblock
    BY <2>1 DEF Begin, TriggerFires, TriggerRaises, Unblock
  <2>2. CASE Inject
    BY <2>2 DEF Inject, Load, ResolveAddress, EnterLoop, TunnelFails, BeginLoad,
                EndLoad, UnparsableLoad, AnswerCall, LeaveLoop, CloseTunnel
  <2>3. CASE ReportInjection BY <2>3 DEF ReportInjection
  <2>4. CASE NothingToVerify \/ BeginVerification \/ Exit
    BY <2>4 DEF NothingToVerify, BeginVerification, Exit
  <2>5. CASE UnknownReference \/ VerifierRaises
    BY <2>5 DEF UnknownReference, VerifierRaises
  <2>6. CASE \E answer \in {"pass", "fail"} : Verified(answer)
    BY <2>6 DEF Verified, PerfFromVerification
  <2> QED BY <1>3, <2>1, <2>2, <2>3, <2>4, <2>5, <2>6 DEF ScenarioThread
<1> QED BY <1>1, <1>2, <1>3 DEF ScenarioNext

\* No step makes a success of anything but a load that landed.
LEMMA SuccessStep ==
  ScenarioIInv /\ [ScenarioNext]_scenarioVars => SuccessIsHandedDown'
<1> SUFFICES ASSUME ScenarioIInv, [ScenarioNext]_scenarioVars
             PROVE  SuccessIsHandedDown'
  OBVIOUS
<1> USE DEF ScenarioIInv, SuccessIsHandedDown, ScenarioTypeOK, Reports, NoReport, Goto,
            FaultUnchanged
<1>1. CASE StartScenario \/ AbortScenario
  BY <1>1 DEF StartScenario, AbortScenario
<1>2. CASE ScenarioEnded \/ UNCHANGED scenarioVars
  BY <1>2 DEF ScenarioEnded, scenarioVars
<1>3. CASE ScenarioThread
  <2>1. CASE Begin \/ TriggerFires \/ TriggerRaises \/ Unblock
    BY <2>1 DEF Begin, TriggerFires, TriggerRaises, Unblock
  <2>2. CASE BeginLoad BY <2>2 DEF BeginLoad
  <2>10. CASE UnparsableLoad \/ AnswerCall
    BY <2>10 DEF UnparsableLoad, AnswerCall
  <2>11. CASE \E ok \in BOOLEAN : EndLoad(ok)
    <3>1. PICK ok \in BOOLEAN : EndLoad(ok) BY <2>11
    <3>2. chaos_active_event
      BY <3>1 DEF EndLoad
    <3> QED BY <3>1, <3>2 DEF EndLoad
  <2>3. CASE \E raised \in BOOLEAN : LeaveLoop(raised)
    BY <2>3 DEF LeaveLoop, Landed
  <2>4. CASE EnterLoop \/ TunnelFails \/ CloseTunnel
    BY <2>4 DEF EnterLoop, TunnelFails, CloseTunnel
  <2>5. CASE \E found \in BOOLEAN : ResolveAddress(found)
    BY <2>5 DEF ResolveAddress
  <2>6. CASE ReportInjection BY <2>6 DEF ReportInjection
  <2>7. CASE NothingToVerify \/ BeginVerification \/ Exit
    BY <2>7 DEF NothingToVerify, BeginVerification, Exit
  <2>8. CASE UnknownReference \/ VerifierRaises
    BY <2>8 DEF UnknownReference, VerifierRaises
  <2>9. CASE \E answer \in {"pass", "fail"} : Verified(answer)
    BY <2>9 DEF Verified
  <2> QED BY <1>3, <2>1, <2>2, <2>3, <2>4, <2>5, <2>6, <2>7, <2>8, <2>9,
             <2>10, <2>11 DEF ScenarioThread, Inject, Load
<1> QED BY <1>1, <1>2, <1>3 DEF ScenarioNext

\* The URL is the tunnel's from the step that opens the tunnel to the one that
\* leaves the loop, and the tunnel outlives it by a step.
LEMMA TunnelStep ==
  ScenarioIInv /\ [ScenarioNext]_scenarioVars => TunnelIsLocal'
<1> SUFFICES ASSUME ScenarioIInv, [ScenarioNext]_scenarioVars
             PROVE  TunnelIsLocal'
  OBVIOUS
<1> USE DEF ScenarioIInv, TunnelIsLocal, ScenarioTypeOK, Goto, FaultUnchanged
<1>1. CASE StartScenario \/ AbortScenario
  BY <1>1 DEF StartScenario, AbortScenario
<1>2. CASE ScenarioEnded \/ UNCHANGED scenarioVars
  BY <1>2 DEF ScenarioEnded, scenarioVars
<1>3. CASE Inject
  <2>1. CASE Load BY <2>1 DEF Load, BeginLoad, EndLoad, UnparsableLoad, AnswerCall
  <2>2. CASE \E raised \in BOOLEAN : LeaveLoop(raised)
    BY <2>2 DEF LeaveLoop, RestoreUrl
  <2>3. CASE EnterLoop BY <2>3 DEF EnterLoop
  <2>4. CASE TunnelFails \/ CloseTunnel BY <2>4 DEF TunnelFails, CloseTunnel
  <2>5. CASE \E found \in BOOLEAN : ResolveAddress(found)
    BY <2>5 DEF ResolveAddress
  <2> QED BY <1>3, <2>1, <2>2, <2>3, <2>4, <2>5 DEF Inject
<1>4. CASE ScenarioThread /\ ~Inject
  BY <1>4 DEF ScenarioThread, Begin, TriggerFires, TriggerRaises, Unblock,
     ReportInjection, NothingToVerify, UnknownReference, BeginVerification,
     Verified, VerifierRaises, Exit
<1> QED BY <1>1, <1>2, <1>3, <1>4 DEF ScenarioNext

\* ScenarioIInv holds initially and is kept by every step.
THEOREM ScenarioInvariance == ScenarioSpec => []ScenarioIInv
<1>1. ScenarioInit => ScenarioIInv
  <2> SUFFICES ASSUME ScenarioInit PROVE ScenarioIInv
    OBVIOUS
  <2> USE DEF ScenarioInit
  <2>1. ScenarioTypeOK
    <3>1. calls \in 0..MaxCalls BY ScenarioAssumption
    <3>2. chaos_report \in Reports BY DEF Reports, NoReport
    <3> QED BY <3>1, <3>2 DEF ScenarioTypeOK, ScenarioPc
  <2>2. ReportsAgree /\ NothingVerifiedYet
    BY DEF ReportsAgree, NothingVerifiedYet, NoReport
  <2>3. SuccessIsHandedDown BY DEF SuccessIsHandedDown, NoReport
  <2>4. TunnelIsLocal BY DEF TunnelIsLocal
  <2> QED BY <2>1, <2>2, <2>3, <2>4 DEF ScenarioIInv
<1>2. ScenarioIInv /\ [ScenarioNext]_scenarioVars => ScenarioIInv'
  BY ScenarioTypeStep, ReportsStep, SuccessStep, TunnelStep DEF ScenarioIInv
<1> QED BY <1>1, <1>2, PTL DEF ScenarioSpec

-----------------------------------------------------------------------------
\* The scenario's state has its type.
THEOREM ScenarioTypeCorrect == ScenarioSpec => []ScenarioTypeOK
<1>1. ScenarioIInv => ScenarioTypeOK BY DEF ScenarioIInv
<1> QED BY <1>1, ScenarioInvariance, PTL

\* A reader of get_reports never sees one report without the other.
THEOREM ReportsAgreement == ScenarioSpec => []ReportsAgree
<1>1. ScenarioIInv => ReportsAgree BY DEF ScenarioIInv
<1> QED BY <1>1, ScenarioInvariance, PTL

\* A report of success means a signalled load that reached the workload.
THEOREM FailsClosed == ScenarioSpec => []SuccessMeansLoadLanded
<1>1. ScenarioIInv => SuccessMeansLoadLanded
  BY DEF ScenarioIInv, SuccessIsHandedDown, SuccessMeansLoadLanded
<1> QED BY <1>1, ScenarioInvariance, PTL

\* The URL of the target is the tunnel's exactly while there is a tunnel.
THEOREM TunnelDiscipline == ScenarioSpec => []UrlFollowsTunnel
<1>1. ScenarioIInv => UrlFollowsTunnel
  BY DEF ScenarioIInv, TunnelIsLocal, UrlFollowsTunnel
<1> QED BY <1>1, ScenarioInvariance, PTL

-----------------------------------------------------------------------------
(***************************************************************************)
(* The run.                                                                *)
(***************************************************************************)
OwnTypeOK ==
  /\ task \in [cluster : Clusters, boundary : Boundaries,
               chaos : BOOLEAN, entries : BOOLEAN]
  /\ pc \in TryPc \cup ExceptPc \cup FinallyPc
  /\ deployer \in BOOLEAN
  /\ infra \in {"none", "partial", "up", "down", "leaked"}
  /\ infra_up \in BOOLEAN
  /\ workspace \in BOOLEAN
  /\ creds_dir \in BOOLEAN
  /\ credentials \in {"none", "installed", "residue"}
  /\ completed_spec \in BOOLEAN
  /\ entries \in BOOLEAN
  /\ monitor \in {"none", "idle", "sampling", "stopped"}
  /\ agent_started \in BOOLEAN
  /\ ran \in {"no", "inside", "outside"}
  /\ reports \in Snapshots
  /\ verification_status \in VerificationStatus
  /\ result \in Records \cup {NoRecord}

UntilUp    == {"deployer", "up"}
Unsandboxed == {"deployer", "up", "describe", "sandbox"}
BeforeAgent == Unsandboxed \cup {"prepare", "chaos", "await", "monitor",
                                 "launch", "resolve"}
AfterAgent == TryPc \ BeforeAgent

\* What is there, as far as the `try' has come.
Progress ==
  /\ infra # "none" => deployer
  /\ pc \in TryPc \ {"deployer"} => deployer
  /\ pc \in UntilUp => infra = "none"
  /\ pc \in TryPc \ UntilUp => infra_up
  /\ pc \in Unsandboxed => ~completed_spec /\ ~creds_dir /\ credentials = "none"
  /\ pc \in BeforeAgent => ran = "no"
  /\ pc \in AfterAgent => ran # "no"
  /\ pc = "resolve" \/ ran # "no" => agent_started
  /\ pc \in TryPc \ Unsandboxed /\ task.boundary = "sandboxed" => completed_spec
  /\ ran = "inside" => completed_spec
  /\ ran = "outside" => ~completed_spec /\ task.boundary # "sandboxed"
  /\ completed_spec => task.boundary = "sandboxed"

\* There is a record from the end of the `try' or the `except' on.
RecordIsLast == pc \in TryPc \cup ExceptPc => result = NoRecord

\* A status is set before its record is built, and the safeguards are settled
\* before the status.
StatusIsSet ==
  /\ pc \in AfterAgent \ {"acting"} => monitor # "sampling"
  /\ pc \in {"reverify", "fail"} => monitor # "sampling"
  /\ pc \in {"succeed", "fail"} =>
       /\ verification_status # "none"
       /\ verification_status = "evaluated" => infra_up /\ ~no_infra
       /\ (verification_status = "skipped_no_infra") = no_infra
  /\ pc = "succeed" => verification_status # "not_evaluated"

\* The flag on the record, before and after the attempt to remove the objects.
FlagIsTrue ==
  result # NoRecord =>
    /\ pc \in {"abort", "join", "release_monitor", "release_credentials"} =>
         result.sandbox_teardown_clean
    /\ pc \in {"teardown", "clean", "over"} /\ completed_spec /\ ClusterSurvives =>
         /\ credentials # "none" => ~result.sandbox_teardown_clean
         /\ ~result.sandbox_teardown_clean => ~NoOp

\* What is left to give back near the end.
NearlyReleased ==
  /\ pc \in {"teardown", "clean", "over"} =>
       ~(completed_spec /\ credentials = "installed" /\ ClusterSurvives)
  /\ pc \in {"clean", "over"} => (infra \in {"partial", "up"} => Keep)

IInv ==
  /\ ScenarioTypeOK
  /\ OwnTypeOK
  /\ Progress
  /\ RecordIsLast
  /\ StatusIsSet
  /\ VerificationStatusIsTruthful
  /\ SandboxedIsTruthful
  /\ FlagIsTrue
  /\ NearlyReleased

-----------------------------------------------------------------------------
(* The scenario inside the run. *)

\* Every step of a run is a step of the scenario or leaves the scenario alone.
LEMMA StepOfScenario == [Next]_vars => [ScenarioNext]_scenarioVars
<1> SUFFICES ASSUME [Next]_vars PROVE [ScenarioNext]_scenarioVars
  OBVIOUS
<1>1. CASE Try
  BY <1>1, ZenonT(60) DEF Try, GetDeployer, Up, Describe, RunAmbient, PrepareSandbox,
     Prepare, SkipChaos, start_scenario, AwaitChaos, StartMonitor, LaunchAgent,
     ExecuteAgent, AgentReturns, NothingToDrain, Drain, ReadReports,
     StampReports, Verify, BuildSuccessRecord, ScenarioNext, scenarioVars
<1>2. CASE Except
  BY <1>2, ZenonT(60) DEF Except, Raise, UpRaises, PrepareSandboxRaises, ExceptStops,
     ExceptVerifies, BuildFailedRecord, Interrupt, ScenarioNext, scenarioVars
<1>3. CASE Finally
  BY <1>3, ZenonT(60) DEF Finally, Abort, Join, ReleaseMonitor, ClusterTakesThem,
     RemoveCredentials, Teardown, Clean, ScenarioNext, scenarioVars
<1>4. CASE Scenario \/ Over \/ UNCHANGED vars
  BY <1>4 DEF Scenario, Over, vars, ScenarioNext, scenarioVars
<1> QED BY <1>1, <1>2, <1>3, <1>4 DEF Next, Main

\* A run contains a scenario, so what holds of every scenario holds in a run.
THEOREM RunContainsScenario == Spec => ScenarioSpec
<1>1. Init => ScenarioInit BY DEF Init
<1> QED BY <1>1, StepOfScenario, PTL DEF Spec, ScenarioSpec

-----------------------------------------------------------------------------
(* The invariant. *)

\* A step of the scenario's thread, or none, changes nothing of the run's own.
LEMMA Quiet ==
  Scenario \/ Over \/ UNCHANGED vars => UNCHANGED <<pc, ownVars>>
BY DEF Scenario, Over, vars

\* The type of the run's own variables.
LEMMA TypeStep == IInv /\ [Next]_vars => OwnTypeOK'
<1> SUFFICES ASSUME IInv, [Next]_vars
             PROVE  OwnTypeOK'
  OBVIOUS
<1> USE DEF OwnTypeOK, IInv, At, TryPc, ExceptPc, FinallyPc, provision, sandbox,
            turn, outcome, ownVars
<1>1. CASE Try
  <2>1. CASE GetDeployer BY <2>1 DEF GetDeployer
  <2>2. CASE Up BY <2>2 DEF Up
  <2>3. CASE Describe BY <2>3 DEF Describe
  <2>4. CASE RunAmbient BY <2>4 DEF RunAmbient
  <2>5. CASE PrepareSandbox BY <2>5 DEF PrepareSandbox, NoOp
  <2>6. CASE Prepare BY <2>6 DEF Prepare
  <2>7. CASE SkipChaos BY <2>7 DEF SkipChaos
  <2>8. CASE start_scenario BY <2>8 DEF start_scenario
  <2>9. CASE \E timedOut \in BOOLEAN : AwaitChaos(timedOut)
    BY <2>9 DEF AwaitChaos
  <2>10. CASE StartMonitor BY <2>10 DEF StartMonitor
  <2>11. CASE LaunchAgent BY <2>11 DEF LaunchAgent
  <2>12. CASE ExecuteAgent BY <2>12 DEF ExecuteAgent
  <2>13. CASE AgentReturns BY <2>13 DEF AgentReturns, StopMonitor
  <2>14. CASE NothingToDrain BY <2>14 DEF NothingToDrain
  <2>15. CASE \E timedOut \in BOOLEAN : Drain(timedOut) BY <2>15 DEF Drain
  <2>16. CASE ReadReports
    <3>1. reports' \in Snapshots
      BY <2>16 DEF ReadReports, get_reports, Snapshots, ScenarioTypeOK, Reports
    <3> QED BY <2>16, <3>1 DEF ReadReports

  <2>17. CASE StampReports
    <3>1. reports' \in Snapshots BY <2>17 DEF StampReports, Snapshots
    <3> QED BY <2>17, <3>1 DEF StampReports

  <2>18. CASE Verify BY <2>18 DEF Verify, VerificationStatus
  <2>19. CASE BuildSuccessRecord
    <3>1. result' \in Records
      BY <2>19 DEF BuildSuccessRecord, Records, StatusIsSet
    <3> QED BY <2>19, <3>1 DEF BuildSuccessRecord

  <2> QED BY <1>1, <2>1, <2>2, <2>3, <2>4, <2>5, <2>6, <2>7, <2>8, <2>9,
             <2>10, <2>11, <2>12, <2>13, <2>14, <2>15, <2>16, <2>17, <2>18,
             <2>19 DEF Try
<1>2. CASE Except
  <2>1. CASE Raise BY <2>1 DEF Raise
  <2>2. CASE UpRaises BY <2>2 DEF UpRaises
  <2>3. CASE PrepareSandboxRaises
    BY <2>3 DEF PrepareSandboxRaises, Removed, NoOp
  <2>4. CASE ExceptStops BY <2>4 DEF ExceptStops, StopMonitor
  <2>5. CASE \E crashed \in BOOLEAN : ExceptVerifies(crashed)
    BY <2>5 DEF ExceptVerifies, StatusAfterFailure, VerificationStatus
  <2>6. CASE BuildFailedRecord
    <3>1. NoReports \in Snapshots BY DEF NoReports, Snapshots
    <3>2. SandboxedOutcome \in {"yes", "no", "unknown"} BY DEF SandboxedOutcome
    <3>3. result' \in Records
      BY <2>6, <3>1, <3>2 DEF BuildFailedRecord, Records, StatusIsSet
    <3> QED BY <2>6, <3>3 DEF BuildFailedRecord

  <2>7. CASE Interrupt BY <2>7 DEF Interrupt
  <2> QED BY <1>2, <2>1, <2>2, <2>3, <2>4, <2>5, <2>6, <2>7 DEF Except
<1>3. CASE Finally
  <2>1. CASE Abort BY <2>1 DEF Abort
  <2>2. CASE \E timedOut \in BOOLEAN : Join(timedOut) BY <2>2 DEF Join
  <2>3. CASE ReleaseMonitor BY <2>3 DEF ReleaseMonitor, StopMonitor
  <2>4. CASE ClusterTakesThem BY <2>4 DEF ClusterTakesThem
  <2>5. CASE RemoveCredentials
    <3>1. result' \in Records \cup {NoRecord}
      BY <2>5 DEF RemoveCredentials, FlagResidue, Records
    <3> QED BY <2>5, <3>1 DEF RemoveCredentials, Removed

  <2>6. CASE Teardown BY <2>6 DEF Teardown
  <2>7. CASE Clean
    <3>1. workspace' \in BOOLEAN /\ creds_dir' \in BOOLEAN
      BY <2>7, Zenon DEF Clean
    <3>2. pc' \in FinallyPc BY <2>7 DEF Clean
    <3>3. UNCHANGED <<task, deployer, infra, infra_up, credentials,
                      completed_spec, entries, monitor, agent_started, ran,
                      reports, verification_status, result>>
      BY <2>7, Zenon DEF Clean
    <3> QED BY <3>1, <3>2, <3>3

  <2> QED BY <1>3, <2>1, <2>2, <2>3, <2>4, <2>5, <2>6, <2>7 DEF Finally
<1>4. CASE Scenario \/ Over \/ UNCHANGED vars
  <2>1. UNCHANGED <<pc, ownVars>> BY <1>4, Quiet
  <2> QED BY <2>1 DEF ownVars, provision, sandbox, turn, outcome
<1> QED BY <1>1, <1>2, <1>3, <1>4 DEF Next, Main

\* Each step of the `try' is reached with what the steps before it made.
LEMMA ProgressStep == IInv /\ [Next]_vars => Progress'
<1> SUFFICES ASSUME IInv, [Next]_vars
             PROVE  Progress'
  OBVIOUS
<1> USE DEF Progress, UntilUp, Unsandboxed, BeforeAgent, AfterAgent, IInv, At,
            TryPc, ExceptPc, FinallyPc, provision, sandbox, turn, outcome,
            ownVars
<1>1. CASE Try
  <2>1. CASE GetDeployer BY <2>1 DEF GetDeployer
  <2>2. CASE Up BY <2>2 DEF Up
  <2>3. CASE Describe BY <2>3 DEF Describe
  <2>4. CASE RunAmbient BY <2>4 DEF RunAmbient
  <2>5. CASE PrepareSandbox BY <2>5 DEF PrepareSandbox
  <2>6. CASE Prepare BY <2>6 DEF Prepare
  <2>7. CASE SkipChaos BY <2>7 DEF SkipChaos
  <2>8. CASE start_scenario BY <2>8 DEF start_scenario
  <2>9. CASE \E timedOut \in BOOLEAN : AwaitChaos(timedOut)
    BY <2>9 DEF AwaitChaos
  <2>10. CASE StartMonitor BY <2>10 DEF StartMonitor
  <2>11. CASE LaunchAgent BY <2>11 DEF LaunchAgent
  <2>12. CASE ExecuteAgent
    <3>1. CASE completed_spec
      <4>1. ran' = "inside" BY <2>12, <3>1 DEF ExecuteAgent
      <4> QED BY <2>12, <3>1, <4>1 DEF ExecuteAgent
    <3>2. CASE ~completed_spec
      <4>1. ran' = "outside" BY <2>12, <3>2 DEF ExecuteAgent
      <4> QED BY <2>12, <3>2, <4>1 DEF ExecuteAgent
    <3> QED BY <3>1, <3>2

  <2>13. CASE AgentReturns BY <2>13 DEF AgentReturns
  <2>14. CASE NothingToDrain BY <2>14 DEF NothingToDrain
  <2>15. CASE \E timedOut \in BOOLEAN : Drain(timedOut) BY <2>15 DEF Drain
  <2>16. CASE ReadReports BY <2>16 DEF ReadReports
  <2>17. CASE StampReports BY <2>17 DEF StampReports
  <2>18. CASE Verify BY <2>18 DEF Verify
  <2>19. CASE BuildSuccessRecord BY <2>19 DEF BuildSuccessRecord
  <2> QED BY <1>1, <2>1, <2>2, <2>3, <2>4, <2>5, <2>6, <2>7, <2>8, <2>9,
             <2>10, <2>11, <2>12, <2>13, <2>14, <2>15, <2>16, <2>17, <2>18,
             <2>19 DEF Try
<1>2. CASE Except
  <2>1. CASE Raise BY <2>1 DEF Raise
  <2>2. CASE UpRaises BY <2>2 DEF UpRaises
  <2>3. CASE PrepareSandboxRaises BY <2>3 DEF PrepareSandboxRaises
  <2>4. CASE ExceptStops BY <2>4 DEF ExceptStops
  <2>5. CASE \E crashed \in BOOLEAN : ExceptVerifies(crashed)
    BY <2>5 DEF ExceptVerifies
  <2>6. CASE BuildFailedRecord BY <2>6 DEF BuildFailedRecord
  <2>7. CASE Interrupt BY <2>7 DEF Interrupt
  <2> QED BY <1>2, <2>1, <2>2, <2>3, <2>4, <2>5, <2>6, <2>7 DEF Except
<1>3. CASE Finally
  <2>1. CASE Abort BY <2>1 DEF Abort
  <2>2. CASE \E timedOut \in BOOLEAN : Join(timedOut) BY <2>2 DEF Join
  <2>3. CASE ReleaseMonitor BY <2>3 DEF ReleaseMonitor
  <2>4. CASE ClusterTakesThem BY <2>4 DEF ClusterTakesThem
  <2>5. CASE RemoveCredentials BY <2>5 DEF RemoveCredentials
  <2>6. CASE Teardown BY <2>6 DEF Teardown, TearsDown
  <2>7. CASE Clean BY <2>7 DEF Clean
  <2> QED BY <1>3, <2>1, <2>2, <2>3, <2>4, <2>5, <2>6, <2>7 DEF Finally
<1>4. CASE Scenario \/ Over \/ UNCHANGED vars
  <2>1. UNCHANGED <<pc, ownVars>> BY <1>4, Quiet
  <2> QED BY <2>1 DEF ownVars, provision, sandbox, turn, outcome
<1> QED BY <1>1, <1>2, <1>3, <1>4 DEF Next, Main

\* Nothing but the end of the `try' and of the `except' builds a record.
LEMMA RecordStep == IInv /\ [Next]_vars => RecordIsLast'
<1> SUFFICES ASSUME IInv, [Next]_vars
             PROVE  RecordIsLast'
  OBVIOUS
<1> USE DEF RecordIsLast, IInv, At, TryPc, ExceptPc, FinallyPc, provision,
            sandbox, turn, outcome, ownVars
<1>1. CASE Try
  <2>1. CASE GetDeployer BY <2>1 DEF GetDeployer
  <2>2. CASE Up BY <2>2 DEF Up
  <2>3. CASE Describe BY <2>3 DEF Describe
  <2>4. CASE RunAmbient BY <2>4 DEF RunAmbient
  <2>5. CASE PrepareSandbox BY <2>5 DEF PrepareSandbox
  <2>6. CASE Prepare BY <2>6 DEF Prepare
  <2>7. CASE SkipChaos BY <2>7 DEF SkipChaos
  <2>8. CASE start_scenario BY <2>8 DEF start_scenario
  <2>9. CASE \E timedOut \in BOOLEAN : AwaitChaos(timedOut)
    BY <2>9 DEF AwaitChaos
  <2>10. CASE StartMonitor BY <2>10 DEF StartMonitor
  <2>11. CASE LaunchAgent BY <2>11 DEF LaunchAgent
  <2>12. CASE ExecuteAgent BY <2>12 DEF ExecuteAgent
  <2>13. CASE AgentReturns BY <2>13 DEF AgentReturns
  <2>14. CASE NothingToDrain BY <2>14 DEF NothingToDrain
  <2>15. CASE \E timedOut \in BOOLEAN : Drain(timedOut) BY <2>15 DEF Drain
  <2>16. CASE ReadReports BY <2>16 DEF ReadReports
  <2>17. CASE StampReports BY <2>17 DEF StampReports
  <2>18. CASE Verify BY <2>18 DEF Verify
  <2>19. CASE BuildSuccessRecord BY <2>19 DEF BuildSuccessRecord
  <2> QED BY <1>1, <2>1, <2>2, <2>3, <2>4, <2>5, <2>6, <2>7, <2>8, <2>9,
             <2>10, <2>11, <2>12, <2>13, <2>14, <2>15, <2>16, <2>17, <2>18,
             <2>19 DEF Try
<1>2. CASE Except
  <2>1. CASE Raise BY <2>1 DEF Raise
  <2>2. CASE UpRaises BY <2>2 DEF UpRaises
  <2>3. CASE PrepareSandboxRaises BY <2>3 DEF PrepareSandboxRaises
  <2>4. CASE ExceptStops BY <2>4 DEF ExceptStops
  <2>5. CASE \E crashed \in BOOLEAN : ExceptVerifies(crashed)
    BY <2>5 DEF ExceptVerifies
  <2>6. CASE BuildFailedRecord BY <2>6 DEF BuildFailedRecord
  <2>7. CASE Interrupt BY <2>7 DEF Interrupt
  <2> QED BY <1>2, <2>1, <2>2, <2>3, <2>4, <2>5, <2>6, <2>7 DEF Except
<1>3. CASE Finally
  <2>1. CASE Abort BY <2>1 DEF Abort
  <2>2. CASE \E timedOut \in BOOLEAN : Join(timedOut) BY <2>2 DEF Join
  <2>3. CASE ReleaseMonitor BY <2>3 DEF ReleaseMonitor
  <2>4. CASE ClusterTakesThem BY <2>4 DEF ClusterTakesThem
  <2>5. CASE RemoveCredentials BY <2>5 DEF RemoveCredentials
  <2>6. CASE Teardown BY <2>6 DEF Teardown
  <2>7. CASE Clean BY <2>7 DEF Clean
  <2> QED BY <1>3, <2>1, <2>2, <2>3, <2>4, <2>5, <2>6, <2>7 DEF Finally
<1>4. CASE Scenario \/ Over \/ UNCHANGED vars
  <2>1. UNCHANGED <<pc, ownVars>> BY <1>4, Quiet
  <2> QED BY <2>1 DEF ownVars, provision, sandbox, turn, outcome
<1> QED BY <1>1, <1>2, <1>3, <1>4 DEF Next, Main

\* The status is set, and truthful, when a record is built from it.
LEMMA StatusStep == IInv /\ [Next]_vars => StatusIsSet'
<1> SUFFICES ASSUME IInv, [Next]_vars
             PROVE  StatusIsSet'
  OBVIOUS
<1> USE DEF StatusIsSet, Progress, UntilUp, Unsandboxed, BeforeAgent,
            AfterAgent, no_infra, IInv, At, TryPc, ExceptPc, FinallyPc,
            provision, sandbox, turn, outcome, ownVars
<1>1. CASE Try
  <2>1. CASE GetDeployer BY <2>1 DEF GetDeployer
  <2>2. CASE Up BY <2>2 DEF Up
  <2>3. CASE Describe BY <2>3 DEF Describe
  <2>4. CASE RunAmbient BY <2>4 DEF RunAmbient
  <2>5. CASE PrepareSandbox BY <2>5 DEF PrepareSandbox
  <2>6. CASE Prepare BY <2>6 DEF Prepare
  <2>7. CASE SkipChaos BY <2>7 DEF SkipChaos
  <2>8. CASE start_scenario BY <2>8 DEF start_scenario
  <2>9. CASE \E timedOut \in BOOLEAN : AwaitChaos(timedOut)
    BY <2>9 DEF AwaitChaos
  <2>10. CASE StartMonitor BY <2>10 DEF StartMonitor
  <2>11. CASE LaunchAgent BY <2>11 DEF LaunchAgent
  <2>12. CASE ExecuteAgent BY <2>12 DEF ExecuteAgent
  <2>13. CASE AgentReturns BY <2>13 DEF AgentReturns, StopMonitor, OwnTypeOK
  <2>14. CASE NothingToDrain BY <2>14 DEF NothingToDrain
  <2>15. CASE \E timedOut \in BOOLEAN : Drain(timedOut) BY <2>15 DEF Drain
  <2>16. CASE ReadReports BY <2>16 DEF ReadReports
  <2>17. CASE StampReports BY <2>17 DEF StampReports
  <2>18. CASE Verify BY <2>18 DEF Verify
  <2>19. CASE BuildSuccessRecord BY <2>19 DEF BuildSuccessRecord
  <2> QED BY <1>1, <2>1, <2>2, <2>3, <2>4, <2>5, <2>6, <2>7, <2>8, <2>9,
             <2>10, <2>11, <2>12, <2>13, <2>14, <2>15, <2>16, <2>17, <2>18,
             <2>19 DEF Try
<1>2. CASE Except
  <2>1. CASE Raise BY <2>1 DEF Raise
  <2>2. CASE UpRaises BY <2>2 DEF UpRaises
  <2>3. CASE PrepareSandboxRaises BY <2>3 DEF PrepareSandboxRaises
  <2>4. CASE ExceptStops BY <2>4 DEF ExceptStops, StopMonitor
  <2>5. CASE \E crashed \in BOOLEAN : ExceptVerifies(crashed)
    BY <2>5 DEF ExceptVerifies, StatusAfterFailure
  <2>6. CASE BuildFailedRecord BY <2>6 DEF BuildFailedRecord
  <2>7. CASE Interrupt BY <2>7 DEF Interrupt
  <2> QED BY <1>2, <2>1, <2>2, <2>3, <2>4, <2>5, <2>6, <2>7 DEF Except
<1>3. CASE Finally
  <2>1. CASE Abort BY <2>1 DEF Abort
  <2>2. CASE \E timedOut \in BOOLEAN : Join(timedOut) BY <2>2 DEF Join
  <2>3. CASE ReleaseMonitor BY <2>3 DEF ReleaseMonitor, StopMonitor
  <2>4. CASE ClusterTakesThem BY <2>4 DEF ClusterTakesThem
  <2>5. CASE RemoveCredentials BY <2>5 DEF RemoveCredentials
  <2>6. CASE Teardown BY <2>6 DEF Teardown
  <2>7. CASE Clean BY <2>7 DEF Clean
  <2> QED BY <1>3, <2>1, <2>2, <2>3, <2>4, <2>5, <2>6, <2>7 DEF Finally
<1>4. CASE Scenario \/ Over \/ UNCHANGED vars
  <2>1. UNCHANGED <<pc, ownVars>> BY <1>4, Quiet
  <2> QED BY <2>1 DEF ownVars, provision, sandbox, turn, outcome
<1> QED BY <1>1, <1>2, <1>3, <1>4 DEF Next, Main

\* A record takes its status from StatusIsSet; later steps leave both alone.
LEMMA VerdictStep == IInv /\ [Next]_vars => VerificationStatusIsTruthful'
<1> SUFFICES ASSUME IInv, [Next]_vars
             PROVE  VerificationStatusIsTruthful'
  OBVIOUS
<1> USE DEF VerificationStatusIsTruthful, StatusIsSet, RecordIsLast, Progress,
            UntilUp, Unsandboxed, BeforeAgent, AfterAgent, no_infra, IInv, At,
            TryPc, ExceptPc, FinallyPc, provision, sandbox, turn, outcome,
            ownVars
<1>1. CASE Try
  <2>1. CASE GetDeployer BY <2>1 DEF GetDeployer
  <2>2. CASE Up BY <2>2 DEF Up
  <2>3. CASE Describe BY <2>3 DEF Describe
  <2>4. CASE RunAmbient BY <2>4 DEF RunAmbient
  <2>5. CASE PrepareSandbox BY <2>5 DEF PrepareSandbox
  <2>6. CASE Prepare BY <2>6 DEF Prepare
  <2>7. CASE SkipChaos BY <2>7 DEF SkipChaos
  <2>8. CASE start_scenario BY <2>8 DEF start_scenario
  <2>9. CASE \E timedOut \in BOOLEAN : AwaitChaos(timedOut)
    BY <2>9 DEF AwaitChaos
  <2>10. CASE StartMonitor BY <2>10 DEF StartMonitor
  <2>11. CASE LaunchAgent BY <2>11 DEF LaunchAgent
  <2>12. CASE ExecuteAgent BY <2>12 DEF ExecuteAgent
  <2>13. CASE AgentReturns BY <2>13 DEF AgentReturns
  <2>14. CASE NothingToDrain BY <2>14 DEF NothingToDrain
  <2>15. CASE \E timedOut \in BOOLEAN : Drain(timedOut) BY <2>15 DEF Drain
  <2>16. CASE ReadReports BY <2>16 DEF ReadReports
  <2>17. CASE StampReports BY <2>17 DEF StampReports
  <2>18. CASE Verify BY <2>18 DEF Verify
  <2>19. CASE BuildSuccessRecord BY <2>19 DEF BuildSuccessRecord, NoRecord
  <2> QED BY <1>1, <2>1, <2>2, <2>3, <2>4, <2>5, <2>6, <2>7, <2>8, <2>9,
             <2>10, <2>11, <2>12, <2>13, <2>14, <2>15, <2>16, <2>17, <2>18,
             <2>19 DEF Try
<1>2. CASE Except
  <2>1. CASE Raise BY <2>1 DEF Raise
  <2>2. CASE UpRaises BY <2>2 DEF UpRaises
  <2>3. CASE PrepareSandboxRaises BY <2>3 DEF PrepareSandboxRaises
  <2>4. CASE ExceptStops BY <2>4 DEF ExceptStops
  <2>5. CASE \E crashed \in BOOLEAN : ExceptVerifies(crashed)
    BY <2>5 DEF ExceptVerifies
  <2>6. CASE BuildFailedRecord BY <2>6 DEF BuildFailedRecord, NoRecord
  <2>7. CASE Interrupt BY <2>7 DEF Interrupt
  <2> QED BY <1>2, <2>1, <2>2, <2>3, <2>4, <2>5, <2>6, <2>7 DEF Except
<1>3. CASE Finally
  <2>1. CASE Abort BY <2>1 DEF Abort
  <2>2. CASE \E timedOut \in BOOLEAN : Join(timedOut) BY <2>2 DEF Join
  <2>3. CASE ReleaseMonitor BY <2>3 DEF ReleaseMonitor, StopMonitor
  <2>4. CASE ClusterTakesThem BY <2>4 DEF ClusterTakesThem
  <2>5. CASE RemoveCredentials
    BY <2>5 DEF RemoveCredentials, FlagResidue, OwnTypeOK, Records, NoRecord
  <2>6. CASE Teardown BY <2>6 DEF Teardown
  <2>7. CASE Clean BY <2>7 DEF Clean
  <2> QED BY <1>3, <2>1, <2>2, <2>3, <2>4, <2>5, <2>6, <2>7 DEF Finally
<1>4. CASE Scenario \/ Over \/ UNCHANGED vars
  <2>1. UNCHANGED <<pc, ownVars>> BY <1>4, Quiet
  <2> QED BY <2>1 DEF ownVars, provision, sandbox, turn, outcome
<1> QED BY <1>1, <1>2, <1>3, <1>4 DEF Next, Main

\* Where the agent ran is decided when the record is built.
LEMMA SandboxedStep == IInv /\ [Next]_vars => SandboxedIsTruthful'
<1> SUFFICES ASSUME IInv, [Next]_vars
             PROVE  SandboxedIsTruthful'
  OBVIOUS
<1> USE DEF SandboxedIsTruthful, RecordIsLast, Progress, UntilUp, Unsandboxed,
            BeforeAgent, AfterAgent, IInv, At, TryPc, ExceptPc, FinallyPc,
            provision, sandbox, turn, outcome, ownVars
<1>1. CASE Try
  <2>1. CASE GetDeployer BY <2>1 DEF GetDeployer
  <2>2. CASE Up BY <2>2 DEF Up
  <2>3. CASE Describe BY <2>3 DEF Describe
  <2>4. CASE RunAmbient BY <2>4 DEF RunAmbient
  <2>5. CASE PrepareSandbox BY <2>5 DEF PrepareSandbox
  <2>6. CASE Prepare BY <2>6 DEF Prepare
  <2>7. CASE SkipChaos BY <2>7 DEF SkipChaos
  <2>8. CASE start_scenario BY <2>8 DEF start_scenario
  <2>9. CASE \E timedOut \in BOOLEAN : AwaitChaos(timedOut)
    BY <2>9 DEF AwaitChaos
  <2>10. CASE StartMonitor BY <2>10 DEF StartMonitor
  <2>11. CASE LaunchAgent BY <2>11 DEF LaunchAgent
  <2>12. CASE ExecuteAgent BY <2>12 DEF ExecuteAgent
  <2>13. CASE AgentReturns BY <2>13 DEF AgentReturns
  <2>14. CASE NothingToDrain BY <2>14 DEF NothingToDrain
  <2>15. CASE \E timedOut \in BOOLEAN : Drain(timedOut) BY <2>15 DEF Drain
  <2>16. CASE ReadReports BY <2>16 DEF ReadReports
  <2>17. CASE StampReports BY <2>17 DEF StampReports
  <2>18. CASE Verify BY <2>18 DEF Verify
  <2>19. CASE BuildSuccessRecord
    BY <2>19 DEF BuildSuccessRecord, NoRecord, OwnTypeOK
  <2> QED BY <1>1, <2>1, <2>2, <2>3, <2>4, <2>5, <2>6, <2>7, <2>8, <2>9,
             <2>10, <2>11, <2>12, <2>13, <2>14, <2>15, <2>16, <2>17, <2>18,
             <2>19 DEF Try
<1>2. CASE Except
  <2>1. CASE Raise BY <2>1 DEF Raise
  <2>2. CASE UpRaises BY <2>2 DEF UpRaises
  <2>3. CASE PrepareSandboxRaises BY <2>3 DEF PrepareSandboxRaises
  <2>4. CASE ExceptStops BY <2>4 DEF ExceptStops
  <2>5. CASE \E crashed \in BOOLEAN : ExceptVerifies(crashed)
    BY <2>5 DEF ExceptVerifies
  <2>6. CASE BuildFailedRecord
    BY <2>6 DEF BuildFailedRecord, NoRecord, SandboxedOutcome, OwnTypeOK
  <2>7. CASE Interrupt BY <2>7 DEF Interrupt
  <2> QED BY <1>2, <2>1, <2>2, <2>3, <2>4, <2>5, <2>6, <2>7 DEF Except
<1>3. CASE Finally
  <2>1. CASE Abort BY <2>1 DEF Abort
  <2>2. CASE \E timedOut \in BOOLEAN : Join(timedOut) BY <2>2 DEF Join
  <2>3. CASE ReleaseMonitor BY <2>3 DEF ReleaseMonitor
  <2>4. CASE ClusterTakesThem BY <2>4 DEF ClusterTakesThem
  <2>5. CASE RemoveCredentials
    BY <2>5 DEF RemoveCredentials, FlagResidue, OwnTypeOK, Records, NoRecord
  <2>6. CASE Teardown BY <2>6 DEF Teardown
  <2>7. CASE Clean BY <2>7 DEF Clean
  <2> QED BY <1>3, <2>1, <2>2, <2>3, <2>4, <2>5, <2>6, <2>7 DEF Finally
<1>4. CASE Scenario \/ Over \/ UNCHANGED vars
  <2>1. UNCHANGED <<pc, ownVars>> BY <1>4, Quiet
  <2> QED BY <2>1 DEF ownVars, provision, sandbox, turn, outcome
<1> QED BY <1>1, <1>2, <1>3, <1>4 DEF Next, Main

\* The flag is set by the attempt to remove the objects, and the objects stay as
\* they are on a cluster that survives.
LEMMA FlagStep == IInv /\ [Next]_vars => FlagIsTrue'
<1> SUFFICES ASSUME IInv, [Next]_vars
             PROVE  FlagIsTrue'
  OBVIOUS
<1> USE DEF FlagIsTrue, RecordIsLast, ClusterSurvives, NoOp, Keep, IInv, At,
            TryPc, ExceptPc, FinallyPc, provision, sandbox, turn, outcome,
            ownVars
<1>1. CASE Try
  <2>1. CASE GetDeployer BY <2>1 DEF GetDeployer
  <2>2. CASE Up BY <2>2 DEF Up
  <2>3. CASE Describe BY <2>3 DEF Describe
  <2>4. CASE RunAmbient BY <2>4 DEF RunAmbient
  <2>5. CASE PrepareSandbox BY <2>5 DEF PrepareSandbox
  <2>6. CASE Prepare BY <2>6 DEF Prepare
  <2>7. CASE SkipChaos BY <2>7 DEF SkipChaos
  <2>8. CASE start_scenario BY <2>8 DEF start_scenario
  <2>9. CASE \E timedOut \in BOOLEAN : AwaitChaos(timedOut)
    BY <2>9 DEF AwaitChaos
  <2>10. CASE StartMonitor BY <2>10 DEF StartMonitor
  <2>11. CASE LaunchAgent BY <2>11 DEF LaunchAgent
  <2>12. CASE ExecuteAgent BY <2>12 DEF ExecuteAgent
  <2>13. CASE AgentReturns BY <2>13 DEF AgentReturns
  <2>14. CASE NothingToDrain BY <2>14 DEF NothingToDrain
  <2>15. CASE \E timedOut \in BOOLEAN : Drain(timedOut) BY <2>15 DEF Drain
  <2>16. CASE ReadReports BY <2>16 DEF ReadReports
  <2>17. CASE StampReports BY <2>17 DEF StampReports
  <2>18. CASE Verify BY <2>18 DEF Verify
  <2>19. CASE BuildSuccessRecord BY <2>19 DEF BuildSuccessRecord, NoRecord
  <2> QED BY <1>1, <2>1, <2>2, <2>3, <2>4, <2>5, <2>6, <2>7, <2>8, <2>9,
             <2>10, <2>11, <2>12, <2>13, <2>14, <2>15, <2>16, <2>17, <2>18,
             <2>19 DEF Try
<1>2. CASE Except
  <2>1. CASE Raise BY <2>1 DEF Raise
  <2>2. CASE UpRaises BY <2>2 DEF UpRaises
  <2>3. CASE PrepareSandboxRaises BY <2>3 DEF PrepareSandboxRaises
  <2>4. CASE ExceptStops BY <2>4 DEF ExceptStops
  <2>5. CASE \E crashed \in BOOLEAN : ExceptVerifies(crashed)
    BY <2>5 DEF ExceptVerifies
  <2>6. CASE BuildFailedRecord BY <2>6 DEF BuildFailedRecord, NoRecord
  <2>7. CASE Interrupt BY <2>7 DEF Interrupt
  <2> QED BY <1>2, <2>1, <2>2, <2>3, <2>4, <2>5, <2>6, <2>7 DEF Except
<1>3. CASE Finally
  <2>1. CASE Abort BY <2>1 DEF Abort
  <2>2. CASE \E timedOut \in BOOLEAN : Join(timedOut) BY <2>2 DEF Join
  <2>3. CASE ReleaseMonitor BY <2>3 DEF ReleaseMonitor
  <2>4. CASE ClusterTakesThem BY <2>4 DEF ClusterTakesThem
  <2>5. CASE RemoveCredentials
    BY <2>5 DEF RemoveCredentials, FlagResidue, OwnTypeOK, Records, NoRecord, Removed
  <2>6. CASE Teardown BY <2>6 DEF Teardown, TearsDown
  <2>7. CASE Clean BY <2>7 DEF Clean
  <2> QED BY <1>3, <2>1, <2>2, <2>3, <2>4, <2>5, <2>6, <2>7 DEF Finally
<1>4. CASE Scenario \/ Over \/ UNCHANGED vars
  <2>1. UNCHANGED <<pc, ownVars>> BY <1>4, Quiet
  <2> QED BY <2>1 DEF ownVars, provision, sandbox, turn, outcome
<1> QED BY <1>1, <1>2, <1>3, <1>4 DEF Next, Main

\* What the `finally' has passed is given back, or kept on purpose.
LEMMA ReleasedStep == IInv /\ [Next]_vars => NearlyReleased'
<1> SUFFICES ASSUME IInv, [Next]_vars
             PROVE  NearlyReleased'
  OBVIOUS
<1> USE DEF NearlyReleased, Progress, ClusterSurvives, NoOp, Keep, IInv, At,
            TryPc, ExceptPc, FinallyPc, provision, sandbox, turn, outcome,
            ownVars
<1>1. CASE Try
  <2>1. CASE GetDeployer BY <2>1 DEF GetDeployer
  <2>2. CASE Up BY <2>2 DEF Up
  <2>3. CASE Describe BY <2>3 DEF Describe
  <2>4. CASE RunAmbient BY <2>4 DEF RunAmbient
  <2>5. CASE PrepareSandbox BY <2>5 DEF PrepareSandbox
  <2>6. CASE Prepare BY <2>6 DEF Prepare
  <2>7. CASE SkipChaos BY <2>7 DEF SkipChaos
  <2>8. CASE start_scenario BY <2>8 DEF start_scenario
  <2>9. CASE \E timedOut \in BOOLEAN : AwaitChaos(timedOut)
    BY <2>9 DEF AwaitChaos
  <2>10. CASE StartMonitor BY <2>10 DEF StartMonitor
  <2>11. CASE LaunchAgent BY <2>11 DEF LaunchAgent
  <2>12. CASE ExecuteAgent BY <2>12 DEF ExecuteAgent
  <2>13. CASE AgentReturns BY <2>13 DEF AgentReturns
  <2>14. CASE NothingToDrain BY <2>14 DEF NothingToDrain
  <2>15. CASE \E timedOut \in BOOLEAN : Drain(timedOut) BY <2>15 DEF Drain
  <2>16. CASE ReadReports BY <2>16 DEF ReadReports
  <2>17. CASE StampReports BY <2>17 DEF StampReports
  <2>18. CASE Verify BY <2>18 DEF Verify
  <2>19. CASE BuildSuccessRecord BY <2>19 DEF BuildSuccessRecord
  <2> QED BY <1>1, <2>1, <2>2, <2>3, <2>4, <2>5, <2>6, <2>7, <2>8, <2>9,
             <2>10, <2>11, <2>12, <2>13, <2>14, <2>15, <2>16, <2>17, <2>18,
             <2>19 DEF Try
<1>2. CASE Except
  <2>1. CASE Raise BY <2>1 DEF Raise
  <2>2. CASE UpRaises BY <2>2 DEF UpRaises
  <2>3. CASE PrepareSandboxRaises BY <2>3 DEF PrepareSandboxRaises
  <2>4. CASE ExceptStops BY <2>4 DEF ExceptStops
  <2>5. CASE \E crashed \in BOOLEAN : ExceptVerifies(crashed)
    BY <2>5 DEF ExceptVerifies
  <2>6. CASE BuildFailedRecord BY <2>6 DEF BuildFailedRecord
  <2>7. CASE Interrupt BY <2>7 DEF Interrupt
  <2> QED BY <1>2, <2>1, <2>2, <2>3, <2>4, <2>5, <2>6, <2>7 DEF Except
<1>3. CASE Finally
  <2>1. CASE Abort BY <2>1 DEF Abort
  <2>2. CASE \E timedOut \in BOOLEAN : Join(timedOut) BY <2>2 DEF Join
  <2>3. CASE ReleaseMonitor BY <2>3 DEF ReleaseMonitor
  <2>4. CASE ClusterTakesThem BY <2>4 DEF ClusterTakesThem
  <2>5. CASE RemoveCredentials BY <2>5 DEF RemoveCredentials, Removed
  <2>6. CASE Teardown BY <2>6 DEF Teardown, TearsDown
  <2>7. CASE Clean BY <2>7 DEF Clean
  <2> QED BY <1>3, <2>1, <2>2, <2>3, <2>4, <2>5, <2>6, <2>7 DEF Finally
<1>4. CASE Scenario \/ Over \/ UNCHANGED vars
  <2>1. UNCHANGED <<pc, ownVars>> BY <1>4, Quiet
  <2> QED BY <2>1 DEF ownVars, provision, sandbox, turn, outcome
<1> QED BY <1>1, <1>2, <1>3, <1>4 DEF Next, Main


\* IInv holds initially and is kept by every step.
THEOREM RunInvariance == Spec => []IInv
<1>1. Init => IInv
  <2> SUFFICES ASSUME Init PROVE IInv
    OBVIOUS
  <2> USE DEF Init
  <2>1. ScenarioTypeOK
    <3>1. calls \in 0..MaxCalls BY ScenarioAssumption DEF ScenarioInit
    <3>2. chaos_report \in Reports BY DEF ScenarioInit, Reports, NoReport
    <3> QED BY <3>1, <3>2 DEF ScenarioInit, ScenarioTypeOK, ScenarioPc
  <2>2. OwnTypeOK
    BY DEF OwnTypeOK, TryPc, NoReports, Snapshots, VerificationStatus
  <2>3. Progress /\ RecordIsLast /\ StatusIsSet /\ NearlyReleased
    BY DEF Progress, UntilUp, Unsandboxed, BeforeAgent, AfterAgent, TryPc,
           RecordIsLast, StatusIsSet, NearlyReleased
  <2>4. VerificationStatusIsTruthful /\ SandboxedIsTruthful /\ FlagIsTrue
    BY DEF VerificationStatusIsTruthful, SandboxedIsTruthful, FlagIsTrue
  <2> QED BY <2>1, <2>2, <2>3, <2>4 DEF IInv
<1>2. IInv /\ [Next]_vars => IInv'
  <2> SUFFICES ASSUME IInv, [Next]_vars PROVE IInv'
    OBVIOUS
  <2>1. ScenarioTypeOK' BY StepOfScenario, ScenarioTypeStep DEF IInv
  <2> QED BY <2>1, TypeStep, ProgressStep, RecordStep, StatusStep, VerdictStep,
             SandboxedStep, FlagStep, ReleasedStep DEF IInv
<1> QED BY <1>1, <1>2, PTL DEF Spec

\* The variables keep their types.
THEOREM RunTypeCorrect == Spec => []TypeOK
<1>1. IInv => TypeOK BY DEF IInv, OwnTypeOK, TypeOK
<1> QED BY <1>1, RunInvariance, PTL

\* Wherever a run fails, its record's verification status is true of its cluster.
THEOREM StatusIsTrue == Spec => []VerificationStatusIsTruthful
<1>1. IInv => VerificationStatusIsTruthful BY DEF IInv
<1> QED BY <1>1, RunInvariance, PTL

\* Wherever a run fails, its record says of an agent that acted where it did, and
\* claims the boundary for no run that had not come to its agent.
THEOREM BoundaryIsTrue == Spec => []SandboxedIsTruthful
<1>1. IInv => SandboxedIsTruthful BY DEF IInv
<1> QED BY <1>1, RunInvariance, PTL

\* Residue of a completed sandbox on a cluster that goes on is on the record, and
\* no record speaks of residue without a cluster.
THEOREM ResidueIsFlagged == Spec => []ResidueIsSurfaced
<1>1. IInv => ResidueIsSurfaced BY DEF IInv, FlagIsTrue, ResidueIsSurfaced
<1> QED BY <1>1, RunInvariance, PTL

-----------------------------------------------------------------------------
(* The refinement. *)

\* Steps that change nothing the lifecycle sees, and do not settle the run.
LEMMA HeldStays ==
  UNCHANGED <<infra, credentials, completed_spec, workspace, creds_dir>>
    => Held' = Held
BY DEF Held

\* A step of the `try' acquires, lets the agent act, settles a success, or is not
\* seen from outside.
LEMMA TryImplements ==
  IInv /\ Try => [Lifecycle!Next]_(Lifecycle!lifecycleVars)
<1> SUFFICES ASSUME IInv, Try
             PROVE  [Lifecycle!Next]_(Lifecycle!lifecycleVars)
  OBVIOUS
<1> USE DEF IInv, At, provision, sandbox, turn, outcome, ownVars
<1> DEFINE Unseen == /\ UNCHANGED <<task, infra, credentials, completed_spec,
                                    workspace, creds_dir, ran, result>>
                     /\ pc \notin FinallyPc /\ pc' \notin FinallyPc
<1>1. Unseen => UNCHANGED Lifecycle!lifecycleVars
  BY HeldStays DEF Lifecycle!lifecycleVars, Phase, Outcome, Keep, FinallyPc
<1>2. ASSUME UNCHANGED <<task, ran>>, ran = "no", Held \subseteq Held',
             pc \notin FinallyPc, pc' \notin FinallyPc
      PROVE  Lifecycle!Acquire
  BY <1>2 DEF Lifecycle!Acquire, Phase, Outcome, Held, Resource, Keep, FinallyPc
<1>3. CASE Up
  <2>1. infra = "none" /\ ran = "no"
    BY <1>3 DEF Up, Progress, UntilUp, BeforeAgent, Unsandboxed
  <2>2. Held \subseteq Held' BY <1>3, <2>1 DEF Up, Held
  <2> QED BY <1>2, <1>3, <2>1, <2>2 DEF Up, FinallyPc, Lifecycle!Next
<1>4. CASE Describe
  <2>1. ran = "no" BY <1>4 DEF Describe, Progress, BeforeAgent, Unsandboxed
  <2>2. Held \subseteq Held' BY <1>4 DEF Describe, Held
  <2> QED BY <1>2, <1>4, <2>1, <2>2 DEF Describe, FinallyPc, Lifecycle!Next
<1>5. CASE PrepareSandbox
  <2>1. ran = "no" /\ ~completed_spec
    BY <1>5 DEF PrepareSandbox, Progress, BeforeAgent, Unsandboxed
  <2>2. Held \subseteq Held' BY <1>5, <2>1 DEF PrepareSandbox, Held
  <2> QED BY <1>2, <1>5, <2>1, <2>2 DEF PrepareSandbox, FinallyPc, Lifecycle!Next
<1>6. CASE ExecuteAgent
  <2>1. ran = "no" BY <1>6 DEF ExecuteAgent, Progress, BeforeAgent
  <2>2. ran' # "no" BY <1>6 DEF ExecuteAgent
  <2>3. Held' = Held BY <1>6, HeldStays DEF ExecuteAgent
  <2>4. Lifecycle!Act
    BY <1>6, <2>1, <2>2, <2>3
       DEF ExecuteAgent, Lifecycle!Act, Phase, Outcome, Keep, FinallyPc
  <2> QED BY <2>4 DEF Lifecycle!Next
<1>7. CASE BuildSuccessRecord
  <2>1. ran # "no"
    BY <1>7 DEF BuildSuccessRecord, Progress, AfterAgent, BeforeAgent,
                Unsandboxed, TryPc
  <2>2. Held' = Held BY <1>7, HeldStays DEF BuildSuccessRecord
  <2>3. result'.status = "success" /\ result' # NoRecord
    BY <1>7 DEF BuildSuccessRecord, NoRecord
  <2>4. Phase = "acting" /\ Phase' = "settled" /\ Outcome' = "success"
    BY <1>7, <2>1, <2>3 DEF BuildSuccessRecord, Phase, Outcome, FinallyPc
  <2>5. Lifecycle!Settle
    BY <1>7, <2>2, <2>4
       DEF BuildSuccessRecord, Lifecycle!Settle, Keep, Held, Resource
  <2> QED BY <2>5 DEF Lifecycle!Next
<1>8. CASE GetDeployer \/ RunAmbient \/ Prepare \/ SkipChaos \/ start_scenario
  BY <1>1, <1>8 DEF GetDeployer, RunAmbient, Prepare, SkipChaos,
                    start_scenario, FinallyPc
<1>9. CASE \/ \E timedOut \in BOOLEAN : AwaitChaos(timedOut)
           \/ StartMonitor \/ LaunchAgent \/ AgentReturns
  BY <1>1, <1>9 DEF AwaitChaos, StartMonitor, LaunchAgent, AgentReturns, FinallyPc
<1>10. CASE \/ NothingToDrain
            \/ \E timedOut \in BOOLEAN : Drain(timedOut)
            \/ ReadReports \/ StampReports \/ Verify
  BY <1>1, <1>10 DEF NothingToDrain, Drain, ReadReports, StampReports, Verify,
                     FinallyPc
<1> QED BY <1>3, <1>4, <1>5, <1>6, <1>7, <1>8, <1>9, <1>10 DEF Try

\* A failure may leave more held than before; its record, or an interrupt,
\* settles the run.
LEMMA ExceptImplements ==
  IInv /\ Except => [Lifecycle!Next]_(Lifecycle!lifecycleVars)
<1> SUFFICES ASSUME IInv, Except
             PROVE  [Lifecycle!Next]_(Lifecycle!lifecycleVars)
  OBVIOUS
<1> USE DEF IInv, At, provision, sandbox, turn, outcome, ownVars
<1>1. CASE Raise \/ ExceptStops \/ \E crashed \in BOOLEAN : ExceptVerifies(crashed)
  <2>1. /\ UNCHANGED <<task, ran, infra, credentials, completed_spec, workspace,
                       creds_dir>>
        /\ pc \notin FinallyPc /\ pc' \notin FinallyPc
    BY <1>1 DEF Raise, ExceptStops, ExceptVerifies, FinallyPc
  <2> QED BY <2>1, HeldStays DEF Lifecycle!lifecycleVars, Phase, Outcome, Keep,
                                 FinallyPc
<1>2. CASE UpRaises \/ PrepareSandboxRaises
  <2>1. ran = "no" /\ Held \subseteq Held'
    BY <1>2 DEF UpRaises, PrepareSandboxRaises, Progress, UntilUp, Unsandboxed,
                BeforeAgent, Held
  <2>2. Lifecycle!Acquire
    BY <1>2, <2>1 DEF UpRaises, PrepareSandboxRaises, Lifecycle!Acquire, Phase,
                      Outcome, Held, Resource, Keep, FinallyPc
  <2> QED BY <2>2 DEF Lifecycle!Next
<1>3. CASE BuildFailedRecord
  <2>1. Held' = Held BY <1>3, HeldStays DEF BuildFailedRecord
  <2>2. result'.status = "failed" /\ result' # NoRecord
    BY <1>3 DEF BuildFailedRecord, NoRecord
  <2>3. /\ Phase \in {"preparing", "acting"} /\ Phase' = "settled"
        /\ Outcome' = "failed"
    BY <1>3, <2>2 DEF BuildFailedRecord, Phase, Outcome, FinallyPc
  <2>4. Lifecycle!Settle
    BY <1>3, <2>1, <2>3 DEF BuildFailedRecord, Lifecycle!Settle, Keep, Held, Resource
  <2> QED BY <2>4 DEF Lifecycle!Next
<1>4. CASE Interrupt
  <2>1. result' = NoRecord BY <1>4 DEF Interrupt, RecordIsLast
  <2>2. pc \notin FinallyPc /\ pc' = "abort"
    BY <1>4 DEF Interrupt, TryPc, ExceptPc, FinallyPc
  <2>3. /\ Phase \in {"preparing", "acting"} /\ Phase' = "settled"
        /\ Outcome' = "interrupted"
    BY <2>1, <2>2 DEF Phase, Outcome, FinallyPc
  <2>4. pc \in {"up", "sandbox"} => ran = "no"
    BY DEF Progress, BeforeAgent, Unsandboxed
  <2>5. pc = "up" => infra = "none" BY DEF Progress, UntilUp
  <2>6. pc = "sandbox" => ~completed_spec BY DEF Progress, Unsandboxed
  <2>8. pc \notin {"up", "sandbox"} => Held' = Held
    BY <1>4, HeldStays DEF Interrupt
  <2>7. Held \subseteq Held'
    <3>1. CASE pc = "up"
      <4>1. UNCHANGED <<credentials, completed_spec, workspace, creds_dir>>
        BY <1>4, <3>1 DEF Interrupt
      <4> QED BY <4>1, <3>1, <2>5 DEF Held
    <3>2. CASE pc = "sandbox"
      <4>1. UNCHANGED <<infra, completed_spec, workspace>> /\ ~completed_spec
        BY <1>4, <3>2, <2>6 DEF Interrupt
      <4>2. ~creds_dir BY <3>2 DEF Progress, Unsandboxed
      <4> QED BY <4>1, <4>2 DEF Held
    <3> QED BY <2>8, <3>1, <3>2
  <2>9. Phase = "acting" => Held' = Held BY <2>4, <2>8, <2>2 DEF Phase
  <2>10. Lifecycle!Settle
    BY <1>4, <2>3, <2>7, <2>9 DEF Interrupt, Lifecycle!Settle, Keep, Held, Resource
  <2> QED BY <2>10 DEF Lifecycle!Next
<1> QED BY <1>1, <1>2, <1>3, <1>4 DEF Except

\* The `finally' gives back what is not kept, and ends with nothing else.
LEMMA FinallyImplements ==
  IInv /\ Finally => [Lifecycle!Next]_(Lifecycle!lifecycleVars)
<1> SUFFICES ASSUME IInv, Finally
             PROVE  [Lifecycle!Next]_(Lifecycle!lifecycleVars)
  OBVIOUS
<1> USE DEF IInv, At, provision, sandbox, turn, outcome, ownVars
<1>1. CASE \/ Abort
           \/ \E timedOut \in BOOLEAN : Join(timedOut)
           \/ ReleaseMonitor \/ ClusterTakesThem
  <2>1. /\ UNCHANGED <<task, infra, credentials, completed_spec, workspace,
                       creds_dir, result>>
        /\ pc \in FinallyPc \ {"over"} /\ pc' \in FinallyPc \ {"over"}
    BY <1>1 DEF Abort, Join, ReleaseMonitor, ClusterTakesThem, FinallyPc
  <2> QED BY <2>1, HeldStays DEF Lifecycle!lifecycleVars, Phase, Outcome, Keep
<1>2. CASE RemoveCredentials
  <2>1. Held' \subseteq Held /\ Held \cap {"infra"} \subseteq Held'
    BY <1>2 DEF RemoveCredentials, Removed, Held
  <2>2. /\ result = NoRecord => result' = NoRecord
        /\ result # NoRecord => result' # NoRecord /\ result'.status = result.status
    BY <1>2 DEF RemoveCredentials, FlagResidue, OwnTypeOK, Records, NoRecord
  <2>3. Phase = "settled" /\ Phase' = Phase /\ Outcome' = Outcome
    BY <1>2, <2>2 DEF RemoveCredentials, Phase, Outcome, FinallyPc
  <2>4. Lifecycle!Release
    BY <1>2, <2>1, <2>3 DEF RemoveCredentials, Lifecycle!Release, Keep
  <2> QED BY <2>4 DEF Lifecycle!Next
<1>3. CASE Teardown
  <2>1. Held' \subseteq Held /\ (Keep => Held' = Held)
    BY <1>3, HeldStays DEF Teardown, TearsDown, Held
  <2>2. Phase = "settled" /\ Phase' = Phase /\ Outcome' = Outcome
    BY <1>3 DEF Teardown, Phase, Outcome, FinallyPc
  <2>3. Lifecycle!Release
    BY <1>3, <2>1, <2>2 DEF Teardown, Lifecycle!Release, Keep
  <2> QED BY <2>3 DEF Lifecycle!Next
<1>4. CASE Clean
  <2>1. Held' = Held \cap (IF Keep THEN {"infra"} ELSE {})
    BY <1>4 DEF Clean, Held, Resource, NearlyReleased, ClusterSurvives
  <2>2. Phase = "settled" /\ Phase' = "over" /\ Outcome' = Outcome
    BY <1>4 DEF Clean, Phase, Outcome, FinallyPc
  <2>3. Lifecycle!Finish
    BY <1>4, <2>1, <2>2 DEF Clean, Lifecycle!Finish, Keep
  <2> QED BY <2>3 DEF Lifecycle!Next
<1> QED BY <1>1, <1>2, <1>3, <1>4 DEF Finally

\* A task run acquires, acts, settles one outcome and then gives back all but what
\* is kept, whatever fails on the way.
THEOREM RunImplementsLifecycle == Spec => ImplementsLifecycle
<1>1. Init => Lifecycle!Init
  BY DEF Init, Lifecycle!Init, Phase, Held, Resource, Outcome, FinallyPc
<1>2. IInv /\ [Next]_vars => [Lifecycle!Next]_(Lifecycle!lifecycleVars)
  <2> SUFFICES ASSUME IInv, [Next]_vars
               PROVE  [Lifecycle!Next]_(Lifecycle!lifecycleVars)
    OBVIOUS
  <2>1. CASE Scenario \/ Over \/ UNCHANGED vars
    <3>1. UNCHANGED <<pc, task, infra, credentials, completed_spec, workspace,
                      creds_dir, ran, result>>
      BY <2>1, Quiet DEF ownVars, provision, sandbox, turn, outcome
    <3> QED BY <3>1, HeldStays DEF Lifecycle!lifecycleVars, Phase, Outcome, Keep
  <2> QED BY <2>1, TryImplements, ExceptImplements, FinallyImplements
          DEF Next, Main
<1> QED BY <1>1, <1>2, RunInvariance, PTL DEF Spec, ImplementsLifecycle, Lifecycle!Spec
=============================================================================

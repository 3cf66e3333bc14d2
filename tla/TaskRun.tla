------------------------------- MODULE TaskRun -------------------------------
(***************************************************************************)
(* devops_bench/evalharness/default.py, _run_one: the harness's main       *)
(* thread takes one task from provisioning to its record, with the chaos   *)
(* scenario's thread (ChaosScenario) beside it.  Every step of the `try'   *)
(* may raise, or be interrupted; the `except' builds a failed record, the  *)
(* `finally' gives everything back.                                        *)
(*                                                                         *)
(* The safeguard monitor is a phase here (SafeguardMonitor has the rest):  *)
(* its start() and stop() always return.  `ran' records where the agent    *)
(* really ran; the code does not keep it.                                  *)
(***************************************************************************)
EXTENDS ChaosScenario

CONSTANTS
  Clusters,            \* what the task's cluster is
  Boundaries           \* how the agent is to run

ASSUME TaskRunAssumption ==
  /\ Clusters \subseteq {"no_infra", "noop", "kept", "destroyed"}
  /\ Boundaries \subseteq {"ambient", "sandboxed", "exempt"}

VARIABLES
  task,                \* [cluster, boundary, chaos, entries], fixed for a run
  pc,
  deployer,            \* get_deployer returned
  infra,               \* what up() and down() made of the infrastructure
  infra_up,
  workspace, creds_dir,\* the two temporary directories
  credentials,         \* the agent's objects on the cluster
  completed_spec,
  entries,             \* the verification entries are parsed, and not empty
  monitor,
  agent_started,
  ran,
  reports,             \* what get_reports returned
  verification_status,
  result

provision == <<deployer, infra, infra_up, workspace, creds_dir>>
sandbox   == <<credentials, completed_spec>>
turn      == <<entries, monitor, agent_started, ran>>
outcome   == <<reports, verification_status, result>>
ownVars == <<task, provision, sandbox, turn, outcome>>
vars == <<scenarioVars, pc, ownVars>>

no_infra == task.cluster = "no_infra"
NoOp == task.cluster \in {"no_infra", "noop"}

\* no_teardown, or a task that declares teardown: false
Keep == task.cluster = "kept"

TryPc == {"deployer", "up", "describe", "sandbox", "prepare", "chaos", "await",
          "monitor", "launch", "resolve", "acting", "drain", "read", "stamp",
          "verify", "succeed"}
ExceptPc == {"except", "reverify", "fail"}
FinallyPc == {"abort", "join", "release_monitor", "release_credentials",
              "teardown", "clean", "over"}

NoReports == [status |-> "none", verification |-> "none", perf |-> "none"]

Snapshots ==
  [ status       : {"none", "initiated", "success", "failed", "timed_out"},
    verification : {"none", "pass", "fail", "raised", "unresolved"},
    perf         : {"none", "pass", "fail"} ]

VerificationStatus == {"none", "evaluated", "not_evaluated", "skipped_no_infra"}

Records ==
  [ status                 : {"success", "failed"},
    sandboxed              : {"yes", "no", "unknown"},
    chaos                  : Snapshots,
    verification_status    : VerificationStatus \ {"none"},
    sandbox_teardown_clean : BOOLEAN ]   \* FALSE: the record says so

NoRecord == [status |-> "none"]

TypeOK ==
  /\ ScenarioTypeOK
  /\ task \in [cluster : Clusters, boundary : Boundaries,
               chaos : BOOLEAN, entries : BOOLEAN]
  /\ pc \in TryPc \cup ExceptPc \cup FinallyPc
  /\ deployer \in BOOLEAN
  /\ infra \in {"none", "partial", "up", "down", "leaked"}
  /\ infra_up \in BOOLEAN
  /\ workspace \in BOOLEAN
  /\ creds_dir \in BOOLEAN
  /\ credentials \in {"none", "installed", "residue"}
  /\ completed_spec \in BOOLEAN
  /\ entries \in BOOLEAN
  /\ monitor \in {"none", "idle", "sampling", "stopped"}
  /\ agent_started \in BOOLEAN
  /\ ran \in {"no", "inside", "outside"}
  /\ reports \in Snapshots
  /\ verification_status \in VerificationStatus
  /\ result \in Records \cup {NoRecord}

Init ==
  /\ ScenarioInit
  /\ task \in [cluster : Clusters, boundary : Boundaries,
               chaos : BOOLEAN, entries : BOOLEAN]
  /\ pc = "deployer"
  /\ deployer = FALSE
  /\ infra = "none"
  /\ infra_up = FALSE
  /\ workspace = FALSE
  /\ creds_dir = FALSE
  /\ credentials = "none"
  /\ completed_spec = FALSE
  /\ entries = FALSE
  /\ monitor = "none"
  /\ agent_started = FALSE
  /\ ran = "no"
  /\ reports = NoReports
  /\ verification_status = "none"
  /\ result = NoRecord

-----------------------------------------------------------------------------
(* The `try': provisioning. *)

At(here, next) == pc = here /\ pc' = next

GetDeployer ==
  /\ At("deployer", "up")
  /\ deployer' = TRUE
  /\ UNCHANGED <<scenarioVars, task, infra, infra_up, workspace, creds_dir,
                 sandbox, turn, outcome>>

Up ==
  /\ At("up", "describe")
  /\ infra' = "up"
  /\ infra_up' = TRUE
  /\ UNCHANGED <<scenarioVars, task, deployer, workspace, creds_dir, sandbox,
                 turn, outcome>>

\* get_cluster_info, and the workspace directory.
Describe ==
  /\ At("describe", "sandbox")
  /\ workspace' = TRUE
  /\ UNCHANGED <<scenarioVars, task, deployer, infra, infra_up, creds_dir,
                 sandbox, turn, outcome>>

\* Without a sandbox, or with one the task is exempt from.
RunAmbient ==
  /\ At("sandbox", "prepare")
  /\ task.boundary # "sandboxed"
  /\ UNCHANGED <<scenarioVars, ownVars>>

\* _prepare_sandbox_spec; a noop cluster gets a kubeconfig that names no cluster.
PrepareSandbox ==
  /\ At("sandbox", "prepare")
  /\ task.boundary = "sandboxed"
  /\ creds_dir' = TRUE
  /\ credentials' = IF NoOp THEN "none" ELSE "installed"
  /\ completed_spec' = TRUE
  /\ UNCHANGED <<scenarioVars, task, deployer, infra, infra_up, workspace,
                 turn, outcome>>

\* What an attempt to remove the agent's objects may leave of them.
Removed(objects) == IF objects = "none" THEN {"none"} ELSE {"none", "residue"}

\* Placeholders, fixtures, chaos and verification specs.
Prepare ==
  /\ At("prepare", "chaos")
  /\ entries' = task.entries
  /\ UNCHANGED <<scenarioVars, task, provision, sandbox, monitor,
                 agent_started, ran, outcome>>

-----------------------------------------------------------------------------
(* The `try': chaos, safeguards, agent. *)

SkipChaos ==
  /\ At("chaos", "monitor")
  /\ ~task.chaos
  /\ UNCHANGED <<scenarioVars, ownVars>>

start_scenario ==
  /\ At("chaos", "await")
  /\ task.chaos
  /\ StartScenario
  /\ UNCHANGED ownVars

\* The wait of _CHAOS_ACTIVE_WAIT_SEC only delays the agent.
AwaitChaos(timedOut) ==
  /\ At("await", "monitor")
  /\ chaos_active_event = ~timedOut
  /\ UNCHANGED <<scenarioVars, ownVars>>

StartMonitor ==
  /\ At("monitor", "launch")
  /\ monitor' = IF no_infra THEN "idle" ELSE "sampling"
  /\ UNCHANGED <<scenarioVars, task, provision, sandbox, entries,
                 agent_started, ran, outcome>>

LaunchAgent ==
  /\ At("launch", "resolve")
  /\ agent_started' = TRUE
  /\ UNCHANGED <<scenarioVars, task, provision, sandbox, entries, monitor, ran,
                 outcome>>

\* execute_agent: resolve_agent, then run.
ExecuteAgent ==
  /\ At("resolve", "acting")
  /\ ran' = IF completed_spec THEN "inside" ELSE "outside"
  /\ UNCHANGED <<scenarioVars, task, provision, sandbox, entries, monitor,
                 agent_started, outcome>>

StopMonitor == monitor' = IF monitor = "none" THEN "none" ELSE "stopped"

\* The collection of artifacts that follows never fails the run.
AgentReturns ==
  /\ At("acting", "drain")
  /\ StopMonitor
  /\ UNCHANGED <<scenarioVars, task, provision, sandbox, entries,
                 agent_started, ran, outcome>>

-----------------------------------------------------------------------------
(* The `try': _drain_scenario, verification, the record. *)

ThreadAlive == scenario \notin {"none", "exited"}

NothingToDrain ==
  /\ At("drain", "verify")
  /\ ~task.chaos
  /\ UNCHANGED <<scenarioVars, ownVars>>

Drain(timedOut) ==
  /\ At("drain", "read")
  /\ task.chaos
  /\ ThreadAlive = timedOut
  /\ UNCHANGED <<scenarioVars, ownVars>>

get_reports ==
  [status |-> chaos_report.status, verification |-> chaos_report.verification,
   perf |-> perf_report]

ReadReports ==
  /\ At("read", "stamp")
  /\ reports' = get_reports
  /\ UNCHANGED <<scenarioVars, task, provision, sandbox, turn,
                 verification_status, result>>

StampReports ==
  /\ At("stamp", "verify")
  /\ reports' = IF ThreadAlive THEN [reports EXCEPT !.status = "timed_out"]
                               ELSE reports
  /\ UNCHANGED <<scenarioVars, task, provision, sandbox, turn,
                 verification_status, result>>

Verify ==
  /\ At("verify", "succeed")
  /\ verification_status' = IF no_infra THEN "skipped_no_infra" ELSE "evaluated"
  /\ UNCHANGED <<scenarioVars, task, provision, sandbox, turn, reports,
                 result>>

BuildSuccessRecord ==
  /\ At("succeed", "abort")
  /\ result' = [status |-> "success",
                sandboxed |-> IF completed_spec THEN "yes" ELSE "no",
                chaos |-> reports,
                verification_status |-> verification_status,
                sandbox_teardown_clean |-> TRUE]
  /\ UNCHANGED <<scenarioVars, task, provision, sandbox, turn, reports,
                 verification_status>>

-----------------------------------------------------------------------------
(* The `except'. *)

\* A step that leaves nothing of its own behind.
Raise ==
  /\ pc \in {"deployer", "describe", "prepare", "chaos", "monitor", "launch",
             "resolve", "acting", "verify", "succeed"}
  /\ pc' = "except"
  /\ UNCHANGED <<scenarioVars, ownVars>>

\* up() may leave a part of the infrastructure.
UpRaises ==
  /\ At("up", "except")
  /\ infra' \in {"none", "partial"}
  /\ UNCHANGED <<scenarioVars, task, deployer, infra_up, workspace, creds_dir,
                 sandbox, turn, outcome>>

\* Provisioning, or what follows it, failed; the objects were removed, and
\* whether that was clean is not looked at.
PrepareSandboxRaises ==
  /\ At("sandbox", "except")
  /\ task.boundary = "sandboxed"
  /\ creds_dir' = TRUE
  /\ credentials' \in Removed(IF NoOp THEN "none" ELSE "installed")
  /\ UNCHANGED <<scenarioVars, task, deployer, infra, infra_up, workspace,
                 completed_spec, turn, outcome>>

ExceptStops ==
  /\ At("except", "reverify")
  /\ StopMonitor
  /\ UNCHANGED <<scenarioVars, task, provision, sandbox, entries,
                 agent_started, ran, outcome>>

\* Seeded fault: infrastructure that never came up is not told apart.
StatusAfterFailureFault(crashed) ==
  IF no_infra THEN "skipped_no_infra"
  ELSE IF crashed THEN "not_evaluated" ELSE "evaluated"

\* Seeded fault: no status is set when the infrastructure never came up.
StatusUnsetFault(crashed) ==
  IF no_infra THEN "skipped_no_infra"
  ELSE IF infra_up /\ ~crashed THEN "evaluated"
  ELSE IF infra_up THEN "not_evaluated" ELSE verification_status

StatusAfterFailure(crashed) ==
  IF no_infra THEN "skipped_no_infra"
  ELSE IF infra_up /\ ~crashed THEN "evaluated" ELSE "not_evaluated"

\* Verification runs again for the failed record, if there is a cluster and
\* there are entries; it may crash again.
ExceptVerifies(crashed) ==
  /\ At("reverify", "fail")
  /\ crashed => infra_up /\ entries /\ ~no_infra
  /\ verification_status' = StatusAfterFailure(crashed)
  /\ UNCHANGED <<scenarioVars, task, provision, sandbox, turn, reports,
                 result>>

\* Seeded fault: a sandbox that was prepared is taken for one that was used.
SandboxedOutcomeFault ==
  IF task.boundary # "sandboxed" THEN "no"
  ELSE IF completed_spec THEN "yes" ELSE "no"

SandboxedOutcome ==
  IF task.boundary # "sandboxed" THEN "no"
  ELSE IF completed_spec /\ agent_started THEN "yes" ELSE "unknown"

\* The reports of the scenario stay out of a failed record.
BuildFailedRecord ==
  /\ At("fail", "abort")
  /\ result' = [status |-> "failed",
                sandboxed |-> SandboxedOutcome,
                chaos |-> NoReports,
                verification_status |-> verification_status,
                sandbox_teardown_clean |-> TRUE]
  /\ UNCHANGED <<scenarioVars, task, provision, sandbox, turn, reports,
                 verification_status>>

\* A KeyboardInterrupt is no Exception: it passes the `except' by, also that of
\* the sandbox's provisioning.  So does an exception raised in the `except'.
Interrupt ==
  /\ pc \in TryPc \cup ExceptPc
  /\ pc' = "abort"
  /\ infra' \in IF pc = "up" THEN {"none", "partial", "up"} ELSE {infra}
  /\ credentials' \in IF pc = "sandbox" /\ task.boundary = "sandboxed" /\ ~NoOp
                      THEN {"none", "installed", "residue"} ELSE {credentials}
  /\ creds_dir' \in IF pc = "sandbox" /\ task.boundary = "sandboxed"
                    THEN BOOLEAN ELSE {creds_dir}
  /\ UNCHANGED <<scenarioVars, task, deployer, infra_up, workspace,
                 completed_spec, turn, outcome>>

-----------------------------------------------------------------------------
(* The `finally'. *)

Abort ==
  /\ At("abort", "join")
  /\ IF scenario = "none" THEN UNCHANGED scenarioVars ELSE AbortScenario
  /\ UNCHANGED ownVars

\* Bounded by _SCENARIO_JOIN_SEC.
JoinReturnsFault(timedOut) == ~ThreadAlive /\ ~timedOut     \* join()
JoinReturns(timedOut) == ThreadAlive = timedOut

Join(timedOut) ==
  /\ At("join", "release_monitor")
  /\ JoinReturns(timedOut)
  /\ UNCHANGED <<scenarioVars, ownVars>>

ReleaseMonitor ==
  /\ At("release_monitor", "release_credentials")
  /\ StopMonitor
  /\ UNCHANGED <<scenarioVars, task, provision, sandbox, entries,
                 agent_started, ran, outcome>>

ClusterSurvives == NoOp \/ Keep

ClusterTakesThem ==
  /\ At("release_credentials", "teardown")
  /\ ~(completed_spec /\ ClusterSurvives)
  /\ UNCHANGED <<scenarioVars, ownVars>>

\* Seeded fault: the flag is set on records of success only.
FlagResidueFault(clean) ==
  IF ~clean /\ result.status = "success"
  THEN [result EXCEPT !.sandbox_teardown_clean = FALSE] ELSE result

FlagResidue(clean) ==
  IF ~clean /\ result # NoRecord
  THEN [result EXCEPT !.sandbox_teardown_clean = FALSE] ELSE result

\* teardown_agent_credentials is clean when no call of it failed, which a call
\* that had its effect all the same may have done; without a cluster there is no
\* call (AgentCredentials has the calls).
RemoveCredentials ==
  /\ At("release_credentials", "teardown")
  /\ completed_spec /\ ClusterSurvives
  /\ credentials' \in Removed(credentials)
  /\ \E clean \in BOOLEAN :
       /\ clean => credentials' = "none"
       /\ NoOp => clean
       /\ result' = FlagResidue(clean)
  /\ UNCHANGED <<scenarioVars, task, provision, completed_spec, turn, reports,
                 verification_status>>

\* Seeded fault: only infrastructure that came up is torn down.
TearsDownFault == infra_up /\ ~Keep
TearsDown == deployer /\ ~Keep

\* down() may fail; that is logged.  What goes takes the agent's objects along.
Teardown ==
  /\ At("teardown", "clean")
  /\ IF TearsDown
     THEN \/ infra' = "down" /\ credentials' = IF NoOp THEN credentials ELSE "none"
          \/ infra' = "leaked" /\ ~NoOp /\ UNCHANGED credentials
     ELSE UNCHANGED <<infra, credentials>>
  /\ UNCHANGED <<scenarioVars, task, deployer, infra_up, workspace, creds_dir,
                 completed_spec, turn, outcome>>

Clean ==
  /\ At("clean", "over")
  /\ workspace' = FALSE
  /\ creds_dir' = FALSE
  /\ UNCHANGED <<scenarioVars, task, deployer, infra, infra_up, sandbox, turn,
                 outcome>>

Over == pc = "over" /\ ~ThreadAlive /\ UNCHANGED vars

-----------------------------------------------------------------------------
Try ==
  \/ GetDeployer
  \/ Up
  \/ Describe
  \/ RunAmbient
  \/ PrepareSandbox
  \/ Prepare
  \/ SkipChaos
  \/ start_scenario
  \/ \E timedOut \in BOOLEAN : AwaitChaos(timedOut)
  \/ StartMonitor
  \/ LaunchAgent
  \/ ExecuteAgent
  \/ AgentReturns
  \/ NothingToDrain
  \/ \E timedOut \in BOOLEAN : Drain(timedOut)
  \/ ReadReports
  \/ StampReports
  \/ Verify
  \/ BuildSuccessRecord

Except ==
  \/ Raise
  \/ UpRaises
  \/ PrepareSandboxRaises
  \/ ExceptStops
  \/ \E crashed \in BOOLEAN : ExceptVerifies(crashed)
  \/ BuildFailedRecord
  \/ Interrupt

Finally ==
  \/ Abort
  \/ \E timedOut \in BOOLEAN : Join(timedOut)
  \/ ReleaseMonitor
  \/ ClusterTakesThem
  \/ RemoveCredentials
  \/ Teardown
  \/ Clean

Main == Try \/ Except \/ Finally

Scenario == ScenarioThread /\ UNCHANGED <<pc, ownVars>>

Next == Main \/ Scenario \/ Over

Spec == Init /\ [][Next]_vars

\* The deployer, the agent (which has a timeout) and the verification (which has
\* a budget) return.  Nothing is assumed of the scenario's thread.
FairSpec == Spec /\ WF_vars(Main)

-----------------------------------------------------------------------------
(* What a task run promises. *)

\* The status of the verification is true of the cluster it was run against, on
\* the record of a success as on that of a failure at any step: nothing is called
\* evaluated without infrastructure that came up, nothing but a no-infra run is
\* called skipped, and no sample can still change a judged safeguard.
VerificationStatusIsTruthful ==
  result # NoRecord =>
    /\ result.verification_status = "evaluated" => infra_up /\ ~no_infra
    /\ (result.verification_status = "skipped_no_infra") = no_infra
    /\ result.status = "success" => result.verification_status # "not_evaluated"
    /\ monitor # "sampling"

\* Wherever the run failed, its record says of an agent that acted whether it was
\* inside the boundary.  No record claims the boundary for a run that had not come
\* to its agent, and none calls a run ambient that was to be sandboxed
\* (_sandboxed_outcome, _build_success_record).  Of an agent that could not be
\* resolved it may say "yes", as agent_started is set before; default.py:972 and
\* 1489 and sandbox.md:100 promise "unknown" for every agent that never ran.
SandboxedIsTruthful ==
  result # NoRecord =>
    /\ ran # "no" => result.sandboxed = (IF ran = "inside" THEN "yes" ELSE "no")
    /\ result.sandboxed = "yes" => agent_started
    /\ result.sandboxed = "no" => task.boundary # "sandboxed"

\* Where a completed sandbox leaves objects on a cluster that goes on, its record
\* says so, whether the run was a success or not.  A record may say so of objects
\* that are gone, as a call may fail after its effect, but never of a run that had
\* no cluster to put any on.
ResidueIsSurfaced ==
  pc = "over" /\ result # NoRecord /\ completed_spec /\ ClusterSurvives =>
    /\ credentials # "none" => ~result.sandbox_teardown_clean
    /\ ~result.sandbox_teardown_clean => ~NoOp

Resource == {"infra", "credentials", "workspace", "creds_dir"}

\* What the run holds and has not yet tried to give back; objects of a sandbox
\* that was never completed are the business of its own clean-up.
Held ==
  {r \in Resource :
     \/ r = "infra" /\ infra \in {"partial", "up"}
     \/ r = "credentials" /\ completed_spec /\ credentials = "installed"
                          /\ infra \in {"partial", "up"}
     \/ r = "workspace" /\ workspace
     \/ r = "creds_dir" /\ creds_dir}

Phase == IF pc = "over" THEN "over"
         ELSE IF pc \in FinallyPc THEN "settled"
         ELSE IF ran = "no" THEN "preparing" ELSE "acting"

Outcome == IF pc \notin FinallyPc THEN "none"
           ELSE IF result = NoRecord THEN "interrupted" ELSE result.status

Lifecycle == INSTANCE RunLifecycle
  WITH kept <- IF Keep THEN {"infra"} ELSE {},
       phase <- Phase, held <- Held, outcome <- Outcome

\* Whatever raises or is interrupted: a run acquires, acts, settles one outcome
\* and only then gives back, all but what the operator keeps.
ImplementsLifecycle == Lifecycle!Spec

\* A scenario thread that hangs does not hang the run: every wait for it is
\* bounded (_CHAOS_ACTIVE_WAIT_SEC, _SCENARIO_JOIN_SEC).
RunEnds == <>(pc = "over")

-----------------------------------------------------------------------------
(* What a comment says and the code does not do. *)

\* "A join that times out stamps chaos_report["status"] to "timed_out" so a partial
\* report is not mislabelled" (_drain_scenario): a report without that stamp is
\* the one the scenario ended with.
PartialReportsAreStamped ==
  pc = "succeed" /\ task.chaos /\ ~ThreadAlive =>
    reports.status = "timed_out" \/ reports = get_reports

\* "Residue is a next-run problem; surface it where results are read" (_run_one):
\* also the residue of a sandbox that could not be completed.
ResidueIsAlwaysSurfaced ==
  pc = "over" /\ result # NoRecord /\ ClusterSurvives /\ credentials # "none" =>
    ~result.sandbox_teardown_clean
=============================================================================

# DevOps-bench, verified

DevOps-bench takes a list of tasks, provisions a cluster for each one, lets an
AI agent work on it while faults are injected beside it, verifies what became of
the cluster, tears it down, and scores the batch. These modules model the part
of that which runs concurrently, fails half way, and has to tell the truth about
it afterwards, down to the score that is published.

Paths below are relative to `src/`; `default.py`, `hold.py` and `scenario.py`
are those of `devops_bench/evalharness/`.

## 1. Inventory

| component | state it keeps | operations | what it talks to |
|---|---|---|---|
| **Task run** `default.py:_run_one` | locals of one call: deployer, `infra_up`, workspace, credentials directory, `completed_spec`, `agent_started`, monitor, scenario thread, the record | the `try` (provision, prepare, chaos, agent, drain, verify, record), the `except` (failed record), the `finally` (abort, join, release, teardown) | everything below |
| **Safeguard monitor** `hold.py` | an observation per safeguard, `stop_event`, `first_pass_done`, `start_time`, the thread's `next_due` | `start`, `stop`, `get_observations`, the sampling loop, `hold_verdict`, `run_hold_window` | daemon thread; one lock; calls the verifier |
| **Chaos scenario** `scenario.py`, `chaos/` | two reports, `chaos_active_event`, `_aborted`, the action's URL, a kubectl tunnel | trigger, LB lookup, fault injection by an LLM loop, verification, `get_reports`, `stop` | daemon thread; one lock; one event the run waits for |
| **Verification pass** `default.py:_run_verification`, `verification/` | the budget left, rows, observations | entries and soaks under a shared budget; groups (sequence, parallel, any, none) over leaf checks; roll-up | cluster; thread pool in parallel groups |
| **Agent credentials** `k8s/agent_credentials.py` | objects on the cluster with fixed names: admission policies, RBAC, namespace, PSA labels | provision (many writes), teardown (deletes, each may fail) | cluster, shared with other runs |
| **Batch** `default.py:run`, `run.py`, `cli.py`, `reporter.py` | records, inventories, attribution of new home entries | one task after another, persist, score, persist again, derived rows | files; scenario threads that outlive their task |
| **Cheat detection** `cheat_detection/` | rules, fingerprints of the home before the agent | inventory, narrowing, matching on transcripts | batch |
| **Metrics, results** `metrics/`, `results/` | scores of a record, rows | roll-up, resolution of withheld signals, gates, pass@k, aggregation | batch; judge LLM |
| **Agents and sandbox** `agents/` | a container named for the workspace | run with timeout, kill, reap, sweep | docker, LLMs |
| **Deployers, providers** `deployers/`, `providers/` | tofu working directory and state | up, down, cluster info | clouds, vcluster, kind |
| **LLM clients, core, tasks, fixtures** | none, or a registry | request loops, parsing, environment | — |
| **Stacks, scripts, catalogue, docs** `tf/ scripts/ hack/ docker/ tasks/ docs/` | — | — | data and operator tooling |

What is hard in it:

* **Two daemon threads beside the harness.** The monitor samples the cluster
  during the agent's turn, the scenario loads it. The harness waits for both
  with bounded waits and then goes on whether they ended or not, so every read
  of what they wrote may be a read of something unfinished.
* **Anything may raise.** A run makes some sixteen calls that can fail, and a
  record has to be made in each case, from flags that were set along the way.
* **Three-valued answers.** A check passes, fails, or could not be evaluated, and
  the third must neither count as a violation nor shrink a denominator.
* **Give-back.** Infrastructure, credentials, directories, a tunnel: acquired at
  different steps, given back in one `finally`, on a cluster that may survive.
* **Parallel runs.** Fixed names on a shared cluster, fixed local ports, one home.

What makes each component correct:

* *Monitor:* the verdict tells a dip, an absorbed error and a lost observation
  apart; samples are spaced; a stop is noticed; nobody hangs; the window stands
  for the agent's turn.
* *Scenario:* the two reports agree; success means load landed; the tunnel and
  its URL come and go together; the harness is released; the thread ends.
* *Task run:* one truthful record whatever happens; everything acquired is given
  back after the outcome is settled and not before.
* *Verification pass:* no entry is starved by those before it; every row is
  there, in order; a group's status is what its members' observations justify.
* *Credentials:* no residue goes unreported; a partial failure denies less, not
  more; one run does not disarm another.
* *Batch:* a finished task's record survives whatever follows; nothing one task
  made is held against another's honest repeat.
* *Score:* an unresolved entry withholds, a tripped or unread tripwire gates.

## 2. Plan

The order is by what decides whether a result of the benchmark can be believed:
what was observed, what became of a run, what a check tree made of a cluster, what
a run leaves on it, what a batch and a score make of the records.

| # | module | composes | reference it is held to | theorems |
|---|---|---|---|---|
| 1 | `HoldObservation` | — | `VerdictOf`, on the whole history | through 2 |
| 2 | `SafeguardMonitor` | 1 | — | types, verdict, spacing, late samples, window |
| 3 | `ChaosScenario` | — | — | types, reports, fail-closed, tunnel |
| 4 | `RunLifecycle` | — | it is one | refined by 5 |
| 5 | `TaskRun` | 3, refines 4 | `RunLifecycle` | types, status, boundary, residue, refinement |
| 6 | `VerificationPass` (with `run_hold_window`) | 1 | — | types, starvation, unobserved rows, completeness, soaks |
| 7 | `VerificationTree` | — | the truth of the tree's condition on the cluster | types, justified verdicts, the end in time, the truth |
| 8 | `AgentCredentials` | — | — | types, clean teardown, enforcement, quota, settled levels |
| 9 | `Checks`, `Declarations` | — | `Claim`, a sentence about the objects shown | through 10 |
| 10 | `OutcomeScore` | 9 | the evidence behind each verdict | verdicts, earned outcomes, rows that explain themselves |
| 11 | `HomeInventory`, `PassK` | — | k-subsets of the attempts | — |
| 12 | `Batch` | 11 | who made an entry, what each record said | fair detection, results, sandboxes, the attempt that counts |

All twelve are written and run, and every component that moves has its theorems.
Every invariant and every action property that a passing run checks is also stated by
a theorem; liveness is left to TLC (see "Only model-checked" in section 5).

## 3. Modules and how they correspond to the code

Names follow the source (`chaos_active_event`, `completed_spec`, `infra_up`,
`FoldSample`...). Names ending in `Fault` are seeded faults: they are used nowhere
in the specification and stand beside the definition they distort.

### `HoldObservation` — `hold.py:86-292`
The record of one hold entry without its wording, `FoldSample` as
`_fold_sample`/`_fold_error_sample`, `HoldVerdict` as the ordered rules of
`hold_verdict`. `VerdictOf` is a reference written from the docstring on the whole
sequence of samples, and shares nothing with the counters.

### `SafeguardMonitor` — `hold.py:295-444`
Two processes. The main thread (`main`, `stops`): `Start`, `StartReturns`, `Stop`,
`StopReturns`. The sampling thread (`thread`, `pos`, and the locals `pass_now`,
`elapsed`, `next_due`, `wake_at`): `TestStop`, `SkipEntry`, `BeginSample`,
`EndSample`, `EndPass`, `PassFails`, `Wake`. A step ends wherever the other thread
can see a difference; the verifier call between `BeginSample` and `EndSample` is
outside the lock and takes any time. `now` is `time.monotonic()` in whole units.
`history` and `late` are history variables.

### `ChaosScenario` — `scenario.py`, `chaos/faults/generate_load.py`, `k8s/kubectl.py:572-658`
One process, `scenario`, from `Begin` to `Exit`, with one step per lock region and
per call another thread can overlap, plus what the harness does to it
(`StartScenario`, `AbortScenario`). A report is abstracted to its status and what
its `verification` section says. The tool loop (`models/utils/loop.py`,
`chaos/agent.py`) is `Load`: a `fortio load` that runs, a command that names a load
and cannot be split (`UnparsableLoad`), and every other call, malformed ones and
unknown tools included, which is answered and changes nothing (`AnswerCall`).

### `RunLifecycle` — what a run promises
Acquire, act, settle exactly one outcome, give back all but what is kept.

### `TaskRun` — `default.py:1014-1309` and the methods it calls
The program of `_run_one` as a counter `pc`, with the scenario's thread (module
`ChaosScenario`, extended) interleaved at every step. `Try`, `Except` and
`Finally` group the actions as the code groups them. `Raise` is an exception of a
step that leaves nothing of its own; `up()` and `_prepare_sandbox_spec` may leave
something and have actions of their own. `Interrupt` is a `KeyboardInterrupt`,
which is no `Exception` and passes the `except` by. `RemoveCredentials` is clean if no
call of it failed: what is clean is gone, but a call may fail after its effect, so an
unclean removal may leave anything, nothing included. Of a task only what the code
branches on is kept: what happens to its cluster, whether the agent is to be
sandboxed, whether there is chaos, whether there are verification entries.
Of a deployer (`deployers/factory.py`, `deployers/tofu.py`) the run sees whether
it could be chosen, and whether `up`, `get_cluster_info` and `down` raise; `down` on
a work directory that is gone destroys nothing and returns, which is one of the
ways in which `Teardown` leaves infrastructure behind.
The monitor is a phase (`none`, `idle`, `sampling`, `stopped`), which is what
`SafeguardMonitor` shows of it: `start()` and `stop()` return.

### `VerificationPass` — `default.py:517-643`, `scenario.py:85-103`, `hold.py:447-510`
One sequential process over the list of entries, in the code's two loops: `pc` is
the loop, or the place inside a soak, and `pos` the entry. Mode and role of an
entry are one `Kind`, since the code branches on nothing else. The check of an
entry is one step with any answer and any duration up to an overrun of its
budget; a soak goes through `OpenWindow`, `TakeSample`, `SleepOver`,
`WindowRunsOut` and `CloseSoak`, one for each point where the clock is read again.
The clock is reset between entries, because the code carries no time but the
budget from one to the next. `verification_budget_sec` is a sum; the model counts
seconds as pairs of an entry and a number, so that the sum is a cardinality that
TLC evaluates and the proof can take apart. The `ValueError` for an objective hold
without a window is left out: the entry validator rejects such an entry
(`Declarations`, `EntryParses`).

### `VerificationTree` — `verification/runner.py`, `verification/base.py`, `k8s/conditions.py`
One entry: a tree of sequence, parallel, any, none and leaves, and `node`, the
state of evaluation of each of its nodes. A group hands its children what is left
of its own deadline; any, none and asserting groups evaluate in single shots, with
a pause between rounds when they converge. Leaves poll with exponential back-off;
a call takes no time or a fixed time, may be impossible to evaluate, and a call that raises is an
error row under a parallel group and ends the entry elsewhere. A parallel group
waits `Grace` past its deadline and goes on without the children that still run;
what they answer nobody reads, so they are dropped. Its pool of eight workers
never binds: no shipped tree has as many children.
A condition of the cluster may change at any moment (`changes`).

### `AgentCredentials` — `k8s/agent_credentials.py`, `k8s/kubectl.py`
Several runs on one cluster, each with a `pc` through the calls of
`provision_agent_credentials` and `teardown_agent_credentials`. Objects are kinds
with fixed names (`Objects`); every kubectl call is a step, and a call that fails
may have had any part of its effect. `holder`, `marker`, `before` and `alone` are
history: the cluster itself knows only that an object is there. Other steps are
workloads that come and go (`rogue`), the crash of a run, and a level that somebody
else sets (`SetLevel`), at any moment and on any namespace, also on one that a run has
listed and not yet labelled, or has labelled. `SettledLevelsSurvive` says which of
these levels are safe, `ForeignLevelsSurvive` what the comments promise. Admission
policies are taken to be in force once applied. `alone` is true for a run that met no other
live run: overlapping ones are modelled, and the documentation forbids them.

### `Checks` — `verification/verifiers/`
The seven leaf verifiers as functions from what their calls return to `pass`,
`fail` or `error`. An object is the sequence of elements that the last wildcard of
a path selects, an element the sequence of its values, so that the empty cases and
the reductions (`across`) are as in the code. Values are numbers, quantities,
bare numeric strings, words and lists; whether a pattern or a containment hits is
an attribute of the value.

### `Declarations` — `verification/spec.py`, the `_check_shape` rules
What an author may declare and what parsing makes of it: each entry for itself,
duplicates and malformed entries as errors that keep the role and severity they
wrote, or one root error. A check tree is the sequence of its nodes, in the order in
which they are done parsing (children before their group), because a tree parses
exactly if every node does. A group whose `checks` cannot be iterated over
(`checks: null`) raises, unless a node before it was refused (`CheckRaises`); then the
record declares nothing and its `run` is `"raised"`. Display fields are left out.

### `OutcomeScore` — `verification/rollup.py`, `metrics/`, `core/score_keys.py`, `results/normalize.py`
One record from its declared entries to its row. `EvaluateEntry` answers an entry's check
by any of the `Questions`, and notes in `truth` what there was to see; the metric
families follow in the order the pipeline pins, the judged ones with any result
or failure; `Finalize` is the composite, `BuildRow` the row. Scores are counted in
`Unit`s and the composite is kept as its square. Tool invocation, grounding and
the chaos metrics are left out: no composite reads them.

### `HomeInventory` — `cheat_detection/`, `default.py:977-1012`
A home maps names to contents; a content stands for the distinctive lines of a
file and is shared by two runs of one task. Rules are the names that may not be
referenced and the contents that may not surface.

### `PassK` — `results/aggregate.py`, `metrics/passk.py`
Rows of several files, each with its place, the newest of each key, and the two
estimators as pairs of a part and a whole. `load_rows` is a set: where the code keeps
the later of two rows of one moment because the loop meets it later, `NotBefore`
compares their places. `math.comb` is what it counts, the draws of k from n.

### `Batch` — `default.py:793-959`, `agents/sandbox.py`, `reporter.py`
The loop over the tasks of a batch: sweep of strays, inventory, attribution, the
task's turn in the operator's home or in a sandbox, annotation, the two writes of
`results.json` around scoring, `rows.json`; then the attempts and invocations of a
matrix and their aggregation. A write truncates its file first. `Kill` may come at any
step, and what docker was starting in that step (`MayBeRunning`: the agent, or the
helper of a change of ownership) may or may not be left. A task is its name, what its
prompt names and what its stack delivers;
everything `TaskRun` says of it is one of `RunFails`, `AmbientTurn` and
`SandboxReturns`. The sandbox executor keeps an agent container, the helper that
changes ownership and the owner of the workspace. `Retry`, `Kill`, `HelperEnds` and
`StrayAgentWrites` are the world: the matrix script, the operating system, docker. `ghost` is
history no code reads.

## 4. Runs

| run | question | states | answer |
|---|---|---|---|
| `monitor` | Are verdicts, spacing, windows and waits right under every interleaving with `stop()`? | 121,001 | yes |
| `scenario` | Are reports, success, tunnel and termination right whatever trigger, tunnel, LLM and verifier do? | 3,446 | yes |
| `task_run` | Is the record true and everything given back, whatever raises and wherever? | 524,046 | yes |
| `verification_pass` | Is every entry served, reported and judged by what was seen, and is a soak even and whole? | 405,981 | yes |
| `credentials` | Is what teardown calls clean clean, and does an agent never run without what its task asks for, whatever fails and whoever else is there? | 1,884,307 | yes |
| `tree` | Does a verdict follow from what was observed, in time, and say what is true? | 623,398 | yes |
| `verdicts` | Is a positive score earned, and does the row explain it? | 370,780 | yes |
| `batch` | Is cheating told from honesty, do results outlive scoring, do the right attempts count, are sandboxes left clean? | 4,149,250 | yes |
| `drain` | Is a partial report always stamped, as `default.py:1583` says? | | no |
| `residue` | Is residue always surfaced, as `default.py:1300` says? | | no |
| `foreign_levels` | Is a level that someone else set never touched, as `agent_credentials.py:115` says? | | no |
| `honest_repeat` | Is an honest repeat never flagged for its own deliverable, as `default.py:986` says? | | no |

**Bounds.** `monitor`: two safeguards with intervals 1 and 2, so that one is due
while the other is not; three clock units, enough for each to be sampled, to be
skipped, to be sampled again and for a stop in each of these; two calls of `stop()`,
since the third behaves as the second. `HOLD_TRAILING_ERROR_SAMPLES` is the code's
2. A verifier call may span any number of units, which is what makes a sample
late. `scenario`: three load commands, so that a failure can follow a success and
a success a failure; all kinds of references and transports. `task_run`: the
scenario inside it has one load command and one transport, since the run only sees
its reports, its event and whether it is alive; clusters and boundaries are all
there are.
`verification_pass`: every kind of entry, a soak declared before and one after the
converging entries; windows of two intervals, so that a soak takes up to two samples
with a pause between them and another that the deadline cuts, and is shortened by
small budgets; budgets of 0, 1, 3 and 6 beside the
task's own 12, which exhaust the first, a later or no entry; overruns and lags of
one unit and calls of up to two, longer than the shorter interval. One unit below
`MIN_LEAF_BUDGET_SECONDS` is the boundary case.
`credentials`: two runs, since a third meets what two leave; one namespace of the
cluster's own and one ordinary; one failed call and one crash in a behaviour; two
plans, which between them take both sides of every switch (baseline or privileged,
quota or none, pinned or ambient, with and without the operator's hatches). Levels
may be set at any moment. The runs are symmetric in `credentials`.
`tree`: every kind of group over two leaves, every kind nested as the second child
of every kind, the kinds with rounds as a first child, and two deeper trees; a timeout
and a handoff of three units, a ceiling of four, a least budget of one; instant calls
and calls of two units, of which one fits the timeout or the handoff and two do not; in
trees of two leaves also calls of one unit, so that a whole pass fits, and of five,
which outlast the ceiling; one change of a condition and one failed call.
`verdicts`: one entry of every kind, pairs of entries of every role and severity,
trees with one broken node; per verifier the answers at its edges (nothing found,
an element without the field, two values where one was meant, a bare numeric
string, a call that failed); two items per judged checklist, scores in sixths, which
represents every share of weights up to three exactly.
`batch`: plans that bring out one concern each (see `MCBatch`): three tasks in which
the first comes back, with the prompt naming the deliverable for one or for both,
with a sandboxed task between; a task that comes back to a home where a leftover is a
copy of its input, or of what the environment holds; two attempts and up to three invocations; the sandbox
executor with and without remap and owner, beside another harness. Three names of
home entries: a deliverable, an input, something granted. All plans together would be
the product of these, which are independent: attribution reads nothing of attempts
or containers. `honest_repeat` has only the plans with a sandboxed task between.
The theorems have none of these bounds.

**Fairness.** `HarnessIsNotHeld` assumes only that a bounded wait ends (`wait(timeout)`,
`join(timeout)`), nothing of the sampling thread. `ThreadEnds` assumes in addition,
in its own formula, that the thread is scheduled and its verifier calls return;
they are bounded by `single_call_timeout`. `ScenarioEnds` assumes the same of the
scenario thread; kubectl, fortio and LLM calls have timeouts. `RunEnds` assumes
fairness of the main thread only: the deployer, the agent and the verification are
bounded by their own timeouts, and the scenario's thread may hang for ever.
`CHECK_DEADLOCK` is on in every run; the final states stutter by an action of
their own (`Finished`, `ScenarioEnded`, `Over`, `Published`, `Done`), except in
`credentials`, where both runs may be over and the budgets of failures and changes
spent. `credentials`, `tree`, `verdicts` and `batch` check safety only: that a tree
answers in time is `EndsInTime`, a bound on its clock.

### What the violated properties show

* `PartialReportsAreStamped`: the report is read before `is_alive()` is asked; a
  thread that ends in between is taken for one that had ended before.
* `ResidueIsAlwaysSurfaced`: `_prepare_sandbox_spec` removes what it installed when
  a later step of it fails, and drops the answer. `ResidueIsSurfaced` is the part of
  the promise that holds: for sandboxes that were completed.
* `ForeignLevelsSurvive`: `enforce_pod_security` lists the namespaces without a level
  and labels them some calls later with `overwrite=True`. A level set in between is
  lost; one set over a label of the run's own is removed at teardown, which goes by the
  marker. `SettledLevelsSurvive` is what holds: a foreign level on a namespace that no
  run has marked or is about to write is safe from every run, for good.
* `HonestRunsPass`: what appeared in the operator's home is charged to the task that ran
  last, also if that one ran in a sandbox and never saw the home. With a sandboxed B
  after an ambient A, what A left is charged to B, becomes a fingerprint for everybody
  else, and an honest repeat of A is flagged for its own deliverable.
  `FlagsAreDeserved` excepts just the repeats that were overtaken so (`Overtaken`).

**Other differences met while modelling**, not made into runs. Where a property passes
beside one of them, its comment and this list name the exception.

*Monitor and scenario.* `stop()` stamps `observed_window_sec` on each call
(`hold.py:369`), where `default.py:1244` calls it idempotent: on the failure path the
record's window grows by whatever came after the agent's turn. `start()` "returns once
every hold entry has been sampled once" (`hold.py:330`) unless its wait of 120 s runs
out. "The event is also set on injection failure" (`default.py:1164`) only if the
trigger raises: the fault turns every failure into a result, and a port-forward that
exits early leaves the harness waiting its 45 seconds.

*Task run.* The record of a sandboxed task says `sandboxed: true` of an agent that could
not be resolved: `agent_started` is set (`default.py:1190`) before `execute_agent`
resolves it (`:759`), while `default.py:972` and `:1489` and `sandbox.md:100` promise
`None`, or `null`, unless the agent ran. `SandboxedIsTruthful` is the part that holds: of
every agent that acted the record says where, and it never denies a boundary that the
task asked for. "A bounded join keeps teardown from racing the thread"
(`default.py:1283`) unless the thread outlasts it; a failed record drops the scenario's
reports; a `no_infra` run still starts its chaos scenario; a `KeyboardInterrupt` while
credentials are provisioned leaves them on a surviving cluster without a record.

*Verification pass.* An entry that is granted just `MIN_LEAF_BUDGET_SECONDS` passes the
test at `default.py:611` and may fail the one at `runner.py:272`, a few clock ticks
later, as a "fail" of which nobody saw anything, while `default.py:169` wants what was
never evaluated to stay unresolved. It takes an overridden budget, and
`UnobservedStaysUnresolved` has exactly this case as its exception.

*Credentials.* `provision_agent_credentials` drops the result of the teardown it
calls on failure. A privileged run on a cluster where an earlier run left its pod
policy is denied by it. The flag for residue on a record says that a call of the
teardown failed, which is not always that something is left. What is enforced is
stated for runs that met no other (`alone`): two live runs on one cluster share their
fixed names, the code only warns, and nothing is claimed of them but what
`CleanMeansRemoved` and `SettledLevelsSurvive` say. `token_ttl_for` is not modelled.

*Trees.* The last round decides: an "error" in it overwrites a definite fail that
an earlier round observed, and so does a late error of a leaf. A round may overrun
by more than the "one leaf call" of `runner.py:29-31` when a child is a group. A
definite fail inside a nested group is lost when the group misses the hand-off to
its parent. `VerdictIsTrue` therefore excepts an entry whose last round was cut.

*Verdicts and scores.* Parsing "is per entry and never raises" (`spec.py:475`), but
`checks: null` in a group is a `TypeError` in a validator that runs before pydantic looks
at the type (`spec.py:84`), and only `ValidationError` is caught: the task fails and none
of its entries is reported (`run = "raised"`). Under `no_infra` a parse error is listed as an "error" check
and neither withholds nor gates anything. A judged family whose evaluation raises
before its first item leaves no key, so the composite is published without its
penalty; `ScoreIsEarned` speaks of verified entries and integrity only. `across:
none` passes on values that cannot be compared. An object without elements drops
out of `every` if another object has some. Any failure of `git show` reads
"fail". `pod_exec`, `pod_healthy`, `scaling_complete` and `identity_preserved` do
not hand on the kubeconfig context. A failed record is never scored, so a failed
run with a tripped catastrophic safeguard has an empty row and no zero. An entry
that does not parse and misspells its role counts as an objective. A bad pattern
of `expect_body_matches` is an error at run time, where the other patterns are
refused at load time. If scoring raises midway, `rows.json` has partial scores that
`results.json` lacks.

*Batch.* When A's listing of the home fails, what A left is charged to the task after
it. An honest repeat is also flagged when A overwrites an entry somebody else made, and
when a leftover is a copy of its input or of a file of the environment.
`FlagsAreDeserved` speaks of batches in which every inventory succeeded and nothing of
this collides (`NoCollision`), and of repeats that no sandboxed task overtook
(`Overtaken`, see `HonestRunsPass`). An entry that A made and B
overwrote is no fingerprint for A; the property judges by the first maker. A task
repeated in one batch yields rows with one key, and only the last counts. A torn
`rows.json` makes `aggregate` raise until somebody removes it. The second write of
`results.json` truncates the first copy: a kill or a full disk in it leaves
neither, so `ResultsOutliveScoring` is about attempts that were not killed and whose
writes succeeded. `LatestAttemptCounts` takes time to pass between two attempts, so no
two files have rows of one second. What an earlier attempt left of its containers is
swept only if the owner's id is the same, which holds of a restart, not of attempts
with an id of their own (`sandbox.md:36`). `kill_container` says nothing when docker refuses, so an agent that
survives may write into a workspace already handed back.

## 5. Proofs

All theorems are checked by TLAPS from the named assumptions on the constants
alone (`TrailingAssumption`, `MonitorAssumption`, `ScenarioAssumption`,
`TaskRunAssumption`, `PassAssumption`, `TreeAssumption`, `BudgetAssumption`,
`CredentialsAssumption`,
`NamesAssumption`, `TasksAssumption`, `MaxKAssumption`, `PlansAssumption`,
`DefaultIntervalAssumption`, `QuestionsAssumption`, `SpecsAssumption`,
`UnitAssumption`, `ItemsAssumption`), which TLC evaluates on every run. Four say more than a type. `PassAssumption`: a converging
entry is given more than the least a leaf can use, by at least the time between two
lines of code (120 s against 1 s). `TreeAssumption`: nodes are numbered so that
children come after their parent, and each has one, which is how a parsed YAML tree
can be numbered; groups are not empty (`spec.py` refuses an empty list).
`BudgetAssumption`: a call needs some time and a single pass may wait longer than a
handoff (`MIN_LEAF_BUDGET_SECONDS`, `_CHILD_HANDOFF_GRACE_SEC` and
`_SINGLE_SHOT_WAIT_CEILING_SEC` are 1 s, 1 s and 120 s).
`PlansAssumption`: a stack delivers only what the prompt names, and two harnesses on
one host are told apart by an owner or by `BENCH_PARALLEL`, as the documents ask.

**`SafeguardMonitorProofs`.** The verdict looks at six counters; that it equals a
verdict on the whole history is not inductive. The invariant adds what each
counter stands for: `sample_count` is the length of the history, `error_count` is
equal to it exactly when nothing was evaluated, `trailing_error_count` is the length of its
longest suffix of errors. Spacing needs that `next_due` of an entry is at least
its last sample's time plus its interval, on the clock that `elapsed` is later
measured on. The bound of one late sample needs that the position of the for-loop
only grows within a pass and that no new pass begins once `stop_event` is set. The
window needs that the clock only grows and that `elapsed` of a pending sample is
not ahead of it.

**`TaskRunProofs`.** First the scenario by itself. Its invariant ties each report to
the position of the thread (before `report` nothing is verified, a `chaos_result` of
success was established by `Landed` and cannot be undone), and the URL to the tunnel
by region: no tunnel before `loop`, equivalence inside it, none after `close`. Then
the run: `RunContainsScenario` shows that every step of a run is a step of the
scenario or leaves it alone, so the scenario's theorems hold in a run. The run's own invariant says what each flag means at each `pc`:
`completed_spec` only after `sandbox`, `ran` only after `resolve` and inside exactly
with a completed specification, no monitor samples once the `except` or the
`finally` has passed it, a record exists from `fail`/`succeed` on. The refinement
maps `Held` to what has not been tried to be given back, and uses that `infra` is
held only under a deployer: `deployer` is what the `finally` asks for, and a
deployer that never came up is torn down too.

**`VerificationPassProofs`.** Starvation is about a sum that shrinks: the invariant
says that what is left of the budget is at least the seconds of the entries
without a row. An entry that leaves takes exactly its cap out of the sum
(`SecondsSplit`) and is charged at most its grant, whatever it overran; that is
where `Charge` matters. Which entries have a row is a matter of the loop and the
position in it (`Placed`), and gives completeness at the end. For a soak the
invariant ties the clock, and the end of a pause, to the last sample on both
sides, except when the deadline cut the pause: then there is no next sample. The
verdict again rests on the lemmas about counters, which are in
`HoldObservationProofs` and serve both drivers.

**`AgentCredentialsProofs`.** For any number of runs, namespaces, plans, failures
and crashes. That a clean teardown left nothing needs, step by step, what has been
removed so far (`RemovedSoFar`) and that a run which is over holds its objects
only if it crashed or was not clean (`PastRunsAreOver`). That the agent runs under
what its task asks for needs, for a run that met no other (`AloneIsAlone`), what
has been set up so far (`IdentitySoFar`, `EnforcementSoFar`) and that a baseline run
does not pass the scan beside a pod the policy would deny (`BaselineScans`).
That settled levels survive is an action property: only the two label steps touch the
level of a namespace, each only off its run's list (`LevelStep`, which takes from
`BaselineScans` that a run which labels is not privileged), and a list is drawn up of
namespaces without a level or with a marker, neither of which a settled one is
(`ListsStep`).

**`VerificationTreeProofs`.** The values of a tree's nodes are defined by recursion
over the tree, as is what lies below a node. No induction theorem of the library
can be instantiated for that, but a set of numbers that is not empty has a least
element (`WFMin`), and that is enough: a definition that only looks at later nodes
has a solution (`FixedPoint`), and what passes from the children of a node to the
node holds of all (`FromTheLeaves`). The invariant is about pairs of a group and a
child (`LinkOK`): only the child a group waits for is active, what a group has not
turned to is idle, what it has heard of is done. It is needed because a verdict is a
statement about nodes that are long done: that its reasons still stand rests on
nobody touching the children of a node that is done (`DoneStays`), which in turn
rests on nodes below it being at rest. `Grounded` is the reason of a single status,
and names the children that were looked at, not those whose status was given to
them; by induction over the tree it gives the value (`StatusIsValue`). Every action
touches one node and some set below it to which nothing else leads (`Touches`,
`StepKeeps`); the sets are one child, the skipped rest, everything below (a new
round), and the late children with everything below them (the hand-off).

That an evaluation ends in time needs more than the clock and the bound: how long
each part of it may still take. `TimeInv` says that there is a time for every
evaluation under way (`B`) by which it ends, fixed when it begins and kept since, and
that these times fit into one another: a group that waits has, after the time of the
child it waits for, what the children after it cost at most (`LinkTime`); calls,
sleeps and handoffs are due before it (`TimeOK`). Which times those are depends on
when each evaluation began, which no variable remembers, so they are quantified. What
a node costs is defined over the tree (`Single`, `Round`, `Over`) with sums and
maxima over its children; `Sums`, `Mosts` and `CostsDefined` show by the least element
again that these are numbers, and `Plan` keeps of them what the steps need. Time
passes only when every call, sleep and wait is short of what is due, and from there
up to the root (`TickTimes`). Under converge the proof rests on no evaluation
beginning after the deadline, although rounds begin late and children overrun it.

That the verdict is the truth has two sides. One is without time: on a cluster that does
not change, every answer of a leaf agrees with what holds, and what is `Grounded` in
such answers agrees with `Values(Truth)` (`VerdictAgrees`), so pass and fail are never
wrong unless something was written off for want of time. The other is that nothing is
written off, or ends without a verdict, that should not. `Prompted` says that there is
a time for every evaluation under way (`Q`) by which one pass over it is over, and a
length for what is left of every pass (`M`): the calls of the leaves still ahead, one
after the other, which is less than a handoff (`Room`). That such lengths exist and add
up along a group is a fact about cardinalities of disjoint subtrees (`KidsApart`,
`CallTimes`, `RoomExists`). An evaluation is `Prompt` if it makes one pass, or converges
and its node comes about, or is part of a round whose pass is over before the deadline:
then it never sleeps and is never late, hence never without a verdict (`Excused`). Two
cases took a stronger invariant. A converging sequence or parallel group that does not
come about is not prompt, but its children that do are, so it keeps to its times as far
as it gets (`Budgeted`). And a parallel group that polls to the end may lose a child only
in a tree with a choice whose last round was cut (`LatePrompt`), which rests on the end
in time: without a choice no child overruns the deadline by as much as a handoff
(`NoLongOverrun`). Before it was proved, TLC checked the invariant with such times as
additional variables. `BudgetAssumption` came out of the proof: with a least
budget of 0 a deadline of 0 leaves room for a pass by the formula but expires at once,
and a ceiling shorter than the handoff would cut a pass that fits the handoff.

**`BatchProofs`.** For any tasks, homes, plans, attempts and invocations. That
detection is fair needs who made each entry (`MakersAreKnown`) and that an entry made
during the batch is charged to its maker, to a sandboxed task that came right after a
turn of its maker (`Superseded`), or to nobody yet, and then only because its maker is the task that ran last
(`ChargesAreRight`, `ChargesAreComplete`); from that the rules of a task cover every
leftover that is not its input (`RulesCoverLeftovers`), and spare what an honest run
may show (`RulesSpareTheHonest`), if its task was not superseded; records only grow, so
a task that was superseded stays so (`SupersededStays`). `NoCollision` is needed: a
leftover that is a copy of the task's input, or of a file of the environment, gives a
fingerprint that an honest run shows, and the run has plans for both (`Copies`).
Results follow from how far the writes have come (`ResultsSoFar`) and from the records
being those of the plan's tasks in order (`RecordsFollowPlan`); the sandbox from what
its executor has done so far and what docker refused (`BoxSoFar`). Which attempt of a
task counts has an invariant of its own beside these (`AggregationInv`), checked by
TLC on the plans of `batch` before it was proved: the ledger's word on a task is that of the
newest of its rows (`LedgerIsLast`), because a row's moment is the attempt that wrote it
and an attempt that still runs has written none (`RowsOK`), and what was aggregated
of an invocation says what the ledger says, or nothing if a file of it is torn
(`CombinedFollowsLedger`). Only five steps matter to it (`Steps`): all others are
`Quiet`. The estimators are the shares they stand for because the number of draws
depends on the size of a set only (`DrawsAlike`, by a bijection), those that hold no
pass are the draws from the rest, and those that hold nothing else the draws from the
passes (`EstimatorsAreShares`).

**`OutcomeScoreProofs`.** For any specification, any questions and answers, any
judge. That a verdict follows its evidence is a fact about the verifiers, without a
state: for each of the seven, what its code computes case by case agrees with the
one sentence `Claim` words (`VerdictSays`); for a path the code goes element by
element or value by value, and both agree with the sentence about all values
(`PathRead`), which needs the rule that `absent` takes no reduction. The invariant
then says that the three signals are the roll-up of the verdicts from the moment they
are written (`Measured`), although entries of a record are read long before, that of a
record that is measured every entry was read (`Flow`), and that the composite on the
record is that of the keys beside it (`Composed`). That a positive outcome is earned
needs, besides, that the verifier's key comes first in its chain (`ChainResolved`):
a withheld one is an end, so no judge can stand in for it; that a geometric mean is
zero only with its correctness (`SquareIsNat`); and that a positive share of the
weight means an entry of a positive weight (`Weights`), which is why weights are
counted as sets. A row explains itself because its check list is built from the same
report (`ListedSays`).

**Only model-checked:** liveness (`HarnessIsNotHeld`, `ThreadEnds`, `ScenarioEnds`,
`RunEnds`), since TLAPS does not reason about fairness and ENABLED here; and the four
violated properties.

## 6. Not modelled, and why

* The adapters of the agents: they build command lines and parse transcripts. Nor
  the preflight, the image pin and the network plan of a sandbox, which are decided
  before anything exists.
* The fixed rules of cheat detection and the narrowing for a listing of the home:
  matching a pattern against text has no state. In the model every content is text
  long enough for a fingerprint, home entries are never deleted, a sandbox's home
  starts empty, and a batch's run directories sort by the time they were made.
* Metrics no composite reads (tool invocation, grounding, chaos), identifiers, token
  counts and provenance of rows. Grounding counts a constraint the judge could not
  decide as one that does not apply; the mean of pass@1 leaves out tasks without a
  scored attempt.
* What `TaskRun` takes from other modules is one step of it that succeeds, fails or
  raises: the pass, the credentials, the sandbox. `Batch` takes a task run the same way.
* An interrupt inside the `finally`: the code makes no promise for it, and what is
  left then is whatever had not been released.
* Wording: reasons, log messages, driver identity, metadata snapshots.
* LLM clients, registries, schema validation, file copies, infrastructure stacks
  and scripts: no state of their own that a property here is about.

-------------------------------- MODULE Batch --------------------------------
(***************************************************************************)
(* A batch around its task runs: DefaultEvalHarness.run with the reporter, *)
(* the inventory of what tasks leave behind, the sandbox executor of a     *)
(* task that runs in one, and, over the attempts of several matrix         *)
(* invocations, aggregate and passk.                                       *)
(*                                                                         *)
(* A plan says what is run: the tasks of a batch in order, those that      *)
(* never run sandboxed, what each prompt names and what the stack delivers *)
(* into the home, its first homes, the attempts of an invocation and the   *)
(* invocations. The process may be killed between any two steps; the next  *)
(* attempt starts over in a directory of its own, beside the containers    *)
(* left behind.                                                            *)
(***************************************************************************)
EXTENDS HomeInventory, PassK

CONSTANTS
  Tasks,     \* names of tasks
  Names,     \* names of home entries
  Baseline,  \* those that belong to the environment or were granted
  Plans,     \* what may be run, and in which homes
  MaxK       \* pass@k is asked for k up to this

ASSUME NamesAssumption == IsFiniteSet(Names) /\ Baseline \subseteq Names
ASSUME TasksAssumption == Tasks \cap {"none", "input", "before", "nobody"} = {}
ASSUME MaxKAssumption == MaxK \in Nat \ {0}

(* Inputs are what a prompt names (drop_fingerprints_matching_inputs); two *)
(* harnesses on one host run as "parallel" or under owners of their own.   *)
ASSUME PlansAssumption ==
  \A p \in Plans :
    /\ p.tasks \in Seq(Tasks)
    /\ {p.sandboxed, p.remap, p.parallel} \subseteq BOOLEAN
    /\ \A h \in p.homes : DOMAIN h = Names
    /\ \A t \in Tasks : p.delivered[t] \subseteq Names /\ p.delivered[t] \subseteq p.named[t]
    /\ p.sibling # "none" => IF p.owner = "" THEN p.parallel ELSE p.sibling # p.owner

VARIABLES
  pc,
  plan,
  attempt,    \* attempts begun in this invocation
  home,       \* per entry its content
  inventory,  \* preExisting, createdBy and the task that ran last
  rules,      \* the rules this task is held to
  records,    \* the records of the batch
  box,        \* the sandbox of the current task: agent, helper, owner
  strays,     \* containers whose harness was killed
  sibling,    \* does another harness's container run on the host?
  files,      \* per attempt: results and rows on disk
  combined,   \* per invocation: its aggregated rows, {} if there are none
  ghost       \* history no code reads: see NewGhost

vars == <<pc, plan, attempt, home, inventory, rules, records, box, strays,
          sibling, files, combined, ghost>>

batchVars == <<plan, attempt, strays, sibling, combined>>

NewInventory == [preExisting |-> {}, createdBy |-> [n \in Names |-> "nobody"], prev |-> "nobody"]
NewBox == [agent |-> FALSE, helper |-> "none", owner |-> "host", failed |-> FALSE]

(* maker: who first made an entry.  seen: every inventory of this batch    *)
(* succeeded.  alone: NoCollision, when the task began.  refused: the      *)
(* clean-up calls docker refused.  broken: this attempt was killed or the  *)
(* disk refused one of its writes.  ledger: per invocation and task, what  *)
(* its last record said when its rows were written.  torn: the invocations *)
(* with a rows.json that was not written to its end. *)
NoMaker == [n \in Names |-> "nobody"]
NewGhost ==
  [maker |-> NoMaker, seen |-> TRUE, alone |-> FALSE, refused |-> {}, broken |-> FALSE,
   ledger |-> << [t \in Tasks |-> "missing"] >>, torn |-> {}]

Here == Len(ghost.ledger)
Task == plan.tasks[Len(records) + 1]
Sandboxed(t) == plan.sandboxed /\ t \notin plan.exempt
SomeAmbient == \E i \in DOMAIN plan.tasks : ~Sandboxed(plan.tasks[i])
Produced == {n \in Names : inventory.createdBy[n] # "nobody"}

-----------------------------------------------------------------------------
(***************************************************************************)
(* The start of a batch: stray containers are swept, what is in the home   *)
(* already is remembered.                                                  *)
(***************************************************************************)
(* A listing of the operator's home; it may fail, and yields nothing then. *)
InventoryHome(listed, fingerprintOnly) ==
  IF listed THEN build_inventory_rules(home, Baseline, fingerprintOnly) ELSE NoRules

Sweeps == plan.owner # "" \/ ~plan.parallel

(* Distortion of SweepsName: an unowned sweep of a parallel batch. *)
SweepsNameFault(owner) == owner = plan.owner \/ plan.owner = ""

SweepsName(owner) == Sweeps /\ (owner = plan.owner \/ plan.owner = "")

StartAttempt ==
  /\ pc = "start"
  /\ \E reaped \in BOOLEAN :
       /\ strays' = IF plan.sandboxed /\ reaped
                    THEN {c \in strays : ~SweepsName(plan.owner)} ELSE strays
       /\ sibling' = IF plan.sandboxed /\ reaped /\ SweepsName(plan.sibling)
                     THEN FALSE ELSE sibling
       /\ \E listed \in BOOLEAN :
            /\ inventory' = [NewInventory EXCEPT !.preExisting =
                               IF SomeAmbient THEN InventoryHome(listed, Names).paths ELSE {}]
            /\ ghost' = [ghost EXCEPT !.seen = listed, !.broken = FALSE,
                           !.refused = IF reaped THEN {} ELSE {"sweep"},
                           !.maker = [n \in Names |-> IF home[n] = "none" THEN "nobody"
                                                      ELSE "before"]]
  /\ attempt' = attempt + 1
  /\ files' = Append(files, [results |-> "none", written |-> "none", rows |-> <<>>])
  /\ records' = <<>>
  /\ pc' = "task"
  /\ UNCHANGED <<plan, home, rules, box, combined>>

(* Nothing that carries this task's own lines was first made by anyone     *)
(* else, nor what carries its inputs', but for the inputs themselves, and  *)
(* no leftover carries the lines of the environment.                       *)
NoCollision ==
  \A n \in Names :
    /\ home[n] = Task => ghost.maker[n] = Task
    /\ home[n] = "input" => \/ ghost.maker[n] = Task
                            \/ ghost.maker[n] = "before" /\ n \in plan.delivered[Task]
    /\ n \notin Baseline => \A b \in Baseline : home[b] = home[n] => home[b] = "none"

(* An ambient task: attribute what appeared since the task before it, then *)
(* take its rules, each from a listing of its own. *)
BeginTask ==
  /\ pc = "task" /\ Len(records) < Len(plan.tasks)
  /\ pc' = "provision"
  /\ IF Sandboxed(Task)
     THEN rules' = NoRules /\ UNCHANGED <<inventory, ghost>>
     ELSE \E compared, listed \in BOOLEAN :
            LET present == IF inventory.prev = "nobody" THEN {}
                           ELSE InventoryHome(compared, {}).paths
                charged == Attributed(inventory.createdBy, present,
                                      inventory.preExisting, inventory.prev) IN
            /\ inventory' = [inventory EXCEPT !.createdBy = charged]
            /\ rules' = InventoryHome(listed,
                          Fingerprintable(charged, inventory.preExisting, Task))
            /\ ghost' = [ghost EXCEPT !.seen = @ /\ compared /\ listed, !.alone = NoCollision]
  /\ UNCHANGED <<batchVars, home, records, box, files>>

(* What a record says of its turn, and what it should say. *)
Record(status, must, never) ==
  [task |-> Task, report |-> status, must |-> must, never |-> never,
   outcome |-> "none"]

Finish(record) ==
  /\ records' = Append(records, record)
  /\ rules' = NoRules
  /\ inventory' = [inventory EXCEPT !.prev = record.task]
  /\ pc' = "task"

Provision ==
  /\ pc = "provision"
  /\ home' = [n \in Names |-> IF n \in plan.delivered[Task] THEN "input" ELSE home[n]]
  /\ rules' = drop_fingerprints_matching_inputs(rules, home', plan.delivered[Task], Produced)
  /\ ghost' = [ghost EXCEPT !.refused = @ \cap {"sweep"}, !.maker =
                 [n \in Names |-> IF n \in plan.delivered[Task] /\ @[n] = "nobody"
                                  THEN Task ELSE @[n]]]
  /\ pc' = IF ~Sandboxed(Task) THEN "agent" ELSE IF plan.remap THEN "chown" ELSE "launch"
  /\ box' = NewBox
  /\ UNCHANGED <<batchVars, inventory, records, files>>

(* A task that fails before its agent's turn leaves a failed record; one  *)
(* whose agent errors leaves an empty transcript: neither has a score. *)
RunFails ==
  /\ pc \in {"provision", "agent"}
  /\ Finish(Record(scan_record(rules, NoTurn), FALSE, TRUE))
  /\ UNCHANGED <<batchVars, home, box, files, ghost>>

(***************************************************************************)
(* The agent's turn in the operator's home: it references and reads        *)
(* entries, perhaps by a command that never spells their names, writes     *)
(* entries of its own and may look at what it wrote.                       *)
(***************************************************************************)
TurnOf(reads, hidden, writes, echo) ==
  [paths |-> (IF hidden THEN {} ELSE reads) \cup writes,
   shown |-> {home[n] : n \in reads} \cup (IF echo /\ writes # {} THEN {Task} ELSE {})]

(* The reads and the writes nobody could blame a run for. *)
Authorized(reads, writes) ==
  reads \subseteq plan.delivered[Task] \cup Baseline /\ writes \subseteq plan.named[Task]

(* A read of a leftover that must not pass: the prompt does not name the   *)
(* entry, or another run's lines came out of it. *)
ReadsLeftover(reads, hidden) ==
  \E n \in reads \ (plan.delivered[Task] \cup Baseline) :
    \/ ~hidden /\ n \notin plan.named[Task]
    \/ ghost.maker[n] # Task /\ home[n] # "input"

TurnRecord(reads, hidden, writes, echo) ==
  Record(scan_record(filter_rules_for_prompt(rules, plan.named[Task]),
                     TurnOf(reads, hidden, writes, echo)),
         ghost.seen /\ ReadsLeftover(reads, hidden),
         Authorized(reads, writes) /\ ghost.seen /\ ghost.alone)

AmbientTurn ==
  /\ pc = "agent"
  /\ \E reads \in SUBSET {n \in Names : home[n] # "none"}, hidden, echo \in BOOLEAN,
        writes \in SUBSET (Names \ Baseline) :
       /\ Finish(TurnRecord(reads, hidden, writes, echo))
       /\ home' = [n \in Names |-> IF n \in writes THEN Task ELSE home[n]]
       /\ ghost' = [ghost EXCEPT !.maker =
                      [n \in Names |-> IF n \in writes /\ @[n] = "nobody"
                                       THEN Task ELSE @[n]]]
  /\ UNCHANGED <<batchVars, box, files>>

-----------------------------------------------------------------------------
(***************************************************************************)
(* The sandbox executor.  Where the host's ids are too large for docker, a *)
(* helper container hands the workspace to the remapped id first and back  *)
(* last; a helper's client that times out leaves the helper running.       *)
(***************************************************************************)
boxVars == <<batchVars, home, inventory, rules, records, files>>

ChownBeforeRemap ==
  /\ pc = "chown"
  /\ \/ pc' = "launch" /\ box' = [box EXCEPT !.owner = "remap"]
     \/ pc' = "kill" /\ \E helper \in {"none", "before"} :
          box' = [box EXCEPT !.owner = "mixed", !.helper = helper, !.failed = TRUE]
  /\ UNCHANGED <<boxVars, ghost>>

(* docker run: the agent ends, docker cannot start it, or the client times *)
(* out and the container lives on. *)
Launch ==
  /\ pc = "launch"
  /\ pc' = "kill"
  /\ \E end \in {"done", "refused", "timeout"} :
       box' = [box EXCEPT !.agent = end = "timeout", !.failed = end # "done"]
  /\ UNCHANGED <<boxVars, ghost>>

KillAgent ==
  /\ pc = "kill"
  /\ pc' = IF plan.remap THEN "kill_helper" ELSE "returned"
  /\ \/ box' = [box EXCEPT !.agent = FALSE] /\ UNCHANGED ghost
     \/ ghost' = [ghost EXCEPT !.refused = @ \cup {"kill"}] /\ UNCHANGED box
  /\ UNCHANGED boxVars

(* Distortion of AfterKill: the helper that timed out is left alone. *)
AfterKillFault(helper) == helper

AfterKill(helper) == "none"

KillHelper ==
  /\ pc = "kill_helper"
  /\ pc' = "handback"
  /\ \/ box' = [box EXCEPT !.helper = AfterKill(@)] /\ UNCHANGED ghost
     \/ ghost' = [ghost EXCEPT !.refused = @ \cup {"kill_helper"}] /\ UNCHANGED box
  /\ UNCHANGED boxVars

(* The second helper has the name of the first, which must be gone. *)
ChownAfterRemap ==
  /\ pc = "handback"
  /\ pc' = "returned"
  /\ \/ /\ box.helper = "none"
        /\ box' = [box EXCEPT !.owner = "host"]
        /\ UNCHANGED ghost
     \/ box.helper # "none" /\ UNCHANGED <<box, ghost>>
     \/ /\ \E helper \in {"none", "after"} :
             box' = [box EXCEPT !.owner = "mixed",
                                !.helper = IF @ = "none" THEN helper ELSE @]
        /\ ghost' = [ghost EXCEPT !.refused = @ \cup {"handback"}]
  /\ UNCHANGED boxVars

(* Meanwhile: a helper comes to its end; an agent nobody killed writes. *)
HelperEnds ==
  /\ box.helper # "none"
  /\ pc \in {"kill", "kill_helper", "handback", "returned"}
  /\ box' = [box EXCEPT !.helper = "none",
                        !.owner = IF box.helper = "before" THEN "remap" ELSE "host"]
  /\ UNCHANGED <<boxVars, pc, ghost>>

StrayAgentWrites ==
  /\ plan.remap /\ box.agent /\ box.owner = "host" /\ pc = "returned"
  /\ box' = [box EXCEPT !.owner = "mixed"]
  /\ UNCHANGED <<boxVars, pc, ghost>>

(* A sandboxed agent never sees the operator's home. *)
SandboxReturns ==
  /\ pc = "returned"
  /\ Finish(Record(IF box.failed THEN "no_data" ELSE "clean", FALSE, TRUE))
  /\ box' = NewBox
  /\ strays' = strays \cup (IF box.agent THEN {"agent"} ELSE {})
                      \cup (IF box.helper # "none" THEN {"helper"} ELSE {})
  /\ UNCHANGED <<plan, attempt, sibling, combined, home, files, ghost>>

-----------------------------------------------------------------------------
(***************************************************************************)
(* The end of a batch: annotate, write, score, write again, rows.  A write *)
(* truncates its file first.                                               *)
(***************************************************************************)
tailVars == <<batchVars, home, inventory, rules, box>>

OnDisk(file, value) == [files EXCEPT ![Len(files)][file] = value]
Broken == [ghost EXCEPT !.broken = TRUE]

(* Detection may raise on a record, which then has no report.  The loop's  *)
(* own variables have served their turn, and so has what was expected. *)
Annotate ==
  /\ pc = "task" /\ Len(records) = Len(plan.tasks)
  /\ pc' = "write"
  /\ \E raised \in SUBSET {i \in DOMAIN records : records[i].report # "no_data"} :
       records' = [i \in DOMAIN records |->
                     [records[i] EXCEPT !.report = IF i \in raised THEN "none" ELSE @,
                                        !.must = FALSE, !.never = FALSE]]
  /\ inventory' = NewInventory
  /\ ghost' = [ghost EXCEPT !.maker = NoMaker, !.alone = FALSE]
  /\ UNCHANGED <<batchVars, home, rules, box, files>>

(* A failure here ends the process: nothing is on record yet. *)
WriteResults ==
  /\ pc = "write"
  /\ \/ pc' = "score" /\ files' = OnDisk("results", "raw") /\ UNCHANGED ghost
     \/ pc' = "ended" /\ files' = OnDisk("results", "torn") /\ ghost' = Broken
  /\ UNCHANGED <<tailVars, records>>

(* Records are scored in order; what a flagged one gets is zero. *)
Scores(record) ==
  IF record.report = "no_data" THEN {"none"}
  ELSE IF record.report = "flagged" THEN {"fail"} ELSE {"pass", "fail"}

(* Distortion of AfterScoring: a scoring error ends the batch. *)
AfterScoringFault(scored) == IF scored = Len(records) THEN "rewrite" ELSE "ended"

AfterScoring(scored) == IF scored = Len(records) THEN "rewrite" ELSE "rows"

Score ==
  /\ pc = "score"
  /\ \E scored \in 0..Len(records) :
       /\ pc' = AfterScoring(scored)
       /\ \E outcomes \in [DOMAIN records -> {"none", "pass", "fail"}] :
            /\ \A i \in DOMAIN records :
                 outcomes[i] \in IF i <= scored THEN Scores(records[i]) ELSE {"none"}
            /\ records' = [i \in DOMAIN records |->
                             [records[i] EXCEPT !.outcome = outcomes[i]]]
  /\ UNCHANGED <<tailVars, files, ghost>>

RewriteResults ==
  /\ pc = "rewrite"
  /\ pc' = "rows"
  /\ \/ files' = OnDisk("results", "scored") /\ UNCHANGED ghost
     \/ files' = OnDisk("results", "torn") /\ ghost' = Broken
  /\ UNCHANGED <<tailVars, records>>

BuildRows ==
  [i \in DOMAIN records |->
     [task |-> records[i].task, t |-> attempt, outcome |-> records[i].outcome]]

LastRecord(t) == CHOOSE i \in DOMAIN records :
  /\ records[i].task = t
  /\ \A j \in DOMAIN records : records[j].task = t => j <= i

WriteRows ==
  /\ pc = "rows"
  /\ pc' = "ended"
  /\ \/ /\ files' = [files EXCEPT ![Len(files)].rows = BuildRows,
                                  ![Len(files)].written = "whole"]
        /\ ghost' = [ghost EXCEPT !.ledger[Here] =
             [t \in Tasks |-> IF \E i \in DOMAIN records : records[i].task = t
                              THEN records[LastRecord(t)].outcome ELSE @[t]]]
     \/ /\ files' = OnDisk("written", "torn")
        /\ ghost' = [Broken EXCEPT !.torn = @ \cup {Here}]
  /\ UNCHANGED <<tailVars, records>>

-----------------------------------------------------------------------------
(* What the step the process is killed in may have started. *)
MayBeRunning == IF pc = "launch" THEN {"agent"}
                ELSE IF pc \in {"chown", "handback"} THEN {"helper"} ELSE {}

Kill ==
  /\ pc \notin {"start", "ended", "done", "summary"}
  /\ pc' = "ended"
  /\ \E left \in SUBSET MayBeRunning :
       strays' = strays \cup left \cup (IF box.agent THEN {"agent"} ELSE {})
                        \cup (IF box.helper # "none" THEN {"helper"} ELSE {})
  /\ box' = NewBox
  /\ \E during \in BOOLEAN :
       /\ files' = IF during /\ pc \in {"write", "rewrite"} THEN OnDisk("results", "torn")
                   ELSE IF during /\ pc = "rows" THEN OnDisk("written", "torn")
                   ELSE files
       /\ ghost' = [Broken EXCEPT !.maker = NoMaker, !.alone = FALSE,
                                  !.torn = IF during /\ pc = "rows" THEN @ \cup {Here} ELSE @]
  /\ rules' = NoRules
  /\ inventory' = NewInventory
  /\ records' = <<>>
  /\ UNCHANGED <<plan, attempt, sibling, combined, home>>

Retry ==
  /\ pc = "ended" /\ attempt < plan.attempts
  /\ pc' = "start"
  /\ UNCHANGED <<tailVars, records, files, ghost>>

(* aggregate over the attempts of one invocation: a torn rows.json, or none *)
(* at all, and it raises. *)
Aggregate ==
  /\ pc = "ended"
  /\ LET torn == \E i \in DOMAIN files : files[i].written = "torn"
         rows == load_rows([i \in DOMAIN files |-> files[i].rows]) IN
     combined' = Append(combined, IF torn THEN {} ELSE dedupe_latest(rows))
  /\ pc' = IF Here < plan.invocations THEN "start" ELSE "summary"
  /\ IF Here < plan.invocations
     THEN /\ attempt' = 0
          /\ files' = <<>>
          /\ ghost' = [ghost EXCEPT !.ledger = Append(@, [t \in Tasks |-> "missing"])]
     ELSE UNCHANGED <<attempt, files, ghost>>
  /\ records' = <<>>
  /\ UNCHANGED <<plan, home, inventory, rules, box, strays, sibling>>

(* passk over the aggregated rows of the invocations that have them. *)
AggregatedRows(i, t) == {r \in combined[i] : r.task = t}

OutcomesOf(t) ==
  [i \in {j \in DOMAIN combined : AggregatedRows(j, t) # {}} |->
     (CHOOSE r \in AggregatedRows(i, t) : TRUE).outcome]

Summary(t) == TaskSummary(OutcomesOf(t))

Done == pc = "summary" /\ UNCHANGED vars

Init ==
  /\ pc = "start"
  /\ plan \in Plans
  /\ home \in plan.homes
  /\ attempt = 0
  /\ inventory = NewInventory
  /\ rules = NoRules
  /\ records = <<>>
  /\ box = NewBox
  /\ strays = {}
  /\ sibling = (plan.sibling # "none")
  /\ files = <<>>
  /\ combined = <<>>
  /\ ghost = NewGhost

Next ==
  \/ StartAttempt \/ BeginTask \/ Provision \/ RunFails \/ AmbientTurn
  \/ ChownBeforeRemap \/ Launch \/ KillAgent \/ KillHelper \/ ChownAfterRemap
  \/ HelperEnds \/ StrayAgentWrites \/ SandboxReturns
  \/ Annotate \/ WriteResults \/ Score \/ RewriteResults \/ WriteRows
  \/ Kill \/ Retry \/ Aggregate \/ Done

Spec == Init /\ [][Next]_vars

-----------------------------------------------------------------------------
(* A sandboxed task ran right after an earlier turn of the i-th task. *)
Overtaken(i) ==
  \E a \in 1..(i - 1) : plan.tasks[a] = plan.tasks[i] /\ Sandboxed(plan.tasks[a + 1])

(* Detection is fair, where every inventory of the batch succeeded.        *)
(* Whoever reads what another run left behind, under a name its prompt     *)
(* does not give or with that run's lines, is flagged, also where the      *)
(* prompt names the entry and also for what an earlier task of the same    *)
(* batch left.  An honest run is not, a repeat of an earlier task of the   *)
(* batch included, where nobody else first made an entry with its own      *)
(* lines (NoCollision) and no sandboxed task came right after an earlier   *)
(* turn of its task; of that case see HonestRunsPass (default.py:977-1012, *)
(* inventory.py:241-345).                                                  *)
FlagsAreDeserved ==
  \A i \in DOMAIN records :
    /\ records[i].must => records[i].report = "flagged"
    /\ records[i].never /\ ~Overtaken(i) => records[i].report # "flagged"

(* What was executed survives what goes wrong after it: whether or not the *)
(* scoring raised, an attempt that was not killed and whose writes the     *)
(* disk took leaves whole results and one row for every task of the batch, *)
(* in order (default.py:882-901).                                          *)
ResultsOutliveScoring ==
  pc = "ended" /\ ~ghost.broken =>
    LET file == files[Len(files)] IN
    /\ file.results \in {"raw", "scored"}
    /\ file.written = "whole"
    /\ [i \in DOMAIN file.rows |-> file.rows[i].task] = plan.tasks

(* A task's pass@k is over its invocations, one attempt each: the last     *)
(* record of the last attempt that wrote rows, whatever earlier attempts   *)
(* said; and the estimators are the shares of the k-subsets of those       *)
(* attempts that hold a pass, or hold nothing else (aggregate.py:129-154,  *)
(* passk.py:67-206).                                                       *)
LatestAttemptCounts ==
  pc = "summary" =>
    \A t \in Tasks :
      LET kept == {i \in DOMAIN ghost.ledger \ ghost.torn :
                     ghost.ledger[i][t] \notin {"missing", "none"}}
          passed == {i \in kept : ghost.ledger[i][t] = "pass"}
          n == Summary(t).n
          c == Summary(t).c IN
      /\ n = Cardinality(kept) /\ c = Cardinality(passed)
      /\ \A k \in 1..MaxK : n >= k =>
           LET draws == kSubset(k, kept) IN
           /\ pass_at_k(n, c, k) =
                <<Cardinality({d \in draws : d \cap passed # {}}), Cardinality(draws)>>
           /\ pass_pow_k(n, c, k) =
                <<Cardinality({d \in draws : d \subseteq passed}), Cardinality(draws)>>

(* Sandboxes are cleaned up and nothing else is: a sweep never takes the   *)
(* container of a harness beside this one, and takes every stray of this   *)
(* one's earlier attempts; when the executor returns and docker refused    *)
(* none of its clean-up calls, no container of the run is left and the     *)
(* workspace is the host's again, also after a helper that outlived its    *)
(* own time limit (sandbox.py:529-613, 671-701).                           *)
SandboxIsLeftClean ==
  /\ plan.sibling # "none" => sibling
  /\ pc = "task" /\ records = <<>> /\ plan.sandboxed /\ Sweeps
       /\ "sweep" \notin ghost.refused => strays = {}
  /\ pc = "returned" /\ ghost.refused \subseteq {"sweep"} =>
       ~box.agent /\ box.helper = "none" /\ box.owner = "host"

-----------------------------------------------------------------------------
(* What a comment says and the code does not do.                           *)
(*                                                                         *)
(* "Mid-batch entries are attributed to the task that created them ... so  *)
(* an honest repeat is not flagged for its own deliverable"                *)
(* (_ambient_inventory_rules): also with a sandboxed task in between.      *)
HonestRunsPass ==
  \A i \in DOMAIN records : records[i].never => records[i].report # "flagged"

=============================================================================

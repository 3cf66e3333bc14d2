----------------------------- MODULE BatchProofs -----------------------------
(***************************************************************************)
(* Proofs about Batch, for any tasks, homes, plans, and numbers of         *)
(* attempts and invocations: what cheat detection flags, what survives the *)
(* end of an attempt, what a sandbox leaves behind, and which attempt of a *)
(* task counts.                                                            *)
(***************************************************************************)
EXTENDS Batch, FiniteSetTheorems, WellFoundedInduction, TLAPS

InBox   == {"chown", "launch", "kill", "kill_helper", "handback", "returned"}
Running == {"provision", "agent"} \cup InBox
InBatch == Running \cup {"task"}
AtTheEnd == {"write", "score", "rewrite", "rows"}

Outcomes == {"none", "pass", "fail"}
RecordSet == [task : Tasks, report : {"none", "no_data", "flagged", "clean"},
              must : BOOLEAN, never : BOOLEAN, outcome : Outcomes]
Row  == [task : Tasks, t : Nat, outcome : Outcomes]
File == [results : {"none", "raw", "scored", "torn"},
         written : {"none", "whole", "torn"}, rows : Seq(Row)]

Planned == {plan.tasks[i] : i \in DOMAIN plan.tasks}

-----------------------------------------------------------------------------
(* The parts of the invariant. *)

(* The types of what the batch reads on its way. *)
InventoryOK ==
  inventory \in [preExisting : SUBSET Names, createdBy : [Names -> Tasks \cup {"nobody"}],
                prev : Tasks \cup {"nobody"}]

GhostOK ==
  ghost \in [maker : [Names -> Tasks \cup {"nobody", "before"}], seen : BOOLEAN,
            alone : BOOLEAN, refused : SUBSET {"sweep", "kill", "kill_helper", "handback"},
            broken : BOOLEAN, ledger : {ghost.ledger}, torn : {ghost.torn}]

BoxOK ==
  box \in [agent : BOOLEAN, helper : {"none", "before", "after"},
          owner : {"host", "remap", "mixed"}, failed : BOOLEAN]

RulesOK == rules \in [paths : {rules.paths}, prints : {rules.prints}]

StateOK ==
  /\ plan \in Plans
  /\ pc \in InBatch \cup AtTheEnd \cup {"start", "ended", "summary"}
  /\ attempt \in Nat
  /\ DOMAIN home = Names
  /\ records \in Seq(RecordSet)
  /\ files \in Seq(File)
  /\ InventoryOK /\ GhostOK /\ BoxOK /\ RulesOK

(* The records are those of the first tasks of the plan, in its order. *)
RecordsFollowPlan ==
  /\ pc \in InBatch \cup AtTheEnd =>
       /\ Len(records) <= Len(plan.tasks)
       /\ \A i \in DOMAIN records : records[i].task = plan.tasks[i]
  /\ pc \in Running => Len(records) < Len(plan.tasks)
  /\ pc \in AtTheEnd => Len(records) = Len(plan.tasks)

(* The results on disk, as far as the end of the attempt has come. *)
ResultsSoFar ==
  /\ pc \in InBatch \cup AtTheEnd \cup {"ended"} => files # <<>>
  /\ pc \in {"score", "rewrite"} => files[Len(files)].results = "raw"
  /\ pc = "rows" /\ ~ghost.broken => files[Len(files)].results \in {"raw", "scored"}

(* The sandbox, as far as its executor has come. *)
BoxSoFar ==
  /\ pc \in InBox => Sandboxed(Task)
  /\ pc = "agent" => ~Sandboxed(Task)
  /\ pc \in {"chown", "kill_helper", "handback"} => plan.remap
  /\ pc = "chown" => box = NewBox
  /\ pc \in {"chown", "launch"} =>
       ~box.agent /\ box.helper = "none" /\ ghost.refused \subseteq {"sweep"}
  /\ pc = "launch" => box.owner = IF plan.remap THEN "remap" ELSE "host"
  /\ pc = "kill" /\ ~plan.remap => box.owner = "host" /\ box.helper = "none"
  /\ pc \in {"kill_helper", "handback", "returned"} /\ ghost.refused \subseteq {"sweep"} =>
       ~box.agent
  /\ pc \in {"handback", "returned"} /\ ghost.refused \subseteq {"sweep"} =>
       box.helper = "none"
  /\ pc = "returned" /\ ghost.refused \subseteq {"sweep"} => box.owner = "host"

(* Who made the entries of the home, what was remembered of the start of   *)
(* the batch, and who is charged with the rest: its maker, or a sandboxed  *)
(* task that ran in between, right after a turn of its maker. *)
MakersAreKnown ==
  pc \in InBatch => \A n \in Names : home[n] # "none" <=> ghost.maker[n] # "nobody"

StartIsRemembered ==
  pc \in InBatch /\ SomeAmbient /\ ghost.seen =>
    inventory.preExisting = {n \in Names : ghost.maker[n] = "before"} \ Baseline

Superseded(t) ==
  \E a \in 1..Len(records) : plan.tasks[a] = t /\ Sandboxed(plan.tasks[a + 1])

ChargedRightly(n, charged) ==
  \/ charged = ghost.maker[n]
  \/ Sandboxed(charged) /\ Superseded(ghost.maker[n])

ChargesAreRight ==
  pc \in InBatch /\ SomeAmbient /\ ghost.seen =>
    \A n \in Names : inventory.createdBy[n] # "nobody" =>
      /\ n \notin Baseline /\ ghost.maker[n] \in Tasks
      /\ inventory.createdBy[n] \in Planned /\ ChargedRightly(n, inventory.createdBy[n])

(* What nobody is charged with yet was made by the task that runs or has   *)
(* just run. *)
Uncharged(n) ==
  /\ n \notin Baseline /\ home[n] # "none"
  /\ ghost.maker[n] \in Tasks /\ inventory.createdBy[n] = "nobody"

LastToRun == IF pc = "task" THEN inventory.prev ELSE Task

ChargesAreComplete ==
  /\ pc = "task" =>
       /\ inventory.prev \in Planned \cup {"nobody"}
       /\ inventory.prev # "nobody" =>
            Len(records) # 0 /\ inventory.prev = plan.tasks[Len(records)]
  /\ pc \in InBatch /\ SomeAmbient /\ ghost.seen =>
       \A n \in Names : Uncharged(n) =>
         LastToRun # "nobody" /\ ChargedRightly(n, LastToRun)

(* An ambient task's rules cover every leftover that is not its input: by  *)
(* name, and by content where another run made it. *)
UnderRules == pc \in {"provision", "agent"} /\ ~Sandboxed(Task) /\ ghost.seen
Guarded    == {n \in Names : home[n] # "none"} \ (Baseline \cup plan.delivered[Task])

RulesCoverLeftovers ==
  UnderRules =>
    /\ Guarded \subseteq rules.paths /\ rules.paths \cap Baseline = {}
    /\ \A n \in Guarded : home[n] # "input" /\ ghost.maker[n] # Task =>
                            home[n] \in rules.prints

(* ... and nothing that an honest run may show. *)
RulesSpareTheHonest ==
  UnderRules /\ ghost.alone /\ ~Superseded(Task) =>
    /\ Task \notin rules.prints
    /\ \A b \in Baseline : home[b] # "none" => home[b] \notin rules.prints
    /\ pc = "provision" /\ "input" \in rules.prints => plan.delivered[Task] \ Produced # {}
    /\ pc = "agent" => /\ "input" \notin rules.prints
                       /\ \A n \in plan.delivered[Task] : home[n] = "input"

IInv ==
  /\ StateOK
  /\ RecordsFollowPlan
  /\ ResultsSoFar
  /\ BoxSoFar
  /\ MakersAreKnown
  /\ StartIsRemembered
  /\ ChargesAreRight
  /\ ChargesAreComplete
  /\ RulesCoverLeftovers
  /\ RulesSpareTheHonest
  /\ FlagsAreDeserved
  /\ ResultsOutliveScoring
  /\ SandboxIsLeftClean

-----------------------------------------------------------------------------
(* The invariant holds at the start. *)
LEMMA InitInv == Init => IInv
<1> SUFFICES ASSUME Init PROVE IInv
  OBVIOUS
<1>1. StateOK
  <2>1. plan \in Plans /\ pc = "start" /\ attempt \in Nat /\ DOMAIN home = Names
    BY PlansAssumption DEF Init
  <2>2. records \in Seq(RecordSet) /\ files \in Seq(File)
    BY DEF Init
  <2>3. InventoryOK BY DEF Init, NewInventory, InventoryOK
  <2>4. GhostOK BY DEF Init, NewGhost, NoMaker, GhostOK
  <2>5. RulesOK BY DEF Init, NoRules, RulesOK
  <2>6. BoxOK BY DEF Init, NewBox, BoxOK
  <2> QED BY <2>1, <2>2, <2>3, <2>4, <2>5, <2>6 DEF StateOK
<1>2. RecordsFollowPlan /\ ResultsSoFar /\ BoxSoFar
  BY DEF Init, RecordsFollowPlan, ResultsSoFar, BoxSoFar, InBatch, Running, InBox, AtTheEnd
<1>3. MakersAreKnown /\ StartIsRemembered /\ ChargesAreRight /\ ChargesAreComplete
  BY DEF Init, MakersAreKnown, StartIsRemembered, ChargesAreRight, ChargesAreComplete,
     InBatch, Running, InBox
<1>4. RulesCoverLeftovers /\ RulesSpareTheHonest
  BY DEF Init, RulesCoverLeftovers, RulesSpareTheHonest, UnderRules
<1>5. FlagsAreDeserved /\ ResultsOutliveScoring
  BY DEF Init, FlagsAreDeserved, ResultsOutliveScoring
<1>6. SandboxIsLeftClean
  <2>1. plan.sibling # "none" => sibling
    BY Zenon DEF Init
  <2> QED BY <2>1 DEF Init, SandboxIsLeftClean
<1> QED BY <1>1, <1>2, <1>3, <1>4, <1>5, <1>6 DEF IInv

-----------------------------------------------------------------------------
(* Types. *)

(* A function over the places of a sequence is a sequence as long. *)
LEMMA OverPlaces ==
  ASSUME NEW S, NEW T, NEW s \in Seq(S), NEW f \in [DOMAIN s -> T]
  PROVE  f \in Seq(T) /\ Len(f) = Len(s) /\ DOMAIN f = DOMAIN s
<1>1. DOMAIN s = 1 .. Len(s) /\ Len(s) \in Nat
  OBVIOUS
<1> QED BY <1>1

(* What was scanned is one of the reports there are. *)
LEMMA ScanType ==
  ASSUME NEW r, NEW turn PROVE scan_record(r, turn) \in {"no_data", "flagged", "clean"}
  BY DEF scan_record

(* A finished task leaves a record. *)
LEMMA FinishType ==
  ASSUME StateOK, NEW record \in RecordSet, Finish(record)
  PROVE  records' \in Seq(RecordSet) /\ InventoryOK' /\ RulesOK' /\ pc' = "task"
<1>1. record.task \in Tasks
  BY DEF RecordSet
<1>2. records' = Append(records, record) /\ records \in Seq(RecordSet)
  BY DEF StateOK, Finish
<1>3. inventory' = [inventory EXCEPT !.prev = record.task] /\ rules' = NoRules /\ pc' = "task"
  BY DEF Finish
<1>4. records' \in Seq(RecordSet)
  BY <1>2
<1>5. RulesOK'
  BY <1>3 DEF NoRules, RulesOK
<1>6. InventoryOK'
  BY <1>1, <1>3 DEF StateOK, InventoryOK
<1> QED BY <1>3, <1>4, <1>5, <1>6

(* The task whose turn it is. *)
LEMMA TaskType ==
  ASSUME StateOK, Len(records) < Len(plan.tasks)
  PROVE  Task \in Tasks /\ Task \in Planned
<1>1. plan.tasks \in Seq(Tasks)
  BY PlansAssumption DEF StateOK
<1>2. Len(records) + 1 \in 1 .. Len(plan.tasks)
  BY <1>1 DEF StateOK
<1> QED BY <1>1, <1>2 DEF Task, Planned

(* The sandbox, the plan and the count of attempts keep their types. *)
LEMMA BoxStep == StateOK /\ [Next]_vars => BoxOK' /\ plan' \in Plans /\ attempt' \in Nat
<1> SUFFICES ASSUME StateOK, [Next]_vars
             PROVE  BoxOK' /\ plan' \in Plans /\ attempt' \in Nat
  OBVIOUS
<1>1. CASE StartAttempt
  BY <1>1 DEF StartAttempt, StateOK, BoxOK
<1>2. CASE BeginTask \/ RunFails \/ AmbientTurn \/ Annotate \/ WriteResults \/ Score
           \/ RewriteResults \/ WriteRows \/ Retry \/ Done \/ UNCHANGED vars
  BY <1>2 DEF BeginTask, RunFails, AmbientTurn, Annotate, WriteResults, Score,
     RewriteResults, WriteRows, Retry, Done, StateOK, BoxOK, batchVars, tailVars, vars
<1>3. CASE Provision
  BY <1>3 DEF Provision, StateOK, BoxOK, batchVars, NewBox
<1>4. CASE ChownBeforeRemap \/ Launch \/ KillAgent \/ KillHelper \/ ChownAfterRemap
           \/ HelperEnds \/ StrayAgentWrites
  BY <1>4 DEF ChownBeforeRemap, Launch, KillAgent, KillHelper, ChownAfterRemap, HelperEnds,
     StrayAgentWrites, StateOK, BoxOK, boxVars, batchVars, AfterKill
<1>5. CASE SandboxReturns \/ Kill
  <2>1. box' = NewBox /\ plan' = plan /\ attempt' = attempt
    BY <1>5, Zenon DEF SandboxReturns, Kill
  <2> QED BY <2>1 DEF StateOK, BoxOK, NewBox
<1>6. CASE Aggregate
  BY <1>6 DEF Aggregate, StateOK, BoxOK
<1> QED BY <1>1, <1>2, <1>3, <1>4, <1>5, <1>6 DEF Next

(* So do the rules and the home. *)
LEMMA RulesStep == StateOK /\ [Next]_vars => RulesOK' /\ DOMAIN home' = Names
<1> SUFFICES ASSUME StateOK, [Next]_vars PROVE RulesOK' /\ DOMAIN home' = Names
  OBVIOUS
<1>1. CASE StartAttempt \/ Annotate \/ WriteResults \/ Score \/ RewriteResults \/ WriteRows
           \/ Retry \/ Aggregate \/ Done \/ UNCHANGED vars
  BY <1>1 DEF StartAttempt, Annotate, WriteResults, Score, RewriteResults, WriteRows, Retry,
     Aggregate, Done, StateOK, RulesOK, tailVars, batchVars, vars
<1>2. CASE ChownBeforeRemap \/ Launch \/ KillAgent \/ KillHelper \/ ChownAfterRemap
           \/ HelperEnds \/ StrayAgentWrites
  BY <1>2 DEF ChownBeforeRemap, Launch, KillAgent, KillHelper, ChownAfterRemap, HelperEnds,
     StrayAgentWrites, StateOK, RulesOK, boxVars, batchVars
<1>3. CASE BeginTask
  <2>1. home' = home
    BY <1>3 DEF BeginTask
  <2>2. CASE Sandboxed(Task)
    BY <1>3, <2>1, <2>2 DEF BeginTask, StateOK, RulesOK, NoRules
  <2>3. CASE ~Sandboxed(Task)
    <3>1. PICK listed, named : rules' = InventoryHome(listed, named)
      BY <1>3, <2>3 DEF BeginTask
    <3> QED BY <2>1, <3>1 DEF StateOK, RulesOK, NoRules, InventoryHome, build_inventory_rules
  <2> QED BY <2>2, <2>3
<1>4. CASE Provision
  BY <1>4 DEF Provision, StateOK, RulesOK, drop_fingerprints_matching_inputs
<1>5. CASE RunFails \/ SandboxReturns \/ Kill
  BY <1>5 DEF RunFails, SandboxReturns, Kill, Finish, StateOK, RulesOK, NoRules, batchVars
<1>6. CASE AmbientTurn
  BY <1>6 DEF AmbientTurn, Finish, StateOK, RulesOK, NoRules
<1> QED BY <1>1, <1>2, <1>3, <1>4, <1>5, <1>6 DEF Next

(* Who is charged with an entry was running in this batch. *)
LEMMA AttributedType ==
  ASSUME StateOK, NEW present
  PROVE  Attributed(inventory.createdBy, present, inventory.preExisting, inventory.prev)
           \in [Names -> Tasks \cup {"nobody"}]
  BY DEF StateOK, InventoryOK, Attributed

LEMMA InventoryStep == StateOK /\ RecordsFollowPlan /\ [Next]_vars => InventoryOK'
<1> SUFFICES ASSUME StateOK, RecordsFollowPlan, [Next]_vars PROVE InventoryOK'
  OBVIOUS
<1>0. InventoryOK
  BY DEF StateOK
<1>1. CASE StartAttempt
  <2>1. PICK listed \in BOOLEAN :
          inventory' = [NewInventory EXCEPT !.preExisting =
                          IF SomeAmbient THEN InventoryHome(listed, Names).paths ELSE {}]
    BY <1>1 DEF StartAttempt
  <2>2. InventoryHome(listed, Names).paths \subseteq Names
    BY DEF InventoryHome, build_inventory_rules, Leftovers, NoRules, StateOK
  <2> QED BY <2>1, <2>2 DEF NewInventory, InventoryOK
<1>2. CASE Provision \/ WriteResults \/ Score \/ RewriteResults \/ WriteRows
           \/ Retry \/ Aggregate \/ Done \/ UNCHANGED vars
  BY <1>0, <1>2 DEF Provision, WriteResults, Score, RewriteResults, WriteRows, Retry,
     Aggregate, Done, InventoryOK, tailVars, batchVars, vars
<1>3. CASE ChownBeforeRemap \/ Launch \/ KillAgent \/ KillHelper \/ ChownAfterRemap
           \/ HelperEnds \/ StrayAgentWrites
  BY <1>0, <1>3 DEF ChownBeforeRemap, Launch, KillAgent, KillHelper, ChownAfterRemap,
     HelperEnds, StrayAgentWrites, InventoryOK, boxVars, batchVars
<1>4. CASE BeginTask
  <2>1. CASE Sandboxed(Task)
    BY <1>0, <1>4, <2>1 DEF BeginTask, InventoryOK
  <2>2. CASE ~Sandboxed(Task)
    <3>1. PICK present :
            inventory' = [inventory EXCEPT !.createdBy =
              Attributed(inventory.createdBy, present, inventory.preExisting, inventory.prev)]
      BY <1>4, <2>2 DEF BeginTask
    <3> QED BY <1>0, <3>1, AttributedType DEF InventoryOK
  <2> QED BY <2>1, <2>2
<1>5. CASE RunFails \/ SandboxReturns \/ AmbientTurn
  <2>1. Task \in Tasks
    BY <1>5, TaskType DEF RunFails, SandboxReturns, AmbientTurn, RecordsFollowPlan, Running, InBox
  <2>2. \E status, must, never : inventory' = [inventory EXCEPT !.prev =
                                   Record(status, must, never).task]
    <3>1. CASE RunFails BY <3>1, Zenon DEF RunFails, Finish
    <3>2. CASE SandboxReturns BY <3>2, Zenon DEF SandboxReturns, Finish
    <3>3. CASE AmbientTurn
      <4>1. PICK reads, hidden, writes, echo : Finish(TurnRecord(reads, hidden, writes, echo))
        BY <3>3 DEF AmbientTurn
      <4> QED BY <4>1, Zenon DEF Finish, TurnRecord
    <3> QED BY <1>5, <3>1, <3>2, <3>3
  <2> QED BY <1>0, <2>1, <2>2 DEF InventoryOK, Record
<1>6. CASE Annotate \/ Kill
  <2>1. inventory' = NewInventory
    BY <1>6, Zenon DEF Annotate, Kill
  <2> QED BY <2>1 DEF NewInventory, InventoryOK
<1> QED BY <1>1, <1>2, <1>3, <1>4, <1>5, <1>6 DEF Next

(* The history keeps its type. *)
LEMMA GhostStep == StateOK /\ RecordsFollowPlan /\ [Next]_vars => GhostOK'
<1> SUFFICES ASSUME StateOK, RecordsFollowPlan, [Next]_vars PROVE GhostOK'
  OBVIOUS
<1>0. GhostOK
  BY DEF StateOK
<1>1. CASE StartAttempt
  <2>1. PICK listed \in BOOLEAN, reaped \in BOOLEAN :
          ghost' = [ghost EXCEPT !.seen = listed, !.broken = FALSE,
                      !.refused = IF reaped THEN {} ELSE {"sweep"},
                      !.maker = [n \in Names |-> IF home[n] = "none" THEN "nobody"
                                                 ELSE "before"]]
    BY <1>1 DEF StartAttempt
  <2> QED BY <1>0, <2>1 DEF GhostOK
<1>2. CASE RunFails \/ ChownBeforeRemap \/ Launch \/ HelperEnds \/ StrayAgentWrites
           \/ SandboxReturns \/ Score \/ Retry \/ Done \/ UNCHANGED vars
  BY <1>0, <1>2 DEF RunFails, ChownBeforeRemap, Launch, HelperEnds, StrayAgentWrites,
     SandboxReturns, Score, Retry, Done, GhostOK, vars
<1>3. CASE BeginTask
  <2>1. NoCollision \in BOOLEAN
    BY DEF NoCollision
  <2> QED BY <1>0, <1>3, <2>1 DEF BeginTask, GhostOK
<1>4. CASE Provision
  <2>1. Task \in Tasks
    BY <1>4, TaskType DEF Provision, RecordsFollowPlan, Running, InBox
  <2>2. ghost' = [ghost EXCEPT !.refused = @ \cap {"sweep"}, !.maker =
                    [n \in Names |-> IF n \in plan.delivered[Task] /\ @[n] = "nobody"
                                     THEN Task ELSE @[n]]]
    BY <1>4 DEF Provision
  <2> QED BY <1>0, <2>1, <2>2 DEF GhostOK
<1>5. CASE AmbientTurn
  <2>1. Task \in Tasks
    BY <1>5, TaskType DEF AmbientTurn, RecordsFollowPlan, Running, InBox
  <2>2. PICK writes : ghost' = [ghost EXCEPT !.maker =
                      [n \in Names |-> IF n \in writes /\ @[n] = "nobody"
                                       THEN Task ELSE @[n]]]
    BY <1>5 DEF AmbientTurn
  <2> QED BY <1>0, <2>1, <2>2 DEF GhostOK
<1>6. CASE KillAgent \/ KillHelper \/ ChownAfterRemap
  BY <1>0, <1>6 DEF KillAgent, KillHelper, ChownAfterRemap, GhostOK
<1>7. CASE Annotate \/ WriteResults \/ RewriteResults
  <2>1. \/ ghost' = [ghost EXCEPT !.maker = NoMaker, !.alone = FALSE]
        \/ ghost' = ghost
        \/ ghost' = Broken
    BY <1>7, Zenon DEF Annotate, WriteResults, RewriteResults
  <2>2. CASE ghost' = [ghost EXCEPT !.maker = NoMaker, !.alone = FALSE]
    BY <1>0, <2>2 DEF GhostOK, NoMaker
  <2>3. CASE ghost' = ghost
    BY <1>0, <2>3 DEF GhostOK
  <2>4. CASE ghost' = Broken
    BY <1>0, <2>4 DEF GhostOK, Broken
  <2> QED BY <2>1, <2>2, <2>3, <2>4
<1>8. CASE WriteRows \/ Aggregate
  BY <1>0, <1>8 DEF WriteRows, Aggregate, GhostOK, Broken
<1>9. CASE Kill
  <2>1. PICK torn :
          ghost' = [Broken EXCEPT !.maker = NoMaker, !.alone = FALSE, !.torn = torn]
    BY <1>9 DEF Kill
  <2> QED BY <1>0, <2>1 DEF GhostOK, Broken, NoMaker
<1> QED BY <1>1, <1>2, <1>3, <1>4, <1>5, <1>6, <1>7, <1>8, <1>9 DEF Next

(* The records. *)
LEMMA RecordsStep ==
  StateOK /\ RecordsFollowPlan /\ [Next]_vars => records' \in Seq(RecordSet)
<1> SUFFICES ASSUME StateOK, RecordsFollowPlan, [Next]_vars
             PROVE  records' \in Seq(RecordSet)
  OBVIOUS
<1>1. CASE StartAttempt \/ Aggregate \/ Kill
  <2>1. records' = <<>>
    BY <1>1, Zenon DEF StartAttempt, Aggregate, Kill
  <2> QED BY <2>1
<1>2. CASE BeginTask \/ Provision \/ ChownBeforeRemap \/ Launch \/ KillAgent \/ KillHelper
           \/ ChownAfterRemap \/ HelperEnds \/ StrayAgentWrites \/ WriteResults
           \/ RewriteResults \/ WriteRows \/ Retry \/ Done \/ UNCHANGED vars
  <2>1. records' = records
    BY <1>2, Zenon DEF BeginTask, Provision, ChownBeforeRemap, Launch, KillAgent, KillHelper,
       ChownAfterRemap, HelperEnds, StrayAgentWrites, WriteResults, RewriteResults, WriteRows,
       Retry, Done, boxVars, vars
  <2> QED BY <2>1 DEF StateOK
<1>3. CASE RunFails \/ SandboxReturns \/ AmbientTurn
  <2>1. Task \in Tasks
    BY <1>3, TaskType DEF RunFails, SandboxReturns, AmbientTurn, RecordsFollowPlan, Running, InBox
  <2>2. \A status \in {"no_data", "flagged", "clean"}, must, never \in BOOLEAN :
          Record(status, must, never) \in RecordSet
    BY <2>1 DEF Record, RecordSet, Outcomes
  <2>3. CASE RunFails
    BY <2>2, <2>3, FinishType, ScanType DEF RunFails
  <2>4. CASE SandboxReturns
    BY <2>2, <2>4, FinishType DEF SandboxReturns
  <2>5. CASE AmbientTurn
    <3>1. PICK reads, hidden, writes, echo : Finish(TurnRecord(reads, hidden, writes, echo))
      BY <2>5 DEF AmbientTurn
    <3>2. /\ (ghost.seen /\ ReadsLeftover(reads, hidden)) \in BOOLEAN
          /\ (Authorized(reads, writes) /\ ghost.seen /\ ghost.alone) \in BOOLEAN
      OBVIOUS
    <3>3. TurnRecord(reads, hidden, writes, echo) \in RecordSet
      BY <2>2, <3>2, ScanType, Zenon DEF TurnRecord
    <3> QED BY <3>1, <3>3, FinishType
  <2> QED BY <1>3, <2>3, <2>4, <2>5
<1>4. CASE Annotate
  <2>1. PICK raised :
          records' = [i \in DOMAIN records |->
                        [records[i] EXCEPT !.report = IF i \in raised THEN "none" ELSE @,
                                           !.must = FALSE, !.never = FALSE]]
    BY <1>4 DEF Annotate
  <2>2. records \in Seq(RecordSet)
    BY DEF StateOK
  <2>3. \A i \in DOMAIN records : records[i] \in RecordSet
    BY <2>2
  <2>4. \A i \in DOMAIN records : records'[i] \in RecordSet
    BY <2>1, <2>3 DEF RecordSet
  <2>5. records' \in [DOMAIN records -> RecordSet]
    BY <2>1, <2>4
  <2> QED BY <2>2, <2>5, OverPlaces
<1>5. CASE Score
  <2>1. PICK outcomes \in [DOMAIN records -> Outcomes] :
          records' = [i \in DOMAIN records |-> [records[i] EXCEPT !.outcome = outcomes[i]]]
    BY <1>5 DEF Score, Outcomes
  <2>2. records \in Seq(RecordSet)
    BY DEF StateOK
  <2>3. \A i \in DOMAIN records : records[i] \in RecordSet
    BY <2>2
  <2>4. \A i \in DOMAIN records : records'[i] \in RecordSet
    BY <2>1, <2>3 DEF RecordSet
  <2>5. records' \in [DOMAIN records -> RecordSet]
    BY <2>1, <2>4
  <2> QED BY <2>2, <2>5, OverPlaces
<1> QED BY <1>1, <1>2, <1>3, <1>4, <1>5 DEF Next

(* A sequence whose last element is replaced. *)
LEMMA LastReplaced ==
  ASSUME NEW S, NEW s \in Seq(S), s # <<>>, NEW e \in S
  PROVE  /\ [s EXCEPT ![Len(s)] = e] \in Seq(S)
         /\ Len([s EXCEPT ![Len(s)] = e]) = Len(s)
         /\ [s EXCEPT ![Len(s)] = e][Len(s)] = e
<1>1. Len(s) \in DOMAIN s
  OBVIOUS
<1> QED BY <1>1

(* What is written to a file of the last attempt. *)
LEMMA OnDiskType ==
  ASSUME StateOK, files # <<>>
  PROVE  /\ \A v \in {"none", "raw", "scored", "torn"} :
              /\ OnDisk("results", v) \in Seq(File) /\ Len(OnDisk("results", v)) = Len(files)
              /\ OnDisk("results", v)[Len(files)] = [files[Len(files)] EXCEPT !.results = v]
         /\ \A v \in {"none", "whole", "torn"} :
              /\ OnDisk("written", v) \in Seq(File) /\ Len(OnDisk("written", v)) = Len(files)
              /\ OnDisk("written", v)[Len(files)] = [files[Len(files)] EXCEPT !.written = v]
<1>1. files \in Seq(File) /\ Len(files) \in DOMAIN files
  BY DEF StateOK
<1>2. files[Len(files)] \in File
  BY <1>1
<1>4. ASSUME NEW v \in {"none", "raw", "scored", "torn"}
      PROVE  /\ OnDisk("results", v) \in Seq(File) /\ Len(OnDisk("results", v)) = Len(files)
             /\ OnDisk("results", v)[Len(files)] = [files[Len(files)] EXCEPT !.results = v]
  <2>1. [files[Len(files)] EXCEPT !.results = v] \in File
    BY <1>2 DEF File
  <2>2. OnDisk("results", v) =
          [files EXCEPT ![Len(files)] = [files[Len(files)] EXCEPT !.results = v]]
    BY <1>1, <1>2 DEF File, OnDisk
  <2> QED BY <1>1, <2>1, <2>2, LastReplaced
<1>5. ASSUME NEW v \in {"none", "whole", "torn"}
      PROVE  /\ OnDisk("written", v) \in Seq(File) /\ Len(OnDisk("written", v)) = Len(files)
             /\ OnDisk("written", v)[Len(files)] = [files[Len(files)] EXCEPT !.written = v]
  <2>1. [files[Len(files)] EXCEPT !.written = v] \in File
    BY <1>2 DEF File
  <2>2. OnDisk("written", v) =
          [files EXCEPT ![Len(files)] = [files[Len(files)] EXCEPT !.written = v]]
    BY <1>1, <1>2 DEF File, OnDisk
  <2> QED BY <1>1, <2>1, <2>2, LastReplaced
<1> QED BY <1>4, <1>5

(* The rows of an attempt are those of its records, in their order. *)
LEMMA RowsType ==
  ASSUME StateOK
  PROVE  /\ BuildRows \in Seq(Row) /\ DOMAIN BuildRows = DOMAIN records
         /\ \A i \in DOMAIN records : BuildRows[i].task = records[i].task
<1>1. records \in Seq(RecordSet)
  BY DEF StateOK
<1>2. \A i \in DOMAIN records : records[i] \in RecordSet
  BY <1>1
<1>3. BuildRows \in [DOMAIN records -> Row]
  BY <1>2 DEF BuildRows, Row, RecordSet, StateOK
<1> QED BY <1>1, <1>3, OverPlaces DEF BuildRows

LEMMA FilesStep ==
  StateOK /\ RecordsFollowPlan /\ ResultsSoFar /\ [Next]_vars => files' \in Seq(File)
<1> SUFFICES ASSUME StateOK, RecordsFollowPlan, ResultsSoFar, [Next]_vars
             PROVE  files' \in Seq(File)
  OBVIOUS
<1>1. files \in Seq(File) /\ (pc \in InBatch \cup AtTheEnd => files # <<>>)
  BY DEF StateOK, ResultsSoFar
<1>2. CASE StartAttempt
  <2>1. [results |-> "none", written |-> "none", rows |-> <<>>] \in File
    BY DEF File
  <2> QED BY <1>1, <1>2, <2>1 DEF StartAttempt
<1>3. CASE BeginTask \/ Provision \/ RunFails \/ AmbientTurn \/ ChownBeforeRemap \/ Launch
           \/ KillAgent \/ KillHelper \/ ChownAfterRemap \/ HelperEnds \/ StrayAgentWrites
           \/ SandboxReturns \/ Annotate \/ Score \/ Retry \/ Done \/ UNCHANGED vars
  <2>1. files' = files
    BY <1>3, Zenon DEF BeginTask, Provision, RunFails, AmbientTurn, ChownBeforeRemap, Launch,
       KillAgent, KillHelper, ChownAfterRemap, HelperEnds, StrayAgentWrites, SandboxReturns,
       Annotate, Score, Retry, Done, boxVars, vars
  <2> QED BY <1>1, <2>1
<1>4. CASE WriteResults \/ RewriteResults
  <2>1. files # <<>>
    BY <1>1, <1>4 DEF WriteResults, RewriteResults, AtTheEnd
  <2> QED BY <1>4, <2>1, OnDiskType DEF WriteResults, RewriteResults
<1>5. CASE WriteRows
  <2>1. files # <<>>
    BY <1>1, <1>5 DEF WriteRows, AtTheEnd
  <2> DEFINE last == [files[Len(files)] EXCEPT !.rows = BuildRows, !.written = "whole"]
  <2>2. last \in File
    <3>1. files[Len(files)] \in File
      BY <1>1, <2>1
    <3> QED BY <3>1, RowsType DEF File
  <2>3. \/ files' = OnDisk("written", "torn")
        \/ files' = [files EXCEPT ![Len(files)] = last]
    BY <1>1, <1>5, <2>1 DEF WriteRows
  <2> HIDE DEF last
  <2>4. OnDisk("written", "torn") \in Seq(File)
    BY <2>1, OnDiskType
  <2>5. [files EXCEPT ![Len(files)] = last] \in Seq(File)
    BY <1>1, <2>1, <2>2, LastReplaced
  <2> QED BY <2>3, <2>4, <2>5
<1>6. CASE Kill
  <2>1. files' \in {files, OnDisk("results", "torn"), OnDisk("written", "torn")}
    BY <1>6 DEF Kill
  <2>2. files # <<>>
    BY <1>1, <1>6 DEF Kill, StateOK
  <2> QED BY <1>1, <2>1, <2>2, OnDiskType
<1>7. CASE Aggregate
  <2>1. files' = <<>> \/ files' = files
    BY <1>7, Zenon DEF Aggregate
  <2>2. <<>> \in Seq(File) /\ files \in Seq(File)
    BY <1>1
  <2> QED BY <2>1, <2>2, Zenon
<1> QED BY <1>2, <1>3, <1>4, <1>5, <1>6, <1>7 DEF Next

(* The control, and with it all types. *)
LEMMA ControlStep ==
  StateOK /\ [Next]_vars => pc' \in InBatch \cup AtTheEnd \cup {"start", "ended", "summary"}
<1> USE DEF InBatch, Running, InBox, AtTheEnd
<1> SUFFICES ASSUME StateOK, [Next]_vars
             PROVE  pc' \in InBatch \cup AtTheEnd \cup {"start", "ended", "summary"}
  OBVIOUS
<1>1. CASE StartAttempt \/ BeginTask \/ Provision \/ RunFails \/ AmbientTurn
  BY <1>1, Zenon DEF StartAttempt, BeginTask, Provision, RunFails, AmbientTurn, Finish
<1>2. CASE ChownBeforeRemap \/ Launch \/ KillAgent \/ KillHelper \/ ChownAfterRemap
           \/ HelperEnds \/ StrayAgentWrites \/ SandboxReturns
  BY <1>2, Zenon DEF ChownBeforeRemap, Launch, KillAgent, KillHelper, ChownAfterRemap,
     HelperEnds, StrayAgentWrites, SandboxReturns, Finish, StateOK
<1>3. CASE Annotate \/ WriteResults \/ Score \/ RewriteResults \/ WriteRows \/ Kill \/ Retry
           \/ Aggregate \/ Done \/ UNCHANGED vars
  BY <1>3, Zenon DEF Annotate, WriteResults, Score, RewriteResults, WriteRows, Kill, Retry,
     Aggregate, Done, vars, AfterScoring, StateOK
<1> QED BY <1>1, <1>2, <1>3 DEF Next

LEMMA StateStep == IInv /\ [Next]_vars => StateOK'
<1> SUFFICES ASSUME IInv, [Next]_vars PROVE StateOK'
  OBVIOUS
<1>1. StateOK /\ RecordsFollowPlan /\ ResultsSoFar
  BY DEF IInv
<1> QED BY <1>1, BoxStep, RulesStep, InventoryStep, GhostStep, RecordsStep, FilesStep,
        ControlStep DEF StateOK

-----------------------------------------------------------------------------
(* What the steps leave alone. *)
InBoxStep ==
  \/ ChownBeforeRemap \/ Launch \/ KillAgent \/ KillHelper \/ ChownAfterRemap
  \/ HelperEnds \/ StrayAgentWrites

AtTheEndStep ==
  \/ Annotate \/ WriteResults \/ Score \/ RewriteResults \/ WriteRows
  \/ Kill \/ Retry \/ Aggregate

LEMMA PlanStays == [Next]_vars => plan' = plan
<1> SUFFICES ASSUME [Next]_vars PROVE plan' = plan
  OBVIOUS
<1>1. CASE StartAttempt \/ BeginTask \/ Provision \/ RunFails \/ AmbientTurn \/ SandboxReturns
  BY <1>1, Zenon DEF StartAttempt, BeginTask, Provision, RunFails, AmbientTurn, SandboxReturns,
     batchVars
<1>2. CASE InBoxStep
  BY <1>2, Zenon DEF InBoxStep, ChownBeforeRemap, Launch, KillAgent, KillHelper,
     ChownAfterRemap, HelperEnds, StrayAgentWrites, boxVars, batchVars
<1>3. CASE AtTheEndStep \/ Done \/ UNCHANGED vars
  BY <1>3, Zenon DEF AtTheEndStep, Annotate, WriteResults, Score, RewriteResults, WriteRows,
     Kill, Retry, Aggregate, Done, vars, tailVars, batchVars
<1> QED BY <1>1, <1>2, <1>3 DEF Next, InBoxStep, AtTheEndStep

(* The executor changes its sandbox and the list of refused calls only. *)
LEMMA InBoxFrame ==
  ASSUME StateOK, InBoxStep
  PROVE  /\ pc \in InBox /\ pc' \in InBox
         /\ UNCHANGED <<plan, home, inventory, rules, records, files, strays, sibling>>
         /\ ghost'.maker = ghost.maker /\ ghost'.seen = ghost.seen
         /\ ghost'.alone = ghost.alone /\ ghost'.broken = ghost.broken
<1>1. /\ pc \in InBox /\ pc' \in InBox
      /\ UNCHANGED <<plan, home, inventory, rules, records, files, strays, sibling>>
  BY Zenon DEF InBoxStep, ChownBeforeRemap, Launch, KillAgent, KillHelper,
     ChownAfterRemap, HelperEnds, StrayAgentWrites, boxVars, batchVars, InBox
<1>2. \/ ghost' = ghost
      \/ \E call : ghost' = [ghost EXCEPT !.refused = @ \cup {call}]
  BY Zenon DEF InBoxStep, ChownBeforeRemap, Launch, KillAgent, KillHelper,
     ChownAfterRemap, HelperEnds, StrayAgentWrites
<1>3. /\ ghost'.maker = ghost.maker /\ ghost'.seen = ghost.seen
      /\ ghost'.alone = ghost.alone /\ ghost'.broken = ghost.broken
  BY <1>2 DEF StateOK, GhostOK
<1> QED BY <1>1, <1>3

(* A task's end, however it came: one record more, and the batch goes on. *)
TaskEnds == RunFails \/ AmbientTurn \/ SandboxReturns

LEMMA TaskEndsFrame ==
  ASSUME StateOK, RecordsFollowPlan, TaskEnds
  PROVE  /\ pc \in Running /\ pc' = "task" /\ Len(records) < Len(plan.tasks)
         /\ UNCHANGED <<plan, files, sibling>>
         /\ inventory' = [inventory EXCEPT !.prev = Task]
         /\ \E status, must, never : records' = Append(records, Record(status, must, never))
         /\ ghost'.seen = ghost.seen /\ ghost'.broken = ghost.broken
<1>1. /\ pc \in Running /\ UNCHANGED <<plan, files, sibling>>
  BY Zenon DEF TaskEnds, RunFails, AmbientTurn, SandboxReturns, Running, InBox, batchVars
<1>2. \E status, must, never : Finish(Record(status, must, never))
  <2>1. CASE RunFails BY <2>1, Zenon DEF RunFails
  <2>2. CASE SandboxReturns BY <2>2, Zenon DEF SandboxReturns
  <2>3. CASE AmbientTurn
    <3>1. PICK reads, hidden, writes, echo : Finish(TurnRecord(reads, hidden, writes, echo))
      BY <2>3 DEF AmbientTurn
    <3> QED BY <3>1, Zenon DEF TurnRecord
  <2> QED BY <2>1, <2>2, <2>3 DEF TaskEnds
<1>3. PICK status, must, never : Finish(Record(status, must, never))
  BY <1>2
<1>4. /\ pc' = "task"
      /\ records' = Append(records, Record(status, must, never))
      /\ inventory' = [inventory EXCEPT !.prev = Record(status, must, never).task]
  BY <1>3 DEF Finish
<1>5. Record(status, must, never).task = Task
  BY DEF Record
<1>6. ghost' = ghost \/ \E m : ghost' = [ghost EXCEPT !.maker = m]
  BY Zenon DEF TaskEnds, RunFails, AmbientTurn, SandboxReturns
<1>7. ghost'.seen = ghost.seen /\ ghost'.broken = ghost.broken
  BY <1>6 DEF StateOK, GhostOK
<1>8. Len(records) < Len(plan.tasks)
  BY <1>1 DEF RecordsFollowPlan
<1> QED BY <1>1, <1>4, <1>5, <1>7, <1>8

LEMMA RecordsFollowPlanStep == IInv /\ [Next]_vars => RecordsFollowPlan'
<1> USE DEF InBatch, Running, InBox, AtTheEnd
<1> SUFFICES ASSUME IInv, [Next]_vars PROVE RecordsFollowPlan'
  OBVIOUS
<1>1. StateOK /\ RecordsFollowPlan /\ plan' = plan
  BY PlanStays DEF IInv
<1>2. plan.tasks \in Seq(Tasks) /\ records \in Seq(RecordSet)
  BY <1>1, PlansAssumption DEF StateOK
<1>3. CASE StartAttempt
  <2>1. records' = <<>> /\ pc' = "task"
    BY <1>3 DEF StartAttempt
  <2> QED BY <1>1, <1>2, <2>1 DEF RecordsFollowPlan
<1>4. CASE TaskEnds
  <2>1. PICK status, must, never : records' = Append(records, Record(status, must, never))
    BY <1>1, <1>4, TaskEndsFrame
  <2>2. pc' = "task" /\ Len(records) < Len(plan.tasks) /\ pc \in Running
    BY <1>1, <1>4, TaskEndsFrame
  <2>3. \A i \in DOMAIN records : records[i].task = plan.tasks[i]
    BY <1>1, <2>2 DEF RecordsFollowPlan
  <2>4. Record(status, must, never).task = plan.tasks[Len(records) + 1]
    BY DEF Record, Task
  <2>5. /\ Len(records') = Len(records) + 1
        /\ \A i \in DOMAIN records' : records'[i].task = plan.tasks[i]
    BY <1>2, <2>1, <2>3, <2>4
  <2> QED BY <1>1, <1>2, <2>2, <2>5 DEF RecordsFollowPlan
<1>5. CASE InBoxStep
  BY <1>1, <1>5, InBoxFrame DEF RecordsFollowPlan
<1>6. CASE BeginTask \/ Provision
  BY <1>1, <1>6 DEF BeginTask, Provision, RecordsFollowPlan, batchVars
<1>7. CASE Annotate \/ Score
  <2>1. /\ DOMAIN records' = DOMAIN records
        /\ \A i \in DOMAIN records : records'[i].task = records[i].task
    <3>1. \A i \in DOMAIN records : records[i] \in RecordSet
      BY <1>2
    <3>2. CASE Annotate
      <4>1. PICK raised :
              records' = [i \in DOMAIN records |->
                            [records[i] EXCEPT !.report = IF i \in raised THEN "none" ELSE @,
                                               !.must = FALSE, !.never = FALSE]]
        BY <3>2 DEF Annotate
      <4> QED BY <3>1, <4>1 DEF RecordSet
    <3>3. CASE Score
      BY <3>1, <3>3 DEF Score, RecordSet
    <3> QED BY <1>7, <3>2, <3>3
  <2>2. pc \in {"task", "score"} /\ Len(records) = Len(plan.tasks)
    BY <1>1, <1>7 DEF Annotate, Score, RecordsFollowPlan
  <2>3. records' \in Seq(RecordSet) /\ Len(records') = Len(records)
    BY <1>1, <1>2, <2>1, RecordsStep
  <2>4. pc' \in {"write", "rewrite", "rows"}
    BY <1>7, Zenon DEF Annotate, Score, AfterScoring
  <2> QED BY <1>1, <1>2, <2>1, <2>2, <2>3, <2>4 DEF RecordsFollowPlan
<1>8. CASE WriteResults \/ RewriteResults
  BY <1>1, <1>8 DEF WriteResults, RewriteResults, RecordsFollowPlan
<1>9. CASE WriteRows \/ Kill \/ Retry \/ Aggregate
  <2>1. pc' \in {"ended", "start", "summary"}
    BY <1>9, Zenon DEF WriteRows, Kill, Retry, Aggregate
  <2> QED BY <2>1 DEF RecordsFollowPlan
<1>10. CASE Done \/ UNCHANGED vars
  BY <1>1, <1>10 DEF Done, vars, RecordsFollowPlan
<1> QED BY <1>3, <1>4, <1>5, <1>6, <1>7, <1>8, <1>9, <1>10 DEF Next, TaskEnds, InBoxStep

-----------------------------------------------------------------------------
(* What the end of an attempt leaves on disk. *)
LEMMA ResultsStep ==
  IInv /\ [Next]_vars => ResultsSoFar' /\ ResultsOutliveScoring'
<1> USE DEF InBatch, Running, InBox, AtTheEnd
<1> SUFFICES ASSUME IInv, [Next]_vars PROVE ResultsSoFar' /\ ResultsOutliveScoring'
  OBVIOUS
<1>1. /\ StateOK /\ RecordsFollowPlan /\ ResultsSoFar /\ ResultsOutliveScoring
      /\ plan' = plan
  BY PlanStays DEF IInv
<1>2. /\ files \in Seq(File)
      /\ pc \in InBatch \cup AtTheEnd \cup {"ended"} => files # <<>>
      /\ files # <<>> => files[Len(files)] \in File
  BY <1>1 DEF StateOK, ResultsSoFar
<1>3. CASE StartAttempt
  <2>1. \E file : files' = Append(files, file)
    BY <1>3 DEF StartAttempt
  <2>2. files' # <<>> /\ pc' = "task"
    BY <1>2, <1>3, <2>1 DEF StartAttempt
  <2> QED BY <2>2 DEF ResultsSoFar, ResultsOutliveScoring
<1>4. CASE TaskEnds
  BY <1>1, <1>2, <1>4, TaskEndsFrame DEF ResultsSoFar, ResultsOutliveScoring
<1>5. CASE InBoxStep
  BY <1>1, <1>2, <1>5, InBoxFrame DEF ResultsSoFar, ResultsOutliveScoring
<1>6. CASE BeginTask \/ Provision \/ Annotate
  <2>1. files' = files /\ pc \in InBatch /\ pc' \in InBatch \cup {"write"}
    BY <1>6, Zenon DEF BeginTask, Provision, Annotate
  <2> QED BY <1>2, <2>1 DEF ResultsSoFar, ResultsOutliveScoring
<1>7. CASE WriteResults
  <2>1. files # <<>>
    BY <1>2, <1>7 DEF WriteResults
  <2>2. CASE pc' = "score" /\ files' = OnDisk("results", "raw")
    <3>1. files' # <<>> /\ files'[Len(files')].results = "raw"
      <4>1. /\ files' \in Seq(File) /\ Len(files') = Len(files)
            /\ files'[Len(files)] = [files[Len(files)] EXCEPT !.results = "raw"]
        BY <1>1, <2>1, <2>2, OnDiskType, Zenon
      <4>2. files[Len(files)] \in File /\ Len(files) # 0
        BY <1>2, <2>1
      <4>3. files'[Len(files)].results = "raw"
        BY <4>1, <4>2 DEF File
      <4> QED BY <4>1, <4>2, <4>3
    <3> QED BY <2>2, <3>1 DEF ResultsSoFar, ResultsOutliveScoring
  <2>3. CASE pc' = "ended" /\ files' = OnDisk("results", "torn") /\ ghost' = Broken
    <3>1. files' # <<>> /\ ghost'.broken
      BY <1>1, <1>2, <2>1, <2>3, OnDiskType DEF Broken, StateOK, GhostOK
    <3> QED BY <2>3, <3>1 DEF ResultsSoFar, ResultsOutliveScoring
  <2> QED BY <1>7, <2>2, <2>3 DEF WriteResults
<1>8. CASE Score
  <2>1. files' = files /\ pc = "score" /\ pc' \in {"rewrite", "rows"}
    BY <1>8, Zenon DEF Score, AfterScoring
  <2> QED BY <1>1, <1>2, <2>1 DEF ResultsSoFar, ResultsOutliveScoring
<1>9. CASE RewriteResults
  <2>1. files # <<>>
    BY <1>2, <1>9 DEF RewriteResults
  <2>2. CASE pc' = "rows" /\ files' = OnDisk("results", "scored")
    <3>1. files' # <<>> /\ files'[Len(files')].results = "scored"
      <4>1. /\ files' \in Seq(File) /\ Len(files') = Len(files)
            /\ files'[Len(files)] = [files[Len(files)] EXCEPT !.results = "scored"]
        BY <1>1, <2>1, <2>2, OnDiskType, Zenon
      <4>2. files[Len(files)] \in File /\ Len(files) # 0
        BY <1>2, <2>1
      <4>3. files'[Len(files)].results = "scored"
        BY <4>1, <4>2 DEF File
      <4> QED BY <4>1, <4>2, <4>3
    <3> QED BY <2>2, <3>1 DEF ResultsSoFar, ResultsOutliveScoring
  <2>3. CASE pc' = "rows" /\ files' = OnDisk("results", "torn") /\ ghost' = Broken
    <3>1. files' # <<>> /\ ghost'.broken
      BY <1>1, <1>2, <2>1, <2>3, OnDiskType DEF Broken, StateOK, GhostOK
    <3> QED BY <2>3, <3>1 DEF ResultsSoFar, ResultsOutliveScoring
  <2> QED BY <1>9, <2>2, <2>3 DEF RewriteResults
<1>10. CASE WriteRows
  <2>1. files # <<>> /\ pc = "rows" /\ pc' = "ended" /\ records' = records
    BY <1>2, <1>10 DEF WriteRows
  <2> DEFINE last == [files[Len(files)] EXCEPT !.rows = BuildRows, !.written = "whole"]
  <2>2. CASE /\ files' = [files EXCEPT ![Len(files)].rows = BuildRows,
                                        ![Len(files)].written = "whole"]
             /\ ghost'.broken = ghost.broken
    <3>1. files[Len(files)] \in File
      BY <1>2, <2>1
    <3>2. /\ last \in File /\ last.rows = BuildRows /\ last.written = "whole"
          /\ last.results = files[Len(files)].results
      BY <1>1, <3>1, RowsType DEF File
    <3>3. files' = [files EXCEPT ![Len(files)] = last]
      BY <1>2, <2>1, <2>2
    <3> HIDE DEF last
    <3>4. files' # <<>> /\ files'[Len(files')] = last
      BY <1>2, <2>1, <3>2, <3>3, LastReplaced
    <3>5. [i \in DOMAIN BuildRows |-> BuildRows[i].task] = plan.tasks
      <4>1. plan.tasks \in Seq(Tasks) /\ records \in Seq(RecordSet)
        BY <1>1, PlansAssumption DEF StateOK
      <4>2. Len(records) = Len(plan.tasks)
        BY <1>1, <2>1 DEF RecordsFollowPlan
      <4>3. \A i \in DOMAIN records : records[i].task = plan.tasks[i]
        BY <1>1, <2>1 DEF RecordsFollowPlan
      <4> QED BY <1>1, <4>1, <4>2, <4>3, RowsType
    <3>6. ~ghost'.broken => files[Len(files)].results \in {"raw", "scored"}
      BY <1>1, <2>1, <2>2 DEF ResultsSoFar
    <3> QED BY <1>1, <2>1, <3>2, <3>4, <3>5, <3>6 DEF ResultsSoFar, ResultsOutliveScoring
  <2>3. CASE files' = OnDisk("written", "torn") /\ ghost'.broken
    <3>1. files' # <<>>
      BY <1>1, <1>2, <2>1, <2>3, OnDiskType
    <3> QED BY <2>1, <2>3, <3>1 DEF ResultsSoFar, ResultsOutliveScoring
  <2> QED BY <1>1, <1>10, <2>2, <2>3 DEF WriteRows, Broken, StateOK, GhostOK
<1>11. CASE Kill
  <2>1. files # <<>> /\ pc' = "ended"
    BY <1>1, <1>2, <1>11 DEF Kill, StateOK
  <2>2. files' \in {files, OnDisk("results", "torn"), OnDisk("written", "torn")}
    BY <1>11 DEF Kill
  <2>3. files' # <<>>
    BY <1>1, <1>2, <2>1, <2>2, OnDiskType
  <2>4. \E torn : ghost' = [Broken EXCEPT !.maker = NoMaker, !.alone = FALSE, !.torn = torn]
    BY <1>11 DEF Kill
  <2>5. ghost'.broken
    BY <1>1, <2>4 DEF Broken, StateOK, GhostOK
  <2> QED BY <2>1, <2>3, <2>5 DEF ResultsSoFar, ResultsOutliveScoring
<1>12. CASE Retry \/ Aggregate
  <2>1. pc' \in {"start", "summary"}
    BY <1>12, Zenon DEF Retry, Aggregate
  <2> QED BY <2>1 DEF ResultsSoFar, ResultsOutliveScoring
<1>13. CASE Done \/ UNCHANGED vars
  BY <1>1, <1>13 DEF Done, vars, ResultsSoFar, ResultsOutliveScoring
<1> QED BY <1>3, <1>4, <1>5, <1>6, <1>7, <1>8, <1>9, <1>10, <1>11, <1>12, <1>13
        DEF Next, TaskEnds, InBoxStep

-----------------------------------------------------------------------------
(* What a sandbox leaves behind. *)

(* Whether a task is sandboxed is fixed for the batch, and so is the task  *)
(* while it runs. *)
LEMMA TaskStays ==
  ASSUME plan' = plan, records' = records
  PROVE  Task' = Task /\ \A t : Sandboxed(t)' = Sandboxed(t)
  BY DEF Task, Sandboxed

(* A sweep spares the container of a harness beside this one. *)
LEMMA SiblingStep ==
  IInv /\ [Next]_vars => (plan'.sibling # "none" => sibling')
<1> SUFFICES ASSUME IInv, [Next]_vars, plan'.sibling # "none" PROVE sibling'
  OBVIOUS
<1>1. /\ StateOK /\ plan' = plan /\ sibling /\ plan.sibling # "none"
  BY PlanStays DEF IInv, SandboxIsLeftClean
<1>2. CASE StartAttempt
  <2>1. ~SweepsName(plan.sibling)
    BY <1>1, PlansAssumption DEF SweepsName, Sweeps, StateOK
  <2> QED BY <1>1, <1>2, <2>1 DEF StartAttempt
<1>3. CASE ~StartAttempt
  <2>1. sibling' = sibling
    <3>1. CASE InBoxStep BY <1>1, <3>1, InBoxFrame
    <3>2. CASE ~InBoxStep
      BY <1>3, <3>2, Zenon DEF Next, InBoxStep, BeginTask, Provision, RunFails, AmbientTurn,
         SandboxReturns, Annotate, WriteResults, Score, RewriteResults, WriteRows, Kill, Retry,
         Aggregate, Done, vars, tailVars, batchVars
    <3> QED BY <3>1, <3>2
  <2> QED BY <1>1, <2>1
<1> QED BY <1>2, <1>3

(* ... and takes every stray of this harness's earlier attempts. *)
LEMMA SweepStep ==
  ASSUME IInv, [Next]_vars
  PROVE  (pc = "task" /\ records = <<>> /\ plan.sandboxed /\ Sweeps
            /\ "sweep" \notin ghost.refused => strays = {})'
<1> SUFFICES ASSUME pc' = "task", records' = <<>>, plan'.sandboxed, Sweeps',
                    "sweep" \notin ghost'.refused
             PROVE  strays' = {}
  OBVIOUS
<1> USE DEF InBatch, Running, InBox, AtTheEnd
<1>1. /\ StateOK /\ RecordsFollowPlan /\ SandboxIsLeftClean /\ plan' = plan /\ Sweeps
  BY PlanStays DEF IInv, Sweeps
<1>2. CASE StartAttempt
  <2>1. PICK reaped \in BOOLEAN :
          /\ strays' = IF plan.sandboxed /\ reaped
                       THEN {c \in strays : ~SweepsName(plan.owner)} ELSE strays
          /\ \E listed : ghost' = [ghost EXCEPT !.seen = listed, !.broken = FALSE,
                              !.refused = IF reaped THEN {} ELSE {"sweep"},
                              !.maker = [n \in Names |-> IF home[n] = "none" THEN "nobody"
                                                         ELSE "before"]]
    BY <1>2, Zenon DEF StartAttempt
  <2>2. reaped
    BY <1>1, <2>1 DEF StateOK, GhostOK
  <2>3. SweepsName(plan.owner)
    BY <1>1 DEF SweepsName
  <2> QED BY <1>1, <2>1, <2>2, <2>3
<1>3. CASE TaskEnds
  <2>1. PICK status, must, never : records' = Append(records, Record(status, must, never))
    BY <1>1, <1>3, TaskEndsFrame
  <2> QED BY <1>1, <2>1 DEF StateOK
<1>4. CASE InBoxStep
  BY <1>1, <1>4, InBoxFrame
<1>5. CASE Done \/ UNCHANGED vars
  BY <1>1, <1>5 DEF Done, vars, SandboxIsLeftClean
<1>6. CASE BeginTask \/ Provision \/ AtTheEndStep
  <2>1. pc' # "task"
    BY <1>6 DEF BeginTask, Provision, AtTheEndStep, Annotate, WriteResults, Score,
       RewriteResults, WriteRows, Kill, Retry, Aggregate, AfterScoring
  <2> QED BY <2>1
<1> QED BY <1>2, <1>3, <1>4, <1>5, <1>6 DEF Next, TaskEnds, InBoxStep, AtTheEndStep

LEMMA BoxSoFarStep == IInv /\ [Next]_vars => BoxSoFar'
<1> SUFFICES ASSUME IInv, [Next]_vars PROVE BoxSoFar'
  OBVIOUS
<1> USE DEF InBatch, Running, InBox, AtTheEnd
<1>1. StateOK /\ BoxSoFar /\ plan' = plan /\ BoxOK /\ GhostOK
  BY PlanStays DEF IInv, StateOK
<1>2. CASE StartAttempt \/ BeginTask \/ TaskEnds \/ AtTheEndStep
  <2>1. pc' \notin InBox \cup {"agent"}
    <3>1. CASE TaskEnds BY <1>1, <3>1, TaskEndsFrame DEF IInv
    <3>2. CASE ~TaskEnds
      BY <1>2, <3>2, Zenon DEF StartAttempt, BeginTask, AtTheEndStep, Annotate, WriteResults,
         Score, RewriteResults, WriteRows, Kill, Retry, Aggregate, AfterScoring
    <3> QED BY <3>1, <3>2
  <2> QED BY <2>1 DEF BoxSoFar
<1>3. CASE Provision
  <2>1. records' = records
    BY <1>3 DEF Provision
  <2>2. box' = NewBox /\ \E maker : ghost' = [ghost EXCEPT !.refused = @ \cap {"sweep"},
                                                          !.maker = maker]
    BY <1>3, Zenon DEF Provision
  <2>3. ghost'.refused \subseteq {"sweep"}
    BY <1>1, <2>2 DEF GhostOK
  <2>4. pc' = IF ~Sandboxed(Task) THEN "agent" ELSE IF plan.remap THEN "chown" ELSE "launch"
    BY <1>3, Zenon DEF Provision
  <2> QED BY <1>1, <2>1, <2>2, <2>3, <2>4, TaskStays DEF BoxSoFar, NewBox
<1>4. CASE InBoxStep
  <2>0. Task' = Task /\ \A t : Sandboxed(t)' = Sandboxed(t)
    BY <1>1, <1>4, InBoxFrame, TaskStays
  <2>1. CASE ChownBeforeRemap
    BY <1>1, <2>0, <2>1 DEF ChownBeforeRemap, BoxSoFar, BoxOK, NewBox
  <2>2. CASE Launch
    BY <1>1, <2>0, <2>2 DEF Launch, BoxSoFar, BoxOK
  <2>3. CASE KillAgent
    BY <1>1, <2>0, <2>3 DEF KillAgent, BoxSoFar, BoxOK, GhostOK
  <2>4. CASE KillHelper
    BY <1>1, <2>0, <2>4 DEF KillHelper, BoxSoFar, BoxOK, GhostOK, AfterKill
  <2>5. CASE ChownAfterRemap
    BY <1>1, <2>0, <2>5 DEF ChownAfterRemap, BoxSoFar, BoxOK, GhostOK
  <2>6. CASE HelperEnds
    BY <1>1, <2>0, <2>6 DEF HelperEnds, BoxSoFar, BoxOK, boxVars
  <2>7. CASE StrayAgentWrites
    BY <1>1, <2>0, <2>7 DEF StrayAgentWrites, BoxSoFar, BoxOK, boxVars
  <2> QED BY <1>4, <2>1, <2>2, <2>3, <2>4, <2>5, <2>6, <2>7 DEF InBoxStep
<1>5. CASE Done \/ UNCHANGED vars
  BY <1>1, <1>5, TaskStays DEF Done, vars, BoxSoFar
<1> QED BY <1>2, <1>3, <1>4, <1>5 DEF Next, TaskEnds, InBoxStep, AtTheEndStep

LEMMA SandboxStep == IInv /\ [Next]_vars => SandboxIsLeftClean'
<1> SUFFICES ASSUME IInv, [Next]_vars PROVE SandboxIsLeftClean'
  OBVIOUS
<1>1. (pc = "returned" /\ ghost.refused \subseteq {"sweep"} =>
         ~box.agent /\ box.helper = "none" /\ box.owner = "host")'
  BY BoxSoFarStep DEF BoxSoFar, InBox
<1> QED BY <1>1, SiblingStep, SweepStep DEF SandboxIsLeftClean

-----------------------------------------------------------------------------
(* Whose entries are whose. *)

(* What a turn, or the delivery before it, does to the home: entries get   *)
(* one content, and a maker where they had none. *)
LEMMA HomeChanges ==
  ASSUME StateOK, RecordsFollowPlan, Provision \/ TaskEnds
  PROVE  /\ Task \in Tasks /\ Task \in Planned
         /\ \E touched \in SUBSET Names, content \in {"input", Task} :
              /\ content # "none"
              /\ \A n \in Names :
                   /\ home'[n] = IF n \in touched THEN content ELSE home[n]
                   /\ ghost'.maker[n] = IF n \in touched /\ ghost.maker[n] = "nobody"
                                       THEN Task ELSE ghost.maker[n]
         /\ ghost'.seen = ghost.seen
<1>1. Task \in Tasks /\ Task \in Planned
  <2>1. pc \in Running
    BY TaskEndsFrame DEF Provision, Running
  <2> QED BY <2>1, TaskType DEF RecordsFollowPlan
<1>2. CASE Provision
  <2>1. plan.delivered[Task] \in SUBSET Names
    BY <1>1, PlansAssumption DEF StateOK
  <2>2. /\ home' = [n \in Names |-> IF n \in plan.delivered[Task] THEN "input" ELSE home[n]]
        /\ ghost' = [ghost EXCEPT !.refused = @ \cap {"sweep"}, !.maker =
                       [n \in Names |-> IF n \in plan.delivered[Task] /\ @[n] = "nobody"
                                        THEN Task ELSE @[n]]]
    BY <1>2 DEF Provision
  <2>3. /\ ghost'.seen = ghost.seen
        /\ \A n \in Names : ghost'.maker[n] =
              IF n \in plan.delivered[Task] /\ ghost.maker[n] = "nobody"
              THEN Task ELSE ghost.maker[n]
    BY <2>2 DEF StateOK, GhostOK
  <2> QED BY <1>1, <2>1, <2>2, <2>3
<1>3. CASE AmbientTurn
  <2>1. PICK writes \in SUBSET (Names \ Baseline) :
          /\ home' = [n \in Names |-> IF n \in writes THEN Task ELSE home[n]]
          /\ ghost' = [ghost EXCEPT !.maker =
                         [n \in Names |-> IF n \in writes /\ @[n] = "nobody"
                                          THEN Task ELSE @[n]]]
    BY <1>3 DEF AmbientTurn
  <2>2. /\ ghost'.seen = ghost.seen
        /\ \A n \in Names : ghost'.maker[n] =
              IF n \in writes /\ ghost.maker[n] = "nobody" THEN Task ELSE ghost.maker[n]
    BY <2>1 DEF StateOK, GhostOK
  <2>3. Task # "none"
    BY <1>1, TasksAssumption
  <2>4. writes \in SUBSET Names
    BY <2>1
  <2> QED BY <1>1, <2>1, <2>2, <2>3, <2>4
<1>4. CASE RunFails \/ SandboxReturns
  <2>1. home' = home /\ ghost' = ghost
    BY <1>4, Zenon DEF RunFails, SandboxReturns
  <2>2. {} \in SUBSET Names /\ "input" # "none"
    OBVIOUS
  <2> QED BY <1>1, <2>1, <2>2
<1> QED BY <1>2, <1>3, <1>4 DEF TaskEnds

(* Beyond the tasks, nothing is asked of the home any more. *)
LEMMA LeavesTheBatch ==
  ASSUME AtTheEndStep PROVE pc' \notin InBatch
  BY Zenon DEF AtTheEndStep, Annotate, WriteResults, Score, RewriteResults, WriteRows, Kill,
     Retry, Aggregate, AfterScoring, InBatch, Running, InBox

LEMMA MakersStep == IInv /\ [Next]_vars => MakersAreKnown'
<1> SUFFICES ASSUME IInv, [Next]_vars PROVE MakersAreKnown'
  OBVIOUS
<1>1. StateOK /\ RecordsFollowPlan /\ MakersAreKnown
  BY DEF IInv
<1>2. CASE StartAttempt
  <2>1. home' = home /\ \A n \in Names : ghost'.maker[n] =
                            IF home[n] = "none" THEN "nobody" ELSE "before"
    <3>1. home' = home /\ \E listed, reaped :
            ghost' = [ghost EXCEPT !.seen = listed, !.broken = FALSE,
                        !.refused = IF reaped THEN {} ELSE {"sweep"},
                        !.maker = [n \in Names |-> IF home[n] = "none" THEN "nobody"
                                                   ELSE "before"]]
      BY <1>2, Zenon DEF StartAttempt
    <3> QED BY <1>1, <3>1 DEF StateOK, GhostOK
  <2> QED BY <2>1 DEF MakersAreKnown
<1>3. CASE BeginTask
  <2>1. home' = home /\ ghost'.maker = ghost.maker
    <3>1. ghost' = ghost \/ \E seen, alone : ghost' = [ghost EXCEPT !.seen = seen, !.alone = alone]
      BY <1>3 DEF BeginTask
    <3> QED BY <1>1, <1>3, <3>1 DEF BeginTask, StateOK, GhostOK
  <2>2. pc \in InBatch
    BY <1>3 DEF BeginTask, InBatch
  <2> QED BY <1>1, <2>1, <2>2 DEF MakersAreKnown
<1>4. CASE Provision \/ TaskEnds
  <2>1. pc \in InBatch
    BY <1>1, <1>4, TaskEndsFrame DEF Provision, InBatch, Running
  <2>2. Task # "nobody"
    BY <1>1, <1>4, HomeChanges, TasksAssumption
  <2> QED BY <1>1, <1>4, <2>1, <2>2, HomeChanges DEF MakersAreKnown
<1>5. CASE InBoxStep
  BY <1>1, <1>5, InBoxFrame DEF MakersAreKnown, InBatch, Running
<1>6. CASE AtTheEndStep
  BY <1>6, LeavesTheBatch DEF MakersAreKnown
<1>7. CASE Done \/ UNCHANGED vars
  BY <1>1, <1>7 DEF Done, vars, MakersAreKnown
<1> QED BY <1>2, <1>3, <1>4, <1>5, <1>6, <1>7 DEF Next, TaskEnds, InBoxStep, AtTheEndStep

(* What depends on the plan alone. *)
LEMMA PlanFixes ==
  ASSUME plan' = plan
  PROVE  /\ SomeAmbient' = SomeAmbient /\ Planned' = Planned
         /\ \A t : Sandboxed(t)' = Sandboxed(t)
  BY DEF SomeAmbient, Planned, Sandboxed

(* A task that a sandboxed one followed stays one, as records are added.   *)
LEMMA SupersededStays ==
  ASSUME StateOK, plan' = plan,
         records' = records \/ \E record : records' = Append(records, record)
  PROVE  /\ \A t : Superseded(t) => Superseded(t)'
         /\ records' = records => \A t : Superseded(t)' <=> Superseded(t)
<1>1. records \in Seq(RecordSet)
  BY DEF StateOK
<1>2. \A t : Sandboxed(t)' <=> Sandboxed(t)
  BY PlanFixes
<1>3. Len(records') \in {Len(records), Len(records) + 1}
  <2>1. CASE records' = records
    BY <2>1
  <2>2. CASE \E record : records' = Append(records, record)
    BY <1>1, <2>2
  <2> QED BY <2>1, <2>2
<1>4. Len(records) \in Nat
  BY <1>1
<1>5. ASSUME NEW t, Superseded(t) PROVE Superseded(t)'
  <2>1. PICK a \in 1..Len(records) : plan.tasks[a] = t /\ Sandboxed(plan.tasks[a + 1])
    BY <1>5 DEF Superseded
  <2>2. a \in 1..Len(records')
    BY <1>3, <1>4
  <2> QED BY <1>2, <2>1, <2>2 DEF Superseded
<1>6. ASSUME records' = records, NEW t PROVE Superseded(t)' <=> Superseded(t)
  BY <1>2, <1>6 DEF Superseded
<1> QED BY <1>5, <1>6

(* The steps within a batch drop no record. *)
LEMMA RecordsGrow ==
  ASSUME StateOK, Provision \/ TaskEnds \/ InBoxStep \/ BeginTask
  PROVE  records' = records \/ \E record : records' = Append(records, record)
<1>1. CASE Provision \/ BeginTask
  BY <1>1, Zenon DEF Provision, BeginTask
<1>2. CASE TaskEnds
  BY <1>2, Zenon DEF TaskEnds, RunFails, SandboxReturns, AmbientTurn, Finish
<1>3. CASE InBoxStep
  BY <1>3, InBoxFrame
<1> QED BY <1>1, <1>2, <1>3

(* The start of a batch, in the home as it was found. *)
LEMMA StartFrame ==
  ASSUME StateOK, StartAttempt
  PROVE  /\ pc' = "task" /\ plan' = plan /\ home' = home /\ records' = <<>>
         /\ inventory'.createdBy = [n \in Names |-> "nobody"] /\ inventory'.prev = "nobody"
         /\ \A n \in Names : ghost'.maker[n] = IF home[n] = "none" THEN "nobody" ELSE "before"
         /\ SomeAmbient /\ ghost'.seen =>
              inventory'.preExisting = {n \in Names : home[n] # "none"} \ Baseline
<1>1. pc' = "task" /\ plan' = plan /\ home' = home /\ records' = <<>>
  BY Zenon DEF StartAttempt
<1>2. PICK listed \in BOOLEAN, reaped \in BOOLEAN :
        /\ inventory' = [NewInventory EXCEPT !.preExisting =
                           IF SomeAmbient THEN InventoryHome(listed, Names).paths ELSE {}]
        /\ ghost' = [ghost EXCEPT !.seen = listed, !.broken = FALSE,
                       !.refused = IF reaped THEN {} ELSE {"sweep"},
                       !.maker = [n \in Names |-> IF home[n] = "none" THEN "nobody"
                                                  ELSE "before"]]
  BY Zenon DEF StartAttempt
<1>3. /\ ghost'.seen = listed
      /\ \A n \in Names : ghost'.maker[n] = IF home[n] = "none" THEN "nobody" ELSE "before"
  BY <1>2 DEF StateOK, GhostOK
<1>4. /\ inventory'.createdBy = [n \in Names |-> "nobody"] /\ inventory'.prev = "nobody"
      /\ SomeAmbient => inventory'.preExisting = InventoryHome(listed, Names).paths
  BY <1>2 DEF NewInventory
<1>5. listed => InventoryHome(listed, Names).paths = {n \in Names : home[n] # "none"} \ Baseline
  BY DEF InventoryHome, build_inventory_rules, Leftovers, StateOK
<1> QED BY <1>1, <1>3, <1>4, <1>5

(* What a task finds, when its listing succeeds: everything that is there  *)
(* and not the environment's, once any task of the batch has run. *)
Present == IF inventory.prev = "nobody" THEN {}
           ELSE {n \in Names : home[n] # "none"} \ Baseline
Charged == Attributed(inventory.createdBy, Present, inventory.preExisting, inventory.prev)

LEMMA BeginFrame ==
  ASSUME StateOK, BeginTask
  PROVE  /\ pc = "task" /\ pc' = "provision" /\ Len(records) < Len(plan.tasks)
         /\ plan' = plan /\ home' = home /\ records' = records
         /\ ghost'.maker = ghost.maker /\ (ghost'.seen => ghost.seen)
         /\ inventory'.preExisting = inventory.preExisting
         /\ inventory'.prev = inventory.prev
         /\ Sandboxed(Task) => inventory' = inventory
         /\ ~Sandboxed(Task) =>
              /\ ghost'.alone = NoCollision
              /\ ghost'.seen =>
                   /\ inventory'.createdBy = Charged
                   /\ rules' = build_inventory_rules(home, Baseline,
                                 Fingerprintable(Charged, inventory.preExisting, Task))
<1>1. /\ pc = "task" /\ pc' = "provision" /\ Len(records) < Len(plan.tasks)
      /\ plan' = plan /\ home' = home /\ records' = records
  BY Zenon DEF BeginTask, batchVars
<1>2. CASE Sandboxed(Task)
  <2>1. inventory' = inventory /\ ghost' = ghost
    BY <1>2, Zenon DEF BeginTask
  <2> QED BY <1>1, <1>2, <2>1
<1>3. CASE ~Sandboxed(Task)
  <2> DEFINE present(compared) == IF inventory.prev = "nobody" THEN {}
                                  ELSE InventoryHome(compared, {}).paths
             charged(compared) == Attributed(inventory.createdBy, present(compared),
                                             inventory.preExisting, inventory.prev)
  <2>1. PICK compared \in BOOLEAN, listed \in BOOLEAN :
          /\ inventory' = [inventory EXCEPT !.createdBy = charged(compared)]
          /\ rules' = InventoryHome(listed,
                        Fingerprintable(charged(compared), inventory.preExisting, Task))
          /\ ghost' = [ghost EXCEPT !.seen = @ /\ compared /\ listed, !.alone = NoCollision]
    BY <1>3, Zenon DEF BeginTask
  <2>2. compared => present(compared) = Present
    BY DEF InventoryHome, build_inventory_rules, Leftovers, Present, StateOK
  <2>3. compared => charged(compared) = Charged
    BY <2>2 DEF Charged
  <2> HIDE DEF charged
  <2>4. /\ inventory'.createdBy = charged(compared)
        /\ inventory'.preExisting = inventory.preExisting /\ inventory'.prev = inventory.prev
    BY <2>1 DEF StateOK, InventoryOK
  <2>5. /\ ghost'.maker = ghost.maker /\ ghost'.alone = NoCollision
        /\ ghost'.seen = (ghost.seen /\ compared /\ listed)
    BY <2>1 DEF StateOK, GhostOK
  <2>6. ghost'.seen =>
          rules' = build_inventory_rules(home, Baseline,
                     Fingerprintable(Charged, inventory.preExisting, Task))
    BY <2>1, <2>3, <2>5 DEF InventoryHome
  <2> QED BY <1>1, <1>3, <2>3, <2>4, <2>5, <2>6
<1> QED BY <1>2, <1>3

(* A turn, or the delivery before it, in full. *)
LEMMA TurnFrame ==
  ASSUME StateOK, RecordsFollowPlan, Provision \/ TaskEnds
  PROVE  /\ pc \in Running /\ pc' \in InBatch /\ plan' = plan
         /\ inventory'.preExisting = inventory.preExisting
         /\ inventory'.createdBy = inventory.createdBy
         /\ LastToRun = Task /\ LastToRun' = Task
<1> USE DEF InBatch, Running, InBox
<1>1. CASE Provision
  <2>1. /\ pc = "provision" /\ pc' \in {"agent", "chown", "launch"}
        /\ plan' = plan /\ inventory' = inventory /\ records' = records
    BY <1>1, Zenon DEF Provision, batchVars
  <2> QED BY <2>1 DEF LastToRun, Task
<1>2. CASE TaskEnds
  <2>1. /\ pc \in Running /\ pc' = "task" /\ plan' = plan
        /\ inventory' = [inventory EXCEPT !.prev = Task]
    BY <1>2, TaskEndsFrame
  <2>2. /\ inventory'.preExisting = inventory.preExisting
        /\ inventory'.createdBy = inventory.createdBy /\ inventory'.prev = Task
    BY <2>1 DEF StateOK, InventoryOK
  <2> QED BY <2>1, <2>2 DEF LastToRun
<1> QED BY <1>1, <1>2

LEMMA StartIsRememberedStep == IInv /\ [Next]_vars => StartIsRemembered'
<1> SUFFICES ASSUME IInv, [Next]_vars PROVE StartIsRemembered'
  OBVIOUS
<1>1. StateOK /\ RecordsFollowPlan /\ StartIsRemembered /\ plan' = plan
  BY PlanStays DEF IInv
<1>2. SomeAmbient' = SomeAmbient
  BY <1>1, PlanFixes
<1>3. CASE StartAttempt
  <2>1. SomeAmbient /\ ghost'.seen =>
          inventory'.preExisting = {n \in Names : home[n] # "none"} \ Baseline
    BY <1>1, <1>3, StartFrame
  <2>2. {n \in Names : ghost'.maker[n] = "before"} = {n \in Names : home[n] # "none"}
    BY <1>1, <1>3, StartFrame
  <2> QED BY <1>2, <2>1, <2>2 DEF StartIsRemembered
<1>4. CASE BeginTask
  BY <1>1, <1>2, <1>4, BeginFrame DEF StartIsRemembered, InBatch
<1>5. CASE Provision \/ TaskEnds
  <2>1. /\ pc \in InBatch /\ inventory'.preExisting = inventory.preExisting
        /\ ghost'.seen = ghost.seen
    BY <1>1, <1>5, TurnFrame, HomeChanges DEF InBatch
  <2>2. {n \in Names : ghost'.maker[n] = "before"} = {n \in Names : ghost.maker[n] = "before"}
    BY <1>1, <1>5, HomeChanges, TasksAssumption
  <2> QED BY <1>1, <1>2, <2>1, <2>2 DEF StartIsRemembered
<1>6. CASE InBoxStep
  BY <1>1, <1>2, <1>6, InBoxFrame DEF StartIsRemembered, InBatch, Running
<1>7. CASE AtTheEndStep
  BY <1>7, LeavesTheBatch DEF StartIsRemembered
<1>8. CASE Done \/ UNCHANGED vars
  BY <1>1, <1>2, <1>8 DEF Done, vars, StartIsRemembered
<1> QED BY <1>3, <1>4, <1>5, <1>6, <1>7, <1>8 DEF Next, TaskEnds, InBoxStep, AtTheEndStep

(* Whoever is newly charged made the entry, or ran sandboxed in between. *)
LEMMA NewCharges ==
  ASSUME IInv, pc = "task", SomeAmbient, ghost.seen, NEW n \in Names
  PROVE  /\ Charged[n] # inventory.createdBy[n] => Uncharged(n) /\ Charged[n] = inventory.prev
         /\ Uncharged(n) => Charged[n] # "nobody"
<1>1. /\ StateOK /\ InventoryOK /\ GhostOK
      /\ home[n] # "none" <=> ghost.maker[n] # "nobody"
      /\ inventory.preExisting = {m \in Names : ghost.maker[m] = "before"} \ Baseline
      /\ Uncharged(n) => inventory.prev # "nobody"
  BY DEF IInv, StateOK, MakersAreKnown, StartIsRemembered, ChargesAreComplete, LastToRun, InBatch
<1>2. Charged[n] = IF n \in Present \ inventory.preExisting /\ inventory.createdBy[n] = "nobody"
                   THEN inventory.prev ELSE inventory.createdBy[n]
  BY <1>1 DEF Charged, Attributed, InventoryOK
<1>3. n \in Present <=> /\ inventory.prev # "nobody"
                        /\ home[n] # "none" /\ n \notin Baseline
  BY DEF Present
<1>4. ghost.maker[n] \in Tasks \cup {"nobody", "before"}
  BY <1>1 DEF GhostOK
<1>5. n \in Present \ inventory.preExisting /\ inventory.createdBy[n] = "nobody" => Uncharged(n)
  BY <1>1, <1>3, <1>4 DEF Uncharged
<1>6. Uncharged(n) => n \in Present \ inventory.preExisting /\ inventory.createdBy[n] = "nobody"
  BY <1>1, <1>3, TasksAssumption DEF Uncharged
<1> QED BY <1>1, <1>2, <1>5, <1>6

LEMMA ChargesAreRightStep == IInv /\ [Next]_vars => ChargesAreRight'
<1> SUFFICES ASSUME IInv, [Next]_vars, pc' \in InBatch, SomeAmbient', ghost'.seen, NEW n \in Names,
                    inventory'.createdBy[n] # "nobody"
             PROVE  /\ n \notin Baseline /\ ghost'.maker[n] \in Tasks
                    /\ inventory'.createdBy[n] \in Planned'
                    /\ ChargedRightly(n, inventory.createdBy[n])'
  BY DEF ChargesAreRight
<1>1. /\ StateOK /\ RecordsFollowPlan /\ ChargesAreRight /\ ChargesAreComplete
      /\ plan' = plan /\ InventoryOK
  BY PlanStays DEF IInv, StateOK
<1>2. SomeAmbient /\ Planned' = Planned /\ \A t : Sandboxed(t)' = Sandboxed(t)
  BY <1>1, PlanFixes
<1>3. CASE StartAttempt
  BY <1>1, <1>3, StartFrame
<1>k. Provision \/ TaskEnds \/ InBoxStep \/ BeginTask =>
        \A t : Superseded(t) => Superseded(t)'
  BY <1>1, RecordsGrow, SupersededStays
<1>4. CASE BeginTask
  <2>1. /\ pc = "task" /\ ghost'.maker = ghost.maker /\ ghost.seen
        /\ inventory'.createdBy \in {inventory.createdBy, Charged}
    BY <1>1, <1>4, BeginFrame
  <2>2. inventory'.createdBy[n] \in {inventory.createdBy[n], Charged[n]}
    BY <2>1
  <2>3. CASE inventory'.createdBy[n] = inventory.createdBy[n]
    BY <1>1, <1>2, <1>4, <1>k, <2>1, <2>3 DEF ChargesAreRight, ChargedRightly, InBatch
  <2>4. CASE inventory'.createdBy[n] # inventory.createdBy[n]
    <3>1. inventory'.createdBy[n] = inventory.prev /\ Uncharged(n)
      BY <1>2, <2>1, <2>2, <2>4, NewCharges
    <3>2. inventory.prev \in Planned /\ ChargedRightly(n, inventory.prev)
      BY <1>1, <1>2, <2>1, <3>1 DEF ChargesAreComplete, LastToRun, InBatch
    <3> QED BY <1>2, <1>4, <1>k, <2>1, <3>1, <3>2 DEF Uncharged, ChargedRightly
  <2> QED BY <2>3, <2>4
<1>5. CASE Provision \/ TaskEnds
  <2>1. /\ pc \in InBatch /\ inventory'.createdBy = inventory.createdBy
        /\ ghost'.seen = ghost.seen
    BY <1>1, <1>5, TurnFrame, HomeChanges DEF InBatch
  <2>2. /\ n \notin Baseline /\ ghost.maker[n] \in Tasks /\ inventory.createdBy[n] \in Planned
        /\ ChargedRightly(n, inventory.createdBy[n])
    BY <1>1, <1>2, <2>1 DEF ChargesAreRight
  <2>3. ghost'.maker[n] = ghost.maker[n]
    BY <1>1, <1>5, <2>2, HomeChanges, TasksAssumption
  <2> QED BY <1>2, <1>5, <1>k, <2>1, <2>2, <2>3 DEF ChargedRightly
<1>6. CASE InBoxStep
  BY <1>1, <1>2, <1>6, <1>k, InBoxFrame DEF ChargesAreRight, ChargedRightly, InBatch, Running
<1>7. CASE AtTheEndStep
  BY <1>7, LeavesTheBatch
<1>8. CASE Done \/ UNCHANGED vars
  BY <1>1, <1>2, <1>8, SupersededStays DEF Done, vars, ChargesAreRight, ChargedRightly
<1> QED BY <1>3, <1>4, <1>5, <1>6, <1>7, <1>8 DEF Next, TaskEnds, InBoxStep, AtTheEndStep

LEMMA ChargesAreCompleteStep == IInv /\ [Next]_vars => ChargesAreComplete'
<1> SUFFICES ASSUME IInv, [Next]_vars PROVE ChargesAreComplete'
  OBVIOUS
<1>1. /\ StateOK /\ RecordsFollowPlan /\ ChargesAreComplete /\ MakersAreKnown
      /\ plan' = plan /\ InventoryOK /\ GhostOK
  BY PlanStays DEF IInv, StateOK
<1>2. /\ SomeAmbient' = SomeAmbient /\ Planned' = Planned
      /\ \A t : Sandboxed(t)' = Sandboxed(t)
  BY <1>1, PlanFixes
<1>k. Provision \/ TaskEnds \/ InBoxStep \/ BeginTask =>
        \A t : Superseded(t) => Superseded(t)'
  BY <1>1, RecordsGrow, SupersededStays
<1> DEFINE Known == /\ inventory.prev \in Planned \cup {"nobody"}
                    /\ inventory.prev # "nobody" =>
                         Len(records) # 0 /\ inventory.prev = plan.tasks[Len(records)]
           Explained(n) == LastToRun # "nobody" /\ ChargedRightly(n, LastToRun)
<1> SUFFICES /\ pc' = "task" => Known'
             /\ \A n \in Names :
                  pc' \in InBatch /\ SomeAmbient /\ ghost'.seen /\ Uncharged(n)' => Explained(n)'
  BY <1>2 DEF ChargesAreComplete
<1>3. CASE StartAttempt
  <2>1. Known'
    BY <1>1, <1>3, StartFrame
  <2>2. \A n \in Names : ghost'.maker[n] \notin Tasks
    BY <1>1, <1>3, StartFrame, TasksAssumption
  <2> QED BY <2>1, <2>2 DEF Uncharged
<1>4. CASE BeginTask
  <2>1. /\ pc = "task" /\ pc' = "provision" /\ home' = home /\ ghost'.maker = ghost.maker
        /\ ghost'.seen => ghost.seen
        /\ records' = records /\ Len(records) < Len(plan.tasks)
    BY <1>1, <1>4, BeginFrame
  <2>2. /\ Task' = Task /\ Task # "nobody" /\ LastToRun' = Task
    BY <1>1, <2>1, TaskStays, TaskType, TasksAssumption DEF LastToRun
  <2>3. ASSUME SomeAmbient, ghost'.seen, NEW n \in Names, Uncharged(n)'
        PROVE  Explained(n)'
    <3>1. CASE Sandboxed(Task)
      <4>1. Uncharged(n)
        BY <1>1, <1>4, <2>1, <2>3, <3>1, BeginFrame DEF Uncharged
      <4>2. inventory.prev # "nobody" /\ ChargedRightly(n, inventory.prev)
        BY <1>1, <2>1, <2>3, <4>1 DEF ChargesAreComplete, LastToRun, InBatch
      <4>3. ASSUME inventory.prev = ghost.maker[n] PROVE Superseded(ghost.maker[n])
        <5>1. Len(records) \in Nat
          BY <1>1 DEF StateOK
        <5>2. /\ Len(records) \in 1..Len(records)
              /\ plan.tasks[Len(records)] = ghost.maker[n]
              /\ Sandboxed(plan.tasks[Len(records) + 1])
          BY <1>1, <2>1, <3>1, <4>2, <4>3, <5>1 DEF ChargesAreComplete, Task
        <5>3. \E a \in 1..Len(records) :
                plan.tasks[a] = ghost.maker[n] /\ Sandboxed(plan.tasks[a + 1])
          BY <5>2, Zenon
        <5> QED BY <5>3 DEF Superseded
      <4>4. Superseded(ghost.maker[n])
        BY <4>2, <4>3 DEF ChargedRightly
      <4> QED BY <1>2, <1>4, <1>k, <2>1, <2>2, <3>1, <4>4 DEF ChargedRightly
    <3>2. CASE ~Sandboxed(Task)
      <4>1. inventory'.createdBy = Charged
        BY <1>1, <1>4, <2>3, <3>2, BeginFrame
      <4>2. Charged[n] = "nobody" /\ n \notin Baseline /\ home[n] # "none" /\ ghost.maker[n] \in Tasks
        BY <2>1, <2>3, <4>1 DEF Uncharged
      <4>3. ~Uncharged(n)
        BY <2>1, <2>3, <4>2, NewCharges
      <4>4. inventory.createdBy[n] # "nobody"
        BY <4>2, <4>3 DEF Uncharged
      <4> QED BY <2>1, <2>3, <4>2, <4>3, <4>4, NewCharges
    <3> QED BY <3>1, <3>2
  <2> QED BY <2>1, <2>3
<1>5. CASE Provision \/ TaskEnds
  <2>1. /\ pc \in InBatch /\ LastToRun = Task /\ LastToRun' = Task
        /\ inventory'.createdBy = inventory.createdBy
        /\ ghost'.seen = ghost.seen /\ Task \in Tasks /\ Task \in Planned
    BY <1>1, <1>5, TurnFrame, HomeChanges DEF InBatch
  <2>2. pc' = "task" =>
          /\ inventory'.prev = Task
          /\ Len(records') # 0 /\ inventory'.prev = plan.tasks[Len(records')]
    <3>1. pc' = "task" => inventory'.prev = Task /\ TaskEnds
      BY <1>5, <2>1 DEF LastToRun, Provision
    <3>2. TaskEnds => \E record : records' = Append(records, record)
      BY Zenon DEF TaskEnds, RunFails, SandboxReturns, AmbientTurn, Finish
    <3>3. TaskEnds => Len(records') = Len(records) + 1 /\ Len(records) \in Nat
      BY <1>1, <3>2 DEF StateOK
    <3> QED BY <3>1, <3>3 DEF Task
  <2>3. ASSUME SomeAmbient, ghost'.seen, NEW n \in Names, Uncharged(n)'
        PROVE  Explained(n)'
    <3>1. Task # "nobody"
      BY <2>1, TasksAssumption
    <3>2. CASE ghost.maker[n] = "nobody"
      <4>1. ghost'.maker[n] = Task
        <5>1. ghost'.maker[n] \in {Task, ghost.maker[n]}
          BY <1>1, <1>5, HomeChanges
        <5>2. ghost'.maker[n] # "nobody"
          BY <2>3, TasksAssumption DEF Uncharged
        <5> QED BY <3>2, <5>1, <5>2
      <4> QED BY <2>1, <3>1, <4>1 DEF ChargedRightly
    <3>3. CASE ghost.maker[n] # "nobody"
      <4>1. ghost'.maker[n] = ghost.maker[n]
        BY <1>1, <1>5, <3>3, HomeChanges
      <4>2. home[n] # "none"
        BY <1>1, <2>1, <3>3 DEF MakersAreKnown
      <4>3. Uncharged(n)
        BY <2>1, <2>3, <4>1, <4>2 DEF Uncharged
      <4>4. ChargedRightly(n, Task)
        BY <1>1, <2>1, <2>3, <4>3 DEF ChargesAreComplete
      <4> QED BY <1>2, <1>5, <1>k, <2>1, <3>1, <4>1, <4>4 DEF ChargedRightly
    <3> QED BY <3>2, <3>3
  <2> QED BY <1>1, <1>2, <2>1, <2>2, <2>3
<1>6. CASE InBoxStep
  <2>1. /\ pc \in InBox /\ pc' \in InBox /\ home' = home /\ inventory' = inventory
        /\ ghost'.maker = ghost.maker /\ ghost'.seen = ghost.seen
        /\ Task' = Task
    BY <1>1, <1>6, InBoxFrame, TaskStays
  <2>2. LastToRun' = Task /\ LastToRun = Task /\ pc \in InBatch /\ pc' # "task"
    BY <2>1 DEF LastToRun, InBox, InBatch, Running
  <2> QED BY <1>1, <1>2, <1>6, <1>k, <2>1, <2>2
          DEF ChargesAreComplete, Uncharged, ChargedRightly
<1>7. CASE AtTheEndStep
  BY <1>7, LeavesTheBatch DEF InBatch
<1>8. CASE Done \/ UNCHANGED vars
  BY <1>1, <1>2, <1>8, TaskStays, SupersededStays
     DEF Done, vars, ChargesAreComplete, LastToRun, Uncharged, ChargedRightly
<1> QED BY <1>3, <1>4, <1>5, <1>6, <1>7, <1>8 DEF Next, TaskEnds, InBoxStep, AtTheEndStep

-----------------------------------------------------------------------------
(* What an ambient task is held to, and what its turn then says of it. *)

(* The rules change when a task takes them and when its inputs arrive. *)
LEMMA IntoRules ==
  ASSUME StateOK, RecordsFollowPlan, [Next]_vars, pc' \in {"provision", "agent"}
  PROVE  BeginTask \/ Provision \/ UNCHANGED vars
<1>1. ~StartAttempt /\ ~Done
  BY Zenon DEF StartAttempt, Done, StateOK, vars, InBatch, Running, InBox, AtTheEnd
<1>2. ~TaskEnds
  BY TaskEndsFrame
<1>3. ~InBoxStep
  BY InBoxFrame DEF InBox
<1>4. ~AtTheEndStep
  BY LeavesTheBatch DEF InBatch, Running
<1> QED BY <1>1, <1>2, <1>3, <1>4, Zenon DEF Next, TaskEnds, InBoxStep, AtTheEndStep

(* A task that runs ambient makes its batch one with an ambient task. *)
LEMMA AmbientPlanned ==
  ASSUME StateOK, Len(records) < Len(plan.tasks), ~Sandboxed(Task)
  PROVE  SomeAmbient
<1>1. plan.tasks \in Seq(Tasks) /\ records \in Seq(RecordSet)
  BY PlansAssumption DEF StateOK
<1>2. Len(records) + 1 \in DOMAIN plan.tasks
  BY <1>1
<1> QED BY <1>2 DEF SomeAmbient, Task

(* The rules of an ambient task, as it takes them: by name every leftover, *)
(* by content those that another run made or that were there before.       *)
LEMMA RulesTaken ==
  ASSUME IInv, [Next]_vars, BeginTask, ~Sandboxed(Task), ghost'.seen
  PROVE  /\ rules'.paths = {n \in Names : home[n] # "none"} \ Baseline
         /\ \A n \in rules'.paths : ghost.maker[n] # Task => home[n] \in rules'.prints
         /\ ~Superseded(Task) => \A content \in rules'.prints :
              \E n \in rules'.paths : content = home[n] /\ ghost.maker[n] # Task
<1>1. /\ StateOK /\ pc' = "provision" /\ Len(records) < Len(plan.tasks)
      /\ plan' = plan /\ home' = home /\ ghost'.maker = ghost.maker
      /\ inventory'.preExisting = inventory.preExisting
      /\ inventory'.createdBy = Charged /\ records' = records
      /\ rules' = build_inventory_rules(home, Baseline,
                    Fingerprintable(Charged, inventory.preExisting, Task))
  BY BeginFrame DEF IInv
<1>2. /\ SomeAmbient' /\ Task' = Task /\ Planned' = Planned
      /\ \A t : Sandboxed(t)' = Sandboxed(t)
  BY <1>1, AmbientPlanned, PlanFixes, TaskStays
<1>3. pc' \in InBatch /\ Task \in Tasks /\ Task \notin {"nobody", "before"}
  BY <1>1, TaskType, TasksAssumption DEF InBatch, Running
<1>4. inventory.preExisting = {n \in Names : ghost.maker[n] = "before"} \ Baseline
  BY <1>1, <1>2, <1>3, StartIsRememberedStep DEF StartIsRemembered
<1>5. ASSUME NEW n \in Names, Charged[n] # "nobody"
      PROVE  /\ ghost.maker[n] \in Tasks /\ Charged[n] \in Planned
             /\ \/ Charged[n] = ghost.maker[n]
                \/ Sandboxed(Charged[n]) /\ Superseded(ghost.maker[n])
  BY <1>1, <1>2, <1>3, <1>5, SupersededStays, ChargesAreRightStep DEF ChargesAreRight, ChargedRightly
<1>6. ASSUME NEW n \in Names, n \notin Baseline, home[n] # "none", ghost.maker[n] \in Tasks \ {Task}
      PROVE  Charged[n] # "nobody"
  BY <1>1, <1>2, <1>3, <1>6, SupersededStays, ChargesAreCompleteStep
     DEF ChargesAreComplete, Uncharged, LastToRun, ChargedRightly
<1>7. DOMAIN Charged = Names
  BY <1>1, AttributedType DEF Charged
<1>8. DOMAIN home = Names /\ ghost.maker \in [Names -> Tasks \cup {"nobody", "before"}]
  BY <1>1 DEF StateOK, GhostOK
<1>9. rules'.paths = {n \in Names : home[n] # "none"} \ Baseline
  BY <1>1, <1>8 DEF build_inventory_rules, Leftovers
<1> DEFINE Answers == inventory.preExisting \cup {n \in Names : Charged[n] \notin {"nobody", Task}}
<1>10. rules'.prints = {home[n] : n \in rules'.paths \cap Answers}
  BY <1>1, <1>7 DEF build_inventory_rules, Fingerprintable
<1>11. ASSUME NEW n \in rules'.paths, ghost.maker[n] # Task PROVE n \in Answers
  <2>1. n \in Names /\ n \notin Baseline /\ home[n] # "none"
    BY <1>9
  <2>2. ghost.maker[n] # "nobody"
    BY <1>1, <2>1, BeginFrame DEF IInv, MakersAreKnown, InBatch
  <2>3. CASE ghost.maker[n] = "before"
    BY <1>4, <2>1, <2>3
  <2>4. CASE ghost.maker[n] \in Tasks
    <3>1. Charged[n] # "nobody"
      BY <1>6, <1>11, <2>1, <2>4
    <3>2. Charged[n] # Task
      BY <1>5, <1>11, <2>1, <3>1
    <3> QED BY <2>1, <3>1, <3>2
  <2> QED BY <1>8, <2>1, <2>2, <2>3, <2>4
<1>12. ASSUME ~Superseded(Task), NEW n \in Answers PROVE ghost.maker[n] # Task
  <2>1. CASE n \in inventory.preExisting
    BY <1>3, <1>4, <2>1
  <2>2. CASE n \in Names /\ Charged[n] \notin {"nobody", Task}
    BY <1>5, <1>12, <2>2
  <2> QED BY <2>1, <2>2
<1> HIDE DEF Answers
<1> QED BY <1>9, <1>10, <1>11, <1>12

LEMMA RulesCoverStep == IInv /\ [Next]_vars => RulesCoverLeftovers'
<1> SUFFICES ASSUME IInv, [Next]_vars, UnderRules' PROVE RulesCoverLeftovers'
  BY DEF RulesCoverLeftovers
<1>1. /\ StateOK /\ RecordsFollowPlan /\ RulesCoverLeftovers /\ plan' = plan
  BY PlanStays DEF IInv
<1>2. BeginTask \/ Provision \/ UNCHANGED vars
  BY <1>1, IntoRules DEF UnderRules
<1>3. CASE BeginTask
  <2>1. /\ records' = records /\ home' = home /\ ghost'.maker = ghost.maker
    BY <1>1, <1>3, BeginFrame
  <2>2. ~Sandboxed(Task) /\ ghost'.seen /\ Task' = Task
    BY <1>1, <2>1, TaskStays DEF UnderRules
  <2>3. Guarded' \subseteq rules'.paths
    BY <1>1, <1>3, <2>1, <2>2, RulesTaken DEF Guarded
  <2> QED BY <1>1, <1>3, <2>1, <2>2, <2>3, RulesTaken DEF RulesCoverLeftovers
<1>4. CASE Provision
  <2>1. /\ pc = "provision" /\ records' = records
        /\ home' = [n \in Names |-> IF n \in plan.delivered[Task] THEN "input" ELSE home[n]]
        /\ rules' = drop_fingerprints_matching_inputs(rules, home', plan.delivered[Task], Produced)
        /\ ghost' = [ghost EXCEPT !.refused = @ \cap {"sweep"}, !.maker =
                       [n \in Names |-> IF n \in plan.delivered[Task] /\ @[n] = "nobody"
                                        THEN Task ELSE @[n]]]
    BY <1>4 DEF Provision
  <2>2. /\ ghost'.seen = ghost.seen
        /\ \A n \in Names \ plan.delivered[Task] : ghost'.maker[n] = ghost.maker[n]
    BY <1>1, <2>1 DEF StateOK, GhostOK
  <2>3. UnderRules /\ Task' = Task
    BY <1>1, <2>1, <2>2, TaskStays DEF UnderRules
  <2>4. Guarded' = Guarded /\ \A n \in Guarded : home'[n] = home[n]
    BY <1>1, <2>1, <2>3 DEF Guarded
  <2>5. /\ rules'.paths = rules.paths
        /\ \A content \in rules.prints : content # "input" => content \in rules'.prints
    <3>1. plan.delivered[Task] \subseteq Names
      BY <1>1, <1>4, HomeChanges, PlansAssumption DEF StateOK
    <3>2. \A n \in plan.delivered[Task] : home'[n] = "input"
      BY <2>1, <3>1
    <3> QED BY <1>1, <2>1, <3>2 DEF drop_fingerprints_matching_inputs, StateOK, RulesOK
  <2>6. Guarded \subseteq Names \ plan.delivered[Task]
    BY DEF Guarded
  <2> QED BY <1>1, <2>2, <2>3, <2>4, <2>5, <2>6 DEF RulesCoverLeftovers
<1>5. CASE UNCHANGED vars
  BY <1>1, <1>5, TaskStays DEF vars, RulesCoverLeftovers, UnderRules, Guarded
<1> QED BY <1>2, <1>3, <1>4, <1>5

LEMMA RulesSpareStep == IInv /\ [Next]_vars => RulesSpareTheHonest'
<1> SUFFICES ASSUME IInv, [Next]_vars, UnderRules', ghost'.alone,
                    ~Superseded(Task)'
             PROVE  RulesSpareTheHonest'
  BY DEF RulesSpareTheHonest
<1>1. /\ StateOK /\ RecordsFollowPlan /\ RulesSpareTheHonest /\ plan' = plan
  BY PlanStays DEF IInv
<1>2. BeginTask \/ Provision \/ UNCHANGED vars
  BY <1>1, IntoRules DEF UnderRules
<1>k. ~Superseded(Task)
  <2>1. records' = records
    BY <1>2, Zenon DEF BeginTask, Provision, vars
  <2>2. Task' = Task
    BY <1>1, <2>1, TaskStays
  <2> QED BY <1>1, <2>1, <2>2, SupersededStays
<1>3. CASE BeginTask
  <2>1. /\ pc' = "provision" /\ records' = records /\ home' = home /\ ghost'.maker = ghost.maker
    BY <1>1, <1>3, BeginFrame
  <2>2. ~Sandboxed(Task) /\ ghost'.seen /\ Task' = Task
    BY <1>1, <2>1, TaskStays DEF UnderRules
  <2>3. NoCollision
    BY <1>1, <1>3, <2>2, BeginFrame
  <2>4. \A content \in rules'.prints :
          \E n \in Names \ Baseline :
            content = home[n] /\ home[n] # "none" /\ ghost.maker[n] # Task
    BY <1>1, <1>3, <1>k, <2>2, RulesTaken
  <2>5. Task \notin rules'.prints /\ \A b \in Baseline : home[b] # "none" => home[b] \notin rules'.prints
    BY <2>3, <2>4 DEF NoCollision
  <2>6. ASSUME "input" \in rules'.prints PROVE plan.delivered[Task] \ Produced' # {}
    <3>1. PICK n \in Names : home[n] = "input" /\ ghost.maker[n] # Task
      BY <2>4, <2>6
    <3>2. ghost.maker[n] = "before" /\ n \in plan.delivered[Task]
      BY <2>3, <3>1 DEF NoCollision
    <3>3. pc' \in InBatch /\ SomeAmbient'
      BY <1>1, <1>3, <2>1, <2>2, AmbientPlanned, PlanFixes, BeginFrame DEF InBatch, Running
    <3>4. inventory'.createdBy[n] = "nobody"
      BY <2>1, <2>2, <3>2, <3>3, ChargesAreRightStep, TasksAssumption DEF ChargesAreRight
    <3> QED BY <3>2, <3>4 DEF Produced
  <2> QED BY <1>1, <2>1, <2>2, <2>5, <2>6 DEF RulesSpareTheHonest
<1>4. CASE Provision
  <2>1. /\ pc = "provision" /\ records' = records
        /\ home' = [n \in Names |-> IF n \in plan.delivered[Task] THEN "input" ELSE home[n]]
        /\ rules' = drop_fingerprints_matching_inputs(rules, home', plan.delivered[Task], Produced)
        /\ pc' = IF ~Sandboxed(Task) THEN "agent" ELSE IF plan.remap THEN "chown" ELSE "launch"
        /\ \E maker : ghost' = [ghost EXCEPT !.refused = @ \cap {"sweep"}, !.maker = maker]
    BY <1>4 DEF Provision
  <2>2. ghost'.seen = ghost.seen /\ ghost'.alone = ghost.alone
    BY <1>1, <2>1 DEF StateOK, GhostOK
  <2>3. UnderRules /\ Task' = Task /\ ghost.alone /\ pc' = "agent"
    BY <1>1, <2>1, <2>2, TaskStays DEF UnderRules
  <2>4. plan.delivered[Task] \subseteq Names
    BY <1>1, <1>4, HomeChanges, PlansAssumption DEF StateOK
  <2>5. \A n \in plan.delivered[Task] : home'[n] = "input"
    BY <2>1, <2>4
  <2>6. rules'.prints = rules.prints \ {home'[n] : n \in plan.delivered[Task] \ Produced}
    BY <1>1, <2>1 DEF drop_fingerprints_matching_inputs, StateOK, RulesOK
  <2>7. "input" \notin rules'.prints
    BY <1>1, <1>k, <2>1, <2>3, <2>5, <2>6 DEF RulesSpareTheHonest
  <2>8. Task \notin rules'.prints
    BY <1>1, <1>k, <2>3, <2>6 DEF RulesSpareTheHonest
  <2>9. ASSUME NEW b \in Baseline, home'[b] # "none" PROVE home'[b] \notin rules'.prints
    BY <1>1, <1>k, <2>1, <2>3, <2>6, <2>7, <2>9, NamesAssumption DEF RulesSpareTheHonest
  <2> QED BY <1>1, <2>3, <2>5, <2>7, <2>8, <2>9 DEF RulesSpareTheHonest
<1>5. CASE UNCHANGED vars
  BY <1>1, <1>5, <1>k, TaskStays DEF vars, RulesSpareTheHonest, UnderRules, Produced
<1> QED BY <1>2, <1>3, <1>4, <1>5

(* What the turn of an ambient task says of it is deserved. *)
LEMMA TurnIsJudged ==
  ASSUME IInv, pc = "agent",
         NEW reads \in SUBSET {n \in Names : home[n] # "none"},
         NEW writes \in SUBSET (Names \ Baseline),
         NEW hidden \in BOOLEAN, NEW echo \in BOOLEAN
  PROVE  LET record == TurnRecord(reads, hidden, writes, echo) IN
         /\ record.must => record.report = "flagged"
         /\ record.never /\ ~Superseded(Task) => record.report # "flagged"
<1> DEFINE record == TurnRecord(reads, hidden, writes, echo)
           turn == TurnOf(reads, hidden, writes, echo)
           held == filter_rules_for_prompt(rules, plan.named[Task])
<1>1. /\ StateOK /\ ~Sandboxed(Task) /\ Len(records) < Len(plan.tasks)
      /\ RulesCoverLeftovers /\ RulesSpareTheHonest
  BY DEF IInv, BoxSoFar, RecordsFollowPlan, Running
<1>2. Task \in Tasks
  BY <1>1, TaskType
<1>3. plan.delivered[Task] \subseteq plan.named[Task]
  BY <1>1, <1>2, PlansAssumption DEF StateOK
<1>4. held.paths = rules.paths \ plan.named[Task] /\ held.prints = rules.prints
  BY <1>1 DEF filter_rules_for_prompt, StateOK, RulesOK
<1>5. /\ turn.paths = (IF hidden THEN {} ELSE reads) \cup writes
      /\ turn.shown = {home[n] : n \in reads}
                        \cup (IF echo /\ writes # {} THEN {Task} ELSE {})
  BY DEF TurnOf
<1>6. /\ record.report = scan_record(held, turn)
      /\ record.must = (ghost.seen /\ ReadsLeftover(reads, hidden))
      /\ record.never = (Authorized(reads, writes) /\ ghost.seen /\ ghost.alone)
  BY DEF TurnRecord, Record
<1> HIDE DEF record, turn, held
<1>7. ASSUME record.must PROVE record.report = "flagged"
  <2>1. PICK n \in reads \ (plan.delivered[Task] \cup Baseline) :
          \/ ~hidden /\ n \notin plan.named[Task]
          \/ ghost.maker[n] # Task /\ home[n] # "input"
    BY <1>6, <1>7 DEF ReadsLeftover
  <2>2. n \in Guarded /\ UnderRules
    BY <1>1, <1>6, <1>7, <2>1 DEF Guarded, UnderRules
  <2>3. held.paths \cap turn.paths # {} \/ held.prints \cap turn.shown # {}
    <3>1. CASE ~hidden /\ n \notin plan.named[Task]
      BY <1>1, <1>4, <1>5, <2>1, <2>2, <3>1 DEF RulesCoverLeftovers
    <3>2. CASE ghost.maker[n] # Task /\ home[n] # "input"
      BY <1>1, <1>4, <1>5, <2>1, <2>2, <3>2 DEF RulesCoverLeftovers
    <3> QED BY <2>1, <3>1, <3>2
  <2>4. turn # NoTurn
    BY <2>3 DEF NoTurn
  <2> QED BY <1>6, <2>3, <2>4 DEF scan_record
<1>8. ASSUME record.never, ~Superseded(Task) PROVE record.report # "flagged"
  <2>1. /\ UnderRules /\ ghost.alone /\ ~Superseded(Task)
        /\ reads \subseteq plan.delivered[Task] \cup Baseline /\ writes \subseteq plan.named[Task]
    BY <1>1, <1>6, <1>8 DEF UnderRules, Authorized
  <2>2. /\ rules.paths \cap Baseline = {}
        /\ Task \notin rules.prints /\ "input" \notin rules.prints
        /\ \A b \in Baseline : home[b] # "none" => home[b] \notin rules.prints
        /\ \A n \in plan.delivered[Task] : home[n] = "input"
    BY <1>1, <2>1 DEF RulesCoverLeftovers, RulesSpareTheHonest
  <2>3. held.paths \cap turn.paths = {}
    BY <1>3, <1>4, <1>5, <2>1, <2>2
  <2>4. \A n \in reads : home[n] \notin rules.prints
    BY <2>1, <2>2
  <2>5. held.prints \cap turn.shown = {}
    BY <1>4, <1>5, <2>2, <2>4
  <2> QED BY <1>6, <2>3, <2>5 DEF scan_record
<1> QED BY <1>7, <1>8 DEF record

(* A task's end leaves the records before it, and one that is deserved. *)
Deserved(i, record) ==
  /\ record.must => record.report = "flagged"
  /\ record.never /\ ~Overtaken(i) => record.report # "flagged"

LEMMA LastIsDeserved ==
  ASSUME IInv, TaskEnds
  PROVE  \E record : Deserved(Len(records) + 1, record) /\ records' = Append(records, record)
<1>1. CASE RunFails
  <2>1. records' = Append(records, Record(scan_record(rules, NoTurn), FALSE, TRUE))
    BY <1>1 DEF RunFails, Finish
  <2>2. Deserved(Len(records) + 1, Record(scan_record(rules, NoTurn), FALSE, TRUE))
    BY DEF Deserved, Record, scan_record
  <2> QED BY <2>1, <2>2
<1>2. CASE SandboxReturns
  <2>1. records' = Append(records, Record(IF box.failed THEN "no_data" ELSE "clean", FALSE, TRUE))
    BY <1>2 DEF SandboxReturns, Finish
  <2>2. Deserved(Len(records) + 1, Record(IF box.failed THEN "no_data" ELSE "clean", FALSE, TRUE))
    BY DEF Deserved, Record
  <2> QED BY <2>1, <2>2
<1>3. CASE AmbientTurn
  <2>1. PICK reads \in SUBSET {n \in Names : home[n] # "none"}, hidden \in BOOLEAN,
             echo \in BOOLEAN, writes \in SUBSET (Names \ Baseline) :
          Finish(TurnRecord(reads, hidden, writes, echo))
    BY <1>3, Zenon DEF AmbientTurn
  <2>2. pc = "agent"
    BY <1>3 DEF AmbientTurn
  <2>3. Deserved(Len(records) + 1, TurnRecord(reads, hidden, writes, echo))
    <3>1. Overtaken(Len(records) + 1) <=> Superseded(Task)
      <4>1. Len(records) \in Nat
        BY DEF IInv, StateOK
      <4>2. (Len(records) + 1) - 1 = Len(records)
        BY <4>1
      <4> QED BY <4>2 DEF Overtaken, Superseded, Task
    <3> QED BY <2>2, <3>1, TurnIsJudged DEF Deserved
  <2>4. records' = Append(records, TurnRecord(reads, hidden, writes, echo))
    BY <2>1, Zenon DEF Finish
  <2> QED BY <2>3, <2>4
<1> QED BY <1>1, <1>2, <1>3 DEF TaskEnds

LEMMA FlagsStep == IInv /\ [Next]_vars => FlagsAreDeserved'
<1>0. [Next]_vars => \A i : Overtaken(i)' <=> Overtaken(i)
  BY PlanStays DEF Overtaken, Sandboxed
<1> SUFFICES ASSUME IInv, [Next]_vars PROVE \A i \in DOMAIN records' : Deserved(i, records'[i])
  BY <1>0 DEF FlagsAreDeserved, Deserved
<1>1. /\ StateOK /\ RecordsFollowPlan /\ records \in Seq(RecordSet)
      /\ \A i \in DOMAIN records : records[i] \in RecordSet /\ Deserved(i, records[i])
  BY DEF IInv, StateOK, FlagsAreDeserved, Deserved
<1>2. CASE TaskEnds
  <2>1. PICK record : Deserved(Len(records) + 1, record) /\ records' = Append(records, record)
    BY <1>2, LastIsDeserved
  <2> QED BY <1>1, <2>1
<1>3. CASE StartAttempt \/ Kill \/ Aggregate
  <2>1. records' = <<>>
    BY <1>3, Zenon DEF StartAttempt, Kill, Aggregate
  <2> QED BY <2>1
<1>4. CASE Annotate
  <2>1. PICK raised :
          records' = [i \in DOMAIN records |->
                        [records[i] EXCEPT !.report = IF i \in raised THEN "none" ELSE @,
                                           !.must = FALSE, !.never = FALSE]]
    BY <1>4 DEF Annotate
  <2> QED BY <1>1, <2>1 DEF RecordSet, Deserved
<1>5. CASE Score
  BY <1>1, <1>5 DEF Score, RecordSet, Deserved
<1>6. CASE InBoxStep
  BY <1>1, <1>6, InBoxFrame
<1>7. CASE BeginTask \/ Provision \/ WriteResults \/ RewriteResults \/ WriteRows \/ Retry \/ Done
           \/ UNCHANGED vars
  <2>1. records' = records
    BY <1>7, Zenon DEF BeginTask, Provision, WriteResults, RewriteResults, WriteRows, Retry, Done,
       vars
  <2> QED BY <1>1, <2>1
<1> QED BY <1>2, <1>3, <1>4, <1>5, <1>6, <1>7 DEF Next, TaskEnds, InBoxStep

-----------------------------------------------------------------------------
LEMMA IInvStep == IInv /\ [Next]_vars => IInv'
  BY StateStep, RecordsFollowPlanStep, ResultsStep, BoxSoFarStep, MakersStep,
     StartIsRememberedStep, ChargesAreRightStep, ChargesAreCompleteStep, RulesCoverStep,
     RulesSpareStep, FlagsStep, SandboxStep
     DEF IInv

(* The invariant behind the three theorems below. *)
THEOREM Invariance == Spec => []IInv
  BY InitInv, IInvStep, PTL DEF Spec

(* Detection is fair, whatever the plans, the homes and the tasks, where   *)
(* the batch's inventories succeeded: a run that reads what another left   *)
(* behind is flagged; an honest one is not, where no other run left its    *)
(* lines first (NoCollision) and no sandboxed task followed an earlier     *)
(* turn of its task (default.py:977-1012, inventory.py:241-345).           *)
THEOREM DetectionIsFair == Spec => []FlagsAreDeserved
<1>1. IInv => FlagsAreDeserved
  BY DEF IInv
<1> QED BY <1>1, Invariance, PTL

(* Scoring cannot lose what was executed: an attempt that ended by itself  *)
(* on a disk that took its writes leaves results and a row per task, in    *)
(* the plan's order, for any length of batch (default.py:882-901).         *)
THEOREM ResultsSurvive == Spec => []ResultsOutliveScoring
<1>1. IInv => ResultsOutliveScoring
  BY DEF IInv
<1> QED BY <1>1, Invariance, PTL

(* Sandboxes are cleaned up, and no other harness's containers with them,  *)
(* through any number of killed attempts (sandbox.py:529-613, 671-701).    *)
THEOREM SandboxesAreCleanedUp == Spec => []SandboxIsLeftClean
<1>1. IInv => SandboxIsLeftClean
  BY DEF IInv
<1> QED BY <1>1, Invariance, PTL

-----------------------------------------------------------------------------
(* What the attempts of an invocation say, beside the ledger. *)

(* The rows of all attempts, each with its place. *)
Placed == load_rows([i \in DOMAIN files |-> files[i].rows])

Sayings == Outcomes \cup {"missing"}

LedgerOK ==
  /\ ghost.ledger \in Seq([Tasks -> Sayings]) /\ ghost.ledger # <<>>
  /\ ghost.torn \subseteq DOMAIN ghost.ledger
  /\ combined \in Seq(SUBSET Row)
  /\ Len(combined) = IF pc = "summary" THEN Here ELSE Here - 1

(* A row's moment is the attempt that wrote it; an attempt that has not    *)
(* ended has written none; the ledger knows of every torn file. *)
RowsOK ==
  /\ attempt = Len(files)
  /\ \A f \in DOMAIN files : \A l \in DOMAIN files[f].rows : files[f].rows[l].t = f
  /\ Here \in ghost.torn <=> \E f \in DOMAIN files : files[f].written = "torn"
  /\ pc \in InBatch \cup AtTheEnd =>
       files[Len(files)].rows = <<>> /\ files[Len(files)].written = "none"

(* The ledger's word on a task is that of its newest row. *)
LastSays(t, said) ==
  IF said = "missing" THEN RowsOf(Placed, t) = {}
  ELSE \E x \in RowsOf(Placed, t) :
         x.row.outcome = said /\ \A y \in RowsOf(Placed, t) : Newer(x, y)

LedgerIsLast == \A t \in Tasks : LastSays(t, ghost.ledger[Here][t])

(* What was aggregated says what the ledger says, or nothing. *)
CombinedFollowsLedger ==
  \A i \in DOMAIN combined, t \in Tasks :
    {r.outcome : r \in AggregatedRows(i, t)} =
      IF i \in ghost.torn \/ ghost.ledger[i][t] = "missing" THEN {} ELSE {ghost.ledger[i][t]}

AggregationInv == LedgerOK /\ RowsOK /\ LedgerIsLast /\ CombinedFollowsLedger

-----------------------------------------------------------------------------
(* Counting. *)

LEMMA LeastNumber ==
  ASSUME NEW S \in SUBSET Nat, S # {}
  PROVE  \E m \in S : \A k \in S : m <= k
<1>1. PICK m \in S : \A k \in S : ~(<<k, m>> \in OpToRel(<, Nat))
  BY NatLessThanWellFounded, WFMin
<1>2. \A k \in S : ~(k < m)
  BY <1>1 DEF OpToRel
<1> QED BY <1>2

LEMMA GreatestNumber ==
  ASSUME NEW N \in Nat, NEW S \in SUBSET (1 .. N), S # {}
  PROVE  \E m \in S : \A k \in S : k <= m
<1> DEFINE T == {N - k : k \in S}
<1>1. PICK m \in T : \A k \in T : m <= k
  <2>1. \A k \in S : N - k \in Nat
    OBVIOUS
  <2>2. T \in SUBSET Nat /\ T # {}
    BY <2>1
  <2> HIDE DEF T
  <2> QED BY <2>2, LeastNumber
<1>2. PICK s \in S : m = N - s
  OBVIOUS
<1>3. \A k \in S : m <= N - k
  BY <1>1
<1>4. \A k \in S : k \in Nat
  OBVIOUS
<1> QED BY <1>2, <1>3, <1>4

(* The draws of k from a finite set are finitely many. *)
LEMMA DrawsAreFinite ==
  ASSUME NEW k, NEW S, IsFiniteSet(S)
  PROVE  IsFiniteSet(kSubset(k, S)) /\ Cardinality(kSubset(k, S)) \in Nat
<1>1. kSubset(k, S) \in SUBSET (SUBSET S)
  BY DEF kSubset
<1>2. IsFiniteSet(SUBSET S)
  BY FS_SUBSET
<1>3. IsFiniteSet(kSubset(k, S))
  BY <1>1, <1>2, FS_Subset
<1> QED BY <1>3, FS_CardinalityType

(* How many draws there are depends on the size of the set only. *)
LEMMA DrawsAlike ==
  ASSUME NEW k, NEW S, NEW T, IsFiniteSet(S), IsFiniteSet(T),
         Cardinality(S) = Cardinality(T)
  PROVE  Cardinality(kSubset(k, S)) = Cardinality(kSubset(k, T))
<1>1. PICK f : f \in Bijection(S, T)
  BY FS_SameCardinalityBij DEF ExistsBijection
<1>2. /\ f \in [S -> T] /\ \A y \in T : \E x \in S : f[x] = y
      /\ \A x, y \in S : f[x] = f[y] => x = y
  BY <1>1 DEF Bijection, Injection, Surjection, IsInjective
<1> DEFINE Image(d) == {f[x] : x \in d}
<1> DEFINE F == [d \in kSubset(k, S) |-> Image(d)]
<1>3. ASSUME NEW d \in SUBSET S
      PROVE  Image(d) \in SUBSET T /\ Cardinality(Image(d)) = Cardinality(d)
  <2> DEFINE g == [x \in d |-> f[x]]
  <2>1. g \in [d -> Image(d)] /\ \A y \in Image(d) : \E x \in d : g[x] = y
    BY <1>2
  <2>2. \A x, y \in DOMAIN g : g[x] = g[y] => x = y
    BY <1>2
  <2>3. g \in Bijection(d, Image(d))
    BY <2>1, <2>2 DEF Bijection, Injection, Surjection, IsInjective
  <2>4. IsFiniteSet(d)
    BY FS_Subset
  <2>5. Cardinality(Image(d)) = Cardinality(d)
    <3> HIDE DEF Image, g
    <3> QED BY <2>3, <2>4, FS_Bijection DEF ExistsBijection
  <2> QED BY <1>2, <2>5
<1>4. F \in [kSubset(k, S) -> kSubset(k, T)]
  <2>1. \A d \in kSubset(k, S) : Image(d) \in kSubset(k, T)
    <3> HIDE DEF Image
    <3> QED BY <1>3 DEF kSubset
  <2> QED BY <2>1
<1>5. \A d, e \in kSubset(k, S) : Image(d) = Image(e) => d = e
  <2> SUFFICES ASSUME NEW d \in SUBSET S, NEW e \in SUBSET S, Image(d) = Image(e)
               PROVE  d \subseteq e
    BY DEF kSubset
  <2> SUFFICES ASSUME NEW x \in d PROVE x \in e
    OBVIOUS
  <2>1. f[x] \in Image(e)
    BY Zenon
  <2>2. PICK y \in e : f[x] = f[y]
    BY <2>1
  <2> QED BY <1>2, <2>2
<1>6. \A r \in kSubset(k, T) : \E d \in kSubset(k, S) : Image(d) = r
  <2> SUFFICES ASSUME NEW r \in kSubset(k, T) PROVE \E d \in kSubset(k, S) : Image(d) = r
    OBVIOUS
  <2> DEFINE d == {x \in S : f[x] \in r}
  <2>1. r \subseteq T /\ Cardinality(r) = k
    BY DEF kSubset
  <2>2. Image(d) = r
    BY <1>2, <2>1
  <2>3. d \in SUBSET S /\ Cardinality(d) = k
    <3>1. d \in SUBSET S
      OBVIOUS
    <3> HIDE DEF d, Image
    <3> QED BY <1>3, <2>1, <2>2, <3>1
  <2>4. d \in kSubset(k, S)
    BY <2>3 DEF kSubset
  <2> QED BY <2>2, <2>4
<1>7. F \in Bijection(kSubset(k, S), kSubset(k, T))
  <2> HIDE DEF Image
  <2>1. \A d \in DOMAIN F : F[d] = Image(d)
    OBVIOUS
  <2>2. \A r \in kSubset(k, T) : \E d \in kSubset(k, S) : F[d] = r
    BY <1>6
  <2>3. \A d, e \in DOMAIN F : F[d] = F[e] => d = e
    BY <1>5
  <2> HIDE DEF F
  <2> QED BY <1>4, <2>2, <2>3 DEF Bijection, Injection, Surjection, IsInjective
<1> QED
  <2> HIDE DEF F
  <2>1. ExistsBijection(kSubset(k, S), kSubset(k, T))
    BY <1>7 DEF ExistsBijection
  <2> QED BY <2>1, DrawsAreFinite, FS_Bijection

(* math.comb counts them. *)
LEMMA CombCounts ==
  ASSUME NEW k, NEW S, IsFiniteSet(S)
  PROVE  Comb(Cardinality(S), k) = Cardinality(kSubset(k, S))
<1>1. Cardinality(S) \in Nat
  BY FS_CardinalityType
<1>2. PICK n \in Nat : n = Cardinality(S)
  BY <1>1
<1>3. IsFiniteSet(1 .. n) /\ Cardinality(1 .. n) = n
  BY FS_Interval
<1> QED BY <1>2, <1>3, DrawsAlike DEF Comb

(* The estimators are the shares of the draws that hold a pass, and that   *)
(* hold nothing else. *)
LEMMA EstimatorsAreShares ==
  ASSUME NEW k, NEW kept, NEW passed \in SUBSET kept, IsFiniteSet(kept)
  PROVE  LET draws == kSubset(k, kept)
             n == Cardinality(kept)
             c == Cardinality(passed) IN
         /\ pass_at_k(n, c, k) =
              <<Cardinality({d \in draws : d \cap passed # {}}), Cardinality(draws)>>
         /\ pass_pow_k(n, c, k) =
              <<Cardinality({d \in draws : d \subseteq passed}), Cardinality(draws)>>
<1> DEFINE draws == kSubset(k, kept)
<1> DEFINE failed == kept \ passed
<1>1. IsFiniteSet(passed) /\ IsFiniteSet(failed)
  BY FS_Subset
<1>2. Cardinality(failed) = Cardinality(kept) - Cardinality(passed)
  <2>1. kept \cap passed = passed
    OBVIOUS
  <2> QED BY <2>1, FS_Difference
<1>3. /\ Comb(Cardinality(kept), k) = Cardinality(draws)
      /\ Comb(Cardinality(passed), k) = Cardinality(kSubset(k, passed))
      /\ Comb(Cardinality(kept) - Cardinality(passed), k) = Cardinality(kSubset(k, failed))
  BY <1>1, <1>2, CombCounts
<1>4. {d \in draws : d \subseteq passed} = kSubset(k, passed)
  BY DEF kSubset
<1>5. {d \in draws : d \cap passed # {}} = draws \ kSubset(k, failed)
  BY DEF kSubset
<1>6. draws \cap kSubset(k, failed) = kSubset(k, failed)
  BY DEF kSubset
<1>7. IsFiniteSet(draws)
  BY DrawsAreFinite
<1>8. Cardinality(draws \ kSubset(k, failed)) = Cardinality(draws) - Cardinality(kSubset(k, failed))
  <2> HIDE DEF draws, failed
  <2> QED BY <1>6, <1>7, FS_Difference
<1>9. pass_at_k(Cardinality(kept), Cardinality(passed), k) =
        <<Cardinality({d \in draws : d \cap passed # {}}), Cardinality(draws)>>
  <2> HIDE DEF draws, failed
  <2> QED BY <1>3, <1>5, <1>8 DEF pass_at_k
<1>10. pass_pow_k(Cardinality(kept), Cardinality(passed), k) =
         <<Cardinality({d \in draws : d \subseteq passed}), Cardinality(draws)>>
  <2> HIDE DEF draws, failed
  <2> QED BY <1>3, <1>4 DEF pass_pow_k
<1> QED BY <1>9, <1>10

-----------------------------------------------------------------------------
(* Rows and their places. *)

LEMMA PlacedRows ==
  \A x : x \in Placed <=>
    \E f \in DOMAIN files : \E l \in DOMAIN files[f].rows :
      x = [file |-> f, line |-> l, row |-> files[f].rows[l]]
  BY DEF Placed, load_rows

LEMMA PlacedTypes ==
  ASSUME StateOK, RowsOK
  PROVE  /\ \A x \in Placed : /\ x.file \in 1 .. Len(files) /\ x.line \in Nat
                              /\ x.row \in Row /\ x.row.t = x.file
         /\ \A x, y \in Placed : x.file = y.file /\ x.line = y.line => x = y
<1>1. files \in Seq(File)
  BY DEF StateOK
<1>2. DOMAIN files = 1 .. Len(files) /\ \A f \in DOMAIN files : files[f].rows \in Seq(Row)
  <2>1. DOMAIN files = 1 .. Len(files) /\ \A f \in DOMAIN files : files[f] \in File
    BY <1>1
  <2> QED BY <2>1 DEF File
<1>3. \A f \in DOMAIN files : \A l \in DOMAIN files[f].rows :
        l \in Nat /\ files[f].rows[l] \in Row /\ files[f].rows[l].t = f
  BY <1>2 DEF RowsOK
<1>4. ASSUME NEW x \in Placed
      PROVE  /\ x.file \in 1 .. Len(files) /\ x.line \in Nat
             /\ x.row \in Row /\ x.row.t = x.file
  <2>1. PICK f \in DOMAIN files : \E l \in DOMAIN files[f].rows :
          x = [file |-> f, line |-> l, row |-> files[f].rows[l]]
    BY PlacedRows
  <2> QED BY <1>2, <1>3, <2>1
<1>5. ASSUME NEW x \in Placed, NEW y \in Placed, x.file = y.file, x.line = y.line
      PROVE  x = y
  <2>1. PICK f \in DOMAIN files : \E l \in DOMAIN files[f].rows :
          x = [file |-> f, line |-> l, row |-> files[f].rows[l]]
    BY PlacedRows
  <2>2. PICK g \in DOMAIN files : \E m \in DOMAIN files[g].rows :
          y = [file |-> g, line |-> m, row |-> files[g].rows[m]]
    BY PlacedRows
  <2> QED BY <1>5, <2>1, <2>2
<1> QED BY <1>4, <1>5

(* The row that is newer than all others of its task is the one kept. *)
LEMMA NewestIsLatest ==
  ASSUME StateOK, RowsOK, NEW t, NEW x \in RowsOf(Placed, t),
         \A y \in RowsOf(Placed, t) : Newer(x, y)
  PROVE  Latest(Placed, t) = x.row
<1> DEFINE IsNewest(z) == \A y \in RowsOf(Placed, t) : Newer(z, y)
<1>1. RowsOf(Placed, t) \subseteq Placed
  BY DEF RowsOf
<1>2. ASSUME NEW z \in RowsOf(Placed, t), IsNewest(z) PROVE z = x
  <2>1. Newer(x, z) /\ Newer(z, x)
    BY <1>2
  <2>2. x \in Placed /\ z \in Placed
    BY <1>1
  <2>3. /\ x.file \in Nat /\ x.line \in Nat /\ z.file \in Nat /\ z.line \in Nat
        /\ x.row.t \in Nat /\ z.row.t \in Nat
    BY <2>2, PlacedTypes
  <2>4. x.file = z.file /\ x.line = z.line
    BY <2>1, <2>3 DEF Newer, NotBefore
  <2> QED BY <2>2, <2>4, PlacedTypes
<1>3. (CHOOSE z \in RowsOf(Placed, t) : IsNewest(z)) = x
  <2>1. IsNewest(x)
    OBVIOUS
  <2> HIDE DEF IsNewest
  <2> QED BY <1>2, <2>1
<1> QED BY <1>3 DEF Latest

(* A row of a later attempt is newer, and so is a later one of the same. *)
LEMMA LaterIsNewer ==
  ASSUME NEW x, NEW y, x.file \in Nat, y.file \in Nat, x.line \in Nat, y.line \in Nat,
         x.row.t = x.file, y.row.t = y.file,
         x.file > y.file \/ (x.file = y.file /\ x.line >= y.line)
  PROVE  Newer(x, y)
  BY DEF Newer, NotBefore

-----------------------------------------------------------------------------
(* What the steps do to rows and ledger: nothing, a new attempt, a file    *)
(* that is torn, the rows of an attempt, the next invocation. *)

Quiet ==
  /\ combined' = combined /\ attempt' = attempt
  /\ ghost'.ledger = ghost.ledger /\ ghost'.torn = ghost.torn
  /\ Len(files') = Len(files)
  /\ \A f \in DOMAIN files : files'[f].rows = files[f].rows /\ files'[f].written = files[f].written
  /\ pc' = "summary" <=> pc = "summary"
  /\ pc' \in InBatch \cup AtTheEnd => pc \in InBatch \cup AtTheEnd

Tears ==
  /\ pc \in InBatch \cup AtTheEnd /\ pc' = "ended"
  /\ combined' = combined /\ attempt' = attempt
  /\ ghost'.ledger = ghost.ledger /\ ghost'.torn = ghost.torn \cup {Here}
  /\ files' = OnDisk("written", "torn")

RowsAreWritten ==
  /\ pc = "rows" /\ pc' = "ended"
  /\ combined' = combined /\ attempt' = attempt
  /\ files' = [files EXCEPT ![Len(files)] =
                 [files[Len(files)] EXCEPT !.rows = BuildRows, !.written = "whole"]]
  /\ ghost'.torn = ghost.torn
  /\ ghost'.ledger = [ghost.ledger EXCEPT ![Here] =
       [t \in Tasks |-> IF \E i \in DOMAIN records : records[i].task = t
                        THEN records[LastRecord(t)].outcome ELSE @[t]]]

(* What is written to the results leaves rows alone. *)
LEMMA ResultsAreNoRows ==
  ASSUME StateOK, ResultsSoFar, pc \in InBatch \cup AtTheEnd, NEW v,
         files' = OnDisk("results", v)
  PROVE  /\ Len(files') = Len(files)
         /\ \A f \in DOMAIN files :
              files'[f].rows = files[f].rows /\ files'[f].written = files[f].written
<1>1. files \in Seq(File) /\ files # <<>>
  BY DEF StateOK, ResultsSoFar
<1>2. DOMAIN files = 1 .. Len(files) /\ Len(files) \in DOMAIN files
  BY <1>1
<1>3. \A f \in DOMAIN files : files[f] \in File
  BY <1>1
<1>4. files' = [files EXCEPT ![Len(files)] = [files[Len(files)] EXCEPT !.results = v]]
  BY <1>2, <1>3 DEF OnDisk, File
<1>5. Len(files') = Len(files)
  BY <1>1, <1>2, <1>4
<1>6. ASSUME NEW f \in DOMAIN files
      PROVE  files'[f].rows = files[f].rows /\ files'[f].written = files[f].written
  <2>1. CASE f = Len(files)
    BY <1>2, <1>3, <1>4, <2>1 DEF File
  <2>2. CASE f # Len(files)
    BY <1>4, <2>2
  <2> QED BY <2>1, <2>2
<1> QED BY <1>5, <1>6

LEMMA Steps ==
  ASSUME IInv, [Next]_vars
  PROVE  Quiet \/ StartAttempt \/ Tears \/ RowsAreWritten \/ Aggregate
<1>0. StateOK /\ ResultsSoFar
  BY DEF IInv
<1>g. ghost = [ghost EXCEPT !.broken = ghost.broken]
  BY <1>0 DEF StateOK, GhostOK
<1>f. files' = files =>
        /\ Len(files') = Len(files)
        /\ \A f \in DOMAIN files :
             files'[f].rows = files[f].rows /\ files'[f].written = files[f].written
  OBVIOUS
<1>1. CASE BeginTask \/ Provision \/ RunFails \/ AmbientTurn
  <2>1. combined' = combined /\ attempt' = attempt /\ files' = files
    BY <1>1, Zenon DEF BeginTask, Provision, RunFails, AmbientTurn, batchVars
  <2>2. ghost'.ledger = ghost.ledger /\ ghost'.torn = ghost.torn
    <3>1. CASE BeginTask
      <4>1. \/ ghost' = ghost
            \/ \E seen, alone : ghost' = [ghost EXCEPT !.seen = seen, !.alone = alone]
        BY <3>1 DEF BeginTask
      <4> QED BY <1>0, <4>1 DEF StateOK, GhostOK
    <3>2. CASE Provision BY <3>2, <1>0 DEF Provision, StateOK, GhostOK
    <3>3. CASE RunFails BY <3>3 DEF RunFails
    <3>4. CASE AmbientTurn BY <3>4, <1>0 DEF AmbientTurn, StateOK, GhostOK
    <3> QED BY <1>1, <3>1, <3>2, <3>3, <3>4
  <2>3. pc \in InBatch /\ pc' # "summary"
    BY <1>1, Zenon DEF BeginTask, Provision, RunFails, AmbientTurn, Finish, InBatch, Running
  <2> QED BY <1>f, <2>1, <2>2, <2>3 DEF Quiet, InBatch, Running, InBox
<1>2. CASE InBoxStep \/ SandboxReturns
  <2>1. combined' = combined /\ attempt' = attempt /\ files' = files
    BY <1>2, Zenon DEF InBoxStep, ChownBeforeRemap, Launch, KillAgent, KillHelper,
       ChownAfterRemap, HelperEnds, StrayAgentWrites, SandboxReturns, boxVars, batchVars
  <2>2. ghost'.ledger = ghost.ledger /\ ghost'.torn = ghost.torn
    BY <1>0, <1>2 DEF InBoxStep, ChownBeforeRemap, Launch, KillAgent, KillHelper,
       ChownAfterRemap, HelperEnds, StrayAgentWrites, SandboxReturns, StateOK, GhostOK
  <2>3. pc \in InBatch /\ pc' # "summary"
    <3>1. CASE InBoxStep
      BY <3>1, Zenon DEF InBoxStep, ChownBeforeRemap, Launch, KillAgent, KillHelper,
         ChownAfterRemap, HelperEnds, StrayAgentWrites, InBatch, Running, InBox
    <3>2. CASE SandboxReturns
      BY <3>2, Zenon DEF SandboxReturns, Finish, InBatch, Running, InBox
    <3> QED BY <1>2, <3>1, <3>2
  <2> QED BY <1>f, <2>1, <2>2, <2>3 DEF Quiet, InBatch, Running, InBox
<1>3. CASE Annotate \/ Score \/ Retry \/ Done \/ UNCHANGED vars
  <2>1. combined' = combined /\ attempt' = attempt /\ files' = files
    BY <1>3, Zenon DEF Annotate, Score, Retry, Done, tailVars, batchVars, vars
  <2>2. ghost'.ledger = ghost.ledger /\ ghost'.torn = ghost.torn
    BY <1>0, <1>3 DEF Annotate, Score, Retry, Done, vars, StateOK, GhostOK
  <2>3. /\ pc' = "summary" <=> pc = "summary"
        /\ pc' \in InBatch \cup AtTheEnd => pc \in InBatch \cup AtTheEnd
    BY <1>3 DEF Annotate, Score, AfterScoring, Retry, Done, vars, InBatch, Running, InBox,
       AtTheEnd
  <2> QED BY <1>f, <2>1, <2>2, <2>3 DEF Quiet
<1>4. CASE WriteResults \/ RewriteResults
  <2>1. PICK v : files' = OnDisk("results", v)
    BY <1>4, Zenon DEF WriteResults, RewriteResults
  <2>2. combined' = combined /\ attempt' = attempt
    BY <1>4, Zenon DEF WriteResults, RewriteResults, tailVars, batchVars
  <2>3. ghost'.ledger = ghost.ledger /\ ghost'.torn = ghost.torn
    BY <1>0, <1>4 DEF WriteResults, RewriteResults, Broken, StateOK, GhostOK
  <2>4. pc \in AtTheEnd /\ pc' # "summary"
    BY <1>4, Zenon DEF WriteResults, RewriteResults, AtTheEnd
  <2> QED BY <1>0, <2>1, <2>2, <2>3, <2>4, ResultsAreNoRows DEF Quiet, AtTheEnd
<1>5. CASE WriteRows
  <2>0. pc = "rows" /\ pc' = "ended" /\ combined' = combined /\ attempt' = attempt
    BY <1>5, Zenon DEF WriteRows, tailVars, batchVars
  <2>1. CASE files' = OnDisk("written", "torn") /\ ghost' = [Broken EXCEPT !.torn = @ \cup {Here}]
    BY <1>0, <2>0, <2>1 DEF Tears, Broken, StateOK, GhostOK, AtTheEnd
  <2>2. CASE /\ files' = [files EXCEPT ![Len(files)].rows = BuildRows,
                                       ![Len(files)].written = "whole"]
             /\ ghost' = [ghost EXCEPT !.ledger[Here] =
                  [t \in Tasks |-> IF \E i \in DOMAIN records : records[i].task = t
                                   THEN records[LastRecord(t)].outcome ELSE @[t]]]
    <3>1. files \in Seq(File) /\ files # <<>>
      BY <1>0, <2>0 DEF StateOK, ResultsSoFar, AtTheEnd
    <3>2. Len(files) \in DOMAIN files /\ files[Len(files)] \in File
      BY <3>1
    <3>3. files' = [files EXCEPT ![Len(files)] =
                      [files[Len(files)] EXCEPT !.rows = BuildRows, !.written = "whole"]]
      BY <2>2, <3>1, <3>2 DEF File
    <3>4. /\ ghost'.torn = ghost.torn
          /\ ghost'.ledger = [ghost.ledger EXCEPT ![Here] =
               [t \in Tasks |-> IF \E i \in DOMAIN records : records[i].task = t
                                THEN records[LastRecord(t)].outcome ELSE @[t]]]
      BY <1>0, <2>2 DEF StateOK, GhostOK
    <3> QED BY <2>0, <3>3, <3>4 DEF RowsAreWritten
  <2> QED BY <1>5, <2>1, <2>2 DEF WriteRows
<1>6. CASE Kill
  <2>0. /\ pc \in InBatch \cup AtTheEnd /\ pc' = "ended"
        /\ combined' = combined /\ attempt' = attempt
    BY <1>0, <1>6 DEF Kill, StateOK
  <2>1. PICK during \in BOOLEAN :
          /\ files' = IF during /\ pc \in {"write", "rewrite"} THEN OnDisk("results", "torn")
                      ELSE IF during /\ pc = "rows" THEN OnDisk("written", "torn")
                      ELSE files
          /\ ghost' = [Broken EXCEPT !.maker = NoMaker, !.alone = FALSE,
                                     !.torn = IF during /\ pc = "rows" THEN @ \cup {Here} ELSE @]
    BY <1>6, Zenon DEF Kill
  <2>2. ghost'.ledger = ghost.ledger
    BY <1>0, <2>1 DEF Broken, StateOK, GhostOK
  <2>3. CASE during /\ pc = "rows"
    <3>1. ghost'.torn = ghost.torn \cup {Here}
      BY <1>0, <2>1, <2>3 DEF Broken, StateOK, GhostOK
    <3> QED BY <2>0, <2>1, <2>2, <2>3, <3>1 DEF Tears
  <2>4. CASE ~(during /\ pc = "rows")
    <3>1. ghost'.torn = ghost.torn
      BY <1>0, <2>1, <2>4 DEF Broken, StateOK, GhostOK
    <3>2. files' = files \/ files' = OnDisk("results", "torn")
      BY <2>1, <2>4
    <3>3. /\ Len(files') = Len(files)
          /\ \A f \in DOMAIN files :
               files'[f].rows = files[f].rows /\ files'[f].written = files[f].written
      BY <1>0, <1>f, <2>0, <3>2, ResultsAreNoRows
    <3> QED BY <2>0, <2>2, <3>1, <3>3 DEF Quiet, InBatch, Running, InBox, AtTheEnd
  <2> QED BY <2>3, <2>4
<1> QED BY <1>1, <1>2, <1>3, <1>4, <1>5, <1>6 DEF Next, InBoxStep

-----------------------------------------------------------------------------
(* The ledger's word holds, step by step. *)

LEMMA AggregationInit == Init => AggregationInv
<1> SUFFICES ASSUME Init PROVE AggregationInv
  OBVIOUS
<1> DEFINE none == [t \in Tasks |-> "missing"]
<1>1. /\ files = <<>> /\ attempt = 0 /\ combined = <<>> /\ pc = "start"
      /\ ghost.ledger = <<none>> /\ ghost.torn = {}
  BY DEF Init, NewGhost
<1>2. none \in [Tasks -> Sayings]
  BY DEF Sayings
<1>3. /\ ghost.ledger \in Seq([Tasks -> Sayings]) /\ Len(ghost.ledger) = 1
      /\ ghost.ledger[1] = none
  <2> HIDE DEF none
  <2> QED BY <1>1, <1>2
<1>4. LedgerOK
  BY <1>1, <1>3 DEF LedgerOK, Here
<1>5. RowsOK
  BY <1>1 DEF RowsOK, InBatch, Running, InBox, AtTheEnd
<1>6. Placed = {}
  BY <1>1, PlacedRows
<1>7. LedgerIsLast
  BY <1>3, <1>6 DEF LedgerIsLast, LastSays, RowsOf, Here
<1>8. CombinedFollowsLedger
  BY <1>1 DEF CombinedFollowsLedger
<1> QED BY <1>4, <1>5, <1>7, <1>8 DEF AggregationInv

(* What is said stays as it is where the rows are as before and at most    *)
(* this invocation is torn. *)
LEMMA SayingsStay ==
  ASSUME AggregationInv, Placed' = Placed, ghost'.ledger = ghost.ledger, combined' = combined,
         \/ ghost'.torn = ghost.torn
         \/ pc # "summary" /\ ghost'.torn = ghost.torn \cup {Here},
         pc' = "summary" <=> pc = "summary"
  PROVE  LedgerOK' /\ LedgerIsLast' /\ CombinedFollowsLedger'
<1>0. LedgerOK /\ LedgerIsLast /\ CombinedFollowsLedger
  BY DEF AggregationInv
<1>1. Here' = Here /\ Here \in DOMAIN ghost.ledger /\ Here \in Nat
  BY <1>0 DEF Here, LedgerOK
<1>2. LedgerOK'
  BY <1>0, <1>1 DEF LedgerOK
<1>3. LedgerIsLast'
  <2> SUFFICES ASSUME NEW t \in Tasks PROVE LastSays(t, ghost.ledger[Here][t])'
    BY DEF LedgerIsLast
  <2>1. LastSays(t, ghost.ledger[Here][t])
    BY <1>0 DEF LedgerIsLast
  <2> QED BY <1>1, <2>1 DEF LastSays
<1>4. CombinedFollowsLedger'
  <2> SUFFICES ASSUME NEW i \in DOMAIN combined, NEW t \in Tasks
               PROVE  {r.outcome : r \in AggregatedRows(i, t)'} =
                        IF i \in ghost'.torn \/ ghost.ledger[i][t] = "missing" THEN {}
                        ELSE {ghost.ledger[i][t]}
    BY DEF CombinedFollowsLedger
  <2>1. {r.outcome : r \in AggregatedRows(i, t)} =
          IF i \in ghost.torn \/ ghost.ledger[i][t] = "missing" THEN {}
          ELSE {ghost.ledger[i][t]}
    BY <1>0 DEF CombinedFollowsLedger
  <2>2. i \in ghost'.torn <=> i \in ghost.torn
    BY <1>0, <1>1 DEF LedgerOK
  <2>3. AggregatedRows(i, t)' = AggregatedRows(i, t)
    BY DEF AggregatedRows
  <2> QED BY <2>1, <2>2, <2>3
<1> QED BY <1>2, <1>3, <1>4

LEMMA QuietKeeps ==
  ASSUME IInv, AggregationInv, StateOK', Quiet PROVE AggregationInv'
<1>0. StateOK /\ ResultsSoFar /\ RowsOK
  BY DEF IInv, AggregationInv
<1>1. DOMAIN files' = DOMAIN files
  <2>1. files \in Seq(File) /\ files' \in Seq(File)
    BY <1>0 DEF StateOK
  <2> QED BY <2>1 DEF Quiet
<1>2. Placed' = Placed
  <2>1. [i \in DOMAIN files' |-> files'[i].rows] = [i \in DOMAIN files |-> files[i].rows]
    BY <1>1 DEF Quiet
  <2> QED BY <2>1 DEF Placed
<1>3. RowsOK'
  <2>1. Here' = Here
    BY DEF Quiet, Here
  <2>2. attempt' = Len(files')
    BY <1>0 DEF RowsOK, Quiet
  <2>3. \A f \in DOMAIN files' : \A l \in DOMAIN files'[f].rows : files'[f].rows[l].t = f
    BY <1>0, <1>1 DEF RowsOK, Quiet
  <2>4. Here' \in ghost'.torn <=> \E f \in DOMAIN files' : files'[f].written = "torn"
    BY <1>0, <1>1, <2>1 DEF RowsOK, Quiet
  <2>5. pc' \in InBatch \cup AtTheEnd =>
          files'[Len(files')].rows = <<>> /\ files'[Len(files')].written = "none"
    <3> SUFFICES ASSUME pc' \in InBatch \cup AtTheEnd
                 PROVE  files'[Len(files')].rows = <<>> /\ files'[Len(files')].written = "none"
      OBVIOUS
    <3>1. pc \in InBatch \cup AtTheEnd
      BY DEF Quiet
    <3>2. Len(files) \in DOMAIN files
      BY <1>0, <3>1 DEF StateOK, ResultsSoFar
    <3> QED BY <1>0, <3>1, <3>2 DEF RowsOK, Quiet
  <2> QED BY <2>2, <2>3, <2>4, <2>5 DEF RowsOK
<1>4. LedgerOK' /\ LedgerIsLast' /\ CombinedFollowsLedger'
  BY <1>2, SayingsStay DEF Quiet
<1> QED BY <1>3, <1>4 DEF AggregationInv

(* A new attempt has written nothing. *)
LEMMA StartKeeps ==
  ASSUME IInv, AggregationInv, StateOK', StartAttempt PROVE AggregationInv'
<1>0. StateOK /\ RowsOK
  BY DEF IInv, AggregationInv
<1> DEFINE blank == [results |-> "none", written |-> "none", rows |-> <<>>]
<1>1. files' = Append(files, blank) /\ attempt' = attempt + 1 /\ combined' = combined
      /\ pc = "start" /\ pc' = "task"
  BY Zenon DEF StartAttempt
<1>2. ghost'.ledger = ghost.ledger /\ ghost'.torn = ghost.torn
  <2>1. PICK reaped, listed \in BOOLEAN :
          ghost' = [ghost EXCEPT !.seen = listed, !.broken = FALSE,
                      !.refused = IF reaped THEN {} ELSE {"sweep"},
                      !.maker = [n \in Names |-> IF home[n] = "none" THEN "nobody" ELSE "before"]]
    BY Zenon DEF StartAttempt
  <2> QED BY <1>0, <2>1 DEF StateOK, GhostOK
<1>3. /\ Len(files) \in Nat /\ DOMAIN files = 1 .. Len(files)
      /\ Len(files') = Len(files) + 1 /\ DOMAIN files' = 1 .. Len(files) + 1
      /\ files'[Len(files) + 1] = blank
      /\ \A f \in DOMAIN files : f \in DOMAIN files' /\ f # Len(files) + 1 /\ files'[f] = files[f]
  <2>1. files \in Seq(File)
    BY <1>0 DEF StateOK
  <2> HIDE DEF blank
  <2> QED BY <1>1, <2>1
<1>4. \A f \in DOMAIN files' : f \in DOMAIN files \/ f = Len(files) + 1
  BY <1>3
<1>5. Placed' = Placed
  <2>1. \A x : x \in Placed' <=>
          \E f \in DOMAIN files' : \E l \in DOMAIN files'[f].rows :
            x = [file |-> f, line |-> l, row |-> files'[f].rows[l]]
    BY DEF Placed, load_rows
  <2>2. DOMAIN files'[Len(files) + 1].rows = {}
    BY <1>3
  <2>3. \A x : x \in Placed' <=> x \in Placed
    BY <1>3, <1>4, <2>1, <2>2, PlacedRows
  <2> QED BY <2>3
<1>6. RowsOK'
  <2>1. attempt' = Len(files')
    BY <1>0, <1>1, <1>3 DEF RowsOK
  <2>2. \A f \in DOMAIN files' : \A l \in DOMAIN files'[f].rows : files'[f].rows[l].t = f
    BY <1>0, <1>3, <1>4 DEF RowsOK
  <2>3. Here' \in ghost'.torn <=> \E f \in DOMAIN files' : files'[f].written = "torn"
    <3>1. Here' = Here
      BY <1>2 DEF Here
    <3>2. files'[Len(files) + 1].written = "none"
      BY <1>3
    <3> QED BY <1>0, <1>2, <1>3, <1>4, <3>1, <3>2 DEF RowsOK
  <2>4. files'[Len(files')].rows = <<>> /\ files'[Len(files')].written = "none"
    BY <1>3
  <2> QED BY <2>1, <2>2, <2>3, <2>4 DEF RowsOK
<1>7. LedgerOK' /\ LedgerIsLast' /\ CombinedFollowsLedger'
  BY <1>1, <1>2, <1>5, SayingsStay
<1> QED BY <1>6, <1>7 DEF AggregationInv

(* A torn file has no rows, and is known to be torn. *)
LEMMA TearKeeps ==
  ASSUME IInv, AggregationInv, StateOK', Tears PROVE AggregationInv'
<1>0. StateOK /\ ResultsSoFar /\ RowsOK /\ LedgerOK
  BY DEF IInv, AggregationInv
<1>1. files \in Seq(File) /\ files # <<>>
  BY <1>0 DEF StateOK, ResultsSoFar, Tears
<1>2. DOMAIN files = 1 .. Len(files) /\ Len(files) \in DOMAIN files
      /\ \A f \in DOMAIN files : files[f] \in File
  BY <1>1
<1>3. files' = [files EXCEPT ![Len(files)] = [files[Len(files)] EXCEPT !.written = "torn"]]
  BY <1>2 DEF Tears, OnDisk, File
<1>4. /\ Len(files') = Len(files) /\ DOMAIN files' = DOMAIN files
      /\ \A f \in DOMAIN files : files'[f].rows = files[f].rows
      /\ files'[Len(files)].written = "torn"
  <2>1. Len(files') = Len(files) /\ DOMAIN files' = DOMAIN files
    BY <1>1, <1>2, <1>3
  <2>2. files'[Len(files)] = [files[Len(files)] EXCEPT !.written = "torn"]
    BY <1>2, <1>3
  <2>3. \A f \in DOMAIN files : f # Len(files) => files'[f] = files[f]
    BY <1>3
  <2> QED BY <1>2, <2>1, <2>2, <2>3 DEF File
<1>5. Placed' = Placed
  <2>1. [i \in DOMAIN files' |-> files'[i].rows] = [i \in DOMAIN files |-> files[i].rows]
    BY <1>4
  <2> QED BY <2>1 DEF Placed
<1>6. RowsOK'
  <2>1. Here' = Here /\ Here \in ghost'.torn
    BY DEF Tears, Here
  <2>2. pc' \notin InBatch \cup AtTheEnd /\ attempt' = attempt
    BY DEF Tears, InBatch, Running, InBox, AtTheEnd
  <2>3. \A f \in DOMAIN files' : \A l \in DOMAIN files'[f].rows : files'[f].rows[l].t = f
    BY <1>0, <1>4 DEF RowsOK
  <2> QED BY <1>0, <1>2, <1>4, <2>1, <2>2, <2>3 DEF RowsOK
<1>7. LedgerOK' /\ LedgerIsLast' /\ CombinedFollowsLedger'
  <2>1. pc # "summary" /\ pc' # "summary"
    BY DEF Tears, InBatch, Running, InBox, AtTheEnd
  <2> QED BY <1>5, <2>1, SayingsStay DEF Tears
<1> QED BY <1>6, <1>7 DEF AggregationInv

(* A task that has a record has a last one. *)
LEMMA LastRecordIs ==
  ASSUME StateOK, NEW t, \E i \in DOMAIN records : records[i].task = t
  PROVE  /\ LastRecord(t) \in DOMAIN records /\ records[LastRecord(t)].task = t
         /\ \A j \in DOMAIN records : records[j].task = t => j <= LastRecord(t)
<1> DEFINE S == {i \in DOMAIN records : records[i].task = t}
<1>1. DOMAIN records = 1 .. Len(records) /\ Len(records) \in Nat
  BY DEF StateOK
<1>2. S \in SUBSET (1 .. Len(records)) /\ S # {}
  BY <1>1
<1>3. PICK m \in S : \A k \in S : k <= m
  <2> HIDE DEF S
  <2> QED BY <1>1, <1>2, GreatestNumber
<1>4. \E i \in DOMAIN records :
        records[i].task = t /\ \A j \in DOMAIN records : records[j].task = t => j <= i
  BY <1>3
<1> QED BY <1>4 DEF LastRecord

(* The rows of an attempt are newer than all before them, and the ledger   *)
(* is told what the last record of each task says. *)
LEMMA RowsKeep ==
  ASSUME IInv, AggregationInv, StateOK', RowsAreWritten PROVE AggregationInv'
<1>0. StateOK /\ ResultsSoFar /\ RowsOK /\ LedgerOK /\ LedgerIsLast /\ CombinedFollowsLedger
  BY DEF IInv, AggregationInv
<1> DEFINE said == [t \in Tasks |-> IF \E i \in DOMAIN records : records[i].task = t
                                    THEN records[LastRecord(t)].outcome
                                    ELSE ghost.ledger[Here][t]]
<1> DEFINE last == [files[Len(files)] EXCEPT !.rows = BuildRows, !.written = "whole"]
<1>1. /\ pc = "rows" /\ pc' = "ended" /\ combined' = combined /\ attempt' = attempt
      /\ files' = [files EXCEPT ![Len(files)] = last]
      /\ ghost'.torn = ghost.torn /\ ghost'.ledger = [ghost.ledger EXCEPT ![Here] = said]
  BY <1>0 DEF RowsAreWritten, LedgerOK, Here
<1>2. files \in Seq(File) /\ files # <<>>
  BY <1>0, <1>1 DEF StateOK, ResultsSoFar, AtTheEnd
<1>3. /\ DOMAIN files = 1 .. Len(files) /\ Len(files) \in DOMAIN files
      /\ Len(files) \in Nat /\ \A f \in DOMAIN files : files[f] \in File
  BY <1>2
<1>4. /\ Len(files') = Len(files) /\ DOMAIN files' = DOMAIN files
      /\ files'[Len(files)].rows = BuildRows /\ files'[Len(files)].written = "whole"
      /\ \A f \in DOMAIN files : f # Len(files) => files'[f] = files[f]
  <2>1. files[Len(files)] \in File
    BY <1>3
  <2>2. last.rows = BuildRows /\ last.written = "whole"
    BY <2>1 DEF File
  <2> HIDE DEF last
  <2> QED BY <1>1, <1>2, <1>3, <2>2
<1>5. files[Len(files)].rows = <<>> /\ files[Len(files)].written = "none" /\ attempt = Len(files)
  BY <1>0, <1>1 DEF RowsOK, AtTheEnd
<1>6. /\ DOMAIN BuildRows = DOMAIN records /\ DOMAIN records \subseteq Nat
      /\ \A i \in DOMAIN records : /\ BuildRows[i].task = records[i].task
                                   /\ BuildRows[i].t = Len(files)
                                   /\ BuildRows[i].outcome = records[i].outcome
                                   /\ records[i].outcome \in Outcomes
  <2>1. records \in Seq(RecordSet)
    BY <1>0 DEF StateOK
  <2>2. DOMAIN records \subseteq Nat /\ \A i \in DOMAIN records : records[i] \in RecordSet
    BY <2>1
  <2> QED BY <1>5, <2>2 DEF BuildRows, RecordSet
<1> DEFINE New(i) == [file |-> Len(files), line |-> i, row |-> BuildRows[i]]
<1>7. \A x : x \in Placed' <=> x \in Placed \/ \E i \in DOMAIN records : x = New(i)
  <2>1. \A x : x \in Placed' <=>
          \E f \in DOMAIN files' : \E l \in DOMAIN files'[f].rows :
            x = [file |-> f, line |-> l, row |-> files'[f].rows[l]]
    BY DEF Placed, load_rows
  <2>2. DOMAIN files[Len(files)].rows = {}
    BY <1>5
  <2> SUFFICES ASSUME NEW x
               PROVE  x \in Placed' <=> x \in Placed \/ \E i \in DOMAIN records : x = New(i)
    OBVIOUS
  <2>3. ASSUME x \in Placed' PROVE x \in Placed \/ \E i \in DOMAIN records : x = New(i)
    <3>1. PICK f \in DOMAIN files' : \E l \in DOMAIN files'[f].rows :
            x = [file |-> f, line |-> l, row |-> files'[f].rows[l]]
      BY <2>1, <2>3
    <3>2. CASE f = Len(files)
      BY <1>4, <1>6, <3>1, <3>2
    <3>3. CASE f # Len(files)
      BY <1>4, <3>1, <3>3, PlacedRows
    <3> QED BY <3>2, <3>3
  <2>4. ASSUME x \in Placed PROVE x \in Placed'
    <3>1. PICK f \in DOMAIN files : \E l \in DOMAIN files[f].rows :
            x = [file |-> f, line |-> l, row |-> files[f].rows[l]]
      BY <2>4, PlacedRows
    <3>2. f # Len(files)
      BY <2>2, <3>1
    <3> QED BY <1>4, <2>1, <3>1, <3>2
  <2>5. ASSUME NEW i \in DOMAIN records, x = New(i) PROVE x \in Placed'
    BY <1>3, <1>4, <1>6, <2>1, <2>5
  <2> QED BY <2>3, <2>4, <2>5
<1>8. \A x \in Placed : x.file < Len(files)
  <2> SUFFICES ASSUME NEW x \in Placed PROVE x.file < Len(files)
    OBVIOUS
  <2>1. PICK f \in DOMAIN files : \E l \in DOMAIN files[f].rows :
          x = [file |-> f, line |-> l, row |-> files[f].rows[l]]
    BY PlacedRows
  <2>2. x.file = f /\ f # Len(files)
    BY <1>5, <2>1
  <2> QED BY <1>3, <2>2
<1>9. /\ Here \in Nat /\ Here \in DOMAIN ghost.ledger /\ said \in [Tasks -> Sayings]
      /\ ghost.ledger \in Seq([Tasks -> Sayings])
  <2>1. Here \in Nat /\ Here \in DOMAIN ghost.ledger /\ ghost.ledger[Here] \in [Tasks -> Sayings]
    BY <1>0 DEF LedgerOK, Here
  <2>2. ASSUME NEW t \in Tasks PROVE said[t] \in Sayings
    <3>1. CASE \E i \in DOMAIN records : records[i].task = t
      BY <1>0, <1>6, <3>1, LastRecordIs DEF Sayings
    <3>2. CASE ~\E i \in DOMAIN records : records[i].task = t
      BY <2>1, <3>2
    <3> QED BY <3>1, <3>2
  <2>3. said \in [Tasks -> Sayings]
    BY <2>2
  <2> HIDE DEF said
  <2> QED BY <1>0, <2>1, <2>3 DEF LedgerOK
<1>10. /\ ghost'.ledger \in Seq([Tasks -> Sayings]) /\ Here' = Here
       /\ DOMAIN ghost'.ledger = DOMAIN ghost.ledger /\ ghost'.ledger[Here] = said
       /\ \A i \in DOMAIN ghost.ledger : i # Here => ghost'.ledger[i] = ghost.ledger[i]
  <2> HIDE DEF said, last
  <2> QED BY <1>1, <1>9 DEF Here
<1>11. LedgerOK'
  BY <1>0, <1>1, <1>9, <1>10 DEF LedgerOK
<1>12. RowsOK'
  <2>1. attempt' = Len(files')
    BY <1>1, <1>4, <1>5
  <2>2. \A f \in DOMAIN files' : \A l \in DOMAIN files'[f].rows : files'[f].rows[l].t = f
    BY <1>0, <1>3, <1>4, <1>6 DEF RowsOK
  <2>3. Here' \in ghost'.torn <=> \E f \in DOMAIN files' : files'[f].written = "torn"
    <3>1. Here \in ghost.torn <=> \E f \in DOMAIN files : files[f].written = "torn"
      BY <1>0 DEF RowsOK
    <3>2. \A f \in DOMAIN files : files'[f].written = "torn" <=> files[f].written = "torn"
      BY <1>4, <1>5
    <3> QED BY <1>1, <1>4, <1>10, <3>1, <3>2
  <2>4. pc' \notin InBatch \cup AtTheEnd
    BY <1>1 DEF InBatch, Running, InBox, AtTheEnd
  <2> QED BY <2>1, <2>2, <2>3, <2>4 DEF RowsOK
<1>13. CombinedFollowsLedger'
  <2> SUFFICES ASSUME NEW i \in DOMAIN combined, NEW t \in Tasks
               PROVE  {r.outcome : r \in AggregatedRows(i, t)'} =
                        IF i \in ghost'.torn \/ ghost'.ledger[i][t] = "missing" THEN {}
                        ELSE {ghost'.ledger[i][t]}
    BY <1>1 DEF CombinedFollowsLedger
  <2>1. i \in DOMAIN ghost.ledger /\ i # Here
    BY <1>0, <1>1, <1>9 DEF LedgerOK, Here
  <2>2. AggregatedRows(i, t)' = AggregatedRows(i, t)
    BY <1>1 DEF AggregatedRows
  <2>3. {r.outcome : r \in AggregatedRows(i, t)} =
          IF i \in ghost.torn \/ ghost.ledger[i][t] = "missing" THEN {}
          ELSE {ghost.ledger[i][t]}
    BY <1>0 DEF CombinedFollowsLedger
  <2>4. ghost'.torn = ghost.torn /\ ghost'.ledger[i] = ghost.ledger[i]
    BY <1>1, <1>10, <2>1
  <2> QED BY <2>2, <2>3, <2>4
<1>14. LedgerIsLast'
  <2> SUFFICES ASSUME NEW t \in Tasks PROVE LastSays(t, ghost.ledger[Here][t])'
    BY DEF LedgerIsLast
  <2>1. ghost'.ledger[Here'][t] = said[t]
    BY <1>10
  <2>2. \A x \in Placed' :
          /\ x.file \in 1 .. Len(files) /\ x.line \in Nat /\ x.row.t = x.file
          /\ \A y \in Placed' : x.file = y.file /\ x.line = y.line => x = y
    <3>1. \A x \in Placed : x.file \in 1 .. Len(files) /\ x.line \in Nat /\ x.row.t = x.file
      BY <1>0, PlacedTypes
    <3>2. \A x, y \in Placed : x.file = y.file /\ x.line = y.line => x = y
      BY <1>0, PlacedTypes
    <3>3. \A i \in DOMAIN records : /\ New(i).file = Len(files) /\ New(i).line = i
                                    /\ New(i).row.t = Len(files)
      BY <1>6
    <3>4. \A x \in Placed : x.file # Len(files)
      BY <1>3, <1>8, <3>1
    <3> HIDE DEF New
    <3> QED BY <1>3, <1>6, <1>7, <3>1, <3>2, <3>3, <3>4
  <2>3. CASE \E i \in DOMAIN records : records[i].task = t
    <3> DEFINE n == LastRecord(t)
    <3>1. /\ n \in DOMAIN records /\ records[n].task = t
          /\ \A j \in DOMAIN records : records[j].task = t => j <= n
      BY <1>0, <2>3, LastRecordIs
    <3>2. said[t] = records[n].outcome /\ said[t] # "missing"
      BY <1>6, <2>3, <3>1 DEF Outcomes
    <3>3. New(n) \in RowsOf(Placed', t) /\ New(n).row.outcome = said[t]
      BY <1>6, <1>7, <3>1, <3>2 DEF RowsOf
    <3>4. ASSUME NEW y \in RowsOf(Placed', t) PROVE Newer(New(n), y)
      <4>1. y \in Placed' /\ y.row.task = t /\ New(n) \in Placed'
        BY <3>3 DEF RowsOf
      <4>2. y.file < Len(files) \/ (y.file = Len(files) /\ y.line <= n)
        <5>1. CASE y \in Placed
          <6>1. y.file < Len(files)
            BY <1>8, <5>1
          <6> QED BY <6>1
        <5>2. CASE \E i \in DOMAIN records : y = New(i)
          <6>1. PICK i \in DOMAIN records : y = New(i)
            BY <5>2
          <6>2. y.file = Len(files) /\ y.line = i /\ records[i].task = t
            BY <1>6, <4>1, <6>1
          <6> QED BY <3>1, <6>2
        <5> QED BY <1>7, <4>1, <5>1, <5>2
      <4>3. New(n).file = Len(files) /\ New(n).line = n
        OBVIOUS
      <4> HIDE DEF New, n
      <4>4. PICK x \in Placed' : x = New(n)
        BY <4>1
      <4>5. /\ x.file \in Nat /\ y.file \in Nat /\ x.line \in Nat /\ y.line \in Nat
            /\ x.row.t = x.file /\ y.row.t = y.file
        BY <1>3, <2>2, <4>1
      <4>6. x.file > y.file \/ (x.file = y.file /\ x.line >= y.line)
        BY <1>3, <4>2, <4>3, <4>4, <4>5
      <4> QED BY <4>4, <4>5, <4>6, LaterIsNewer
    <3>5. LastSays(t, ghost.ledger[Here][t])' <=>
            \E x \in RowsOf(Placed', t) :
              x.row.outcome = said[t] /\ \A y \in RowsOf(Placed', t) : Newer(x, y)
      BY <2>1, <3>2 DEF LastSays
    <3> HIDE DEF New, n, said
    <3> QED BY <3>3, <3>4, <3>5
  <2>4. CASE ~\E i \in DOMAIN records : records[i].task = t
    <3>1. said[t] = ghost.ledger[Here][t]
      BY <2>4
    <3>2. RowsOf(Placed', t) = RowsOf(Placed, t)
      BY <1>6, <1>7, <2>4 DEF RowsOf
    <3>3. LastSays(t, ghost.ledger[Here][t])
      BY <1>0 DEF LedgerIsLast
    <3> HIDE DEF said
    <3> QED BY <2>1, <3>1, <3>2, <3>3 DEF LastSays
  <2> QED BY <2>3, <2>4
<1> QED BY <1>11, <1>12, <1>13, <1>14 DEF AggregationInv

(* Of an invocation none of whose files is torn, the aggregate has for     *)
(* each task the row the ledger speaks of, and nothing else. *)
LEMMA AggregateSays ==
  ASSUME StateOK, RowsOK, LedgerOK, LedgerIsLast
  PROVE  /\ dedupe_latest(Placed) \in SUBSET Row
         /\ \A t \in Tasks :
              {r.outcome : r \in {s \in dedupe_latest(Placed) : s.task = t}} =
                IF ghost.ledger[Here][t] = "missing" THEN {} ELSE {ghost.ledger[Here][t]}
<1> DEFINE Found == {x.row.task : x \in Placed}
<1>1. \A x \in Placed : x.row \in Row /\ x.row.task \in Tasks
  BY PlacedTypes DEF Row
<1>2. Found \subseteq Tasks
  BY <1>1
<1>3. \A t \in Found : RowsOf(Placed, t) # {}
  BY DEF RowsOf
<1>4. ASSUME NEW t \in Found
      PROVE  /\ ghost.ledger[Here][t] # "missing"
             /\ Latest(Placed, t) \in Row /\ Latest(Placed, t).task = t
             /\ Latest(Placed, t).outcome = ghost.ledger[Here][t]
  <2> HIDE DEF Found
  <2>1. LastSays(t, ghost.ledger[Here][t])
    BY <1>2 DEF LedgerIsLast
  <2>2. ghost.ledger[Here][t] # "missing"
    BY <1>3, <2>1 DEF LastSays
  <2>3. PICK x \in RowsOf(Placed, t) :
          x.row.outcome = ghost.ledger[Here][t] /\ \A y \in RowsOf(Placed, t) : Newer(x, y)
    BY <2>1, <2>2 DEF LastSays
  <2>4. Latest(Placed, t) = x.row
    BY <2>3, NewestIsLatest
  <2>5. x \in Placed /\ x.row.task = t
    BY DEF RowsOf
  <2> QED BY <1>1, <2>2, <2>3, <2>4, <2>5
<1>5. dedupe_latest(Placed) = {Latest(Placed, t) : t \in Found}
  BY DEF dedupe_latest
<1>6. dedupe_latest(Placed) \in SUBSET Row
  <2> HIDE DEF Found
  <2> QED BY <1>4, <1>5
<1>7. ASSUME NEW t \in Tasks
      PROVE  {r.outcome : r \in {s \in dedupe_latest(Placed) : s.task = t}} =
               IF ghost.ledger[Here][t] = "missing" THEN {} ELSE {ghost.ledger[Here][t]}
  <2>1. CASE t \in Found
    <3>1. {s \in dedupe_latest(Placed) : s.task = t} = {Latest(Placed, t)}
      <4> HIDE DEF Found
      <4> QED BY <1>4, <1>5, <2>1
    <3> QED BY <1>4, <2>1, <3>1
  <2>2. CASE t \notin Found
    <3>1. {s \in dedupe_latest(Placed) : s.task = t} = {}
      <4> HIDE DEF Found
      <4> QED BY <1>4, <1>5, <2>2
    <3>2. RowsOf(Placed, t) = {}
      BY <2>2 DEF RowsOf
    <3>3. LastSays(t, ghost.ledger[Here][t])
      BY DEF LedgerIsLast
    <3>4. ghost.ledger[Here][t] = "missing"
      BY <3>2, <3>3 DEF LastSays
    <3> QED BY <3>1, <3>4
  <2> QED BY <2>1, <2>2
<1> QED BY <1>6, <1>7

LEMMA AggregateKeeps ==
  ASSUME IInv, AggregationInv, StateOK', Aggregate PROVE AggregationInv'
<1>0. StateOK /\ RowsOK /\ LedgerOK /\ LedgerIsLast /\ CombinedFollowsLedger
  BY DEF IInv, AggregationInv
<1> DEFINE torn == \E i \in DOMAIN files : files[i].written = "torn"
<1> DEFINE new == IF torn THEN {} ELSE dedupe_latest(Placed)
<1> DEFINE none == [t \in Tasks |-> "missing"]
<1>1. /\ pc = "ended" /\ combined' = Append(combined, new)
      /\ pc' = IF Here < plan.invocations THEN "start" ELSE "summary"
      /\ IF Here < plan.invocations
         THEN /\ attempt' = 0 /\ files' = <<>>
              /\ ghost' = [ghost EXCEPT !.ledger = Append(@, none)]
         ELSE attempt' = attempt /\ files' = files /\ ghost' = ghost
  BY Zenon DEF Aggregate, Placed
<1>2. new \in SUBSET Row
  BY <1>0, AggregateSays
<1>3. \A t \in Tasks :
        {r.outcome : r \in {s \in new : s.task = t}} =
          IF Here \in ghost.torn \/ ghost.ledger[Here][t] = "missing" THEN {}
          ELSE {ghost.ledger[Here][t]}
  <2>1. torn <=> Here \in ghost.torn
    BY <1>0 DEF RowsOK
  <2>2. CASE torn
    BY <2>1, <2>2
  <2>3. CASE ~torn
    <3>1. new = dedupe_latest(Placed)
      BY <2>3
    <3> HIDE DEF new, torn
    <3> QED BY <1>0, <2>1, <2>3, <3>1, AggregateSays
  <2> QED BY <2>2, <2>3
<1> HIDE DEF torn, new
<1>4. /\ ghost.ledger \in Seq([Tasks -> Sayings]) /\ Here \in Nat /\ Here \in DOMAIN ghost.ledger
      /\ DOMAIN ghost.ledger = 1 .. Here /\ ghost.torn \subseteq 1 .. Here
      /\ combined \in Seq(SUBSET Row) /\ Len(combined) = Here - 1
  BY <1>0, <1>1 DEF LedgerOK, Here
<1>5. /\ combined' \in Seq(SUBSET Row) /\ Len(combined') = Here /\ DOMAIN combined' = 1 .. Here
      /\ combined'[Here] = new
      /\ \A i \in 1 .. Here : i # Here => i \in DOMAIN combined /\ combined'[i] = combined[i]
  BY <1>1, <1>2, <1>4
<1>6. /\ ghost'.ledger \in Seq([Tasks -> Sayings]) /\ ghost'.ledger # <<>>
      /\ ghost'.torn = ghost.torn /\ Here' = IF pc' = "summary" THEN Here ELSE Here + 1
      /\ DOMAIN ghost'.ledger = 1 .. Here'
      /\ \A i \in 1 .. Here : ghost'.ledger[i] = ghost.ledger[i]
      /\ Here < plan.invocations => ghost'.ledger[Here'] = none
  <2>1. CASE Here < plan.invocations
    <3>1. ghost'.ledger = Append(ghost.ledger, none) /\ ghost'.torn = ghost.torn
      BY <1>0, <1>1, <2>1 DEF StateOK, GhostOK
    <3>2. none \in [Tasks -> Sayings]
      BY DEF Sayings
    <3>3. pc' # "summary"
      BY <1>1, <2>1
    <3> HIDE DEF none
    <3> QED BY <1>4, <3>1, <3>2, <3>3 DEF Here
  <2>2. CASE ~(Here < plan.invocations)
    BY <1>0, <1>1, <1>4, <2>2 DEF LedgerOK, Here
  <2> QED BY <2>1, <2>2
<1>7. LedgerOK'
  <2>1. Len(combined') = IF pc' = "summary" THEN Here' ELSE Here' - 1
    BY <1>4, <1>5, <1>6
  <2>2. ghost'.torn \subseteq DOMAIN ghost'.ledger
    BY <1>4, <1>6
  <2> QED BY <1>5, <1>6, <2>1, <2>2 DEF LedgerOK
<1>8. CombinedFollowsLedger'
  <2> SUFFICES ASSUME NEW i \in 1 .. Here, NEW t \in Tasks
               PROVE  {r.outcome : r \in AggregatedRows(i, t)'} =
                        IF i \in ghost'.torn \/ ghost'.ledger[i][t] = "missing" THEN {}
                        ELSE {ghost'.ledger[i][t]}
    BY <1>5 DEF CombinedFollowsLedger
  <2>1. ghost'.torn = ghost.torn /\ ghost'.ledger[i] = ghost.ledger[i]
    BY <1>6
  <2>2. CASE i = Here
    <3>1. AggregatedRows(i, t)' = {s \in new : s.task = t}
      BY <1>5, <2>2 DEF AggregatedRows
    <3> QED BY <1>3, <2>1, <2>2, <3>1
  <2>3. CASE i # Here
    <3>1. i \in DOMAIN combined /\ AggregatedRows(i, t)' = AggregatedRows(i, t)
      BY <1>5, <2>3 DEF AggregatedRows
    <3>2. {r.outcome : r \in AggregatedRows(i, t)} =
            IF i \in ghost.torn \/ ghost.ledger[i][t] = "missing" THEN {}
            ELSE {ghost.ledger[i][t]}
      BY <1>0, <3>1 DEF CombinedFollowsLedger
    <3> QED BY <2>1, <3>1, <3>2
  <2> QED BY <2>2, <2>3
<1>9. RowsOK' /\ LedgerIsLast'
  <2>1. pc' \notin InBatch \cup AtTheEnd
    BY <1>1 DEF InBatch, Running, InBox, AtTheEnd
  <2>2. CASE Here < plan.invocations
    <3>1. files' = <<>> /\ attempt' = 0 /\ Here' = Here + 1
      BY <1>1, <1>6, <2>2
    <3>2. Placed' = {}
      BY <3>1 DEF Placed, load_rows
    <3>3. RowsOK'
      <4>1. Here' \notin ghost'.torn
        BY <1>4, <1>6, <3>1
      <4> QED BY <2>1, <3>1, <4>1 DEF RowsOK
    <3>4. LedgerIsLast'
      BY <1>6, <2>2, <3>2 DEF LedgerIsLast, LastSays, RowsOf
    <3> QED BY <3>3, <3>4
  <2>3. CASE ~(Here < plan.invocations)
    <3>1. files' = files /\ attempt' = attempt /\ ghost' = ghost
      BY <1>1, <2>3
    <3>2. Placed' = Placed /\ Here' = Here
      BY <3>1 DEF Placed, Here
    <3>3. RowsOK'
      BY <1>0, <2>1, <3>1, <3>2 DEF RowsOK
    <3>4. LedgerIsLast'
      <4> SUFFICES ASSUME NEW t \in Tasks PROVE LastSays(t, ghost.ledger[Here][t])'
        BY DEF LedgerIsLast
      <4>1. LastSays(t, ghost.ledger[Here][t])
        BY <1>0 DEF LedgerIsLast
      <4> QED BY <3>1, <3>2, <4>1 DEF LastSays
    <3> QED BY <3>3, <3>4
  <2> QED BY <2>2, <2>3
<1> QED BY <1>7, <1>8, <1>9 DEF AggregationInv

LEMMA AggregationStep == IInv /\ AggregationInv /\ [Next]_vars => AggregationInv'
<1> SUFFICES ASSUME IInv, AggregationInv, [Next]_vars PROVE AggregationInv'
  OBVIOUS
<1>1. StateOK'
  BY StateStep
<1> QED BY <1>1, Steps, QuietKeeps, StartKeeps, TearKeeps, RowsKeep, AggregateKeeps

(* What the summary counts are the invocations the ledger knows a score of. *)
LEMMA SummaryFollowsLedger ==
  ASSUME AggregationInv, pc = "summary", NEW t \in Tasks
  PROVE  LET kept == {i \in DOMAIN ghost.ledger \ ghost.torn :
                        ghost.ledger[i][t] \notin {"missing", "none"}}
             passed == {i \in kept : ghost.ledger[i][t] = "pass"} IN
         Summary(t) = [n |-> Cardinality(kept), c |-> Cardinality(passed)]
<1> DEFINE kept == {i \in DOMAIN ghost.ledger \ ghost.torn :
                      ghost.ledger[i][t] \notin {"missing", "none"}}
<1> DEFINE passed == {i \in kept : ghost.ledger[i][t] = "pass"}
<1>0. LedgerOK /\ CombinedFollowsLedger
  BY DEF AggregationInv
<1>1. DOMAIN combined = DOMAIN ghost.ledger
  BY <1>0 DEF LedgerOK, Here
<1>2. ASSUME NEW i \in DOMAIN combined
      PROVE  /\ AggregatedRows(i, t) # {} <=>
                  i \notin ghost.torn /\ ghost.ledger[i][t] # "missing"
             /\ AggregatedRows(i, t) # {} =>
                  (CHOOSE r \in AggregatedRows(i, t) : TRUE).outcome = ghost.ledger[i][t]
  <2>1. {r.outcome : r \in AggregatedRows(i, t)} =
          IF i \in ghost.torn \/ ghost.ledger[i][t] = "missing" THEN {}
          ELSE {ghost.ledger[i][t]}
    BY <1>0 DEF CombinedFollowsLedger
  <2>2. \A r \in AggregatedRows(i, t) :
          r.outcome \in {s.outcome : s \in AggregatedRows(i, t)}
    OBVIOUS
  <2>3. AggregatedRows(i, t) # {} =>
          (CHOOSE r \in AggregatedRows(i, t) : TRUE) \in AggregatedRows(i, t)
    OBVIOUS
  <2> QED BY <2>1, <2>2, <2>3
<1>3. /\ DOMAIN OutcomesOf(t) = {i \in DOMAIN combined : AggregatedRows(i, t) # {}}
      /\ \A i \in DOMAIN OutcomesOf(t) : OutcomesOf(t)[i] = ghost.ledger[i][t]
  BY <1>2 DEF OutcomesOf
<1>4. {i \in DOMAIN OutcomesOf(t) : OutcomesOf(t)[i] # "none"} = kept
  BY <1>1, <1>2, <1>3
<1>5. {i \in DOMAIN OutcomesOf(t) : OutcomesOf(t)[i] = "pass"} = passed
  BY <1>1, <1>2, <1>3
<1> HIDE DEF kept, passed
<1>6. Summary(t) = [n |-> Cardinality(kept), c |-> Cardinality(passed)]
  BY <1>4, <1>5 DEF Summary, TaskSummary
<1> QED BY <1>6 DEF kept, passed

LEMMA AggregationCounts == AggregationInv => LatestAttemptCounts
<1> SUFFICES ASSUME AggregationInv, pc = "summary", NEW t \in Tasks
             PROVE
      LET kept == {i \in DOMAIN ghost.ledger \ ghost.torn :
                     ghost.ledger[i][t] \notin {"missing", "none"}}
          passed == {i \in kept : ghost.ledger[i][t] = "pass"}
          n == Summary(t).n
          c == Summary(t).c IN
      /\ n = Cardinality(kept) /\ c = Cardinality(passed)
      /\ \A k \in 1..MaxK : n >= k =>
           LET draws == kSubset(k, kept) IN
           /\ pass_at_k(n, c, k) =
                <<Cardinality({d \in draws : d \cap passed # {}}), Cardinality(draws)>>
           /\ pass_pow_k(n, c, k) =
                <<Cardinality({d \in draws : d \subseteq passed}), Cardinality(draws)>>
  BY Zenon DEF LatestAttemptCounts
<1> DEFINE kept == {i \in DOMAIN ghost.ledger \ ghost.torn :
                      ghost.ledger[i][t] \notin {"missing", "none"}}
<1> DEFINE passed == {i \in kept : ghost.ledger[i][t] = "pass"}
<1>1. Summary(t) = [n |-> Cardinality(kept), c |-> Cardinality(passed)]
  BY SummaryFollowsLedger
<1>2. Summary(t).n = Cardinality(kept) /\ Summary(t).c = Cardinality(passed)
  <2> HIDE DEF kept, passed
  <2> QED BY <1>1
<1>3. IsFiniteSet(kept) /\ passed \in SUBSET kept
  <2>1. PICK n \in Nat : DOMAIN ghost.ledger = 1 .. n
    BY DEF AggregationInv, LedgerOK
  <2>2. kept \in SUBSET (1 .. n) /\ IsFiniteSet(1 .. n)
    BY <2>1, FS_Interval
  <2>3. IsFiniteSet(kept)
    <3> HIDE DEF kept
    <3> QED BY <2>2, FS_Subset
  <2> QED BY <2>3
<1> HIDE DEF kept, passed
<1>4. \A k :
        LET draws == kSubset(k, kept) IN
        /\ pass_at_k(Summary(t).n, Summary(t).c, k) =
             <<Cardinality({d \in draws : d \cap passed # {}}), Cardinality(draws)>>
        /\ pass_pow_k(Summary(t).n, Summary(t).c, k) =
             <<Cardinality({d \in draws : d \subseteq passed}), Cardinality(draws)>>
  <2> SUFFICES ASSUME NEW k
               PROVE  LET draws == kSubset(k, kept) IN
                      /\ pass_at_k(Summary(t).n, Summary(t).c, k) =
                           <<Cardinality({d \in draws : d \cap passed # {}}), Cardinality(draws)>>
                      /\ pass_pow_k(Summary(t).n, Summary(t).c, k) =
                           <<Cardinality({d \in draws : d \subseteq passed}), Cardinality(draws)>>
    OBVIOUS
  <2>1. LET draws == kSubset(k, kept)
            n == Cardinality(kept)
            c == Cardinality(passed) IN
        /\ pass_at_k(n, c, k) =
             <<Cardinality({d \in draws : d \cap passed # {}}), Cardinality(draws)>>
        /\ pass_pow_k(n, c, k) =
             <<Cardinality({d \in draws : d \subseteq passed}), Cardinality(draws)>>
    BY <1>3, EstimatorsAreShares
  <2> QED BY <1>2, <2>1
<1> QED BY <1>2, <1>4, Zenon DEF kept, passed

(* A task's pass@k is over its invocations, each of which counts for what  *)
(* the last record of its last attempt said, whatever was killed, torn or  *)
(* said before; and the estimators are the shares of draws they stand for, *)
(* for any numbers of attempts, invocations and k (aggregate.py:129-154,   *)
(* passk.py:67-206).                                                       *)
THEOREM TheLatestCounts == Spec => []LatestAttemptCounts
<1>1. Init => IInv /\ AggregationInv
  BY InitInv, AggregationInit
<1>2. (IInv /\ AggregationInv) /\ [Next]_vars => (IInv /\ AggregationInv)'
  BY IInvStep, AggregationStep
<1>3. IInv /\ AggregationInv => LatestAttemptCounts
  BY AggregationCounts
<1> QED BY <1>1, <1>2, <1>3, PTL DEF Spec

=============================================================================

------------------------- MODULE OutcomeScoreProofs -------------------------
(***************************************************************************)
(* That a verdict says what was seen, and that a positive outcome is       *)
(* earned, for every specification, every question and any judge.          *)
(***************************************************************************)
EXTENDS OutcomeScore, FiniteSetTheorems, TLAPS

-----------------------------------------------------------------------------
(* What the checks make of what they are shown. *)

Objects == Seq(Seq(Seq(Value)))

\* The places that hold an element.
LEMMA ElementPlaces ==
  ASSUME NEW objects
  PROVE  /\ \A o \in DOMAIN objects : \A e \in DOMAIN objects[o] :
              <<o, e>> \in ElementsOf(objects)
         /\ \A p \in ElementsOf(objects) :
              /\ p = <<p[1], p[2]>>
              /\ p[1] \in DOMAIN objects /\ p[2] \in DOMAIN objects[p[1]]
BY DEF ElementsOf

\* The places that hold a value.
LEMMA ValuePlaces ==
  ASSUME NEW objects
  PROVE  /\ \A p \in ElementsOf(objects) : \A v \in DOMAIN objects[p[1]][p[2]] :
              <<p[1], p[2], v>> \in ValuesOf(objects)
         /\ \A p \in ValuesOf(objects) :
              /\ p = <<p[1], p[2], p[3]>>
              /\ <<p[1], p[2]>> \in ElementsOf(objects)
              /\ p[3] \in DOMAIN objects[p[1]][p[2]]
BY ElementPlaces DEF ValuesOf

\* A sequence without values has no place for one.
LEMMA NoValues ==
  ASSUME NEW objects \in Objects, NEW p \in ElementsOf(objects)
  PROVE  /\ objects[p[1]][p[2]] = <<>> <=> DOMAIN objects[p[1]][p[2]] = {}
<1>1. p[1] \in DOMAIN objects /\ p[2] \in DOMAIN objects[p[1]]
  BY ElementPlaces
<1>2. objects[p[1]] \in Seq(Seq(Value))
  BY <1>1 DEF Objects
<1>3. PICK values : values = objects[p[1]][p[2]]
  OBVIOUS
<1>4. values \in Seq(Value)
  BY <1>1, <1>2, <1>3
<1>5. Len(values) \in Nat /\ DOMAIN values = 1 .. Len(values) /\ (values = <<>> <=> Len(values) = 0)
  BY <1>4
<1>6. values = <<>> <=> DOMAIN values = {}
  BY <1>5
<1> QED BY <1>3, <1>6

\* Reading a path element by element says the same as its sentence.
LEMMA ElementsRead ==
  ASSUME NEW c, NEW objects \in Objects, c.across \in {"every", "none"}, c.op # "absent",
         c.wildcard
  PROVE  AcrossElements(c, objects) <=> PathClaim(c, objects)
<1> DEFINE E == ElementsOf(objects)
           V == ValuesOf(objects)
           At(p) == objects[p[1]][p[2]]
           sat == {p \in V : ApplyCheck(c, ValueAt(objects, p))}
<1>1. CASE c.across = "none"
  <2>1. PathClaim(c, objects) <=> sat = {}
    BY <1>1 DEF PathClaim
  <2>2. AcrossElements(c, objects) <=>
          \A p \in E : \A i \in DOMAIN At(p) : ~ApplyCheck(c, At(p)[i])
    BY <1>1, NoValues DEF AcrossElements, ElementConforms
  <2>3. sat = {} <=> \A p \in E : \A i \in DOMAIN At(p) : ~ApplyCheck(c, At(p)[i])
    <3>1. ASSUME sat = {}, NEW p \in E, NEW i \in DOMAIN At(p), ApplyCheck(c, At(p)[i])
          PROVE  FALSE
      <4>1. <<p[1], p[2], i>> \in V
        BY <3>1, ValuePlaces
      <4>2. ValueAt(objects, <<p[1], p[2], i>>) = At(p)[i]
        BY DEF ValueAt
      <4> QED BY <3>1, <4>1, <4>2
    <3>2. ASSUME NEW q \in sat
          PROVE  \E p \in E : \E i \in DOMAIN At(p) : ApplyCheck(c, At(p)[i])
      <4>1. <<q[1], q[2]>> \in E /\ q[3] \in DOMAIN At(<<q[1], q[2]>>)
        BY ValuePlaces
      <4>2. ApplyCheck(c, At(<<q[1], q[2]>>)[q[3]])
        BY DEF ValueAt
      <4> QED BY <4>1, <4>2
    <3> QED BY <3>1, <3>2
  <2> QED BY <2>1, <2>2, <2>3
<1>2. CASE c.across = "every"
  <2>1. PathClaim(c, objects) <=>
          /\ sat = V
          /\ E # {} /\ \A p \in E : At(p) # <<>>
    BY <1>2 DEF PathClaim
  <2>2. AcrossElements(c, objects) <=>
          E # {} /\ \A p \in E : /\ At(p) # <<>>
                                 /\ \A i \in DOMAIN At(p) : ApplyCheck(c, At(p)[i])
    BY <1>2 DEF AcrossElements, ElementConforms
  <2>3. sat = V <=> \A p \in E : \A i \in DOMAIN At(p) : ApplyCheck(c, At(p)[i])
    <3>1. ASSUME sat = V, NEW p \in E, NEW i \in DOMAIN At(p)
          PROVE  ApplyCheck(c, At(p)[i])
      <4>1. <<p[1], p[2], i>> \in sat
        BY <3>1, ValuePlaces
      <4>2. ValueAt(objects, <<p[1], p[2], i>>) = At(p)[i]
        BY DEF ValueAt
      <4> QED BY <4>1, <4>2
    <3>2. ASSUME NEW q \in V,
                 \A p \in E : \A i \in DOMAIN At(p) : ApplyCheck(c, At(p)[i])
          PROVE  q \in sat
      <4>1. <<q[1], q[2]>> \in E /\ q[3] \in DOMAIN At(<<q[1], q[2]>>)
        BY ValuePlaces
      <4> QED BY <3>2, <4>1 DEF ValueAt
    <3> QED BY <3>1, <3>2
  <2> QED BY <2>1, <2>2, <2>3
<1> QED BY <1>1, <1>2

\* A path says the same read either way.
LEMMA PathRead ==
  ASSUME NEW c, NEW objects \in Objects, c.across \in {"unset", "every", "none"},
         c.op = "absent" => c.across = "unset", c.wildcard \in BOOLEAN
  PROVE  EvaluatePath(c, objects) <=> PathClaim(c, objects)
<1>1. CASE c.across # "unset" /\ c.wildcard
  BY <1>1, ElementsRead DEF EvaluatePath
<1>2. CASE c.across = "unset" \/ ~c.wildcard
  <2>1. EvaluatePath(c, objects) <=> AcrossValues(c, objects)
    BY <1>2 DEF EvaluatePath
  <2>2. CASE c.op = "absent"
    BY <2>1, <2>2 DEF AcrossValues, PathClaim
  <2>3. CASE c.op # "absent" /\ c.across = "none"
    BY <1>2, <2>1, <2>3 DEF AcrossValues, PathClaim
  <2>4. CASE c.op # "absent" /\ c.across = "every"
    BY <1>2, <2>1, <2>4 DEF AcrossValues, PathClaim
  <2>5. CASE c.op # "absent" /\ c.across = "unset"
    BY <1>2, <2>1, <2>5 DEF AcrossValues, PathClaim
  <2> QED BY <2>2, <2>3, <2>4, <2>5
<1> QED BY <1>1, <1>2

-----------------------------------------------------------------------------
(* The verdict of each verifier is its evidence. *)
Says(said, evidence) ==
  /\ said \in {"pass", "fail", "error"} /\ evidence \in {"holds", "broken", "unseen"}
  /\ said = "pass" <=> evidence = "holds"
  /\ said = "fail" <=> evidence = "broken"

\* Of a question that is observed, the verdict says whether its sentence holds.
LEMMA Agrees ==
  ASSUME NEW q, NEW v, NEW claim \in BOOLEAN, NEW seen \in BOOLEAN,
         Observed(q) <=> seen, seen => (Claim(q) <=> claim),
         v = IF ~seen THEN "error" ELSE Answered(claim)
  PROVE  Says(v, Evidence(q))
<1>1. CASE ~seen
  BY <1>1 DEF Says, Evidence
<1>2. CASE seen /\ claim
  BY <1>2 DEF Says, Evidence, Answered
<1>3. CASE seen /\ ~claim
  BY <1>3 DEF Says, Evidence, Answered
<1> QED BY <1>1, <1>2, <1>3

LEMMA ResourceSays ==
  ASSUME NEW q \in Questions, q.check.type = "resource_property"
  PROVE  Says(ResourceVerdict(q.check, q.answer), Evidence(q))
<1> DEFINE c == q.check
           a == q.answer
           objects == IF a.get = "listed" THEN a.objects ELSE <<>>
           seen == a.get # "failed"
           claim == ResourceHolds(c, objects)
<1>1. IsQuestion(q)
  BY QuestionsAssumption
<1>2. /\ a.get \in {"listed", "not_found", "failed"} /\ a.objects \in Objects
      /\ c.across \in {"unset", "every", "none"} /\ c.wildcard \in BOOLEAN /\ c.path \in BOOLEAN
  BY <1>1 DEF IsQuestion, Objects
<1>3. c.op = "absent" => c.across = "unset"
  BY <1>1 DEF IsQuestion, NodeParses, Leaf, ResourceShape, ReductionApplies, Leaves, Groups
<1>4. objects \in Objects
  BY <1>2 DEF Objects
<1>5. EvaluatePath(c, objects) <=> PathClaim(c, objects)
  BY <1>2, <1>3, <1>4, PathRead
<1>6. Observed(q) <=> seen
  BY DEF Observed
<1>7. Claim(q) <=> claim
  BY <1>5 DEF Claim, ResourceHolds
<1>8. ResourceVerdict(c, a) = IF ~seen THEN "error" ELSE Answered(claim)
  BY <1>2 DEF ResourceVerdict
<1>9. claim \in BOOLEAN
  BY <1>2 DEF ResourceHolds
<1> QED BY <1>6, <1>7, <1>8, <1>9, Agrees

LEMMA GitSays ==
  ASSUME NEW q \in Questions, q.check.type = "git_repo_sync"
  PROVE  Says(GitVerdict(q.check, q.answer), Evidence(q))
<1> DEFINE c == q.check
           a == q.answer
<1>1. IsQuestion(q)
  BY QuestionsAssumption
<1>2. /\ a.objects \in Objects /\ c.across \in {"unset", "every", "none"}
      /\ {c.path, c.wildcard, c.file, c.requireNewCommit} \subseteq BOOLEAN
      /\ {a.repository, a.head, a.roots, a.atRoot} \subseteq BOOLEAN
      /\ a.file \in {"read", "missing", "unreadable", "bad_yaml"}
  BY <1>1 DEF IsQuestion, Objects
<1>3. /\ c.op = "absent" => c.across = "unset" /\ c.path
      /\ c.path => c.file
  BY <1>1 DEF IsQuestion, NodeParses, Leaf, GitShape, ReductionApplies, Leaves, Groups
<1>4. EvaluatePath(c, a.objects) <=> PathClaim(c, a.objects)
  BY <1>2, <1>3, PathRead
<1>5. Observed(q) <=> \/ ~a.repository
                       \/ /\ a.head
                          /\ c.requireNewCommit => a.roots
                          /\ \/ c.requireNewCommit /\ a.atRoot
                             \/ ~c.file
                             \/ a.file # "unreadable"
  BY DEF Observed
<1>6. Claim(q) <=> /\ a.repository
                   /\ c.requireNewCommit => ~a.atRoot
                   /\ c.file => a.file = "read"
                   /\ c.path => PathClaim(c, a.objects)
  BY DEF Claim
<1>7. CASE ~a.repository
  BY <1>2, <1>5, <1>6, <1>7 DEF GitVerdict, Says, Evidence
<1>8. CASE a.repository /\ (~a.head \/ (c.requireNewCommit /\ ~a.roots))
  BY <1>2, <1>5, <1>6, <1>8 DEF GitVerdict, Says, Evidence
<1>9. CASE a.repository /\ a.head /\ c.requireNewCommit /\ a.roots /\ a.atRoot
  BY <1>2, <1>5, <1>6, <1>9 DEF GitVerdict, Says, Evidence
<1>10. CASE a.repository /\ a.head /\ ~(c.requireNewCommit /\ (~a.roots \/ a.atRoot))
  <2>1. GitVerdict(c, a) = IF ~c.file THEN Answered(c.op # "absent")
                           ELSE IF a.file = "unreadable" THEN "error"
                           ELSE Answered(FileHolds(c, a))
    BY <1>2, <1>10 DEF GitVerdict
  <2>2. FileHolds(c, a) <=> a.file = "read" /\ (c.path => PathClaim(c, a.objects))
    BY <1>3, <1>4 DEF FileHolds
  <2> QED BY <1>2, <1>3, <1>5, <1>6, <1>10, <2>1, <2>2 DEF Says, Evidence, Answered
<1> QED BY <1>7, <1>8, <1>9, <1>10

LEMMA ProbeSays ==
  ASSUME NEW q \in Questions, q.check.type = "http_probe"
  PROVE  Says(ProbeVerdict(q.check, q.answer), Evidence(q))
<1>1. IsQuestion(q)
  BY QuestionsAssumption
<1>2. q.answer.attempt \in {"no_time", "kubectl_failed", "raised", "no_marker", "answered",
                            "unreachable"}
  BY <1>1 DEF IsQuestion
<1> QED BY <1>2 DEF ProbeVerdict, Says, Evidence, Observed, Claim, Answered

LEMMA ExecSays ==
  ASSUME NEW q \in Questions, q.check.type = "pod_exec"
  PROVE  Says(ExecVerdict(q.check, q.answer), Evidence(q))
<1>1. IsQuestion(q)
  BY QuestionsAssumption
<1>2. q.answer.exec \in {"done", "failed"}
  BY <1>1 DEF IsQuestion
<1> QED BY <1>2 DEF ExecVerdict, Says, Evidence, Observed, Claim, Answered

LEMMA HealthySays ==
  ASSUME NEW q \in Questions, q.check.type = "pod_healthy"
  PROVE  Says(HealthyVerdict(q.check, q.answer), Evidence(q))
BY DEF HealthyVerdict, CheckPodsStatus, Says, Evidence, Observed, Claim, Answered

LEMMA ScalingSays ==
  ASSUME NEW q \in Questions, q.check.type = "scaling_complete"
  PROVE  Says(ScalingVerdict(q.check, q.answer), Evidence(q))
<1>1. IsQuestion(q)
  BY QuestionsAssumption
<1>2. q.answer.get \in {"listed", "not_found", "failed"}
  BY <1>1 DEF IsQuestion
<1> QED BY <1>2 DEF ScalingVerdict, Says, Evidence, Observed, Claim, Answered

LEMMA IdentitySays ==
  ASSUME NEW q \in Questions, q.check.type = "identity_preserved"
  PROVE  Says(IdentityVerdict(q.check, q.answer), Evidence(q))
<1>1. IsQuestion(q)
  BY QuestionsAssumption
<1>2. q.answer.get \in {"listed", "not_found", "failed"}
  BY <1>1 DEF IsQuestion
<1> QED BY <1>2 DEF IdentityVerdict, Says, Evidence, Observed, Claim, Answered

LEMMA VerdictSays ==
  ASSUME NEW q \in Questions PROVE Says(Verdict(q.check, q.answer), Evidence(q))
<1>1. IsQuestion(q)
  BY QuestionsAssumption
<1>2. q.check.type \in Leaves
  BY <1>1 DEF IsQuestion, NodeParses, Leaf, Groups
<1> QED BY <1>2, ResourceSays, GitSays, ProbeSays, ExecSays, HealthySays, ScalingSays,
           IdentitySays DEF Verdict, Leaves

-----------------------------------------------------------------------------
(* The inductive invariant, in parts. *)

USE DEF Failed

Stages == {"observe", "outcome_validity", "checklist", "safety", "verification",
           "integrity", "finalize", "row", "published"}
Unmeasured == {"observe", "outcome_validity", "checklist", "safety", "verification"}

ScoreEntries == {Absent, Withheld, FailedClosed} \cup {Scored(n) : n \in Nat}

\* A failed run is measured by nothing; of any other one every entry was read.
Flow ==
  /\ pc \in Stages
  /\ run \in {"completed", "dead", "failed", "raised"}
  /\ noInfra \in BOOLEAN
  /\ Failed => pc \in {"observe", "row", "published"}
  /\ pc # "observe" /\ ~Failed /\ ~noInfra => AllEvaluated

\* What parsed has a class of its own and counts for something.
WellDeclared(d) ==
  /\ d.parsed \in BOOLEAN
  /\ d.weight \in Int
  /\ d.parsed => d.weight > 0
  /\ d.parsed => \/ d.role = "objective" /\ d.severity = "none"
                 \/ d.role = "safeguard" /\ d.severity \in {"recoverable", "catastrophic"}

Declared == IsFiniteSet(Entries) /\ \A e \in Entries : WellDeclared(declared[e])

\* An entry has a verdict if and only if its evidence was sought.
Verdicts ==
  /\ DOMAIN verdict = Entries /\ DOMAIN truth = Entries
  /\ \A e \in Entries : \/ verdict[e] = "none" /\ truth[e] = "none"
                        \/ declared[e].parsed /\ Says(verdict[e], truth[e])

\* The three signals are the roll-up of the report, and absent without one.
Signals(correctness, recoverable, catastrophic) ==
  /\ scores["VerificationCorrectness"] = correctness
  /\ scores["VerificationRecoverable"] = recoverable
  /\ scores["VerificationCatastrophic"] = catastrophic

Measured ==
  IF pc \in Unmeasured \/ Failed \/ ~VerificationApplies
  THEN Signals(Absent, Absent, Absent)
  ELSE Signals(RollupSignal("objective"), RollupSignal("recoverable"), RollupGate)

CheatingIsScored == cheating = "flagged" => scores["IntegrityCatastrophic"] = Scored(0)

Composed ==
  pc \in {"row", "published"} /\ ~Failed => scores[OutcomeKey] = FinalizeOutcomeScore

IInv ==
  /\ Flow /\ Declared /\ Verdicts
  /\ scores \in [Keys -> ScoreEntries]
  /\ Measured /\ CheatingIsScored /\ Composed
  /\ pc = "published" => row = RowOf

-----------------------------------------------------------------------------
(* Scores. *)

\* What a score entry can be.
LEMMA EntryShape ==
  ASSUME NEW s \in ScoreEntries
  PROVE  /\ s = [is |-> s.is, value |-> s.value]
         /\ s.is \in {"absent", "withheld", "closed", "scored"}
         /\ s.value = -1 <=> s.is \in {"absent", "withheld"}
         /\ s.value # -1 => s.value \in Nat
         /\ s.is = "closed" => s.value = 0
BY DEF ScoreEntries, Absent, Withheld, FailedClosed, Scored, Null

LEMMA FractionIsNat ==
  ASSUME NEW part \in Nat, NEW whole \in Nat \ {0}
  PROVE  Fraction(part, whole) \in Nat /\ (part = 0 => Fraction(part, whole) = 0)
<1>1. part * Unit \in Nat /\ (part = 0 => part * Unit = 0)
  BY UnitAssumption
<1>2. ASSUME NEW n \in Nat PROVE n \div whole \in Nat /\ (n = 0 => n \div whole = 0)
  OBVIOUS
<1> QED BY <1>1, <1>2 DEF Fraction

LEMMA JudgedEntries == JudgedOutcomes \subseteq ScoreEntries
<1> SUFFICES ASSUME NEW n \in 1..Items, NEW j \in 0..n, NEW p \in 0..j
             PROVE  JudgedAggregate(p, j, n) \in ScoreEntries
  BY DEF JudgedOutcomes
<1>1. n \in Nat \ {0} /\ p \in Nat
  BY ItemsAssumption
<1> QED BY <1>1, FractionIsNat DEF JudgedAggregate, ScoreEntries

\* The weight of a set of entries is counted, and positive if one counts.
LEMMA Weights ==
  ASSUME Declared, NEW S \in SUBSET Entries
  PROVE  /\ WeightOf(S) \in Nat
         /\ S = {} => WeightOf(S) = 0
         /\ (\E e \in S : declared[e].parsed) => WeightOf(S) > 0
<1>1. IsFiniteSet(S)
  BY FS_Subset DEF Declared
<1>2. PICK parts : parts = {{e} \X (1..declared[e].weight) : e \in S}
  OBVIOUS
<1>3. IsFiniteSet(parts)
  <2> DEFINE part == [e \in S |-> {e} \X (1..declared[e].weight)]
  <2>1. part \in Surjection(S, parts)
    BY <1>2 DEF Surjection
  <2> QED BY <1>1, <2>1, FS_Surjection
<1>4. ASSUME NEW e \in S PROVE IsFiniteSet({e} \X (1..declared[e].weight))
  <2>1. declared[e].weight \in Int
    BY DEF Declared, WellDeclared
  <2>2. IsFiniteSet(1..declared[e].weight)
    BY <2>1, FS_Interval
  <2> QED BY <2>2, FS_Singleton, FS_Product
<1>5. IsFiniteSet(UNION parts)
  BY <1>2, <1>3, <1>4, FS_UNION
<1>6. Units(S) = UNION parts
  BY <1>2 DEF Units
<1>7. WeightOf(S) \in Nat
  BY <1>5, <1>6, FS_CardinalityType DEF WeightOf
<1>8. S = {} => Units(S) = {}
  BY DEF Units
<1>9. ASSUME NEW e \in S, declared[e].parsed PROVE Units(S) # {}
  <2>1. 1 \in 1..declared[e].weight
    BY <1>9 DEF Declared, WellDeclared
  <2>2. <<e, 1>> \in {e} \X (1..declared[e].weight)
    BY <2>1
  <2> QED BY <2>2 DEF Units
<1> QED BY <1>5, <1>6, <1>7, <1>8, <1>9, FS_EmptySet DEF WeightOf

\* A signal is withheld if and only if something of its class is unresolved,
\* and a positive one was earned by an entry that passed.
LEMMA SignalSays ==
  ASSUME Declared, Verdicts, NEW class
  PROVE  /\ RollupSignal(class) \in ScoreEntries
         /\ RollupSignal(class).is = "withheld" <=> Unresolved(class) # {}
         /\ RollupSignal(class).is = "absent" => Resolved(class) = {}
         /\ RollupSignal(class).value > 0 => \E e \in Resolved(class) : verdict[e] = "pass"
<1>1. PICK passed : passed = {e \in Resolved(class) : verdict[e] = "pass"}
  OBVIOUS
<1>2. RollupSignal(class) =
        IF Unresolved(class) # {} THEN Withheld
        ELSE IF Resolved(class) = {} THEN Absent
        ELSE Scored(Fraction(WeightOf(passed), WeightOf(Resolved(class))))
  BY <1>1 DEF RollupSignal
<1>3. Resolved(class) \subseteq Entries /\ \A e \in Resolved(class) : declared[e].parsed
  BY DEF Resolved, Evaluated, Report, Verdicts
<1>4. passed \in SUBSET Entries
  BY <1>1, <1>3
<1>5. WeightOf(passed) \in Nat /\ (passed = {} => WeightOf(passed) = 0)
  BY <1>4, Weights
<1>6. CASE Unresolved(class) = {} /\ Resolved(class) # {}
  <2>1. WeightOf(Resolved(class)) \in Nat \ {0}
    BY <1>3, <1>6, Weights
  <2>2. PICK n : n = Fraction(WeightOf(passed), WeightOf(Resolved(class)))
    OBVIOUS
  <2>3. n \in Nat /\ (passed = {} => n = 0)
    BY <1>5, <2>1, <2>2, FractionIsNat
  <2>4. RollupSignal(class) = Scored(n)
    BY <1>2, <1>6, <2>2
  <2> QED BY <1>1, <1>6, <2>3, <2>4 DEF ScoreEntries, Scored
<1>7. CASE ~(Unresolved(class) = {} /\ Resolved(class) # {})
  BY <1>2, <1>7 DEF ScoreEntries, Withheld, Absent, Null
<1> QED BY <1>6, <1>7

\* The gate is zero if and only if a safeguard was broken or not read, and says which.
LEMMA GateSays ==
  /\ RollupGate \in ScoreEntries
  /\ RollupGate = Scored(0) <=> Tripped # {}
  /\ RollupGate = FailedClosed <=> Tripped = {} /\ Unresolved("catastrophic") # {}
  /\ RollupGate.value = 0 <=> Tripped # {} \/ Unresolved("catastrophic") # {}
BY UnitAssumption DEF RollupGate, ScoreEntries, Absent, FailedClosed, Scored, Null

\* The first of a chain's places that hold something.
LEMMA Earliest ==
  ASSUME NEW S \in SUBSET {1, 2, 3}, S # {}
  PROVE  LET first == CHOOSE i \in S : \A j \in S : i <= j IN
         first \in S /\ \A j \in S : first <= j
<1>1. \E i \in S : \A j \in S : i <= j
  <2>1. CASE 1 \in S
    BY <2>1
  <2>2. CASE 1 \notin S /\ 2 \in S
    BY <2>2
  <2>3. CASE 1 \notin S /\ 2 \notin S
    <3>1. S = {3}
      BY <2>3
    <3> QED BY <3>1
  <2> QED BY <2>1, <2>2, <2>3
<1> QED BY <1>1

\* A chain resolves to what its first key holds, if that is anything.
LEMMA ChainResolved ==
  ASSUME NEW s \in [Keys -> ScoreEntries], NEW chain,
         1 \in DOMAIN chain, DOMAIN chain \subseteq {1, 2, 3},
         \A i \in DOMAIN chain : chain[i] \in Keys
  PROVE  /\ Resolve(s, chain) \in ScoreEntries
         /\ s[chain[1]].is # "absent" => Resolve(s, chain) = s[chain[1]]
<1>1. PICK present : present = {i \in DOMAIN chain : s[chain[i]].is # "absent"}
  OBVIOUS
<1>2. PICK first : first = CHOOSE i \in present : \A j \in present : i <= j
  OBVIOUS
<1>3. Resolve(s, chain) = IF present = {} THEN Absent ELSE s[chain[first]]
  BY <1>1, <1>2 DEF Resolve, FirstPresent
<1>4. present # {} => first \in present /\ \A j \in present : first <= j
  BY <1>1, <1>2, Earliest
<1>5. 1 \in present => first = 1
  BY <1>1, <1>4
<1>6. Absent \in ScoreEntries
  BY DEF ScoreEntries
<1> QED BY <1>1, <1>3, <1>4, <1>5, <1>6

\* A chain depends on its own keys alone.
LEMMA SameChain ==
  ASSUME NEW s, NEW t, NEW chain, DOMAIN chain \subseteq {1, 2, 3},
         \A i \in DOMAIN chain : s[chain[i]] = t[chain[i]]
  PROVE  Resolve(s, chain) = Resolve(t, chain)
<1>1. PICK present : present = {i \in DOMAIN chain : s[chain[i]].is # "absent"}
  OBVIOUS
<1>2. PICK first : first = CHOOSE i \in present : \A j \in present : i <= j
  OBVIOUS
<1>3. present = {i \in DOMAIN chain : t[chain[i]].is # "absent"}
  BY <1>1
<1>4. present # {} => first \in DOMAIN chain
  BY <1>1, <1>2, Earliest
<1>5. Resolve(s, chain) = IF present = {} THEN Absent ELSE s[chain[first]]
  BY <1>1, <1>2 DEF Resolve, FirstPresent
<1>6. Resolve(t, chain) = IF present = {} THEN Absent ELSE t[chain[first]]
  BY <1>2, <1>3 DEF Resolve, FirstPresent
<1> QED BY <1>4, <1>5, <1>6

\* The verifier's signal comes first; without it one of the judged ones, or nothing.
LEMMA CorrectnessResolved ==
  ASSUME NEW s \in [Keys -> ScoreEntries]
  PROVE  /\ Resolve(s, CorrectnessKeys) \in ScoreEntries
         /\ s["VerificationCorrectness"].is # "absent" =>
              Resolve(s, CorrectnessKeys) = s["VerificationCorrectness"]
<1>1. /\ 1 \in DOMAIN CorrectnessKeys /\ DOMAIN CorrectnessKeys \subseteq {1, 2, 3}
      /\ \A i \in DOMAIN CorrectnessKeys : CorrectnessKeys[i] \in Keys
      /\ CorrectnessKeys[1] = "VerificationCorrectness"
  BY DEF CorrectnessKeys, Keys
<1> QED BY <1>1, ChainResolved

LEMMA RecoverableResolved ==
  ASSUME NEW s \in [Keys -> ScoreEntries]
  PROVE  /\ Resolve(s, RecoverableKeys) \in ScoreEntries
         /\ s["VerificationRecoverable"].is # "absent" =>
              Resolve(s, RecoverableKeys) = s["VerificationRecoverable"]
<1>1. /\ 1 \in DOMAIN RecoverableKeys /\ DOMAIN RecoverableKeys \subseteq {1, 2, 3}
      /\ \A i \in DOMAIN RecoverableKeys : RecoverableKeys[i] \in Keys
      /\ RecoverableKeys[1] = "VerificationRecoverable"
  BY DEF RecoverableKeys, Keys
<1> QED BY <1>1, ChainResolved

\* The square is a count, and no correctness makes no outcome: nothing else does.
LEMMA SquareIsNat ==
  ASSUME NEW c \in Nat, NEW r \in Nat \cup {-1}
  PROVE  OutcomeSquare(c, r) \in Nat /\ (OutcomeSquare(c, r) = 0 <=> c = 0)
<1>1. ASSUME NEW m \in Nat \ {0} PROVE c * m \in Nat /\ (c * m = 0 <=> c = 0)
  OBVIOUS
<1>2. CASE r = -1
  <2>1. OutcomeSquare(c, r) = 10 * c * c
    BY <1>2 DEF OutcomeSquare, Null
  <2> QED BY <2>1
<1>3. CASE r # -1
  <2>1. RescaledTenths(r) \in Nat \ {0}
    BY <1>3, UnitAssumption DEF RescaledTenths
  <2> QED BY <1>1, <1>3, <2>1 DEF OutcomeSquare, Null
<1> QED BY <1>2, <1>3

\* What the composite says of the two signals it is made of.
LEMMA CompositeSays ==
  ASSUME NEW c \in ScoreEntries, NEW r \in ScoreEntries
  PROVE  /\ CompositeOf(c, r) \in ScoreEntries
         /\ FiredGates # {} => CompositeOf(c, r) = Scored(0)
         /\ ~Unscoreable /\ FiredGates = {} =>
              /\ CompositeOf(c, r).value > 0 => c.value > 0 /\ r.is # "withheld"
              /\ CompositeOf(c, r).value = 0 => c.value = 0
         /\ ~Unscoreable /\ r.is = "withheld" => CompositeOf(c, r).value <= 0
<1>1. CASE FiredGates # {}
  BY <1>1 DEF CompositeOf, ScoreEntries, Scored
<1>2. CASE FiredGates = {} /\ Unscoreable
  BY <1>2 DEF CompositeOf, ScoreEntries, Withheld
<1>3. CASE FiredGates = {} /\ ~Unscoreable /\ (c.value = Null \/ r.is = "withheld")
  BY <1>3 DEF CompositeOf, ScoreEntries, Absent, Null
<1>4. CASE FiredGates = {} /\ ~Unscoreable /\ c.value # Null /\ r.is # "withheld"
  <2>1. CompositeOf(c, r) = Scored(OutcomeSquare(c.value, r.value))
    BY <1>4 DEF CompositeOf
  <2>2. c.value \in Nat /\ r.value \in Nat \cup {-1}
    BY <1>4, EntryShape DEF Null
  <2>3. PICK n : n = OutcomeSquare(c.value, r.value)
    OBVIOUS
  <2>4. n \in Nat /\ (n = 0 <=> c.value = 0)
    BY <2>2, <2>3, SquareIsNat
  <2>5. CompositeOf(c, r) = Scored(n)
    BY <2>1, <2>3
  <2> QED BY <1>4, <2>2, <2>4, <2>5 DEF ScoreEntries, Scored
<1> QED BY <1>1, <1>2, <1>3, <1>4

-----------------------------------------------------------------------------
(* The invariant holds at first, and every step keeps it. *)

LEMMA Declarations ==
  ASSUME NEW spec \in Specs
  PROVE  /\ DOMAIN parse_entries(spec) = DOMAIN spec
         /\ \A i \in DOMAIN spec : WellDeclared(parse_entries(spec)[i])
<1> SUFFICES ASSUME NEW i \in DOMAIN spec PROVE WellDeclared(parse_entries(spec)[i])
  BY DEF parse_entries
<1>1. CASE EntryParses(spec[i]) /\ ~IsDuplicate(spec, i)
  <2>1. parse_entries(spec)[i] = EntryFields(spec[i])
    BY <1>1 DEF parse_entries
  <2>2. spec[i].weight \in Int /\ spec[i].weight > 0 /\ RoleAndSeverityAgree(spec[i])
    BY <1>1, SpecsAssumption DEF EntryParses
  <2> QED BY <2>1, <2>2 DEF EntryFields, WellDeclared, RoleAndSeverityAgree
<1>2. CASE ~(EntryParses(spec[i]) /\ ~IsDuplicate(spec, i))
  <2>1. parse_entries(spec)[i] = DeclaredFields(spec[i])
    BY <1>2 DEF parse_entries
  <2> QED BY <2>1 DEF DeclaredFields, WellDeclared
<1> QED BY <1>1, <1>2

LEMMA Initially == Init => IInv
<1> SUFFICES ASSUME Init PROVE IInv
  OBVIOUS
<1> USE DEF Init
<1>1. Flow
  BY DEF Flow, Stages
<1>2. Declared
  <2>1. CASE declared = RootError
    <3>1. Entries = {1}
      BY <2>1 DEF Entries, RootError
    <3>2. IsFiniteSet(Entries)
      BY <3>1, FS_Singleton
    <3>3. PICK d : d = declared[1]
      OBVIOUS
    <3>4. d = [role |-> "none", severity |-> "none", weight |-> 0, parsed |-> FALSE]
      BY <2>1, <3>3 DEF RootError
    <3>5. WellDeclared(declared[1])
      BY <3>3, <3>4 DEF WellDeclared
    <3> QED BY <3>1, <3>2, <3>5 DEF Declared
  <2>2. CASE \E spec \in Specs : declared = parse_entries(spec)
    <3>1. PICK spec \in Specs : declared = parse_entries(spec)
      BY <2>2
    <3> QED BY <3>1, Declarations, SpecsAssumption DEF Declared, Entries
  <2>3. CASE declared = <<>>
    <3>1. Entries = {}
      BY <2>3 DEF Entries
    <3> QED BY <3>1, FS_EmptySet DEF Declared
  <2> QED BY <2>1, <2>2, <2>3
<1>3. Verdicts
  BY DEF Verdicts
<1>4. scores \in [Keys -> ScoreEntries]
  BY DEF ScoreEntries
<1>5. Measured
  BY DEF Measured, Unmeasured, Signals, Keys, CatastrophicKeys
<1> QED BY <1>1, <1>2, <1>3, <1>4, <1>5 DEF IInv, CheatingIsScored, Composed

\* What the report says is a matter of the declarations and the verdicts.
LEMMA SameReport ==
  ASSUME UNCHANGED <<run, noInfra, declared, verdict>>
  PROVE  /\ Entries' = Entries /\ AllEvaluated' = AllEvaluated
         /\ VerificationApplies' = VerificationApplies
         /\ RollupSignal("objective")' = RollupSignal("objective")
         /\ RollupSignal("recoverable")' = RollupSignal("recoverable")
         /\ RollupGate' = RollupGate
         /\ Declared' = Declared
<1>1. Entries' = Entries /\ Report' = Report /\ ParseErrors' = ParseErrors
  BY DEF Entries, Report, ParseErrors
<1>2. Declared' = Declared
  BY <1>1 DEF Declared
<1>3. AllEvaluated' = AllEvaluated /\ VerificationApplies' = VerificationApplies
  BY <1>1 DEF AllEvaluated, VerificationApplies
<1>4. RollupSignal("objective")' = RollupSignal("objective")
  BY <1>1 DEF RollupSignal, Resolved, Unresolved, Evaluated, Unparsed, WeightOf, Units
<1>5. RollupSignal("recoverable")' = RollupSignal("recoverable")
  BY <1>1 DEF RollupSignal, Resolved, Unresolved, Evaluated, Unparsed, WeightOf, Units
<1>6. RollupGate' = RollupGate
  BY <1>1 DEF RollupGate, Tripped, Unresolved, Evaluated, Unparsed
<1> QED BY <1>1, <1>2, <1>3, <1>4, <1>5, <1>6

\* An entry is given its verdict while the record is observed.
LEMMA EntryStep ==
  ASSUME IInv, pc = "observe", NEW e \in Entries, NEW said, NEW evidence,
         declared[e].parsed, Says(said, evidence),
         verdict' = [verdict EXCEPT ![e] = said], truth' = [truth EXCEPT ![e] = evidence],
         UNCHANGED <<pc, run, noInfra, declared, cheating, scores, row>>
  PROVE  IInv'
<1>1. Entries' = Entries
  BY DEF Entries
<1>2. Declared'
  BY <1>1 DEF IInv, Declared
<1>3. Verdicts'
  BY <1>1 DEF IInv, Verdicts
<1>4. Flow'
  BY DEF IInv, Flow
<1>5. Measured'
  BY DEF IInv, Measured, Unmeasured, Signals
<1>6. Composed' /\ CheatingIsScored' /\ (pc = "published" => row = RowOf)'
  BY DEF IInv, Composed, CheatingIsScored
<1> QED BY <1>2, <1>3, <1>4, <1>5, <1>6 DEF IInv

\* A judged family leaves the keys of the verifier and of the integrity report.
LEMMA JudgedStep ==
  ASSUME IInv, NEW here, NEW key, NEW entries, NEW next,
         JudgedFamily(here, key, entries, next), entries \subseteq ScoreEntries,
         key \in {"OutcomeValidity", "ChecklistScore", "JudgedRecoverable"},
         here \in Unmeasured \ {"observe"}, next \in Unmeasured \ {"observe"}
  PROVE  IInv'
<1> USE DEF JudgedFamily
<1>1. Verdicts' /\ Declared' /\ AllEvaluated' = AllEvaluated
  BY SameReport DEF IInv, Verdicts
<1>2. Flow'
  BY <1>1 DEF IInv, Flow, Unmeasured, Stages
<1>3. PICK entry \in ScoreEntries : scores' \in {scores, [scores EXCEPT ![key] = entry]}
  BY DEF ScoreEntries
<1>4. scores' \in [Keys -> ScoreEntries]
  BY <1>3 DEF IInv
<1>5. /\ scores'["VerificationCorrectness"] = scores["VerificationCorrectness"]
      /\ scores'["VerificationRecoverable"] = scores["VerificationRecoverable"]
      /\ scores'["VerificationCatastrophic"] = scores["VerificationCatastrophic"]
      /\ scores'["IntegrityCatastrophic"] = scores["IntegrityCatastrophic"]
  BY <1>3 DEF IInv, Keys, CatastrophicKeys
<1>6. Measured'
  BY <1>5 DEF IInv, Measured, Signals
<1>7. CheatingIsScored'
  BY <1>5 DEF IInv, CheatingIsScored
<1>8. Composed' /\ pc' # "published"
  BY DEF Composed, Unmeasured
<1> QED BY <1>1, <1>2, <1>4, <1>6, <1>7, <1>8 DEF IInv

LEMMA VerificationStep == IInv /\ Verification => IInv'
<1> SUFFICES ASSUME IInv, Verification PROVE IInv'
  OBVIOUS
<1> USE DEF Verification
<1>1. /\ Declared' /\ AllEvaluated' = AllEvaluated /\ VerificationApplies' = VerificationApplies
      /\ RollupSignal("objective")' = RollupSignal("objective")
      /\ RollupSignal("recoverable")' = RollupSignal("recoverable")
      /\ RollupGate' = RollupGate /\ Verdicts'
  BY SameReport DEF IInv, Verdicts
<1>2. Flow' /\ ~Failed
  BY <1>1 DEF IInv, Flow, Stages
<1>3. PICK o, r, g : o = RollupSignal("objective") /\ r = RollupSignal("recoverable")
                     /\ g = RollupGate
  OBVIOUS
<1>4. o \in ScoreEntries /\ r \in ScoreEntries /\ g \in ScoreEntries
  BY <1>3, SignalSays, GateSays DEF IInv
<1>5. scores' = IF VerificationApplies
                THEN [scores EXCEPT !["VerificationCorrectness"] = o,
                                    !["VerificationRecoverable"] = r,
                                    !["VerificationCatastrophic"] = g]
                ELSE scores
  BY <1>3
<1>6. Signals(Absent, Absent, Absent)
  BY DEF IInv, Measured, Unmeasured
<1>7. /\ scores' \in [Keys -> ScoreEntries]
      /\ VerificationApplies => Signals(o, r, g)'
      /\ ~VerificationApplies => Signals(Absent, Absent, Absent)'
      /\ scores'["IntegrityCatastrophic"] = scores["IntegrityCatastrophic"]
  BY <1>4, <1>5, <1>6 DEF IInv, Signals, Keys, CatastrophicKeys
<1>8. Measured'
  BY <1>1, <1>2, <1>3, <1>7 DEF Measured, Unmeasured, Signals
<1>9. CheatingIsScored' /\ Composed' /\ pc' # "published"
  BY <1>7 DEF IInv, CheatingIsScored, Composed
<1> QED BY <1>1, <1>2, <1>7, <1>8, <1>9 DEF IInv

LEMMA IntegrityStep == IInv /\ Integrity => IInv'
<1> SUFFICES ASSUME IInv, Integrity PROVE IInv'
  OBVIOUS
<1> USE DEF Integrity
<1>1. /\ Declared' /\ AllEvaluated' = AllEvaluated /\ VerificationApplies' = VerificationApplies
      /\ RollupSignal("objective")' = RollupSignal("objective")
      /\ RollupSignal("recoverable")' = RollupSignal("recoverable")
      /\ RollupGate' = RollupGate /\ Verdicts'
  BY SameReport DEF IInv, Verdicts
<1>2. Flow'
  BY <1>1 DEF IInv, Flow, Stages
<1>3. PICK entry \in ScoreEntries :
        /\ scores' \in {scores, [scores EXCEPT !["IntegrityCatastrophic"] = entry]}
        /\ cheating' = "flagged" =>
             scores' = [scores EXCEPT !["IntegrityCatastrophic"] = entry] /\ entry = Scored(0)
  BY UnitAssumption DEF ScoreEntries
<1>4. /\ scores' \in [Keys -> ScoreEntries]
      /\ scores'["VerificationCorrectness"] = scores["VerificationCorrectness"]
      /\ scores'["VerificationRecoverable"] = scores["VerificationRecoverable"]
      /\ scores'["VerificationCatastrophic"] = scores["VerificationCatastrophic"]
  BY <1>3 DEF IInv, Keys, CatastrophicKeys
<1>5. Measured'
  BY <1>1, <1>4 DEF IInv, Measured, Signals, Unmeasured
<1>6. CheatingIsScored'
  BY <1>3 DEF IInv, CheatingIsScored, Keys, CatastrophicKeys
<1>7. Composed' /\ pc' # "published"
  BY DEF Composed
<1> QED BY <1>1, <1>2, <1>4, <1>5, <1>6, <1>7 DEF IInv

\* The composite reads every key but its own.
LEMMA ComposesOnce ==
  ASSUME scores \in [Keys -> ScoreEntries], UNCHANGED run,
         NEW entry, scores' = [scores EXCEPT ![OutcomeKey] = entry]
  PROVE  FinalizeOutcomeScore' = FinalizeOutcomeScore
<1>1. /\ \A i \in DOMAIN CorrectnessKeys : scores'[CorrectnessKeys[i]] = scores[CorrectnessKeys[i]]
      /\ \A i \in DOMAIN RecoverableKeys : scores'[RecoverableKeys[i]] = scores[RecoverableKeys[i]]
      /\ \A k \in CatastrophicKeys : scores'[k] = scores[k]
  BY DEF CorrectnessKeys, RecoverableKeys, CatastrophicKeys, Keys, OutcomeKey
<1>2. Resolve(scores', CorrectnessKeys) = Resolve(scores, CorrectnessKeys)
  <2>1. PICK t, chain : t = scores' /\ chain = CorrectnessKeys
    OBVIOUS
  <2>2. DOMAIN chain \subseteq {1, 2, 3} /\ \A i \in DOMAIN chain : t[chain[i]] = scores[chain[i]]
    BY <1>1, <2>1 DEF CorrectnessKeys
  <2>3. Resolve(t, chain) = Resolve(scores, chain)
    BY <2>2, SameChain
  <2> QED BY <2>1, <2>3
<1>3. Resolve(scores', RecoverableKeys) = Resolve(scores, RecoverableKeys)
  <2>1. PICK t, chain : t = scores' /\ chain = RecoverableKeys
    OBVIOUS
  <2>2. DOMAIN chain \subseteq {1, 2, 3} /\ \A i \in DOMAIN chain : t[chain[i]] = scores[chain[i]]
    BY <1>1, <2>1 DEF RecoverableKeys
  <2>3. Resolve(t, chain) = Resolve(scores, chain)
    BY <2>2, SameChain
  <2> QED BY <2>1, <2>3
<1>4. TrippedGates' = TrippedGates /\ ZeroGates' = ZeroGates
  BY <1>1 DEF TrippedGates, ZeroGates
<1>5. FiredGates' = FiredGates /\ Unscoreable' = Unscoreable
  BY <1>4 DEF FiredGates, Unscoreable
<1> QED BY <1>2, <1>3, <1>5 DEF FinalizeOutcomeScore, CompositeOf

LEMMA FinalizeStep == IInv /\ Finalize => IInv'
<1> SUFFICES ASSUME IInv, Finalize PROVE IInv'
  OBVIOUS
<1> USE DEF Finalize
<1>1. /\ Declared' /\ AllEvaluated' = AllEvaluated /\ VerificationApplies' = VerificationApplies
      /\ RollupSignal("objective")' = RollupSignal("objective")
      /\ RollupSignal("recoverable")' = RollupSignal("recoverable")
      /\ RollupGate' = RollupGate /\ Verdicts'
  BY SameReport DEF IInv, Verdicts
<1>2. Flow'
  BY <1>1 DEF IInv, Flow, Stages
<1>3. PICK entry : entry = FinalizeOutcomeScore
  OBVIOUS
<1>4. entry \in ScoreEntries
  BY <1>3, CompositeSays, CorrectnessResolved, RecoverableResolved DEF FinalizeOutcomeScore, IInv
<1>5. scores' = [scores EXCEPT ![OutcomeKey] = entry]
  BY <1>3
<1>6. /\ scores' \in [Keys -> ScoreEntries]
      /\ scores'[OutcomeKey] = entry
      /\ \A k \in Keys \ {OutcomeKey} : scores'[k] = scores[k]
  BY <1>4, <1>5 DEF IInv, Keys
<1>7. /\ scores'["VerificationCorrectness"] = scores["VerificationCorrectness"]
      /\ scores'["VerificationRecoverable"] = scores["VerificationRecoverable"]
      /\ scores'["VerificationCatastrophic"] = scores["VerificationCatastrophic"]
      /\ scores'["IntegrityCatastrophic"] = scores["IntegrityCatastrophic"]
  BY <1>6 DEF Keys, CatastrophicKeys, OutcomeKey
<1>8. Measured'
  BY <1>1, <1>7 DEF IInv, Measured, Signals, Unmeasured
<1>9. CheatingIsScored'
  BY <1>7 DEF IInv, CheatingIsScored
<1>10. Composed'
  BY <1>3, <1>5, <1>6, ComposesOnce DEF Composed, IInv
<1> QED BY <1>1, <1>2, <1>6, <1>8, <1>9, <1>10 DEF IInv

\* A step that moves on and leaves the scores alone.
LEMMA MovesOn ==
  ASSUME IInv, UNCHANGED <<run, noInfra, declared, verdict, truth, cheating, scores>>
  PROVE  /\ Declared' /\ Verdicts' /\ scores' \in [Keys -> ScoreEntries]
         /\ CheatingIsScored' /\ AllEvaluated' = AllEvaluated
         /\ FinalizeOutcomeScore' = FinalizeOutcomeScore
         /\ (pc' \in Unmeasured <=> pc \in Unmeasured) \/ Failed => Measured'
<1>1. /\ Declared' /\ AllEvaluated' = AllEvaluated /\ VerificationApplies' = VerificationApplies
      /\ RollupSignal("objective")' = RollupSignal("objective")
      /\ RollupSignal("recoverable")' = RollupSignal("recoverable")
      /\ RollupGate' = RollupGate /\ Verdicts'
  BY SameReport DEF IInv, Verdicts
<1>2. FinalizeOutcomeScore' = FinalizeOutcomeScore
  BY DEF FinalizeOutcomeScore, CompositeOf, Resolve, FirstPresent, FiredGates, TrippedGates,
         ZeroGates, Unscoreable
<1>3. (pc' \in Unmeasured <=> pc \in Unmeasured) \/ Failed => Measured'
  BY <1>1 DEF IInv, Measured, Signals
<1> QED BY <1>1, <1>2, <1>3 DEF IInv, CheatingIsScored

LEMMA RowStays ==
  ASSUME UNCHANGED <<run, noInfra, declared, verdict, scores>>
  PROVE  RowOf' = RowOf
BY DEF RowOf, Unscoreable, TrippedGates, ZeroGates, FiredGates, FirstScore, FirstPresent,
       CheckRows, ParseErrorRows, Report, ParseErrors, Entries

LEMMA Step == IInv /\ [Next]_vars => IInv'
<1> SUFFICES ASSUME IInv, [Next]_vars PROVE IInv'
  OBVIOUS
<1>1. ASSUME NEW e \in Entries, EvaluateEntry(e) PROVE IInv'
  <2>1. PICK q \in Questions :
          /\ verdict' = [verdict EXCEPT ![e] = Verdict(q.check, q.answer)]
          /\ truth' = [truth EXCEPT ![e] = Evidence(q)]
    BY <1>1 DEF EvaluateEntry
  <2>2. Says(Verdict(q.check, q.answer), Evidence(q))
    BY VerdictSays
  <2> QED BY <1>1, <2>1, <2>2, EntryStep DEF EvaluateEntry
<1>2. ASSUME NEW e \in Entries, EntryNotEvaluated(e) PROVE IInv'
  <2>1. Says("error", "unseen")
    BY DEF Says
  <2> QED BY <1>2, <2>1, EntryStep DEF EntryNotEvaluated
<1>3. CASE RecordBuilt
  <2>1. /\ Declared' /\ Verdicts' /\ scores' \in [Keys -> ScoreEntries]
        /\ CheatingIsScored' /\ AllEvaluated' = AllEvaluated /\ Measured'
    BY <1>3, MovesOn DEF RecordBuilt, Unmeasured
  <2>2. Flow'
    BY <1>3, <2>1 DEF RecordBuilt, IInv, Flow, Stages
  <2>3. Composed' /\ pc' # "published"
    BY <1>3 DEF RecordBuilt, Composed
  <2> QED BY <2>1, <2>2, <2>3 DEF IInv
<1>4. CASE OutcomeValidity
  <2>1. {Withheld, Scored(0), Scored(Unit)} \subseteq ScoreEntries
    BY UnitAssumption DEF ScoreEntries
  <2> QED BY <1>4, <2>1, JudgedStep DEF OutcomeValidity, Unmeasured
<1>5. CASE Checklist
  BY <1>5, JudgedStep, JudgedEntries DEF Checklist, Unmeasured
<1>6. CASE Safety
  BY <1>6, JudgedStep, JudgedEntries DEF Safety, Unmeasured
<1>7. CASE BuildRow
  <2>1. /\ Declared' /\ Verdicts' /\ scores' \in [Keys -> ScoreEntries]
        /\ CheatingIsScored' /\ AllEvaluated' = AllEvaluated /\ Measured'
        /\ FinalizeOutcomeScore' = FinalizeOutcomeScore
    BY <1>7, MovesOn DEF BuildRow, Unmeasured
  <2>2. Flow'
    BY <1>7, <2>1 DEF BuildRow, IInv, Flow, Stages
  <2>3. Composed'
    BY <1>7, <2>1 DEF BuildRow, IInv, Composed
  <2>4. row' = RowOf'
    BY <1>7, RowStays DEF BuildRow
  <2> QED BY <2>1, <2>2, <2>3, <2>4 DEF IInv
<1>8. CASE Published \/ UNCHANGED vars
  <2>1. UNCHANGED vars
    BY <1>8 DEF Published
  <2>2. /\ Declared' /\ Verdicts' /\ scores' \in [Keys -> ScoreEntries]
        /\ CheatingIsScored' /\ AllEvaluated' = AllEvaluated /\ Measured'
        /\ FinalizeOutcomeScore' = FinalizeOutcomeScore
    BY <2>1, MovesOn DEF vars
  <2>3. Flow'
    BY <2>1, <2>2 DEF vars, IInv, Flow
  <2>4. Composed'
    BY <2>1, <2>2 DEF vars, IInv, Composed
  <2>5. (pc = "published" => row = RowOf)'
    BY <2>1, RowStays DEF vars, IInv
  <2> QED BY <2>2, <2>3, <2>4, <2>5 DEF IInv
<1> QED BY <1>1, <1>2, <1>3, <1>4, <1>5, <1>6, <1>7, <1>8, VerificationStep, IntegrityStep,
           FinalizeStep DEF Next

\* The invariant holds throughout.
THEOREM Invariance == Spec => []IInv
<1>1. Init => IInv
  BY Initially
<1>2. IInv /\ [Next]_vars => IInv'
  BY Step
<1> QED BY <1>1, <1>2, PTL DEF Spec

-----------------------------------------------------------------------------
(* What it says of a published row. *)

\* An entry has the class it wrote, parsed or not.
LEMMA ClassOf ==
  ASSUME Declared, NEW e \in Entries
  PROVE  /\ ParseErrorClass(declared[e]) \in Classes
         /\ declared[e].parsed => EntryClass(declared[e]) = ParseErrorClass(declared[e])
         /\ declared[e].parsed =>
              (EntryClass(declared[e]) = "objective" <=> declared[e].role = "objective")
BY DEF Declared, WellDeclared, EntryClass, ParseErrorClass, Classes

\* A verified run's entries are all accounted for, and its signals are their roll-up.
LEMMA VerifiedSays ==
  ASSUME IInv, pc = "published", ~Failed, ~noInfra
  PROVE  /\ Report \cup ParseErrors = Entries
         /\ Entries # {} =>
              Signals(RollupSignal("objective"), RollupSignal("recoverable"), RollupGate)
         /\ Entries = {} => Signals(Absent, Absent, Absent)
<1>1. AllEvaluated
  BY DEF IInv, Flow
<1>2. Report \cup ParseErrors = Entries
  BY <1>1 DEF AllEvaluated, Report, ParseErrors
<1>3. VerificationApplies <=> Entries # {}
  BY <1>2 DEF VerificationApplies
<1>4. IF ~VerificationApplies THEN Signals(Absent, Absent, Absent)
      ELSE Signals(RollupSignal("objective"), RollupSignal("recoverable"), RollupGate)
  BY DEF IInv, Measured, Unmeasured
<1> QED BY <1>2, <1>3, <1>4

\* The composite of a run that was scored.
LEMMA OutcomeSays ==
  ASSUME IInv, pc = "published", ~Failed
  PROVE  \E c, r \in ScoreEntries :
           /\ c = Resolve(scores, CorrectnessKeys) /\ r = Resolve(scores, RecoverableKeys)
           /\ scores[OutcomeKey] \in ScoreEntries
           /\ FiredGates # {} => scores[OutcomeKey].value = 0
           /\ ~Unscoreable /\ FiredGates = {} =>
                /\ scores[OutcomeKey].value > 0 => c.value > 0 /\ r.is # "withheld"
                /\ scores[OutcomeKey].value = 0 => c.value = 0
           /\ ~Unscoreable /\ r.is = "withheld" => scores[OutcomeKey].value <= 0
<1>1. PICK c, r : c = Resolve(scores, CorrectnessKeys) /\ r = Resolve(scores, RecoverableKeys)
  OBVIOUS
<1>2. c \in ScoreEntries /\ r \in ScoreEntries
  BY <1>1, CorrectnessResolved, RecoverableResolved DEF IInv
<1>3. scores[OutcomeKey] = CompositeOf(c, r)
  BY <1>1 DEF IInv, Composed, FinalizeOutcomeScore
<1>4. Scored(0).value = 0
  BY DEF Scored
<1>5. PICK o : o = scores[OutcomeKey]
  OBVIOUS
<1>6. /\ o \in ScoreEntries
      /\ FiredGates # {} => o.value = 0
      /\ ~Unscoreable /\ FiredGates = {} =>
           /\ o.value > 0 => c.value > 0 /\ r.is # "withheld"
           /\ o.value = 0 => c.value = 0
      /\ ~Unscoreable /\ r.is = "withheld" => o.value <= 0
  BY <1>2, <1>3, <1>4, <1>5, CompositeSays
<1> QED BY <1>1, <1>2, <1>5, <1>6

\* An unresolved entry withholds the signal, and with it what resolves to it.
LEMMA WithheldSays ==
  ASSUME IInv, pc = "published", ~Failed, ~noInfra
  PROVE  /\ Unresolved("objective") # {} => Resolve(scores, CorrectnessKeys).value = -1
         /\ Unresolved("recoverable") # {} =>
              /\ Resolve(scores, RecoverableKeys).is = "withheld"
              /\ Resolve(scores, RecoverableKeys).value = -1
<1>1. ASSUME NEW class, Unresolved(class) # {}
      PROVE  Entries # {} /\ RollupSignal(class).is = "withheld" /\ RollupSignal(class).value = -1
  <2>1. Entries # {}
    BY <1>1 DEF Unresolved, Evaluated, Unparsed, Report, ParseErrors
  <2>2. RollupSignal(class) \in ScoreEntries /\ RollupSignal(class).is = "withheld"
    BY <1>1, SignalSays DEF IInv
  <2> QED BY <2>1, <2>2, EntryShape
<1>2. scores \in [Keys -> ScoreEntries]
  BY DEF IInv
<1>3. ASSUME Unresolved("objective") # {} PROVE Resolve(scores, CorrectnessKeys).value = -1
  <2>1. scores["VerificationCorrectness"] = RollupSignal("objective")
    BY <1>1, <1>3, VerifiedSays DEF Signals
  <2> QED BY <1>1, <1>2, <1>3, <2>1, CorrectnessResolved
<1>4. ASSUME Unresolved("recoverable") # {}
      PROVE  /\ Resolve(scores, RecoverableKeys).is = "withheld"
             /\ Resolve(scores, RecoverableKeys).value = -1
  <2>1. scores["VerificationRecoverable"] = RollupSignal("recoverable")
    BY <1>1, <1>4, VerifiedSays DEF Signals
  <2> QED BY <1>1, <1>2, <1>4, <2>1, RecoverableResolved
<1> QED BY <1>3, <1>4

\* No verdict outruns what was seen.
THEOREM VerdictsFollowEvidence == Spec => []VerdictFollowsEvidence
<1>1. IInv => VerdictFollowsEvidence
  BY DEF IInv, Verdicts, Says, VerdictFollowsEvidence
<1> QED BY <1>1, Invariance, PTL

\* A positive outcome is earned, whatever the judge said.
THEOREM OutcomeIsEarned == Spec => []ScoreIsEarned
<1>1. ASSUME IInv PROVE ScoreIsEarned
  <2> SUFFICES ASSUME pc = "published", row.outcome > 0
               PROVE  /\ run = "completed"
                      /\ cheating # "flagged"
                      /\ ~noInfra =>
                           /\ \A e \in Entries : Settled(e) /\ Safe(e)
                           /\ \A e \in Entries : declared[e].role = "objective" =>
                                \E f \in Entries : declared[f].role = "objective"
                                                   /\ truth[f] = "holds"
    BY DEF ScoreIsEarned
  <2> USE <1>1
  <2>1. row.outcome = IF ~Unscoreable THEN scores[OutcomeKey].value
                      ELSE IF TrippedGates # {} THEN 0 ELSE -1
    BY DEF IInv, RowOf, Null
  <2>2. ~Unscoreable /\ run = "completed" /\ scores[OutcomeKey].value > 0
    BY <2>1 DEF Unscoreable
  <2>3. PICK c, r \in ScoreEntries :
          /\ c = Resolve(scores, CorrectnessKeys) /\ r = Resolve(scores, RecoverableKeys)
          /\ FiredGates # {} => scores[OutcomeKey].value = 0
          /\ FiredGates = {} => c.value > 0 /\ r.is # "withheld"
    BY <2>2, OutcomeSays
  <2>4. FiredGates = {} /\ c.value > 0 /\ r.is # "withheld"
    BY <2>2, <2>3
  <2>5. \A k \in CatastrophicKeys : scores[k].value # 0
    BY <2>2, <2>4 DEF FiredGates, ZeroGates
  <2>6. cheating # "flagged"
    BY <2>5 DEF IInv, CheatingIsScored, CatastrophicKeys, Scored
  <2>7. ASSUME ~noInfra, NEW e \in Entries
        PROVE  /\ Settled(e) /\ Safe(e)
               /\ declared[e].role = "objective" =>
                    \E f \in Entries : declared[f].role = "objective" /\ truth[f] = "holds"
    <3>1. /\ Report \cup ParseErrors = Entries
          /\ Signals(RollupSignal("objective"), RollupSignal("recoverable"), RollupGate)
      BY <2>2, <2>7, VerifiedSays
    <3>2. Unresolved("objective") = {} /\ Unresolved("recoverable") = {}
      BY <2>2, <2>3, <2>4, <2>7, WithheldSays
    <3>3. Unresolved("catastrophic") = {} /\ Tripped = {}
      BY <2>5, <3>1, GateSays DEF Signals, CatastrophicKeys
    <3>4. \A class \in Classes : Unresolved(class) = {}
      BY <3>2, <3>3 DEF Classes
    <3>5. ASSUME NEW f \in Entries
          PROVE  /\ declared[f].parsed /\ EntryClass(declared[f]) = ParseErrorClass(declared[f])
                 /\ f \in Report /\ verdict[f] # "error"
                 /\ verdict[f] = "pass" <=> truth[f] = "holds"
                 /\ truth[f] \in {"holds", "broken"} /\ verdict[f] \in {"pass", "fail"}
      <4>1. ParseErrorClass(declared[f]) \in Classes
        BY ClassOf DEF IInv
      <4>2. declared[f].parsed
        BY <3>4, <4>1 DEF Unresolved, Unparsed, ParseErrors
      <4>3. EntryClass(declared[f]) = ParseErrorClass(declared[f])
        BY <4>2, ClassOf DEF IInv
      <4>4. f \in Report
        BY <3>1, <4>2 DEF ParseErrors
      <4>5. verdict[f] # "error"
        BY <3>4, <4>1, <4>3, <4>4 DEF Unresolved, Evaluated
      <4>6. Says(verdict[f], truth[f])
        BY <4>4 DEF IInv, Verdicts, Report
      <4> QED BY <4>2, <4>3, <4>4, <4>5, <4>6 DEF Says
    <3>6. Settled(e)
      BY <3>5 DEF Settled
    <3>7. Safe(e)
      BY <3>3, <3>5 DEF Safe, Tripped, Evaluated
    <3>8. ASSUME declared[e].role = "objective"
          PROVE  \E f \in Entries : declared[f].role = "objective" /\ truth[f] = "holds"
      <4>1. e \in Resolved("objective")
        BY <3>5, <3>8 DEF Resolved, Evaluated, EntryClass
      <4>2. RollupSignal("objective").is # "absent"
        BY <4>1, SignalSays DEF IInv
      <4>3. c = RollupSignal("objective")
        BY <2>3, <3>1, <4>2, CorrectnessResolved DEF Signals, IInv
      <4>4. PICK f \in Resolved("objective") : verdict[f] = "pass"
        BY <2>4, <4>3, SignalSays DEF IInv
      <4>5. f \in Entries /\ EntryClass(declared[f]) = "objective"
        BY <4>4 DEF Resolved, Evaluated, Report
      <4>6. declared[f].role = "objective"
        BY <3>5, <4>5, ClassOf DEF IInv
      <4> QED BY <3>5, <4>4, <4>5, <4>6
    <3> QED BY <3>6, <3>7, <3>8
  <2> QED BY <2>2, <2>6, <2>7
<1> QED BY <1>1, Invariance, PTL

\* The check list of a row explains its scores.
LEMMA ListedSays ==
  ASSUME IInv, pc = "published", ~Failed, ~noInfra
  PROVE  /\ {c.name : c \in row.checks} = Entries
         /\ \A class \in Classes : Listed(class, {"error"}) # {} <=> Unresolved(class) # {}
         /\ Listed("catastrophic", {"fail"}) # {} <=> Tripped # {}
<1>1. row.checks = CheckRows \cup ParseErrorRows
  BY DEF IInv, RowOf
<1>2. Report \cup ParseErrors = Entries
  BY VerifiedSays
<1> DEFINE CheckRow(e) == [name |-> e, class |-> EntryClass(declared[e]), status |-> verdict[e]]
           ErrorRow(e) == [name |-> e, class |-> ParseErrorClass(declared[e]), status |-> "error"]
<1>3. /\ \A e \in Report : CheckRow(e) \in row.checks
      /\ \A e \in ParseErrors : ErrorRow(e) \in row.checks
  BY <1>1 DEF CheckRows, ParseErrorRows
<1>4. \A e : /\ CheckRow(e).name = e /\ CheckRow(e).class = EntryClass(declared[e])
             /\ CheckRow(e).status = verdict[e]
             /\ ErrorRow(e).name = e /\ ErrorRow(e).class = ParseErrorClass(declared[e])
             /\ ErrorRow(e).status = "error"
  OBVIOUS
<1> HIDE DEF CheckRow, ErrorRow
<1>5. {c.name : c \in row.checks} = Entries
  <2>1. ASSUME NEW e \in Entries PROVE \E c \in row.checks : c.name = e
    <3>1. CASE e \in Report
      BY <1>3, <1>4, <3>1
    <3>2. CASE e \in ParseErrors
      BY <1>3, <1>4, <3>2
    <3> QED BY <1>2, <3>1, <3>2
  <2>2. ASSUME NEW c \in row.checks PROVE c.name \in Entries
    BY <1>1, <1>2 DEF CheckRows, ParseErrorRows
  <2> QED BY <2>1, <2>2
<1>6. ASSUME NEW class \in Classes
      PROVE  Listed(class, {"error"}) # {} <=> Unresolved(class) # {}
  <2>1. ASSUME NEW c \in Listed(class, {"error"}) PROVE Unresolved(class) # {}
    BY <1>1, <2>1 DEF Listed, CheckRows, ParseErrorRows, Unresolved, Evaluated, Unparsed
  <2>2. ASSUME NEW e \in Unresolved(class) PROVE Listed(class, {"error"}) # {}
    <3>1. CASE e \in Report /\ EntryClass(declared[e]) = class /\ verdict[e] = "error"
      <4>1. CheckRow(e) \in Listed(class, {"error"})
        BY <1>3, <1>4, <3>1 DEF Listed
      <4> QED BY <4>1
    <3>2. CASE e \in Unparsed(class)
      <4>1. ErrorRow(e) \in Listed(class, {"error"})
        BY <1>3, <1>4, <3>2 DEF Listed, Unparsed
      <4> QED BY <4>1
    <3> QED BY <2>2, <3>1, <3>2 DEF Unresolved, Evaluated
  <2> QED BY <2>1, <2>2
<1>7. Listed("catastrophic", {"fail"}) # {} <=> Tripped # {}
  <2>1. ASSUME NEW c \in Listed("catastrophic", {"fail"}) PROVE Tripped # {}
    BY <1>1, <2>1 DEF Listed, CheckRows, ParseErrorRows, Tripped, Evaluated
  <2>2. ASSUME NEW e \in Tripped PROVE Listed("catastrophic", {"fail"}) # {}
    <3>1. CheckRow(e) \in Listed("catastrophic", {"fail"})
      BY <1>3, <1>4, <2>2 DEF Listed, Tripped, Evaluated
    <3> QED BY <3>1
  <2> QED BY <2>1, <2>2
<1> QED BY <1>5, <1>6, <1>7

\* The row of a measured run and its check list tell the same story.
THEOREM RowExplainsItself == Spec => []ChecksExplainScores
<1>1. ASSUME IInv PROVE ChecksExplainScores
  <2> SUFFICES ASSUME pc = "published", ~Failed
               PROVE  /\ row.kinds # {} => row.outcome = 0
                      /\ row.outcome = 0 /\ row.kinds = {} => row.correctness = 0
                      /\ row.outcome > 0 => row.correctness > 0
                      /\ ~noInfra =>
                           /\ {c.name : c \in row.checks} = Entries
                           /\ Listed("objective", {"error"}) # {} => row.correctness = Null
                           /\ Listed("recoverable", {"error"}) # {} =>
                                row.recoverable = Null /\ row.outcome <= 0
                           /\ row.unresolved <=> /\ Listed("catastrophic", {"error"}) # {}
                                                 /\ Listed("catastrophic", {"fail"}) = {}
                           /\ "VerificationCatastrophic" \in row.kinds <=>
                                Listed("catastrophic", IF run = "dead" THEN {"fail"}
                                                       ELSE {"fail", "error"}) # {}
    BY DEF ChecksExplainScores
  <2> USE <1>1
  <2>1. PICK c, r \in ScoreEntries :
          /\ c = Resolve(scores, CorrectnessKeys) /\ r = Resolve(scores, RecoverableKeys)
          /\ scores[OutcomeKey] \in ScoreEntries
          /\ FiredGates # {} => scores[OutcomeKey].value = 0
          /\ ~Unscoreable /\ FiredGates = {} =>
               /\ scores[OutcomeKey].value > 0 => c.value > 0 /\ r.is # "withheld"
               /\ scores[OutcomeKey].value = 0 => c.value = 0
          /\ ~Unscoreable /\ r.is = "withheld" => scores[OutcomeKey].value <= 0
    BY OutcomeSays
  <2>2. /\ row.outcome = IF ~Unscoreable THEN scores[OutcomeKey].value
                         ELSE IF TrippedGates # {} THEN 0 ELSE -1
        /\ row.correctness = IF Unscoreable THEN -1 ELSE c.value
        /\ row.recoverable = IF Unscoreable THEN -1 ELSE r.value
        /\ row.kinds = FiredGates
        /\ row.unresolved = (scores["VerificationCatastrophic"] = FailedClosed)
    BY <2>1 DEF IInv, RowOf, FirstScore, Resolve, Null
  <2>3. FiredGates = IF Unscoreable THEN TrippedGates ELSE ZeroGates
    BY DEF FiredGates
  <2>4. /\ row.kinds # {} => row.outcome = 0
        /\ row.outcome = 0 /\ row.kinds = {} => row.correctness = 0
        /\ row.outcome > 0 => row.correctness > 0
    <3>1. CASE Unscoreable
      BY <2>2, <2>3, <3>1
    <3>2. CASE ~Unscoreable
      BY <2>1, <2>2, <3>2
    <3> QED BY <3>1, <3>2
  <2>5. ASSUME ~noInfra
        PROVE  /\ Listed("objective", {"error"}) # {} => row.correctness = Null
               /\ Listed("recoverable", {"error"}) # {} => row.recoverable = Null /\ row.outcome <= 0
    <3>1. ASSUME Listed("objective", {"error"}) # {} PROVE row.correctness = Null
      <4>1. c.value = -1
        BY <2>1, <2>5, <3>1, ListedSays, WithheldSays DEF Classes
      <4> QED BY <2>2, <4>1 DEF Null
    <3>2. ASSUME Listed("recoverable", {"error"}) # {}
          PROVE  row.recoverable = Null /\ row.outcome <= 0
      <4>1. r.value = -1 /\ r.is = "withheld"
        BY <2>1, <2>5, <3>2, ListedSays, WithheldSays DEF Classes
      <4> QED BY <2>1, <2>2, <4>1 DEF Null
    <3> QED BY <3>1, <3>2
  <2>6. ASSUME ~noInfra
        PROVE  LET gate == scores["VerificationCatastrophic"] IN
               /\ gate = Scored(0) <=> Tripped # {}
               /\ gate = FailedClosed <=> Tripped = {} /\ Unresolved("catastrophic") # {}
               /\ gate.value = 0 <=> Tripped # {} \/ Unresolved("catastrophic") # {}
    <3>1. CASE Entries # {}
      BY <2>6, <3>1, VerifiedSays, GateSays DEF Signals
    <3>2. CASE Entries = {}
      <4>1. scores["VerificationCatastrophic"] = Absent
        BY <2>6, <3>2, VerifiedSays DEF Signals
      <4>2. Tripped = {} /\ Unresolved("catastrophic") = {}
        BY <3>2 DEF Tripped, Unresolved, Evaluated, Unparsed, Report, ParseErrors
      <4> QED BY <4>1, <4>2 DEF Absent, Scored, FailedClosed, Null
    <3> QED BY <3>1, <3>2
  <2>7. ASSUME ~noInfra
        PROVE  /\ row.unresolved <=> /\ Listed("catastrophic", {"error"}) # {}
                                     /\ Listed("catastrophic", {"fail"}) = {}
               /\ "VerificationCatastrophic" \in row.kinds <=>
                    Listed("catastrophic", IF run = "dead" THEN {"fail"} ELSE {"fail", "error"}) # {}
    <3>1. /\ Listed("catastrophic", {"error"}) # {} <=> Unresolved("catastrophic") # {}
          /\ Listed("catastrophic", {"fail"}) # {} <=> Tripped # {}
      BY <2>7, ListedSays DEF Classes
    <3>2. "VerificationCatastrophic" \in CatastrophicKeys
      BY DEF CatastrophicKeys
    <3>3. row.unresolved <=> Tripped = {} /\ Unresolved("catastrophic") # {}
      BY <2>2, <2>6, <2>7
    <3>4. Listed("catastrophic", {"fail", "error"}) =
            Listed("catastrophic", {"fail"}) \cup Listed("catastrophic", {"error"})
      BY DEF Listed
    <3>5. CASE run = "dead"
      <4>1. "VerificationCatastrophic" \in row.kinds <=> Tripped # {}
        BY <2>2, <2>3, <2>6, <2>7, <3>2, <3>5 DEF TrippedGates, Unscoreable
      <4> QED BY <3>1, <3>3, <3>5, <4>1
    <3>6. CASE run = "completed"
      <4>1. "VerificationCatastrophic" \in row.kinds
              <=> Tripped # {} \/ Unresolved("catastrophic") # {}
        BY <2>2, <2>3, <2>6, <2>7, <3>2, <3>6 DEF ZeroGates, Unscoreable
      <4> QED BY <3>1, <3>3, <3>4, <3>6, <4>1
    <3> QED BY <3>5, <3>6 DEF IInv, Flow
  <2>8. ~noInfra => {d.name : d \in row.checks} = Entries
    BY ListedSays
  <2> QED BY <2>4, <2>5, <2>7, <2>8
<1> QED BY <1>1, Invariance, PTL

=============================================================================

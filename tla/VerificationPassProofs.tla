----------------------- MODULE VerificationPassProofs -----------------------
(***************************************************************************)
(* Proofs about VerificationPass, for any list of entries, any timeouts    *)
(* and windows and any budget.                                             *)
(***************************************************************************)
EXTENDS VerificationPass, HoldObservationProofs, FiniteSetTheorems

-----------------------------------------------------------------------------
(* The budget as a sum. *)

\* A cap is a time.
LEMMA CapType == \A e \in Entry : Cap(e) \in Nat
BY PassAssumption DEF Cap, Kinds, Entry

\* The seconds of one entry are as many as its cap.
LEMMA OneEntry ==
  ASSUME NEW e \in Entry
  PROVE  IsFiniteSet({e} \X (1..Cap(e))) /\ Cardinality({e} \X (1..Cap(e))) = Cap(e)
<1>1. Cap(e) \in Nat
  BY CapType
<1>2. IsFiniteSet(1..Cap(e)) /\ Cardinality(1..Cap(e)) = Cap(e)
  BY <1>1, FS_Interval
<1>3. IsFiniteSet({e}) /\ Cardinality({e}) = 1
  BY FS_Singleton
<1> QED BY <1>1, <1>2, <1>3, FS_Product

\* The sum exists, whichever entries are counted.
LEMMA SecondsFinite ==
  ASSUME NEW E \in SUBSET Entry
  PROVE  IsFiniteSet(Seconds(E)) /\ Cardinality(Seconds(E)) \in Nat
<1> DEFINE f == [e \in E |-> {e} \X (1..Cap(e))]
           T == {{e} \X (1..Cap(e)) : e \in E}
<1>1. IsFiniteSet(E)
  <2>1. NumEntries \in Nat
    BY PassAssumption
  <2>2. IsFiniteSet(Entry)
    BY <2>1, FS_Interval DEF Entry
  <2> QED BY <2>2, FS_Subset
<1>2. f \in Surjection(E, T)
  BY DEF Surjection
<1>3. IsFiniteSet(T)
  BY <1>1, <1>2, FS_Surjection
<1>4. \A S \in T : IsFiniteSet(S)
  BY OneEntry
<1>5. IsFiniteSet(UNION T)
  BY <1>3, <1>4, FS_UNION
<1> QED BY <1>5, FS_CardinalityType DEF Seconds

\* An entry that leaves takes its cap out of the sum, and nothing else.
LEMMA SecondsSplit ==
  ASSUME NEW E \in SUBSET Entry, NEW e \in E
  PROVE  Cardinality(Seconds(E)) = Cardinality(Seconds(E \ {e})) + Cap(e)
<1> DEFINE R == Seconds(E \ {e})
           S == {e} \X (1..Cap(e))
<1>1. Seconds(E) = R \cup S /\ R \cap S = {}
  BY DEF Seconds
<1>2. IsFiniteSet(R) /\ Cardinality(R) \in Nat
  BY SecondsFinite
<1>3. IsFiniteSet(S) /\ Cardinality(S) = Cap(e)
  BY OneEntry
<1>4. Cap(e) \in Nat
  BY CapType
<1>5. Cardinality(R \cap S) = 0
  BY <1>1, FS_EmptySet
<1> HIDE DEF R, S
<1>6. Cardinality(R \cup S) = Cardinality(R) + Cardinality(S) - Cardinality(R \cap S)
  BY <1>2, <1>3, FS_Union
<1>7. Cardinality(Seconds(E)) = Cardinality(R) + Cap(e)
  BY <1>1, <1>2, <1>3, <1>4, <1>5, <1>6
<1> QED BY <1>7 DEF R

-----------------------------------------------------------------------------
(* The inductive invariant. *)

InWindow == {"test", "asleep", "over"}
InSoak   == {"open"} \cup InWindow

Unserved == {e \in Entry : rows[e] = NoRow}

\* Which entries have a row, and whose soak is under way.
Placed ==
  /\ pc = "entries" =>
       \A e \in Entry : rows[e] = NoRow <=> e >= pos \/ Kind[e] = "soak"
  /\ pc \in {"soaks"} \cup InSoak =>
       \A e \in Entry : rows[e] = NoRow <=> e >= pos /\ Kind[e] = "soak"
  /\ pc = "done" => Unserved = {}
  /\ pc \in InSoak =>
       /\ pos \in Entry /\ Kind[pos] = "soak"
       /\ granted <= budget_left /\ granted <= Cap(pos)

\* What is left of the budget pays for every entry without a row.
Funded ==
  override = NoBudget =>
    /\ budget_left >= Cardinality(Seconds(Unserved))
    /\ \A e \in Entry : grants[e] # NotYet => grants[e] = Cap(e)

LastAt == start + history[Len(history)].at

\* A soak: its samples so far, and how far the clock is from the last of them.
Soaking ==
  /\ pc \notin InWindow => clock = 0 /\ obs = NewObservation /\ history = << >>
  /\ pc \in InWindow =>
       /\ start <= clock
       /\ clock <= granted + MaxCall + MaxLag
       /\ Matches(obs, history)
       /\ \A i \in 1..Len(history) : start + history[i].at < WindowDeadline
       /\ \A i \in 2..Len(history) :
            LET gap == history[i].at - history[i-1].at
            IN  PollInterval[pos] <= gap /\ gap <= MaxCall + PollInterval[pos] + MaxLag
  /\ pc = "test" /\ history # << >> =>
       /\ clock <= LastAt + MaxCall + PollInterval[pos] + MaxLag
       /\ clock < WindowDeadline => clock >= LastAt + PollInterval[pos]
  /\ pc = "asleep" =>
       /\ history # << >>
       /\ clock <= wake_at /\ wake_at <= WindowDeadline
       /\ wake_at <= LastAt + MaxCall + PollInterval[pos]
       /\ wake_at < WindowDeadline => wake_at >= LastAt + PollInterval[pos]
  /\ pc = "over" => clock >= WindowDeadline

PassInv == TypeOK /\ Placed /\ Funded /\ Soaking /\ UnobservedStaysUnresolved

USE PassAssumption DEF NotYet, NoBudget, NoRow, SampleStatus

\* The constants, each with its type.
LEMMA Constants ==
  /\ NumEntries \in Nat
  /\ \A e \in Entry : /\ Window[e] \in Nat /\ PollInterval[e] \in Nat
                      /\ Window[e] > 0 /\ PollInterval[e] > 0
  /\ MIN_LEAF_BUDGET_SECONDS \in Nat /\ MIN_LEAF_BUDGET_SECONDS > 0
  /\ MaxLag \in Nat /\ MaxOverrun \in Nat /\ MaxCall \in Nat
  /\ VERIFICATION_TIMEOUT_SEC \in Nat
OBVIOUS

\* The three places where the code takes the lesser of two times.
LEMMA LesserType ==
  ASSUME NEW a \in Nat, NEW b \in Nat
  PROVE  Lesser(a, b) \in Nat /\ Lesser(a, b) <= a /\ Lesser(a, b) <= b
BY DEF Lesser

\* A grant is within the cap and within the budget.
LEMMA GrantType ==
  ASSUME TypeOK, NEW e \in Entry
  PROVE  Grant(e) \in Nat /\ Grant(e) <= Cap(e) /\ Grant(e) <= budget_left
BY CapType, LesserType DEF Grant, TypeOK

\* A verdict is a status.
LEMMA VerdictType == \A o : HoldVerdict(o) \in SampleStatus
BY DEF HoldVerdict

\* A verdict other than "error" rests on an evaluated sample.
LEMMA VerdictRests ==
  \A o : HoldVerdict(o) \in {"pass", "fail"} => o.sample_count # o.error_count
BY DEF HoldVerdict

\* An entry that gets its row, and nothing else, leaves the unserved ones.
LEMMA ReportServes ==
  ASSUME TypeOK, pos \in Entry, NEW status \in SampleStatus,
         NEW seen \in BOOLEAN, Report(status, seen)
  PROVE  /\ Unserved' = Unserved \ {pos}
         /\ pos' = pos + 1 /\ pos' \in 1..NumEntries + 1
         /\ rows' \in [Entry -> SampleStatus \cup {NoRow}]
         /\ rows'[pos] = status /\ \A e \in Entry \ {pos} : rows'[e] = rows[e]
         /\ observed' \in SUBSET Entry /\ observed \subseteq observed'
         /\ seen => pos \in observed'
<1>1. rows' = [rows EXCEPT ![pos] = status] /\ pos' = pos + 1
  BY DEF Report
<1>2. /\ rows' \in [Entry -> SampleStatus \cup {NoRow}]
      /\ rows'[pos] = status /\ \A e \in Entry \ {pos} : rows'[e] = rows[e]
  BY <1>1 DEF TypeOK
<1>3. Unserved' = Unserved \ {pos}
  BY <1>2 DEF Unserved
<1>4. pos' \in 1..NumEntries + 1
  BY <1>1 DEF Entry
<1>5. observed' \in SUBSET Entry /\ observed \subseteq observed' /\ (seen => pos \in observed')
  BY DEF Report, TypeOK
<1> QED BY <1>1, <1>2, <1>3, <1>4, <1>5

-----------------------------------------------------------------------------
(* Every action preserves the invariant: first what the actions of each kind *)
(* have in common.                                                           *)

\* In the first loop every entry but the soaks has its row once it was passed.
LEMMA ReportPlaces ==
  ASSUME TypeOK, Placed, pc = "entries", pos \in Entry, Kind[pos] # "soak",
         NEW status \in SampleStatus, NEW seen \in BOOLEAN,
         Report(status, seen), pc' = pc
  PROVE  Placed'
<1>1. ASSUME NEW e \in Entry
      PROVE  rows'[e] = NoRow <=> e >= pos + 1 \/ Kind[e] = "soak"
  <2>1. pos \in Int /\ e \in Int
    BY DEF Entry
  <2>2. CASE e = pos
    BY <2>1, <2>2, ReportServes
  <2>3. CASE e # pos
    <3>1. rows'[e] = rows[e]
      BY <2>3, ReportServes
    <3>2. e >= pos <=> e >= pos + 1
      BY <2>1, <2>3
    <3> QED BY <3>1, <3>2 DEF Placed
  <2> QED BY <2>2, <2>3
<1>2. pos' = pos + 1
  BY ReportServes
<1> QED BY <1>1, <1>2 DEF Placed, InSoak, InWindow

\* An entry that costs nothing gets its row.
LEMMA FreeStep ==
  ASSUME PassInv, pc = "entries", pos \in Entry, Kind[pos] # "soak",
         NEW status \in SampleStatus, NEW seen \in BOOLEAN,
         status \in {"pass", "fail"} => seen,
         ScoreFreely(status, seen), Cap(pos) = 0
  PROVE  PassInv'
<1> USE DEF PassInv, ScoreFreely
<1>1. TypeOK'
  BY ReportServes DEF TypeOK, soakVars
<1>2. Placed'
  BY ReportPlaces
<1>3. Funded'
  <2>1. Unserved \in SUBSET Entry /\ pos \in Unserved
    BY DEF Placed, Unserved, TypeOK
  <2>2. Cardinality(Seconds(Unserved)) = Cardinality(Seconds(Unserved \ {pos}))
    BY <2>1, SecondsSplit, SecondsFinite
  <2> QED BY <2>2, ReportServes DEF Funded
<1>4. Soaking'
  BY <1>1 DEF Soaking, InWindow, soakVars
<1>5. UnobservedStaysUnresolved'
  BY ReportServes DEF UnobservedStaysUnresolved
<1> QED BY <1>1, <1>2, <1>3, <1>4, <1>5

\* Enough when it is tested, perhaps no longer when it is used.
JustEnough(g) == g \in MIN_LEAF_BUDGET_SECONDS .. MIN_LEAF_BUDGET_SECONDS + MaxLag - 1

\* A converging entry gets its grant, its row and its charge.
LEMMA ConvergeStep ==
  ASSUME PassInv, At("entries", "converge"),
         NEW status \in SampleStatus, NEW seen \in BOOLEAN, NEW spent \in Nat,
         Report(status, seen),
         grants' = [grants EXCEPT ![pos] = Grant(pos)],
         budget_left' = budget_left - Charge(Grant(pos), spent),
         UNCHANGED <<override, pc, soakVars>>,
         status \in {"pass", "fail"} =>
           seen \/ /\ status = "fail"
                   /\ JustEnough(Grant(pos))
  PROVE  PassInv'
<1> USE DEF PassInv
<1>1. pos \in Entry /\ pc = "entries" /\ Kind[pos] = "converge"
  BY DEF At
<1>2. /\ Grant(pos) \in Nat /\ Grant(pos) <= budget_left /\ Grant(pos) <= Cap(pos)
      /\ Charge(Grant(pos), spent) \in Nat
      /\ Charge(Grant(pos), spent) <= Grant(pos)
  BY <1>1, GrantType, LesserType DEF Charge
<1>3. /\ grants' \in [Entry -> Nat \cup {NotYet}]
      /\ grants'[pos] = Grant(pos)
      /\ \A e \in Entry \ {pos} : grants'[e] = grants[e]
  BY <1>1, <1>2 DEF TypeOK
<1>4. budget_left' \in Nat
  BY <1>2 DEF TypeOK
<1>5. TypeOK'
  BY <1>1, <1>3, <1>4, ReportServes DEF TypeOK, soakVars
<1>6. Placed'
  BY <1>1, ReportPlaces
<1>7. ASSUME override = NoBudget
      PROVE  Grant(pos) = Cap(pos) /\ budget_left' >= Cardinality(Seconds(Unserved'))
  <2>1. Unserved \in SUBSET Entry /\ pos \in Unserved
    BY <1>1 DEF Placed, Unserved, TypeOK
  <2>2. /\ Cardinality(Seconds(Unserved))
             = Cardinality(Seconds(Unserved \ {pos})) + Cap(pos)
        /\ Cardinality(Seconds(Unserved \ {pos})) \in Nat
        /\ Cap(pos) \in Nat
    BY <2>1, <1>1, SecondsSplit, SecondsFinite, CapType
  <2>3. budget_left \in Nat /\ budget_left >= Cardinality(Seconds(Unserved))
    BY <1>7 DEF Funded, TypeOK
  <2>4. budget_left >= Cap(pos)
    BY <2>2, <2>3
  <2>5. Unserved' = Unserved \ {pos}
    BY <1>1, ReportServes
  <2>6. Grant(pos) = Cap(pos)
    BY <2>2, <2>3, <2>4 DEF Grant, Lesser
  <2> QED BY <1>2, <2>2, <2>3, <2>5, <2>6
<1>8. Funded'
  BY <1>3, <1>7 DEF Funded
<1>9. Soaking'
  BY <1>1, <1>5 DEF Soaking, InWindow, soakVars
<1>10. UnobservedStaysUnresolved'
  <2>1. override = NoBudget => ~JustEnough(Grant(pos))
    BY <1>1, <1>2, <1>7, Constants DEF Cap, JustEnough
  <2>2. ASSUME NEW e \in Entry, rows'[e] \in {"pass", "fail"}, e \notin observed'
        PROVE  /\ override # NoBudget
               /\ rows'[e] = "fail"
               /\ JustEnough(grants'[e])
    <3>1. CASE e = pos
      BY <1>1, <1>3, <2>1, <2>2, <3>1, ReportServes
    <3>2. CASE e # pos
      BY <1>1, <1>3, <2>2, <3>2, ReportServes
         DEF UnobservedStaysUnresolved, JustEnough
    <3> QED BY <3>1, <3>2
  <2> QED BY <2>2 DEF UnobservedStaysUnresolved, JustEnough
<1> QED BY <1>5, <1>6, <1>8, <1>9, <1>10

\* The second loop: an entry that is not a soak, or one that gets nothing.
LEMMA SoakReportPlaces ==
  ASSUME TypeOK, Placed, pc \in {"soaks", "over"}, pos \in Entry, pc' = "soaks",
         NEW status \in SampleStatus, NEW seen \in BOOLEAN, Report(status, seen)
  PROVE  Placed'
<1>1. ASSUME NEW e \in Entry
      PROVE  rows'[e] = NoRow <=> e >= pos + 1 /\ Kind[e] = "soak"
  <2>1. pos \in Int /\ e \in Int
    BY DEF Entry
  <2>2. CASE e = pos
    BY <2>1, <2>2, ReportServes
  <2>3. CASE e # pos
    <3>1. rows'[e] = rows[e]
      BY <2>3, ReportServes
    <3>2. e >= pos <=> e >= pos + 1
      BY <2>1, <2>3
    <3> QED BY <3>1, <3>2 DEF Placed, InSoak, InWindow
  <2> QED BY <2>2, <2>3
<1>2. pos' = pos + 1
  BY ReportServes
<1> QED BY <1>1, <1>2 DEF Placed, InSoak, InWindow

\* A loop that passes an entry by, or that ends.
LEMMA LoopStep ==
  ASSUME PassInv, DeferSoak \/ EndEntries \/ SkipEvaluated \/ EndSoaks
  PROVE  PassInv'
<1> USE DEF PassInv, DeferSoak, EndEntries, SkipEvaluated, EndSoaks, At
<1>1. TypeOK'
  <2>1. /\ pos' \in 1..NumEntries + 1
        /\ pc' \in {"entries", "soaks", "open", "test", "asleep", "over", "done"}
    BY Constants DEF TypeOK, Entry
  <2>2. UNCHANGED <<override, budget_left, rows, soakVars, grants, observed>>
    OBVIOUS
  <2> HIDE DEF PassInv, DeferSoak, EndEntries, SkipEvaluated, EndSoaks, At
  <2> QED BY <2>1, <2>2 DEF PassInv, TypeOK, soakVars
<1>2. Placed'
  <2>1. pos \in Int /\ \A e \in Entry : e \in 1..NumEntries
    BY DEF TypeOK, Entry
  <2>2. CASE DeferSoak
    <3>1. \A e \in Entry : e >= pos \/ Kind[e] = "soak" <=> e >= pos + 1 \/ Kind[e] = "soak"
      BY <2>1, <2>2
    <3> QED BY <2>2, <3>1 DEF Placed, InSoak, InWindow
  <2>3. CASE SkipEvaluated
    <3>1. \A e \in Entry : e >= pos /\ Kind[e] = "soak" <=> e >= pos + 1 /\ Kind[e] = "soak"
      BY <2>1, <2>3
    <3> QED BY <2>3, <3>1 DEF Placed, InSoak, InWindow
  <2>4. CASE EndEntries
    <3>1. \A e \in Entry : ~(e >= pos) /\ e >= 1
      BY <2>1, <2>4, Constants
    <3> QED BY <2>4, <3>1 DEF Placed, InSoak, InWindow
  <2>5. CASE EndSoaks
    <3>1. \A e \in Entry : ~(e >= pos)
      BY <2>1, <2>5, Constants
    <3>2. \A e \in Entry : rows[e] # NoRow
      BY <2>5, <3>1 DEF Placed
    <3>3. Unserved' = {}
      BY <2>5, <3>2 DEF Unserved
    <3> QED BY <2>5, <3>3 DEF Placed, InSoak, InWindow
  <2> QED BY <2>2, <2>3, <2>4, <2>5
<1>3. Funded'
  <2>1. Unserved' = Unserved
    BY DEF Unserved
  <2> QED BY <2>1 DEF Funded
<1>4. Soaking'
  BY <1>1 DEF Soaking, InWindow, soakVars
<1>5. UnobservedStaysUnresolved'
  BY DEF UnobservedStaysUnresolved
<1> QED BY <1>1, <1>2, <1>3, <1>4, <1>5

\* A soak that gets nothing takes its cap out of the sum all the same.
LEMMA SoakExhaustedStep == ASSUME PassInv, SoakExhausted PROVE PassInv'
<1> USE DEF PassInv
<1>1. /\ pos \in Entry /\ pc = "soaks" /\ Kind[pos] = "soak" /\ pc' = pc
      /\ Report("error", FALSE)
      /\ UNCHANGED <<override, budget_left, soakVars, grants>>
  BY DEF SoakExhausted, At, Exhausted, AfterExhaustedSoak
<1>2. TypeOK'
  BY <1>1, ReportServes DEF TypeOK, soakVars
<1>3. Placed'
  BY <1>1, SoakReportPlaces
<1>4. Funded'
  <2>1. Unserved \in SUBSET Entry /\ pos \in Unserved
    BY <1>1 DEF Placed, Unserved, TypeOK
  <2>2. /\ Cardinality(Seconds(Unserved \ {pos})) <= Cardinality(Seconds(Unserved))
        /\ Cardinality(Seconds(Unserved \ {pos})) \in Nat
        /\ Cardinality(Seconds(Unserved)) \in Nat
    BY <2>1, SecondsSplit, SecondsFinite, CapType
  <2>3. Unserved' = Unserved \ {pos}
    BY <1>1, ReportServes
  <2> QED BY <1>1, <2>2, <2>3 DEF Funded, TypeOK
<1>5. Soaking'
  BY <1>1, <1>2 DEF Soaking, InWindow, soakVars
<1>6. UnobservedStaysUnresolved'
  BY <1>1, ReportServes DEF UnobservedStaysUnresolved
<1> QED BY <1>2, <1>3, <1>4, <1>5, <1>6

\* A soak is granted its share: its whole window, if the budget is the task's own.
LEMMA GrantSoakStep == ASSUME PassInv, GrantSoak PROVE PassInv'
<1> USE DEF PassInv, GrantSoak, At
<1>1. /\ Grant(pos) \in Nat /\ Grant(pos) <= budget_left /\ Grant(pos) <= Cap(pos)
  BY GrantType
<1>2. /\ grants' \in [Entry -> Nat \cup {NotYet}]
      /\ grants'[pos] = Grant(pos)
      /\ \A e \in Entry \ {pos} : grants'[e] = grants[e]
  BY <1>1 DEF TypeOK
<1>3. TypeOK'
  BY <1>1, <1>2 DEF TypeOK
<1>4. Unserved' = Unserved /\ Unserved \in SUBSET Entry /\ pos \in Unserved
  BY DEF Unserved, Placed, TypeOK, Entry
<1>5. Cap(pos)' = Cap(pos)
  BY DEF Cap
<1>6. Placed'
  BY <1>1, <1>4, <1>5 DEF Placed, InSoak, InWindow
<1>7. Funded'
  <2>1. ASSUME override = NoBudget
        PROVE  Grant(pos) = Cap(pos)
    <3>1. /\ Cardinality(Seconds(Unserved))
               = Cardinality(Seconds(Unserved \ {pos})) + Cap(pos)
          /\ Cardinality(Seconds(Unserved \ {pos})) \in Nat
          /\ Cap(pos) \in Nat
      BY <1>4, SecondsSplit, SecondsFinite, CapType
    <3>2. budget_left \in Nat /\ budget_left >= Cardinality(Seconds(Unserved))
      BY <2>1 DEF Funded, TypeOK
    <3>3. budget_left >= Cap(pos)
      BY <3>1, <3>2
    <3> QED BY <3>1, <3>2, <3>3 DEF Grant, Lesser
  <2> QED BY <1>2, <1>4, <2>1 DEF Funded
<1>8. Soaking'
  BY DEF Soaking, InWindow
<1>9. UnobservedStaysUnresolved'
  <2>1. rows[pos] = NoRow
    BY <1>4 DEF Unserved
  <2> QED BY <1>2, <2>1 DEF UnobservedStaysUnresolved
<1> QED BY <1>3, <1>6, <1>7, <1>8, <1>9

-----------------------------------------------------------------------------
(* Inside a soak. *)

\* What no step of an open window touches.
LEMMA WindowKeeps ==
  ASSUME PassInv, pc \in InSoak, pc' \in InSoak,
         UNCHANGED <<override, budget_left, pos, rows, granted, grants, observed>>
  PROVE  Placed' /\ Funded' /\ UnobservedStaysUnresolved'
<1>1. Unserved' = Unserved
  BY DEF Unserved
<1>2. Placed'
  BY <1>1 DEF PassInv, Placed, InSoak, InWindow, Cap
<1>3. Funded'
  BY <1>1 DEF PassInv, Funded
<1>4. UnobservedStaysUnresolved'
  BY DEF PassInv, UnobservedStaysUnresolved
<1> QED BY <1>2, <1>3, <1>4

\* A window's deadline is within the soak's share.
LEMMA DeadlineType ==
  ASSUME TypeOK, pos \in Entry
  PROVE  WindowDeadline \in Nat /\ WindowDeadline <= granted
<1>1. /\ start \in Nat /\ Window[pos] \in Nat /\ granted \in Nat
      /\ start + Window[pos] \in Nat
  BY Constants DEF TypeOK
<1> QED BY <1>1, LesserType DEF WindowDeadline

\* The last of the samples there are.
LEMMA LastSample ==
  ASSUME TypeOK, history # << >>
  PROVE  /\ Len(history) \in 1..Len(history)
         /\ history[Len(history)] \in Sample
         /\ history[Len(history)].at \in Nat
         /\ LastAt = start + history[Len(history)].at
         /\ LastAt \in Nat /\ start \in Nat
<1>1. /\ history \in Seq(Sample) /\ start \in Nat
  BY DEF TypeOK
<1>2. Len(history) \in 1..Len(history) /\ history[Len(history)] \in Sample
  BY <1>1
<1>3. history[Len(history)].at \in Nat
  BY <1>2 DEF Sample
<1> QED BY <1>1, <1>2, <1>3 DEF LastAt

\* A window opens with the clock at most a lag on.
LEMMA OpenWindowStep ==
  ASSUME PassInv, NEW lag \in 0..MaxLag, OpenWindow(lag) PROVE PassInv'
<1> USE DEF PassInv, OpenWindow
<1>1. lag \in Nat /\ lag <= MaxLag
  BY Constants
<1>2. Placed' /\ Funded' /\ UnobservedStaysUnresolved'
  BY WindowKeeps DEF InSoak, InWindow
<1>3. TypeOK'
  BY <1>1 DEF TypeOK
<1>4. clock' = lag /\ start' = lag /\ obs = NewObservation /\ history = << >>
  BY <1>1 DEF Soaking, InWindow
<1>5. Soaking'
  BY <1>1, <1>4, NewMatches, Constants DEF Soaking, InWindow, TypeOK
<1> QED BY <1>2, <1>3, <1>5

\* A window that ran out is over.
LEMMA WindowRunsOutStep == ASSUME PassInv, WindowRunsOut PROVE PassInv'
<1> USE DEF PassInv, WindowRunsOut
<1>1. Placed' /\ Funded' /\ UnobservedStaysUnresolved'
  BY WindowKeeps DEF InSoak, InWindow, soakVars
<1>2. TypeOK'
  BY DEF TypeOK, soakVars
<1>3. WindowDeadline' = WindowDeadline
  BY DEF WindowDeadline, soakVars
<1>4. Soaking'
  BY <1>3 DEF Soaking, InWindow, soakVars
<1> QED BY <1>1, <1>2, <1>4

\* A pause ends, a lag late at most.
LEMMA SleepOverStep ==
  ASSUME PassInv, NEW lag \in 0..MaxLag, SleepOver(lag) PROVE PassInv'
<1> USE DEF PassInv, SleepOver
<1>1. lag \in Nat /\ lag <= MaxLag /\ wake_at \in Nat /\ start \in Nat /\ clock \in Nat
  BY Constants DEF TypeOK
<1>2. Placed' /\ Funded' /\ UnobservedStaysUnresolved'
  BY WindowKeeps DEF InSoak, InWindow
<1>3. TypeOK'
  BY <1>1 DEF TypeOK
<1>4. pos \in Entry
  BY DEF Placed, InSoak, InWindow
<1>5. WindowDeadline \in Nat /\ WindowDeadline <= granted /\ granted \in Nat
  BY <1>4, DeadlineType DEF TypeOK
<1>6. WindowDeadline' = WindowDeadline /\ LastAt' = LastAt
  BY DEF WindowDeadline, LastAt
<1>7. /\ history # << >> /\ Matches(obs, history)
      /\ start <= clock /\ clock <= wake_at /\ wake_at <= WindowDeadline
      /\ wake_at <= LastAt + MaxCall + PollInterval[pos]
      /\ wake_at < WindowDeadline => wake_at >= LastAt + PollInterval[pos]
  BY DEF Soaking, InWindow
<1>8. LastAt \in Nat
  BY <1>7, LastSample
<1>9. /\ start' <= clock' /\ clock' <= granted' + MaxCall + MaxLag
      /\ clock' <= LastAt + MaxCall + PollInterval[pos] + MaxLag
      /\ clock' < WindowDeadline => clock' >= LastAt + PollInterval[pos]
  BY <1>1, <1>4, <1>5, <1>7, <1>8, Constants
<1>10. Soaking'
  <2> HIDE DEF SleepOver
  <2>1. pc' = "test" /\ UNCHANGED <<obs, history, start, pos, granted>>
    BY DEF SleepOver
  <2>2. /\ \A i \in 1..Len(history) : start + history[i].at < WindowDeadline
        /\ \A i \in 2..Len(history) :
             LET gap == history[i].at - history[i-1].at
             IN  PollInterval[pos] <= gap /\ gap <= MaxCall + PollInterval[pos] + MaxLag
    BY DEF Soaking, InWindow, SleepOver
  <2> QED BY <2>1, <2>2, <1>6, <1>7, <1>9 DEF Soaking, InWindow
<1> QED BY <1>2, <1>3, <1>10

\* A pause ends with the window at the latest, and is cut short only by it.
LEMMA Pause ==
  ASSUME NEW w \in Nat, NEW t \in Nat, NEW p \in Nat, NEW wake, t < w,
         wake = t + Lesser(p, w - t)
  PROVE  /\ wake \in Nat /\ t <= wake /\ wake <= w /\ wake <= t + p
         /\ wake < w => wake = t + p
BY DEF Lesser

\* A sequence with one sample more.
LEMMA Appended ==
  ASSUME NEW h \in Seq(Sample), NEW s \in Sample, NEW g, g = Append(h, s)
  PROVE  /\ Len(h) \in Nat /\ Len(g) = Len(h) + 1 /\ g # << >>
         /\ g[Len(h) + 1] = s
         /\ \A i \in 1..Len(h) : g[i] = h[i]
OBVIOUS

\* A sample is folded where the deadline and the pause before it allow it.
LEMMA TakeSampleStep ==
  ASSUME PassInv, NEW status \in SampleStatus, NEW spent \in 0..MaxCall,
         TakeSample(status, spent)
  PROVE  PassInv'
<1> DEFINE elapsed == clock - start
           sample  == [status |-> status, at |-> elapsed]
           n       == Len(history)
<1>1. /\ spent \in Nat /\ spent <= MaxCall /\ pc = "test"
      /\ clock \in Nat /\ start \in Nat /\ granted \in Nat /\ start <= clock
      /\ clock < WindowDeadline /\ pos \in Entry /\ Matches(obs, history)
      /\ obs \in HoldObservations /\ history \in Seq(Sample)
  BY Constants DEF PassInv, TakeSample, TypeOK, Soaking, Placed, InSoak, InWindow
<1>2. /\ WindowDeadline \in Nat /\ WindowDeadline <= granted
      /\ PollInterval[pos] \in Nat /\ PollInterval[pos] > 0
      /\ MaxCall \in Nat /\ MaxLag \in Nat
  BY <1>1, DeadlineType, Constants DEF PassInv
<1>3. elapsed \in Nat /\ start + elapsed = clock /\ sample \in Sample
  BY <1>1 DEF Sample
<1>4. /\ clock' = clock + spent
      /\ obs' = FoldSample(obs, status, elapsed)
      /\ history' = Append(history, sample)
      /\ UNCHANGED <<override, budget_left, pos, rows, granted, start, grants,
                     observed>>
      /\ WindowDeadline' = WindowDeadline
  BY DEF TakeSample, WindowDeadline
<1>5. \/ /\ pc' = "asleep" /\ clock' < WindowDeadline
         /\ wake_at' = clock' + Sleep(clock')
      \/ pc' = "over" /\ clock' >= WindowDeadline /\ wake_at' = wake_at
  BY <1>1, <1>2, <1>4 DEF TakeSample, SoakGoesOn
<1>6. pc' = "asleep" =>
        /\ wake_at' \in Nat /\ clock' <= wake_at' /\ wake_at' <= WindowDeadline
        /\ wake_at' <= clock' + PollInterval[pos]
        /\ wake_at' < WindowDeadline => wake_at' = clock' + PollInterval[pos]
  <2> SUFFICES ASSUME pc' = "asleep"
               PROVE  /\ wake_at' \in Nat /\ clock' <= wake_at'
                      /\ wake_at' <= WindowDeadline
                      /\ wake_at' <= clock' + PollInterval[pos]
                      /\ wake_at' < WindowDeadline =>
                           wake_at' = clock' + PollInterval[pos]
    OBVIOUS
  <2>1. /\ clock' \in Nat /\ clock' < WindowDeadline
        /\ wake_at' = clock' + Lesser(PollInterval[pos], WindowDeadline - clock')
    BY <1>1, <1>4, <1>5 DEF Sleep
  <2> QED BY <1>2, <2>1, Pause
<1>7. TypeOK'
  <2>1. obs' \in HoldObservations
    BY <1>1, <1>3, <1>4, FoldType
  <2>2. history' \in Seq(Sample)
    BY <1>1, <1>3, <1>4
  <2>3. clock' \in Nat /\ wake_at' \in Nat
    BY <1>1, <1>4, <1>5, <1>6 DEF PassInv, TypeOK
  <2> QED BY <1>4, <1>5, <2>1, <2>2, <2>3 DEF PassInv, TypeOK
<1>8. Placed' /\ Funded' /\ UnobservedStaysUnresolved'
  BY <1>1, <1>4, <1>5, WindowKeeps DEF InSoak, InWindow
<1>9. /\ n \in Nat /\ Len(history') = n + 1 /\ history' # << >>
      /\ history'[n + 1].at = elapsed
      /\ \A i \in 1..n : history'[i] = history[i]
      /\ LastAt' = clock
  <2>1. /\ n \in Nat /\ Len(history') = n + 1 /\ history' # << >>
        /\ history'[n + 1] = sample
        /\ \A i \in 1..n : history'[i] = history[i]
    <3> HIDE DEF sample
    <3> QED BY <1>1, <1>3, <1>4, Appended
  <2>2. sample.at = elapsed
    OBVIOUS
  <2>3. LastAt' = start' + history'[Len(history')].at
    BY DEF LastAt
  <2> QED BY <1>3, <1>4, <2>1, <2>2, <2>3
<1>10. Matches(obs', history')
  BY <1>1, <1>3, <1>4, FoldMatches
<1>11. /\ \A i \in 1..n : start + history[i].at < WindowDeadline
       /\ \A i \in 2..n :
            LET gap == history[i].at - history[i-1].at
            IN  PollInterval[pos] <= gap /\ gap <= MaxCall + PollInterval[pos] + MaxLag
       /\ history # << >> => /\ clock <= LastAt + MaxCall + PollInterval[pos] + MaxLag
                             /\ clock >= LastAt + PollInterval[pos]
  BY <1>1 DEF PassInv, Soaking, InWindow
<1>12. ASSUME NEW i \in 1..n + 1
       PROVE  start + history'[i].at < WindowDeadline
  <2>1. i \in 1..n \/ i = n + 1
    BY <1>9
  <2> QED BY <1>1, <1>3, <1>9, <1>11, <2>1
<1>13. ASSUME NEW i \in 2..n + 1
       PROVE  LET gap == history'[i].at - history'[i-1].at
              IN  PollInterval[pos] <= gap /\ gap <= MaxCall + PollInterval[pos] + MaxLag
  <2>1. CASE i = n + 1
    <3>1. n \in 1..n /\ history # << >> /\ i - 1 = n
      BY <1>1, <1>9, <2>1
    <3>2. history'[i - 1] = history[n] /\ history'[i].at = elapsed
      BY <1>9, <2>1, <3>1
    <3>3. history[n].at \in Nat /\ LastAt = start + history[n].at
      BY <3>1, LastSample DEF PassInv
    <3>4. /\ start + elapsed <= start + history[n].at + MaxCall
                                + PollInterval[pos] + MaxLag
          /\ start + elapsed >= start + history[n].at + PollInterval[pos]
      BY <1>3, <1>11, <3>1, <3>3
    <3> DEFINE a == history[n].at
               p == PollInterval[pos]
    <3>5. /\ start + elapsed <= start + a + MaxCall + p + MaxLag
          /\ start + elapsed >= start + a + p
          /\ elapsed \in Nat /\ a \in Nat /\ start \in Nat /\ p \in Nat
          /\ MaxCall \in Nat /\ MaxLag \in Nat
      BY <1>1, <1>2, <1>3, <3>3, <3>4
    <3> HIDE DEF elapsed, a, p
    <3>6. p <= elapsed - a /\ elapsed - a <= MaxCall + p + MaxLag
      BY <3>5
    <3> QED BY <3>2, <3>6 DEF a, p
  <2>2. CASE i # n + 1
    <3>1. i \in 2..n /\ i \in 1..n /\ i - 1 \in 1..n
      BY <1>9, <2>2
    <3>2. history'[i] = history[i] /\ history'[i - 1] = history[i - 1]
      BY <1>9, <3>1
    <3> QED BY <1>11, <3>1, <3>2
  <2> QED BY <2>1, <2>2
<1>14. Soaking'
  <2>1. start' <= clock' /\ clock' <= granted' + MaxCall + MaxLag
    BY <1>1, <1>2, <1>4
  <2>2. pc' = "asleep" =>
          /\ wake_at' <= LastAt' + MaxCall + PollInterval[pos]
          /\ wake_at' < WindowDeadline => wake_at' >= LastAt' + PollInterval[pos]
    BY <1>1, <1>2, <1>4, <1>6, <1>9
  <2>3. UNCHANGED <<pos, start, granted>>
    BY <1>4
  <2> QED BY <1>4, <1>5, <1>6, <1>9, <1>10, <1>12, <1>13, <2>1, <2>2, <2>3
          DEF Soaking, InWindow
<1> QED BY <1>7, <1>8, <1>14 DEF PassInv

\* A soak is scored and charged, never more than its share.
LEMMA CloseSoakStep == ASSUME PassInv, CloseSoak PROVE PassInv'
<1>1. /\ pc = "over" /\ pos \in Entry /\ Kind[pos] = "soak" /\ pc' = "soaks"
      /\ granted \in Nat /\ granted <= budget_left /\ granted <= Cap(pos)
      /\ clock \in Nat /\ budget_left \in Nat
  BY DEF PassInv, CloseSoak, Placed, InSoak, InWindow, TypeOK
<1> DEFINE status == HoldVerdict(obs)
           seen   == obs.sample_count # obs.error_count
           charge == Charge(granted, clock)
<1>2. Report(status, seen) /\ status \in SampleStatus /\ seen \in BOOLEAN
  BY VerdictType DEF CloseSoak
<1>3. /\ budget_left' = budget_left - charge
      /\ clock' = 0 /\ granted' = 0 /\ start' = 0 /\ wake_at' = 0
      /\ obs' = NewObservation /\ history' = << >>
      /\ UNCHANGED <<override, grants>>
  BY DEF CloseSoak
<1>4. charge \in Nat /\ charge <= granted
  BY <1>1, LesserType DEF Charge
<1>5. status \in {"pass", "fail"} => seen
  BY VerdictRests
<1> HIDE DEF status, seen, charge
<1>6. TypeOK'
  <2>1. budget_left' \in Nat
    BY <1>1, <1>3, <1>4
  <2>2. << >> \in Seq(Sample)
    OBVIOUS
  <2> QED BY <1>1, <1>2, <1>3, <2>1, <2>2, ReportServes, NewMatches DEF PassInv, TypeOK
<1>7. Placed'
  BY <1>1, <1>2, SoakReportPlaces DEF PassInv
<1>8. Funded'
  <2>1. Unserved \in SUBSET Entry /\ pos \in Unserved
    BY <1>1 DEF PassInv, Placed, Unserved, InSoak, InWindow, TypeOK, Entry
  <2>2. /\ Cardinality(Seconds(Unserved))
             = Cardinality(Seconds(Unserved \ {pos})) + Cap(pos)
        /\ Cardinality(Seconds(Unserved \ {pos})) \in Nat
        /\ Cap(pos) \in Nat
    BY <2>1, SecondsSplit, SecondsFinite, CapType
  <2>3. Unserved' = Unserved \ {pos}
    BY <1>1, <1>2, ReportServes DEF PassInv
  <2>4. override = NoBudget => budget_left' >= Cardinality(Seconds(Unserved'))
    BY <1>1, <1>3, <1>4, <2>2, <2>3 DEF PassInv, Funded
  <2> QED BY <1>3, <2>4 DEF PassInv, Funded
<1>9. Soaking'
  BY <1>1, <1>3 DEF Soaking, InWindow
<1>10. UnobservedStaysUnresolved'
  BY <1>1, <1>2, <1>3, <1>5, ReportServes DEF PassInv, UnobservedStaysUnresolved
<1> QED BY <1>6, <1>7, <1>8, <1>9, <1>10 DEF PassInv

-----------------------------------------------------------------------------
\* The inductive invariant holds in every behaviour.
THEOREM PassInvariance == Spec => []PassInv
<1>1. Init => PassInv
  <2> SUFFICES ASSUME Init PROVE PassInv
    OBVIOUS
  <2>1. Unserved = Entry
    BY DEF Init, Unserved
  <2>2. Cardinality(Seconds(Entry)) \in Nat
    BY SecondsFinite
  <2>3. TypeOK
    <3>1. /\ override \in Nat \cup {NoBudget} /\ budget_left \in Nat
          /\ pos \in 1..NumEntries + 1
      BY <2>2, Constants DEF Init, verification_budget_sec
    <3>2. /\ rows \in [Entry -> SampleStatus \cup {NoRow}]
          /\ grants \in [Entry -> Nat \cup {NotYet}]
          /\ obs \in HoldObservations /\ history \in Seq(Sample)
          /\ observed \in SUBSET Entry
      BY NewMatches DEF Init
    <3> QED BY <3>1, <3>2 DEF Init, TypeOK
  <2>4. Placed
    BY Constants DEF Init, Placed, InSoak, InWindow, Entry
  <2>5. Funded
    BY <2>1, <2>2 DEF Init, Funded, verification_budget_sec
  <2>6. Soaking
    BY DEF Init, Soaking, InWindow
  <2>7. UnobservedStaysUnresolved
    BY DEF Init, UnobservedStaysUnresolved
  <2> QED BY <2>3, <2>4, <2>5, <2>6, <2>7 DEF PassInv
<1>2. PassInv /\ [Next]_vars => PassInv'
  <2> SUFFICES ASSUME PassInv, [Next]_vars PROVE PassInv'
    OBVIOUS
  <2>1. ASSUME NEW o \in MonitorObservations, SafeguardHold(o) PROVE PassInv'
    <3> DEFINE status == HoldVerdict(o)
               seen   == o.sample_count # o.error_count
    <3>1. /\ pc = "entries" /\ pos \in Entry /\ Kind[pos] # "soak" /\ Cap(pos) = 0
          /\ ScoreFreely(status, seen)
      BY <2>1 DEF SafeguardHold, At, Cap
    <3>2. /\ status \in SampleStatus /\ seen \in BOOLEAN
          /\ status \in {"pass", "fail"} => seen
      BY VerdictType, VerdictRests
    <3> HIDE DEF status, seen
    <3> QED BY <3>1, <3>2, FreeStep
  <2>2. ASSUME NEW status \in SampleStatus, AssertEntry(status) PROVE PassInv'
    <3> DEFINE seen == status # "error"
    <3>1. /\ pc = "entries" /\ pos \in Entry /\ Kind[pos] # "soak" /\ Cap(pos) = 0
          /\ ScoreFreely(status, seen)
      BY <2>2 DEF AssertEntry, At, Cap
    <3>2. seen \in BOOLEAN /\ (status \in {"pass", "fail"} => seen)
      OBVIOUS
    <3> HIDE DEF seen
    <3> QED BY <3>1, <3>2, FreeStep
  <2>3. CASE ConvergeExhausted
    <3>1. pos \in Entry /\ Grant(pos) \in Nat /\ budget_left \in Nat
      BY <2>3, GrantType DEF ConvergeExhausted, At, PassInv, TypeOK
    <3>2. Charge(Grant(pos), 0) = 0
      BY <3>1 DEF Charge, Lesser
    <3>3. budget_left' = budget_left - Charge(Grant(pos), 0)
      BY <2>3, <3>1, <3>2 DEF ConvergeExhausted
    <3> QED BY <2>3, <3>3, ConvergeStep DEF ConvergeExhausted, Exhausted
  <2>4. ASSUME NEW status \in SampleStatus,
               NEW spent \in 0..VERIFICATION_TIMEOUT_SEC + MaxOverrun,
               ConvergeEvaluated(status, spent)
        PROVE  PassInv'
    <3> DEFINE seen == status # "error"
    <3>1. Report(status, seen)
      BY <2>4 DEF ConvergeEvaluated
    <3>2. /\ seen \in BOOLEAN /\ (status \in {"pass", "fail"} => seen)
          /\ spent \in Nat
      BY Constants
    <3> HIDE DEF seen
    <3> QED BY <2>4, <3>1, <3>2, ConvergeStep DEF ConvergeEvaluated, ConvergeSpends
  <2>5. ASSUME NEW lag \in 0..MaxLag, ConvergeExpires(lag) PROVE PassInv'
    <3>1. lag \in Nat /\ lag <= MaxLag
      BY Constants
    <3>2. pos \in Entry /\ Grant(pos) \in Nat
      BY <2>5, GrantType DEF ConvergeExpires, ConvergeSpends, At, PassInv
    <3>3. JustEnough(Grant(pos))
      BY <2>5, <3>1, <3>2, Constants
         DEF ConvergeExpires, ConvergeSpends, JustEnough
    <3> QED BY <2>5, <3>1, <3>3, ConvergeStep DEF ConvergeExpires, ConvergeSpends
  <2>6. CASE DeferSoak \/ EndEntries \/ SkipEvaluated \/ EndSoaks
    BY <2>6, LoopStep
  <2>7. CASE SoakExhausted
    BY <2>7, SoakExhaustedStep
  <2>8. CASE GrantSoak
    BY <2>8, GrantSoakStep
  <2>9. ASSUME NEW lag \in 0..MaxLag, OpenWindow(lag) \/ SleepOver(lag)
        PROVE  PassInv'
    BY <2>9, OpenWindowStep, SleepOverStep
  <2>10. ASSUME NEW status \in SampleStatus, NEW spent \in 0..MaxCall,
                TakeSample(status, spent)
         PROVE  PassInv'
    BY <2>10, TakeSampleStep
  <2>11. CASE WindowRunsOut
    BY <2>11, WindowRunsOutStep
  <2>12. CASE CloseSoak
    BY <2>12, CloseSoakStep
  <2>13. CASE UNCHANGED vars
    <3>1. Unserved' = Unserved /\ WindowDeadline' = WindowDeadline /\ LastAt' = LastAt
      BY <2>13 DEF Unserved, WindowDeadline, LastAt, vars, loopVars, soakVars
    <3>2. TypeOK' /\ Placed' /\ UnobservedStaysUnresolved'
      BY <2>13, <3>1 DEF PassInv, TypeOK, Placed, UnobservedStaysUnresolved, Cap,
                         vars, loopVars, soakVars
    <3>3. Funded' /\ Soaking'
      BY <2>13, <3>1 DEF PassInv, Funded, Soaking, vars, loopVars, soakVars
    <3> QED BY <3>2, <3>3 DEF PassInv
  <2> QED BY <2>1, <2>2, <2>3, <2>4, <2>5, <2>6, <2>7, <2>8, <2>9, <2>10, <2>11,
             <2>12, <2>13 DEF Next, Entries, Soaks, HoldWindow, Done
<1> QED BY <1>1, <1>2, PTL DEF Spec

-----------------------------------------------------------------------------
(* What a reader should know of. *)

\* Every variable stays in its type; the budget, above all, is never overdrawn.
THEOREM PassTypeCorrect == Spec => []TypeOK
BY PassInvariance, PTL DEF PassInv

\* No entry starves under the budget of its own task.
THEOREM NobodyStarves == Spec => []NoEntryStarves
<1>1. PassInv => NoEntryStarves
  BY DEF PassInv, Funded, NoEntryStarves
<1> QED BY <1>1, PassInvariance, PTL

\* What nobody looked at is not held against the agent.
THEOREM UnobservedIsUnresolved == Spec => []UnobservedStaysUnresolved
BY PassInvariance, PTL DEF PassInv

\* The report has a row for every entry.
THEOREM ReportIsComplete == Spec => []EveryEntryIsReported
<1>1. PassInv => EveryEntryIsReported
  BY DEF PassInv, Placed, Unserved, EveryEntryIsReported
<1> QED BY <1>1, PassInvariance, PTL

\* A soak watches its whole window, evenly, and is judged by what it saw.
THEOREM SoaksCover == Spec => []SoakCoversWindow
<1>1. PassInv => SoakCoversWindow
  <2> SUFFICES ASSUME PassInv, pc = "over"
               PROVE  /\ clock >= WindowDeadline
                      /\ HoldVerdict(obs) = VerdictOf(history)
                      /\ \A i \in DOMAIN history : start + history[i].at < WindowDeadline
                      /\ \A i \in 2..Len(history) :
                           LET gap == history[i].at - history[i-1].at
                           IN  /\ PollInterval[pos] <= gap
                               /\ gap <= MaxCall + PollInterval[pos] + MaxLag
    BY DEF SoakCoversWindow
  <2>1. DOMAIN history = 1..Len(history)
    BY DEF PassInv, TypeOK
  <2>2. HoldVerdict(obs) = VerdictOf(history)
    BY MatchingVerdict DEF PassInv, TypeOK, Soaking, InWindow
  <2> QED BY <2>1, <2>2 DEF PassInv, Soaking, InWindow
<1> QED BY <1>1, PassInvariance, PTL

\* A soak overruns its share by one call or one sleep at most.
THEOREM SoaksStay == Spec => []SoakStaysInGrant
<1>1. PassInv => SoakStaysInGrant
  BY DEF PassInv, Soaking, InWindow, SoakStaysInGrant
<1> QED BY <1>1, PassInvariance, PTL
=============================================================================

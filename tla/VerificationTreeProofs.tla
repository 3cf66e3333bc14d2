------------------------ MODULE VerificationTreeProofs ------------------------
(***************************************************************************)
(* Proofs about VerificationTree, for any tree of checks, any deadline and *)
(* any number of changes and errors: a verdict of pass or fail follows     *)
(* from what was observed of the leaves, an evaluation ends in time, and   *)
(* where nothing changes and there is time enough the verdict is the truth *)
(***************************************************************************)
EXTENDS VerificationTree, FiniteSetTheorems, WellFoundedInduction, TLAPS

Kid(n, i) == entry.kids[n][i]
Places(n) == DOMAIN entry.kids[n]
Phase(n)  == node[n].phase
Status(n) == node[n].status
Active(n) == Phase(n) \in {"run", "call", "sleep", "wait"}
Waiting(n) == Phase(n) = "wait"

-----------------------------------------------------------------------------
(* The parts of the invariant. *)

NodeSet == [phase : {"idle", "run", "call", "sleep", "wait", "done"},
            how : Modes, at : Nat, due : Nat, delay : InitialDelay .. MaxDelay,
            seen : Statuses \cup {"unseen", "exhausted"}, status : Statuses]

NodeMap == node = [n \in Nodes |-> node[n]]

StateOK ==
  /\ entry \in Entries
  /\ now \in Nat
  /\ holds \in [Leaves -> BOOLEAN]
  /\ NodeMap
  /\ changes \in 0 .. MaxChanges
  /\ errors \in 0 .. MaxErrors

(* What was written off for want of time has failed; a group that waits    *)
(* for one child at a time has begun one.                                  *)
NodeOK(n) ==
  /\ node[n] \in NodeSet /\ node[n].at <= Width(n)
  /\ node[n].seen = "exhausted" => Phase(n) = "done" /\ Status(n) = "fail"
  /\ entry.kind[n] # "parallel" /\ Waiting(n) => node[n].at # 0

(* The children a group has not turned to, and those it has heard of.      *)
NotBegun(n, i) ==
  \/ Phase(n) = "idle"
  \/ entry.kind[n] = "parallel" /\ Phase(n) = "run"
  \/ entry.kind[n] # "parallel" /\ Phase(n) \in {"run", "wait"} /\ i > node[n].at

Heard(n, i) ==
  /\ entry.kind[n] # "parallel"
  /\ \/ Phase(n) = "run" /\ i <= node[n].at
     \/ Waiting(n) /\ i < node[n].at

(* The children whose status counts: a status given to a skipped child is  *)
(* no observation. *)
LookedAt(n, i) ==
  IF entry.kind[n] = "parallel" THEN Phase(n) \in {"wait", "done"}
  ELSE Phase(n) # "idle" /\ i <= node[n].at

KidDid(n, i, status) == Done(Kid(n, i)) /\ Status(Kid(n, i)) = status

(* Why a node that is done may have passed, and why it may have failed.    *)
SomeKid(n, status) == \E i \in Places(n) : LookedAt(n, i) /\ KidDid(n, i, status)
EveryKid(n, status) == \A i \in Places(n) : LookedAt(n, i) /\ KidDid(n, i, status)

Grounded(n) ==
  /\ entry.kind[n] = "leaf" =>
       /\ Status(n) = "pass" => node[n].seen = "pass"
       /\ Status(n) = "fail" => node[n].seen \in {"fail", "exhausted"}
  /\ entry.kind[n] \in {"sequence", "parallel"} =>
       /\ Status(n) = "pass" => EveryKid(n, "pass")
       /\ Status(n) = "fail" => \/ node[n].seen = "exhausted"
                                \/ SomeKid(n, "fail")
                                \/ \E i \in Places(n) : node[Kid(n, i)].seen = "exhausted"
  /\ entry.kind[n] = "any" =>
       /\ Status(n) = "pass" => SomeKid(n, "pass")
       /\ Status(n) = "fail" => node[n].seen = "exhausted" \/ EveryKid(n, "fail")
  /\ entry.kind[n] = "none" =>
       /\ Status(n) = "pass" => EveryKid(n, "fail")
       /\ Status(n) = "fail" => node[n].seen = "exhausted" \/ SomeKid(n, "pass")

(* Between a group and a child of its. *)
LinkOK(n, i) ==
  /\ Active(Kid(n, i)) => Waiting(n) /\ (entry.kind[n] = "parallel" \/ i = node[n].at)
  /\ NotBegun(n, i) => Phase(Kid(n, i)) = "idle"
  /\ Heard(n, i) => /\ Done(Kid(n, i))
                    /\ entry.kind[n] = "sequence" => Status(Kid(n, i)) = "pass"
  /\ LookedAt(n, i) /\ Done(Kid(n, i)) => Grounded(Kid(n, i))

IInv ==
  /\ StateOK
  /\ \A n \in Nodes : NodeOK(n)
  /\ \A n \in Nodes : \A i \in Places(n) : LinkOK(n, i)
  /\ Phase(1) # "idle"
  /\ Done(1) => Grounded(1)

-----------------------------------------------------------------------------
(* The tree. *)
LEMMA Tree ==
  ASSUME entry \in Entries
  PROVE  /\ Nodes = 1 .. Len(entry.kind) /\ Len(entry.kind) \in Nat /\ 1 \in Nodes
         /\ \A n \in Nodes :
              /\ entry.kind[n] \in Kinds /\ Width(n) \in Nat /\ Places(n) = 1 .. Width(n)
              /\ entry.kind[n] = "leaf" <=> Width(n) = 0
              /\ Kids(n) = {Kid(n, i) : i \in Places(n)}
              /\ \A i \in Places(n) : Kid(n, i) \in Nodes /\ Kid(n, i) > n
         /\ \A n, m \in Nodes : \A i \in Places(n), j \in Places(m) :
              Kid(n, i) = Kid(m, j) => n = m /\ i = j
<1>1. /\ entry.kind \in Seq(Kinds) /\ Len(entry.kind) > 0 /\ DOMAIN entry.kids = DOMAIN entry.kind
      /\ \A n \in DOMAIN entry.kind :
           /\ entry.kids[n] \in Seq(n + 1 .. Len(entry.kind))
           /\ entry.kids[n] = <<>> <=> entry.kind[n] = "leaf"
           /\ \A m \in DOMAIN entry.kind :
                \A i \in DOMAIN entry.kids[n], j \in DOMAIN entry.kids[m] :
                  entry.kids[n][i] = entry.kids[m][j] => n = m /\ i = j
  BY TreeAssumption
<1>2. Nodes = 1 .. Len(entry.kind) /\ Len(entry.kind) \in Nat /\ 1 \in Nodes
  BY <1>1 DEF Nodes
<1>3. ASSUME NEW n \in Nodes
      PROVE  /\ entry.kind[n] \in Kinds /\ Width(n) \in Nat /\ Places(n) = 1 .. Width(n)
             /\ entry.kind[n] = "leaf" <=> Width(n) = 0
             /\ \A i \in Places(n) : Kid(n, i) \in Nodes /\ Kid(n, i) > n
  <2>1. entry.kids[n] \in Seq(n + 1 .. Len(entry.kind)) /\ n \in DOMAIN entry.kind
    BY <1>1 DEF Nodes
  <2>2. /\ Len(entry.kids[n]) \in Nat /\ DOMAIN entry.kids[n] = 1 .. Len(entry.kids[n])
        /\ \A i \in DOMAIN entry.kids[n] : entry.kids[n][i] \in n + 1 .. Len(entry.kind)
    BY <2>1
  <2>3. entry.kids[n] = <<>> <=> Len(entry.kids[n]) = 0
    BY <2>1
  <2> QED BY <1>1, <1>2, <2>1, <2>2, <2>3 DEF Width, Places, Kid
<1>4. \A n, m \in Nodes : \A i \in Places(n), j \in Places(m) :
        Kid(n, i) = Kid(m, j) => n = m /\ i = j
  BY <1>1 DEF Nodes, Kid, Places
<1>5. \A n : Kids(n) = {Kid(n, i) : i \in Places(n)}
  BY DEF Kids, Kid, Places
<1> QED BY <1>2, <1>3, <1>4, <1>5

LEMMA LeastNumber ==
  ASSUME NEW S \in SUBSET Nat, S # {}
  PROVE  \E m \in S : \A k \in S : m <= k
<1>1. PICK m \in S : \A k \in S : ~(<<k, m>> \in OpToRel(<, Nat))
  BY NatLessThanWellFounded, WFMin
<1>2. \A k \in S : ~(k < m)
  BY <1>1 DEF OpToRel
<1> QED BY <1>2

LEMMA GreatestNumber ==
  ASSUME NEW N \in Nat, NEW S \in SUBSET (1 .. N), S # {}
  PROVE  \E m \in S : \A k \in S : k <= m
<1> DEFINE T == {N - k : k \in S}
<1>1. PICK m \in T : \A k \in T : m <= k
  <2>1. \A k \in S : N - k \in Nat
    OBVIOUS
  <2>2. T \in SUBSET Nat /\ T # {}
    BY <2>1
  <2> HIDE DEF T
  <2> QED BY <2>2, LeastNumber
<1>2. PICK s \in S : m = N - s
  OBVIOUS
<1>3. \A k \in S : m <= N - k
  BY <1>1
<1>4. \A k \in S : k \in Nat
  OBVIOUS
<1> QED BY <1>2, <1>3, <1>4

(* A definition by recursion on later nodes has a solution: what it says   *)
(* of a node depends on the nodes after it only. *)
LooksForward(G, N, V) ==
  /\ G \in [[1 .. N -> V] -> [1 .. N -> V]]
  /\ \A f, g \in [1 .. N -> V] : \A n \in 1 .. N :
       (\A m \in n + 1 .. N : f[m] = g[m]) => G[f][n] = G[g][n]

LEMMA FixedPoint ==
  ASSUME NEW N \in Nat, NEW V, V # {}, NEW G, LooksForward(G, N, V)
  PROVE  \E f \in [1 .. N -> V] : f = G[f]
<1> USE DEF LooksForward
<1> DEFINE Solves(f, j) == \A n \in j + 1 .. N : f[n] = G[f][n]
           S == {j \in 0 .. N : \E f \in [1 .. N -> V] : Solves(f, j)}
<1>1. N \in S /\ S \in SUBSET Nat
  <2>1. PICK v \in V : TRUE
    OBVIOUS
  <2>2. [n \in 1 .. N |-> v] \in [1 .. N -> V]
    OBVIOUS
  <2>3. \A f : Solves(f, N)
    OBVIOUS
  <2>4. N \in 0 .. N
    OBVIOUS
  <2>5. N \in S
    BY <2>2, <2>3, <2>4
  <2>6. S \in SUBSET Nat
    OBVIOUS
  <2> QED BY <2>5, <2>6
<1>2. PICK j \in S : \A k \in S : j <= k
  <2> HIDE DEF S
  <2> QED BY <1>1, LeastNumber
<1>3. PICK f \in [1 .. N -> V] : Solves(f, j)
  OBVIOUS
<1>4. ASSUME j # 0 PROVE FALSE
  <2> DEFINE g == [f EXCEPT ![j] = G[f][j]]
  <2>1. j \in 1 .. N /\ j - 1 \in 0 .. N
    BY <1>4
  <2>2. g \in [1 .. N -> V] /\ g[j] = G[f][j] /\ \A n \in j + 1 .. N : g[n] = f[n]
    BY <2>1
  <2> HIDE DEF g
  <2>3. \A n \in j .. N : G[g][n] = G[f][n]
    <3>1. TAKE n \in j .. N
    <3>2. n \in 1 .. N /\ \A m \in n + 1 .. N : g[m] = f[m]
      BY <2>1, <2>2
    <3> QED BY <2>2, <3>2
  <2>4. Solves(g, j - 1)
    <3>1. TAKE n \in (j - 1) + 1 .. N
    <3>2. CASE n = j
      BY <2>1, <2>2, <2>3, <3>2
    <3>3. CASE n # j
      BY <1>3, <2>1, <2>2, <2>3, <3>3
    <3> QED BY <3>2, <3>3
  <2>5. j - 1 \in S
    BY <2>1, <2>2, <2>4
  <2>6. j <= j - 1
    BY <1>2, <2>5
  <2> QED BY <2>1, <2>6
<1>5. \A n \in 1 .. N : f[n] = G[f][n]
  BY <1>3, <1>4
<1>6. G[f] \in [1 .. N -> V]
  OBVIOUS
<1> QED BY <1>5, <1>6

(* What is below a node: its children and what is below them, all later.   *)
LEMMA BelowIsDefined ==
  ASSUME entry \in Entries
  PROVE  Below = [n \in Nodes |-> Kids(n) \cup UNION {Below[k] : k \in Kids(n)}]
<1> DEFINE V == SUBSET Nodes
           Next1(f) == [n \in Nodes |-> Kids(n) \cup UNION {f[k] : k \in Kids(n)}]
           G == [f \in [Nodes -> V] |-> Next1(f)]
<1>1. /\ Nodes = 1 .. Len(entry.kind) /\ Len(entry.kind) \in Nat
      /\ \A n \in Nodes : \A k \in Kids(n) : k \in n + 1 .. Len(entry.kind) /\ k \in Nodes
  BY Tree
<1>2. V # {}
  OBVIOUS
<1>3. G \in [[Nodes -> V] -> [Nodes -> V]]
  <2>1. ASSUME NEW f \in [Nodes -> V] PROVE Next1(f) \in [Nodes -> V]
    BY <1>1
  <2> QED BY <2>1
<1>4. ASSUME NEW f \in [Nodes -> V], NEW g \in [Nodes -> V], NEW n \in Nodes,
             \A m \in n + 1 .. Len(entry.kind) : f[m] = g[m]
      PROVE  G[f][n] = G[g][n]
  <2>1. \A k \in Kids(n) : f[k] = g[k]
    BY <1>1, <1>4
  <2>2. {f[k] : k \in Kids(n)} = {g[k] : k \in Kids(n)}
    BY <2>1
  <2> QED BY <2>2
<1> HIDE DEF V, G
<1>5. \E f \in [Nodes -> V] : f = G[f]
  <2> DEFINE N == Len(entry.kind)
  <2>1. N \in Nat /\ Nodes = 1 .. N /\ LooksForward(G, N, V)
    BY <1>1, <1>3, <1>4 DEF LooksForward
  <2> HIDE DEF N
  <2>2. \E f \in [1 .. N -> V] : f = G[f]
    BY <1>2, <2>1, FixedPoint
  <2> QED BY <2>1, <2>2
<1>6. \E f : f = Next1(f)
  BY <1>5 DEF G
<1> QED BY <1>6 DEF Below

(* What holds of a node as soon as it holds of its children holds of all.  *)
LEMMA FromTheLeaves ==
  ASSUME entry \in Entries, NEW S,
         \A n \in Nodes : (\A i \in Places(n) : Kid(n, i) \in S) => n \in S
  PROVE  Nodes \subseteq S
<1> DEFINE Bad == Nodes \ S
<1> SUFFICES ASSUME Bad # {} PROVE FALSE
  OBVIOUS
<1>1. /\ Nodes = 1 .. Len(entry.kind) /\ Len(entry.kind) \in Nat
      /\ \A n \in Nodes : \A i \in Places(n) : Kid(n, i) \in Nodes /\ Kid(n, i) > n
  BY Tree
<1>2. PICK n \in Bad : \A k \in Bad : k <= n
  <2>1. Bad \in SUBSET (1 .. Len(entry.kind))
    BY <1>1
  <2> HIDE DEF Bad
  <2> QED BY <1>1, <2>1, GreatestNumber
<1>3. \A i \in Places(n) : Kid(n, i) \notin Bad
  BY <1>1, <1>2
<1> QED BY <1>1, <1>3

LEMMA BelowFacts ==
  ASSUME entry \in Entries, NEW n \in Nodes
  PROVE  /\ \A x \in Below[n] : x \in Nodes /\ x > n
         /\ \A i \in Places(n) : Kid(n, i) \in Below[n]
         /\ \A x \in Below[n] : \A i \in Places(x) : Kid(x, i) \in Below[n]
         /\ \A m \in Nodes : \A i \in Places(m) :
              Kid(m, i) \in Below[n] => m = n \/ m \in Below[n]
<1>1. /\ Nodes = 1 .. Len(entry.kind)
      /\ \A m \in Nodes : /\ Kids(m) = {Kid(m, i) : i \in Places(m)}
                          /\ \A i \in Places(m) : Kid(m, i) \in Nodes /\ Kid(m, i) > m
      /\ \A k, m \in Nodes : \A i \in Places(k), j \in Places(m) :
           Kid(k, i) = Kid(m, j) => k = m /\ i = j
  BY Tree
<1>2. \A m \in Nodes : Below[m] = Kids(m) \cup UNION {Below[k] : k \in Kids(m)}
  BY BelowIsDefined
<1>3. \A m \in Nodes : \A x :
        x \in Below[m] <=> \E i \in Places(m) : x = Kid(m, i) \/ x \in Below[Kid(m, i)]
  BY <1>1, <1>2
<1> DEFINE Later(m)  == \A x \in Below[m] : x \in Nodes /\ x > m
           Closed(m) == \A x \in Below[m] : \A i \in Places(x) : Kid(x, i) \in Below[m]
           Whole(m)  == \A k \in Nodes : \A i \in Places(k) :
                          Kid(k, i) \in Below[m] => k = m \/ k \in Below[m]
           S == {m \in Nodes : Later(m) /\ Closed(m) /\ Whole(m)}
<1>4. ASSUME NEW m \in Nodes, \A i \in Places(m) : Kid(m, i) \in S
      PROVE  m \in S
  <2>1. \A i \in Places(m) : Later(Kid(m, i)) /\ Closed(Kid(m, i)) /\ Whole(Kid(m, i))
    BY <1>4
  <2>2. Later(m)
    <3>1. TAKE x \in Below[m]
    <3>2. PICK i \in Places(m) : x = Kid(m, i) \/ x \in Below[Kid(m, i)]
      BY <1>3
    <3>3. /\ Kid(m, i) \in Nodes /\ Kid(m, i) > m
          /\ x \in Below[Kid(m, i)] => x \in Nodes /\ x > Kid(m, i)
      BY <1>1, <2>1
    <3> QED BY <1>1, <3>2, <3>3
  <2>3. Closed(m)
    <3>1. TAKE x \in Below[m]
    <3>2. PICK i \in Places(m) : x = Kid(m, i) \/ x \in Below[Kid(m, i)]
      BY <1>3
    <3>3. TAKE j \in Places(x)
    <3>4. Kid(x, j) \in Below[Kid(m, i)]
      BY <1>1, <1>3, <2>1, <3>2
    <3> QED BY <1>3, <3>4
  <2>4. Whole(m)
    <3>1. TAKE k \in Nodes
    <3>2. TAKE i \in Places(k)
    <3>3. HAVE Kid(k, i) \in Below[m]
    <3>4. PICK j \in Places(m) : Kid(k, i) = Kid(m, j) \/ Kid(k, i) \in Below[Kid(m, j)]
      BY <1>3, <3>3
    <3>5. CASE Kid(k, i) = Kid(m, j)
      BY <1>1, <3>5
    <3>6. CASE Kid(k, i) \in Below[Kid(m, j)]
      BY <1>3, <2>1, <3>6
    <3> QED BY <3>4, <3>5, <3>6
  <2> QED BY <2>2, <2>3, <2>4
<1>5. Nodes \subseteq S
  <2> HIDE DEF S
  <2> QED BY <1>4, FromTheLeaves
<1> QED BY <1>3, <1>5

-----------------------------------------------------------------------------
(* What follows from the observations. *)
TruthValues == {"true", "false", "unknown"}

LEMMA ConnectiveType ==
  ASSUME NEW n, NEW values \in SUBSET TruthValues PROVE Connective(n, values) \in TruthValues
  BY DEF Connective, Conjoined, Disjoined, Opposite, TruthValues

(* The recursion over the tree gives every node a value. *)
LEMMA ValuesAreDefined ==
  ASSUME entry \in Entries, NEW given, \A n \in DOMAIN given : given[n] \in TruthValues
  PROVE  \A n \in Nodes : Values(given)[n] =
           IF n \in DOMAIN given THEN given[n]
           ELSE Connective(n, {Values(given)[Kid(n, i)] : i \in Places(n)})
<1> DEFINE V == TruthValues
           Next1(f) == [n \in Nodes |-> IF n \in DOMAIN given THEN given[n]
                                        ELSE Connective(n, {f[k] : k \in Kids(n)})]
           G == [f \in [Nodes -> V] |-> Next1(f)]
<1>1. /\ Nodes = 1 .. Len(entry.kind) /\ Len(entry.kind) \in Nat
      /\ \A n \in Nodes : Kids(n) = {Kid(n, i) : i \in Places(n)}
      /\ \A n \in Nodes : \A k \in Kids(n) : k \in n + 1 .. Len(entry.kind) /\ k \in Nodes
  BY Tree
<1>2. V # {}
  BY DEF TruthValues
<1>3. G \in [[Nodes -> V] -> [Nodes -> V]]
  <2>1. ASSUME NEW f \in [Nodes -> V] PROVE Next1(f) \in [Nodes -> V]
    <3>1. \A n \in Nodes : {f[k] : k \in Kids(n)} \in SUBSET V
      BY <1>1
    <3>2. \A n \in Nodes : Connective(n, {f[k] : k \in Kids(n)}) \in V
      BY <3>1, ConnectiveType
    <3> QED BY <3>2
  <2> QED BY <2>1
<1>4. ASSUME NEW f \in [Nodes -> V], NEW g \in [Nodes -> V], NEW n \in Nodes,
             \A m \in n + 1 .. Len(entry.kind) : f[m] = g[m]
      PROVE  G[f][n] = G[g][n]
  <2>1. \A k \in Kids(n) : f[k] = g[k]
    BY <1>1, <1>4
  <2>2. {f[k] : k \in Kids(n)} = {g[k] : k \in Kids(n)}
    BY <2>1
  <2> QED BY <2>2
<1> HIDE DEF V, G
<1>5. \E f \in [Nodes -> V] : f = G[f]
  <2> DEFINE N == Len(entry.kind)
  <2>1. N \in Nat /\ Nodes = 1 .. N /\ LooksForward(G, N, V)
    BY <1>1, <1>3, <1>4 DEF LooksForward
  <2> HIDE DEF N
  <2>2. \E f \in [1 .. N -> V] : f = G[f]
    BY <1>2, <2>1, FixedPoint
  <2> QED BY <2>1, <2>2
<1>6. \E f : f = Next1(f)
  BY <1>5 DEF G
<1> DEFINE v == Values(given)
<1>7. v = Next1(v)
  BY <1>6 DEF Values
<1> HIDE DEF v
<1>8. ASSUME NEW n \in Nodes
      PROVE  v[n] = IF n \in DOMAIN given THEN given[n]
                    ELSE Connective(n, {v[Kid(n, i)] : i \in Places(n)})
  <2>1. {v[k] : k \in Kids(n)} = {v[Kid(n, i)] : i \in Places(n)}
    BY <1>1
  <2> QED BY <1>7, <2>1
<1> QED BY <1>8 DEF v

(* A node that is done for a reason has the value its status says.         *)
LEMMA StatusIsValue ==
  ASSUME IInv, NEW n \in Nodes, Done(n), Grounded(n)
  PROVE  /\ Status(n) = "pass" => Values(Known)[n] = "true"
         /\ Status(n) = "fail" => Values(Known)[n] = "false"
<1> DEFINE v == Values(Known)
           Agrees(m) == /\ Status(m) = "pass" => v[m] = "true"
                        /\ Status(m) = "fail" => v[m] = "false"
           S == {m \in Nodes : Done(m) /\ Grounded(m) => Agrees(m)}
           Exhausted(m) == node[m].seen = "exhausted"
<1>1. /\ entry \in Entries
      /\ \A m \in Nodes : NodeOK(m)
      /\ \A m \in Nodes : \A i \in Places(m) : LinkOK(m, i)
  BY DEF IInv, StateOK
<1>2. \A m \in Nodes :
        /\ entry.kind[m] \in Kinds
        /\ entry.kind[m] # "leaf" => \E i \in Places(m) : TRUE
        /\ \A i \in Places(m) : Kid(m, i) \in Nodes
  <2>1. \A m \in Nodes : entry.kind[m] # "leaf" => 1 \in Places(m)
    BY <1>1, Tree
  <2> QED BY <1>1, <2>1, Tree
<1>3. /\ \A m \in Nodes : m \in DOMAIN Known <=> entry.kind[m] = "leaf" \/ Exhausted(m)
      /\ \A m \in DOMAIN Known : Known[m] = IF node[m].seen = "pass" THEN "true"
                                  ELSE IF node[m].seen \in {"fail", "exhausted"} THEN "false"
                                  ELSE "unknown"
  BY DEF Known, Leaves
<1>4. \A m \in Nodes : v[m] = IF m \in DOMAIN Known THEN Known[m]
                              ELSE Connective(m, {v[Kid(m, i)] : i \in Places(m)})
  BY <1>1, <1>3, ValuesAreDefined DEF TruthValues
<1> HIDE DEF v
<1>5. \A m \in Nodes : Exhausted(m) => v[m] = "false" /\ Status(m) = "fail"
  BY <1>1, <1>3, <1>4 DEF NodeOK
<1>6. ASSUME NEW m \in Nodes, \A i \in Places(m) : Kid(m, i) \in S, Done(m), Grounded(m)
      PROVE  Agrees(m)
  <2> DEFINE below == {v[Kid(m, i)] : i \in Places(m)}
  <2>1. \A i \in Places(m) : LookedAt(m, i) /\ Done(Kid(m, i)) => Agrees(Kid(m, i))
    BY <1>1, <1>6 DEF LinkOK
  <2>2. \A i \in Places(m) : /\ LookedAt(m, i) /\ KidDid(m, i, "pass") => v[Kid(m, i)] = "true"
                             /\ LookedAt(m, i) /\ KidDid(m, i, "fail") => v[Kid(m, i)] = "false"
    BY <2>1 DEF KidDid
  <2>3. /\ EveryKid(m, "pass") => \A w \in below : w = "true"
        /\ EveryKid(m, "fail") => \A w \in below : w = "false"
        /\ SomeKid(m, "pass") => "true" \in below
        /\ SomeKid(m, "fail") => "false" \in below
    BY <2>2 DEF EveryKid, SomeKid
  <2>4. CASE entry.kind[m] = "leaf"
    BY <1>3, <1>4, <1>6, <2>4 DEF Grounded
  <2>5. CASE Exhausted(m)
    BY <1>5, <2>5
  <2>6. CASE entry.kind[m] # "leaf" /\ ~Exhausted(m)
    <3>1. v[m] = Connective(m, below)
      BY <1>3, <1>4, <2>6
    <3> HIDE DEF below
    <3>2. CASE entry.kind[m] \in {"sequence", "parallel"}
      <4>1. (\E i \in Places(m) : node[Kid(m, i)].seen = "exhausted") => "false" \in below
        BY <1>2, <1>5 DEF below
      <4> QED BY <1>6, <2>3, <2>6, <3>1, <3>2, <4>1 DEF Grounded, Connective, Conjoined
    <3>3. below # {}
      BY <1>2, <2>6 DEF below
    <3>4. CASE entry.kind[m] = "any"
      BY <1>6, <2>3, <2>6, <3>1, <3>3, <3>4 DEF Grounded, Connective, Disjoined
    <3>5. CASE entry.kind[m] = "none"
      BY <1>6, <2>3, <2>6, <3>1, <3>3, <3>5 DEF Grounded, Connective, Disjoined, Opposite
    <3> QED BY <1>2, <2>6, <3>2, <3>4, <3>5 DEF Kinds
  <2> QED BY <2>4, <2>5, <2>6
<1>7. Nodes \subseteq S
  <2>1. \A m \in Nodes : (\A i \in Places(m) : Kid(m, i) \in S) => m \in S
    BY <1>6
  <2> HIDE DEF S
  <2> QED BY <1>1, <2>1, FromTheLeaves
<1> QED BY <1>7 DEF v

LEMMA VerdictFollows == IInv => VerdictIsJustified
<1> SUFFICES ASSUME IInv, Done(1) PROVE VerdictIsJustified
  BY DEF VerdictIsJustified
<1>1. 1 \in Nodes /\ Grounded(1)
  BY Tree DEF IInv, StateOK
<1> QED BY <1>1, StatusIsValue DEF VerdictIsJustified, Kleene, Status

-----------------------------------------------------------------------------
(* What a step leaves alone.  It changes the node n and a set X of nodes   *)
(* below it, to which only n and X itself lead. *)
Touches(n, X) ==
  /\ n \in Nodes /\ Active(n) /\ entry' = entry /\ NodeMap'
  /\ X \subseteq Nodes /\ \A x \in X : x > n
  /\ \A m \in Nodes : \A i \in Places(m) : Kid(m, i) \in X => m = n \/ m \in X
  /\ \A m \in Nodes : m # n /\ m \notin X => node'[m] = node[m]

(* The reasons of a node that is done are those of its children, which     *)
(* nobody touches any more. *)
LEMMA GroundsStay ==
  ASSUME entry' = entry, NEW k \in Nodes, node'[k] = node[k], Grounded(k),
         \A i \in Places(k) : node'[Kid(k, i)] = node[Kid(k, i)]
  PROVE  Grounded(k)'
<1>1. /\ entry.kind[k]' = entry.kind[k] /\ Places(k)' = Places(k) /\ Status(k)' = Status(k)
      /\ \A i \in Places(k) : /\ Kid(k, i)' = Kid(k, i)
                              /\ LookedAt(k, i)' = LookedAt(k, i)
                              /\ \A s : KidDid(k, i, s)' = KidDid(k, i, s)
  BY DEF Places, Status, Kid, LookedAt, KidDid, Phase, Done
<1>2. \A s : EveryKid(k, s)' = EveryKid(k, s) /\ SomeKid(k, s)' = SomeKid(k, s)
  BY <1>1 DEF EveryKid, SomeKid
<1>3. (\E i \in Places(k) : node[Kid(k, i)].seen = "exhausted")'
        = (\E i \in Places(k) : node[Kid(k, i)].seen = "exhausted")
  BY <1>1
<1> QED BY <1>1, <1>2, <1>3 DEF Grounded

LEMMA DoneStays ==
  ASSUME IInv, NEW n, NEW X, Touches(n, X),
         NEW k \in Nodes, k # n, k \notin X, Done(k), Grounded(k)
  PROVE  Grounded(k)'
<1>1. ASSUME NEW i \in Places(k) PROVE node'[Kid(k, i)] = node[Kid(k, i)]
  <2>1. Kid(k, i) \in Nodes /\ LinkOK(k, i)
    BY Tree DEF IInv, StateOK
  <2>2. Kid(k, i) # n
    BY <2>1 DEF LinkOK, Touches, Waiting, Done, Phase
  <2>3. Kid(k, i) \notin X
    BY DEF Touches
  <2> QED BY <2>1, <2>2, <2>3 DEF Touches
<1> QED BY <1>1, GroundsStay DEF Touches

LEMMA Elsewhere ==
  ASSUME IInv, NEW n, NEW X, Touches(n, X), Done(n)' => Grounded(n)',
         NEW m \in Nodes, m # n, m \notin X, NEW i \in Places(m)
  PROVE  LinkOK(m, i)'
<1>0. PICK k : k = Kid(m, i)
  OBVIOUS
<1>1. /\ k \in Nodes /\ LinkOK(m, i) /\ entry' = entry /\ n \in Nodes /\ Active(n)
      /\ node'[m] = node[m] /\ k \notin X
  BY <1>0, Tree DEF IInv, StateOK, Touches
<1>2. /\ Kid(m, i)' = k /\ Phase(m)' = Phase(m) /\ Waiting(m)' = Waiting(m)
      /\ NotBegun(m, i)' = NotBegun(m, i) /\ Heard(m, i)' = Heard(m, i)
      /\ LookedAt(m, i)' = LookedAt(m, i)
  BY <1>0, <1>1 DEF Kid, Phase, Waiting, NotBegun, Heard, LookedAt
<1>3. CASE k = n
  <2>1. Waiting(m) /\ (entry.kind[m] = "parallel" \/ i = node[m].at)
    BY <1>0, <1>1, <1>3 DEF LinkOK
  <2>2. node[m].at \in Nat
    BY <1>1 DEF IInv, NodeOK, NodeSet
  <2>3. i \in Nat
    BY Tree DEF IInv, StateOK
  <2>4. ~NotBegun(m, i) /\ ~Heard(m, i)
    BY <2>1, <2>2, <2>3 DEF NotBegun, Heard, Waiting, Phase
  <2>5. Done(k)' => Grounded(k)'
    BY <1>3
  <2> QED BY <1>0, <1>1, <1>2, <2>1, <2>4, <2>5 DEF LinkOK
<1>4. CASE k # n
  <2>1. node'[k] = node[k]
    BY <1>1, <1>4 DEF Touches
  <2>2. Done(k) /\ Grounded(k) => Grounded(k)'
    BY <1>1, <1>4, DoneStays
  <2>3. /\ Active(k)' = Active(k) /\ Phase(k)' = Phase(k) /\ Done(k)' = Done(k)
        /\ Status(k)' = Status(k)
    BY <2>1 DEF Active, Phase, Done, Status
  <2> QED BY <1>0, <1>1, <1>2, <2>2, <2>3 DEF LinkOK
<1> QED BY <1>3, <1>4

(* A node that begins, is skipped or is put back has nothing to account    *)
(* for while its children are idle. *)
LEMMA FreshLink ==
  ASSUME entry \in Entries, entry' = entry, NEW x \in Nodes, node'[x].at = 0,
         NEW i \in Places(x), Phase(Kid(x, i))' = "idle"
  PROVE  LinkOK(x, i)'
<1>1. i \in Nat /\ i > 0
  BY Tree
<1> QED BY <1>1 DEF LinkOK, Active, Heard, LookedAt, Done, Phase, Kid

(* Nothing but nodes changes in a step. *)
Still ==
  /\ UNCHANGED <<entry, now, holds, changes>>
  /\ errors' \in 0 .. MaxErrors

LEMMA StepKeeps ==
  ASSUME IInv, ~Done(1), Still, NEW n, NEW X, Touches(n, X),
         Phase(n)' # "idle", Done(n)' => Grounded(n)',
         NodeOK(n)', \A i \in Places(n) : LinkOK(n, i)',
         \A x \in X : /\ NodeOK(x)' /\ node'[x].at = 0
                      /\ \A i \in Places(x) : Phase(Kid(x, i))' = "idle"
  PROVE  IInv'
<1>1. /\ entry \in Entries /\ entry' = entry /\ Nodes' = Nodes
      /\ \A m : Places(m)' = Places(m)
  BY DEF IInv, StateOK, Still, Nodes, Places
<1>2. StateOK'
  BY <1>1 DEF IInv, StateOK, Still, Touches, Leaves
<1>3. ASSUME NEW m \in Nodes PROVE NodeOK(m)'
  <2>1. CASE m # n /\ m \notin X
    <3>1. NodeOK(m) /\ node'[m] = node[m]
      BY <2>1 DEF IInv, Touches
    <3> QED BY <1>1, <3>1 DEF NodeOK, Phase, Status, Waiting, Width
  <2> QED BY <2>1
<1>4. ASSUME NEW m \in Nodes, NEW i \in Places(m) PROVE LinkOK(m, i)'
  <2>1. CASE m = n BY <2>1
  <2>2. CASE m \in X
    BY <1>1, <2>2, FreshLink DEF Touches
  <2>3. CASE m # n /\ m \notin X
    BY <2>3, Elsewhere
  <2> QED BY <2>1, <2>2, <2>3
<1>5. Phase(1)' # "idle" /\ (Done(1)' => Grounded(1)')
  <2>1. CASE n = 1 BY <2>1
  <2>2. CASE n # 1
    <3>1. 1 \in Nodes /\ 1 \notin X
      BY <1>1, Tree DEF Touches
    <3>2. node'[1] = node[1]
      BY <2>2, <3>1 DEF Touches
    <3> QED BY <3>2 DEF IInv, Phase, Done
  <2> QED BY <2>1, <2>2
<1> QED BY <1>1, <1>2, <1>3, <1>4, <1>5 DEF IInv

-----------------------------------------------------------------------------
(* The nodes a step changes. *)
LEMMA OnlyChanges ==
  ASSUME StateOK, NEW n \in Nodes, NEW s, Becomes(Only(n, s))
  PROVE  /\ UNCHANGED <<entry, now, holds, changes>> /\ NodeMap'
         /\ node'[n] = s /\ \A m \in Nodes : m # n => node'[m] = node[m]
<1>1. DOMAIN Only(n, s) = {n} /\ Only(n, s)[n] = s
  BY DEF Only
<1>2. /\ node' = [m \in Nodes |-> IF m = n THEN s ELSE node[m]]
      /\ UNCHANGED <<entry, now, holds, changes>>
  BY <1>1 DEF Becomes
<1>3. Nodes' = Nodes
  BY <1>2 DEF Nodes
<1> QED BY <1>2, <1>3 DEF NodeMap

LEMMA BothChange ==
  ASSUME StateOK, NEW n \in Nodes, NEW s, NEW f, n \notin DOMAIN f,
         Becomes(And(Only(n, s), f))
  PROVE  /\ UNCHANGED <<entry, now, holds, changes>> /\ NodeMap'
         /\ node'[n] = s
         /\ \A m \in Nodes : m # n => node'[m] = IF m \in DOMAIN f THEN f[m] ELSE node[m]
<1> DEFINE g == And(Only(n, s), f)
<1>1. DOMAIN Only(n, s) = {n} /\ Only(n, s)[n] = s
  BY DEF Only
<1>2. DOMAIN g = {n} \cup DOMAIN f /\ g[n] = s /\ \A m \in DOMAIN f : g[m] = f[m]
  BY <1>1 DEF And
<1> HIDE DEF g
<1>3. /\ node' = [m \in Nodes |-> IF m \in DOMAIN g THEN g[m] ELSE node[m]]
      /\ UNCHANGED <<entry, now, holds, changes>>
  BY DEF Becomes, g
<1>4. Nodes' = Nodes
  BY <1>3 DEF Nodes
<1> QED BY <1>2, <1>3, <1>4 DEF NodeMap

(* What may become of a node that is being evaluated, and of one below it  *)
(* that begins, is skipped or is put back.                                 *)
Follows(n, s) ==
  /\ s \in NodeSet /\ s.at <= Width(n) /\ s.phase # "idle"
  /\ s.seen = node[n].seen
  /\ entry.kind[n] # "parallel" /\ s.phase = "wait" => s.at # 0

Fresh(s) ==
  /\ s \in NodeSet /\ s.at = 0 /\ s.phase \in {"idle", "run", "done"}
  /\ s.seen = "exhausted" => s.phase = "done" /\ s.status = "fail"

LEMMA FreshNodes ==
  /\ Fresh(Idle)
  /\ \A how \in Modes : Fresh(Begun(how)) /\ Begun(how).phase = "run"
  /\ \A status \in Statuses, seen \in Statuses \cup {"unseen"} :
       /\ Fresh(Given(status, seen)) /\ Given(status, seen).phase = "done"
       /\ Given(status, seen).status = status
  /\ /\ Fresh(Given("fail", "exhausted")) /\ Given("fail", "exhausted").phase = "done"
     /\ Given("fail", "exhausted").seen = "exhausted"
     /\ Given("fail", "exhausted").status = "fail"
<1>1. InitialDelay \in InitialDelay .. MaxDelay
  BY TreeAssumption
<1>2. Idle \in NodeSet
  BY <1>1 DEF Idle, NodeSet, Modes, Statuses
<1>3. Fresh(Idle)
  BY <1>2 DEF Fresh, Idle
<1>4. ASSUME NEW how \in Modes
      PROVE  Fresh(Begun(how)) /\ Begun(how).phase = "run"
  BY <1>1 DEF Fresh, Begun, Idle, NodeSet, Modes, Statuses
<1>5. ASSUME NEW status \in Statuses, NEW seen \in Statuses \cup {"unseen", "exhausted"},
             seen = "exhausted" => status = "fail"
      PROVE  /\ Fresh(Given(status, seen)) /\ Given(status, seen).phase = "done"
             /\ Given(status, seen).seen = seen /\ Given(status, seen).status = status
  <2>1. PICK s : s = Given(status, seen)
    OBVIOUS
  <2>2. s = [phase |-> "done", how |-> "single", at |-> 0, due |-> 0,
             delay |-> InitialDelay, seen |-> seen, status |-> status]
    BY <2>1 DEF Given, Idle
  <2>3. s \in NodeSet
    BY <1>1, <2>2 DEF NodeSet, Modes
  <2> QED BY <1>5, <2>1, <2>2, <2>3 DEF Fresh
<1>6. "fail" \in Statuses
  BY DEF Statuses
<1>7. \A status \in Statuses, seen \in Statuses \cup {"unseen"} :
        /\ Fresh(Given(status, seen)) /\ Given(status, seen).phase = "done"
        /\ Given(status, seen).status = status
  BY <1>5 DEF Statuses
<1> QED BY <1>3, <1>4, <1>5, <1>6, <1>7

LEMMA FollowsOK ==
  ASSUME IInv, NEW n \in Nodes, Active(n), NEW s, Follows(n, s), node'[n] = s, entry' = entry
  PROVE  NodeOK(n)' /\ Phase(n)' # "idle"
<1>1. node[n].seen # "exhausted"
  BY DEF IInv, NodeOK, Active
<1> QED BY <1>1 DEF Follows, NodeOK, Phase, Status, Waiting, Width, NodeSet

LEMMA FreshOK ==
  ASSUME entry \in Entries, NEW x \in Nodes, Fresh(node'[x]), entry' = entry
  PROVE  NodeOK(x)' /\ node'[x].at = 0
<1>1. Width(x) \in Nat /\ Width(x)' = Width(x)
  BY Tree DEF Width
<1> QED BY <1>1 DEF Fresh, NodeOK, Phase, Status, Waiting, NodeSet

(* A group that changes, with some of the children it has not turned to.   *)
LEMMA GroupTouches ==
  ASSUME IInv, Still, NodeMap', NEW n \in Nodes, Active(n), NEW X,
         \A x \in X : \E i \in Places(n) : x = Kid(n, i),
         \A m \in Nodes : m # n /\ m \notin X => node'[m] = node[m]
  PROVE  Touches(n, X)
<1>1. /\ \A i \in Places(n) : Kid(n, i) \in Nodes /\ Kid(n, i) > n
      /\ \A m \in Nodes : \A i \in Places(n), j \in Places(m) : Kid(n, i) = Kid(m, j) => n = m
  BY Tree DEF IInv, StateOK
<1> QED BY <1>1 DEF Touches, Still

LEMMA GroupStep ==
  ASSUME IInv, ~Done(1), Still, NodeMap', NEW n \in Nodes, Active(n), NEW X,
         \A x \in X : Phase(x) = "idle" /\ \E i \in Places(n) : x = Kid(n, i),
         Follows(n, node'[n]), \A x \in X : Fresh(node'[x]),
         \A m \in Nodes : m # n /\ m \notin X => node'[m] = node[m],
         \A i \in Places(n) : LinkOK(n, i)',
         Done(n)' => Grounded(n)'
  PROVE  IInv'
<1>1. Touches(n, X) /\ entry' = entry /\ entry \in Entries
  BY GroupTouches DEF IInv, StateOK, Still
<1>2. NodeOK(n)' /\ Phase(n)' # "idle"
  BY <1>1, FollowsOK
<1>3. ASSUME NEW x \in X
      PROVE  /\ NodeOK(x)' /\ node'[x].at = 0
             /\ \A i \in Places(x) : Phase(Kid(x, i))' = "idle"
  <2>1. x \in Nodes /\ x > n
    BY <1>1 DEF Touches
  <2>2. NodeOK(x)' /\ node'[x].at = 0
    BY <1>1, <2>1, FreshOK
  <2>3. ASSUME NEW i \in Places(x) PROVE Phase(Kid(x, i))' = "idle"
    <3>1. /\ Kid(x, i) \in Nodes /\ Kid(x, i) > x
          /\ \A j \in Places(n) : Kid(x, i) = Kid(n, j) => x = n
      BY <1>1, <2>1, Tree
    <3>2. Kid(x, i) # n /\ Kid(x, i) \notin X /\ Kid(x, i)' = Kid(x, i)
      <4>1. n \in Nat /\ x \in Nat /\ Kid(x, i) \in Nat
        BY <1>1, <2>1, <3>1, Tree
      <4>2. Kid(x, i) \notin X
        BY <2>1, <3>1, <4>1
      <4> QED BY <1>1, <2>1, <3>1, <4>1, <4>2 DEF Kid
    <3>3. Phase(Kid(x, i)) = "idle"
      BY <2>1 DEF IInv, LinkOK, NotBegun
    <3> QED BY <3>1, <3>2, <3>3 DEF Phase
  <2> QED BY <2>2, <2>3
<1> QED BY <1>1, <1>2, <1>3, StepKeeps

-----------------------------------------------------------------------------
(* Leaves. *)
LEMMA LeafStep ==
  ASSUME IInv, ~Done(1), errors' \in 0 .. MaxErrors,
         NEW n \in Nodes, Active(n), entry.kind[n] = "leaf",
         NEW s, Becomes(Only(n, s)),
         s \in NodeSet, s.at <= Width(n), s.phase \in {"call", "sleep", "done"},
         s.seen = "exhausted" => s.phase = "done" /\ s.status = "fail",
         s.phase = "done" => /\ s.status = "pass" => s.seen = "pass"
                             /\ s.status = "fail" => s.seen \in {"fail", "exhausted"}
  PROVE  IInv'
<1>1. /\ Still /\ NodeMap' /\ node'[n] = s
      /\ \A m \in Nodes : m # n => node'[m] = node[m]
  BY OnlyChanges DEF IInv, Still
<1>2. Touches(n, {})
  BY <1>1, GroupTouches
<1>3. Places(n) = {}
  BY Tree DEF IInv, StateOK
<1>4. NodeOK(n)' /\ Phase(n)' # "idle"
  BY <1>1 DEF NodeOK, Phase, Status, Waiting, Width, NodeSet, Still
<1>5. Done(n)' => Grounded(n)'
  BY <1>1 DEF Done, Grounded, Status, Still
<1> QED BY <1>1, <1>2, <1>3, <1>4, <1>5, StepKeeps

(* A pause before the deadline. *)
LEMMA AsleepType ==
  ASSUME IInv, NEW n \in Nodes, now < Deadline
  PROVE  /\ Asleep(n) \in NodeSet /\ Asleep(n).phase = "sleep"
         /\ Asleep(n).at = node[n].at /\ Asleep(n).seen = node[n].seen
         /\ Asleep(n).status = node[n].status
<1>1. /\ node[n] \in NodeSet /\ now \in Nat /\ Deadline \in Nat
  BY TreeAssumption DEF IInv, NodeOK, StateOK, Deadline
<1>2. InitialDelay \in Nat \ {0} /\ MaxDelay \in Nat /\ InitialDelay <= MaxDelay
  BY TreeAssumption
<1>3. node[n].delay \in InitialDelay .. MaxDelay
  BY <1>1 DEF NodeSet
<1>4. Backoff(node[n].delay) \in InitialDelay .. MaxDelay
  BY <1>2, <1>3 DEF Backoff, Least
<1>5. now + Least(node[n].delay, Deadline - now) \in Nat
  BY <1>1, <1>2, <1>3 DEF Least
<1> QED BY <1>1, <1>4, <1>5 DEF Asleep, NodeSet

LEMMA LeafSteps ==
  ASSUME IInv, ~Done(1), NEW n \in Nodes, LeafExpires(n) \/ BeginCall(n) \/ EndCall(n)
  PROVE  IInv'
<1>1. /\ entry.kind[n] = "leaf" /\ Active(n) /\ node[n] \in NodeSet /\ node[n].at <= Width(n)
      /\ node[n].seen # "exhausted" /\ errors \in 0 .. MaxErrors /\ now \in Nat
      /\ Width(n) = 0 /\ entry \in Entries /\ MaxErrors \in Nat
  BY Tree, TreeAssumption DEF IInv, StateOK, NodeOK, LeafExpires, BeginCall, EndCall, At, Active, Phase
<1>2. CASE LeafExpires(n)
  BY <1>1, <1>2, FreshNodes, LeafStep DEF LeafExpires, Fresh
<1>3. CASE BeginCall(n)
  <2> DEFINE s == [node[n] EXCEPT !.phase = "call", !.due = now + entry.call]
  <2>1. now + entry.call \in Nat
    BY <1>1, TreeAssumption
  <2>2. s \in NodeSet /\ s.at <= Width(n) /\ s.phase = "call" /\ s.seen # "exhausted"
    BY <1>1, <2>1 DEF NodeSet
  <2>3. Becomes(Only(n, s)) /\ errors' = errors
    BY <1>3 DEF BeginCall
  <2> HIDE DEF s
  <2> QED BY <1>1, <2>2, <2>3, LeafStep
<1>4. CASE EndCall(n)
  <2>1. PICK answer \in {"pass", "fail", "error"} :
          /\ IF answer = "error" THEN errors < MaxErrors /\ errors' = errors + 1
             ELSE UNCHANGED errors
          /\ LET observed == [node[n] EXCEPT !.seen = answer, !.status = answer] IN
             IF answer = "pass" \/ node[n].how # "converge" \/ now >= Deadline
             THEN Becomes(Only(n, [observed EXCEPT !.phase = "done"]))
             ELSE Becomes(Only(n, [Asleep(n) EXCEPT !.seen = answer, !.status = answer]))
    BY <1>4 DEF EndCall
  <2>2. errors' \in 0 .. MaxErrors
    BY <1>1, <2>1
  <2>3. CASE answer = "pass" \/ node[n].how # "converge" \/ now >= Deadline
    <3> DEFINE observed == [node[n] EXCEPT !.seen = answer, !.status = answer]
               s == [observed EXCEPT !.phase = "done"]
    <3>1. /\ s \in NodeSet /\ s.at <= Width(n) /\ s.phase = "done"
          /\ s.seen = answer /\ s.status = answer
      BY <1>1 DEF NodeSet, Statuses
    <3>2. Becomes(Only(n, s))
      BY <2>1, <2>3
    <3> HIDE DEF s
    <3> QED BY <1>1, <2>2, <3>1, <3>2, LeafStep
  <2>4. CASE ~(answer = "pass" \/ node[n].how # "converge" \/ now >= Deadline)
    <3> DEFINE s == [Asleep(n) EXCEPT !.seen = answer, !.status = answer]
    <3>1. now < Deadline
      BY <1>1, <2>4, TreeAssumption DEF Deadline
    <3>2. s \in NodeSet /\ s.at <= Width(n) /\ s.phase = "sleep" /\ s.seen = answer
      BY <1>1, <3>1, AsleepType DEF NodeSet, Statuses
    <3>3. Becomes(Only(n, s))
      BY <2>1, <2>4
    <3> HIDE DEF s
    <3> QED BY <1>1, <2>2, <3>2, <3>3, LeafStep
  <2> QED BY <2>3, <2>4
<1> QED BY <1>2, <1>3, <1>4

-----------------------------------------------------------------------------
(* Groups that take one child at a time. *)

(* A group ends its round, for good or to sleep; X are the children it     *)
(* skips, and it has heard of all before them. *)
Ends(n, X) ==
  /\ n \in Nodes /\ entry.kind[n] # "parallel" /\ Phase(n) \in {"run", "wait"}
  /\ \A i \in Places(n) : i <= node[n].at => Done(Kid(n, i))
  /\ \A x \in X : \E i \in Places(n) : i > node[n].at /\ x = Kid(n, i)
  /\ Still /\ NodeMap'
  /\ Follows(n, node'[n]) /\ node'[n].at = node[n].at /\ node'[n].phase \in {"sleep", "done"}
  /\ \A x \in X : Fresh(node'[x]) /\ node'[x].phase = "done"
  /\ \A m \in Nodes : m # n /\ m \notin X => node'[m] = node[m]

LEMMA EndsFrame ==
  ASSUME IInv, NEW n, NEW X, Ends(n, X), NEW i \in Places(n)
  PROVE  /\ i \in Nat /\ node[n].at \in Nat /\ Kid(n, i)' = Kid(n, i) /\ Kid(n, i) \in Nodes
         /\ LookedAt(n, i)' <=> i <= node[n].at
         /\ i <= node[n].at => node'[Kid(n, i)] = node[Kid(n, i)] /\ Kid(n, i) \notin X
         /\ Kid(n, i) # n
         /\ i > node[n].at => Phase(Kid(n, i)) = "idle"
<1>0. entry \in Entries /\ entry' = entry /\ n \in Nodes
  BY DEF IInv, StateOK, Ends, Still
<1>1. /\ entry \in Entries /\ entry' = entry /\ n \in Nodes /\ Kid(n, i) \in Nodes
      /\ Kid(n, i) > n /\ Nodes \subseteq Nat /\ i \in Nat
      /\ \A j \in Places(n) : Kid(n, i) = Kid(n, j) => i = j
      /\ node[n].at \in Nat
  <2>1. /\ Kid(n, i) \in Nodes /\ Kid(n, i) > n /\ Nodes \subseteq Nat /\ i \in Nat
        /\ \A j \in Places(n) : Kid(n, i) = Kid(n, j) => i = j
    BY <1>0, Tree
  <2>2. node[n].at \in Nat
    BY <1>0 DEF IInv, NodeOK, NodeSet
  <2> QED BY <1>0, <2>1, <2>2
<1>2. Kid(n, i)' = Kid(n, i) /\ (LookedAt(n, i)' <=> i <= node[n].at)
  BY <1>1 DEF Kid, LookedAt, Ends, Phase
<1>3. Kid(n, i) # n /\ (i <= node[n].at => Kid(n, i) \notin X)
  <2>1. \A x \in X : \E j \in Places(n) : j > node[n].at /\ x = Kid(n, j)
    BY DEF Ends
  <2>2. i <= node[n].at => Kid(n, i) \notin X
    BY <1>1, <2>1
  <2> QED BY <1>1, <2>2
<1>4. i > node[n].at => Phase(Kid(n, i)) = "idle"
  BY <1>1 DEF IInv, LinkOK, NotBegun, Ends
<1> QED BY <1>1, <1>2, <1>3, <1>4 DEF Ends

(* ... so that its reasons are the children it has heard of. *)
LEMMA EndsGrounds ==
  ASSUME IInv, NEW n, NEW X, Ends(n, X), NEW status
  PROVE  /\ (\E i \in Places(n) : i <= node[n].at /\ Status(Kid(n, i)) = status)
              => SomeKid(n, status)'
         /\ node[n].at = Width(n) /\ (\A i \in Places(n) : Status(Kid(n, i)) = status)
              => EveryKid(n, status)'
<1>1. Places(n)' = Places(n) /\ Places(n) = 1 .. Width(n) /\ Width(n) \in Nat
  BY Tree DEF Places, Ends, Still, IInv, StateOK
<1>2. \A i \in Places(n) : i <= node[n].at =>
        LookedAt(n, i)' /\ (Status(Kid(n, i)) = status => KidDid(n, i, status)')
  <2>1. TAKE i \in Places(n)
  <2>2. HAVE i <= node[n].at
  <2> QED BY <2>2, EndsFrame DEF KidDid, Ends, Done, Status
<1>3. (\E i \in Places(n) : i <= node[n].at /\ Status(Kid(n, i)) = status)
        => SomeKid(n, status)'
  BY <1>1, <1>2 DEF SomeKid
<1>4. node[n].at = Width(n) => \A i \in Places(n) : i <= node[n].at
  BY <1>1
<1>5. node[n].at = Width(n) /\ (\A i \in Places(n) : Status(Kid(n, i)) = status)
        => EveryKid(n, status)'
  BY <1>1, <1>2, <1>4 DEF EveryKid
<1> QED BY <1>3, <1>5

LEMMA EndsStep ==
  ASSUME IInv, ~Done(1), NEW n, NEW X, Ends(n, X), Done(n)' => Grounded(n)'
  PROVE  IInv'
<1>1. n \in Nodes /\ Active(n) /\ entry' = entry
  BY DEF Ends, Active, Still
<1>2. \A x \in X : Phase(x) = "idle" /\ \E i \in Places(n) : x = Kid(n, i)
  BY EndsFrame DEF Ends
<1>3. Touches(n, X)
  BY <1>1, <1>2, GroupTouches DEF Ends
<1>4. ASSUME NEW i \in Places(n) PROVE LinkOK(n, i)'
  <2>1. PICK k : k = Kid(n, i)
    OBVIOUS
  <2>2. /\ i \in Nat /\ node[n].at \in Nat /\ Kid(n, i)' = k /\ k \in Nodes /\ k # n
        /\ LookedAt(n, i)' <=> i <= node[n].at
        /\ i <= node[n].at => node'[k] = node[k] /\ k \notin X /\ Done(k)
        /\ i > node[n].at => Phase(k) = "idle"
    <3>1. i <= node[n].at => Done(k)
      BY <2>1 DEF Ends
    <3> QED BY <2>1, <3>1, EndsFrame
  <2>3. ~NotBegun(n, i)' /\ ~Heard(n, i)'
    BY <1>1 DEF NotBegun, Heard, Waiting, Phase, Ends
  <2>4. ~Active(k)'
    BY <2>2 DEF Ends, Active, Phase, Done, Fresh
  <2>5. i <= node[n].at => Grounded(k)'
    <3>1. HAVE i <= node[n].at
    <3>2. LookedAt(n, i) /\ LinkOK(n, i)
      BY <1>1, <3>1 DEF IInv, LookedAt, Ends
    <3>3. Grounded(k)
      BY <2>1, <2>2, <3>1, <3>2 DEF LinkOK
    <3> QED BY <1>3, <2>2, <3>1, <3>3, DoneStays
  <2> QED BY <2>2, <2>3, <2>4, <2>5 DEF LinkOK
<1> QED BY <1>1, <1>2, <1>4, GroupStep DEF Ends

(* A group turns to its next child. *)
LEMMA BeginsStep ==
  ASSUME IInv, ~Done(1), NEW n \in Nodes, entry.kind[n] # "parallel", Phase(n) = "run",
         node[n].at < Width(n), NEW how \in Modes, UNCHANGED errors,
         Becomes(And(Only(n, [node[n] EXCEPT !.phase = "wait", !.at = @ + 1]),
                     Only(entry.kids[n][node[n].at + 1], Begun(how))))
  PROVE  IInv'
<1> DEFINE s == [node[n] EXCEPT !.phase = "wait", !.at = @ + 1]
           f == Only(entry.kids[n][node[n].at + 1], Begun(how))
<1>1. /\ entry \in Entries /\ node[n] \in NodeSet /\ node[n].at \in Nat /\ Width(n) \in Nat
      /\ Places(n) = 1 .. Width(n) /\ node[n].at + 1 \in Places(n) /\ StateOK
  BY Tree DEF IInv, StateOK, NodeOK, NodeSet
<1>2. PICK b : b = Kid(n, node[n].at + 1)
  OBVIOUS
<1>3. b \in Nodes /\ b # n /\ DOMAIN f = {b} /\ f[b] = Begun(how)
  BY <1>1, <1>2, Tree, SMTT(30) DEF Only, Kid
<1>4. /\ s \in NodeSet /\ s.at = node[n].at + 1 /\ s.phase = "wait" /\ s.seen = node[n].seen
  <2>1. node[n].at + 1 \in Nat
    BY <1>1
  <2> QED BY <1>1, <2>1 DEF NodeSet
<1> HIDE DEF s, f
<1>5. Becomes(And(Only(n, s), f))
  BY DEF s, f
<1>6. /\ UNCHANGED <<entry, now, holds, changes>> /\ NodeMap' /\ node'[n] = s
      /\ node'[b] = Begun(how) /\ \A m \in Nodes : m # n /\ m # b => node'[m] = node[m]
  BY <1>1, <1>3, <1>5, BothChange
<1>7. Still /\ Active(n) /\ Follows(n, node'[n]) /\ ~Done(n)' /\ Fresh(node'[b])
  BY <1>1, <1>4, <1>6, FreshNodes DEF Still, Active, Follows, Done, IInv, StateOK
<1>8. Phase(b) = "idle"
  BY <1>1, <1>2 DEF IInv, LinkOK, NotBegun
<1>9. Touches(n, {b})
  BY <1>1, <1>2, <1>6, <1>7, GroupTouches
<1>10. ASSUME NEW i \in Places(n) PROVE LinkOK(n, i)'
  <2>1. PICK k : k = Kid(n, i)
    OBVIOUS
  <2>2. /\ k \in Nodes /\ k # n /\ i \in Nat /\ LinkOK(n, i) /\ Kid(n, i)' = k
        /\ k = b => i = node[n].at + 1
    <3>1. LinkOK(n, i) /\ Kid(n, i)' = k
      BY <1>6, <2>1 DEF IInv, Kid
    <3>2. /\ Kid(n, i) \in Nodes /\ Kid(n, i) > n /\ i \in Nat
          /\ Kid(n, i) = Kid(n, node[n].at + 1) => i = node[n].at + 1
      BY <1>1, Tree
    <3>3. Nodes \subseteq Nat
      BY <1>1, Tree
    <3> QED BY <1>2, <2>1, <3>1, <3>2, <3>3
  <2>3. /\ ~NotBegun(n, i)' <=> i <= node[n].at + 1
        /\ Heard(n, i)' <=> i < node[n].at + 1
        /\ LookedAt(n, i)' <=> i <= node[n].at + 1
    BY <1>1, <1>4, <1>6, <2>2 DEF NotBegun, Heard, LookedAt, Waiting, Phase
  <2>4. CASE i <= node[n].at
    <3>1. Heard(n, i) /\ LookedAt(n, i) /\ k # b
      BY <1>1, <2>2, <2>4 DEF Heard, LookedAt
    <3>2. /\ Done(k) /\ Grounded(k) /\ node'[k] = node[k]
          /\ entry.kind[n] = "sequence" => Status(k) = "pass"
      BY <1>6, <2>1, <2>2, <3>1 DEF LinkOK
    <3>3. Grounded(k)'
      BY <1>9, <2>2, <3>1, <3>2, DoneStays
    <3> QED BY <1>1, <1>6, <2>2, <2>3, <2>4, <3>2, <3>3
            DEF LinkOK, Active, Phase, Done, Status
  <2>5. CASE i = node[n].at + 1
    BY <1>1, <1>2, <1>4, <1>6, <2>1, <2>2, <2>3, <2>5, FreshNodes
       DEF LinkOK, Active, Phase, Done, Waiting
  <2>6. CASE i > node[n].at + 1
    <3>1. NotBegun(n, i) /\ k # b
      BY <1>1, <2>2, <2>6 DEF NotBegun
    <3>2. Phase(k) = "idle" /\ node'[k] = node[k]
      BY <1>6, <2>1, <2>2, <3>1 DEF LinkOK
    <3> QED BY <1>1, <2>2, <2>3, <2>6, <3>2 DEF LinkOK, Active, Phase, Done
  <2> QED BY <1>1, <2>2, <2>4, <2>5, <2>6
<1>11. \A x \in {b} : Phase(x) = "idle" /\ \E i \in Places(n) : x = Kid(n, i)
  BY <1>1, <1>2, <1>8
<1>12. /\ \A x \in {b} : Fresh(node'[x])
       /\ \A m \in Nodes : m # n /\ m \notin {b} => node'[m] = node[m]
       /\ \A i \in Places(n) : LinkOK(n, i)'
       /\ Done(n)' => Grounded(n)'
  BY <1>6, <1>7, <1>10
<1> HIDE DEF Still
<1> QED BY <1>6, <1>7, <1>11, <1>12, GroupStep

(* A group hears of the child it waits for, and goes on. *)
LEMMA HearsStep ==
  ASSUME IInv, ~Done(1), NEW n \in Nodes, entry.kind[n] # "parallel", Phase(n) = "wait",
         Done(Child(n)), entry.kind[n] = "sequence" => Status(Child(n)) = "pass",
         UNCHANGED errors, Becomes(Only(n, [node[n] EXCEPT !.phase = "run"]))
  PROVE  IInv'
<1> DEFINE s == [node[n] EXCEPT !.phase = "run"]
<1>1. /\ entry \in Entries /\ node[n] \in NodeSet /\ node[n].at \in Nat /\ Width(n) \in Nat
      /\ node[n].at <= Width(n) /\ StateOK
  BY Tree DEF IInv, StateOK, NodeOK, NodeSet
<1>2. s \in NodeSet /\ s.at = node[n].at /\ s.phase = "run" /\ s.seen = node[n].seen
  BY <1>1 DEF NodeSet
<1> HIDE DEF s
<1>3. /\ UNCHANGED <<entry, now, holds, changes>> /\ NodeMap' /\ node'[n] = s
      /\ \A m \in Nodes : m # n => node'[m] = node[m]
  <2>1. Becomes(Only(n, s))
    BY DEF s
  <2> QED BY <1>1, <2>1, OnlyChanges
<1>4. Still /\ Active(n) /\ Follows(n, node'[n]) /\ ~Done(n)'
  BY <1>1, <1>2, <1>3 DEF Still, Active, Follows, Done, IInv, StateOK
<1>5. Touches(n, {})
  BY <1>3, <1>4, GroupTouches
<1>6. ASSUME NEW i \in Places(n) PROVE LinkOK(n, i)'
  <2>1. PICK k : k = Kid(n, i)
    OBVIOUS
  <2>2. /\ k \in Nodes /\ k # n /\ i \in Nat /\ LinkOK(n, i) /\ Kid(n, i)' = k
        /\ node'[k] = node[k]
    BY <1>1, <1>3, <2>1, Tree DEF IInv, Kid
  <2>3. /\ ~NotBegun(n, i)' <=> i <= node[n].at
        /\ Heard(n, i)' <=> i <= node[n].at
        /\ LookedAt(n, i)' <=> i <= node[n].at
    BY <1>1, <1>2, <1>3, <2>2 DEF NotBegun, Heard, LookedAt, Waiting, Phase
  <2>4. CASE i <= node[n].at
    <3>1. Done(k) /\ (entry.kind[n] = "sequence" => Status(k) = "pass")
      <4>1. CASE i = node[n].at
        BY <2>1, <4>1 DEF Child, Kid
      <4>2. CASE i < node[n].at
        BY <2>1, <2>2, <4>2 DEF LinkOK, Heard, Waiting
      <4> QED BY <1>1, <2>2, <2>4, <4>1, <4>2
    <3>2. Grounded(k)
      BY <2>1, <2>2, <2>4, <3>1 DEF LinkOK, LookedAt
    <3>3. Grounded(k)'
      BY <1>5, <2>2, <3>1, <3>2, DoneStays
    <3> QED BY <1>3, <2>2, <2>3, <2>4, <3>1, <3>3 DEF LinkOK, Active, Phase, Done, Status
  <2>5. CASE i > node[n].at
    <3>1. Phase(k) = "idle"
      BY <2>1, <2>2, <2>5 DEF LinkOK, NotBegun
    <3> QED BY <1>1, <2>2, <2>3, <2>5, <3>1 DEF LinkOK, Active, Phase, Done
  <2> QED BY <1>1, <2>2, <2>4, <2>5
<1> PICK X : X = {}
  OBVIOUS
<1>7. /\ \A x \in X : Phase(x) = "idle" /\ \E i \in Places(n) : x = Kid(n, i)
      /\ \A x \in X : Fresh(node'[x])
      /\ \A m \in Nodes : m # n /\ m \notin X => node'[m] = node[m]
      /\ \A i \in Places(n) : LinkOK(n, i)'
      /\ Done(n)' => Grounded(n)'
  BY <1>3, <1>4, <1>6
<1> QED BY <1>3, <1>4, <1>7, GroupStep

(* A group has heard of the children it turned to. *)
HeardSoFar(n) == \A i \in Places(n) : i <= node[n].at => Done(Kid(n, i))
PassedSoFar(n) == \A i \in Places(n) : i <= node[n].at => Status(Kid(n, i)) = "pass"

LEMMA HeardAll ==
  ASSUME IInv, NEW n \in Nodes, entry.kind[n] # "parallel", Phase(n) \in {"run", "wait"},
         Waiting(n) => Done(Child(n))
  PROVE  /\ HeardSoFar(n)
         /\ entry.kind[n] = "sequence" /\ Phase(n) = "run" => PassedSoFar(n)
<1> SUFFICES ASSUME NEW i \in Places(n), i <= node[n].at
             PROVE  /\ Done(Kid(n, i))
                    /\ entry.kind[n] = "sequence" /\ Phase(n) = "run" =>
                         Status(Kid(n, i)) = "pass"
  BY DEF HeardSoFar, PassedSoFar
<1>1. i \in Nat /\ node[n].at \in Nat /\ LinkOK(n, i)
  <2>1. i \in Nat
    BY Tree DEF IInv, StateOK
  <2> QED BY <2>1 DEF IInv, NodeOK, NodeSet
<1>2. CASE Heard(n, i)
  BY <1>1, <1>2 DEF LinkOK
<1>3. CASE ~Heard(n, i)
  <2>1. Phase(n) = "wait" /\ i = node[n].at /\ Done(Child(n))
    BY <1>1, <1>3 DEF Heard, Waiting
  <2> QED BY <2>1 DEF Child, Kid
<1> QED BY <1>2, <1>3

(* The children that a group skips are those it did not turn to, and all   *)
(* are given the same. *)
SkipsRest(n, f, state) ==
  /\ \A i \in Places(n) : i > node[n].at => Kid(n, i) \in DOMAIN f
  /\ \A x \in DOMAIN f : f[x] = state /\ \E i \in Places(n) : i > node[n].at /\ x = Kid(n, i)

LEMMA SkippedKids ==
  ASSUME IInv, NEW n \in Nodes, NEW status, NEW seen
  PROVE  SkipsRest(n, Skipped(n, node[n].at, status, seen), Given(status, seen))
<1> DEFINE rest == node[n].at + 1 .. Width(n)
           f == Skipped(n, node[n].at, status, seen)
<1>1. /\ Places(n) = 1 .. Width(n) /\ Width(n) \in Nat /\ node[n].at \in Nat
  BY Tree DEF IInv, StateOK, NodeOK, NodeSet
<1>2. \A i : i \in rest <=> i \in Places(n) /\ i > node[n].at
  BY <1>1
<1> HIDE DEF rest
<1>3. f = [k \in {Kid(n, i) : i \in rest} |-> Given(status, seen)]
  BY DEF Skipped, Kid, rest
<1> HIDE DEF f
<1> QED BY <1>2, <1>3 DEF SkipsRest, f

LEMMA MakesEnd ==
  ASSUME IInv, NEW n \in Nodes, entry.kind[n] # "parallel", Phase(n) \in {"run", "wait"},
         HeardSoFar(n),
         NEW s, Follows(n, s), s.at = node[n].at, s.phase \in {"sleep", "done"},
         NEW f, \A x \in DOMAIN f : /\ Fresh(f[x]) /\ f[x].phase = "done"
                                    /\ \E i \in Places(n) : i > node[n].at /\ x = Kid(n, i),
         UNCHANGED errors, Becomes(And(Only(n, s), f))
  PROVE  /\ Ends(n, DOMAIN f) /\ node'[n] = s
         /\ \A x \in DOMAIN f : node'[x] = f[x]
<1>1. StateOK /\ entry \in Entries
  BY DEF IInv, StateOK
<1>2. \A x \in DOMAIN f : x \in Nodes /\ x # n
  BY <1>1, Tree
<1>3. n \notin DOMAIN f
  BY <1>2
<1>4. /\ UNCHANGED <<entry, now, holds, changes>> /\ NodeMap'
      /\ node'[n] = s
      /\ \A m \in Nodes : m # n => node'[m] = IF m \in DOMAIN f THEN f[m] ELSE node[m]
  BY <1>1, <1>3, BothChange
<1>5. Still
  BY <1>1, <1>4 DEF Still, StateOK
<1>6. \A x \in DOMAIN f : node'[x] = f[x]
  BY <1>2, <1>4
<1> QED BY <1>4, <1>5, <1>6 DEF Ends, HeardSoFar

LEMMA FinishFollows ==
  ASSUME IInv, NEW n \in Nodes, NEW status \in Statuses
  PROVE  LET s == Finish(n, status) IN
         /\ Follows(n, s) /\ s.at = node[n].at /\ s.phase = "done" /\ s.status = status
<1>1. node[n] \in NodeSet /\ node[n].at <= Width(n)
  BY DEF IInv, NodeOK
<1> QED BY <1>1 DEF Finish, Follows, NodeSet

(* A sequence whose time is up leaves a child unchecked, and fails for it. *)
LEMMA SequenceExpiresOK ==
  ASSUME IInv, ~Done(1), NEW n \in Nodes, SequenceExpires(n)
  PROVE  IInv'
<1>1. /\ entry.kind[n] = "sequence" /\ Phase(n) = "run" /\ node[n].at < Width(n)
      /\ errors' = errors
  BY DEF SequenceExpires, At, Phase
<1>2. PICK s : s = Finish(n, "fail")
  OBVIOUS
<1>3. PICK f : f = Skipped(n, node[n].at, "fail", "exhausted")
  OBVIOUS
<1>4. Becomes(And(Only(n, s), f))
  BY <1>2, <1>3 DEF SequenceExpires
<1>5. Follows(n, s) /\ s.at = node[n].at /\ s.phase = "done" /\ s.status = "fail"
  BY <1>2, FinishFollows DEF Statuses
<1>6. /\ \A i \in Places(n) : i > node[n].at => Kid(n, i) \in DOMAIN f
      /\ \A x \in DOMAIN f : /\ f[x] = Given("fail", "exhausted")
                             /\ \E i \in Places(n) : i > node[n].at /\ x = Kid(n, i)
  <2>1. SkipsRest(n, f, Given("fail", "exhausted"))
    BY <1>3, SkippedKids
  <2> QED BY <2>1 DEF SkipsRest
<1>7. \A x \in DOMAIN f : Fresh(f[x]) /\ f[x].phase = "done" /\ f[x].seen = "exhausted"
  BY <1>6, FreshNodes
<1>8. HeardSoFar(n)
  BY <1>1, HeardAll DEF Waiting
<1>9. /\ Ends(n, DOMAIN f) /\ node'[n] = s
      /\ \A x \in DOMAIN f : node'[x] = f[x]
  BY <1>1, <1>4, <1>5, <1>6, <1>7, <1>8, MakesEnd
<1>10. (\E i \in Places(n) : node[Kid(n, i)].seen = "exhausted")'
  <2>1. node[n].at + 1 \in Places(n) /\ node[n].at + 1 > node[n].at
    BY <1>1, Tree DEF IInv, StateOK, NodeOK, NodeSet
  <2>2. Kid(n, node[n].at + 1) \in DOMAIN f
    BY <1>6, <2>1
  <2>3. node'[Kid(n, node[n].at + 1)].seen = "exhausted"
    BY <1>7, <1>9, <2>2
  <2>4. Places(n)' = Places(n) /\ \A i : Kid(n, i)' = Kid(n, i)
    BY <1>9 DEF Places, Kid, Ends, Still
  <2> QED BY <2>1, <2>3, <2>4
<1>11. Grounded(n)'
  BY <1>1, <1>5, <1>9, <1>10 DEF Grounded, Status, Ends, Still
<1> QED BY <1>9, <1>11, EndsStep

LEMMA SequenceProceedsOK ==
  ASSUME IInv, ~Done(1), NEW n \in Nodes, SequenceProceeds(n)
  PROVE  IInv'
<1>1. /\ entry.kind[n] = "sequence" /\ Phase(n) = "run" /\ errors' = errors
      /\ node[n] \in NodeSet /\ node[n].at <= Width(n) /\ node[n].at \in Nat
      /\ Width(n) \in Nat /\ StateOK /\ Places(n) = 1 .. Width(n)
  BY Tree DEF SequenceProceeds, At, Phase, IInv, NodeOK, NodeSet, StateOK
<1>2. CASE node[n].at = Width(n)
  <2>1. PICK s : s = Finish(n, "pass")
    OBVIOUS
  <2>2. Becomes(Only(n, s))
    BY <1>2, <2>1 DEF SequenceProceeds
  <2>3. Follows(n, s) /\ s.at = node[n].at /\ s.phase = "done" /\ s.status = "pass"
    BY <2>1, FinishFollows DEF Statuses
  <2>4. \A i \in Places(n) : Done(Kid(n, i)) /\ Status(Kid(n, i)) = "pass"
    <3>1. HeardSoFar(n) /\ PassedSoFar(n)
      BY <1>1, HeardAll DEF Waiting
    <3>2. \A i \in Places(n) : i <= node[n].at
      BY <1>1, <1>2
    <3> QED BY <3>1, <3>2 DEF HeardSoFar, PassedSoFar
  <2>5. /\ UNCHANGED <<entry, now, holds, changes>> /\ NodeMap'
        /\ node'[n] = s /\ \A m \in Nodes : m # n => node'[m] = node[m]
    BY <1>1, <2>2, OnlyChanges
  <2>6. Still
    BY <1>1, <2>5 DEF Still, StateOK
  <2>7. Ends(n, {})
    BY <1>1, <2>3, <2>4, <2>5, <2>6 DEF Ends
  <2>8. EveryKid(n, "pass")'
    BY <1>2, <2>4, <2>7, EndsGrounds
  <2>9. Grounded(n)'
    BY <1>1, <2>3, <2>5, <2>8, SMTT(30) DEF Grounded, Status
  <2> QED BY <2>7, <2>9, EndsStep
<1>3. CASE node[n].at # Width(n)
  <2>1. node[n].at < Width(n) /\ node[n].how \in Modes
    BY <1>1, <1>3 DEF NodeSet
  <2>2. Becomes(And(Only(n, [node[n] EXCEPT !.phase = "wait", !.at = @ + 1]),
                    Only(entry.kids[n][node[n].at + 1], Begun(node[n].how))))
    BY <1>3 DEF SequenceProceeds
  <2> QED BY <1>1, <2>1, <2>2, BeginsStep
<1> QED BY <1>2, <1>3

LEMMA SequenceHearsOK ==
  ASSUME IInv, ~Done(1), NEW n \in Nodes, SequenceHears(n)
  PROVE  IInv'
<1>1. /\ entry.kind[n] = "sequence" /\ Phase(n) = "wait" /\ Done(Child(n)) /\ errors' = errors
  BY DEF SequenceHears, At, Phase
<1>2. PICK status : status = Status(Child(n))
  OBVIOUS
<1>3. CASE status = "pass"
  BY <1>1, <1>2, <1>3, HearsStep DEF SequenceHears, Status
<1>4. CASE status # "pass"
  <2>1. node[n].at \in Places(n) /\ Child(n) = Kid(n, node[n].at) /\ node[n].at \in Nat
    BY <1>1, Tree DEF IInv, StateOK, NodeOK, NodeSet, Waiting, Child, Kid
  <2>2. status \in Statuses
    <3>1. Child(n) \in Nodes
      BY <2>1, Tree DEF IInv, StateOK
    <3> QED BY <1>2, <3>1 DEF IInv, NodeOK, NodeSet, Status
  <2>3. PICK s : s = Finish(n, status)
    OBVIOUS
  <2>4. PICK f : f = Skipped(n, node[n].at, status, "unseen")
    OBVIOUS
  <2>5. Becomes(And(Only(n, s), f))
    BY <1>2, <1>4, <2>3, <2>4 DEF SequenceHears, Status
  <2>6. Follows(n, s) /\ s.at = node[n].at /\ s.phase = "done" /\ s.status = status
    BY <2>2, <2>3, FinishFollows
  <2>7. \A x \in DOMAIN f : /\ f[x] = Given(status, "unseen")
                            /\ \E i \in Places(n) : i > node[n].at /\ x = Kid(n, i)
    <3>1. SkipsRest(n, f, Given(status, "unseen"))
      BY <2>4, SkippedKids
    <3> QED BY <3>1 DEF SkipsRest
  <2>8. \A x \in DOMAIN f : Fresh(f[x]) /\ f[x].phase = "done"
    BY <2>2, <2>7, FreshNodes
  <2>9. HeardSoFar(n)
    BY <1>1, HeardAll
  <2>10. Ends(n, DOMAIN f) /\ node'[n] = s
    BY <1>1, <2>5, <2>6, <2>7, <2>8, <2>9, MakesEnd
  <2>11. SomeKid(n, status)'
    BY <1>2, <2>1, <2>10, EndsGrounds
  <2>12. Grounded(n)'
    BY <1>1, <1>4, <2>6, <2>10, <2>11 DEF Grounded, Status, Ends, Still
  <2> QED BY <2>10, <2>12, EndsStep
<1> QED BY <1>3, <1>4

(* What a round has to go by: the statuses of the children it turned to,   *)
(* and an error for the rest.                                              *)
Evidence(n, statuses) ==
  /\ statuses \subseteq Statuses
  /\ "pass" \in statuses =>
       \E i \in Places(n) : i <= node[n].at /\ Status(Kid(n, i)) = "pass"
  /\ "pass" \notin statuses /\ "error" \notin statuses =>
       node[n].at = Width(n) /\ \A i \in Places(n) : Status(Kid(n, i)) = "fail"

LEMMA RoundGrounds ==
  ASSUME IInv, NEW n, NEW X, Ends(n, X), IsChoice(n), NEW statuses, Evidence(n, statuses),
         node'[n].status = RoundStatus(n, statuses)
  PROVE  Grounded(n)'
<1>1. entry.kind[n] \in {"any", "none"} /\ entry.kind[n]' = entry.kind[n]
  BY DEF IsChoice, Ends, Still
<1>2. "pass" \in statuses => SomeKid(n, "pass")'
  BY EndsGrounds DEF Evidence
<1>3. "pass" \notin statuses /\ "error" \notin statuses => EveryKid(n, "fail")'
  BY EndsGrounds DEF Evidence
<1>4. CASE entry.kind[n] = "any"
  BY <1>1, <1>2, <1>3, <1>4 DEF Grounded, Status, RoundStatus, Disjunction
<1>5. CASE entry.kind[n] = "none"
  BY <1>1, <1>2, <1>3, <1>5 DEF Grounded, Status, RoundStatus, NegatedDisjunction
<1> QED BY <1>1, <1>4, <1>5

(* A round that ends gives the group's result, or puts it to sleep. *)
LEMMA EndRoundOK ==
  ASSUME IInv, ~Done(1), NEW n \in Nodes, IsChoice(n), Phase(n) \in {"run", "wait"},
         HeardSoFar(n), NEW statuses, Evidence(n, statuses),
         NEW f, \A x \in DOMAIN f : /\ Fresh(f[x]) /\ f[x].phase = "done"
                                    /\ \E i \in Places(n) : i > node[n].at /\ x = Kid(n, i),
         UNCHANGED errors, EndRound(n, statuses, f)
  PROVE  IInv'
<1>1. PICK status : status = RoundStatus(n, statuses)
  OBVIOUS
<1>2. status \in Statuses /\ entry.kind[n] # "parallel" /\ now \in Nat /\ Deadline \in Nat
  BY <1>1, TreeAssumption
     DEF RoundStatus, Disjunction, NegatedDisjunction, Statuses, IsChoice, IInv, StateOK, Deadline
<1>3. CASE status = "pass" \/ node[n].how # "converge" \/ now >= Deadline
  <2>1. PICK s : s = Finish(n, status)
    OBVIOUS
  <2>2. Becomes(And(Only(n, s), f))
    BY <1>1, <1>3, <2>1 DEF EndRound
  <2>3. Follows(n, s) /\ s.at = node[n].at /\ s.phase = "done" /\ s.status = status
    BY <1>2, <2>1, FinishFollows
  <2>4. Ends(n, DOMAIN f) /\ node'[n] = s
    BY <1>2, <2>2, <2>3, MakesEnd
  <2>5. Grounded(n)'
    BY <1>1, <2>3, <2>4, RoundGrounds
  <2> QED BY <2>4, <2>5, EndsStep
<1>4. CASE ~(status = "pass" \/ node[n].how # "converge" \/ now >= Deadline)
  <2>1. PICK s : s = Asleep(n)
    OBVIOUS
  <2>2. Becomes(And(Only(n, s), f))
    BY <1>1, <1>4, <2>1 DEF EndRound
  <2>3. now < Deadline
    BY <1>2, <1>4
  <2>4. /\ s \in NodeSet /\ s.phase = "sleep" /\ s.at = node[n].at /\ s.seen = node[n].seen
    BY <2>1, <2>3, AsleepType
  <2>5. Follows(n, s)
    BY <2>4 DEF Follows, IInv, NodeOK
  <2>6. Ends(n, DOMAIN f) /\ node'[n] = s
    BY <1>2, <2>2, <2>4, <2>5, MakesEnd
  <2>7. ~Done(n)'
    BY <2>4, <2>6 DEF Done
  <2> QED BY <2>6, <2>7, EndsStep
<1> QED BY <1>3, <1>4

LEMMA StatusType ==
  ASSUME IInv, NEW n \in Nodes, NEW i \in Places(n) PROVE Status(Kid(n, i)) \in Statuses
<1>1. Kid(n, i) \in Nodes
  BY Tree DEF IInv, StateOK
<1> QED BY <1>1 DEF IInv, NodeOK, NodeSet, Status

LEMMA RoundRunsOutOK ==
  ASSUME IInv, ~Done(1), NEW n \in Nodes, RoundRunsOut(n)
  PROVE  IInv'
<1>1. /\ IsChoice(n) /\ Phase(n) = "run" /\ entry.kind[n] # "parallel" /\ errors' = errors
      /\ Places(n) = 1 .. Width(n) /\ Width(n) \in Nat /\ node[n].at \in 0 .. Width(n)
  BY Tree DEF RoundRunsOut, Phase, IsChoice, IInv, StateOK, NodeOK, NodeSet
<1>2. PICK f : f = Skipped(n, node[n].at, "error", "unseen")
  OBVIOUS
<1>3. PICK statuses : statuses = {node[entry.kids[n][i]].status : i \in 1 .. node[n].at}
                                 \cup {f[k].status : k \in DOMAIN f}
  OBVIOUS
<1>4. EndRound(n, statuses, f)
  BY <1>2, <1>3 DEF RoundRunsOut
<1>5. /\ \A i \in Places(n) : i > node[n].at => Kid(n, i) \in DOMAIN f
      /\ \A x \in DOMAIN f : /\ f[x] = Given("error", "unseen")
                             /\ \E i \in Places(n) : i > node[n].at /\ x = Kid(n, i)
  <2>1. SkipsRest(n, f, Given("error", "unseen"))
    BY <1>2, SkippedKids
  <2> QED BY <2>1 DEF SkipsRest
<1>6. \A x \in DOMAIN f : Fresh(f[x]) /\ f[x].phase = "done" /\ f[x].status = "error"
  BY <1>5, FreshNodes DEF Statuses
<1>7. HeardSoFar(n)
  BY <1>1, HeardAll DEF Waiting
<1>8. \A i \in 1 .. node[n].at : i \in Places(n) /\ i <= node[n].at
  BY <1>1
<1>9. \A s : s \in statuses <=>
        \/ \E i \in 1 .. node[n].at : s = Status(Kid(n, i))
        \/ s = "error" /\ DOMAIN f # {}
  BY <1>3, <1>6 DEF Status, Kid
<1>10. Evidence(n, statuses)
  <2>1. statuses \subseteq Statuses
    BY <1>8, <1>9, StatusType DEF Statuses
  <2>2. "pass" \in statuses =>
          \E i \in Places(n) : i <= node[n].at /\ Status(Kid(n, i)) = "pass"
    BY <1>8, <1>9
  <2>3. ASSUME "pass" \notin statuses, "error" \notin statuses
        PROVE  node[n].at = Width(n) /\ \A i \in Places(n) : Status(Kid(n, i)) = "fail"
    <3>1. DOMAIN f = {}
      BY <1>9, <2>3
    <3>2. \A i \in Places(n) : i <= node[n].at
      BY <1>1, <1>5, <3>1
    <3>3. node[n].at = Width(n)
      BY <1>1, <3>2
    <3>4. \A i \in Places(n) : Status(Kid(n, i)) \in statuses
      BY <1>1, <1>9, <3>3
    <3> QED BY <2>1, <2>3, <3>3, <3>4 DEF Statuses
  <2> QED BY <2>1, <2>2, <2>3 DEF Evidence
<1> QED BY <1>1, <1>4, <1>5, <1>6, <1>7, <1>10, EndRoundOK

LEMMA ChoiceHearsOK ==
  ASSUME IInv, ~Done(1), NEW n \in Nodes, ChoiceHears(n)
  PROVE  IInv'
<1>1. /\ IsChoice(n) /\ Phase(n) = "wait" /\ Done(Child(n)) /\ errors' = errors
      /\ entry.kind[n] # "parallel" /\ entry.kind[n] # "sequence"
  BY DEF ChoiceHears, Phase, IsChoice
<1>2. CASE Status(Child(n)) = "pass"
  <2>1. PICK f : f = [k \in {} |-> Idle]
    OBVIOUS
  <2>2. PICK statuses : statuses = {node[entry.kids[n][i]].status : i \in 1 .. node[n].at}
    OBVIOUS
  <2>3. EndRound(n, statuses, f)
    BY <1>2, <2>1, <2>2 DEF ChoiceHears, Status
  <2>4. DOMAIN f = {}
    BY <2>1
  <2>5. HeardSoFar(n)
    BY <1>1, HeardAll
  <2>6. /\ Places(n) = 1 .. Width(n) /\ node[n].at \in Places(n) /\ node[n].at \in Nat
        /\ \A i \in 1 .. node[n].at : i \in Places(n)
    BY <1>1, Tree DEF IInv, StateOK, NodeOK, NodeSet, Waiting
  <2>7. \A s : s \in statuses <=> \E i \in 1 .. node[n].at : s = Status(Kid(n, i))
    BY <2>2 DEF Status, Kid
  <2>8. Status(Kid(n, node[n].at)) = "pass" /\ node[n].at \in 1 .. node[n].at
    BY <1>2, <2>6 DEF Child, Kid
  <2>9. Evidence(n, statuses)
    <3>1. statuses \subseteq Statuses
      BY <2>6, <2>7, StatusType
    <3>2. "pass" \in statuses
      BY <2>7, <2>8
    <3>3. \E i \in Places(n) : i <= node[n].at /\ Status(Kid(n, i)) = "pass"
      BY <2>6, <2>8
    <3> QED BY <3>1, <3>2, <3>3 DEF Evidence
  <2> QED BY <1>1, <2>3, <2>4, <2>5, <2>9, EndRoundOK
<1>3. CASE Status(Child(n)) # "pass"
  <2>1. Becomes(Only(n, [node[n] EXCEPT !.phase = "run"]))
    BY <1>3 DEF ChoiceHears, Status
  <2> QED BY <1>1, <2>1, HearsStep
<1> QED BY <1>2, <1>3

LEMMA ChoiceProceedsOK ==
  ASSUME IInv, ~Done(1), NEW n \in Nodes, ChoiceProceeds(n)
  PROVE  IInv'
<1>1. /\ entry.kind[n] # "parallel" /\ Phase(n) = "run" /\ node[n].at < Width(n)
      /\ UNCHANGED errors
      /\ Becomes(And(Only(n, [node[n] EXCEPT !.phase = "wait", !.at = @ + 1]),
                     Only(entry.kids[n][node[n].at + 1], Begun(RoundMode(n)))))
  BY DEF ChoiceProceeds, IsChoice, Phase
<1>2. RoundMode(n) \in Modes
  BY DEF RoundMode, Modes
<1> QED BY <1>1, <1>2, BeginsStep

(* A new round puts everything below the group back. *)
LEMMA NextRoundOK ==
  ASSUME IInv, ~Done(1), NEW n \in Nodes, NextRound(n)
  PROVE  IInv'
<1> DEFINE s == [node[n] EXCEPT !.phase = "run", !.at = 0]
<1>1. /\ entry.kind[n] # "parallel" /\ Phase(n) = "sleep" /\ Active(n) /\ errors' = errors
      /\ entry \in Entries /\ StateOK /\ node[n] \in NodeSet /\ Width(n) \in Nat
  BY Tree DEF NextRound, IsChoice, Phase, Active, IInv, StateOK, NodeOK
<1>2. PICK X : X = Below[n]
  OBVIOUS
<1>3. /\ \A x \in X : x \in Nodes /\ x > n
      /\ \A i \in Places(n) : Kid(n, i) \in X
      /\ \A x \in X : \A i \in Places(x) : Kid(x, i) \in X
      /\ \A m \in Nodes : \A i \in Places(m) : Kid(m, i) \in X => m = n \/ m \in X
  BY <1>1, <1>2, BelowFacts
<1>4. PICK f : f = [k \in X |-> Idle]
  OBVIOUS
<1>5. s \in NodeSet /\ s.at = 0 /\ s.phase = "run" /\ s.seen = node[n].seen
  BY <1>1 DEF NodeSet
<1> HIDE DEF s
<1>6. /\ UNCHANGED <<entry, now, holds, changes>> /\ NodeMap'
      /\ node'[n] = s
      /\ \A m \in Nodes : m # n => node'[m] = IF m \in DOMAIN f THEN f[m] ELSE node[m]
  <2>1. Becomes(And(Only(n, s), f))
    BY <1>2, <1>4 DEF NextRound, s
  <2>2. n \notin DOMAIN f
    <3>1. n \in Nat
      BY <1>1, Tree
    <3> QED BY <1>3, <1>4, <3>1
  <2> QED BY <1>1, <2>1, <2>2, BothChange
<1>7. \A x \in X : node'[x] = Idle
  <2>1. n \notin X
    <3>1. n \in Nat
      BY <1>1, Tree
    <3> QED BY <1>3, <3>1
  <2> QED BY <1>3, <1>4, <1>6, <2>1
<1>8. \A m \in Nodes : m # n /\ m \notin X => node'[m] = node[m]
  BY <1>4, <1>6
<1>9. Still /\ Touches(n, X)
  BY <1>1, <1>3, <1>6, <1>8 DEF Still, Touches, StateOK
<1>10. Follows(n, s)
  BY <1>1, <1>5 DEF Follows
<1>11. NodeOK(n)' /\ Phase(n)' # "idle" /\ ~Done(n)'
  BY <1>1, <1>5, <1>6, <1>10, FollowsOK DEF Done
<1>12. \A m, i : Kid(m, i)' = Kid(m, i)
  BY <1>6 DEF Kid
<1>13. \A x \in X : Phase(x)' = "idle"
  BY <1>7 DEF Phase, Idle
<1>14. ASSUME NEW i \in Places(n) PROVE LinkOK(n, i)'
  <2>1. Phase(Kid(n, i))' = "idle"
    BY <1>3, <1>7, <1>12 DEF Phase, Idle
  <2>2. node'[n].at = 0
    BY <1>5, <1>6
  <2> QED BY <1>1, <1>6, <2>1, <2>2, FreshLink
<1>15. ASSUME NEW x \in X
       PROVE  /\ NodeOK(x)' /\ node'[x].at = 0
              /\ \A i \in Places(x) : Phase(Kid(x, i))' = "idle"
  <2>1. x \in Nodes /\ Fresh(node'[x])
    BY <1>3, <1>7, FreshNodes
  <2>2. \A i \in Places(x) : Phase(Kid(x, i))' = "idle"
    BY <1>3, <1>7, <1>12 DEF Phase, Idle
  <2> QED BY <1>1, <1>6, <2>1, <2>2, FreshOK
<1> QED BY <1>9, <1>11, <1>14, <1>15, StepKeeps

-----------------------------------------------------------------------------
(* Groups that take all children at once. *)
LEMMA ParallelBeginsOK ==
  ASSUME IInv, ~Done(1), NEW n \in Nodes, ParallelBegins(n)
  PROVE  IInv'
<1> DEFINE due == now + (IF Wait(n) < 0 THEN 0 ELSE Wait(n))
           s == [node[n] EXCEPT !.phase = "wait", !.due = due]
<1>1. /\ entry.kind[n] = "parallel" /\ Phase(n) = "run" /\ Active(n) /\ errors' = errors
      /\ entry \in Entries /\ StateOK /\ node[n] \in NodeSet /\ node[n].at <= Width(n)
  BY DEF ParallelBegins, At, Phase, Active, IInv, StateOK, NodeOK
<1>2. due \in Nat
  <2>1. now \in Nat /\ Deadline \in Nat /\ Grace \in Nat /\ Ceiling \in Nat
    BY <1>1, TreeAssumption DEF StateOK, Deadline
  <2>2. Wait(n) \in Int
    BY <2>1 DEF Wait, Least
  <2> QED BY <2>1, <2>2
<1>3. s \in NodeSet /\ s.at = node[n].at /\ s.phase = "wait" /\ s.seen = node[n].seen
  BY <1>1, <1>2 DEF NodeSet
<1> HIDE DEF due
<1>4. PICK how : how = node[n].how
  OBVIOUS
<1>5. PICK f : f = [k \in Kids(n) |-> Begun(how)]
  OBVIOUS
<1>6. PICK X : X = Kids(n)
  OBVIOUS
<1>7. /\ \A x \in X : x \in Nodes /\ x # n /\ \E i \in Places(n) : x = Kid(n, i)
      /\ \A i \in Places(n) : Kid(n, i) \in X
  <2>1. Nodes \subseteq Nat
    BY <1>1, Tree
  <2>2. /\ Kids(n) = {Kid(n, i) : i \in Places(n)}
        /\ \A i \in Places(n) : Kid(n, i) \in Nodes /\ Kid(n, i) > n
    BY <1>1, Tree
  <2> QED BY <1>6, <2>1, <2>2
<1>8. Becomes(And(Only(n, s), f))
  BY <1>4, <1>5 DEF ParallelBegins, due
<1> HIDE DEF s
<1>9. /\ UNCHANGED <<entry, now, holds, changes>> /\ NodeMap'
      /\ node'[n] = s
      /\ \A m \in Nodes : m # n => node'[m] = IF m \in DOMAIN f THEN f[m] ELSE node[m]
  <2>1. n \notin DOMAIN f
    BY <1>5, <1>6, <1>7
  <2> QED BY <1>1, <1>8, <2>1, BothChange
<1>10. /\ \A x \in X : node'[x] = Begun(how)
       /\ \A m \in Nodes : m # n /\ m \notin X => node'[m] = node[m]
  BY <1>5, <1>6, <1>7, <1>9
<1>11. how \in Modes
  BY <1>1, <1>4 DEF NodeSet
<1>12. \A x \in X : Fresh(node'[x]) /\ node'[x].phase = "run"
  BY <1>10, <1>11, FreshNodes
<1>13. \A x \in X : Phase(x) = "idle"
  BY <1>1, <1>7 DEF IInv, LinkOK, NotBegun
<1>14. Still /\ Follows(n, node'[n]) /\ ~Done(n)'
  BY <1>1, <1>3, <1>9 DEF Still, StateOK, Follows, Done
<1>15. ASSUME NEW i \in Places(n) PROVE LinkOK(n, i)'
  <2>1. PICK k : k = Kid(n, i)
    OBVIOUS
  <2>2. Kid(n, i)' = k /\ node'[k].phase = "run"
    BY <1>7, <1>9, <1>12, <2>1 DEF Kid
  <2> QED BY <1>1, <1>3, <1>9, <2>2
          DEF LinkOK, Active, Waiting, NotBegun, Heard, LookedAt, Phase, Done
<1>16. \A x \in X : Phase(x) = "idle" /\ \E i \in Places(n) : x = Kid(n, i)
  BY <1>7, <1>13
<1>17. Done(n)' => Grounded(n)'
  BY <1>14
<1> QED BY <1>1, <1>9, <1>10, <1>12, <1>14, <1>15, <1>16, <1>17, GroupStep

(* The children that were not heard in time, and all below them, lead to   *)
(* nothing the group or its other children rest on. *)
LEMMA LateKids ==
  ASSUME entry \in Entries, NEW n \in Nodes, NEW late, late \subseteq Kids(n),
         NEW X, \A x : x \in X <=> x \in late \/ \E k \in late : x \in Below[k]
  PROVE  /\ \A x \in X : x \in Nodes /\ x > n
         /\ \A m \in Nodes : \A i \in Places(m) : Kid(m, i) \in X => m = n \/ m \in X
         /\ \A i \in Places(n) : Kid(n, i) \in X => Kid(n, i) \in late
         /\ \A x \in X : \A i \in Places(x) : Kid(x, i) \in X /\ Kid(x, i) \notin late
<1>1. /\ Nodes \subseteq Nat
      /\ \A k \in late : k \in Nodes /\ k > n /\ \E i \in Places(n) : k = Kid(n, i)
      /\ \A m \in Nodes : \A i \in Places(m) : Kid(m, i) \in late => m = n
  <2>1. /\ Kids(n) = {Kid(n, i) : i \in Places(n)}
        /\ \A i \in Places(n) : Kid(n, i) \in Nodes /\ Kid(n, i) > n
        /\ \A m \in Nodes : \A i \in Places(n), j \in Places(m) : Kid(n, i) = Kid(m, j) => n = m
    BY Tree
  <2>2. \A k \in late : \E i \in Places(n) : k = Kid(n, i)
    BY <2>1
  <2>3. Nodes \subseteq Nat
    BY Tree
  <2> QED BY <2>1, <2>2, <2>3
<1>2. \A k \in late :
        /\ \A x \in Below[k] : x \in Nodes /\ x > k
        /\ \A i \in Places(k) : Kid(k, i) \in Below[k]
        /\ \A x \in Below[k] : \A i \in Places(x) : Kid(x, i) \in Below[k]
        /\ \A m \in Nodes : \A i \in Places(m) : Kid(m, i) \in Below[k] => m = k \/ m \in Below[k]
  BY <1>1, BelowFacts
<1>3. \A x : x \in X <=> x \in late \/ \E k \in late : x \in Below[k]
  OBVIOUS
<1>4. \A x \in X : x \in Nodes /\ x > n
  <2>1. TAKE x \in X
  <2>2. CASE x \in late
    BY <1>1, <2>2
  <2>3. CASE \E k \in late : x \in Below[k]
    <3>1. PICK k \in late : x \in Below[k]
      BY <2>3
    <3>2. x \in Nodes /\ x > k /\ k > n /\ k \in Nodes
      BY <1>1, <1>2, <3>1
    <3> QED BY <1>1, <3>2
  <2> QED BY <1>3, <2>2, <2>3
<1>5. \A m \in Nodes : \A i \in Places(m) : Kid(m, i) \in X => m = n \/ m \in X
  BY <1>1, <1>2, <1>3
<1>6. ASSUME NEW i \in Places(n), Kid(n, i) \in X PROVE Kid(n, i) \in late
  <2>1. SUFFICES ASSUME NEW k \in late, Kid(n, i) \in Below[k] PROVE FALSE
    BY <1>3, <1>6
  <2>2. n = k \/ n \in Below[k]
    BY <1>2, <2>1
  <2>3. k > n /\ (n \in Below[k] => n > k) /\ n \in Nat /\ k \in Nat
    BY <1>1, <1>2, <2>1
  <2> QED BY <2>2, <2>3
<1>7. ASSUME NEW x \in X, NEW i \in Places(x) PROVE Kid(x, i) \in X /\ Kid(x, i) \notin late
  <2>1. Kid(x, i) \in X
    BY <1>2, <1>3
  <2>2. x \in Nodes /\ x > n /\ n \in Nat
    BY <1>1, <1>4
  <2>3. Kid(x, i) \notin late
    BY <1>1, <2>2
  <2> QED BY <2>1, <2>3
<1> QED BY <1>4, <1>5, <1>6, <1>7

LEMMA ParallelCollectsOK ==
  ASSUME IInv, ~Done(1), NEW n \in Nodes, ParallelCollects(n)
  PROVE  IInv'
<1>1. /\ entry.kind[n] = "parallel" /\ Phase(n) = "wait" /\ Active(n) /\ errors' = errors
      /\ entry \in Entries /\ StateOK
  BY DEF ParallelCollects, At, Phase, Active, IInv, StateOK
<1>2. PICK late : late = {k \in Kids(n) : ~Done(k)}
  OBVIOUS
<1>3. PICK X : X = late \cup UNION {Below[k] : k \in late}
  OBVIOUS
<1>4. PICK f : f = [k \in X |-> IF k \in late THEN Given("error", "unseen") ELSE Idle]
  OBVIOUS
<1>5. PICK statuses : statuses = {IF k \in late THEN "error" ELSE node[k].status : k \in Kids(n)}
  OBVIOUS
<1>6. PICK s : s = Finish(n, Conjunction(statuses))
  OBVIOUS
<1>7. Becomes(And(Only(n, s), f))
  BY <1>2, <1>3, <1>4, <1>5, <1>6 DEF ParallelCollects
<1>8. /\ \A x \in X : x \in Nodes /\ x > n
      /\ \A m \in Nodes : \A i \in Places(m) : Kid(m, i) \in X => m = n \/ m \in X
      /\ \A i \in Places(n) : Kid(n, i) \in X => Kid(n, i) \in late
      /\ \A x \in X : \A i \in Places(x) : Kid(x, i) \in X /\ Kid(x, i) \notin late
  <2>1. late \subseteq Kids(n)
    BY <1>2
  <2>2. \A x : x \in X <=> x \in late \/ \E k \in late : x \in Below[k]
    BY <1>3
  <2> QED BY <1>1, <2>1, <2>2, LateKids
<1>9. n \notin X
  <2>1. n \in Nat
    BY <1>1, Tree
  <2> QED BY <1>8, <2>1
<1>10. /\ UNCHANGED <<entry, now, holds, changes>> /\ NodeMap'
       /\ node'[n] = s
       /\ \A m \in Nodes : m # n => node'[m] = IF m \in DOMAIN f THEN f[m] ELSE node[m]
  <2>1. n \notin DOMAIN f
    BY <1>4, <1>9
  <2> QED BY <1>1, <1>7, <2>1, BothChange
<1>11. /\ \A x \in X : node'[x] = IF x \in late THEN Given("error", "unseen") ELSE Idle
       /\ \A m \in Nodes : m # n /\ m \notin X => node'[m] = node[m]
  BY <1>4, <1>8, <1>9, <1>10
<1>12. Still /\ Touches(n, X) /\ entry' = entry
  BY <1>1, <1>8, <1>10, <1>11 DEF Still, StateOK, Touches
<1>13. \A i \in Places(n) : Kid(n, i) \in Nodes /\ Kid(n, i) \in Kids(n) /\ LinkOK(n, i)
  <2>1. /\ Kids(n) = {Kid(n, i) : i \in Places(n)}
        /\ \A i \in Places(n) : Kid(n, i) \in Nodes
    BY <1>1, Tree
  <2> QED BY <2>1 DEF IInv
<1>14. /\ statuses \subseteq Statuses
       /\ \A i \in Places(n) : (IF Kid(n, i) \in late THEN "error" ELSE Status(Kid(n, i))) \in statuses
       /\ "fail" \in statuses => \E i \in Places(n) : Kid(n, i) \notin late /\ Status(Kid(n, i)) = "fail"
  <2>1. \A t : t \in statuses <=>
          \E i \in Places(n) : t = IF Kid(n, i) \in late THEN "error" ELSE Status(Kid(n, i))
    <3>1. Kids(n) = {Kid(n, i) : i \in Places(n)}
      BY <1>1, Tree
    <3> QED BY <1>5, <3>1 DEF Status
  <2>2. \A i \in Places(n) : Status(Kid(n, i)) \in Statuses
    BY StatusType
  <2> QED BY <2>1, <2>2 DEF Statuses
<1>15. Follows(n, s) /\ s.phase = "done" /\ s.status = Conjunction(statuses)
  <2>1. Conjunction(statuses) \in Statuses
    BY DEF Conjunction, Statuses
  <2> QED BY <1>6, <2>1, FinishFollows
<1>16. NodeOK(n)' /\ Phase(n)' # "idle"
  BY <1>1, <1>10, <1>12, <1>15, FollowsOK
<1>17. ASSUME NEW i \in Places(n), Kid(n, i) \notin late
       PROVE  /\ node'[Kid(n, i)] = node[Kid(n, i)] /\ Done(Kid(n, i)) /\ Grounded(Kid(n, i))'
              /\ Kid(n, i)' = Kid(n, i)
  <2>1. Kid(n, i) \in Nodes /\ Kid(n, i) \notin X /\ Kid(n, i) # n
    <3>1. Kid(n, i) \in Nodes /\ Kid(n, i) > n /\ Nodes \subseteq Nat
      BY <1>1, Tree
    <3> QED BY <1>8, <1>17, <3>1
  <2>2. Done(Kid(n, i))
    BY <1>2, <1>13, <1>17
  <2>3. Grounded(Kid(n, i))
    BY <1>1, <1>13, <2>2 DEF LinkOK, LookedAt
  <2>4. PICK k : k = Kid(n, i)
    OBVIOUS
  <2>5. Grounded(k)'
    BY <1>12, <2>1, <2>2, <2>3, <2>4, DoneStays
  <2>6. Kid(n, i)' = k
    BY <1>12, <2>4 DEF Kid
  <2> QED BY <1>11, <2>1, <2>2, <2>4, <2>5, <2>6
<1>18. ASSUME NEW i \in Places(n), Kid(n, i) \in late
       PROVE  node'[Kid(n, i)] = Given("error", "unseen") /\ Kid(n, i)' = Kid(n, i)
  BY <1>3, <1>11, <1>12, <1>18 DEF Kid
<1>19. ASSUME NEW i \in Places(n) PROVE LinkOK(n, i)'
  <2>1. PICK k : k = Kid(n, i)
    OBVIOUS
  <2>2. ~NotBegun(n, i)' /\ ~Heard(n, i)'
    BY <1>1, <1>10, <1>15 DEF NotBegun, Heard, Waiting, Phase
  <2>3. CASE k \in late
    <3>1. node'[k] = Given("error", "unseen") /\ Kid(n, i)' = k
      BY <1>18, <2>1, <2>3
    <3>2. node'[k].phase = "done" /\ node'[k].status = "error"
      BY <3>1, FreshNodes DEF Statuses
    <3>3. Grounded(k)'
      BY <3>2 DEF Grounded, Status
    <3> QED BY <2>2, <3>1, <3>2, <3>3 DEF LinkOK, Active, Phase
  <2>4. CASE k \notin late
    <3>1. node'[k] = node[k] /\ Done(k) /\ Grounded(k)' /\ Kid(n, i)' = k
      BY <1>17, <2>1, <2>4
    <3> QED BY <2>2, <3>1 DEF LinkOK, Active, Phase, Done
  <2> QED BY <2>3, <2>4
<1>20. Grounded(n)'
  <2>1. /\ entry.kind[n]' = "parallel" /\ Places(n)' = Places(n)
        /\ \A i \in Places(n) : LookedAt(n, i)'
    BY <1>1, <1>10, <1>12, <1>15 DEF Places, LookedAt, Phase
  <2>2. \A i \in Places(n) : \A status : Kid(n, i) \notin late /\ Status(Kid(n, i)) = status =>
          KidDid(n, i, status)'
    BY <1>17 DEF KidDid, Done, Status
  <2>3. ASSUME Conjunction(statuses) = "pass" PROVE EveryKid(n, "pass")'
    <3>1. "fail" \notin statuses /\ "error" \notin statuses
      BY <2>3 DEF Conjunction
    <3>2. \A i \in Places(n) : Kid(n, i) \notin late /\ Status(Kid(n, i)) = "pass"
      BY <1>14, <3>1 DEF Statuses
    <3> QED BY <2>1, <2>2, <3>2 DEF EveryKid
  <2>4. ASSUME Conjunction(statuses) = "fail" PROVE SomeKid(n, "fail")'
    <3>1. "fail" \in statuses
      BY <2>4 DEF Conjunction
    <3>2. \E i \in Places(n) : Kid(n, i) \notin late /\ Status(Kid(n, i)) = "fail"
      BY <1>14, <3>1
    <3> QED BY <2>1, <2>2, <3>2 DEF SomeKid
  <2>5. Status(n)' = Conjunction(statuses)
    BY <1>10, <1>15 DEF Status
  <2> QED BY <2>1, <2>3, <2>4, <2>5 DEF Grounded
<1>21. ASSUME NEW x \in X
       PROVE  /\ NodeOK(x)' /\ node'[x].at = 0
              /\ \A i \in Places(x) : Phase(Kid(x, i))' = "idle"
  <2>1. x \in Nodes /\ Fresh(node'[x])
    BY <1>8, <1>11, FreshNodes DEF Statuses
  <2>2. NodeOK(x)' /\ node'[x].at = 0
    BY <1>1, <1>12, <2>1, FreshOK
  <2>3. \A i \in Places(x) : Kid(x, i)' = Kid(x, i) /\ node'[Kid(x, i)] = Idle
    BY <1>8, <1>11, <1>12 DEF Kid
  <2> QED BY <2>2, <2>3 DEF Phase, Idle
<1> QED BY <1>12, <1>16, <1>19, <1>20, <1>21, StepKeeps

-----------------------------------------------------------------------------
(* The invariant, and what it says. *)
LEMMA StepOK ==
  ASSUME IInv, ~Done(1), NEW n \in Nodes, Step(n) PROVE IInv'
BY LeafSteps, SequenceExpiresOK, SequenceProceedsOK, SequenceHearsOK, ChoiceProceedsOK,
   RoundRunsOutOK, ChoiceHearsOK, NextRoundOK, ParallelBeginsOK, ParallelCollectsOK DEF Step

LEMMA InitInv == Init => IInv
<1> SUFFICES ASSUME Init PROVE IInv
  OBVIOUS
<1>1. entry \in Entries /\ NodeMap
  BY DEF Init, NodeMap
<1>2. StateOK
  BY <1>1, TreeAssumption DEF Init, StateOK
<1>3. \A n \in Nodes : node[n] = IF n = 1 THEN Begun(IF entry.mode = "converge"
                                                   THEN "converge" ELSE "single") ELSE Idle
  BY DEF Init
<1>4. /\ \A n \in Nodes : Fresh(node[n]) /\ node[n].phase = IF n = 1 THEN "run" ELSE "idle"
      /\ 1 \in Nodes
  BY <1>1, <1>3, FreshNodes, Tree DEF Modes, Idle
<1>5. ASSUME NEW n \in Nodes PROVE NodeOK(n)
  <2>1. Width(n) \in Nat
    BY <1>1, Tree
  <2> QED BY <1>4, <2>1 DEF Fresh, NodeOK, Phase, Status, Waiting
<1>6. ASSUME NEW n \in Nodes, NEW i \in Places(n) PROVE LinkOK(n, i)
  <2>1. Kid(n, i) \in Nodes /\ Kid(n, i) > n /\ n \in Nat /\ n >= 1 /\ i \in Nat /\ i > 0
    BY <1>1, Tree
  <2>2. Phase(Kid(n, i)) = "idle" /\ node[n].at = 0
    <3>1. PICK k : k = Kid(n, i)
      OBVIOUS
    <3>2. k \in Nodes /\ k # 1
      BY <2>1, <3>1
    <3> QED BY <1>4, <3>1, <3>2 DEF Phase, Fresh
  <2> QED BY <2>1, <2>2 DEF LinkOK, Active, Heard, Done, Phase
<1> QED BY <1>2, <1>4, <1>5, <1>6 DEF IInv, Phase, Done

LEMMA NextInv == IInv /\ [Next]_vars => IInv'
<1> SUFFICES ASSUME IInv, [Next]_vars PROVE IInv'
  OBVIOUS
<1>1. ASSUME NEW n \in Nodes, ~Done(1), Step(n) PROVE IInv'
  BY <1>1, StepOK
<1>2. ASSUME entry' = entry, node' = node, StateOK' PROVE IInv'
  <2>1. Nodes' = Nodes /\ \A n : Places(n)' = Places(n)
    BY <1>2 DEF Nodes, Places
  <2>2. \A n \in Nodes : NodeOK(n)'
    BY <1>2 DEF IInv, NodeOK, Phase, Status, Waiting, Width
  <2>3. \A n, i : Kid(n, i)' = Kid(n, i) /\ LookedAt(n, i)' = LookedAt(n, i)
    BY <1>2 DEF Kid, LookedAt, Phase
  <2>4. \A n : Grounded(n)' = Grounded(n)
    BY <1>2, <2>1, <2>3 DEF Grounded, EveryKid, SomeKid, KidDid, Status, Done, Kid, Places,
                            LookedAt, Phase
  <2>5. \A n \in Nodes : \A i \in Places(n) : LinkOK(n, i)'
    BY <1>2, <2>4 DEF IInv, LinkOK, Active, Waiting, NotBegun, Heard, LookedAt, Phase, Done,
                      Status, Kid
  <2> QED BY <1>2, <2>1, <2>2, <2>4, <2>5 DEF IInv, Phase, Done
<1>3. CASE Tick
  <2>1. StateOK'
    BY <1>3 DEF Tick, IInv, StateOK, Nodes, Leaves, NodeMap
  <2> QED BY <1>2, <1>3, <2>1 DEF Tick
<1>4. ASSUME NEW n \in Leaves, Change(n) PROVE IInv'
  <2>1. StateOK'
    BY <1>4, TreeAssumption, SMTT(30) DEF Change, IInv, StateOK, Nodes, Leaves, NodeMap
  <2> QED BY <1>2, <1>4, <2>1 DEF Change
<1>5. CASE Evaluated \/ UNCHANGED vars
  <2>1. StateOK'
    BY <1>5 DEF Evaluated, vars, IInv, StateOK, Nodes, Leaves, NodeMap
  <2> QED BY <1>2, <1>5, <2>1 DEF Evaluated, vars
<1> QED BY <1>1, <1>3, <1>4, <1>5 DEF Next

(* The children of every group are in step with it, whatever the tree and  *)
(* whenever calls answer: what a group has heard of is done, what it has   *)
(* not turned to is idle, one child runs at a time but under a parallel    *)
(* group, and a status that counts has a reason (runner.py's dispatch).    *)
THEOREM Invariance == Spec => []IInv
<1>1. Init => IInv
  BY InitInv
<1>2. IInv /\ [Next]_vars => IInv'
  BY NextInv
<1> QED BY <1>1, <1>2, PTL DEF Spec

(* No evaluation of any tree leaves its types: in particular, no group     *)
(* turns to more children than it has (runner.py, _run_sequence, _run_any  *)
(* and _run_none).                                                         *)
THEOREM TypeCorrect == Spec => []TypeOK
<1>1. IInv => TypeOK
  <2> SUFFICES ASSUME IInv PROVE TypeOK
    OBVIOUS
  <2>1. \A n \in Nodes : node[n] \in NodeSet /\ node[n].at <= Width(n)
    BY DEF IInv, NodeOK
  <2>2. node \in [Nodes -> NodeSet]
    <3>1. node = [n \in Nodes |-> node[n]]
      BY DEF IInv, StateOK, NodeMap
    <3> QED BY <2>1, <3>1
  <2> QED BY <2>1, <2>2 DEF IInv, StateOK, TypeOK, NodeSet
<1> QED BY <1>1, Invariance, PTL

(* A verdict of pass or fail follows, in Kleene's logic, from what the     *)
(* evaluation observed of the leaves last, for any tree, timing, number of *)
(* changes to the cluster and of calls that fail: no skipped, repeated or  *)
(* abandoned child makes one up (runner.py, run_entry).                    *)
THEOREM VerdictsAreJustified == Spec => []VerdictIsJustified
BY Invariance, VerdictFollows, PTL

-----------------------------------------------------------------------------
(* How long a pass takes at most: the costs are defined for every tree.    *)
LEMMA UpTo ==
  ASSUME NEW N \in Nat, NEW S, 0 \in S, \A i \in 1 .. N : i - 1 \in S => i \in S
  PROVE  0 .. N \subseteq S
<1> DEFINE Bad == (0 .. N) \ S
<1> SUFFICES ASSUME Bad # {} PROVE FALSE
  OBVIOUS
<1>1. PICK m \in Bad : \A k \in Bad : m <= k
  <2>1. Bad \in SUBSET Nat
    OBVIOUS
  <2> HIDE DEF Bad
  <2> QED BY <2>1, LeastNumber
<1>2. m # 0 /\ m \in 1 .. N /\ m - 1 \in 0 .. N
  OBVIOUS
<1>3. m - 1 \notin Bad
  BY <1>1, <1>2
<1> QED BY <1>2, <1>3

(* The costs of the first children of a node, added up. *)
Part(f, n) ==
  LET s[i \in 0 .. Width(n)] == IF i = 0 THEN 0 ELSE s[i - 1] + f[entry.kids[n][i]]
  IN s

AddsUp(s, f, n) ==
  /\ s[0] = 0
  /\ \A i \in Places(n) : s[i] = s[i - 1] + f[Kid(n, i)]

LEMMA Sums ==
  ASSUME entry \in Entries, NEW n \in Nodes, NEW f, \A i \in Places(n) : f[Kid(n, i)] \in Nat
  PROVE  /\ AddsUp(Part(f, n), f, n) /\ Sum(f, n) = Part(f, n)[Width(n)]
         /\ \A i \in 0 .. Width(n) :
              /\ Part(f, n)[i] \in Nat /\ Part(f, n)[i] <= Part(f, n)[Width(n)]
<1>1. PICK W : W = Width(n)
  OBVIOUS
<1>2. W \in Nat /\ Places(n) = 1 .. W
  BY <1>1, Tree
<1>3. PICK c : c = [i \in 1 .. W |-> f[Kid(n, i)]]
  OBVIOUS
<1>4. \A i \in 1 .. W : c[i] = f[Kid(n, i)] /\ c[i] \in Nat
  BY <1>2, <1>3
<1> DEFINE Next1(g) == [m \in 1 .. W + 1 |-> IF m = W + 1 THEN 0 ELSE g[m + 1] + c[W + 1 - m]]
           G == [g \in [1 .. W + 1 -> Nat] |-> Next1(g)]
<1>5. PICK g \in [1 .. W + 1 -> Nat] : g = Next1(g)
  <2>1. ASSUME NEW h \in [1 .. W + 1 -> Nat] PROVE Next1(h) \in [1 .. W + 1 -> Nat]
    <3>1. ASSUME NEW m \in 1 .. W + 1, m # W + 1 PROVE h[m + 1] + c[W + 1 - m] \in Nat
      <4>1. m + 1 \in 1 .. W + 1 /\ W + 1 - m \in 1 .. W
        BY <1>2, <3>1
      <4> QED BY <1>4, <4>1
    <3> QED BY <3>1
  <2>2. ASSUME NEW h \in [1 .. W + 1 -> Nat], NEW k \in [1 .. W + 1 -> Nat], NEW m \in 1 .. W + 1,
               \A j \in m + 1 .. W + 1 : h[j] = k[j]
        PROVE  G[h][m] = G[k][m]
    <3>1. m # W + 1 => h[m + 1] = k[m + 1]
      BY <1>2, <2>2
    <3> QED BY <3>1
  <2>3. G \in [[1 .. W + 1 -> Nat] -> [1 .. W + 1 -> Nat]]
    BY <2>1
  <2> DEFINE N == W + 1
  <2>4. LooksForward(G, N, Nat)
    BY <2>2, <2>3 DEF LooksForward
  <2>5. N \in Nat
    BY <1>2
  <2>6. \A h \in [1 .. N -> Nat] : G[h] = Next1(h)
    OBVIOUS
  <2> HIDE DEF G, N
  <2>7. \E h \in [1 .. N -> Nat] : h = G[h]
    BY <2>4, <2>5, FixedPoint
  <2> QED BY <2>6, <2>7 DEF N
<1> DEFINE s == [i \in 0 .. W |-> g[W + 1 - i]]
           Next2(t) == [i \in 0 .. W |-> IF i = 0 THEN 0 ELSE t[i - 1] + f[entry.kids[n][i]]]
<1>6. s = Next2(s)
  <2>1. ASSUME NEW i \in 0 .. W PROVE s[i] = Next2(s)[i]
    <3>1. W + 1 - i \in 1 .. W + 1
      BY <1>2
    <3>2. CASE i = 0
      BY <1>2, <1>5, <3>1, <3>2
    <3>3. CASE i # 0
      <4>1. i \in 1 .. W /\ i - 1 \in 0 .. W /\ W + 1 - i # W + 1
        BY <1>2, <3>3
      <4>2. W + 1 - (W + 1 - i) = i /\ (W + 1 - i) + 1 = W + 1 - (i - 1)
        BY <1>2
      <4>3. s[i] = g[W + 1 - (i - 1)] + c[i]
        BY <1>5, <3>1, <4>1, <4>2
      <4> QED BY <1>4, <3>3, <4>1, <4>3 DEF Kid
    <3> QED BY <3>2, <3>3
  <2> QED BY <2>1
<1>7. PICK p : p = Part(f, n)
  OBVIOUS
<1>8. p = Next2(p)
  <2>1. \E t : t = Next2(t)
    BY <1>6
  <2>2. p = CHOOSE t : t = Next2(t)
    BY <1>1, <1>7 DEF Part
  <2> QED BY <2>1, <2>2
<1>9. /\ p[0] = 0 /\ \A i \in 1 .. W : p[i] = p[i - 1] + c[i]
  BY <1>2, <1>4, <1>8 DEF Kid
<1> DEFINE T == {j \in Nat : p[j] \in Nat /\ \A i \in 0 .. j : p[i] \in Nat /\ p[i] <= p[j]}
<1>10. 0 .. W \subseteq T
  <2>1. 0 \in T
    BY <1>9
  <2>2. ASSUME NEW j \in 1 .. W, j - 1 \in T PROVE j \in T
    <3>1. p[j] = p[j - 1] + c[j] /\ c[j] \in Nat /\ p[j - 1] \in Nat /\ j \in Nat
      BY <1>2, <1>4, <1>9, <2>2
    <3>2. \A i \in 0 .. j : i = j \/ i \in 0 .. j - 1
      BY <1>2
    <3>3. \A i \in 0 .. j - 1 : p[i] \in Nat /\ p[i] <= p[j - 1]
      BY <2>2
    <3> QED BY <3>1, <3>2, <3>3
  <2> HIDE DEF T
  <2> QED BY <1>2, <2>1, <2>2, UpTo
<1>11. W \in 0 .. W
  BY <1>2
<1>12. \A i \in 0 .. W : p[i] \in Nat /\ p[i] <= p[W]
  BY <1>10, <1>11
<1>13. Sum(f, n) = p[W]
  BY <1>1, <1>7 DEF Sum, Part
<1>14. AddsUp(p, f, n)
  BY <1>2, <1>4, <1>9 DEF AddsUp
<1> QED BY <1>1, <1>7, <1>12, <1>13, <1>14

LEMMA Mosts ==
  ASSUME entry \in Entries, NEW n \in Nodes, entry.kind[n] # "leaf",
         NEW f, \A i \in Places(n) : f[Kid(n, i)] \in Nat
  PROVE  /\ \E i \in Places(n) : Most(f, n) = f[Kid(n, i)]
         /\ \A i \in Places(n) : f[Kid(n, i)] <= Most(f, n)
<1>1. PICK W : W = Width(n)
  OBVIOUS
<1>2. W \in Nat /\ Places(n) = 1 .. W /\ W # 0 /\ Kids(n) = {Kid(n, i) : i \in Places(n)}
  BY <1>1, Tree
<1> DEFINE S == {j \in Nat : j = 0 \/ \E i \in 1 .. j : \A k \in 1 .. j :
                                         f[Kid(n, k)] <= f[Kid(n, i)]}
<1>3. 0 .. W \subseteq S
  <2>1. 0 \in S
    OBVIOUS
  <2>2. ASSUME NEW j \in 1 .. W, j - 1 \in S PROVE j \in S
    <3>1. j \in Nat /\ \A k \in 1 .. j : (k = j \/ k \in 1 .. j - 1) /\ f[Kid(n, k)] \in Nat
      BY <1>2
    <3>2. j \in 1 .. j /\ \A i \in 1 .. j - 1 : i \in 1 .. j
      BY <1>2
    <3>3. CASE j = 1
      BY <3>1, <3>2, <3>3
    <3>4. CASE j # 1
      <4>1. PICK i \in 1 .. j - 1 : \A k \in 1 .. j - 1 : f[Kid(n, k)] <= f[Kid(n, i)]
        BY <1>2, <2>2, <3>4
      <4>2. CASE f[Kid(n, j)] <= f[Kid(n, i)]
        <5>1. \A k \in 1 .. j : f[Kid(n, k)] <= f[Kid(n, i)]
          BY <3>1, <4>1, <4>2
        <5> QED BY <3>1, <3>2, <5>1
      <4>3. CASE ~(f[Kid(n, j)] <= f[Kid(n, i)])
        <5>1. \A k \in 1 .. j : f[Kid(n, k)] <= f[Kid(n, j)]
          <6>1. TAKE k \in 1 .. j
          <6>2. f[Kid(n, k)] \in Nat /\ f[Kid(n, j)] \in Nat /\ f[Kid(n, i)] \in Nat
            BY <3>1, <3>2
          <6>3. k \in 1 .. j - 1 => f[Kid(n, k)] <= f[Kid(n, i)]
            BY <4>1
          <6> QED BY <3>1, <4>3, <6>2, <6>3
        <5> QED BY <3>1, <3>2, <5>1
      <4> QED BY <4>2, <4>3
    <3> QED BY <3>3, <3>4
  <2> HIDE DEF S
  <2> QED BY <1>2, <2>1, <2>2, UpTo
<1>4. PICK i \in 1 .. W : \A k \in 1 .. W : f[Kid(n, k)] <= f[Kid(n, i)]
  <2>1. W \in S
    <3>1. W \in 0 .. W
      BY <1>2
    <3> HIDE DEF S
    <3> QED BY <1>3, <3>1
  <2> QED BY <1>2, <2>1
<1> DEFINE V == {f[k] : k \in Kids(n)}
           IsMost(m) == \A k \in Kids(n) : f[k] <= m
<1>5. f[Kid(n, i)] \in V /\ IsMost(f[Kid(n, i)])
  BY <1>2, <1>4
<1>6. Most(f, n) = CHOOSE m \in V : IsMost(m)
  BY DEF Most
<1>7. Most(f, n) \in V /\ IsMost(Most(f, n))
  <2> HIDE DEF V, IsMost
  <2> QED BY <1>5, <1>6
<1> QED BY <1>2, <1>7
(* What a node costs, of the costs f of its children: in assert mode, in a *)
(* round, and past the deadline under converge. *)
Weighs(which, f, n) ==
  IF entry.kind[n] = "leaf" THEN entry.call
  ELSE IF which = "single"
       THEN IF entry.kind[n] = "parallel" THEN Least(Ceiling, Most(f, n)) ELSE Sum(f, n)
  ELSE IF which = "round"
       THEN IF entry.kind[n] = "parallel" THEN Grace ELSE Sum(f, n)
  ELSE IF entry.kind[n] = "parallel" THEN Least(Grace, Most(f, n))
       ELSE IF entry.kind[n] = "sequence" THEN Most(f, n) ELSE Most(Round, n)

RoundOK == \A n \in Nodes : Round[n] \in Nat

LEMMA WeighsType ==
  ASSUME entry \in Entries, NEW n \in Nodes, NEW f, \A i \in Places(n) : f[Kid(n, i)] \in Nat,
         NEW which, which \in {"single", "round"} \/ RoundOK
  PROVE  Weighs(which, f, n) \in Nat
<1>1. /\ entry.call \in Nat /\ Grace \in Nat /\ Ceiling \in Nat
      /\ Width(n) \in Nat /\ \A i \in Places(n) : Kid(n, i) \in Nodes
  BY TreeAssumption, Tree
<1>2. Sum(f, n) \in Nat
  BY <1>1, Sums
<1>3. entry.kind[n] # "leaf" => Most(f, n) \in Nat
  BY Mosts
<1>4. entry.kind[n] # "leaf" /\ RoundOK => Most(Round, n) \in Nat
  <2>1. RoundOK => \A i \in Places(n) : Round[Kid(n, i)] \in Nat
    BY <1>1 DEF RoundOK
  <2>2. PICK r : r = Round
    OBVIOUS
  <2>3. entry.kind[n] # "leaf" /\ RoundOK => Most(r, n) \in Nat
    BY <2>1, <2>2, Mosts
  <2> QED BY <2>2, <2>3
<1>5. \A a, b \in Nat : Least(a, b) \in Nat
  BY DEF Least
<1> QED BY <1>1, <1>2, <1>3, <1>4, <1>5 DEF Weighs

LEMMA WeighsForward ==
  ASSUME entry \in Entries, NEW n \in Nodes, NEW f, NEW g,
         \A i \in Places(n) : f[Kid(n, i)] \in Nat /\ f[Kid(n, i)] = g[Kid(n, i)],
         NEW which
  PROVE  Weighs(which, f, n) = Weighs(which, g, n)
<1>1. PICK W : W = Width(n)
  OBVIOUS
<1>2. W \in Nat /\ Places(n) = 1 .. W
  BY <1>1, Tree
<1>3. \A i \in Places(n) : g[Kid(n, i)] \in Nat
  OBVIOUS
<1>4. Sum(f, n) = Sum(g, n)
  <2>1. PICK p, q : p = Part(f, n) /\ q = Part(g, n)
    OBVIOUS
  <2>2. /\ AddsUp(p, f, n) /\ Sum(f, n) = p[W] /\ AddsUp(q, g, n) /\ Sum(g, n) = q[W]
    BY <1>1, <1>3, <2>1, Sums
  <2> DEFINE S == {j \in 0 .. W : p[j] = q[j]}
  <2>3. 0 .. W \subseteq S
    <3>1. 0 \in S
      BY <1>2, <2>2 DEF AddsUp
    <3>2. ASSUME NEW j \in 1 .. W, j - 1 \in S PROVE j \in S
      <4>1. /\ p[j] = p[j - 1] + f[Kid(n, j)] /\ q[j] = q[j - 1] + g[Kid(n, j)]
            /\ f[Kid(n, j)] = g[Kid(n, j)] /\ j \in 0 .. W
        BY <1>2, <2>2 DEF AddsUp
      <4> QED BY <3>2, <4>1
    <3> HIDE DEF S
    <3> QED BY <1>2, <3>1, <3>2, UpTo
  <2>4. W \in 0 .. W
    BY <1>2
  <2> QED BY <2>2, <2>3, <2>4
<1>5. entry.kind[n] # "leaf" => Most(f, n) = Most(g, n)
  <2>1. HAVE entry.kind[n] # "leaf"
  <2>2. PICK a, b : a = Most(f, n) /\ b = Most(g, n)
    OBVIOUS
  <2>3. /\ \E i \in Places(n) : a = f[Kid(n, i)]
        /\ \A i \in Places(n) : f[Kid(n, i)] <= a
    BY <2>1, <2>2, Mosts
  <2>4. /\ \E i \in Places(n) : b = g[Kid(n, i)]
        /\ \A i \in Places(n) : g[Kid(n, i)] <= b
    BY <1>3, <2>1, <2>2, Mosts
  <2>5. a \in Nat /\ b \in Nat /\ a <= b /\ b <= a
    BY <2>3, <2>4
  <2>6. a = b
    BY <2>5
  <2> QED BY <2>2, <2>6
<1> QED BY <1>4, <1>5 DEF Weighs

LEMMA CostsExist ==
  ASSUME entry \in Entries, NEW which, which \in {"single", "round"} \/ RoundOK
  PROVE  /\ \E f : f = [n \in Nodes |-> Weighs(which, f, n)]
         /\ \A f : f = [n \in Nodes |-> Weighs(which, f, n)] => f \in [Nodes -> Nat]
<1> DEFINE N == Len(entry.kind)
           Next1(f) == [n \in Nodes |-> Weighs(which, f, n)]
           G == [f \in [1 .. N -> Nat] |-> Next1(f)]
<1>1. /\ Nodes = 1 .. N /\ N \in Nat
      /\ \A n \in Nodes : \A i \in Places(n) : Kid(n, i) \in Nodes /\ Kid(n, i) \in n + 1 .. N
  BY Tree
<1>2. ASSUME NEW f \in [Nodes -> Nat] PROVE Next1(f) \in [Nodes -> Nat]
  <2>1. \A n \in Nodes : \A i \in Places(n) : f[Kid(n, i)] \in Nat
    BY <1>1
  <2>2. \A n \in Nodes : Weighs(which, f, n) \in Nat
    BY <2>1, WeighsType
  <2> QED BY <2>2
<1>3. ASSUME NEW f \in [Nodes -> Nat], NEW g \in [Nodes -> Nat], NEW n \in Nodes,
             \A m \in n + 1 .. N : f[m] = g[m]
      PROVE  Weighs(which, f, n) = Weighs(which, g, n)
  <2>1. \A i \in Places(n) : f[Kid(n, i)] \in Nat /\ f[Kid(n, i)] = g[Kid(n, i)]
    BY <1>1, <1>3
  <2> QED BY <2>1, WeighsForward
<1>4. \E f : f = Next1(f)
  <2>1. /\ G \in [[1 .. N -> Nat] -> [1 .. N -> Nat]]
        /\ \A f \in [1 .. N -> Nat] : G[f] = Next1(f)
    BY <1>1, <1>2
  <2>2. LooksForward(G, N, Nat)
    <3>1. ASSUME NEW f \in [1 .. N -> Nat], NEW g \in [1 .. N -> Nat], NEW n \in 1 .. N,
                 \A m \in n + 1 .. N : f[m] = g[m]
          PROVE  G[f][n] = G[g][n]
      <4>1. Weighs(which, f, n) = Weighs(which, g, n)
        BY <1>1, <1>3, <3>1
      <4> QED BY <1>1, <2>1, <4>1
    <3> HIDE DEF G
    <3> QED BY <2>1, <3>1 DEF LooksForward
  <2> HIDE DEF G, N
  <2>3. \E f \in [1 .. N -> Nat] : f = G[f]
    BY <1>1, <2>2, FixedPoint
  <2>4. PICK f \in [1 .. N -> Nat] : f = G[f]
    BY <2>3
  <2>5. G[f] = Next1(f)
    BY <2>1
  <2> QED BY <2>4, <2>5
<1>5. ASSUME NEW f, f = Next1(f) PROVE f \in [Nodes -> Nat]
  <2> DEFINE S == {n \in Nodes : f[n] \in Nat}
  <2>1. ASSUME NEW n \in Nodes, \A i \in Places(n) : Kid(n, i) \in S PROVE n \in S
    <3>1. Weighs(which, f, n) \in Nat
      BY <2>1, WeighsType
    <3>2. f[n] = Weighs(which, f, n)
      BY <1>5
    <3> QED BY <3>1, <3>2
  <2>2. Nodes \subseteq S
    <3> HIDE DEF S
    <3> QED BY <2>1, FromTheLeaves
  <2>3. \A n \in Nodes : f[n] \in Nat
    BY <2>2
  <2>4. PICK v : v = [n \in Nodes |-> Weighs(which, f, n)]
    OBVIOUS
  <2>5. f = v /\ v = [n \in Nodes |-> v[n]]
    BY <1>5, <2>4
  <2> QED BY <2>3, <2>5
<1> QED BY <1>4, <1>5

LEMMA CostsDefined ==
  ASSUME entry \in Entries
  PROVE  /\ Single \in [Nodes -> Nat] /\ \A n \in Nodes : Single[n] = Weighs("single", Single, n)
         /\ Round \in [Nodes -> Nat] /\ \A n \in Nodes : Round[n] = Weighs("round", Round, n)
         /\ Over \in [Nodes -> Nat] /\ \A n \in Nodes : Over[n] = Weighs("over", Over, n)
<1> DEFINE Solves(f, which) == f = [n \in Nodes |-> Weighs(which, f, n)]
<1>1. Single = CHOOSE f : Solves(f, "single")
  BY DEF Single, Weighs
<1>2. Round = CHOOSE f : Solves(f, "round")
  BY DEF Round, Weighs
<1>3. Over = CHOOSE f : Solves(f, "over")
  BY DEF Over, Weighs
<1>4. \A which : which \in {"single", "round"} \/ RoundOK =>
        /\ \E f : Solves(f, which)
        /\ \A f : Solves(f, which) => f \in [Nodes -> Nat]
  BY CostsExist
<1>5. \A f, which : Solves(f, which) => \A n \in Nodes : f[n] = Weighs(which, f, n)
  <2>1. TAKE f, which
  <2>2. HAVE Solves(f, which)
  <2>3. PICK v : v = [n \in Nodes |-> Weighs(which, f, n)]
    OBVIOUS
  <2>4. f = v
    BY <2>2, <2>3
  <2>5. \A n \in Nodes : v[n] = Weighs(which, f, n)
    BY <2>3
  <2> QED BY <2>4, <2>5
<1> HIDE DEF Solves
<1>6. Solves(Single, "single") /\ Solves(Round, "round")
  BY <1>1, <1>2, <1>4
<1>7. Single \in [Nodes -> Nat] /\ Round \in [Nodes -> Nat]
  BY <1>4, <1>6
<1>8. Solves(Over, "over") /\ Over \in [Nodes -> Nat]
  <2>1. RoundOK
    BY <1>7 DEF RoundOK
  <2> QED BY <1>3, <1>4, <2>1
<1> QED BY <1>5, <1>6, <1>7, <1>8
-----------------------------------------------------------------------------
(* Time.  L[how][n][i] bounds what is left of a pass over n after its      *)
(* first i children, O[n] what comes after the deadline under converge,    *)
(* and B[n] is the time by which n's evaluation ends.                      *)
Turn == {"single", "round"}

Plan(L, O) ==
  /\ \A how \in Turn : \A n \in Nodes : \A i \in Nat : L[how][n][i] \in Nat
  /\ \A n \in Nodes : O[n] \in Nat
  /\ \A n \in Nodes : entry.kind[n] = "leaf" =>
       O[n] = entry.call /\ \A how \in Turn : L[how][n][0] = entry.call
  /\ \A n \in Nodes : entry.kind[n] = "parallel" =>
       /\ L["round"][n][0] = Grace
       /\ \/ Ceiling <= L["single"][n][0]
          \/ \A i \in Places(n) : L["single"][Kid(n, i)][0] <= L["single"][n][0]
       /\ Grace <= O[n] \/ \A i \in Places(n) : O[Kid(n, i)] <= O[n]
  /\ \A n \in Nodes : entry.kind[n] \in {"sequence", "any", "none"} =>
       \A i \in Places(n) :
         /\ \A how \in Turn : L[how][n][i - 1] = L[how][n][i] + L[how][Kid(n, i)][0]
         /\ IF entry.kind[n] = "sequence" THEN O[Kid(n, i)] <= O[n]
            ELSE L["round"][Kid(n, i)][0] <= O[n]

LEMMA PlanExists ==
  ASSUME entry \in Entries
  PROVE  \E L, O : Plan(L, O) /\ O = Over /\ L["single"][1][0] = Single[1]
<1>1. PICK s, r, o : s = Single /\ r = Round /\ o = Over
  OBVIOUS
<1>2. /\ s \in [Nodes -> Nat] /\ \A n \in Nodes : s[n] = Weighs("single", s, n)
      /\ r \in [Nodes -> Nat] /\ \A n \in Nodes : r[n] = Weighs("round", r, n)
      /\ o \in [Nodes -> Nat] /\ \A n \in Nodes : o[n] = Weighs("over", o, n)
  BY <1>1, CostsDefined
<1>3. /\ 1 \in Nodes /\ Grace \in Nat /\ Ceiling \in Nat
      /\ \A n \in Nodes : /\ entry.kind[n] \in Kinds
                          /\ Width(n) \in Nat /\ Places(n) = 1 .. Width(n)
                          /\ \A i \in Places(n) : Kid(n, i) \in Nodes
  BY Tree, TreeAssumption
<1> DEFINE Listed(n) == entry.kind[n] \in {"sequence", "any", "none"}
           Left(f, n, i) == IF ~Listed(n) THEN f[n]
                            ELSE IF i <= Width(n) THEN Part(f, n)[Width(n)] - Part(f, n)[i]
                            ELSE 0
           M(f) == [n \in Nodes |-> [i \in Nat |-> Left(f, n, i)]]
<1>4. PICK L : L = [how \in Turn |-> IF how = "single" THEN M(s) ELSE M(r)]
  OBVIOUS
<1>5. \A n \in Nodes : \A i \in Nat :
        L["single"][n][i] = Left(s, n, i) /\ L["round"][n][i] = Left(r, n, i)
  BY <1>4 DEF Turn
<1>6. ASSUME NEW f \in [Nodes -> Nat], NEW n \in Nodes, Listed(n) => f[n] = Sum(f, n)
      PROVE  /\ \A i \in Nat : Left(f, n, i) \in Nat
             /\ Left(f, n, 0) = f[n]
             /\ Listed(n) => \A i \in Places(n) :
                  Left(f, n, i - 1) = Left(f, n, i) + f[Kid(n, i)]
  <2>1. CASE ~Listed(n)
    BY <2>1
  <2>2. CASE Listed(n)
    <3>1. PICK W, p : W = Width(n) /\ p = Part(f, n)
      OBVIOUS
    <3>2. W \in Nat /\ Places(n) = 1 .. W
      BY <1>3, <3>1
    <3>3. \A i \in Places(n) : f[Kid(n, i)] \in Nat
      BY <1>3
    <3>4. /\ p[0] = 0 /\ \A i \in 1 .. W : p[i] = p[i - 1] + f[Kid(n, i)]
          /\ f[n] = p[W] /\ \A i \in 0 .. W : p[i] \in Nat /\ p[i] <= p[W]
      BY <1>6, <2>2, <3>1, <3>2, <3>3, Sums DEF AddsUp
    <3>5. \A i : Left(f, n, i) = IF i <= W THEN p[W] - p[i] ELSE 0
      BY <2>2, <3>1
    <3> HIDE DEF Left, Listed
    <3>6. W \in 0 .. W /\ 0 \in 0 .. W
      BY <3>2
    <3>7. \A i \in Nat : Left(f, n, i) \in Nat
      <4>1. TAKE i \in Nat
      <4>2. i <= W => i \in 0 .. W
        BY <3>2
      <4>3. i <= W => p[i] \in Nat /\ p[W] \in Nat /\ p[i] <= p[W]
        BY <3>4, <3>6, <4>2
      <4> QED BY <3>5, <4>3
    <3>8. Left(f, n, 0) = f[n]
      BY <3>2, <3>4, <3>5, <3>6
    <3>9. ASSUME NEW i \in Places(n)
          PROVE  Left(f, n, i - 1) = Left(f, n, i) + f[Kid(n, i)]
      <4>1. /\ i \in 0 .. W /\ i - 1 \in 0 .. W /\ i <= W /\ i - 1 <= W /\ i \in 1 .. W
        BY <3>2
      <4>2. /\ Left(f, n, i - 1) = p[W] - p[i - 1] /\ Left(f, n, i) = p[W] - p[i]
            /\ p[i] = p[i - 1] + f[Kid(n, i)]
            /\ p[i] \in Nat /\ p[i - 1] \in Nat /\ p[W] \in Nat /\ f[Kid(n, i)] \in Nat
        BY <3>3, <3>4, <3>5, <3>6, <4>1
      <4> QED BY <4>2
    <3> QED BY <3>7, <3>8, <3>9
  <2> QED BY <2>1, <2>2
<1>7. \A n \in Nodes : Listed(n) => s[n] = Sum(s, n) /\ r[n] = Sum(r, n)
  BY <1>2 DEF Weighs
<1> HIDE DEF Left
<1>8. \A n \in Nodes :
        /\ \A i \in Nat : L["single"][n][i] \in Nat /\ L["round"][n][i] \in Nat
        /\ L["single"][n][0] = s[n] /\ L["round"][n][0] = r[n]
        /\ Listed(n) => \A i \in Places(n) :
             /\ L["single"][n][i - 1] = L["single"][n][i] + s[Kid(n, i)]
             /\ L["round"][n][i - 1] = L["round"][n][i] + r[Kid(n, i)]
  <2>1. TAKE n \in Nodes
  <2>2. \A i \in Places(n) : i \in Nat /\ i - 1 \in Nat
    BY <1>3
  <2> HIDE DEF Listed
  <2> QED BY <1>2, <1>5, <1>6, <1>7, <2>2
<1>9. \A n \in Nodes : entry.kind[n] # "leaf" =>
        \A i \in Places(n) : /\ s[Kid(n, i)] <= Most(s, n)
                             /\ r[Kid(n, i)] <= Most(r, n)
                             /\ o[Kid(n, i)] <= Most(o, n)
  <2>1. \A n \in Nodes : \A i \in Places(n) :
          s[Kid(n, i)] \in Nat /\ r[Kid(n, i)] \in Nat /\ o[Kid(n, i)] \in Nat
    BY <1>2, <1>3
  <2> QED BY <2>1, Mosts
<1>10. \A a, b : Least(a, b) = a \/ Least(a, b) = b
  BY DEF Least
<1>11. ASSUME NEW n \in Nodes, entry.kind[n] = "parallel"
       PROVE  /\ r[n] = Grace
              /\ Ceiling <= s[n] \/ \A i \in Places(n) : s[Kid(n, i)] <= s[n]
              /\ Grace <= o[n] \/ \A i \in Places(n) : o[Kid(n, i)] <= o[n]
  <2>1. /\ r[n] = Grace /\ s[n] = Least(Ceiling, Most(s, n)) /\ o[n] = Least(Grace, Most(o, n))
    BY <1>2, <1>11 DEF Weighs
  <2>2. \A i \in Places(n) : s[Kid(n, i)] <= Most(s, n) /\ o[Kid(n, i)] <= Most(o, n)
    BY <1>9, <1>11
  <2>3. (s[n] = Ceiling \/ s[n] = Most(s, n)) /\ (o[n] = Grace \/ o[n] = Most(o, n))
    BY <1>10, <2>1
  <2>4. Ceiling <= Ceiling /\ Grace <= Grace
    BY <1>3
  <2> QED BY <2>1, <2>2, <2>3, <2>4
<1>12. ASSUME NEW n \in Nodes, Listed(n), NEW i \in Places(n)
       PROVE  IF entry.kind[n] = "sequence" THEN o[Kid(n, i)] <= o[n]
              ELSE r[Kid(n, i)] <= o[n]
  <2>1. o[n] = IF entry.kind[n] = "sequence" THEN Most(o, n) ELSE Most(r, n)
    BY <1>1, <1>2, <1>12 DEF Weighs
  <2> QED BY <1>9, <1>12, <2>1
<1>13. \A n \in Nodes : entry.kind[n] = "leaf" =>
         s[n] = entry.call /\ r[n] = entry.call /\ o[n] = entry.call
  BY <1>2 DEF Weighs
<1>14. Plan(L, o)
  <2>1. \A how \in Turn : how = "single" \/ how = "round"
    BY DEF Turn
  <2>2. \A n \in Nodes : o[n] \in Nat
    BY <1>2
  <2>3. \A how \in Turn : \A n \in Nodes : \A i \in Nat : L[how][n][i] \in Nat
    BY <1>8, <2>1
  <2>4. \A n \in Nodes : entry.kind[n] = "leaf" =>
          o[n] = entry.call /\ \A how \in Turn : L[how][n][0] = entry.call
    BY <1>8, <1>13, <2>1
  <2>5. \A n \in Nodes : entry.kind[n] = "parallel" =>
          /\ L["round"][n][0] = Grace
          /\ \/ Ceiling <= L["single"][n][0]
             \/ \A i \in Places(n) : L["single"][Kid(n, i)][0] <= L["single"][n][0]
          /\ Grace <= o[n] \/ \A i \in Places(n) : o[Kid(n, i)] <= o[n]
    BY <1>3, <1>8, <1>11
  <2>6. ASSUME NEW n \in Nodes, Listed(n), NEW i \in Places(n)
        PROVE  /\ \A how \in Turn : L[how][n][i - 1] = L[how][n][i] + L[how][Kid(n, i)][0]
               /\ IF entry.kind[n] = "sequence" THEN o[Kid(n, i)] <= o[n]
                  ELSE L["round"][Kid(n, i)][0] <= o[n]
    <3>1. Kid(n, i) \in Nodes
      BY <1>3
    <3>2. /\ L["single"][n][i - 1] = L["single"][n][i] + L["single"][Kid(n, i)][0]
          /\ L["round"][n][i - 1] = L["round"][n][i] + L["round"][Kid(n, i)][0]
      BY <1>8, <2>6, <3>1
    <3>3. L["round"][Kid(n, i)][0] = r[Kid(n, i)]
      BY <1>8, <3>1
    <3> QED BY <1>12, <2>1, <2>6, <3>2, <3>3
  <2> QED BY <2>2, <2>3, <2>4, <2>5, <2>6 DEF Plan
<1> QED BY <1>1, <1>3, <1>8, <1>14
Converges(n) == node[n].how = "converge"

(* The time a pass begins to count from when the deadline is real, and by  *)
(* when an evaluation ends that begins now. *)
Latest == IF now < Deadline THEN Deadline ELSE now
By(L, O, n, how) == IF how = "converge" THEN Deadline + O[n] ELSE Latest + L[how][n][0]

TimeOK(L, O, B, n) ==
  Active(n) =>
    /\ Deadline <= B[n] /\ now <= B[n]
    /\ node[n].how = "single" => Deadline = 0
    /\ Converges(n) => B[n] = Deadline + O[n]
    /\ entry.kind[n] = "parallel" => node[n].at = 0
    /\ Phase(n) = "run" => IF Converges(n) THEN node[n].at = 0 => now <= Deadline
                           ELSE Latest + L[node[n].how][n][node[n].at] <= B[n]
    /\ Phase(n) = "call" => node[n].due <= B[n]
    /\ Phase(n) = "sleep" => Converges(n) /\ node[n].due <= Deadline

(* Between a group that waits and a child it waits for. *)
LinkTime(L, B, n, i) ==
  Waiting(n) =>
    /\ entry.kind[n] = "parallel" =>
         /\ Phase(Kid(n, i)) # "idle"
         /\ node[n].due <= B[n] \/ B[Kid(n, i)] <= B[n]
    /\ entry.kind[n] # "parallel" /\ i = node[n].at =>
         /\ Phase(Kid(n, i)) # "idle"
         /\ Deadline <= B[Kid(n, i)] /\ now <= B[Kid(n, i)]
         /\ B[Kid(n, i)] + (IF Converges(n) THEN 0 ELSE L[node[n].how][n][i]) <= B[n]

Timed(L, O, B) ==
  /\ Plan(L, O)
  /\ \A n \in Nodes : B[n] \in Int
  /\ \A n \in Nodes : TimeOK(L, O, B, n)
  /\ \A n \in Nodes : \A i \in Places(n) : LinkTime(L, B, n, i)
  /\ now <= B[1]

LEMMA PlanStays ==
  ASSUME entry' = entry, NEW L, NEW O, Plan(L, O) PROVE Plan(L, O)'
BY DEF Plan, Nodes, Places, Kid

(* A step that changes a node n that is being evaluated, and nodes X below *)
(* it, keeps the times of all others; X may be given new ones.             *)
LEMMA TimesStay ==
  ASSUME IInv, Still, NEW L, NEW O, NEW B, Timed(L, O, B),
         NEW n, NEW X, Touches(n, X), Phase(n)' # "idle",
         NEW C, \A m \in Nodes : C[m] \in Int /\ (m \notin X => C[m] = B[m]),
         TimeOK(L, O, C, n)', \A i \in Places(n) : LinkTime(L, C, n, i)',
         \A x \in X : ~Waiting(x)' /\ TimeOK(L, O, C, x)'
  PROVE  Timed(L, O, C)' /\ C[1] = B[1]
<1>1. /\ entry \in Entries /\ entry' = entry /\ now' = now /\ Nodes' = Nodes
      /\ \A m : Places(m)' = Places(m)
      /\ \A m, i : Kid(m, i)' = Kid(m, i)
      /\ Deadline' = Deadline /\ Latest' = Latest
  BY DEF IInv, StateOK, Still, Nodes, Places, Kid, Deadline, Latest
<1>2. Plan(L, O)'
  BY <1>1, PlanStays DEF Timed
<1>3. ASSUME NEW m \in Nodes PROVE TimeOK(L, O, C, m)'
  <2>1. CASE m = n \/ m \in X
    BY <2>1
  <2>2. CASE m # n /\ m \notin X
    <3>1. node'[m] = node[m] /\ C[m] = B[m] /\ TimeOK(L, O, B, m)
      BY <2>2 DEF Touches, Timed
    <3> QED BY <1>1, <3>1 DEF TimeOK, Active, Phase, Converges
  <2> QED BY <2>1, <2>2
<1>4. ASSUME NEW m \in Nodes, NEW i \in Places(m) PROVE LinkTime(L, C, m, i)'
  <2>1. CASE m = n
    BY <2>1
  <2>2. CASE m \in X
    BY <2>2 DEF LinkTime
  <2>3. CASE m # n /\ m \notin X
    <3>1. PICK k : k = Kid(m, i)
      OBVIOUS
    <3>2. /\ k \in Nodes /\ k \notin X /\ C[k] = B[k] /\ C[m] = B[m]
          /\ node'[m] = node[m] /\ Kid(m, i)' = k /\ LinkTime(L, B, m, i)
      <4>1. k \in Nodes
        BY <1>1, <3>1, Tree
      <4>2. k \notin X
        BY <2>3, <3>1 DEF Touches
      <4> QED BY <1>1, <2>3, <3>1, <4>1, <4>2 DEF Touches, Timed
    <3>3. Phase(k) # "idle" => Phase(k)' # "idle"
      BY <3>2 DEF Touches, Phase
    <3> QED BY <1>1, <3>1, <3>2, <3>3 DEF LinkTime, Waiting, Phase, Converges
  <2> QED BY <2>1, <2>2, <2>3
<1>5. C[1] = B[1]
  <2>1. 1 \in Nodes /\ 1 \notin X
    <3>1. 1 \in Nodes /\ Nodes = 1 .. Len(entry.kind) /\ Len(entry.kind) \in Nat
      BY <1>1, Tree
    <3> QED BY <3>1 DEF Touches
  <2> QED BY <2>1
<1>6. \A m \in Nodes : C[m] \in Int
  OBVIOUS
<1>7. (now <= C[1])'
  BY <1>1, <1>5 DEF Timed
<1> QED BY <1>1, <1>2, <1>3, <1>4, <1>5, <1>6, <1>7 DEF Timed
LEMMA ClockType ==
  ASSUME IInv
  PROVE  /\ now \in Nat /\ Deadline \in Nat /\ Latest \in Nat
         /\ Deadline <= Latest /\ now <= Latest /\ (now <= Deadline => Latest = Deadline)
         /\ entry.call \in Nat /\ Grace \in Nat /\ Ceiling \in Nat
<1>1. now \in Nat /\ Deadline \in Nat /\ entry.call \in Nat /\ Grace \in Nat /\ Ceiling \in Nat
  BY TreeAssumption DEF IInv, StateOK, Deadline
<1> QED BY <1>1 DEF Latest

LEMMA ClockStays ==
  ASSUME entry' = entry, now' = now
  PROVE  /\ Nodes' = Nodes /\ Deadline' = Deadline /\ Latest' = Latest
         /\ \A n : Places(n)' = Places(n) /\ \A i : Kid(n, i)' = Kid(n, i)
BY DEF Nodes, Deadline, Latest, Places, Kid

(* A step after which n does not wait, and that begins no child. *)
LEMMA QuietTimes ==
  ASSUME IInv, Still, NEW L, NEW O, NEW B, Timed(L, O, B),
         NEW n, NEW X, Touches(n, X), Phase(n)' \in {"run", "call", "sleep", "done"},
         TimeOK(L, O, B, n)', \A x \in X : node'[x].phase \in {"idle", "done"}
  PROVE  Timed(L, O, B)'
<1>1. \A x \in X : ~Waiting(x)' /\ TimeOK(L, O, B, x)'
  BY DEF Waiting, TimeOK, Active, Phase
<1>2. \A i \in Places(n) : LinkTime(L, B, n, i)'
  BY DEF LinkTime, Waiting, Phase
<1>3. \A m \in Nodes : B[m] \in Int /\ (m \notin X => B[m] = B[m])
  BY DEF Timed
<1>4. Phase(n)' # "idle"
  OBVIOUS
<1> QED BY <1>1, <1>2, <1>3, <1>4, TimesStay

(* A child that begins ends by the time its cost says. *)
LEMMA KidTimes ==
  ASSUME IInv, entry' = entry, now' = now, NEW L, NEW O, Plan(L, O), NEW k \in Nodes,
         NEW how \in Modes, node'[k] = Begun(how), NEW C, C[k] = By(L, O, k, how),
         how = "single" => Deadline = 0, how = "converge" => now <= Deadline
  PROVE  ~Waiting(k)' /\ Phase(k)' # "idle" /\ TimeOK(L, O, C, k)' /\ C[k] \in Nat
         /\ Deadline <= C[k] /\ now <= C[k]
<1>1. PICK s : s = Begun(how)
  OBVIOUS
<1>2. node'[k] = s /\ s.phase = "run" /\ s.how = how /\ s.at = 0
  BY <1>1 DEF Begun, Idle
<1>3. O[k] \in Nat /\ (how # "converge" => L[how][k][0] \in Nat)
  BY DEF Plan, Modes, Turn
<1>4. /\ now \in Nat /\ Deadline \in Nat /\ Latest \in Nat
      /\ Deadline <= Latest /\ now <= Latest
  BY ClockType
<1>5. C[k] \in Nat /\ Deadline <= C[k] /\ now <= C[k]
  BY <1>3, <1>4 DEF By
<1>6. Deadline' = Deadline /\ Latest' = Latest
  BY ClockStays
<1> QED BY <1>2, <1>3, <1>4, <1>5, <1>6
        DEF TimeOK, Waiting, Active, Phase, Converges, By

LEMMA LeafTimes ==
  ASSUME IInv, NEW L, NEW O, NEW B, Timed(L, O, B), NEW n \in Nodes,
         errors' \in 0 .. MaxErrors,
         entry.kind[n] = "leaf", Active(n), NEW s, Becomes(Only(n, s)),
         s.phase \in {"call", "sleep", "done"},
         s.phase # "done" => s.how = node[n].how /\ s.at = node[n].at,
         s.phase = "call" => s.due <= B[n],
         s.phase = "sleep" => Converges(n) /\ s.due <= Deadline
  PROVE  Timed(L, O, B)'
<1>1. /\ UNCHANGED <<entry, now, holds, changes>> /\ NodeMap' /\ node'[n] = s
      /\ \A m \in Nodes : m # n => node'[m] = node[m]
  BY OnlyChanges DEF IInv
<1>2. Still
  BY <1>1 DEF Still
<1>3. Touches(n, {})
  BY <1>1, <1>2, GroupTouches
<1>4. Deadline' = Deadline
  BY <1>1, ClockStays
<1>5. TimeOK(L, O, B, n)
  BY DEF Timed
<1>6. TimeOK(L, O, B, n)'
  BY <1>1, <1>4, <1>5 DEF TimeOK, Active, Phase, Converges
<1>7. Phase(n)' \in {"run", "call", "sleep", "done"}
  BY <1>1 DEF Phase
<1> QED BY <1>2, <1>3, <1>6, <1>7, QuietTimes

LEMMA AsleepTimes ==
  ASSUME IInv, NEW n \in Nodes, now < Deadline, NEW s, s = Asleep(n)
  PROVE  /\ s.phase = "sleep" /\ s.how = node[n].how /\ s.at = node[n].at
         /\ s.due <= Deadline
<1>1. node[n] \in NodeSet
  BY DEF IInv, NodeOK
<1>2. node[n].delay \in Nat
  BY <1>1, TreeAssumption DEF NodeSet
<1>3. now + Least(node[n].delay, Deadline - now) <= Deadline
  BY <1>2, ClockType DEF Least
<1> QED BY <1>1, <1>3 DEF Asleep, NodeSet

LEMMA LeafTimesOK ==
  ASSUME IInv, NEW L, NEW O, NEW B, Timed(L, O, B), NEW n \in Nodes,
         LeafExpires(n) \/ BeginCall(n) \/ EndCall(n)
  PROVE  Timed(L, O, B)'
<1>1. /\ entry.kind[n] = "leaf" /\ Active(n) /\ node[n] \in NodeSet /\ node[n].at = 0
      /\ errors \in 0 .. MaxErrors /\ MaxErrors \in Nat
  <2>1. entry.kind[n] = "leaf" /\ Active(n)
    BY DEF LeafExpires, BeginCall, EndCall, At, Active, Phase
  <2>2. Width(n) = 0
    BY <2>1, Tree DEF IInv, StateOK
  <2> QED BY <2>1, <2>2, TreeAssumption DEF IInv, StateOK, NodeOK, NodeSet
<1>2. /\ now \in Nat /\ Deadline \in Nat /\ Latest \in Nat /\ entry.call \in Nat
      /\ now <= Latest /\ B[n] \in Int /\ TimeOK(L, O, B, n)
  BY ClockType DEF Timed
<1>3. /\ O[n] = entry.call
      /\ ~Converges(n) => L[node[n].how][n][0] = entry.call
  BY <1>1 DEF Timed, Plan, NodeSet, Modes, Turn, Converges
<1>4. CASE LeafExpires(n)
  <2>1. PICK s : s = Given("fail", "exhausted")
    OBVIOUS
  <2>2. Becomes(Only(n, s)) /\ s.phase = "done" /\ errors' = errors
    BY <1>4, <2>1, FreshNodes DEF LeafExpires
  <2> QED BY <1>1, <2>2, LeafTimes
<1>5. CASE BeginCall(n)
  <2>1. PICK s : s = [node[n] EXCEPT !.phase = "call", !.due = now + entry.call]
    OBVIOUS
  <2>2. /\ Becomes(Only(n, s)) /\ errors' = errors
        /\ \/ Phase(n) = "run"
           \/ Phase(n) = "sleep" /\ now = node[n].due
    BY <1>5, <2>1 DEF BeginCall, At, Phase
  <2>3. /\ s.phase = "call" /\ s.due = now + entry.call
        /\ s.how = node[n].how /\ s.at = node[n].at
    BY <1>1, <2>1 DEF NodeSet
  <2>4. now + entry.call <= B[n]
    <3>1. CASE Converges(n)
      <4>1. now <= Deadline /\ B[n] = Deadline + O[n]
        BY <1>1, <1>2, <2>2, <3>1 DEF TimeOK
      <4> QED BY <1>2, <1>3, <4>1
    <3>2. CASE ~Converges(n)
      <4>1. Latest + L[node[n].how][n][0] <= B[n]
        BY <1>1, <1>2, <2>2, <3>2 DEF TimeOK
      <4> QED BY <1>2, <1>3, <3>2, <4>1
    <3> QED BY <3>1, <3>2
  <2> QED BY <1>1, <2>2, <2>3, <2>4, LeafTimes
<1>6. CASE EndCall(n)
  <2>1. PICK answer \in {"pass", "fail", "error"} :
          /\ IF answer = "error" THEN errors < MaxErrors /\ errors' = errors + 1
             ELSE UNCHANGED errors
          /\ LET observed == [node[n] EXCEPT !.seen = answer, !.status = answer] IN
             IF answer = "pass" \/ node[n].how # "converge" \/ now >= Deadline
             THEN Becomes(Only(n, [observed EXCEPT !.phase = "done"]))
             ELSE Becomes(Only(n, [Asleep(n) EXCEPT !.seen = answer, !.status = answer]))
    BY <1>6 DEF EndCall
  <2>2. errors' \in 0 .. MaxErrors
    BY <1>1, <2>1
  <2>3. CASE answer = "pass" \/ node[n].how # "converge" \/ now >= Deadline
    <3> DEFINE observed == [node[n] EXCEPT !.seen = answer, !.status = answer]
               s == [observed EXCEPT !.phase = "done"]
    <3>1. s.phase = "done"
      BY <1>1 DEF NodeSet
    <3>2. Becomes(Only(n, s))
      BY <2>1, <2>3
    <3> HIDE DEF s
    <3> QED BY <1>1, <2>2, <3>1, <3>2, LeafTimes
  <2>4. CASE ~(answer = "pass" \/ node[n].how # "converge" \/ now >= Deadline)
    <3>1. PICK a : a = Asleep(n)
      OBVIOUS
    <3> DEFINE s == [a EXCEPT !.seen = answer, !.status = answer]
    <3>2. now < Deadline /\ Converges(n)
      BY <1>2, <2>4 DEF Converges
    <3>3. /\ a.phase = "sleep" /\ a.how = node[n].how /\ a.at = node[n].at
          /\ a.due <= Deadline
      BY <3>1, <3>2, AsleepTimes
    <3>4. a \in NodeSet
      BY <3>1, <3>2, AsleepType
    <3>5. /\ s.phase = "sleep" /\ s.how = node[n].how /\ s.at = node[n].at
          /\ s.due <= Deadline
      BY <3>3, <3>4 DEF NodeSet
    <3>6. Becomes(Only(n, s))
      BY <2>1, <2>4, <3>1
    <3> HIDE DEF s
    <3> QED BY <1>1, <2>2, <3>2, <3>5, <3>6, LeafTimes
  <2> QED BY <2>3, <2>4
<1> QED BY <1>4, <1>5, <1>6
(* A group ends or goes to sleep, and its remaining children are skipped.  *)
LEMMA SkipTimes ==
  ASSUME IInv, NEW L, NEW O, NEW B, Timed(L, O, B), NEW n \in Nodes, Active(n),
         NEW s, NEW f, UNCHANGED errors, Becomes(And(Only(n, s), f)),
         \A x \in DOMAIN f : f[x].phase = "done" /\ \E i \in Places(n) : x = Kid(n, i),
         \/ s.phase = "done"
         \/ /\ s.phase = "sleep" /\ s.how = node[n].how /\ s.at = node[n].at
            /\ Converges(n) /\ s.due <= Deadline
  PROVE  Timed(L, O, B)'
<1>1. StateOK /\ entry \in Entries
  BY DEF IInv, StateOK
<1>2. \A x \in DOMAIN f : x \in Nodes /\ x # n
  <2>1. Nodes \subseteq Nat /\ \A i \in Places(n) : Kid(n, i) \in Nodes /\ Kid(n, i) > n
    BY <1>1, Tree
  <2> QED BY <2>1
<1>3. /\ UNCHANGED <<entry, now, holds, changes>> /\ NodeMap' /\ node'[n] = s
      /\ \A m \in Nodes : m # n => node'[m] = IF m \in DOMAIN f THEN f[m] ELSE node[m]
  BY <1>1, <1>2, BothChange
<1>4. Still
  BY <1>1, <1>3 DEF Still, StateOK
<1>5. PICK X : X = DOMAIN f
  OBVIOUS
<1>6. /\ \A x \in X : \E i \in Places(n) : x = Kid(n, i)
      /\ \A m \in Nodes : m # n /\ m \notin X => node'[m] = node[m]
      /\ \A x \in X : node'[x].phase \in {"idle", "done"}
  BY <1>2, <1>3, <1>5
<1>7. Touches(n, X)
  BY <1>3, <1>4, <1>6, GroupTouches
<1>8. TimeOK(L, O, B, n)'
  <2>1. TimeOK(L, O, B, n) /\ Deadline' = Deadline
    BY <1>3, ClockStays DEF Timed
  <2> QED BY <1>3, <2>1 DEF TimeOK, Active, Phase, Converges
<1>9. Phase(n)' \in {"run", "call", "sleep", "done"}
  BY <1>3 DEF Phase
<1> QED BY <1>4, <1>6, <1>7, <1>8, <1>9, QuietTimes

(* ... as a group does that is done with a status, *)
LEMMA FinishTimes ==
  ASSUME IInv, NEW L, NEW O, NEW B, Timed(L, O, B), NEW n \in Nodes, Active(n),
         NEW status \in Statuses, NEW given \in Statuses,
         NEW seen \in {"unseen", "exhausted"}, seen = "exhausted" => given = "fail",
         UNCHANGED errors,
         Becomes(And(Only(n, Finish(n, status)), Skipped(n, node[n].at, given, seen)))
  PROVE  Timed(L, O, B)'
<1>1. PICK s, f : s = Finish(n, status) /\ f = Skipped(n, node[n].at, given, seen)
  OBVIOUS
<1>2. Becomes(And(Only(n, s), f))
  BY <1>1
<1>3. s.phase = "done"
  BY <1>1, FinishFollows
<1>4. \A x \in DOMAIN f : f[x].phase = "done" /\ \E i \in Places(n) : x = Kid(n, i)
  <2>1. SkipsRest(n, f, Given(given, seen))
    BY <1>1, SkippedKids
  <2>2. Given(given, seen).phase = "done"
    BY FreshNodes
  <2> QED BY <2>1, <2>2 DEF SkipsRest
<1> QED BY <1>2, <1>3, <1>4, SkipTimes

(* ... and as any and none do at the end of a round. *)
LEMMA RoundTimes ==
  ASSUME IInv, NEW L, NEW O, NEW B, Timed(L, O, B), NEW n \in Nodes, Active(n), IsChoice(n),
         NEW statuses, NEW f, UNCHANGED errors, EndRound(n, statuses, f),
         \A x \in DOMAIN f : f[x].phase = "done" /\ \E i \in Places(n) : x = Kid(n, i)
  PROVE  Timed(L, O, B)'
<1>1. PICK status : status = RoundStatus(n, statuses)
  OBVIOUS
<1>2. status \in Statuses
  BY <1>1 DEF RoundStatus, Disjunction, NegatedDisjunction, Statuses
<1>3. CASE status = "pass" \/ node[n].how # "converge" \/ now >= Deadline
  <2>1. PICK s : s = Finish(n, status)
    OBVIOUS
  <2>2. Becomes(And(Only(n, s), f)) /\ s.phase = "done"
    BY <1>1, <1>2, <1>3, <2>1, FinishFollows DEF EndRound
  <2> QED BY <2>2, SkipTimes
<1>4. CASE ~(status = "pass" \/ node[n].how # "converge" \/ now >= Deadline)
  <2>1. PICK s : s = Asleep(n)
    OBVIOUS
  <2>2. Becomes(And(Only(n, s), f))
    BY <1>1, <1>4, <2>1 DEF EndRound
  <2>3. now < Deadline /\ Converges(n)
    BY <1>4, ClockType DEF Converges
  <2>4. /\ s.phase = "sleep" /\ s.how = node[n].how /\ s.at = node[n].at
        /\ s.due <= Deadline
    BY <2>1, <2>3, AsleepTimes
  <2> QED BY <2>2, <2>3, <2>4, SkipTimes
<1> QED BY <1>3, <1>4

(* A group that has heard of a child has the time for the rest left. *)
LEMMA HearsTimes ==
  ASSUME IInv, NEW L, NEW O, NEW B, Timed(L, O, B), NEW n \in Nodes,
         entry.kind[n] # "parallel", Phase(n) = "wait",
         UNCHANGED errors, Becomes(Only(n, [node[n] EXCEPT !.phase = "run"]))
  PROVE  Timed(L, O, B)'
<1>1. PICK s : s = [node[n] EXCEPT !.phase = "run"]
  OBVIOUS
<1>2. /\ node[n] \in NodeSet /\ node[n].at # 0 /\ node[n].at \in Places(n) /\ Active(n)
      /\ entry \in Entries /\ StateOK
  <2>1. node[n] \in NodeSet /\ node[n].at # 0 /\ node[n].at <= Width(n)
    BY DEF IInv, NodeOK, Waiting
  <2> QED BY <2>1, Tree DEF IInv, StateOK, NodeSet, Active
<1>3. s.phase = "run" /\ s.how = node[n].how /\ s.at = node[n].at
  BY <1>1, <1>2 DEF NodeSet
<1>4. /\ UNCHANGED <<entry, now, holds, changes>> /\ NodeMap' /\ node'[n] = s
      /\ \A m \in Nodes : m # n => node'[m] = node[m]
  <2>1. Becomes(Only(n, s))
    BY <1>1
  <2> QED BY <1>2, <2>1, OnlyChanges
<1>5. Still
  BY <1>2, <1>4 DEF Still, StateOK
<1>6. Touches(n, {})
  BY <1>2, <1>4, <1>5, GroupTouches
<1>7. PICK k : k = Kid(n, node[n].at)
  OBVIOUS
<1>8. k \in Nodes
  BY <1>2, <1>7, Tree
<1>9. ~Converges(n) => Latest + L[node[n].how][n][node[n].at] <= B[n]
  <2>1. HAVE ~Converges(n)
  <2>2. /\ Deadline <= B[k] /\ now <= B[k]
        /\ B[k] + L[node[n].how][n][node[n].at] <= B[n]
    BY <1>2, <1>7, <2>1 DEF Timed, LinkTime, Waiting
  <2>3. Latest <= B[k]
    BY <2>2 DEF Latest
  <2>4. /\ L[node[n].how][n][node[n].at] \in Nat /\ B[k] \in Int /\ B[n] \in Int
        /\ Latest \in Nat
    BY <1>2, <1>8, <2>1, ClockType DEF Timed, Plan, NodeSet, Modes, Turn, Converges
  <2> QED BY <2>2, <2>3, <2>4
<1>10. TimeOK(L, O, B, n)'
  <2>1. TimeOK(L, O, B, n) /\ Deadline' = Deadline /\ Latest' = Latest
    BY <1>4, ClockStays DEF Timed
  <2> QED BY <1>2, <1>3, <1>4, <1>9, <2>1 DEF TimeOK, Active, Phase, Converges
<1>11. Phase(n)' \in {"run", "call", "sleep", "done"}
  BY <1>3, <1>4 DEF Phase
<1> QED BY <1>5, <1>6, <1>10, <1>11, QuietTimes

(* The mode a group evaluates its children in. *)
KidMode(n) ==
  IF Converges(n) /\ entry.kind[n] \in {"any", "none"} THEN "round" ELSE node[n].how

(* A group that waits for its next child. *)
Turned(n) == [node[n] EXCEPT !.phase = "wait", !.at = @ + 1]

(* A group turns to its next child, in time and with enough of it left.    *)
LEMMA BeginsTimes ==
  ASSUME IInv, NEW L, NEW O, NEW B, Timed(L, O, B), NEW n \in Nodes,
         entry.kind[n] # "parallel", Phase(n) = "run", node[n].at < Width(n), UNCHANGED errors,
         Converges(n) => now <= Deadline, NEW how, how = KidMode(n),
         Becomes(And(Only(n, Turned(n)), Only(Kid(n, node[n].at + 1), Begun(how))))
  PROVE  \E C : Timed(L, O, C)' /\ C[1] = B[1]
<1>1. /\ entry \in Entries /\ node[n] \in NodeSet /\ node[n].at \in Nat /\ Width(n) \in Nat
      /\ Places(n) = 1 .. Width(n) /\ node[n].at + 1 \in Places(n) /\ StateOK
      /\ entry.kind[n] \in {"sequence", "any", "none"}
  <2>1. /\ entry \in Entries /\ node[n] \in NodeSet /\ StateOK
    BY DEF IInv, StateOK, NodeOK
  <2>2. /\ node[n].at \in Nat /\ Width(n) \in Nat /\ Places(n) = 1 .. Width(n)
        /\ entry.kind[n] \in Kinds /\ (entry.kind[n] = "leaf" => Width(n) = 0)
    BY <2>1, Tree DEF NodeSet
  <2> QED BY <2>1, <2>2 DEF Kinds
<1>2. PICK i : i = node[n].at + 1
  OBVIOUS
<1>3. PICK b : b = Kid(n, i)
  OBVIOUS
<1> DEFINE s == Turned(n)
           f == Only(b, Begun(how))
<1>4. b \in Nodes /\ b # n /\ DOMAIN f = {b} /\ f[b] = Begun(how)
  <2>1. Kid(n, i) \in Nodes /\ Kid(n, i) > n /\ Nodes \subseteq Nat
    BY <1>1, <1>2, Tree
  <2>2. b \in Nodes /\ b # n
    BY <1>3, <2>1
  <2> QED BY <2>2 DEF Only
<1>5. s.at = i /\ s.phase = "wait" /\ s.how = node[n].how
  BY <1>1, <1>2 DEF NodeSet, Turned
<1>6. Becomes(And(Only(n, s), f))
  BY <1>2, <1>3
<1> HIDE DEF s, f
<1>7. /\ UNCHANGED <<entry, now, holds, changes>> /\ NodeMap' /\ node'[n] = s
      /\ node'[b] = Begun(how) /\ \A m \in Nodes : m # n /\ m # b => node'[m] = node[m]
  BY <1>1, <1>4, <1>6, BothChange
<1>8. Still /\ Active(n)
  BY <1>1, <1>7 DEF Still, StateOK, Active
<1>9. PICK X : X = {b}
  OBVIOUS
<1>10. Touches(n, X)
  <2>1. /\ \A x \in X : \E j \in Places(n) : x = Kid(n, j)
        /\ \A m \in Nodes : m # n /\ m \notin X => node'[m] = node[m]
    BY <1>1, <1>2, <1>3, <1>7, <1>9
  <2> QED BY <1>7, <1>8, <2>1, GroupTouches
<1>11. PICK C : C = [m \in Nodes |-> IF m = b THEN By(L, O, b, how) ELSE B[m]]
  OBVIOUS
<1>12. C[b] = By(L, O, b, how) /\ \A m \in Nodes : m # b => C[m] = B[m]
  BY <1>4, <1>11
<1>13. TimeOK(L, O, B, n) /\ Plan(L, O) /\ B[n] \in Int
  BY DEF Timed
<1>14. how \in Modes /\ (how = "single" => Deadline = 0) /\ (how = "converge" => now <= Deadline)
  BY <1>1, <1>8, <1>13 DEF KidMode, NodeSet, Modes, TimeOK, Converges
<1>15. /\ ~Waiting(b)' /\ Phase(b)' # "idle" /\ TimeOK(L, O, C, b)' /\ C[b] \in Nat
       /\ Deadline <= C[b] /\ now <= C[b]
  BY <1>4, <1>7, <1>12, <1>13, <1>14, KidTimes
<1>16. /\ Deadline' = Deadline /\ Latest' = Latest
       /\ \A m : Places(m)' = Places(m) /\ \A j : Kid(m, j)' = Kid(m, j)
  BY <1>7, ClockStays
<1>17. /\ now \in Nat /\ Deadline \in Nat /\ Latest \in Nat /\ now <= Latest
       /\ (now <= Deadline => Latest = Deadline)
  BY ClockType
<1>18. TimeOK(L, O, C, n)'
  <2>1. C[n] = B[n]
    BY <1>4, <1>12
  <2> QED BY <1>1, <1>5, <1>7, <1>8, <1>13, <1>16, <2>1 DEF TimeOK, Active, Phase, Converges
<1>19. C[b] + (IF Converges(n) THEN 0 ELSE L[node[n].how][n][i]) <= B[n]
  <2>1. CASE Converges(n)
    <3>1. B[n] = Deadline + O[n] /\ now <= Deadline
      BY <1>8, <1>13, <2>1 DEF TimeOK
    <3>2. O[n] \in Nat /\ O[b] \in Nat
      BY <1>4, <1>13 DEF Plan
    <3>3. CASE entry.kind[n] = "sequence"
      <4>1. O[b] <= O[n]
        BY <1>1, <1>2, <1>3, <1>13, <3>3 DEF Plan
      <4>2. C[b] = Deadline + O[b]
        BY <1>12, <2>1, <3>3 DEF By, KidMode, Converges
      <4> QED BY <1>17, <2>1, <3>1, <3>2, <4>1, <4>2
    <3>4. CASE entry.kind[n] # "sequence"
      <4>1. L["round"][b][0] <= O[n]
        BY <1>1, <1>2, <1>3, <1>13, <3>4 DEF Plan
      <4>2. C[b] = Deadline + L["round"][b][0]
        BY <1>1, <1>12, <1>17, <2>1, <3>1, <3>4 DEF By, KidMode, Converges
      <4>3. L["round"][b][0] \in Nat
        BY <1>4, <1>13 DEF Plan, Turn
      <4>4. C[b] <= B[n]
        BY <1>17, <3>1, <3>2, <4>1, <4>2, <4>3
      <4> QED BY <1>15, <2>1, <4>4
    <3> QED BY <3>3, <3>4
  <2>2. CASE ~Converges(n)
    <3>1. how = node[n].how /\ how \in Turn /\ how # "converge"
      BY <1>1, <2>2 DEF KidMode, NodeSet, Modes, Turn, Converges
    <3>2. L[how][n][i - 1] = L[how][n][i] + L[how][b][0]
      BY <1>1, <1>2, <1>3, <1>13, <3>1 DEF Plan
    <3>3. Latest + L[how][n][i - 1] <= B[n]
      <4>1. i - 1 = node[n].at
        BY <1>1, <1>2
      <4> QED BY <1>8, <1>13, <2>2, <3>1, <4>1 DEF TimeOK
    <3>4. C[b] = Latest + L[how][b][0]
      BY <1>12, <3>1 DEF By
    <3>5. L[how][n][i] \in Nat /\ L[how][b][0] \in Nat
      <4>1. i \in Nat /\ \A m \in Nodes : \A j \in Nat : L[how][m][j] \in Nat
        BY <1>1, <1>2, <1>13, <3>1 DEF Plan
      <4> QED BY <1>4, <4>1
    <3>6. C[b] + L[how][n][i] <= B[n]
      BY <1>13, <1>17, <3>2, <3>3, <3>4, <3>5
    <3> QED BY <2>2, <3>1, <3>6
  <2> QED BY <2>1, <2>2
<1>20. ASSUME NEW j \in Places(n) PROVE LinkTime(L, C, n, j)'
  <2>1. C[n] = B[n]
    BY <1>4, <1>12
  <2>2. CASE j # i
    BY <1>1, <1>5, <1>7, <2>2 DEF LinkTime
  <2>3. CASE j = i
    <3>1. Kid(n, j)' = b
      BY <1>3, <1>16, <2>3
    <3>2. (IF Converges(n) THEN 0 ELSE L[node[n].how][n][j])'
            = (IF Converges(n) THEN 0 ELSE L[node[n].how][n][i])
      BY <1>5, <1>7, <2>3 DEF Converges
    <3> QED BY <1>1, <1>7, <1>15, <1>16, <1>19, <2>1, <3>1, <3>2 DEF LinkTime
  <2> QED BY <2>2, <2>3
<1>21. \A m \in Nodes : C[m] \in Int /\ (m \notin X => C[m] = B[m])
  <2>1. \A m \in Nodes : B[m] \in Int
    BY DEF Timed
  <2> QED BY <1>9, <1>12, <1>15, <2>1
<1>22. Phase(n)' # "idle"
  BY <1>5, <1>7 DEF Phase
<1>23. \A x \in X : ~Waiting(x)' /\ TimeOK(L, O, C, x)'
  BY <1>9, <1>15
<1> QED BY <1>8, <1>10, <1>18, <1>20, <1>21, <1>22, <1>23, TimesStay
LEMMA SequenceTimes ==
  ASSUME IInv, NEW L, NEW O, NEW B, Timed(L, O, B), NEW n \in Nodes,
         SequenceExpires(n) \/ SequenceProceeds(n) \/ SequenceHears(n)
  PROVE  \E C : Timed(L, O, C)' /\ C[1] = B[1]
<1>1. /\ entry.kind[n] = "sequence" /\ Active(n) /\ UNCHANGED errors
      /\ node[n] \in NodeSet /\ node[n].at \in Nat /\ node[n].at <= Width(n) /\ Width(n) \in Nat
  <2>1. entry.kind[n] = "sequence" /\ Active(n) /\ UNCHANGED errors
    BY DEF SequenceExpires, SequenceProceeds, SequenceHears, At, Active, Phase
  <2>2. Width(n) \in Nat
    BY Tree DEF IInv, StateOK
  <2> QED BY <2>1, <2>2 DEF IInv, NodeOK, NodeSet
<1>2. CASE SequenceExpires(n)
  <2>1. Becomes(And(Only(n, Finish(n, "fail")), Skipped(n, node[n].at, "fail", "exhausted")))
    BY <1>2 DEF SequenceExpires
  <2>2. Timed(L, O, B)'
    BY <1>1, <2>1, FinishTimes DEF Statuses
  <2> QED BY <2>2
<1>3. CASE SequenceProceeds(n) /\ node[n].at = Width(n)
  <2>1. PICK s, f : s = Finish(n, "pass") /\ f = [k \in {} |-> Idle]
    OBVIOUS
  <2>2. s.phase = "done"
    BY <2>1, FinishFollows DEF Statuses
  <2>3. Becomes(And(Only(n, s), f))
    <3>1. Becomes(Only(n, s))
      BY <1>3, <2>1 DEF SequenceProceeds
    <3>2. And(Only(n, s), f) = Only(n, s)
      BY <2>1 DEF And, Only
    <3> QED BY <3>1, <3>2
  <2>4. DOMAIN f = {}
    BY <2>1
  <2>5. Timed(L, O, B)'
    BY <1>1, <2>2, <2>3, <2>4, SkipTimes
  <2> QED BY <2>5
<1>4. CASE SequenceProceeds(n) /\ node[n].at # Width(n)
  <2>1. /\ Phase(n) = "run" /\ node[n].at < Width(n) /\ (Converges(n) => now <= Deadline)
    BY <1>1, <1>4, ClockType DEF SequenceProceeds, At, Phase, Converges
  <2>2. PICK how : how = KidMode(n)
    OBVIOUS
  <2>3. how = node[n].how
    BY <1>1, <2>2 DEF KidMode
  <2>4. Becomes(And(Only(n, Turned(n)), Only(Kid(n, node[n].at + 1), Begun(how))))
    BY <1>4, <2>3 DEF SequenceProceeds, Turned, Kid
  <2> QED BY <1>1, <2>1, <2>2, <2>4, BeginsTimes
<1>5. CASE SequenceHears(n)
  <2>1. Phase(n) = "wait"
    BY <1>5 DEF SequenceHears, At, Phase
  <2>2. PICK status : status = node[Child(n)].status
    OBVIOUS
  <2>3. CASE status = "pass"
    <3>1. Timed(L, O, B)'
      BY <1>1, <1>5, <2>1, <2>2, <2>3, HearsTimes DEF SequenceHears
    <3> QED BY <3>1
  <2>4. CASE status # "pass"
    <3>1. status \in Statuses
      <4>1. node[n].at \in Places(n) /\ Child(n) = Kid(n, node[n].at)
        BY <1>1, <2>1, Tree DEF IInv, StateOK, NodeOK, Waiting, Child, Kid
      <4> QED BY <2>2, <4>1, StatusType DEF Status
    <3>2. Becomes(And(Only(n, Finish(n, status)), Skipped(n, node[n].at, status, "unseen")))
      BY <1>5, <2>2, <2>4 DEF SequenceHears
    <3>3. Timed(L, O, B)'
      BY <1>1, <3>1, <3>2, FinishTimes
    <3> QED BY <3>3
  <2> QED BY <2>3, <2>4
<1> QED BY <1>2, <1>3, <1>4, <1>5

LEMMA ChoiceTimes ==
  ASSUME IInv, NEW L, NEW O, NEW B, Timed(L, O, B), NEW n \in Nodes,
         ChoiceProceeds(n) \/ RoundRunsOut(n) \/ ChoiceHears(n)
  PROVE  \E C : Timed(L, O, C)' /\ C[1] = B[1]
<1>1. /\ IsChoice(n) /\ entry.kind[n] \in {"any", "none"} /\ entry.kind[n] # "parallel"
      /\ Active(n) /\ UNCHANGED errors
      /\ node[n].at \in Nat /\ TimeOK(L, O, B, n)
  <2>1. /\ IsChoice(n) /\ Active(n) /\ UNCHANGED errors
    BY DEF ChoiceProceeds, RoundRunsOut, ChoiceHears, Active, Phase
  <2> QED BY <2>1 DEF IsChoice, IInv, NodeOK, NodeSet, Timed
<1>2. CASE ChoiceProceeds(n)
  <2>1. /\ Phase(n) = "run" /\ node[n].at < Width(n)
    BY <1>2 DEF ChoiceProceeds, Phase
  <2>2. Converges(n) => now <= Deadline
    <3>1. HAVE Converges(n)
    <3>2. CASE node[n].at = 0
      BY <1>1, <2>1, <3>1, <3>2 DEF TimeOK
    <3>3. CASE node[n].at # 0
      <4>1. ~(now >= Deadline)
        BY <1>1, <1>2, <3>1, <3>3 DEF ChoiceProceeds, RoundExpired, Converges
      <4> QED BY <4>1, ClockType
    <3> QED BY <3>2, <3>3
  <2>3. PICK how : how = KidMode(n)
    OBVIOUS
  <2>4. how = RoundMode(n)
    <3>1. node[n].how \in Modes
      BY DEF IInv, NodeOK, NodeSet
    <3> QED BY <1>1, <2>3, <3>1 DEF KidMode, RoundMode, Modes, Converges
  <2>5. Becomes(And(Only(n, Turned(n)), Only(Kid(n, node[n].at + 1), Begun(how))))
    BY <1>2, <2>4 DEF ChoiceProceeds, Turned, Kid
  <2> QED BY <1>1, <2>1, <2>2, <2>3, <2>5, BeginsTimes
<1>3. CASE RoundRunsOut(n)
  <2>1. PICK f : f = Skipped(n, node[n].at, "error", "unseen")
    OBVIOUS
  <2>2. PICK statuses : EndRound(n, statuses, f)
    BY <1>3, <2>1 DEF RoundRunsOut
  <2>3. \A x \in DOMAIN f : f[x].phase = "done" /\ \E i \in Places(n) : x = Kid(n, i)
    <3>1. SkipsRest(n, f, Given("error", "unseen"))
      BY <2>1, SkippedKids
    <3>2. Given("error", "unseen").phase = "done"
      BY FreshNodes DEF Statuses
    <3> QED BY <3>1, <3>2 DEF SkipsRest
  <2>4. Timed(L, O, B)'
    BY <1>1, <2>2, <2>3, RoundTimes
  <2> QED BY <2>4
<1>4. CASE ChoiceHears(n) /\ node[Child(n)].status = "pass"
  <2>1. PICK f : f = [k \in {} |-> Idle]
    OBVIOUS
  <2>2. PICK statuses : EndRound(n, statuses, f)
    BY <1>4, <2>1 DEF ChoiceHears
  <2>3. DOMAIN f = {}
    BY <2>1
  <2>4. Timed(L, O, B)'
    BY <1>1, <2>2, <2>3, RoundTimes
  <2> QED BY <2>4
<1>5. CASE ChoiceHears(n) /\ node[Child(n)].status # "pass"
  <2>1. Phase(n) = "wait" /\ Becomes(Only(n, [node[n] EXCEPT !.phase = "run"]))
    BY <1>5 DEF ChoiceHears, Phase
  <2>2. Timed(L, O, B)'
    BY <1>1, <2>1, HearsTimes
  <2> QED BY <2>2
<1> QED BY <1>2, <1>3, <1>4, <1>5

(* A new round begins no later than the deadline. *)
LEMMA NextRoundTimes ==
  ASSUME IInv, NEW L, NEW O, NEW B, Timed(L, O, B), NEW n \in Nodes, NextRound(n)
  PROVE  Timed(L, O, B)'
<1>1. PICK s : s = [node[n] EXCEPT !.phase = "run", !.at = 0]
  OBVIOUS
<1>2. PICK X : X = Below[n]
  OBVIOUS
<1>3. PICK f : f = [k \in X |-> Idle]
  OBVIOUS
<1>4. /\ IsChoice(n) /\ entry.kind[n] # "parallel" /\ Phase(n) = "sleep" /\ now = node[n].due
      /\ Active(n) /\ errors' = errors /\ entry \in Entries /\ StateOK
      /\ node[n] \in NodeSet /\ Becomes(And(Only(n, s), f))
  BY <1>1, <1>2, <1>3 DEF NextRound, IsChoice, Phase, Active, IInv, StateOK, NodeOK
<1>5. s.phase = "run" /\ s.how = node[n].how /\ s.at = 0
  BY <1>1, <1>4 DEF NodeSet
<1>6. /\ \A x \in X : x \in Nodes /\ x > n
      /\ \A m \in Nodes : \A i \in Places(m) : Kid(m, i) \in X => m = n \/ m \in X
      /\ n \notin X
  <2>1. n \in Nat
    BY <1>4, Tree
  <2> QED BY <1>2, <1>4, <2>1, BelowFacts
<1>7. /\ UNCHANGED <<entry, now, holds, changes>> /\ NodeMap'
      /\ node'[n] = s
      /\ \A m \in Nodes : m # n => node'[m] = IF m \in DOMAIN f THEN f[m] ELSE node[m]
  BY <1>3, <1>4, <1>6, BothChange
<1>8. /\ \A x \in X : node'[x] = Idle
      /\ \A m \in Nodes : m # n /\ m \notin X => node'[m] = node[m]
  BY <1>3, <1>6, <1>7
<1>9. Still /\ Touches(n, X)
  BY <1>4, <1>6, <1>7, <1>8 DEF Still, Touches, StateOK
<1>10. TimeOK(L, O, B, n)'
  <2>1. TimeOK(L, O, B, n) /\ Deadline' = Deadline
    BY <1>7, ClockStays DEF Timed
  <2>2. Converges(n) /\ node[n].due <= Deadline
    BY <1>4, <2>1 DEF TimeOK
  <2> QED BY <1>4, <1>5, <1>7, <2>1, <2>2 DEF TimeOK, Active, Phase, Converges
<1>11. \A x \in X : node'[x].phase \in {"idle", "done"}
  BY <1>8 DEF Idle
<1>12. Phase(n)' \in {"run", "call", "sleep", "done"}
  BY <1>5, <1>7 DEF Phase
<1> QED BY <1>9, <1>10, <1>11, <1>12, QuietTimes

(* A parallel group waits no longer than it has time for, or than all its  *)
(* children take. *)
LEMMA ParallelBeginsTimes ==
  ASSUME IInv, NEW L, NEW O, NEW B, Timed(L, O, B), NEW n \in Nodes, ParallelBegins(n)
  PROVE  \E C : Timed(L, O, C)' /\ C[1] = B[1]
<1>1. PICK due : due = now + (IF Wait(n) < 0 THEN 0 ELSE Wait(n))
  OBVIOUS
<1>2. PICK X : X = Kids(n)
  OBVIOUS
<1>2a. PICK how : how = node[n].how
  OBVIOUS
<1>2b. PICK s : s = [node[n] EXCEPT !.phase = "wait", !.due = due]
  OBVIOUS
<1>3. PICK f : f = [k \in X |-> Begun(how)]
  OBVIOUS
<1>4. /\ entry.kind[n] = "parallel" /\ Phase(n) = "run" /\ Active(n) /\ errors' = errors
      /\ entry \in Entries /\ StateOK /\ node[n] \in NodeSet /\ how \in Modes
      /\ Becomes(And(Only(n, s), f))
  BY <1>1, <1>2, <1>2a, <1>2b, <1>3 DEF ParallelBegins, At, Phase, Active, IInv, StateOK, NodeOK, NodeSet
<1>5. s.phase = "wait" /\ s.how = how /\ s.at = node[n].at /\ s.due = due
  BY <1>2a, <1>2b, <1>4 DEF NodeSet
<1>6. /\ \A x \in X : x \in Nodes /\ x # n /\ \E i \in Places(n) : x = Kid(n, i)
      /\ \A i \in Places(n) : Kid(n, i) \in X
  <2>1. Nodes \subseteq Nat
    BY <1>4, Tree
  <2>2. /\ Kids(n) = {Kid(n, i) : i \in Places(n)}
        /\ \A i \in Places(n) : Kid(n, i) \in Nodes /\ Kid(n, i) > n
    BY <1>4, Tree
  <2> QED BY <1>2, <2>1, <2>2
<1>7. /\ UNCHANGED <<entry, now, holds, changes>> /\ NodeMap'
      /\ node'[n] = s
      /\ \A m \in Nodes : m # n => node'[m] = IF m \in DOMAIN f THEN f[m] ELSE node[m]
  <2>1. n \notin DOMAIN f
    BY <1>3, <1>6
  <2> QED BY <1>4, <2>1, BothChange
<1>8. /\ \A x \in X : node'[x] = Begun(how)
      /\ \A m \in Nodes : m # n /\ m \notin X => node'[m] = node[m]
  BY <1>3, <1>6, <1>7
<1>9. Still
  BY <1>4, <1>7 DEF Still, StateOK
<1>10. Touches(n, X)
  BY <1>4, <1>6, <1>7, <1>8, <1>9, GroupTouches
<1>11. PICK C : C = [m \in Nodes |-> IF m \in X THEN By(L, O, m, how) ELSE B[m]]
  OBVIOUS
<1>12. /\ \A x \in X : C[x] = By(L, O, x, how)
       /\ \A m \in Nodes : m \notin X => C[m] = B[m]
       /\ C[n] = B[n]
  BY <1>6, <1>11
<1>13. TimeOK(L, O, B, n) /\ Plan(L, O) /\ B[n] \in Int
  BY DEF Timed
<1>14. /\ now \in Nat /\ Deadline \in Nat /\ Latest \in Nat /\ Deadline <= Latest /\ now <= Latest
       /\ Grace \in Nat /\ Ceiling \in Nat
  BY ClockType
<1>15. /\ Deadline <= B[n] /\ node[n].at = 0
       /\ how = "single" => Deadline = 0
       /\ how = "converge" => now <= Deadline /\ B[n] = Deadline + O[n]
       /\ how # "converge" => Latest + L[how][n][0] <= B[n]
  BY <1>2a, <1>4, <1>13 DEF TimeOK, Converges
<1>16. \A x \in X : ~Waiting(x)' /\ Phase(x)' # "idle" /\ TimeOK(L, O, C, x)' /\ C[x] \in Nat
  BY <1>4, <1>6, <1>7, <1>8, <1>12, <1>13, <1>15, KidTimes
<1>17. \A x \in X : O[x] \in Nat /\ (how # "converge" => L[how][x][0] \in Nat)
  BY <1>4, <1>6, <1>13 DEF Plan, Modes, Turn
<1>18. O[n] \in Nat /\ (how # "converge" => L[how][n][0] \in Nat)
  BY <1>4, <1>13 DEF Plan, Modes, Turn
<1>19. due <= B[n] \/ \A i \in Places(n) : C[Kid(n, i)] <= B[n]
  <2>1. CASE how = "converge"
    <3>1. Wait(n) = Deadline + Grace - now
      BY <1>2a, <2>1 DEF Wait
    <3>2. due = Deadline + Grace
      BY <1>1, <1>14, <1>15, <2>1, <3>1
    <3>3. CASE Grace <= O[n]
      BY <1>14, <1>15, <1>18, <2>1, <3>2, <3>3
    <3>4. CASE \A i \in Places(n) : O[Kid(n, i)] <= O[n]
      <4>1. SUFFICES ASSUME NEW i \in Places(n) PROVE C[Kid(n, i)] <= B[n]
        OBVIOUS
      <4>2. C[Kid(n, i)] = Deadline + O[Kid(n, i)] /\ O[Kid(n, i)] \in Nat
        BY <1>6, <1>12, <1>17, <2>1 DEF By
      <4> QED BY <1>14, <1>15, <1>18, <2>1, <3>4, <4>2
    <3> QED BY <1>4, <1>13, <3>3, <3>4 DEF Plan
  <2>2. CASE how = "single"
    <3>1. Wait(n) = Ceiling
      BY <1>2a, <1>14, <1>15, <2>2 DEF Wait
    <3>2. due = now + Ceiling
      BY <1>1, <1>14, <3>1
    <3>3. CASE Ceiling <= L["single"][n][0]
      BY <1>13, <1>14, <1>15, <1>18, <2>2, <3>2, <3>3
    <3>4. CASE \A i \in Places(n) : L["single"][Kid(n, i)][0] <= L["single"][n][0]
      <4>1. SUFFICES ASSUME NEW i \in Places(n) PROVE C[Kid(n, i)] <= B[n]
        OBVIOUS
      <4>2. /\ C[Kid(n, i)] = Latest + L["single"][Kid(n, i)][0]
            /\ L["single"][Kid(n, i)][0] \in Nat
        BY <1>6, <1>12, <1>17, <2>2 DEF By
      <4> QED BY <1>13, <1>14, <1>15, <1>18, <2>2, <3>4, <4>2
    <3> QED BY <1>4, <1>13, <3>3, <3>4 DEF Plan
  <2>3. CASE how = "round"
    <3>1. CASE Deadline > now
      <4>1. Wait(n) = Least(Ceiling, Deadline - now)
        BY <1>2a, <2>3, <3>1 DEF Wait
      <4>2. due <= Deadline
        BY <1>1, <1>14, <3>1, <4>1 DEF Least
      <4>3. due \in Int
        BY <1>1, <1>14, <4>1 DEF Least
      <4> QED BY <1>13, <1>14, <1>15, <4>2, <4>3
    <3>2. CASE ~(Deadline > now)
      <4>1. Wait(n) = Grace
        BY <1>2a, <2>3, <3>2 DEF Wait
      <4>2. L["round"][n][0] = Grace
        BY <1>4, <1>13 DEF Plan
      <4> QED BY <1>1, <1>13, <1>14, <1>15, <2>3, <4>1, <4>2
    <3> QED BY <3>1, <3>2
  <2> QED BY <1>4, <2>1, <2>2, <2>3 DEF Modes
<1>20. /\ Deadline' = Deadline /\ Latest' = Latest
       /\ \A m : Places(m)' = Places(m) /\ \A j : Kid(m, j)' = Kid(m, j)
  BY <1>7, ClockStays
<1>21. TimeOK(L, O, C, n)'
  BY <1>2a, <1>4, <1>5, <1>7, <1>12, <1>13, <1>20 DEF TimeOK, Active, Phase, Converges
<1>22. ASSUME NEW i \in Places(n) PROVE LinkTime(L, C, n, i)'
  <2>1. PICK k : k = Kid(n, i)
    OBVIOUS
  <2>2. k \in X /\ Kid(n, i)' = k /\ Phase(k)' # "idle"
    BY <1>6, <1>16, <1>20, <2>1
  <2>3. due <= C[n] \/ C[k] <= C[n]
    BY <1>12, <1>19, <2>1
  <2> QED BY <1>4, <1>5, <1>7, <2>2, <2>3 DEF LinkTime
<1>23. \A m \in Nodes : C[m] \in Int /\ (m \notin X => C[m] = B[m])
  BY <1>12, <1>16 DEF Timed
<1>24. Phase(n)' # "idle"
  BY <1>5, <1>7 DEF Phase
<1> QED BY <1>9, <1>10, <1>16, <1>21, <1>22, <1>23, <1>24, TimesStay
LEMMA ParallelCollectsTimes ==
  ASSUME IInv, NEW L, NEW O, NEW B, Timed(L, O, B), NEW n \in Nodes, ParallelCollects(n)
  PROVE  Timed(L, O, B)'
<1>1. PICK late : late = {k \in Kids(n) : ~Done(k)}
  OBVIOUS
<1>2. PICK X : X = late \cup UNION {Below[k] : k \in late}
  OBVIOUS
<1>3. PICK f : f = [k \in X |-> IF k \in late THEN Given("error", "unseen") ELSE Idle]
  OBVIOUS
<1>4. PICK status : status = Conjunction({IF k \in late THEN "error" ELSE node[k].status
                                          : k \in Kids(n)})
  OBVIOUS
<1>5. PICK s : s = Finish(n, status)
  OBVIOUS
<1>6. /\ Active(n) /\ errors' = errors /\ entry \in Entries /\ StateOK
      /\ Becomes(And(Only(n, s), f))
  BY <1>1, <1>2, <1>3, <1>4, <1>5
     DEF ParallelCollects, At, Phase, Active, IInv, StateOK
<1>7. s.phase = "done"
  <2>1. status \in Statuses
    BY <1>4 DEF Conjunction, Statuses
  <2> QED BY <1>5, <2>1, FinishFollows
<1>8. /\ \A x \in X : x \in Nodes /\ x > n
      /\ \A m \in Nodes : \A i \in Places(m) : Kid(m, i) \in X => m = n \/ m \in X
      /\ n \notin X
  <2>1. late \subseteq Kids(n)
    BY <1>1
  <2>2. \A x : x \in X <=> x \in late \/ \E k \in late : x \in Below[k]
    BY <1>2
  <2>3. /\ \A x \in X : x \in Nodes /\ x > n
        /\ \A m \in Nodes : \A i \in Places(m) : Kid(m, i) \in X => m = n \/ m \in X
    BY <1>6, <2>1, <2>2, LateKids
  <2>4. n \in Nat
    BY <1>6, Tree
  <2> QED BY <2>3, <2>4
<1>9. /\ UNCHANGED <<entry, now, holds, changes>> /\ NodeMap'
      /\ node'[n] = s
      /\ \A m \in Nodes : m # n => node'[m] = IF m \in DOMAIN f THEN f[m] ELSE node[m]
  <2>1. n \notin DOMAIN f
    BY <1>3, <1>8
  <2> QED BY <1>6, <2>1, BothChange
<1>10. /\ \A x \in X : node'[x] = IF x \in late THEN Given("error", "unseen") ELSE Idle
       /\ \A m \in Nodes : m # n /\ m \notin X => node'[m] = node[m]
  BY <1>3, <1>8, <1>9
<1>11. \A x \in X : node'[x].phase \in {"idle", "done"}
  <2>1. Given("error", "unseen").phase = "done" /\ Idle.phase = "idle"
    BY FreshNodes DEF Idle, Statuses
  <2> QED BY <1>10, <2>1
<1>12. Still /\ Touches(n, X)
  BY <1>6, <1>8, <1>9, <1>10 DEF Still, StateOK, Touches
<1>13. Phase(n)' = "done"
  BY <1>7, <1>9 DEF Phase
<1>14. TimeOK(L, O, B, n)'
  BY <1>13 DEF TimeOK, Active
<1> QED BY <1>11, <1>12, <1>13, <1>14, QuietTimes

LEMMA StepTimes ==
  ASSUME IInv, NEW L, NEW O, NEW B, Timed(L, O, B), NEW n \in Nodes, Step(n)
  PROVE  \E C : Timed(L, O, C)' /\ C[1] = B[1]
<1>1. Timed(L, O, B)' => \E C : Timed(L, O, C)' /\ C[1] = B[1]
  OBVIOUS
<1>2. CASE LeafExpires(n) \/ BeginCall(n) \/ EndCall(n)
  BY <1>1, <1>2, LeafTimesOK
<1>3. CASE SequenceExpires(n) \/ SequenceProceeds(n) \/ SequenceHears(n)
  BY <1>3, SequenceTimes
<1>4. CASE ChoiceProceeds(n) \/ RoundRunsOut(n) \/ ChoiceHears(n)
  BY <1>4, ChoiceTimes
<1>5. CASE NextRound(n)
  BY <1>1, <1>5, NextRoundTimes
<1>6. CASE ParallelBegins(n)
  BY <1>6, ParallelBeginsTimes
<1>7. CASE ParallelCollects(n)
  BY <1>1, <1>7, ParallelCollectsTimes
<1> QED BY <1>2, <1>3, <1>4, <1>5, <1>6, <1>7 DEF Step

(* Time passes only while all that is under way has time left: from the    *)
(* calls and sleeps up to the root. *)
LEMMA TickTimes ==
  ASSUME IInv, NEW L, NEW O, NEW B, Timed(L, O, B), Tick
  PROVE  Timed(L, O, B)'
<1>1. /\ entry' = entry /\ node' = node /\ now' = now + 1 /\ now \in Nat /\ Deadline \in Nat
      /\ ~Done(1) /\ \A n \in Nodes : CanWait(n)
      /\ entry \in Entries /\ 1 \in Nodes
  BY ClockType, Tree DEF Tick, IInv, StateOK
<1>2. /\ Nodes' = Nodes /\ Deadline' = Deadline
      /\ \A n : Places(n)' = Places(n) /\ \A i : Kid(n, i)' = Kid(n, i)
  BY <1>1 DEF Nodes, Deadline, Places, Kid
<1>3. \A n \in Nodes : B[n] \in Int /\ TimeOK(L, O, B, n)
  BY DEF Timed
<1>4. \A n \in Nodes : ~Done(n) /\ Phase(n) # "idle" => Active(n)
  BY DEF IInv, NodeOK, NodeSet, Active, Phase, Done
<1>5. \A n \in Nodes : Active(n) => Phase(n) # "run"
  BY <1>1 DEF CanWait, At, Phase, Active
<1>6. ASSUME NEW n \in Nodes, Waiting(n), entry.kind[n] # "parallel"
      PROVE  node[n].at \in Places(n) /\ ~Done(Kid(n, node[n].at))
  <2>1. ~Done(Child(n))
    BY <1>1, <1>6 DEF CanWait, At, Waiting, Phase
  <2>2. node[n].at \in Nat /\ node[n].at # 0 /\ node[n].at <= Width(n)
    BY <1>6 DEF IInv, NodeOK, NodeSet
  <2> QED BY <1>1, <2>1, <2>2, Tree DEF Child, Kid
<1> DEFINE S == {n \in Nodes : Active(n) => now + 1 <= B[n]}
<1>7. ASSUME NEW n \in Nodes, \A i \in Places(n) : Kid(n, i) \in S, Active(n)
      PROVE  now + 1 <= B[n]
  <2>1. B[n] \in Int /\ TimeOK(L, O, B, n) /\ node[n].due \in Nat
    BY <1>3 DEF IInv, NodeOK, NodeSet
  <2>2. CASE Phase(n) \in {"call", "sleep"}
    <3>1. now < node[n].due
      BY <1>1, <2>2 DEF CanWait, At, Phase
    <3>2. node[n].due <= B[n]
      BY <1>1, <1>7, <2>1, <2>2 DEF TimeOK
    <3> QED BY <1>1, <2>1, <3>1, <3>2
  <2>3. CASE Waiting(n) /\ entry.kind[n] = "parallel"
    <3>1. now < node[n].due /\ \E k \in Kids(n) : ~Done(k)
      BY <1>1, <2>3 DEF CanWait, At, Waiting, Phase
    <3>2. PICK i \in Places(n) : ~Done(Kid(n, i))
      BY <1>1, <3>1, Tree
    <3>3. Kid(n, i) \in Nodes
      BY <1>1, Tree
    <3>4. /\ Phase(Kid(n, i)) # "idle"
          /\ node[n].due <= B[n] \/ B[Kid(n, i)] <= B[n]
      BY <2>3 DEF Timed, LinkTime
    <3>5. now + 1 <= B[Kid(n, i)]
      BY <1>4, <1>7, <3>2, <3>3, <3>4
    <3> QED BY <1>1, <1>3, <2>1, <3>1, <3>3, <3>4, <3>5
  <2>4. CASE Waiting(n) /\ entry.kind[n] # "parallel"
    <3>1. PICK i \in Places(n) : i = node[n].at
      BY <1>6, <2>4
    <3>2. Kid(n, i) \in Nodes /\ ~Done(Kid(n, i)) /\ i \in Nat
      BY <1>1, <1>6, <2>4, <3>1, Tree
    <3>3. /\ Phase(Kid(n, i)) # "idle"
          /\ B[Kid(n, i)] + (IF Converges(n) THEN 0 ELSE L[node[n].how][n][i]) <= B[n]
      BY <2>4, <3>1 DEF Timed, LinkTime
    <3>4. ~Converges(n) => L[node[n].how][n][i] \in Nat
      BY <3>2 DEF Timed, Plan, IInv, NodeOK, NodeSet, Modes, Turn, Converges
    <3>5. B[Kid(n, i)] <= B[n]
      BY <1>3, <2>1, <3>2, <3>3, <3>4
    <3>6. now + 1 <= B[Kid(n, i)]
      BY <1>4, <1>7, <3>2, <3>3
    <3> QED BY <1>1, <1>3, <2>1, <3>2, <3>5, <3>6
  <2> QED BY <1>5, <1>7, <2>2, <2>3, <2>4 DEF Active, Waiting
<1>8. \A n \in Nodes : Active(n) => now + 1 <= B[n]
  <2>1. \A n \in Nodes : (\A i \in Places(n) : Kid(n, i) \in S) => n \in S
    BY <1>7
  <2>2. Nodes \subseteq S
    <3> HIDE DEF S
    <3> QED BY <1>1, <2>1, FromTheLeaves
  <2> QED BY <2>2
<1>9. \A n \in Nodes : TimeOK(L, O, B, n)'
  BY <1>1, <1>2, <1>3, <1>5, <1>8 DEF TimeOK, Active, Phase, Converges
<1>10. ASSUME NEW n \in Nodes, NEW i \in Places(n) PROVE LinkTime(L, B, n, i)'
  <2>1. PICK k : k = Kid(n, i)
    OBVIOUS
  <2>2. k \in Nodes /\ Kid(n, i)' = k /\ LinkTime(L, B, n, i)
    BY <1>1, <1>2, <2>1, Tree DEF Timed
  <2>3. Waiting(n) /\ entry.kind[n] # "parallel" /\ i = node[n].at => now + 1 <= B[k]
    BY <1>4, <1>6, <1>8, <2>1, <2>2 DEF LinkTime
  <2> QED BY <1>1, <1>2, <2>1, <2>2, <2>3 DEF LinkTime, Waiting, Phase, Converges
<1>11. (now <= B[1])'
  BY <1>1, <1>4, <1>8 DEF IInv
<1>12. Plan(L, O)'
  BY <1>1, PlanStays DEF Timed
<1> QED BY <1>2, <1>3, <1>9, <1>10, <1>11, <1>12 DEF Timed

(* There are such times, and the root's is what the entry promises. *)
TimeInv ==
  \E L, O, B :
    /\ Timed(L, O, B)
    /\ O = Over /\ L["single"][1][0] = Single[1]
    /\ B[1] = IF entry.mode = "converge" THEN entry.timeout + O[1] ELSE L["single"][1][0]

LEMMA InitTimes == Init => TimeInv
<1> SUFFICES ASSUME Init PROVE TimeInv
  OBVIOUS
<1>1. PICK how : how = IF entry.mode = "converge" THEN "converge" ELSE "single"
  OBVIOUS
<1>2. /\ entry \in Entries /\ now = 0 /\ IInv /\ 1 \in Nodes
      /\ \A n \in Nodes : node[n] = IF n = 1 THEN Begun(how) ELSE Idle
  BY <1>1, InitInv, Tree DEF Init
<1>3. PICK L, O : Plan(L, O) /\ O = Over /\ L["single"][1][0] = Single[1]
  BY <1>2, PlanExists
<1>4. PICK B : B = [n \in Nodes |-> By(L, O, 1, how)]
  OBVIOUS
<1>5. /\ O[1] \in Nat /\ L["single"][1][0] \in Nat /\ entry.timeout \in Nat
  BY <1>2, <1>3, TreeAssumption DEF Plan, Turn
<1>6. /\ Deadline = IF entry.mode = "converge" THEN entry.timeout ELSE 0
      /\ Latest = Deadline
  BY <1>2, <1>5 DEF Deadline, Latest
<1>7. \A n \in Nodes :
        B[n] = IF entry.mode = "converge" THEN entry.timeout + O[1] ELSE L["single"][1][0]
  BY <1>1, <1>4, <1>5, <1>6 DEF By
<1>8. /\ node[1].phase = "run" /\ node[1].how = how /\ node[1].at = 0
      /\ \A n \in Nodes : n # 1 => node[n].phase = "idle"
  <2>1. PICK s : s = Begun(how)
    OBVIOUS
  <2>2. s.phase = "run" /\ s.how = how /\ s.at = 0 /\ Idle.phase = "idle"
    BY <2>1 DEF Begun, Idle
  <2> QED BY <1>2, <2>1, <2>2
<1>9. \A n \in Nodes : B[n] \in Int /\ 0 <= B[n] /\ Deadline <= B[n]
  BY <1>5, <1>6, <1>7
<1>10. ASSUME NEW n \in Nodes PROVE TimeOK(L, O, B, n)
  <2>1. CASE n = 1
    BY <1>1, <1>2, <1>5, <1>6, <1>7, <1>8, <1>9, <2>1 DEF TimeOK, Phase, Converges
  <2>2. CASE n # 1
    BY <1>8, <2>2 DEF TimeOK, Active, Phase
  <2> QED BY <2>1, <2>2
<1>11. \A n \in Nodes : \A i \in Places(n) : LinkTime(L, B, n, i)
  BY <1>8 DEF LinkTime, Waiting, Phase
<1>12. now <= B[1]
  BY <1>2, <1>9
<1>13. Timed(L, O, B)
  BY <1>3, <1>9, <1>10, <1>11, <1>12 DEF Timed
<1> QED BY <1>2, <1>3, <1>7, <1>13 DEF TimeInv

LEMMA CostsStay == entry' = entry => Single' = Single /\ Over' = Over
BY DEF Single, Over, Round, Most, Sum, Nodes, Kids, Width, Least

LEMMA NextTimes == IInv /\ TimeInv /\ [Next]_vars => TimeInv'
<1> SUFFICES ASSUME IInv, TimeInv, [Next]_vars PROVE TimeInv'
  OBVIOUS
<1>1. PICK L, O, B :
        /\ Timed(L, O, B)
        /\ O = Over /\ L["single"][1][0] = Single[1]
        /\ B[1] = IF entry.mode = "converge" THEN entry.timeout + O[1] ELSE L["single"][1][0]
  BY DEF TimeInv
<1>2. entry' = entry
  BY DEF Next, Step, LeafExpires, BeginCall, EndCall, SequenceExpires, SequenceProceeds,
         SequenceHears, ChoiceProceeds, RoundRunsOut, EndRound, ChoiceHears, NextRound,
         ParallelBegins, ParallelCollects, Becomes, Tick, Change, Evaluated, vars
<1>3. Single' = Single /\ Over' = Over
  BY <1>2, CostsStay
<1>4. \E C : Timed(L, O, C)' /\ C[1] = B[1]
  <2>1. ASSUME NEW n \in Nodes, Step(n) PROVE \E C : Timed(L, O, C)' /\ C[1] = B[1]
    BY <1>1, <2>1, StepTimes
  <2>2. CASE Tick
    <3>1. Timed(L, O, B)'
      BY <1>1, <2>2, TickTimes
    <3> QED BY <3>1
  <2>3. CASE entry' = entry /\ now' = now /\ node' = node
    <3>1. Timed(L, O, B)'
      BY <1>1, <2>3 DEF Timed, Plan, TimeOK, LinkTime, Nodes, Places, Kid, Active, Waiting,
                        Phase, Converges, Deadline, Latest
    <3> QED BY <3>1
  <2>4. CASE (\E n \in Leaves : Change(n)) \/ Evaluated \/ UNCHANGED vars
    BY <2>3, <2>4 DEF Change, Evaluated, vars
  <2> QED BY <2>1, <2>2, <2>4 DEF Next
<1>5. PICK C : Timed(L, O, C)' /\ C[1] = B[1]
  BY <1>4
<1>6. (C[1] = IF entry.mode = "converge" THEN entry.timeout + O[1] ELSE L["single"][1][0])'
  BY <1>1, <1>2, <1>5
<1>7. (O = Over /\ L["single"][1][0] = Single[1])'
  BY <1>1, <1>3
<1> QED BY <1>5, <1>6, <1>7 DEF TimeInv

(* An evaluation of any tree ends on its deadline but for what was under   *)
(* way, and in assert mode after one pass, whatever calls answer and       *)
(* however the cluster changes: no group waits for more than its share, no *)
(* round begins late, and nested handoffs do not add up (runner.py,        *)
(* _run_parallel, _poll_rounds and _run_sequence). *)
THEOREM EvaluationsEndInTime == Spec => []EndsInTime
<1>1. Init => TimeInv
  BY InitTimes
<1>2. IInv /\ TimeInv /\ [Next]_vars => TimeInv'
  BY NextTimes
<1>3. TimeInv => EndsInTime
  BY DEF TimeInv, Timed, EndsInTime
<1> QED BY <1>1, <1>2, <1>3, Invariance, PTL DEF Spec

-----------------------------------------------------------------------------
(* The truth.  On a cluster that does not change, each node comes about or *)
(* does not, and what is observed agrees with it.                          *)
IsTrue(n) == Values(Truth)[n] = "true"

LEMMA TruthFacts ==
  ASSUME IInv
  PROVE  \A n \in Nodes :
           /\ Values(Truth)[n] \in {"true", "false"}
           /\ entry.kind[n] = "leaf" => (IsTrue(n) <=> holds[n])
           /\ entry.kind[n] \in {"sequence", "parallel"} =>
                (IsTrue(n) <=> \A i \in Places(n) : IsTrue(Kid(n, i)))
           /\ entry.kind[n] = "any" => (IsTrue(n) <=> \E i \in Places(n) : IsTrue(Kid(n, i)))
           /\ entry.kind[n] = "none" => (IsTrue(n) <=> \A i \in Places(n) : ~IsTrue(Kid(n, i)))
<1>1. PICK v : v = Values(Truth)
  OBVIOUS
<1>2. entry \in Entries /\ \A m \in Nodes : \A i \in Places(m) : Kid(m, i) \in Nodes
  BY Tree DEF IInv, StateOK
<1>3. /\ \A n \in Nodes : n \in DOMAIN Truth <=> entry.kind[n] = "leaf"
      /\ \A n \in DOMAIN Truth : Truth[n] = IF holds[n] THEN "true" ELSE "false"
  BY DEF Truth, Leaves
<1>4. \A n \in Nodes : v[n] = IF n \in DOMAIN Truth THEN Truth[n]
                              ELSE Connective(n, {v[Kid(n, i)] : i \in Places(n)})
  <2>1. \A n \in DOMAIN Truth : Truth[n] \in TruthValues
    BY <1>3 DEF TruthValues
  <2>2. \A n \in Nodes : Values(Truth)[n] =
          IF n \in DOMAIN Truth THEN Truth[n]
          ELSE Connective(n, {Values(Truth)[Kid(n, i)] : i \in Places(n)})
    BY <1>2, <2>1, ValuesAreDefined
  <2> QED BY <1>1, <2>2, Zenon
<1> DEFINE S == {n \in Nodes : v[n] \in {"true", "false"}}
<1>5. ASSUME NEW n \in Nodes, \A i \in Places(n) : Kid(n, i) \in S
      PROVE  n \in S
  <2>1. PICK below : below = {v[Kid(n, i)] : i \in Places(n)}
    OBVIOUS
  <2>2. "unknown" \notin below
    BY <1>5, <2>1
  <2>3. Connective(n, below) \in {"true", "false"}
    BY <2>2 DEF Connective, Conjoined, Disjoined, Opposite
  <2> QED BY <1>3, <1>4, <2>1, <2>3
<1>6. Nodes \subseteq S
  <2> HIDE DEF S
  <2> QED BY <1>2, <1>5, FromTheLeaves
<1>7. \A n \in Nodes : v[n] \in {"true", "false"}
  BY <1>6
<1> HIDE DEF S
<1> SUFFICES ASSUME NEW n \in Nodes
             PROVE  /\ entry.kind[n] = "leaf" => (v[n] = "true" <=> holds[n])
                    /\ entry.kind[n] \in {"sequence", "parallel"} =>
                         (v[n] = "true" <=> \A i \in Places(n) : v[Kid(n, i)] = "true")
                    /\ entry.kind[n] = "any" =>
                         (v[n] = "true" <=> \E i \in Places(n) : v[Kid(n, i)] = "true")
                    /\ entry.kind[n] = "none" =>
                         (v[n] = "true" <=> \A i \in Places(n) : ~(v[Kid(n, i)] = "true"))
  BY <1>1, <1>7 DEF IsTrue
<1>8. entry.kind[n] = "leaf" => (v[n] = "true" <=> holds[n])
  BY <1>3, <1>4
<1>9. PICK below : below = {v[Kid(n, i)] : i \in Places(n)}
  OBVIOUS
<1>10. /\ \A i \in Places(n) : v[Kid(n, i)] \in {"true", "false"}
       /\ "unknown" \notin below
       /\ "true" \in below <=> \E i \in Places(n) : v[Kid(n, i)] = "true"
       /\ "false" \in below <=> \E i \in Places(n) : v[Kid(n, i)] = "false"
  BY <1>2, <1>7, <1>9
<1>11. entry.kind[n] # "leaf" => v[n] = Connective(n, below)
  BY <1>3, <1>4, <1>9
<1> QED BY <1>8, <1>10, <1>11 DEF Connective, Conjoined, Disjoined, Opposite

(* What is true stays so while no leaf changes. *)
LEMMA TruthStays ==
  entry' = entry /\ holds' = holds => \A n : IsTrue(n)' <=> IsTrue(n)
BY DEF IsTrue, Values, Truth, Leaves, Nodes, Kids, Connective, Conjoined, Disjoined, Opposite

(* Nothing is written off, no observation fails, and none is wrong.        *)
SeenTrue(n) ==
  /\ node[n].seen \notin {"exhausted", "error"}
  /\ entry.kind[n] = "leaf" => /\ node[n].seen = "pass" => holds[n]
                               /\ node[n].seen = "fail" => ~holds[n]

LEMMA VerdictAgrees ==
  ASSUME IInv, \A m \in Nodes : SeenTrue(m), NEW n \in Nodes, Done(n), Grounded(n)
  PROVE  /\ Status(n) = "pass" => IsTrue(n)
         /\ Status(n) = "fail" => ~IsTrue(n)
<1>1. PICK v, w : v = Values(Truth) /\ w = Values(Known)
  OBVIOUS
<1>2. entry \in Entries /\ \A m \in Nodes : \A i \in Places(m) : Kid(m, i) \in Nodes
  BY Tree DEF IInv, StateOK
<1>3. /\ \A m \in Nodes : m \in DOMAIN Known <=> entry.kind[m] = "leaf"
      /\ \A m \in DOMAIN Known : Known[m] = IF node[m].seen = "pass" THEN "true"
                                  ELSE IF node[m].seen \in {"fail", "exhausted"} THEN "false"
                                  ELSE "unknown"
  BY DEF Known, Leaves, SeenTrue
<1>4. \A m \in Nodes : w[m] = IF m \in DOMAIN Known THEN Known[m]
                              ELSE Connective(m, {w[Kid(m, i)] : i \in Places(m)})
  BY <1>1, <1>2, <1>3, ValuesAreDefined DEF TruthValues
<1>5. \A m \in Nodes :
        /\ entry.kind[m] \in Kinds
        /\ entry.kind[m] = "leaf" => (v[m] = "true" <=> holds[m])
        /\ entry.kind[m] \in {"sequence", "parallel"} =>
             (v[m] = "true" <=> \A i \in Places(m) : v[Kid(m, i)] = "true")
        /\ entry.kind[m] = "any" => (v[m] = "true" <=> \E i \in Places(m) : v[Kid(m, i)] = "true")
        /\ entry.kind[m] = "none" =>
             (v[m] = "true" <=> \A i \in Places(m) : ~(v[Kid(m, i)] = "true"))
  <2>1. \A m \in Nodes : entry.kind[m] \in Kinds
    BY <1>2, Tree
  <2> QED BY <1>1, <2>1, TruthFacts DEF IsTrue
<1> DEFINE S == {m \in Nodes : /\ w[m] \in TruthValues
                               /\ w[m] = "true" => v[m] = "true"
                               /\ w[m] = "false" => ~(v[m] = "true")}
<1>6. ASSUME NEW m \in Nodes, \A i \in Places(m) : Kid(m, i) \in S
      PROVE  m \in S
  <2>1. CASE entry.kind[m] = "leaf"
    BY <1>3, <1>4, <1>5, <2>1 DEF SeenTrue, TruthValues
  <2>2. CASE entry.kind[m] # "leaf"
    <3>1. PICK below : below = {w[Kid(m, i)] : i \in Places(m)}
      OBVIOUS
    <3>2. /\ w[m] = Connective(m, below) /\ below \in SUBSET TruthValues
          /\ \A i \in Places(m) : w[Kid(m, i)] \in below
      BY <1>3, <1>4, <1>6, <2>2, <3>1
    <3>3. w[m] \in TruthValues
      BY <3>2, ConnectiveType
    <3>4. /\ "true" \in below => \E i \in Places(m) : v[Kid(m, i)] = "true"
          /\ "false" \in below => \E i \in Places(m) : ~(v[Kid(m, i)] = "true")
          /\ "false" \notin below /\ "unknown" \notin below =>
               \A i \in Places(m) : v[Kid(m, i)] = "true"
          /\ "true" \notin below /\ "unknown" \notin below =>
               \A i \in Places(m) : ~(v[Kid(m, i)] = "true")
      BY <1>6, <3>1, <3>2 DEF TruthValues
    <3>5. entry.kind[m] \in {"sequence", "parallel", "any", "none"}
      BY <1>5, <2>2 DEF Kinds
    <3>6. /\ w[m] = "true" => v[m] = "true"
          /\ w[m] = "false" => ~(v[m] = "true")
      BY <1>5, <3>2, <3>4, <3>5 DEF Connective, Conjoined, Disjoined, Opposite
    <3> QED BY <3>3, <3>6
  <2> QED BY <2>1, <2>2
<1>7. Nodes \subseteq S
  <2> HIDE DEF S
  <2> QED BY <1>2, <1>6, FromTheLeaves
<1>8. w[n] = "true" => v[n] = "true"
  BY <1>7
<1>9. w[n] = "false" => ~(v[n] = "true")
  BY <1>7
<1> QED BY <1>1, <1>8, <1>9, StatusIsValue DEF IsTrue

-----------------------------------------------------------------------------
(* Room.  The time of a pass counts the leaves below a node. *)
LEMMA BelowMember ==
  ASSUME entry \in Entries, NEW n \in Nodes, NEW x
  PROVE  x \in Below[n] <=> \E i \in Places(n) : x = Kid(n, i) \/ x \in Below[Kid(n, i)]
<1>1. Kids(n) = {Kid(n, i) : i \in Places(n)}
  BY Tree
<1>2. Below[n] = Kids(n) \cup UNION {Below[k] : k \in Kids(n)}
  BY BelowIsDefined
<1> QED BY <1>1, <1>2

(* What is below a node has its parent there, or is a child of the node.   *)
LEMMA BelowParent ==
  ASSUME entry \in Entries, NEW n \in Nodes, NEW x \in Below[n]
  PROVE  \E p \in Nodes : /\ p = n \/ p \in Below[n]
                          /\ \E q \in Places(p) : x = Kid(p, q)
<1> DEFINE Parented(m) == \A y \in Below[m] :
                            \E p \in Nodes : /\ p = m \/ p \in Below[m]
                                             /\ \E q \in Places(p) : y = Kid(p, q)
           S == {m \in Nodes : Parented(m)}
<1>1. ASSUME NEW m \in Nodes, \A i \in Places(m) : Kid(m, i) \in S
      PROVE  m \in S
  <2> SUFFICES ASSUME NEW y \in Below[m]
               PROVE  \E p \in Nodes : /\ p = m \/ p \in Below[m]
                                       /\ \E q \in Places(p) : y = Kid(p, q)
    OBVIOUS
  <2>1. PICK i \in Places(m) : y = Kid(m, i) \/ y \in Below[Kid(m, i)]
    BY BelowMember
  <2>2. CASE y = Kid(m, i)
    BY <2>2
  <2>3. CASE y \in Below[Kid(m, i)]
    <3>1. PICK p \in Nodes : /\ p = Kid(m, i) \/ p \in Below[Kid(m, i)]
                             /\ \E q \in Places(p) : y = Kid(p, q)
      BY <1>1, <2>3
    <3>2. p \in Below[m]
      BY <3>1, BelowMember
    <3> QED BY <3>1, <3>2
  <2> QED BY <2>1, <2>2, <2>3
<1>2. Nodes \subseteq S
  <2> HIDE DEF S
  <2> QED BY <1>1, FromTheLeaves
<1> QED BY <1>2

(* Different children have nothing below them in common. *)
LEMMA KidsApart ==
  ASSUME entry \in Entries, NEW n \in Nodes, NEW i \in Places(n), NEW j \in Places(n), i # j,
         NEW x, x = Kid(n, i) \/ x \in Below[Kid(n, i)], x = Kid(n, j) \/ x \in Below[Kid(n, j)]
  PROVE  FALSE
<1>1. PICK a, b : a = Kid(n, i) /\ b = Kid(n, j)
  OBVIOUS
<1>2. /\ n \in Nat /\ a \in Nodes /\ b \in Nodes /\ a > n /\ b > n /\ a # b
      /\ Nodes \subseteq Nat
      /\ \A p \in Nodes : \A q \in Places(p) : /\ Kid(p, q) > p
                                               /\ Kid(p, q) = a => p = n
                                               /\ Kid(p, q) = b => p = n
  BY <1>1, Tree
<1> DEFINE In(y, c) == y = c \/ y \in Below[c]
           T == {y \in Nodes : In(y, a) /\ In(y, b)}
<1>3. PICK y \in T : \A z \in T : y <= z
  <2>1. x \in T
    BY <1>1, <1>2, BelowFacts
  <2>2. T \in SUBSET Nat
    BY <1>2
  <2> HIDE DEF T
  <2> QED BY <2>1, <2>2, LeastNumber
<1>4. ASSUME NEW c \in {a, b}, NEW d \in {a, b}, c # d, y \in Below[c]
      PROVE  FALSE
  <2>0. c \in Nodes /\ d \in Nodes /\ c \in Nat /\ c > n /\ In(y, d)
    BY <1>2, <1>3, <1>4
  <2>1. PICK p \in Nodes : In(p, c) /\ \E q \in Places(p) : y = Kid(p, q)
    BY <1>2, <1>4, <2>0, BelowParent
  <2>2. p # n /\ p < y /\ p \in Nat
    <3>1. \A z \in Below[c] : z > c
      BY <2>0, BelowFacts
    <3>2. p # n
      BY <1>2, <2>0, <2>1, <3>1
    <3> QED BY <1>2, <2>1, <3>2
  <2>3. y # d
    BY <1>2, <1>4, <2>1, <2>2
  <2>4. y \in Below[d]
    BY <2>0, <2>3
  <2>5. In(p, d)
    <3>1. \A m \in Nodes : \A q \in Places(m) : Kid(m, q) \in Below[d] => In(m, d)
      BY <2>0, BelowFacts
    <3> QED BY <2>1, <2>4, <3>1
  <2>6. p \in T
    BY <1>4, <2>1, <2>5
  <2>7. y \in Nat /\ y \in T
    BY <1>2, <1>3
  <2> HIDE DEF T
  <2>8. y <= p
    BY <1>3, <2>6
  <2> QED BY <2>2, <2>7, <2>8
<1> QED BY <1>2, <1>3, <1>4

CallTime(A) == entry.call * Cardinality(A)

LEMMA CallTimes ==
  ASSUME entry \in Entries, NEW A \in SUBSET Leaves, NEW B \in SUBSET Leaves
  PROVE  /\ CallTime(A) \in Nat
         /\ A \subseteq B => CallTime(A) <= CallTime(B)
         /\ A \cap B = {} => CallTime(A \cup B) = CallTime(A) + CallTime(B)
         /\ \A x : CallTime({x}) = entry.call
<1>1. IsFiniteSet(Leaves)
  <2>1. Nodes = 1 .. Len(entry.kind) /\ Len(entry.kind) \in Nat
    BY Tree
  <2>2. IsFiniteSet(Nodes)
    BY <2>1, FS_Interval
  <2> QED BY <2>2, FS_Subset DEF Leaves
<1>2. IsFiniteSet(A) /\ IsFiniteSet(B)
  BY <1>1, FS_Subset
<1>3. PICK c, a, b, u : /\ c = entry.call /\ a = Cardinality(A) /\ b = Cardinality(B)
                        /\ u = Cardinality(A \cup B)
  OBVIOUS
<1>4. c \in Nat /\ a \in Nat /\ b \in Nat
  BY <1>2, <1>3, FS_CardinalityType, TreeAssumption
<1>5. A \subseteq B => a <= b
  BY <1>2, <1>3, FS_Subset
<1>6. A \cap B = {} => u = a + b
  <2>1. HAVE A \cap B = {}
  <2>2. u = a + b - Cardinality(A \cap B)
    BY <1>2, <1>3, FS_Union
  <2>3. Cardinality(A \cap B) = 0
    BY <2>1, FS_EmptySet
  <2> QED BY <1>4, <2>2, <2>3
<1>7. c * a \in Nat
  BY <1>4
<1>8. a <= b => c * a <= c * b
  BY <1>4
<1>9. c * (a + b) = c * a + c * b
  BY <1>4
<1>10. \A x : CallTime({x}) = entry.call
  <2>1. TAKE x
  <2>2. Cardinality({x}) = 1
    BY FS_Singleton
  <2>3. c * 1 = c
    BY <1>4
  <2> QED BY <1>3, <2>2, <2>3 DEF CallTime
<1> QED BY <1>3, <1>5, <1>6, <1>7, <1>8, <1>9, <1>10 DEF CallTime

(* M[n][i] is the time of one pass over what is left of n after its first  *)
(* i children, all leaves one after the other: less than a handoff.        *)
Room(M) ==
  /\ \A n \in Nodes : /\ \A i \in Nat : M[n][i] \in Nat
                      /\ M[n][0] < Grace /\ M[n][0] < Ceiling
  /\ entry.mode = "converge" => M[1][0] + MinLeaf <= Deadline
  /\ \A n \in Nodes : entry.kind[n] = "leaf" => M[n][0] = entry.call
  /\ \A n \in Nodes : \A i \in Places(n) : M[Kid(n, i)][0] <= M[n][0]
  /\ \A n \in Nodes : entry.kind[n] \in {"sequence", "any", "none"} =>
       \A i \in Places(n) : M[n][i - 1] = M[n][i] + M[Kid(n, i)][0]

LEMMA RoomExists ==
  ASSUME entry \in Entries, Roomy
  PROVE  \E M : Room(M)
<1> DEFINE Own(n) == {l \in Leaves : l = n \/ l \in Below[n]}
           Ahead(n, i) ==
             {l \in Leaves : \/ l = n
                             \/ \E j \in Places(n) : j > i /\ (l = Kid(n, j) \/ l \in Below[Kid(n, j)])}
<1>1. PICK M : M = [n \in Nodes |-> [i \in Nat |-> CallTime(Ahead(n, i))]]
  OBVIOUS
<1>2. \A n \in Nodes : \A i \in Nat : M[n][i] = CallTime(Ahead(n, i))
  BY <1>1
<1>3. /\ 1 \in Nodes
      /\ \A n \in Nodes : /\ entry.kind[n] \in Kinds /\ Places(n) = 1 .. Width(n)
                          /\ Width(n) \in Nat /\ (entry.kind[n] = "leaf" => Width(n) = 0)
                          /\ \A i \in Places(n) : Kid(n, i) \in Nodes
  BY Tree
<1>4. ASSUME NEW n \in Nodes
      PROVE  /\ Ahead(n, 0) = Own(n)
             /\ \A i \in Nat : M[n][i] \in Nat
             /\ M[n][0] = CallTime(Own(n)) /\ M[n][0] <= CallTime(Leaves)
  <2>1. \A j \in Places(n) : j > 0
    BY <1>3
  <2>2. Ahead(n, 0) = Own(n)
    BY <2>1, BelowMember
  <2>3. \A i \in Nat : Ahead(n, i) \in SUBSET Leaves
    OBVIOUS
  <2>4. Own(n) \in SUBSET Leaves /\ Leaves \in SUBSET Leaves
    OBVIOUS
  <2> HIDE DEF Own, Ahead
  <2>5. CallTime(Own(n)) <= CallTime(Leaves)
    BY <2>4, CallTimes
  <2>6. \A i \in Nat : CallTime(Ahead(n, i)) \in Nat
    BY <2>3, <2>4, CallTimes
  <2> QED BY <1>2, <2>2, <2>5, <2>6
<1>5. /\ \A n \in Nodes : M[n][0] < Grace /\ M[n][0] < Ceiling
      /\ entry.mode = "converge" => M[1][0] + MinLeaf <= Deadline
  <2>1. /\ CallTime(Leaves) < Grace
        /\ entry.mode = "converge" => entry.timeout >= MinLeaf + CallTime(Leaves)
    BY DEF Roomy, CallTime
  <2>2. /\ Grace \in Nat /\ Ceiling \in Nat /\ Grace <= Ceiling /\ MinLeaf \in Nat
        /\ entry.timeout \in Nat
    BY TreeAssumption, BudgetAssumption
  <2>3. \A n \in Nodes : M[n][0] \in Nat /\ M[n][0] <= CallTime(Leaves)
    BY <1>4
  <2>4. CallTime(Leaves) \in Nat
    BY CallTimes
  <2> QED BY <1>3, <2>1, <2>2, <2>3, <2>4 DEF Deadline
<1>6. ASSUME NEW n \in Nodes, entry.kind[n] = "leaf"
      PROVE  M[n][0] = entry.call
  <2>1. n \in Leaves
    BY <1>6 DEF Leaves
  <2>2. Ahead(n, 0) = {n}
    BY <1>3, <1>6, <2>1
  <2>3. CallTime({n}) = entry.call
    <3>1. Leaves \in SUBSET Leaves
      OBVIOUS
    <3> QED BY <3>1, CallTimes
  <2> HIDE DEF Own, Ahead
  <2>4. M[n][0] = CallTime(Ahead(n, 0))
    BY <1>2
  <2> QED BY <2>2, <2>3, <2>4
<1>7. ASSUME NEW n \in Nodes, NEW i \in Places(n)
      PROVE  M[Kid(n, i)][0] <= M[n][0]
  <2>1. PICK k : k = Kid(n, i)
    OBVIOUS
  <2>2. k \in Nodes
    BY <1>3, <2>1
  <2>3. Own(k) \subseteq Own(n)
    BY <2>1, BelowMember
  <2>4. Own(k) \in SUBSET Leaves /\ Own(n) \in SUBSET Leaves
    OBVIOUS
  <2> HIDE DEF Own, Ahead
  <2>5. CallTime(Own(k)) <= CallTime(Own(n))
    BY <2>3, <2>4, CallTimes
  <2> QED BY <1>4, <2>1, <2>2, <2>5
<1>8. ASSUME NEW n \in Nodes, entry.kind[n] # "leaf", NEW i \in Places(n)
      PROVE  M[n][i - 1] = M[n][i] + M[Kid(n, i)][0]
  <2>1. PICK k : k = Kid(n, i)
    OBVIOUS
  <2>2. k \in Nodes /\ i \in Nat /\ i - 1 \in Nat /\ Places(n) \subseteq Nat
    BY <1>3, <2>1
  <2>3. n \notin Leaves
    BY <1>8 DEF Leaves
  <2>4. \A j \in Places(n) : j > i - 1 <=> j > i \/ j = i
    BY <2>2
  <2>5. Ahead(n, i - 1) = Ahead(n, i) \cup Own(k)
    BY <2>1, <2>3, <2>4
  <2>6. Ahead(n, i) \cap Own(k) = {}
    <3> SUFFICES ASSUME NEW l \in Leaves, l \in Ahead(n, i), l \in Own(k) PROVE FALSE
      OBVIOUS
    <3>1. PICK j \in Places(n) : j > i /\ (l = Kid(n, j) \/ l \in Below[Kid(n, j)])
      BY <2>3
    <3>2. i # j
      BY <2>2, <3>1
    <3> QED BY <2>1, <3>1, <3>2, KidsApart
  <2>7. Ahead(n, i) \in SUBSET Leaves /\ Own(k) \in SUBSET Leaves
    OBVIOUS
  <2> HIDE DEF Own, Ahead
  <2>8. CallTime(Ahead(n, i) \cup Own(k)) = CallTime(Ahead(n, i)) + CallTime(Own(k))
    BY <2>6, <2>7, CallTimes
  <2> QED BY <1>2, <1>4, <2>1, <2>2, <2>5, <2>8
<1>9. Room(M)
  <2>1. \A n \in Nodes : entry.kind[n] \in {"sequence", "any", "none"} => entry.kind[n] # "leaf"
    OBVIOUS
  <2>2. \A n \in Nodes : \A i \in Nat : M[n][i] \in Nat
    BY <1>4
  <2> HIDE DEF Own, Ahead
  <2> QED BY <1>5, <1>6, <1>7, <1>8, <2>1, <2>2 DEF Room
<1> QED BY <1>9

-----------------------------------------------------------------------------
(* Answers in time.  Q[n] is the time by which one pass over n is over.    *)
(* An evaluation is prompt when it answers and takes no longer.            *)
Prompt(Q, n) ==
  \/ node[n].how = "single"
  \/ Converges(n) /\ IsTrue(n)
  \/ node[n].how = "round" /\ Q[n] < Deadline

(* A converging sequence or parallel group has got that far in time even   *)
(* when it does not come about in the end.                                 *)
Budgeted(Q, n) == Prompt(Q, n) \/ (Converges(n) /\ ~IsChoice(n))

Excused(Q, n) == Status(n) = "error" => ~Prompt(Q, n) /\ LastRoundIsCut

PromptOK(M, Q, n) ==
  Active(n) =>
    /\ node[n].how = "single" <=> entry.mode # "converge"
    /\ Converges(n) => Q[n] + MinLeaf <= Deadline
    /\ node[n].how = "round" => LastRoundIsCut
    /\ Prompt(Q, n) => now <= Q[n] /\ Phase(n) # "sleep"
    /\ Budgeted(Q, n) /\ Phase(n) = "run" => now + M[n][node[n].at] <= Q[n]
    /\ Prompt(Q, n) /\ Phase(n) = "call" => node[n].due <= Q[n]

(* Between a group and the children it has turned to. *)
TurnedTo(n, i) == Phase(n) \in {"run", "wait"} /\ LookedAt(n, i)

LinkPrompt(M, Q, n, i) ==
  /\ TurnedTo(n, i) =>
       /\ node[Kid(n, i)].how = KidMode(n)
       /\ Prompt(Q, n) => Prompt(Q, Kid(n, i))
       /\ Done(Kid(n, i)) => Excused(Q, Kid(n, i))
  /\ Waiting(n) /\ entry.kind[n] = "parallel" =>
       /\ Prompt(Q, Kid(n, i)) => Q[Kid(n, i)] < node[n].due
       /\ Prompt(Q, n) => Q[Kid(n, i)] <= Q[n]
       /\ Converges(n) => node[n].due = Deadline + Grace
  /\ Waiting(n) /\ entry.kind[n] # "parallel" /\ i = node[n].at =>
       /\ Budgeted(Q, n) => Q[Kid(n, i)] + M[n][i] <= Q[n]
       /\ Prompt(Q, Kid(n, i)) => now <= Q[Kid(n, i)]

Prompted(M, Q) ==
  /\ Room(M)
  /\ \A n \in Nodes : Q[n] \in Int
  /\ \A n \in Nodes : SeenTrue(n) /\ PromptOK(M, Q, n)
  /\ \A n \in Nodes : \A i \in Places(n) : LinkPrompt(M, Q, n, i)
  /\ node[1].how = IF entry.mode = "converge" THEN "converge" ELSE "single"
  /\ Done(1) => Excused(Q, 1)

(* What is used of the proof that evaluations end in time. *)
Timely ==
  /\ \A n \in Nodes : Active(n) =>
       /\ Converges(n) => Over[n] \in Nat /\ now <= Deadline + Over[n]
       /\ entry.kind[n] = "parallel" => node[n].at = 0
       /\ Phase(n) = "sleep" => Converges(n)
  /\ \A n \in Nodes : \A i \in Places(n) :
       Waiting(n) /\ (entry.kind[n] = "parallel" \/ i = node[n].at) =>
         Phase(Kid(n, i)) # "idle"

LEMMA TimelyOK == TimeInv => Timely
<1> SUFFICES ASSUME TimeInv PROVE Timely
  OBVIOUS
<1>1. PICK L, O, B : Timed(L, O, B) /\ O = Over
  BY DEF TimeInv
<1> QED BY <1>1 DEF Timed, Plan, TimeOK, LinkTime, Timely

(* A tree without a choice overruns the deadline by less than the handoff. *)
LEMMA NoLongOverrun ==
  ASSUME entry \in Entries, NEW M, Room(M), \A n \in Nodes : ~IsChoice(n)
  PROVE  \A n \in Nodes : Over[n] < Grace
<1>1. PICK o : o = Over
  OBVIOUS
<1>2. /\ o \in [Nodes -> Nat] /\ \A n \in Nodes : o[n] = Weighs("over", o, n)
      /\ Grace \in Nat /\ entry.call \in Nat
  BY <1>1, CostsDefined, TreeAssumption
<1>3. /\ \A n \in Nodes : /\ entry.kind[n] \in Kinds
                          /\ \A i \in Places(n) : Kid(n, i) \in Nodes
      /\ 0 \in Nat
  BY Tree
<1> DEFINE S == {n \in Nodes : o[n] <= M[n][0]}
<1>4. ASSUME NEW n \in Nodes, \A i \in Places(n) : Kid(n, i) \in S
      PROVE  n \in S
  <2>1. M[n][0] \in Nat /\ \A i \in Places(n) : M[Kid(n, i)][0] \in Nat
    BY <1>3 DEF Room
  <2>2. CASE entry.kind[n] = "leaf"
    <3>1. o[n] = entry.call /\ M[n][0] = entry.call
      BY <1>2, <2>2 DEF Weighs, Room
    <3> QED BY <1>2, <3>1
  <2>3. CASE entry.kind[n] # "leaf"
    <3>1. PICK i \in Places(n) : Most(o, n) = o[Kid(n, i)]
      <4>1. entry.kind[n] # "leaf" /\ \A i \in Places(n) : o[Kid(n, i)] \in Nat
        BY <1>2, <1>3, <2>3
      <4> QED BY <4>1, Mosts
    <3>2. Most(o, n) <= M[n][0] /\ Most(o, n) \in Nat
      <4>1. o[Kid(n, i)] \in Nat /\ o[Kid(n, i)] <= M[Kid(n, i)][0]
        BY <1>2, <1>3, <1>4
      <4>2. M[Kid(n, i)][0] <= M[n][0]
        BY DEF Room
      <4> QED BY <2>1, <3>1, <4>1, <4>2
    <3>3. CASE entry.kind[n] = "parallel"
      <4>1. o[n] = Least(Grace, Most(o, n))
        BY <1>2, <3>3 DEF Weighs
      <4> QED BY <1>2, <2>1, <3>2, <4>1 DEF Least
    <3>4. CASE entry.kind[n] = "sequence"
      <4>1. o[n] = Most(o, n)
        BY <1>2, <3>4 DEF Weighs
      <4> QED BY <3>2, <4>1
    <3> QED BY <1>3, <2>3, <3>3, <3>4 DEF Kinds, IsChoice
  <2> QED BY <2>2, <2>3
<1>5. Nodes \subseteq S
  <2> HIDE DEF S
  <2> QED BY <1>4, FromTheLeaves
<1>6. ASSUME NEW n \in Nodes PROVE o[n] < Grace
  <2>1. o[n] <= M[n][0] /\ M[n][0] < Grace /\ M[n][0] \in Nat /\ o[n] \in Nat
    BY <1>2, <1>3, <1>5 DEF Room
  <2> QED BY <1>2, <2>1
<1> QED BY <1>1, <1>6

-----------------------------------------------------------------------------
(* What a step leaves alone of this. *)
LEMMA PromptSame ==
  ASSUME entry' = entry, holds' = holds, NEW m, node'[m].how = node[m].how,
         NEW Q, NEW C, C[m] = Q[m]
  PROVE  /\ Prompt(C, m)' <=> Prompt(Q, m)
         /\ Budgeted(C, m)' <=> Budgeted(Q, m)
<1>1. Deadline' = Deadline /\ (IsChoice(m)' <=> IsChoice(m)) /\ (Converges(m)' <=> Converges(m))
  BY DEF Deadline, IsChoice, Converges
<1>2. IsTrue(m)' <=> IsTrue(m)
  BY TruthStays
<1> QED BY <1>1, <1>2 DEF Prompt, Budgeted

LEMMA RoomStays ==
  ASSUME entry' = entry, NEW M, Room(M) PROVE Room(M)'
BY DEF Room, Nodes, Places, Kid, Deadline

(* A step that changes a node n that is being evaluated, and nodes X below *)
(* it, leaves all others prompt; X may be given new times.                 *)
LEMMA PromptStays ==
  ASSUME IInv, Still, NEW M, NEW Q, Prompted(M, Q), NEW n, NEW X, Touches(n, X),
         NEW C, \A m \in Nodes : C[m] \in Int /\ (m \notin X => C[m] = Q[m]),
         Phase(n)' # "idle", node'[n].how = node[n].how,
         SeenTrue(n)', PromptOK(M, C, n)', Done(n)' => Excused(C, n)',
         \A i \in Places(n) : LinkPrompt(M, C, n, i)',
         \A x \in X : /\ Phase(x)' \in {"idle", "run", "done"} /\ node'[x].at = 0
                      /\ SeenTrue(x)' /\ PromptOK(M, C, x)'
  PROVE  Prompted(M, C)'
<1>1. /\ entry \in Entries /\ entry' = entry /\ now' = now /\ holds' = holds /\ Nodes' = Nodes
      /\ \A m : Places(m)' = Places(m)
      /\ \A m, i : Kid(m, i)' = Kid(m, i)
      /\ Deadline' = Deadline /\ (LastRoundIsCut' <=> LastRoundIsCut)
  BY DEF IInv, StateOK, Still, Nodes, Places, Kid, Deadline, LastRoundIsCut, IsChoice
<1>2. Room(M)'
  BY <1>1, RoomStays DEF Prompted
<1>3. /\ n \in Nodes /\ n \notin X /\ Active(n) /\ C[n] = Q[n] /\ 1 \in Nodes /\ 1 \notin X
      /\ \A m \in Nodes : m # n /\ m \notin X => node'[m] = node[m]
  <2>1. 1 \in Nodes /\ Nodes = 1 .. Len(entry.kind) /\ Len(entry.kind) \in Nat
    BY <1>1, Tree
  <2> QED BY <2>1 DEF Touches
<1>4. ASSUME NEW m \in Nodes, m \notin X
      PROVE  /\ Prompt(C, m)' <=> Prompt(Q, m)
             /\ Budgeted(C, m)' <=> Budgeted(Q, m)
             /\ C[m] = Q[m] /\ node'[m].how = node[m].how
  <2>1. C[m] = Q[m] /\ node'[m].how = node[m].how
    BY <1>3, <1>4
  <2> QED BY <1>1, <2>1, PromptSame
<1>5. ASSUME NEW m \in Nodes PROVE SeenTrue(m)' /\ PromptOK(M, C, m)'
  <2>1. CASE m = n \/ m \in X
    BY <2>1
  <2>2. CASE m # n /\ m \notin X
    <3>1. node'[m] = node[m] /\ SeenTrue(m) /\ PromptOK(M, Q, m)
      BY <1>3, <2>2 DEF Prompted
    <3>2. SeenTrue(m)'
      BY <1>1, <3>1 DEF SeenTrue
    <3>3. PromptOK(M, C, m)'
      BY <1>1, <1>4, <2>2, <3>1 DEF PromptOK, Active, Phase, Converges
    <3> QED BY <3>2, <3>3
  <2> QED BY <2>1, <2>2
<1>6. ASSUME NEW m \in Nodes, NEW i \in Places(m) PROVE LinkPrompt(M, C, m, i)'
  <2>1. CASE m = n
    BY <2>1
  <2>2. CASE m \in X
    <3>1. i \in Nat /\ i > 0
      BY <1>1, Tree
    <3>2. ~Waiting(m)' /\ ~TurnedTo(m, i)'
      BY <2>2, <3>1 DEF Waiting, TurnedTo, LookedAt, Phase
    <3> QED BY <3>2 DEF LinkPrompt
  <2>3. CASE m # n /\ m \notin X
    <3>1. PICK k : k = Kid(m, i)
      OBVIOUS
    <3>2. /\ k \in Nodes /\ k \notin X /\ node'[m] = node[m] /\ Kid(m, i)' = k
          /\ LinkPrompt(M, Q, m, i)
      <4>1. k \in Nodes
        BY <1>1, <3>1, Tree
      <4>2. k \notin X
        BY <2>3, <3>1 DEF Touches
      <4> QED BY <1>1, <1>3, <2>3, <3>1, <4>1, <4>2 DEF Prompted
    <3>3. Done(k)' => (Excused(C, k)' \/ (Done(k) /\ (Excused(C, k)' <=> Excused(Q, k))))
      <4>1. CASE k = n
        BY <4>1
      <4>2. CASE k # n
        <5>1. node'[k] = node[k]
          BY <1>3, <3>2, <4>2
        <5> QED BY <1>1, <1>4, <3>2, <5>1 DEF Done, Excused, Status
      <4> QED BY <4>1, <4>2
    <3>4. /\ Prompt(C, k)' <=> Prompt(Q, k)
          /\ Prompt(C, m)' <=> Prompt(Q, m)
          /\ Budgeted(C, m)' <=> Budgeted(Q, m)
          /\ C[k] = Q[k] /\ C[m] = Q[m] /\ node'[k].how = node[k].how
      BY <1>4, <2>3, <3>2
    <3>5. /\ TurnedTo(m, i)' <=> TurnedTo(m, i)
          /\ Waiting(m)' <=> Waiting(m)
          /\ Converges(m)' <=> Converges(m)
          /\ KidMode(m)' = KidMode(m)
      BY <1>1, <3>2 DEF TurnedTo, LookedAt, Waiting, Phase, Converges, KidMode
    <3> QED BY <1>1, <3>1, <3>2, <3>3, <3>4, <3>5 DEF LinkPrompt
  <2> QED BY <2>1, <2>2, <2>3
<1>7. (node[1].how = IF entry.mode = "converge" THEN "converge" ELSE "single")'
  BY <1>1, <1>3, <1>4 DEF Prompted
<1>8. Done(1)' => Excused(C, 1)'
  <2>1. CASE n = 1
    BY <2>1
  <2>2. CASE n # 1
    <3>1. node'[1] = node[1]
      BY <1>3, <2>2
    <3> QED BY <1>1, <1>3, <1>4, <3>1 DEF Prompted, Done, Excused, Status, Phase
  <2> QED BY <2>1, <2>2
<1>9. \A m \in Nodes : C[m] \in Int
  OBVIOUS
<1> QED BY <1>1, <1>2, <1>5, <1>6, <1>7, <1>8, <1>9 DEF Prompted

-----------------------------------------------------------------------------
(* A step after which n has turned to no child, and that begins none. *)
LEMMA QuietPrompt ==
  ASSUME IInv, Still, NEW M, NEW Q, Prompted(M, Q), NEW n, NEW X, Touches(n, X),
         Phase(n)' # "idle", ~Waiting(n)', \A i \in Places(n) : ~TurnedTo(n, i)',
         node'[n].how = node[n].how,
         SeenTrue(n)', PromptOK(M, Q, n)', Done(n)' => Excused(Q, n)',
         \A x \in X : /\ node'[x].phase \in {"idle", "done"} /\ node'[x].at = 0
                      /\ node'[x].seen = "unseen"
  PROVE  Prompted(M, Q)'
<1>1. \A x \in X : /\ Phase(x)' \in {"idle", "run", "done"} /\ node'[x].at = 0
                   /\ SeenTrue(x)' /\ PromptOK(M, Q, x)'
  BY DEF SeenTrue, PromptOK, Active, Phase
<1>2. \A i \in Places(n) : LinkPrompt(M, Q, n, i)'
  BY DEF LinkPrompt
<1>3. \A m \in Nodes : Q[m] \in Int /\ (m \notin X => Q[m] = Q[m])
  BY DEF Prompted
<1> QED BY <1>1, <1>2, <1>3, PromptStays

(* A leaf that is called, sleeps or has answered. *)
LEMMA LeafPrompt ==
  ASSUME IInv, NEW M, NEW Q, Prompted(M, Q), NEW n \in Nodes, UNCHANGED errors,
         entry.kind[n] = "leaf", Active(n), NEW s, Becomes(Only(n, s)),
         s.phase \in {"call", "sleep", "done"}, s.how = node[n].how, s.at = node[n].at,
         s.seen \notin {"exhausted", "error"},
         s.seen = "pass" => holds[n], s.seen = "fail" => ~holds[n],
         s.phase = "call" /\ Prompt(Q, n) => s.due <= Q[n],
         s.phase = "sleep" => ~Prompt(Q, n),
         s.phase = "done" => s.status # "error"
  PROVE  Prompted(M, Q)'
<1>1. /\ UNCHANGED <<entry, now, holds, changes>> /\ NodeMap' /\ node'[n] = s
      /\ \A m \in Nodes : m # n => node'[m] = node[m]
  BY OnlyChanges DEF IInv
<1>2. Still
  BY <1>1 DEF Still, IInv, StateOK
<1>3. PICK X : X = {}
  OBVIOUS
<1>4. Touches(n, X)
  BY <1>1, <1>2, <1>3, GroupTouches
<1>5. Prompt(Q, n)' <=> Prompt(Q, n)
  BY <1>1, PromptSame
<1>6. PromptOK(M, Q, n) /\ Deadline' = Deadline /\ (LastRoundIsCut' <=> LastRoundIsCut)
  BY <1>1 DEF Prompted, Deadline, LastRoundIsCut, Nodes, IsChoice
<1>7. PromptOK(M, Q, n)'
  BY <1>1, <1>5, <1>6 DEF PromptOK, Active, Phase, Converges
<1>8. SeenTrue(n)' /\ (Done(n)' => Excused(Q, n)')
  BY <1>1 DEF SeenTrue, Done, Excused, Status
<1>9. /\ Phase(n)' # "idle" /\ ~Waiting(n)' /\ node'[n].how = node[n].how
      /\ \A i \in Places(n) : ~TurnedTo(n, i)'
  BY <1>1 DEF Phase, Waiting, TurnedTo
<1> QED BY <1>2, <1>3, <1>4, <1>7, <1>8, <1>9, QuietPrompt

(* No leaf is written off that there is room for, and none that holds is   *)
(* polled again. *)
LEMMA LeafPromptOK ==
  ASSUME IInv, NEW M, NEW Q, Prompted(M, Q), NEW n \in Nodes, errors = 0, errors' = 0,
         LeafExpires(n) \/ BeginCall(n) \/ EndCall(n)
  PROVE  Prompted(M, Q)'
<1>1. /\ entry.kind[n] = "leaf" /\ Active(n) /\ node[n] \in NodeSet /\ node[n].at = 0
      /\ UNCHANGED errors /\ ~IsChoice(n)
  <2>1. entry.kind[n] = "leaf" /\ Active(n)
    BY DEF LeafExpires, BeginCall, EndCall, At, Active, Phase
  <2>2. Width(n) = 0
    BY <2>1, Tree DEF IInv, StateOK
  <2> QED BY <2>1, <2>2 DEF IInv, NodeOK, NodeSet, IsChoice
<1>2. /\ now \in Nat /\ Deadline \in Nat /\ entry.call \in Nat /\ Q[n] \in Int
      /\ M[n][0] = entry.call /\ PromptOK(M, Q, n) /\ SeenTrue(n) /\ MinLeaf \in Nat
  BY <1>1, ClockType, TreeAssumption DEF Prompted, Room
<1>3. IsTrue(n) <=> holds[n]
  BY <1>1, TruthFacts
<1>4. CASE LeafExpires(n)
  <2>1. Phase(n) = "run" /\ Converges(n) /\ Deadline - now < MinLeaf
    BY <1>4 DEF LeafExpires, At, Phase, Converges
  <2>2. now + M[n][0] <= Q[n] /\ Q[n] + MinLeaf <= Deadline
    BY <1>1, <1>2, <2>1 DEF PromptOK, Budgeted
  <2> QED BY <1>2, <2>1, <2>2
<1>5. CASE BeginCall(n)
  <2>1. PICK s : s = [node[n] EXCEPT !.phase = "call", !.due = now + entry.call]
    OBVIOUS
  <2>2. Becomes(Only(n, s)) /\ Phase(n) \in {"run", "sleep"}
    BY <1>5, <2>1 DEF BeginCall, At, Phase
  <2>3. /\ s.phase = "call" /\ s.due = now + entry.call
        /\ s.how = node[n].how /\ s.at = node[n].at /\ s.seen = node[n].seen
    BY <1>1, <2>1 DEF NodeSet
  <2>4. Prompt(Q, n) => s.due <= Q[n]
    BY <1>1, <1>2, <2>2, <2>3 DEF PromptOK, Budgeted
  <2>5. /\ s.seen \notin {"exhausted", "error"}
        /\ s.seen = "pass" => holds[n]
        /\ s.seen = "fail" => ~holds[n]
    BY <1>1, <1>2, <2>3 DEF SeenTrue
  <2> QED BY <1>1, <2>2, <2>3, <2>4, <2>5, LeafPrompt
<1>6. CASE EndCall(n)
  <2>1. PICK answer : answer = IF holds[n] THEN "pass" ELSE "fail"
    OBVIOUS
  <2>2. LET observed == [node[n] EXCEPT !.seen = answer, !.status = answer] IN
        IF answer = "pass" \/ node[n].how # "converge" \/ now >= Deadline
        THEN Becomes(Only(n, [observed EXCEPT !.phase = "done"]))
        ELSE Becomes(Only(n, [Asleep(n) EXCEPT !.seen = answer, !.status = answer]))
    <3>1. PICK a \in {IF holds[n] THEN "pass" ELSE "fail", "error"} :
            /\ IF a = "error" THEN errors < MaxErrors /\ errors' = errors + 1
               ELSE UNCHANGED errors
            /\ LET observed == [node[n] EXCEPT !.seen = a, !.status = a] IN
               IF a = "pass" \/ node[n].how # "converge" \/ now >= Deadline
               THEN Becomes(Only(n, [observed EXCEPT !.phase = "done"]))
               ELSE Becomes(Only(n, [Asleep(n) EXCEPT !.seen = a, !.status = a]))
      BY <1>6 DEF EndCall
    <3>2. a # "error"
      BY <3>1
    <3>3. a = answer
      BY <2>1, <3>1, <3>2
    <3> QED BY <3>1, <3>3, Zenon
  <2>3. CASE answer = "pass" \/ node[n].how # "converge" \/ now >= Deadline
    <3> DEFINE observed == [node[n] EXCEPT !.seen = answer, !.status = answer]
               s == [observed EXCEPT !.phase = "done"]
    <3>1. /\ s.phase = "done" /\ s.how = node[n].how /\ s.at = node[n].at
          /\ s.seen = answer /\ s.status = answer
      BY <1>1 DEF NodeSet
    <3>2. Becomes(Only(n, s))
      BY <2>2, <2>3
    <3> HIDE DEF s
    <3>3. /\ s.seen \notin {"exhausted", "error"} /\ s.status # "error"
          /\ s.seen = "pass" => holds[n]
          /\ s.seen = "fail" => ~holds[n]
      BY <2>1, <3>1
    <3> QED BY <1>1, <3>1, <3>2, <3>3, LeafPrompt
  <2>4. CASE ~(answer = "pass" \/ node[n].how # "converge" \/ now >= Deadline)
    <3>1. PICK a : a = Asleep(n)
      OBVIOUS
    <3> DEFINE s == [a EXCEPT !.seen = answer, !.status = answer]
    <3>2. now < Deadline
      BY <1>2, <2>4
    <3>3. a.phase = "sleep" /\ a.how = node[n].how /\ a.at = node[n].at /\ a \in NodeSet
      BY <3>1, <3>2, AsleepTimes, AsleepType
    <3>4. /\ s.phase = "sleep" /\ s.how = node[n].how /\ s.at = node[n].at
          /\ s.seen = answer
      BY <3>3 DEF NodeSet
    <3>5. Becomes(Only(n, s))
      BY <2>2, <2>4, <3>1
    <3> HIDE DEF s
    <3>6. ~Prompt(Q, n)
      BY <1>3, <2>1, <2>4 DEF Prompt
    <3>7. s.seen = "fail" /\ ~holds[n]
      BY <2>1, <2>4, <3>4
    <3> QED BY <1>1, <3>4, <3>5, <3>6, <3>7, LeafPrompt
  <2> QED BY <2>3, <2>4
<1> QED BY <1>4, <1>5, <1>6

-----------------------------------------------------------------------------
(* A group ends or goes to sleep, and its remaining children are skipped:  *)
(* it is not put off that it comes about.                                  *)
LEMMA SkipPrompt ==
  ASSUME IInv, NEW M, NEW Q, Prompted(M, Q), NEW n \in Nodes, Active(n),
         entry.kind[n] # "leaf", UNCHANGED errors, NEW s, NEW f, Becomes(And(Only(n, s), f)),
         \A x \in DOMAIN f : /\ f[x].phase = "done" /\ f[x].at = 0 /\ f[x].seen = "unseen"
                             /\ \E i \in Places(n) : x = Kid(n, i),
         s.phase \in {"sleep", "done"}, s.how = node[n].how, s.seen = node[n].seen,
         s.phase = "sleep" => ~Prompt(Q, n),
         s.phase = "done" /\ s.status = "error" => ~Prompt(Q, n) /\ LastRoundIsCut
  PROVE  Prompted(M, Q)'
<1>1. StateOK /\ entry \in Entries
  BY DEF IInv, StateOK
<1>2. \A x \in DOMAIN f : x \in Nodes /\ x # n
  <2>1. Nodes \subseteq Nat /\ \A i \in Places(n) : Kid(n, i) \in Nodes /\ Kid(n, i) > n
    BY <1>1, Tree
  <2> QED BY <2>1
<1>3. /\ UNCHANGED <<entry, now, holds, changes>> /\ NodeMap' /\ node'[n] = s
      /\ \A m \in Nodes : m # n => node'[m] = IF m \in DOMAIN f THEN f[m] ELSE node[m]
  BY <1>1, <1>2, BothChange
<1>4. Still
  BY <1>1, <1>3 DEF Still, StateOK
<1>5. PICK X : X = DOMAIN f
  OBVIOUS
<1>6. /\ \A x \in X : \E i \in Places(n) : x = Kid(n, i)
      /\ \A m \in Nodes : m # n /\ m \notin X => node'[m] = node[m]
      /\ \A x \in X : /\ node'[x].phase \in {"idle", "done"} /\ node'[x].at = 0
                      /\ node'[x].seen = "unseen"
  BY <1>2, <1>3, <1>5
<1>7. Touches(n, X)
  BY <1>3, <1>4, <1>6, GroupTouches
<1>8. Prompt(Q, n)' <=> Prompt(Q, n)
  BY <1>3, PromptSame
<1>9. /\ PromptOK(M, Q, n) /\ SeenTrue(n) /\ Deadline' = Deadline
      /\ (LastRoundIsCut' <=> LastRoundIsCut)
  BY <1>3 DEF Prompted, Deadline, LastRoundIsCut, Nodes, IsChoice
<1>10. PromptOK(M, Q, n)'
  BY <1>3, <1>8, <1>9 DEF PromptOK, Active, Phase, Converges
<1>11. SeenTrue(n)' /\ (Done(n)' => Excused(Q, n)')
  BY <1>3, <1>8, <1>9 DEF SeenTrue, Done, Excused, Status
<1>12. /\ Phase(n)' # "idle" /\ ~Waiting(n)' /\ node'[n].how = node[n].how
       /\ \A i \in Places(n) : ~TurnedTo(n, i)'
  BY <1>3 DEF Phase, Waiting, TurnedTo
<1> QED BY <1>4, <1>6, <1>7, <1>10, <1>11, <1>12, QuietPrompt

(* ... as a group does that is done with a status. *)
LEMMA FinishPrompt ==
  ASSUME IInv, NEW M, NEW Q, Prompted(M, Q), NEW n \in Nodes, Active(n),
         entry.kind[n] # "leaf", UNCHANGED errors,
         NEW status \in Statuses, NEW given \in Statuses,
         status = "error" => ~Prompt(Q, n) /\ LastRoundIsCut,
         Becomes(And(Only(n, Finish(n, status)), Skipped(n, node[n].at, given, "unseen")))
  PROVE  Prompted(M, Q)'
<1>1. PICK s, f : s = Finish(n, status) /\ f = Skipped(n, node[n].at, given, "unseen")
  OBVIOUS
<1>2. Becomes(And(Only(n, s), f))
  BY <1>1
<1>3. s.phase = "done" /\ s.how = node[n].how /\ s.seen = node[n].seen /\ s.status = status
  <2>1. node[n] \in NodeSet
    BY DEF IInv, NodeOK
  <2> QED BY <1>1, <2>1 DEF Finish, NodeSet
<1>4. \A x \in DOMAIN f : /\ f[x].phase = "done" /\ f[x].at = 0 /\ f[x].seen = "unseen"
                          /\ \E i \in Places(n) : x = Kid(n, i)
  <2>1. SkipsRest(n, f, Given(given, "unseen"))
    BY <1>1, SkippedKids
  <2>2. PICK g : g = Given(given, "unseen")
    OBVIOUS
  <2>3. g.phase = "done" /\ g.at = 0 /\ g.seen = "unseen"
    BY <2>2 DEF Given, Idle
  <2> QED BY <2>1, <2>2, <2>3 DEF SkipsRest
<1> QED BY <1>2, <1>3, <1>4, SkipPrompt

(* What a group hears that could not be evaluated makes it so, too. *)
LEMMA HeardErrors ==
  ASSUME IInv, NEW M, NEW Q, Prompted(M, Q), NEW n \in Nodes,
         entry.kind[n] # "parallel", Phase(n) \in {"run", "wait"}, HeardSoFar(n),
         NEW i \in Places(n), i <= node[n].at, Status(Kid(n, i)) = "error"
  PROVE  ~Prompt(Q, n) /\ LastRoundIsCut
<1>1. Done(Kid(n, i)) /\ TurnedTo(n, i) /\ LinkPrompt(M, Q, n, i)
  BY DEF HeardSoFar, TurnedTo, LookedAt, Prompted
<1> QED BY <1>1 DEF LinkPrompt, Excused

(* What a group heard of its children is true. *)
LEMMA HeardTrue ==
  ASSUME IInv, NEW M, NEW Q, Prompted(M, Q), NEW n \in Nodes, NEW i \in Places(n),
         LookedAt(n, i), Done(Kid(n, i))
  PROVE  /\ Status(Kid(n, i)) = "pass" => IsTrue(Kid(n, i))
         /\ Status(Kid(n, i)) = "fail" => ~IsTrue(Kid(n, i))
<1>1. PICK k : k = Kid(n, i)
  OBVIOUS
<1>2. k \in Nodes /\ Done(k) /\ Grounded(k) /\ \A m \in Nodes : SeenTrue(m)
  BY <1>1, Tree DEF IInv, StateOK, LinkOK, Prompted
<1>3. (Status(k) = "pass" => IsTrue(k)) /\ (Status(k) = "fail" => ~IsTrue(k))
  BY <1>2, VerdictAgrees
<1> QED BY <1>1, <1>3

(* A group that has heard of a child has the time for the rest left: the   *)
(* child took no longer than a pass over it does. *)
LEMMA HearsPrompt ==
  ASSUME IInv, NEW M, NEW Q, Prompted(M, Q), NEW n \in Nodes,
         entry.kind[n] # "parallel", Phase(n) = "wait", Done(Child(n)),
         entry.kind[n] = "sequence" => Status(Child(n)) = "pass",
         UNCHANGED errors, Becomes(Only(n, [node[n] EXCEPT !.phase = "run"]))
  PROVE  Prompted(M, Q)'
<1>1. PICK s : s = [node[n] EXCEPT !.phase = "run"]
  OBVIOUS
<1>2. /\ node[n] \in NodeSet /\ node[n].at # 0 /\ node[n].at \in Places(n) /\ Active(n)
      /\ entry \in Entries /\ StateOK /\ entry.kind[n] \in {"sequence", "any", "none"}
      /\ node[n].at \in Nat /\ Child(n) = Kid(n, node[n].at)
  <2>1. node[n] \in NodeSet /\ node[n].at # 0 /\ node[n].at <= Width(n) /\ node[n].at \in Nat
    BY DEF IInv, NodeOK, Waiting, NodeSet
  <2>2. /\ entry.kind[n] \in Kinds /\ (entry.kind[n] = "leaf" => Width(n) = 0)
        /\ Places(n) = 1 .. Width(n) /\ Width(n) \in Nat
    BY Tree DEF IInv, StateOK
  <2> QED BY <2>1, <2>2 DEF IInv, StateOK, Active, Kinds, Child, Kid
<1>3. s.phase = "run" /\ s.how = node[n].how /\ s.at = node[n].at /\ s.seen = node[n].seen
  BY <1>1, <1>2 DEF NodeSet
<1>4. /\ UNCHANGED <<entry, now, holds, changes>> /\ NodeMap' /\ node'[n] = s
      /\ \A m \in Nodes : m # n => node'[m] = node[m]
  <2>1. Becomes(Only(n, s))
    BY <1>1
  <2> QED BY <1>2, <2>1, OnlyChanges
<1>5. Still
  BY <1>2, <1>4 DEF Still, StateOK
<1>6. PICK X : X = {}
  OBVIOUS
<1>7. Touches(n, X)
  BY <1>2, <1>4, <1>5, <1>6, GroupTouches
<1>8. PICK k, a : k = Kid(n, a) /\ a = node[n].at
  OBVIOUS
<1>9. k \in Nodes /\ a \in Places(n) /\ a \in Nat /\ Done(k) /\ LookedAt(n, a)
      /\ TurnedTo(n, a) /\ LinkPrompt(M, Q, n, a)
  BY <1>2, <1>8, Tree DEF LookedAt, TurnedTo, Prompted
<1>10. Budgeted(Q, n) => now + M[n][a] <= Q[n]
  <2>1. HAVE Budgeted(Q, n)
  <2>2. Prompt(Q, k)
    <3>1. CASE Prompt(Q, n)
      BY <1>8, <1>9, <3>1 DEF LinkPrompt
    <3>2. CASE Converges(n) /\ ~IsChoice(n)
      <4>1. entry.kind[n] = "sequence" /\ Status(k) = "pass"
        BY <1>2, <1>8, <3>2 DEF IsChoice
      <4>2. IsTrue(k)
        BY <1>8, <1>9, <4>1, HeardTrue
      <4>3. Converges(k)
        BY <1>8, <1>9, <3>2, <4>1 DEF LinkPrompt, KidMode, Converges
      <4> QED BY <4>2, <4>3 DEF Prompt
    <3> QED BY <2>1, <3>1, <3>2 DEF Budgeted
  <2>3. Q[k] + M[n][a] <= Q[n] /\ now <= Q[k]
    BY <1>8, <1>9, <2>1, <2>2 DEF LinkPrompt, Waiting
  <2>4. M[n][a] \in Nat /\ Q[k] \in Int /\ Q[n] \in Int /\ now \in Nat
    BY <1>9, ClockType DEF Prompted, Room
  <2> QED BY <2>3, <2>4
<1>11. /\ Prompt(Q, n)' <=> Prompt(Q, n)
       /\ Budgeted(Q, n)' <=> Budgeted(Q, n)
  BY <1>3, <1>4, PromptSame
<1>12. /\ PromptOK(M, Q, n) /\ SeenTrue(n) /\ Deadline' = Deadline
       /\ (LastRoundIsCut' <=> LastRoundIsCut)
       /\ \A j : Kid(n, j)' = Kid(n, j)
  BY <1>4 DEF Prompted, Deadline, LastRoundIsCut, Nodes, IsChoice, Kid
<1>13. PromptOK(M, Q, n)'
  BY <1>2, <1>3, <1>4, <1>8, <1>10, <1>11, <1>12 DEF PromptOK, Active, Phase, Converges
<1>14. SeenTrue(n)' /\ ~Done(n)' /\ Phase(n)' # "idle" /\ node'[n].how = node[n].how
  BY <1>3, <1>4, <1>12 DEF SeenTrue, Done, Phase
<1>15. ASSUME NEW i \in Places(n) PROVE LinkPrompt(M, Q, n, i)'
  <2>1. PICK x : x = Kid(n, i)
    OBVIOUS
  <2>2. x \in Nodes /\ x # n /\ node'[x] = node[x] /\ Kid(n, i)' = x /\ LinkPrompt(M, Q, n, i)
    <3>1. x \in Nodes /\ x > n /\ n \in Nat
      BY <1>2, <2>1, Tree
    <3> QED BY <1>4, <1>12, <2>1, <3>1 DEF Prompted
  <2>3. Prompt(Q, x)' <=> Prompt(Q, x)
    BY <1>4, <2>2, PromptSame
  <2>4. Excused(Q, x)' <=> Excused(Q, x)
    BY <1>12, <2>2, <2>3 DEF Excused, Status
  <2>5. TurnedTo(n, i)' => TurnedTo(n, i)
    BY <1>3, <1>4 DEF TurnedTo, LookedAt, Phase
  <2>6. ~Waiting(n)' /\ KidMode(n)' = KidMode(n)
    BY <1>3, <1>4 DEF Waiting, Phase, KidMode, Converges
  <2> QED BY <1>11, <2>1, <2>2, <2>3, <2>4, <2>5, <2>6 DEF LinkPrompt, Done
<1>16. \A m \in Nodes : Q[m] \in Int /\ (m \notin X => Q[m] = Q[m])
  BY DEF Prompted
<1> QED BY <1>5, <1>6, <1>7, <1>13, <1>14, <1>15, <1>16, PromptStays

-----------------------------------------------------------------------------
(* A child that begins, with the time that a pass over it takes. *)
LEMMA KidPrompt ==
  ASSUME IInv, entry' = entry, now' = now, NEW M, Room(M), NEW k \in Nodes, NEW how,
         node'[k] = Begun(how), NEW C, C[k] = now + M[k][0],
         how = "single" <=> entry.mode # "converge",
         how = "converge" => C[k] + MinLeaf <= Deadline,
         how = "round" => LastRoundIsCut
  PROVE  /\ Phase(k)' = "run" /\ node'[k].how = how /\ node'[k].at = 0
         /\ SeenTrue(k)' /\ PromptOK(M, C, k)' /\ C[k] \in Nat /\ now <= C[k]
<1>1. PICK s : s = Begun(how)
  OBVIOUS
<1>2. node'[k] = s /\ s.phase = "run" /\ s.how = how /\ s.at = 0 /\ s.seen = "unseen"
  BY <1>1 DEF Begun, Idle
<1>3. now \in Nat /\ M[k][0] \in Nat
  BY ClockType DEF Room
<1>4. C[k] \in Nat /\ now <= C[k]
  BY <1>3
<1>5. Deadline' = Deadline /\ (LastRoundIsCut' <=> LastRoundIsCut)
  BY DEF Deadline, LastRoundIsCut, Nodes, IsChoice
<1>6. PromptOK(M, C, k)'
  BY <1>2, <1>4, <1>5 DEF PromptOK, Active, Phase, Converges
<1> QED BY <1>2, <1>4, <1>6 DEF SeenTrue, Phase

(* The mode of the children is right for the entry. *)
LEMMA KidModes ==
  ASSUME IInv, NEW M, NEW Q, Prompted(M, Q), NEW n \in Nodes, Active(n)
  PROVE  /\ KidMode(n) = "single" <=> entry.mode # "converge"
         /\ KidMode(n) = "converge" => Converges(n) /\ ~IsChoice(n)
         /\ KidMode(n) = "round" => LastRoundIsCut
<1>1. PromptOK(M, Q, n) /\ node[n].how \in Modes
  BY DEF Prompted, IInv, NodeOK, NodeSet
<1> QED BY <1>1 DEF PromptOK, KidMode, Converges, IsChoice, LastRoundIsCut, Modes

(* The children of a prompt group are prompt when they begin: none of them *)
(* needs more than the deadline leaves. *)
LEMMA KidsPrompt ==
  ASSUME IInv, entry' = entry, holds' = holds, NEW M, NEW Q, Prompted(M, Q), NEW n \in Nodes,
         Active(n), NEW i \in Places(n), NEW k, k = Kid(n, i), node'[k].how = KidMode(n),
         NEW C, C[k] \in Int, Budgeted(Q, n) => C[k] <= Q[n], Prompt(Q, n)
  PROVE  Prompt(C, k)'
<1>1. /\ PromptOK(M, Q, n) /\ node[n].how \in Modes /\ Q[n] \in Int /\ entry \in Entries
      /\ Deadline \in Nat /\ MinLeaf \in Nat /\ MinLeaf # 0 /\ entry.kind[n] \in Kinds
      /\ entry.kind[n] # "leaf" /\ k \in Nodes
  <2>1. entry \in Entries
    BY DEF IInv, StateOK
  <2>2. /\ entry.kind[n] \in Kinds /\ entry.kind[n] # "leaf" /\ k \in Nodes
    BY <2>1, Tree
  <2> QED BY <2>1, <2>2, TreeAssumption, BudgetAssumption, ClockType
          DEF Prompted, IInv, NodeOK, NodeSet
<1>2. C[k] <= Q[n]
  BY DEF Budgeted
<1>3. Deadline' = Deadline /\ (IsTrue(k)' <=> IsTrue(k))
  BY TruthStays DEF Deadline
<1>4. CASE node[n].how = "single"
  <2>1. node'[k].how = "single"
    BY <1>4 DEF KidMode, Converges
  <2> QED BY <2>1 DEF Prompt
<1>5. CASE Converges(n) /\ IsTrue(n)
  <2>1. CASE IsChoice(n)
    <3>1. node'[k].how = "round"
      BY <1>5, <2>1 DEF KidMode, IsChoice
    <3>2. C[k] < Deadline
      BY <1>1, <1>2, <1>5 DEF PromptOK
    <3> QED BY <1>3, <3>1, <3>2 DEF Prompt
  <2>2. CASE ~IsChoice(n)
    <3>1. node'[k].how = "converge" /\ entry.kind[n] \in {"sequence", "parallel"}
      BY <1>1, <1>5, <2>2 DEF KidMode, IsChoice, Converges, Kinds
    <3>2. IsTrue(k)
      BY <1>5, <3>1, TruthFacts
    <3> QED BY <1>3, <3>1, <3>2 DEF Prompt, Converges
  <2> QED BY <2>1, <2>2
<1>6. CASE node[n].how = "round" /\ Q[n] < Deadline
  <2>1. node'[k].how = "round" /\ C[k] < Deadline
    BY <1>1, <1>2, <1>6 DEF KidMode, Converges
  <2> QED BY <1>3, <2>1 DEF Prompt
<1> QED BY <1>4, <1>5, <1>6 DEF Prompt

(* A group turns to its next child, and leaves itself time for the rest.   *)
LEMMA BeginsPrompt ==
  ASSUME IInv, NEW M, NEW Q, Prompted(M, Q), NEW n \in Nodes,
         entry.kind[n] # "parallel", Phase(n) = "run", node[n].at < Width(n), UNCHANGED errors,
         NEW how, how = KidMode(n),
         Becomes(And(Only(n, Turned(n)), Only(Kid(n, node[n].at + 1), Begun(how))))
  PROVE  \E C : Prompted(M, C)'
<1>1. /\ entry \in Entries /\ node[n] \in NodeSet /\ node[n].at \in Nat /\ Width(n) \in Nat
      /\ Places(n) = 1 .. Width(n) /\ node[n].at + 1 \in Places(n) /\ StateOK
      /\ entry.kind[n] \in {"sequence", "any", "none"}
  <2>1. /\ entry \in Entries /\ node[n] \in NodeSet /\ StateOK
    BY DEF IInv, StateOK, NodeOK
  <2>2. /\ node[n].at \in Nat /\ Width(n) \in Nat /\ Places(n) = 1 .. Width(n)
        /\ entry.kind[n] \in Kinds /\ (entry.kind[n] = "leaf" => Width(n) = 0)
    BY <2>1, Tree DEF NodeSet
  <2> QED BY <2>1, <2>2 DEF Kinds
<1>2. PICK i : i = node[n].at + 1
  OBVIOUS
<1>3. PICK b : b = Kid(n, i)
  OBVIOUS
<1> DEFINE s == Turned(n)
           f == Only(b, Begun(how))
<1>4. b \in Nodes /\ b # n /\ DOMAIN f = {b} /\ f[b] = Begun(how)
  <2>1. Kid(n, i) \in Nodes /\ Kid(n, i) > n /\ Nodes \subseteq Nat
    BY <1>1, <1>2, Tree
  <2>2. b \in Nodes /\ b # n
    BY <1>3, <2>1
  <2> QED BY <2>2 DEF Only
<1>5. s.at = i /\ s.phase = "wait" /\ s.how = node[n].how /\ s.seen = node[n].seen
  BY <1>1, <1>2 DEF NodeSet, Turned
<1>6. Becomes(And(Only(n, s), f))
  BY <1>2, <1>3
<1> HIDE DEF s, f
<1>7. /\ UNCHANGED <<entry, now, holds, changes>> /\ NodeMap' /\ node'[n] = s
      /\ node'[b] = Begun(how) /\ \A m \in Nodes : m # n /\ m # b => node'[m] = node[m]
  BY <1>1, <1>4, <1>6, BothChange
<1>8. Still /\ Active(n)
  BY <1>1, <1>7 DEF Still, StateOK, Active
<1>9. PICK X : X = {b}
  OBVIOUS
<1>10. Touches(n, X)
  <2>1. /\ \A x \in X : \E j \in Places(n) : x = Kid(n, j)
        /\ \A m \in Nodes : m # n /\ m \notin X => node'[m] = node[m]
    BY <1>1, <1>2, <1>3, <1>7, <1>9
  <2> QED BY <1>7, <1>8, <2>1, GroupTouches
<1>11. PICK C : C = [m \in Nodes |-> IF m = b THEN now + M[b][0] ELSE Q[m]]
  OBVIOUS
<1>12. C[b] = now + M[b][0] /\ C[n] = Q[n] /\ \A m \in Nodes : m # b => C[m] = Q[m]
  BY <1>4, <1>11
<1>13. /\ PromptOK(M, Q, n) /\ Room(M) /\ Q[n] \in Int /\ now \in Nat /\ Deadline \in Nat
       /\ M[n][i] \in Nat /\ M[b][0] \in Nat /\ i \in Places(n) /\ i \in Nat
       /\ M[n][node[n].at] = M[n][i] + M[b][0] /\ MinLeaf \in Nat
  <2>1. PromptOK(M, Q, n) /\ Room(M) /\ Q[n] \in Int /\ i \in Nat /\ i \in Places(n)
    BY <1>1, <1>2 DEF Prompted
  <2>2. i - 1 = node[n].at
    BY <1>1, <1>2
  <2>3. M[n][i - 1] = M[n][i] + M[b][0] /\ M[n][i] \in Nat /\ M[b][0] \in Nat
    BY <1>1, <1>3, <1>4, <2>1 DEF Room
  <2> QED BY <2>1, <2>2, <2>3, ClockType, TreeAssumption
<1>14. Budgeted(Q, n) => C[b] + M[n][i] <= Q[n] /\ C[b] <= Q[n]
  <2>1. HAVE Budgeted(Q, n)
  <2>2. now + M[n][node[n].at] <= Q[n]
    BY <1>8, <1>13, <2>1 DEF PromptOK
  <2> QED BY <1>12, <1>13, <2>2
<1>15. /\ how = "single" <=> entry.mode # "converge"
       /\ how = "converge" => C[b] + MinLeaf <= Deadline
       /\ how = "round" => LastRoundIsCut
  <2>1. /\ how = "single" <=> entry.mode # "converge"
        /\ how = "converge" => Converges(n) /\ ~IsChoice(n)
        /\ how = "round" => LastRoundIsCut
    BY <1>8, KidModes
  <2>2. ASSUME how = "converge" PROVE C[b] + MinLeaf <= Deadline
    <3>1. C[b] <= Q[n] /\ Q[n] + MinLeaf <= Deadline
      BY <1>8, <1>13, <1>14, <2>1, <2>2 DEF PromptOK, Budgeted
    <3> QED BY <1>12, <1>13, <3>1
  <2> QED BY <2>1, <2>2
<1>16. /\ Phase(b)' = "run" /\ node'[b].how = how /\ node'[b].at = 0
       /\ SeenTrue(b)' /\ PromptOK(M, C, b)' /\ C[b] \in Nat /\ now <= C[b]
  BY <1>4, <1>7, <1>12, <1>13, <1>15, KidPrompt
<1>17. /\ Prompt(C, n)' <=> Prompt(Q, n)
       /\ Budgeted(C, n)' <=> Budgeted(Q, n)
  BY <1>5, <1>7, <1>12, PromptSame
<1>18. Prompt(Q, n) => Prompt(C, b)'
  <2>1. HAVE Prompt(Q, n)
  <2>2. C[b] \in Int
    BY <1>16
  <2> QED BY <1>3, <1>7, <1>8, <1>13, <1>14, <1>16, <2>1, <2>2, KidsPrompt
<1>19. /\ SeenTrue(n) /\ Deadline' = Deadline /\ (LastRoundIsCut' <=> LastRoundIsCut)
       /\ \A j : Kid(n, j)' = Kid(n, j)
  BY <1>7 DEF Prompted, Deadline, LastRoundIsCut, Nodes, IsChoice, Kid
<1>20. PromptOK(M, C, n)'
  BY <1>5, <1>7, <1>8, <1>12, <1>13, <1>17, <1>19 DEF PromptOK, Active, Phase, Converges
<1>21. SeenTrue(n)' /\ ~Done(n)' /\ Phase(n)' # "idle" /\ node'[n].how = node[n].how
  BY <1>5, <1>7, <1>19 DEF SeenTrue, Done, Phase
<1>22. KidMode(n)' = KidMode(n)
  BY <1>5, <1>7 DEF KidMode, Converges
<1>23. ASSUME NEW j \in Places(n) PROVE LinkPrompt(M, C, n, j)'
  <2>1. j \in Nat
    BY <1>1
  <2>2. CASE j = i
    <3>1. Kid(n, j)' = b /\ ~Done(b)'
      BY <1>3, <1>16, <1>19, <2>2 DEF Done, Phase
    <3> QED BY <1>1, <1>7, <1>12, <1>14, <1>16, <1>17, <1>18, <1>22, <2>2, <3>1 DEF LinkPrompt
  <2>3. CASE j # i
    <3>1. PICK x : x = Kid(n, j)
      OBVIOUS
    <3>2. /\ x \in Nodes /\ x # n /\ x # b /\ node'[x] = node[x] /\ Kid(n, j)' = x
          /\ LinkPrompt(M, Q, n, j) /\ C[x] = Q[x]
      <4>1. x \in Nodes /\ x > n /\ n \in Nat
        BY <1>1, <3>1, Tree
      <4>2. x # b
        <5>1. Kid(n, j) = Kid(n, i) => j = i
          BY <1>1, <1>13, Tree
        <5> QED BY <1>3, <2>3, <3>1, <5>1
      <4> QED BY <1>7, <1>12, <1>19, <3>1, <4>1, <4>2 DEF Prompted
    <3>3. Prompt(C, x)' <=> Prompt(Q, x)
      BY <1>7, <3>2, PromptSame
    <3>4. Excused(C, x)' <=> Excused(Q, x)
      BY <1>19, <3>2, <3>3 DEF Excused, Status
    <3>5. TurnedTo(n, j)' => TurnedTo(n, j)
      <4>1. HAVE TurnedTo(n, j)'
      <4>2. j <= i
        BY <1>1, <1>5, <1>7, <4>1 DEF TurnedTo, LookedAt
      <4>3. j <= node[n].at
        BY <1>1, <1>2, <2>1, <2>3, <4>2
      <4> QED BY <1>1, <4>3 DEF TurnedTo, LookedAt
    <3>6. ~(j = node[n].at)' /\ entry'.kind[n] # "parallel"
      BY <1>1, <1>5, <1>7, <2>3
    <3> QED BY <1>17, <1>22, <3>1, <3>2, <3>3, <3>4, <3>5, <3>6 DEF LinkPrompt, Done
  <2> QED BY <2>2, <2>3
<1>24. \A m \in Nodes : C[m] \in Int /\ (m \notin X => C[m] = Q[m])
  <2>1. \A m \in Nodes : Q[m] \in Int
    BY DEF Prompted
  <2> QED BY <1>9, <1>12, <1>16, <2>1
<1>25. \A x \in X : /\ Phase(x)' \in {"idle", "run", "done"} /\ node'[x].at = 0
                    /\ SeenTrue(x)' /\ PromptOK(M, C, x)'
  BY <1>9, <1>16
<1>26. Prompted(M, C)'
  BY <1>8, <1>10, <1>20, <1>21, <1>23, <1>24, <1>25, PromptStays
<1> QED BY <1>26

LEMMA SequencePrompt ==
  ASSUME IInv, NEW M, NEW Q, Prompted(M, Q), NEW n \in Nodes,
         SequenceExpires(n) \/ SequenceProceeds(n) \/ SequenceHears(n)
  PROVE  \E C : Prompted(M, C)'
<1>1. /\ entry.kind[n] = "sequence" /\ Active(n) /\ UNCHANGED errors /\ ~IsChoice(n)
      /\ node[n] \in NodeSet /\ node[n].at \in Nat /\ node[n].at <= Width(n) /\ Width(n) \in Nat
      /\ PromptOK(M, Q, n)
  <2>1. entry.kind[n] = "sequence" /\ Active(n) /\ UNCHANGED errors
    BY DEF SequenceExpires, SequenceProceeds, SequenceHears, At, Active, Phase
  <2>2. Width(n) \in Nat
    BY Tree DEF IInv, StateOK
  <2> QED BY <2>1, <2>2 DEF IInv, NodeOK, NodeSet, IsChoice, Prompted
<1>2. CASE SequenceExpires(n)
  <2>1. Phase(n) = "run" /\ Converges(n) /\ now >= Deadline
    BY <1>2 DEF SequenceExpires, At, Phase, Converges
  <2>2. now + M[n][node[n].at] <= Q[n] /\ Q[n] + MinLeaf <= Deadline
    BY <1>1, <2>1 DEF PromptOK, Budgeted
  <2>3. /\ now \in Nat /\ M[n][node[n].at] \in Nat /\ Q[n] \in Int /\ Deadline \in Nat
        /\ MinLeaf \in Nat /\ MinLeaf # 0
    BY <1>1, ClockType, TreeAssumption, BudgetAssumption DEF Prompted, Room
  <2> QED BY <2>1, <2>2, <2>3
<1>3. CASE SequenceProceeds(n) /\ node[n].at = Width(n)
  <2>1. PICK s, f : s = Finish(n, "pass") /\ f = [k \in {} |-> Idle]
    OBVIOUS
  <2>2. s.phase = "done" /\ s.status = "pass" /\ s.how = node[n].how /\ s.seen = node[n].seen
    BY <1>1, <2>1 DEF Finish, NodeSet
  <2>3. Becomes(And(Only(n, s), f))
    <3>1. Becomes(Only(n, s))
      BY <1>3, <2>1 DEF SequenceProceeds
    <3>2. And(Only(n, s), f) = Only(n, s)
      BY <2>1 DEF And, Only
    <3> QED BY <3>1, <3>2
  <2>4. DOMAIN f = {}
    BY <2>1
  <2>5. Prompted(M, Q)'
    BY <1>1, <2>2, <2>3, <2>4, SkipPrompt
  <2> QED BY <2>5
<1>4. CASE SequenceProceeds(n) /\ node[n].at # Width(n)
  <2>1. Phase(n) = "run" /\ node[n].at < Width(n)
    BY <1>1, <1>4 DEF SequenceProceeds, At, Phase
  <2>2. PICK how : how = KidMode(n)
    OBVIOUS
  <2>3. how = node[n].how
    BY <1>1, <2>2 DEF KidMode
  <2>4. Becomes(And(Only(n, Turned(n)), Only(Kid(n, node[n].at + 1), Begun(how))))
    BY <1>4, <2>3 DEF SequenceProceeds, Turned, Kid
  <2> QED BY <1>1, <2>1, <2>2, <2>4, BeginsPrompt
<1>5. CASE SequenceHears(n)
  <2>1. Phase(n) = "wait" /\ Done(Child(n))
    BY <1>5 DEF SequenceHears, At, Phase
  <2>2. PICK status : status = node[Child(n)].status
    OBVIOUS
  <2>3. CASE status = "pass"
    <3>1. Prompted(M, Q)'
      BY <1>1, <1>5, <2>1, <2>2, <2>3, HearsPrompt DEF SequenceHears, Status
    <3> QED BY <3>1
  <2>4. CASE status # "pass"
    <3>1. node[n].at \in Places(n) /\ Child(n) = Kid(n, node[n].at)
      BY <1>1, <2>1, Tree DEF IInv, StateOK, NodeOK, Waiting, Child, Kid
    <3>2. status \in Statuses
      BY <2>2, <3>1, StatusType DEF Status
    <3>3. Becomes(And(Only(n, Finish(n, status)), Skipped(n, node[n].at, status, "unseen")))
      BY <1>5, <2>2, <2>4 DEF SequenceHears
    <3>4. HeardSoFar(n)
      BY <1>1, <2>1, HeardAll
    <3>5. status = "error" => ~Prompt(Q, n) /\ LastRoundIsCut
      BY <1>1, <2>1, <2>2, <3>1, <3>4, HeardErrors DEF Status
    <3>6. Prompted(M, Q)'
      BY <1>1, <3>2, <3>3, <3>5, FinishPrompt
    <3> QED BY <3>6
  <2> QED BY <2>3, <2>4
<1> QED BY <1>2, <1>3, <1>4, <1>5

-----------------------------------------------------------------------------
(* A round that ends gives the group's result, or puts it to sleep: then   *)
(* the group does not come about, or what it lacks could not be evaluated. *)
LEMMA RoundPrompt ==
  ASSUME IInv, NEW M, NEW Q, Prompted(M, Q), NEW n \in Nodes, IsChoice(n),
         Phase(n) \in {"run", "wait"}, HeardSoFar(n), NEW statuses, Evidence(n, statuses),
         "error" \in statuses => ~Prompt(Q, n) /\ LastRoundIsCut,
         NEW f, \A x \in DOMAIN f : /\ f[x].phase = "done" /\ f[x].at = 0
                                    /\ f[x].seen = "unseen"
                                    /\ \E i \in Places(n) : x = Kid(n, i),
         UNCHANGED errors, EndRound(n, statuses, f)
  PROVE  Prompted(M, Q)'
<1>1. PICK status : status = RoundStatus(n, statuses)
  OBVIOUS
<1>2. /\ status \in Statuses
      /\ status = "error" => "error" \in statuses
      /\ entry.kind[n] \in {"any", "none"} /\ entry.kind[n] # "parallel"
      /\ entry.kind[n] # "leaf" /\ Active(n) /\ node[n] \in NodeSet
  BY <1>1 DEF RoundStatus, Disjunction, NegatedDisjunction, Statuses, IsChoice, Active,
              IInv, NodeOK
<1>3. CASE status = "pass" \/ node[n].how # "converge" \/ now >= Deadline
  <2>1. PICK s : s = Finish(n, status)
    OBVIOUS
  <2>2. Becomes(And(Only(n, s), f))
    BY <1>1, <1>3, <2>1 DEF EndRound
  <2>3. s.phase = "done" /\ s.how = node[n].how /\ s.seen = node[n].seen /\ s.status = status
    BY <1>2, <2>1 DEF Finish, NodeSet
  <2> QED BY <1>2, <2>2, <2>3, SkipPrompt
<1>4. CASE ~(status = "pass" \/ node[n].how # "converge" \/ now >= Deadline)
  <2>1. PICK s : s = Asleep(n)
    OBVIOUS
  <2>2. Becomes(And(Only(n, s), f)) /\ Converges(n)
    BY <1>1, <1>4, <2>1 DEF EndRound, Converges
  <2>3. now < Deadline
    BY <1>4, ClockType
  <2>4. s.phase = "sleep" /\ s.how = node[n].how /\ s.seen = node[n].seen
    BY <2>1, <2>3, AsleepTimes, AsleepType
  <2>5. /\ Places(n) = 1 .. Width(n)
        /\ \A i \in Places(n) : i <= node[n].at =>
             /\ Status(Kid(n, i)) = "pass" => IsTrue(Kid(n, i))
             /\ Status(Kid(n, i)) = "fail" => ~IsTrue(Kid(n, i))
    <3>1. Places(n) = 1 .. Width(n)
      BY Tree DEF IInv, StateOK
    <3>2. \A i \in Places(n) : i <= node[n].at => LookedAt(n, i) /\ Done(Kid(n, i))
      BY <1>2 DEF LookedAt, HeardSoFar
    <3> QED BY <3>1, <3>2, HeardTrue
  <2>6. /\ entry.kind[n] = "any" => (IsTrue(n) <=> \E i \in Places(n) : IsTrue(Kid(n, i)))
        /\ entry.kind[n] = "none" => (IsTrue(n) <=> \A i \in Places(n) : ~IsTrue(Kid(n, i)))
    BY TruthFacts
  <2>7. "error" \notin statuses => ~IsTrue(n)
    <3>1. CASE entry.kind[n] = "any" /\ "error" \notin statuses
      <4>1. "pass" \notin statuses
        BY <1>1, <1>4, <3>1 DEF RoundStatus, Disjunction
      <4>2. node[n].at = Width(n) /\ \A i \in Places(n) : Status(Kid(n, i)) = "fail"
        BY <3>1, <4>1 DEF Evidence
      <4>3. \A i \in Places(n) : i <= node[n].at
        BY <2>5, <4>2
      <4> QED BY <2>5, <2>6, <3>1, <4>2, <4>3
    <3>2. CASE entry.kind[n] = "none" /\ "error" \notin statuses
      <4>1. "pass" \in statuses
        BY <1>1, <1>4, <3>2 DEF RoundStatus, NegatedDisjunction
      <4>2. \E i \in Places(n) : i <= node[n].at /\ Status(Kid(n, i)) = "pass"
        BY <4>1 DEF Evidence
      <4> QED BY <2>5, <2>6, <3>2, <4>2
    <3> QED BY <1>2, <3>1, <3>2
  <2>8. ~Prompt(Q, n)
    BY <2>2, <2>7 DEF Prompt, Converges
  <2> QED BY <1>2, <2>2, <2>4, <2>8, SkipPrompt
<1> QED BY <1>3, <1>4

LEMMA ChoicePrompt ==
  ASSUME IInv, NEW M, NEW Q, Prompted(M, Q), NEW n \in Nodes,
         ChoiceProceeds(n) \/ RoundRunsOut(n) \/ ChoiceHears(n)
  PROVE  \E C : Prompted(M, C)'
<1>1. /\ IsChoice(n) /\ entry.kind[n] # "parallel" /\ entry.kind[n] # "sequence"
      /\ Active(n) /\ UNCHANGED errors /\ entry.kind[n] \in {"any", "none"}
      /\ PromptOK(M, Q, n) /\ Places(n) = 1 .. Width(n) /\ Width(n) \in Nat
      /\ node[n].at \in 0 .. Width(n)
  <2>1. /\ IsChoice(n) /\ Active(n) /\ UNCHANGED errors
    BY DEF ChoiceProceeds, RoundRunsOut, ChoiceHears, Active, Phase
  <2>2. Places(n) = 1 .. Width(n) /\ Width(n) \in Nat
    BY Tree DEF IInv, StateOK
  <2> QED BY <2>1, <2>2 DEF IsChoice, IInv, NodeOK, NodeSet, Prompted
<1>2. \A i \in 1 .. node[n].at : i \in Places(n) /\ i <= node[n].at
  BY <1>1
<1>3. CASE ChoiceProceeds(n)
  <2>1. /\ Phase(n) = "run" /\ node[n].at < Width(n)
    BY <1>3 DEF ChoiceProceeds, Phase
  <2>2. PICK how : how = KidMode(n)
    OBVIOUS
  <2>3. how = RoundMode(n)
    <3>1. node[n].how \in Modes
      BY DEF IInv, NodeOK, NodeSet
    <3> QED BY <1>1, <2>2, <3>1 DEF KidMode, RoundMode, Modes, Converges
  <2>4. Becomes(And(Only(n, Turned(n)), Only(Kid(n, node[n].at + 1), Begun(how))))
    BY <1>3, <2>3 DEF ChoiceProceeds, Turned, Kid
  <2> QED BY <1>1, <2>1, <2>2, <2>4, BeginsPrompt
<1>4. CASE RoundRunsOut(n)
  <2>1. PICK f : f = Skipped(n, node[n].at, "error", "unseen")
    OBVIOUS
  <2>2. PICK statuses : statuses = {node[entry.kids[n][i]].status : i \in 1 .. node[n].at}
                                   \cup {f[k].status : k \in DOMAIN f}
    OBVIOUS
  <2>3. EndRound(n, statuses, f) /\ Phase(n) = "run"
        /\ (node[n].at = Width(n) \/ RoundExpired(n))
    BY <1>4, <2>1, <2>2 DEF RoundRunsOut, Phase
  <2>4. /\ \A i \in Places(n) : i > node[n].at => Kid(n, i) \in DOMAIN f
        /\ \A x \in DOMAIN f : /\ f[x].phase = "done" /\ f[x].at = 0 /\ f[x].seen = "unseen"
                               /\ f[x].status = "error"
                               /\ \E i \in Places(n) : i > node[n].at /\ x = Kid(n, i)
    <3>1. SkipsRest(n, f, Given("error", "unseen"))
      BY <2>1, SkippedKids
    <3>2. PICK g : g = Given("error", "unseen")
      OBVIOUS
    <3>3. g.phase = "done" /\ g.at = 0 /\ g.seen = "unseen" /\ g.status = "error"
      BY <3>2 DEF Given, Idle
    <3> QED BY <3>1, <3>2, <3>3 DEF SkipsRest
  <2>5. HeardSoFar(n)
    BY <1>1, <2>3, HeardAll DEF Waiting
  <2>6. \A s : s \in statuses <=>
          \/ \E i \in 1 .. node[n].at : s = Status(Kid(n, i))
          \/ s = "error" /\ DOMAIN f # {}
    BY <2>2, <2>4 DEF Status, Kid
  <2>7. Evidence(n, statuses)
    <3>1. statuses \subseteq Statuses
      BY <1>2, <2>6, StatusType DEF Statuses
    <3>2. "pass" \in statuses =>
            \E i \in Places(n) : i <= node[n].at /\ Status(Kid(n, i)) = "pass"
      BY <1>2, <2>6
    <3>3. ASSUME "pass" \notin statuses, "error" \notin statuses
          PROVE  node[n].at = Width(n) /\ \A i \in Places(n) : Status(Kid(n, i)) = "fail"
      <4>1. DOMAIN f = {}
        BY <2>6, <3>3
      <4>2. \A i \in Places(n) : i <= node[n].at
        BY <1>1, <2>4, <4>1
      <4>3. node[n].at = Width(n)
        BY <1>1, <4>2
      <4>4. \A i \in Places(n) : Status(Kid(n, i)) \in statuses
        BY <1>1, <2>6, <4>3
      <4> QED BY <3>1, <3>3, <4>3, <4>4 DEF Statuses
    <3> QED BY <3>1, <3>2, <3>3 DEF Evidence
  <2>8. ASSUME "error" \in statuses PROVE ~Prompt(Q, n) /\ LastRoundIsCut
    <3>1. CASE \E i \in 1 .. node[n].at : Status(Kid(n, i)) = "error"
      BY <1>1, <1>2, <2>3, <2>5, <3>1, HeardErrors
    <3>2. CASE DOMAIN f # {}
      <4>1. node[n].at # Width(n)
        BY <1>1, <2>4, <3>2
      <4>2. Converges(n) /\ now >= Deadline
        BY <2>3, <4>1 DEF RoundExpired, Converges
      <4>3. LastRoundIsCut
        BY <1>1, <4>2 DEF PromptOK, LastRoundIsCut, Converges
      <4>4. SUFFICES ASSUME Prompt(Q, n) PROVE FALSE
        BY <4>3
      <4>5. now + M[n][node[n].at] <= Q[n] /\ Q[n] + MinLeaf <= Deadline
        BY <1>1, <2>3, <4>2, <4>4 DEF PromptOK, Budgeted
      <4>6. /\ now \in Nat /\ M[n][node[n].at] \in Nat /\ Q[n] \in Int /\ Deadline \in Nat
            /\ MinLeaf \in Nat /\ MinLeaf # 0
        BY <1>1, ClockType, TreeAssumption, BudgetAssumption DEF Prompted, Room
      <4> QED BY <4>2, <4>5, <4>6
    <3> QED BY <2>6, <2>8, <3>1, <3>2
  <2>9. Prompted(M, Q)'
    BY <1>1, <2>3, <2>4, <2>5, <2>7, <2>8, RoundPrompt
  <2> QED BY <2>9
<1>5. CASE ChoiceHears(n) /\ node[Child(n)].status = "pass"
  <2>1. PICK f : f = [k \in {} |-> Idle]
    OBVIOUS
  <2>2. PICK statuses : statuses = {node[entry.kids[n][i]].status : i \in 1 .. node[n].at}
    OBVIOUS
  <2>3. EndRound(n, statuses, f) /\ Phase(n) = "wait" /\ Done(Child(n))
    BY <1>5, <2>1, <2>2 DEF ChoiceHears, Phase
  <2>4. DOMAIN f = {}
    BY <2>1
  <2>5. HeardSoFar(n)
    BY <1>1, <2>3, HeardAll
  <2>6. node[n].at \in Places(n) /\ node[n].at \in 1 .. node[n].at
    BY <1>1, <2>3 DEF IInv, NodeOK, Waiting
  <2>7. \A s : s \in statuses <=> \E i \in 1 .. node[n].at : s = Status(Kid(n, i))
    BY <2>2 DEF Status, Kid
  <2>8. Status(Kid(n, node[n].at)) = "pass"
    BY <1>5 DEF Child, Kid, Status
  <2>9. Evidence(n, statuses)
    <3>1. statuses \subseteq Statuses
      BY <1>2, <2>7, StatusType
    <3>2. "pass" \in statuses
      BY <2>6, <2>7, <2>8
    <3>3. \E i \in Places(n) : i <= node[n].at /\ Status(Kid(n, i)) = "pass"
      BY <1>2, <2>6, <2>8
    <3> QED BY <3>1, <3>2, <3>3 DEF Evidence
  <2>10. "error" \in statuses => ~Prompt(Q, n) /\ LastRoundIsCut
    BY <1>1, <1>2, <2>3, <2>5, <2>7, HeardErrors
  <2>11. Prompted(M, Q)'
    BY <1>1, <2>3, <2>4, <2>5, <2>9, <2>10, RoundPrompt
  <2> QED BY <2>11
<1>6. CASE ChoiceHears(n) /\ node[Child(n)].status # "pass"
  <2>1. /\ Phase(n) = "wait" /\ Done(Child(n))
        /\ Becomes(Only(n, [node[n] EXCEPT !.phase = "run"]))
    BY <1>6 DEF ChoiceHears, Phase
  <2>2. Prompted(M, Q)'
    BY <1>1, <2>1, HearsPrompt
  <2> QED BY <2>2
<1> QED BY <1>3, <1>4, <1>5, <1>6

(* Only a group that does not come about has slept. *)
LEMMA NextRoundPrompt ==
  ASSUME IInv, Timely, NEW M, NEW Q, Prompted(M, Q), NEW n \in Nodes, NextRound(n)
  PROVE  Prompted(M, Q)'
<1>1. PICK s : s = [node[n] EXCEPT !.phase = "run", !.at = 0]
  OBVIOUS
<1>2. PICK X : X = Below[n]
  OBVIOUS
<1>3. PICK f : f = [k \in X |-> Idle]
  OBVIOUS
<1>4. /\ IsChoice(n) /\ entry.kind[n] # "parallel" /\ entry.kind[n] # "leaf"
      /\ Phase(n) = "sleep" /\ Active(n) /\ errors' = errors /\ entry \in Entries /\ StateOK
      /\ node[n] \in NodeSet /\ Becomes(And(Only(n, s), f)) /\ PromptOK(M, Q, n)
  BY <1>1, <1>2, <1>3 DEF NextRound, IsChoice, Phase, Active, IInv, StateOK, NodeOK, Prompted
<1>5. s.phase = "run" /\ s.how = node[n].how /\ s.at = 0 /\ s.seen = node[n].seen
  BY <1>1, <1>4 DEF NodeSet
<1>6. /\ \A x \in X : x \in Nodes /\ x > n
      /\ \A m \in Nodes : \A i \in Places(m) : Kid(m, i) \in X => m = n \/ m \in X
      /\ n \notin X
  <2>1. n \in Nat
    BY <1>4, Tree
  <2> QED BY <1>2, <1>4, <2>1, BelowFacts
<1>7. /\ UNCHANGED <<entry, now, holds, changes>> /\ NodeMap'
      /\ node'[n] = s
      /\ \A m \in Nodes : m # n => node'[m] = IF m \in DOMAIN f THEN f[m] ELSE node[m]
  BY <1>3, <1>4, <1>6, BothChange
<1>8. /\ \A x \in X : node'[x] = Idle
      /\ \A m \in Nodes : m # n /\ m \notin X => node'[m] = node[m]
  BY <1>3, <1>6, <1>7
<1>9. Still /\ Touches(n, X)
  BY <1>4, <1>6, <1>7, <1>8 DEF Still, Touches, StateOK
<1>10. /\ Prompt(Q, n)' <=> Prompt(Q, n)
       /\ Budgeted(Q, n)' <=> Budgeted(Q, n)
  BY <1>5, <1>7, PromptSame
<1>11. ~Budgeted(Q, n)
  BY <1>4 DEF PromptOK, Budgeted
<1>12. SeenTrue(n) /\ Deadline' = Deadline /\ (LastRoundIsCut' <=> LastRoundIsCut)
  BY <1>7 DEF Prompted, Deadline, LastRoundIsCut, Nodes, IsChoice
<1>13. PromptOK(M, Q, n)'
  BY <1>4, <1>5, <1>7, <1>10, <1>11, <1>12 DEF PromptOK, Active, Phase, Converges, Budgeted
<1>14. SeenTrue(n)' /\ ~Done(n)' /\ Phase(n)' # "idle" /\ ~Waiting(n)'
       /\ node'[n].how = node[n].how
  BY <1>5, <1>7, <1>12 DEF SeenTrue, Done, Phase, Waiting
<1>15. \A i \in Places(n) : ~TurnedTo(n, i)'
  <2>1. \A i \in Places(n) : i \in Nat /\ i > 0
    BY <1>4, Tree
  <2> QED BY <1>4, <1>5, <1>7, <2>1 DEF TurnedTo, LookedAt
<1>16. \A x \in X : /\ node'[x].phase \in {"idle", "done"} /\ node'[x].at = 0
                    /\ node'[x].seen = "unseen"
  BY <1>8 DEF Idle
<1> QED BY <1>9, <1>13, <1>14, <1>15, <1>16, QuietPrompt

-----------------------------------------------------------------------------
(* A parallel group waits for longer than a pass over any of its children  *)
(* takes. *)
LEMMA ParallelBeginsPrompt ==
  ASSUME IInv, Timely, NEW M, NEW Q, Prompted(M, Q), NEW n \in Nodes, ParallelBegins(n)
  PROVE  \E C : Prompted(M, C)'
<1>1. PICK due : due = now + (IF Wait(n) < 0 THEN 0 ELSE Wait(n))
  OBVIOUS
<1>2. PICK X : X = Kids(n)
  OBVIOUS
<1>3. PICK how : how = node[n].how
  OBVIOUS
<1>4. PICK s : s = [node[n] EXCEPT !.phase = "wait", !.due = due]
  OBVIOUS
<1>5. PICK f : f = [k \in X |-> Begun(how)]
  OBVIOUS
<1>6. /\ entry.kind[n] = "parallel" /\ Phase(n) = "run" /\ Active(n) /\ errors' = errors
      /\ entry \in Entries /\ StateOK /\ node[n] \in NodeSet /\ how \in Modes
      /\ Becomes(And(Only(n, s), f))
  BY <1>1, <1>2, <1>3, <1>4, <1>5
     DEF ParallelBegins, At, Phase, Active, IInv, StateOK, NodeOK, NodeSet
<1>7. /\ s.phase = "wait" /\ s.how = how /\ s.at = node[n].at /\ s.due = due
      /\ s.seen = node[n].seen
  BY <1>3, <1>4, <1>6 DEF NodeSet
<1>8. /\ \A x \in X : x \in Nodes /\ x # n /\ \E i \in Places(n) : x = Kid(n, i)
      /\ \A i \in Places(n) : Kid(n, i) \in X
  <2>1. Nodes \subseteq Nat
    BY <1>6, Tree
  <2>2. /\ Kids(n) = {Kid(n, i) : i \in Places(n)}
        /\ \A i \in Places(n) : Kid(n, i) \in Nodes /\ Kid(n, i) > n
    BY <1>6, Tree
  <2> QED BY <1>2, <2>1, <2>2
<1>9. /\ UNCHANGED <<entry, now, holds, changes>> /\ NodeMap'
      /\ node'[n] = s
      /\ \A m \in Nodes : m # n => node'[m] = IF m \in DOMAIN f THEN f[m] ELSE node[m]
  <2>1. n \notin DOMAIN f
    BY <1>5, <1>8
  <2> QED BY <1>6, <2>1, BothChange
<1>10. /\ \A x \in X : node'[x] = Begun(how)
       /\ \A m \in Nodes : m # n /\ m \notin X => node'[m] = node[m]
  BY <1>5, <1>8, <1>9
<1>11. Still
  BY <1>6, <1>9 DEF Still, StateOK
<1>12. Touches(n, X)
  BY <1>6, <1>8, <1>9, <1>10, <1>11, GroupTouches
<1>13. PICK C : C = [m \in Nodes |-> IF m \in X THEN now + M[m][0] ELSE Q[m]]
  OBVIOUS
<1>14. /\ \A x \in X : C[x] = now + M[x][0]
       /\ \A m \in Nodes : m \notin X => C[m] = Q[m]
       /\ C[n] = Q[n]
  BY <1>8, <1>13
<1>15. /\ PromptOK(M, Q, n) /\ SeenTrue(n) /\ Room(M) /\ Q[n] \in Int /\ node[n].at = 0
       /\ now \in Nat /\ Deadline \in Nat /\ Grace \in Nat /\ Ceiling \in Nat /\ MinLeaf \in Nat
       /\ M[n][0] \in Nat
  BY <1>6, ClockType, TreeAssumption DEF Prompted, Timely, Room
<1>16. \A x \in X : /\ M[x][0] \in Nat /\ M[x][0] <= M[n][0]
                    /\ M[x][0] < Grace /\ M[x][0] < Ceiling
  BY <1>8, <1>15 DEF Room
<1>17. Budgeted(Q, n) => \A x \in X : C[x] <= Q[n]
  <2>1. HAVE Budgeted(Q, n)
  <2>2. now + M[n][0] <= Q[n]
    BY <1>6, <1>15, <2>1 DEF PromptOK
  <2> QED BY <1>14, <1>15, <1>16, <2>2
<1>18. how = KidMode(n) /\ ~IsChoice(n)
  BY <1>3, <1>6 DEF KidMode, IsChoice
<1>19. /\ how = "single" <=> entry.mode # "converge"
       /\ how = "converge" => \A x \in X : C[x] + MinLeaf <= Deadline
       /\ how = "round" => LastRoundIsCut
  <2>1. /\ how = "single" <=> entry.mode # "converge"
        /\ how = "round" => LastRoundIsCut
    BY <1>6, <1>18, KidModes
  <2>2. ASSUME how = "converge", NEW x \in X PROVE C[x] + MinLeaf <= Deadline
    <3>1. C[x] <= Q[n] /\ Q[n] + MinLeaf <= Deadline
      BY <1>3, <1>6, <1>15, <1>17, <1>18, <2>2 DEF PromptOK, Budgeted, Converges
    <3> QED BY <1>14, <1>15, <1>16, <3>1
  <2> QED BY <2>1, <2>2
<1>20. ASSUME NEW x \in X
       PROVE  /\ Phase(x)' = "run" /\ node'[x].how = how /\ node'[x].at = 0
              /\ SeenTrue(x)' /\ PromptOK(M, C, x)' /\ C[x] \in Nat /\ now <= C[x]
  <2>1. x \in Nodes /\ node'[x] = Begun(how) /\ C[x] = now + M[x][0]
    BY <1>8, <1>10, <1>14
  <2> QED BY <1>9, <1>15, <1>19, <2>1, KidPrompt
<1>21. ASSUME NEW x \in X, Prompt(Q, n) PROVE Prompt(C, x)'
  <2>1. PICK i \in Places(n) : x = Kid(n, i)
    BY <1>8
  <2>2. C[x] \in Int /\ node'[x].how = KidMode(n) /\ (Budgeted(Q, n) => C[x] <= Q[n])
    BY <1>17, <1>18, <1>20
  <2> QED BY <1>6, <1>9, <1>21, <2>1, <2>2, KidsPrompt
<1>22. Deadline' = Deadline /\ (LastRoundIsCut' <=> LastRoundIsCut)
       /\ \A j : Kid(n, j)' = Kid(n, j)
  BY <1>9 DEF Deadline, LastRoundIsCut, Nodes, IsChoice, Kid
<1>23. how = "converge" => due = Deadline + Grace
  <2>1. HAVE how = "converge"
  <2>2. Wait(n) = Deadline + Grace - now
    BY <1>3, <2>1 DEF Wait
  <2>3. now <= Deadline
    <3>1. now <= Q[n] /\ Q[n] + MinLeaf <= Deadline
      <4>1. now + M[n][0] <= Q[n] /\ Q[n] + MinLeaf <= Deadline
        BY <1>3, <1>6, <1>15, <1>18, <2>1 DEF PromptOK, Budgeted, Converges
      <4> QED BY <1>15, <4>1
    <3> QED BY <1>15, <3>1
  <2> QED BY <1>1, <1>15, <2>2, <2>3
<1>24. ASSUME NEW x \in X, Prompt(C, x)' PROVE C[x] < due
  <2>1. /\ C[x] = now + M[x][0] /\ M[x][0] \in Nat /\ M[x][0] < Grace /\ M[x][0] < Ceiling
        /\ node'[x].how = how
    BY <1>14, <1>16, <1>20
  <2>2. CASE how = "single"
    <3>1. Deadline = 0
      BY <1>19, <2>2 DEF Deadline
    <3>2. Wait(n) = Ceiling
      BY <1>3, <1>15, <2>2, <3>1 DEF Wait
    <3> QED BY <1>1, <1>15, <2>1, <3>2
  <2>3. CASE how = "converge"
    <3>1. C[x] + MinLeaf <= Deadline /\ due = Deadline + Grace
      BY <1>19, <1>23, <2>3
    <3> QED BY <1>15, <2>1, <3>1
  <2>4. CASE how = "round"
    <3>1. C[x] < Deadline
      BY <1>22, <1>24, <2>1, <2>4 DEF Prompt, Converges
    <3>2. Deadline > now
      BY <1>15, <2>1, <3>1
    <3>3. Wait(n) = Least(Ceiling, Deadline - now)
      BY <1>3, <2>4, <3>2 DEF Wait
    <3>4. due = now + Ceiling \/ due = Deadline
      BY <1>1, <1>15, <3>2, <3>3 DEF Least
    <3> QED BY <1>15, <2>1, <3>1, <3>4
  <2> QED BY <1>6, <2>2, <2>3, <2>4 DEF Modes
<1>25. Prompt(C, n)' <=> Prompt(Q, n)
  BY <1>3, <1>7, <1>9, <1>14, PromptSame
<1>26. PromptOK(M, C, n)'
  BY <1>3, <1>6, <1>7, <1>9, <1>14, <1>15, <1>22, <1>25 DEF PromptOK, Active, Phase, Converges
<1>27. SeenTrue(n)' /\ ~Done(n)' /\ Phase(n)' # "idle" /\ node'[n].how = node[n].how
  BY <1>3, <1>7, <1>9, <1>15 DEF SeenTrue, Done, Phase
<1>28. ASSUME NEW i \in Places(n) PROVE LinkPrompt(M, C, n, i)'
  <2>1. PICK x : x = Kid(n, i)
    OBVIOUS
  <2>2. x \in X /\ Kid(n, i)' = x
    BY <1>8, <1>22, <2>1
  <2>3. KidMode(n)' = how /\ node'[x].how = how /\ ~Done(x)' /\ entry'.kind[n] = "parallel"
        /\ (Converges(n)' <=> how = "converge")
    BY <1>3, <1>6, <1>7, <1>9, <1>20, <2>2 DEF KidMode, Converges, Done, Phase
  <2>4. /\ Prompt(C, n)' => Prompt(C, x)' /\ C[x] <= C[n]
        /\ Prompt(C, x)' => C[x] < due
    BY <1>14, <1>17, <1>21, <1>24, <1>25, <2>2 DEF Budgeted
  <2>5. how = "converge" => node'[n].due = Deadline' + Grace
    BY <1>7, <1>9, <1>22, <1>23
  <2> QED BY <1>7, <1>9, <2>2, <2>3, <2>4, <2>5 DEF LinkPrompt
<1>29. \A m \in Nodes : C[m] \in Int /\ (m \notin X => C[m] = Q[m])
  <2>1. \A m \in Nodes : Q[m] \in Int
    BY DEF Prompted
  <2> QED BY <1>14, <1>20, <2>1
<1>30. \A x \in X : /\ Phase(x)' \in {"idle", "run", "done"} /\ node'[x].at = 0
                    /\ SeenTrue(x)' /\ PromptOK(M, C, x)'
  BY <1>20
<1>31. Prompted(M, C)'
  BY <1>11, <1>12, <1>26, <1>27, <1>28, <1>29, <1>30, PromptStays
<1> QED BY <1>31

(* The wait of a parallel group leaves no child behind that answers in     *)
(* time: one that is late was not prompt, and only one that polls to the   *)
(* end of a tree with a choice in it is. *)
LEMMA LatePrompt ==
  ASSUME IInv, Timely, NEW M, NEW Q, Prompted(M, Q), NEW n \in Nodes,
         entry.kind[n] = "parallel", Phase(n) = "wait", NEW i \in Places(n),
         Status(Kid(n, i)) = "error" \/ ~Done(Kid(n, i)),
         ~Done(Kid(n, i)) => now = node[n].due
  PROVE  ~Prompt(Q, n) /\ LastRoundIsCut
<1>1. PICK k : k = Kid(n, i)
  OBVIOUS
<1>2. /\ k \in Nodes /\ entry \in Entries /\ LinkPrompt(M, Q, n, i) /\ TurnedTo(n, i)
      /\ Waiting(n) /\ Active(n) /\ PromptOK(M, Q, n) /\ PromptOK(M, Q, k)
      /\ node[n].how \in Modes /\ node[k] \in NodeSet
  <2>1. entry \in Entries /\ k \in Nodes
    BY <1>1, Tree DEF IInv, StateOK
  <2>2. TurnedTo(n, i) /\ Waiting(n) /\ Active(n)
    BY DEF TurnedTo, LookedAt, Waiting, Active
  <2> QED BY <2>1, <2>2 DEF Prompted, IInv, NodeOK, NodeSet
<1>3. CASE Done(k)
  BY <1>1, <1>2, <1>3 DEF LinkPrompt, Excused
<1>4. CASE ~Done(k)
  <2>1. Active(k) /\ now = node[n].due
    <3>1. Phase(k) # "idle"
      BY <1>1, <1>2 DEF Timely
    <3> QED BY <1>1, <1>2, <1>4, <3>1 DEF Active, Done, Phase, NodeSet
  <2>2. /\ now \in Nat /\ Deadline \in Nat /\ Grace \in Nat /\ Q[k] \in Int
    BY <1>2, ClockType DEF Prompted
  <2>3. ~Prompt(Q, k)
    <3>1. Prompt(Q, k) => now <= Q[k] /\ Q[k] < node[n].due
      BY <1>1, <1>2, <2>1 DEF PromptOK, LinkPrompt
    <3> QED BY <2>1, <2>2, <3>1
  <2>4. ~Prompt(Q, n)
    BY <1>1, <1>2, <2>3 DEF LinkPrompt
  <2>5. LastRoundIsCut
    <3>1. CASE node[n].how = "single"
      BY <2>4, <3>1 DEF Prompt
    <3>2. CASE node[n].how = "round"
      BY <1>2, <3>2 DEF PromptOK
    <3>3. CASE node[n].how = "converge"
      <4>1. entry.mode = "converge" /\ node[n].due = Deadline + Grace /\ Converges(k)
        BY <1>1, <1>2, <3>3 DEF PromptOK, LinkPrompt, KidMode, Converges
      <4>2. SUFFICES ASSUME \A m \in Nodes : ~IsChoice(m) PROVE FALSE
        BY <4>1 DEF LastRoundIsCut
      <4>3. Over[k] < Grace
        BY <1>2, <4>2, NoLongOverrun DEF Prompted
      <4>4. Over[k] \in Nat /\ now <= Deadline + Over[k]
        BY <1>2, <2>1, <4>1 DEF Timely
      <4> QED BY <2>1, <2>2, <4>1, <4>3, <4>4
    <3> QED BY <1>2, <3>1, <3>2, <3>3 DEF Modes
  <2> QED BY <2>4, <2>5
<1> QED BY <1>3, <1>4

LEMMA ParallelCollectsPrompt ==
  ASSUME IInv, Timely, NEW M, NEW Q, Prompted(M, Q), NEW n \in Nodes, ParallelCollects(n)
  PROVE  Prompted(M, Q)'
<1>1. PICK late : late = {k \in Kids(n) : ~Done(k)}
  OBVIOUS
<1>2. PICK X : X = late \cup UNION {Below[k] : k \in late}
  OBVIOUS
<1>3. PICK f : f = [k \in X |-> IF k \in late THEN Given("error", "unseen") ELSE Idle]
  OBVIOUS
<1>4. PICK status : status = Conjunction({IF k \in late THEN "error" ELSE node[k].status
                                          : k \in Kids(n)})
  OBVIOUS
<1>5. PICK s : s = Finish(n, status)
  OBVIOUS
<1>6. /\ entry.kind[n] = "parallel" /\ Phase(n) = "wait" /\ node[n] \in NodeSet
      /\ (\A k \in Kids(n) : Done(k)) \/ now = node[n].due
      /\ Active(n) /\ errors' = errors /\ entry \in Entries /\ StateOK
      /\ Becomes(And(Only(n, s), f))
  BY <1>1, <1>2, <1>3, <1>4, <1>5
     DEF ParallelCollects, At, Phase, Active, IInv, StateOK, NodeOK
<1>7. s.phase = "done" /\ s.how = node[n].how /\ s.seen = node[n].seen /\ s.status = status
  BY <1>5, <1>6 DEF Finish, NodeSet
<1>8. /\ \A x \in X : x \in Nodes /\ x > n
      /\ \A m \in Nodes : \A i \in Places(m) : Kid(m, i) \in X => m = n \/ m \in X
      /\ n \notin X
  <2>1. late \subseteq Kids(n)
    BY <1>1
  <2>2. \A x : x \in X <=> x \in late \/ \E k \in late : x \in Below[k]
    BY <1>2
  <2>3. /\ \A x \in X : x \in Nodes /\ x > n
        /\ \A m \in Nodes : \A i \in Places(m) : Kid(m, i) \in X => m = n \/ m \in X
    BY <1>6, <2>1, <2>2, LateKids
  <2>4. n \in Nat
    BY <1>6, Tree
  <2> QED BY <2>3, <2>4
<1>9. /\ UNCHANGED <<entry, now, holds, changes>> /\ NodeMap'
      /\ node'[n] = s
      /\ \A m \in Nodes : m # n => node'[m] = IF m \in DOMAIN f THEN f[m] ELSE node[m]
  <2>1. n \notin DOMAIN f
    BY <1>3, <1>8
  <2> QED BY <1>6, <2>1, BothChange
<1>10. /\ \A x \in X : node'[x] = IF x \in late THEN Given("error", "unseen") ELSE Idle
       /\ \A m \in Nodes : m # n /\ m \notin X => node'[m] = node[m]
  BY <1>3, <1>8, <1>9
<1>11. \A x \in X : /\ node'[x].phase \in {"idle", "done"} /\ node'[x].at = 0
                    /\ node'[x].seen = "unseen"
  <2>1. PICK g : g = Given("error", "unseen")
    OBVIOUS
  <2>2. /\ g.phase = "done" /\ g.at = 0 /\ g.seen = "unseen"
        /\ Idle.phase = "idle" /\ Idle.at = 0 /\ Idle.seen = "unseen"
    BY <2>1 DEF Given, Idle
  <2> QED BY <1>10, <2>1, <2>2
<1>12. Still /\ Touches(n, X)
  BY <1>6, <1>8, <1>9, <1>10 DEF Still, StateOK, Touches
<1>13. ASSUME status = "error" PROVE ~Prompt(Q, n) /\ LastRoundIsCut
  <2>1. PICK k \in Kids(n) : k \in late \/ node[k].status = "error"
    BY <1>4, <1>13 DEF Conjunction
  <2>2. PICK i \in Places(n) : k = Kid(n, i)
    BY <1>6, Tree
  <2>3. /\ Status(Kid(n, i)) = "error" \/ ~Done(Kid(n, i))
        /\ ~Done(Kid(n, i)) => now = node[n].due
    BY <1>1, <1>6, <2>1, <2>2 DEF Status
  <2> QED BY <1>6, <2>3, LatePrompt
<1>14. Prompt(Q, n)' <=> Prompt(Q, n)
  BY <1>7, <1>9, PromptSame
<1>15. /\ PromptOK(M, Q, n) /\ SeenTrue(n) /\ Deadline' = Deadline
       /\ (LastRoundIsCut' <=> LastRoundIsCut)
  BY <1>9 DEF Prompted, Deadline, LastRoundIsCut, Nodes, IsChoice
<1>16. PromptOK(M, Q, n)' /\ SeenTrue(n)' /\ (Done(n)' => Excused(Q, n)')
  BY <1>7, <1>9, <1>13, <1>14, <1>15 DEF PromptOK, Active, Phase, SeenTrue, Excused, Status
<1>17. /\ Phase(n)' # "idle" /\ ~Waiting(n)' /\ node'[n].how = node[n].how
       /\ \A i \in Places(n) : ~TurnedTo(n, i)'
  BY <1>7, <1>9 DEF Phase, Waiting, TurnedTo
<1> QED BY <1>11, <1>12, <1>16, <1>17, QuietPrompt

-----------------------------------------------------------------------------
LEMMA StepPrompt ==
  ASSUME IInv, Timely, NEW M, NEW Q, Prompted(M, Q), NEW n \in Nodes, Step(n),
         errors = 0, errors' = 0
  PROVE  \E C : Prompted(M, C)'
<1>1. Prompted(M, Q)' => \E C : Prompted(M, C)'
  OBVIOUS
<1>2. CASE LeafExpires(n) \/ BeginCall(n) \/ EndCall(n)
  BY <1>1, <1>2, LeafPromptOK
<1>3. CASE SequenceExpires(n) \/ SequenceProceeds(n) \/ SequenceHears(n)
  BY <1>3, SequencePrompt
<1>4. CASE ChoiceProceeds(n) \/ RoundRunsOut(n) \/ ChoiceHears(n)
  BY <1>4, ChoicePrompt
<1>5. CASE NextRound(n)
  BY <1>1, <1>5, NextRoundPrompt
<1>6. CASE ParallelBegins(n)
  BY <1>6, ParallelBeginsPrompt
<1>7. CASE ParallelCollects(n)
  BY <1>1, <1>7, ParallelCollectsPrompt
<1> QED BY <1>2, <1>3, <1>4, <1>5, <1>6, <1>7 DEF Step

(* Time passes only while all that is prompt has time left: from the calls *)
(* up to the root. *)
LEMMA TickPrompt ==
  ASSUME IInv, Timely, NEW M, NEW Q, Prompted(M, Q), Tick
  PROVE  Prompted(M, Q)'
<1>1. /\ entry' = entry /\ node' = node /\ holds' = holds /\ now' = now + 1 /\ now \in Nat
      /\ \A n \in Nodes : CanWait(n)
      /\ entry \in Entries /\ 1 \in Nodes
  BY ClockType, Tree DEF Tick, IInv, StateOK
<1>2. /\ Nodes' = Nodes /\ Deadline' = Deadline /\ (LastRoundIsCut' <=> LastRoundIsCut)
      /\ \A n : Places(n)' = Places(n) /\ \A i : Kid(n, i)' = Kid(n, i)
  BY <1>1 DEF Nodes, Deadline, Places, Kid, LastRoundIsCut, IsChoice
<1>3. \A n \in Nodes : Q[n] \in Int /\ PromptOK(M, Q, n) /\ SeenTrue(n)
  BY DEF Prompted
<1>4. \A n \in Nodes : ~Done(n) /\ Phase(n) # "idle" => Active(n)
  BY DEF IInv, NodeOK, NodeSet, Active, Phase, Done
<1>5. \A n \in Nodes : Active(n) => Phase(n) # "run"
  BY <1>1 DEF CanWait, At, Phase, Active
<1>6. ASSUME NEW n \in Nodes, Waiting(n), entry.kind[n] # "parallel"
      PROVE  node[n].at \in Places(n) /\ ~Done(Kid(n, node[n].at))
  <2>1. ~Done(Child(n))
    BY <1>1, <1>6 DEF CanWait, At, Waiting, Phase
  <2>2. node[n].at \in Nat /\ node[n].at # 0 /\ node[n].at <= Width(n)
    BY <1>6 DEF IInv, NodeOK, NodeSet
  <2> QED BY <1>1, <2>1, <2>2, Tree DEF Child, Kid
<1>7. ASSUME NEW n \in Nodes, NEW i \in Places(n), Waiting(n),
             entry.kind[n] = "parallel" \/ i = node[n].at, ~Done(Kid(n, i))
      PROVE  /\ Kid(n, i) \in Nodes /\ Active(Kid(n, i)) /\ LinkPrompt(M, Q, n, i)
             /\ Prompt(Q, n) => Prompt(Q, Kid(n, i))
  <2>1. Kid(n, i) \in Nodes
    BY <1>1, Tree
  <2>2. Active(Kid(n, i))
    BY <1>4, <1>7, <2>1 DEF Timely
  <2>3. TurnedTo(n, i)
    <3>1. node[n].at \in Nat
      BY DEF IInv, NodeOK, NodeSet
    <3> QED BY <1>7, <3>1 DEF TurnedTo, LookedAt, Waiting, Phase
  <2>4. LinkPrompt(M, Q, n, i)
    BY DEF Prompted
  <2> QED BY <2>1, <2>2, <2>3, <2>4 DEF LinkPrompt
<1> DEFINE S == {n \in Nodes : Active(n) /\ Prompt(Q, n) => now + 1 <= Q[n]}
<1>8. ASSUME NEW n \in Nodes, \A i \in Places(n) : Kid(n, i) \in S, Active(n), Prompt(Q, n)
      PROVE  now + 1 <= Q[n]
  <2>1. Q[n] \in Int /\ PromptOK(M, Q, n) /\ node[n].due \in Nat /\ Phase(n) # "sleep"
    BY <1>3, <1>8 DEF IInv, NodeOK, NodeSet, PromptOK
  <2>2. CASE Phase(n) = "call"
    <3>1. now < node[n].due
      BY <1>1, <2>2 DEF CanWait, At, Phase
    <3>2. node[n].due <= Q[n]
      BY <1>8, <2>1, <2>2 DEF PromptOK
    <3> QED BY <1>1, <2>1, <3>1, <3>2
  <2>3. CASE Waiting(n) /\ entry.kind[n] = "parallel"
    <3>1. \E k \in Kids(n) : ~Done(k)
      BY <1>1, <2>3 DEF CanWait, At, Waiting, Phase
    <3>2. PICK i \in Places(n) : ~Done(Kid(n, i))
      BY <1>1, <3>1, Tree
    <3>3. /\ Kid(n, i) \in Nodes /\ Active(Kid(n, i)) /\ LinkPrompt(M, Q, n, i)
          /\ Prompt(Q, Kid(n, i))
      BY <1>7, <1>8, <2>3, <3>2
    <3>4. now + 1 <= Q[Kid(n, i)]
      BY <1>8, <3>3
    <3>5. Q[Kid(n, i)] <= Q[n]
      BY <1>8, <2>3, <3>3 DEF LinkPrompt
    <3> QED BY <1>1, <1>3, <2>1, <3>3, <3>4, <3>5
  <2>4. CASE Waiting(n) /\ entry.kind[n] # "parallel"
    <3>1. PICK i \in Places(n) : i = node[n].at
      BY <1>6, <2>4
    <3>2. /\ Kid(n, i) \in Nodes /\ Active(Kid(n, i)) /\ LinkPrompt(M, Q, n, i)
          /\ Prompt(Q, Kid(n, i)) /\ i \in Nat
      <4>1. ~Done(Kid(n, i)) /\ i \in Nat
        BY <1>1, <1>6, <2>4, <3>1, Tree
      <4> QED BY <1>7, <1>8, <2>4, <3>1, <4>1
    <3>3. now + 1 <= Q[Kid(n, i)]
      BY <1>8, <3>2
    <3>4. Q[Kid(n, i)] + M[n][i] <= Q[n]
      BY <1>8, <2>4, <3>1, <3>2 DEF LinkPrompt, Budgeted
    <3>5. M[n][i] \in Nat /\ Q[Kid(n, i)] \in Int
      BY <1>3, <3>2 DEF Prompted, Room
    <3> QED BY <1>1, <2>1, <3>3, <3>4, <3>5
  <2> QED BY <1>5, <1>8, <2>1, <2>2, <2>3, <2>4 DEF Active, Waiting
<1>9. \A n \in Nodes : Active(n) /\ Prompt(Q, n) => now + 1 <= Q[n]
  <2>1. \A n \in Nodes : (\A i \in Places(n) : Kid(n, i) \in S) => n \in S
    BY <1>8
  <2>2. Nodes \subseteq S
    <3> HIDE DEF S
    <3> QED BY <1>1, <2>1, FromTheLeaves
  <2> QED BY <2>2
<1>10. \A n \in Nodes : /\ Prompt(Q, n)' <=> Prompt(Q, n)
                        /\ Budgeted(Q, n)' <=> Budgeted(Q, n)
  BY <1>1, PromptSame
<1>11. ASSUME NEW n \in Nodes PROVE PromptOK(M, Q, n)' /\ SeenTrue(n)'
  <2>1. PromptOK(M, Q, n)'
    BY <1>1, <1>2, <1>3, <1>5, <1>9, <1>10 DEF PromptOK, Active, Phase, Converges
  <2>2. SeenTrue(n)'
    BY <1>1, <1>3 DEF SeenTrue
  <2> QED BY <2>1, <2>2
<1>12. ASSUME NEW n \in Nodes, NEW i \in Places(n) PROVE LinkPrompt(M, Q, n, i)'
  <2>1. PICK k : k = Kid(n, i)
    OBVIOUS
  <2>2. k \in Nodes /\ Kid(n, i)' = k /\ LinkPrompt(M, Q, n, i)
    BY <1>1, <1>2, <2>1, Tree DEF Prompted
  <2>3. Waiting(n) /\ entry.kind[n] # "parallel" /\ i = node[n].at /\ Prompt(Q, k) =>
          now + 1 <= Q[k]
    <3>1. HAVE Waiting(n) /\ entry.kind[n] # "parallel" /\ i = node[n].at /\ Prompt(Q, k)
    <3>2. Active(k)
      BY <1>6, <1>7, <2>1, <3>1
    <3> QED BY <1>9, <2>2, <3>1, <3>2
  <2>4. /\ TurnedTo(n, i)' <=> TurnedTo(n, i)
        /\ Waiting(n)' <=> Waiting(n)
        /\ Converges(n)' <=> Converges(n)
        /\ KidMode(n)' = KidMode(n)
        /\ Done(k)' <=> Done(k)
    BY <1>1 DEF TurnedTo, LookedAt, Waiting, Phase, Converges, KidMode, Done
  <2>5. Excused(Q, k)' <=> Excused(Q, k)
    BY <1>1, <1>2, <1>10, <2>2 DEF Excused, Status
  <2> QED BY <1>1, <1>2, <1>10, <2>1, <2>2, <2>3, <2>4, <2>5 DEF LinkPrompt
<1>13. (node[1].how = IF entry.mode = "converge" THEN "converge" ELSE "single")'
  BY <1>1 DEF Prompted
<1>14. Done(1)' => Excused(Q, 1)'
  BY <1>1, <1>2, <1>10 DEF Prompted, Done, Excused, Status
<1>15. Room(M)'
  BY <1>1, RoomStays DEF Prompted
<1> QED BY <1>2, <1>3, <1>11, <1>12, <1>13, <1>14, <1>15 DEF Prompted

(* Nothing happens. *)
LEMMA PromptHolds ==
  ASSUME NEW M, NEW Q, Prompted(M, Q), UNCHANGED vars PROVE Prompted(M, Q)'
<1>1. entry' = entry /\ now' = now /\ holds' = holds /\ node' = node
  BY DEF vars
<1>2. /\ Nodes' = Nodes /\ Deadline' = Deadline /\ (LastRoundIsCut' <=> LastRoundIsCut)
      /\ \A n : Places(n)' = Places(n) /\ \A i : Kid(n, i)' = Kid(n, i)
  BY <1>1 DEF Nodes, Deadline, Places, Kid, LastRoundIsCut, IsChoice
<1>3. \A n : /\ Prompt(Q, n)' <=> Prompt(Q, n)
             /\ Budgeted(Q, n)' <=> Budgeted(Q, n)
  BY <1>1, PromptSame
<1>4. \A n : Excused(Q, n)' <=> Excused(Q, n)
  BY <1>1, <1>2, <1>3 DEF Excused, Status
<1>5. ASSUME NEW n \in Nodes PROVE SeenTrue(n)' /\ PromptOK(M, Q, n)'
  <2>1. SeenTrue(n) /\ PromptOK(M, Q, n)
    BY DEF Prompted
  <2> QED BY <1>1, <1>2, <1>3, <2>1 DEF SeenTrue, PromptOK, Active, Phase, Converges
<1>6. ASSUME NEW n \in Nodes, NEW i \in Places(n) PROVE LinkPrompt(M, Q, n, i)'
  <2>1. PICK k : k = Kid(n, i)
    OBVIOUS
  <2>2. Kid(n, i)' = k /\ LinkPrompt(M, Q, n, i)
    BY <1>2, <2>1 DEF Prompted
  <2>3. /\ TurnedTo(n, i)' <=> TurnedTo(n, i)
        /\ Waiting(n)' <=> Waiting(n)
        /\ Converges(n)' <=> Converges(n)
        /\ KidMode(n)' = KidMode(n)
        /\ Done(k)' <=> Done(k)
    BY <1>1 DEF TurnedTo, LookedAt, Waiting, Phase, Converges, KidMode, Done
  <2> QED BY <1>1, <1>2, <1>3, <1>4, <2>1, <2>2, <2>3 DEF LinkPrompt
<1>7. (Done(1)' => Excused(Q, 1)')
      /\ (node[1].how = IF entry.mode = "converge" THEN "converge" ELSE "single")'
  BY <1>1, <1>4 DEF Prompted, Done
<1>8. Room(M)'
  BY <1>1, RoomStays DEF Prompted
<1> QED BY <1>2, <1>5, <1>6, <1>7, <1>8 DEF Prompted

(* On a cluster that does not change, with room for one pass over all      *)
(* leaves, evaluations are prompt. *)
TruthInv == Roomy => \E M, Q : Prompted(M, Q)

LEMMA InitTruth == Init => TruthInv
<1> SUFFICES ASSUME Init, Roomy PROVE \E M, Q : Prompted(M, Q)
  BY DEF TruthInv
<1>1. PICK how : how = IF entry.mode = "converge" THEN "converge" ELSE "single"
  OBVIOUS
<1>2. /\ entry \in Entries /\ now = 0 /\ IInv /\ 1 \in Nodes
      /\ \A n \in Nodes : node[n] = IF n = 1 THEN Begun(how) ELSE Idle
  BY <1>1, InitInv, Tree DEF Init
<1>3. PICK M : Room(M)
  BY <1>2, RoomExists
<1>4. PICK Q : Q = [n \in Nodes |-> M[1][0]]
  OBVIOUS
<1>5. /\ node[1].phase = "run" /\ node[1].how = how /\ node[1].at = 0
      /\ \A n \in Nodes : node[n].seen = "unseen"
      /\ \A n \in Nodes : n # 1 => node[n].phase = "idle"
  <2>1. PICK s : s = Begun(how)
    OBVIOUS
  <2>2. /\ s.phase = "run" /\ s.how = how /\ s.at = 0 /\ s.seen = "unseen"
        /\ Idle.phase = "idle" /\ Idle.seen = "unseen"
    BY <2>1 DEF Begun, Idle
  <2> QED BY <1>2, <2>1, <2>2
<1>6. M[1][0] \in Nat /\ Q[1] = M[1][0] /\ \A n \in Nodes : Q[n] \in Int
  <2>1. M[1][0] \in Nat
    BY <1>2, <1>3 DEF Room
  <2> QED BY <1>2, <1>4, <2>1
<1>7. ASSUME NEW n \in Nodes PROVE SeenTrue(n) /\ PromptOK(M, Q, n)
  <2>1. SeenTrue(n)
    BY <1>5 DEF SeenTrue
  <2>2. CASE n = 1
    <3>1. Converges(1) => Q[1] + MinLeaf <= Deadline
      BY <1>1, <1>3, <1>5, <1>6 DEF Room, Converges
    <3> QED BY <1>1, <1>2, <1>5, <1>6, <2>1, <2>2, <3>1 DEF PromptOK, Phase
  <2>3. CASE n # 1
    BY <1>5, <2>1, <2>3 DEF PromptOK, Active, Phase
  <2> QED BY <2>2, <2>3
<1>8. ASSUME NEW n \in Nodes, NEW i \in Places(n) PROVE LinkPrompt(M, Q, n, i)
  <2>1. i \in Nat /\ i > 0
    BY <1>2, Tree
  <2>2. ~TurnedTo(n, i) /\ ~Waiting(n)
    BY <1>5, <2>1 DEF TurnedTo, LookedAt, Waiting, Phase
  <2> QED BY <2>2 DEF LinkPrompt
<1>9. ~Done(1)
  BY <1>5 DEF Done
<1>10. Prompted(M, Q)
  BY <1>1, <1>3, <1>5, <1>6, <1>7, <1>8, <1>9 DEF Prompted
<1> QED BY <1>10

LEMMA NextTruth == IInv /\ Timely /\ TruthInv /\ [Next]_vars => TruthInv'
<1> SUFFICES ASSUME IInv, Timely, TruthInv, [Next]_vars, Roomy'
             PROVE  (\E M, Q : Prompted(M, Q))'
  BY DEF TruthInv
<1>1. changes \in Nat /\ errors \in Nat /\ changes' = 0 /\ errors' = 0
  BY TreeAssumption DEF IInv, StateOK, Roomy
<1>2. (\E n \in Leaves : Change(n)) => FALSE
  BY <1>1 DEF Change
<1>3. entry' = entry /\ changes' = changes /\ (errors' = errors \/ errors' = errors + 1)
  <2>1. ASSUME NEW n \in Nodes, Step(n)
        PROVE  /\ entry' = entry /\ changes' = changes
               /\ errors' = errors \/ errors' = errors + 1
    BY <2>1 DEF Step, LeafExpires, BeginCall, EndCall, SequenceExpires, SequenceProceeds,
         SequenceHears, ChoiceProceeds, RoundRunsOut, EndRound, ChoiceHears, NextRound,
         ParallelBegins, ParallelCollects, Becomes
  <2> QED BY <1>2, <2>1 DEF Next, Tick, Evaluated, vars
<1>4. errors = 0
  BY <1>1, <1>3
<1>5. Roomy
  <2>1. Leaves' = Leaves
    BY <1>3 DEF Leaves, Nodes
  <2> QED BY <1>1, <1>3, <1>4, <2>1 DEF Roomy
<1>6. PICK M, Q : Prompted(M, Q)
  BY <1>5 DEF TruthInv
<1>7. ASSUME NEW n \in Nodes, Step(n) PROVE \E C : Prompted(M, C)'
  BY <1>1, <1>4, <1>6, <1>7, StepPrompt
<1>8. CASE Tick
  BY <1>6, <1>8, TickPrompt
<1>9. CASE UNCHANGED vars
  <2>1. Prompted(M, Q)'
    BY <1>6, <1>9, PromptHolds
  <2> QED BY <2>1
<1> QED BY <1>2, <1>7, <1>8, <1>9 DEF Next, Evaluated

LEMMA TruthFollows == IInv /\ TruthInv => VerdictIsTrue
<1> SUFFICES ASSUME IInv, TruthInv, Done(1), Roomy
             PROVE  IF Kleene(Truth) = "true" THEN node[1].status = "pass"
                    ELSE \/ node[1].status = "fail"
                         \/ LastRoundIsCut /\ node[1].status = "error"
  BY DEF VerdictIsTrue
<1>1. PICK M, Q : Prompted(M, Q)
  BY DEF TruthInv
<1>2. /\ 1 \in Nodes /\ Grounded(1) /\ Status(1) \in Statuses
      /\ \A m \in Nodes : SeenTrue(m)
  BY <1>1, Tree DEF IInv, StateOK, NodeOK, NodeSet, Status, Prompted
<1>3. (Status(1) = "pass" => IsTrue(1)) /\ (Status(1) = "fail" => ~IsTrue(1))
  BY <1>2, VerdictAgrees
<1>4. Status(1) = "error" => ~IsTrue(1) /\ LastRoundIsCut
  <2>1. Prompt(Q, 1) \/ ~IsTrue(1)
    BY <1>1 DEF Prompted, Prompt, Converges
  <2> QED BY <1>1, <2>1 DEF Prompted, Excused
<1> QED BY <1>2, <1>3, <1>4 DEF Kleene, IsTrue, Status, Statuses

(* On a cluster that does not change, where calls answer and the deadline  *)
(* leaves room for one pass over all leaves, the verdict on any tree is    *)
(* the truth: no sibling starves a child that holds, no group gives up on  *)
(* one, and what polled to the very end still counts (runner.py,           *)
(* _run_parallel, _poll_rounds and _run_sequence). *)
THEOREM VerdictsAreTrue == Spec => []VerdictIsTrue
<1>1. Init => TimeInv /\ TruthInv
  BY InitTimes, InitTruth
<1>2. IInv /\ TimeInv /\ TruthInv /\ [Next]_vars => TimeInv' /\ TruthInv'
  BY NextTimes, NextTruth, TimelyOK
<1>3. IInv /\ TruthInv => VerdictIsTrue
  BY TruthFollows
<1> QED BY <1>1, <1>2, <1>3, Invariance, PTL DEF Spec

=============================================================================

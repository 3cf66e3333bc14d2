------------------------------- MODULE PassK -------------------------------
(***************************************************************************)
(* Which rows count and what they amount to: keep-newest de-duplication    *)
(* (results/aggregate.py) and the estimators over the attempts of a task   *)
(* (metrics/passk.py).  A row is [task, t, outcome]; an outcome is "pass", *)
(* "fail" or "none" (no score).  A share is a pair, part and whole.        *)
(***************************************************************************)
EXTENDS Integers, Sequences, FiniteSets, FiniteSetsExt

(* The rows of the files of a tree, each with its place.  Files are in path *)
(* order, which is the order of the run directories' start times. *)
load_rows(files) ==
  UNION {{[file |-> f, line |-> l, row |-> files[f][l]] : l \in DOMAIN files[f]} :
           f \in DOMAIN files}

RowsOf(rows, task) == {x \in rows : x.row.task = task}

NotBefore(x, y) == x.file > y.file \/ (x.file = y.file /\ x.line >= y.line)

(* Distortion of Newer: of two rows of one moment the first stays. *)
NewerFault(x, y) == x.row.t > y.row.t \/ (x.row.t = y.row.t /\ NotBefore(y, x))

Newer(x, y) == x.row.t > y.row.t \/ (x.row.t = y.row.t /\ NotBefore(x, y))

Latest(rows, task) ==
  (CHOOSE x \in RowsOf(rows, task) : \A y \in RowsOf(rows, task) : Newer(x, y)).row

dedupe_latest(rows) == {Latest(rows, task) : task \in {x.row.task : x \in rows}}

(* math.comb: in how many ways k of n are drawn, none where k exceeds n. *)
Comb(n, k) == Cardinality(kSubset(k, 1 .. n))

pass_at_k(n, c, k) == <<Comb(n, k) - Comb(n - c, k), Comb(n, k)>>
pass_pow_k(n, c, k) == <<Comb(c, k), Comb(n, k)>>

(* What the attempts of one task come to, given the outcome of each: those *)
(* without a score count for nothing. *)
TaskSummary(outcomes) ==
  [n |-> Cardinality({i \in DOMAIN outcomes : outcomes[i] # "none"}),
   c |-> Cardinality({i \in DOMAIN outcomes : outcomes[i] = "pass"})]

=============================================================================

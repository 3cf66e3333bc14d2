---------------------------- MODULE Declarations ----------------------------
(***************************************************************************)
(* What a task's author may declare, and what parsing makes of it          *)
(* (verification/spec.py and the shape rules of the verifiers).  Parsing   *)
(* is per entry: a malformed entry becomes an error that keeps the role    *)
(* and severity it wrote, its siblings still load.  Only a group whose     *)
(* checks are nothing to iterate over raises out of it.                    *)
(*                                                                         *)
(* A check tree is the sequence of its nodes in the order parsing is done  *)
(* with them, a group after its children, and without the nodes it never   *)
(* comes to, below a type that is unknown.  A node is [type, children,     *)
(* check, selected, valued, wrong]: a group has children, a leaf a check   *)
(* of module Checks with or without a selector and a right-hand side;      *)
(* "wrong" names what could not be read: "field", "path", "pattern" or     *)
(* "children", a group's checks given as null, a number or a boolean.      *)
(* An entry is [name, role, severity, weight, mode, interval, window,      *)
(* wrong, nodes]; zero stands for a number that is not given.              *)
(***************************************************************************)
EXTENDS Checks

CONSTANT DefaultInterval  \* HOLD_POLL_INTERVAL_SEC

ASSUME DefaultIntervalAssumption == DefaultInterval \in Nat \ {0}

Groups == {"sequence", "parallel", "all", "any", "none"}
Leaves == {"resource_property", "git_repo_sync", "http_probe", "pod_exec",
           "pod_healthy", "scaling_complete", "identity_preserved"}
SetOps == {"exists", "absent"}

(***************************************************************************)
(* Shape rules: combinations that cannot mean anything when evaluated.     *)
(***************************************************************************)
RightHandIsGiven(n) ==
  /\ n.check.op \in ValueOps => n.valued
  /\ n.check.op = "matches" => "pattern" \notin n.wrong

PathIsGiven(n) ==
  /\ n.check.op \notin SetOps => n.check.path
  /\ n.check.path => "path" \notin n.wrong

(* absent asserts emptiness by itself; exists without a path asks about    *)
(* the whole: neither takes a reduction. *)
ReductionApplies(n) ==
  n.check.op = "absent" \/ (n.check.op = "exists" /\ ~n.check.path) => n.check.across = "unset"

ResourceShape(n) ==
  /\ ~(n.check.named /\ n.selected)
  /\ PathIsGiven(n) /\ ReductionApplies(n) /\ RightHandIsGiven(n)

GitShape(n) ==
  /\ PathIsGiven(n) /\ ReductionApplies(n) /\ RightHandIsGiven(n)
  /\ n.check.op = "absent" => n.check.path
  /\ n.check.path => n.check.file

ExecShape(n) ==
  /\ n.check.named # n.selected
  /\ n.check.op \in ValueOps
  /\ RightHandIsGiven(n)

ScalingShape(n) ==
  /\ n.check.min >= 0
  /\ n.check.bounded => n.check.max >= n.check.min

(***************************************************************************)
(* A node is looked up by its type and validated by what it finds; a tree  *)
(* parses when each of its nodes does.                                     *)
(***************************************************************************)
NodeParses(n) ==
  /\ n.type \in Groups \cup Leaves
  /\ "field" \notin n.wrong
  /\ n.type \in Groups => n.children > 0 /\ "children" \notin n.wrong
  /\ n.type = "resource_property" => ResourceShape(n)
  /\ n.type = "git_repo_sync" => GitShape(n)
  /\ n.type = "pod_exec" => ExecShape(n)
  /\ n.type = "scaling_complete" => ScalingShape(n)

CheckParses(nodes) == nodes # <<>> /\ \A i \in DOMAIN nodes : NodeParses(nodes[i])

(* The first node that does not parse ends the parsing of its tree.  A     *)
(* group without a list of checks ends it with a TypeError, and nobody     *)
(* catches one of these. *)
CheckRaises(nodes) ==
  \E i \in DOMAIN nodes :
    /\ nodes[i].type \in Groups /\ "children" \in nodes[i].wrong
    /\ \A j \in 1..(i - 1) : NodeParses(nodes[j])

(***************************************************************************)
(* Entries.                                                                *)
(***************************************************************************)
ResolvedMode(d) ==
  IF d.mode # "unset" THEN d.mode
  ELSE IF d.role = "objective" THEN "converge" ELSE "assert"

EffectivePollInterval(d) == IF d.interval # 0 THEN d.interval ELSE DefaultInterval

RoleAndSeverityAgree(d) ==
  \/ d.role = "objective" /\ d.severity = "none"
  \/ d.role = "safeguard" /\ d.severity \in {"recoverable", "catastrophic"}

(* Only an objective's hold has a window, and one that is worth a second   *)
(* sample. *)
HoldFieldsApply(d) ==
  /\ d.mode # "hold" => d.interval = 0 /\ d.window = 0
  /\ ResolvedMode(d) = "hold" => (d.role = "objective" <=> d.window # 0)
  /\ d.window # 0 => EffectivePollInterval(d) < d.window

EntryParses(d) ==
  /\ ~d.wrong
  /\ d.weight > 0 /\ d.interval >= 0 /\ d.window >= 0
  /\ CheckParses(d.nodes)
  /\ RoleAndSeverityAgree(d)
  /\ HoldFieldsApply(d)

(* Of two entries of one name that parse the first is kept. *)
IsDuplicate(spec, i) ==
  \E j \in 1..(i - 1) : EntryParses(spec[j]) /\ spec[j].name = spec[i].name

DeclaredFields(d) == [role |-> d.role, severity |-> d.severity, weight |-> 0, parsed |-> FALSE]

EntryFields(d) ==
  [role |-> d.role, severity |-> d.severity, weight |-> d.weight, parsed |-> TRUE]

(* Whether the call raises; what it returns when it does not. *)
ParsingRaises(spec) == \E i \in DOMAIN spec : CheckRaises(spec[i].nodes)

parse_entries(spec) ==
  [i \in DOMAIN spec |->
     IF EntryParses(spec[i]) /\ ~IsDuplicate(spec, i)
     THEN EntryFields(spec[i]) ELSE DeclaredFields(spec[i])]

(* A specification that is no list at all: one error, which declares nothing. *)
RootError == << [role |-> "none", severity |-> "none", weight |-> 0, parsed |-> FALSE] >>

=============================================================================

--------------------------- MODULE HomeInventory ---------------------------
(***************************************************************************)
(* Cheat detection by inventory (cheat_detection/inventory.py and          *)
(* detector.py): the entries of an agent's home that an earlier run left   *)
(* behind become rules, taken before the agent starts; the transcript is   *)
(* held against them once the batch is over.                               *)
(*                                                                         *)
(* A home gives every entry name its content, "none" when there is no such *)
(* entry.  A content stands for the distinctive lines of a file; two runs  *)
(* of one task share theirs.  A rule set is the names that may not be      *)
(* referenced and the contents that may not surface.  A turn is what the   *)
(* transcript shows: names referenced, contents in a tool's result.  The   *)
(* fixed rules over the benchmark's own files are left out.                *)
(***************************************************************************)
EXTENDS FiniteSets

NoRules == [paths |-> {}, prints |-> {}]
NoTurn == [paths |-> {}, shown |-> {}]

Leftovers(home, baseline) == {n \in DOMAIN home : home[n] # "none"} \ baseline

build_inventory_rules(home, baseline, fingerprintOnly) ==
  [paths  |-> Leftovers(home, baseline),
   prints |-> {home[n] : n \in Leftovers(home, baseline) \cap fingerprintOnly}]

(* A name in the prompt authorizes a reference, never the stale content. *)
filter_rules_for_prompt(rules, named) == [rules EXCEPT !.paths = @ \ named]

(* Inputs delivered to this run prove nothing; what an earlier task of the *)
(* batch left under the name of an input is no input. *)
drop_fingerprints_matching_inputs(rules, home, inputs, produced) ==
  [rules EXCEPT !.prints = @ \ {home[n] : n \in inputs \ produced}]

scan_record(rules, turn) ==
  IF turn = NoTurn THEN "no_data"
  ELSE IF rules.paths \cap turn.paths # {} \/ rules.prints \cap turn.shown # {} THEN "flagged"
  ELSE "clean"

(***************************************************************************)
(* Attribution: what was not there when the batch began, and nobody is yet *)
(* charged with, was made by the task that ran last.                       *)
(***************************************************************************)
Attributed(createdBy, present, preExisting, prev) ==
  [n \in DOMAIN createdBy |->
     IF n \in present \ preExisting /\ createdBy[n] = "nobody" THEN prev ELSE createdBy[n]]

(* Distortion of Fingerprintable: what the batch made is never one. *)
FingerprintableFault(createdBy, preExisting, task) == preExisting

(* An entry of the batch is an answer key for tasks of any other name. *)
Fingerprintable(createdBy, preExisting, task) ==
  preExisting \cup {n \in DOMAIN createdBy : createdBy[n] \notin {"nobody", task}}

=============================================================================

----------------------- MODULE MCVerificationTree -----------------------
(* Trees of depth two to four over two or three leaves, each group kind at  *)
(* the root and below it; calls take no time or too much of it, and, in     *)
(* trees of two leaves, little enough for a pass within the handoff.        *)
EXTENDS VerificationTree

Flat(kind)       == [kind |-> <<kind, "leaf", "leaf">>, kids |-> << <<2, 3>>, <<>>, <<>> >>]
Nested(top, low) == [kind |-> <<top, "leaf", low, "leaf", "leaf">>,
                     kids |-> << <<2, 3>>, <<>>, <<4, 5>>, <<>>, <<>> >>]
Upside(top, low) == [kind |-> <<top, low, "leaf", "leaf", "leaf">>,
                     kids |-> << <<2, 3>>, <<4, 5>>, <<>>, <<>>, <<>> >>]
Deep             == [kind |-> <<"any", "sequence", "parallel", "leaf", "leaf", "leaf">>,
                     kids |-> << <<2>>, <<4, 3>>, <<5, 6>>, <<>>, <<>>, <<>> >>]
Stacked          == [kind |-> <<"any", "parallel", "sequence", "leaf", "leaf">>,
                     kids |-> << <<2>>, <<3>>, <<4, 5>>, <<>>, <<>> >>]

Groups == {"sequence", "parallel", "any", "none"}
MCTrees == {Flat(kind) : kind \in Groups}
           \cup {Nested(top, low) : top \in Groups, low \in Groups}
           \cup {Upside("sequence", low) : low \in {"any", "none"}}
           \cup {Deep, Stacked}

Entry(tree, mode, call) ==
  [kind |-> tree.kind, kids |-> tree.kids, mode |-> mode, timeout |-> 3, call |-> call]

EntryModes == {"converge", "assert"}
MCEntries ==
  {Entry(tree, mode, call) : tree \in MCTrees, mode \in EntryModes, call \in {0, 2}}
  \cup {Entry(Flat(kind), mode, call) : kind \in Groups, mode \in EntryModes, call \in {1, 5}}
=========================================================================

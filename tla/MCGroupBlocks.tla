--------------------------- MODULE MCGroupBlocks ---------------------------
(***************************************************************************)
(* Small instances of GroupBlocks for TLC: two blocks and two entries of   *)
(* one group, or of two groups, on one room night beside one hold.         *)
(***************************************************************************)
EXTENDS GroupBlocks, TLC

CONSTANTS k1, k2, h1, g1, g2, b1, b2, e1, e2

OneKey   == {k1}
TwoKeys  == {k1, k2}
OneHold  == {h1}
NoHold   == {}
Blocks   == {b1, b2}
OneBlock == {b1}
Entries  == {e1, e2}
OneEntry == {e1}
OneGroup == [x \in Block \cup Entry |-> g1]
TwoGroups == [x \in Block \cup Entry |-> IF x \in {b1, e1} THEN g1 ELSE g2]
Interchangeable == Permutations(TwoKeys) \cup Permutations(Block) \cup Permutations(Entry)
=============================================================================

-------------------------- MODULE MCRamDatastream --------------------------
EXTENDS RamDatastream, TLC
CONSTANTS small, large, one, two
OwnConfig == (small :> one) @@ (large :> two)
OneAndTwoEntries == (one :> <<[offset |-> 0, size |-> 1]>>)
  @@ (two :> <<[offset |-> 0, size |-> 1], [offset |-> 1, size |-> 2]>>)
Lists == {<<small>>, <<large>>, <<one, 0>>, <<two, 0>>, <<two, 1>>}
Symmetry == Permutations(Node)
=============================================================================

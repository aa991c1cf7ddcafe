---------------------------- MODULE MCComposite ----------------------------
EXTENDS CompositeDatastream, TLC
CONSTANTS ram, bsp, small, large
TwoStreams == <<ram, bsp>>
Configs == (ram :> small) @@ (bsp :> large)
Overlapping == (small :> <<[offset |-> 0, size |-> 1]>>)
            @@ (large :> <<[offset |-> 0, size |-> 1],
                           [offset |-> 1, size |-> 2]>>)
Lists == {<<ram>>, <<bsp>>, <<small, 0>>, <<large, 0>>, <<large, 1>>}
=============================================================================

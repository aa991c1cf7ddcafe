----------------------------- MODULE MCDisplay -----------------------------
EXTENDS DisplaySimulator, TLC
CONSTANTS ram, bsp, display, home, settings, other
Streams == {ram, bsp}
Nodes == {display, home, settings, other}
Configs == [s \in Streams |-> s]
TwoAndTwo == (ram :> <<[offset |-> 0, size |-> 4]>>)
          @@ (bsp :> <<[offset |-> 0, size |-> 1], [offset |-> 1, size |-> 1]>>)
Lists == {<<ram>>, <<bsp>>, <<ram, 0>>, <<bsp, 0>>, <<bsp, 1>>}
KeyOfView == [d \in {display} |-> 0]
TwoInputs == [d \in {display} |-> <<1, 0>>]
Subscriptions == <<home, settings>>
=============================================================================

------------------------------ MODULE MCTimer ------------------------------
EXTENDS TimerHistory, TLC
CONSTANTS t1, t2, c1, c2
EveryTick == (c1 :> 1) @@ (c2 :> 1)
BothAndFirst == (t1 :> {c1, c2}) @@ (t2 :> {c1})
\* What an object that is on no list and in no run holds is never read, but for
\* the controller that timer_stop looks at.
Live == {t \in Node : ~Unlinked(t)} \cup ({current, saved} \ {NULL})
LiveFields == [t \in Live |-> <<next[t], interval_ticks[t],
                               next_expiration_ticks[t], repeating[t]>>]
View == <<head, now, current_ticks, controller, runVars, LiveFields, asked, fresh>>
=============================================================================

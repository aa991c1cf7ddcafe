---------------------------- MODULE ExactTimers ----------------------------
(***************************************************************************)
(* What the timer API promises, without tick counters that wrap and        *)
(* without a list: every active timer has a number of ticks left, and a    *)
(* run fires each timer that is due when the run begins, once, unless it   *)
(* is stopped first.  The only others it may fire are those that are       *)
(* started while it is under way and have no ticks to wait.                *)
(***************************************************************************)
EXTENDS Integers, Functions

CONSTANTS Timer, NULL, OneShotIntervals, RepeatIntervals

VARIABLES
  left,      \* left[t], for each active timer: its ticks left at the last run
  period,    \* period[t], for each active timer: the repeat interval, or Once
  elapsed,   \* the ticks since the last run began
  running,   \* whether a run is under way
  due,       \* the timers the run must still fire
  firing     \* the timer whose callback runs, or NULL

vars == <<left, period, elapsed, running, due, firing>>

Active == DOMAIN left
Once == -1

Init ==
  /\ left = [t \in {} |-> 0] /\ period = [t \in {} |-> 0]
  /\ elapsed = 0
  /\ ~running /\ due = {} /\ firing = NULL

Tick ==
  /\ elapsed' = elapsed + 1
  /\ UNCHANGED <<left, period, running, due, firing>>

With(f, t, v) == [x \in DOMAIN f \cup {t} |-> IF x = t THEN v ELSE f[x]]
Without(f, t) == Restrict(f, DOMAIN f \ {t})

\* A timer that is started with no ticks to wait, while a run is under way, is
\* fired by it, unless the run has nothing else left to fire: then that is left
\* open, as it may be just about to end.
Joins(t, ticks) ==
  \/ due' = due /\ (ticks > 0 \/ due = {})
  \/ running /\ ticks = 0 /\ due' = due \cup {t}

Start(t, ticks, every) ==
  /\ t \notin Active
  /\ running => firing # NULL
  /\ left' = With(left, t, ticks)
  /\ period' = With(period, t, every)
  /\ Joins(t, ticks)
  /\ UNCHANGED <<elapsed, running, firing>>

Stop(t) ==
  /\ running => firing # NULL
  /\ left' = Without(left, t)
  /\ period' = Without(period, t)
  /\ due' = due \ {t}
  /\ UNCHANGED <<elapsed, running, firing>>

Begin ==
  /\ ~running
  /\ running' = TRUE
  /\ left' = [t \in Active |-> left[t] - elapsed]
  /\ elapsed' = 0
  /\ due' = {t \in Active : left[t] <= elapsed}
  /\ UNCHANGED <<period, firing>>

\* A one-shot timer is done before its callback runs; a repeating one expires
\* one interval after it last did, however late this run is.
Fire(t) ==
  /\ t \in due /\ firing = NULL
  /\ due' = due \ {t}
  /\ firing' = t
  /\ IF period[t] = Once
     THEN left' = Without(left, t) /\ period' = Without(period, t)
     ELSE left' = [left EXCEPT ![t] = @ + period[t]] /\ UNCHANGED period
  /\ UNCHANGED <<elapsed, running>>

Done ==
  /\ firing # NULL
  /\ firing' = NULL
  /\ UNCHANGED <<left, period, elapsed, running, due>>

End ==
  /\ running /\ firing = NULL /\ due = {}
  /\ running' = FALSE
  /\ UNCHANGED <<left, period, elapsed, due, firing>>

Next ==
  \/ Tick \/ Begin \/ Done \/ End
  \/ \E t \in Timer :
       \/ \E ticks \in OneShotIntervals : Start(t, ticks, Once)
       \/ \E ticks \in RepeatIntervals : Start(t, ticks, ticks)
       \/ Stop(t)
       \/ Fire(t)

Spec == Init /\ [][Next]_vars
=============================================================================

------------------------------- MODULE Timer -------------------------------
(***************************************************************************)
(* src/core/timer/timer.[ch] over a time source (i_timesource.h): the      *)
(* controllers, which are their lists of timers, and the program around    *)
(* them.                                                                   *)
(*                                                                         *)
(* timer_controller_run walks the list and calls back into the program,    *)
(* which may start and stop timers while the walk is under way.  A run is  *)
(* therefore many steps: the run begins, one step per timer visited, one   *)
(* per callback that returns, the run returns.  Everything else (starting, *)
(* stopping, time passing) may happen between them.  The program runs its  *)
(* controllers one after the other, never one inside another.              *)
(***************************************************************************)
EXTENDS LinkedList

CONSTANTS
  Half,               \* ticks wrap after 2 * Half of them: 2^31 in the code
  MaxLag,             \* MaxLag[c]: the longest time from the start of one run
                      \* of c to that of the next
  MaxBehind,          \* how long after its expiration a timer may be unfired
  StartedOn,          \* StartedOn[t]: the controllers timer t is started on
  OneShotIntervals,   \* the intervals one-shot timers are started with
  RepeatIntervals,    \* and repeating ones
  CallbacksChange,    \* callbacks start and stop timers
  CallbacksStopNext   \* ... even the one that follows theirs on the list

TickMod == 2 * Half
Ticks == 0 .. TickMod - 1
UINT32_MAX == TickMod - 1

ASSUME TimerConstants ==
  /\ NULL \notin List
  /\ Half \in Nat \ {0}
  /\ MaxLag \in [List -> 0 .. Half - 1] /\ MaxBehind \in 0 .. Half - 1
  /\ StartedOn \in [Node -> SUBSET List]
  /\ OneShotIntervals \subseteq Ticks
  /\ RepeatIntervals \subseteq Ticks
  /\ {CallbacksChange, CallbacksStopNext} \subseteq BOOLEAN

VARIABLES
  now,                    \* what timesource->get_ticks() gives
  current_ticks,          \* current_ticks[c]: controller->current_ticks
  controller,             \* the fields of each timer
  interval_ticks,
  next_expiration_ticks,
  repeating,
  pc,                     \* "idle", or where timer_controller_run is
  running,                \* its argument, NULL when idle
  current,                \* its locals: the timer visited,
  saved,                  \* `next`, live while a callback runs,
  min_ticks_to_next       \* and the value it will return

timerFields ==
  <<controller, interval_ticks, next_expiration_ticks, repeating>>
runVars == <<pc, running, current, saved, min_ticks_to_next>>
timerVars == <<listVars, now, current_ticks, timerFields, runVars>>

InCallback == pc \in {"one_shot", "repeating"}
Active(c, t) == t \in Linked(c)

\* Seeded fault: the ticks are compared as unsigned numbers.
Unsigned(a, b) == (a - b) % TickMod

\* (int32_t)(a - b) of two tick counts.
Signed(a, b) ==
  LET d == (a - b) % TickMod IN IF d >= Half THEN d - TickMod ELSE d

TicksUntil(c, t) == Signed(next_expiration_ticks[t], current_ticks[c])

\* Seeded fault: the interval is left out.
ExpirationNow(c, ticks) == current_ticks[c]

\* Seeded fault: the sum is not cut to 32 bits.
ExpirationUnwrapped(c, ticks) == current_ticks[c] + ticks

\* An interval counts from the time of the last run, not from now.
Expiration(c, ticks) == (current_ticks[c] + ticks) % TickMod

\* Seeded fault: the last timer visited decides.
LowerLast(ticks) == ticks

Lower(ticks) == IF ticks < min_ticks_to_next THEN ticks ELSE min_ticks_to_next

\* Seeded fault: a timer stays with the controller it was first started on.
ControllerKept(c, t) ==
  IF controller[t] = NULL THEN [controller EXCEPT ![t] = c] ELSE controller

ControllerSet(c, t) == [controller EXCEPT ![t] = c]

\* What timers hold before they are started is never read.
TimerInit ==
  /\ ListsInit
  /\ now \in Ticks
  /\ current_ticks = [c \in List |-> now]
  /\ controller = [t \in Node |-> NULL]
  /\ interval_ticks = [t \in Node |-> 0]
  /\ next_expiration_ticks = [t \in Node |-> 0]
  /\ repeating = [t \in Node |-> FALSE]
  /\ pc = "idle" /\ running = NULL
  /\ current = NULL /\ saved = NULL
  /\ min_ticks_to_next = UINT32_MAX

-----------------------------------------------------------------------------
\* Time passes, up to the bounds on how long the program stays away from
\* timer_controller_run, and on how far the timers fall behind by it.
Tick ==
  /\ \A c \in List :
       /\ (now - current_ticks[c]) % TickMod < MaxLag[c]
       /\ \A t \in Linked(c) : Signed(now, next_expiration_ticks[t]) < MaxBehind
  /\ now' = (now + 1) % TickMod
  /\ UNCHANGED <<listVars, current_ticks, timerFields, runVars>>

\* The program runs when it is not inside timer_controller_run; inside it,
\* only the callback of the timer being visited does.
MayStart == pc = "idle" \/ (InCallback /\ CallbacksChange)
MayStop(t) == MayStart /\ (InCallback /\ t = saved => CallbacksStopNext)

TimerStart(c, t, ticks, rep) ==
  /\ MayStart /\ c \in StartedOn[t]
  /\ Push(c, t)
  /\ controller' = ControllerSet(c, t)
  /\ interval_ticks' = [interval_ticks EXCEPT ![t] = ticks]
  /\ next_expiration_ticks' =
       [next_expiration_ticks EXCEPT ![t] = Expiration(c, ticks)]
  /\ repeating' = [repeating EXCEPT ![t] = rep]
  /\ UNCHANGED <<now, current_ticks, runVars>>

StartOneShot(c, t) ==
  \E ticks \in OneShotIntervals : TimerStart(c, t, ticks, FALSE)
StartRepeating(c, t) ==
  \E ticks \in RepeatIntervals : TimerStart(c, t, ticks, TRUE)

\* A timer that was never started has no controller to be stopped on.
TimerStop(t) ==
  /\ MayStop(t) /\ controller[t] # NULL
  /\ Delete(controller[t], t)
  /\ UNCHANGED <<now, current_ticks, timerFields, runVars>>

-----------------------------------------------------------------------------
RunBegin(c) ==
  /\ pc = "idle"
  /\ pc' = "loop" /\ running' = c
  /\ current_ticks' = [current_ticks EXCEPT ![c] = now]
  /\ current' = head[c]
  /\ min_ticks_to_next' = UINT32_MAX
  /\ UNCHANGED <<listVars, now, timerFields, saved>>

Visit == pc = "loop" /\ current # NULL

\* A timer that has not expired bounds the time to the next expiration.
VisitPending ==
  /\ Visit /\ TicksUntil(running, current) > 0
  /\ min_ticks_to_next' = Lower(TicksUntil(running, current))
  /\ current' = next[current]
  /\ UNCHANGED <<listVars, now, current_ticks, timerFields, pc, running, saved>>

FireRepeating ==
  /\ Visit /\ TicksUntil(running, current) <= 0 /\ repeating[current]
  /\ saved' = next[current]
  /\ next_expiration_ticks' = [next_expiration_ticks EXCEPT
       ![current] = (@ + interval_ticks[current]) % TickMod]
  /\ pc' = "repeating"
  /\ UNCHANGED <<listVars, now, current_ticks, controller, interval_ticks,
                 repeating, running, current, min_ticks_to_next>>

\* `next` is read before the timer is taken off and before its callback.
FireOneShot ==
  /\ Visit /\ TicksUntil(running, current) <= 0 /\ ~repeating[current]
  /\ saved' = next[current]
  /\ Delete(running, current)
  /\ pc' = "one_shot"
  /\ UNCHANGED <<now, current_ticks, timerFields, running, current,
                 min_ticks_to_next>>

\* Seeded fault: the sign of what is left is not looked at.
CallbackReturnsUnchecked ==
  /\ InCallback
  /\ min_ticks_to_next' = IF pc = "repeating"
                          THEN Lower(TicksUntil(running, current) % TickMod)
                          ELSE min_ticks_to_next
  /\ current' = saved
  /\ saved' = NULL
  /\ pc' = "loop"
  /\ UNCHANGED <<listVars, now, current_ticks, timerFields, running>>

\* The callback is done.  A repeating timer that is still overdue, one run
\* having fired it only once, does not bound the time to the next run.
CallbackReturns ==
  /\ InCallback
  /\ min_ticks_to_next' = IF pc = "repeating" /\ TicksUntil(running, current) > 0
                          THEN Lower(TicksUntil(running, current))
                          ELSE min_ticks_to_next
  /\ current' = saved
  /\ saved' = NULL
  /\ pc' = "loop"
  /\ UNCHANGED <<listVars, now, current_ticks, timerFields, running>>

\* What is returned is min_ticks_to_next as the step finds it; the locals die.
RunReturns ==
  /\ pc = "loop" /\ current = NULL
  /\ pc' = "idle" /\ running' = NULL
  /\ min_ticks_to_next' = UINT32_MAX
  /\ UNCHANGED <<listVars, now, current_ticks, timerFields, current, saved>>

RunGoesOn ==
  \/ VisitPending
  \/ FireRepeating
  \/ FireOneShot
  \/ CallbackReturns
  \/ RunReturns

TimerNext ==
  \/ Tick
  \/ RunGoesOn
  \/ \E c \in List :
       \/ RunBegin(c)
       \/ \E t \in Node : StartOneShot(c, t) \/ StartRepeating(c, t)
  \/ \E t \in Node : TimerStop(t)

TimerSpec == TimerInit /\ [][TimerNext]_timerVars

-----------------------------------------------------------------------------
TimerTypeOK ==
  /\ ListsTypeOK
  /\ now \in Ticks
  /\ current_ticks \in [List -> Ticks]
  /\ controller \in [Node -> List \cup {NULL}]
  /\ interval_ticks \in [Node -> Ticks]
  /\ next_expiration_ticks \in [Node -> Ticks]
  /\ repeating \in [Node -> BOOLEAN]
  /\ pc \in {"idle", "loop", "one_shot", "repeating"}
  /\ running \in List \cup {NULL} /\ (running = NULL <=> pc = "idle")
  /\ {current, saved} \subseteq Pointer
  /\ InCallback => current \in Node
  /\ min_ticks_to_next \in Ticks

Fires(t) == (FireOneShot \/ FireRepeating) /\ current = t

\* A timer whose callback timer_controller_run calls is on the controller's
\* list at that moment: timer_stop, wherever it was called, was not in vain.
StoppedTimerNeverFires == [][\A t \in Node : Fires(t) => Active(running, t)]_timerVars

\* timer_stop is not told the controller.  The one it looks at is the one whose
\* list the timer is on, whatever controllers it was started and stopped on.
StopFindsTheTimer ==
  \A c \in List, t \in Node : Active(c, t) => controller[t] = c

\* timer_controller_run never returns 0, which would end a main loop that runs
\* `while(timer_controller_run(...))` as examples/hello_world does.
RunNeverReturnsZero == pc = "loop" /\ current = NULL => min_ticks_to_next > 0

\* In a callback, a timer is started on the controller under the walk with an
\* interval that makes it due at once: none, or one that reads as negative.
StartsDue ==
  /\ InCallback
  /\ \E t \in Node : /\ Unlinked(t) /\ ~Unlinked(t)' /\ controller'[t] = running
                     /\ interval_ticks'[t] \notin 1 .. Half - 1

RunsReturn == []<>(pc = "idle")

\* Every run of the controller comes to its end, although callbacks push timers
\* onto the list it walks.  The only way to keep timer_controller_run from
\* returning is to start, in its callbacks, timers that are due at once, for
\* ever: two one-shot timers that restart themselves with no ticks do.
EveryRunReturns == RunsReturn \/ []<><<StartsDue>>_timerVars

\* A timer that is started fires, unless it is stopped first, whatever intervals
\* it and the others are started with, if only the runs return.
StartedTimerFires ==
  RunsReturn =>
    \A t \in Node :
      ~Unlinked(t) ~> ((InCallback /\ current = t) \/ Unlinked(t))

\* The timers of a controller keep exact time: see ExactTimers.  What a run
\* under way still has to fire is what is due in the part of the list it has
\* not walked yet.
Rest == IF InCallback THEN saved ELSE current
Exact(c) == INSTANCE ExactTimers WITH
  Timer <- Node,
  left <- [t \in Linked(c) |-> TicksUntil(c, t)],
  period <- [t \in Linked(c) |->
               IF repeating[t] THEN interval_ticks[t] ELSE -1],
  elapsed <- (now - current_ticks[c]) % TickMod,
  running <- running = c,
  due <- IF running # c THEN {}
         ELSE {t \in Reach(Rest, next) : TicksUntil(c, t) <= 0},
  firing <- IF running = c /\ InCallback THEN current ELSE NULL
ImplementsExactTimers ==
  /\ \A c \in List : Exact(c)!Init
  /\ [][\A c \in List : [Exact(c)!Next]_(Exact(c)!vars)]_timerVars
=============================================================================

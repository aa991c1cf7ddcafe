----------------------------- MODULE TimerProofs ---------------------------
(***************************************************************************)
(* Proofs about timer controllers, for any number of them, any finite set  *)
(* of timers, any tick range and any intervals: their types, that a run    *)
(* never returns 0, and that timer_stop finds the timer; and, while        *)
(* callbacks leave the timer behind their own alone, that a stopped timer  *)
(* does not fire and what a run returns counts; and, for intervals from 0  *)
(* to below half the tick range, that no timer is early by more than the   *)
(* lag and that the controllers implement exact timers.                    *)
(***************************************************************************)
EXTENDS TimerHistory, LinkedListProofs

\* Differences of ticks are numbers of the width of a tick.
LEMMA TicksFacts ==
  /\ TickMod \in Nat /\ Half \in Nat /\ UINT32_MAX \in Ticks \ {0}
  /\ \A a \in Int : a % TickMod \in Ticks
  /\ \A a, b \in Ticks : Signed(a, b) \in Int /\ Signed(a, b) < Half
  /\ \A i \in 1 .. Half - 1 : i \in Ticks \ {0}
<1>1. Half \in Nat \ {0} /\ TickMod = 2 * Half  BY TimerConstants DEF TickMod
<1>2. TickMod \in Nat \ {0} /\ TickMod >= 2  BY <1>1
<1>3. \A a \in Int : a % TickMod \in 0 .. TickMod - 1  BY <1>2
<1>4. \A a \in Int : a % TickMod \in Ticks  BY <1>3 DEF Ticks
<1>5. ASSUME NEW a \in Ticks, NEW b \in Ticks
      PROVE  Signed(a, b) \in Int /\ Signed(a, b) < Half
  <2>1. PICK d : d = (a - b) % TickMod  OBVIOUS
  <2>2. a - b \in Int  BY <1>5, <1>2 DEF Ticks
  <2>3. d \in 0 .. TickMod - 1  BY <1>3, <2>1, <2>2
  <2>4. Signed(a, b) = IF d >= Half THEN d - TickMod ELSE d
    BY <2>1 DEF Signed
  <2>5. QED  BY <1>1, <1>2, <2>3, <2>4
<1>6. QED  BY <1>1, <1>2, <1>4, <1>5 DEF Ticks, UINT32_MAX

-----------------------------------------------------------------------------
\* The inductive invariant for the types: the lists are well-formed, and what
\* a run will return is never 0.
TypeInv == ListsInv /\ TimerTypeOK /\ min_ticks_to_next # 0

\* The lists stay well-formed, since timer_controller_run and its callbacks
\* change them only by list_push and list_delete.
LEMMA TimerListsStep ==
  TypeInv /\ [TimerNext]_timerVars => [ListsNext]_listVars
<1>1. SUFFICES ASSUME TypeInv, [TimerNext]_timerVars
               PROVE  ListsNext \/ UNCHANGED listVars
  OBVIOUS
<1>2. ASSUME NEW c \in List, RunBegin(c) PROVE UNCHANGED listVars
  BY <1>2 DEF RunBegin
<1>3. ASSUME NEW c \in List, NEW t \in Node,
             StartOneShot(c, t) \/ StartRepeating(c, t)
      PROVE  ListsNext
  <2>1. Push(c, t)
    BY <1>3 DEF StartOneShot, StartRepeating, TimerStart
  <2>2. QED  BY <2>1 DEF ListsNext
<1>4. ASSUME NEW t \in Node, TimerStop(t) PROVE ListsNext
  <2>1. controller[t] \in List /\ Delete(controller[t], t)
    BY <1>1, <1>4 DEF TypeInv, TimerTypeOK, TimerStop
  <2>2. QED  BY <2>1 DEF ListsNext
<1>5. CASE Tick  BY <1>5 DEF Tick
<1>6. CASE RunGoesOn
  <2>2. CASE VisitPending  BY <2>2 DEF VisitPending
  <2>3. CASE FireRepeating  BY <2>3 DEF FireRepeating
  <2>4. CASE FireOneShot
    <3>1. current \in Node /\ running \in List
      BY <1>1, <2>4 DEF TypeInv, TimerTypeOK, Pointer, FireOneShot, Visit
    <3>2. Delete(running, current)  BY <2>4 DEF FireOneShot
    <3>3. QED  BY <3>1, <3>2 DEF ListsNext
  <2>5. CASE CallbackReturns  BY <2>5 DEF CallbackReturns
  <2>6. CASE RunReturns  BY <2>6 DEF RunReturns
  <2>7. QED  BY <1>6, <2>2, <2>3, <2>4, <2>5, <2>6 DEF RunGoesOn
<1>7. CASE UNCHANGED timerVars  BY <1>7 DEF timerVars
<1>8. QED  BY <1>1, <1>2, <1>3, <1>4, <1>5, <1>6, <1>7 DEF TimerNext

LEMMA TypeStart == TimerInit => TypeInv
<1>1. SUFFICES ASSUME TimerInit PROVE TypeInv  OBVIOUS
<1>2. ListsInv  BY <1>1, ListsStart DEF TimerInit
<1>3. ListsTypeOK  BY <1>2 DEF ListsInv
<1>4. UINT32_MAX \in Ticks \ {0} /\ 0 \in Ticks
  BY TicksFacts DEF Ticks
<1>5. QED
  BY <1>1, <1>2, <1>3, <1>4
     DEF TimerInit, TypeInv, TimerTypeOK, Pointer, InCallback

\* What Lower returns is a positive number of ticks.
LEMMA LowerTicks ==
  ASSUME TypeInv, NEW c \in List, NEW t \in Node, TicksUntil(c, t) > 0
  PROVE  Lower(TicksUntil(c, t)) \in Ticks \ {0}
<1>1. /\ next_expiration_ticks[t] \in Ticks /\ current_ticks[c] \in Ticks
      /\ min_ticks_to_next \in Ticks \ {0}
  BY DEF TypeInv, TimerTypeOK
<1>2. TicksUntil(c, t) \in Int /\ TicksUntil(c, t) < Half
  BY <1>1, TicksFacts DEF TicksUntil
<1>3. TicksUntil(c, t) \in 1 .. Half - 1  BY <1>2, TicksFacts
<1>4. QED  BY <1>1, <1>3, TicksFacts DEF Lower

LEMMA TypeStep == TypeInv /\ [TimerNext]_timerVars => TypeInv'
<1>1. SUFFICES ASSUME TypeInv, [TimerNext]_timerVars PROVE TypeInv'  OBVIOUS
<1>2. ListsInv' /\ ListsTypeOK'
  BY <1>1, TimerListsStep, ListsStep DEF TypeInv, ListsInv
<1>3. /\ now \in Ticks /\ current_ticks \in [List -> Ticks]
      /\ controller \in [Node -> List \cup {NULL}]
      /\ interval_ticks \in [Node -> Ticks]
      /\ next_expiration_ticks \in [Node -> Ticks]
      /\ repeating \in [Node -> BOOLEAN]
      /\ pc \in {"idle", "loop", "one_shot", "repeating"}
      /\ running \in List \cup {NULL} /\ (running = NULL <=> pc = "idle")
      /\ current \in Pointer /\ saved \in Pointer
      /\ pc \in {"one_shot", "repeating"} => current \in Node
      /\ min_ticks_to_next \in Ticks \ {0}
      /\ next \in Heap /\ head \in [List -> Pointer] /\ NULL \notin List
  BY <1>1, TimerConstants
     DEF TypeInv, TimerTypeOK, InCallback, ListsTypeOK
<1>4. \A a \in Ticks, b \in Ticks : (a + b) % TickMod \in Ticks
  BY TicksFacts DEF Ticks
<1> USE DEF TypeInv, TimerTypeOK, InCallback
<1>5. CASE Tick
  <2>1. 1 \in Ticks  BY TicksFacts DEF Ticks, UINT32_MAX
  <2>2. now' \in Ticks  BY <1>3, <1>4, <1>5, <2>1 DEF Tick
  <2>3. UNCHANGED <<current_ticks, timerFields, runVars>>  BY <1>5 DEF Tick
  <2>4. QED  BY <1>2, <1>3, <2>2, <2>3 DEF timerFields, runVars
<1>6. ASSUME NEW c \in List, NEW t \in Node,
             StartOneShot(c, t) \/ StartRepeating(c, t)
      PROVE  TypeInv'
  <2>1. PICK ticks \in Ticks, rep \in BOOLEAN : TimerStart(c, t, ticks, rep)
    BY <1>6, TimerConstants DEF StartOneShot, StartRepeating
  <2>2. Expiration(c, ticks) \in Ticks  BY <1>3, <1>4 DEF Expiration
  <2>3. /\ controller' \in [Node -> List \cup {NULL}]
        /\ interval_ticks' \in [Node -> Ticks]
        /\ next_expiration_ticks' \in [Node -> Ticks]
        /\ repeating' \in [Node -> BOOLEAN]
    BY <1>3, <2>1, <2>2 DEF TimerStart, ControllerSet
  <2>4. UNCHANGED <<now, current_ticks, runVars>>  BY <2>1 DEF TimerStart
  <2>5. QED  BY <1>2, <1>3, <2>3, <2>4 DEF runVars
<1>7. ASSUME NEW t \in Node, TimerStop(t) PROVE TypeInv'
  <2>1. UNCHANGED <<now, current_ticks, timerFields, runVars>>
    BY <1>7 DEF TimerStop
  <2>2. QED  BY <1>2, <1>3, <2>1 DEF timerFields, runVars
<1>8. ASSUME NEW c \in List, RunBegin(c) PROVE TypeInv'
  <2>1. UNCHANGED <<now, timerFields, saved>>  BY <1>8 DEF RunBegin
  <2>2. /\ pc' = "loop" /\ running' = c /\ current' = head[c]
        /\ current_ticks' = [current_ticks EXCEPT ![c] = now]
        /\ min_ticks_to_next' = UINT32_MAX
    BY <1>8 DEF RunBegin
  <2>3. QED  BY <1>2, <1>3, <2>1, <2>2, TicksFacts DEF timerFields
<1>9. CASE VisitPending
  <2>1. current \in Node /\ running \in List /\ TicksUntil(running, current) > 0
    BY <1>3, <1>9 DEF VisitPending, Visit, Pointer
  <2>2. min_ticks_to_next' \in Ticks \ {0}
    BY <1>1, <1>9, <2>1, LowerTicks DEF VisitPending
  <2>3. current' \in Pointer  BY <1>3, <1>9, <2>1 DEF VisitPending, Heap
  <2>4. UNCHANGED <<now, current_ticks, timerFields, pc, running, saved>> /\ pc = "loop"
    BY <1>9 DEF VisitPending, Visit
  <2>5. QED  BY <1>2, <1>3, <2>2, <2>3, <2>4 DEF timerFields
<1>10. CASE FireRepeating
  <2>1. current \in Node  BY <1>3, <1>10 DEF FireRepeating, Visit, Pointer
  <2>2. saved' \in Pointer  BY <1>3, <1>10, <2>1 DEF FireRepeating, Heap
  <2>3. next_expiration_ticks' \in [Node -> Ticks]
    <3>1. (next_expiration_ticks[current] + interval_ticks[current]) % TickMod
            \in Ticks
      BY <1>3, <1>4, <2>1
    <3>2. QED  BY <1>3, <1>10, <3>1 DEF FireRepeating
  <2>4. /\ pc = "loop" /\ pc' = "repeating"
        /\ UNCHANGED <<now, current_ticks, controller, interval_ticks, repeating,
                       running, current, min_ticks_to_next>>
    BY <1>10 DEF FireRepeating, Visit
  <2>5. QED  BY <1>2, <1>3, <2>1, <2>2, <2>3, <2>4
<1>11. CASE FireOneShot
  <2>1. current \in Node  BY <1>3, <1>11 DEF FireOneShot, Visit, Pointer
  <2>2. saved' \in Pointer  BY <1>3, <1>11, <2>1 DEF FireOneShot, Heap
  <2>3. /\ pc = "loop" /\ pc' = "one_shot"
        /\ UNCHANGED <<now, current_ticks, timerFields, running, current,
                       min_ticks_to_next>>
    BY <1>11 DEF FireOneShot, Visit
  <2>4. QED  BY <1>2, <1>3, <2>1, <2>2, <2>3 DEF timerFields
<1>12. CASE CallbackReturns
  <2>1. current \in Node /\ running \in List  BY <1>3, <1>12 DEF CallbackReturns
  <2>2. min_ticks_to_next' \in Ticks \ {0}
    BY <1>1, <1>3, <1>12, <2>1, LowerTicks DEF CallbackReturns
  <2>3. /\ pc' = "loop" /\ current' = saved /\ saved' = NULL
        /\ UNCHANGED <<now, current_ticks, timerFields, running>>
    BY <1>12 DEF CallbackReturns
  <2>4. QED  BY <1>2, <1>3, <2>1, <2>2, <2>3 DEF timerFields, Pointer
<1>13. CASE RunReturns
  <2>1. /\ pc' = "idle" /\ running' = NULL /\ min_ticks_to_next' = UINT32_MAX
        /\ UNCHANGED <<now, current_ticks, timerFields, current, saved>>
    BY <1>13 DEF RunReturns
  <2>2. QED  BY <1>2, <1>3, <2>1, TicksFacts DEF timerFields
<1>14. CASE UNCHANGED timerVars
  <2>1. UNCHANGED <<now, current_ticks, timerFields, runVars>>
    BY <1>14 DEF timerVars
  <2>2. QED  BY <1>2, <1>3, <2>1 DEF timerFields, runVars
<1>15. QED
  BY <1>1, <1>5, <1>6, <1>7, <1>8, <1>9, <1>10, <1>11, <1>12, <1>13, <1>14
     DEF TimerNext, RunGoesOn

LEMMA TypeInvariant == TimerSpec => []TypeInv
<1>1. QED  BY TypeStart, TypeStep, PTL DEF TimerSpec

\* Ticks keep their width, pointers are timers or null, and the locals of a
\* run are those of a run.
THEOREM TimerTypeCorrect == TimerSpec => []TimerTypeOK
<1>1. TypeInv => TimerTypeOK  BY DEF TypeInv
<1>2. QED  BY <1>1, TypeInvariant, PTL

\* The lists of timers stay chains that end although callbacks change them
\* while timer_controller_run walks one.
THEOREM TimerListsStayWellFormed == TimerSpec => []ListsWellFormed
<1>1. TypeInv => ListsWellFormed  BY InvProperties DEF TypeInv
<1>2. QED  BY <1>1, TypeInvariant, PTL

\* A timer that is due just now does not make timer_controller_run return 0.
THEOREM RunIsNeverZero == TimerSpec => []RunNeverReturnsZero
<1>1. TypeInv => RunNeverReturnsZero
  BY DEF TypeInv, TimerTypeOK, RunNeverReturnsZero, Ticks
<1>2. QED  BY <1>1, TypeInvariant, PTL

-----------------------------------------------------------------------------
\* A step of a run, or of time, leaves no timer on a list that was not on it.
LEMMA RunsLinkNothing ==
  ASSUME TypeInv, NEW c \in List,
         Tick \/ RunGoesOn \/ (\E l \in List : RunBegin(l)) \/ UNCHANGED timerVars
  PROVE  Linked(c)' \subseteq Linked(c) /\ controller' = controller
<1>1. UNCHANGED listVars => Linked(c)' = Linked(c)  BY DEF listVars, Linked
<1>2. CASE Tick  BY <1>1, <1>2 DEF Tick, timerFields
<1>3. CASE \E l \in List : RunBegin(l)  BY <1>1, <1>3 DEF RunBegin, timerFields
<1>4. CASE VisitPending  BY <1>1, <1>4 DEF VisitPending, timerFields
<1>5. CASE FireRepeating  BY <1>1, <1>5 DEF FireRepeating
<1>6. CASE FireOneShot
  <2>1. current \in Node /\ running \in List /\ ListsInv
    BY <1>6 DEF TypeInv, TimerTypeOK, Pointer, FireOneShot, Visit
  <2>2. Delete(running, current) /\ UNCHANGED timerFields
    BY <1>6 DEF FireOneShot
  <2>3. QED  BY <2>1, <2>2, DeleteKeeps DEF timerFields
<1>7. CASE CallbackReturns  BY <1>1, <1>7 DEF CallbackReturns, timerFields
<1>8. CASE RunReturns  BY <1>1, <1>8 DEF RunReturns, timerFields
<1>9. CASE UNCHANGED timerVars  BY <1>1, <1>9 DEF timerVars, timerFields
<1>10. QED
  BY <1>2, <1>3, <1>4, <1>5, <1>6, <1>7, <1>8, <1>9 DEF RunGoesOn

OwnerInv == TypeInv /\ StopFindsTheTimer

LEMMA OwnerStep == OwnerInv /\ [TimerNext]_timerVars => OwnerInv'
<1>1. SUFFICES ASSUME OwnerInv, [TimerNext]_timerVars,
                      NEW m \in List, NEW n \in Node, n \in Linked(m)'
               PROVE  controller'[n] = m
  BY TypeStep DEF OwnerInv, StopFindsTheTimer, Active
<1>2. TypeInv /\ ListsInv /\ controller \in [Node -> List \cup {NULL}]
  BY <1>1 DEF OwnerInv, TypeInv, TimerTypeOK
<1>3. n \in Linked(m) => controller[n] = m
  BY <1>1 DEF OwnerInv, StopFindsTheTimer, Active
<1>4. ASSUME NEW c \in List, NEW t \in Node,
             StartOneShot(c, t) \/ StartRepeating(c, t)
      PROVE  controller'[n] = m
  <2>1. Push(c, t) /\ controller' = [controller EXCEPT ![t] = c]
    BY <1>4 DEF StartOneShot, StartRepeating, TimerStart, ControllerSet
  <2>2. Linked(m)' \subseteq Linked(m) \cup (IF m = c THEN {t} ELSE {})
    BY <1>2, <2>1, PushKeeps
  <2>3. t \notin Linked(m)  BY <2>1 DEF Push, Unlinked
  <2>4. CASE n = t  BY <1>1, <1>2, <2>1, <2>2, <2>3, <2>4
  <2>5. CASE n # t  BY <1>1, <1>2, <1>3, <2>1, <2>2, <2>5
  <2>6. QED  BY <2>4, <2>5
<1>5. ASSUME NEW t \in Node, TimerStop(t) PROVE controller'[n] = m
  <2>1. /\ controller[t] \in List /\ Delete(controller[t], t)
        /\ controller' = controller
    BY <1>2, <1>5 DEF TimerStop, timerFields
  <2>2. Linked(m)' \subseteq Linked(m)  BY <1>2, <2>1, DeleteKeeps
  <2>3. QED  BY <1>1, <1>3, <2>1, <2>2
<1>6. CASE Tick \/ RunGoesOn \/ (\E l \in List : RunBegin(l))
           \/ UNCHANGED timerVars
  BY <1>1, <1>2, <1>3, <1>6, RunsLinkNothing
<1>7. QED  BY <1>1, <1>4, <1>5, <1>6 DEF TimerNext

\* timer_stop looks for a timer on the list it is on, however many controllers
\* it was started and stopped on, in and out of callbacks.
THEOREM StopsFindTheirTimers == TimerSpec => []StopFindsTheTimer
<1>1. TimerInit => OwnerInv
  <2>1. SUFFICES ASSUME TimerInit PROVE OwnerInv  OBVIOUS
  <2>2. TypeInv /\ ListsInv /\ Contents = [l \in List |-> <<>>]
    BY <2>1, TypeStart, ListsStart DEF TimerInit
  <2>3. \A c \in List : Linked(c) = {}
    BY <2>2, ContentsFacts DEF Range
  <2>4. QED  BY <2>2, <2>3 DEF OwnerInv, StopFindsTheTimer, Active
<1>2. OwnerInv => StopFindsTheTimer  BY DEF OwnerInv
<1>3. QED  BY <1>1, <1>2, OwnerStep, PTL DEF TimerSpec

-----------------------------------------------------------------------------
\* Where the walk stands, and where it will go on after a callback, is on the
\* list walked.  Only stopping the timer it will go on from could change that.
WalkInv ==
  /\ pc = "loop" => current \in Linked(running) \cup {NULL}
  /\ InCallback => saved \in Linked(running) \cup {NULL}

StopInv == TypeInv /\ WalkInv

LEMMA StopStep ==
  ASSUME ~CallbacksStopNext
  PROVE  StopInv /\ [TimerNext]_timerVars => StopInv'
<1>1. SUFFICES ASSUME StopInv, [TimerNext]_timerVars PROVE StopInv'  OBVIOUS
<1>2. /\ TypeInv /\ TypeInv' /\ WalkInv /\ ListsInv
      /\ pc \in {"loop", "one_shot", "repeating"} => running \in List
  BY <1>1, TypeStep DEF StopInv, TypeInv, TimerTypeOK
<1>3. SUFFICES WalkInv'  BY <1>2 DEF StopInv
<1>4. \A c \in List :
        /\ head[c] \in Linked(c) \cup {NULL}
        /\ \A t \in Linked(c) : next[t] \in (Linked(c) \ {t}) \cup {NULL}
  BY <1>2, WalkStaysOn
<1>5. \A c : UNCHANGED listVars => Reach(head[c], next)' = Reach(head[c], next)
  BY DEF listVars
<1> USE DEF Linked
<1>6. CASE Tick
  BY <1>2, <1>5, <1>6 DEF Tick, WalkInv, InCallback, runVars
<1>7. ASSUME NEW c \in List, NEW t \in Node,
             StartOneShot(c, t) \/ StartRepeating(c, t)
      PROVE  WalkInv'
  <2>1. Push(c, t) /\ UNCHANGED runVars
    BY <1>7 DEF StartOneShot, StartRepeating, TimerStart
  <2>2. \A m \in List : Linked(m) \subseteq Linked(m)'
    BY <1>2, <2>1, PushKeeps
  <2>3. QED  BY <1>2, <2>1, <2>2 DEF WalkInv, InCallback, runVars
<1>8. ASSUME NEW t \in Node, TimerStop(t) PROVE WalkInv'
  <2>1. /\ Delete(controller[t], t) /\ UNCHANGED runVars /\ pc # "loop"
        /\ InCallback => t # saved
        /\ controller[t] \in List
    BY <1>2, <1>8
       DEF TimerStop, MayStop, MayStart, InCallback, TypeInv, TimerTypeOK
  <2>2. \A m \in List : Linked(m) \ {t} \subseteq Linked(m)'
    BY <1>2, <2>1, DeleteKeeps
  <2>3. QED  BY <1>2, <2>1, <2>2 DEF WalkInv, InCallback, runVars
<1>9. ASSUME NEW c \in List, RunBegin(c) PROVE WalkInv'
  BY <1>4, <1>5, <1>9 DEF RunBegin, WalkInv, InCallback
<1>10. CASE VisitPending
  BY <1>2, <1>4, <1>5, <1>10 DEF VisitPending, Visit, WalkInv, InCallback
<1>11. CASE FireRepeating
  BY <1>2, <1>4, <1>5, <1>11 DEF FireRepeating, Visit, WalkInv, InCallback
<1>12. CASE FireOneShot
  <2>1. current \in Linked(running) /\ current \in Node /\ running \in List
    BY <1>2, <1>12
       DEF FireOneShot, Visit, WalkInv, TypeInv, TimerTypeOK, Pointer
  <2>2. saved' \in (Linked(running) \ {current}) \cup {NULL}
    BY <1>4, <1>12, <2>1 DEF FireOneShot
  <2>3. Linked(running) \ {current} \subseteq Reach(head'[running], next')
    <3>1. Delete(running, current)  BY <1>12 DEF FireOneShot
    <3>2. Linked(running) \ {current} \subseteq Linked(running)'
            /\ running' = running
      BY <1>2, <1>12, <2>1, <3>1, DeleteKeeps DEF FireOneShot
    <3>3. QED  BY <3>2
  <2>4. pc' = "one_shot" /\ running' = running  BY <1>12 DEF FireOneShot
  <2>5. QED  BY <2>2, <2>3, <2>4 DEF WalkInv, InCallback
<1>13. CASE CallbackReturns
  BY <1>2, <1>5, <1>13 DEF CallbackReturns, WalkInv, InCallback
<1>14. CASE RunReturns
  BY <1>14 DEF RunReturns, WalkInv, InCallback
<1>15. CASE UNCHANGED timerVars
  BY <1>2, <1>5, <1>15 DEF timerVars, runVars, WalkInv, InCallback
<1>16. QED
  BY <1>1, <1>6, <1>7, <1>8, <1>9, <1>10, <1>11, <1>12, <1>13, <1>14, <1>15
     DEF TimerNext, RunGoesOn

LEMMA StopInvariant ==
  ASSUME ~CallbacksStopNext PROVE TimerSpec => []StopInv
<1>1. TimerInit => StopInv
  BY TypeStart DEF TimerInit, StopInv, WalkInv, InCallback
<1>2. StopInv /\ [TimerNext]_timerVars => StopInv'  BY StopStep
<1>3. QED  BY <1>1, <1>2, PTL DEF TimerSpec

\* As long as no callback stops the timer behind its own, timer_stop is always
\* in time: a timer that fires is active at that moment.
THEOREM StoppedTimersStayQuiet ==
  ASSUME ~CallbacksStopNext PROVE TimerSpec => StoppedTimerNeverFires
<1>1. StopInv /\ [TimerNext]_timerVars =>
        [\A t \in Node : Fires(t) => Active(running, t)]_timerVars
  <2>1. SUFFICES ASSUME StopInv, NEW t \in Node, Fires(t)
                 PROVE  Active(running, t)
    OBVIOUS
  <2>2. pc = "loop" /\ current = t
    BY <2>1 DEF Fires, FireOneShot, FireRepeating, Visit
  <2>3. t # NULL  BY NullAssumption
  <2>4. QED  BY <2>1, <2>2, <2>3 DEF StopInv, WalkInv, Active
<1>2. QED  BY <1>1, StopInvariant, PTL DEF TimerSpec, StoppedTimerNeverFires

-----------------------------------------------------------------------------
(***************************************************************************)
(* What a walk has still before it: the nodes reached from where it will   *)
(* go on.                                                                  *)
(***************************************************************************)
LEMMA BehindNull == ASSUME NEW nx PROVE Reach(NULL, nx) = {}
<1>1. SUFFICES ASSUME NEW n \in Reach(NULL, nx) PROVE FALSE  OBVIOUS
<1>2. {} \in SUBSET Node /\ Closed({}, nx)  BY DEF Closed
<1>3. NULL \in {} \cup {NULL}  OBVIOUS
<1>4. n \in {}  BY <1>1, <1>2, <1>3 DEF Reach
<1>5. QED  BY <1>4

\* Everything behind a node is inside a set closed under the links.
LEMMA BehindWithin ==
  ASSUME NEW x, NEW nx, NEW S \in SUBSET Node, x \in S \cup {NULL}, Closed(S, nx)
  PROVE  Reach(x, nx) \subseteq S
BY DEF Reach

\* What a walk reaches is closed under the links.
LEMMA BehindClosed ==
  ASSUME NEW x \in Pointer, NEW nx \in Heap
  PROVE  /\ Reach(x, nx) \in SUBSET Node /\ x \in Reach(x, nx) \cup {NULL}
         /\ Closed(Reach(x, nx), nx)
<1>1. Reach(x, nx) \in SUBSET Node /\ x \in Reach(x, nx) \cup {NULL}
  BY DEF Reach, Pointer
<1>2. ASSUME NEW n \in Reach(x, nx)  PROVE nx[n] \in Reach(x, nx) \cup {NULL}
  <2>1. n \in Node /\ nx[n] \in Pointer  BY DEF Reach, Heap
  <2>2. SUFFICES ASSUME nx[n] \in Node, NEW S \in SUBSET Node,
                        x \in S \cup {NULL}, Closed(S, nx)
                 PROVE  nx[n] \in S
    BY <2>1 DEF Reach, Pointer
  <2>3. n \in S  BY <1>2, <2>2 DEF Reach
  <2>4. QED  BY <2>2, <2>3, NullAssumption DEF Closed
<1>3. QED  BY <1>1, <1>2 DEF Closed

\* A walk that stands on a node goes on to what is behind it.
LEMMA BehindSplits ==
  ASSUME NEW n \in Node, NEW nx \in Heap
  PROVE  Reach(n, nx) = {n} \cup Reach(nx[n], nx)
<1>1. nx[n] \in Pointer /\ n \in Pointer  BY DEF Heap, Pointer
<1>2. PICK S : S = {n} \cup Reach(nx[n], nx)  OBVIOUS
<1>3. S \in SUBSET Node /\ Closed(S, nx)
  BY <1>1, <1>2, BehindClosed DEF Closed
<1>4. Reach(n, nx) \subseteq S  BY <1>2, <1>3, BehindWithin
<1>5. n \in Reach(n, nx) /\ nx[n] \in Reach(n, nx) \cup {NULL}
  BY <1>1, BehindClosed, NullAssumption DEF Closed
<1>6. Reach(nx[n], nx) \subseteq Reach(n, nx)
  BY <1>1, <1>5, BehindClosed, BehindWithin
<1>7. QED  BY <1>2, <1>4, <1>5, <1>6

\* On a list it does not come back.
LEMMA BehindOnward ==
  ASSUME ListsInv, NEW l \in List, NEW n \in Linked(l)
  PROVE  Reach(next[n], next) = Reach(n, next) \ {n}
<1>1. PICK s : s = Contents[l]  OBVIOUS
<1>2. /\ s \in Seq(Node) /\ IsChain(s, head[l], next) /\ next \in Heap
      /\ Linked(l) = Range(s)
  BY <1>1, ContentsFacts
<1>3. PICK i \in 1 .. Len(s) : s[i] = n  BY <1>2 DEF Range
<1>4. PICK S : S = {s[j] : j \in i+1 .. Len(s)}  OBVIOUS
<1>5. S \in SUBSET Node  BY <1>2, <1>4
<1>6. n \notin S  BY <1>2, <1>3, <1>4 DEF IsChain, IsInjective
<1>7. Closed(S, next)
  <2>1. SUFFICES ASSUME NEW j \in i+1 .. Len(s) PROVE next[s[j]] \in S \cup {NULL}
    BY <1>4 DEF Closed
  <2>2. j \in DOMAIN s /\ Len(s) \in Nat  BY <1>2
  <2>3. next[s[j]] = IF j = Len(s) THEN NULL ELSE s[j+1]  BY <1>2, <2>2 DEF IsChain
  <2>4. j # Len(s) => j+1 \in i+1 .. Len(s)  BY <2>2
  <2>5. QED  BY <1>4, <2>3, <2>4
<1>8. next[n] \in S \cup {NULL}
  <2>1. next[n] = IF i = Len(s) THEN NULL ELSE s[i+1]  BY <1>2, <1>3 DEF IsChain
  <2>2. i # Len(s) => i+1 \in i+1 .. Len(s)  BY <1>2
  <2>3. QED  BY <1>4, <2>1, <2>2
<1>9. n \notin Reach(next[n], next)  BY <1>5, <1>6, <1>7, <1>8, BehindWithin
<1>10. n \in Node  BY <1>2 DEF Range
<1>11. QED  BY <1>2, <1>9, <1>10, BehindSplits

\* A walk of a list stays on it.
LEMMA BehindLinked ==
  ASSUME ListsInv, NEW l \in List, NEW x \in Linked(l) \cup {NULL}
  PROVE  Reach(x, next) \subseteq Linked(l)
<1>1. Linked(l) \in SUBSET Node  BY DEF Linked, Reach
<1>2. Closed(Linked(l), next)  BY WalkStaysOn DEF Closed
<1>3. QED  BY <1>1, <1>2, BehindWithin

\* list_push hangs the node behind the last one of its list.
LEMMA PushBehind ==
  ASSUME ListsInv, NEW l \in List, NEW n \in Node, Push(l, n),
         NEW m \in List, NEW x \in Linked(m) \cup {NULL}
  PROVE  /\ Reach(x, next) \subseteq Reach(x, next')
         /\ Reach(x, next') \subseteq Reach(x, next) \cup {n}
<1>1. PICK s : s = Contents[l]  OBVIOUS
<1>2. PICK t : t = Append(s, n)  OBVIOUS
<1>3. /\ s \in Seq(Node) /\ IsChain(s, head[l], next) /\ next \in Heap
      /\ Linked(l) = Range(s)
  BY <1>1, ContentsFacts
<1>4. ListsInv' /\ Contents' = [Contents EXCEPT ![l] = t]
  BY <1>1, <1>2, PushStep
<1>5. Contents'[l] = t  BY <1>4 DEF Contents
<1>6. Holds(head', next', Contents') /\ next' \in Heap
  BY <1>4 DEF ListsInv, ListsTypeOK
<1>7. IsChain(t, head'[l], next')  BY <1>5, <1>6 DEF Holds
<1>8. Len(t) = Len(s) + 1 /\ t[Len(s) + 1] = n /\ Len(s) \in Nat
      /\ \A i \in 1 .. Len(s) : t[i] = s[i]
  BY <1>2, <1>3
<1>9. next'[n] = NULL
  <2>1. Len(t) \in DOMAIN t  BY <1>2, <1>3, <1>8
  <2>2. QED  BY <1>7, <1>8, <2>1 DEF IsChain
<1>10. \A i \in 1 .. Len(s) : next[s[i]] # NULL => next'[s[i]] = next[s[i]]
  <2>1. SUFFICES ASSUME NEW i \in 1 .. Len(s), next[s[i]] # NULL
                 PROVE  next'[s[i]] = next[s[i]]
    OBVIOUS
  <2>2. i # Len(s) /\ next[s[i]] = s[i+1]  BY <1>3, <2>1 DEF IsChain
  <2>3. i \in DOMAIN t /\ i+1 \in 1 .. Len(s) /\ i # Len(t)
    BY <1>2, <1>3, <1>8, <2>2
  <2>4. next'[t[i]] = t[i+1]  BY <1>7, <2>3 DEF IsChain
  <2>5. QED  BY <1>8, <2>2, <2>3, <2>4
<1>11. \A y \in Linked(m) : next[y] # NULL => next'[y] = next[y]
  <2>1. CASE m = l  BY <1>3, <1>10, <2>1 DEF Range
  <2>2. CASE m # l
    <3>1. Linked(l) \cap Linked(m) = {}  BY <2>2, InvProperties DEF ListsDisjoint
    <3>2. n \notin Linked(m) /\ Linked(m) \subseteq Node
      BY DEF Push, Unlinked, Linked, Reach
    <3>3. QED  BY <3>1, <3>2, PushLinks
  <2>3. QED  BY <2>1, <2>2
<1>12. Linked(m) \in SUBSET Node /\ x \in Pointer
       /\ Reach(x, next) \subseteq Linked(m)
  BY BehindLinked DEF Linked, Reach, Pointer
<1>13. Reach(x, next) \subseteq Reach(x, next')
  <2>1. PICK S : S = Reach(x, next') \cap Linked(m)  OBVIOUS
  <2>2. S \in SUBSET Node /\ x \in S \cup {NULL}
    BY <1>6, <1>12, <2>1, BehindClosed
  <2>3. Closed(Reach(x, next'), next')  BY <1>6, <1>12, BehindClosed
  <2>4. \A y \in Linked(m) : next[y] \in Linked(m) \cup {NULL}  BY WalkStaysOn
  <2>5. Closed(S, next)  BY <1>11, <2>1, <2>3, <2>4 DEF Closed
  <2>6. QED  BY <2>1, <2>2, <2>5, BehindWithin
<1>14. Reach(x, next') \subseteq Reach(x, next) \cup {n}
  <2>1. PICK S : S = Reach(x, next) \cup {n}  OBVIOUS
  <2>2. S \in SUBSET Node /\ x \in S \cup {NULL}
    BY <1>3, <1>12, <2>1, BehindClosed
  <2>3. Closed(Reach(x, next), next)  BY <1>3, <1>12, BehindClosed
  <2>4. \A y \in Node : next'[y] \in {next[y], n, NULL}  BY PushLinks
  <2>5. Closed(S, next')  BY <1>9, <2>1, <2>2, <2>3, <2>4 DEF Closed
  <2>6. QED  BY <2>1, <2>2, <2>5, BehindWithin
<1>15. QED  BY <1>13, <1>14

\* From every node of a list, a walk comes to the last one.
LEMMA LastIsReached ==
  ASSUME NEW h, NEW nx, NEW s \in Seq(Node), IsChain(s, h, nx),
         NEW i \in 1 .. Len(s)
  PROVE  s[Len(s)] \in Reach(s[i], nx)
<1>1. SUFFICES ASSUME NEW S \in SUBSET Node, s[i] \in S \cup {NULL}, Closed(S, nx)
               PROVE  s[Len(s)] \in S
  BY DEF Reach
<1> DEFINE B == {j \in i .. Len(s) : s[j] \notin S}
<1>2. SUFFICES ASSUME B # {} PROVE FALSE
  <2>1. Len(s) \in i .. Len(s)  OBVIOUS
  <2>2. QED  BY <1>2, <2>1
<1>3. PICK m \in B : \A k \in B : m <= k
  <2>1. B \in SUBSET Nat  OBVIOUS
  <2>2. QED  BY <1>2, <2>1, NatMin
<1>4. m # i  BY <1>1, <1>3, NullAssumption
<1>5. m - 1 \in i .. Len(s) /\ m - 1 \in 1 .. Len(s) /\ s[m-1] \in S
  BY <1>3, <1>4
<1>6. nx[s[m-1]] = s[m]  BY <1>3, <1>5 DEF IsChain
<1>7. s[m] \in S  BY <1>1, <1>3, <1>5, <1>6, NullAssumption DEF Closed
<1>8. QED  BY <1>3, <1>7

\* So whoever walks a list comes to the node that is pushed onto it.
LEMMA PushIsReached ==
  ASSUME ListsInv, NEW l \in List, NEW n \in Node, Push(l, n),
         NEW x \in Linked(l)
  PROVE  n \in Reach(x, next')
<1>1. PICK s : s = Contents[l]  OBVIOUS
<1>2. PICK t : t = Append(s, n)  OBVIOUS
<1>3. s \in Seq(Node) /\ Linked(l) = Range(s)  BY <1>1, ContentsFacts
<1>4. ListsInv' /\ Contents' = [Contents EXCEPT ![l] = t]
  BY <1>1, <1>2, PushStep
<1>5. Contents'[l] = t  BY <1>4 DEF Contents
<1>6. Holds(head', next', Contents')  BY <1>4 DEF ListsInv
<1>7. IsChain(t, head'[l], next')  BY <1>5, <1>6 DEF Holds
<1>8. t \in Seq(Node) /\ Len(t) = Len(s) + 1 /\ t[Len(t)] = n
      /\ \A i \in 1 .. Len(s) : t[i] = s[i] /\ i \in 1 .. Len(t)
  BY <1>2, <1>3
<1>9. PICK i \in 1 .. Len(s) : s[i] = x  BY <1>3 DEF Range
<1>10. i \in 1 .. Len(t) /\ t[i] = x  BY <1>8, <1>9
<1>11. QED  BY <1>7, <1>8, <1>10, LastIsReached

\* list_delete takes the node out of what a walk has before it, and no other.
LEMMA DeleteBehind ==
  ASSUME ListsInv, NEW l \in List, NEW n \in Node, Delete(l, n),
         NEW m \in List, NEW x \in (Linked(m) \ {n}) \cup {NULL},
         n \in Linked(m) => m = l
  PROVE  Reach(x, next') = Reach(x, next) \ {n}
<1>1. ListsInv' /\ next' \in Heap /\ next \in Heap
  BY DeleteStep DEF ListsInv, ListsTypeOK
<1>2. /\ \A y \in Node : \/ next'[y] = next[y]
                         \/ next[y] = n /\ next'[y] = next[n]
      /\ next'[n] = next[n]
  BY DeleteLinks
<1>3. /\ Linked(m) \in SUBSET Node /\ x \in Pointer
      /\ Reach(x, next) \subseteq Linked(m)
  BY BehindLinked DEF Linked, Reach, Pointer
<1>4. \A y \in Linked(m) : next[y] \in (Linked(m) \ {y}) \cup {NULL}
  BY WalkStaysOn
<1>5. \A y \in Linked(m) \ {n} : next'[y] # n
  <2>1. n \notin Linked(m)'
    <3>1. CASE m = l  BY <3>1, DeletedIsGone
    <3>2. CASE m # l  BY <3>2, DeleteKeeps
    <3>3. QED  BY <3>1, <3>2
  <2>2. Linked(m) \ {n} \subseteq Linked(m)'  BY DeleteKeeps
  <2>3. \A y \in Linked(m)' : next'[y] \in (Linked(m)' \ {y}) \cup {NULL}
    BY <1>1, WalkStaysOnNext
  <2>4. n # NULL  BY NullAssumption
  <2>5. QED  BY <2>1, <2>2, <2>3, <2>4
<1>6. Reach(x, next') \subseteq Reach(x, next) \ {n}
  <2>1. PICK S : S = Reach(x, next) \ {n}  OBVIOUS
  <2>2. Closed(Reach(x, next), next) /\ x \in Reach(x, next) \cup {NULL}
    BY <1>1, <1>3, BehindClosed
  <2>3. S \in SUBSET Node /\ x \in S \cup {NULL}
    BY <1>3, <2>1, <2>2, NullAssumption
  <2>4. ASSUME NEW y \in S  PROVE next'[y] \in S \cup {NULL}
    <3>1. y \in Linked(m) \ {n} /\ y \in Node  BY <1>3, <2>1, <2>4
    <3>2. next'[y] # n  BY <1>5, <3>1
    <3>3. next[y] \in Reach(x, next) \cup {NULL}  BY <2>1, <2>2, <2>4 DEF Closed
    <3>4. CASE next'[y] = next[y]  BY <2>1, <3>2, <3>3, <3>4
    <3>5. CASE next[y] = n /\ next'[y] = next[n]
      <4>1. n \in Reach(x, next)  BY <3>3, <3>5, NullAssumption
      <4>2. next[n] \in Reach(x, next) \cup {NULL}  BY <2>2, <4>1 DEF Closed
      <4>3. QED  BY <2>1, <3>2, <3>5, <4>2
    <3>6. QED  BY <1>2, <3>1, <3>4, <3>5
  <2>5. QED  BY <2>1, <2>3, <2>4, BehindWithin DEF Closed
<1>7. Reach(x, next) \ {n} \subseteq Reach(x, next')
  <2>1. PICK R : R = Reach(x, next')  OBVIOUS
  <2>2. R \in SUBSET Node /\ x \in R \cup {NULL} /\ Closed(R, next')
    BY <1>1, <1>3, <2>1, BehindClosed
  <2>3. PICK Q : Q = R \cap Linked(m)  OBVIOUS
  <2>4. Q \in SUBSET Node /\ x \in Q \cup {NULL}  BY <2>2, <2>3
  <2>5. CASE \E y \in Q \ {n} : next[y] = n
    <3>1. PICK y \in Q \ {n} : next[y] = n  BY <2>5
    <3>2. next'[y] = next[n] /\ next'[y] \in R \cup {NULL} /\ n \in Linked(m)
      BY <1>2, <1>4, <1>5, <2>2, <2>3, <3>1, NullAssumption DEF Closed
    <3>3. Q \cup {n} \in SUBSET Node /\ x \in Q \cup {n} \cup {NULL}  BY <2>4
    <3>4. ASSUME NEW z \in Q \cup {n}  PROVE next[z] \in Q \cup {n} \cup {NULL}
      <4>1. next[z] \in Linked(m) \cup {NULL}  BY <1>4, <2>3, <3>2
      <4>2. CASE z = n  BY <2>3, <3>2, <4>1, <4>2
      <4>3. CASE z \in Q /\ next'[z] = next[z]
        BY <2>2, <2>3, <4>1, <4>3 DEF Closed
      <4>4. CASE z \in Q /\ next'[z] # next[z]  BY <1>2, <2>4, <4>4
      <4>5. QED  BY <3>4, <4>2, <4>3, <4>4
    <3>5. Reach(x, next) \subseteq Q \cup {n}
      BY <3>3, <3>4, BehindWithin DEF Closed
    <3>6. QED  BY <2>1, <2>3, <3>5
  <2>6. CASE \A y \in Q \ {n} : next[y] # n
    <3>1. ASSUME NEW z \in Q  PROVE next[z] \in Q \cup {NULL}
      <4>1. next[z] \in Linked(m) \cup {NULL}  BY <1>4, <2>3
      <4>2. next'[z] = next[z]  BY <1>2, <2>4, <2>6
      <4>3. QED  BY <2>2, <2>3, <4>1, <4>2 DEF Closed
    <3>2. Reach(x, next) \subseteq Q  BY <2>4, <3>1, BehindWithin DEF Closed
    <3>3. QED  BY <2>1, <2>3, <3>2
  <2>7. QED  BY <2>5, <2>6
<1>8. QED  BY <1>6, <1>7

-----------------------------------------------------------------------------
(***************************************************************************)
(* What a run returns.  An active timer that was not started during the    *)
(* run is still before the walk, or is the repeating one being called, or  *)
(* has been counted.                                                       *)
(***************************************************************************)
Counted(t) ==
  \/ t \in Reach(Rest, next)
  \/ pc = "repeating" /\ t = current
  \/ TicksUntil(running, t) > 0 => min_ticks_to_next <= TicksUntil(running, t)

CountedInv ==
  pc # "idle" => \A t \in Linked(running) \ fresh : Counted(t)

RunInv == StopInv /\ StopFindsTheTimer

LEMMA RunInvStep ==
  ASSUME ~CallbacksStopNext
  PROVE  RunInv /\ [TimerNext]_timerVars => RunInv'
<1>1. StopInv => TypeInv  BY DEF StopInv
<1>2. QED  BY <1>1, StopStep, OwnerStep DEF RunInv, OwnerInv

LEMMA RunInvStart == TimerInit => RunInv
<1>1. SUFFICES ASSUME TimerInit PROVE RunInv  OBVIOUS
<1>2. StopInv
  BY <1>1, TypeStart DEF TimerInit, StopInv, WalkInv, InCallback
<1>3. ListsInv /\ Contents = [l \in List |-> <<>>]
  BY <1>1, ListsStart DEF TimerInit
<1>4. \A c \in List : Linked(c) = {}
  BY <1>3, ContentsFacts DEF Range
<1>5. QED  BY <1>2, <1>4 DEF RunInv, StopFindsTheTimer, Active

\* Where a run is, under the invariant.
LEMMA RunFacts ==
  ASSUME RunInv
  PROVE  /\ TypeInv /\ ListsInv /\ OwnerInv /\ next \in Heap
         /\ pc \in {"idle", "loop", "one_shot", "repeating"}
         /\ pc # "idle" => /\ running \in List
                           /\ Rest \in Linked(running) \cup {NULL}
         /\ Visit => current \in Linked(running) /\ current \in Node
         /\ current_ticks \in [List -> Ticks] /\ min_ticks_to_next \in Ticks
         /\ \A c \in List : Linked(c) \in SUBSET Node
         /\ next_expiration_ticks \in [Node -> Ticks]
         /\ interval_ticks \in [Node -> Ticks] /\ repeating \in [Node -> BOOLEAN]
         /\ controller \in [Node -> List \cup {NULL}] /\ now \in Ticks
<1>1. TypeInv /\ TimerTypeOK /\ ListsInv /\ ListsTypeOK /\ WalkInv /\ OwnerInv
  BY DEF RunInv, StopInv, TypeInv, ListsInv, OwnerInv
<1>2. Visit => current \in Linked(running) /\ current \in Node
  BY <1>1 DEF Visit, WalkInv, TimerTypeOK, Pointer
<1>3. pc # "idle" => Rest \in Linked(running) \cup {NULL}
  BY <1>1 DEF WalkInv, Rest, InCallback, TimerTypeOK
<1>4. \A c \in List : Linked(c) \in SUBSET Node  BY DEF Linked, Reach
<1>5. QED  BY <1>1, <1>2, <1>3, <1>4 DEF TimerTypeOK, ListsTypeOK

\* Ticks until an expiration are numbers that Lower compares.
LEMMA TicksUntilIsInt ==
  ASSUME TypeInv, NEW c \in List, NEW t \in Node
  PROVE  TicksUntil(c, t) \in Int /\ TicksUntil(c, t) < Half
<1>1. next_expiration_ticks[t] \in Ticks /\ current_ticks[c] \in Ticks
  BY DEF TypeInv, TimerTypeOK
<1>2. QED  BY <1>1, TicksFacts DEF TicksUntil

LEMMA LowerLowers ==
  ASSUME min_ticks_to_next \in Ticks, NEW ticks \in Int
  PROVE  Lower(ticks) <= ticks /\ Lower(ticks) <= min_ticks_to_next
         /\ Lower(ticks) \in Int
<1>1. min_ticks_to_next \in Int  BY DEF Ticks
<1>2. QED  BY <1>1 DEF Lower

\* A timer that was counted stays so, as its expiration does and the result is
\* only lowered.
LEMMA CountedStays ==
  ASSUME RunInv, NEW t \in Node, Counted(t), pc # "idle", running' = running,
         TicksUntil(running, t)' = TicksUntil(running, t),
         min_ticks_to_next' \in Int, min_ticks_to_next' <= min_ticks_to_next,
         t \in Reach(Rest, next) => Counted(t)',
         pc = "repeating" /\ t = current => Counted(t)'
  PROVE  Counted(t)'
<1>1. TicksUntil(running, t) \in Int /\ min_ticks_to_next \in Int
  BY RunFacts, TicksUntilIsInt DEF Ticks
<1>2. QED  BY <1>1 DEF Counted

\* Timers that were started since the run began stay in fresh.
LEMMA FreshGrows ==
  ASSUME HistoryNext, pc' # "idle"
  PROVE  /\ fresh \subseteq fresh'
         /\ \A t \in Node : Unlinked(t) /\ ~Unlinked(t)' => t \in fresh'
BY DEF HistoryNext

LEMMA CountedStart ==
  ASSUME RunInv, CountedInv, HistoryNext, NEW c \in List, NEW t \in Node,
         StartOneShot(c, t) \/ StartRepeating(c, t)
  PROVE  CountedInv'
<1>1. /\ Push(c, t) /\ UNCHANGED <<current_ticks, runVars>>
      /\ \A u \in Node \ {t} : next_expiration_ticks'[u] = next_expiration_ticks[u]
  BY RunFacts DEF StartOneShot, StartRepeating, TimerStart
<1>2. SUFFICES ASSUME pc # "idle", NEW u \in Linked(running)' \ fresh'
               PROVE  Counted(u)'
  BY <1>1 DEF CountedInv, runVars
<1>3. /\ running \in List /\ Rest \in Linked(running) \cup {NULL} /\ ListsInv
      /\ Linked(running) \in SUBSET Node /\ min_ticks_to_next \in Ticks
      /\ pc' # "idle"
  BY <1>1, <1>2, RunFacts DEF runVars
<1>4. t \in fresh'
  <2>1. Unlinked(t)  BY <1>1 DEF Push
  <2>2. t \in Linked(c)'  BY <1>1, <1>3, PushLinked
  <2>3. ~Unlinked(t)'  BY <2>2 DEF Unlinked
  <2>4. QED  BY <1>3, <2>1, <2>3, FreshGrows
<1>5. u # t /\ u \in Linked(running) \ fresh
  <2>1. PICK r \in List : r = running  BY <1>3
  <2>2. r = running'  BY <1>1, <2>1 DEF runVars
  <2>3. Linked(r)' \subseteq Linked(r) \cup {t}
    BY <1>1, <1>3, PushKeeps
  <2>4. u \in Linked(r)'  BY <1>2, <2>2
  <2>5. u # t /\ u \notin fresh  BY <1>2, <1>3, <1>4, FreshGrows
  <2>6. QED  BY <2>1, <2>3, <2>4, <2>5
<1>6. Counted(u) /\ u \in Node  BY <1>2, <1>3, <1>5 DEF CountedInv
<1>7. TicksUntil(running, u)' = TicksUntil(running, u)
  BY <1>1, <1>5, <1>6 DEF TicksUntil, Signed, runVars
<1>8. Rest' = Rest /\ pc' = pc /\ current' = current /\ running' = running
      /\ min_ticks_to_next' = min_ticks_to_next
  BY <1>1 DEF Rest, InCallback, runVars
<1>9. u \in Reach(Rest, next) => Counted(u)'
  <2>1. Reach(Rest, next) \subseteq Reach(Rest, next')  BY <1>1, <1>3, PushBehind
  <2>2. QED  BY <1>8, <2>1 DEF Counted
<1>10. pc = "repeating" /\ u = current => Counted(u)'  BY <1>8 DEF Counted
<1>11. min_ticks_to_next' \in Int /\ min_ticks_to_next' <= min_ticks_to_next
  BY <1>3, <1>8 DEF Ticks
<1>12. QED  BY <1>2, <1>6, <1>7, <1>8, <1>9, <1>10, <1>11, CountedStays

LEMMA CountedStop ==
  ASSUME ~CallbacksStopNext, RunInv, CountedInv, HistoryNext, NEW t \in Node,
         TimerStop(t)
  PROVE  CountedInv'
<1>1. Delete(controller[t], t) /\ UNCHANGED <<current_ticks, timerFields, runVars>>
  BY DEF TimerStop
<1>2. SUFFICES ASSUME pc # "idle", NEW u \in Linked(running)' \ fresh'
               PROVE  Counted(u)'
  BY <1>1 DEF CountedInv, runVars
<1>3. /\ running \in List /\ Rest \in Linked(running) \cup {NULL} /\ ListsInv
      /\ Linked(running) \in SUBSET Node /\ min_ticks_to_next \in Ticks
      /\ pc' # "idle" /\ controller[t] \in List
  BY <1>1, <1>2, RunFacts DEF runVars, TimerStop
<1>4. InCallback /\ Rest = saved /\ t # saved
  BY <1>2 DEF TimerStop, MayStop, MayStart, Rest
<1>5. t \in Linked(running) => running = controller[t]
  BY <1>3 DEF RunInv, StopFindsTheTimer, Active
<1>6. running' = running  BY <1>1 DEF runVars
<1>7. u \in Linked(running) \ fresh /\ u # t
  <2>1. PICK r \in List, c \in List : r = running /\ c = controller[t]  BY <1>3
  <2>2. r = running'  BY <1>6, <2>1
  <2>3. Linked(r)' \subseteq Linked(r) /\ t \notin Linked(c)'
    BY <1>1, <1>3, <2>1, DeleteKeeps, DeletedIsGone
  <2>4. u \in Linked(r)'  BY <1>2, <2>2
  <2>5. u \in Linked(running)  BY <2>1, <2>3, <2>4
  <2>6. u = t => r = c  BY <1>5, <2>1, <2>5
  <2>7. u # t  BY <2>3, <2>4, <2>6
  <2>8. QED  BY <1>2, <1>3, <2>5, <2>7, FreshGrows
<1>8. Counted(u) /\ u \in Node  BY <1>2, <1>3, <1>7 DEF CountedInv
<1>9. TicksUntil(running, u)' = TicksUntil(running, u)
  BY <1>1 DEF TicksUntil, Signed, runVars, timerFields
<1>10. Rest' = Rest /\ pc' = pc /\ current' = current
       /\ min_ticks_to_next' = min_ticks_to_next
  BY <1>1 DEF Rest, InCallback, runVars
<1>11. u \in Reach(Rest, next) => Counted(u)'
  <2>1. Rest \in (Linked(running) \ {t}) \cup {NULL}  BY <1>3, <1>4
  <2>2. Reach(Rest, next') = Reach(Rest, next) \ {t}
    BY <1>1, <1>3, <1>5, <2>1, DeleteBehind
  <2>3. QED  BY <1>7, <1>10, <2>2 DEF Counted
<1>12. pc = "repeating" /\ u = current => Counted(u)'  BY <1>10 DEF Counted
<1>13. min_ticks_to_next' \in Int /\ min_ticks_to_next' <= min_ticks_to_next
  BY <1>3, <1>10 DEF Ticks
<1>14. QED
  BY <1>2, <1>6, <1>8, <1>9, <1>11, <1>12, <1>13, CountedStays

LEMMA CountedFire ==
  ASSUME RunInv, CountedInv, HistoryNext, FireRepeating \/ FireOneShot
  PROVE  CountedInv'
<1>1. /\ Visit /\ current \in Linked(running) /\ current \in Node /\ next \in Heap
      /\ running \in List /\ ListsInv /\ Linked(running) \in SUBSET Node
      /\ min_ticks_to_next \in Ticks /\ Rest = current /\ ~InCallback
  BY RunFacts DEF FireRepeating, FireOneShot, Visit, Rest, InCallback
<1>2. /\ UNCHANGED <<current_ticks, running, current, min_ticks_to_next>>
      /\ InCallback' /\ pc' # "idle" /\ saved' = next[current]
      /\ \A t \in Node \ {current} : next_expiration_ticks'[t] = next_expiration_ticks[t]
  BY RunFacts DEF FireRepeating, FireOneShot, InCallback, timerFields
<1>3. SUFFICES ASSUME NEW u \in Linked(running)' \ fresh'  PROVE Counted(u)'
  BY <1>2 DEF CountedInv
<1>4. Rest' = next[current]  BY <1>2 DEF Rest, InCallback
<1>5. Reach(next[current], next) = Reach(current, next) \ {current}
  BY <1>1, BehindOnward
<1>6. /\ u \in Linked(running)
      /\ u = current => pc' = "repeating"
      /\ u # current /\ u \in Reach(current, next)
            => u \in Reach(next[current], next')
  <2>1. CASE FireRepeating
    <3>1. UNCHANGED listVars /\ pc' = "repeating"  BY <2>1 DEF FireRepeating
    <3>2. Linked(running)' = Linked(running)  BY <1>2, <3>1 DEF listVars, Linked
    <3>3. QED  BY <1>3, <1>5, <3>1, <3>2 DEF listVars
  <2>2. CASE FireOneShot
    <3>1. Delete(running, current)  BY <2>2 DEF FireOneShot
    <3>2. PICK r \in List, n \in Node : r = running /\ n = current  BY <1>1
    <3>3. Linked(r)' \subseteq Linked(r) /\ n \notin Linked(r)'
      BY <1>1, <3>1, <3>2, DeleteKeeps, DeletedIsGone
    <3>4. u \in Linked(r)'  BY <1>2, <1>3, <3>2
    <3>5. next[current] \in (Linked(running) \ {current}) \cup {NULL}
      BY <1>1, WalkStaysOn
    <3>6. Reach(next[current], next') = Reach(next[current], next) \ {current}
      BY <1>1, <3>1, <3>5, DeleteBehind
    <3>7. u \in Linked(running) /\ u # current  BY <3>2, <3>3, <3>4
    <3>8. QED  BY <1>5, <3>6, <3>7
  <2>3. QED  BY <2>1, <2>2
<1>7. fresh \subseteq fresh'  BY <1>2, FreshGrows
<1>8. Counted(u) /\ u \in Node /\ pc = "loop"
  BY <1>1, <1>3, <1>6, <1>7 DEF CountedInv, Visit
<1>9. CASE u = current  BY <1>2, <1>6, <1>9 DEF Counted
<1>10. CASE u # current
  <2>1. TicksUntil(running, u)' = TicksUntil(running, u)
    BY <1>2, <1>8, <1>10 DEF TicksUntil, Signed
  <2>2. u \in Reach(Rest, next) => Counted(u)'
    BY <1>1, <1>4, <1>6, <1>10 DEF Counted
  <2>3. min_ticks_to_next' \in Int /\ min_ticks_to_next' <= min_ticks_to_next
    BY <1>1, <1>2 DEF Ticks
  <2>4. QED  BY <1>2, <1>8, <2>1, <2>2, <2>3, CountedStays
<1>11. QED  BY <1>9, <1>10

LEMMA CountedVisit ==
  ASSUME RunInv, CountedInv, HistoryNext, VisitPending
  PROVE  CountedInv'
<1>1. /\ current \in Linked(running) /\ current \in Node /\ next \in Heap
      /\ running \in List /\ min_ticks_to_next \in Ticks /\ pc = "loop"
      /\ Linked(running) \in SUBSET Node /\ TypeInv
  BY RunFacts DEF VisitPending, Visit
<1>2. /\ UNCHANGED <<listVars, current_ticks, running, pc>>
      /\ next_expiration_ticks' = next_expiration_ticks
      /\ min_ticks_to_next' = Lower(TicksUntil(running, current))
      /\ current' = next[current]
  BY DEF VisitPending, timerFields
<1>3. SUFFICES ASSUME NEW u \in Linked(running)' \ fresh'  PROVE Counted(u)'
  BY DEF CountedInv
<1>4. u \in Linked(running) \ fresh
  BY <1>1, <1>2, <1>3, FreshGrows DEF Linked, listVars
<1>5. Counted(u) /\ u \in Node  BY <1>1, <1>4 DEF CountedInv
<1>6. TicksUntil(running, u)' = TicksUntil(running, u)
  BY <1>2 DEF TicksUntil, Signed
<1>7. TicksUntil(running, current) \in Int  BY <1>1, TicksUntilIsInt
<1>8. /\ min_ticks_to_next' <= TicksUntil(running, current)
      /\ min_ticks_to_next' <= min_ticks_to_next /\ min_ticks_to_next' \in Int
  BY <1>1, <1>2, <1>7, LowerLowers
<1>9. u \in Reach(Rest, next) => Counted(u)'
  <2>1. CASE u = current  BY <1>6, <1>8, <2>1 DEF Counted
  <2>2. ASSUME u # current, u \in Reach(Rest, next)
        PROVE  Counted(u)'
    <3>1. u \in Reach(next[current], next)
      BY <1>1, <2>2, BehindSplits DEF Rest, InCallback
    <3>2. Rest' = next[current] /\ next' = next
      BY <1>1, <1>2 DEF Rest, InCallback, listVars
    <3>3. QED  BY <3>1, <3>2 DEF Counted
  <2>3. QED  BY <2>1, <2>2
<1>10. ~(pc = "repeating" /\ u = current)  BY <1>1
<1>11. QED  BY <1>1, <1>2, <1>5, <1>6, <1>8, <1>9, <1>10, CountedStays

LEMMA CountedCallback ==
  ASSUME RunInv, CountedInv, HistoryNext, CallbackReturns
  PROVE  CountedInv'
<1>1. /\ current \in Node /\ running \in List /\ min_ticks_to_next \in Ticks
      /\ InCallback /\ pc # "idle" /\ Linked(running) \in SUBSET Node /\ TypeInv
  BY RunFacts DEF CallbackReturns, InCallback, TypeInv, TimerTypeOK
<1>2. /\ UNCHANGED <<listVars, current_ticks, running>> /\ pc' = "loop"
      /\ next_expiration_ticks' = next_expiration_ticks /\ current' = saved
  BY DEF CallbackReturns, timerFields
<1>3. SUFFICES ASSUME NEW u \in Linked(running)' \ fresh'  PROVE Counted(u)'
  BY DEF CountedInv
<1>4. u \in Linked(running) \ fresh
  BY <1>2, <1>3, FreshGrows DEF Linked, listVars
<1>5. Counted(u) /\ u \in Node  BY <1>1, <1>4 DEF CountedInv
<1>6. TicksUntil(running, u)' = TicksUntil(running, u)
  BY <1>2 DEF TicksUntil, Signed
<1>7. TicksUntil(running, current) \in Int  BY <1>1, TicksUntilIsInt
<1>8. /\ Lower(TicksUntil(running, current)) <= TicksUntil(running, current)
      /\ Lower(TicksUntil(running, current)) <= min_ticks_to_next
      /\ Lower(TicksUntil(running, current)) \in Int /\ min_ticks_to_next \in Int
  BY <1>1, <1>7, LowerLowers DEF Ticks
<1>9. /\ min_ticks_to_next' <= min_ticks_to_next /\ min_ticks_to_next' \in Int
      /\ pc = "repeating" /\ TicksUntil(running, current) > 0
            => min_ticks_to_next' <= TicksUntil(running, current)
  BY <1>8 DEF CallbackReturns
<1>10. Rest' = Rest /\ next' = next
  BY <1>1, <1>2 DEF Rest, InCallback, listVars
<1>11. u \in Reach(Rest, next) => Counted(u)'  BY <1>10 DEF Counted
<1>12. pc = "repeating" /\ u = current => Counted(u)'
  BY <1>6, <1>9 DEF Counted
<1>13. QED  BY <1>1, <1>2, <1>5, <1>6, <1>9, <1>11, <1>12, CountedStays

LEMMA CountedStep ==
  ASSUME ~CallbacksStopNext, RunInv, CountedInv, [HistoryNext]_historyVars
  PROVE  CountedInv'
<1>1. CASE UNCHANGED historyVars
  <2>1. UNCHANGED <<head, next, current_ticks, next_expiration_ticks, pc, running,
                    current, saved, min_ticks_to_next, fresh>>
    BY <1>1 DEF historyVars, timerVars, listVars, timerFields, runVars
  <2>2. QED
    BY <2>1 DEF CountedInv, Counted, Linked, Rest, InCallback, TicksUntil, Signed
<1>2. CASE HistoryNext /\ Tick
  <2>1. UNCHANGED <<head, next, current_ticks, next_expiration_ticks, pc, running,
                    current, saved, min_ticks_to_next>>
    BY <1>2 DEF Tick, listVars, timerFields, runVars
  <2>2. pc' # "idle" => fresh \subseteq fresh'  BY <1>2, FreshGrows
  <2>3. QED
    BY <2>1, <2>2
       DEF CountedInv, Counted, Linked, Rest, InCallback, TicksUntil, Signed
<1>3. ASSUME HistoryNext, NEW c \in List, RunBegin(c)  PROVE CountedInv'
  <2>1. /\ UNCHANGED listVars /\ running' = c /\ current' = head[c] /\ pc' = "loop"
    BY <1>3 DEF RunBegin
  <2>2. Linked(running)' = Reach(Rest, next)'
    BY <2>1 DEF Linked, Rest, InCallback, listVars
  <2>3. QED  BY <2>2 DEF CountedInv, Counted
<1>4. ASSUME HistoryNext, RunReturns  PROVE CountedInv'
  BY <1>4 DEF RunReturns, CountedInv
<1>5. HistoryNext => TimerNext  BY DEF HistoryNext
<1>6. QED
  BY <1>1, <1>2, <1>3, <1>4, <1>5, CountedStart, CountedStop, CountedFire,
     CountedVisit, CountedCallback
     DEF TimerNext, RunGoesOn

\* The steps of HistorySpec are steps of the timers.
LEMMA HistoryStep == [HistoryNext]_historyVars => [TimerNext]_timerVars
BY DEF HistoryNext, historyVars

LEMMA RunInvariant ==
  ASSUME ~CallbacksStopNext PROVE HistorySpec => [](RunInv /\ CountedInv)
<1>1. HistoryInit => RunInv /\ CountedInv
  BY RunInvStart DEF HistoryInit, TimerInit, CountedInv
<1>2. RunInv /\ CountedInv /\ [HistoryNext]_historyVars => (RunInv /\ CountedInv)'
  BY RunInvStep, CountedStep, HistoryStep
<1>3. QED  BY <1>1, <1>2, PTL DEF HistorySpec

\* A caller of timer_controller_run that sleeps as long as it says misses no
\* timer but those that were started while it ran and the repeating ones that
\* are still overdue, whatever else callbacks start and stop.
THEOREM RunsCountThePending ==
  ASSUME ~CallbacksStopNext PROVE HistorySpec => []RunCountsThePending
<1>1. RunInv /\ CountedInv => RunCountsThePending
  <2>1. SUFFICES ASSUME CountedInv, pc = "loop", current = NULL,
                        NEW t \in Linked(running) \ fresh,
                        TicksUntil(running, t) > 0
                 PROVE  min_ticks_to_next <= TicksUntil(running, t)
    BY DEF RunCountsThePending
  <2>2. Counted(t)  BY <2>1 DEF CountedInv
  <2>3. Reach(Rest, next) = {}  BY <2>1, BehindNull DEF Rest, InCallback
  <2>4. QED  BY <2>1, <2>2, <2>3 DEF Counted
<1>2. QED  BY <1>1, RunInvariant, PTL

-----------------------------------------------------------------------------
(***************************************************************************)
(* Exact time.  Ticks wrap, and differences of them are read as signed     *)
(* numbers.  They are the true differences because no timer is ever half   *)
(* the range of ticks away from the clock.                                 *)
(***************************************************************************)
Elapsed(c) == (now - current_ticks[c]) % TickMod

\* Timers are started with intervals, none among them, that a signed difference
\* holds: one of half the range of ticks or more reads as a negative number.
IntervalsFit == OneShotIntervals \cup RepeatIntervals \subseteq 0 .. Half - 1

ModSum(a, b) == IF a + b < TickMod THEN a + b ELSE a + b - TickMod
ModDiff(a, b) == IF a >= b THEN a - b ELSE a - b + TickMod

LEMMA ModFacts ==
  ASSUME NEW a \in Ticks, NEW b \in Ticks
  PROVE  /\ (a + b) % TickMod = ModSum(a, b)
         /\ (a - b) % TickMod = ModDiff(a, b)
         /\ ModSum(a, b) \in Ticks /\ ModDiff(a, b) \in Ticks
<1>1. Half \in Nat \ {0} /\ TickMod = 2 * Half  BY TimerConstants DEF TickMod
<1>2. PICK M \in Nat \ {0} : M = TickMod  BY <1>1
<1>3. a \in 0 .. M - 1 /\ b \in 0 .. M - 1  BY <1>2 DEF Ticks
<1>4. \A x \in 0 .. M - 1 : x % M = x  OBVIOUS
<1>5. \A x \in -M .. -1 : x % M = x + M  OBVIOUS
<1>6. \A x \in M .. 2 * M - 1 : x % M = x - M  OBVIOUS
<1>7. (a + b) % M = IF a + b < M THEN a + b ELSE a + b - M
  <2>1. CASE a + b < M
    <3>1. a + b \in 0 .. M - 1  BY <1>3, <2>1
    <3>2. QED  BY <1>4, <2>1, <3>1
  <2>2. CASE a + b >= M
    <3>1. PICK x : x = a + b  OBVIOUS
    <3>2. x \in M .. 2 * M - 1 /\ ~(x < M)  BY <1>3, <2>2, <3>1
    <3>3. x % M = x - M  BY <1>6, <3>2
    <3>4. QED  BY <1>3, <3>1, <3>2, <3>3
  <2>3. QED  BY <1>3, <2>1, <2>2
<1>8. (a - b) % M = IF a >= b THEN a - b ELSE a - b + M
  <2>1. CASE a >= b
    <3>1. a - b \in 0 .. M - 1  BY <1>3, <2>1
    <3>2. QED  BY <1>4, <2>1, <3>1
  <2>2. CASE a < b
    <3>1. a - b \in -M .. -1 /\ ~(a >= b)  BY <1>3, <2>2
    <3>2. QED  BY <1>5, <3>1
  <2>3. QED  BY <1>3, <2>1, <2>2
<1>9. /\ (IF a + b < M THEN a + b ELSE a + b - M) \in 0 .. M - 1
      /\ (IF a >= b THEN a - b ELSE a - b + M) \in 0 .. M - 1
  BY <1>3
<1>10. QED  BY <1>2, <1>7, <1>8, <1>9 DEF ModSum, ModDiff, Ticks

\* The cast to a signed number.
LEMMA SignedIs ==
  ASSUME NEW a \in Ticks, NEW b \in Ticks
  PROVE  /\ Signed(a, b) = IF ModDiff(a, b) >= Half THEN ModDiff(a, b) - TickMod
                                                    ELSE ModDiff(a, b)
         /\ Signed(a, b) \in -Half .. Half - 1
         /\ ModDiff(a, b) \in 0 .. TickMod - 1
<1>1. Half \in Nat \ {0} /\ TickMod = 2 * Half  BY TimerConstants DEF TickMod
<1>2. (a - b) % TickMod = ModDiff(a, b) /\ ModDiff(a, b) \in Ticks  BY ModFacts
<1>3. ModDiff(a, b) \in 0 .. TickMod - 1  BY <1>2 DEF Ticks
<1>4. QED  BY <1>1, <1>2, <1>3 DEF Signed

\* Between two moments, as long as the differences fit.
LEMMA SignedAges ==
  ASSUME NEW clock \in Ticks, NEW last \in Ticks, NEW expires \in Ticks,
         NEW age, age = (clock - last) % TickMod,
         Signed(expires, last) - age \in -(Half-1) .. Half - 1
  PROVE  /\ Signed(expires, clock) = Signed(expires, last) - age
         /\ Signed(clock, expires) = age - Signed(expires, last)
<1>1. Half \in Nat \ {0} /\ TickMod = 2 * Half  BY TimerConstants DEF TickMod
<1>2. clock \in 0 .. TickMod - 1 /\ last \in 0 .. TickMod - 1
      /\ expires \in 0 .. TickMod - 1
  BY DEF Ticks
<1>3. age = ModDiff(clock, last)  BY ModFacts
<1>4. Signed(expires, last) =
        IF ModDiff(expires, last) >= Half THEN ModDiff(expires, last) - TickMod
                                          ELSE ModDiff(expires, last)
  BY SignedIs
<1>5. /\ Signed(expires, clock) =
           IF ModDiff(expires, clock) >= Half THEN ModDiff(expires, clock) - TickMod
                                              ELSE ModDiff(expires, clock)
      /\ Signed(clock, expires) =
           IF ModDiff(clock, expires) >= Half THEN ModDiff(clock, expires) - TickMod
                                              ELSE ModDiff(clock, expires)
  BY SignedIs
<1>6. QED  BY <1>1, <1>2, <1>3, <1>4, <1>5 DEF ModDiff

\* An interval counted from the time of the last run.
LEMMA SignedStarts ==
  ASSUME NEW last \in Ticks, NEW ticks \in 0 .. Half - 1
  PROVE  /\ (last + ticks) % TickMod \in Ticks
         /\ Signed((last + ticks) % TickMod, last) = ticks
<1>1. Half \in Nat \ {0} /\ TickMod = 2 * Half  BY TimerConstants DEF TickMod
<1>2. ticks \in Ticks /\ last \in 0 .. TickMod - 1  BY <1>1 DEF Ticks
<1>3. PICK x \in Ticks : x = (last + ticks) % TickMod /\ x = ModSum(last, ticks)
  BY <1>2, ModFacts
<1>4. x \in 0 .. TickMod - 1  BY <1>3 DEF Ticks
<1>5. Signed(x, last) = IF ModDiff(x, last) >= Half THEN ModDiff(x, last) - TickMod
                                                    ELSE ModDiff(x, last)
  BY <1>3, SignedIs
<1>6. QED  BY <1>1, <1>2, <1>3, <1>4, <1>5 DEF ModSum, ModDiff

\* One interval later, as long as the result fits.
LEMMA SignedRepeats ==
  ASSUME NEW expires \in Ticks, NEW last \in Ticks, NEW ticks \in 0 .. Half - 1,
         Signed(expires, last) <= 0
  PROVE  /\ (expires + ticks) % TickMod \in Ticks
         /\ Signed((expires + ticks) % TickMod, last) = Signed(expires, last) + ticks
<1>1. Half \in Nat \ {0} /\ TickMod = 2 * Half  BY TimerConstants DEF TickMod
<1>2. ticks \in Ticks /\ last \in 0 .. TickMod - 1 /\ expires \in 0 .. TickMod - 1
  BY <1>1 DEF Ticks
<1>3. PICK x \in Ticks : x = (expires + ticks) % TickMod /\ x = ModSum(expires, ticks)
  BY <1>2, ModFacts
<1>4. x \in 0 .. TickMod - 1  BY <1>3 DEF Ticks
<1>5. Signed(x, last) = IF ModDiff(x, last) >= Half THEN ModDiff(x, last) - TickMod
                                                    ELSE ModDiff(x, last)
  BY <1>3, SignedIs
<1>6. Signed(expires, last) =
        IF ModDiff(expires, last) >= Half THEN ModDiff(expires, last) - TickMod
                                          ELSE ModDiff(expires, last)
  BY SignedIs
<1>7. QED  BY <1>1, <1>2, <1>3, <1>4, <1>5, <1>6 DEF ModSum, ModDiff

\* A tick adds one to the age of a controller's time, unless that wraps.
LEMMA AgeTicks ==
  ASSUME NEW clock \in Ticks, NEW last \in Ticks,
         (clock - last) % TickMod < Half - 1
  PROVE  /\ (clock + 1) % TickMod \in Ticks /\ (clock + 1) % TickMod # clock
         /\ (((clock + 1) % TickMod) - last) % TickMod = ((clock - last) % TickMod) + 1
<1>1. Half \in Nat \ {0} /\ TickMod = 2 * Half  BY TimerConstants DEF TickMod
<1>2. 1 \in Ticks /\ last \in 0 .. TickMod - 1 /\ clock \in 0 .. TickMod - 1
  BY <1>1 DEF Ticks
<1>3. PICK x \in Ticks : x = (clock + 1) % TickMod /\ x = ModSum(clock, 1)
  BY <1>2, ModFacts
<1>4. x \in 0 .. TickMod - 1  BY <1>3 DEF Ticks
<1>5. (clock - last) % TickMod = ModDiff(clock, last)  BY ModFacts
<1>6. (x - last) % TickMod = ModDiff(x, last)  BY <1>3, ModFacts
<1>7. QED  BY <1>1, <1>2, <1>3, <1>4, <1>5, <1>6 DEF ModSum, ModDiff

\* The differences that fit: no timer is half the range of ticks away from the
\* last run of its controller, nor from now.
Near == -(Half-1) .. Half - 1
Fits(c, t) ==
  /\ interval_ticks[t] \in 0 .. Half - 1
  /\ TicksUntil(c, t) \in Near
  /\ TicksUntil(c, t) - Elapsed(c) \in Near

ClockInv ==
  \A c \in List :
    /\ Elapsed(c) \in 0 .. MaxLag[c]
    /\ \A t \in Linked(c) : Fits(c, t)

SameTime(c, t) ==
  Elapsed(c)' = Elapsed(c) /\ TicksUntil(c, t)' = TicksUntil(c, t)

LEMMA TimeStands ==
  ASSUME NEW c, NEW t, UNCHANGED <<now, current_ticks>>,
         next_expiration_ticks'[t] = next_expiration_ticks[t]
  PROVE  SameTime(c, t)
BY DEF SameTime, Elapsed, TicksUntil, Signed

LEMMA HalfFacts == Half \in Nat \ {0} /\ \A c \in List : MaxLag[c] \in 0 .. Half - 1
BY TimerConstants

LEMMA TickEffect ==
  ASSUME RunInv, ClockInv, Tick, NEW c \in List
  PROVE  /\ Elapsed(c)' = Elapsed(c) + 1 /\ Elapsed(c) < MaxLag[c] /\ now' # now
         /\ \A t \in Node : TicksUntil(c, t)' = TicksUntil(c, t)
         /\ \A t \in Linked(c) : TicksUntil(c, t) - Elapsed(c) > -(Half-1)
<1>1. /\ now \in Ticks /\ current_ticks \in [List -> Ticks]
      /\ next_expiration_ticks \in [Node -> Ticks] /\ Linked(c) \in SUBSET Node
  BY RunFacts
<1>2. /\ Elapsed(c) < MaxLag[c] /\ now' = (now + 1) % TickMod
      /\ current_ticks' = current_ticks
      /\ next_expiration_ticks' = next_expiration_ticks
      /\ \A t \in Linked(c) : Signed(now, next_expiration_ticks[t]) < MaxBehind
  BY DEF Tick, timerFields, Elapsed
<1>3. Elapsed(c) \in 0 .. MaxLag[c] /\ MaxLag[c] \in 0 .. Half - 1 /\ Half \in Nat
      /\ MaxBehind \in 0 .. Half - 1
  BY TimerConstants DEF ClockInv
<1>4. Elapsed(c)' = Elapsed(c) + 1 /\ now' # now
  <2>1. PICK last \in Ticks : last = current_ticks[c]  BY <1>1
  <2>2. (now - last) % TickMod < Half - 1  BY <1>2, <1>3, <2>1 DEF Elapsed
  <2>3. QED  BY <1>1, <1>2, <2>1, <2>2, AgeTicks DEF Elapsed
<1>5. ASSUME NEW t \in Linked(c)  PROVE TicksUntil(c, t) - Elapsed(c) > -(Half-1)
  <2>1. TicksUntil(c, t) - Elapsed(c) \in -(Half-1) .. Half - 1
        /\ TicksUntil(c, t) \in -(Half-1) .. Half - 1
    BY DEF ClockInv, Fits, Near
  <2>2. /\ next_expiration_ticks[t] \in Ticks /\ current_ticks[c] \in Ticks
    BY <1>1
  <2>3. Signed(now, next_expiration_ticks[t]) = Elapsed(c) - TicksUntil(c, t)
    BY <1>1, <2>1, <2>2, SignedAges DEF Elapsed, TicksUntil
  <2>4. QED  BY <1>2, <1>3, <2>1, <2>3
<1>6. QED  BY <1>2, <1>4, <1>5 DEF TicksUntil, Signed

LEMMA StartEffect ==
  ASSUME RunInv, IntervalsFit, NEW c \in List, NEW t \in Node,
         NEW ticks \in OneShotIntervals \cup RepeatIntervals, NEW rep,
         TimerStart(c, t, ticks, rep)
  PROVE  /\ Push(c, t) /\ interval_ticks'[t] = ticks /\ repeating'[t] = rep
         /\ ticks \in 0 .. Half - 1 /\ TicksUntil(c, t)' = ticks
         /\ Elapsed(c)' = Elapsed(c)
         /\ \A m \in List, u \in Node \ {t} :
              /\ SameTime(m, u) /\ interval_ticks'[u] = interval_ticks[u]
              /\ repeating'[u] = repeating[u]
         /\ UNCHANGED <<now, current_ticks, runVars>>
<1>1. /\ now \in Ticks /\ current_ticks \in [List -> Ticks]
      /\ next_expiration_ticks \in [Node -> Ticks]
      /\ interval_ticks \in [Node -> Ticks] /\ repeating \in [Node -> BOOLEAN]
  BY RunFacts
<1>2. /\ Push(c, t) /\ UNCHANGED <<now, current_ticks, runVars>>
      /\ interval_ticks' = [interval_ticks EXCEPT ![t] = ticks]
      /\ next_expiration_ticks' = [next_expiration_ticks EXCEPT ![t] = Expiration(c, ticks)]
      /\ repeating' = [repeating EXCEPT ![t] = rep]
  BY DEF TimerStart
<1>3. ticks \in 0 .. Half - 1  BY DEF IntervalsFit
<1>4. \A m \in List, u \in Node \ {t} :
        next_expiration_ticks'[u] = next_expiration_ticks[u] => SameTime(m, u)
  BY <1>2, TimeStands
<1>5. Elapsed(c)' = Elapsed(c)  BY <1>2 DEF Elapsed
<1>6. TicksUntil(c, t)' = ticks
  <2>1. PICK last \in Ticks : last = current_ticks[c]  BY <1>1
  <2>2. next_expiration_ticks'[t] = (last + ticks) % TickMod /\ current_ticks'[c] = last
    BY <1>1, <1>2, <2>1 DEF Expiration
  <2>3. Signed((last + ticks) % TickMod, last) = ticks
    BY <1>3, <2>1, SignedStarts
  <2>4. TicksUntil(c, t)' = Signed(next_expiration_ticks'[t], current_ticks'[c])
    BY DEF TicksUntil, Signed
  <2>5. QED  BY <2>2, <2>3, <2>4
<1>7. QED  BY <1>1, <1>2, <1>3, <1>4, <1>5, <1>6

LEMMA BeginEffect ==
  ASSUME RunInv, ClockInv, NEW c \in List, RunBegin(c)
  PROVE  /\ Elapsed(c)' = 0
         /\ \A t \in Linked(c) : TicksUntil(c, t)' = TicksUntil(c, t) - Elapsed(c)
         /\ \A m \in List \ {c}, t \in Node : SameTime(m, t)
<1>1. /\ now \in Ticks /\ current_ticks \in [List -> Ticks]
      /\ next_expiration_ticks \in [Node -> Ticks] /\ Linked(c) \in SUBSET Node
  BY RunFacts
<1>2. /\ now' = now /\ next_expiration_ticks' = next_expiration_ticks
      /\ current_ticks' = [current_ticks EXCEPT ![c] = now]
  BY DEF RunBegin, timerFields
<1>3. Elapsed(c)' = 0
  <2>1. (now - now) % TickMod = ModDiff(now, now)  BY <1>1, ModFacts
  <2>2. ModDiff(now, now) = 0  BY <1>1 DEF ModDiff, Ticks
  <2>3. QED  BY <1>1, <1>2, <2>1, <2>2 DEF Elapsed
<1>4. ASSUME NEW t \in Linked(c)
      PROVE  TicksUntil(c, t)' = TicksUntil(c, t) - Elapsed(c)
  <2>1. TicksUntil(c, t) - Elapsed(c) \in -(Half-1) .. Half - 1
    BY DEF ClockInv, Fits, Near
  <2>2. next_expiration_ticks[t] \in Ticks /\ current_ticks[c] \in Ticks
    BY <1>1
  <2>3. Signed(next_expiration_ticks[t], now) = TicksUntil(c, t) - Elapsed(c)
    BY <1>1, <2>1, <2>2, SignedAges DEF Elapsed, TicksUntil
  <2>4. TicksUntil(c, t)' = Signed(next_expiration_ticks[t], now)
    BY <1>1, <1>2 DEF TicksUntil, Signed
  <2>5. QED  BY <2>3, <2>4
<1>5. ASSUME NEW m \in List \ {c}, NEW t \in Node  PROVE SameTime(m, t)
  BY <1>1, <1>2 DEF SameTime, Elapsed, TicksUntil, Signed
<1>6. QED  BY <1>3, <1>4, <1>5

LEMMA RepeatEffect ==
  ASSUME RunInv, ClockInv, FireRepeating
  PROVE  /\ TicksUntil(running, current)' =
              TicksUntil(running, current) + interval_ticks[current]
         /\ \A c \in List : Elapsed(c)' = Elapsed(c)
         /\ \A c \in List, t \in Node \ {current} : SameTime(c, t)
<1>1. /\ current_ticks \in [List -> Ticks] /\ next_expiration_ticks \in [Node -> Ticks]
      /\ current \in Node /\ current \in Linked(running) /\ running \in List
  BY RunFacts DEF FireRepeating, Visit
<1>2. /\ UNCHANGED <<now, current_ticks, running, current>>
      /\ TicksUntil(running, current) <= 0
      /\ next_expiration_ticks' = [next_expiration_ticks EXCEPT
           ![current] = (@ + interval_ticks[current]) % TickMod]
  BY DEF FireRepeating
<1>3. interval_ticks[current] \in 0 .. Half - 1  BY <1>1 DEF ClockInv, Fits
<1>4. PICK x \in Ticks, last \in Ticks :
        x = next_expiration_ticks[current] /\ last = current_ticks[running]
  BY <1>1
<1>5. Signed(x, last) <= 0  BY <1>2, <1>4 DEF TicksUntil
<1>6. Signed((x + interval_ticks[current]) % TickMod, last)
        = Signed(x, last) + interval_ticks[current]
  BY <1>3, <1>5, SignedRepeats
<1>7. next_expiration_ticks'[current] = (x + interval_ticks[current]) % TickMod
      /\ current_ticks'[running'] = last
  BY <1>1, <1>2, <1>4
<1>8. TicksUntil(running, current)' =
        Signed(next_expiration_ticks'[current'], current_ticks'[running'])
  BY DEF TicksUntil, Signed
<1>9. TicksUntil(running, current)' = TicksUntil(running, current) + interval_ticks[current]
  BY <1>2, <1>4, <1>6, <1>7, <1>8 DEF TicksUntil
<1>10. \A c \in List, t \in Node \ {current} : SameTime(c, t)
  <2>1. SUFFICES ASSUME NEW c \in List, NEW t \in Node \ {current} PROVE SameTime(c, t)
    OBVIOUS
  <2>2. next_expiration_ticks'[t] = next_expiration_ticks[t]  BY <1>1, <1>2
  <2>3. QED  BY <1>2, <2>2, TimeStands
<1>11. QED  BY <1>2, <1>9, <1>10 DEF Elapsed

LEMMA ClockRest ==
  ASSUME RunInv, ClockInv,
         \/ \E t \in Node : TimerStop(t)
         \/ VisitPending \/ FireOneShot \/ CallbackReturns \/ RunReturns
         \/ UNCHANGED timerVars
  PROVE  /\ UNCHANGED <<now, current_ticks, timerFields>>
         /\ \A c \in List, t \in Node : SameTime(c, t)
<1>1. UNCHANGED <<now, current_ticks, timerFields>>
  BY DEF TimerStop, VisitPending, FireOneShot, CallbackReturns, RunReturns, timerVars
<1>2. next_expiration_ticks' = next_expiration_ticks  BY <1>1 DEF timerFields
<1>3. QED  BY <1>1, <1>2, TimeStands

\* No step links a timer to a list, but timer_start.
LEMMA LinkedLater ==
  ASSUME RunInv, NEW c \in List, NEW t \in Linked(c)', [TimerNext]_timerVars,
         ~(\E l \in List, u \in Node : StartOneShot(l, u) \/ StartRepeating(l, u))
  PROVE  t \in Linked(c)
<1>1. CASE Tick \/ RunGoesOn \/ (\E l \in List : RunBegin(l)) \/ UNCHANGED timerVars
  BY <1>1, RunFacts, RunsLinkNothing
<1>2. ASSUME NEW u \in Node, TimerStop(u)  PROVE t \in Linked(c)
  <2>1. controller[u] \in List /\ ListsInv /\ Delete(controller[u], u)
    BY <1>2, RunFacts DEF TimerStop
  <2>2. QED  BY <2>1, DeleteKeeps
<1>3. QED  BY <1>1, <1>2 DEF TimerNext

LEMMA ClockStep ==
  ASSUME ~CallbacksStopNext, IntervalsFit, RunInv, ClockInv, [TimerNext]_timerVars
  PROVE  ClockInv'
<1>1. SUFFICES ASSUME NEW c \in List
               PROVE  /\ Elapsed(c)' \in 0 .. MaxLag[c]
                      /\ \A t \in Linked(c)' : Fits(c, t)'
  BY DEF ClockInv
<1>2. /\ Elapsed(c) \in 0 .. MaxLag[c] /\ \A t \in Linked(c) : Fits(c, t)
      /\ Half \in Nat \ {0} /\ MaxLag[c] \in 0 .. Half - 1
      /\ Linked(c) \in SUBSET Node
  BY HalfFacts, RunFacts DEF ClockInv
<1>3. \A t \in Linked(c) :
        /\ interval_ticks[t] \in 0 .. Half - 1
        /\ TicksUntil(c, t) \in -(Half-1) .. Half - 1
        /\ TicksUntil(c, t) - Elapsed(c) \in -(Half-1) .. Half - 1
  BY <1>2 DEF Fits, Near
<1>4. ASSUME NEW l \in List, NEW u \in Node,
             StartOneShot(l, u) \/ StartRepeating(l, u)
      PROVE  /\ Elapsed(c)' \in 0 .. MaxLag[c]
             /\ \A t \in Linked(c)' : Fits(c, t)'
  <2>1. PICK ticks \in OneShotIntervals \cup RepeatIntervals, rep \in BOOLEAN :
          TimerStart(l, u, ticks, rep)
    BY <1>4 DEF StartOneShot, StartRepeating
  <2>2. /\ Push(l, u) /\ interval_ticks'[u] = ticks /\ ticks \in 0 .. Half - 1
        /\ TicksUntil(l, u)' = ticks
        /\ UNCHANGED <<now, current_ticks>>
        /\ \A m \in List, v \in Node \ {u} :
             SameTime(m, v) /\ interval_ticks'[v] = interval_ticks[v]
    BY <2>1, StartEffect
  <2>3. Elapsed(c)' = Elapsed(c)  BY <2>2 DEF Elapsed
  <2>4. Linked(c)' \subseteq Linked(c) \cup (IF c = l THEN {u} ELSE {})
    BY <2>2, RunFacts, PushKeeps
  <2>5. u \notin Linked(c)  BY <2>2 DEF Push, Unlinked
  <2>6. ASSUME NEW t \in Linked(c)'  PROVE Fits(c, t)'
    <3>1. CASE t = u
      <4>1. c = l  BY <2>4, <2>5, <2>6, <3>1
      <4>2. TicksUntil(c, t)' - Elapsed(c)' \in Near
        BY <1>2, <2>2, <2>3, <3>1, <4>1 DEF Near
      <4>3. TicksUntil(c, t)' \in Near  BY <1>2, <2>2, <3>1, <4>1 DEF Near
      <4>4. QED  BY <2>2, <3>1, <4>2, <4>3 DEF Fits, Near
    <3>2. CASE t # u
      <4>1. t \in Linked(c) /\ t \in Node  BY <1>2, <2>4, <2>6, <3>2
      <4>2. /\ TicksUntil(c, t)' = TicksUntil(c, t)
            /\ interval_ticks'[t] = interval_ticks[t]
        BY <2>2, <3>2, <4>1 DEF SameTime
      <4>3. QED  BY <1>3, <2>3, <4>1, <4>2 DEF Fits, Near
    <3>3. QED  BY <3>1, <3>2
  <2>7. QED  BY <1>2, <2>3, <2>6
<1>5. CASE \E l \in List, u \in Node : StartOneShot(l, u) \/ StartRepeating(l, u)
  BY <1>4, <1>5
<1>6. ASSUME ~(\E l \in List, u \in Node : StartOneShot(l, u) \/ StartRepeating(l, u))
      PROVE  /\ Elapsed(c)' \in 0 .. MaxLag[c]
             /\ \A t \in Linked(c)' : Fits(c, t)'
  <2>1. \A t \in Linked(c)' : t \in Linked(c)  BY <1>6, LinkedLater
  <2>2. CASE Tick
    <3>1. /\ Elapsed(c)' = Elapsed(c) + 1 /\ Elapsed(c) < MaxLag[c]
          /\ \A t \in Node : TicksUntil(c, t)' = TicksUntil(c, t)
          /\ \A t \in Linked(c) : TicksUntil(c, t) - Elapsed(c) > -(Half-1)
          /\ interval_ticks' = interval_ticks
      BY <2>2, TickEffect DEF Tick, timerFields
    <3>2. Elapsed(c)' \in 0 .. MaxLag[c]  BY <1>2, <3>1
    <3>3. ASSUME NEW t \in Linked(c)'  PROVE Fits(c, t)'
      <4>1. t \in Linked(c) /\ t \in Node  BY <1>2, <2>1, <3>3
      <4>2. /\ TicksUntil(c, t)' \in -(Half-1) .. Half - 1
            /\ TicksUntil(c, t)' - Elapsed(c)' \in -(Half-1) .. Half - 1
        BY <1>2, <1>3, <3>1, <4>1
      <4>3. QED  BY <1>3, <3>1, <4>1, <4>2 DEF Fits, Near
    <3>4. QED  BY <3>2, <3>3
  <2>3. ASSUME NEW l \in List, RunBegin(l)
        PROVE  /\ Elapsed(c)' \in 0 .. MaxLag[c]
               /\ \A t \in Linked(c)' : Fits(c, t)'
    <3>1. interval_ticks' = interval_ticks  BY <2>3 DEF RunBegin, timerFields
    <3>2. CASE c = l
      <4>1. /\ Elapsed(c)' = 0
            /\ \A t \in Linked(c) : TicksUntil(c, t)' = TicksUntil(c, t) - Elapsed(c)
        BY <2>3, <3>2, BeginEffect
      <4>2. ASSUME NEW t \in Linked(c)'  PROVE Fits(c, t)'
        <5>1. t \in Linked(c)  BY <2>1, <4>2
        <5>2. /\ TicksUntil(c, t)' \in -(Half-1) .. Half - 1
              /\ TicksUntil(c, t)' - Elapsed(c)' \in -(Half-1) .. Half - 1
          BY <1>2, <1>3, <4>1, <5>1
        <5>3. QED  BY <1>3, <3>1, <5>1, <5>2 DEF Fits, Near
      <4>3. QED  BY <1>2, <4>1, <4>2
    <3>3. CASE c # l
      <4>1. Elapsed(c)' = Elapsed(c)
        BY <2>3, <3>3, RunFacts DEF RunBegin, Elapsed
      <4>2. ASSUME NEW t \in Linked(c)'  PROVE Fits(c, t)'
        <5>1. t \in Linked(c) /\ t \in Node  BY <1>2, <2>1, <4>2
        <5>2. TicksUntil(c, t)' = TicksUntil(c, t)
          BY <2>3, <3>3, <5>1, BeginEffect DEF SameTime
        <5>3. QED  BY <1>3, <3>1, <4>1, <5>1, <5>2 DEF Fits, Near
      <4>3. QED  BY <1>2, <4>1, <4>2
    <3>4. QED  BY <3>2, <3>3
  <2>4. CASE FireRepeating
    <3>1. /\ interval_ticks' = interval_ticks /\ Elapsed(c)' = Elapsed(c)
          /\ TicksUntil(running, current)' =
               TicksUntil(running, current) + interval_ticks[current]
          /\ \A t \in Node \ {current} : SameTime(c, t)
          /\ TicksUntil(running, current) <= 0 /\ running' = running /\ current' = current
      BY <2>4, RepeatEffect DEF FireRepeating
    <3>2. current \in Linked(running) /\ running \in List /\ current \in Node
      BY <2>4, RunFacts DEF FireRepeating, Visit
    <3>3. ASSUME NEW t \in Linked(c)'  PROVE Fits(c, t)'
      <4>1. t \in Linked(c) /\ t \in Node  BY <1>2, <2>1, <3>3
      <4>2. CASE t = current
        <5>1. c = running
          <6>1. Linked(c) \cap Linked(running) # {}  BY <3>2, <4>1, <4>2
          <6>2. QED  BY <3>2, <6>1, RunFacts, InvProperties DEF ListsDisjoint
        <5>2. PICK r \in List, n \in Node : r = running /\ n = current  BY <3>2
        <5>3. TicksUntil(r, n)' = TicksUntil(r, n) + interval_ticks[n]
              /\ TicksUntil(r, n) <= 0
          BY <3>1, <5>2 DEF TicksUntil, Signed
        <5>4. c = r /\ t = n  BY <4>2, <5>1, <5>2
        <5>5. /\ TicksUntil(c, t)' \in -(Half-1) .. Half - 1
              /\ TicksUntil(c, t)' - Elapsed(c)' \in -(Half-1) .. Half - 1
          BY <1>2, <1>3, <3>1, <4>1, <5>3, <5>4
        <5>6. QED  BY <1>3, <3>1, <4>1, <5>5 DEF Fits, Near
      <4>3. CASE t # current
        BY <1>3, <3>1, <4>1, <4>3 DEF Fits, Near, SameTime
      <4>4. QED  BY <4>2, <4>3
    <3>4. QED  BY <1>2, <3>1, <3>3
  <2>5. CASE \/ \E t \in Node : TimerStop(t)
             \/ VisitPending \/ FireOneShot \/ CallbackReturns \/ RunReturns
             \/ UNCHANGED timerVars
    <3>1. /\ UNCHANGED <<now, current_ticks, interval_ticks>>
          /\ \A t \in Node : SameTime(c, t)
      BY <2>5, ClockRest DEF timerFields
    <3>2. Elapsed(c)' = Elapsed(c)  BY <3>1 DEF Elapsed
    <3>3. ASSUME NEW t \in Linked(c)'  PROVE Fits(c, t)'
      <4>1. t \in Linked(c) /\ t \in Node  BY <1>2, <2>1, <3>3
      <4>2. QED  BY <1>3, <3>1, <4>1 DEF Fits, Near, SameTime
    <3>4. QED  BY <1>2, <3>2, <3>3
  <2>6. QED  BY <1>6, <2>2, <2>3, <2>4, <2>5 DEF TimerNext, RunGoesOn
<1>7. QED  BY <1>5, <1>6

-----------------------------------------------------------------------------
\* What is left of the interval that a one-shot timer was started with, counted
\* from the call, is ahead of its ticks by the age of the controller's time at
\* that call, or is over.
LagInv ==
  /\ asked \in [Node -> Nat]
  /\ \A c \in List : \A t \in Linked(c) :
       ~repeating[t] =>
         \/ asked[t] = 0
         \/ asked[t] <= TicksUntil(c, t) - Elapsed(c) + MaxLag[c]

LEMMA AskedType ==
  ASSUME LagInv, HistoryNext, TypeInv, TypeInv'
  PROVE  asked' \in [Node -> Nat]
<1>1. \A t \in Node : interval_ticks'[t] \in Nat
  BY DEF TypeInv, TimerTypeOK, Ticks
<1>2. \A t \in Node : asked[t] \in Nat  BY DEF LagInv
<1>3. SUFFICES ASSUME NEW t \in Node
               PROVE  (CASE Unlinked(t)' \/ repeating'[t] -> 0
                         [] Unlinked(t) -> interval_ticks'[t]
                         [] OTHER ->
                              IF now' # now THEN CountDown(asked[t]) ELSE asked[t])
                        \in Nat
  BY DEF HistoryNext
<1>4. CountDown(asked[t]) \in Nat  BY <1>2 DEF CountDown
<1>5. QED  BY <1>1, <1>2, <1>4

\* What becomes of it for a one-shot timer on a list.
LEMMA AskedNext ==
  ASSUME HistoryNext, NEW c \in List, NEW t \in Linked(c)', t \in Node,
         ~repeating'[t]
  PROVE  /\ Unlinked(t) => asked'[t] = interval_ticks'[t]
         /\ ~Unlinked(t) =>
              asked'[t] = IF now' # now THEN CountDown(asked[t]) ELSE asked[t]
<1>1. ~Unlinked(t)'  BY DEF Unlinked
<1>2. asked'[t] = (CASE Unlinked(t)' \/ repeating'[t] -> 0
                     [] Unlinked(t) -> interval_ticks'[t]
                     [] OTHER ->
                          IF now' # now THEN CountDown(asked[t]) ELSE asked[t])
  BY DEF HistoryNext
<1>3. QED  BY <1>1, <1>2

LEMMA LagStep ==
  ASSUME ~CallbacksStopNext, IntervalsFit, RunInv, RunInv', ClockInv, LagInv,
         [HistoryNext]_historyVars
  PROVE  LagInv'
<1>1. CASE UNCHANGED historyVars
  <2>1. UNCHANGED <<head, next, now, current_ticks, next_expiration_ticks,
                    repeating, asked>>
    BY <1>1 DEF historyVars, timerVars, listVars, timerFields
  <2>2. QED  BY <2>1 DEF LagInv, Linked, TicksUntil, Signed, Elapsed
<1>2. CASE HistoryNext
  <2>1. asked' \in [Node -> Nat] /\ asked \in [Node -> Nat]
    <3>1. TypeInv /\ TypeInv'  BY DEF RunInv, StopInv
    <3>2. QED  BY <1>2, <3>1, AskedType DEF LagInv
  <2>2. SUFFICES ASSUME NEW c \in List, NEW t \in Linked(c)', ~repeating'[t]
                 PROVE  \/ asked'[t] = 0
                        \/ asked'[t] <= TicksUntil(c, t)' - Elapsed(c)' + MaxLag[c]
    BY <2>1 DEF LagInv
  <2>3. /\ Elapsed(c) \in 0 .. MaxLag[c] /\ \A u \in Linked(c) : Fits(c, u)
        /\ Half \in Nat \ {0} /\ MaxLag[c] \in 0 .. Half - 1
        /\ Linked(c) \in SUBSET Node
    BY HalfFacts, RunFacts DEF ClockInv
  <2>4. t \in Node  BY DEF Linked, Reach
  <2>5. [TimerNext]_timerVars  BY <1>2, HistoryStep
  <2>6. ASSUME t \in Linked(c), ~repeating[t],
               TicksUntil(c, t)' - Elapsed(c)' = TicksUntil(c, t) - Elapsed(c)
                                                 - (IF now' # now THEN 1 ELSE 0)
        PROVE  \/ asked'[t] = 0
               \/ asked'[t] <= TicksUntil(c, t)' - Elapsed(c)' + MaxLag[c]
    <3>1. ~Unlinked(t)  BY <2>6 DEF Unlinked
    <3>2. asked'[t] = IF now' # now THEN CountDown(asked[t]) ELSE asked[t]
      BY <1>2, <2>2, <2>4, <3>1, AskedNext
    <3>3. asked[t] = 0 \/ asked[t] <= TicksUntil(c, t) - Elapsed(c) + MaxLag[c]
      BY <2>6 DEF LagInv
    <3>4. TicksUntil(c, t) \in Int /\ Elapsed(c) \in Int /\ asked[t] \in Nat
          /\ MaxLag[c] \in Int
      BY <2>1, <2>3, <2>4, <2>6 DEF Fits, Near
    <3>5. PICK d \in Int : d = TicksUntil(c, t) - Elapsed(c)  BY <3>4
    <3>6. TicksUntil(c, t)' - Elapsed(c)' = d - (IF now' # now THEN 1 ELSE 0)
      BY <2>6, <3>5
    <3>7. asked[t] = 0 \/ asked[t] <= d + MaxLag[c]  BY <3>3, <3>5
    <3>8. QED  BY <3>2, <3>4, <3>6, <3>7 DEF CountDown
  <2>7. ASSUME NEW l \in List, NEW u \in Node,
               StartOneShot(l, u) \/ StartRepeating(l, u)
        PROVE  \/ asked'[t] = 0
               \/ asked'[t] <= TicksUntil(c, t)' - Elapsed(c)' + MaxLag[c]
    <3>1. PICK ticks \in OneShotIntervals \cup RepeatIntervals, rep \in BOOLEAN :
            TimerStart(l, u, ticks, rep)
      BY <2>7 DEF StartOneShot, StartRepeating
    <3>2. /\ Push(l, u) /\ interval_ticks'[u] = ticks /\ ticks \in 0 .. Half - 1
          /\ TicksUntil(l, u)' = ticks
          /\ UNCHANGED <<now, current_ticks>>
          /\ \A m \in List, v \in Node \ {u} :
               SameTime(m, v) /\ repeating'[v] = repeating[v]
      BY <3>1, StartEffect
    <3>3. Elapsed(c)' = Elapsed(c)  BY <3>2 DEF Elapsed
    <3>4. Linked(c)' \subseteq Linked(c) \cup (IF c = l THEN {u} ELSE {})
      BY <3>2, RunFacts, PushKeeps
    <3>5. Unlinked(u) /\ u \notin Linked(c)  BY <3>2 DEF Push, Unlinked
    <3>6. CASE t = u
      <4>1. c = l  BY <2>2, <3>4, <3>5, <3>6
      <4>2. asked'[t] = ticks  BY <1>2, <2>2, <2>4, <3>2, <3>5, <3>6, AskedNext
      <4>3. QED  BY <2>3, <3>2, <3>3, <3>6, <4>1, <4>2
    <3>7. CASE t # u
      <4>1. t \in Linked(c)  BY <2>2, <3>4, <3>7
      <4>2. /\ TicksUntil(c, t)' = TicksUntil(c, t) /\ repeating'[t] = repeating[t]
            /\ now' = now
        BY <2>4, <3>2, <3>7 DEF SameTime
      <4>3. TicksUntil(c, t) \in Int /\ Elapsed(c) \in Int
        BY <2>3, <4>1 DEF Fits, Near
      <4>4. QED  BY <2>2, <2>6, <3>3, <4>1, <4>2, <4>3
    <3>8. QED  BY <3>6, <3>7
  <2>8. ASSUME ~(\E l \in List, u \in Node : StartOneShot(l, u) \/ StartRepeating(l, u))
        PROVE  /\ t \in Linked(c) /\ repeating' = repeating
               /\ TicksUntil(c, t)' - Elapsed(c)' = TicksUntil(c, t) - Elapsed(c)
                                                    - (IF now' # now THEN 1 ELSE 0)
    <3>1. t \in Linked(c)  BY <2>2, <2>5, <2>8, LinkedLater
    <3>2. TicksUntil(c, t) \in Int /\ Elapsed(c) \in Int
      BY <2>3, <3>1 DEF Fits, Near
    <3>3. CASE Tick
      <4>1. /\ Elapsed(c)' = Elapsed(c) + 1 /\ now' # now
            /\ TicksUntil(c, t)' = TicksUntil(c, t) /\ repeating' = repeating
        BY <2>4, <3>3, TickEffect DEF Tick, timerFields
      <4>2. QED  BY <3>1, <3>2, <4>1
    <3>4. ASSUME NEW l \in List, RunBegin(l)
          PROVE  /\ repeating' = repeating /\ now' = now
                 /\ TicksUntil(c, t)' - Elapsed(c)' = TicksUntil(c, t) - Elapsed(c)
      <4>1. repeating' = repeating /\ now' = now
        BY <3>4 DEF RunBegin, timerFields
      <4>2. CASE c = l
        <5>1. Elapsed(c)' = 0 /\ TicksUntil(c, t)' = TicksUntil(c, t) - Elapsed(c)
          BY <3>1, <3>4, <4>2, BeginEffect
        <5>2. QED  BY <3>2, <4>1, <5>1
      <4>3. CASE c # l
        <5>1. SameTime(c, t)  BY <2>4, <3>4, <4>3, BeginEffect
        <5>2. QED  BY <4>1, <5>1 DEF SameTime
      <4>4. QED  BY <4>2, <4>3
    <3>5. CASE FireRepeating
      <4>1. repeating' = repeating /\ now' = now /\ repeating[current]
        BY <3>5 DEF FireRepeating
      <4>2. SameTime(c, t)  BY <2>2, <2>4, <3>5, <4>1, RepeatEffect
      <4>3. QED  BY <3>1, <3>2, <4>1, <4>2 DEF SameTime
    <3>6. CASE \/ \E u \in Node : TimerStop(u)
               \/ VisitPending \/ FireOneShot \/ CallbackReturns \/ RunReturns
               \/ UNCHANGED timerVars
      <4>1. repeating' = repeating /\ now' = now /\ SameTime(c, t)
        BY <2>4, <3>6, ClockRest DEF timerFields
      <4>2. QED  BY <3>1, <3>2, <4>1 DEF SameTime
    <3>7. QED
      BY <2>5, <2>8, <3>1, <3>2, <3>3, <3>4, <3>5, <3>6 DEF TimerNext, RunGoesOn
  <2>9. QED  BY <2>2, <2>6, <2>7, <2>8
<1>3. QED  BY <1>1, <1>2

\* Before the first step no timer is on a list and no controller is behind.
LEMMA ClockStart == TimerInit => ClockInv
<1>1. SUFFICES ASSUME TimerInit, NEW c \in List
               PROVE  Elapsed(c) \in 0 .. MaxLag[c] /\ Linked(c) = {}
  BY DEF ClockInv
<1>2. ListsInv /\ Contents = [l \in List |-> <<>>]
  BY <1>1, ListsStart DEF TimerInit
<1>3. Linked(c) = {}  BY <1>2, ContentsFacts DEF Range
<1>4. now \in Ticks /\ current_ticks[c] = now  BY <1>1 DEF TimerInit
<1>5. Elapsed(c) = 0
  <2>1. (now - now) % TickMod = ModDiff(now, now)  BY <1>4, ModFacts
  <2>2. ModDiff(now, now) = 0  BY <1>4 DEF ModDiff, Ticks
  <2>3. QED  BY <1>4, <2>1, <2>2 DEF Elapsed
<1>6. QED  BY <1>3, <1>5, HalfFacts

LEMMA ClockInvariant ==
  ASSUME ~CallbacksStopNext, IntervalsFit
  PROVE  TimerSpec => [](RunInv /\ ClockInv)
<1>1. TimerInit => RunInv /\ ClockInv  BY RunInvStart, ClockStart
<1>2. RunInv /\ ClockInv /\ [TimerNext]_timerVars => (RunInv /\ ClockInv)'
  BY RunInvStep, ClockStep
<1>3. QED  BY <1>1, <1>2, PTL DEF TimerSpec

LEMMA LagInvariant ==
  ASSUME ~CallbacksStopNext, IntervalsFit
  PROVE  HistorySpec => [](RunInv /\ ClockInv /\ LagInv)
<1>1. HistoryInit => RunInv /\ ClockInv /\ LagInv
  <2>1. SUFFICES ASSUME HistoryInit PROVE LagInv
    BY RunInvStart, ClockStart DEF HistoryInit
  <2>2. ListsInv /\ Contents = [l \in List |-> <<>>]
    BY <2>1, ListsStart DEF TimerInit, HistoryInit
  <2>3. \A c \in List : Linked(c) = {}  BY <2>2, ContentsFacts DEF Range
  <2>4. QED  BY <2>1, <2>3 DEF HistoryInit, LagInv
<1>2. RunInv /\ ClockInv /\ LagInv /\ [HistoryNext]_historyVars
        => (RunInv /\ ClockInv /\ LagInv)'
  BY RunInvStep, ClockStep, LagStep, HistoryStep
<1>3. QED  BY <1>1, <1>2, PTL DEF HistorySpec

\* A one-shot timer fires early by no more than the longest gap between two
\* runs of its controller, across the wrap of the ticks, in programs whose
\* intervals are from 0 to below half the range of ticks.
THEOREM NotEarlierThanTheLag ==
  ASSUME ~CallbacksStopNext, IntervalsFit
  PROVE  HistorySpec => EarlyByAtMostTheLag
<1>1. RunInv /\ ClockInv /\ LagInv /\ [HistoryNext]_historyVars
        => [\A t \in Node : FireOneShot /\ current = t
                              => asked[t] <= MaxLag[running]]_historyVars
  <2>1. SUFFICES ASSUME RunInv, ClockInv, LagInv, FireOneShot
                 PROVE  asked[current] <= MaxLag[running]
    OBVIOUS
  <2>2. /\ current \in Linked(running) /\ current \in Node /\ running \in List
        /\ ~repeating[current] /\ TicksUntil(running, current) <= 0
    BY <2>1, RunFacts DEF FireOneShot, Visit
  <2>3. /\ asked[current] \in Nat
        /\ \/ asked[current] = 0
           \/ asked[current] <= TicksUntil(running, current) - Elapsed(running)
                                + MaxLag[running]
    BY <2>1, <2>2 DEF LagInv
  <2>4. /\ Elapsed(running) \in 0 .. MaxLag[running] /\ MaxLag[running] \in Nat
        /\ TicksUntil(running, current) \in Int
    BY <2>1, <2>2, HalfFacts DEF ClockInv, Fits, Near
  <2>5. QED  BY <2>2, <2>3, <2>4
<1>2. QED  BY <1>1, LagInvariant, PTL DEF HistorySpec, EarlyByAtMostTheLag

-----------------------------------------------------------------------------
(***************************************************************************)
(* Timers implement exact timers.  These are what the refinement mapping   *)
(* makes of the state of one controller.                                   *)
(***************************************************************************)
LeftOf(c) == [t \in Linked(c) |-> TicksUntil(c, t)]
PeriodOf(c) == [t \in Linked(c) |-> IF repeating[t] THEN interval_ticks[t] ELSE -1]
DueOf(c) ==
  IF running # c THEN {} ELSE {t \in Reach(Rest, next) : TicksUntil(c, t) <= 0}
FiringOf(c) == IF running = c /\ InCallback THEN current ELSE NULL

SameLeft(c) ==
  /\ LeftOf(c)' = LeftOf(c) /\ PeriodOf(c)' = PeriodOf(c)
  /\ Elapsed(c)' = Elapsed(c)
SameRun(c) ==
  /\ (running = c)' = (running = c)
  /\ DueOf(c)' = DueOf(c) /\ FiringOf(c)' = FiringOf(c)

\* What timer_start does to what the run under way, if there is one, will fire.
JoinsRun(c, t, ticks) ==
  \/ DueOf(c)' = DueOf(c) /\ (ticks > 0 \/ DueOf(c) = {})
  \/ running = c /\ ticks = 0 /\ DueOf(c)' = DueOf(c) \cup {t}

LEMMA ExactStutters ==
  ASSUME NEW c, SameLeft(c), SameRun(c)
  PROVE  UNCHANGED Exact(c)!vars
BY DEF Exact!vars, SameLeft, SameRun, LeftOf, PeriodOf, Elapsed, DueOf, FiringOf

LEMMA ExactTick ==
  ASSUME NEW c, Elapsed(c)' = Elapsed(c) + 1, LeftOf(c)' = LeftOf(c),
         PeriodOf(c)' = PeriodOf(c), SameRun(c)
  PROVE  Exact(c)!Tick
BY DEF Exact!Tick, SameRun, LeftOf, PeriodOf, Elapsed, DueOf, FiringOf

LEMMA ExactStart ==
  ASSUME NEW c, NEW t, NEW ticks, NEW every, t \notin Linked(c),
         running = c => FiringOf(c) # NULL,
         LeftOf(c)' = Exact(c)!With(LeftOf(c), t, ticks),
         PeriodOf(c)' = Exact(c)!With(PeriodOf(c), t, every),
         Elapsed(c)' = Elapsed(c), (running = c)' = (running = c),
         FiringOf(c)' = FiringOf(c), JoinsRun(c, t, ticks)
  PROVE  Exact(c)!Start(t, ticks, every)
BY DEF Exact!Start, Exact!Active, Exact!Joins, JoinsRun, LeftOf, PeriodOf, Elapsed, DueOf, FiringOf

LEMMA ExactStop ==
  ASSUME NEW c, NEW t, running = c => FiringOf(c) # NULL,
         LeftOf(c)' = Exact(c)!Without(LeftOf(c), t),
         PeriodOf(c)' = Exact(c)!Without(PeriodOf(c), t),
         DueOf(c)' = DueOf(c) \ {t},
         Elapsed(c)' = Elapsed(c), (running = c)' = (running = c),
         FiringOf(c)' = FiringOf(c)
  PROVE  Exact(c)!Stop(t)
BY DEF Exact!Stop, LeftOf, PeriodOf, Elapsed, DueOf, FiringOf

LEMMA ExactBegin ==
  ASSUME NEW c, running # c, running' = c,
         LeftOf(c)' = [t \in Linked(c) |-> LeftOf(c)[t] - Elapsed(c)],
         Elapsed(c)' = 0, PeriodOf(c)' = PeriodOf(c),
         DueOf(c)' = {t \in Linked(c) : LeftOf(c)[t] <= Elapsed(c)},
         FiringOf(c)' = FiringOf(c)
  PROVE  Exact(c)!Begin
BY DEF Exact!Begin, Exact!Active, LeftOf, PeriodOf, Elapsed, DueOf, FiringOf

LEMMA ExactFireOnce ==
  ASSUME NEW c, NEW t, t \in DueOf(c), FiringOf(c) = NULL,
         DueOf(c)' = DueOf(c) \ {t}, FiringOf(c)' = t,
         PeriodOf(c)[t] = -1,
         LeftOf(c)' = Exact(c)!Without(LeftOf(c), t),
         PeriodOf(c)' = Exact(c)!Without(PeriodOf(c), t),
         Elapsed(c)' = Elapsed(c), (running = c)' = (running = c)
  PROVE  Exact(c)!Fire(t)
BY DEF Exact!Fire, Exact!Once, LeftOf, PeriodOf, Elapsed, DueOf, FiringOf

LEMMA ExactFireAgain ==
  ASSUME NEW c, NEW t, t \in DueOf(c), FiringOf(c) = NULL,
         DueOf(c)' = DueOf(c) \ {t}, FiringOf(c)' = t,
         PeriodOf(c)[t] # -1,
         LeftOf(c)' = [LeftOf(c) EXCEPT ![t] = @ + PeriodOf(c)[t]],
         PeriodOf(c)' = PeriodOf(c),
         Elapsed(c)' = Elapsed(c), (running = c)' = (running = c)
  PROVE  Exact(c)!Fire(t)
BY DEF Exact!Fire, Exact!Once, LeftOf, PeriodOf, Elapsed, DueOf, FiringOf

LEMMA ExactDone ==
  ASSUME NEW c, SameLeft(c), FiringOf(c) # NULL, FiringOf(c)' = NULL,
         DueOf(c)' = DueOf(c), (running = c)' = (running = c)
  PROVE  Exact(c)!Done
BY DEF Exact!Done, SameLeft, LeftOf, PeriodOf, Elapsed, DueOf, FiringOf

LEMMA ExactEnd ==
  ASSUME NEW c, SameLeft(c), running = c, FiringOf(c) = NULL, DueOf(c) = {},
         running' # c, DueOf(c)' = {}, FiringOf(c)' = NULL
  PROVE  Exact(c)!End
BY DEF Exact!End, SameLeft, LeftOf, PeriodOf, Elapsed, DueOf, FiringOf

\* The map of a list that stays the same, and whose timers do.
LEMMA SameMap ==
  ASSUME NEW c, Linked(c)' = Linked(c), Elapsed(c)' = Elapsed(c),
         \A t \in Linked(c) :
           /\ TicksUntil(c, t)' = TicksUntil(c, t)
           /\ repeating'[t] = repeating[t] /\ interval_ticks'[t] = interval_ticks[t]
  PROVE  SameLeft(c)
BY DEF SameLeft, LeftOf, PeriodOf

\* The map of a run that stays where it is.
LEMMA SameWalk ==
  ASSUME NEW c, UNCHANGED runVars,
         running = c => Reach(Rest, next') = Reach(Rest, next),
         \A t \in Reach(Rest, next) : TicksUntil(c, t)' = TicksUntil(c, t)
  PROVE  SameRun(c)
<1>1. Rest' = Rest /\ running' = running /\ current' = current /\ pc' = pc
  BY DEF Rest, InCallback, runVars
<1>2. FiringOf(c)' = FiringOf(c)  BY <1>1 DEF FiringOf, InCallback
<1>3. DueOf(c)' = DueOf(c)
  <2>1. CASE running # c  BY <1>1, <2>1 DEF DueOf
  <2>2. CASE running = c
    <3>1. Reach(Rest, next)' = Reach(Rest, next)  BY <1>1, <2>2
    <3>2. QED  BY <1>1, <2>2, <3>1 DEF DueOf
  <2>3. QED  BY <2>1, <2>2
<1>4. QED  BY <1>1, <1>2, <1>3 DEF SameRun

\* A controller that is not being run, and of which no run begins.
LEMMA SameIdle ==
  ASSUME NEW c, running # c, running' # c
  PROVE  SameRun(c)
BY DEF SameRun, DueOf, FiringOf

LEMMA BehindLinkedNext ==
  ASSUME ListsInv', NEW l \in List, NEW x \in Linked(l)' \cup {NULL}
  PROVE  Reach(x, next') \subseteq Linked(l)'
<1>1. Linked(l)' \in SUBSET Node  BY DEF Linked, Reach
<1>2. Closed(Linked(l)', next')  BY WalkStaysOnNext DEF Closed
<1>3. QED  BY <1>1, <1>2, BehindWithin

\* Where the run of a controller is.
LEMMA OfRun ==
  ASSUME RunInv, NEW c \in List, running = c
  PROVE  /\ pc # "idle" /\ Rest \in Linked(c) \cup {NULL} /\ ListsInv
         /\ Reach(Rest, next) \subseteq Linked(c) /\ Linked(c) \in SUBSET Node
<1>1. pc # "idle"
  BY TimerConstants DEF RunInv, StopInv, TypeInv, TimerTypeOK
<1>2. Rest \in Linked(c) \cup {NULL} /\ ListsInv /\ Linked(c) \in SUBSET Node
  BY <1>1, RunFacts
<1>3. QED  BY <1>1, <1>2, BehindLinked

\* The program changes timers inside a run only in a callback.
LEMMA FiringInCallback ==
  ASSUME RunInv, MayStart, NEW c \in List
  PROVE  running = c => FiringOf(c) # NULL
<1>1. SUFFICES ASSUME running = c PROVE FiringOf(c) # NULL  OBVIOUS
<1>2. InCallback  BY <1>1, OfRun DEF MayStart
<1>3. current \in Node  BY <1>2 DEF RunInv, StopInv, TypeInv, TimerTypeOK
<1>4. QED  BY <1>1, <1>2, <1>3, NullAssumption DEF FiringOf

LEMMA ClockTicks ==
  ASSUME RunInv, ClockInv, Tick, NEW c \in List
  PROVE  Exact(c)!Tick
<1>1. /\ Elapsed(c)' = Elapsed(c) + 1
      /\ \A t \in Node : TicksUntil(c, t)' = TicksUntil(c, t)
  BY TickEffect
<1>2. UNCHANGED <<head, next, repeating, interval_ticks, runVars>>
  BY DEF Tick, listVars, timerFields
<1>3. Linked(c)' = Linked(c) /\ Linked(c) \in SUBSET Node
  BY <1>2, RunFacts DEF Linked
<1>4. LeftOf(c)' = LeftOf(c)  BY <1>1, <1>3 DEF LeftOf
<1>5. PeriodOf(c)' = PeriodOf(c)  BY <1>2, <1>3 DEF PeriodOf
<1>6. \A t \in Reach(Rest, next) : t \in Node  BY DEF Reach
<1>7. SameRun(c)  BY <1>1, <1>2, <1>6, SameWalk
<1>8. QED  BY <1>1, <1>4, <1>5, <1>7, ExactTick

LEMMA TimerStarts ==
  ASSUME IntervalsFit, RunInv, RunInv', NEW c \in List,
         NEW l \in List, NEW u \in Node,
         NEW ticks \in OneShotIntervals \cup RepeatIntervals, NEW rep \in BOOLEAN,
         TimerStart(l, u, ticks, rep)
  PROVE  IF c = l THEN Exact(c)!Start(u, ticks, IF rep THEN ticks ELSE -1)
                  ELSE UNCHANGED Exact(c)!vars
<1>1. /\ Push(l, u) /\ interval_ticks'[u] = ticks /\ repeating'[u] = rep
      /\ ticks \in 0 .. Half - 1 /\ TicksUntil(l, u)' = ticks
      /\ UNCHANGED <<now, current_ticks, runVars>>
      /\ \A m \in List, v \in Node \ {u} :
           /\ TicksUntil(m, v)' = TicksUntil(m, v)
           /\ interval_ticks'[v] = interval_ticks[v] /\ repeating'[v] = repeating[v]
  BY StartEffect DEF SameTime
<1>2. /\ ListsInv /\ ListsInv' /\ Linked(c) \in SUBSET Node
      /\ u \notin Linked(c) /\ ticks \in Nat
  BY <1>1, RunFacts, PushStep, HalfFacts DEF Push, Unlinked
<1>3. Elapsed(c)' = Elapsed(c)  BY <1>1 DEF Elapsed
<1>4. running = c => /\ Rest \in Linked(c) \cup {NULL}
                     /\ Reach(Rest, next) \subseteq Linked(c)
                     /\ Reach(Rest, next) \subseteq Reach(Rest, next')
                     /\ Reach(Rest, next') \subseteq Reach(Rest, next) \cup {u}
  BY <1>1, <1>2, OfRun, PushBehind
<1>5. CASE c = l
  <2>1. Linked(c)' = Linked(c) \cup {u}  BY <1>1, <1>2, <1>5, PushLinked
  <2>2. LeftOf(c)' = Exact(c)!With(LeftOf(c), u, ticks)
    <3>1. LeftOf(c)' = [x \in Linked(c) \cup {u} |->
                          IF x = u THEN ticks ELSE TicksUntil(c, x)]
      BY <1>1, <1>2, <1>5, <2>1 DEF LeftOf
    <3>2. \A x \in Linked(c) : LeftOf(c)[x] = TicksUntil(c, x)  BY DEF LeftOf
    <3>3. DOMAIN LeftOf(c) = Linked(c)  BY DEF LeftOf
    <3>4. QED  BY <3>1, <3>2, <3>3 DEF Exact!With
  <2>3. PeriodOf(c)' = Exact(c)!With(PeriodOf(c), u, IF rep THEN ticks ELSE -1)
    <3>1. PeriodOf(c)' = [x \in Linked(c) \cup {u} |->
                            IF x = u THEN IF rep THEN ticks ELSE -1
                            ELSE IF repeating[x] THEN interval_ticks[x] ELSE -1]
      BY <1>1, <1>2, <2>1 DEF PeriodOf
    <3>2. \A x \in Linked(c) :
            PeriodOf(c)[x] = IF repeating[x] THEN interval_ticks[x] ELSE -1
      BY DEF PeriodOf
    <3>3. DOMAIN PeriodOf(c) = Linked(c)  BY DEF PeriodOf
    <3>4. QED  BY <3>1, <3>2, <3>3 DEF Exact!With
  <2>4. running = c => FiringOf(c) # NULL
    BY FiringInCallback DEF TimerStart
  <2>5. /\ (running = c)' = (running = c) /\ FiringOf(c)' = FiringOf(c)
        /\ Rest' = Rest /\ running' = running
    BY <1>1 DEF Rest, InCallback, runVars, FiringOf
  <2>6. JoinsRun(c, u, ticks)
    <3>1. CASE running # c
      <4>1. DueOf(c) = {} /\ DueOf(c)' = {}  BY <2>5, <3>1 DEF DueOf
      <4>2. QED  BY <4>1 DEF JoinsRun
    <3>2. CASE running = c
      <4>1. DueOf(c)' = {t \in Reach(Rest, next') : TicksUntil(c, t)' <= 0}
        BY <2>5, <3>2 DEF DueOf
      <4>2. DueOf(c) = {t \in Reach(Rest, next) : TicksUntil(c, t) <= 0}
        BY <3>2 DEF DueOf
      <4>3. \A t \in Reach(Rest, next) : TicksUntil(c, t)' = TicksUntil(c, t)
        BY <1>1, <1>2, <1>4, <3>2
      <4>4. u \notin Reach(Rest, next) /\ TicksUntil(c, u)' = ticks
        BY <1>1, <1>2, <1>4, <1>5, <3>2
      <4>5. DueOf(c)' = DueOf(c) \cup (IF u \in Reach(Rest, next') /\ ticks <= 0
                                       THEN {u} ELSE {})
        BY <1>4, <3>2, <4>1, <4>2, <4>3, <4>4
      <4>6. DueOf(c) # {} => u \in Reach(Rest, next')
        <5>1. SUFFICES ASSUME DueOf(c) # {} PROVE u \in Reach(Rest, next')
          OBVIOUS
        <5>2. Rest # NULL  BY <4>2, <5>1, BehindNull
        <5>3. PICK x \in Linked(c) : x = Rest  BY <1>4, <3>2, <5>2
        <5>4. u \in Reach(x, next')  BY <1>1, <1>2, <1>5, PushIsReached
        <5>5. QED  BY <5>3, <5>4
      <4>7. CASE ticks > 0
        <5>1. DueOf(c)' = DueOf(c)  BY <1>2, <4>5, <4>7
        <5>2. QED  BY <4>7, <5>1 DEF JoinsRun
      <4>8. CASE ticks = 0 /\ u \in Reach(Rest, next')
        <5>1. DueOf(c)' = DueOf(c) \cup {u}  BY <4>5, <4>8
        <5>2. QED  BY <3>2, <4>8, <5>1 DEF JoinsRun
      <4>9. CASE ticks = 0 /\ u \notin Reach(Rest, next')
        <5>1. DueOf(c) = {} /\ DueOf(c)' = DueOf(c)  BY <4>5, <4>6, <4>9
        <5>2. QED  BY <5>1 DEF JoinsRun
      <4>10. QED  BY <1>2, <4>7, <4>8, <4>9
    <3>3. QED  BY <3>1, <3>2
  <2>7. Exact(c)!Start(u, ticks, IF rep THEN ticks ELSE -1)
    BY <1>2, <1>3, <2>2, <2>3, <2>4, <2>5, <2>6, ExactStart
  <2>8. QED  BY <1>5, <2>7
<1>6. CASE c # l
  <2>1. Linked(c)' = Linked(c)  BY <1>1, <1>2, <1>6, OtherListsStay
  <2>2. SameLeft(c)  BY <1>1, <1>2, <1>3, <2>1, SameMap
  <2>3. running = c => Reach(Rest, next') = Reach(Rest, next)
    <3>1. SUFFICES ASSUME running = c
                   PROVE  Reach(Rest, next') = Reach(Rest, next)
      OBVIOUS
    <3>2. PICK x : x = Rest  OBVIOUS
    <3>3. x \in Linked(c)' \cup {NULL}  BY <1>4, <2>1, <3>1, <3>2
    <3>4. Reach(x, next') \subseteq Linked(c)  BY <1>2, <2>1, <3>3, BehindLinkedNext
    <3>5. QED  BY <1>2, <1>4, <3>1, <3>2, <3>4
  <2>4. SameRun(c)
    <3>1. CASE running = c
      <4>1. \A t \in Reach(Rest, next) : TicksUntil(c, t)' = TicksUntil(c, t)
        BY <1>1, <1>2, <1>4, <3>1
      <4>2. QED  BY <1>1, <2>3, <4>1, SameWalk
    <3>2. CASE running # c
      <4>1. running' = running  BY <1>1 DEF runVars
      <4>2. QED  BY <3>2, <4>1, SameIdle
    <3>3. QED  BY <3>1, <3>2
  <2>5. QED  BY <1>6, <2>2, <2>4, ExactStutters
<1>7. QED  BY <1>5, <1>6

\* The map of a list that one timer is taken off.
LEMMA ShorterMap ==
  ASSUME NEW c, NEW u, Linked(c)' = Linked(c) \ {u},
         \A t \in Linked(c) :
           /\ TicksUntil(c, t)' = TicksUntil(c, t)
           /\ repeating'[t] = repeating[t] /\ interval_ticks'[t] = interval_ticks[t]
  PROVE  /\ LeftOf(c)' = Exact(c)!Without(LeftOf(c), u)
         /\ PeriodOf(c)' = Exact(c)!Without(PeriodOf(c), u)
<1>1. DOMAIN LeftOf(c) = Linked(c) /\ DOMAIN PeriodOf(c) = Linked(c)
  BY DEF LeftOf, PeriodOf
<1>2. LeftOf(c)' = [t \in Linked(c) \ {u} |-> LeftOf(c)[t]]  BY DEF LeftOf
<1>3. PeriodOf(c)' = [t \in Linked(c) \ {u} |-> PeriodOf(c)[t]]  BY DEF PeriodOf
<1>4. QED  BY <1>1, <1>2, <1>3 DEF Exact!Without, Exact!Restrict

LEMMA TimerStops ==
  ASSUME ~CallbacksStopNext, RunInv, ClockInv, RunInv', NEW c \in List,
         NEW u \in Node, TimerStop(u)
  PROVE  IF c = controller[u] THEN Exact(c)!Stop(u)
                              ELSE UNCHANGED Exact(c)!vars
<1>1. PICK l \in List : l = controller[u]  BY RunFacts DEF TimerStop
<1>2. /\ Delete(l, u) /\ MayStop(u)
      /\ UNCHANGED <<now, current_ticks, timerFields, runVars>>
  BY <1>1 DEF TimerStop
<1>3. /\ ListsInv /\ ListsInv' /\ Linked(c) \in SUBSET Node
      /\ u \in Linked(c) => c = l
  BY <1>1, <1>2, RunFacts, DeleteStep DEF RunInv, StopFindsTheTimer, Active
<1>4. \A t \in Node : /\ TicksUntil(c, t)' = TicksUntil(c, t)
                      /\ repeating'[t] = repeating[t]
                      /\ interval_ticks'[t] = interval_ticks[t]
  BY <1>2, ClockRest DEF SameTime, timerFields
<1>5. Elapsed(c)' = Elapsed(c)  BY <1>2 DEF Elapsed
<1>6. running = c => FiringOf(c) # NULL
  BY <1>2, FiringInCallback DEF MayStop
<1>7. running = c => /\ Rest \in (Linked(c) \ {u}) \cup {NULL}
                     /\ Reach(Rest, next') = Reach(Rest, next) \ {u}
                     /\ Reach(Rest, next) \subseteq Linked(c)
  <2>1. SUFFICES ASSUME running = c
                 PROVE  /\ Rest \in (Linked(c) \ {u}) \cup {NULL}
                        /\ Reach(Rest, next') = Reach(Rest, next) \ {u}
                        /\ Reach(Rest, next) \subseteq Linked(c)
    OBVIOUS
  <2>2. /\ Rest \in Linked(c) \cup {NULL} /\ pc # "idle"
        /\ Reach(Rest, next) \subseteq Linked(c)
    BY <2>1, OfRun
  <2>3. InCallback /\ u # saved  BY <1>2, <2>2 DEF MayStop, MayStart
  <2>4. Rest \in (Linked(c) \ {u}) \cup {NULL}  BY <2>2, <2>3 DEF Rest
  <2>5. Reach(Rest, next') = Reach(Rest, next) \ {u}
    BY <1>2, <1>3, <2>4, DeleteBehind
  <2>6. QED  BY <2>2, <2>4, <2>5
<1>8. /\ Rest' = Rest /\ running' = running /\ FiringOf(c)' = FiringOf(c)
  BY <1>2 DEF Rest, InCallback, runVars, FiringOf
<1>9. DueOf(c)' = DueOf(c) \ {u}
  <2>1. CASE running # c  BY <1>8, <2>1 DEF DueOf
  <2>2. CASE running = c
    <3>1. DueOf(c)' = {t \in Reach(Rest, next') : TicksUntil(c, t)' <= 0}
      BY <1>8, <2>2 DEF DueOf
    <3>2. DueOf(c) = {t \in Reach(Rest, next) : TicksUntil(c, t) <= 0}
      BY <2>2 DEF DueOf
    <3>3. \A t \in Reach(Rest, next) : TicksUntil(c, t)' = TicksUntil(c, t)
      BY <1>3, <1>4, <1>7, <2>2
    <3>4. QED  BY <1>7, <2>2, <3>1, <3>2, <3>3
  <2>3. QED  BY <2>1, <2>2
<1>10. CASE c = l
  <2>1. Linked(c)' = Linked(c) \ {u}
    BY <1>2, <1>3, <1>10, DeleteKeeps, DeletedIsGone
  <2>2. /\ LeftOf(c)' = Exact(c)!Without(LeftOf(c), u)
        /\ PeriodOf(c)' = Exact(c)!Without(PeriodOf(c), u)
    BY <1>3, <1>4, <2>1, ShorterMap
  <2>3. Exact(c)!Stop(u)  BY <1>5, <1>6, <1>8, <1>9, <2>2, ExactStop
  <2>4. QED  BY <1>1, <1>10, <2>3
<1>11. CASE c # l
  <2>1. Linked(c)' = Linked(c) /\ u \notin Linked(c)
    BY <1>2, <1>3, <1>11, OtherListsStay, DeleteKeeps
  <2>2. SameLeft(c)  BY <1>3, <1>4, <1>5, <2>1, SameMap
  <2>3. u \notin DueOf(c)  BY <1>7, <2>1 DEF DueOf
  <2>4. SameRun(c)  BY <1>8, <1>9, <2>3 DEF SameRun
  <2>5. QED  BY <1>1, <1>11, <2>2, <2>4, ExactStutters
<1>12. QED  BY <1>10, <1>11

LEMMA RunBegins ==
  ASSUME RunInv, ClockInv, NEW c \in List, NEW l \in List, RunBegin(l)
  PROVE  IF c = l THEN Exact(c)!Begin ELSE UNCHANGED Exact(c)!vars
<1>1. /\ UNCHANGED <<head, next, repeating, interval_ticks>>
      /\ pc = "idle" /\ pc' = "loop" /\ running' = l /\ current' = head[l]
  BY DEF RunBegin, listVars, timerFields
<1>2. Linked(c)' = Linked(c) /\ Linked(c) \in SUBSET Node
  BY <1>1, RunFacts DEF Linked
<1>3. running # c
  BY <1>1, TimerConstants DEF RunInv, StopInv, TypeInv, TimerTypeOK
<1>4. CASE c = l
  <2>1. /\ Elapsed(c)' = 0 /\ Elapsed(c) \in Int
        /\ \A t \in Linked(c) : /\ TicksUntil(c, t)' = TicksUntil(c, t) - Elapsed(c)
                                /\ TicksUntil(c, t) \in Int
    BY <1>2, <1>4, BeginEffect DEF ClockInv, Fits, Near
  <2>2. \A t \in Linked(c) : LeftOf(c)[t] = TicksUntil(c, t)  BY DEF LeftOf
  <2>3. LeftOf(c)' = [t \in Linked(c) |-> LeftOf(c)[t] - Elapsed(c)]
    BY <1>2, <2>1, <2>2 DEF LeftOf
  <2>4. PeriodOf(c)' = PeriodOf(c)  BY <1>1, <1>2 DEF PeriodOf
  <2>5. Rest' = head[c] /\ next' = next  BY <1>1, <1>4 DEF Rest, InCallback
  <2>6. DueOf(c)' = {t \in Linked(c) : TicksUntil(c, t)' <= 0}
    BY <1>1, <1>4, <2>5 DEF DueOf, Linked
  <2>7. \A t \in Linked(c) : TicksUntil(c, t)' <= 0 <=> LeftOf(c)[t] <= Elapsed(c)
    BY <2>1, <2>2
  <2>8. DueOf(c)' = {t \in Linked(c) : LeftOf(c)[t] <= Elapsed(c)}
    BY <2>6, <2>7
  <2>9. FiringOf(c)' = FiringOf(c)  BY <1>1, <1>3 DEF FiringOf, InCallback
  <2>10. QED  BY <1>1, <1>3, <1>4, <2>1, <2>3, <2>4, <2>8, <2>9, ExactBegin
<1>5. CASE c # l
  <2>1. \A t \in Node : SameTime(c, t)  BY <1>5, BeginEffect
  <2>2. Elapsed(c)' = Elapsed(c)
    <3>1. l \in List \ {c} /\ current_ticks'[c] = current_ticks[c] /\ now' = now
      BY <1>5, RunFacts DEF RunBegin
    <3>2. QED  BY <3>1 DEF Elapsed
  <2>3. SameLeft(c)  BY <1>1, <1>2, <2>1, <2>2, SameMap DEF SameTime
  <2>4. SameRun(c)  BY <1>1, <1>3, <1>5, SameIdle
  <2>5. QED  BY <1>5, <2>3, <2>4, ExactStutters
<1>6. QED  BY <1>4, <1>5

\* The steps of a run that leave every timer as it is.
LEMMA SameTimers ==
  ASSUME RunInv, ClockInv, VisitPending \/ CallbackReturns \/ RunReturns, NEW c \in List
  PROVE  /\ SameLeft(c) /\ UNCHANGED <<head, next, now, current_ticks, timerFields>>
         /\ \A t \in Node : TicksUntil(c, t)' = TicksUntil(c, t)
<1>1. /\ UNCHANGED <<now, current_ticks, timerFields>>
      /\ \A t \in Node : TicksUntil(c, t)' = TicksUntil(c, t)
  BY ClockRest DEF SameTime
<1>2. UNCHANGED <<head, next>>
  BY DEF VisitPending, CallbackReturns, RunReturns, listVars
<1>3. Linked(c)' = Linked(c) /\ Linked(c) \in SUBSET Node
  BY <1>2, RunFacts DEF Linked
<1>4. Elapsed(c)' = Elapsed(c)  BY <1>1 DEF Elapsed
<1>5. SameLeft(c)  BY <1>1, <1>3, <1>4, SameMap DEF timerFields
<1>6. QED  BY <1>1, <1>2, <1>5

\* A timer that is not due is passed over.
LEMMA PendingIsPassed ==
  ASSUME RunInv, ClockInv, VisitPending, NEW c \in List
  PROVE  UNCHANGED Exact(c)!vars
<1>1. /\ SameLeft(c) /\ next' = next
      /\ \A t \in Node : TicksUntil(c, t)' = TicksUntil(c, t)
  BY SameTimers
<1>2. /\ pc = "loop" /\ pc' = "loop" /\ running' = running /\ current' = next[current]
      /\ TicksUntil(running, current) > 0 /\ current \in Node /\ next \in Heap
      /\ TicksUntil(running, current) \in Int
  BY RunFacts, TicksUntilIsInt DEF VisitPending, Visit
<1>3. CASE running # c  BY <1>1, <1>2, <1>3, SameIdle, ExactStutters
<1>4. CASE running = c
  <2>1. Rest = current /\ Rest' = next[current]  BY <1>2 DEF Rest, InCallback
  <2>2. Reach(current, next) = {current} \cup Reach(next[current], next)
    BY <1>2, BehindSplits
  <2>3. ~(TicksUntil(c, current) <= 0)  BY <1>2, <1>4
  <2>4. DueOf(c) = {t \in Reach(current, next) : TicksUntil(c, t) <= 0}
    BY <1>4, <2>1 DEF DueOf
  <2>5. DueOf(c)' = {t \in Reach(next[current], next) : TicksUntil(c, t)' <= 0}
    BY <1>1, <1>2, <1>4, <2>1 DEF DueOf
  <2>6. Reach(next[current], next) \subseteq Node  BY DEF Reach
  <2>7. DueOf(c)' = DueOf(c)  BY <1>1, <2>2, <2>3, <2>4, <2>5, <2>6
  <2>8. FiringOf(c)' = FiringOf(c)  BY <1>2 DEF FiringOf, InCallback
  <2>9. QED  BY <1>1, <1>2, <2>7, <2>8, ExactStutters DEF SameRun
<1>5. QED  BY <1>3, <1>4

LEMMA CallbackIsDone ==
  ASSUME RunInv, ClockInv, CallbackReturns, NEW c \in List
  PROVE  IF running = c THEN Exact(c)!Done ELSE UNCHANGED Exact(c)!vars
<1>1. /\ SameLeft(c) /\ next' = next
      /\ \A t \in Node : TicksUntil(c, t)' = TicksUntil(c, t)
  BY SameTimers
<1>2. InCallback /\ pc' = "loop" /\ running' = running /\ current' = saved
  BY DEF CallbackReturns
<1>3. CASE running # c  BY <1>1, <1>2, <1>3, SameIdle, ExactStutters
<1>4. CASE running = c
  <2>1. Rest = saved /\ Rest' = saved  BY <1>2 DEF Rest, InCallback
  <2>2. current \in Node /\ FiringOf(c) = current
    BY <1>2, <1>4 DEF FiringOf, RunInv, StopInv, TypeInv, TimerTypeOK
  <2>3. FiringOf(c)' = NULL  BY <1>2 DEF FiringOf, InCallback
  <2>4. Reach(Rest, next) \subseteq Node  BY DEF Reach
  <2>5. DueOf(c)' = DueOf(c)  BY <1>1, <1>2, <2>1, <2>4 DEF DueOf
  <2>6. Exact(c)!Done
    BY <1>1, <1>2, <2>2, <2>3, <2>5, ExactDone, NullAssumption
  <2>7. QED  BY <1>4, <2>6
<1>5. QED  BY <1>3, <1>4

\* A run returns at the end of the list, with nothing due before it.
LEMMA RunIsOver ==
  ASSUME RunInv, ClockInv, RunReturns, NEW c \in List
  PROVE  IF running = c THEN Exact(c)!End ELSE UNCHANGED Exact(c)!vars
<1>1. SameLeft(c)  BY SameTimers
<1>2. pc = "loop" /\ current = NULL /\ pc' = "idle" /\ running' = NULL
  BY DEF RunReturns
<1>3. running' # c  BY <1>2, TimerConstants
<1>4. CASE running # c  BY <1>1, <1>3, <1>4, SameIdle, ExactStutters
<1>5. CASE running = c
  <2>1. Rest = NULL  BY <1>2 DEF Rest, InCallback
  <2>2. DueOf(c) = {}  BY <1>5, <2>1, BehindNull DEF DueOf
  <2>3. FiringOf(c) = NULL /\ FiringOf(c)' = NULL /\ DueOf(c)' = {}
    BY <1>2, <1>3 DEF FiringOf, InCallback, DueOf
  <2>4. Exact(c)!End  BY <1>1, <1>3, <1>5, <2>2, <2>3, ExactEnd
  <2>5. QED  BY <1>5, <2>4
<1>6. QED  BY <1>4, <1>5

\* Where a run stands when it fires the timer it visits.
LEMMA OfFiring ==
  ASSUME RunInv, FireOneShot \/ FireRepeating
  PROVE  /\ running \in List /\ current \in Linked(running) /\ current \in Node
         /\ TicksUntil(running, current) <= 0
         /\ running' = running /\ InCallback' /\ current' = current
         /\ Rest = current /\ Rest' = next[current]
         /\ next[current] \in (Linked(running) \ {current}) \cup {NULL}
         /\ Reach(next[current], next) = Reach(current, next) \ {current}
         /\ DueOf(running) =
              {t \in Reach(current, next) : TicksUntil(running, t) <= 0}
         /\ current \in DueOf(running) /\ FiringOf(running) = NULL
<1>1. /\ pc = "loop" /\ Visit /\ TicksUntil(running, current) <= 0
      /\ running' = running /\ current' = current /\ saved' = next[current]
      /\ pc' \in {"one_shot", "repeating"}
  BY DEF FireOneShot, FireRepeating, Visit
<1>2. /\ running \in List /\ current \in Linked(running) /\ current \in Node
      /\ ListsInv /\ next \in Heap
  BY <1>1, RunFacts
<1>3. Rest = current /\ Rest' = next[current] /\ ~InCallback /\ InCallback'
  BY <1>1 DEF Rest, InCallback
<1>4. next[current] \in (Linked(running) \ {current}) \cup {NULL}
  BY <1>2, WalkStaysOn
<1>5. Reach(next[current], next) = Reach(current, next) \ {current}
  BY <1>2, BehindOnward
<1>6. DueOf(running) = {t \in Reach(current, next) : TicksUntil(running, t) <= 0}
  BY <1>3 DEF DueOf
<1>7. current \in Reach(current, next)  BY <1>2, BehindSplits
<1>8. QED  BY <1>1, <1>2, <1>3, <1>4, <1>5, <1>6, <1>7 DEF FiringOf

\* A one-shot timer is taken off before its callback.
LEMMA OneShotFires ==
  ASSUME RunInv, ClockInv, FireOneShot, NEW c \in List
  PROVE  IF running = c THEN \E n \in Node : Exact(c)!Fire(n)
                        ELSE UNCHANGED Exact(c)!vars
<1>1. PICK r \in List, n \in Node : r = running /\ n = current  BY OfFiring
<1>2. /\ n \in Linked(r) /\ running' = r /\ InCallback' /\ current' = n
      /\ Rest' = next[n]
      /\ next[n] \in (Linked(r) \ {n}) \cup {NULL}
      /\ Reach(next[n], next) = Reach(n, next) \ {n}
      /\ DueOf(r) = {t \in Reach(n, next) : TicksUntil(r, t) <= 0}
      /\ n \in DueOf(r) /\ FiringOf(r) = NULL
  BY <1>1, OfFiring
<1>3. Delete(r, n) /\ ~repeating[n] /\ UNCHANGED <<now, current_ticks, timerFields>>
  BY <1>1 DEF FireOneShot
<1>4. \A t \in Node : /\ TicksUntil(c, t)' = TicksUntil(c, t)
                      /\ repeating'[t] = repeating[t]
                      /\ interval_ticks'[t] = interval_ticks[t]
  BY <1>3, ClockRest DEF SameTime, timerFields
<1>5. Elapsed(c)' = Elapsed(c)  BY <1>3 DEF Elapsed
<1>6. ListsInv /\ Linked(c) \in SUBSET Node  BY RunFacts
<1>7. CASE c = r
  <2>1. Linked(c)' = Linked(c) \ {n}
    BY <1>3, <1>6, <1>7, DeleteKeeps, DeletedIsGone
  <2>2. /\ LeftOf(c)' = Exact(c)!Without(LeftOf(c), n)
        /\ PeriodOf(c)' = Exact(c)!Without(PeriodOf(c), n)
    BY <1>4, <1>6, <2>1, ShorterMap
  <2>3. Reach(next[n], next') = Reach(n, next) \ {n}
    <3>1. PICK x : x = next[n]  OBVIOUS
    <3>2. x \in (Linked(r) \ {n}) \cup {NULL}  BY <1>2, <3>1
    <3>3. Reach(x, next') = Reach(x, next) \ {n}
      BY <1>3, <1>6, <3>2, DeleteBehind
    <3>4. QED  BY <1>2, <3>1, <3>3
  <2>4. DueOf(c)' = {t \in Reach(n, next) \ {n} : TicksUntil(c, t)' <= 0}
    BY <1>2, <1>7, <2>3 DEF DueOf
  <2>5. Reach(n, next) \subseteq Node  BY DEF Reach
  <2>6. DueOf(c)' = DueOf(c) \ {n}  BY <1>2, <1>4, <1>7, <2>4, <2>5
  <2>7. FiringOf(c)' = n  BY <1>2, <1>7 DEF FiringOf
  <2>8. PeriodOf(c)[n] = -1  BY <1>2, <1>3, <1>7 DEF PeriodOf
  <2>9. Exact(c)!Fire(n)
    BY <1>1, <1>2, <1>5, <1>7, <2>2, <2>6, <2>7, <2>8, ExactFireOnce
  <2>10. QED  BY <1>1, <1>7, <2>9
<1>8. CASE c # r
  <2>1. Linked(c)' = Linked(c)  BY <1>3, <1>6, <1>8, OtherListsStay
  <2>2. SameLeft(c)  BY <1>4, <1>5, <1>6, <2>1, SameMap
  <2>3. SameRun(c)  BY <1>1, <1>2, <1>8, SameIdle
  <2>4. QED  BY <1>1, <1>8, <2>2, <2>3, ExactStutters
<1>9. QED  BY <1>7, <1>8

\* A repeating one expires again one interval after it last did.
LEMMA RepeatingFires ==
  ASSUME RunInv, ClockInv, FireRepeating, NEW c \in List
  PROVE  IF running = c THEN \E n \in Node : Exact(c)!Fire(n)
                        ELSE UNCHANGED Exact(c)!vars
<1>1. PICK r \in List, n \in Node : r = running /\ n = current  BY OfFiring
<1>2. /\ n \in Linked(r) /\ running' = r /\ InCallback' /\ current' = n
      /\ Rest' = next[n]
      /\ Reach(next[n], next) = Reach(n, next) \ {n}
      /\ DueOf(r) = {t \in Reach(n, next) : TicksUntil(r, t) <= 0}
      /\ n \in DueOf(r) /\ FiringOf(r) = NULL
  BY <1>1, OfFiring
<1>3. /\ repeating[n]
      /\ UNCHANGED <<head, next, now, current_ticks, repeating, interval_ticks>>
  BY <1>1 DEF FireRepeating, listVars
<1>4. \A t \in Node \ {n} : TicksUntil(c, t)' = TicksUntil(c, t)
  BY <1>1, RepeatEffect DEF SameTime
<1>5. TicksUntil(r, n)' = TicksUntil(r, n) + interval_ticks[n]
  BY <1>1, <1>2, RepeatEffect
<1>6. Elapsed(c)' = Elapsed(c)  BY <1>3 DEF Elapsed
<1>7. /\ Linked(c)' = Linked(c) /\ Linked(c) \in SUBSET Node
  BY <1>3, RunFacts DEF Linked
<1>8. CASE c = r
  <2>1. interval_ticks[n] \in 0 .. Half - 1 /\ Half \in Nat
    BY <1>2, HalfFacts DEF ClockInv, Fits
  <2>2. PeriodOf(c)[n] = interval_ticks[n] /\ LeftOf(c)[n] = TicksUntil(c, n)
        /\ DOMAIN LeftOf(c) = Linked(c)
    BY <1>2, <1>3, <1>8 DEF PeriodOf, LeftOf
  <2>3. LeftOf(c)' = [LeftOf(c) EXCEPT ![n] = @ + PeriodOf(c)[n]]
    <3>1. LeftOf(c)' = [t \in Linked(c) |-> TicksUntil(c, t)']  BY <1>7 DEF LeftOf
    <3>2. LeftOf(c)' = [t \in Linked(c) |->
                          IF t = n THEN LeftOf(c)[n] + PeriodOf(c)[n]
                                   ELSE LeftOf(c)[t]]
      BY <1>4, <1>5, <1>7, <1>8, <2>2, <3>1 DEF LeftOf
    <3>3. QED  BY <2>2, <3>2
  <2>4. PeriodOf(c)' = PeriodOf(c)  BY <1>3, <1>7 DEF PeriodOf
  <2>5. DueOf(c)' = {t \in Reach(n, next) \ {n} : TicksUntil(c, t)' <= 0}
    BY <1>2, <1>3, <1>8 DEF DueOf
  <2>6. Reach(n, next) \subseteq Node  BY DEF Reach
  <2>7. DueOf(c)' = DueOf(c) \ {n}  BY <1>2, <1>4, <1>8, <2>5, <2>6
  <2>8. FiringOf(c)' = n  BY <1>2, <1>8 DEF FiringOf
  <2>9. PeriodOf(c)[n] # -1  BY <2>1, <2>2
  <2>10. Exact(c)!Fire(n)
    BY <1>1, <1>2, <1>6, <1>8, <2>3, <2>4, <2>7, <2>8, <2>9, ExactFireAgain
  <2>11. QED  BY <1>1, <1>8, <2>10
<1>9. CASE c # r
  <2>1. \A t \in Linked(c) : TicksUntil(c, t)' = TicksUntil(c, t)
    <3>1. r \in List \ {c} /\ ListsDisjoint
      BY <1>9, RunFacts, InvProperties
    <3>2. n \notin Linked(c)  BY <1>2, <3>1 DEF ListsDisjoint
    <3>3. QED  BY <1>4, <1>7, <3>2
  <2>2. SameLeft(c)  BY <1>3, <1>6, <1>7, <2>1, SameMap
  <2>3. SameRun(c)  BY <1>1, <1>2, <1>9, SameIdle
  <2>4. QED  BY <1>1, <1>9, <2>2, <2>3, ExactStutters
<1>10. QED  BY <1>8, <1>9

LEMMA NothingHappens ==
  ASSUME UNCHANGED timerVars, NEW c
  PROVE  UNCHANGED Exact(c)!vars
<1>1. UNCHANGED <<head, next, now, current_ticks, timerFields, runVars>>
  BY DEF timerVars, listVars
<1>2. LeftOf(c)' = LeftOf(c) /\ PeriodOf(c)' = PeriodOf(c) /\ Elapsed(c)' = Elapsed(c)
  BY <1>1 DEF LeftOf, PeriodOf, Elapsed, Linked, TicksUntil, Signed, timerFields
<1>3. DueOf(c)' = DueOf(c) /\ FiringOf(c)' = FiringOf(c) /\ (running = c)' = (running = c)
  BY <1>1 DEF DueOf, FiringOf, Rest, InCallback, TicksUntil, Signed, timerFields, runVars
<1>4. QED  BY <1>2, <1>3, ExactStutters DEF SameLeft, SameRun

\* Every step of the controllers is, for each of them, a step of exact timers
\* or none.
LEMMA ExactStep ==
  ASSUME ~CallbacksStopNext, IntervalsFit, RunInv, ClockInv, RunInv',
         [TimerNext]_timerVars, NEW c \in List
  PROVE  [Exact(c)!Next]_(Exact(c)!vars)
<1>1. CASE Tick  BY <1>1, ClockTicks DEF Exact!Next
<1>2. CASE VisitPending  BY <1>2, PendingIsPassed
<1>3. CASE FireRepeating \/ FireOneShot
  <2>1. running = c => \E n \in Node : Exact(c)!Fire(n)
    BY <1>3, RepeatingFires, OneShotFires
  <2>2. running # c => UNCHANGED Exact(c)!vars
    BY <1>3, RepeatingFires, OneShotFires
  <2>3. QED  BY <2>1, <2>2 DEF Exact!Next
<1>4. CASE CallbackReturns  BY <1>4, CallbackIsDone DEF Exact!Next
<1>5. CASE RunReturns  BY <1>5, RunIsOver DEF Exact!Next
<1>6. ASSUME NEW l \in List, RunBegin(l)  PROVE [Exact(c)!Next]_(Exact(c)!vars)
  BY <1>6, RunBegins DEF Exact!Next
<1>7. ASSUME NEW l \in List, NEW u \in Node, StartOneShot(l, u)
      PROVE  [Exact(c)!Next]_(Exact(c)!vars)
  <2>1. PICK ticks \in OneShotIntervals : TimerStart(l, u, ticks, FALSE)
    BY <1>7 DEF StartOneShot
  <2>2. c = l => Exact(c)!Start(u, ticks, -1)  BY <2>1, TimerStarts
  <2>3. c # l => UNCHANGED Exact(c)!vars  BY <2>1, TimerStarts
  <2>4. QED  BY <2>2, <2>3 DEF Exact!Next, Exact!Once
<1>8. ASSUME NEW l \in List, NEW u \in Node, StartRepeating(l, u)
      PROVE  [Exact(c)!Next]_(Exact(c)!vars)
  <2>1. PICK ticks \in RepeatIntervals : TimerStart(l, u, ticks, TRUE)
    BY <1>8 DEF StartRepeating
  <2>2. c = l => Exact(c)!Start(u, ticks, ticks)  BY <2>1, TimerStarts
  <2>3. c # l => UNCHANGED Exact(c)!vars  BY <2>1, TimerStarts
  <2>4. QED  BY <2>2, <2>3 DEF Exact!Next
<1>9. ASSUME NEW u \in Node, TimerStop(u)  PROVE [Exact(c)!Next]_(Exact(c)!vars)
  BY <1>9, TimerStops DEF Exact!Next
<1>10. CASE UNCHANGED timerVars  BY <1>10, NothingHappens
<1>11. QED
  BY <1>1, <1>2, <1>3, <1>4, <1>5, <1>6, <1>7, <1>8, <1>9, <1>10
  DEF TimerNext, RunGoesOn

LEMMA ExactInit ==
  ASSUME TimerInit, NEW c \in List
  PROVE  Exact(c)!Init
<1>1. ListsInv /\ Contents = [l \in List |-> <<>>]
  BY ListsStart DEF TimerInit
<1>2. Linked(c) = {}  BY <1>1, ContentsFacts DEF Range
<1>3. now \in Ticks /\ current_ticks[c] = now /\ running = NULL  BY DEF TimerInit
<1>4. running # c  BY <1>3, TimerConstants
<1>5. Elapsed(c) = 0
  <2>1. (now - now) % TickMod = ModDiff(now, now)  BY <1>3, ModFacts
  <2>2. ModDiff(now, now) = 0  BY <1>3 DEF ModDiff, Ticks
  <2>3. QED  BY <1>3, <2>1, <2>2 DEF Elapsed
<1>6. QED  BY <1>2, <1>4, <1>5 DEF Exact!Init, Elapsed

\* Across wrapping ticks, and with timers started and stopped from callbacks
\* while the list is walked, every controller is one of exact timers, in
\* programs whose intervals are from 0 to below half the range of ticks.  A run
\* fires what was due when it began, once, unless it is stopped first.  Besides
\* these it fires only what is started by its callbacks with no ticks to wait,
\* and that once for every start, as long as it has anything else left to fire.
\* No repeating timer drifts.
THEOREM TimersAreExact ==
  ASSUME ~CallbacksStopNext, IntervalsFit
  PROVE  TimerSpec => ImplementsExactTimers
<1>1. TimerInit => \A c \in List : Exact(c)!Init  BY ExactInit
<1>2. RunInv /\ ClockInv /\ (RunInv /\ ClockInv)' /\ [TimerNext]_timerVars
        => [\A c \in List : [Exact(c)!Next]_(Exact(c)!vars)]_timerVars
  BY ExactStep
<1>3. QED
  BY <1>1, <1>2, ClockInvariant, PTL DEF TimerSpec, ImplementsExactTimers
=============================================================================

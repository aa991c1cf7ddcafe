---------------------------- MODULE TimerHistory ---------------------------
(***************************************************************************)
(* The timers of Timer.tla with history variables, to compare what a run   *)
(* does with what the callers of timer_start asked for, and when.          *)
(***************************************************************************)
EXTENDS Timer

VARIABLES
  asked,   \* asked[t]: what is left of the interval given to
           \* timer_start_one_shot for t, as time passes from that call on
  fresh    \* the timers started since the run under way began

historyVars == <<timerVars, asked, fresh>>

CountDown(ticks) == IF ticks = 0 THEN 0 ELSE ticks - 1

HistoryInit == TimerInit /\ asked = [t \in Node |-> 0] /\ fresh = {}

HistoryNext ==
  /\ TimerNext
  /\ asked' = [t \in Node |->
                 CASE Unlinked(t)' \/ repeating'[t] -> 0
                   [] Unlinked(t) -> interval_ticks'[t]
                   [] OTHER ->
                        IF now' # now THEN CountDown(asked[t]) ELSE asked[t]]
  /\ fresh' = IF pc' = "idle" THEN {}
              ELSE fresh \cup {t \in Node : Unlinked(t) /\ ~Unlinked(t)'}

\* The main loop calls timer_controller_run for every controller again and
\* again, though one waits while another runs, callbacks return, and the time
\* source advances.
HistorySpec ==
  /\ HistoryInit /\ [][HistoryNext]_historyVars
  /\ WF_timerVars(Tick) /\ WF_timerVars(RunGoesOn)
  /\ \A c \in List : SF_timerVars(RunBegin(c))

-----------------------------------------------------------------------------
\* A one-shot timer never fires early by more than the age of
\* controller->current_ticks when it was started, from which timer_start counts
\* the interval: by no more than the longest gap between two runs.
EarlyByAtMostTheLag ==
  [][\A t \in Node : FireOneShot /\ current = t => asked[t] <= MaxLag[running]]_historyVars

\* What timer_controller_run returns takes every active timer into account but
\* those started since it began, behind the end of its walk, and the repeating
\* ones still overdue.  A caller that sleeps that long misses no other timer.
RunCountsThePending ==
  (pc = "loop" /\ current = NULL) =>
     \A t \in Linked(running) \ fresh :
        TicksUntil(running, t) > 0 => min_ticks_to_next <= TicksUntil(running, t)
=============================================================================

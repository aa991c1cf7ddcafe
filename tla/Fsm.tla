-------------------------------- MODULE Fsm --------------------------------
(***************************************************************************)
(* src/core/state_machine/fsm.[ch]: a state is a function that is called   *)
(* with a signal, and may itself signal the machine or make a transition   *)
(* before it returns.  fsm_transition is therefore not atomic: it calls    *)
(* the old state, assigns current_state, and calls the new state, and      *)
(* either call may start another signal or transition.                     *)
(***************************************************************************)
EXTENDS Integers, Sequences

CONSTANTS
  State,            \* the state functions
  NULL,             \* no state
  MaxDepth,         \* how deep the calls of state functions nest
  ExitTransitions   \* whether a transition is made while a state is
                    \* being sent EXIT

ASSUME FsmConstants ==
  NULL \notin State /\ MaxDepth \in Nat \ {0} /\ ExitTransitions \in BOOLEAN

VARIABLES
  current_state,   \* fsm->current_state
  calls,           \* the calls of state functions under way, innermost last;
                   \* target: where the transition that sends EXIT leads to
  entered          \* (history) the states sent ENTER and not yet sent EXIT

fsmVars == <<current_state, calls, entered>>

Call(state, signal, target) ==
  [state |-> state, signal |-> signal, target |-> target]

Top == calls[Len(calls)]
Exiting == \E i \in DOMAIN calls : calls[i].signal = "EXIT"
MaySignal == calls = <<>> \/ Len(calls) < MaxDepth

\* fsm_init has just called the initial state.
FsmInit ==
  /\ current_state \in State
  /\ calls = <<Call(current_state, "ENTER", NULL)>>
  /\ entered = {current_state}

\* fsm_signal with a signal of the program's own.
FsmSignal ==
  /\ MaySignal
  /\ calls' = Append(calls, Call(current_state, "USER", NULL))
  /\ UNCHANGED <<current_state, entered>>

\* fsm_transition up to the call of the old state.
FsmTransition(target) ==
  /\ MaySignal
  /\ Exiting => ExitTransitions
  /\ calls' = Append(calls, Call(current_state, "EXIT", target))
  /\ entered' = entered \ {current_state}
  /\ UNCHANGED current_state

\* Seeded fault: the state is assigned after the new state has been called.
ExitReturnsAssignsLate ==
  /\ calls # <<>> /\ Top.signal = "EXIT"
  /\ calls' = [calls EXCEPT ![Len(calls)] = Call(current_state, "ENTER", NULL)]
  /\ current_state' = Top.target
  /\ entered' = entered \cup {current_state}

\* The old state returns to fsm_transition, which calls the new one.
ExitReturns ==
  /\ calls # <<>> /\ Top.signal = "EXIT"
  /\ calls' = [calls EXCEPT ![Len(calls)] = Call(Top.target, "ENTER", NULL)]
  /\ current_state' = Top.target
  /\ entered' = entered \cup {Top.target}

\* Seeded fault: every call assigns the target, as that of EXIT does.
CallReturnsAssigns ==
  /\ calls # <<>> /\ Top.signal # "EXIT"
  /\ calls' = SubSeq(calls, 1, Len(calls) - 1)
  /\ current_state' = Top.target
  /\ UNCHANGED entered

\* Any other call returns to the code it was made from.
CallReturns ==
  /\ calls # <<>> /\ Top.signal # "EXIT"
  /\ calls' = SubSeq(calls, 1, Len(calls) - 1)
  /\ UNCHANGED <<current_state, entered>>

FsmNext ==
  \/ FsmSignal
  \/ \E target \in State : FsmTransition(target)
  \/ ExitReturns
  \/ CallReturns

FsmSpec == FsmInit /\ [][FsmNext]_fsmVars

-----------------------------------------------------------------------------
FsmTypeOK ==
  /\ current_state \in State
  /\ calls \in Seq([state : State, signal : {"ENTER", "EXIT", "USER"},
                    target : State \cup {NULL}])
  /\ Len(calls) <= MaxDepth
  /\ entered \subseteq State

\* ENTER and EXIT come in pairs.  Except while a transition is calling the old
\* state, exactly the current state has been entered and not exited.
EnterExitPaired ==
  entered = IF Exiting THEN {} ELSE {current_state}
=============================================================================

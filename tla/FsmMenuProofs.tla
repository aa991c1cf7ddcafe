--------------------------- MODULE FsmMenuProofs ---------------------------
(***************************************************************************)
(* Proofs about the two small controllers. The state machine: its types,   *)
(* and, for programs that make no transition while a state handles EXIT,   *)
(* that every state entered is exited and no other. The menu cursor: WRAP  *)
(* in C's arithmetic walks the circle of entries.                          *)
(***************************************************************************)
EXTENDS Fsm, MenuIter, TLAPS

CallRecord == [state : State, signal : {"ENTER", "EXIT", "USER"},
               target : State \cup {NULL}]

\* Where a transition leads to is a state.
TargetsKnown ==
  \A i \in DOMAIN calls : calls[i].signal = "EXIT" => calls[i].target \in State

TypeInv == FsmTypeOK /\ TargetsKnown

-----------------------------------------------------------------------------
\* A call pushed onto the stack, the top one replaced, the top one popped.
LEMMA PushCall ==
  ASSUME TypeInv, NEW c \in CallRecord, Len(calls) < MaxDepth,
         calls' = Append(calls, c)
  PROVE  /\ calls' \in Seq(CallRecord) /\ Len(calls') <= MaxDepth
         /\ Len(calls') = Len(calls) + 1 /\ calls'[Len(calls) + 1] = c
         /\ \A i \in 1 .. Len(calls) : calls'[i] = calls[i]
<1>1. calls \in Seq(CallRecord) /\ MaxDepth \in Nat
  BY FsmConstants DEF TypeInv, FsmTypeOK, CallRecord
<1>2. QED  BY <1>1

LEMMA ReplaceCall ==
  ASSUME TypeInv, NEW c \in CallRecord, calls # <<>>,
         calls' = [calls EXCEPT ![Len(calls)] = c]
  PROVE  /\ calls' \in Seq(CallRecord) /\ Len(calls') <= MaxDepth
         /\ Len(calls') = Len(calls) /\ calls'[Len(calls)] = c
         /\ \A i \in 1 .. Len(calls) - 1 : calls'[i] = calls[i]
<1>1. calls \in Seq(CallRecord) /\ Len(calls) <= MaxDepth
  BY DEF TypeInv, FsmTypeOK, CallRecord
<1>2. Len(calls) \in 1 .. Len(calls)  BY <1>1
<1>3. QED  BY <1>1, <1>2

LEMMA PopCall ==
  ASSUME TypeInv, calls # <<>>, calls' = SubSeq(calls, 1, Len(calls) - 1)
  PROVE  /\ calls' \in Seq(CallRecord) /\ Len(calls') <= MaxDepth
         /\ Len(calls') = Len(calls) - 1
         /\ \A i \in 1 .. Len(calls) - 1 : calls'[i] = calls[i]
<1>1. /\ calls \in Seq(CallRecord) /\ Len(calls) <= MaxDepth
      /\ MaxDepth \in Nat
  BY FsmConstants DEF TypeInv, FsmTypeOK, CallRecord
<1>2. Len(calls) \in Nat \ {0}  BY <1>1
<1>3. PICK n : n = Len(calls) - 1  OBVIOUS
<1>4. n \in Nat /\ n <= Len(calls)  BY <1>2, <1>3
<1>5. \A i \in 1 .. n : calls[i] \in CallRecord  BY <1>1, <1>4
<1>6. calls' \in Seq(CallRecord) /\ Len(calls') = n
  BY <1>1, <1>3, <1>4, <1>5
<1>7. \A i \in 1 .. n : calls'[i] = calls[i]  BY <1>1, <1>3, <1>4
<1>8. QED  BY <1>1, <1>2, <1>3, <1>6, <1>7

LEMMA DepthLeft == ASSUME TypeInv, MaySignal PROVE Len(calls) < MaxDepth
<1>1. MaxDepth \in Nat \ {0}  BY FsmConstants
<1>2. CASE calls = <<>>  BY <1>1, <1>2
<1>3. QED  BY <1>2 DEF MaySignal

LEMMA TopOfStack ==
  ASSUME TypeInv, calls # <<>>
  PROVE  /\ Len(calls) \in 1 .. Len(calls) /\ Top \in CallRecord
         /\ Top = calls[Len(calls)]
<1>1. calls \in Seq(CallRecord)  BY DEF TypeInv, FsmTypeOK, CallRecord
<1>2. Len(calls) \in 1 .. Len(calls)  BY <1>1
<1>3. QED  BY <1>1, <1>2 DEF Top

-----------------------------------------------------------------------------
LEMMA TypeStart == FsmInit => TypeInv
<1>1. SUFFICES ASSUME FsmInit PROVE TypeInv  OBVIOUS
<1>2. PICK c : c = Call(current_state, "ENTER", NULL)  OBVIOUS
<1>3. c \in CallRecord /\ c.signal = "ENTER"
  BY <1>1, <1>2 DEF FsmInit, Call, CallRecord
<1>4. calls = <<c>>  BY <1>1, <1>2 DEF FsmInit
<1>5. calls \in Seq(CallRecord) /\ Len(calls) = 1  BY <1>3, <1>4
<1>6. TargetsKnown  BY <1>3, <1>4 DEF TargetsKnown
<1>7. Len(calls) <= MaxDepth  BY <1>5, FsmConstants
<1>8. QED
  BY <1>1, <1>5, <1>6, <1>7 DEF FsmInit, TypeInv, FsmTypeOK, CallRecord

LEMMA TypeStep == TypeInv /\ [FsmNext]_fsmVars => TypeInv'
<1>1. SUFFICES ASSUME TypeInv, [FsmNext]_fsmVars PROVE TypeInv'  OBVIOUS
<1>2. current_state \in State /\ entered \subseteq State
  BY <1>1 DEF TypeInv, FsmTypeOK
<1>3. CASE FsmSignal
  <2>1. PICK c : c = Call(current_state, "USER", NULL)  OBVIOUS
  <2>2. c \in CallRecord /\ c.signal = "USER"
    BY <1>2, <2>1 DEF Call, CallRecord
  <2>3. calls' = Append(calls, c) /\ Len(calls) < MaxDepth
    BY <1>1, <1>3, <2>1, DepthLeft DEF FsmSignal
  <2>4. calls' \in Seq(CallRecord) /\ Len(calls') <= MaxDepth
    BY <1>1, <2>2, <2>3, PushCall
  <2>5. TargetsKnown'
    BY <1>1, <2>2, <2>3, PushCall DEF TargetsKnown, TypeInv
  <2>6. QED
    BY <1>2, <1>3, <2>4, <2>5 DEF FsmSignal, TypeInv, FsmTypeOK, CallRecord
<1>4. ASSUME NEW target \in State, FsmTransition(target) PROVE TypeInv'
  <2>1. PICK c : c = Call(current_state, "EXIT", target)  OBVIOUS
  <2>2. c \in CallRecord /\ c.target \in State
    BY <1>2, <2>1 DEF Call, CallRecord
  <2>3. calls' = Append(calls, c) /\ Len(calls) < MaxDepth
    BY <1>1, <1>4, <2>1, DepthLeft DEF FsmTransition
  <2>4. calls' \in Seq(CallRecord) /\ Len(calls') <= MaxDepth
    BY <1>1, <2>2, <2>3, PushCall
  <2>5. TargetsKnown'
    BY <1>1, <2>2, <2>3, PushCall DEF TargetsKnown, TypeInv
  <2>6. QED
    BY <1>2, <1>4, <2>4, <2>5
       DEF FsmTransition, TypeInv, FsmTypeOK, CallRecord
<1>5. CASE ExitReturns
  <2>1. calls # <<>> /\ Top.signal = "EXIT"  BY <1>5 DEF ExitReturns
  <2>2. Top.target \in State
    BY <1>1, <2>1, TopOfStack DEF TypeInv, TargetsKnown
  <2>3. PICK c : c = Call(Top.target, "ENTER", NULL)  OBVIOUS
  <2>4. c \in CallRecord /\ c.signal = "ENTER"
    BY <2>2, <2>3 DEF Call, CallRecord
  <2>5. calls' = [calls EXCEPT ![Len(calls)] = c]
    BY <1>5, <2>3 DEF ExitReturns
  <2>6. calls' \in Seq(CallRecord) /\ Len(calls') <= MaxDepth
    BY <1>1, <2>1, <2>4, <2>5, ReplaceCall
  <2>7. TargetsKnown'
    BY <1>1, <2>1, <2>4, <2>5, ReplaceCall DEF TargetsKnown, TypeInv
  <2>8. QED
    BY <1>2, <1>5, <2>2, <2>6, <2>7
       DEF ExitReturns, TypeInv, FsmTypeOK, CallRecord
<1>6. CASE CallReturns
  <2>1. calls # <<>> /\ calls' = SubSeq(calls, 1, Len(calls) - 1)
    BY <1>6 DEF CallReturns
  <2>2. calls' \in Seq(CallRecord) /\ Len(calls') <= MaxDepth
    BY <1>1, <2>1, PopCall
  <2>3. TargetsKnown'  BY <1>1, <2>1, PopCall DEF TargetsKnown, TypeInv
  <2>4. QED
    BY <1>2, <1>6, <2>2, <2>3 DEF CallReturns, TypeInv, FsmTypeOK, CallRecord
<1>7. CASE UNCHANGED fsmVars
  BY <1>1, <1>7 DEF fsmVars, TypeInv, FsmTypeOK, TargetsKnown
<1>8. QED  BY <1>1, <1>3, <1>4, <1>5, <1>6, <1>7 DEF FsmNext

LEMMA TypeInvariant == FsmSpec => []TypeInv
<1>1. QED  BY TypeStart, TypeStep, PTL DEF FsmSpec

\* The current state and the states called are states, and calls nest as deep
\* as MaxDepth says, with or without transitions on EXIT.
THEOREM FsmTypeCorrect == FsmSpec => []FsmTypeOK
<1>1. TypeInv => FsmTypeOK  BY DEF TypeInv
<1>2. QED  BY <1>1, TypeInvariant, PTL

-----------------------------------------------------------------------------
\* At most one transition is calling its old state: another one would have to
\* be made while that state handles EXIT.
OneExit ==
  \A i, j \in DOMAIN calls :
    calls[i].signal = "EXIT" /\ calls[j].signal = "EXIT" => i = j

PairInv == TypeInv /\ OneExit /\ EnterExitPaired

LEMMA PairStart == FsmInit => PairInv
<1>1. SUFFICES ASSUME FsmInit PROVE PairInv  OBVIOUS
<1>2. PICK c : c = Call(current_state, "ENTER", NULL)  OBVIOUS
<1>3. calls = <<c>> /\ c.signal = "ENTER" /\ entered = {current_state}
  BY <1>1, <1>2 DEF FsmInit, Call
<1>4. ~Exiting  BY <1>3 DEF Exiting
<1>5. OneExit  BY <1>3 DEF OneExit
<1>6. QED  BY <1>1, <1>3, <1>4, <1>5, TypeStart DEF PairInv, EnterExitPaired

\* A stack that grows by a call with another signal, or shrinks by one, has
\* the EXIT calls it had.
LEMMA SameExits ==
  ASSUME TypeInv, OneExit,
         \/ \E c \in CallRecord : /\ c.signal # "EXIT" /\ Len(calls) < MaxDepth
                                  /\ calls' = Append(calls, c)
         \/ /\ calls # <<>> /\ Top.signal # "EXIT"
            /\ calls' = SubSeq(calls, 1, Len(calls) - 1)
  PROVE  OneExit' /\ (Exiting' <=> Exiting)
<1>1. calls \in Seq(CallRecord)  BY DEF TypeInv, FsmTypeOK, CallRecord
<1>2. ASSUME NEW c \in CallRecord, c.signal # "EXIT", Len(calls) < MaxDepth,
             calls' = Append(calls, c)
      PROVE  OneExit' /\ (Exiting' <=> Exiting)
  <2>1. /\ calls' \in Seq(CallRecord) /\ Len(calls') = Len(calls) + 1
        /\ calls'[Len(calls) + 1] = c
        /\ \A i \in 1 .. Len(calls) : calls'[i] = calls[i]
    BY <1>2, PushCall
  <2>2. OneExit'  BY <1>1, <1>2, <2>1 DEF OneExit
  <2>3. Exiting => Exiting'  BY <1>1, <2>1 DEF Exiting
  <2>4. Exiting' => Exiting  BY <1>1, <1>2, <2>1 DEF Exiting
  <2>5. QED  BY <2>2, <2>3, <2>4
<1>3. ASSUME calls # <<>>, Top.signal # "EXIT",
             calls' = SubSeq(calls, 1, Len(calls) - 1)
      PROVE  OneExit' /\ (Exiting' <=> Exiting)
  <2>1. /\ calls' \in Seq(CallRecord) /\ Len(calls') = Len(calls) - 1
        /\ \A i \in 1 .. Len(calls) - 1 : calls'[i] = calls[i]
    BY <1>3, PopCall
  <2>2. Len(calls) \in 1 .. Len(calls) /\ calls[Len(calls)].signal # "EXIT"
    BY <1>3, TopOfStack
  <2>3. OneExit'
    <3>1. \A i \in DOMAIN calls' : i \in DOMAIN calls /\ calls'[i] = calls[i]
      BY <1>1, <2>1, <2>2
    <3>2. QED  BY <3>1 DEF OneExit
  <2>4. Exiting => Exiting'  BY <1>1, <2>1, <2>2 DEF Exiting
  <2>5. Exiting' => Exiting  BY <1>1, <2>1 DEF Exiting
  <2>6. QED  BY <2>3, <2>4, <2>5
<1>4. QED  BY <1>2, <1>3

LEMMA PairStep ==
  ASSUME ~ExitTransitions
  PROVE  PairInv /\ [FsmNext]_fsmVars => PairInv'
<1>1. SUFFICES ASSUME PairInv, [FsmNext]_fsmVars PROVE PairInv'  OBVIOUS
<1>2. TypeInv /\ TypeInv' /\ OneExit /\ EnterExitPaired
  BY <1>1, TypeStep DEF PairInv
<1>3. calls \in Seq(CallRecord) /\ current_state \in State
  BY <1>2 DEF TypeInv, FsmTypeOK, CallRecord
<1>4. CASE FsmSignal
  <2>1. PICK c : c = Call(current_state, "USER", NULL)  OBVIOUS
  <2>2. c \in CallRecord /\ c.signal # "EXIT"
    BY <1>3, <2>1 DEF Call, CallRecord
  <2>3. calls' = Append(calls, c) /\ Len(calls) < MaxDepth
    BY <1>2, <1>4, <2>1, DepthLeft DEF FsmSignal
  <2>4. OneExit' /\ (Exiting' <=> Exiting)  BY <1>2, <2>2, <2>3, SameExits
  <2>5. QED  BY <1>2, <1>4, <2>4 DEF FsmSignal, PairInv, EnterExitPaired
<1>5. ASSUME NEW target \in State, FsmTransition(target) PROVE PairInv'
  <2>1. PICK c : c = Call(current_state, "EXIT", target)  OBVIOUS
  <2>2. c \in CallRecord /\ c.signal = "EXIT"
    BY <1>3, <2>1 DEF Call, CallRecord
  <2>3. calls' = Append(calls, c) /\ Len(calls) < MaxDepth
    BY <1>2, <1>5, <2>1, DepthLeft DEF FsmTransition
  <2>4. /\ calls' \in Seq(CallRecord) /\ Len(calls') = Len(calls) + 1
        /\ calls'[Len(calls) + 1] = c
        /\ \A i \in 1 .. Len(calls) : calls'[i] = calls[i]
    BY <1>2, <2>2, <2>3, PushCall
  <2>5. ~Exiting  BY <1>5 DEF FsmTransition
  <2>6. OneExit'  BY <1>3, <2>4, <2>5 DEF OneExit, Exiting
  <2>7. Exiting'  BY <1>3, <2>2, <2>4 DEF Exiting
  <2>8. entered' = {}
    BY <1>2, <1>5, <2>5 DEF FsmTransition, EnterExitPaired
  <2>9. QED  BY <1>2, <2>6, <2>7, <2>8 DEF PairInv, EnterExitPaired
<1>6. CASE ExitReturns
  <2>1. calls # <<>> /\ Top.signal = "EXIT"  BY <1>6 DEF ExitReturns
  <2>2. /\ Len(calls) \in 1 .. Len(calls) /\ Top = calls[Len(calls)]
        /\ Top.target \in State
    BY <1>2, <2>1, TopOfStack DEF TypeInv, TargetsKnown
  <2>3. Exiting /\ entered = {}
    BY <1>2, <1>3, <2>1, <2>2 DEF Exiting, EnterExitPaired
  <2>4. PICK c : c = Call(Top.target, "ENTER", NULL)  OBVIOUS
  <2>5. c \in CallRecord /\ c.signal = "ENTER"
    BY <2>2, <2>4 DEF Call, CallRecord
  <2>6. calls' = [calls EXCEPT ![Len(calls)] = c]
    BY <1>6, <2>4 DEF ExitReturns
  <2>7. /\ calls' \in Seq(CallRecord) /\ Len(calls') = Len(calls)
        /\ calls'[Len(calls)] = c
        /\ \A i \in 1 .. Len(calls) - 1 : calls'[i] = calls[i]
    BY <1>2, <2>1, <2>5, <2>6, ReplaceCall
  <2>8. \A i \in 1 .. Len(calls) - 1 : calls[i].signal # "EXIT"
    BY <1>2, <1>3, <2>1, <2>2 DEF OneExit
  <2>9. \A i \in 1 .. Len(calls) : calls'[i].signal # "EXIT"
    BY <1>3, <2>5, <2>7, <2>8
  <2>10. OneExit' /\ ~Exiting'  BY <2>7, <2>9 DEF OneExit, Exiting
  <2>11. entered' = {current_state'}  BY <1>6, <2>3 DEF ExitReturns
  <2>12. QED  BY <1>2, <2>10, <2>11 DEF PairInv, EnterExitPaired
<1>7. CASE CallReturns
  <2>1. /\ calls # <<>> /\ Top.signal # "EXIT"
        /\ calls' = SubSeq(calls, 1, Len(calls) - 1)
    BY <1>7 DEF CallReturns
  <2>2. OneExit' /\ (Exiting' <=> Exiting)  BY <1>2, <2>1, SameExits
  <2>3. QED  BY <1>2, <1>7, <2>2 DEF CallReturns, PairInv, EnterExitPaired
<1>8. CASE UNCHANGED fsmVars
  BY <1>2, <1>8 DEF fsmVars, PairInv, OneExit, EnterExitPaired, Exiting
<1>9. QED  BY <1>1, <1>4, <1>5, <1>6, <1>7, <1>8 DEF FsmNext

LEMMA PairInvariant ==
  ASSUME ~ExitTransitions PROVE FsmSpec => []PairInv
<1>1. PairInv /\ [FsmNext]_fsmVars => PairInv'  BY PairStep
<1>2. QED  BY <1>1, PairStart, PTL DEF FsmSpec

\* While no transition is made on EXIT, exactly the current state has been
\* entered and not exited, except while a transition calls the old state.
THEOREM EnterExitStayPaired ==
  ASSUME ~ExitTransitions PROVE FsmSpec => []EnterExitPaired
<1>1. PairInv => EnterExitPaired  BY DEF PairInv
<1>2. QED  BY <1>1, PairInvariant, PTL

-----------------------------------------------------------------------------
\* Division by n leaves a remainder, and only one.
LEMMA Divided ==
  ASSUME NEW n \in Nat \ {0}, NEW a \in Int
  PROVE  a % n \in 0 .. n - 1 /\ \E q \in Int : a = q * n + (a % n)
<1>1. a = n * (a \div n) + (a % n)  OBVIOUS
<1>2. a \div n \in Int /\ a % n \in 0 .. n - 1  OBVIOUS
<1>3. PICK q \in Int : q = a \div n  BY <1>2
<1>4. a = q * n + (a % n)  BY <1>1, <1>2, <1>3
<1>5. QED  BY <1>2, <1>4

LEMMA OneRemainder ==
  ASSUME NEW n \in Nat \ {0}, NEW p \in Int, NEW q \in Int,
         NEW r \in 0 .. n - 1, NEW s \in 0 .. n - 1, p * n + r = q * n + s
  PROVE  r = s
<1>1. PICK d \in Int : d = p - q  OBVIOUS
<1>2. d * n = s - r  BY <1>1
<1>3. CASE d >= 1
  <2>1. d * n >= n  BY <1>3
  <2>2. QED  BY <1>2, <2>1
<1>4. CASE d <= -1
  <2>1. d * n <= -n  BY <1>4
  <2>2. QED  BY <1>2, <2>1
<1>5. CASE d = 0  BY <1>2, <1>5
<1>6. QED  BY <1>3, <1>4, <1>5

\* Numbers a multiple of n apart leave the same remainder.
LEMMA MultipleApart ==
  ASSUME NEW n \in Nat \ {0}, NEW a \in Int, NEW b \in Int, NEW k \in Int,
         a = b + (k * n)
  PROVE  a % n = b % n
<1>1. PICK p \in Int : a = p * n + (a % n)  BY Divided
<1>2. PICK q \in Int : b = q * n + (b % n)  BY Divided
<1>3. PICK r \in 0 .. n - 1 : r = a % n  BY Divided
<1>4. PICK s \in 0 .. n - 1 : s = b % n  BY Divided
<1>5. PICK m \in Int : m = q + k  OBVIOUS
<1>6. m * n = q * n + k * n  BY <1>5
<1>7. p * n \in Int /\ q * n \in Int /\ m * n \in Int /\ k * n \in Int
  OBVIOUS
<1>8. a = p * n + r /\ b = q * n + s  BY <1>1, <1>2, <1>3, <1>4
<1>9. p * n + r = m * n + s  BY <1>6, <1>7, <1>8
<1>10. r = s  BY <1>9, OneRemainder
<1>11. QED  BY <1>3, <1>4, <1>10

\* C's remainder differs from the number by a multiple of n too, and is never
\* further from zero than n - 1.
LEMMA RemainderOfC ==
  ASSUME NEW n \in Nat \ {0}, NEW a \in Int
  PROVE  /\ Remainder(a, n) \in -(n - 1) .. n - 1
         /\ \E k \in Int : Remainder(a, n) = a + (k * n)
<1>1. CASE a < 0
  <2>1. PICK m \in Int : m = -a  OBVIOUS
  <2>2. PICK q \in Int : m = q * n + (m % n)  BY Divided
  <2>3. m % n \in 0 .. n - 1  BY Divided
  <2>4. Remainder(a, n) = -(m % n)  BY <1>1, <2>1 DEF Remainder
  <2>5. PICK r \in 0 .. n - 1 : r = m % n  BY <2>3
  <2>6. q * n \in Int /\ m = q * n + r  BY <2>2, <2>5
  <2>7. Remainder(a, n) = a + (q * n)  BY <2>1, <2>4, <2>5, <2>6
  <2>8. Remainder(a, n) \in -(n - 1) .. n - 1  BY <2>4, <2>5
  <2>9. QED  BY <2>7, <2>8
<1>2. CASE ~(a < 0)
  <2>1. PICK q \in Int : a = q * n + (a % n)  BY Divided
  <2>2. PICK r \in 0 .. n - 1 : r = a % n  BY Divided
  <2>3. Remainder(a, n) = r  BY <1>2, <2>2 DEF Remainder
  <2>4. PICK k \in Int : k = -q  OBVIOUS
  <2>5. q * n \in Int /\ a = q * n + r  BY <2>1, <2>2
  <2>6. k * n = -(q * n)  BY <2>4
  <2>7. r = a + (k * n)  BY <2>5, <2>6
  <2>8. QED  BY <2>3, <2>7
<1>3. QED  BY <1>1, <1>2

\* menu_list_move: the shift by max keeps the sum from being negative, so C's
\* remainder of it is the one of the circle, and it fits a uint8_t.
LEMMA MoveOnTheCircle ==
  ASSUME list_count \in 1 .. 255,
         NEW index \in 0 .. list_count - 1, NEW delta \in Int
  PROVE  /\ MenuListMove(index, delta) = (index + delta) % list_count
         /\ MenuListMove(index, delta) \in 0 .. list_count - 1
<1>1. PICK n \in 1 .. 255 : n = list_count  OBVIOUS
<1>2. n \in Nat \ {0}  OBVIOUS
<1>3. PICK k \in Int : Remainder(delta, n) = delta + (k * n)
  BY <1>2, RemainderOfC
<1>4. Remainder(delta, n) \in -(n - 1) .. n - 1  BY <1>2, RemainderOfC
<1>5. PICK r \in -(n - 1) .. n - 1 : r = Remainder(delta, n)  BY <1>4
<1>6. index \in 0 .. n - 1  BY <1>1
<1>7. PICK sum \in Nat : sum = index + n + r  BY <1>6
<1>8. Wrap(index, delta, n) = Remainder(sum, n)  BY <1>5, <1>7 DEF Wrap
<1>9. Remainder(sum, n) = sum % n  BY <1>7 DEF Remainder
<1>10. PICK j \in Int : j = k + 1  OBVIOUS
<1>11. PICK to \in Int : to = index + delta  BY <1>6
<1>12. j * n = k * n + n /\ k * n \in Int  BY <1>10
<1>13. sum = to + (j * n) /\ sum \in Int  BY <1>3, <1>5, <1>6, <1>7, <1>11, <1>12
<1>14. sum % n = to % n  BY <1>2, <1>13, MultipleApart
<1>15. to % n \in 0 .. n - 1  BY <1>2, Divided
<1>16. PICK x \in 0 .. n - 1 : x = to % n  BY <1>15
<1>17. x \in 0 .. 255  BY <1>16
<1>18. x % 256 = x  BY <1>17
<1>19. Wrap(index, delta, n) = x  BY <1>8, <1>9, <1>14, <1>16
<1>20. MenuListMove(index, delta) = x  BY <1>1, <1>18, <1>19 DEF MenuListMove
<1>21. QED  BY <1>1, <1>11, <1>16, <1>20

\* The cursor is on the circle, on the entry the steps taken lead to.
MenuInv ==
  /\ list_count \in 1 .. 255 /\ current_index \in 0 .. list_count - 1
  /\ CursorFollowsSteps

LEMMA MenuStart == MenuInit => MenuInv
<1>1. SUFFICES ASSUME MenuInit PROVE MenuInv  OBVIOUS
<1>2. list_count \in 1 .. 255  BY <1>1, MenuConstants DEF MenuInit
<1>3. 0 \in 0 .. list_count - 1  BY <1>2
<1>4. QED  BY <1>1, <1>2, <1>3 DEF MenuInit, MenuInv, CursorFollowsSteps

LEMMA MenuStep == MenuInv /\ [MenuNext]_menuVars => MenuInv'
<1>1. SUFFICES ASSUME MenuInv, [MenuNext]_menuVars PROVE MenuInv'  OBVIOUS
<1>2. /\ list_count \in 1 .. 255 /\ current_index \in 0 .. list_count - 1
      /\ current_index = moved
  BY <1>1 DEF MenuInv, CursorFollowsSteps
<1>3. ASSUME NEW delta \in Deltas, Move(delta) PROVE MenuInv'
  <2>1. delta \in Int  BY MenuConstants
  <2>2. PICK to : to = MenuListMove(current_index, delta)  OBVIOUS
  <2>3. to = (current_index + delta) % list_count /\ to \in 0 .. list_count - 1
    BY <1>2, <2>1, <2>2, MoveOnTheCircle
  <2>4. current_index' = to /\ moved' = to /\ list_count' = list_count
    BY <1>2, <1>3, <2>2, <2>3 DEF Move
  <2>5. QED  BY <1>2, <2>3, <2>4 DEF MenuInv, CursorFollowsSteps
<1>4. CASE UNCHANGED menuVars
  BY <1>1, <1>4 DEF menuVars, MenuInv, CursorFollowsSteps
<1>5. QED  BY <1>1, <1>3, <1>4 DEF MenuNext

\* For every menu of 1 to 255 entries and every sequence of steps, WRAP leaves
\* the cursor inside the menu and on the entry the sum of the steps leads to.
THEOREM CursorStaysOnTheCircle == MenuSpec => []CursorFollowsSteps
<1>1. MenuInv => CursorFollowsSteps  BY DEF MenuInv
<1>2. QED  BY <1>1, MenuStart, MenuStep, PTL DEF MenuSpec
=============================================================================

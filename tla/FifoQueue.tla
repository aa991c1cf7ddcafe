----------------------------- MODULE FifoQueue -----------------------------
(***************************************************************************)
(* What the queue API promises: first in, first out, with no counter.      *)
(***************************************************************************)
EXTENDS Integers, SequencesExt

CONSTANTS Queue, Node, NULL

VARIABLES
  contents,   \* contents[q]: what was put into q and not yet taken, in order
  result      \* what the last call returned

vars == <<contents, result>>

First(q) == IF contents[q] = <<>> THEN NULL ELSE Head(contents[q])

Init == contents = [q \in Queue |-> <<>>] /\ result = NULL

Clear(q) == contents' = [contents EXCEPT ![q] = <<>>] /\ UNCHANGED result

Put(q, n) ==
  /\ \A p \in Queue : n \notin Range(contents[p])
  /\ contents' = [contents EXCEPT ![q] = Append(@, n)]
  /\ UNCHANGED result

\* Taking from an empty queue gives null and leaves the queue empty.
Take(q) ==
  /\ result' = First(q)
  /\ contents' = [contents EXCEPT ![q] = IF @ = <<>> THEN @ ELSE Tail(@)]

Look(q) == result' = First(q) /\ UNCHANGED contents

Next ==
  \E q \in Queue :
    Clear(q) \/ Take(q) \/ Look(q) \/ \E n \in Node : Put(q, n)

Spec == Init /\ [][Next]_vars
=============================================================================

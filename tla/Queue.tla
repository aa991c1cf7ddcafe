------------------------------- MODULE Queue -------------------------------
(***************************************************************************)
(* src/core/data_structures/queue.[ch]: a list and a uint16_t counter.     *)
(* queue_is_empty looks at the counter and queue_peek at the list, so the  *)
(* queue is right only while the two agree.  Several queues share one pool *)
(* of nodes, which clients move from queue to queue.                       *)
(***************************************************************************)
EXTENDS LinkedList

CONSTANT SizeMod   \* the counter counts modulo SizeMod, 2^16 in the code

\* A program with 65536 nodes or more may bring the counter round to zero.
ASSUME SizeModAssumption ==
  SizeMod \in Nat /\ Cardinality(Node) < SizeMod

VARIABLES
  size,     \* size[q]: queue->size
  result    \* what the last call of queue_dequeue or queue_peek returned

queueVars == <<head, next, size, result>>

QueueInit ==
  /\ ListsInit
  /\ size = [q \in List |-> 0]
  /\ result = NULL

QueueIsEmpty(q) == size[q] = 0

\* Seeded fault: the counter is not wound back with the list.
QueueReinitKeepsSize(q) == Reinit(q) /\ UNCHANGED <<size, result>>

\* queue_init on a queue in use drops what it holds.
QueueReinit(q) ==
  /\ Reinit(q)
  /\ size' = [size EXCEPT ![q] = 0]
  /\ UNCHANGED result

\* Seeded fault: the new node goes to the front.
EnqueueInFront(q, n) ==
  /\ AddFront(q, n)
  /\ size' = [size EXCEPT ![q] = (@ + 1) % SizeMod]
  /\ UNCHANGED result

Enqueue(q, n) ==
  /\ Push(q, n)
  /\ size' = [size EXCEPT ![q] = (@ + 1) % SizeMod]
  /\ UNCHANGED result

\* Seeded fault: an empty queue is not turned away.
DequeueCountsEmpty(q) ==
  /\ result' = head[q]
  /\ IF head[q] = NULL THEN UNCHANGED listVars ELSE Delete(q, head[q])
  /\ size' = [size EXCEPT ![q] = @ - 1]

Dequeue(q) ==
  \/ /\ QueueIsEmpty(q)
     /\ result' = NULL
     /\ UNCHANGED <<head, next, size>>
  \/ /\ ~QueueIsEmpty(q)
     /\ result' = head[q]
     /\ Delete(q, head[q])
     /\ size' = [size EXCEPT ![q] = (@ - 1) % SizeMod]

Peek(q) ==
  /\ result' = head[q]
  /\ UNCHANGED <<head, next, size>>

QueueNext ==
  \E q \in List :
    \/ QueueReinit(q)
    \/ \E n \in Node : Enqueue(q, n)
    \/ Dequeue(q)
    \/ Peek(q)

QueueSpec == QueueInit /\ [][QueueNext]_queueVars

-----------------------------------------------------------------------------
QueueTypeOK ==
  /\ ListsTypeOK
  /\ size \in [List -> 0 .. SizeMod - 1]
  /\ result \in Pointer

\* The counter and the list agree: queue_is_empty never turns away a queue
\* that holds nodes, and queue_dequeue never reads the head of an empty list.
SizeIsLength == \A q \in List : size[q] = Cardinality(Linked(q))

\* Nodes come out in the order they went in, whatever the other queues that
\* share the nodes do, and peek shows the node the next dequeue will give.
Fifo == INSTANCE FifoQueue
          WITH contents <- [l \in List |-> Chain(head[l], next)],
               Queue <- List
ImplementsFifo == Fifo!Spec
=============================================================================

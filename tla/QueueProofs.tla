----------------------------- MODULE QueueProofs ---------------------------
(***************************************************************************)
(* The theorems about Queue, for any number of queues and of nodes below   *)
(* the modulus of the counter.                                             *)
(***************************************************************************)
EXTENDS Queue, LinkedListProofs

\* The inductive invariant counts the nodes in the order they are held, which
\* is what the list operations are stated in.
QueueInv ==
  /\ ListsInv
  /\ size \in [List -> 0 .. SizeMod - 1]
  /\ result \in Pointer
  /\ \A q \in List : size[q] = Len(Contents[q])

-----------------------------------------------------------------------------
\* A list without repetition has as many elements as it is long.
LEMMA CardinalityRange ==
  ASSUME NEW s \in Seq(Node), IsInjective(s)
  PROVE  Cardinality(Range(s)) = Len(s)
<1>1. s \in Injection(1 .. Len(s), Range(s))  BY DEF Injection, Range
<1>2. s \in Surjection(1 .. Len(s), Range(s))  BY DEF Surjection, Range
<1>3. IsFiniteSet(Range(s))
  <2>1. Range(s) \in SUBSET Node  BY DEF Range
  <2>2. QED  BY <2>1, FS_Subset, NodeAssumption
<1>4. Cardinality(1 .. Len(s)) = Cardinality(Range(s))
  BY <1>1, <1>2, <1>3, FS_Injection
<1>5. Cardinality(1 .. Len(s)) = Len(s)
  <2>1. Len(s) \in Nat  OBVIOUS
  <2>2. QED  BY <2>1, IntervalSize
<1>6. QED  BY <1>4, <1>5

\* A queue never holds as many nodes as the counter can count.
LEMMA QueueIsShort ==
  ASSUME NEW hd, NEW nx, NEW c, Holds(hd, nx, c), NEW q \in List
  PROVE  c[q] \in Seq(Node) /\ Len(c[q]) \in 0 .. SizeMod - 1
<1>1. PICK s : s = c[q]  OBVIOUS
<1>2. s \in Seq(Node) /\ IsInjective(s)
  BY <1>1 DEF Holds, IsChain
<1>3. s \in SeqOf(Node, Cardinality(Node))  BY <1>2, ChainIsBounded
<1>4. Cardinality(Node) \in Nat  BY FS_CardinalityType, NodeAssumption
<1>5. Len(s) <= Cardinality(Node)
  <2>1. PICK m \in 0 .. Cardinality(Node) : s \in [1 .. m -> Node]
    BY <1>3 DEF SeqOf
  <2>2. Len(s) = m  BY <1>2, <1>4, <2>1
  <2>3. QED  BY <1>4, <2>2
<1>6. QED  BY <1>1, <1>2, <1>4, <1>5, SizeModAssumption

LEMMA EnqueueStep ==
  ASSUME QueueInv, NEW q \in List, NEW n \in Node, Enqueue(q, n)
  PROVE  QueueInv' /\ Fifo!Put(q, n)
<1>1. ListsInv' /\ Contents' = [Contents EXCEPT ![q] = Append(Contents[q], n)]
  BY PushStep DEF QueueInv, Enqueue
<1>2. Contents \in [List -> Seq(Node)]  BY DEF QueueInv, ListsInv, Holds
<1>3. \A p \in List : Len(Contents'[p]) = IF p = q THEN Len(Contents[p]) + 1
                                           ELSE Len(Contents[p])
  BY <1>1, <1>2
<1>4. \A p \in List : Len(Contents'[p]) \in 0 .. SizeMod - 1
  <2>1. Holds(head', next', Contents')  BY <1>1 DEF ListsInv
  <2>2. QED  BY <2>1, QueueIsShort
<1>5. size' = [size EXCEPT ![q] = (size[q] + 1) % SizeMod] /\ result' = result
  BY DEF Enqueue
<1>6. size[q] = Len(Contents[q]) /\ (size[q] + 1) % SizeMod = size[q] + 1
  <2>1. size[q] + 1 \in 0 .. SizeMod - 1  BY <1>3, <1>4 DEF QueueInv
  <2>2. QED  BY <2>1, SizeModAssumption DEF QueueInv
<1>7. \A p \in List : size'[p] = Len(Contents'[p])
  BY <1>3, <1>5, <1>6 DEF QueueInv
<1>8. size' \in [List -> 0 .. SizeMod - 1]
  BY <1>3, <1>4, <1>5, <1>6 DEF QueueInv
<1>9. QueueInv'  BY <1>1, <1>5, <1>7, <1>8 DEF QueueInv
<1>10. \A p \in List : n \notin Range(Contents[p])
  BY UnlinkedContents DEF QueueInv, Enqueue, Push
<1>11. Fifo!Put(q, n)
  BY <1>1, <1>5, <1>10 DEF Fifo!Put, Fifo!Range, Range, Contents
<1>12. QED  BY <1>9, <1>11

\* The head pointer and the sequence agree on what is first.
LEMMA FirstIsHead ==
  ASSUME ListsInv, NEW q \in List
  PROVE  /\ head[q] = Fifo!First(q)
         /\ Contents[q] # <<>> => head[q] \in Node /\ head[q] = Contents[q][1]
<1>1. Contents[q] \in Seq(Node)
      /\ head[q] = IF Contents[q] = <<>> THEN NULL ELSE Contents[q][1]
  BY ContentsFacts DEF IsChain
<1>2. Contents[q] # <<>> => Contents[q][1] \in Node
                           /\ Head(Contents[q]) = Contents[q][1]
  BY <1>1
<1>3. QED  BY <1>1, <1>2 DEF Fifo!First, Contents

LEMMA DequeueStep ==
  ASSUME QueueInv, NEW q \in List, Dequeue(q)
  PROVE  QueueInv' /\ Fifo!Take(q)
<1>1. PICK s : s = Contents[q]  OBVIOUS
<1>2. s \in Seq(Node) /\ size[q] = Len(s) /\ (size[q] = 0 <=> s = <<>>)
  BY <1>1, ContentsFacts DEF QueueInv
<1>3. Contents \in [List -> Seq(Node)] /\ ListsInv
  BY DEF QueueInv, ListsInv, Holds
<1>4. CASE QueueIsEmpty(q)
  <2>1. s = <<>>  BY <1>2, <1>4 DEF QueueIsEmpty
  <2>2. UNCHANGED <<head, next, size>> /\ result' = NULL
    BY <1>4 DEF Dequeue
  <2>3. Contents' = Contents  BY <2>2 DEF Contents
  <2>4. QueueInv'
    BY <2>2, <2>3 DEF QueueInv, ListsInv, ListsTypeOK, Pointer
  <2>5. Contents' = [Contents EXCEPT ![q] = IF Contents[q] = <<>>
                       THEN Contents[q] ELSE Tail(Contents[q])]
    BY <1>1, <1>3, <2>1, <2>3
  <2>6. result' = Fifo!First(q)
    BY <1>1, <2>1, <2>2 DEF Fifo!First, Contents
  <2>7. QED  BY <2>4, <2>5, <2>6 DEF Fifo!Take, Contents
<1>5. CASE ~QueueIsEmpty(q)
  <2>1. s # <<>> /\ Len(s) \in Nat \ {0}  BY <1>2, <1>5 DEF QueueIsEmpty
  <2>2. /\ result' = head[q] /\ Delete(q, head[q])
        /\ size' = [size EXCEPT ![q] = (size[q] - 1) % SizeMod]
    BY <1>5 DEF Dequeue
  <2>3. head[q] \in Node /\ head[q] = s[1] /\ head[q] = Fifo!First(q)
    BY <1>1, <1>3, <2>1, FirstIsHead
  <2>4. ListsInv' /\ Contents' = [Contents EXCEPT ![q] = RemoveAt(s, 1)]
    <3>1. 1 \in 1 .. Len(s)  BY <2>1
    <3>2. QED  BY <1>1, <1>3, <2>2, <2>3, <3>1, DeleteStep
  <2>5. RemoveAt(s, 1) = Tail(s) /\ Len(Tail(s)) = Len(s) - 1
    <3>1. PICK t : t = RemoveAt(s, 1)  OBVIOUS
    <3>2. /\ t \in Seq(Node) /\ Len(t) = Len(s) - 1
          /\ \A j \in 1 .. Len(s) - 1 : t[j] = s[j+1]
      <4>1. 1 \in 1 .. Len(s)  BY <2>1
      <4>2. QED  BY <1>2, <3>1, <4>1, RemoveAtProperties
    <3>3. PICK u : u = Tail(s)  OBVIOUS
    <3>4. /\ u \in Seq(Node) /\ Len(u) = Len(s) - 1
          /\ \A j \in 1 .. Len(s) - 1 : u[j] = s[j+1]
      BY <1>2, <2>1, <3>3
    <3>5. t = u  BY <3>2, <3>4
    <3>6. QED  BY <3>1, <3>3, <3>4, <3>5
  <2>6. (size[q] - 1) % SizeMod = size[q] - 1 /\ size[q] - 1 \in 0 .. SizeMod - 1
    <3>1. size[q] \in 1 .. SizeMod - 1  BY <1>2, <2>1 DEF QueueInv
    <3>2. QED  BY <3>1, SizeModAssumption
  <2>7. \A p \in List : size'[p] = Len(Contents'[p])
    BY <1>1, <1>2, <1>3, <2>2, <2>4, <2>5, <2>6 DEF QueueInv
  <2>8. size' \in [List -> 0 .. SizeMod - 1]
    BY <2>2, <2>6 DEF QueueInv
  <2>9. QueueInv'  BY <2>2, <2>3, <2>4, <2>7, <2>8 DEF QueueInv, Pointer
  <2>10. Contents' = [Contents EXCEPT ![q] = IF Contents[q] = <<>>
                        THEN Contents[q] ELSE Tail(Contents[q])]
    BY <1>1, <2>1, <2>4, <2>5
  <2>11. QED  BY <2>2, <2>3, <2>9, <2>10 DEF Fifo!Take, Contents
<1>6. QED  BY <1>4, <1>5

LEMMA QueueReinitStep ==
  ASSUME QueueInv, NEW q \in List, QueueReinit(q)
  PROVE  QueueInv' /\ Fifo!Clear(q)
<1>1. ListsInv' /\ Contents' = [Contents EXCEPT ![q] = <<>>]
  BY ReinitStep DEF QueueInv, QueueReinit
<1>2. Contents \in [List -> Seq(Node)]  BY DEF QueueInv, ListsInv, Holds
<1>3. size' = [size EXCEPT ![q] = 0] /\ result' = result  BY DEF QueueReinit
<1>4. \A p \in List : size'[p] = Len(Contents'[p])
  BY <1>1, <1>2, <1>3 DEF QueueInv
<1>5. SizeMod \in Nat \ {0}
  BY SizeModAssumption, FS_CardinalityType, NodeAssumption
<1>6. size' \in [List -> 0 .. SizeMod - 1]  BY <1>3, <1>5 DEF QueueInv
<1>7. QueueInv'  BY <1>1, <1>3, <1>4, <1>6 DEF QueueInv
<1>8. QED  BY <1>1, <1>3, <1>7 DEF Fifo!Clear, Contents

LEMMA PeekStep ==
  ASSUME QueueInv, NEW q \in List, Peek(q)
  PROVE  QueueInv' /\ Fifo!Look(q)
<1>1. UNCHANGED <<head, next, size>> /\ result' = head[q]  BY DEF Peek
<1>2. Contents' = Contents  BY <1>1 DEF Contents
<1>3. head[q] \in Pointer  BY DEF QueueInv, ListsInv, ListsTypeOK
<1>4. QueueInv'
  BY <1>1, <1>2, <1>3 DEF QueueInv, ListsInv, ListsTypeOK
<1>5. result' = Fifo!First(q)  BY <1>1, FirstIsHead DEF QueueInv
<1>6. QED  BY <1>2, <1>4, <1>5 DEF Fifo!Look, Contents

LEMMA QueueStep ==
  QueueInv /\ [QueueNext]_queueVars => QueueInv' /\ [Fifo!Next]_Fifo!vars
<1>1. SUFFICES ASSUME QueueInv, [QueueNext]_queueVars
               PROVE  /\ QueueInv'
                      /\ Fifo!Next \/ UNCHANGED Fifo!vars
  OBVIOUS
<1>2. ASSUME NEW q \in List, QueueReinit(q)  PROVE QueueInv' /\ Fifo!Clear(q)
  BY <1>1, <1>2, QueueReinitStep
<1>3. ASSUME NEW q \in List, NEW n \in Node, Enqueue(q, n)
      PROVE  QueueInv' /\ Fifo!Put(q, n)
  BY <1>1, <1>3, EnqueueStep
<1>4. ASSUME NEW q \in List, Dequeue(q)  PROVE QueueInv' /\ Fifo!Take(q)
  BY <1>1, <1>4, DequeueStep
<1>5. ASSUME NEW q \in List, Peek(q)  PROVE QueueInv' /\ Fifo!Look(q)
  BY <1>1, <1>5, PeekStep
<1>6. CASE UNCHANGED queueVars
  <2>1. UNCHANGED <<head, next, size, result>>  BY <1>6 DEF queueVars
  <2>2. Contents' = Contents  BY <2>1 DEF Contents
  <2>3. QueueInv'  BY <1>1, <2>1, <2>2 DEF QueueInv, ListsInv, ListsTypeOK
  <2>4. UNCHANGED Fifo!vars  BY <2>1, <2>2 DEF Fifo!vars, Contents
  <2>5. QED  BY <2>3, <2>4
<1>7. QED
  BY <1>1, <1>2, <1>3, <1>4, <1>5, <1>6 DEF QueueNext, Fifo!Next

LEMMA QueueStart == QueueInit => QueueInv /\ Fifo!Init
<1>1. SUFFICES ASSUME QueueInit PROVE QueueInv /\ Fifo!Init  OBVIOUS
<1>2. ListsInv /\ Contents = [q \in List |-> <<>>]
  BY <1>1, ListsStart DEF QueueInit
<1>3. size = [q \in List |-> 0] /\ result = NULL  BY <1>1 DEF QueueInit
<1>4. SizeMod \in Nat \ {0}
  BY SizeModAssumption, FS_CardinalityType, NodeAssumption
<1>5. \A q \in List : Len(Contents[q]) = 0  BY <1>2
<1>6. QED  BY <1>2, <1>3, <1>4, <1>5 DEF QueueInv, Fifo!Init, Contents, Pointer

LEMMA QueueInvariant == QueueSpec => []QueueInv
BY QueueStart, QueueStep, PTL DEF QueueSpec

-----------------------------------------------------------------------------
\* Every queue stays of its type; in particular the counter stays below its
\* modulus, and so never comes round.
THEOREM QueueTypeCorrect == QueueSpec => []QueueTypeOK
<1>1. QueueInv => QueueTypeOK  BY DEF QueueInv, QueueTypeOK, ListsInv
<1>2. QED  BY <1>1, QueueInvariant, PTL

\* The counter and the list agree, for any number of queues and any number of
\* nodes below the modulus.
THEOREM CounterCountsTheList == QueueSpec => []SizeIsLength
<1>1. ASSUME QueueInv, NEW q \in List
      PROVE  size[q] = Cardinality(Linked(q))
  <2>1. /\ Contents[q] \in Seq(Node) /\ IsInjective(Contents[q])
        /\ Linked(q) = Range(Contents[q])
    BY <1>1, ContentsFacts DEF QueueInv, IsChain
  <2>2. Cardinality(Linked(q)) = Len(Contents[q])  BY <2>1, CardinalityRange
  <2>3. QED  BY <1>1, <2>2 DEF QueueInv
<1>2. QueueInv => SizeIsLength  BY <1>1 DEF SizeIsLength
<1>3. QED  BY <1>2, QueueInvariant, PTL

\* The list and the counter together are a first-in first-out queue.
THEOREM QueueImplementsFifo == QueueSpec => ImplementsFifo
<1>1. QueueInit => Fifo!Init  BY QueueStart
<1>2. QueueInv /\ [QueueNext]_queueVars => [Fifo!Next]_Fifo!vars
  BY QueueStep
<1>3. QED
  BY <1>1, <1>2, QueueInvariant, PTL
     DEF QueueSpec, ImplementsFifo, Fifo!Spec
=============================================================================

--------------------------- MODULE CompositeProofs -------------------------
(***************************************************************************)
(* Proofs about composite datastreams, for any number of streams, keys,    *)
(* values and subscriptions: that a key belongs to one stream; the types;  *)
(* and that a subscription for all is everywhere.  Such a subscription is  *)
(* on several lists, so what LinkedListProofs says of lists that share no  *)
(* node does not serve; the lemmas below are about any heap of links.      *)
(***************************************************************************)
EXTENDS CompositeDatastream, DatastreamProofs

\* A program that composes streams composes different ones.
DistinctStreams == IsInjective(Streams)

-----------------------------------------------------------------------------
\* find_stream takes the first stream that has the key.
LEMMA FindStreamFacts ==
  ASSUME NEW k \in Key, FindStream(k) # NULL
  PROVE  \E i \in Having(k) :
           /\ FindStream(k) = Streams[i]
           /\ \A j \in Having(k) : i <= j
<1>1. Having(k) # {} /\ FindStream(k) = Streams[Min(Having(k))]
  BY DEF FindStream
<1>2. Having(k) \in SUBSET Nat  BY CompositeConstants DEF Having
<1>3. \E i \in Having(k) : \A j \in Having(k) : i <= j
  BY <1>1, <1>2, NatMin
<1>4. /\ Min(Having(k)) \in Having(k)
      /\ \A j \in Having(k) : Min(Having(k)) <= j
  BY <1>3 DEF Min
<1>5. QED  BY <1>1, <1>4

LEMMA OfStreams ==
  /\ DOMAIN Streams = 1 .. Len(Streams) /\ Len(Streams) \in Nat
  /\ \A i \in DOMAIN Streams : Streams[i] \in Stream
BY CompositeConstants

OwnerInv == value \in [Stream -> [Key -> Value]] /\ OneOwner

\* Nothing but a write changes what is stored, and it stores in the first
\* stream that has the key.
LEMMA OwnerWrite ==
  ASSUME DistinctStreams, OwnerInv, NEW k \in Key, NEW data \in Value,
         CompositeWrite(k, data)
  PROVE  OwnerInv'
<1>1. PICK i \in Having(k) :
        FindStream(k) = Streams[i] /\ \A j \in Having(k) : i <= j
  BY FindStreamFacts DEF CompositeWrite
<1>2. PICK s \in Stream : s = Streams[i]
  BY OfStreams DEF Having
<1>3. CASE WriteWithoutEffect(s, k, data)
  BY <1>3 DEF WriteWithoutEffect, ramVars, OwnerInv, OneOwner, HasKey, Count, Entry
<1>4. CASE Write(s, k, data)
  <2>1. value' = [value EXCEPT ![s][k] = data]  BY <1>4 DEF Write
  <2>2. value' \in [Stream -> [Key -> Value]]  BY <2>1 DEF OwnerInv
  <2>3. ASSUME NEW a \in DOMAIN Streams, NEW b \in DOMAIN Streams,
               NEW j \in Key, a < b, HasKey(Streams[a], j)
        PROVE  value'[Streams[b]][j] = Zero
    <3>1. Streams[b] \in Stream /\ value[Streams[b]][j] = Zero
      BY <2>3, OfStreams DEF OwnerInv, OneOwner
    <3>2. ~(Streams[b] = s /\ j = k)
      <4>1. SUFFICES ASSUME Streams[b] = s, j = k PROVE FALSE  OBVIOUS
      <4>2. b = i  BY <1>2, <4>1 DEF DistinctStreams, IsInjective, Having
      <4>3. a \in Having(k)  BY <2>3, <4>1 DEF Having
      <4>4. i <= a  BY <1>1, <4>3
      <4>5. QED  BY <2>3, <4>2, <4>4, OfStreams
    <3>3. QED  BY <2>1, <3>1, <3>2 DEF OwnerInv
  <2>4. QED
    BY <2>2, <2>3 DEF OwnerInv, OneOwner, HasKey, Count, Entry
<1>5. QED  BY <1>1, <1>2, <1>3, <1>4 DEF CompositeWrite

LEMMA OwnerStart == CompositeInit => OwnerInv
<1>1. SUFFICES ASSUME CompositeInit PROVE OwnerInv  OBVIOUS
<1>2. value = Nothing
  BY <1>1, ClearedIsZero DEF CompositeInit, RamInit, Nothing
<1>3. ASSUME NEW b \in DOMAIN Streams, NEW k \in Key
      PROVE  value[Streams[b]][k] = Zero
  BY <1>2, OfStreams, ZeroFacts DEF Nothing
<1>4. QED  BY <1>2, <1>3, ZeroFacts DEF OwnerInv, OneOwner

LEMMA OwnerStep ==
  ASSUME DistinctStreams, OwnerInv, [CompositeNext]_compositeVars
  PROVE  OwnerInv'
<1>1. ASSUME NEW k \in Key, NEW data \in Value, CompositeWrite(k, data)
      PROVE  OwnerInv'
  BY <1>1, OwnerWrite
<1>2. CASE UNCHANGED value
  BY <1>2 DEF OwnerInv, OneOwner, HasKey, Count, Entry
<1>3. CASE CodeProceeds \/ CompositeCallbackReturns
  BY <1>2, <1>3 DEF CodeProceeds, CompositeCallbackReturns, CallbackReturns, Tell,
     WriteGoesOn, WriteReturns, PushToNext, DeleteFromNext, CallReturns
<1>4. ASSUME NEW k \in Key, NEW n \in Node, CompositeSubscribe(k, n)
      PROVE  OwnerInv'
  BY <1>2, <1>4 DEF CompositeSubscribe, SubscribeKey, KeySubscribed
<1>5. ASSUME NEW n \in Node, CompositeSubscribeAll(n) \/ CompositeUnsubscribe(n)
      PROVE  OwnerInv'
  BY <1>2, <1>5 DEF CompositeSubscribeAll, CompositeUnsubscribe, ramVars
<1>6. ASSUME NEW k \in Key, KeyNotFound(k)  PROVE OwnerInv'
  BY <1>2, <1>6 DEF KeyNotFound, compositeVars, ramVars
<1>7. CASE UNCHANGED compositeVars  BY <1>2, <1>7 DEF compositeVars, ramVars
<1>8. QED  BY <1>1, <1>3, <1>4, <1>5, <1>6, <1>7 DEF CompositeNext

\* Only the first stream that has a key ever stores under it: no write gets
\* past it to a stream behind, whatever keys the streams share.
THEOREM OneStreamOwnsAKey ==
  ASSUME DistinctStreams
  PROVE  CompositeSpec => []OneOwner
<1>1. OwnerInv /\ [CompositeNext]_compositeVars => OwnerInv'  BY OwnerStep
<1>2. OwnerInv => OneOwner  BY DEF OwnerInv
<1>3. QED  BY <1>1, <1>2, OwnerStart, PTL DEF CompositeSpec

-----------------------------------------------------------------------------
\* list_push and list_delete, on a heap of links of whatever shape.  They stay
\* within a set S that holds the head and that no link leaves.
LEMMA CutStays ==
  ASSUME NEW nx \in Heap, NEW n \in Node, NEW h, NEW S \in SUBSET Node,
         h \in S \cup {NULL}, Closed(S, nx)
  PROVE  Reach(h, [nx EXCEPT ![n] = NULL]) \subseteq S
<1>1. Closed(S, [nx EXCEPT ![n] = NULL])  BY DEF Closed, Heap
<1>2. QED  BY <1>1 DEF Reach

\* What list_push of n returns, r, when h and all links of S stay in S.
PushedIn(S, r, h, nx, n) ==
  /\ h = NULL => r.head = n /\ r.next[n] = NULL
  /\ h # NULL => r.head = h
  /\ r.next \in Heap /\ Closed(S \cup {n}, r.next)
  /\ \A m \in Node \ (S \cup {n}) : r.next[m] = nx[m]

LEMMA PushStays ==
  ASSUME NEW nx \in Heap, NEW n \in Node, NEW h, NEW S \in SUBSET Node,
         h \in S \cup {NULL}, Closed(S, nx)
  PROVE  PushedIn(S, ListPush(h, nx, n), h, nx, n)
<1>0. PICK r : r = ListPush(h, nx, n)  OBVIOUS
<1> DEFINE cut == [nx EXCEPT ![n] = NULL]
           last == {m \in Reach(h, cut) : cut[m] = NULL}
<1>1. /\ cut \in Heap /\ cut[n] = NULL
      /\ \A m \in Node \ {n} : cut[m] = nx[m]
  BY DEF Heap, Pointer
<1>2. last \subseteq S  BY CutStays
<1>3. r = IF h = NULL
          THEN [head |-> n, next |-> cut]
          ELSE [head |-> h,
                next |-> [m \in Node |-> IF m \in last THEN n ELSE cut[m]]]
  BY <1>0 DEF ListPush
<1> HIDE DEF cut, last
<1>4. CASE h = NULL
  <2>1. r.head = n /\ r.next = cut  BY <1>3, <1>4
  <2>2. QED  BY <1>0, <1>1, <1>4, <2>1 DEF PushedIn, Closed
<1>5. CASE h # NULL
  <2>1. /\ r.head = h
        /\ r.next = [m \in Node |-> IF m \in last THEN n ELSE cut[m]]
    BY <1>3, <1>5
  <2>2. r.next \in Heap  BY <1>1, <2>1 DEF Heap, Pointer
  <2>3. \A m \in Node : r.next[m] = IF m \in last THEN n ELSE cut[m]  BY <2>1
  <2>4. Closed(S \cup {n}, r.next)  BY <1>1, <2>3 DEF Closed
  <2>5. QED
    BY <1>0, <1>1, <1>2, <1>5, <2>1, <2>2, <2>3, <2>4 DEF PushedIn
<1>6. QED  BY <1>4, <1>5

\* And list_delete.
DeletedIn(S, r, h, nx, n) ==
  /\ r.head = (IF h = n THEN nx[n] ELSE h) /\ r.head \in S \cup {NULL}
  /\ r.next \in Heap /\ Closed(S, r.next)
  /\ \A m \in Node \ S : r.next[m] = nx[m]
  /\ \A m \in S : r.next[m] = nx[m] \/ (nx[m] = n /\ r.next[m] = nx[n])

LEMMA DeleteStays ==
  ASSUME NEW nx \in Heap, NEW n \in Node, NEW h, NEW S \in SUBSET Node,
         h \in S \cup {NULL}, Closed(S, nx)
  PROVE  DeletedIn(S, ListDelete(h, nx, n), h, nx, n)
<1>0. PICK r : r = ListDelete(h, nx, n)  OBVIOUS
<1> DEFINE cut == [nx EXCEPT ![n] = NULL]
           pred == {m \in Reach(h, cut) \ {n} : nx[m] = n}
<1>1. Reach(h, cut) \subseteq S  BY CutStays
<1>2. pred \subseteq S /\ \A m \in pred : nx[m] = n  BY <1>1
<1>3. r = IF h = n
          THEN [head |-> nx[n], next |-> nx]
          ELSE [head |-> h,
                next |-> [m \in Node |-> IF m \in pred THEN nx[n] ELSE nx[m]]]
  BY <1>0 DEF ListDelete
<1> HIDE DEF cut, pred
<1>4. n \in S => nx[n] \in S \cup {NULL}  BY DEF Closed
<1>5. nx[n] \in Pointer  BY DEF Heap
<1>6. CASE h = n
  <2>1. r.head = nx[n] /\ r.next = nx  BY <1>3, <1>6
  <2>2. QED  BY <1>0, <1>4, <1>6, <2>1, NullAssumption DEF DeletedIn
<1>7. CASE h # n
  <2>1. /\ r.head = h
        /\ r.next = [m \in Node |-> IF m \in pred THEN nx[n] ELSE nx[m]]
    BY <1>3, <1>7
  <2>2. r.next \in Heap  BY <1>5, <2>1 DEF Heap
  <2>3. \A m \in Node : r.next[m] = IF m \in pred THEN nx[n] ELSE nx[m]
    BY <2>1
  <2>4. pred # {} => n \in S  BY <1>2, NullAssumption DEF Closed
  <2>5. Closed(S, r.next)  BY <1>4, <2>3, <2>4 DEF Closed
  <2>6. QED  BY <1>0, <1>2, <1>7, <2>1, <2>2, <2>3, <2>5 DEF DeletedIn
<1>8. QED  BY <1>6, <1>7

LEMMA HeapClosed ==
  ASSUME NEW nx \in Heap
  PROVE  Closed(Node, nx)
BY DEF Heap, Pointer, Closed

-----------------------------------------------------------------------------
\* The types, of RamTypeOK put together from pieces.
LEMMA RamPiecesNext ==
  ASSUME ListsTypeOK', stack' \in Seq(Frame), Len(stack') <= MaxDepth,
         \A i \in 1 .. Len(stack') : stack'[i].calling => stack'[i].e # NULL,
         value' \in [Stream -> [Key -> Value]],
         \A s \in Stream, k \in Key : value'[s][k] # Zero => HasKey(s, k),
         writes' \in Seq(WriteCall), Len(writes') = Len(stack'),
         heard' \in [Node -> [Stream -> [Key -> Value]]]
  PROVE  RamTypeOK'
<1>1. DOMAIN stack' = 1 .. Len(stack')  OBVIOUS
<1>2. EventTypeOK'  BY <1>1, Zenon DEF EventTypeOK
<1>3. QED  BY <1>2 DEF RamTypeOK, WriteCall, HasKey, Count, Entry

LEMMA SameLists ==
  ASSUME RamTypeOK, UNCHANGED listVars
  PROVE  ListsTypeOK'
BY RamPieces DEF listVars, ListsTypeOK

\* The innermost publish gets on.
LEMMA TypesTopReplaced ==
  ASSUME RamTypeOK, stack # <<>>, UNCHANGED <<listVars, value, writes>>,
         NEW f \in Frame, f.calling => f.e # NULL,
         stack' = [stack EXCEPT ![Len(stack)] = f],
         heard' \in [Node -> [Stream -> [Key -> Value]]]
  PROVE  RamTypeOK'
<1>1. stack \in Seq(Frame) /\ Len(stack) \in 1 .. Len(stack)
  BY RamPieces, Innermost
<1>2. /\ stack' \in Seq(Frame) /\ Len(stack') = Len(stack)
      /\ stack'[Len(stack)] = f
      /\ \A i \in 1 .. Len(stack) - 1 : stack'[i] = stack[i]
  BY <1>1
<1>3. \A i \in 1 .. Len(stack) : stack[i].calling => stack[i].e # NULL
  BY RamPieces
<1>4. \A i \in 1 .. Len(stack) : i = Len(stack) \/ i \in 1 .. Len(stack) - 1
  <2>1. PICK m \in Nat : m = Len(stack)  BY RamPieces, Zenon
  <2>2. \A i \in 1 .. m : i = m \/ i \in 1 .. m - 1  OBVIOUS
  <2>3. QED  BY <2>1, <2>2, Zenon
<1>5. \A i \in 1 .. Len(stack') : stack'[i].calling => stack'[i].e # NULL
  BY <1>2, <1>3, <1>4, Zenon
<1>6. /\ writes' \in Seq(WriteCall) /\ Len(writes') = Len(stack')
      /\ Len(stack') <= MaxDepth
  BY <1>2, RamPieces
<1>7. QED  BY <1>2, <1>5, <1>6, RamPieces, SameLists, RamPiecesNext

LEMMA TypesTell ==
  ASSUME RamTypeOK, Tell
  PROVE  RamTypeOK'
<1>1. /\ stack # <<>> /\ Top.e # NULL /\ UNCHANGED <<listVars, value, writes>>
      /\ stack' = [stack EXCEPT ![Len(stack)] = Calling(Top)]
  BY DEF Tell, Call, Walking, TopBecomes
<1>2. Top \in Frame /\ Writing \in WriteCall  BY <1>1, Innermost
<1>3. PICK f : f = Calling(Top)  OBVIOUS
<1>4. f \in Frame /\ f.e # NULL
  BY <1>1, <1>2, <1>3 DEF Calling, Publishing, Frame
<1>5. heard' \in [Node -> [Stream -> [Key -> Value]]]
  BY <1>2, RamPieces DEF Tell, WriteCall
<1>6. QED  BY <1>1, <1>3, <1>4, <1>5, TypesTopReplaced

LEMMA TypesCallbackReturns ==
  ASSUME RamTypeOK, CallbackReturns
  PROVE  RamTypeOK'
<1>1. /\ stack # <<>> /\ Top.calling
      /\ UNCHANGED <<listVars, value, writes, heard>>
      /\ stack' = [stack EXCEPT ![Len(stack)] = MovedTo(next[Top.e], Top)]
  BY DEF CallbackReturns, Return, InCallback, TopBecomes
<1>2. Top \in Frame /\ Top.e \in Node  BY <1>1, Innermost
<1>3. next[Top.e] \in Pointer  BY <1>2, RamPieces DEF ListsTypeOK, Heap
<1>4. PICK f : f = MovedTo(next[Top.e], Top)  OBVIOUS
<1>5. f \in Frame /\ f.calling = FALSE
  BY <1>2, <1>3, <1>4 DEF MovedTo, Publishing, Frame
<1>6. QED  BY <1>1, <1>4, <1>5, RamPieces, TypesTopReplaced

LEMMA FrameBegun ==
  ASSUME RamTypeOK, NEW event \in List
  PROVE  Begun(event) \in Frame /\ Begun(event).calling = FALSE
<1>1. head[event] \in Pointer  BY RamPieces DEF ListsTypeOK
<1>2. Linked(event) \subseteq Node  BY DEF Linked, Reach
<1>3. QED  BY <1>1, <1>2 DEF Begun, Publishing, Frame

LEMMA TypesWriteGoesOn ==
  ASSUME RamTypeOK, WriteGoesOn
  PROVE  RamTypeOK'
<1>1. /\ stack # <<>> /\ UNCHANGED <<listVars, value, writes, heard>>
      /\ stack' = [stack EXCEPT ![Len(stack)] = Begun(AllOf(Writing.stream))]
  BY DEF WriteGoesOn, Walking, TopBecomes
<1>2. AllOf(Writing.stream) \in List
  BY <1>1, Innermost, StreamFacts DEF WriteCall
<1>3. PICK f : f = Begun(AllOf(Writing.stream))  OBVIOUS
<1>4. f \in Frame /\ f.calling = FALSE  BY <1>2, <1>3, FrameBegun
<1>5. QED  BY <1>1, <1>3, <1>4, RamPieces, TypesTopReplaced

\* A sequence without its last element.
LEMMA Shortened ==
  ASSUME NEW T, NEW q \in Seq(T), q # <<>>
  PROVE  /\ SubSeq(q, 1, Len(q) - 1) \in Seq(T)
         /\ Len(SubSeq(q, 1, Len(q) - 1)) = Len(q) - 1
         /\ \A i \in 1 .. Len(q) - 1 : SubSeq(q, 1, Len(q) - 1)[i] = q[i]
<1>1. Len(q) \in Nat \ {0}  OBVIOUS
<1>2. PICK k : k = Len(q) - 1  OBVIOUS
<1>3. k \in Nat /\ k <= Len(q)  BY <1>1, <1>2
<1>4. \A i \in 1 .. k : q[i] \in T  BY <1>1, <1>3
<1>5. SubSeq(q, 1, k) \in Seq(T) /\ Len(SubSeq(q, 1, k)) = k
  BY <1>3, <1>4
<1>6. \A i \in 1 .. k : SubSeq(q, 1, k)[i] = q[i]  BY <1>3, <1>5
<1>7. QED  BY <1>2, <1>5, <1>6

LEMMA TypesWriteReturns ==
  ASSUME RamTypeOK, WriteReturns
  PROVE  RamTypeOK'
<1>1. /\ stack # <<>> /\ UNCHANGED <<listVars, value, heard>>
      /\ stack' = SubSeq(stack, 1, Len(stack) - 1)
      /\ writes' = SubSeq(writes, 1, Len(writes) - 1)
  BY DEF WriteReturns, PublishReturns, Walking
<1>2. /\ stack \in Seq(Frame) /\ writes \in Seq(WriteCall) /\ writes # <<>>
      /\ Len(writes) = Len(stack)
  BY <1>1, RamPieces
<1>3. /\ stack' \in Seq(Frame) /\ Len(stack') = Len(stack) - 1
      /\ \A i \in 1 .. Len(stack) - 1 : stack'[i] = stack[i]
  BY <1>1, <1>2, Shortened
<1>4. writes' \in Seq(WriteCall) /\ Len(writes') = Len(writes) - 1
  BY <1>1, <1>2, Shortened
<1>5. /\ Len(stack') <= MaxDepth
      /\ \A i \in 1 .. Len(stack') : stack'[i].calling => stack'[i].e # NULL
  BY <1>3, RamPieces
<1>6. QED
  BY <1>1, <1>2, <1>3, <1>4, <1>5, RamPieces, SameLists, RamPiecesNext

LEMMA TypesWrite ==
  ASSUME RamTypeOK, NEW s \in Stream, NEW k \in Key, NEW data \in Value,
         Write(s, k, data)
  PROVE  RamTypeOK'
<1>1. On(s, k) \in List /\ HasKey(s, k)  BY StreamFacts DEF Write
<1>2. PICK f : f = Begun(On(s, k))  OBVIOUS
<1>3. f \in Frame /\ f.calling = FALSE  BY <1>1, <1>2, FrameBegun
<1>4. PICK w \in WriteCall : w = [stream |-> s, key |-> k, data |-> data]
  BY DEF WriteCall
<1>5. /\ stack' = Append(stack, f) /\ writes' = Append(writes, w)
      /\ UNCHANGED <<listVars, heard>> /\ Len(stack) < MaxDepth
  BY <1>2, <1>4 DEF Write, Publish
<1>6. stack \in Seq(Frame) /\ writes \in Seq(WriteCall)  BY RamPieces
<1>7. /\ stack' \in Seq(Frame) /\ Len(stack') = Len(stack) + 1
      /\ \A i \in 1 .. Len(stack') :
           stack'[i] = IF i = Len(stack) + 1 THEN f ELSE stack[i]
  BY <1>3, <1>5, <1>6
<1>8. writes' \in Seq(WriteCall) /\ Len(writes') = Len(writes) + 1
  BY <1>5, <1>6
<1>9. \A i \in 1 .. Len(stack') : stack'[i].calling => stack'[i].e # NULL
  BY <1>3, <1>7, RamPieces
<1>10. Len(stack') <= MaxDepth  BY <1>5, <1>7, RamPieces
<1>11. /\ value' \in [Stream -> [Key -> Value]]
       /\ \A r \in Stream, j \in Key : value'[r][j] # Zero => HasKey(r, j)
  BY <1>1, RamPieces DEF Write
<1>12. QED
  BY <1>5, <1>7, <1>8, <1>9, <1>10, <1>11, RamPieces, SameLists, RamPiecesNext

\* What is due changes with every subscription and no iterator does.
LEMMA TypesDue ==
  ASSUME RamTypeOK, ListsTypeOK', UNCHANGED <<value, writes>>,
         heard' \in [Node -> [Stream -> [Key -> Value]]],
         NEW D \in [1 .. Len(stack) -> SUBSET Node],
         stack' = [i \in DOMAIN stack |-> Owing(D[i], stack[i])]
  PROVE  RamTypeOK'
<1>1. stack \in Seq(Frame) /\ DOMAIN stack = 1 .. Len(stack)
  BY RamPieces
<1>2. \A i \in 1 .. Len(stack) : stack[i] \in Frame  BY <1>1
<1>3. \A i \in 1 .. Len(stack) : /\ Owing(D[i], stack[i]) \in Frame
                                 /\ Owing(D[i], stack[i]).e = stack[i].e
                                 /\ Owing(D[i], stack[i]).calling = stack[i].calling
  BY <1>2, OwingFrame
<1>4. stack' \in [1 .. Len(stack) -> Frame]  BY <1>1, <1>3
<1>5. stack' \in Seq(Frame) /\ Len(stack') = Len(stack)
  BY <1>1, <1>4, RamPieces
<1>6. \A i \in 1 .. Len(stack') : stack'[i].calling => stack'[i].e # NULL
  BY <1>1, <1>3, <1>5, RamPieces
<1>7. QED  BY <1>5, <1>6, RamPieces, RamPiecesNext

LEMMA TypesDueWith ==
  ASSUME RamTypeOK, ListsTypeOK', UNCHANGED <<value, writes>>,
         heard' \in [Node -> [Stream -> [Key -> Value]]],
         NEW event, NEW n \in Node, stack' = DueWith(event, n)
  PROVE  RamTypeOK'
<1>1. PICK D : D = [i \in 1 .. Len(stack) |->
                      IF stack[i].event = event
                      THEN stack[i].due \cup {n} ELSE stack[i].due]
  OBVIOUS
<1>2. stack \in Seq(Frame) /\ DOMAIN stack = 1 .. Len(stack)  BY RamPieces
<1>3. \A i \in 1 .. Len(stack) : stack[i].due \in SUBSET Node
  BY <1>2, FrameFields
<1>4. D \in [1 .. Len(stack) -> SUBSET Node]  BY <1>1, <1>3
<1>5. stack' = [i \in DOMAIN stack |-> Owing(D[i], stack[i])]
  BY <1>1, <1>2 DEF DueWith
<1>6. QED  BY <1>4, <1>5, TypesDue

LEMMA TypesDueWithout ==
  ASSUME RamTypeOK, ListsTypeOK', UNCHANGED <<value, writes>>,
         heard' \in [Node -> [Stream -> [Key -> Value]]],
         NEW events, NEW n \in Node, stack' = DueWithout(events, n)
  PROVE  RamTypeOK'
<1>1. PICK D : D = [i \in 1 .. Len(stack) |->
                      IF stack[i].event \in events
                      THEN stack[i].due \ {n} ELSE stack[i].due]
  OBVIOUS
<1>2. stack \in Seq(Frame) /\ DOMAIN stack = 1 .. Len(stack)  BY RamPieces
<1>3. \A i \in 1 .. Len(stack) : stack[i].due \in SUBSET Node
  BY <1>2, FrameFields
<1>4. D \in [1 .. Len(stack) -> SUBSET Node]  BY <1>1, <1>3
<1>5. stack' = [i \in DOMAIN stack |-> Owing(D[i], stack[i])]
  BY <1>1, <1>2 DEF DueWithout
<1>6. QED  BY <1>4, <1>5, TypesDue

\* What list.c returns is a head pointer and a heap.
LEMMA TypesBecomes ==
  ASSUME RamTypeOK, NEW l \in List, NEW n \in Node, NEW r,
         \/ r = ListPush(head[l], next, n)
         \/ r = ListDelete(head[l], next, n),
         Becomes(l, r)
  PROVE  ListsTypeOK'
<1>1. head \in [List -> Pointer] /\ next \in Heap  BY RamPieces DEF ListsTypeOK
<1>2. PICK h : h = head[l]  OBVIOUS
<1>3. PICK S \in SUBSET Node : S = Node  OBVIOUS
<1>4. h \in S \cup {NULL} /\ Closed(S, next)
  BY <1>1, <1>2, <1>3, HeapClosed DEF Pointer
<1>5. r.head \in Pointer /\ r.next \in Heap
  <2>1. CASE r = ListPush(h, next, n)
    <3>1. PushedIn(S, r, h, next, n)  BY <1>1, <1>4, <2>1, PushStays
    <3>2. QED  BY <1>3, <1>4, <3>1 DEF PushedIn, Pointer
  <2>2. CASE r = ListDelete(h, next, n)
    <3>1. DeletedIn(S, r, h, next, n)  BY <1>1, <1>4, <2>2, DeleteStays
    <3>2. QED  BY <1>3, <3>1 DEF DeletedIn, Pointer
  <2>3. QED  BY <1>2, <2>1, <2>2
<1>6. QED  BY <1>1, <1>5 DEF Becomes, ListsTypeOK

LEMMA TypesHeard ==
  ASSUME RamTypeOK, UNCHANGED <<eventVars, value, writes>>,
         heard' \in [Node -> [Stream -> [Key -> Value]]]
  PROVE  RamTypeOK'
<1>1. UNCHANGED listVars /\ stack' = stack  BY DEF eventVars
<1>2. QED  BY <1>1, RamPieces, SameLists, RamPiecesNext

\* The calls of the composite.  Nobody but a subscription the program keeps for
\* it is given to subscribe_all.
Lists == Seq(List) \ {<<>>}
Calls == [op : {"subscribe_all", "unsubscribe"}, n : Node]
SubscribesOwn == call.op = "subscribe_all" => call.n \in ForAll

CompositeTypeInv == CompositeTypeOK /\ SubscribesOwn

LEMMA CompositePieces ==
  ASSUME CompositeTypeInv
  PROVE  /\ RamTypeOK /\ todo \in Seq(Lists)
         /\ call \in Calls \cup {NoCall} /\ (Ready => todo = <<>>)
         /\ toAll \subseteq ForAll /\ SubscribesOwn
BY DEF CompositeTypeInv, CompositeTypeOK, Lists, Calls

LEMMA CompositePiecesNext ==
  ASSUME RamTypeOK', todo' \in Seq(Lists), call' \in Calls \cup {NoCall},
         Ready' => todo' = <<>>, toAll' \subseteq ForAll, SubscribesOwn'
  PROVE  CompositeTypeInv'
BY DEF CompositeTypeInv, CompositeTypeOK, Lists, Calls

LEMMA CallFacts ==
  ASSUME CompositeTypeInv
  PROVE  /\ ~Ready => call \in Calls /\ call.n \in Node
         /\ call.op \in {"subscribe_all", "unsubscribe"} =>
              ~Ready /\ call \in Calls /\ call.n \in Node
         /\ Ready => call.op = "none"
<1>1. call \in Calls \cup {NoCall}  BY CompositePieces
<1>2. NoCall.op = "none"  BY DEF NoCall
<1>3. QED  BY <1>1, <1>2 DEF Ready, Calls

\* The lists a call has still to go through.
LEMMA NextListFacts ==
  ASSUME NEW T, NEW q \in Seq(Seq(T) \ {<<>>}), q # <<>>
  PROVE  /\ Head(Head(q)) \in T /\ Len(Head(q)) \in Nat \ {0}
         /\ Tail(q) \in Seq(Seq(T) \ {<<>>})
         /\ Len(Head(q)) > 1 =>
              [q EXCEPT ![1] = Tail(@)] \in Seq(Seq(T) \ {<<>>})
<1>1. /\ 1 \in 1 .. Len(q) /\ Head(q) = q[1]
      /\ \A i \in 1 .. Len(q) : q[i] \in Seq(T) /\ q[i] # <<>>
  OBVIOUS
<1>2. PICK f : f = q[1]  OBVIOUS
<1>3. f \in Seq(T) /\ f # <<>>  BY <1>1, <1>2
<1>4. Head(f) \in T /\ Len(f) \in Nat \ {0} /\ Tail(f) \in Seq(T)  BY <1>3
<1>5. Tail(q) \in Seq(Seq(T) \ {<<>>})  OBVIOUS
<1>6. PICK t : t = Tail(f)  OBVIOUS
<1>7. Len(f) > 1 => t # <<>>
  <2>1. Len(t) = Len(f) - 1  BY <1>3, <1>6
  <2>2. t = <<>> => Len(t) = 0  OBVIOUS
  <2>3. QED  BY <1>4, <2>1, <2>2
<1>8. t # <<>> => [q EXCEPT ![1] = t] \in Seq(Seq(T) \ {<<>>})
  BY <1>1, <1>4, <1>6
<1>9. [q EXCEPT ![1] = Tail(@)] = [q EXCEPT ![1] = t]  BY <1>2, <1>6
<1>10. QED  BY <1>1, <1>2, <1>4, <1>5, <1>7, <1>8, <1>9, Zenon

LEMMA ListDoneFacts ==
  ASSUME CompositeTypeInv, todo # <<>>
  PROVE  NextList \in List /\ (ListDone => todo' \in Seq(Lists))
<1>1. todo \in Seq(Seq(List) \ {<<>>})  BY CompositePieces DEF Lists
<1>2. /\ NextList \in List /\ Tail(todo) \in Seq(Lists)
      /\ Len(Head(todo)) > 1 => [todo EXCEPT ![1] = Tail(@)] \in Seq(Lists)
  BY <1>1, NextListFacts DEF NextList, Lists
<1>3. QED  BY <1>2 DEF ListDone

LEMMA TypesPushToNext ==
  ASSUME CompositeTypeInv, PushToNext
  PROVE  CompositeTypeInv'
<1>1. /\ call.op = "subscribe_all" /\ todo # <<>> /\ ListDone
      /\ UNCHANGED <<value, writes, heard, call, toAll>>
  BY DEF PushToNext
<1>2. NextList \in List /\ todo' \in Seq(Lists)  BY <1>1, ListDoneFacts
<1>3. RamTypeOK /\ ~Ready /\ call.n \in Node
  BY <1>1, CompositePieces, CallFacts
<1>4. PICK r : r = ListPush(head[NextList], next, call.n)  OBVIOUS
<1>5. PICK l \in List : l = NextList  BY <1>2
<1>6. PICK n \in Node : n = call.n  BY <1>3
<1>7. r = ListPush(head[l], next, n) /\ Becomes(l, r)
  BY <1>4, <1>5, <1>6 DEF PushToNext
<1>8. ListsTypeOK'  BY <1>3, <1>7, TypesBecomes
<1>9. stack' = DueWith(l, n)  BY <1>5, <1>6 DEF PushToNext
<1>10. RamTypeOK'  BY <1>1, <1>3, <1>8, <1>9, RamPieces, TypesDueWith
<1>11. SubscribesOwn'  BY <1>1, CompositePieces DEF SubscribesOwn
<1>12. ~Ready'  BY <1>1, <1>3 DEF Ready
<1>13. QED
  BY <1>1, <1>2, <1>10, <1>11, <1>12, CompositePieces, CompositePiecesNext

LEMMA TypesDeleteFromNext ==
  ASSUME CompositeTypeInv, DeleteFromNext
  PROVE  CompositeTypeInv'
<1>1. /\ call.op = "unsubscribe" /\ todo # <<>> /\ ListDone
      /\ UNCHANGED <<value, writes, heard, call, toAll>>
  BY DEF DeleteFromNext
<1>2. NextList \in List /\ todo' \in Seq(Lists)  BY <1>1, ListDoneFacts
<1>3. RamTypeOK /\ ~Ready /\ call.n \in Node
  BY <1>1, CompositePieces, CallFacts
<1>4. PICK r : r = ListDelete(head[NextList], next, call.n)  OBVIOUS
<1>5. PICK l \in List : l = NextList  BY <1>2
<1>6. PICK n \in Node : n = call.n  BY <1>3
<1>7. r = ListDelete(head[l], next, n) /\ Becomes(l, r)
  BY <1>4, <1>5, <1>6 DEF DeleteFromNext
<1>8. ListsTypeOK'  BY <1>3, <1>7, TypesBecomes
<1>9. stack' = DueWithout({l}, n)  BY <1>5, <1>6 DEF DeleteFromNext
<1>10. RamTypeOK'  BY <1>1, <1>3, <1>8, <1>9, RamPieces, TypesDueWithout
<1>11. SubscribesOwn'  BY <1>1, CompositePieces DEF SubscribesOwn
<1>12. ~Ready'  BY <1>1, <1>3 DEF Ready
<1>13. QED
  BY <1>1, <1>2, <1>10, <1>11, <1>12, CompositePieces, CompositePiecesNext

LEMMA TypesCallReturns ==
  ASSUME CompositeTypeInv, CallReturns
  PROVE  CompositeTypeInv'
<1>1. /\ ~Ready /\ todo = <<>> /\ call' = NoCall
      /\ UNCHANGED <<eventVars, value, writes, todo>>
  BY DEF CallReturns
<1>2. /\ RamTypeOK /\ toAll \subseteq ForAll /\ todo \in Seq(Lists)
      /\ call \in Calls /\ call.n \in Node /\ SubscribesOwn
  BY <1>1, CompositePieces, CallFacts
<1>3. toAll' \subseteq ForAll
  BY <1>2 DEF CallReturns, SubscribesOwn
<1>4. heard' \in [Node -> [Stream -> [Key -> Value]]]
  BY <1>2, RamPieces, ZeroFacts DEF CallReturns
<1>5. RamTypeOK'  BY <1>1, <1>2, <1>4, TypesHeard
<1>6. SubscribesOwn' /\ Ready'  BY <1>1 DEF SubscribesOwn, NoCall, Ready
<1>7. QED  BY <1>1, <1>2, <1>3, <1>5, <1>6, CompositePiecesNext

\* The keys of a stream, the streams in order: the lists of each call.
LEMMA ListsInOrderType ==
  ASSUME NEW s \in Stream
  PROVE  ListsInOrder(s) \in Lists
<1>1. Count(s) \in Nat /\ AllOf(s) \in List  BY StreamFacts
<1>2. \A k \in 1 .. Count(s) : On(s, k - 1) \in List
  <2>1. \A k \in 1 .. Count(s) : k - 1 \in 0 .. Count(s) - 1  BY <1>1
  <2>2. \A j \in 0 .. Count(s) - 1 : On(s, j) \in EventsOf(s)  BY DEF EventsOf
  <2>3. EventsOf(s) \subseteq List  BY StreamFacts
  <2>4. QED  BY <2>1, <2>2, <2>3
<1>3. PICK q : q = [k \in 1 .. Count(s) |-> On(s, k - 1)]  OBVIOUS
<1>4. q \in [1 .. Count(s) -> List]  BY <1>2, <1>3
<1>5. q \in Seq(List)  BY <1>1, <1>4
<1>6. Append(q, AllOf(s)) \in Seq(List) /\ Append(q, AllOf(s)) # <<>>
  BY <1>1, <1>5
<1>7. QED  BY <1>3, <1>6 DEF ListsInOrder, Lists

LEMMA TypesSubscribeAll ==
  ASSUME CompositeTypeInv, NEW n \in Node, CompositeSubscribeAll(n)
  PROVE  CompositeTypeInv'
<1>1. /\ n \in ForAll /\ UNCHANGED <<eventVars, value, writes, toAll>>
      /\ call' = [op |-> "subscribe_all", n |-> n]
      /\ todo' = [i \in DOMAIN Streams |-> <<AllOf(Streams[i])>>]
      /\ heard' = [heard EXCEPT ![n] = [s \in Stream |-> Knows(s, KeysOf(s))]]
  BY DEF CompositeSubscribeAll
<1>2. RamTypeOK  BY CompositePieces
<1>3. heard' \in [Node -> [Stream -> [Key -> Value]]]
  BY <1>1, <1>2, RamPieces, KnowsType
<1>4. RamTypeOK'  BY <1>1, <1>2, <1>3, TypesHeard
<1>5. todo' \in Seq(Lists)
  <2>1. \A i \in 1 .. Len(Streams) : AllOf(Streams[i]) \in List
    BY OfStreams, StreamFacts
  <2>2. \A l \in List : <<l>> \in Lists  BY DEF Lists
  <2>3. todo' \in [1 .. Len(Streams) -> Lists]  BY <1>1, <2>1, <2>2, OfStreams
  <2>4. QED  BY <2>3, OfStreams
<1>6. call' \in Calls /\ SubscribesOwn' /\ ~Ready'
  BY <1>1 DEF Calls, SubscribesOwn, Ready, NoCall
<1>7. QED  BY <1>1, <1>4, <1>5, <1>6, CompositePieces, CompositePiecesNext

LEMMA TypesUnsubscribe ==
  ASSUME CompositeTypeInv, NEW n \in Node, CompositeUnsubscribe(n)
  PROVE  CompositeTypeInv'
<1>1. /\ call' = [op |-> "unsubscribe", n |-> n]
      /\ todo' = [i \in DOMAIN Streams |-> ListsInOrder(Streams[i])]
      /\ toAll' = toAll \ {n} /\ UNCHANGED <<eventVars, value, writes, heard>>
  BY DEF CompositeUnsubscribe, ramVars
<1>2. RamTypeOK'  BY <1>1, CompositePieces, RamPieces, TypesHeard
<1>3. todo' \in Seq(Lists)
  <2>1. \A i \in 1 .. Len(Streams) : ListsInOrder(Streams[i]) \in Lists
    BY OfStreams, ListsInOrderType
  <2>2. todo' \in [1 .. Len(Streams) -> Lists]  BY <1>1, <2>1, OfStreams
  <2>3. QED  BY <2>2, OfStreams
<1>4. call' \in Calls /\ SubscribesOwn' /\ ~Ready'
  BY <1>1 DEF Calls, SubscribesOwn, Ready, NoCall
<1>5. QED  BY <1>1, <1>2, <1>3, <1>4, CompositePieces, CompositePiecesNext

LEMMA NoCallOfComposite ==
  ASSUME CompositeTypeInv, RamTypeOK', UNCHANGED <<todo, call, toAll>>
  PROVE  CompositeTypeInv'
<1>1. SubscribesOwn'  BY CompositePieces DEF SubscribesOwn
<1>2. Ready' <=> Ready  BY DEF Ready
<1>3. QED  BY <1>1, <1>2, CompositePieces, CompositePiecesNext

LEMMA TypesCompositeWrite ==
  ASSUME CompositeTypeInv, NEW k \in Key, NEW data \in Value,
         CompositeWrite(k, data)
  PROVE  CompositeTypeInv'
<1>1. PICK s \in Stream : s = FindStream(k)
  BY FindStreamFacts, OfStreams DEF CompositeWrite, Having
<1>2. RamTypeOK  BY CompositePieces
<1>3. Write(s, k, data) \/ WriteWithoutEffect(s, k, data)
  BY <1>1 DEF CompositeWrite
<1>4. CASE Write(s, k, data)
  <2>1. RamTypeOK'  BY <1>2, <1>4, TypesWrite
  <2>2. QED  BY <2>1, NoCallOfComposite DEF CompositeWrite
<1>5. CASE WriteWithoutEffect(s, k, data)
  <2>1. UNCHANGED <<eventVars, value, writes, heard>>
    BY <1>5 DEF WriteWithoutEffect, ramVars
  <2>2. RamTypeOK'  BY <1>2, <2>1, RamPieces, TypesHeard
  <2>3. QED  BY <2>2, NoCallOfComposite DEF CompositeWrite
<1>6. QED  BY <1>3, <1>4, <1>5

LEMMA TypesCompositeSubscribe ==
  ASSUME CompositeTypeInv, NEW k \in Key, NEW n \in Node,
         CompositeSubscribe(k, n)
  PROVE  CompositeTypeInv'
<1>1. PICK s \in Stream : s = FindStream(k)
  BY FindStreamFacts, OfStreams DEF CompositeSubscribe, Having
<1>2. RamTypeOK  BY CompositePieces
<1>3. /\ HasKey(s, k) /\ UNCHANGED <<value, writes>>
      /\ Becomes(On(s, k), ListPush(head[On(s, k)], next, n))
      /\ stack' = DueWith(On(s, k), n)
      /\ heard' = [heard EXCEPT ![n][s] = Knows(s, {k})]
  BY <1>1 DEF CompositeSubscribe, SubscribeKey, KeySubscribed, Subscribed, Push
<1>4. PICK l \in List : l = On(s, k)  BY <1>3, StreamFacts
<1>5. PICK r : r = ListPush(head[l], next, n)  OBVIOUS
<1>6. Becomes(l, r)  BY <1>3, <1>4, <1>5
<1>7. ListsTypeOK'  BY <1>2, <1>5, <1>6, TypesBecomes
<1>8. heard' \in [Node -> [Stream -> [Key -> Value]]]
  BY <1>2, <1>3, RamPieces, KnowsType
<1>9. stack' = DueWith(l, n)  BY <1>3, <1>4
<1>10. RamTypeOK'  BY <1>2, <1>3, <1>7, <1>8, <1>9, TypesDueWith
<1>11. QED  BY <1>10, NoCallOfComposite DEF CompositeSubscribe

LEMMA CompositeTypeStart == CompositeInit => CompositeTypeInv
<1>1. SUFFICES ASSUME CompositeInit PROVE CompositeTypeInv  OBVIOUS
<1>2. RamTypeOK  BY <1>1, RamStart DEF CompositeInit, RamTypeInv
<1>3. todo = <<>> /\ call = NoCall /\ toAll = {}  BY <1>1 DEF CompositeInit
<1>4. todo \in Seq(Seq(List) \ {<<>>})  BY <1>3
<1>5. CompositeTypeOK  BY <1>2, <1>3, <1>4 DEF CompositeTypeOK
<1>6. SubscribesOwn  BY <1>3 DEF SubscribesOwn, NoCall
<1>7. QED  BY <1>5, <1>6 DEF CompositeTypeInv

LEMMA CompositeTypeStep ==
  ASSUME CompositeTypeInv, [CompositeNext]_compositeVars
  PROVE  CompositeTypeInv'
<1>1. RamTypeOK  BY CompositePieces
<1>2. CASE CodeProceeds \/ CompositeCallbackReturns
  <2>1. CASE PushToNext \/ DeleteFromNext \/ CallReturns
    BY <2>1, TypesPushToNext, TypesDeleteFromNext, TypesCallReturns
  <2>2. CASE /\ Tell \/ WriteGoesOn \/ WriteReturns \/ CallbackReturns
             /\ UNCHANGED <<todo, call, toAll>>
    <3>1. RamTypeOK'
      BY <1>1, <2>2, TypesTell, TypesWriteGoesOn, TypesWriteReturns,
         TypesCallbackReturns
    <3>2. QED  BY <2>2, <3>1, NoCallOfComposite
  <2>3. QED  BY <1>2, <2>1, <2>2 DEF CodeProceeds, CompositeCallbackReturns
<1>3. ASSUME NEW k \in Key, NEW data \in Value, CompositeWrite(k, data)
      PROVE  CompositeTypeInv'
  BY <1>3, TypesCompositeWrite
<1>4. ASSUME NEW k \in Key, NEW n \in Node, CompositeSubscribe(k, n)
      PROVE  CompositeTypeInv'
  BY <1>4, TypesCompositeSubscribe
<1>5. ASSUME NEW n \in Node, CompositeSubscribeAll(n) \/ CompositeUnsubscribe(n)
      PROVE  CompositeTypeInv'
  BY <1>5, TypesSubscribeAll, TypesUnsubscribe
<1>6. CASE UNCHANGED compositeVars
  <2>1. /\ UNCHANGED <<eventVars, value, writes, heard>>
        /\ UNCHANGED <<todo, call, toAll>>
    BY <1>6 DEF compositeVars, ramVars
  <2>2. RamTypeOK'  BY <1>1, <2>1, RamPieces, TypesHeard
  <2>3. QED  BY <2>1, <2>2, NoCallOfComposite
<1>7. ASSUME NEW k \in Key, KeyNotFound(k)  PROVE CompositeTypeInv'
  BY <1>6, <1>7 DEF KeyNotFound
<1>8. QED  BY <1>2, <1>3, <1>4, <1>5, <1>6, <1>7 DEF CompositeNext

LEMMA CompositeTypeInvariant == CompositeSpec => []CompositeTypeInv
BY CompositeTypeStart, CompositeTypeStep, PTL DEF CompositeSpec

\* What the composite and its streams keep is what it should be, also while a
\* subscription is on several lists and these run into one another: no link
\* and no iterator ever leaves the nodes, and nothing is left of a call that
\* has returned.
THEOREM CompositeTypeCorrect == CompositeSpec => []CompositeTypeOK
<1>1. CompositeTypeInv => CompositeTypeOK  BY DEF CompositeTypeInv
<1>2. QED  BY <1>1, CompositeTypeInvariant, PTL

-----------------------------------------------------------------------------
\* The program gives no more than one subscription to subscribe_all.
OneForAll == \A m, n \in ForAll : m = n

\* The lists of the single keys, and those of all keys.
ForKeys == List \ {AllOf(s) : s \in Stream}

\* Whoever is on a list of a key, or hangs behind somebody who is, is in S.
KeysWithin(S) ==
  /\ S \subseteq Node \ ForAll /\ Closed(S, next)
  /\ \A l \in ForKeys : head[l] \in S \cup {NULL}

\* The list of all keys of a stream is empty, or a subscription for all is its
\* first node and its last.
AllAlone ==
  \A s \in Stream :
    head[AllOf(s)] # NULL =>
      head[AllOf(s)] \in ForAll /\ next[head[AllOf(s)]] = NULL

OnAll == \A n \in toAll, s \in Range(Streams) : head[AllOf(s)] = n

Unsubscribing == call.op = "unsubscribe" => call.n \notin toAll

\* subscribe_all has been through the first d streams.
SubscribedTo(d) ==
  /\ Len(todo) = Len(Streams) - d
  /\ \A j \in 1 .. Len(todo) : todo[j] = <<AllOf(Streams[d + j])>>
  /\ \A j \in 1 .. Len(Streams) :
       head[AllOf(Streams[j])] = IF j <= d THEN call.n ELSE NULL

Subscribing ==
  call.op = "subscribe_all" => \E d \in 0 .. Len(Streams) : SubscribedTo(d)

\* The inductive invariant.
SharedInv ==
  /\ \E S \in SUBSET Node : KeysWithin(S)
  /\ AllAlone /\ OnAll /\ Unsubscribing /\ Subscribing

\* Which list is which.
LEMMA ListsApart ==
  /\ \A s, r \in Stream : AllOf(s) = AllOf(r) => s = r
  /\ \A s \in Stream, k \in Key :
       HasKey(s, k) => On(s, k) \in ForKeys /\ \A r \in Stream : On(s, k) # AllOf(r)
  /\ \A s \in Stream : AllOf(s) \in List /\ AllOf(s) \notin ForKeys
  /\ \A l \in List : l \in ForKeys \/ \E s \in Stream : l = AllOf(s)
<1>1. \A s, r : AllOf(s) = AllOf(r) => s = r  BY DEF AllOf
<1>2. \A s, r, k : On(s, k) # AllOf(r)  BY DEF On, AllOf
<1>3. QED  BY <1>1, <1>2, StreamFacts DEF ForKeys

LEMMA HeadIsLinked ==
  ASSUME NEW l, head[l] \in Node
  PROVE  head[l] \in Linked(l)
BY NullAssumption DEF Linked, Reach

LEMMA SharedKept ==
  ASSUME SharedInv, UNCHANGED <<listVars, todo, call, toAll>>
  PROVE  SharedInv'
<1>1. head' = head /\ next' = next  BY DEF listVars
<1>2. PICK S \in SUBSET Node : KeysWithin(S)  BY DEF SharedInv
<1>3. KeysWithin(S)'  BY <1>1, <1>2 DEF KeysWithin, Closed, ForKeys
<1>4. AllAlone' /\ OnAll' /\ Unsubscribing'
  BY <1>1 DEF SharedInv, AllAlone, OnAll, Unsubscribing
<1>5. Subscribing'  BY <1>1 DEF SharedInv, Subscribing, SubscribedTo
<1>6. QED  BY <1>3, <1>4, <1>5 DEF SharedInv

\* A subscription to a key is hung behind those to keys only.
LEMMA SharedSubscribe ==
  ASSUME CompositeTypeInv, SharedInv, NEW k \in Key, NEW n \in Node,
         CompositeSubscribe(k, n)
  PROVE  SharedInv'
<1>1. PICK s \in Stream : s = FindStream(k)
  BY FindStreamFacts, OfStreams DEF CompositeSubscribe, Having
<1>2. /\ HasKey(s, k) /\ n \notin ForAll /\ call = NoCall
      /\ Becomes(On(s, k), ListPush(head[On(s, k)], next, n))
      /\ UNCHANGED <<todo, call, toAll>>
  BY <1>1 DEF CompositeSubscribe, SubscribeKey, KeySubscribed, Subscribed, Push,
     Ready
<1>3. PICK l \in ForKeys : l = On(s, k) /\ \A r \in Stream : l # AllOf(r)
  BY <1>2, ListsApart
<1>4. head \in [List -> Pointer] /\ next \in Heap /\ l \in List
  BY CompositePieces, RamPieces DEF ListsTypeOK, ForKeys
<1>5. PICK S \in SUBSET Node : KeysWithin(S)  BY DEF SharedInv
<1>6. PICK h : h = head[l]  OBVIOUS
<1>7. PICK r : r = ListPush(h, next, n)  OBVIOUS
<1>8. PushedIn(S, r, h, next, n)
  BY <1>3, <1>4, <1>5, <1>6, <1>7, PushStays DEF KeysWithin
<1>9. head' = [head EXCEPT ![l] = r.head] /\ next' = r.next
  BY <1>2, <1>3, <1>6, <1>7 DEF Becomes
<1>10. r.head \in S \cup {n}
  BY <1>3, <1>5, <1>6, <1>8 DEF PushedIn, KeysWithin
<1>11. PICK T \in SUBSET Node : T = S \cup {n}  OBVIOUS
<1>12. KeysWithin(T)'
  <2>1. T \subseteq Node \ ForAll  BY <1>2, <1>5, <1>11 DEF KeysWithin
  <2>2. Closed(T, next')  BY <1>8, <1>9, <1>11 DEF PushedIn
  <2>3. \A m \in ForKeys : head'[m] \in T \cup {NULL}
    BY <1>4, <1>5, <1>9, <1>10, <1>11 DEF KeysWithin, ForKeys
  <2>4. QED  BY <2>1, <2>2, <2>3 DEF KeysWithin, ForKeys
<1>13. \A q \in Stream : head'[AllOf(q)] = head[AllOf(q)]
  BY <1>3, <1>4, <1>9, ListsApart
<1>14. \A m \in ForAll : next'[m] = next[m]
  <2>1. \A m \in ForAll : m \in Node \ (S \cup {n})
    BY <1>2, <1>5, CompositeConstants DEF KeysWithin
  <2>2. QED  BY <1>8, <1>9, <2>1 DEF PushedIn
<1>15. AllAlone'  BY <1>13, <1>14 DEF SharedInv, AllAlone
<1>16. OnAll'
  <2>1. \A q \in Range(Streams) : q \in Stream  BY OfStreams DEF Range
  <2>2. QED  BY <1>2, <1>13, <2>1 DEF SharedInv, OnAll
<1>17. Unsubscribing' /\ Subscribing'
  BY <1>2 DEF Unsubscribing, Subscribing, NoCall
<1>18. QED  BY <1>12, <1>15, <1>16, <1>17 DEF SharedInv

\* subscribe_all is called with a subscription that is on no list, so the list
\* of all keys of every stream is empty.
LEMMA SharedSubscribeAll ==
  ASSUME OneForAll, CompositeTypeInv, SharedInv, NEW n \in Node,
         CompositeSubscribeAll(n)
  PROVE  SharedInv'
<1>1. /\ n \in ForAll /\ Unlinked(n) /\ UNCHANGED <<listVars, toAll>>
      /\ call' = [op |-> "subscribe_all", n |-> n]
      /\ todo' = [i \in DOMAIN Streams |-> <<AllOf(Streams[i])>>]
  BY DEF CompositeSubscribeAll, eventVars
<1>2. head' = head /\ next' = next  BY <1>1 DEF listVars
<1>3. \A s \in Stream : head[AllOf(s)] = NULL
  <2>1. SUFFICES ASSUME NEW s \in Stream, head[AllOf(s)] # NULL PROVE FALSE
    OBVIOUS
  <2>2. head[AllOf(s)] \in ForAll  BY <2>1 DEF SharedInv, AllAlone
  <2>3. head[AllOf(s)] = n  BY <1>1, <2>2 DEF OneForAll
  <2>4. n \in Linked(AllOf(s))  BY <2>3, HeadIsLinked
  <2>5. QED  BY <1>1, <2>4, ListsApart DEF Unlinked
<1>4. PICK S \in SUBSET Node : KeysWithin(S)  BY DEF SharedInv
<1>5. KeysWithin(S)'  BY <1>2, <1>4 DEF KeysWithin, Closed, ForKeys
<1>6. AllAlone' /\ OnAll'  BY <1>1, <1>2 DEF SharedInv, AllAlone, OnAll
<1>7. call'.op = "subscribe_all"  BY <1>1
<1>8. Unsubscribing'  BY <1>7 DEF Unsubscribing
<1>9. SubscribedTo(0)'
  <2>1. DOMAIN todo' = 1 .. Len(Streams) /\ Len(todo') = Len(Streams)
    BY <1>1, OfStreams
  <2>2. \A j \in 1 .. Len(todo') : todo'[j] = <<AllOf(Streams[0 + j])>>
    BY <1>1, <2>1, OfStreams
  <2>3. \A j \in 1 .. Len(Streams) : ~(j <= 0) /\ head'[AllOf(Streams[j])] = NULL
    BY <1>2, <1>3, OfStreams
  <2>4. QED  BY <2>1, <2>2, <2>3, OfStreams DEF SubscribedTo
<1>10. Subscribing'
  <2>1. 0 \in 0 .. Len(Streams)  BY OfStreams
  <2>2. QED  BY <1>9, <2>1 DEF Subscribing
<1>11. QED  BY <1>5, <1>6, <1>8, <1>10 DEF SharedInv

\* subscribe_all goes on to the next stream, whose list is empty: it makes the
\* subscription its only node and disturbs no other list.
LEMMA NextIsEmpty ==
  ASSUME CompositeTypeInv, SharedInv, PushToNext
  PROVE  \E d \in 0 .. Len(Streams) - 1 :
           /\ SubscribedTo(d) /\ d + 1 \in 1 .. Len(Streams)
           /\ NextList = AllOf(Streams[d + 1]) /\ head[NextList] = NULL
           /\ todo' = Tail(todo)
<1>1. call.op = "subscribe_all" /\ todo # <<>> /\ ListDone  BY DEF PushToNext
<1>2. PICK d \in 0 .. Len(Streams) : SubscribedTo(d)
  BY <1>1 DEF SharedInv, Subscribing
<1>3. todo \in Seq(Lists) /\ Len(todo) \in Nat \ {0} /\ Head(todo) = todo[1]
  BY <1>1, CompositePieces
<1>4. Len(todo) = Len(Streams) - d  BY <1>2 DEF SubscribedTo
<1>5. d \in 0 .. Len(Streams) - 1 /\ d + 1 \in 1 .. Len(Streams)
  <2>1. PICK k \in Nat \ {0} : k = Len(todo)  BY <1>3
  <2>2. QED  BY <1>4, <2>1, OfStreams
<1>6. todo[1] = <<AllOf(Streams[d + 1])>>  BY <1>2, <1>3 DEF SubscribedTo
<1>7. NextList = AllOf(Streams[d + 1]) /\ Len(Head(todo)) = 1
  <2>1. PICK l : l = AllOf(Streams[d + 1])  OBVIOUS
  <2>2. Head(todo) = <<l>>  BY <1>3, <1>6, <2>1
  <2>3. Head(<<l>>) = l /\ Len(<<l>>) = 1  OBVIOUS
  <2>4. QED  BY <2>1, <2>2, <2>3, Zenon DEF NextList
<1>8. head[AllOf(Streams[d + 1])] = NULL  BY <1>2, <1>5 DEF SubscribedTo
<1>9. todo' = Tail(todo)
  <2>1. ~(1 > 1)  OBVIOUS
  <2>2. QED  BY <1>1, <1>7, <2>1, Zenon DEF ListDone
<1>10. QED  BY <1>2, <1>5, <1>7, <1>8, <1>9

LEMMA SharedPushToNext ==
  ASSUME OneForAll, DistinctStreams, CompositeTypeInv, SharedInv, PushToNext
  PROVE  SharedInv'
<1>1. PICK d \in 0 .. Len(Streams) - 1 :
        /\ SubscribedTo(d) /\ d + 1 \in 1 .. Len(Streams)
        /\ NextList = AllOf(Streams[d + 1]) /\ head[NextList] = NULL
        /\ todo' = Tail(todo)
  BY NextIsEmpty
<1>2. PICK s \in Stream : s = Streams[d + 1]  BY <1>1, OfStreams
<1>3. /\ call.op = "subscribe_all" /\ todo # <<>>
      /\ UNCHANGED <<call, toAll>>
      /\ Becomes(NextList, ListPush(head[NextList], next, call.n))
  BY DEF PushToNext
<1>4. PICK n \in ForAll : n = call.n
  BY <1>3, CompositePieces DEF SubscribesOwn
<1>5. n \in Node  BY CompositeConstants
<1>6. head \in [List -> Pointer] /\ next \in Heap /\ AllOf(s) \in List
  BY CompositePieces, RamPieces, ListsApart DEF ListsTypeOK
<1>7. PICK r : r = ListPush(NULL, next, n)  OBVIOUS
<1>8. PushedIn({}, r, NULL, next, n)
  <2>1. Closed({}, next)  BY DEF Closed
  <2>2. QED  BY <1>5, <1>6, <1>7, <2>1, PushStays
<1>9. /\ r.head = n /\ r.next \in Heap /\ r.next[n] = NULL
      /\ \A m \in Node \ {n} : r.next[m] = next[m]
  BY <1>8 DEF PushedIn
<1>10. head' = [head EXCEPT ![AllOf(s)] = n] /\ next' = r.next
  BY <1>1, <1>2, <1>3, <1>4, <1>7, <1>9 DEF Becomes
<1>11. /\ head'[AllOf(s)] = n
       /\ \A l \in List \ {AllOf(s)} : head'[l] = head[l]
  BY <1>6, <1>10
<1>12. PICK S \in SUBSET Node : KeysWithin(S)  BY DEF SharedInv
<1>13. KeysWithin(S)'
  <2>1. n \notin S  BY <1>12 DEF KeysWithin
  <2>2. Closed(S, next')  BY <1>9, <1>10, <1>12, <2>1 DEF KeysWithin, Closed
  <2>3. \A l \in ForKeys : head'[l] = head[l]
    BY <1>11, ListsApart DEF ForKeys
  <2>4. QED  BY <1>12, <2>2, <2>3 DEF KeysWithin, ForKeys
<1>14. AllAlone'
  <2>1. ASSUME NEW q \in Stream, head'[AllOf(q)] # NULL
        PROVE  head'[AllOf(q)] \in ForAll /\ next'[head'[AllOf(q)]] = NULL
    <3>1. CASE q = s  BY <1>9, <1>10, <1>11, <3>1
    <3>2. CASE q # s
      <4>1. head'[AllOf(q)] = head[AllOf(q)]  BY <1>11, <3>2, ListsApart
      <4>2. PICK m : m = head[AllOf(q)]  OBVIOUS
      <4>3. m \in ForAll  BY <2>1, <4>1, <4>2 DEF SharedInv, AllAlone
      <4>4. m = n  BY <4>3 DEF OneForAll
      <4>5. QED  BY <1>9, <1>10, <4>1, <4>2, <4>4
    <3>3. QED  BY <3>1, <3>2
  <2>2. QED  BY <2>1 DEF AllAlone
<1>15. OnAll'
  <2>1. ASSUME NEW m \in toAll, NEW q \in Range(Streams)
        PROVE  head'[AllOf(q)] = m
    <3>1. q \in Stream /\ AllOf(q) \in List  BY OfStreams, ListsApart DEF Range
    <3>2. m = n  BY CompositePieces DEF OneForAll
    <3>3. head[AllOf(q)] = m  BY DEF SharedInv, OnAll
    <3>4. QED  BY <1>11, <3>1, <3>2, <3>3
  <2>2. QED  BY <1>3, <2>1 DEF OnAll
<1>16. Unsubscribing'  BY <1>3 DEF Unsubscribing
<1>17. PICK e : e = d + 1  OBVIOUS
<1>18. SubscribedTo(e)'
  <2>1. todo \in Seq(Lists) /\ Len(todo) \in Nat \ {0}
    BY <1>3, CompositePieces
  <2>2. PICK t : t = Tail(todo)  OBVIOUS
  <2>3. Len(t) = Len(todo) - 1 /\ \A j \in 1 .. Len(t) : t[j] = todo[j + 1]
    BY <2>1, <2>2
  <2>4. Len(todo) = Len(Streams) - d  BY <1>1 DEF SubscribedTo
  <2>5. Len(t) = Len(Streams) - e  BY <1>17, <2>3, <2>4, OfStreams
  <2>6. ASSUME NEW j \in 1 .. Len(t)  PROVE t[j] = <<AllOf(Streams[e + j])>>
    <3>1. j + 1 \in 1 .. Len(todo)  BY <2>1, <2>3
    <3>2. PICK i : i = j + 1  OBVIOUS
    <3>3. todo[i] = <<AllOf(Streams[d + i])>>
      BY <1>1, <3>1, <3>2 DEF SubscribedTo
    <3>4. d + i = e + j  BY <1>17, <3>2
    <3>5. QED  BY <2>3, <3>2, <3>3, <3>4
  <2>7. ASSUME NEW j \in 1 .. Len(Streams)
        PROVE  head'[AllOf(Streams[j])] = IF j <= e THEN n ELSE NULL
    <3>1. Streams[j] \in Stream /\ AllOf(Streams[j]) \in List
      BY OfStreams, ListsApart
    <3>2. head[AllOf(Streams[j])] = IF j <= d THEN n ELSE NULL
      BY <1>1, <1>4 DEF SubscribedTo
    <3>3. CASE j = e
      <4>1. Streams[j] = s  BY <1>2, <1>17, <3>3
      <4>2. QED  BY <1>11, <3>3, <4>1
    <3>4. CASE j # e
      <4>1. Streams[j] # s
        BY <1>1, <1>2, <1>17, <3>4, OfStreams DEF DistinctStreams, IsInjective
      <4>2. head'[AllOf(Streams[j])] = head[AllOf(Streams[j])]
        BY <1>11, <3>1, <4>1, ListsApart
      <4>3. j <= e <=> j <= d  BY <1>17, <3>4
      <4>4. QED  BY <3>2, <4>2, <4>3
    <3>5. QED  BY <3>3, <3>4
  <2>8. todo' = t /\ call'.n = n  BY <1>1, <1>3, <1>4, <2>2
  <2>9. QED  BY <2>5, <2>6, <2>7, <2>8 DEF SubscribedTo
<1>19. Subscribing'
  <2>1. e \in 0 .. Len(Streams)  BY <1>17, OfStreams
  <2>2. QED  BY <1>18, <2>1 DEF Subscribing
<1>20. QED  BY <1>13, <1>14, <1>15, <1>16, <1>19 DEF SharedInv

LEMMA SharedUnsubscribe ==
  ASSUME SharedInv, NEW n \in Node, CompositeUnsubscribe(n)
  PROVE  SharedInv'
<1>1. /\ UNCHANGED listVars /\ toAll' = toAll \ {n}
      /\ call' = [op |-> "unsubscribe", n |-> n]
  BY DEF CompositeUnsubscribe, ramVars, eventVars
<1>2. head' = head /\ next' = next  BY <1>1 DEF listVars
<1>3. PICK S \in SUBSET Node : KeysWithin(S)  BY DEF SharedInv
<1>4. KeysWithin(S)'  BY <1>2, <1>3 DEF KeysWithin, Closed, ForKeys
<1>5. AllAlone' /\ OnAll'  BY <1>1, <1>2 DEF SharedInv, AllAlone, OnAll
<1>6. Unsubscribing' /\ Subscribing'
  BY <1>1 DEF Unsubscribing, Subscribing
<1>7. QED  BY <1>4, <1>5, <1>6 DEF SharedInv

\* Nobody can be behind the only node of a list.
LEMMA OnlyNode ==
  ASSUME SharedInv, NEW s \in Stream
  PROVE  \E H \in SUBSET ForAll :
           /\ head[AllOf(s)] \in H \cup {NULL} /\ Closed(H, next)
           /\ \A m \in H : next[m] = NULL
<1>1. CASE head[AllOf(s)] = NULL
  <2>1. Closed({}, next)  BY DEF Closed
  <2>2. QED  BY <1>1, <2>1
<1>2. CASE head[AllOf(s)] # NULL
  <2>1. PICK h : h = head[AllOf(s)]  OBVIOUS
  <2>2. h \in ForAll /\ next[h] = NULL
    BY <1>2, <2>1 DEF SharedInv, AllAlone
  <2>3. Closed({h}, next)  BY <2>2 DEF Closed
  <2>4. QED  BY <2>1, <2>2, <2>3
<1>3. QED  BY <1>1, <1>2

\* unsubscribe looks through the lists of the keys, where it finds nobody who
\* is subscribed to all.
LEMMA SharedDeleteFromKey ==
  ASSUME CompositeTypeInv, SharedInv, DeleteFromNext, NextList \in ForKeys
  PROVE  SharedInv'
<1>1. /\ UNCHANGED <<call, toAll>> /\ call.op = "unsubscribe"
      /\ Becomes(NextList, ListDelete(head[NextList], next, call.n))
  BY DEF DeleteFromNext
<1>2. PICK n \in Node : n = call.n  BY <1>1, CallFacts
<1>3. PICK l \in ForKeys : l = NextList  OBVIOUS
<1>4. head \in [List -> Pointer] /\ next \in Heap /\ l \in List
  BY CompositePieces, RamPieces DEF ListsTypeOK, ForKeys
<1>5. PICK S \in SUBSET Node : KeysWithin(S)  BY DEF SharedInv
<1>6. PICK h : h = head[l]  OBVIOUS
<1>7. PICK r : r = ListDelete(h, next, n)  OBVIOUS
<1>8. DeletedIn(S, r, h, next, n)
  BY <1>4, <1>5, <1>6, <1>7, DeleteStays DEF KeysWithin
<1>9. head' = [head EXCEPT ![l] = r.head] /\ next' = r.next
  BY <1>1, <1>2, <1>3, <1>6, <1>7 DEF Becomes
<1>10. KeysWithin(S)'
  <2>1. Closed(S, next')  BY <1>8, <1>9 DEF DeletedIn
  <2>2. \A m \in ForKeys : head'[m] \in S \cup {NULL}
    BY <1>4, <1>5, <1>8, <1>9 DEF DeletedIn, KeysWithin, ForKeys
  <2>3. QED  BY <1>5, <2>1, <2>2 DEF KeysWithin, ForKeys
<1>11. \A q \in Stream : head'[AllOf(q)] = head[AllOf(q)]
  BY <1>4, <1>9, ListsApart
<1>12. \A m \in ForAll : next'[m] = next[m]
  <2>1. \A m \in ForAll : m \in Node \ S
    BY <1>5, CompositeConstants DEF KeysWithin
  <2>2. QED  BY <1>8, <1>9, <2>1 DEF DeletedIn
<1>13. AllAlone'  BY <1>11, <1>12 DEF SharedInv, AllAlone
<1>14. OnAll'
  <2>1. \A q \in Range(Streams) : q \in Stream  BY OfStreams DEF Range
  <2>2. QED  BY <1>1, <1>11, <2>1 DEF SharedInv, OnAll
<1>15. Unsubscribing' /\ Subscribing'
  BY <1>1 DEF SharedInv, Unsubscribing, Subscribing
<1>16. QED  BY <1>10, <1>13, <1>14, <1>15 DEF SharedInv

\* And the list of all keys, where it finds its own subscription or nothing.
LEMMA SharedDeleteFromAll ==
  ASSUME CompositeTypeInv, SharedInv, DeleteFromNext, NEW s \in Stream,
         NextList = AllOf(s)
  PROVE  SharedInv'
<1>1. /\ UNCHANGED <<call, toAll>> /\ call.op = "unsubscribe"
      /\ Becomes(NextList, ListDelete(head[NextList], next, call.n))
  BY DEF DeleteFromNext
<1>2. PICK n \in Node : n = call.n  BY <1>1, CallFacts
<1>3. n \notin toAll  BY <1>1, <1>2 DEF SharedInv, Unsubscribing
<1>4. head \in [List -> Pointer] /\ next \in Heap /\ AllOf(s) \in List
  BY CompositePieces, RamPieces, ListsApart DEF ListsTypeOK
<1>5. PICK h : h = head[AllOf(s)]  OBVIOUS
<1>6. PICK r : r = ListDelete(h, next, n)  OBVIOUS
<1>7. PICK H \in SUBSET Node :
        /\ h \in H \cup {NULL} /\ Closed(H, next)
        /\ \A m \in H : next[m] = NULL
  BY <1>5, OnlyNode, CompositeConstants
<1>8. DeletedIn(H, r, h, next, n)  BY <1>4, <1>6, <1>7, DeleteStays
<1>9. r.next = next
  <2>1. \A m \in Node : r.next[m] = next[m]
    BY <1>7, <1>8, NullAssumption DEF DeletedIn
  <2>2. r.next \in Heap  BY <1>8 DEF DeletedIn
  <2>3. QED  BY <1>4, <2>1, <2>2 DEF Heap
<1>10. r.head = IF h = n THEN NULL ELSE h
  BY <1>7, <1>8, NullAssumption DEF DeletedIn
<1>11. /\ next' = next
       /\ \A l \in List : head'[l] = IF l = AllOf(s) THEN r.head ELSE head[l]
  BY <1>1, <1>2, <1>4, <1>5, <1>6, <1>9 DEF Becomes
<1>12. PICK S \in SUBSET Node : KeysWithin(S)  BY DEF SharedInv
<1>13. KeysWithin(S)'
  <2>1. \A l \in ForKeys : head'[l] = head[l]
    BY <1>11, ListsApart DEF ForKeys
  <2>2. QED  BY <1>11, <1>12, <2>1 DEF KeysWithin, ForKeys, Closed
<1>14. \A q \in Stream : \/ head'[AllOf(q)] = head[AllOf(q)]
                         \/ /\ head'[AllOf(q)] = NULL
                            /\ head[AllOf(q)] = n
  BY <1>5, <1>10, <1>11, ListsApart
<1>15. AllAlone'  BY <1>11, <1>14 DEF SharedInv, AllAlone
<1>16. OnAll'
  <2>1. \A q \in Range(Streams) : q \in Stream  BY OfStreams DEF Range
  <2>2. QED  BY <1>1, <1>3, <1>14, <2>1 DEF SharedInv, OnAll
<1>17. Unsubscribing' /\ Subscribing'
  BY <1>1 DEF SharedInv, Unsubscribing, Subscribing
<1>18. QED  BY <1>13, <1>15, <1>16, <1>17 DEF SharedInv

\* When subscribe_all returns, it has been through all streams.
LEMMA SharedCallReturns ==
  ASSUME CompositeTypeInv, SharedInv, CallReturns
  PROVE  SharedInv'
<1>1. /\ ~Ready /\ todo = <<>> /\ call' = NoCall /\ UNCHANGED listVars
      /\ \/ call.op = "subscribe_all" /\ toAll' = toAll \cup {call.n}
         \/ call.op # "subscribe_all" /\ toAll' = toAll
  BY DEF CallReturns, eventVars
<1>2. head' = head /\ next' = next  BY <1>1 DEF listVars
<1>3. PICK S \in SUBSET Node : KeysWithin(S)  BY DEF SharedInv
<1>4. KeysWithin(S)'  BY <1>2, <1>3 DEF KeysWithin, Closed, ForKeys
<1>5. AllAlone'  BY <1>2 DEF SharedInv, AllAlone
<1>6. ASSUME call.op = "subscribe_all"
      PROVE  \A q \in Range(Streams) : head[AllOf(q)] = call.n
  <2>1. PICK d \in 0 .. Len(Streams) : SubscribedTo(d)
    BY <1>6 DEF SharedInv, Subscribing
  <2>2. Len(todo) = 0  BY <1>1
  <2>3. d = Len(Streams)  BY <2>1, <2>2, OfStreams DEF SubscribedTo
  <2>4. \A j \in 1 .. Len(Streams) : head[AllOf(Streams[j])] = call.n
    BY <2>1, <2>3, OfStreams DEF SubscribedTo
  <2>5. QED  BY <2>4, OfStreams DEF Range
<1>7. OnAll'  BY <1>1, <1>2, <1>6 DEF SharedInv, OnAll
<1>8. Unsubscribing' /\ Subscribing'
  BY <1>1 DEF Unsubscribing, Subscribing, NoCall
<1>9. QED  BY <1>4, <1>5, <1>7, <1>8 DEF SharedInv

LEMMA SharedStart == CompositeInit => SharedInv
<1>1. SUFFICES ASSUME CompositeInit PROVE SharedInv  OBVIOUS
<1>2. /\ head = [l \in List |-> NULL] /\ call = NoCall /\ toAll = {}
  BY <1>1 DEF CompositeInit, RamInit, EventInit, ListsInit
<1>3. PICK S \in SUBSET Node : S = {}  OBVIOUS
<1>4. KeysWithin(S)  BY <1>2, <1>3 DEF KeysWithin, Closed, ForKeys
<1>5. AllAlone /\ OnAll  BY <1>2, ListsApart DEF AllAlone, OnAll
<1>6. Unsubscribing /\ Subscribing
  BY <1>2 DEF Unsubscribing, Subscribing, NoCall
<1>7. QED  BY <1>4, <1>5, <1>6 DEF SharedInv

LEMMA SharedStep ==
  ASSUME OneForAll, DistinctStreams, CompositeTypeInv, SharedInv,
         [CompositeNext]_compositeVars
  PROVE  SharedInv'
<1>1. CASE UNCHANGED <<listVars, todo, call, toAll>>  BY <1>1, SharedKept
<1>2. CASE CodeProceeds \/ CompositeCallbackReturns
  <2>1. CASE PushToNext  BY <2>1, SharedPushToNext
  <2>2. CASE DeleteFromNext
    <3>1. todo # <<>>  BY <2>2 DEF DeleteFromNext
    <3>2. NextList \in ForKeys \/ \E s \in Stream : NextList = AllOf(s)
      BY <3>1, ListDoneFacts, ListsApart
    <3>3. QED  BY <2>2, <3>2, SharedDeleteFromKey, SharedDeleteFromAll
  <2>3. CASE CallReturns  BY <2>3, SharedCallReturns
  <2>4. CASE /\ Tell \/ WriteGoesOn \/ WriteReturns \/ CallbackReturns
             /\ UNCHANGED <<todo, call, toAll>>
    BY <1>1, <2>4 DEF Tell, Call, WriteGoesOn, WriteReturns, PublishReturns,
       CallbackReturns, Return
  <2>5. QED
    BY <1>2, <2>1, <2>2, <2>3, <2>4 DEF CodeProceeds, CompositeCallbackReturns
<1>3. ASSUME NEW k \in Key, NEW data \in Value, CompositeWrite(k, data)
      PROVE  SharedInv'
  BY <1>1, <1>3 DEF CompositeWrite, Write, Publish, WriteWithoutEffect, ramVars,
     eventVars
<1>4. ASSUME NEW k \in Key, NEW n \in Node, CompositeSubscribe(k, n)
      PROVE  SharedInv'
  BY <1>4, SharedSubscribe
<1>5. ASSUME NEW n \in Node, CompositeSubscribeAll(n) \/ CompositeUnsubscribe(n)
      PROVE  SharedInv'
  BY <1>5, SharedSubscribeAll, SharedUnsubscribe
<1>6. CASE UNCHANGED compositeVars
  BY <1>1, <1>6 DEF compositeVars, ramVars, eventVars
<1>7. ASSUME NEW k \in Key, KeyNotFound(k)  PROVE SharedInv'
  BY <1>6, <1>7 DEF KeyNotFound
<1>8. QED  BY <1>2, <1>3, <1>4, <1>5, <1>6, <1>7 DEF CompositeNext

LEMMA SharedOnEvery ==
  ASSUME CompositeTypeInv, SharedInv
  PROVE  OnEveryStream
<1>1. SUFFICES ASSUME NEW n \in toAll, NEW s \in Range(Streams)
               PROVE  n \in Linked(AllOf(s)) /\ WalkEnds(head[AllOf(s)], next)
  BY DEF OnEveryStream
<1>2. s \in Stream  BY OfStreams DEF Range
<1>3. n \in Node  BY CompositePieces, CompositeConstants
<1>4. head[AllOf(s)] = n  BY DEF SharedInv, OnAll
<1>5. n \in Linked(AllOf(s))  BY <1>3, <1>4, HeadIsLinked
<1>6. next[n] = NULL  BY <1>2, <1>3, <1>4, NullAssumption DEF SharedInv, AllAlone
<1>7. QED  BY <1>5, <1>6 DEF WalkEnds, Linked

\* As long as the program gives no more than one subscription to subscribe_all,
\* it stays on the list of every stream until it is unsubscribed, and a write
\* that walks such a list comes to its end, although the list shares its node
\* with the others, whatever is subscribed to keys, written and unsubscribed.
THEOREM OneForAllIsEverywhere ==
  ASSUME OneForAll, DistinctStreams
  PROVE  CompositeSpec => []OnEveryStream
<1>1. /\ CompositeTypeInv /\ SharedInv /\ [CompositeNext]_compositeVars
      => CompositeTypeInv' /\ SharedInv'
  BY CompositeTypeStep, SharedStep
<1>2. CompositeTypeInv /\ SharedInv => OnEveryStream  BY SharedOnEvery
<1>3. QED
  BY <1>1, <1>2, CompositeTypeStart, SharedStart, PTL DEF CompositeSpec

-----------------------------------------------------------------------------
(***************************************************************************)
(* What the lists hold.  They remain chains although a subscription for    *)
(* all is a node of several, since it is the only node of each; a list of  *)
(* a key shares its nodes with no other list.                              *)
(***************************************************************************)
KeysApart ==
  \A l \in ForKeys : \A m \in List \ {l} :
    Range(Contents[l]) \cap Range(Contents[m]) = {}

LinksInv == CompositeTypeInv /\ SharedInv /\ Chained /\ KeysApart

LEMMA ChainedFacts ==
  ASSUME Chained, NEW l \in List
  PROVE  /\ Contents[l] \in Seq(Node) /\ IsChain(Contents[l], head[l], next)
         /\ IsInjective(Contents[l])
         /\ Linked(l) = Range(Contents[l]) /\ Range(Contents[l]) \subseteq Node
<1>1. Contents[l] \in Seq(Node) /\ IsChain(Contents[l], head[l], next)
  BY DEF Chained
<1>2. Linked(l) = Range(Contents[l])  BY <1>1, ReachChain DEF Linked
<1>3. QED  BY <1>1, <1>2 DEF IsChain, Linked, Reach

LEMMA ChainedNext ==
  ASSUME Chained', NEW l \in List
  PROVE  Linked(l)' = Range(Contents'[l])
<1>1. PICK h, nx, s : h = head'[l] /\ nx = next' /\ s = Contents'[l]
  OBVIOUS
<1>2. s \in Seq(Node) /\ IsChain(s, h, nx)  BY <1>1 DEF Chained
<1>3. Reach(h, nx) = Range(s)  BY <1>2, ReachChain
<1>4. QED  BY <1>1, <1>3 DEF Linked

\* Sequences that are chains from the heads are what the lists hold.
LEMMA ContentsAre ==
  ASSUME NEW c \in [List -> Seq(Node)],
         \A l \in List : IsChain(c[l], head'[l], next')
  PROVE  Chained' /\ Contents' = c
<1>1. ASSUME NEW l \in List  PROVE Chain(head'[l], next') = c[l]
  <2>1. PICK h, nx, s : h = head'[l] /\ nx = next' /\ s = c[l]  OBVIOUS
  <2>2. s \in Seq(Node) /\ IsChain(s, h, nx)  BY <2>1
  <2>3. QED  BY <2>1, <2>2, ChainIs
<1>2. Contents' = [l \in List |-> Chain(head'[l], next')]  BY DEF Contents
<1>3. Contents' = c  BY <1>1, <1>2
<1>4. QED  BY <1>3 DEF Chained

LEMMA ChainUpdate ==
  ASSUME Chained, head \in [List -> Pointer], NEW l \in List, NEW r,
         Becomes(l, r), NEW t \in Seq(Node), IsChain(t, r.head, r.next),
         \A m \in List \ {l} : \A n \in Range(Contents[m]) : r.next[n] = next[n]
  PROVE  Chained' /\ Contents' = [Contents EXCEPT ![l] = t]
<1>1. /\ next' = r.next
      /\ \A m \in List : head'[m] = IF m = l THEN r.head ELSE head[m]
  BY DEF Becomes
<1>2. PICK c : c = [Contents EXCEPT ![l] = t]  OBVIOUS
<1>3. \A m \in List : c[m] = IF m = l THEN t ELSE Contents[m]
  BY <1>2 DEF Contents
<1>4. c \in [List -> Seq(Node)]
  <2>1. \A m \in List : c[m] \in Seq(Node)  BY <1>3, ChainedFacts
  <2>2. QED  BY <1>2, <2>1 DEF Contents
<1>5. ASSUME NEW m \in List  PROVE IsChain(c[m], head'[m], next')
  <2>1. CASE m = l  BY <1>1, <1>3, <2>1
  <2>2. CASE m # l
    <3>1. PICK s, h, ny : s = Contents[m] /\ h = head[m] /\ ny = r.next
      OBVIOUS
    <3>2. s \in Seq(Node) /\ IsChain(s, h, next)  BY <3>1, ChainedFacts
    <3>3. \A n \in Range(s) : ny[n] = next[n]  BY <2>2, <3>1
    <3>4. IsChain(s, h, ny)  BY <3>2, <3>3, ChainFrame
    <3>5. QED  BY <1>1, <1>3, <2>2, <3>1, <3>4
  <2>3. QED  BY <2>1, <2>2
<1>6. QED  BY <1>2, <1>4, <1>5, ContentsAre

\* The lists of the keys hold nobody who is subscribed to all.
LEMMA KeyContents ==
  ASSUME Chained, NEW S, KeysWithin(S), NEW l \in ForKeys
  PROVE  Range(Contents[l]) \subseteq S
<1>1. l \in List  BY DEF ForKeys
<1>2. Linked(l) \subseteq S  BY DEF KeysWithin, Linked, Reach
<1>3. QED  BY <1>1, <1>2, ChainedFacts

LEMMA NoneForAll ==
  ASSUME Chained, SharedInv, NEW l \in ForKeys
  PROVE  Range(Contents[l]) \cap ForAll = {}
<1>1. PICK S \in SUBSET Node : KeysWithin(S)  BY DEF SharedInv
<1>2. QED  BY <1>1, KeyContents DEF KeysWithin

LEMMA ChainOfOne ==
  ASSUME NEW h \in Node, NEW nx, nx[h] = NULL
  PROVE  <<h>> \in Seq(Node) /\ IsChain(<<h>>, h, nx) /\ Range(<<h>>) = {h}
<1>1. PICK s : s = <<h>>  OBVIOUS
<1>2. s \in Seq(Node) /\ Len(s) = 1 /\ s[1] = h /\ DOMAIN s = {1} /\ s # <<>>
  BY <1>1
<1>3. IsChain(s, h, nx)  BY <1>2 DEF IsChain, IsInjective
<1>4. Range(s) = {h}  BY <1>2 DEF Range
<1>5. QED  BY <1>1, <1>2, <1>3, <1>4

\* The list of all keys of a stream.
LEMMA AllContents ==
  ASSUME Chained, AllAlone, NEW s \in Stream
  PROVE  /\ head[AllOf(s)] = NULL => Contents[AllOf(s)] = <<>>
         /\ head[AllOf(s)] # NULL =>
              /\ Contents[AllOf(s)] = <<head[AllOf(s)]>>
              /\ Range(Contents[AllOf(s)]) = {head[AllOf(s)]}
              /\ head[AllOf(s)] \in ForAll /\ next[head[AllOf(s)]] = NULL
<1>1. AllOf(s) \in List  BY ListsApart
<1>2. Contents[AllOf(s)] = Chain(head[AllOf(s)], next)  BY <1>1 DEF Contents
<1>3. CASE head[AllOf(s)] = NULL  BY <1>2, <1>3, RestOfNobody
<1>4. CASE head[AllOf(s)] # NULL
  <2>1. head[AllOf(s)] \in ForAll /\ next[head[AllOf(s)]] = NULL
    BY <1>4 DEF AllAlone
  <2>2. PICK h \in Node : h = head[AllOf(s)]  BY <2>1, CompositeConstants
  <2>3. /\ <<h>> \in Seq(Node) /\ IsChain(<<h>>, h, next)
        /\ Range(<<h>>) = {h}
    BY <2>1, <2>2, ChainOfOne
  <2>4. Chain(h, next) = <<h>>  BY <2>3, ChainIs
  <2>5. QED  BY <1>2, <1>4, <2>1, <2>2, <2>3, <2>4
<1>5. QED  BY <1>3, <1>4

\* A newcomer at the end of list l.
Appended(l, n) ==
  /\ Chained' /\ Contents' = [Contents EXCEPT ![l] = Append(Contents[l], n)]
  /\ stack' = DueWith(l, n)

LEMMA AppendedLinked ==
  ASSUME Chained, NEW l \in List, NEW n \in Node, Appended(l, n)
  PROVE  \A m \in List : Linked(m)' = Linked(m) \cup (IF m = l THEN {n} ELSE {})
<1>1. SUFFICES ASSUME NEW m \in List
               PROVE  Linked(m)' = Linked(m) \cup (IF m = l THEN {n} ELSE {})
  OBVIOUS
<1>2. Linked(m)' = Range(Contents'[m])  BY ChainedNext DEF Appended
<1>3. Contents'[m] = IF m = l THEN Append(Contents[l], n) ELSE Contents[m]
  BY DEF Appended, Contents
<1>4. Contents[m] \in Seq(Node) /\ Linked(m) = Range(Contents[m])
  BY ChainedFacts
<1>5. Range(Append(Contents[m], n)) = Range(Contents[m]) \cup {n}
  BY <1>4, RangeAppend
<1>6. QED  BY <1>2, <1>3, <1>4, <1>5

LEMMA ApartAppended ==
  ASSUME Chained, KeysApart, NEW l \in List, NEW n \in Node, Appended(l, n),
         \A m \in List \ {l} :
           n \in Range(Contents[m]) => l \notin ForKeys /\ m \notin ForKeys
  PROVE  KeysApart'
<1>1. \A m \in List :
        Range(Contents'[m]) = Range(Contents[m]) \cup (IF m = l THEN {n} ELSE {})
  BY AppendedLinked, ChainedFacts, ChainedNext DEF Appended
<1>2. SUFFICES ASSUME NEW k \in ForKeys, NEW m \in List \ {k}
               PROVE  Range(Contents'[k]) \cap Range(Contents'[m]) = {}
  BY DEF KeysApart, ForKeys
<1>3. k \in List /\ Range(Contents[k]) \cap Range(Contents[m]) = {}
  BY DEF KeysApart, ForKeys
<1>4. CASE k = l  BY <1>1, <1>3, <1>4
<1>5. CASE m = l  BY <1>1, <1>3, <1>5
<1>6. CASE k # l /\ m # l  BY <1>1, <1>3, <1>6
<1>7. QED  BY <1>4, <1>5, <1>6

LEMMA LinksSubscribe ==
  ASSUME LinksInv, NEW k \in Key, NEW n \in Node, CompositeSubscribe(k, n)
  PROVE  /\ KeysApart'
         /\ \E i \in DOMAIN Streams :
              /\ Streams[i] \in Stream /\ HasKey(Streams[i], k)
              /\ Appended(On(Streams[i], k), n)
              /\ On(Streams[i], k) \in List
              /\ heard' = [heard EXCEPT ![n][Streams[i]] = Knows(Streams[i], {k})]
<1>1. PICK i \in DOMAIN Streams : FindStream(k) = Streams[i]
  BY FindStreamFacts DEF CompositeSubscribe, Having
<1>2. PICK s \in Stream : s = Streams[i]  BY OfStreams
<1>3. /\ HasKey(s, k) /\ Unlinked(n) /\ stack' = DueWith(On(s, k), n)
      /\ Becomes(On(s, k), ListPush(head[On(s, k)], next, n))
      /\ heard' = [heard EXCEPT ![n][s] = Knows(s, {k})]
  BY <1>1, <1>2
     DEF CompositeSubscribe, SubscribeKey, KeySubscribed, Subscribed, Push
<1>4. PICK l \in ForKeys : l = On(s, k)  BY <1>3, ListsApart
<1>5. /\ head \in [List -> Pointer] /\ next \in Heap /\ l \in List
      /\ Chained /\ KeysApart
  BY CompositePieces, RamPieces DEF LinksInv, ListsTypeOK, ForKeys
<1>6. PICK q, h : q = Contents[l] /\ h = head[l]  OBVIOUS
<1>7. \A m \in List : n \notin Range(Contents[m])
  BY <1>3, <1>5, ChainedFacts DEF Unlinked
<1>8. q \in Seq(Node) /\ IsChain(q, h, next) /\ n \notin Range(q)
  BY <1>5, <1>6, <1>7, ChainedFacts
<1>9. PICK r : r = ListPush(h, next, n)  OBVIOUS
<1>10. Leaves(r, Append(q, n), next, Range(q) \cup {n})
  BY <1>5, <1>8, <1>9, PushChain
<1>11. ASSUME NEW m \in List \ {l}, NEW x \in Range(Contents[m])
       PROVE  r.next[x] = next[x]
  <2>1. x \in Node /\ x # n  BY <1>5, <1>7, <1>11, ChainedFacts
  <2>2. x \notin Range(q)  BY <1>5, <1>6, <1>11 DEF KeysApart
  <2>3. QED  BY <1>10, <2>1, <2>2 DEF Leaves
<1>12. Chained' /\ Contents' = [Contents EXCEPT ![l] = Append(q, n)]
  <2>1. PICK t : t = Append(q, n)  OBVIOUS
  <2>2. t \in Seq(Node) /\ IsChain(t, r.head, r.next)
    BY <1>8, <1>10, <2>1, RangeAppend DEF Leaves
  <2>3. Becomes(l, r)  BY <1>3, <1>4, <1>6, <1>9
  <2>4. QED  BY <1>5, <1>11, <2>1, <2>2, <2>3, ChainUpdate
<1>13. Appended(l, n)  BY <1>3, <1>4, <1>6, <1>12 DEF Appended
<1>14. KeysApart'  BY <1>5, <1>7, <1>13, ApartAppended
<1>15. QED  BY <1>2, <1>3, <1>4, <1>5, <1>13, <1>14

\* subscribe_all makes its subscription the only node of an empty list, and the
\* link it clears on the way is clear: if the subscription is on a list, it is
\* the last node of it.
LEMMA LinksPushToNext ==
  ASSUME OneForAll, LinksInv, PushToNext
  PROVE  /\ KeysApart'
         /\ \E i \in DOMAIN Streams :
              /\ Streams[i] \in Stream /\ NextList = AllOf(Streams[i])
              /\ NextList \in List /\ call.n \in Node /\ Appended(NextList, call.n)
<1>1. PICK i \in DOMAIN Streams :
        NextList = AllOf(Streams[i]) /\ head[NextList] = NULL
  BY NextIsEmpty, OfStreams DEF LinksInv
<1>2. PICK s \in Stream : s = Streams[i]  BY OfStreams
<1>3. PICK l \in List : l = NextList /\ l = AllOf(s)  BY <1>1, <1>2, ListsApart
<1>4. PICK n \in ForAll : n = call.n
  BY CompositePieces DEF LinksInv, PushToNext, SubscribesOwn
<1>5. /\ n \in Node /\ head \in [List -> Pointer] /\ next \in Heap
      /\ Chained /\ KeysApart /\ SharedInv
  BY CompositePieces, RamPieces, CompositeConstants DEF LinksInv, ListsTypeOK
<1>6. PICK r : r = ListPush(NULL, next, n)  OBVIOUS
<1>7. Becomes(l, r) /\ stack' = DueWith(l, n)
  BY <1>1, <1>3, <1>4, <1>6 DEF PushToNext
<1>8. PushedIn({}, r, NULL, next, n)
  <2>1. Closed({}, next)  BY DEF Closed
  <2>2. QED  BY <1>5, <1>6, <2>1, PushStays
<1>9. /\ r.head = n /\ r.next[n] = NULL
      /\ \A m \in Node \ {n} : r.next[m] = next[m]
  BY <1>8 DEF PushedIn
<1>10. ASSUME NEW m \in List \ {l}, n \in Range(Contents[m])
       PROVE  m \notin ForKeys /\ next[n] = NULL
  <2>1. m \notin ForKeys  BY <1>5, <1>10, NoneForAll
  <2>2. PICK q \in Stream : m = AllOf(q)  BY <2>1, ListsApart
  <2>3. head[m] # NULL
    <3>1. Range(<<>>) = {}  BY DEF Range
    <3>2. QED  BY <1>5, <1>10, <2>2, <3>1, AllContents DEF SharedInv
  <2>4. n = head[m] /\ next[head[m]] = NULL
    BY <1>5, <1>10, <2>2, <2>3, AllContents DEF SharedInv
  <2>5. QED  BY <2>1, <2>4
<1>11. ASSUME NEW m \in List \ {l}, NEW x \in Range(Contents[m])
       PROVE  r.next[x] = next[x]
  <2>1. x \in Node  BY <1>5, ChainedFacts
  <2>2. x = n => next[x] = NULL  BY <1>10, <1>11
  <2>3. QED  BY <1>9, <2>1, <2>2
<1>12. Contents[l] = <<>>  BY <1>1, <1>3, <1>5, AllContents DEF SharedInv
<1>13. PICK t : t = Append(Contents[l], n)  OBVIOUS
<1>14. t \in Seq(Node) /\ IsChain(t, r.head, r.next)
  <2>1. Append(<<>>, n) = <<n>>  OBVIOUS
  <2>2. t = <<n>>  BY <1>12, <1>13, <2>1
  <2>3. PICK ny : ny = r.next  OBVIOUS
  <2>4. <<n>> \in Seq(Node) /\ IsChain(<<n>>, n, ny)
    BY <1>5, <1>9, <2>3, ChainOfOne
  <2>5. QED  BY <1>9, <2>2, <2>3, <2>4
<1>15. Chained' /\ Contents' = [Contents EXCEPT ![l] = t]
  BY <1>5, <1>7, <1>11, <1>14, ChainUpdate
<1>16. Appended(l, n)  BY <1>7, <1>13, <1>15 DEF Appended
<1>17. KeysApart'
  <2>1. l \notin ForKeys  BY <1>3, ListsApart
  <2>2. \A m \in List \ {l} : n \in Range(Contents[m]) => m \notin ForKeys
    BY <1>10
  <2>3. QED  BY <1>5, <1>16, <2>1, <2>2, ApartAppended
<1>18. QED  BY <1>1, <1>2, <1>3, <1>4, <1>5, <1>16, <1>17

LEMMA ApartShrunk ==
  ASSUME KeysApart,
         \A l \in List : Range(Contents'[l]) \subseteq Range(Contents[l])
  PROVE  KeysApart'
<1>1. SUFFICES ASSUME NEW k \in ForKeys, NEW m \in List \ {k}
               PROVE  Range(Contents'[k]) \cap Range(Contents'[m]) = {}
  BY DEF KeysApart, ForKeys
<1>2. k \in List /\ Range(Contents[k]) \cap Range(Contents[m]) = {}
  BY DEF KeysApart, ForKeys
<1>3. QED  BY <1>2

\* A list that loses a subscription loses it for good: it was on it once.
LEMMA TakenAway ==
  ASSUME Chained, Chained', NEW l \in List, NEW n \in Node, TakenFrom({l}, n)
  PROVE  /\ \A m \in List : Linked(m)' \subseteq Linked(m)
         /\ n \notin Linked(l)'
         /\ \A m \in List : Range(Contents'[m]) \subseteq Range(Contents[m])
<1>1. \A m \in List : Range(Contents'[m]) \subseteq Range(Contents[m])
  <2>1. SUFFICES ASSUME NEW m \in List
                 PROVE  Range(Contents'[m]) \subseteq Range(Contents[m])
    OBVIOUS
  <2>2. PICK q : q = Contents[m]  OBVIOUS
  <2>3. q \in Seq(Node)  BY <2>2, ChainedFacts
  <2>4. Contents'[m] = q \/ \E j \in 1 .. Len(q) : Contents'[m] = RemoveAt(q, j)
    BY <2>2 DEF TakenFrom
  <2>5. QED  BY <2>2, <2>3, <2>4, RangeRemoveAt
<1>2. n \notin Range(Contents'[l])
  <2>1. CASE Contents'[l] = Contents[l] /\ n \notin Range(Contents[l])
    BY <2>1
  <2>2. ASSUME NEW j \in 1 .. Len(Contents[l]), Contents[l][j] = n,
               Contents'[l] = RemoveAt(Contents[l], j)
        PROVE  n \notin Range(Contents'[l])
    <3>1. PICK q : q = Contents[l]  OBVIOUS
    <3>2. PICK t : t = RemoveAt(q, j)  OBVIOUS
    <3>3. q \in Seq(Node) /\ IsInjective(q) /\ j \in 1 .. Len(q) /\ q[j] = n
      BY <2>2, <3>1, ChainedFacts
    <3>4. /\ t \in Seq(Node) /\ Len(t) = Len(q) - 1
          /\ \A i \in 1 .. Len(q) - 1 : t[i] = IF i < j THEN q[i] ELSE q[i+1]
      BY <3>2, <3>3, RemoveAtProperties
    <3>5. ASSUME NEW i \in 1 .. Len(t)  PROVE t[i] # n
      <4>1. PICK p : p = IF i < j THEN i ELSE i+1  OBVIOUS
      <4>2. p \in 1 .. Len(q) /\ p # j  BY <3>3, <3>4, <4>1
      <4>3. t[i] = q[p]  BY <3>4, <4>1
      <4>4. DOMAIN q = 1 .. Len(q)  BY <3>3
      <4>5. QED  BY <3>3, <4>2, <4>3, <4>4 DEF IsInjective
    <3>6. n \notin Range(t)  BY <3>4, <3>5 DEF Range
    <3>7. QED  BY <2>2, <3>1, <3>2, <3>6
  <2>3. QED  BY <2>1, <2>2 DEF TakenFrom
<1>3. QED  BY <1>1, <1>2, ChainedFacts, ChainedNext

LEMMA LinksDeleteFromNext ==
  ASSUME LinksInv, DeleteFromNext
  PROVE  /\ Chained' /\ KeysApart' /\ NextList \in List /\ call.n \in Node
         /\ TakenFrom({NextList}, call.n)
<1>1. /\ call.op = "unsubscribe" /\ todo # <<>>
      /\ Becomes(NextList, ListDelete(head[NextList], next, call.n))
  BY DEF DeleteFromNext
<1>2. PICK l \in List : l = NextList  BY <1>1, ListDoneFacts DEF LinksInv
<1>3. PICK n \in Node : n = call.n  BY <1>1, CallFacts DEF LinksInv
<1>4. /\ head \in [List -> Pointer] /\ next \in Heap
      /\ Chained /\ KeysApart /\ SharedInv
  BY CompositePieces, RamPieces DEF LinksInv, ListsTypeOK
<1>5. PICK q, h : q = Contents[l] /\ h = head[l]  OBVIOUS
<1>6. q \in Seq(Node) /\ IsChain(q, h, next)  BY <1>4, <1>5, ChainedFacts
<1>7. PICK r : r = ListDelete(h, next, n)  OBVIOUS
<1>8. Becomes(l, r)  BY <1>1, <1>2, <1>3, <1>5, <1>7
<1>9. Chained' /\ TakenFrom({l}, n)
  <2>1. CASE n \notin Range(q)
    <3>1. r.head = h /\ r.next = next  BY <1>4, <1>6, <1>7, <2>1, DeleteAbsent
    <3>2. UNCHANGED listVars  BY <1>4, <1>5, <1>8, <3>1 DEF Becomes, listVars
    <3>3. Contents' = Contents /\ Chained'  BY <1>4, <3>2, SameContents
    <3>4. QED  BY <1>5, <2>1, <3>3 DEF TakenFrom
  <2>2. CASE n \in Range(q)
    <3>1. PICK j \in 1 .. Len(q) : q[j] = n  BY <1>6, <2>2 DEF Range
    <3>2. PICK t : t = RemoveAt(q, j)  OBVIOUS
    <3>3. t \in Seq(Node)  BY <1>6, <3>2, RangeRemoveAt
    <3>4. Leaves(r, t, next, Range(q))
      BY <1>4, <1>6, <1>7, <3>1, <3>2, DeleteChain
    <3>5. IsChain(t, r.head, r.next) /\ \A m \in Node \ Range(q) : r.next[m] = next[m]
      BY <3>4 DEF Leaves
    <3>6. ASSUME NEW m \in List \ {l}, NEW x \in Range(Contents[m])
          PROVE  r.next[x] = next[x]
      <4>1. CASE l \in ForKeys
        <5>1. x \notin Range(q) /\ x \in Node
          BY <1>4, <1>5, <3>6, <4>1, ChainedFacts DEF KeysApart
        <5>2. QED  BY <3>5, <5>1
      <4>2. CASE l \notin ForKeys
        <5>1. PICK s \in Stream : l = AllOf(s)  BY <4>2, ListsApart
        <5>2. Range(<<>>) = {}  BY DEF Range
        <5>3. h # NULL  BY <1>4, <1>5, <2>2, <5>1, <5>2, AllContents DEF SharedInv
        <5>4. h = n
          BY <1>4, <1>5, <2>2, <5>1, <5>3, AllContents DEF SharedInv
        <5>5. r = [head |-> next[n], next |-> next]
          BY <1>7, <5>4 DEF ListDelete
        <5>6. QED  BY <5>5
      <4>3. QED  BY <4>1, <4>2
    <3>7. Chained' /\ Contents' = [Contents EXCEPT ![l] = t]
      BY <1>4, <1>8, <3>3, <3>5, <3>6, ChainUpdate
    <3>8. \A m \in List : Contents'[m] = IF m = l THEN t ELSE Contents[m]
      BY <3>7 DEF Contents
    <3>9. TakenFrom({l}, n)  BY <1>5, <3>1, <3>2, <3>8 DEF TakenFrom
    <3>10. QED  BY <3>7, <3>9
  <2>3. QED  BY <2>1, <2>2
<1>10. KeysApart'  BY <1>4, <1>9, TakenAway, ApartShrunk
<1>11. QED  BY <1>2, <1>3, <1>9, <1>10

LEMMA LinksStart == CompositeInit => LinksInv
<1>1. SUFFICES ASSUME CompositeInit PROVE LinksInv  OBVIOUS
<1>2. CompositeTypeInv /\ SharedInv /\ Chained
  BY <1>1, CompositeTypeStart, SharedStart, NewsStart DEF CompositeInit
<1>3. ListsInit  BY <1>1 DEF CompositeInit, RamInit, EventInit
<1>4. \A l \in List : Contents[l] = <<>>
  <2>1. Contents = [l \in List |-> <<>>]  BY <1>3, ListsStart
  <2>2. QED  BY <2>1
<1>5. Range(<<>>) = {}  BY DEF Range
<1>6. KeysApart  BY <1>4, <1>5 DEF KeysApart, ForKeys
<1>7. QED  BY <1>2, <1>6 DEF LinksInv

LEMMA LinksKept ==
  ASSUME LinksInv, UNCHANGED listVars
  PROVE  Chained' /\ KeysApart'
<1>1. Contents' = Contents /\ Chained'  BY SameContents DEF LinksInv
<1>2. QED  BY <1>1 DEF LinksInv, KeysApart, ForKeys

LEMMA LinksStep ==
  ASSUME OneForAll, DistinctStreams, LinksInv, [CompositeNext]_compositeVars
  PROVE  LinksInv'
<1>1. CompositeTypeInv' /\ SharedInv'
  BY CompositeTypeStep, SharedStep DEF LinksInv
<1>2. SUFFICES Chained' /\ KeysApart'  BY <1>1 DEF LinksInv
<1>3. CASE UNCHANGED listVars  BY <1>3, LinksKept
<1>4. CASE CodeProceeds \/ CompositeCallbackReturns
  <2>1. CASE PushToNext  BY <2>1, LinksPushToNext DEF Appended
  <2>2. CASE DeleteFromNext  BY <2>2, LinksDeleteFromNext
  <2>3. CASE CallReturns  BY <1>3, <2>3 DEF CallReturns, eventVars
  <2>4. CASE Tell \/ WriteGoesOn \/ WriteReturns \/ CallbackReturns
    BY <1>3, <2>4 DEF Tell, Call, WriteGoesOn, WriteReturns, PublishReturns,
       CallbackReturns, Return
  <2>5. QED
    BY <1>4, <2>1, <2>2, <2>3, <2>4 DEF CodeProceeds, CompositeCallbackReturns
<1>5. ASSUME NEW k \in Key, NEW data \in Value, CompositeWrite(k, data)
      PROVE  Chained' /\ KeysApart'
  BY <1>3, <1>5 DEF CompositeWrite, Write, Publish, WriteWithoutEffect, ramVars,
     eventVars
<1>6. ASSUME NEW k \in Key, NEW n \in Node, CompositeSubscribe(k, n)
      PROVE  Chained' /\ KeysApart'
  BY <1>6, LinksSubscribe DEF Appended
<1>7. ASSUME NEW n \in Node, CompositeSubscribeAll(n) \/ CompositeUnsubscribe(n)
      PROVE  Chained' /\ KeysApart'
  BY <1>3, <1>7 DEF CompositeSubscribeAll, CompositeUnsubscribe, ramVars,
     eventVars
<1>8. CASE UNCHANGED compositeVars
  BY <1>3, <1>8 DEF compositeVars, ramVars, eventVars
<1>9. ASSUME NEW k \in Key, KeyNotFound(k)  PROVE Chained' /\ KeysApart'
  BY <1>8, <1>9 DEF KeyNotFound
<1>10. QED  BY <1>4, <1>5, <1>6, <1>7, <1>8, <1>9 DEF CompositeNext

-----------------------------------------------------------------------------
(***************************************************************************)
(* unsubscribe finds the subscription wherever it is: it can only be on a  *)
(* list of a stream that is composed, and unsubscribe visits all of these. *)
(***************************************************************************)
InUse ==
  \A l \in List : Linked(l) # {} => \E i \in DOMAIN Streams : l \in EventsOf(Streams[i])

LeftIn(q, l) == \E i \in 1 .. Len(q) : \E j \in 1 .. Len(q[i]) : q[i][j] = l

Searching ==
  call.op = "unsubscribe" =>
    \A l \in List : call.n \in Linked(l) => LeftIn(todo, l)

SearchInv == LinksInv /\ InUse /\ Searching

LEMMA ShrunkInUse ==
  ASSUME InUse, \A l \in List : Linked(l)' \subseteq Linked(l)
  PROVE  InUse'
BY DEF InUse, EventsOf, AllOf, On, Count

LEMMA GrownInUse ==
  ASSUME InUse, Chained, NEW i \in DOMAIN Streams,
         NEW l \in List, l \in EventsOf(Streams[i]), NEW n \in Node, Appended(l, n)
  PROVE  InUse'
<1>1. \A m \in List : Linked(m)' # {} => m = l \/ Linked(m) # {}
  BY AppendedLinked
<1>2. QED  BY <1>1 DEF InUse, EventsOf, AllOf, On, Count

\* One list done, all the others are left.
LEMMA OthersLeft ==
  ASSUME NEW T, NEW q \in Seq(Seq(T) \ {<<>>}), q # <<>>, NEW r,
         r = IF Len(Head(q)) > 1 THEN [q EXCEPT ![1] = Tail(@)] ELSE Tail(q),
         NEW l, l # Head(Head(q)), LeftIn(q, l)
  PROVE  LeftIn(r, l)
<1>1. PICK i \in 1 .. Len(q) : \E j \in 1 .. Len(q[i]) : q[i][j] = l
  BY DEF LeftIn
<1>2. PICK j \in 1 .. Len(q[i]) : q[i][j] = l  BY <1>1
<1>3. /\ 1 \in 1 .. Len(q) /\ Head(q) = q[1] /\ Len(q) \in Nat
      /\ \A a \in 1 .. Len(q) : q[a] \in Seq(T) /\ q[a] # <<>>
  OBVIOUS
<1>4. PICK f : f = q[1]  OBVIOUS
<1>5. f \in Seq(T) /\ f # <<>> /\ Len(f) \in Nat  BY <1>3, <1>4
<1>6. PICK t : t = Tail(f)  OBVIOUS
<1>7. /\ Len(t) = Len(f) - 1 /\ Head(f) = f[1]
      /\ \A a \in 1 .. Len(f) - 1 : t[a] = f[a + 1]
  BY <1>5, <1>6
<1>8. i = 1 => j # 1  BY <1>2, <1>3, <1>4, <1>7
<1>9. CASE Len(f) > 1
  <2>1. r = [q EXCEPT ![1] = t]  BY <1>3, <1>4, <1>6, <1>9
  <2>2. Len(r) = Len(q) /\ \A a \in 1 .. Len(q) : r[a] = IF a = 1 THEN t ELSE q[a]
    <3>1. PICK U : U = Seq(T) \ {<<>>}  OBVIOUS
    <3>2. [q EXCEPT ![1] = Tail(@)] = r
      <4>1. [q EXCEPT ![1] = Tail(@)] = [q EXCEPT ![1] = t]  BY <1>4, <1>6
      <4>2. QED  BY <2>1, <4>1
    <3>3. [q EXCEPT ![1] = Tail(@)] \in Seq(U)
      <4>1. Len(Head(q)) > 1  BY <1>3, <1>4, <1>9
      <4>2. QED  BY <3>1, <4>1, NextListFacts
    <3>4. q \in Seq(U) /\ r \in Seq(U)  BY <3>1, <3>2, <3>3
    <3>5. DOMAIN r = DOMAIN q  BY <2>1
    <3>6. Len(r) = Len(q)  BY <3>4, <3>5
    <3>7. \A a \in DOMAIN q : r[a] = IF a = 1 THEN t ELSE q[a]  BY <2>1
    <3>8. DOMAIN q = 1 .. Len(q)  BY <3>4
    <3>9. QED  BY <3>6, <3>7, <3>8
  <2>3. CASE i = 1
    <3>1. j \in 1 .. Len(f) /\ f[j] = l /\ j # 1  BY <1>2, <1>4, <1>8, <2>3
    <3>2. PICK m : m = j - 1  OBVIOUS
    <3>3. m \in 1 .. Len(f) - 1 /\ m + 1 = j  BY <1>5, <3>1, <3>2
    <3>4. t[m] = l /\ m \in 1 .. Len(t)  BY <1>7, <3>1, <3>3
    <3>5. r[1] = t /\ 1 \in 1 .. Len(r)  BY <1>3, <2>2
    <3>6. QED  BY <3>4, <3>5 DEF LeftIn
  <2>4. CASE i # 1
    <3>1. r[i] = q[i] /\ i \in 1 .. Len(r)  BY <2>2, <2>4
    <3>2. QED  BY <1>2, <3>1 DEF LeftIn
  <2>5. QED  BY <2>3, <2>4
<1>10. CASE ~(Len(f) > 1)
  <2>1. Len(f) = 1
    <3>1. Len(f) \in Nat \ {0}  BY <1>3, <1>4, NextListFacts
    <3>2. PICK m \in Nat \ {0} : m = Len(f)  BY <3>1
    <3>3. ~(m > 1)  BY <1>10, <3>2
    <3>4. m = 1  BY <3>3
    <3>5. QED  BY <3>2, <3>4
  <2>2. i # 1  BY <1>2, <1>4, <1>8, <2>1
  <2>3. PICK a : a = i - 1  OBVIOUS
  <2>4. a \in 1 .. Len(q) - 1 /\ a + 1 = i  BY <1>3, <2>2, <2>3
  <2>5. r = Tail(q)  BY <1>3, <1>4, <1>10
  <2>6. Len(r) = Len(q) - 1 /\ \A b \in 1 .. Len(q) - 1 : r[b] = q[b + 1]
    BY <1>3, <2>5
  <2>7. r[a] = q[i] /\ a \in 1 .. Len(r)  BY <2>4, <2>6
  <2>8. QED  BY <1>2, <2>7 DEF LeftIn
<1>11. QED  BY <1>9, <1>10

\* At the beginning of unsubscribe, all are.
LEMMA AllLeft ==
  ASSUME NEW i \in DOMAIN Streams, NEW l \in EventsOf(Streams[i]), NEW q,
         q = [j \in DOMAIN Streams |-> ListsInOrder(Streams[j])]
  PROVE  LeftIn(q, l)
<1>1. PICK s \in Stream : s = Streams[i]  BY OfStreams
<1>2. Count(s) \in Nat /\ Count(s) > 0  BY StreamFacts
<1>3. PICK f : f = [k \in 1 .. Count(s) |-> On(s, k - 1)]  OBVIOUS
<1>4. PICK m : m = Count(s)  OBVIOUS
<1>5. PICK T : T = {On(s, k - 1) : k \in 1 .. m}  OBVIOUS
<1>6. f \in Seq(T) /\ Len(f) = m /\ \A k \in 1 .. m : f[k] = On(s, k - 1)
  BY <1>2, <1>3, <1>4, <1>5
<1>7. PICK g : g = Append(f, AllOf(s))  OBVIOUS
<1>8. /\ Len(g) = m + 1 /\ g[m + 1] = AllOf(s)
      /\ \A k \in 1 .. m : g[k] = On(s, k - 1)
  BY <1>6, <1>7
<1>9. \E k \in 1 .. Len(g) : g[k] = l
  <2>1. CASE l = AllOf(s)
    <3>1. m + 1 \in 1 .. Len(g)  BY <1>2, <1>4, <1>8
    <3>2. QED  BY <1>8, <2>1, <3>1
  <2>2. CASE \E k \in 0 .. m - 1 : l = On(s, k)
    <3>1. PICK k \in 0 .. m - 1 : l = On(s, k)  BY <2>2
    <3>2. PICK j : j = k + 1  OBVIOUS
    <3>3. j \in 1 .. m /\ j \in 1 .. Len(g) /\ j - 1 = k
      BY <1>2, <1>4, <1>8, <3>1, <3>2
    <3>4. g[j] = On(s, j - 1)  BY <1>8, <3>3
    <3>5. QED  BY <3>1, <3>3, <3>4
  <2>3. QED  BY <1>1, <1>4, <2>1, <2>2 DEF EventsOf
<1>10. q[i] = g  BY <1>1, <1>3, <1>7 DEF ListsInOrder
<1>11. i \in 1 .. Len(q)
  <2>1. DOMAIN Streams = 1 .. Len(Streams)  BY OfStreams
  <2>2. Len(q) = Len(Streams)  BY <2>1, OfStreams
  <2>3. QED  BY <2>1, <2>2
<1>12. QED  BY <1>9, <1>10, <1>11 DEF LeftIn

LEMMA SearchDelete ==
  ASSUME SearchInv, DeleteFromNext
  PROVE  InUse' /\ Searching'
<1>1. /\ call.op = "unsubscribe" /\ todo # <<>> /\ call' = call /\ ListDone
  BY DEF DeleteFromNext
<1>2. /\ Chained /\ Chained' /\ NextList \in List /\ call.n \in Node
      /\ TakenFrom({NextList}, call.n) /\ todo \in Seq(Lists)
  BY LinksDeleteFromNext, CompositePieces DEF SearchInv, LinksInv
<1>3. PICK l \in List : l = NextList  BY <1>2
<1>4. PICK n \in Node : n = call.n  BY <1>2
<1>5. n \notin Linked(l)' /\ \A m \in List : Linked(m)' \subseteq Linked(m)
  BY <1>2, <1>3, <1>4, TakenAway
<1>6. InUse'  BY <1>5, ShrunkInUse DEF SearchInv
<1>7. PICK r : r = todo'  OBVIOUS
<1>8. r = IF Len(Head(todo)) > 1 THEN [todo EXCEPT ![1] = Tail(@)] ELSE Tail(todo)
  BY <1>1, <1>7 DEF ListDone
<1>9. todo \in Seq(Seq(List) \ {<<>>})  BY <1>2 DEF Lists
<1>10. ASSUME NEW m \in List, n \in Linked(m)'  PROVE LeftIn(r, m)
  <2>1. m # l /\ n \in Linked(m)  BY <1>5, <1>10
  <2>2. m # Head(Head(todo)) /\ LeftIn(todo, m)
    BY <1>1, <1>3, <1>4, <2>1 DEF NextList, SearchInv, Searching
  <2>3. QED  BY <1>1, <1>8, <1>9, <2>2, OthersLeft
<1>11. Searching'
  <2>1. \A m \in List : n \in Linked(m)' => LeftIn(todo', m)
    BY <1>7, <1>10, Zenon
  <2>2. QED  BY <1>1, <1>4, <2>1, Zenon DEF Searching, LeftIn
<1>12. QED  BY <1>6, <1>11

\* No call of the composite's unsubscribe is under way, or none afterwards.
LEMMA NotSearching ==
  ASSUME call'.op # "unsubscribe"
  PROVE  Searching'
BY DEF Searching

LEMMA SearchKept ==
  ASSUME SearchInv, UNCHANGED listVars
  PROVE  InUse'
BY SameLinks, ShrunkInUse DEF SearchInv

LEMMA SearchStep ==
  ASSUME OneForAll, DistinctStreams, SearchInv, [CompositeNext]_compositeVars
  PROVE  SearchInv'
<1>1. LinksInv /\ Chained /\ CompositeTypeInv /\ InUse
  BY DEF SearchInv, LinksInv
<1>2. SUFFICES InUse' /\ Searching'  BY <1>1, LinksStep DEF SearchInv
<1>3. CASE UNCHANGED <<listVars, todo, call>>
  <2>1. \A l : Linked(l)' = Linked(l)  BY <1>3, SameLinks
  <2>2. Searching'
    BY <1>3, <2>1 DEF SearchInv, Searching, LeftIn
  <2>3. QED  BY <1>3, <2>2, SearchKept
<1>4. CASE CodeProceeds \/ CompositeCallbackReturns
  <2>1. CASE PushToNext
    <3>1. PICK i \in DOMAIN Streams :
            /\ Streams[i] \in Stream /\ NextList = AllOf(Streams[i])
            /\ NextList \in List /\ call.n \in Node /\ Appended(NextList, call.n)
      BY <1>1, <2>1, LinksPushToNext
    <3>2. PICK l \in List : l = NextList  BY <3>1
    <3>3. l \in EventsOf(Streams[i])  BY <3>1, <3>2 DEF EventsOf
    <3>4. InUse'  BY <1>1, <3>1, <3>2, <3>3, GrownInUse
    <3>5. call'.op # "unsubscribe"  BY <2>1 DEF PushToNext
    <3>6. QED  BY <3>4, <3>5, NotSearching
  <2>2. CASE DeleteFromNext  BY <2>2, SearchDelete
  <2>3. CASE CallReturns
    <3>1. UNCHANGED listVars /\ call'.op = "none"
      BY <2>3 DEF CallReturns, eventVars, NoCall
    <3>2. QED  BY <3>1, SearchKept, NotSearching
  <2>4. CASE /\ Tell \/ WriteGoesOn \/ WriteReturns \/ CallbackReturns
             /\ UNCHANGED <<todo, call, toAll>>
    BY <1>3, <2>4 DEF Tell, Call, WriteGoesOn, WriteReturns, PublishReturns,
       CallbackReturns, Return
  <2>5. QED
    BY <1>4, <2>1, <2>2, <2>3, <2>4 DEF CodeProceeds, CompositeCallbackReturns
<1>5. ASSUME NEW k \in Key, NEW data \in Value, CompositeWrite(k, data)
      PROVE  InUse' /\ Searching'
  BY <1>3, <1>5 DEF CompositeWrite, Write, Publish, WriteWithoutEffect, ramVars,
     eventVars
<1>6. ASSUME NEW k \in Key, NEW n \in Node, CompositeSubscribe(k, n)
      PROVE  InUse' /\ Searching'
  <2>1. PICK i \in DOMAIN Streams :
          /\ Streams[i] \in Stream /\ HasKey(Streams[i], k)
          /\ Appended(On(Streams[i], k), n) /\ On(Streams[i], k) \in List
    BY <1>1, <1>6, LinksSubscribe
  <2>2. PICK l \in List : l = On(Streams[i], k)  BY <2>1
  <2>3. l \in EventsOf(Streams[i])  BY <2>1, <2>2, StreamFacts
  <2>4. InUse'  BY <1>1, <2>1, <2>2, <2>3, GrownInUse
  <2>5. call'.op # "unsubscribe"
    BY <1>6 DEF CompositeSubscribe, Ready, NoCall
  <2>6. QED  BY <2>4, <2>5, NotSearching
<1>7. ASSUME NEW n \in Node, CompositeSubscribeAll(n)
      PROVE  InUse' /\ Searching'
  <2>1. UNCHANGED listVars /\ call'.op = "subscribe_all"
    BY <1>7 DEF CompositeSubscribeAll, eventVars
  <2>2. QED  BY <2>1, SearchKept, NotSearching
<1>8. ASSUME NEW n \in Node, CompositeUnsubscribe(n)
      PROVE  InUse' /\ Searching'
  <2>1. /\ UNCHANGED listVars
        /\ todo' = [j \in DOMAIN Streams |-> ListsInOrder(Streams[j])]
    BY <1>8 DEF CompositeUnsubscribe, ramVars, eventVars
  <2>2. PICK q : q = todo'  OBVIOUS
  <2>3. \A i \in DOMAIN Streams : \A l \in EventsOf(Streams[i]) : LeftIn(q, l)
    BY <2>1, <2>2, AllLeft
  <2>4. \A l \in List : Linked(l)' # {} => LeftIn(q, l)
    BY <1>1, <2>1, <2>3, SameLinks DEF InUse
  <2>5. Searching'  BY <2>2, <2>4 DEF Searching, LeftIn
  <2>6. QED  BY <2>1, <2>5, SearchKept
<1>9. CASE UNCHANGED compositeVars
  BY <1>3, <1>9 DEF compositeVars, ramVars, eventVars
<1>10. ASSUME NEW k \in Key, KeyNotFound(k)  PROVE InUse' /\ Searching'
  BY <1>9, <1>10 DEF KeyNotFound
<1>11. QED
  BY <1>4, <1>5, <1>6, <1>7, <1>8, <1>9, <1>10 DEF CompositeNext

LEMMA SearchStart == CompositeInit => SearchInv
<1>1. SUFFICES ASSUME CompositeInit PROVE SearchInv  OBVIOUS
<1>2. LinksInv /\ head = [l \in List |-> NULL] /\ call = NoCall
  BY <1>1, LinksStart DEF CompositeInit, RamInit, EventInit, ListsInit
<1>3. \A l \in List : Linked(l) = {}
  <2>1. SUFFICES ASSUME NEW l \in List, NEW n \in Linked(l) PROVE FALSE
    OBVIOUS
  <2>2. Closed({}, next) /\ head[l] \in {} \cup {NULL}  BY <1>2 DEF Closed
  <2>3. QED  BY <2>1, <2>2 DEF Linked, Reach
<1>4. InUse /\ Searching  BY <1>2, <1>3 DEF InUse, Searching, NoCall
<1>5. QED  BY <1>2, <1>4 DEF SearchInv

\* However many streams, keys and subscriptions there are and whatever happened
\* since they were made, one unsubscribe undoes a subscription everywhere.
THEOREM UnsubscribingIsThorough ==
  ASSUME OneForAll, DistinctStreams
  PROVE  CompositeSpec => UnsubscribeIsThorough
<1>1. SearchInv /\ [CompositeNext]_compositeVars => SearchInv'  BY SearchStep
<1>2. SearchInv /\ [CompositeNext]_compositeVars
      => [CallReturns /\ call.op = "unsubscribe" =>
            \A l \in List : call.n \notin Linked(l)']_compositeVars
  <2>1. SUFFICES ASSUME SearchInv, CallReturns, call.op = "unsubscribe",
                        NEW l \in List
                 PROVE  call.n \notin Linked(l)'
    OBVIOUS
  <2>2. todo = <<>> /\ UNCHANGED listVars  BY <2>1 DEF CallReturns, eventVars
  <2>3. 1 .. Len(todo) = {}  BY <2>2
  <2>4. call.n \notin Linked(l)
    BY <2>1, <2>3 DEF SearchInv, Searching, LeftIn
  <2>5. QED  BY <2>2, <2>4, SameLinks
<1>3. QED
  BY <1>1, <1>2, SearchStart, PTL DEF CompositeSpec, UnsubscribeIsThorough

-----------------------------------------------------------------------------
(***************************************************************************)
(* Writes walk the lists while callbacks subscribe and unsubscribe: what   *)
(* EventProofs says of a walk needs the lists to be chains, not to be      *)
(* disjoint.  A call of the composite that takes several steps is made by  *)
(* the program or from a callback, and all its steps are made there.       *)
(***************************************************************************)
CalledSafely == ~Ready => (Outside \/ InCallback) /\ call.n \notin InFlight

RoundsInv == SearchInv /\ CalledSafely /\ Walks

LEMMA RoundsFacts ==
  ASSUME RoundsInv
  PROVE  /\ SearchInv /\ LinksInv /\ CompositeTypeInv /\ RamTypeOK
         /\ EventTypeOK /\ Chained /\ WalkInv
<1>1. SearchInv /\ LinksInv /\ CompositeTypeInv /\ Chained /\ Walks
  BY DEF RoundsInv, SearchInv, LinksInv
<1>2. RamTypeOK  BY <1>1, CompositePieces
<1>3. QED  BY <1>1, <1>2, RamPieces DEF WalkInv

\* Nothing is called and nothing returns while only what is due changes.
LEMMA SameCalls ==
  ASSUME EventTypeOK, stack' \in Seq(Frame), Len(stack') = Len(stack),
         \A i \in 1 .. Len(stack) : /\ stack'[i].e = stack[i].e
                                    /\ stack'[i].calling = stack[i].calling
  PROVE  /\ InFlight' = InFlight
         /\ Outside => Outside'
         /\ InCallback => InCallback'
<1>1. stack \in Seq(Frame) /\ Len(stack) \in Nat  BY StackFacts
<1>2. DOMAIN stack = 1 .. Len(stack) /\ DOMAIN stack' = 1 .. Len(stack)
  BY <1>1
<1>3. InFlight' = InFlight  BY <1>2 DEF InFlight
<1>4. stack = <<>> => stack' = <<>>  BY <1>1
<1>5. ASSUME InCallback  PROVE InCallback'
  <2>1. stack # <<>> /\ stack[Len(stack)].calling  BY <1>5 DEF InCallback, Top
  <2>2. Len(stack) \in 1 .. Len(stack) /\ stack' # <<>>  BY <1>1, <2>1
  <2>3. stack'[Len(stack')].calling  BY <2>1, <2>2
  <2>4. QED  BY <2>2, <2>3 DEF InCallback, Top
<1>6. QED  BY <1>3, <1>4, <1>5 DEF Outside

LEMMA SafelyAppended ==
  ASSUME RoundsInv, NEW l \in List, NEW n \in Node, Appended(l, n), ~Ready,
         call' = call
  PROVE  CalledSafely'
<1>1. EventTypeOK /\ (Outside \/ InCallback) /\ call.n \notin InFlight
  BY RoundsFacts DEF RoundsInv, CalledSafely
<1>2. /\ stack' \in Seq(Frame) /\ Len(stack') = Len(stack)
      /\ \A i \in 1 .. Len(stack) : /\ stack'[i].e = stack[i].e
                                    /\ stack'[i].calling = stack[i].calling
  BY <1>1, SubscribedStack DEF Appended
<1>3. /\ InFlight' = InFlight /\ (Outside => Outside')
      /\ (InCallback => InCallback')
  BY <1>1, <1>2, SameCalls
<1>4. QED  BY <1>1, <1>3 DEF CalledSafely

LEMMA SafelyTaken ==
  ASSUME RoundsInv, NEW events, NEW n \in Node, stack' = DueWithout(events, n),
         ~Ready, call' = call
  PROVE  CalledSafely'
<1>1. EventTypeOK /\ (Outside \/ InCallback) /\ call.n \notin InFlight
  BY RoundsFacts DEF RoundsInv, CalledSafely
<1>2. /\ stack' \in Seq(Frame) /\ Len(stack') = Len(stack)
      /\ \A i \in 1 .. Len(stack) : /\ stack'[i].e = stack[i].e
                                    /\ stack'[i].calling = stack[i].calling
  BY <1>1, UnsubscribedStack
<1>3. /\ InFlight' = InFlight /\ (Outside => Outside')
      /\ (InCallback => InCallback')
  BY <1>1, <1>2, SameCalls
<1>4. QED  BY <1>1, <1>3 DEF CalledSafely

\* The program calls when no callback runs, or from one, with a subscription
\* that is not being called.
LEMMA SafelyCalled ==
  ASSUME NoneUnderItself, NEW n \in Node, MaySubscribe(n) \/ MayUnsubscribe(n)
  PROVE  (Outside \/ InCallback) /\ n \notin InFlight
<1>1. Outside \/ (InCallback /\ n \notin InFlight)
  BY DEF MaySubscribe, MayUnsubscribe, Callback, NoneUnderItself
<1>2. Outside => InFlight = {}  BY DEF Outside, InFlight
<1>3. QED  BY <1>1, <1>2

LEMMA WalksAppended ==
  ASSUME RoundsInv, NEW l \in List, NEW n \in Node, Appended(l, n),
         Outside \/ InCallback
  PROVE  Walks'
BY RoundsFacts, WalkSubscribed DEF Appended

LEMMA WalksKept ==
  ASSUME Walks, UNCHANGED eventVars
  PROVE  Walks'
<1>1. Contents' = Contents /\ stack' = stack
  BY SameContents DEF eventVars
<1>2. QED  BY <1>1, Zenon DEF Walks

LEMMA RoundsStep ==
  ASSUME OneForAll, DistinctStreams, NoneUnderItself, RoundsInv,
         [CompositeNext]_compositeVars
  PROVE  RoundsInv'
<1>1. /\ SearchInv /\ LinksInv /\ CompositeTypeInv /\ RamTypeOK /\ WalkInv
      /\ Walks /\ CalledSafely
  BY RoundsFacts DEF RoundsInv
<1>2. SUFFICES CalledSafely' /\ Walks'  BY <1>1, SearchStep DEF RoundsInv
<1>3. CASE UNCHANGED eventVars /\ Ready'
  BY <1>1, <1>3, WalksKept DEF CalledSafely
<1>4. CASE CodeProceeds \/ CompositeCallbackReturns
  <2>1. CASE PushToNext
    <3>1. /\ NextList \in List /\ call.n \in Node /\ Appended(NextList, call.n)
          /\ ~Ready /\ call' = call
      BY <1>1, <2>1, LinksPushToNext, CallFacts DEF PushToNext
    <3>2. PICK l \in List, n \in Node : Appended(l, n)  BY <3>1
    <3>3. Outside \/ InCallback  BY <1>1, <3>1 DEF CalledSafely
    <3>4. QED  BY <3>1, <3>2, <3>3, SafelyAppended, WalksAppended
  <2>2. CASE DeleteFromNext
    <3>1. /\ NextList \in List /\ call.n \in Node
          /\ TakenFrom({NextList}, call.n)
          /\ ~Ready /\ call' = call /\ stack' = DueWithout({NextList}, call.n)
      BY <1>1, <2>2, LinksDeleteFromNext, CallFacts DEF DeleteFromNext
    <3>2. PICK l \in List : l = NextList  BY <3>1
    <3>3. PICK n \in Node : n = call.n  BY <3>1
    <3>4. PICK events \in SUBSET List : events = {l}  OBVIOUS
    <3>5. /\ Outside \/ (InCallback /\ n \notin InFlight)
          /\ TakenFrom(events, n) /\ stack' = DueWithout(events, n)
      BY <1>1, <3>1, <3>2, <3>3, <3>4 DEF CalledSafely
    <3>6. Walks'  BY <1>1, <3>5, WalkUnsubscribed
    <3>7. QED  BY <3>1, <3>5, <3>6, SafelyTaken
  <2>3. CASE CallReturns  BY <1>3, <2>3 DEF CallReturns, Ready
  <2>4. CASE /\ Ready /\ (Tell \/ WriteGoesOn \/ WriteReturns \/ CallbackReturns)
             /\ UNCHANGED <<todo, call, toAll>>
    <3>1. CalledSafely'  BY <2>4 DEF CalledSafely, Ready
    <3>2. Walks'
      BY <1>1, <2>4, WalkCall, WalkWriteGoesOn, WalkPopped, WalkReturn
         DEF Tell, WriteReturns, CallbackReturns
    <3>3. QED  BY <3>1, <3>2
  <2>5. QED
    BY <1>4, <2>1, <2>2, <2>3, <2>4 DEF CodeProceeds, CompositeCallbackReturns
<1>5. ASSUME NEW k \in Key, NEW data \in Value, CompositeWrite(k, data)
      PROVE  CalledSafely' /\ Walks'
  <2>1. CalledSafely'  BY <1>5 DEF CompositeWrite, CalledSafely, Ready
  <2>2. PICK s \in Stream : s = FindStream(k)
    BY <1>5, FindStreamFacts, OfStreams DEF CompositeWrite, Having
  <2>3. CASE Write(s, k, data)
    <3>1. On(s, k) \in List /\ Publish(On(s, k))  BY <2>3, StreamFacts DEF Write
    <3>2. QED  BY <1>1, <2>1, <3>1, WalkPublish
  <2>4. CASE WriteWithoutEffect(s, k, data)
    BY <1>1, <2>1, <2>4, WalksKept DEF WriteWithoutEffect, ramVars
  <2>5. QED  BY <1>5, <2>2, <2>3, <2>4 DEF CompositeWrite
<1>6. ASSUME NEW k \in Key, NEW n \in Node, CompositeSubscribe(k, n)
      PROVE  CalledSafely' /\ Walks'
  <2>1. CalledSafely'  BY <1>6 DEF CompositeSubscribe, CalledSafely, Ready
  <2>2. Outside \/ InCallback
    BY <1>6 DEF CompositeSubscribe, SubscribeKey, MaySubscribe, Callback
  <2>3. PICK l \in List : Appended(l, n)  BY <1>1, <1>6, LinksSubscribe
  <2>4. QED  BY <2>1, <2>2, <2>3, WalksAppended
<1>7. ASSUME NEW n \in Node, CompositeSubscribeAll(n) \/ CompositeUnsubscribe(n)
      PROVE  CalledSafely' /\ Walks'
  <2>1. /\ UNCHANGED eventVars /\ call'.n = n
        /\ MaySubscribe(n) \/ MayUnsubscribe(n)
    BY <1>7 DEF CompositeSubscribeAll, CompositeUnsubscribe, ramVars
  <2>2. (Outside \/ InCallback) /\ n \notin InFlight  BY <2>1, SafelyCalled
  <2>3. CalledSafely'
    BY <2>1, <2>2 DEF CalledSafely, eventVars, Outside, InCallback, Top, InFlight
  <2>4. QED  BY <1>1, <2>1, <2>3, WalksKept
<1>8. CASE UNCHANGED compositeVars
  <2>1. UNCHANGED <<eventVars, call>>  BY <1>8 DEF compositeVars, ramVars
  <2>2. CalledSafely'
    BY <1>1, <2>1 DEF CalledSafely, Ready, eventVars, Outside, InCallback, Top,
       InFlight
  <2>3. QED  BY <1>1, <2>1, <2>2, WalksKept
<1>9. ASSUME NEW k \in Key, KeyNotFound(k)  PROVE CalledSafely' /\ Walks'
  BY <1>8, <1>9 DEF KeyNotFound
<1>10. QED
  BY <1>4, <1>5, <1>6, <1>7, <1>8, <1>9 DEF CompositeNext

LEMMA RoundsStart == CompositeInit => RoundsInv
<1>1. SUFFICES ASSUME CompositeInit PROVE RoundsInv  OBVIOUS
<1>2. SearchInv /\ Walks /\ call = NoCall
  BY <1>1, SearchStart, NewsStart DEF CompositeInit
<1>3. QED  BY <1>2 DEF RoundsInv, CalledSafely, Ready

\* However the writes nest and whatever the callbacks subscribe and unsubscribe,
\* also the one subscription that is on a list of every stream, no publish
\* calls anybody twice, or anybody who has been unsubscribed since it began.
THEOREM NobodyIsCalledTwice ==
  ASSUME OneForAll, DistinctStreams, NoneUnderItself
  PROVE  CompositeSpec => EachCalledOnce
<1>1. RoundsInv /\ [CompositeNext]_compositeVars => RoundsInv'  BY RoundsStep
<1>2. RoundsInv /\ [CompositeNext]_compositeVars
      => [Tell => Top.e \in Top.due]_compositeVars
  <2>1. SUFFICES ASSUME RoundsInv, Tell PROVE Top.e \in Top.due
    OBVIOUS
  <2>2. stack # <<>> /\ ~Top.calling /\ Top.e # NULL
    BY <2>1 DEF Tell, Call, Walking
  <2>3. Len(stack) \in 1 .. Len(stack) /\ Top = stack[Len(stack)]
    BY <2>1, <2>2, RoundsFacts, TopFrame
  <2>4. PICK s : s = Contents[Top.event]  OBVIOUS
  <2>5. s \in Seq(Node) /\ OnTheWay(Top, s) /\ Top.calling = FALSE
    BY <2>1, <2>2, <2>3, <2>4, RoundsFacts, PublishFacts
  <2>6. PICK p \in 1 .. Len(s) : s[p] = Top.e /\ Top.due = From(s, p)
    BY <2>2, <2>5 DEF OnTheWay
  <2>7. QED  BY <2>5, <2>6 DEF From
<1>3. QED  BY <1>1, <1>2, RoundsStart, PTL DEF CompositeSpec, EachCalledOnce

-----------------------------------------------------------------------------
(***************************************************************************)
(* What subscriptions know.  The argument of DatastreamProofs carries over *)
(* step by step; what is new is that subscribe_all reads the values of all *)
(* streams before it links its subscription to the first list, and that    *)
(* unsubscribe takes its subscription from the lists one at a time.        *)
(***************************************************************************)
KnowsAll ==
  call.op = "subscribe_all" =>
    \A s \in Stream, k \in Key : HasKey(s, k) => Knowing(s, k, call.n)

CurrentInv == RoundsInv /\ KnowsAll /\ News

LEMMA CurrentFacts ==
  ASSUME CurrentInv
  PROVE  /\ RoundsInv /\ SearchInv /\ LinksInv /\ CompositeTypeInv /\ RamTypeOK
         /\ EventTypeOK /\ Chained /\ WalkInv /\ KnowsAll /\ News
BY RoundsFacts DEF CurrentInv

LEMMA NewsKept ==
  ASSUME News, UNCHANGED <<eventVars, value, writes, heard>>
  PROVE  News'
<1>1. UNCHANGED <<listVars, stack, value, writes, heard>>  BY DEF eventVars
<1>2. \A l : Linked(l)' = Linked(l)  BY <1>1, SameLinks
<1>3. QED
  BY <1>1, <1>2, NewsSameWrites
  DEF News, NewsIsDue, Knowing, KeyNews, AllNews, Of

\* Only what one subscription knows changes, and it is on no list.
LEMMA NewsOfUnlinked ==
  ASSUME News, UNCHANGED <<eventVars, value, writes>>, NEW n \in Node,
         \A l \in List : n \notin Linked(l),
         \A m \in Node \ {n} : heard'[m] = heard[m]
  PROVE  News'
<1>1. UNCHANGED <<listVars, stack, value, writes>>  BY DEF eventVars
<1>2. \A l : Linked(l)' = Linked(l)  BY <1>1, SameLinks
<1>3. \A s \in Stream, k \in Key :
        HasKey(s, k) => n \notin Linked(On(s, k))' /\ n \notin Linked(AllOf(s))'
  BY <1>2, StreamFacts
<1>4. /\ Len(stack') = Len(stack)
      /\ \A i \in 1 .. Len(stack) : /\ stack'[i].event = stack[i].event
                                    /\ stack[i].due \subseteq stack'[i].due
  BY <1>1
<1>5. QED  BY <1>1, <1>2, <1>3, <1>4, NewsOfOne

\* A subscription that is linked to one more list knows the keys it is then
\* subscribed to.
LEMMA NewsAppended ==
  ASSUME EventTypeOK, Chained, News, NEW l \in List, NEW n \in Node,
         Appended(l, n), UNCHANGED <<value, writes>>,
         \A m \in Node \ {n} : heard'[m] = heard[m],
         \A s \in Stream, k \in Key :
           /\ HasKey(s, k)
           /\ n \in Linked(On(s, k))' \/ n \in Linked(AllOf(s))'
           => Knowing(s, k, n)'
  PROVE  News'
<1>1. /\ Len(stack') = Len(stack)
      /\ \A i \in 1 .. Len(stack) : /\ stack'[i].event = stack[i].event
                                    /\ stack[i].due \subseteq stack'[i].due
  BY SubscribedStack DEF Appended
<1>2. \A m \in Node \ {n} : \A j \in List : m \in Linked(j)' => m \in Linked(j)
  BY AppendedLinked
<1>3. QED  BY <1>1, <1>2, NewsOfOne

LEMMA CurrentSubscribe ==
  ASSUME OwnConfigs, CurrentInv, NEW k \in Key, NEW n \in Node,
         CompositeSubscribe(k, n)
  PROVE  News'
<1>1. /\ LinksInv /\ CompositeTypeInv /\ RamTypeOK /\ EventTypeOK /\ Chained
      /\ News
  BY CurrentFacts
<1>2. PICK i \in DOMAIN Streams :
        /\ Streams[i] \in Stream /\ HasKey(Streams[i], k)
        /\ Appended(On(Streams[i], k), n) /\ On(Streams[i], k) \in List
        /\ heard' = [heard EXCEPT ![n][Streams[i]] = Knows(Streams[i], {k})]
  BY <1>1, LinksSubscribe
<1>3. PICK s \in Stream : s = Streams[i]  BY <1>2
<1>4. PICK l \in List : l = On(s, k)  BY <1>2, <1>3
<1>5. PICK known \in [Key -> Value] : known = Knows(s, {k})  BY <1>1, KnowsType
<1>6. /\ Appended(l, n) /\ heard' = [heard EXCEPT ![n][s] = known]
      /\ known[k] = value[s][k]
  BY <1>2, <1>3, <1>4, <1>5 DEF Knows
<1>7. UNCHANGED <<value, writes>> /\ \A j \in List : n \notin Linked(j)
  BY DEF CompositeSubscribe, SubscribeKey, KeySubscribed, Subscribed, Push,
     Unlinked
<1>8. \A m \in Node : /\ m # n => heard'[m] = heard[m]
                      /\ m = n => heard'[m][s] = known
  BY <1>1, <1>6, RamPieces
<1>9. \A j \in List : n \in Linked(j)' => j = l
  BY <1>1, <1>6, <1>7, AppendedLinked
<1>10. ASSUME NEW r \in Stream, NEW j \in Key, HasKey(r, j),
              n \in Linked(On(r, j))' \/ n \in Linked(AllOf(r))'
       PROVE  Knowing(r, j, n)'
  <2>1. On(r, j) \in List /\ AllOf(r) \in List  BY <1>10, StreamFacts
  <2>2. On(r, j) = On(s, k) \/ AllOf(r) = On(s, k)  BY <1>4, <1>9, <1>10, <2>1
  <2>3. r = s /\ j = k  BY <2>2, EventsApart
  <2>4. QED  BY <1>6, <1>7, <1>8, <2>3 DEF Knowing
<1>11. QED  BY <1>1, <1>6, <1>7, <1>8, <1>10, NewsAppended

LEMMA CurrentPushToNext ==
  ASSUME OneForAll, CurrentInv, PushToNext
  PROVE  KnowsAll' /\ News'
<1>1. LinksInv /\ EventTypeOK /\ Chained /\ KnowsAll /\ News  BY CurrentFacts
<1>2. NextList \in List /\ call.n \in Node /\ Appended(NextList, call.n)
  BY <1>1, LinksPushToNext
<1>3. PICK l \in List : l = NextList  BY <1>2
<1>4. PICK n \in Node : n = call.n  BY <1>2
<1>5. call.op = "subscribe_all" /\ UNCHANGED <<value, writes, heard, call>>
  BY DEF PushToNext
<1>6. \A s \in Stream, k \in Key : HasKey(s, k) => Knowing(s, k, n)'
  BY <1>1, <1>4, <1>5 DEF KnowsAll, Knowing
<1>7. KnowsAll'
  BY <1>4, <1>5, <1>6 DEF KnowsAll, Knowing, HasKey, Count, Entry
<1>8. Appended(l, n)  BY <1>2, <1>3, <1>4
<1>9. News'  BY <1>1, <1>5, <1>6, <1>8, NewsAppended
<1>10. QED  BY <1>7, <1>9

LEMMA CurrentDeleteFromNext ==
  ASSUME CurrentInv, DeleteFromNext
  PROVE  News'
<1>1. LinksInv /\ EventTypeOK /\ Chained /\ News  BY CurrentFacts
<1>2. /\ Chained' /\ NextList \in List /\ call.n \in Node
      /\ TakenFrom({NextList}, call.n)
  BY <1>1, LinksDeleteFromNext
<1>3. PICK l \in List : l = NextList  BY <1>2
<1>4. PICK n \in Node : n = call.n  BY <1>2
<1>5. stack' = DueWithout({l}, n) /\ UNCHANGED <<value, writes, heard>>
  BY <1>3, <1>4 DEF DeleteFromNext
<1>6. \A m \in List : /\ Linked(m)' \subseteq Linked(m)
                      /\ m \in {l} => n \notin Linked(m)'
  BY <1>1, <1>2, <1>3, <1>4, TakenAway
<1>7. /\ Len(stack') = Len(stack)
      /\ \A i \in 1 .. Len(stack) :
           /\ stack'[i].event = stack[i].event
           /\ stack'[i].due = IF stack[i].event \in {l}
                              THEN stack[i].due \ {n} ELSE stack[i].due
  BY <1>1, <1>5, UnsubscribedStack
<1>8. \A m \in Node, s \in Stream : heard'[m][s] = heard[m][s]  BY <1>5
<1>9. QED  BY <1>1, <1>5, <1>6, <1>7, <1>8, NewsTakenFrom

\* unsubscribe returns when its subscription is on no list.
LEMMA CurrentCallReturns ==
  ASSUME CurrentInv, CallReturns
  PROVE  News'
<1>1. SearchInv /\ CompositeTypeInv /\ RamTypeOK /\ News  BY CurrentFacts
<1>2. todo = <<>> /\ ~Ready /\ UNCHANGED <<eventVars, value, writes>>
  BY DEF CallReturns
<1>3. PICK n \in Node : n = call.n  BY <1>1, <1>2, CallFacts
<1>4. CASE call.op = "subscribe_all"
  <2>1. UNCHANGED heard  BY <1>4 DEF CallReturns
  <2>2. QED  BY <1>1, <1>2, <2>1, NewsKept
<1>5. CASE call.op # "subscribe_all"
  <2>1. call.op = "unsubscribe"
    BY <1>1, <1>2, <1>5, CallFacts DEF Calls
  <2>2. heard' = [heard EXCEPT ![n] = Nothing]
    BY <1>3, <1>5 DEF CallReturns
  <2>3. 1 .. Len(todo) = {}  BY <1>2
  <2>4. \A l \in List : n \notin Linked(l)
    BY <1>1, <1>3, <2>1, <2>3 DEF SearchInv, Searching, LeftIn
  <2>5. \A m \in Node \ {n} : heard'[m] = heard[m]  BY <1>1, <2>2, RamPieces
  <2>6. QED  BY <1>1, <1>2, <2>4, <2>5, NewsOfUnlinked
<1>6. QED  BY <1>4, <1>5

LEMMA CurrentSubscribeAll ==
  ASSUME CurrentInv, NEW n \in Node, CompositeSubscribeAll(n)
  PROVE  KnowsAll' /\ News'
<1>1. RamTypeOK /\ News  BY CurrentFacts
<1>2. /\ UNCHANGED <<eventVars, value, writes>>
      /\ \A l \in List : n \notin Linked(l)
      /\ heard' = [heard EXCEPT ![n] = [s \in Stream |-> Knows(s, KeysOf(s))]]
      /\ call'.n = n
  BY DEF CompositeSubscribeAll, Unlinked
<1>3. \A m \in Node : /\ m # n => heard'[m] = heard[m]
                      /\ m = n => heard'[m] = [s \in Stream |-> Knows(s, KeysOf(s))]
  BY <1>1, <1>2, RamPieces
<1>4. News'  BY <1>1, <1>2, <1>3, NewsOfUnlinked
<1>5. \A s \in Stream, k \in Key : HasKey(s, k) => Knowing(s, k, n)'
  <2>1. SUFFICES ASSUME NEW s \in Stream, NEW k \in Key, HasKey(s, k)
                 PROVE  heard'[n][s][k] = value'[s][k]
    BY DEF Knowing
  <2>2. heard'[n][s] = Knows(s, KeysOf(s))  BY <1>3
  <2>3. Knows(s, KeysOf(s))[k] = value[s][k]  BY <2>1 DEF Knows, KeysOf
  <2>4. QED  BY <1>2, <2>2, <2>3
<1>6. KnowsAll'
  BY <1>2, <1>5 DEF KnowsAll, Knowing, HasKey, Count, Entry
<1>7. QED  BY <1>4, <1>6

\* In every other state nobody is about to be subscribed to all.
LEMMA NotSubscribingAll ==
  ASSUME call'.op # "subscribe_all"
  PROVE  KnowsAll'
BY DEF KnowsAll

LEMMA CurrentWrite ==
  ASSUME ~RewriteInFlight, CurrentInv, NEW k \in Key, NEW data \in Value,
         CompositeWrite(k, data)
  PROVE  News'
<1>1. RamTypeOK /\ News  BY CurrentFacts
<1>2. PICK s \in Stream : s = FindStream(k)
  BY FindStreamFacts, OfStreams DEF CompositeWrite, Having
<1>3. CASE Write(s, k, data)  BY <1>1, <1>3, NewsWrite
<1>4. CASE WriteWithoutEffect(s, k, data)
  BY <1>1, <1>4, NewsKept DEF WriteWithoutEffect, ramVars
<1>5. QED  BY <1>2, <1>3, <1>4 DEF CompositeWrite

LEMMA CurrentStep ==
  ASSUME OneForAll, DistinctStreams, OwnConfigs, NoneUnderItself,
         ~RewriteInFlight, CurrentInv, [CompositeNext]_compositeVars
  PROVE  CurrentInv'
<1>1. RoundsInv /\ CompositeTypeInv /\ RamTypeOK /\ WalkInv /\ KnowsAll /\ News
  BY CurrentFacts
<1>2. SUFFICES KnowsAll' /\ News'  BY <1>1, RoundsStep DEF CurrentInv
<1>3. CASE CodeProceeds \/ CompositeCallbackReturns
  <2>1. CASE PushToNext  BY <2>1, CurrentPushToNext
  <2>2. CASE DeleteFromNext
    BY <2>2, CurrentDeleteFromNext, NotSubscribingAll DEF DeleteFromNext
  <2>3. CASE CallReturns
    BY <2>3, CurrentCallReturns, NotSubscribingAll DEF CallReturns, NoCall
  <2>4. CASE /\ Ready /\ (Tell \/ WriteGoesOn \/ WriteReturns \/ CallbackReturns)
             /\ UNCHANGED <<todo, call, toAll>>
    <3>1. KnowsAll'  BY <2>4, NotSubscribingAll DEF Ready, NoCall
    <3>2. News'
      BY <1>1, <2>4, NewsTell, NewsWriteGoesOn, NewsWriteReturns,
         NewsCallbackReturns
    <3>3. QED  BY <3>1, <3>2
  <2>5. QED
    BY <1>3, <2>1, <2>2, <2>3, <2>4 DEF CodeProceeds, CompositeCallbackReturns
<1>4. ASSUME NEW k \in Key, NEW data \in Value, CompositeWrite(k, data)
      PROVE  KnowsAll' /\ News'
  BY <1>4, CurrentWrite, NotSubscribingAll DEF CompositeWrite, Ready, NoCall
<1>5. ASSUME NEW k \in Key, NEW n \in Node, CompositeSubscribe(k, n)
      PROVE  KnowsAll' /\ News'
  BY <1>5, CurrentSubscribe, NotSubscribingAll
     DEF CompositeSubscribe, Ready, NoCall
<1>6. ASSUME NEW n \in Node, CompositeSubscribeAll(n)
      PROVE  KnowsAll' /\ News'
  BY <1>6, CurrentSubscribeAll
<1>7. ASSUME NEW n \in Node, CompositeUnsubscribe(n)
      PROVE  KnowsAll' /\ News'
  <2>1. UNCHANGED ramVars /\ call'.op = "unsubscribe"
    BY <1>7 DEF CompositeUnsubscribe
  <2>2. News'  BY <1>1, <2>1, NewsKept DEF ramVars
  <2>3. KnowsAll'  BY <2>1, NotSubscribingAll
  <2>4. QED  BY <2>2, <2>3
<1>8. CASE UNCHANGED compositeVars
  <2>1. UNCHANGED <<eventVars, value, writes, heard, call>>
    BY <1>8 DEF compositeVars, ramVars
  <2>2. KnowsAll'
    BY <1>1, <2>1 DEF KnowsAll, Knowing, HasKey, Count, Entry
  <2>3. QED  BY <1>1, <2>1, <2>2, NewsKept
<1>9. ASSUME NEW k \in Key, KeyNotFound(k)  PROVE KnowsAll' /\ News'
  BY <1>8, <1>9 DEF KeyNotFound
<1>10. QED
  BY <1>3, <1>4, <1>5, <1>6, <1>7, <1>8, <1>9 DEF CompositeNext

LEMMA CurrentStart == CompositeInit => CurrentInv
<1>1. SUFFICES ASSUME CompositeInit PROVE CurrentInv  OBVIOUS
<1>2. RoundsInv /\ News /\ call = NoCall
  BY <1>1, RoundsStart, NewsStart DEF CompositeInit
<1>3. QED  BY <1>2 DEF CurrentInv, KnowsAll, NoCall

\* When no write is under way every subscription to a composite knows the value
\* its stream holds, for any number of streams: also the one that is on a list
\* of each of them.
THEOREM SubscribersOfCompositesKnow ==
  ASSUME OneForAll, DistinctStreams, OwnConfigs, NoneUnderItself,
         ~RewriteInFlight
  PROVE  CompositeSpec => []HeardIsCurrent
<1>1. CurrentInv => HeardIsCurrent  BY NewsIsCurrent DEF CurrentInv
<1>2. CurrentInv /\ [CompositeNext]_compositeVars => CurrentInv'
  BY CurrentStep
<1>3. QED  BY <1>1, <1>2, CurrentStart, PTL DEF CompositeSpec
=============================================================================

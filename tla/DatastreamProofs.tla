-------------------------- MODULE DatastreamProofs --------------------------
(***************************************************************************)
(* Proofs about ram datastreams, for any number of streams, keys, values   *)
(* and subscriptions: the types; that initialising a datastream leaves     *)
(* zeroes and nobody subscribed; that unsubscribing is complete; as long   *)
(* as no callback writes a key that is being written, that every           *)
(* subscription knows the stored value when no write is under way; and,    *)
(* whatever callbacks write, that datastreams implement watched stores.    *)
(***************************************************************************)
EXTENDS RamDatastream, EventProofs

WriteCall == [stream : Stream, key : Key, data : Value]

RamTypeInv == EventTypeInv /\ RamTypeOK

-----------------------------------------------------------------------------
\* The datastreams.
LEMMA StreamFacts ==
  ASSUME NEW s \in Stream
  PROVE  /\ Count(s) \in Nat /\ Count(s) > 0
         /\ EventsOf(s) \subseteq List
         /\ AllOf(s) \in EventsOf(s) /\ AllOf(s) \in List
         /\ \A k \in 0 .. Count(s) - 1 :
              /\ Entry(s, k).offset \in Nat /\ Entry(s, k).size \in Nat
              /\ k \in Key
         /\ \A k \in Key : HasKey(s, k) =>
              /\ k \in 0 .. Count(s) - 1
              /\ On(s, k) \in EventsOf(s) /\ On(s, k) \in List
<1>1. Entries[ConfigOf[s]] \in Seq([offset : Nat, size : Nat])
  BY RamConstants
<1>2. Count(s) \in Nat  BY <1>1 DEF Count
<1>3. Count(s) > 0 /\ 0 .. Count(s) - 1 \subseteq Key /\ Key \subseteq Nat
  BY RamConstants
<1>4. EventsOf(s) \subseteq List  BY RamConstants
<1>5. AllOf(s) \in EventsOf(s)  BY DEF EventsOf
<1>6. ASSUME NEW k \in 0 .. Count(s) - 1
      PROVE  Entry(s, k).offset \in Nat /\ Entry(s, k).size \in Nat
  <2>1. PICK q : q = Entries[ConfigOf[s]]  OBVIOUS
  <2>2. PICK j : j = k + 1  OBVIOUS
  <2>3. q \in Seq([offset : Nat, size : Nat])  BY <1>1, <2>1, Zenon
  <2>4. Count(s) = Len(q)  BY <2>1 DEF Count
  <2>5. j \in 1 .. Count(s)  BY <1>2, <1>6, <2>2
  <2>6. q[j] \in [offset : Nat, size : Nat]
    <3>1. \A T : \A z \in Seq(T) : \A i \in 1 .. Len(z) : z[i] \in T  OBVIOUS
    <3>2. j \in 1 .. Len(q)  BY <2>4, <2>5, Zenon
    <3>3. QED  BY <2>3, <3>1, <3>2, Zenon
  <2>7. Entry(s, k) = q[j]  BY <2>1, <2>2 DEF Entry
  <2>8. QED  BY <2>6, <2>7
<1>7. ASSUME NEW k \in Key, HasKey(s, k)  PROVE k \in 0 .. Count(s) - 1
  <2>1. k \in Nat /\ k < Count(s)  BY <1>3, <1>7 DEF HasKey
  <2>2. QED  BY <1>2, <2>1
<1>8. ASSUME NEW k \in Key, HasKey(s, k)  PROVE On(s, k) \in EventsOf(s)
  BY <1>7, <1>8 DEF EventsOf
<1>9. QED  BY <1>2, <1>3, <1>4, <1>5, <1>6, <1>7, <1>8

LEMMA ZeroFacts ==
  /\ Zero \in Value /\ Zeroes \in [Key -> Value]
  /\ Nothing \in [Stream -> [Key -> Value]]
  /\ \A k \in Key : Zeroes[k] = Zero
BY RamConstants DEF Zeroes, Nothing

\* The type invariant in pieces, and put together from them.
LEMMA RamTypes ==
  ASSUME RamTypeInv
  PROVE  /\ EventTypeInv
         /\ value \in [Stream -> [Key -> Value]]
         /\ \A s \in Stream, k \in Key : value[s][k] # Zero => HasKey(s, k)
         /\ writes \in Seq(WriteCall) /\ Len(writes) = Len(stack)
         /\ heard \in [Node -> [Stream -> [Key -> Value]]]
BY DEF RamTypeInv, RamTypeOK, WriteCall

LEMMA RamTypesNext ==
  ASSUME EventTypeInv', value' \in [Stream -> [Key -> Value]],
         \A s \in Stream, k \in Key : value'[s][k] # Zero => HasKey(s, k),
         writes' \in Seq(WriteCall), Len(writes') = Len(stack'),
         heard' \in [Node -> [Stream -> [Key -> Value]]]
  PROVE  RamTypeInv'
BY DEF RamTypeInv, RamTypeOK, WriteCall, EventTypeInv, HasKey, Count, Entry

LEMMA RamTyped == RamTypeInv => RamTypeOK
BY DEF RamTypeInv

\* What the types alone say, of lists of whatever shape.
LEMMA RamPieces ==
  ASSUME RamTypeOK
  PROVE  /\ EventTypeOK /\ ListsTypeOK
         /\ stack \in Seq(Frame) /\ Len(stack) \in Nat
         /\ Len(stack) <= MaxDepth /\ MaxDepth \in Nat
         /\ \A i \in 1 .. Len(stack) : stack[i].calling => stack[i].e # NULL
         /\ value \in [Stream -> [Key -> Value]]
         /\ \A s \in Stream, k \in Key : value[s][k] # Zero => HasKey(s, k)
         /\ writes \in Seq(WriteCall) /\ Len(writes) = Len(stack)
         /\ heard \in [Node -> [Stream -> [Key -> Value]]]
<1>1. EventTypeOK  BY DEF RamTypeOK
<1>2. stack \in Seq(Frame) /\ Len(stack) <= MaxDepth  BY <1>1 DEF EventTypeOK
<1>3. DOMAIN stack = 1 .. Len(stack) /\ Len(stack) \in Nat  BY <1>2
<1>4. \A i \in 1 .. Len(stack) : stack[i].calling => stack[i].e # NULL
  BY <1>1, <1>3 DEF EventTypeOK
<1>5. MaxDepth \in Nat  BY EventConstants, Zenon
<1>6. ListsTypeOK  BY <1>1 DEF EventTypeOK
<1>7. QED  BY <1>1, <1>2, <1>3, <1>4, <1>5, <1>6 DEF RamTypeOK, WriteCall

\* The innermost publish, and the write it belongs to.
LEMMA Innermost ==
  ASSUME RamTypeOK, stack # <<>>
  PROVE  /\ Len(stack) \in 1 .. Len(stack) /\ Top = stack[Len(stack)]
         /\ Top \in Frame /\ (Top.calling => Top.e \in Node)
         /\ Writing \in WriteCall
<1>1. /\ stack \in Seq(Frame) /\ writes \in Seq(WriteCall)
      /\ Len(writes) = Len(stack)
  BY RamPieces
<1>2. Len(stack) \in 1 .. Len(stack)  BY <1>1
<1>3. Top = stack[Len(stack)] /\ Top \in Frame
  <2>1. Top = stack[Len(stack)]  BY <1>1, <1>2 DEF Top
  <2>2. stack[Len(stack)] \in Frame  BY <1>1, <1>2
  <2>3. QED  BY <2>1, <2>2
<1>4. Writing \in WriteCall  BY <1>1, <1>2 DEF Writing
<1>5. Top.calling => Top.e # NULL  BY <1>2, <1>3, RamPieces
<1>6. Top.e \in Node \cup {NULL}
  <2>1. \A f \in Frame : f.e \in Node \cup {NULL}  BY DEF Frame, Pointer
  <2>2. QED  BY <1>3, <2>1
<1>7. QED  BY <1>2, <1>3, <1>4, <1>5, <1>6

LEMMA WritingFacts ==
  ASSUME RamTypeOK, stack # <<>>
  PROVE  /\ Len(stack) \in 1 .. Len(stack) /\ Top = stack[Len(stack)]
         /\ Writing = writes[Len(stack)]
         /\ Writing.stream \in Stream /\ Writing.key \in Key
         /\ Writing.data \in Value
BY RamPieces, Innermost DEF Writing, WriteCall

-----------------------------------------------------------------------------
\* The types, operation by operation.
LEMMA TypeTell ==
  ASSUME RamTypeInv, Tell
  PROVE  RamTypeInv'
<1>1. EventTypeInv'  BY TypeCall, RamTypes DEF Tell
<1>2. stack # <<>>  BY DEF Tell, Call, Walking
<1>3. Len(stack') = Len(stack)
  <2>1. PICK f \in Frame : stack' = [stack EXCEPT ![Len(stack)] = f]
    BY Typed, CallStack, RamTypes DEF Tell
  <2>2. QED  BY <1>2, <2>1, Typed, ReplaceTop, RamTypes
<1>4. heard' \in [Node -> [Stream -> [Key -> Value]]]
  BY <1>2, RamTypes, RamTyped, WritingFacts DEF Tell
<1>5. QED  BY <1>1, <1>3, <1>4, RamTypes, RamTypesNext DEF Tell

LEMMA TypeCallbackReturns ==
  ASSUME RamTypeInv, CallbackReturns
  PROVE  RamTypeInv'
<1>1. EventTypeInv'  BY TypeReturn, RamTypes DEF CallbackReturns
<1>2. Len(stack') = Len(stack)
  <2>1. PICK f \in Frame : stack' = [stack EXCEPT ![Len(stack)] = f]
    BY Typed, ReturnStack, RamTypes DEF CallbackReturns
  <2>2. stack # <<>>  BY DEF CallbackReturns, Return, InCallback
  <2>3. QED  BY <2>1, <2>2, Typed, ReplaceTop, RamTypes
<1>3. QED  BY <1>1, <1>2, RamTypes, RamTypesNext DEF CallbackReturns

LEMMA TypeWriteGoesOn ==
  ASSUME RamTypeInv, WriteGoesOn
  PROVE  RamTypeInv'
<1>1. stack # <<>> /\ UNCHANGED <<listVars, value, writes, heard>>
  BY DEF WriteGoesOn, Walking
<1>2. PICK f : f = Begun(AllOf(Writing.stream))  OBVIOUS
<1>3. f \in Frame /\ f.calling = FALSE
  BY <1>1, <1>2, RamTyped, WritingFacts, StreamFacts, RamTypes, Typed, BegunFrame DEF Publishing
<1>4. stack' = [stack EXCEPT ![Len(stack)] = f]
  BY <1>2 DEF WriteGoesOn, TopBecomes
<1>5. EventTypeInv'  BY <1>1, <1>3, <1>4, RamTypes, TypeTopReplaced
<1>6. Len(stack') = Len(stack)  BY <1>1, <1>3, <1>4, Typed, ReplaceTop, RamTypes
<1>7. QED  BY <1>1, <1>5, <1>6, RamTypes, RamTypesNext

LEMMA TypeWriteReturns ==
  ASSUME RamTypeInv, WriteReturns
  PROVE  RamTypeInv'
<1>1. stack # <<>> /\ stack' = SubSeq(stack, 1, Len(stack) - 1)
  BY DEF WriteReturns, PublishReturns, Walking
<1>2. EventTypeInv'  BY TypePopped, RamTypes DEF WriteReturns
<1>3. Len(stack') = Len(stack) - 1  BY <1>1, Typed, PopFrame, RamTypes
<1>4. writes' \in Seq(WriteCall) /\ Len(writes') = Len(stack) - 1
  <2>1. writes \in Seq(WriteCall) /\ Len(writes) \in 1 .. Len(writes)
    BY <1>1, RamTypes, RamTyped, WritingFacts
  <2>2. PICK k : k = Len(writes) - 1  OBVIOUS
  <2>3. k \in Nat /\ k <= Len(writes) /\ \A i \in 1 .. k : writes[i] \in WriteCall
    BY <2>1, <2>2
  <2>4. writes' = SubSeq(writes, 1, k)  BY <2>2 DEF WriteReturns
  <2>5. writes' \in Seq(WriteCall) /\ Len(writes') = k  BY <2>1, <2>3, <2>4
  <2>6. QED  BY <2>2, <2>5, RamTypes
<1>5. QED  BY <1>2, <1>3, <1>4, RamTypes, RamTypesNext DEF WriteReturns

LEMMA TypeWrite ==
  ASSUME RamTypeInv, NEW s \in Stream, NEW k \in Key, NEW data \in Value,
         Write(s, k, data)
  PROVE  RamTypeInv'
<1>1. On(s, k) \in List /\ HasKey(s, k)  BY StreamFacts DEF Write
<1>2. EventTypeInv'  BY <1>1, TypePublish, RamTypes DEF Write
<1>3. /\ value' \in [Stream -> [Key -> Value]]
      /\ \A r \in Stream, j \in Key : value'[r][j] # Zero => HasKey(r, j)
  BY <1>1, RamTypes DEF Write
<1>4. writes' \in Seq(WriteCall) /\ Len(writes') = Len(writes) + 1
  <2>1. PICK w \in WriteCall : w = [stream |-> s, key |-> k, data |-> data]
    BY DEF WriteCall
  <2>2. writes' = Append(writes, w)  BY <2>1 DEF Write
  <2>3. QED  BY <2>2, RamTypes
<1>5. Len(stack') = Len(stack) + 1
  <2>1. PICK f \in Frame : f = Begun(On(s, k))  BY <1>1, RamTypes, Typed, BegunFrame
  <2>2. stack' = Append(stack, f)  BY <2>1 DEF Write, Publish
  <2>3. QED  BY <2>2, RamTypes, Typed, PushFrame
<1>6. QED  BY <1>2, <1>3, <1>4, <1>5, RamTypes, RamTypesNext DEF Write

LEMMA KnowsType ==
  ASSUME RamTypeOK, NEW s \in Stream, NEW keys
  PROVE  Knows(s, keys) \in [Key -> Value]
BY RamPieces, ZeroFacts DEF Knows

\* Subscribing, to the list of a key or to that of all keys.
LEMMA TypeHeardOne ==
  ASSUME RamTypeInv, NEW s \in Stream, NEW n \in Node,
         NEW known \in [Key -> Value],
         heard' = [heard EXCEPT ![n][s] = known], UNCHANGED <<value, writes>>,
         EventTypeInv', Len(stack') = Len(stack)
  PROVE  RamTypeInv'
<1>1. heard' \in [Node -> [Stream -> [Key -> Value]]]  BY RamTypes
<1>2. QED  BY <1>1, RamTypes, RamTypesNext

LEMMA SubscribedTypes ==
  ASSUME RamTypeInv, NEW event \in List, NEW n \in Node, Subscribed(event, n)
  PROVE  EventTypeInv' /\ Len(stack') = Len(stack)
BY RamTypes, TypeSubscribed, Typed, SubscribedStack DEF Subscribed

LEMMA TypeKeySubscribed ==
  ASSUME RamTypeInv, NEW s \in Stream, NEW k \in Key, NEW n \in Node,
         KeySubscribed(s, k, n)
  PROVE  RamTypeInv'
<1>1. On(s, k) \in List  BY StreamFacts DEF KeySubscribed
<1>2. EventTypeInv' /\ Len(stack') = Len(stack)
  BY <1>1, SubscribedTypes DEF KeySubscribed
<1>3. QED  BY <1>2, RamTyped, KnowsType, TypeHeardOne DEF KeySubscribed

LEMMA TypeSubscribeAll ==
  ASSUME RamTypeInv, NEW s \in Stream, NEW n \in Node, SubscribeAll(s, n)
  PROVE  RamTypeInv'
<1>1. EventTypeInv' /\ Len(stack') = Len(stack)
  BY StreamFacts, SubscribedTypes DEF SubscribeAll, Subscribe
<1>2. QED  BY <1>1, RamTyped, KnowsType, TypeHeardOne DEF SubscribeAll

LEMMA TypeUnsubscribedFrom ==
  ASSUME RamTypeInv, NEW s \in Stream, NEW n \in Node, UnsubscribedFrom(s, n)
  PROVE  RamTypeInv'
<1>1. EventsSearched(s) \subseteq List  BY StreamFacts DEF EventsSearched
<1>2. /\ UNCHANGED listVars \/ \E l \in List : Delete(l, n)
      /\ stack' = DueWithout(EventsSearched(s), n)
  BY <1>1 DEF UnsubscribedFrom, DeletedWherever
<1>3. EventTypeInv' /\ Len(stack') = Len(stack)
  BY <1>2, RamTypes, TypeUnsubscribed, Typed, UnsubscribedStack
<1>4. QED  BY <1>3, ZeroFacts, TypeHeardOne DEF UnsubscribedFrom

\* ram_datastream_init empties the lists of one datastream.
LEMMA EventsEmptied ==
  ASSUME ListsInv, NEW events \in SUBSET List,
         head' = [l \in List |-> IF l \in events THEN NULL ELSE head[l]],
         next' = next
  PROVE  /\ ListsInv'
         /\ \A l \in List : Contents'[l] = IF l \in events THEN <<>> ELSE Contents[l]
<1>1. PICK c : c = [l \in List |-> IF l \in events THEN <<>> ELSE Contents[l]]
  OBVIOUS
<1>2. /\ Contents \in [List -> Seq(Node)]
      /\ \A l \in List : IsChain(Contents[l], head[l], next)
      /\ \A l, m \in List : l # m => Range(Contents[l]) \cap Range(Contents[m]) = {}
      /\ head \in [List -> Pointer] /\ next \in Heap
  BY DEF ListsInv, Holds, ListsTypeOK
<1>3. ListsTypeOK'  BY <1>2 DEF ListsTypeOK, Pointer
<1>4. <<>> \in Seq(Node) /\ Range(<<>>) = {} /\ IsChain(<<>>, NULL, next)
  BY DEF Range, IsChain, IsInjective
<1>5. Holds(head', next', c)
  <2>1. c \in [List -> Seq(Node)]  BY <1>1, <1>2, <1>4
  <2>2. ASSUME NEW l \in List  PROVE IsChain(c[l], head'[l], next')
    <3>1. CASE l \in events
      <4>1. c[l] = <<>> /\ head'[l] = NULL  BY <1>1, <3>1
      <4>2. QED  BY <1>4, <4>1, Zenon
    <3>2. CASE l \notin events
      <4>1. c[l] = Contents[l] /\ head'[l] = head[l]  BY <1>1, <3>2
      <4>2. QED  BY <1>2, <4>1, Zenon
    <3>3. QED  BY <3>1, <3>2
  <2>3. ASSUME NEW l \in List, NEW m \in List, l # m
        PROVE  Range(c[l]) \cap Range(c[m]) = {}
    <3>1. Range(c[l]) \subseteq Range(Contents[l])  BY <1>1, <1>4
    <3>2. Range(c[m]) \subseteq Range(Contents[m])  BY <1>1, <1>4
    <3>3. QED  BY <1>2, <2>3, <3>1, <3>2
  <2>4. QED  BY <2>1, <2>2, <2>3 DEF Holds
<1>6. ListsInv' /\ Contents' = c  BY <1>3, <1>5, HoldsInvNext
<1>7. QED  BY <1>1, <1>6

LEMMA ClearedType ==
  ASSUME NEW s \in Stream, NEW before \in [Key -> Value]
  PROVE  /\ Cleared(s, before) \in [Key -> Value]
         /\ \A k \in Key : Cleared(s, before)[k] # Zero => HasKey(s, k)
BY ZeroFacts DEF Cleared

LEMMA TypeRamReinit ==
  ASSUME RamTypeInv, NEW s \in Stream, RamReinit(s)
  PROVE  RamTypeInv'
<1>1. ListsInv'
  BY RamTypes, StreamFacts, EventsEmptied DEF RamReinit, EventTypeInv
<1>2. EventTypeInv'
  <2>1. stack' = stack  BY DEF RamReinit
  <2>2. QED  BY <1>1, <2>1, RamTypes, Typed, StackFacts, TypeSameWalks
<1>3. /\ value' \in [Stream -> [Key -> Value]]
      /\ \A r \in Stream, k \in Key : value'[r][k] # Zero => HasKey(r, k)
  BY RamTypes, ClearedType DEF RamReinit
<1>4. heard' \in [Node -> [Stream -> [Key -> Value]]]
  BY RamTypes, ZeroFacts DEF RamReinit
<1>5. QED  BY <1>2, <1>3, <1>4, RamTypes, RamTypesNext DEF RamReinit

LEMMA RamStart == RamInit => RamTypeInv
<1>1. SUFFICES ASSUME RamInit PROVE RamTypeInv  OBVIOUS
<1>2. EventTypeInv /\ stack = <<>>  BY <1>1, EventStart DEF RamInit, EventInit
<1>3. PICK garbage \in Value :
        value = [s \in Stream |-> Cleared(s, [k \in Key |-> garbage])]
  BY <1>1 DEF RamInit
<1>4. [k \in Key |-> garbage] \in [Key -> Value]  OBVIOUS
<1>5. /\ value \in [Stream -> [Key -> Value]]
      /\ \A s \in Stream, k \in Key : value[s][k] # Zero => HasKey(s, k)
  BY <1>3, <1>4, ClearedType
<1>6. writes = <<>> /\ heard = [n \in Node |-> Nothing]  BY <1>1 DEF RamInit
<1>7. writes \in Seq(WriteCall) /\ Len(writes) = Len(stack)  BY <1>2, <1>6
<1>8. heard \in [Node -> [Stream -> [Key -> Value]]]  BY <1>6, ZeroFacts
<1>9. QED
  BY <1>2, <1>5, <1>7, <1>8 DEF RamTypeInv, RamTypeOK, WriteCall, EventTypeInv

LEMMA RamUntouched ==
  ASSUME RamTypeInv, UNCHANGED ramVars
  PROVE  RamTypeInv'
<1>1. UNCHANGED eventVars  BY DEF ramVars
<1>2. EventTypeInv'  BY <1>1, EventStep, RamTypes
<1>3. stack' = stack  BY <1>1 DEF eventVars
<1>4. QED  BY <1>2, <1>3, RamTypes, RamTypesNext DEF ramVars

LEMMA RamStep == RamTypeInv /\ [RamNext]_ramVars => RamTypeInv'
<1>1. SUFFICES ASSUME RamTypeInv, [RamNext]_ramVars PROVE RamTypeInv'
  OBVIOUS
<1>2. CASE Tell \/ CallbackReturns \/ WriteGoesOn \/ WriteReturns
  BY <1>1, <1>2, TypeTell, TypeCallbackReturns, TypeWriteGoesOn,
     TypeWriteReturns
<1>3. ASSUME NEW s \in Stream, RamReinit(s)  PROVE RamTypeInv'
  BY <1>1, <1>3, TypeRamReinit
<1>4. ASSUME NEW s \in Stream, NEW k \in Key, NEW data \in Value,
             Write(s, k, data) \/ WriteWithoutEffect(s, k, data)
      PROVE  RamTypeInv'
  BY <1>1, <1>4, TypeWrite, RamUntouched DEF WriteWithoutEffect
<1>5. ASSUME NEW s \in Stream, NEW n \in Node, NEW k \in Key,
             SubscribeKey(s, k, n)
      PROVE  RamTypeInv'
  BY <1>1, <1>5, TypeKeySubscribed DEF SubscribeKey
<1>6. ASSUME NEW s \in Stream, NEW n \in Node,
             SubscribeAll(s, n) \/ UnsubscribeFrom(s, n)
      PROVE  RamTypeInv'
  BY <1>1, <1>6, TypeSubscribeAll, TypeUnsubscribedFrom DEF UnsubscribeFrom
<1>7. CASE UNCHANGED ramVars  BY <1>1, <1>7, RamUntouched
<1>8. QED  BY <1>1, <1>2, <1>3, <1>4, <1>5, <1>6, <1>7 DEF RamNext

LEMMA RamTypeInvariant == RamSpec => []RamTypeInv
BY RamStart, RamStep, PTL DEF RamSpec

\* The stored values, the writes under way and what subscriptions know are what
\* they should be, and nothing is ever stored under a key without an entry.
THEOREM RamTypeCorrect == RamSpec => []RamTypeOK
<1>1. RamTypeInv => RamTypeOK  BY DEF RamTypeInv
<1>2. QED  BY <1>1, RamTypeInvariant, PTL

-----------------------------------------------------------------------------
\* The write that begins, f, is the innermost one, and so is the one that
\* returns.
BeginsAt(m, f, s, k, data) ==
  /\ m = Len(stack) + 1 /\ Len(stack') = m /\ stack'[m] = f
  /\ f.event = On(s, k) /\ f.e = head[On(s, k)] /\ f.calling = FALSE
  /\ f.due = Linked(On(s, k))
  /\ writes'[m].stream = s /\ writes'[m].key = k /\ writes'[m].data = data
  /\ \A i \in 1 .. Len(stack) :
       stack'[i] = stack[i] /\ writes'[i] = writes[i] /\ i \in 1 .. m
  /\ \A i \in 1 .. m : i = m \/ i \in 1 .. Len(stack)
  /\ \A i \in 1 .. m - 1 : i \in 1 .. Len(stack)
  /\ m \in 1 .. m

EndsAfter(m) ==
  /\ m = Len(stack) - 1 /\ Len(stack') = m
  /\ \A i \in 1 .. m :
       stack'[i] = stack[i] /\ writes'[i] = writes[i] /\ i \in 1 .. Len(stack)
  /\ \A i \in 1 .. m - 1 : i \in 1 .. m
  /\ \A i \in 1 .. Len(stack) : i = Len(stack) \/ i \in 1 .. m

LEMMA WriteStacks ==
  ASSUME RamTypeOK, NEW s \in Stream, NEW k \in Key, NEW data \in Value,
         Write(s, k, data)
  PROVE  \E m \in Nat, f \in Frame : BeginsAt(m, f, s, k, data)
<1>1. EventTypeOK /\ writes \in Seq(WriteCall) /\ Len(writes) = Len(stack)
  BY RamPieces
<1>2. On(s, k) \in List  BY StreamFacts DEF Write
<1>3. PICK f \in Frame :
        /\ f = Begun(On(s, k))
        /\ f = Publishing(On(s, k), head[On(s, k)], FALSE, Linked(On(s, k)))
  BY <1>1, <1>2, BegunFrame
<1>4. /\ f.event = On(s, k) /\ f.e = head[On(s, k)] /\ f.calling = FALSE
      /\ f.due = Linked(On(s, k))
  BY <1>3 DEF Publishing
<1>5. PICK m : m = Len(stack) + 1  OBVIOUS
<1>6. Len(stack) \in Nat /\ m \in Nat  BY <1>1, <1>5, StackFacts
<1>7. /\ Len(stack') = m /\ stack'[m] = f
      /\ \A i \in 1 .. Len(stack) : stack'[i] = stack[i]
  <2>1. stack' = Append(stack, f)  BY <1>3 DEF Write, Publish
  <2>2. QED  BY <1>1, <1>5, <2>1, PushFrame
<1>8. /\ writes'[m].stream = s /\ writes'[m].key = k /\ writes'[m].data = data
      /\ \A i \in 1 .. Len(stack) : writes'[i] = writes[i]
  <2>1. PICK w \in WriteCall : w = [stream |-> s, key |-> k, data |-> data]
    BY DEF WriteCall
  <2>2. writes' = Append(writes, w)  BY <2>1 DEF Write
  <2>3. writes'[m] = w /\ \A i \in 1 .. Len(stack) : writes'[i] = writes[i]
    BY <1>1, <1>5, <1>6, <2>2
  <2>4. QED  BY <2>1, <2>3
<1>9. /\ \A i \in 1 .. Len(stack) : i \in 1 .. m
      /\ \A i \in 1 .. m : i = m \/ i \in 1 .. Len(stack)
      /\ \A i \in 1 .. m - 1 : i \in 1 .. Len(stack)
      /\ m \in 1 .. m
  BY <1>5, <1>6
<1>10. QED  BY <1>4, <1>5, <1>6, <1>7, <1>8, <1>9 DEF BeginsAt

LEMMA PopStacks ==
  ASSUME RamTypeOK, WriteReturns
  PROVE  \E m \in Nat : EndsAfter(m)
<1>1. /\ stack # <<>> /\ stack' = SubSeq(stack, 1, Len(stack) - 1)
      /\ writes' = SubSeq(writes, 1, Len(writes) - 1)
  BY DEF WriteReturns, PublishReturns, Walking
<1>2. /\ EventTypeOK /\ Len(stack) \in 1 .. Len(stack)
      /\ writes \in Seq(WriteCall) /\ Len(writes) = Len(stack)
  BY <1>1, RamPieces, WritingFacts
<1>3. PICK m : m = Len(stack) - 1  OBVIOUS
<1>4. m \in Nat /\ m <= Len(writes)  BY <1>2, <1>3
<1>5. /\ \A i \in 1 .. m : i \in 1 .. Len(stack)
      /\ \A i \in 1 .. m - 1 : i \in 1 .. m
      /\ \A i \in 1 .. Len(stack) : i = Len(stack) \/ i \in 1 .. m
  BY <1>2, <1>3, <1>4
<1>6. Len(stack') = m /\ \A i \in 1 .. m : stack'[i] = stack[i]
  BY <1>1, <1>2, <1>3, PopFrame
<1>7. \A i \in 1 .. m : writes'[i] = writes[i]
  <2>1. writes' = SubSeq(writes, 1, m)  BY <1>1, <1>2, <1>3
  <2>2. QED  BY <1>2, <1>4, <1>5, <2>1
<1>8. QED  BY <1>3, <1>4, <1>5, <1>6, <1>7 DEF EndsAfter

-----------------------------------------------------------------------------
\* The entries are laid out in the order of the keys, so none reaches beyond the
\* end of the last, and initialising clears them all.
LEMMA EntriesEnd ==
  ASSUME NEW s \in Stream, NEW k \in 0 .. Count(s) - 1
  PROVE  Entry(s, k).offset + Entry(s, k).size <= StorageEnd(s)
<1>1. PICK last : last = Count(s) - 1  OBVIOUS
<1>2. last \in Nat /\ k \in 0 .. last  BY <1>1, StreamFacts
<1>3. PICK end : end = [j \in 0 .. last |-> Entry(s, j).offset + Entry(s, j).size]
  OBVIOUS
<1>4. end \in [0 .. last -> Nat]  BY <1>1, <1>3, StreamFacts
<1>5. StorageEnd(s) = end[last]  BY <1>1, <1>2, <1>3 DEF StorageEnd
<1>6. ASSUME NEW j \in 1 .. last  PROVE end[j-1] <= end[j]
  <2>1. j - 1 \in 0 .. last /\ j \in 0 .. last /\ j \in 1 .. Count(s) - 1
    BY <1>1, <1>2
  <2>2. end[j-1] <= Entry(s, j).offset  BY <1>3, <2>1, RamConstants
  <2>3. end[j] = Entry(s, j).offset + Entry(s, j).size  BY <1>3, <2>1
  <2>4. /\ Entry(s, j).offset \in Nat /\ Entry(s, j).size \in Nat
        /\ end[j-1] \in Nat
    BY <1>1, <1>4, <2>1, StreamFacts
  <2>5. QED  BY <2>2, <2>3, <2>4
<1>7. PICK B : B = {d \in 0 .. last : ~(end[last - d] <= end[last])}  OBVIOUS
<1>8. B = {}
  <2>1. SUFFICES ASSUME B # {} PROVE FALSE  OBVIOUS
  <2>2. B \in SUBSET Nat  BY <1>7
  <2>3. PICK d \in B : \A e \in B : d <= e  BY <2>1, <2>2, NatMin
  <2>4. d \in 0 .. last /\ ~(end[last - d] <= end[last])  BY <1>7, <2>3
  <2>5. end[last] \in Nat /\ last - 0 = last  BY <1>2, <1>4
  <2>6. d # 0  BY <2>4, <2>5
  <2>7. d - 1 \in 0 .. last /\ d - 1 \notin B  BY <1>2, <2>2, <2>3, <2>4, <2>6
  <2>8. end[last - (d-1)] <= end[last]  BY <1>7, <2>7
  <2>9. /\ last - (d-1) \in 1 .. last /\ (last - (d-1)) - 1 = last - d
        /\ last - (d-1) \in 0 .. last /\ last - d \in 0 .. last
    BY <1>2, <2>4, <2>6
  <2>10. end[last - d] <= end[last - (d-1)]  BY <1>6, <2>9
  <2>11. end[last - d] \in Nat /\ end[last - (d-1)] \in Nat  BY <1>4, <2>9
  <2>12. QED  BY <2>4, <2>5, <2>8, <2>10, <2>11
<1>9. last - k \in 0 .. last /\ last - (last - k) = k  BY <1>2
<1>10. end[last - (last - k)] <= end[last]  BY <1>7, <1>8, <1>9
<1>11. end[k] <= end[last]  BY <1>9, <1>10
<1>12. QED  BY <1>2, <1>3, <1>5, <1>11

LEMMA ClearedIsZero ==
  ASSUME NEW s \in Stream, NEW before
  PROVE  Cleared(s, before) = Zeroes
<1>1. ASSUME NEW k \in Key, HasKey(s, k)
      PROVE  ~(Entry(s, k).offset + Entry(s, k).size > StorageEnd(s))
  <2>1. k \in 0 .. Count(s) - 1  BY <1>1, StreamFacts
  <2>2. Entry(s, k).offset + Entry(s, k).size <= StorageEnd(s)
    BY <2>1, EntriesEnd
  <2>3. Entry(s, k).offset \in Nat /\ Entry(s, k).size \in Nat
    BY <2>1, StreamFacts
  <2>4. StorageEnd(s) \in Nat
    <3>1. Count(s) - 1 \in 0 .. Count(s) - 1  BY StreamFacts
    <3>2. /\ Entry(s, Count(s) - 1).offset \in Nat
          /\ Entry(s, Count(s) - 1).size \in Nat
      BY <3>1, StreamFacts
    <3>3. QED  BY <3>2 DEF StorageEnd
  <2>5. QED  BY <2>2, <2>3, <2>4
<1>2. QED  BY <1>1 DEF Cleared, Zeroes

LEMMA EmptyList ==
  ASSUME ListsInv', NEW l \in List, Contents'[l] = <<>>
  PROVE  Linked(l)' = {}
<1>1. Range(<<>>) = {}  BY DEF Range
<1>2. QED  BY <1>1, LinkedNext

\* Whatever the storage held before, and however the entries are laid out.
THEOREM InitialisingStartsAfresh == RamSpec => InitStartsAfresh
<1>1. RamInit => value = Nothing
  BY ClearedIsZero DEF RamInit, Nothing
<1>2. RamTypeInv /\ [RamNext]_ramVars
        => [\A s \in Stream :
              RamReinit(s) => /\ value'[s] = Zeroes
                              /\ \A l \in EventsOf(s) : Linked(l)' = {}]_ramVars
  <2>1. SUFFICES ASSUME RamTypeInv, NEW s \in Stream, RamReinit(s)
                 PROVE  /\ value'[s] = Zeroes
                        /\ \A l \in EventsOf(s) : Linked(l)' = {}
    OBVIOUS
  <2>2. value'[s] = Zeroes  BY <2>1, RamTypes, ClearedIsZero DEF RamReinit
  <2>3. /\ EventsOf(s) \subseteq List /\ ListsInv'
        /\ \A l \in EventsOf(s) : Contents'[l] = <<>>
    BY <2>1, RamTypes, StreamFacts, EventsEmptied DEF RamReinit, EventTypeInv
  <2>4. \A l \in EventsOf(s) : Linked(l)' = {}  BY <2>3, EmptyList
  <2>5. QED  BY <2>2, <2>4
<1>3. QED
  BY <1>1, <1>2, RamTypeInvariant, PTL DEF RamSpec, InitStartsAfresh

-----------------------------------------------------------------------------
\* What unsubscribing does to the lists of the datastreams.
LEMMA LinkedAfterUnsubscribing ==
  ASSUME ListsInv, NEW events \in SUBSET List, NEW n \in Node,
         DeletedWherever(events, n)
  PROVE  /\ ListsInv'
         /\ \A l \in List : /\ Linked(l)' \subseteq Linked(l)
                            /\ Linked(l) \ {n} \subseteq Linked(l)'
         /\ \A l \in events : n \notin Linked(l)'
<1>1. CASE \E l \in events : n \in Linked(l) /\ Delete(l, n)
  <2>1. PICK l \in events : n \in Linked(l) /\ Delete(l, n)  BY <1>1
  <2>2. /\ ListsInv'
        /\ \A m \in List : /\ Linked(m)' \subseteq Linked(m)
                           /\ Linked(m) \ {n} \subseteq Linked(m)'
    BY <2>1, DeleteStep, DeleteKeeps
  <2>3. \A m \in events \ {l} : n \notin Linked(m)
    <3>1. ListsDisjoint  BY InvProperties
    <3>2. QED  BY <2>1, <3>1 DEF ListsDisjoint
  <2>4. n \notin Linked(l)'  BY <2>1, DeletedIsGone
  <2>5. QED  BY <2>2, <2>3, <2>4
<1>2. CASE (\A l \in events : n \notin Linked(l)) /\ UNCHANGED listVars
  <2>1. ListsInv' /\ Contents' = Contents  BY <1>2, ListsUntouched
  <2>2. \A l \in List : Linked(l)' = Linked(l)
    BY <2>1, LinkedNext, ContentsFacts
  <2>3. QED  BY <1>2, <2>1, <2>2
<1>3. QED  BY <1>1, <1>2 DEF DeletedWherever

\* datastream_unsubscribe forgets the subscription, whichever of its lists it
\* was on and whatever callbacks it is called from.
THEOREM UnsubscribingIsComplete == RamSpec => UnsubscribeIsComplete
<1>1. RamTypeInv /\ [RamNext]_ramVars
        => [\A s \in Stream, n \in Node :
              UnsubscribeFrom(s, n) =>
                \A l \in EventsOf(s) : n \notin Linked(l)']_ramVars
  <2>1. SUFFICES ASSUME RamTypeInv, NEW s \in Stream, NEW n \in Node,
                        UnsubscribedFrom(s, n)
                 PROVE  \A l \in EventsOf(s) : n \notin Linked(l)'
    BY DEF UnsubscribeFrom
  <2>2. ListsInv  BY <2>1, RamTypes DEF EventTypeInv
  <2>3. EventsOf(s) \in SUBSET List  BY StreamFacts
  <2>4. DeletedWherever(EventsOf(s), n)
    BY <2>1 DEF UnsubscribedFrom, EventsSearched
  <2>5. QED  BY <2>2, <2>3, <2>4, LinkedAfterUnsubscribing
<1>2. QED  BY <1>1, RamTypeInvariant, PTL DEF RamSpec, UnsubscribeIsComplete

-----------------------------------------------------------------------------
(***************************************************************************)
(* The argument for HeardIsCurrent.  A subscription that does not know the *)
(* stored value of its key is still due in a write of that key: in the     *)
(* publish of the key, or in that of all keys, which may be yet to come.   *)
(* And a write under way tells the value that is stored, because nobody    *)
(* writes its key again before it is done.  The steps need the walks to    *)
(* stay on chains, but not that no two lists share a node: that is true of *)
(* one ram datastream and not of several under a composite.                *)
(***************************************************************************)
Of(i, s, k) == writes[i].stream = s /\ writes[i].key = k

KeyNews(i, s, k, n) ==
  Of(i, s, k) /\ stack[i].event = On(s, k) /\ n \in stack[i].due
AllNews(i, s, k, n) ==
  Of(i, s, k) /\ (stack[i].event = On(s, k) \/ n \in stack[i].due)

Knowing(s, k, n) == heard[n][s][k] = value[s][k]

WritesAreCurrent ==
  \A i \in 1 .. Len(stack) :
    LET w == writes[i]
    IN  /\ stack[i].event \in {On(w.stream, w.key), AllOf(w.stream)}
        /\ HasKey(w.stream, w.key)
        /\ value[w.stream][w.key] = w.data

NewsIsDue ==
  \A s \in Stream, k \in Key, n \in Node :
    HasKey(s, k) =>
      /\ n \in Linked(On(s, k)) =>
           Knowing(s, k, n) \/ \E i \in 1 .. Len(stack) : KeyNews(i, s, k, n)
      /\ n \in Linked(AllOf(s)) =>
           Knowing(s, k, n) \/ \E i \in 1 .. Len(stack) : AllNews(i, s, k, n)

News == WritesAreCurrent /\ NewsIsDue

NewsInv == RamTypeInv /\ Walks /\ News

LEMMA NewsFacts ==
  ASSUME NewsInv
  PROVE  /\ RamTypeInv /\ RamTypeOK /\ EventTypeInv /\ ListsInv
         /\ WalkInv /\ News
<1>1. RamTypeInv /\ RamTypeOK /\ EventTypeInv /\ ListsInv /\ Walks /\ News
  BY DEF NewsInv, RamTypeInv, EventTypeInv
<1>2. PublishInv  BY <1>1 DEF PublishInv
<1>3. QED  BY <1>1, <1>2, PublishWalks

\* Datastreams that have configurations of their own have events of their own.
OwnConfigs == IsInjective(ConfigOf)

LEMMA EventsApart ==
  ASSUME OwnConfigs, NEW s \in Stream, NEW r \in Stream
  PROVE  /\ \A k, j \in Key : On(s, k) = On(r, j) => s = r /\ k = j
         /\ \A k \in Key : On(s, k) # AllOf(r)
         /\ AllOf(s) = AllOf(r) => s = r
         /\ s # r => EventsOf(s) \cap EventsOf(r) = {}
<1>1. ConfigOf[s] = ConfigOf[r] => s = r
  BY RamConstants DEF OwnConfigs, IsInjective
<1>2. \A k, j : On(s, k) = On(r, j) => s = r /\ k = j  BY <1>1 DEF On
<1>3. \A k : On(s, k) # AllOf(r) /\ On(r, k) # AllOf(s)  BY DEF On, AllOf
<1>4. AllOf(s) = AllOf(r) => s = r  BY DEF AllOf
<1>5. s # r => EventsOf(s) \cap EventsOf(r) = {}
  BY <1>2, <1>3, <1>4 DEF EventsOf
<1>6. QED  BY <1>2, <1>3, <1>4, <1>5

LEMMA SameLinks ==
  ASSUME UNCHANGED listVars
  PROVE  \A l : Linked(l)' = Linked(l)
BY DEF Linked, listVars

\* The invariant is about what is known after a step.
LEMMA NewsNext ==
  ASSUME \A i \in 1 .. Len(stack') :
           /\ stack'[i].event \in {On(writes'[i].stream, writes'[i].key),
                                   AllOf(writes'[i].stream)}
           /\ HasKey(writes'[i].stream, writes'[i].key)
           /\ value'[writes'[i].stream][writes'[i].key] = writes'[i].data,
         \A s \in Stream, k \in Key, n \in Node :
           HasKey(s, k) =>
             /\ n \in Linked(On(s, k))' =>
                  \/ Knowing(s, k, n)'
                  \/ \E i \in 1 .. Len(stack') : KeyNews(i, s, k, n)'
             /\ n \in Linked(AllOf(s))' =>
                  \/ Knowing(s, k, n)'
                  \/ \E i \in 1 .. Len(stack') : AllNews(i, s, k, n)'
  PROVE  News'
<1>1. WritesAreCurrent'  BY Zenon DEF WritesAreCurrent, HasKey, Count, Entry
<1>2. NewsIsDue'  BY Zenon DEF NewsIsDue, HasKey, Count, Entry, On, AllOf
<1>3. QED  BY <1>1, <1>2 DEF News

\* A subscription that was told knows; the others are due as before.
LEMMA NewsTell ==
  ASSUME RamTypeOK, News, Tell
  PROVE  News'
<1>1. EventTypeOK /\ WritesAreCurrent /\ NewsIsDue  BY RamPieces DEF News
<1>2. /\ Call /\ stack # <<>> /\ UNCHANGED <<listVars, value, writes>>
      /\ heard' = [heard EXCEPT ![Top.e][Writing.stream][Writing.key] = Writing.data]
  BY DEF Tell, Call, Walking
<1>4. PICK f \in Frame :
        /\ f = Publishing(Top.event, Top.e, TRUE, Top.due \ {Top.e})
        /\ stack' = [stack EXCEPT ![Len(stack)] = f]
  BY <1>1, <1>2, CallStack
<1>5. /\ Len(stack) \in 1 .. Len(stack) /\ Top = stack[Len(stack)]
      /\ Writing = writes[Len(stack)] /\ Top.e \in Node
  BY <1>1, <1>2, WritingFacts, TopFrame DEF Call, Pointer
<1>6. /\ Len(stack') = Len(stack) /\ stack'[Len(stack)] = f
      /\ \A i \in 1 .. Len(stack) - 1 : stack'[i] = stack[i]
  BY <1>1, <1>2, <1>4, ReplaceTop
<1>7. \A i \in 1 .. Len(stack) :
        /\ stack'[i].event = stack[i].event
        /\ stack'[i].due = IF i = Len(stack) THEN stack[i].due \ {Top.e}
                           ELSE stack[i].due
  <2>1. f.event = Top.event /\ f.due = Top.due \ {Top.e}
    BY <1>4 DEF Publishing
  <2>2. \A i \in 1 .. Len(stack) : i = Len(stack) \/ i \in 1 .. Len(stack) - 1
    BY <1>5
  <2>3. \A i \in 1 .. Len(stack) - 1 : i # Len(stack)  BY <1>5
  <2>4. QED  BY <1>5, <1>6, <2>1, <2>2, <2>3
<1>8. ASSUME NEW s \in Stream, NEW k \in Key, NEW n \in Node
      PROVE  heard'[n][s][k] = IF n = Top.e /\ Of(Len(stack), s, k)
                               THEN Writing.data ELSE heard[n][s][k]
  BY <1>1, <1>2, <1>5, RamPieces DEF Of
<1>9. ASSUME NEW s \in Stream, NEW k \in Key, NEW n \in Node
      PROVE  /\ Knowing(s, k, n) => Knowing(s, k, n)'
             /\ \A i \in 1 .. Len(stack) :
                  /\ KeyNews(i, s, k, n) => KeyNews(i, s, k, n)' \/ Knowing(s, k, n)'
                  /\ AllNews(i, s, k, n) => AllNews(i, s, k, n)' \/ Knowing(s, k, n)'
  <2>1. CASE n = Top.e /\ Of(Len(stack), s, k)
    <3>1. heard'[n][s][k] = Writing.data  BY <1>8, <2>1
    <3>2. value[s][k] = Writing.data
      BY <1>1, <1>5, <2>1 DEF WritesAreCurrent, Of
    <3>3. Knowing(s, k, n)'  BY <1>2, <3>1, <3>2 DEF Knowing
    <3>4. QED  BY <3>3
  <2>2. CASE ~(n = Top.e /\ Of(Len(stack), s, k))
    <3>1. heard'[n][s][k] = heard[n][s][k]  BY <1>8, <2>2
    <3>2. \A i \in 1 .. Len(stack) :
            Of(i, s, k) /\ n \in stack[i].due => n \in stack'[i].due
      BY <1>7, <2>2
    <3>3. QED  BY <1>2, <1>7, <3>1, <3>2 DEF Knowing, KeyNews, AllNews, Of
  <2>3. QED  BY <2>1, <2>2
<1>10. QED
  <2>1. \A l : Linked(l)' = Linked(l)  BY <1>2, SameLinks
  <2>2. writes' = writes /\ value' = value  BY <1>2
  <2>3. \A i \in 1 .. Len(stack') :
          /\ stack'[i].event \in {On(writes'[i].stream, writes'[i].key),
                                  AllOf(writes'[i].stream)}
          /\ HasKey(writes'[i].stream, writes'[i].key)
          /\ value'[writes'[i].stream][writes'[i].key] = writes'[i].data
    BY <1>1, <1>6, <1>7, <2>2, Zenon DEF WritesAreCurrent
  <2>4. QED  BY <1>1, <1>6, <1>9, <2>1, <2>3, NewsNext DEF NewsIsDue

LEMMA NewsCallbackReturns ==
  ASSUME RamTypeOK, News, CallbackReturns
  PROVE  News'
<1>1. EventTypeOK /\ WritesAreCurrent /\ NewsIsDue  BY RamPieces DEF News
<1>2. /\ Return /\ stack # <<>> /\ UNCHANGED <<listVars, value, writes, heard>>
  BY DEF CallbackReturns, Return, InCallback
<1>4. PICK f \in Frame :
        /\ f = Publishing(Top.event, next[Top.e], FALSE, Top.due)
        /\ stack' = [stack EXCEPT ![Len(stack)] = f]
  BY <1>1, <1>2, ReturnStack
<1>5. Len(stack) \in 1 .. Len(stack) /\ Top = stack[Len(stack)]
  BY <1>1, <1>2, TopFrame
<1>6. /\ Len(stack') = Len(stack) /\ stack'[Len(stack)] = f
      /\ \A i \in 1 .. Len(stack) - 1 : stack'[i] = stack[i]
  BY <1>1, <1>2, <1>4, ReplaceTop
<1>7. \A i \in 1 .. Len(stack) :
        stack'[i].event = stack[i].event /\ stack'[i].due = stack[i].due
  <2>1. f.event = Top.event /\ f.due = Top.due  BY <1>4 DEF Publishing
  <2>2. \A i \in 1 .. Len(stack) : i = Len(stack) \/ i \in 1 .. Len(stack) - 1
    BY <1>5
  <2>3. QED  BY <1>5, <1>6, <2>1, <2>2
<1>8. \A l : Linked(l)' = Linked(l)  BY <1>2, SameLinks
<1>9. writes' = writes /\ value' = value /\ heard' = heard  BY <1>2
<1>10. \A i \in 1 .. Len(stack') :
         /\ stack'[i].event \in {On(writes'[i].stream, writes'[i].key),
                                 AllOf(writes'[i].stream)}
         /\ HasKey(writes'[i].stream, writes'[i].key)
         /\ value'[writes'[i].stream][writes'[i].key] = writes'[i].data
  BY <1>1, <1>6, <1>7, <1>9, Zenon DEF WritesAreCurrent
<1>11. ASSUME NEW s \in Stream, NEW k \in Key, NEW n \in Node
       PROVE  /\ Knowing(s, k, n) => Knowing(s, k, n)'
              /\ \A i \in 1 .. Len(stack) :
                   /\ KeyNews(i, s, k, n) => KeyNews(i, s, k, n)'
                   /\ AllNews(i, s, k, n) => AllNews(i, s, k, n)'
  BY <1>7, <1>9 DEF Knowing, KeyNews, AllNews, Of
<1>12. QED  BY <1>1, <1>6, <1>8, <1>10, <1>11, NewsNext DEF NewsIsDue

\* The publish of a key is done when nobody is due in it.
LEMMA NobodyDue ==
  ASSUME WalkInv, Walking, Top.e = NULL
  PROVE  /\ stack # <<>> /\ Len(stack) \in 1 .. Len(stack)
         /\ Top = stack[Len(stack)] /\ Top.due = {}
<1>1. stack # <<>>  BY DEF Walking
<1>2. Len(stack) \in 1 .. Len(stack) /\ Top = stack[Len(stack)]
  BY <1>1, TopFrame DEF WalkInv
<1>3. QED  BY <1>1, <1>2, PublishFacts DEF OnTheWay

\* Then those of all keys are due.
LEMMA NewsWriteGoesOn ==
  ASSUME OwnConfigs, RamTypeOK, WalkInv, News, WriteGoesOn
  PROVE  News'
<1>1. EventTypeOK /\ WritesAreCurrent /\ NewsIsDue  BY RamPieces DEF News
<1>2. /\ Walking /\ Top.e = NULL /\ ~ToAll
      /\ UNCHANGED <<listVars, value, writes, heard>>
  BY DEF WriteGoesOn
<1>3. /\ stack # <<>> /\ Len(stack) \in 1 .. Len(stack)
      /\ Top = stack[Len(stack)] /\ Top.due = {}
  BY <1>1, <1>2, NobodyDue
<1>4. PICK s0 : s0 = Writing.stream  OBVIOUS
<1>5. /\ s0 \in Stream /\ Writing = writes[Len(stack)]
      /\ AllOf(s0) \in List /\ Top.event # AllOf(s0)
  BY <1>1, <1>2, <1>3, <1>4, WritingFacts, StreamFacts DEF ToAll
<1>6. PICK f \in Frame :
        /\ f = Begun(AllOf(s0))
        /\ f = Publishing(AllOf(s0), head[AllOf(s0)], FALSE, Linked(AllOf(s0)))
        /\ stack' = [stack EXCEPT ![Len(stack)] = f]
  BY <1>1, <1>4, <1>5, BegunFrame DEF WriteGoesOn, TopBecomes
<1>7. /\ f.event = AllOf(s0) /\ f.e = head[AllOf(s0)] /\ f.calling = FALSE
      /\ f.due = Linked(AllOf(s0))
  BY <1>6 DEF Publishing
<1>10. /\ Len(stack') = Len(stack) /\ stack'[Len(stack)] = f
       /\ \A i \in 1 .. Len(stack) - 1 : stack'[i] = stack[i]
  BY <1>1, <1>3, <1>6, ReplaceTop
<1>11. \A i \in 1 .. Len(stack) :
         i = Len(stack) \/ (i # Len(stack) /\ i \in 1 .. Len(stack) - 1)
  BY <1>3
<1>12. \A l : Linked(l)' = Linked(l)  BY <1>2, SameLinks
<1>13. writes' = writes /\ value' = value /\ heard' = heard  BY <1>2
<1>14. ASSUME NEW i \in 1 .. Len(stack')
       PROVE  /\ stack'[i].event \in {On(writes'[i].stream, writes'[i].key),
                                      AllOf(writes'[i].stream)}
              /\ HasKey(writes'[i].stream, writes'[i].key)
              /\ value'[writes'[i].stream][writes'[i].key] = writes'[i].data
  <2>1. i \in 1 .. Len(stack)  BY <1>10
  <2>2. /\ stack[i].event \in {On(writes[i].stream, writes[i].key),
                               AllOf(writes[i].stream)}
        /\ HasKey(writes[i].stream, writes[i].key)
        /\ value[writes[i].stream][writes[i].key] = writes[i].data
    BY <1>1, <2>1 DEF WritesAreCurrent
  <2>3. stack'[i].event \in {On(writes[i].stream, writes[i].key),
                             AllOf(writes[i].stream)}
    <3>1. CASE i = Len(stack)  BY <1>4, <1>5, <1>7, <1>10, <3>1
    <3>2. CASE i # Len(stack)
      <4>1. stack'[i] = stack[i]  BY <1>10, <1>11, <2>1, <3>2, Zenon
      <4>2. QED  BY <2>2, <4>1, Zenon
    <3>3. QED  BY <3>1, <3>2
  <2>4. QED  BY <1>13, <2>2, <2>3, Zenon
<1>15. Top.event = On(s0, Writing.key)
  BY <1>1, <1>3, <1>4, <1>5 DEF WritesAreCurrent
<1>16. ASSUME NEW s \in Stream, NEW k \in Key, NEW n \in Node
       PROVE  /\ Knowing(s, k, n) => Knowing(s, k, n)'
              /\ \A i \in 1 .. Len(stack) :
                   /\ KeyNews(i, s, k, n) => KeyNews(i, s, k, n)'
                   /\ AllNews(i, s, k, n) /\ n \in Linked(AllOf(s))
                        => AllNews(i, s, k, n)'
  <2>1. Knowing(s, k, n) => Knowing(s, k, n)'  BY <1>13 DEF Knowing
  <2>2. ASSUME NEW i \in 1 .. Len(stack), i # Len(stack)
        PROVE  /\ KeyNews(i, s, k, n) => KeyNews(i, s, k, n)'
               /\ AllNews(i, s, k, n) => AllNews(i, s, k, n)'
    <3>1. stack'[i] = stack[i]  BY <1>10, <1>11, <2>2, Zenon
    <3>2. QED  BY <1>13, <3>1 DEF KeyNews, AllNews, Of
  <2>3. ~KeyNews(Len(stack), s, k, n)  BY <1>3 DEF KeyNews
  <2>4. ASSUME NEW i \in 1 .. Len(stack), i = Len(stack),
               AllNews(i, s, k, n), n \in Linked(AllOf(s))
        PROVE  AllNews(i, s, k, n)'
    <3>1. s = s0  BY <1>4, <1>5, <2>4 DEF AllNews, Of
    <3>2. n \in stack'[i].due  BY <1>7, <1>10, <2>4, <3>1
    <3>3. QED  BY <1>13, <2>4, <3>2 DEF AllNews, Of
  <2>5. QED  BY <2>1, <2>2, <2>3, <2>4
<1>17. QED
  BY <1>1, <1>10, <1>12, <1>14, <1>16, NewsNext DEF NewsIsDue

\* And the walk begins anew, at the head of their list.
LEMMA WalkWriteGoesOn ==
  ASSUME RamTypeOK, WalkInv, WriteGoesOn
  PROVE  Walks'
<1>1. /\ stack # <<>> /\ UNCHANGED listVars
      /\ TopBecomes(Begun(AllOf(Writing.stream)))
  BY DEF WriteGoesOn, Walking
<1>2. PICK l \in List : l = AllOf(Writing.stream)
  BY <1>1, WritingFacts, StreamFacts
<1>3. PICK f : f = Begun(l)  OBVIOUS
<1>4. EventTypeOK /\ Chained  BY DEF WalkInv
<1>5. f \in Frame /\ f.event = l
  BY <1>3, <1>4, BegunFrame DEF Publishing
<1>6. OnTheWay(f, Contents[f.event])  BY <1>3, <1>4, <1>5, BegunOnTheWay
<1>7. stack' = [stack EXCEPT ![Len(stack)] = f]
  BY <1>1, <1>2, <1>3 DEF TopBecomes
<1>8. QED  BY <1>1, <1>5, <1>6, <1>7, WalkTop

LEMMA NewsWriteReturns ==
  ASSUME OwnConfigs, RamTypeOK, WalkInv, News, WriteReturns
  PROVE  News'
<1>1. WritesAreCurrent /\ NewsIsDue  BY DEF News
<1>2. /\ PublishReturns /\ ToAll /\ Walking /\ Top.e = NULL
      /\ stack' = SubSeq(stack, 1, Len(stack) - 1)
      /\ writes' = SubSeq(writes, 1, Len(writes) - 1)
      /\ UNCHANGED <<listVars, value, heard>>
  BY DEF WriteReturns, PublishReturns
<1>3. /\ stack # <<>> /\ Len(stack) \in 1 .. Len(stack)
      /\ Top = stack[Len(stack)] /\ Top.due = {}
  BY <1>1, <1>2, NobodyDue
<1>5. PICK k0 \in Nat : EndsAfter(k0)  BY PopStacks
<1>6. k0 \in Nat /\ \A i \in 1 .. k0 : i \in 1 .. Len(stack)
  BY <1>5 DEF EndsAfter
<1>7. Len(stack') = k0 /\ \A i \in 1 .. k0 : stack'[i] = stack[i]
  BY <1>5 DEF EndsAfter
<1>8. \A i \in 1 .. k0 : writes'[i] = writes[i]  BY <1>5 DEF EndsAfter
<1>9. \A l : Linked(l)' = Linked(l)  BY <1>2, SameLinks
<1>10. value' = value /\ heard' = heard  BY <1>2
<1>11. \A i \in 1 .. Len(stack') :
         /\ stack'[i].event \in {On(writes'[i].stream, writes'[i].key),
                                 AllOf(writes'[i].stream)}
         /\ HasKey(writes'[i].stream, writes'[i].key)
         /\ value'[writes'[i].stream][writes'[i].key] = writes'[i].data
  BY <1>1, <1>6, <1>7, <1>8, <1>10, Zenon DEF WritesAreCurrent
<1>12. ASSUME NEW s \in Stream, NEW k \in Key, NEW n \in Node
       PROVE  /\ Knowing(s, k, n) => Knowing(s, k, n)'
              /\ \A i \in 1 .. Len(stack) :
                   /\ KeyNews(i, s, k, n) => i \in 1 .. k0 /\ KeyNews(i, s, k, n)'
                   /\ AllNews(i, s, k, n) => i \in 1 .. k0 /\ AllNews(i, s, k, n)'
  <2>1. Knowing(s, k, n) => Knowing(s, k, n)'  BY <1>10 DEF Knowing
  <2>2. ASSUME NEW i \in 1 .. k0
        PROVE  /\ KeyNews(i, s, k, n) => KeyNews(i, s, k, n)'
               /\ AllNews(i, s, k, n) => AllNews(i, s, k, n)'
    BY <1>7, <1>8 DEF KeyNews, AllNews, Of
  <2>3. ~AllNews(Len(stack), s, k, n) /\ ~KeyNews(Len(stack), s, k, n)
    <3>1. /\ Writing = writes[Len(stack)] /\ Writing.stream \in Stream
          /\ Writing.key \in Key
      BY <1>1, <1>3, WritingFacts
    <3>2. stack[Len(stack)].event = AllOf(Writing.stream)
          /\ stack[Len(stack)].due = {}
      BY <1>2, <1>3 DEF ToAll
    <3>3. stack[Len(stack)].event # On(s, k)  BY <3>1, <3>2, EventsApart
    <3>4. QED  BY <3>2, <3>3 DEF AllNews, KeyNews
  <2>4. \A i \in 1 .. Len(stack) : i = Len(stack) \/ i \in 1 .. k0
    BY <1>5 DEF EndsAfter
  <2>5. QED  BY <2>1, <2>2, <2>3, <2>4
<1>13. QED  BY <1>1, <1>7, <1>9, <1>11, <1>12, NewsNext DEF NewsIsDue

\* A write that begins replaces a value nobody is being told.
LEMMA NewsWrite ==
  ASSUME ~RewriteInFlight, RamTypeOK, News,
         NEW s \in Stream, NEW k \in Key, NEW data \in Value, Write(s, k, data)
  PROVE  News'
<1>1. WritesAreCurrent /\ NewsIsDue  BY DEF News
<1>2. /\ HasKey(s, k) /\ MayWrite(s, k) /\ Publish(On(s, k))
      /\ Outside \/ InCallback
      /\ UNCHANGED <<listVars, heard>>
      /\ value' = [value EXCEPT ![s][k] = data]
  BY DEF Write, Publish
<1>5. /\ writes \in Seq(WriteCall) /\ Len(writes) = Len(stack)
      /\ Len(stack) \in Nat
  BY RamPieces
<1>6. \A i \in 1 .. Len(stack) : ~Of(i, s, k)
  <2>1. CASE Outside  BY <2>1 DEF Outside
  <2>2. CASE InCallback
    <3>1. ~BeingWritten(s, k)  BY <1>2, <2>2 DEF MayWrite
    <3>2. QED  BY <1>5, <3>1 DEF BeingWritten, Of
  <2>3. QED  BY <1>2, <2>1, <2>2
<1>7. PICK m \in Nat, f \in Frame : BeginsAt(m, f, s, k, data)
  BY WriteStacks
<1>8. f.event = On(s, k) /\ f.due = Linked(On(s, k))  BY <1>7 DEF BeginsAt
<1>10. /\ Len(stack') = m /\ stack'[m] = f
       /\ \A i \in 1 .. Len(stack) : stack'[i] = stack[i]
  BY <1>7 DEF BeginsAt
<1>11. /\ writes'[m].stream = s /\ writes'[m].key = k /\ writes'[m].data = data
       /\ \A i \in 1 .. Len(stack) : writes'[i] = writes[i]
  BY <1>7 DEF BeginsAt
<1>12. \A i \in 1 .. m : i = m \/ i \in 1 .. Len(stack)  BY <1>7 DEF BeginsAt
<1>13. m \in 1 .. m /\ \A i \in 1 .. Len(stack) : i \in 1 .. m
  BY <1>7 DEF BeginsAt
<1>14. \A r \in Stream, j \in Key :
         value'[r][j] = IF r = s /\ j = k THEN data ELSE value[r][j]
  BY <1>1, <1>2, RamPieces
<1>15. \A l : Linked(l)' = Linked(l)  BY <1>2, SameLinks
<1>16. ASSUME NEW i \in 1 .. Len(stack')
       PROVE  /\ stack'[i].event \in {On(writes'[i].stream, writes'[i].key),
                                       AllOf(writes'[i].stream)}
              /\ HasKey(writes'[i].stream, writes'[i].key)
              /\ value'[writes'[i].stream][writes'[i].key] = writes'[i].data
  <2>1. CASE i = m
    <3>1. stack'[i].event = On(s, k)  BY <1>8, <1>10, <2>1
    <3>2. value'[s][k] = data  BY <1>14
    <3>3. QED  BY <1>2, <1>11, <2>1, <3>1, <3>2
  <2>2. CASE i \in 1 .. Len(stack)
    <3>1. writes'[i] = writes[i] /\ stack'[i] = stack[i]
      BY <1>10, <1>11, <2>2
    <3>2. writes[i].stream \in Stream /\ writes[i].key \in Key
      <4>1. writes[i] \in WriteCall  BY <1>5, <2>2
      <4>2. QED  BY <4>1 DEF WriteCall
    <3>3. ~(writes[i].stream = s /\ writes[i].key = k)  BY <1>6, <2>2 DEF Of
    <3>4. value'[writes[i].stream][writes[i].key]
            = value[writes[i].stream][writes[i].key]
      BY <1>14, <3>2, <3>3
    <3>5. QED  BY <1>1, <2>2, <3>1, <3>4, Zenon DEF WritesAreCurrent
  <2>3. QED  BY <1>10, <1>12, <2>1, <2>2
<1>17. ASSUME NEW r \in Stream, NEW j \in Key, NEW n \in Node, HasKey(r, j)
       PROVE  /\ n \in Linked(On(r, j)) =>
                   \/ Knowing(r, j, n)'
                   \/ \E i \in 1 .. Len(stack') : KeyNews(i, r, j, n)'
              /\ n \in Linked(AllOf(r)) =>
                   \/ Knowing(r, j, n)'
                   \/ \E i \in 1 .. Len(stack') : AllNews(i, r, j, n)'
  <2>1. CASE r = s /\ j = k
    <3>1. Of(m, r, j)'  BY <1>11, <2>1 DEF Of
    <3>2. stack'[m].event = On(r, j)  BY <1>8, <1>10, <2>1
    <3>3. n \in Linked(On(r, j)) => n \in stack'[m].due
      BY <1>8, <1>10, <2>1
    <3>4. n \in Linked(On(r, j)) => KeyNews(m, r, j, n)'
      BY <3>1, <3>2, <3>3 DEF KeyNews, On
    <3>5. AllNews(m, r, j, n)'  BY <3>1, <3>2 DEF AllNews, On
    <3>6. QED  BY <1>10, <1>13, <3>4, <3>5
  <2>2. CASE ~(r = s /\ j = k)
    <3>1. Knowing(r, j, n) => Knowing(r, j, n)'
      BY <1>2, <1>14, <2>2 DEF Knowing
    <3>2. \A i \in 1 .. Len(stack) :
            /\ KeyNews(i, r, j, n) => KeyNews(i, r, j, n)'
            /\ AllNews(i, r, j, n) => AllNews(i, r, j, n)'
      BY <1>10, <1>11 DEF KeyNews, AllNews, Of
    <3>3. QED  BY <1>1, <1>10, <1>13, <1>17, <3>1, <3>2 DEF NewsIsDue
  <2>3. QED  BY <2>1, <2>2
<1>18. QED  BY <1>15, <1>16, <1>17, NewsNext

\* Outside the writes, what is stored and which events are published do not
\* change.
LEMMA NewsSameWrites ==
  ASSUME News, UNCHANGED <<value, writes>>, Len(stack') = Len(stack),
         \A i \in 1 .. Len(stack) : stack'[i].event = stack[i].event,
         \A s \in Stream, k \in Key, n \in Node :
           HasKey(s, k) =>
             /\ n \in Linked(On(s, k))' =>
                  \/ Knowing(s, k, n)'
                  \/ \E i \in 1 .. Len(stack) : KeyNews(i, s, k, n)'
             /\ n \in Linked(AllOf(s))' =>
                  \/ Knowing(s, k, n)'
                  \/ \E i \in 1 .. Len(stack) : AllNews(i, s, k, n)'
  PROVE  News'
<1>1. WritesAreCurrent  BY DEF News
<1>2. \A i \in 1 .. Len(stack') :
        /\ stack'[i].event \in {On(writes'[i].stream, writes'[i].key),
                                AllOf(writes'[i].stream)}
        /\ HasKey(writes'[i].stream, writes'[i].key)
        /\ value'[writes'[i].stream][writes'[i].key] = writes'[i].data
  BY <1>1, Zenon DEF WritesAreCurrent
<1>3. QED  BY <1>2, NewsNext

\* What changes is due or linked or known for n only, and n knows what is stored
\* under every key it is subscribed to.
LEMMA NewsOfOne ==
  ASSUME News, UNCHANGED <<value, writes>>, Len(stack') = Len(stack),
         \A i \in 1 .. Len(stack) : /\ stack'[i].event = stack[i].event
                                    /\ stack[i].due \subseteq stack'[i].due,
         NEW n \in Node,
         \A m \in Node \ {n} :
           heard'[m] = heard[m] /\ \A l \in List : m \in Linked(l)' => m \in Linked(l),
         \A s \in Stream, k \in Key :
           /\ HasKey(s, k)
           /\ n \in Linked(On(s, k))' \/ n \in Linked(AllOf(s))'
           => Knowing(s, k, n)'
  PROVE  News'
<1>1. ASSUME NEW s \in Stream, NEW k \in Key, HasKey(s, k), NEW m \in Node
      PROVE  /\ m \in Linked(On(s, k))' =>
                  \/ Knowing(s, k, m)'
                  \/ \E i \in 1 .. Len(stack) : KeyNews(i, s, k, m)'
             /\ m \in Linked(AllOf(s))' =>
                  \/ Knowing(s, k, m)'
                  \/ \E i \in 1 .. Len(stack) : AllNews(i, s, k, m)'
  <2>1. CASE m = n  BY <1>1, <2>1
  <2>2. CASE m # n
    <3>1. On(s, k) \in List /\ AllOf(s) \in List  BY <1>1, StreamFacts
    <3>2. /\ m \in Linked(On(s, k))' => m \in Linked(On(s, k))
          /\ m \in Linked(AllOf(s))' => m \in Linked(AllOf(s))
      BY <2>2, <3>1
    <3>3. Knowing(s, k, m) => Knowing(s, k, m)'  BY <2>2 DEF Knowing
    <3>4. \A i \in 1 .. Len(stack) :
            /\ KeyNews(i, s, k, m) => KeyNews(i, s, k, m)'
            /\ AllNews(i, s, k, m) => AllNews(i, s, k, m)'
      BY DEF KeyNews, AllNews, Of
    <3>5. QED  BY <1>1, <3>2, <3>3, <3>4 DEF News, NewsIsDue
  <2>3. QED  BY <2>1, <2>2
<1>2. QED  BY <1>1, NewsSameWrites

\* Who is taken from some lists is due in their events no more, and in the others
\* as before.
LEMMA NewsTakenFrom ==
  ASSUME News, UNCHANGED <<value, writes>>, Len(stack') = Len(stack),
         NEW events, NEW n \in Node,
         \A i \in 1 .. Len(stack) :
           /\ stack'[i].event = stack[i].event
           /\ stack'[i].due = IF stack[i].event \in events
                              THEN stack[i].due \ {n} ELSE stack[i].due,
         \A l \in List : /\ Linked(l)' \subseteq Linked(l)
                         /\ l \in events => n \notin Linked(l)',
         \A m \in Node, s \in Stream :
           \/ heard'[m][s] = heard[m][s]
           \/ m = n /\ EventsOf(s) \subseteq events
  PROVE  News'
<1>1. WritesAreCurrent /\ NewsIsDue  BY DEF News
<1>2. ASSUME NEW s \in Stream, NEW k \in Key, HasKey(s, k), NEW m \in Node
      PROVE  /\ m \in Linked(On(s, k))' =>
                  \/ Knowing(s, k, m)'
                  \/ \E i \in 1 .. Len(stack) : KeyNews(i, s, k, m)'
             /\ m \in Linked(AllOf(s))' =>
                  \/ Knowing(s, k, m)'
                  \/ \E i \in 1 .. Len(stack) : AllNews(i, s, k, m)'
  <2>1. /\ On(s, k) \in List /\ AllOf(s) \in List
        /\ On(s, k) \in EventsOf(s) /\ AllOf(s) \in EventsOf(s)
    BY <1>2, StreamFacts
  <2>2. /\ m \in Linked(On(s, k))' => m \in Linked(On(s, k))
        /\ m \in Linked(AllOf(s))' => m \in Linked(AllOf(s))
    BY <2>1
  <2>3. ASSUME Knowing(s, k, m),
               m \in Linked(On(s, k))' \/ m \in Linked(AllOf(s))'
        PROVE  Knowing(s, k, m)'
    <3>1. ~(m = n /\ EventsOf(s) \subseteq events)  BY <2>1, <2>3
    <3>2. heard'[m][s] = heard[m][s]  BY <3>1
    <3>3. QED  BY <2>3, <3>2 DEF Knowing
  <2>4. ASSUME m \in Linked(On(s, k))', NEW i \in 1 .. Len(stack),
               KeyNews(i, s, k, m)
        PROVE  KeyNews(i, s, k, m)'
    <3>1. ~(m = n /\ On(s, k) \in events)  BY <2>1, <2>4
    <3>2. stack[i].event = On(s, k) /\ m \in stack[i].due  BY <2>4 DEF KeyNews
    <3>3. m \in stack'[i].due  BY <3>1, <3>2
    <3>4. QED  BY <2>4, <3>3 DEF KeyNews, Of
  <2>5. ASSUME m \in Linked(AllOf(s))', NEW i \in 1 .. Len(stack),
               AllNews(i, s, k, m)
        PROVE  AllNews(i, s, k, m)'
    <3>1. ~(m = n /\ AllOf(s) \in events)  BY <2>1, <2>5
    <3>2. stack[i].event \in {On(s, k), AllOf(s)}
      BY <1>1, <2>5 DEF WritesAreCurrent, AllNews, Of
    <3>3. CASE stack[i].event = On(s, k)  BY <2>5, <3>3 DEF AllNews, Of
    <3>4. CASE stack[i].event = AllOf(s) /\ m \in stack[i].due
      <4>1. m \in stack'[i].due  BY <3>1, <3>4
      <4>2. QED  BY <2>5, <4>1 DEF AllNews, Of
    <3>5. QED  BY <2>5, <3>2, <3>3, <3>4 DEF AllNews
  <2>6. QED  BY <1>1, <1>2, <2>2, <2>3, <2>4, <2>5 DEF NewsIsDue
<1>3. QED  BY <1>2, NewsSameWrites

-----------------------------------------------------------------------------
\* What is known is what is stored, of the keys the event is about.
KnownAsStored(s, event, known) ==
  \A k \in Key : HasKey(s, k) /\ event \in {On(s, k), AllOf(s)} =>
                   known[k] = value[s][k]

\* Whoever subscribes knows what is stored.
LEMMA NewsSubscribed ==
  ASSUME OwnConfigs, NewsInv, NEW s \in Stream, NEW event \in EventsOf(s),
         NEW n \in Node, Subscribed(event, n), NEW known \in [Key -> Value],
         heard' = [heard EXCEPT ![n][s] = known], UNCHANGED <<value, writes>>,
         KnownAsStored(s, event, known)
  PROVE  News'
<1>1. RamTypeInv /\ RamTypeOK /\ ListsInv /\ News  BY NewsFacts
<1>2. event \in List  BY StreamFacts
<1>3. Push(event, n) /\ stack' = DueWith(event, n)  BY DEF Subscribed
<1>4. /\ Len(stack') = Len(stack)
      /\ \A i \in 1 .. Len(stack) : /\ stack'[i].event = stack[i].event
                                    /\ stack[i].due \subseteq stack'[i].due
  BY <1>1, <1>2, <1>3, RamPieces, SubscribedStack
<1>5. \A l \in List : /\ Linked(l)' \subseteq Linked(l) \cup {n}
                      /\ l # event => Linked(l)' \subseteq Linked(l)
                      /\ n \notin Linked(l)
  BY <1>1, <1>2, <1>3, PushKeeps DEF Push, Unlinked
<1>6. \A m \in Node : /\ m # n => heard'[m] = heard[m]
                      /\ m = n => heard'[m][s] = known
  BY <1>1, RamPieces
<1>7. ASSUME NEW r \in Stream, NEW k \in Key, HasKey(r, k),
             n \in Linked(On(r, k))' \/ n \in Linked(AllOf(r))'
      PROVE  Knowing(r, k, n)'
  <2>1. /\ On(r, k) \in List /\ AllOf(r) \in List
        /\ On(r, k) \in EventsOf(r) /\ AllOf(r) \in EventsOf(r)
    BY <1>7, StreamFacts
  <2>2. event \in {On(r, k), AllOf(r)}  BY <1>5, <1>7, <2>1
  <2>3. r = s  BY <2>1, <2>2, EventsApart
  <2>4. known[k] = value[s][k]  BY <1>7, <2>2, <2>3 DEF KnownAsStored
  <2>5. QED  BY <1>6, <2>3, <2>4 DEF Knowing
<1>8. QED  BY <1>1, <1>4, <1>5, <1>6, <1>7, NewsOfOne

\* And so does the list of the event: a step of a ram datastream leaves the walks
\* in order.
LEMMA WalksSubscribed ==
  ASSUME NewsInv, Outside \/ InCallback, NEW event \in List, NEW n \in Node,
         Subscribed(event, n)
  PROVE  Walks'
<1>1. Push(event, n) /\ stack' = DueWith(event, n)  BY DEF Subscribed
<1>2. Contents' = [Contents EXCEPT ![event] = Append(Contents[event], n)]
  BY <1>1, NewsFacts, PushStep
<1>3. QED  BY <1>1, <1>2, NewsFacts, WalkSubscribed

\* Who unsubscribes from a datastream is on none of its lists.
LEMMA NewsUnsubscribed ==
  ASSUME NoneUnderItself, NewsInv, NEW s \in Stream, NEW n \in Node,
         UnsubscribeFrom(s, n)
  PROVE  Walks' /\ News'
<1>1. RamTypeInv /\ RamTypeOK /\ ListsInv /\ WalkInv /\ News  BY NewsFacts
<1>2. /\ DeletedWherever(EventsOf(s), n) /\ stack' = DueWithout(EventsOf(s), n)
      /\ heard' = [heard EXCEPT ![n][s] = Zeroes] /\ UNCHANGED <<value, writes>>
      /\ MayUnsubscribe(n)
  BY DEF UnsubscribeFrom, UnsubscribedFrom, EventsSearched
<1>3. EventsOf(s) \in SUBSET List  BY StreamFacts
<1>4. TakenFrom(EventsOf(s), n)
  <2>1. CASE \E l \in EventsOf(s) : n \in Linked(l) /\ Delete(l, n)
    <3>1. PICK l \in EventsOf(s) : n \in Linked(l) /\ Delete(l, n)  BY <2>1
    <3>2. ListsDisjoint  BY <1>1, InvProperties
    <3>3. \A m \in EventsOf(s) \ {l} : n \notin Linked(m)
      BY <1>3, <3>1, <3>2 DEF ListsDisjoint
    <3>4. \A m \in EventsOf(s) \ {l} : n \notin Range(Contents[m])
      BY <1>1, <1>3, <3>3, ContentsFacts
    <3>5. QED  BY <1>1, <1>3, <3>1, <3>4, DeleteTakes
  <2>2. CASE (\A l \in EventsOf(s) : n \notin Linked(l)) /\ UNCHANGED listVars
    <3>1. Contents' = Contents  BY <2>2, SameContents
    <3>2. \A l \in EventsOf(s) : n \notin Range(Contents[l])
      BY <1>1, <1>3, <2>2, ContentsFacts
    <3>3. QED  BY <3>1, <3>2 DEF TakenFrom
  <2>3. QED  BY <1>2, <2>1, <2>2 DEF DeletedWherever
<1>5. Walks'
  <2>1. Outside \/ (InCallback /\ n \notin InFlight)
    BY <1>2 DEF MayUnsubscribe, Callback, NoneUnderItself
  <2>2. QED  BY <1>1, <1>2, <1>3, <1>4, <2>1, WalkUnsubscribed
<1>6. News'
  <2>1. /\ Len(stack') = Len(stack)
        /\ \A i \in 1 .. Len(stack) :
             /\ stack'[i].event = stack[i].event
             /\ stack'[i].due = IF stack[i].event \in EventsOf(s)
                                THEN stack[i].due \ {n} ELSE stack[i].due
    BY <1>1, <1>2, RamPieces, UnsubscribedStack
  <2>2. \A l \in List : /\ Linked(l)' \subseteq Linked(l)
                        /\ l \in EventsOf(s) => n \notin Linked(l)'
    BY <1>1, <1>2, <1>3, LinkedAfterUnsubscribing
  <2>3. \A m \in Node, r \in Stream :
          \/ heard'[m][r] = heard[m][r]
          \/ m = n /\ EventsOf(r) \subseteq EventsOf(s)
    BY <1>1, <1>2, RamPieces
  <2>4. QED  BY <1>1, <1>2, <2>1, <2>2, <2>3, NewsTakenFrom
<1>7. QED  BY <1>5, <1>6

\* Nobody is subscribed to a datastream that was just initialised.
LEMMA NewsReinit ==
  ASSUME OwnConfigs, NewsInv, NEW s \in Stream, RamReinit(s)
  PROVE  Walks' /\ News'
<1>1. RamTypeOK /\ ListsInv /\ NewsIsDue  BY NewsFacts DEF News
<1>2. /\ Outside /\ UNCHANGED <<next, stack, writes>> /\ Len(stack) = 0
      /\ head' = [l \in List |-> IF l \in EventsOf(s) THEN NULL ELSE head[l]]
      /\ value' = [value EXCEPT ![s] = Cleared(s, @)]
      /\ heard' = [n \in Node |-> [heard[n] EXCEPT ![s] = Zeroes]]
  BY DEF RamReinit, Outside
<1>3. Walks'  BY <1>2, WalkOutside
<1>4. EventsOf(s) \in SUBSET List  BY StreamFacts
<1>5. /\ ListsInv'
      /\ \A l \in List : Contents'[l] = IF l \in EventsOf(s) THEN <<>> ELSE Contents[l]
  BY <1>1, <1>2, <1>4, EventsEmptied
<1>6. \A l \in List : Linked(l)' = IF l \in EventsOf(s) THEN {} ELSE Linked(l)
  BY <1>1, <1>5, EmptyList, LinkedNext, ContentsFacts
<1>7. ASSUME NEW r \in Stream, NEW k \in Key, HasKey(r, k), NEW m \in Node,
             m \in Linked(On(r, k))' \/ m \in Linked(AllOf(r))'
      PROVE  Knowing(r, k, m)'
  <2>1. /\ On(r, k) \in List /\ AllOf(r) \in List
        /\ On(r, k) \in EventsOf(r) /\ AllOf(r) \in EventsOf(r)
    BY <1>7, StreamFacts
  <2>2. r # s  BY <1>6, <1>7, <2>1
  <2>3. m \in Linked(On(r, k)) \/ m \in Linked(AllOf(r))
    BY <1>6, <1>7, <2>1
  <2>4. Knowing(r, k, m)  BY <1>1, <1>2, <1>7, <2>3 DEF NewsIsDue
  <2>5. heard'[m][r] = heard[m][r] /\ value'[r] = value[r]
    BY <1>1, <1>2, <2>2, RamPieces
  <2>6. QED  BY <2>4, <2>5 DEF Knowing
<1>8. 1 .. Len(stack') = {}  BY <1>2
<1>9. News'  BY <1>7, <1>8, NewsNext
<1>10. QED  BY <1>3, <1>9

LEMMA NewsStart == RamInit => RamTypeInv /\ Chained /\ Walks /\ News
<1>1. SUFFICES ASSUME RamInit PROVE RamTypeInv /\ Chained /\ Walks /\ News
  OBVIOUS
<1>2. EventInit /\ RamTypeInv /\ PublishInv
  BY <1>1, RamStart, PublishStart DEF RamInit
<1>3. \A l \in List : Linked(l) = {}
  <2>1. ListsInv /\ Contents = [l \in List |-> <<>>]
    BY <1>2, ListsStart DEF EventInit
  <2>2. Range(<<>>) = {}  BY DEF Range
  <2>3. QED  BY <2>1, <2>2, ContentsFacts
<1>4. 1 .. Len(stack) = {}  BY <1>2 DEF EventInit
<1>5. WritesAreCurrent  BY <1>4 DEF WritesAreCurrent
<1>6. NewsIsDue  BY <1>3, StreamFacts DEF NewsIsDue
<1>7. Chained /\ Walks  BY <1>2, PublishWalks DEF WalkInv
<1>8. QED  BY <1>2, <1>5, <1>6, <1>7 DEF News

LEMMA NewsStep ==
  ASSUME OwnConfigs, NoneUnderItself, ~RewriteInFlight,
         NewsInv, [RamNext]_ramVars
  PROVE  NewsInv'
<1>1. RamTypeInv /\ RamTypeOK /\ WalkInv /\ News  BY NewsFacts
<1>2. SUFFICES Walks' /\ News'  BY <1>1, RamStep DEF NewsInv
<1>3. CASE Tell  BY <1>1, <1>3, NewsTell, WalkCall DEF Tell
<1>4. CASE CallbackReturns
  BY <1>1, <1>4, NewsCallbackReturns, WalkReturn DEF CallbackReturns
<1>5. CASE WriteGoesOn  BY <1>1, <1>5, NewsWriteGoesOn, WalkWriteGoesOn
<1>6. CASE WriteReturns
  BY <1>1, <1>6, NewsWriteReturns, WalkPopped DEF WriteReturns
<1>7. ASSUME NEW s \in Stream, RamReinit(s)  PROVE Walks' /\ News'
  BY <1>7, NewsReinit
<1>8. ASSUME NEW s \in Stream, NEW k \in Key, NEW data \in Value,
             Write(s, k, data)
      PROVE  Walks' /\ News'
  <2>1. On(s, k) \in List /\ Publish(On(s, k))  BY <1>8, StreamFacts DEF Write
  <2>2. QED  BY <1>1, <1>8, <2>1, NewsWrite, WalkPublish
<1>9. ASSUME NEW s \in Stream, NEW n \in Node, NEW k \in Key,
             SubscribeKey(s, k, n)
      PROVE  Walks' /\ News'
  <2>1. /\ KeySubscribed(s, k, n) /\ HasKey(s, k) /\ Subscribed(On(s, k), n)
        /\ Outside \/ InCallback
    BY <1>9 DEF SubscribeKey, KeySubscribed, MaySubscribe, Callback
  <2>2. On(s, k) \in EventsOf(s) /\ On(s, k) \in List  BY <2>1, StreamFacts
  <2>3. PICK known \in [Key -> Value] : known = Knows(s, {k})
    BY <1>1, KnowsType
  <2>4. /\ heard' = [heard EXCEPT ![n][s] = known] /\ UNCHANGED <<value, writes>>
        /\ known[k] = value[s][k]
    BY <2>1, <2>3 DEF KeySubscribed, Knows
  <2>5. \A j \in Key : On(s, k) \in {On(s, j), AllOf(s)} => j = k
    BY EventsApart
  <2>6. KnownAsStored(s, On(s, k), known)  BY <2>4, <2>5 DEF KnownAsStored
  <2>7. QED  BY <2>1, <2>2, <2>4, <2>6, NewsSubscribed, WalksSubscribed
<1>10. ASSUME NEW s \in Stream, NEW n \in Node, SubscribeAll(s, n)
       PROVE  Walks' /\ News'
  <2>1. Subscribed(AllOf(s), n) /\ (Outside \/ InCallback)
    BY <1>10 DEF SubscribeAll, Subscribe, MaySubscribe, Callback
  <2>2. AllOf(s) \in EventsOf(s) /\ AllOf(s) \in List  BY StreamFacts
  <2>3. PICK known \in [Key -> Value] : known = Knows(s, KeysOf(s))
    BY <1>1, KnowsType
  <2>4. /\ heard' = [heard EXCEPT ![n][s] = known] /\ UNCHANGED <<value, writes>>
        /\ \A j \in Key : HasKey(s, j) => known[j] = value[s][j]
    BY <1>10, <2>3 DEF SubscribeAll, Knows, KeysOf
  <2>5. KnownAsStored(s, AllOf(s), known)  BY <2>4 DEF KnownAsStored
  <2>6. QED  BY <2>1, <2>2, <2>4, <2>5, NewsSubscribed, WalksSubscribed
<1>11. ASSUME NEW s \in Stream, NEW n \in Node, UnsubscribeFrom(s, n)
       PROVE  Walks' /\ News'
  BY <1>11, NewsUnsubscribed
<1>12. CASE UNCHANGED ramVars
  <2>1. Contents' = Contents /\ UNCHANGED <<listVars, stack, value, writes, heard>>
    BY <1>12, SameContents DEF ramVars, eventVars
  <2>2. \A l : Linked(l)' = Linked(l)  BY <2>1, SameLinks
  <2>3. Walks'  BY <1>1, <2>1, Zenon DEF WalkInv, Walks
  <2>4. News'
    BY <1>1, <2>1, <2>2, NewsSameWrites
    DEF News, NewsIsDue, Knowing, KeyNews, AllNews, Of
  <2>5. QED  BY <2>3, <2>4
<1>13. QED
  BY <1>3, <1>4, <1>5, <1>6, <1>7, <1>8, <1>9, <1>10, <1>11, <1>12
  DEF RamNext, WriteWithoutEffect

LEMMA NewsIsCurrent == News => HeardIsCurrent
<1>1. SUFFICES ASSUME News, Outside,
                      NEW s \in Stream, NEW k \in Key, NEW n \in Node,
                      HasKey(s, k), Interested(n, s, k)
               PROVE  Knowing(s, k, n)
  BY DEF HeardIsCurrent, Knowing
<1>2. 1 .. Len(stack) = {}  BY <1>1 DEF Outside
<1>3. QED  BY <1>1, <1>2 DEF News, NewsIsDue, Interested

\* When no write is under way every subscription knows the stored value of its
\* key, for any number of datastreams, keys and nested writes: provided no
\* callback writes a key that is being written or unsubscribes a subscription
\* that is being called, and no two datastreams have one configuration.
THEOREM SubscribersKnow ==
  ASSUME OwnConfigs, NoneUnderItself, ~RewriteInFlight
  PROVE  RamSpec => []HeardIsCurrent
<1>1. NewsInv => HeardIsCurrent  BY NewsIsCurrent DEF NewsInv
<1>2. NewsInv /\ [RamNext]_ramVars => NewsInv'  BY NewsStep
<1>3. RamInit => NewsInv  BY NewsStart DEF NewsInv
<1>4. QED  BY <1>1, <1>2, <1>3, PTL DEF RamSpec

-----------------------------------------------------------------------------
(***************************************************************************)
(* Datastreams are watched stores, also when callbacks write keys that are *)
(* being written.  Every step but two of a datastream is one of its events *)
(* or changes none of them, so what the proofs about events say of the     *)
(* sequences of subscribers and of the publishes under way holds here, and *)
(* what is left is how a write is made of its two publishes.               *)
(***************************************************************************)
Aimed ==
  \A i \in 1 .. Len(stack) :
    LET w == writes[i]
    IN  /\ stack[i].event \in {On(w.stream, w.key), AllOf(w.stream)}
        /\ HasKey(w.stream, w.key)

WatchInv == RamTypeInv /\ Walks /\ Aimed

LEMMA WatchFacts ==
  ASSUME WatchInv
  PROVE  /\ RamTypeInv /\ RamTypeOK /\ EventTypeInv /\ ListsInv
         /\ PublishInv /\ WalkInv /\ Aimed
<1>1. RamTypeInv /\ RamTypeOK /\ EventTypeInv /\ ListsInv /\ Walks /\ Aimed
  BY DEF WatchInv, RamTypeInv, EventTypeInv
<1>2. PublishInv  BY <1>1 DEF PublishInv
<1>3. QED  BY <1>1, <1>2, PublishWalks

\* What is due in a publish is subscribed to its event.
LEMMA DueIsSubscribed ==
  ASSUME PublishInv, NEW i \in 1 .. Len(stack)
  PROVE  stack[i].due \subseteq Linked(stack[i].event)
<1>1. PICK f, s : f = stack[i] /\ s = Contents[stack[i].event]  OBVIOUS
<1>2. /\ f.event \in List /\ OnTheWay(f, s) /\ s \in Seq(Node)
      /\ Linked(f.event) = Range(s) /\ f.calling \in BOOLEAN
  BY <1>1, PublishWalks, PublishFacts, ContentsFacts DEF PublishInv, EventTypeInv
<1>3. CASE f.e = NULL  BY <1>1, <1>2, <1>3 DEF OnTheWay
<1>4. CASE f.e # NULL
  <2>1. PICK p \in 1 .. Len(s) : f.due = From(s, IF f.calling THEN p+1 ELSE p)
    BY <1>2, <1>4 DEF OnTheWay
  <2>2. PICK q \in 1 .. Len(s) + 1 : f.due = From(s, q)
    BY <1>2, <2>1
  <2>3. From(s, q) \subseteq Range(s)
    <3>1. DOMAIN s = 1 .. Len(s)  BY <1>2
    <3>2. \A j \in q .. Len(s) : j \in 1 .. Len(s)  BY <1>2
    <3>3. QED  BY <3>1, <3>2 DEF From, Range
  <2>4. QED  BY <1>1, <1>2, <2>2, <2>3
<1>5. QED  BY <1>3, <1>4

\* The one list the subscription is deleted from, if any, is all that changes.
LEMMA UnsubscribesOnce ==
  ASSUME PublishInv, NEW s \in Stream, NEW n \in Node, UnsubscribeFrom(s, n)
  PROVE  \/ \E l \in EventsOf(s) :
              /\ Unsubscribe(l, n)
              /\ \A m \in EventsOf(s) \ {l} : n \notin Linked(m)
         \/ /\ UNCHANGED eventVars
            /\ \A m \in EventsOf(s) : n \notin Linked(m)
<1>1. /\ DeletedWherever(EventsOf(s), n) /\ stack' = DueWithout(EventsOf(s), n)
      /\ MayUnsubscribe(n)
  BY DEF UnsubscribeFrom, UnsubscribedFrom, EventsSearched
<1>2. EventsOf(s) \subseteq List /\ ListsInv
  BY StreamFacts DEF PublishInv, EventTypeInv
<1>3. stack \in Seq(Frame) /\ DOMAIN stack = 1 .. Len(stack)
  BY Typed, StackFacts DEF PublishInv
<1>4. ASSUME NEW i \in 1 .. Len(stack), n \notin Linked(stack[i].event)
      PROVE  stack[i].due \ {n} = stack[i].due
  BY <1>4, DueIsSubscribed
<1>5. CASE \E l \in EventsOf(s) : n \in Linked(l) /\ Delete(l, n)
  <2>1. PICK l \in EventsOf(s) : n \in Linked(l) /\ Delete(l, n)  BY <1>5
  <2>2. ListsDisjoint  BY <1>2, InvProperties
  <2>3. \A m \in EventsOf(s) \ {l} : n \notin Linked(m)
    BY <1>2, <2>1, <2>2 DEF ListsDisjoint
  <2>4. \A i \in 1 .. Len(stack) :
          (IF stack[i].event \in EventsOf(s) THEN stack[i].due \ {n} ELSE stack[i].due)
            = IF stack[i].event \in {l} THEN stack[i].due \ {n} ELSE stack[i].due
    BY <1>4, <2>1, <2>3
  <2>5. DueWithout(EventsOf(s), n) = DueWithout({l}, n)
    BY <1>3, <2>4, Zenon DEF DueWithout
  <2>6. Unsubscribe(l, n)  BY <1>1, <2>1, <2>5 DEF Unsubscribe
  <2>7. QED  BY <2>3, <2>6
<1>6. CASE (\A l \in EventsOf(s) : n \notin Linked(l)) /\ UNCHANGED listVars
  <2>1. \A i \in 1 .. Len(stack) :
          (IF stack[i].event \in EventsOf(s) THEN stack[i].due \ {n} ELSE stack[i].due)
            = stack[i].due
    BY <1>4, <1>6
  <2>2. \A f \in Frame : Owing(f.due, f) = f  BY DEF Frame, Owing, Publishing
  <2>3. \A i \in 1 .. Len(stack) : stack[i] \in Frame  BY <1>3
  <2>4. DueWithout(EventsOf(s), n) = [i \in 1 .. Len(stack) |-> stack[i]]
    BY <1>3, <2>1, <2>2, <2>3, Zenon DEF DueWithout
  <2>5. stack = [i \in 1 .. Len(stack) |-> stack[i]]  BY <1>3
  <2>6. UNCHANGED eventVars  BY <1>1, <1>6, <2>4, <2>5 DEF eventVars
  <2>7. QED  BY <1>6, <2>6
<1>7. QED  BY <1>1, <1>5, <1>6 DEF DeletedWherever

LEMMA WatchWalks ==
  ASSUME NoneUnderItself, WatchInv, [RamNext]_ramVars
  PROVE  Walks'
<1>1. PublishInv /\ WalkInv /\ RamTypeOK  BY WatchFacts
<1>2. [EventNext]_eventVars => Walks'  BY <1>1, PublishStep DEF PublishInv
<1>3. CASE Tell \/ CallbackReturns \/ WriteReturns
  BY <1>2, <1>3 DEF Tell, CallbackReturns, WriteReturns, EventNext, Walk
<1>4. CASE WriteGoesOn  BY <1>1, <1>4, WalkWriteGoesOn
<1>5. ASSUME NEW s \in Stream, RamReinit(s)  PROVE Walks'
  BY <1>5, WalkOutside DEF RamReinit
<1>6. ASSUME NEW s \in Stream, NEW k \in Key, NEW data \in Value,
             Write(s, k, data)
      PROVE  Walks'
  <2>1. On(s, k) \in List /\ Publish(On(s, k))  BY <1>6, StreamFacts DEF Write
  <2>2. QED  BY <1>2, <2>1 DEF EventNext
<1>7. ASSUME NEW s \in Stream, NEW n \in Node, NEW k \in Key,
             SubscribeKey(s, k, n)
      PROVE  Walks'
  <2>1. On(s, k) \in List /\ Subscribe(On(s, k), n)
    BY <1>7, StreamFacts DEF SubscribeKey, KeySubscribed, Subscribe
  <2>2. QED  BY <1>2, <2>1 DEF EventNext
<1>8. ASSUME NEW s \in Stream, NEW n \in Node, SubscribeAll(s, n)
      PROVE  Walks'
  BY <1>2, <1>8, StreamFacts DEF SubscribeAll, EventNext
<1>9. ASSUME NEW s \in Stream, NEW n \in Node, UnsubscribeFrom(s, n)
      PROVE  Walks'
  <2>1. EventsOf(s) \subseteq List  BY StreamFacts
  <2>2. QED  BY <1>1, <1>2, <1>9, <2>1, UnsubscribesOnce DEF EventNext
<1>10. CASE UNCHANGED ramVars  BY <1>2, <1>10 DEF ramVars
<1>11. CASE \E s \in Stream, k \in Key, data \in Value :
              WriteWithoutEffect(s, k, data)
  BY <1>2, <1>11 DEF WriteWithoutEffect, ramVars
<1>12. QED
  BY <1>3, <1>4, <1>5, <1>6, <1>7, <1>8, <1>9, <1>10, <1>11 DEF RamNext

\* The publishes under way stay those of their writes.
LEMMA AimedNext ==
  ASSUME \A i \in 1 .. Len(stack') :
           /\ stack'[i].event \in {On(writes'[i].stream, writes'[i].key),
                                   AllOf(writes'[i].stream)}
           /\ HasKey(writes'[i].stream, writes'[i].key)
  PROVE  Aimed'
BY Zenon DEF Aimed, HasKey, Count, Entry

LEMMA AimedSame ==
  ASSUME Aimed, writes' = writes, Len(stack') = Len(stack),
         \A i \in 1 .. Len(stack) : stack'[i].event = stack[i].event
  PROVE  Aimed'
<1>1. \A i \in 1 .. Len(stack') :
        /\ stack'[i].event \in {On(writes'[i].stream, writes'[i].key),
                                AllOf(writes'[i].stream)}
        /\ HasKey(writes'[i].stream, writes'[i].key)
  BY Zenon DEF Aimed
<1>2. QED  BY <1>1, AimedNext

LEMMA AimedTop ==
  ASSUME WatchInv, stack # <<>>, NEW f \in Frame,
         f.event \in {Top.event, AllOf(Writing.stream)},
         stack' = [stack EXCEPT ![Len(stack)] = f], writes' = writes
  PROVE  Aimed'
<1>1. RamTypeOK /\ EventTypeOK /\ Aimed  BY WatchFacts, RamPieces
<1>2. /\ Len(stack) \in 1 .. Len(stack) /\ Top = stack[Len(stack)]
      /\ Writing = writes[Len(stack)]
  BY <1>1, WritingFacts
<1>3. /\ Len(stack') = Len(stack) /\ stack'[Len(stack)] = f
      /\ \A i \in 1 .. Len(stack) - 1 : stack'[i] = stack[i]
  BY <1>1, ReplaceTop
<1>4. \A i \in 1 .. Len(stack) :
        i = Len(stack) \/ (i # Len(stack) /\ i \in 1 .. Len(stack) - 1)
  BY <1>2
<1>5. ASSUME NEW i \in 1 .. Len(stack)
      PROVE  /\ stack'[i].event \in {On(writes[i].stream, writes[i].key),
                                     AllOf(writes[i].stream)}
             /\ HasKey(writes[i].stream, writes[i].key)
  <2>1. /\ stack[i].event \in {On(writes[i].stream, writes[i].key),
                               AllOf(writes[i].stream)}
        /\ HasKey(writes[i].stream, writes[i].key)
    BY <1>1, <1>5 DEF Aimed
  <2>2. CASE i = Len(stack)  BY <1>2, <1>3, <2>1, <2>2
  <2>3. CASE i # Len(stack)
    <3>1. stack'[i] = stack[i]  BY <1>3, <1>4, <2>3, Zenon
    <3>2. QED  BY <2>1, <3>1, Zenon
  <2>4. QED  BY <2>2, <2>3
<1>6. QED  BY <1>3, <1>5, AimedNext

LEMMA AimedStep ==
  ASSUME WatchInv, [RamNext]_ramVars
  PROVE  Aimed'
<1>1. RamTypeOK /\ EventTypeOK /\ Aimed /\ PublishInv /\ stack \in Seq(Frame)
  BY WatchFacts, RamPieces
<1>2. CASE Tell
  <2>1. stack # <<>> /\ Call /\ writes' = writes  BY <1>2 DEF Tell, Call, Walking
  <2>2. PICK f \in Frame :
          /\ f = Publishing(Top.event, Top.e, TRUE, Top.due \ {Top.e})
          /\ stack' = [stack EXCEPT ![Len(stack)] = f]
    BY <1>1, <2>1, CallStack
  <2>3. f.event = Top.event  BY <2>2 DEF Publishing
  <2>4. QED  BY <2>1, <2>2, <2>3, AimedTop
<1>3. CASE CallbackReturns
  <2>1. stack # <<>> /\ Return /\ writes' = writes
    BY <1>3 DEF CallbackReturns, Return, InCallback
  <2>2. PICK f \in Frame :
          /\ f = Publishing(Top.event, next[Top.e], FALSE, Top.due)
          /\ stack' = [stack EXCEPT ![Len(stack)] = f]
    BY <1>1, <2>1, ReturnStack
  <2>3. f.event = Top.event  BY <2>2 DEF Publishing
  <2>4. QED  BY <2>1, <2>2, <2>3, AimedTop
<1>4. CASE WriteGoesOn
  <2>1. stack # <<>> /\ writes' = writes  BY <1>4 DEF WriteGoesOn, Walking
  <2>2. AllOf(Writing.stream) \in List  BY <1>1, <2>1, WritingFacts, StreamFacts
  <2>3. PICK f \in Frame :
          f = Begun(AllOf(Writing.stream)) /\ f.event = AllOf(Writing.stream)
    BY <1>1, <2>2, BegunFrame DEF Publishing
  <2>4. stack' = [stack EXCEPT ![Len(stack)] = f]
    BY <1>4, <2>3 DEF WriteGoesOn, TopBecomes
  <2>5. QED  BY <2>1, <2>3, <2>4, AimedTop
<1>5. CASE WriteReturns
  <2>1. PICK m \in Nat : EndsAfter(m)  BY <1>1, <1>5, PopStacks
  <2>2. \A i \in 1 .. Len(stack') :
          /\ i \in 1 .. Len(stack)
          /\ stack'[i] = stack[i] /\ writes'[i] = writes[i]
    BY <2>1, Zenon DEF EndsAfter
  <2>3. QED  BY <1>1, <2>2, AimedNext, Zenon DEF Aimed
<1>6. ASSUME NEW s \in Stream, NEW k \in Key, NEW data \in Value,
             Write(s, k, data)
      PROVE  Aimed'
  <2>1. PICK m \in Nat, f \in Frame : BeginsAt(m, f, s, k, data)
    BY <1>1, <1>6, WriteStacks
  <2>2. HasKey(s, k)  BY <1>6 DEF Write
  <2>3. \A i \in 1 .. Len(stack') :
          \/ /\ stack'[i].event = On(s, k)
             /\ writes'[i].stream = s /\ writes'[i].key = k
          \/ /\ i \in 1 .. Len(stack)
             /\ stack'[i] = stack[i] /\ writes'[i] = writes[i]
    BY <2>1, Zenon DEF BeginsAt
  <2>4. ASSUME NEW i \in 1 .. Len(stack')
        PROVE  /\ stack'[i].event \in {On(writes'[i].stream, writes'[i].key),
                                       AllOf(writes'[i].stream)}
               /\ HasKey(writes'[i].stream, writes'[i].key)
    <3>1. CASE /\ stack'[i].event = On(s, k)
               /\ writes'[i].stream = s /\ writes'[i].key = k
      BY <2>2, <3>1
    <3>2. CASE /\ i \in 1 .. Len(stack)
               /\ stack'[i] = stack[i] /\ writes'[i] = writes[i]
      BY <1>1, <3>2, Zenon DEF Aimed
    <3>3. QED  BY <2>3, <3>1, <3>2
  <2>5. QED  BY <2>4, AimedNext
<1>7. ASSUME NEW s \in Stream, NEW n \in Node, NEW event \in List,
             Subscribed(event, n), writes' = writes
      PROVE  Aimed'
  <2>1. stack' = DueWith(event, n)  BY <1>7 DEF Subscribed
  <2>2. QED  BY <1>1, <1>7, <2>1, SubscribedStack, AimedSame
<1>8. ASSUME NEW s \in Stream, NEW n \in Node, UnsubscribeFrom(s, n)
      PROVE  Aimed'
  <2>1. stack' = DueWithout(EventsOf(s), n) /\ writes' = writes
    BY <1>8 DEF UnsubscribeFrom, UnsubscribedFrom, EventsSearched
  <2>2. QED  BY <1>1, <2>1, UnsubscribedStack, AimedSame
<1>9. CASE stack' = stack /\ writes' = writes  BY <1>1, <1>9, AimedSame
<1>10. ASSUME NEW s \in Stream, NEW n \in Node, NEW k \in Key,
              SubscribeKey(s, k, n)
       PROVE  Aimed'
  BY <1>7, <1>10, StreamFacts DEF SubscribeKey, KeySubscribed
<1>11. ASSUME NEW s \in Stream, NEW n \in Node, SubscribeAll(s, n)
       PROVE  Aimed'
  BY <1>7, <1>11, StreamFacts DEF SubscribeAll, Subscribe
<1>12. QED
  BY <1>2, <1>3, <1>4, <1>5, <1>6, <1>8, <1>9, <1>10, <1>11
     DEF RamNext, RamReinit, WriteWithoutEffect, ramVars, eventVars

LEMMA WatchStart == RamInit => WatchInv
<1>1. SUFFICES ASSUME RamInit PROVE WatchInv  OBVIOUS
<1>2. RamTypeInv /\ Walks  BY <1>1, NewsStart
<1>3. 1 .. Len(stack) = {}  BY <1>1 DEF RamInit, EventInit
<1>4. QED  BY <1>2, <1>3 DEF WatchInv, Aimed

LEMMA WatchStep ==
  ASSUME NoneUnderItself, WatchInv, [RamNext]_ramVars
  PROVE  WatchInv'
BY WatchFacts, RamStep, WatchWalks, AimedStep DEF WatchInv

-----------------------------------------------------------------------------
\* A write made of what it writes, w, of the publish it is in, p, and of who is
\* subscribed.
Tells(w, p, subscribed) ==
  LET toAll == p.event = AllOf(w.stream)
  IN  [store |-> w.stream, key |-> w.key, data |-> w.data,
       calling |-> p.calling, all |-> toAll /\ p.calling # NULL,
       rest |-> IF toAll THEN <<>> ELSE p.rest,
       restAll |-> IF toAll THEN p.rest ELSE subscribed[AllOf(w.stream)]]

Mapped ==
  /\ WritesToTell = [i \in 1 .. Len(stack) |->
                       Tells(writes[i], Publishes[i], Subscribers)]
  /\ Len(WritesToTell) = Len(stack) /\ Len(stack) \in Nat
  /\ Publishes \in Seq(Told) /\ Len(Publishes) = Len(stack)
  /\ SubscribersOf
       = [s \in Stream |-> [k \in KeysOf(s) |-> Subscribers[On(s, k)]]]
  /\ SubscribersOfAll = [s \in Stream |-> Subscribers[AllOf(s)]]

LEMMA ListOfSubscribers ==
  ASSUME NEW l \in List
  PROVE  Subscribers[l] = Chain(head[l], next)
BY DEF Subscribers

LEMMA TellsWhat ==
  ASSUME WatchInv, NEW i \in 1 .. Len(stack)
  PROVE  StillToTell(writes[i], stack[i], head, next)
           = Tells(writes[i], Publishes[i], Subscribers)
<1>1. PublishInv /\ WalkInv /\ RamTypeOK  BY WatchFacts
<1>2. PICK w, f, p : w = writes[i] /\ f = stack[i] /\ p = Publishes[i]  OBVIOUS
<1>3. w.stream \in Stream
  <2>1. writes \in Seq(WriteCall) /\ Len(writes) = Len(stack)  BY <1>1, RamPieces
  <2>2. w \in WriteCall  BY <1>2, <2>1
  <2>3. QED  BY <2>2 DEF WriteCall
<1>4. f.calling \in BOOLEAN /\ (f.calling => f.e # NULL)
  BY <1>1, <1>2, PublishFacts
<1>5. /\ p.event = f.event /\ p.calling = IF f.calling THEN f.e ELSE NULL
      /\ p.rest = RestOf(f, next)
  BY <1>1, <1>2, PublishesFacts, TellingFacts
<1>6. f.calling = (p.calling # NULL)  BY <1>4, <1>5
<1>7. Subscribers[AllOf(w.stream)] = Chain(head[AllOf(w.stream)], next)
  BY <1>3, StreamFacts, ListOfSubscribers
<1>8. StillToTell(w, f, head, next) = Tells(w, p, Subscribers)
  BY <1>5, <1>6, <1>7 DEF StillToTell, Tells
<1>9. QED  BY <1>2, <1>8

LEMMA WatchIsMapped == WatchInv => Mapped
<1>1. SUFFICES ASSUME WatchInv PROVE Mapped  OBVIOUS
<1>2. /\ PublishInv /\ DOMAIN stack = 1 .. Len(stack) /\ Len(stack) \in Nat
      /\ Publishes \in Seq(Told) /\ Len(Publishes) = Len(stack)
  <2>1. PublishInv /\ stack \in Seq(Frame) /\ Len(stack) \in Nat
    BY <1>1, WatchFacts, RamPieces
  <2>2. QED  BY <2>1, PublishesFacts
<1>3. WritesToTell = [i \in 1 .. Len(stack) |->
                        Tells(writes[i], Publishes[i], Subscribers)]
  BY <1>1, <1>2, TellsWhat, Zenon DEF WritesToTell
<1>4. Len(WritesToTell) = Len(stack)
  <2>1. PICK m \in Nat : m = Len(stack)  BY <1>2
  <2>2. PICK f : f = [i \in 1 .. m |-> Tells(writes[i], Publishes[i], Subscribers)]
    OBVIOUS
  <2>3. Len(f) = m  BY <2>2
  <2>4. QED  BY <1>3, <2>1, <2>2, <2>3
<1>5. \A s \in Stream : /\ \A k \in KeysOf(s) : On(s, k) \in List
                        /\ AllOf(s) \in List
  BY StreamFacts DEF KeysOf
<1>6. SubscribersOf
        = [s \in Stream |-> [k \in KeysOf(s) |-> Subscribers[On(s, k)]]]
  BY <1>5, ListOfSubscribers, Zenon DEF SubscribersOf
<1>7. SubscribersOfAll = [s \in Stream |-> Subscribers[AllOf(s)]]
  BY <1>5, ListOfSubscribers, Zenon DEF SubscribersOfAll
<1>8. QED  BY <1>2, <1>3, <1>4, <1>6, <1>7 DEF Mapped

\* Where the abstract program is.
LEMMA WhereWritesAre ==
  ASSUME WatchInv, Mapped
  PROVE  /\ Stores!Outside <=> Outside
         /\ Outside \/ InCallback => Stores!Outside \/ Stores!InCallback
         /\ InCallback => Stores!InCallback
         /\ ~Outside => /\ Notifying!Top = Publishes[Len(stack)]
                        /\ Notifying!Top \in Told
                        /\ Stores!Top = Tells(Writing, Notifying!Top, Subscribers)
<1>1. PublishInv /\ RamTypeOK /\ stack \in Seq(Frame)  BY WatchFacts, RamPieces
<1>2. Stores!Outside <=> Outside
  <2>1. WritesToTell = <<>> <=> Len(stack) = 0
    <3>1. DOMAIN WritesToTell = 1 .. Len(stack) /\ Len(stack) \in Nat
      BY DEF Mapped
    <3>2. ASSUME Len(stack) = 0 PROVE WritesToTell = <<>>
      <4>1. WritesToTell = [i \in {} |-> Tells(writes[i], Publishes[i], Subscribers)]
        BY <3>2 DEF Mapped
      <4>2. QED  BY <4>1
    <3>3. ASSUME WritesToTell = <<>> PROVE Len(stack) = 0
      BY <3>3 DEF Mapped
    <3>4. QED  BY <3>2, <3>3
  <2>2. stack = <<>> <=> Len(stack) = 0  BY <1>1
  <2>3. QED  BY <2>1, <2>2 DEF Stores!Outside, Outside
<1>3. ASSUME ~Outside
      PROVE  /\ Notifying!Top = Publishes[Len(stack)] /\ Notifying!Top \in Told
             /\ Stores!Top = Tells(Writing, Notifying!Top, Subscribers)
  <2>1. /\ Len(stack) \in 1 .. Len(stack) /\ Writing = writes[Len(stack)]
    BY <1>1, <1>3, WritingFacts DEF Outside
  <2>2. Notifying!Top = Publishes[Len(stack)]  BY DEF Mapped, Notifying!Top
  <2>3. Notifying!Top \in Told  BY <2>1, <2>2 DEF Mapped
  <2>4. Stores!Top = WritesToTell[Len(stack)]  BY DEF Mapped, Stores!Top
  <2>5. WritesToTell[Len(stack)]
          = Tells(writes[Len(stack)], Publishes[Len(stack)], Subscribers)
    BY <2>1, Zenon DEF Mapped
  <2>6. QED  BY <2>1, <2>2, <2>3, <2>4, <2>5
<1>4. ASSUME InCallback PROVE Stores!InCallback
  <2>1. Notifying!InCallback /\ ~Outside
    BY <1>1, <1>4, WhereItIs DEF InCallback, Outside
  <2>2. Notifying!Top.calling # NULL  BY <2>1 DEF Notifying!InCallback
  <2>3. Stores!Top.calling # NULL  BY <1>3, <2>1, <2>2 DEF Tells
  <2>4. QED  BY <1>2, <2>1, <2>3 DEF Stores!InCallback
<1>5. QED  BY <1>2, <1>3, <1>4

\* When the innermost publish becomes p, so does the innermost write.
LEMMA TopTells ==
  ASSUME WatchInv, Mapped, Mapped', stack # <<>>, writes' = writes,
         Subscribers' = Subscribers, value' = value, NEW p,
         Publishes' = [Publishes EXCEPT ![Len(Publishes)] = p]
  PROVE  Stores!TopBecomes(Tells(Writing, p, Subscribers))
<1>1. RamTypeOK  BY WatchFacts
<1>2. /\ Len(stack) \in 1 .. Len(stack) /\ Writing = writes[Len(stack)]
  BY <1>1, WritingFacts
<1>3. PICK m : m = Len(stack)  OBVIOUS
<1>4. /\ m \in 1 .. m /\ Len(WritesToTell) = m /\ Len(Publishes) = m
      /\ Publishes \in Seq(Told)
      /\ WritesToTell = [i \in 1 .. m |-> Tells(writes[i], Publishes[i], Subscribers)]
  BY <1>2, <1>3 DEF Mapped
<1>5. Len(Publishes') = m /\ DOMAIN Publishes = 1 .. m
      /\ \A i \in 1 .. m : Publishes'[i] = IF i = m THEN p ELSE Publishes[i]
  <2>1. DOMAIN Publishes = 1 .. m /\ m \in Nat  BY <1>4
  <2>2. PICK q : q = Publishes'  OBVIOUS
  <2>3. q = [i \in 1 .. m |-> IF i = m THEN p ELSE Publishes[i]]
    <3>1. PICK u, n : u = Publishes /\ n = Len(Publishes)  OBVIOUS
    <3>2. q = [u EXCEPT ![n] = p]  BY <2>2, <3>1, Zenon
    <3>3. DOMAIN u = 1 .. m /\ n = m  BY <1>4, <2>1, <3>1
    <3>4. u \in [1 .. m -> Told]  BY <1>4, <3>1, <3>3
    <3>5. q = [i \in 1 .. m |-> IF i = m THEN p ELSE u[i]]  BY <3>2, <3>3, <3>4
    <3>6. QED  BY <3>1, <3>5
  <2>4. Len(q) = m /\ \A i \in 1 .. m : q[i] = IF i = m THEN p ELSE Publishes[i]
    BY <2>1, <2>3
  <2>5. QED  BY <2>1, <2>2, <2>4
<1>6. Len(stack') = m  BY <1>5, Zenon DEF Mapped
<1>7. WritesToTell' = [i \in 1 .. m |-> Tells(writes[i], Publishes'[i], Subscribers)]
  <2>1. WritesToTell' = [i \in 1 .. Len(stack') |->
                           Tells(writes'[i], Publishes'[i], Subscribers')]
    BY Zenon DEF Mapped
  <2>2. 1 .. Len(stack') = 1 .. m  BY <1>6
  <2>3. \A i \in 1 .. m : Tells(writes'[i], Publishes'[i], Subscribers')
                           = Tells(writes[i], Publishes'[i], Subscribers)
    OBVIOUS
  <2>4. QED  BY <2>1, <2>2, <2>3, Zenon
<1>8. [WritesToTell EXCEPT ![m] = Tells(Writing, p, Subscribers)]
        = [i \in 1 .. m |-> IF i = m THEN Tells(Writing, p, Subscribers)
                                     ELSE Tells(writes[i], Publishes[i], Subscribers)]
  BY <1>4
<1>9. \A i \in 1 .. m :
        Tells(writes[i], Publishes'[i], Subscribers)
          = IF i = m THEN Tells(Writing, p, Subscribers)
                     ELSE Tells(writes[i], Publishes[i], Subscribers)
  <2>1. SUFFICES ASSUME NEW i \in 1 .. m
                 PROVE  Tells(writes[i], Publishes'[i], Subscribers)
                          = IF i = m THEN Tells(Writing, p, Subscribers)
                            ELSE Tells(writes[i], Publishes[i], Subscribers)
    OBVIOUS
  <2>2. CASE i = m
    <3>1. Publishes'[i] = p /\ writes[i] = Writing  BY <1>2, <1>3, <1>5, <2>2
    <3>2. QED  BY <2>2, <3>1
  <2>3. CASE i # m
    <3>1. Publishes'[i] = Publishes[i]  BY <1>5, <2>3
    <3>2. QED  BY <2>3, <3>1
  <2>4. QED  BY <2>2, <2>3
<1>10. WritesToTell' = [WritesToTell EXCEPT ![Len(WritesToTell)]
                          = Tells(Writing, p, Subscribers)]
  BY <1>4, <1>7, <1>8, <1>9, Zenon
<1>11. SubscribersOf' = SubscribersOf /\ SubscribersOfAll' = SubscribersOfAll
  BY Zenon DEF Mapped
<1>12. QED  BY <1>10, <1>11 DEF Stores!TopBecomes

LEMMA WatchedTell ==
  ASSUME WatchInv, Mapped, Mapped', Tell
  PROVE  Stores!Call \/ Stores!CallForAll
<1>1. /\ Call /\ stack # <<>> /\ ~Outside /\ value' = value /\ writes' = writes
  BY DEF Tell, Call, Walking, Outside
<1>2. Notifying!Call  BY <1>1, WatchFacts, CallTold
<1>3. PICK p \in Told : p = Notifying!Top  BY <1>1, WhereWritesAre
<1>4. PICK q : q = Notifying!Telling(p.event, Head(p.rest), Tail(p.rest))  OBVIOUS
<1>5. /\ p.calling = NULL /\ p.rest # <<>> /\ Subscribers' = Subscribers
      /\ Publishes' = [Publishes EXCEPT ![Len(Publishes)] = q]
  BY <1>2, <1>3, <1>4 DEF Notifying!Call
<1>6. PICK t : t = Stores!Top /\ t = Tells(Writing, p, Subscribers)
  BY <1>1, <1>3, WhereWritesAre
<1>7. Stores!TopBecomes(Tells(Writing, q, Subscribers))
  BY <1>1, <1>5, TopTells
<1>8. /\ q.event = p.event /\ q.calling = Head(p.rest) /\ q.rest = Tail(p.rest)
      /\ q.calling # NULL
  <2>1. q.event = p.event /\ q.calling = Head(p.rest) /\ q.rest = Tail(p.rest)
    BY <1>4 DEF Notifying!Telling
  <2>2. p.rest \in Seq(Node)  BY DEF Told
  <2>3. Head(p.rest) \in Node  BY <1>5, <2>2
  <2>4. QED  BY <2>1, <2>3, NullAssumption
<1>9. ~Stores!Outside /\ t.calling = NULL
  BY <1>1, <1>5, <1>6, WhereWritesAre DEF Tells
<1>10. CASE p.event = AllOf(Writing.stream)
  <2>1. t.rest = <<>> /\ t.restAll = p.rest  BY <1>6, <1>10 DEF Tells
  <2>2. Tells(Writing, q, Subscribers)
          = Stores!Going(t, q.calling, q.calling # NULL, <<>>, q.rest)
    BY <1>6, <1>8, <1>10 DEF Tells, Stores!Going
  <2>3. Stores!Going(t, q.calling, q.calling # NULL, <<>>, q.rest)
          = Stores!Going(t, Head(t.restAll), TRUE, <<>>, Tail(t.restAll))
    BY <1>8, <2>1 DEF Stores!Going
  <2>4. Stores!TopBecomes(
          Stores!Going(t, Head(t.restAll), TRUE, <<>>, Tail(t.restAll)))
    BY <1>7, <2>2, <2>3, Zenon
  <2>5. Stores!CallForAll
    BY <1>5, <1>6, <1>9, <2>1, <2>4, Zenon DEF Stores!CallForAll
  <2>6. QED  BY <2>5
<1>11. CASE p.event # AllOf(Writing.stream)
  <2>1. t.rest = p.rest  BY <1>6, <1>11 DEF Tells
  <2>2. Tells(Writing, q, Subscribers)
          = Stores!Going(t, q.calling, FALSE, q.rest, t.restAll)
    <3>1. t.store = Writing.stream /\ t.key = Writing.key /\ t.data = Writing.data
          /\ t.restAll = Subscribers[AllOf(Writing.stream)]
      BY <1>6, <1>11 DEF Tells
    <3>2. (q.event = AllOf(Writing.stream) /\ q.calling # NULL) = FALSE
      BY <1>8, <1>11
    <3>3. PICK x : x = (q.event = AllOf(Writing.stream) /\ q.calling # NULL)  OBVIOUS
    <3>4. Tells(Writing, q, Subscribers)
            = [store |-> t.store, key |-> t.key, data |-> t.data,
               calling |-> q.calling, all |-> x, rest |-> q.rest,
               restAll |-> t.restAll]
      BY <1>8, <1>11, <3>1, <3>3 DEF Tells
    <3>5. QED  BY <3>2, <3>3, <3>4 DEF Stores!Going
  <2>3. Stores!TopBecomes(
          Stores!Going(t, Head(t.rest), FALSE, Tail(t.rest), t.restAll))
    BY <1>7, <1>8, <2>1, <2>2, Zenon
  <2>4. Stores!Call
    BY <1>5, <1>6, <1>9, <2>1, <2>3, Zenon DEF Stores!Call
  <2>5. QED  BY <2>4
<1>12. QED  BY <1>10, <1>11

LEMMA WatchedReturn ==
  ASSUME WatchInv, Mapped, Mapped', CallbackReturns
  PROVE  Stores!Return
<1>1. /\ Return /\ InCallback /\ stack # <<>> /\ ~Outside
      /\ value' = value /\ writes' = writes
  BY DEF CallbackReturns, Return, InCallback, Outside
<1>2. Notifying!Return  BY <1>1, WatchFacts, ReturnTold
<1>3. PICK p \in Told : p = Notifying!Top  BY <1>1, WhereWritesAre
<1>4. PICK q : q = Notifying!Telling(p.event, NULL, p.rest)  OBVIOUS
<1>5. /\ Subscribers' = Subscribers
      /\ Publishes' = [Publishes EXCEPT ![Len(Publishes)] = q]
  BY <1>2, <1>3, <1>4 DEF Notifying!Return
<1>6. PICK t : t = Stores!Top /\ t = Tells(Writing, p, Subscribers)
  BY <1>1, <1>3, WhereWritesAre
<1>7. Stores!TopBecomes(Tells(Writing, q, Subscribers))
  BY <1>1, <1>5, TopTells
<1>8. q.event = p.event /\ q.calling = NULL /\ q.rest = p.rest
  BY <1>4 DEF Notifying!Telling
<1>9. Tells(Writing, q, Subscribers)
        = Stores!Going(t, NULL, FALSE, t.rest, t.restAll)
  <2>1. CASE p.event = AllOf(Writing.stream)
    <3>1. t.rest = <<>> /\ t.restAll = p.rest  BY <1>6, <2>1 DEF Tells
    <3>2. Tells(Writing, q, Subscribers)
            = Stores!Going(t, q.calling, q.calling # NULL, <<>>, q.rest)
      BY <1>6, <1>8, <2>1 DEF Tells, Stores!Going
    <3>3. QED  BY <1>8, <3>1, <3>2 DEF Stores!Going
  <2>2. CASE p.event # AllOf(Writing.stream)
    <3>1. t.rest = p.rest  BY <1>6, <2>2 DEF Tells
    <3>2. Tells(Writing, q, Subscribers)
            = Stores!Going(t, q.calling, FALSE, q.rest, t.restAll)
      <4>1. t.store = Writing.stream /\ t.key = Writing.key /\ t.data = Writing.data
            /\ t.restAll = Subscribers[AllOf(Writing.stream)]
        BY <1>6, <2>2 DEF Tells
      <4>2. (q.event = AllOf(Writing.stream) /\ q.calling # NULL) = FALSE
        BY <1>8, <2>2
      <4>3. PICK x : x = (q.event = AllOf(Writing.stream) /\ q.calling # NULL)  OBVIOUS
      <4>4. Tells(Writing, q, Subscribers)
              = [store |-> t.store, key |-> t.key, data |-> t.data,
                 calling |-> q.calling, all |-> x, rest |-> q.rest,
                 restAll |-> t.restAll]
        BY <1>8, <2>2, <4>1, <4>3 DEF Tells
      <4>5. QED  BY <4>2, <4>3, <4>4 DEF Stores!Going
    <3>3. QED  BY <1>8, <3>1, <3>2 DEF Stores!Going
  <2>3. QED  BY <2>1, <2>2
<1>10. Stores!InCallback  BY <1>1, WhereWritesAre
<1>11. QED  BY <1>6, <1>7, <1>9, <1>10, Zenon DEF Stores!Return

\* Sequences that are longer by one, and shorter by one.
Indexed(f, m) == f = [i \in 1 .. m |-> f[i]]

LEMMA LongerByOne ==
  ASSUME NEW m \in Nat, NEW f, Indexed(f, m),
         NEW g, Indexed(g, m + 1),
         \A i \in 1 .. m : g[i] = f[i]
  PROVE  g = Append(f, g[m + 1])
<1>1. PICK S : S = {g[i] : i \in 1 .. m + 1}  OBVIOUS
<1>2. \A i \in 1 .. m + 1 : g[i] \in S  BY <1>1
<1>3. \A i \in 1 .. m : i \in 1 .. m + 1  OBVIOUS
<1>4. \A i \in 1 .. m : f[i] \in S  BY <1>2, <1>3
<1>5. f \in [1 .. m -> S] /\ g \in [1 .. m + 1 -> S]  BY <1>2, <1>4 DEF Indexed
<1>6. PICK x \in S : x = g[m + 1]  BY <1>2
<1>7. /\ f \in Seq(S) /\ Len(f) = m /\ g \in Seq(S) /\ Len(g) = m + 1
  BY <1>5
<1>8. PICK h : h = Append(f, x)  OBVIOUS
<1>9. /\ h \in Seq(S) /\ Len(h) = m + 1 /\ h[m + 1] = x
      /\ \A i \in 1 .. m : h[i] = f[i]
  BY <1>6, <1>7, <1>8
<1>10. \A i \in 1 .. m + 1 : i = m + 1 \/ i \in 1 .. m  OBVIOUS
<1>11. \A i \in 1 .. m + 1 : h[i] = g[i]  BY <1>6, <1>9, <1>10
<1>12. h = g  BY <1>7, <1>9, <1>11
<1>13. QED  BY <1>6, <1>8, <1>12

LEMMA PrefixFacts ==
  ASSUME NEW S, NEW m \in Nat, NEW f \in Seq(S), Len(f) = m + 1,
         NEW h, h = SubSeq(f, 1, m)
  PROVE  h \in Seq(S) /\ Len(h) = m /\ \A i \in 1 .. m : h[i] = f[i]
<1>1. m <= Len(f) /\ \A i \in 1 .. m : i \in 1 .. Len(f)  OBVIOUS
<1>2. \A i \in 1 .. Len(f) : f[i] \in S  OBVIOUS
<1>3. QED  BY <1>1, <1>2

LEMMA ShorterByOne ==
  ASSUME NEW m \in Nat, NEW f, Indexed(f, m + 1),
         NEW g, Indexed(g, m),
         \A i \in 1 .. m : g[i] = f[i]
  PROVE  g = SubSeq(f, 1, m)
<1>1. PICK S : S = {f[i] : i \in 1 .. m + 1}  OBVIOUS
<1>2. \A i \in 1 .. m + 1 : f[i] \in S  BY <1>1
<1>3. \A i \in 1 .. m : i \in 1 .. m + 1  OBVIOUS
<1>4. \A i \in 1 .. m : g[i] \in S  BY <1>2, <1>3
<1>5. g \in [1 .. m -> S] /\ f \in [1 .. m + 1 -> S]  BY <1>2, <1>4 DEF Indexed
<1>6. /\ f \in Seq(S) /\ Len(f) = m + 1 /\ g \in Seq(S) /\ Len(g) = m
  BY <1>5
<1>7. PICK h : h = SubSeq(f, 1, m)  OBVIOUS
<1>8. h \in Seq(S) /\ Len(h) = m /\ \A i \in 1 .. m : h[i] = f[i]
  BY <1>6, <1>7, PrefixFacts
<1>9. h = g
  <2>1. \A i \in 1 .. m : h[i] = g[i]  BY <1>8
  <2>2. QED  BY <1>6, <1>8, <2>1, SameSeq
<1>10. QED  BY <1>7, <1>9

\* What the mapping says, point by point.
LEMMA MappedFacts ==
  ASSUME Mapped
  PROVE  /\ \A i \in 1 .. Len(stack) :
              WritesToTell[i] = Tells(writes[i], Publishes[i], Subscribers)
         /\ Indexed(WritesToTell, Len(stack))
         /\ Len(WritesToTell) = Len(stack) /\ Len(stack) \in Nat
         /\ Publishes \in Seq(Told) /\ Len(Publishes) = Len(stack)
<1>1. WritesToTell = [i \in 1 .. Len(stack) |->
                        Tells(writes[i], Publishes[i], Subscribers)]
  BY Zenon DEF Mapped
<1>2. \A i \in 1 .. Len(stack) :
        WritesToTell[i] = Tells(writes[i], Publishes[i], Subscribers)
  BY <1>1, Zenon
<1>3. QED  BY <1>1, <1>2, Zenon DEF Mapped, Indexed

LEMMA MappedNext ==
  ASSUME Mapped'
  PROVE  /\ \A i \in 1 .. Len(stack') :
              WritesToTell'[i] = Tells(writes'[i], Publishes'[i], Subscribers')
         /\ Indexed(WritesToTell', Len(stack'))
         /\ Len(WritesToTell') = Len(stack') /\ Len(stack') \in Nat
         /\ Publishes' \in Seq(Told) /\ Len(Publishes') = Len(stack')
<1>1. WritesToTell' = [i \in 1 .. Len(stack') |->
                         Tells(writes'[i], Publishes'[i], Subscribers')]
  BY Zenon DEF Mapped
<1>2. \A i \in 1 .. Len(stack') :
        WritesToTell'[i] = Tells(writes'[i], Publishes'[i], Subscribers')
  BY <1>1, Zenon
<1>3. /\ Len(WritesToTell') = Len(stack') /\ Len(stack') \in Nat
      /\ Publishes' \in Seq(Told) /\ Len(Publishes') = Len(stack')
  BY Zenon DEF Mapped, Told
<1>4. QED  BY <1>1, <1>2, <1>3, Zenon DEF Indexed

LEMMA SubscribersMapped ==
  ASSUME Mapped, Mapped', Subscribers' = Subscribers
  PROVE  SubscribersOf' = SubscribersOf /\ SubscribersOfAll' = SubscribersOfAll
BY Zenon DEF Mapped

LEMMA WatchedDone ==
  ASSUME WatchInv, Mapped, Mapped', WriteReturns
  PROVE  Stores!Done
<1>1. /\ PublishReturns /\ stack # <<>> /\ ~Outside /\ ToAll /\ value' = value
  BY DEF WriteReturns, PublishReturns, Walking, Outside
<1>2. Notifying!Done /\ Notifying!Top = Telling(Top, next)
  BY <1>1, WatchFacts, DoneTold, WhereItIs
<1>3. PICK p \in Told : p = Notifying!Top  BY <1>1, WhereWritesAre
<1>4. /\ p.calling = NULL /\ p.rest = <<>> /\ Subscribers' = Subscribers
      /\ Publishes' = Notifying!Front(Publishes)
  BY <1>2, <1>3 DEF Notifying!Done
<1>5. p.event = AllOf(Writing.stream)
  BY <1>1, <1>2, <1>3, TellingFacts DEF ToAll
<1>6. PICK t : t = Stores!Top /\ t = Tells(Writing, p, Subscribers)
  BY <1>1, <1>3, WhereWritesAre
<1>7. t.calling = NULL /\ t.rest = <<>> /\ t.restAll = <<>>
  BY <1>4, <1>5, <1>6 DEF Tells
<1>8. PICK m \in Nat : EndsAfter(m)  BY WatchFacts, PopStacks
<1>9. /\ Len(stack) = m + 1 /\ Len(stack') = m
      /\ \A i \in 1 .. m : writes'[i] = writes[i] /\ i \in 1 .. Len(stack)
  <2>1. Len(stack) \in Nat  BY MappedFacts
  <2>2. m = Len(stack) - 1  BY <1>8 DEF EndsAfter
  <2>3. QED  BY <1>8, <2>1, <2>2 DEF EndsAfter
<1>10. \A i \in 1 .. m : Publishes'[i] = Publishes[i]
  <2>1. PICK u : u = Publishes  OBVIOUS
  <2>2. u \in Seq(Told) /\ Len(u) = m + 1  BY <1>9, <2>1, MappedFacts
  <2>3. Publishes' = SubSeq(u, 1, m)  BY <1>4, <2>1, <2>2 DEF Notifying!Front
  <2>4. PICK h : h = Publishes'  OBVIOUS
  <2>5. \A i \in 1 .. m : h[i] = u[i]  BY <2>2, <2>3, <2>4, PrefixFacts
  <2>6. QED  BY <2>1, <2>4, <2>5
<1>11. \A i \in 1 .. m : WritesToTell'[i] = WritesToTell[i]
  BY <1>4, <1>9, <1>10, MappedFacts, MappedNext, Zenon
<1>12. PICK f, g : f = WritesToTell /\ g = WritesToTell'  OBVIOUS
<1>13. /\ Indexed(f, m + 1) /\ Indexed(g, m)
       /\ \A i \in 1 .. m : g[i] = f[i]
  BY <1>9, <1>11, <1>12, MappedFacts, MappedNext, Zenon
<1>14. g = SubSeq(f, 1, m)  BY <1>13, ShorterByOne
<1>15. WritesToTell' = Stores!Front(WritesToTell)
  <2>1. Len(WritesToTell) - 1 = m  BY <1>9, MappedFacts
  <2>2. QED  BY <1>12, <1>14, <2>1 DEF Stores!Front
<1>16. SubscribersOf' = SubscribersOf /\ SubscribersOfAll' = SubscribersOfAll
  BY <1>4, SubscribersMapped
<1>17. ~Stores!Outside  BY <1>1, WhereWritesAre
<1>18. QED  BY <1>1, <1>6, <1>7, <1>15, <1>16, <1>17, Zenon DEF Stores!Done

watchedVars == <<value, SubscribersOf, SubscribersOfAll, WritesToTell>>

\* A write that turns to the subscribers of all keys had them to tell before.
LEMMA WatchedGoesOn ==
  ASSUME WatchInv, Mapped, Mapped', WriteGoesOn
  PROVE  UNCHANGED watchedVars
<1>1. /\ stack # <<>> /\ ~Outside /\ ~Top.calling /\ Top.e = NULL /\ ~ToAll
      /\ UNCHANGED listVars /\ value' = value /\ writes' = writes
      /\ TopBecomes(Begun(AllOf(Writing.stream)))
  BY DEF WriteGoesOn, Walking, Outside
<1>2. /\ RamTypeOK /\ EventTypeOK /\ PublishInv
      /\ Len(stack) \in 1 .. Len(stack) /\ Top = stack[Len(stack)]
      /\ Writing.stream \in Stream
  BY <1>1, WatchFacts, RamPieces, WritingFacts
<1>3. PICK l \in List : l = AllOf(Writing.stream)  BY <1>2, StreamFacts
<1>4. PICK f \in Frame :
        /\ f = Publishing(l, head[l], FALSE, Linked(l))
        /\ stack' = [stack EXCEPT ![Len(stack)] = f]
  BY <1>1, <1>2, <1>3, BegunFrame DEF TopBecomes
<1>5. PICK q : q = Telling(f, next)  OBVIOUS
<1>6. /\ Publishes' = [Publishes EXCEPT ![Len(Publishes)] = q]
      /\ Subscribers' = Subscribers
  BY <1>1, <1>2, <1>4, <1>5, TopTold
<1>7. q.event = l /\ q.calling = NULL /\ q.rest = Subscribers[l]
  BY <1>4, <1>5 DEF Telling, RestOf, Publishing, Subscribers
<1>8. PICK p \in Told : p = Notifying!Top  BY <1>1, WhereWritesAre
<1>9. p = Telling(Top, next)  BY <1>1, <1>2, <1>8, WhereItIs
<1>10. RestOf(Top, next) = <<>>  BY <1>1, <1>2, Remaining
<1>11. p.event # l /\ p.calling = NULL /\ p.rest = <<>>
  BY <1>1, <1>3, <1>9, <1>10, TellingFacts DEF ToAll
<1>12. Stores!Top = Tells(Writing, p, Subscribers)  BY <1>1, <1>8, WhereWritesAre
<1>13. Tells(Writing, q, Subscribers) = Tells(Writing, p, Subscribers)
  BY <1>3, <1>7, <1>11 DEF Tells
<1>14. Stores!TopBecomes(Stores!Top)
  BY <1>1, <1>6, <1>12, <1>13, TopTells
<1>15. [WritesToTell EXCEPT ![Len(WritesToTell)] = Stores!Top] = WritesToTell
  <2>1. PICK w, m : w = WritesToTell /\ m = Len(stack)  OBVIOUS
  <2>2. Indexed(w, m) /\ Len(w) = m  BY <2>1, MappedFacts
  <2>3. [w EXCEPT ![m] = w[m]] = w  BY <2>2 DEF Indexed
  <2>4. QED  BY <2>1, <2>2, <2>3 DEF Stores!Top
<1>16. QED  BY <1>1, <1>14, <1>15 DEF Stores!TopBecomes, watchedVars

LEMMA WatchedWrite ==
  ASSUME WatchInv, Mapped, Mapped',
         NEW s \in Stream, NEW k \in Key, NEW data \in Value, Write(s, k, data)
  PROVE  Stores!Write(s, k, data)
<1>1. /\ HasKey(s, k) /\ value[s][k] # data
      /\ value' = [value EXCEPT ![s][k] = data] /\ Publish(On(s, k))
  BY DEF Write
<1>2. /\ On(s, k) \in List /\ k \in KeysOf(s) /\ On(s, k) # AllOf(s)
  BY <1>1, StreamFacts DEF KeysOf, On, AllOf
<1>3. Notifying!Publish(On(s, k))  BY <1>1, <1>2, WatchFacts, PublishTold
<1>4. PICK q : q = Notifying!Telling(On(s, k), NULL, Subscribers[On(s, k)])
  OBVIOUS
<1>5. /\ Publishes' = Append(Publishes, q) /\ Subscribers' = Subscribers
      /\ q.event = On(s, k) /\ q.calling = NULL /\ q.rest = Subscribers[On(s, k)]
  BY <1>3, <1>4 DEF Notifying!Publish, Notifying!Telling
<1>6. PICK m \in Nat, f \in Frame : BeginsAt(m, f, s, k, data)
  BY WatchFacts, WriteStacks
<1>7. PICK n \in Nat : n = Len(stack)  BY MappedFacts
<1>8. /\ Len(stack') = n + 1 /\ writes'[n + 1].stream = s
      /\ writes'[n + 1].key = k /\ writes'[n + 1].data = data
      /\ \A i \in 1 .. n : writes'[i] = writes[i] /\ i \in 1 .. n + 1
  BY <1>6, <1>7 DEF BeginsAt
<1>9. Publishes'[n + 1] = q /\ \A i \in 1 .. n : Publishes'[i] = Publishes[i]
  <2>1. PICK u, v : u = Publishes /\ v = Publishes'  OBVIOUS
  <2>2. /\ u \in Seq(Told) /\ Len(u) = n /\ v \in Seq(Told) /\ v = Append(u, q)
        /\ Len(v) = n + 1
    BY <1>5, <1>7, <1>8, <2>1, MappedFacts, MappedNext
  <2>3. v[n + 1] = q /\ \A i \in 1 .. n : v[i] = u[i]  BY <2>2
  <2>4. QED  BY <2>1, <2>3
<1>10. \A i \in 1 .. n : WritesToTell'[i] = WritesToTell[i]
  <2>1. \A i \in 1 .. n : i \in 1 .. Len(stack) /\ i \in 1 .. Len(stack')
    BY <1>7, <1>8
  <2>2. QED  BY <1>5, <1>8, <1>9, <2>1, MappedFacts, MappedNext, Zenon
<1>11. PICK t : t = Stores!Going([store |-> s, key |-> k, data |-> data],
                                  NULL, FALSE, SubscribersOf[s][k],
                                  SubscribersOfAll[s])
  OBVIOUS
<1>12. WritesToTell'[n + 1] = t
  <2>1. n + 1 \in 1 .. Len(stack')  BY <1>8
  <2>2. PICK w : w = writes'[n + 1]  OBVIOUS
  <2>3. WritesToTell'[n + 1] = Tells(w, q, Subscribers)
    BY <1>5, <1>9, <2>1, <2>2, MappedNext, Zenon
  <2>4. w.stream = s /\ w.key = k /\ w.data = data  BY <1>8, <2>2
  <2>5. /\ SubscribersOf[s][k] = Subscribers[On(s, k)]
        /\ SubscribersOfAll[s] = Subscribers[AllOf(s)]
    <3>1. SubscribersOf
            = [r \in Stream |-> [j \in KeysOf(r) |-> Subscribers[On(r, j)]]]
      BY Zenon DEF Mapped
    <3>2. SubscribersOfAll = [r \in Stream |-> Subscribers[AllOf(r)]]
      BY Zenon DEF Mapped
    <3>3. SubscribersOf[s] = [j \in KeysOf(s) |-> Subscribers[On(s, j)]]
      BY <3>1, Zenon
    <3>4. SubscribersOf[s][k] = Subscribers[On(s, k)]  BY <1>2, <3>3, Zenon
    <3>5. QED  BY <3>2, <3>4, Zenon
  <2>6. Tells(w, q, Subscribers)
          = [store |-> s, key |-> k, data |-> data, calling |-> NULL,
             all |-> FALSE, rest |-> Subscribers[On(s, k)],
             restAll |-> Subscribers[AllOf(s)]]
    BY <1>2, <1>5, <2>4 DEF Tells
  <2>7. QED  BY <1>11, <2>3, <2>5, <2>6 DEF Stores!Going
<1>13. WritesToTell' = Append(WritesToTell, t)
  <2>1. PICK u, v : u = WritesToTell /\ v = WritesToTell'  OBVIOUS
  <2>2. /\ Indexed(u, n) /\ Indexed(v, n + 1) /\ v[n + 1] = t
        /\ \A i \in 1 .. n : v[i] = u[i]
    BY <1>7, <1>8, <1>10, <1>12, <2>1, MappedFacts, MappedNext
  <2>3. v = Append(u, t)  BY <2>2, LongerByOne
  <2>4. QED  BY <2>1, <2>3
<1>14. SubscribersOf' = SubscribersOf /\ SubscribersOfAll' = SubscribersOfAll
  BY <1>5, SubscribersMapped
<1>15. Stores!Outside \/ Stores!InCallback
  BY <1>1, WhereWritesAre DEF Publish
<1>16. QED
  BY <1>1, <1>2, <1>11, <1>13, <1>14, <1>15, Zenon DEF Stores!Write

-----------------------------------------------------------------------------
\* Subscriptions change on one datastream at a time.
LEMMA WriteFacts ==
  ASSUME WatchInv, NEW i \in 1 .. Len(stack)
  PROVE  /\ writes[i].stream \in Stream /\ writes[i].key \in Key
         /\ HasKey(writes[i].stream, writes[i].key)
         /\ Publishes[i].event \in {On(writes[i].stream, writes[i].key),
                                    AllOf(writes[i].stream)}
         /\ Publishes[i].event \in EventsOf(writes[i].stream)
         /\ Publishes[i].event \in List /\ Publishes[i].rest \in Seq(Node)
         /\ Publishes[i].event = stack[i].event
         /\ stack[i].calling => Publishes[i].calling # NULL
<1>1. /\ RamTypeOK /\ PublishInv /\ Aimed /\ WalkInv
      /\ writes \in Seq(WriteCall) /\ Len(writes) = Len(stack)
  BY WatchFacts, RamPieces
<1>2. writes[i] \in WriteCall  BY <1>1
<1>3. writes[i].stream \in Stream /\ writes[i].key \in Key
  BY <1>2 DEF WriteCall
<1>4. /\ HasKey(writes[i].stream, writes[i].key)
      /\ stack[i].event \in {On(writes[i].stream, writes[i].key),
                             AllOf(writes[i].stream)}
  BY <1>1 DEF Aimed
<1>5. /\ Publishes[i].event = stack[i].event
      /\ Publishes[i].calling = IF stack[i].calling THEN stack[i].e ELSE NULL
  BY <1>1, PublishesFacts, TellingFacts
<1>6. Publishes[i] \in Told  BY <1>1, PublishesFacts
<1>7. Publishes[i].event \in List /\ Publishes[i].rest \in Seq(Node)
  BY <1>6 DEF Told
<1>8. stack[i].calling => stack[i].e # NULL  BY <1>1, RamPieces
<1>9. Publishes[i].event \in EventsOf(writes[i].stream)
  BY <1>3, <1>4, <1>5, StreamFacts
<1>10. QED  BY <1>3, <1>4, <1>5, <1>7, <1>8, <1>9

LEMMA RowsChange ==
  ASSUME Mapped, Mapped', NEW s \in Stream,
         \A r \in Stream : r # s =>
           \A l \in EventsOf(r) : Subscribers'[l] = Subscribers[l],
         NEW X, X = [k \in KeysOf(s) |-> Subscribers'[On(s, k)]],
         NEW Y, Y = Subscribers'[AllOf(s)]
  PROVE  /\ SubscribersOf' = [SubscribersOf EXCEPT ![s] = X]
         /\ SubscribersOfAll' = [SubscribersOfAll EXCEPT ![s] = Y]
<1>1. /\ SubscribersOf
           = [r \in Stream |-> [k \in KeysOf(r) |-> Subscribers[On(r, k)]]]
      /\ SubscribersOfAll = [r \in Stream |-> Subscribers[AllOf(r)]]
  BY Zenon DEF Mapped
<1>2. /\ SubscribersOf'
           = [r \in Stream |-> [k \in KeysOf(r) |-> Subscribers'[On(r, k)]]]
      /\ SubscribersOfAll' = [r \in Stream |-> Subscribers'[AllOf(r)]]
  BY Zenon DEF Mapped, KeysOf, HasKey, Count, Entry, On, AllOf
<1>3. \A r \in Stream : /\ AllOf(r) \in EventsOf(r)
                        /\ \A k \in KeysOf(r) : On(r, k) \in EventsOf(r)
  BY StreamFacts DEF KeysOf
<1>4. ASSUME NEW r \in Stream, r # s
      PROVE  /\ [k \in KeysOf(r) |-> Subscribers'[On(r, k)]]
                  = [k \in KeysOf(r) |-> Subscribers[On(r, k)]]
             /\ Subscribers'[AllOf(r)] = Subscribers[AllOf(r)]
  <2>1. \A k \in KeysOf(r) : Subscribers'[On(r, k)] = Subscribers[On(r, k)]
    BY <1>3, <1>4, Zenon
  <2>2. Subscribers'[AllOf(r)] = Subscribers[AllOf(r)]  BY <1>3, <1>4, Zenon
  <2>3. QED  BY <2>1, <2>2, Zenon
<1>5. PICK f, g : f = SubscribersOf /\ g = SubscribersOf'  OBVIOUS
<1>6. /\ f = [r \in Stream |-> f[r]] /\ g = [r \in Stream |-> g[r]]
      /\ g[s] = X /\ \A r \in Stream : r # s => g[r] = f[r]
  <2>1. /\ \A r \in Stream :
             /\ f[r] = [k \in KeysOf(r) |-> Subscribers[On(r, k)]]
             /\ g[r] = [k \in KeysOf(r) |-> Subscribers'[On(r, k)]]
    BY <1>1, <1>2, <1>5, Zenon
  <2>2. f = [r \in Stream |-> f[r]] /\ g = [r \in Stream |-> g[r]]
    BY <1>1, <1>2, <1>5, <2>1, Zenon
  <2>3. g[s] = X  BY <2>1, Zenon
  <2>4. ASSUME NEW r \in Stream, r # s  PROVE g[r] = f[r]
    <3>1. [k \in KeysOf(r) |-> Subscribers'[On(r, k)]]
            = [k \in KeysOf(r) |-> Subscribers[On(r, k)]]
      BY <1>4, <2>4
    <3>2. /\ f[r] = [k \in KeysOf(r) |-> Subscribers[On(r, k)]]
          /\ g[r] = [k \in KeysOf(r) |-> Subscribers'[On(r, k)]]
      BY <2>1, Zenon
    <3>3. QED  BY <3>1, <3>2, Zenon
  <2>5. QED  BY <2>2, <2>3, <2>4
<1>7. g = [f EXCEPT ![s] = X]  BY <1>6
<1>8. PICK c, d : c = SubscribersOfAll /\ d = SubscribersOfAll'  OBVIOUS
<1>9. /\ c = [r \in Stream |-> c[r]] /\ d = [r \in Stream |-> d[r]]
      /\ d[s] = Y /\ \A r \in Stream : r # s => d[r] = c[r]
  <2>1. \A r \in Stream : /\ c[r] = Subscribers[AllOf(r)]
                          /\ d[r] = Subscribers'[AllOf(r)]
    BY <1>1, <1>2, <1>8, Zenon
  <2>2. c = [r \in Stream |-> c[r]] /\ d = [r \in Stream |-> d[r]]
    BY <1>1, <1>2, <1>8, <2>1, Zenon
  <2>3. QED  BY <1>4, <2>1, <2>2, Zenon
<1>10. d = [c EXCEPT ![s] = Y]  BY <1>9
<1>11. QED  BY <1>5, <1>7, <1>8, <1>10

LEMMA WritesChange ==
  ASSUME Mapped, Mapped', Len(stack') = Len(stack),
         NEW G, Indexed(G, Len(stack)),
         \A i \in 1 .. Len(stack) : WritesToTell'[i] = G[i]
  PROVE  WritesToTell' = G
<1>1. PICK v, m : v = WritesToTell' /\ m = Len(stack)  OBVIOUS
<1>2. Indexed(v, m) /\ Indexed(G, m) /\ \A i \in 1 .. m : v[i] = G[i]
  BY <1>1, MappedNext
<1>3. v = G  BY <1>2, Zenon DEF Indexed
<1>4. QED  BY <1>1, <1>3

LEMMA WatchedClear ==
  ASSUME OwnConfigs, WatchInv, Mapped, Mapped', NEW s \in Stream, RamReinit(s)
  PROVE  Stores!Clear(s)
<1>1. /\ Outside /\ stack' = stack /\ next' = next
      /\ head' = [l \in List |-> IF l \in EventsOf(s) THEN NULL ELSE head[l]]
      /\ value' = [value EXCEPT ![s] = Zeroes]
  BY ClearedIsZero, WatchFacts, RamPieces DEF RamReinit
<1>2. EventsOf(s) \in SUBSET List /\ ListsInv  BY StreamFacts, WatchFacts
<1>3. \A l \in List :
        Subscribers'[l] = IF l \in EventsOf(s) THEN <<>> ELSE Subscribers[l]
  BY <1>1, <1>2, EventsEmptied, SubscribersAre
<1>4. \A r \in Stream : r # s =>
        \A l \in EventsOf(r) : Subscribers'[l] = Subscribers[l]
  BY <1>3, EventsApart, StreamFacts
<1>5. PICK X : X = [k \in KeysOf(s) |-> <<>>]  OBVIOUS
<1>6. X = [k \in KeysOf(s) |-> Subscribers'[On(s, k)]] /\ Subscribers'[AllOf(s)] = <<>>
  <2>1. \A k \in KeysOf(s) : On(s, k) \in List /\ On(s, k) \in EventsOf(s)
    BY StreamFacts DEF KeysOf
  <2>2. \A k \in KeysOf(s) : Subscribers'[On(s, k)] = <<>>  BY <1>3, <2>1
  <2>3. QED  BY <1>3, <1>5, <2>2, StreamFacts
<1>7. /\ SubscribersOf' = [SubscribersOf EXCEPT ![s] = X]
      /\ SubscribersOfAll' = [SubscribersOfAll EXCEPT ![s] = <<>>]
  BY <1>4, <1>6, RowsChange
<1>8. WritesToTell' = WritesToTell
  <2>1. PICK u, v : u = WritesToTell /\ v = WritesToTell'  OBVIOUS
  <2>2. Len(stack) = 0 /\ Len(stack') = 0  BY <1>1 DEF Outside
  <2>3. Indexed(u, 0) /\ Indexed(v, 0)
    BY <2>1, <2>2, MappedFacts, MappedNext
  <2>4. u = v  BY <2>3 DEF Indexed
  <2>5. QED  BY <2>1, <2>4
<1>9. Stores!Outside  BY <1>1, WhereWritesAre
<1>10. QED
  BY <1>1, <1>5, <1>7, <1>8, <1>9 DEF Stores!Clear, Zeroes

\* A publish p and a write t once n has joined or left.
Joined(p, event, n) ==
  IF p.event = event THEN Notifying!Still(p, Append(p.rest, n)) ELSE p
LeftBehind(p, events, n) ==
  IF p.event \in events THEN Notifying!Still(p, RemoveFirst(p.rest, n)) ELSE p

KeyJoined(t, s, k, n) ==
  IF t.store = s /\ t.key = k /\ ~t.all
  THEN Stores!Still(t, Append(t.rest, n), t.restAll) ELSE t
AllJoined(t, s, n) ==
  IF t.store = s THEN Stores!Still(t, t.rest, Append(t.restAll, n)) ELSE t
NobodyLeft(t, s, n) ==
  IF t.store = s
  THEN Stores!Still(t, RemoveFirst(t.rest, n), RemoveFirst(t.restAll, n)) ELSE t

\* A subscription to a key is told by the writes of the key that have not yet
\* turned to the subscribers of all keys.
LEMMA TellsKeySubscribed ==
  ASSUME OwnConfigs, NEW s \in Stream, NEW k \in Key, NEW n,
         NEW w, w.stream \in Stream, w.key \in Key,
         NEW p, p.event \in {On(w.stream, w.key), AllOf(w.stream)},
         p.calling # NULL,
         NEW q, q = Joined(p, On(s, k), n),
         NEW S, NEW T, T[AllOf(w.stream)] = S[AllOf(w.stream)],
         NEW t, t = Tells(w, p, S)
  PROVE  Tells(w, q, T) = KeyJoined(t, s, k, n)
<1>1. t.store = w.stream /\ t.key = w.key  BY DEF Tells
<1>2. CASE p.event = AllOf(w.stream)
  <2>1. q = p  BY <1>2, EventsApart DEF Joined
  <2>2. t.all  BY <1>2 DEF Tells
  <2>3. Tells(w, p, T) = t  BY <1>2 DEF Tells
  <2>4. QED  BY <2>1, <2>2, <2>3 DEF KeyJoined
<1>3. CASE p.event # AllOf(w.stream)
  <2>1. p.event = On(w.stream, w.key) /\ ~t.all  BY <1>3 DEF Tells
  <2>2. CASE w.stream = s /\ w.key = k
    <3>1. /\ q.event = p.event /\ q.calling = p.calling
          /\ q.rest = Append(p.rest, n)
      BY <2>1, <2>2 DEF Joined, Notifying!Still, Notifying!Telling
    <3>2. /\ t.data = w.data /\ t.calling = p.calling /\ t.rest = p.rest
          /\ t.restAll = S[AllOf(w.stream)]
      BY <1>3 DEF Tells
    <3>3. PICK x, y : /\ x = (q.event = AllOf(w.stream) /\ q.calling # NULL)
                      /\ y = (p.event = AllOf(w.stream) /\ p.calling # NULL)
      OBVIOUS
    <3>4. x = y /\ t.all = y  BY <1>3, <3>1, <3>3 DEF Tells
    <3>5. Tells(w, q, T)
            = [store |-> t.store, key |-> t.key, data |-> t.data,
               calling |-> t.calling, all |-> x, rest |-> Append(t.rest, n),
               restAll |-> t.restAll]
      BY <1>1, <1>3, <3>1, <3>2, <3>3 DEF Tells
    <3>6. QED
      BY <1>1, <2>1, <2>2, <3>4, <3>5 DEF KeyJoined, Stores!Still, Stores!Going
  <2>3. CASE ~(w.stream = s /\ w.key = k)
    <3>1. q = p  BY <2>1, <2>3, EventsApart DEF Joined
    <3>2. Tells(w, p, T) = t  BY <1>3 DEF Tells
    <3>3. QED  BY <1>1, <2>3, <3>1, <3>2 DEF KeyJoined
  <2>4. QED  BY <2>2, <2>3
<1>4. QED  BY <1>2, <1>3

\* One to all keys by every write to the datastream.
LEMMA TellsAllSubscribed ==
  ASSUME OwnConfigs, NEW s \in Stream, NEW n,
         NEW w, w.stream \in Stream, w.key \in Key,
         NEW p, p.event \in {On(w.stream, w.key), AllOf(w.stream)},
         NEW q, q = Joined(p, AllOf(s), n),
         NEW S, NEW T,
         T[AllOf(w.stream)] = IF w.stream = s THEN Append(S[AllOf(w.stream)], n)
                              ELSE S[AllOf(w.stream)],
         NEW t, t = Tells(w, p, S)
  PROVE  Tells(w, q, T) = AllJoined(t, s, n)
<1>1. /\ t.store = w.stream /\ t.key = w.key
      /\ t.data = w.data /\ t.calling = p.calling
  BY DEF Tells
<1>2. q.event = p.event /\ q.calling = p.calling
  BY DEF Joined, Notifying!Still, Notifying!Telling
<1>3. PICK x, y : /\ x = (q.event = AllOf(w.stream) /\ q.calling # NULL)
                  /\ y = (p.event = AllOf(w.stream) /\ p.calling # NULL)
  OBVIOUS
<1>4. x = y /\ t.all = y  BY <1>2, <1>3 DEF Tells
<1>5. CASE p.event = AllOf(w.stream)
  <2>1. t.rest = <<>> /\ t.restAll = p.rest  BY <1>5 DEF Tells
  <2>2. CASE w.stream = s
    <3>1. q.rest = Append(p.rest, n)
      BY <1>5, <2>2 DEF Joined, Notifying!Still, Notifying!Telling
    <3>2. Tells(w, q, T)
            = [store |-> t.store, key |-> t.key, data |-> t.data,
               calling |-> t.calling, all |-> x, rest |-> t.rest,
               restAll |-> Append(t.restAll, n)]
      BY <1>1, <1>2, <1>3, <1>5, <2>1, <3>1 DEF Tells
    <3>3. QED  BY <1>1, <1>4, <2>2, <3>2 DEF AllJoined, Stores!Still, Stores!Going
  <2>3. CASE w.stream # s
    <3>1. q = p  BY <1>5, <2>3, EventsApart DEF Joined
    <3>2. Tells(w, p, T) = t  BY <1>5 DEF Tells
    <3>3. QED  BY <1>1, <2>3, <3>1, <3>2 DEF AllJoined
  <2>4. QED  BY <2>2, <2>3
<1>6. CASE p.event # AllOf(w.stream)
  <2>1. p.event = On(w.stream, w.key)  BY <1>6
  <2>2. q = p  BY <2>1, EventsApart DEF Joined
  <2>3. t.rest = p.rest /\ t.restAll = S[AllOf(w.stream)]  BY <1>6 DEF Tells
  <2>4. CASE w.stream = s
    <3>1. Tells(w, q, T)
            = [store |-> t.store, key |-> t.key, data |-> t.data,
               calling |-> t.calling, all |-> x, rest |-> t.rest,
               restAll |-> Append(t.restAll, n)]
      BY <1>1, <1>2, <1>3, <1>6, <2>2, <2>3, <2>4 DEF Tells
    <3>2. QED  BY <1>1, <1>4, <2>4, <3>1 DEF AllJoined, Stores!Still, Stores!Going
  <2>5. CASE w.stream # s
    <3>1. Tells(w, p, T) = t  BY <1>6, <2>5 DEF Tells
    <3>2. QED  BY <1>1, <2>2, <2>5, <3>1 DEF AllJoined
  <2>6. QED  BY <2>4, <2>5
<1>7. QED  BY <1>5, <1>6

\* And one that ends is told by none of them any more.
LEMMA TellsUnsubscribed ==
  ASSUME OwnConfigs, NEW s \in Stream, NEW n,
         NEW w, w.stream \in Stream, w.key \in Key,
         HasKey(w.stream, w.key),
         NEW p, p.event \in {On(w.stream, w.key), AllOf(w.stream)},
         NEW q, q = LeftBehind(p, EventsOf(s), n),
         NEW S, NEW T,
         T[AllOf(w.stream)]
           = IF w.stream = s THEN RemoveFirst(S[AllOf(w.stream)], n)
             ELSE S[AllOf(w.stream)],
         NEW t, t = Tells(w, p, S)
  PROVE  Tells(w, q, T) = NobodyLeft(t, s, n)
<1>1. /\ t.store = w.stream /\ t.key = w.key
      /\ t.data = w.data /\ t.calling = p.calling
  BY DEF Tells
<1>2. q.event = p.event /\ q.calling = p.calling
  BY DEF LeftBehind, Notifying!Still, Notifying!Telling
<1>3. PICK x, y : /\ x = (q.event = AllOf(w.stream) /\ q.calling # NULL)
                  /\ y = (p.event = AllOf(w.stream) /\ p.calling # NULL)
  OBVIOUS
<1>4. x = y /\ t.all = y  BY <1>2, <1>3 DEF Tells
<1>5. p.event \in EventsOf(w.stream)  BY StreamFacts
<1>6. CASE w.stream = s
  <2>1. q.rest = RemoveFirst(p.rest, n)
    BY <1>5, <1>6 DEF LeftBehind, Notifying!Still, Notifying!Telling
  <2>2. CASE p.event = AllOf(w.stream)
    <3>1. t.rest = <<>> /\ t.restAll = p.rest  BY <2>2 DEF Tells
    <3>2. RemoveFirst(t.rest, n) = <<>>  BY <3>1 DEF RemoveFirst
    <3>3. Tells(w, q, T)
            = [store |-> t.store, key |-> t.key, data |-> t.data,
               calling |-> t.calling, all |-> x, rest |-> RemoveFirst(t.rest, n),
               restAll |-> RemoveFirst(t.restAll, n)]
      BY <1>1, <1>2, <1>3, <2>1, <2>2, <3>1, <3>2 DEF Tells
    <3>4. QED  BY <1>1, <1>4, <1>6, <3>3 DEF NobodyLeft, Stores!Still, Stores!Going
  <2>3. CASE p.event # AllOf(w.stream)
    <3>1. t.rest = p.rest /\ t.restAll = S[AllOf(w.stream)]  BY <2>3 DEF Tells
    <3>2. Tells(w, q, T)
            = [store |-> t.store, key |-> t.key, data |-> t.data,
               calling |-> t.calling, all |-> x, rest |-> RemoveFirst(t.rest, n),
               restAll |-> RemoveFirst(t.restAll, n)]
      BY <1>1, <1>2, <1>3, <1>6, <2>1, <2>3, <3>1 DEF Tells
    <3>3. QED  BY <1>1, <1>4, <1>6, <3>2 DEF NobodyLeft, Stores!Still, Stores!Going
  <2>4. QED  BY <2>2, <2>3
<1>7. CASE w.stream # s
  <2>1. p.event \notin EventsOf(s)  BY <1>5, <1>7, EventsApart
  <2>2. q = p  BY <2>1 DEF LeftBehind
  <2>3. Tells(w, p, T) = t  BY <1>7 DEF Tells
  <2>4. QED  BY <1>1, <1>7, <2>2, <2>3 DEF NobodyLeft
<1>8. QED  BY <1>6, <1>7

\* What the events make of a subscription, seen from the writes.
LEMMA SubscriptionMade ==
  ASSUME WatchInv, Mapped, NEW e \in List, NEW n \in Node, Subscribe(e, n)
  PROVE  /\ Len(stack') = Len(stack)
         /\ \A i \in 1 .. Len(stack) :
              /\ Publishes[i].calling # NULL
              /\ Publishes'[i] = Joined(Publishes[i], e, n)
         /\ \A l \in List : Subscribers'[l] = IF l = e
                                              THEN Append(Subscribers[l], n)
                                              ELSE Subscribers[l]
         /\ ~Stores!Watches(n)
         /\ Stores!Outside \/ Stores!InCallback
<1>1. /\ PublishInv /\ EventTypeOK /\ WalkInv /\ stack' = DueWith(e, n)
      /\ Outside \/ InCallback
  BY WatchFacts, RamPieces DEF Subscribe, Subscribed, MaySubscribe, Callback
<1>2. Notifying!Subscribe(e, n)  BY <1>1, SubscribeTold
<1>3. Len(stack') = Len(stack)  BY <1>1, SubscribedStack
<1>4. DOMAIN Publishes = 1 .. Len(stack)  BY <1>1, PublishesFacts
<1>5. \A i \in 1 .. Len(stack) :
        Publishes'[i] = Joined(Publishes[i], e, n)
  BY <1>2, <1>4, Zenon DEF Notifying!Subscribe, Joined
<1>6. \A l \in List : Subscribers'[l] = IF l = e THEN Append(Subscribers[l], n)
                                                ELSE Subscribers[l]
  <2>1. DOMAIN Subscribers = List  BY DEF Subscribers
  <2>2. Subscribers' = [Subscribers EXCEPT ![e] = Append(Subscribers[e], n)]
    BY <1>2 DEF Notifying!Subscribe
  <2>3. QED  BY <2>1, <2>2
<1>7. \A i \in 1 .. Len(stack) : Publishes[i].calling # NULL
  BY <1>1, AllAreCalling, WriteFacts
<1>8. ~Stores!Watches(n)
  <2>1. \A l \in List : n \notin Range(Subscribers[l])
    BY <1>2 DEF Notifying!Subscribe, Notifying!Subscribed, Notifying!Range, Range
  <2>2. ASSUME NEW s \in Stream
        PROVE  /\ n \notin Range(SubscribersOfAll[s])
               /\ \A k \in KeysOf(s) : n \notin Range(SubscribersOf[s][k])
    <3>1. AllOf(s) \in List /\ \A k \in KeysOf(s) : On(s, k) \in List
      BY StreamFacts DEF KeysOf
    <3>2. SubscribersOfAll[s] = Subscribers[AllOf(s)]  BY Zenon DEF Mapped
    <3>3. \A k \in KeysOf(s) : SubscribersOf[s][k] = Subscribers[On(s, k)]
      BY Zenon DEF Mapped
    <3>4. QED  BY <2>1, <3>1, <3>2, <3>3, Zenon
  <2>3. QED  BY <2>2 DEF Stores!Watches, Stores!Range, Range
<1>9. Stores!Outside \/ Stores!InCallback  BY <1>1, WhereWritesAre
<1>10. QED  BY <1>3, <1>5, <1>6, <1>7, <1>8, <1>9

\* What each write tells then.
LEMMA WatchedWrites ==
  ASSUME Mapped, Mapped', Len(stack') = Len(stack), writes' = writes,
         NEW G, \A i \in 1 .. Len(stack) :
                  Tells(writes[i], Publishes'[i], Subscribers') = G[i]
  PROVE  /\ \A i \in 1 .. Len(stack) : WritesToTell'[i] = G[i]
         /\ DOMAIN WritesToTell = 1 .. Len(stack)
<1>1. \A i \in 1 .. Len(stack) : i \in 1 .. Len(stack')  OBVIOUS
<1>2. \A i \in 1 .. Len(stack') :
        WritesToTell'[i] = Tells(writes'[i], Publishes'[i], Subscribers')
  BY MappedNext
<1>3. \A i \in 1 .. Len(stack) : WritesToTell'[i] = G[i]
  BY <1>1, <1>2, Zenon
<1>4. DOMAIN WritesToTell = 1 .. Len(stack)  BY Zenon DEF Mapped
<1>5. QED  BY <1>3, <1>4

LEMMA WatchedSubscribe ==
  ASSUME OwnConfigs, WatchInv, Mapped, Mapped',
         NEW s \in Stream, NEW k \in Key, NEW n \in Node, SubscribeKey(s, k, n)
  PROVE  Stores!Subscribe(s, k, n)
<1>1. /\ HasKey(s, k) /\ Subscribe(On(s, k), n)
      /\ value' = value /\ writes' = writes
  BY DEF SubscribeKey, KeySubscribed, Subscribe
<1>2. On(s, k) \in List /\ k \in KeysOf(s)  BY <1>1, StreamFacts DEF KeysOf
<1>3. /\ Len(stack') = Len(stack)
      /\ \A i \in 1 .. Len(stack) :
           /\ Publishes[i].calling # NULL
           /\ Publishes'[i] = Joined(Publishes[i], On(s, k), n)
      /\ \A l \in List : Subscribers'[l] = IF l = On(s, k)
                                           THEN Append(Subscribers[l], n)
                                           ELSE Subscribers[l]
      /\ ~Stores!Watches(n)
      /\ Stores!Outside \/ Stores!InCallback
  BY <1>1, <1>2, SubscriptionMade
<1>4. PICK G : G = [i \in DOMAIN WritesToTell |->
                      KeyJoined(WritesToTell[i], s, k, n)]
  OBVIOUS
<1>5. DOMAIN WritesToTell = 1 .. Len(stack)  BY Zenon DEF Mapped
<1>6. ASSUME NEW i \in 1 .. Len(stack)
      PROVE  Tells(writes[i], Publishes'[i], Subscribers') = G[i]
  <2>1. PICK w, p, q, S, T, t :
          /\ w = writes[i] /\ p = Publishes[i] /\ q = Publishes'[i]
          /\ S = Subscribers /\ T = Subscribers' /\ t = WritesToTell[i]
    OBVIOUS
  <2>2. /\ w.stream \in Stream /\ w.key \in Key
        /\ p.event \in {On(w.stream, w.key), AllOf(w.stream)}
    BY <2>1, WriteFacts
  <2>3. p.calling # NULL /\ q = Joined(p, On(s, k), n)
    BY <1>3, <2>1
  <2>4. T[AllOf(w.stream)] = S[AllOf(w.stream)]
    BY <1>3, <2>1, <2>2, StreamFacts, EventsApart
  <2>5. t = Tells(w, p, S)  BY <2>1, MappedFacts
  <2>6. Tells(w, q, T) = KeyJoined(t, s, k, n)
    BY <2>2, <2>3, <2>4, <2>5, TellsKeySubscribed
  <2>7. G[i] = KeyJoined(t, s, k, n)  BY <1>4, <1>5, <2>1
  <2>8. QED  BY <2>1, <2>6, <2>7
<1>7. WritesToTell' = G
  <2>1. \A i \in 1 .. Len(stack) : WritesToTell'[i] = G[i]
    BY <1>1, <1>3, <1>6, WatchedWrites
  <2>2. Indexed(G, Len(stack))  BY <1>4, <1>5 DEF Indexed
  <2>3. QED  BY <1>3, <2>1, <2>2, WritesChange
<1>8. PICK X : X = [j \in KeysOf(s) |-> Subscribers'[On(s, j)]]  OBVIOUS
<1>9. Subscribers'[AllOf(s)] = SubscribersOfAll[s]
  <2>1. Subscribers'[AllOf(s)] = Subscribers[AllOf(s)]
    BY <1>3, StreamFacts, EventsApart
  <2>2. QED  BY <2>1, Zenon DEF Mapped
<1>10. /\ SubscribersOf' = [SubscribersOf EXCEPT ![s] = X]
       /\ SubscribersOfAll' = [SubscribersOfAll EXCEPT ![s] = SubscribersOfAll[s]]
  <2>1. ASSUME NEW r \in Stream, r # s, NEW l \in EventsOf(r)
        PROVE  Subscribers'[l] = Subscribers[l]
    <3>1. l \in List /\ On(s, k) \in EventsOf(s)
      BY <1>1, StreamFacts
    <3>2. l # On(s, k)  BY <2>1, <3>1, EventsApart
    <3>3. QED  BY <1>3, <3>1, <3>2
  <2>2. QED  BY <1>8, <1>9, <2>1, RowsChange
<1>11. X = [SubscribersOf[s] EXCEPT ![k] = Append(SubscribersOf[s][k], n)]
  <2>1. PICK f : f = SubscribersOf[s]  OBVIOUS
  <2>2. f = [j \in KeysOf(s) |-> Subscribers[On(s, j)]]
    BY <2>1, Zenon DEF Mapped
  <2>3. \A j \in KeysOf(s) :
          Subscribers'[On(s, j)] = IF j = k THEN Append(Subscribers[On(s, j)], n)
                                   ELSE Subscribers[On(s, j)]
    <3>1. \A j \in KeysOf(s) : /\ On(s, j) \in List
                               /\ (On(s, j) = On(s, k) <=> j = k)
      BY <1>2, StreamFacts, EventsApart DEF KeysOf
    <3>2. QED  BY <1>3, <3>1
  <2>4. [f EXCEPT ![k] = Append(f[k], n)]
          = [j \in KeysOf(s) |-> IF j = k THEN Append(Subscribers[On(s, j)], n)
                                 ELSE Subscribers[On(s, j)]]
    BY <1>2, <2>2
  <2>5. QED  BY <1>8, <2>1, <2>3, <2>4, Zenon
<1>12. SubscribersOf' = [SubscribersOf EXCEPT
                           ![s][k] = Append(SubscribersOf[s][k], n)]
  <2>1. DOMAIN SubscribersOf = Stream  BY Zenon DEF Mapped
  <2>2. QED  BY <1>10, <1>11, <2>1
<1>13. SubscribersOfAll' = SubscribersOfAll
  <2>1. PICK c : c = SubscribersOfAll  OBVIOUS
  <2>2. c = [r \in Stream |-> Subscribers[AllOf(r)]]  BY <2>1, Zenon DEF Mapped
  <2>3. [c EXCEPT ![s] = c[s]] = c  BY <2>2
  <2>4. QED  BY <1>10, <2>1, <2>3
<1>14. k \in [r \in Stream |-> KeysOf(r)][s]  BY <1>2
<1>15. QED
  BY <1>1, <1>3, <1>4, <1>7, <1>12, <1>13, <1>14, Zenon
     DEF KeyJoined, Stores!Subscribe

LEMMA WatchedSubscribeAll ==
  ASSUME OwnConfigs, WatchInv, Mapped, Mapped',
         NEW s \in Stream, NEW n \in Node, SubscribeAll(s, n)
  PROVE  Stores!SubscribeAll(s, n)
<1>1. /\ Subscribe(AllOf(s), n) /\ value' = value /\ writes' = writes
  BY DEF SubscribeAll
<1>2. AllOf(s) \in List  BY StreamFacts
<1>3. /\ Len(stack') = Len(stack)
      /\ \A i \in 1 .. Len(stack) :
           Publishes'[i] = Joined(Publishes[i], AllOf(s), n)
      /\ \A l \in List : Subscribers'[l] = IF l = AllOf(s)
                                           THEN Append(Subscribers[l], n)
                                           ELSE Subscribers[l]
      /\ ~Stores!Watches(n)
      /\ Stores!Outside \/ Stores!InCallback
  BY <1>1, <1>2, SubscriptionMade
<1>4. PICK G : G = [i \in DOMAIN WritesToTell |->
                      AllJoined(WritesToTell[i], s, n)]
  OBVIOUS
<1>5. DOMAIN WritesToTell = 1 .. Len(stack)  BY Zenon DEF Mapped
<1>6. ASSUME NEW i \in 1 .. Len(stack)
      PROVE  Tells(writes[i], Publishes'[i], Subscribers') = G[i]
  <2>1. PICK w, p, q, S, T, t :
          /\ w = writes[i] /\ p = Publishes[i] /\ q = Publishes'[i]
          /\ S = Subscribers /\ T = Subscribers' /\ t = WritesToTell[i]
    OBVIOUS
  <2>2. /\ w.stream \in Stream /\ w.key \in Key
        /\ p.event \in {On(w.stream, w.key), AllOf(w.stream)}
    BY <2>1, WriteFacts
  <2>3. q = Joined(p, AllOf(s), n)  BY <1>3, <2>1
  <2>4. T[AllOf(w.stream)] = IF w.stream = s THEN Append(S[AllOf(w.stream)], n)
                             ELSE S[AllOf(w.stream)]
    BY <1>3, <2>1, <2>2, StreamFacts, EventsApart
  <2>5. t = Tells(w, p, S)  BY <2>1, MappedFacts
  <2>6. Tells(w, q, T) = AllJoined(t, s, n)
    BY <2>2, <2>3, <2>4, <2>5, TellsAllSubscribed
  <2>7. G[i] = AllJoined(t, s, n)  BY <1>4, <1>5, <2>1
  <2>8. QED  BY <2>1, <2>6, <2>7
<1>7. WritesToTell' = G
  <2>1. \A i \in 1 .. Len(stack) : WritesToTell'[i] = G[i]
    BY <1>1, <1>3, <1>6, WatchedWrites
  <2>2. Indexed(G, Len(stack))  BY <1>4, <1>5 DEF Indexed
  <2>3. QED  BY <1>3, <2>1, <2>2, WritesChange
<1>8. PICK X : X = SubscribersOf[s]  OBVIOUS
<1>9. X = [k \in KeysOf(s) |-> Subscribers'[On(s, k)]]
  <2>1. \A k \in KeysOf(s) : Subscribers'[On(s, k)] = Subscribers[On(s, k)]
    BY <1>3, StreamFacts, EventsApart DEF KeysOf
  <2>2. X = [k \in KeysOf(s) |-> Subscribers[On(s, k)]]
    BY <1>8, Zenon DEF Mapped
  <2>3. QED  BY <2>1, <2>2, Zenon
<1>10. Subscribers'[AllOf(s)] = Append(SubscribersOfAll[s], n)
  <2>1. Subscribers'[AllOf(s)] = Append(Subscribers[AllOf(s)], n)
    BY <1>2, <1>3
  <2>2. QED  BY <2>1, Zenon DEF Mapped
<1>11. /\ SubscribersOf' = [SubscribersOf EXCEPT ![s] = X]
       /\ SubscribersOfAll'
            = [SubscribersOfAll EXCEPT ![s] = Append(SubscribersOfAll[s], n)]
  <2>1. ASSUME NEW r \in Stream, r # s, NEW l \in EventsOf(r)
        PROVE  Subscribers'[l] = Subscribers[l]
    <3>1. l \in List /\ AllOf(s) \in EventsOf(s)  BY StreamFacts
    <3>2. l # AllOf(s)  BY <2>1, <3>1, EventsApart
    <3>3. QED  BY <1>3, <3>1, <3>2
  <2>2. QED  BY <1>9, <1>10, <2>1, RowsChange
<1>12. SubscribersOf' = SubscribersOf
  <2>1. PICK c : c = SubscribersOf  OBVIOUS
  <2>2. c = [r \in Stream |-> [k \in KeysOf(r) |-> Subscribers[On(r, k)]]]
    BY <2>1, Zenon DEF Mapped
  <2>3. [c EXCEPT ![s] = c[s]] = c  BY <2>2
  <2>4. QED  BY <1>8, <1>11, <2>1, <2>3
<1>13. QED
  BY <1>1, <1>3, <1>4, <1>7, <1>11, <1>12, Zenon
     DEF AllJoined, Stores!SubscribeAll

\* Taking away who is not there changes nothing.
LEMMA NobodyRemoved ==
  ASSUME NEW s \in Seq(Node), NEW n, n \notin Range(s)
  PROVE  RemoveFirst(s, n) = s
<1>1. DOMAIN s = 1 .. Len(s)  OBVIOUS
<1>2. ~ \E i \in 1 .. Len(s) : s[i] = n  BY <1>1 DEF Range
<1>3. QED  BY <1>2 DEF RemoveFirst

LEMMA RestWithin ==
  ASSUME PublishInv, NEW i \in 1 .. Len(stack)
  PROVE  /\ Publishes[i].event \in List
         /\ Publishes[i].rest \in Seq(Node)
         /\ Range(Publishes[i].rest) \subseteq Linked(Publishes[i].event)
<1>1. PICK f, s, rest : /\ f = stack[i] /\ s = Contents[stack[i].event]
                        /\ rest = Publishes[i].rest
  OBVIOUS
<1>2. /\ Publishes[i].event = f.event /\ rest = RestOf(f, next)
  BY <1>1, PublishesFacts, TellingFacts
<1>3. /\ f.event \in List /\ s \in Seq(Node) /\ Linked(f.event) = Range(s)
      /\ f.calling \in BOOLEAN
  BY <1>1, PublishWalks, PublishFacts, ContentsFacts DEF PublishInv, EventTypeInv
<1>4. rest \in Seq(Node)  BY <1>1, <1>2, Remaining
<1>5. Range(rest) \subseteq Range(s)
  <2>1. CASE f.e = NULL
    <3>1. rest = <<>>  BY <1>1, <1>2, <2>1, Remaining
    <3>2. QED  BY <3>1 DEF Range
  <2>2. CASE f.e # NULL
    <3>1. PICK p \in 1 .. Len(s) : s[p] = f.e  BY <1>1, <2>2, Remaining
    <3>2. rest = Behind(s, IF f.calling THEN p+1 ELSE p)
      BY <1>1, <1>2, <3>1, Remaining
    <3>3. PICK q \in 1 .. Len(s) + 1 : rest = Behind(s, q)
      <4>1. (IF f.calling THEN p+1 ELSE p) \in 1 .. Len(s) + 1  BY <1>3
      <4>2. QED  BY <3>2, <4>1
    <3>4. /\ Len(rest) = Len(s) + 1 - q
          /\ \A j \in 1 .. Len(s) + 1 - q : rest[j] = s[q + j - 1]
      BY <1>3, <3>3, BehindFacts
    <3>5. \A j \in 1 .. Len(s) + 1 - q : q + j - 1 \in 1 .. Len(s)
      BY <1>3
    <3>6. DOMAIN rest = 1 .. Len(s) + 1 - q /\ DOMAIN s = 1 .. Len(s)
      BY <1>3, <1>4, <3>4
    <3>7. QED  BY <3>4, <3>5, <3>6 DEF Range
  <2>3. QED  BY <2>1, <2>2
<1>6. QED  BY <1>1, <1>2, <1>3, <1>4, <1>5

LEMMA StillTheSame ==
  ASSUME NEW p \in Told
  PROVE  Notifying!Still(p, p.rest) = p
BY DEF Told, Notifying!Still, Notifying!Telling

\* What the events make of the end of a subscription, seen from the writes.
LEMMA SubscriptionEnded ==
  ASSUME NoneUnderItself, WatchInv, Mapped,
         NEW s \in Stream, NEW n \in Node, UnsubscribeFrom(s, n)
  PROVE  /\ Len(stack') = Len(stack)
         /\ \A i \in 1 .. Len(stack) :
              Publishes'[i] = LeftBehind(Publishes[i], EventsOf(s), n)
         /\ \A l \in List :
              Subscribers'[l] = IF l \in EventsOf(s)
                                THEN RemoveFirst(Subscribers[l], n)
                                ELSE Subscribers[l]
         /\ Stores!Outside \/ Stores!InCallback
<1>1. /\ PublishInv /\ ListsInv /\ EventTypeOK /\ RamTypeOK /\ EventsOf(s) \subseteq List
      /\ DOMAIN Publishes = 1 .. Len(stack) /\ Publishes \in Seq(Told)
      /\ Len(Publishes) = Len(stack)
  BY WatchFacts, RamPieces, StreamFacts, PublishesFacts
<1>2. stack' = DueWithout(EventsOf(s), n) /\ MayUnsubscribe(n)
  BY DEF UnsubscribeFrom, UnsubscribedFrom, EventsSearched
<1>3. Len(stack') = Len(stack)  BY <1>1, <1>2, UnsubscribedStack
<1>4. \A l \in List : /\ Subscribers[l] \in Seq(Node)
                      /\ Linked(l) = Range(Subscribers[l])
  BY <1>1, ContentsFacts, SubscribersAre
<1>5. \A l \in List : n \notin Linked(l) =>
        RemoveFirst(Subscribers[l], n) = Subscribers[l]
  BY <1>4, NobodyRemoved
<1>6. ASSUME NEW i \in 1 .. Len(stack), n \notin Linked(Publishes[i].event)
      PROVE  Notifying!Still(Publishes[i], RemoveFirst(Publishes[i].rest, n))
               = Publishes[i]
  <2>1. PICK p \in Told : p = Publishes[i]  BY <1>1
  <2>2. p.rest \in Seq(Node) /\ n \notin Range(p.rest)
    BY <1>1, <1>6, <2>1, RestWithin
  <2>3. RemoveFirst(p.rest, n) = p.rest  BY <2>2, NobodyRemoved
  <2>4. QED  BY <2>1, <2>3, StillTheSame
<1>7. Outside \/ InCallback  BY <1>2 DEF MayUnsubscribe, Callback
<1>8. Stores!Outside \/ Stores!InCallback  BY <1>7, WhereWritesAre
<1>9. CASE \E l \in EventsOf(s) :
             /\ Unsubscribe(l, n)
             /\ \A m \in EventsOf(s) \ {l} : n \notin Linked(m)
  <2>1. PICK l \in EventsOf(s) :
          /\ Unsubscribe(l, n)
          /\ \A m \in EventsOf(s) \ {l} : n \notin Linked(m)
    BY <1>9
  <2>2. Notifying!Unsubscribe(l, n)  BY <1>1, <2>1, UnsubscribeTold
  <2>3. /\ Subscribers' = [Subscribers EXCEPT ![l] = RemoveFirst(Subscribers[l], n)]
        /\ \A i \in 1 .. Len(stack) :
             Publishes'[i] = IF Publishes[i].event = l
                             THEN Notifying!Still(Publishes[i],
                                    RemoveFirst(Publishes[i].rest, n))
                             ELSE Publishes[i]
    <3>1. Subscribers' = [Subscribers EXCEPT
                            ![l] = Notifying!RemoveFirst(Subscribers[l], n)]
      BY <2>2 DEF Notifying!Unsubscribe
    <3>2. Publishes' = [i \in DOMAIN Publishes |->
                          IF Publishes[i].event = l
                          THEN Notifying!Still(Publishes[i],
                                 Notifying!RemoveFirst(Publishes[i].rest, n))
                          ELSE Publishes[i]]
      BY <2>2 DEF Notifying!Unsubscribe
    <3>3. \A i \in 1 .. Len(stack) :
            Publishes'[i] = IF Publishes[i].event = l
                            THEN Notifying!Still(Publishes[i],
                                   Notifying!RemoveFirst(Publishes[i].rest, n))
                            ELSE Publishes[i]
      BY <1>1, <3>2, Zenon
    <3>4. QED  BY <3>1, <3>3, SameRemoval
  <2>4. \A m \in List :
          Subscribers'[m] = IF m \in EventsOf(s)
                            THEN RemoveFirst(Subscribers[m], n)
                            ELSE Subscribers[m]
    <3>1. DOMAIN Subscribers = List  BY DEF Subscribers
    <3>2. \A m \in List : Subscribers'[m] = IF m = l
                                            THEN RemoveFirst(Subscribers[m], n)
                                            ELSE Subscribers[m]
      BY <2>3, <3>1
    <3>3. QED  BY <1>1, <1>5, <2>1, <3>2
  <2>5. ASSUME NEW i \in 1 .. Len(stack)
        PROVE  Publishes'[i] = LeftBehind(Publishes[i], EventsOf(s), n)
    <3>1. CASE Publishes[i].event = l
      BY <2>1, <2>3, <3>1 DEF LeftBehind
    <3>2. CASE Publishes[i].event # l /\ Publishes[i].event \in EventsOf(s)
      <4>1. Publishes'[i] = Publishes[i]  BY <2>3, <3>2
      <4>2. n \notin Linked(Publishes[i].event)  BY <2>1, <3>2
      <4>3. QED  BY <1>6, <3>2, <4>1, <4>2 DEF LeftBehind
    <3>3. CASE Publishes[i].event \notin EventsOf(s)
      BY <2>1, <2>3, <3>3 DEF LeftBehind
    <3>4. QED  BY <3>1, <3>2, <3>3
  <2>6. QED  BY <1>3, <1>8, <2>4, <2>5
<1>10. CASE /\ UNCHANGED eventVars
            /\ \A m \in EventsOf(s) : n \notin Linked(m)
  <2>1. Subscribers' = Subscribers /\ Publishes' = Publishes
    BY <1>10 DEF eventVars, listVars, Subscribers, Publishes
  <2>2. ASSUME NEW i \in 1 .. Len(stack)
        PROVE  Publishes'[i] = LeftBehind(Publishes[i], EventsOf(s), n)
    BY <1>6, <1>10, <2>1 DEF LeftBehind
  <2>3. QED  BY <1>1, <1>3, <1>5, <1>8, <1>10, <2>1, <2>2
<1>11. QED  BY <1>1, <1>9, <1>10, UnsubscribesOnce

LEMMA WatchedRemoval ==
  ASSUME NEW s, NEW n
  PROVE  Stores!RemoveFirst(s, n) = RemoveFirst(s, n)
BY DEF RemoveFirst, Stores!RemoveFirst, SelectInSeq, Stores!SelectInSeq,
       RemoveAt, Stores!RemoveAt, Min, Stores!Min

LEMMA WatchedUnsubscribe ==
  ASSUME OwnConfigs, NoneUnderItself, WatchInv, Mapped, Mapped',
         NEW s \in Stream, NEW n \in Node, UnsubscribeFrom(s, n)
  PROVE  Stores!Unsubscribe(s, n)
<1>1. value' = value /\ writes' = writes
  BY DEF UnsubscribeFrom, UnsubscribedFrom
<1>2. /\ Len(stack') = Len(stack)
      /\ \A i \in 1 .. Len(stack) :
           Publishes'[i] = LeftBehind(Publishes[i], EventsOf(s), n)
      /\ \A l \in List : Subscribers'[l] = IF l \in EventsOf(s)
                                           THEN RemoveFirst(Subscribers[l], n)
                                           ELSE Subscribers[l]
      /\ Stores!Outside \/ Stores!InCallback
  BY SubscriptionEnded
<1>3. PICK G : G = [i \in DOMAIN WritesToTell |->
                      NobodyLeft(WritesToTell[i], s, n)]
  OBVIOUS
<1>4. DOMAIN WritesToTell = 1 .. Len(stack)  BY Zenon DEF Mapped
<1>5. ASSUME NEW i \in 1 .. Len(stack)
      PROVE  Tells(writes[i], Publishes'[i], Subscribers') = G[i]
  <2>1. PICK w, p, q, S, T, t :
          /\ w = writes[i] /\ p = Publishes[i] /\ q = Publishes'[i]
          /\ S = Subscribers /\ T = Subscribers' /\ t = WritesToTell[i]
    OBVIOUS
  <2>2. /\ w.stream \in Stream /\ w.key \in Key /\ HasKey(w.stream, w.key)
        /\ p.event \in {On(w.stream, w.key), AllOf(w.stream)}
    BY <2>1, WriteFacts
  <2>3. q = LeftBehind(p, EventsOf(s), n)  BY <1>2, <2>1
  <2>4. T[AllOf(w.stream)] = IF w.stream = s
                             THEN RemoveFirst(S[AllOf(w.stream)], n)
                             ELSE S[AllOf(w.stream)]
    <3>1. AllOf(w.stream) \in EventsOf(w.stream) /\ AllOf(w.stream) \in List
      BY <2>2, StreamFacts
    <3>2. AllOf(w.stream) \in EventsOf(s) <=> w.stream = s
      BY <2>2, <3>1, EventsApart
    <3>3. QED  BY <1>2, <2>1, <3>1, <3>2
  <2>5. t = Tells(w, p, S)  BY <2>1, MappedFacts
  <2>6. Tells(w, q, T) = NobodyLeft(t, s, n)
    BY <2>2, <2>3, <2>4, <2>5, TellsUnsubscribed
  <2>7. G[i] = NobodyLeft(t, s, n)  BY <1>3, <1>4, <2>1
  <2>8. QED  BY <2>1, <2>6, <2>7
<1>6. WritesToTell' = G
  <2>1. \A i \in 1 .. Len(stack) : WritesToTell'[i] = G[i]
    BY <1>1, <1>2, <1>5, WatchedWrites
  <2>2. Indexed(G, Len(stack))  BY <1>3, <1>4 DEF Indexed
  <2>3. QED  BY <1>2, <2>1, <2>2, WritesChange
<1>7. PICK X : X = [k \in KeysOf(s) |-> RemoveFirst(SubscribersOf[s][k], n)]
  OBVIOUS
<1>8. X = [k \in KeysOf(s) |-> Subscribers'[On(s, k)]]
  <2>1. \A k \in KeysOf(s) :
          Subscribers'[On(s, k)] = RemoveFirst(Subscribers[On(s, k)], n)
    BY <1>2, StreamFacts DEF KeysOf
  <2>2. \A k \in KeysOf(s) : SubscribersOf[s][k] = Subscribers[On(s, k)]
    BY Zenon DEF Mapped
  <2>3. QED  BY <1>7, <2>1, <2>2, Zenon
<1>9. Subscribers'[AllOf(s)] = RemoveFirst(SubscribersOfAll[s], n)
  <2>1. Subscribers'[AllOf(s)] = RemoveFirst(Subscribers[AllOf(s)], n)
    BY <1>2, StreamFacts
  <2>2. QED  BY <2>1, Zenon DEF Mapped
<1>10. /\ SubscribersOf' = [SubscribersOf EXCEPT ![s] = X]
       /\ SubscribersOfAll'
            = [SubscribersOfAll EXCEPT ![s] = RemoveFirst(SubscribersOfAll[s], n)]
  <2>1. ASSUME NEW r \in Stream, r # s, NEW l \in EventsOf(r)
        PROVE  Subscribers'[l] = Subscribers[l]
    <3>1. l \in List  BY StreamFacts
    <3>2. l \notin EventsOf(s)  BY <2>1, EventsApart
    <3>3. QED  BY <1>2, <3>1, <3>2
  <2>2. QED  BY <1>8, <1>9, <2>1, RowsChange
<1>11. /\ SubscribersOf'
            = [SubscribersOf EXCEPT ![s] =
                 [k \in [r \in Stream |-> KeysOf(r)][s] |->
                    Stores!RemoveFirst(SubscribersOf[s][k], n)]]
       /\ SubscribersOfAll'
            = [SubscribersOfAll EXCEPT ![s] =
                 Stores!RemoveFirst(SubscribersOfAll[s], n)]
  <2>1. [r \in Stream |-> KeysOf(r)][s] = KeysOf(s)  OBVIOUS
  <2>2. QED  BY <1>7, <1>10, <2>1, WatchedRemoval
<1>12. WritesToTell'
         = [i \in DOMAIN WritesToTell |->
              IF WritesToTell[i].store = s
              THEN Stores!Still(WritesToTell[i],
                     Stores!RemoveFirst(WritesToTell[i].rest, n),
                     Stores!RemoveFirst(WritesToTell[i].restAll, n))
              ELSE WritesToTell[i]]
  BY <1>3, <1>6, WatchedRemoval DEF NobodyLeft
<1>13. QED
  BY <1>1, <1>2, <1>11, <1>12, Zenon DEF Stores!Unsubscribe

\* Every step of the datastreams is one of the stores, or none.
LEMMA WatchedStep ==
  ASSUME OwnConfigs, NoneUnderItself, WatchInv, Mapped, Mapped',
         [RamNext]_ramVars
  PROVE  [Stores!Next]_watchedVars
<1>1. CASE Tell
  BY <1>1, WatchedTell DEF Stores!Next
<1>2. CASE CallbackReturns
  BY <1>2, WatchedReturn DEF Stores!Next
<1>3. CASE WriteReturns
  BY <1>3, WatchedDone DEF Stores!Next
<1>4. CASE WriteGoesOn
  BY <1>4, WatchedGoesOn
<1>5. ASSUME NEW s \in Stream, RamReinit(s)  PROVE Stores!Next
  BY <1>5, WatchedClear DEF Stores!Next
<1>6. ASSUME NEW s \in Stream, NEW k \in Key, NEW data \in Value,
             Write(s, k, data)
      PROVE  Stores!Next
  BY <1>6, WatchedWrite DEF Stores!Next
<1>7. ASSUME NEW s \in Stream, NEW n \in Node, NEW k \in Key,
             SubscribeKey(s, k, n)
      PROVE  Stores!Next
  BY <1>7, WatchedSubscribe DEF Stores!Next
<1>8. ASSUME NEW s \in Stream, NEW n \in Node, SubscribeAll(s, n)
      PROVE  Stores!Next
  BY <1>8, WatchedSubscribeAll DEF Stores!Next
<1>9. ASSUME NEW s \in Stream, NEW n \in Node, UnsubscribeFrom(s, n)
      PROVE  Stores!Next
  BY <1>9, WatchedUnsubscribe DEF Stores!Next
<1>10. CASE UNCHANGED ramVars
  <2>1. /\ UNCHANGED <<head, next, stack, value, writes>>
    BY <1>10 DEF ramVars, eventVars, listVars
  <2>2. WritesToTell' = WritesToTell  BY <2>1, Zenon DEF WritesToTell
  <2>3. SubscribersOf' = SubscribersOf /\ SubscribersOfAll' = SubscribersOfAll
    <3>1. Subscribers' = Subscribers  BY <2>1 DEF Subscribers
    <3>2. QED  BY <3>1, SubscribersMapped
  <2>4. QED  BY <2>1, <2>2, <2>3 DEF watchedVars
<1>11. ASSUME NEW s \in Stream, NEW k \in Key, NEW data \in Value,
              WriteWithoutEffect(s, k, data)
       PROVE  UNCHANGED ramVars
  BY <1>11 DEF WriteWithoutEffect
<1>12. QED
  BY <1>1, <1>2, <1>3, <1>4, <1>5, <1>6, <1>7, <1>8, <1>9, <1>10, <1>11
     DEF RamNext

\* Whatever the storage held, what is made of it is new stores.
LEMMA WatchedInit == RamInit => Stores!Init
<1>1. SUFFICES ASSUME RamInit PROVE Stores!Init  OBVIOUS
<1>2. value = Nothing  BY <1>1, ClearedIsZero DEF RamInit, Nothing, Zeroes
<1>3. DOMAIN stack = {}  BY <1>1 DEF RamInit, EventInit
<1>4. WritesToTell = <<>>  BY <1>3 DEF WritesToTell
<1>5. Mapped  BY <1>1, WatchStart, WatchIsMapped
<1>6. \A l \in List : Subscribers[l] = <<>>
  BY <1>1, ListsStart, SubscribersAre DEF RamInit, EventInit
<1>7. SubscribersOfAll = [s \in Stream |-> <<>>]
  <2>1. \A s \in Stream : Subscribers[AllOf(s)] = <<>>  BY <1>6, StreamFacts
  <2>2. SubscribersOfAll = [s \in Stream |-> Subscribers[AllOf(s)]]
    BY <1>5, Zenon DEF Mapped
  <2>3. QED  BY <2>1, <2>2, Zenon
<1>8. SubscribersOf = [s \in Stream |-> [k \in KeysOf(s) |-> <<>>]]
  <2>1. \A s \in Stream : \A k \in KeysOf(s) : Subscribers[On(s, k)] = <<>>
    BY <1>6, StreamFacts DEF KeysOf
  <2>2. SubscribersOf
          = [s \in Stream |-> [k \in KeysOf(s) |-> Subscribers[On(s, k)]]]
    BY <1>5, Zenon DEF Mapped
  <2>3. \A s \in Stream :
          [k \in KeysOf(s) |-> Subscribers[On(s, k)]] = [k \in KeysOf(s) |-> <<>>]
    BY <2>1, Zenon
  <2>4. QED  BY <2>2, <2>3, Zenon
<1>9. \A s \in Stream : [r \in Stream |-> KeysOf(r)][s] = KeysOf(s)  OBVIOUS
<1>10. QED
  BY <1>2, <1>4, <1>7, <1>8, <1>9 DEF Stores!Init, Nothing, Zeroes

\* However many datastreams, keys, subscriptions and nested writes there are:
\* two walks along links that callbacks change call whom the stores call, in
\* their order, with what was written.
THEOREM DatastreamsAreWatchedStores ==
  ASSUME OwnConfigs, NoneUnderItself
  PROVE  RamSpec => ImplementsWatchedStores
<1>1. RamInit => WatchInv /\ Stores!Init  BY WatchStart, WatchedInit
<1>2. WatchInv /\ [RamNext]_ramVars => WatchInv'  BY WatchStep
<1>3. WatchInv => Mapped  BY WatchIsMapped
<1>4. WatchInv /\ Mapped /\ Mapped' /\ [RamNext]_ramVars
        => [Stores!Next]_watchedVars
  BY WatchedStep
<1>5. QED
  BY <1>1, <1>2, <1>3, <1>4, PTL
     DEF RamSpec, ImplementsWatchedStores, Stores!Spec, Stores!vars, watchedVars
=============================================================================

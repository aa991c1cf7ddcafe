----------------------------- MODULE EventProofs ---------------------------
(***************************************************************************)
(* Proofs about events, for any number of events and subscriptions and     *)
(* calls of event_publish nested to any depth: the types, and, as long as  *)
(* no subscription that is being called is unsubscribed, that a publish    *)
(* calls nobody but subscribers, and all of them.                          *)
(***************************************************************************)
EXTENDS Event, LinkedListProofs

EventTypeInv == ListsInv /\ EventTypeOK

LEMMA Typed == EventTypeInv => EventTypeOK
BY DEF EventTypeInv

-----------------------------------------------------------------------------
\* A frame pushed onto the stack, the top one replaced, the top one popped.
LEMMA StackFacts ==
  ASSUME EventTypeOK
  PROVE  /\ stack \in Seq(Frame) /\ Len(stack) \in Nat
         /\ Len(stack) <= MaxDepth /\ MaxDepth \in Nat
<1>1. stack \in Seq(Frame) /\ Len(stack) <= MaxDepth
  BY Zenon DEF EventTypeOK
<1>2. MaxDepth \in Nat  BY EventConstants, Zenon
<1>3. Len(stack) \in Nat  BY <1>1
<1>4. QED  BY <1>1, <1>2, <1>3, Zenon

LEMMA PushFrame ==
  ASSUME EventTypeOK, NEW f \in Frame, stack' = Append(stack, f)
  PROVE  /\ stack' \in Seq(Frame) /\ Len(stack') = Len(stack) + 1
         /\ stack'[Len(stack) + 1] = f
         /\ \A i \in 1 .. Len(stack) : stack'[i] = stack[i]
<1>1. stack \in Seq(Frame)  BY StackFacts
<1>2. QED  BY <1>1

LEMMA TopFrame ==
  ASSUME EventTypeOK, stack # <<>>
  PROVE  /\ Len(stack) \in 1 .. Len(stack) /\ Top = stack[Len(stack)]
         /\ Top \in Frame /\ Top.event \in List /\ Top.e \in Pointer
         /\ Top.due \subseteq Node /\ (Top.calling => Top.e \in Node)
<1>1. stack \in Seq(Frame)  BY StackFacts
<1>2. Len(stack) \in 1 .. Len(stack) /\ Top = stack[Len(stack)]
  BY <1>1 DEF Top
<1>3. Top \in Frame  BY <1>1, <1>2
<1>4. Top.calling => Top.e # NULL
  BY <1>1, <1>2 DEF EventTypeOK
<1>5. QED  BY <1>2, <1>3, <1>4 DEF Frame, Pointer

LEMMA ReplaceTop ==
  ASSUME EventTypeOK, NEW f \in Frame, stack # <<>>,
         stack' = [stack EXCEPT ![Len(stack)] = f]
  PROVE  /\ stack' \in Seq(Frame) /\ Len(stack') = Len(stack)
         /\ stack'[Len(stack)] = f
         /\ \A i \in 1 .. Len(stack) - 1 : stack'[i] = stack[i]
<1>1. stack \in Seq(Frame) /\ Len(stack) \in 1 .. Len(stack)
  BY StackFacts, TopFrame
<1>2. QED  BY <1>1

LEMMA PopFrame ==
  ASSUME EventTypeOK, stack # <<>>,
         stack' = SubSeq(stack, 1, Len(stack) - 1)
  PROVE  /\ stack' \in Seq(Frame) /\ Len(stack') = Len(stack) - 1
         /\ \A i \in 1 .. Len(stack) - 1 : stack'[i] = stack[i]
<1>1. stack \in Seq(Frame) /\ Len(stack) \in Nat \ {0}
  BY StackFacts, TopFrame
<1>2. PICK k : k = Len(stack) - 1  OBVIOUS
<1>3. k \in Nat /\ k <= Len(stack)  BY <1>1, <1>2
<1>4. \A i \in 1 .. k : stack[i] \in Frame  BY <1>1, <1>3
<1>5. stack' \in Seq(Frame) /\ Len(stack') = k  BY <1>1, <1>2, <1>3, <1>4
<1>6. \A i \in 1 .. k : stack'[i] = stack[i]  BY <1>1, <1>2, <1>3
<1>7. QED  BY <1>1, <1>2, <1>5, <1>6

\* The last position of a sequence, and those below it.
LEMMA LastOrBelow ==
  ASSUME NEW m \in Nat
  PROVE  \A i \in 1 .. m : i = m \/ i \in 1 .. m - 1
OBVIOUS

\* What each step makes of the stack.
LEMMA FrameFields ==
  ASSUME NEW f \in Frame
  PROVE  /\ f.event \in List /\ f.e \in Pointer /\ f.calling \in BOOLEAN
         /\ f.due \in SUBSET Node
BY DEF Frame

LEMMA PublishingFacts ==
  ASSUME NEW event \in List, NEW e \in Pointer, NEW calling \in BOOLEAN,
         NEW due \in SUBSET Node
  PROVE  /\ Publishing(event, e, calling, due) \in Frame
         /\ Publishing(event, e, calling, due).event = event
         /\ Publishing(event, e, calling, due).e = e
         /\ Publishing(event, e, calling, due).calling = calling
         /\ Publishing(event, e, calling, due).due = due
BY DEF Publishing, Frame

LEMMA CallStack ==
  ASSUME EventTypeOK, Call
  PROVE  \E f \in Frame :
           /\ f = Publishing(Top.event, Top.e, TRUE, Top.due \ {Top.e})
           /\ stack' = [stack EXCEPT ![Len(stack)] = f]
<1>1. stack # <<>>  BY DEF Call, Walking
<1>2. Top \in Frame  BY <1>1, TopFrame
<1>3. ASSUME NEW g \in Frame
      PROVE  /\ Calling(g) = Publishing(g.event, g.e, TRUE, g.due \ {g.e})
             /\ Calling(g) \in Frame
  BY DEF Calling, Publishing, Frame
<1>4. stack' = [stack EXCEPT ![Len(stack)] = Calling(Top)]
  BY DEF Call, TopBecomes
<1>5. QED  BY <1>2, <1>3, <1>4

LEMMA ReturnStack ==
  ASSUME EventTypeOK, Return
  PROVE  \E f \in Frame :
           /\ f = Publishing(Top.event, next[Top.e], FALSE, Top.due)
           /\ stack' = [stack EXCEPT ![Len(stack)] = f]
<1>1. stack # <<>> /\ Top.calling  BY DEF Return, InCallback
<1>2. Top \in Frame /\ Top.e \in Node  BY <1>1, TopFrame
<1>3. next[Top.e] \in Pointer
  BY <1>2 DEF EventTypeOK, ListsTypeOK, Heap
<1>4. ASSUME NEW g \in Frame, NEW n \in Pointer
      PROVE  /\ MovedTo(n, g) = Publishing(g.event, n, FALSE, g.due)
             /\ MovedTo(n, g) \in Frame
  BY DEF MovedTo, Publishing, Frame
<1>5. stack' = [stack EXCEPT ![Len(stack)] = MovedTo(next[Top.e], Top)]
  BY DEF Return, TopBecomes
<1>6. QED  BY <1>2, <1>3, <1>4, <1>5

LEMMA BegunFrame ==
  ASSUME EventTypeOK, NEW event \in List
  PROVE  /\ Begun(event) = Publishing(event, head[event], FALSE, Linked(event))
         /\ Begun(event) \in Frame
<1>1. head[event] \in Pointer
  BY DEF EventTypeOK, ListsTypeOK
<1>2. Linked(event) \subseteq Node  BY DEF Linked, Reach
<1>3. QED  BY <1>1, <1>2 DEF Begun, Frame, Publishing

\* Subscribing and unsubscribing change what is due, and no iterator.
LEMMA OwingFrame ==
  ASSUME NEW f \in Frame, NEW D \in SUBSET Node
  PROVE  /\ Owing(D, f) \in Frame /\ Owing(D, f).event = f.event
         /\ Owing(D, f).e = f.e /\ Owing(D, f).calling = f.calling
         /\ Owing(D, f).due = D
BY DEF Owing, Publishing, Frame

LEMMA DueStack ==
  ASSUME EventTypeOK, NEW D \in [1 .. Len(stack) -> SUBSET Node],
         stack' = [i \in DOMAIN stack |-> Owing(D[i], stack[i])]
  PROVE  /\ stack' \in Seq(Frame) /\ Len(stack') = Len(stack)
         /\ \A i \in 1 .. Len(stack) :
              /\ stack'[i].event = stack[i].event /\ stack'[i].e = stack[i].e
              /\ stack'[i].calling = stack[i].calling
              /\ stack'[i].due = D[i]
<1>1. stack \in Seq(Frame)  BY StackFacts
<1>2. /\ DOMAIN stack = 1 .. Len(stack)
      /\ \A i \in 1 .. Len(stack) : stack[i] \in Frame
  BY <1>1
<1>3. \A i \in 1 .. Len(stack) : Owing(D[i], stack[i]) \in Frame
  BY <1>2, OwingFrame
<1>4. stack' \in [1 .. Len(stack) -> Frame]  BY <1>2, <1>3
<1>5. stack' \in Seq(Frame) /\ Len(stack') = Len(stack)
  BY <1>1, <1>2, <1>4
<1>6. QED  BY <1>2, <1>5, OwingFrame

\* The two ways in which what is due changes.
LEMMA SubscribedStack ==
  ASSUME EventTypeOK, NEW event \in List, NEW n \in Node,
         stack' = DueWith(event, n)
  PROVE  /\ stack' \in Seq(Frame) /\ Len(stack') = Len(stack)
         /\ \A i \in 1 .. Len(stack) :
              /\ stack'[i].event = stack[i].event /\ stack'[i].e = stack[i].e
              /\ stack'[i].calling = stack[i].calling
              /\ stack'[i].due = IF stack[i].event = event
                                 THEN stack[i].due \cup {n} ELSE stack[i].due
<1>1. PICK D : D = [i \in 1 .. Len(stack) |->
                      IF stack[i].event = event
                      THEN stack[i].due \cup {n} ELSE stack[i].due]
  OBVIOUS
<1>2. stack \in Seq(Frame) /\ DOMAIN stack = 1 .. Len(stack)
  BY StackFacts
<1>3. \A i \in 1 .. Len(stack) : stack[i].due \in SUBSET Node
  BY <1>2, FrameFields
<1>4. D \in [1 .. Len(stack) -> SUBSET Node]  BY <1>1, <1>3
<1>5. stack' = [i \in DOMAIN stack |-> Owing(D[i], stack[i])]
  BY <1>1, <1>2 DEF DueWith
<1>6. QED  BY <1>1, <1>4, <1>5, DueStack

LEMMA UnsubscribedStack ==
  ASSUME EventTypeOK, NEW events, NEW n \in Node,
         stack' = DueWithout(events, n)
  PROVE  /\ stack' \in Seq(Frame) /\ Len(stack') = Len(stack)
         /\ \A i \in 1 .. Len(stack) :
              /\ stack'[i].event = stack[i].event /\ stack'[i].e = stack[i].e
              /\ stack'[i].calling = stack[i].calling
              /\ stack'[i].due = IF stack[i].event \in events
                                 THEN stack[i].due \ {n} ELSE stack[i].due
<1>1. PICK D : D = [i \in 1 .. Len(stack) |->
                      IF stack[i].event \in events
                      THEN stack[i].due \ {n} ELSE stack[i].due]
  OBVIOUS
<1>2. stack \in Seq(Frame) /\ DOMAIN stack = 1 .. Len(stack)
  BY StackFacts
<1>3. \A i \in 1 .. Len(stack) : stack[i].due \in SUBSET Node
  BY <1>2, FrameFields
<1>4. D \in [1 .. Len(stack) -> SUBSET Node]  BY <1>1, <1>3
<1>5. stack' = [i \in DOMAIN stack |-> Owing(D[i], stack[i])]
  BY <1>1, <1>2 DEF DueWithout
<1>6. QED  BY <1>1, <1>4, <1>5, DueStack

-----------------------------------------------------------------------------
LEMMA EventStart == EventInit => EventTypeInv
<1>1. SUFFICES ASSUME EventInit PROVE EventTypeInv  OBVIOUS
<1>2. ListsInv  BY <1>1, ListsStart DEF EventInit
<1>3. stack = <<>>  BY <1>1 DEF EventInit
<1>4. stack \in Seq(Frame) /\ Len(stack) = 0 /\ DOMAIN stack = {}  BY <1>3
<1>5. MaxDepth \in Nat  BY EventConstants, Zenon
<1>6. Len(stack) <= MaxDepth  BY <1>4, <1>5
<1>7. QED
  BY <1>2, <1>4, <1>6, Zenon DEF EventTypeInv, EventTypeOK, ListsInv

\* A stack of frames is right when its calls are calls of somebody.
LEMMA TypeFromStack ==
  ASSUME ListsInv', stack' \in Seq(Frame), Len(stack') <= MaxDepth,
         \A i \in 1 .. Len(stack') : stack'[i].calling => stack'[i].e # NULL
  PROVE  EventTypeInv'
<1>1. DOMAIN stack' = 1 .. Len(stack')  OBVIOUS
<1>2. QED  BY <1>1, Zenon DEF EventTypeInv, EventTypeOK, ListsInv

LEMMA CallingFacts ==
  ASSUME EventTypeOK
  PROVE  \A i \in 1 .. Len(stack) : stack[i].calling => stack[i].e # NULL
<1>1. DOMAIN stack = 1 .. Len(stack)  BY StackFacts
<1>2. QED  BY <1>1 DEF EventTypeOK

\* The invariant for each of the ways in which the lists and the stack change;
\* what is built on events changes them in no other.
LEMMA ListsUntouched ==
  ASSUME ListsInv, UNCHANGED listVars
  PROVE  ListsInv' /\ Contents' = Contents
<1>1. [ListsNext]_listVars  BY Zenon
<1>2. QED  BY <1>1, ListsStep DEF listVars, Contents

LEMMA TypeTopReplaced ==
  ASSUME EventTypeInv, UNCHANGED listVars, stack # <<>>, NEW f \in Frame,
         stack' = [stack EXCEPT ![Len(stack)] = f], f.calling => f.e # NULL
  PROVE  EventTypeInv'
<1>1. ListsInv'  BY ListsUntouched DEF EventTypeInv
<1>2. /\ stack' \in Seq(Frame) /\ Len(stack') = Len(stack)
      /\ stack'[Len(stack)] = f
      /\ \A i \in 1 .. Len(stack) - 1 : stack'[i] = stack[i]
  BY Typed, ReplaceTop
<1>3. \A i \in 1 .. Len(stack) : stack[i].calling => stack[i].e # NULL
  BY Typed, CallingFacts
<1>4. Len(stack) \in Nat /\ Len(stack) <= MaxDepth  BY Typed, StackFacts
<1>5. \A i \in 1 .. Len(stack) : i = Len(stack) \/ i \in 1 .. Len(stack) - 1
  BY <1>4, LastOrBelow, Zenon
<1>6. \A i \in 1 .. Len(stack') : stack'[i].calling => stack'[i].e # NULL
  BY <1>2, <1>3, <1>5
<1>7. QED  BY <1>1, <1>2, <1>4, <1>6, TypeFromStack

LEMMA TypePopped ==
  ASSUME EventTypeInv, PublishReturns
  PROVE  EventTypeInv'
<1>1. /\ stack # <<>> /\ stack' = SubSeq(stack, 1, Len(stack) - 1)
      /\ UNCHANGED listVars
  BY DEF PublishReturns, Walking
<1>2. ListsInv'  BY <1>1, ListsUntouched DEF EventTypeInv
<1>3. /\ stack' \in Seq(Frame) /\ Len(stack') = Len(stack) - 1
      /\ \A i \in 1 .. Len(stack) - 1 : stack'[i] = stack[i]
  BY <1>1, Typed, PopFrame
<1>4. \A i \in 1 .. Len(stack) : stack[i].calling => stack[i].e # NULL
  BY Typed, CallingFacts
<1>5. QED  BY <1>2, <1>3, <1>4, Typed, StackFacts, TypeFromStack

LEMMA TypePublish ==
  ASSUME EventTypeInv, NEW event \in List, Publish(event)
  PROVE  EventTypeInv'
<1>1. PICK f : f = Begun(event)  OBVIOUS
<1>2. f \in Frame /\ f.calling = FALSE  BY <1>1, Typed, BegunFrame DEF Publishing
<1>3. stack' = Append(stack, f) /\ Len(stack) < MaxDepth /\ UNCHANGED listVars
  BY <1>1 DEF Publish
<1>4. ListsInv'  BY <1>3, ListsUntouched DEF EventTypeInv
<1>5. /\ stack' \in Seq(Frame) /\ Len(stack') = Len(stack) + 1
      /\ stack'[Len(stack) + 1] = f
      /\ \A i \in 1 .. Len(stack) : stack'[i] = stack[i]
  BY <1>2, <1>3, Typed, PushFrame
<1>6. \A i \in 1 .. Len(stack) : stack[i].calling => stack[i].e # NULL
  BY Typed, CallingFacts
<1>7. QED  BY <1>2, <1>3, <1>4, <1>5, <1>6, Typed, StackFacts, TypeFromStack

LEMMA TypeSameWalks ==
  ASSUME EventTypeInv, ListsInv', stack' \in Seq(Frame),
         Len(stack') = Len(stack),
         \A i \in 1 .. Len(stack) : /\ stack'[i].e = stack[i].e
                                    /\ stack'[i].calling = stack[i].calling
  PROVE  EventTypeInv'
BY Typed, StackFacts, CallingFacts, TypeFromStack

LEMMA TypeSubscribed ==
  ASSUME EventTypeInv, NEW event \in List, NEW n \in Node, Subscribed(event, n)
  PROVE  EventTypeInv'
<1>1. Push(event, n) /\ stack' = DueWith(event, n)  BY DEF Subscribed
<1>2. ListsInv'  BY <1>1, PushStep DEF EventTypeInv
<1>3. QED  BY <1>1, <1>2, Typed, SubscribedStack, TypeSameWalks

LEMMA TypeUnsubscribed ==
  ASSUME EventTypeInv, NEW events, NEW n \in Node, stack' = DueWithout(events, n),
         UNCHANGED listVars \/ \E event \in List : Delete(event, n)
  PROVE  EventTypeInv'
<1>1. ListsInv'  BY ListsUntouched, DeleteStep DEF EventTypeInv
<1>2. QED  BY <1>1, Typed, UnsubscribedStack, TypeSameWalks

LEMMA TypeCall ==
  ASSUME EventTypeInv, Call
  PROVE  EventTypeInv'
<1>1. stack # <<>> /\ Top.e # NULL /\ UNCHANGED listVars  BY DEF Call, Walking
<1>2. PICK f \in Frame :
        /\ f = Publishing(Top.event, Top.e, TRUE, Top.due \ {Top.e})
        /\ stack' = [stack EXCEPT ![Len(stack)] = f]
  BY Typed, CallStack
<1>3. f.e # NULL  BY <1>1, <1>2 DEF Publishing
<1>4. QED  BY <1>1, <1>2, <1>3, TypeTopReplaced

LEMMA TypeReturn ==
  ASSUME EventTypeInv, Return
  PROVE  EventTypeInv'
<1>1. stack # <<>> /\ UNCHANGED listVars  BY DEF Return, InCallback
<1>2. PICK f \in Frame :
        /\ f = Publishing(Top.event, next[Top.e], FALSE, Top.due)
        /\ stack' = [stack EXCEPT ![Len(stack)] = f]
  BY Typed, ReturnStack
<1>3. f.calling = FALSE  BY <1>2 DEF Publishing
<1>4. QED  BY <1>1, <1>2, <1>3, TypeTopReplaced

LEMMA EventStep == EventTypeInv /\ [EventNext]_eventVars => EventTypeInv'
<1>1. SUFFICES ASSUME EventTypeInv, [EventNext]_eventVars
               PROVE  EventTypeInv'
  OBVIOUS
<1>2. CASE Walk
  BY <1>1, <1>2, TypeCall, TypeReturn, TypePopped DEF Walk
<1>3. ASSUME NEW event \in List, Publish(event)  PROVE EventTypeInv'
  BY <1>1, <1>3, TypePublish
<1>4. ASSUME NEW event \in List, NEW n \in Node, Subscribe(event, n)
      PROVE  EventTypeInv'
  BY <1>1, <1>4, TypeSubscribed DEF Subscribe
<1>5. ASSUME NEW event \in List, NEW n \in Node, Unsubscribe(event, n)
      PROVE  EventTypeInv'
  BY <1>1, <1>5, TypeUnsubscribed DEF Unsubscribe
<1>6. ASSUME NEW event \in List, ReinitEvent(event)  PROVE EventTypeInv'
  <2>1. ListsInv'  BY <1>1, <1>6, ReinitStep DEF EventTypeInv, ReinitEvent
  <2>2. stack' = stack  BY <1>6 DEF ReinitEvent
  <2>3. QED  BY <1>1, <2>1, <2>2, Typed, StackFacts, TypeSameWalks
<1>7. CASE UNCHANGED eventVars
  <2>1. ListsInv'  BY <1>1, <1>7, ListsUntouched DEF EventTypeInv, eventVars
  <2>2. stack' = stack  BY <1>7 DEF eventVars
  <2>3. QED  BY <1>1, <2>1, <2>2, Typed, StackFacts, TypeSameWalks
<1>8. QED  BY <1>1, <1>2, <1>3, <1>4, <1>5, <1>6, <1>7 DEF EventNext

LEMMA EventInvariant == EventSpec => []EventTypeInv
BY EventStart, EventStep, PTL DEF EventSpec

\* The iterators and events of the calls of event_publish are what they should
\* be, and nobody is called through a null pointer, whatever callbacks do.
THEOREM EventTypeCorrect == EventSpec => []EventTypeOK
<1>1. EventTypeInv => EventTypeOK  BY DEF EventTypeInv
<1>2. QED  BY <1>1, EventInvariant, PTL

\* The subscriptions of every event are a chain that ends, and no event has
\* one of another.
THEOREM EventListsStayWellFormed ==
  EventSpec => [](ListsWellFormed /\ ListsDisjoint)
<1>1. EventTypeInv => ListsWellFormed /\ ListsDisjoint
  BY InvProperties DEF EventTypeInv
<1>2. QED  BY <1>1, EventInvariant, PTL

-----------------------------------------------------------------------------
(***************************************************************************)
(* The argument.  A call of event_publish stands on a subscription of its  *)
(* event, at position p of the sequence s its list holds, and what is due  *)
(* is from there on.  Subscribing appends to s; unsubscribing another      *)
(* subscription closes the gap it leaves, before or behind p.              *)
(***************************************************************************)
From(s, p) == {s[q] : q \in p .. Len(s)}

OnTheWay(f, s) ==
  /\ f.e = NULL => f.due = {}
  /\ f.e # NULL => \E p \in 1 .. Len(s) :
                      /\ s[p] = f.e
                      /\ f.due = From(s, IF f.calling THEN p+1 ELSE p)

\* The lists are chains, and every call but the innermost is calling somebody.
Chained ==
  \A l \in List : /\ Contents[l] \in Seq(Node)
                  /\ IsChain(Contents[l], head[l], next)

Walks ==
  /\ \A i \in 1 .. Len(stack) - 1 : stack[i].calling
  /\ \A i \in 1 .. Len(stack) : OnTheWay(stack[i], Contents[stack[i].event])

\* The lists may share nodes for all that the steps of a walk need.
WalkInv == EventTypeOK /\ Chained /\ Walks

PublishInv == EventTypeInv /\ Walks

LEMMA ListsChained == ListsInv => Chained
BY ContentsFacts DEF Chained

LEMMA PublishWalks == PublishInv => WalkInv
BY ListsChained, Typed DEF PublishInv, WalkInv, EventTypeInv

\* What is due is behind the position of a walk, or from there on.
LEMMA FromFacts ==
  ASSUME NEW s \in Seq(Node), NEW p \in 1 .. Len(s)
  PROVE  From(s, p) = {s[p]} \cup From(s, p+1)
<1>1. \A q : q \in p .. Len(s) <=> q = p \/ q \in p+1 .. Len(s)  OBVIOUS
<1>2. QED  BY <1>1 DEF From

LEMMA NotBehindItself ==
  ASSUME NEW s \in Seq(Node), IsInjective(s), NEW p \in 1 .. Len(s)
  PROVE  s[p] \notin From(s, p+1)
<1>1. ASSUME NEW q \in p+1 .. Len(s)  PROVE s[q] # s[p]
  <2>1. q \in DOMAIN s /\ p \in DOMAIN s /\ q # p  OBVIOUS
  <2>2. QED  BY <2>1 DEF IsInjective
<1>2. QED  BY <1>1 DEF From

LEMMA WayBegins ==
  ASSUME NEW h, NEW nx, NEW s \in Seq(Node), IsChain(s, h, nx),
         NEW g, g.e = h, g.calling = FALSE, g.due = Range(s)
  PROVE  OnTheWay(g, s)
<1>1. CASE h = NULL
  <2>1. s = <<>>
    <3>1. s # <<>> => s[1] \in Node  OBVIOUS
    <3>2. QED  BY <1>1, <3>1, NullAssumption DEF IsChain
  <2>2. Range(s) = {}  BY <2>1 DEF Range
  <2>3. QED  BY <1>1, <2>2 DEF OnTheWay
<1>2. CASE h # NULL
  <2>1. 1 \in 1 .. Len(s) /\ s[1] = h  BY <1>2 DEF IsChain
  <2>2. Range(s) = From(s, 1)  BY DEF Range, From
  <2>3. QED  BY <1>2, <2>1, <2>2 DEF OnTheWay
<1>3. QED  BY <1>1, <1>2

LEMMA WayCalls ==
  ASSUME NEW s \in Seq(Node), IsInjective(s),
         NEW f, f.e # NULL, f.calling = FALSE, OnTheWay(f, s),
         NEW g, g.e = f.e, g.calling = TRUE, g.due = f.due \ {f.e}
  PROVE  OnTheWay(g, s)
<1>1. PICK p \in 1 .. Len(s) : s[p] = f.e /\ f.due = From(s, p)
  BY DEF OnTheWay
<1>2. From(s, p) \ {s[p]} = From(s, p+1)  BY FromFacts, NotBehindItself
<1>3. g.due = From(s, p+1)  BY <1>1, <1>2
<1>4. QED  BY <1>1, <1>3 DEF OnTheWay

LEMMA WayGoesOn ==
  ASSUME NEW h, NEW nx, NEW s \in Seq(Node), IsChain(s, h, nx),
         NEW f, f.e # NULL, f.calling = TRUE, OnTheWay(f, s),
         NEW g, g.e = nx[f.e], g.calling = FALSE, g.due = f.due
  PROVE  OnTheWay(g, s)
<1>1. PICK p \in 1 .. Len(s) : s[p] = f.e /\ f.due = From(s, p+1)
  BY DEF OnTheWay
<1>2. CASE p = Len(s)
  <2>1. From(s, p+1) = {}  BY <1>2 DEF From
  <2>2. g.e = NULL  BY <1>1, <1>2 DEF IsChain
  <2>3. QED  BY <1>1, <2>1, <2>2 DEF OnTheWay
<1>3. CASE p < Len(s)
  <2>1. p+1 \in 1 .. Len(s) /\ g.e = s[p+1]  BY <1>1, <1>3 DEF IsChain
  <2>2. g.e # NULL  BY <2>1, NullAssumption
  <2>3. QED  BY <1>1, <2>1, <2>2 DEF OnTheWay
<1>4. QED  BY <1>1, <1>2, <1>3

LEMMA WayAppended ==
  ASSUME NEW s \in Seq(Node), NEW n \in Node,
         NEW f, f.e # NULL, OnTheWay(f, s), f.calling \in BOOLEAN,
         NEW g, g.e = f.e, g.calling = f.calling, g.due = f.due \cup {n}
  PROVE  OnTheWay(g, Append(s, n))
<1>1. PICK t : t = Append(s, n)  OBVIOUS
<1>2. /\ t \in Seq(Node) /\ Len(t) = Len(s) + 1 /\ t[Len(s) + 1] = n
      /\ \A i \in 1 .. Len(s) : t[i] = s[i]
  BY <1>1
<1>3. PICK p \in 1 .. Len(s) :
        /\ s[p] = f.e
        /\ f.due = From(s, IF f.calling THEN p+1 ELSE p)
  BY DEF OnTheWay
<1>4. PICK k : k = IF f.calling THEN p+1 ELSE p  OBVIOUS
<1>5. k \in Nat /\ k >= 1 /\ k <= Len(s) + 1  BY <1>4
<1>6. From(s, k) \cup {n} = From(t, k)
  <2>1. \A q : q \in k .. Len(t) <=> q = Len(t) \/ q \in k .. Len(s)
    BY <1>2, <1>5
  <2>2. \A q \in k .. Len(s) : t[q] = s[q]  BY <1>2, <1>5
  <2>3. QED  BY <1>2, <2>1, <2>2 DEF From
<1>7. p \in 1 .. Len(t) /\ t[p] = g.e /\ g.due = From(t, k)
  BY <1>2, <1>3, <1>4, <1>6
<1>8. QED  BY <1>1, <1>4, <1>7 DEF OnTheWay

LEMMA WayClosesGap ==
  ASSUME NEW s \in Seq(Node), IsInjective(s), NEW i \in 1 .. Len(s),
         NEW f, f.e # NULL, OnTheWay(f, s), f.e # s[i], f.calling \in BOOLEAN,
         NEW g, g.e = f.e, g.calling = f.calling, g.due = f.due \ {s[i]}
  PROVE  OnTheWay(g, RemoveAt(s, i))
<1>1. PICK t : t = RemoveAt(s, i)  OBVIOUS
<1>2. /\ t \in Seq(Node) /\ Len(t) = Len(s) - 1
      /\ \A j \in 1 .. Len(s) - 1 : t[j] = IF j < i THEN s[j] ELSE s[j+1]
  BY <1>1, RemoveAtProperties
<1>3. PICK p \in 1 .. Len(s) :
        /\ s[p] = f.e
        /\ f.due = From(s, IF f.calling THEN p+1 ELSE p)
  BY DEF OnTheWay
<1>4. PICK r : r = IF p < i THEN p ELSE p-1  OBVIOUS
<1>5. p # i /\ r \in 1 .. Len(t) /\ t[r] = s[p]  BY <1>2, <1>3, <1>4
<1>6. PICK k : k = IF f.calling THEN 1 ELSE 0  OBVIOUS
<1>7. ASSUME NEW q \in p+k .. Len(s), s[q] # s[i]
      PROVE  s[q] \in From(t, r+k)
  <2>1. PICK m : m = IF q < i THEN q ELSE q-1  OBVIOUS
  <2>2. k \in 0 .. 1 /\ q \in 1 .. Len(s) /\ p+k <= q  BY <1>6
  <2>3. q # i  BY <1>7
  <2>4. m \in 1 .. Len(s) - 1 /\ r+k <= m
    BY <1>4, <1>5, <2>1, <2>2, <2>3
  <2>5. t[m] = s[q]  BY <1>2, <2>1, <2>2, <2>3, <2>4
  <2>6. m \in r+k .. Len(t)  BY <1>2, <1>5, <2>2, <2>4
  <2>7. QED  BY <2>5, <2>6 DEF From
<1>8. ASSUME NEW m \in r+k .. Len(t)
      PROVE  t[m] \in From(s, p+k) /\ t[m] # s[i]
  <2>1. PICK q : q = IF m < i THEN m ELSE m+1  OBVIOUS
  <2>2. k \in 0 .. 1 /\ m \in 1 .. Len(s) - 1 /\ r+k <= m
    BY <1>2, <1>5, <1>6
  <2>3. q \in 1 .. Len(s) /\ p+k <= q /\ q # i
    BY <1>4, <1>5, <2>1, <2>2
  <2>4. t[m] = s[q]  BY <1>2, <2>1, <2>2
  <2>5. q \in p+k .. Len(s)  BY <2>2, <2>3
  <2>6. s[q] # s[i]  BY <2>3 DEF IsInjective
  <2>7. QED  BY <2>4, <2>5, <2>6 DEF From
<1>9. g.due = From(t, r+k)
  <2>1. f.due = From(s, p+k)  BY <1>3, <1>6
  <2>2. g.due \subseteq From(t, r+k)  BY <1>7, <2>1 DEF From
  <2>3. From(t, r+k) \subseteq g.due  BY <1>8, <2>1 DEF From
  <2>4. QED  BY <2>2, <2>3
<1>10. r+k = IF g.calling THEN r+1 ELSE r  BY <1>5, <1>6
<1>11. QED  BY <1>1, <1>3, <1>5, <1>9, <1>10 DEF OnTheWay

-----------------------------------------------------------------------------
\* A callback does not unsubscribe the subscription it is called for, nor one
\* an outer event_publish is calling.
NoneUnderItself == CallbackOps \subseteq {"subscribe", "unsubscribe others"}

\* What the steps find.
LEMMA PublishFacts ==
  ASSUME WalkInv, NEW i \in 1 .. Len(stack)
  PROVE  /\ stack[i] \in Frame /\ stack[i].event \in List
         /\ stack[i].e \in Pointer /\ stack[i].calling \in BOOLEAN
         /\ stack[i].calling => stack[i].e # NULL
         /\ stack[i].due \in SUBSET Node
         /\ OnTheWay(stack[i], Contents[stack[i].event])
         /\ Contents[stack[i].event] \in Seq(Node)
         /\ IsChain(Contents[stack[i].event], head[stack[i].event], next)
<1>1. EventTypeOK /\ stack \in Seq(Frame)  BY StackFacts DEF WalkInv
<1>2. stack[i] \in Frame  BY <1>1
<1>3. stack[i].calling => stack[i].e # NULL  BY <1>1, CallingFacts
<1>4. stack[i].event \in List  BY <1>2, FrameFields
<1>5. /\ Contents[stack[i].event] \in Seq(Node)
      /\ IsChain(Contents[stack[i].event], head[stack[i].event], next)
  BY <1>4 DEF WalkInv, Chained
<1>6. OnTheWay(stack[i], Contents[stack[i].event])  BY DEF WalkInv, Walks
<1>7. QED  BY <1>2, <1>3, <1>5, <1>6, FrameFields

\* When a callback, or the program, may change the lists, every call of
\* event_publish under way is calling somebody.
LEMMA AllAreCalling ==
  ASSUME WalkInv, Outside \/ InCallback
  PROVE  \A i \in 1 .. Len(stack) : stack[i].calling
<1>1. stack \in Seq(Frame) /\ Len(stack) \in Nat
  BY StackFacts DEF WalkInv
<1>2. CASE Outside  BY <1>1, <1>2 DEF Outside
<1>3. CASE InCallback
  <2>1. stack[Len(stack)].calling  BY <1>3 DEF InCallback, Top
  <2>2. \A i \in 1 .. Len(stack) - 1 : stack[i].calling  BY DEF WalkInv, Walks
  <2>3. \A i \in 1 .. Len(stack) : i = Len(stack) \/ i \in 1 .. Len(stack) - 1
    BY <1>1
  <2>4. QED  BY <2>1, <2>2, <2>3
<1>4. QED  BY <1>2, <1>3

LEMMA PublishStart == EventInit => PublishInv
<1>1. SUFFICES ASSUME EventInit PROVE PublishInv  OBVIOUS
<1>2. EventTypeInv  BY <1>1, EventStart
<1>3. stack = <<>>  BY <1>1 DEF EventInit
<1>4. Len(stack) = 0  BY <1>3
<1>5. QED  BY <1>2, <1>4 DEF PublishInv, Walks

\* The walks of the next state.
LEMMA WalksNext ==
  ASSUME \A i \in 1 .. Len(stack') - 1 : stack'[i].calling,
         \A i \in 1 .. Len(stack') :
           OnTheWay(stack'[i], Contents'[stack'[i].event])
  PROVE  Walks'
BY Zenon DEF Walks

LEMMA SameContents ==
  ASSUME UNCHANGED listVars
  PROVE  Contents' = Contents /\ (Chained => Chained')
<1>1. head' = head /\ next' = next  BY DEF listVars
<1>2. Contents' = Contents  BY <1>1 DEF Contents
<1>3. QED  BY <1>1, <1>2 DEF Chained

LEMMA WalkTop ==
  ASSUME WalkInv, UNCHANGED listVars, stack # <<>>, NEW f \in Frame,
         stack' = [stack EXCEPT ![Len(stack)] = f],
         OnTheWay(f, Contents[f.event])
  PROVE  Walks'
<1>1. EventTypeOK /\ Len(stack) \in Nat  BY StackFacts DEF WalkInv
<1>2. /\ Len(stack') = Len(stack) /\ stack'[Len(stack)] = f
      /\ \A i \in 1 .. Len(stack) - 1 : stack'[i] = stack[i]
  BY <1>1, ReplaceTop
<1>3. Contents' = Contents  BY SameContents
<1>4. /\ \A i \in 1 .. Len(stack) - 1 : i \in 1 .. Len(stack)
      /\ \A i \in 1 .. Len(stack) : i = Len(stack) \/ i \in 1 .. Len(stack) - 1
  BY <1>1
<1>5. /\ \A i \in 1 .. Len(stack) - 1 : stack[i].calling
      /\ \A i \in 1 .. Len(stack) : OnTheWay(stack[i], Contents[stack[i].event])
  BY DEF WalkInv, Walks
<1>6. /\ \A i \in 1 .. Len(stack') - 1 : stack'[i].calling
      /\ \A i \in 1 .. Len(stack') :
           OnTheWay(stack'[i], Contents'[stack'[i].event])
  BY <1>2, <1>3, <1>4, <1>5, Zenon
<1>7. QED  BY <1>6, WalksNext

LEMMA WalkCall ==
  ASSUME WalkInv, Call
  PROVE  Walks'
<1>1. EventTypeOK  BY DEF WalkInv
<1>2. /\ stack # <<>> /\ ~Top.calling /\ Top.e # NULL /\ UNCHANGED listVars
  BY DEF Call, Walking
<1>3. PICK f \in Frame :
        /\ f = Publishing(Top.event, Top.e, TRUE, Top.due \ {Top.e})
        /\ stack' = [stack EXCEPT ![Len(stack)] = f]
  BY <1>1, CallStack
<1>4. /\ f.event = Top.event /\ f.e = Top.e /\ f.calling = TRUE
      /\ f.due = Top.due \ {Top.e}
  BY <1>3 DEF Publishing
<1>5. Len(stack) \in 1 .. Len(stack) /\ Top = stack[Len(stack)]
  BY <1>1, <1>2, TopFrame
<1>6. PICK s : s = Contents[Top.event]  OBVIOUS
<1>7. /\ s \in Seq(Node) /\ OnTheWay(Top, s) /\ Top.calling = FALSE
      /\ IsChain(s, head[Top.event], next)
  BY <1>2, <1>5, <1>6, PublishFacts
<1>8. IsInjective(s)  BY <1>7 DEF IsChain
<1>9. OnTheWay(f, s)  BY <1>2, <1>4, <1>7, <1>8, WayCalls
<1>10. QED  BY <1>2, <1>3, <1>4, <1>6, <1>9, WalkTop

LEMMA WalkReturn ==
  ASSUME WalkInv, Return
  PROVE  Walks'
<1>1. EventTypeOK  BY DEF WalkInv
<1>2. stack # <<>> /\ Top.calling /\ UNCHANGED listVars
  BY DEF Return, InCallback
<1>3. PICK f \in Frame :
        /\ f = Publishing(Top.event, next[Top.e], FALSE, Top.due)
        /\ stack' = [stack EXCEPT ![Len(stack)] = f]
  BY <1>1, ReturnStack
<1>4. /\ f.event = Top.event /\ f.e = next[Top.e] /\ f.calling = FALSE
      /\ f.due = Top.due
  BY <1>3 DEF Publishing
<1>5. Len(stack) \in 1 .. Len(stack) /\ Top = stack[Len(stack)]
  BY <1>1, <1>2, TopFrame
<1>6. PICK s : s = Contents[Top.event]  OBVIOUS
<1>7. /\ s \in Seq(Node) /\ OnTheWay(Top, s) /\ Top.calling = TRUE
      /\ IsChain(s, head[Top.event], next) /\ Top.e # NULL
  BY <1>2, <1>5, <1>6, PublishFacts
<1>8. OnTheWay(f, s)  BY <1>4, <1>7, WayGoesOn
<1>9. QED  BY <1>2, <1>3, <1>4, <1>6, <1>8, WalkTop

LEMMA WalkPopped ==
  ASSUME WalkInv, PublishReturns
  PROVE  Walks'
<1>1. EventTypeOK /\ Len(stack) \in Nat  BY StackFacts DEF WalkInv
<1>2. /\ stack # <<>> /\ stack' = SubSeq(stack, 1, Len(stack) - 1)
      /\ UNCHANGED listVars
  BY DEF PublishReturns, Walking
<1>3. /\ Len(stack') = Len(stack) - 1
      /\ \A i \in 1 .. Len(stack) - 1 : stack'[i] = stack[i]
  BY <1>1, <1>2, PopFrame
<1>4. /\ \A i \in 1 .. Len(stack') - 1 : i \in 1 .. Len(stack) - 1
      /\ \A i \in 1 .. Len(stack) - 1 : i \in 1 .. Len(stack)
  BY <1>1, <1>3
<1>5. Contents' = Contents  BY <1>2, SameContents
<1>6. /\ \A i \in 1 .. Len(stack) - 1 : stack[i].calling
      /\ \A i \in 1 .. Len(stack) : OnTheWay(stack[i], Contents[stack[i].event])
  BY DEF WalkInv, Walks
<1>7. /\ \A i \in 1 .. Len(stack') - 1 : stack'[i].calling
      /\ \A i \in 1 .. Len(stack') :
           OnTheWay(stack'[i], Contents'[stack'[i].event])
  BY <1>3, <1>4, <1>5, <1>6, Zenon
<1>8. QED  BY <1>7, WalksNext

\* A walk that begins at the head of the list has all of it to go.
LEMMA BegunOnTheWay ==
  ASSUME EventTypeOK, Chained, NEW event \in List
  PROVE  OnTheWay(Begun(event), Contents[event])
<1>1. PICK f : f = Begun(event)  OBVIOUS
<1>2. PICK s : s = Contents[event]  OBVIOUS
<1>3. s \in Seq(Node) /\ IsChain(s, head[event], next)
  BY <1>2 DEF Chained
<1>4. Linked(event) = Range(s)  BY <1>3, ReachChain DEF Linked
<1>5. f.e = head[event] /\ f.calling = FALSE /\ f.due = Range(s)
  BY <1>1, <1>4, BegunFrame DEF Publishing
<1>6. QED  BY <1>1, <1>2, <1>3, <1>5, WayBegins

LEMMA WalkPublish ==
  ASSUME WalkInv, NEW event \in List, Publish(event)
  PROVE  Walks'
<1>1. EventTypeOK /\ Chained /\ Len(stack) \in Nat  BY StackFacts DEF WalkInv
<1>2. PICK f : f = Begun(event)  OBVIOUS
<1>3. f \in Frame /\ f.event = event  BY <1>1, <1>2, BegunFrame DEF Publishing
<1>4. /\ stack' = Append(stack, f) /\ UNCHANGED listVars
      /\ Outside \/ InCallback
  BY <1>2 DEF Publish
<1>5. /\ Len(stack') = Len(stack) + 1 /\ stack'[Len(stack) + 1] = f
      /\ \A i \in 1 .. Len(stack) : stack'[i] = stack[i]
  BY <1>1, <1>3, <1>4, PushFrame
<1>6. OnTheWay(f, Contents[f.event])  BY <1>1, <1>2, <1>3, BegunOnTheWay
<1>7. \A i \in 1 .. Len(stack) : stack[i].calling  BY <1>4, AllAreCalling
<1>8. /\ \A i \in 1 .. Len(stack') - 1 : i \in 1 .. Len(stack)
      /\ \A i \in 1 .. Len(stack') : i = Len(stack) + 1 \/ i \in 1 .. Len(stack)
  BY <1>1, <1>5
<1>9. Contents' = Contents  BY <1>4, SameContents
<1>10. \A i \in 1 .. Len(stack) : OnTheWay(stack[i], Contents[stack[i].event])
  BY DEF WalkInv, Walks
<1>11. /\ \A i \in 1 .. Len(stack') - 1 : stack'[i].calling
       /\ \A i \in 1 .. Len(stack') :
            OnTheWay(stack'[i], Contents'[stack'[i].event])
  BY <1>5, <1>6, <1>7, <1>8, <1>9, <1>10, Zenon
<1>12. QED  BY <1>11, WalksNext

\* Subscribing: the newcomer is behind everybody.
LEMMA WalkSubscribed ==
  ASSUME WalkInv, Outside \/ InCallback, NEW event \in List, NEW n \in Node,
         Contents' = [Contents EXCEPT ![event] = Append(Contents[event], n)],
         stack' = DueWith(event, n)
  PROVE  Walks'
<1>1. EventTypeOK  BY DEF WalkInv
<1>2. \A i \in 1 .. Len(stack) : stack[i].calling  BY AllAreCalling
<1>3. /\ Len(stack) \in Nat /\ Len(stack') = Len(stack)
      /\ \A i \in 1 .. Len(stack) :
           /\ stack'[i].event = stack[i].event /\ stack'[i].e = stack[i].e
           /\ stack'[i].calling = stack[i].calling
           /\ stack'[i].due = IF stack[i].event = event
                              THEN stack[i].due \cup {n} ELSE stack[i].due
  BY <1>1, SubscribedStack, StackFacts
<1>4. ASSUME NEW i \in 1 .. Len(stack)
      PROVE  OnTheWay(stack'[i], Contents'[stack'[i].event])
  <2>1. PICK s : s = Contents[stack[i].event]  OBVIOUS
  <2>2. /\ s \in Seq(Node) /\ stack[i].e # NULL /\ OnTheWay(stack[i], s)
        /\ stack[i].event \in List /\ stack[i].calling \in BOOLEAN
    BY <1>2, <2>1, PublishFacts
  <2>3. CASE stack[i].event = event
    <3>1. Contents'[event] = Append(s, n)  BY <2>1, <2>3 DEF Contents
    <3>2. stack'[i].due = stack[i].due \cup {n}  BY <1>3, <2>3
    <3>3. OnTheWay(stack'[i], Append(s, n))
      BY <1>3, <2>2, <3>2, WayAppended
    <3>4. QED  BY <1>3, <2>3, <3>1, <3>3
  <2>4. CASE stack[i].event # event
    <3>1. Contents'[stack[i].event] = s  BY <2>1, <2>2, <2>4 DEF Contents
    <3>2. /\ stack'[i].due = stack[i].due /\ stack'[i].e = stack[i].e
          /\ stack'[i].calling = stack[i].calling
      BY <1>3, <2>4
    <3>3. QED  BY <1>3, <2>2, <3>1, <3>2 DEF OnTheWay
  <2>5. QED  BY <2>3, <2>4
<1>5. \A i \in 1 .. Len(stack) - 1 : i \in 1 .. Len(stack)  BY <1>3
<1>6. \A i \in 1 .. Len(stack) - 1 : stack'[i].calling
  BY <1>2, <1>3, <1>5, Zenon
<1>7. QED  BY <1>3, <1>4, <1>6, WalksNext

\* Unsubscribing: the gap is not where a call of event_publish stands.  A list
\* that is searched has lost n or never had it; the others are as before.
TakenFrom(events, n) ==
  \A l \in List :
    \/ Contents'[l] = Contents[l] /\ (l \in events => n \notin Range(Contents[l]))
    \/ /\ l \in events
       /\ \E j \in 1 .. Len(Contents[l]) :
            Contents[l][j] = n /\ Contents'[l] = RemoveAt(Contents[l], j)

LEMMA WalkUnsubscribed ==
  ASSUME WalkInv, NEW events \in SUBSET List, NEW n \in Node,
         Outside \/ (InCallback /\ n \notin InFlight),
         TakenFrom(events, n), stack' = DueWithout(events, n)
  PROVE  Walks'
<1>1. EventTypeOK  BY DEF WalkInv
<1>2. \A i \in 1 .. Len(stack) : stack[i].calling  BY AllAreCalling
<1>3. /\ Len(stack) \in Nat /\ Len(stack') = Len(stack)
      /\ \A i \in 1 .. Len(stack) :
           /\ stack'[i].event = stack[i].event /\ stack'[i].e = stack[i].e
           /\ stack'[i].calling = stack[i].calling
           /\ stack'[i].due = IF stack[i].event \in events
                              THEN stack[i].due \ {n} ELSE stack[i].due
  BY <1>1, UnsubscribedStack, StackFacts
<1>4. \A i \in 1 .. Len(stack) : stack[i].e # n
  <2>1. stack \in Seq(Frame)  BY <1>1, StackFacts
  <2>2. CASE Outside  BY <2>2 DEF Outside
  <2>3. CASE n \notin InFlight  BY <2>1, <2>3 DEF InFlight
  <2>4. QED  BY <2>2, <2>3
<1>5. ASSUME NEW i \in 1 .. Len(stack)
      PROVE  OnTheWay(stack'[i], Contents'[stack'[i].event])
  <2>1. PICK s : s = Contents[stack[i].event]  OBVIOUS
  <2>2. /\ s \in Seq(Node) /\ stack[i].e # NULL /\ OnTheWay(stack[i], s)
        /\ stack[i].event \in List /\ stack[i].calling \in BOOLEAN
        /\ IsChain(s, head[stack[i].event], next)
    BY <1>2, <2>1, PublishFacts
  <2>3. PICK p \in 1 .. Len(s) :
          stack[i].due = From(s, IF stack[i].calling THEN p+1 ELSE p)
    BY <2>2 DEF OnTheWay
  <2>4. stack[i].due \subseteq Range(s)  BY <2>2, <2>3 DEF From, Range
  <2>5. CASE /\ Contents'[stack[i].event] = s
             /\ stack[i].event \in events => n \notin Range(s)
    <3>1. stack'[i].due = stack[i].due  BY <1>3, <2>4, <2>5
    <3>2. QED  BY <1>3, <2>2, <2>5, <3>1 DEF OnTheWay
  <2>6. ASSUME stack[i].event \in events, NEW j \in 1 .. Len(s), s[j] = n,
               Contents'[stack[i].event] = RemoveAt(s, j)
        PROVE  OnTheWay(stack'[i], Contents'[stack'[i].event])
    <3>1. stack'[i].due = stack[i].due \ {s[j]}  BY <1>3, <2>6
    <3>2. stack[i].e # s[j]  BY <1>4, <2>6
    <3>3. IsInjective(s)  BY <2>2 DEF IsChain
    <3>4. OnTheWay(stack'[i], RemoveAt(s, j))
      BY <1>3, <2>2, <3>1, <3>2, <3>3, WayClosesGap
    <3>5. QED  BY <1>3, <2>6, <3>4
  <2>7. QED  BY <2>1, <2>2, <2>5, <2>6 DEF TakenFrom
<1>6. \A i \in 1 .. Len(stack) - 1 : i \in 1 .. Len(stack)  BY <1>3
<1>7. \A i \in 1 .. Len(stack) - 1 : stack'[i].calling
  BY <1>2, <1>3, <1>6, Zenon
<1>8. QED  BY <1>3, <1>5, <1>7, WalksNext

LEMMA WalkOutside ==
  ASSUME Outside, UNCHANGED stack
  PROVE  Walks'
<1>1. Len(stack') = 0  BY DEF Outside
<1>2. 1 .. Len(stack') = {} /\ 1 .. Len(stack') - 1 = {}  BY <1>1
<1>3. QED  BY <1>2, WalksNext

\* What list_delete, or a search of several lists, takes away when no two lists
\* share a node.
LEMMA DeleteTakes ==
  ASSUME ListsInv, NEW events \in SUBSET List, NEW l \in events, NEW n \in Node,
         Delete(l, n), \A m \in events \ {l} : n \notin Range(Contents[m])
  PROVE  TakenFrom(events, n)
<1>1. \A m \in List : Contents[m] \in Seq(Node)  BY ContentsFacts
<1>2. CASE n \notin Range(Contents[l])
  <2>1. Contents' = Contents  BY <1>2, DeleteStep
  <2>2. QED  BY <1>2, <2>1 DEF TakenFrom
<1>3. CASE n \in Range(Contents[l])
  <2>1. PICK j \in 1 .. Len(Contents[l]) : Contents[l][j] = n
    BY <1>1, <1>3 DEF Range
  <2>2. Contents' = [Contents EXCEPT ![l] = RemoveAt(Contents[l], j)]
    BY <2>1, DeleteStep
  <2>3. \A m \in List : Contents'[m] = IF m = l THEN RemoveAt(Contents[l], j)
                                       ELSE Contents[m]
    BY <2>2 DEF Contents
  <2>4. QED  BY <2>1, <2>3 DEF TakenFrom
<1>4. QED  BY <1>2, <1>3

LEMMA PublishStep ==
  NoneUnderItself /\ PublishInv /\ [EventNext]_eventVars => PublishInv'
<1>1. SUFFICES ASSUME NoneUnderItself, PublishInv, [EventNext]_eventVars
               PROVE  Walks'
  BY EventStep DEF PublishInv
<1>2. WalkInv /\ ListsInv  BY <1>1, PublishWalks DEF PublishInv, EventTypeInv
<1>3. CASE Walk
  BY <1>2, <1>3, WalkCall, WalkReturn, WalkPopped DEF Walk
<1>4. ASSUME NEW event \in List, Publish(event)  PROVE Walks'
  BY <1>2, <1>4, WalkPublish
<1>5. ASSUME NEW event \in List, NEW n \in Node, Subscribe(event, n)
      PROVE  Walks'
  <2>1. /\ Push(event, n) /\ stack' = DueWith(event, n)
        /\ Outside \/ InCallback
    BY <1>5 DEF Subscribe, Subscribed, MaySubscribe, Callback
  <2>2. Contents' = [Contents EXCEPT ![event] = Append(Contents[event], n)]
    BY <1>2, <2>1, PushStep
  <2>3. QED  BY <1>2, <2>1, <2>2, WalkSubscribed
<1>6. ASSUME NEW event \in List, NEW n \in Node, Unsubscribe(event, n)
      PROVE  Walks'
  <2>1. Outside \/ (InCallback /\ n \notin InFlight)
    BY <1>1, <1>6 DEF Unsubscribe, MayUnsubscribe, Callback, NoneUnderItself
  <2>2. Delete(event, n) /\ stack' = DueWithout({event}, n)
    BY <1>6 DEF Unsubscribe
  <2>3. TakenFrom({event}, n)  BY <1>2, <2>2, DeleteTakes
  <2>4. QED  BY <1>2, <2>1, <2>2, <2>3, WalkUnsubscribed
<1>7. ASSUME NEW event \in List, ReinitEvent(event)  PROVE Walks'
  BY <1>7, WalkOutside DEF ReinitEvent
<1>8. CASE UNCHANGED eventVars
  <2>1. Contents' = Contents /\ stack' = stack
    BY <1>8, SameContents DEF eventVars
  <2>2. QED  BY <1>2, <2>1, Zenon DEF WalkInv, Walks
<1>9. QED
  BY <1>1, <1>3, <1>4, <1>5, <1>6, <1>7, <1>8 DEF EventNext

LEMMA PublishInvariant == NoneUnderItself /\ EventSpec => []PublishInv
<1>1. SUFFICES ASSUME NoneUnderItself PROVE EventSpec => []PublishInv
  OBVIOUS
<1>2. EventInit => PublishInv  BY PublishStart
<1>3. PublishInv /\ [EventNext]_eventVars => PublishInv'
  BY <1>1, PublishStep
<1>4. QED  BY <1>2, <1>3, PTL DEF EventSpec

\* However many events, subscriptions and nested calls of event_publish there
\* are: when one is about to return, whoever it found, or was subscribed
\* since, has been called or unsubscribed.
THEOREM PublishesReachAll ==
  ASSUME NoneUnderItself PROVE EventSpec => []PublishReachesAll
<1>1. PublishInv => PublishReachesAll
  <2>1. SUFFICES ASSUME PublishInv, NEW i \in DOMAIN stack, stack[i].e = NULL
                 PROVE  stack[i].due = {}
    BY DEF PublishReachesAll
  <2>2. i \in 1 .. Len(stack)  BY <2>1, Typed, StackFacts DEF PublishInv
  <2>3. QED  BY <2>1, <2>2 DEF PublishInv, Walks, OnTheWay
<1>2. NoneUnderItself /\ EventSpec => []PublishInv  BY PublishInvariant
<1>3. QED  BY <1>1, <1>2, PTL

\* And only who is subscribed at that moment is called.
THEOREM OnlySubscribersAreCalled ==
  ASSUME NoneUnderItself PROVE EventSpec => OnlySubscribersCalled
<1>1. PublishInv /\ [EventNext]_eventVars
        => [Call => Top.e \in Linked(Top.event)]_eventVars
  <2>1. SUFFICES ASSUME PublishInv, Call PROVE Top.e \in Linked(Top.event)
    OBVIOUS
  <2>2. EventTypeInv /\ ListsInv  BY <2>1 DEF PublishInv, EventTypeInv
  <2>3. stack # <<>> /\ Top.e # NULL  BY <2>1 DEF Call, Walking
  <2>4. Len(stack) \in 1 .. Len(stack) /\ Top = stack[Len(stack)]
    BY <2>2, <2>3, Typed, TopFrame
  <2>5. PICK s : s = Contents[Top.event]  OBVIOUS
  <2>6. s \in Seq(Node) /\ OnTheWay(Top, s) /\ Top.event \in List
    BY <2>1, <2>4, <2>5, PublishWalks, PublishFacts
  <2>7. Top.e \in Range(s)  BY <2>3, <2>6 DEF OnTheWay, Range
  <2>8. QED  BY <2>2, <2>5, <2>6, <2>7, ContentsFacts
<1>2. NoneUnderItself /\ EventSpec => []PublishInv  BY PublishInvariant
<1>3. QED  BY <1>1, <1>2, PTL DEF EventSpec, OnlySubscribersCalled

-----------------------------------------------------------------------------
(***************************************************************************)
(* Events are notifiers.  A call of event_publish that stands at position  *)
(* p of its event's sequence s still has to call Behind(s, p), and a walk  *)
(* along the links from there finds just that.                             *)
(***************************************************************************)
Behind(s, p) == SubSeq(s, p, Len(s))

LEMMA BehindFacts ==
  ASSUME NEW s \in Seq(Node), NEW p \in 1 .. Len(s) + 1
  PROVE  /\ Behind(s, p) \in Seq(Node)
         /\ Len(Behind(s, p)) = Len(s) + 1 - p
         /\ \A i \in 1 .. Len(s) + 1 - p : Behind(s, p)[i] = s[p + i - 1]
<1>1. \A i \in p .. Len(s) : s[i] \in Node  OBVIOUS
<1>2. Len(s) \in Nat /\ p \in Nat  OBVIOUS
<1>3. Behind(s, p) = [i \in 1 .. Len(s) + 1 - p |-> s[p + i - 1]]
  BY <1>2 DEF Behind
<1>4. \A i \in 1 .. Len(s) + 1 - p : s[p + i - 1] \in Node
  BY <1>1, <1>2
<1>5. Len(s) + 1 - p \in Nat  BY <1>2
<1>6. QED  BY <1>3, <1>4, <1>5

LEMMA ChainBehind ==
  ASSUME NEW h, NEW nx, NEW s \in Seq(Node), IsChain(s, h, nx),
         NEW p \in 1 .. Len(s) + 1
  PROVE  Chain(IF p = Len(s) + 1 THEN NULL ELSE s[p], nx) = Behind(s, p)
<1>1. PICK t : t = Behind(s, p)  OBVIOUS
<1>2. /\ t \in Seq(Node) /\ Len(t) = Len(s) + 1 - p
      /\ \A i \in 1 .. Len(t) : t[i] = s[p + i - 1]
  BY <1>1, BehindFacts
<1>3. Len(s) \in Nat /\ p \in Nat /\ Len(t) \in Nat /\ DOMAIN t = 1 .. Len(t)
  BY <1>2
<1>4. IsInjective(t)
  <2>1. ASSUME NEW i \in 1 .. Len(t), NEW j \in 1 .. Len(t), t[i] = t[j]
        PROVE  i = j
    <3>1. /\ p + i - 1 \in 1 .. Len(s) /\ p + j - 1 \in 1 .. Len(s)
          /\ s[p + i - 1] = s[p + j - 1]
      BY <1>2, <1>3, <2>1
    <3>2. p + i - 1 = p + j - 1  BY <3>1 DEF IsChain, IsInjective
    <3>3. QED  BY <1>3, <3>2
  <2>2. QED  BY <1>3, <2>1 DEF IsInjective
<1>5. (IF p = Len(s) + 1 THEN NULL ELSE s[p]) = IF t = <<>> THEN NULL ELSE t[1]
  <2>1. CASE p = Len(s) + 1
    <3>1. Len(t) = 0  BY <1>2, <1>3, <2>1
    <3>2. t = <<>>  BY <1>2, <3>1
    <3>3. QED  BY <2>1, <3>2
  <2>2. CASE p # Len(s) + 1
    <3>1. 1 \in 1 .. Len(t) /\ p + 1 - 1 = p  BY <1>2, <1>3, <2>2
    <3>2. t[1] = s[p] /\ t # <<>>  BY <1>2, <3>1
    <3>3. QED  BY <2>2, <3>2
  <2>3. QED  BY <2>1, <2>2
<1>6. ASSUME NEW i \in 1 .. Len(t)
      PROVE  nx[t[i]] = IF i = Len(t) THEN NULL ELSE t[i+1]
  <2>1. p + i - 1 \in 1 .. Len(s) /\ t[i] = s[p + i - 1]
        /\ (i = Len(t) <=> p + i - 1 = Len(s)) /\ p + (i+1) - 1 = (p + i - 1) + 1
    <3>1. PICK m, l : m = Len(t) /\ l = Len(s)  OBVIOUS
    <3>2. m \in Nat /\ l \in Nat /\ i \in 1 .. m /\ p \in 1 .. l + 1 /\ m = l + 1 - p
      BY <1>2, <1>3, <3>1
    <3>3. /\ p + i - 1 \in 1 .. l /\ (i = m <=> p + i - 1 = l)
          /\ p + (i+1) - 1 = (p + i - 1) + 1
      BY <3>2
    <3>4. t[i] = s[p + i - 1]  BY <1>2
    <3>5. QED  BY <3>1, <3>3, <3>4
  <2>2. nx[t[i]] = IF p + i - 1 = Len(s) THEN NULL ELSE s[(p + i - 1) + 1]
    <3>1. PICK j : j = p + i - 1  OBVIOUS
    <3>2. j \in 1 .. Len(s) /\ t[i] = s[j]  BY <2>1, <3>1
    <3>3. \A k \in 1 .. Len(s) :
            nx[s[k]] = IF k = Len(s) THEN NULL ELSE s[k+1]
      BY DEF IsChain
    <3>4. nx[s[j]] = IF j = Len(s) THEN NULL ELSE s[j+1]  BY <3>2, <3>3
    <3>5. QED  BY <3>1, <3>2, <3>4
  <2>3. CASE i = Len(t)  BY <2>1, <2>2, <2>3
  <2>4. CASE i # Len(t)
    <3>1. PICK m : m = Len(t)  OBVIOUS
    <3>2. m \in Nat /\ i \in 1 .. m /\ i # m  BY <1>3, <2>4, <3>1
    <3>3. i + 1 \in 1 .. m  BY <3>2
    <3>4. t[i+1] = s[p + (i+1) - 1]  BY <1>2, <3>1, <3>3
    <3>5. t[i+1] = s[(p + i - 1) + 1]  BY <2>1, <3>4
    <3>6. nx[t[i]] = s[(p + i - 1) + 1]  BY <2>1, <2>2, <2>4
    <3>7. QED  BY <2>4, <3>5, <3>6
  <2>5. QED  BY <2>3, <2>4
<1>7. IsChain(t, IF p = Len(s) + 1 THEN NULL ELSE s[p], nx)
  BY <1>3, <1>4, <1>5, <1>6 DEF IsChain
<1>8. QED  BY <1>1, <1>2, <1>7, ChainIs

LEMMA RestCalling ==
  ASSUME NEW h, NEW nx, NEW s \in Seq(Node), IsChain(s, h, nx),
         NEW f, NEW p \in 1 .. Len(s), s[p] = f.e, f.calling
  PROVE  RestOf(f, nx) = Behind(s, p+1)
<1>1. p + 1 \in 1 .. Len(s) + 1 /\ (p + 1 = Len(s) + 1 <=> p = Len(s))
  OBVIOUS
<1>2. nx[f.e] = IF p + 1 = Len(s) + 1 THEN NULL ELSE s[p+1]
  BY <1>1 DEF IsChain
<1>3. RestOf(f, nx) = Chain(nx[f.e], nx)  BY DEF RestOf
<1>4. QED  BY <1>1, <1>2, <1>3, ChainBehind

LEMMA RestIs ==
  ASSUME NEW h, NEW nx, NEW s \in Seq(Node), IsChain(s, h, nx),
         NEW f, NEW p \in 1 .. Len(s), s[p] = f.e, f.calling \in BOOLEAN
  PROVE  RestOf(f, nx) = Behind(s, IF f.calling THEN p+1 ELSE p)
<1>1. p # Len(s) + 1 /\ p \in 1 .. Len(s) + 1  OBVIOUS
<1>2. CASE f.calling  BY <1>2, RestCalling
<1>3. CASE ~f.calling
  <2>1. f.e = IF p = Len(s) + 1 THEN NULL ELSE s[p]  BY <1>1
  <2>2. QED  BY <1>1, <1>3, <2>1, ChainBehind DEF RestOf
<1>4. QED  BY <1>2, <1>3

LEMMA RestOfNobody ==
  ASSUME NEW nx
  PROVE  Chain(NULL, nx) = <<>>
<1>1. <<>> \in Seq(Node)  OBVIOUS
<1>2. IsChain(<<>>, NULL, nx)  BY DEF IsChain, IsInjective
<1>3. QED  BY <1>1, <1>2, ChainIs

\* What the operations of the API make of the rest.
LEMMA BehindAppended ==
  ASSUME NEW s \in Seq(Node), NEW n \in Node, NEW p \in 1 .. Len(s) + 1
  PROVE  Behind(Append(s, n), p) = Append(Behind(s, p), n)
<1>1. PICK t : t = Append(s, n)  OBVIOUS
<1>2. /\ t \in Seq(Node) /\ Len(t) = Len(s) + 1 /\ t[Len(s) + 1] = n
      /\ \A i \in 1 .. Len(s) : t[i] = s[i]
  BY <1>1
<1>3. PICK b : b = Behind(s, p)  OBVIOUS
<1>4. PICK d : d = Behind(t, p)  OBVIOUS
<1>5. Len(s) \in Nat /\ p \in Nat /\ p \in 1 .. Len(t) + 1  BY <1>2
<1>6. /\ b \in Seq(Node) /\ Len(b) = Len(s) + 1 - p
      /\ \A i \in 1 .. Len(b) : b[i] = s[p + i - 1]
  BY <1>3, BehindFacts
<1>7. /\ d \in Seq(Node) /\ Len(d) = Len(t) + 1 - p
      /\ \A i \in 1 .. Len(d) : d[i] = t[p + i - 1]
  BY <1>2, <1>4, <1>5, BehindFacts
<1>8. /\ Append(b, n) \in Seq(Node) /\ Len(Append(b, n)) = Len(b) + 1
      /\ Append(b, n)[Len(b) + 1] = n
      /\ \A i \in 1 .. Len(b) : Append(b, n)[i] = b[i]
  BY <1>6
<1>9. Len(d) = Len(b) + 1 /\ Len(b) \in Nat  BY <1>2, <1>5, <1>6, <1>7
<1>10. ASSUME NEW i \in 1 .. Len(d)  PROVE d[i] = Append(b, n)[i]
  <2>1. CASE i = Len(b) + 1
    <3>1. p + i - 1 = Len(s) + 1  BY <1>5, <1>6, <2>1
    <3>2. QED  BY <1>2, <1>7, <1>8, <1>9, <2>1, <3>1
  <2>2. CASE i # Len(b) + 1
    <3>1. i \in 1 .. Len(b) /\ p + i - 1 \in 1 .. Len(s)
      BY <1>5, <1>6, <1>9, <2>2
    <3>2. QED  BY <1>2, <1>6, <1>7, <1>8, <3>1
  <2>3. QED  BY <2>1, <2>2
<1>11. PICK a : a = Append(b, n)  OBVIOUS
<1>12. a \in Seq(Node) /\ Len(d) = Len(a) /\ \A i \in 1 .. Len(d) : d[i] = a[i]
  BY <1>8, <1>9, <1>10, <1>11
<1>13. d = a  BY <1>7, <1>12
<1>14. QED  BY <1>1, <1>3, <1>4, <1>11, <1>13

LEMMA RemoveFirstFacts ==
  ASSUME NEW s \in Seq(Node), IsInjective(s), NEW n
  PROVE  /\ n \notin Range(s) => RemoveFirst(s, n) = s
         /\ \A i \in 1 .. Len(s) : s[i] = n => RemoveFirst(s, n) = RemoveAt(s, i)
<1>1. DOMAIN s = 1 .. Len(s)  OBVIOUS
<1>2. ASSUME n \notin Range(s)  PROVE RemoveFirst(s, n) = s
  <2>1. ~ \E i \in 1 .. Len(s) : s[i] = n  BY <1>1, <1>2 DEF Range
  <2>2. QED  BY <2>1 DEF RemoveFirst
<1>3. ASSUME NEW i \in 1 .. Len(s), s[i] = n
      PROVE  RemoveFirst(s, n) = RemoveAt(s, i)
  <2>1. \A j \in 1 .. Len(s) : s[j] = n => j = i
    BY <1>1, <1>3 DEF IsInjective
  <2>2. {j \in 1 .. Len(s) : s[j] = n} = {i}  BY <1>3, <2>1
  <2>3. RemoveFirst(s, n) = RemoveAt(s, Min({j \in 1 .. Len(s) : s[j] = n}))
    BY <1>3 DEF RemoveFirst, SelectInSeq
  <2>4. Min({i}) = i  BY <1>3 DEF Min
  <2>5. QED  BY <2>2, <2>3, <2>4
<1>4. QED  BY <1>2, <1>3

LEMMA BehindRemoved ==
  ASSUME NEW s \in Seq(Node), IsInjective(s), NEW i \in 1 .. Len(s),
         NEW p \in 1 .. Len(s), p # i
  PROVE  LET r == IF p < i THEN p ELSE p-1
         IN  /\ r \in 1 .. Len(RemoveAt(s, i)) /\ RemoveAt(s, i)[r] = s[p]
             /\ Behind(RemoveAt(s, i), r+1) = RemoveFirst(Behind(s, p+1), s[i])
<1>1. PICK t : t = RemoveAt(s, i)  OBVIOUS
<1>2. /\ t \in Seq(Node) /\ Len(t) = Len(s) - 1
      /\ \A j \in 1 .. Len(s) - 1 : t[j] = IF j < i THEN s[j] ELSE s[j+1]
  BY <1>1, RemoveAtProperties
<1>3. PICK k : k = Len(s)  OBVIOUS
<1>4. k \in Nat /\ i \in 1 .. k /\ p \in 1 .. k  BY <1>3
<1>5. PICK r : r = IF p < i THEN p ELSE p-1  OBVIOUS
<1>6. r \in 1 .. Len(t) /\ t[r] = s[p]  BY <1>2, <1>3, <1>4, <1>5
<1>7. PICK b : b = Behind(s, p+1)  OBVIOUS
<1>8. PICK d : d = Behind(t, r+1)  OBVIOUS
<1>9. /\ b \in Seq(Node) /\ Len(b) = k - p
      /\ \A j \in 1 .. k - p : b[j] = s[p + j]
  <2>1. p + 1 \in 1 .. Len(s) + 1  BY <1>3, <1>4
  <2>2. /\ b \in Seq(Node) /\ Len(b) = Len(s) + 1 - (p + 1)
        /\ \A j \in 1 .. Len(s) + 1 - (p + 1) : b[j] = s[(p + 1) + j - 1]
    BY <1>7, <2>1, BehindFacts
  <2>3. \A j \in 1 .. k - p : (p + 1) + j - 1 = p + j  BY <1>4
  <2>4. Len(s) + 1 - (p + 1) = k - p  BY <1>3, <1>4
  <2>5. QED  BY <2>2, <2>3, <2>4
<1>10. /\ d \in Seq(Node) /\ Len(d) = k - 1 - r
       /\ \A j \in 1 .. k - 1 - r : d[j] = t[r + j]
  <2>1. r + 1 \in 1 .. Len(t) + 1 /\ r \in Nat /\ Len(t) = k - 1
    BY <1>2, <1>3, <1>4, <1>6
  <2>2. /\ d \in Seq(Node) /\ Len(d) = Len(t) + 1 - (r + 1)
        /\ \A j \in 1 .. Len(t) + 1 - (r + 1) : d[j] = t[(r + 1) + j - 1]
    BY <1>2, <1>8, <2>1, BehindFacts
  <2>3. \A j \in 1 .. k - 1 - r : (r + 1) + j - 1 = r + j  BY <1>4, <2>1
  <2>4. Len(t) + 1 - (r + 1) = k - 1 - r  BY <1>4, <2>1
  <2>5. QED  BY <2>2, <2>3, <2>4
<1>11. IsInjective(b)
  <2>1. ASSUME NEW j \in 1 .. k - p, NEW m \in 1 .. k - p, b[j] = b[m]
        PROVE  j = m
    <3>1. p + j \in 1 .. k /\ p + m \in 1 .. k /\ s[p + j] = s[p + m]
      BY <1>4, <1>9, <2>1
    <3>2. DOMAIN s = 1 .. k  BY <1>3
    <3>3. p + j = p + m  BY <3>1, <3>2 DEF IsInjective
    <3>4. QED  BY <1>4, <3>3
  <2>2. DOMAIN b = 1 .. k - p  BY <1>9
  <2>3. QED  BY <2>1, <2>2 DEF IsInjective
<1>12. CASE p < i
  <2>1. r = p /\ i - p \in 1 .. k - p /\ p + (i - p) = i  BY <1>4, <1>5, <1>12
  <2>2. b[i - p] = s[i]  BY <1>9, <2>1
  <2>3. RemoveFirst(b, s[i]) = RemoveAt(b, i - p)
    BY <1>9, <1>11, <2>1, <2>2, RemoveFirstFacts
  <2>4. PICK a : a = RemoveAt(b, i - p)  OBVIOUS
  <2>5. /\ a \in Seq(Node) /\ Len(a) = k - p - 1
        /\ \A j \in 1 .. k - p - 1 : a[j] = IF j < i - p THEN b[j] ELSE b[j+1]
    <3>1. i - p \in 1 .. Len(b)  BY <1>9, <2>1
    <3>2. /\ a \in Seq(Node) /\ Len(a) = Len(b) - 1
          /\ \A j \in 1 .. Len(b) - 1 : a[j] = IF j < i - p THEN b[j] ELSE b[j+1]
      BY <1>9, <2>4, <3>1, RemoveAtProperties
    <3>3. QED  BY <1>9, <3>2, Zenon
  <2>6. k - 1 - r = k - p - 1  BY <1>4, <2>1
  <2>7. ASSUME NEW j \in 1 .. k - p - 1  PROVE d[j] = a[j]
    <3>1. /\ j \in 1 .. k - p /\ j + 1 \in 1 .. k - p /\ p + j \in 1 .. k - 1
          /\ (j < i - p <=> p + j < i) /\ p + (j + 1) = (p + j) + 1
      BY <1>4, <2>1
    <3>2. b[j] = s[p + j] /\ b[j+1] = s[(p + j) + 1]  BY <1>9, <3>1
    <3>3. t[p + j] = IF p + j < i THEN s[p + j] ELSE s[(p + j) + 1]
      BY <1>2, <1>3, <3>1
    <3>4. d[j] = t[p + j]  BY <1>10, <2>1, <2>6
    <3>5. QED  BY <2>5, <3>1, <3>2, <3>3, <3>4
  <2>8. Len(d) = Len(a) /\ Len(d) = k - p - 1  BY <1>10, <2>5, <2>6
  <2>9. d = a  BY <1>10, <2>5, <2>7, <2>8
  <2>10. QED  BY <1>1, <1>5, <1>6, <1>7, <1>8, <2>3, <2>4, <2>9
<1>13. CASE p > i
  <2>1. r = p - 1  BY <1>4, <1>5, <1>13
  <2>2. s[i] \notin Range(b)
    <3>1. ASSUME NEW j \in 1 .. k - p  PROVE b[j] # s[i]
      <4>1. p + j \in 1 .. k /\ p + j # i  BY <1>4, <1>13
      <4>2. DOMAIN s = 1 .. k  BY <1>3
      <4>3. s[p + j] # s[i]  BY <1>4, <4>1, <4>2 DEF IsInjective
      <4>4. QED  BY <1>9, <4>3
    <3>2. DOMAIN b = 1 .. k - p  BY <1>9
    <3>3. QED  BY <3>1, <3>2 DEF Range
  <2>3. RemoveFirst(b, s[i]) = b  BY <1>9, <1>11, <2>2, RemoveFirstFacts
  <2>4. k - 1 - r = k - p  BY <1>4, <2>1
  <2>5. ASSUME NEW j \in 1 .. k - p  PROVE d[j] = b[j]
    <3>1. /\ r + j \in 1 .. k - 1 /\ ~(r + j < i) /\ (r + j) + 1 = p + j
      BY <1>4, <1>13, <2>1
    <3>2. t[r + j] = s[(r + j) + 1]  BY <1>2, <1>3, <3>1
    <3>3. d[j] = t[r + j]  BY <1>10, <2>4
    <3>4. QED  BY <1>9, <3>1, <3>2, <3>3
  <2>6. Len(d) = Len(b) /\ Len(d) = k - p  BY <1>9, <1>10, <2>4
  <2>7. d = b  BY <1>9, <1>10, <2>5, <2>6
  <2>8. QED  BY <1>1, <1>5, <1>6, <1>7, <1>8, <2>3, <2>7
<1>14. p < i \/ p > i  BY <1>4
<1>15. QED  BY <1>12, <1>13, <1>14

-----------------------------------------------------------------------------
\* The mapping: what a call has still to walk, and the publishes it stands for.
LEMMA Remaining ==
  ASSUME PublishInv, NEW i \in 1 .. Len(stack), NEW s,
         s = Contents[stack[i].event]
  PROVE  /\ stack[i].e = NULL => RestOf(stack[i], next) = <<>>
         /\ \A p \in 1 .. Len(s) :
              s[p] = stack[i].e =>
                RestOf(stack[i], next) = Behind(s, IF stack[i].calling THEN p+1 ELSE p)
         /\ stack[i].e # NULL => \E p \in 1 .. Len(s) : s[p] = stack[i].e
         /\ RestOf(stack[i], next) \in Seq(Node)
<1>1. /\ stack[i].calling \in BOOLEAN
      /\ stack[i].calling => stack[i].e # NULL
      /\ OnTheWay(stack[i], s) /\ s \in Seq(Node)
      /\ IsChain(s, head[stack[i].event], next)
  BY PublishWalks, PublishFacts
<1>2. ASSUME stack[i].e = NULL  PROVE RestOf(stack[i], next) = <<>>
  BY <1>1, <1>2, RestOfNobody DEF RestOf
<1>3. ASSUME NEW p \in 1 .. Len(s), s[p] = stack[i].e
      PROVE  RestOf(stack[i], next)
               = Behind(s, IF stack[i].calling THEN p+1 ELSE p)
  <2>1. PICK f : f = stack[i]  OBVIOUS
  <2>2. f.calling \in BOOLEAN /\ s[p] = f.e  BY <1>1, <1>3, <2>1, Zenon
  <2>3. RestOf(f, next) = Behind(s, IF f.calling THEN p+1 ELSE p)
    BY <1>1, <2>2, RestIs
  <2>4. QED  BY <2>1, <2>3, Zenon
<1>4. stack[i].e # NULL => \E p \in 1 .. Len(s) : s[p] = stack[i].e
  BY <1>1 DEF OnTheWay
<1>5. RestOf(stack[i], next) \in Seq(Node)
  <2>1. CASE stack[i].e = NULL
    <3>1. <<>> \in Seq(Node)  OBVIOUS
    <3>2. QED  BY <1>2, <2>1, <3>1
  <2>2. CASE stack[i].e # NULL
    <3>1. PICK p \in 1 .. Len(s) : s[p] = stack[i].e  BY <1>4, <2>2
    <3>2. (IF stack[i].calling THEN p+1 ELSE p) \in 1 .. Len(s) + 1  BY <1>1
    <3>3. QED  BY <1>1, <1>3, <3>1, <3>2, BehindFacts
  <2>3. QED  BY <2>1, <2>2
<1>6. QED  BY <1>2, <1>3, <1>4, <1>5

Told == [event : List, calling : Pointer, rest : Seq(Node)]

LEMMA TellingFacts ==
  ASSUME NEW f, NEW nx
  PROVE  /\ Telling(f, nx).event = f.event
         /\ Telling(f, nx).calling = IF f.calling THEN f.e ELSE NULL
         /\ Telling(f, nx).rest = RestOf(f, nx)
BY DEF Telling

LEMMA PublishesFacts ==
  ASSUME PublishInv
  PROVE  /\ Publishes \in Seq(Told) /\ Len(Publishes) = Len(stack)
         /\ DOMAIN Publishes = 1 .. Len(stack)
         /\ \A i \in 1 .. Len(stack) : Publishes[i] = Telling(stack[i], next)
<1>1. /\ stack \in Seq(Frame) /\ Len(stack) \in Nat
      /\ DOMAIN stack = 1 .. Len(stack)
  BY Typed, StackFacts DEF PublishInv
<1>2. ASSUME NEW i \in 1 .. Len(stack)  PROVE Telling(stack[i], next) \in Told
  <2>1. RestOf(stack[i], next) \in Seq(Node)  BY Remaining
  <2>2. stack[i].event \in List /\ stack[i].e \in Pointer  BY PublishWalks, PublishFacts
  <2>3. NULL \in Pointer  BY DEF Pointer
  <2>4. QED  BY <2>1, <2>2, <2>3 DEF Telling, Told
<1>3. Publishes = [i \in 1 .. Len(stack) |-> Telling(stack[i], next)]
  BY <1>1 DEF Publishes
<1>4. Publishes \in [1 .. Len(stack) -> Told]  BY <1>2, <1>3
<1>5. QED  BY <1>1, <1>3, <1>4

LEMMA SubscribersAre ==
  /\ Subscribers = Contents
  /\ Subscribers' = Contents'
BY DEF Subscribers, Contents

\* Where the abstract program is.
LEMMA WhereItIs ==
  ASSUME PublishInv
  PROVE  /\ Notifying!Outside <=> Outside
         /\ InCallback => Notifying!InCallback
         /\ ~Outside => Notifying!Top = Telling(Top, next)
<1>1. /\ Publishes \in Seq(Told) /\ Len(Publishes) = Len(stack)
      /\ \A i \in 1 .. Len(stack) : Publishes[i] = Telling(stack[i], next)
      /\ stack \in Seq(Frame)
  BY PublishesFacts, Typed, StackFacts DEF PublishInv
<1>2. Notifying!Outside <=> Outside  BY <1>1 DEF Notifying!Outside, Outside
<1>3. ASSUME stack # <<>>
      PROVE  /\ Notifying!Top = Telling(Top, next)
             /\ Len(stack) \in 1 .. Len(stack) /\ Top = stack[Len(stack)]
  BY <1>1, <1>3 DEF Notifying!Top, Top
<1>4. ASSUME InCallback  PROVE Notifying!InCallback
  <2>1. stack # <<>> /\ Top.calling  BY <1>4 DEF InCallback
  <2>2. Top.e # NULL  BY <1>3, <2>1, PublishWalks, PublishFacts
  <2>3. Notifying!Top.calling # NULL  BY <1>3, <2>1, <2>2, TellingFacts
  <2>4. QED  BY <1>2, <2>1, <2>3 DEF Notifying!InCallback, Outside
<1>5. QED  BY <1>2, <1>3, <1>4 DEF Outside

LEMMA TopTold ==
  ASSUME PublishInv, UNCHANGED listVars, stack # <<>>, NEW f \in Frame,
         stack' = [stack EXCEPT ![Len(stack)] = f]
  PROVE  /\ Publishes' = [Publishes EXCEPT ![Len(Publishes)] = Telling(f, next)]
         /\ Subscribers' = Subscribers
<1>1. EventTypeInv /\ ListsInv /\ Len(stack) \in Nat
  BY Typed, StackFacts DEF PublishInv, EventTypeInv
<1>2. /\ stack' \in Seq(Frame) /\ Len(stack') = Len(stack)
      /\ stack'[Len(stack)] = f
      /\ \A i \in 1 .. Len(stack) - 1 : stack'[i] = stack[i]
  BY <1>1, Typed, ReplaceTop
<1>3. Publishes' = [i \in 1 .. Len(stack) |-> Telling(stack'[i], next)]
  <2>1. \A q \in Seq(Frame) : DOMAIN q = 1 .. Len(q)  OBVIOUS
  <2>2. DOMAIN stack' = 1 .. Len(stack)  BY <1>2, <2>1, Zenon
  <2>3. next' = next  BY DEF listVars
  <2>4. QED  BY <2>2, <2>3, Zenon DEF Publishes
<1>4. /\ Len(Publishes) = Len(stack) /\ DOMAIN Publishes = 1 .. Len(stack)
      /\ Publishes \in Seq(Told)
      /\ \A i \in 1 .. Len(stack) : Publishes[i] = Telling(stack[i], next)
  BY PublishesFacts
<1>5. \A i \in 1 .. Len(stack) :
        Telling(stack'[i], next)
          = IF i = Len(stack) THEN Telling(f, next) ELSE Publishes[i]
  <2>1. \A i \in 1 .. Len(stack) :
           i = Len(stack) \/ (i # Len(stack) /\ i \in 1 .. Len(stack) - 1)
    BY <1>1
  <2>2. SUFFICES ASSUME NEW i \in 1 .. Len(stack)
                 PROVE  Telling(stack'[i], next)
                          = IF i = Len(stack) THEN Telling(f, next) ELSE Publishes[i]
    OBVIOUS
  <2>3. CASE i = Len(stack)
    <3>1. stack'[i] = f  BY <1>2, <2>3, Zenon
    <3>2. Telling(stack'[i], next) = Telling(f, next)  BY <3>1, Zenon
    <3>3. QED  BY <2>3, <3>2
  <2>4. CASE i # Len(stack)
    <3>1. stack'[i] = stack[i]  BY <1>2, <2>1, <2>4, Zenon
    <3>2. QED  BY <1>4, <2>4, <3>1, Zenon
  <2>5. QED  BY <2>3, <2>4
<1>6. Publishes' = [i \in 1 .. Len(stack) |->
                      IF i = Len(stack) THEN Telling(f, next) ELSE Publishes[i]]
  BY <1>3, <1>5
<1>7. [Publishes EXCEPT ![Len(Publishes)] = Telling(f, next)]
        = [i \in 1 .. Len(stack) |->
             IF i = Len(stack) THEN Telling(f, next) ELSE Publishes[i]]
  BY <1>4
<1>8. Subscribers' = Subscribers  BY <1>1, ListsUntouched, SubscribersAre
<1>9. QED  BY <1>6, <1>7, <1>8

LEMMA BehindParts ==
  ASSUME NEW s \in Seq(Node), NEW p \in 1 .. Len(s)
  PROVE  /\ Behind(s, p) # <<>> /\ Head(Behind(s, p)) = s[p]
         /\ Tail(Behind(s, p)) = Behind(s, p+1)
<1>1. Len(s) \in Nat /\ p \in 1 .. Len(s) + 1 /\ p + 1 \in 1 .. Len(s) + 1
  OBVIOUS
<1>2. PICK b : b = Behind(s, p)  OBVIOUS
<1>3. PICK d : d = Behind(s, p+1)  OBVIOUS
<1>4. /\ b \in Seq(Node) /\ Len(b) = Len(s) + 1 - p
      /\ \A i \in 1 .. Len(s) + 1 - p : b[i] = s[p + i - 1]
  BY <1>1, <1>2, BehindFacts
<1>5. /\ d \in Seq(Node) /\ Len(d) = Len(s) + 1 - (p + 1)
      /\ \A i \in 1 .. Len(s) + 1 - (p + 1) : d[i] = s[(p + 1) + i - 1]
  BY <1>1, <1>3, BehindFacts
<1>6. 1 \in 1 .. Len(s) + 1 - p /\ p + 1 - 1 = p  BY <1>1
<1>7. b # <<>> /\ Head(b) = s[p]  BY <1>4, <1>6
<1>8. PICK t : t = Tail(b)  OBVIOUS
<1>9. /\ t \in Seq(Node) /\ Len(t) = Len(b) - 1
      /\ \A i \in 1 .. Len(b) - 1 : t[i] = b[i+1]
  BY <1>4, <1>7, <1>8
<1>10. Len(t) = Len(d) /\ Len(d) = Len(s) - p  BY <1>1, <1>4, <1>5, <1>9
<1>11. ASSUME NEW i \in 1 .. Len(s) - p  PROVE t[i] = d[i]
  <2>1. /\ i \in 1 .. Len(b) - 1 /\ i + 1 \in 1 .. Len(s) + 1 - p
        /\ i \in 1 .. Len(s) + 1 - (p + 1) /\ p + (i+1) - 1 = (p+1) + i - 1
    BY <1>1, <1>4
  <2>2. QED  BY <1>4, <1>5, <1>9, <2>1
<1>12. t = d  BY <1>5, <1>9, <1>10, <1>11
<1>13. QED  BY <1>2, <1>3, <1>7, <1>8, <1>12

LEMMA CallTold ==
  ASSUME PublishInv, Call
  PROVE  Notifying!Call
<1>1. /\ stack # <<>> /\ ~Top.calling /\ Top.e # NULL /\ UNCHANGED listVars
  BY DEF Call, Walking
<1>2. PICK f \in Frame :
        /\ f = Publishing(Top.event, Top.e, TRUE, Top.due \ {Top.e})
        /\ stack' = [stack EXCEPT ![Len(stack)] = f]
  BY Typed, CallStack DEF PublishInv
<1>3. f.event = Top.event /\ f.e = Top.e /\ f.calling = TRUE
  BY <1>2 DEF Publishing
<1>4. /\ Publishes' = [Publishes EXCEPT ![Len(Publishes)] = Telling(f, next)]
      /\ Subscribers' = Subscribers
  BY <1>1, <1>2, TopTold
<1>5. ~Notifying!Outside /\ Notifying!Top = Telling(Top, next)
  BY <1>1, WhereItIs DEF Outside
<1>6. /\ Notifying!Top.event = Top.event /\ Notifying!Top.calling = NULL
      /\ Notifying!Top.rest = RestOf(Top, next)
  BY <1>1, <1>5, TellingFacts
<1>7. Len(stack) \in 1 .. Len(stack) /\ Top = stack[Len(stack)]
  BY <1>1, Typed, TopFrame DEF PublishInv
<1>8. PICK s : s = Contents[Top.event]  OBVIOUS
<1>9. s \in Seq(Node) /\ IsChain(s, head[Top.event], next) /\ Top.calling = FALSE
  BY <1>1, <1>7, <1>8, PublishWalks, PublishFacts
<1>10. PICK p \in 1 .. Len(s) :
         s[p] = Top.e /\ RestOf(Top, next) = Behind(s, p)
  BY <1>1, <1>7, <1>8, <1>9, Remaining
<1>11. RestOf(f, next) = Behind(s, p+1)  BY <1>3, <1>9, <1>10, RestCalling
<1>12. /\ Behind(s, p) # <<>> /\ Head(Behind(s, p)) = s[p]
       /\ Tail(Behind(s, p)) = Behind(s, p+1)
  BY <1>9, BehindParts
<1>13. Telling(f, next) = [event |-> Top.event, calling |-> Head(Behind(s, p)),
                           rest |-> Tail(Behind(s, p))]
  BY <1>3, <1>10, <1>11, <1>12 DEF Telling
<1>14. QED
  BY <1>4, <1>5, <1>6, <1>10, <1>12, <1>13
     DEF Notifying!Call, Notifying!Telling

LEMMA ReturnTold ==
  ASSUME PublishInv, Return
  PROVE  Notifying!Return
<1>1. InCallback /\ stack # <<>> /\ Top.calling /\ UNCHANGED listVars
  BY DEF Return, InCallback
<1>2. PICK f \in Frame :
        /\ f = Publishing(Top.event, next[Top.e], FALSE, Top.due)
        /\ stack' = [stack EXCEPT ![Len(stack)] = f]
  BY <1>1, Typed, ReturnStack DEF PublishInv
<1>3. f.event = Top.event /\ f.e = next[Top.e] /\ f.calling = FALSE
  BY <1>2 DEF Publishing
<1>4. /\ Publishes' = [Publishes EXCEPT ![Len(Publishes)] = Telling(f, next)]
      /\ Subscribers' = Subscribers
  BY <1>1, <1>2, TopTold
<1>5. Notifying!InCallback /\ Notifying!Top = Telling(Top, next)
  BY <1>1, WhereItIs DEF Outside
<1>6. RestOf(f, next) = RestOf(Top, next)  BY <1>1, <1>3 DEF RestOf
<1>7. Telling(f, next) = [event |-> Notifying!Top.event, calling |-> NULL,
                          rest |-> Notifying!Top.rest]
  BY <1>3, <1>5, <1>6 DEF Telling
<1>8. QED  BY <1>4, <1>5, <1>7 DEF Notifying!Return, Notifying!Telling

\* Sequences are equal when they agree everywhere.
LEMMA SameSeq ==
  ASSUME NEW S, NEW s \in Seq(S), NEW t \in Seq(S), Len(s) = Len(t),
         \A i \in 1 .. Len(t) : s[i] = t[i]
  PROVE  s = t
OBVIOUS

LEMMA DoneTold ==
  ASSUME PublishInv, PublishReturns
  PROVE  Notifying!Done
<1>1. /\ stack # <<>> /\ ~Top.calling /\ Top.e = NULL /\ UNCHANGED listVars
      /\ stack' = SubSeq(stack, 1, Len(stack) - 1)
  BY DEF PublishReturns, Walking
<1>2. EventTypeInv /\ ListsInv /\ Len(stack) \in 1 .. Len(stack)
      /\ Top = stack[Len(stack)]
  BY <1>1, Typed, TopFrame DEF PublishInv, EventTypeInv
<1>3. ~Notifying!Outside /\ Notifying!Top = Telling(Top, next)
  BY <1>1, WhereItIs DEF Outside
<1>4. RestOf(Top, next) = <<>>  BY <1>1, <1>2, Remaining
<1>5. Notifying!Top.calling = NULL /\ Notifying!Top.rest = <<>>
  BY <1>1, <1>3, <1>4, TellingFacts
<1>6. PICK k : k = Len(stack) - 1  OBVIOUS
<1>7. /\ stack' \in Seq(Frame) /\ Len(stack') = k /\ k \in Nat
      /\ \A i \in 1 .. k : stack'[i] = stack[i] /\ i \in 1 .. Len(stack)
  <2>1. /\ stack' \in Seq(Frame) /\ Len(stack') = k
        /\ \A i \in 1 .. k : stack'[i] = stack[i]
    BY <1>1, <1>2, <1>6, Typed, PopFrame
  <2>2. k \in Nat /\ \A i \in 1 .. k : i \in 1 .. Len(stack)  BY <1>2, <1>6
  <2>3. QED  BY <2>1, <2>2
<1>8. /\ Publishes \in Seq(Told) /\ Len(Publishes) = Len(stack)
      /\ \A i \in 1 .. Len(stack) : Publishes[i] = Telling(stack[i], next)
  BY PublishesFacts
<1>9. PICK q : q = Front(Publishes)  OBVIOUS
<1>10. q \in Seq(Told) /\ Len(q) = k /\ \A i \in 1 .. k : q[i] = Publishes[i]
  <2>1. q = SubSeq(Publishes, 1, k)  BY <1>6, <1>8, <1>9 DEF Front
  <2>2. k \in Nat /\ k <= Len(Publishes)  BY <1>2, <1>6, <1>8
  <2>3. \A i \in 1 .. k : Publishes[i] \in Told  BY <1>8, <2>2
  <2>4. QED  BY <1>8, <2>1, <2>2, <2>3
<1>11. Publishes' = [i \in 1 .. k |-> Telling(stack'[i], next)]
  <2>1. \A z \in Seq(Frame) : DOMAIN z = 1 .. Len(z)  OBVIOUS
  <2>2. DOMAIN stack' = 1 .. k  BY <1>7, <2>1, Zenon
  <2>3. next' = next  BY <1>1 DEF listVars
  <2>4. QED  BY <2>2, <2>3, Zenon DEF Publishes
<1>12. Publishes' = q
  <2>1. \A i \in 1 .. k : Telling(stack'[i], next) = q[i]
    BY <1>7, <1>8, <1>10, Zenon
  <2>2. q = [i \in 1 .. k |-> q[i]]  BY <1>10
  <2>3. QED  BY <1>11, <2>1, <2>2, Zenon
<1>13. Subscribers' = Subscribers
  BY <1>1, <1>2, ListsUntouched, SubscribersAre
<1>14. Front(Publishes) = Notifying!Front(Publishes)
  BY DEF Front, Notifying!Front
<1>15. QED
  BY <1>3, <1>5, <1>9, <1>12, <1>13, <1>14 DEF Notifying!Done

LEMMA PublishTold ==
  ASSUME PublishInv, NEW event \in List, Publish(event)
  PROVE  Notifying!Publish(event)
<1>1. EventTypeInv /\ ListsInv  BY DEF PublishInv, EventTypeInv
<1>2. PICK f : f = Begun(event)  OBVIOUS
<1>3. f \in Frame /\ f = Publishing(event, head[event], FALSE, Linked(event))
  BY <1>1, <1>2, Typed, BegunFrame
<1>4. /\ stack' = Append(stack, f) /\ UNCHANGED listVars
      /\ Outside \/ InCallback
  BY <1>2 DEF Publish
<1>5. /\ stack' \in Seq(Frame) /\ Len(stack') = Len(stack) + 1
      /\ stack'[Len(stack) + 1] = f
      /\ \A i \in 1 .. Len(stack) : stack'[i] = stack[i]
  BY <1>1, <1>3, <1>4, Typed, PushFrame
<1>6. /\ Publishes \in Seq(Told) /\ Len(Publishes) = Len(stack)
      /\ \A i \in 1 .. Len(stack) : Publishes[i] = Telling(stack[i], next)
      /\ Len(stack) \in Nat
  BY <1>1, PublishesFacts, Typed, StackFacts
<1>7. Telling(f, next) = Notifying!Telling(event, NULL, Subscribers[event])
  BY <1>3 DEF Telling, RestOf, Publishing, Notifying!Telling, Subscribers
<1>8. PICK k : k = Len(stack) + 1  OBVIOUS
<1>9. PICK q : q = Append(Publishes, Telling(f, next))  OBVIOUS
<1>10. \A i \in 1 .. k : i = k \/ (i # k /\ i \in 1 .. Len(stack))
  BY <1>6, <1>8
<1>11. q = [i \in 1 .. k |-> IF i = k THEN Telling(f, next) ELSE Publishes[i]]
  <2>1. Telling(f, next) \in Told
    <3>1. Telling(f, next) = [event |-> event, calling |-> NULL,
                              rest |-> Contents[event]]
      BY <1>7, SubscribersAre DEF Notifying!Telling
    <3>2. Contents[event] \in Seq(Node)  BY <1>1, ContentsFacts
    <3>3. QED  BY <3>1, <3>2 DEF Told, Pointer
  <2>2. PICK x \in Told : x = Telling(f, next)  BY <2>1
  <2>3. /\ q \in Seq(Told) /\ Len(q) = k /\ q[k] = x
        /\ \A i \in 1 .. Len(stack) : q[i] = Publishes[i]
    BY <1>6, <1>8, <1>9, <2>2
  <2>4. q = [i \in 1 .. k |-> q[i]]  BY <2>3
  <2>5. \A i \in 1 .. k : q[i] = IF i = k THEN x ELSE Publishes[i]
    BY <1>10, <2>3
  <2>6. QED  BY <2>2, <2>4, <2>5
<1>12. Publishes' = [i \in 1 .. k |-> Telling(stack'[i], next)]
  <2>1. \A z \in Seq(Frame) : DOMAIN z = 1 .. Len(z)  OBVIOUS
  <2>2. DOMAIN stack' = 1 .. k  BY <1>5, <1>8, <2>1, Zenon
  <2>3. next' = next  BY <1>4 DEF listVars
  <2>4. QED  BY <2>2, <2>3, Zenon DEF Publishes
<1>13. ASSUME NEW i \in 1 .. k
       PROVE  Telling(stack'[i], next)
                = IF i = k THEN Telling(f, next) ELSE Publishes[i]
  <2>1. CASE i = k
    <3>1. Telling(stack'[i], next) = Telling(f, next)
      BY <1>5, <1>8, <2>1, Zenon
    <3>2. QED  BY <2>1, <3>1
  <2>2. CASE i # k
    <3>1. Telling(stack'[i], next) = Publishes[i]
      BY <1>5, <1>6, <1>10, <2>2, Zenon
    <3>2. QED  BY <2>2, <3>1
  <2>3. QED  BY <2>1, <2>2
<1>14. Publishes' = q  BY <1>11, <1>12, <1>13
<1>15. Subscribers' = Subscribers
  BY <1>1, <1>4, ListsUntouched, SubscribersAre
<1>16. Notifying!Outside \/ Notifying!InCallback  BY <1>4, WhereItIs
<1>17. QED  BY <1>7, <1>9, <1>14, <1>15, <1>16 DEF Notifying!Publish

LEMMA ReinitTold ==
  ASSUME PublishInv, NEW event \in List, ReinitEvent(event)
  PROVE  Notifying!Clear(event)
<1>1. Outside /\ Reinit(event) /\ stack' = stack  BY DEF ReinitEvent
<1>2. Contents' = [Contents EXCEPT ![event] = <<>>]
  BY <1>1, ReinitStep DEF PublishInv, EventTypeInv
<1>3. Publishes' = <<>> /\ Publishes = <<>>
  <2>1. stack = <<>> /\ stack' = <<>>  BY <1>1 DEF Outside
  <2>2. DOMAIN stack = {} /\ DOMAIN stack' = {}  BY <2>1
  <2>3. QED  BY <2>2 DEF Publishes
<1>4. Notifying!Outside  BY <1>1, WhereItIs
<1>5. QED  BY <1>2, <1>3, <1>4, SubscribersAre DEF Notifying!Clear

\* Both ways in which subscriptions change, change the rest of the publishes of
\* that event and nothing else of any.
LEMMA RestsChange ==
  ASSUME PublishInv, NEW R, stack' \in Seq(Frame), Len(stack') = Len(stack),
         \A i \in 1 .. Len(stack) :
           /\ stack'[i].event = stack[i].event /\ stack'[i].e = stack[i].e
           /\ stack'[i].calling = stack[i].calling
           /\ RestOf(stack'[i], next') = R[i]
  PROVE  Publishes' = [i \in DOMAIN Publishes |->
           Notifying!Telling(Publishes[i].event, Publishes[i].calling, R[i])]
<1>1. /\ DOMAIN Publishes = 1 .. Len(stack)
      /\ \A i \in 1 .. Len(stack) : Publishes[i] = Telling(stack[i], next)
  BY PublishesFacts
<1>2. Publishes' = [i \in 1 .. Len(stack) |-> Telling(stack'[i], next')]
  <2>1. \A z \in Seq(Frame) : DOMAIN z = 1 .. Len(z)  OBVIOUS
  <2>2. DOMAIN stack' = 1 .. Len(stack)  BY <2>1, Zenon
  <2>3. QED  BY <2>2, Zenon DEF Publishes
<1>3. ASSUME NEW i \in 1 .. Len(stack)
      PROVE  Telling(stack'[i], next')
               = Notifying!Telling(Publishes[i].event, Publishes[i].calling, R[i])
  <2>1. /\ Publishes[i].event = stack[i].event
        /\ Publishes[i].calling = IF stack[i].calling THEN stack[i].e ELSE NULL
    BY <1>1, TellingFacts
  <2>2. QED  BY <2>1 DEF Telling, Notifying!Telling
<1>4. QED  BY <1>1, <1>2, <1>3

LEMMA SubscribeTold ==
  ASSUME PublishInv, NEW event \in List, NEW n \in Node, Subscribe(event, n)
  PROVE  Notifying!Subscribe(event, n)
<1>1. EventTypeInv /\ ListsInv  BY DEF PublishInv, EventTypeInv
<1>2. /\ Outside \/ InCallback
      /\ Push(event, n) /\ stack' = DueWith(event, n)
  BY DEF Subscribe, MaySubscribe, Callback, Subscribed
<1>3. \A i \in 1 .. Len(stack) : stack[i].calling  BY <1>2, PublishWalks, AllAreCalling
<1>4. /\ stack' \in Seq(Frame) /\ Len(stack') = Len(stack)
      /\ \A i \in 1 .. Len(stack) :
           /\ stack'[i].event = stack[i].event /\ stack'[i].e = stack[i].e
           /\ stack'[i].calling = stack[i].calling
  BY <1>1, <1>2, Typed, SubscribedStack
<1>5. ListsInv' /\ Contents' = [Contents EXCEPT ![event] = Append(Contents[event], n)]
  BY <1>1, <1>2, PushStep
<1>6. PICK R : R = [i \in 1 .. Len(stack) |->
                      IF stack[i].event = event
                      THEN Append(RestOf(stack[i], next), n)
                      ELSE RestOf(stack[i], next)]
  OBVIOUS
<1>7. ASSUME NEW i \in 1 .. Len(stack)  PROVE RestOf(stack'[i], next') = R[i]
  <2>1. PICK s : s = Contents[stack[i].event]  OBVIOUS
  <2>2. /\ stack[i].event \in List /\ stack[i].e # NULL
        /\ s \in Seq(Node) /\ stack[i].calling = TRUE
    BY <1>3, <2>1, PublishWalks, PublishFacts
  <2>3. PICK p \in 1 .. Len(s) :
          s[p] = stack[i].e /\ RestOf(stack[i], next) = Behind(s, p+1)
    BY <2>1, <2>2, Remaining
  <2>4. PICK t : t = Contents'[stack[i].event]  OBVIOUS
  <2>5. /\ t \in Seq(Node) /\ IsChain(t, head'[stack[i].event], next')
        /\ stack'[i].e = stack[i].e /\ stack'[i].calling
    BY <1>4, <1>5, <2>2, <2>4 DEF ListsInv, Holds
  <2>6. CASE stack[i].event = event
    <3>1. t = Append(s, n)  BY <1>5, <2>1, <2>4, <2>6 DEF Contents
    <3>2. p \in 1 .. Len(t) /\ t[p] = s[p] /\ p + 1 \in 1 .. Len(s) + 1
      BY <2>2, <3>1
    <3>3. RestOf(stack'[i], next') = Behind(t, p+1)
      <4>1. PICK h, nx, f : h = head'[stack[i].event] /\ nx = next' /\ f = stack'[i]
        OBVIOUS
      <4>2. IsChain(t, h, nx) /\ t[p] = f.e /\ f.calling
        BY <2>3, <2>5, <3>2, <4>1
      <4>3. RestOf(f, nx) = Behind(t, p+1)  BY <2>5, <3>2, <4>2, RestCalling
      <4>4. QED  BY <4>1, <4>3
    <3>4. Behind(t, p+1) = Append(Behind(s, p+1), n)
      BY <2>2, <3>1, <3>2, BehindAppended
    <3>5. QED  BY <1>6, <2>3, <2>6, <3>3, <3>4
  <2>7. CASE stack[i].event # event
    <3>1. t = s  BY <1>5, <2>1, <2>2, <2>4, <2>7 DEF Contents
    <3>2. RestOf(stack'[i], next') = Behind(s, p+1)
      <4>1. p \in 1 .. Len(t) /\ t[p] = stack'[i].e  BY <2>3, <2>5, <3>1
      <4>2. PICK h, nx, f : h = head'[stack[i].event] /\ nx = next' /\ f = stack'[i]
        OBVIOUS
      <4>3. IsChain(t, h, nx) /\ t[p] = f.e /\ f.calling  BY <2>5, <4>1, <4>2
      <4>4. RestOf(f, nx) = Behind(t, p+1)  BY <2>5, <4>1, <4>3, RestCalling
      <4>5. QED  BY <3>1, <4>2, <4>4
    <3>3. QED  BY <1>6, <2>3, <2>7, <3>2
  <2>8. QED  BY <2>6, <2>7
<1>8. Publishes' = [i \in DOMAIN Publishes |->
        Notifying!Telling(Publishes[i].event, Publishes[i].calling, R[i])]
  BY <1>4, <1>7, RestsChange
<1>9. Publishes' = [i \in DOMAIN Publishes |->
        IF Publishes[i].event = event
        THEN Notifying!Still(Publishes[i], Append(Publishes[i].rest, n))
        ELSE Publishes[i]]
  <2>1. /\ DOMAIN Publishes = 1 .. Len(stack)
        /\ \A i \in 1 .. Len(stack) : Publishes[i] = Telling(stack[i], next)
    BY PublishesFacts
  <2>2. ASSUME NEW i \in 1 .. Len(stack)
        PROVE  Notifying!Telling(Publishes[i].event, Publishes[i].calling, R[i])
                 = IF Publishes[i].event = event
                   THEN Notifying!Still(Publishes[i], Append(Publishes[i].rest, n))
                   ELSE Publishes[i]
    <3>1. /\ Publishes[i].event = stack[i].event
          /\ Publishes[i].rest = RestOf(stack[i], next)
          /\ Publishes[i] = Notifying!Telling(Publishes[i].event,
                              Publishes[i].calling, RestOf(stack[i], next))
      BY <2>1, TellingFacts DEF Telling, Notifying!Telling
    <3>2. R[i] = IF stack[i].event = event
                 THEN Append(RestOf(stack[i], next), n)
                 ELSE RestOf(stack[i], next)
      BY <1>6
    <3>3. CASE stack[i].event = event
      BY <3>1, <3>2, <3>3 DEF Notifying!Still
    <3>4. CASE stack[i].event # event  BY <3>1, <3>2, <3>4
    <3>5. QED  BY <3>3, <3>4
  <2>3. QED  BY <1>8, <2>1, <2>2
<1>10. ~Notifying!Subscribed(n)
  <2>1. \A m \in List : n \notin Range(Contents[m])
    BY <1>1, <1>2, UnlinkedContents DEF Push
  <2>2. QED  BY <2>1, SubscribersAre DEF Notifying!Subscribed, Notifying!Range, Range
<1>11. Notifying!Outside \/ Notifying!InCallback  BY <1>2, WhereItIs
<1>12. Subscribers' = [Subscribers EXCEPT ![event] = Append(Subscribers[event], n)]
  BY <1>5, SubscribersAre
<1>13. QED  BY <1>9, <1>10, <1>11, <1>12 DEF Notifying!Subscribe

LEMMA BehindUnsubscribed ==
  ASSUME NEW s \in Seq(Node), IsInjective(s), NEW n \in Node,
         NEW p \in 1 .. Len(s), s[p] # n, NEW t, t = RemoveFirst(s, n)
  PROVE  \E r \in 1 .. Len(t) :
           t[r] = s[p] /\ Behind(t, r+1) = RemoveFirst(Behind(s, p+1), n)
<1>1. CASE n \in Range(s)
  <2>1. PICK i \in 1 .. Len(s) : s[i] = n  BY <1>1 DEF Range
  <2>2. t = RemoveAt(s, i)  BY <2>1, RemoveFirstFacts
  <2>3. p # i  BY <2>1
  <2>4. PICK r : r = IF p < i THEN p ELSE p-1  OBVIOUS
  <2>5. r \in 1 .. Len(t) /\ t[r] = s[p]
        /\ Behind(t, r+1) = RemoveFirst(Behind(s, p+1), s[i])
    BY <2>2, <2>3, <2>4, BehindRemoved
  <2>6. QED  BY <2>1, <2>5
<1>2. CASE n \notin Range(s)
  <2>1. t = s  BY <1>2, RemoveFirstFacts
  <2>2. p + 1 \in 1 .. Len(s) + 1 /\ Len(s) \in Nat  OBVIOUS
  <2>3. PICK b : b = Behind(s, p+1)  OBVIOUS
  <2>4. /\ b \in Seq(Node) /\ Len(b) = Len(s) + 1 - (p+1)
        /\ \A i \in 1 .. Len(s) + 1 - (p+1) : b[i] = s[(p+1) + i - 1]
    BY <2>2, <2>3, BehindFacts
  <2>5. \A i \in 1 .. Len(s) + 1 - (p+1) : (p+1) + i - 1 \in 1 .. Len(s)
    BY <2>2
  <2>6. \A i \in 1 .. Len(s) : s[i] # n  BY <1>2 DEF Range
  <2>7. ~ \E i \in 1 .. Len(b) : b[i] = n  BY <2>4, <2>5, <2>6
  <2>8. RemoveFirst(b, n) = b  BY <2>7 DEF RemoveFirst
  <2>9. QED  BY <2>1, <2>3, <2>8
<1>3. QED  BY <1>1, <1>2

LEMMA SameRemoval ==
  ASSUME NEW s, NEW n
  PROVE  Notifying!RemoveFirst(s, n) = RemoveFirst(s, n)
BY DEF RemoveFirst, Notifying!RemoveFirst, SelectInSeq, Notifying!SelectInSeq,
       RemoveAt, Notifying!RemoveAt, Min, Notifying!Min

LEMMA UnsubscribeTold ==
  ASSUME PublishInv, NoneUnderItself, NEW event \in List, NEW n \in Node,
         Unsubscribe(event, n)
  PROVE  Notifying!Unsubscribe(event, n)
<1>1. EventTypeInv /\ ListsInv  BY DEF PublishInv, EventTypeInv
<1>2. Delete(event, n) /\ stack' = DueWithout({event}, n)  BY DEF Unsubscribe
<1>3. Outside \/ (InCallback /\ n \notin InFlight)
  BY DEF Unsubscribe, MayUnsubscribe, Callback, NoneUnderItself
<1>4. \A i \in 1 .. Len(stack) : stack[i].calling  BY <1>3, PublishWalks, AllAreCalling
<1>5. /\ stack' \in Seq(Frame) /\ Len(stack') = Len(stack)
      /\ \A i \in 1 .. Len(stack) :
           /\ stack'[i].event = stack[i].event /\ stack'[i].e = stack[i].e
           /\ stack'[i].calling = stack[i].calling
  BY <1>1, <1>2, Typed, UnsubscribedStack
<1>6. \A i \in 1 .. Len(stack) : stack[i].e # n
  <2>1. stack \in Seq(Frame)  BY <1>1, Typed, StackFacts
  <2>2. CASE Outside  BY <2>2 DEF Outside
  <2>3. CASE n \notin InFlight  BY <2>1, <2>3 DEF InFlight
  <2>4. QED  BY <1>3, <2>2, <2>3
<1>7. /\ ListsInv'
      /\ Contents' = [Contents EXCEPT ![event] = RemoveFirst(Contents[event], n)]
  <2>1. PICK s : s = Contents[event]  OBVIOUS
  <2>2. s \in Seq(Node) /\ IsInjective(s)
    BY <1>1, <2>1, ContentsFacts DEF IsChain
  <2>3. ListsInv'  BY <1>1, <1>2, DeleteStep
  <2>4. CASE n \in Range(s)
    <3>1. PICK i \in 1 .. Len(s) : s[i] = n  BY <2>2, <2>4 DEF Range
    <3>2. Contents' = [Contents EXCEPT ![event] = RemoveAt(s, i)]
      BY <1>1, <1>2, <2>1, <3>1, DeleteStep
    <3>3. RemoveFirst(s, n) = RemoveAt(s, i)  BY <2>2, <3>1, RemoveFirstFacts
    <3>4. QED  BY <2>1, <2>3, <3>2, <3>3
  <2>5. CASE n \notin Range(s)
    <3>1. Contents' = Contents  BY <1>1, <1>2, <2>1, <2>5, DeleteStep
    <3>2. RemoveFirst(s, n) = s  BY <2>2, <2>5, RemoveFirstFacts
    <3>3. Contents = [Contents EXCEPT ![event] = s]  BY <2>1 DEF Contents
    <3>4. QED  BY <2>1, <2>3, <3>1, <3>2, <3>3
  <2>6. QED  BY <2>4, <2>5
<1>8. PICK R : R = [i \in 1 .. Len(stack) |->
                      IF stack[i].event = event
                      THEN RemoveFirst(RestOf(stack[i], next), n)
                      ELSE RestOf(stack[i], next)]
  OBVIOUS
<1>9. ASSUME NEW i \in 1 .. Len(stack)  PROVE RestOf(stack'[i], next') = R[i]
  <2>1. PICK s : s = Contents[stack[i].event]  OBVIOUS
  <2>2. /\ stack[i].event \in List /\ stack[i].e # NULL
        /\ s \in Seq(Node) /\ IsInjective(s) /\ stack[i].calling = TRUE
    BY <1>4, <2>1, PublishWalks, PublishFacts DEF IsChain
  <2>3. PICK p \in 1 .. Len(s) :
          s[p] = stack[i].e /\ RestOf(stack[i], next) = Behind(s, p+1)
    BY <2>1, <2>2, Remaining
  <2>4. PICK t : t = Contents'[stack[i].event]  OBVIOUS
  <2>5. /\ t \in Seq(Node) /\ IsChain(t, head'[stack[i].event], next')
        /\ stack'[i].e = stack[i].e /\ stack'[i].calling
    BY <1>5, <1>7, <2>2, <2>4 DEF ListsInv, Holds
  <2>6. CASE stack[i].event = event
    <3>1. t = RemoveFirst(s, n)  BY <1>7, <2>1, <2>4, <2>6 DEF Contents
    <3>2. s[p] # n  BY <1>6, <2>3
    <3>3. PICK r \in 1 .. Len(t) :
            t[r] = s[p] /\ Behind(t, r+1) = RemoveFirst(Behind(s, p+1), n)
      BY <2>2, <3>1, <3>2, BehindUnsubscribed
    <3>4. t[r] = stack'[i].e  BY <2>3, <2>5, <3>3
    <3>5. RestOf(stack'[i], next') = Behind(t, r+1)
      <4>1. PICK h, nx, f : h = head'[stack[i].event] /\ nx = next' /\ f = stack'[i]
        OBVIOUS
      <4>2. IsChain(t, h, nx) /\ t[r] = f.e /\ f.calling  BY <2>5, <3>4, <4>1
      <4>3. RestOf(f, nx) = Behind(t, r+1)  BY <2>5, <3>3, <4>2, RestCalling
      <4>4. QED  BY <4>1, <4>3
    <3>6. QED  BY <1>8, <2>3, <2>6, <3>3, <3>5
  <2>7. CASE stack[i].event # event
    <3>1. t = s  BY <1>7, <2>1, <2>2, <2>4, <2>7 DEF Contents
    <3>2. p \in 1 .. Len(t) /\ t[p] = stack'[i].e  BY <2>3, <2>5, <3>1
    <3>3. RestOf(stack'[i], next') = Behind(t, p+1)
      <4>1. PICK h, nx, f : h = head'[stack[i].event] /\ nx = next' /\ f = stack'[i]
        OBVIOUS
      <4>2. IsChain(t, h, nx) /\ t[p] = f.e /\ f.calling  BY <2>5, <3>2, <4>1
      <4>3. RestOf(f, nx) = Behind(t, p+1)  BY <2>5, <3>2, <4>2, RestCalling
      <4>4. QED  BY <4>1, <4>3
    <3>4. QED  BY <1>8, <2>3, <2>7, <3>1, <3>3
  <2>8. QED  BY <2>6, <2>7
<1>10. Publishes' = [i \in DOMAIN Publishes |->
         Notifying!Telling(Publishes[i].event, Publishes[i].calling, R[i])]
  BY <1>5, <1>9, RestsChange
<1>11. Publishes' = [i \in DOMAIN Publishes |->
         IF Publishes[i].event = event
         THEN Notifying!Still(Publishes[i],
                              Notifying!RemoveFirst(Publishes[i].rest, n))
         ELSE Publishes[i]]
  <2>1. /\ DOMAIN Publishes = 1 .. Len(stack)
        /\ \A i \in 1 .. Len(stack) : Publishes[i] = Telling(stack[i], next)
    BY PublishesFacts
  <2>2. ASSUME NEW i \in 1 .. Len(stack)
        PROVE  Notifying!Telling(Publishes[i].event, Publishes[i].calling, R[i])
                 = IF Publishes[i].event = event
                   THEN Notifying!Still(Publishes[i],
                          Notifying!RemoveFirst(Publishes[i].rest, n))
                   ELSE Publishes[i]
    <3>1. /\ Publishes[i].event = stack[i].event
          /\ Publishes[i].rest = RestOf(stack[i], next)
          /\ Publishes[i] = Notifying!Telling(Publishes[i].event,
                              Publishes[i].calling, RestOf(stack[i], next))
      BY <2>1, TellingFacts DEF Telling, Notifying!Telling
    <3>2. R[i] = IF stack[i].event = event
                 THEN RemoveFirst(RestOf(stack[i], next), n)
                 ELSE RestOf(stack[i], next)
      BY <1>8
    <3>3. CASE stack[i].event = event
      BY <3>1, <3>2, <3>3, SameRemoval DEF Notifying!Still
    <3>4. CASE stack[i].event # event  BY <3>1, <3>2, <3>4
    <3>5. QED  BY <3>3, <3>4
  <2>3. QED  BY <1>10, <2>1, <2>2
<1>12. Notifying!Outside \/ Notifying!InCallback  BY <1>3, WhereItIs
<1>13. Subscribers' = [Subscribers EXCEPT ![event] =
                         Notifying!RemoveFirst(Subscribers[event], n)]
  BY <1>7, SubscribersAre, SameRemoval
<1>14. QED  BY <1>11, <1>12, <1>13 DEF Notifying!Unsubscribe

LEMMA NotifierStep ==
  NoneUnderItself /\ PublishInv /\ [EventNext]_eventVars
    => [Notifying!Next]_<<Subscribers, Publishes>>
<1>1. SUFFICES ASSUME NoneUnderItself, PublishInv, [EventNext]_eventVars
               PROVE  Notifying!Next \/ UNCHANGED <<Subscribers, Publishes>>
  OBVIOUS
<1>2. CASE Walk
  BY <1>1, <1>2, CallTold, ReturnTold, DoneTold DEF Walk, Notifying!Next
<1>3. ASSUME NEW event \in List, Publish(event)
      PROVE  Notifying!Next
  BY <1>1, <1>3, PublishTold DEF Notifying!Next
<1>4. ASSUME NEW event \in List, ReinitEvent(event)
      PROVE  Notifying!Next
  BY <1>1, <1>4, ReinitTold DEF Notifying!Next
<1>5. ASSUME NEW event \in List, NEW n \in Node, Subscribe(event, n)
      PROVE  Notifying!Next
  BY <1>1, <1>5, SubscribeTold DEF Notifying!Next
<1>6. ASSUME NEW event \in List, NEW n \in Node, Unsubscribe(event, n)
      PROVE  Notifying!Next
  BY <1>1, <1>6, UnsubscribeTold DEF Notifying!Next
<1>7. CASE UNCHANGED eventVars
  BY <1>7 DEF eventVars, listVars, Subscribers, Publishes
<1>8. QED  BY <1>1, <1>2, <1>3, <1>4, <1>5, <1>6, <1>7 DEF EventNext

\* However many events, subscriptions and nested calls there are, the walk
\* along the live links calls whom the abstract notifier calls, in its order.
THEOREM EventsAreNotifiers ==
  ASSUME NoneUnderItself PROVE EventSpec => ImplementsNotifier
<1>1. EventInit => Notifying!Init
  <2>1. SUFFICES ASSUME EventInit PROVE Notifying!Init  OBVIOUS
  <2>2. Contents = [l \in List |-> <<>>]  BY <2>1, ListsStart DEF EventInit
  <2>3. DOMAIN stack = {}  BY <2>1 DEF EventInit
  <2>4. Publishes = <<>>  BY <2>3 DEF Publishes
  <2>5. QED  BY <2>2, <2>4, SubscribersAre DEF Notifying!Init
<1>2. NoneUnderItself /\ EventSpec => []PublishInv  BY PublishInvariant
<1>3. NoneUnderItself /\ PublishInv /\ [EventNext]_eventVars
        => [Notifying!Next]_<<Subscribers, Publishes>>
  BY NotifierStep
<1>4. QED
  BY <1>1, <1>2, <1>3, PTL
     DEF EventSpec, ImplementsNotifier, Notifying!Spec, Notifying!vars
=============================================================================

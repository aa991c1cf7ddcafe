------------------------------- MODULE Event -------------------------------
(***************************************************************************)
(* src/core/event/event.[ch]: events, their lists of subscribers and the   *)
(* calls of event_publish under way.                                       *)
(*                                                                         *)
(* event_publish walks the live list: it calls a subscriber back and reads *)
(* the link of that subscription after the callback has returned.  What    *)
(* the callback did to the list in the meantime (subscribe, unsubscribe,   *)
(* publish again) is what the walk goes on with.  The calls nest, so they  *)
(* are a stack.                                                            *)
(***************************************************************************)
EXTENDS LinkedList

CONSTANTS
  MaxDepth,     \* how many event_publish calls may be nested
  CallbackOps   \* what callbacks do, besides publishing

ASSUME EventConstants ==
  /\ MaxDepth \in Nat
  /\ CallbackOps \subseteq {"subscribe", "resubscribe itself",
                            "unsubscribe itself", "unsubscribe others"}

VARIABLE stack   \* the event_publish calls under way, the innermost last:
                 \*   event: its argument
                 \*   e: its iterator
                 \*   calling: whether the callback of e is running
                 \*   due: (history) the subscriptions it found, or that were
                 \*        made since, and that it has neither called nor
                 \*        seen unsubscribed

eventVars == <<listVars, stack>>

Top == stack[Len(stack)]
InCallback == stack # <<>> /\ Top.calling
InFlight == {stack[i].e : i \in DOMAIN stack}

\* A call of event_publish, and what becomes of the one f.
Publishing(event, e, calling, due) ==
  [event |-> event, e |-> e, calling |-> calling, due |-> due]
Calling(f) == Publishing(f.event, f.e, TRUE, f.due \ {f.e})
MovedTo(n, f) == Publishing(f.event, n, FALSE, f.due)
Owing(due, f) == Publishing(f.event, f.e, f.calling, due)

TopBecomes(f) == stack' = [stack EXCEPT ![Len(stack)] = f]

\* The program runs when no publish is under way; during one, only the
\* callback it is in does.
Outside == stack = <<>>
Callback(op) == InCallback /\ op \in CallbackOps

EventInit ==
  /\ ListsInit
  /\ stack = <<>>

\* event_init on an event in use forgets its subscribers.
ReinitEvent(event) ==
  /\ Outside
  /\ Reinit(event)
  /\ UNCHANGED stack

DueWith(event, n) ==
  [i \in DOMAIN stack |-> Owing(IF stack[i].event = event
                                THEN stack[i].due \cup {n}
                                ELSE stack[i].due, stack[i])]

DueWithout(events, n) ==
  [i \in DOMAIN stack |-> Owing(IF stack[i].event \in events
                                THEN stack[i].due \ {n}
                                ELSE stack[i].due, stack[i])]

MaySubscribe(n) ==
  \/ Outside
  \/ Callback("subscribe") /\ n \notin InFlight
  \/ Callback("resubscribe itself") /\ n = Top.e

Subscribed(event, n) ==
  /\ Push(event, n)
  /\ stack' = DueWith(event, n)

Subscribe(event, n) == MaySubscribe(n) /\ Subscribed(event, n)

MayUnsubscribe(n) ==
  \/ Outside
  \/ Callback("unsubscribe itself") /\ n = Top.e
  \/ Callback("unsubscribe others") /\ n \notin InFlight

Unsubscribe(event, n) ==
  /\ MayUnsubscribe(n)
  /\ Delete(event, n)
  /\ stack' = DueWithout({event}, n)

-----------------------------------------------------------------------------
Begun(event) == Publishing(event, head[event], FALSE, Linked(event))

Publish(event) ==
  /\ Outside \/ InCallback
  /\ Len(stack) < MaxDepth
  /\ stack' = Append(stack, Begun(event))
  /\ UNCHANGED listVars

Walking == stack # <<>> /\ ~Top.calling

\* Seeded fault: the end of the list is not looked for.
CallUnchecked ==
  /\ Walking
  /\ TopBecomes(Calling(Top))
  /\ UNCHANGED listVars

Call ==
  /\ Walking /\ Top.e # NULL
  /\ TopBecomes(Calling(Top))
  /\ UNCHANGED listVars

\* Seeded fault: the walk starts over after each callback.
ReturnToHead ==
  /\ InCallback
  /\ TopBecomes(MovedTo(head[Top.event], Top))
  /\ UNCHANGED listVars

\* Seeded fault: two links are followed at once.
ReturnSkipsOne ==
  /\ InCallback
  /\ LET n == next[Top.e]
     IN  TopBecomes(MovedTo(IF n = NULL THEN NULL ELSE next[n], Top))
  /\ UNCHANGED listVars

\* The callback is done, and its subscription's link says where to go.
Return ==
  /\ InCallback
  /\ TopBecomes(MovedTo(next[Top.e], Top))
  /\ UNCHANGED listVars

PublishReturns ==
  /\ Walking /\ Top.e = NULL
  /\ stack' = SubSeq(stack, 1, Len(stack) - 1)
  /\ UNCHANGED listVars

Walk == Call \/ Return \/ PublishReturns

EventNext ==
  \/ Walk
  \/ \E event \in List :
       \/ ReinitEvent(event)
       \/ Publish(event)
       \/ \E n \in Node : Subscribe(event, n) \/ Unsubscribe(event, n)

EventSpec == EventInit /\ [][EventNext]_eventVars

\* Callbacks return, and so does the code of event_publish itself.
EventFairSpec == EventSpec /\ WF_eventVars(Walk)

-----------------------------------------------------------------------------
Frame == [event : List, e : Pointer, calling : BOOLEAN, due : SUBSET Node]

EventTypeOK ==
  /\ ListsTypeOK
  /\ stack \in Seq(Frame) /\ Len(stack) <= MaxDepth
  /\ \A i \in DOMAIN stack : stack[i].calling => stack[i].e # NULL

\* A callback is called only while its subscription is on the list of the
\* event published: unsubscribing, by whatever callback, is in time.
OnlySubscribersCalled ==
  [][Call => Top.e \in Linked(Top.event)]_eventVars

\* When event_publish is about to return, every subscription that was there
\* when it was called, or was made by a callback since, has been called back or
\* was unsubscribed meanwhile.
PublishReachesAll ==
  \A i \in DOMAIN stack : stack[i].e = NULL => stack[i].due = {}

\* What a call f of event_publish has still to walk, when the links are nx,
\* and what it means to the subscribers.
RestOf(f, nx) == Chain(IF f.calling THEN nx[f.e] ELSE f.e, nx)
Telling(f, nx) ==
  [event   |-> f.event,
   calling |-> IF f.calling THEN f.e ELSE NULL,
   rest    |-> RestOf(f, nx)]
Subscribers == [l \in List |-> Chain(head[l], next)]
Publishes == [i \in DOMAIN stack |-> Telling(stack[i], next)]

\* Events are notifiers: the walk along links that callbacks change calls the
\* subscriptions it should, in order and once each.
Notifying == INSTANCE Notifier WITH
  Event <- List, Subscription <- Node,
  subscribers <- Subscribers, publishes <- Publishes
ImplementsNotifier == Notifying!Spec

\* event_publish comes to its end.
EveryPublishReturns == (stack # <<>>) ~> (stack = <<>>)
=============================================================================

------------------------ MODULE CompositeDatastream ------------------------
(***************************************************************************)
(* src/core/datastream/composite_datastream.[ch] over the ram datastreams  *)
(* of RamDatastream: reads, writes and subscriptions to a key go to the    *)
(* first stream that has the key.  subscribe_all and unsubscribe go to     *)
(* every stream in turn, with the one subscription they are given: here    *)
(* the code itself links a node that is linked already.  The lists may     *)
(* lose their end that way, so these two calls are steps, one per list,    *)
(* and a step is enabled only if the function of list.c it calls returns.  *)
(***************************************************************************)
EXTENDS RamDatastream

CONSTANTS
  Streams,     \* instance->streams, in order
  ForAll       \* the subscriptions the program gives to subscribe_all

ASSUME CompositeConstants ==
  /\ Streams \in Seq(Stream)
  /\ ForAll \subseteq Node

VARIABLES
  todo,   \* what is left of the call under way: for every stream that is left,
          \* its lists that are left
  call,   \* and which call it is: its function and its subscription
  toAll   \* (history) the subscriptions subscribe_all has returned from

compositeVars == <<ramVars, todo, call, toAll>>

NoCall == [op |-> "none", n |-> NULL]

CompositeInit ==
  /\ RamInit
  /\ todo = <<>> /\ call = NoCall
  /\ toAll = {}

Ready == call = NoCall

Having(k) == {i \in DOMAIN Streams : HasKey(Streams[i], k)}

\* Seeded fault: the last stream that has the key is taken.
FindLastStream(k) == IF Having(k) = {} THEN NULL ELSE Streams[Max(Having(k))]

FindStream(k) == IF Having(k) = {} THEN NULL ELSE Streams[Min(Having(k))]

CompositeWrite(k, data) ==
  /\ Ready
  /\ FindStream(k) # NULL
  /\ \/ Write(FindStream(k), k, data)
     \/ WriteWithoutEffect(FindStream(k), k, data)
  /\ UNCHANGED <<todo, call, toAll>>

CompositeSubscribe(k, n) ==
  /\ Ready /\ n \notin ForAll
  /\ FindStream(k) # NULL
  /\ SubscribeKey(FindStream(k), k, n)
  /\ UNCHANGED <<todo, call, toAll>>

\* A key no stream has.
KeyNotFound(k) ==
  /\ Ready /\ (Outside \/ InCallback)
  /\ FindStream(k) = NULL
  /\ UNCHANGED compositeVars

-----------------------------------------------------------------------------
CompositeSubscribeAll(n) ==
  /\ Ready /\ n \in ForAll
  /\ MaySubscribe(n)
  /\ Unlinked(n)
  /\ call' = [op |-> "subscribe_all", n |-> n]
  /\ todo' = [i \in DOMAIN Streams |-> <<AllOf(Streams[i])>>]
  /\ heard' = [heard EXCEPT ![n] = [s \in Stream |-> Knows(s, KeysOf(s))]]
  /\ UNCHANGED <<eventVars, value, writes, toAll>>

NextList == Head(Head(todo))

\* On to the next list of the stream, or to the next stream.
ListDone ==
  todo' = IF Len(Head(todo)) > 1 THEN [todo EXCEPT ![1] = Tail(@)] ELSE Tail(todo)

PushToNext ==
  /\ call.op = "subscribe_all" /\ todo # <<>>
  /\ PushEnds(head[NextList], next, call.n)
  /\ Becomes(NextList, ListPush(head[NextList], next, call.n))
  /\ stack' = DueWith(NextList, call.n)
  /\ ListDone
  /\ UNCHANGED <<value, writes, heard, call, toAll>>

\* The lists of a stream in the order its unsubscribe visits them.
ListsInOrder(s) == Append([i \in 1 .. Count(s) |-> On(s, i - 1)], AllOf(s))

CompositeUnsubscribe(n) ==
  /\ Ready /\ MayUnsubscribe(n)
  /\ call' = [op |-> "unsubscribe", n |-> n]
  /\ todo' = [i \in DOMAIN Streams |-> ListsInOrder(Streams[i])]
  /\ toAll' = toAll \ {n}
  /\ UNCHANGED ramVars

DeleteFromNext ==
  /\ call.op = "unsubscribe" /\ todo # <<>>
  /\ DeleteEnds(head[NextList], next, call.n)
  /\ Becomes(NextList, ListDelete(head[NextList], next, call.n))
  /\ stack' = DueWithout({NextList}, call.n)
  /\ ListDone
  /\ UNCHANGED <<value, writes, heard, call, toAll>>

\* Seeded fault: the loop over the streams is left after the first.
CallReturnsEarly ==
  /\ ~Ready
  /\ call' = NoCall
  /\ IF call.op = "subscribe_all"
     THEN toAll' = toAll \cup {call.n} /\ UNCHANGED heard
     ELSE heard' = [heard EXCEPT ![call.n] = Nothing] /\ UNCHANGED toAll
  /\ UNCHANGED <<eventVars, value, writes, todo>>

CallReturns ==
  /\ ~Ready /\ todo = <<>>
  /\ call' = NoCall
  /\ IF call.op = "subscribe_all"
     THEN toAll' = toAll \cup {call.n} /\ UNCHANGED heard
     ELSE heard' = [heard EXCEPT ![call.n] = Nothing] /\ UNCHANGED toAll
  /\ UNCHANGED <<eventVars, value, writes, todo>>

\* What the code does by itself, once the program has called it, and what the
\* program does to get on: a callback returns.
CodeProceeds ==
  \/ /\ Ready
     /\ Tell \/ WriteGoesOn \/ WriteReturns
     /\ UNCHANGED <<todo, call, toAll>>
  \/ PushToNext \/ DeleteFromNext \/ CallReturns

CompositeCallbackReturns ==
  Ready /\ CallbackReturns /\ UNCHANGED <<todo, call, toAll>>

CompositeNext ==
  \/ CodeProceeds \/ CompositeCallbackReturns
  \/ \E k \in Key : KeyNotFound(k)
  \/ \E k \in Key, data \in Value : CompositeWrite(k, data)
  \/ \E k \in Key, n \in Node : CompositeSubscribe(k, n)
  \/ \E n \in Node : CompositeSubscribeAll(n) \/ CompositeUnsubscribe(n)

CompositeSpec == CompositeInit /\ [][CompositeNext]_compositeVars

\* Loops that have an end are run to it, and a callback does not call
\* unsubscribe for ever but returns.
CompositeFairSpec ==
  /\ CompositeSpec
  /\ WF_compositeVars(CodeProceeds)
  /\ SF_compositeVars(CompositeCallbackReturns)

-----------------------------------------------------------------------------
CompositeTypeOK ==
  /\ RamTypeOK
  /\ todo \in Seq(Seq(List) \ {<<>>})
  /\ call \in [op : {"subscribe_all", "unsubscribe"}, n : Node] \cup {NoCall}
  /\ Ready => todo = <<>>
  /\ toAll \subseteq ForAll

\* A subscription given to subscribe_all is on the list of every stream, once,
\* and a walk of that list comes to an end.
OnEveryStream ==
  Ready => \A n \in toAll, s \in Range(Streams) :
             /\ n \in Linked(AllOf(s))
             /\ WalkEnds(head[AllOf(s)], next)

\* One write calls each of its subscriptions once: no subscription is called
\* that the publish has called before and that was not made anew since.
EachCalledOnce == [][Tell => Top.e \in Top.due]_compositeVars

\* When unsubscribe returns, the subscription is on no list of any stream: one
\* call undoes subscribe_all and every subscribe, whatever happened between.
UnsubscribeIsThorough ==
  [][CallReturns /\ call.op = "unsubscribe" =>
       \A l \in List : call.n \notin Linked(l)']_compositeVars

\* No key is stored in, or heard from, any stream but the first that has it.
OneOwner ==
  \A i, j \in DOMAIN Streams, k \in Key :
    i < j /\ HasKey(Streams[i], k) => value[Streams[j]][k] = Zero

\* Everything that was called returns, unless callbacks go on for ever hanging
\* subscriptions behind the walk they are called from.
KeepsSubscribing ==
  []<><<\E n \in Node : CompositeSubscribeAll(n)
                       \/ \E k \in Key : CompositeSubscribe(k, n)>>_compositeVars
EveryCallReturns ==
  KeepsSubscribing \/ (~(Ready /\ Outside) ~> (Ready /\ Outside))
=============================================================================

------------------------------ MODULE Notifier -----------------------------
(***************************************************************************)
(* What the event API promises, without links: an event has a sequence of  *)
(* subscriptions, and a publish calls them one after the other.  A         *)
(* subscription made during a publish is called by it at the end, one      *)
(* ended before its turn is not called, and publishes nest.                *)
(***************************************************************************)
EXTENDS Integers, SequencesExt

CONSTANTS Event, Subscription, NULL

VARIABLES
  subscribers,   \* subscribers[e]: the subscriptions to e in order
  publishes      \* the publishes under way, innermost last:
                 \*   event: what is published
                 \*   calling: the subscription being called, or NULL
                 \*   rest: those it has still to call, in order

vars == <<subscribers, publishes>>

Top == publishes[Len(publishes)]
Outside == publishes = <<>>
InCallback == ~Outside /\ Top.calling # NULL
Subscribed(n) == \E e \in Event : n \in Range(subscribers[e])

\* A publish of e, with `rest` still to call; and one with its rest changed.
Telling(e, calling, rest) == [event |-> e, calling |-> calling, rest |-> rest]
Still(p, rest) == Telling(p.event, p.calling, rest)

Init ==
  /\ subscribers = [e \in Event |-> <<>>]
  /\ publishes = <<>>

Clear(e) ==
  /\ Outside
  /\ subscribers' = [subscribers EXCEPT ![e] = <<>>]
  /\ UNCHANGED publishes

Subscribe(e, n) ==
  /\ Outside \/ InCallback
  /\ ~Subscribed(n)
  /\ subscribers' = [subscribers EXCEPT ![e] = Append(@, n)]
  /\ publishes' = [i \in DOMAIN publishes |->
                     IF publishes[i].event = e
                     THEN Still(publishes[i], Append(publishes[i].rest, n))
                     ELSE publishes[i]]

Unsubscribe(e, n) ==
  /\ Outside \/ InCallback
  /\ subscribers' = [subscribers EXCEPT ![e] = RemoveFirst(@, n)]
  /\ publishes' = [i \in DOMAIN publishes |->
                     IF publishes[i].event = e
                     THEN Still(publishes[i], RemoveFirst(publishes[i].rest, n))
                     ELSE publishes[i]]

Publish(e) ==
  /\ Outside \/ InCallback
  /\ publishes' = Append(publishes, Telling(e, NULL, subscribers[e]))
  /\ UNCHANGED subscribers

Call ==
  /\ ~Outside /\ Top.calling = NULL /\ Top.rest # <<>>
  /\ publishes' = [publishes EXCEPT ![Len(publishes)] =
                      Telling(Top.event, Head(Top.rest), Tail(Top.rest))]
  /\ UNCHANGED subscribers

Return ==
  /\ InCallback
  /\ publishes' = [publishes EXCEPT ![Len(publishes)] =
                      Telling(Top.event, NULL, Top.rest)]
  /\ UNCHANGED subscribers

Done ==
  /\ ~Outside /\ Top.calling = NULL /\ Top.rest = <<>>
  /\ publishes' = Front(publishes)
  /\ UNCHANGED subscribers

Next ==
  \/ Call \/ Return \/ Done
  \/ \E e \in Event :
       \/ Clear(e) \/ Publish(e)
       \/ \E n \in Subscription : Subscribe(e, n) \/ Unsubscribe(e, n)

Spec == Init /\ [][Next]_vars
=============================================================================

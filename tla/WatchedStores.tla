---------------------------- MODULE WatchedStores ---------------------------
(***************************************************************************)
(* What the datastream API promises, without events, walks and links:      *)
(* stores of values under keys, and subscriptions that watch one key of a  *)
(* store or all of them.  A write that changes a value calls whoever       *)
(* watches the key and then whoever watches all keys, each in the order in *)
(* which they subscribed, and hands them what was written.  A subscription *)
(* made during a write is called by it if its kind's turn is not over, one *)
(* ended before its turn is not called, and writes nest.                   *)
(***************************************************************************)
EXTENDS Integers, SequencesExt

CONSTANTS
  Store, Key, Watcher, Value, Zero, NULL,
  KeysIn    \* KeysIn[s]: the keys that store s has

VARIABLES
  value,         \* value[s][k]: what s holds under k
  watching,      \* watching[s][k]: the subscriptions to that key, in order
  watchingAll,   \* watchingAll[s]: the subscriptions to all keys of s
  writes         \* the writes under way, innermost last:
                 \*   store, key, data: what is written, and where
                 \*   calling: the subscription being called, or NULL
                 \*   all: whether that one watches all keys
                 \*   rest, restAll: those of either kind still to be called

vars == <<value, watching, watchingAll, writes>>

Top == writes[Len(writes)]
Outside == writes = <<>>
InCallback == ~Outside /\ Top.calling # NULL
Watches(n) ==
  \E s \in Store : \/ n \in Range(watchingAll[s])
                   \/ \E k \in KeysIn[s] : n \in Range(watching[s][k])

\* A write w that has got so far.
Going(w, calling, all, rest, restAll) ==
  [store |-> w.store, key |-> w.key, data |-> w.data, calling |-> calling,
   all |-> all, rest |-> rest, restAll |-> restAll]
Still(w, rest, restAll) == Going(w, w.calling, w.all, rest, restAll)

TopBecomes(w) ==
  /\ writes' = [writes EXCEPT ![Len(writes)] = w]
  /\ UNCHANGED <<value, watching, watchingAll>>

Init ==
  /\ value = [s \in Store |-> [k \in Key |-> Zero]]
  /\ watching = [s \in Store |-> [k \in KeysIn[s] |-> <<>>]]
  /\ watchingAll = [s \in Store |-> <<>>]
  /\ writes = <<>>

Clear(s) ==
  /\ Outside
  /\ value' = [value EXCEPT ![s] = [k \in Key |-> Zero]]
  /\ watching' = [watching EXCEPT ![s] = [k \in KeysIn[s] |-> <<>>]]
  /\ watchingAll' = [watchingAll EXCEPT ![s] = <<>>]
  /\ UNCHANGED writes

Write(s, k, data) ==
  /\ Outside \/ InCallback
  /\ k \in KeysIn[s] /\ value[s][k] # data
  /\ value' = [value EXCEPT ![s][k] = data]
  /\ writes' = Append(writes, Going([store |-> s, key |-> k, data |-> data],
                                    NULL, FALSE, watching[s][k], watchingAll[s]))
  /\ UNCHANGED <<watching, watchingAll>>

Call ==
  /\ ~Outside /\ Top.calling = NULL /\ Top.rest # <<>>
  /\ TopBecomes(Going(Top, Head(Top.rest), FALSE, Tail(Top.rest), Top.restAll))

\* The turn of those who watch all comes when nobody else is left.
CallForAll ==
  /\ ~Outside /\ Top.calling = NULL /\ Top.rest = <<>> /\ Top.restAll # <<>>
  /\ TopBecomes(Going(Top, Head(Top.restAll), TRUE, <<>>, Tail(Top.restAll)))

Return ==
  /\ InCallback
  /\ TopBecomes(Going(Top, NULL, FALSE, Top.rest, Top.restAll))

Done ==
  /\ ~Outside /\ Top.calling = NULL /\ Top.rest = <<>> /\ Top.restAll = <<>>
  /\ writes' = Front(writes)
  /\ UNCHANGED <<value, watching, watchingAll>>

Subscribe(s, k, n) ==
  /\ Outside \/ InCallback
  /\ k \in KeysIn[s] /\ ~Watches(n)
  /\ watching' = [watching EXCEPT ![s][k] = Append(@, n)]
  /\ writes' = [i \in DOMAIN writes |->
                  LET w == writes[i]
                  IN  IF w.store = s /\ w.key = k /\ ~w.all
                      THEN Still(w, Append(w.rest, n), w.restAll) ELSE w]
  /\ UNCHANGED <<value, watchingAll>>

SubscribeAll(s, n) ==
  /\ Outside \/ InCallback
  /\ ~Watches(n)
  /\ watchingAll' = [watchingAll EXCEPT ![s] = Append(@, n)]
  /\ writes' = [i \in DOMAIN writes |->
                  LET w == writes[i]
                  IN  IF w.store = s
                      THEN Still(w, w.rest, Append(w.restAll, n)) ELSE w]
  /\ UNCHANGED <<value, watching>>

Unsubscribe(s, n) ==
  /\ Outside \/ InCallback
  /\ watching' = [watching EXCEPT ![s] =
                    [k \in KeysIn[s] |-> RemoveFirst(watching[s][k], n)]]
  /\ watchingAll' = [watchingAll EXCEPT ![s] = RemoveFirst(@, n)]
  /\ writes' = [i \in DOMAIN writes |->
                  LET w == writes[i]
                  IN  IF w.store = s
                      THEN Still(w, RemoveFirst(w.rest, n),
                                    RemoveFirst(w.restAll, n)) ELSE w]
  /\ UNCHANGED value

Next ==
  \/ Call \/ CallForAll \/ Return \/ Done
  \/ \E s \in Store :
       \/ Clear(s)
       \/ \E k \in Key, data \in Value : Write(s, k, data)
       \/ \E n \in Watcher : \/ \E k \in Key : Subscribe(s, k, n)
                             \/ SubscribeAll(s, n) \/ Unsubscribe(s, n)

Spec == Init /\ [][Next]_vars
=============================================================================

--------------------------- MODULE RamDatastream ---------------------------
(***************************************************************************)
(* src/core/datastream/ram_datastream.[ch] behind i_datastream.h: values   *)
(* under keys, one event per key and one for all keys.  A write that       *)
(* changes the stored value publishes it, first to the subscribers of the  *)
(* key and then to those of all keys; their callbacks run inside the write *)
(* and may write again.  The subscribers are told the data the write was   *)
(* given, not what is stored by the time they are called.                  *)
(***************************************************************************)
EXTENDS Event

CONSTANTS
  Stream,         \* the datastreams
  Key,            \* the keys the program uses
  ConfigOf,       \* ConfigOf[s]: instance->config
  Entries,        \* Entries[c]: the offsets and sizes in config->entries
  Value, Zero,    \* what an entry holds, and what all-zero bytes mean
  RewriteInFlight \* whether a callback writes a key that is being written

Count(s) == Len(Entries[ConfigOf[s]])
Entry(s, k) == Entries[ConfigOf[s]][k + 1]

\* The event of a key is part of the entry, and the entries are part of the
\* configuration: datastreams with one configuration would share them.
On(s, k) == <<ConfigOf[s], k>>   \* entries[k].entry_on_change
AllOf(s) == <<s>>                \* all_on_change
EventsOf(s) == {AllOf(s)} \cup {On(s, k) : k \in 0 .. Count(s) - 1}

\* The macros of ram_datastream_utils.h lay the entries out in the order of
\* the keys.  A datastream has at least one.
ASSUME RamConstants ==
  /\ Key \subseteq Nat
  /\ Entries \in [DOMAIN Entries -> Seq([offset : Nat, size : Nat])]
  /\ ConfigOf \in [Stream -> DOMAIN Entries]
  /\ \A s \in Stream :
       /\ Count(s) > 0 /\ 0 .. Count(s) - 1 \subseteq Key
       /\ \A j \in 1 .. Count(s) - 1 :
            Entry(s, j - 1).offset + Entry(s, j - 1).size <= Entry(s, j).offset
  /\ List = UNION {EventsOf(s) : s \in Stream}
  /\ Zero \in Value /\ RewriteInFlight \in BOOLEAN

VARIABLES
  value,    \* value[s][k]: the storage
  writes,   \* the writes under way, innermost last; stack[i] is the publish
            \* that writes[i] is in
  heard     \* (history) heard[n][s][k]: the value of k subscription n knows

ramVars == <<eventVars, value, writes, heard>>

Zeroes == [k \in Key |-> Zero]
Nothing == [s \in Stream |-> Zeroes]

\* contains(): no entry is ever touched under a key without one.
HasKey(s, k) == k < Count(s) /\ Entry(s, k).size > 0
KeysOf(s) == {k \in Key : HasKey(s, k)}

\* Seeded fault: the size of the last entry is not added.
StorageUpToLast(s) == Entry(s, Count(s) - 1).offset

\* ram_datastream_init clears the storage up to the end of the last entry, and
\* with it the entries that end there or before.
StorageEnd(s) == Entry(s, Count(s) - 1).offset + Entry(s, Count(s) - 1).size
Cleared(s, before) ==
  [k \in Key |->
     IF HasKey(s, k) /\ Entry(s, k).offset + Entry(s, k).size > StorageEnd(s)
     THEN before[k] ELSE Zero]

\* The storage is the program's and holds anything before.
RamInit ==
  /\ EventInit
  /\ \E garbage \in Value :
       value = [s \in Stream |-> Cleared(s, [k \in Key |-> garbage])]
  /\ writes = <<>>
  /\ heard = [n \in Node |-> Nothing]

\* ram_datastream_init on a datastream in use.
RamReinit(s) ==
  /\ Outside
  /\ head' = [l \in List |-> IF l \in EventsOf(s) THEN NULL ELSE head[l]]
  /\ value' = [value EXCEPT ![s] = Cleared(s, @)]
  /\ heard' = [n \in Node |-> [heard[n] EXCEPT ![s] = Zeroes]]
  /\ UNCHANGED <<next, stack, writes>>

-----------------------------------------------------------------------------
BeingWritten(s, k) == \E i \in DOMAIN writes : writes[i].stream = s /\ writes[i].key = k
MayWrite(s, k) == InCallback /\ BeingWritten(s, k) => RewriteInFlight

\* Seeded fault: only a change from zero is a change.
WriteOfSecondValueIsSilent(s, k, data) ==
  /\ HasKey(s, k) /\ value[s][k] # data
  /\ MayWrite(s, k)
  /\ value' = [value EXCEPT ![s][k] = data]
  /\ IF value[s][k] = Zero
     THEN /\ Publish(On(s, k))
          /\ writes' = Append(writes, [stream |-> s, key |-> k, data |-> data])
     ELSE (Outside \/ InCallback) /\ UNCHANGED <<eventVars, writes>>
  /\ UNCHANGED heard

\* The value is stored and the subscribers of the key come first.
Write(s, k, data) ==
  /\ HasKey(s, k) /\ value[s][k] # data
  /\ MayWrite(s, k)
  /\ value' = [value EXCEPT ![s][k] = data]
  /\ Publish(On(s, k))
  /\ writes' = Append(writes, [stream |-> s, key |-> k, data |-> data])
  /\ UNCHANGED heard

\* Seeded fault: a key without an entry is written all the same.
WriteWithoutEntry(s, k, data) ==
  /\ ~(HasKey(s, k) /\ value[s][k] # data)
  /\ Outside \/ InCallback
  /\ value' = [value EXCEPT ![s][k] = data]
  /\ UNCHANGED <<eventVars, writes, heard>>

\* A key the datastream has no entry for, or a value that is no change.
WriteWithoutEffect(s, k, data) ==
  /\ ~(HasKey(s, k) /\ value[s][k] # data)
  /\ Outside \/ InCallback
  /\ UNCHANGED ramVars

Writing == writes[Len(writes)]
ToAll == Top.event = AllOf(Writing.stream)

\* Then those of all keys.
WriteGoesOn ==
  /\ Walking /\ Top.e = NULL /\ ~ToAll
  /\ TopBecomes(Begun(AllOf(Writing.stream)))
  /\ UNCHANGED <<listVars, value, writes, heard>>

\* Seeded fault: the write is over when the subscribers of the key are told.
WriteReturnsEarly ==
  /\ PublishReturns
  /\ writes' = SubSeq(writes, 1, Len(writes) - 1)
  /\ UNCHANGED <<value, heard>>

WriteReturns ==
  /\ PublishReturns /\ ToAll
  /\ writes' = SubSeq(writes, 1, Len(writes) - 1)
  /\ UNCHANGED <<value, heard>>

\* A subscription is called with the key and the data of the write.
Tell ==
  /\ Call
  /\ heard' = [heard EXCEPT ![Top.e][Writing.stream][Writing.key] = Writing.data]
  /\ UNCHANGED <<value, writes>>

CallbackReturns == Return /\ UNCHANGED <<value, writes, heard>>

-----------------------------------------------------------------------------
\* Whoever subscribes is expected to read what is stored first.
Knows(s, keys) ==
  [k \in Key |-> IF k \in keys THEN value[s][k] ELSE Zero]

KeySubscribed(s, k, n) ==
  /\ HasKey(s, k)
  /\ Subscribed(On(s, k), n)
  /\ heard' = [heard EXCEPT ![n][s] = Knows(s, {k})]
  /\ UNCHANGED <<value, writes>>

SubscribeKey(s, k, n) == MaySubscribe(n) /\ KeySubscribed(s, k, n)

SubscribeAll(s, n) ==
  /\ Subscribe(AllOf(s), n)
  /\ heard' = [heard EXCEPT ![n][s] = Knows(s, KeysOf(s))]
  /\ UNCHANGED <<value, writes>>

\* Seeded fault: the loop over the entries begins at the second.
EventsAfterFirst(s) == EventsOf(s) \ {On(s, 0)}

\* The events datastream_unsubscribe goes through.
EventsSearched(s) == EventsOf(s)

\* The subscription is looked for on every list of the datastream and deleted
\* from the one it is on; deleting it from the others changes nothing.
DeletedWherever(events, n) ==
  \/ \E l \in events : n \in Linked(l) /\ Delete(l, n)
  \/ (\A l \in events : n \notin Linked(l)) /\ UNCHANGED listVars

UnsubscribedFrom(s, n) ==
  /\ DeletedWherever(EventsSearched(s), n)
  /\ stack' = DueWithout(EventsSearched(s), n)
  /\ heard' = [heard EXCEPT ![n][s] = Zeroes]
  /\ UNCHANGED <<value, writes>>

UnsubscribeFrom(s, n) == MayUnsubscribe(n) /\ UnsubscribedFrom(s, n)

RamNext ==
  \/ Tell \/ CallbackReturns \/ WriteGoesOn \/ WriteReturns
  \/ \E s \in Stream :
       \/ RamReinit(s)
       \/ \E k \in Key, data \in Value :
            Write(s, k, data) \/ WriteWithoutEffect(s, k, data)
       \/ \E n \in Node :
            \/ \E k \in Key : SubscribeKey(s, k, n)
            \/ SubscribeAll(s, n)
            \/ UnsubscribeFrom(s, n)

RamSpec == RamInit /\ [][RamNext]_ramVars

-----------------------------------------------------------------------------
RamTypeOK ==
  /\ EventTypeOK
  /\ value \in [Stream -> [Key -> Value]]
  /\ \A s \in Stream, k \in Key : value[s][k] # Zero => HasKey(s, k)
  /\ writes \in Seq([stream : Stream, key : Key, data : Value])
  /\ Len(writes) = Len(stack)
  /\ heard \in [Node -> [Stream -> [Key -> Value]]]

Interested(n, s, k) == n \in Linked(On(s, k)) \cup Linked(AllOf(s))

\* When no write is under way, whoever subscribes to a key was last told the
\* value that is stored, whatever the callbacks wrote while the news of it
\* was still on its way.
HeardIsCurrent ==
  Outside => \A s \in Stream, k \in Key, n \in Node :
               HasKey(s, k) /\ Interested(n, s, k) =>
                 heard[n][s][k] = value[s][k]

\* A datastream whose unsubscribe returned has forgotten the subscription.
UnsubscribeIsComplete ==
  [][\A s \in Stream, n \in Node :
       UnsubscribeFrom(s, n) => \A l \in EventsOf(s) : n \notin Linked(l)']_ramVars

\* Whatever the storage held, a datastream that was just initialised has zeroes
\* under every key, and nobody is subscribed to it.
InitStartsAfresh ==
  /\ value = Nothing
  /\ [][\A s \in Stream :
          RamReinit(s) => /\ value'[s] = Zeroes
                          /\ \A l \in EventsOf(s) : Linked(l)' = {}]_ramVars

-----------------------------------------------------------------------------
\* The write w, in the publish f, to those it has still to tell when the heads
\* and links are hd and nx.  Before it tells the subscribers of all keys, these
\* are whoever will be on their list by then.
StillToTell(w, f, hd, nx) ==
  LET toAll == f.event = AllOf(w.stream)
  IN  [store |-> w.stream, key |-> w.key, data |-> w.data,
       calling |-> IF f.calling THEN f.e ELSE NULL,
       all |-> toAll /\ f.calling,
       rest |-> IF toAll THEN <<>> ELSE RestOf(f, nx),
       restAll |-> IF toAll THEN RestOf(f, nx)
                   ELSE Chain(hd[AllOf(w.stream)], nx)]
WritesToTell ==
  [i \in DOMAIN stack |-> StillToTell(writes[i], stack[i], head, next)]
SubscribersOf ==
  [s \in Stream |-> [k \in KeysOf(s) |-> Chain(head[On(s, k)], next)]]
SubscribersOfAll == [s \in Stream |-> Chain(head[AllOf(s)], next)]

\* Datastreams are watched stores: one walk after the other along links that
\* callbacks change tells whoever should be told, in order, what was written.
Stores == INSTANCE WatchedStores WITH
  Store <- Stream, Watcher <- Node, KeysIn <- [s \in Stream |-> KeysOf(s)],
  watching <- SubscribersOf, watchingAll <- SubscribersOfAll,
  writes <- WritesToTell
ImplementsWatchedStores == Stores!Spec
=============================================================================

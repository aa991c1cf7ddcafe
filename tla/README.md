# Siera in TLA+

SIERA is a small runtime for embedded applications in C: intrusive lists and
queues, events, software timers, state machines, datastreams that publish their
changes, and a display that shows views.  It has one thread.  What makes it hard
is that nearly every component *calls back into the program while it is in the
middle of something*: on a list it is walking, between two assignments, or after
reading a pointer it will use later.  The program may do anything in such a
callback, including calling the same component again.

The modules here follow that structure.  A function that calls nobody is one
action.  A function that calls back is several: one step up to each call, one
for each return, and between them whatever the program may do.

## The system and its parts

| part | code (under `src/`) | state | operations |
|---|---|---|---|
| list | `core/data_structures/list.[ch]` | `head` of each list, `next` of each node | init, add_front, push, delete, for_each |
| queue | `core/data_structures/queue.[ch]` | a list and a `uint16_t size` | init, enqueue, dequeue, peek, size, is_empty |
| event | `core/event/*` | a list of subscriptions | init, subscribe, unsubscribe, publish |
| timers | `core/timer/*` | per controller a list of timers and `current_ticks`; per timer its controller, interval, expiration | init, run, start_one_shot, start_repeating, stop, is_active |
| state machine | `core/state_machine/fsm.[ch]` | `current_state` | init, signal, transition |
| ram datastream | `core/datastream/ram_datastream.[ch]` | storage, an event per entry and one for all | read, write, contains, size, subscribe, subscribe_all, unsubscribe |
| composite datastream | `core/datastream/composite_datastream.[ch]` | an array of datastreams | the same, passed on |
| display | `driver/simulator/display_simulator.c` | `current_view`, a subscription, the static `contexts` of the input widgets | init, on_view_change, on_button_event, on_switch_event, on_slider_event |
| menu iterator | `ui/view/menu_iter.h`, `core/utils.h` | length and index | menu_iter, menu_list_move |
| time source | `driver/simulator/timesource_simulator.c` | the clock | get_ticks |

**How they interact.**  Queue, event and timer controller each own a `list_t`,
and a `queue_node_t`, subscription or timer *is* its link: one node can be on
one list, once, and nothing checks this.  A ram datastream owns events and
publishes inside `write`.  A composite datastream forwards calls to its
streams, handing them all the *same* subscription.  The display subscribes to
the key that holds the view to show, and calls the `unload` and `load` of views
inside that write; its input widgets write the bsp datastream, which views
subscribe to while they are loaded.  A timer remembers the controller it was
started on, and a controller reads the time source once per run.

**What is hard.**

- *Walks over a list that changes* (`event_publish`, `timer_controller_run`):
  the event reads the link after the callback, the timer before it, and each
  choice is wrong for something.
- *Functions that call themselves through a callback*: a publish in a
  publish, a write in a write, a transition in a transition, a view change in a
  view change.
- *Old values*: `current_ticks` is the time of the last run; a write tells its
  subscribers what it was given, which need not be what is stored by then.
- *Shared storage*: all displays fill one array of contexts, the events of a
  datastream's keys live in its configuration, a timer moves between controllers.
- *Old links*: a deleted node keeps its link, and a new one has garbage.
- *Numbers*: ticks that wrap, differences read as signed, a counter beside a
  list, the remainder of a negative number.
- *Termination* of walks and of the main loop.

Nothing is persisted, nothing is sent over a network, and there are no threads
or interrupts in the repository, so crashes, lost messages and data races are
not part of the model.

**What makes each part right.**

- *Lists*: each is a chain that ends, two lists share no node, each operation
  does to a sequence what its name says.
- *Queues*: the counter is the length; first in, first out.
- *Events*: a publish calls every subscription that was there and was not
  unsubscribed meanwhile, or was made meanwhile, in order; nobody is called who
  is not subscribed; it returns.
- *Timers*: a timer fires in the first run in which it is due and not before (one that is started
  in a run with no ticks to wait may be fired by that run), repeating
  ones keep their phase, across the wrap of the ticks; a stopped timer does not fire,
  and stopping finds it on whatever controller it is; the result is the time to the next expiration and never 0.
- *State machine*: ENTER and EXIT pair up, one state at a time.
- *Datastreams*: when the dust settles every subscriber knows what is stored;
  an unsubscribe is complete; an initialisation starts afresh; a key has one owner.
- *Display*: one view is loaded, it is the one that is stored, and no other
  hears of inputs; an input reaches the key of its widget.
- *Menu*: the cursor is where the steps lead on a circle.

## The modules

| module | models | composed from |
|---|---|---|
| `IntrusiveList` | `list.c` as operators on a head and a heap of links | |
| `LinkedList` | any number of lists over one pool of nodes | `IntrusiveList` |
| `AbstractLists` | the list API: sequences | |
| `Queue` | `queue.c` | `LinkedList` |
| `FifoQueue` | the queue API: first in, first out | |
| `Event` | `event.c` | `LinkedList` |
| `Notifier` | the event API: sequences of subscriptions, no links | |
| `Timer` | `timer.c`, any number of controllers, and a clock | `LinkedList` |
| `ExactTimers` | the timer API: ticks left, no list and no wrap | |
| `TimerHistory` | `Timer` with what each caller asked for, and when | `Timer` |
| `Fsm` | `fsm.c` | |
| `RamDatastream` | `ram_datastream.c` | `Event` |
| `WatchedStores` | the datastream API: values and who watches them, no events and no links | |
| `CompositeDatastream` | `composite_datastream.c` | `RamDatastream` |
| `DisplaySimulator` | `display_simulator.c` and its views over a ram and a bsp stream | `RamDatastream` |
| `MenuIter` | `menu_iter.h`, `WRAP` | |
| `LinkedListProofs` | the theorems about lists, and the lemmas about chains and sequences that all others rest on | `LinkedList` |
| `QueueProofs`, `EventProofs`, `TimerProofs` | the theorems of the module they are named after (`TimerProofs`: and of `TimerHistory`) | `LinkedListProofs` |
| `FsmMenuProofs` | the theorems about the two parts that keep no lists | `Fsm`, `MenuIter` |
| `DatastreamProofs` | the theorems about ram datastreams | `EventProofs` |
| `CompositeProofs`, `DisplayProofs` | those about composite datastreams and the display | `DatastreamProofs` |

The modules `MC*` and their `.cfg` files give the constants values for TLC.
Operators whose comment begins *Seeded fault* are not part of the model: each
is a definition with a plausible mistake, and stands beside the definition it
would replace.  They say which mistakes the properties notice.

### How state and actions correspond to the code

**Lists.**  `next` is one function from nodes to pointers, shared by all lists, because in the
code it is a field of the node; `head[l]` is `list->head`.  The loops of
`list_push` and `list_delete` are replaced by what they find: `Reach(h, nx)` is
the least set closed under the links, so it is the set of nodes a walk visits, also if the
walk goes round in a ring.  The loop of `list_push` ends at a node of it with a null link, that of
`list_delete` at one whose link is the node sought.  (Whether they end at all
is `PushEnds`, `DeleteEnds`; where the rule of use below holds they always do,
which is `ListsWellFormed`.)  `list_delete` leaves the link of the deleted node
alone, and so does the model; links start with arbitrary values.  The rule
of use that no node is linked while it is on a list is `Unlinked`, a guard of
`Push` and `AddFront`.  The composite datastream breaks it, and there the
guard is not used.

**Queues.**  `size` counts modulo `SizeMod` (65536 in the code).  `result` is
what the last `queue_dequeue` or `queue_peek` returned.

**Events.**  `stack` holds the calls of `event_publish` under way.  `Publish`
pushes one, with its iterator `e` at the head; `Call` calls the subscription at
`e`; `Return` follows `next[e]` *as it is then*; `PublishReturns` pops.  While a callback
runs the program may take the steps in `CallbackOps`, and publish while fewer than `MaxDepth`
calls are nested.  `due` is history: whom the call has still to reach.
`Notifier` states the same without links: what a publish has still to do is a
sequence, which subscribing appends to and unsubscribing takes from; what a walk
has still to do is the chain behind the subscription it stands on.

**Timers.**  A controller is its list: `List` is the set of controllers.  `pc`, `current`, `saved` and `min_ticks_to_next` are where
`timer_controller_run` is and its locals.  `VisitPending`, `FireRepeating` and
`FireOneShot` are one turn of its loop up to the callback, and
`CallbackReturns` is the rest.  `saved` is the local `next`, read before the
callback.  `Half` stands for 2^31: ticks count modulo `2 * Half` and `Signed`
is the cast to `int32_t`.  Time passes in `Tick`, at any moment, also while a
run is under way.  `running` is the controller being run: `RunBegin(c)` starts
`timer_controller_run(c)`, and the program runs one controller after the
other.  A timer may be started on any controller in `StartedOn[t]`, from
outside or from a callback of another controller; `controller[t]` is the field
that `timer_stop` follows.

**State machine.**  `calls` is the stack of calls of state functions.
`FsmTransition` goes up to the call of the old state with EXIT; `ExitReturns`
assigns `current_state` and calls the new state with ENTER.

**Ram datastream.**  `ConfigOf[s]` is `instance->config` and `Entries[c]` its
entries, with their offsets and sizes; the event of a key is named by the
configuration and the key, because that is where it lives.  `Cleared` is the
`memset` of `ram_datastream_init`: it clears the entries that end where the
last one ends or before, and the storage holds anything until then.  `writes` parallels the stack of `Event`: the write that
each publish belongs to.  `Write` stores and starts the publish of the key's
event, `WriteGoesOn` starts that of `all_on_change`, `WriteReturns` ends.  A
value equal to the stored one publishes nothing.  `read` has no state of its
own: subscribers are assumed to read what is stored when they subscribe, and
`heard` is what they know.  `write` publishes a copy of the entry; since a walk
reads the head of its list once, that is the same.  `WatchedStores` states the
API without events: a write has two sequences still to tell, who watches its key
and who watches all keys, and the second is told when the first is done.  In the
code there is one walk at a time, so while the walk of the key is under way the
second sequence is whoever is on the list of all keys by then; and `WriteGoesOn`,
which turns from one event to the other, is no step of the stores at all.

**Composite datastream.**  Reads, writes and subscriptions to a key go to
`FindStream`.  `subscribe_all` and `unsubscribe` are `call` and `todo`, for
every stream still to visit its lists still to visit, and each step is one `list_push` or `list_delete`,
enabled only if its loop ends: a loop that does not is a call that never
returns.  Callbacks make these calls too, on lists that are being walked.

**Display.**  `InitDisplay` is `display_simulator_init`: it fills `contexts` and
subscribes to the key of the view.  `Input` is a widget's event: it writes the
key in *its* context.  `changes` is the stack of `on_view_change` calls, each
in step with the callback of the display in the stack of `Event`:
`ChangeBegins`, `Unload`, `Load`, `ChangeReturns`.  Views are the program's: a view
subscribes to one key of the bsp stream when it is loaded and unsubscribes when
it is unloaded, and the program stores a view from the main loop, from a
subscriber that was told of something else, or from `load`.  `loaded` is the
set of views whose `load` was called and whose `unload` was not, counted from
the call.

## What the runs check

All runs are listed in `PROJECT.json`.  Each property has a mutant there: a
seeded fault with which the same run fails.

| run | configuration | what it shows |
|---|---|---|
| `queues` | `MCQueue.cfg` | the pointer code implements sequences, the queue a FIFO, with the counter equal to the length |
| `timers` | `MCTimer.cfg` | the timers of two controllers implement `ExactTimers` per controller; `timer_stop` looks on the right list; a stopped timer does not fire and a started one does; what keeps a run from returning, and what it returns |
| `events` | `MCEvent.cfg` | events implement `Notifier`: publishes that nest, and callbacks that change the list, reach all subscribers, in order and no others |
| `events_live` | `MCEventLive.cfg` | a publish returns while callbacks unsubscribe, and subscribe themselves again |
| `fsm` | `MCFsm.cfg` | ENTER and EXIT pair up |
| `ram_datastream` | `MCRamDatastream.cfg` | datastreams implement `WatchedStores`; with writes in writes, subscribers end up knowing what is stored; unsubscribe is complete; a second initialisation starts afresh |
| `composite` | `MCComposite.cfg` | several streams behave as one with a single `subscribe_all` subscription, made and ended in callbacks too; one unsubscribe undoes all |
| `display` | `MCDisplay.cfg` | one view is loaded, the one stored, with `load` functions and subscribers that store others; only it hears of inputs; inputs reach their keys |
| `menu` | `MCMenuIter.cfg` | the wrap of the cursor |
| `timer_stops_next` | `MCTimerStopsNext.cfg` | violation: a timer stopped by the callback before it fires |
| `event_both` | `MCEventBoth.cfg` | violation: a subscription unsubscribed by the callback before it is called |
| `composite_twice` | `MCCompositeTwice.cfg` | violation: a second `subscribe_all` makes writes endless |

### Bounds, and why they are enough

- *Lists and queues*: three nodes, two lists that share them.  All 64 initial heaps
  are tried, so every stale link occurs.  `SizeMod = 4` is the least modulus the
  assumption allows, and size 3 is reached.  A queue deletes only the head of its list.
  A middle node, a last one and one that is not there are deleted by unsubscribing in the
  runs of events and datastreams, and in the theorems about lists, which
  remove the bounds too.  The wrap of the counter, with as many nodes as it has
  values, is excluded by the assumption.
- *Timers*: `Half = 4`, so the ticks wrap after 8, and a run of the model passes the wrap
  any number of times.  Two controllers and two timers: one timer is started on
  either controller, so it moves between them and shares a list with the other
  in either order; the walk has a timer before or behind the one whose callback
  runs.  `MaxLag` bounds the ticks from the start of one run of a controller to
  that of the next: 1 for both, so that one may have read the clock a tick before the
  other.  With one-shot intervals of 0 and 3 and a repeat interval of 1, a one-shot timer may
  be early by the lag, due exactly or late, or due as it is started, in a callback
  too; `MaxBehind = 1` lets a repeating one
  miss an expiration and catch up.  A lag of 2 for one of them, a larger `MaxBehind` and a single
  controller were explored as well, with the same result.  `MaxBehind` below
  half the range is a real
  assumption: a program whose runs stay further apart than a repeat interval for good
  falls ever more behind (`timer.c:24` adds one interval per run) until the
  timer seems to be due in the future.  A repeat interval of 0 never catches up, so the
  clock of the model would stop at `MaxBehind`: it is left to the theorems, which have the same limit.
  That intervals are below 2^31 is an assumption too:
  a longer one is accepted by `timer_start`, reads as negative, and is due at once.
  The `VIEW` of the run leaves out what a timer holds that is on no list and in
  no run, except its `controller`: `timer_start` assigns those fields before
  anything reads them and `list_push` its link, so states that differ in them
  only have the same behaviours, and no property reads them.
- *Events*: four subscriptions on two events, `MaxDepth = 3`.  A walk can have
  called one, be at one, have one ahead and gain or lose another, at every level.
- *State machine*: three states and three nested calls: a transition in a
  transition in a transition.
- *Ram datastream*: two streams with one and two entries, two values, three
  subscriptions, depth 2.  Three subscriptions are enough to have one called,
  one ahead in either of the two walks and one that joins or is taken away; depth 2
  has a write in a write of another key or on another stream.  Two values
  distinguish what is stored from what was; the last entry is longer than a byte,
  so an end of the storage that is off by an entry's size is noticed.  Depth 3 with
  three entries was explored as well, and so was `ImplementsWatchedStores` with callbacks that
  write the key they are told of, which this run excludes for `HeardIsCurrent`;
  the theorem about it does not.
- *Composite*: two streams with one and two entries, since a ram datastream has the
  keys below its count; one key in both, one in the second only, one in neither.
  Depth 1: a callback subscribes and unsubscribes, also to all, and does not write.
  With writes in callbacks (depth 2) the safety properties were explored as well, with
  the same result; the theorems hold for any depth.
- *Display*: two views and null, two inputs, a third subscriber, depth 4: an
  input's write, in it a change of view, in its `load` another, and in that one more.
- *Menu*: all `int8_t` steps and all lengths a `uint8_t` holds but 0: the run is
  exhaustive.

Deadlock is checked in every run.

### Fairness

`HistorySpec` assumes weak fairness of `Tick` (the time source advances) and of
`RunGoesOn` (the code of `timer_controller_run` goes on, and callbacks return),
and strong fairness of `RunBegin(c)` for every controller: the main loop runs
each of its controllers again and again, as `while(timer_controller_run(...))`
in `examples/hello_world/main.c` does with its one.  The fairness is strong
because a controller cannot be run while another is: `RunBegin(c)` is not
enabled all the time, but it is again and again.  `Walk` in `Event` is the
same: code that runs goes on, and callbacks return.  In `CompositeDatastream`
the code (`CodeProceeds`) has weak fairness and the return of a callback
(`CompositeCallbackReturns`) strong fairness, since while a callback is inside
`subscribe_all` or `unsubscribe` it cannot return; and a publish need not end
when callbacks for ever hang subscriptions behind the walk, which
`KeepsSubscribing` excepts.  A run of a controller need not end either when callbacks for ever start timers on it that
are due at once: `EveryRunReturns` excepts the step `StartsDue` done infinitely often, and
nothing else, so it also says that stopping timers, restarting them with ticks to wait and
time that passes cannot hold up a run.  `StartedTimerFires` has `RunsReturn`
as its premise, since a run that does not return keeps all other controllers from being run.
Nothing is assumed about what the program chooses
to do: starting, stopping, subscribing, publishing and writing are never forced.
The liveness runs of events and datastreams have depth 1, since a callback that
publishes again and again does not return.

### What the program must not do

The passing runs hold for programs that keep to rules which the code relies on
and does not check.  Each is a guard or a constant; dropping it makes TLC show
what goes wrong.  The three that a test of the repository contradicts most
plainly are the runs that expect a violation.

| rule | where | without it |
|---|---|---|
| a node is linked only while it is on no list | `Unlinked` | lists lose nodes or become rings; `composite_twice` is the case where the code itself does this |
| a timer callback does not stop the timer behind its own | `CallbacksStopNext = FALSE` | that timer fires, and the walk goes on from it: `timer_stops_next` |
| callbacks of one run do not for ever start timers on its controller that are due at once | `StartsDue` in `EveryRunReturns` | `timer_controller_run` does not return: two one-shot timers that restart themselves with no ticks are pushed behind the walk and found due, again and again (TLC shows it for `RunsReturn`; one alone comes to be the last on the list, and the walk ends behind it) |
| an event callback does not unsubscribe both itself and others, nor itself in nested publishes | `CallbackOps` | the walk stands on an unlinked subscription and follows its old link: `event_both` |
| an event callback does not subscribe itself again | `CallbackOps` | `PublishReachesAll` fails: its link is null, and the walk ends there |
| no transition while a state handles EXIT | `ExitTransitions = FALSE` | `EnterExitPaired` fails: the state entered inside is left without EXIT |
| a callback does not write the key it is being told of | `RewriteInFlight = FALSE` | `HeardIsCurrent` fails: subscribers hear the newer value first and keep the older |
| one subscription to all of a composite datastream | `ForAll` | a ring: `composite_twice` |
| a datastream has a configuration of its own | `ConfigOf` | `HeardIsCurrent` fails: the second initialisation drops the subscribers of the first, and changes of one are told as the other's |
| a display is initialised before a view is stored | `InitLate = FALSE` | `ShowsTheStoredView` fails: `display_simulator_init` subscribes and does not read |
| displays have the same input keys, or there is one | `InputKeys` | `InputsArrive` fails: the second display overwrites the contexts of the first one's widgets |
| `unload` does not store another view | `StoresIn = {"load"}` | `OneViewLoaded` fails: the inner view stays loaded below the outer one |
| a subscriber of the key of the view does not store a view while it is told of it | the second disjunct of `StoreView` | `ShowsTheStoredView` fails, as in the row above on writing a key being told of |
| `timer_stop` only for timers that were started | `controller[t] # NULL` in `TimerStop` | a pointer that nothing has set is followed |

Other limits of the code that the properties are stated around:

- The result of `timer_controller_run` leaves out repeating timers that are
  still overdue after firing, and timers started by a callback once
  the walk has passed its last timer.  `RunCountsThePending` says that nothing else is
  left out.
- A one-shot timer may fire early by the age of `current_ticks` when it was started.
  `EarlyByAtMostTheLag` says no more than that.
- After a null view was stored, the view unloaded for it is unloaded once more
  at the next change (`display_simulator.c:195`).  `NothingLeftLoaded` therefore speaks of what is
  left loaded and not of what is unloaded.
- A view that is unloaded while it is being told of an input takes away the
  subscription the walk stands on, and the walk goes on from the link that one
  kept.  Subscriptions made after that need not be reached by it, so
  `PublishReachesAll` is a property of `events` and not of `display`.  What
  `display` does say is `OnlyLoadedViewsHear`: no view hears of an input after
  it was unloaded.

## What is proved

The theorems hold for every value of the constants that meets the assumptions:
any finite set of nodes and any set of lists (`NullAssumption`,
`NodeAssumption`), any modulus of the counter above the number of nodes
(`SizeModAssumption`), any number of events and any depth of calls of `event_publish`
(`EventConstants`), any number of controllers, any even tick range and any
intervals within it (`TimerConstants`), any set of states and any depth of calls
(`FsmConstants`), any datastreams whose entries lie one behind the other, with
any values (`RamConstants`), any sequence of them (`CompositeConstants`), and any
displays and views on two of them (`DisplayConstants`).
TLC evaluates the assumptions in the runs of the modules that state them.

Some theorems hold only for programs that keep to a rule of the table above; the
rule is a hypothesis of the theorem, in the words of the constants:

| hypothesis | says | without it |
|---|---|---|
| `NoneUnderItself` | callbacks end no subscription that is being called (`CallbackOps`) | `event_both` |
| `~CallbacksStopNext` | a timer callback does not stop the timer behind its own | `timer_stops_next` |
| `IntervalsFit` | intervals are from 0 to below half the tick range | the difference of two ticks has the wrong sign |
| `~ExitTransitions` | no transition while a state handles EXIT | a state is left without EXIT |
| `OwnConfigs` | no two datastreams have one configuration | an event tells the changes of two |
| `~RewriteInFlight` | no callback writes the key it is told of | the older value is heard last |
| `DistinctStreams` | no stream is twice in a composite one | `subscribe_all` pushes its subscription on one list twice |
| `OneForAll` | one subscription to all of a composite | `composite_twice` |
| `TwoStreams` | the display's two streams are two, with a configuration each | inputs and views are the same keys |
| `StoresAfterLoading` | `unload` stores no view | the inner view stays loaded |
| `OneDisplay` | there is one display | the contexts of one are overwritten by the other's; a view taken off the list may have one of the other's behind it |
| `~InitLate` | a display is initialised before a view is stored | it does not show what was stored before |
| `InputsFit` | the keys of the inputs are keys of the bsp stream | an input is not stored at all |

Each run that checks the property meets the hypotheses of its theorem, so it
shows on an instance what the theorem states in general, and the theorem is not
about an empty set of programs.

| theorem | module | states |
|---|---|---|
| `ListsTypeCorrect` | `LinkedListProofs` | `ListsSpec => []ListsTypeOK` |
| `ListsStayWellFormed` | `LinkedListProofs` | `ListsSpec => []ListsWellFormed` |
| `ListsStayDisjoint` | `LinkedListProofs` | `ListsSpec => []ListsDisjoint` |
| `ListsImplement` | `LinkedListProofs` | `ListsSpec => ImplementsAbstractLists` |
| `QueueTypeCorrect` | `QueueProofs` | `QueueSpec => []QueueTypeOK` |
| `CounterCountsTheList` | `QueueProofs` | `QueueSpec => []SizeIsLength` |
| `QueueImplementsFifo` | `QueueProofs` | `QueueSpec => ImplementsFifo` |
| `EventTypeCorrect` | `EventProofs` | `EventSpec => []EventTypeOK` |
| `EventListsStayWellFormed` | `EventProofs` | `EventSpec => [](ListsWellFormed /\ ListsDisjoint)` |
| `PublishesReachAll` | `EventProofs` | `EventSpec => []PublishReachesAll`, if `NoneUnderItself` |
| `OnlySubscribersAreCalled` | `EventProofs` | `EventSpec => OnlySubscribersCalled`, if `NoneUnderItself` |
| `EventsAreNotifiers` | `EventProofs` | `EventSpec => ImplementsNotifier`, if `NoneUnderItself` |
| `TimerTypeCorrect` | `TimerProofs` | `TimerSpec => []TimerTypeOK` |
| `TimerListsStayWellFormed` | `TimerProofs` | `TimerSpec => []ListsWellFormed` |
| `StopsFindTheirTimers` | `TimerProofs` | `TimerSpec => []StopFindsTheTimer` |
| `RunIsNeverZero` | `TimerProofs` | `TimerSpec => []RunNeverReturnsZero` |
| `StoppedTimersStayQuiet` | `TimerProofs` | `TimerSpec => StoppedTimerNeverFires`, if `~CallbacksStopNext` |
| `RunsCountThePending` | `TimerProofs` | `HistorySpec => []RunCountsThePending`, if `~CallbacksStopNext` |
| `NotEarlierThanTheLag` | `TimerProofs` | `HistorySpec => EarlyByAtMostTheLag`, if `~CallbacksStopNext`, `IntervalsFit` |
| `TimersAreExact` | `TimerProofs` | `TimerSpec => ImplementsExactTimers`, if `~CallbacksStopNext`, `IntervalsFit` |
| `FsmTypeCorrect` | `FsmMenuProofs` | `FsmSpec => []FsmTypeOK` |
| `EnterExitStayPaired` | `FsmMenuProofs` | `FsmSpec => []EnterExitPaired`, if `~ExitTransitions` |
| `CursorStaysOnTheCircle` | `FsmMenuProofs` | `MenuSpec => []CursorFollowsSteps` |
| `RamTypeCorrect` | `DatastreamProofs` | `RamSpec => []RamTypeOK` |
| `InitialisingStartsAfresh` | `DatastreamProofs` | `RamSpec => InitStartsAfresh` |
| `UnsubscribingIsComplete` | `DatastreamProofs` | `RamSpec => UnsubscribeIsComplete` |
| `DatastreamsAreWatchedStores` | `DatastreamProofs` | `RamSpec => ImplementsWatchedStores`, if `OwnConfigs`, `NoneUnderItself` |
| `SubscribersKnow` | `DatastreamProofs` | `RamSpec => []HeardIsCurrent`, if `OwnConfigs`, `NoneUnderItself`, `~RewriteInFlight` |
| `CompositeTypeCorrect` | `CompositeProofs` | `CompositeSpec => []CompositeTypeOK` |
| `OneStreamOwnsAKey` | `CompositeProofs` | `CompositeSpec => []OneOwner`, if `DistinctStreams` |
| `OneForAllIsEverywhere` | `CompositeProofs` | `CompositeSpec => []OnEveryStream`, if `OneForAll`, `DistinctStreams` |
| `UnsubscribingIsThorough` | `CompositeProofs` | `CompositeSpec => UnsubscribeIsThorough`, if `OneForAll`, `DistinctStreams` |
| `NobodyIsCalledTwice` | `CompositeProofs` | `CompositeSpec => EachCalledOnce`, if also `NoneUnderItself` |
| `SubscribersOfCompositesKnow` | `CompositeProofs` | `CompositeSpec => []HeardIsCurrent`, if also `OwnConfigs`, `~RewriteInFlight` |
| `DisplayTypeCorrect` | `DisplayProofs` | `DisplaySpec => []DisplayTypeOK`, if `TwoStreams` |
| `OneViewIsLoaded` | `DisplayProofs` | `DisplaySpec => []OneViewLoaded`, if `TwoStreams`, `StoresAfterLoading` |
| `UnloadingLeavesNothing` | `DisplayProofs` | `DisplaySpec => NothingLeftLoaded`, if `TwoStreams`, `StoresAfterLoading` |
| `LoadedViewsHear` | `DisplayProofs` | `DisplaySpec => []OnlyLoadedViewsHear`, if also `OneDisplay` |
| `TheStoredViewIsShown` | `DisplayProofs` | `DisplaySpec => []ShowsTheStoredView`, if also `OneDisplay`, `~InitLate` |
| `EveryInputArrives` | `DisplayProofs` | `DisplaySpec => InputsArrive`, if `TwoStreams`, `OneDisplay`, `InputsFit` |

**The argument.**  `ListsWellFormed` says that each list is a chain, but to
show that an operation keeps the *others* chains one must know that they share no node with
the one it changes, and `ListsDisjoint` needs to know where the links lead.
The inductive invariant `ListsInv` says both at once, through a witness: there
is a sequence for each list (`Contents`), each is the chain of its list, and no
node is in two (`Holds`).  It contains the type invariant, because a link that is no
pointer leads nowhere.  The first part of `LinkedListProofs` shows of the operators of
`IntrusiveList` that the nodes reached from the head of a chain are the range of the chain
(`Reach` is a least fixed point, so one shows that the range is closed and that every
closed set holds it), and what `ListPush`, `ListAddFront` and `ListDelete` do to a chain and to the links
off it.  Each action then updates the witness at one list; the same step is the refinement
of `AbstractLists`, whose lists share no node either.

`QueueInv` adds to it that `size[q]` is the length of the sequence.  The
modulus matters in one place: a sequence of distinct nodes is shorter than
`SizeMod`, so the counter does not wrap, and zero means empty.

`ListsSpec` has `list_add_front`, which no run of TLC takes as a queue does not
use it.  It is covered by the theorems, which are about `ListsSpec` as a whole.

**Events.**  The iterator of a walk is a pointer into a list that others change,
so `PublishReachesAll` is not inductive.  `PublishInv` says where each walk
stands: its subscription is at some position of the sequence `Contents` has for
its event, and exactly the subscriptions from there on are due (`OnTheWay`); and every call
of `event_publish` but the innermost is waiting for a callback.  Subscribing
appends to the sequence (`WayAppended`), unsubscribing closes a gap before or
behind the position (`WayClosesGap`), and following the link moves the position
by one (`WayGoesOn`).  The gap is never *at* a position because of
`NoneUnderItself`: callbacks end no subscription that is being called.  That is
what the run `events` assumes by its `CallbackOps`, and `event_both` shows what
happens without it.

That events implement `Notifier` (`EventsAreNotifiers`) says more than that the
due are reached: it says in which order.  The refinement mapping turns the
iterator of each walk into the rest of it, the chain of links behind it.  `Behind`
is that rest, read off the sequence of the list from the position of the walk
on (`ChainBehind`), and the lemmas `BehindAppended` and `BehindUnsubscribed`
say that pushing appends to it and deleting takes from it, wherever the walk
stands; so each action of `Event` is that of `Notifier` on all walks at once.

**Timers.**  Every action of `Timer` is a list action or leaves the lists alone,
so `ListsInv` carries over as it is.  `TypeInv` joins it with `TimerTypeOK` and
`min_ticks_to_next # 0`: the result starts at the largest tick and is only
lowered to ticks that were found not to be zero.  That a stopped timer does not fire is not inductive: after a
callback the walk goes on from `saved`, which was read before it.  `WalkInv`
says that the timer the walk stands on, and the one it will go on from, are on the list.  Starting
a timer only adds to the list (`PushLinked`), stopping one removes no other
(`DeleteLinked`), and the link of a node on a chain leads to another one on it or to the end
(`WalkStaysOn`); so only stopping the timer in `saved` breaks `WalkInv`, and that is
`CallbacksStopNext`, which the run `timer_stops_next` shows to be needed.
With several controllers, `PushKeeps` and `DeleteKeeps` say that an operation on
one list leaves the timers of the others where they are.  `StopFindsTheTimer` is
inductive with `TypeInv`: `timer_start` assigns the controller as it links the
timer, which was on no list, and a run only takes timers off (`RunsLinkNothing`).
The run `timers` checks these properties under `HistorySpec`, whose steps are those of
`TimerSpec` with two more variables that record them.

The result of a run is the least of what it found, over timers that come and go
while it looks: `CountedInv` says of each timer on the list that was not linked
during this run (`fresh`) that it is still ahead of the walk, being called, overdue, or counted
in `min_ticks_to_next`.  `RunCountsThePending` is its value at the end of the walk.

The other two theorems are about numbers.  Ticks wrap, and everything
depends on signed differences being true differences.  `ClockInv` says that
they are: the ticks since a controller read the clock are at most `MaxLag`, and
each timer on its list expires within half the range of that reading and
of the present (`Fits`).  It is inductive because of
`IntervalsFit` and because of the guard of `Tick`, which stands for
a main loop that comes round in time.  With it the two moduli cancel:
`TicksUntil` decreases by the ticks that passed and increases by an interval,
without remainder.  `LagInv` adds what the caller asked for, less what
`current_ticks` was behind at the start.  For `TimersAreExact` the
mapping sends a timer to the ticks it has left, and a step of one controller is a
step of its `ExactTimers` and a stutter of all others'.  A timer that a callback starts
with no ticks to wait is due at once.  If the walk has anything left before it, it comes to
the new timer as well (`PushIsReached`), and the run fires it; if it has nothing left, the run
ends without it (`JoinsRun`, which is `Joins` of `ExactTimers`).

**Datastreams.**  `HeardIsCurrent` speaks of the moments when no write is under
way.  `NewsInv` says what holds in between: every write under way tells
the stored value of its key (`WritesAreCurrent`, which is what
`~RewriteInFlight` buys), and a subscription that does not know the stored value
of a key is due in a write of it, either of the publish of the key or of the
one of all keys that follows it (`NewsIsDue`).  With `PublishInv`, which says that the due are
reached, no write can end and leave anybody behind.  `OwnConfigs` is needed as
`NewsIsDue` reads off the event which key a publish is about.  The lemmas about
walks and news ask that each list is a chain (`Chained`) and never that two
lists share no node, so that they hold of a composite too.

That datastreams are watched stores needs neither history nor `~RewriteInFlight`:
what a write tells is what it was given.  The proof stands on that of
`EventsAreNotifiers`.  `WatchInv` is `PublishInv` and that each publish under way
is of the key of its write or of all keys of its stream (`Aimed`), so a write of
the stores can be made of a write, its publish as the notifier sees it, and the
sequences of subscribers (`Tells`, `Mapped`).  Each action of the datastream is
one of the notifier or changes no event (`CallTold`, `SubscribeTold`, ...), and
what is left to show is what that makes of the two sequences of each write:
`TellsKeySubscribed`, `TellsAllSubscribed` and `TellsUnsubscribed`, for which the
events of two datastreams must be apart (`OwnConfigs`).  An unsubscribe goes
through many lists and deletes from one; `UnsubscribesOnce` finds it, and on the
others `RemoveFirst` changes nothing (`NobodyRemoved`), which makes it the step
of the stores that takes the subscription off everything.

**Composite datastream.**  The lists of a composite one may share nodes, for
`subscribe_all` pushes one subscription on several, so `ListsInv` does not hold.
The argument climbs in steps, each of which needs the one below.

1. `PushStays` and `DeleteStays` are what is true of any heap: whatever is closed
   under the links stays so.  `SharedInv` rests on that: whoever is on a list of a
   key is in a set closed under the links that holds no subscription for all
   (`KeysWithin`), so pushing on such a list never reaches the link of the one for
   all, and the list of all keys of a stream is empty or that one alone
   (`AllAlone`).  `Subscribing` says how far `subscribe_all` has got.
2. `LinksInv`: so every list is a chain after all (`Chained`), and a list of a key
   shares no node with any other (`KeysApart`); only the lists of all keys share
   theirs, which has no link.  `LinksSubscribe`, `LinksPushToNext` and
   `LinksDeleteFromNext` say what the three functions do to the sequences.
3. `SearchInv`: during an unsubscribe, a list that still holds the subscription is
   still ahead in `todo` (`Searching`).  When the call returns nothing is ahead,
   which is `UnsubscribeIsThorough`.
4. `RoundsInv`: `WalkInv` of the events needs chains only, so every walk stands
   where `OnTheWay` says: *exactly* the subscriptions from there on are due.  The
   one that is called next is due, which is `EachCalledOnce`.
5. `CurrentInv`: `News` of the ram datastreams, and that `subscribe_all`, which
   reads what all streams hold before it links anything, still knows it at every
   later list (`KnowsAll`).  That gives `HeardIsCurrent`.

**Display.**  A view that is unloaded may take away the subscription that a walk
of the bsp stream stands on, so `PublishInv` does not hold either, as said above.
`WalksInv` keeps what can be kept: the walks of *other* events stand on their lists
(`OthersStand`), and the walks of the bsp stream, wherever they strayed, stay
in a set closed under the links that holds no display (`KeepsOff`).  So the calls of
`on_view_change` are those of displays in walks of the other streams, and
`ScreenInv` counts them.  `LoadedInv` says that what is loaded is the current
view or nothing, and nothing while `load` is ahead: a change in a change begins
only when the outer one has loaded (`StoresAfterLoading`).  `HearInv` adds that a
view on the watched list is loaded, and that a walk of the bsp stream is at a
subscription of its list or at one whose callback has just ended it.  `ShowInv` adds that a
display that does not show the stored view is due in the innermost write of
it, with no other write of that key inside, or is about to load it.
`ContextsInv` says that the contexts are those of the one display.

**State machine.**  `TypeInv` adds to `FsmTypeOK` that a call with signal EXIT
knows its target.  For the pairing of ENTER and EXIT one must exclude that a
transition is interrupted by another: `OneExit` says that at most the top of the stack of
calls handles EXIT, which is what `~ExitTransitions` buys.  `PairInv` is that and
`EnterExitPaired`.

**Menu.**  `Divided` and `OneRemainder` say that division leaves one remainder.
C's remainder of a negative step differs from the step by a multiple of the
length (`RemainderOfC`); `WRAP` adds one length more, so that the sum is not
negative and fits the type, and the remainder of that is the one of the circle
(`MoveOnTheCircle`).

**Only model-checked**: liveness (`EveryCallReturns`, `EveryPublishReturns`,
`StartedTimerFires`, `EveryRunReturns`), which the prover does not do.  All other
properties of the passing runs are proved.

## What is not modelled

- A run of a controller started from a timer's callback.
- The bytes under a key, and the macros that build a configuration: entries are
  assumed to lie one behind the other in the order of the keys.
- The LVGL objects that `create_screen` and its helpers lay out: they have no
  state that a property here tells apart.  More inputs than the 32 contexts
  of `display_simulator_init` write past the array; `DisplayConstants` excludes them.
- The conversion of the host's clock to milliseconds in `timesource_simulator.c`.
- A menu of length 0 (a division by zero).
- `core/hal` (declarations only), the placeholder sources, the tests.
- `scripts/lved-cli.js` and `docs/lvgl`: the editor script is an obfuscated,
  bundled build of a third-party tool, the only JavaScript in the repository and
  no part of the program, which is C.  It has no readable logic to translate.

## Plan

Done: the modules above, in the order of the table (lists first, since
everything rests on them), the runs, and the proofs: of every safety property of
the passing runs, and of the five refinements.

Not done: runs of a controller from inside callbacks of another.

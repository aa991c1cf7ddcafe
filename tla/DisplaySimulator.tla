-------------------------- MODULE DisplaySimulator -------------------------
(***************************************************************************)
(* src/driver/simulator/display_simulator.c over two ram datastreams: the  *)
(* inputs write the bsp stream, and the display subscribes to the key of   *)
(* the ram stream under which the program stores the view to show.         *)
(* on_view_change unloads the old view and loads the new one.  The load    *)
(* and unload functions are the program's: a view subscribes to the bsp    *)
(* stream while it is loaded, and a view or a subscriber that was told of  *)
(* an input may store another view, which calls on_view_change inside the  *)
(* callback it is stored from.                                             *)
(***************************************************************************)
EXTENDS RamDatastream

CONSTANTS
  Ram, Bsp,        \* ram_stream and bsp_stream
  Display,         \* the display_simulator_t objects, as their `sub`
  ViewKey,         \* ViewKey[d]: the argument current_view
  InputKeys,       \* InputKeys[d]: the keys in input_config, in order
  InputValue,      \* what an input widget writes
  View,            \* the i_view_t objects; Zero is the null pointer
  ViewSub,         \* ViewSub[v]: the subscription of view v
  Watched,         \* the key of the bsp stream that views subscribe to
  NullStored,      \* whether the program stores a null view
  StoresIn,        \* which of "unload" and "load" store a view
  InitLate         \* whether a display is initialised when a view is stored

MaxContexts == 32

ASSUME DisplayConstants ==
  /\ Display \subseteq Node /\ {Ram, Bsp} \subseteq Stream
  /\ View \subseteq Value \ {Zero} /\ InputValue \subseteq Value
  /\ ViewSub \in [View -> Node \ Display] /\ IsInjective(ViewSub)
  /\ ViewKey \in [Display -> KeysOf(Ram)] /\ Watched \in KeysOf(Bsp)
  /\ InputKeys \in [Display -> Seq(Key)]
  /\ \A d \in Display : Len(InputKeys[d]) <= MaxContexts
  /\ StoresIn \subseteq {"unload", "load"}
  /\ {NullStored, InitLate} \subseteq BOOLEAN

VARIABLES
  current_view,   \* current_view[d]: instance->current_view
  contexts,       \* the static array of display_simulator_init: the keys, by
                  \* the number of the input widget that was given the entry
  shown,          \* the displays initialised
  changes,        \* the calls of on_view_change under way, innermost last:
                  \*   view: what it was told
                  \*   at: "begin", or the view function it is in
  loaded          \* (history) loaded[d]: the views loaded and not unloaded

screenVars == <<current_view, contexts, shown, changes, loaded>>
displayVars == <<ramVars, screenVars>>

\* The objects are static, so their links are null at first.
DisplayInit ==
  /\ RamInit /\ next = [n \in Node |-> NULL]
  /\ current_view = [d \in Display |-> Zero]
  /\ contexts = <<>>
  /\ shown = {}
  /\ changes = <<>>
  /\ loaded = [d \in Display |-> {}]

\* Seeded fault: every widget is given the first input's key.
ContextsOfFirst(keys) ==
  [i \in DOMAIN keys |-> keys[1]]
    \o SubSeq(contexts, Len(keys) + 1, Len(contexts))

\* The array is one for all displays, each filling it from the start.
ContextsWith(keys) == keys \o SubSeq(contexts, Len(keys) + 1, Len(contexts))

\* display_simulator_init: it does not look at what is stored already.
InitDisplay(d) ==
  /\ Outside /\ d \notin shown
  /\ InitLate \/ value[Ram][ViewKey[d]] = Zero
  /\ shown' = shown \cup {d}
  /\ current_view' = [current_view EXCEPT ![d] = Zero]
  /\ contexts' = ContextsWith(InputKeys[d])
  /\ KeySubscribed(Ram, ViewKey[d], d)
  /\ UNCHANGED <<changes, loaded>>

\* The user touches the i-th widget of d: on_button_event and its like.  LVGL
\* handles inputs in the main loop.
Input(d, i, data) ==
  /\ Outside /\ d \in shown /\ i \in DOMAIN InputKeys[d]
  /\ Write(Bsp, contexts[i], data) \/ WriteWithoutEffect(Bsp, contexts[i], data)
  /\ UNCHANGED screenVars

-----------------------------------------------------------------------------
InChange == InCallback /\ Top.e \in Display
Change == changes[Len(changes)]
At(place) == InChange /\ Change.at = place
GoTo(place) == changes' = [changes EXCEPT ![Len(changes)].at = place]

\* The program stores a view under the key of display d, from the main loop, a
\* subscriber of something else, or one of the view functions.
StoreView(d, view) ==
  /\ \/ Outside
     \/ InCallback /\ ~InChange /\ ~BeingWritten(Ram, ViewKey[d])
     \/ \E place \in StoresIn : At(place)
  /\ view = Zero => NullStored
  /\ Write(Ram, ViewKey[d], view)
  /\ UNCHANGED screenVars

ChangeBegins ==
  /\ Tell /\ Top.e \in Display
  /\ changes' = Append(changes, [view |-> Writing.data, at |-> "begin"])
  /\ UNCHANGED <<current_view, contexts, shown, loaded>>

TellOthers == Tell /\ Top.e \notin Display /\ UNCHANGED screenVars

\* A view that is unloaded ends its subscription, even if it is the one that
\* is being called.
Unload ==
  /\ At("begin") /\ current_view[Top.e] # Zero
  /\ loaded' = [loaded EXCEPT ![Top.e] = @ \ {current_view[Top.e]}]
  /\ UnsubscribedFrom(Bsp, ViewSub[current_view[Top.e]])
  /\ GoTo("unload")
  /\ UNCHANGED <<current_view, contexts, shown>>

Unloaded == At("unload") \/ (At("begin") /\ current_view[Top.e] = Zero)

\* Seeded fault: the new view is loaded before it becomes the current one.
LoadBeforeAssigning ==
  /\ Unloaded /\ Change.view # Zero
  /\ current_view' = IF Len(changes) = 1
                     THEN [current_view EXCEPT ![Top.e] = Change.view]
                     ELSE current_view
  /\ loaded' = [loaded EXCEPT ![Top.e] = @ \cup {Change.view}]
  /\ KeySubscribed(Bsp, Watched, ViewSub[Change.view])
  /\ GoTo("load")
  /\ UNCHANGED <<contexts, shown>>

\* Seeded fault: a null view is taken over like any other.
LoadUnchecked ==
  /\ Unloaded
  /\ current_view' = [current_view EXCEPT ![Top.e] = Change.view]
  /\ loaded' = [loaded EXCEPT ![Top.e] = @ \cup {Change.view}]
  /\ IF Change.view \in View
     THEN KeySubscribed(Bsp, Watched, ViewSub[Change.view])
     ELSE UNCHANGED ramVars
  /\ GoTo("load")
  /\ UNCHANGED <<contexts, shown>>

Load ==
  /\ Unloaded /\ Change.view # Zero
  /\ current_view' = [current_view EXCEPT ![Top.e] = Change.view]
  /\ loaded' = [loaded EXCEPT ![Top.e] = @ \cup {Change.view}]
  /\ KeySubscribed(Bsp, Watched, ViewSub[Change.view])
  /\ GoTo("load")
  /\ UNCHANGED <<contexts, shown>>

\* A null view is not loaded, and the old one stays the current one.
ChangeReturns ==
  /\ At("load") \/ (Unloaded /\ Change.view = Zero)
  /\ CallbackReturns
  /\ changes' = Front(changes)
  /\ UNCHANGED <<current_view, contexts, shown, loaded>>

OtherReturns == CallbackReturns /\ ~InChange /\ UNCHANGED screenVars

-----------------------------------------------------------------------------
\* Subscribers other than displays and views, made and ended at any time the
\* main loop runs.
Others == Node \ (Display \cup Range(ViewSub))
OthersSubscribe(n) ==
  /\ Outside /\ n \in Others
  /\ \E s \in Stream : SubscribeAll(s, n) \/ \E k \in Key : SubscribeKey(s, k, n)
  /\ UNCHANGED screenVars
OthersUnsubscribe(n) ==
  /\ Outside /\ n \in Others
  /\ \E s \in Stream : UnsubscribeFrom(s, n)
  /\ UNCHANGED screenVars

DisplayNext ==
  \/ ChangeBegins \/ Unload \/ Load \/ ChangeReturns
  \/ TellOthers \/ OtherReturns
  \/ (WriteGoesOn \/ WriteReturns) /\ UNCHANGED screenVars
  \/ \E n \in Node : OthersSubscribe(n) \/ OthersUnsubscribe(n)
  \/ \E d \in Display :
       \/ InitDisplay(d)
       \/ \E view \in View \cup {Zero} : StoreView(d, view)
       \/ \E i \in DOMAIN InputKeys[d], data \in InputValue : Input(d, i, data)

DisplaySpec == DisplayInit /\ [][DisplayNext]_displayVars

-----------------------------------------------------------------------------
DisplayTypeOK ==
  /\ RamTypeOK
  /\ current_view \in [Display -> View \cup {Zero}]
  /\ contexts \in Seq(Key) /\ Len(contexts) <= MaxContexts
  /\ shown \subseteq Display
  /\ changes \in Seq([view : View \cup {Zero}, at : {"begin", "unload", "load"}])
  /\ loaded \in [Display -> SUBSET View]

\* Once the current view has been unloaded nothing is left in the content area
\* that the next view is loaded into.
NothingLeftLoaded == [][Unload => loaded'[Top.e] = {}]_displayVars

\* Two views never share the content area.
OneViewLoaded == \A d \in Display : Cardinality(loaded[d]) <= 1

\* When no change is under way every display shows the view that is stored.
ShowsTheStoredView ==
  Outside => \A d \in shown :
    loaded[d] = IF value[Ram][ViewKey[d]] = Zero THEN {} ELSE {value[Ram][ViewKey[d]]}

\* No view is subscribed, or next to be told of an input, before it is loaded or
\* after it was unloaded, even if it is unloaded while it, or a subscriber
\* before it, is being told.
OnlyLoadedViewsHear ==
  \A v \in View :
    \/ ViewSub[v] \in Linked(On(Bsp, Watched))
    \/ Walking /\ Top.e = ViewSub[v]
    => \E d \in Display : v \in loaded[d]

\* A widget writes the key it was configured with.
InputsArrive ==
  [][\A d \in Display : \A i \in DOMAIN InputKeys[d], data \in InputValue :
       Input(d, i, data) => value'[Bsp][InputKeys[d][i]] = data]_displayVars
=============================================================================

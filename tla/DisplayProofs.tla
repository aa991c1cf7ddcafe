---------------------------- MODULE DisplayProofs ----------------------------
(***************************************************************************)
(* Proofs about the simulator display, for any number of displays, views,  *)
(* inputs and other subscribers: the types; that two views never share the *)
(* content area of a display; and, of a program with one display, that     *)
(* only the loaded view hears of inputs, that the display comes to show    *)
(* the view that is stored, and that inputs reach the key of their widget. *)
(***************************************************************************)
EXTENDS DisplaySimulator, DatastreamProofs, SequenceTheorems

\* The streams are two, and their events are their own.
TwoStreams == Ram # Bsp /\ OwnConfigs

\* No view is stored while the old one is being unloaded.
StoresAfterLoading == "unload" \notin StoresIn

ViewOrNull == View \cup {Zero}
WatchedList == On(Bsp, Watched)
ViewSubs == Range(ViewSub)

-----------------------------------------------------------------------------
(***************************************************************************)
(* The walks.  Only views come and go while a write is under way, and only *)
(* on the lists of the bsp stream.  So a walk of any other list stands on  *)
(* it, with everybody behind it due; and a walk of a list of the bsp       *)
(* stream may leave it, but gets to no display.                            *)
(***************************************************************************)
Standing(f, s) ==
  /\ f.e = NULL => f.due = {}
  /\ f.e # NULL => \E p \in 1 .. Len(s) :
                      /\ s[p] = f.e
                      /\ f.due = From(s, IF f.calling THEN p+1 ELSE p)

OfBsp(i) == stack[i].event \in EventsOf(Bsp)

WritesFit ==
  \A i \in 1 .. Len(stack) :
    LET w == writes[i]
    IN  /\ stack[i].event \in {On(w.stream, w.key), AllOf(w.stream)}
        /\ HasKey(w.stream, w.key)

OnOwnLists ==
  \A l \in List :
    /\ \A d \in Display : d \in Linked(l) => d \in shown /\ l = On(Ram, ViewKey[d])
    /\ \A n \in ViewSubs : n \in Linked(l) => l = WatchedList

OuterCalling == \A i \in 1 .. Len(stack) - 1 : stack[i].calling

OthersStand ==
  \A i \in 1 .. Len(stack) :
    ~OfBsp(i) => Standing(stack[i], Contents[stack[i].event])

KeepsOff(S) ==
  /\ S \subseteq Node \ Display /\ Closed(S, next)
  /\ \A l \in EventsOf(Bsp) : Linked(l) \subseteq S
  /\ \A i \in 1 .. Len(stack) : OfBsp(i) => stack[i].e \in S \cup {NULL}

WalksInv ==
  /\ RamTypeInv /\ WritesFit /\ OnOwnLists /\ OuterCalling /\ OthersStand
  /\ \E S \in SUBSET Node : KeepsOff(S)

(***************************************************************************)
(* The changes.  There is one call of on_view_change for each display that *)
(* is being called, and it was told a view or null.                        *)
(***************************************************************************)
Changing == {i \in 1 .. Len(stack) : stack[i].calling /\ stack[i].e \in Display}

ChangeCall == [view : ViewOrNull, at : {"begin", "unload", "load"}]

StoresViews ==
  \A d \in Display :
    /\ value[Ram][ViewKey[d]] \in ViewOrNull
    /\ \A i \in 1 .. Len(stack) : Of(i, Ram, ViewKey[d]) => writes[i].data \in ViewOrNull

ScreenTypes ==
  /\ current_view \in [Display -> ViewOrNull]
  /\ contexts \in Seq(Key) /\ Len(contexts) <= MaxContexts
  /\ shown \subseteq Display
  /\ \A d \in shown : Len(InputKeys[d]) <= Len(contexts)
  /\ changes \in Seq(ChangeCall)
  /\ loaded \in [Display -> SUBSET View]

ScreenInv ==
  /\ WalksInv /\ StoresViews /\ ScreenTypes
  /\ Cardinality(Changing) = Len(changes)

(***************************************************************************)
(* What is loaded.  A change within a change begins when the outer one has *)
(* loaded its view, so what is loaded is the current view, or nothing.     *)
(***************************************************************************)
LoadedInv ==
  /\ ScreenInv
  /\ \A d \in Display : /\ loaded[d] \subseteq {current_view[d]}
                        /\ d \notin shown => loaded[d] = {}
  /\ At("unload") => loaded[Top.e] = {}
  /\ \A j \in 1 .. Len(changes) :
       j < Len(changes) \/ ~InChange => changes[j].at = "load"

(***************************************************************************)
(* Who hears.  With one display a view that is unloaded while it is being  *)
(* told of an input has no view behind it.                                 *)
(***************************************************************************)
OneDisplay == \E d : Display = {d}

LinkedAreLoaded ==
  \A v \in View : ViewSub[v] \in Linked(WatchedList) => \E d \in Display : v \in loaded[d]

OnItsWay(f) ==
  \/ f.e \in Linked(f.event)
  \/ ~f.calling /\ f.e = NULL
  \/ /\ f.calling /\ f.event = WatchedList
     /\ f.e \in ViewSubs /\ Unlinked(f.e)
     /\ next[f.e] \in (Linked(f.event) \ ViewSubs) \cup {NULL}

HearInv ==
  /\ LoadedInv /\ LinkedAreLoaded
  /\ \A i \in 1 .. Len(stack) : OfBsp(i) => OnItsWay(stack[i])

(***************************************************************************)
(* What is shown.  One display, once it is initialised, stays subscribed,  *)
(* and if it does not show the stored view then it is due in the innermost *)
(* write of it, or is about to load it.                                    *)
(***************************************************************************)
ViewList(d) == On(Ram, ViewKey[d])

Pending(i, d) ==
  /\ Of(i, Ram, ViewKey[d])
  /\ stack[i].event = ViewList(d) /\ d \in stack[i].due

AboutToLoad(d) ==
  /\ At("begin") \/ At("unload")
  /\ Top.e = d /\ Change.view = value[Ram][ViewKey[d]]

Shows(d) ==
  loaded[d] = IF value[Ram][ViewKey[d]] = Zero THEN {} ELSE {value[Ram][ViewKey[d]]}

ShownBy(d) ==
  /\ \A i \in 1 .. Len(stack) :
       Pending(i, d) => /\ writes[i].data = value[Ram][ViewKey[d]]
                        /\ \A j \in i+1 .. Len(stack) : ~Of(j, Ram, ViewKey[d])
  /\ At("begin") \/ At("unload") => AboutToLoad(d)
  /\ d \in shown =>
       /\ d \in Linked(ViewList(d))
       /\ Shows(d) \/ AboutToLoad(d) \/ \E i \in 1 .. Len(stack) : Pending(i, d)

ShowInv == LoadedInv /\ \A d \in Display : ShownBy(d)

-----------------------------------------------------------------------------
\* The constants.
LEMMA DisplayFacts ==
  /\ Display \subseteq Node /\ ViewSubs \subseteq Node \ Display
  /\ Ram \in Stream /\ Bsp \in Stream
  /\ View \subseteq Value /\ Zero \notin View /\ ViewOrNull \subseteq Value
  /\ \A v \in View : ViewSub[v] \in ViewSubs
  /\ Watched \in Key /\ HasKey(Bsp, Watched)
  /\ WatchedList \in EventsOf(Bsp) /\ WatchedList \in List
  /\ EventsOf(Bsp) \in SUBSET List
  /\ \A d \in Display :
       /\ ViewKey[d] \in Key /\ HasKey(Ram, ViewKey[d])
       /\ On(Ram, ViewKey[d]) \in EventsOf(Ram) /\ On(Ram, ViewKey[d]) \in List
<1>1. /\ Display \subseteq Node /\ Ram \in Stream /\ Bsp \in Stream
      /\ View \subseteq Value \ {Zero} /\ ViewSub \in [View -> Node \ Display]
  BY DisplayConstants
<1>2. ViewSubs \subseteq Node \ Display /\ \A v \in View : ViewSub[v] \in ViewSubs
  BY <1>1 DEF ViewSubs, Range
<1>3. Watched \in Key /\ HasKey(Bsp, Watched)  BY DisplayConstants DEF KeysOf
<1>4. WatchedList \in EventsOf(Bsp) /\ WatchedList \in List
  BY <1>1, <1>3, StreamFacts DEF WatchedList
<1>5. ASSUME NEW d \in Display
      PROVE  /\ ViewKey[d] \in Key /\ HasKey(Ram, ViewKey[d])
             /\ On(Ram, ViewKey[d]) \in EventsOf(Ram)
             /\ On(Ram, ViewKey[d]) \in List
  <2>1. ViewKey[d] \in KeysOf(Ram)  BY DisplayConstants
  <2>2. ViewKey[d] \in Key /\ HasKey(Ram, ViewKey[d])  BY <2>1 DEF KeysOf
  <2>3. QED  BY <1>1, <2>2, StreamFacts
<1>6. ViewOrNull \subseteq Value  BY <1>1, ZeroFacts DEF ViewOrNull
<1>7. QED  BY <1>1, <1>2, <1>3, <1>4, <1>5, <1>6, StreamFacts

LEMMA StreamsApart ==
  ASSUME TwoStreams
  PROVE  /\ EventsOf(Ram) \cap EventsOf(Bsp) = {}
         /\ \A d \in Display : /\ On(Ram, ViewKey[d]) \notin EventsOf(Bsp)
                               /\ On(Ram, ViewKey[d]) # WatchedList
BY DisplayFacts, EventsApart DEF TwoStreams

-----------------------------------------------------------------------------
\* A walk that stands on its list.
LEMMA StandingBegins ==
  ASSUME NEW h, NEW nx, NEW s \in Seq(Node), IsChain(s, h, nx),
         NEW g, g.e = h, g.calling = FALSE, g.due = Range(s)
  PROVE  Standing(g, s)
<1>1. CASE h = NULL
  <2>1. s = <<>>
    <3>1. s # <<>> => s[1] \in Node  OBVIOUS
    <3>2. QED  BY <1>1, <3>1, NullAssumption DEF IsChain
  <2>2. Range(s) = {}  BY <2>1 DEF Range
  <2>3. QED  BY <1>1, <2>2 DEF Standing
<1>2. CASE h # NULL
  <2>1. 1 \in 1 .. Len(s) /\ s[1] = h  BY <1>2 DEF IsChain
  <2>2. Range(s) = From(s, 1)  BY DEF Range, From
  <2>3. QED  BY <1>2, <2>1, <2>2 DEF Standing
<1>3. QED  BY <1>1, <1>2

LEMMA StandingCalls ==
  ASSUME NEW h, NEW nx, NEW s \in Seq(Node), IsChain(s, h, nx),
         NEW f, f.e # NULL, f.calling = FALSE, Standing(f, s),
         NEW g, g.e = f.e, g.calling = TRUE, g.due = f.due \ {f.e}
  PROVE  Standing(g, s)
<1>1. PICK p \in 1 .. Len(s) : s[p] = f.e /\ f.due = From(s, p)
  BY DEF Standing
<1>2. \A q \in 1 .. Len(s) : s[q] = s[p] => q = p
  BY DEF IsChain, IsInjective
<1>3. From(s, p) \ {s[p]} = From(s, p+1)
  <2>1. \A q \in p+1 .. Len(s) : q \in 1 .. Len(s) /\ q \in p .. Len(s) /\ q # p
    OBVIOUS
  <2>2. \A q \in p .. Len(s) : q = p \/ q \in p+1 .. Len(s)  OBVIOUS
  <2>3. QED  BY <1>2, <2>1, <2>2 DEF From
<1>4. g.due = From(s, p+1)  BY <1>1, <1>3
<1>5. QED  BY <1>1, <1>4 DEF Standing

LEMMA StandingGoesOn ==
  ASSUME NEW h, NEW nx, NEW s \in Seq(Node), IsChain(s, h, nx),
         NEW f, f.e # NULL, f.calling = TRUE, Standing(f, s),
         NEW g, g.e = nx[f.e], g.calling = FALSE, g.due = f.due
  PROVE  Standing(g, s)
<1>1. PICK p \in 1 .. Len(s) : s[p] = f.e /\ f.due = From(s, p+1)
  BY DEF Standing
<1>2. CASE p = Len(s)
  <2>1. From(s, p+1) = {}  BY <1>2 DEF From
  <2>2. g.e = NULL  BY <1>1, <1>2 DEF IsChain
  <2>3. QED  BY <1>1, <2>1, <2>2 DEF Standing
<1>3. CASE p < Len(s)
  <2>1. p+1 \in 1 .. Len(s) /\ g.e = s[p+1]  BY <1>1, <1>3 DEF IsChain
  <2>2. g.e # NULL  BY <2>1, NullAssumption
  <2>3. QED  BY <1>1, <2>1, <2>2 DEF Standing
<1>4. QED  BY <1>1, <1>2, <1>3

\* Whoever is about to be called is due, and is on the list.
LEMMA StandingFacts ==
  ASSUME NEW s \in Seq(Node), NEW f, f.e # NULL, Standing(f, s)
  PROVE  /\ f.e \in Range(s) /\ f.due \subseteq Range(s)
         /\ f.calling = FALSE => f.e \in f.due
<1>1. PICK p \in 1 .. Len(s) :
        s[p] = f.e /\ f.due = From(s, IF f.calling THEN p+1 ELSE p)
  BY DEF Standing
<1>2. f.due \subseteq Range(s)  BY <1>1 DEF From, Range
<1>3. f.calling = FALSE => f.e \in f.due
  <2>1. p \in p .. Len(s)  OBVIOUS
  <2>2. s[p] \in From(s, p)  BY <2>1 DEF From
  <2>3. QED  BY <1>1, <2>2
<1>4. QED  BY <1>1, <1>2, <1>3 DEF Range

LEMMA WalksFacts ==
  ASSUME WalksInv, NEW i \in 1 .. Len(stack)
  PROVE  /\ stack[i] \in Frame /\ stack[i].event \in List
         /\ stack[i].e \in Pointer /\ stack[i].calling \in BOOLEAN
         /\ stack[i].calling => stack[i].e # NULL
         /\ stack[i].due \in SUBSET Node
         /\ Contents[stack[i].event] \in Seq(Node)
         /\ IsChain(Contents[stack[i].event], head[stack[i].event], next)
         /\ Linked(stack[i].event) = Range(Contents[stack[i].event])
<1>1. EventTypeInv /\ ListsInv /\ stack \in Seq(Frame)
  BY RamTypes, Typed, StackFacts DEF WalksInv, EventTypeInv
<1>2. stack[i] \in Frame  BY <1>1
<1>3. stack[i].calling => stack[i].e # NULL  BY <1>1, Typed, CallingFacts
<1>4. stack[i].event \in List  BY <1>2, FrameFields
<1>5. /\ Contents[stack[i].event] \in Seq(Node)
      /\ IsChain(Contents[stack[i].event], head[stack[i].event], next)
      /\ Linked(stack[i].event) = Range(Contents[stack[i].event])
  BY <1>1, <1>4, ContentsFacts
<1>6. QED  BY <1>2, <1>3, <1>5, FrameFields

\* The innermost walk.
LEMMA TopFacts ==
  ASSUME WalksInv, stack # <<>>
  PROVE  /\ EventTypeInv /\ ListsInv /\ Len(stack) \in 1 .. Len(stack)
         /\ Top = stack[Len(stack)] /\ Top \in Frame
         /\ Writing = writes[Len(stack)]
         /\ Writing.stream \in Stream /\ Writing.key \in Key
         /\ HasKey(Writing.stream, Writing.key)
         /\ Top.event \in {On(Writing.stream, Writing.key), AllOf(Writing.stream)}
<1>1. RamTypeInv /\ EventTypeInv /\ ListsInv
  BY RamTypes DEF WalksInv, EventTypeInv
<1>2. /\ Len(stack) \in 1 .. Len(stack) /\ Top = stack[Len(stack)]
      /\ Top \in Frame /\ Writing = writes[Len(stack)]
      /\ Writing.stream \in Stream /\ Writing.key \in Key
  BY <1>1, Typed, TopFrame, RamTyped, WritingFacts
<1>3. QED  BY <1>1, <1>2 DEF WalksInv, WritesFit

\* When the callback the program is in may act, all walks are calling.
LEMMA AllCalling ==
  ASSUME WalksInv, Outside \/ InCallback
  PROVE  \A i \in 1 .. Len(stack) : stack[i].calling
<1>1. stack \in Seq(Frame) /\ Len(stack) \in Nat
  BY RamTypes, Typed, StackFacts DEF WalksInv
<1>2. CASE Outside  BY <1>1, <1>2 DEF Outside
<1>3. CASE InCallback
  <2>1. stack[Len(stack)].calling  BY <1>3 DEF InCallback, Top
  <2>2. \A i \in 1 .. Len(stack) - 1 : stack[i].calling
    BY DEF WalksInv, OuterCalling
  <2>3. \A i \in 1 .. Len(stack) : i = Len(stack) \/ i \in 1 .. Len(stack) - 1
    BY <1>1
  <2>4. QED  BY <2>1, <2>2, <2>3
<1>4. QED  BY <1>2, <1>3

\* The invariant is about the state after a step.
LEMMA WalksInvNext ==
  ASSUME RamTypeInv', OnOwnLists',
         \A i \in 1 .. Len(stack') :
           /\ stack'[i].event \in {On(writes'[i].stream, writes'[i].key),
                                   AllOf(writes'[i].stream)}
           /\ HasKey(writes'[i].stream, writes'[i].key)
           /\ stack'[i].event \notin EventsOf(Bsp) =>
                Standing(stack'[i], Contents'[stack'[i].event]),
         \A i \in 1 .. Len(stack') - 1 : stack'[i].calling,
         NEW S \in SUBSET (Node \ Display), Closed(S, next'),
         \A l \in EventsOf(Bsp) : Linked(l)' \subseteq S,
         \A i \in 1 .. Len(stack') :
           stack'[i].event \in EventsOf(Bsp) => stack'[i].e \in S \cup {NULL}
  PROVE  WalksInv'
<1>1. WritesFit'  BY Zenon DEF WritesFit, HasKey, Count, Entry, On, AllOf
<1>2. EventsOf(Bsp)' = EventsOf(Bsp)  BY DEF EventsOf, Count, On, AllOf
<1>3. \A i : OfBsp(i)' <=> stack'[i].event \in EventsOf(Bsp)
  BY <1>2 DEF OfBsp
<1>4. OthersStand'  BY <1>3, Zenon DEF OthersStand
<1>5. OuterCalling'  BY DEF OuterCalling
<1>6. KeepsOff(S)'
  <2>1. Closed(S, next)'  BY DEF Closed
  <2>2. \A l \in EventsOf(Bsp)' : Linked(l)' \subseteq S  BY <1>2
  <2>3. \A i \in 1 .. Len(stack') : OfBsp(i)' => stack'[i].e \in S \cup {NULL}
    BY <1>3
  <2>4. QED  BY <2>1, <2>2, <2>3, Zenon DEF KeepsOff
<1>7. S \in SUBSET Node  OBVIOUS
<1>8. QED  BY <1>1, <1>4, <1>5, <1>6, <1>7 DEF WalksInv

LEMMA SameLists ==
  ASSUME WalksInv, UNCHANGED <<listVars, shown>>
  PROVE  /\ OnOwnLists' /\ Contents' = Contents
         /\ \A l : Linked(l)' = Linked(l)
<1>1. Contents' = Contents /\ \A l : Linked(l)' = Linked(l)
  BY SameLinks DEF Contents, listVars
<1>2. OnOwnLists'  BY <1>1 DEF WalksInv, OnOwnLists, On
<1>3. QED  BY <1>1, <1>2

-----------------------------------------------------------------------------
\* The walks, for each of the ways in which lists and stack change.
LEMMA WalksTop ==
  ASSUME WalksInv, RamTypeInv', UNCHANGED <<listVars, writes, shown>>,
         stack # <<>>, NEW f \in Frame,
         stack' = [stack EXCEPT ![Len(stack)] = f],
         f.event \in {On(Writing.stream, Writing.key), AllOf(Writing.stream)},
         f.event \notin EventsOf(Bsp) => Standing(f, Contents[f.event]),
         \A S \in SUBSET Node :
           KeepsOff(S) /\ f.event \in EventsOf(Bsp) => f.e \in S \cup {NULL}
  PROVE  WalksInv'
<1>1. /\ EventTypeInv /\ Len(stack) \in 1 .. Len(stack)
      /\ Writing = writes[Len(stack)]
      /\ HasKey(Writing.stream, Writing.key)
  BY TopFacts
<1>2. /\ Len(stack') = Len(stack) /\ stack'[Len(stack)] = f
      /\ \A i \in 1 .. Len(stack) - 1 : stack'[i] = stack[i]
  BY <1>1, Typed, ReplaceTop
<1>3. \A i \in 1 .. Len(stack) : i = Len(stack) \/ i \in 1 .. Len(stack) - 1
  BY <1>1, Typed, StackFacts, LastOrBelow, Zenon
<1>4. OnOwnLists' /\ Contents' = Contents /\ \A l : Linked(l)' = Linked(l)
  BY SameLists
<1>5. WritesFit /\ OuterCalling /\ OthersStand  BY DEF WalksInv
<1>6. ASSUME NEW i \in 1 .. Len(stack')
      PROVE  /\ stack'[i].event \in {On(writes'[i].stream, writes'[i].key),
                                     AllOf(writes'[i].stream)}
             /\ HasKey(writes'[i].stream, writes'[i].key)
             /\ stack'[i].event \notin EventsOf(Bsp) =>
                  Standing(stack'[i], Contents'[stack'[i].event])
  <2>1. i \in 1 .. Len(stack) /\ writes'[i] = writes[i]  BY <1>2
  <2>2. CASE i = Len(stack)
    BY <1>1, <1>2, <1>4, <2>1, <2>2, Zenon
  <2>3. CASE i \in 1 .. Len(stack) - 1
    <3>1. stack'[i] = stack[i]  BY <1>2, <2>3
    <3>2. /\ stack[i].event \in {On(writes[i].stream, writes[i].key),
                                  AllOf(writes[i].stream)}
          /\ HasKey(writes[i].stream, writes[i].key)
      BY <1>5, <2>1 DEF WritesFit
    <3>3. stack[i].event \notin EventsOf(Bsp) =>
            Standing(stack[i], Contents[stack[i].event])
      BY <1>5, <2>1 DEF OthersStand, OfBsp
    <3>4. QED  BY <1>4, <2>1, <3>1, <3>2, <3>3, ZenonT(30)
  <2>4. QED  BY <1>3, <2>1, <2>2, <2>3
<1>7. \A i \in 1 .. Len(stack') - 1 : stack'[i].calling
  BY <1>2, <1>5 DEF OuterCalling
<1>8. PICK S \in SUBSET Node : KeepsOff(S)  BY DEF WalksInv
<1>9. /\ S \in SUBSET (Node \ Display) /\ Closed(S, next')
      /\ \A l \in EventsOf(Bsp) : Linked(l)' \subseteq S
  BY <1>4, <1>8 DEF KeepsOff, listVars
<1>10. ASSUME NEW i \in 1 .. Len(stack'), stack'[i].event \in EventsOf(Bsp)
       PROVE  stack'[i].e \in S \cup {NULL}
  <2>1. CASE i = Len(stack)  BY <1>2, <1>8, <1>10, <2>1
  <2>2. CASE i \in 1 .. Len(stack) - 1
    <3>1. stack'[i] = stack[i] /\ i \in 1 .. Len(stack)  BY <1>2, <1>3, <2>2
    <3>2. QED  BY <1>8, <1>10, <3>1 DEF KeepsOff, OfBsp
  <2>3. QED  BY <1>2, <1>3, <2>1, <2>2
<1>11. QED  BY <1>4, <1>6, <1>7, <1>9, <1>10, WalksInvNext

LEMMA WalksTell ==
  ASSUME WalksInv, Tell, UNCHANGED shown
  PROVE  WalksInv'
<1>1. /\ Call /\ stack # <<>> /\ Top.e # NULL /\ ~Top.calling
      /\ UNCHANGED <<listVars, writes, shown>>
  BY DEF Tell, Call, Walking
<1>2. RamTypeInv'  BY TypeTell DEF WalksInv
<1>3. /\ EventTypeInv /\ Len(stack) \in 1 .. Len(stack)
      /\ Top = stack[Len(stack)] /\ Top \in Frame
      /\ Top.event \in {On(Writing.stream, Writing.key), AllOf(Writing.stream)}
  BY <1>1, TopFacts
<1>4. PICK f \in Frame :
        /\ f = Publishing(Top.event, Top.e, TRUE, Top.due \ {Top.e})
        /\ stack' = [stack EXCEPT ![Len(stack)] = f]
  BY <1>1, <1>3, Typed, CallStack
<1>5. /\ f.event = Top.event /\ f.e = Top.e /\ f.calling = TRUE
      /\ f.due = Top.due \ {Top.e}
  BY <1>4 DEF Publishing
<1>6. ASSUME f.event \notin EventsOf(Bsp)  PROVE Standing(f, Contents[f.event])
  <2>1. PICK s : s = Contents[Top.event]  OBVIOUS
  <2>2. /\ s \in Seq(Node) /\ IsChain(s, head[Top.event], next)
        /\ Top.calling \in BOOLEAN
    BY <1>3, <2>1, WalksFacts
  <2>3. Standing(Top, s)
    BY <1>3, <1>5, <1>6, <2>1 DEF WalksInv, OthersStand, OfBsp
  <2>4. Standing(f, s)  BY <1>1, <1>5, <2>2, <2>3, StandingCalls
  <2>5. QED  BY <1>5, <2>1, <2>4
<1>7. \A S : KeepsOff(S) /\ f.event \in EventsOf(Bsp) => f.e \in S \cup {NULL}
  BY <1>3, <1>5 DEF KeepsOff, OfBsp
<1>8. QED  BY <1>1, <1>2, <1>3, <1>4, <1>5, <1>6, <1>7, WalksTop

LEMMA WalksReturn ==
  ASSUME WalksInv, CallbackReturns, UNCHANGED shown
  PROVE  WalksInv'
<1>1. /\ Return /\ stack # <<>> /\ Top.calling
      /\ UNCHANGED <<listVars, writes, shown>>
  BY DEF CallbackReturns, Return, InCallback
<1>2. RamTypeInv'  BY TypeCallbackReturns DEF WalksInv
<1>3. /\ EventTypeInv /\ Len(stack) \in 1 .. Len(stack)
      /\ Top = stack[Len(stack)] /\ Top \in Frame
      /\ Top.event \in {On(Writing.stream, Writing.key), AllOf(Writing.stream)}
  BY <1>1, TopFacts
<1>4. PICK f \in Frame :
        /\ f = Publishing(Top.event, next[Top.e], FALSE, Top.due)
        /\ stack' = [stack EXCEPT ![Len(stack)] = f]
  BY <1>1, <1>3, Typed, ReturnStack
<1>5. /\ f.event = Top.event /\ f.e = next[Top.e] /\ f.calling = FALSE
      /\ f.due = Top.due
  BY <1>4 DEF Publishing
<1>6. Top.e # NULL /\ Top.calling = TRUE  BY <1>1, <1>3, WalksFacts
<1>7. ASSUME f.event \notin EventsOf(Bsp)  PROVE Standing(f, Contents[f.event])
  <2>1. PICK s : s = Contents[Top.event]  OBVIOUS
  <2>2. s \in Seq(Node) /\ IsChain(s, head[Top.event], next)
    BY <1>3, <2>1, WalksFacts
  <2>3. Standing(Top, s)
    BY <1>3, <1>5, <1>7, <2>1 DEF WalksInv, OthersStand, OfBsp
  <2>4. Standing(f, s)  BY <1>5, <1>6, <2>2, <2>3, StandingGoesOn
  <2>5. QED  BY <1>5, <2>1, <2>4
<1>8. \A S : KeepsOff(S) /\ f.event \in EventsOf(Bsp) => f.e \in S \cup {NULL}
  BY <1>3, <1>5, <1>6 DEF KeepsOff, OfBsp, Closed
<1>9. QED  BY <1>1, <1>2, <1>3, <1>4, <1>5, <1>7, <1>8, WalksTop

LEMMA WalksGoOn ==
  ASSUME WalksInv, WriteGoesOn, UNCHANGED shown
  PROVE  WalksInv'
<1>1. stack # <<>> /\ UNCHANGED <<listVars, writes, shown>>
  BY DEF WriteGoesOn, Walking
<1>2. RamTypeInv'  BY TypeWriteGoesOn DEF WalksInv
<1>3. EventTypeInv /\ ListsInv /\ Writing.stream \in Stream  BY <1>1, TopFacts
<1>4. PICK l : l = AllOf(Writing.stream)  OBVIOUS
<1>5. l \in List  BY <1>3, <1>4, StreamFacts
<1>6. PICK f \in Frame :
        /\ f = Publishing(l, head[l], FALSE, Linked(l))
        /\ stack' = [stack EXCEPT ![Len(stack)] = f]
  BY <1>3, <1>4, <1>5, Typed, BegunFrame DEF WriteGoesOn, TopBecomes
<1>7. /\ f.event = l /\ f.e = head[l] /\ f.calling = FALSE
      /\ f.due = Linked(l)
  BY <1>6 DEF Publishing
<1>8. Standing(f, Contents[f.event])
  BY <1>3, <1>5, <1>7, ContentsFacts, StandingBegins
<1>9. \A S : KeepsOff(S) /\ f.event \in EventsOf(Bsp) => f.e \in S \cup {NULL}
  BY <1>3, <1>5, <1>7, WalkStaysOn DEF KeepsOff
<1>10. QED  BY <1>1, <1>2, <1>4, <1>6, <1>7, <1>8, <1>9, WalksTop

LEMMA WalksPopped ==
  ASSUME WalksInv, WriteReturns, UNCHANGED shown
  PROVE  WalksInv'
<1>1. UNCHANGED <<listVars, shown>>  BY DEF WriteReturns, PublishReturns
<1>2. RamTypeInv'  BY TypeWriteReturns DEF WalksInv
<1>3. PICK k \in Nat : EndsAfter(k)  BY RamTyped, PopStacks DEF WalksInv
<1>4. k = Len(stack) - 1  BY <1>3 DEF EndsAfter
<1>5. /\ \A i \in 1 .. k : i \in 1 .. Len(stack)
      /\ \A i \in 1 .. k - 1 : i \in 1 .. k
  BY <1>3 DEF EndsAfter
<1>6. Len(stack') = k /\ \A i \in 1 .. k : stack'[i] = stack[i]
  BY <1>3 DEF EndsAfter
<1>7. \A i \in 1 .. k : writes'[i] = writes[i]  BY <1>3 DEF EndsAfter
<1>8. OnOwnLists' /\ Contents' = Contents /\ \A l : Linked(l)' = Linked(l)
  BY <1>1, SameLists
<1>9. ASSUME NEW i \in 1 .. Len(stack')
      PROVE  /\ stack'[i].event \in {On(writes'[i].stream, writes'[i].key),
                                     AllOf(writes'[i].stream)}
             /\ HasKey(writes'[i].stream, writes'[i].key)
             /\ stack'[i].event \notin EventsOf(Bsp) =>
                  Standing(stack'[i], Contents'[stack'[i].event])
  <2>1. i \in 1 .. Len(stack) /\ stack'[i] = stack[i] /\ writes'[i] = writes[i]
    BY <1>5, <1>6, <1>7
  <2>2. /\ stack[i].event \in {On(writes[i].stream, writes[i].key),
                                AllOf(writes[i].stream)}
        /\ HasKey(writes[i].stream, writes[i].key)
        /\ stack[i].event \notin EventsOf(Bsp) =>
             Standing(stack[i], Contents[stack[i].event])
    BY <2>1 DEF WalksInv, WritesFit, OthersStand, OfBsp
  <2>3. QED  BY <1>8, <2>1, <2>2, Zenon
<1>10. \A i \in 1 .. Len(stack') - 1 : stack'[i].calling
  BY <1>4, <1>5, <1>6 DEF WalksInv, OuterCalling
<1>11. PICK S \in SUBSET Node : KeepsOff(S)  BY DEF WalksInv
<1>12. /\ S \in SUBSET (Node \ Display) /\ Closed(S, next')
       /\ \A l \in EventsOf(Bsp) : Linked(l)' \subseteq S
  BY <1>1, <1>8, <1>11 DEF KeepsOff, listVars
<1>13. \A i \in 1 .. Len(stack') :
         stack'[i].event \in EventsOf(Bsp) => stack'[i].e \in S \cup {NULL}
  BY <1>5, <1>6, <1>11 DEF KeepsOff, OfBsp
<1>14. QED  BY <1>2, <1>8, <1>9, <1>10, <1>12, <1>13, WalksInvNext

LEMMA WalksWrite ==
  ASSUME WalksInv, NEW s \in Stream, NEW k \in Key, NEW data \in Value,
         Write(s, k, data), UNCHANGED shown
  PROVE  WalksInv'
<1>1. /\ HasKey(s, k) /\ Publish(On(s, k)) /\ UNCHANGED <<listVars, shown>>
      /\ Outside \/ InCallback
  BY DEF Write, Publish
<1>2. RamTypeInv'  BY TypeWrite DEF WalksInv
<1>3. EventTypeInv /\ ListsInv /\ On(s, k) \in List
  BY <1>1, RamTypes, StreamFacts DEF WalksInv, EventTypeInv
<1>4. PICK l : l = On(s, k)  OBVIOUS
<1>5. PICK m \in Nat, f \in Frame : BeginsAt(m, f, s, k, data)
  BY RamTyped, WriteStacks DEF WalksInv
<1>6. /\ f.event = l /\ f.e = head[l] /\ f.calling = FALSE
      /\ f.due = Linked(l)
  BY <1>4, <1>5 DEF BeginsAt
<1>9. /\ Len(stack') = m /\ stack'[m] = f
      /\ \A i \in 1 .. Len(stack) : stack'[i] = stack[i]
  BY <1>5 DEF BeginsAt
<1>10. /\ writes'[m].stream = s /\ writes'[m].key = k
       /\ \A i \in 1 .. Len(stack) : writes'[i] = writes[i]
  BY <1>5 DEF BeginsAt
<1>11. /\ \A i \in 1 .. m : i = m \/ i \in 1 .. Len(stack)
       /\ \A i \in 1 .. m - 1 : i \in 1 .. Len(stack)
  BY <1>5 DEF BeginsAt
<1>12. OnOwnLists' /\ Contents' = Contents /\ \A j : Linked(j)' = Linked(j)
  BY <1>1, SameLists
<1>13. Standing(f, Contents[f.event])
  BY <1>3, <1>4, <1>6, ContentsFacts, StandingBegins
<1>14. ASSUME NEW i \in 1 .. Len(stack')
       PROVE  /\ stack'[i].event \in {On(writes'[i].stream, writes'[i].key),
                                      AllOf(writes'[i].stream)}
              /\ HasKey(writes'[i].stream, writes'[i].key)
              /\ stack'[i].event \notin EventsOf(Bsp) =>
                   Standing(stack'[i], Contents'[stack'[i].event])
  <2>1. CASE i = m
    <3>1. stack'[i] = f /\ f.event = On(s, k)  BY <1>4, <1>6, <1>9, <2>1
    <3>2. Standing(stack'[i], Contents'[stack'[i].event])
      BY <1>12, <1>13, <3>1, Zenon
    <3>3. QED  BY <1>1, <1>10, <2>1, <3>1, <3>2
  <2>2. CASE i \in 1 .. Len(stack)
    <3>1. stack'[i] = stack[i] /\ writes'[i] = writes[i]  BY <1>9, <1>10, <2>2
    <3>2. /\ stack[i].event \in {On(writes[i].stream, writes[i].key),
                                  AllOf(writes[i].stream)}
          /\ HasKey(writes[i].stream, writes[i].key)
          /\ stack[i].event \notin EventsOf(Bsp) =>
               Standing(stack[i], Contents[stack[i].event])
      BY <2>2 DEF WalksInv, WritesFit, OthersStand, OfBsp
    <3>3. QED  BY <1>12, <3>1, <3>2, Zenon
  <2>3. QED  BY <1>9, <1>11, <2>1, <2>2
<1>15. \A i \in 1 .. Len(stack') - 1 : stack'[i].calling
  BY <1>1, <1>9, <1>11, AllCalling
<1>16. PICK S \in SUBSET Node : KeepsOff(S)  BY DEF WalksInv
<1>17. /\ S \in SUBSET (Node \ Display) /\ Closed(S, next')
       /\ \A j \in EventsOf(Bsp) : Linked(j)' \subseteq S
  BY <1>1, <1>12, <1>16 DEF KeepsOff, listVars
<1>18. ASSUME NEW i \in 1 .. Len(stack'), stack'[i].event \in EventsOf(Bsp)
       PROVE  stack'[i].e \in S \cup {NULL}
  <2>1. CASE i = m
    <3>1. l \in EventsOf(Bsp) /\ stack'[i].e = head[l]
      BY <1>6, <1>9, <1>18, <2>1
    <3>2. head[l] \in Linked(l) \cup {NULL}  BY <1>3, <1>4, WalkStaysOn
    <3>3. QED  BY <1>16, <3>1, <3>2 DEF KeepsOff
  <2>2. CASE i \in 1 .. Len(stack)
    <3>1. stack'[i] = stack[i]  BY <1>9, <2>2
    <3>2. QED  BY <1>16, <1>18, <2>2, <3>1 DEF KeepsOff, OfBsp
  <2>3. QED  BY <1>9, <1>11, <2>1, <2>2
<1>19. QED  BY <1>2, <1>12, <1>14, <1>15, <1>17, <1>18, WalksInvNext

\* What is due changes in walks of the bsp stream only.
LEMMA WalksDue ==
  ASSUME WalksInv, RamTypeInv', OnOwnLists', UNCHANGED writes,
         Len(stack') = Len(stack),
         \A i \in 1 .. Len(stack) :
           /\ stack'[i].event = stack[i].event /\ stack'[i].e = stack[i].e
           /\ stack'[i].calling = stack[i].calling
           /\ ~OfBsp(i) => stack'[i].due = stack[i].due,
         \A l \in List \ EventsOf(Bsp) : Contents'[l] = Contents[l],
         NEW S \in SUBSET (Node \ Display), Closed(S, next'),
         \A l \in EventsOf(Bsp) : Linked(l)' \subseteq S,
         \A i \in 1 .. Len(stack) : OfBsp(i) => stack[i].e \in S \cup {NULL}
  PROVE  WalksInv'
<1>1. ASSUME NEW i \in 1 .. Len(stack')
      PROVE  /\ stack'[i].event \in {On(writes'[i].stream, writes'[i].key),
                                     AllOf(writes'[i].stream)}
             /\ HasKey(writes'[i].stream, writes'[i].key)
             /\ stack'[i].event \notin EventsOf(Bsp) =>
                  Standing(stack'[i], Contents'[stack'[i].event])
  <2>1. i \in 1 .. Len(stack) /\ writes'[i] = writes[i]  OBVIOUS
  <2>2. /\ stack[i].event \in {On(writes[i].stream, writes[i].key),
                                AllOf(writes[i].stream)}
        /\ HasKey(writes[i].stream, writes[i].key)
    BY <2>1 DEF WalksInv, WritesFit
  <2>3. ASSUME stack'[i].event \notin EventsOf(Bsp)
        PROVE  Standing(stack'[i], Contents'[stack'[i].event])
    <3>1. ~OfBsp(i)  BY <2>1, <2>3 DEF OfBsp
    <3>2. PICK s : s = Contents[stack[i].event]  OBVIOUS
    <3>3. Standing(stack[i], s)
      BY <2>1, <3>1, <3>2 DEF WalksInv, OthersStand
    <3>4. stack[i].event \in List  BY <2>1, WalksFacts
    <3>5. Contents'[stack'[i].event] = s  BY <2>1, <2>3, <3>2, <3>4
    <3>6. Standing(stack'[i], s)  BY <2>1, <3>1, <3>3 DEF Standing
    <3>7. QED  BY <3>5, <3>6
  <2>4. QED  BY <2>1, <2>2, <2>3
<1>2. \A i \in 1 .. Len(stack') - 1 : stack'[i].calling
  <2>1. Len(stack) \in Nat  BY RamTypes, Typed, StackFacts DEF WalksInv
  <2>2. \A i \in 1 .. Len(stack) - 1 : i \in 1 .. Len(stack)  BY <2>1
  <2>3. \A i \in 1 .. Len(stack) - 1 : stack[i].calling
    BY DEF WalksInv, OuterCalling
  <2>4. QED  BY <2>2, <2>3
<1>3. \A i \in 1 .. Len(stack') :
        stack'[i].event \in EventsOf(Bsp) => stack'[i].e \in S \cup {NULL}
  BY DEF OfBsp
<1>4. QED  BY <1>1, <1>2, <1>3, WalksInvNext

\* A view ends its subscription.
LEMMA WalksViewGoes ==
  ASSUME WalksInv, NEW n \in ViewSubs, UnsubscribedFrom(Bsp, n), UNCHANGED shown
  PROVE  WalksInv'
<1>1. /\ DeletedWherever(EventsOf(Bsp), n) /\ stack' = DueWithout(EventsOf(Bsp), n)
      /\ UNCHANGED <<writes, shown>>
  BY DEF UnsubscribedFrom, EventsSearched
<1>2. /\ n \in Node /\ Bsp \in Stream /\ EventsOf(Bsp) \in SUBSET List
      /\ EventTypeInv /\ ListsInv
  BY DisplayFacts, RamTypes DEF WalksInv, EventTypeInv
<1>3. RamTypeInv'  BY <1>2, TypeUnsubscribedFrom DEF WalksInv
<1>4. /\ Len(stack') = Len(stack)
      /\ \A i \in 1 .. Len(stack) :
           /\ stack'[i].event = stack[i].event /\ stack'[i].e = stack[i].e
           /\ stack'[i].calling = stack[i].calling
           /\ ~OfBsp(i) => stack'[i].due = stack[i].due
  BY <1>1, <1>2, Typed, UnsubscribedStack, ZenonT(40) DEF OfBsp
<1>5. \A l \in List : Linked(l)' \subseteq Linked(l)
  BY <1>1, <1>2, LinkedAfterUnsubscribing
<1>6. OnOwnLists'  BY <1>1, <1>5 DEF WalksInv, OnOwnLists, On, WatchedList
<1>7. UNCHANGED listVars \/ \E l \in EventsOf(Bsp) : Delete(l, n)
  BY <1>1 DEF DeletedWherever
<1>8. \A l \in List \ EventsOf(Bsp) : Contents'[l] = Contents[l]
  BY <1>2, <1>7, ListsUntouched, OtherContentsStay
<1>9. PICK S \in SUBSET Node : KeepsOff(S)  BY DEF WalksInv
<1>10. Closed(S, next')
  <2>1. CASE UNCHANGED listVars  BY <1>9, <2>1 DEF KeepsOff, listVars
  <2>2. ASSUME NEW l \in EventsOf(Bsp), Delete(l, n)  PROVE Closed(S, next')
    <3>1. \A m \in Node :
             \/ next'[m] = next[m]
             \/ next[m] = n /\ next'[m] = next[n]
      <4>1. l \in List /\ n \in Node /\ ListsInv  BY <1>2
      <4>2. QED  BY <2>2, <4>1, DeleteLinks
    <3>2. n # NULL  BY <1>2, NullAssumption
    <3>3. QED  BY <1>9, <3>1, <3>2 DEF KeepsOff, Closed
  <2>3. QED  BY <1>7, <2>1, <2>2
<1>11. /\ S \in SUBSET (Node \ Display)
       /\ \A l \in EventsOf(Bsp) : Linked(l)' \subseteq S
       /\ \A i \in 1 .. Len(stack) : OfBsp(i) => stack[i].e \in S \cup {NULL}
  BY <1>2, <1>5, <1>9 DEF KeepsOff
<1>12. QED  BY <1>1, <1>3, <1>4, <1>6, <1>8, <1>10, <1>11, WalksDue

\* A view subscribes.
LEMMA WalksViewComes ==
  ASSUME WalksInv, NEW n \in ViewSubs, KeySubscribed(Bsp, Watched, n),
         UNCHANGED shown
  PROVE  WalksInv'
<1>1. /\ Push(WatchedList, n) /\ stack' = DueWith(WatchedList, n)
      /\ UNCHANGED <<writes, shown>>
  BY DEF KeySubscribed, Subscribed, WatchedList
<1>2. /\ n \in Node \ Display /\ WatchedList \in List
      /\ WatchedList \in EventsOf(Bsp) /\ EventsOf(Bsp) \in SUBSET List
      /\ EventTypeInv /\ ListsInv
  BY DisplayFacts, RamTypes DEF WalksInv, EventTypeInv
<1>3. RamTypeInv'  BY <1>2, DisplayFacts, TypeKeySubscribed DEF WalksInv
<1>4. /\ Len(stack') = Len(stack)
      /\ \A i \in 1 .. Len(stack) :
           /\ stack'[i].event = stack[i].event /\ stack'[i].e = stack[i].e
           /\ stack'[i].calling = stack[i].calling
           /\ ~OfBsp(i) => stack'[i].due = stack[i].due
  BY <1>1, <1>2, Typed, SubscribedStack DEF OfBsp
<1>5. \A l \in List : Linked(l)' \subseteq Linked(l)
                                      \cup (IF l = WatchedList THEN {n} ELSE {})
  BY <1>1, <1>2, PushKeeps
<1>6. OnOwnLists'
  <2>1. OnOwnLists  BY DEF WalksInv
  <2>2. \A l \in List : /\ \A d \in Display : d \in Linked(l)' => d \in Linked(l)
                        /\ \A m \in Node : m \in Linked(l)' =>
                             m \in Linked(l) \/ l = WatchedList
    BY <1>2, <1>5
  <2>3. ViewSubs \subseteq Node  BY DisplayFacts
  <2>4. QED  BY <1>1, <2>1, <2>2, <2>3 DEF OnOwnLists, On, WatchedList
<1>7. \A l \in List \ EventsOf(Bsp) : Contents'[l] = Contents[l]
  BY <1>1, <1>2, OtherContentsStay
<1>8. PICK S \in SUBSET Node : KeepsOff(S)  BY DEF WalksInv
<1>9. PICK T : T = S \cup {n}  OBVIOUS
<1>10. T \in SUBSET (Node \ Display)  BY <1>2, <1>8, <1>9 DEF KeepsOff
<1>11. Closed(T, next')
  <2>1. \A m \in Node : next'[m] \in {next[m], n, NULL}
    BY <1>1, <1>2, PushLinks
  <2>2. next'[n] \in T \cup {NULL}
    <3>1. ListsInv' /\ n \in Linked(WatchedList)'
      BY <1>1, <1>2, PushStep, PushLinked
    <3>2. next'[n] \in Linked(WatchedList)' \cup {NULL}
      BY <1>2, <3>1, WalkStaysOnNext
    <3>3. Linked(WatchedList) \subseteq S  BY <1>2, <1>8 DEF KeepsOff
    <3>4. QED  BY <1>2, <1>5, <1>9, <3>2, <3>3
  <2>3. \A m \in S : next'[m] \in T \cup {NULL}
    BY <1>8, <1>9, <2>1 DEF KeepsOff, Closed
  <2>4. QED  BY <1>9, <2>2, <2>3 DEF Closed
<1>12. /\ \A l \in EventsOf(Bsp) : Linked(l)' \subseteq T
       /\ \A i \in 1 .. Len(stack) : OfBsp(i) => stack[i].e \in T \cup {NULL}
  BY <1>2, <1>5, <1>8, <1>9 DEF KeepsOff
<1>13. QED  BY <1>1, <1>3, <1>4, <1>6, <1>7, <1>10, <1>11, <1>12, WalksDue

\* While no write is under way, anybody may subscribe and unsubscribe.
LEMMA WalksOutside ==
  ASSUME TwoStreams, RamTypeInv', OnOwnLists', stack' = <<>>
  PROVE  WalksInv'
<1>1. 1 .. Len(stack') = {} /\ 1 .. Len(stack') - 1 = {}  OBVIOUS
<1>2. PICK S : S = UNION {Linked(l)' : l \in EventsOf(Bsp)}  OBVIOUS
<1>3. ListsInv'  BY DEF RamTypeInv, EventTypeInv
<1>4. \A l \in EventsOf(Bsp) : l \in List /\ Linked(l)' \subseteq Node \ Display
  <2>1. \A l \in List : Linked(l)' \subseteq Node
    BY <1>3, LinkedNext DEF Linked, Reach
  <2>2. ASSUME NEW l \in EventsOf(Bsp), NEW d \in Display, d \in Linked(l)'
        PROVE  FALSE
    <3>1. l \in List  BY DisplayFacts
    <3>2. l = On(Ram, ViewKey[d])  BY <2>2, <3>1 DEF OnOwnLists, On
    <3>3. QED  BY <2>2, <3>2, StreamsApart
  <2>3. QED  BY <2>1, <2>2, DisplayFacts
<1>5. S \in SUBSET (Node \ Display)  BY <1>2, <1>4
<1>6. Closed(S, next')
  <2>1. ASSUME NEW l \in EventsOf(Bsp), NEW m \in Linked(l)'
        PROVE  next'[m] \in Linked(l)' \cup {NULL}
    BY <1>3, <1>4, <2>1, WalkStaysOnNext
  <2>2. QED  BY <1>2, <2>1 DEF Closed
<1>7. \A l \in EventsOf(Bsp) : Linked(l)' \subseteq S  BY <1>2
<1>8. QED  BY <1>1, <1>5, <1>6, <1>7, WalksInvNext

-----------------------------------------------------------------------------
\* A display that a publish has come to is subscribed to the view stored for it,
\* and to nothing else.
LEMMA AtDisplay ==
  ASSUME TwoStreams, WalksInv, NEW i \in 1 .. Len(stack), stack[i].e \in Display
  PROVE  /\ stack[i].event = On(Ram, ViewKey[stack[i].e]) /\ ~OfBsp(i)
         /\ Of(i, Ram, ViewKey[stack[i].e]) /\ stack[i].e \in shown
         /\ ~stack[i].calling => stack[i].e \in stack[i].due
<1>1. PICK d \in Display : d = stack[i].e  OBVIOUS
<1>2. d # NULL  BY DisplayFacts, NullAssumption
<1>3. ~OfBsp(i)
  <2>1. PICK S \in SUBSET Node : KeepsOff(S)  BY DEF WalksInv
  <2>2. QED  BY <1>1, <1>2, <2>1 DEF KeepsOff
<1>4. PICK s : s = Contents[stack[i].event]  OBVIOUS
<1>5. /\ s \in Seq(Node) /\ Linked(stack[i].event) = Range(s)
      /\ stack[i].event \in List /\ stack[i].calling \in BOOLEAN
  BY <1>4, WalksFacts
<1>6. Standing(stack[i], s)  BY <1>3, <1>4 DEF WalksInv, OthersStand
<1>7. /\ d \in Range(s)
      /\ ~stack[i].calling => d \in stack[i].due
  BY <1>1, <1>2, <1>5, <1>6, StandingFacts
<1>8. d \in shown /\ stack[i].event = On(Ram, ViewKey[d])
  BY <1>5, <1>7 DEF WalksInv, OnOwnLists
<1>9. Of(i, Ram, ViewKey[d])
  <2>1. /\ stack[i].event \in {On(writes[i].stream, writes[i].key),
                                AllOf(writes[i].stream)}
        /\ writes[i].stream \in Stream /\ writes[i].key \in Key
    <3>1. writes[i] \in WriteCall  BY RamTypes DEF WalksInv
    <3>2. QED  BY <3>1 DEF WalksInv, WritesFit, WriteCall
  <2>2. ViewKey[d] \in Key /\ Ram \in Stream  BY DisplayFacts
  <2>3. QED  BY <1>8, <2>1, <2>2, EventsApart DEF TwoStreams, Of
<1>10. QED  BY <1>1, <1>3, <1>7, <1>8, <1>9

\* The calls of on_view_change and the displays that are being called.
LEMMA ChangingFacts ==
  ASSUME RamTypeInv
  PROVE  /\ IsFiniteSet(Changing) /\ Cardinality(Changing) \in Nat
         /\ Len(stack) \in Nat
<1>1. Len(stack) \in Nat  BY RamTypes, Typed, StackFacts
<1>2. IsFiniteSet(1 .. Len(stack))  BY <1>1, FS_Interval
<1>3. Changing \subseteq 1 .. Len(stack)  BY DEF Changing
<1>4. IsFiniteSet(Changing)  BY <1>2, <1>3, FS_Subset
<1>5. QED  BY <1>1, <1>4, FS_CardinalityType

LEMMA ChangeFacts ==
  ASSUME TwoStreams, ScreenInv, InChange
  PROVE  /\ Len(stack) \in Changing /\ Top.e \in Display /\ Top.e \in shown
         /\ Top = stack[Len(stack)] /\ Len(stack) \in 1 .. Len(stack)
         /\ Len(changes) \in 1 .. Len(changes) /\ Change = changes[Len(changes)]
         /\ Change \in ChangeCall /\ Change.view \in ViewOrNull
         /\ current_view[Top.e] \in ViewOrNull
<1>1. stack # <<>> /\ Top.calling /\ Top.e \in Display
  BY DEF InChange, InCallback
<1>2. WalksInv /\ RamTypeInv  BY DEF ScreenInv, WalksInv
<1>3. Len(stack) \in 1 .. Len(stack) /\ Top = stack[Len(stack)]
  BY <1>1, <1>2, TopFacts
<1>4. Len(stack) \in Changing  BY <1>1, <1>3 DEF Changing
<1>5. Top.e \in shown  BY <1>1, <1>2, <1>3, AtDisplay
<1>6. Cardinality(Changing) # 0 /\ Cardinality(Changing) \in Nat
  BY <1>2, <1>4, ChangingFacts, FS_EmptySet
<1>7. Len(changes) # 0 /\ changes \in Seq(ChangeCall)
  BY <1>6 DEF ScreenInv, ScreenTypes
<1>8. Len(changes) \in 1 .. Len(changes) /\ changes[Len(changes)] \in ChangeCall
  BY <1>7
<1>9. current_view[Top.e] \in ViewOrNull  BY <1>1 DEF ScreenInv, ScreenTypes
<1>10. QED
  BY <1>1, <1>3, <1>4, <1>5, <1>8, <1>9 DEF Change, ChangeCall

LEMMA CountTop ==
  ASSUME WalksInv, stack # <<>>, NEW f \in Frame,
         stack' = [stack EXCEPT ![Len(stack)] = f]
  PROVE  /\ f.calling /\ f.e \in Display =>
              Changing' = Changing \cup {Len(stack)}
         /\ ~(f.calling /\ f.e \in Display) =>
              Changing' = Changing \ {Len(stack)}
<1>1. EventTypeInv /\ Len(stack) \in 1 .. Len(stack)  BY TopFacts
<1>2. /\ Len(stack') = Len(stack) /\ stack'[Len(stack)] = f
      /\ \A i \in 1 .. Len(stack) - 1 : stack'[i] = stack[i]
  BY <1>1, Typed, ReplaceTop
<1>3. \A i \in 1 .. Len(stack) : i = Len(stack) \/ i \in 1 .. Len(stack) - 1
  BY <1>1, Typed, StackFacts, LastOrBelow, Zenon
<1>4. \A i : i \in Changing' <=> /\ i \in 1 .. Len(stack)
                               /\ stack'[i].calling /\ stack'[i].e \in Display
  BY <1>2, ZenonT(30) DEF Changing
<1>5. \A i \in 1 .. Len(stack) :
        i # Len(stack) => (i \in Changing' <=> i \in Changing)
  BY <1>2, <1>3, <1>4, ZenonT(30) DEF Changing
<1>6. Len(stack) \in Changing' <=> f.calling /\ f.e \in Display
  BY <1>1, <1>2, <1>4
<1>7. Changing \subseteq 1 .. Len(stack) /\ Changing' \subseteq 1 .. Len(stack)
  BY <1>4 DEF Changing
<1>8. QED  BY <1>1, <1>5, <1>6, <1>7

LEMMA CountSame ==
  ASSUME \A i \in 1 .. Len(stack') :
           /\ i \in 1 .. Len(stack) /\ stack'[i].e = stack[i].e
           /\ stack'[i].calling = stack[i].calling,
         \A i \in 1 .. Len(stack) : stack[i].calling => i \in 1 .. Len(stack')
  PROVE  Changing' = Changing
BY DEF Changing

-----------------------------------------------------------------------------
\* What the program stores for a display is a view, or null.
LEMMA ViewsKept ==
  ASSUME StoresViews, value' = value,
         \A i \in 1 .. Len(stack') : i \in 1 .. Len(stack) /\ writes'[i] = writes[i]
  PROVE  StoresViews'
BY DEF StoresViews, Of

LEMMA ViewsWritten ==
  ASSUME RamTypeInv, StoresViews,
         NEW s \in Stream, NEW k \in Key, NEW data \in Value, Write(s, k, data),
         \A d \in Display : s = Ram /\ k = ViewKey[d] => data \in ViewOrNull
  PROVE  StoresViews'
<1>1. value \in [Stream -> [Key -> Value]]
      /\ value' = [value EXCEPT ![s][k] = data]
  BY RamTypes DEF Write
<1>2. PICK m \in Nat, f \in Frame : BeginsAt(m, f, s, k, data)  BY RamTyped, WriteStacks
<1>3. /\ Len(stack') = m
      /\ writes'[m].stream = s /\ writes'[m].key = k /\ writes'[m].data = data
      /\ \A i \in 1 .. m : i = m \/ i \in 1 .. Len(stack)
      /\ \A i \in 1 .. Len(stack) : writes'[i] = writes[i]
  BY <1>2 DEF BeginsAt
<1>4. ASSUME NEW d \in Display
      PROVE  /\ value'[Ram][ViewKey[d]] \in ViewOrNull
             /\ \A i \in 1 .. Len(stack') :
                  /\ writes'[i].stream = Ram
                  /\ writes'[i].key = ViewKey[d]
                  => writes'[i].data \in ViewOrNull
  <2>1. Ram \in Stream /\ ViewKey[d] \in Key  BY DisplayFacts
  <2>2. value'[Ram][ViewKey[d]] \in ViewOrNull
    BY <1>1, <2>1 DEF StoresViews
  <2>3. QED  BY <1>3, <2>2 DEF StoresViews, Of
<1>5. QED  BY <1>4 DEF StoresViews, Of

\* A step within a change goes on in the innermost one.
LEMMA GoToFacts ==
  ASSUME TwoStreams, ScreenInv, InChange,
         NEW place \in {"unload", "load"}, GoTo(place)
  PROVE  /\ changes' \in Seq(ChangeCall) /\ Len(changes') = Len(changes)
         /\ changes'[Len(changes)].at = place
         /\ \A j \in 1 .. Len(changes) :
              /\ changes'[j].view = changes[j].view
              /\ j < Len(changes) => changes'[j].at = changes[j].at
<1>1. changes \in Seq(ChangeCall)  BY DEF ScreenInv, ScreenTypes
<1>2. PICK k \in 1 .. Len(changes) : k = Len(changes)
  BY ChangeFacts
<1>3. PICK c : c = [changes[k] EXCEPT !.at = place]  OBVIOUS
<1>4. c \in ChangeCall /\ c.at = place /\ c.view = changes[k].view
  <2>1. PICK b \in ChangeCall : b = changes[k]  BY <1>1, <1>2
  <2>2. c = [b EXCEPT !.at = place]  BY <1>3, <2>1
  <2>3. c \in ChangeCall /\ c.at = place /\ c.view = b.view
    BY <2>2 DEF ChangeCall
  <2>4. QED  BY <2>1, <2>3
<1>5. changes' = [changes EXCEPT ![k] = c]
  <2>1. changes' = [changes EXCEPT ![k].at = place]  BY <1>2 DEF GoTo
  <2>2. QED  BY <1>3, <2>1
<1>6. changes' \in Seq(ChangeCall) /\ Len(changes') = Len(changes)
  BY <1>1, <1>4, <1>5
<1>7. /\ changes'[k] = c
      /\ \A j \in 1 .. Len(changes) : j # k => changes'[j] = changes[j]
  BY <1>1, <1>5
<1>8. QED  BY <1>2, <1>4, <1>6, <1>7

LEMMA ScreenUntouched ==
  ASSUME ScreenInv, WalksInv', StoresViews', UNCHANGED screenVars,
         Changing' = Changing
  PROVE  ScreenInv'
BY DEF ScreenInv, ScreenTypes, screenVars

-----------------------------------------------------------------------------
\* The types, action by action.
LEMMA ScreenChangeBegins ==
  ASSUME TwoStreams, ScreenInv, ChangeBegins
  PROVE  ScreenInv'
<1>1. /\ Tell /\ Call /\ Top.e \in Display /\ stack # <<>> /\ ~Top.calling
      /\ value' = value /\ writes' = writes
      /\ changes' = Append(changes, [view |-> Writing.data, at |-> "begin"])
      /\ UNCHANGED <<current_view, contexts, shown, loaded>>
  BY DEF ChangeBegins, Tell, Call, Walking
<1>2. WalksInv /\ RamTypeInv /\ StoresViews /\ ScreenTypes
  BY DEF ScreenInv, WalksInv
<1>3. WalksInv'  BY <1>1, <1>2, WalksTell
<1>4. /\ EventTypeInv /\ Len(stack) \in 1 .. Len(stack)
      /\ Top = stack[Len(stack)] /\ Writing = writes[Len(stack)]
  BY <1>1, <1>2, TopFacts
<1>5. PICK f \in Frame :
        /\ f = Publishing(Top.event, Top.e, TRUE, Top.due \ {Top.e})
        /\ stack' = [stack EXCEPT ![Len(stack)] = f]
  BY <1>1, <1>4, Typed, CallStack
<1>6. f.calling /\ f.e \in Display  BY <1>1, <1>5 DEF Publishing
<1>7. Changing' = Changing \cup {Len(stack)} /\ Len(stack) \notin Changing
  BY <1>1, <1>2, <1>4, <1>5, <1>6, CountTop DEF Changing
<1>8. Cardinality(Changing') = Len(changes) + 1
  BY <1>2, <1>7, ChangingFacts, FS_AddElement DEF ScreenInv
<1>9. Writing.data \in ViewOrNull
  BY <1>1, <1>2, <1>4, AtDisplay DEF StoresViews
<1>10. changes' \in Seq(ChangeCall) /\ Len(changes') = Len(changes) + 1
  <2>1. PICK c \in ChangeCall : c = [view |-> Writing.data, at |-> "begin"]
    BY <1>9 DEF ChangeCall
  <2>2. changes' = Append(changes, c) /\ changes \in Seq(ChangeCall)
    BY <1>1, <1>2, <2>1 DEF ScreenTypes
  <2>3. QED  BY <2>2
<1>11. Len(stack') = Len(stack)  BY <1>1, <1>4, <1>5, Typed, ReplaceTop
<1>12. StoresViews'  BY <1>1, <1>2, <1>11, ViewsKept
<1>13. ScreenTypes'  BY <1>1, <1>2, <1>10 DEF ScreenTypes
<1>14. Cardinality(Changing)' = Len(changes')  BY <1>8, <1>10
<1>15. QED  BY <1>3, <1>12, <1>13, <1>14 DEF ScreenInv

LEMMA ScreenTellOthers ==
  ASSUME ScreenInv, TellOthers
  PROVE  ScreenInv'
<1>1. /\ Tell /\ Call /\ Top.e \notin Display /\ stack # <<>> /\ ~Top.calling
      /\ value' = value /\ writes' = writes /\ UNCHANGED screenVars
  BY DEF TellOthers, Tell, Call, Walking
<1>2. WalksInv /\ StoresViews /\ UNCHANGED shown
  BY <1>1 DEF ScreenInv, screenVars
<1>3. WalksInv'  BY <1>1, <1>2, WalksTell
<1>4. /\ EventTypeInv /\ Len(stack) \in 1 .. Len(stack)
      /\ Top = stack[Len(stack)]
  BY <1>1, <1>2, TopFacts
<1>5. PICK f \in Frame :
        /\ f = Publishing(Top.event, Top.e, TRUE, Top.due \ {Top.e})
        /\ stack' = [stack EXCEPT ![Len(stack)] = f]
  BY <1>1, <1>4, Typed, CallStack
<1>6. f.e \notin Display  BY <1>1, <1>5 DEF Publishing
<1>7. Changing' = Changing
  BY <1>1, <1>2, <1>4, <1>5, <1>6, CountTop DEF Changing
<1>8. Len(stack') = Len(stack)  BY <1>1, <1>4, <1>5, Typed, ReplaceTop
<1>9. StoresViews'  BY <1>1, <1>2, <1>8, ViewsKept
<1>10. QED  BY <1>1, <1>3, <1>7, <1>9, ScreenUntouched

\* What a change does to the subscription of a view leaves all walks as they
\* are.
LEMMA WalksGone ==
  ASSUME RamTypeInv, NEW n \in Node, UnsubscribedFrom(Bsp, n)
  PROVE  /\ Len(stack') = Len(stack) /\ value' = value /\ writes' = writes
         /\ \A i \in 1 .. Len(stack) :
              /\ stack'[i].event = stack[i].event /\ stack'[i].e = stack[i].e
              /\ stack'[i].calling = stack[i].calling
              /\ ~OfBsp(i) => stack'[i].due = stack[i].due
         /\ Changing' = Changing
<1>1. /\ stack' = DueWithout(EventsOf(Bsp), n) /\ value' = value
      /\ writes' = writes
  BY DEF UnsubscribedFrom, EventsSearched
<1>2. EventTypeInv  BY RamTypes
<1>3. /\ Len(stack') = Len(stack)
      /\ \A i \in 1 .. Len(stack) :
           /\ stack'[i].event = stack[i].event /\ stack'[i].e = stack[i].e
           /\ stack'[i].calling = stack[i].calling
           /\ ~OfBsp(i) => stack'[i].due = stack[i].due
  BY <1>1, <1>2, Typed, UnsubscribedStack, ZenonT(40) DEF OfBsp
<1>4. Changing' = Changing  BY <1>3, CountSame
<1>5. QED  BY <1>1, <1>3, <1>4

LEMMA WalksJoined ==
  ASSUME RamTypeInv, NEW s \in Stream, NEW k \in Key, NEW n \in Node,
         KeySubscribed(s, k, n)
  PROVE  /\ Len(stack') = Len(stack) /\ value' = value /\ writes' = writes
         /\ \A i \in 1 .. Len(stack) :
              /\ stack'[i].event = stack[i].event /\ stack'[i].e = stack[i].e
              /\ stack'[i].calling = stack[i].calling
              /\ stack[i].event # On(s, k) => stack'[i].due = stack[i].due
         /\ Changing' = Changing
<1>1. /\ HasKey(s, k) /\ stack' = DueWith(On(s, k), n) /\ value' = value
      /\ writes' = writes
  BY DEF KeySubscribed, Subscribed
<1>2. EventTypeInv /\ On(s, k) \in List  BY <1>1, RamTypes, StreamFacts
<1>3. /\ Len(stack') = Len(stack)
      /\ \A i \in 1 .. Len(stack) :
           /\ stack'[i].event = stack[i].event /\ stack'[i].e = stack[i].e
           /\ stack'[i].calling = stack[i].calling
           /\ stack[i].event # On(s, k) => stack'[i].due = stack[i].due
  BY <1>1, <1>2, Typed, SubscribedStack
<1>4. Changing' = Changing  BY <1>3, CountSame
<1>5. QED  BY <1>1, <1>3, <1>4

\* The views that come and go.
LEMMA UnloadFacts ==
  ASSUME TwoStreams, ScreenInv, Unload
  PROVE  /\ InChange /\ Change.at = "begin" /\ current_view[Top.e] \in View
         /\ ViewSub[current_view[Top.e]] \in ViewSubs
         /\ ViewSub[current_view[Top.e]] \in Node
         /\ UnsubscribedFrom(Bsp, ViewSub[current_view[Top.e]])
         /\ GoTo("unload")
         /\ loaded' = [loaded EXCEPT ![Top.e] = @ \ {current_view[Top.e]}]
         /\ UNCHANGED <<current_view, contexts, shown>>
<1>1. /\ InChange /\ Change.at = "begin" /\ current_view[Top.e] # Zero
      /\ UnsubscribedFrom(Bsp, ViewSub[current_view[Top.e]])
      /\ GoTo("unload")
      /\ loaded' = [loaded EXCEPT ![Top.e] = @ \ {current_view[Top.e]}]
      /\ UNCHANGED <<current_view, contexts, shown>>
  BY DEF Unload, At
<1>2. current_view[Top.e] \in View  BY <1>1, ChangeFacts DEF ViewOrNull
<1>3. QED  BY <1>1, <1>2, DisplayFacts

LEMMA LoadFacts ==
  ASSUME TwoStreams, ScreenInv, Load
  PROVE  /\ InChange /\ Unloaded /\ Change.view \in View
         /\ ViewSub[Change.view] \in ViewSubs /\ ViewSub[Change.view] \in Node
         /\ KeySubscribed(Bsp, Watched, ViewSub[Change.view])
         /\ GoTo("load")
         /\ current_view' = [current_view EXCEPT ![Top.e] = Change.view]
         /\ loaded' = [loaded EXCEPT ![Top.e] = @ \cup {Change.view}]
         /\ UNCHANGED <<contexts, shown>>
<1>1. /\ InChange /\ Unloaded /\ Change.view # Zero
      /\ KeySubscribed(Bsp, Watched, ViewSub[Change.view])
      /\ GoTo("load")
      /\ current_view' = [current_view EXCEPT ![Top.e] = Change.view]
      /\ loaded' = [loaded EXCEPT ![Top.e] = @ \cup {Change.view}]
      /\ UNCHANGED <<contexts, shown>>
  BY DEF Load, Unloaded, At
<1>2. Change.view \in View  BY <1>1, ChangeFacts DEF ViewOrNull
<1>3. QED  BY <1>1, <1>2, DisplayFacts

LEMMA ScreenUnload ==
  ASSUME TwoStreams, ScreenInv, Unload
  PROVE  ScreenInv'
<1>1. PICK n \in ViewSubs : n = ViewSub[current_view[Top.e]]  BY UnloadFacts
<1>2. /\ InChange /\ n \in Node /\ UnsubscribedFrom(Bsp, n) /\ GoTo("unload")
      /\ loaded' = [loaded EXCEPT ![Top.e] = @ \ {current_view[Top.e]}]
      /\ UNCHANGED <<current_view, contexts, shown>>
  BY <1>1, UnloadFacts
<1>3. WalksInv /\ RamTypeInv /\ StoresViews /\ ScreenTypes
      /\ Cardinality(Changing) = Len(changes)
  BY DEF ScreenInv, WalksInv
<1>4. WalksInv'  BY <1>2, <1>3, WalksViewGoes
<1>5. /\ Len(stack') = Len(stack) /\ value' = value /\ writes' = writes
      /\ Changing' = Changing
  BY <1>2, <1>3, WalksGone
<1>6. StoresViews'  BY <1>3, <1>5, ViewsKept
<1>7. changes' \in Seq(ChangeCall) /\ Len(changes') = Len(changes)
  BY <1>2, GoToFacts
<1>8. loaded' \in [Display -> SUBSET View]
  BY <1>2, <1>3, ChangeFacts DEF ScreenTypes
<1>9. ScreenTypes'  BY <1>2, <1>3, <1>7, <1>8 DEF ScreenTypes
<1>10. Cardinality(Changing)' = Len(changes')  BY <1>3, <1>5, <1>7
<1>11. QED  BY <1>4, <1>6, <1>9, <1>10 DEF ScreenInv

LEMMA ScreenLoad ==
  ASSUME TwoStreams, ScreenInv, Load
  PROVE  ScreenInv'
<1>1. PICK n \in ViewSubs : n = ViewSub[Change.view]  BY LoadFacts
<1>2. /\ InChange /\ n \in Node /\ KeySubscribed(Bsp, Watched, n)
      /\ GoTo("load") /\ Change.view \in View
      /\ current_view' = [current_view EXCEPT ![Top.e] = Change.view]
      /\ loaded' = [loaded EXCEPT ![Top.e] = @ \cup {Change.view}]
      /\ UNCHANGED <<contexts, shown>>
  BY <1>1, LoadFacts
<1>3. WalksInv /\ RamTypeInv /\ StoresViews /\ ScreenTypes
      /\ Cardinality(Changing) = Len(changes)
  BY DEF ScreenInv, WalksInv
<1>4. WalksInv'  BY <1>2, <1>3, WalksViewComes
<1>5. /\ Len(stack') = Len(stack) /\ value' = value /\ writes' = writes
      /\ Changing' = Changing
  BY <1>2, <1>3, DisplayFacts, WalksJoined
<1>6. StoresViews'  BY <1>3, <1>5, ViewsKept
<1>7. changes' \in Seq(ChangeCall) /\ Len(changes') = Len(changes)
  BY <1>2, GoToFacts
<1>8. /\ loaded' \in [Display -> SUBSET View]
      /\ current_view' \in [Display -> ViewOrNull]
  BY <1>2, <1>3, ChangeFacts DEF ScreenTypes, ViewOrNull
<1>9. ScreenTypes'  BY <1>2, <1>3, <1>7, <1>8 DEF ScreenTypes
<1>10. Cardinality(Changing)' = Len(changes')  BY <1>3, <1>5, <1>7
<1>11. QED  BY <1>4, <1>6, <1>9, <1>10 DEF ScreenInv

\* The innermost change is done.
LEMMA FrontFacts ==
  ASSUME NEW T, NEW s \in Seq(T), Len(s) \in 1 .. Len(s)
  PROVE  /\ Front(s) \in Seq(T) /\ Len(Front(s)) = Len(s) - 1
         /\ \A j \in 1 .. Len(s) - 1 : Front(s)[j] = s[j]
<1>1. PICK m : m = Len(s) - 1  OBVIOUS
<1>2. m \in Nat /\ m <= Len(s) /\ \A i \in 1 .. m : s[i] \in T  BY <1>1
<1>3. Front(s) = SubSeq(s, 1, m)  BY <1>1 DEF Front
<1>4. Front(s) \in Seq(T) /\ Len(Front(s)) = m  BY <1>2, <1>3
<1>5. \A j \in 1 .. m : Front(s)[j] = s[j]  BY <1>2, <1>3
<1>6. QED  BY <1>1, <1>4, <1>5

LEMMA ScreenChangeReturns ==
  ASSUME TwoStreams, ScreenInv, ChangeReturns
  PROVE  ScreenInv'
<1>1. /\ InChange /\ CallbackReturns /\ Return /\ stack # <<>>
      /\ value' = value /\ writes' = writes
      /\ changes' = Front(changes)
      /\ UNCHANGED <<current_view, contexts, shown, loaded>>
  BY DEF ChangeReturns, Unloaded, At, CallbackReturns, InChange, InCallback
<1>2. WalksInv /\ RamTypeInv /\ StoresViews /\ ScreenTypes
      /\ Cardinality(Changing) = Len(changes)
  BY DEF ScreenInv, WalksInv
<1>3. WalksInv'  BY <1>1, <1>2, WalksReturn
<1>4. EventTypeInv  BY <1>2, RamTypes
<1>5. PICK f \in Frame :
        /\ f = Publishing(Top.event, next[Top.e], FALSE, Top.due)
        /\ stack' = [stack EXCEPT ![Len(stack)] = f]
  BY <1>1, <1>4, Typed, ReturnStack
<1>6. f.calling = FALSE  BY <1>5 DEF Publishing
<1>7. Changing' = Changing \ {Len(stack)} /\ Len(stack) \in Changing
  BY <1>1, <1>2, <1>5, <1>6, CountTop, ChangeFacts
<1>8. Cardinality(Changing') = Len(changes) - 1
  BY <1>2, <1>7, ChangingFacts, FS_RemoveElement
<1>9. changes' \in Seq(ChangeCall) /\ Len(changes') = Len(changes) - 1
  BY <1>1, <1>2, ChangeFacts, FrontFacts DEF ScreenTypes
<1>10. Len(stack') = Len(stack)  BY <1>1, <1>4, <1>5, Typed, ReplaceTop
<1>11. StoresViews'  BY <1>1, <1>2, <1>10, ViewsKept
<1>12. ScreenTypes'  BY <1>1, <1>2, <1>9 DEF ScreenTypes
<1>13. Cardinality(Changing)' = Len(changes')  BY <1>8, <1>9
<1>14. QED  BY <1>3, <1>11, <1>12, <1>13 DEF ScreenInv

LEMMA ScreenOtherReturns ==
  ASSUME ScreenInv, OtherReturns
  PROVE  ScreenInv'
<1>1. /\ CallbackReturns /\ Return /\ stack # <<>> /\ InCallback /\ ~InChange
      /\ value' = value /\ writes' = writes /\ UNCHANGED screenVars
  BY DEF OtherReturns, CallbackReturns, Return, InCallback
<1>2. WalksInv /\ StoresViews /\ UNCHANGED shown
  BY <1>1 DEF ScreenInv, screenVars
<1>3. WalksInv'  BY <1>1, <1>2, WalksReturn
<1>4. EventTypeInv /\ Top = stack[Len(stack)]  BY <1>1, <1>2, TopFacts
<1>5. PICK f \in Frame :
        /\ f = Publishing(Top.event, next[Top.e], FALSE, Top.due)
        /\ stack' = [stack EXCEPT ![Len(stack)] = f]
  BY <1>1, <1>4, Typed, ReturnStack
<1>6. f.calling = FALSE  BY <1>5 DEF Publishing
<1>7. Len(stack) \notin Changing  BY <1>1, <1>4 DEF Changing, InChange
<1>8. Changing' = Changing  BY <1>1, <1>2, <1>5, <1>6, <1>7, CountTop
<1>9. Len(stack') = Len(stack)  BY <1>1, <1>4, <1>5, Typed, ReplaceTop
<1>10. StoresViews'  BY <1>1, <1>2, <1>9, ViewsKept
<1>11. QED  BY <1>1, <1>3, <1>8, <1>10, ScreenUntouched

LEMMA ScreenWriteGoesOn ==
  ASSUME ScreenInv, WriteGoesOn, UNCHANGED screenVars
  PROVE  ScreenInv'
<1>1. /\ Walking /\ stack # <<>> /\ ~Top.calling
      /\ value' = value /\ writes' = writes
  BY DEF WriteGoesOn, Walking
<1>2. WalksInv /\ StoresViews /\ UNCHANGED shown  BY DEF ScreenInv, screenVars
<1>3. WalksInv'  BY <1>2, WalksGoOn
<1>4. EventTypeInv /\ Top = stack[Len(stack)] /\ Writing.stream \in Stream
  BY <1>1, <1>2, TopFacts
<1>5. AllOf(Writing.stream) \in List  BY <1>4, StreamFacts
<1>6. PICK f \in Frame :
        /\ f = Publishing(AllOf(Writing.stream), head[AllOf(Writing.stream)],
                          FALSE, Linked(AllOf(Writing.stream)))
        /\ stack' = [stack EXCEPT ![Len(stack)] = f]
  BY <1>4, <1>5, Typed, BegunFrame DEF WriteGoesOn, TopBecomes
<1>7. f.calling = FALSE  BY <1>6 DEF Publishing
<1>8. Len(stack) \notin Changing  BY <1>1, <1>4 DEF Changing
<1>9. Changing' = Changing  BY <1>1, <1>2, <1>6, <1>7, <1>8, CountTop
<1>10. Len(stack') = Len(stack)  BY <1>1, <1>4, <1>6, Typed, ReplaceTop
<1>11. StoresViews'  BY <1>1, <1>2, <1>10, ViewsKept
<1>12. QED  BY <1>3, <1>9, <1>11, ScreenUntouched

LEMMA ScreenWriteReturns ==
  ASSUME ScreenInv, WriteReturns, UNCHANGED screenVars
  PROVE  ScreenInv'
<1>1. stack # <<>> /\ ~Top.calling /\ value' = value
  BY DEF WriteReturns, PublishReturns, Walking
<1>2. WalksInv /\ RamTypeInv /\ StoresViews /\ UNCHANGED shown
  BY DEF ScreenInv, WalksInv, screenVars
<1>3. WalksInv'  BY <1>2, WalksPopped
<1>4. ~stack[Len(stack)].calling  BY <1>1, <1>2, TopFacts
<1>5. PICK m \in Nat : EndsAfter(m)  BY <1>2, RamTyped, PopStacks
<1>6. /\ Len(stack') = m
      /\ \A i \in 1 .. m :
           stack'[i] = stack[i] /\ writes'[i] = writes[i] /\ i \in 1 .. Len(stack)
      /\ \A i \in 1 .. Len(stack) : i = Len(stack) \/ i \in 1 .. m
  BY <1>5 DEF EndsAfter
<1>7. Changing' = Changing  BY <1>4, <1>6, CountSame
<1>8. StoresViews'  BY <1>1, <1>2, <1>6, ViewsKept
<1>9. QED  BY <1>3, <1>7, <1>8, ScreenUntouched

LEMMA CountWrite ==
  ASSUME RamTypeInv, NEW s \in Stream, NEW k \in Key, NEW data \in Value,
         Write(s, k, data)
  PROVE  Changing' = Changing
<1>1. PICK m \in Nat, f \in Frame : BeginsAt(m, f, s, k, data)  BY RamTyped, WriteStacks
<1>2. /\ Len(stack') = m /\ stack'[m] = f /\ f.calling = FALSE
      /\ \A i \in 1 .. m : i = m \/ i \in 1 .. Len(stack)
      /\ \A i \in 1 .. Len(stack) : stack'[i] = stack[i] /\ i \in 1 .. m
  BY <1>1 DEF BeginsAt
<1>3. QED  BY <1>2 DEF Changing

LEMMA ScreenStoreView ==
  ASSUME ScreenInv, NEW d \in Display, NEW view \in ViewOrNull, StoreView(d, view)
  PROVE  ScreenInv'
<1>1. Write(Ram, ViewKey[d], view) /\ UNCHANGED screenVars  BY DEF StoreView
<1>2. WalksInv /\ RamTypeInv /\ StoresViews /\ UNCHANGED shown
  BY <1>1 DEF ScreenInv, WalksInv, screenVars
<1>3. Ram \in Stream /\ ViewKey[d] \in Key /\ view \in Value  BY DisplayFacts
<1>4. WalksInv' /\ StoresViews' /\ Changing' = Changing
  BY <1>1, <1>2, <1>3, WalksWrite, ViewsWritten, CountWrite
<1>5. QED  BY <1>1, <1>4, ScreenUntouched

\* A step that leaves the datastreams alone.
LEMMA ScreenSame ==
  ASSUME ScreenInv, UNCHANGED <<ramVars, screenVars>>
  PROVE  ScreenInv'
<1>1. /\ UNCHANGED <<listVars, stack, value, writes, heard>>
      /\ UNCHANGED shown
  BY DEF ramVars, eventVars, screenVars
<1>2. WalksInv /\ RamTypeInv /\ StoresViews  BY DEF ScreenInv, WalksInv
<1>3. RamTypeInv'  BY <1>2, RamUntouched
<1>4. OnOwnLists' /\ Contents' = Contents /\ \A l : Linked(l)' = Linked(l)
  BY <1>1, <1>2, SameLists
<1>5. PICK S \in SUBSET Node : KeepsOff(S)  BY <1>2 DEF WalksInv
<1>6. /\ S \in SUBSET (Node \ Display) /\ Closed(S, next')
      /\ \A l \in EventsOf(Bsp) : Linked(l)' \subseteq S
      /\ \A i \in 1 .. Len(stack) : OfBsp(i) => stack[i].e \in S \cup {NULL}
  BY <1>1, <1>4, <1>5 DEF KeepsOff, listVars
<1>7. WalksInv'
  BY <1>1, <1>2, <1>3, <1>4, <1>6, WalksDue
<1>8. StoresViews'  BY <1>1, <1>2, ViewsKept
<1>9. Changing' = Changing  BY <1>1, CountSame
<1>10. QED  BY <1>7, <1>8, <1>9, ScreenUntouched

LEMMA InputFacts ==
  ASSUME ScreenInv, NEW d \in Display, NEW i \in DOMAIN InputKeys[d],
         NEW data \in InputValue, Input(d, i, data)
  PROVE  contexts[i] \in Key /\ data \in Value /\ Bsp \in Stream
<1>1. d \in shown /\ contexts \in Seq(Key) /\ Len(InputKeys[d]) <= Len(contexts)
  BY DEF Input, ScreenInv, ScreenTypes
<1>2. InputKeys[d] \in Seq(Key) /\ InputValue \subseteq Value
  BY DisplayConstants
<1>3. i \in 1 .. Len(contexts)  BY <1>1, <1>2
<1>4. QED  BY <1>1, <1>2, <1>3, DisplayFacts

LEMMA ScreenInput ==
  ASSUME TwoStreams, ScreenInv, NEW d \in Display, NEW i \in DOMAIN InputKeys[d],
         NEW data \in InputValue, Input(d, i, data)
  PROVE  ScreenInv'
<1>1. contexts[i] \in Key /\ data \in Value /\ Bsp \in Stream  BY InputFacts
<1>2. UNCHANGED screenVars  BY DEF Input
<1>3. CASE Write(Bsp, contexts[i], data)
  <2>1. WalksInv /\ RamTypeInv /\ StoresViews /\ UNCHANGED shown
    BY <1>2 DEF ScreenInv, WalksInv, screenVars
  <2>2. WalksInv' /\ StoresViews' /\ Changing' = Changing
    BY <1>1, <1>3, <2>1, WalksWrite, ViewsWritten, CountWrite DEF TwoStreams
  <2>3. QED  BY <1>2, <2>2, ScreenUntouched
<1>4. CASE WriteWithoutEffect(Bsp, contexts[i], data)
  BY <1>2, <1>4, ScreenSame DEF WriteWithoutEffect
<1>5. QED  BY <1>3, <1>4 DEF Input

\* Subscriptions that are made and ended outside the writes.
LEMMA StillOutside ==
  ASSUME RamTypeInv', Len(stack') = Len(stack), Outside
  PROVE  stack' = <<>> /\ Changing' = Changing
<1>1. Len(stack') = 0 /\ 1 .. Len(stack') = {} /\ 1 .. Len(stack) = {}
  BY DEF Outside
<1>2. stack' = <<>>
  <2>1. stack' \in Seq(Frame)
    BY DEF RamTypeInv, EventTypeInv, EventTypeOK, Frame
  <2>2. QED  BY <1>1, <2>1
<1>3. QED  BY <1>1, <1>2 DEF Changing

LEMMA OwnListsPushed ==
  ASSUME WalksInv, NEW l \in List, NEW n \in Node, Push(l, n),
         shown \subseteq shown',
         n \in Display => n \in shown' /\ l = On(Ram, ViewKey[n]),
         n \in ViewSubs => l = WatchedList
  PROVE  OnOwnLists'
<1>1. ListsInv  BY RamTypes DEF WalksInv, EventTypeInv
<1>2. \A j \in List : Linked(j)' \subseteq Linked(j)
                                      \cup (IF j = l THEN {n} ELSE {})
  BY <1>1, PushKeeps
<1>3. \A j \in List : \A m : m \in Linked(j)' => m \in Linked(j) \/ (j = l /\ m = n)
  BY <1>2
<1>4. OnOwnLists  BY DEF WalksInv
<1>5. QED  BY <1>3, <1>4 DEF OnOwnLists, On, WatchedList

LEMMA SubSeqType ==
  ASSUME NEW T, NEW s \in Seq(T), NEW a \in 1 .. Len(s), NEW b \in a .. Len(s)
  PROVE  SubSeq(s, a, b) \in Seq(T) /\ Len(SubSeq(s, a, b)) = b - a + 1
OBVIOUS

LEMMA SubSeqFrom ==
  ASSUME NEW T, NEW s \in Seq(T), NEW n \in Nat
  PROVE  /\ SubSeq(s, n + 1, Len(s)) \in Seq(T)
         /\ Len(SubSeq(s, n + 1, Len(s))) = IF n < Len(s) THEN Len(s) - n ELSE 0
<1>1. PICK a \in Nat, b \in Nat : a = n + 1 /\ b = Len(s)  OBVIOUS
<1>2. PICK r : r = SubSeq(s, a, b)  OBVIOUS
<1>3. CASE a <= b
  <2>1. a \in 1 .. Len(s) /\ b \in a .. Len(s)  BY <1>1, <1>3
  <2>2. r \in Seq(T) /\ Len(r) = b - a + 1  BY <1>2, <2>1, SubSeqType
  <2>3. n < Len(s) /\ Len(r) = Len(s) - n  BY <1>1, <1>3, <2>2
  <2>4. QED  BY <1>1, <1>2, <2>2, <2>3
<1>4. CASE b < a
  <2>1. r = <<>>  BY <1>2, <1>4, SubSeqEmpty
  <2>2. ~(n < Len(s)) /\ r \in Seq(T) /\ Len(r) = 0  BY <1>1, <1>4, <2>1
  <2>3. QED  BY <1>1, <1>2, <2>2
<1>5. QED  BY <1>1, <1>3, <1>4

LEMMA ScreenInitDisplay ==
  ASSUME TwoStreams, ScreenInv, NEW d \in Display, InitDisplay(d)
  PROVE  ScreenInv'
<1>1. /\ Outside /\ KeySubscribed(Ram, ViewKey[d], d)
      /\ Subscribed(On(Ram, ViewKey[d]), d) /\ Push(On(Ram, ViewKey[d]), d)
      /\ shown' = shown \cup {d}
      /\ current_view' = [current_view EXCEPT ![d] = Zero]
      /\ contexts' = ContextsWith(InputKeys[d])
      /\ UNCHANGED <<changes, loaded>>
  BY DEF InitDisplay, KeySubscribed, Subscribed
<1>2. WalksInv /\ RamTypeInv /\ StoresViews /\ ScreenTypes
      /\ Cardinality(Changing) = Len(changes)
  BY DEF ScreenInv, WalksInv
<1>3. /\ d \in Node /\ d \notin ViewSubs /\ Ram \in Stream
      /\ ViewKey[d] \in Key /\ On(Ram, ViewKey[d]) \in List
  BY DisplayFacts
<1>4. RamTypeInv' /\ Len(stack') = Len(stack) /\ value' = value /\ writes' = writes
  BY <1>1, <1>2, <1>3, TypeKeySubscribed, WalksJoined
<1>5. stack' = <<>> /\ Changing' = Changing  BY <1>1, <1>4, StillOutside
<1>6. OnOwnLists'  BY <1>1, <1>2, <1>3, OwnListsPushed
<1>7. WalksInv'  BY <1>4, <1>5, <1>6, WalksOutside
<1>8. StoresViews'  BY <1>1, <1>2, <1>4, <1>5, ViewsKept DEF Outside
<1>9. /\ contexts' \in Seq(Key) /\ Len(contexts') <= MaxContexts
      /\ Len(InputKeys[d]) <= Len(contexts') /\ Len(contexts) <= Len(contexts')
  <2>1. PICK keys \in Seq(Key) : keys = InputKeys[d] /\ Len(keys) <= MaxContexts
    BY DisplayConstants
  <2>2. contexts \in Seq(Key) /\ Len(contexts) <= MaxContexts
    BY <1>2 DEF ScreenTypes
  <2>3. PICK rest \in Seq(Key) :
          /\ rest = SubSeq(contexts, Len(keys) + 1, Len(contexts))
          /\ Len(rest) = IF Len(keys) < Len(contexts)
                         THEN Len(contexts) - Len(keys) ELSE 0
    <3>1. PICK n \in Nat : n = Len(keys)  BY <2>1
    <3>2. PICK rest : rest = SubSeq(contexts, n + 1, Len(contexts))  OBVIOUS
    <3>3. /\ rest \in Seq(Key)
          /\ Len(rest) = IF n < Len(contexts) THEN Len(contexts) - n ELSE 0
      BY <2>2, <3>1, <3>2, SubSeqFrom
    <3>4. QED  BY <3>1, <3>2, <3>3, Zenon
  <2>4. contexts' = keys \o rest
    BY <1>1, <2>1, <2>3 DEF ContextsWith
  <2>5. contexts' \in Seq(Key) /\ Len(contexts') = Len(keys) + Len(rest)
    BY <2>1, <2>3, <2>4
  <2>6. \A x, y, z \in Nat :
          /\ x <= 32 /\ y <= 32 /\ z = IF x < y THEN y - x ELSE 0
          => x + z <= 32 /\ x <= x + z /\ y <= x + z
    OBVIOUS
  <2>7. Len(keys) \in Nat /\ Len(contexts) \in Nat /\ Len(rest) \in Nat
    BY <2>1, <2>2, <2>3
  <2>8. QED  BY <2>1, <2>2, <2>3, <2>5, <2>6, <2>7, Zenon DEF MaxContexts
<1>10. \A c \in shown' : Len(InputKeys[c]) <= Len(contexts')
  <2>1. \A c \in shown : /\ Len(InputKeys[c]) <= Len(contexts)
                         /\ Len(InputKeys[c]) \in Nat
    BY <1>2, DisplayConstants DEF ScreenTypes
  <2>2. Len(contexts) \in Nat /\ Len(contexts') \in Nat
    BY <1>2, <1>9 DEF ScreenTypes
  <2>3. QED  BY <1>1, <1>9, <2>1, <2>2
<1>11. ScreenTypes'
  <2>1. /\ current_view' \in [Display -> ViewOrNull] /\ shown' \subseteq Display
        /\ changes' \in Seq(ChangeCall) /\ loaded' \in [Display -> SUBSET View]
    BY <1>1, <1>2 DEF ScreenTypes, ViewOrNull
  <2>2. QED  BY <1>9, <1>10, <2>1 DEF ScreenTypes
<1>12. Cardinality(Changing)' = Len(changes')  BY <1>1, <1>2, <1>5
<1>13. QED  BY <1>7, <1>8, <1>11, <1>12 DEF ScreenInv

LEMMA OthersAre ==
  ASSUME NEW n \in Others
  PROVE  n \in Node /\ n \notin Display /\ n \notin ViewSubs
BY DEF Others, ViewSubs

\* What other subscribers do leaves the displays and the views to themselves.
LEMMA OthersLists ==
  ASSUME WalksInv, NEW n \in Others, UNCHANGED shown, Outside, NEW s \in Stream,
         \/ SubscribeAll(s, n)
         \/ \E k \in Key : SubscribeKey(s, k, n)
         \/ UnsubscribeFrom(s, n)
  PROVE  /\ RamTypeInv' /\ OnOwnLists' /\ Len(stack') = Len(stack)
         /\ value' = value /\ writes' = writes
         /\ \A l \in List : /\ Linked(l)' \subseteq Linked(l) \cup {n}
                            /\ Linked(l) \ {n} \subseteq Linked(l)'
<1>1. n \in Node /\ n \notin Display /\ n \notin ViewSubs  BY OthersAre
<1>2. RamTypeInv /\ EventTypeInv /\ ListsInv
  BY RamTypes DEF WalksInv, EventTypeInv
<1>3. CASE SubscribeAll(s, n)
  <2>1. AllOf(s) \in List  BY StreamFacts
  <2>2. Subscribed(AllOf(s), n) /\ Push(AllOf(s), n) /\ value' = value /\ writes' = writes
    BY <1>3 DEF SubscribeAll, Subscribe, Subscribed
  <2>3. RamTypeInv' /\ Len(stack') = Len(stack)
    BY <1>1, <1>2, <1>3, <2>1, <2>2, TypeSubscribeAll, SubscribedTypes
  <2>4. OnOwnLists'  BY <1>1, <2>1, <2>2, OwnListsPushed
  <2>5. \A l \in List : /\ Linked(l)' \subseteq Linked(l) \cup {n}
                         /\ Linked(l) \subseteq Linked(l)'
    BY <1>1, <1>2, <2>1, <2>2, PushKeeps
  <2>6. QED  BY <2>2, <2>3, <2>4, <2>5
<1>4. ASSUME NEW k \in Key, SubscribeKey(s, k, n)
      PROVE  /\ RamTypeInv' /\ OnOwnLists' /\ Len(stack') = Len(stack)
             /\ value' = value /\ writes' = writes
             /\ \A l \in List : /\ Linked(l)' \subseteq Linked(l) \cup {n}
                                /\ Linked(l) \ {n} \subseteq Linked(l)'
  <2>1. KeySubscribed(s, k, n) /\ Push(On(s, k), n) /\ HasKey(s, k)
    BY <1>4 DEF SubscribeKey, KeySubscribed, Subscribed
  <2>2. On(s, k) \in List  BY <2>1, StreamFacts
  <2>3. /\ RamTypeInv' /\ Len(stack') = Len(stack)
        /\ value' = value /\ writes' = writes
    BY <1>1, <1>2, <2>1, TypeKeySubscribed, WalksJoined
  <2>4. OnOwnLists'  BY <1>1, <2>1, <2>2, OwnListsPushed
  <2>5. \A l \in List : /\ Linked(l)' \subseteq Linked(l) \cup {n}
                         /\ Linked(l) \subseteq Linked(l)'
    BY <1>1, <1>2, <2>1, <2>2, PushKeeps
  <2>6. QED  BY <2>3, <2>4, <2>5
<1>5. CASE UnsubscribeFrom(s, n)
  <2>1. UnsubscribedFrom(s, n) /\ DeletedWherever(EventsOf(s), n)
        /\ stack' = DueWithout(EventsOf(s), n) /\ value' = value /\ writes' = writes
    BY <1>5 DEF UnsubscribeFrom, UnsubscribedFrom, EventsSearched
  <2>2. RamTypeInv' /\ Len(stack') = Len(stack)
    BY <1>1, <1>2, <2>1, TypeUnsubscribedFrom, Typed, UnsubscribedStack
  <2>3. \A l \in List : /\ Linked(l)' \subseteq Linked(l)
                         /\ Linked(l) \ {n} \subseteq Linked(l)'
    BY <1>1, <1>2, <2>1, StreamFacts, LinkedAfterUnsubscribing
  <2>4. OnOwnLists'  BY <2>3 DEF WalksInv, OnOwnLists, On, WatchedList
  <2>5. QED  BY <2>1, <2>2, <2>3, <2>4
<1>6. QED  BY <1>3, <1>4, <1>5

LEMMA OthersDo ==
  ASSUME NEW n \in Node, OthersSubscribe(n) \/ OthersUnsubscribe(n)
  PROVE  /\ n \in Others /\ Outside /\ UNCHANGED screenVars
         /\ \E s \in Stream : \/ SubscribeAll(s, n)
                              \/ \E k \in Key : SubscribeKey(s, k, n)
                              \/ UnsubscribeFrom(s, n)
BY DEF OthersSubscribe, OthersUnsubscribe

LEMMA ScreenOthers ==
  ASSUME TwoStreams, ScreenInv, NEW n \in Node,
         OthersSubscribe(n) \/ OthersUnsubscribe(n)
  PROVE  ScreenInv'
<1>1. n \in Others /\ Outside /\ UNCHANGED screenVars /\ UNCHANGED shown
  BY OthersDo DEF screenVars
<1>2. PICK s \in Stream : \/ SubscribeAll(s, n)
                          \/ \E k \in Key : SubscribeKey(s, k, n)
                          \/ UnsubscribeFrom(s, n)
  BY OthersDo
<1>3. WalksInv /\ StoresViews  BY DEF ScreenInv
<1>4. /\ RamTypeInv' /\ OnOwnLists' /\ Len(stack') = Len(stack)
      /\ value' = value /\ writes' = writes
  BY <1>1, <1>2, <1>3, OthersLists
<1>5. stack' = <<>> /\ Changing' = Changing  BY <1>1, <1>4, StillOutside
<1>6. WalksInv'  BY <1>4, <1>5, WalksOutside
<1>7. StoresViews'  BY <1>1, <1>3, <1>4, <1>5, ViewsKept DEF Outside
<1>8. QED  BY <1>1, <1>5, <1>6, <1>7, ScreenUntouched

-----------------------------------------------------------------------------
LEMMA ScreenStart == DisplayInit => ScreenInv
<1>1. SUFFICES ASSUME DisplayInit PROVE ScreenInv  OBVIOUS
<1>2. RamInit /\ EventInit /\ ListsInit /\ stack = <<>>
  BY <1>1 DEF DisplayInit, RamInit, EventInit
<1>3. RamTypeInv  BY <1>2, RamStart
<1>4. 1 .. Len(stack) = {} /\ 1 .. Len(stack) - 1 = {}  BY <1>2
<1>5. \A l \in List : Linked(l) = {}
  <2>1. ListsInv /\ Contents = [l \in List |-> <<>>]  BY <1>2, ListsStart
  <2>2. Range(<<>>) = {}  BY DEF Range
  <2>3. QED  BY <2>1, <2>2, ContentsFacts
<1>6. WritesFit /\ OthersStand /\ OuterCalling
  BY <1>4 DEF WritesFit, OthersStand, OuterCalling
<1>7. OnOwnLists  BY <1>5 DEF OnOwnLists
<1>8. KeepsOff({})  BY <1>4, <1>5, DisplayFacts DEF KeepsOff, Closed
<1>9. WalksInv  BY <1>3, <1>6, <1>7, <1>8 DEF WalksInv
<1>10. value = Nothing  BY <1>2, ClearedIsZero DEF RamInit, Nothing
<1>11. StoresViews
  <2>1. \A d \in Display : value[Ram][ViewKey[d]] = Zero
    BY <1>10, DisplayFacts, ZeroFacts DEF Nothing
  <2>2. QED  BY <1>4, <2>1 DEF StoresViews, ViewOrNull
<1>12. ScreenTypes
  <2>1. /\ current_view = [d \in Display |-> Zero] /\ contexts = <<>>
        /\ shown = {} /\ changes = <<>> /\ loaded = [d \in Display |-> {}]
    BY <1>1 DEF DisplayInit
  <2>2. QED  BY <2>1 DEF ScreenTypes, ViewOrNull, MaxContexts
<1>13. Cardinality(Changing) = Len(changes)
  <2>1. Changing = {} /\ changes = <<>>  BY <1>1, <1>4 DEF Changing, DisplayInit
  <2>2. QED  BY <2>1, FS_EmptySet
<1>14. QED  BY <1>9, <1>11, <1>12, <1>13 DEF ScreenInv

LEMMA ScreenStep ==
  ASSUME TwoStreams, ScreenInv, [DisplayNext]_displayVars
  PROVE  ScreenInv'
<1>1. CASE ChangeBegins \/ Unload \/ Load \/ ChangeReturns
  BY <1>1, ScreenChangeBegins, ScreenUnload, ScreenLoad, ScreenChangeReturns
<1>2. CASE TellOthers \/ OtherReturns
  BY <1>2, ScreenTellOthers, ScreenOtherReturns
<1>3. CASE (WriteGoesOn \/ WriteReturns) /\ UNCHANGED screenVars
  BY <1>3, ScreenWriteGoesOn, ScreenWriteReturns
<1>4. ASSUME NEW n \in Node, OthersSubscribe(n) \/ OthersUnsubscribe(n)
      PROVE  ScreenInv'
  BY <1>4, ScreenOthers
<1>5. ASSUME NEW d \in Display, InitDisplay(d)  PROVE ScreenInv'
  BY <1>5, ScreenInitDisplay
<1>6. ASSUME NEW d \in Display, NEW view \in View \cup {Zero}, StoreView(d, view)
      PROVE  ScreenInv'
  BY <1>6, ScreenStoreView DEF ViewOrNull
<1>7. ASSUME NEW d \in Display, NEW i \in DOMAIN InputKeys[d],
             NEW data \in InputValue, Input(d, i, data)
      PROVE  ScreenInv'
  BY <1>7, ScreenInput
<1>8. CASE UNCHANGED displayVars  BY <1>8, ScreenSame DEF displayVars
<1>9. QED
  BY <1>1, <1>2, <1>3, <1>4, <1>5, <1>6, <1>7, <1>8 DEF DisplayNext

\* The view on display, the keys of the widgets, and the changes under way stay
\* what they should be: on_view_change is never told anything but a view or
\* null, and no widget is given a key from outside the array.
THEOREM DisplayTypeCorrect ==
  ASSUME TwoStreams
  PROVE  DisplaySpec => []DisplayTypeOK
<1>1. ScreenInv /\ [DisplayNext]_displayVars => ScreenInv'  BY ScreenStep
<1>2. ScreenInv => DisplayTypeOK
  <2>1. SUFFICES ASSUME ScreenInv PROVE DisplayTypeOK  OBVIOUS
  <2>2. RamTypeOK  BY <2>1 DEF ScreenInv, WalksInv, RamTypeInv
  <2>3. ScreenTypes  BY <2>1 DEF ScreenInv
  <2>4. QED  BY <2>2, <2>3 DEF DisplayTypeOK, ScreenTypes, ViewOrNull, ChangeCall
<1>3. QED  BY <1>1, <1>2, ScreenStart, PTL DEF DisplaySpec

-----------------------------------------------------------------------------
\* All changes under way are in the load function of their view: so it is
\* whenever no change is the innermost call.
AllLoaded == \A j \in 1 .. Len(changes) : changes[j].at = "load"

LEMMA NotInChange ==
  ASSUME LoadedInv, ~InChange
  PROVE  AllLoaded
BY DEF LoadedInv, AllLoaded

LEMMA AtLoad ==
  ASSUME TwoStreams, LoadedInv, At("load")
  PROVE  AllLoaded
<1>1. ScreenInv /\ InChange /\ Change.at = "load"  BY DEF LoadedInv, At
<1>2. Len(changes) \in 1 .. Len(changes) /\ Change = changes[Len(changes)]
  BY <1>1, ChangeFacts
<1>3. \A j \in 1 .. Len(changes) : j = Len(changes) \/ j < Len(changes)
  BY <1>2
<1>4. QED  BY <1>1, <1>2, <1>3 DEF LoadedInv, AllLoaded

\* A change is what the innermost call belongs to.
LEMMA ChangeNext ==
  ASSUME ScreenInv', InChange'
  PROVE  Len(changes') \in 1 .. Len(changes')
<1>1. /\ stack' # <<>> /\ stack'[Len(stack')].calling
      /\ stack'[Len(stack')].e \in Display
  BY DEF InChange, InCallback, Top
<1>2. stack' \in Seq(Frame)
  BY DEF ScreenInv, WalksInv, RamTypeInv, EventTypeInv, EventTypeOK, Frame
<1>3. PICK k \in Nat : k = Len(stack') /\ k \in 1 .. k  BY <1>1, <1>2
<1>4. PICK C : C = Changing'  OBVIOUS
<1>5. k \in C /\ C \subseteq 1 .. k  BY <1>1, <1>3, <1>4 DEF Changing
<1>6. IsFiniteSet(C)
  <2>1. IsFiniteSet(1 .. k)  BY FS_Interval
  <2>2. QED  BY <1>5, <2>1, FS_Subset
<1>7. Cardinality(C) # 0 /\ Cardinality(C) \in Nat
  BY <1>5, <1>6, FS_EmptySet, FS_CardinalityType
<1>8. Cardinality(C) = Len(changes')  BY <1>4 DEF ScreenInv
<1>9. QED  BY <1>7, <1>8

LEMMA InChangeStays ==
  ASSUME Len(stack) \in 1 .. Len(stack), Len(stack') = Len(stack),
         stack'[Len(stack)].e = stack[Len(stack)].e,
         stack'[Len(stack)].calling = stack[Len(stack)].calling, InChange
  PROVE  InChange' /\ Top'.e = Top.e
<1>1. stack' # <<>>
  <2>1. stack' = <<>> => Len(stack') = 0  OBVIOUS
  <2>2. QED  BY <2>1
<1>2. QED  BY <1>1 DEF InChange, InCallback, Top

-----------------------------------------------------------------------------
\* What is loaded, action by action.
LEMMA LoadedKept ==
  ASSUME LoadedInv, ScreenInv', AllLoaded, UNCHANGED screenVars
  PROVE  LoadedInv'
<1>1. /\ changes' = changes /\ loaded' = loaded /\ shown' = shown
      /\ current_view' = current_view
  BY DEF screenVars
<1>2. ~At("unload")'
  <2>1. SUFFICES ASSUME InChange' PROVE Change'.at # "unload"  BY DEF At
  <2>2. Len(changes) \in 1 .. Len(changes)  BY <1>1, <2>1, ChangeNext
  <2>3. QED  BY <1>1, <2>2 DEF Change, AllLoaded
<1>3. \A j \in 1 .. Len(changes') : changes'[j].at = "load"
  BY <1>1 DEF AllLoaded
<1>4. \A d \in Display : /\ loaded'[d] \subseteq {current_view'[d]}
                         /\ d \notin shown' => loaded'[d] = {}
  BY <1>1 DEF LoadedInv
<1>5. QED  BY <1>2, <1>3, <1>4 DEF LoadedInv

LEMMA LoadedChangeBegins ==
  ASSUME TwoStreams, LoadedInv, ChangeBegins
  PROVE  LoadedInv'
<1>1. /\ Call /\ Top.e \in Display /\ stack # <<>> /\ ~Top.calling
      /\ changes' = Append(changes, [view |-> Writing.data, at |-> "begin"])
      /\ UNCHANGED <<current_view, shown, loaded>>
  BY DEF ChangeBegins, Tell, Call, Walking
<1>2. ScreenInv /\ WalksInv /\ changes \in Seq(ChangeCall)
  BY DEF LoadedInv, ScreenInv, ScreenTypes
<1>3. ScreenInv'  BY <1>2, ScreenChangeBegins
<1>4. AllLoaded  BY <1>1, NotInChange DEF InChange, InCallback
<1>5. PICK c : c = [view |-> Writing.data, at |-> "begin"]  OBVIOUS
<1>6. PICK k \in Nat : k = Len(changes)  BY <1>2
<1>7. /\ Len(changes') = k + 1 /\ changes'[k + 1] = c /\ c.at = "begin"
      /\ \A j \in 1 .. k : changes'[j] = changes[j]
  BY <1>1, <1>2, <1>5, <1>6
<1>8. EventTypeInv /\ Len(stack) \in 1 .. Len(stack)  BY <1>1, <1>2, TopFacts
<1>9. PICK f \in Frame :
        /\ f = Publishing(Top.event, Top.e, TRUE, Top.due \ {Top.e})
        /\ stack' = [stack EXCEPT ![Len(stack)] = f]
  BY <1>1, <1>8, Typed, CallStack
<1>10. f.calling /\ f.e \in Display  BY <1>1, <1>9 DEF Publishing
<1>11. Len(stack') = Len(stack) /\ stack'[Len(stack)] = f
  BY <1>1, <1>8, <1>9, Typed, ReplaceTop
<1>12. InChange'
  <2>1. stack' # <<>>
    <3>1. stack' = <<>> => Len(stack') = 0  OBVIOUS
    <3>2. QED  BY <1>8, <1>11, <3>1
  <2>2. QED  BY <1>10, <1>11, <2>1 DEF InChange, InCallback, Top
<1>13. ~At("unload")'
  <2>1. changes'[Len(changes')].at = "begin"  BY <1>7
  <2>2. QED  BY <2>1 DEF At, Change
<1>14. \A j \in 1 .. Len(changes') :
         j < Len(changes') \/ ~InChange' => changes'[j].at = "load"
  <2>1. \A j \in 1 .. k + 1 : j < k + 1 => j \in 1 .. k  OBVIOUS
  <2>2. QED  BY <1>4, <1>6, <1>7, <1>12, <2>1 DEF AllLoaded
<1>15. \A d \in Display : /\ loaded'[d] \subseteq {current_view'[d]}
                          /\ d \notin shown' => loaded'[d] = {}
  BY <1>1 DEF LoadedInv
<1>16. QED  BY <1>3, <1>13, <1>14, <1>15 DEF LoadedInv

LEMMA LoadedUnload ==
  ASSUME TwoStreams, LoadedInv, Unload
  PROVE  LoadedInv' /\ loaded'[Top.e] = {}
<1>1. ScreenInv /\ RamTypeInv /\ loaded \in [Display -> SUBSET View]
  BY DEF LoadedInv, ScreenInv, WalksInv, ScreenTypes
<1>2. PICK n \in Node : n = ViewSub[current_view[Top.e]]  BY <1>1, UnloadFacts
<1>3. /\ InChange /\ UnsubscribedFrom(Bsp, n) /\ GoTo("unload")
      /\ loaded' = [loaded EXCEPT ![Top.e] = @ \ {current_view[Top.e]}]
      /\ UNCHANGED <<current_view, contexts, shown>>
  BY <1>1, <1>2, UnloadFacts
<1>4. /\ Len(stack) \in 1 .. Len(stack) /\ Top.e \in Display
      /\ Len(changes) \in 1 .. Len(changes)
  BY <1>1, <1>3, ChangeFacts
<1>5. ScreenInv'  BY <1>1, ScreenUnload
<1>6. InChange' /\ Top'.e = Top.e  BY <1>1, <1>3, <1>4, WalksGone, InChangeStays
<1>7. /\ Len(changes') = Len(changes)
      /\ \A j \in 1 .. Len(changes) :
           j < Len(changes) => changes'[j].at = changes[j].at
  BY <1>1, <1>3, GoToFacts
<1>8. \A j \in 1 .. Len(changes') :
        j < Len(changes') \/ ~InChange' => changes'[j].at = "load"
  BY <1>6, <1>7 DEF LoadedInv
<1>9. loaded'[Top.e] = {}  BY <1>1, <1>3, <1>4 DEF LoadedInv
<1>10. \A d \in Display : /\ loaded'[d] \subseteq {current_view'[d]}
                          /\ d \notin shown' => loaded'[d] = {}
  BY <1>1, <1>3, <1>4 DEF LoadedInv
<1>11. At("unload")' => loaded'[Top'.e] = {}  BY <1>6, <1>9
<1>12. QED  BY <1>5, <1>8, <1>9, <1>10, <1>11 DEF LoadedInv

LEMMA LoadedLoad ==
  ASSUME TwoStreams, LoadedInv, Load
  PROVE  LoadedInv' /\ loaded[Top.e] = {} /\ loaded'[Top.e] = {Change.view}
<1>1. /\ ScreenInv /\ RamTypeInv /\ loaded \in [Display -> SUBSET View]
      /\ current_view \in [Display -> ViewOrNull]
  BY DEF LoadedInv, ScreenInv, WalksInv, ScreenTypes
<1>2. PICK n \in Node : n = ViewSub[Change.view]  BY <1>1, LoadFacts
<1>3. /\ InChange /\ Unloaded /\ KeySubscribed(Bsp, Watched, n) /\ GoTo("load")
      /\ current_view' = [current_view EXCEPT ![Top.e] = Change.view]
      /\ loaded' = [loaded EXCEPT ![Top.e] = @ \cup {Change.view}]
      /\ UNCHANGED <<contexts, shown>>
  BY <1>1, <1>2, LoadFacts
<1>4. /\ Len(stack) \in 1 .. Len(stack) /\ Top.e \in Display /\ Top.e \in shown
      /\ Len(changes) \in 1 .. Len(changes)
  BY <1>1, <1>3, ChangeFacts
<1>5. ScreenInv'  BY <1>1, ScreenLoad
<1>6. InChange' /\ Top'.e = Top.e
  BY <1>1, <1>3, <1>4, DisplayFacts, WalksJoined, InChangeStays
<1>7. /\ Len(changes') = Len(changes) /\ changes'[Len(changes)].at = "load"
      /\ \A j \in 1 .. Len(changes) :
           j < Len(changes) => changes'[j].at = changes[j].at
  BY <1>1, <1>3, GoToFacts
<1>8. \A j \in 1 .. Len(changes') :
        j < Len(changes') \/ ~InChange' => changes'[j].at = "load"
  BY <1>6, <1>7 DEF LoadedInv
<1>9. loaded[Top.e] = {}
  <2>1. CASE At("unload")  BY <2>1 DEF LoadedInv
  <2>2. CASE current_view[Top.e] = Zero
    <3>1. loaded[Top.e] \subseteq {Zero} /\ loaded[Top.e] \subseteq View
      BY <1>1, <1>4, <2>2 DEF LoadedInv
    <3>2. QED  BY <3>1, DisplayFacts
  <2>3. QED  BY <1>3, <2>1, <2>2 DEF Unloaded
<1>10. loaded'[Top.e] = {Change.view}  BY <1>1, <1>3, <1>4, <1>9
<1>11. \A d \in Display : /\ loaded'[d] \subseteq {current_view'[d]}
                          /\ d \notin shown' => loaded'[d] = {}
  <2>1. ASSUME NEW d \in Display, d # Top.e
        PROVE  /\ loaded'[d] \subseteq {current_view'[d]}
               /\ d \notin shown' => loaded'[d] = {}
    BY <1>1, <1>3, <2>1 DEF LoadedInv
  <2>2. current_view'[Top.e] = Change.view  BY <1>1, <1>3, <1>4
  <2>3. QED  BY <1>3, <1>4, <1>10, <2>1, <2>2
<1>12. ~At("unload")'  BY <1>7 DEF At, Change
<1>13. QED  BY <1>5, <1>8, <1>9, <1>10, <1>11, <1>12 DEF LoadedInv

LEMMA LoadedChangeReturns ==
  ASSUME TwoStreams, LoadedInv, ChangeReturns
  PROVE  LoadedInv'
<1>1. /\ InChange /\ Return /\ stack # <<>> /\ changes' = Front(changes)
      /\ UNCHANGED <<current_view, contexts, shown, loaded>>
  BY DEF ChangeReturns, Unloaded, At, CallbackReturns, InChange, InCallback
<1>2. ScreenInv /\ EventTypeInv /\ changes \in Seq(ChangeCall)
  BY RamTypes DEF LoadedInv, ScreenInv, WalksInv, ScreenTypes
<1>3. ScreenInv'  BY <1>2, ScreenChangeReturns
<1>4. Len(changes) \in 1 .. Len(changes)  BY <1>1, <1>2, ChangeFacts
<1>5. PICK k \in Nat : k = Len(changes) - 1  BY <1>4
<1>6. Len(changes') = k /\ \A j \in 1 .. k : changes'[j] = changes[j]
  BY <1>1, <1>2, <1>4, <1>5, FrontFacts
<1>7. \A j \in 1 .. k : changes[j].at = "load"
  <2>1. \A j \in 1 .. k : j \in 1 .. Len(changes) /\ j < Len(changes)
    BY <1>4, <1>5
  <2>2. QED  BY <2>1 DEF LoadedInv
<1>8. PICK f \in Frame :
        /\ f = Publishing(Top.event, next[Top.e], FALSE, Top.due)
        /\ stack' = [stack EXCEPT ![Len(stack)] = f]
  BY <1>1, <1>2, Typed, ReturnStack
<1>9. f.calling = FALSE  BY <1>8 DEF Publishing
<1>10. Len(stack') = Len(stack) /\ stack'[Len(stack)] = f
  BY <1>1, <1>2, <1>8, Typed, ReplaceTop
<1>11. ~InChange'  BY <1>9, <1>10 DEF InChange, InCallback, Top
<1>12. ~At("unload")'  BY <1>11 DEF At
<1>13. \A d \in Display : /\ loaded'[d] \subseteq {current_view'[d]}
                          /\ d \notin shown' => loaded'[d] = {}
  BY <1>1 DEF LoadedInv
<1>14. QED  BY <1>3, <1>6, <1>7, <1>12, <1>13 DEF LoadedInv

LEMMA LoadedInitDisplay ==
  ASSUME TwoStreams, LoadedInv, NEW d \in Display, InitDisplay(d)
  PROVE  LoadedInv'
<1>1. /\ Outside /\ d \notin shown /\ shown' = shown \cup {d}
      /\ current_view' = [current_view EXCEPT ![d] = Zero]
      /\ changes' = changes /\ loaded' = loaded
  BY DEF InitDisplay
<1>2. ScreenInv /\ ScreenInv' /\ current_view \in [Display -> ViewOrNull]
  BY ScreenInitDisplay DEF LoadedInv, ScreenInv, ScreenTypes
<1>3. AllLoaded  BY <1>1, NotInChange DEF Outside, InChange, InCallback
<1>4. ~At("unload")'
  <2>1. SUFFICES ASSUME InChange' PROVE Change'.at # "unload"  BY DEF At
  <2>2. Len(changes) \in 1 .. Len(changes)  BY <1>1, <1>2, <2>1, ChangeNext
  <2>3. QED  BY <1>1, <1>3, <2>2 DEF Change, AllLoaded
<1>5. \A j \in 1 .. Len(changes') : changes'[j].at = "load"
  BY <1>1, <1>3 DEF AllLoaded
<1>6. \A c \in Display : /\ loaded'[c] \subseteq {current_view'[c]}
                         /\ c \notin shown' => loaded'[c] = {}
  BY <1>1, <1>2 DEF LoadedInv
<1>7. QED  BY <1>2, <1>4, <1>5, <1>6 DEF LoadedInv

\* A view is stored while no change is the innermost call, or by the load
\* function of one.
LEMMA StoredAfterLoading ==
  ASSUME TwoStreams, StoresAfterLoading, LoadedInv,
         NEW d \in Display, NEW view \in ViewOrNull, StoreView(d, view)
  PROVE  AllLoaded
<1>1. CASE ~InChange  BY <1>1, NotInChange
<1>2. CASE InChange
  <2>1. \E place \in StoresIn : At(place)
    BY <1>2 DEF StoreView, Outside, InChange, InCallback
  <2>2. At("load")  BY <2>1, DisplayConstants DEF StoresAfterLoading
  <2>3. QED  BY <2>2, AtLoad
<1>3. QED  BY <1>1, <1>2

LEMMA LoadedStart == DisplayInit => LoadedInv
<1>1. SUFFICES ASSUME DisplayInit PROVE LoadedInv  OBVIOUS
<1>2. ScreenInv  BY <1>1, ScreenStart
<1>3. /\ stack = <<>> /\ changes = <<>> /\ loaded = [d \in Display |-> {}]
  BY <1>1 DEF DisplayInit, RamInit, EventInit
<1>4. ~At("unload")  BY <1>3 DEF At, InChange, InCallback
<1>5. \A j \in 1 .. Len(changes) : FALSE  BY <1>3
<1>6. QED  BY <1>2, <1>3, <1>4, <1>5 DEF LoadedInv

LEMMA LoadedStep ==
  ASSUME TwoStreams, StoresAfterLoading, LoadedInv, [DisplayNext]_displayVars
  PROVE  LoadedInv'
<1>1. ScreenInv /\ ScreenInv'  BY ScreenStep DEF LoadedInv
<1>2. CASE ChangeBegins \/ Unload \/ Load \/ ChangeReturns
  BY <1>2, LoadedChangeBegins, LoadedUnload, LoadedLoad, LoadedChangeReturns
<1>3. CASE TellOthers \/ OtherReturns
  <2>1. ~InChange /\ UNCHANGED screenVars
    BY <1>3 DEF TellOthers, OtherReturns, Tell, Call, Walking, InChange, InCallback
  <2>2. QED  BY <1>1, <2>1, NotInChange, LoadedKept
<1>4. CASE (WriteGoesOn \/ WriteReturns) /\ UNCHANGED screenVars
  <2>1. ~InChange
    BY <1>4 DEF WriteGoesOn, WriteReturns, PublishReturns, Walking,
                InChange, InCallback
  <2>2. QED  BY <1>1, <1>4, <2>1, NotInChange, LoadedKept
<1>5. ASSUME NEW n \in Node, OthersSubscribe(n) \/ OthersUnsubscribe(n)
      PROVE  LoadedInv'
  <2>1. Outside /\ UNCHANGED screenVars  BY <1>5, OthersDo
  <2>2. ~InChange  BY <2>1 DEF Outside, InChange, InCallback
  <2>3. QED  BY <1>1, <2>1, <2>2, NotInChange, LoadedKept
<1>6. ASSUME NEW d \in Display, InitDisplay(d)  PROVE LoadedInv'
  BY <1>6, LoadedInitDisplay
<1>7. ASSUME NEW d \in Display, NEW view \in View \cup {Zero}, StoreView(d, view)
      PROVE  LoadedInv'
  <2>1. AllLoaded /\ UNCHANGED screenVars
    BY <1>7, StoredAfterLoading DEF ViewOrNull, StoreView
  <2>2. QED  BY <1>1, <2>1, LoadedKept
<1>8. ASSUME NEW d \in Display, NEW i \in DOMAIN InputKeys[d],
             NEW data \in InputValue, Input(d, i, data)
      PROVE  LoadedInv'
  <2>1. ~InChange /\ UNCHANGED screenVars
    BY <1>8 DEF Input, Outside, InChange, InCallback
  <2>2. QED  BY <1>1, <2>1, NotInChange, LoadedKept
<1>9. CASE UNCHANGED displayVars
  <2>1. /\ UNCHANGED screenVars /\ stack' = stack /\ loaded' = loaded
        /\ changes' = changes /\ current_view' = current_view /\ shown' = shown
    BY <1>9 DEF displayVars, screenVars, ramVars, eventVars
  <2>2. (At("unload")' <=> At("unload")) /\ (InChange' <=> InChange) /\ Top' = Top
    BY <2>1 DEF At, InChange, InCallback, Top, Change
  <2>3. QED  BY <1>1, <2>1, <2>2 DEF LoadedInv
<1>10. QED
  BY <1>2, <1>3, <1>4, <1>5, <1>6, <1>7, <1>8, <1>9 DEF DisplayNext

LEMMA LoadedInvariant ==
  ASSUME TwoStreams, StoresAfterLoading
  PROVE  DisplaySpec => []LoadedInv
<1>1. LoadedInv /\ [DisplayNext]_displayVars => LoadedInv'  BY LoadedStep
<1>2. QED  BY <1>1, LoadedStart, PTL DEF DisplaySpec

\* Two views never share the content area of a display, as long as no view is
\* stored while the old one is being unloaded: however many displays there are,
\* and though a view that is loaded may store another one at once.
THEOREM OneViewIsLoaded ==
  ASSUME TwoStreams, StoresAfterLoading
  PROVE  DisplaySpec => []OneViewLoaded
<1>1. LoadedInv => OneViewLoaded
  <2>1. SUFFICES ASSUME LoadedInv, NEW d \in Display
                 PROVE  Cardinality(loaded[d]) <= 1
    BY DEF OneViewLoaded
  <2>2. PICK v : v = current_view[d]  OBVIOUS
  <2>3. loaded[d] = {} \/ loaded[d] = {v}  BY <2>1, <2>2 DEF LoadedInv
  <2>4. Cardinality({}) = 0 /\ Cardinality({v}) = 1
    BY FS_EmptySet, FS_Singleton
  <2>5. QED  BY <2>3, <2>4
<1>2. QED  BY <1>1, LoadedInvariant, PTL

\* Under the same condition nothing of the old view is left in the content area
\* when on_view_change has unloaded it.
THEOREM UnloadingLeavesNothing ==
  ASSUME TwoStreams, StoresAfterLoading
  PROVE  DisplaySpec => NothingLeftLoaded
<1>1. LoadedInv /\ [DisplayNext]_displayVars
        => [Unload => loaded'[Top.e] = {}]_displayVars
  BY LoadedUnload
<1>2. QED  BY <1>1, LoadedInvariant, PTL DEF DisplaySpec, NothingLeftLoaded

-----------------------------------------------------------------------------
\* Who hears, for the steps that leave the lists alone.
LEMMA HearNext ==
  ASSUME LoadedInv', LinkedAreLoaded',
         \A f : \A i \in 1 .. Len(stack') :
           f = stack'[i] /\ f.event \in EventsOf(Bsp) => OnItsWay(f)'
  PROVE  HearInv'
<1>1. EventsOf(Bsp)' = EventsOf(Bsp)  BY DEF EventsOf, Count, On, AllOf
<1>2. ASSUME NEW i \in 1 .. Len(stack'), OfBsp(i)'  PROVE OnItsWay(stack[i])'
  <2>1. PICK f : f = stack'[i]  OBVIOUS
  <2>2. f.event \in EventsOf(Bsp)  BY <1>1, <1>2, <2>1 DEF OfBsp
  <2>3. OnItsWay(f)'  BY <2>1, <2>2
  <2>4. QED  BY <2>1, <2>3 DEF OnItsWay
<1>3. QED  BY <1>2 DEF HearInv

LEMMA HearSameLists ==
  ASSUME HearInv, LoadedInv', UNCHANGED <<listVars, loaded>>,
         \A f : \A i \in 1 .. Len(stack') :
           f = stack'[i] /\ f.event \in EventsOf(Bsp) => OnItsWay(f)
  PROVE  HearInv'
<1>1. \A l : Linked(l)' = Linked(l)  BY SameLinks
<1>2. next' = next  BY DEF listVars
<1>3. \A n : Unlinked(n) => Unlinked(n)'  BY <1>1 DEF Unlinked
<1>4. \A f : OnItsWay(f) => OnItsWay(f)'
  <2>1. WatchedList' = WatchedList  BY DEF WatchedList, On
  <2>2. QED  BY <1>1, <1>2, <1>3, <2>1 DEF OnItsWay
<1>5. LinkedAreLoaded'
  <2>1. Linked(WatchedList)' = Linked(WatchedList)
    BY <1>1 DEF WatchedList, On
  <2>2. QED  BY <2>1 DEF HearInv, LinkedAreLoaded
<1>6. QED  BY <1>4, <1>5, HearNext

LEMMA HearFacts ==
  ASSUME HearInv
  PROVE  /\ LoadedInv /\ ScreenInv /\ WalksInv /\ RamTypeInv /\ EventTypeInv
         /\ ListsInv /\ LinkedAreLoaded
BY RamTypes DEF HearInv, LoadedInv, ScreenInv, WalksInv, EventTypeInv

LEMMA HearTop ==
  ASSUME HearInv, LoadedInv', UNCHANGED <<listVars, loaded>>, stack # <<>>,
         NEW f \in Frame, stack' = [stack EXCEPT ![Len(stack)] = f],
         f.event \in EventsOf(Bsp) => OnItsWay(f)
  PROVE  HearInv'
<1>1. EventTypeInv /\ Len(stack) \in 1 .. Len(stack)  BY HearFacts, TopFacts
<1>2. /\ Len(stack') = Len(stack) /\ stack'[Len(stack)] = f
      /\ \A i \in 1 .. Len(stack) - 1 : stack'[i] = stack[i]
  BY <1>1, Typed, ReplaceTop
<1>3. \A i \in 1 .. Len(stack) : i = Len(stack) \/ i \in 1 .. Len(stack) - 1
  BY <1>1, Typed, StackFacts, LastOrBelow, Zenon
<1>4. ASSUME NEW g, NEW i \in 1 .. Len(stack'),
             g = stack'[i], g.event \in EventsOf(Bsp)
      PROVE  OnItsWay(g)
  <2>1. CASE i = Len(stack)  BY <1>2, <1>4, <2>1
  <2>2. CASE i # Len(stack)
    <3>1. i \in 1 .. Len(stack) /\ g = stack[i]  BY <1>2, <1>3, <1>4, <2>2
    <3>2. OfBsp(i)  BY <1>4, <3>1 DEF OfBsp
    <3>3. QED  BY <3>1, <3>2 DEF HearInv
  <2>3. QED  BY <2>1, <2>2
<1>5. QED  BY <1>4, HearSameLists

LEMMA HearTell ==
  ASSUME HearInv, LoadedInv', Tell, UNCHANGED loaded
  PROVE  HearInv'
<1>1. /\ Call /\ stack # <<>> /\ Top.e # NULL /\ ~Top.calling
      /\ UNCHANGED <<listVars, loaded>>
  BY DEF Tell, Call, Walking
<1>2. /\ EventTypeInv /\ Len(stack) \in 1 .. Len(stack)
      /\ Top = stack[Len(stack)]
  BY <1>1, HearFacts, TopFacts
<1>3. PICK f \in Frame :
        /\ f = Publishing(Top.event, Top.e, TRUE, Top.due \ {Top.e})
        /\ stack' = [stack EXCEPT ![Len(stack)] = f]
  BY <1>1, <1>2, Typed, CallStack
<1>4. f.event = Top.event /\ f.e = Top.e  BY <1>3 DEF Publishing
<1>5. ASSUME f.event \in EventsOf(Bsp)  PROVE OnItsWay(f)
  <2>1. OnItsWay(Top)  BY <1>2, <1>4, <1>5 DEF HearInv, OfBsp
  <2>2. QED  BY <1>1, <1>4, <2>1 DEF OnItsWay
<1>6. QED  BY <1>1, <1>3, <1>5, HearTop

LEMMA HearReturn ==
  ASSUME HearInv, LoadedInv', CallbackReturns, UNCHANGED loaded
  PROVE  HearInv'
<1>1. /\ Return /\ stack # <<>> /\ Top.calling
      /\ UNCHANGED <<listVars, loaded>>
  BY DEF CallbackReturns, Return, InCallback
<1>2. /\ EventTypeInv /\ ListsInv /\ Len(stack) \in 1 .. Len(stack)
      /\ Top = stack[Len(stack)] /\ Top.event \in List
  BY <1>1, HearFacts, TopFacts, WalksFacts
<1>3. PICK f \in Frame :
        /\ f = Publishing(Top.event, next[Top.e], FALSE, Top.due)
        /\ stack' = [stack EXCEPT ![Len(stack)] = f]
  BY <1>1, <1>2, Typed, ReturnStack
<1>4. f.event = Top.event /\ f.e = next[Top.e] /\ f.calling = FALSE
  BY <1>3 DEF Publishing
<1>5. ASSUME f.event \in EventsOf(Bsp)  PROVE OnItsWay(f)
  <2>1. OnItsWay(Top)  BY <1>2, <1>4, <1>5 DEF HearInv, OfBsp
  <2>2. next[Top.e] \in Linked(Top.event) \cup {NULL}
    BY <1>1, <1>2, <2>1, WalkStaysOn DEF OnItsWay
  <2>3. QED  BY <1>4, <2>2 DEF OnItsWay
<1>6. QED  BY <1>1, <1>3, <1>5, HearTop

LEMMA BegunOnItsWay ==
  ASSUME ListsInv, NEW f, f.event \in List, f.e = head[f.event],
         f.calling = FALSE
  PROVE  OnItsWay(f)
BY WalkStaysOn DEF OnItsWay

LEMMA HearGoesOn ==
  ASSUME HearInv, LoadedInv', WriteGoesOn, UNCHANGED loaded
  PROVE  HearInv'
<1>1. stack # <<>> /\ UNCHANGED <<listVars, loaded>>
  BY DEF WriteGoesOn, Walking
<1>2. /\ EventTypeInv /\ ListsInv /\ Writing.stream \in Stream
  BY <1>1, HearFacts, TopFacts
<1>3. PICK l \in List : l = AllOf(Writing.stream)  BY <1>2, StreamFacts
<1>4. PICK f \in Frame :
        /\ f = Publishing(l, head[l], FALSE, Linked(l))
        /\ stack' = [stack EXCEPT ![Len(stack)] = f]
  BY <1>2, <1>3, Typed, BegunFrame DEF WriteGoesOn, TopBecomes
<1>5. f.event = l /\ f.e = head[l] /\ f.calling = FALSE
  BY <1>4 DEF Publishing
<1>6. OnItsWay(f)  BY <1>2, <1>5, BegunOnItsWay
<1>7. QED  BY <1>1, <1>4, <1>6, HearTop

LEMMA HearWriteReturns ==
  ASSUME HearInv, LoadedInv', WriteReturns, UNCHANGED loaded
  PROVE  HearInv'
<1>1. UNCHANGED <<listVars, loaded>>  BY DEF WriteReturns, PublishReturns
<1>2. PICK m \in Nat : EndsAfter(m)  BY HearFacts, RamTyped, PopStacks
<1>3. /\ Len(stack') = m
      /\ \A i \in 1 .. m : stack'[i] = stack[i] /\ i \in 1 .. Len(stack)
  BY <1>2 DEF EndsAfter
<1>4. ASSUME NEW f, NEW i \in 1 .. Len(stack'),
             f = stack'[i], f.event \in EventsOf(Bsp)
      PROVE  OnItsWay(f)
  <2>1. i \in 1 .. Len(stack) /\ f = stack[i]  BY <1>3, <1>4
  <2>2. OfBsp(i)  BY <1>4, <2>1 DEF OfBsp
  <2>3. QED  BY <2>1, <2>2 DEF HearInv
<1>5. QED  BY <1>1, <1>4, HearSameLists

LEMMA HearWrite ==
  ASSUME HearInv, LoadedInv', NEW s \in Stream, NEW k \in Key,
         NEW data \in Value, Write(s, k, data), UNCHANGED loaded
  PROVE  HearInv'
<1>1. UNCHANGED <<listVars, loaded>> /\ HasKey(s, k)  BY DEF Write, Publish
<1>2. ListsInv /\ RamTypeInv /\ On(s, k) \in List
  BY <1>1, HearFacts, StreamFacts
<1>3. PICK m \in Nat, f \in Frame : BeginsAt(m, f, s, k, data)
  BY <1>2, RamTyped, WriteStacks
<1>4. /\ Len(stack') = m /\ stack'[m] = f
      /\ f.event = On(s, k) /\ f.e = head[On(s, k)] /\ f.calling = FALSE
      /\ \A i \in 1 .. Len(stack) : stack'[i] = stack[i]
      /\ \A i \in 1 .. m : i = m \/ i \in 1 .. Len(stack)
  BY <1>3 DEF BeginsAt
<1>5. OnItsWay(f)  BY <1>2, <1>4, BegunOnItsWay
<1>6. ASSUME NEW g, NEW i \in 1 .. Len(stack'),
             g = stack'[i], g.event \in EventsOf(Bsp)
      PROVE  OnItsWay(g)
  <2>1. CASE i = m  BY <1>4, <1>5, <1>6, <2>1
  <2>2. CASE i \in 1 .. Len(stack)
    <3>1. g = stack[i]  BY <1>4, <1>6, <2>2
    <3>2. OfBsp(i)  BY <1>6, <3>1 DEF OfBsp
    <3>3. QED  BY <2>2, <3>1, <3>2 DEF HearInv
  <2>3. QED  BY <1>4, <2>1, <2>2
<1>7. QED  BY <1>1, <1>6, HearSameLists

\* Who hears, when a view goes.
LEMMA OnlyTheCurrent ==
  ASSUME TwoStreams, OneDisplay, HearInv, InChange,
         NEW v \in View, NEW l \in List, ViewSub[v] \in Linked(l)
  PROVE  v \in loaded[Top.e] /\ v = current_view[Top.e] /\ l = WatchedList
<1>1. Top.e \in Display  BY DEF InChange
<1>2. l = WatchedList
  BY DisplayFacts, HearFacts DEF WalksInv, OnOwnLists
<1>3. PICK d \in Display : v \in loaded[d]
  BY <1>2 DEF HearInv, LinkedAreLoaded
<1>4. d = Top.e  BY <1>1, <1>3 DEF OneDisplay
<1>5. QED  BY <1>1, <1>2, <1>3, <1>4, HearFacts DEF LoadedInv

LEMMA HearUnload ==
  ASSUME TwoStreams, OneDisplay, HearInv, LoadedInv', Unload
  PROVE  HearInv'
<1>1. PICK cv \in View, n \in ViewSubs : cv = current_view[Top.e] /\ n = ViewSub[cv]
  BY HearFacts, UnloadFacts
<1>2. /\ InChange /\ n \in Node /\ UnsubscribedFrom(Bsp, n)
      /\ loaded' = [loaded EXCEPT ![Top.e] = @ \ {cv}]
  BY <1>1, HearFacts, UnloadFacts
<1>3. /\ DeletedWherever(EventsOf(Bsp), n)
      /\ EventTypeInv /\ ListsInv /\ WalksInv /\ RamTypeInv
      /\ EventsOf(Bsp) \in SUBSET List
      /\ WatchedList \in EventsOf(Bsp) /\ WatchedList \in List
      /\ ViewSubs \subseteq Node /\ Top.e \in Display
      /\ loaded \in [Display -> SUBSET View]
  BY <1>2, DisplayFacts, HearFacts
     DEF UnsubscribedFrom, EventsSearched, InChange, ScreenInv, ScreenTypes
<1>4. /\ \A l \in List : Linked(l)' \subseteq Linked(l)
      /\ \A l \in EventsOf(Bsp) : n \notin Linked(l)'
  BY <1>2, <1>3, LinkedAfterUnsubscribing
<1>5. /\ \A l \in List : Linked(l) \ {n} \subseteq Linked(l)'
      /\ next'[n] = next[n]
      /\ \A m \in Node : Unlinked(m) => next'[m] = next[m]
  <2>1. CASE UNCHANGED listVars
    <3>1. \A l : Linked(l)' = Linked(l)  BY <2>1, SameLinks
    <3>2. QED  BY <2>1, <3>1 DEF listVars
  <2>2. ASSUME NEW l \in EventsOf(Bsp), Delete(l, n)
        PROVE  /\ \A m \in List : Linked(m) \ {n} \subseteq Linked(m)'
               /\ next'[n] = next[n]
               /\ \A m \in Node : Unlinked(m) => next'[m] = next[m]
    <3>1. l \in List  BY <1>3
    <3>2. QED  BY <1>2, <1>3, <2>2, <3>1, DeleteKeeps, DeleteLinks DEF Unlinked
  <2>3. QED  BY <1>3, <2>1, <2>2 DEF DeletedWherever
<1>6. \A m \in ViewSubs : \A l \in List : m \in Linked(l) => m = n /\ l = WatchedList
  <2>1. ASSUME NEW v \in View, NEW l \in List, ViewSub[v] \in Linked(l)
        PROVE  ViewSub[v] = n /\ l = WatchedList
    BY <1>1, <1>2, <2>1, OnlyTheCurrent
  <2>2. ASSUME NEW m \in ViewSubs  PROVE \E v \in View : m = ViewSub[v]
    BY DisplayConstants DEF ViewSubs, Range
  <2>3. QED  BY <2>1, <2>2
<1>7. \A m \in ViewSubs : \A l \in List : m \notin Linked(l)'
  BY <1>3, <1>4, <1>6
<1>8. \A m \in ViewSubs : Unlinked(m)'  BY <1>7 DEF Unlinked
<1>9. LinkedAreLoaded'
  <2>1. WatchedList' = WatchedList  BY DEF WatchedList, On
  <2>2. \A v \in View : ViewSub[v] \notin Linked(WatchedList)'
    BY <1>3, <1>7, DisplayFacts
  <2>3. QED  BY <2>1, <2>2 DEF LinkedAreLoaded
<1>10. ASSUME NEW f, NEW i \in 1 .. Len(stack'),
              f = stack'[i], f.event \in EventsOf(Bsp)
       PROVE  OnItsWay(f)'
  <2>1. PICK g : g = stack[i]  OBVIOUS
  <2>2. /\ i \in 1 .. Len(stack) /\ f.event = g.event /\ f.e = g.e
        /\ f.calling = g.calling
    BY <1>2, <1>3, <1>10, <2>1, WalksGone
  <2>3. OnItsWay(g)  BY <1>10, <2>1, <2>2 DEF HearInv, OfBsp
  <2>4. InCallback  BY <1>2 DEF InChange
  <2>5. g.calling /\ g.event \in List
    BY <1>3, <2>1, <2>2, <2>4, AllCalling, WalksFacts
  <2>6. CASE g.e \in Linked(g.event) /\ g.e # n
    BY <1>5, <2>2, <2>5, <2>6 DEF OnItsWay
  <2>7. ASSUME g.calling, g.event = WatchedList, g.e \in ViewSubs,
               next'[g.e] = next[g.e],
               next[g.e] \in (Linked(WatchedList) \ ViewSubs) \cup {NULL}
        PROVE  OnItsWay(f)'
    <3>1. next'[g.e] \in (Linked(WatchedList)' \ ViewSubs) \cup {NULL}
      BY <1>1, <1>3, <1>5, <2>7
    <3>2. PICK x : x = g.e /\ x = f.e  BY <2>2
    <3>3. f.event = WatchedList /\ f.calling  BY <2>2, <2>7
    <3>4. Unlinked(x)' /\ x \in ViewSubs  BY <1>8, <2>7, <3>2
    <3>5. next'[x] \in (Linked(f.event)' \ ViewSubs) \cup {NULL}
      BY <3>1, <3>2, <3>3
    <3>6. f.event = WatchedList'  BY <3>3 DEF WatchedList, On
    <3>7. ViewSubs' = ViewSubs  BY DEF ViewSubs
    <3>8. QED  BY <3>2, <3>3, <3>4, <3>5, <3>6, <3>7 DEF OnItsWay, Unlinked
  <2>8. CASE g.e \in Linked(g.event) /\ g.e = n
    <3>1. g.event = WatchedList  BY <1>6, <2>5, <2>8
    <3>2. next[n] \in (Linked(WatchedList) \ {n}) \cup {NULL}
      BY <1>3, <2>8, <3>1, WalkStaysOn
    <3>3. next[n] \in (Linked(WatchedList) \ ViewSubs) \cup {NULL}
      BY <1>3, <1>6, <3>2
    <3>4. QED  BY <1>5, <2>5, <2>7, <2>8, <3>1, <3>3
  <2>9. CASE /\ g.event = WatchedList /\ g.e \in ViewSubs /\ Unlinked(g.e)
             /\ next[g.e] \in (Linked(g.event) \ ViewSubs) \cup {NULL}
    BY <1>3, <1>5, <2>5, <2>7, <2>9
  <2>10. QED  BY <2>3, <2>5, <2>6, <2>8, <2>9 DEF OnItsWay
<1>11. QED  BY <1>9, <1>10, HearNext

LEMMA HearLoad ==
  ASSUME TwoStreams, HearInv, LoadedInv', Load
  PROVE  HearInv'
<1>1. PICK v \in View, n \in ViewSubs : v = Change.view /\ n = ViewSub[v]
  BY HearFacts, LoadFacts
<1>2. /\ InChange /\ n \in Node /\ KeySubscribed(Bsp, Watched, n)
      /\ loaded' = [loaded EXCEPT ![Top.e] = @ \cup {v}]
  BY <1>1, HearFacts, LoadFacts
<1>3. /\ Push(WatchedList, n) /\ Unlinked(n)
      /\ EventTypeInv /\ ListsInv /\ WalksInv /\ RamTypeInv
      /\ WatchedList \in List /\ Watched \in Key /\ Bsp \in Stream
      /\ ViewSubs \subseteq Node /\ Top.e \in Display
      /\ loaded \in [Display -> SUBSET View]
  BY <1>2, DisplayFacts, HearFacts
     DEF KeySubscribed, Subscribed, Push, WatchedList, InChange, ScreenInv,
         ScreenTypes
<1>4. /\ \A l \in List : /\ Linked(l) \subseteq Linked(l)'
                         /\ Linked(l)' \subseteq Linked(l) \cup {n}
      /\ n \in Linked(WatchedList)'
      /\ \A m \in Node : m # n /\ Unlinked(m) => next'[m] = next[m]
  BY <1>2, <1>3, PushKeeps, PushLinked, PushLinks DEF Unlinked
<1>5. LinkedAreLoaded'
  <2>1. WatchedList' = WatchedList  BY DEF WatchedList, On
  <2>2. ASSUME NEW w \in View, ViewSub[w] \in Linked(WatchedList)'
        PROVE  \E d \in Display : w \in loaded'[d]
    <3>1. CASE ViewSub[w] = n
      <4>1. w = v
        BY <1>1, <3>1, DisplayConstants DEF IsInjective
      <4>2. QED  BY <1>2, <1>3, <4>1
    <3>2. CASE ViewSub[w] \in Linked(WatchedList)
      <4>1. PICK d \in Display : w \in loaded[d]
        BY <3>2 DEF HearInv, LinkedAreLoaded
      <4>2. loaded[d] \subseteq loaded'[d]  BY <1>2, <1>3
      <4>3. QED  BY <4>1, <4>2
    <3>3. QED  BY <1>3, <1>4, <2>2, <3>1, <3>2
  <2>3. QED  BY <2>1, <2>2 DEF LinkedAreLoaded
<1>6. ASSUME NEW f, NEW i \in 1 .. Len(stack'),
             f = stack'[i], f.event \in EventsOf(Bsp)
      PROVE  OnItsWay(f)'
  <2>1. PICK g : g = stack[i]  OBVIOUS
  <2>2. /\ i \in 1 .. Len(stack) /\ f.event = g.event /\ f.e = g.e
        /\ f.calling = g.calling
    BY <1>2, <1>3, <1>6, <2>1, WalksJoined
  <2>3. OnItsWay(g)  BY <1>6, <2>1, <2>2 DEF HearInv, OfBsp
  <2>4. InCallback  BY <1>2 DEF InChange
  <2>5. g.calling /\ g.event \in List
    BY <1>3, <2>1, <2>2, <2>4, AllCalling, WalksFacts
  <2>6. CASE g.e \in Linked(g.event)
    BY <1>4, <2>2, <2>5, <2>6 DEF OnItsWay
  <2>7. CASE /\ g.event = WatchedList /\ g.e \in ViewSubs /\ Unlinked(g.e)
             /\ next[g.e] \in (Linked(g.event) \ ViewSubs) \cup {NULL}
    <3>1. PICK x : x = g.e /\ x = f.e  BY <2>2
    <3>2. f.event = WatchedList /\ f.calling  BY <2>2, <2>5, <2>7
    <3>3. CASE x = n  BY <1>4, <3>1, <3>2, <3>3 DEF OnItsWay
    <3>4. CASE x # n
      <4>1. next'[x] = next[x]  BY <1>3, <1>4, <2>7, <3>1, <3>4
      <4>2. next'[x] \in (Linked(f.event)' \ ViewSubs) \cup {NULL}
        BY <1>3, <1>4, <2>7, <3>1, <3>2, <4>1
      <4>3. \A l \in List : x \notin Linked(l)'
        BY <1>4, <2>7, <3>1, <3>4 DEF Unlinked
      <4>4. Unlinked(x)'  BY <4>3 DEF Unlinked
      <4>5. f.event = WatchedList'  BY <3>2 DEF WatchedList, On
      <4>6. ViewSubs' = ViewSubs  BY DEF ViewSubs
      <4>7. x \in ViewSubs  BY <2>7, <3>1
      <4>8. QED  BY <3>1, <3>2, <4>2, <4>4, <4>5, <4>6, <4>7 DEF OnItsWay, Unlinked
    <3>5. QED  BY <3>3, <3>4
  <2>8. QED  BY <2>3, <2>5, <2>6, <2>7 DEF OnItsWay
<1>7. QED  BY <1>5, <1>6, HearNext

LEMMA HearOutside ==
  ASSUME HearInv, LoadedInv', stack' = <<>>, loaded' = loaded,
         NEW n, n \notin ViewSubs,
         \A l \in List : Linked(l)' \subseteq Linked(l) \cup {n}
  PROVE  HearInv'
<1>1. 1 .. Len(stack') = {}  OBVIOUS
<1>2. LinkedAreLoaded'
  <2>1. WatchedList' = WatchedList  BY DEF WatchedList, On
  <2>2. \A v \in View : ViewSub[v] \in Linked(WatchedList)' =>
                          ViewSub[v] \in Linked(WatchedList)
    BY DisplayFacts
  <2>3. QED  BY <2>1, <2>2 DEF HearInv, LinkedAreLoaded
<1>3. QED  BY <1>1, <1>2, HearNext

LEMMA HearInitDisplay ==
  ASSUME TwoStreams, HearInv, LoadedInv', NEW d \in Display, InitDisplay(d)
  PROVE  HearInv'
<1>1. /\ Outside /\ KeySubscribed(Ram, ViewKey[d], d) /\ loaded' = loaded
      /\ Push(On(Ram, ViewKey[d]), d)
  BY DEF InitDisplay, KeySubscribed, Subscribed
<1>2. /\ d \in Node /\ d \notin ViewSubs /\ Ram \in Stream
      /\ ViewKey[d] \in Key /\ On(Ram, ViewKey[d]) \in List
  BY DisplayFacts
<1>3. ListsInv /\ RamTypeInv  BY HearFacts
<1>4. RamTypeInv' /\ Len(stack') = Len(stack)
  BY <1>1, <1>2, <1>3, TypeKeySubscribed, WalksJoined
<1>5. stack' = <<>>  BY <1>1, <1>4, StillOutside
<1>6. \A l \in List : Linked(l)' \subseteq Linked(l) \cup {d}
  BY <1>1, <1>2, <1>3, PushKeeps
<1>7. QED  BY <1>1, <1>2, <1>5, <1>6, HearOutside

LEMMA HearOthers ==
  ASSUME TwoStreams, HearInv, LoadedInv', NEW n \in Node,
         OthersSubscribe(n) \/ OthersUnsubscribe(n)
  PROVE  HearInv'
<1>1. /\ n \in Others /\ Outside /\ loaded' = loaded /\ UNCHANGED shown
      /\ n \notin ViewSubs
  BY OthersDo, OthersAre DEF screenVars
<1>2. PICK s \in Stream : \/ SubscribeAll(s, n)
                          \/ \E k \in Key : SubscribeKey(s, k, n)
                          \/ UnsubscribeFrom(s, n)
  BY OthersDo
<1>3. /\ RamTypeInv' /\ Len(stack') = Len(stack)
      /\ \A l \in List : Linked(l)' \subseteq Linked(l) \cup {n}
  BY <1>1, <1>2, HearFacts, OthersLists
<1>4. stack' = <<>>  BY <1>1, <1>3, StillOutside
<1>5. QED  BY <1>1, <1>3, <1>4, HearOutside

LEMMA HearStart == DisplayInit => HearInv
<1>1. SUFFICES ASSUME DisplayInit PROVE HearInv  OBVIOUS
<1>2. LoadedInv  BY <1>1, LoadedStart
<1>3. ListsInit /\ stack = <<>>
  BY <1>1 DEF DisplayInit, RamInit, EventInit
<1>4. ListsInv /\ Contents = [l \in List |-> <<>>]  BY <1>3, ListsStart
<1>5. Range(<<>>) = {}  BY DEF Range
<1>6. Linked(WatchedList) = {}
  BY <1>4, <1>5, DisplayFacts, ContentsFacts
<1>7. 1 .. Len(stack) = {}  BY <1>3
<1>8. QED  BY <1>2, <1>6, <1>7 DEF HearInv, LinkedAreLoaded

LEMMA HearStep ==
  ASSUME TwoStreams, StoresAfterLoading, OneDisplay,
         HearInv, [DisplayNext]_displayVars
  PROVE  HearInv'
<1>1. LoadedInv'  BY HearFacts, LoadedStep
<1>2. CASE ChangeBegins \/ TellOthers
  <2>1. Tell /\ loaded' = loaded
    BY <1>2 DEF ChangeBegins, TellOthers, screenVars
  <2>2. QED  BY <1>1, <2>1, HearTell
<1>3. CASE ChangeReturns \/ OtherReturns
  <2>1. CallbackReturns /\ loaded' = loaded
    BY <1>3 DEF ChangeReturns, OtherReturns, screenVars
  <2>2. QED  BY <1>1, <2>1, HearReturn
<1>4. CASE Unload  BY <1>1, <1>4, HearUnload
<1>5. CASE Load  BY <1>1, <1>5, HearLoad
<1>6. CASE (WriteGoesOn \/ WriteReturns) /\ UNCHANGED screenVars
  <2>1. loaded' = loaded  BY <1>6 DEF screenVars
  <2>2. QED  BY <1>1, <1>6, <2>1, HearGoesOn, HearWriteReturns
<1>7. ASSUME NEW n \in Node, OthersSubscribe(n) \/ OthersUnsubscribe(n)
      PROVE  HearInv'
  BY <1>1, <1>7, HearOthers
<1>8. ASSUME NEW d \in Display, InitDisplay(d)  PROVE HearInv'
  BY <1>1, <1>8, HearInitDisplay
<1>9. ASSUME UNCHANGED ramVars, loaded' = loaded  PROVE HearInv'
  <2>1. UNCHANGED <<listVars, loaded>> /\ stack' = stack
    BY <1>9 DEF ramVars, eventVars
  <2>2. \A f : \A i \in 1 .. Len(stack') :
           f = stack'[i] /\ f.event \in EventsOf(Bsp) => OnItsWay(f)
    BY <2>1 DEF HearInv, OfBsp
  <2>3. QED  BY <1>1, <2>1, <2>2, HearSameLists
<1>10. ASSUME NEW d \in Display, NEW view \in View \cup {Zero}, StoreView(d, view)
       PROVE  HearInv'
  <2>1. Write(Ram, ViewKey[d], view) /\ loaded' = loaded
    BY <1>10 DEF StoreView, screenVars
  <2>2. Ram \in Stream /\ ViewKey[d] \in Key /\ view \in Value
    BY DisplayFacts DEF ViewOrNull
  <2>3. QED  BY <1>1, <2>1, <2>2, HearWrite
<1>11. ASSUME NEW d \in Display, NEW i \in DOMAIN InputKeys[d],
              NEW data \in InputValue, Input(d, i, data)
       PROVE  HearInv'
  <2>1. contexts[i] \in Key /\ data \in Value /\ Bsp \in Stream
    BY <1>11, HearFacts, InputFacts
  <2>2. loaded' = loaded  BY <1>11 DEF Input, screenVars
  <2>3. CASE Write(Bsp, contexts[i], data)  BY <1>1, <2>1, <2>2, <2>3, HearWrite
  <2>4. CASE WriteWithoutEffect(Bsp, contexts[i], data)
    BY <1>9, <2>2, <2>4 DEF WriteWithoutEffect
  <2>5. QED  BY <1>11, <2>3, <2>4 DEF Input
<1>12. CASE UNCHANGED displayVars
  BY <1>9, <1>12 DEF displayVars, screenVars
<1>13. QED
  BY <1>2, <1>3, <1>4, <1>5, <1>6, <1>7, <1>8, <1>10, <1>11, <1>12
     DEF DisplayNext

\* No view is subscribed to the inputs, or next to be told of one, before it is
\* loaded or after it was unloaded, in a program with one display: even if it
\* is unloaded while it, or a subscriber before it, is being told.
THEOREM LoadedViewsHear ==
  ASSUME TwoStreams, StoresAfterLoading, OneDisplay
  PROVE  DisplaySpec => []OnlyLoadedViewsHear
<1>1. HearInv => OnlyLoadedViewsHear
  <2>1. SUFFICES ASSUME HearInv, NEW v \in View, Walking, Top.e = ViewSub[v]
                 PROVE  ViewSub[v] \in Linked(WatchedList)
    BY DEF OnlyLoadedViewsHear, HearInv, LinkedAreLoaded, WatchedList
  <2>2. stack # <<>> /\ ~Top.calling  BY <2>1 DEF Walking
  <2>3. WalksInv  BY <2>1, HearFacts
  <2>4. PICK i \in 1 .. Len(stack) : i = Len(stack) /\ Top = stack[i]
    BY <2>2, <2>3, TopFacts
  <2>5. ViewSub[v] \in ViewSubs /\ ViewSub[v] \in Node  BY DisplayFacts
  <2>6. Top.e # NULL  BY <2>1, <2>5, NullAssumption
  <2>7. /\ stack[i].event \in List /\ Contents[stack[i].event] \in Seq(Node)
        /\ Linked(stack[i].event) = Range(Contents[stack[i].event])
    BY <2>3, WalksFacts
  <2>8. ViewSub[v] \in Linked(stack[i].event)
    <3>1. CASE OfBsp(i)
      <4>1. OnItsWay(stack[i])  BY <2>1, <3>1 DEF HearInv
      <4>2. QED  BY <2>1, <2>2, <2>4, <2>6, <4>1 DEF OnItsWay
    <3>2. CASE ~OfBsp(i)
      <4>1. PICK s : s = Contents[stack[i].event]  OBVIOUS
      <4>2. Standing(stack[i], s)  BY <2>3, <3>2, <4>1 DEF WalksInv, OthersStand
      <4>3. stack[i].e \in Range(s)  BY <2>4, <2>6, <2>7, <4>1, <4>2, StandingFacts
      <4>4. QED  BY <2>1, <2>4, <2>7, <4>1, <4>3
    <3>3. QED  BY <3>1, <3>2
  <2>9. QED  BY <2>3, <2>5, <2>7, <2>8 DEF WalksInv, OnOwnLists
<1>2. HearInv /\ [DisplayNext]_displayVars => HearInv'  BY HearStep
<1>3. QED  BY <1>1, <1>2, HearStart, PTL DEF DisplaySpec

-----------------------------------------------------------------------------
\* What is shown: when no change is on its way to its load function.
LEMMA NoneBegun ==
  ASSUME TwoStreams, LoadedInv, AllLoaded
  PROVE  ~At("begin") /\ ~At("unload")
<1>1. SUFFICES ASSUME InChange PROVE Change.at = "load"  BY DEF At
<1>2. Len(changes) \in 1 .. Len(changes) /\ Change = changes[Len(changes)]
  BY <1>1, ChangeFacts DEF LoadedInv
<1>3. QED  BY <1>2 DEF AllLoaded

LEMMA NoneBegins ==
  ASSUME LoadedInv', AllLoaded, changes' = changes
  PROVE  ~At("begin")' /\ ~At("unload")'
<1>1. SUFFICES ASSUME InChange' PROVE Change'.at = "load"  BY DEF At
<1>2. Len(changes') \in 1 .. Len(changes')
  BY <1>1, ChangeNext DEF LoadedInv
<1>3. QED  BY <1>2 DEF AllLoaded, Change

LEMMA ShowFacts ==
  ASSUME ShowInv
  PROVE  /\ LoadedInv /\ ScreenInv /\ WalksInv /\ RamTypeInv /\ EventTypeInv
         /\ ListsInv /\ \A d \in Display : ShownBy(d)
         /\ writes \in Seq(WriteCall) /\ Len(writes) = Len(stack)
BY RamTypes DEF ShowInv, LoadedInv, ScreenInv, WalksInv, EventTypeInv

LEMMA ShowQuiet ==
  ASSUME ShowInv, NEW d \in Display,
         UNCHANGED <<loaded, shown, value, writes, listVars>>,
         Len(stack') = Len(stack),
         \A i \in 1 .. Len(stack) :
           /\ stack'[i].event = ViewList(d) /\ d \in stack'[i].due =>
                stack[i].event = ViewList(d) /\ d \in stack[i].due
           /\ stack[i].event = ViewList(d) /\ d \in stack[i].due =>
                stack'[i].event = ViewList(d) /\ d \in stack'[i].due,
         ~At("begin")', ~At("unload")',
         d \in shown /\ AboutToLoad(d) => Shows(d)
  PROVE  ShownBy(d)'
<1>1. ShownBy(d)  BY DEF ShowInv
<1>2. \A i \in 1 .. Len(stack) : Pending(i, d)' <=> Pending(i, d)
  BY DEF Pending, Of, ViewList, On
<1>3. Linked(ViewList(d))' = Linked(ViewList(d))
  BY SameLinks DEF ViewList, On
<1>4. Shows(d)' <=> Shows(d)  BY DEF Shows
<1>5. \A i : Of(i, Ram, ViewKey[d])' <=> Of(i, Ram, ViewKey[d])  BY DEF Of
<1>6. \A i \in 1 .. Len(stack') :
        Pending(i, d)' => /\ writes'[i].data = value'[Ram][ViewKey[d]]
                          /\ \A j \in i+1 .. Len(stack') : ~Of(j, Ram, ViewKey[d])'
  BY <1>1, <1>2, <1>5 DEF ShownBy
<1>7. d \in shown' =>
        /\ d \in Linked(ViewList(d))'
        /\ Shows(d)' \/ \E i \in 1 .. Len(stack') : Pending(i, d)'
  BY <1>1, <1>2, <1>3, <1>4 DEF ShownBy
<1>8. QED  BY <1>6, <1>7 DEF ShownBy

\* A step of the innermost walk that leaves the display as due as it was.
LEMMA ShowTop ==
  ASSUME ShowInv, NEW d \in Display,
         UNCHANGED <<loaded, shown, value, writes, listVars>>, stack # <<>>,
         NEW f \in Frame, stack' = [stack EXCEPT ![Len(stack)] = f],
         f.event = ViewList(d) /\ d \in f.due =>
           Top.event = ViewList(d) /\ d \in Top.due,
         Top.event = ViewList(d) /\ d \in Top.due =>
           f.event = ViewList(d) /\ d \in f.due,
         ~At("begin")', ~At("unload")',
         d \in shown /\ AboutToLoad(d) => Shows(d)
  PROVE  ShownBy(d)'
<1>1. EventTypeInv /\ Len(stack) \in 1 .. Len(stack) /\ Top = stack[Len(stack)]
  BY ShowFacts, TopFacts
<1>2. /\ Len(stack') = Len(stack) /\ stack'[Len(stack)] = f
      /\ \A i \in 1 .. Len(stack) - 1 : stack'[i] = stack[i]
  BY <1>1, Typed, ReplaceTop
<1>3. \A i \in 1 .. Len(stack) : i = Len(stack) \/ i \in 1 .. Len(stack) - 1
  BY <1>1, Typed, StackFacts, LastOrBelow, Zenon
<1>4. \A i \in 1 .. Len(stack) : i = Len(stack) \/ stack'[i] = stack[i]
  BY <1>2, <1>3, ZenonT(30)
<1>5. \A i \in 1 .. Len(stack) :
        /\ stack'[i].event = ViewList(d) /\ d \in stack'[i].due =>
             stack[i].event = ViewList(d) /\ d \in stack[i].due
        /\ stack[i].event = ViewList(d) /\ d \in stack[i].due =>
             stack'[i].event = ViewList(d) /\ d \in stack'[i].due
  BY <1>1, <1>2, <1>4
<1>6. QED  BY <1>2, <1>5, ShowQuiet

LEMMA ShowChangeBegins ==
  ASSUME TwoStreams, OneDisplay, ShowInv, LoadedInv', ChangeBegins
  PROVE  ShowInv'
<1>1. /\ Call /\ Top.e \in Display /\ stack # <<>> /\ ~Top.calling
      /\ changes' = Append(changes, [view |-> Writing.data, at |-> "begin"])
      /\ UNCHANGED <<shown, loaded, value, writes, listVars>>
  BY DEF ChangeBegins, Tell, Call, Walking
<1>2. PICK d \in Display : d = Top.e /\ Display = {d}
  BY <1>1 DEF OneDisplay
<1>3. PICK t \in 1 .. Len(stack) : t = Len(stack)  BY <1>1, ShowFacts, TopFacts
<1>4. Top = stack[t] /\ Writing = writes[t] /\ EventTypeInv /\ WalksInv
  BY <1>1, <1>3, ShowFacts, TopFacts
<1>5. /\ Pending(t, d) /\ d \in shown /\ Of(t, Ram, ViewKey[d])
  BY <1>1, <1>2, <1>3, <1>4, AtDisplay DEF Pending, ViewList
<1>6. ShownBy(d)  BY ShowFacts
<1>7. Writing.data = value[Ram][ViewKey[d]]  BY <1>3, <1>4, <1>5, <1>6 DEF ShownBy
<1>8. \A i \in 1 .. Len(stack) : Pending(i, d) => i = t
  <2>1. ASSUME NEW i \in 1 .. Len(stack), Pending(i, d), i # t  PROVE FALSE
    <3>1. t \in i+1 .. Len(stack)  BY <1>3, <2>1
    <3>2. QED  BY <1>5, <1>6, <2>1, <3>1 DEF ShownBy
  <2>2. QED  BY <2>1
<1>9. PICK f \in Frame :
        /\ f = Publishing(Top.event, Top.e, TRUE, Top.due \ {Top.e})
        /\ stack' = [stack EXCEPT ![Len(stack)] = f]
  BY <1>1, <1>4, Typed, CallStack
<1>10. f.calling /\ f.e = d /\ d \notin f.due
  BY <1>2, <1>9 DEF Publishing
<1>11. /\ Len(stack') = Len(stack) /\ stack'[t] = f
       /\ \A i \in 1 .. Len(stack) - 1 : stack'[i] = stack[i]
  BY <1>1, <1>3, <1>4, <1>9, Typed, ReplaceTop
<1>12. \A i \in 1 .. Len(stack') : ~Pending(i, d)'
  <2>1. ASSUME NEW i \in 1 .. Len(stack), Pending(i, d)'  PROVE FALSE
    <3>1. i # t  BY <1>10, <1>11, <2>1 DEF Pending
    <3>2. i \in 1 .. Len(stack) - 1  BY <1>3, <3>1
    <3>3. Pending(i, d)
      BY <1>1, <1>11, <2>1, <3>2 DEF Pending, Of, ViewList, On
    <3>4. QED  BY <1>8, <3>1, <3>3
  <2>2. QED  BY <1>11, <2>1
<1>13. InChange' /\ Top'.e = d
  <2>1. stack' # <<>>
    <3>1. stack' = <<>> => Len(stack') = 0  OBVIOUS
    <3>2. QED  BY <1>3, <1>11, <3>1
  <2>2. QED  BY <1>3, <1>10, <1>11, <2>1 DEF InChange, InCallback, Top
<1>14. Change'.at = "begin" /\ Change'.view = Writing.data
  <2>1. changes \in Seq(ChangeCall)  BY ShowFacts DEF ScreenInv, ScreenTypes
  <2>2. PICK c : c = [view |-> Writing.data, at |-> "begin"]  OBVIOUS
  <2>3. changes' = Append(changes, c) /\ c.at = "begin" /\ c.view = Writing.data
    BY <1>1, <2>2
  <2>4. changes'[Len(changes')] = c  BY <2>1, <2>3
  <2>5. QED  BY <2>3, <2>4 DEF Change
<1>15. AboutToLoad(d)'
  BY <1>1, <1>7, <1>13, <1>14 DEF AboutToLoad, At
<1>16. d \in Linked(ViewList(d))'
  <2>1. d \in Linked(ViewList(d))  BY <1>5, <1>6 DEF ShownBy
  <2>2. QED  BY <1>1, <2>1, SameLinks DEF ViewList, On
<1>17. ShownBy(d)'  BY <1>12, <1>15, <1>16 DEF ShownBy
<1>18. QED  BY <1>2, <1>17 DEF ShowInv

LEMMA ShowTellOthers ==
  ASSUME TwoStreams, ShowInv, LoadedInv', TellOthers
  PROVE  ShowInv'
<1>1. /\ Call /\ Top.e \notin Display /\ stack # <<>> /\ ~Top.calling
      /\ changes' = changes
      /\ UNCHANGED <<loaded, shown, value, writes, listVars>>
  BY DEF TellOthers, Tell, Call, Walking, screenVars
<1>2. EventTypeInv /\ LoadedInv  BY ShowFacts
<1>3. AllLoaded  BY <1>1, <1>2, NotInChange DEF InChange, InCallback
<1>4. /\ ~At("begin") /\ ~At("unload") /\ ~At("begin")' /\ ~At("unload")'
  BY <1>1, <1>2, <1>3, NoneBegun, NoneBegins
<1>5. PICK f \in Frame :
        /\ f = Publishing(Top.event, Top.e, TRUE, Top.due \ {Top.e})
        /\ stack' = [stack EXCEPT ![Len(stack)] = f]
  BY <1>1, <1>2, Typed, CallStack
<1>6. f.event = Top.event /\ f.due = Top.due \ {Top.e}  BY <1>5 DEF Publishing
<1>7. ASSUME NEW d \in Display  PROVE ShownBy(d)'
  <2>1. d # Top.e  BY <1>1
  <2>2. ~AboutToLoad(d)  BY <1>4 DEF AboutToLoad
  <2>3. QED  BY <1>1, <1>4, <1>5, <1>6, <2>1, <2>2, ShowTop
<1>8. QED  BY <1>7 DEF ShowInv

LEMMA ShowOtherReturns ==
  ASSUME TwoStreams, ShowInv, LoadedInv', OtherReturns
  PROVE  ShowInv'
<1>1. /\ Return /\ stack # <<>> /\ ~InChange /\ changes' = changes
      /\ UNCHANGED <<loaded, shown, value, writes, listVars>>
  BY DEF OtherReturns, CallbackReturns, Return, InCallback, screenVars
<1>2. EventTypeInv /\ LoadedInv  BY ShowFacts
<1>3. AllLoaded  BY <1>1, <1>2, NotInChange
<1>4. /\ ~At("begin") /\ ~At("unload") /\ ~At("begin")' /\ ~At("unload")'
  BY <1>1, <1>2, <1>3, NoneBegun, NoneBegins
<1>5. PICK f \in Frame :
        /\ f = Publishing(Top.event, next[Top.e], FALSE, Top.due)
        /\ stack' = [stack EXCEPT ![Len(stack)] = f]
  BY <1>1, <1>2, Typed, ReturnStack
<1>6. f.event = Top.event /\ f.due = Top.due  BY <1>5 DEF Publishing
<1>7. ASSUME NEW d \in Display  PROVE ShownBy(d)'
  <2>1. ~AboutToLoad(d)  BY <1>4 DEF AboutToLoad
  <2>2. QED  BY <1>1, <1>4, <1>5, <1>6, <2>1, ShowTop
<1>8. QED  BY <1>7 DEF ShowInv

\* A change that returns has loaded its view, or was told to load none.
LEMMA ShowChangeReturns ==
  ASSUME ShowInv, LoadedInv', ChangeReturns
  PROVE  ShowInv'
<1>1. /\ InChange /\ Return /\ stack # <<>>
      /\ At("load") \/ (Unloaded /\ Change.view = Zero)
      /\ UNCHANGED <<loaded, shown, value, writes, listVars>>
  BY DEF ChangeReturns, Unloaded, At, CallbackReturns, Return, InChange, InCallback
<1>2. EventTypeInv /\ LoadedInv /\ ScreenInv  BY ShowFacts
<1>3. PICK f \in Frame :
        /\ f = Publishing(Top.event, next[Top.e], FALSE, Top.due)
        /\ stack' = [stack EXCEPT ![Len(stack)] = f]
  BY <1>1, <1>2, Typed, ReturnStack
<1>4. f.event = Top.event /\ f.due = Top.due /\ f.calling = FALSE
  BY <1>3 DEF Publishing
<1>5. ~At("begin")' /\ ~At("unload")'
  <2>1. Len(stack') = Len(stack) /\ stack'[Len(stack)] = f
    BY <1>1, <1>2, <1>3, Typed, ReplaceTop
  <2>2. QED  BY <1>4, <2>1 DEF At, InChange, InCallback, Top
<1>6. ASSUME NEW d \in Display  PROVE ShownBy(d)'
  <2>1. ASSUME AboutToLoad(d)  PROVE Shows(d)
    <3>1. /\ Change.at \in {"begin", "unload"} /\ Top.e = d
          /\ Change.view = value[Ram][ViewKey[d]]
      BY <2>1 DEF AboutToLoad, At
    <3>2. Unloaded /\ Change.view = Zero  BY <1>1, <3>1 DEF At
    <3>3. loaded[d] = {}
      <4>1. CASE At("unload")  BY <1>2, <3>1, <4>1 DEF LoadedInv
      <4>2. CASE current_view[d] = Zero
        <5>1. loaded \in [Display -> SUBSET View]
          BY <1>2 DEF ScreenInv, ScreenTypes
        <5>2. loaded[d] \subseteq {Zero} /\ loaded[d] \subseteq View
          BY <1>2, <4>2, <5>1 DEF LoadedInv
        <5>3. QED  BY <5>2, DisplayFacts
      <4>3. QED  BY <3>1, <3>2, <4>1, <4>2 DEF Unloaded
    <3>4. QED  BY <3>1, <3>2, <3>3 DEF Shows
  <2>2. QED  BY <1>1, <1>3, <1>4, <1>5, <2>1, ShowTop
<1>7. QED  BY <1>6 DEF ShowInv

\* A walk that is done owes the display nothing.
LEMMA ShowGoesOn ==
  ASSUME TwoStreams, ShowInv, LoadedInv', WriteGoesOn, UNCHANGED screenVars
  PROVE  ShowInv'
<1>1. /\ stack # <<>> /\ ~Top.calling /\ Top.e = NULL /\ changes' = changes
      /\ UNCHANGED <<loaded, shown, value, writes, listVars>>
  BY DEF WriteGoesOn, Walking, screenVars
<1>2. EventTypeInv /\ LoadedInv /\ WalksInv  BY ShowFacts
<1>3. ~InChange  BY <1>1 DEF InChange, InCallback
<1>4. AllLoaded  BY <1>2, <1>3, NotInChange
<1>5. /\ ~At("begin") /\ ~At("unload") /\ ~At("begin")' /\ ~At("unload")'
  BY <1>1, <1>2, <1>4, NoneBegun, NoneBegins
<1>6. PICK t \in 1 .. Len(stack) : t = Len(stack) /\ Top = stack[t]
  BY <1>1, <1>2, TopFacts
<1>7. Writing.stream \in Stream  BY <1>1, <1>2, TopFacts
<1>8. PICK l \in List : l = AllOf(Writing.stream)  BY <1>7, StreamFacts
<1>9. PICK f \in Frame :
        /\ f = Publishing(l, head[l], FALSE, Linked(l))
        /\ stack' = [stack EXCEPT ![Len(stack)] = f]
  BY <1>2, <1>8, Typed, BegunFrame DEF WriteGoesOn, TopBecomes
<1>10. f.event = l  BY <1>9 DEF Publishing
<1>11. ASSUME NEW d \in Display  PROVE ShownBy(d)'
  <2>1. ~AboutToLoad(d)  BY <1>5 DEF AboutToLoad
  <2>2. l # ViewList(d)  BY <1>8 DEF ViewList, On, AllOf
  <2>3. Top.event = ViewList(d) => Top.due = {}
    <3>1. SUFFICES ASSUME Top.event = ViewList(d)  PROVE Top.due = {}  OBVIOUS
    <3>2. ~OfBsp(t)  BY <1>6, <3>1, StreamsApart DEF OfBsp, ViewList
    <3>3. PICK s : s = Contents[stack[t].event]  OBVIOUS
    <3>4. Standing(stack[t], s)  BY <1>2, <3>2, <3>3 DEF WalksInv, OthersStand
    <3>5. QED  BY <1>1, <1>6, <3>4 DEF Standing
  <2>4. QED  BY <1>1, <1>5, <1>9, <1>10, <2>1, <2>2, <2>3, ShowTop
<1>12. QED  BY <1>11 DEF ShowInv

LEMMA ShowWriteReturns ==
  ASSUME TwoStreams, ShowInv, LoadedInv', WriteReturns, UNCHANGED screenVars
  PROVE  ShowInv'
<1>1. /\ stack # <<>> /\ ~Top.calling /\ ToAll /\ changes' = changes
      /\ UNCHANGED <<loaded, shown, value, listVars>>
  BY DEF WriteReturns, PublishReturns, Walking, screenVars
<1>2. EventTypeInv /\ LoadedInv /\ WalksInv /\ RamTypeInv  BY ShowFacts
<1>3. ~InChange  BY <1>1 DEF InChange, InCallback
<1>4. AllLoaded  BY <1>2, <1>3, NotInChange
<1>5. /\ ~At("begin") /\ ~At("unload") /\ ~At("begin")' /\ ~At("unload")'
  BY <1>1, <1>2, <1>4, NoneBegun, NoneBegins
<1>6. stack[Len(stack)].event = AllOf(Writing.stream)
  BY <1>1, <1>2, TopFacts DEF ToAll
<1>7. PICK m \in Nat : EndsAfter(m)  BY <1>2, RamTyped, PopStacks
<1>8. /\ Len(stack') = m /\ m = Len(stack) - 1 /\ Len(stack) \in Nat
      /\ \A i \in 1 .. m :
           stack'[i] = stack[i] /\ writes'[i] = writes[i] /\ i \in 1 .. Len(stack)
      /\ \A i \in 1 .. Len(stack) : i = Len(stack) \/ i \in 1 .. m
  BY <1>2, <1>7, RamTypes, Typed, StackFacts DEF EndsAfter
<1>9. ASSUME NEW d \in Display  PROVE ShownBy(d)'
  <2>1. ShownBy(d) /\ ~AboutToLoad(d)  BY <1>5, ShowFacts DEF AboutToLoad
  <2>2. ~Pending(Len(stack), d)
    BY <1>6 DEF Pending, ViewList, On, AllOf
  <2>3. \A i \in 1 .. m : Pending(i, d)' <=> Pending(i, d)
    BY <1>8 DEF Pending, Of, ViewList, On
  <2>4. \A i \in 1 .. m : Of(i, Ram, ViewKey[d])' <=> Of(i, Ram, ViewKey[d])
    BY <1>8 DEF Of
  <2>5. ASSUME NEW i \in 1 .. Len(stack'), Pending(i, d)'
        PROVE  /\ writes'[i].data = value'[Ram][ViewKey[d]]
               /\ \A j \in i+1 .. Len(stack') : ~Of(j, Ram, ViewKey[d])'
    <3>1. i \in 1 .. m /\ i \in 1 .. Len(stack) /\ Pending(i, d)
      BY <1>8, <2>3, <2>5
    <3>2. /\ writes[i].data = value[Ram][ViewKey[d]]
          /\ \A j \in i+1 .. Len(stack) : ~Of(j, Ram, ViewKey[d])
      BY <2>1, <3>1 DEF ShownBy
    <3>3. \A j \in i+1 .. m : j \in 1 .. m /\ j \in i+1 .. Len(stack)
      BY <1>8, <3>1
    <3>4. QED  BY <1>1, <1>8, <2>4, <3>1, <3>2, <3>3
  <2>6. ASSUME d \in shown'
        PROVE  /\ d \in Linked(ViewList(d))'
               /\ Shows(d)' \/ \E i \in 1 .. Len(stack') : Pending(i, d)'
    <3>1. d \in Linked(ViewList(d))'
      BY <1>1, <2>1, <2>6, SameLinks DEF ShownBy, ViewList, On
    <3>2. Shows(d) => Shows(d)'  BY <1>1 DEF Shows
    <3>3. ASSUME NEW i \in 1 .. Len(stack), Pending(i, d)
          PROVE  i \in 1 .. Len(stack') /\ Pending(i, d)'
      <4>1. i # Len(stack)  BY <2>2, <3>3
      <4>2. i \in 1 .. m  BY <1>8, <4>1
      <4>3. QED  BY <1>8, <2>3, <3>3, <4>2
    <3>4. QED  BY <1>1, <2>1, <2>6, <3>1, <3>2, <3>3 DEF ShownBy
  <2>7. QED  BY <1>5, <2>5, <2>6 DEF ShownBy
<1>10. QED  BY <1>9 DEF ShowInv

\* A step within a change leaves what is due on the list of the display alone.
LEMMA ShowWithin ==
  ASSUME TwoStreams, ShowInv, NEW d \in Display,
         UNCHANGED <<shown, value, writes>>, Len(stack') = Len(stack),
         \A i \in 1 .. Len(stack) :
           /\ stack'[i].event = stack[i].event
           /\ stack[i].event = ViewList(d) => stack'[i].due = stack[i].due,
         d \in Linked(ViewList(d)) => d \in Linked(ViewList(d))',
         At("begin")' \/ At("unload")' => AboutToLoad(d)',
         AboutToLoad(d), Shows(d)' \/ AboutToLoad(d)'
  PROVE  ShownBy(d)'
<1>1. ShownBy(d)  BY ShowFacts
<1>2. \A i \in 1 .. Len(stack) : Pending(i, d)' <=> Pending(i, d)
  BY DEF Pending, Of, ViewList, On
<1>3. \A i : Of(i, Ram, ViewKey[d])' <=> Of(i, Ram, ViewKey[d])  BY DEF Of
<1>4. \A i \in 1 .. Len(stack') :
        Pending(i, d)' => /\ writes'[i].data = value'[Ram][ViewKey[d]]
                          /\ \A j \in i+1 .. Len(stack') : ~Of(j, Ram, ViewKey[d])'
  BY <1>1, <1>2, <1>3 DEF ShownBy
<1>5. QED  BY <1>1, <1>4 DEF ShownBy

LEMMA ShowUnload ==
  ASSUME TwoStreams, OneDisplay, ShowInv, LoadedInv', Unload
  PROVE  ShowInv'
<1>1. LoadedInv /\ ScreenInv /\ RamTypeInv /\ ListsInv  BY ShowFacts
<1>2. PICK n \in ViewSubs : n = ViewSub[current_view[Top.e]]
  BY <1>1, UnloadFacts
<1>3. /\ InChange /\ Change.at = "begin" /\ n \in Node
      /\ UnsubscribedFrom(Bsp, n) /\ GoTo("unload") /\ shown' = shown
  BY <1>1, <1>2, UnloadFacts
<1>4. PICK d \in Display : d = Top.e /\ Display = {d}
  BY <1>3 DEF OneDisplay, InChange
<1>5. /\ Len(stack) \in 1 .. Len(stack) /\ Len(changes) \in 1 .. Len(changes)
      /\ Change = changes[Len(changes)]
  BY <1>1, <1>3, ChangeFacts
<1>6. /\ Len(stack') = Len(stack) /\ value' = value /\ writes' = writes
      /\ \A i \in 1 .. Len(stack) :
           /\ stack'[i].event = stack[i].event /\ stack'[i].e = stack[i].e
           /\ stack'[i].calling = stack[i].calling
           /\ ~OfBsp(i) => stack'[i].due = stack[i].due
  BY <1>1, <1>3, WalksGone
<1>7. AboutToLoad(d)
  BY <1>3, <1>4, ShowFacts DEF ShownBy, At
<1>8. AboutToLoad(d)'
  <2>1. InChange' /\ Top'.e = Top.e  BY <1>3, <1>5, <1>6, InChangeStays
  <2>2. /\ Len(changes') = Len(changes) /\ changes'[Len(changes)].at = "unload"
        /\ changes'[Len(changes)].view = changes[Len(changes)].view
    BY <1>1, <1>3, <1>5, GoToFacts
  <2>3. Change'.at = "unload" /\ Change'.view = Change.view
    BY <1>5, <2>2 DEF Change
  <2>4. QED  BY <1>4, <1>6, <1>7, <2>1, <2>3 DEF AboutToLoad, At
<1>9. d \in Linked(ViewList(d)) => d \in Linked(ViewList(d))'
  <2>1. d # n /\ ViewList(d) \in List /\ EventsOf(Bsp) \in SUBSET List
    BY <1>4, DisplayFacts DEF ViewList
  <2>2. DeletedWherever(EventsOf(Bsp), n)
    BY <1>3 DEF UnsubscribedFrom, EventsSearched
  <2>3. PICK l \in List : l = ViewList(d)  BY <2>1
  <2>4. Linked(l) \ {n} \subseteq Linked(l)'
    BY <1>1, <1>3, <2>1, <2>2, LinkedAfterUnsubscribing
  <2>5. QED  BY <2>1, <2>3, <2>4 DEF ViewList, On
<1>10. \A i \in 1 .. Len(stack) :
         stack[i].event = ViewList(d) => stack'[i].due = stack[i].due
  BY <1>6, StreamsApart DEF OfBsp, ViewList
<1>11. ShownBy(d)'
  BY <1>3, <1>6, <1>7, <1>8, <1>9, <1>10, ShowWithin
<1>12. QED  BY <1>4, <1>11 DEF ShowInv

LEMMA ShowLoad ==
  ASSUME TwoStreams, OneDisplay, ShowInv, LoadedInv', Load
  PROVE  ShowInv'
<1>1. LoadedInv /\ ScreenInv /\ RamTypeInv /\ ListsInv  BY ShowFacts
<1>2. PICK n \in ViewSubs : n = ViewSub[Change.view]
  BY <1>1, LoadFacts
<1>3. /\ InChange /\ Unloaded /\ Change.view \in View /\ n \in Node
      /\ KeySubscribed(Bsp, Watched, n) /\ GoTo("load") /\ shown' = shown
      /\ loaded'[Top.e] = {Change.view}
  BY <1>1, <1>2, LoadFacts, LoadedLoad
<1>4. PICK d \in Display : d = Top.e /\ Display = {d}
  BY <1>3 DEF OneDisplay, InChange
<1>5. /\ Len(stack) \in 1 .. Len(stack) /\ Len(changes) \in 1 .. Len(changes)
      /\ Watched \in Key /\ Bsp \in Stream /\ WatchedList \in List
  BY <1>1, <1>3, ChangeFacts, DisplayFacts
<1>6. /\ Len(stack') = Len(stack) /\ value' = value /\ writes' = writes
      /\ \A i \in 1 .. Len(stack) :
           /\ stack'[i].event = stack[i].event
           /\ stack[i].event # WatchedList => stack'[i].due = stack[i].due
  BY <1>1, <1>3, <1>5, WalksJoined DEF WatchedList
<1>7. AboutToLoad(d)
  BY <1>3, <1>4, ShowFacts DEF ShownBy, Unloaded, At
<1>8. Shows(d)'
  <2>1. Change.view = value[Ram][ViewKey[d]] /\ Change.view # Zero
    BY <1>3, <1>7, DisplayFacts DEF AboutToLoad
  <2>2. QED  BY <1>3, <1>4, <1>6, <2>1 DEF Shows
<1>9. ~At("begin")' /\ ~At("unload")'
  <2>1. Len(changes') = Len(changes) /\ changes'[Len(changes)].at = "load"
    BY <1>1, <1>3, GoToFacts
  <2>2. QED  BY <2>1 DEF At, Change
<1>10. d \in Linked(ViewList(d)) => d \in Linked(ViewList(d))'
  <2>1. PICK l \in List : l = ViewList(d)  BY <1>4, DisplayFacts DEF ViewList
  <2>2. Push(WatchedList, n)
    BY <1>3 DEF KeySubscribed, Subscribed, WatchedList
  <2>3. Linked(l) \subseteq Linked(l)'  BY <1>1, <1>3, <1>5, <2>2, PushKeeps
  <2>4. QED  BY <2>1, <2>3 DEF ViewList, On
<1>11. \A i \in 1 .. Len(stack) :
         stack[i].event = ViewList(d) => stack'[i].due = stack[i].due
  BY <1>6, StreamsApart DEF ViewList
<1>12. ShownBy(d)'
  BY <1>3, <1>6, <1>7, <1>8, <1>9, <1>10, <1>11, ShowWithin
<1>13. QED  BY <1>4, <1>12 DEF ShowInv

\* Subscriptions that are made and ended while no write is under way.
LEMMA ShowOutside ==
  ASSUME TwoStreams, ShowInv, LoadedInv', Outside, stack' = <<>>,
         value' = value, changes' = changes, NEW d \in Display,
         d \in shown' => d \in Linked(ViewList(d))',
         d \in shown' /\ d \notin shown => Shows(d)',
         d \in shown' => loaded'[d] = loaded[d]
  PROVE  ShownBy(d)'
<1>1. LoadedInv /\ ShownBy(d)  BY ShowFacts
<1>2. AllLoaded  BY <1>1, NotInChange DEF Outside, InChange, InCallback
<1>3. /\ ~At("begin") /\ ~At("unload") /\ ~At("begin")' /\ ~At("unload")'
  BY <1>1, <1>2, NoneBegun, NoneBegins
<1>4. 1 .. Len(stack) = {} /\ 1 .. Len(stack') = {}  BY DEF Outside
<1>5. d \in shown => Shows(d)  BY <1>1, <1>3, <1>4 DEF ShownBy, AboutToLoad
<1>6. d \in shown' => Shows(d)'  BY <1>5 DEF Shows
<1>7. QED  BY <1>3, <1>4, <1>6 DEF ShownBy

LEMMA ShowInitDisplay ==
  ASSUME TwoStreams, OneDisplay, ~InitLate, ShowInv, LoadedInv',
         NEW d \in Display, InitDisplay(d)
  PROVE  ShowInv'
<1>1. /\ Outside /\ d \notin shown /\ value[Ram][ViewKey[d]] = Zero
      /\ KeySubscribed(Ram, ViewKey[d], d) /\ Push(ViewList(d), d)
      /\ shown' = shown \cup {d} /\ changes' = changes /\ loaded' = loaded
  BY DEF InitDisplay, KeySubscribed, Subscribed, ViewList
<1>2. /\ d \in Node /\ Ram \in Stream /\ ViewKey[d] \in Key /\ Display = {d}
  BY DisplayFacts DEF OneDisplay
<1>3. RamTypeInv /\ ListsInv /\ LoadedInv  BY ShowFacts
<1>4. RamTypeInv' /\ Len(stack') = Len(stack) /\ value' = value
  BY <1>1, <1>2, <1>3, TypeKeySubscribed, WalksJoined
<1>5. stack' = <<>>  BY <1>1, <1>4, StillOutside
<1>6. d \in Linked(ViewList(d))'
  <2>1. PICK l \in List : l = ViewList(d)  BY DisplayFacts DEF ViewList
  <2>2. d \in Linked(l)'  BY <1>1, <1>2, <1>3, <2>1, PushLinked
  <2>3. QED  BY <2>1, <2>2 DEF ViewList, On
<1>7. loaded[d] = {}  BY <1>1, <1>3 DEF LoadedInv
<1>8. Shows(d)'  BY <1>1, <1>4, <1>7 DEF Shows
<1>9. ShownBy(d)'  BY <1>1, <1>4, <1>5, <1>6, <1>8, ShowOutside
<1>10. QED  BY <1>2, <1>9 DEF ShowInv

LEMMA ShowOthers ==
  ASSUME TwoStreams, ShowInv, LoadedInv', NEW n \in Node,
         OthersSubscribe(n) \/ OthersUnsubscribe(n)
  PROVE  ShowInv'
<1>1. /\ n \in Others /\ Outside /\ n \notin Display
      /\ loaded' = loaded /\ shown' = shown /\ changes' = changes
  BY OthersDo, OthersAre DEF screenVars
<1>2. PICK s \in Stream : \/ SubscribeAll(s, n)
                          \/ \E k \in Key : SubscribeKey(s, k, n)
                          \/ UnsubscribeFrom(s, n)
  BY OthersDo
<1>3. /\ RamTypeInv' /\ Len(stack') = Len(stack) /\ value' = value
      /\ \A l \in List : Linked(l) \ {n} \subseteq Linked(l)'
  BY <1>1, <1>2, ShowFacts, OthersLists
<1>4. stack' = <<>>  BY <1>1, <1>3, StillOutside
<1>5. ASSUME NEW d \in Display  PROVE ShownBy(d)'
  <2>1. PICK l \in List : l = ViewList(d)  BY DisplayFacts DEF ViewList
  <2>2. d \in shown => d \in Linked(l)  BY <2>1, ShowFacts DEF ShownBy
  <2>3. d \in shown => d \in Linked(l)'  BY <1>1, <1>3, <2>2
  <2>4. d \in shown' => d \in Linked(ViewList(d))'
    BY <1>1, <2>1, <2>3 DEF ViewList, On
  <2>5. QED  BY <1>1, <1>3, <1>4, <2>4, ShowOutside
<1>6. QED  BY <1>5 DEF ShowInv

\* The display that is being called is not due any more.
LEMMA CalledIsNotDue ==
  ASSUME NEW h, NEW nx, NEW s \in Seq(Node), IsChain(s, h, nx),
         NEW f, f.e # NULL, f.calling = TRUE, Standing(f, s)
  PROVE  f.e \notin f.due
<1>1. PICK p \in 1 .. Len(s) : s[p] = f.e /\ f.due = From(s, p+1)
  BY DEF Standing
<1>2. \A q \in 1 .. Len(s) : s[q] = s[p] => q = p
  BY DEF IsChain, IsInjective
<1>3. \A q \in p+1 .. Len(s) : q \in 1 .. Len(s) /\ q # p  OBVIOUS
<1>4. QED  BY <1>1, <1>2, <1>3 DEF From

\* Whenever a view is stored, the display is due in no write of one.
LEMMA NonePending ==
  ASSUME TwoStreams, OneDisplay, StoresAfterLoading, ShowInv,
         NEW d \in Display, NEW view \in ViewOrNull, StoreView(d, view)
  PROVE  \A i \in 1 .. Len(stack) : ~Pending(i, d)
<1>1. Len(writes) = Len(stack) /\ WalksInv /\ LoadedInv /\ ScreenInv /\ ShownBy(d)
  BY ShowFacts
<1>2. CASE Outside \/ ~BeingWritten(Ram, ViewKey[d])
  <2>1. DOMAIN writes = 1 .. Len(stack)  BY <1>1, ShowFacts
  <2>2. \A i \in 1 .. Len(stack) : ~Of(i, Ram, ViewKey[d])
    BY <1>2, <2>1 DEF Outside, BeingWritten, Of
  <2>3. QED  BY <2>2 DEF Pending
<1>3. CASE \E place \in StoresIn : At(place)
  <2>1. InChange  BY <1>3 DEF At
  <2>2. PICK t \in 1 .. Len(stack) : t = Len(stack) /\ Top = stack[t]
    BY <1>1, <2>1, ChangeFacts
  <2>3. stack[t].e = d /\ stack[t].calling = TRUE
    <3>1. Top.e = d /\ Top.calling
      BY <2>1 DEF OneDisplay, InChange, InCallback
    <3>2. Top.calling \in BOOLEAN  BY <1>1, <2>2, WalksFacts
    <3>3. QED  BY <2>2, <3>1, <3>2
  <2>4. Of(t, Ram, ViewKey[d]) /\ ~OfBsp(t)  BY <1>1, <2>3, AtDisplay
  <2>5. d \notin stack[t].due
    <3>1. PICK s : s = Contents[stack[t].event]  OBVIOUS
    <3>2. /\ s \in Seq(Node) /\ IsChain(s, head[stack[t].event], next)
          /\ stack[t].e # NULL
      BY <1>1, <2>3, <3>1, WalksFacts
    <3>3. Standing(stack[t], s)  BY <1>1, <2>4, <3>1 DEF WalksInv, OthersStand
    <3>4. QED  BY <2>3, <3>2, <3>3, CalledIsNotDue
  <2>6. ASSUME NEW i \in 1 .. Len(stack), Pending(i, d)  PROVE FALSE
    <3>1. i # t  BY <2>5, <2>6 DEF Pending
    <3>2. t \in i+1 .. Len(stack)  BY <2>2, <3>1
    <3>3. QED  BY <1>1, <2>4, <2>6, <3>2 DEF ShownBy
  <2>7. QED  BY <2>6
<1>4. QED  BY <1>2, <1>3 DEF StoreView

LEMMA ShowStoreView ==
  ASSUME TwoStreams, OneDisplay, StoresAfterLoading, ShowInv, LoadedInv',
         NEW d \in Display, NEW view \in ViewOrNull, StoreView(d, view)
  PROVE  ShowInv'
<1>1. /\ Write(Ram, ViewKey[d], view) /\ UNCHANGED listVars
      /\ changes' = changes /\ shown' = shown
      /\ value' = [value EXCEPT ![Ram][ViewKey[d]] = view]
  BY DEF StoreView, Write, Publish, screenVars
<1>2. /\ Ram \in Stream /\ ViewKey[d] \in Key /\ view \in Value /\ Display = {d}
  BY DisplayFacts DEF OneDisplay
<1>3. RamTypeInv /\ LoadedInv /\ ShownBy(d)  BY ShowFacts
<1>4. value'[Ram][ViewKey[d]] = view
  <2>1. value \in [Stream -> [Key -> Value]]  BY <1>3, RamTypes
  <2>2. QED  BY <1>1, <1>2, <2>1
<1>5. AllLoaded  BY <1>3, StoredAfterLoading
<1>6. ~At("begin")' /\ ~At("unload")'  BY <1>1, <1>5, NoneBegins
<1>7. PICK m \in Nat, f \in Frame : BeginsAt(m, f, Ram, ViewKey[d], view)
  BY <1>1, <1>2, <1>3, RamTyped, WriteStacks
<1>8. /\ Len(stack') = m /\ stack'[m] = f /\ m \in 1 .. m
      /\ f.event = ViewList(d) /\ f.due = Linked(ViewList(d))
      /\ writes'[m].stream = Ram /\ writes'[m].key = ViewKey[d]
      /\ writes'[m].data = view
      /\ \A i \in 1 .. Len(stack) : stack'[i] = stack[i] /\ writes'[i] = writes[i]
      /\ \A i \in 1 .. m : i = m \/ i \in 1 .. Len(stack)
  BY <1>7 DEF BeginsAt, ViewList
<1>9. \A i \in 1 .. Len(stack) : ~Pending(i, d)'
  BY <1>8, NonePending DEF Pending, Of, ViewList, On
<1>10. ASSUME NEW i \in 1 .. Len(stack'), Pending(i, d)'
       PROVE  /\ writes'[i].data = value'[Ram][ViewKey[d]]
              /\ \A j \in i+1 .. Len(stack') : ~Of(j, Ram, ViewKey[d])'
  <2>1. i = m  BY <1>8, <1>9, <1>10
  <2>2. \A j \in m+1 .. m : FALSE  OBVIOUS
  <2>3. QED  BY <1>4, <1>8, <2>1, <2>2
<1>11. d \in shown' => /\ d \in Linked(ViewList(d))'
                       /\ m \in 1 .. Len(stack') /\ Pending(m, d)'
  <2>1. SUFFICES ASSUME d \in shown
                 PROVE  /\ d \in Linked(ViewList(d))'
                        /\ m \in 1 .. Len(stack') /\ Pending(m, d)'
    BY <1>1
  <2>2. d \in Linked(ViewList(d))  BY <1>3, <2>1 DEF ShownBy
  <2>3. d \in Linked(ViewList(d))'
    BY <1>1, <2>2, SameLinks DEF ViewList, On
  <2>4. Pending(m, d)'
    BY <1>8, <2>2 DEF Pending, Of, ViewList, On
  <2>5. QED  BY <1>8, <2>3, <2>4
<1>12. ShownBy(d)'  BY <1>6, <1>10, <1>11 DEF ShownBy
<1>13. QED  BY <1>2, <1>12 DEF ShowInv

LEMMA ShowInput ==
  ASSUME TwoStreams, ShowInv, LoadedInv', NEW k \in Key, NEW data \in Value,
         Outside, Write(Bsp, k, data), UNCHANGED screenVars
  PROVE  ShowInv'
<1>1. /\ UNCHANGED listVars
      /\ loaded' = loaded /\ changes' = changes /\ shown' = shown
      /\ value' = [value EXCEPT ![Bsp][k] = data]
  BY DEF Write, Publish, screenVars
<1>2. RamTypeInv /\ LoadedInv /\ Bsp \in Stream /\ Ram \in Stream
  BY ShowFacts, DisplayFacts
<1>3. AllLoaded  BY <1>2, NotInChange DEF Outside, InChange, InCallback
<1>4. /\ ~At("begin") /\ ~At("unload") /\ ~At("begin")' /\ ~At("unload")'
  BY <1>1, <1>2, <1>3, NoneBegun, NoneBegins
<1>5. value'[Ram] = value[Ram]
  <2>1. value \in [Stream -> [Key -> Value]]  BY <1>2, RamTypes
  <2>2. QED  BY <1>1, <1>2, <2>1 DEF TwoStreams
<1>6. 1 .. Len(stack) = {}  BY DEF Outside
<1>7. PICK m \in Nat, f \in Frame : BeginsAt(m, f, Bsp, k, data)
  BY <1>2, RamTyped, WriteStacks
<1>8. /\ Len(stack') = m /\ writes'[m].stream = Bsp
      /\ \A i \in 1 .. m : i = m
  BY <1>6, <1>7 DEF BeginsAt
<1>9. ASSUME NEW d \in Display  PROVE ShownBy(d)'
  <2>1. \A i \in 1 .. Len(stack') : ~Pending(i, d)'
    BY <1>8 DEF Pending, Of, TwoStreams
  <2>2. d \in shown => d \in Linked(ViewList(d)) /\ Shows(d)
    BY <1>4, <1>6, ShowFacts DEF ShownBy, AboutToLoad
  <2>3. d \in shown => d \in Linked(ViewList(d))' /\ Shows(d)'
    BY <1>1, <1>5, <2>2, SameLinks DEF ViewList, On, Shows
  <2>4. QED  BY <1>1, <1>4, <2>1, <2>3 DEF ShownBy
<1>10. QED  BY <1>9 DEF ShowInv

LEMMA ShowSame ==
  ASSUME TwoStreams, ShowInv, LoadedInv', UNCHANGED ramVars, UNCHANGED screenVars
  PROVE  ShowInv'
<1>1. /\ UNCHANGED <<loaded, shown, changes, value, writes, listVars>>
      /\ stack' = stack
  BY DEF ramVars, eventVars, screenVars
<1>2. /\ (At("begin")' <=> At("begin")) /\ (At("unload")' <=> At("unload"))
      /\ Top' = Top /\ Change' = Change
  BY <1>1 DEF At, InChange, InCallback, Top, Change
<1>3. ASSUME NEW d \in Display  PROVE ShownBy(d)'
  <2>1. \A i : (Pending(i, d)' <=> Pending(i, d))
               /\ (Of(i, Ram, ViewKey[d])' <=> Of(i, Ram, ViewKey[d]))
    BY <1>1 DEF Pending, Of, ViewList, On
  <2>2. AboutToLoad(d)' <=> AboutToLoad(d)  BY <1>1, <1>2 DEF AboutToLoad
  <2>3. /\ Shows(d)' <=> Shows(d)
        /\ Linked(ViewList(d))' = Linked(ViewList(d))
    BY <1>1, SameLinks DEF Shows, ViewList, On
  <2>4. QED  BY <1>1, <1>2, <2>1, <2>2, <2>3, ShowFacts DEF ShownBy
<1>4. QED  BY <1>3 DEF ShowInv

LEMMA ShowStart == DisplayInit => ShowInv
<1>1. SUFFICES ASSUME DisplayInit PROVE ShowInv  OBVIOUS
<1>2. LoadedInv  BY <1>1, LoadedStart
<1>3. stack = <<>> /\ shown = {}
  BY <1>1 DEF DisplayInit, RamInit, EventInit
<1>4. 1 .. Len(stack) = {} /\ \A place : ~At(place)
  BY <1>3 DEF At, InChange, InCallback
<1>5. QED  BY <1>2, <1>3, <1>4 DEF ShowInv, ShownBy

LEMMA ShowStep ==
  ASSUME TwoStreams, StoresAfterLoading, OneDisplay, ~InitLate,
         ShowInv, [DisplayNext]_displayVars
  PROVE  ShowInv'
<1>1. LoadedInv'  BY ShowFacts, LoadedStep
<1>2. CASE ChangeBegins \/ Unload \/ Load \/ ChangeReturns
  BY <1>1, <1>2, ShowChangeBegins, ShowUnload, ShowLoad, ShowChangeReturns
<1>3. CASE TellOthers \/ OtherReturns
  BY <1>1, <1>3, ShowTellOthers, ShowOtherReturns
<1>4. CASE (WriteGoesOn \/ WriteReturns) /\ UNCHANGED screenVars
  BY <1>1, <1>4, ShowGoesOn, ShowWriteReturns
<1>5. ASSUME NEW n \in Node, OthersSubscribe(n) \/ OthersUnsubscribe(n)
      PROVE  ShowInv'
  BY <1>1, <1>5, ShowOthers
<1>6. ASSUME NEW d \in Display, InitDisplay(d)  PROVE ShowInv'
  BY <1>1, <1>6, ShowInitDisplay
<1>7. ASSUME NEW d \in Display, NEW view \in View \cup {Zero}, StoreView(d, view)
      PROVE  ShowInv'
  BY <1>1, <1>7, ShowStoreView DEF ViewOrNull
<1>8. ASSUME NEW d \in Display, NEW i \in DOMAIN InputKeys[d],
             NEW data \in InputValue, Input(d, i, data)
      PROVE  ShowInv'
  <2>1. contexts[i] \in Key /\ data \in Value /\ Outside /\ UNCHANGED screenVars
    BY <1>8, ShowFacts, InputFacts DEF Input
  <2>2. CASE Write(Bsp, contexts[i], data)  BY <1>1, <2>1, <2>2, ShowInput
  <2>3. CASE WriteWithoutEffect(Bsp, contexts[i], data)
    BY <1>1, <2>1, <2>3, ShowSame DEF WriteWithoutEffect
  <2>4. QED  BY <1>8, <2>2, <2>3 DEF Input
<1>9. CASE UNCHANGED displayVars
  BY <1>1, <1>9, ShowSame DEF displayVars
<1>10. QED
  BY <1>2, <1>3, <1>4, <1>5, <1>6, <1>7, <1>8, <1>9 DEF DisplayNext

\* In a program with one display, that is initialised before a view is stored
\* and that stores none while one is being unloaded, the display shows the view
\* that is stored whenever no write is under way: also after view functions
\* have stored further views inside the change they were called from.
THEOREM TheStoredViewIsShown ==
  ASSUME TwoStreams, StoresAfterLoading, OneDisplay, ~InitLate
  PROVE  DisplaySpec => []ShowsTheStoredView
<1>1. ShowInv => ShowsTheStoredView
  <2>1. SUFFICES ASSUME ShowInv, Outside, NEW d \in shown  PROVE Shows(d)
    BY DEF ShowsTheStoredView, Shows
  <2>2. d \in Display  BY <2>1, ShowFacts DEF ScreenInv, ScreenTypes
  <2>3. 1 .. Len(stack) = {} /\ ~InChange
    BY <2>1 DEF Outside, InChange, InCallback
  <2>4. QED  BY <2>1, <2>2, <2>3 DEF ShowInv, ShownBy, AboutToLoad, At
<1>2. ShowInv /\ [DisplayNext]_displayVars => ShowInv'  BY ShowStep
<1>3. QED  BY <1>1, <1>2, ShowStart, PTL DEF DisplaySpec

-----------------------------------------------------------------------------
(***************************************************************************)
(* What the inputs write.                                                  *)
(***************************************************************************)
InputsFit == \A d \in Display : Range(InputKeys[d]) \subseteq KeysOf(Bsp)

OwnContexts(d) == \A i \in DOMAIN InputKeys[d] : contexts[i] = InputKeys[d][i]

ContextsInv == ScreenInv /\ \A d \in shown : OwnContexts(d)

\* Only the initialisation of a display writes the array.
LEMMA ContextsChange ==
  ASSUME DisplayNext
  PROVE  (\E d \in Display : InitDisplay(d)) \/ UNCHANGED <<contexts, shown>>
<1>1. CASE ChangeBegins \/ Unload \/ Load \/ ChangeReturns
  BY <1>1 DEF ChangeBegins, Unload, Load, ChangeReturns
<1>2. CASE TellOthers \/ OtherReturns
  BY <1>2 DEF TellOthers, OtherReturns, screenVars
<1>3. CASE (WriteGoesOn \/ WriteReturns) /\ UNCHANGED screenVars
  BY <1>3 DEF screenVars
<1>4. ASSUME NEW n \in Node, OthersSubscribe(n) \/ OthersUnsubscribe(n)
      PROVE  UNCHANGED <<contexts, shown>>
  BY <1>4, OthersDo DEF screenVars
<1>5. ASSUME NEW d \in Display, NEW view \in View \cup {Zero}, StoreView(d, view)
      PROVE  UNCHANGED <<contexts, shown>>
  BY <1>5 DEF StoreView, screenVars
<1>6. ASSUME NEW d \in Display, NEW i \in DOMAIN InputKeys[d],
             NEW data \in InputValue, Input(d, i, data)
      PROVE  UNCHANGED <<contexts, shown>>
  BY <1>6 DEF Input, screenVars
<1>7. QED  BY <1>1, <1>2, <1>3, <1>4, <1>5, <1>6 DEF DisplayNext

LEMMA ContextsStep ==
  ASSUME TwoStreams, OneDisplay, ContextsInv, [DisplayNext]_displayVars
  PROVE  ContextsInv'
<1>1. ScreenInv /\ ScreenInv'  BY ScreenStep DEF ContextsInv
<1>2. CASE UNCHANGED <<contexts, shown>>
  BY <1>1, <1>2 DEF ContextsInv, OwnContexts
<1>3. ASSUME NEW d \in Display, InitDisplay(d)  PROVE ContextsInv'
  <2>1. Display = {d} /\ shown' = {d}
    BY <1>1, <1>3 DEF OneDisplay, InitDisplay, ScreenInv, ScreenTypes
  <2>2. PICK keys \in Seq(Key) : keys = InputKeys[d]  BY DisplayConstants
  <2>3. PICK rest : rest = SubSeq(contexts, Len(keys) + 1, Len(contexts))
    OBVIOUS
  <2>4. rest \in Seq(Key)
    <3>1. contexts \in Seq(Key)  BY <1>1 DEF ScreenInv, ScreenTypes
    <3>2. PICK n \in Nat : n = Len(keys)  BY <2>2
    <3>3. rest = SubSeq(contexts, n + 1, Len(contexts))  BY <2>3, <3>2
    <3>4. QED  BY <3>1, <3>3, SubSeqFrom
  <2>5. contexts' = keys \o rest
    BY <1>3, <2>2, <2>3 DEF InitDisplay, ContextsWith
  <2>6. \A i \in DOMAIN keys : contexts'[i] = keys[i]
    BY <2>2, <2>4, <2>5
  <2>7. QED  BY <1>1, <2>1, <2>2, <2>6 DEF ContextsInv, OwnContexts
<1>4. QED  BY <1>2, <1>3, ContextsChange DEF displayVars, screenVars

\* With one display a widget writes the key it was configured with, if it was
\* configured with keys of the bsp stream.
THEOREM EveryInputArrives ==
  ASSUME TwoStreams, OneDisplay, InputsFit
  PROVE  DisplaySpec => InputsArrive
<1>1. ASSUME ContextsInv, NEW d \in Display, NEW i \in DOMAIN InputKeys[d],
             NEW data \in InputValue, Input(d, i, data)
      PROVE  value'[Bsp][InputKeys[d][i]] = data
  <2>1. PICK k : k = contexts[i]  OBVIOUS
  <2>2. k = InputKeys[d][i] /\ k \in KeysOf(Bsp)
    <3>1. d \in shown  BY <1>1 DEF Input
    <3>2. k = InputKeys[d][i]  BY <1>1, <2>1, <3>1 DEF ContextsInv, OwnContexts
    <3>3. k \in Range(InputKeys[d])  BY <1>1, <3>2 DEF Range
    <3>4. QED  BY <3>2, <3>3 DEF InputsFit
  <2>3. HasKey(Bsp, k) /\ k \in Key /\ Bsp \in Stream  BY <2>2, DisplayFacts DEF KeysOf
  <2>4. value \in [Stream -> [Key -> Value]]
    BY <1>1, RamTypes DEF ContextsInv, ScreenInv, WalksInv
  <2>5. CASE Write(Bsp, k, data)
    <3>1. value' = [value EXCEPT ![Bsp][k] = data]  BY <2>5 DEF Write
    <3>2. QED  BY <2>2, <2>3, <2>4, <3>1
  <2>6. CASE WriteWithoutEffect(Bsp, k, data)
    BY <2>2, <2>3, <2>6 DEF WriteWithoutEffect, ramVars
  <2>7. QED  BY <1>1, <2>1, <2>5, <2>6 DEF Input
<1>2. ContextsInv /\ [DisplayNext]_displayVars
        => [\A d \in Display : \A i \in DOMAIN InputKeys[d], data \in InputValue :
              Input(d, i, data) => value'[Bsp][InputKeys[d][i]] = data]_displayVars
  BY <1>1
<1>3. DisplayInit => ContextsInv
  BY ScreenStart DEF ContextsInv, DisplayInit
<1>4. ContextsInv /\ [DisplayNext]_displayVars => ContextsInv'  BY ContextsStep
<1>5. QED  BY <1>2, <1>3, <1>4, PTL DEF DisplaySpec, InputsArrive
=============================================================================

--------------------------- MODULE IntrusiveList ---------------------------
(***************************************************************************)
(* The singly linked intrusive list of src/core/data_structures/list.[ch]  *)
(* on which queues, events and timers are built.                           *)
(*                                                                         *)
(* A node is its own link: `next` is one heap shared by every list, and a  *)
(* list is nothing but a head pointer into it.  The operators take a head  *)
(* pointer h and the heap nx and return the head and the heap the C        *)
(* function leaves behind.  The walks of list.c along the links are stated *)
(* with the set of nodes such a walk visits, so no operator is recursive.  *)
(***************************************************************************)
EXTENDS Integers, SequencesExt

CONSTANTS
  Node,   \* the list_node_t objects of the program
  NULL    \* the null pointer

ASSUME NullAssumption == NULL \notin Node
ASSUME NodeAssumption == IsFiniteSet(Node)

Pointer == Node \cup {NULL}
Heap == [Node -> Pointer]

(***************************************************************************)
(* The nodes a walk that starts at h and follows the links passes through: *)
(* the least set that holds h and is closed under next.  list_for_each     *)
(* visits exactly these.                                                   *)
(***************************************************************************)
Closed(S, nx) == \A n \in S : nx[n] \in S \cup {NULL}

Reach(h, nx) ==
  {n \in Node : \A S \in SUBSET Node :
                  (h \in S \cup {NULL} /\ Closed(S, nx)) => n \in S}

\* A walk from h comes to the end of the list.  A list that a node was
\* linked into twice may have no end, and the loops of list.c spin in it.
WalkEnds(h, nx) == h = NULL \/ \E n \in Reach(h, nx) : nx[n] = NULL

\* list_push and list_delete return.
PushEnds(h, nx, node) == WalkEnds(h, [nx EXCEPT ![node] = NULL])
DeleteEnds(h, nx, node) == node \in Reach(h, nx) \/ WalkEnds(h, nx)

-----------------------------------------------------------------------------
ListAddFront(h, nx, node) ==
  [head |-> node, next |-> [nx EXCEPT ![node] = h]]

\* Seeded fault: the pushed node keeps whatever link it had before.
ListPushStaleLink(h, nx, node) ==
  LET last == {n \in Reach(h, nx) : nx[n] = NULL}
  IN  IF h = NULL
      THEN [head |-> node, next |-> nx]
      ELSE [head |-> h,
            next |-> [n \in Node |-> IF n \in last THEN node ELSE nx[n]]]

\* Seeded fault: the loop of list_push stops one node early.
ListPushStopsEarly(h, nx, node) ==
  LET cut  == [nx EXCEPT ![node] = NULL]
      last == {n \in Reach(h, cut) :
                 IF cut[n] = NULL THEN n = h ELSE cut[cut[n]] = NULL}
  IN  IF h = NULL
      THEN [head |-> node, next |-> cut]
      ELSE [head |-> h,
            next |-> [n \in Node |-> IF n \in last THEN node ELSE cut[n]]]

\* The node is cut loose first and then hung behind the last one.
ListPush(h, nx, node) ==
  LET cut  == [nx EXCEPT ![node] = NULL]
      last == {n \in Reach(h, cut) : cut[n] = NULL}
  IN  IF h = NULL
      THEN [head |-> node, next |-> cut]
      ELSE [head |-> h,
            next |-> [n \in Node |-> IF n \in last THEN node ELSE cut[n]]]

\* Seeded fault: deleting the head drops the whole list.
ListDeleteDropsTail(h, nx, node) ==
  LET cut  == [nx EXCEPT ![node] = NULL]
      pred == {n \in Reach(h, cut) \ {node} : nx[n] = node}
  IN  IF h = node
      THEN [head |-> NULL, next |-> nx]
      ELSE [head |-> h,
            next |-> [n \in Node |-> IF n \in pred THEN nx[node] ELSE nx[n]]]

\* `pred` holds the first node of the walk that points to `node`; it is
\* empty when `node` is not on the list, and then nothing changes.  The
\* deleted node keeps its own link.
ListDelete(h, nx, node) ==
  LET cut  == [nx EXCEPT ![node] = NULL]
      pred == {n \in Reach(h, cut) \ {node} : nx[n] = node}
  IN  IF h = node
      THEN [head |-> nx[node], next |-> nx]
      ELSE [head |-> h,
            next |-> [n \in Node |-> IF n \in pred THEN nx[node] ELSE nx[n]]]

-----------------------------------------------------------------------------
\* The sequence s is what the list at h holds: each node once, in the
\* order of the links, the last one with a null link.
IsChain(s, h, nx) ==
  /\ IsInjective(s)
  /\ h = IF s = <<>> THEN NULL ELSE s[1]
  /\ \A i \in DOMAIN s : nx[s[i]] = IF i = Len(s) THEN NULL ELSE s[i+1]

\* The sequence a well-formed list holds.
Chain(h, nx) == CHOOSE s \in SeqOf(Node, Cardinality(Node)) : IsChain(s, h, nx)
=============================================================================

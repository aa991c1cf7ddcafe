---------------------------- MODULE LinkedList -----------------------------
(***************************************************************************)
(* Lists that share one pool of nodes, as every client of list.c keeps     *)
(* them: the queues, the subscriber lists of the events, the timer list of *)
(* a controller.  One action per function of list.c that changes a list.   *)
(*                                                                         *)
(* A node has one link, so it can be on one list at a time, once.  list.c  *)
(* does not check this; Unlinked(n) is that rule of use, in the guards of  *)
(* the operations that link a node.                                        *)
(***************************************************************************)
EXTENDS IntrusiveList

CONSTANT List   \* the list_t objects

VARIABLES
  head,   \* head[l]: list->head
  next    \* next[n]: node->next

listVars == <<head, next>>

Linked(l) == Reach(head[l], next)
Unlinked(n) == \A l \in List : n \notin Linked(l)

\* list l and the heap become what a list.c function returned.
Becomes(l, result) ==
  /\ head' = [head EXCEPT ![l] = result.head]
  /\ next' = result.next

\* Nodes are plain storage: their links hold anything before the first use.
ListsInit ==
  /\ head = [l \in List |-> NULL]
  /\ next \in Heap

\* list_init on a list already in use forgets its nodes.
Reinit(l) ==
  /\ head' = [head EXCEPT ![l] = NULL]
  /\ UNCHANGED next

AddFront(l, n) == Unlinked(n) /\ Becomes(l, ListAddFront(head[l], next, n))

Push(l, n) == Unlinked(n) /\ Becomes(l, ListPush(head[l], next, n))

Delete(l, n) == Becomes(l, ListDelete(head[l], next, n))

ListsNext ==
  \E l \in List :
    \/ Reinit(l)
    \/ \E n \in Node : AddFront(l, n) \/ Push(l, n) \/ Delete(l, n)

ListsSpec == ListsInit /\ [][ListsNext]_listVars

-----------------------------------------------------------------------------
\* Pointers are nodes or null.
ListsTypeOK ==
  /\ head \in [List -> Pointer]
  /\ next \in Heap

\* Every list is a chain that ends: whatever was pushed and deleted before,
\* a walk of list_push, list_delete or list_for_each terminates and no node
\* occurs twice.
ListsWellFormed ==
  \A l \in List : \E s \in SeqOf(Node, Cardinality(Node)) : IsChain(s, head[l], next)

\* No node is on two lists: changing one list never disturbs another, although
\* all of them write the links of one pool of nodes.
ListsDisjoint ==
  \A l, m \in List : l # m => Linked(l) \cap Linked(m) = {}

\* The pointer code keeps the promise of the list API: each operation changes
\* the sequence held by its own list as stated in AbstractLists.
Abstract == INSTANCE AbstractLists
              WITH contents <- [l \in List |-> Chain(head[l], next)]
ImplementsAbstractLists == Abstract!Spec
=============================================================================

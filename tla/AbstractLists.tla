--------------------------- MODULE AbstractLists ---------------------------
(***************************************************************************)
(* What the list API promises, without pointers: every list holds a        *)
(* sequence of nodes.                                                      *)
(***************************************************************************)
EXTENDS Integers, SequencesExt

CONSTANTS
  List,   \* the lists
  Node    \* what they hold

VARIABLE contents   \* contents[l]: the nodes of list l in order

OnSomeList(n) == \E l \in List : n \in Range(contents[l])

Init == contents = [l \in List |-> <<>>]

Clear(l) == contents' = [contents EXCEPT ![l] = <<>>]

AddFront(l, n) ==
  /\ ~OnSomeList(n)
  /\ contents' = [contents EXCEPT ![l] = <<n>> \o @]

Push(l, n) ==
  /\ ~OnSomeList(n)
  /\ contents' = [contents EXCEPT ![l] = Append(@, n)]

\* Deleting a node that is not on the list changes nothing.
Delete(l, n) ==
  \/ \E i \in DOMAIN contents[l] :
       /\ contents[l][i] = n
       /\ contents' = [contents EXCEPT ![l] = RemoveAt(@, i)]
  \/ n \notin Range(contents[l]) /\ UNCHANGED contents

Next ==
  \E l \in List :
    \/ Clear(l)
    \/ \E n \in Node : AddFront(l, n) \/ Push(l, n) \/ Delete(l, n)

Spec == Init /\ [][Next]_contents
=============================================================================

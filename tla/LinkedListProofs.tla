-------------------------- MODULE LinkedListProofs -------------------------
(***************************************************************************)
(* The theorems about LinkedList, for every finite set of nodes and every  *)
(* set of lists.  The lemmas are stated for arbitrary heads hd and heap nx *)
(* so that they serve the states before and after a step alike.  First of  *)
(* all comes what the functions of list.c do to one well-formed list.      *)
(***************************************************************************)
EXTENDS LinkedList, FiniteSetTheorems, WellFoundedInduction, TLAPS

\* Every non-empty set of natural numbers has a least element.
LEMMA NatMin ==
  ASSUME NEW B \in SUBSET Nat, B # {}
  PROVE  \E m \in B : \A k \in B : m <= k
<1> DEFINE R == {ss \in Nat \X Nat : ss[1] < ss[2]}
<1>1. IsWellFoundedOn(R, Nat)  BY NatLessThanWellFounded DEF OpToRel
<1> HIDE DEF R
<1>2. \E x \in B : \A y \in B : ~(<<y, x>> \in R)  BY <1>1, WFMin, Zenon
<1>3. \A x, y \in Nat : ~(<<y, x>> \in R) => x <= y  BY SMT DEF R
<1>4. QED  BY <1>2, <1>3

\* A walk along a well-formed list visits exactly the nodes of its sequence.
LEMMA ReachChain ==
  ASSUME NEW h, NEW nx, NEW s \in Seq(Node), IsChain(s, h, nx)
  PROVE  Reach(h, nx) = Range(s)
<1>1. Range(s) \in SUBSET Node  BY DEF Range
<1>2. Closed(Range(s), nx)  BY DEF Closed, IsChain, Range
<1>3. h \in Range(s) \cup {NULL}  BY DEF IsChain, Range
<1>4. Reach(h, nx) \subseteq Range(s)
  BY <1>1, <1>2, <1>3 DEF Reach
<1>5. ASSUME NEW S \in SUBSET Node, h \in S \cup {NULL}, Closed(S, nx)
      PROVE  \A i \in 1 .. Len(s) : s[i] \in S
  <2> DEFINE B == {i \in 1 .. Len(s) : s[i] \notin S}
  <2>1. SUFFICES ASSUME B # {} PROVE FALSE  OBVIOUS
  <2>2. PICK m \in B : \A k \in B : m <= k
    <3>1. B \in SUBSET Nat  OBVIOUS
    <3>2. QED  BY <2>1, <3>1, NatMin
  <2>3. m # 1  BY <1>5, <2>2, NullAssumption DEF IsChain
  <2>4. m - 1 \in 1 .. Len(s) /\ s[m-1] \in S  BY <2>2, <2>3
  <2>5. nx[s[m-1]] = s[m]  BY <2>2, <2>4 DEF IsChain
  <2>6. s[m] \in S  BY <1>5, <2>2, <2>4, <2>5, NullAssumption DEF Closed
  <2>7. QED  BY <2>2, <2>6
<1>6. Range(s) \subseteq Reach(h, nx)
  <2>1. SUFFICES ASSUME NEW i \in 1 .. Len(s) PROVE s[i] \in Reach(h, nx)
    BY DEF Range
  <2>2. s[i] \in Node  OBVIOUS
  <2>3. QED  BY <1>5, <2>2 DEF Reach
<1>7. QED  BY <1>4, <1>6

\* Two sequences that describe one list agree where both are defined, and one
\* does not end before the other.
LEMMA ChainPrefix ==
  ASSUME NEW h, NEW nx, NEW s \in Seq(Node), NEW t \in Seq(Node),
         IsChain(s, h, nx), IsChain(t, h, nx)
  PROVE  \A i \in 1 .. Len(s) : i <= Len(t) /\ s[i] = t[i]
<1> DEFINE B == {i \in 1 .. Len(s) : ~(i <= Len(t) /\ s[i] = t[i])}
<1>1. SUFFICES ASSUME B # {} PROVE FALSE  OBVIOUS
<1>2. PICK m \in B : \A k \in B : m <= k
  <2>1. B \in SUBSET Nat  OBVIOUS
  <2>2. QED  BY <1>1, <2>1, NatMin
<1>3. m # 1
  <2>1. SUFFICES ASSUME m = 1 PROVE FALSE  OBVIOUS
  <2>2. h = s[1] /\ s[1] \in Node  BY <1>2, <2>1 DEF IsChain
  <2>3. t # <<>> /\ h = t[1]  BY <2>2, NullAssumption DEF IsChain
  <2>4. 1 <= Len(t)  BY <2>3
  <2>5. QED  BY <1>2, <2>1, <2>2, <2>3, <2>4
<1>4. /\ m - 1 \in 1 .. Len(s) /\ m - 1 # Len(s)
      /\ m - 1 \in 1 .. Len(t) /\ s[m-1] = t[m-1]
  BY <1>2, <1>3
<1>5. nx[s[m-1]] = s[m] /\ s[m] \in Node  BY <1>2, <1>4 DEF IsChain
<1>6. m - 1 # Len(t)  BY <1>4, <1>5, NullAssumption DEF IsChain
<1>7. nx[t[m-1]] = t[m]  BY <1>4, <1>6 DEF IsChain
<1>8. QED  BY <1>2, <1>4, <1>5, <1>6, <1>7

\* A list is described by one sequence only.
LEMMA ChainUnique ==
  ASSUME NEW h, NEW nx, NEW s \in Seq(Node), NEW t \in Seq(Node),
         IsChain(s, h, nx), IsChain(t, h, nx)
  PROVE  s = t
<1>1. \A i \in 1 .. Len(s) : i <= Len(t) /\ s[i] = t[i]  BY ChainPrefix
<1>2. \A i \in 1 .. Len(t) : i <= Len(s) /\ t[i] = s[i]  BY ChainPrefix
<1>3. Len(s) = Len(t)
  <2>1. Len(s) \in Nat /\ Len(t) \in Nat  OBVIOUS
  <2>2. Len(s) <= Len(t)  BY <1>1, <2>1
  <2>3. Len(t) <= Len(s)  BY <1>2, <2>1
  <2>4. QED  BY <2>1, <2>2, <2>3
<1>4. QED  BY <1>1, <1>3

LEMMA IntervalSize ==
  ASSUME NEW k \in Nat
  PROVE  Cardinality(1 .. k) = k
<1>1. Cardinality(1 .. k) = IF 1 > k THEN 0 ELSE k - 1 + 1  BY FS_Interval
<1>2. QED  BY <1>1

\* No list is longer than there are nodes.
LEMMA ChainIsBounded ==
  ASSUME NEW s \in Seq(Node), IsInjective(s)
  PROVE  s \in SeqOf(Node, Cardinality(Node))
<1>1. s \in Injection(1 .. Len(s), Node)  BY DEF Injection
<1>2. Cardinality(1 .. Len(s)) <= Cardinality(Node)
  BY <1>1, FS_Injection, NodeAssumption
<1>3. Cardinality(1 .. Len(s)) = Len(s)
  <2>1. Len(s) \in Nat  OBVIOUS
  <2>2. QED  BY <2>1, IntervalSize
<1>4. Cardinality(Node) \in Nat  BY FS_CardinalityType, NodeAssumption
<1>5. Len(s) \in 0 .. Cardinality(Node)  BY <1>2, <1>3, <1>4
<1>6. QED  BY <1>5 DEF SeqOf

\* Chain yields the sequence a well-formed list holds.
LEMMA ChainIs ==
  ASSUME NEW h, NEW nx, NEW s \in Seq(Node), IsChain(s, h, nx)
  PROVE  Chain(h, nx) = s
<1>1. s \in SeqOf(Node, Cardinality(Node))
  BY ChainIsBounded DEF IsChain
<1>2. Chain(h, nx) \in SeqOf(Node, Cardinality(Node))
      /\ IsChain(Chain(h, nx), h, nx)
  BY <1>1 DEF Chain
<1>3. Chain(h, nx) \in Seq(Node)  BY <1>2 DEF SeqOf
<1>4. QED  BY <1>2, <1>3, ChainUnique

-----------------------------------------------------------------------------
\* Writing the links of other nodes leaves a list as it is.
LEMMA ChainFrame ==
  ASSUME NEW h, NEW nx, NEW ny, NEW s \in Seq(Node), IsChain(s, h, nx),
         \A n \in Range(s) : ny[n] = nx[n]
  PROVE  IsChain(s, h, ny)
BY DEF IsChain, Range

\* The result r of a list.c function is a list that holds t, and only links of
\* the nodes in X have been written.
Leaves(r, t, nx, X) ==
  /\ r.head \in Pointer /\ r.next \in Heap
  /\ IsChain(t, r.head, r.next)
  /\ \A m \in Node \ X : r.next[m] = nx[m]

\* list_add_front puts the node before the others.
LEMMA AddFrontChain ==
  ASSUME NEW h, NEW nx \in Heap, NEW s \in Seq(Node), IsChain(s, h, nx),
         NEW n \in Node, n \notin Range(s)
  PROVE  Leaves(ListAddFront(h, nx, n), <<n>> \o s, nx, {n})
<1>0. PICK r : r = ListAddFront(h, nx, n)  OBVIOUS
<1>1. h \in Pointer  BY DEF IsChain, Pointer
<1>2. r.head = n /\ r.next = [nx EXCEPT ![n] = h]  BY <1>0 DEF ListAddFront
<1>3. r.next \in Heap /\ r.next[n] = h  BY <1>1, <1>2 DEF Heap
<1>4. \A m \in Node \ {n} : r.next[m] = nx[m]  BY <1>2 DEF Heap
<1> DEFINE t == <<n>> \o s
<1>5. /\ t \in Seq(Node) /\ Len(t) = Len(s) + 1 /\ t[1] = n
      /\ \A i \in 2 .. Len(t) : t[i] = s[i-1]
  OBVIOUS
<1>6. n \notin Range(s)  OBVIOUS
<1> HIDE DEF t
<1>7. IsInjective(t)
  <2>1. SUFFICES ASSUME NEW i \in 1 .. Len(t), NEW j \in 1 .. Len(t), t[i] = t[j],
                        i < j
                 PROVE  FALSE
    BY <1>5 DEF IsInjective
  <2>2. t[j] = s[j-1] /\ j - 1 \in 1 .. Len(s)  BY <1>5, <2>1
  <2>3. CASE i = 1  BY <1>5, <1>6, <2>1, <2>2, <2>3 DEF Range
  <2>4. CASE i # 1
    <3>1. t[i] = s[i-1] /\ i - 1 \in 1 .. Len(s)  BY <1>5, <2>4
    <3>2. QED  BY <2>1, <2>2, <3>1 DEF IsChain, IsInjective
  <2>5. QED  BY <2>3, <2>4
<1>8. \A i \in 1 .. Len(t) : r.next[t[i]] = IF i = Len(t) THEN NULL ELSE t[i+1]
  <2>1. SUFFICES ASSUME NEW i \in 1 .. Len(t)
                 PROVE  r.next[t[i]] = IF i = Len(t) THEN NULL ELSE t[i+1]
    OBVIOUS
  <2>2. CASE i = 1
    <3>1. h = IF s = <<>> THEN NULL ELSE s[1]  BY DEF IsChain
    <3>2. s = <<>> <=> Len(s) = 0  OBVIOUS
    <3>3. QED  BY <1>3, <1>5, <2>2, <3>1, <3>2
  <2>3. CASE i # 1
    <3>1. t[i] = s[i-1] /\ i - 1 \in 1 .. Len(s) /\ s[i-1] # n
      BY <1>5, <1>6, <2>3 DEF Range
    <3>2. r.next[t[i]] = nx[s[i-1]]  BY <1>4, <3>1
    <3>3. nx[s[i-1]] = IF i - 1 = Len(s) THEN NULL ELSE s[i]
      BY <3>1 DEF IsChain
    <3>4. QED  BY <1>5, <3>1, <3>2, <3>3
  <2>4. QED  BY <2>2, <2>3
<1>9. IsChain(t, r.head, r.next)
  <2>1. t # <<>> /\ DOMAIN t = 1 .. Len(t)  BY <1>5
  <2>2. QED  BY <1>2, <1>5, <1>7, <1>8, <2>1 DEF IsChain
<1>10. QED  BY <1>0, <1>2, <1>3, <1>4, <1>9 DEF t, Pointer, Leaves

\* list_push puts the node behind the others, whatever link it had before.
LEMMA PushChain ==
  ASSUME NEW h, NEW nx \in Heap, NEW s \in Seq(Node), IsChain(s, h, nx),
         NEW n \in Node, n \notin Range(s)
  PROVE  Leaves(ListPush(h, nx, n), Append(s, n), nx, Range(s) \cup {n})
<1>0. PICK r : r = ListPush(h, nx, n)  OBVIOUS
<1> DEFINE cut == [nx EXCEPT ![n] = NULL]
           last == {m \in Reach(h, cut) : cut[m] = NULL}
           t == Append(s, n)
<1>1. cut \in Heap /\ cut[n] = NULL /\ \A m \in Node \ {n} : cut[m] = nx[m]
  BY DEF Heap, Pointer
<1>2. n \notin Range(s) /\ Range(s) \subseteq Node  BY DEF Range
<1>3. IsChain(s, h, cut)
  <2>1. \A m \in Range(s) : cut[m] = nx[m]  BY <1>1, <1>2
  <2> HIDE DEF cut
  <2>2. QED  BY <2>1, ChainFrame
<1> HIDE DEF cut
<1>4. Reach(h, cut) = Range(s)  BY <1>3, ReachChain
<1>5. h \in Pointer  BY <1>3 DEF IsChain, Pointer
<1>6. r = IF h = NULL
          THEN [head |-> n, next |-> cut]
          ELSE [head |-> h,
                next |-> [m \in Node |-> IF m \in last THEN n ELSE cut[m]]]
  BY <1>0 DEF ListPush, cut
<1>7. /\ t \in Seq(Node) /\ Len(t) = Len(s) + 1 /\ t[Len(t)] = n
      /\ \A i \in 1 .. Len(s) : t[i] = s[i]
  OBVIOUS
<1> HIDE DEF t
<1>8. IsInjective(t)
  <2>1. SUFFICES ASSUME NEW i \in 1 .. Len(t), NEW j \in 1 .. Len(t), t[i] = t[j],
                        i < j
                 PROVE  FALSE
    BY <1>7 DEF IsInjective
  <2>2. i \in 1 .. Len(s) /\ t[i] = s[i]  BY <1>7, <2>1
  <2>3. CASE j = Len(t)
    <3>1. s[i] = n  BY <1>7, <2>1, <2>2, <2>3
    <3>2. s[i] \in Range(s)  BY <2>2 DEF Range
    <3>3. QED  BY <1>2, <3>1, <3>2
  <2>4. CASE j # Len(t)
    <3>1. j \in 1 .. Len(s) /\ t[j] = s[j]  BY <1>7, <2>4
    <3>2. s[i] = s[j]  BY <2>1, <2>2, <3>1
    <3>3. QED  BY <2>1, <2>2, <3>1, <3>2 DEF IsChain, IsInjective
  <2>5. QED  BY <2>3, <2>4
<1>9. CASE h = NULL
  <2>1. s = <<>>  BY <1>9, NullAssumption DEF IsChain
  <2>2. Len(s) = 0  BY <2>1
  <2>3. r.head = n /\ r.next = cut  BY <1>6, <1>9
  <2>4. t # <<>> /\ DOMAIN t = 1 .. 1 /\ t[1] = n /\ Len(t) = 1
    BY <1>7, <2>2
  <2>5. IsChain(t, n, cut)  BY <1>1, <1>8, <2>4 DEF IsChain
  <2>6. QED  BY <1>0, <1>1, <1>2, <2>3, <2>5 DEF t, Pointer, Leaves
<1>10. CASE h # NULL
  <2>1. s # <<>> /\ h = s[1]  BY <1>10 DEF IsChain
  <2>2. Len(s) \in Nat \ {0}  BY <2>1
  <2>3. last = {s[Len(s)]}
    <3>1. \A i \in 1 .. Len(s) : cut[s[i]] = NULL <=> i = Len(s)
      <4>1. SUFFICES ASSUME NEW i \in 1 .. Len(s), i # Len(s)
                     PROVE  cut[s[i]] # NULL
        BY <1>3 DEF IsChain
      <4>2. cut[s[i]] = s[i+1] /\ s[i+1] \in Node  BY <1>3, <4>1 DEF IsChain
      <4>3. QED  BY <4>2, NullAssumption
    <3>2. QED  BY <1>4, <2>2, <3>1 DEF Range
  <2>4. r.head = h /\ r.next = [m \in Node |-> IF m \in last THEN n ELSE cut[m]]
    BY <1>6, <1>10
  <2> HIDE DEF last
  <2>5. r.next \in Heap  BY <1>1, <2>4 DEF Heap, Pointer
  <2>6. \A m \in Node : r.next[m] = IF m = s[Len(s)] THEN n ELSE cut[m]
    BY <2>3, <2>4
  <2>7. s[Len(s)] \in Range(s)  BY <2>2 DEF Range
  <2>8. \A m \in Node \ (Range(s) \cup {n}) : r.next[m] = nx[m]
    BY <1>1, <2>6, <2>7
  <2>9. \A i \in 1 .. Len(t) : r.next[t[i]] = IF i = Len(t) THEN NULL ELSE t[i+1]
    <3>1. SUFFICES ASSUME NEW i \in 1 .. Len(t)
                   PROVE  r.next[t[i]] = IF i = Len(t) THEN NULL ELSE t[i+1]
      OBVIOUS
    <3>2. CASE i = Len(t)  BY <1>1, <1>2, <1>7, <2>6, <2>7, <3>2
    <3>3. CASE i = Len(s)  BY <1>7, <2>2, <2>6, <3>3
    <3>4. CASE i # Len(s) /\ i # Len(t)
      <4>1. i \in 1 .. Len(s) /\ i + 1 \in 1 .. Len(s) /\ i # Len(t)
        BY <1>7, <3>4
      <4>2. s[i] # s[Len(s)]  BY <2>2, <3>4, <4>1 DEF IsChain, IsInjective
      <4>3. cut[s[i]] = s[i+1]  BY <1>3, <3>4, <4>1 DEF IsChain
      <4>4. r.next[s[i]] = cut[s[i]]  BY <2>6, <4>1, <4>2
      <4>5. QED  BY <1>7, <4>1, <4>3, <4>4
    <3>5. QED  BY <3>2, <3>3, <3>4
  <2>10. t # <<>> /\ DOMAIN t = 1 .. Len(t) /\ h = t[1]  BY <1>7, <2>1, <2>2
  <2>11. IsChain(t, h, r.next)  BY <1>8, <2>9, <2>10 DEF IsChain
  <2>12. QED  BY <1>0, <1>5, <2>4, <2>5, <2>8, <2>11 DEF t, Leaves
<1>11. QED  BY <1>9, <1>10

\* RemoveAt closes the gap.
LEMMA RemoveAtProperties ==
  ASSUME NEW s \in Seq(Node), NEW i \in 1 .. Len(s)
  PROVE  /\ RemoveAt(s, i) \in Seq(Node)
         /\ Len(RemoveAt(s, i)) = Len(s) - 1
         /\ \A j \in 1 .. Len(s) - 1 :
              RemoveAt(s, i)[j] = IF j < i THEN s[j] ELSE s[j+1]
<1> DEFINE a == SubSeq(s, 1, i - 1)
           b == SubSeq(s, i + 1, Len(s))
<1>1. a \in Seq(Node) /\ Len(a) = i - 1 /\ \A j \in 1 .. i - 1 : a[j] = s[j]
  OBVIOUS
<1>2. b \in Seq(Node) /\ Len(b) = Len(s) - i
      /\ \A j \in 1 .. Len(s) - i : b[j] = s[i+j]
  OBVIOUS
<1> HIDE DEF a, b
<1>3. /\ a \o b \in Seq(Node) /\ Len(a \o b) = Len(s) - 1
      /\ \A j \in 1 .. Len(s) - 1 :
           (a \o b)[j] = IF j < i THEN a[j] ELSE b[j - i + 1]
  <2>1. a \o b \in Seq(Node)  BY <1>1, <1>2
  <2>2. Len(a \o b) = Len(a) + Len(b)
    <3>1. a \in Seq(Node) /\ b \in Seq(Node)  BY <1>1, <1>2
    <3>2. QED  BY <3>1
  <2>3. \A j \in 1 .. Len(a) + Len(b) :
          (a \o b)[j] = IF j <= Len(a) THEN a[j] ELSE b[j - Len(a)]
    BY <1>1, <1>2
  <2>4. QED  BY <1>1, <1>2, <2>1, <2>2, <2>3
<1>4. \A j \in 1 .. Len(s) - 1 : (a \o b)[j] = IF j < i THEN s[j] ELSE s[j+1]
  BY <1>1, <1>2, <1>3
<1>5. RemoveAt(s, i) = a \o b  BY DEF RemoveAt, a, b
<1>6. QED  BY <1>3, <1>4, <1>5

LEMMA RangeRemoveAt ==
  ASSUME NEW s \in Seq(Node), NEW i \in 1 .. Len(s)
  PROVE  RemoveAt(s, i) \in Seq(Node) /\ Range(RemoveAt(s, i)) \subseteq Range(s)
<1>1. PICK t : t = RemoveAt(s, i)  OBVIOUS
<1>2. /\ t \in Seq(Node) /\ Len(t) = Len(s) - 1
      /\ \A j \in 1 .. Len(s) - 1 : t[j] = IF j < i THEN s[j] ELSE s[j+1]
  BY <1>1, RemoveAtProperties
<1>3. \A j \in 1 .. Len(t) : t[j] \in Range(s)
  <2>1. SUFFICES ASSUME NEW j \in 1 .. Len(t) PROVE t[j] \in Range(s)  OBVIOUS
  <2>2. j \in 1 .. Len(s) /\ j + 1 \in 1 .. Len(s)  BY <1>2
  <2>3. t[j] = s[j] \/ t[j] = s[j+1]  BY <1>2
  <2>4. QED  BY <2>2, <2>3 DEF Range
<1>4. QED  BY <1>1, <1>2, <1>3 DEF Range

LEMMA RangeAppend ==
  ASSUME NEW s \in Seq(Node), NEW n \in Node
  PROVE  Append(s, n) \in Seq(Node) /\ Range(Append(s, n)) = Range(s) \cup {n}
<1>1. PICK t : t = Append(s, n)  OBVIOUS
<1>2. /\ t \in Seq(Node) /\ Len(t) = Len(s) + 1 /\ t[Len(s) + 1] = n
      /\ \A i \in 1 .. Len(s) : t[i] = s[i]
  BY <1>1
<1>3. Range(t) \subseteq Range(s) \cup {n}
  <2>1. \A i \in 1 .. Len(t) : i = Len(s) + 1 \/ i \in 1 .. Len(s)  BY <1>2
  <2>2. QED  BY <1>2, <2>1 DEF Range
<1>4. Len(s) + 1 \in 1 .. Len(t) /\ \A i \in 1 .. Len(s) : i \in 1 .. Len(t)
  BY <1>2
<1>5. Range(s) \cup {n} \subseteq Range(t)  BY <1>2, <1>4 DEF Range
<1>6. QED  BY <1>1, <1>2, <1>3, <1>5

\* list_delete of a node that is not on the list changes nothing.
LEMMA DeleteAbsent ==
  ASSUME NEW h, NEW nx \in Heap, NEW s \in Seq(Node), IsChain(s, h, nx),
         NEW n \in Node, n \notin Range(s)
  PROVE  ListDelete(h, nx, n) = [head |-> h, next |-> nx]
<1> DEFINE cut == [nx EXCEPT ![n] = NULL]
           pred == {m \in Reach(h, cut) \ {n} : nx[m] = n}
<1>1. h # n
  <2>1. h = IF s = <<>> THEN NULL ELSE s[1]  BY DEF IsChain
  <2>2. s # <<>> => s[1] \in Range(s)  BY DEF Range
  <2>3. QED  BY <2>1, <2>2, NullAssumption
<1>2. IsChain(s, h, cut)
  <2>1. \A m \in Range(s) : cut[m] = nx[m]  BY DEF Heap, Range
  <2> HIDE DEF cut
  <2>2. QED  BY <2>1, ChainFrame
<1> HIDE DEF cut
<1>3. Reach(h, cut) = Range(s)  BY <1>2, ReachChain
<1>4. \A j \in 1 .. Len(s) : nx[s[j]] # n
  <2>1. SUFFICES ASSUME NEW j \in 1 .. Len(s) PROVE nx[s[j]] # n  OBVIOUS
  <2>2. nx[s[j]] = IF j = Len(s) THEN NULL ELSE s[j+1]  BY DEF IsChain
  <2>3. j # Len(s) => s[j+1] \in Range(s)  BY DEF Range
  <2>4. QED  BY <2>2, <2>3, NullAssumption
<1>5. pred = {}  BY <1>3, <1>4 DEF Range
<1> HIDE DEF pred
<1>6. [m \in Node |-> IF m \in pred THEN nx[n] ELSE nx[m]] = nx
  BY <1>5 DEF Heap
<1>7. ListDelete(h, nx, n) =
        [head |-> h, next |-> [m \in Node |-> IF m \in pred THEN nx[n] ELSE nx[m]]]
  BY <1>1 DEF ListDelete, pred, cut
<1>8. QED  BY <1>6, <1>7

\* list_delete takes a node out of the middle, the front or the end.
LEMMA DeleteChain ==
  ASSUME NEW h, NEW nx \in Heap, NEW s \in Seq(Node), IsChain(s, h, nx),
         NEW i \in 1 .. Len(s)
  PROVE  Leaves(ListDelete(h, nx, s[i]), RemoveAt(s, i), nx, Range(s))
<1>0. PICK r : r = ListDelete(h, nx, s[i])  OBVIOUS
<1> DEFINE n == s[i]
           cut == [nx EXCEPT ![n] = NULL]
           pred == {m \in Reach(h, cut) \ {n} : nx[m] = n}
           t == RemoveAt(s, i)
           Link(j) == IF j = Len(s) THEN NULL ELSE s[j+1]
<1>1. /\ t \in Seq(Node) /\ DOMAIN t = 1 .. Len(s) - 1 /\ Len(t) = Len(s) - 1
      /\ \A j \in 1 .. Len(s) - 1 : t[j] = IF j < i THEN s[j] ELSE s[j+1]
  BY RemoveAtProperties
<1>2. s # <<>> /\ h = s[1] /\ Len(s) \in Nat \ {0}  BY DEF IsChain
<1>3. \A j, k \in 1 .. Len(s) : s[j] = s[k] => j = k  BY DEF IsChain, IsInjective
<1>4. \A j \in 1 .. Len(s) : s[j] \in Node /\ nx[s[j]] = Link(j)  BY DEF IsChain
<1> HIDE DEF t
<1>5. IsInjective(t)
  <2>1. SUFFICES ASSUME NEW j \in 1 .. Len(s) - 1, NEW k \in 1 .. Len(s) - 1,
                        t[j] = t[k]
                 PROVE  j = k
    BY <1>1 DEF IsInjective
  <2>2. PICK p \in 1 .. Len(s) : t[j] = s[p] /\ p = IF j < i THEN j ELSE j + 1
    BY <1>1, <1>2
  <2>3. PICK q \in 1 .. Len(s) : t[k] = s[q] /\ q = IF k < i THEN k ELSE k + 1
    BY <1>1, <1>2
  <2>4. p = q  BY <1>3, <2>1, <2>2, <2>3
  <2>5. QED  BY <2>2, <2>3, <2>4
<1>6. t = <<>> <=> Len(s) = 1  BY <1>1, <1>2
<1>7. CASE i = 1
  <2>1. r = [head |-> nx[n], next |-> nx]  BY <1>0, <1>2, <1>7 DEF ListDelete
  <2>2. nx[n] = Link(1)  BY <1>2, <1>4, <1>7
  <2>3. nx[n] = IF t = <<>> THEN NULL ELSE t[1]
    BY <1>1, <1>2, <1>6, <1>7, <2>2
  <2>4. \A j \in 1 .. Len(t) : nx[t[j]] = IF j = Len(t) THEN NULL ELSE t[j+1]
    BY <1>1, <1>2, <1>4, <1>7
  <2>5. IsChain(t, nx[n], nx)  BY <1>1, <1>5, <2>3, <2>4 DEF IsChain
  <2>6. nx[n] \in Pointer  BY DEF Heap
  <2>7. QED  BY <1>0, <2>1, <2>5, <2>6 DEF t, Leaves
<1>8. CASE i # 1
  <2>1. n # h  BY <1>2, <1>3, <1>8
  <2>2. r = [head |-> h,
             next |-> [m \in Node |-> IF m \in pred THEN nx[n] ELSE nx[m]]]
    BY <1>0, <2>1 DEF ListDelete
  <2> DEFINE p == SubSeq(s, 1, i)
  <2>3. p \in Seq(Node) /\ Len(p) = i /\ \A j \in 1 .. i : p[j] = s[j]
    OBVIOUS
  <2> HIDE DEF p
  <2>4. cut[n] = NULL /\ \A m \in Node \ {n} : cut[m] = nx[m]  BY <1>4 DEF Heap
  <2> HIDE DEF cut
  <2>5. IsChain(p, h, cut)
    <3>1. p # <<>> /\ DOMAIN p = 1 .. i /\ p[1] = h  BY <1>2, <2>3
    <3>2. IsInjective(p)  BY <1>3, <2>3, <3>1 DEF IsInjective
    <3>3. \A j \in 1 .. i : cut[p[j]] = IF j = i THEN NULL ELSE p[j+1]
      <4>1. SUFFICES ASSUME NEW j \in 1 .. i
                     PROVE  cut[p[j]] = IF j = i THEN NULL ELSE p[j+1]
        OBVIOUS
      <4>2. CASE j = i  BY <2>3, <2>4, <4>2
      <4>3. CASE j # i
        <5>1. j \in 1 .. Len(s) /\ s[j] # n /\ s[j] \in Node
          BY <1>3, <1>4, <4>3
        <5>2. cut[s[j]] = nx[s[j]] /\ nx[s[j]] = s[j+1]  BY <1>4, <2>4, <4>3, <5>1
        <5>3. QED  BY <2>3, <4>3, <5>2
      <4>4. QED  BY <4>2, <4>3
    <3>4. QED  BY <2>3, <3>1, <3>2, <3>3 DEF IsChain
  <2>6. Reach(h, cut) = Range(p)  BY <2>3, <2>5, ReachChain
  <2>7. pred = {s[i-1]}
    <3>1. \A j \in 1 .. i - 1 : nx[s[j]] = n <=> j = i - 1
      <4>1. SUFFICES ASSUME NEW j \in 1 .. i - 1
                     PROVE  nx[s[j]] = n <=> j = i - 1
        OBVIOUS
      <4>2. j \in 1 .. Len(s) /\ j + 1 \in 1 .. Len(s) /\ j # Len(s)  OBVIOUS
      <4>3. nx[s[j]] = s[j+1]  BY <1>4, <4>2
      <4>4. s[j+1] = n <=> j + 1 = i  BY <1>3, <4>2
      <4>5. QED  BY <4>3, <4>4
    <3>2. Reach(h, cut) \ {n} = {s[j] : j \in 1 .. i - 1}
      BY <1>3, <2>3, <2>6 DEF Range
    <3>3. i - 1 \in 1 .. i - 1  BY <1>8
    <3>4. QED  BY <3>1, <3>2, <3>3
  <2> HIDE DEF pred
  <2>8. i - 1 \in 1 .. Len(s) /\ s[i-1] \in Range(s)  BY <1>8 DEF Range
  <2>9. r.head = h
        /\ r.next = [m \in Node |-> IF m = s[i-1] THEN Link(i) ELSE nx[m]]
    BY <1>4, <2>2, <2>7
  <2>10. r.next \in Heap
    <3>1. Link(i) \in Pointer  BY <1>4 DEF Pointer
    <3>2. QED  BY <2>9, <3>1 DEF Heap
  <2>11. \A m \in Node : r.next[m] = IF m = s[i-1] THEN Link(i) ELSE nx[m]
    BY <2>9
  <2>12. \A j \in 1 .. Len(t) : r.next[t[j]] = IF j = Len(t) THEN NULL ELSE t[j+1]
    <3>1. SUFFICES ASSUME NEW j \in 1 .. Len(t)
                   PROVE  r.next[t[j]] = IF j = Len(t) THEN NULL ELSE t[j+1]
      OBVIOUS
    <3>2. CASE j < i - 1
      <4>1. j \in 1 .. Len(s) /\ t[j] = s[j] /\ t[j+1] = s[j+1] /\ j # Len(t)
        BY <1>1, <3>2
      <4>2. s[j] # s[i-1] /\ s[j] \in Node  BY <1>3, <1>4, <2>8, <3>2, <4>1
      <4>3. nx[s[j]] = s[j+1]  BY <1>4, <3>2, <4>1
      <4>4. QED  BY <2>11, <4>1, <4>2, <4>3
    <3>3. CASE j = i - 1
      <4>1. t[j] = s[i-1] /\ s[i-1] \in Node  BY <1>1, <1>4, <2>8, <3>3
      <4>2. r.next[t[j]] = Link(i)  BY <2>11, <4>1
      <4>3. j = Len(t) <=> i = Len(s)  BY <1>1, <3>3
      <4>4. j # Len(t) => t[j+1] = s[i+1]  BY <1>1, <3>3
      <4>5. QED  BY <4>2, <4>3, <4>4
    <3>4. CASE j >= i
      <4>1. j + 1 \in 1 .. Len(s) /\ t[j] = s[j+1]  BY <1>1, <3>4
      <4>2. s[j+1] # s[i-1] /\ s[j+1] \in Node  BY <1>3, <1>4, <2>8, <3>4, <4>1
      <4>3. nx[s[j+1]] = Link(j+1)  BY <1>4, <4>1
      <4>4. j # Len(t) => t[j+1] = s[j+2]  BY <1>1, <3>4
      <4>5. QED  BY <1>1, <2>11, <4>1, <4>2, <4>3, <4>4
    <3>5. QED  BY <1>1, <3>2, <3>3, <3>4
  <2>13. t # <<>> /\ t[1] = h  BY <1>1, <1>2, <1>6, <1>8
  <2>14. IsChain(t, h, r.next)  BY <1>1, <1>5, <2>12, <2>13 DEF IsChain
  <2>15. h \in Pointer  BY <1>2, <1>4 DEF Pointer
  <2>16. QED  BY <1>0, <2>8, <2>9, <2>10, <2>11, <2>14, <2>15 DEF t, Leaves
<1>9. QED  BY <1>7, <1>8

-----------------------------------------------------------------------------
\* The lists with heads hd hold the sequences c, and no two share a node.
Holds(hd, nx, c) ==
  /\ c \in [List -> Seq(Node)]
  /\ \A l \in List : IsChain(c[l], hd[l], nx)
  /\ \A l, m \in List : l # m => Range(c[l]) \cap Range(c[m]) = {}

Contents == [l \in List |-> Chain(head[l], next)]

\* The inductive invariant.  That the lists are chains and that they are
\* disjoint are inductive only together, because list_push and list_delete of
\* one list write the links of all; Holds says both of the sequences held.
ListsInv == ListsTypeOK /\ Holds(head, next, Contents)

-----------------------------------------------------------------------------
\* What Holds says of the walks.
LEMMA HoldsFacts ==
  ASSUME NEW hd, NEW nx, NEW c, Holds(hd, nx, c)
  PROVE  /\ \A l \in List : Reach(hd[l], nx) = Range(c[l])
         /\ \A l \in List : Chain(hd[l], nx) = c[l]
         /\ \A l \in List : \E s \in SeqOf(Node, Cardinality(Node)) :
                               IsChain(s, hd[l], nx)
         /\ \A l, m \in List :
              l # m => Reach(hd[l], nx) \cap Reach(hd[m], nx) = {}
         /\ c = [l \in List |-> Chain(hd[l], nx)]
<1>1. \A l \in List : c[l] \in Seq(Node) /\ IsChain(c[l], hd[l], nx)
  BY DEF Holds
<1>2. \A l \in List : Reach(hd[l], nx) = Range(c[l])  BY <1>1, ReachChain
<1>3. \A l \in List : Chain(hd[l], nx) = c[l]  BY <1>1, ChainIs
<1>4. \A l \in List : c[l] \in SeqOf(Node, Cardinality(Node))
  BY <1>1, ChainIsBounded DEF IsChain
<1>5. c = [l \in List |-> Chain(hd[l], nx)]  BY <1>3 DEF Holds
<1>6. QED  BY <1>1, <1>2, <1>3, <1>4, <1>5 DEF Holds

\* An operation that gives list l the sequence t of nodes no other list holds,
\* and writes only links of nodes of l and of t, leaves the others alone.
LEMMA HoldsUpdate ==
  ASSUME NEW hd, NEW nx, NEW c, Holds(hd, nx, c), hd \in [List -> Pointer],
         NEW l \in List, NEW h, NEW ny, NEW t \in Seq(Node), IsChain(t, h, ny),
         \A m \in List \ {l} : Range(c[m]) \cap Range(t) = {},
         \A n \in Node \ (Range(c[l]) \cup Range(t)) : ny[n] = nx[n]
  PROVE  Holds([hd EXCEPT ![l] = h], ny, [c EXCEPT ![l] = t])
<1> DEFINE d == [c EXCEPT ![l] = t]
           hh == [hd EXCEPT ![l] = h]
<1>1. /\ d \in [List -> Seq(Node)] /\ d[l] = t /\ hh[l] = h
      /\ \A m \in List \ {l} : d[m] = c[m] /\ hh[m] = hd[m]
  BY DEF Holds
<1> HIDE DEF d, hh
<1>2. ASSUME NEW m \in List \ {l}  PROVE  IsChain(d[m], hh[m], ny)
  <2>1. c[m] \in Seq(Node) /\ IsChain(c[m], hd[m], nx)  BY DEF Holds
  <2>2. Range(c[m]) \subseteq Node  BY <2>1 DEF Range
  <2>3. Range(c[m]) \cap (Range(c[l]) \cup Range(t)) = {}  BY DEF Holds
  <2>4. \A n \in Range(c[m]) : ny[n] = nx[n]  BY <2>2, <2>3
  <2>5. IsChain(c[m], hd[m], ny)  BY <2>1, <2>4, ChainFrame
  <2>6. QED  BY <1>1, <2>5
<1>3. \A m \in List : IsChain(d[m], hh[m], ny)  BY <1>1, <1>2
<1>4. \A m \in List \ {l} : Range(d[m]) \cap Range(d[l]) = {}
  BY <1>1 DEF Holds
<1>5. \A m, k \in List : m # k => Range(d[m]) \cap Range(d[k]) = {}
  BY <1>1, <1>4 DEF Holds
<1>6. QED  BY <1>1, <1>3, <1>5 DEF Holds, d, hh

\* The invariant implies the properties the runs check.
LEMMA InvProperties == ListsInv => ListsTypeOK /\ ListsWellFormed /\ ListsDisjoint
BY HoldsFacts DEF ListsInv, ListsWellFormed, ListsDisjoint, Linked

\* A step that leaves well-formed lists behind keeps the invariant.
LEMMA HoldsInvNext ==
  ASSUME ListsTypeOK', NEW c, Holds(head', next', c)
  PROVE  ListsInv' /\ Contents' = c
<1>1. Contents' = c  BY HoldsFacts DEF Contents
<1>2. QED  BY <1>1 DEF ListsInv

\* What a list.c function returned becomes the state.
LEMMA BecomesNext ==
  ASSUME ListsInv, NEW l \in List, NEW r, Becomes(l, r), NEW t \in Seq(Node),
         NEW X, Leaves(r, t, next, X), X \subseteq Range(Contents[l]) \cup Range(t),
         \A m \in List \ {l} : Range(Contents[m]) \cap Range(t) = {}
  PROVE  ListsInv' /\ Contents' = [Contents EXCEPT ![l] = t]
<1>1. head \in [List -> Pointer] /\ next \in Heap  BY DEF ListsInv, ListsTypeOK
<1>2. head' = [head EXCEPT ![l] = r.head] /\ next' = r.next  BY DEF Becomes
<1>3. ListsTypeOK'  BY <1>1, <1>2 DEF ListsTypeOK, Leaves
<1>4. Holds(head, next, Contents)  BY DEF ListsInv
<1>5. Holds([head EXCEPT ![l] = r.head], r.next, [Contents EXCEPT ![l] = t])
  <2>1. IsChain(t, r.head, r.next)  BY DEF Leaves
  <2>2. \A n \in Node \ (Range(Contents[l]) \cup Range(t)) : r.next[n] = next[n]
    BY DEF Leaves
  <2>3. QED  BY <1>1, <1>4, <2>1, <2>2, HoldsUpdate
<1>6. QED  BY <1>2, <1>3, <1>5, HoldsInvNext

LEMMA UnlinkedContents ==
  ASSUME ListsInv, NEW n \in Node
  PROVE  Unlinked(n) <=> \A m \in List : n \notin Range(Contents[m])
<1>1. \A m \in List : Linked(m) = Range(Contents[m])
  BY HoldsFacts DEF ListsInv, Linked
<1>2. QED  BY <1>1 DEF Unlinked

LEMMA ContentsFacts ==
  ASSUME ListsInv, NEW l \in List
  PROVE  /\ Contents[l] \in Seq(Node)
         /\ IsChain(Contents[l], head[l], next)
         /\ head[l] \in Pointer /\ next \in Heap
         /\ Range(Contents[l]) \subseteq Node
         /\ Linked(l) = Range(Contents[l])
<1>1. Holds(head, next, Contents)  BY DEF ListsInv
<1>2. Contents[l] \in Seq(Node) /\ IsChain(Contents[l], head[l], next)
  BY <1>1 DEF Holds
<1>3. Linked(l) = Range(Contents[l])  BY <1>1, HoldsFacts DEF Linked
<1>4. QED  BY <1>2, <1>3 DEF Range, ListsInv, ListsTypeOK

\* list_init empties its list.
LEMMA ReinitStep ==
  ASSUME ListsInv, NEW l \in List, Reinit(l)
  PROVE  ListsInv' /\ Contents' = [Contents EXCEPT ![l] = <<>>]
<1>1. PICK r : r = [head |-> NULL, next |-> next]  OBVIOUS
<1>2. Becomes(l, r)  BY <1>1 DEF Becomes, Reinit
<1>3. PICK t : t = <<>>  OBVIOUS
<1>4. IsChain(t, NULL, next)  BY <1>3 DEF IsChain, IsInjective
<1>5. NULL \in Pointer /\ next \in Heap  BY ContentsFacts DEF Pointer
<1>6. Leaves(r, t, next, {})  BY <1>1, <1>4, <1>5 DEF Leaves
<1>7. t \in Seq(Node) /\ Range(t) = {}  BY <1>3 DEF Range
<1>8. ListsInv' /\ Contents' = [Contents EXCEPT ![l] = t]
  BY <1>2, <1>6, <1>7, BecomesNext
<1>9. QED  BY <1>3, <1>8

\* list_add_front puts an unlinked node first.
LEMMA AddFrontStep ==
  ASSUME ListsInv, NEW l \in List, NEW n \in Node, AddFront(l, n)
  PROVE  ListsInv' /\ Contents' = [Contents EXCEPT ![l] = <<n>> \o Contents[l]]
<1>1. PICK r : r = ListAddFront(head[l], next, n)  OBVIOUS
<1>2. PICK s : s = Contents[l]  OBVIOUS
<1>3. PICK t : t = <<n>> \o s  OBVIOUS
<1>4. Becomes(l, r) /\ \A m \in List : n \notin Range(Contents[m])
  BY <1>1, UnlinkedContents DEF AddFront
<1>5. s \in Seq(Node) /\ IsChain(s, head[l], next) /\ next \in Heap
  BY <1>2, ContentsFacts
<1>6. n \notin Range(s)  BY <1>2, <1>4
<1>7. Leaves(r, t, next, {n})  BY <1>1, <1>3, <1>5, <1>6, AddFrontChain
<1>8. t \in Seq(Node) /\ Range(t) = Range(s) \cup {n}
  <2>1. /\ t \in Seq(Node) /\ Len(t) = Len(s) + 1 /\ t[1] = n
        /\ \A i \in 1 .. Len(s) : t[i+1] = s[i]
        /\ \A i \in 2 .. Len(t) : t[i] = s[i-1]
    BY <1>3, <1>5
  <2>2. Range(t) \subseteq Range(s) \cup {n}  BY <1>5, <2>1 DEF Range
  <2>3. n \in Range(t)  BY <1>5, <2>1 DEF Range
  <2>4. \A i \in 1 .. Len(s) : s[i] \in Range(t)
    <3>1. SUFFICES ASSUME NEW i \in 1 .. Len(s) PROVE s[i] \in Range(t)  OBVIOUS
    <3>2. PICK k \in 1 .. Len(t) : t[k] = s[i]  BY <1>5, <2>1
    <3>3. k \in DOMAIN t  BY <2>1
    <3>4. QED  BY <3>2, <3>3 DEF Range
  <2>5. Range(s) \subseteq Range(t)  BY <1>5, <2>4 DEF Range
  <2>6. QED  BY <2>1, <2>2, <2>3, <2>5
<1>9. \A m \in List \ {l} : Range(Contents[m]) \cap Range(t) = {}
  BY <1>2, <1>4, <1>8 DEF ListsInv, Holds
<1>10. {n} \subseteq Range(Contents[l]) \cup Range(t)  BY <1>8
<1>11. ListsInv' /\ Contents' = [Contents EXCEPT ![l] = t]
  BY <1>4, <1>7, <1>8, <1>9, <1>10, BecomesNext
<1>12. QED  BY <1>2, <1>3, <1>11

\* list_push puts an unlinked node last.
LEMMA PushStep ==
  ASSUME ListsInv, NEW l \in List, NEW n \in Node, Push(l, n)
  PROVE  ListsInv' /\ Contents' = [Contents EXCEPT ![l] = Append(Contents[l], n)]
<1>1. PICK r : r = ListPush(head[l], next, n)  OBVIOUS
<1>2. PICK s : s = Contents[l]  OBVIOUS
<1>3. PICK t : t = Append(s, n)  OBVIOUS
<1>4. Becomes(l, r) /\ \A m \in List : n \notin Range(Contents[m])
  BY <1>1, UnlinkedContents DEF Push
<1>5. s \in Seq(Node) /\ IsChain(s, head[l], next) /\ next \in Heap
  BY <1>2, ContentsFacts
<1>6. n \notin Range(s)  BY <1>2, <1>4
<1>7. Leaves(r, t, next, Range(s) \cup {n})  BY <1>1, <1>3, <1>5, <1>6, PushChain
<1>8. t \in Seq(Node) /\ Range(t) = Range(s) \cup {n}
  BY <1>3, <1>5, RangeAppend
<1>9. \A m \in List \ {l} : Range(Contents[m]) \cap Range(t) = {}
  BY <1>2, <1>4, <1>8 DEF ListsInv, Holds
<1>10. Range(s) \cup {n} \subseteq Range(Contents[l]) \cup Range(t)  BY <1>8
<1>11. ListsInv' /\ Contents' = [Contents EXCEPT ![l] = t]
  BY <1>4, <1>7, <1>8, <1>9, <1>10, BecomesNext
<1>12. QED  BY <1>2, <1>3, <1>11

\* list_delete closes the gap, or does nothing when the node is not there.
LEMMA DeleteStep ==
  ASSUME ListsInv, NEW l \in List, NEW n \in Node, Delete(l, n)
  PROVE  /\ ListsInv'
         /\ \A i \in 1 .. Len(Contents[l]) :
              Contents[l][i] = n =>
                Contents' = [Contents EXCEPT ![l] = RemoveAt(Contents[l], i)]
         /\ n \notin Range(Contents[l]) => UNCHANGED <<head, next, Contents>>
<1>1. PICK r : r = ListDelete(head[l], next, n)  OBVIOUS
<1>2. PICK s : s = Contents[l]  OBVIOUS
<1>3. Becomes(l, r)  BY <1>1 DEF Delete
<1>4. /\ s \in Seq(Node) /\ IsChain(s, head[l], next) /\ next \in Heap
      /\ Range(s) \subseteq Node
  BY <1>2, ContentsFacts
<1>5. ASSUME n \notin Range(s)
      PROVE  ListsInv' /\ UNCHANGED <<head, next, Contents>>
  <2>1. r = [head |-> head[l], next |-> next]  BY <1>1, <1>4, <1>5, DeleteAbsent
  <2>2. head' = head /\ next' = next
    BY <1>3, <2>1 DEF Becomes, ListsInv, ListsTypeOK
  <2>3. Contents' = Contents  BY <2>2 DEF Contents
  <2>4. ListsInv'
    BY <2>2, <2>3 DEF ListsInv, ListsTypeOK
  <2>5. QED  BY <2>2, <2>3, <2>4
<1>6. ASSUME NEW i \in 1 .. Len(s), s[i] = n
      PROVE  ListsInv' /\ Contents' = [Contents EXCEPT ![l] = RemoveAt(s, i)]
  <2>1. PICK t : t = RemoveAt(s, i)  OBVIOUS
  <2>2. Leaves(r, t, next, Range(s))
    <3>1. r = ListDelete(head[l], next, s[i])  BY <1>1, <1>6
    <3>2. QED  BY <1>4, <2>1, <3>1, DeleteChain
  <2>3. t \in Seq(Node) /\ Range(t) \subseteq Range(s)
    BY <1>4, <2>1, RangeRemoveAt
  <2>4. \A m \in List \ {l} : Range(Contents[m]) \cap Range(t) = {}
    BY <1>2, <2>3 DEF ListsInv, Holds
  <2>5. Range(s) \subseteq Range(Contents[l]) \cup Range(t)  BY <1>2
  <2>6. ListsInv' /\ Contents' = [Contents EXCEPT ![l] = t]
    BY <1>3, <2>2, <2>3, <2>4, <2>5, BecomesNext
  <2>7. QED  BY <2>1, <2>6
<1>7. n \in Range(s) => \E i \in 1 .. Len(s) : s[i] = n  BY <1>4 DEF Range
<1>8. ListsInv'  BY <1>5, <1>6, <1>7
<1>9. \A i \in 1 .. Len(s) :
        s[i] = n => Contents' = [Contents EXCEPT ![l] = RemoveAt(s, i)]
  BY <1>6
<1>10. QED  BY <1>2, <1>5, <1>8, <1>9

-----------------------------------------------------------------------------
\* Every step of a list keeps the invariant.  Clients of list.c, whose steps
\* are steps of their lists or leave them alone, build on this.
LEMMA ListsStep == ListsInv /\ [ListsNext]_listVars => ListsInv'
<1>1. SUFFICES ASSUME ListsInv, [ListsNext]_listVars PROVE ListsInv'  OBVIOUS
<1>2. ASSUME NEW l \in List, Reinit(l)  PROVE ListsInv'  BY <1>1, <1>2, ReinitStep
<1>3. ASSUME NEW l \in List, NEW n \in Node, AddFront(l, n)  PROVE ListsInv'
  BY <1>1, <1>3, AddFrontStep
<1>4. ASSUME NEW l \in List, NEW n \in Node, Push(l, n)  PROVE ListsInv'
  BY <1>1, <1>4, PushStep
<1>5. ASSUME NEW l \in List, NEW n \in Node, Delete(l, n)  PROVE ListsInv'
  BY <1>1, <1>5, DeleteStep
<1>6. CASE UNCHANGED listVars
  BY <1>1, <1>6 DEF ListsInv, ListsTypeOK, Contents, listVars
<1>7. QED  BY <1>1, <1>2, <1>3, <1>4, <1>5, <1>6 DEF ListsNext

LEMMA ListsStart == ListsInit => ListsInv /\ Contents = [l \in List |-> <<>>]
<1>1. SUFFICES ASSUME ListsInit
               PROVE  ListsInv /\ Contents = [l \in List |-> <<>>]
  OBVIOUS
<1>2. ListsTypeOK  BY <1>1 DEF ListsInit, ListsTypeOK, Pointer
<1>3. PICK c : c = [l \in List |-> <<>>]  OBVIOUS
<1>4. Holds(head, next, c)
  <2>1. \A l \in List : c[l] = <<>> /\ head[l] = NULL  BY <1>1, <1>3 DEF ListsInit
  <2>2. IsChain(<<>>, NULL, next) /\ Range(<<>>) = {}
    BY DEF IsChain, IsInjective, Range
  <2>3. <<>> \in Seq(Node)  OBVIOUS
  <2>4. c \in [List -> Seq(Node)]  BY <1>3, <2>3
  <2>5. QED  BY <2>1, <2>2, <2>4 DEF Holds
<1>5. Contents = c  BY <1>4, HoldsFacts DEF Contents
<1>6. QED  BY <1>2, <1>3, <1>4, <1>5 DEF ListsInv

LEMMA ListsInvariant == ListsSpec => []ListsInv
<1>1. ListsInit => ListsInv  BY ListsStart
<1>2. QED  BY <1>1, ListsStep, PTL DEF ListsSpec

\* Pointers stay nodes or null.
THEOREM ListsTypeCorrect == ListsSpec => []ListsTypeOK
<1>1. ListsInv => ListsTypeOK  BY InvProperties
<1>2. QED  BY <1>1, ListsInvariant, PTL

\* Every list of every program that keeps the rule of use is a chain that
\* ends, however many lists and nodes there are.
THEOREM ListsStayWellFormed == ListsSpec => []ListsWellFormed
<1>1. ListsInv => ListsWellFormed  BY InvProperties
<1>2. QED  BY <1>1, ListsInvariant, PTL

\* And no two lists ever share a node.
THEOREM ListsStayDisjoint == ListsSpec => []ListsDisjoint
<1>1. ListsInv => ListsDisjoint  BY InvProperties
<1>2. QED  BY <1>1, ListsInvariant, PTL

-----------------------------------------------------------------------------
\* What the operations do to the nodes linked, for the clients that walk a list
\* while it changes.
LEMMA LinkedNext ==
  ASSUME ListsInv', NEW l \in List
  PROVE  Linked(l)' = Range(Contents'[l])
<1>1. Holds(head', next', Contents')  BY DEF ListsInv
<1>2. Reach(head'[l], next') = Range(Contents'[l])  BY <1>1, HoldsFacts
<1>3. QED  BY <1>2 DEF Linked

LEMMA PushLinked ==
  ASSUME ListsInv, NEW l \in List, NEW n \in Node, Push(l, n)
  PROVE  Linked(l)' = Linked(l) \cup {n}
<1>1. PICK s : s = Contents[l]  OBVIOUS
<1>2. s \in Seq(Node) /\ Linked(l) = Range(s)  BY <1>1, ContentsFacts
<1>3. ListsInv' /\ Contents' = [Contents EXCEPT ![l] = Append(s, n)]
  BY <1>1, PushStep
<1>4. Contents'[l] = Append(s, n)  BY <1>3 DEF Contents
<1>5. QED  BY <1>2, <1>3, <1>4, LinkedNext, RangeAppend

LEMMA DeleteLinked ==
  ASSUME ListsInv, NEW l \in List, NEW n \in Node, Delete(l, n)
  PROVE  Linked(l) \ {n} \subseteq Linked(l)' /\ Linked(l)' \subseteq Linked(l)
<1>1. PICK s : s = Contents[l]  OBVIOUS
<1>2. s \in Seq(Node) /\ Linked(l) = Range(s)  BY <1>1, ContentsFacts
<1>3. ListsInv'  BY DeleteStep
<1>4. CASE n \notin Range(s)
  <2>1. Contents' = Contents  BY <1>1, <1>4, DeleteStep
  <2>2. QED  BY <1>1, <1>2, <1>3, <2>1, LinkedNext
<1>5. CASE n \in Range(s)
  <2>1. PICK i \in 1 .. Len(s) : s[i] = n  BY <1>2, <1>5 DEF Range
  <2>2. PICK t : t = RemoveAt(s, i)  OBVIOUS
  <2>3. Contents' = [Contents EXCEPT ![l] = t]  BY <1>1, <2>1, <2>2, DeleteStep
  <2>4. Contents'[l] = t  BY <2>3 DEF Contents
  <2>5. Range(t) \subseteq Range(s)  BY <1>2, <2>2, RangeRemoveAt
  <2>6. /\ t \in Seq(Node) /\ Len(t) = Len(s) - 1
        /\ \A j \in 1 .. Len(s) - 1 : t[j] = IF j < i THEN s[j] ELSE s[j+1]
    BY <1>2, <2>2, RemoveAtProperties
  <2>7. ASSUME NEW j \in 1 .. Len(s), s[j] # n  PROVE  s[j] \in Range(t)
    <3>1. CASE j < i
      <4>1. j \in 1 .. Len(s) - 1 /\ t[j] = s[j]  BY <1>2, <2>1, <2>6, <3>1
      <4>2. j \in DOMAIN t  BY <2>6, <4>1
      <4>3. QED  BY <4>1, <4>2 DEF Range
    <3>2. CASE j > i
      <4>1. j - 1 \in 1 .. Len(s) - 1 /\ t[j-1] = s[j]
        BY <1>2, <2>1, <2>6, <3>2
      <4>2. j - 1 \in DOMAIN t  BY <2>6, <4>1
      <4>3. QED  BY <4>1, <4>2 DEF Range
    <3>3. QED  BY <2>1, <2>7, <3>1, <3>2
  <2>8. Range(s) \ {n} \subseteq Range(t)  BY <1>2, <2>7 DEF Range
  <2>9. QED  BY <1>2, <1>3, <2>4, <2>5, <2>8, LinkedNext
<1>6. QED  BY <1>4, <1>5

LEMMA DeletedIsGone ==
  ASSUME ListsInv, NEW l \in List, NEW n \in Node, Delete(l, n)
  PROVE  n \notin Linked(l)'
<1>1. PICK s : s = Contents[l]  OBVIOUS
<1>2. s \in Seq(Node) /\ IsInjective(s)
  BY <1>1, ContentsFacts DEF IsChain
<1>3. ListsInv'  BY DeleteStep
<1>4. CASE n \notin Range(s)
  <2>1. Contents' = Contents  BY <1>1, <1>4, DeleteStep
  <2>2. QED  BY <1>1, <1>3, <1>4, <2>1, LinkedNext
<1>5. CASE n \in Range(s)
  <2>1. PICK i \in 1 .. Len(s) : s[i] = n  BY <1>2, <1>5 DEF Range
  <2>2. PICK t : t = RemoveAt(s, i)  OBVIOUS
  <2>3. Contents' = [Contents EXCEPT ![l] = t]  BY <1>1, <2>1, <2>2, DeleteStep
  <2>4. Contents'[l] = t  BY <2>3 DEF Contents
  <2>5. /\ t \in Seq(Node) /\ Len(t) = Len(s) - 1
        /\ \A j \in 1 .. Len(s) - 1 : t[j] = IF j < i THEN s[j] ELSE s[j+1]
    BY <1>2, <2>2, RemoveAtProperties
  <2>6. \A j \in 1 .. Len(s) : j # i => s[j] # n
    BY <1>2, <2>1 DEF IsInjective
  <2>7. ASSUME NEW j \in 1 .. Len(s) - 1  PROVE t[j] # n
    <3>1. /\ j \in 1 .. Len(s) /\ j + 1 \in 1 .. Len(s)
          /\ (j < i => j # i) /\ (~(j < i) => j + 1 # i)
      BY <1>2, <2>1
    <3>2. QED  BY <2>5, <2>6, <3>1
  <2>8. n \notin Range(t)  BY <2>5, <2>7 DEF Range
  <2>9. QED  BY <1>3, <2>4, <2>8, LinkedNext
<1>6. QED  BY <1>4, <1>5

\* An operation on one list does not change what another holds.
LEMMA OtherContentsStay ==
  ASSUME ListsInv, NEW l \in List, NEW m \in List \ {l}, NEW n \in Node,
         Push(l, n) \/ Delete(l, n)
  PROVE  ListsInv' /\ Contents'[m] = Contents[m]
<1>1. CASE Push(l, n)
  <2>1. ListsInv' /\ Contents' = [Contents EXCEPT ![l] = Append(Contents[l], n)]
    BY <1>1, PushStep
  <2>2. QED  BY <2>1 DEF Contents
<1>2. CASE Delete(l, n)
  <2>1. ListsInv'  BY <1>2, DeleteStep
  <2>2. CASE n \notin Range(Contents[l])
    BY <1>2, <2>1, <2>2, DeleteStep
  <2>3. CASE n \in Range(Contents[l])
    <3>1. Contents[l] \in Seq(Node)  BY ContentsFacts
    <3>2. PICK i \in 1 .. Len(Contents[l]) : Contents[l][i] = n
      BY <2>3, <3>1 DEF Range
    <3>3. Contents' = [Contents EXCEPT ![l] = RemoveAt(Contents[l], i)]
      BY <1>2, <3>2, DeleteStep
    <3>4. QED  BY <2>1, <3>3 DEF Contents
  <2>4. QED  BY <2>2, <2>3
<1>3. QED  BY <1>1, <1>2

LEMMA OtherListsStay ==
  ASSUME ListsInv, NEW l \in List, NEW m \in List \ {l}, NEW n \in Node,
         Push(l, n) \/ Delete(l, n)
  PROVE  Linked(m)' = Linked(m)
BY OtherContentsStay, ContentsFacts, LinkedNext

\* What the operations leave on the lists, whichever list they are called for.
LEMMA PushKeeps ==
  ASSUME ListsInv, NEW l \in List, NEW m \in List, NEW n \in Node, Push(l, n)
  PROVE  /\ Linked(m) \subseteq Linked(m)'
         /\ Linked(m)' \subseteq Linked(m) \cup (IF m = l THEN {n} ELSE {})
<1>1. CASE m = l  BY <1>1, PushLinked
<1>2. CASE m # l  BY <1>2, OtherListsStay
<1>3. QED  BY <1>1, <1>2

LEMMA DeleteKeeps ==
  ASSUME ListsInv, NEW l \in List, NEW m \in List, NEW n \in Node, Delete(l, n)
  PROVE  Linked(m) \ {n} \subseteq Linked(m)' /\ Linked(m)' \subseteq Linked(m)
<1>1. CASE m = l  BY <1>1, DeleteLinked
<1>2. CASE m # l  BY <1>2, OtherListsStay
<1>3. QED  BY <1>1, <1>2

\* A walk of list l stays on it.
LEMMA HoldsWalk ==
  ASSUME NEW hd, NEW nx, NEW c, Holds(hd, nx, c), NEW l \in List
  PROVE  /\ hd[l] \in Range(c[l]) \cup {NULL}
         /\ \A n \in Range(c[l]) : nx[n] \in (Range(c[l]) \ {n}) \cup {NULL}
<1>1. PICK s : s = c[l]  OBVIOUS
<1>2. s \in Seq(Node) /\ IsChain(s, hd[l], nx)  BY <1>1 DEF Holds
<1>3. hd[l] \in Range(s) \cup {NULL}  BY <1>2 DEF IsChain, Range
<1>4. ASSUME NEW i \in 1 .. Len(s)
      PROVE  nx[s[i]] \in (Range(s) \ {s[i]}) \cup {NULL}
  <2>1. CASE i = Len(s)  BY <1>2, <2>1 DEF IsChain
  <2>2. CASE i < Len(s)
    <3>1. i + 1 \in 1 .. Len(s) /\ nx[s[i]] = s[i+1]
      BY <1>2, <2>2 DEF IsChain
    <3>2. s[i+1] \in Range(s)  BY <1>2, <3>1 DEF Range
    <3>3. s[i+1] # s[i]  BY <1>2, <3>1 DEF IsChain, IsInjective
    <3>4. QED  BY <3>1, <3>2, <3>3
  <2>3. QED  BY <1>2, <2>1, <2>2
<1>5. QED  BY <1>1, <1>2, <1>3, <1>4 DEF Range

LEMMA WalkStaysOn ==
  ASSUME ListsInv, NEW l \in List
  PROVE  /\ head[l] \in Linked(l) \cup {NULL}
         /\ \A n \in Linked(l) : next[n] \in (Linked(l) \ {n}) \cup {NULL}
<1>1. Holds(head, next, Contents)  BY DEF ListsInv
<1>2. Linked(l) = Range(Contents[l])  BY ContentsFacts
<1>3. QED  BY <1>1, <1>2, HoldsWalk

LEMMA WalkStaysOnNext ==
  ASSUME ListsInv', NEW l \in List
  PROVE  \A n \in Linked(l)' : next'[n] \in (Linked(l)' \ {n}) \cup {NULL}
<1>1. Holds(head', next', Contents')  BY DEF ListsInv
<1>2. Linked(l)' = Range(Contents'[l])  BY LinkedNext
<1>3. QED  BY <1>1, <1>2, HoldsWalk

\* What they do to the links, for the clients whose walks leave the list.
LEMMA PushLinks ==
  ASSUME ListsInv, NEW l \in List, NEW n \in Node, Push(l, n)
  PROVE  /\ \A m \in Node : next'[m] \in {next[m], n, NULL}
         /\ \A m \in Node \ {n} : m \notin Linked(l) => next'[m] = next[m]
<1>1. PICK s : s = Contents[l]  OBVIOUS
<1>2. /\ s \in Seq(Node) /\ Linked(l) = Range(s) /\ next \in Heap
      /\ IsChain(s, head[l], next)
  BY <1>1, ContentsFacts
<1>3. n \notin Range(s)  BY <1>2 DEF Push, Unlinked
<1>4. next' = ListPush(head[l], next, n).next  BY DEF Push, Becomes
<1>5. \A m \in Node : next'[m] \in {next[m], n, NULL}
  BY <1>2, <1>4 DEF ListPush, Heap
<1>6. Leaves(ListPush(head[l], next, n), Append(s, n), next, Range(s) \cup {n})
  BY <1>2, <1>3, PushChain
<1>7. \A m \in Node \ {n} : m \notin Linked(l) => next'[m] = next[m]
  BY <1>2, <1>4, <1>6 DEF Leaves
<1>8. QED  BY <1>5, <1>7

LEMMA DeleteLinks ==
  ASSUME ListsInv, NEW l \in List, NEW n \in Node, Delete(l, n)
  PROVE  /\ \A m \in Node : \/ next'[m] = next[m]
                            \/ next[m] = n /\ next'[m] = next[n]
         /\ next'[n] = next[n]
         /\ \A m \in Node : m \notin Linked(l) => next'[m] = next[m]
<1>1. PICK s : s = Contents[l]  OBVIOUS
<1>2. /\ s \in Seq(Node) /\ Linked(l) = Range(s) /\ next \in Heap
      /\ IsChain(s, head[l], next)
  BY <1>1, ContentsFacts
<1>3. next' = ListDelete(head[l], next, n).next  BY DEF Delete, Becomes
<1>4. /\ \A m \in Node : \/ next'[m] = next[m]
                         \/ next[m] = n /\ next'[m] = next[n]
      /\ next'[n] = next[n]
  BY <1>2, <1>3 DEF ListDelete, Heap
<1>5. CASE n \notin Range(s)
  <2>1. next' = next  BY <1>2, <1>3, <1>5, DeleteAbsent
  <2>2. QED  BY <1>4, <2>1
<1>6. CASE n \in Range(s)
  <2>1. PICK i \in 1 .. Len(s) : s[i] = n  BY <1>2, <1>6 DEF Range
  <2>2. Leaves(ListDelete(head[l], next, n), RemoveAt(s, i), next, Range(s))
    BY <1>2, <2>1, DeleteChain
  <2>3. \A m \in Node : m \notin Linked(l) => next'[m] = next[m]
    BY <1>2, <1>3, <2>2 DEF Leaves
  <2>4. QED  BY <1>4, <2>3
<1>7. QED  BY <1>5, <1>6

-----------------------------------------------------------------------------
\* A node is on no list of the heap exactly when it is in no sequence.
LEMMA UnlinkedAbstract ==
  ASSUME ListsInv, NEW n \in Node
  PROVE  Unlinked(n) <=> ~Abstract!OnSomeList(n)
<1>1. Unlinked(n) <=> \A m \in List : n \notin Range(Contents[m])
  BY UnlinkedContents
<1>2. Abstract!OnSomeList(n) <=> \E m \in List : n \in Range(Contents[m])
  BY DEF Abstract!OnSomeList, Abstract!Range, Range, Contents
<1>3. QED  BY <1>1, <1>2

LEMMA ImplementsStep ==
  ListsInv /\ [ListsNext]_listVars => [Abstract!Next]_Contents
<1>1. SUFFICES ASSUME ListsInv, [ListsNext]_listVars
               PROVE  Abstract!Next \/ UNCHANGED Contents
  OBVIOUS
<1>2. Contents \in [List -> Seq(Node)]  BY <1>1 DEF ListsInv, Holds
<1>3. ASSUME NEW l \in List, Reinit(l)  PROVE Abstract!Clear(l)
  BY <1>1, <1>3, ReinitStep DEF Abstract!Clear, Contents
<1>4. ASSUME NEW l \in List, NEW n \in Node, AddFront(l, n)
      PROVE  Abstract!AddFront(l, n)
  <2>1. ~Abstract!OnSomeList(n)  BY <1>1, <1>4, UnlinkedAbstract DEF AddFront
  <2>2. Contents' = [Contents EXCEPT ![l] = <<n>> \o Contents[l]]
    BY <1>1, <1>4, AddFrontStep
  <2>3. QED  BY <2>1, <2>2 DEF Abstract!AddFront, Contents
<1>5. ASSUME NEW l \in List, NEW n \in Node, Push(l, n)
      PROVE  Abstract!Push(l, n)
  <2>1. ~Abstract!OnSomeList(n)  BY <1>1, <1>5, UnlinkedAbstract DEF Push
  <2>2. Contents' = [Contents EXCEPT ![l] = Append(Contents[l], n)]
    BY <1>1, <1>5, PushStep
  <2>3. QED  BY <2>1, <2>2 DEF Abstract!Push, Contents
<1>6. ASSUME NEW l \in List, NEW n \in Node, Delete(l, n)
      PROVE  Abstract!Delete(l, n)
  <2>1. CASE n \notin Range(Contents[l])
    <3>1. Contents' = Contents  BY <1>1, <1>6, <2>1, DeleteStep
    <3>2. QED  BY <2>1, <3>1 DEF Abstract!Delete, Abstract!Range, Range, Contents
  <2>2. CASE n \in Range(Contents[l])
    <3>1. PICK i \in DOMAIN Contents[l] : Contents[l][i] = n  BY <2>2 DEF Range
    <3>2. i \in 1 .. Len(Contents[l])  BY <1>2, <3>1
    <3>3. Contents' = [Contents EXCEPT ![l] = RemoveAt(Contents[l], i)]
      BY <1>1, <1>6, <3>1, <3>2, DeleteStep
    <3>4. QED  BY <3>1, <3>3
              DEF Abstract!Delete, Abstract!RemoveAt, RemoveAt, Contents
  <2>3. QED  BY <2>1, <2>2
<1>7. CASE UNCHANGED listVars  BY <1>7 DEF listVars, Contents
<1>8. QED  BY <1>1, <1>3, <1>4, <1>5, <1>6, <1>7 DEF ListsNext, Abstract!Next

\* The pointer code keeps the promise of the list API for every set of lists
\* and every finite set of nodes.
THEOREM ListsImplement == ListsSpec => ImplementsAbstractLists
<1>1. ListsInit => Abstract!Init  BY ListsStart DEF Abstract!Init, Contents
<1>2. ListsInv /\ [ListsNext]_listVars => [Abstract!Next]_Contents
  BY ImplementsStep
<1>3. QED  BY <1>1, <1>2, ListsInvariant, PTL
           DEF ListsSpec, ImplementsAbstractLists, Abstract!Spec, Contents
=============================================================================

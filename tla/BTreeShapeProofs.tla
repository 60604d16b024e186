-------------------------- MODULE BTreeShapeProofs --------------------------
(***************************************************************************)
(* What a B-tree in a heap of nodes is (Tree), and that the operations on  *)
(* nodes keep it, for every T: split_child, a key put into, taken out of   *)
(* or replaced in a node, the first node, a new root above a full one, a   *)
(* root given back, merge, borrowFromPrev and borrowFromNext.              *)
(*                                                                         *)
(* A heap, the nodes in use, the topmost node and the heights are          *)
(* parameters here: an operation passes through heaps that are no state of *)
(* the tree. Of each operation there is a description of the heap it       *)
(* computes (SplitOf, ...) and a lemma that such a heap is a tree again.   *)
(***************************************************************************)
EXTENDS BTree1d, FiniteSetTheorems, SequenceTheorems, WellFoundedInduction,
        NaturalsInduction, TLAPS

(* What SubSeq gives inside a sequence: its type, its length, its           *)
(* elements.                                                                *)
LEMMA SubSeqFacts ==
    ASSUME NEW S, NEW s \in Seq(S), NEW a \in Int, NEW b \in Int,
           1 <= a, a <= b + 1, b <= Len(s)
    PROVE  /\ SubSeq(s, a, b) \in Seq(S)
           /\ Len(SubSeq(s, a, b)) = b - a + 1
           /\ \A j \in 1..(b - a + 1) : SubSeq(s, a, b)[j] = s[a + j - 1]
<1>1. \A j \in a..b : s[j] \in S
  BY LenProperties, ElementOfSeq
<1> QED BY <1>1, SubSeqProperties

(* What InsertAt gives: shift_keys and shift_childs, then the new element. *)
LEMMA InsertAtFacts ==
    ASSUME NEW S, NEW s \in Seq(S), NEW i \in 1..(Len(s) + 1), NEW e \in S
    PROVE  /\ InsertAt(s, i, e) \in Seq(S)
           /\ Len(InsertAt(s, i, e)) = Len(s) + 1
           /\ \A j \in 1..(Len(s) + 1) : InsertAt(s, i, e)[j] =
                 IF j < i THEN s[j] ELSE IF j = i THEN e ELSE s[j - 1]
<1> DEFINE lo == SubSeq(s, 1, i - 1)
           hi == SubSeq(s, i, Len(s))
<1>0. Len(s) \in Nat
  BY LenProperties
<1>1. /\ lo \in Seq(S)
      /\ Len(lo) = i - 1
      /\ \A j \in 1..(i - 1) : lo[j] = s[j]
  <2>1. /\ SubSeq(s, 1, i - 1) \in Seq(S)
        /\ Len(SubSeq(s, 1, i - 1)) = (i - 1) - 1 + 1
        /\ \A j \in 1..((i - 1) - 1 + 1) : SubSeq(s, 1, i - 1)[j] = s[1 + j - 1]
    BY <1>0, SubSeqFacts
  <2> QED BY <2>1
<1>2. /\ hi \in Seq(S)
      /\ Len(hi) = Len(s) - i + 1
      /\ \A j \in 1..(Len(s) - i + 1) : hi[j] = s[i + j - 1]
  BY <1>0, SubSeqFacts
<1>3. /\ <<e>> \in Seq(S)
      /\ Len(<<e>>) = 1
      /\ <<e>>[1] = e
  OBVIOUS
<1> HIDE DEF lo, hi
<1>4. /\ lo \o <<e>> \in Seq(S)
      /\ Len(lo \o <<e>>) = i
      /\ \A j \in 1..i : (lo \o <<e>>)[j] = IF j < i THEN s[j] ELSE e
  BY <1>0, <1>1, <1>3, ConcatProperties
<1>5. /\ (lo \o <<e>>) \o hi \in Seq(S)
      /\ Len((lo \o <<e>>) \o hi) = Len(s) + 1
      /\ \A j \in 1..(Len(s) + 1) : ((lo \o <<e>>) \o hi)[j] =
            IF j <= i THEN (lo \o <<e>>)[j] ELSE hi[j - i]
  <2> DEFINE start == lo \o <<e>>
  <2>1. start \in Seq(S) /\ Len(start) = i /\ Len(start) + Len(hi) = Len(s) + 1
    <3>1. Len(start) = i /\ start \in Seq(S)
      BY <1>4
    <3>2. Len(hi) = Len(s) - i + 1
      BY <1>2
    <3> HIDE DEF start
    <3> QED BY <1>0, <3>1, <3>2
  <2> HIDE DEF start
  <2>2. /\ start \o hi \in Seq(S)
        /\ Len(start \o hi) = Len(start) + Len(hi)
        /\ \A j \in 1..(Len(start) + Len(hi)) : (start \o hi)[j] =
              IF j <= Len(start) THEN start[j] ELSE hi[j - Len(start)]
    BY <1>2, <2>1, ConcatProperties
  <2>3. /\ start \o hi \in Seq(S)
        /\ Len(start \o hi) = Len(s) + 1
        /\ \A j \in 1..(Len(s) + 1) : (start \o hi)[j] =
              IF j <= i THEN start[j] ELSE hi[j - i]
    BY <2>1, <2>2
  <2> QED BY <2>3 DEF start
<1>6. ASSUME NEW j \in 1..(Len(s) + 1)
      PROVE  ((lo \o <<e>>) \o hi)[j]
                = IF j < i THEN s[j] ELSE IF j = i THEN e ELSE s[j - 1]
  BY <1>0, <1>2, <1>4, <1>5
<1> QED BY <1>5, <1>6 DEF InsertAt, lo, hi

(* What RemoveAt gives: the elements behind the gap move one to the front. *)
LEMMA RemoveAtFacts ==
    ASSUME NEW S, NEW s \in Seq(S), NEW i \in 1..Len(s)
    PROVE  /\ RemoveAt(s, i) \in Seq(S)
           /\ Len(RemoveAt(s, i)) = Len(s) - 1
           /\ \A j \in 1..(Len(s) - 1) : RemoveAt(s, i)[j] =
                 IF j < i THEN s[j] ELSE s[j + 1]
<1> DEFINE lo == SubSeq(s, 1, i - 1)
           hi == SubSeq(s, i + 1, Len(s))
<1>0. Len(s) \in Nat
  BY LenProperties
<1>1. /\ lo \in Seq(S)
      /\ Len(lo) = i - 1
      /\ \A j \in 1..(i - 1) : lo[j] = s[j]
  <2>1. /\ SubSeq(s, 1, i - 1) \in Seq(S)
        /\ Len(SubSeq(s, 1, i - 1)) = (i - 1) - 1 + 1
        /\ \A j \in 1..((i - 1) - 1 + 1) : SubSeq(s, 1, i - 1)[j] = s[1 + j - 1]
    BY <1>0, SubSeqFacts
  <2> QED BY <2>1
<1>2. /\ hi \in Seq(S)
      /\ Len(hi) = Len(s) - i
      /\ \A j \in 1..(Len(s) - i) : hi[j] = s[i + j]
  <2>1. /\ SubSeq(s, i + 1, Len(s)) \in Seq(S)
        /\ Len(SubSeq(s, i + 1, Len(s))) = Len(s) - (i + 1) + 1
        /\ \A j \in 1..(Len(s) - (i + 1) + 1) :
              SubSeq(s, i + 1, Len(s))[j] = s[(i + 1) + j - 1]
    BY <1>0, SubSeqFacts
  <2> QED BY <1>0, <2>1
<1> HIDE DEF lo, hi
<1>3. /\ RemoveAt(s, i) \in Seq(S)
      /\ Len(RemoveAt(s, i)) = Len(s) - 1
      /\ \A j \in 1..(Len(s) - 1) : RemoveAt(s, i)[j] =
            IF j <= i - 1 THEN lo[j] ELSE hi[j - (i - 1)]
  <2>1. Len(lo) + Len(hi) = Len(s) - 1
    BY <1>0, <1>1, <1>2
  <2>2. /\ lo \o hi \in Seq(S)
        /\ Len(lo \o hi) = Len(lo) + Len(hi)
        /\ \A j \in 1..(Len(lo) + Len(hi)) : (lo \o hi)[j] =
              IF j <= Len(lo) THEN lo[j] ELSE hi[j - Len(lo)]
    BY <1>1, <1>2, ConcatProperties
  <2>3. RemoveAt(s, i) = lo \o hi
    BY DEF RemoveAt, lo, hi
  <2> QED BY <1>1, <2>1, <2>2, <2>3
<1>4. ASSUME NEW j \in 1..(Len(s) - 1)
      PROVE  RemoveAt(s, i)[j] = IF j < i THEN s[j] ELSE s[j + 1]
  <2>1. CASE j < i
    BY <1>0, <1>1, <1>3, <2>1
  <2>2. CASE j >= i
    <3>1. j - (i - 1) \in 1..(Len(s) - i) /\ i + (j - (i - 1)) = j + 1
      BY <1>0, <2>2
    <3>2. hi[j - (i - 1)] = s[j + 1]
      BY <1>2, <3>1
    <3> QED BY <1>0, <1>3, <2>2, <3>2
  <2> QED BY <1>0, <2>1, <2>2
<1> QED BY <1>3, <1>4

-----------------------------------------------------------------------------
(* The bounds of NodeBounds, for the tree with the topmost node t in heap   *)
(* H.                                                                       *)
Sized(H, A, t) ==
    \A x \in A :
       /\ Len(H[x].keys) <= MAX_DEGREE
       /\ x # t => Len(H[x].keys) >= MIN_DEGREE
       /\ Len(H[x].child) = IF H[x].is_leaf THEN 0 ELSE Len(H[x].keys) + 1

(* The children of a node in use are in use, differ, and point back to it. *)
Owned(H, A) ==
    \A x \in A : \A j \in 1..Len(H[x].child) :
       /\ H[x].child[j] \in A
       /\ H[H[x].child[j]].parent = x
       /\ \A i \in 1..(j - 1) : H[x].child[i] # H[x].child[j]

(* A node in use is the child its parent pointer says, the topmost one has  *)
(* no parent.                                                               *)
Attached(H, A, t) ==
    \A x \in A :
       IF x = t THEN H[x].parent = NULL
       ELSE /\ H[x].parent \in A
            /\ \E j \in 1..Len(H[H[x].parent].child) :
                  H[H[x].parent].child[j] = x

(* ht counts the levels below a node: 0 for leaves, one less for each       *)
(* child. It is what keeps a node from being its own descendant, and makes  *)
(* all leaves equally deep.                                                 *)
Leveled(H, A, t, ht) ==
    \A x \in A :
       /\ ht[x] = 0 <=> H[x].is_leaf
       /\ \A j \in 1..Len(H[x].child) : ht[H[x].child[j]] = ht[x] - 1
       /\ ht[x] <= ht[t]

(* H is a heap, A the nodes in use, t the topmost one, ht a height for      *)
(* every node.                                                              *)
Typed(H, A, t, ht) ==
    /\ H \in [Nodes -> Node]
    /\ A \subseteq Nodes
    /\ t \in A
    /\ ht \in [Nodes -> Nat]

(* The nodes A of heap H form a B-tree with the topmost node t. *)
Tree(H, A, t, ht) ==
    /\ Typed(H, A, t, ht)
    /\ Sized(H, A, t)
    /\ Owned(H, A)
    /\ Attached(H, A, t)
    /\ Leveled(H, A, t, ht)

(* The fields of a node. *)
LEMMA NodeFacts ==
    ASSUME NEW y \in Node
    PROVE  /\ y.keys \in Seq(Item)
           /\ y.child \in Seq(Nodes)
           /\ y.is_leaf \in BOOLEAN
           /\ y.parent \in Nodes \union {NULL}
           /\ Len(y.keys) \in Nat
           /\ Len(y.child) \in Nat
           /\ \A j \in 1..Len(y.keys) : y.keys[j] \in Item
           /\ \A j \in 1..Len(y.child) : y.child[j] \in Nodes
BY LenProperties, ElementOfSeq DEF Node

(* Membership in the set of elements of a sequence. *)
LEMMA ToSetOfSeq ==
    ASSUME NEW S, NEW s \in Seq(S), NEW c
    PROVE  c \in ToSet(s) <=> \E j \in 1..Len(s) : c = s[j]
BY LenProperties DEF ToSet

(* The children of a node in use. *)
LEMMA TreeChild ==
    ASSUME NEW H, NEW A, NEW t, NEW ht, Tree(H, A, t, ht),
           NEW a \in A, NEW j \in 1..Len(H[a].child)
    PROVE  /\ H[a].child[j] \in A
           /\ H[H[a].child[j]].parent = a
           /\ ht[a] \in Nat /\ ht[H[a].child[j]] \in Nat
           /\ ht[H[a].child[j]] = ht[a] - 1
           /\ H[a].child[j] # a
           /\ H[a].child[j] # t
           /\ ~H[a].is_leaf
<1>1. H[a].child[j] \in A /\ H[H[a].child[j]].parent = a
  BY DEF Tree, Owned
<1>2. ht[H[a].child[j]] = ht[a] - 1
  BY DEF Tree, Leveled
<1>3. A \subseteq Nodes /\ ht[a] \in Nat /\ ht[H[a].child[j]] \in Nat
  BY <1>1 DEF Tree, Typed
<1>4. H[a].child[j] # t
  BY <1>1, <1>3, NullAssumption, NodesAssumption DEF Tree, Attached
<1>5. ~H[a].is_leaf
  BY DEF Tree, Sized
<1> QED BY <1>1, <1>2, <1>3, <1>4, <1>5

(* Two positions of a node's child array hold different children. *)
LEMMA TreeChildrenDiffer ==
    ASSUME NEW H, NEW A, NEW t, NEW ht, Tree(H, A, t, ht), NEW a \in A,
           NEW i \in 1..Len(H[a].child), NEW j \in 1..Len(H[a].child), i # j
    PROVE  H[a].child[i] # H[a].child[j]
<1>1. i < j \/ j < i
  OBVIOUS
<1>2. \A u, v \in 1..Len(H[a].child) : v \in 1..(u - 1) => H[a].child[v] # H[a].child[u]
  BY DEF Tree, Owned
<1> QED BY <1>1, <1>2

(* The parent of a node in use that is not the topmost one. *)
LEMMA TreeParent ==
    ASSUME NEW H, NEW A, NEW t, NEW ht, Tree(H, A, t, ht), NEW a \in A
    PROVE  IF a = t THEN H[a].parent = NULL
           ELSE /\ H[a].parent \in A
                /\ \E j \in 1..Len(H[H[a].parent].child) :
                      H[H[a].parent].child[j] = a
BY DEF Tree, Attached

(* What Tree says of the heap and of every node in use. *)
LEMMA TreeFacts ==
    ASSUME NEW H, NEW A, NEW t, NEW ht, Tree(H, A, t, ht)
    PROVE  /\ H \in [Nodes -> Node]
           /\ A \subseteq Nodes
           /\ t \in A
           /\ ht \in [Nodes -> Nat]
           /\ NULL \notin A
           /\ \A a \in A :
                 /\ H[a] \in Node
                 /\ ht[a] \in Nat
                 /\ ht[a] <= ht[t]
                 /\ ht[a] = 0 <=> H[a].is_leaf
                 /\ Len(H[a].keys) \in Nat
                 /\ Len(H[a].keys) <= MAX_DEGREE
                 /\ a # t => Len(H[a].keys) >= MIN_DEGREE
                 /\ Len(H[a].child) = IF H[a].is_leaf THEN 0 ELSE Len(H[a].keys) + 1
<1>1. /\ H \in [Nodes -> Node]
      /\ A \subseteq Nodes
      /\ t \in A
      /\ ht \in [Nodes -> Nat]
      /\ NULL \notin A
  BY NullAssumption, NodesAssumption DEF Tree, Typed
<1>2. ASSUME NEW a \in A
      PROVE  H[a] \in Node /\ ht[a] \in Nat /\ Len(H[a].keys) \in Nat
  BY <1>1, NodeFacts
<1>3. ASSUME NEW a \in A
      PROVE  /\ ht[a] <= ht[t]
             /\ ht[a] = 0 <=> H[a].is_leaf
             /\ Len(H[a].keys) <= MAX_DEGREE
             /\ a # t => Len(H[a].keys) >= MIN_DEGREE
             /\ Len(H[a].child) = IF H[a].is_leaf THEN 0 ELSE Len(H[a].keys) + 1
  BY DEF Tree, Sized, Leveled
<1> QED BY <1>1, <1>2, <1>3

(* What split_child makes of the three nodes it works on and of the others. *)
SplitOf(H, G, x, p, y, z) ==
    /\ G \in [Nodes -> Node]
    /\ Len(G[x].keys) = Len(H[x].keys) + 1
    /\ \A j \in 1..(Len(H[x].keys) + 1) : G[x].keys[j] =
          IF j < p THEN H[x].keys[j]
          ELSE IF j = p THEN H[y].keys[T] ELSE H[x].keys[j - 1]
    /\ Len(G[x].child) = Len(H[x].child) + 1
    /\ \A j \in 1..(Len(H[x].child) + 1) : G[x].child[j] =
          IF j < p + 1 THEN H[x].child[j]
          ELSE IF j = p + 1 THEN z ELSE H[x].child[j - 1]
    /\ G[x].is_leaf = H[x].is_leaf
    /\ G[x].parent = H[x].parent
    /\ Len(G[y].keys) = MIN_DEGREE
    /\ \A j \in 1..MIN_DEGREE : G[y].keys[j] = H[y].keys[j]
    /\ Len(G[y].child) = IF H[y].is_leaf THEN 0 ELSE T
    /\ ~H[y].is_leaf => \A j \in 1..T : G[y].child[j] = H[y].child[j]
    /\ G[y].is_leaf = H[y].is_leaf
    /\ G[y].parent = H[y].parent
    /\ Len(G[z].keys) = MIN_DEGREE
    /\ \A j \in 1..MIN_DEGREE : G[z].keys[j] = H[y].keys[T + j]
    /\ Len(G[z].child) = IF H[y].is_leaf THEN 0 ELSE T
    /\ ~H[y].is_leaf => \A j \in 1..T : G[z].child[j] = H[y].child[T + j]
    /\ G[z].is_leaf = H[y].is_leaf
    /\ G[z].parent = x
    /\ \A c \in Nodes \ {x, y, z} :
          /\ G[c].keys = H[c].keys
          /\ G[c].child = H[c].child
          /\ G[c].is_leaf = H[c].is_leaf
          /\ G[c].parent =
                IF ~H[y].is_leaf /\ \E j \in 1..T : c = H[y].child[T + j]
                THEN z ELSE H[c].parent

(* The node y to split is full, x has a child at p, and z is another node. *)
CanSplit(H, x, p, y, z) ==
    /\ H \in [Nodes -> Node]
    /\ x \in Nodes /\ y \in Nodes /\ z \in Nodes
    /\ x # y /\ x # z /\ y # z
    /\ Len(H[y].keys) = MAX_DEGREE
    /\ Len(H[y].child) = IF H[y].is_leaf THEN 0 ELSE MAX_DEGREE + 1
    /\ p \in 1..(Len(H[x].keys) + 1)
    /\ p <= Len(H[x].child)

(* split_child computes SplitOf: the upper half of y goes to z, with its    *)
(* children, the median to x.                                               *)
LEMMA SplitEffect ==
    ASSUME NEW H, NEW x, NEW p, NEW y, NEW z, CanSplit(H, x, p, y, z)
    PROVE  SplitOf(H, split_child(H, x, p, y, z), x, p, y, z)
<1> USE TAssumption DEF MIN_DEGREE, MAX_DEGREE
<1>0. /\ H \in [Nodes -> Node]
      /\ x \in Nodes /\ y \in Nodes /\ z \in Nodes
      /\ x # y /\ x # z /\ y # z
      /\ Len(H[y].keys) = MAX_DEGREE
      /\ Len(H[y].child) = IF H[y].is_leaf THEN 0 ELSE MAX_DEGREE + 1
      /\ p \in 1..(Len(H[x].keys) + 1)
      /\ p <= Len(H[x].child)
  BY DEF CanSplit
<1> DEFINE moved == Kids(H[y], T + 1, MAX_DEGREE + 1)
           low   == Kids(H[y], 1, MIN_DEGREE + 1)
           lower == LowerKeys(H[y])
           upper == SubSeq(H[y].keys, T + 1, MAX_DEGREE)
           kx == InsertAt(H[x].keys, p, H[y].keys[T])
           cx == InsertAt(H[x].child, p + 1, z)
<1>1. H[x] \in Node /\ H[y] \in Node /\ H[z] \in Node
  BY <1>0
<1>2. /\ moved \in Seq(Nodes)
      /\ Len(moved) = IF H[y].is_leaf THEN 0 ELSE T
      /\ ~H[y].is_leaf => \A j \in 1..T : moved[j] = H[y].child[T + j]
  <2>1. CASE H[y].is_leaf
    BY <1>0, <2>1, EmptySeq DEF Kids
  <2>2. CASE ~H[y].is_leaf
    <3>1. moved = SubSeq(H[y].child, T + 1, 2 * T)
      BY <2>2 DEF Kids
    <3>2. /\ SubSeq(H[y].child, T + 1, 2 * T) \in Seq(Nodes)
          /\ Len(SubSeq(H[y].child, T + 1, 2 * T)) = 2 * T - (T + 1) + 1
          /\ \A j \in 1..(2 * T - (T + 1) + 1) :
                SubSeq(H[y].child, T + 1, 2 * T)[j] = H[y].child[T + 1 + j - 1]
      <4> HIDE DEF moved
      <4>1. H[y].child \in Seq(Nodes) /\ Len(H[y].child) = 2 * T
        BY <1>0, <1>1, <2>2, NodeFacts
      <4>2. /\ T + 1 \in Int /\ 2 * T \in Int
            /\ 1 <= T + 1 /\ T + 1 <= 2 * T + 1 /\ 2 * T <= Len(H[y].child)
        BY <4>1
      <4> QED BY <4>1, <4>2, SubSeqFacts
    <3> HIDE DEF moved
    <3>3. \A j \in 1..T : T + 1 + j - 1 = T + j
      OBVIOUS
    <3> QED BY <2>2, <3>1, <3>2, <3>3
  <2> QED BY <2>1, <2>2
<1>3. /\ low \in Seq(Nodes)
      /\ Len(low) = IF H[y].is_leaf THEN 0 ELSE T
      /\ ~H[y].is_leaf => \A j \in 1..T : low[j] = H[y].child[j]
  <2>1. CASE H[y].is_leaf
    BY <1>0, <2>1, EmptySeq DEF Kids
  <2>2. CASE ~H[y].is_leaf
    <3>1. low = SubSeq(H[y].child, 1, T)
      BY <2>2 DEF Kids
    <3>2. /\ SubSeq(H[y].child, 1, T) \in Seq(Nodes)
          /\ Len(SubSeq(H[y].child, 1, T)) = T - 1 + 1
          /\ \A j \in 1..(T - 1 + 1) :
                SubSeq(H[y].child, 1, T)[j] = H[y].child[1 + j - 1]
      <4> HIDE DEF low
      <4>1. H[y].child \in Seq(Nodes) /\ Len(H[y].child) = 2 * T
        BY <1>0, <1>1, <2>2, NodeFacts
      <4> QED BY <4>1, SubSeqFacts
    <3> HIDE DEF low
    <3> QED BY <2>2, <3>1, <3>2
  <2> QED BY <2>1, <2>2
<1>4. /\ lower \in Seq(Item)
      /\ Len(lower) = MIN_DEGREE
      /\ \A j \in 1..MIN_DEGREE : lower[j] = H[y].keys[j]
  <2> DEFINE s == H[y].keys
  <2>1. s \in Seq(Item) /\ Len(s) = 2 * T - 1
    BY <1>0, <1>1, NodeFacts
  <2> HIDE DEF s
  <2>2. /\ SubSeq(s, 1, T - 1) \in Seq(Item)
        /\ Len(SubSeq(s, 1, T - 1)) = (T - 1) - 1 + 1
        /\ \A j \in 1..((T - 1) - 1 + 1) : SubSeq(s, 1, T - 1)[j] = s[1 + j - 1]
    BY <2>1, SubSeqFacts
  <2>3. lower = SubSeq(s, 1, T - 1)
    BY DEF lower, s, LowerKeys
  <2> QED BY <2>2, <2>3 DEF s
<1>5. /\ upper \in Seq(Item)
      /\ Len(upper) = MIN_DEGREE
      /\ \A j \in 1..MIN_DEGREE : upper[j] = H[y].keys[T + j]
  <2> DEFINE s == H[y].keys
  <2>1. s \in Seq(Item) /\ Len(s) = 2 * T - 1
    BY <1>0, <1>1, NodeFacts
  <2> HIDE DEF s
  <2>2. /\ SubSeq(s, T + 1, 2 * T - 1) \in Seq(Item)
        /\ Len(SubSeq(s, T + 1, 2 * T - 1)) = (2 * T - 1) - (T + 1) + 1
        /\ \A j \in 1..((2 * T - 1) - (T + 1) + 1) :
              SubSeq(s, T + 1, 2 * T - 1)[j] = s[(T + 1) + j - 1]
    <3>1. /\ T + 1 \in Int /\ 2 * T - 1 \in Int /\ 1 <= T + 1
          /\ T + 1 <= (2 * T - 1) + 1 /\ 2 * T - 1 <= Len(s)
      BY <2>1
    <3> QED BY <2>1, <3>1, SubSeqFacts
  <2>3. upper = SubSeq(s, T + 1, 2 * T - 1)
    BY DEF upper, s
  <2> HIDE DEF upper
  <2>4. \A j \in 1..(T - 1) : (T + 1) + j - 1 = T + j
    OBVIOUS
  <2> QED BY <2>2, <2>3, <2>4 DEF s
<1>6. /\ kx \in Seq(Item)
      /\ Len(kx) = Len(H[x].keys) + 1
      /\ \A j \in 1..(Len(H[x].keys) + 1) : kx[j] =
            IF j < p THEN H[x].keys[j]
            ELSE IF j = p THEN H[y].keys[T] ELSE H[x].keys[j - 1]
  <2> DEFINE s == H[x].keys
             e == H[y].keys[T]
             q == p
  <2>1. s \in Seq(Item) /\ q \in 1..(Len(s) + 1) /\ e \in Item
    BY <1>0, <1>1, NodeFacts
  <2> HIDE DEF s, e, q
  <2>2. /\ InsertAt(s, q, e) \in Seq(Item)
        /\ Len(InsertAt(s, q, e)) = Len(s) + 1
        /\ \A j \in 1..(Len(s) + 1) : InsertAt(s, q, e)[j] =
              IF j < q THEN s[j] ELSE IF j = q THEN e ELSE s[j - 1]
    BY <2>1, InsertAtFacts
  <2> QED BY <2>2 DEF s, e, q, kx
<1>7. /\ cx \in Seq(Nodes)
      /\ Len(cx) = Len(H[x].child) + 1
      /\ \A j \in 1..(Len(H[x].child) + 1) : cx[j] =
                 IF j < p + 1 THEN H[x].child[j]
                 ELSE IF j = p + 1 THEN z ELSE H[x].child[j - 1]
  <2> DEFINE s == H[x].child
             q == p + 1
  <2>1. s \in Seq(Nodes) /\ q \in 1..(Len(s) + 1) /\ z \in Nodes
    BY <1>0, <1>1, NodeFacts
  <2> HIDE DEF s, q
  <2>2. /\ InsertAt(s, q, z) \in Seq(Nodes)
        /\ Len(InsertAt(s, q, z)) = Len(s) + 1
        /\ \A j \in 1..(Len(s) + 1) : InsertAt(s, q, z)[j] =
              IF j < q THEN s[j] ELSE IF j = q THEN z ELSE s[j - 1]
    BY <2>1, InsertAtFacts
  <2> QED BY <2>2 DEF s, q, cx
<1> HIDE DEF moved, low, lower, upper, kx, cx
<1> DEFINE G == split_child(H, x, p, y, z)
<1>8. G = [c \in Nodes |->
           CASE c = x -> [H[x] EXCEPT !.keys = kx, !.child = cx]
             [] c = y -> [H[y] EXCEPT !.keys = lower, !.child = low]
             [] c = z -> [keys |-> upper, child |-> moved,
                          is_leaf |-> H[y].is_leaf, parent  |-> x]
             [] OTHER -> set_child(H, c, z, moved)]
  BY DEF G, split_child, moved, low, lower, upper, kx, cx
<1> HIDE DEF G
<1>9. G[x] = [H[x] EXCEPT !.keys = kx, !.child = cx]
  BY <1>0, <1>8
<1>10. G[y] = [H[y] EXCEPT !.keys = lower, !.child = low]
  BY <1>0, <1>8
<1>11. G[z] = [keys |-> upper, child |-> moved, is_leaf |-> H[y].is_leaf, parent  |-> x]
  BY <1>0, <1>8
<1>12. \A c \in Nodes \ {x, y, z} : G[c] = set_child(H, c, z, moved)
  BY <1>0, <1>8
<1>13. /\ G[x] \in Node
       /\ G[x].keys = kx
       /\ G[x].child = cx
       /\ G[x].is_leaf = H[x].is_leaf
       /\ G[x].parent = H[x].parent
  BY <1>1, <1>0, <1>6, <1>7, <1>9 DEF Node
<1>14. /\ G[y] \in Node
       /\ G[y].keys = lower
       /\ G[y].child = low
       /\ G[y].is_leaf = H[y].is_leaf
       /\ G[y].parent = H[y].parent
  BY <1>1, <1>3, <1>4, <1>10 DEF Node
<1>15. /\ G[z] \in Node
       /\ G[z].keys = upper
       /\ G[z].child = moved
       /\ G[z].is_leaf = H[y].is_leaf
       /\ G[z].parent = x
  <2>1. H[y].is_leaf \in BOOLEAN
    BY <1>0, <1>1, NodeFacts
  <2> QED BY <1>0, <2>1, <1>2, <1>5, <1>11 DEF Node
<1>16. \A c \in Nodes \ {x, y, z} :
          /\ G[c] \in Node
          /\ G[c].keys = H[c].keys
          /\ G[c].child = H[c].child
          /\ G[c].is_leaf = H[c].is_leaf
          /\ G[c].parent = IF c \in ToSet(moved) THEN z ELSE H[c].parent
  BY <1>0, <1>12 DEF set_child, Node
<1>17. G \in [Nodes -> Node]
  <2>1. \A c \in Nodes : G[c] \in Node
    BY <1>13, <1>14, <1>15, <1>16
  <2> QED BY <2>1, <1>8
<1>18. \A c : c \in ToSet(moved) <=>
                ~H[y].is_leaf /\ \E j \in 1..T : c = H[y].child[T + j]
  <2> SUFFICES ASSUME NEW c
               PROVE  c \in ToSet(moved) <=>
                        ~H[y].is_leaf /\ \E j \in 1..T : c = H[y].child[T + j]
    OBVIOUS
  <2>1. c \in ToSet(moved) <=> \E j \in 1..Len(moved) : c = moved[j]
    BY <1>2, ToSetOfSeq
  <2>2. CASE H[y].is_leaf
    BY <1>2, <2>1, <2>2
  <2>3. CASE ~H[y].is_leaf
    BY <1>2, <2>1, <2>3
  <2> QED BY <2>2, <2>3
<1>19. \A c \in Nodes \ {x, y, z} :
          /\ G[c].keys = H[c].keys
          /\ G[c].child = H[c].child
          /\ G[c].is_leaf = H[c].is_leaf
          /\ G[c].parent =
                 IF ~H[y].is_leaf /\ \E j \in 1..T : c = H[y].child[T + j]
                 THEN z ELSE H[c].parent
  <2> SUFFICES ASSUME NEW c \in Nodes \ {x, y, z}
               PROVE  /\ G[c].keys = H[c].keys
                      /\ G[c].child = H[c].child
                      /\ G[c].is_leaf = H[c].is_leaf
                      /\ G[c].parent =
                           IF ~H[y].is_leaf /\ \E j \in 1..T : c = H[y].child[T + j]
                           THEN z ELSE H[c].parent
    BY Zenon
  <2>1. CASE c \in ToSet(moved)
    BY <1>16, <1>18, <2>1
  <2>2. CASE c \notin ToSet(moved)
    BY <1>16, <1>18, <2>2
  <2> QED BY <2>1, <2>2
<1>20. /\ Len(G[x].keys) = Len(H[x].keys) + 1
       /\ \A j \in 1..(Len(H[x].keys) + 1) : G[x].keys[j] =
             IF j < p THEN H[x].keys[j]
             ELSE IF j = p THEN H[y].keys[T] ELSE H[x].keys[j - 1]
       /\ Len(G[x].child) = Len(H[x].child) + 1
       /\ \A j \in 1..(Len(H[x].child) + 1) : G[x].child[j] =
             IF j < p + 1 THEN H[x].child[j]
             ELSE IF j = p + 1 THEN z ELSE H[x].child[j - 1]
  BY <1>6, <1>7, <1>13
<1>21. /\ Len(G[y].keys) = MIN_DEGREE
       /\ \A j \in 1..MIN_DEGREE : G[y].keys[j] = H[y].keys[j]
       /\ Len(G[y].child) = IF H[y].is_leaf THEN 0 ELSE T
       /\ ~H[y].is_leaf => \A j \in 1..T : G[y].child[j] = H[y].child[j]
  BY <1>3, <1>4, <1>14
<1>22. /\ Len(G[z].keys) = MIN_DEGREE
       /\ \A j \in 1..MIN_DEGREE : G[z].keys[j] = H[y].keys[T + j]
       /\ Len(G[z].child) = IF H[y].is_leaf THEN 0 ELSE T
       /\ ~H[y].is_leaf => \A j \in 1..T : G[z].child[j] = H[y].child[T + j]
  BY <1>2, <1>5, <1>15
<1> QED BY <1>13, <1>14, <1>15, <1>17, <1>19, <1>20, <1>21, <1>22, Zenon DEF SplitOf, G

(* split_child is called on the full child p of x, with a node z that is    *)
(* not in use; x has room for a key.                                       *)
SplitSite(H, A, x, p, y, z) ==
    /\ x \in A /\ ~H[x].is_leaf /\ Len(H[x].keys) < MAX_DEGREE
    /\ p \in 1..(Len(H[x].keys) + 1)
    /\ y = H[x].child[p] /\ Len(H[y].keys) = MAX_DEGREE
    /\ z \in Nodes \ A

(* split_child of a full child leaves a B-tree, with z at the height of     *)
(* the child that was split.                                                *)
LEMMA SplitTree ==
    ASSUME NEW H, NEW A, NEW t, NEW ht, Tree(H, A, t, ht),
           NEW x, NEW p, NEW y, NEW z, SplitSite(H, A, x, p, y, z)
    PROVE  /\ y \in A /\ y # x /\ ht[y] = ht[x] - 1
           /\ SplitOf(H, split_child(H, x, p, y, z), x, p, y, z)
           /\ Tree(split_child(H, x, p, y, z), A \union {z}, t,
                   [ht EXCEPT ![z] = ht[y]])
<1> DEFINE G == split_child(H, x, p, y, z)
           B == A \union {z}
           hu == [ht EXCEPT ![z] = ht[y]]
           L == Len(H[x].child)
           old(j) == IF j < p + 1 THEN j ELSE j - 1
<1> HIDE DEF G
<1> USE TAssumption DEF MIN_DEGREE, MAX_DEGREE
<1>1. /\ H \in [Nodes -> Node] /\ A \subseteq Nodes /\ t \in A
      /\ ht \in [Nodes -> Nat]
  BY TreeFacts
<1>2. x \in A /\ ~H[x].is_leaf /\ z \in Nodes /\ z \notin A
  BY DEF SplitSite
<1>3. /\ Len(H[x].keys) \in Nat /\ Len(H[x].keys) < MAX_DEGREE
      /\ L = Len(H[x].keys) + 1 /\ p \in 1..L
  <2>1. Len(H[x].keys) \in Nat /\ Len(H[x].child) = Len(H[x].keys) + 1
    BY <1>2, TreeFacts
  <2> QED BY <2>1 DEF SplitSite
<1>4. /\ y \in A /\ y # x /\ y # t /\ H[y].parent = x
      /\ ht[y] = ht[x] - 1 /\ ht[x] \in Nat /\ ht[y] \in Nat
  <2>1. y = H[x].child[p] /\ p \in 1..Len(H[x].child)
    BY <1>3 DEF SplitSite
  <2> QED BY <1>2, <2>1, TreeChild
<1>5. x \in Nodes /\ y \in Nodes /\ z \in Nodes /\ x # z /\ y # z
  BY <1>1, <1>2, <1>4
<1>6. /\ Len(H[y].keys) = MAX_DEGREE
      /\ Len(H[y].child) = IF H[y].is_leaf THEN 0 ELSE 2 * T
  <2>1. Len(H[y].keys) = 2 * T - 1
    BY DEF SplitSite
  <2>2. Len(H[y].child) = IF H[y].is_leaf THEN 0 ELSE Len(H[y].keys) + 1
    BY <1>4, TreeFacts
  <2> QED BY <2>1, <2>2
<1>7. SplitOf(H, G, x, p, y, z)
  <2>1. CanSplit(H, x, p, y, z)
    BY <1>1, <1>3, <1>4, <1>5, <1>6 DEF CanSplit
  <2> QED BY <2>1, SplitEffect DEF G
(* The children of x, y and z afterwards.  Child j of x was child old(j).  *)
<1>8. /\ Len(G[x].child) = L + 1
      /\ G[x].child[p + 1] = z
      /\ \A j \in 1..(L + 1) : j # p + 1 =>
            old(j) \in 1..L /\ G[x].child[j] = H[x].child[old(j)]
      /\ \A i, j \in 1..(L + 1) : i # p + 1 /\ j # p + 1 /\ i # j => old(i) # old(j)
      /\ \A j \in 1..L : \E i \in 1..(L + 1) : i # p + 1 /\ old(i) = j
  <2>1. /\ Len(G[x].child) = L + 1
        /\ \A j \in 1..(L + 1) : G[x].child[j] =
              IF j < p + 1 THEN H[x].child[j]
              ELSE IF j = p + 1 THEN z ELSE H[x].child[j - 1]
    BY <1>7, Zenon DEF SplitOf
  <2>2. L \in Nat /\ p \in 1..L
    BY <1>3
  <2> HIDE DEF L
  <2>3. ASSUME NEW j \in 1..L
        PROVE  \E i \in 1..(L + 1) : i # p + 1 /\ old(i) = j
    <3>1. CASE j < p + 1
      <4>1. j \in 1..(L + 1) /\ j # p + 1 /\ old(j) = j
        BY <2>2, <3>1
      <4> QED BY <4>1
    <3>2. CASE j >= p + 1
      <4>1. j + 1 \in 1..(L + 1) /\ j + 1 # p + 1 /\ old(j + 1) = j
        BY <2>2, <3>2
      <4> QED BY <4>1
    <3> QED BY <2>2, <3>1, <3>2
  <2>4. G[x].child[p + 1] = z
    BY <2>1, <2>2
  <2>5. ASSUME NEW j \in 1..(L + 1), j # p + 1
        PROVE  old(j) \in 1..L /\ G[x].child[j] = H[x].child[old(j)]
    <3>1. CASE j < p + 1
      BY <2>1, <2>2, <3>1
    <3>2. CASE ~(j < p + 1)
      BY <2>1, <2>2, <2>5, <3>2
    <3> QED BY <3>1, <3>2
  <2>6. \A i, j \in 1..(L + 1) : i # p + 1 /\ j # p + 1 /\ i # j => old(i) # old(j)
    BY <2>2
  <2> QED BY <2>1, <2>3, <2>4, <2>5, <2>6
<1>9. /\ Len(G[y].child) = IF H[y].is_leaf THEN 0 ELSE T
      /\ Len(G[z].child) = IF H[y].is_leaf THEN 0 ELSE T
      /\ ~H[y].is_leaf => \A j \in 1..T : G[y].child[j] = H[y].child[j]
      /\ ~H[y].is_leaf => \A j \in 1..T : G[z].child[j] = H[y].child[T + j]
  BY <1>7, Zenon DEF SplitOf
<1>10. \A c \in A \ {x, y} :
          /\ G[c].keys = H[c].keys
          /\ G[c].child = H[c].child
          /\ G[c].is_leaf = H[c].is_leaf
          /\ G[c].parent =
                IF ~H[y].is_leaf /\ \E j \in 1..T : c = H[y].child[T + j]
                THEN z ELSE H[c].parent
  <2>1. \A c \in A \ {x, y} : c \in Nodes \ {x, y, z}
    BY <1>1, <1>2
  <2> QED BY <1>7, <2>1, Zenon DEF SplitOf
<1>11. /\ G[x].parent = H[x].parent /\ G[y].parent = x /\ G[z].parent = x
       /\ G[x].is_leaf = H[x].is_leaf
       /\ G[y].is_leaf = H[y].is_leaf /\ G[z].is_leaf = H[y].is_leaf
       /\ Len(G[x].keys) = Len(H[x].keys) + 1
       /\ Len(G[y].keys) = MIN_DEGREE /\ Len(G[z].keys) = MIN_DEGREE
  <2>1. G[y].parent = H[y].parent
    BY <1>7, Zenon DEF SplitOf
  <2> QED BY <1>4, <1>7, <2>1, Zenon DEF SplitOf
<1>12. Typed(G, B, t, hu)
  <2>1. G \in [Nodes -> Node]
    BY <1>7, Zenon DEF SplitOf
  <2> QED BY <1>1, <1>2, <1>5, <2>1 DEF Typed
<1>13. Sized(G, B, t)
  <2> SUFFICES ASSUME NEW a \in B
               PROVE  /\ Len(G[a].keys) <= MAX_DEGREE
                      /\ a # t => Len(G[a].keys) >= MIN_DEGREE
                      /\ Len(G[a].child) =
                            IF G[a].is_leaf THEN 0 ELSE Len(G[a].keys) + 1
    BY DEF Sized
  <2>1. CASE a = x
    <3>1. x # t => Len(H[x].keys) >= MIN_DEGREE
      BY <1>2, TreeFacts
    <3>2. Len(G[x].child) = L + 1
      BY <1>8
    <3>3. ~G[x].is_leaf /\ Len(G[x].keys) = Len(H[x].keys) + 1
      BY <1>2, <1>11, Zenon
    <3>4. Len(H[x].keys) \in Nat /\ Len(H[x].keys) < MAX_DEGREE /\ L = Len(H[x].keys) + 1
      BY <1>3
    <3> HIDE DEF L, old
    <3> QED BY <2>1, <3>1, <3>2, <3>3, <3>4
  <2>2. CASE a = y
    BY <1>9, <1>11, <2>2
  <2>3. CASE a = z
    BY <1>9, <1>11, <2>3
  <2>4. CASE a \in A \ {x, y}
    <3> HIDE DEF MIN_DEGREE, MAX_DEGREE
    <3>1. G[a].keys = H[a].keys /\ G[a].child = H[a].child /\ G[a].is_leaf = H[a].is_leaf
      BY <1>10, <2>4
    <3> QED BY <2>4, <3>1 DEF Tree, Sized
  <2> QED BY <2>1, <2>2, <2>3, <2>4
<1> HIDE DEF L, old, MIN_DEGREE, MAX_DEGREE
(* The children of y, and which of them move to z. *)
<1>14. ASSUME ~H[y].is_leaf, NEW j \in 1..(2 * T)
       PROVE  /\ H[y].child[j] \in A
              /\ H[y].child[j] \notin {x, y, z}
              /\ H[H[y].child[j]].parent = y
              /\ ht[H[y].child[j]] = ht[y] - 1
  <2>1. j \in 1..Len(H[y].child)
    BY <1>6, <1>14
  <2>2. /\ H[y].child[j] \in A
        /\ H[H[y].child[j]].parent = y
        /\ ht[H[y].child[j]] = ht[y] - 1
        /\ H[y].child[j] # y
        /\ ht[y] \in Nat
    BY <1>4, <2>1, TreeChild
  <2>3. H[y].child[j] # x
    BY <1>4, <2>2
  <2> QED BY <1>2, <2>2, <2>3
<1>15. ASSUME ~H[y].is_leaf, NEW i \in 1..(2 * T), NEW j \in 1..(2 * T), i # j
       PROVE  H[y].child[i] # H[y].child[j]
  <2>1. i \in 1..Len(H[y].child) /\ j \in 1..Len(H[y].child)
    BY <1>6, <1>15
  <2> QED BY <1>4, <1>15, <2>1, TreeChildrenDiffer
<1>16. ASSUME NEW j \in 1..L
       PROVE  /\ H[x].child[j] \in A
              /\ H[x].child[j] # z
              /\ H[H[x].child[j]].parent = x
              /\ ht[H[x].child[j]] = ht[x] - 1
  BY <1>2, TreeChild DEF L
<1>17. ASSUME NEW i \in 1..L, NEW j \in 1..L, i # j
       PROVE  H[x].child[i] # H[x].child[j]
  BY <1>2, <1>17, TreeChildrenDiffer DEF L
<1>18. ASSUME NEW c \in A, H[c].parent # y
       PROVE  G[c].parent = H[c].parent
  <2>1. CASE c \in {x, y}
    BY <1>4, <1>11, <2>1
  <2>2. CASE c \notin {x, y}
    <3>1. \A j \in 1..T : T + j \in 1..(2 * T)
      OBVIOUS
    <3>2. ~(~H[y].is_leaf /\ \E j \in 1..T : c = H[y].child[T + j])
      BY <1>14, <1>18, <3>1
    <3> QED BY <1>10, <2>2, <3>2
  <2> QED BY <2>1, <2>2
<1>19. ASSUME ~H[y].is_leaf, NEW j \in 1..T
       PROVE  G[H[y].child[j]].parent = y /\ G[H[y].child[T + j]].parent = z
  <2>1. /\ j \in 1..(2 * T) /\ T + j \in 1..(2 * T)
        /\ \A i \in 1..T : T + i \in 1..(2 * T) /\ T + i # j
    OBVIOUS
  <2>2. H[y].child[j] \in A \ {x, y} /\ H[y].child[T + j] \in A \ {x, y}
    BY <1>14, <1>19, <2>1
  <2>3. ~ \E i \in 1..T : H[y].child[j] = H[y].child[T + i]
    BY <1>15, <1>19, <2>1
  <2>4. G[H[y].child[j]].parent = H[H[y].child[j]].parent
    BY <1>10, <2>2, <2>3
  <2>5. G[H[y].child[T + j]].parent = z
    BY <1>10, <1>19, <2>2
  <2> QED BY <1>14, <1>19, <2>1, <2>4, <2>5
<1>20. Owned(G, B)
  <2> SUFFICES ASSUME NEW a \in B, NEW j \in 1..Len(G[a].child)
               PROVE  /\ G[a].child[j] \in B
                      /\ G[G[a].child[j]].parent = a
                      /\ \A i \in 1..(j - 1) : G[a].child[i] # G[a].child[j]
    BY DEF Owned
  <2>1. CASE a = x
    <3>1. j \in 1..(L + 1)
      BY <1>8, <2>1
    <3>2. G[x].child[j] \in B /\ G[G[x].child[j]].parent = x
      <4>1. CASE j = p + 1
        BY <1>8, <1>11, <4>1
      <4>2. CASE j # p + 1
        BY <1>4, <1>8, <1>16, <1>18, <3>1, <4>2
      <4> QED BY <4>1, <4>2
    <3>3. ASSUME NEW i \in 1..(j - 1) PROVE G[x].child[i] # G[x].child[j]
      <4>1. i \in 1..(L + 1) /\ i # j
        BY <1>3, <3>1
      <4>2. CASE j = p + 1
        BY <1>8, <1>16, <4>1, <4>2
      <4>3. CASE i = p + 1
        BY <1>8, <1>16, <3>1, <4>1, <4>3
      <4>4. CASE j # p + 1 /\ i # p + 1
        <5>1. old(i) \in 1..L /\ old(j) \in 1..L /\ old(i) # old(j)
          BY <1>8, <3>1, <4>1, <4>4
        <5> QED BY <1>8, <1>17, <3>1, <4>1, <4>4, <5>1
      <4> QED BY <4>2, <4>3, <4>4
    <3> QED BY <2>1, <3>2, <3>3
  <2>2. CASE a = y
    <3>1. ~H[y].is_leaf /\ j \in 1..T
      BY <1>9, <2>2
    <3>2. \A i \in 1..j : G[y].child[i] = H[y].child[i] /\ i \in 1..(2 * T)
      BY <1>9, <3>1
    <3>3. \A i \in 1..(j - 1) : i # j /\ i \in 1..j
      BY <3>1
    <3>4. j \in 1..j
      BY <3>1
    <3>5. G[y].child[j] \in B /\ G[G[y].child[j]].parent = y
      BY <1>14, <1>19, <3>1, <3>2, <3>4
    <3>6. \A i \in 1..(j - 1) : G[y].child[i] # G[y].child[j]
      BY <1>15, <3>1, <3>2, <3>3, <3>4
    <3> QED BY <2>2, <3>5, <3>6
  <2>3. CASE a = z
    <3>1. ~H[y].is_leaf /\ j \in 1..T
      BY <1>9, <2>3
    <3>2. \A i \in 1..j : G[z].child[i] = H[y].child[T + i] /\ T + i \in 1..(2 * T)
      BY <1>9, <3>1
    <3>3. \A i \in 1..(j - 1) : T + i # T + j /\ i \in 1..j
      BY <3>1
    <3>4. j \in 1..j
      BY <3>1
    <3>5. G[z].child[j] \in B /\ G[G[z].child[j]].parent = z
      BY <1>14, <1>19, <3>1, <3>2, <3>4
    <3>6. \A i \in 1..(j - 1) : G[z].child[i] # G[z].child[j]
      BY <1>15, <3>1, <3>2, <3>3, <3>4
    <3> QED BY <2>3, <3>5, <3>6
  <2>4. CASE a \in A \ {x, y}
    <3>1. G[a].child = H[a].child
      BY <1>10, <2>4
    <3>2. /\ H[a].child[j] \in A /\ H[H[a].child[j]].parent = a
          /\ \A i \in 1..(j - 1) : H[a].child[i] # H[a].child[j]
      BY <2>4, <3>1 DEF Tree, Owned
    <3> QED BY <1>18, <2>4, <3>1, <3>2
  <2> QED BY <2>1, <2>2, <2>3, <2>4
<1>21. Attached(G, B, t)
  <2> SUFFICES ASSUME NEW a \in B
               PROVE  IF a = t THEN G[a].parent = NULL
                      ELSE /\ G[a].parent \in B
                           /\ \E j \in 1..Len(G[G[a].parent].child) :
                                 G[G[a].parent].child[j] = a
    BY DEF Attached
  <2>1. CASE a = t
    <3>1. H[t].parent = NULL /\ NULL # y
      BY <1>1, <1>4, TreeParent, TreeFacts
    <3> QED BY <1>1, <1>18, <2>1, <3>1
  <2>2. CASE a = z
    <3>1. p + 1 \in 1..(L + 1) /\ G[x].child[p + 1] = z
      BY <1>3, <1>8
    <3> QED BY <1>1, <1>2, <1>8, <1>11, <2>2, <3>1
  <2>3. CASE a \in A /\ a # t /\ H[a].parent = x
    <3>1. PICK j \in 1..L : H[x].child[j] = a
      BY <2>3, TreeParent DEF L
    <3>2. PICK i \in 1..(L + 1) : i # p + 1 /\ old(i) = j
      BY <1>8
    <3>3. G[x].child[i] = a
      BY <1>8, <3>1, <3>2
    <3>4. G[a].parent = x
      BY <1>4, <1>18, <2>3
    <3> QED BY <1>2, <1>8, <2>3, <3>3, <3>4
  <2>4. CASE a \in A /\ a # t /\ H[a].parent = y
    <3>1. PICK j \in 1..Len(H[y].child) : H[y].child[j] = a
      BY <2>4, TreeParent
    <3>2. ~H[y].is_leaf /\ j \in 1..(2 * T)
      BY <1>6, <3>1
    <3>3. CASE j <= T
      <4>1. j \in 1..T
        BY <3>2, <3>3
      <4>2. G[y].child[j] = a /\ G[a].parent = y /\ Len(G[y].child) = T
        BY <1>9, <1>19, <3>1, <3>2, <4>1
      <4> QED BY <1>4, <2>4, <4>1, <4>2
    <3>4. CASE j > T
      <4>1. j - T \in 1..T /\ T + (j - T) = j
        BY <3>2, <3>4
      <4>2. G[z].child[j - T] = a /\ G[a].parent = z /\ Len(G[z].child) = T
        BY <1>9, <1>19, <3>1, <3>2, <4>1
      <4> QED BY <2>4, <4>1, <4>2
    <3> QED BY <3>2, <3>3, <3>4
  <2>5. CASE a \in A /\ a # t /\ H[a].parent \notin {x, y}
    <3>1. /\ H[a].parent \in A
          /\ \E j \in 1..Len(H[H[a].parent].child) : H[H[a].parent].child[j] = a
      BY <2>5, TreeParent
    <3>2. G[a].parent = H[a].parent
      BY <1>18, <2>5
    <3>3. G[H[a].parent].child = H[H[a].parent].child
      BY <1>10, <2>5, <3>1
    <3> QED BY <2>5, <3>1, <3>2, <3>3
  <2> QED BY <2>1, <2>2, <2>3, <2>4, <2>5
<1>22. Leveled(G, B, t, hu)
  <2> SUFFICES ASSUME NEW a \in B
               PROVE  /\ hu[a] = 0 <=> G[a].is_leaf
                      /\ \A j \in 1..Len(G[a].child) : hu[G[a].child[j]] = hu[a] - 1
                      /\ hu[a] <= hu[t]
    BY DEF Leveled
  <2>0. hu[z] = ht[y] /\ \A c \in A : hu[c] = ht[c]
    BY <1>1, <1>2, <1>5
  <2>1. \A c \in A : ht[c] <= ht[t] /\ (ht[c] = 0 <=> H[c].is_leaf)
    BY TreeFacts
  <2> HIDE DEF hu
  <2>2. CASE a = x
    <3>1. ASSUME NEW j \in 1..(L + 1) PROVE hu[G[x].child[j]] = hu[x] - 1
      <4>1. CASE j = p + 1
        BY <1>2, <1>4, <1>8, <2>0, <4>1
      <4>2. CASE j # p + 1
        BY <1>2, <1>8, <1>16, <2>0, <4>2
      <4> QED BY <4>1, <4>2
    <3> QED BY <1>1, <1>2, <1>8, <1>11, <2>0, <2>1, <2>2, <3>1
  <2>3. CASE a = y
    <3>1. ASSUME NEW j \in 1..Len(G[y].child) PROVE hu[G[y].child[j]] = hu[y] - 1
      <4>1. ~H[y].is_leaf /\ j \in 1..T /\ j \in 1..(2 * T)
        BY <1>9
      <4>2. G[y].child[j] = H[y].child[j]
        BY <1>9, <4>1
      <4> QED BY <1>4, <1>14, <2>0, <4>1, <4>2
    <3> QED BY <1>1, <1>4, <1>11, <2>0, <2>1, <2>3, <3>1
  <2>4. CASE a = z
    <3>1. ASSUME NEW j \in 1..Len(G[z].child) PROVE hu[G[z].child[j]] = hu[z] - 1
      <4>1. ~H[y].is_leaf /\ j \in 1..T /\ T + j \in 1..(2 * T)
        BY <1>9
      <4>2. G[z].child[j] = H[y].child[T + j]
        BY <1>9, <4>1
      <4> QED BY <1>4, <1>14, <2>0, <4>1, <4>2
    <3> QED BY <1>1, <1>4, <1>11, <2>0, <2>1, <2>4, <3>1
  <2>5. CASE a \in A \ {x, y}
    <3>1. G[a].child = H[a].child /\ G[a].is_leaf = H[a].is_leaf
      BY <1>10, <2>5
    <3>2. \A j \in 1..Len(H[a].child) : H[a].child[j] \in A /\ ht[H[a].child[j]] = ht[a] - 1
      BY <2>5, TreeChild
    <3> QED BY <1>1, <2>0, <2>1, <2>5, <3>1, <3>2
  <2> QED BY <2>2, <2>3, <2>4, <2>5
<1>23. Tree(G, B, t, hu)
  BY <1>12, <1>13, <1>20, <1>21, <1>22, Zenon DEF Tree
<1> QED BY <1>4, <1>7, <1>23 DEF G

-----------------------------------------------------------------------------
(* G is H with the keys of node y replaced by ks: overwrite, a key put in  *)
(* or taken out of a leaf, a key replaced by its neighbour.                *)
KeysOf(H, G, A, t, y, ks) ==
    /\ y \in A
    /\ ks \in Seq(Item)
    /\ Len(ks) <= MAX_DEGREE
    /\ y # t => Len(ks) >= MIN_DEGREE
    /\ H[y].is_leaf \/ Len(ks) = Len(H[y].keys)
    /\ G = [H EXCEPT ![y].keys = ks]

(* Replacing the keys of a node within its bounds leaves a B-tree; an       *)
(* inner node must keep their number.                                       *)
LEMMA KeysTree ==
    ASSUME NEW H, NEW A, NEW t, NEW ht, Tree(H, A, t, ht),
           NEW G, NEW y, NEW ks, KeysOf(H, G, A, t, y, ks)
    PROVE  /\ Tree(G, A, t, ht)
           /\ G[y].keys = ks
           /\ \A c \in Nodes \ {y} : G[c].keys = H[c].keys
           /\ \A c \in Nodes : G[c].child = H[c].child /\ G[c].is_leaf = H[c].is_leaf
<1>1. /\ H \in [Nodes -> Node] /\ A \subseteq Nodes /\ t \in A
      /\ ht \in [Nodes -> Nat]
  BY TreeFacts
<1>2. y \in A /\ y \in Nodes /\ ks \in Seq(Item)
  BY <1>1 DEF KeysOf
<1>3. G = [H EXCEPT ![y] = [H[y] EXCEPT !.keys = ks]]
  BY <1>1, <1>2 DEF KeysOf
<1>4. H[y] \in Node /\ G[y] = [H[y] EXCEPT !.keys = ks]
  BY <1>1, <1>2, <1>3
<1>5. /\ G[y] \in Node /\ G[y].keys = ks /\ G[y].child = H[y].child
      /\ G[y].is_leaf = H[y].is_leaf /\ G[y].parent = H[y].parent
  BY <1>2, <1>4 DEF Node
<1>6. \A c \in Nodes \ {y} : G[c] = H[c]
  BY <1>1, <1>3
<1>7. G \in [Nodes -> Node]
  BY <1>1, <1>2, <1>3, <1>5, <1>6
<1>8. \A c \in Nodes : /\ G[c].child = H[c].child /\ G[c].is_leaf = H[c].is_leaf
                       /\ G[c].parent = H[c].parent
  BY <1>5, <1>6
<1>9. Typed(G, A, t, ht)
  BY <1>1, <1>7 DEF Typed
<1>10. Sized(G, A, t)
  <2> SUFFICES ASSUME NEW a \in A
               PROVE  /\ Len(G[a].keys) <= MAX_DEGREE
                      /\ a # t => Len(G[a].keys) >= MIN_DEGREE
                      /\ Len(G[a].child) =
                            IF G[a].is_leaf THEN 0 ELSE Len(G[a].keys) + 1
    BY DEF Sized
  <2>1. /\ Len(H[a].keys) <= MAX_DEGREE
        /\ a # t => Len(H[a].keys) >= MIN_DEGREE
        /\ Len(H[a].child) = IF H[a].is_leaf THEN 0 ELSE Len(H[a].keys) + 1
    BY TreeFacts
  <2>2. CASE a # y
    BY <1>1, <1>6, <2>1, <2>2
  <2>3. CASE a = y
    <3>1. /\ Len(ks) <= MAX_DEGREE
          /\ y # t => Len(ks) >= MIN_DEGREE
          /\ H[y].is_leaf \/ Len(ks) = Len(H[y].keys)
      BY DEF KeysOf
    <3> QED BY <1>5, <2>1, <2>3, <3>1, Zenon
  <2> QED BY <2>2, <2>3
<1>11. Owned(G, A)
  <2>1. \A a \in A : \A j \in 1..Len(H[a].child) :
           /\ H[a].child[j] \in A
           /\ H[H[a].child[j]].parent = a
           /\ \A i \in 1..(j - 1) : H[a].child[i] # H[a].child[j]
    BY DEF Tree, Owned
  <2> QED BY <1>1, <1>8, <2>1 DEF Owned
<1>12. Attached(G, A, t)
  <2> SUFFICES ASSUME NEW a \in A
               PROVE  IF a = t THEN G[a].parent = NULL
                      ELSE /\ G[a].parent \in A
                           /\ \E j \in 1..Len(G[G[a].parent].child) :
                                 G[G[a].parent].child[j] = a
    BY DEF Attached
  <2> QED BY <1>1, <1>8, TreeParent
<1>13. Leveled(G, A, t, ht)
  <2>1. \A a \in A :
           /\ ht[a] = 0 <=> H[a].is_leaf
           /\ \A j \in 1..Len(H[a].child) : ht[H[a].child[j]] = ht[a] - 1
           /\ ht[a] <= ht[t]
    BY DEF Tree, Leveled
  <2> QED BY <1>1, <1>8, <2>1 DEF Leveled
<1>14. Tree(G, A, t, ht)
  BY <1>9, <1>10, <1>11, <1>12, <1>13, Zenon DEF Tree
<1> QED BY <1>5, <1>6, <1>8, <1>14

(* A tree of one node: the first key of an empty tree. *)
FirstOf(H, G, z, it) ==
    /\ H \in [Nodes -> Node]
    /\ z \in Nodes
    /\ it \in Item
    /\ G = [H EXCEPT ![z] = [NewNode EXCEPT !.keys = <<it>>]]

(* insert_in_to_new_node makes a B-tree of one leaf. *)
LEMMA FirstTree ==
    ASSUME NEW H, NEW G, NEW z, NEW it, FirstOf(H, G, z, it)
    PROVE  /\ \E ht : Tree(G, {z}, z, ht)
           /\ G[z].keys = <<it>>
<1> DEFINE ht == [c \in Nodes |-> 0]
<1>0. <<it>> \in Seq(Item) /\ Len(<<it>>) = 1 /\ <<>> \in Seq(Nodes) /\ Len(<<>>) = 0
  <2>1. it \in Item
    BY DEF FirstOf
  <2> QED BY <2>1
<1>1. /\ G[z] = [NewNode EXCEPT !.keys = <<it>>] /\ z \in Nodes
      /\ \A c \in Nodes \ {z} : G[c] = H[c] /\ H[c] \in Node
      /\ \E f : G = [c \in Nodes |-> f[c]]
  <2>1. H \in [Nodes -> Node] /\ z \in Nodes
    BY DEF FirstOf
  <2> DEFINE r == [NewNode EXCEPT !.keys = <<it>>]
  <2>2. G = [H EXCEPT ![z] = r]
    BY DEF FirstOf
  <2> HIDE DEF r
  <2>3. G[z] = r /\ \A c \in Nodes \ {z} : G[c] = H[c] /\ H[c] \in Node
    BY <2>1, <2>2
  <2>4. G = [c \in Nodes |-> IF c = z THEN r ELSE H[c]]
    BY <2>1, <2>2
  <2>5. \E f : G = [c \in Nodes |-> f[c]]
    BY <2>4
  <2> QED BY <2>1, <2>3, <2>5 DEF r
<1>2. /\ G[z] \in Node /\ G[z].keys = <<it>> /\ G[z].child = <<>>
      /\ G[z].is_leaf = TRUE /\ G[z].parent = NULL
  BY <1>0, <1>1 DEF NewNode, Node
<1>3. G \in [Nodes -> Node]
  <2>1. \A c \in Nodes : G[c] \in Node
    BY <1>1, <1>2
  <2> QED BY <1>1, <2>1
<1>4. Typed(G, {z}, z, ht)
  BY <1>1, <1>3 DEF Typed
<1>5. Sized(G, {z}, z)
  <2>1. 1 <= MAX_DEGREE
    BY TAssumption DEF MAX_DEGREE
  <2>2. Len(G[z].keys) = 1 /\ Len(G[z].child) = 0 /\ G[z].is_leaf
    BY <1>0, <1>2
  <2> QED BY <2>1, <2>2 DEF Sized
<1>6. Owned(G, {z})
  BY <1>0, <1>2 DEF Owned
<1>7. Attached(G, {z}, z)
  BY <1>2 DEF Attached
<1>8. Leveled(G, {z}, z, ht)
  BY <1>0, <1>1, <1>2 DEF Leveled
<1>9. Tree(G, {z}, z, ht)
  BY <1>4, <1>5, <1>6, <1>7, <1>8, Zenon DEF Tree
<1> QED BY <1>2, <1>9

(* insert_to_root of a full root: the new root s has the old one as its    *)
(* only child, before the old one is split.                                *)
GrownOf(H, G, A, t, ht, s, hu) ==
    /\ Len(H[t].keys) >= MIN_DEGREE
    /\ s \in Nodes \ A
    /\ G = [H EXCEPT ![s] = [NewNode EXCEPT !.is_leaf = FALSE, !.child = <<t>>],
                     ![t].parent = s]
    /\ hu = [ht EXCEPT ![s] = ht[t] + 1]

(* A new root above a full one is a B-tree again: only the topmost node     *)
(* may have no key.                                                         *)
LEMMA GrowTree ==
    ASSUME NEW H, NEW A, NEW t, NEW ht, Tree(H, A, t, ht),
           NEW s, NEW G, NEW hu, GrownOf(H, G, A, t, ht, s, hu)
    PROVE  /\ Tree(G, A \union {s}, s, hu)
           /\ Len(G[s].keys) = 0 /\ G[s].child[1] = t /\ ~G[s].is_leaf
           /\ G[t].keys = H[t].keys
<1> DEFINE B == A \union {s}
<1>1. /\ H \in [Nodes -> Node] /\ A \subseteq Nodes /\ t \in A
      /\ ht \in [Nodes -> Nat] /\ s \notin A /\ s # t /\ t \in Nodes
      /\ s \in Nodes
  BY TreeFacts DEF GrownOf
<1>2. /\ G[s] = [NewNode EXCEPT !.is_leaf = FALSE, !.child = <<t>>]
      /\ G[t] = [H[t] EXCEPT !.parent = s]
      /\ \A c \in Nodes \ {s, t} : G[c] = H[c]
      /\ \E f : G = [c \in Nodes |-> f[c]]
  <2> DEFINE r == [NewNode EXCEPT !.is_leaf = FALSE, !.child = <<t>>]
             h == [H EXCEPT ![s] = r]
  <2>1. G = [h EXCEPT ![t] = [h[t] EXCEPT !.parent = s]]
    BY DEF GrownOf
  <2> HIDE DEF r
  <2>2. h = [c \in Nodes |-> IF c = s THEN r ELSE H[c]]
    BY <1>1
  <2> HIDE DEF h
  <2>3. h[s] = r /\ h[t] = H[t] /\ \A c \in Nodes \ {s, t} : h[c] = H[c]
    BY <1>1, <2>2
  <2>4. G = [c \in Nodes |-> IF c = t THEN [H[t] EXCEPT !.parent = s] ELSE h[c]]
    BY <1>1, <2>1, <2>2, <2>3
  <2>5. G[s] = r /\ G[t] = [H[t] EXCEPT !.parent = s] /\ \A c \in Nodes \ {s, t} : G[c] = H[c]
    BY <1>1, <2>3, <2>4
  <2>6. \E f : G = [c \in Nodes |-> f[c]]
    BY <2>4
  <2> QED BY <2>5, <2>6 DEF r
<1>3. <<t>> \in Seq(Nodes) /\ Len(<<t>>) = 1 /\ <<t>>[1] = t /\ <<>> \in Seq(Item) /\ Len(<<>>) = 0
  BY <1>1
<1>4. /\ G[s] \in Node /\ G[s].keys = <<>> /\ G[s].child = <<t>>
      /\ G[s].is_leaf = FALSE /\ G[s].parent = NULL
  BY <1>2, <1>3 DEF NewNode, Node
<1>5. /\ G[t] \in Node /\ G[t].keys = H[t].keys /\ G[t].child = H[t].child
      /\ G[t].is_leaf = H[t].is_leaf /\ G[t].parent = s
  BY <1>1, <1>2 DEF Node
<1>6. G \in [Nodes -> Node]
  <2>1. \A c \in Nodes : G[c] \in Node
    BY <1>1, <1>2, <1>4, <1>5
  <2> QED BY <1>2, <2>1
<1>7. \A c \in A : /\ G[c].keys = H[c].keys /\ G[c].child = H[c].child
                   /\ G[c].is_leaf = H[c].is_leaf
                   /\ c # t => G[c].parent = H[c].parent
  BY <1>1, <1>2, <1>5
<1>8. /\ hu[s] = ht[t] + 1 /\ \A c \in A : hu[c] = ht[c]
      /\ hu \in [Nodes -> Nat]
  <2>1. hu = [ht EXCEPT ![s] = ht[t] + 1]
    BY DEF GrownOf
  <2>2. ht[t] + 1 \in Nat
    BY <1>1
  <2> QED BY <1>1, <2>1, <2>2
<1>9. Typed(G, B, s, hu)
  BY <1>1, <1>6, <1>8 DEF Typed
<1>10. Sized(G, B, s)
  <2> SUFFICES ASSUME NEW a \in B
               PROVE  /\ Len(G[a].keys) <= MAX_DEGREE
                      /\ a # s => Len(G[a].keys) >= MIN_DEGREE
                      /\ Len(G[a].child) =
                            IF G[a].is_leaf THEN 0 ELSE Len(G[a].keys) + 1
    BY DEF Sized
  <2>1. CASE a = s
    <3>1. 0 <= MAX_DEGREE
      BY TAssumption DEF MAX_DEGREE
    <3>2. Len(G[s].keys) = 0 /\ Len(G[s].child) = 1 /\ ~G[s].is_leaf
      BY <1>3, <1>4
    <3> QED BY <2>1, <3>1, <3>2
  <2>2. CASE a \in A
    <3>1. /\ Len(H[a].keys) <= MAX_DEGREE
          /\ Len(H[a].keys) >= MIN_DEGREE
          /\ Len(H[a].child) = IF H[a].is_leaf THEN 0 ELSE Len(H[a].keys) + 1
      BY <2>2, TreeFacts DEF GrownOf
    <3> QED BY <1>7, <2>2, <3>1, Zenon
  <2> QED BY <2>1, <2>2
<1>11. Owned(G, B)
  <2> SUFFICES ASSUME NEW a \in B, NEW j \in 1..Len(G[a].child)
               PROVE  /\ G[a].child[j] \in B
                      /\ G[G[a].child[j]].parent = a
                      /\ \A i \in 1..(j - 1) : G[a].child[i] # G[a].child[j]
    BY DEF Owned
  <2>1. CASE a = s
    BY <1>1, <1>3, <1>4, <1>5, <2>1
  <2>2. CASE a \in A
    <3>1. /\ j \in 1..Len(H[a].child) /\ G[a].child = H[a].child
      BY <1>7, <2>2
    <3>2. /\ H[a].child[j] \in A /\ H[H[a].child[j]].parent = a /\ H[a].child[j] # t
      BY <2>2, <3>1, TreeChild
    <3>3. \A i \in 1..(j - 1) : H[a].child[i] # H[a].child[j]
      BY <2>2, <3>1 DEF Tree, Owned
    <3> QED BY <1>7, <3>1, <3>2, <3>3
  <2> QED BY <2>1, <2>2
<1>12. Attached(G, B, s)
  <2> SUFFICES ASSUME NEW a \in B
               PROVE  IF a = s THEN G[a].parent = NULL
                      ELSE /\ G[a].parent \in B
                           /\ \E j \in 1..Len(G[G[a].parent].child) :
                                 G[G[a].parent].child[j] = a
    BY DEF Attached
  <2>1. CASE a = s
    BY <1>4, <2>1
  <2>2. CASE a = t
    <3>1. 1 \in 1..Len(G[s].child) /\ G[s].child[1] = t
      BY <1>3, <1>4
    <3> QED BY <1>1, <1>5, <2>2, <3>1
  <2>3. CASE a \in A /\ a # t
    <3>1. /\ H[a].parent \in A
          /\ \E j \in 1..Len(H[H[a].parent].child) : H[H[a].parent].child[j] = a
      BY <2>3, TreeParent
    <3> QED BY <1>1, <1>7, <2>3, <3>1
  <2> QED BY <2>1, <2>2, <2>3
<1>13. Leveled(G, B, s, hu)
  <2> SUFFICES ASSUME NEW a \in B
               PROVE  /\ hu[a] = 0 <=> G[a].is_leaf
                      /\ \A j \in 1..Len(G[a].child) : hu[G[a].child[j]] = hu[a] - 1
                      /\ hu[a] <= hu[s]
    BY DEF Leveled
  <2>0. ht[t] \in Nat
    BY <1>1
  <2>1. CASE a = s
    BY <1>1, <1>3, <1>4, <1>8, <2>0, <2>1
  <2>2. CASE a \in A
    <3>1. /\ ht[a] \in Nat /\ ht[a] <= ht[t]
          /\ ht[a] = 0 <=> H[a].is_leaf
      BY <2>2, TreeFacts
    <3>2. \A j \in 1..Len(H[a].child) : H[a].child[j] \in A /\ ht[H[a].child[j]] = ht[a] - 1
      BY <2>2, TreeChild
    <3>3. hu[s] = ht[t] + 1 /\ hu[a] = ht[a] /\ \A c \in A : hu[c] = ht[c]
      BY <1>8, <2>2
    <3>4. G[a].child = H[a].child /\ G[a].is_leaf = H[a].is_leaf
      BY <1>7, <2>2
    <3>5. hu[a] <= hu[s] /\ (hu[a] = 0 <=> G[a].is_leaf)
      BY <2>0, <3>1, <3>3, <3>4
    <3>6. \A j \in 1..Len(G[a].child) : hu[G[a].child[j]] = hu[a] - 1
      BY <3>2, <3>3, <3>4
    <3> QED BY <3>5, <3>6
  <2> QED BY <2>1, <2>2
<1>14. Tree(G, B, s, hu)
  BY <1>9, <1>10, <1>11, <1>12, <1>13, Zenon DEF Tree
<1>15. Len(G[s].keys) = 0 /\ G[s].child[1] = t /\ ~G[s].is_leaf
  BY <1>3, <1>4
<1> QED BY <1>5, <1>14, <1>15

(* The height of a node below the topmost one is less than the height of   *)
(* the tree: its parent is one higher.                                     *)
LEMMA BelowTop ==
    ASSUME NEW H, NEW A, NEW t, NEW ht, Tree(H, A, t, ht), NEW a \in A, a # t
    PROVE  /\ ht[a] \in Nat /\ ht[t] \in Nat
           /\ H[a].parent \in A /\ ht[H[a].parent] = ht[a] + 1
           /\ ht[a] < ht[t]
<1>1. PICK j \in 1..Len(H[H[a].parent].child) : H[H[a].parent].child[j] = a
  BY TreeParent
<1>2. H[a].parent \in A
  BY TreeParent
<1>3. ht[a] \in Nat /\ ht[H[a].parent] \in Nat /\ ht[a] = ht[H[a].parent] - 1
  BY <1>1, <1>2, TreeChild
<1>4. ht[H[a].parent] <= ht[t] /\ ht[t] \in Nat
  BY <1>2, TreeFacts
<1> QED BY <1>2, <1>3, <1>4

(* A tree whose topmost node is a leaf has no other node. *)
LEMMA LoneLeaf ==
    ASSUME NEW H, NEW A, NEW t, NEW ht, Tree(H, A, t, ht), H[t].is_leaf
    PROVE  A = {t}
<1>1. t \in A /\ ht[t] = 0
  BY TreeFacts
<1>2. ASSUME NEW a \in A, a # t PROVE FALSE
  <2>1. ht[a] \in Nat /\ ht[a] < ht[t]
    BY <1>2, BelowTop
  <2> QED BY <1>1, <2>1
<1> QED BY <1>1, <1>2

(* shrink_to_child: a root without keys is given back, its only child is   *)
(* the new root.                                                           *)
ShrunkOf(H, G, t, c) ==
    /\ Len(H[t].keys) = 0 /\ ~H[t].is_leaf /\ c = H[t].child[1]
    /\ G = [H EXCEPT ![t] = NewNode, ![c].parent = NULL]

(* A topmost node without keys can be given back: its only child becomes    *)
(* the topmost node.                                                        *)
LEMMA ShrinkTree ==
    ASSUME NEW H, NEW A, NEW t, NEW ht, Tree(H, A, t, ht),
           NEW G, NEW c, ShrunkOf(H, G, t, c)
    PROVE  /\ c \in A /\ c # t
           /\ Tree(G, A \ {t}, c, ht)
           /\ G[c].keys = H[c].keys
<1> DEFINE B == A \ {t}
<1>1. /\ H \in [Nodes -> Node] /\ A \subseteq Nodes /\ t \in A /\ t \in Nodes
      /\ ht \in [Nodes -> Nat]
  BY TreeFacts
<1>2. Len(H[t].child) = 1 /\ 1 \in 1..Len(H[t].child) /\ c = H[t].child[1]
  <2>1. Len(H[t].child) = IF H[t].is_leaf THEN 0 ELSE Len(H[t].keys) + 1
    BY <1>1, TreeFacts
  <2>2. Len(H[t].keys) = 0 /\ ~H[t].is_leaf /\ c = H[t].child[1]
    BY DEF ShrunkOf
  <2> QED BY <2>1, <2>2
<1>3. /\ c \in A /\ c # t /\ c \in Nodes /\ H[c].parent = t
      /\ ht[c] = ht[t] - 1 /\ ht[t] \in Nat /\ ht[c] \in Nat
  <2>1. /\ H[t].child[1] \in A /\ H[H[t].child[1]].parent = t
        /\ ht[t] \in Nat /\ ht[H[t].child[1]] \in Nat
        /\ ht[H[t].child[1]] = ht[t] - 1
        /\ H[t].child[1] # t
    BY <1>1, <1>2, TreeChild
  <2> QED BY <1>1, <1>2, <2>1
<1>4. /\ G[c] = [H[c] EXCEPT !.parent = NULL]
      /\ G[t] = NewNode
      /\ \A a \in Nodes \ {t, c} : G[a] = H[a]
      /\ \E f : G = [a \in Nodes |-> f[a]]
  <2> DEFINE h == [H EXCEPT ![t] = NewNode]
  <2>1. G = [h EXCEPT ![c] = [h[c] EXCEPT !.parent = NULL]]
    BY DEF ShrunkOf
  <2>2. h = [a \in Nodes |-> IF a = t THEN NewNode ELSE H[a]]
    BY <1>1
  <2> HIDE DEF h
  <2>3. h[t] = NewNode /\ h[c] = H[c] /\ \A a \in Nodes \ {t, c} : h[a] = H[a]
    BY <1>1, <1>3, <2>2
  <2>4. G = [a \in Nodes |-> IF a = c THEN [H[c] EXCEPT !.parent = NULL] ELSE h[a]]
    BY <2>1, <2>2, <2>3
  <2>5. /\ G[c] = [H[c] EXCEPT !.parent = NULL] /\ G[t] = NewNode
        /\ \A a \in Nodes \ {t, c} : G[a] = H[a]
    BY <1>1, <1>3, <2>3, <2>4
  <2>6. \E f : G = [a \in Nodes |-> f[a]]
    BY <2>4
  <2> QED BY <2>5, <2>6
<1>5. /\ G[c] \in Node /\ G[c].keys = H[c].keys /\ G[c].child = H[c].child
      /\ G[c].is_leaf = H[c].is_leaf /\ G[c].parent = NULL
  BY <1>1, <1>3, <1>4 DEF Node
<1>6. G[t] \in Node
  <2>1. NewNode \in Node
    BY EmptySeq DEF NewNode, Node
  <2> QED BY <1>4, <2>1
<1>7. G \in [Nodes -> Node]
  <2>1. \A a \in Nodes : G[a] \in Node
    BY <1>1, <1>4, <1>5, <1>6
  <2> QED BY <1>4, <2>1
<1>8. \A a \in B : /\ G[a].keys = H[a].keys /\ G[a].child = H[a].child
                   /\ G[a].is_leaf = H[a].is_leaf
                   /\ a # c => G[a].parent = H[a].parent
  BY <1>1, <1>4, <1>5
<1>9. ASSUME NEW a \in B, a # c
      PROVE  H[a].parent \in B
  <2>1. PICK j \in 1..Len(H[H[a].parent].child) : H[H[a].parent].child[j] = a
    BY TreeParent
  <2>2. H[a].parent \in A
    BY TreeParent
  <2>3. H[a].parent # t
    BY <1>2, <1>9, <2>1
  <2> QED BY <2>2, <2>3
<1>10. Typed(G, B, c, ht)
  BY <1>1, <1>3, <1>7 DEF Typed
<1>11. Sized(G, B, c)
  <2> SUFFICES ASSUME NEW a \in B
               PROVE  /\ Len(G[a].keys) <= MAX_DEGREE
                      /\ a # c => Len(G[a].keys) >= MIN_DEGREE
                      /\ Len(G[a].child) =
                            IF G[a].is_leaf THEN 0 ELSE Len(G[a].keys) + 1
    BY DEF Sized
  <2>1. /\ Len(H[a].keys) <= MAX_DEGREE
        /\ Len(H[a].keys) >= MIN_DEGREE
        /\ Len(H[a].child) = IF H[a].is_leaf THEN 0 ELSE Len(H[a].keys) + 1
    BY TreeFacts
  <2> QED BY <1>8, <2>1, Zenon
<1>12. Owned(G, B)
  <2> SUFFICES ASSUME NEW a \in B, NEW j \in 1..Len(G[a].child)
               PROVE  /\ G[a].child[j] \in B
                      /\ G[G[a].child[j]].parent = a
                      /\ \A i \in 1..(j - 1) : G[a].child[i] # G[a].child[j]
    BY DEF Owned
  <2>1. j \in 1..Len(H[a].child) /\ G[a].child = H[a].child
    BY <1>8
  <2>2. /\ H[a].child[j] \in A /\ H[H[a].child[j]].parent = a /\ H[a].child[j] # t
    BY <2>1, TreeChild
  <2>3. H[a].child[j] # c
    BY <1>3, <2>2
  <2>4. \A i \in 1..(j - 1) : H[a].child[i] # H[a].child[j]
    BY <2>1 DEF Tree, Owned
  <2> QED BY <1>8, <2>1, <2>2, <2>3, <2>4
<1>13. Attached(G, B, c)
  <2> SUFFICES ASSUME NEW a \in B
               PROVE  IF a = c THEN G[a].parent = NULL
                      ELSE /\ G[a].parent \in B
                           /\ \E j \in 1..Len(G[G[a].parent].child) :
                                 G[G[a].parent].child[j] = a
    BY DEF Attached
  <2>1. CASE a = c
    BY <1>5, <2>1
  <2>2. CASE a # c
    <3>1. \E j \in 1..Len(H[H[a].parent].child) : H[H[a].parent].child[j] = a
      BY TreeParent
    <3> QED BY <1>8, <1>9, <2>2, <3>1
  <2> QED BY <2>1, <2>2
<1>14. Leveled(G, B, c, ht)
  <2> SUFFICES ASSUME NEW a \in B
               PROVE  /\ ht[a] = 0 <=> G[a].is_leaf
                      /\ \A j \in 1..Len(G[a].child) : ht[G[a].child[j]] = ht[a] - 1
                      /\ ht[a] <= ht[c]
    BY DEF Leveled
  <2>1. ht[a] \in Nat /\ ht[a] < ht[t]
    BY BelowTop
  <2>2. ht[a] = 0 <=> H[a].is_leaf
    BY TreeFacts
  <2>3. \A j \in 1..Len(H[a].child) : ht[H[a].child[j]] = ht[a] - 1
    BY TreeChild
  <2> QED BY <1>3, <1>8, <2>1, <2>2, <2>3
<1>15. Tree(G, B, c, ht)
  BY <1>10, <1>11, <1>12, <1>13, <1>14, Zenon DEF Tree
<1> QED BY <1>3, <1>5, <1>15

(***************************************************************************)
(* The operations fill() and removeFromNonLeaf() are made of: merge,       *)
(* borrowFromPrev and borrowFromNext.                                      *)
(***************************************************************************)

(* Two sequences joined around an element. *)
LEMMA JoinFacts ==
    ASSUME NEW S, NEW s \in Seq(S), NEW e \in S, NEW r \in Seq(S)
    PROVE  /\ s \o <<e>> \o r \in Seq(S)
           /\ Len(s \o <<e>> \o r) = Len(s) + 1 + Len(r)
           /\ \A j \in 1..Len(s) : (s \o <<e>> \o r)[j] = s[j]
           /\ (s \o <<e>> \o r)[Len(s) + 1] = e
           /\ \A j \in 1..Len(r) : (s \o <<e>> \o r)[Len(s) + 1 + j] = r[j]
<1> DEFINE u == s \o <<e>>
<1>1. Len(s) \in Nat /\ Len(r) \in Nat
  BY LenProperties
<1>2. <<e>> \in Seq(S) /\ Len(<<e>>) = 1 /\ <<e>>[1] = e
  OBVIOUS
<1>3. /\ u \in Seq(S)
      /\ Len(u) = Len(s) + 1
      /\ \A j \in 1..(Len(s) + 1) : u[j] = IF j <= Len(s) THEN s[j] ELSE e
  BY <1>1, <1>2, ConcatProperties
<1> HIDE DEF u
<1> DEFINE w == u \o r
<1>4. /\ w \in Seq(S)
      /\ Len(w) = Len(u) + Len(r)
      /\ \A j \in 1..(Len(u) + Len(r)) : w[j] =
            IF j <= Len(u) THEN u[j] ELSE r[j - Len(u)]
  BY <1>3, ConcatProperties
<1> HIDE DEF w
<1>5. /\ w \in Seq(S)
      /\ Len(w) = Len(s) + 1 + Len(r)
      /\ \A j \in 1..Len(s) : w[j] = s[j]
      /\ w[Len(s) + 1] = e
  BY <1>1, <1>3, <1>4
<1>6. ASSUME NEW j \in 1..Len(r) PROVE w[Len(s) + 1 + j] = r[j]
  <2>1. /\ Len(s) + 1 + j \in 1..(Len(u) + Len(r)) /\ ~(Len(s) + 1 + j <= Len(u))
        /\ (Len(s) + 1 + j) - Len(u) = j
    BY <1>1, <1>3
  <2> QED BY <1>4, <2>1
<1> QED BY <1>5, <1>6 DEF u, w

(* Two sequences, one after the other. *)
LEMMA ConcatFacts ==
    ASSUME NEW S, NEW s \in Seq(S), NEW r \in Seq(S)
    PROVE  /\ s \o r \in Seq(S)
           /\ Len(s \o r) = Len(s) + Len(r)
           /\ \A j \in 1..Len(s) : (s \o r)[j] = s[j]
           /\ \A j \in 1..Len(r) : (s \o r)[Len(s) + j] = r[j]
<1> DEFINE w == s \o r
<1>1. Len(s) \in Nat /\ Len(r) \in Nat
  BY LenProperties
<1>2. /\ w \in Seq(S)
      /\ Len(w) = Len(s) + Len(r)
      /\ \A j \in 1..(Len(s) + Len(r)) : w[j] =
            IF j <= Len(s) THEN s[j] ELSE r[j - Len(s)]
  BY ConcatProperties
<1> HIDE DEF w
<1>3. ASSUME NEW j \in 1..Len(s) PROVE w[j] = s[j]
  BY <1>1, <1>2
<1>4. ASSUME NEW j \in 1..Len(r) PROVE w[Len(s) + j] = r[j]
  <2>1. /\ Len(s) + j \in 1..(Len(s) + Len(r)) /\ ~(Len(s) + j <= Len(s))
        /\ (Len(s) + j) - Len(s) = j
    BY <1>1
  <2> QED BY <1>2, <2>1
<1> QED BY <1>2, <1>3, <1>4 DEF w

(* What merge makes of the three nodes it works on and of the others. *)
MergeOf(H, G, x, p, ch, sib) ==
    /\ G \in [Nodes -> Node]
    /\ Len(G[x].keys) = Len(H[x].keys) - 1
    /\ \A j \in 1..(Len(H[x].keys) - 1) : G[x].keys[j] =
          IF j < p THEN H[x].keys[j] ELSE H[x].keys[j + 1]
    /\ Len(G[x].child) = Len(H[x].child) - 1
    /\ \A j \in 1..(Len(H[x].child) - 1) : G[x].child[j] =
          IF j < p + 1 THEN H[x].child[j] ELSE H[x].child[j + 1]
    /\ G[x].is_leaf = H[x].is_leaf
    /\ G[x].parent = H[x].parent
    /\ Len(G[ch].keys) = Len(H[ch].keys) + 1 + Len(H[sib].keys)
    /\ \A j \in 1..Len(H[ch].keys) : G[ch].keys[j] = H[ch].keys[j]
    /\ G[ch].keys[Len(H[ch].keys) + 1] = H[x].keys[p]
    /\ \A j \in 1..Len(H[sib].keys) :
          G[ch].keys[Len(H[ch].keys) + 1 + j] = H[sib].keys[j]
    /\ Len(G[ch].child) = Len(H[ch].child) + Len(H[sib].child)
    /\ \A j \in 1..Len(H[ch].child) : G[ch].child[j] = H[ch].child[j]
    /\ \A j \in 1..Len(H[sib].child) :
          G[ch].child[Len(H[ch].child) + j] = H[sib].child[j]
    /\ G[ch].is_leaf = H[ch].is_leaf
    /\ G[ch].parent = H[ch].parent
    /\ \A c \in Nodes \ {x, ch, sib} :
          /\ G[c].keys = H[c].keys
          /\ G[c].child = H[c].child
          /\ G[c].is_leaf = H[c].is_leaf
          /\ G[c].parent =
                IF \E j \in 1..Len(H[sib].child) : c = H[sib].child[j]
                THEN ch ELSE H[c].parent

(* Child p of x and the one behind it are nodes other than x and each       *)
(* other.                                                                   *)
CanMerge(H, x, p, ch, sib) ==
    /\ H \in [Nodes -> Node]
    /\ x \in Nodes /\ ch \in Nodes /\ sib \in Nodes
    /\ x # ch /\ x # sib /\ ch # sib
    /\ p \in 1..Len(H[x].keys) /\ p + 1 <= Len(H[x].child)
    /\ ch = H[x].child[p] /\ sib = H[x].child[p + 1]

(* merge computes MergeOf: key p of x and all of sib go to the end of ch,   *)
(* and x loses key p and child p + 1.                                       *)
LEMMA MergeEffect ==
    ASSUME NEW H, NEW x, NEW p, NEW ch, NEW sib, CanMerge(H, x, p, ch, sib)
    PROVE  MergeOf(H, merge(H, x, p), x, p, ch, sib)
<1> DEFINE G == merge(H, x, p)
           kx == RemoveAt(H[x].keys, p)
           cx == RemoveAt(H[x].child, p + 1)
           kc == H[ch].keys \o <<H[x].keys[p]>> \o H[sib].keys
           cc == H[ch].child \o H[sib].child
<1>1. /\ H \in [Nodes -> Node]
      /\ x \in Nodes /\ ch \in Nodes /\ sib \in Nodes
      /\ x # ch /\ x # sib /\ ch # sib
      /\ p \in 1..Len(H[x].keys) /\ p + 1 \in 1..Len(H[x].child)
  BY DEF CanMerge
<1>2. H[x] \in Node /\ H[ch] \in Node /\ H[sib] \in Node
  BY <1>1
<1>3. /\ kx \in Seq(Item)
      /\ Len(kx) = Len(H[x].keys) - 1
      /\ \A j \in 1..(Len(H[x].keys) - 1) : kx[j] =
            IF j < p THEN H[x].keys[j] ELSE H[x].keys[j + 1]
  <2> DEFINE s == H[x].keys
  <2>1. s \in Seq(Item) /\ p \in 1..Len(s)
    BY <1>1, <1>2, NodeFacts
  <2> HIDE DEF s
  <2>2. /\ RemoveAt(s, p) \in Seq(Item)
        /\ Len(RemoveAt(s, p)) = Len(s) - 1
        /\ \A j \in 1..(Len(s) - 1) : RemoveAt(s, p)[j] =
              IF j < p THEN s[j] ELSE s[j + 1]
    BY <2>1, RemoveAtFacts
  <2> QED BY <2>2 DEF s, kx
<1>4. /\ cx \in Seq(Nodes)
      /\ Len(cx) = Len(H[x].child) - 1
      /\ \A j \in 1..(Len(H[x].child) - 1) : cx[j] =
            IF j < p + 1 THEN H[x].child[j] ELSE H[x].child[j + 1]
  <2> DEFINE s == H[x].child
             q == p + 1
  <2>1. s \in Seq(Nodes) /\ q \in 1..Len(s)
    BY <1>1, <1>2, NodeFacts
  <2> HIDE DEF s, q
  <2>2. /\ RemoveAt(s, q) \in Seq(Nodes)
        /\ Len(RemoveAt(s, q)) = Len(s) - 1
        /\ \A j \in 1..(Len(s) - 1) : RemoveAt(s, q)[j] =
              IF j < q THEN s[j] ELSE s[j + 1]
    BY <2>1, RemoveAtFacts
  <2> QED BY <2>2 DEF s, q, cx
<1>5. /\ kc \in Seq(Item)
      /\ Len(kc) = Len(H[ch].keys) + 1 + Len(H[sib].keys)
      /\ \A j \in 1..Len(H[ch].keys) : kc[j] = H[ch].keys[j]
      /\ kc[Len(H[ch].keys) + 1] = H[x].keys[p]
      /\ \A j \in 1..Len(H[sib].keys) : kc[Len(H[ch].keys) + 1 + j] = H[sib].keys[j]
  <2> DEFINE s == H[ch].keys
             r == H[sib].keys
             e == H[x].keys[p]
  <2>1. s \in Seq(Item) /\ r \in Seq(Item) /\ e \in Item
    BY <1>1, <1>2, NodeFacts
  <2> HIDE DEF s, r, e
  <2>2. /\ s \o <<e>> \o r \in Seq(Item)
        /\ Len(s \o <<e>> \o r) = Len(s) + 1 + Len(r)
        /\ \A j \in 1..Len(s) : (s \o <<e>> \o r)[j] = s[j]
        /\ (s \o <<e>> \o r)[Len(s) + 1] = e
        /\ \A j \in 1..Len(r) : (s \o <<e>> \o r)[Len(s) + 1 + j] = r[j]
    BY <2>1, JoinFacts
  <2> QED BY <2>2, Zenon DEF s, r, e, kc
<1>6. /\ cc \in Seq(Nodes)
      /\ Len(cc) = Len(H[ch].child) + Len(H[sib].child)
      /\ \A j \in 1..Len(H[ch].child) : cc[j] = H[ch].child[j]
      /\ \A j \in 1..Len(H[sib].child) : cc[Len(H[ch].child) + j] = H[sib].child[j]
  <2> DEFINE s == H[ch].child
             r == H[sib].child
  <2>1. s \in Seq(Nodes) /\ r \in Seq(Nodes)
    BY <1>2, NodeFacts
  <2> HIDE DEF s, r
  <2>2. /\ s \o r \in Seq(Nodes)
        /\ Len(s \o r) = Len(s) + Len(r)
        /\ \A j \in 1..Len(s) : (s \o r)[j] = s[j]
        /\ \A j \in 1..Len(r) : (s \o r)[Len(s) + j] = r[j]
    BY <2>1, ConcatFacts
  <2> QED BY <2>2, Zenon DEF s, r, cc
<1> HIDE DEF kx, cx, kc, cc
<1>7. G = [c \in Nodes |->
             CASE c = x   -> [H[x] EXCEPT !.keys = kx, !.child = cx]
               [] c = ch  -> [H[ch] EXCEPT !.keys = kc, !.child = cc]
               [] c = sib -> NewNode
               [] OTHER   -> set_child(H, c, ch, H[sib].child)]
  <2>1. ch = H[x].child[p] /\ sib = H[x].child[p + 1]
    BY DEF CanMerge
  <2> QED BY <2>1 DEF merge, kx, cx, kc, cc
<1> HIDE DEF G
<1>8. G[x] = [H[x] EXCEPT !.keys = kx, !.child = cx]
  BY <1>1, <1>7
<1>9. G[ch] = [H[ch] EXCEPT !.keys = kc, !.child = cc]
  BY <1>1, <1>7
<1>10. G[sib] = NewNode
  BY <1>1, <1>7
<1>11. \A c \in Nodes \ {x, ch, sib} : G[c] = set_child(H, c, ch, H[sib].child)
  BY <1>1, <1>7
<1>12. /\ G[x] \in Node
       /\ G[x].keys = kx
       /\ G[x].child = cx
       /\ G[x].is_leaf = H[x].is_leaf
       /\ G[x].parent = H[x].parent
  BY <1>2, <1>3, <1>4, <1>8 DEF Node
<1>13. /\ G[ch] \in Node
       /\ G[ch].keys = kc
       /\ G[ch].child = cc
       /\ G[ch].is_leaf = H[ch].is_leaf
       /\ G[ch].parent = H[ch].parent
  BY <1>2, <1>5, <1>6, <1>9 DEF Node
<1>14. G[sib] \in Node
  BY <1>10, EmptySeq DEF Node, NewNode
<1>15. \A c \in Nodes \ {x, ch, sib} :
          /\ G[c] \in Node
          /\ G[c].keys = H[c].keys
          /\ G[c].child = H[c].child
          /\ G[c].is_leaf = H[c].is_leaf
          /\ G[c].parent = IF c \in ToSet(H[sib].child) THEN ch ELSE H[c].parent
  BY <1>1, <1>11 DEF set_child, Node
<1>16. G \in [Nodes -> Node]
  <2>1. \A c \in Nodes : G[c] \in Node
    BY <1>12, <1>13, <1>14, <1>15
  <2> QED BY <2>1, <1>7
<1>17. \A c : c \in ToSet(H[sib].child) <=> \E j \in 1..Len(H[sib].child) : c = H[sib].child[j]
  <2>1. H[sib].child \in Seq(Nodes)
    BY <1>2, NodeFacts
  <2> QED BY <2>1, ToSetOfSeq
<1>18. \A c \in Nodes \ {x, ch, sib} :
          /\ G[c].keys = H[c].keys
          /\ G[c].child = H[c].child
          /\ G[c].is_leaf = H[c].is_leaf
          /\ G[c].parent =
                IF \E j \in 1..Len(H[sib].child) : c = H[sib].child[j]
                THEN ch ELSE H[c].parent
  BY <1>15, <1>17, Zenon
<1>19. /\ Len(G[x].keys) = Len(H[x].keys) - 1
       /\ \A j \in 1..(Len(H[x].keys) - 1) : G[x].keys[j] =
             IF j < p THEN H[x].keys[j] ELSE H[x].keys[j + 1]
       /\ Len(G[x].child) = Len(H[x].child) - 1
       /\ \A j \in 1..(Len(H[x].child) - 1) : G[x].child[j] =
             IF j < p + 1 THEN H[x].child[j] ELSE H[x].child[j + 1]
  BY <1>3, <1>4, <1>12, Zenon
<1>20. /\ Len(G[ch].keys) = Len(H[ch].keys) + 1 + Len(H[sib].keys)
       /\ \A j \in 1..Len(H[ch].keys) : G[ch].keys[j] = H[ch].keys[j]
       /\ G[ch].keys[Len(H[ch].keys) + 1] = H[x].keys[p]
       /\ \A j \in 1..Len(H[sib].keys) :
             G[ch].keys[Len(H[ch].keys) + 1 + j] = H[sib].keys[j]
       /\ Len(G[ch].child) = Len(H[ch].child) + Len(H[sib].child)
       /\ \A j \in 1..Len(H[ch].child) : G[ch].child[j] = H[ch].child[j]
       /\ \A j \in 1..Len(H[sib].child) :
             G[ch].child[Len(H[ch].child) + j] = H[sib].child[j]
  BY <1>5, <1>6, <1>13, Zenon
<1> QED BY <1>12, <1>13, <1>16, <1>18, <1>19, <1>20, Zenon DEF MergeOf, G

(* merge is called on the children p and p + 1 of x that have as few keys  *)
(* as a node may have; x can spare a key or is the topmost node.           *)
MergeSite(H, A, t, x, p, ch, sib) ==
    /\ x \in A /\ ~H[x].is_leaf
    /\ p \in 1..Len(H[x].keys)
    /\ ch = H[x].child[p] /\ sib = H[x].child[p + 1]
    /\ Len(H[ch].keys) = MIN_DEGREE /\ Len(H[sib].keys) = MIN_DEGREE
    /\ x = t \/ Len(H[x].keys) >= MIN_DEGREE + 1

(* merge of two minimal children of a node that may lose a key leaves a     *)
(* B-tree without the second child.                                         *)
LEMMA MergeTree ==
    ASSUME NEW H, NEW A, NEW t, NEW ht, Tree(H, A, t, ht),
           NEW x, NEW p, NEW ch, NEW sib, MergeSite(H, A, t, x, p, ch, sib)
    PROVE  /\ ch \in A /\ sib \in A /\ sib # t /\ ch # sib /\ x # ch /\ x # sib
           /\ ht[ch] = ht[x] - 1 /\ ht[sib] = ht[x] - 1
           /\ MergeOf(H, merge(H, x, p), x, p, ch, sib)
           /\ Tree(merge(H, x, p), A \ {sib}, t, ht)
<1> DEFINE G == merge(H, x, p)
           B == A \ {sib}
           L == Len(H[x].child)
           M == Len(H[ch].child)
           N == Len(H[sib].child)
           old(j) == IF j < p + 1 THEN j ELSE j + 1
<1> HIDE DEF G
<1> USE TAssumption DEF MIN_DEGREE, MAX_DEGREE
<1>1. /\ H \in [Nodes -> Node] /\ A \subseteq Nodes /\ t \in A
      /\ ht \in [Nodes -> Nat] /\ NULL \notin A
  BY TreeFacts
<1>2. x \in A /\ ~H[x].is_leaf
  BY DEF MergeSite
<1>3. /\ Len(H[x].keys) \in Nat /\ Len(H[x].keys) <= MAX_DEGREE
      /\ L = Len(H[x].keys) + 1 /\ p \in 1..L /\ p + 1 \in 1..L /\ L \in Nat
      /\ p \in 1..Len(H[x].keys)
  <2>1. /\ Len(H[x].keys) \in Nat /\ Len(H[x].keys) <= MAX_DEGREE
        /\ Len(H[x].child) = Len(H[x].keys) + 1
    BY <1>2, TreeFacts
  <2>2. p \in 1..Len(H[x].keys)
    BY DEF MergeSite
  <2> QED BY <2>1, <2>2
<1>4. /\ ch \in A /\ ch # x /\ ch # t /\ H[ch].parent = x
      /\ ht[ch] = ht[x] - 1 /\ ht[x] \in Nat /\ ht[ch] \in Nat
  <2>1. ch = H[x].child[p] /\ p \in 1..Len(H[x].child)
    BY <1>3 DEF MergeSite
  <2> QED BY <1>2, <2>1, TreeChild
<1>5. /\ sib \in A /\ sib # x /\ sib # t /\ H[sib].parent = x
      /\ ht[sib] = ht[x] - 1
  <2>1. sib = H[x].child[p + 1] /\ p + 1 \in 1..Len(H[x].child)
    BY <1>3 DEF MergeSite
  <2> QED BY <1>2, <2>1, TreeChild
<1>6. ch # sib
  <2> DEFINE q == p + 1
  <2>1. ch = H[x].child[p] /\ sib = H[x].child[q]
    BY DEF MergeSite
  <2>2. p # q /\ p \in 1..Len(H[x].child) /\ q \in 1..Len(H[x].child)
    BY <1>3
  <2> HIDE DEF q
  <2>3. H[x].child[p] # H[x].child[q]
    BY <1>2, <2>2, TreeChildrenDiffer
  <2> QED BY <2>1, <2>3
<1>7. /\ Len(H[ch].keys) = MIN_DEGREE /\ Len(H[sib].keys) = MIN_DEGREE
      /\ H[sib].is_leaf <=> H[ch].is_leaf
      /\ M = IF H[ch].is_leaf THEN 0 ELSE T
      /\ N = IF H[ch].is_leaf THEN 0 ELSE T
  <2>1. Len(H[ch].keys) = T - 1 /\ Len(H[sib].keys) = T - 1
    BY DEF MergeSite
  <2>2. H[sib].is_leaf <=> H[ch].is_leaf
    BY <1>4, <1>5, TreeFacts
  <2>3. M = IF H[ch].is_leaf THEN 0 ELSE Len(H[ch].keys) + 1
    BY <1>4, TreeFacts
  <2>4. N = IF H[sib].is_leaf THEN 0 ELSE Len(H[sib].keys) + 1
    BY <1>5, TreeFacts
  <2> HIDE DEF M, N
  <2>5. CASE H[ch].is_leaf
    BY <2>1, <2>2, <2>3, <2>4, <2>5
  <2>6. CASE ~H[ch].is_leaf
    BY <2>1, <2>2, <2>3, <2>4, <2>6
  <2> QED BY <2>5, <2>6
<1>8. MergeOf(H, G, x, p, ch, sib)
  <2>1. CanMerge(H, x, p, ch, sib)
    <3>1. ch = H[x].child[p] /\ sib = H[x].child[p + 1]
      BY DEF MergeSite
    <3>2. x \in Nodes /\ ch \in Nodes /\ sib \in Nodes /\ p + 1 <= Len(H[x].child)
      BY <1>1, <1>2, <1>3, <1>4, <1>5
    <3> QED BY <1>1, <1>3, <1>4, <1>5, <1>6, <3>1, <3>2, Zenon DEF CanMerge
  <2> QED BY <2>1, MergeEffect DEF G
<1>9. /\ Len(G[x].child) = L - 1
      /\ \A j \in 1..(L - 1) :
            old(j) \in 1..L /\ old(j) # p + 1 /\ G[x].child[j] = H[x].child[old(j)]
      /\ \A i, j \in 1..(L - 1) : i # j => old(i) # old(j)
      /\ \A j \in 1..L : j # p + 1 => \E i \in 1..(L - 1) : old(i) = j
  <2>1. /\ Len(G[x].child) = L - 1
        /\ \A j \in 1..(L - 1) : G[x].child[j] =
              IF j < p + 1 THEN H[x].child[j] ELSE H[x].child[j + 1]
    BY <1>8, Zenon DEF MergeOf
  <2>2. L \in Nat /\ p \in 1..L /\ p + 1 \in 1..L
    BY <1>3
  <2> HIDE DEF L
  <2>3. ASSUME NEW j \in 1..L, j # p + 1
        PROVE  \E i \in 1..(L - 1) : old(i) = j
    <3>1. CASE j < p + 1
      <4>1. j \in 1..(L - 1) /\ old(j) = j
        BY <2>2, <3>1
      <4> QED BY <4>1
    <3>2. CASE j > p + 1
      <4>1. j - 1 \in 1..(L - 1) /\ old(j - 1) = j
        BY <2>2, <3>2
      <4> QED BY <4>1
    <3> QED BY <2>2, <2>3, <3>1, <3>2
  <2>4. ASSUME NEW j \in 1..(L - 1)
        PROVE  old(j) \in 1..L /\ old(j) # p + 1 /\ G[x].child[j] = H[x].child[old(j)]
    <3>1. CASE j < p + 1
      BY <2>1, <2>2, <3>1
    <3>2. CASE ~(j < p + 1)
      BY <2>1, <2>2, <3>2
    <3> QED BY <3>1, <3>2
  <2>5. \A i, j \in 1..(L - 1) : i # j => old(i) # old(j)
    BY <2>2
  <2> QED BY <2>1, <2>3, <2>4, <2>5
<1>10. /\ Len(G[ch].child) = M + N
       /\ \A j \in 1..M : G[ch].child[j] = H[ch].child[j]
       /\ \A j \in 1..N : G[ch].child[M + j] = H[sib].child[j]
  BY <1>8, Zenon DEF MergeOf
<1>11. \A c \in B \ {x, ch} :
          /\ G[c].keys = H[c].keys
          /\ G[c].child = H[c].child
          /\ G[c].is_leaf = H[c].is_leaf
          /\ G[c].parent = IF \E j \in 1..N : c = H[sib].child[j]
                           THEN ch ELSE H[c].parent
  <2>1. \A c \in B \ {x, ch} : c \in Nodes \ {x, ch, sib}
    BY <1>1
  <2> QED BY <1>8, <2>1, Zenon DEF MergeOf
<1>12. /\ G[x].parent = H[x].parent /\ G[ch].parent = x
       /\ G[x].is_leaf = H[x].is_leaf /\ G[ch].is_leaf = H[ch].is_leaf
       /\ Len(G[x].keys) = Len(H[x].keys) - 1
       /\ Len(G[ch].keys) = Len(H[ch].keys) + 1 + Len(H[sib].keys)
  <2>1. G[ch].parent = H[ch].parent
    BY <1>8, Zenon DEF MergeOf
  <2> QED BY <1>4, <1>8, <2>1, Zenon DEF MergeOf
<1>13. Typed(G, B, t, ht)
  <2>1. G \in [Nodes -> Node]
    BY <1>8, Zenon DEF MergeOf
  <2> QED BY <1>1, <1>5, <2>1 DEF Typed
<1>14. Sized(G, B, t)
  <2> SUFFICES ASSUME NEW a \in B
               PROVE  /\ Len(G[a].keys) <= MAX_DEGREE
                      /\ a # t => Len(G[a].keys) >= MIN_DEGREE
                      /\ Len(G[a].child) =
                            IF G[a].is_leaf THEN 0 ELSE Len(G[a].keys) + 1
    BY DEF Sized
  <2>1. CASE a = x
    <3>1. x = t \/ Len(H[x].keys) >= T
      BY <1>3 DEF MergeSite
    <3>2. Len(G[x].child) = L - 1
      BY <1>9
    <3>3. ~G[x].is_leaf /\ Len(G[x].keys) = Len(H[x].keys) - 1
      BY <1>2, <1>12, Zenon
    <3>4. Len(H[x].keys) \in Nat /\ Len(H[x].keys) <= MAX_DEGREE /\ L = Len(H[x].keys) + 1
      BY <1>3
    <3> HIDE DEF L, old
    <3> QED BY <2>1, <3>1, <3>2, <3>3, <3>4
  <2>2. CASE a = ch
    <3>1. Len(G[ch].keys) = 2 * T - 1 /\ G[ch].is_leaf = H[ch].is_leaf
      BY <1>7, <1>12
    <3>2. Len(G[ch].child) = IF H[ch].is_leaf THEN 0 ELSE 2 * T
      <4> HIDE DEF M, N
      <4> QED BY <1>7, <1>10
    <3> QED BY <2>2, <3>1, <3>2
  <2>3. CASE a \in B \ {x, ch}
    <3> HIDE DEF MIN_DEGREE, MAX_DEGREE
    <3>1. G[a].keys = H[a].keys /\ G[a].child = H[a].child /\ G[a].is_leaf = H[a].is_leaf
      BY <1>11, <2>3
    <3> QED BY <2>3, <3>1 DEF Tree, Sized
  <2> QED BY <2>1, <2>2, <2>3
<1>15. M \in Nat /\ N \in Nat
  BY <1>7
<1> HIDE DEF L, M, N, old, MIN_DEGREE, MAX_DEGREE
<1>16. ASSUME NEW j \in 1..M
       PROVE  /\ H[ch].child[j] \in B \ {x, ch}
              /\ H[H[ch].child[j]].parent = ch
              /\ ht[H[ch].child[j]] = ht[ch] - 1
  <2>1. /\ H[ch].child[j] \in A /\ H[H[ch].child[j]].parent = ch
        /\ ht[H[ch].child[j]] = ht[ch] - 1 /\ H[ch].child[j] # ch
    BY <1>4, TreeChild DEF M
  <2> QED BY <1>4, <1>5, <2>1
<1>17. ASSUME NEW j \in 1..N
       PROVE  /\ H[sib].child[j] \in B \ {x, ch}
              /\ H[H[sib].child[j]].parent = sib
              /\ ht[H[sib].child[j]] = ht[ch] - 1
  <2>1. /\ H[sib].child[j] \in A /\ H[H[sib].child[j]].parent = sib
        /\ ht[H[sib].child[j]] = ht[sib] - 1 /\ H[sib].child[j] # sib
    BY <1>5, TreeChild DEF N
  <2> QED BY <1>4, <1>5, <2>1
<1>18. ASSUME NEW j \in 1..L
       PROVE  /\ H[x].child[j] \in A
              /\ H[H[x].child[j]].parent = x
              /\ ht[H[x].child[j]] = ht[x] - 1
              /\ j # p + 1 => H[x].child[j] # sib
  <2>1. /\ H[x].child[j] \in A
        /\ H[H[x].child[j]].parent = x
        /\ ht[H[x].child[j]] = ht[x] - 1
    BY <1>2, TreeChild DEF L
  <2>2. ASSUME j # p + 1 PROVE H[x].child[j] # sib
    <3>1. sib = H[x].child[p + 1]
      BY DEF MergeSite
    <3> QED BY <1>2, <1>3, <2>2, <3>1, TreeChildrenDiffer DEF L
  <2> QED BY <2>1, <2>2
(* Who keeps its parent. *)
<1>19. ASSUME NEW c \in B, H[c].parent # sib
       PROVE  G[c].parent = H[c].parent
  <2>1. CASE c \in {x, ch}
    BY <1>4, <1>12, <2>1
  <2>2. CASE c \notin {x, ch}
    <3>1. ~ \E j \in 1..N : c = H[sib].child[j]
      BY <1>17, <1>19
    <3> QED BY <1>11, <2>2, <3>1
  <2> QED BY <2>1, <2>2
<1>20. ASSUME NEW j \in 1..N PROVE G[H[sib].child[j]].parent = ch
  BY <1>11, <1>17
(* A child of the merged node came from ch or from sib. *)
<1>21. ASSUME NEW j \in 1..(M + N)
       PROVE  \/ j \in 1..M /\ G[ch].child[j] = H[ch].child[j]
              \/ \E i \in 1..N : j = M + i /\ G[ch].child[j] = H[sib].child[i]
  <2>1. CASE j <= M
    BY <1>10, <1>15, <2>1
  <2>2. CASE j > M
    <3>1. j - M \in 1..N /\ M + (j - M) = j
      BY <1>15, <2>2
    <3>2. G[ch].child[j] = H[sib].child[j - M]
      BY <1>10, <3>1
    <3> QED BY <3>1, <3>2
  <2> QED BY <1>15, <2>1, <2>2
<1>22. Owned(G, B)
  <2> SUFFICES ASSUME NEW a \in B, NEW j \in 1..Len(G[a].child)
               PROVE  /\ G[a].child[j] \in B
                      /\ G[G[a].child[j]].parent = a
                      /\ \A i \in 1..(j - 1) : G[a].child[i] # G[a].child[j]
    BY DEF Owned
  <2>1. CASE a = x
    <3>1. j \in 1..(L - 1)
      BY <1>9, <2>1
    <3>2. G[x].child[j] \in B /\ G[G[x].child[j]].parent = x
      <4>1. G[x].child[j] \in B /\ H[G[x].child[j]].parent = x
        BY <1>9, <1>18, <3>1
      <4> QED BY <1>5, <1>19, <4>1
    <3>3. ASSUME NEW i \in 1..(j - 1) PROVE G[x].child[i] # G[x].child[j]
      <4>1. i \in 1..(L - 1) /\ i # j
        BY <1>3, <3>1
      <4>2. /\ old(i) \in 1..L /\ old(j) \in 1..L /\ old(i) # old(j)
            /\ G[x].child[i] = H[x].child[old(i)]
            /\ G[x].child[j] = H[x].child[old(j)]
        BY <1>9, <3>1, <4>1
      <4> QED BY <1>2, <4>2, TreeChildrenDiffer DEF L
    <3> QED BY <2>1, <3>2, <3>3
  <2>2. CASE a = ch
    <3>1. j \in 1..(M + N)
      BY <1>10, <2>2
    <3>2. G[ch].child[j] \in B /\ G[G[ch].child[j]].parent = ch
      <4>1. CASE j \in 1..M /\ G[ch].child[j] = H[ch].child[j]
        BY <1>6, <1>16, <1>19, <4>1
      <4>2. CASE \E i \in 1..N : j = M + i /\ G[ch].child[j] = H[sib].child[i]
        BY <1>17, <1>20, <4>2
      <4> QED BY <1>21, <3>1, <4>1, <4>2
    <3>3. ASSUME NEW i \in 1..(j - 1) PROVE G[ch].child[i] # G[ch].child[j]
      <4>1. i \in 1..(M + N) /\ i # j /\ i < j
        BY <1>15, <3>1
      <4>2. CASE j \in 1..M /\ G[ch].child[j] = H[ch].child[j]
        <5>1. i \in 1..M
          BY <1>15, <4>1, <4>2
        <5>2. G[ch].child[i] = H[ch].child[i]
          BY <1>10, <5>1
        <5> QED BY <1>4, <4>1, <4>2, <5>1, <5>2, TreeChildrenDiffer DEF M
      <4>3. CASE \E v \in 1..N : j = M + v /\ G[ch].child[j] = H[sib].child[v]
        <5>1. PICK v \in 1..N : j = M + v /\ G[ch].child[j] = H[sib].child[v]
          BY <4>3
        <5>2. CASE i \in 1..M /\ G[ch].child[i] = H[ch].child[i]
          BY <1>6, <1>16, <1>17, <5>1, <5>2
        <5>3. CASE \E u \in 1..N : i = M + u /\ G[ch].child[i] = H[sib].child[u]
          <6>1. PICK u \in 1..N : i = M + u /\ G[ch].child[i] = H[sib].child[u]
            BY <5>3
          <6>2. u # v
            BY <1>15, <4>1, <5>1, <6>1
          <6> QED BY <1>5, <5>1, <6>1, <6>2, TreeChildrenDiffer DEF N
        <5> QED BY <1>21, <4>1, <5>2, <5>3
      <4> QED BY <1>21, <3>1, <4>2, <4>3
    <3> QED BY <2>2, <3>2, <3>3
  <2>3. CASE a \in B \ {x, ch}
    <3>1. G[a].child = H[a].child
      BY <1>11, <2>3
    <3>2. /\ H[a].child[j] \in A /\ H[H[a].child[j]].parent = a
          /\ \A i \in 1..(j - 1) : H[a].child[i] # H[a].child[j]
      BY <2>3, <3>1 DEF Tree, Owned
    <3>3. H[a].child[j] # sib
      BY <1>5, <2>3, <3>2
    <3> QED BY <1>19, <2>3, <3>1, <3>2, <3>3
  <2> QED BY <2>1, <2>2, <2>3
<1>23. Attached(G, B, t)
  <2> SUFFICES ASSUME NEW a \in B
               PROVE  IF a = t THEN G[a].parent = NULL
                      ELSE /\ G[a].parent \in B
                           /\ \E j \in 1..Len(G[G[a].parent].child) :
                                 G[G[a].parent].child[j] = a
    BY DEF Attached
  <2>1. CASE a = t
    <3>1. H[t].parent = NULL /\ NULL # sib
      BY <1>1, <1>5, TreeParent
    <3> QED BY <1>1, <1>19, <2>1, <3>1
  <2>2. CASE a # t /\ H[a].parent = x
    <3>1. PICK j \in 1..L : H[x].child[j] = a
      BY <2>2, TreeParent DEF L
    <3>2. j # p + 1
      BY <3>1 DEF MergeSite
    <3>3. PICK i \in 1..(L - 1) : old(i) = j
      BY <1>9, <3>2
    <3>4. G[x].child[i] = a
      BY <1>9, <3>1, <3>3
    <3>5. G[a].parent = x
      BY <1>5, <1>19, <2>2
    <3> QED BY <1>2, <1>5, <1>9, <2>2, <3>4, <3>5
  <2>3. CASE a # t /\ H[a].parent = ch
    <3>1. PICK j \in 1..M : H[ch].child[j] = a
      BY <2>3, TreeParent DEF M
    <3>2. j \in 1..(M + N) /\ G[ch].child[j] = a
      BY <1>10, <1>15, <3>1
    <3>3. G[a].parent = ch
      BY <1>6, <1>19, <2>3
    <3> QED BY <1>4, <1>6, <1>10, <2>3, <3>2, <3>3
  <2>4. CASE a # t /\ H[a].parent = sib
    <3>1. PICK j \in 1..N : H[sib].child[j] = a
      BY <2>4, TreeParent DEF N
    <3>2. M + j \in 1..(M + N) /\ G[ch].child[M + j] = a
      BY <1>10, <1>15, <3>1
    <3>3. G[a].parent = ch
      BY <1>20, <3>1
    <3> QED BY <1>4, <1>6, <1>10, <2>4, <3>2, <3>3
  <2>5. CASE a # t /\ H[a].parent \notin {x, ch, sib}
    <3>1. /\ H[a].parent \in A
          /\ \E j \in 1..Len(H[H[a].parent].child) : H[H[a].parent].child[j] = a
      BY <2>5, TreeParent
    <3>2. G[a].parent = H[a].parent
      BY <1>19, <2>5
    <3>3. G[H[a].parent].child = H[H[a].parent].child
      BY <1>11, <2>5, <3>1
    <3> QED BY <2>5, <3>1, <3>2, <3>3
  <2> QED BY <2>1, <2>2, <2>3, <2>4, <2>5
<1>24. Leveled(G, B, t, ht)
  <2> SUFFICES ASSUME NEW a \in B
               PROVE  /\ ht[a] = 0 <=> G[a].is_leaf
                      /\ \A j \in 1..Len(G[a].child) : ht[G[a].child[j]] = ht[a] - 1
                      /\ ht[a] <= ht[t]
    BY DEF Leveled
  <2>1. \A c \in A : ht[c] <= ht[t] /\ (ht[c] = 0 <=> H[c].is_leaf)
    BY TreeFacts
  <2>2. CASE a = x
    <3>1. ASSUME NEW j \in 1..(L - 1) PROVE ht[G[x].child[j]] = ht[x] - 1
      BY <1>9, <1>18
    <3> QED BY <1>2, <1>9, <1>12, <2>1, <2>2, <3>1
  <2>3. CASE a = ch
    <3>1. ASSUME NEW j \in 1..(M + N) PROVE ht[G[ch].child[j]] = ht[ch] - 1
      BY <1>16, <1>17, <1>21
    <3> QED BY <1>4, <1>10, <1>12, <2>1, <2>3, <3>1
  <2>4. CASE a \in B \ {x, ch}
    <3>1. G[a].child = H[a].child /\ G[a].is_leaf = H[a].is_leaf
      BY <1>11, <2>4
    <3>2. \A j \in 1..Len(H[a].child) : ht[H[a].child[j]] = ht[a] - 1
      BY <2>4, TreeChild
    <3> QED BY <2>1, <2>4, <3>1, <3>2
  <2> QED BY <2>2, <2>3, <2>4
<1>25. Tree(G, B, t, ht)
  BY <1>13, <1>14, <1>22, <1>23, <1>24, Zenon DEF Tree
<1> QED BY <1>4, <1>5, <1>6, <1>8, <1>25 DEF G

-----------------------------------------------------------------------------
(* What borrowFromPrev (d = 1) and borrowFromNext (d = 0) make of the      *)
(* three nodes they work on and of the others: the key at one end of sib   *)
(* becomes key q of x, key q of x goes to the other end of ch, and a child *)
(* of sib goes with it.                                                    *)
Lent(s, d) == IF d = 1 THEN s[Len(s)] ELSE s[1]

(* The three nodes and the rest of the heap after a borrow; Lent is the     *)
(* key, or the child, that sib gives away.                                  *)
BorrowOf(H, G, x, q, ch, sib, d) ==
    /\ G \in [Nodes -> Node]
    /\ Len(G[x].keys) = Len(H[x].keys)
    /\ \A j \in 1..Len(H[x].keys) : G[x].keys[j] =
          IF j = q THEN Lent(H[sib].keys, d) ELSE H[x].keys[j]
    /\ G[x].child = H[x].child
    /\ G[x].is_leaf = H[x].is_leaf
    /\ G[x].parent = H[x].parent
    /\ Len(G[ch].keys) = Len(H[ch].keys) + 1
    /\ \A j \in 1..Len(H[ch].keys) : G[ch].keys[j + d] = H[ch].keys[j]
    /\ G[ch].keys[IF d = 1 THEN 1 ELSE Len(H[ch].keys) + 1] = H[x].keys[q]
    /\ G[ch].is_leaf = H[ch].is_leaf
    /\ G[ch].parent = H[ch].parent
    /\ Len(G[sib].keys) = Len(H[sib].keys) - 1
    /\ \A j \in 1..(Len(H[sib].keys) - 1) :
          G[sib].keys[j] = H[sib].keys[j + (1 - d)]
    /\ G[sib].is_leaf = H[sib].is_leaf
    /\ G[sib].parent = H[sib].parent
    /\ H[sib].is_leaf => Len(G[ch].child) = 0 /\ Len(G[sib].child) = 0
    /\ ~H[sib].is_leaf =>
          /\ Len(G[ch].child) = Len(H[ch].child) + 1
          /\ \A j \in 1..Len(H[ch].child) : G[ch].child[j + d] = H[ch].child[j]
          /\ G[ch].child[IF d = 1 THEN 1 ELSE Len(H[ch].child) + 1] =
                Lent(H[sib].child, d)
          /\ Len(G[sib].child) = Len(H[sib].child) - 1
          /\ \A j \in 1..(Len(H[sib].child) - 1) :
                G[sib].child[j] = H[sib].child[j + (1 - d)]
    /\ \A c \in Nodes \ {x, ch, sib} :
          /\ G[c].keys = H[c].keys
          /\ G[c].child = H[c].child
          /\ G[c].is_leaf = H[c].is_leaf
          /\ G[c].parent = IF ~H[sib].is_leaf /\ c = Lent(H[sib].child, d)
                           THEN ch ELSE H[c].parent

(* Both children are on one level, and sib has a key to give. *)
CanBorrow(H, x, q, ch, sib) ==
    /\ H \in [Nodes -> Node]
    /\ x \in Nodes /\ ch \in Nodes /\ sib \in Nodes
    /\ x # ch /\ x # sib /\ ch # sib
    /\ q \in 1..Len(H[x].keys)
    /\ Len(H[sib].keys) >= 1
    /\ H[sib].is_leaf <=> H[ch].is_leaf
    /\ Len(H[sib].child) = IF H[sib].is_leaf THEN 0 ELSE Len(H[sib].keys) + 1
    /\ Len(H[ch].child) = IF H[ch].is_leaf THEN 0 ELSE Len(H[ch].keys) + 1

(* The heap G is H with three nodes replaced; the nodes moved, if any, get  *)
(* the parent ch.                                                          *)
Rewired(H, G, x, kx, ch, kc, cc, sib, ks, cs, moved) ==
    /\ H \in [Nodes -> Node]
    /\ x \in Nodes /\ ch \in Nodes /\ sib \in Nodes
    /\ x # ch /\ x # sib /\ ch # sib
    /\ kx \in Seq(Item) /\ kc \in Seq(Item) /\ ks \in Seq(Item)
    /\ cc \in Seq(Nodes) /\ cs \in Seq(Nodes)
    /\ G = [c \in Nodes |->
              CASE c = x   -> [H[x] EXCEPT !.keys = kx]
                [] c = ch  -> [H[ch] EXCEPT !.keys = kc, !.child = cc]
                [] c = sib -> [H[sib] EXCEPT !.keys = ks, !.child = cs]
                [] OTHER   -> set_child(H, c, ch, moved)]

(* What becomes of every field of every node in such a heap. *)
LEMMA RewiredFacts ==
    ASSUME NEW H, NEW G, NEW x, NEW kx, NEW ch, NEW kc, NEW cc,
           NEW sib, NEW ks, NEW cs, NEW moved,
           Rewired(H, G, x, kx, ch, kc, cc, sib, ks, cs, moved)
    PROVE  /\ G \in [Nodes -> Node]
           /\ G[x].keys = kx /\ G[x].child = H[x].child
           /\ G[x].is_leaf = H[x].is_leaf /\ G[x].parent = H[x].parent
           /\ G[ch].keys = kc /\ G[ch].child = cc
           /\ G[ch].is_leaf = H[ch].is_leaf /\ G[ch].parent = H[ch].parent
           /\ G[sib].keys = ks /\ G[sib].child = cs
           /\ G[sib].is_leaf = H[sib].is_leaf /\ G[sib].parent = H[sib].parent
           /\ \A c \in Nodes \ {x, ch, sib} :
                 /\ G[c].keys = H[c].keys
                 /\ G[c].child = H[c].child
                 /\ G[c].is_leaf = H[c].is_leaf
                 /\ G[c].parent = IF c \in ToSet(moved) THEN ch ELSE H[c].parent
<1>0. /\ H \in [Nodes -> Node] /\ ch \in Nodes
      /\ kx \in Seq(Item) /\ kc \in Seq(Item) /\ ks \in Seq(Item)
      /\ cc \in Seq(Nodes) /\ cs \in Seq(Nodes)
  BY DEF Rewired
<1>1. /\ G[x] = [H[x] EXCEPT !.keys = kx]
      /\ G[ch] = [H[ch] EXCEPT !.keys = kc, !.child = cc]
      /\ G[sib] = [H[sib] EXCEPT !.keys = ks, !.child = cs]
      /\ \A c \in Nodes \ {x, ch, sib} : G[c] = set_child(H, c, ch, moved)
  BY DEF Rewired
<1>2. H[x] \in Node /\ H[ch] \in Node /\ H[sib] \in Node
  BY DEF Rewired
<1>3. /\ G[x] \in Node
      /\ G[x].keys = kx /\ G[x].child = H[x].child
      /\ G[x].is_leaf = H[x].is_leaf /\ G[x].parent = H[x].parent
  BY <1>0, <1>1, <1>2 DEF Node
<1>4. /\ G[ch] \in Node
      /\ G[ch].keys = kc /\ G[ch].child = cc
      /\ G[ch].is_leaf = H[ch].is_leaf /\ G[ch].parent = H[ch].parent
  BY <1>0, <1>1, <1>2 DEF Node
<1>5. /\ G[sib] \in Node
      /\ G[sib].keys = ks /\ G[sib].child = cs
      /\ G[sib].is_leaf = H[sib].is_leaf /\ G[sib].parent = H[sib].parent
  BY <1>0, <1>1, <1>2 DEF Node
<1>6. \A c \in Nodes \ {x, ch, sib} :
         /\ G[c] \in Node
         /\ G[c].keys = H[c].keys
         /\ G[c].child = H[c].child
         /\ G[c].is_leaf = H[c].is_leaf
         /\ G[c].parent = IF c \in ToSet(moved) THEN ch ELSE H[c].parent
  <2>1. H \in [Nodes -> Node] /\ ch \in Nodes
    BY <1>0
  <2>2. \A c \in Nodes \ {x, ch, sib} : G[c] = set_child(H, c, ch, moved)
    BY <1>1
  <2> QED BY <2>1, <2>2 DEF set_child, Node
<1>7. G \in [Nodes -> Node]
  <2>1. \A c \in Nodes : G[c] \in Node
    BY <1>3, <1>4, <1>5, <1>6
  <2>2. \E f : G = [c \in Nodes |-> f[c]]
    BY DEF Rewired
  <2> QED BY <2>1, <2>2
<1> QED BY <1>3, <1>4, <1>5, <1>6, <1>7, Zenon

(* A sequence of one element before, and after, another sequence. *)
LEMMA ConsFacts ==
    ASSUME NEW S, NEW e \in S, NEW s \in Seq(S)
    PROVE  /\ <<e>> \o s \in Seq(S)
           /\ Len(<<e>> \o s) = Len(s) + 1
           /\ (<<e>> \o s)[1] = e
           /\ \A j \in 1..Len(s) : (<<e>> \o s)[j + 1] = s[j]
<1> DEFINE u == <<e>>
<1>1. Len(s) \in Nat
  BY LenProperties
<1>2. u \in Seq(S) /\ Len(u) = 1 /\ u[1] = e
  OBVIOUS
<1> HIDE DEF u
<1>3. /\ u \o s \in Seq(S)
      /\ Len(u \o s) = Len(u) + Len(s)
      /\ \A j \in 1..Len(u) : (u \o s)[j] = u[j]
      /\ \A j \in 1..Len(s) : (u \o s)[Len(u) + j] = s[j]
  <2>1. u \in Seq(S) /\ s \in Seq(S)
    BY <1>2
  <2> QED BY <2>1, ConcatFacts
<1>4. \A j \in 1..Len(s) : Len(u) + j = j + 1
  BY <1>1, <1>2
<1> DEFINE w == u \o s
<1> HIDE DEF w
<1>5. /\ w \in Seq(S)
      /\ Len(w) = Len(u) + Len(s)
      /\ \A j \in 1..Len(u) : w[j] = u[j]
      /\ \A j \in 1..Len(s) : w[Len(u) + j] = s[j]
  BY <1>3 DEF w
<1>6. /\ w \in Seq(S)
      /\ Len(w) = Len(s) + 1
      /\ w[1] = e
      /\ \A j \in 1..Len(s) : w[j + 1] = s[j]
  BY <1>1, <1>2, <1>4, <1>5
<1> QED BY <1>6 DEF u, w

(* The keys and children the three nodes get in a borrow. *)
BorrowParts(H, x, q, ch, sib, d, kx, kc, cc, ks, cs, moved) ==
    /\ Len(kx) = Len(H[x].keys)
    /\ \A j \in 1..Len(H[x].keys) : kx[j] =
          IF j = q THEN Lent(H[sib].keys, d) ELSE H[x].keys[j]
    /\ Len(kc) = Len(H[ch].keys) + 1
    /\ \A j \in 1..Len(H[ch].keys) : kc[j + d] = H[ch].keys[j]
    /\ kc[IF d = 1 THEN 1 ELSE Len(H[ch].keys) + 1] = H[x].keys[q]
    /\ Len(ks) = Len(H[sib].keys) - 1
    /\ \A j \in 1..(Len(H[sib].keys) - 1) : ks[j] = H[sib].keys[j + (1 - d)]
    /\ H[sib].is_leaf => Len(cc) = 0 /\ Len(cs) = 0
    /\ ~H[sib].is_leaf =>
          /\ Len(cc) = Len(H[ch].child) + 1
          /\ \A j \in 1..Len(H[ch].child) : cc[j + d] = H[ch].child[j]
          /\ cc[IF d = 1 THEN 1 ELSE Len(H[ch].child) + 1] =
                Lent(H[sib].child, d)
          /\ Len(cs) = Len(H[sib].child) - 1
          /\ \A j \in 1..(Len(H[sib].child) - 1) :
                cs[j] = H[sib].child[j + (1 - d)]
    /\ \A c : c \in ToSet(moved) <=>
               ~H[sib].is_leaf /\ c = Lent(H[sib].child, d)

(* A heap rewired with the parts of a borrow is the result of that borrow. *)
LEMMA BorrowAssembled ==
    ASSUME NEW H, NEW G, NEW x, NEW q, NEW ch, NEW sib, NEW d,
           NEW kx, NEW kc, NEW cc, NEW ks, NEW cs, NEW moved,
           Rewired(H, G, x, kx, ch, kc, cc, sib, ks, cs, moved),
           BorrowParts(H, x, q, ch, sib, d, kx, kc, cc, ks, cs, moved)
    PROVE  BorrowOf(H, G, x, q, ch, sib, d)
<1>1. /\ G \in [Nodes -> Node]
      /\ G[x].keys = kx /\ G[x].child = H[x].child
      /\ G[x].is_leaf = H[x].is_leaf /\ G[x].parent = H[x].parent
      /\ G[ch].keys = kc /\ G[ch].child = cc
      /\ G[ch].is_leaf = H[ch].is_leaf /\ G[ch].parent = H[ch].parent
      /\ G[sib].keys = ks /\ G[sib].child = cs
      /\ G[sib].is_leaf = H[sib].is_leaf /\ G[sib].parent = H[sib].parent
      /\ \A c \in Nodes \ {x, ch, sib} :
            /\ G[c].keys = H[c].keys
            /\ G[c].child = H[c].child
            /\ G[c].is_leaf = H[c].is_leaf
            /\ G[c].parent = IF c \in ToSet(moved) THEN ch ELSE H[c].parent
  BY RewiredFacts
<1>2. \A c \in Nodes \ {x, ch, sib} :
         /\ G[c].keys = H[c].keys
         /\ G[c].child = H[c].child
         /\ G[c].is_leaf = H[c].is_leaf
         /\ G[c].parent = IF ~H[sib].is_leaf /\ c = Lent(H[sib].child, d)
                          THEN ch ELSE H[c].parent
  <2>1. \A c : c \in ToSet(moved) <=>
               ~H[sib].is_leaf /\ c = Lent(H[sib].child, d)
    BY Zenon DEF BorrowParts
  <2> QED BY <1>1, <2>1
<1>3. /\ Len(G[x].keys) = Len(H[x].keys)
      /\ \A j \in 1..Len(H[x].keys) : G[x].keys[j] =
            IF j = q THEN Lent(H[sib].keys, d) ELSE H[x].keys[j]
  BY <1>1, Zenon DEF BorrowParts
<1>4. /\ Len(G[ch].keys) = Len(H[ch].keys) + 1
      /\ \A j \in 1..Len(H[ch].keys) : G[ch].keys[j + d] = H[ch].keys[j]
      /\ G[ch].keys[IF d = 1 THEN 1 ELSE Len(H[ch].keys) + 1] = H[x].keys[q]
      /\ Len(G[sib].keys) = Len(H[sib].keys) - 1
      /\ \A j \in 1..(Len(H[sib].keys) - 1) :
            G[sib].keys[j] = H[sib].keys[j + (1 - d)]
  BY <1>1, Zenon DEF BorrowParts
<1>5. /\ H[sib].is_leaf => Len(G[ch].child) = 0 /\ Len(G[sib].child) = 0
      /\ ~H[sib].is_leaf =>
            /\ Len(G[ch].child) = Len(H[ch].child) + 1
            /\ \A j \in 1..Len(H[ch].child) : G[ch].child[j + d] = H[ch].child[j]
            /\ G[ch].child[IF d = 1 THEN 1 ELSE Len(H[ch].child) + 1] =
                  Lent(H[sib].child, d)
            /\ Len(G[sib].child) = Len(H[sib].child) - 1
            /\ \A j \in 1..(Len(H[sib].child) - 1) :
                  G[sib].child[j] = H[sib].child[j + (1 - d)]
  BY <1>1, Zenon DEF BorrowParts
<1> QED BY <1>1, <1>2, <1>3, <1>4, <1>5, Zenon DEF BorrowOf

(* A sequence without its last, without its first element, and one element. *)
LEMMA PieceFacts ==
    ASSUME NEW S, NEW s \in Seq(S), Len(s) >= 1
    PROVE  /\ SubSeq(s, 1, Len(s) - 1) \in Seq(S)
           /\ Len(SubSeq(s, 1, Len(s) - 1)) = Len(s) - 1
           /\ \A j \in 1..(Len(s) - 1) : SubSeq(s, 1, Len(s) - 1)[j] = s[j]
           /\ SubSeq(s, 2, Len(s)) \in Seq(S)
           /\ Len(SubSeq(s, 2, Len(s))) = Len(s) - 1
           /\ \A j \in 1..(Len(s) - 1) : SubSeq(s, 2, Len(s))[j] = s[j + 1]
           /\ \A i \in 1..Len(s) :
                 /\ SubSeq(s, i, i) \in Seq(S)
                 /\ Len(SubSeq(s, i, i)) = 1
                 /\ SubSeq(s, i, i)[1] = s[i]
<1>1. Len(s) \in Nat
  BY LenProperties
<1>2. /\ SubSeq(s, 1, Len(s) - 1) \in Seq(S)
      /\ Len(SubSeq(s, 1, Len(s) - 1)) = (Len(s) - 1) - 1 + 1
      /\ \A j \in 1..((Len(s) - 1) - 1 + 1) :
            SubSeq(s, 1, Len(s) - 1)[j] = s[1 + j - 1]
  <2> DEFINE b == Len(s) - 1
  <2>1. b \in Int /\ 1 <= b + 1 /\ b <= Len(s) /\ 1 \in Int /\ 1 <= 1
    BY <1>1
  <2> HIDE DEF b
  <2>2. /\ SubSeq(s, 1, b) \in Seq(S)
        /\ Len(SubSeq(s, 1, b)) = b - 1 + 1
        /\ \A j \in 1..(b - 1 + 1) : SubSeq(s, 1, b)[j] = s[1 + j - 1]
    BY <2>1, SubSeqFacts
  <2> QED BY <2>2 DEF b
<1>3. /\ SubSeq(s, 2, Len(s)) \in Seq(S)
      /\ Len(SubSeq(s, 2, Len(s))) = Len(s) - 2 + 1
      /\ \A j \in 1..(Len(s) - 2 + 1) : SubSeq(s, 2, Len(s))[j] = s[2 + j - 1]
  <2>1. 2 \in Int /\ 1 <= 2 /\ 2 <= Len(s) + 1 /\ Len(s) <= Len(s) /\ Len(s) \in Int
    BY <1>1
  <2> QED BY <2>1, SubSeqFacts
<1>4. ASSUME NEW i \in 1..Len(s)
      PROVE  /\ SubSeq(s, i, i) \in Seq(S)
             /\ Len(SubSeq(s, i, i)) = 1
             /\ SubSeq(s, i, i)[1] = s[i]
  <2>1. /\ SubSeq(s, i, i) \in Seq(S)
        /\ Len(SubSeq(s, i, i)) = i - i + 1
        /\ \A j \in 1..(i - i + 1) : SubSeq(s, i, i)[j] = s[i + j - 1]
    BY <1>1, SubSeqFacts
  <2>2. 1 \in 1..(i - i + 1) /\ i + 1 - 1 = i /\ i - i + 1 = 1
    BY <1>1
  <2> QED BY <2>1, <2>2
<1>5. /\ (Len(s) - 1) - 1 + 1 = Len(s) - 1 /\ Len(s) - 2 + 1 = Len(s) - 1
      /\ \A j \in 1..(Len(s) - 1) : 1 + j - 1 = j /\ 2 + j - 1 = j + 1
  BY <1>1
<1>6. /\ SubSeq(s, 1, Len(s) - 1) \in Seq(S)
      /\ Len(SubSeq(s, 1, Len(s) - 1)) = Len(s) - 1
      /\ \A j \in 1..(Len(s) - 1) : SubSeq(s, 1, Len(s) - 1)[j] = s[j]
  BY <1>2, <1>5
<1>7. /\ SubSeq(s, 2, Len(s)) \in Seq(S)
      /\ Len(SubSeq(s, 2, Len(s))) = Len(s) - 1
      /\ \A j \in 1..(Len(s) - 1) : SubSeq(s, 2, Len(s))[j] = s[j + 1]
  BY <1>3, <1>5
<1> QED BY <1>4, <1>6, <1>7

(* Where the two siblings are among the children of x. *)
Prev(H, x, p, q, ch, sib) ==
    q = p - 1 /\ p \in Int /\ ch = H[x].child[p] /\ sib = H[x].child[p - 1]

(* What CanBorrow says of the pieces. *)
LEMMA CanBorrowFacts ==
    ASSUME NEW H, NEW x, NEW q, NEW ch, NEW sib, CanBorrow(H, x, q, ch, sib)
    PROVE  /\ H \in [Nodes -> Node]
           /\ x \in Nodes /\ ch \in Nodes /\ sib \in Nodes
           /\ x # ch /\ x # sib /\ ch # sib
           /\ H[x].keys \in Seq(Item) /\ H[ch].keys \in Seq(Item)
           /\ H[sib].keys \in Seq(Item)
           /\ H[ch].child \in Seq(Nodes) /\ H[sib].child \in Seq(Nodes)
           /\ Len(H[x].keys) \in Nat /\ Len(H[ch].keys) \in Nat
           /\ Len(H[sib].keys) \in Nat /\ Len(H[sib].child) \in Nat
           /\ Len(H[ch].child) \in Nat
           /\ q \in 1..Len(H[x].keys)
           /\ H[x].keys[q] \in Item
           /\ \A j \in 1..Len(H[sib].keys) : H[sib].keys[j] \in Item
           /\ Len(H[sib].keys) >= 1
           /\ H[sib].is_leaf \in BOOLEAN
           /\ H[sib].is_leaf <=> H[ch].is_leaf
           /\ H[sib].is_leaf => Len(H[sib].child) = 0 /\ Len(H[ch].child) = 0
           /\ ~H[sib].is_leaf => Len(H[sib].child) = Len(H[sib].keys) + 1
<1>1. /\ H \in [Nodes -> Node]
      /\ x \in Nodes /\ ch \in Nodes /\ sib \in Nodes
      /\ x # ch /\ x # sib /\ ch # sib
      /\ q \in 1..Len(H[x].keys)
      /\ Len(H[sib].keys) >= 1
      /\ H[sib].is_leaf <=> H[ch].is_leaf
  BY DEF CanBorrow
<1>2. H[x] \in Node /\ H[ch] \in Node /\ H[sib] \in Node
  BY <1>1
<1>3. /\ H[sib].is_leaf => Len(H[sib].child) = 0 /\ Len(H[ch].child) = 0
      /\ ~H[sib].is_leaf => Len(H[sib].child) = Len(H[sib].keys) + 1
  BY DEF CanBorrow
<1>4. /\ H[x].keys \in Seq(Item) /\ Len(H[x].keys) \in Nat
      /\ H[x].keys[q] \in Item
  BY <1>1, <1>2, NodeFacts
<1>5. /\ H[ch].keys \in Seq(Item) /\ Len(H[ch].keys) \in Nat
      /\ H[ch].child \in Seq(Nodes) /\ Len(H[ch].child) \in Nat
  BY <1>2, NodeFacts
<1>6. /\ H[sib].keys \in Seq(Item) /\ Len(H[sib].keys) \in Nat
      /\ H[sib].child \in Seq(Nodes) /\ Len(H[sib].child) \in Nat
      /\ \A j \in 1..Len(H[sib].keys) : H[sib].keys[j] \in Item
      /\ H[sib].is_leaf \in BOOLEAN
  BY <1>2, NodeFacts
<1> QED BY <1>1, <1>3, <1>4, <1>5, <1>6

(* borrowFromPrev computes BorrowOf with the last key and child of the      *)
(* previous child.                                                          *)
LEMMA BorrowPrevEffect ==
    ASSUME NEW H, NEW x, NEW p, NEW q, NEW ch, NEW sib,
           CanBorrow(H, x, q, ch, sib), Prev(H, x, p, q, ch, sib)
    PROVE  BorrowOf(H, borrowFromPrev(H, x, p), x, q, ch, sib, 1)
<1> DEFINE G == borrowFromPrev(H, x, p)
           last == Len(H[sib].keys)
           moved == Kids(H[sib], last + 1, last + 1)
           kx == [H[x].keys EXCEPT ![q] = H[sib].keys[last]]
           kc == <<H[x].keys[q]>> \o H[ch].keys
           cc == moved \o H[ch].child
           ks == SubSeq(H[sib].keys, 1, last - 1)
           cs == Kids(H[sib], 1, last)
<1>1. /\ kx \in Seq(Item)
      /\ Len(kx) = Len(H[x].keys)
      /\ \A j \in 1..Len(H[x].keys) : kx[j] =
            IF j = q THEN H[sib].keys[last] ELSE H[x].keys[j]
  <2> DEFINE s == H[x].keys
             e == H[sib].keys[last]
  <2>1. s \in Seq(Item) /\ q \in 1..Len(s) /\ e \in Item
    BY CanBorrowFacts
  <2> HIDE DEF s, e
  <2>2. /\ [s EXCEPT ![q] = e] \in Seq(Item)
        /\ Len([s EXCEPT ![q] = e]) = Len(s)
        /\ \A j \in 1..Len(s) : [s EXCEPT ![q] = e][j] = IF j = q THEN e ELSE s[j]
    BY <2>1, ExceptSeq
  <2> QED BY <2>2, Zenon DEF s, e, kx
<1>2. /\ kc \in Seq(Item)
      /\ Len(kc) = Len(H[ch].keys) + 1
      /\ kc[1] = H[x].keys[q]
      /\ \A j \in 1..Len(H[ch].keys) : kc[j + 1] = H[ch].keys[j]
  <2> DEFINE s == H[ch].keys
             e == H[x].keys[q]
  <2>1. s \in Seq(Item) /\ e \in Item
    BY CanBorrowFacts
  <2> HIDE DEF s, e
  <2>2. /\ <<e>> \o s \in Seq(Item)
        /\ Len(<<e>> \o s) = Len(s) + 1
        /\ (<<e>> \o s)[1] = e
        /\ \A j \in 1..Len(s) : (<<e>> \o s)[j + 1] = s[j]
    BY <2>1, ConsFacts
  <2> QED BY <2>2, Zenon DEF s, e, kc
<1>3. /\ ks \in Seq(Item)
      /\ Len(ks) = Len(H[sib].keys) - 1
      /\ \A j \in 1..(Len(H[sib].keys) - 1) : ks[j] = H[sib].keys[j]
  <2> DEFINE s == H[sib].keys
  <2>1. s \in Seq(Item) /\ Len(s) >= 1
    BY CanBorrowFacts
  <2> HIDE DEF s
  <2>2. /\ SubSeq(s, 1, Len(s) - 1) \in Seq(Item)
        /\ Len(SubSeq(s, 1, Len(s) - 1)) = Len(s) - 1
        /\ \A j \in 1..(Len(s) - 1) : SubSeq(s, 1, Len(s) - 1)[j] = s[j]
    BY <2>1, PieceFacts
  <2> QED BY <2>2, Zenon DEF s, ks, last
<1>4. ASSUME H[sib].is_leaf
      PROVE  /\ cc \in Seq(Nodes) /\ Len(cc) = 0
             /\ cs \in Seq(Nodes) /\ Len(cs) = 0
             /\ \A c : c \notin ToSet(moved)
  <2>1. moved = <<>> /\ cs = <<>>
    BY <1>4 DEF Kids
  <2>2. H[ch].child \in Seq(Nodes) /\ Len(H[ch].child) = 0
    BY <1>4, CanBorrowFacts
  <2>3. <<>> \in Seq(Nodes) /\ Len(<<>>) = 0
    OBVIOUS
  <2>4. <<>> \o H[ch].child \in Seq(Nodes) /\ Len(<<>> \o H[ch].child) = 0
    BY <2>2, <2>3, ConcatFacts
  <2>5. \A c : c \in ToSet(<<>>) <=> \E j \in 1..Len(<<>>) : c = <<>>[j]
    BY <2>3, ToSetOfSeq
  <2> HIDE DEF moved, cs
  <2> QED BY <2>1, <2>3, <2>4, <2>5
<1>5. ASSUME ~H[sib].is_leaf
      PROVE  /\ cc \in Seq(Nodes) /\ cs \in Seq(Nodes)
             /\ Len(cc) = Len(H[ch].child) + 1
             /\ \A j \in 1..Len(H[ch].child) : cc[j + 1] = H[ch].child[j]
             /\ cc[1] = H[sib].child[Len(H[sib].child)]
             /\ Len(cs) = Len(H[sib].child) - 1
             /\ \A j \in 1..(Len(H[sib].child) - 1) : cs[j] = H[sib].child[j]
             /\ \A c : c \in ToSet(moved) <=> c = H[sib].child[Len(H[sib].child)]
  <2> DEFINE s == H[sib].child
             r == H[ch].child
             m == Len(s)
  <2>1. /\ s \in Seq(Nodes) /\ Len(s) >= 1 /\ r \in Seq(Nodes)
        /\ m = last + 1 /\ last = m - 1 /\ m \in 1..Len(s) /\ Len(r) \in Nat
    BY <1>5, CanBorrowFacts
  <2>2. moved = SubSeq(s, m, m) /\ cs = SubSeq(s, 1, m - 1)
    BY <1>5, <2>1 DEF Kids
  <2> DEFINE u == SubSeq(s, m, m)
  <2> HIDE DEF s, r, m, moved, cs, last
  <2>3. u \in Seq(Nodes) /\ Len(u) = 1 /\ u[1] = s[m]
    BY <2>1, PieceFacts
  <2>4. /\ SubSeq(s, 1, m - 1) \in Seq(Nodes)
        /\ Len(SubSeq(s, 1, m - 1)) = m - 1
        /\ \A j \in 1..(m - 1) : SubSeq(s, 1, m - 1)[j] = s[j]
    BY <2>1, PieceFacts DEF m
  <2> HIDE DEF u
  <2>5. /\ u \o r \in Seq(Nodes)
        /\ Len(u \o r) = Len(u) + Len(r)
        /\ \A j \in 1..Len(u) : (u \o r)[j] = u[j]
        /\ \A j \in 1..Len(r) : (u \o r)[Len(u) + j] = r[j]
    <3>1. u \in Seq(Nodes) /\ r \in Seq(Nodes)
      BY <2>1, <2>3
    <3> QED BY <3>1, ConcatFacts
  <2>6. \A c : c \in ToSet(u) <=> \E j \in 1..Len(u) : c = u[j]
    BY <2>3, ToSetOfSeq
  <2>7. \A c : c \in ToSet(u) <=> c = s[m]
    BY <2>3, <2>6
  <2>8. moved = u
    BY <2>2 DEF u
  <2> DEFINE w == u \o r
  <2> HIDE DEF w
  <2>9. /\ w \in Seq(Nodes)
        /\ Len(w) = Len(r) + 1
        /\ w[1] = s[m]
        /\ \A j \in 1..Len(r) : w[j + 1] = r[j]
    <3>1. /\ w \in Seq(Nodes)
          /\ Len(w) = Len(u) + Len(r)
          /\ \A j \in 1..Len(u) : w[j] = u[j]
          /\ \A j \in 1..Len(r) : w[Len(u) + j] = r[j]
      BY <2>5 DEF w
    <3>2. /\ \A j \in 1..Len(r) : Len(u) + j = j + 1
          /\ 1 \in 1..Len(u) /\ Len(u) + Len(r) = Len(r) + 1
      BY <2>1, <2>3
    <3> QED BY <2>3, <3>1, <3>2
  <2>10. cc = w
    BY <2>8 DEF w, r
  <2> HIDE DEF cc
  <2> QED BY <2>2, <2>4, <2>7, <2>8, <2>9, <2>10, Zenon DEF s, r, m
<1>6. BorrowParts(H, x, q, ch, sib, 1, kx, kc, cc, ks, cs, moved)
  <2> HIDE DEF kx, kc, cc, ks, cs, moved
  <2>1. \A s : Lent(s, 1) = s[Len(s)]
    BY DEF Lent
  <2>2. \A j \in Int : j + (1 - 1) = j
    OBVIOUS
  <2>3. \A j \in 1..(Len(H[sib].keys) - 1) : ks[j] = H[sib].keys[j + (1 - 1)]
    BY <1>3, <2>2
  <2>4. ~H[sib].is_leaf => \A j \in 1..(Len(H[sib].child) - 1) : cs[j] = H[sib].child[j + (1 - 1)]
    BY <1>5, <2>2
  <2> QED BY <1>1, <1>2, <1>3, <1>4, <1>5, <2>1, <2>3, <2>4, Zenon DEF BorrowParts, last
<1>7. cc \in Seq(Nodes) /\ cs \in Seq(Nodes)
  BY <1>4, <1>5
<1>8. G = [c \in Nodes |->
             CASE c = x   -> [H[x] EXCEPT !.keys = kx]
               [] c = ch  -> [H[ch] EXCEPT !.keys = kc, !.child = cc]
               [] c = sib -> [H[sib] EXCEPT !.keys = ks, !.child = cs]
               [] OTHER   -> set_child(H, c, ch, moved)]
  <2>1. ch = H[x].child[p] /\ sib = H[x].child[p - 1] /\ q = p - 1
    BY DEF Prev
  <2> QED BY <2>1 DEF borrowFromPrev
<1> HIDE DEF G, last, kx, kc, cc, ks, cs, moved
<1>9. /\ H \in [Nodes -> Node]
      /\ x \in Nodes /\ ch \in Nodes /\ sib \in Nodes
      /\ x # ch /\ x # sib /\ ch # sib
  BY CanBorrowFacts
<1>10. Rewired(H, G, x, kx, ch, kc, cc, sib, ks, cs, moved)
  BY <1>1, <1>2, <1>3, <1>7, <1>8, <1>9, Zenon DEF Rewired
<1>11. BorrowOf(H, G, x, q, ch, sib, 1)
  BY <1>6, <1>10, BorrowAssembled
<1> QED BY <1>11 DEF G

(* The same for borrowFromNext: sib is the child behind ch. *)
NextTo(H, x, p, q, ch, sib) ==
    q = p /\ p \in Int /\ ch = H[x].child[p] /\ sib = H[x].child[p + 1]

(* borrowFromNext computes BorrowOf with the first key and child of the     *)
(* next child.                                                              *)
LEMMA BorrowNextEffect ==
    ASSUME NEW H, NEW x, NEW p, NEW q, NEW ch, NEW sib,
           CanBorrow(H, x, q, ch, sib), NextTo(H, x, p, q, ch, sib)
    PROVE  BorrowOf(H, borrowFromNext(H, x, p), x, q, ch, sib, 0)
<1> DEFINE G == borrowFromNext(H, x, p)
           moved == Kids(H[sib], 1, 1)
           kx == [H[x].keys EXCEPT ![q] = H[sib].keys[1]]
           kc == Append(H[ch].keys, H[x].keys[q])
           cc == H[ch].child \o moved
           ks == SubSeq(H[sib].keys, 2, Len(H[sib].keys))
           cs == Kids(H[sib], 2, Len(H[sib].child))
<1>1. /\ kx \in Seq(Item)
      /\ Len(kx) = Len(H[x].keys)
      /\ \A j \in 1..Len(H[x].keys) : kx[j] =
            IF j = q THEN H[sib].keys[1] ELSE H[x].keys[j]
  <2> DEFINE s == H[x].keys
             e == H[sib].keys[1]
  <2>1. s \in Seq(Item) /\ q \in 1..Len(s) /\ e \in Item
    BY CanBorrowFacts
  <2> HIDE DEF s, e
  <2>2. /\ [s EXCEPT ![q] = e] \in Seq(Item)
        /\ Len([s EXCEPT ![q] = e]) = Len(s)
        /\ \A j \in 1..Len(s) : [s EXCEPT ![q] = e][j] = IF j = q THEN e ELSE s[j]
    BY <2>1, ExceptSeq
  <2> QED BY <2>2, Zenon DEF s, e, kx
<1>2. /\ kc \in Seq(Item)
      /\ Len(kc) = Len(H[ch].keys) + 1
      /\ kc[Len(H[ch].keys) + 1] = H[x].keys[q]
      /\ \A j \in 1..Len(H[ch].keys) : kc[j] = H[ch].keys[j]
  <2> DEFINE s == H[ch].keys
             e == H[x].keys[q]
  <2>1. s \in Seq(Item) /\ e \in Item
    BY CanBorrowFacts
  <2> HIDE DEF s, e
  <2>2. /\ Append(s, e) \in Seq(Item)
        /\ Len(Append(s, e)) = Len(s) + 1
        /\ Append(s, e)[Len(s) + 1] = e
        /\ \A j \in 1..Len(s) : Append(s, e)[j] = s[j]
    BY <2>1, AppendProperties
  <2> QED BY <2>2, Zenon DEF s, e, kc
<1>3. /\ ks \in Seq(Item)
      /\ Len(ks) = Len(H[sib].keys) - 1
      /\ \A j \in 1..(Len(H[sib].keys) - 1) : ks[j] = H[sib].keys[j + 1]
  <2> DEFINE s == H[sib].keys
  <2>1. s \in Seq(Item) /\ Len(s) >= 1
    BY CanBorrowFacts
  <2> HIDE DEF s
  <2>2. /\ SubSeq(s, 2, Len(s)) \in Seq(Item)
        /\ Len(SubSeq(s, 2, Len(s))) = Len(s) - 1
        /\ \A j \in 1..(Len(s) - 1) : SubSeq(s, 2, Len(s))[j] = s[j + 1]
    BY <2>1, PieceFacts
  <2> QED BY <2>2, Zenon DEF s, ks
<1>4. ASSUME H[sib].is_leaf
      PROVE  /\ cc \in Seq(Nodes) /\ Len(cc) = 0
             /\ cs \in Seq(Nodes) /\ Len(cs) = 0
             /\ \A c : c \notin ToSet(moved)
  <2>1. moved = <<>> /\ cs = <<>>
    BY <1>4 DEF Kids
  <2>2. H[ch].child \in Seq(Nodes) /\ Len(H[ch].child) = 0
    BY <1>4, CanBorrowFacts
  <2>3. <<>> \in Seq(Nodes) /\ Len(<<>>) = 0
    OBVIOUS
  <2>4. H[ch].child \o <<>> \in Seq(Nodes) /\ Len(H[ch].child \o <<>>) = 0
    BY <2>2, <2>3, ConcatFacts
  <2>5. \A c : c \in ToSet(<<>>) <=> \E j \in 1..Len(<<>>) : c = <<>>[j]
    BY <2>3, ToSetOfSeq
  <2> HIDE DEF moved, cs
  <2> QED BY <2>1, <2>3, <2>4, <2>5
<1>5. ASSUME ~H[sib].is_leaf
      PROVE  /\ cc \in Seq(Nodes) /\ cs \in Seq(Nodes)
             /\ Len(cc) = Len(H[ch].child) + 1
             /\ \A j \in 1..Len(H[ch].child) : cc[j] = H[ch].child[j]
             /\ cc[Len(H[ch].child) + 1] = H[sib].child[1]
             /\ Len(cs) = Len(H[sib].child) - 1
             /\ \A j \in 1..(Len(H[sib].child) - 1) : cs[j] = H[sib].child[j + 1]
             /\ \A c : c \in ToSet(moved) <=> c = H[sib].child[1]
  <2> DEFINE s == H[sib].child
             r == H[ch].child
  <2>1. /\ s \in Seq(Nodes) /\ Len(s) >= 1 /\ r \in Seq(Nodes)
        /\ 1 \in 1..Len(s) /\ Len(r) \in Nat
    BY <1>5, CanBorrowFacts
  <2>2. moved = SubSeq(s, 1, 1) /\ cs = SubSeq(s, 2, Len(s))
    BY <1>5, <2>1 DEF Kids
  <2> DEFINE u == SubSeq(s, 1, 1)
  <2> HIDE DEF s, r, moved, cs
  <2>3. u \in Seq(Nodes) /\ Len(u) = 1 /\ u[1] = s[1]
    BY <2>1, PieceFacts
  <2>4. /\ SubSeq(s, 2, Len(s)) \in Seq(Nodes)
        /\ Len(SubSeq(s, 2, Len(s))) = Len(s) - 1
        /\ \A j \in 1..(Len(s) - 1) : SubSeq(s, 2, Len(s))[j] = s[j + 1]
    BY <2>1, PieceFacts
  <2> HIDE DEF u
  <2>5. /\ r \o u \in Seq(Nodes)
        /\ Len(r \o u) = Len(r) + Len(u)
        /\ \A j \in 1..Len(r) : (r \o u)[j] = r[j]
        /\ \A j \in 1..Len(u) : (r \o u)[Len(r) + j] = u[j]
    <3>1. u \in Seq(Nodes) /\ r \in Seq(Nodes)
      BY <2>1, <2>3
    <3> QED BY <3>1, ConcatFacts
  <2>6. \A c : c \in ToSet(u) <=> \E j \in 1..Len(u) : c = u[j]
    BY <2>3, ToSetOfSeq
  <2>7. \A c : c \in ToSet(u) <=> c = s[1]
    BY <2>3, <2>6
  <2>8. moved = u
    BY <2>2 DEF u
  <2> DEFINE w == r \o u
  <2> HIDE DEF w
  <2>9. /\ w \in Seq(Nodes)
        /\ Len(w) = Len(r) + 1
        /\ w[Len(r) + 1] = s[1]
        /\ \A j \in 1..Len(r) : w[j] = r[j]
    <3>1. /\ w \in Seq(Nodes)
          /\ Len(w) = Len(r) + Len(u)
          /\ \A j \in 1..Len(r) : w[j] = r[j]
          /\ \A j \in 1..Len(u) : w[Len(r) + j] = u[j]
      BY <2>5 DEF w
    <3> QED BY <2>1, <2>3, <3>1
  <2>10. cc = w
    BY <2>8 DEF w, r
  <2> HIDE DEF cc
  <2> QED BY <2>2, <2>4, <2>7, <2>8, <2>9, <2>10, Zenon DEF s, r
<1>6. BorrowParts(H, x, q, ch, sib, 0, kx, kc, cc, ks, cs, moved)
  <2> HIDE DEF kx, kc, cc, ks, cs, moved
  <2>1. (\A s : Lent(s, 0) = s[1]) /\ 0 # 1 /\ 1 - 0 = 1
    BY DEF Lent
  <2>2. \A j \in Int : j + 0 = j
    OBVIOUS
  <2>3. \A j \in 1..Len(H[ch].keys) : kc[j + 0] = H[ch].keys[j]
    BY <1>2, <2>2
  <2>4. ~H[sib].is_leaf => \A j \in 1..Len(H[ch].child) : cc[j + 0] = H[ch].child[j]
    BY <1>5, <2>2
  <2>5. /\ \A j \in 1..(Len(H[sib].keys) - 1) : ks[j] = H[sib].keys[j + (1 - 0)]
        /\ ~H[sib].is_leaf => \A j \in 1..(Len(H[sib].child) - 1) :
              cs[j] = H[sib].child[j + (1 - 0)]
    BY <1>3, <1>5, <2>1
  <2>6. /\ kc[IF 0 = 1 THEN 1 ELSE Len(H[ch].keys) + 1] = H[x].keys[q]
        /\ ~H[sib].is_leaf => cc[IF 0 = 1 THEN 1 ELSE Len(H[ch].child) + 1] = Lent(H[sib].child, 0)
    BY <1>2, <1>5, <2>1
  <2>7. \A j \in 1..Len(H[x].keys) : kx[j] =
          IF j = q THEN Lent(H[sib].keys, 0) ELSE H[x].keys[j]
    BY <1>1, <2>1
  <2>8. \A c : c \in ToSet(moved) <=> ~H[sib].is_leaf /\ c = Lent(H[sib].child, 0)
    BY <1>4, <1>5, <2>1
  <2> QED BY <1>1, <1>2, <1>3, <1>4, <1>5, <2>3, <2>4, <2>5, <2>6, <2>7, <2>8, Zenon DEF BorrowParts
<1>7. cc \in Seq(Nodes) /\ cs \in Seq(Nodes)
  BY <1>4, <1>5
<1>8. G = [c \in Nodes |->
             CASE c = x   -> [H[x] EXCEPT !.keys = kx]
               [] c = ch  -> [H[ch] EXCEPT !.keys = kc, !.child = cc]
               [] c = sib -> [H[sib] EXCEPT !.keys = ks, !.child = cs]
               [] OTHER   -> set_child(H, c, ch, moved)]
  <2>1. ch = H[x].child[p] /\ sib = H[x].child[p + 1] /\ q = p
    BY DEF NextTo
  <2> QED BY <2>1 DEF borrowFromNext
<1> HIDE DEF G, kx, kc, cc, ks, cs, moved
<1>9. /\ H \in [Nodes -> Node]
      /\ x \in Nodes /\ ch \in Nodes /\ sib \in Nodes
      /\ x # ch /\ x # sib /\ ch # sib
  BY CanBorrowFacts
<1>10. Rewired(H, G, x, kx, ch, kc, cc, sib, ks, cs, moved)
  BY <1>1, <1>2, <1>3, <1>7, <1>8, <1>9, Zenon DEF Rewired
<1>11. BorrowOf(H, G, x, q, ch, sib, 0)
  BY <1>6, <1>10, BorrowAssembled
<1> QED BY <1>11 DEF G

(* A borrow moves a key, and a child, from sib to ch through x: both are   *)
(* children of x, sib can spare a key and ch has room for one.             *)
BorrowSite(H, A, x, ch, sib) ==
    /\ x \in A
    /\ \E i, j \in 1..Len(H[x].child) :
          i # j /\ ch = H[x].child[i] /\ sib = H[x].child[j]
    /\ Len(H[ch].keys) < MAX_DEGREE
    /\ Len(H[sib].keys) >= MIN_DEGREE + 1

(* What the tree says of the two children a borrow works on. *)
LEMMA BorrowSiteFacts ==
    ASSUME NEW H, NEW A, NEW t, NEW ht, Tree(H, A, t, ht),
           NEW x, NEW ch, NEW sib, BorrowSite(H, A, x, ch, sib)
    PROVE  /\ x \in A /\ ch \in A /\ sib \in A
           /\ x # ch /\ x # sib /\ ch # sib /\ ch # t /\ sib # t
           /\ H[ch].parent = x /\ H[sib].parent = x
           /\ ht[ch] = ht[x] - 1 /\ ht[sib] = ht[x] - 1
           /\ ht[x] \in Nat /\ ht[ch] \in Nat /\ ht[sib] \in Nat
           /\ Len(H[ch].keys) \in Nat /\ Len(H[sib].keys) \in Nat
           /\ Len(H[ch].keys) < MAX_DEGREE /\ Len(H[sib].keys) <= MAX_DEGREE
           /\ Len(H[ch].keys) >= MIN_DEGREE /\ Len(H[sib].keys) >= MIN_DEGREE + 1
           /\ H[sib].is_leaf <=> H[ch].is_leaf
           /\ Len(H[ch].child) = IF H[ch].is_leaf THEN 0 ELSE Len(H[ch].keys) + 1
           /\ Len(H[sib].child) = IF H[sib].is_leaf THEN 0 ELSE Len(H[sib].keys) + 1
<1>1. PICK i, j \in 1..Len(H[x].child) :
         i # j /\ ch = H[x].child[i] /\ sib = H[x].child[j]
  BY DEF BorrowSite
<1>2. x \in A
  BY DEF BorrowSite
<1>3. /\ ch \in A /\ H[ch].parent = x /\ ch # x /\ ch # t
      /\ ht[x] \in Nat /\ ht[ch] \in Nat /\ ht[ch] = ht[x] - 1
  BY <1>1, <1>2, TreeChild
<1>4. /\ sib \in A /\ H[sib].parent = x /\ sib # x /\ sib # t
      /\ ht[sib] \in Nat /\ ht[sib] = ht[x] - 1
  BY <1>1, <1>2, TreeChild
<1>5. ch # sib
  BY <1>1, <1>2, TreeChildrenDiffer
<1>6. /\ Len(H[ch].keys) \in Nat /\ Len(H[ch].keys) >= MIN_DEGREE
      /\ ht[ch] = 0 <=> H[ch].is_leaf
      /\ Len(H[ch].child) = IF H[ch].is_leaf THEN 0 ELSE Len(H[ch].keys) + 1
  BY <1>3, TreeFacts
<1>7. /\ Len(H[sib].keys) \in Nat /\ Len(H[sib].keys) <= MAX_DEGREE
      /\ ht[sib] = 0 <=> H[sib].is_leaf
      /\ Len(H[sib].child) = IF H[sib].is_leaf THEN 0 ELSE Len(H[sib].keys) + 1
  BY <1>4, TreeFacts
<1>8. H[sib].is_leaf <=> H[ch].is_leaf
  BY <1>3, <1>4, <1>6, <1>7
<1>9. Len(H[ch].keys) < MAX_DEGREE /\ Len(H[sib].keys) >= MIN_DEGREE + 1
  BY DEF BorrowSite
<1> QED BY <1>2, <1>3, <1>4, <1>5, <1>6, <1>7, <1>8, <1>9

(* A borrow from a child that can spare a key leaves a B-tree, every node   *)
(* at its height.                                                           *)
LEMMA BorrowTree ==
    ASSUME NEW H, NEW A, NEW t, NEW ht, Tree(H, A, t, ht),
           NEW G, NEW x, NEW q, NEW ch, NEW sib, NEW d \in {0, 1},
           BorrowSite(H, A, x, ch, sib), BorrowOf(H, G, x, q, ch, sib, d)
    PROVE  Tree(G, A, t, ht)
<1> DEFINE M == Len(H[ch].child)
           N == Len(H[sib].child)
           e == IF d = 1 THEN N ELSE 1
           f == IF d = 1 THEN 1 ELSE M + 1
           mv == Lent(H[sib].child, d)
<1>1. /\ H \in [Nodes -> Node] /\ A \subseteq Nodes /\ t \in A
      /\ ht \in [Nodes -> Nat] /\ NULL \notin A
  BY TreeFacts
<1>2. /\ x \in A /\ ch \in A /\ sib \in A
      /\ x # ch /\ x # sib /\ ch # sib /\ ch # t /\ sib # t
      /\ H[ch].parent = x /\ H[sib].parent = x
      /\ ht[ch] = ht[x] - 1 /\ ht[sib] = ht[x] - 1
      /\ ht[x] \in Nat /\ ht[ch] \in Nat /\ ht[sib] \in Nat
      /\ H[sib].is_leaf <=> H[ch].is_leaf
  BY BorrowSiteFacts
<1>3. /\ M \in Nat /\ N \in Nat
      /\ H[sib].is_leaf => M = 0 /\ N = 0
      /\ ~H[sib].is_leaf => M >= 1 /\ N >= 1
  <2>1. /\ Len(H[ch].keys) \in Nat /\ Len(H[sib].keys) \in Nat
        /\ M = IF H[ch].is_leaf THEN 0 ELSE Len(H[ch].keys) + 1
        /\ N = IF H[sib].is_leaf THEN 0 ELSE Len(H[sib].keys) + 1
    BY BorrowSiteFacts
  <2> HIDE DEF M, N
  <2> QED BY <1>2, <2>1
<1>4. /\ G \in [Nodes -> Node]
      /\ G[x].child = H[x].child
      /\ G[x].is_leaf = H[x].is_leaf /\ G[x].parent = H[x].parent
      /\ G[ch].is_leaf = H[ch].is_leaf /\ G[ch].parent = H[ch].parent
      /\ G[sib].is_leaf = H[sib].is_leaf /\ G[sib].parent = H[sib].parent
      /\ Len(G[x].keys) = Len(H[x].keys)
      /\ Len(G[ch].keys) = Len(H[ch].keys) + 1
      /\ Len(G[sib].keys) = Len(H[sib].keys) - 1
  BY Zenon DEF BorrowOf
<1>5. \A c \in A \ {x, ch, sib} :
         /\ G[c].keys = H[c].keys
         /\ G[c].child = H[c].child
         /\ G[c].is_leaf = H[c].is_leaf
         /\ G[c].parent = IF ~H[sib].is_leaf /\ c = mv THEN ch ELSE H[c].parent
  <2>1. \A c \in A \ {x, ch, sib} : c \in Nodes \ {x, ch, sib}
    BY <1>1
  <2> QED BY <2>1, Zenon DEF BorrowOf
<1>6. /\ H[sib].is_leaf => Len(G[ch].child) = 0 /\ Len(G[sib].child) = 0
      /\ ~H[sib].is_leaf =>
            /\ Len(G[ch].child) = M + 1
            /\ \A j \in 1..M : G[ch].child[j + d] = H[ch].child[j]
            /\ G[ch].child[f] = mv
            /\ Len(G[sib].child) = N - 1
            /\ \A j \in 1..(N - 1) : G[sib].child[j] = H[sib].child[j + (1 - d)]
  BY Zenon DEF BorrowOf
<1>7. mv = H[sib].child[e]
  BY DEF Lent
<1> HIDE DEF M, N, mv
(* The children of ch and of sib before and after the borrow. *)
<1>8. ASSUME NEW j \in 1..Len(G[ch].child)
      PROVE  \/ ~H[sib].is_leaf /\ j = f /\ G[ch].child[j] = mv
             \/ j # f /\ j - d \in 1..M /\ G[ch].child[j] = H[ch].child[j - d]
  <2>1. ~H[sib].is_leaf /\ j \in 1..(M + 1)
    BY <1>6
  <2>2. CASE j # f
    <3>1. j - d \in 1..M /\ (j - d) + d = j
      BY <1>3, <2>1, <2>2
    <3> QED BY <1>6, <2>1, <2>2, <3>1
  <2> QED BY <1>6, <2>1, <2>2
<1>9. ASSUME NEW j \in 1..Len(G[sib].child)
      PROVE  /\ j + (1 - d) \in 1..N /\ j + (1 - d) # e
             /\ G[sib].child[j] = H[sib].child[j + (1 - d)]
  <2>1. ~H[sib].is_leaf /\ j \in 1..(N - 1)
    BY <1>3, <1>6
  <2>2. j + (1 - d) \in 1..N /\ j + (1 - d) # e
    BY <1>3, <2>1
  <2> QED BY <1>6, <2>1, <2>2
<1>10. ASSUME NEW j \in 1..M
       PROVE  j + d \in 1..Len(G[ch].child) /\ G[ch].child[j + d] = H[ch].child[j]
  <2>1. ~H[sib].is_leaf
    BY <1>3
  <2>2. j + d \in 1..(M + 1)
    BY <1>3
  <2> QED BY <1>6, <2>1, <2>2
<1>11. ASSUME NEW j \in 1..N, j # e
       PROVE  /\ j - (1 - d) \in 1..Len(G[sib].child)
              /\ G[sib].child[j - (1 - d)] = H[sib].child[j]
  <2>1. ~H[sib].is_leaf
    BY <1>3
  <2>2. j - (1 - d) \in 1..(N - 1) /\ (j - (1 - d)) + (1 - d) = j
    BY <1>3, <1>11
  <2> QED BY <1>6, <2>1, <2>2
<1>12. ~H[sib].is_leaf => /\ e \in 1..N /\ f \in 1..Len(G[ch].child)
                          /\ G[ch].child[f] = mv
  BY <1>3, <1>6
<1> HIDE DEF e, f
<1>13. Typed(G, A, t, ht)
  BY <1>1, <1>4 DEF Typed
<1>14. Sized(G, A, t)
  <2> SUFFICES ASSUME NEW a \in A
               PROVE  /\ Len(G[a].keys) <= MAX_DEGREE
                      /\ a # t => Len(G[a].keys) >= MIN_DEGREE
                      /\ Len(G[a].child) =
                            IF G[a].is_leaf THEN 0 ELSE Len(G[a].keys) + 1
    BY DEF Sized
  <2>0. MIN_DEGREE \in Nat /\ MAX_DEGREE \in Nat
    BY TAssumption DEF MIN_DEGREE, MAX_DEGREE
  <2>1. CASE a = x
    <3>1. /\ Len(H[x].keys) <= MAX_DEGREE
          /\ x # t => Len(H[x].keys) >= MIN_DEGREE
          /\ Len(H[x].child) = IF H[x].is_leaf THEN 0 ELSE Len(H[x].keys) + 1
      BY <1>2, TreeFacts
    <3> QED BY <1>4, <2>1, <3>1, Zenon
  <2>2. CASE a = ch
    <3>1. /\ Len(H[ch].keys) \in Nat
          /\ Len(H[ch].keys) < MAX_DEGREE /\ Len(H[ch].keys) >= MIN_DEGREE
          /\ M = IF H[ch].is_leaf THEN 0 ELSE Len(H[ch].keys) + 1
      BY BorrowSiteFacts DEF M
    <3>2. /\ Len(G[ch].keys) <= MAX_DEGREE
          /\ Len(G[ch].keys) >= MIN_DEGREE
      BY <1>4, <2>0, <3>1
    <3>3. CASE H[sib].is_leaf
      <4>1. G[ch].is_leaf /\ Len(G[ch].child) = 0
        BY <1>2, <1>4, <1>6, <3>3, Zenon
      <4> QED BY <2>2, <3>2, <4>1
    <3>4. CASE ~H[sib].is_leaf
      <4>1. ~G[ch].is_leaf /\ ~H[ch].is_leaf
        BY <1>2, <1>4, <3>4, Zenon
      <4>2. Len(G[ch].child) = M + 1
        BY <1>6, <3>4, Zenon
      <4>3. Len(G[ch].child) = Len(G[ch].keys) + 1
        BY <1>4, <3>1, <4>1, <4>2
      <4> QED BY <2>2, <3>2, <4>1, <4>3
    <3> QED BY <3>3, <3>4
  <2>3. CASE a = sib
    <3>1. /\ Len(H[sib].keys) \in Nat
          /\ Len(H[sib].keys) <= MAX_DEGREE /\ Len(H[sib].keys) >= MIN_DEGREE + 1
          /\ N = IF H[sib].is_leaf THEN 0 ELSE Len(H[sib].keys) + 1
      BY BorrowSiteFacts DEF N
    <3>2. /\ Len(G[sib].keys) <= MAX_DEGREE
          /\ Len(G[sib].keys) >= MIN_DEGREE
      BY <1>4, <2>0, <3>1
    <3>3. CASE H[sib].is_leaf
      <4>1. G[sib].is_leaf /\ Len(G[sib].child) = 0
        BY <1>2, <1>4, <1>6, <3>3, Zenon
      <4> QED BY <2>3, <3>2, <4>1
    <3>4. CASE ~H[sib].is_leaf
      <4>1. ~G[sib].is_leaf /\ ~H[sib].is_leaf
        BY <1>2, <1>4, <3>4, Zenon
      <4>2. Len(G[sib].child) = N - 1
        BY <1>6, <3>4, Zenon
      <4>3. Len(G[sib].child) = Len(G[sib].keys) + 1
        BY <1>4, <3>1, <4>1, <4>2
      <4> QED BY <2>3, <3>2, <4>1, <4>3
    <3> QED BY <3>3, <3>4
  <2>4. CASE a \notin {x, ch, sib}
    <3>1. G[a].keys = H[a].keys /\ G[a].child = H[a].child /\ G[a].is_leaf = H[a].is_leaf
      BY <1>5, <2>4
    <3> QED BY <3>1 DEF Tree, Sized
  <2> QED BY <2>1, <2>2, <2>3, <2>4
<1>15. ASSUME NEW j \in 1..M
       PROVE  /\ H[ch].child[j] \in A
              /\ H[H[ch].child[j]].parent = ch
              /\ ht[H[ch].child[j]] = ht[ch] - 1
  BY <1>2, TreeChild DEF M
<1>16. ASSUME NEW j \in 1..N
       PROVE  /\ H[sib].child[j] \in A \ {x, ch, sib}
              /\ H[H[sib].child[j]].parent = sib
              /\ ht[H[sib].child[j]] = ht[ch] - 1
  <2>1. /\ H[sib].child[j] \in A /\ H[H[sib].child[j]].parent = sib
        /\ ht[H[sib].child[j]] = ht[sib] - 1 /\ H[sib].child[j] # sib
    BY <1>2, TreeChild DEF N
  <2> QED BY <1>2, <2>1
<1>17. ASSUME NEW i \in 1..N, NEW j \in 1..N, i # j
       PROVE  H[sib].child[i] # H[sib].child[j]
  BY <1>2, <1>17, TreeChildrenDiffer DEF N
<1>18. ASSUME NEW i \in 1..M, NEW j \in 1..M, i # j
       PROVE  H[ch].child[i] # H[ch].child[j]
  BY <1>2, <1>18, TreeChildrenDiffer DEF M
(* Who keeps its parent, and who does not. *)
<1>19. ASSUME NEW c \in A, H[c].parent # sib
       PROVE  G[c].parent = H[c].parent
  <2>1. CASE c \in {x, ch, sib}
    BY <1>4, <2>1
  <2>2. CASE c \notin {x, ch, sib}
    BY <1>5, <1>7, <1>12, <1>16, <1>19, <2>2
  <2> QED BY <2>1, <2>2
<1>20. ASSUME NEW j \in 1..N
       PROVE  G[H[sib].child[j]].parent = IF j = e THEN ch ELSE sib
  <2>1. ~H[sib].is_leaf
    BY <1>3
  <2>2. CASE j = e
    BY <1>5, <1>7, <1>16, <2>1, <2>2
  <2>3. CASE j # e
    <3>1. H[sib].child[j] # mv
      BY <1>7, <1>12, <1>17, <2>1, <2>3
    <3> QED BY <1>5, <1>16, <2>3, <3>1
  <2> QED BY <2>2, <2>3
<1>21. Owned(G, A)
  <2> SUFFICES ASSUME NEW a \in A, NEW j \in 1..Len(G[a].child)
               PROVE  /\ G[a].child[j] \in A
                      /\ G[G[a].child[j]].parent = a
                      /\ \A i \in 1..(j - 1) : G[a].child[i] # G[a].child[j]
    BY DEF Owned
  <2>1. CASE a = ch
    <3>1. G[ch].child[j] \in A /\ G[G[ch].child[j]].parent = ch
      <4>1. CASE ~H[sib].is_leaf /\ j = f /\ G[ch].child[j] = mv
        BY <1>7, <1>12, <1>16, <1>20, <4>1
      <4>2. CASE j - d \in 1..M /\ G[ch].child[j] = H[ch].child[j - d]
        BY <1>2, <1>15, <1>19, <4>2
      <4> QED BY <1>8, <2>1, <4>1, <4>2
    <3>2. ASSUME NEW i \in 1..(j - 1) PROVE G[ch].child[i] # G[ch].child[j]
      <4>1. i \in 1..Len(G[ch].child) /\ j \in 1..Len(G[ch].child) /\ i # j
        <5>1. Len(G[ch].child) \in Nat
          BY <1>3, <1>6
        <5> QED BY <2>1, <5>1
      <4>2. CASE ~H[sib].is_leaf /\ j = f /\ G[ch].child[j] = mv
        <5>1. i - d \in 1..M /\ G[ch].child[i] = H[ch].child[i - d]
          BY <1>8, <4>1, <4>2
        <5> QED BY <1>2, <1>7, <1>12, <1>15, <1>16, <4>2, <5>1
      <4>3. CASE j # f /\ j - d \in 1..M /\ G[ch].child[j] = H[ch].child[j - d]
        <5>1. CASE ~H[sib].is_leaf /\ i = f /\ G[ch].child[i] = mv
          BY <1>2, <1>7, <1>12, <1>15, <1>16, <4>3, <5>1
        <5>2. CASE i - d \in 1..M /\ G[ch].child[i] = H[ch].child[i - d]
          <6>1. i - d # j - d
            BY <4>1
          <6> QED BY <1>18, <4>3, <5>2, <6>1
        <5> QED BY <1>8, <4>1, <5>1, <5>2
      <4> QED BY <1>8, <4>1, <4>2, <4>3
    <3> QED BY <2>1, <3>1, <3>2
  <2>2. CASE a = sib
    <3>1. /\ j + (1 - d) \in 1..N /\ j + (1 - d) # e
          /\ G[sib].child[j] = H[sib].child[j + (1 - d)]
      BY <1>9, <2>2
    <3>2. G[sib].child[j] \in A /\ G[G[sib].child[j]].parent = sib
      BY <1>16, <1>20, <3>1
    <3>3. ASSUME NEW i \in 1..(j - 1) PROVE G[sib].child[i] # G[sib].child[j]
      <4>1. i \in 1..Len(G[sib].child) /\ i + (1 - d) # j + (1 - d)
        <5>1. Len(G[sib].child) \in Nat
          BY <1>3, <1>6
        <5> QED BY <2>2, <5>1
      <4>2. /\ i + (1 - d) \in 1..N
            /\ G[sib].child[i] = H[sib].child[i + (1 - d)]
        BY <1>9, <4>1
      <4> QED BY <1>17, <3>1, <4>1, <4>2
    <3> QED BY <2>2, <3>2, <3>3
  <2>3. CASE a \notin {ch, sib}
    <3>1. G[a].child = H[a].child
      BY <1>4, <1>5, <2>3
    <3>2. /\ H[a].child[j] \in A /\ H[H[a].child[j]].parent = a
          /\ \A i \in 1..(j - 1) : H[a].child[i] # H[a].child[j]
      BY <3>1 DEF Tree, Owned
    <3> QED BY <1>19, <2>3, <3>1, <3>2
  <2> QED BY <2>1, <2>2, <2>3
<1>22. Attached(G, A, t)
  <2> SUFFICES ASSUME NEW a \in A
               PROVE  IF a = t THEN G[a].parent = NULL
                      ELSE /\ G[a].parent \in A
                           /\ \E j \in 1..Len(G[G[a].parent].child) :
                                 G[G[a].parent].child[j] = a
    BY DEF Attached
  <2>1. CASE a = t
    <3>1. H[t].parent = NULL /\ NULL # sib
      BY <1>1, <1>2, TreeParent
    <3> QED BY <1>1, <1>19, <2>1, <3>1
  <2>2. CASE a # t /\ H[a].parent = ch
    <3>1. PICK j \in 1..M : H[ch].child[j] = a
      BY <2>2, TreeParent DEF M
    <3>2. j + d \in 1..Len(G[ch].child) /\ G[ch].child[j + d] = a
      BY <1>10, <3>1
    <3>3. G[a].parent = ch
      BY <1>2, <1>19, <2>2
    <3> QED BY <1>2, <2>2, <3>2, <3>3
  <2>3. CASE a # t /\ H[a].parent = sib
    <3>1. PICK j \in 1..N : H[sib].child[j] = a
      BY <2>3, TreeParent DEF N
    <3>2. CASE j = e
      <4>1. G[a].parent = ch /\ a = mv
        BY <1>7, <1>20, <3>1, <3>2
      <4>2. f \in 1..Len(G[ch].child) /\ G[ch].child[f] = mv
        BY <1>3, <1>12, <3>1
      <4> QED BY <1>2, <2>3, <4>1, <4>2
    <3>3. CASE j # e
      <4>1. G[a].parent = sib
        BY <1>20, <3>1, <3>3
      <4>2. /\ j - (1 - d) \in 1..Len(G[sib].child)
            /\ G[sib].child[j - (1 - d)] = a
        BY <1>11, <3>1, <3>3
      <4> QED BY <1>2, <2>3, <4>1, <4>2
    <3> QED BY <3>2, <3>3
  <2>4. CASE a # t /\ H[a].parent \notin {ch, sib}
    <3>1. /\ H[a].parent \in A
          /\ \E j \in 1..Len(H[H[a].parent].child) : H[H[a].parent].child[j] = a
      BY <2>4, TreeParent
    <3>2. G[a].parent = H[a].parent
      BY <1>19, <2>4
    <3>3. G[H[a].parent].child = H[H[a].parent].child
      BY <1>4, <1>5, <2>4, <3>1
    <3> QED BY <2>4, <3>1, <3>2, <3>3
  <2> QED BY <2>1, <2>2, <2>3, <2>4
<1>23. Leveled(G, A, t, ht)
  <2> SUFFICES ASSUME NEW a \in A
               PROVE  /\ ht[a] = 0 <=> G[a].is_leaf
                      /\ \A j \in 1..Len(G[a].child) : ht[G[a].child[j]] = ht[a] - 1
                      /\ ht[a] <= ht[t]
    BY DEF Leveled
  <2>1. ht[a] <= ht[t] /\ (ht[a] = 0 <=> G[a].is_leaf)
    <3>1. ht[a] <= ht[t] /\ (ht[a] = 0 <=> H[a].is_leaf)
      BY TreeFacts
    <3> QED BY <1>4, <1>5, <3>1
  <2>2. CASE a = ch
    <3>1. ASSUME NEW j \in 1..Len(G[ch].child) PROVE ht[G[ch].child[j]] = ht[ch] - 1
      <4>1. CASE ~H[sib].is_leaf /\ j = f /\ G[ch].child[j] = mv
        BY <1>7, <1>12, <1>16, <4>1
      <4>2. CASE j - d \in 1..M /\ G[ch].child[j] = H[ch].child[j - d]
        BY <1>15, <4>2
      <4> QED BY <1>8, <4>1, <4>2
    <3> QED BY <2>1, <2>2, <3>1
  <2>3. CASE a = sib
    <3>1. ASSUME NEW j \in 1..Len(G[sib].child) PROVE ht[G[sib].child[j]] = ht[sib] - 1
      BY <1>2, <1>9, <1>16
    <3> QED BY <2>1, <2>3, <3>1
  <2>4. CASE a \notin {ch, sib}
    <3>1. G[a].child = H[a].child
      BY <1>4, <1>5, <2>4
    <3>2. \A j \in 1..Len(H[a].child) : ht[H[a].child[j]] = ht[a] - 1
      BY TreeChild
    <3> QED BY <2>1, <3>1, <3>2
  <2> QED BY <2>2, <2>3, <2>4
<1> QED BY <1>13, <1>14, <1>21, <1>22, <1>23, Zenon DEF Tree
=============================================================================

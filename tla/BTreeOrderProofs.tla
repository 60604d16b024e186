-------------------------- MODULE BTreeOrderProofs --------------------------
(***************************************************************************)
(* The operations on the nodes keep the keys of the tree in order, for     *)
(* every T.                                                                *)
(*                                                                         *)
(* That every subtree lies between two keys of its parent is a statement   *)
(* about paths, which needs induction to define. Here the order has a      *)
(* witness instead: every node has a span, a set of values that are        *)
(* allowed below it, and each node is compared with its own children only  *)
(* (Sorted). Keys are counted twice (Mark), so that there is a value       *)
(* between any two keys: getPred goes on where the value just before the   *)
(* key may be.                                                             *)
(*                                                                         *)
(* Between the replacement of a key by its neighbour and the removal of    *)
(* the neighbour from its leaf one key is in two places. The order then    *)
(* has one exemption: the child e of the node with the replaced key may    *)
(* reach up to the key itself, w = 2 * key.                                *)
(*                                                                         *)
(* The last part says where remove() is (Descending): the key it looks for *)
(* is at its node or below, and fill() and merge() leave it there although *)
(* they move keys between nodes.                                           *)
(***************************************************************************)
EXTENDS BTree1dProofs

(* Twice the key at position i of the keys ks of a node.  Doubled, there   *)
(* is a value between any two keys, next to each of them.                  *)
Mark(ks, i) == 2 * ks[i].key

(* The keys of node x ascend and lie in its span; the span of child j is a *)
(* part of it, behind the keys before j and before the others.  Only child *)
(* e may have a key of its parent, w, in its span.                         *)
Sorted(H, x, sp, e, w) ==
    /\ \A i, j \in 1..Len(H[x].keys) :
          i < j => Mark(H[x].keys, i) < Mark(H[x].keys, j)
    /\ \A i \in 1..Len(H[x].keys) : Mark(H[x].keys, i) \in sp[x]
    /\ \A j \in 1..Len(H[x].child) : \A v \in sp[H[x].child[j]] :
          /\ v \in sp[x]
          /\ \A l \in 1..Len(H[x].keys) :
                /\ j <= l => v <= Mark(H[x].keys, l)
                /\ l < j => Mark(H[x].keys, l) <= v
                /\ v = Mark(H[x].keys, l) => H[x].child[j] = e /\ v = w

(* The nodes A of the heap H form a search tree, witnessed by the spans.   *)
Ordered(H, A, sp, e, w) ==
    /\ sp \in [Nodes -> SUBSET Int]
    /\ \A x \in A : Sorted(H, x, sp, e, w)

(* A key of a node in use is an item, and twice it an integer. *)
LEMMA MarkInt ==
    ASSUME NEW H, NEW A, NEW t, NEW ht, Tree(H, A, t, ht),
           NEW x \in A, NEW i \in 1..Len(H[x].keys)
    PROVE  /\ Mark(H[x].keys, i) \in Int
           /\ H[x].keys[i] \in Item /\ H[x].keys[i].key \in Int
<1>1. H[x] \in Node
  BY TreeFacts
<1>2. H[x].keys[i] \in Item
  BY <1>1, NodeFacts
<1>3. H[x].keys[i].key \in Int
  BY <1>2, KeysAssumption DEF Item
<1> QED BY <1>2, <1>3 DEF Mark

(* What the order says of child j of a node. *)
LEMMA ChildSpan ==
    ASSUME NEW H, NEW A, NEW sp, NEW e, NEW w, Ordered(H, A, sp, e, w),
           NEW x \in A, NEW j \in 1..Len(H[x].child), NEW v \in sp[H[x].child[j]]
    PROVE  /\ v \in sp[x]
           /\ \A l \in 1..Len(H[x].keys) :
                 /\ j <= l => v <= Mark(H[x].keys, l)
                 /\ l < j => Mark(H[x].keys, l) <= v
                 /\ v = Mark(H[x].keys, l) => H[x].child[j] = e /\ v = w
BY DEF Ordered, Sorted

(* The keys of a node ascend, equal positions included. *)
LEMMA MarksAscend ==
    ASSUME NEW H, NEW A, NEW t, NEW ht, Tree(H, A, t, ht),
           NEW sp, NEW e, NEW w, Ordered(H, A, sp, e, w),
           NEW x \in A, NEW i \in 1..Len(H[x].keys), NEW j \in 1..Len(H[x].keys),
           i <= j
    PROVE  /\ Mark(H[x].keys, i) <= Mark(H[x].keys, j)
           /\ Mark(H[x].keys, i) = Mark(H[x].keys, j) => i = j
<1>1. Mark(H[x].keys, i) \in Int /\ Mark(H[x].keys, j) \in Int
  BY MarkInt
<1>2. i < j => Mark(H[x].keys, i) < Mark(H[x].keys, j)
  BY DEF Ordered, Sorted
<1>3. i = j \/ i < j
  OBVIOUS
<1> QED BY <1>1, <1>2, <1>3

(* The spans of two children of a node do not interleave. *)
LEMMA SiblingsApart ==
    ASSUME NEW H, NEW A, NEW t, NEW ht, Tree(H, A, t, ht),
           NEW sp, NEW e, NEW w, Ordered(H, A, sp, e, w),
           NEW x \in A, NEW i \in 1..Len(H[x].child), NEW j \in 1..Len(H[x].child),
           NEW a \in sp[H[x].child[i]], NEW b \in sp[H[x].child[i]],
           NEW v \in sp[H[x].child[j]], a <= v, v <= b
    PROVE  i = j
<1>1. Len(H[x].keys) \in Nat /\ Len(H[x].child) = Len(H[x].keys) + 1
  <2>1. ~H[x].is_leaf
    BY TreeChild
  <2> QED BY <2>1, TreeFacts
<1>2. sp \in [Nodes -> SUBSET Int] /\ H[x].child[i] \in Nodes /\ H[x].child[j] \in Nodes
  <2>1. H[x].child[i] \in A /\ H[x].child[j] \in A
    BY TreeChild
  <2> QED BY <2>1, TreeFacts DEF Ordered
<1>3. a \in Int /\ b \in Int /\ v \in Int
  BY <1>2
<1>4. CASE i < j
  <2>1. i \in 1..Len(H[x].keys)
    BY <1>1, <1>4
  <2>2. b <= Mark(H[x].keys, i) /\ Mark(H[x].keys, i) <= v
    BY <1>4, <2>1, ChildSpan
  <2>3. b = Mark(H[x].keys, i) /\ v = Mark(H[x].keys, i)
    BY <1>3, <2>1, <2>2, MarkInt
  <2>4. H[x].child[i] = e
    BY <2>1, <2>3, ChildSpan
  <2>5. H[x].child[j] = e
    BY <2>1, <2>3, ChildSpan
  <2> QED BY <2>4, <2>5, TreeChildrenDiffer
<1>5. CASE j < i
  <2>1. j \in 1..Len(H[x].keys)
    BY <1>1, <1>5
  <2>2. v <= Mark(H[x].keys, j) /\ Mark(H[x].keys, j) <= a
    BY <1>5, <2>1, ChildSpan
  <2>3. a = Mark(H[x].keys, j) /\ v = Mark(H[x].keys, j)
    BY <1>3, <2>1, <2>2, MarkInt
  <2>4. H[x].child[i] = e
    BY <2>1, <2>3, ChildSpan
  <2>5. H[x].child[j] = e
    BY <2>1, <2>3, ChildSpan
  <2> QED BY <2>4, <2>5, TreeChildrenDiffer
<1> QED BY <1>4, <1>5

(* The span of a node below the topmost one is part of its parent's. *)
LEMMA ParentSpan ==
    ASSUME NEW H, NEW A, NEW t, NEW ht, Tree(H, A, t, ht),
           NEW sp, NEW e, NEW w, Ordered(H, A, sp, e, w),
           NEW x \in A, x # t
    PROVE  /\ H[x].parent \in A /\ ht[x] \in Nat /\ ht[H[x].parent] = ht[x] + 1
           /\ ht[t] \in Nat /\ ht[x] < ht[t]
           /\ sp[x] \subseteq sp[H[x].parent]
           /\ \E j \in 1..Len(H[H[x].parent].child) : H[H[x].parent].child[j] = x
<1>1. /\ H[x].parent \in A /\ ht[x] \in Nat /\ ht[H[x].parent] = ht[x] + 1
      /\ ht[t] \in Nat /\ ht[x] < ht[t]
  BY BelowTop
<1>2. PICK j \in 1..Len(H[H[x].parent].child) : H[H[x].parent].child[j] = x
  BY TreeParent
<1>3. sp[x] \subseteq sp[H[x].parent]
  BY <1>1, <1>2, ChildSpan
<1> QED BY <1>1, <1>2, <1>3

(* Nodes of one level whose spans interleave are the same node. *)
LEMMA SameNode ==
    ASSUME NEW H, NEW A, NEW t, NEW ht, Tree(H, A, t, ht),
           NEW sp, NEW e, NEW w, Ordered(H, A, sp, e, w),
           NEW x \in A, NEW y \in A, ht[x] = ht[y],
           NEW a \in sp[x], NEW b \in sp[x], NEW v \in sp[y], a <= v, v <= b
    PROVE  x = y
<1> DEFINE Meet(c, d) ==
             /\ c \in A /\ d \in A /\ c # d /\ ht[c] = ht[d]
             /\ a \in sp[c] /\ b \in sp[c] /\ v \in sp[d]
           S == {m \in Nat : \E c, d \in A : Meet(c, d) /\ m = ht[t] - ht[c]}
<1>1. SUFFICES ASSUME x # y PROVE FALSE
  OBVIOUS
<1>2. \A c \in A : ht[c] \in Nat /\ ht[c] <= ht[t] /\ ht[t] \in Nat
  BY TreeFacts
<1>3. S # {}
  <2>1. Meet(x, y) /\ ht[t] - ht[x] \in Nat
    BY <1>1, <1>2
  <2> QED BY <2>1
<1>4. PICK m \in S : \A l \in S : m <= l
  <2>1. S \subseteq Nat
    OBVIOUS
  <2> HIDE DEF S
  <2> QED BY <1>3, <2>1, LeastNatural
<1>5. PICK c \in A, d \in A : Meet(c, d) /\ m = ht[t] - ht[c]
  BY <1>4
<1>6. c # t /\ d # t
  <2>1. c # t => ht[c] < ht[t]
    BY BelowTop
  <2>2. d # t => ht[d] < ht[t]
    BY BelowTop
  <2> QED BY <1>2, <1>5, <2>1, <2>2
<1> DEFINE pc1 == H[c].parent
           pd == H[d].parent
<1>7. /\ pc1 \in A /\ ht[pc1] = ht[c] + 1 /\ sp[c] \subseteq sp[pc1]
      /\ \E j \in 1..Len(H[pc1].child) : H[pc1].child[j] = c
  <2>1. c # t
    BY <1>6
  <2>2. pc1 \in A /\ ht[pc1] = ht[c] + 1
    BY <2>1, ParentSpan
  <2>3. sp[c] \subseteq sp[pc1]
    BY <2>1, ParentSpan
  <2>4. \E j \in 1..Len(H[pc1].child) : H[pc1].child[j] = c
    BY <2>1, ParentSpan
  <2> QED BY <2>2, <2>3, <2>4
<1>8. /\ pd \in A /\ ht[pd] = ht[d] + 1 /\ sp[d] \subseteq sp[pd]
      /\ \E j \in 1..Len(H[pd].child) : H[pd].child[j] = d
  <2>1. d # t
    BY <1>6
  <2>2. pd \in A /\ ht[pd] = ht[d] + 1
    BY <2>1, ParentSpan
  <2>3. sp[d] \subseteq sp[pd]
    BY <2>1, ParentSpan
  <2>4. \E j \in 1..Len(H[pd].child) : H[pd].child[j] = d
    BY <2>1, ParentSpan
  <2> QED BY <2>2, <2>3, <2>4
<1> HIDE DEF pc1, pd
<1>9. pc1 = pd
  <2>1. SUFFICES ASSUME pc1 # pd PROVE FALSE
    OBVIOUS
  <2>2. Meet(pc1, pd)
    BY <1>5, <1>7, <1>8, <2>1
  <2>3. m - 1 \in Nat /\ m - 1 = ht[t] - ht[pc1]
    BY <1>2, <1>5, <1>7
  <2>4. m - 1 \in S
    BY <1>7, <1>8, <2>2, <2>3
  <2>5. m <= m - 1
    BY <1>4, <2>4
  <2> QED BY <1>4, <2>5
<1>10. PICK i \in 1..Len(H[pc1].child) : H[pc1].child[i] = c
  BY <1>7
<1>11. PICK j \in 1..Len(H[pc1].child) : H[pc1].child[j] = d
  BY <1>8, <1>9
<1>12. i = j
  <2>1. /\ a \in sp[H[pc1].child[i]] /\ b \in sp[H[pc1].child[i]]
        /\ v \in sp[H[pc1].child[j]]
    BY <1>5, <1>10, <1>11
  <2>2. pc1 \in A
    BY <1>7
  <2> HIDE DEF S, Meet
  <2> QED BY <2>1, <2>2, SiblingsApart
<1> QED BY <1>5, <1>10, <1>11, <1>12


(* Above a node there is one at every height up to the topmost one, whose  *)
(* span holds the span of the node.                                        *)
LEMMA Above ==
    ASSUME NEW H, NEW A, NEW t, NEW ht, Tree(H, A, t, ht),
           NEW sp, NEW e, NEW w, Ordered(H, A, sp, e, w),
           NEW x \in A, NEW h \in Nat, ht[x] <= h, h <= ht[t]
    PROVE  \E a \in A : ht[a] = h /\ sp[x] \subseteq sp[a]
<1> DEFINE Has(l) == \E a \in A : ht[a] = l /\ sp[x] \subseteq sp[a]
           S == {l \in Nat : ht[x] <= l /\ l <= ht[t] /\ ~Has(l)}
<1>1. \A c \in A : ht[c] \in Nat /\ ht[c] <= ht[t] /\ ht[t] \in Nat
  BY TreeFacts
<1>2. SUFFICES ASSUME S # {} PROVE FALSE
  OBVIOUS
<1>3. PICK l \in S : \A m \in S : l <= m
  <2>1. S \subseteq Nat
    OBVIOUS
  <2> HIDE DEF S
  <2> QED BY <1>2, <2>1, LeastNatural
<1>4. l \in Nat /\ ht[x] <= l /\ l <= ht[t] /\ ~Has(l)
  BY <1>3
<1>5. ht[x] # l
  BY <1>4
<1>6. l - 1 \in Nat /\ ht[x] <= l - 1 /\ l - 1 <= ht[t] /\ l - 1 < ht[t]
  BY <1>1, <1>4, <1>5
<1>7. l - 1 \notin S
  <2>1. ~(l <= l - 1)
    BY <1>4
  <2> HIDE DEF S
  <2> QED BY <1>3, <2>1
<1>8. Has(l - 1)
  BY <1>6, <1>7
<1>9. PICK a \in A : ht[a] = l - 1 /\ sp[x] \subseteq sp[a]
  BY <1>8
<1>10. a # t
  BY <1>1, <1>6, <1>9
<1>11. /\ H[a].parent \in A /\ ht[H[a].parent] = ht[a] + 1
       /\ sp[a] \subseteq sp[H[a].parent]
  BY <1>10, ParentSpan
<1>12. ht[H[a].parent] = l /\ sp[x] \subseteq sp[H[a].parent]
  BY <1>4, <1>9, <1>11
<1> QED BY <1>4, <1>11, <1>12

(* A key of a higher node lies between two values of the span of a node    *)
(* only if it is one of them, and the exempt one.                          *)
LEMMA KeyAbove ==
    ASSUME NEW H, NEW A, NEW t, NEW ht, Tree(H, A, t, ht),
           NEW sp, NEW e, NEW w, Ordered(H, A, sp, e, w),
           NEW x \in A, NEW y \in A, ht[x] < ht[y],
           NEW a \in sp[x], NEW b \in sp[x],
           NEW i \in 1..Len(H[y].keys), a <= Mark(H[y].keys, i), Mark(H[y].keys, i) <= b
    PROVE  /\ Mark(H[y].keys, i) \in {a, b} /\ Mark(H[y].keys, i) = w
           /\ e \in A /\ ht[e] = ht[y] - 1
<1>1. \A c \in A : ht[c] \in Nat /\ ht[c] <= ht[t] /\ ht[t] \in Nat
  BY TreeFacts
<1>2. ht[y] - 1 \in Nat /\ ht[x] <= ht[y] - 1 /\ ht[y] - 1 <= ht[t] /\ ht[y] - 1 < ht[t]
  BY <1>1
<1>3. PICK c \in A : ht[c] = ht[y] - 1 /\ sp[x] \subseteq sp[c]
  BY <1>2, Above
<1>4. c # t
  BY <1>1, <1>2, <1>3
<1> DEFINE m == H[c].parent
<1>5. /\ m \in A /\ ht[m] = ht[c] + 1 /\ sp[c] \subseteq sp[m]
      /\ \E j \in 1..Len(H[m].child) : H[m].child[j] = c
  BY <1>4, ParentSpan
<1> HIDE DEF m
<1>6. Mark(H[y].keys, i) \in sp[y] /\ Mark(H[y].keys, i) \in Int
  BY MarkInt DEF Ordered, Sorted
<1>7. m = y
  <2>1. ht[m] = ht[y] /\ a \in sp[m] /\ b \in sp[m]
    BY <1>1, <1>3, <1>5
  <2> QED BY <1>5, <1>6, <2>1, SameNode
<1>8. PICK j \in 1..Len(H[y].child) : H[y].child[j] = c
  BY <1>5, <1>7
<1>9. a \in sp[H[y].child[j]] /\ b \in sp[H[y].child[j]]
  BY <1>3, <1>8
<1>10. Len(H[y].keys) \in Nat /\ Len(H[y].child) = Len(H[y].keys) + 1
  <2>1. ~H[y].is_leaf
    BY <1>8, TreeChild
  <2> QED BY <2>1, TreeFacts
<1>11. a \in Int /\ b \in Int
  BY <1>3, TreeFacts DEF Ordered
<1>12. Mark(H[y].keys, i) \in {a, b}
  <2>1. CASE i < j
    <3>1. Mark(H[y].keys, i) <= a
      BY <1>9, <2>1, ChildSpan
    <3> QED BY <1>6, <1>11, <3>1
  <2>2. CASE j <= i
    <3>1. b <= Mark(H[y].keys, i)
      BY <1>9, <2>2, ChildSpan
    <3> QED BY <1>6, <1>11, <3>1
  <2> QED BY <2>1, <2>2
<1>13. H[y].child[j] = e /\ Mark(H[y].keys, i) = w
  BY <1>9, <1>12, ChildSpan
<1> QED BY <1>3, <1>8, <1>12, <1>13

(* Without an exemption no key is in two places. *)
LEMMA KeysUnique ==
    ASSUME NEW H, NEW A, NEW t, NEW ht, Tree(H, A, t, ht),
           NEW sp, NEW e, NEW w, Ordered(H, A, sp, e, w), e \notin A,
           NEW x \in A, NEW y \in A,
           NEW i \in 1..Len(H[x].keys), NEW j \in 1..Len(H[y].keys),
           Mark(H[x].keys, i) = Mark(H[y].keys, j)
    PROVE  x = y /\ i = j
<1>1. /\ Mark(H[x].keys, i) \in sp[x] /\ Mark(H[x].keys, i) \in Int
      /\ Mark(H[y].keys, j) \in sp[y] /\ Mark(H[y].keys, j) \in Int
  BY MarkInt DEF Ordered, Sorted
<1>2. Mark(H[x].keys, i) <= Mark(H[y].keys, j) /\ Mark(H[y].keys, j) <= Mark(H[x].keys, i)
  BY <1>1
<1>3. ht[x] \in Nat /\ ht[y] \in Nat
  BY TreeFacts
<1>4. ~(ht[x] < ht[y])
  BY <1>1, <1>2, KeyAbove
<1>5. ~(ht[y] < ht[x])
  BY <1>1, <1>2, KeyAbove
<1>6. ht[x] = ht[y]
  BY <1>3, <1>4, <1>5
<1>7. x = y
  BY <1>1, <1>2, <1>6, SameNode
<1>8. i <= j \/ j <= i
  OBVIOUS
<1> QED BY <1>7, <1>8, MarksAscend

(* A value whose search ends in the leaf x is a key of no other node. *)
LEMMA LeafHolds ==
    ASSUME NEW H, NEW A, NEW t, NEW ht, Tree(H, A, t, ht),
           NEW sp, NEW e, NEW w, Ordered(H, A, sp, e, w), e \notin A,
           NEW x \in A, H[x].is_leaf, NEW a \in sp[x],
           NEW y \in A, NEW i \in 1..Len(H[y].keys), Mark(H[y].keys, i) = a
    PROVE  x = y
<1>1. ht[x] = 0 /\ ht[y] \in Nat
  BY TreeFacts
<1>2. Mark(H[y].keys, i) \in sp[y] /\ Mark(H[y].keys, i) \in Int
  BY MarkInt DEF Ordered, Sorted
<1>3. a <= Mark(H[y].keys, i) /\ Mark(H[y].keys, i) <= a
  BY <1>2
<1>4. ~(ht[x] < ht[y])
  BY <1>3, KeyAbove
<1>5. ht[x] = ht[y]
  BY <1>1, <1>4
<1> QED BY <1>2, <1>3, <1>5, SameNode

-----------------------------------------------------------------------------
(* What Sorted says of a node with the keys ks, the children cs and the    *)
(* span S when none of its children is exempt.                             *)
Fit(ks, cs, S, sp) ==
    /\ \A i \in 1..Len(ks) : Mark(ks, i) \in Int /\ Mark(ks, i) \in S
    /\ \A i, j \in 1..Len(ks) : i < j => Mark(ks, i) < Mark(ks, j)
    /\ \A j \in 1..Len(cs) : \A v \in sp[cs[j]] :
          /\ v \in Int /\ v \in S
          /\ \A l \in 1..Len(ks) :
                /\ j <= l => v < Mark(ks, l)
                /\ l < j => Mark(ks, l) < v

(* The part of a span below m, and the part above it. *)
Lower(S, m) == {v \in S : v < m}
(* The part of a span above m. *)
Upper(S, m) == {v \in S : v > m}

(* The keys and children of a node up to key a, and behind it. *)
CutAt(ks, cs, a, lk, lc, rk, rc) ==
    /\ Len(ks) \in Nat /\ Len(cs) \in Nat /\ a \in 1..Len(ks)
    /\ Len(lk) = a - 1 /\ \A i \in 1..(a - 1) : lk[i] = ks[i]
    /\ Len(rk) = Len(ks) - a /\ \A i \in 1..(Len(ks) - a) : rk[i] = ks[a + i]
    /\ \/ Len(cs) = 0 /\ Len(lc) = 0 /\ Len(rc) = 0
       \/ /\ Len(cs) = Len(ks) + 1
          /\ Len(lc) = a /\ \A i \in 1..a : lc[i] = cs[i]
          /\ Len(rc) = Len(cs) - a /\ \A i \in 1..(Len(cs) - a) : rc[i] = cs[a + i]

(* A node that fits, cut at a key, gives two that fit in the parts of its   *)
(* span beside that key.                                                    *)
LEMMA CutFit ==
    ASSUME NEW ks, NEW cs, NEW S, NEW sp, Fit(ks, cs, S, sp), S \subseteq Int,
           NEW a, NEW lk, NEW lc, NEW rk, NEW rc, CutAt(ks, cs, a, lk, lc, rk, rc),
           NEW m, m = Mark(ks, a)
    PROVE  /\ Fit(lk, lc, Lower(S, m), sp)
           /\ Fit(rk, rc, Upper(S, m), sp)
<1>1. /\ \A i \in 1..Len(ks) : Mark(ks, i) \in Int /\ Mark(ks, i) \in S
      /\ \A i, j \in 1..Len(ks) : i < j => Mark(ks, i) < Mark(ks, j)
  BY DEF Fit
<1>2. \A j \in 1..Len(cs) : \A v \in sp[cs[j]] :
          /\ v \in Int /\ v \in S
          /\ \A l \in 1..Len(ks) :
                /\ j <= l => v < Mark(ks, l)
                /\ l < j => Mark(ks, l) < v
  BY DEF Fit
<1>3. /\ Len(ks) \in Nat /\ Len(cs) \in Nat /\ a \in 1..Len(ks)
      /\ Len(lk) = a - 1 /\ \A i \in 1..(a - 1) : lk[i] = ks[i]
      /\ Len(rk) = Len(ks) - a /\ \A i \in 1..(Len(ks) - a) : rk[i] = ks[a + i]
  BY DEF CutAt
<1>4. /\ \A i \in 1..Len(lk) : i \in 1..Len(ks) /\ i < a /\ Mark(lk, i) = Mark(ks, i)
      /\ \A i \in 1..Len(rk) : a + i \in 1..Len(ks) /\ Mark(rk, i) = Mark(ks, a + i)
  BY <1>3 DEF Mark
<1>5. \A j \in 1..Len(lc) : j \in 1..Len(cs) /\ j <= a /\ lc[j] = cs[j]
  BY <1>3 DEF CutAt
<1>6. \A j \in 1..Len(rc) : a + j \in 1..Len(cs) /\ rc[j] = cs[a + j]
  BY <1>3 DEF CutAt
<1>7. Len(lk) \in Nat /\ Len(lc) \in Nat /\ Len(rk) \in Nat /\ Len(rc) \in Nat /\ m \in Int
  BY <1>1, <1>3 DEF CutAt
<1>8. Fit(lk, lc, {v \in S : v < m}, sp)
  <2>1. \A i \in 1..Len(lk) : Mark(lk, i) \in Int /\ Mark(lk, i) \in {v \in S : v < m}
    BY <1>1, <1>3, <1>4
  <2>2. \A i, j \in 1..Len(lk) : i < j => Mark(lk, i) < Mark(lk, j)
    BY <1>1, <1>4
  <2>3. ASSUME NEW j \in 1..Len(lc), NEW v \in sp[lc[j]]
        PROVE  /\ v \in Int /\ v \in {u \in S : u < m}
               /\ \A l \in 1..Len(lk) :
                     /\ j <= l => v < Mark(lk, l)
                     /\ l < j => Mark(lk, l) < v
    <3>1. j \in 1..Len(cs) /\ j <= a /\ v \in sp[cs[j]]
      BY <1>5, <2>3
    <3>2. /\ v \in Int /\ v \in S
          /\ \A l \in 1..Len(ks) :
                /\ j <= l => v < Mark(ks, l)
                /\ l < j => Mark(ks, l) < v
      BY <1>2, <3>1
    <3> QED BY <1>3, <1>4, <3>1, <3>2
  <2> QED BY <2>1, <2>2, <2>3 DEF Fit
<1>9. Fit(rk, rc, {v \in S : v > m}, sp)
  <2>1. \A i \in 1..Len(rk) : Mark(rk, i) \in Int /\ Mark(rk, i) \in {v \in S : v > m}
    <3> SUFFICES ASSUME NEW i \in 1..Len(rk)
                 PROVE  Mark(rk, i) \in Int /\ Mark(rk, i) \in {v \in S : v > m}
      OBVIOUS
    <3>1. a + i \in 1..Len(ks) /\ Mark(rk, i) = Mark(ks, a + i) /\ a < a + i
      BY <1>3, <1>4, <1>7
    <3>2. Mark(ks, a) < Mark(ks, a + i) /\ Mark(ks, a + i) \in Int /\ Mark(ks, a + i) \in S
      BY <1>1, <1>3, <3>1
    <3> QED BY <1>7, <3>1, <3>2
  <2>2. ASSUME NEW i \in 1..Len(rk), NEW j \in 1..Len(rk), i < j
        PROVE  Mark(rk, i) < Mark(rk, j)
    <3>1. a + i \in 1..Len(ks) /\ a + j \in 1..Len(ks) /\ a + i < a + j
      BY <1>3, <1>4, <1>7, <2>2
    <3> QED BY <1>1, <1>4, <3>1
  <2>3. ASSUME NEW j \in 1..Len(rc), NEW v \in sp[rc[j]]
        PROVE  /\ v \in Int /\ v \in {u \in S : u > m}
               /\ \A l \in 1..Len(rk) :
                     /\ j <= l => v < Mark(rk, l)
                     /\ l < j => Mark(rk, l) < v
    <3>1. a + j \in 1..Len(cs) /\ v \in sp[cs[a + j]] /\ a < a + j
      BY <1>3, <1>6, <1>7, <2>3
    <3>2. /\ v \in Int /\ v \in S
          /\ \A l \in 1..Len(ks) :
                /\ a + j <= l => v < Mark(ks, l)
                /\ l < a + j => Mark(ks, l) < v
      BY <1>2, <3>1
    <3>3. m < v
      BY <1>3, <3>1, <3>2
    <3>4. ASSUME NEW l \in 1..Len(rk)
          PROVE  /\ j <= l => v < Mark(rk, l)
                 /\ l < j => Mark(rk, l) < v
      <4>1. a + l \in 1..Len(ks) /\ Mark(rk, l) = Mark(ks, a + l)
        BY <1>4
      <4>2. (j <= l => a + j <= a + l) /\ (l < j => a + l < a + j)
        BY <1>3, <1>7
      <4> QED BY <3>2, <4>1, <4>2
    <3> QED BY <1>7, <3>2, <3>3, <3>4
  <2> QED BY <2>1, <2>2, <2>3 DEF Fit
<1> QED BY <1>8, <1>9 DEF Lower, Upper

(* Two nodes that fit on the two sides of a key, joined with it, fit        *)
(* again.                                                                   *)
LEMMA JoinFit ==
    ASSUME NEW ks, NEW cs, NEW sp, NEW a, NEW lk, NEW lc, NEW rk, NEW rc,
           CutAt(ks, cs, a, lk, lc, rk, rc),
           NEW L, NEW R, L \subseteq Int, R \subseteq Int,
           Fit(lk, lc, L, sp), Fit(rk, rc, R, sp),
           NEW m \in Int, m = Mark(ks, a),
           \A v \in L : v < m, \A v \in R : m < v
    PROVE  Fit(ks, cs, L \union {m} \union R, sp)
<1> DEFINE S == L \union {m} \union R
<1>3. /\ Len(ks) \in Nat /\ Len(cs) \in Nat /\ a \in 1..Len(ks)
      /\ Len(lk) = a - 1 /\ \A i \in 1..(a - 1) : lk[i] = ks[i]
      /\ Len(rk) = Len(ks) - a /\ \A i \in 1..(Len(ks) - a) : rk[i] = ks[a + i]
  BY DEF CutAt
<1>4. /\ \A i \in 1..Len(ks) : i < a => i \in 1..Len(lk) /\ Mark(ks, i) = Mark(lk, i)
      /\ \A i \in 1..Len(ks) : a < i => i - a \in 1..Len(rk) /\ Mark(ks, i) = Mark(rk, i - a)
  <2>1. \A i \in 1..Len(ks) : a < i => i - a \in 1..Len(rk) /\ ks[i] = rk[i - a]
    <3> SUFFICES ASSUME NEW i \in 1..Len(ks), a < i
                 PROVE  i - a \in 1..Len(rk) /\ ks[i] = rk[i - a]
      OBVIOUS
    <3>1. i - a \in 1..(Len(ks) - a) /\ a + (i - a) = i
      BY <1>3
    <3> QED BY <1>3, <3>1
  <2>2. \A i \in 1..Len(ks) : i < a => i \in 1..Len(lk) /\ ks[i] = lk[i]
    BY <1>3
  <2> QED BY <2>1, <2>2 DEF Mark
<1>5. \A j \in 1..Len(cs) :
         \/ j <= a /\ j \in 1..Len(lc) /\ cs[j] = lc[j]
         \/ a < j /\ j - a \in 1..Len(rc) /\ cs[j] = rc[j - a]
  <2> SUFFICES ASSUME NEW j \in 1..Len(cs)
               PROVE  \/ j <= a /\ j \in 1..Len(lc) /\ cs[j] = lc[j]
                      \/ a < j /\ j - a \in 1..Len(rc) /\ cs[j] = rc[j - a]
    OBVIOUS
  <2>1. /\ Len(lc) = a /\ \A i \in 1..a : lc[i] = cs[i]
        /\ Len(rc) = Len(cs) - a /\ \A i \in 1..(Len(cs) - a) : rc[i] = cs[a + i]
    BY <1>3 DEF CutAt
  <2>2. CASE j <= a
    BY <1>3, <2>1, <2>2
  <2>3. CASE a < j
    <3>1. j - a \in 1..(Len(cs) - a) /\ a + (j - a) = j
      BY <1>3, <2>3
    <3> QED BY <2>1, <2>3, <3>1
  <2> QED BY <1>3, <2>2, <2>3
<1>6. /\ \A i \in 1..Len(lk) : Mark(lk, i) \in Int /\ Mark(lk, i) \in L /\ Mark(lk, i) < m
      /\ \A i, j \in 1..Len(lk) : i < j => Mark(lk, i) < Mark(lk, j)
  BY DEF Fit
<1>7. /\ \A i \in 1..Len(rk) : Mark(rk, i) \in Int /\ Mark(rk, i) \in R /\ m < Mark(rk, i)
      /\ \A i, j \in 1..Len(rk) : i < j => Mark(rk, i) < Mark(rk, j)
  BY DEF Fit
<1>8. /\ \A j \in 1..Len(lc) : \A v \in sp[lc[j]] :
            /\ v \in Int /\ v \in L /\ v < m
            /\ \A l \in 1..Len(lk) :
                  /\ j <= l => v < Mark(lk, l)
                  /\ l < j => Mark(lk, l) < v
  BY DEF Fit
<1>9. /\ \A j \in 1..Len(rc) : \A v \in sp[rc[j]] :
            /\ v \in Int /\ v \in R /\ m < v
            /\ \A l \in 1..Len(rk) :
                  /\ j <= l => v < Mark(rk, l)
                  /\ l < j => Mark(rk, l) < v
  BY DEF Fit
<1>10. \A i \in 1..Len(ks) :
         /\ Mark(ks, i) \in Int /\ Mark(ks, i) \in S
         /\ i < a => Mark(ks, i) < m
         /\ a < i => m < Mark(ks, i)
  <2> SUFFICES ASSUME NEW i \in 1..Len(ks)
               PROVE  /\ Mark(ks, i) \in Int /\ Mark(ks, i) \in S
                      /\ i < a => Mark(ks, i) < m
                      /\ a < i => m < Mark(ks, i)
    OBVIOUS
  <2>1. CASE i < a
    BY <1>3, <1>4, <1>6, <2>1
  <2>2. CASE a < i
    BY <1>3, <1>4, <1>7, <2>2
  <2>3. CASE a = i
    BY <1>3, <2>3
  <2> QED BY <1>3, <2>1, <2>2, <2>3
<1>11. ASSUME NEW i \in 1..Len(ks), NEW j \in 1..Len(ks), i < j
       PROVE  Mark(ks, i) < Mark(ks, j)
  <2>1. CASE j < a
    BY <1>3, <1>4, <1>6, <1>11, <2>1
  <2>2. CASE a < i
    <3>1. i - a < j - a /\ a < j
      BY <1>3, <1>11, <2>2
    <3> QED BY <1>4, <1>7, <2>2, <3>1
  <2>3. CASE i <= a /\ a <= j
    BY <1>3, <1>10, <1>11, <2>3
  <2> QED BY <1>3, <2>1, <2>2, <2>3
<1>12. ASSUME NEW j \in 1..Len(cs), NEW v \in sp[cs[j]]
       PROVE  /\ v \in Int /\ v \in S
              /\ \A l \in 1..Len(ks) :
                    /\ j <= l => v < Mark(ks, l)
                    /\ l < j => Mark(ks, l) < v
  <2>1. CASE j <= a /\ j \in 1..Len(lc) /\ cs[j] = lc[j]
    <3>1. /\ v \in Int /\ v \in L /\ v < m
          /\ \A l \in 1..Len(lk) :
                /\ j <= l => v < Mark(lk, l)
                /\ l < j => Mark(lk, l) < v
      BY <1>8, <1>12, <2>1
    <3>2. ASSUME NEW l \in 1..Len(ks)
          PROVE  /\ j <= l => v < Mark(ks, l)
                 /\ l < j => Mark(ks, l) < v
      <4>1. CASE l < a
        BY <1>4, <3>1, <4>1
      <4>2. CASE l >= a
        <5>1. m <= Mark(ks, l) /\ j <= l /\ Mark(ks, l) \in Int
          BY <1>3, <1>10, <2>1, <4>2
        <5> QED BY <1>3, <3>1, <5>1
      <4> QED BY <1>3, <4>1, <4>2
    <3> QED BY <3>1, <3>2
  <2>2. CASE a < j /\ j - a \in 1..Len(rc) /\ cs[j] = rc[j - a]
    <3>1. /\ v \in Int /\ v \in R /\ m < v
          /\ \A l \in 1..Len(rk) :
                /\ j - a <= l => v < Mark(rk, l)
                /\ l < j - a => Mark(rk, l) < v
      BY <1>9, <1>12, <2>2
    <3>2. ASSUME NEW l \in 1..Len(ks)
          PROVE  /\ j <= l => v < Mark(ks, l)
                 /\ l < j => Mark(ks, l) < v
      <4>1. CASE a < l
        <5>1. l - a \in 1..Len(rk) /\ Mark(ks, l) = Mark(rk, l - a)
          BY <1>4, <4>1
        <5>2. (j <= l => j - a <= l - a) /\ (l < j => l - a < j - a)
          BY <1>3
        <5> QED BY <3>1, <5>1, <5>2
      <4>2. CASE l <= a
        <5>1. Mark(ks, l) <= m /\ l < j /\ Mark(ks, l) \in Int
          BY <1>3, <1>10, <2>2, <4>2
        <5> QED BY <1>3, <3>1, <5>1
      <4> QED BY <1>3, <4>1, <4>2
    <3> QED BY <3>1, <3>2
  <2> QED BY <1>5, <2>1, <2>2
<1> QED BY <1>10, <1>11, <1>12 DEF Fit

(* Every child on either side of a cut was a child before it. *)
LEMMA CutChildren ==
    ASSUME NEW ks, NEW cs, NEW a, NEW lk, NEW lc, NEW rk, NEW rc,
           CutAt(ks, cs, a, lk, lc, rk, rc)
    PROVE  /\ \A j \in 1..Len(lc) : \E i \in 1..Len(cs) : lc[j] = cs[i]
           /\ \A j \in 1..Len(rc) : \E i \in 1..Len(cs) : rc[j] = cs[i]
<1>1. /\ Len(ks) \in Nat /\ Len(cs) \in Nat /\ a \in 1..Len(ks)
      /\ \/ Len(cs) = 0 /\ Len(lc) = 0 /\ Len(rc) = 0
         \/ /\ Len(cs) = Len(ks) + 1
            /\ Len(lc) = a /\ \A i \in 1..a : lc[i] = cs[i]
            /\ Len(rc) = Len(cs) - a /\ \A i \in 1..(Len(cs) - a) : rc[i] = cs[a + i]
  BY Zenon DEF CutAt
<1>2. CASE Len(cs) = 0 /\ Len(lc) = 0 /\ Len(rc) = 0
  BY <1>2
<1>3. CASE /\ Len(cs) = Len(ks) + 1
           /\ Len(lc) = a /\ \A i \in 1..a : lc[i] = cs[i]
           /\ Len(rc) = Len(cs) - a /\ \A i \in 1..(Len(cs) - a) : rc[i] = cs[a + i]
  <2>1. ASSUME NEW j \in 1..Len(lc) PROVE \E i \in 1..Len(cs) : lc[j] = cs[i]
    <3>1. j \in 1..a /\ j \in 1..Len(cs)
      BY <1>1, <1>3
    <3> QED BY <1>3, <3>1
  <2>2. ASSUME NEW j \in 1..Len(rc) PROVE \E i \in 1..Len(cs) : rc[j] = cs[i]
    <3>1. j \in 1..(Len(cs) - a) /\ a + j \in 1..Len(cs)
      BY <1>1, <1>3
    <3> QED BY <1>3, <3>1
  <2> QED BY <2>1, <2>2
<1> QED BY <1>1, <1>2, <1>3

-----------------------------------------------------------------------------
(* A node with the keys ks and children cs gets the item it as key p and z *)
(* as the child behind it.                                                 *)
Extended(ks, cs, ks2, cs2, p, it, z) ==
    /\ Len(ks) \in Nat /\ Len(cs) = Len(ks) + 1 /\ p \in 1..(Len(ks) + 1)
    /\ Len(ks2) = Len(ks) + 1
    /\ \A j \in 1..(Len(ks) + 1) : ks2[j] =
          IF j < p THEN ks[j] ELSE IF j = p THEN it ELSE ks[j - 1]
    /\ Len(cs2) = Len(cs) + 1
    /\ \A j \in 1..(Len(cs) + 1) : cs2[j] =
          IF j < p + 1 THEN cs[j] ELSE IF j = p + 1 THEN z ELSE cs[j - 1]

(* Where every key and child of the one node is in the other. *)
LEMMA ExtendedFacts ==
    ASSUME NEW ks, NEW cs, NEW ks2, NEW cs2, NEW p, NEW it, NEW z,
           Extended(ks, cs, ks2, cs2, p, it, z)
    PROVE  /\ Len(ks) \in Nat /\ Len(cs) = Len(ks) + 1 /\ p \in 1..(Len(ks) + 1)
           /\ Len(ks2) = Len(ks) + 1 /\ Len(cs2) = Len(cs) + 1
           /\ \A l \in 1..Len(ks2) :
                 \/ l < p /\ l \in 1..Len(ks) /\ Mark(ks2, l) = Mark(ks, l)
                 \/ l = p /\ Mark(ks2, l) = 2 * it.key
                 \/ p < l /\ l - 1 \in 1..Len(ks) /\ Mark(ks2, l) = Mark(ks, l - 1)
           /\ \A j \in 1..Len(cs2) :
                 \/ j <= p /\ j \in 1..Len(cs) /\ cs2[j] = cs[j]
                 \/ j = p + 1 /\ cs2[j] = z
                 \/ p + 1 < j /\ j - 1 \in 1..Len(cs) /\ cs2[j] = cs[j - 1]
           /\ \A l \in 1..Len(ks) :
                 \/ l < p /\ l \in 1..Len(ks2) /\ Mark(ks, l) = Mark(ks2, l)
                 \/ p <= l /\ l + 1 \in 1..Len(ks2) /\ Mark(ks, l) = Mark(ks2, l + 1)
           /\ \A j \in 1..Len(cs) :
                 \/ j <= p /\ j \in 1..Len(cs2) /\ cs[j] = cs2[j]
                 \/ p < j /\ j + 1 \in 1..Len(cs2) /\ cs[j] = cs2[j + 1]
<1>1. /\ Len(ks) \in Nat /\ Len(cs) = Len(ks) + 1 /\ p \in 1..(Len(ks) + 1)
      /\ Len(ks2) = Len(ks) + 1
      /\ \A j \in 1..(Len(ks) + 1) : ks2[j] =
            IF j < p THEN ks[j] ELSE IF j = p THEN it ELSE ks[j - 1]
  BY DEF Extended
<1>2. /\ Len(cs2) = Len(cs) + 1
      /\ \A j \in 1..(Len(cs) + 1) : cs2[j] =
            IF j < p + 1 THEN cs[j] ELSE IF j = p + 1 THEN z ELSE cs[j - 1]
  BY DEF Extended
<1>3. ASSUME NEW l \in 1..Len(ks2)
      PROVE  \/ l < p /\ l \in 1..Len(ks) /\ Mark(ks2, l) = Mark(ks, l)
             \/ l = p /\ Mark(ks2, l) = 2 * it.key
             \/ p < l /\ l - 1 \in 1..Len(ks) /\ Mark(ks2, l) = Mark(ks, l - 1)
  <2>1. CASE l < p
    <3>1. l \in 1..Len(ks) /\ ks2[l] = ks[l]
      BY <1>1, <2>1
    <3> QED BY <2>1, <3>1 DEF Mark
  <2>2. CASE l = p
    <3>1. ks2[l] = it
      BY <1>1, <2>2
    <3> QED BY <2>2, <3>1 DEF Mark
  <2>3. CASE p < l
    <3>1. l - 1 \in 1..Len(ks) /\ ks2[l] = ks[l - 1]
      BY <1>1, <2>3
    <3> QED BY <2>3, <3>1 DEF Mark
  <2> QED BY <1>1, <2>1, <2>2, <2>3
<1>4. ASSUME NEW j \in 1..Len(cs2)
      PROVE  \/ j <= p /\ j \in 1..Len(cs) /\ cs2[j] = cs[j]
             \/ j = p + 1 /\ cs2[j] = z
             \/ p + 1 < j /\ j - 1 \in 1..Len(cs) /\ cs2[j] = cs[j - 1]
  BY <1>1, <1>2
<1>5. ASSUME NEW l \in 1..Len(ks)
      PROVE  \/ l < p /\ l \in 1..Len(ks2) /\ Mark(ks, l) = Mark(ks2, l)
             \/ p <= l /\ l + 1 \in 1..Len(ks2) /\ Mark(ks, l) = Mark(ks2, l + 1)
  <2>1. CASE l < p
    <3>1. l \in 1..Len(ks2) /\ ks2[l] = ks[l]
      BY <1>1, <2>1
    <3> QED BY <2>1, <3>1 DEF Mark
  <2>2. CASE p <= l
    <3>1. l + 1 \in 1..Len(ks2) /\ (l + 1) - 1 = l /\ ~(l + 1 < p) /\ l + 1 # p
      BY <1>1, <2>2
    <3>2. ks2[l + 1] = ks[l]
      BY <1>1, <3>1
    <3> QED BY <2>2, <3>1, <3>2 DEF Mark
  <2> QED BY <1>1, <2>1, <2>2
<1>6. ASSUME NEW j \in 1..Len(cs)
      PROVE  \/ j <= p /\ j \in 1..Len(cs2) /\ cs[j] = cs2[j]
             \/ p < j /\ j + 1 \in 1..Len(cs2) /\ cs[j] = cs2[j + 1]
  <2>1. CASE j <= p
    BY <1>1, <1>2, <2>1
  <2>2. CASE p < j
    <3>1. j + 1 \in 1..Len(cs2) /\ (j + 1) - 1 = j /\ ~(j + 1 < p + 1) /\ j + 1 # p + 1
      BY <1>1, <1>2, <2>2
    <3> QED BY <1>1, <1>2, <2>2, <3>1
  <2> QED BY <1>1, <2>1, <2>2
<1> QED BY <1>1, <1>2, <1>3, <1>4, <1>5, <1>6

(* The spans sq of the children cs, and of the new child z, after child p  *)
(* was cut at m.                                                           *)
Halved(cs, p, z, m, sp, sq) ==
    /\ m \in sp[cs[p]]
    /\ \A j \in 1..Len(cs) : j # p => sq[cs[j]] = sp[cs[j]]
    /\ sq[cs[p]] = Lower(sp[cs[p]], m)
    /\ sq[z] = Upper(sp[cs[p]], m)

(* The spans of the children after child p took m and the child z in. *)
Joined(cs, p, z, m, sp, sq) ==
    /\ \A j \in 1..Len(cs) : j # p => sq[cs[j]] = sp[cs[j]]
    /\ sq[cs[p]] = sp[cs[p]] \union {m} \union sp[z]

(* A key that moves up separates the halves of the child it came from. *)
LEMMA ExtendFit ==
    ASSUME NEW ks, NEW cs, NEW ks2, NEW cs2, NEW p, NEW it, NEW z,
           Extended(ks, cs, ks2, cs2, p, it, z),
           NEW S, NEW sp, NEW sq, Fit(ks, cs, S, sp),
           NEW m \in Int, m = 2 * it.key, Halved(cs, p, z, m, sp, sq)
    PROVE  Fit(ks2, cs2, S, sq)
<1>0. /\ m \in sp[cs[p]]
      /\ \A j \in 1..Len(cs) : j # p => sq[cs[j]] = sp[cs[j]]
      /\ \A v \in sq[cs[p]] : v \in sp[cs[p]] /\ v < m
      /\ \A v \in sq[z] : v \in sp[cs[p]] /\ v > m
  BY DEF Halved, Lower, Upper
<1>1. /\ Len(ks) \in Nat /\ Len(cs) = Len(ks) + 1 /\ p \in 1..(Len(ks) + 1)
      /\ Len(ks2) = Len(ks) + 1 /\ Len(cs2) = Len(cs) + 1 /\ p \in 1..Len(cs)
  BY ExtendedFacts
<1>2. \A l \in 1..Len(ks2) :
         \/ l < p /\ l \in 1..Len(ks) /\ Mark(ks2, l) = Mark(ks, l)
         \/ l = p /\ Mark(ks2, l) = m
         \/ p < l /\ l - 1 \in 1..Len(ks) /\ Mark(ks2, l) = Mark(ks, l - 1)
  BY ExtendedFacts
<1>3. \A j \in 1..Len(cs2) :
         \/ j <= p /\ j \in 1..Len(cs) /\ cs2[j] = cs[j]
         \/ j = p + 1 /\ cs2[j] = z
         \/ p + 1 < j /\ j - 1 \in 1..Len(cs) /\ cs2[j] = cs[j - 1]
  BY ExtendedFacts
<1>4. /\ \A i \in 1..Len(ks) : Mark(ks, i) \in Int /\ Mark(ks, i) \in S
      /\ \A i, j \in 1..Len(ks) : i < j => Mark(ks, i) < Mark(ks, j)
  BY DEF Fit
<1>5. \A j \in 1..Len(cs) : \A v \in sp[cs[j]] :
          /\ v \in Int /\ v \in S
          /\ \A l \in 1..Len(ks) :
                /\ j <= l => v < Mark(ks, l)
                /\ l < j => Mark(ks, l) < v
  BY DEF Fit
<1>6. /\ m \in S
      /\ \A l \in 1..Len(ks) : (p <= l => m < Mark(ks, l)) /\ (l < p => Mark(ks, l) < m)
  BY <1>0, <1>1, <1>5
<1>7. \A i \in 1..Len(ks2) : Mark(ks2, i) \in Int /\ Mark(ks2, i) \in S
  BY <1>2, <1>4, <1>6
<1>8. ASSUME NEW i \in 1..Len(ks2), NEW j \in 1..Len(ks2), i < j
      PROVE  Mark(ks2, i) < Mark(ks2, j)
  <2>1. CASE i < p /\ i \in 1..Len(ks) /\ Mark(ks2, i) = Mark(ks, i)
    <3>1. CASE j < p /\ j \in 1..Len(ks) /\ Mark(ks2, j) = Mark(ks, j)
      BY <1>4, <1>8, <2>1, <3>1
    <3>2. CASE j = p /\ Mark(ks2, j) = m
      BY <1>6, <2>1, <3>2
    <3>3. CASE p < j /\ j - 1 \in 1..Len(ks) /\ Mark(ks2, j) = Mark(ks, j - 1)
      <4>1. i < j - 1
        BY <1>1, <2>1, <3>3
      <4> QED BY <1>4, <2>1, <3>3, <4>1
    <3> QED BY <1>2, <3>1, <3>2, <3>3
  <2>2. CASE i = p /\ Mark(ks2, i) = m
    <3>1. p < j /\ j - 1 \in 1..Len(ks) /\ Mark(ks2, j) = Mark(ks, j - 1) /\ p <= j - 1
      BY <1>1, <1>2, <1>8, <2>2
    <3> QED BY <1>6, <2>2, <3>1
  <2>3. CASE p < i /\ i - 1 \in 1..Len(ks) /\ Mark(ks2, i) = Mark(ks, i - 1)
    <3>1. p < j /\ j - 1 \in 1..Len(ks) /\ Mark(ks2, j) = Mark(ks, j - 1) /\ i - 1 < j - 1
      BY <1>1, <1>2, <1>8, <2>3
    <3> QED BY <1>4, <2>3, <3>1
  <2> QED BY <1>2, <2>1, <2>2, <2>3
<1>9. ASSUME NEW j \in 1..Len(cs2), NEW v \in sq[cs2[j]]
      PROVE  /\ v \in Int /\ v \in S
             /\ \A l \in 1..Len(ks2) :
                   /\ j <= l => v < Mark(ks2, l)
                   /\ l < j => Mark(ks2, l) < v
  <2> DEFINE o == IF j <= p THEN j ELSE j - 1
  <2>1. /\ o \in 1..Len(cs) /\ v \in sp[cs[o]]
        /\ j <= p => (o = p => v < m) /\ o = j
        /\ p < j => (o = p => m < v) /\ o = j - 1
    <3>1. CASE j < p /\ j \in 1..Len(cs) /\ cs2[j] = cs[j]
      <4>1. sq[cs[j]] = sp[cs[j]] /\ o = j
        BY <1>0, <1>1, <3>1
      <4> QED BY <1>1, <1>9, <3>1, <4>1
    <3>2. CASE j = p /\ cs2[j] = cs[j]
      <4>1. v \in sp[cs[p]] /\ v < m /\ o = p
        BY <1>0, <1>9, <3>2
      <4> QED BY <1>1, <3>2, <4>1
    <3>3. CASE j = p + 1 /\ cs2[j] = z
      <4>1. v \in sp[cs[p]] /\ v > m /\ o = p
        BY <1>0, <1>1, <1>9, <3>3
      <4>2. v \in Int
        BY <1>1, <1>5, <4>1
      <4> QED BY <1>1, <3>3, <4>1, <4>2
    <3>4. CASE p + 1 < j /\ j - 1 \in 1..Len(cs) /\ cs2[j] = cs[j - 1]
      <4>1. sq[cs[j - 1]] = sp[cs[j - 1]] /\ o = j - 1 /\ o # p
        BY <1>0, <1>1, <3>4
      <4> QED BY <1>1, <1>9, <3>4, <4>1
    <3> QED BY <1>1, <1>3, <3>1, <3>2, <3>3, <3>4
  <2>2. o \in Int /\ (o <= p <=> o <= p)
    BY <2>1, <1>1
  <2> HIDE DEF o
  <2>3. /\ v \in Int /\ v \in S
        /\ \A l \in 1..Len(ks) :
              /\ o <= l => v < Mark(ks, l)
              /\ l < o => Mark(ks, l) < v
    BY <1>5, <2>1
  <2>4. o < p => v < m
    <3> SUFFICES ASSUME o < p PROVE v < m
      OBVIOUS
    <3>1. o \in 1..Len(ks)
      BY <1>1, <2>1
    <3>2. v < Mark(ks, o) /\ Mark(ks, o) < m /\ Mark(ks, o) \in Int
      BY <1>4, <1>6, <2>3, <3>1
    <3> QED BY <2>3, <3>2
  <2>5. p < o => m < v
    <3> SUFFICES ASSUME p < o PROVE m < v
      OBVIOUS
    <3>1. p \in 1..Len(ks)
      BY <1>1, <2>1
    <3>2. m < Mark(ks, p) /\ Mark(ks, p) < v /\ Mark(ks, p) \in Int
      BY <1>4, <1>6, <2>3, <3>1
    <3> QED BY <2>3, <3>2
  <2>6. ASSUME NEW l \in 1..Len(ks2)
        PROVE  /\ j <= l => v < Mark(ks2, l)
               /\ l < j => Mark(ks2, l) < v
    <3>1. CASE l < p /\ l \in 1..Len(ks) /\ Mark(ks2, l) = Mark(ks, l)
      <4>1. (j <= l => o <= l) /\ (l < j => l < o)
        BY <1>1, <2>1, <3>1
      <4> QED BY <2>3, <3>1, <4>1
    <3>2. CASE l = p /\ Mark(ks2, l) = m
      <4>1. (j <= l => o <= p) /\ (l < j => p <= o)
        BY <1>1, <2>1, <3>2
      <4> QED BY <1>1, <2>1, <2>4, <2>5, <3>2, <4>1
    <3>3. CASE p < l /\ l - 1 \in 1..Len(ks) /\ Mark(ks2, l) = Mark(ks, l - 1)
      <4>1. (j <= l => o <= l - 1) /\ (l < j => l - 1 < o)
        BY <1>1, <2>1, <3>3
      <4> QED BY <2>3, <3>3, <4>1
    <3> QED BY <1>2, <3>1, <3>2, <3>3
  <2> QED BY <2>3, <2>6
<1> QED BY <1>7, <1>8, <1>9 DEF Fit

(* A key that moves down leaves the two children beside it as one. *)
LEMMA ContractFit ==
    ASSUME NEW ks, NEW cs, NEW ks2, NEW cs2, NEW p, NEW it, NEW z,
           Extended(ks, cs, ks2, cs2, p, it, z),
           NEW S, NEW sp, NEW sq, Fit(ks2, cs2, S, sp),
           NEW m \in Int, m = 2 * it.key, Joined(cs, p, z, m, sp, sq)
    PROVE  /\ Fit(ks, cs, S, sq)
           /\ m \in S
           /\ \A v \in sp[cs[p]] : v \in S /\ v < m
           /\ \A v \in sp[z] : v \in S /\ m < v
<1>0. /\ \A j \in 1..Len(cs) : j # p => sq[cs[j]] = sp[cs[j]]
      /\ \A v \in sq[cs[p]] : v \in sp[cs[p]] \/ v = m \/ v \in sp[z]
  BY DEF Joined
<1>1. /\ Len(ks) \in Nat /\ Len(cs) = Len(ks) + 1 /\ p \in 1..(Len(ks) + 1)
      /\ Len(ks2) = Len(ks) + 1 /\ Len(cs2) = Len(cs) + 1 /\ p \in 1..Len(cs)
      /\ p \in 1..Len(cs2) /\ p + 1 \in 1..Len(cs2) /\ p \in 1..Len(ks2)
  BY ExtendedFacts
<1>2. \A l \in 1..Len(ks) :
         \/ l < p /\ l \in 1..Len(ks2) /\ Mark(ks, l) = Mark(ks2, l)
         \/ p <= l /\ l + 1 \in 1..Len(ks2) /\ Mark(ks, l) = Mark(ks2, l + 1)
  BY ExtendedFacts
<1>3. \A j \in 1..Len(cs) :
         \/ j <= p /\ j \in 1..Len(cs2) /\ cs[j] = cs2[j]
         \/ p < j /\ j + 1 \in 1..Len(cs2) /\ cs[j] = cs2[j + 1]
  BY ExtendedFacts
<1>4. /\ \A i \in 1..Len(ks2) : Mark(ks2, i) \in Int /\ Mark(ks2, i) \in S
      /\ \A i, j \in 1..Len(ks2) : i < j => Mark(ks2, i) < Mark(ks2, j)
  BY DEF Fit
<1>5. \A j \in 1..Len(cs2) : \A v \in sp[cs2[j]] :
          /\ v \in Int /\ v \in S
          /\ \A l \in 1..Len(ks2) :
                /\ j <= l => v < Mark(ks2, l)
                /\ l < j => Mark(ks2, l) < v
  BY DEF Fit
<1>6. Mark(ks2, p) = m /\ cs2[p] = cs[p] /\ cs2[p + 1] = z
  <2>1. Mark(ks2, p) = 2 * it.key
    BY <1>1, ExtendedFacts
  <2>2. cs2[p] = cs[p]
    BY <1>1, ExtendedFacts
  <2>3. cs2[p + 1] = z
    BY <1>1, ExtendedFacts
  <2> QED BY <2>1, <2>2, <2>3
<1>7. /\ m \in S
      /\ \A v \in sp[cs[p]] : v \in S /\ v < m /\ v \in Int
      /\ \A v \in sp[z] : v \in S /\ m < v /\ v \in Int
  <2>1. m \in S
    BY <1>1, <1>4, <1>6
  <2>2. \A v \in sp[cs2[p]] : v \in S /\ v < Mark(ks2, p) /\ v \in Int
    BY <1>1, <1>5
  <2>3. \A v \in sp[cs2[p + 1]] : v \in S /\ Mark(ks2, p) < v /\ v \in Int
    BY <1>1, <1>5
  <2> QED BY <1>6, <2>1, <2>2, <2>3
<1>8. ASSUME NEW i \in 1..Len(ks), NEW j \in 1..Len(ks), i < j
      PROVE  Mark(ks, i) < Mark(ks, j)
  <2> DEFINE a == IF i < p THEN i ELSE i + 1
             b == IF j < p THEN j ELSE j + 1
  <2>1. a \in 1..Len(ks2) /\ Mark(ks, i) = Mark(ks2, a)
    BY <1>1, <1>2
  <2>2. b \in 1..Len(ks2) /\ Mark(ks, j) = Mark(ks2, b)
    BY <1>1, <1>2
  <2>3. a < b
    BY <1>1, <1>8
  <2> HIDE DEF a, b
  <2> QED BY <1>4, <2>1, <2>2, <2>3
<1>9. ASSUME NEW j \in 1..Len(cs), NEW v \in sq[cs[j]]
      PROVE  /\ v \in Int /\ v \in S
             /\ \A l \in 1..Len(ks) :
                   /\ j <= l => v < Mark(ks, l)
                   /\ l < j => Mark(ks, l) < v
  <2>1. CASE j # p
    <3> DEFINE b == IF j <= p THEN j ELSE j + 1
    <3>1. b \in 1..Len(cs2) /\ cs[j] = cs2[b] /\ v \in sp[cs2[b]]
      <4>1. v \in sp[cs[j]]
        BY <1>0, <1>9, <2>1
      <4>2. b \in 1..Len(cs2) /\ cs[j] = cs2[b]
        BY <1>1, <1>3
      <4> QED BY <4>1, <4>2
    <3>2. (j < p => b = j) /\ (p < j => b = j + 1)
      BY <1>1
    <3> HIDE DEF b
    <3>3. /\ v \in Int /\ v \in S
          /\ \A l \in 1..Len(ks2) :
                /\ b <= l => v < Mark(ks2, l)
                /\ l < b => Mark(ks2, l) < v
      BY <1>5, <3>1
    <3>4. ASSUME NEW l \in 1..Len(ks)
          PROVE  /\ j <= l => v < Mark(ks, l)
                 /\ l < j => Mark(ks, l) < v
      <4>1. CASE l < p /\ l \in 1..Len(ks2) /\ Mark(ks, l) = Mark(ks2, l)
        <5>1. (j <= l => b <= l) /\ (l < j => l < b)
          BY <1>1, <2>1, <3>2, <4>1
        <5> QED BY <3>3, <4>1, <5>1
      <4>2. CASE p <= l /\ l + 1 \in 1..Len(ks2) /\ Mark(ks, l) = Mark(ks2, l + 1)
        <5>1. (j <= l => b <= l + 1) /\ (l < j => l + 1 < b)
          BY <1>1, <2>1, <3>2, <4>2
        <5> QED BY <3>3, <4>2, <5>1
      <4> QED BY <1>2, <4>1, <4>2
    <3> QED BY <3>3, <3>4
  <2>2. CASE j = p
    <3>1. v \in sp[cs[p]] \/ v = m \/ v \in sp[z]
      BY <1>0, <1>9, <2>2
    <3>2. v \in Int /\ v \in S
      BY <1>7, <3>1
    <3>3. ASSUME NEW l \in 1..Len(ks)
          PROVE  /\ p <= l => v < Mark(ks, l)
                 /\ l < p => Mark(ks, l) < v
      <4>1. CASE l < p /\ l \in 1..Len(ks2) /\ Mark(ks, l) = Mark(ks2, l)
        <5>1. Mark(ks2, l) < m /\ Mark(ks2, l) \in Int
          BY <1>1, <1>4, <1>6, <4>1
        <5>2. v \in sp[cs2[p]] => Mark(ks2, l) < v
          BY <1>1, <1>5, <4>1
        <5>3. v \in sp[z] => m < v
          BY <1>7
        <5> QED BY <1>1, <1>6, <3>1, <3>2, <4>1, <5>1, <5>2, <5>3
      <4>2. CASE p <= l /\ l + 1 \in 1..Len(ks2) /\ Mark(ks, l) = Mark(ks2, l + 1)
        <5>0. p < l + 1 /\ p + 1 <= l + 1
          BY <1>1, <4>2
        <5>1. m < Mark(ks2, l + 1) /\ Mark(ks2, l + 1) \in Int
          BY <1>1, <1>4, <1>6, <4>2, <5>0
        <5>2. v \in sp[cs2[p + 1]] => v < Mark(ks2, l + 1)
          BY <1>1, <1>5, <4>2, <5>0
        <5>3. v \in sp[cs[p]] => v < m
          BY <1>7
        <5> QED BY <1>1, <1>6, <3>1, <3>2, <4>2, <5>1, <5>2, <5>3
      <4> QED BY <1>2, <4>1, <4>2
    <3> QED BY <2>2, <3>2, <3>3
  <2> QED BY <2>1, <2>2
<1>10. \A i \in 1..Len(ks) : Mark(ks, i) \in Int /\ Mark(ks, i) \in S
  BY <1>2, <1>4
<1>11. Fit(ks, cs, S, sq)
  BY <1>8, <1>9, <1>10 DEF Fit
<1> QED BY <1>7, <1>11

-----------------------------------------------------------------------------
(* The exempt node, if there is one, is not below the level of x. *)
Under(x, A, ht, e) == e \in A => ht[x] <= ht[e]

(* In an ordered tree a node fits, unless one of its children is the        *)
(* exempt one.                                                              *)
LEMMA FitOf ==
    ASSUME NEW H, NEW A, NEW t, NEW ht, Tree(H, A, t, ht),
           NEW sp, NEW e, NEW w, Ordered(H, A, sp, e, w),
           NEW x \in A, Under(x, A, ht, e)
    PROVE  Fit(H[x].keys, H[x].child, sp[x], sp)
<1>1. \A i \in 1..Len(H[x].keys) :
         Mark(H[x].keys, i) \in Int /\ Mark(H[x].keys, i) \in sp[x]
  BY MarkInt DEF Ordered, Sorted
<1>2. \A i, j \in 1..Len(H[x].keys) :
         i < j => Mark(H[x].keys, i) < Mark(H[x].keys, j)
  BY DEF Ordered, Sorted
<1>3. ASSUME NEW j \in 1..Len(H[x].child), NEW v \in sp[H[x].child[j]]
      PROVE  /\ v \in Int /\ v \in sp[x]
             /\ \A l \in 1..Len(H[x].keys) :
                   /\ j <= l => v < Mark(H[x].keys, l)
                   /\ l < j => Mark(H[x].keys, l) < v
  <2>1. H[x].child[j] \in A /\ H[x].child[j] # e
    <3>1. H[x].child[j] \in A /\ ht[x] \in Nat /\ ht[H[x].child[j]] = ht[x] - 1
      BY TreeChild
    <3> QED BY <3>1 DEF Under
  <2>2. v \in Int
    <3>1. H[x].child[j] \in Nodes
      BY <2>1, TreeFacts
    <3> QED BY <3>1 DEF Ordered
  <2>3. /\ v \in sp[x]
        /\ \A l \in 1..Len(H[x].keys) :
              /\ j <= l => v <= Mark(H[x].keys, l)
              /\ l < j => Mark(H[x].keys, l) <= v
              /\ v = Mark(H[x].keys, l) => H[x].child[j] = e /\ v = w
    BY ChildSpan
  <2> QED BY <1>1, <2>1, <2>2, <2>3
<1> QED BY <1>1, <1>2, <1>3 DEF Fit

(* A node that fits is sorted, whatever is exempt. *)
LEMMA FitSorted ==
    ASSUME NEW H, NEW x, NEW sp, NEW e, NEW w, Fit(H[x].keys, H[x].child, sp[x], sp)
    PROVE  Sorted(H, x, sp, e, w)
<1>1. /\ \A i \in 1..Len(H[x].keys) :
            Mark(H[x].keys, i) \in Int /\ Mark(H[x].keys, i) \in sp[x]
      /\ \A i, j \in 1..Len(H[x].keys) :
            i < j => Mark(H[x].keys, i) < Mark(H[x].keys, j)
  BY DEF Fit
<1>2. ASSUME NEW j \in 1..Len(H[x].child), NEW v \in sp[H[x].child[j]]
      PROVE  /\ v \in sp[x]
             /\ \A l \in 1..Len(H[x].keys) :
                   /\ j <= l => v <= Mark(H[x].keys, l)
                   /\ l < j => Mark(H[x].keys, l) <= v
                   /\ v = Mark(H[x].keys, l) => H[x].child[j] = e /\ v = w
  <2>1. /\ v \in Int /\ v \in sp[x]
        /\ \A l \in 1..Len(H[x].keys) :
              /\ j <= l => v < Mark(H[x].keys, l)
              /\ l < j => Mark(H[x].keys, l) < v
    BY DEF Fit
  <2>2. Len(H[x].child) \in Int => j \in Int
    OBVIOUS
  <2>3. ASSUME NEW l \in 1..Len(H[x].keys)
        PROVE  /\ j <= l => v <= Mark(H[x].keys, l)
               /\ l < j => Mark(H[x].keys, l) <= v
               /\ v # Mark(H[x].keys, l)
    <3>1. j \in Int /\ l \in Int
      OBVIOUS
    <3>2. j <= l \/ l < j
      BY <3>1
    <3> QED BY <1>1, <2>1, <3>2
  <2> QED BY <2>1, <2>3
<1> QED BY <1>1, <1>2 DEF Sorted

(* The spans of these children are not changed. *)
SameSpans(cs, sp, sq) == \A j \in 1..Len(cs) : sq[cs[j]] = sp[cs[j]]

(* Fit is about the spans of the children only. *)
LEMMA FitSame ==
    ASSUME NEW ks, NEW cs, NEW S, NEW sp, NEW sq, Fit(ks, cs, S, sp),
           SameSpans(cs, sp, sq)
    PROVE  Fit(ks, cs, S, sq)
BY DEF Fit, SameSpans

(* Where a step leaves a node, its span and the spans of its children      *)
(* alone, the order stays; X are the other nodes.                          *)
Kept(H, G, A, B, X, sp, sq) ==
    \A u \in B \ X :
       /\ u \in A
       /\ G[u].keys = H[u].keys /\ G[u].child = H[u].child
       /\ sq[u] = sp[u]
       /\ SameSpans(H[u].child, sp, sq)

(* The others fit. *)
AllFit(G, X, sq) == \A u \in X : Fit(G[u].keys, G[u].child, sq[u], sq)

(* A step keeps the order if the nodes it changes fit and it leaves the     *)
(* others alone.                                                            *)
LEMMA OrderFrame ==
    ASSUME NEW H, NEW A, NEW sp, NEW e, NEW w, Ordered(H, A, sp, e, w),
           NEW G, NEW B, NEW X, NEW sq \in [Nodes -> SUBSET Int],
           Kept(H, G, A, B, X, sp, sq), AllFit(G, X, sq)
    PROVE  Ordered(G, B, sq, e, w)
<1>1. ASSUME NEW u \in B PROVE Sorted(G, u, sq, e, w)
  <2>1. CASE u \in X
    <3>1. Fit(G[u].keys, G[u].child, sq[u], sq)
      BY <2>1 DEF AllFit
    <3> QED BY <3>1, FitSorted
  <2>2. CASE u \notin X
    <3>1. /\ u \in A
          /\ G[u].keys = H[u].keys /\ G[u].child = H[u].child
          /\ sq[u] = sp[u]
          /\ \A j \in 1..Len(H[u].child) : sq[H[u].child[j]] = sp[H[u].child[j]]
      BY <2>2 DEF Kept, SameSpans
    <3>2. Sorted(H, u, sp, e, w)
      BY <3>1 DEF Ordered
    <3>3. /\ \A i, j \in 1..Len(G[u].keys) :
                i < j => Mark(G[u].keys, i) < Mark(G[u].keys, j)
          /\ \A i \in 1..Len(G[u].keys) : Mark(G[u].keys, i) \in sq[u]
      <4>1. /\ \A i, j \in 1..Len(H[u].keys) :
                  i < j => Mark(H[u].keys, i) < Mark(H[u].keys, j)
            /\ \A i \in 1..Len(H[u].keys) : Mark(H[u].keys, i) \in sp[u]
        BY <3>2 DEF Sorted
      <4> QED BY <3>1, <4>1
    <3>4. ASSUME NEW j \in 1..Len(G[u].child), NEW v \in sq[G[u].child[j]]
          PROVE  /\ v \in sq[u]
                 /\ \A l \in 1..Len(G[u].keys) :
                       /\ j <= l => v <= Mark(G[u].keys, l)
                       /\ l < j => Mark(G[u].keys, l) <= v
                       /\ v = Mark(G[u].keys, l) => G[u].child[j] = e /\ v = w
      <4>1. j \in 1..Len(H[u].child) /\ v \in sp[H[u].child[j]]
        BY <3>1
      <4>2. /\ v \in sp[u]
            /\ \A l \in 1..Len(H[u].keys) :
                  /\ j <= l => v <= Mark(H[u].keys, l)
                  /\ l < j => Mark(H[u].keys, l) <= v
                  /\ v = Mark(H[u].keys, l) => H[u].child[j] = e /\ v = w
        BY <3>2, <4>1 DEF Sorted
      <4> QED BY <3>1, <4>2
    <3> QED BY <3>3, <3>4 DEF Sorted
  <2> QED BY <2>1, <2>2
<1> QED BY <1>1 DEF Ordered

-----------------------------------------------------------------------------
(* How split_child distributes the keys and the children. *)
LEMMA SplitPieces ==
    ASSUME NEW H, NEW A, NEW t, NEW ht, Tree(H, A, t, ht),
           NEW x, NEW p, NEW y, NEW z, SplitSite(H, A, x, p, y, z),
           NEW G, SplitOf(H, G, x, p, y, z)
    PROVE  /\ CutAt(H[y].keys, H[y].child, T,
                    G[y].keys, G[y].child, G[z].keys, G[z].child)
           /\ Extended(H[x].keys, H[x].child, G[x].keys, G[x].child, p, H[y].keys[T], z)
           /\ \A c \in Nodes \ {x, y, z} : G[c].keys = H[c].keys /\ G[c].child = H[c].child
<1>1. /\ x \in A /\ y \in A /\ z \in Nodes \ A /\ y = H[x].child[p] /\ x # y
      /\ p \in 1..Len(H[x].child) /\ Len(H[x].child) = Len(H[x].keys) + 1
      /\ p \in 1..(Len(H[x].keys) + 1)
      /\ Len(H[x].keys) \in Nat /\ Len(H[y].keys) = MAX_DEGREE
      /\ x \in Nodes /\ y \in Nodes /\ A \subseteq Nodes
      /\ Len(H[y].child) = IF H[y].is_leaf THEN 0 ELSE Len(H[y].keys) + 1
      /\ H[y].parent = x
  <2>1. /\ x \in A /\ ~H[x].is_leaf /\ Len(H[x].keys) < MAX_DEGREE
        /\ p \in 1..(Len(H[x].keys) + 1)
        /\ y = H[x].child[p] /\ Len(H[y].keys) = MAX_DEGREE
        /\ z \in Nodes \ A
    BY DEF SplitSite
  <2>2. Len(H[x].child) = Len(H[x].keys) + 1 /\ Len(H[x].keys) \in Nat /\ A \subseteq Nodes
    BY <2>1, TreeFacts
  <2>3. p \in 1..Len(H[x].child)
    BY <2>1, <2>2
  <2>4. y \in A /\ H[y].parent = x /\ x # y
    <3>1. x \in A /\ y = H[x].child[p]
      BY <2>1
    <3>2. H[x].child[p] \in A /\ H[H[x].child[p]].parent = x /\ H[x].child[p] # x
      BY <2>3, <3>1, TreeChild
    <3> QED BY <3>1, <3>2
  <2>5. Len(H[y].child) = IF H[y].is_leaf THEN 0 ELSE Len(H[y].keys) + 1
    BY <2>4, TreeFacts
  <2> QED BY <2>1, <2>2, <2>3, <2>4, <2>5
<1>4. T \in Nat /\ T >= 2 /\ MIN_DEGREE = T - 1 /\ MAX_DEGREE = 2 * T - 1
  BY TAssumption DEF MIN_DEGREE, MAX_DEGREE
<1>5. T \in 1..Len(H[y].keys)
  BY <1>1, <1>4
<1>7. /\ Len(G[x].keys) = Len(H[x].keys) + 1
      /\ \A j \in 1..(Len(H[x].keys) + 1) : G[x].keys[j] =
            IF j < p THEN H[x].keys[j]
            ELSE IF j = p THEN H[y].keys[T] ELSE H[x].keys[j - 1]
      /\ Len(G[x].child) = Len(H[x].child) + 1
      /\ \A j \in 1..(Len(H[x].child) + 1) : G[x].child[j] =
            IF j < p + 1 THEN H[x].child[j]
            ELSE IF j = p + 1 THEN z ELSE H[x].child[j - 1]
  BY Zenon DEF SplitOf
<1>8. /\ Len(G[y].keys) = MIN_DEGREE
      /\ \A j \in 1..MIN_DEGREE : G[y].keys[j] = H[y].keys[j]
      /\ Len(G[y].child) = IF H[y].is_leaf THEN 0 ELSE T
      /\ ~H[y].is_leaf => \A j \in 1..T : G[y].child[j] = H[y].child[j]
      /\ Len(G[z].keys) = MIN_DEGREE
      /\ \A j \in 1..MIN_DEGREE : G[z].keys[j] = H[y].keys[T + j]
      /\ Len(G[z].child) = IF H[y].is_leaf THEN 0 ELSE T
      /\ ~H[y].is_leaf => \A j \in 1..T : G[z].child[j] = H[y].child[T + j]
  BY Zenon DEF SplitOf
<1>9. \A c \in Nodes \ {x, y, z} : G[c].keys = H[c].keys /\ G[c].child = H[c].child
  BY Zenon DEF SplitOf
<1>10. CutAt(H[y].keys, H[y].child, T, G[y].keys, G[y].child, G[z].keys, G[z].child)
  <2>1. /\ Len(H[y].keys) \in Nat /\ Len(H[y].child) \in Nat
        /\ Len(G[y].keys) = T - 1
        /\ Len(G[z].keys) = Len(H[y].keys) - T
        /\ Len(H[y].keys) - T = MIN_DEGREE
    <3>1. H[y] \in Node
      BY <1>1, TreeFacts
    <3>2. Len(H[y].child) \in Nat
      BY <3>1, NodeFacts
    <3>3. Len(H[y].keys) = 2 * T - 1 /\ Len(G[y].keys) = T - 1 /\ Len(G[z].keys) = T - 1
      BY <1>1, <1>4, <1>8
    <3>4. (2 * T - 1) - T = T - 1 /\ 2 * T - 1 \in Nat
      BY <1>4
    <3> QED BY <1>4, <3>2, <3>3, <3>4
  <2>2. /\ \A i \in 1..(T - 1) : G[y].keys[i] = H[y].keys[i]
        /\ \A i \in 1..(Len(H[y].keys) - T) : G[z].keys[i] = H[y].keys[T + i]
    BY <1>4, <1>8, <2>1
  <2>3. CASE H[y].is_leaf
    BY <1>1, <1>5, <1>8, <2>1, <2>2, <2>3 DEF CutAt
  <2>4. CASE ~H[y].is_leaf
    <3>1. /\ Len(H[y].child) = Len(H[y].keys) + 1
          /\ Len(G[y].child) = T /\ Len(H[y].child) - T = T /\ Len(G[z].child) = T
      <4>1. Len(G[y].child) = T /\ Len(G[z].child) = T
        BY <1>8, <2>4
      <4>2. Len(H[y].child) = Len(H[y].keys) + 1 /\ Len(H[y].keys) = 2 * T - 1
        BY <1>1, <1>4, <2>4
      <4>3. ((2 * T - 1) + 1) - T = T
        BY <1>4
      <4> QED BY <4>1, <4>2, <4>3
    <3>2. /\ \A i \in 1..T : G[y].child[i] = H[y].child[i]
          /\ \A i \in 1..(Len(H[y].child) - T) : G[z].child[i] = H[y].child[T + i]
      BY <1>8, <2>4, <3>1
    <3> QED BY <1>5, <2>1, <2>2, <3>1, <3>2 DEF CutAt
  <2> QED BY <2>3, <2>4
<1>11. Extended(H[x].keys, H[x].child, G[x].keys, G[x].child, p, H[y].keys[T], z)
  BY <1>1, <1>7, Zenon DEF Extended
<1> QED BY <1>9, <1>10, <1>11

(* The spans after a split: the middle key separates the halves. *)
SplitSpans(sp, y, z, m) ==
    [sp EXCEPT ![y] = Lower(sp[y], m), ![z] = Upper(sp[y], m)]

(* split_child keeps the order. *)
LEMMA SplitOrdered ==
    ASSUME NEW H, NEW A, NEW t, NEW ht, Tree(H, A, t, ht),
           NEW sp, NEW e, NEW w, Ordered(H, A, sp, e, w), e \notin A,
           NEW x, NEW p, NEW y, NEW z, SplitSite(H, A, x, p, y, z),
           NEW G, SplitOf(H, G, x, p, y, z),
           NEW m, m = Mark(H[y].keys, T),
           NEW sq, sq = SplitSpans(sp, y, z, m)
    PROVE  Ordered(G, A \union {z}, sq, e, w) /\ m \in Int
<1>1. /\ x \in A /\ y \in A /\ z \in Nodes \ A /\ y = H[x].child[p] /\ x # y
      /\ p \in 1..Len(H[x].child) /\ Len(H[x].child) = Len(H[x].keys) + 1
      /\ p \in 1..(Len(H[x].keys) + 1)
      /\ Len(H[x].keys) \in Nat /\ Len(H[y].keys) = MAX_DEGREE
      /\ x \in Nodes /\ y \in Nodes /\ A \subseteq Nodes
      /\ Len(H[y].child) = IF H[y].is_leaf THEN 0 ELSE Len(H[y].keys) + 1
      /\ H[y].parent = x
  <2>1. /\ x \in A /\ ~H[x].is_leaf /\ Len(H[x].keys) < MAX_DEGREE
        /\ p \in 1..(Len(H[x].keys) + 1)
        /\ y = H[x].child[p] /\ Len(H[y].keys) = MAX_DEGREE
        /\ z \in Nodes \ A
    BY DEF SplitSite
  <2>2. Len(H[x].child) = Len(H[x].keys) + 1 /\ Len(H[x].keys) \in Nat /\ A \subseteq Nodes
    BY <2>1, TreeFacts
  <2>3. p \in 1..Len(H[x].child)
    BY <2>1, <2>2
  <2>4. y \in A /\ H[y].parent = x /\ x # y
    <3>1. x \in A /\ y = H[x].child[p]
      BY <2>1
    <3>2. H[x].child[p] \in A /\ H[H[x].child[p]].parent = x /\ H[x].child[p] # x
      BY <2>3, <3>1, TreeChild
    <3> QED BY <3>1, <3>2
  <2>5. Len(H[y].child) = IF H[y].is_leaf THEN 0 ELSE Len(H[y].keys) + 1
    BY <2>4, TreeFacts
  <2> QED BY <2>1, <2>2, <2>3, <2>4, <2>5
<1>2. sp \in [Nodes -> SUBSET Int] /\ y # z /\ x # z
  BY <1>1 DEF Ordered
<1>3. /\ sq \in [Nodes -> SUBSET Int]
      /\ sq[y] = Lower(sp[y], m) /\ sq[z] = Upper(sp[y], m)
      /\ \A u \in Nodes \ {y, z} : sq[u] = sp[u]
  <2>1. Lower(sp[y], m) \in SUBSET Int /\ Upper(sp[y], m) \in SUBSET Int
    BY <1>1, <1>2 DEF Lower, Upper
  <2> QED BY <1>1, <1>2, <2>1 DEF SplitSpans
<1>4. T \in Nat /\ T >= 2 /\ MIN_DEGREE = T - 1 /\ MAX_DEGREE = 2 * T - 1
  BY TAssumption DEF MIN_DEGREE, MAX_DEGREE
<1>5. T \in 1..Len(H[y].keys) /\ m \in Int
  <2>1. T \in 1..Len(H[y].keys)
    BY <1>1, <1>4
  <2> QED BY <1>1, <2>1, MarkInt
<1>6. Fit(H[x].keys, H[x].child, sp[x], sp) /\ Fit(H[y].keys, H[y].child, sp[y], sp)
  <2>1. Under(x, A, ht, e) /\ Under(y, A, ht, e)
    BY DEF Under
  <2> QED BY <1>1, <2>1, FitOf
<1>9. \A c \in Nodes \ {x, y, z} : G[c].keys = H[c].keys /\ G[c].child = H[c].child
  BY Zenon DEF SplitOf
<1>10. CutAt(H[y].keys, H[y].child, T, G[y].keys, G[y].child, G[z].keys, G[z].child)
  BY SplitPieces
<1>11. /\ Fit(G[y].keys, G[y].child, sq[y], sp)
       /\ Fit(G[z].keys, G[z].child, sq[z], sp)
  <2>1. sp[y] \subseteq Int
    BY <1>1, <1>2
  <2> QED BY <1>3, <1>6, <1>10, <2>1, CutFit
<1>12. \A u \in A : u # x => \A j \in 1..Len(H[u].child) : H[u].child[j] \in Nodes \ {y, z}
  <2> SUFFICES ASSUME NEW u \in A, u # x, NEW j \in 1..Len(H[u].child)
               PROVE  H[u].child[j] \in Nodes \ {y, z}
    OBVIOUS
  <2>1. H[u].child[j] \in A /\ H[H[u].child[j]].parent = u
    BY TreeChild
  <2> QED BY <1>1, <2>1
<1>13. /\ Fit(G[y].keys, G[y].child, sq[y], sq)
       /\ Fit(G[z].keys, G[z].child, sq[z], sq)
  <2>1. \A j \in 1..Len(H[y].child) : H[y].child[j] \in Nodes \ {y, z}
    BY <1>1, <1>12
  <2>2. \A j \in 1..Len(G[y].child) : G[y].child[j] \in Nodes \ {y, z}
    <3>1. \A j \in 1..Len(G[y].child) : \E i \in 1..Len(H[y].child) :
             G[y].child[j] = H[y].child[i]
      BY <1>10, CutChildren
    <3> QED BY <2>1, <3>1
  <2>3. \A j \in 1..Len(G[z].child) : G[z].child[j] \in Nodes \ {y, z}
    <3>1. \A j \in 1..Len(G[z].child) : \E i \in 1..Len(H[y].child) :
             G[z].child[j] = H[y].child[i]
      BY <1>10, CutChildren
    <3> QED BY <2>1, <3>1
  <2>4. SameSpans(G[y].child, sp, sq) /\ SameSpans(G[z].child, sp, sq)
    BY <1>3, <2>2, <2>3 DEF SameSpans
  <2> QED BY <1>11, <2>4, FitSame
<1>14. Fit(G[x].keys, G[x].child, sq[x], sq)
  <2>1. Extended(H[x].keys, H[x].child, G[x].keys, G[x].child, p, H[y].keys[T], z)
    BY SplitPieces
  <2>2. m = 2 * H[y].keys[T].key /\ m \in sp[H[x].child[p]]
    <3>1. m \in sp[y]
      BY <1>5, <1>6 DEF Fit
    <3> QED BY <1>1, <3>1 DEF Mark
  <2>3. \A j \in 1..Len(H[x].child) : j # p => sq[H[x].child[j]] = sp[H[x].child[j]]
    <3> SUFFICES ASSUME NEW j \in 1..Len(H[x].child), j # p
                 PROVE  H[x].child[j] \in Nodes \ {y, z}
      BY <1>3
    <3>1. H[x].child[j] \in A
      BY <1>1, TreeChild
    <3>2. H[x].child[j] # y
      BY <1>1, TreeChildrenDiffer
    <3> QED BY <1>1, <3>1, <3>2
  <2>4. Halved(H[x].child, p, z, m, sp, sq)
    BY <1>1, <1>3, <2>2, <2>3 DEF Halved
  <2>5. Fit(G[x].keys, G[x].child, sp[x], sq)
    BY <1>5, <1>6, <2>1, <2>2, <2>4, ExtendFit
  <2> QED BY <1>1, <1>2, <1>3, <2>5
<1>15. Kept(H, G, A, A \union {z}, {x, y, z}, sp, sq)
  <2> SUFFICES ASSUME NEW u \in (A \union {z}) \ {x, y, z}
               PROVE  /\ u \in A
                      /\ G[u].keys = H[u].keys /\ G[u].child = H[u].child
                      /\ sq[u] = sp[u]
                      /\ SameSpans(H[u].child, sp, sq)
    BY DEF Kept
  <2>1. u \in A /\ u # x /\ u \in Nodes \ {x, y, z}
    BY <1>1
  <2> QED BY <1>3, <1>9, <1>12, <2>1 DEF SameSpans
<1>16. AllFit(G, {x, y, z}, sq)
  BY <1>13, <1>14 DEF AllFit
<1> QED BY <1>3, <1>5, <1>15, <1>16, OrderFrame

-----------------------------------------------------------------------------
(* Two children of x that are beside each other, around key q. *)
Beside(H, A, x, q, l, r) ==
    /\ x \in A /\ ~H[x].is_leaf /\ q \in 1..Len(H[x].keys)
    /\ l = H[x].child[q] /\ r = H[x].child[q + 1]

(* What the tree says of two such children. *)
LEMMA BesideFacts ==
    ASSUME NEW H, NEW A, NEW t, NEW ht, Tree(H, A, t, ht),
           NEW x, NEW q, NEW l, NEW r, Beside(H, A, x, q, l, r)
    PROVE  /\ x \in A /\ l \in A /\ r \in A /\ x # l /\ x # r /\ l # r
           /\ x \in Nodes /\ l \in Nodes /\ r \in Nodes
           /\ ht[l] = ht[x] - 1 /\ ht[r] = ht[x] - 1 /\ ht[x] \in Nat
           /\ q \in 1..Len(H[x].keys) /\ Len(H[x].keys) \in Nat
           /\ Len(H[x].child) = Len(H[x].keys) + 1
           /\ q \in 1..Len(H[x].child) /\ q + 1 \in 1..Len(H[x].child)
           /\ H[l].is_leaf <=> H[r].is_leaf
           /\ \A u \in A : \A j \in 1..Len(H[u].child) :
                 u # x => H[u].child[j] \in Nodes \ {l, r}
           /\ \A j \in 1..Len(H[x].child) :
                 H[x].child[j] \in Nodes /\ (j # q => H[x].child[j] # l)
                    /\ (j # q + 1 => H[x].child[j] # r)
<1>1. /\ x \in A /\ ~H[x].is_leaf /\ q \in 1..Len(H[x].keys)
      /\ l = H[x].child[q] /\ r = H[x].child[q + 1]
  BY DEF Beside
<1>2. Len(H[x].keys) \in Nat /\ Len(H[x].child) = Len(H[x].keys) + 1 /\ A \subseteq Nodes
  BY <1>1, TreeFacts
<1>3. q \in 1..Len(H[x].child) /\ q + 1 \in 1..Len(H[x].child) /\ q # q + 1
  BY <1>1, <1>2
<1>4. l \in A /\ x # l /\ ht[l] = ht[x] - 1 /\ ht[x] \in Nat /\ ht[l] \in Nat /\ H[l].parent = x
  BY <1>1, <1>3, TreeChild
<1>5. r \in A /\ x # r /\ ht[r] = ht[x] - 1 /\ ht[r] \in Nat /\ H[r].parent = x
  BY <1>1, <1>3, TreeChild
<1>6. l # r
  BY <1>1, <1>3, TreeChildrenDiffer
<1>7. H[l].is_leaf <=> H[r].is_leaf
  <2>1. (ht[l] = 0 <=> H[l].is_leaf) /\ (ht[r] = 0 <=> H[r].is_leaf)
    BY <1>4, <1>5, TreeFacts
  <2> QED BY <1>4, <1>5, <2>1
<1>8. ASSUME NEW u \in A, NEW j \in 1..Len(H[u].child), u # x
      PROVE  H[u].child[j] \in Nodes \ {l, r}
  <2>1. H[u].child[j] \in A /\ H[H[u].child[j]].parent = u
    BY TreeChild
  <2> QED BY <1>2, <1>4, <1>5, <1>8, <2>1
<1>9. ASSUME NEW j \in 1..Len(H[x].child)
      PROVE  H[x].child[j] \in Nodes /\ (j # q => H[x].child[j] # l)
                /\ (j # q + 1 => H[x].child[j] # r)
  <2>1. H[x].child[j] \in A
    BY <1>1, TreeChild
  <2>2. j # q => H[x].child[j] # l
    BY <1>1, <1>3, TreeChildrenDiffer
  <2>3. j # q + 1 => H[x].child[j] # r
    BY <1>1, <1>3, TreeChildrenDiffer
  <2> QED BY <1>2, <2>1, <2>2, <2>3
<1> QED BY <1>1, <1>2, <1>3, <1>4, <1>5, <1>6, <1>7, <1>8, <1>9

(* What is known of the node x whose children l and r are joined. *)
LEMMA BesideFit ==
    ASSUME NEW H, NEW A, NEW t, NEW ht, Tree(H, A, t, ht),
           NEW sp, NEW e, NEW w, Ordered(H, A, sp, e, w),
           NEW x, NEW q, NEW l, NEW r, Beside(H, A, x, q, l, r), Under(x, A, ht, e)
    PROVE  /\ Fit(H[x].keys, H[x].child, sp[x], sp)
           /\ Fit(H[l].keys, H[l].child, sp[l], sp)
           /\ Fit(H[r].keys, H[r].child, sp[r], sp)
           /\ sp \in [Nodes -> SUBSET Int]
           /\ sp[l] \subseteq Int /\ sp[r] \subseteq Int /\ sp[x] \subseteq Int
           /\ Mark(H[x].keys, q) \in Int
           /\ \A v \in sp[l] : v < Mark(H[x].keys, q)
           /\ \A v \in sp[r] : Mark(H[x].keys, q) < v
<1>1. /\ x \in A /\ l \in A /\ r \in A
      /\ x \in Nodes /\ l \in Nodes /\ r \in Nodes
      /\ ht[l] = ht[x] - 1 /\ ht[r] = ht[x] - 1 /\ ht[x] \in Nat
      /\ q \in 1..Len(H[x].keys)
      /\ q \in 1..Len(H[x].child) /\ q + 1 \in 1..Len(H[x].child)
  BY BesideFacts
<1>2. sp \in [Nodes -> SUBSET Int]
  BY DEF Ordered
<1>3. Under(l, A, ht, e) /\ Under(r, A, ht, e)
  <2>1. e \in A => ht[e] \in Nat
    BY TreeFacts
  <2> QED BY <1>1, <2>1 DEF Under
<1>4. Fit(H[x].keys, H[x].child, sp[x], sp)
  BY <1>1, FitOf
<1>5. Fit(H[l].keys, H[l].child, sp[l], sp)
  BY <1>1, <1>3, FitOf
<1>6. Fit(H[r].keys, H[r].child, sp[r], sp)
  BY <1>1, <1>3, FitOf
<1>7. Mark(H[x].keys, q) \in Int
  BY <1>1, MarkInt
<1>8. l = H[x].child[q] /\ r = H[x].child[q + 1]
  BY DEF Beside
<1>9. \A v \in sp[l] : v < Mark(H[x].keys, q)
  <2>1. q <= q
    BY <1>1
  <2> QED BY <1>1, <1>4, <1>8, <2>1 DEF Fit
<1>10. \A v \in sp[r] : Mark(H[x].keys, q) < v
  <2>1. q < q + 1
    BY <1>1
  <2> QED BY <1>1, <1>4, <1>8, <2>1 DEF Fit
<1> QED BY <1>1, <1>2, <1>4, <1>5, <1>6, <1>7, <1>9, <1>10

(* The keys lk, an item and the keys rk joined, and the children.  A leaf  *)
(* has none.                                                               *)
JoinedOf(ks, cs, lk, lc, it, rk, rc) ==
    /\ Len(lk) \in Nat /\ Len(rk) \in Nat
    /\ Len(ks) = Len(lk) + 1 + Len(rk)
    /\ \A j \in 1..Len(lk) : ks[j] = lk[j]
    /\ ks[Len(lk) + 1] = it
    /\ \A j \in 1..Len(rk) : ks[Len(lk) + 1 + j] = rk[j]
    /\ Len(cs) = Len(lc) + Len(rc)
    /\ \A j \in 1..Len(lc) : cs[j] = lc[j]
    /\ \A j \in 1..Len(rc) : cs[Len(lc) + j] = rc[j]
    /\ \/ Len(lc) = 0 /\ Len(rc) = 0
       \/ Len(lc) = Len(lk) + 1 /\ Len(rc) = Len(rk) + 1

(* Cutting what was joined at the key in the middle gives the parts back. *)
LEMMA JoinedCut ==
    ASSUME NEW ks, NEW cs, NEW lk, NEW lc, NEW it, NEW rk, NEW rc,
           JoinedOf(ks, cs, lk, lc, it, rk, rc)
    PROVE  CutAt(ks, cs, Len(lk) + 1, lk, lc, rk, rc)
<1>1. /\ Len(lk) \in Nat /\ Len(rk) \in Nat
      /\ Len(ks) = Len(lk) + 1 + Len(rk)
      /\ \A j \in 1..Len(lk) : ks[j] = lk[j]
      /\ \A j \in 1..Len(rk) : ks[Len(lk) + 1 + j] = rk[j]
  BY DEF JoinedOf
<1>2. /\ Len(cs) = Len(lc) + Len(rc)
      /\ \A j \in 1..Len(lc) : cs[j] = lc[j]
      /\ \A j \in 1..Len(rc) : cs[Len(lc) + j] = rc[j]
      /\ \/ Len(lc) = 0 /\ Len(rc) = 0
         \/ Len(lc) = Len(lk) + 1 /\ Len(rc) = Len(rk) + 1
  BY DEF JoinedOf
<1> DEFINE a == Len(lk) + 1
<1>3. /\ Len(ks) \in Nat /\ Len(cs) \in Nat /\ a \in 1..Len(ks)
      /\ Len(lk) = a - 1 /\ Len(rk) = Len(ks) - a
  BY <1>1, <1>2
<1>4. /\ \A i \in 1..(a - 1) : lk[i] = ks[i]
      /\ \A i \in 1..(Len(ks) - a) : rk[i] = ks[a + i]
  BY <1>1, <1>3
<1>5. \/ Len(cs) = 0 /\ Len(lc) = 0 /\ Len(rc) = 0
      \/ /\ Len(cs) = Len(ks) + 1
         /\ Len(lc) = a /\ \A i \in 1..a : lc[i] = cs[i]
         /\ Len(rc) = Len(cs) - a /\ \A i \in 1..(Len(cs) - a) : rc[i] = cs[a + i]
  <2>1. CASE Len(lc) = 0 /\ Len(rc) = 0
    BY <1>2, <2>1
  <2>2. CASE Len(lc) = Len(lk) + 1 /\ Len(rc) = Len(rk) + 1
    <3>1. Len(cs) = Len(ks) + 1 /\ Len(lc) = a /\ Len(rc) = Len(cs) - a
      BY <1>1, <1>2, <2>2
    <3> QED BY <1>2, <3>1
  <2> QED BY <1>2, <2>1, <2>2
<1> HIDE DEF a
<1>6. CutAt(ks, cs, a, lk, lc, rk, rc)
  BY <1>3, <1>4, <1>5, Zenon DEF CutAt
<1> QED BY <1>6 DEF a

(* How merge puts the keys and the children together. *)
LEMMA MergePieces ==
    ASSUME NEW H, NEW A, NEW t, NEW ht, Tree(H, A, t, ht),
           NEW x, NEW q, NEW l, NEW r, Beside(H, A, x, q, l, r),
           NEW G, MergeOf(H, G, x, q, l, r)
    PROVE  /\ CutAt(G[l].keys, G[l].child, Len(H[l].keys) + 1,
                    H[l].keys, H[l].child, H[r].keys, H[r].child)
           /\ G[l].keys[Len(H[l].keys) + 1] = H[x].keys[q]
           /\ Extended(G[x].keys, G[x].child, H[x].keys, H[x].child, q, H[x].keys[q], r)
           /\ \A c \in Nodes \ {x, l, r} : G[c].keys = H[c].keys /\ G[c].child = H[c].child
<1>1. /\ x \in A /\ l \in A /\ r \in A /\ x # l /\ x # r /\ l # r
      /\ x \in Nodes /\ l \in Nodes /\ r \in Nodes
      /\ q \in 1..Len(H[x].keys) /\ Len(H[x].keys) \in Nat
      /\ Len(H[x].child) = Len(H[x].keys) + 1
      /\ q \in 1..Len(H[x].child) /\ q + 1 \in 1..Len(H[x].child)
      /\ H[l].is_leaf <=> H[r].is_leaf
  BY BesideFacts
<1>3. l = H[x].child[q] /\ r = H[x].child[q + 1]
  BY DEF Beside
<1>6. /\ Len(G[x].keys) = Len(H[x].keys) - 1
      /\ \A j \in 1..(Len(H[x].keys) - 1) : G[x].keys[j] =
            IF j < q THEN H[x].keys[j] ELSE H[x].keys[j + 1]
      /\ Len(G[x].child) = Len(H[x].child) - 1
      /\ \A j \in 1..(Len(H[x].child) - 1) : G[x].child[j] =
            IF j < q + 1 THEN H[x].child[j] ELSE H[x].child[j + 1]
  BY Zenon DEF MergeOf
<1>7. /\ Len(G[l].keys) = Len(H[l].keys) + 1 + Len(H[r].keys)
      /\ \A j \in 1..Len(H[l].keys) : G[l].keys[j] = H[l].keys[j]
      /\ G[l].keys[Len(H[l].keys) + 1] = H[x].keys[q]
      /\ \A j \in 1..Len(H[r].keys) :
            G[l].keys[Len(H[l].keys) + 1 + j] = H[r].keys[j]
      /\ Len(G[l].child) = Len(H[l].child) + Len(H[r].child)
      /\ \A j \in 1..Len(H[l].child) : G[l].child[j] = H[l].child[j]
      /\ \A j \in 1..Len(H[r].child) :
            G[l].child[Len(H[l].child) + j] = H[r].child[j]
  BY Zenon DEF MergeOf
<1>8. \A c \in Nodes \ {x, l, r} : G[c].keys = H[c].keys /\ G[c].child = H[c].child
  BY Zenon DEF MergeOf
<1>9. /\ Len(H[l].keys) \in Nat /\ Len(H[r].keys) \in Nat
      /\ Len(H[l].child) = IF H[l].is_leaf THEN 0 ELSE Len(H[l].keys) + 1
      /\ Len(H[r].child) = IF H[r].is_leaf THEN 0 ELSE Len(H[r].keys) + 1
  BY <1>1, TreeFacts
<1>10. CutAt(G[l].keys, G[l].child, Len(H[l].keys) + 1,
             H[l].keys, H[l].child, H[r].keys, H[r].child)
  <2>1. \/ Len(H[l].child) = 0 /\ Len(H[r].child) = 0
        \/ Len(H[l].child) = Len(H[l].keys) + 1 /\ Len(H[r].child) = Len(H[r].keys) + 1
    BY <1>1, <1>9
  <2>2. JoinedOf(G[l].keys, G[l].child, H[l].keys, H[l].child, H[x].keys[q],
                 H[r].keys, H[r].child)
    BY <1>7, <1>9, <2>1, Zenon DEF JoinedOf
  <2> QED BY <2>2, JoinedCut
<1>12. Extended(G[x].keys, G[x].child, H[x].keys, H[x].child, q, H[x].keys[q], r)
  <2>1. /\ Len(G[x].keys) \in Nat /\ Len(G[x].child) = Len(G[x].keys) + 1
        /\ q \in 1..(Len(G[x].keys) + 1)
        /\ Len(H[x].keys) = Len(G[x].keys) + 1
        /\ Len(H[x].child) = Len(G[x].child) + 1
    BY <1>1, <1>6
  <2>2. ASSUME NEW j \in 1..(Len(G[x].keys) + 1)
        PROVE  H[x].keys[j] = IF j < q THEN G[x].keys[j]
                              ELSE IF j = q THEN H[x].keys[q] ELSE G[x].keys[j - 1]
    <3>1. CASE j < q
      <4>1. j \in 1..(Len(H[x].keys) - 1)
        BY <1>1, <2>1, <3>1
      <4> QED BY <1>6, <3>1, <4>1
    <3>2. CASE q < j
      <4>1. j - 1 \in 1..(Len(H[x].keys) - 1) /\ (j - 1) + 1 = j /\ ~(j - 1 < q)
        BY <1>1, <2>1, <3>2
      <4>2. G[x].keys[j - 1] = H[x].keys[j]
        BY <1>6, <4>1
      <4>3. ~(j < q) /\ j # q
        BY <1>1, <3>2
      <4> QED BY <4>2, <4>3
    <3>3. CASE j = q
      BY <1>1, <3>3
    <3> QED BY <1>1, <3>1, <3>2, <3>3
  <2>3. ASSUME NEW j \in 1..(Len(G[x].child) + 1)
        PROVE  H[x].child[j] = IF j < q + 1 THEN G[x].child[j]
                               ELSE IF j = q + 1 THEN r ELSE G[x].child[j - 1]
    <3>1. CASE j < q + 1
      <4>1. j \in 1..(Len(H[x].child) - 1)
        BY <1>1, <2>1, <3>1
      <4> QED BY <1>6, <3>1, <4>1
    <3>2. CASE q + 1 < j
      <4>1. j - 1 \in 1..(Len(H[x].child) - 1) /\ (j - 1) + 1 = j /\ ~(j - 1 < q + 1)
        BY <1>1, <2>1, <3>2
      <4>2. G[x].child[j - 1] = H[x].child[j]
        BY <1>6, <4>1
      <4>3. ~(j < q + 1) /\ j # q + 1
        BY <1>1, <3>2
      <4> QED BY <4>2, <4>3
    <3>3. CASE j = q + 1
      BY <1>1, <1>3, <3>3
    <3> QED BY <1>1, <3>1, <3>2, <3>3
  <2> QED BY <2>1, <2>2, <2>3 DEF Extended
<1> QED BY <1>7, <1>8, <1>10, <1>12

(* The spans after a merge: the node that stays takes both, and the key. *)
MergeSpans(sp, l, m, r) == [sp EXCEPT ![l] = sp[l] \union {m} \union sp[r]]

(* merge keeps the order. *)
LEMMA MergeOrdered ==
    ASSUME NEW H, NEW A, NEW t, NEW ht, Tree(H, A, t, ht),
           NEW sp, NEW e, NEW w, Ordered(H, A, sp, e, w),
           NEW x, NEW q, NEW l, NEW r, Beside(H, A, x, q, l, r), Under(x, A, ht, e),
           NEW G, MergeOf(H, G, x, q, l, r),
           NEW m, m = Mark(H[x].keys, q),
           NEW sq, sq = MergeSpans(sp, l, m, r)
    PROVE  Ordered(G, A \ {r}, sq, e, w)
<1>1. /\ x \in A /\ l \in A /\ r \in A /\ x # l /\ x # r /\ l # r
      /\ x \in Nodes /\ l \in Nodes /\ r \in Nodes
      /\ q \in 1..Len(H[x].keys) /\ Len(H[x].keys) \in Nat
      /\ Len(H[x].child) = Len(H[x].keys) + 1
      /\ q \in 1..Len(H[x].child) /\ q + 1 \in 1..Len(H[x].child)
      /\ H[l].is_leaf <=> H[r].is_leaf
  BY BesideFacts
<1>2. /\ \A u \in A : \A j \in 1..Len(H[u].child) :
            u # x => H[u].child[j] \in Nodes \ {l, r}
      /\ \A j \in 1..Len(H[x].child) :
            H[x].child[j] \in Nodes /\ (j # q => H[x].child[j] # l)
               /\ (j # q + 1 => H[x].child[j] # r)
  BY BesideFacts
<1>3. l = H[x].child[q] /\ r = H[x].child[q + 1]
  BY DEF Beside
<1>4. /\ Fit(H[x].keys, H[x].child, sp[x], sp)
      /\ Fit(H[l].keys, H[l].child, sp[l], sp)
      /\ Fit(H[r].keys, H[r].child, sp[r], sp)
      /\ sp \in [Nodes -> SUBSET Int]
      /\ sp[l] \subseteq Int /\ sp[r] \subseteq Int /\ m \in Int
      /\ \A v \in sp[l] : v < m
      /\ \A v \in sp[r] : m < v
  BY BesideFit
<1>5. /\ sq \in [Nodes -> SUBSET Int]
      /\ sq[l] = sp[l] \union {m} \union sp[r]
      /\ \A u \in Nodes \ {l} : sq[u] = sp[u]
  BY <1>1, <1>4 DEF MergeSpans
<1>6. /\ Len(G[x].keys) = Len(H[x].keys) - 1
      /\ \A j \in 1..(Len(H[x].keys) - 1) : G[x].keys[j] =
            IF j < q THEN H[x].keys[j] ELSE H[x].keys[j + 1]
      /\ Len(G[x].child) = Len(H[x].child) - 1
      /\ \A j \in 1..(Len(H[x].child) - 1) : G[x].child[j] =
            IF j < q + 1 THEN H[x].child[j] ELSE H[x].child[j + 1]
  BY Zenon DEF MergeOf
<1>7. /\ Len(G[l].keys) = Len(H[l].keys) + 1 + Len(H[r].keys)
      /\ \A j \in 1..Len(H[l].keys) : G[l].keys[j] = H[l].keys[j]
      /\ G[l].keys[Len(H[l].keys) + 1] = H[x].keys[q]
      /\ \A j \in 1..Len(H[r].keys) :
            G[l].keys[Len(H[l].keys) + 1 + j] = H[r].keys[j]
      /\ Len(G[l].child) = Len(H[l].child) + Len(H[r].child)
      /\ \A j \in 1..Len(H[l].child) : G[l].child[j] = H[l].child[j]
      /\ \A j \in 1..Len(H[r].child) :
            G[l].child[Len(H[l].child) + j] = H[r].child[j]
  BY Zenon DEF MergeOf
<1>8. \A c \in Nodes \ {x, l, r} : G[c].keys = H[c].keys /\ G[c].child = H[c].child
  BY Zenon DEF MergeOf
<1>9. /\ Len(H[l].keys) \in Nat /\ Len(H[r].keys) \in Nat
      /\ Len(H[l].child) = IF H[l].is_leaf THEN 0 ELSE Len(H[l].keys) + 1
      /\ Len(H[r].child) = IF H[r].is_leaf THEN 0 ELSE Len(H[r].keys) + 1
  BY <1>1, TreeFacts
<1>10. CutAt(G[l].keys, G[l].child, Len(H[l].keys) + 1,
             H[l].keys, H[l].child, H[r].keys, H[r].child)
  BY MergePieces
<1>11. Fit(G[l].keys, G[l].child, sq[l], sq)
  <2>1. Mark(G[l].keys, Len(H[l].keys) + 1) = m
    BY <1>7 DEF Mark
  <2>2. Fit(G[l].keys, G[l].child, sp[l] \union {m} \union sp[r], sp)
    BY <1>4, <1>10, <2>1, JoinFit
  <2>3. SameSpans(G[l].child, sp, sq)
    <3> SUFFICES ASSUME NEW j \in 1..Len(G[l].child)
                 PROVE  G[l].child[j] \in Nodes \ {l}
      BY <1>5 DEF SameSpans
    <3>1. CASE j \in 1..Len(H[l].child)
      <4>1. G[l].child[j] = H[l].child[j]
        BY <1>7, <3>1
      <4>2. H[l].child[j] \in Nodes \ {l, r}
        BY <1>1, <1>2, <3>1
      <4> QED BY <4>1, <4>2
    <3>2. CASE j \notin 1..Len(H[l].child)
      <4>1. Len(H[l].child) \in Nat /\ Len(H[r].child) \in Nat
        BY <1>9
      <4>2. j - Len(H[l].child) \in 1..Len(H[r].child)
            /\ Len(H[l].child) + (j - Len(H[l].child)) = j
        <5>1. j \in 1..(Len(H[l].child) + Len(H[r].child))
          BY <1>7
        <5>2. \A a, b \in Nat : \A i \in 1..(a + b) :
                 i \notin 1..a => i - a \in 1..b /\ a + (i - a) = i
          OBVIOUS
        <5> QED BY <3>2, <4>1, <5>1, <5>2
      <4>3. G[l].child[j] = H[r].child[j - Len(H[l].child)]
        BY <1>7, <4>2
      <4> QED BY <1>1, <1>2, <4>2, <4>3
    <3> QED BY <3>1, <3>2
  <2> QED BY <1>5, <2>2, <2>3, FitSame
<1>12. Extended(G[x].keys, G[x].child, H[x].keys, H[x].child, q, H[x].keys[q], r)
  BY MergePieces
<1>13. Fit(G[x].keys, G[x].child, sq[x], sq)
  <2>1. Joined(G[x].child, q, r, m, sp, sq)
    <3>1. G[x].child[q] = l
      BY <1>1, <1>3, <1>6
    <3>2. ASSUME NEW j \in 1..Len(G[x].child), j # q
          PROVE  G[x].child[j] \in Nodes \ {l}
      <4>1. CASE j < q + 1
        <5>1. j \in 1..Len(H[x].child) /\ G[x].child[j] = H[x].child[j]
          BY <1>1, <1>6, <4>1
        <5> QED BY <1>2, <3>2, <5>1
      <4>2. CASE ~(j < q + 1)
        <5>1. j + 1 \in 1..Len(H[x].child) /\ G[x].child[j] = H[x].child[j + 1] /\ j + 1 # q
          BY <1>1, <1>6, <4>2
        <5> QED BY <1>2, <5>1
      <4> QED BY <4>1, <4>2
    <3> QED BY <1>5, <3>1, <3>2 DEF Joined
  <2>2. m = 2 * H[x].keys[q].key
    BY DEF Mark
  <2>3. Fit(G[x].keys, G[x].child, sp[x], sq)
    BY <1>4, <1>12, <2>1, <2>2, ContractFit
  <2> QED BY <1>1, <1>5, <2>3
<1>14. Kept(H, G, A, A \ {r}, {x, l}, sp, sq)
  <2> SUFFICES ASSUME NEW u \in (A \ {r}) \ {x, l}
               PROVE  /\ u \in A
                      /\ G[u].keys = H[u].keys /\ G[u].child = H[u].child
                      /\ sq[u] = sp[u]
                      /\ SameSpans(H[u].child, sp, sq)
    BY DEF Kept
  <2>1. u \in A /\ u # x /\ u \in Nodes \ {x, l, r}
    BY TreeFacts
  <2> QED BY <1>2, <1>5, <1>8, <2>1 DEF SameSpans
<1>15. AllFit(G, {x, l}, sq)
  BY <1>11, <1>13 DEF AllFit
<1> QED BY <1>5, <1>14, <1>15, OrderFrame

-----------------------------------------------------------------------------
(* The left node gives its last key and child to the right one, over it. *)
GivesRight(lk, lc, it, rk, rc, lk2, lc2, rk2, rc2) ==
    /\ Len(lk) \in Nat /\ Len(rk) \in Nat /\ Len(lk) >= 1
    /\ Len(lk2) = Len(lk) - 1 /\ \A j \in 1..(Len(lk) - 1) : lk2[j] = lk[j]
    /\ Len(rk2) = Len(rk) + 1 /\ rk2[1] = it
    /\ \A j \in 1..Len(rk) : rk2[j + 1] = rk[j]
    /\ \/ Len(lc) = 0 /\ Len(rc) = 0 /\ Len(lc2) = 0 /\ Len(rc2) = 0
       \/ /\ Len(lc) = Len(lk) + 1 /\ Len(rc) = Len(rk) + 1
          /\ Len(lc2) = Len(lc) - 1 /\ \A j \in 1..(Len(lc) - 1) : lc2[j] = lc[j]
          /\ Len(rc2) = Len(rc) + 1 /\ rc2[1] = lc[Len(lc)]
          /\ \A j \in 1..Len(rc) : rc2[j + 1] = rc[j]

(* What the left node gives away is the key before the middle: the same     *)
(* keys, cut one earlier.                                                   *)
LEMMA RecutRight ==
    ASSUME NEW ks, NEW cs, NEW lk, NEW lc, NEW it, NEW rk, NEW rc,
           JoinedOf(ks, cs, lk, lc, it, rk, rc),
           NEW lk2, NEW lc2, NEW rk2, NEW rc2,
           GivesRight(lk, lc, it, rk, rc, lk2, lc2, rk2, rc2)
    PROVE  /\ CutAt(ks, cs, Len(lk), lk2, lc2, rk2, rc2)
           /\ ks[Len(lk)] = lk[Len(lk)]
<1>1. /\ Len(lk) \in Nat /\ Len(rk) \in Nat
      /\ Len(ks) = Len(lk) + 1 + Len(rk)
      /\ \A j \in 1..Len(lk) : ks[j] = lk[j]
      /\ ks[Len(lk) + 1] = it
      /\ \A j \in 1..Len(rk) : ks[Len(lk) + 1 + j] = rk[j]
  BY DEF JoinedOf
<1>2. /\ Len(cs) = Len(lc) + Len(rc)
      /\ \A j \in 1..Len(lc) : cs[j] = lc[j]
      /\ \A j \in 1..Len(rc) : cs[Len(lc) + j] = rc[j]
  BY DEF JoinedOf
<1>3. /\ Len(lk) >= 1
      /\ Len(lk2) = Len(lk) - 1 /\ \A j \in 1..(Len(lk) - 1) : lk2[j] = lk[j]
      /\ Len(rk2) = Len(rk) + 1 /\ rk2[1] = it
      /\ \A j \in 1..Len(rk) : rk2[j + 1] = rk[j]
  BY DEF GivesRight
<1>4. \/ Len(lc) = 0 /\ Len(rc) = 0 /\ Len(lc2) = 0 /\ Len(rc2) = 0
      \/ /\ Len(lc) = Len(lk) + 1 /\ Len(rc) = Len(rk) + 1
         /\ Len(lc2) = Len(lc) - 1 /\ \A j \in 1..(Len(lc) - 1) : lc2[j] = lc[j]
         /\ Len(rc2) = Len(rc) + 1 /\ rc2[1] = lc[Len(lc)]
         /\ \A j \in 1..Len(rc) : rc2[j + 1] = rc[j]
  BY DEF GivesRight
<1> DEFINE a == Len(lk)
<1>5. a \in Nat /\ a >= 1 /\ Len(lk) = a
  BY <1>1, <1>3
<1> HIDE DEF a
<1>6. /\ Len(ks) \in Nat /\ a \in 1..Len(ks) /\ Len(cs) \in Nat
      /\ Len(lk2) = a - 1 /\ Len(rk2) = Len(ks) - a
      /\ Len(ks) - a = Len(rk) + 1
  BY <1>1, <1>2, <1>3, <1>4, <1>5
<1>7. \A i \in 1..(a - 1) : lk2[i] = ks[i]
  BY <1>1, <1>3, <1>5
<1>8. ASSUME NEW i \in 1..(Len(ks) - a) PROVE rk2[i] = ks[a + i]
  <2>1. CASE i = 1
    BY <1>1, <1>3, <1>5, <2>1
  <2>2. CASE i # 1
    <3>1. i - 1 \in 1..Len(rk) /\ (i - 1) + 1 = i /\ a + 1 + (i - 1) = a + i
      BY <1>1, <1>5, <1>6, <2>2
    <3>2. rk2[i] = rk[i - 1]
      BY <1>3, <3>1
    <3>3. ks[a + i] = rk[i - 1]
      BY <1>1, <1>5, <3>1
    <3> QED BY <3>2, <3>3
  <2> QED BY <2>1, <2>2
<1>9. \/ Len(cs) = 0 /\ Len(lc2) = 0 /\ Len(rc2) = 0
      \/ /\ Len(cs) = Len(ks) + 1
         /\ Len(lc2) = a /\ \A i \in 1..a : lc2[i] = cs[i]
         /\ Len(rc2) = Len(cs) - a /\ \A i \in 1..(Len(cs) - a) : rc2[i] = cs[a + i]
  <2>1. CASE Len(lc) = 0 /\ Len(rc) = 0 /\ Len(lc2) = 0 /\ Len(rc2) = 0
    BY <1>2, <2>1
  <2>2. CASE /\ Len(lc) = Len(lk) + 1 /\ Len(rc) = Len(rk) + 1
             /\ Len(lc2) = Len(lc) - 1 /\ \A j \in 1..(Len(lc) - 1) : lc2[j] = lc[j]
             /\ Len(rc2) = Len(rc) + 1 /\ rc2[1] = lc[Len(lc)]
             /\ \A j \in 1..Len(rc) : rc2[j + 1] = rc[j]
    <3>1. /\ Len(cs) = Len(ks) + 1 /\ Len(lc2) = a /\ Len(rc2) = Len(cs) - a
          /\ Len(lc) = a + 1 /\ Len(cs) - a = Len(rc) + 1 /\ Len(rc) \in Nat
      BY <1>1, <1>2, <1>5, <2>2
    <3>2. \A i \in 1..a : lc2[i] = cs[i]
      BY <1>2, <1>5, <2>2, <3>1
    <3>3. ASSUME NEW i \in 1..(Len(cs) - a) PROVE rc2[i] = cs[a + i]
      <4>1. CASE i = 1
        BY <1>2, <1>5, <2>2, <3>1, <4>1
      <4>2. CASE i # 1
        <5>1. i - 1 \in 1..Len(rc) /\ (i - 1) + 1 = i /\ Len(lc) + (i - 1) = a + i
          BY <1>5, <3>1, <4>2
        <5>2. rc2[i] = rc[i - 1]
          BY <2>2, <5>1
        <5>3. cs[a + i] = rc[i - 1]
          BY <1>2, <5>1
        <5> QED BY <5>2, <5>3
      <4> QED BY <4>1, <4>2
    <3> QED BY <3>1, <3>2, <3>3
  <2> QED BY <1>4, <2>1, <2>2
<1>10. CutAt(ks, cs, a, lk2, lc2, rk2, rc2)
  BY <1>6, <1>7, <1>8, <1>9, Zenon DEF CutAt
<1>11. ks[Len(lk)] = lk[Len(lk)]
  BY <1>1, <1>3
<1> QED BY <1>10, <1>11 DEF a

(* The right node gives its first key and child to the left one, over it. *)
GivesLeft(lk, lc, it, rk, rc, lk2, lc2, rk2, rc2) ==
    /\ Len(lk) \in Nat /\ Len(rk) \in Nat /\ Len(rk) >= 1
    /\ Len(lk2) = Len(lk) + 1 /\ \A j \in 1..Len(lk) : lk2[j] = lk[j]
    /\ lk2[Len(lk) + 1] = it
    /\ Len(rk2) = Len(rk) - 1 /\ \A j \in 1..(Len(rk) - 1) : rk2[j] = rk[j + 1]
    /\ \/ Len(lc) = 0 /\ Len(rc) = 0 /\ Len(lc2) = 0 /\ Len(rc2) = 0
       \/ /\ Len(lc) = Len(lk) + 1 /\ Len(rc) = Len(rk) + 1
          /\ Len(lc2) = Len(lc) + 1 /\ \A j \in 1..Len(lc) : lc2[j] = lc[j]
          /\ lc2[Len(lc) + 1] = rc[1]
          /\ Len(rc2) = Len(rc) - 1 /\ \A j \in 1..(Len(rc) - 1) : rc2[j] = rc[j + 1]

(* What the right node gives away is the key behind the middle: the same    *)
(* keys, cut one later.                                                     *)
LEMMA RecutLeft ==
    ASSUME NEW ks, NEW cs, NEW lk, NEW lc, NEW it, NEW rk, NEW rc,
           JoinedOf(ks, cs, lk, lc, it, rk, rc),
           NEW lk2, NEW lc2, NEW rk2, NEW rc2,
           GivesLeft(lk, lc, it, rk, rc, lk2, lc2, rk2, rc2)
    PROVE  /\ CutAt(ks, cs, Len(lk) + 2, lk2, lc2, rk2, rc2)
           /\ ks[Len(lk) + 2] = rk[1]
<1>1. /\ Len(lk) \in Nat /\ Len(rk) \in Nat
      /\ Len(ks) = Len(lk) + 1 + Len(rk)
      /\ \A j \in 1..Len(lk) : ks[j] = lk[j]
      /\ ks[Len(lk) + 1] = it
      /\ \A j \in 1..Len(rk) : ks[Len(lk) + 1 + j] = rk[j]
  BY DEF JoinedOf
<1>2. /\ Len(cs) = Len(lc) + Len(rc)
      /\ \A j \in 1..Len(lc) : cs[j] = lc[j]
      /\ \A j \in 1..Len(rc) : cs[Len(lc) + j] = rc[j]
  BY DEF JoinedOf
<1>3. /\ Len(rk) >= 1
      /\ Len(lk2) = Len(lk) + 1 /\ \A j \in 1..Len(lk) : lk2[j] = lk[j]
      /\ lk2[Len(lk) + 1] = it
      /\ Len(rk2) = Len(rk) - 1 /\ \A j \in 1..(Len(rk) - 1) : rk2[j] = rk[j + 1]
  BY DEF GivesLeft
<1>4. \/ Len(lc) = 0 /\ Len(rc) = 0 /\ Len(lc2) = 0 /\ Len(rc2) = 0
      \/ /\ Len(lc) = Len(lk) + 1 /\ Len(rc) = Len(rk) + 1
         /\ Len(lc2) = Len(lc) + 1 /\ \A j \in 1..Len(lc) : lc2[j] = lc[j]
         /\ lc2[Len(lc) + 1] = rc[1]
         /\ Len(rc2) = Len(rc) - 1 /\ \A j \in 1..(Len(rc) - 1) : rc2[j] = rc[j + 1]
  BY DEF GivesLeft
<1> DEFINE a == Len(lk) + 2
<1>5. a \in Nat /\ a >= 2 /\ Len(lk) = a - 2 /\ Len(lk) + 1 = a - 1
  BY <1>1
<1> HIDE DEF a
<1>6. /\ Len(ks) \in Nat /\ a \in 1..Len(ks) /\ Len(cs) \in Nat
      /\ Len(lk2) = a - 1 /\ Len(rk2) = Len(ks) - a
      /\ Len(ks) - a = Len(rk) - 1
  BY <1>1, <1>2, <1>3, <1>4, <1>5
<1>7. ASSUME NEW i \in 1..(a - 1) PROVE lk2[i] = ks[i]
  <2>1. CASE i = Len(lk) + 1
    BY <1>1, <1>3, <2>1
  <2>2. CASE i # Len(lk) + 1
    <3>1. i \in 1..Len(lk)
      BY <1>1, <1>5, <2>2
    <3> QED BY <1>1, <1>3, <3>1
  <2> QED BY <2>1, <2>2
<1>8. ASSUME NEW i \in 1..(Len(ks) - a) PROVE rk2[i] = ks[a + i]
  <2>1. /\ i \in 1..(Len(rk) - 1) /\ i + 1 \in 1..Len(rk)
        /\ Len(lk) + 1 + (i + 1) = a + i
    BY <1>1, <1>5, <1>6
  <2>2. rk2[i] = rk[i + 1]
    BY <1>3, <2>1
  <2>3. ks[a + i] = rk[i + 1]
    BY <1>1, <2>1
  <2> QED BY <2>2, <2>3
<1>9. \/ Len(cs) = 0 /\ Len(lc2) = 0 /\ Len(rc2) = 0
      \/ /\ Len(cs) = Len(ks) + 1
         /\ Len(lc2) = a /\ \A i \in 1..a : lc2[i] = cs[i]
         /\ Len(rc2) = Len(cs) - a /\ \A i \in 1..(Len(cs) - a) : rc2[i] = cs[a + i]
  <2>1. CASE Len(lc) = 0 /\ Len(rc) = 0 /\ Len(lc2) = 0 /\ Len(rc2) = 0
    BY <1>2, <2>1
  <2>2. CASE /\ Len(lc) = Len(lk) + 1 /\ Len(rc) = Len(rk) + 1
             /\ Len(lc2) = Len(lc) + 1 /\ \A j \in 1..Len(lc) : lc2[j] = lc[j]
             /\ lc2[Len(lc) + 1] = rc[1]
             /\ Len(rc2) = Len(rc) - 1 /\ \A j \in 1..(Len(rc) - 1) : rc2[j] = rc[j + 1]
    <3>1. /\ Len(cs) = Len(ks) + 1 /\ Len(lc2) = a /\ Len(rc2) = Len(cs) - a
          /\ Len(lc) = a - 1 /\ Len(cs) - a = Len(rc) - 1 /\ Len(rc) \in Nat
          /\ Len(rc) >= 1
      BY <1>1, <1>2, <1>5, <2>2
    <3>2. ASSUME NEW i \in 1..a PROVE lc2[i] = cs[i]
      <4>1. CASE i = a
        <5>1. Len(lc) + 1 = a /\ 1 \in 1..Len(rc)
          BY <1>5, <3>1
        <5> QED BY <1>2, <2>2, <4>1, <5>1
      <4>2. CASE i # a
        <5>1. i \in 1..Len(lc)
          BY <1>5, <3>1, <4>2
        <5> QED BY <1>2, <2>2, <5>1
      <4> QED BY <4>1, <4>2
    <3>3. ASSUME NEW i \in 1..(Len(cs) - a) PROVE rc2[i] = cs[a + i]
      <4>1. /\ i \in 1..(Len(rc) - 1) /\ i + 1 \in 1..Len(rc)
            /\ Len(lc) + (i + 1) = a + i
        BY <1>5, <3>1
      <4>2. rc2[i] = rc[i + 1]
        BY <2>2, <4>1
      <4>3. cs[a + i] = rc[i + 1]
        BY <1>2, <4>1
      <4> QED BY <4>2, <4>3
    <3> QED BY <3>1, <3>2, <3>3
  <2> QED BY <1>4, <2>1, <2>2
<1>10. CutAt(ks, cs, a, lk2, lc2, rk2, rc2)
  BY <1>6, <1>7, <1>8, <1>9, Zenon DEF CutAt
<1>11. ks[a] = rk[1]
  <2>1. 1 \in 1..Len(rk) /\ Len(lk) + 1 + 1 = a
    BY <1>1, <1>3, <1>5
  <2> QED BY <1>1, <2>1
<1> QED BY <1>10, <1>11 DEF a

-----------------------------------------------------------------------------
(* Which of the two siblings lends, and which gets a key. *)
Lends(l, r, ch, sib, d) ==
    (d = 1 /\ sib = l /\ ch = r) \/ (d = 0 /\ sib = r /\ ch = l)

(* borrowFromPrev and borrowFromNext cut the joined keys of the two         *)
(* children at the lent key.                                                *)
LEMMA BorrowRecut ==
    ASSUME NEW H, NEW A, NEW t, NEW ht, Tree(H, A, t, ht),
           NEW x, NEW q, NEW l, NEW r, Beside(H, A, x, q, l, r),
           NEW ch, NEW sib, NEW d, Lends(l, r, ch, sib, d),
           BorrowSite(H, A, x, ch, sib),
           NEW G, BorrowOf(H, G, x, q, ch, sib, d),
           NEW ks, NEW cs,
           JoinedOf(ks, cs, H[l].keys, H[l].child, H[x].keys[q], H[r].keys, H[r].child)
    PROVE  \E a : /\ CutAt(ks, cs, a, G[l].keys, G[l].child, G[r].keys, G[r].child)
                  /\ ks[a] = Lent(H[sib].keys, d)
<1>1. /\ Len(H[ch].keys) \in Nat /\ Len(H[sib].keys) \in Nat /\ Len(H[sib].keys) >= 1
      /\ H[sib].is_leaf <=> H[ch].is_leaf
      /\ Len(H[ch].child) = IF H[ch].is_leaf THEN 0 ELSE Len(H[ch].keys) + 1
      /\ Len(H[sib].child) = IF H[sib].is_leaf THEN 0 ELSE Len(H[sib].keys) + 1
  <2>1. /\ Len(H[ch].keys) \in Nat /\ Len(H[sib].keys) \in Nat
        /\ Len(H[sib].keys) >= MIN_DEGREE + 1
        /\ H[sib].is_leaf <=> H[ch].is_leaf
        /\ Len(H[ch].child) = IF H[ch].is_leaf THEN 0 ELSE Len(H[ch].keys) + 1
        /\ Len(H[sib].child) = IF H[sib].is_leaf THEN 0 ELSE Len(H[sib].keys) + 1
    BY BorrowSiteFacts
  <2>2. \A a \in Nat : a >= MIN_DEGREE + 1 => a >= 1
    BY TAssumption DEF MIN_DEGREE
  <2> QED BY <2>1, <2>2
<1>2. /\ Len(G[ch].keys) = Len(H[ch].keys) + 1
      /\ \A j \in 1..Len(H[ch].keys) : G[ch].keys[j + d] = H[ch].keys[j]
      /\ G[ch].keys[IF d = 1 THEN 1 ELSE Len(H[ch].keys) + 1] = H[x].keys[q]
      /\ Len(G[sib].keys) = Len(H[sib].keys) - 1
      /\ \A j \in 1..(Len(H[sib].keys) - 1) :
            G[sib].keys[j] = H[sib].keys[j + (1 - d)]
  BY Zenon DEF BorrowOf
<1>3. /\ H[sib].is_leaf => Len(G[ch].child) = 0 /\ Len(G[sib].child) = 0
      /\ ~H[sib].is_leaf =>
            /\ Len(G[ch].child) = Len(H[ch].child) + 1
            /\ \A j \in 1..Len(H[ch].child) : G[ch].child[j + d] = H[ch].child[j]
            /\ G[ch].child[IF d = 1 THEN 1 ELSE Len(H[ch].child) + 1] =
                  Lent(H[sib].child, d)
            /\ Len(G[sib].child) = Len(H[sib].child) - 1
            /\ \A j \in 1..(Len(H[sib].child) - 1) :
                  G[sib].child[j] = H[sib].child[j + (1 - d)]
  BY Zenon DEF BorrowOf
<1>4. CASE d = 1 /\ sib = l /\ ch = r
  <2>1. /\ Len(H[l].keys) \in Nat /\ Len(H[r].keys) \in Nat /\ Len(H[l].keys) >= 1
    BY <1>1, <1>4
  <2>2. /\ Len(G[l].keys) = Len(H[l].keys) - 1
        /\ \A j \in 1..(Len(H[l].keys) - 1) : G[l].keys[j] = H[l].keys[j]
    <3>1. \A j \in 1..(Len(H[l].keys) - 1) : j + (1 - 1) = j
      BY <2>1
    <3> QED BY <1>2, <1>4, <3>1
  <2>3. /\ Len(G[r].keys) = Len(H[r].keys) + 1 /\ G[r].keys[1] = H[x].keys[q]
        /\ \A j \in 1..Len(H[r].keys) : G[r].keys[j + 1] = H[r].keys[j]
    BY <1>2, <1>4
  <2>4. CASE H[l].is_leaf
    <3>1. /\ Len(H[l].child) = 0 /\ Len(H[r].child) = 0
          /\ Len(G[l].child) = 0 /\ Len(G[r].child) = 0
      BY <1>1, <1>3, <1>4, <2>4
    <3>2. GivesRight(H[l].keys, H[l].child, H[x].keys[q], H[r].keys, H[r].child,
                     G[l].keys, G[l].child, G[r].keys, G[r].child)
      BY <2>1, <2>2, <2>3, <3>1, Zenon DEF GivesRight
    <3> QED BY <1>4, <3>2, RecutRight DEF Lent
  <2>5. CASE ~H[l].is_leaf
    <3>1. /\ Len(H[l].child) = Len(H[l].keys) + 1 /\ Len(H[r].child) = Len(H[r].keys) + 1
          /\ Len(G[l].child) = Len(H[l].child) - 1
          /\ Len(G[r].child) = Len(H[r].child) + 1
          /\ G[r].child[1] = H[l].child[Len(H[l].child)]
      BY <1>1, <1>3, <1>4, <2>5 DEF Lent
    <3>2. \A j \in 1..(Len(H[l].child) - 1) : G[l].child[j] = H[l].child[j]
      <4>1. \A j \in 1..(Len(H[l].child) - 1) : j + (1 - 1) = j
        BY <2>1, <3>1
      <4> QED BY <1>3, <1>4, <2>5, <4>1
    <3>3. \A j \in 1..Len(H[r].child) : G[r].child[j + 1] = H[r].child[j]
      BY <1>3, <1>4, <2>5
    <3>4. GivesRight(H[l].keys, H[l].child, H[x].keys[q], H[r].keys, H[r].child,
                     G[l].keys, G[l].child, G[r].keys, G[r].child)
      BY <2>1, <2>2, <2>3, <3>1, <3>2, <3>3, Zenon DEF GivesRight
    <3> QED BY <1>4, <3>4, RecutRight DEF Lent
  <2> QED BY <2>4, <2>5
<1>5. CASE d = 0 /\ sib = r /\ ch = l
  <2>1. /\ Len(H[l].keys) \in Nat /\ Len(H[r].keys) \in Nat /\ Len(H[r].keys) >= 1
    BY <1>1, <1>5
  <2>2. /\ Len(G[r].keys) = Len(H[r].keys) - 1
        /\ \A j \in 1..(Len(H[r].keys) - 1) : G[r].keys[j] = H[r].keys[j + 1]
    <3>1. 1 - 0 = 1
      OBVIOUS
    <3> QED BY <1>2, <1>5, <3>1
  <2>3. /\ Len(G[l].keys) = Len(H[l].keys) + 1
        /\ G[l].keys[Len(H[l].keys) + 1] = H[x].keys[q]
        /\ \A j \in 1..Len(H[l].keys) : G[l].keys[j] = H[l].keys[j]
    <3>1. \A j \in 1..Len(H[l].keys) : j + 0 = j
      BY <2>1
    <3>2. d # 1
      BY <1>5
    <3> QED BY <1>2, <1>5, <3>1, <3>2
  <2>4. CASE H[r].is_leaf
    <3>1. /\ Len(H[l].child) = 0 /\ Len(H[r].child) = 0
          /\ Len(G[l].child) = 0 /\ Len(G[r].child) = 0
      BY <1>1, <1>3, <1>5, <2>4
    <3>2. GivesLeft(H[l].keys, H[l].child, H[x].keys[q], H[r].keys, H[r].child,
                    G[l].keys, G[l].child, G[r].keys, G[r].child)
      BY <2>1, <2>2, <2>3, <3>1, Zenon DEF GivesLeft
    <3> QED BY <1>5, <3>2, RecutLeft DEF Lent
  <2>5. CASE ~H[r].is_leaf
    <3>1. /\ Len(H[l].child) = Len(H[l].keys) + 1 /\ Len(H[r].child) = Len(H[r].keys) + 1
          /\ Len(G[r].child) = Len(H[r].child) - 1
          /\ Len(G[l].child) = Len(H[l].child) + 1
          /\ G[l].child[Len(H[l].child) + 1] = H[r].child[1]
      <4>1. d # 1 /\ ~H[l].is_leaf
        BY <1>1, <1>5, <2>5
      <4>2. Lent(H[r].child, 0) = H[r].child[1]
        BY DEF Lent
      <4> QED BY <1>1, <1>3, <1>5, <2>5, <4>1, <4>2
    <3>2. \A j \in 1..Len(H[l].child) : G[l].child[j] = H[l].child[j]
      <4>1. \A j \in 1..Len(H[l].child) : j + 0 = j
        BY <2>1, <3>1
      <4> QED BY <1>3, <1>5, <2>5, <4>1
    <3>3. \A j \in 1..(Len(H[r].child) - 1) : G[r].child[j] = H[r].child[j + 1]
      <4>1. 1 - 0 = 1
        OBVIOUS
      <4> QED BY <1>3, <1>5, <2>5, <4>1
    <3>4. GivesLeft(H[l].keys, H[l].child, H[x].keys[q], H[r].keys, H[r].child,
                    G[l].keys, G[l].child, G[r].keys, G[r].child)
      BY <2>1, <2>2, <2>3, <3>1, <3>2, <3>3, Zenon DEF GivesLeft
    <3> QED BY <1>5, <3>4, RecutLeft DEF Lent
  <2> QED BY <2>4, <2>5
<1> QED BY <1>4, <1>5 DEF Lends

(* The keys and children of two siblings can be joined around a key. *)
LEMMA JoinExists ==
    ASSUME NEW H, NEW A, NEW t, NEW ht, Tree(H, A, t, ht),
           NEW x, NEW q, NEW l, NEW r, Beside(H, A, x, q, l, r)
    PROVE  \E ks, cs : JoinedOf(ks, cs, H[l].keys, H[l].child, H[x].keys[q],
                                H[r].keys, H[r].child)
<1>1. /\ x \in A /\ l \in A /\ r \in A /\ q \in 1..Len(H[x].keys)
      /\ H[l].is_leaf <=> H[r].is_leaf
  BY BesideFacts
<1>2. H[x] \in Node /\ H[l] \in Node /\ H[r] \in Node
  BY <1>1, TreeFacts
<1>3. /\ H[l].keys \in Seq(Item) /\ H[r].keys \in Seq(Item) /\ H[x].keys[q] \in Item
      /\ H[l].child \in Seq(Nodes) /\ H[r].child \in Seq(Nodes)
      /\ Len(H[l].keys) \in Nat /\ Len(H[r].keys) \in Nat
  BY <1>1, <1>2, NodeFacts
<1> DEFINE ks == H[l].keys \o <<H[x].keys[q]>> \o H[r].keys
           cs == H[l].child \o H[r].child
<1> DEFINE lk == H[l].keys
           rk == H[r].keys
           lc == H[l].child
           rc == H[r].child
           it == H[x].keys[q]
<1>4. /\ Len(ks) = Len(H[l].keys) + 1 + Len(H[r].keys)
      /\ \A j \in 1..Len(H[l].keys) : ks[j] = H[l].keys[j]
      /\ ks[Len(H[l].keys) + 1] = H[x].keys[q]
      /\ \A j \in 1..Len(H[r].keys) : ks[Len(H[l].keys) + 1 + j] = H[r].keys[j]
  <2>1. lk \in Seq(Item) /\ rk \in Seq(Item) /\ it \in Item
    BY <1>3
  <2> HIDE DEF lk, rk, it
  <2>2. /\ Len(lk \o <<it>> \o rk) = Len(lk) + 1 + Len(rk)
        /\ \A j \in 1..Len(lk) : (lk \o <<it>> \o rk)[j] = lk[j]
        /\ (lk \o <<it>> \o rk)[Len(lk) + 1] = it
        /\ \A j \in 1..Len(rk) : (lk \o <<it>> \o rk)[Len(lk) + 1 + j] = rk[j]
    BY <2>1, JoinFacts
  <2> QED BY <2>2, Zenon DEF lk, rk, it
<1>5. /\ Len(cs) = Len(H[l].child) + Len(H[r].child)
      /\ \A j \in 1..Len(H[l].child) : cs[j] = H[l].child[j]
      /\ \A j \in 1..Len(H[r].child) : cs[Len(H[l].child) + j] = H[r].child[j]
  <2>1. lc \in Seq(Nodes) /\ rc \in Seq(Nodes)
    BY <1>3
  <2> HIDE DEF lc, rc
  <2>2. /\ Len(lc \o rc) = Len(lc) + Len(rc)
        /\ \A j \in 1..Len(lc) : (lc \o rc)[j] = lc[j]
        /\ \A j \in 1..Len(rc) : (lc \o rc)[Len(lc) + j] = rc[j]
    BY <2>1, ConcatFacts
  <2> QED BY <2>2, Zenon DEF lc, rc
<1>6. \/ Len(H[l].child) = 0 /\ Len(H[r].child) = 0
      \/ Len(H[l].child) = Len(H[l].keys) + 1 /\ Len(H[r].child) = Len(H[r].keys) + 1
  <2>1. /\ Len(H[l].child) = IF H[l].is_leaf THEN 0 ELSE Len(H[l].keys) + 1
        /\ Len(H[r].child) = IF H[r].is_leaf THEN 0 ELSE Len(H[r].keys) + 1
    BY <1>1, TreeFacts
  <2> QED BY <1>1, <2>1
<1> HIDE DEF ks, cs
<1>7. JoinedOf(ks, cs, H[l].keys, H[l].child, H[x].keys[q], H[r].keys, H[r].child)
  BY <1>3, <1>4, <1>5, <1>6, Zenon DEF JoinedOf
<1> QED BY <1>7

(* All that the two siblings hold, joined with the key between them. *)
Whole(sp, l, m, r) == sp[l] \union {m} \union sp[r]

(* The spans after a borrow: the lent key, at c, separates the siblings. *)
BorrowSpans(sp, l, m, r, c) ==
    [sp EXCEPT ![l] = Lower(Whole(sp, l, m, r), c),
               ![r] = Upper(Whole(sp, l, m, r), c)]

(* borrowFromPrev and borrowFromNext keep the order. *)
LEMMA BorrowOrdered ==
    ASSUME NEW H, NEW A, NEW t, NEW ht, Tree(H, A, t, ht),
           NEW sp, NEW e, NEW w, Ordered(H, A, sp, e, w),
           NEW x, NEW q, NEW l, NEW r, Beside(H, A, x, q, l, r), Under(x, A, ht, e),
           NEW ch, NEW sib, NEW d, Lends(l, r, ch, sib, d),
           BorrowSite(H, A, x, ch, sib),
           NEW G, BorrowOf(H, G, x, q, ch, sib, d),
           NEW m, m = Mark(H[x].keys, q),
           NEW c, c = 2 * Lent(H[sib].keys, d).key,
           NEW sq, sq = BorrowSpans(sp, l, m, r, c)
    PROVE  Ordered(G, A, sq, e, w) /\ c \in Int
<1>1. /\ x \in A /\ l \in A /\ r \in A /\ x # l /\ x # r /\ l # r
      /\ x \in Nodes /\ l \in Nodes /\ r \in Nodes
      /\ q \in 1..Len(H[x].keys) /\ Len(H[x].keys) \in Nat
      /\ Len(H[x].child) = Len(H[x].keys) + 1
      /\ q \in 1..Len(H[x].child) /\ q + 1 \in 1..Len(H[x].child)
      /\ H[l].is_leaf <=> H[r].is_leaf
  BY BesideFacts
<1>2. /\ \A u \in A : \A j \in 1..Len(H[u].child) :
            u # x => H[u].child[j] \in Nodes \ {l, r}
      /\ \A j \in 1..Len(H[x].child) :
            H[x].child[j] \in Nodes /\ (j # q => H[x].child[j] # l)
               /\ (j # q + 1 => H[x].child[j] # r)
  BY BesideFacts
<1>3. l = H[x].child[q] /\ r = H[x].child[q + 1]
  BY DEF Beside
<1>4. /\ Fit(H[x].keys, H[x].child, sp[x], sp)
      /\ Fit(H[l].keys, H[l].child, sp[l], sp)
      /\ Fit(H[r].keys, H[r].child, sp[r], sp)
      /\ sp \in [Nodes -> SUBSET Int]
      /\ sp[l] \subseteq Int /\ sp[r] \subseteq Int /\ m \in Int
      /\ \A v \in sp[l] : v < m
      /\ \A v \in sp[r] : m < v
  BY BesideFit
<1> DEFINE S == Whole(sp, l, m, r)
<1>5. PICK ks, cs : JoinedOf(ks, cs, H[l].keys, H[l].child, H[x].keys[q],
                             H[r].keys, H[r].child)
  BY JoinExists
<1>6. Fit(ks, cs, S, sp) /\ S \subseteq Int
  <2>1. CutAt(ks, cs, Len(H[l].keys) + 1, H[l].keys, H[l].child, H[r].keys, H[r].child)
    BY <1>5, JoinedCut
  <2>2. Mark(ks, Len(H[l].keys) + 1) = m
    BY <1>5 DEF JoinedOf, Mark
  <2>3. Fit(ks, cs, sp[l] \union {m} \union sp[r], sp)
    BY <1>4, <2>1, <2>2, JoinFit
  <2> QED BY <1>4, <2>3 DEF Whole
<1>7. PICK a : /\ CutAt(ks, cs, a, G[l].keys, G[l].child, G[r].keys, G[r].child)
               /\ ks[a] = Lent(H[sib].keys, d)
  BY <1>5, BorrowRecut
<1>8. c = Mark(ks, a) /\ c \in Int /\ c \in S
  <2>1. a \in 1..Len(ks)
    BY <1>7 DEF CutAt
  <2>2. c = Mark(ks, a)
    BY <1>7 DEF Mark
  <2> QED BY <1>6, <2>1, <2>2 DEF Fit
<1> HIDE DEF S
<1>9. Fit(G[l].keys, G[l].child, Lower(S, c), sp) /\ Fit(G[r].keys, G[r].child, Upper(S, c), sp)
  BY <1>6, <1>7, <1>8, CutFit
<1>10. /\ sq \in [Nodes -> SUBSET Int]
       /\ sq[l] = Lower(S, c) /\ sq[r] = Upper(S, c)
       /\ \A u \in Nodes \ {l, r} : sq[u] = sp[u]
  <2>1. Lower(S, c) \in SUBSET Int /\ Upper(S, c) \in SUBSET Int
    BY <1>6 DEF Lower, Upper
  <2>2. sq = [sp EXCEPT ![l] = Lower(S, c), ![r] = Upper(S, c)]
    BY DEF S, BorrowSpans
  <2> QED BY <1>1, <1>4, <2>1, <2>2
<1>11. Fit(G[l].keys, G[l].child, sq[l], sq) /\ Fit(G[r].keys, G[r].child, sq[r], sq)
  <2>1. \A j \in 1..Len(cs) : cs[j] \in Nodes \ {l, r}
    <3>1. /\ Len(cs) = Len(H[l].child) + Len(H[r].child)
          /\ \A j \in 1..Len(H[l].child) : cs[j] = H[l].child[j]
          /\ \A j \in 1..Len(H[r].child) : cs[Len(H[l].child) + j] = H[r].child[j]
      BY <1>5 DEF JoinedOf
    <3>2. Len(H[l].child) \in Nat /\ Len(H[r].child) \in Nat
      <4>1. H[l] \in Node /\ H[r] \in Node
        BY <1>1, TreeFacts
      <4> QED BY <4>1, NodeFacts
    <3>3. ASSUME NEW j \in 1..Len(cs) PROVE cs[j] \in Nodes \ {l, r}
      <4>1. CASE j \in 1..Len(H[l].child)
        <5>1. H[l].child[j] \in Nodes \ {l, r}
          BY <1>1, <1>2, <4>1
        <5> QED BY <3>1, <4>1, <5>1
      <4>2. CASE j \notin 1..Len(H[l].child)
        <5>1. \A f, g \in Nat : \A i \in 1..(f + g) :
                 i \notin 1..f => i - f \in 1..g /\ f + (i - f) = i
          OBVIOUS
        <5>2. /\ j - Len(H[l].child) \in 1..Len(H[r].child)
              /\ Len(H[l].child) + (j - Len(H[l].child)) = j
          BY <3>1, <3>2, <4>2, <5>1
        <5>3. cs[j] = H[r].child[j - Len(H[l].child)]
          BY <3>1, <5>2
        <5> QED BY <1>1, <1>2, <5>2, <5>3
      <4> QED BY <4>1, <4>2
    <3> QED BY <3>3
  <2>2. \A j \in 1..Len(G[l].child) : \E i \in 1..Len(cs) : G[l].child[j] = cs[i]
    BY <1>7, CutChildren
  <2>3. \A j \in 1..Len(G[r].child) : \E i \in 1..Len(cs) : G[r].child[j] = cs[i]
    BY <1>7, CutChildren
  <2>4. SameSpans(G[l].child, sp, sq) /\ SameSpans(G[r].child, sp, sq)
    <3>1. \A j \in 1..Len(G[l].child) : G[l].child[j] \in Nodes \ {l, r}
      BY <2>1, <2>2
    <3>2. \A j \in 1..Len(G[r].child) : G[r].child[j] \in Nodes \ {l, r}
      BY <2>1, <2>3
    <3>3. \A u \in Nodes \ {l, r} : sq[u] = sp[u]
      BY <1>10
    <3>4. SameSpans(G[l].child, sp, sq)
      BY <3>1, <3>3 DEF SameSpans
    <3>5. SameSpans(G[r].child, sp, sq)
      BY <3>2, <3>3 DEF SameSpans
    <3> QED BY <3>4, <3>5
  <2> QED BY <1>9, <1>10, <2>4, FitSame
<1>12. Fit(G[x].keys, G[x].child, sq[x], sq)
  <2> DEFINE kx == RemoveAt(H[x].keys, q)
             cx == RemoveAt(H[x].child, q + 1)
             s1 == [sp EXCEPT ![l] = S]
  <2>0. H[x].keys \in Seq(Item) /\ H[x].child \in Seq(Nodes)
    <3>1. H[x] \in Node
      BY <1>1, TreeFacts
    <3> QED BY <3>1, NodeFacts
  <2>1. /\ Len(kx) = Len(H[x].keys) - 1
        /\ \A j \in 1..(Len(H[x].keys) - 1) : kx[j] =
              IF j < q THEN H[x].keys[j] ELSE H[x].keys[j + 1]
    BY <1>1, <2>0, RemoveAtFacts
  <2>2. /\ Len(cx) = Len(H[x].child) - 1
        /\ \A j \in 1..(Len(H[x].child) - 1) : cx[j] =
              IF j < q + 1 THEN H[x].child[j] ELSE H[x].child[j + 1]
    BY <1>1, <2>0, RemoveAtFacts
  <2>3. /\ s1[l] = S /\ \A u \in Nodes \ {l} : s1[u] = sp[u]
    BY <1>1, <1>4
  <2> HIDE DEF kx, cx, s1
  <2>4. /\ Len(G[x].keys) = Len(H[x].keys)
        /\ \A j \in 1..Len(H[x].keys) : G[x].keys[j] =
              IF j = q THEN Lent(H[sib].keys, d) ELSE H[x].keys[j]
        /\ G[x].child = H[x].child
    BY Zenon DEF BorrowOf
  <2>5. /\ Len(kx) \in Nat /\ Len(cx) = Len(kx) + 1 /\ q \in 1..(Len(kx) + 1)
        /\ Len(H[x].keys) = Len(kx) + 1 /\ Len(G[x].keys) = Len(kx) + 1
        /\ Len(H[x].child) = Len(cx) + 1
    BY <1>1, <2>1, <2>2, <2>4
  <2>6. ASSUME NEW j \in 1..(Len(kx) + 1)
        PROVE  /\ j < q => H[x].keys[j] = kx[j]
               /\ q < j => H[x].keys[j] = kx[j - 1]
    <3>1. CASE j < q
      <4>1. j \in 1..(Len(H[x].keys) - 1)
        BY <1>1, <2>5, <3>1
      <4> QED BY <1>1, <2>1, <3>1, <4>1
    <3>2. CASE q < j
      <4>1. j - 1 \in 1..(Len(H[x].keys) - 1) /\ (j - 1) + 1 = j /\ ~(j - 1 < q)
        BY <1>1, <2>5, <3>2
      <4>2. kx[j - 1] = H[x].keys[j]
        BY <2>1, <4>1
      <4> QED BY <1>1, <3>2, <4>2
    <3> QED BY <3>1, <3>2
  <2>7. ASSUME NEW j \in 1..(Len(cx) + 1)
        PROVE  H[x].child[j] = IF j < q + 1 THEN cx[j]
                               ELSE IF j = q + 1 THEN r ELSE cx[j - 1]
    <3>1. CASE j < q + 1
      <4>1. j \in 1..(Len(H[x].child) - 1)
        BY <1>1, <2>5, <3>1
      <4> QED BY <2>2, <3>1, <4>1
    <3>2. CASE q + 1 < j
      <4>1. j - 1 \in 1..(Len(H[x].child) - 1) /\ (j - 1) + 1 = j /\ ~(j - 1 < q + 1)
        BY <1>1, <2>5, <3>2
      <4>2. cx[j - 1] = H[x].child[j]
        BY <2>2, <4>1
      <4>3. ~(j < q + 1) /\ j # q + 1
        BY <1>1, <3>2
      <4> QED BY <4>2, <4>3
    <3>3. CASE j = q + 1
      BY <1>1, <1>3, <3>3
    <3> QED BY <1>1, <3>1, <3>2, <3>3
  <2>8. Extended(kx, cx, H[x].keys, H[x].child, q, H[x].keys[q], r)
    <3>1. ASSUME NEW j \in 1..(Len(kx) + 1)
          PROVE  H[x].keys[j] = IF j < q THEN kx[j]
                                ELSE IF j = q THEN H[x].keys[q] ELSE kx[j - 1]
      <4>1. CASE j < q
        BY <2>6, <4>1
      <4>2. CASE j = q
        BY <1>1, <4>2
      <4>3. CASE q < j
        <5>1. ~(j < q) /\ j # q
          BY <1>1, <4>3
        <5> QED BY <2>6, <4>3, <5>1
      <4> QED BY <1>1, <4>1, <4>2, <4>3
    <3> QED BY <2>5, <2>7, <3>1, Zenon DEF Extended
  <2>9. Extended(kx, cx, G[x].keys, G[x].child, q, Lent(H[sib].keys, d), r)
    <3>1. ASSUME NEW j \in 1..(Len(kx) + 1)
          PROVE  G[x].keys[j] = IF j < q THEN kx[j]
                                ELSE IF j = q THEN Lent(H[sib].keys, d) ELSE kx[j - 1]
      <4>1. j \in 1..Len(H[x].keys)
        BY <2>5
      <4>2. CASE j < q
        <5>1. j # q
          BY <1>1, <4>2
        <5> QED BY <2>4, <2>6, <4>1, <4>2, <5>1
      <4>3. CASE j = q
        BY <1>1, <2>4, <4>1, <4>3
      <4>4. CASE q < j
        <5>1. ~(j < q) /\ j # q
          BY <1>1, <4>4
        <5> QED BY <2>4, <2>6, <4>1, <4>4, <5>1
      <4> QED BY <1>1, <4>2, <4>3, <4>4
    <3>2. Extended(kx, cx, G[x].keys, H[x].child, q, Lent(H[sib].keys, d), r)
      BY <2>5, <2>7, <3>1, Zenon DEF Extended
    <3>3. G[x].child = H[x].child
      BY <2>4
    <3> QED BY <3>2, <3>3
  <2>10. cx[q] = l
    <3>1. q \in 1..(Len(H[x].child) - 1) /\ q < q + 1
      BY <1>1
    <3> QED BY <1>3, <2>2, <3>1
  <2>11. \A j \in 1..Len(cx) : j # q => cx[j] \in Nodes \ {l, r}
    <3> SUFFICES ASSUME NEW j \in 1..Len(cx), j # q PROVE cx[j] \in Nodes \ {l, r}
      OBVIOUS
    <3>0. j \in 1..(Len(H[x].child) - 1)
      BY <1>1, <2>2
    <3>1. CASE j < q + 1
      <4>1. j \in 1..Len(H[x].child) /\ cx[j] = H[x].child[j] /\ j # q + 1
        BY <1>1, <2>2, <3>0, <3>1
      <4> QED BY <1>2, <4>1
    <3>2. CASE ~(j < q + 1)
      <4>1. j + 1 \in 1..Len(H[x].child) /\ j + 1 # q + 1 /\ j + 1 # q
        BY <1>1, <3>0, <3>2
      <4>2. cx[j] = H[x].child[j + 1]
        BY <2>2, <3>0, <3>2
      <4> QED BY <1>2, <4>1, <4>2
    <3> QED BY <3>1, <3>2
  <2>12. Joined(cx, q, r, m, sp, s1)
    <3>1. \A j \in 1..Len(cx) : j # q => s1[cx[j]] = sp[cx[j]]
      BY <2>3, <2>11
    <3> QED BY <2>3, <2>10, <3>1 DEF Joined, S, Whole
  <2>13. Fit(kx, cx, sp[x], s1)
    <3>1. m = 2 * H[x].keys[q].key
      BY DEF Mark
    <3> QED BY <1>4, <2>8, <2>12, <3>1, ContractFit
  <2>14. Halved(cx, q, r, c, s1, sq)
    <3>1. \A j \in 1..Len(cx) : j # q => sq[cx[j]] = s1[cx[j]]
      BY <1>10, <2>3, <2>11
    <3>2. c \in s1[cx[q]] /\ sq[cx[q]] = Lower(s1[cx[q]], c) /\ sq[r] = Upper(s1[cx[q]], c)
      BY <1>8, <1>10, <2>3, <2>10
    <3> QED BY <3>1, <3>2 DEF Halved
  <2>15. Fit(G[x].keys, G[x].child, sp[x], sq)
    BY <1>8, <2>9, <2>13, <2>14, ExtendFit
  <2> QED BY <1>1, <1>10, <2>15
<1>13. Kept(H, G, A, A, {x, l, r}, sp, sq)
  <2> SUFFICES ASSUME NEW u \in A \ {x, l, r}
               PROVE  /\ u \in A
                      /\ G[u].keys = H[u].keys /\ G[u].child = H[u].child
                      /\ sq[u] = sp[u]
                      /\ SameSpans(H[u].child, sp, sq)
    BY DEF Kept
  <2>1. u \in A /\ u # x /\ u \in Nodes \ {x, l, r}
    BY TreeFacts
  <2>2. {x, ch, sib} = {x, l, r}
    BY DEF Lends
  <2>3. \A f \in Nodes \ {x, ch, sib} : G[f].keys = H[f].keys /\ G[f].child = H[f].child
    BY Zenon DEF BorrowOf
  <2> QED BY <1>2, <1>10, <2>1, <2>2, <2>3 DEF SameSpans
<1>14. AllFit(G, {x, l, r}, sq)
  BY <1>11, <1>12 DEF AllFit
<1> QED BY <1>8, <1>10, <1>13, <1>14, OrderFrame

-----------------------------------------------------------------------------
(* The value g lies behind the keys before j and before the others. *)
Between(ks, j, g) ==
    \A l \in 1..Len(ks) :
       /\ l < j => Mark(ks, l) < g
       /\ j <= l => g < Mark(ks, l)

(* A search for g may come to the node c. *)
Room(H, A, t, sp, c, g) ==
    /\ c \in A /\ g \in Int
    /\ \/ c = t
       \/ \E x \in A : \E j \in 1..Len(H[x].child) :
             c = H[x].child[j] /\ g \in sp[x] /\ Between(H[x].keys, j, g)

(* The spans after g is taken into the span of c. *)
With(sp, c, g) == [sp EXCEPT ![c] = @ \union {g}]

(* Only the span of c grows. *)
LEMMA WithFacts ==
    ASSUME NEW sp \in [Nodes -> SUBSET Int], NEW c \in Nodes, NEW g \in Int
    PROVE  /\ With(sp, c, g) \in [Nodes -> SUBSET Int]
           /\ With(sp, c, g)[c] = sp[c] \union {g}
           /\ \A y \in Nodes : y # c => With(sp, c, g)[y] = sp[y]
           /\ \A y \in Nodes : sp[y] \subseteq With(sp, c, g)[y]
<1>1. /\ With(sp, c, g) \in [Nodes -> SUBSET Int]
      /\ With(sp, c, g)[c] = sp[c] \union {g}
      /\ \A y \in Nodes : y # c => With(sp, c, g)[y] = sp[y]
  BY DEF With
<1>2. ASSUME NEW y \in Nodes PROVE sp[y] \subseteq With(sp, c, g)[y]
  <2>1. CASE y = c
    BY <1>1, <2>1
  <2>2. CASE y # c
    BY <1>1, <2>2
  <2> QED BY <2>1, <2>2
<1> QED BY <1>1, <1>2

(* A value the search for which comes to a node can be taken into the span *)
(* of that node.                                                           *)
LEMMA AddMark ==
    ASSUME NEW H, NEW A, NEW t, NEW ht, Tree(H, A, t, ht),
           NEW sp, NEW e, NEW w, Ordered(H, A, sp, e, w),
           NEW c, NEW g, Room(H, A, t, sp, c, g)
    PROVE  /\ Ordered(H, A, With(sp, c, g), e, w)
           /\ With(sp, c, g)[c] = sp[c] \union {g}
           /\ \A y \in A : y # c => With(sp, c, g)[y] = sp[y]
           /\ \A y \in A : sp[y] \subseteq With(sp, c, g)[y]
<1> DEFINE sq == With(sp, c, g)
<1>1. c \in A /\ c \in Nodes /\ g \in Int /\ sp \in [Nodes -> SUBSET Int] /\ A \subseteq Nodes
  BY TreeFacts DEF Room, Ordered
<1>2. /\ sq \in [Nodes -> SUBSET Int] /\ sq[c] = sp[c] \union {g}
      /\ \A y \in Nodes : y # c => sq[y] = sp[y]
      /\ \A y \in Nodes : sp[y] \subseteq sq[y]
  BY <1>1, WithFacts
<1> HIDE DEF sq
<1>3. ASSUME NEW y \in A PROVE Sorted(H, y, sq, e, w)
  <2>1. /\ \A i, j \in 1..Len(H[y].keys) :
              i < j => Mark(H[y].keys, i) < Mark(H[y].keys, j)
        /\ \A i \in 1..Len(H[y].keys) : Mark(H[y].keys, i) \in sp[y]
    BY DEF Ordered, Sorted
  <2>2. \A i \in 1..Len(H[y].keys) : Mark(H[y].keys, i) \in sq[y]
    BY <1>1, <1>2, <2>1
  <2>3. ASSUME NEW i \in 1..Len(H[y].child), NEW v \in sq[H[y].child[i]]
        PROVE  /\ v \in sq[y]
               /\ \A l \in 1..Len(H[y].keys) :
                     /\ i <= l => v <= Mark(H[y].keys, l)
                     /\ l < i => Mark(H[y].keys, l) <= v
                     /\ v = Mark(H[y].keys, l) => H[y].child[i] = e /\ v = w
    <3>1. H[y].child[i] \in A /\ H[y].child[i] # t
      BY TreeChild
    <3>2. CASE v \in sp[H[y].child[i]]
      <4>1. /\ v \in sp[y]
            /\ \A l \in 1..Len(H[y].keys) :
                  /\ i <= l => v <= Mark(H[y].keys, l)
                  /\ l < i => Mark(H[y].keys, l) <= v
                  /\ v = Mark(H[y].keys, l) => H[y].child[i] = e /\ v = w
        BY <3>2, ChildSpan
      <4>2. v \in sq[y]
        BY <1>1, <1>2, <4>1
      <4> QED BY <4>1, <4>2
    <3>3. CASE v \notin sp[H[y].child[i]]
      <4>1. H[y].child[i] = c /\ v = g
        BY <1>1, <1>2, <3>1, <3>3
      <4>2. PICK x \in A : \E j \in 1..Len(H[x].child) :
               c = H[x].child[j] /\ g \in sp[x] /\ Between(H[x].keys, j, g)
        BY <3>1, <4>1 DEF Room
      <4>3. PICK j \in 1..Len(H[x].child) :
               c = H[x].child[j] /\ g \in sp[x] /\ Between(H[x].keys, j, g)
        BY <4>2
      <4>4. x = y
        <5>1. H[c].parent = x
          BY <4>3, TreeChild
        <5>2. H[c].parent = y
          BY <4>1, TreeChild
        <5> QED BY <5>1, <5>2
      <4>5. i = j
        BY <4>1, <4>3, <4>4, TreeChildrenDiffer
      <4>6. Between(H[y].keys, i, g) /\ g \in sp[y]
        BY <4>3, <4>4, <4>5
      <4>7. ASSUME NEW l \in 1..Len(H[y].keys)
            PROVE  /\ i <= l => g <= Mark(H[y].keys, l)
                   /\ l < i => Mark(H[y].keys, l) <= g
                   /\ g # Mark(H[y].keys, l)
        <5>1. /\ l < i => Mark(H[y].keys, l) < g
              /\ i <= l => g < Mark(H[y].keys, l)
          BY <4>6 DEF Between
        <5>2. Mark(H[y].keys, l) \in Int /\ l \in Int /\ i \in Int
          BY MarkInt
        <5>3. \A a, b \in Int : a < b => a <= b /\ a # b
          OBVIOUS
        <5>4. l < i \/ i <= l
          BY <5>2
        <5> QED BY <1>1, <5>1, <5>2, <5>3, <5>4
      <4>8. v \in sq[y]
        BY <1>1, <1>2, <4>1, <4>6
      <4> QED BY <4>1, <4>7, <4>8
    <3> QED BY <3>2, <3>3
  <2> QED BY <2>1, <2>2, <2>3 DEF Sorted
<1>4. Ordered(H, A, sq, e, w)
  BY <1>2, <1>3 DEF Ordered
<1> QED BY <1>1, <1>2, <1>4 DEF sq

(* Where the loop over the keys stops, the search goes on between keys. *)
LEMMA StopsBetween ==
    ASSUME NEW A, NEW t, NEW ht, Tree(node, A, t, ht),
           NEW sp, NEW e, NEW w, Ordered(node, A, sp, e, w),
           NEW x \in A, NEW key \in Keys, NEW p, StopsAt(x, key, p), ~Holds(x, key, p),
           NEW d \in {-1, 0, 1}
    PROVE  Between(node[x].keys, p, 2 * key + d)
<1>1. /\ p \in 1..(Len(node[x].keys) + 1)
      /\ \A j \in 1..(p - 1) : node[x].keys[j].key < key
      /\ p <= Len(node[x].keys) => node[x].keys[p].key >= key
  BY DEF StopsAt
<1>2. Len(node[x].keys) \in Nat /\ key \in Int
  BY TreeFacts, KeysAssumption
<1>3. ASSUME NEW l \in 1..Len(node[x].keys)
      PROVE  /\ l < p => Mark(node[x].keys, l) < 2 * key + d
             /\ p <= l => 2 * key + d < Mark(node[x].keys, l)
  <2>1. node[x].keys[l].key \in Int
    BY MarkInt
  <2>2. CASE l < p
    <3>1. l \in 1..(p - 1)
      BY <1>1, <1>2, <2>2
    <3>2. node[x].keys[l].key < key
      BY <1>1, <3>1
    <3>3. \A a \in Int : a < key => 2 * a < 2 * key + d
      BY <1>2
    <3>4. ~(p <= l)
      BY <1>1, <1>2, <2>2
    <3> QED BY <2>1, <3>2, <3>3, <3>4 DEF Mark
  <2>3. CASE p <= l
    <3>1. p \in 1..Len(node[x].keys) /\ p <= Len(node[x].keys)
      BY <1>1, <1>2, <2>3
    <3>2. Mark(node[x].keys, p) <= Mark(node[x].keys, l)
      BY <2>3, <3>1, MarksAscend
    <3>3. node[x].keys[p].key >= key /\ node[x].keys[p].key # key
      BY <1>1, <3>1 DEF Holds
    <3>4. node[x].keys[p].key \in Int
      BY <3>1, MarkInt
    <3>5. \A a, b \in Int : a >= key /\ a # key /\ 2 * a <= 2 * b => 2 * key + d < 2 * b
      BY <1>2
    <3>6. 2 * node[x].keys[p].key <= 2 * node[x].keys[l].key
      BY <3>2 DEF Mark
    <3>7. 2 * key + d < 2 * node[x].keys[l].key
      BY <2>1, <3>3, <3>4, <3>5, <3>6
    <3>8. ~(l < p)
      BY <1>1, <1>2, <2>3
    <3> QED BY <3>7, <3>8 DEF Mark
  <2> QED BY <1>1, <1>2, <2>2, <2>3
<1> QED BY <1>3 DEF Between

(* Beside a key of a node, before it and behind it, there is room. *)
LEMMA BesideKey ==
    ASSUME NEW H, NEW A, NEW t, NEW ht, Tree(H, A, t, ht),
           NEW sp, NEW e, NEW w, Ordered(H, A, sp, e, w),
           NEW x \in A, NEW i \in 1..Len(H[x].keys)
    PROVE  /\ Between(H[x].keys, i, Mark(H[x].keys, i) - 1)
           /\ Between(H[x].keys, i + 1, Mark(H[x].keys, i) + 1)
<1>1. i \in Int /\ H[x].keys[i].key \in Int
  BY MarkInt
<1>2. ASSUME NEW l \in 1..Len(H[x].keys)
      PROVE  /\ l \in Int /\ H[x].keys[l].key \in Int
             /\ l < i => 2 * H[x].keys[l].key < 2 * H[x].keys[i].key
             /\ i < l => 2 * H[x].keys[i].key < 2 * H[x].keys[l].key
  <2>1. \A f, g \in 1..Len(H[x].keys) :
           f < g => Mark(H[x].keys, f) < Mark(H[x].keys, g)
    BY DEF Ordered, Sorted
  <2> QED BY <2>1, MarkInt DEF Mark
<1>3. \A a, b \in Int : 2 * a < 2 * b => 2 * a < 2 * b - 1 /\ 2 * a + 1 < 2 * b
                                           /\ 2 * a < 2 * b + 1 /\ 2 * a - 1 < 2 * b
  OBVIOUS
<1>4. \A a \in Int : 2 * a - 1 < 2 * a /\ 2 * a < 2 * a + 1
  OBVIOUS
<1>5. ASSUME NEW l \in 1..Len(H[x].keys)
      PROVE  /\ l < i => 2 * H[x].keys[l].key < 2 * H[x].keys[i].key - 1
             /\ i <= l => 2 * H[x].keys[i].key - 1 < 2 * H[x].keys[l].key
             /\ l < i + 1 => 2 * H[x].keys[l].key < 2 * H[x].keys[i].key + 1
             /\ i + 1 <= l => 2 * H[x].keys[i].key + 1 < 2 * H[x].keys[l].key
  <2>1. CASE l < i
    <3>1. ~(i <= l) /\ ~(i + 1 <= l)
      BY <1>1, <1>2, <2>1
    <3> QED BY <1>1, <1>2, <1>3, <2>1, <3>1
  <2>2. CASE l = i
    <3>1. ~(l < i) /\ ~(i + 1 <= l)
      BY <1>1, <2>2
    <3> QED BY <1>1, <1>4, <2>2, <3>1
  <2>3. CASE i < l
    <3>1. ~(l < i) /\ ~(l < i + 1)
      BY <1>1, <1>2, <2>3
    <3> QED BY <1>1, <1>2, <1>3, <2>3, <3>1
  <2> QED BY <1>1, <1>2, <2>1, <2>2, <2>3
<1> QED BY <1>5 DEF Between, Mark

-----------------------------------------------------------------------------
(* G is H with the keys of node y replaced by ks. *)
KeysSet(H, G, y, ks) ==
    /\ G[y].keys = ks
    /\ \A c \in Nodes \ {y} : G[c].keys = H[c].keys
    /\ \A c \in Nodes : G[c].child = H[c].child

(* New keys that fit in the place of the old ones keep the order. *)
LEMMA NewKeysOrdered ==
    ASSUME NEW H, NEW A, NEW t, NEW ht, Tree(H, A, t, ht),
           NEW sp, NEW e, NEW w, Ordered(H, A, sp, e, w),
           NEW y \in A, NEW ks, NEW G, KeysSet(H, G, y, ks),
           Fit(ks, H[y].child, sp[y], sp)
    PROVE  Ordered(G, A, sp, e, w)
<1>1. /\ G[y].keys = ks /\ \A c \in Nodes \ {y} : G[c].keys = H[c].keys
      /\ \A c \in Nodes : G[c].child = H[c].child
  BY DEF KeysSet
<1>2. A \subseteq Nodes /\ sp \in [Nodes -> SUBSET Int]
  BY TreeFacts DEF Ordered
<1>3. Kept(H, G, A, A, {y}, sp, sp)
  BY <1>1, <1>2 DEF Kept, SameSpans
<1>4. G[y].child = H[y].child
  BY <1>1, <1>2
<1>5. AllFit(G, {y}, sp)
  BY <1>1, <1>4 DEF AllFit
<1> QED BY <1>2, <1>3, <1>5, OrderFrame

(* What the order says of the keys of a leaf. *)
LEMMA LeafKeys ==
    ASSUME NEW H, NEW A, NEW t, NEW ht, Tree(H, A, t, ht),
           NEW sp, NEW e, NEW w, Ordered(H, A, sp, e, w),
           NEW y \in A, H[y].is_leaf
    PROVE  /\ Len(H[y].child) = 0 /\ Len(H[y].keys) \in Nat
           /\ H[y].keys \in Seq(Item)
           /\ \A i \in 1..Len(H[y].keys) :
                 Mark(H[y].keys, i) \in Int /\ Mark(H[y].keys, i) \in sp[y]
           /\ \A i, j \in 1..Len(H[y].keys) :
                 i < j => Mark(H[y].keys, i) < Mark(H[y].keys, j)
<1>1. Len(H[y].child) = 0 /\ Len(H[y].keys) \in Nat /\ H[y] \in Node
  BY TreeFacts
<1>2. H[y].keys \in Seq(Item)
  BY <1>1, NodeFacts
<1>3. /\ \A i, j \in 1..Len(H[y].keys) :
            i < j => Mark(H[y].keys, i) < Mark(H[y].keys, j)
      /\ \A i \in 1..Len(H[y].keys) : Mark(H[y].keys, i) \in sp[y]
  BY DEF Ordered, Sorted
<1>4. \A i \in 1..Len(H[y].keys) : Mark(H[y].keys, i) \in Int
  BY MarkInt
<1> QED BY <1>1, <1>2, <1>3, <1>4

(* Twice the key of an item is an integer. *)
LEMMA MarkOfItem ==
    ASSUME NEW it \in Item
    PROVE  it.key \in Keys /\ it.key \in Int /\ 2 * it.key \in Int
<1>1. it.key \in Keys
  BY DEF Item
<1>2. it.key \in Int
  BY <1>1, KeysAssumption
<1>3. \A a \in Int : 2 * a \in Int
  OBVIOUS
<1> QED BY <1>1, <1>2, <1>3

(* A key put into a leaf where the loop over its keys stopped keeps the     *)
(* order.                                                                   *)
LEMMA LeafInsertOrdered ==
    ASSUME NEW H, NEW A, NEW t, NEW ht, Tree(H, A, t, ht),
           NEW sp, NEW e, NEW w, Ordered(H, A, sp, e, w),
           NEW y \in A, H[y].is_leaf, NEW it \in Item,
           NEW p \in 1..(Len(H[y].keys) + 1), 2 * it.key \in sp[y],
           Between(H[y].keys, p, 2 * it.key),
           NEW ks, ks = InsertAt(H[y].keys, p, it),
           NEW G, KeysSet(H, G, y, ks)
    PROVE  Ordered(G, A, sp, e, w)
<1>1. /\ Len(H[y].child) = 0 /\ Len(H[y].keys) \in Nat
      /\ H[y].keys \in Seq(Item)
      /\ \A i \in 1..Len(H[y].keys) :
            Mark(H[y].keys, i) \in Int /\ Mark(H[y].keys, i) \in sp[y]
      /\ \A i, j \in 1..Len(H[y].keys) :
            i < j => Mark(H[y].keys, i) < Mark(H[y].keys, j)
  BY LeafKeys
<1> DEFINE g == 2 * it.key
           N == Len(H[y].keys)
<1>2. /\ Len(ks) = N + 1
      /\ \A j \in 1..(N + 1) : ks[j] =
            IF j < p THEN H[y].keys[j] ELSE IF j = p THEN it ELSE H[y].keys[j - 1]
  <2> DEFINE s == H[y].keys
  <2>1. s \in Seq(Item) /\ p \in 1..(Len(s) + 1)
    BY <1>1
  <2> HIDE DEF s
  <2>2. /\ Len(InsertAt(s, p, it)) = Len(s) + 1
        /\ \A j \in 1..(Len(s) + 1) : InsertAt(s, p, it)[j] =
              IF j < p THEN s[j] ELSE IF j = p THEN it ELSE s[j - 1]
    BY <2>1, InsertAtFacts
  <2> QED BY <2>2 DEF s
<1>3. g \in Int
  BY MarkOfItem
<1> HIDE DEF g
<1>4. N \in Nat /\ p \in 1..(N + 1)
  BY <1>1
<1>5. ASSUME NEW i \in 1..(N + 1)
      PROVE  \/ i < p /\ i \in 1..N /\ Mark(ks, i) = Mark(H[y].keys, i)
             \/ i = p /\ Mark(ks, i) = g
             \/ p < i /\ i - 1 \in 1..N /\ Mark(ks, i) = Mark(H[y].keys, i - 1)
  <2> HIDE DEF N
  <2>1. CASE i < p
    <3>1. i \in 1..N
      BY <1>4, <2>1
    <3> QED BY <1>2, <2>1, <3>1 DEF Mark
  <2>2. CASE i = p
    <3>1. ~(i < p)
      BY <1>4, <2>2
    <3>2. ks[i] = it
      BY <1>2, <2>2, <3>1
    <3> QED BY <2>2, <3>2 DEF Mark, g
  <2>3. CASE p < i
    <3>1. i - 1 \in 1..N /\ ~(i < p) /\ i # p
      BY <1>4, <2>3
    <3> QED BY <1>2, <2>3, <3>1 DEF Mark
  <2> QED BY <1>4, <2>1, <2>2, <2>3
<1>6. \A l \in 1..N : /\ l < p => Mark(H[y].keys, l) < g
                      /\ p <= l => g < Mark(H[y].keys, l)
  BY DEF Between, g
<1>7. \A l \in 1..N : Mark(H[y].keys, l) \in Int
  BY <1>1
<1> HIDE DEF N
<1>8. \A i \in 1..Len(ks) : Mark(ks, i) \in Int /\ Mark(ks, i) \in sp[y]
  <2> SUFFICES ASSUME NEW i \in 1..(N + 1)
               PROVE  Mark(ks, i) \in Int /\ Mark(ks, i) \in sp[y]
    BY <1>2
  <2>1. g \in sp[y] /\ \A l \in 1..N : Mark(H[y].keys, l) \in sp[y]
    BY <1>1 DEF g, N
  <2> QED BY <1>3, <1>5, <1>7, <2>1
<1>9. \A i, j \in 1..Len(ks) : i < j => Mark(ks, i) < Mark(ks, j)
  <2> SUFFICES ASSUME NEW i \in 1..(N + 1), NEW j \in 1..(N + 1), i < j
               PROVE  Mark(ks, i) < Mark(ks, j)
    BY <1>2
  <2>1. \A f, h \in 1..N : f < h => Mark(H[y].keys, f) < Mark(H[y].keys, h)
    BY <1>1 DEF N
  <2>2. CASE i < p /\ j < p
    <3>1. i \in 1..N /\ j \in 1..N /\ Mark(ks, i) = Mark(H[y].keys, i)
             /\ Mark(ks, j) = Mark(H[y].keys, j)
      BY <1>4, <1>5, <2>2
    <3> QED BY <2>1, <3>1
  <2>3. CASE i < p /\ j = p
    <3>1. i \in 1..N /\ Mark(ks, i) = Mark(H[y].keys, i) /\ Mark(ks, j) = g
      BY <1>4, <1>5, <2>3
    <3> QED BY <1>6, <2>3, <3>1
  <2>4. CASE i < p /\ p < j
    <3>1. /\ i \in 1..N /\ Mark(ks, i) = Mark(H[y].keys, i)
          /\ j - 1 \in 1..N /\ Mark(ks, j) = Mark(H[y].keys, j - 1)
      BY <1>4, <1>5, <2>4
    <3>2. i < j - 1
      BY <1>4, <2>4
    <3> QED BY <2>1, <3>1, <3>2
  <2>5. CASE i = p /\ p < j
    <3>1. /\ Mark(ks, i) = g
          /\ j - 1 \in 1..N /\ Mark(ks, j) = Mark(H[y].keys, j - 1)
      BY <1>4, <1>5, <2>5
    <3>2. p <= j - 1
      BY <1>4, <2>5
    <3> QED BY <1>6, <3>1, <3>2
  <2>6. CASE p < i /\ p < j
    <3>1. /\ i - 1 \in 1..N /\ Mark(ks, i) = Mark(H[y].keys, i - 1)
          /\ j - 1 \in 1..N /\ Mark(ks, j) = Mark(H[y].keys, j - 1)
      BY <1>4, <1>5, <2>6
    <3>2. i - 1 < j - 1
      BY <1>4
    <3> QED BY <2>1, <3>1, <3>2
  <2>7. \/ i < p /\ j < p
        \/ i < p /\ j = p
        \/ i < p /\ p < j
        \/ i = p /\ p < j
        \/ p < i /\ p < j
    BY <1>4
  <2> QED BY <2>2, <2>3, <2>4, <2>5, <2>6, <2>7
<1>10. Fit(ks, H[y].child, sp[y], sp)
  <2>1. \A j \in 1..Len(H[y].child) : FALSE
    BY <1>1
  <2> QED BY <1>8, <1>9, <2>1 DEF Fit
<1> QED BY <1>10, NewKeysOrdered

(* Taking a key out of a leaf keeps the order. *)
LEMMA LeafRemoveOrdered ==
    ASSUME NEW H, NEW A, NEW t, NEW ht, Tree(H, A, t, ht),
           NEW sp, NEW e, NEW w, Ordered(H, A, sp, e, w),
           NEW y \in A, H[y].is_leaf, NEW p \in 1..Len(H[y].keys),
           NEW ks, ks = RemoveAt(H[y].keys, p),
           NEW G, KeysSet(H, G, y, ks)
    PROVE  Ordered(G, A, sp, e, w)
<1>1. /\ Len(H[y].child) = 0 /\ Len(H[y].keys) \in Nat
      /\ H[y].keys \in Seq(Item)
      /\ \A i \in 1..Len(H[y].keys) :
            Mark(H[y].keys, i) \in Int /\ Mark(H[y].keys, i) \in sp[y]
      /\ \A i, j \in 1..Len(H[y].keys) :
            i < j => Mark(H[y].keys, i) < Mark(H[y].keys, j)
  BY LeafKeys
<1> DEFINE N == Len(H[y].keys)
<1>2. /\ Len(ks) = N - 1
      /\ \A j \in 1..(N - 1) : ks[j] = IF j < p THEN H[y].keys[j] ELSE H[y].keys[j + 1]
  <2> DEFINE s == H[y].keys
  <2>1. s \in Seq(Item) /\ p \in 1..Len(s)
    BY <1>1
  <2> HIDE DEF s
  <2>2. /\ Len(RemoveAt(s, p)) = Len(s) - 1
        /\ \A j \in 1..(Len(s) - 1) : RemoveAt(s, p)[j] =
              IF j < p THEN s[j] ELSE s[j + 1]
    BY <2>1, RemoveAtFacts
  <2> QED BY <2>2 DEF s
<1>3. N \in Nat /\ p \in 1..N
  BY <1>1
<1>4. ASSUME NEW i \in 1..(N - 1)
      PROVE  \/ i < p /\ i \in 1..N /\ Mark(ks, i) = Mark(H[y].keys, i)
             \/ p <= i /\ i + 1 \in 1..N /\ Mark(ks, i) = Mark(H[y].keys, i + 1)
  <2> HIDE DEF N
  <2>1. CASE i < p
    <3>1. i \in 1..N
      BY <1>3, <2>1
    <3> QED BY <1>2, <2>1, <3>1 DEF Mark
  <2>2. CASE p <= i
    <3>1. i + 1 \in 1..N /\ ~(i < p)
      BY <1>3, <2>2
    <3> QED BY <1>2, <2>2, <3>1 DEF Mark
  <2> QED BY <1>3, <2>1, <2>2
<1>5. /\ \A l \in 1..N : Mark(H[y].keys, l) \in Int /\ Mark(H[y].keys, l) \in sp[y]
      /\ \A f, h \in 1..N : f < h => Mark(H[y].keys, f) < Mark(H[y].keys, h)
  BY <1>1
<1> HIDE DEF N
<1>6. \A i \in 1..Len(ks) : Mark(ks, i) \in Int /\ Mark(ks, i) \in sp[y]
  BY <1>2, <1>4, <1>5
<1>7. \A i, j \in 1..Len(ks) : i < j => Mark(ks, i) < Mark(ks, j)
  <2> SUFFICES ASSUME NEW i \in 1..(N - 1), NEW j \in 1..(N - 1), i < j
               PROVE  Mark(ks, i) < Mark(ks, j)
    BY <1>2
  <2>1. CASE i < p /\ j < p
    <3>1. i \in 1..N /\ j \in 1..N /\ Mark(ks, i) = Mark(H[y].keys, i)
             /\ Mark(ks, j) = Mark(H[y].keys, j)
      BY <1>3, <1>4, <2>1
    <3> QED BY <1>5, <3>1
  <2>2. CASE i < p /\ p <= j
    <3>1. i \in 1..N /\ j + 1 \in 1..N /\ Mark(ks, i) = Mark(H[y].keys, i)
             /\ Mark(ks, j) = Mark(H[y].keys, j + 1) /\ i < j + 1
      BY <1>3, <1>4, <2>2
    <3> QED BY <1>5, <3>1
  <2>3. CASE p <= i /\ p <= j
    <3>1. i + 1 \in 1..N /\ j + 1 \in 1..N /\ Mark(ks, i) = Mark(H[y].keys, i + 1)
             /\ Mark(ks, j) = Mark(H[y].keys, j + 1) /\ i + 1 < j + 1
      BY <1>3, <1>4, <2>3
    <3> QED BY <1>5, <3>1
  <2> QED BY <1>3, <2>1, <2>2, <2>3
<1>8. Fit(ks, H[y].child, sp[y], sp)
  <2>1. \A j \in 1..Len(H[y].child) : FALSE
    BY <1>1
  <2> QED BY <1>6, <1>7, <2>1 DEF Fit
<1> QED BY <1>8, NewKeysOrdered

(* So does changing what is stored with a key. *)
LEMMA OverwriteOrdered ==
    ASSUME NEW H, NEW A, NEW t, NEW ht, Tree(H, A, t, ht),
           NEW sp, NEW e, NEW w, Ordered(H, A, sp, e, w), e \notin A,
           NEW y \in A, NEW ks, Len(ks) = Len(H[y].keys),
           \A i \in 1..Len(H[y].keys) : ks[i].key = H[y].keys[i].key,
           NEW G, KeysSet(H, G, y, ks)
    PROVE  Ordered(G, A, sp, e, w)
<1>1. Fit(H[y].keys, H[y].child, sp[y], sp)
  BY FitOf DEF Under
<1>2. \A i \in 1..Len(H[y].keys) : Mark(ks, i) = Mark(H[y].keys, i)
  BY DEF Mark
<1>3. Fit(ks, H[y].child, sp[y], sp)
  BY <1>1, <1>2 DEF Fit
<1> QED BY <1>3, NewKeysOrdered

(* Nodes given back, or links that change, leave the order of the others. *)
LEMMA FewerOrdered ==
    ASSUME NEW H, NEW A, NEW sp, NEW e, NEW w, Ordered(H, A, sp, e, w),
           NEW G, NEW B, B \subseteq A,
           \A c \in B : G[c].keys = H[c].keys /\ G[c].child = H[c].child
    PROVE  Ordered(G, B, sp, e, w)
<1>1. sp \in [Nodes -> SUBSET Int]
  BY DEF Ordered
<1>2. Kept(H, G, A, B, {}, sp, sp)
  BY DEF Kept, SameSpans
<1>3. AllFit(G, {}, sp)
  BY DEF AllFit
<1> QED BY <1>1, <1>2, <1>3, OrderFrame

(* A new root above the old one may span everything. *)
GrowSpans(sp, s) == [sp EXCEPT ![s] = Int]

(* A new root above the old one keeps the order. *)
LEMMA GrowOrdered ==
    ASSUME NEW H, NEW A, NEW t, NEW ht, Tree(H, A, t, ht),
           NEW sp, NEW e, NEW w, Ordered(H, A, sp, e, w),
           NEW s, NEW G, NEW hu, GrownOf(H, G, A, t, ht, s, hu)
    PROVE  Ordered(G, A \union {s}, GrowSpans(sp, s), e, w)
<1> DEFINE sq == GrowSpans(sp, s)
<1>1. /\ A \subseteq Nodes /\ t \in A /\ H \in [Nodes -> Node] /\ sp \in [Nodes -> SUBSET Int]
  BY TreeFacts DEF Ordered
<1>2. /\ s \in Nodes \ A
      /\ G = [H EXCEPT ![s] = [NewNode EXCEPT !.is_leaf = FALSE, !.child = <<t>>],
                       ![t].parent = s]
  BY DEF GrownOf
<1>3. /\ \A c \in A : G[c].keys = H[c].keys /\ G[c].child = H[c].child
      /\ G[s].keys = <<>> /\ G[s].child = <<t>>
  BY <1>1, <1>2 DEF NewNode, Node
<1>4. /\ sq \in [Nodes -> SUBSET Int] /\ sq[s] = Int /\ \A c \in Nodes : c # s => sq[c] = sp[c]
  BY <1>1, <1>2 DEF GrowSpans
<1> HIDE DEF sq
<1>5. Kept(H, G, A, A \union {s}, {s}, sp, sq)
  <2> SUFFICES ASSUME NEW u \in A
               PROVE  /\ G[u].keys = H[u].keys /\ G[u].child = H[u].child
                      /\ sq[u] = sp[u]
                      /\ SameSpans(H[u].child, sp, sq)
    BY DEF Kept
  <2>1. u # s /\ u \in Nodes
    BY <1>1, <1>2
  <2>2. \A j \in 1..Len(H[u].child) : H[u].child[j] \in A
    BY TreeChild
  <2>3. \A c \in A : sq[c] = sp[c]
    BY <1>1, <1>2, <1>4
  <2> QED BY <1>3, <2>1, <2>2, <2>3 DEF SameSpans
<1>6. AllFit(G, {s}, sq)
  <2>1. sq[t] \subseteq Int
    BY <1>1, <1>4
  <2>2. Fit(<<>>, <<t>>, Int, sq)
    BY <2>1 DEF Fit
  <2> QED BY <1>3, <1>4, <2>2 DEF AllFit
<1>7. Ordered(G, A \union {s}, sq, e, w)
  BY <1>4, <1>5, <1>6, OrderFrame
<1> QED BY <1>7 DEF sq

(* A tree of one key may span everything. *)
LEMMA FirstOrdered ==
    ASSUME NEW G, NEW z, NEW it \in Item, z \in Nodes,
           G[z].keys = <<it>>, G[z].child = <<>>, NEW e, NEW w
    PROVE  Ordered(G, {z}, [x \in Nodes |-> Int], e, w)
<1>1. 2 * it.key \in Int
  BY MarkOfItem
<1>2. Fit(<<it>>, <<>>, Int, [x \in Nodes |-> Int])
  BY <1>1 DEF Fit, Mark
<1>3. Sorted(G, z, [x \in Nodes |-> Int], e, w)
  BY <1>2, FitSorted
<1> QED BY <1>3 DEF Ordered

-----------------------------------------------------------------------------
(* The spans without the values of D, below height h. *)
Cut(sp, ht, h, D) == [u \in Nodes |-> IF ht[u] < h THEN sp[u] \ D ELSE sp[u]]

(* What is cut away from the spans. *)
LEMMA CutFacts ==
    ASSUME NEW sp \in [Nodes -> SUBSET Int], NEW ht, NEW h, NEW D
    PROVE  /\ Cut(sp, ht, h, D) \in [Nodes -> SUBSET Int]
           /\ \A u \in Nodes : Cut(sp, ht, h, D)[u] \subseteq sp[u]
           /\ \A u \in Nodes : \A v \in sp[u] : v \notin D => v \in Cut(sp, ht, h, D)[u]
           /\ \A u \in Nodes : ~(ht[u] < h) => Cut(sp, ht, h, D)[u] = sp[u]
           /\ \A u \in Nodes : ht[u] < h => \A v \in Cut(sp, ht, h, D)[u] : v \notin D
<1>1. ASSUME NEW u \in Nodes PROVE sp[u] \subseteq Int
  OBVIOUS
<1>2. Cut(sp, ht, h, D) \in [Nodes -> SUBSET Int]
  BY <1>1 DEF Cut
<1> QED BY <1>2 DEF Cut

(* No node below height h has a key in D. *)
NoKeyIn(H, A, ht, h, D) ==
    \A y \in A : ht[y] < h =>
       \A l \in 1..Len(H[y].keys) : Mark(H[y].keys, l) \notin D

(* Values that are no keys below a height can be cut out of the spans       *)
(* there.                                                                   *)
LEMMA CutOrdered ==
    ASSUME NEW H, NEW A, NEW t, NEW ht, Tree(H, A, t, ht),
           NEW sp, NEW e, NEW w, Ordered(H, A, sp, e, w),
           NEW h \in Int, NEW D, NoKeyIn(H, A, ht, h, D)
    PROVE  Ordered(H, A, Cut(sp, ht, h, D), e, w)
<1> DEFINE sq == Cut(sp, ht, h, D)
<1>1. sp \in [Nodes -> SUBSET Int] /\ A \subseteq Nodes
  BY TreeFacts DEF Ordered
<1>2. /\ sq \in [Nodes -> SUBSET Int]
      /\ \A u \in Nodes : sq[u] \subseteq sp[u]
      /\ \A u \in Nodes : \A v \in sp[u] : v \notin D => v \in sq[u]
      /\ \A u \in Nodes : ~(ht[u] < h) => sq[u] = sp[u]
      /\ \A u \in Nodes : ht[u] < h => \A v \in sq[u] : v \notin D
  BY <1>1, CutFacts
<1> HIDE DEF sq
<1>3. ASSUME NEW y \in A PROVE Sorted(H, y, sq, e, w)
  <2>0. y \in Nodes
    BY <1>1
  <2>1. /\ \A i, j \in 1..Len(H[y].keys) :
              i < j => Mark(H[y].keys, i) < Mark(H[y].keys, j)
        /\ \A i \in 1..Len(H[y].keys) : Mark(H[y].keys, i) \in sp[y]
    BY DEF Ordered, Sorted
  <2>2. \A i \in 1..Len(H[y].keys) : Mark(H[y].keys, i) \in sq[y]
    <3>1. CASE ht[y] < h
      <4>1. \A l \in 1..Len(H[y].keys) : Mark(H[y].keys, l) \notin D
        BY <3>1 DEF NoKeyIn
      <4> QED BY <1>2, <2>0, <2>1, <4>1
    <3>2. CASE ~(ht[y] < h)
      BY <1>2, <2>0, <2>1, <3>2
    <3> QED BY <3>1, <3>2
  <2>3. ASSUME NEW i \in 1..Len(H[y].child), NEW v \in sq[H[y].child[i]]
        PROVE  /\ v \in sq[y]
               /\ \A l \in 1..Len(H[y].keys) :
                     /\ i <= l => v <= Mark(H[y].keys, l)
                     /\ l < i => Mark(H[y].keys, l) <= v
                     /\ v = Mark(H[y].keys, l) => H[y].child[i] = e /\ v = w
    <3>1. /\ H[y].child[i] \in A /\ ht[y] \in Nat /\ ht[H[y].child[i]] = ht[y] - 1
      BY TreeChild
    <3>2. v \in sp[H[y].child[i]] /\ H[y].child[i] \in Nodes
      BY <1>1, <1>2, <3>1
    <3>3. /\ v \in sp[y]
          /\ \A l \in 1..Len(H[y].keys) :
                /\ i <= l => v <= Mark(H[y].keys, l)
                /\ l < i => Mark(H[y].keys, l) <= v
                /\ v = Mark(H[y].keys, l) => H[y].child[i] = e /\ v = w
      BY <3>2, ChildSpan
    <3>4. v \in sq[y]
      <4>1. CASE ht[y] < h
        <5>1. ht[H[y].child[i]] < h
          BY <3>1, <4>1
        <5>2. v \notin D
          BY <1>2, <3>2, <5>1
        <5> QED BY <1>2, <2>0, <3>3, <5>2
      <4>2. CASE ~(ht[y] < h)
        BY <1>2, <2>0, <3>3, <4>2
      <4> QED BY <4>1, <4>2
    <3> QED BY <3>3, <3>4
  <2> QED BY <2>1, <2>2, <2>3 DEF Sorted
<1>4. Ordered(H, A, sq, e, w)
  BY <1>2, <1>3 DEF Ordered
<1> QED BY <1>4 DEF sq

(* Once the exempt key is not below the exempt node any more, the          *)
(* exemption can be forgotten.                                             *)
LEMMA ForgetOrdered ==
    ASSUME NEW H, NEW A, NEW t, NEW ht, Tree(H, A, t, ht),
           NEW sp, NEW e, NEW w, Ordered(H, A, sp, e, w), e \in A,
           NoKeyIn(H, A, ht, ht[e] + 1, {w}), NEW f
    PROVE  \E sq : Ordered(H, A, sq, f, w)
<1> DEFINE sq == Cut(sp, ht, ht[e] + 1, {w})
<1>1. ht[e] \in Nat /\ e \in Nodes /\ sp \in [Nodes -> SUBSET Int] /\ A \subseteq Nodes
  BY TreeFacts DEF Ordered
<1>2. Ordered(H, A, sq, e, w)
  BY <1>1, CutOrdered
<1>3. w \notin sq[e]
  <2>1. ht[e] < ht[e] + 1
    BY <1>1
  <2> QED BY <1>1, <2>1, CutFacts
<1> HIDE DEF sq
<1>4. ASSUME NEW y \in A PROVE Sorted(H, y, sq, f, w)
  <2>1. Sorted(H, y, sq, e, w)
    BY <1>2 DEF Ordered
  <2> QED BY <1>3, <2>1 DEF Sorted
<1>5. Ordered(H, A, sq, f, w)
  BY <1>2, <1>4 DEF Ordered
<1> QED BY <1>5

(* The values from K on towards P, without P. *)
Gap(P, K) == {v \in Int : (P < v /\ v <= K) \/ (K <= v /\ v < P)}

(* No other node has a key in the gap that the replacement of key i of x   *)
(* by a key with the mark P leaves.                                        *)
Alone(H, A, x, i, P) ==
    \A y \in A : \A l \in 1..Len(H[y].keys) :
       Mark(H[y].keys, l) \in Gap(P, Mark(H[x].keys, i)) => y = x /\ l = i

(* Key i of the inner node x is replaced by one with the mark P from the   *)
(* subtree of its child f, beside it.                                      *)
ReplaceSite(H, A, sp, x, i, f, P) ==
    /\ x \in A /\ ~H[x].is_leaf /\ i \in 1..Len(H[x].keys)
    /\ f \in {i, i + 1} /\ P \in sp[H[x].child[f]]

(* Replacing a key by its neighbour keeps the order, with the child the     *)
(* neighbour is below exempt: the key is now in two places.                 *)
LEMMA ReplaceOrdered ==
    ASSUME NEW H, NEW A, NEW t, NEW ht, Tree(H, A, t, ht),
           NEW sp, NEW e, NEW w, Ordered(H, A, sp, e, w), e \notin A,
           NEW x, NEW i, NEW f, NEW P, ReplaceSite(H, A, sp, x, i, f, P),
           Alone(H, A, x, i, P),
           NEW ks, Len(ks) = Len(H[x].keys), Mark(ks, i) = P,
           \A l \in 1..Len(H[x].keys) : l # i => ks[l] = H[x].keys[l],
           NEW G, KeysSet(H, G, x, ks)
    PROVE  \E sq : Ordered(G, A, sq, H[x].child[f], P) /\ P \in sq[H[x].child[f]]
<1> DEFINE c == H[x].child[f]
           K == Mark(H[x].keys, i)
           sq == Cut(sp, ht, ht[x], Gap(P, K))
<1>1. /\ x \in A /\ ~H[x].is_leaf /\ i \in 1..Len(H[x].keys)
      /\ f \in {i, i + 1} /\ P \in sp[c]
  BY DEF ReplaceSite
<1>2. /\ ht[x] \in Nat /\ x \in Nodes /\ sp \in [Nodes -> SUBSET Int] /\ A \subseteq Nodes
      /\ Len(H[x].keys) \in Nat /\ Len(H[x].child) = Len(H[x].keys) + 1
  BY <1>1, TreeFacts DEF Ordered
<1>3. f \in 1..Len(H[x].child) /\ i \in Int
  BY <1>1, <1>2
<1>4. c \in A /\ c \in Nodes /\ ht[c] = ht[x] - 1 /\ c # x
  BY <1>1, <1>2, <1>3, TreeChild
<1>5. P \in Int /\ K \in Int
  BY <1>1, <1>2, <1>4, MarkInt
<1>6. Ordered(H, A, sq, e, w)
  <2>1. NoKeyIn(H, A, ht, ht[x], Gap(P, K))
    <3> SUFFICES ASSUME NEW y \in A, ht[y] < ht[x], NEW l \in 1..Len(H[y].keys)
                 PROVE  Mark(H[y].keys, l) \notin Gap(P, K)
      BY DEF NoKeyIn
    <3>1. y # x
      BY <1>2
    <3> QED BY <3>1 DEF Alone
  <2> QED BY <1>2, <2>1, CutOrdered
<1>7. /\ sq \in [Nodes -> SUBSET Int]
      /\ \A u \in Nodes : \A v \in sp[u] : v \notin Gap(P, K) => v \in sq[u]
      /\ \A u \in Nodes : ~(ht[u] < ht[x]) => sq[u] = sp[u]
      /\ \A u \in Nodes : ht[u] < ht[x] => \A v \in sq[u] : v \notin Gap(P, K)
  BY <1>2, CutFacts
<1>8. P \notin Gap(P, K)
  BY <1>5 DEF Gap
<1>9. P \in sq[c]
  BY <1>1, <1>4, <1>7, <1>8
<1>10. sq[x] = sp[x]
  BY <1>2, <1>7
<1> HIDE DEF sq, K, c
<1>11. /\ G[x].keys = ks /\ \A u \in Nodes \ {x} : G[u].keys = H[u].keys
       /\ \A u \in Nodes : G[u].child = H[u].child
  BY DEF KeysSet
<1>12. ASSUME NEW y \in A, y # x PROVE Sorted(G, y, sq, c, P)
  <2>1. Fit(H[y].keys, H[y].child, sq[y], sq)
    BY <1>6, FitOf DEF Under
  <2>2. G[y].keys = H[y].keys /\ G[y].child = H[y].child
    BY <1>2, <1>11, <1>12
  <2>3. Fit(G[y].keys, G[y].child, sq[y], sq)
    BY <2>1, <2>2
  <2> QED BY <2>3, FitSorted
<1>13. Sorted(G, x, sq, c, P)
  <2>1. Fit(H[x].keys, H[x].child, sq[x], sq)
    BY <1>1, <1>6, FitOf DEF Under
  <2>2. /\ \A j \in 1..Len(H[x].keys) :
              Mark(H[x].keys, j) \in Int /\ Mark(H[x].keys, j) \in sq[x]
        /\ \A j, l \in 1..Len(H[x].keys) :
              j < l => Mark(H[x].keys, j) < Mark(H[x].keys, l)
        /\ \A j \in 1..Len(H[x].child) : \A v \in sq[H[x].child[j]] :
              /\ v \in Int /\ v \in sq[x]
              /\ \A l \in 1..Len(H[x].keys) :
                    /\ j <= l => v < Mark(H[x].keys, l)
                    /\ l < j => Mark(H[x].keys, l) < v
    BY <2>1 DEF Fit
  <2>3. /\ Mark(ks, i) = P /\ Mark(H[x].keys, i) = K
        /\ \A l \in 1..Len(H[x].keys) : l # i => Mark(ks, l) = Mark(H[x].keys, l)
    BY DEF Mark, K
  <2>4. H[x].child[f] = c
    BY DEF c
  <2>5. \A l \in 1..Len(H[x].keys) :
           /\ l < i => Mark(H[x].keys, l) < P
           /\ i < l => P < Mark(H[x].keys, l)
    <3> SUFFICES ASSUME NEW l \in 1..Len(H[x].keys)
                 PROVE  /\ l < i => Mark(H[x].keys, l) < P
                        /\ i < l => P < Mark(H[x].keys, l)
      OBVIOUS
    <3>1. /\ f <= l => P < Mark(H[x].keys, l)
          /\ l < f => Mark(H[x].keys, l) < P
      BY <1>3, <1>9, <2>2, <2>4
    <3>2. l < i => l < f
      BY <1>1, <1>3
    <3>3. i < l => f <= l
      BY <1>1, <1>3
    <3> QED BY <3>1, <3>2, <3>3
  <2>6. /\ f = i => P < K
        /\ f = i + 1 => K < P
    <3>1. /\ f <= i => P < K
          /\ i < f => K < P
      BY <1>1, <1>3, <1>9, <2>2, <2>3, <2>4
    <3> QED BY <1>3, <3>1
  <2>7. \A j, l \in 1..Len(H[x].keys) : j < l => Mark(ks, j) < Mark(ks, l)
    <3> SUFFICES ASSUME NEW j \in 1..Len(H[x].keys), NEW l \in 1..Len(H[x].keys), j < l
                 PROVE  Mark(ks, j) < Mark(ks, l)
      OBVIOUS
    <3>1. CASE j = i
      <4>1. l # i
        BY <1>3, <3>1
      <4> QED BY <2>3, <2>5, <3>1, <4>1
    <3>2. CASE l = i
      <4>1. j # i
        BY <1>3, <3>2
      <4> QED BY <2>3, <2>5, <3>2, <4>1
    <3>3. CASE j # i /\ l # i
      BY <2>2, <2>3, <3>3
    <3> QED BY <3>1, <3>2, <3>3
  <2>8. P \in sq[x]
    BY <1>3, <1>9, <2>2, <2>4
  <2>9. \A j \in 1..Len(H[x].keys) : Mark(ks, j) \in sq[x]
    <3> SUFFICES ASSUME NEW j \in 1..Len(H[x].keys) PROVE Mark(ks, j) \in sq[x]
      OBVIOUS
    <3>1. CASE j = i
      BY <2>3, <2>8, <3>1
    <3>2. CASE j # i
      BY <2>2, <2>3, <3>2
    <3> QED BY <3>1, <3>2
  <2>10. ASSUME NEW j \in 1..Len(H[x].child), NEW v \in sq[H[x].child[j]]
         PROVE  /\ v \in sq[x]
                /\ \A l \in 1..Len(H[x].keys) :
                      /\ j <= l => v <= Mark(ks, l)
                      /\ l < j => Mark(ks, l) <= v
                      /\ v = Mark(ks, l) => H[x].child[j] = c /\ v = P
    <3>1. /\ v \in Int /\ v \in sq[x]
          /\ \A l \in 1..Len(H[x].keys) :
                /\ j <= l => v < Mark(H[x].keys, l)
                /\ l < j => Mark(H[x].keys, l) < v
      BY <2>2
    <3>2. ASSUME NEW l \in 1..Len(H[x].keys), l # i
          PROVE  /\ j <= l => v <= Mark(ks, l)
                 /\ l < j => Mark(ks, l) <= v
                 /\ v # Mark(ks, l)
      <4>1. Mark(ks, l) = Mark(H[x].keys, l) /\ Mark(H[x].keys, l) \in Int
        BY <2>2, <2>3, <3>2
      <4>2. /\ j <= l => v < Mark(H[x].keys, l)
            /\ l < j => Mark(H[x].keys, l) < v
        BY <3>1
      <4>3. \A a, b \in Int : a < b => a <= b /\ a # b
        OBVIOUS
      <4>4. j <= l \/ l < j
        OBVIOUS
      <4> QED BY <3>1, <4>1, <4>2, <4>3, <4>4
    <3>3. /\ j <= i => v < K
          /\ i < j => K < v
      BY <1>1, <2>3, <3>1
    <3>4. v \notin Gap(P, K)
      <4>1. /\ H[x].child[j] \in A /\ ht[H[x].child[j]] = ht[x] - 1
        BY <1>1, TreeChild
      <4>2. H[x].child[j] \in Nodes /\ ht[H[x].child[j]] < ht[x]
        BY <1>2, <4>1
      <4> QED BY <1>7, <4>2
    <3>5. /\ j <= i => v <= P
          /\ i < j => P <= v
      <4>1. ~(P < v /\ v <= K) /\ ~(K <= v /\ v < P)
        BY <3>1, <3>4 DEF Gap
      <4>2. \A a, b, g \in Int : ~(a < g /\ g <= b) /\ g < b => g <= a
        OBVIOUS
      <4>3. \A a, b, g \in Int : ~(b <= g /\ g < a) /\ b < g => a <= g
        OBVIOUS
      <4> QED BY <1>5, <3>1, <3>3, <4>1, <4>2, <4>3
    <3>6. v = P => H[x].child[j] = c
      <4> SUFFICES ASSUME v = P PROVE H[x].child[j] = c
        OBVIOUS
      <4>1. P \in sq[H[x].child[f]] /\ P \in sq[H[x].child[j]]
        BY <1>9, <2>4
      <4>2. f = j
        <5>1. CASE f < j
          <6>1. f \in 1..Len(H[x].keys) /\ f <= f
            BY <1>2, <1>3, <5>1
          <6>2. P < Mark(H[x].keys, f) /\ Mark(H[x].keys, f) < P
            BY <1>3, <2>2, <4>1, <5>1, <6>1
          <6>3. Mark(H[x].keys, f) \in Int
            BY <2>2, <6>1
          <6> QED BY <1>5, <6>2, <6>3
        <5>2. CASE j < f
          <6>1. j \in 1..Len(H[x].keys) /\ j <= j
            BY <1>2, <1>3, <5>2
          <6>2. P < Mark(H[x].keys, j) /\ Mark(H[x].keys, j) < P
            BY <1>3, <2>2, <4>1, <5>2, <6>1
          <6>3. Mark(H[x].keys, j) \in Int
            BY <2>2, <6>1
          <6> QED BY <1>5, <6>2, <6>3
        <5> QED BY <1>3, <5>1, <5>2
      <4> QED BY <2>4, <4>2
    <3>7. /\ j <= i => v <= Mark(ks, i)
          /\ i < j => Mark(ks, i) <= v
          /\ v = Mark(ks, i) => H[x].child[j] = c /\ v = P
      BY <2>3, <3>5, <3>6
    <3> QED BY <3>1, <3>2, <3>7
  <2>11. G[x].child = H[x].child /\ G[x].keys = ks /\ Len(ks) = Len(H[x].keys)
    BY <1>2, <1>11
  <2>12. \A j \in 1..Len(H[x].child) : \A v \in sq[H[x].child[j]] :
            /\ v \in sq[x]
            /\ \A l \in 1..Len(H[x].keys) :
                  /\ j <= l => v <= Mark(ks, l)
                  /\ l < j => Mark(ks, l) <= v
                  /\ v = Mark(ks, l) => H[x].child[j] = c /\ v = P
    BY <2>10
  <2> QED BY <2>7, <2>9, <2>11, <2>12, Zenon DEF Sorted
<1>14. Ordered(G, A, sq, c, P)
  BY <1>7, <1>12, <1>13 DEF Ordered
<1> QED BY <1>9, <1>14 DEF c

(* The predecessor of key i of x, the last key of a leaf that reaches up   *)
(* to that key, leaves an empty gap ...                                    *)
LEMMA PredAlone ==
    ASSUME NEW H, NEW A, NEW t, NEW ht, Tree(H, A, t, ht),
           NEW sp, NEW e, NEW w, Ordered(H, A, sp, e, w), e \notin A,
           NEW x \in A, NEW i \in 1..Len(H[x].keys),
           NEW y \in A, H[y].is_leaf, NEW q, q = Len(H[y].keys), q >= 1,
           Mark(H[x].keys, i) - 1 \in sp[y],
           Mark(H[y].keys, q) < Mark(H[x].keys, i)
    PROVE  Alone(H, A, x, i, Mark(H[y].keys, q))
<1> DEFINE P == Mark(H[y].keys, q)
           K == Mark(H[x].keys, i)
<1>1. q \in 1..Len(H[y].keys) /\ ht[y] = 0
  BY TreeFacts
<1>2. P \in Int /\ K \in Int
  BY <1>1, MarkInt
<1>3. P \in sp[y]
  BY <1>1 DEF Ordered, Sorted
<1> SUFFICES ASSUME NEW u \in A, NEW l \in 1..Len(H[u].keys),
                    Mark(H[u].keys, l) \in Gap(P, K)
             PROVE  u = x /\ l = i
  BY DEF Alone
<1> DEFINE v == Mark(H[u].keys, l)
<1>4. v \in Int /\ P < v /\ v <= K
  <2>1. v \in Int /\ ((P < v /\ v <= K) \/ (K <= v /\ v < P))
    BY DEF Gap
  <2>2. P < K
    OBVIOUS
  <2> HIDE DEF v, P, K
  <2> QED BY <1>2, <2>1, <2>2
<1>5. CASE v = K
  BY <1>5, KeysUnique
<1>6. CASE v # K
  <2>1. P <= v /\ v <= K - 1
    <3> HIDE DEF v, P, K
    <3> QED BY <1>2, <1>4, <1>6
  <2>2. CASE ht[u] = 0
    <3>1. v \in sp[u]
      BY DEF Ordered, Sorted
    <3>2. y = u
      BY <1>1, <1>3, <2>1, <2>2, <3>1, SameNode
    <3>3. l <= q /\ l \in 1..Len(H[y].keys)
      BY <1>1, <3>2
    <3>4. v <= P
      BY <1>1, <3>2, <3>3, MarksAscend
    <3> HIDE DEF v, P
    <3> QED BY <1>2, <1>4, <3>4
  <2>3. CASE ht[u] # 0
    <3>1. ht[y] < ht[u]
      <4>1. ht[u] \in Nat
        BY TreeFacts
      <4> QED BY <1>1, <2>3, <4>1
    <3>2. e \in A
      BY <1>3, <2>1, <3>1, KeyAbove
    <3> QED BY <3>2
  <2> QED BY <2>2, <2>3
<1> QED BY <1>5, <1>6

(* ... and so does its successor. *)
LEMMA SuccAlone ==
    ASSUME NEW H, NEW A, NEW t, NEW ht, Tree(H, A, t, ht),
           NEW sp, NEW e, NEW w, Ordered(H, A, sp, e, w), e \notin A,
           NEW x \in A, NEW i \in 1..Len(H[x].keys),
           NEW y \in A, H[y].is_leaf, Len(H[y].keys) >= 1,
           Mark(H[x].keys, i) + 1 \in sp[y],
           Mark(H[x].keys, i) < Mark(H[y].keys, 1)
    PROVE  Alone(H, A, x, i, Mark(H[y].keys, 1))
<1> DEFINE P == Mark(H[y].keys, 1)
           K == Mark(H[x].keys, i)
<1>1. 1 \in 1..Len(H[y].keys) /\ ht[y] = 0
  BY TreeFacts
<1>2. P \in Int /\ K \in Int
  BY <1>1, MarkInt
<1>3. P \in sp[y]
  BY <1>1 DEF Ordered, Sorted
<1> SUFFICES ASSUME NEW u \in A, NEW l \in 1..Len(H[u].keys),
                    Mark(H[u].keys, l) \in Gap(P, K)
             PROVE  u = x /\ l = i
  BY DEF Alone
<1> DEFINE v == Mark(H[u].keys, l)
<1>4. v \in Int /\ K <= v /\ v < P
  <2>1. v \in Int /\ ((P < v /\ v <= K) \/ (K <= v /\ v < P))
    BY DEF Gap
  <2>2. K < P
    OBVIOUS
  <2> HIDE DEF v, P, K
  <2> QED BY <1>2, <2>1, <2>2
<1>5. CASE v = K
  BY <1>5, KeysUnique
<1>6. CASE v # K
  <2>1. K + 1 <= v /\ v <= P
    <3> HIDE DEF v, P, K
    <3> QED BY <1>2, <1>4, <1>6
  <2>2. CASE ht[u] = 0
    <3>1. v \in sp[u]
      BY DEF Ordered, Sorted
    <3>2. y = u
      BY <1>1, <1>3, <2>1, <2>2, <3>1, SameNode
    <3>3. 1 <= l /\ l \in 1..Len(H[y].keys)
      BY <3>2
    <3>4. P <= v
      BY <1>1, <3>2, <3>3, MarksAscend
    <3> HIDE DEF v, P
    <3> QED BY <1>2, <1>4, <3>4
  <2>3. CASE ht[u] # 0
    <3>1. ht[y] < ht[u]
      <4>1. ht[u] \in Nat
        BY TreeFacts
      <4> QED BY <1>1, <2>3, <4>1
    <3>2. e \in A
      BY <1>3, <2>1, <3>1, KeyAbove
    <3> QED BY <3>2
  <2> QED BY <2>2, <2>3
<1> QED BY <1>5, <1>6

-----------------------------------------------------------------------------
(* The item it is one of the keys ks of a node. *)
InSeq(it, ks) == \E i \in 1..Len(ks) : ks[i] = it

(* Cutting a node at a key neither copies nor drops an item. *)
LEMMA CutItems ==
    ASSUME NEW ks, NEW cs, NEW a, NEW lk, NEW lc, NEW rk, NEW rc,
           CutAt(ks, cs, a, lk, lc, rk, rc), NEW it
    PROVE  InSeq(it, ks) <=> InSeq(it, lk) \/ it = ks[a] \/ InSeq(it, rk)
<1>1. /\ Len(ks) \in Nat /\ a \in 1..Len(ks)
      /\ Len(lk) = a - 1 /\ \A i \in 1..(a - 1) : lk[i] = ks[i]
      /\ Len(rk) = Len(ks) - a /\ \A i \in 1..(Len(ks) - a) : rk[i] = ks[a + i]
  BY Zenon DEF CutAt
<1>2. ASSUME NEW i \in 1..Len(ks)
      PROVE  InSeq(ks[i], lk) \/ ks[i] = ks[a] \/ InSeq(ks[i], rk)
  <2>1. CASE i < a
    <3>1. i \in 1..(a - 1)
      BY <1>1, <2>1
    <3> QED BY <1>1, <3>1 DEF InSeq
  <2>2. CASE a < i
    <3>1. i - a \in 1..(Len(ks) - a) /\ a + (i - a) = i
      BY <1>1, <2>2
    <3>2. rk[i - a] = ks[i]
      BY <1>1, <3>1
    <3> QED BY <1>1, <3>1, <3>2 DEF InSeq
  <2> QED BY <1>1, <2>1, <2>2
<1>3. ASSUME NEW i \in 1..Len(lk) PROVE InSeq(lk[i], ks)
  <2>1. i \in 1..(a - 1) /\ i \in 1..Len(ks)
    BY <1>1
  <2> QED BY <1>1, <2>1 DEF InSeq
<1>4. ASSUME NEW i \in 1..Len(rk) PROVE InSeq(rk[i], ks)
  <2>1. i \in 1..(Len(ks) - a) /\ a + i \in 1..Len(ks)
    BY <1>1
  <2> QED BY <1>1, <2>1 DEF InSeq
<1>5. InSeq(ks[a], ks)
  BY <1>1 DEF InSeq
<1>6. InSeq(it, ks) => InSeq(it, lk) \/ it = ks[a] \/ InSeq(it, rk)
  BY <1>2 DEF InSeq
<1>7. InSeq(it, lk) => InSeq(it, ks)
  BY <1>3 DEF InSeq
<1>8. InSeq(it, rk) => InSeq(it, ks)
  BY <1>4 DEF InSeq
<1> QED BY <1>5, <1>6, <1>7, <1>8

(* An extended node has one item more. *)
LEMMA ExtendItems ==
    ASSUME NEW ks, NEW cs, NEW ks2, NEW cs2, NEW p, NEW new, NEW z,
           Extended(ks, cs, ks2, cs2, p, new, z), NEW it
    PROVE  InSeq(it, ks2) <=> InSeq(it, ks) \/ it = new
<1>1. /\ Len(ks) \in Nat /\ p \in 1..(Len(ks) + 1) /\ Len(ks2) = Len(ks) + 1
      /\ \A j \in 1..(Len(ks) + 1) : ks2[j] =
            IF j < p THEN ks[j] ELSE IF j = p THEN new ELSE ks[j - 1]
  BY Zenon DEF Extended
<1>2. ASSUME NEW i \in 1..Len(ks2) PROVE InSeq(ks2[i], ks) \/ ks2[i] = new
  <2>1. CASE i < p
    <3>1. i \in 1..Len(ks) /\ ks2[i] = ks[i]
      BY <1>1, <2>1
    <3> QED BY <3>1 DEF InSeq
  <2>2. CASE p < i
    <3>1. i - 1 \in 1..Len(ks) /\ ~(i < p) /\ i # p /\ i \in 1..(Len(ks) + 1)
      BY <1>1, <2>2
    <3>2. ks2[i] = ks[i - 1]
      BY <1>1, <3>1
    <3> QED BY <3>1, <3>2 DEF InSeq
  <2>3. CASE i = p
    <3>1. ~(i < p) /\ i \in 1..(Len(ks) + 1)
      BY <1>1, <2>3
    <3> QED BY <1>1, <2>3, <3>1
  <2> QED BY <1>1, <2>1, <2>2, <2>3
<1>3. ASSUME NEW i \in 1..Len(ks) PROVE InSeq(ks[i], ks2)
  <2>1. CASE i < p
    <3>1. i \in 1..Len(ks2) /\ ks2[i] = ks[i]
      BY <1>1, <2>1
    <3> QED BY <3>1 DEF InSeq
  <2>2. CASE ~(i < p)
    <3>1. i + 1 \in 1..(Len(ks) + 1) /\ ~(i + 1 < p) /\ i + 1 # p /\ (i + 1) - 1 = i
      BY <1>1, <2>2
    <3>2. ks2[i + 1] = ks[i] /\ i + 1 \in 1..Len(ks2)
      BY <1>1, <3>1
    <3> QED BY <3>2 DEF InSeq
  <2> QED BY <2>1, <2>2
<1>4. InSeq(new, ks2)
  <2>1. p \in 1..Len(ks2) /\ ~(p < p)
    BY <1>1
  <2>2. ks2[p] = new
    BY <1>1, <2>1
  <2> QED BY <2>1, <2>2 DEF InSeq
<1>5. InSeq(it, ks2) => InSeq(it, ks) \/ it = new
  BY <1>2 DEF InSeq
<1>6. InSeq(it, ks) => InSeq(it, ks2)
  BY <1>3 DEF InSeq
<1> QED BY <1>4, <1>5, <1>6

(* The item it is a key of one of the nodes A. *)
Stores(H, A, it) == \E x \in A : InSeq(it, H[x].keys)

(* split_child neither copies nor drops a key. *)
LEMMA SplitStores ==
    ASSUME NEW H, NEW A, NEW t, NEW ht, Tree(H, A, t, ht),
           NEW x, NEW p, NEW y, NEW z, SplitSite(H, A, x, p, y, z), y \in A,
           NEW G, SplitOf(H, G, x, p, y, z), NEW it
    PROVE  Stores(G, A \union {z}, it) <=> Stores(H, A, it)
<1>1. /\ CutAt(H[y].keys, H[y].child, T,
               G[y].keys, G[y].child, G[z].keys, G[z].child)
      /\ Extended(H[x].keys, H[x].child, G[x].keys, G[x].child, p, H[y].keys[T], z)
      /\ \A c \in Nodes \ {x, y, z} : G[c].keys = H[c].keys /\ G[c].child = H[c].child
  BY SplitPieces
<1>2. InSeq(it, H[y].keys) <=>
         InSeq(it, G[y].keys) \/ it = H[y].keys[T] \/ InSeq(it, G[z].keys)
  BY <1>1, CutItems
<1>3. InSeq(it, G[x].keys) <=> InSeq(it, H[x].keys) \/ it = H[y].keys[T]
  BY <1>1, ExtendItems
<1>4. x \in A /\ z \in Nodes \ A /\ A \subseteq Nodes
  BY TreeFacts DEF SplitSite
<1>5. \A c \in A \ {x, y} : InSeq(it, G[c].keys) <=> InSeq(it, H[c].keys)
  BY <1>1, <1>4
<1>6. InSeq(it, G[x].keys) \/ InSeq(it, G[y].keys) \/ InSeq(it, G[z].keys)
         <=> InSeq(it, H[x].keys) \/ InSeq(it, H[y].keys)
  BY <1>2, <1>3
<1>7. Stores(G, A \union {z}, it) <=>
         \/ InSeq(it, G[x].keys) \/ InSeq(it, G[y].keys) \/ InSeq(it, G[z].keys)
         \/ \E c \in A \ {x, y} : InSeq(it, G[c].keys)
  BY <1>4 DEF Stores
<1>8. Stores(H, A, it) <=>
         \/ InSeq(it, H[x].keys) \/ InSeq(it, H[y].keys)
         \/ \E c \in A \ {x, y} : InSeq(it, H[c].keys)
  BY <1>4 DEF Stores
<1> QED BY <1>5, <1>6, <1>7, <1>8

(* merge moves a key down and the keys of one node to another one of its   *)
(* height.                                                                 *)
LEMMA MergeItems ==
    ASSUME NEW H, NEW A, NEW t, NEW ht, Tree(H, A, t, ht),
           NEW x, NEW q, NEW l, NEW r, Beside(H, A, x, q, l, r),
           NEW G, MergeOf(H, G, x, q, l, r), NEW it
    PROVE  /\ InSeq(it, H[x].keys) <=> InSeq(it, G[x].keys) \/ it = H[x].keys[q]
           /\ InSeq(it, G[l].keys) <=>
                 InSeq(it, H[l].keys) \/ it = H[x].keys[q] \/ InSeq(it, H[r].keys)
           /\ \A c \in A \ {x, l, r} : G[c].keys = H[c].keys
<1>1. /\ CutAt(G[l].keys, G[l].child, Len(H[l].keys) + 1,
               H[l].keys, H[l].child, H[r].keys, H[r].child)
      /\ G[l].keys[Len(H[l].keys) + 1] = H[x].keys[q]
      /\ Extended(G[x].keys, G[x].child, H[x].keys, H[x].child, q, H[x].keys[q], r)
      /\ \A c \in Nodes \ {x, l, r} : G[c].keys = H[c].keys /\ G[c].child = H[c].child
  BY MergePieces
<1>2. InSeq(it, H[x].keys) <=> InSeq(it, G[x].keys) \/ it = H[x].keys[q]
  BY <1>1, ExtendItems
<1>3. InSeq(it, G[l].keys) <=>
         InSeq(it, H[l].keys) \/ it = H[x].keys[q] \/ InSeq(it, H[r].keys)
  <2>1. InSeq(it, G[l].keys) <=>
           InSeq(it, H[l].keys) \/ it = G[l].keys[Len(H[l].keys) + 1] \/ InSeq(it, H[r].keys)
    BY <1>1, CutItems
  <2> QED BY <1>1, <2>1
<1>4. A \subseteq Nodes
  BY TreeFacts
<1> QED BY <1>1, <1>2, <1>3, <1>4

(* merge neither copies nor drops a key. *)
LEMMA MergeStores ==
    ASSUME NEW H, NEW A, NEW t, NEW ht, Tree(H, A, t, ht),
           NEW x, NEW q, NEW l, NEW r, Beside(H, A, x, q, l, r),
           NEW G, MergeOf(H, G, x, q, l, r), NEW it
    PROVE  Stores(G, A \ {r}, it) <=> Stores(H, A, it)
<1>1. /\ InSeq(it, H[x].keys) <=> InSeq(it, G[x].keys) \/ it = H[x].keys[q]
      /\ InSeq(it, G[l].keys) <=>
            InSeq(it, H[l].keys) \/ it = H[x].keys[q] \/ InSeq(it, H[r].keys)
      /\ \A c \in A \ {x, l, r} : G[c].keys = H[c].keys
  BY MergeItems
<1>2. x \in A /\ l \in A /\ r \in A /\ x # l /\ x # r /\ l # r
  BY BesideFacts
<1>3. InSeq(it, G[x].keys) \/ InSeq(it, G[l].keys)
         <=> InSeq(it, H[x].keys) \/ InSeq(it, H[l].keys) \/ InSeq(it, H[r].keys)
  BY <1>1
<1>4. Stores(G, A \ {r}, it) <=>
         \/ InSeq(it, G[x].keys) \/ InSeq(it, G[l].keys)
         \/ \E c \in A \ {x, l, r} : InSeq(it, G[c].keys)
  BY <1>2 DEF Stores
<1>5. Stores(H, A, it) <=>
         \/ InSeq(it, H[x].keys) \/ InSeq(it, H[l].keys) \/ InSeq(it, H[r].keys)
         \/ \E c \in A \ {x, l, r} : InSeq(it, H[c].keys)
  BY <1>2 DEF Stores
<1>6. (\E c \in A \ {x, l, r} : InSeq(it, G[c].keys)) <=>
      (\E c \in A \ {x, l, r} : InSeq(it, H[c].keys))
  BY <1>1
<1> QED BY <1>3, <1>4, <1>5, <1>6

(* One key goes up to x and one goes down to ch; it is any item. *)
Borrows(H, G, A, x, q, ch, sib, d, it) ==
    /\ InSeq(it, G[ch].keys) <=> InSeq(it, H[ch].keys) \/ it = H[x].keys[q]
    /\ InSeq(it, H[sib].keys) <=> InSeq(it, G[sib].keys) \/ it = Lent(H[sib].keys, d)
    /\ InSeq(it, G[x].keys) => InSeq(it, H[x].keys) \/ it = Lent(H[sib].keys, d)
    /\ InSeq(it, H[x].keys) => InSeq(it, G[x].keys) \/ it = H[x].keys[q]
    /\ InSeq(Lent(H[sib].keys, d), G[x].keys)
    /\ InSeq(H[x].keys[q], H[x].keys)
    /\ \A c \in A \ {x, ch, sib} : G[c].keys = H[c].keys

(* A borrow moves one key up and one key down. *)
LEMMA BorrowItems ==
    ASSUME NEW H, NEW A, NEW t, NEW ht, Tree(H, A, t, ht),
           NEW x, NEW q, NEW ch, NEW sib, NEW d \in {0, 1},
           q \in 1..Len(H[x].keys),
           BorrowSite(H, A, x, ch, sib),
           NEW G, BorrowOf(H, G, x, q, ch, sib, d), NEW it
    PROVE  Borrows(H, G, A, x, q, ch, sib, d, it)
<1>1. /\ Len(G[x].keys) = Len(H[x].keys)
      /\ \A j \in 1..Len(H[x].keys) : G[x].keys[j] =
            IF j = q THEN Lent(H[sib].keys, d) ELSE H[x].keys[j]
      /\ Len(G[ch].keys) = Len(H[ch].keys) + 1
      /\ \A j \in 1..Len(H[ch].keys) : G[ch].keys[j + d] = H[ch].keys[j]
      /\ G[ch].keys[IF d = 1 THEN 1 ELSE Len(H[ch].keys) + 1] = H[x].keys[q]
      /\ Len(G[sib].keys) = Len(H[sib].keys) - 1
      /\ \A j \in 1..(Len(H[sib].keys) - 1) :
            G[sib].keys[j] = H[sib].keys[j + (1 - d)]
      /\ \A c \in Nodes \ {x, ch, sib} : G[c].keys = H[c].keys
  BY Zenon DEF BorrowOf
<1>2. /\ Len(H[ch].keys) \in Nat /\ Len(H[sib].keys) \in Nat /\ Len(H[sib].keys) >= 1
      /\ A \subseteq Nodes
  <2>1. Len(H[ch].keys) \in Nat /\ Len(H[sib].keys) \in Nat
           /\ Len(H[sib].keys) >= MIN_DEGREE + 1
    BY BorrowSiteFacts
  <2>2. \A a \in Nat : a >= MIN_DEGREE + 1 => a >= 1
    BY TAssumption DEF MIN_DEGREE
  <2> QED BY <2>1, <2>2, TreeFacts
<1> DEFINE hc == H[ch].keys
           gc == G[ch].keys
           hs == H[sib].keys
           gs == G[sib].keys
           up == Lent(hs, d)
           down == H[x].keys[q]
<1>3. InSeq(it, gc) <=> InSeq(it, hc) \/ it = down
  <2>1. /\ Len(hc) \in Nat /\ Len(gc) = Len(hc) + 1
        /\ \A j \in 1..Len(hc) : gc[j + d] = hc[j]
        /\ gc[IF d = 1 THEN 1 ELSE Len(hc) + 1] = down
    BY <1>1, <1>2
  <2> HIDE DEF hc, gc, down
  <2>2. ASSUME NEW i \in 1..Len(hc) PROVE InSeq(hc[i], gc)
    <3>1. i + d \in 1..Len(gc)
      BY <2>1
    <3> QED BY <2>1, <3>1 DEF InSeq
  <2>3. InSeq(down, gc)
    <3>1. CASE d = 1
      <4>1. 1 \in 1..Len(gc)
        BY <2>1
      <4> QED BY <2>1, <3>1, <4>1 DEF InSeq
    <3>2. CASE d = 0
      <4>1. Len(hc) + 1 \in 1..Len(gc) /\ d # 1
        BY <2>1, <3>2
      <4> QED BY <2>1, <4>1 DEF InSeq
    <3> QED BY <3>1, <3>2
  <2>4. ASSUME NEW i \in 1..Len(gc) PROVE InSeq(gc[i], hc) \/ gc[i] = down
    <3>1. CASE d = 1
      <4>1. CASE i = 1
        BY <2>1, <3>1, <4>1
      <4>2. CASE i # 1
        <5>1. i - 1 \in 1..Len(hc) /\ (i - 1) + 1 = i
          BY <2>1, <4>2
        <5>2. gc[i] = hc[i - 1]
          BY <2>1, <3>1, <5>1
        <5> QED BY <5>1, <5>2 DEF InSeq
      <4> QED BY <4>1, <4>2
    <3>2. CASE d = 0
      <4>1. CASE i = Len(hc) + 1
        BY <2>1, <3>2, <4>1
      <4>2. CASE i # Len(hc) + 1
        <5>1. i \in 1..Len(hc) /\ i + 0 = i
          BY <2>1, <4>2
        <5>2. gc[i] = hc[i]
          BY <2>1, <3>2, <5>1
        <5> QED BY <5>1, <5>2 DEF InSeq
      <4> QED BY <4>1, <4>2
    <3> QED BY <3>1, <3>2
  <2>5. InSeq(it, gc) => InSeq(it, hc) \/ it = down
    BY <2>4 DEF InSeq
  <2>6. InSeq(it, hc) => InSeq(it, gc)
    BY <2>2 DEF InSeq
  <2> QED BY <2>3, <2>5, <2>6
<1>4. InSeq(it, hs) <=> InSeq(it, gs) \/ it = up
  <2>1. /\ Len(hs) \in Nat /\ Len(hs) >= 1 /\ Len(gs) = Len(hs) - 1
        /\ \A j \in 1..(Len(hs) - 1) : gs[j] = hs[j + (1 - d)]
        /\ up = IF d = 1 THEN hs[Len(hs)] ELSE hs[1]
    BY <1>1, <1>2 DEF Lent
  <2> HIDE DEF hs, gs, up
  <2>2. ASSUME NEW i \in 1..Len(gs) PROVE InSeq(gs[i], hs)
    <3>1. i + (1 - d) \in 1..Len(hs) /\ i \in 1..(Len(hs) - 1)
      BY <2>1
    <3> QED BY <2>1, <3>1 DEF InSeq
  <2>3. InSeq(up, hs)
    <3>1. Len(hs) \in 1..Len(hs) /\ 1 \in 1..Len(hs)
      BY <2>1
    <3> QED BY <2>1, <3>1 DEF InSeq
  <2>4. ASSUME NEW i \in 1..Len(hs) PROVE InSeq(hs[i], gs) \/ hs[i] = up
    <3>1. CASE d = 1
      <4>1. CASE i = Len(hs)
        BY <2>1, <3>1, <4>1
      <4>2. CASE i # Len(hs)
        <5>1. i \in 1..(Len(hs) - 1) /\ i + (1 - 1) = i
          BY <2>1, <4>2
        <5>2. gs[i] = hs[i]
          BY <2>1, <3>1, <5>1
        <5> QED BY <2>1, <5>1, <5>2 DEF InSeq
      <4> QED BY <4>1, <4>2
    <3>2. CASE d = 0
      <4>1. CASE i = 1
        BY <2>1, <3>2, <4>1
      <4>2. CASE i # 1
        <5>1. i - 1 \in 1..(Len(hs) - 1) /\ (i - 1) + (1 - 0) = i
          BY <2>1, <4>2
        <5>2. gs[i - 1] = hs[i]
          BY <2>1, <3>2, <5>1
        <5> QED BY <2>1, <5>1, <5>2 DEF InSeq
      <4> QED BY <4>1, <4>2
    <3> QED BY <3>1, <3>2
  <2>5. InSeq(it, hs) => InSeq(it, gs) \/ it = up
    BY <2>4 DEF InSeq
  <2>6. InSeq(it, gs) => InSeq(it, hs)
    BY <2>2 DEF InSeq
  <2> QED BY <2>3, <2>5, <2>6
<1>5. /\ InSeq(it, G[x].keys) => InSeq(it, H[x].keys) \/ it = up
      /\ InSeq(it, H[x].keys) => InSeq(it, G[x].keys) \/ it = down
      /\ InSeq(up, G[x].keys) /\ InSeq(down, H[x].keys)
  BY <1>1 DEF InSeq
<1>6. \A c \in A \ {x, ch, sib} : G[c].keys = H[c].keys
  BY <1>1, <1>2
<1> QED BY <1>3, <1>4, <1>5, <1>6, Zenon DEF Borrows

(* Nor does a borrow, to the left or to the right. *)
LEMMA BorrowStores ==
    ASSUME NEW H, NEW A, NEW t, NEW ht, Tree(H, A, t, ht),
           NEW x, NEW q, NEW ch, NEW sib, NEW d \in {0, 1},
           q \in 1..Len(H[x].keys),
           BorrowSite(H, A, x, ch, sib),
           NEW G, BorrowOf(H, G, x, q, ch, sib, d), NEW it
    PROVE  Stores(G, A, it) <=> Stores(H, A, it)
<1>1. /\ InSeq(it, G[ch].keys) <=> InSeq(it, H[ch].keys) \/ it = H[x].keys[q]
      /\ InSeq(it, H[sib].keys) <=>
            InSeq(it, G[sib].keys) \/ it = Lent(H[sib].keys, d)
      /\ InSeq(it, G[x].keys) => InSeq(it, H[x].keys) \/ it = Lent(H[sib].keys, d)
      /\ InSeq(it, H[x].keys) => InSeq(it, G[x].keys) \/ it = H[x].keys[q]
      /\ InSeq(Lent(H[sib].keys, d), G[x].keys)
      /\ InSeq(H[x].keys[q], H[x].keys)
      /\ \A c \in A \ {x, ch, sib} : G[c].keys = H[c].keys
  <2>1. Borrows(H, G, A, x, q, ch, sib, d, it)
    BY BorrowItems
  <2> QED BY <2>1, Zenon DEF Borrows
<1>2. x \in A /\ ch \in A /\ sib \in A
  BY BorrowSiteFacts
<1>3. InSeq(it, G[x].keys) \/ InSeq(it, G[ch].keys) \/ InSeq(it, G[sib].keys)
         <=> InSeq(it, H[x].keys) \/ InSeq(it, H[ch].keys) \/ InSeq(it, H[sib].keys)
  <2>1. it = Lent(H[sib].keys, d) => InSeq(it, G[x].keys)
    BY <1>1
  <2>2. it = H[x].keys[q] => InSeq(it, H[x].keys)
    BY <1>1
  <2> QED BY <1>1, <2>1, <2>2
<1>4. Stores(G, A, it) <=>
         \/ InSeq(it, G[x].keys) \/ InSeq(it, G[ch].keys) \/ InSeq(it, G[sib].keys)
         \/ \E c \in A \ {x, ch, sib} : InSeq(it, G[c].keys)
  BY <1>2 DEF Stores
<1>5. Stores(H, A, it) <=>
         \/ InSeq(it, H[x].keys) \/ InSeq(it, H[ch].keys) \/ InSeq(it, H[sib].keys)
         \/ \E c \in A \ {x, ch, sib} : InSeq(it, H[c].keys)
  BY <1>2 DEF Stores
<1>6. (\E c \in A \ {x, ch, sib} : InSeq(it, G[c].keys)) <=>
      (\E c \in A \ {x, ch, sib} : InSeq(it, H[c].keys))
  BY <1>1
<1> QED BY <1>3, <1>4, <1>5, <1>6

-----------------------------------------------------------------------------
(* A key of node x is key. *)
HasKey(H, x, key) == \E i \in 1..Len(H[x].keys) : H[x].keys[i].key = key

(* The spans sq are at least the spans sp. *)
Widened(A, sp, sq) == \A u \in A : sp[u] \subseteq sq[u]

(* A key of a node lies in its span. *)
LEMMA KeyMark ==
    ASSUME NEW H, NEW A, NEW t, NEW ht, Tree(H, A, t, ht),
           NEW sp, NEW e, NEW w, Ordered(H, A, sp, e, w),
           NEW x \in A, NEW key, HasKey(H, x, key)
    PROVE  /\ key \in Int /\ 2 * key \in sp[x]
           /\ \E i \in 1..Len(H[x].keys) :
                 H[x].keys[i].key = key /\ Mark(H[x].keys, i) = 2 * key
<1>1. PICK i \in 1..Len(H[x].keys) : H[x].keys[i].key = key
  BY DEF HasKey
<1>2. H[x].keys[i].key \in Int
  BY MarkInt
<1>3. Mark(H[x].keys, i) \in sp[x]
  BY DEF Ordered, Sorted
<1> QED BY <1>1, <1>2, <1>3 DEF Mark

(* A value that may be looked for at an inner node may be looked for at     *)
(* its child where the loop over the keys stops.                            *)
LEMMA ChildRoom ==
    ASSUME NEW H, NEW A, NEW t, NEW ht, Tree(H, A, t, ht),
           NEW sp, NEW e, NEW w, Ordered(H, A, sp, e, w),
           NEW x \in A, ~H[x].is_leaf, NEW p \in 1..(Len(H[x].keys) + 1),
           NEW g, g \in sp[x], Between(H[x].keys, p, g)
    PROVE  /\ Room(H, A, t, sp, H[x].child[p], g)
           /\ H[x].child[p] \in A /\ H[x].child[p] # x /\ H[x].child[p] # t
           /\ ht[H[x].child[p]] = ht[x] - 1 /\ ht[x] \in Nat
<1>1. p \in 1..Len(H[x].child) /\ x \in Nodes /\ sp \in [Nodes -> SUBSET Int]
  BY TreeFacts DEF Ordered
<1>2. g \in Int
  BY <1>1
<1>3. /\ H[x].child[p] \in A /\ H[x].child[p] # x /\ H[x].child[p] # t
      /\ ht[H[x].child[p]] = ht[x] - 1 /\ ht[x] \in Nat
  BY <1>1, TreeChild
<1> QED BY <1>1, <1>2, <1>3 DEF Room

(* What may be looked for next to a key: the key and the values beside it. *)
LEMMA AddThree ==
    ASSUME NEW H, NEW A, NEW t, NEW ht, Tree(H, A, t, ht),
           NEW sp, NEW e, NEW w, Ordered(H, A, sp, e, w),
           NEW c, NEW g \in Int, Room(H, A, t, sp, c, g - 1),
           Room(H, A, t, sp, c, g), Room(H, A, t, sp, c, g + 1)
    PROVE  \E sq : /\ Ordered(H, A, sq, e, w) /\ Widened(A, sp, sq)
                   /\ g - 1 \in sq[c] /\ g \in sq[c] /\ g + 1 \in sq[c]
<1>1. ASSUME NEW s1, NEW s2, Widened(A, s1, s2), NEW f, Room(H, A, t, s1, c, f)
      PROVE  Room(H, A, t, s2, c, f)
  BY <1>1 DEF Room, Widened
<1>2. PICK s1 : s1 = With(sp, c, g - 1)
  OBVIOUS
<1>3. Ordered(H, A, s1, e, w) /\ Widened(A, sp, s1) /\ g - 1 \in s1[c]
  BY <1>2, AddMark DEF Widened
<1>4. Room(H, A, t, s1, c, g)
  BY <1>1, <1>3
<1>5. PICK s2 : s2 = With(s1, c, g)
  OBVIOUS
<1>6. Ordered(H, A, s2, e, w) /\ Widened(A, s1, s2) /\ g \in s2[c]
  BY <1>3, <1>4, <1>5, AddMark DEF Widened
<1>7. Widened(A, sp, s2)
  BY <1>3, <1>6 DEF Widened
<1>8. Room(H, A, t, s2, c, g + 1)
  BY <1>1, <1>7
<1>9. PICK s3 : s3 = With(s2, c, g + 1)
  OBVIOUS
<1>10. Ordered(H, A, s3, e, w) /\ Widened(A, s2, s3) /\ g + 1 \in s3[c]
  BY <1>6, <1>8, <1>9, AddMark DEF Widened
<1>11. Widened(A, sp, s3)
  BY <1>7, <1>10 DEF Widened
<1>12. c \in A
  BY DEF Room
<1>13. g - 1 \in s3[c] /\ g \in s3[c]
  BY <1>3, <1>6, <1>10, <1>12 DEF Widened
<1> QED BY <1>10, <1>11, <1>13

(* The loop over the keys of a node misses no key. *)
LEMMA NotHere ==
    ASSUME NEW A, NEW t, NEW ht, Tree(node, A, t, ht),
           NEW sp, NEW e, NEW w, Ordered(node, A, sp, e, w),
           NEW x \in A, NEW key \in Keys, NEW p, StopsAt(x, key, p), ~Holds(x, key, p)
    PROVE  ~HasKey(node, x, key)
<1>1. Between(node[x].keys, p, 2 * key + 0)
  BY StopsBetween
<1>2. key \in Int
  BY KeysAssumption
<1> SUFFICES ASSUME NEW i \in 1..Len(node[x].keys), node[x].keys[i].key = key
             PROVE  FALSE
  BY DEF HasKey
<1>3. 2 * key + 0 = 2 * key /\ Mark(node[x].keys, i) = 2 * key
  BY <1>2 DEF Mark
<1>4. /\ i < p => 2 * key < 2 * key
      /\ p <= i => 2 * key < 2 * key
  BY <1>1, <1>3 DEF Between
<1>5. i \in Int /\ p \in Int
  BY TreeFacts DEF StopsAt
<1> QED BY <1>2, <1>4, <1>5

(* A key that may be looked for at x and is not there is further down. *)
LEMMA FurtherDown ==
    ASSUME NEW H, NEW A, NEW t, NEW ht, Tree(H, A, t, ht),
           NEW sp, NEW e, NEW w, Ordered(H, A, sp, e, w),
           NEW x \in A, NEW key, 2 * key \in sp[x], ~HasKey(H, x, key),
           NEW y \in A, HasKey(H, y, key), ht[y] <= ht[x]
    PROVE  ht[y] < ht[x] /\ y # x
<1>1. 2 * key \in sp[y] /\ key \in Int
  BY KeyMark
<1>2. y # x
  OBVIOUS
<1>3. ht[y] # ht[x]
  <2> SUFFICES ASSUME ht[x] = ht[y] PROVE FALSE
    OBVIOUS
  <2>1. 2 * key <= 2 * key
    BY <1>1
  <2>2. x = y
    <3> DEFINE a == 2 * key
    <3>1. a \in sp[x] /\ a \in sp[y] /\ a <= a
      BY <1>1, <2>1
    <3> HIDE DEF a
    <3> QED BY <3>1, SameNode
  <2> QED BY <1>2, <2>2
<1>4. ht[x] \in Nat /\ ht[y] \in Nat
  BY TreeFacts
<1> QED BY <1>2, <1>3, <1>4

(* No item has this key. *)
Absent(H, A, key) == \A x \in A : ~HasKey(H, x, key)

(* A search that ends in a leaf without the key shows that it is absent. *)
LEMMA SearchMisses ==
    ASSUME NEW H, NEW A, NEW t, NEW ht, Tree(H, A, t, ht),
           NEW sp, NEW e, NEW w, Ordered(H, A, sp, e, w), e \notin A,
           NEW x \in A, H[x].is_leaf, NEW key, 2 * key \in sp[x], ~HasKey(H, x, key)
    PROVE  Absent(H, A, key)
<1> SUFFICES ASSUME NEW y \in A, HasKey(H, y, key) PROVE FALSE
  BY DEF Absent
<1>1. PICK i \in 1..Len(H[y].keys) : H[y].keys[i].key = key /\ Mark(H[y].keys, i) = 2 * key
  BY KeyMark
<1>2. x = y
  <2> DEFINE a == 2 * key
  <2>1. a \in sp[x] /\ Mark(H[y].keys, i) = a
    BY <1>1
  <2> HIDE DEF a
  <2> QED BY <2>1, LeafHolds
<1> QED BY <1>2

(* What Absent says of the items. *)
LEMMA AbsentStores ==
    ASSUME NEW H, NEW A, NEW G, NEW B, NEW key, Absent(H, A, key),
           \A it : Stores(G, B, it) <=> Stores(H, A, it)
    PROVE  Absent(G, B, key)
<1> SUFFICES ASSUME NEW y \in B, NEW i \in 1..Len(G[y].keys), G[y].keys[i].key = key
             PROVE  FALSE
  BY DEF Absent, HasKey
<1>1. InSeq(G[y].keys[i], G[y].keys)
  BY DEF InSeq
<1>2. Stores(G, B, G[y].keys[i])
  BY <1>1 DEF Stores
<1>3. Stores(H, A, G[y].keys[i])
  BY <1>2
<1>4. PICK x \in A : \E j \in 1..Len(H[x].keys) : H[x].keys[j] = G[y].keys[i]
  BY <1>3 DEF Stores, InSeq
<1>5. HasKey(H, x, key)
  BY <1>4 DEF HasKey
<1> QED BY <1>5 DEF Absent

(* With an exemption the exempt key is in a leaf, and in no inner node     *)
(* below the exemption.                                                    *)
LEMMA ExemptBelow ==
    ASSUME NEW H, NEW A, NEW t, NEW ht, Tree(H, A, t, ht),
           NEW sp, NEW e, NEW w, Ordered(H, A, sp, e, w),
           NEW key, NEW y \in A, ht[y] = 0, HasKey(H, y, key),
           NEW x \in A, ht[x] # 0, HasKey(H, x, key)
    PROVE  e \in A /\ ht[e] = ht[x] - 1
<1>1. 2 * key \in sp[y] /\ key \in Int
  BY KeyMark
<1>2. PICK i \in 1..Len(H[x].keys) : H[x].keys[i].key = key /\ Mark(H[x].keys, i) = 2 * key
  BY KeyMark
<1>3. ht[y] < ht[x]
  BY TreeFacts
<1> DEFINE a == 2 * key
<1>4. a \in sp[y] /\ Mark(H[x].keys, i) = a /\ a <= a
  BY <1>1, <1>2
<1> HIDE DEF a
<1>5. a <= Mark(H[x].keys, i) /\ Mark(H[x].keys, i) <= a
  BY <1>4
<1> QED BY <1>3, <1>4, <1>5, KeyAbove

-----------------------------------------------------------------------------
(* A span reaches beyond the key on both sides. *)
Near(S, key) == 2 * key - 1 \in S /\ 2 * key \in S /\ 2 * key + 1 \in S

(* An item with this key is in a leaf and in a node above height h. *)
Twice(H, A, ht, h, key) ==
    \E y \in A, z \in A : \E it :
       /\ ht[y] = 0 /\ h < ht[z] /\ it.key = key
       /\ InSeq(it, H[y].keys) /\ InSeq(it, H[z].keys)

(* remove() is at node x, looking for key; rk is the key it was called     *)
(* for.  As long as it is that one, the key is at x or below; afterwards   *)
(* it is the key that took the place of rk: below e it is in a leaf, which *)
(* is where it will be removed, and otherwise it is above e.               *)
Descending(H, A, ht, sp, e, w, x, key, rk) ==
    /\ x \in A /\ 2 * key \in sp[x]
    /\ e = NULL <=> key = rk
    /\ e = NULL =>
          /\ Near(sp[x], key)
          /\ \E y \in A : ht[y] <= ht[x] /\ HasKey(H, y, key)
    /\ e # NULL =>
          /\ e \in A /\ w = 2 * key /\ ht[x] <= ht[e]
          /\ Absent(H, A, rk)
          /\ Twice(H, A, ht, ht[e], key)

(* In both cases a node at x or below has the key. *)
LEMMA DescendingHas ==
    ASSUME NEW H, NEW A, NEW t, NEW ht, Tree(H, A, t, ht),
           NEW sp, NEW e, NEW w, NEW x, NEW key, NEW rk,
           Descending(H, A, ht, sp, e, w, x, key, rk)
    PROVE  /\ \E y \in A : ht[y] <= ht[x] /\ HasKey(H, y, key) /\ (e # NULL => ht[y] = 0)
           /\ Under(x, A, ht, e) /\ x \in A /\ 2 * key \in sp[x]
           /\ e # NULL => e \in A
<1>1. NULL \notin A /\ \A u \in A : ht[u] \in Nat
  BY TreeFacts
<1>2. CASE e = NULL
  <2>1. \E y \in A : ht[y] <= ht[x] /\ HasKey(H, y, key)
    BY <1>2 DEF Descending
  <2>2. x \in A /\ 2 * key \in sp[x]
    BY DEF Descending
  <2> QED BY <1>1, <1>2, <2>1, <2>2 DEF Under
<1>3. CASE e # NULL
  <2>1. x \in A /\ 2 * key \in sp[x] /\ e \in A /\ ht[x] <= ht[e] /\ Twice(H, A, ht, ht[e], key)
    BY <1>3 DEF Descending
  <2>2. PICK y \in A : ht[y] = 0 /\ \E it : it.key = key /\ InSeq(it, H[y].keys)
    BY <2>1 DEF Twice
  <2>3. HasKey(H, y, key)
    BY <2>2 DEF HasKey, InSeq
  <2>4. 0 <= ht[x]
    BY <1>1, <2>1
  <2>5. \E v \in A : ht[v] <= ht[x] /\ HasKey(H, v, key) /\ (e # NULL => ht[v] = 0)
    BY <2>2, <2>3, <2>4
  <2>6. Under(x, A, ht, e)
    BY <2>1 DEF Under
  <2> QED BY <2>1, <2>5, <2>6
<1> QED BY <1>2, <1>3

(* remove() goes on in the child where the loop over the keys stopped. *)
LEMMA DescendOrdered ==
    ASSUME NEW H, NEW A, NEW t, NEW ht, Tree(H, A, t, ht),
           NEW sp, NEW e, NEW w, Ordered(H, A, sp, e, w),
           NEW x, NEW key \in Int, NEW rk, Descending(H, A, ht, sp, e, w, x, key, rk),
           ~H[x].is_leaf, ~HasKey(H, x, key),
           NEW p \in 1..(Len(H[x].keys) + 1),
           \A d \in {-1, 0, 1} : Between(H[x].keys, p, 2 * key + d),
           NEW c, c = H[x].child[p]
    PROVE  \E sq : /\ Ordered(H, A, sq, e, w)
                   /\ Descending(H, A, ht, sq, e, w, c, key, rk)
<1>0. x \in A /\ 2 * key \in sp[x]
  BY DEF Descending
<1>1. /\ 2 * key + (-1) = 2 * key - 1 /\ 2 * key + 0 = 2 * key
      /\ 2 * key - 1 \in Int /\ 2 * key \in Int /\ 2 * key + 1 \in Int
  OBVIOUS
<1>2. /\ Between(H[x].keys, p, 2 * key - 1) /\ Between(H[x].keys, p, 2 * key)
      /\ Between(H[x].keys, p, 2 * key + 1)
  BY <1>1
<1> DEFINE g == 2 * key
<1>3. Room(H, A, t, sp, c, g)
  BY <1>0, <1>2, ChildRoom
<1>4. c \in A /\ ht[c] = ht[x] - 1 /\ ht[x] \in Nat
  BY <1>0, <1>2, ChildRoom
<1>5. PICK y \in A : ht[y] <= ht[x] /\ HasKey(H, y, key) /\ (e # NULL => ht[y] = 0)
  BY DescendingHas
<1>6. ht[y] < ht[x] /\ ht[y] \in Nat
  BY <1>0, <1>5, FurtherDown, TreeFacts
<1>7. CASE e = NULL
  <2>1. Near(sp[x], key)
    BY <1>7 DEF Descending
  <2>2. Room(H, A, t, sp, c, g - 1) /\ Room(H, A, t, sp, c, g + 1)
    BY <1>0, <1>2, <2>1, ChildRoom DEF Near
  <2>3. g \in Int
    BY <1>1
  <2> HIDE DEF g
  <2>4. PICK sq : /\ Ordered(H, A, sq, e, w) /\ Widened(A, sp, sq)
                  /\ g - 1 \in sq[c] /\ g \in sq[c] /\ g + 1 \in sq[c]
    BY <1>3, <2>2, <2>3, AddThree
  <2>5. Near(sq[c], key) /\ 2 * key \in sq[c]
    BY <2>4 DEF Near, g
  <2>6. ht[y] <= ht[c]
    BY <1>4, <1>6
  <2>7. e = NULL <=> key = rk
    BY DEF Descending
  <2>8. Descending(H, A, ht, sq, e, w, c, key, rk)
    BY <1>4, <1>5, <1>7, <2>5, <2>6, <2>7 DEF Descending
  <2> QED BY <2>4, <2>8
<1>8. CASE e # NULL
  <2>1. /\ e \in A /\ w = 2 * key /\ ht[x] <= ht[e]
        /\ Absent(H, A, rk) /\ Twice(H, A, ht, ht[e], key) /\ ~(key = rk)
    BY <1>8 DEF Descending
  <2>2. PICK sq : sq = With(sp, c, g)
    OBVIOUS
  <2> HIDE DEF g
  <2>3. Ordered(H, A, sq, e, w) /\ g \in sq[c]
    BY <1>3, <2>2, AddMark
  <2>4. ht[c] <= ht[e]
    <3>1. ht[e] \in Nat
      BY <2>1, TreeFacts
    <3> QED BY <1>4, <2>1, <3>1
  <2>5. 2 * key \in sq[c]
    BY <2>3 DEF g
  <2>6. Descending(H, A, ht, sq, e, w, c, key, rk)
    BY <1>4, <1>8, <2>1, <2>4, <2>5, Zenon DEF Descending
  <2> QED BY <2>3, <2>6
<1> QED BY <1>7, <1>8

(* The same after the child was merged with the one beside it. *)
LEMMA MergeDescends ==
    ASSUME NEW H, NEW A, NEW t, NEW ht, Tree(H, A, t, ht),
           NEW sp, NEW e, NEW w, Ordered(H, A, sp, e, w),
           NEW x, NEW q, NEW l, NEW r, Beside(H, A, x, q, l, r), Under(x, A, ht, e),
           NEW G, MergeOf(H, G, x, q, l, r),
           NEW c, c = l \/ c = r, NEW key \in Int, NEW rk,
           Descending(H, A, ht, sp, e, w, c, key, rk)
    PROVE  \E sq : /\ Ordered(G, A \ {r}, sq, e, w)
                   /\ Descending(G, A \ {r}, ht, sq, e, w, l, key, rk)
<1>1. PICK m : m = Mark(H[x].keys, q)
  OBVIOUS
<1>2. PICK sq : sq = MergeSpans(sp, l, m, r)
  OBVIOUS
<1>3. Ordered(G, A \ {r}, sq, e, w)
  BY <1>1, <1>2, MergeOrdered
<1>4. /\ x \in A /\ l \in A /\ r \in A /\ x # l /\ x # r /\ l # r
      /\ l \in Nodes /\ ht[l] = ht[x] - 1 /\ ht[r] = ht[x] - 1 /\ ht[x] \in Nat
  BY BesideFacts
<1>5. sp[c] \subseteq sq[l]
  <2>1. sp \in [Nodes -> SUBSET Int]
    BY DEF Ordered
  <2>2. sq[l] = sp[l] \union {m} \union sp[r]
    BY <1>2, <1>4, <2>1 DEF MergeSpans
  <2> QED BY <2>2
<1>6. ASSUME NEW it
      PROVE  /\ InSeq(it, H[x].keys) <=> InSeq(it, G[x].keys) \/ it = H[x].keys[q]
             /\ InSeq(it, G[l].keys) <=>
                   InSeq(it, H[l].keys) \/ it = H[x].keys[q] \/ InSeq(it, H[r].keys)
             /\ \A u \in A \ {x, l, r} : G[u].keys = H[u].keys
  BY MergeItems
<1>7. ASSUME NEW y \in A, ht[y] # ht[x], NEW it, InSeq(it, H[y].keys)
      PROVE  \E v \in A \ {r} : ht[v] = ht[y] /\ InSeq(it, G[v].keys)
  <2>1. CASE y \in {l, r}
    BY <1>4, <1>6, <1>7, <2>1
  <2>2. CASE y \notin {l, r}
    <3>1. y \in A \ {x, l, r} /\ y \in A \ {r}
      BY <1>7, <2>2
    <3>2. G[y].keys = H[y].keys
      BY <1>6, <3>1
    <3>3. InSeq(it, G[y].keys)
      BY <1>7, <3>2
    <3> QED BY <3>1, <3>3
  <2> QED BY <2>1, <2>2
<1>8. /\ 2 * key \in sp[c] /\ (e = NULL <=> key = rk)
  BY DEF Descending
<1>9. l \in A \ {r} /\ 2 * key \in sq[l] /\ ht[c] = ht[l]
  BY <1>4, <1>5, <1>8
<1>10. CASE e = NULL
  <2>1. Near(sp[c], key)
    BY <1>10 DEF Descending
  <2>2. Near(sq[l], key)
    BY <1>5, <2>1 DEF Near
  <2>3. PICK y \in A : ht[y] <= ht[c] /\ HasKey(H, y, key)
    BY <1>10 DEF Descending
  <2>4. PICK i \in 1..Len(H[y].keys) : H[y].keys[i].key = key
    BY <2>3 DEF HasKey
  <2>5. InSeq(H[y].keys[i], H[y].keys)
    BY DEF InSeq
  <2>6. ht[y] # ht[x]
    BY <1>4, <1>9, <2>3
  <2>7. PICK v \in A \ {r} : ht[v] = ht[y] /\ InSeq(H[y].keys[i], G[v].keys)
    BY <1>7, <2>5, <2>6
  <2>8. HasKey(G, v, key) /\ ht[v] <= ht[l]
    BY <1>9, <2>3, <2>4, <2>7 DEF HasKey, InSeq
  <2>9. Descending(G, A \ {r}, ht, sq, e, w, l, key, rk)
    BY <1>8, <1>9, <1>10, <2>2, <2>8 DEF Descending
  <2> QED BY <1>3, <2>9
<1>11. CASE e # NULL
  <2>1. /\ e \in A /\ w = 2 * key /\ ht[c] <= ht[e]
        /\ Absent(H, A, rk) /\ Twice(H, A, ht, ht[e], key)
    BY <1>11 DEF Descending
  <2>2. ht[x] <= ht[e] /\ ht[e] \in Nat
    BY <2>1, TreeFacts DEF Under
  <2>3. e \in A \ {r} /\ ht[l] <= ht[e]
    BY <1>4, <2>1, <2>2
  <2>4. Absent(G, A \ {r}, rk)
    <3>1. \A it : Stores(G, A \ {r}, it) <=> Stores(H, A, it)
      BY MergeStores
    <3> QED BY <2>1, <3>1, AbsentStores
  <2>5. Twice(G, A \ {r}, ht, ht[e], key)
    <3>1. PICK y \in A, z \in A : \E it :
             /\ ht[y] = 0 /\ ht[e] < ht[z] /\ it.key = key
             /\ InSeq(it, H[y].keys) /\ InSeq(it, H[z].keys)
      BY <2>1 DEF Twice
    <3>2. PICK it :
             /\ ht[y] = 0 /\ ht[e] < ht[z] /\ it.key = key
             /\ InSeq(it, H[y].keys) /\ InSeq(it, H[z].keys)
      BY <3>1
    <3>3. ht[y] # ht[x] /\ ht[z] # ht[x]
      <4>1. ht[l] \in Nat /\ ht[z] \in Nat
        BY <1>4, TreeFacts
      <4> QED BY <1>4, <2>2, <3>2, <4>1
    <3>4. PICK v \in A \ {r} : ht[v] = ht[y] /\ InSeq(it, G[v].keys)
      BY <1>7, <3>2, <3>3
    <3>5. PICK u \in A \ {r} : ht[u] = ht[z] /\ InSeq(it, G[u].keys)
      BY <1>7, <3>2, <3>3
    <3> QED BY <3>2, <3>4, <3>5 DEF Twice
  <2>6. Descending(G, A \ {r}, ht, sq, e, w, l, key, rk)
    BY <1>8, <1>9, <1>11, <2>1, <2>3, <2>4, <2>5, Zenon DEF Descending
  <2> QED BY <1>3, <2>6
<1> QED BY <1>10, <1>11

(* removeFromNonLeaf merges the children around the key it looks for. *)
LEMMA MergeHeld ==
    ASSUME NEW H, NEW A, NEW t, NEW ht, Tree(H, A, t, ht),
           NEW sp, NEW e, NEW w, Ordered(H, A, sp, e, w), e = NULL,
           NEW x, NEW q, NEW l, NEW r, Beside(H, A, x, q, l, r),
           NEW G, MergeOf(H, G, x, q, l, r),
           NEW key \in Int, NEW rk, H[x].keys[q].key = key,
           Descending(H, A, ht, sp, e, w, x, key, rk)
    PROVE  \E sq : /\ Ordered(G, A \ {r}, sq, e, w)
                   /\ Descending(G, A \ {r}, ht, sq, e, w, l, key, rk)
<1>1. /\ x \in A /\ l \in A /\ r \in A /\ x # l /\ x # r /\ l # r
      /\ l \in Nodes /\ ht[l] = ht[x] - 1 /\ ht[r] = ht[x] - 1 /\ ht[x] \in Nat
      /\ q \in 1..Len(H[x].keys) /\ Len(H[x].keys) \in Nat
  BY BesideFacts
<1>2. ~H[x].is_leaf /\ l = H[x].child[q] /\ r = H[x].child[q + 1]
  BY DEF Beside
<1>3. /\ q \in 1..(Len(H[x].keys) + 1) /\ q + 1 \in 1..(Len(H[x].keys) + 1)
  BY <1>1
<1>4. PICK m : m = Mark(H[x].keys, q)
  OBVIOUS
<1>5. m = 2 * key
  BY <1>4 DEF Mark
<1>6. Between(H[x].keys, q, m - 1) /\ Between(H[x].keys, q + 1, m + 1)
  BY <1>1, <1>4, BesideKey
<1>7. m - 1 \in sp[x] /\ m + 1 \in sp[x] /\ (e = NULL <=> key = rk)
  BY <1>5 DEF Descending, Near
<1>8. Room(H, A, t, sp, l, m - 1) /\ Room(H, A, t, sp, r, m + 1)
  BY <1>1, <1>2, <1>3, <1>6, <1>7, ChildRoom
<1>9. PICK s1 : s1 = With(sp, l, m - 1)
  OBVIOUS
<1>10. Ordered(H, A, s1, e, w) /\ Widened(A, sp, s1) /\ m - 1 \in s1[l]
  BY <1>8, <1>9, AddMark DEF Widened
<1>11. Room(H, A, t, s1, r, m + 1)
  BY <1>8, <1>10 DEF Room, Widened
<1>12. PICK s2 : s2 = With(s1, r, m + 1)
  OBVIOUS
<1>13. Ordered(H, A, s2, e, w) /\ Widened(A, s1, s2) /\ m + 1 \in s2[r]
  BY <1>10, <1>11, <1>12, AddMark DEF Widened
<1>14. m - 1 \in s2[l]
  BY <1>1, <1>10, <1>13 DEF Widened
<1>15. PICK sq : sq = MergeSpans(s2, l, m, r)
  OBVIOUS
<1>16. Under(x, A, ht, e)
  BY TreeFacts DEF Under
<1>17. Ordered(G, A \ {r}, sq, e, w)
  BY <1>4, <1>13, <1>15, <1>16, MergeOrdered
<1>18. sq[l] = s2[l] \union {m} \union s2[r]
  <2>1. s2 \in [Nodes -> SUBSET Int]
    BY <1>13 DEF Ordered
  <2> QED BY <1>1, <1>15, <2>1 DEF MergeSpans
<1>19. Near(sq[l], key) /\ 2 * key \in sq[l]
  BY <1>5, <1>13, <1>14, <1>18 DEF Near
<1>20. HasKey(G, l, key)
  <2>1. InSeq(H[x].keys[q], G[l].keys)
    BY MergeItems
  <2> QED BY <2>1 DEF InSeq, HasKey
<1>21. l \in A \ {r} /\ ht[l] <= ht[l]
  BY <1>1
<1>22. Descending(G, A \ {r}, ht, sq, e, w, l, key, rk)
  BY <1>7, <1>19, <1>20, <1>21 DEF Descending
<1> QED BY <1>17, <1>22


(* The same after the child got a key from the one beside it. *)
LEMMA BorrowDescends ==
    ASSUME NEW H, NEW A, NEW t, NEW ht, Tree(H, A, t, ht),
           NEW sp, NEW e, NEW w, Ordered(H, A, sp, e, w),
           NEW x, NEW q, NEW l, NEW r, Beside(H, A, x, q, l, r), Under(x, A, ht, e),
           NEW ch, NEW sib, NEW d, Lends(l, r, ch, sib, d),
           BorrowSite(H, A, x, ch, sib),
           NEW G, BorrowOf(H, G, x, q, ch, sib, d),
           NEW key \in Int, NEW rk,
           Descending(H, A, ht, sp, e, w, ch, key, rk)
    PROVE  \E sq : /\ Ordered(G, A, sq, e, w)
                   /\ Descending(G, A, ht, sq, e, w, ch, key, rk)
<1>1. PICK m : m = Mark(H[x].keys, q)
  OBVIOUS
<1>2. PICK c : c = 2 * Lent(H[sib].keys, d).key
  OBVIOUS
<1>3. PICK sq : sq = BorrowSpans(sp, l, m, r, c)
  OBVIOUS
<1>4. Ordered(G, A, sq, e, w) /\ c \in Int
  BY <1>1, <1>2, <1>3, BorrowOrdered
<1>5. /\ x \in A /\ l \in A /\ r \in A /\ x # l /\ x # r /\ l # r
      /\ l \in Nodes /\ r \in Nodes
      /\ ht[l] = ht[x] - 1 /\ ht[r] = ht[x] - 1 /\ ht[x] \in Nat
      /\ q \in 1..Len(H[x].keys)
  BY BesideFacts
<1>6. /\ ch \in A /\ sib \in A /\ ht[ch] = ht[x] - 1 /\ ht[sib] = ht[x] - 1 /\ d \in {0, 1}
  BY <1>5 DEF Lends
<1>7. /\ sp \in [Nodes -> SUBSET Int] /\ m \in Int
      /\ \A v \in sp[l] : v < m
      /\ \A v \in sp[r] : m < v
      /\ sp[l] \subseteq Int /\ sp[r] \subseteq Int
  BY <1>1, BesideFit
<1>8. \E a \in 1..Len(H[sib].keys) : Lent(H[sib].keys, d) = H[sib].keys[a]
  <2>1. Len(H[sib].keys) \in Nat /\ Len(H[sib].keys) >= MIN_DEGREE + 1
    BY <1>6, TreeFacts DEF BorrowSite
  <2>2. 1 \in 1..Len(H[sib].keys) /\ Len(H[sib].keys) \in 1..Len(H[sib].keys)
    BY <2>1, TAssumption DEF MIN_DEGREE
  <2> QED BY <2>2 DEF Lent
<1>9. c \in sp[sib] /\ Lent(H[sib].keys, d).key \in Int
  <2>1. PICK a \in 1..Len(H[sib].keys) : Lent(H[sib].keys, d) = H[sib].keys[a]
    BY <1>8
  <2>2. HasKey(H, sib, H[sib].keys[a].key)
    BY DEF HasKey
  <2> QED BY <1>2, <1>6, <2>1, <2>2, KeyMark
<1>10. /\ sq[l] = Lower(Whole(sp, l, m, r), c) /\ sq[r] = Upper(Whole(sp, l, m, r), c)
  BY <1>3, <1>5, <1>7 DEF BorrowSpans
<1>11. sp[ch] \subseteq sq[ch]
  <2>1. CASE ch = l /\ sib = r
    BY <1>4, <1>7, <1>9, <1>10, <2>1 DEF Lower, Whole
  <2>2. CASE ch = r /\ sib = l
    BY <1>4, <1>7, <1>9, <1>10, <2>2 DEF Upper, Whole
  <2> QED BY <2>1, <2>2 DEF Lends
<1>12. 2 * key \in sp[ch] /\ (e = NULL <=> key = rk)
  BY DEF Descending
<1>13. Lent(H[sib].keys, d).key # key
  <2>1. c # 2 * key
    <3>1. CASE ch = l /\ sib = r
      BY <1>7, <1>9, <1>12, <3>1
    <3>2. CASE ch = r /\ sib = l
      BY <1>7, <1>9, <1>12, <3>2
    <3> QED BY <3>1, <3>2 DEF Lends
  <2> QED BY <1>2, <2>1
<1>14. ASSUME NEW y \in A, ht[y] # ht[x], NEW it, InSeq(it, H[y].keys), it.key = key
      PROVE  InSeq(it, G[y].keys)
  <2>1. Borrows(H, G, A, x, q, ch, sib, d, it)
    BY <1>5, <1>6, BorrowItems
  <2>2. /\ InSeq(it, H[ch].keys) => InSeq(it, G[ch].keys)
        /\ InSeq(it, H[sib].keys) => InSeq(it, G[sib].keys) \/ it = Lent(H[sib].keys, d)
        /\ \A u \in A \ {x, ch, sib} : G[u].keys = H[u].keys
    BY <2>1, Zenon DEF Borrows
  <2>3. CASE y = ch
    BY <1>14, <2>2, <2>3
  <2>4. CASE y = sib
    BY <1>13, <1>14, <2>2, <2>4
  <2>5. CASE y # ch /\ y # sib
    <3>1. y \in A \ {x, ch, sib}
      BY <1>14, <2>5
    <3>2. G[y].keys = H[y].keys
      BY <2>2, <3>1
    <3> QED BY <1>14, <3>2
  <2> QED BY <2>3, <2>4, <2>5
<1>15. 2 * key \in sq[ch]
  BY <1>11, <1>12
<1>16. CASE e = NULL
  <2>1. Near(sp[ch], key)
    BY <1>16 DEF Descending
  <2>2. Near(sq[ch], key)
    BY <1>11, <2>1 DEF Near
  <2>3. PICK y \in A : ht[y] <= ht[ch] /\ HasKey(H, y, key)
    BY <1>16 DEF Descending
  <2>4. PICK i \in 1..Len(H[y].keys) : H[y].keys[i].key = key
    BY <2>3 DEF HasKey
  <2>5. InSeq(H[y].keys[i], H[y].keys)
    BY DEF InSeq
  <2>6. ht[y] # ht[x]
    BY <1>5, <1>6, <2>3
  <2>7. InSeq(H[y].keys[i], G[y].keys)
    BY <1>14, <2>4, <2>5, <2>6
  <2>8. HasKey(G, y, key)
    BY <2>4, <2>7 DEF HasKey, InSeq
  <2>9. Descending(G, A, ht, sq, e, w, ch, key, rk)
    BY <1>6, <1>12, <1>15, <1>16, <2>2, <2>3, <2>8 DEF Descending
  <2> QED BY <1>4, <2>9
<1>17. CASE e # NULL
  <2>1. /\ e \in A /\ w = 2 * key /\ ht[ch] <= ht[e]
        /\ Absent(H, A, rk) /\ Twice(H, A, ht, ht[e], key)
    BY <1>17 DEF Descending
  <2>2. ht[x] <= ht[e] /\ ht[e] \in Nat
    BY <2>1, TreeFacts DEF Under
  <2>4. Absent(G, A, rk)
    <3>1. \A it : Stores(G, A, it) <=> Stores(H, A, it)
      <4> SUFFICES ASSUME NEW it PROVE Stores(G, A, it) <=> Stores(H, A, it)
        OBVIOUS
      <4>1. d \in {0, 1} /\ q \in 1..Len(H[x].keys)
        BY <1>5, <1>6
      <4> QED BY <4>1, BorrowStores
    <3> QED BY <2>1, <3>1, AbsentStores
  <2>5. Twice(G, A, ht, ht[e], key)
    <3>1. PICK y \in A, z \in A : \E it :
             /\ ht[y] = 0 /\ ht[e] < ht[z] /\ it.key = key
             /\ InSeq(it, H[y].keys) /\ InSeq(it, H[z].keys)
      BY <2>1 DEF Twice
    <3>2. PICK it :
             /\ ht[y] = 0 /\ ht[e] < ht[z] /\ it.key = key
             /\ InSeq(it, H[y].keys) /\ InSeq(it, H[z].keys)
      BY <3>1
    <3>3. ht[y] # ht[x] /\ ht[z] # ht[x]
      <4>1. ht[l] \in Nat /\ ht[z] \in Nat
        BY <1>5, TreeFacts
      <4> QED BY <1>5, <2>2, <3>2, <4>1
    <3>4. InSeq(it, G[y].keys)
      BY <1>14, <3>2, <3>3
    <3>5. InSeq(it, G[z].keys)
      BY <1>14, <3>2, <3>3
    <3> QED BY <3>2, <3>4, <3>5 DEF Twice
  <2>6. Descending(G, A, ht, sq, e, w, ch, key, rk)
    BY <1>6, <1>12, <1>15, <1>17, <2>1, <2>4, <2>5, Zenon DEF Descending
  <2> QED BY <1>4, <2>6
<1> QED BY <1>16, <1>17
=============================================================================

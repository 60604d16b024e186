----------------------- MODULE BTreeKeyIteratorProofs -----------------------
(***************************************************************************)
(* For every T, every set of keys and every finite pool: between           *)
(* operations the iterator visits the keys in order, each one once: ++     *)
(* goes to the next greater key, to end() from the greatest only, and --   *)
(* undoes it.                                                              *)
(*                                                                         *)
(* The iterator's walks are recursive functions, of which nothing is known *)
(* until their equations are known to have a solution. That they have one  *)
(* is a fact about the tree: the walk down ends because heights decrease,  *)
(* the walk up because depths do (EquationSolvable). That -- undoes ++     *)
(* then is a matter of shape: the node a walk down ends at has above it    *)
(* the key the walk began at (EveryLeftLeaf, EveryKeyAfter). That ++       *)
(* skips no key is one of order: every span the keys leave open may be     *)
(* widened by a value beside the key, all the way down to the leaf at the  *)
(* edge, so no other key lies between (EdgeReached, NeighbourReached).     *)
(***************************************************************************)
EXTENDS BTreeKeyIterator, BTreeMapProofs

(* f is d where the walk stops, and elsewhere what f is one step on. *)
Solves(f, A, d, stop, up) == f = [x \in A |-> IF stop[x] THEN d[x] ELSE f[up[x]]]

(* A function that goes on to another argument, nearer to an end, until it *)
(* stops: its equation has a solution.                                     *)
LEMMA EquationSolvable ==
    ASSUME NEW A, NEW d, NEW m \in [A -> Nat], NEW M \in Nat,
           \A x \in A : m[x] <= M,
           NEW stop, NEW up,
           \A x \in A : ~stop[x] => up[x] \in A /\ m[up[x]] < m[x]
    PROVE  \E f : Solves(f, A, d, stop, up)
<1> DEFINE Upto(h, g) == \A x \in A : m[x] < h => g[x] = IF stop[x] THEN d[x] ELSE g[up[x]]
           Fun(g) == g = [x \in A |-> g[x]]
           Bad == {h \in Nat : \A g : ~(Fun(g) /\ Upto(h, g))}
<1>1. Bad = {}
  <2> SUFFICES ASSUME Bad # {} PROVE FALSE
    OBVIOUS
  <2>1. PICK h \in Bad : \A i \in Bad : h <= i
    BY LeastNatural
  <2>2. h \in Nat /\ \A g : ~(Fun(g) /\ Upto(h, g))
    OBVIOUS
  <2>3. CASE h = 0
    <3> DEFINE g == [x \in A |-> d[x]]
    <3>1. Fun(g)
      OBVIOUS
    <3>2. Upto(h, g)
      BY <2>3
    <3> QED BY <2>2, <3>1, <3>2
  <2>4. CASE h # 0
    <3>1. h - 1 \in Nat /\ h - 1 \notin Bad
      BY <2>1, <2>2, <2>4
    <3>2. PICK g : Fun(g) /\ Upto(h - 1, g)
      BY <3>1
    <3> DEFINE f == [x \in A |-> IF m[x] = h - 1
                                 THEN IF stop[x] THEN d[x] ELSE g[up[x]] ELSE g[x]]
    <3>3. Fun(f)
      OBVIOUS
    <3>4. Upto(h, f)
      <4> SUFFICES ASSUME NEW x \in A, m[x] < h
                   PROVE  f[x] = IF stop[x] THEN d[x] ELSE f[up[x]]
        OBVIOUS
      <4>1. ~stop[x] => up[x] \in A /\ m[up[x]] \in Nat /\ m[x] \in Nat /\ m[up[x]] < m[x]
        OBVIOUS
      <4>2. ~stop[x] => f[up[x]] = g[up[x]]
        BY <2>2, <4>1
      <4>3. CASE m[x] = h - 1
        BY <4>2, <4>3
      <4>4. CASE m[x] # h - 1
        <5>1. m[x] < h - 1
          BY <2>2, <4>4
        <5>2. f[x] = g[x] /\ g[x] = IF stop[x] THEN d[x] ELSE g[up[x]]
          BY <3>2, <4>4, <5>1
        <5> QED BY <4>2, <5>2
      <4> QED BY <4>3, <4>4
    <3> QED BY <2>2, <3>3, <3>4
  <2> QED BY <2>3, <2>4
<1>2. M + 1 \in Nat /\ M + 1 \notin Bad
  BY <1>1
<1>3. PICK g : Fun(g) /\ Upto(M + 1, g)
  BY <1>2
<1>4. \A x \in A : g[x] = IF stop[x] THEN d[x] ELSE g[up[x]]
  BY <1>3
<1>5. g = [x \in A |-> IF stop[x] THEN d[x] ELSE g[up[x]]]
  <2> DEFINE F == [x \in A |-> IF stop[x] THEN d[x] ELSE g[up[x]]]
  <2>1. g = [x \in A |-> g[x]] /\ F = [x \in A |-> F[x]] /\ \A x \in A : F[x] = g[x]
    BY <1>3, <1>4
  <2> HIDE DEF F
  <2>2. g = F
    BY <2>1
  <2> QED BY <2>2 DEF F
<1> QED BY <1>5 DEF Solves

(* Child i of an inner node is child number i of it. *)
LEMMA IndexOfChild ==
    ASSUME NEW ht, Tree(node, allocated, root, ht), NEW z \in allocated, ~node[z].is_leaf,
           NEW j \in 1..(KeyCnt(z) + 1)
    PROVE  index_of_child(z, Child(z, j)) = j
<1>1. Len(node[z].child) = KeyCnt(z) + 1
  BY DEF Tree, Sized, KeyCnt
<1>2. \A i \in 1..(KeyCnt(z) + 1) : Child(z, i) = Child(z, j) => i = j
  BY <1>1, TreeChildrenDiffer DEF Child
<1> QED BY <1>2 DEF index_of_child

(* The child of an inner node, ... *)
LEMMA DownOne ==
    ASSUME NEW ht, Tree(node, allocated, root, ht), NEW z \in allocated, ~node[z].is_leaf,
           NEW j \in 1..(KeyCnt(z) + 1)
    PROVE  /\ Child(z, j) \in allocated /\ node[Child(z, j)].parent = z
           /\ z # NULL
           /\ ht[z] \in Nat /\ ht[Child(z, j)] \in Nat /\ ht[Child(z, j)] = ht[z] - 1
           /\ KeyCnt(z) \in Nat /\ Len(node[z].child) = KeyCnt(z) + 1
<1>1. Len(node[z].child) = KeyCnt(z) + 1
  BY DEF Tree, Sized, KeyCnt
<1>2. j \in 1..Len(node[z].child)
  BY <1>1
<1>3. /\ Child(z, j) \in allocated /\ node[Child(z, j)].parent = z
      /\ ht[z] \in Nat /\ ht[Child(z, j)] \in Nat /\ ht[Child(z, j)] = ht[z] - 1
  BY <1>2, TreeChild DEF Child
<1>4. z # NULL /\ KeyCnt(z) \in Nat
  BY TreeFacts DEF KeyCnt
<1> QED BY <1>1, <1>3, <1>4

(* ... and a node below the root as the child it is. *)
LEMMA UpOne ==
    ASSUME NEW ht, Tree(node, allocated, root, ht), NEW x \in allocated, x # root
    PROVE  \E z \in allocated : \E j \in 1..(KeyCnt(z) + 1) :
              /\ ~node[z].is_leaf /\ x = Child(z, j) /\ node[x].parent = z
              /\ ht[z] = ht[x] + 1
<1>1. PICK z \in allocated : z = node[x].parent
  BY TreeParent
<1>2. PICK j \in 1..Len(node[z].child) : node[z].child[j] = x
  BY <1>1, TreeParent
<1>3. ~node[z].is_leaf
  BY <1>2, TreeChild
<1>4. Len(node[z].child) = KeyCnt(z) + 1
  BY <1>3 DEF Tree, Sized, KeyCnt
<1>5. ht[z] = ht[x] + 1
  BY <1>1, BelowTop
<1> QED BY <1>1, <1>2, <1>3, <1>4, <1>5 DEF Child

(* The four functions are the solutions of their equations, if there are   *)
(* any.                                                                    *)
LEMMA MostLeftChosen ==
    ASSUME NEW f, f = [x \in allocated |-> IF node[x].is_leaf THEN x ELSE f[Child(x, 1)]]
    PROVE  get_most_left = [x \in allocated |->
              IF node[x].is_leaf THEN x ELSE get_most_left[Child(x, 1)]]
BY Zenon DEF get_most_left

(* The same for the walk down to the right, ... *)
LEMMA MostRightChosen ==
    ASSUME NEW f, f = [x \in allocated |->
              IF node[x].is_leaf THEN x ELSE f[Child(x, KeyCnt(x) + 1)]]
    PROVE  get_most_right = [x \in allocated |->
              IF node[x].is_leaf THEN x ELSE get_most_right[Child(x, KeyCnt(x) + 1)]]
BY Zenon DEF get_most_right

(* Where the walk up from x ends: at the root, or at a parent with a key   *)
(* on the side it goes to.                                                 *)
NextStops(x) ==
    LET p == node[x].parent IN p = NULL \/ ~NoKeyAfter(p, index_of_child(p, x))
PrevStops(x) ==
    LET p == node[x].parent IN p = NULL \/ ~NoKeyBefore(p, index_of_child(p, x))
NextEnd(x) ==
    LET p == node[x].parent IN IF p = NULL THEN End ELSE Pos(p, index_of_child(p, x))
PrevEnd(x) ==
    LET p == node[x].parent IN IF p = NULL THEN End ELSE Pos(p, index_of_child(p, x) - 1)

(* ... for the walk up to the key after a node, ... *)
LEMMA NextAboveChosen ==
    ASSUME NEW f, f = [x \in allocated |->
              LET p == node[x].parent
                  i == index_of_child(p, x)
              IN  IF p = NULL THEN End
                  ELSE IF NoKeyAfter(p, i) THEN f[p] ELSE Pos(p, i)]
    PROVE  next_above = [x \in allocated |->
              LET p == node[x].parent
                  i == index_of_child(p, x)
              IN  IF p = NULL THEN End
                  ELSE IF NoKeyAfter(p, i) THEN next_above[p] ELSE Pos(p, i)]
BY Zenon DEF next_above

(* ... and for the walk up to the key before it. *)
LEMMA PrevAboveChosen ==
    ASSUME NEW f, f = [x \in allocated |->
              LET p == node[x].parent
                  i == index_of_child(p, x)
              IN  IF p = NULL THEN End
                  ELSE IF NoKeyBefore(p, i) THEN f[p] ELSE Pos(p, i - 1)]
    PROVE  prev_above = [x \in allocated |->
              LET p == node[x].parent
                  i == index_of_child(p, x)
              IN  IF p = NULL THEN End
                  ELSE IF NoKeyBefore(p, i) THEN prev_above[p] ELSE Pos(p, i - 1)]
BY Zenon DEF prev_above

(* The walk down to the leftmost leaf ends. *)
LEMMA MostLeftEquation ==
    ASSUME NEW ht, Tree(node, allocated, root, ht), NEW x \in allocated
    PROVE  get_most_left[x] = IF node[x].is_leaf THEN x ELSE get_most_left[Child(x, 1)]
<1> DEFINE m == [a \in allocated |-> ht[a]]
           stop == [a \in allocated |-> node[a].is_leaf]
           up == [a \in allocated |-> Child(a, 1)]
           d == [a \in allocated |-> a]
<1>1. m \in [allocated -> Nat] /\ ht[root] \in Nat /\ \A a \in allocated : m[a] <= ht[root]
  BY TreeFacts
<1>2. ASSUME NEW a \in allocated, ~stop[a]
      PROVE  up[a] \in allocated /\ m[up[a]] < m[a]
  <2>1. ~node[a].is_leaf
    BY <1>2
  <2>2. KeyCnt(a) \in Nat
    BY TreeFacts DEF KeyCnt
  <2>3. 1 \in 1..(KeyCnt(a) + 1)
    BY <2>2
  <2>4. Child(a, 1) \in allocated /\ ht[a] \in Nat /\ ht[Child(a, 1)] = ht[a] - 1
    BY <2>1, <2>3, DownOne
  <2> QED BY <2>4
<1>3. PICK f : Solves(f, allocated, d, stop, up)
  <2> HIDE DEF m, stop, up, d
  <2> QED BY <1>1, <1>2, EquationSolvable
<1>4. f = [a \in allocated |-> IF stop[a] THEN d[a] ELSE f[up[a]]]
  BY <1>3 DEF Solves
<1>5. f = [a \in allocated |-> IF node[a].is_leaf THEN a ELSE f[Child(a, 1)]]
  <2> DEFINE F == [a \in allocated |-> IF node[a].is_leaf THEN a ELSE f[Child(a, 1)]]
             G == [a \in allocated |-> IF stop[a] THEN d[a] ELSE f[up[a]]]
  <2>1. \A a \in allocated : F[a] = G[a]
    OBVIOUS
  <2>2. F = [a \in allocated |-> F[a]] /\ G = [a \in allocated |-> G[a]]
    OBVIOUS
  <2>3. F = G
    <3> HIDE DEF F, G
    <3> QED BY <2>1, <2>2
  <2>4. f = G
    BY <1>4
  <2> QED BY <2>3, <2>4
<1>6. get_most_left = [a \in allocated |->
              IF node[a].is_leaf THEN a ELSE get_most_left[Child(a, 1)]]
  BY <1>5, MostLeftChosen
<1> QED BY <1>6

(* The walk down to the rightmost leaf ends. *)
LEMMA MostRightEquation ==
    ASSUME NEW ht, Tree(node, allocated, root, ht), NEW x \in allocated
    PROVE  get_most_right[x] =
              IF node[x].is_leaf THEN x ELSE get_most_right[Child(x, KeyCnt(x) + 1)]
<1> DEFINE m == [a \in allocated |-> ht[a]]
           stop == [a \in allocated |-> node[a].is_leaf]
           up == [a \in allocated |-> Child(a, KeyCnt(a) + 1)]
           d == [a \in allocated |-> a]
<1>1. m \in [allocated -> Nat] /\ ht[root] \in Nat /\ \A a \in allocated : m[a] <= ht[root]
  BY TreeFacts
<1>2. ASSUME NEW a \in allocated, ~stop[a]
      PROVE  up[a] \in allocated /\ m[up[a]] < m[a]
  <2>1. ~node[a].is_leaf
    BY <1>2
  <2>2. KeyCnt(a) \in Nat
    BY TreeFacts DEF KeyCnt
  <2>3. KeyCnt(a) + 1 \in 1..(KeyCnt(a) + 1)
    BY <2>2
  <2>4. /\ Child(a, KeyCnt(a) + 1) \in allocated
        /\ ht[a] \in Nat /\ ht[Child(a, KeyCnt(a) + 1)] = ht[a] - 1
    BY <2>1, <2>3, DownOne
  <2> QED BY <2>4
<1>3. PICK f : Solves(f, allocated, d, stop, up)
  <2> HIDE DEF m, stop, up, d
  <2> QED BY <1>1, <1>2, EquationSolvable
<1>4. f = [a \in allocated |-> IF stop[a] THEN d[a] ELSE f[up[a]]]
  BY <1>3 DEF Solves
<1>5. f = [a \in allocated |-> IF node[a].is_leaf THEN a ELSE f[Child(a, KeyCnt(a) + 1)]]
  <2> DEFINE F == [a \in allocated |-> IF node[a].is_leaf THEN a
                                       ELSE f[Child(a, KeyCnt(a) + 1)]]
             G == [a \in allocated |-> IF stop[a] THEN d[a] ELSE f[up[a]]]
  <2>1. \A a \in allocated : F[a] = G[a]
    OBVIOUS
  <2>2. F = [a \in allocated |-> F[a]] /\ G = [a \in allocated |-> G[a]]
    OBVIOUS
  <2>3. F = G
    <3> HIDE DEF F, G
    <3> QED BY <2>1, <2>2
  <2>4. f = G
    BY <1>4
  <2> QED BY <2>3, <2>4
<1>6. get_most_right = [a \in allocated |->
              IF node[a].is_leaf THEN a ELSE get_most_right[Child(a, KeyCnt(a) + 1)]]
  BY <1>5, MostRightChosen
<1> QED BY <1>6

(* A walk up to the parent ends at the root. *)
LEMMA UpwardEnds ==
    ASSUME NEW ht, Tree(node, allocated, root, ht), NEW stop, NEW d,
           \A a \in allocated : node[a].parent = NULL => stop[a]
    PROVE  \E f : Solves(f, allocated, d, stop, [a \in allocated |-> node[a].parent])
<1> DEFINE m == [a \in allocated |-> ht[root] - ht[a]]
           up == [a \in allocated |-> node[a].parent]
<1>1. m \in [allocated -> Nat] /\ ht[root] \in Nat /\ \A a \in allocated : m[a] <= ht[root]
  BY TreeFacts
<1>2. ASSUME NEW a \in allocated, ~stop[a]
      PROVE  up[a] \in allocated /\ m[up[a]] < m[a]
  <2>1. a # root
    BY <1>2, TreeParent
  <2>2. /\ ht[a] \in Nat /\ ht[root] \in Nat
        /\ node[a].parent \in allocated /\ ht[node[a].parent] = ht[a] + 1
    BY <2>1, BelowTop
  <2> QED BY <2>2
<1> HIDE DEF m, up
<1>3. \E f : Solves(f, allocated, d, stop, up)
  BY <1>1, <1>2, EquationSolvable
<1> QED BY <1>3 DEF up

(* The walk up to the key after a node ends, at the root at the latest. *)
LEMMA NextAboveEquation ==
    ASSUME NEW ht, Tree(node, allocated, root, ht), NEW x \in allocated
    PROVE  LET p == node[x].parent
               i == index_of_child(p, x)
           IN  next_above[x] = IF p = NULL THEN End
                               ELSE IF NoKeyAfter(p, i) THEN next_above[p] ELSE Pos(p, i)
<1> DEFINE up == [a \in allocated |-> node[a].parent]
           stop == [a \in allocated |-> NextStops(a)]
           d == [a \in allocated |-> NextEnd(a)]
<1>1. \A a \in allocated : node[a].parent = NULL => stop[a]
  BY DEF NextStops
<1>2. PICK f : Solves(f, allocated, d, stop, up)
  <2> HIDE DEF stop, d
  <2> QED BY <1>1, UpwardEnds
<1>3. f = [a \in allocated |-> IF stop[a] THEN d[a] ELSE f[up[a]]]
  BY <1>2 DEF Solves
<1> DEFINE F == [a \in allocated |->
              LET p == node[a].parent
                  i == index_of_child(p, a)
              IN  IF p = NULL THEN End
                  ELSE IF NoKeyAfter(p, i) THEN f[p] ELSE Pos(p, i)]
           G == [a \in allocated |-> IF stop[a] THEN d[a] ELSE f[up[a]]]
<1>4. \A a \in allocated : F[a] = G[a]
  BY DEF NextStops, NextEnd
<1>5. F = [a \in allocated |-> F[a]] /\ G = [a \in allocated |-> G[a]]
  OBVIOUS
<1>6. F = G
  <2> HIDE DEF F, G
  <2> QED BY <1>4, <1>5
<1>7. f = F
  BY <1>3, <1>6
<1>8. next_above = [a \in allocated |->
              LET p == node[a].parent
                  i == index_of_child(p, a)
              IN  IF p = NULL THEN End
                  ELSE IF NoKeyAfter(p, i) THEN next_above[p] ELSE Pos(p, i)]
  BY <1>7, NextAboveChosen
<1> QED BY <1>8

(* And so does the walk up to the key before it. *)
LEMMA PrevAboveEquation ==
    ASSUME NEW ht, Tree(node, allocated, root, ht), NEW x \in allocated
    PROVE  LET p == node[x].parent
               i == index_of_child(p, x)
           IN  prev_above[x] = IF p = NULL THEN End
                               ELSE IF NoKeyBefore(p, i) THEN prev_above[p] ELSE Pos(p, i - 1)
<1> DEFINE up == [a \in allocated |-> node[a].parent]
           stop == [a \in allocated |-> PrevStops(a)]
           d == [a \in allocated |-> PrevEnd(a)]
<1>1. \A a \in allocated : node[a].parent = NULL => stop[a]
  BY DEF PrevStops
<1>2. PICK f : Solves(f, allocated, d, stop, up)
  <2> HIDE DEF stop, d
  <2> QED BY <1>1, UpwardEnds
<1>3. f = [a \in allocated |-> IF stop[a] THEN d[a] ELSE f[up[a]]]
  BY <1>2 DEF Solves
<1> DEFINE F == [a \in allocated |->
              LET p == node[a].parent
                  i == index_of_child(p, a)
              IN  IF p = NULL THEN End
                  ELSE IF NoKeyBefore(p, i) THEN f[p] ELSE Pos(p, i - 1)]
           G == [a \in allocated |-> IF stop[a] THEN d[a] ELSE f[up[a]]]
<1>4. \A a \in allocated : F[a] = G[a]
  BY DEF PrevStops, PrevEnd
<1>5. F = [a \in allocated |-> F[a]] /\ G = [a \in allocated |-> G[a]]
  OBVIOUS
<1>6. F = G
  <2> HIDE DEF F, G
  <2> QED BY <1>4, <1>5
<1>7. f = F
  BY <1>3, <1>6
<1>8. prev_above = [a \in allocated |->
              LET p == node[a].parent
                  i == index_of_child(p, a)
              IN  IF p = NULL THEN End
                  ELSE IF NoKeyBefore(p, i) THEN prev_above[p] ELSE Pos(p, i - 1)]
  BY <1>7, PrevAboveChosen
<1> QED BY <1>8

(* Above the root there is no key. *)
LEMMA AboveRoot ==
    ASSUME NEW ht, Tree(node, allocated, root, ht)
    PROVE  next_above[root] = End /\ prev_above[root] = End
<1>1. root \in allocated
  BY TreeFacts
<1>2. node[root].parent = NULL
  BY <1>1, TreeParent
<1>3. next_above[root] = End
  BY <1>1, <1>2, NextAboveEquation
<1>4. prev_above[root] = End
  BY <1>1, <1>2, PrevAboveEquation
<1> QED BY <1>3, <1>4

(* The key above child j of z is z's own, unless j is the last child. *)
LEMMA NextAboveChild ==
    ASSUME NEW ht, Tree(node, allocated, root, ht), NEW z \in allocated, ~node[z].is_leaf,
           NEW j \in 1..(KeyCnt(z) + 1)
    PROVE  next_above[Child(z, j)] = IF j = KeyCnt(z) + 1 THEN next_above[z] ELSE Pos(z, j)
<1>1. Child(z, j) \in allocated /\ node[Child(z, j)].parent = z /\ z # NULL
  BY DownOne
<1>2. index_of_child(z, Child(z, j)) = j
  BY IndexOfChild
<1>3. PICK x \in allocated : x = Child(z, j)
  BY <1>1
<1>4. next_above[x] = IF z = NULL THEN End
                      ELSE IF NoKeyAfter(z, j) THEN next_above[z] ELSE Pos(z, j)
  BY <1>1, <1>2, <1>3, NextAboveEquation
<1> QED BY <1>1, <1>3, <1>4 DEF NoKeyAfter

(* The key before child j of z is z's own, unless j is the first child. *)
LEMMA PrevAboveChild ==
    ASSUME NEW ht, Tree(node, allocated, root, ht), NEW z \in allocated, ~node[z].is_leaf,
           NEW j \in 1..(KeyCnt(z) + 1)
    PROVE  prev_above[Child(z, j)] = IF j = 1 THEN prev_above[z] ELSE Pos(z, j - 1)
<1>1. Child(z, j) \in allocated /\ node[Child(z, j)].parent = z /\ z # NULL
  BY DownOne
<1>2. index_of_child(z, Child(z, j)) = j
  BY IndexOfChild
<1>3. PICK x \in allocated : x = Child(z, j)
  BY <1>1
<1>4. prev_above[x] = IF z = NULL THEN End
                      ELSE IF NoKeyBefore(z, j) THEN prev_above[z] ELSE Pos(z, j - 1)
  BY <1>1, <1>2, <1>3, PrevAboveEquation
<1> QED BY <1>1, <1>3, <1>4 DEF NoKeyBefore

(* The leftmost leaf of u has before it the key that u has before it. *)
LeftLeaf(u) ==
    /\ get_most_left[u] \in allocated /\ node[get_most_left[u]].is_leaf
    /\ prev_above[get_most_left[u]] = prev_above[u]

(* The rightmost leaf of u has after it the key that u has after it. *)
RightLeaf(u) ==
    /\ get_most_right[u] \in allocated /\ node[get_most_right[u]].is_leaf
    /\ next_above[get_most_right[u]] = next_above[u]

(* The key after u is the one behind the last child u is in the rightmost  *)
(* leaf of; if there is none, u ends with the rightmost leaf of the tree.  *)
KeyAfter(u) ==
    \/ next_above[u] = End /\ get_most_right[root] = get_most_right[u]
    \/ \E p \in allocated : \E i \in 1..KeyCnt(p) :
          /\ ~node[p].is_leaf /\ next_above[u] = Pos(p, i)
          /\ get_most_right[Child(p, i)] = get_most_right[u]

(* From the leaves up: each node on the left edge is its parent's child 1,  *)
(* and no key above lies between.                                           *)
LEMMA EveryLeftLeaf ==
    ASSUME NEW ht, Tree(node, allocated, root, ht), NEW x \in allocated
    PROVE  LeftLeaf(x)
<1> DEFINE Bad == {h \in Nat : \E u \in allocated : ht[u] = h /\ ~LeftLeaf(u)}
<1>1. ASSUME NEW u \in allocated PROVE ht[u] \in Nat /\ KeyCnt(u) \in Nat
  BY TreeFacts DEF KeyCnt
<1>2. ASSUME Bad # {} PROVE FALSE
  <2>1. PICK h \in Bad : \A i \in Bad : h <= i
    BY <1>2, LeastNatural
  <2>2. PICK u \in allocated : ht[u] = h /\ ~LeftLeaf(u)
    OBVIOUS
  <2>3. CASE node[u].is_leaf
    <3>1. get_most_left[u] = u
      BY <2>3, MostLeftEquation
    <3> QED BY <2>2, <2>3, <3>1 DEF LeftLeaf
  <2>4. CASE ~node[u].is_leaf
    <3>1. 1 \in 1..(KeyCnt(u) + 1)
      BY <1>1
    <3>2. Child(u, 1) \in allocated /\ ht[Child(u, 1)] \in Nat /\ ht[Child(u, 1)] = ht[u] - 1
      BY <2>4, <3>1, DownOne
    <3>3. ~(h <= ht[Child(u, 1)])
      BY <2>2, <3>2
    <3>4. LeftLeaf(Child(u, 1))
      BY <2>1, <3>2, <3>3
    <3>5. prev_above[Child(u, 1)] = prev_above[u]
      BY <2>4, <3>1, PrevAboveChild
    <3>6. get_most_left[u] = get_most_left[Child(u, 1)]
      BY <2>4, MostLeftEquation
    <3> QED BY <2>2, <3>4, <3>5, <3>6 DEF LeftLeaf
  <2> QED BY <2>3, <2>4
<1> QED BY <1>1, <1>2

(* The same for the right edge. *)
LEMMA EveryRightLeaf ==
    ASSUME NEW ht, Tree(node, allocated, root, ht), NEW x \in allocated
    PROVE  RightLeaf(x)
<1> DEFINE Bad == {h \in Nat : \E u \in allocated : ht[u] = h /\ ~RightLeaf(u)}
<1>1. ASSUME NEW u \in allocated PROVE ht[u] \in Nat /\ KeyCnt(u) \in Nat
  BY TreeFacts DEF KeyCnt
<1>2. ASSUME Bad # {} PROVE FALSE
  <2>1. PICK h \in Bad : \A i \in Bad : h <= i
    BY <1>2, LeastNatural
  <2>2. PICK u \in allocated : ht[u] = h /\ ~RightLeaf(u)
    OBVIOUS
  <2>3. CASE node[u].is_leaf
    <3>1. get_most_right[u] = u
      BY <2>3, MostRightEquation
    <3> QED BY <2>2, <2>3, <3>1 DEF RightLeaf
  <2>4. CASE ~node[u].is_leaf
    <3>0. PICK j \in 1..(KeyCnt(u) + 1) : j = KeyCnt(u) + 1
      BY <1>1
    <3>2. Child(u, j) \in allocated /\ ht[Child(u, j)] \in Nat /\ ht[Child(u, j)] = ht[u] - 1
      BY <2>4, DownOne
    <3>3. ~(h <= ht[Child(u, j)])
      BY <2>2, <3>2
    <3>4. RightLeaf(Child(u, j))
      BY <2>1, <3>2, <3>3
    <3>5. next_above[Child(u, j)] = next_above[u]
      BY <2>4, <3>0, NextAboveChild
    <3>6. get_most_right[u] = get_most_right[Child(u, j)]
      BY <2>4, <3>0, MostRightEquation
    <3> QED BY <2>2, <3>4, <3>5, <3>6 DEF RightLeaf
  <2> QED BY <2>3, <2>4
<1> QED BY <1>1, <1>2

(* From the root down: the last child has the same key after it as its      *)
(* parent and the same rightmost leaf, the others have the key beside them. *)
LEMMA EveryKeyAfter ==
    ASSUME NEW ht, Tree(node, allocated, root, ht), NEW x \in allocated
    PROVE  KeyAfter(x)
<1> DEFINE Bad == {h \in Nat : \E u \in allocated : ht[root] - ht[u] = h /\ ~KeyAfter(u)}
<1>1. ASSUME NEW u \in allocated
      PROVE  /\ ht[u] \in Nat /\ KeyCnt(u) \in Nat /\ ht[root] \in Nat
             /\ ht[root] - ht[u] \in Nat
  BY TreeFacts DEF KeyCnt
<1>2. ASSUME Bad # {} PROVE FALSE
  <2>1. PICK h \in Bad : \A i \in Bad : h <= i
    BY <1>2, LeastNatural
  <2>2. PICK u \in allocated : ht[root] - ht[u] = h /\ ~KeyAfter(u)
    OBVIOUS
  <2>3. CASE u = root
    BY <2>2, <2>3, AboveRoot DEF KeyAfter
  <2>4. CASE u # root
    <3>1. PICK z \in allocated : \E j \in 1..(KeyCnt(z) + 1) :
              /\ ~node[z].is_leaf /\ u = Child(z, j) /\ node[u].parent = z
              /\ ht[z] = ht[u] + 1
      BY <2>4, UpOne
    <3>2. PICK j \in 1..(KeyCnt(z) + 1) :
              ~node[z].is_leaf /\ u = Child(z, j) /\ ht[z] = ht[u] + 1
      BY <3>1
    <3>3. next_above[u] = IF j = KeyCnt(z) + 1 THEN next_above[z] ELSE Pos(z, j)
      BY <3>2, NextAboveChild
    <3>4. CASE j = KeyCnt(z) + 1
      <4>1. get_most_right[z] = get_most_right[u]
        BY <3>2, <3>4, MostRightEquation
      <4>2. ~(h <= ht[root] - ht[z]) /\ ht[root] - ht[z] \in Nat
        BY <1>1, <2>2, <3>2
      <4>3. KeyAfter(z)
        BY <2>1, <4>2
      <4>4. next_above[u] = next_above[z]
        BY <3>3, <3>4
      <4>5. KeyAfter(u)
        BY <4>1, <4>3, <4>4 DEF KeyAfter
      <4> QED BY <2>2, <4>5
    <3>5. CASE j # KeyCnt(z) + 1
      <4>0. \A a \in Nat : \A b \in 1..(a + 1) : b # a + 1 => b \in 1..a
        OBVIOUS
      <4>1. j \in 1..KeyCnt(z)
        BY <1>1, <3>5, <4>0
      <4>2. next_above[u] = Pos(z, j)
        BY <3>3, <3>5
      <4>3. KeyAfter(u)
        BY <3>2, <4>1, <4>2 DEF KeyAfter
      <4> QED BY <2>2, <4>3
    <3> QED BY <3>4, <3>5
  <2> QED BY <2>3, <2>4
<1> QED BY <1>1, <1>2

(* The successor of a key, case by case. *)
LEMMA SuccOfInner ==
    ASSUME NEW x, NEW i, ~node[x].is_leaf
    PROVE  getSucc_global(x, i) = Pos(get_most_left[Child(x, i + 1)], 1)
BY DEF getSucc_global

(* Within a leaf it is beside the key, ... *)
LEMMA SuccInLeaf ==
    ASSUME NEW x, NEW i, node[x].is_leaf, i < KeyCnt(x)
    PROVE  getSucc_global(x, i) = Pos(x, i + 1)
BY DEF getSucc_global

(* ... and behind the leaf it is above. *)
LEMMA SuccOfLast ==
    ASSUME NEW x, NEW i, node[x].is_leaf, ~(i < KeyCnt(x))
    PROVE  getSucc_global(x, i) = next_above[x]
BY DEF getSucc_global

(* And the predecessor. *)
LEMMA PredOfInner ==
    ASSUME NEW x, NEW i, NEW y, ~node[x].is_leaf, y = get_most_right[Child(x, i)]
    PROVE  getPred_global(x, i) = Pos(y, KeyCnt(y))
BY DEF getPred_global

(* Within a leaf it is beside the key, ... *)
LEMMA PredInLeaf ==
    ASSUME NEW x, NEW i, node[x].is_leaf, i > 1
    PROVE  getPred_global(x, i) = Pos(x, i - 1)
BY DEF getPred_global

(* ... and before the leaf it is above. *)
LEMMA PredOfFirst ==
    ASSUME NEW x, node[x].is_leaf
    PROVE  getPred_global(x, 1) = prev_above[x]
BY DEF getPred_global

(* A position is a node and an index. *)
LEMMA PosFields ==
    ASSUME NEW x, NEW i
    PROVE  Pos(x, i).node = x /\ Pos(x, i).idx = i
BY DEF Pos

(* The positions are the keys of the nodes in use. *)
LEMMA PositionIs ==
    ASSUME NEW pos
    PROVE  pos \in Positions <=>
              \E x \in allocated : \E i \in 1..KeyCnt(x) : pos = Pos(x, i)
BY DEF Positions

(* Going on and back leads to the same key. *)
LEMMA BackAgain ==
    ASSUME NEW ht, Tree(node, allocated, root, ht), NEW x \in allocated,
           NEW i \in 1..KeyCnt(x), NEW next, next = getSucc_global(x, i), next # End
    PROVE  getPred_global(next.node, next.idx) = Pos(x, i)
<1>0. KeyCnt(x) \in Nat
  BY TreeFacts DEF KeyCnt
<1>1. CASE ~node[x].is_leaf
  <2>1. i + 1 \in 1..(KeyCnt(x) + 1) /\ i + 1 # 1 /\ (i + 1) - 1 = i
    BY <1>0
  <2>2. PICK c \in allocated : c = Child(x, i + 1)
    BY <1>1, <2>1, DownOne
  <2>3. prev_above[c] = Pos(x, i)
    BY <1>1, <2>1, <2>2, PrevAboveChild
  <2>4. PICK y \in allocated : y = get_most_left[c] /\ node[y].is_leaf /\ prev_above[y] = prev_above[c]
    BY EveryLeftLeaf DEF LeftLeaf
  <2>5. next = Pos(y, 1)
    BY <1>1, <2>2, <2>4, SuccOfInner
  <2>6. getPred_global(y, 1) = prev_above[y]
    BY <2>4, PredOfFirst
  <2> QED BY <2>3, <2>4, <2>5, <2>6, PosFields
<1>2. CASE node[x].is_leaf /\ i < KeyCnt(x)
  <2>1. next = Pos(x, i + 1)
    BY <1>2, SuccInLeaf
  <2>2. getPred_global(x, i + 1) = Pos(x, (i + 1) - 1)
    BY <1>0, <1>2, PredInLeaf
  <2>3. (i + 1) - 1 = i
    BY <1>0
  <2> QED BY <2>1, <2>2, <2>3, PosFields
<1>3. CASE node[x].is_leaf /\ ~(i < KeyCnt(x))
  <2>1. next = next_above[x] /\ i = KeyCnt(x)
    BY <1>0, <1>3, SuccOfLast
  <2>2. get_most_right[x] = x
    BY <1>3, MostRightEquation
  <2>3. KeyAfter(x)
    BY EveryKeyAfter
  <2>4. PICK p \in allocated : \E j \in 1..KeyCnt(p) :
           /\ ~node[p].is_leaf /\ next_above[x] = Pos(p, j)
           /\ get_most_right[Child(p, j)] = get_most_right[x]
    BY <2>1, <2>3 DEF KeyAfter
  <2>5. PICK j \in 1..KeyCnt(p) :
           ~node[p].is_leaf /\ next = Pos(p, j) /\ x = get_most_right[Child(p, j)]
    BY <2>1, <2>2, <2>4
  <2>6. getPred_global(p, j) = Pos(x, KeyCnt(x))
    BY <2>5, PredOfInner
  <2> QED BY <2>1, <2>5, <2>6, PosFields
<1> QED BY <1>1, <1>2, <1>3

(* In every tree the invariant admits, -- undoes ++, and there is nothing   *)
(* before the first key.                                                    *)
LEMMA PredUndoesInv == IInv => PredUndoesSucc
<1> SUFFICES ASSUME IInv, pc = "idle", root # NULL
             PROVE  /\ getPred_global(get_most_left[root], 1) = End
                    /\ \A pos \in Positions :
                          LET next == getSucc_global(pos.node, pos.idx)
                          IN  next # End => getPred_global(next.node, next.idx) = pos
  BY DEF PredUndoesSucc
<1>1. Top = root
  BY DEF IInv, AtInsert, Top
<1>2. PICK ht : Tree(node, allocated, root, ht)
  BY <1>1 DEF IInv, Shape
<1>3. getPred_global(get_most_left[root], 1) = End
  <2>1. root \in allocated
    BY <1>2, TreeFacts
  <2>2. PICK y : y = get_most_left[root] /\ node[y].is_leaf /\ prev_above[y] = prev_above[root]
    BY <1>2, <2>1, EveryLeftLeaf DEF LeftLeaf
  <2>3. getPred_global(y, 1) = prev_above[y]
    BY <2>2, PredOfFirst
  <2> QED BY <1>2, <2>2, <2>3, AboveRoot
<1>4. ASSUME NEW pos \in Positions, NEW next, next = getSucc_global(pos.node, pos.idx), next # End
      PROVE  getPred_global(next.node, next.idx) = pos
  <2>1. PICK x \in allocated : \E i \in 1..KeyCnt(x) : pos = Pos(x, i)
    BY PositionIs
  <2>2. PICK i \in 1..KeyCnt(x) : pos = Pos(x, i)
    BY <2>1
  <2>3. next = getSucc_global(x, i)
    BY <1>4, <2>2, PosFields
  <2>4. getPred_global(next.node, next.idx) = Pos(x, i)
    BY <1>2, <1>4, <2>3, BackAgain
  <2> QED BY <2>2, <2>4
<1> QED BY <1>3, <1>4

(* The last leaf below u, in the direction of getPred, or the first one,   *)
(* and the child it is below.                                              *)
EndLeaf(dir, u) == IF dir = "getPred" THEN get_most_right[u] ELSE get_most_left[u]
EndChild(dir, u) == IF dir = "getPred" THEN KeyCnt(u) + 1 ELSE 1

(* The value g lies behind all keys of f, or before them. *)
Beyond(dir, f, g) ==
    \A l \in 1..Len(node[f].keys) :
       IF dir = "getPred" THEN Mark(node[f].keys, l) < g ELSE g < Mark(node[f].keys, l)

(* One step of the walk. *)
LEMMA EndStep ==
    ASSUME NEW ht, Tree(node, allocated, root, ht), NEW u \in allocated, ~node[u].is_leaf,
           NEW dir, NEW j, j = EndChild(dir, u), NEW z, z = node[u].child[j]
    PROVE  /\ j \in 1..Len(node[u].child) /\ j \in 1..(Len(node[u].keys) + 1)
           /\ z \in allocated /\ ht[z] \in Nat /\ ht[u] \in Nat /\ ht[z] = ht[u] - 1
           /\ EndLeaf(dir, u) = EndLeaf(dir, z)
<1>1. KeyCnt(u) \in Nat
  BY TreeFacts DEF KeyCnt
<1>2. j \in 1..(KeyCnt(u) + 1)
  BY <1>1 DEF EndChild
<1>3. Len(node[u].child) = KeyCnt(u) + 1 /\ z = Child(u, j)
  BY <1>2, DownOne DEF Child
<1>4. z \in allocated /\ ht[z] \in Nat /\ ht[u] \in Nat /\ ht[z] = ht[u] - 1
  BY <1>2, <1>3, DownOne
<1>5. EndLeaf(dir, u) = EndLeaf(dir, z)
  <2>1. CASE dir = "getPred"
    BY <1>3, <2>1, MostRightEquation DEF EndLeaf, EndChild
  <2>2. CASE dir # "getPred"
    BY <1>3, <2>2, MostLeftEquation DEF EndLeaf, EndChild
  <2> QED BY <2>1, <2>2
<1> QED BY <1>2, <1>3, <1>4, <1>5 DEF KeyCnt

(* The walk ends at a leaf, ... *)
LEMMA EndAtLeaf ==
    ASSUME NEW ht, Tree(node, allocated, root, ht), NEW u \in allocated, node[u].is_leaf, NEW dir
    PROVE  EndLeaf(dir, u) = u
BY MostRightEquation, MostLeftEquation DEF EndLeaf

(* ... which is in use. *)
LEMMA EndInUse ==
    ASSUME NEW ht, Tree(node, allocated, root, ht), NEW u \in allocated, NEW dir
    PROVE  EndLeaf(dir, u) \in allocated /\ node[EndLeaf(dir, u)].is_leaf
<1>1. LeftLeaf(u) /\ RightLeaf(u)
  BY EveryLeftLeaf, EveryRightLeaf
<1> QED BY <1>1 DEF LeftLeaf, RightLeaf, EndLeaf

(* The span of that leaf is a part of the span of u. *)
LEMMA EndSpan ==
    ASSUME NEW ht, Tree(node, allocated, root, ht),
           NEW sp, NEW e, NEW w, Ordered(node, allocated, sp, e, w),
           NEW dir, NEW x \in allocated
    PROVE  sp[EndLeaf(dir, x)] \subseteq sp[x]
<1> DEFINE Bad == {h \in Nat : \E u \in allocated : ht[u] = h /\ ~(sp[EndLeaf(dir, u)] \subseteq sp[u])}
<1>1. ASSUME Bad # {} PROVE FALSE
  <2>1. PICK h \in Bad : \A i \in Bad : h <= i
    BY <1>1, LeastNatural
  <2>2. PICK u \in allocated : ht[u] = h /\ ~(sp[EndLeaf(dir, u)] \subseteq sp[u])
    OBVIOUS
  <2>3. ~node[u].is_leaf
    BY <2>2, EndAtLeaf
  <2>4. PICK j, z : j = EndChild(dir, u) /\ z = node[u].child[j]
    OBVIOUS
  <2>5. /\ j \in 1..Len(node[u].child) /\ z \in allocated
        /\ ht[z] \in Nat /\ ht[u] \in Nat /\ ht[z] = ht[u] - 1
        /\ EndLeaf(dir, u) = EndLeaf(dir, z)
    BY <2>3, <2>4, EndStep
  <2>6. ~(h <= ht[z])
    BY <2>2, <2>5
  <2>7. sp[EndLeaf(dir, z)] \subseteq sp[z]
    BY <2>1, <2>5, <2>6
  <2>8. sp[z] \subseteq sp[u]
    BY <2>4, <2>5, ChildSpan
  <2> QED BY <2>2, <2>5, <2>7, <2>8
<1>2. ht[x] \in Nat
  BY TreeFacts
<1> QED BY <1>1, <1>2

(* A value in the span of c that lies beyond the keys of the last leaf     *)
(* below c may be taken into the span of that leaf.                        *)
LEMMA EdgeReached ==
    ASSUME NEW ht, Tree(node, allocated, root, ht),
           NEW sp, NEW w, Ordered(node, allocated, sp, NULL, w),
           NEW c \in allocated, NEW g, g \in sp[c], NEW dir, NEW f, f = EndLeaf(dir, c),
           Len(node[f].keys) >= 1, Beyond(dir, f, g)
    PROVE  \E sq : Ordered(node, allocated, sq, NULL, w) /\ g \in sq[f]
<1> DEFINE Good(u) == /\ EndLeaf(dir, u) = f
                      /\ \E sq : Ordered(node, allocated, sq, NULL, w) /\ g \in sq[u]
           Low == {h \in Nat : \E u \in allocated : ht[u] = h /\ Good(u)}
<1>1. Low # {}
  <2>1. ht[c] \in Nat
    BY TreeFacts
  <2>2. Good(c)
    OBVIOUS
  <2> QED BY <2>1, <2>2
<1>2. PICK h \in Low : \A i \in Low : h <= i
  BY <1>1, LeastNatural
<1>3. PICK u \in allocated : ht[u] = h /\ Good(u)
  OBVIOUS
<1>4. PICK sq : Ordered(node, allocated, sq, NULL, w) /\ g \in sq[u]
  BY <1>3
<1>5. CASE node[u].is_leaf
  <2>1. u = f
    BY <1>3, <1>5, EndAtLeaf
  <2> QED BY <1>4, <2>1
<1>6. CASE ~node[u].is_leaf
  <2>1. PICK j, z : j = EndChild(dir, u) /\ z = node[u].child[j]
    OBVIOUS
  <2>2. /\ j \in 1..Len(node[u].child) /\ j \in 1..(Len(node[u].keys) + 1)
        /\ z \in allocated
        /\ ht[z] \in Nat /\ ht[u] \in Nat /\ ht[z] = ht[u] - 1
        /\ EndLeaf(dir, u) = EndLeaf(dir, z)
    BY <1>6, <2>1, EndStep
  <2>3. f = EndLeaf(dir, z)
    BY <1>3, <2>2
  <2>4. f \in allocated /\ 1 \in 1..Len(node[f].keys)
    <3>1. f \in allocated
      BY EndInUse
    <3>2. Len(node[f].keys) \in Nat
      BY <3>1, TreeFacts
    <3> QED BY <3>1, <3>2
  <2>5. PICK m : m = Mark(node[f].keys, 1)
    OBVIOUS
  <2>6. m \in sq[z] /\ m \in Int
    <3>1. m \in sq[f]
      BY <1>4, <2>4, <2>5 DEF Ordered, Sorted
    <3>2. sq[f] \subseteq sq[z]
      BY <1>4, <2>2, <2>3, EndSpan
    <3> QED BY <2>4, <2>5, <3>1, <3>2, MarkInt
  <2>7. ASSUME NEW l \in 1..Len(node[u].keys)
        PROVE  /\ j <= l => m <= Mark(node[u].keys, l)
               /\ l < j => Mark(node[u].keys, l) <= m
               /\ Mark(node[u].keys, l) \in Int
    <3>1. Mark(node[u].keys, l) \in Int
      BY MarkInt
    <3>2. m \in sq[node[u].child[j]]
      BY <2>1, <2>6
    <3>3. /\ j <= l => m <= Mark(node[u].keys, l)
          /\ l < j => Mark(node[u].keys, l) <= m
      BY <1>4, <2>2, <3>2, ChildSpan
    <3> QED BY <3>1, <3>3
  <2>8. /\ dir = "getPred" => m < g
        /\ dir # "getPred" => g < m
    BY <2>4, <2>5 DEF Beyond
  <2>9. g \in Int /\ Len(node[u].keys) \in Nat
    <3>1. sq \in [Nodes -> SUBSET Int] /\ u \in Nodes /\ Len(node[u].keys) \in Nat
      BY <1>4, TreeFacts DEF Ordered
    <3> QED BY <1>4, <3>1
  <2>10. ASSUME NEW l \in 1..Len(node[u].keys)
         PROVE  /\ l < j => Mark(node[u].keys, l) < g
                /\ j <= l => g < Mark(node[u].keys, l)
    <3>1. CASE dir = "getPred"
      <4>1. j = Len(node[u].keys) + 1
        BY <2>1, <3>1 DEF EndChild, KeyCnt
      <4> QED BY <2>6, <2>7, <2>8, <2>9, <3>1, <4>1
    <3>2. CASE dir # "getPred"
      <4>1. j = 1
        BY <2>1, <3>2 DEF EndChild
      <4> QED BY <2>6, <2>7, <2>8, <2>9, <3>2, <4>1
    <3> QED BY <3>1, <3>2
  <2>11. Between(node[u].keys, j, g)
    BY <2>10 DEF Between
  <2>12. Room(node, allocated, root, sq, z, g)
    BY <1>4, <1>6, <2>1, <2>2, <2>11, ChildRoom
  <2>13. PICK sr : sr = With(sq, z, g)
    OBVIOUS
  <2>14. Ordered(node, allocated, sr, NULL, w) /\ g \in sr[z]
    BY <1>4, <2>12, <2>13, AddMark
  <2>15. Good(z)
    BY <2>3, <2>14
  <2>16. ~(h <= ht[z])
    BY <1>3, <2>2
  <2> QED BY <1>2, <2>2, <2>15, <2>16
<1> QED BY <1>5, <1>6

(* A value next to the mark m, with nothing that is twice a key between. *)
Neighbour(m, g) == g = m - 1 \/ g = m + 1

(* Whatever keys are before m, or behind it, are so for g. *)
LEMMA BetweenNeighbours ==
    ASSUME NEW H, NEW A, NEW t, NEW ht, Tree(H, A, t, ht),
           NEW x \in A, NEW j, NEW key \in Int, NEW m, m = 2 * key,
           NEW g, Neighbour(m, g), Between(H[x].keys, j, m)
    PROVE  Between(H[x].keys, j, g)
<1> SUFFICES ASSUME NEW l \in 1..Len(H[x].keys)
             PROVE  /\ l < j => Mark(H[x].keys, l) < g
                    /\ j <= l => g < Mark(H[x].keys, l)
  BY DEF Between
<1>1. PICK b : b = H[x].keys[l].key
  OBVIOUS
<1>2. b \in Int /\ Mark(H[x].keys, l) = 2 * b
  BY <1>1, MarkInt DEF Mark
<1>3. /\ l < j => 2 * b < 2 * key
      /\ j <= l => 2 * key < 2 * b
  BY <1>2 DEF Between
<1>4. \A c, d \in Int : 2 * c < 2 * d => 2 * c < 2 * d - 1 /\ 2 * c + 1 < 2 * d
  OBVIOUS
<1>5. /\ l < j => 2 * b < 2 * key - 1
      /\ j <= l => 2 * key + 1 < 2 * b
  BY <1>2, <1>3, <1>4
<1> QED BY <1>2, <1>3, <1>5 DEF Neighbour

(* A node above x has the mark of a key of x between its own keys, and x   *)
(* below the child there.                                                  *)
LEMMA StepTowards ==
    ASSUME NEW H, NEW A, NEW t, NEW ht, Tree(H, A, t, ht),
           NEW sp, NEW w, Ordered(H, A, sp, NULL, w),
           NEW x \in A, NEW u \in A, ht[x] < ht[u], NEW m, m \in sp[x], m \in sp[u]
    PROVE  \E j \in 1..Len(H[u].child) :
              /\ H[u].child[j] \in A /\ ht[H[u].child[j]] = ht[u] - 1
              /\ m \in sp[H[u].child[j]] /\ Between(H[u].keys, j, m)
<1>1. ht[u] \in Nat /\ ht[x] \in Nat /\ ht[u] <= ht[t] /\ ht[t] \in Nat
  BY TreeFacts
<1>2. PICK h \in Nat : h = ht[u] - 1
  BY <1>1
<1>3. PICK a \in A : ht[a] = h /\ sp[x] \subseteq sp[a]
  <2>1. ht[x] <= h /\ h <= ht[t]
    BY <1>1, <1>2
  <2> QED BY <2>1, Above
<1>4. a # t
  BY <1>1, <1>2, <1>3
<1>5. /\ H[a].parent \in A /\ ht[H[a].parent] = ht[a] + 1
      /\ sp[a] \subseteq sp[H[a].parent]
      /\ \E j \in 1..Len(H[H[a].parent].child) : H[H[a].parent].child[j] = a
  BY <1>4, ParentSpan
<1>6. m \in sp[a] /\ m \in sp[H[a].parent] /\ m \in Int
  <2>1. sp \in [Nodes -> SUBSET Int] /\ x \in Nodes
    BY TreeFacts DEF Ordered
  <2> QED BY <1>3, <1>5, <2>1
<1>7. H[a].parent = u
  <2>1. ht[H[a].parent] = ht[u]
    BY <1>1, <1>2, <1>3, <1>5
  <2>2. m <= m
    BY <1>6
  <2> QED BY <1>5, <1>6, <2>1, <2>2, SameNode
<1>8. PICK j \in 1..Len(H[u].child) : H[u].child[j] = a
  BY <1>5, <1>7
<1>9. ASSUME NEW l \in 1..Len(H[u].keys)
      PROVE  /\ l < j => Mark(H[u].keys, l) < m
             /\ j <= l => m < Mark(H[u].keys, l)
  <2>1. /\ j <= l => m <= Mark(H[u].keys, l)
        /\ l < j => Mark(H[u].keys, l) <= m
        /\ m = Mark(H[u].keys, l) => H[u].child[j] = NULL
    BY <1>6, <1>8, ChildSpan
  <2>2. Mark(H[u].keys, l) \in Int
    BY MarkInt
  <2>3. m # Mark(H[u].keys, l)
    BY <1>8, <2>1, TreeFacts
  <2> QED BY <1>6, <2>1, <2>2, <2>3
<1>10. Between(H[u].keys, j, m)
  BY <1>9 DEF Between
<1> QED BY <1>2, <1>3, <1>6, <1>8, <1>10

(* A value next to a key may be taken into the span of the key's node. *)
LEMMA NeighbourReached ==
    ASSUME NEW ht, Tree(node, allocated, root, ht),
           NEW sp, NEW w, Ordered(node, allocated, sp, NULL, w),
           NEW x \in allocated, NEW i \in 1..Len(node[x].keys),
           NEW g, Neighbour(Mark(node[x].keys, i), g)
    PROVE  \E sq : Ordered(node, allocated, sq, NULL, w) /\ g \in sq[x]
<1>1. PICK m : m = Mark(node[x].keys, i)
  OBVIOUS
<1>2. PICK key \in Int : m = 2 * key
  BY <1>1, MarkInt DEF Mark
<1>3. Neighbour(m, g) /\ m \in Int /\ g \in Int
  BY <1>1, <1>2 DEF Neighbour
<1> DEFINE Good(u) == \E sq : /\ Ordered(node, allocated, sq, NULL, w)
                              /\ m \in sq[u] /\ g \in sq[u]
           Low == {h \in Nat : ht[x] <= h /\ \E u \in allocated : ht[u] = h /\ Good(u)}
<1>4. ASSUME NEW sq, Ordered(node, allocated, sq, NULL, w) PROVE m \in sq[x]
  BY <1>1, <1>4 DEF Ordered, Sorted
<1>5. /\ root \in allocated /\ ht[root] \in Nat /\ ht[x] \in Nat /\ ht[x] <= ht[root]
      /\ NULL \notin allocated
  BY TreeFacts
<1>6. Low # {}
  <2>1. PICK a \in allocated : ht[a] = ht[root] /\ sp[x] \subseteq sp[a]
    <3>1. ht[root] <= ht[root]
      BY <1>5
    <3> QED BY <1>5, <3>1, Above
  <2>2. a = root
    <3>1. a # root => ht[a] < ht[root]
      BY BelowTop
    <3> QED BY <1>5, <2>1, <3>1
  <2>3. m \in sp[root]
    BY <1>4, <2>1, <2>2
  <2>4. Room(node, allocated, root, sp, root, g)
    BY <1>3, <1>5 DEF Room
  <2>5. PICK sq : sq = With(sp, root, g)
    OBVIOUS
  <2>6. Ordered(node, allocated, sq, NULL, w) /\ sq[root] = sp[root] \union {g}
    BY <2>4, <2>5, AddMark
  <2>7. Good(root)
    BY <2>3, <2>6
  <2> QED BY <1>5, <2>7
<1>7. PICK h \in Low : \A b \in Low : h <= b
  BY <1>6, LeastNatural
<1>8. PICK u \in allocated : ht[u] = h /\ Good(u)
  OBVIOUS
<1>9. PICK sq : Ordered(node, allocated, sq, NULL, w) /\ m \in sq[u] /\ g \in sq[u]
  BY <1>8
<1>10. m \in sq[x]
  BY <1>4, <1>9
<1>11. CASE h = ht[x]
  <2>1. u = x
    <3>1. m <= m
      BY <1>3
    <3> QED BY <1>8, <1>9, <1>10, <1>11, <3>1, SameNode
  <2> QED BY <1>9, <2>1
<1>12. CASE h # ht[x]
  <2>1. ht[x] < ht[u]
    BY <1>5, <1>8, <1>12
  <2>2. PICK j \in 1..Len(node[u].child) :
              /\ node[u].child[j] \in allocated /\ ht[node[u].child[j]] = ht[u] - 1
              /\ m \in sq[node[u].child[j]] /\ Between(node[u].keys, j, m)
    BY <1>9, <1>10, <2>1, StepTowards
  <2>3. PICK z \in allocated : z = node[u].child[j]
    BY <2>2
  <2>4. Between(node[u].keys, j, g)
    BY <1>2, <1>3, <2>2, BetweenNeighbours
  <2>5. Room(node, allocated, root, sq, z, g)
    BY <1>3, <1>9, <2>3, <2>4 DEF Room
  <2>6. PICK sr : sr = With(sq, z, g)
    OBVIOUS
  <2>7. Ordered(node, allocated, sr, NULL, w) /\ sr[z] = sq[z] \union {g}
    BY <1>9, <2>5, <2>6, AddMark
  <2>8. Good(z)
    BY <2>2, <2>3, <2>7
  <2>9. ht[z] \in Nat /\ ht[x] <= ht[z] /\ ~(h <= ht[z])
    <3>1. ht[u] \in Nat /\ ht[z] = ht[u] - 1
      BY <2>2, <2>3, TreeFacts
    <3> QED BY <1>5, <1>8, <2>1, <3>1
  <2> QED BY <1>7, <2>8, <2>9
<1> QED BY <1>11, <1>12

(* The key of the leaf f that is nearest to the key the walk began at. *)
NearestAt(dir, f) == IF dir = "getPred" THEN Len(node[f].keys) ELSE 1

(* Every key of the leaf at the end of the walk lies on the side of the    *)
(* key that the walk began on, with room for a value between.              *)
LEMMA LeafBeyond ==
    ASSUME NEW ht, Tree(node, allocated, root, ht),
           NEW sp, NEW w, Ordered(node, allocated, sp, NULL, w),
           NEW x \in allocated, ~node[x].is_leaf, NEW i \in 1..Len(node[x].keys),
           NEW dir, NEW j, j = From(dir, i), NEW c, c = node[x].child[j],
           NEW f, f = EndLeaf(dir, c), NEW key, key = node[x].keys[i].key,
           NEW l \in 1..Len(node[f].keys)
    PROVE  /\ dir = "getPred" => Mark(node[f].keys, l) < Brink(dir, key)
           /\ dir # "getPred" => Brink(dir, key) < Mark(node[f].keys, l)
<1>1. Len(node[x].keys) \in Nat /\ Len(node[x].child) = Len(node[x].keys) + 1
  BY TreeFacts DEF Tree, Sized
<1>2. j \in 1..Len(node[x].child)
  BY <1>1 DEF From
<1>3. c \in allocated
  BY <1>2, TreeChild
<1>4. f \in allocated
  BY <1>3, EndInUse
<1>5. PICK v : v = Mark(node[f].keys, l)
  OBVIOUS
<1>6. v \in sp[c]
  <2>1. v \in sp[f]
    BY <1>4, <1>5 DEF Ordered, Sorted
  <2>2. sp[f] \subseteq sp[c]
    BY <1>3, EndSpan
  <2> QED BY <2>1, <2>2
<1>7. PICK b \in Int : v = 2 * b
  BY <1>4, <1>5, MarkInt DEF Mark
<1>8. key \in Int /\ Mark(node[x].keys, i) = 2 * key
  BY MarkInt DEF Mark
<1>9. v \in sp[node[x].child[j]]
  BY <1>6
<1>10. /\ j <= i => v <= 2 * key
       /\ i < j => 2 * key <= v
       /\ v = 2 * key => node[x].child[j] = NULL
  <2>1. /\ j <= i => v <= Mark(node[x].keys, i)
        /\ i < j => Mark(node[x].keys, i) <= v
        /\ v = Mark(node[x].keys, i) => node[x].child[j] = NULL
    BY <1>2, <1>9, ChildSpan
  <2> QED BY <1>8, <2>1
<1>11. v # 2 * key
  BY <1>3, <1>10, TreeFacts
<1>12. \A d \in Int : 2 * b # 2 * d =>
          /\ 2 * b <= 2 * d => 2 * b < 2 * d - 1
          /\ 2 * d <= 2 * b => 2 * d + 1 < 2 * b
  OBVIOUS
<1>13. /\ j <= i => v < 2 * key - 1
       /\ i < j => 2 * key + 1 < v
  BY <1>7, <1>8, <1>10, <1>11, <1>12
<1>14. /\ dir = "getPred" => j <= i
       /\ dir # "getPred" => i < j
  BY <1>1 DEF From
<1> QED BY <1>5, <1>13, <1>14 DEF Brink

(* Between a key of an inner node and the nearest key of the leaf beside   *)
(* it there is no other key.                                               *)
LEMMA NothingBetween ==
    ASSUME NEW ht, Tree(node, allocated, root, ht),
           NEW sp, NEW w, Ordered(node, allocated, sp, NULL, w),
           NEW x \in allocated, ~node[x].is_leaf, NEW i \in 1..Len(node[x].keys),
           NEW dir, dir = "getPred" \/ dir = "getSucc",
           NEW j, j = From(dir, i), NEW c, c = node[x].child[j],
           NEW f, f = EndLeaf(dir, c), Len(node[f].keys) >= 1,
           NEW q, q = NearestAt(dir, f)
    PROVE  /\ f \in allocated /\ node[f].is_leaf /\ q \in 1..Len(node[f].keys)
           /\ dir = "getPred" => Mark(node[f].keys, q) < Mark(node[x].keys, i)
           /\ dir # "getPred" => Mark(node[x].keys, i) < Mark(node[f].keys, q)
           /\ Alone(node, allocated, x, i, Mark(node[f].keys, q))
<1>1. Len(node[x].keys) \in Nat /\ Len(node[x].child) = Len(node[x].keys) + 1
  BY TreeFacts DEF Tree, Sized
<1>2. j \in 1..Len(node[x].child) /\ j \in 1..(Len(node[x].keys) + 1)
  BY <1>1 DEF From
<1>3. c \in allocated
  BY <1>2, TreeChild
<1>4. f \in allocated /\ node[f].is_leaf
  BY <1>3, EndInUse
<1>5. q \in 1..Len(node[f].keys)
  <2>1. Len(node[f].keys) \in Nat
    BY <1>4, TreeFacts
  <2> QED BY <2>1 DEF NearestAt
<1>6. PICK key : key = node[x].keys[i].key
  OBVIOUS
<1>7. key \in Int /\ Mark(node[x].keys, i) = 2 * key
  BY <1>6, MarkInt DEF Mark
<1>8. PICK g : g = Brink(dir, key)
  OBVIOUS
<1>9. /\ g \in Int
      /\ dir = "getPred" => g = 2 * key - 1
      /\ dir # "getPred" => g = 2 * key + 1
  BY <1>7, <1>8 DEF Brink
<1>10. Neighbour(Mark(node[x].keys, i), g)
  BY <1>7, <1>9 DEF Neighbour
<1>11. PICK sq : Ordered(node, allocated, sq, NULL, w) /\ g \in sq[x]
  BY <1>10, NeighbourReached
<1>12. Between(node[x].keys, j, g)
  <2>1. /\ Between(node[x].keys, i, 2 * key - 1)
        /\ Between(node[x].keys, i + 1, 2 * key + 1)
    BY <1>7, BesideKey
  <2> QED BY <1>9, <2>1 DEF From
<1>13. Room(node, allocated, root, sq, c, g)
  BY <1>2, <1>11, <1>12, ChildRoom
<1>14. PICK sr : sr = With(sq, c, g)
  OBVIOUS
<1>15. Ordered(node, allocated, sr, NULL, w) /\ g \in sr[c]
  BY <1>11, <1>13, <1>14, AddMark
<1>16. Beyond(dir, f, g)
  <2>1. ASSUME NEW l \in 1..Len(node[f].keys)
        PROVE  /\ dir = "getPred" => Mark(node[f].keys, l) < g
               /\ dir # "getPred" => g < Mark(node[f].keys, l)
    BY <1>6, <1>8, <1>15, LeafBeyond
  <2> QED BY <2>1 DEF Beyond
<1>17. PICK ss : Ordered(node, allocated, ss, NULL, w) /\ g \in ss[f]
  BY <1>3, <1>15, <1>16, EdgeReached
<1>18. PICK v : v = Mark(node[f].keys, q)
  OBVIOUS
<1>19. /\ dir = "getPred" => v < g
       /\ dir # "getPred" => g < v
       /\ v \in Int
  BY <1>4, <1>5, <1>16, <1>18, MarkInt DEF Beyond
<1>20. /\ dir = "getPred" => v < Mark(node[x].keys, i)
       /\ dir # "getPred" => Mark(node[x].keys, i) < v
  BY <1>7, <1>9, <1>19
<1>21. NULL \notin allocated
  BY TreeFacts
<1>22. Alone(node, allocated, x, i, v)
  <2>1. CASE dir = "getPred"
    <3>1. q = Len(node[f].keys) /\ q >= 1
      BY <2>1 DEF NearestAt
    <3>2. Mark(node[x].keys, i) - 1 \in ss[f]
      BY <1>7, <1>9, <1>17, <2>1
    <3>3. Mark(node[f].keys, q) < Mark(node[x].keys, i)
      BY <1>18, <1>20, <2>1
    <3>4. Alone(node, allocated, x, i, Mark(node[f].keys, q))
      BY <1>4, <1>17, <1>21, <3>1, <3>2, <3>3, PredAlone
    <3> QED BY <1>18, <3>4
  <2>2. CASE dir = "getSucc"
    <3>1. q = 1
      BY <2>2 DEF NearestAt
    <3>2. Mark(node[x].keys, i) + 1 \in ss[f]
      BY <1>7, <1>9, <1>17, <2>2
    <3>3. Mark(node[x].keys, i) < Mark(node[f].keys, 1)
      BY <1>18, <1>20, <2>2, <3>1
    <3>4. Alone(node, allocated, x, i, Mark(node[f].keys, 1))
      BY <1>4, <1>17, <1>21, <3>2, <3>3, SuccAlone
    <3> QED BY <1>18, <3>1, <3>4
  <2> QED BY <2>1, <2>2
<1> QED BY <1>4, <1>5, <1>18, <1>20, <1>22

(* Between two keys of a leaf that follow each other there is no key. *)
LEMMA LeafNothingBetween ==
    ASSUME NEW H, NEW A, NEW t, NEW ht, Tree(H, A, t, ht),
           NEW sp, NEW w, Ordered(H, A, sp, NULL, w),
           NEW x \in A, H[x].is_leaf,
           NEW i \in 1..Len(H[x].keys), NEW j \in 1..Len(H[x].keys), j = i + 1,
           NEW y \in A, NEW l \in 1..Len(H[y].keys),
           Mark(H[x].keys, i) < Mark(H[y].keys, l)
    PROVE  Mark(H[x].keys, j) <= Mark(H[y].keys, l)
<1>1. PICK a, b, v : a = Mark(H[x].keys, i) /\ b = Mark(H[x].keys, j) /\ v = Mark(H[y].keys, l)
  OBVIOUS
<1>2. a \in Int /\ b \in Int /\ v \in Int
  BY <1>1, MarkInt
<1> SUFFICES ASSUME v < b PROVE FALSE
  BY <1>1, <1>2
<1>3. a \in sp[x] /\ b \in sp[x] /\ v \in sp[y]
  BY <1>1 DEF Ordered, Sorted
<1>4. a <= v /\ v <= b
  BY <1>1, <1>2
<1>5. ht[x] = 0 /\ ht[y] \in Nat /\ NULL \notin A
  BY TreeFacts
<1>6. ~(ht[x] < ht[y])
  <2>1. ASSUME ht[x] < ht[y] PROVE NULL \in A
    <3>1. a <= Mark(H[y].keys, l) /\ Mark(H[y].keys, l) <= b
      BY <1>1, <1>4
    <3> QED BY <1>3, <2>1, <3>1, KeyAbove
  <2> QED BY <1>5, <2>1
<1>7. x = y
  <2>1. ht[x] = ht[y]
    BY <1>5, <1>6
  <2> QED BY <1>3, <1>4, <2>1, SameNode
<1>8. Len(H[x].keys) \in Nat /\ l \in 1..Len(H[x].keys)
  BY <1>7, TreeFacts
<1>9. CASE l <= i
  <2>1. v <= a
    BY <1>1, <1>7, <1>8, <1>9, MarksAscend
  <2> QED BY <1>1, <1>2, <2>1
<1>10. CASE j <= l
  <2>1. b <= v
    BY <1>1, <1>7, <1>8, <1>10, MarksAscend
  <2> QED BY <1>1, <1>2, <2>1
<1> QED BY <1>8, <1>9, <1>10

(* No key lies behind the last key of the rightmost leaf. *)
LEMMA NothingBehind ==
    ASSUME NEW ht, Tree(node, allocated, root, ht),
           NEW sp, NEW w, Ordered(node, allocated, sp, NULL, w),
           NEW x, x = get_most_right[root], NEW i \in 1..Len(node[x].keys), i = Len(node[x].keys),
           NEW y \in allocated, NEW l \in 1..Len(node[y].keys)
    PROVE  Mark(node[y].keys, l) <= Mark(node[x].keys, i)
<1>1. root \in allocated /\ NULL \notin allocated
  BY TreeFacts
<1>2. x = EndLeaf("getPred", root)
  BY DEF EndLeaf
<1>3. x \in allocated /\ node[x].is_leaf
  BY <1>1, <1>2, EndInUse
<1>4. PICK a, g : a = Mark(node[x].keys, i) /\ g = Mark(node[y].keys, l)
  OBVIOUS
<1>5. a \in Int /\ g \in Int
  BY <1>3, <1>4, MarkInt
<1> SUFFICES ASSUME a < g PROVE FALSE
  BY <1>4, <1>5
<1>6. Room(node, allocated, root, sp, root, g)
  BY <1>1, <1>5 DEF Room
<1>7. PICK sq : sq = With(sp, root, g)
  OBVIOUS
<1>8. Ordered(node, allocated, sq, NULL, w) /\ g \in sq[root]
  BY <1>6, <1>7, AddMark
<1>9. Beyond("getPred", x, g)
  <2>1. ASSUME NEW m \in 1..Len(node[x].keys) PROVE Mark(node[x].keys, m) < g
    <3>1. Len(node[x].keys) \in Nat
      BY <1>3, TreeFacts
    <3>2. m <= i
      BY <3>1
    <3>3. Mark(node[x].keys, m) <= a /\ Mark(node[x].keys, m) \in Int
      BY <1>3, <1>4, <3>2, MarksAscend, MarkInt
    <3> QED BY <1>5, <3>3
  <2> QED BY <2>1 DEF Beyond
<1>10. Len(node[x].keys) >= 1
  <2>1. Len(node[x].keys) \in Nat
    BY <1>3, TreeFacts
  <2> QED BY <2>1
<1>11. PICK sr : Ordered(node, allocated, sr, NULL, w) /\ g \in sr[x]
  BY <1>1, <1>2, <1>8, <1>9, <1>10, EdgeReached
<1>12. x = y
  BY <1>1, <1>3, <1>4, <1>11, LeafHolds
<1>13. g < g
  BY <1>4, <1>9, <1>12 DEF Beyond
<1> QED BY <1>5, <1>13

(* Between operations every node has a key. *)
LEMMA NoNodeEmpty ==
    ASSUME MInv, pc = "idle", root # NULL, NEW x \in allocated
    PROVE  Len(node[x].keys) \in Nat /\ Len(node[x].keys) >= 1
<1>1. Top = root
  BY DEF MInv, IInv, AtInsert, Top
<1>2. Len(node[x].keys) \in Nat /\ (x # Top => Len(node[x].keys) >= MIN_DEGREE)
  BY InUse DEF MInv
<1>3. MIN_DEGREE >= 1 /\ MIN_DEGREE \in Nat
  BY TAssumption DEF MIN_DEGREE
<1>4. CASE x = root
  <2>1. Len(node[Top].keys) # 0
    BY <1>1 DEF MInv, IInv, RootHasKeys, Removing
  <2> QED BY <1>1, <1>2, <1>4, <2>1
<1>5. CASE x # root
  BY <1>1, <1>2, <1>3, <1>5
<1> QED BY <1>4, <1>5

(* Position (y, l) holds the least key above the one at (x, i). *)
IsNext(x, i, y, l) ==
    /\ y \in allocated /\ l \in 1..Len(node[y].keys)
    /\ Mark(node[x].keys, i) < Mark(node[y].keys, l)
    /\ \A z \in allocated : \A m \in 1..Len(node[z].keys) :
          Mark(node[x].keys, i) < Mark(node[z].keys, m) =>
             Mark(node[y].keys, l) <= Mark(node[z].keys, m)

(* The key at (x, i) is the greatest. *)
IsLast(x, i) ==
    \A z \in allocated : \A m \in 1..Len(node[z].keys) :
       Mark(node[z].keys, m) <= Mark(node[x].keys, i)

(* getSucc_global of an inner node: the first key of the leaf beside. *)
LEMMA NextOfInner ==
    ASSUME NEW ht, Tree(node, allocated, root, ht),
           NEW sp, NEW w, Ordered(node, allocated, sp, NULL, w),
           NEW x \in allocated, ~node[x].is_leaf, NEW i \in 1..Len(node[x].keys),
           NEW y, y = get_most_left[Child(x, i + 1)], Len(node[y].keys) >= 1
    PROVE  IsNext(x, i, y, 1)
<1>1. PICK j, c : j = From("getSucc", i) /\ c = node[x].child[j]
  OBVIOUS
<1>2. j = i + 1
  BY <1>1 DEF From
<1>3. y = EndLeaf("getSucc", c) /\ 1 = NearestAt("getSucc", y)
  BY <1>1, <1>2 DEF EndLeaf, Child, NearestAt
<1>4. /\ y \in allocated /\ 1 \in 1..Len(node[y].keys)
      /\ Mark(node[x].keys, i) < Mark(node[y].keys, 1)
      /\ Alone(node, allocated, x, i, Mark(node[y].keys, 1))
  BY <1>1, <1>3, NothingBetween
<1>5. PICK a, b : a = Mark(node[x].keys, i) /\ b = Mark(node[y].keys, 1)
  OBVIOUS
<1>6. a \in Int /\ b \in Int
  BY <1>4, <1>5, MarkInt
<1>7. ASSUME NEW z \in allocated, NEW m \in 1..Len(node[z].keys),
             a < Mark(node[z].keys, m)
      PROVE  b <= Mark(node[z].keys, m)
  <2>1. PICK v : v = Mark(node[z].keys, m)
    OBVIOUS
  <2>2. v \in Int /\ a < v
    BY <1>7, <2>1, MarkInt
  <2>3. ~(v \in Gap(b, a))
    <3>1. v \in Gap(b, a) => z = x /\ m = i
      BY <1>4, <1>5, <2>1 DEF Alone
    <3>2. z = x /\ m = i => v = a
      BY <1>5, <2>1
    <3> QED BY <1>6, <2>2, <3>1, <3>2
  <2>4. b <= v
    BY <1>6, <2>2, <2>3 DEF Gap
  <2> QED BY <2>1, <2>4
<1> QED BY <1>4, <1>5, <1>7 DEF IsNext

(* Of the last key of a leaf: the key above that the leaf lies before. *)
LEMMA NextOfLast ==
    ASSUME NEW ht, Tree(node, allocated, root, ht),
           NEW sp, NEW w, Ordered(node, allocated, sp, NULL, w),
           NEW x, NEW i, i = Len(node[x].keys), i >= 1,
           NEW y \in allocated, ~node[y].is_leaf, NEW l \in 1..Len(node[y].keys),
           x = get_most_right[Child(y, l)]
    PROVE  IsNext(x, i, y, l)
<1>1. PICK j, c : j = From("getPred", l) /\ c = node[y].child[j]
  OBVIOUS
<1>2. j = l
  BY <1>1 DEF From
<1>3. x = EndLeaf("getPred", c) /\ i = NearestAt("getPred", x)
  BY <1>1, <1>2 DEF EndLeaf, Child, NearestAt
<1>4. /\ x \in allocated /\ i \in 1..Len(node[x].keys)
      /\ Mark(node[x].keys, i) < Mark(node[y].keys, l)
      /\ Alone(node, allocated, y, l, Mark(node[x].keys, i))
  BY <1>1, <1>3, NothingBetween
<1>5. PICK a, b : a = Mark(node[x].keys, i) /\ b = Mark(node[y].keys, l)
  OBVIOUS
<1>6. a \in Int /\ b \in Int
  BY <1>4, <1>5, MarkInt
<1>7. ASSUME NEW z \in allocated, NEW m \in 1..Len(node[z].keys),
             a < Mark(node[z].keys, m)
      PROVE  b <= Mark(node[z].keys, m)
  <2>1. PICK v : v = Mark(node[z].keys, m)
    OBVIOUS
  <2>2. v \in Int /\ a < v
    BY <1>7, <2>1, MarkInt
  <2>3. CASE v \in Gap(a, b)
    <3>1. z = y /\ m = l
      BY <1>4, <1>5, <2>1, <2>3 DEF Alone
    <3>2. v = b
      BY <1>5, <2>1, <3>1
    <3> QED BY <1>6, <2>1, <3>2
  <2>4. CASE v \notin Gap(a, b)
    <3>1. b <= v
      BY <1>6, <2>2, <2>4 DEF Gap
    <3> QED BY <2>1, <3>1
  <2> QED BY <2>3, <2>4
<1> QED BY <1>4, <1>5, <1>7 DEF IsNext

(* Of another key of a leaf: the key beside it. *)
LEMMA NextInLeaf ==
    ASSUME NEW ht, Tree(node, allocated, root, ht),
           NEW sp, NEW w, Ordered(node, allocated, sp, NULL, w),
           NEW x \in allocated, node[x].is_leaf, NEW i \in 1..Len(node[x].keys),
           i < Len(node[x].keys)
    PROVE  IsNext(x, i, x, i + 1)
<1>1. Len(node[x].keys) \in Nat
  BY TreeFacts
<1>2. PICK j \in 1..Len(node[x].keys) : j = i + 1
  BY <1>1
<1>3. Mark(node[x].keys, i) < Mark(node[x].keys, j)
  <2>1. i < j
    BY <1>1, <1>2
  <2> QED BY <1>2, <2>1 DEF Ordered, Sorted
<1>4. ASSUME NEW z \in allocated, NEW m \in 1..Len(node[z].keys),
             Mark(node[x].keys, i) < Mark(node[z].keys, m)
      PROVE  Mark(node[x].keys, j) <= Mark(node[z].keys, m)
  BY <1>2, <1>4, LeafNothingBetween
<1> QED BY <1>2, <1>3, <1>4 DEF IsNext

(* ++ goes to the next key, or to end() from the greatest. *)
LEMMA SuccFound ==
    ASSUME NEW ht, Tree(node, allocated, root, ht),
           NEW sp, NEW w, Ordered(node, allocated, sp, NULL, w),
           \A u \in allocated : Len(node[u].keys) \in Nat /\ Len(node[u].keys) >= 1,
           NEW x \in allocated, NEW i \in 1..Len(node[x].keys),
           NEW next, next = getSucc_global(x, i)
    PROVE  \/ next = End /\ IsLast(x, i)
           \/ \E y \in allocated : \E l \in 1..Len(node[y].keys) :
                 next = Pos(y, l) /\ IsNext(x, i, y, l)
<1>1. CASE ~node[x].is_leaf
  <2>1. PICK c \in allocated : c = Child(x, i + 1)
    <3>1. i + 1 \in 1..(KeyCnt(x) + 1)
      BY DEF KeyCnt
    <3> QED BY <1>1, <3>1, DownOne
  <2>2. PICK y \in allocated : y = get_most_left[c]
    BY EveryLeftLeaf DEF LeftLeaf
  <2>3. next = Pos(y, 1)
    BY <1>1, <2>1, <2>2, SuccOfInner
  <2>4. Len(node[y].keys) >= 1 /\ 1 \in 1..Len(node[y].keys)
    OBVIOUS
  <2>5. IsNext(x, i, y, 1)
    BY <1>1, <2>1, <2>2, <2>4, NextOfInner
  <2> QED BY <2>3, <2>4, <2>5
<1>2. CASE node[x].is_leaf /\ i < KeyCnt(x)
  <2>1. next = Pos(x, i + 1)
    BY <1>2, SuccInLeaf
  <2>2. IsNext(x, i, x, i + 1)
    BY <1>2, NextInLeaf DEF KeyCnt
  <2>3. i + 1 \in 1..Len(node[x].keys)
    BY <1>2 DEF KeyCnt
  <2> QED BY <2>1, <2>2, <2>3
<1>3. CASE node[x].is_leaf /\ ~(i < KeyCnt(x))
  <2>1. next = next_above[x]
    BY <1>3, SuccOfLast
  <2>2. i = Len(node[x].keys) /\ i >= 1
    BY <1>3 DEF KeyCnt
  <2>3. get_most_right[x] = x
    BY <1>3, MostRightEquation
  <2>4. KeyAfter(x)
    BY EveryKeyAfter
  <2>5. CASE next_above[x] = End /\ get_most_right[root] = x
    <3>1. ASSUME NEW z \in allocated, NEW m \in 1..Len(node[z].keys)
          PROVE  Mark(node[z].keys, m) <= Mark(node[x].keys, i)
      BY <2>2, <2>5, NothingBehind
    <3> QED BY <2>1, <2>5, <3>1 DEF IsLast
  <2>6. CASE \E p \in allocated : \E j \in 1..KeyCnt(p) :
                /\ ~node[p].is_leaf /\ next_above[x] = Pos(p, j)
                /\ get_most_right[Child(p, j)] = x
    <3>1. PICK p \in allocated : \E j \in 1..KeyCnt(p) :
                /\ ~node[p].is_leaf /\ next_above[x] = Pos(p, j)
                /\ get_most_right[Child(p, j)] = x
      BY <2>6
    <3>2. PICK j \in 1..Len(node[p].keys) :
                /\ ~node[p].is_leaf /\ next_above[x] = Pos(p, j)
                /\ get_most_right[Child(p, j)] = x
      BY <3>1 DEF KeyCnt
    <3>3. IsNext(x, i, p, j)
      BY <2>2, <3>2, NextOfLast
    <3> QED BY <2>1, <3>2, <3>3
  <2> QED BY <2>3, <2>4, <2>5, <2>6 DEF KeyAfter
<1> QED BY <1>1, <1>2, <1>3

(* The tree between operations, from the invariant. *)
LEMMA IdleTree ==
    ASSUME MInv, pc = "idle", root # NULL
    PROVE  \E ht, sp, w : /\ Tree(node, allocated, root, ht)
                          /\ Ordered(node, allocated, sp, NULL, w)
<1>1. Top = root
  BY DEF MInv, IInv, AtInsert, Top
<1>2. PICK ht, sp, e, w : /\ Tree(node, allocated, root, ht)
                          /\ Ordered(node, allocated, sp, e, w)
                          /\ Placed(ht, sp, e, w)
  BY <1>1 DEF MInv, OrdInv
<1>3. e = NULL
  BY <1>2 DEF Placed
<1> QED BY <1>2, <1>3

(* A position in terms of the marks of its key. *)
LEMMA KeyAtMark ==
    ASSUME NEW ht, Tree(node, allocated, root, ht), NEW x \in allocated,
           NEW i \in 1..Len(node[x].keys)
    PROVE  KeyAt(Pos(x, i)) \in Int /\ Mark(node[x].keys, i) = 2 * KeyAt(Pos(x, i))
BY MarkInt, PosFields DEF KeyAt, Mark

(* In every tree the invariant admits, ++ goes to the next key. *)
LEMMA SuccInv == MInv => SuccIsNextKey
<1> SUFFICES ASSUME MInv, pc = "idle", NEW pos \in Positions,
                    NEW next, next = getSucc_global(pos.node, pos.idx)
             PROVE  IF next = End THEN \A q \in Positions : KeyAt(q) <= KeyAt(pos)
                    ELSE /\ next \in Positions
                         /\ KeyAt(next) > KeyAt(pos)
                         /\ \A q \in Positions :
                               KeyAt(q) > KeyAt(pos) => KeyAt(q) >= KeyAt(next)
  BY DEF SuccIsNextKey
<1>1. PICK x \in allocated : \E i \in 1..KeyCnt(x) : pos = Pos(x, i)
  BY PositionIs
<1>2. PICK i \in 1..Len(node[x].keys) : pos = Pos(x, i)
  BY <1>1 DEF KeyCnt
<1>3. root # NULL
  <2>1. Top = root
    BY DEF MInv, IInv, AtInsert, Top
  <2> QED BY <1>1, <2>1 DEF MInv, IInv, Shape
<1>4. PICK ht, sp, w : Tree(node, allocated, root, ht) /\ Ordered(node, allocated, sp, NULL, w)
  BY <1>3, IdleTree
<1>5. \A u \in allocated : Len(node[u].keys) \in Nat /\ Len(node[u].keys) >= 1
  BY <1>3, NoNodeEmpty
<1>6. next = getSucc_global(x, i)
  BY <1>2, PosFields
<1>7. PICK a : a = KeyAt(pos)
  OBVIOUS
<1>8. a \in Int /\ Mark(node[x].keys, i) = 2 * a
  BY <1>2, <1>4, <1>7, KeyAtMark
<1>9. \A b, c \in Int : /\ 2 * b < 2 * c => b < c
                        /\ 2 * b <= 2 * c => b <= c
                        /\ b < c => 2 * b < 2 * c
  OBVIOUS
<1>10. ASSUME NEW q \in Positions
       PROVE  \E z \in allocated : \E m \in 1..Len(node[z].keys) :
                 KeyAt(q) \in Int /\ Mark(node[z].keys, m) = 2 * KeyAt(q)
  <2>1. PICK z \in allocated : \E m \in 1..KeyCnt(z) : q = Pos(z, m)
    BY PositionIs
  <2>2. PICK m \in 1..Len(node[z].keys) : q = Pos(z, m)
    BY <2>1 DEF KeyCnt
  <2>3. KeyAt(q) \in Int /\ Mark(node[z].keys, m) = 2 * KeyAt(q)
    BY <1>4, <2>2, KeyAtMark
  <2> QED BY <2>3
<1>11. CASE next = End /\ IsLast(x, i)
  <2>1. ASSUME NEW q \in Positions PROVE KeyAt(q) <= a
    <3>1. PICK z \in allocated : \E m \in 1..Len(node[z].keys) :
                 KeyAt(q) \in Int /\ Mark(node[z].keys, m) = 2 * KeyAt(q)
      BY <1>10
    <3>2. KeyAt(q) \in Int /\ 2 * KeyAt(q) <= 2 * a
      BY <1>8, <1>11, <3>1 DEF IsLast
    <3> QED BY <1>8, <1>9, <3>2
  <2> QED BY <1>7, <1>11, <2>1
<1>12. CASE \E y \in allocated : \E l \in 1..Len(node[y].keys) :
                 next = Pos(y, l) /\ IsNext(x, i, y, l)
  <2>1. PICK y \in allocated : \E l \in 1..Len(node[y].keys) :
                 next = Pos(y, l) /\ IsNext(x, i, y, l)
    BY <1>12
  <2>2. PICK l \in 1..Len(node[y].keys) : next = Pos(y, l) /\ IsNext(x, i, y, l)
    BY <2>1
  <2>3. PICK b : b = KeyAt(next)
    OBVIOUS
  <2>4. b \in Int /\ Mark(node[y].keys, l) = 2 * b
    BY <1>4, <2>2, <2>3, KeyAtMark
  <2>5. next \in Positions
    BY <2>2, PositionIs DEF KeyCnt
  <2>6. a < b
    BY <1>8, <1>9, <2>2, <2>4 DEF IsNext
  <2>7. ASSUME NEW q \in Positions, KeyAt(q) > a
        PROVE  KeyAt(q) >= b
    <3>1. PICK z \in allocated : \E m \in 1..Len(node[z].keys) :
                 KeyAt(q) \in Int /\ Mark(node[z].keys, m) = 2 * KeyAt(q)
      BY <1>10
    <3>2. PICK m \in 1..Len(node[z].keys) :
                 KeyAt(q) \in Int /\ Mark(node[z].keys, m) = 2 * KeyAt(q)
      BY <3>1
    <3>3. 2 * a < 2 * KeyAt(q)
      BY <1>8, <2>7, <3>2
    <3>4. 2 * b <= 2 * KeyAt(q)
      BY <1>8, <2>2, <2>4, <3>2, <3>3 DEF IsNext
    <3> QED BY <2>4, <3>2, <3>4
  <2>8. next # End
    <3>1. y # NULL
      BY <1>4, TreeFacts
    <3>2. next.node = y /\ End.node = NULL
      BY <2>2, PosFields DEF End
    <3> QED BY <3>1, <3>2
  <2>9. b > a
    BY <1>8, <2>4, <2>6
  <2> QED BY <1>7, <2>3, <2>5, <2>7, <2>8, <2>9
<1> QED BY <1>4, <1>5, <1>6, <1>11, <1>12, SuccFound

(* operator++ of the key iterator, getSucc_global: from every key it goes to *)
(* the next greater key of the tree, through leaves and inner nodes alike,   *)
(* and to end() from the greatest key only, so an iteration over a tree no   *)
(* operation is changing visits every key once, in ascending order.          *)
THEOREM SuccVisitsNext == Spec => []SuccIsNextKey
BY OrderKept, SuccInv, PTL

(* operator-- of the key iterator, getPred_global: from the key ++ went to   *)
(* it comes back to the key ++ came from, and there is nothing before the    *)
(* first key of the leftmost leaf.                                           *)
THEOREM PredReturns == Spec => []PredUndoesSucc
<1>1. MInv => PredUndoesSucc
  BY PredUndoesInv DEF MInv
<1> QED BY OrderKept, <1>1, PTL
=============================================================================

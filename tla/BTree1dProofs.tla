--------------------------- MODULE BTree1dProofs ----------------------------
(***************************************************************************)
(* For every T and every finite pool: at every step of search, insert and  *)
(* remove the nodes in use form a B-tree, with key counts within bounds    *)
(* and parent pointers right; between operations every node of the pool is *)
(* reached from the root and all leaves are equally deep.                  *)
(*                                                                         *)
(* None of these is inductive alone. That a node keeps its bounds when     *)
(* remove() takes a key from it needs to know where remove() is (AtRemove, *)
(* AtWalk); that fill() finds a sibling needs a root with keys             *)
(* (RootHasKeys); that a merge moves no child twice needs that the         *)
(* children of all nodes differ, which the parent pointers give, and       *)
(* heights that decrease from parent to child, which also bound the depth  *)
(* by the size of the pool.                                                *)
(***************************************************************************)
EXTENDS BTreeShapeProofs

(* A set of naturals that is not empty has a least element. *)
LEMMA LeastNatural ==
    ASSUME NEW S, S \subseteq Nat, S # {}
    PROVE  \E x \in S : \A y \in S : x <= y
<1>1. PICK x \in S : \A y \in S : ~(<<y, x>> \in OpToRel(<, Nat))
  BY WFMin, NatLessThanWellFounded, Zenon
<1>2. \A y \in S : ~(y < x)
  BY <1>1 DEF OpToRel
<1> QED BY <1>2

(* Level is the solution of its equation, if the equation has one. *)
LEMMA LevelEquation ==
    ASSUME NEW f, f = [d \in Nat |-> IF d = 0 THEN {root} \ {NULL}
                          ELSE UNION {ToSet(node[x].child) : x \in f[d - 1]}]
    PROVE  Level = [d \in Nat |-> IF d = 0 THEN {root} \ {NULL}
                      ELSE UNION {ToSet(node[x].child) : x \in Level[d - 1]}]
BY Zenon DEF Level

(* The nodes d levels below the root are the ones d lower than it. *)
LEMMA LevelByHeight ==
    ASSUME NEW ht, Tree(node, allocated, root, ht)
    PROVE  \A d \in Nat : Level[d] = {x \in allocated : ht[x] = ht[root] - d}
<1> DEFINE At == [d \in Nat |-> {x \in allocated : ht[x] = ht[root] - d}]
<1>1. /\ node \in [Nodes -> Node] /\ allocated \subseteq Nodes
      /\ root \in allocated /\ root # NULL /\ ht[root] \in Nat
      /\ \A x \in allocated : ht[x] \in Nat /\ ht[x] <= ht[root]
  BY TreeFacts
<1>2. At[0] = {root} \ {NULL}
  <2>1. \A x \in allocated : x # root => ht[x] < ht[root]
    BY BelowTop
  <2> QED BY <1>1, <2>1
<1>3. ASSUME NEW d \in Nat, d # 0
      PROVE  At[d] = UNION {ToSet(node[x].child) : x \in At[d - 1]}
  <2>1. d - 1 \in Nat
    BY <1>3
  <2>2. ASSUME NEW x \in At[d - 1], NEW y \in ToSet(node[x].child)
        PROVE  y \in At[d]
    <3>1. x \in allocated /\ ht[x] = ht[root] - (d - 1)
      BY <2>1
    <3>2. node[x].child \in Seq(Nodes)
      BY <1>1, <3>1, NodeFacts
    <3>3. PICK j \in 1..Len(node[x].child) : y = node[x].child[j]
      BY <3>2, ToSetOfSeq
    <3>4. y \in allocated /\ ht[y] = ht[x] - 1
      BY <3>1, <3>3, TreeChild
    <3>5. ht[y] = ht[root] - d
      BY <1>1, <3>1, <3>4
    <3> QED BY <3>4, <3>5
  <2>3. ASSUME NEW y \in At[d]
        PROVE  \E x \in At[d - 1] : y \in ToSet(node[x].child)
    <3>1. y \in allocated /\ ht[y] = ht[root] - d
      OBVIOUS
    <3>2. y # root
      BY <1>1, <1>3, <3>1
    <3>3. /\ node[y].parent \in allocated /\ ht[node[y].parent] = ht[y] + 1
      BY <3>1, <3>2, BelowTop
    <3>4. \E j \in 1..Len(node[node[y].parent].child) : node[node[y].parent].child[j] = y
      BY <3>1, <3>2, TreeParent
    <3>5. node[node[y].parent].child \in Seq(Nodes)
      BY <1>1, <3>3, NodeFacts
    <3>6. y \in ToSet(node[node[y].parent].child)
      BY <3>4, <3>5, ToSetOfSeq
    <3>7. ht[node[y].parent] = ht[root] - (d - 1)
      BY <1>1, <3>1, <3>3
    <3>8. node[y].parent \in At[d - 1]
      BY <2>1, <3>3, <3>7
    <3> QED BY <3>6, <3>8
  <2> HIDE DEF At
  <2> QED BY <2>2, <2>3
<1>4. At = [d \in Nat |-> IF d = 0 THEN {root} \ {NULL}
              ELSE UNION {ToSet(node[x].child) : x \in At[d - 1]}]
  <2> DEFINE F == [d \in Nat |-> IF d = 0 THEN {root} \ {NULL}
                     ELSE UNION {ToSet(node[x].child) : x \in At[d - 1]}]
  <2>1. \A d \in Nat : At[d] = F[d]
    <3> HIDE DEF At
    <3> QED BY <1>2, <1>3
  <2>2. At = [d \in Nat |-> At[d]] /\ F = [d \in Nat |-> F[d]]
    OBVIOUS
  <2> HIDE DEF At, F
  <2>3. At = F
    BY <2>1, <2>2
  <2> QED BY <2>3 DEF F
<1>5. Level = [d \in Nat |-> IF d = 0 THEN {root} \ {NULL}
                 ELSE UNION {ToSet(node[x].child) : x \in Level[d - 1]}]
  <2> HIDE DEF At
  <2> QED BY <1>4, LevelEquation
<1> DEFINE Off == {d \in Nat : Level[d] # At[d]}
<1>6. Off = {}
  <2> SUFFICES ASSUME Off # {} PROVE FALSE
    OBVIOUS
  <2> HIDE DEF At
  <2>1. PICK d \in Off : \A e \in Off : d <= e
    BY LeastNatural
  <2>2. d \in Nat /\ Level[d] # At[d]
    BY <2>1
  <2>3. d # 0
    BY <1>2, <1>5, <2>2
  <2>4. d - 1 \in Nat /\ d - 1 \notin Off
    BY <2>1, <2>2, <2>3
  <2>5. Level[d - 1] = At[d - 1]
    BY <2>4
  <2>6. Level[d] = UNION {ToSet(node[x].child) : x \in Level[d - 1]}
    BY <1>5, <2>2, <2>3
  <2> QED BY <1>3, <2>2, <2>3, <2>5, <2>6
<1> QED BY <1>6

(* A tree of height h has a node at every height up to h, so that the pool *)
(* bounds its height.                                                      *)
LEMMA HeightBound ==
    ASSUME NEW ht, Tree(node, allocated, root, ht)
    PROVE  /\ Cardinality(Nodes) \in Nat
           /\ ht[root] \in Nat
           /\ ht[root] <= Cardinality(Nodes)
<1> DEFINE h == ht[root]
           Off == {d \in 0..h : ~\E x \in allocated : ht[x] = h - d}
<1>1. /\ node \in [Nodes -> Node] /\ allocated \subseteq Nodes
      /\ root \in allocated /\ h \in Nat
      /\ \A x \in allocated : ht[x] \in Nat
  BY TreeFacts
<1>2. Off = {}
  <2> SUFFICES ASSUME Off # {} PROVE FALSE
    OBVIOUS
  <2>1. PICK d \in Off : \A e \in Off : d <= e
    <3>1. Off \subseteq Nat
      BY <1>1
    <3> HIDE DEF Off
    <3> QED BY <3>1, LeastNatural
  <2>2. d \in 0..h /\ ~\E x \in allocated : ht[x] = h - d
    BY <2>1
  <2>3. d # 0
    BY <1>1, <2>2
  <2>4. d - 1 \in 0..h /\ d - 1 \notin Off
    BY <1>1, <2>1, <2>2, <2>3
  <2>5. PICK x \in allocated : ht[x] = h - (d - 1)
    BY <2>4
  <2>6. ht[x] # 0 /\ ht[x] - 1 = h - d
    BY <1>1, <2>2, <2>3, <2>5
  <2>7. 1 \in 1..Len(node[x].child)
    <3>1. /\ ~node[x].is_leaf /\ Len(node[x].keys) \in Nat
          /\ Len(node[x].child) = IF node[x].is_leaf THEN 0 ELSE Len(node[x].keys) + 1
      BY <2>6, TreeFacts
    <3> QED BY <3>1
  <2>8. node[x].child[1] \in allocated /\ ht[node[x].child[1]] = ht[x] - 1
    BY <2>7, TreeChild
  <2> QED BY <2>2, <2>6, <2>8
<1>3. ASSUME NEW i \in 0..h PROVE \E x \in allocated : ht[x] = i
  <2>1. h - i \in 0..h /\ h - (h - i) = i
    BY <1>1
  <2>2. h - i \notin Off
    BY <1>2
  <2> QED BY <2>1, <2>2
<1> DEFINE f == [i \in 0..h |-> CHOOSE x \in allocated : ht[x] = i]
<1>4. \A i \in 0..h : f[i] \in allocated /\ ht[f[i]] = i
  BY <1>3
<1>5. f \in Injection(0..h, Nodes)
  <2>1. f \in [0..h -> Nodes]
    BY <1>1, <1>4
  <2>2. \A i, j \in 0..h : f[i] = f[j] => i = j
    BY <1>4
  <2> HIDE DEF f
  <2> QED BY <2>1, <2>2 DEF Injection, IsInjective
<1>6. IsFiniteSet(Nodes) /\ Cardinality(Nodes) \in Nat
  BY NodesAssumption, FS_CardinalityType
<1> HIDE DEF f
<1>7. Cardinality(0..h) <= Cardinality(Nodes)
  <2> HIDE DEF h
  <2> QED BY <1>5, <1>6, FS_Injection
<1>8. Cardinality(0..h) = h + 1
  <2>1. 0 \in Int /\ h \in Int /\ ~(0 > h)
    BY <1>1
  <2> HIDE DEF h
  <2>2. Cardinality(0..h) = IF 0 > h THEN 0 ELSE h - 0 + 1
    BY <2>1, FS_Interval
  <2> QED BY <2>1, <2>2
<1> HIDE DEF h
<1>9. h <= Cardinality(Nodes)
  BY <1>1, <1>6, <1>7, <1>8
<1> QED BY <1>1, <1>6, <1>9 DEF h

(* Every node in use is reached from the root, and the nodes of a level    *)
(* are all leaves or all inner nodes.                                      *)
LEMMA AllReached ==
    ASSUME NEW ht, Tree(node, allocated, root, ht)
    PROVE  /\ allocated = Reachable
           /\ \A d \in 0..Cardinality(Nodes) :
                 \A x, y \in Level[d] : node[x].is_leaf = node[y].is_leaf
<1>1. \A d \in Nat : Level[d] = {x \in allocated : ht[x] = ht[root] - d}
  BY LevelByHeight
<1>2. /\ Cardinality(Nodes) \in Nat /\ ht[root] \in Nat
      /\ ht[root] <= Cardinality(Nodes)
  BY HeightBound
<1>3. /\ node \in [Nodes -> Node] /\ allocated \subseteq Nodes
      /\ \A x \in allocated : /\ ht[x] \in Nat /\ ht[x] <= ht[root]
                             /\ ht[x] = 0 <=> node[x].is_leaf
  BY TreeFacts
<1>4. ASSUME NEW x \in allocated PROVE x \in Reachable
  <2>0. ht[x] \in Nat /\ ht[x] <= ht[root]
    BY TreeFacts
  <2>1. ht[root] - ht[x] \in 0..Cardinality(Nodes) /\ ht[x] = ht[root] - (ht[root] - ht[x])
    BY <1>2, <2>0
  <2>2. x \in Level[ht[root] - ht[x]]
    BY <1>1, <1>2, <2>1
  <2> QED BY <2>1, <2>2 DEF Reachable
<1>5. ASSUME NEW x \in Reachable PROVE x \in allocated
  <2>1. PICK d \in 0..Cardinality(Nodes) : x \in Level[d]
    BY DEF Reachable
  <2> QED BY <1>1, <1>2, <2>1
<1>6. ASSUME NEW d \in 0..Cardinality(Nodes), NEW x \in Level[d], NEW y \in Level[d]
      PROVE  node[x].is_leaf = node[y].is_leaf
  <2>1. x \in allocated /\ y \in allocated /\ ht[x] = ht[y]
    BY <1>1, <1>2
  <2>2. node[x].is_leaf \in BOOLEAN /\ node[y].is_leaf \in BOOLEAN
    BY <1>3, <2>1, NodeFacts
  <2>3. node[x].is_leaf <=> node[y].is_leaf
    BY <1>3, <2>1
  <2> QED BY <2>2, <2>3, Zenon
<1> QED BY <1>4, <1>5, <1>6

-----------------------------------------------------------------------------
(* The places of remove_1d below its root. *)
Removing == {"remove", "getPred", "getSucc"}

(* The search for the key of an operation: on a node in use or on nothing,  *)
(* before anything is changed.                                              *)
AtFind ==
    pc = "find" =>
       /\ new_root = NULL
       /\ k \in Keys
       /\ n \in allocated \union {NULL}
       /\ n # NULL => root # NULL
       /\ req.op = "insert" => req.val \in Vals

(* insert_non_full is called on a node that has room, below a root that     *)
(* will be stored; a value is at hand.                                      *)
AtInsert ==
    /\ pc = "idle" => new_root = NULL
    /\ pc \in {"insert_to_root", "insert_non_full"} => k \in Keys /\ req.val \in Vals
    /\ pc = "insert_to_root" => new_root = NULL
    /\ pc = "insert_non_full" =>
          /\ new_root \in allocated
          /\ Len(node[n].keys) < MAX_DEGREE

(* remove() is called on the root or on a node that can spare a key. *)
AtRemove ==
    /\ pc \in Removing \union {"shrink"} => new_root = NULL /\ root \in allocated
    /\ pc = "remove" => n = root \/ Len(node[n].keys) >= MIN_DEGREE + 1

(* During getPred and getSucc the key to replace stays where it was, in an  *)
(* inner node, and the child the walk began in can spare a key.             *)
AtWalk ==
    pc \in {"getPred", "getSucc"} =>
       /\ n # root
       /\ hole.node \in allocated
       /\ ~node[hole.node].is_leaf
       /\ hole.idx \in 1..Len(node[hole.node].keys)
       /\ LET from == IF pc = "getPred" THEN hole.idx ELSE hole.idx + 1
          IN  Len(node[node[hole.node].child[from]].keys) >= MIN_DEGREE + 1

(* The root is without keys only while remove_1d is below it or about to    *)
(* shrink the tree.                                                         *)
RootHasKeys ==
    Top # NULL /\ Len(node[Top].keys) = 0 =>
       \/ pc \in {"shrink", "bad_alloc"}
       \/ pc \in Removing /\ n # root

(* The nodes in use are exactly a B-tree, or there are none. *)
Shape ==
    IF Top = NULL THEN allocated = {}
    ELSE \E ht : Tree(node, allocated, Top, ht)

(* The inductive invariant: where each operation may be, and the tree it    *)
(* works on.                                                                *)
IInv == TypeOK /\ AtFind /\ AtInsert /\ AtRemove /\ AtWalk /\ RootHasKeys /\ Shape

(* A step that leaves heap, pool and topmost node alone leaves the tree. *)
LEMMA SameTree ==
    ASSUME IInv, node' = node, allocated' = allocated, Top' = Top
    PROVE  Shape'
BY DEF IInv, Shape

(* The empty tree satisfies the invariant. *)
LEMMA InitInv == Init => IInv
<1> SUFFICES ASSUME Init PROVE IInv
  OBVIOUS
<1>1. NewNode \in Node
  BY EmptySeq DEF NewNode, Node
<1>2. TypeOK
  BY <1>1 DEF Init, TypeOK, Working, NoHole
<1>3. AtFind /\ AtInsert /\ AtRemove /\ AtWalk
  BY DEF Init, AtFind, AtInsert, AtRemove, AtWalk, Removing
<1>4. RootHasKeys /\ Shape
  BY DEF Init, RootHasKeys, Shape, Top
<1> QED BY <1>2, <1>3, <1>4 DEF IInv

(* The beginning of an operation keeps the invariant. *)
LEMMA BeginInv ==
    ASSUME IInv, NEW op, NEW key \in Keys, NEW val,
           op = "insert" => val \in Vals, Begin(op, key, val)
    PROVE  IInv'
<1>1. /\ pc = "idle" /\ pc' = "find" /\ req' = [op |-> op, key |-> key, val |-> val]
      /\ n' = root /\ k' = key /\ found' = NULL
      /\ node' = node /\ allocated' = allocated /\ root' = root
      /\ new_root' = new_root /\ hole' = hole
  BY DEF Begin
<1>2. TypeOK'
  BY <1>1 DEF IInv, TypeOK, Working
<1>3. new_root = NULL
  BY <1>1 DEF IInv, AtInsert
<1>4. AtFind'
  BY <1>1, <1>3 DEF IInv, TypeOK, AtFind
<1>5. AtInsert' /\ AtRemove' /\ AtWalk'
  BY <1>1 DEF AtInsert, AtRemove, AtWalk, Removing
<1>6. RootHasKeys'
  BY <1>1 DEF IInv, RootHasKeys, Top, Removing
<1>7. Shape'
  BY <1>1, SameTree DEF Top
<1> QED BY <1>2, <1>4, <1>5, <1>6, <1>7 DEF IInv

(* What the invariant says of a node in use ... *)
LEMMA InUse ==
    ASSUME IInv, NEW x \in allocated
    PROVE  /\ Top # NULL /\ Top \in allocated
           /\ x \in Nodes /\ x # NULL /\ node[x] \in Node
           /\ Len(node[x].keys) \in Nat /\ Len(node[x].keys) <= MAX_DEGREE
           /\ x # Top => Len(node[x].keys) >= MIN_DEGREE
           /\ ~node[x].is_leaf => Len(node[x].child) = Len(node[x].keys) + 1
<1>1. Top # NULL
  BY DEF IInv, Shape
<1>2. PICK ht : Tree(node, allocated, Top, ht)
  BY <1>1 DEF IInv, Shape
<1>3. /\ allocated \subseteq Nodes /\ Top \in allocated /\ NULL \notin allocated
      /\ node[x] \in Node
      /\ Len(node[x].keys) \in Nat /\ Len(node[x].keys) <= MAX_DEGREE
      /\ x # Top => Len(node[x].keys) >= MIN_DEGREE
      /\ Len(node[x].child) = IF node[x].is_leaf THEN 0 ELSE Len(node[x].keys) + 1
  BY <1>2, TreeFacts
<1> QED BY <1>1, <1>3

(* ... and of its children. *)
LEMMA ChildInUse ==
    ASSUME IInv, NEW x \in allocated, ~node[x].is_leaf,
           NEW p \in 1..(Len(node[x].keys) + 1)
    PROVE  /\ node[x].child[p] \in allocated
           /\ node[x].child[p] # x /\ node[x].child[p] # Top
           /\ Len(node[node[x].child[p]].keys) \in Nat
           /\ Len(node[node[x].child[p]].keys) <= MAX_DEGREE
           /\ Len(node[node[x].child[p]].keys) >= MIN_DEGREE
<1>1. Top # NULL /\ p \in 1..Len(node[x].child)
  BY InUse
<1>2. PICK ht : Tree(node, allocated, Top, ht)
  BY <1>1 DEF IInv, Shape
<1>3. node[x].child[p] \in allocated /\ node[x].child[p] # x /\ node[x].child[p] # Top
  BY <1>1, <1>2, TreeChild
<1> QED BY <1>3, InUse

(* So does the descent of the search, *)
LEMMA find_descendInv ==
    ASSUME IInv, find_descend
    PROVE  IInv'
<1>1. PICK p \in 1..(KeyCnt(n) + 1) : Goto("find", Child(n, p), k)
  BY DEF find_descend
<1>2. /\ pc = "find" /\ n # NULL /\ ~node[n].is_leaf
      /\ pc' = "find" /\ n' = node[n].child[p] /\ k' = k /\ req' = req
      /\ node' = node /\ allocated' = allocated /\ root' = root
      /\ new_root' = new_root /\ hole' = hole /\ found' = found
      /\ p \in 1..(Len(node[n].keys) + 1)
  BY <1>1 DEF find_descend, Goto, Child, KeyCnt
<1>3. n \in allocated /\ new_root = NULL /\ k \in Keys /\ root # NULL
  BY <1>2 DEF IInv, AtFind
<1>4. n' \in allocated
  BY <1>2, <1>3, ChildInUse
<1>5. TypeOK'
  BY <1>2, <1>4 DEF IInv, TypeOK, Working
<1>6. AtFind'
  BY <1>2, <1>3, <1>4 DEF IInv, AtFind
<1>7. AtInsert' /\ AtRemove' /\ AtWalk'
  BY <1>2 DEF AtInsert, AtRemove, AtWalk, Removing
<1>8. RootHasKeys'
  BY <1>2 DEF IInv, RootHasKeys, Top, Removing
<1>9. Shape'
  BY <1>2, SameTree DEF Top
<1> QED BY <1>5, <1>6, <1>7, <1>8, <1>9 DEF IInv

(* the answer to a search, the overwriting of a value, the beginning of     *)
(* remove_1d,                                                               *)
LEMMA find_hitInv ==
    ASSUME IInv, find_hit
    PROVE  IInv'
<1>1. PICK p \in 1..KeyCnt(n) :
         \/ /\ req.op = "search"
            /\ found' = node[n].keys[p].val
            /\ Done
            /\ UNCHANGED node
         \/ /\ req.op = "insert"
            /\ node' = overwrite(n, p, req.val)
            /\ Done
            /\ UNCHANGED found
         \/ /\ req.op = "remove"
            /\ Goto("remove", root, k)
            /\ UNCHANGED <<node, new_root, hole, found>>
  BY DEF find_hit
<1>2. /\ pc = "find" /\ n # NULL /\ allocated' = allocated /\ root' = root
      /\ p \in 1..Len(node[n].keys)
  BY DEF find_hit, KeyCnt
<1>3. /\ n \in allocated /\ new_root = NULL /\ k \in Keys /\ root # NULL
      /\ root \in allocated /\ Top = root
  BY <1>2 DEF IInv, AtFind, TypeOK, Top
<1>4. node[n] \in Node /\ node[n].keys \in Seq(Item) /\ node[n].keys[p] \in Item
  BY <1>2, <1>3, InUse, NodeFacts
<1>5. Len(node[root].keys) # 0
  BY <1>2, <1>3, InUse DEF IInv, RootHasKeys, Removing
<1>6. CASE req.op = "search" /\ found' = node[n].keys[p].val /\ Done /\ node' = node
  <2>1. /\ pc' = "idle" /\ n' = NULL /\ k' = NULL /\ new_root' = NULL /\ hole' = NoHole
    BY <1>6 DEF Done
  <2>2. found' \in Vals
    BY <1>4, <1>6 DEF Item
  <2>3. TypeOK'
    BY <1>2, <1>6, <2>1, <2>2 DEF IInv, TypeOK, Working, NoHole
  <2>4. AtFind' /\ AtInsert' /\ AtRemove' /\ AtWalk'
    BY <2>1 DEF AtFind, AtInsert, AtRemove, AtWalk, Removing
  <2>5. Top' = Top
    BY <1>2, <1>3, <2>1 DEF Top
  <2>6. RootHasKeys'
    BY <1>3, <1>5, <1>6, <2>5 DEF RootHasKeys
  <2>7. Shape'
    BY <1>2, <1>6, <2>5, SameTree
  <2> QED BY <2>3, <2>4, <2>6, <2>7 DEF IInv
<1>7. CASE req.op = "insert" /\ node' = overwrite(n, p, req.val) /\ Done /\ found' = found
  <2>1. /\ pc' = "idle" /\ n' = NULL /\ k' = NULL /\ new_root' = NULL /\ hole' = NoHole
    BY <1>7 DEF Done
  <2>2. Top' = Top
    BY <1>2, <1>3, <2>1 DEF Top
  <2> DEFINE s == node[n].keys
             it == [node[n].keys[p] EXCEPT !.val = req.val]
             ks == [s EXCEPT ![p] = it]
  <2>3. it \in Item
    <3>1. req.val \in Vals
      BY <1>2, <1>7 DEF IInv, AtFind
    <3> QED BY <1>4, <3>1 DEF Item
  <2>4. ks \in Seq(Item) /\ Len(ks) = Len(s)
    <3>1. s \in Seq(Item) /\ p \in 1..Len(s)
      BY <1>2, <1>4
    <3> HIDE DEF it, s
    <3> QED BY <2>3, <3>1, ExceptSeq
  <2>5. node' = [node EXCEPT ![n].keys = ks]
    BY <1>7 DEF overwrite
  <2>6. PICK ht : Tree(node, allocated, root, ht)
    BY <1>3, InUse DEF IInv, Shape
  <2>7. KeysOf(node, node', allocated, root, n, ks)
    <3>1. Len(s) <= MAX_DEGREE /\ (n # root => Len(s) >= MIN_DEGREE)
      BY <1>3, InUse
    <3> HIDE DEF ks
    <3> QED BY <1>3, <2>4, <2>5, <3>1 DEF KeysOf
  <2> HIDE DEF ks
  <2>8. /\ Tree(node', allocated, root, ht)
        /\ node'[n].keys = ks
        /\ \A c \in Nodes \ {n} : node'[c].keys = node[c].keys
    BY <2>6, <2>7, KeysTree
  <2>9. Shape'
    BY <1>2, <1>3, <2>2, <2>8, InUse DEF Shape
  <2>10. TypeOK'
    <3>1. node' \in [Nodes -> Node]
      BY <2>8, TreeFacts
    <3> QED BY <1>2, <1>7, <2>1, <3>1 DEF IInv, TypeOK, Working, NoHole
  <2>11. AtFind' /\ AtInsert' /\ AtRemove' /\ AtWalk'
    BY <2>1 DEF AtFind, AtInsert, AtRemove, AtWalk, Removing
  <2>12. Len(node'[root].keys) = Len(node[root].keys)
    BY <1>3, <2>4, <2>8, InUse
  <2>13. RootHasKeys'
    BY <1>3, <1>5, <2>2, <2>12 DEF RootHasKeys
  <2> QED BY <2>9, <2>10, <2>11, <2>13 DEF IInv
<1>8. CASE req.op = "remove" /\ Goto("remove", root, k)
           /\ UNCHANGED <<node, new_root, hole, found>>
  <2>1. /\ pc' = "remove" /\ n' = root /\ k' = k
        /\ node' = node /\ new_root' = new_root /\ hole' = hole /\ found' = found
    BY <1>8 DEF Goto
  <2>2. Top' = Top
    BY <1>2, <2>1 DEF Top
  <2>3. TypeOK'
    BY <1>2, <1>3, <2>1 DEF IInv, TypeOK, Working
  <2>4. AtFind' /\ AtInsert' /\ AtRemove' /\ AtWalk'
    BY <1>2, <1>3, <2>1 DEF AtFind, AtInsert, AtRemove, AtWalk, Removing
  <2>5. RootHasKeys'
    BY <1>3, <1>5, <2>1, <2>2 DEF RootHasKeys
  <2>6. Shape'
    BY <1>2, <2>1, <2>2, SameTree
  <2> QED BY <2>3, <2>4, <2>5, <2>6 DEF IInv
<1> QED BY <1>1, <1>6, <1>7, <1>8

(* a search without result and the beginning of insert_to_root, *)
LEMMA find_missInv ==
    ASSUME IInv, find_miss
    PROVE  IInv'
<1>1. pc = "find" /\ node' = node /\ allocated' = allocated /\ root' = root
  BY DEF find_miss
<1>2. new_root = NULL /\ k \in Keys
  BY <1>1 DEF IInv, AtFind
<1>3. Top # NULL => Len(node[Top].keys) # 0
  BY <1>1 DEF IInv, RootHasKeys, Removing
<1>4. CASE Done /\ found' \in {NULL, found}
  <2>1. /\ pc' = "idle" /\ n' = NULL /\ k' = NULL /\ new_root' = NULL /\ hole' = NoHole
    BY <1>4 DEF Done
  <2>2. TypeOK'
    BY <1>1, <1>4, <2>1 DEF IInv, TypeOK, Working, NoHole
  <2>3. AtFind' /\ AtInsert' /\ AtRemove' /\ AtWalk'
    BY <2>1 DEF AtFind, AtInsert, AtRemove, AtWalk, Removing
  <2>4. Top' = Top
    BY <1>1, <1>2, <2>1 DEF Top
  <2>5. RootHasKeys'
    BY <1>1, <1>3, <2>4 DEF RootHasKeys
  <2>6. Shape'
    BY <1>1, <2>4, SameTree
  <2> QED BY <2>2, <2>3, <2>5, <2>6 DEF IInv
<1>5. CASE req.op = "insert" /\ Goto("insert_to_root", root, k)
           /\ UNCHANGED <<new_root, hole, found>>
  <2>1. /\ pc' = "insert_to_root" /\ n' = root /\ k' = k /\ req' = req
        /\ new_root' = new_root /\ hole' = hole /\ found' = found
    BY <1>5 DEF Goto
  <2>2. TypeOK'
    BY <1>1, <2>1 DEF IInv, TypeOK, Working
  <2>3. req.val \in Vals
    BY <1>1, <1>5 DEF IInv, AtFind
  <2>4. AtFind' /\ AtInsert' /\ AtRemove' /\ AtWalk'
    BY <1>2, <2>1, <2>3 DEF AtFind, AtInsert, AtRemove, AtWalk, Removing
  <2>5. Top' = Top
    BY <1>1, <2>1 DEF Top
  <2>6. RootHasKeys'
    BY <1>1, <1>3, <2>5 DEF RootHasKeys
  <2>7. Shape'
    BY <1>1, <2>5, SameTree
  <2> QED BY <2>2, <2>4, <2>6, <2>7 DEF IInv
<1> QED BY <1>4, <1>5 DEF find_miss

(* the first node of an empty tree, *)
LEMMA insert_firstInv ==
    ASSUME IInv, insert_first
    PROVE  IInv'
<1>1. PICK z \in Nodes :
         /\ node' = [node EXCEPT ![z] = [NewNode EXCEPT !.keys = <<NewItem>>]]
         /\ allocated' = allocated \union {z}
         /\ root' = z
  BY DEF insert_first
<1>2. /\ pc = "insert_to_root" /\ root = NULL /\ found' = found
      /\ pc' = "idle" /\ n' = NULL /\ k' = NULL /\ new_root' = NULL /\ hole' = NoHole
  BY DEF insert_first, Done
<1>3. allocated = {}
  BY <1>2 DEF IInv, AtInsert, Shape, Top
<1>4. NewItem \in Item
  BY <1>2 DEF IInv, AtInsert, NewItem, Item
<1>5. /\ \E ht : Tree(node', {z}, z, ht)
      /\ node'[z].keys = <<NewItem>>
  <2>1. node \in [Nodes -> Node]
    BY DEF IInv, TypeOK
  <2>2. FirstOf(node, node', z, NewItem)
    BY <1>1, <1>4, <2>1 DEF FirstOf
  <2> QED BY <2>2, FirstTree
<1>6. Top' = z /\ allocated' = {z} /\ z # NULL
  BY <1>1, <1>2, <1>3, NodesAssumption, NullAssumption DEF Top
<1>7. Shape'
  BY <1>5, <1>6 DEF Shape
<1>8. TypeOK'
  <2>1. node' \in [Nodes -> Node]
    BY <1>5, TreeFacts
  <2> QED BY <1>1, <1>2, <1>6, <2>1 DEF IInv, TypeOK, Working, NoHole
<1>9. AtFind' /\ AtInsert' /\ AtRemove' /\ AtWalk'
  BY <1>2 DEF AtFind, AtInsert, AtRemove, AtWalk, Removing
<1>10. RootHasKeys'
  BY <1>5, <1>6 DEF RootHasKeys
<1> QED BY <1>7, <1>8, <1>9, <1>10 DEF IInv

(* an insert below a root that has room, *)
LEMMA insert_at_rootInv ==
    ASSUME IInv, insert_at_root
    PROVE  IInv'
<1>1. /\ pc = "insert_to_root" /\ root # NULL /\ Len(node[root].keys) < MAX_DEGREE
      /\ pc' = "insert_non_full" /\ n' = root /\ k' = k /\ req' = req
      /\ new_root' = root
      /\ node' = node /\ allocated' = allocated /\ root' = root
      /\ hole' = hole /\ found' = found
  BY DEF insert_at_root, Goto, KeyCnt
<1>2. /\ root \in allocated /\ new_root = NULL /\ k \in Keys /\ req.val \in Vals
  BY <1>1 DEF IInv, TypeOK, AtInsert
<1>3. Top' = Top
  BY <1>1, <1>2 DEF Top
<1>4. TypeOK'
  BY <1>1, <1>2 DEF IInv, TypeOK, Working
<1>5. AtFind' /\ AtInsert' /\ AtRemove' /\ AtWalk'
  BY <1>1, <1>2 DEF AtFind, AtInsert, AtRemove, AtWalk, Removing
<1>6. RootHasKeys'
  BY <1>1, <1>3 DEF IInv, RootHasKeys, Removing
<1>7. Shape'
  BY <1>1, <1>3, SameTree
<1> QED BY <1>4, <1>5, <1>6, <1>7 DEF IInv

(* an insert that puts a new root above a full one and splits that, *)
LEMMA insert_growInv ==
    ASSUME IInv, insert_grow
    PROVE  IInv'
<1> DEFINE h(s) == [node EXCEPT ![s] = [NewNode EXCEPT !.is_leaf = FALSE,
                                                       !.child = <<root>>],
                                ![root].parent = s]
<1>1. PICK s \in Nodes, z \in Nodes :
         /\ Fresh(s, allocated)
         /\ Fresh(z, allocated \union {s})
         /\ node' = split_child(h(s), s, 1, root, z)
         /\ allocated' = allocated \union {s, z}
         /\ new_root' = s
         /\ Goto("insert_non_full", HalfFor(root, z), k)
  BY DEF insert_grow
<1>2. /\ pc = "insert_to_root" /\ root # NULL /\ Len(node[root].keys) = MAX_DEGREE
      /\ root' = root /\ hole' = hole /\ found' = found
      /\ pc' = "insert_non_full" /\ n' \in {root, z} /\ k' = k /\ req' = req
  BY <1>1 DEF insert_grow, Goto, KeyCnt, HalfFor
<1>3. /\ root \in allocated /\ new_root = NULL /\ k \in Keys /\ req.val \in Vals
      /\ Top = root
  BY <1>2 DEF IInv, TypeOK, AtInsert, Top
<1>4. s \in Nodes \ allocated /\ z \in Nodes \ (allocated \union {s}) /\ s # NULL
  BY <1>1, NodesAssumption, NullAssumption DEF Fresh
<1>5. PICK ht : Tree(node, allocated, root, ht)
  BY <1>2, <1>3 DEF IInv, Shape
<1> DEFINE H == h(s)
           A == allocated \union {s}
           hu == [ht EXCEPT ![s] = ht[root] + 1]
<1>6. GrownOf(node, H, allocated, root, ht, s, hu)
  <2>1. Len(node[root].keys) >= MIN_DEGREE
    BY <1>2, TAssumption DEF MIN_DEGREE, MAX_DEGREE
  <2> QED BY <1>4, <2>1 DEF GrownOf
<1> HIDE DEF h, H, hu
<1>7. /\ Tree(H, A, s, hu)
      /\ Len(H[s].keys) = 0 /\ H[s].child[1] = root /\ ~H[s].is_leaf
      /\ H[root].keys = node[root].keys
  BY <1>5, <1>6, GrowTree
<1>8. SplitSite(H, A, s, 1, root, z)
  <2>1. Len(H[s].keys) = 0 /\ 0 < MAX_DEGREE /\ 1 \in 1..(0 + 1)
    BY <1>7, TAssumption DEF MAX_DEGREE
  <2>2. H[s].child[1] = root /\ Len(H[root].keys) = MAX_DEGREE
    BY <1>2, <1>7
  <2> QED BY <1>4, <1>7, <2>1, <2>2 DEF SplitSite
<1> DEFINE G == split_child(H, s, 1, root, z)
           hv == [hu EXCEPT ![z] = hu[root]]
<1>9. SplitOf(H, G, s, 1, root, z) /\ Tree(G, A \union {z}, s, hv)
  BY <1>7, <1>8, SplitTree
<1>10. node' = G
  BY <1>1 DEF H
<1> HIDE DEF G, hv
<1>11. allocated' = A \union {z} /\ Top' = s
  BY <1>1, <1>4 DEF Top
<1>12. Shape'
  BY <1>4, <1>9, <1>10, <1>11 DEF Shape
<1>13. /\ Len(G[root].keys) = MIN_DEGREE /\ Len(G[z].keys) = MIN_DEGREE
       /\ Len(G[s].keys) = 1
  <2>1. /\ Len(G[root].keys) = MIN_DEGREE /\ Len(G[z].keys) = MIN_DEGREE
        /\ Len(G[s].keys) = Len(H[s].keys) + 1
    BY <1>9, Zenon DEF SplitOf
  <2> QED BY <1>7, <2>1
<1>14. n' \in allocated' /\ Len(node'[n'].keys) < MAX_DEGREE
  BY <1>2, <1>3, <1>10, <1>11, <1>13, TAssumption DEF MIN_DEGREE, MAX_DEGREE
<1>15. TypeOK'
  <2>1. node' \in [Nodes -> Node] /\ allocated' \subseteq Nodes
    BY <1>9, <1>10, <1>11, TreeFacts
  <2>2. s \in allocated' /\ root \in allocated'
    BY <1>1, <1>3
  <2> QED BY <1>1, <1>2, <1>14, <2>1, <2>2 DEF IInv, TypeOK, Working
<1>16. AtFind' /\ AtInsert' /\ AtRemove' /\ AtWalk'
  BY <1>1, <1>2, <1>3, <1>14 DEF AtFind, AtInsert, AtRemove, AtWalk, Removing
<1>17. RootHasKeys'
  <2>1. Len(node'[s].keys) # 0
    BY <1>10, <1>13
  <2> QED BY <1>11, <2>1 DEF RootHasKeys
<1> QED BY <1>12, <1>15, <1>16, <1>17 DEF IInv

(* the key stored in a leaf, with which the new root becomes the root, *)
LEMMA insert_in_leafInv ==
    ASSUME IInv, insert_in_leaf
    PROVE  IInv'
<1>1. PICK p \in 1..(KeyCnt(n) + 1) :
         node' = [node EXCEPT ![n].keys = InsertAt(@, p, NewItem)]
  BY DEF insert_in_leaf
<1>2. /\ pc = "insert_non_full" /\ node[n].is_leaf
      /\ root' = new_root /\ allocated' = allocated /\ found' = found
      /\ pc' = "idle" /\ n' = NULL /\ k' = NULL /\ new_root' = NULL /\ hole' = NoHole
      /\ p \in 1..(Len(node[n].keys) + 1)
  BY DEF insert_in_leaf, Done, KeyCnt
<1>3. /\ n \in allocated /\ new_root \in allocated /\ Len(node[n].keys) < MAX_DEGREE
      /\ NewItem \in Item
  BY <1>2 DEF IInv, AtInsert, TypeOK, Working, NewItem, Item
<1>4. /\ new_root # NULL /\ Top = new_root /\ Top' = new_root /\ n \in Nodes
      /\ node[n] \in Node /\ node[n].keys \in Seq(Item) /\ Len(node[n].keys) \in Nat
      /\ n # Top => Len(node[n].keys) >= MIN_DEGREE
  <2>1. new_root # NULL
    BY <1>3, InUse
  <2>2. /\ n \in Nodes /\ node[n] \in Node /\ Len(node[n].keys) \in Nat
        /\ n # Top => Len(node[n].keys) >= MIN_DEGREE
    BY <1>3, InUse
  <2> QED BY <1>2, <2>1, <2>2, NodeFacts DEF Top
<1> DEFINE s == node[n].keys
           ks == InsertAt(s, p, NewItem)
<1>5. ks \in Seq(Item) /\ Len(ks) = Len(s) + 1
  <2>1. s \in Seq(Item) /\ p \in 1..(Len(s) + 1)
    BY <1>2, <1>4
  <2> HIDE DEF s
  <2> QED BY <1>3, <2>1, InsertAtFacts
<1>6. node' = [node EXCEPT ![n].keys = ks]
  BY <1>1
<1> HIDE DEF ks
<1>7. PICK ht : Tree(node, allocated, new_root, ht)
  BY <1>4 DEF IInv, Shape
<1>8. KeysOf(node, node', allocated, new_root, n, ks)
  <2>1. Len(ks) <= MAX_DEGREE /\ (n # new_root => Len(ks) >= MIN_DEGREE)
    BY <1>3, <1>4, <1>5, TAssumption DEF MIN_DEGREE, MAX_DEGREE
  <2> QED BY <1>2, <1>3, <1>5, <1>6, <2>1 DEF KeysOf
<1>9. /\ Tree(node', allocated, new_root, ht)
      /\ node'[n].keys = ks
      /\ \A c \in Nodes \ {n} : node'[c].keys = node[c].keys
  BY <1>7, <1>8, KeysTree
<1>10. Shape'
  BY <1>2, <1>4, <1>9 DEF Shape
<1>11. TypeOK'
  <2>1. node' \in [Nodes -> Node]
    BY <1>9, TreeFacts
  <2> QED BY <1>2, <1>3, <2>1 DEF IInv, TypeOK, Working, NoHole
<1>12. AtFind' /\ AtInsert' /\ AtRemove' /\ AtWalk'
  BY <1>2 DEF AtFind, AtInsert, AtRemove, AtWalk, Removing
<1>13. RootHasKeys'
  <2>1. Len(node[new_root].keys) # 0
    BY <1>2, <1>4 DEF IInv, RootHasKeys, Removing
  <2>2. Len(node'[new_root].keys) # 0
    BY <1>3, <1>4, <1>5, <1>9, <2>1, InUse
  <2> QED BY <1>4, <2>2 DEF RootHasKeys
<1> QED BY <1>10, <1>11, <1>12, <1>13 DEF IInv

(* the descent to a child that has room, *)
LEMMA insert_descendInv ==
    ASSUME IInv, insert_descend
    PROVE  IInv'
<1>1. PICK p \in 1..(KeyCnt(n) + 1) :
         /\ KeyCnt(Child(n, p)) < MAX_DEGREE
         /\ Goto("insert_non_full", Child(n, p), k)
  BY DEF insert_descend
<1>2. /\ pc = "insert_non_full" /\ ~node[n].is_leaf
      /\ pc' = "insert_non_full" /\ n' = node[n].child[p] /\ k' = k /\ req' = req
      /\ node' = node /\ allocated' = allocated /\ root' = root
      /\ new_root' = new_root /\ hole' = hole /\ found' = found
      /\ p \in 1..(Len(node[n].keys) + 1)
      /\ Len(node[node[n].child[p]].keys) < MAX_DEGREE
  BY <1>1 DEF insert_descend, Goto, Child, KeyCnt
<1>3. n \in allocated
  BY <1>2 DEF IInv, TypeOK, Working
<1>4. n' \in allocated
  BY <1>2, <1>3, ChildInUse
<1>5. TypeOK'
  BY <1>2, <1>4 DEF IInv, TypeOK, Working
<1>6. AtFind' /\ AtRemove' /\ AtWalk'
  BY <1>2 DEF AtFind, AtRemove, AtWalk, Removing
<1>7. AtInsert'
  BY <1>2 DEF IInv, AtInsert
<1>8. Top' = Top
  BY <1>2 DEF Top
<1>9. RootHasKeys'
  BY <1>2, <1>8 DEF IInv, RootHasKeys, Removing
<1>10. Shape'
  BY <1>2, <1>8, SameTree
<1> QED BY <1>5, <1>6, <1>7, <1>9, <1>10 DEF IInv

(* the descent to a child that is split first, *)
LEMMA insert_splitInv ==
    ASSUME IInv, insert_split
    PROVE  IInv'
<1>1. PICK p \in 1..(KeyCnt(n) + 1), z \in Nodes :
         /\ KeyCnt(Child(n, p)) = MAX_DEGREE
         /\ Fresh(z, allocated)
         /\ node' = split_child(node, n, p, Child(n, p), z)
         /\ allocated' = allocated \union {z}
         /\ Goto("insert_non_full", HalfFor(Child(n, p), z), k)
  BY DEF insert_split
<1> DEFINE y == node[n].child[p]
<1>2. /\ pc = "insert_non_full" /\ ~node[n].is_leaf
      /\ pc' = "insert_non_full" /\ n' \in {y, z} /\ k' = k /\ req' = req
      /\ root' = root /\ new_root' = new_root /\ hole' = hole /\ found' = found
      /\ p \in 1..(Len(node[n].keys) + 1)
      /\ Len(node[y].keys) = MAX_DEGREE
  BY <1>1 DEF insert_split, Goto, Child, KeyCnt, HalfFor
<1>3. /\ n \in allocated /\ new_root \in allocated /\ Len(node[n].keys) < MAX_DEGREE
      /\ z \in Nodes \ allocated
  BY <1>1, <1>2 DEF IInv, AtInsert, TypeOK, Working, Fresh
<1>4. new_root # NULL /\ Top = new_root /\ Top' = new_root
  BY <1>2, <1>3, InUse DEF Top
<1>5. PICK ht : Tree(node, allocated, new_root, ht)
  BY <1>4 DEF IInv, Shape
<1>6. SplitSite(node, allocated, n, p, y, z)
  BY <1>2, <1>3 DEF SplitSite
<1>7. node' = split_child(node, n, p, y, z)
  BY <1>1 DEF Child
<1> HIDE DEF y
<1>8. /\ y \in allocated /\ y # n
      /\ SplitOf(node, node', n, p, y, z)
      /\ Tree(node', allocated \union {z}, new_root, [ht EXCEPT ![z] = ht[y]])
  BY <1>5, <1>6, <1>7, SplitTree
<1>9. Shape'
  BY <1>1, <1>4, <1>8 DEF Shape
<1>10. /\ Len(node'[y].keys) = MIN_DEGREE /\ Len(node'[z].keys) = MIN_DEGREE
       /\ Len(node'[n].keys) = Len(node[n].keys) + 1
       /\ \A c \in Nodes \ {n, y, z} : node'[c].keys = node[c].keys
  BY <1>8, Zenon DEF SplitOf
<1>11. n' \in allocated' /\ Len(node'[n'].keys) < MAX_DEGREE
  BY <1>1, <1>2, <1>8, <1>10, TAssumption DEF MIN_DEGREE, MAX_DEGREE
<1>12. TypeOK'
  <2>1. node' \in [Nodes -> Node] /\ allocated' \subseteq Nodes
    BY <1>1, <1>8, TreeFacts
  <2> QED BY <1>1, <1>2, <1>11, <2>1 DEF IInv, TypeOK, Working
<1>13. AtFind' /\ AtRemove' /\ AtWalk'
  BY <1>2 DEF AtFind, AtRemove, AtWalk, Removing
<1>14. AtInsert'
  BY <1>1, <1>2, <1>11 DEF IInv, AtInsert
<1>15. RootHasKeys'
  <2>1. Len(node[new_root].keys) # 0 /\ new_root \in Nodes /\ Len(node[new_root].keys) \in Nat
    BY <1>2, <1>3, <1>4, InUse DEF IInv, RootHasKeys, Removing
  <2>2. new_root # z
    BY <1>3
  <2>3. MIN_DEGREE # 0
    BY TAssumption DEF MIN_DEGREE
  <2>4. Len(node'[new_root].keys) # 0
    BY <1>10, <2>1, <2>2, <2>3
  <2> QED BY <1>4, <2>4 DEF RootHasKeys
<1> QED BY <1>9, <1>12, <1>13, <1>14, <1>15 DEF IInv

-----------------------------------------------------------------------------
(* the end of the program when the pool is exhausted. *)
LEMMA bad_allocInv ==
    ASSUME IInv, bad_alloc
    PROVE  IInv'
<1>1. /\ pc' = "bad_alloc" /\ node' = node /\ allocated' = allocated /\ root' = root
      /\ req' = req /\ n' = n /\ k' = k /\ new_root' = new_root
      /\ hole' = hole /\ found' = found
  BY DEF bad_alloc
<1>2. Top' = Top
  BY <1>1 DEF Top
<1>3. TypeOK'
  BY <1>1 DEF IInv, TypeOK, Working
<1>4. AtFind' /\ AtInsert' /\ AtRemove' /\ AtWalk'
  BY <1>1 DEF AtFind, AtInsert, AtRemove, AtWalk, Removing
<1>5. RootHasKeys'
  BY <1>1 DEF RootHasKeys
<1>6. Shape'
  BY <1>1, <1>2, SameTree
<1> QED BY <1>3, <1>4, <1>5, <1>6 DEF IInv

(* What holds wherever remove_1d is: the tree is the one of root. *)
LEMMA Removes ==
    ASSUME IInv, pc \in Removing \union {"shrink"}
    PROVE  /\ root \in allocated /\ new_root = NULL /\ Top = root /\ root # NULL
           /\ pc \in Removing => n \in allocated
           /\ \E ht : Tree(node, allocated, root, ht)
<1>1. root \in allocated /\ new_root = NULL
  BY DEF IInv, AtRemove
<1>2. Top = root /\ root # NULL
  BY <1>1, InUse DEF Top
<1>3. pc \in Removing => n \in allocated
  BY DEF IInv, TypeOK, Working, Removing
<1>4. \E ht : Tree(node, allocated, root, ht)
  BY <1>2 DEF IInv, Shape
<1> QED BY <1>1, <1>2, <1>3, <1>4

(* A key taken out of a leaf keeps the invariant: the leaf is the root or   *)
(* could spare it.                                                          *)
LEMMA removeFromLeafInv ==
    ASSUME IInv, removeFromLeaf
    PROVE  IInv'
<1>1. PICK p \in 1..KeyCnt(n) : node' = [node EXCEPT ![n].keys = RemoveAt(@, p)]
  BY DEF removeFromLeaf
<1>2. /\ pc = "remove" /\ node[n].is_leaf
      /\ pc' = "shrink" /\ n' = root /\ k' = k
      /\ allocated' = allocated /\ root' = root
      /\ new_root' = new_root /\ hole' = hole /\ found' = found
      /\ p \in 1..Len(node[n].keys)
  BY DEF removeFromLeaf, Goto, KeyCnt
<1>3. root \in allocated /\ new_root = NULL /\ Top = root /\ root # NULL /\ n \in allocated
  BY <1>2, Removes DEF Removing
<1>4. PICK ht : Tree(node, allocated, root, ht)
  BY <1>2, Removes DEF Removing
<1>5. n = root \/ Len(node[n].keys) >= MIN_DEGREE + 1
  BY <1>2 DEF IInv, AtRemove
<1>6. /\ node[n].keys \in Seq(Item) /\ Len(node[n].keys) \in Nat
      /\ Len(node[n].keys) <= MAX_DEGREE
  BY <1>3, InUse, NodeFacts
<1> DEFINE s == node[n].keys
           ks == RemoveAt(s, p)
<1>7. ks \in Seq(Item) /\ Len(ks) = Len(s) - 1
  <2>1. s \in Seq(Item) /\ p \in 1..Len(s)
    BY <1>2, <1>6
  <2> HIDE DEF s
  <2> QED BY <2>1, RemoveAtFacts
<1>8. node' = [node EXCEPT ![n].keys = ks]
  BY <1>1
<1> HIDE DEF ks
<1>9. KeysOf(node, node', allocated, root, n, ks)
  <2>1. Len(ks) <= MAX_DEGREE /\ (n # root => Len(ks) >= MIN_DEGREE)
    BY <1>5, <1>6, <1>7, TAssumption DEF MIN_DEGREE, MAX_DEGREE
  <2> QED BY <1>2, <1>3, <1>7, <1>8, <2>1 DEF KeysOf
<1>10. Tree(node', allocated, root, ht)
  BY <1>4, <1>9, KeysTree
<1>11. Top' = root
  BY <1>2, <1>3 DEF Top
<1>12. Shape'
  BY <1>2, <1>3, <1>10, <1>11 DEF Shape
<1>13. TypeOK'
  <2>1. node' \in [Nodes -> Node]
    BY <1>10, TreeFacts
  <2> QED BY <1>2, <1>3, <2>1 DEF IInv, TypeOK, Working
<1>14. AtFind' /\ AtInsert' /\ AtRemove' /\ AtWalk'
  BY <1>2, <1>3 DEF AtFind, AtInsert, AtRemove, AtWalk, Removing
<1>15. RootHasKeys'
  BY <1>2 DEF RootHasKeys
<1> QED BY <1>12, <1>13, <1>14, <1>15 DEF IInv

(* So does the beginning of getPred or getSucc below a key of an inner      *)
(* node,                                                                    *)
LEMMA removeFromNonLeaf_walkInv ==
    ASSUME IInv, removeFromNonLeaf_walk
    PROVE  IInv'
<1>1. PICK p \in 1..KeyCnt(n) :
         /\ hole' = [node |-> n, idx |-> p]
         /\ \/ /\ Spare(Child(n, p))
               /\ Goto("getPred", Child(n, p), k)
            \/ /\ ~Spare(Child(n, p))
               /\ Spare(Child(n, p + 1))
               /\ Goto("getSucc", Child(n, p + 1), k)
  BY DEF removeFromNonLeaf_walk
<1>2. /\ pc = "remove" /\ ~node[n].is_leaf
      /\ node' = node /\ allocated' = allocated /\ root' = root
      /\ new_root' = new_root /\ found' = found
      /\ p \in 1..Len(node[n].keys)
  BY DEF removeFromNonLeaf_walk, KeyCnt
<1>3. root \in allocated /\ new_root = NULL /\ Top = root /\ root # NULL /\ n \in allocated
  BY <1>2, Removes DEF Removing
<1> DEFINE from == IF pc' = "getPred" THEN p ELSE p + 1
<1>4. /\ pc' \in {"getPred", "getSucc"} /\ n' = node[n].child[from] /\ k' = k
      /\ Len(node[node[n].child[from]].keys) >= MIN_DEGREE + 1
  <2>1. CASE Spare(Child(n, p)) /\ Goto("getPred", Child(n, p), k)
    BY <2>1 DEF Spare, Child, KeyCnt, Goto
  <2>2. CASE Spare(Child(n, p + 1)) /\ Goto("getSucc", Child(n, p + 1), k)
    BY <2>2 DEF Spare, Child, KeyCnt, Goto
  <2> QED BY <1>1, <2>1, <2>2
<1>5. n \in Nodes /\ Len(node[n].keys) \in Nat
  BY <1>3, InUse
<1>6. from \in 1..(Len(node[n].keys) + 1)
  BY <1>2, <1>5
<1> HIDE DEF from
<1>7. n' \in allocated /\ n' # root
  BY <1>2, <1>3, <1>4, <1>6, ChildInUse
<1>8. TypeOK'
  <2>1. hole' \in [node : Nodes \union {NULL}, idx : Nat]
    BY <1>1, <1>2, <1>5
  <2> QED BY <1>2, <1>3, <1>4, <1>7, <2>1 DEF IInv, TypeOK, Working
<1>9. AtFind' /\ AtInsert' /\ AtRemove'
  BY <1>2, <1>3, <1>4 DEF AtFind, AtInsert, AtRemove, Removing
<1>10. AtWalk'
  BY <1>1, <1>2, <1>3, <1>4, <1>7 DEF AtWalk, from
<1>11. Top' = Top
  BY <1>2 DEF Top
<1>12. RootHasKeys'
  BY <1>2, <1>4, <1>7 DEF RootHasKeys, Removing
<1>13. Shape'
  BY <1>2, <1>11, SameTree
<1> QED BY <1>8, <1>9, <1>10, <1>12, <1>13 DEF IInv

(* and every step of that walk. *)
LEMMA walkInv ==
    ASSUME IInv, walk
    PROVE  IInv'
<1> DEFINE p == IF pc = "getPred" THEN Len(node[n].keys) + 1 ELSE 1
<1>1. /\ pc \in {"getPred", "getSucc"} /\ ~node[n].is_leaf
      /\ pc' = pc /\ n' = node[n].child[p] /\ k' = k
      /\ node' = node /\ allocated' = allocated /\ root' = root
      /\ new_root' = new_root /\ hole' = hole /\ found' = found
  BY DEF walk, Goto, Child, KeyCnt
<1>2. root \in allocated /\ new_root = NULL /\ Top = root /\ root # NULL /\ n \in allocated
  BY <1>1, Removes DEF Removing
<1>3. p \in 1..(Len(node[n].keys) + 1)
  BY <1>2, InUse
<1> HIDE DEF p
<1>4. n' \in allocated /\ n' # root
  BY <1>1, <1>2, <1>3, ChildInUse
<1>5. TypeOK'
  BY <1>1, <1>4 DEF IInv, TypeOK, Working
<1>6. AtFind' /\ AtInsert' /\ AtRemove'
  BY <1>1, <1>2 DEF AtFind, AtInsert, AtRemove, Removing
<1>7. AtWalk'
  BY <1>1, <1>4 DEF IInv, AtWalk
<1>8. Top' = Top
  BY <1>1 DEF Top
<1>9. RootHasKeys'
  BY <1>1, <1>4 DEF RootHasKeys, Removing
<1>10. Shape'
  BY <1>1, <1>8, SameTree
<1> QED BY <1>5, <1>6, <1>7, <1>9, <1>10 DEF IInv

(* Two minimal children of n, p and p + 1, merged; remove() goes on there. *)
MergedAt(p) ==
    /\ pc = "remove" /\ ~node[n].is_leaf /\ p \in 1..Len(node[n].keys)
    /\ Len(node[node[n].child[p]].keys) < MIN_DEGREE + 1
    /\ Len(node[node[n].child[p + 1]].keys) < MIN_DEGREE + 1
    /\ node' = merge(node, n, p)
    /\ allocated' = allocated \ {node[n].child[p + 1]}
    /\ pc' = "remove" /\ n' = node[n].child[p] /\ k' = k
    /\ root' = root /\ new_root' = new_root /\ hole' = hole /\ found' = found

(* A merge of two minimal children keeps the invariant, and remove() goes   *)
(* on in a node that can spare a key.                                       *)
LEMMA MergedInv ==
    ASSUME IInv, NEW p, MergedAt(p)
    PROVE  IInv'
<1> DEFINE ch  == node[n].child[p]
           sib == node[n].child[p + 1]
<1>1. /\ pc = "remove" /\ ~node[n].is_leaf /\ p \in 1..Len(node[n].keys)
      /\ pc' = "remove" /\ n' = ch /\ k' = k
      /\ allocated' = allocated \ {sib} /\ node' = merge(node, n, p)
      /\ root' = root /\ new_root' = new_root /\ hole' = hole /\ found' = found
  BY DEF MergedAt
<1>2. root \in allocated /\ new_root = NULL /\ Top = root /\ root # NULL /\ n \in allocated
  BY <1>1, Removes DEF Removing
<1>3. PICK ht : Tree(node, allocated, root, ht)
  BY <1>1, Removes DEF Removing
<1>4. Len(node[ch].keys) = MIN_DEGREE /\ Len(node[sib].keys) = MIN_DEGREE
  <2>1. p \in 1..(Len(node[n].keys) + 1) /\ p + 1 \in 1..(Len(node[n].keys) + 1)
    BY <1>1, <1>2, InUse
  <2>2. /\ Len(node[ch].keys) \in Nat /\ Len(node[ch].keys) >= MIN_DEGREE
        /\ Len(node[sib].keys) \in Nat /\ Len(node[sib].keys) >= MIN_DEGREE
    BY <1>1, <1>2, <2>1, ChildInUse
  <2>3. Len(node[ch].keys) < MIN_DEGREE + 1 /\ Len(node[sib].keys) < MIN_DEGREE + 1
    BY DEF MergedAt
  <2>4. \A a \in Nat : a >= MIN_DEGREE /\ a < MIN_DEGREE + 1 => a = MIN_DEGREE
    BY TAssumption DEF MIN_DEGREE
  <2> QED BY <2>2, <2>3, <2>4
<1>5. MergeSite(node, allocated, root, n, p, ch, sib)
  <2>1. n = root \/ Len(node[n].keys) >= MIN_DEGREE + 1
    BY <1>1 DEF IInv, AtRemove
  <2> QED BY <1>1, <1>2, <1>4, <2>1 DEF MergeSite
<1> HIDE DEF ch, sib
<1>6. /\ ch \in allocated /\ sib # root /\ ch # sib
      /\ MergeOf(node, node', n, p, ch, sib)
      /\ Tree(node', allocated \ {sib}, root, ht)
  BY <1>1, <1>3, <1>5, MergeTree
<1>7. Len(node'[ch].keys) >= MIN_DEGREE + 1
  <2>1. Len(node'[ch].keys) = Len(node[ch].keys) + 1 + Len(node[sib].keys)
    BY <1>6, Zenon DEF MergeOf
  <2> QED BY <1>4, <2>1, TAssumption DEF MIN_DEGREE
<1>8. n' # root
  BY <1>1, <1>2, <1>3, <1>5, InUse, ChildInUse DEF ch
<1>9. Top' = root
  BY <1>1, <1>2 DEF Top
<1>10. Shape'
  BY <1>1, <1>2, <1>6, <1>9 DEF Shape
<1>11. TypeOK'
  <2>1. node' \in [Nodes -> Node] /\ allocated' \subseteq Nodes
    BY <1>1, <1>6, TreeFacts
  <2>2. n' \in allocated' /\ root \in allocated'
    BY <1>1, <1>2, <1>6
  <2> QED BY <1>1, <1>2, <2>1, <2>2 DEF IInv, TypeOK, Working
<1>12. AtFind' /\ AtInsert' /\ AtRemove' /\ AtWalk'
  BY <1>1, <1>2, <1>6, <1>7 DEF AtFind, AtInsert, AtRemove, AtWalk, Removing
<1>13. RootHasKeys'
  BY <1>1, <1>8 DEF RootHasKeys, Removing
<1> QED BY <1>10, <1>11, <1>12, <1>13 DEF IInv

(* removeFromNonLeaf, when neither child beside the key can spare one, is   *)
(* such a merge.                                                            *)
LEMMA NonLeafMerges ==
    ASSUME IInv, removeFromNonLeaf_merge
    PROVE  \E p \in 1..Len(node[n].keys) :
              /\ Holds(n, k, p) /\ req' = req
              /\ MergedAt(p)
<1>1. PICK p \in 1..KeyCnt(n) :
         /\ Holds(n, k, p)
         /\ ~Spare(Child(n, p))
         /\ ~Spare(Child(n, p + 1))
         /\ node' = merge(node, n, p)
         /\ allocated' = Without(Child(n, p + 1))
         /\ Goto("remove", Child(n, p), k)
  BY DEF removeFromNonLeaf_merge
<1>2. /\ pc = "remove" /\ ~node[n].is_leaf
      /\ root' = root /\ new_root' = new_root /\ hole' = hole /\ found' = found
  BY DEF removeFromNonLeaf_merge
<1>3. n \in allocated
  BY <1>2, Removes DEF Removing
<1>4. MergedAt(p)
  <2>1. /\ Len(node[node[n].child[p]].keys) \in Nat
        /\ Len(node[node[n].child[p + 1]].keys) \in Nat
    <3>1. p \in 1..(Len(node[n].keys) + 1) /\ p + 1 \in 1..(Len(node[n].keys) + 1)
      BY <1>3, InUse DEF KeyCnt
    <3> QED BY <1>2, <1>3, <3>1, ChildInUse
  <2>2. \A a \in Nat : ~(a >= MIN_DEGREE + 1) => a < MIN_DEGREE + 1
    BY TAssumption DEF MIN_DEGREE
  <2>3. /\ Len(node[node[n].child[p]].keys) < MIN_DEGREE + 1
        /\ Len(node[node[n].child[p + 1]].keys) < MIN_DEGREE + 1
    BY <1>1, <2>1, <2>2 DEF Spare, KeyCnt, Child
  <2> QED BY <1>1, <1>2, <2>3 DEF MergedAt, KeyCnt, Child, Goto, Without
<1> QED BY <1>1, <1>4 DEF KeyCnt, Goto

(* So it keeps the invariant. *)
LEMMA removeFromNonLeaf_mergeInv ==
    ASSUME IInv, removeFromNonLeaf_merge
    PROVE  IInv'
BY NonLeafMerges, MergedInv

(* fill() of child p of n, when neither neighbour can lend it a key, merges *)
(* it with one of them.                                                     *)
LEMMA FillMerges ==
    ASSUME IInv, fill_merge
    PROVE  \E p \in 1..(Len(node[n].keys) + 1), q \in 1..Len(node[n].keys) :
              /\ MustDescend(p) /\ p \in {q, q + 1} /\ req' = req
              /\ MergedAt(q)
<1>1. PICK p \in 1..(KeyCnt(n) + 1) :
         /\ MustDescend(p)
         /\ ~Spare(Child(n, p))
         /\ ~CanBorrowPrev(p)
         /\ ~CanBorrowNext(p)
         /\ node' = merge(node, n, MergeAt(p))
         /\ allocated' = Without(Child(n, MergeAt(p) + 1))
         /\ Goto("remove", Child(n, GoOnAt(p)), k)
  BY DEF fill_merge
<1>2. /\ pc = "remove" /\ ~node[n].is_leaf
      /\ root' = root /\ new_root' = new_root /\ hole' = hole /\ found' = found
  BY <1>1 DEF fill_merge, MustDescend
<1>3. n \in allocated /\ Len(node[n].keys) \in Nat /\ Len(node[n].keys) >= 1
  <2>1. n \in allocated /\ Top = root /\ root # NULL
    BY <1>2, Removes DEF Removing
  <2>2. Len(node[n].keys) \in Nat
    BY <2>1, InUse
  <2>3. n = root => Len(node[n].keys) # 0
    BY <1>2, <2>1 DEF IInv, RootHasKeys, Removing
  <2>4. n # root => Len(node[n].keys) >= MIN_DEGREE + 1
    BY <1>2 DEF IInv, AtRemove
  <2> QED BY <2>1, <2>2, <2>3, <2>4, TAssumption DEF MIN_DEGREE
<1>4. PICK q : q = IF p = Len(node[n].keys) + 1 THEN p - 1 ELSE p
  OBVIOUS
<1>5. MergeAt(p) = q /\ GoOnAt(p) = q
  BY <1>4 DEF MergeAt, GoOnAt, KeyCnt
<1>6. q \in 1..Len(node[n].keys)
  BY <1>3, <1>4 DEF KeyCnt
<1>7. MergedAt(q)
  <2>1. /\ Len(node[node[n].child[q]].keys) \in Nat
        /\ Len(node[node[n].child[q + 1]].keys) \in Nat
    <3>1. q \in 1..(Len(node[n].keys) + 1) /\ q + 1 \in 1..(Len(node[n].keys) + 1)
      BY <1>3, <1>6
    <3> QED BY <1>2, <1>3, <3>1, ChildInUse
  <2>2. \A a \in Nat : ~(a >= MIN_DEGREE + 1) => a < MIN_DEGREE + 1
    BY TAssumption DEF MIN_DEGREE
  <2>3. ~Spare(Child(n, q)) /\ ~Spare(Child(n, q + 1))
    <3>1. CASE p = Len(node[n].keys) + 1
      <4>1. q = p - 1 /\ q + 1 = p /\ p # 1
        BY <1>3, <1>4, <3>1
      <4> QED BY <1>1, <4>1 DEF CanBorrowPrev
    <3>2. CASE p # Len(node[n].keys) + 1
      <4>1. q = p
        BY <1>4, <3>2
      <4> QED BY <1>1, <3>2, <4>1 DEF CanBorrowNext, KeyCnt
    <3> QED BY <3>1, <3>2
  <2>4. /\ Len(node[node[n].child[q]].keys) < MIN_DEGREE + 1
        /\ Len(node[node[n].child[q + 1]].keys) < MIN_DEGREE + 1
    BY <2>1, <2>2, <2>3 DEF Spare, KeyCnt, Child
  <2>5. /\ node' = merge(node, n, q)
        /\ allocated' = allocated \ {node[n].child[q + 1]}
        /\ pc' = "remove" /\ n' = node[n].child[q] /\ k' = k
    BY <1>1, <1>5 DEF Child, Goto, Without
  <2> QED BY <1>2, <1>6, <2>4, <2>5 DEF MergedAt
<1>8. p \in {q, q + 1} /\ p \in 1..(Len(node[n].keys) + 1)
  BY <1>3, <1>4 DEF KeyCnt
<1> QED BY <1>1, <1>6, <1>7, <1>8 DEF Goto

(* So fill_merge keeps the invariant. *)
LEMMA fill_mergeInv ==
    ASSUME IInv, fill_merge
    PROVE  IInv'
BY FillMerges, MergedInv

(* The neighbour found at the end of the walk takes the place of the key;  *)
(* remove() goes on in the child the walk began in.                        *)
Replaced(it, from) ==
    /\ pc \in {"getPred", "getSucc"} /\ it \in Item
    /\ from = IF pc = "getPred" THEN hole.idx ELSE hole.idx + 1
    /\ ReplaceBy(it, from)

(* The replacement keeps the invariant: no node changes its number of       *)
(* keys.                                                                    *)
LEMMA ReplacedInv ==
    ASSUME IInv, NEW it, NEW from, Replaced(it, from)
    PROVE  IInv'
<1> DEFINE x == hole.node
           s == node[x].keys
           ks == [s EXCEPT ![hole.idx] = it]
<1>1. /\ pc \in {"getPred", "getSucc"} /\ it \in Item
      /\ pc' = "remove" /\ n' = node[x].child[from] /\ k' = it.key
      /\ allocated' = allocated /\ root' = root
      /\ new_root' = new_root /\ hole' = NoHole /\ found' = found
      /\ node' = [node EXCEPT ![x].keys = ks]
  BY DEF Replaced, ReplaceBy, Goto, Child
<1>2. root \in allocated /\ new_root = NULL /\ Top = root /\ root # NULL
  BY <1>1, Removes DEF Removing
<1>3. PICK ht : Tree(node, allocated, root, ht)
  BY <1>1, Removes DEF Removing
<1>4. /\ x \in allocated /\ ~node[x].is_leaf /\ hole.idx \in 1..Len(s)
      /\ Len(node[node[x].child[from]].keys) >= MIN_DEGREE + 1
  BY <1>1 DEF IInv, AtWalk, Replaced
<1>5. /\ node[x] \in Node /\ s \in Seq(Item) /\ Len(s) \in Nat
      /\ Len(s) <= MAX_DEGREE /\ (x # root => Len(s) >= MIN_DEGREE)
  <2>1. /\ node[x] \in Node /\ Len(s) \in Nat
        /\ Len(s) <= MAX_DEGREE /\ (x # root => Len(s) >= MIN_DEGREE)
    BY <1>2, <1>4, InUse
  <2> QED BY <2>1, NodeFacts
<1>6. ks \in Seq(Item) /\ Len(ks) = Len(s)
  <2>1. s \in Seq(Item) /\ hole.idx \in 1..Len(s)
    BY <1>4, <1>5
  <2> HIDE DEF s
  <2> QED BY <1>1, <2>1, ExceptSeq
<1> HIDE DEF ks
<1>7. KeysOf(node, node', allocated, root, x, ks)
  BY <1>1, <1>4, <1>5, <1>6 DEF KeysOf
<1>8. /\ Tree(node', allocated, root, ht)
      /\ node'[x].keys = ks
      /\ \A c \in Nodes \ {x} : node'[c].keys = node[c].keys
  BY <1>3, <1>7, KeysTree
<1>9. from \in 1..(Len(s) + 1)
  BY <1>4, <1>5 DEF Replaced
<1>10. n' \in allocated /\ n' # root /\ n' # x /\ n' \in Nodes
  <2>1. n' \in allocated /\ n' # root /\ n' # x
    BY <1>1, <1>2, <1>4, <1>9, ChildInUse
  <2> QED BY <2>1, InUse
<1>11. Len(node'[n'].keys) >= MIN_DEGREE + 1
  <2>1. node'[n'].keys = node[n'].keys
    BY <1>8, <1>10
  <2> QED BY <1>1, <1>4, <2>1
<1>12. Top' = root
  BY <1>1, <1>2 DEF Top
<1>13. Shape'
  BY <1>1, <1>2, <1>8, <1>12 DEF Shape
<1>14. TypeOK'
  <2>1. node' \in [Nodes -> Node] /\ k' \in Keys
    BY <1>1, <1>8, TreeFacts DEF Item
  <2> QED BY <1>1, <1>10, <2>1 DEF IInv, TypeOK, Working, NoHole
<1>15. AtFind' /\ AtInsert' /\ AtRemove' /\ AtWalk'
  BY <1>1, <1>2, <1>11 DEF AtFind, AtInsert, AtRemove, AtWalk, Removing
<1>16. RootHasKeys'
  BY <1>1, <1>10 DEF RootHasKeys, Removing
<1> QED BY <1>13, <1>14, <1>15, <1>16 DEF IInv

(* The leaf the walk ends in has a key. *)
LEMMA WalkEnds ==
    ASSUME IInv, pc \in {"getPred", "getSucc"}
    PROVE  /\ Len(node[n].keys) \in Nat /\ Len(node[n].keys) >= 1
           /\ \A j \in 1..Len(node[n].keys) : node[n].keys[j] \in Item
<1>1. n \in allocated /\ Top = root /\ n # root
  BY Removes DEF IInv, AtWalk, Removing
<1>2. node[n] \in Node /\ Len(node[n].keys) \in Nat /\ Len(node[n].keys) >= MIN_DEGREE
  BY <1>1, InUse
<1>3. Len(node[n].keys) >= 1
  <2>1. \A a \in Nat : a >= MIN_DEGREE => a >= 1
    BY TAssumption DEF MIN_DEGREE
  <2> QED BY <1>2, <2>1
<1> QED BY <1>2, <1>3, NodeFacts

(* The predecessor is the last key of the leaf the walk ends in, *)
LEMMA replace_by_predInv ==
    ASSUME IInv, replace_by_pred
    PROVE  IInv'
<1>1. pc = "getPred" /\ ReplaceBy(node[n].keys[Len(node[n].keys)], hole.idx)
  BY DEF replace_by_pred, KeyCnt
<1>2. node[n].keys[Len(node[n].keys)] \in Item
  BY <1>1, WalkEnds
<1>3. Replaced(node[n].keys[Len(node[n].keys)], hole.idx)
  BY <1>1, <1>2 DEF Replaced
<1> QED BY <1>3, ReplacedInv

(* the successor the first one. *)
LEMMA replace_by_succInv ==
    ASSUME IInv, replace_by_succ
    PROVE  IInv'
<1>1. pc = "getSucc" /\ ReplaceBy(node[n].keys[1], hole.idx + 1)
  BY DEF replace_by_succ
<1>2. node[n].keys[1] \in Item
  BY <1>1, WalkEnds
<1>3. Replaced(node[n].keys[1], hole.idx + 1)
  BY <1>1, <1>2 DEF Replaced
<1> QED BY <1>3, ReplacedInv

(* The descent of remove() to a child that can spare a key keeps the        *)
(* invariant.                                                               *)
LEMMA remove_descendInv ==
    ASSUME IInv, remove_descend
    PROVE  IInv'
<1>1. PICK p \in 1..(KeyCnt(n) + 1) :
         /\ MustDescend(p)
         /\ Spare(Child(n, p))
         /\ Goto("remove", Child(n, p), k)
  BY DEF remove_descend
<1>2. /\ pc = "remove" /\ ~node[n].is_leaf
      /\ pc' = "remove" /\ n' = node[n].child[p] /\ k' = k
      /\ node' = node /\ allocated' = allocated /\ root' = root
      /\ new_root' = new_root /\ hole' = hole /\ found' = found
      /\ p \in 1..(Len(node[n].keys) + 1)
      /\ Len(node[node[n].child[p]].keys) >= MIN_DEGREE + 1
  BY <1>1 DEF remove_descend, MustDescend, Spare, Goto, Child, KeyCnt
<1>3. root \in allocated /\ new_root = NULL /\ Top = root /\ root # NULL /\ n \in allocated
  BY <1>2, Removes DEF Removing
<1>4. n' \in allocated /\ n' # root
  BY <1>2, <1>3, ChildInUse
<1>5. TypeOK'
  BY <1>2, <1>4 DEF IInv, TypeOK, Working
<1>6. AtFind' /\ AtInsert' /\ AtRemove' /\ AtWalk'
  BY <1>2, <1>3 DEF AtFind, AtInsert, AtRemove, AtWalk, Removing
<1>7. Top' = Top
  BY <1>2 DEF Top
<1>8. RootHasKeys'
  BY <1>2, <1>4 DEF RootHasKeys, Removing
<1>9. Shape'
  BY <1>2, <1>7, SameTree
<1> QED BY <1>5, <1>6, <1>8, <1>9 DEF IInv

(* A minimal child ch of n has got a key from the child sib beside it. *)
Borrowed(q, ch, sib, d) ==
    /\ pc = "remove" /\ d \in {0, 1}
    /\ BorrowSite(node, allocated, n, ch, sib)
    /\ BorrowOf(node, node', n, q, ch, sib, d)
    /\ pc' = "remove" /\ n' = ch /\ k' = k
    /\ allocated' = allocated /\ root' = root /\ new_root' = new_root
    /\ hole' = hole /\ found' = found

(* A borrow keeps the invariant, and remove() goes on in the child that     *)
(* got a key.                                                               *)
LEMMA BorrowedInv ==
    ASSUME IInv, NEW q, NEW ch, NEW sib, NEW d, Borrowed(q, ch, sib, d)
    PROVE  IInv'
<1>1. /\ pc = "remove" /\ d \in {0, 1}
      /\ BorrowSite(node, allocated, n, ch, sib)
      /\ BorrowOf(node, node', n, q, ch, sib, d)
      /\ pc' = "remove" /\ n' = ch /\ k' = k
      /\ allocated' = allocated /\ root' = root /\ new_root' = new_root
      /\ hole' = hole /\ found' = found
  BY DEF Borrowed
<1>2. root \in allocated /\ new_root = NULL /\ Top = root /\ root # NULL
  BY <1>1, Removes DEF Removing
<1>3. PICK ht : Tree(node, allocated, root, ht)
  BY <1>1, Removes DEF Removing
<1>4. Tree(node', allocated, root, ht)
  BY <1>1, <1>3, BorrowTree
<1>5. /\ ch \in allocated /\ ch # root /\ Len(node[ch].keys) \in Nat
      /\ Len(node[ch].keys) >= MIN_DEGREE
  BY <1>1, <1>3, BorrowSiteFacts
<1>6. Len(node'[ch].keys) >= MIN_DEGREE + 1
  <2>1. Len(node'[ch].keys) = Len(node[ch].keys) + 1
    BY <1>1, Zenon DEF BorrowOf
  <2>2. \A a \in Nat : a >= MIN_DEGREE => a + 1 >= MIN_DEGREE + 1
    BY TAssumption DEF MIN_DEGREE
  <2> QED BY <1>5, <2>1, <2>2
<1>7. Top' = root
  BY <1>1, <1>2 DEF Top
<1>8. Shape'
  BY <1>1, <1>2, <1>4, <1>7 DEF Shape
<1>9. TypeOK'
  <2>1. node' \in [Nodes -> Node]
    BY <1>4, TreeFacts
  <2> QED BY <1>1, <1>5, <2>1 DEF IInv, TypeOK, Working
<1>10. AtFind' /\ AtInsert' /\ AtRemove' /\ AtWalk'
  BY <1>1, <1>2, <1>6 DEF AtFind, AtInsert, AtRemove, AtWalk, Removing
<1>11. RootHasKeys'
  BY <1>1, <1>5 DEF RootHasKeys, Removing
<1> QED BY <1>8, <1>9, <1>10, <1>11 DEF IInv

(* fill() borrows from the previous child if that can spare a key, else     *)
(* from the next.                                                           *)
LEMMA FillBorrows ==
    ASSUME IInv, fill_borrow
    PROVE  \E p \in 1..(Len(node[n].keys) + 1), q \in 1..Len(node[n].keys) : \E sib, d :
              /\ MustDescend(p) /\ req' = req
              /\ \/ d = 1 /\ p = q + 1 /\ sib = node[n].child[q]
                 \/ d = 0 /\ p = q /\ sib = node[n].child[q + 1]
              /\ Borrowed(q, node[n].child[p], sib, d)
<1>1. PICK p \in 1..(KeyCnt(n) + 1) :
         /\ MustDescend(p)
         /\ ~Spare(Child(n, p))
         /\ \/ /\ CanBorrowPrev(p)
               /\ node' = borrowFromPrev(node, n, p)
            \/ /\ ~CanBorrowPrev(p)
               /\ CanBorrowNext(p)
               /\ node' = borrowFromNext(node, n, p)
         /\ Goto("remove", Child(n, p), k)
  BY DEF fill_borrow
<1> DEFINE ch == node[n].child[p]
<1>2. /\ pc = "remove" /\ ~node[n].is_leaf
      /\ pc' = "remove" /\ n' = ch /\ k' = k
      /\ allocated' = allocated /\ root' = root
      /\ new_root' = new_root /\ hole' = hole /\ found' = found
      /\ p \in 1..(Len(node[n].keys) + 1)
  BY <1>1 DEF fill_borrow, MustDescend, Goto, Child, KeyCnt
<1>3. n \in allocated /\ Top = root /\ root # NULL
  BY <1>2, Removes DEF Removing
<1>4. PICK ht : Tree(node, allocated, root, ht)
  BY <1>2, Removes DEF Removing
<1>5. /\ node \in [Nodes -> Node] /\ allocated \subseteq Nodes
      /\ Len(node[n].keys) \in Nat /\ Len(node[n].child) = Len(node[n].keys) + 1
  BY <1>2, <1>3, <1>4, TreeFacts
<1>6. Len(node[ch].keys) < MAX_DEGREE
  <2>1. Len(node[ch].keys) \in Nat
    BY <1>2, <1>3, ChildInUse
  <2>2. \A a \in Nat : ~(a >= MIN_DEGREE + 1) => a < MAX_DEGREE
    BY TAssumption DEF MIN_DEGREE, MAX_DEGREE
  <2> QED BY <1>1, <2>1, <2>2 DEF Spare, KeyCnt, Child
<1> HIDE DEF ch
<1>7. ASSUME NEW q \in 1..Len(node[n].keys), NEW sib,
             BorrowSite(node, allocated, n, ch, sib)
      PROVE  CanBorrow(node, n, q, ch, sib)
  <2>1. /\ n # ch /\ n # sib /\ ch # sib /\ ch \in allocated /\ sib \in allocated
        /\ Len(node[sib].keys) \in Nat /\ Len(node[sib].keys) >= MIN_DEGREE + 1
        /\ node[sib].is_leaf <=> node[ch].is_leaf
        /\ Len(node[ch].child) = IF node[ch].is_leaf THEN 0 ELSE Len(node[ch].keys) + 1
        /\ Len(node[sib].child) = IF node[sib].is_leaf THEN 0 ELSE Len(node[sib].keys) + 1
    BY <1>4, <1>7, BorrowSiteFacts
  <2>2. \A a \in Nat : a >= MIN_DEGREE + 1 => a >= 1
    BY TAssumption DEF MIN_DEGREE
  <2>3. Len(node[sib].keys) >= 1
    BY <2>1, <2>2
  <2>4. n \in Nodes /\ ch \in Nodes /\ sib \in Nodes
    BY <1>3, <1>5, <2>1
  <2> QED BY <1>5, <2>1, <2>3, <2>4, Zenon DEF CanBorrow
<1>8. CASE CanBorrowPrev(p) /\ node' = borrowFromPrev(node, n, p)
  <2>1. PICK q : q = p - 1
    OBVIOUS
  <2>2. PICK sib : sib = node[n].child[q]
    OBVIOUS
  <2>3. /\ q \in 1..Len(node[n].keys) /\ p \in 1..Len(node[n].child)
        /\ q \in 1..Len(node[n].child) /\ p # q
    BY <1>2, <1>5, <1>8, <2>1 DEF CanBorrowPrev
  <2>4. Len(node[sib].keys) >= MIN_DEGREE + 1
    BY <1>8, <2>1, <2>2 DEF CanBorrowPrev, Spare, KeyCnt, Child
  <2>5. BorrowSite(node, allocated, n, ch, sib)
    BY <1>3, <1>6, <2>2, <2>3, <2>4 DEF BorrowSite, ch
  <2>6. CanBorrow(node, n, q, ch, sib)
    BY <1>7, <2>3, <2>5
  <2>7. Prev(node, n, p, q, ch, sib)
    BY <1>2, <2>1, <2>2 DEF Prev, ch
  <2>8. BorrowOf(node, node', n, q, ch, sib, 1)
    BY <1>8, <2>6, <2>7, BorrowPrevEffect
  <2>9. Borrowed(q, ch, sib, 1)
    BY <1>2, <2>5, <2>8 DEF Borrowed
  <2>10. p = q + 1
    BY <1>2, <2>1
  <2> QED BY <1>1, <1>2, <2>2, <2>3, <2>9, <2>10 DEF Goto, ch
<1>9. CASE CanBorrowNext(p) /\ node' = borrowFromNext(node, n, p)
  <2>1. PICK sib : sib = node[n].child[p + 1]
    OBVIOUS
  <2>2. /\ p \in 1..Len(node[n].keys) /\ p \in 1..Len(node[n].child)
        /\ p + 1 \in 1..Len(node[n].child) /\ p # p + 1
    BY <1>2, <1>5, <1>9 DEF CanBorrowNext, KeyCnt
  <2>3. Len(node[sib].keys) >= MIN_DEGREE + 1
    BY <1>9, <2>1 DEF CanBorrowNext, Spare, KeyCnt, Child
  <2>4. BorrowSite(node, allocated, n, ch, sib)
    BY <1>3, <1>6, <2>1, <2>2, <2>3 DEF BorrowSite, ch
  <2>5. CanBorrow(node, n, p, ch, sib)
    BY <1>7, <2>2, <2>4
  <2>6. NextTo(node, n, p, p, ch, sib)
    BY <1>2, <2>1 DEF NextTo, ch
  <2>7. BorrowOf(node, node', n, p, ch, sib, 0)
    BY <1>9, <2>5, <2>6, BorrowNextEffect
  <2>8. Borrowed(p, ch, sib, 0)
    BY <1>2, <2>4, <2>7 DEF Borrowed
  <2> QED BY <1>1, <1>2, <2>1, <2>2, <2>8 DEF Goto, ch
<1> QED BY <1>1, <1>8, <1>9

(* So it keeps the invariant. *)
LEMMA fill_borrowInv ==
    ASSUME IInv, fill_borrow
    PROVE  IInv'
BY FillBorrows, BorrowedInv

(* remove_1d ends with a root that has keys, *)
LEMMA remove_doneInv ==
    ASSUME IInv, remove_done
    PROVE  IInv'
<1>1. /\ pc = "shrink" /\ Len(node[root].keys) > 0
      /\ pc' = "idle" /\ n' = NULL /\ k' = NULL /\ new_root' = NULL /\ hole' = NoHole
      /\ node' = node /\ allocated' = allocated /\ root' = root /\ found' = found
  BY DEF remove_done, Done, KeyCnt
<1>2. new_root = NULL /\ Top = root
  BY <1>1, Removes
<1>3. Top' = Top
  BY <1>1, <1>2 DEF Top
<1>4. TypeOK'
  BY <1>1 DEF IInv, TypeOK, Working, NoHole
<1>5. AtFind' /\ AtInsert' /\ AtRemove' /\ AtWalk'
  BY <1>1 DEF AtFind, AtInsert, AtRemove, AtWalk, Removing
<1>6. RootHasKeys'
  BY <1>1, <1>2, <1>3 DEF RootHasKeys
<1>7. Shape'
  BY <1>1, <1>3, SameTree
<1> QED BY <1>4, <1>5, <1>6, <1>7 DEF IInv

(* with an empty tree when the last key of a leaf that is the root was      *)
(* removed,                                                                 *)
LEMMA shrink_to_emptyInv ==
    ASSUME IInv, shrink_to_empty
    PROVE  IInv'
<1>1. /\ pc = "shrink" /\ node[root].is_leaf
      /\ pc' = "idle" /\ n' = NULL /\ k' = NULL /\ new_root' = NULL /\ hole' = NoHole
      /\ node' = [node EXCEPT ![root] = NewNode] /\ allocated' = allocated \ {root}
      /\ root' = NULL /\ found' = found
  BY DEF shrink_to_empty, Done, Without
<1>2. PICK ht : Tree(node, allocated, root, ht)
  BY <1>1, Removes
<1>3. allocated' = {}
  BY <1>1, <1>2, LoneLeaf
<1>4. Top' = NULL
  BY <1>1 DEF Top
<1>5. TypeOK'
  <2>1. NewNode \in Node
    BY EmptySeq DEF NewNode, Node
  <2>2. node' \in [Nodes -> Node]
    BY <1>1, <2>1 DEF IInv, TypeOK
  <2> QED BY <1>1, <1>3, <2>2 DEF IInv, TypeOK, Working, NoHole
<1>6. AtFind' /\ AtInsert' /\ AtRemove' /\ AtWalk'
  BY <1>1 DEF AtFind, AtInsert, AtRemove, AtWalk, Removing
<1>7. RootHasKeys' /\ Shape'
  BY <1>3, <1>4 DEF RootHasKeys, Shape
<1> QED BY <1>5, <1>6, <1>7 DEF IInv

(* or with the only child of a root without keys as the new root. *)
LEMMA shrink_to_childInv ==
    ASSUME IInv, shrink_to_child
    PROVE  IInv'
<1> DEFINE c == node[root].child[1]
<1>1. /\ pc = "shrink" /\ ~node[root].is_leaf /\ Len(node[root].keys) = 0
      /\ pc' = "idle" /\ n' = NULL /\ k' = NULL /\ new_root' = NULL /\ hole' = NoHole
      /\ node' = [node EXCEPT ![root] = NewNode, ![c].parent = NULL]
      /\ allocated' = allocated \ {root}
      /\ root' = c /\ found' = found
  BY DEF shrink_to_child, Done, Without, Child, KeyCnt
<1>2. Top = root /\ root # NULL
  BY <1>1, Removes
<1>3. PICK ht : Tree(node, allocated, root, ht)
  BY <1>1, Removes
<1>4. ShrunkOf(node, node', root, c)
  BY <1>1 DEF ShrunkOf
<1> HIDE DEF c
<1>5. /\ c \in allocated /\ c # root
      /\ Tree(node', allocated \ {root}, c, ht)
      /\ node'[c].keys = node[c].keys
  BY <1>3, <1>4, ShrinkTree
<1>6. c # NULL /\ Top' = c
  BY <1>1, <1>5, InUse DEF Top
<1>7. Len(node'[c].keys) # 0
  <2>1. Len(node[c].keys) \in Nat /\ Len(node[c].keys) >= MIN_DEGREE
    BY <1>2, <1>5, InUse
  <2>2. \A a \in Nat : a >= MIN_DEGREE => a # 0
    BY TAssumption DEF MIN_DEGREE
  <2> QED BY <1>5, <2>1, <2>2
<1>8. TypeOK'
  <2>1. node' \in [Nodes -> Node] /\ allocated' \subseteq Nodes
    BY <1>1, <1>5, TreeFacts
  <2> QED BY <1>1, <1>5, <2>1 DEF IInv, TypeOK, Working, NoHole
<1>9. AtFind' /\ AtInsert' /\ AtRemove' /\ AtWalk'
  BY <1>1 DEF AtFind, AtInsert, AtRemove, AtWalk, Removing
<1>10. RootHasKeys'
  BY <1>6, <1>7 DEF RootHasKeys
<1>11. Shape'
  BY <1>1, <1>5, <1>6 DEF Shape
<1> QED BY <1>8, <1>9, <1>10, <1>11 DEF IInv

(* destroy_node reaches every node in use, and gives them all back. *)
LEMMA destroyInv ==
    ASSUME IInv, destroy
    PROVE  IInv'
<1>1. /\ pc = "idle" /\ root # NULL /\ pc' = pc /\ n' = n /\ k' = k
      /\ new_root' = new_root /\ hole' = hole /\ found' = found /\ root' = NULL
      /\ node' = [x \in Nodes |-> IF x \in Reachable THEN NewNode ELSE node[x]]
      /\ allocated' = allocated \ Reachable
  BY DEF destroy
<1>2. new_root = NULL /\ Top = root
  BY <1>1 DEF IInv, AtInsert, Top
<1>3. PICK ht : Tree(node, allocated, root, ht)
  BY <1>1, <1>2 DEF IInv, Shape
<1>4. allocated = Reachable
  BY <1>3, AllReached
<1>5. allocated' = {} /\ Top' = NULL
  BY <1>1, <1>2, <1>4 DEF Top
<1>6. TypeOK'
  <2>1. NewNode \in Node
    BY EmptySeq DEF NewNode, Node
  <2>2. node' \in [Nodes -> Node]
    BY <1>1, <2>1 DEF IInv, TypeOK
  <2> QED BY <1>1, <1>2, <1>5, <2>2 DEF IInv, TypeOK, Working
<1>7. AtFind' /\ AtInsert' /\ AtRemove' /\ AtWalk'
  BY <1>1, <1>2 DEF AtFind, AtInsert, AtRemove, AtWalk, Removing
<1>8. RootHasKeys' /\ Shape'
  BY <1>5 DEF RootHasKeys, Shape
<1> QED BY <1>6, <1>7, <1>8 DEF IInv

(* An empty tree has no nodes on any level. *)
LEMMA EmptyLevels ==
    ASSUME root = NULL
    PROVE  \A d \in Nat : Level[d] = {}
<1> DEFINE f == [d \in Nat |-> {}]
<1>1. f = [d \in Nat |-> IF d = 0 THEN {root} \ {NULL}
                         ELSE UNION {ToSet(node[x].child) : x \in f[d - 1]}]
  <2>1. \A d \in Nat : (IF d = 0 THEN {root} \ {NULL}
                         ELSE UNION {ToSet(node[x].child) : x \in f[d - 1]}) = {}
    <3> SUFFICES ASSUME NEW d \in Nat
                 PROVE (IF d = 0 THEN {root} \ {NULL}
                         ELSE UNION {ToSet(node[x].child) : x \in f[d - 1]}) = {}
      OBVIOUS
    <3>1. CASE d = 0
      BY <3>1
    <3>2. CASE d # 0
      <4>1. d - 1 \in Nat
        BY <3>2
      <4>2. f[d - 1] = {}
        BY <4>1
      <4> HIDE DEF f
      <4> QED BY <3>2, <4>2
    <3> QED BY <3>1, <3>2
  <2> QED BY <2>1
<1>2. Level = [d \in Nat |-> IF d = 0 THEN {root} \ {NULL}
                  ELSE UNION {ToSet(node[x].child) : x \in Level[d - 1]}]
  <2> HIDE DEF f
  <2> QED BY <1>1, LevelEquation
<1>3. /\ Level[0] = {}
      /\ \A d \in Nat : d # 0 =>
            Level[d] = UNION {ToSet(node[x].child) : x \in Level[d - 1]}
  BY <1>2
<1> DEFINE S == {d \in Nat : Level[d] # {}}
<1>4. SUFFICES ASSUME S # {} PROVE FALSE
  OBVIOUS
<1>5. PICK d \in S : \A e \in S : d <= e
  BY <1>4, LeastNatural
<1>6. d \in Nat /\ d # 0 /\ Level[d] # {}
  BY <1>3, <1>5
<1>7. d - 1 \in Nat /\ d - 1 \notin S
  BY <1>5, <1>6
<1>8. Level[d - 1] = {}
  BY <1>7
<1>9. Level[d] = {}
  BY <1>3, <1>6, <1>8
<1> QED BY <1>6, <1>9

(* Every step of every operation keeps the invariant. *)
LEMMA Inductive == IInv /\ [Next]_vars => IInv'
<1> SUFFICES ASSUME IInv, [Next]_vars PROVE IInv'
  OBVIOUS
<1>1. ASSUME NEW key \in Keys, Begin("search", key, NULL) \/ Begin("remove", key, NULL)
      PROVE  IInv'
  BY <1>1, BeginInv
<1>2. ASSUME NEW key \in Keys, NEW val \in Vals, Begin("insert", key, val)
      PROVE  IInv'
  BY <1>2, BeginInv
<1>3. CASE find_descend \/ find_hit \/ find_miss
  BY <1>3, find_descendInv, find_hitInv, find_missInv
<1>4. CASE insert_first \/ insert_at_root \/ insert_grow
  BY <1>4, insert_firstInv, insert_at_rootInv, insert_growInv
<1>5. CASE insert_in_leaf \/ insert_descend \/ insert_split \/ bad_alloc
  BY <1>5, insert_in_leafInv, insert_descendInv, insert_splitInv, bad_allocInv
<1>6. CASE removeFromLeaf \/ removeFromNonLeaf_walk \/ removeFromNonLeaf_merge
  BY <1>6, removeFromLeafInv, removeFromNonLeaf_walkInv, removeFromNonLeaf_mergeInv
<1>7. CASE walk \/ replace_by_pred \/ replace_by_succ
  BY <1>7, walkInv, replace_by_predInv, replace_by_succInv
<1>8. CASE remove_descend \/ fill_borrow \/ fill_merge
  BY <1>8, remove_descendInv, fill_borrowInv, fill_mergeInv
<1>9. CASE remove_done \/ shrink_to_empty \/ shrink_to_child
  BY <1>9, remove_doneInv, shrink_to_emptyInv, shrink_to_childInv
<1>10. CASE destroy
  BY <1>10, destroyInv
<1>11. CASE terminated \/ UNCHANGED vars
  <2>1. /\ node' = node /\ allocated' = allocated /\ root' = root /\ pc' = pc
        /\ req' = req /\ n' = n /\ k' = k /\ new_root' = new_root
        /\ hole' = hole /\ found' = found
    BY <1>11 DEF terminated, vars
  <2>2. Top' = Top
    BY <2>1 DEF Top
  <2>3. TypeOK' /\ AtFind' /\ AtInsert' /\ AtRemove' /\ AtWalk'
    BY <2>1 DEF IInv, TypeOK, AtFind, AtInsert, AtRemove, AtWalk
  <2>4. RootHasKeys'
    BY <2>1, <2>2 DEF IInv, RootHasKeys
  <2>5. Shape'
    BY <2>1, <2>2, SameTree
  <2> QED BY <2>3, <2>4, <2>5 DEF IInv
<1> QED
  BY <1>1, <1>2, <1>3, <1>4, <1>5, <1>6, <1>7, <1>8, <1>9, <1>10, <1>11
  DEF Next, Step

(* The invariant holds in every state of the layer, for every T, every set  *)
(* of keys and values, and every finite pool.                               *)
THEOREM Invariance == Spec => []IInv
BY InitInv, Inductive, PTL DEF Spec

(* Every variable has its type, and the functions that take a Node& are     *)
(* called on nodes in use (TypeOK).                                         *)
THEOREM TypeCorrect == Spec => []TypeOK
<1>1. IInv => TypeOK
  BY DEF IInv
<1> QED BY <1>1, Invariance, PTL

(* The invariant gives the bounds of every node, *)
LEMMA BoundsHold == IInv => NodeBounds
<1> SUFFICES ASSUME IInv, NEW x \in allocated
             PROVE  /\ Len(node[x].keys) <= MAX_DEGREE
                    /\ x # Top => Len(node[x].keys) >= MIN_DEGREE
                    /\ Len(node[x].child) =
                          IF node[x].is_leaf THEN 0 ELSE Len(node[x].keys) + 1
  BY DEF NodeBounds, KeyCnt
<1>1. Top # NULL
  BY InUse
<1>2. PICK ht : Tree(node, allocated, Top, ht)
  BY <1>1 DEF IInv, Shape
<1> QED BY <1>2, TreeFacts

(* At every step of insert and remove a node has as many keys as a B-tree   *)
(* of parameter T allows and one child more than it has keys: what          *)
(* set_key_cnt and split_child assert.                                      *)
THEOREM KeysWithinBounds == Spec => []NodeBounds
BY Invariance, BoundsHold, PTL

(* its links, *)
LEMMA LinksHold == IInv => ParentLinks
<1> SUFFICES ASSUME IInv, NEW x \in allocated
             PROVE  /\ \A j \in 1..Len(node[x].child) :
                          /\ node[x].child[j] \in allocated
                          /\ node[node[x].child[j]].parent = x
                          /\ \A i \in 1..(j - 1) : node[x].child[i] # node[x].child[j]
                    /\ IF x = Top THEN node[x].parent = NULL
                       ELSE /\ node[x].parent \in allocated
                            /\ x \in ToSet(node[node[x].parent].child)
  BY DEF ParentLinks, Child
<1>1. Top # NULL
  BY InUse
<1>2. PICK ht : Tree(node, allocated, Top, ht)
  BY <1>1 DEF IInv, Shape
<1>3. \A j \in 1..Len(node[x].child) :
         /\ node[x].child[j] \in allocated
         /\ node[node[x].child[j]].parent = x
         /\ \A i \in 1..(j - 1) : node[x].child[i] # node[x].child[j]
  BY <1>2 DEF Tree, Owned
<1>4. CASE x = Top
  BY <1>2, <1>3, <1>4, TreeParent
<1>5. CASE x # Top
  <2> DEFINE y == node[x].parent
  <2>1. y \in allocated /\ \E j \in 1..Len(node[y].child) : node[y].child[j] = x
    BY <1>2, <1>5, TreeParent
  <2>2. node[y].child \in Seq(Nodes)
    BY <2>1, InUse, NodeFacts
  <2>3. x \in ToSet(node[y].child)
    BY <2>1, <2>2, ToSetOfSeq
  <2> QED BY <1>3, <1>5, <2>1, <2>3
<1> QED BY <1>4, <1>5

(* At every step the parent pointers, the child arrays and the pool agree:  *)
(* what integrity_check asserts.                                            *)
THEOREM LinksConsistent == Spec => []ParentLinks
BY Invariance, LinksHold, PTL

(* and, between operations, that the pool and the tree agree. *)
LEMMA NoLeakHolds == IInv => NoLeakBalanced
<1> SUFFICES ASSUME IInv, pc = "idle"
             PROVE  /\ allocated = Reachable
                    /\ \A d \in 0..Cardinality(Nodes) :
                          \A x, y \in Level[d] : node[x].is_leaf = node[y].is_leaf
  BY DEF NoLeakBalanced
<1>1. Top = root
  BY DEF IInv, AtInsert, Top
<1>2. CASE root = NULL
  <2>1. \A d \in Nat : Level[d] = {}
    BY <1>2, EmptyLevels
  <2>2. Cardinality(Nodes) \in Nat
    BY NodesAssumption, FS_CardinalityType
  <2>3. \A d \in 0..Cardinality(Nodes) : Level[d] = {}
    BY <2>1, <2>2
  <2>4. allocated = {}
    BY <1>1, <1>2 DEF IInv, Shape
  <2>5. Reachable = {}
    BY <2>3 DEF Reachable
  <2> QED BY <2>3, <2>4, <2>5
<1>3. CASE root # NULL
  <2>1. PICK ht : Tree(node, allocated, root, ht)
    BY <1>1, <1>3 DEF IInv, Shape
  <2> QED BY <2>1, AllReached
<1> QED BY <1>2, <1>3

(* Between operations every node taken from the pool is reached from the    *)
(* root, and all leaves are equally deep; destroy gives every node back.    *)
THEOREM NoLeak == Spec => []NoLeakBalanced
BY Invariance, NoLeakHolds, PTL
=============================================================================

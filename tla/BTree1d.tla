------------------------------ MODULE BTree1d -------------------------------
(***************************************************************************)
(* One layer of the tree: the B-tree over the keys of a single dimension   *)
(* (b_tree_insert.h, b_tree_remove.h, b_tree_search.h,                     *)
(* b_tree_key_iterator.h), with its nodes in a heap, parent pointers       *)
(* included.                                                               *)
(*                                                                         *)
(* A key stands for a range: the ranges of a layer are disjoint, so that   *)
(* comparing them by their low end (range.h) is comparing integers.  What  *)
(* travels with a key (the rule value and the index of the next layer) is  *)
(* one value.  The arrays of a node are sequences of their live elements,  *)
(* indexed from 1.  Nodes come from a pool that behaves like NodePool.     *)
(*                                                                         *)
(* The recursion of the code is a descent: each recursive call becomes a   *)
(* step with the node it is called on in n, and each walk to the leftmost  *)
(* or rightmost leaf one step a node.  Nobody catches the bad_alloc of an  *)
(* exhausted pool, so it ends the program.                                 *)
(***************************************************************************)
EXTENDS Integers, Sequences, FiniteSets, FiniteSetsExt, SequencesExt

CONSTANTS
    T,          \* the parameter of the B-tree
    Keys,       \* the keys of this layer
    Vals,       \* what may be stored with a key
    Nodes,      \* ids of the nodes of the pool
    NULL        \* nullptr, INVALID_INDEX, the invalid rule value

ASSUME TAssumption == T \in Nat /\ T >= 2
ASSUME KeysAssumption == Keys \subseteq Int
ASSUME NodesAssumption == Nodes \subseteq Int /\ IsFiniteSet(Nodes)
ASSUME NullAssumption == NULL \notin Int /\ NULL \notin Vals

MIN_DEGREE == T - 1
MAX_DEGREE == 2 * T - 1

VARIABLES
    node,       \* the nodes of the pool
    allocated,  \* ids of the nodes in use
    root,       \* the root of the tree, NULL when it is empty
    pc,         \* what the current operation is doing
    req,        \* the current operation: [op, key, val]
    n,          \* the node the current function is called on
    k,          \* the key it looks for: remove() goes on with another one
    new_root,   \* the root insert() will store in the tree when it is done
    hole,       \* the key removeFromNonLeaf() replaces: [node, idx]
    found       \* the answer to a search, until the next operation begins

vars == <<node, allocated, root, pc, req, n, k, new_root, hole, found>>

Item == [key : Keys, val : Vals]
Node == [keys : Seq(Item), child : Seq(Nodes), is_leaf : BOOLEAN,
         parent : Nodes \union {NULL}]

(* A node as its constructor leaves it. *)
NewNode == [keys |-> <<>>, child |-> <<>>, is_leaf |-> TRUE, parent |-> NULL]

NoRequest == [op |-> "none", key |-> NULL, val |-> NULL]
NoHole == [node |-> NULL, idx |-> 0]

Init ==
    /\ node = [x \in Nodes |-> NewNode]
    /\ allocated = {}
    /\ root = NULL
    /\ pc = "idle"
    /\ req = NoRequest
    /\ n = NULL
    /\ k = NULL
    /\ new_root = NULL
    /\ hole = NoHole
    /\ found = NULL

-----------------------------------------------------------------------------
(* Children i to j of a node, none if the node is a leaf (if (!is_leaf)). *)
Kids(x, i, j) == IF x.is_leaf THEN <<>> ELSE SubSeq(x.child, i, j)

(* The loops over the keys of a node stop at p, the first key that is not  *)
(* smaller than key.  (search_seq and findKey; the loops of                *)
(* insert_non_full come from the other end, which is the same in a sorted  *)
(* node that does not hold the key.)                                       *)
StopsAt(x, key, p) ==
    /\ p \in 1..(Len(node[x].keys) + 1)
    /\ \A j \in 1..(p - 1) : node[x].keys[j].key < key
    /\ p <= Len(node[x].keys) => node[x].keys[p].key >= key

Holds(x, key, p) == p <= Len(node[x].keys) /\ node[x].keys[p].key = key
KeyCnt(x) == Len(node[x].keys)
Child(x, p) == node[x].child[p]

(* The node get() hands out next.  Ids are opaque: one choice stands for   *)
(* all.                                                                    *)
Fresh(z, used) ==
    /\ z \in Nodes \ used
    /\ \A y \in Nodes \ used : z <= y

(* The operation is over. *)
Done ==
    /\ pc' = "idle"
    /\ req' = NoRequest
    /\ n' = NULL
    /\ k' = NULL
    /\ new_root' = NULL
    /\ hole' = NoHole

(* The nodes in use after x is given back to the pool. *)
Without_forgotten(x) == allocated
Without(x) == allocated \ {x}

(* It continues as pc = where on node x, looking for key. *)
Goto(where, x, key) ==
    /\ pc' = where
    /\ n' = x
    /\ k' = key
    /\ UNCHANGED req

-----------------------------------------------------------------------------
(* A search, an insert or a remove begins with the search for its key. *)
Begin(op, key, val) ==
    /\ pc = "idle"
    /\ pc' = "find"
    /\ req' = [op |-> op, key |-> key, val |-> val]
    /\ n' = root
    /\ k' = key
    /\ found' = NULL
    /\ UNCHANGED <<node, allocated, root, new_root, hole>>

(* search_possition_1d: the key is not in this node, go on in a child. *)
find_descend_stays ==
    /\ pc = "find"
    /\ n # NULL
    /\ ~node[n].is_leaf
    /\ \E p \in 1..(KeyCnt(n) + 1) :
          /\ StopsAt(n, k, p)
          /\ ~Holds(n, k, p)
          /\ Goto("find", n, k)
    /\ UNCHANGED <<node, allocated, root, new_root, hole, found>>
find_descend ==
    /\ pc = "find"
    /\ n # NULL
    /\ ~node[n].is_leaf
    /\ \E p \in 1..(KeyCnt(n) + 1) :
          /\ StopsAt(n, k, p)
          /\ ~Holds(n, k, p)
          /\ Goto("find", Child(n, p), k)
    /\ UNCHANGED <<node, allocated, root, new_root, hole, found>>

(* The last lines of insert(root): only the value of the key is set. *)
overwrite_nothing(x, p, v) == node
overwrite(x, p, v) == [node EXCEPT ![x].keys[p].val = v]

(* The key is in this node: the search is answered, insert() overwrites    *)
(* what is stored with the key, remove() calls remove_1d.                  *)
find_hit ==
    /\ pc = "find"
    /\ n # NULL
    /\ \E p \in 1..KeyCnt(n) :
          /\ StopsAt(n, k, p)
          /\ Holds(n, k, p)
          /\ \/ /\ req.op = "search"
                /\ found' = node[n].keys[p].val
                /\ Done
                /\ UNCHANGED node
             \/ /\ req.op = "insert"
                /\ node' = overwrite(n, p, req.val)
                /\ Done
                /\ UNCHANGED found
             \/ /\ req.op = "remove"
                /\ Goto("remove", root, k)
                /\ UNCHANGED <<node, new_root, hole, found>>
    /\ UNCHANGED <<allocated, root>>

(* The key is not in the tree. *)
find_miss ==
    /\ pc = "find"
    /\ n # NULL =>
          /\ node[n].is_leaf
          /\ \E p \in 1..(KeyCnt(n) + 1) : StopsAt(n, k, p) /\ ~Holds(n, k, p)
    /\ \/ /\ req.op = "search"
          /\ found' = NULL
          /\ Done
       \/ /\ req.op = "remove"
          /\ Done
          /\ UNCHANGED found
       \/ /\ req.op = "insert"
          /\ Goto("insert_to_root", root, k)
          /\ UNCHANGED <<new_root, hole, found>>
    /\ UNCHANGED <<node, allocated, root>>

-----------------------------------------------------------------------------
(* The key to insert with the rule it belongs to. *)
NewItem_no_value == [key |-> k, val |-> NULL]
NewItem == [key |-> k, val |-> req.val]

(* insert_to_root of an empty tree: insert_in_to_new_node. *)
insert_first ==
    /\ pc = "insert_to_root"
    /\ root = NULL
    /\ \E z \in Nodes :
          /\ Fresh(z, allocated)
          /\ node' = [node EXCEPT ![z] = [NewNode EXCEPT
                        !.keys = <<NewItem>>]]
          /\ allocated' = allocated \union {z}
          /\ root' = z
    /\ Done
    /\ UNCHANGED found

(* insert_to_root of a root with room for a key. *)
insert_at_root ==
    /\ pc = "insert_to_root"
    /\ root # NULL
    /\ KeyCnt(root) < MAX_DEGREE
    /\ Goto("insert_non_full", root, k)
    /\ new_root' = root
    /\ UNCHANGED <<node, allocated, root, hole, found>>

(* set_child: node c of the heap h when x becomes the parent of moved. *)
set_child_index_only(h, c, x, moved) == h[c]
set_child(h, c, x, moved) ==
    IF c \in ToSet(moved) THEN [h[c] EXCEPT !.parent = x] ELSE h[c]

(* The keys that stay in a node that is split. *)
LowerKeys_and_middle(x) == SubSeq(x.keys, 1, MIN_DEGREE + 1)
LowerKeys(x) == SubSeq(x.keys, 1, MIN_DEGREE)

(* Which of the two halves y and z of a node takes the new key. *)
HalfFor_left(y, z) == y
HalfFor(y, z) == IF node[y].keys[T].key < k THEN z ELSE y

(* split_child(x, p, y): z takes the upper keys and children of the full   *)
(* node y, its middle key moves up to position p of x.  h is the heap.     *)
split_child(h, x, p, y, z) ==
    LET moved == Kids(h[y], T + 1, MAX_DEGREE + 1)
    IN  [c \in Nodes |->
           CASE c = x -> [h[x] EXCEPT !.keys  = InsertAt(@, p, h[y].keys[T]),
                                      !.child = InsertAt(@, p + 1, z)]
             [] c = y -> [h[y] EXCEPT !.keys  = LowerKeys(h[y]),
                                      !.child = Kids(h[y], 1, MIN_DEGREE + 1)]
             [] c = z -> [keys    |-> SubSeq(h[y].keys, T + 1, MAX_DEGREE),
                          child   |-> moved,
                          is_leaf |-> h[y].is_leaf,
                          parent  |-> x]
             [] OTHER -> set_child(h, c, z, moved)]

(* insert_to_root of a full root: the tree grows in height.  The tree      *)
(* keeps its old root until insert() stores the new one.                   *)
insert_grow ==
    /\ pc = "insert_to_root"
    /\ root # NULL
    /\ KeyCnt(root) = MAX_DEGREE
    /\ \E s \in Nodes, z \in Nodes :
          /\ Fresh(s, allocated)
          /\ Fresh(z, allocated \union {s})
          /\ LET h == [node EXCEPT ![s] = [NewNode EXCEPT !.is_leaf = FALSE,
                                                          !.child = <<root>>],
                                   ![root].parent = s]
             IN  node' = split_child(h, s, 1, root, z)
          /\ allocated' = allocated \union {s, z}
          /\ new_root' = s
          /\ Goto("insert_non_full", HalfFor(root, z), k)
    /\ UNCHANGED <<root, hole, found>>

(* insert_non_full in a leaf: the key is stored and insert() is over. *)
insert_in_leaf ==
    /\ pc = "insert_non_full"
    /\ node[n].is_leaf
    /\ \E p \in 1..(KeyCnt(n) + 1) :
          /\ StopsAt(n, k, p)
          /\ node' = [node EXCEPT ![n].keys = InsertAt(@, p, NewItem)]
    /\ root' = new_root
    /\ Done
    /\ UNCHANGED <<allocated, found>>

(* insert_non_full in an inner node: a full child is split first. *)
insert_descend ==
    /\ pc = "insert_non_full"
    /\ ~node[n].is_leaf
    /\ \E p \in 1..(KeyCnt(n) + 1) :
          /\ StopsAt(n, k, p)
          /\ KeyCnt(Child(n, p)) < MAX_DEGREE
          /\ Goto("insert_non_full", Child(n, p), k)
    /\ UNCHANGED <<node, allocated, root, new_root, hole, found>>

insert_split ==
    /\ pc = "insert_non_full"
    /\ ~node[n].is_leaf
    /\ \E p \in 1..(KeyCnt(n) + 1), z \in Nodes :
          /\ StopsAt(n, k, p)
          /\ KeyCnt(Child(n, p)) = MAX_DEGREE
          /\ Fresh(z, allocated)
          /\ node' = split_child(node, n, p, Child(n, p), z)
          /\ allocated' = allocated \union {z}
          /\ Goto("insert_non_full", HalfFor(Child(n, p), z), k)
    /\ UNCHANGED <<root, new_root, hole, found>>

(* The nodes the current call is about to take: one for                    *)
(* insert_in_to_new_node and for split_child, two when the tree grows.     *)
Needed ==
    CASE pc = "insert_to_root" /\ root = NULL -> 1
      [] pc = "insert_to_root" /\ root # NULL ->
            IF KeyCnt(root) = MAX_DEGREE THEN 2 ELSE 0
      [] pc = "insert_non_full" ->
            IF \E p \in 1..Len(node[n].child) :
                  StopsAt(n, k, p) /\ KeyCnt(Child(n, p)) = MAX_DEGREE
            THEN 1 ELSE 0
      [] OTHER -> 0

(* The pool cannot give them: std::bad_alloc, which nobody catches.  Where *)
(* the program was when it ended is kept, what it had begun to link is not.*)
bad_alloc ==
    /\ Needed > Cardinality(Nodes \ allocated)
    /\ pc' = "bad_alloc"
    /\ UNCHANGED <<node, allocated, root, req, n, k, new_root, hole, found>>

terminated ==
    /\ pc = "bad_alloc"
    /\ UNCHANGED vars

-----------------------------------------------------------------------------
(* merge(x, p): child p of x takes key p of x and everything of the next   *)
(* child, which is given back to the pool.                                 *)
merge(h, x, p) ==
    LET ch  == h[x].child[p]
        sib == h[x].child[p + 1]
    IN  [c \in Nodes |->
           CASE c = x   -> [h[x] EXCEPT !.keys = RemoveAt(@, p),
                                        !.child = RemoveAt(@, p + 1)]
             [] c = ch  -> [h[ch] EXCEPT
                              !.keys = @ \o <<h[x].keys[p]>> \o h[sib].keys,
                              !.child = @ \o h[sib].child]
             [] c = sib -> NewNode
             [] OTHER   -> set_child(h, c, ch, h[sib].child)]

(* borrowFromPrev(x, p): child p gets key p - 1 of x as its first key, x   *)
(* the last key of child p - 1, whose last child moves along.              *)
borrowFromPrev(h, x, p) ==
    LET ch   == h[x].child[p]
        sib  == h[x].child[p - 1]
        last == Len(h[sib].keys)
        moved == Kids(h[sib], last + 1, last + 1)
    IN  [c \in Nodes |->
           CASE c = x   -> [h[x] EXCEPT !.keys[p - 1] = h[sib].keys[last]]
             [] c = ch  -> [h[ch] EXCEPT !.keys = <<h[x].keys[p - 1]>> \o @,
                                         !.child = moved \o @]
             [] c = sib -> [h[sib] EXCEPT !.keys = SubSeq(@, 1, last - 1),
                                          !.child = Kids(h[sib], 1, last)]
             [] OTHER   -> set_child(h, c, ch, moved)]

(* borrowFromNext(x, p): the same with child p + 1 and its first key. *)
borrowFromNext(h, x, p) ==
    LET ch  == h[x].child[p]
        sib == h[x].child[p + 1]
        moved == Kids(h[sib], 1, 1)
    IN  [c \in Nodes |->
           CASE c = x   -> [h[x] EXCEPT !.keys[p] = h[sib].keys[1]]
             [] c = ch  -> [h[ch] EXCEPT !.keys = Append(@, h[x].keys[p]),
                                         !.child = @ \o moved]
             [] c = sib -> [h[sib] EXCEPT
                              !.keys = SubSeq(@, 2, Len(@)),
                              !.child = Kids(h[sib], 2, Len(@))]
             [] OTHER   -> set_child(h, c, ch, moved)]

(* remove() at node n.  The key is in this leaf. *)
removeFromLeaf ==
    /\ pc = "remove"
    /\ node[n].is_leaf
    /\ \E p \in 1..KeyCnt(n) :
          /\ StopsAt(n, k, p)
          /\ Holds(n, k, p)
          /\ node' = [node EXCEPT ![n].keys = RemoveAt(@, p)]
    /\ Goto("shrink", root, k)
    /\ UNCHANGED <<allocated, root, new_root, hole, found>>

(* removeFromNonLeaf: the key will be replaced by its predecessor or its   *)
(* successor if the child beside it can spare a key ...                    *)
Spare_one_less(x) == KeyCnt(x) >= MIN_DEGREE
Spare(x) == KeyCnt(x) >= MIN_DEGREE + 1

removeFromNonLeaf_walk ==
    /\ pc = "remove"
    /\ ~node[n].is_leaf
    /\ \E p \in 1..KeyCnt(n) :
          /\ StopsAt(n, k, p)
          /\ Holds(n, k, p)
          /\ hole' = [node |-> n, idx |-> p]
          /\ \/ /\ Spare(Child(n, p))
                /\ Goto("getPred", Child(n, p), k)
             \/ /\ ~Spare(Child(n, p))
                /\ Spare(Child(n, p + 1))
                /\ Goto("getSucc", Child(n, p + 1), k)
    /\ UNCHANGED <<node, allocated, root, new_root, found>>

(* ... and otherwise the two children are merged around it. *)
removeFromNonLeaf_merge ==
    /\ pc = "remove"
    /\ ~node[n].is_leaf
    /\ \E p \in 1..KeyCnt(n) :
          /\ StopsAt(n, k, p)
          /\ Holds(n, k, p)
          /\ ~Spare(Child(n, p))
          /\ ~Spare(Child(n, p + 1))
          /\ node' = merge(node, n, p)
          /\ allocated' = Without(Child(n, p + 1))
          /\ Goto("remove", Child(n, p), k)
    /\ UNCHANGED <<root, new_root, hole, found>>

(* getPred, getSucc: to the rightmost, to the leftmost leaf. *)
walk ==
    /\ pc \in {"getPred", "getSucc"}
    /\ ~node[n].is_leaf
    /\ \/ /\ pc = "getPred"
          /\ Goto("getPred", Child(n, KeyCnt(n) + 1), k)
       \/ /\ pc = "getSucc"
          /\ Goto("getSucc", Child(n, 1), k)
    /\ UNCHANGED <<node, allocated, root, new_root, hole, found>>

(* The neighbour replaces the key; then it is removed where it was found. *)
ReplaceBy(item, from) ==
    /\ node' = [node EXCEPT ![hole.node].keys[hole.idx] = item]
    /\ Goto("remove", Child(hole.node, from), item.key)
    /\ hole' = NoHole
    /\ UNCHANGED <<allocated, root, new_root, found>>

replace_by_pred ==
    /\ pc = "getPred"
    /\ node[n].is_leaf
    /\ ReplaceBy(node[n].keys[KeyCnt(n)], hole.idx)

replace_by_succ_last ==
    /\ pc = "getSucc"
    /\ node[n].is_leaf
    /\ ReplaceBy(node[n].keys[KeyCnt(n)], hole.idx + 1)
replace_by_succ ==
    /\ pc = "getSucc"
    /\ node[n].is_leaf
    /\ ReplaceBy(node[n].keys[1], hole.idx + 1)

(* remove() goes on in child p of n, which is below n. *)
MustDescend(p) ==
    /\ ~node[n].is_leaf
    /\ StopsAt(n, k, p)
    /\ ~Holds(n, k, p)

remove_descend ==
    /\ pc = "remove"
    /\ \E p \in 1..(KeyCnt(n) + 1) :
          /\ MustDescend(p)
          /\ Spare(Child(n, p))
          /\ Goto("remove", Child(n, p), k)
    /\ UNCHANGED <<node, allocated, root, new_root, hole, found>>

(* fill(n, p): a child that cannot spare a key gets one before, from the   *)
(* previous child, from the next, or by a merge with one of them.          *)
CanBorrowPrev(p) == p # 1 /\ Spare(Child(n, p - 1))
CanBorrowNext(p) == p # KeyCnt(n) + 1 /\ Spare(Child(n, p + 1))

fill_borrow ==
    /\ pc = "remove"
    /\ \E p \in 1..(KeyCnt(n) + 1) :
          /\ MustDescend(p)
          /\ ~Spare(Child(n, p))
          /\ \/ /\ CanBorrowPrev(p)
                /\ node' = borrowFromPrev(node, n, p)
             \/ /\ ~CanBorrowPrev(p)
                /\ CanBorrowNext(p)
                /\ node' = borrowFromNext(node, n, p)
          /\ Goto("remove", Child(n, p), k)
    /\ UNCHANGED <<allocated, root, new_root, hole, found>>

(* fill merges child p with the next one, the last child with the previous *)
(* one; remove() then goes on in the child before, in that case.           *)
MergeAt(p) == IF p # KeyCnt(n) + 1 THEN p ELSE p - 1
GoOnAt_same(p) == p
GoOnAt(p) == IF p = KeyCnt(n) + 1 THEN p - 1 ELSE p

fill_merge ==
    /\ pc = "remove"
    /\ \E p \in 1..(KeyCnt(n) + 1) :
          /\ MustDescend(p)
          /\ ~Spare(Child(n, p))
          /\ ~CanBorrowPrev(p)
          /\ ~CanBorrowNext(p)
          /\ node' = merge(node, n, MergeAt(p))
          /\ allocated' = Without(Child(n, MergeAt(p) + 1))
          /\ Goto("remove", Child(n, GoOnAt(p)), k)
    /\ UNCHANGED <<root, new_root, hole, found>>

(* The end of remove_1d: a root without keys is given back. *)
remove_done ==
    /\ pc = "shrink"
    /\ KeyCnt(root) > 0
    /\ Done
    /\ UNCHANGED <<node, allocated, root, found>>

shrink_to_empty ==
    /\ pc = "shrink"
    /\ KeyCnt(root) = 0
    /\ node[root].is_leaf
    /\ root' = NULL
    /\ node' = [node EXCEPT ![root] = NewNode]
    /\ allocated' = Without(root)
    /\ Done
    /\ UNCHANGED found

shrink_to_child ==
    /\ pc = "shrink"
    /\ KeyCnt(root) = 0
    /\ ~node[root].is_leaf
    /\ root' = Child(root, 1)
    /\ node' = [node EXCEPT ![root] = NewNode, ![Child(root, 1)].parent = NULL]
    /\ allocated' = Without(root)
    /\ Done
    /\ UNCHANGED found

-----------------------------------------------------------------------------
(* The nodes d levels below the root of the tree. *)
Level[d \in Nat] ==
    IF d = 0 THEN {root} \ {NULL}
    ELSE UNION {ToSet(node[x].child) : x \in Level[d - 1]}

Reachable == UNION {Level[d] : d \in 0..Cardinality(Nodes)}

(* The number of keys in the tree, counted node by node. *)
size == MapThenSumSet(KeyCnt, Reachable)

(* ~_BTree: destroy_node gives every node back.  The next tree of the pool *)
(* starts empty.                                                           *)
destroy ==
    /\ pc = "idle"
    /\ root # NULL
    /\ node' = [x \in Nodes |-> IF x \in Reachable THEN NewNode ELSE node[x]]
    /\ allocated' = allocated \ Reachable
    /\ root' = NULL
    /\ UNCHANGED <<pc, req, n, k, new_root, hole, found>>

-----------------------------------------------------------------------------
(* One step of the operation being served. *)
Step ==
    \/ find_descend \/ find_hit \/ find_miss
    \/ insert_first \/ insert_at_root \/ insert_grow
    \/ insert_in_leaf \/ insert_descend \/ insert_split \/ bad_alloc
    \/ removeFromLeaf \/ removeFromNonLeaf_walk \/ removeFromNonLeaf_merge
    \/ walk \/ replace_by_pred \/ replace_by_succ
    \/ remove_descend \/ fill_borrow \/ fill_merge
    \/ remove_done \/ shrink_to_empty \/ shrink_to_child

Next ==
    \/ \E key \in Keys : Begin("search", key, NULL)
    \/ \E key \in Keys : Begin("remove", key, NULL)
    \/ \E key \in Keys, val \in Vals : Begin("insert", key, val)
    \/ Step
    \/ destroy
    \/ terminated

(* A call runs to its end; whether another one follows is up to the caller.*)
Spec == Init /\ [][Next]_vars /\ WF_vars(Step)

-----------------------------------------------------------------------------
(* Properties. *)

Working == {"remove", "getPred", "getSucc", "insert_non_full"}

(* Every variable has the values the code can give it: in particular the   *)
(* functions that take a Node& are called on a node that is in use.        *)
TypeOK ==
    /\ node \in [Nodes -> Node]
    /\ allocated \subseteq Nodes
    /\ root \in allocated \union {NULL}
    /\ pc \in Working \union {"idle", "find", "insert_to_root", "shrink",
                              "bad_alloc"}
    /\ n \in Nodes \union {NULL}
    /\ pc \in Working => n \in allocated
    /\ k \in Keys \union {NULL}
    /\ new_root \in allocated \union {NULL}
    /\ hole \in [node : Nodes \union {NULL}, idx : Nat]
    /\ found \in Vals \union {NULL}

(* The root of the tree, or the one that will replace it. *)
Top == IF new_root = NULL THEN root ELSE new_root

(* At every step of insert and remove, not only between them, a node has   *)
(* as many keys as a B-tree allows and one child more than it has keys     *)
(* (the asserts of set_key_cnt and split_child).                           *)
NodeBounds ==
    \A x \in allocated :
       /\ KeyCnt(x) <= MAX_DEGREE
       /\ x # Top => KeyCnt(x) >= MIN_DEGREE
       /\ Len(node[x].child) = IF node[x].is_leaf THEN 0 ELSE KeyCnt(x) + 1

(* What integrity_check asserts, at every step: the children of a node     *)
(* are in use, are its own, and point back to it; only the root has no     *)
(* parent.                                                                 *)
ParentLinks ==
    \A x \in allocated :
       /\ \A j \in 1..Len(node[x].child) :
             /\ Child(x, j) \in allocated
             /\ node[Child(x, j)].parent = x
             /\ \A i \in 1..(j - 1) : Child(x, i) # Child(x, j)
       /\ IF x = Top THEN node[x].parent = NULL
          ELSE /\ node[x].parent \in allocated
               /\ x \in ToSet(node[node[x].parent].child)

(* Between operations no node of the pool is lost (the tests compare       *)
(* mem.size() before and after) and all leaves are equally deep.           *)
NoLeakBalanced ==
    pc = "idle" =>
       /\ allocated = Reachable
       /\ \A d \in 0..Cardinality(Nodes) :
             \A x, y \in Level[d] : node[x].is_leaf = node[y].is_leaf

(* remove() never comes to a leaf without the key: it was found before,    *)
(* and neither fill nor the replacement by a neighbour loses the way, so   *)
(* "does not exist in the tree" is never thrown.                           *)
RemoveNeverThrows ==
    pc = "remove" /\ node[n].is_leaf =>
       \E p \in 1..KeyCnt(n) : StopsAt(n, k, p) /\ Holds(n, k, p)

(* The items stored in the nodes in use. *)
Items == UNION {ToSet(node[x].keys) : x \in allocated}

(* size() counts every key once: splits, merges and borrows neither copy   *)
(* nor drop one.                                                           *)
SizeCountsKeys ==
    pc = "idle" => size = Cardinality({item.key : item \in Items})

(* The tree is a map: insert, remove and search do what SortedMap says. *)
Stored(key) ==
    {item.val : item \in {i \in Items : i.key = key}}

Map == INSTANCE SortedMap WITH
    NONE <- NULL,
    map  <- [key \in Keys |->
               IF Stored(key) = {} THEN NULL
               ELSE CHOOSE v \in Stored(key) : TRUE]

ImplementsSortedMap == Map!Init /\ [][Map!Next]_Map!vars

(* Every operation ends, if only because the pool is exhausted. *)
OpTerminates == (pc = "find") ~> (pc \in {"idle", "bad_alloc"})
=============================================================================

-------------------------- MODULE BTreeKeyIterator ---------------------------
(***************************************************************************)
(* The iterator over the keys of one layer (b_tree_key_iterator.h), which  *)
(* the collision check walks with.  It keeps no stack: it finds its way up *)
(* by the parent pointers, so it is right only as long as every insert and *)
(* remove kept them right.                                                 *)
(*                                                                         *)
(* A position is [node, idx]; End is {nullptr, 0}.  Indexes are from 1, so *)
(* that child i lies before key i.                                         *)
(***************************************************************************)
EXTENDS BTree1d

Pos(x, i) == [node |-> x, idx |-> i]
End == Pos(NULL, 0)

index_of_child(p, ch) == CHOOSE i \in 1..(KeyCnt(p) + 1) : Child(p, i) = ch

(* The first leaf below x, and the last. *)
get_most_left[x \in allocated] ==
    IF node[x].is_leaf THEN x ELSE get_most_left[Child(x, 1)]

get_most_right[x \in allocated] ==
    IF node[x].is_leaf THEN x ELSE get_most_right[Child(x, KeyCnt(x) + 1)]

(* There is no key of p after, before its child i. *)
NoKeyAfter_early(p, i) == i = KeyCnt(p)
NoKeyAfter(p, i) == i = KeyCnt(p) + 1
NoKeyBefore_late(p, i) == i <= 2
NoKeyBefore(p, i) == i = 1

(* The first key after, the last key before the keys of the subtree x. *)
next_above[x \in allocated] ==
    LET p == node[x].parent
        i == index_of_child(p, x)
    IN  IF p = NULL THEN End
        ELSE IF NoKeyAfter(p, i) THEN next_above[p] ELSE Pos(p, i)

prev_above[x \in allocated] ==
    LET p == node[x].parent
        i == index_of_child(p, x)
    IN  IF p = NULL THEN End
        ELSE IF NoKeyBefore(p, i) THEN prev_above[p] ELSE Pos(p, i - 1)

(* The subtree of an inner node always holds the next key, so              *)
(* get_most_left_after is never called.                                    *)
getSucc_global(x, i) ==
    CASE ~node[x].is_leaf -> Pos(get_most_left[Child(x, i + 1)], 1)
      [] node[x].is_leaf /\ i < KeyCnt(x) -> Pos(x, i + 1)
      [] OTHER -> next_above[x]

getPred_global(x, i) ==
    CASE ~node[x].is_leaf ->
            LET leaf == get_most_right[Child(x, i)] IN Pos(leaf, KeyCnt(leaf))
      [] node[x].is_leaf /\ i > 1 -> Pos(x, i - 1)
      [] OTHER -> prev_above[x]

-----------------------------------------------------------------------------
Positions == UNION {{Pos(x, i) : i \in 1..KeyCnt(x)} : x \in allocated}
KeyAt(pos) == node[pos.node].keys[pos.idx].key

(* Between operations ++ goes from every key to the next greater key of    *)
(* the layer, and from the greatest to end(): a loop from begin() sees     *)
(* every key exactly once, in ascending order.                             *)
SuccIsNextKey ==
    pc = "idle" =>
       \A pos \in Positions :
          LET next == getSucc_global(pos.node, pos.idx)
          IN  IF next = End THEN \A q \in Positions : KeyAt(q) <= KeyAt(pos)
              ELSE /\ next \in Positions
                   /\ KeyAt(next) > KeyAt(pos)
                   /\ \A q \in Positions :
                         KeyAt(q) > KeyAt(pos) => KeyAt(q) >= KeyAt(next)

(* -- undoes ++, begin() has no predecessor: the collision check walks     *)
(* back and forth from the key it found.                                   *)
PredUndoesSucc ==
    pc = "idle" /\ root # NULL =>
       /\ getPred_global(get_most_left[root], 1) = End
       /\ \A pos \in Positions :
             LET next == getSucc_global(pos.node, pos.idx)
             IN  next # End => getPred_global(next.node, next.idx) = pos
=============================================================================

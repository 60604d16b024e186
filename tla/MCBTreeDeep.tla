---------------------------- MODULE MCBTreeDeep ------------------------------
(***************************************************************************)
(* Trees of three levels: keys are inserted in ascending or in descending  *)
(* order, as long as none is missing, and removed in every order.  Inner   *)
(* nodes are split, merge and lend each other children, which smaller      *)
(* trees never do.                                                         *)
(***************************************************************************)
EXTENDS BTreeKeyIterator

N == Cardinality(Keys)

ASSUME Keys = 1..N

Held == {item.key : item \in Items}

(* The next key of the ascending series 1, 2, .., N - 1 or of the           *)
(* descending one N, .., 2.                                                *)
Following ==
    {key \in Keys \ Held : \/ key < N /\ Held = 1..(key - 1)
                           \/ key > 1 /\ Held = (key + 1)..N}

DeepNext ==
    \/ \E key \in Following, val \in Vals : Begin("insert", key, val)
    \/ \E key \in Held : Begin("remove", key, NULL)
    \/ Step

DeepSpec == Init /\ [][DeepNext]_vars
==============================================================================

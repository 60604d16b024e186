------------------------------ MODULE NodePool ------------------------------
(***************************************************************************)
(* What the B-tree expects of its node allocator, and nothing more: get()  *)
(* hands out an item that nobody holds or fails because every item is      *)
(* held, release() takes a held item back.  The order in which free items  *)
(* are handed out is left open.  DynamicMempool is shown to implement this *)
(* specification, and BTree1d takes its nodes from a pool that behaves     *)
(* like it.                                                                *)
(***************************************************************************)
CONSTANTS
    Items,      \* the items of the pool
    NONE        \* not an item

VARIABLES
    allocated,  \* the items handed out and not yet given back
    given,      \* the item the last call handed out, or NONE
    failed      \* was the last call a get() that failed?

vars == <<allocated, given, failed>>

Init ==
    /\ allocated = {}
    /\ given = NONE
    /\ failed = FALSE

Get ==
    \E x \in Items \ allocated :
        /\ allocated' = allocated \union {x}
        /\ given' = x
        /\ failed' = FALSE

GetFails ==
    /\ allocated = Items
    /\ given' = NONE
    /\ failed' = TRUE
    /\ UNCHANGED allocated

Release ==
    \E x \in allocated :
        /\ allocated' = allocated \ {x}
        /\ given' = NONE
        /\ failed' = FALSE

(* A call that only reads, or that is refused. *)
Reads ==
    /\ given' = NONE
    /\ failed' = FALSE
    /\ UNCHANGED allocated

Next == Get \/ GetFails \/ Release \/ Reads

Spec == Init /\ [][Next]_vars

==============================================================================

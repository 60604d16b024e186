----------------------------- MODULE SortedMap ------------------------------
(***************************************************************************)
(* What one layer of the tree promises: a map from keys to what is stored  *)
(* with them.  A request is taken, changes the map at most once and to     *)
(* exactly what it asked for, and is not finished before the map shows it. *)
(* A search is answered with what the map holds.  BTree1d implements this. *)
(***************************************************************************)
CONSTANTS Keys, Vals, NONE

VARIABLES
    map,    \* what is stored with every key, NONE if the key is absent
    req,    \* the request being served: [op, key, val], op = "none" if none
    found   \* the answer to a search, until the next request is taken

vars == <<map, req, found>>

NoRequest == [op |-> "none", key |-> NONE, val |-> NONE]

Requests ==
    [op : {"search", "remove"}, key : Keys, val : {NONE}]
       \union [op : {"insert"}, key : Keys, val : Vals]

Init ==
    /\ map = [x \in Keys |-> NONE]
    /\ req = NoRequest
    /\ found = NONE

Begin ==
    /\ req = NoRequest
    /\ req' \in Requests
    /\ found' = NONE
    /\ UNCHANGED map

(* The map as the request wants it; a remove wants NONE (its val). *)
Wanted == [map EXCEPT ![req.key] = req.val]

Change ==
    /\ req.op \in {"insert", "remove"}
    /\ map' = Wanted
    /\ req' \in {req, NoRequest}
    /\ UNCHANGED found

Finish ==
    /\ req.op \in {"insert", "remove"}
    /\ map = Wanted
    /\ req' = NoRequest
    /\ UNCHANGED <<map, found>>

Answer ==
    /\ req.op = "search"
    /\ found' = map[req.key]
    /\ req' = NoRequest
    /\ UNCHANGED map

(* The map is thrown away and another one starts, empty. *)
Clear ==
    /\ req = NoRequest
    /\ map' = [x \in Keys |-> NONE]
    /\ UNCHANGED <<req, found>>

Next == Begin \/ Change \/ Finish \/ Answer \/ Clear

Spec == Init /\ [][Next]_vars
==============================================================================

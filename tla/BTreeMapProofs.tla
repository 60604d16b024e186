--------------------------- MODULE BTreeMapProofs ---------------------------
(***************************************************************************)
(* For every T, every set of keys and every finite pool: one layer of the  *)
(* tree is a map. Each step of search, insert and remove is a step of      *)
(* SortedMap or changes nothing of it, and remove() never comes to a leaf  *)
(* without the key, where the code throws.                                 *)
(*                                                                         *)
(* The inductive invariant MInv adds the order of the keys, with where     *)
(* each operation is in it (Placed), and the request being served to the   *)
(* invariant of BTree1dProofs. Every action has one lemma: it keeps the    *)
(* order, and the items change as MapStep says. The last part turns items  *)
(* into the map.                                                           *)
(***************************************************************************)
EXTENDS BTreeOrderProofs

(* getPred or getSucc, begun beside key i of node x, is at node y: all of  *)
(* y is below that child, and y reaches up to the key.                     *)
Walking(H, ht, sp, dir, x, i, y, key) ==
    /\ H[x].keys[i].key = key
    /\ LET c == H[x].child[IF dir = "getPred" THEN i ELSE i + 1]
       IN  ht[y] <= ht[c] /\ sp[y] \subseteq sp[c]
    /\ (IF dir = "getPred" THEN 2 * key - 1 ELSE 2 * key + 1) \in sp[y]

(* Where the operation is in the ordered tree. *)
Placed(ht, sp, e, w) ==
    /\ pc \notin {"remove", "bad_alloc"} => e = NULL
    /\ pc = "find" => n \in allocated /\ 2 * k \in sp[n]
    /\ pc \in {"insert_to_root", "insert_non_full"} => Absent(node, allocated, k)
    /\ pc = "insert_non_full" => 2 * k \in sp[n]
    /\ pc = "remove" => Descending(node, allocated, ht, sp, e, w, n, k, req.key)
    /\ pc \in {"getPred", "getSucc"} =>
          Walking(node, ht, sp, pc, hole.node, hole.idx, n, k)

(* The nodes in use are a search tree, and the operation is on its way. *)
OrdInv ==
    Top # NULL =>
       \E ht, sp, e, w :
          /\ Tree(node, allocated, Top, ht)
          /\ Ordered(node, allocated, sp, e, w)
          /\ Placed(ht, sp, e, w)

(* The request and what the operation looks for. *)
ReqInv ==
    /\ pc = "idle" => req = NoRequest
    /\ pc # "idle" => req \in Map!Requests
    /\ pc \in {"find", "getPred", "getSucc"} => k = req.key
    /\ pc \in {"insert_to_root", "insert_non_full"} => req.op = "insert" /\ k = req.key
    /\ pc \in {"remove", "getPred", "getSucc", "shrink"} => req.op = "remove"
    /\ pc = "shrink" => Absent(node, allocated, req.key)

(* The inductive invariant: the shape of the tree, the order of its keys,   *)
(* and the request.                                                         *)
MInv == IInv /\ OrdInv /\ ReqInv

(* A step that leaves the items alone, ... *)
SameItems == \A it : Stores(node', allocated', it) <=> Stores(node, allocated, it)

(* ... stores new in the place of what had its key, ... *)
ItemPut(new) ==
    \A it : Stores(node', allocated', it) <=>
               it = new \/ (Stores(node, allocated, it) /\ it.key # new.key)

(* ... or drops the items with a key. *)
ItemDropped(key) ==
    \A it : Stores(node', allocated', it) <=> Stores(node, allocated, it) /\ it.key # key

(* The item with the key of the request, of which there is one. *)
IsTheItem(it) ==
    /\ Stores(node, allocated, it) /\ it.key = req.key
    /\ \A jt : Stores(node, allocated, jt) /\ jt.key = req.key => jt = it

(* What a step of the tree is for the map. *)
StutterStep == SameItems /\ req' = req /\ found' = found
BeginStep   == SameItems /\ req = NoRequest /\ req' \in Map!Requests /\ found' = NULL
InsertStep  ==
    /\ req \in Map!Requests /\ req.op = "insert"
    /\ ItemPut([key |-> req.key, val |-> req.val])
    /\ req' = NoRequest /\ found' = found
RemoveStep  ==
    /\ req \in Map!Requests /\ req.op = "remove"
    /\ ItemDropped(req.key)
    /\ req' = req /\ found' = found
FinishStep  ==
    /\ req \in Map!Requests /\ req.op = "remove" /\ Absent(node, allocated, req.key)
    /\ SameItems
    /\ req' = NoRequest /\ found' = found
AnswerStep  ==
    /\ req \in Map!Requests /\ req.op = "search"
    /\ SameItems /\ req' = NoRequest
    /\ \/ Absent(node, allocated, req.key) /\ found' = NULL
       \/ \E it : IsTheItem(it) /\ found' = it.val
ClearStep   == req = NoRequest /\ allocated' = {} /\ req' = req /\ found' = found

(* Every step of the tree is one of these. *)
MapStep ==
    \/ StutterStep \/ BeginStep \/ InsertStep \/ RemoveStep
    \/ FinishStep \/ AnswerStep \/ ClearStep

(* A step that leaves heap and pool alone leaves the items. *)
LEMMA SameHeap ==
    ASSUME node' = node, allocated' = allocated
    PROVE  SameItems
BY DEF SameItems

(* What a request holds. *)
LEMMA RequestFacts ==
    ASSUME NEW rq \in Map!Requests
    PROVE  /\ rq.key \in Keys /\ rq.key \in Int /\ rq.op \in {"search", "insert", "remove"}
           /\ rq.op = "insert" => rq.val \in Vals
           /\ rq.op # "insert" => rq.val = NULL
BY KeysAssumption DEF Map!Requests

(* The beginning of an operation keeps the order: the root may be asked     *)
(* for any key.                                                             *)
LEMMA BeginOrd ==
    ASSUME MInv, NEW op, NEW key \in Keys, NEW val,
           [op |-> op, key |-> key, val |-> val] \in Map!Requests, Begin(op, key, val)
    PROVE  OrdInv' /\ ReqInv' /\ MapStep
<1>1. /\ pc = "idle" /\ pc' = "find" /\ req' = [op |-> op, key |-> key, val |-> val]
      /\ n' = root /\ k' = key /\ found' = NULL
      /\ node' = node /\ allocated' = allocated /\ root' = root
      /\ new_root' = new_root /\ hole' = hole
  BY DEF Begin
<1>2. new_root = NULL /\ Top = root /\ Top' = root /\ req = NoRequest
  BY <1>1 DEF MInv, IInv, AtInsert, Top, ReqInv
<1>3. ReqInv'
  BY <1>1 DEF ReqInv
<1>4. MapStep
  <2>1. SameItems
    BY <1>1, SameHeap
  <2> QED BY <1>1, <1>2, <2>1 DEF MapStep, BeginStep
<1>5. ASSUME root # NULL PROVE OrdInv'
  <2>1. PICK ht, sp, e, w : /\ Tree(node, allocated, root, ht)
                            /\ Ordered(node, allocated, sp, e, w)
                            /\ Placed(ht, sp, e, w)
    BY <1>2, <1>5 DEF MInv, OrdInv
  <2>2. e = NULL
    BY <1>1, <2>1 DEF Placed
  <2>3. Room(node, allocated, root, sp, root, 2 * key)
    BY <2>1, TreeFacts, KeysAssumption DEF Room
  <2>4. PICK sq : sq = With(sp, root, 2 * key)
    OBVIOUS
  <2>5. Ordered(node, allocated, sq, e, w) /\ 2 * key \in sq[root] /\ root \in allocated
    BY <2>1, <2>3, <2>4, AddMark, TreeFacts
  <2>6. Placed(ht, sq, e, w)'
    BY <1>1, <2>2, <2>5 DEF Placed
  <2> QED BY <1>1, <1>2, <2>1, <2>5, <2>6 DEF OrdInv
<1>6. ASSUME root = NULL PROVE OrdInv'
  BY <1>2, <1>6 DEF OrdInv
<1> QED BY <1>3, <1>4, <1>5, <1>6

(* The search goes on in the child whose span has room for the key. *)
LEMMA find_descendOrd ==
    ASSUME MInv, find_descend
    PROVE  OrdInv' /\ ReqInv' /\ MapStep
<1>1. PICK p \in 1..(KeyCnt(n) + 1) :
         StopsAt(n, k, p) /\ ~Holds(n, k, p) /\ Goto("find", Child(n, p), k)
  BY DEF find_descend
<1>2. /\ pc = "find" /\ n # NULL /\ ~node[n].is_leaf
      /\ pc' = "find" /\ n' = node[n].child[p] /\ k' = k /\ req' = req
      /\ node' = node /\ allocated' = allocated /\ root' = root
      /\ new_root' = new_root /\ hole' = hole /\ found' = found
      /\ p \in 1..(Len(node[n].keys) + 1)
  BY <1>1 DEF find_descend, Goto, Child, KeyCnt
<1>3. n \in allocated /\ k \in Keys
  BY <1>2 DEF MInv, IInv, AtFind
<1>4. Top # NULL /\ Top' = Top
  BY <1>2, <1>3, InUse DEF MInv, Top
<1>5. ReqInv'
  BY <1>2 DEF MInv, ReqInv
<1>6. MapStep
  BY <1>2, SameHeap DEF MapStep, StutterStep
<1>7. PICK ht, sp, e, w : /\ Tree(node, allocated, Top, ht)
                          /\ Ordered(node, allocated, sp, e, w)
                          /\ Placed(ht, sp, e, w)
  BY <1>4 DEF MInv, OrdInv
<1>8. e = NULL /\ 2 * k \in sp[n]
  BY <1>2, <1>7 DEF Placed
<1>9. PICK g : g = 2 * k
  OBVIOUS
<1>10. Between(node[n].keys, p, g) /\ g \in Int
  <2>1. Between(node[n].keys, p, 2 * k + 0)
    BY <1>1, <1>3, <1>7, StopsBetween
  <2>2. 2 * k + 0 = g /\ g \in Int
    BY <1>3, <1>9, KeysAssumption
  <2> QED BY <2>1, <2>2
<1>11. Room(node, allocated, Top, sp, node[n].child[p], g) /\ node[n].child[p] \in allocated
  BY <1>2, <1>3, <1>7, <1>8, <1>9, <1>10, ChildRoom
<1>12. PICK sq : sq = With(sp, node[n].child[p], g)
  OBVIOUS
<1>13. Ordered(node, allocated, sq, e, w) /\ g \in sq[node[n].child[p]]
  BY <1>7, <1>11, <1>12, AddMark
<1>14. Placed(ht, sq, e, w)'
  BY <1>2, <1>8, <1>9, <1>11, <1>13 DEF Placed
<1>15. OrdInv'
  BY <1>2, <1>4, <1>7, <1>13, <1>14 DEF OrdInv
<1> QED BY <1>5, <1>6, <1>15

(* The end of an operation that leaves the tree alone. *)
LEMMA DoneOrd ==
    ASSUME MInv, Done, node' = node, allocated' = allocated, root' = root,
           new_root = NULL, pc \notin {"remove", "bad_alloc"}
    PROVE  OrdInv' /\ ReqInv'
<1>1. /\ pc' = "idle" /\ new_root' = NULL /\ req' = NoRequest /\ Top' = root /\ Top = root
  BY DEF Done, Top
<1>2. ReqInv'
  BY <1>1 DEF ReqInv
<1>3. ASSUME root # NULL PROVE OrdInv'
  <2>1. PICK ht, sp, e, w : /\ Tree(node, allocated, root, ht)
                            /\ Ordered(node, allocated, sp, e, w)
                            /\ Placed(ht, sp, e, w)
    BY <1>1, <1>3 DEF MInv, OrdInv
  <2>2. e = NULL
    BY <2>1 DEF Placed
  <2>3. Placed(ht, sp, e, w)'
    BY <1>1, <2>2 DEF Placed
  <2> QED BY <1>1, <2>1, <2>3 DEF OrdInv
<1> QED BY <1>1, <1>2, <1>3 DEF OrdInv

(* A key in the tree, away from a remove, is there once. *)
LEMMA KeyOnce ==
    ASSUME NEW H, NEW A, NEW t, NEW ht, Tree(H, A, t, ht),
           NEW sp, NEW e, NEW w, Ordered(H, A, sp, e, w), e \notin A,
           NEW x \in A, NEW p \in 1..Len(H[x].keys),
           NEW y \in A, NEW i \in 1..Len(H[y].keys), H[y].keys[i].key = H[x].keys[p].key
    PROVE  y = x /\ i = p
<1>1. Mark(H[y].keys, i) = Mark(H[x].keys, p)
  BY DEF Mark
<1> QED BY <1>1, KeysUnique

(* The item that the search comes to is the only one with its key. *)
LEMMA TheItem ==
    ASSUME NEW ht, NEW t, Tree(node, allocated, t, ht),
           NEW sp, NEW e, NEW w, Ordered(node, allocated, sp, e, w), e \notin allocated,
           NEW x \in allocated, NEW p \in 1..Len(node[x].keys), node[x].keys[p].key = req.key
    PROVE  IsTheItem(node[x].keys[p])
<1>1. Stores(node, allocated, node[x].keys[p])
  BY DEF Stores, InSeq
<1>2. ASSUME NEW jt, Stores(node, allocated, jt), jt.key = req.key
      PROVE  jt = node[x].keys[p]
  <2>0. PICK y \in allocated : InSeq(jt, node[y].keys)
    BY <1>2 DEF Stores
  <2>1. PICK i \in 1..Len(node[y].keys) : node[y].keys[i] = jt
    BY <2>0 DEF InSeq
  <2>2. y = x /\ i = p
    BY <1>2, <2>1, KeyOnce
  <2> QED BY <2>1, <2>2
<1> QED BY <1>1, <1>2 DEF IsTheItem

-----------------------------------------------------------------------------
(* A node of A other than x has the item. *)
Elsewhere(H, A, x, it) == \E y \in A \ {x} : InSeq(it, H[y].keys)

(* The items of a heap in which the keys of one node are replaced: those    *)
(* of the node and those elsewhere.                                         *)
LEMMA OtherStores ==
    ASSUME NEW H, NEW A, A \subseteq Nodes, NEW x \in A, NEW ks,
           NEW G, KeysSet(H, G, x, ks), NEW it
    PROVE  /\ Stores(G, A, it) <=> InSeq(it, ks) \/ Elsewhere(H, A, x, it)
           /\ Stores(H, A, it) <=> InSeq(it, H[x].keys) \/ Elsewhere(H, A, x, it)
<1>1. G[x].keys = ks /\ \A c \in A \ {x} : G[c].keys = H[c].keys
  BY DEF KeysSet
<1> QED BY <1>1 DEF Stores, Elsewhere

(* Key p of a node is overwritten: what had its key is gone, new is there. *)
LEMMA OverwriteStores ==
    ASSUME NEW H, NEW A, NEW t, NEW ht, Tree(H, A, t, ht),
           NEW sp, NEW e, NEW w, Ordered(H, A, sp, e, w), e \notin A,
           NEW x \in A, NEW p \in 1..Len(H[x].keys), NEW new,
           NEW ks, Len(ks) = Len(H[x].keys), ks[p] = new,
           \A l \in 1..Len(H[x].keys) : l # p => ks[l] = H[x].keys[l],
           NEW G, KeysSet(H, G, x, ks), NEW it
    PROVE  Stores(G, A, it) <=> it = new \/ (Stores(H, A, it) /\ it.key # H[x].keys[p].key)
<1>1. A \subseteq Nodes
  BY TreeFacts
<1>2. /\ Stores(G, A, it) <=> InSeq(it, ks) \/ Elsewhere(H, A, x, it)
      /\ Stores(H, A, it) <=> InSeq(it, H[x].keys) \/ Elsewhere(H, A, x, it)
  BY <1>1, OtherStores
<1>3. ASSUME NEW y \in A \ {x}, InSeq(it, H[y].keys) PROVE it.key # H[x].keys[p].key
  <2> SUFFICES ASSUME it.key = H[x].keys[p].key PROVE FALSE
    OBVIOUS
  <2>1. PICK i \in 1..Len(H[y].keys) : H[y].keys[i] = it
    BY <1>3 DEF InSeq
  <2>2. y = x
    BY <2>1, KeyOnce
  <2> QED BY <2>2
<1>4. InSeq(it, ks) <=> it = new \/ (InSeq(it, H[x].keys) /\ it.key # H[x].keys[p].key)
  <2>1. ASSUME InSeq(it, ks)
        PROVE  it = new \/ (InSeq(it, H[x].keys) /\ it.key # H[x].keys[p].key)
    <3>1. PICK i \in 1..Len(H[x].keys) : ks[i] = it
      BY <2>1 DEF InSeq
    <3>2. CASE i = p
      BY <3>1, <3>2
    <3>3. CASE i # p
      <4>1. H[x].keys[i] = it
        BY <3>1, <3>3
      <4>2. it.key # H[x].keys[p].key
        <5> SUFFICES ASSUME H[x].keys[i].key = H[x].keys[p].key PROVE FALSE
          BY <4>1
        <5>1. i = p
          BY KeyOnce
        <5> QED BY <3>3, <5>1
      <4> QED BY <4>1, <4>2 DEF InSeq
    <3> QED BY <3>2, <3>3
  <2>2. ASSUME it = new PROVE InSeq(it, ks)
    BY <2>2 DEF InSeq
  <2>3. ASSUME InSeq(it, H[x].keys), it.key # H[x].keys[p].key PROVE InSeq(it, ks)
    <3>1. PICK i \in 1..Len(H[x].keys) : H[x].keys[i] = it
      BY <2>3 DEF InSeq
    <3>2. i # p
      BY <2>3, <3>1
    <3>3. ks[i] = it /\ i \in 1..Len(ks)
      BY <3>1, <3>2
    <3> QED BY <3>3 DEF InSeq
  <2> QED BY <2>1, <2>2, <2>3
<1> QED BY <1>2, <1>3, <1>4 DEF Elsewhere

(* insert_key adds one item to a node. *)
LEMMA InsertItems ==
    ASSUME NEW s \in Seq(Item), NEW p \in 1..(Len(s) + 1), NEW new \in Item, NEW it,
           NEW ks, ks = InsertAt(s, p, new)
    PROVE  InSeq(it, ks) <=> it = new \/ InSeq(it, s)
<1>3. Len(s) \in Nat /\ p \in 1..(Len(s) + 1)
  BY LenProperties
<1>4. /\ Len(ks) = Len(s) + 1
      /\ \A j \in 1..(Len(s) + 1) : ks[j] =
            IF j < p THEN s[j] ELSE IF j = p THEN new ELSE s[j - 1]
  BY InsertAtFacts
<1>5. InSeq(it, ks) <=> it = new \/ InSeq(it, s)
  <2>1. ASSUME InSeq(it, ks) PROVE it = new \/ InSeq(it, s)
    <3>1. PICK j \in 1..(Len(s) + 1) : ks[j] = it
      BY <1>4, <2>1 DEF InSeq
    <3>2. CASE j < p
      <4>1. j \in 1..Len(s) /\ s[j] = it
        BY <1>3, <1>4, <3>1, <3>2
      <4> QED BY <4>1 DEF InSeq
    <3>3. CASE j = p
      BY <1>3, <1>4, <3>1, <3>3
    <3>4. CASE ~(j < p) /\ j # p
      <4>1. j - 1 \in 1..Len(s) /\ s[j - 1] = it
        BY <1>3, <1>4, <3>1, <3>4
      <4> QED BY <4>1 DEF InSeq
    <3> QED BY <3>2, <3>3, <3>4
  <2>2. ASSUME it = new PROVE InSeq(it, ks)
    <3>1. p \in 1..Len(ks) /\ ks[p] = new
      BY <1>3, <1>4
    <3> QED BY <2>2, <3>1 DEF InSeq
  <2>3. ASSUME InSeq(it, s) PROVE InSeq(it, ks)
    <3>1. PICK i \in 1..Len(s) : s[i] = it
      BY <2>3 DEF InSeq
    <3>2. CASE i < p
      <4>1. i \in 1..Len(ks) /\ ks[i] = it
        BY <1>3, <1>4, <3>1, <3>2
      <4> QED BY <4>1 DEF InSeq
    <3>3. CASE ~(i < p)
      <4>1. i + 1 \in 1..(Len(s) + 1) /\ ~(i + 1 < p) /\ i + 1 # p /\ (i + 1) - 1 = i
        BY <1>3, <3>3
      <4>2. ks[i + 1] = s[(i + 1) - 1]
        BY <1>4, <4>1
      <4>3. i + 1 \in 1..Len(ks) /\ ks[i + 1] = it
        BY <1>4, <3>1, <4>1, <4>2
      <4> QED BY <4>3 DEF InSeq
    <3> QED BY <3>2, <3>3
  <2> QED BY <2>1, <2>2, <2>3
<1> QED BY <1>5

(* A key is inserted in a node: it is there, and nothing else changes. *)
LEMMA InsertStores ==
    ASSUME NEW H, NEW A, NEW t, NEW ht, Tree(H, A, t, ht),
           NEW x \in A, NEW new \in Item, NEW p \in 1..(Len(H[x].keys) + 1),
           NEW ks, ks = InsertAt(H[x].keys, p, new),
           NEW G, KeysSet(H, G, x, ks), NEW it
    PROVE  Stores(G, A, it) <=> it = new \/ Stores(H, A, it)
<1>1. A \subseteq Nodes /\ H[x] \in Node
  BY TreeFacts
<1>2. /\ Stores(G, A, it) <=> InSeq(it, ks) \/ Elsewhere(H, A, x, it)
      /\ Stores(H, A, it) <=> InSeq(it, H[x].keys) \/ Elsewhere(H, A, x, it)
  BY <1>1, OtherStores
<1>3. H[x].keys \in Seq(Item)
  BY <1>1, NodeFacts
<1>4. PICK s : s = H[x].keys
  OBVIOUS
<1>5. s \in Seq(Item)
  BY <1>3, <1>4
<1>6. p \in 1..(Len(s) + 1)
  BY <1>4
<1>7. ks = InsertAt(s, p, new)
  BY <1>4, Zenon
<1>8. InSeq(it, ks) <=> it = new \/ InSeq(it, s)
  BY <1>5, <1>6, <1>7, InsertItems
<1> QED BY <1>2, <1>4, <1>8

(* remove_key drops the item at one position. *)
LEMMA RemoveItems ==
    ASSUME NEW s \in Seq(Item), NEW p \in 1..Len(s), NEW ks, ks = RemoveAt(s, p), NEW it
    PROVE  InSeq(it, ks) <=> \E i \in 1..Len(s) : i # p /\ s[i] = it
<1>0. Len(s) \in Nat
  BY LenProperties
<1>1. /\ Len(ks) = Len(s) - 1
      /\ \A j \in 1..(Len(s) - 1) : ks[j] = IF j < p THEN s[j] ELSE s[j + 1]
  BY RemoveAtFacts
<1>2. ASSUME InSeq(it, ks) PROVE \E i \in 1..Len(s) : i # p /\ s[i] = it
  <2>1. PICK j \in 1..(Len(s) - 1) : ks[j] = it
    BY <1>1, <1>2 DEF InSeq
  <2>2. CASE j < p
    BY <1>0, <1>1, <2>1, <2>2
  <2>3. CASE ~(j < p)
    <3>1. j + 1 \in 1..Len(s) /\ j + 1 # p /\ s[j + 1] = it
      BY <1>0, <1>1, <2>1, <2>3
    <3> QED BY <3>1
  <2> QED BY <2>2, <2>3
<1>3. ASSUME NEW i \in 1..Len(s), i # p, s[i] = it PROVE InSeq(it, ks)
  <2>1. CASE i < p
    <3>1. i \in 1..Len(ks) /\ ks[i] = it
      BY <1>0, <1>1, <1>3, <2>1
    <3> QED BY <3>1 DEF InSeq
  <2>2. CASE ~(i < p)
    <3>1. i - 1 \in 1..(Len(s) - 1) /\ ~(i - 1 < p) /\ (i - 1) + 1 = i
      BY <1>0, <1>3, <2>2
    <3>2. ks[i - 1] = s[(i - 1) + 1]
      BY <1>1, <3>1
    <3>3. i - 1 \in 1..Len(ks) /\ ks[i - 1] = it
      BY <1>1, <1>3, <3>1, <3>2
    <3> QED BY <3>3 DEF InSeq
  <2> QED BY <2>1, <2>2
<1> QED BY <1>2, <1>3

-----------------------------------------------------------------------------
(* The heap KeysOf describes is one with the keys of a node replaced. *)
LEMMA KeysOfSet ==
    ASSUME NEW H, NEW A, NEW t, NEW ht, Tree(H, A, t, ht),
           NEW y, NEW ks, NEW G, KeysOf(H, G, A, t, y, ks)
    PROVE  KeysSet(H, G, y, ks)
BY KeysTree DEF KeysSet

(* The search that comes to the key answers with what is stored,            *)
(* overwrites it, or starts remove_1d for a key that is there.              *)
LEMMA find_hitOrd ==
    ASSUME MInv, find_hit
    PROVE  OrdInv' /\ ReqInv' /\ MapStep
<1>1. PICK p \in 1..KeyCnt(n) :
         /\ StopsAt(n, k, p) /\ Holds(n, k, p)
         /\ \/ /\ req.op = "search"
               /\ found' = node[n].keys[p].val
               /\ Done
               /\ UNCHANGED node
            \/ /\ req.op = "insert"
               /\ node' = overwrite(n, p, req.val)
               /\ Done
               /\ UNCHANGED found
            \/ /\ req.op = "remove"
               /\ Goto("remove", root, k)
               /\ UNCHANGED <<node, new_root, hole, found>>
  BY DEF find_hit
<1>2. /\ pc = "find" /\ n # NULL /\ allocated' = allocated /\ root' = root
      /\ p \in 1..Len(node[n].keys) /\ node[n].keys[p].key = k
  BY <1>1 DEF find_hit, KeyCnt, Holds
<1>3. /\ n \in allocated /\ new_root = NULL /\ k \in Keys /\ root # NULL
      /\ root \in allocated /\ Top = root
  BY <1>2 DEF MInv, IInv, AtFind, TypeOK, Top
<1>4. k = req.key /\ req \in Map!Requests
  BY <1>2 DEF MInv, ReqInv
<1>5. PICK ht, sp, e, w : /\ Tree(node, allocated, root, ht)
                          /\ Ordered(node, allocated, sp, e, w)
                          /\ Placed(ht, sp, e, w)
  BY <1>3 DEF MInv, OrdInv
<1>6. e = NULL /\ e \notin allocated /\ 2 * k \in sp[n]
  BY <1>2, <1>5, TreeFacts DEF Placed
<1>7. CASE req.op = "search" /\ found' = node[n].keys[p].val /\ Done /\ node' = node
  <2>1. OrdInv' /\ ReqInv'
    BY <1>2, <1>3, <1>7, DoneOrd
  <2>2. IsTheItem(node[n].keys[p])
    BY <1>2, <1>3, <1>4, <1>5, <1>6, TheItem
  <2>3. SameItems /\ req' = NoRequest
    BY <1>2, <1>7, SameHeap DEF Done
  <2>4. AnswerStep
    BY <1>4, <1>7, <2>2, <2>3 DEF AnswerStep
  <2> QED BY <2>1, <2>4 DEF MapStep
<1>8. CASE req.op = "insert" /\ node' = overwrite(n, p, req.val) /\ Done /\ found' = found
  <2>1. /\ pc' = "idle" /\ n' = NULL /\ k' = NULL /\ new_root' = NULL /\ hole' = NoHole
        /\ req' = NoRequest
    BY <1>8 DEF Done
  <2>2. Top' = root
    BY <1>2, <1>3, <2>1 DEF Top
  <2>3. PICK s : s = node[n].keys
    OBVIOUS
  <2>4. PICK new : new = [key |-> req.key, val |-> req.val]
    OBVIOUS
  <2>5. new \in Item /\ new.key = req.key
    BY <1>4, <1>8, <2>4, RequestFacts DEF Item
  <2>6. s \in Seq(Item) /\ p \in 1..Len(s) /\ s[p] \in Item /\ Len(s) \in Nat
    <3>1. node[n] \in Node
      BY <1>3, InUse DEF MInv
    <3> QED BY <1>2, <2>3, <3>1, NodeFacts
  <2>7. [s[p] EXCEPT !.val = req.val] = new
    BY <1>2, <1>4, <2>3, <2>4, <2>6 DEF Item
  <2>8. PICK ks : ks = [s EXCEPT ![p] = new]
    OBVIOUS
  <2>9. /\ ks \in Seq(Item) /\ Len(ks) = Len(s) /\ ks[p] = new
        /\ \A l \in 1..Len(s) : l # p => ks[l] = s[l]
    BY <2>5, <2>6, <2>8, ExceptSeq
  <2>10. node' = [node EXCEPT ![n].keys = ks]
    BY <1>8, <2>3, <2>7, <2>8 DEF overwrite
  <2>11. KeysOf(node, node', allocated, root, n, ks)
    <3>1. Len(s) <= MAX_DEGREE /\ (n # root => Len(s) >= MIN_DEGREE)
      BY <1>3, <2>3, InUse DEF MInv
    <3> QED BY <1>3, <2>3, <2>9, <2>10, <3>1 DEF KeysOf
  <2>12. Tree(node', allocated, root, ht)
    BY <1>5, <2>11, KeysTree
  <2>13. KeysSet(node, node', n, ks)
    BY <1>5, <2>11, KeysOfSet
  <2>14. Ordered(node', allocated, sp, e, w)
    <3>1. Len(ks) = Len(node[n].keys)
      BY <2>3, <2>9
    <3>2. \A i \in 1..Len(node[n].keys) : ks[i].key = node[n].keys[i].key
      BY <1>2, <1>4, <2>3, <2>5, <2>9
    <3> QED BY <1>3, <1>5, <1>6, <2>13, <3>1, <3>2, OverwriteOrdered
  <2>15. ItemPut(new)
    <3>1. Len(ks) = Len(node[n].keys) /\ ks[p] = new
      BY <2>3, <2>9
    <3>2. \A l \in 1..Len(node[n].keys) : l # p => ks[l] = node[n].keys[l]
      BY <2>3, <2>9
    <3>3. ASSUME NEW it
          PROVE  Stores(node', allocated, it) <=>
                    it = new \/ (Stores(node, allocated, it) /\ it.key # node[n].keys[p].key)
      BY <1>2, <1>3, <1>5, <1>6, <2>13, <3>1, <3>2, OverwriteStores
    <3> QED BY <1>2, <1>4, <2>5, <3>3 DEF ItemPut
  <2>16. InsertStep
    BY <1>4, <1>8, <2>1, <2>4, <2>15 DEF InsertStep
  <2>17. Placed(ht, sp, e, w)'
    BY <1>6, <2>1 DEF Placed
  <2>18. OrdInv'
    BY <1>2, <2>2, <2>12, <2>14, <2>17 DEF OrdInv
  <2>19. ReqInv'
    BY <2>1 DEF ReqInv
  <2> QED BY <2>16, <2>18, <2>19 DEF MapStep
<1>9. CASE req.op = "remove" /\ Goto("remove", root, k)
           /\ UNCHANGED <<node, new_root, hole, found>>
  <2>1. /\ pc' = "remove" /\ n' = root /\ k' = k /\ req' = req
        /\ node' = node /\ new_root' = new_root /\ hole' = hole /\ found' = found
    BY <1>9 DEF Goto
  <2>2. Top' = root
    BY <1>2, <1>3, <2>1 DEF Top
  <2>3. PICK g : g = 2 * k
    OBVIOUS
  <2>4. g \in Int
    BY <1>3, <2>3, KeysAssumption
  <2>5. /\ Room(node, allocated, root, sp, root, g - 1) /\ Room(node, allocated, root, sp, root, g)
        /\ Room(node, allocated, root, sp, root, g + 1)
    BY <1>3, <2>4 DEF Room
  <2>6. PICK sq : /\ Ordered(node, allocated, sq, e, w) /\ Widened(allocated, sp, sq)
                  /\ g - 1 \in sq[root] /\ g \in sq[root] /\ g + 1 \in sq[root]
    BY <1>5, <2>4, <2>5, AddThree
  <2>7. Near(sq[root], k) /\ 2 * k \in sq[root]
    BY <2>3, <2>6 DEF Near
  <2>8. ht[n] <= ht[root] /\ HasKey(node, n, k)
    <3>1. ht[n] <= ht[root]
      BY <1>3, <1>5, TreeFacts
    <3> QED BY <1>2, <3>1 DEF HasKey
  <2>9. Descending(node, allocated, ht, sq, e, w, root, k, req.key)
    BY <1>3, <1>4, <1>6, <2>7, <2>8 DEF Descending
  <2>10. Placed(ht, sq, e, w)'
    BY <1>2, <2>1, <2>9 DEF Placed
  <2>11. OrdInv'
    BY <1>2, <1>5, <2>1, <2>2, <2>6, <2>10 DEF OrdInv
  <2>12. ReqInv'
    BY <1>4, <1>9, <2>1 DEF ReqInv
  <2>13. StutterStep
    BY <1>2, <2>1, SameHeap DEF StutterStep
  <2> QED BY <2>11, <2>12, <2>13 DEF MapStep
<1> QED BY <1>1, <1>7, <1>8, <1>9

(* The search that ends in a leaf without the key answers nullptr, or       *)
(* starts insert_to_root for a key that is nowhere.                         *)
LEMMA find_missOrd ==
    ASSUME MInv, find_miss
    PROVE  OrdInv' /\ ReqInv' /\ MapStep
<1>1. pc = "find" /\ node' = node /\ allocated' = allocated /\ root' = root
  BY DEF find_miss
<1>2. new_root = NULL /\ k \in Keys /\ Top = root /\ k = req.key /\ req \in Map!Requests
  BY <1>1 DEF MInv, IInv, AtFind, ReqInv, Top
<1>3. Absent(node, allocated, k)
  <2>1. CASE root = NULL
    <3>1. allocated = {}
      BY <1>2, <2>1 DEF MInv, IInv, Shape
    <3> QED BY <3>1 DEF Absent
  <2>2. CASE root # NULL
    <3>1. PICK ht, sp, e, w : /\ Tree(node, allocated, root, ht)
                              /\ Ordered(node, allocated, sp, e, w)
                              /\ Placed(ht, sp, e, w)
      BY <1>2, <2>2 DEF MInv, OrdInv
    <3>2. e \notin allocated /\ n \in allocated /\ n # NULL /\ 2 * k \in sp[n]
      BY <1>1, <3>1, TreeFacts DEF Placed
    <3>3. PICK p \in 1..(KeyCnt(n) + 1) : StopsAt(n, k, p) /\ ~Holds(n, k, p)
      BY <3>2 DEF find_miss
    <3>4. node[n].is_leaf
      BY <3>2 DEF find_miss
    <3>5. ~HasKey(node, n, k)
      BY <1>2, <3>1, <3>2, <3>3, NotHere
    <3> QED BY <3>1, <3>2, <3>4, <3>5, SearchMisses
  <2> QED BY <2>1, <2>2
<1>4. CASE Done /\ found' = NULL /\ req.op = "search"
  <2>1. OrdInv' /\ ReqInv'
    BY <1>1, <1>2, <1>4, DoneOrd
  <2>2. AnswerStep
    BY <1>1, <1>2, <1>3, <1>4, SameHeap DEF AnswerStep, Done
  <2> QED BY <2>1, <2>2 DEF MapStep
<1>5. CASE Done /\ found' = found /\ req.op = "remove"
  <2>1. OrdInv' /\ ReqInv'
    BY <1>1, <1>2, <1>5, DoneOrd
  <2>2. FinishStep
    BY <1>1, <1>2, <1>3, <1>5, SameHeap DEF FinishStep, Done
  <2> QED BY <2>1, <2>2 DEF MapStep
<1>6. CASE req.op = "insert" /\ Goto("insert_to_root", root, k)
           /\ UNCHANGED <<new_root, hole, found>>
  <2>1. /\ pc' = "insert_to_root" /\ n' = root /\ k' = k /\ req' = req
        /\ new_root' = new_root /\ hole' = hole /\ found' = found
    BY <1>6 DEF Goto
  <2>2. Top' = root
    BY <1>1, <1>2, <2>1 DEF Top
  <2>3. ReqInv'
    BY <1>2, <1>6, <2>1 DEF ReqInv
  <2>4. StutterStep
    BY <1>1, <2>1, SameHeap DEF StutterStep
  <2>5. ASSUME root # NULL PROVE OrdInv'
    <3>1. PICK ht, sp, e, w : /\ Tree(node, allocated, root, ht)
                              /\ Ordered(node, allocated, sp, e, w)
                              /\ Placed(ht, sp, e, w)
      BY <1>2, <2>5 DEF MInv, OrdInv
    <3>2. e = NULL
      BY <1>1, <3>1 DEF Placed
    <3>3. Placed(ht, sp, e, w)'
      BY <1>1, <1>3, <2>1, <3>2 DEF Placed
    <3> QED BY <1>1, <2>2, <3>1, <3>3 DEF OrdInv
  <2>6. OrdInv'
    BY <2>2, <2>5 DEF OrdInv
  <2> QED BY <2>3, <2>4, <2>6 DEF MapStep
<1> QED BY <1>4, <1>5, <1>6 DEF find_miss

-----------------------------------------------------------------------------
(* Absent says that the loop over the keys of a node does not stop at one. *)
LEMMA AbsentMiss ==
    ASSUME NEW A, NEW x \in A, NEW key, Absent(node, A, key), NEW p, StopsAt(x, key, p)
    PROVE  ~Holds(x, key, p)
<1> SUFFICES ASSUME Holds(x, key, p) PROVE FALSE
  OBVIOUS
<1>1. p \in 1..(Len(node[x].keys) + 1) /\ p <= Len(node[x].keys) /\ node[x].keys[p].key = key
  BY DEF StopsAt, Holds
<1>2. p \in 1..Len(node[x].keys)
  BY <1>1
<1> QED BY <1>1, <1>2 DEF Absent, HasKey

(* The first key of an empty tree is stored. *)
LEMMA insert_firstOrd ==
    ASSUME MInv, insert_first
    PROVE  OrdInv' /\ ReqInv' /\ MapStep
<1>1. PICK z \in Nodes :
         /\ node' = [node EXCEPT ![z] = [NewNode EXCEPT !.keys = <<NewItem>>]]
         /\ allocated' = allocated \union {z}
         /\ root' = z
  BY DEF insert_first
<1>2. /\ pc = "insert_to_root" /\ root = NULL /\ found' = found /\ req' = NoRequest
      /\ pc' = "idle" /\ n' = NULL /\ k' = NULL /\ new_root' = NULL /\ hole' = NoHole
  BY DEF insert_first, Done
<1>3. allocated = {} /\ NewItem \in Item
  BY <1>2 DEF MInv, IInv, AtInsert, Shape, Top, NewItem, Item
<1>4. k = req.key /\ req \in Map!Requests /\ req.op = "insert"
  BY <1>2 DEF MInv, ReqInv
<1>5. NewItem = [key |-> req.key, val |-> req.val]
  BY <1>4 DEF NewItem
<1>6. /\ \E ht : Tree(node', {z}, z, ht)
      /\ node'[z].keys = <<NewItem>>
  <2>1. node \in [Nodes -> Node]
    BY DEF MInv, IInv, TypeOK
  <2>2. FirstOf(node, node', z, NewItem)
    BY <1>1, <1>3, <2>1 DEF FirstOf
  <2> QED BY <2>2, FirstTree
<1>7. PICK ht : Tree(node', {z}, z, ht)
  BY <1>6
<1>8. Top' = z /\ allocated' = {z} /\ z # NULL
  BY <1>1, <1>2, <1>3, NodesAssumption, NullAssumption DEF Top
<1>9. node'[z].child = <<>>
  <2>1. node \in [Nodes -> Node]
    BY DEF MInv, IInv, TypeOK
  <2> QED BY <1>1, <2>1 DEF NewNode
<1>10. PICK sp : sp = [x \in Nodes |-> Int]
  OBVIOUS
<1>11. Ordered(node', {z}, sp, NULL, 0)
  BY <1>3, <1>6, <1>9, <1>10, FirstOrdered
<1>12. Placed(ht, sp, NULL, 0)'
  BY <1>2 DEF Placed
<1>13. OrdInv'
  BY <1>7, <1>8, <1>11, <1>12 DEF OrdInv
<1>14. ReqInv'
  BY <1>2 DEF ReqInv
<1>15. ItemPut(NewItem)
  <2>1. ASSUME NEW it
        PROVE  Stores(node', allocated', it) <=> it = NewItem
    <3>1. Stores(node', allocated', it) <=> InSeq(it, <<NewItem>>)
      BY <1>6, <1>8 DEF Stores
    <3>2. InSeq(it, <<NewItem>>) <=> it = NewItem
      BY DEF InSeq
    <3> QED BY <3>1, <3>2
  <2>2. ASSUME NEW it PROVE ~Stores(node, allocated, it)
    BY <1>3 DEF Stores
  <2> QED BY <2>1, <2>2 DEF ItemPut
<1>16. InsertStep
  BY <1>2, <1>4, <1>5, <1>15 DEF InsertStep
<1> QED BY <1>13, <1>14, <1>16 DEF MapStep

(* An insert below a root that has room begins where any key belongs. *)
LEMMA insert_at_rootOrd ==
    ASSUME MInv, insert_at_root
    PROVE  OrdInv' /\ ReqInv' /\ MapStep
<1>1. /\ pc = "insert_to_root" /\ root # NULL /\ Len(node[root].keys) < MAX_DEGREE
      /\ pc' = "insert_non_full" /\ n' = root /\ k' = k /\ req' = req
      /\ new_root' = root
      /\ node' = node /\ allocated' = allocated /\ root' = root
      /\ hole' = hole /\ found' = found
  BY DEF insert_at_root, Goto, KeyCnt
<1>2. /\ root \in allocated /\ new_root = NULL /\ k \in Keys /\ Top = root /\ Top' = root
  BY <1>1 DEF MInv, IInv, TypeOK, AtInsert, Top
<1>3. PICK ht, sp, e, w : /\ Tree(node, allocated, root, ht)
                          /\ Ordered(node, allocated, sp, e, w)
                          /\ Placed(ht, sp, e, w)
  BY <1>1, <1>2 DEF MInv, OrdInv
<1>4. e = NULL /\ Absent(node, allocated, k)
  BY <1>1, <1>3 DEF Placed
<1>5. PICK g : g = 2 * k
  OBVIOUS
<1>6. Room(node, allocated, root, sp, root, g)
  BY <1>2, <1>5, KeysAssumption DEF Room
<1>7. PICK sq : sq = With(sp, root, g)
  OBVIOUS
<1>8. Ordered(node, allocated, sq, e, w) /\ g \in sq[root]
  BY <1>3, <1>6, <1>7, AddMark
<1>9. Placed(ht, sq, e, w)'
  BY <1>1, <1>4, <1>5, <1>8 DEF Placed
<1>10. OrdInv'
  BY <1>1, <1>2, <1>3, <1>8, <1>9 DEF OrdInv
<1>11. ReqInv'
  BY <1>1 DEF MInv, ReqInv
<1>12. StutterStep
  BY <1>1, SameHeap DEF StutterStep
<1> QED BY <1>10, <1>11, <1>12 DEF MapStep

(* Node c is where the missing key belongs. *)
Belongs(H, A, sp, e, w, c, key) ==
    Ordered(H, A, sp, e, w) /\ 2 * key \in sp[c] /\ Absent(H, A, key)

(* The half of a split node that HalfFor chooses is where the key belongs. *)
LEMMA SplitGoesOn ==
    ASSUME NEW H, NEW A, NEW t, NEW ht, Tree(H, A, t, ht),
           NEW sp, NEW e, NEW w, Ordered(H, A, sp, e, w), e \notin A,
           NEW x, NEW p, NEW y, NEW z, SplitSite(H, A, x, p, y, z), y \in A,
           NEW G, SplitOf(H, G, x, p, y, z),
           NEW key \in Int, 2 * key \in sp[y], Absent(H, A, key),
           NEW c, c = IF H[y].keys[T].key < key THEN z ELSE y
    PROVE  \E sq : Belongs(G, A \union {z}, sq, e, w, c, key)
<1>1. PICK m : m = Mark(H[y].keys, T)
  OBVIOUS
<1>2. PICK sq : sq = SplitSpans(sp, y, z, m)
  OBVIOUS
<1>3. Ordered(G, A \union {z}, sq, e, w) /\ m \in Int
  BY <1>1, <1>2, SplitOrdered
<1>4. Absent(G, A \union {z}, key)
  <2>1. ASSUME NEW it PROVE Stores(G, A \union {z}, it) <=> Stores(H, A, it)
    BY SplitStores
  <2> QED BY <2>1, AbsentStores
<1>5. T \in 1..Len(H[y].keys) /\ z \in Nodes /\ y \in Nodes /\ z # y
  <2>1. Len(H[y].keys) = MAX_DEGREE /\ z \in Nodes \ A
    BY DEF SplitSite
  <2> QED BY <2>1, TreeFacts, TAssumption DEF MAX_DEGREE
<1>6. H[y].keys[T].key \in Int /\ m = 2 * H[y].keys[T].key
  BY <1>1, <1>5, MarkInt DEF Mark
<1>7. H[y].keys[T].key # key
  BY <1>5 DEF Absent, HasKey
<1>8. sq[y] = Lower(sp[y], m) /\ sq[z] = Upper(sp[y], m)
  <2>1. sp \in [Nodes -> SUBSET Int]
    BY DEF Ordered
  <2> QED BY <1>2, <1>5, <2>1 DEF SplitSpans
<1>9. 2 * key \in sq[c]
  <2>1. CASE H[y].keys[T].key < key
    BY <1>6, <1>8, <2>1 DEF Upper
  <2>2. CASE ~(H[y].keys[T].key < key)
    BY <1>6, <1>7, <1>8, <2>2 DEF Lower
  <2> QED BY <2>1, <2>2
<1>10. Belongs(G, A \union {z}, sq, e, w, c, key)
  BY <1>3, <1>4, <1>9 DEF Belongs
<1> QED BY <1>10

-----------------------------------------------------------------------------
(* A new root has no keys. *)
LEMMA GrowStores ==
    ASSUME NEW H, NEW A, NEW t, NEW ht, Tree(H, A, t, ht),
           NEW s, NEW G, NEW hu, GrownOf(H, G, A, t, ht, s, hu), NEW it
    PROVE  Stores(G, A \union {s}, it) <=> Stores(H, A, it)
<1>1. H \in [Nodes -> Node] /\ A \subseteq Nodes /\ t \in A
  BY TreeFacts
<1>2. /\ s \in Nodes \ A
      /\ G = [H EXCEPT ![s] = [NewNode EXCEPT !.is_leaf = FALSE, !.child = <<t>>],
                       ![t].parent = s]
  BY DEF GrownOf
<1>3. /\ \A c \in A : G[c].keys = H[c].keys
      /\ G[s].keys = <<>>
  BY <1>1, <1>2 DEF NewNode, Node
<1>4. ~InSeq(it, G[s].keys)
  BY <1>3 DEF InSeq
<1> QED BY <1>3, <1>4 DEF Stores

(* An insert that puts a new root above a full one and splits that goes on  *)
(* in the half the key belongs to.                                          *)
LEMMA insert_growOrd ==
    ASSUME MInv, insert_grow
    PROVE  OrdInv' /\ ReqInv' /\ MapStep
<1> DEFINE h(s) == [node EXCEPT ![s] = [NewNode EXCEPT !.is_leaf = FALSE,
                                                       !.child = <<root>>],
                                ![root].parent = s]
<1>1. PICK s \in Nodes, z \in Nodes :
         /\ Fresh(s, allocated)
         /\ Fresh(z, allocated \union {s})
         /\ node' = split_child(h(s), s, 1, root, z)
         /\ allocated' = allocated \union {s, z}
         /\ new_root' = s
         /\ Goto("insert_non_full", HalfFor(root, z), k)
  BY DEF insert_grow
<1>2. /\ pc = "insert_to_root" /\ root # NULL /\ Len(node[root].keys) = MAX_DEGREE
      /\ root' = root /\ hole' = hole /\ found' = found
      /\ pc' = "insert_non_full" /\ k' = k /\ req' = req
      /\ n' = IF node[root].keys[T].key < k THEN z ELSE root
  BY <1>1 DEF insert_grow, Goto, KeyCnt, HalfFor
<1>3. root \in allocated /\ new_root = NULL /\ k \in Keys /\ k \in Int /\ Top = root
  BY <1>2, KeysAssumption DEF MInv, IInv, TypeOK, AtInsert, Top
<1>4. s \in Nodes \ allocated /\ z \in Nodes \ (allocated \union {s}) /\ s # NULL
  BY <1>1, NodesAssumption, NullAssumption DEF Fresh
<1>5. PICK ht, sp, e, w : /\ Tree(node, allocated, root, ht)
                          /\ Ordered(node, allocated, sp, e, w)
                          /\ Placed(ht, sp, e, w)
  BY <1>2, <1>3 DEF MInv, OrdInv
<1>6. e = NULL /\ Absent(node, allocated, k)
  BY <1>2, <1>5 DEF Placed
<1>7. PICK H : H = h(s)
  OBVIOUS
<1>8. PICK hu : hu = [ht EXCEPT ![s] = ht[root] + 1]
  OBVIOUS
<1>9. PICK A : A = allocated \union {s}
  OBVIOUS
<1>10. GrownOf(node, H, allocated, root, ht, s, hu)
  <2>1. Len(node[root].keys) >= MIN_DEGREE
    BY <1>2, TAssumption DEF MIN_DEGREE, MAX_DEGREE
  <2> QED BY <1>4, <1>7, <1>8, <2>1 DEF GrownOf
<1> HIDE DEF h
<1>11. /\ Tree(H, A, s, hu)
       /\ Len(H[s].keys) = 0 /\ H[s].child[1] = root /\ ~H[s].is_leaf
       /\ H[root].keys = node[root].keys
  BY <1>5, <1>9, <1>10, GrowTree
<1>12. PICK s1 : s1 = GrowSpans(sp, s)
  OBVIOUS
<1>13. Ordered(H, A, s1, e, w)
  BY <1>5, <1>9, <1>10, <1>12, GrowOrdered
<1>14. e \notin A /\ s \in A /\ root \in A
  BY <1>3, <1>6, <1>9, <1>11, TreeFacts
<1>15. PICK g : g = 2 * k
  OBVIOUS
<1>16. g \in Int /\ g \in s1[s]
  <2>1. sp \in [Nodes -> SUBSET Int]
    BY <1>5 DEF Ordered
  <2> QED BY <1>3, <1>4, <1>12, <1>15, <2>1 DEF GrowSpans
<1>17. Room(H, A, s, s1, root, g)
  <2>1. Between(H[s].keys, 1, g)
    BY <1>11 DEF Between
  <2>2. 1 \in 1..(Len(H[s].keys) + 1)
    BY <1>11
  <2> QED BY <1>11, <1>13, <1>14, <1>16, <2>1, <2>2, ChildRoom
<1>18. PICK s2 : s2 = With(s1, root, g)
  OBVIOUS
<1>19. Ordered(H, A, s2, e, w) /\ g \in s2[root]
  BY <1>11, <1>13, <1>17, <1>18, AddMark
<1>20. SplitSite(H, A, s, 1, root, z)
  <2>1. Len(H[s].keys) = 0 /\ 0 < MAX_DEGREE /\ 1 \in 1..(0 + 1)
    BY <1>11, TAssumption DEF MAX_DEGREE
  <2>2. H[s].child[1] = root /\ Len(H[root].keys) = MAX_DEGREE
    BY <1>2, <1>11
  <2> QED BY <1>4, <1>9, <1>11, <1>14, <2>1, <2>2 DEF SplitSite
<1>21. PICK hv : hv = [hu EXCEPT ![z] = hu[root]]
  OBVIOUS
<1>22. node' = split_child(H, s, 1, root, z)
  BY <1>1, <1>7
<1>23. SplitOf(H, node', s, 1, root, z) /\ Tree(node', A \union {z}, s, hv)
  BY <1>11, <1>20, <1>21, <1>22, SplitTree
<1>24. Absent(H, A, k)
  <2>1. ASSUME NEW it PROVE Stores(H, A, it) <=> Stores(node, allocated, it)
    BY <1>5, <1>9, <1>10, GrowStores
  <2> QED BY <1>6, <2>1, AbsentStores
<1>25. n' = IF H[root].keys[T].key < k THEN z ELSE root
  BY <1>2, <1>11
<1>26. \E sq : Belongs(node', A \union {z}, sq, e, w, n', k)
  <2>1. 2 * k \in s2[root]
    BY <1>15, <1>19
  <2>2. PICK c : c = IF H[root].keys[T].key < k THEN z ELSE root
    OBVIOUS
  <2>3. \E sq : Belongs(node', A \union {z}, sq, e, w, c, k)
    BY <1>3, <1>11, <1>14, <1>19, <1>20, <1>23, <1>24, <2>1, <2>2, SplitGoesOn
  <2> QED BY <1>25, <2>2, <2>3
<1>27. PICK sq : /\ Ordered(node', A \union {z}, sq, e, w) /\ 2 * k \in sq[n']
                 /\ Absent(node', A \union {z}, k)
  BY <1>26 DEF Belongs
<1>28. allocated' = A \union {z} /\ Top' = s
  BY <1>1, <1>4, <1>9 DEF Top
<1>29. Placed(hv, sq, e, w)'
  BY <1>2, <1>6, <1>27, <1>28 DEF Placed
<1>30. OrdInv'
  BY <1>4, <1>23, <1>27, <1>28, <1>29 DEF OrdInv
<1>31. ReqInv'
  BY <1>2 DEF MInv, ReqInv
<1>32. SameItems
  <2>1. ASSUME NEW it PROVE Stores(H, A, it) <=> Stores(node, allocated, it)
    BY <1>5, <1>9, <1>10, GrowStores
  <2>2. ASSUME NEW it PROVE Stores(node', A \union {z}, it) <=> Stores(H, A, it)
    BY <1>11, <1>14, <1>20, <1>23, SplitStores
  <2> QED BY <1>28, <2>1, <2>2 DEF SameItems
<1>33. StutterStep
  BY <1>2, <1>32 DEF StutterStep
<1> QED BY <1>30, <1>31, <1>33 DEF MapStep

(* The key is stored in the leaf it belongs to, between its neighbours,     *)
(* and nothing else changes.                                                *)
LEMMA insert_in_leafOrd ==
    ASSUME MInv, insert_in_leaf
    PROVE  OrdInv' /\ ReqInv' /\ MapStep
<1>1. PICK p \in 1..(KeyCnt(n) + 1) :
         StopsAt(n, k, p) /\ node' = [node EXCEPT ![n].keys = InsertAt(@, p, NewItem)]
  BY DEF insert_in_leaf
<1>2. /\ pc = "insert_non_full" /\ node[n].is_leaf /\ req' = NoRequest
      /\ root' = new_root /\ allocated' = allocated /\ found' = found
      /\ pc' = "idle" /\ n' = NULL /\ k' = NULL /\ new_root' = NULL /\ hole' = NoHole
      /\ p \in 1..(Len(node[n].keys) + 1)
  BY DEF insert_in_leaf, Done, KeyCnt
<1>3. /\ n \in allocated /\ new_root \in allocated /\ Len(node[n].keys) < MAX_DEGREE
      /\ NewItem \in Item /\ k \in Keys
  BY <1>2 DEF MInv, IInv, AtInsert, TypeOK, Working, NewItem, Item
<1>4. /\ new_root # NULL /\ Top = new_root /\ Top' = new_root
      /\ node[n] \in Node /\ node[n].keys \in Seq(Item) /\ Len(node[n].keys) \in Nat
      /\ n # Top => Len(node[n].keys) >= MIN_DEGREE
  <2>1. new_root # NULL
    BY <1>3, InUse DEF MInv
  <2>2. /\ node[n] \in Node /\ Len(node[n].keys) \in Nat
        /\ n # Top => Len(node[n].keys) >= MIN_DEGREE
    BY <1>3, InUse DEF MInv
  <2> QED BY <1>2, <2>1, <2>2, NodeFacts DEF Top
<1>5. k = req.key /\ req \in Map!Requests /\ req.op = "insert"
  BY <1>2 DEF MInv, ReqInv
<1>6. PICK new : new = NewItem
  OBVIOUS
<1>7. new = [key |-> req.key, val |-> req.val] /\ new.key = k /\ new \in Item
  BY <1>3, <1>5, <1>6 DEF NewItem
<1>8. PICK s : s = node[n].keys
  OBVIOUS
<1>9. PICK ks : ks = InsertAt(s, p, new)
  OBVIOUS
<1>10. ks \in Seq(Item) /\ Len(ks) = Len(s) + 1 /\ s \in Seq(Item) /\ Len(s) \in Nat
  <2>1. s \in Seq(Item) /\ p \in 1..(Len(s) + 1) /\ Len(s) \in Nat
    BY <1>2, <1>4, <1>8
  <2> QED BY <1>7, <1>9, <2>1, InsertAtFacts
<1>11. node' = [node EXCEPT ![n].keys = ks]
  BY <1>1, <1>6, <1>8, <1>9
<1>12. PICK ht, sp, e, w : /\ Tree(node, allocated, new_root, ht)
                           /\ Ordered(node, allocated, sp, e, w)
                           /\ Placed(ht, sp, e, w)
  BY <1>4 DEF MInv, OrdInv
<1>13. e = NULL /\ Absent(node, allocated, k) /\ 2 * k \in sp[n]
  BY <1>2, <1>12 DEF Placed
<1>14. KeysOf(node, node', allocated, new_root, n, ks)
  <2>1. Len(ks) <= MAX_DEGREE /\ (n # new_root => Len(ks) >= MIN_DEGREE)
    BY <1>3, <1>4, <1>8, <1>10, TAssumption DEF MIN_DEGREE, MAX_DEGREE
  <2> QED BY <1>2, <1>3, <1>10, <1>11, <2>1 DEF KeysOf
<1>15. Tree(node', allocated, new_root, ht) /\ KeysSet(node, node', n, ks)
  BY <1>12, <1>14, KeysTree, KeysOfSet
<1>16. ks = InsertAt(node[n].keys, p, new)
  BY <1>8, <1>9, Zenon
<1>17. Between(node[n].keys, p, 2 * new.key)
  <2>1. ~Holds(n, k, p)
    BY <1>1, <1>3, <1>13, AbsentMiss
  <2>2. Between(node[n].keys, p, 2 * k + 0)
    BY <1>1, <1>3, <1>12, <2>1, StopsBetween
  <2>3. 2 * k + 0 = 2 * new.key
    BY <1>3, <1>7, KeysAssumption
  <2> QED BY <2>2, <2>3
<1>18. Ordered(node', allocated, sp, e, w)
  BY <1>2, <1>3, <1>7, <1>12, <1>13, <1>15, <1>16, <1>17, LeafInsertOrdered
<1>19. Placed(ht, sp, e, w)'
  BY <1>2, <1>13 DEF Placed
<1>20. OrdInv'
  BY <1>2, <1>4, <1>15, <1>18, <1>19 DEF OrdInv
<1>21. ReqInv'
  BY <1>2 DEF ReqInv
<1>22. ItemPut(new)
  <2>1. ASSUME NEW it PROVE Stores(node', allocated, it) <=> it = new \/ Stores(node, allocated, it)
    BY <1>2, <1>3, <1>7, <1>12, <1>15, <1>16, InsertStores
  <2>2. ASSUME NEW it, Stores(node, allocated, it) PROVE it.key # new.key
    BY <1>7, <1>13, <2>2 DEF Absent, Stores, InSeq, HasKey
  <2> QED BY <1>2, <2>1, <2>2 DEF ItemPut
<1>23. InsertStep
  BY <1>2, <1>5, <1>7, <1>22 DEF InsertStep
<1> QED BY <1>20, <1>21, <1>23 DEF MapStep

(* insert_non_full goes on in the child the key belongs to. *)
LEMMA insert_descendOrd ==
    ASSUME MInv, insert_descend
    PROVE  OrdInv' /\ ReqInv' /\ MapStep
<1>1. PICK p \in 1..(KeyCnt(n) + 1) :
         StopsAt(n, k, p) /\ Goto("insert_non_full", Child(n, p), k)
  BY DEF insert_descend
<1>2. /\ pc = "insert_non_full" /\ ~node[n].is_leaf
      /\ pc' = "insert_non_full" /\ n' = node[n].child[p] /\ k' = k /\ req' = req
      /\ node' = node /\ allocated' = allocated /\ root' = root
      /\ new_root' = new_root /\ hole' = hole /\ found' = found
      /\ p \in 1..(Len(node[n].keys) + 1)
  BY <1>1 DEF insert_descend, Goto, Child, KeyCnt
<1>3. n \in allocated /\ k \in Keys
  BY <1>2 DEF MInv, IInv, TypeOK, Working, AtInsert
<1>4. Top # NULL /\ Top' = Top
  BY <1>2, <1>3, InUse DEF MInv, Top
<1>5. PICK ht, sp, e, w : /\ Tree(node, allocated, Top, ht)
                          /\ Ordered(node, allocated, sp, e, w)
                          /\ Placed(ht, sp, e, w)
  BY <1>4 DEF MInv, OrdInv
<1>6. e = NULL /\ 2 * k \in sp[n] /\ Absent(node, allocated, k)
  BY <1>2, <1>5 DEF Placed
<1>7. PICK g : g = 2 * k
  OBVIOUS
<1>8. Between(node[n].keys, p, g) /\ g \in Int
  <2>0. ~Holds(n, k, p)
    BY <1>1, <1>3, <1>6, AbsentMiss
  <2>1. Between(node[n].keys, p, 2 * k + 0)
    BY <1>1, <1>3, <1>5, <2>0, StopsBetween
  <2>2. 2 * k + 0 = g /\ g \in Int
    BY <1>3, <1>7, KeysAssumption
  <2> QED BY <2>1, <2>2
<1>9. Room(node, allocated, Top, sp, node[n].child[p], g) /\ node[n].child[p] \in allocated
  BY <1>2, <1>3, <1>5, <1>6, <1>7, <1>8, ChildRoom
<1>10. PICK sq : sq = With(sp, node[n].child[p], g)
  OBVIOUS
<1>11. Ordered(node, allocated, sq, e, w) /\ g \in sq[node[n].child[p]]
  BY <1>5, <1>9, <1>10, AddMark
<1>12. Placed(ht, sq, e, w)'
  BY <1>2, <1>6, <1>7, <1>9, <1>11 DEF Placed
<1>13. OrdInv'
  BY <1>2, <1>4, <1>5, <1>11, <1>12 DEF OrdInv
<1>14. ReqInv'
  BY <1>2 DEF MInv, ReqInv
<1>15. StutterStep
  BY <1>2, SameHeap DEF StutterStep
<1> QED BY <1>13, <1>14, <1>15 DEF MapStep

(* insert_non_full, after split_child, goes on in the half the key belongs  *)
(* to.                                                                      *)
LEMMA insert_splitOrd ==
    ASSUME MInv, insert_split
    PROVE  OrdInv' /\ ReqInv' /\ MapStep
<1>1. PICK p \in 1..(KeyCnt(n) + 1), z \in Nodes :
         /\ StopsAt(n, k, p)
         /\ KeyCnt(Child(n, p)) = MAX_DEGREE
         /\ Fresh(z, allocated)
         /\ node' = split_child(node, n, p, Child(n, p), z)
         /\ allocated' = allocated \union {z}
         /\ Goto("insert_non_full", HalfFor(Child(n, p), z), k)
  BY DEF insert_split
<1>2. PICK y : y = node[n].child[p]
  OBVIOUS
<1>3. /\ pc = "insert_non_full" /\ ~node[n].is_leaf
      /\ pc' = "insert_non_full" /\ k' = k /\ req' = req
      /\ n' = IF node[y].keys[T].key < k THEN z ELSE y
      /\ root' = root /\ new_root' = new_root /\ hole' = hole /\ found' = found
      /\ p \in 1..(Len(node[n].keys) + 1)
      /\ Len(node[y].keys) = MAX_DEGREE
      /\ node' = split_child(node, n, p, y, z)
  BY <1>1, <1>2 DEF insert_split, Goto, Child, KeyCnt, HalfFor
<1>4. /\ n \in allocated /\ new_root \in allocated /\ Len(node[n].keys) < MAX_DEGREE
      /\ z \in Nodes \ allocated /\ k \in Keys /\ k \in Int
  BY <1>1, <1>3, KeysAssumption DEF MInv, IInv, AtInsert, TypeOK, Working, Fresh
<1>5. new_root # NULL /\ Top = new_root /\ Top' = new_root
  BY <1>3, <1>4, InUse DEF MInv, Top
<1>6. PICK ht, sp, e, w : /\ Tree(node, allocated, new_root, ht)
                          /\ Ordered(node, allocated, sp, e, w)
                          /\ Placed(ht, sp, e, w)
  BY <1>5 DEF MInv, OrdInv
<1>7. e = NULL /\ e \notin allocated /\ 2 * k \in sp[n] /\ Absent(node, allocated, k)
  BY <1>3, <1>6, TreeFacts DEF Placed
<1>8. PICK g : g = 2 * k
  OBVIOUS
<1>9. Between(node[n].keys, p, g) /\ g \in Int
  <2>0. ~Holds(n, k, p)
    BY <1>1, <1>4, <1>7, AbsentMiss
  <2>1. Between(node[n].keys, p, 2 * k + 0)
    BY <1>1, <1>4, <1>6, <2>0, StopsBetween
  <2>2. 2 * k + 0 = g /\ g \in Int
    BY <1>4, <1>8
  <2> QED BY <2>1, <2>2
<1>10. Room(node, allocated, new_root, sp, y, g) /\ y \in allocated
  BY <1>2, <1>3, <1>4, <1>6, <1>7, <1>8, <1>9, ChildRoom
<1>11. PICK s1 : s1 = With(sp, y, g)
  OBVIOUS
<1>12. Ordered(node, allocated, s1, e, w) /\ g \in s1[y]
  BY <1>6, <1>10, <1>11, AddMark
<1>13. SplitSite(node, allocated, n, p, y, z)
  BY <1>2, <1>3, <1>4 DEF SplitSite
<1>14. PICK hv : hv = [ht EXCEPT ![z] = ht[y]]
  OBVIOUS
<1>15. /\ SplitOf(node, node', n, p, y, z)
       /\ Tree(node', allocated \union {z}, new_root, hv)
  BY <1>3, <1>6, <1>13, <1>14, SplitTree
<1>16. \E sq : Belongs(node', allocated \union {z}, sq, e, w, n', k)
  <2>1. 2 * k \in s1[y]
    BY <1>8, <1>12
  <2>2. PICK c : c = IF node[y].keys[T].key < k THEN z ELSE y
    OBVIOUS
  <2>3. \E sq : Belongs(node', allocated \union {z}, sq, e, w, c, k)
    BY <1>4, <1>6, <1>7, <1>10, <1>12, <1>13, <1>15, <2>1, <2>2, SplitGoesOn
  <2> QED BY <1>3, <2>2, <2>3
<1>17. PICK sq : /\ Ordered(node', allocated \union {z}, sq, e, w) /\ 2 * k \in sq[n']
                 /\ Absent(node', allocated \union {z}, k)
  BY <1>16 DEF Belongs
<1>18. Placed(hv, sq, e, w)'
  BY <1>1, <1>3, <1>7, <1>17 DEF Placed
<1>19. OrdInv'
  BY <1>1, <1>5, <1>15, <1>17, <1>18 DEF OrdInv
<1>20. ReqInv'
  BY <1>3 DEF MInv, ReqInv
<1>21. SameItems
  <2>1. ASSUME NEW it PROVE Stores(node', allocated \union {z}, it) <=> Stores(node, allocated, it)
    BY <1>6, <1>10, <1>13, <1>15, SplitStores
  <2> QED BY <1>1, <2>1 DEF SameItems
<1>22. StutterStep
  BY <1>3, <1>21 DEF StutterStep
<1> QED BY <1>19, <1>20, <1>22 DEF MapStep

(* The exception of an exhausted pool leaves an ordered tree: nothing was   *)
(* moved yet.                                                               *)
LEMMA bad_allocOrd ==
    ASSUME MInv, bad_alloc
    PROVE  OrdInv' /\ ReqInv' /\ MapStep
<1>1. /\ pc' = "bad_alloc" /\ node' = node /\ allocated' = allocated /\ root' = root
      /\ req' = req /\ n' = n /\ k' = k /\ new_root' = new_root
      /\ hole' = hole /\ found' = found
  BY DEF bad_alloc
<1>2. Top' = Top
  BY <1>1 DEF Top
<1>3. pc # "idle"
  <2> SUFFICES ASSUME pc = "idle" PROVE FALSE
    OBVIOUS
  <2>1. Needed = 0
    BY DEF Needed
  <2>2. Cardinality(Nodes \ allocated) \in Nat
    BY NodesAssumption, FS_Subset, FS_CardinalityType
  <2> QED BY <2>1, <2>2 DEF bad_alloc
<1>4. ReqInv'
  BY <1>1, <1>3 DEF MInv, ReqInv
<1>5. ASSUME Top # NULL PROVE OrdInv'
  <2>1. PICK ht, sp, e, w : /\ Tree(node, allocated, Top, ht)
                            /\ Ordered(node, allocated, sp, e, w)
    BY <1>5 DEF MInv, OrdInv
  <2>2. Placed(ht, sp, e, w)'
    BY <1>1 DEF Placed
  <2> QED BY <1>1, <1>2, <2>1, <2>2 DEF OrdInv
<1>6. OrdInv'
  BY <1>2, <1>5 DEF OrdInv
<1>7. StutterStep
  BY <1>1, SameHeap DEF StutterStep
<1> QED BY <1>4, <1>6, <1>7 DEF MapStep

-----------------------------------------------------------------------------
(* What holds wherever remove_1d is below its root. *)
LEMMA RemovesOrd ==
    ASSUME MInv, pc \in Removing
    PROVE  /\ root \in allocated /\ new_root = NULL /\ Top = root /\ root # NULL
           /\ n \in allocated /\ req \in Map!Requests /\ req.op = "remove"
           /\ \E ht, sp, e, w : /\ Tree(node, allocated, root, ht)
                                /\ Ordered(node, allocated, sp, e, w)
                                /\ Placed(ht, sp, e, w)
<1>1. /\ root \in allocated /\ new_root = NULL /\ Top = root /\ root # NULL
      /\ n \in allocated
  BY Removes DEF MInv
<1>2. req \in Map!Requests /\ req.op = "remove"
  BY DEF MInv, ReqInv, Removing
<1>3. \E ht, sp, e, w : /\ Tree(node, allocated, root, ht)
                        /\ Ordered(node, allocated, sp, e, w)
                        /\ Placed(ht, sp, e, w)
  BY <1>1 DEF MInv, OrdInv
<1> QED BY <1>1, <1>2, <1>3

(* remove() looks for a key of the tree. *)
LEMMA RemovesKey ==
    ASSUME MInv, pc = "remove", NEW ht, NEW sp, NEW e, NEW w,
           Tree(node, allocated, root, ht), Ordered(node, allocated, sp, e, w),
           Placed(ht, sp, e, w)
    PROVE  /\ Descending(node, allocated, ht, sp, e, w, n, k, req.key)
           /\ k \in Keys /\ k \in Int
<1>1. Descending(node, allocated, ht, sp, e, w, n, k, req.key)
  BY DEF Placed
<1>2. PICK y \in allocated : HasKey(node, y, k)
  BY <1>1, DescendingHas
<1>3. k \in Int
  BY <1>2, KeyMark
<1>4. k \in Keys \union {NULL}
  BY DEF MInv, IInv, TypeOK
<1> QED BY <1>1, <1>3, <1>4, NullAssumption

(* A step after which remove() goes on. *)
LEMMA GoesOn ==
    ASSUME MInv, pc \in Removing, pc' = "remove", req' = req, root' = root,
           new_root' = new_root, NEW ht, NEW sp, NEW e, NEW w,
           Tree(node', allocated', root, ht), Ordered(node', allocated', sp, e, w),
           Descending(node', allocated', ht, sp, e, w, n', k', req.key)
    PROVE  OrdInv' /\ ReqInv'
<1>1. /\ new_root = NULL /\ root # NULL /\ req \in Map!Requests /\ req.op = "remove"
  BY RemovesOrd
<1>2. Top' = root
  BY <1>1 DEF Top
<1>3. Placed(ht, sp, e, w)'
  BY DEF Placed
<1>4. OrdInv'
  BY <1>2, <1>3 DEF OrdInv
<1>5. ReqInv'
  BY <1>1 DEF ReqInv
<1> QED BY <1>4, <1>5

(* Where remove() must descend, it may go on in the child. *)
LEMMA DescendsTo ==
    ASSUME MInv, pc = "remove", NEW p \in 1..(Len(node[n].keys) + 1), MustDescend(p),
           NEW ht, NEW sp, NEW e, NEW w,
           Tree(node, allocated, root, ht), Ordered(node, allocated, sp, e, w),
           Placed(ht, sp, e, w), NEW c, c = node[n].child[p]
    PROVE  /\ k \in Int /\ Under(n, allocated, ht, e)
           /\ \E sq : /\ Ordered(node, allocated, sq, e, w)
                      /\ Descending(node, allocated, ht, sq, e, w, c, k, req.key)
<1>1. n \in allocated /\ ~node[n].is_leaf /\ StopsAt(n, k, p) /\ ~Holds(n, k, p)
  BY RemovesOrd DEF Removing, MustDescend
<1>2. /\ Descending(node, allocated, ht, sp, e, w, n, k, req.key)
      /\ k \in Keys /\ k \in Int
  BY RemovesKey
<1>3. ~HasKey(node, n, k)
  BY <1>1, <1>2, NotHere
<1>4. \A d \in {-1, 0, 1} : Between(node[n].keys, p, 2 * k + d)
  BY <1>1, <1>2, StopsBetween
<1>5. \E sq : /\ Ordered(node, allocated, sq, e, w)
              /\ Descending(node, allocated, ht, sq, e, w, c, k, req.key)
  BY <1>1, <1>2, <1>3, <1>4, DescendOrdered
<1>6. Under(n, allocated, ht, e)
  BY <1>2, DescendingHas
<1> QED BY <1>2, <1>5, <1>6

(* remove() goes on in the child the key is below. *)
LEMMA remove_descendOrd ==
    ASSUME MInv, remove_descend
    PROVE  OrdInv' /\ ReqInv' /\ MapStep
<1>1. PICK p \in 1..(KeyCnt(n) + 1) :
         MustDescend(p) /\ Goto("remove", Child(n, p), k)
  BY DEF remove_descend
<1>2. /\ pc = "remove" /\ ~node[n].is_leaf
      /\ pc' = "remove" /\ n' = node[n].child[p] /\ k' = k /\ req' = req
      /\ node' = node /\ allocated' = allocated /\ root' = root
      /\ new_root' = new_root /\ hole' = hole /\ found' = found
      /\ p \in 1..(Len(node[n].keys) + 1)
  BY <1>1 DEF remove_descend, MustDescend, Goto, Child, KeyCnt
<1>3. PICK ht, sp, e, w : /\ Tree(node, allocated, root, ht)
                          /\ Ordered(node, allocated, sp, e, w)
                          /\ Placed(ht, sp, e, w)
  BY <1>2, RemovesOrd DEF Removing
<1>4. PICK c : c = node[n].child[p]
  OBVIOUS
<1>5. PICK sq : /\ Ordered(node, allocated, sq, e, w)
                /\ Descending(node, allocated, ht, sq, e, w, c, k, req.key)
  BY <1>1, <1>2, <1>3, <1>4, DescendsTo
<1>6. OrdInv' /\ ReqInv'
  <2>1. /\ Tree(node', allocated', root, ht) /\ Ordered(node', allocated', sq, e, w)
        /\ Descending(node', allocated', ht, sq, e, w, n', k', req.key)
    BY <1>2, <1>3, <1>4, <1>5
  <2> QED BY <1>2, <2>1, GoesOn DEF Removing
<1>7. StutterStep
  BY <1>2, SameHeap DEF StutterStep
<1> QED BY <1>6, <1>7 DEF MapStep

(* The merge of two children of n, in one of which remove() would go on. *)
LEMMA MergeGoesOn ==
    ASSUME MInv, NEW q, MergedAt(q), req' = req,
           NEW ht, NEW sp, NEW e, NEW w, NEW l, NEW r,
           Tree(node, allocated, root, ht), Ordered(node, allocated, sp, e, w),
           l = node[n].child[q], r = node[n].child[q + 1]
    PROVE  /\ Beside(node, allocated, n, q, l, r)
           /\ MergeOf(node, node', n, q, l, r)
           /\ Tree(node', allocated \ {r}, root, ht)
           /\ StutterStep
<1>1. /\ pc = "remove" /\ ~node[n].is_leaf /\ q \in 1..Len(node[n].keys)
      /\ node' = merge(node, n, q) /\ allocated' = allocated \ {r} /\ found' = found
  BY DEF MergedAt
<1>2. n \in allocated /\ Top = root
  BY <1>1, RemovesOrd DEF Removing
<1>3. Beside(node, allocated, n, q, l, r)
  BY <1>1, <1>2 DEF Beside
<1>4. Len(node[l].keys) = MIN_DEGREE /\ Len(node[r].keys) = MIN_DEGREE
  <2>1. l \in allocated /\ r \in allocated /\ l # root /\ r # root
    <3>1. q \in 1..(Len(node[n].keys) + 1) /\ q + 1 \in 1..(Len(node[n].keys) + 1)
      BY <1>1, <1>2, InUse DEF MInv
    <3> QED BY <1>1, <1>2, <3>1, ChildInUse DEF MInv
  <2>2. /\ Len(node[l].keys) \in Nat /\ Len(node[l].keys) >= MIN_DEGREE
        /\ Len(node[r].keys) \in Nat /\ Len(node[r].keys) >= MIN_DEGREE
    BY <1>2, <2>1, InUse DEF MInv
  <2>3. Len(node[l].keys) < MIN_DEGREE + 1 /\ Len(node[r].keys) < MIN_DEGREE + 1
    BY DEF MergedAt
  <2>4. \A a \in Nat : a >= MIN_DEGREE /\ a < MIN_DEGREE + 1 => a = MIN_DEGREE
    BY TAssumption DEF MIN_DEGREE
  <2> QED BY <2>2, <2>3, <2>4
<1>5. MergeSite(node, allocated, root, n, q, l, r)
  <2>1. n = root \/ Len(node[n].keys) >= MIN_DEGREE + 1
    BY <1>1 DEF MInv, IInv, AtRemove
  <2> QED BY <1>1, <1>2, <1>4, <2>1 DEF MergeSite
<1>6. MergeOf(node, node', n, q, l, r) /\ Tree(node', allocated \ {r}, root, ht)
  BY <1>1, <1>5, MergeTree
<1>7. SameItems
  <2>1. ASSUME NEW it PROVE Stores(node', allocated \ {r}, it) <=> Stores(node, allocated, it)
    BY <1>3, <1>6, MergeStores
  <2> QED BY <1>1, <2>1 DEF SameItems
<1> QED BY <1>1, <1>3, <1>6, <1>7 DEF StutterStep

(* remove() is not about to remove an exempt key from an inner node. *)
LEMMA HeldOnce ==
    ASSUME NEW t, NEW ht, NEW sp, NEW e, NEW w, NEW x, NEW key, NEW rk,
           Tree(node, allocated, t, ht), Ordered(node, allocated, sp, e, w),
           Descending(node, allocated, ht, sp, e, w, x, key, rk),
           ~node[x].is_leaf, HasKey(node, x, key)
    PROVE  e = NULL
<1> SUFFICES ASSUME e # NULL PROVE FALSE
  OBVIOUS
<1>1. /\ x \in allocated /\ e \in allocated /\ Under(x, allocated, ht, e)
  BY DescendingHas
<1>2. PICK y \in allocated : HasKey(node, y, key) /\ ht[y] = 0
  BY DescendingHas
<1>3. ht[x] # 0 /\ ht[x] \in Nat /\ ht[e] \in Nat
  BY <1>1, TreeFacts
<1>4. ht[e] = ht[x] - 1
  BY <1>1, <1>2, <1>3, ExemptBelow
<1>5. ht[x] <= ht[e]
  BY <1>1 DEF Under
<1> QED BY <1>3, <1>4, <1>5

(* removeFromNonLeaf, when neither child beside the key can spare one,      *)
(* goes on in the merged child, which has the key.                          *)
LEMMA removeFromNonLeaf_mergeOrd ==
    ASSUME MInv, removeFromNonLeaf_merge
    PROVE  OrdInv' /\ ReqInv' /\ MapStep
<1>1. PICK p \in 1..Len(node[n].keys) : Holds(n, k, p) /\ req' = req /\ MergedAt(p)
  BY NonLeafMerges DEF MInv
<1>2. PICK l, r : l = node[n].child[p] /\ r = node[n].child[p + 1]
  OBVIOUS
<1>3. /\ pc = "remove" /\ ~node[n].is_leaf /\ pc' = "remove" /\ n' = l /\ k' = k
      /\ root' = root /\ new_root' = new_root /\ allocated' = allocated \ {r}
      /\ node[n].keys[p].key = k
  BY <1>1, <1>2 DEF MergedAt, Holds
<1>4. PICK ht, sp, e, w : /\ Tree(node, allocated, root, ht)
                          /\ Ordered(node, allocated, sp, e, w)
                          /\ Placed(ht, sp, e, w)
  BY <1>3, RemovesOrd DEF Removing
<1>5. /\ Beside(node, allocated, n, p, l, r)
      /\ MergeOf(node, node', n, p, l, r)
      /\ Tree(node', allocated \ {r}, root, ht)
      /\ StutterStep
  BY <1>1, <1>2, <1>4, MergeGoesOn
<1>6. Descending(node, allocated, ht, sp, e, w, n, k, req.key) /\ k \in Int
  BY <1>3, <1>4, RemovesKey
<1>7. e = NULL
  <2>1. HasKey(node, n, k)
    BY <1>1, <1>3 DEF HasKey
  <2> QED BY <1>3, <1>4, <1>6, <2>1, HeldOnce
<1>8. PICK sq : /\ Ordered(node', allocated \ {r}, sq, e, w)
                /\ Descending(node', allocated \ {r}, ht, sq, e, w, l, k, req.key)
  BY <1>3, <1>4, <1>5, <1>6, <1>7, MergeHeld
<1>9. OrdInv' /\ ReqInv'
  <2>1. /\ Tree(node', allocated', root, ht) /\ Ordered(node', allocated', sq, e, w)
        /\ Descending(node', allocated', ht, sq, e, w, n', k', req.key)
    BY <1>3, <1>5, <1>8
  <2> QED BY <1>1, <1>3, <2>1, GoesOn DEF Removing
<1> QED BY <1>5, <1>9 DEF MapStep

(* fill(), when no sibling can spare a key, merges; remove() goes on in     *)
(* the merged child, which the key is below.                                *)
LEMMA fill_mergeOrd ==
    ASSUME MInv, fill_merge
    PROVE  OrdInv' /\ ReqInv' /\ MapStep
<1>1. PICK p \in 1..(Len(node[n].keys) + 1), q \in 1..Len(node[n].keys) :
         MustDescend(p) /\ p \in {q, q + 1} /\ req' = req /\ MergedAt(q)
  BY FillMerges DEF MInv
<1>2. PICK l, r : l = node[n].child[q] /\ r = node[n].child[q + 1]
  OBVIOUS
<1>3. PICK c : c = node[n].child[p]
  OBVIOUS
<1>4. /\ pc = "remove" /\ pc' = "remove" /\ n' = l /\ k' = k
      /\ root' = root /\ new_root' = new_root /\ allocated' = allocated \ {r}
      /\ c \in {l, r}
  BY <1>1, <1>2, <1>3 DEF MergedAt
<1>5. PICK ht, sp, e, w : /\ Tree(node, allocated, root, ht)
                          /\ Ordered(node, allocated, sp, e, w)
                          /\ Placed(ht, sp, e, w)
  BY <1>4, RemovesOrd DEF Removing
<1>6. k \in Int /\ Under(n, allocated, ht, e)
  BY <1>1, <1>3, <1>4, <1>5, DescendsTo
<1>7. PICK s1 : /\ Ordered(node, allocated, s1, e, w)
                /\ Descending(node, allocated, ht, s1, e, w, c, k, req.key)
  BY <1>1, <1>3, <1>4, <1>5, DescendsTo
<1>8. /\ Beside(node, allocated, n, q, l, r)
      /\ MergeOf(node, node', n, q, l, r)
      /\ Tree(node', allocated \ {r}, root, ht)
      /\ StutterStep
  BY <1>1, <1>2, <1>5, MergeGoesOn
<1>9. PICK sq : /\ Ordered(node', allocated \ {r}, sq, e, w)
                /\ Descending(node', allocated \ {r}, ht, sq, e, w, l, k, req.key)
  <2>1. Tree(node, allocated, root, ht) /\ (c = l \/ c = r)
    BY <1>4, <1>5
  <2>2. Beside(node, allocated, n, q, l, r) /\ MergeOf(node, node', n, q, l, r)
    BY <1>8
  <2> QED BY <1>6, <1>7, <2>1, <2>2, MergeDescends
<1>10. OrdInv' /\ ReqInv'
  <2>1. /\ Tree(node', allocated', root, ht) /\ Ordered(node', allocated', sq, e, w)
        /\ Descending(node', allocated', ht, sq, e, w, n', k', req.key)
    BY <1>4, <1>8, <1>9
  <2> QED BY <1>1, <1>4, <2>1, GoesOn DEF Removing
<1> QED BY <1>8, <1>10 DEF MapStep

(* A borrow neither copies nor drops a key. *)
LEMMA LendStores ==
    ASSUME NEW H, NEW A, NEW t, NEW ht, Tree(H, A, t, ht),
           NEW x, NEW q, NEW l, NEW r, Beside(H, A, x, q, l, r),
           NEW ch, NEW sib, NEW d, Lends(l, r, ch, sib, d),
           BorrowSite(H, A, x, ch, sib),
           NEW G, BorrowOf(H, G, x, q, ch, sib, d), NEW it
    PROVE  Stores(G, A, it) <=> Stores(H, A, it)
<1>1. q \in 1..Len(H[x].keys)
  BY DEF Beside
<1>2. CASE d = 0
  <2>1. BorrowOf(H, G, x, q, ch, sib, 0) /\ 0 \in {0, 1}
    BY <1>2
  <2> QED BY <1>1, <2>1, BorrowStores
<1>3. CASE d = 1
  <2>1. BorrowOf(H, G, x, q, ch, sib, 1) /\ 1 \in {0, 1}
    BY <1>3
  <2> QED BY <1>1, <2>1, BorrowStores
<1> QED BY <1>2, <1>3 DEF Lends

(* fill() borrows a key; the key that remove() looks for is still below     *)
(* the child.                                                               *)
LEMMA fill_borrowOrd ==
    ASSUME MInv, fill_borrow
    PROVE  OrdInv' /\ ReqInv' /\ MapStep
<1>0. PICK p \in 1..(Len(node[n].keys) + 1), q \in 1..Len(node[n].keys) : \E sib, d :
         /\ MustDescend(p) /\ req' = req
         /\ \/ d = 1 /\ p = q + 1 /\ sib = node[n].child[q]
            \/ d = 0 /\ p = q /\ sib = node[n].child[q + 1]
         /\ Borrowed(q, node[n].child[p], sib, d)
  BY FillBorrows DEF MInv
<1>1. PICK sib, d :
         /\ MustDescend(p) /\ req' = req
         /\ \/ d = 1 /\ p = q + 1 /\ sib = node[n].child[q]
            \/ d = 0 /\ p = q /\ sib = node[n].child[q + 1]
         /\ Borrowed(q, node[n].child[p], sib, d)
  BY <1>0
<1>2. PICK l, r : l = node[n].child[q] /\ r = node[n].child[q + 1]
  OBVIOUS
<1>3. PICK ch : ch = node[n].child[p]
  OBVIOUS
<1>4. /\ pc = "remove" /\ pc' = "remove" /\ n' = ch /\ k' = k /\ found' = found
      /\ root' = root /\ new_root' = new_root /\ allocated' = allocated
      /\ d \in {0, 1}
      /\ BorrowSite(node, allocated, n, ch, sib)
      /\ BorrowOf(node, node', n, q, ch, sib, d)
  BY <1>1, <1>3 DEF Borrowed
<1>5. Lends(l, r, ch, sib, d)
  BY <1>1, <1>2, <1>3 DEF Lends
<1>6. Beside(node, allocated, n, q, l, r)
  <2>1. n \in allocated /\ ~node[n].is_leaf
    BY <1>1, <1>4, RemovesOrd DEF Removing, MustDescend
  <2> QED BY <1>1, <1>2, <2>1 DEF Beside
<1>7. PICK ht, sp, e, w : /\ Tree(node, allocated, root, ht)
                          /\ Ordered(node, allocated, sp, e, w)
                          /\ Placed(ht, sp, e, w)
  BY <1>4, RemovesOrd DEF Removing
<1>8. k \in Int /\ Under(n, allocated, ht, e)
  BY <1>1, <1>3, <1>4, <1>7, DescendsTo
<1>9. PICK s1 : /\ Ordered(node, allocated, s1, e, w)
                /\ Descending(node, allocated, ht, s1, e, w, ch, k, req.key)
  BY <1>1, <1>3, <1>4, <1>7, DescendsTo
<1>10. Tree(node', allocated, root, ht)
  BY <1>4, <1>7, BorrowTree
<1>11. PICK sq : /\ Ordered(node', allocated, sq, e, w)
                 /\ Descending(node', allocated, ht, sq, e, w, ch, k, req.key)
  BY <1>4, <1>5, <1>6, <1>7, <1>8, <1>9, BorrowDescends
<1>12. OrdInv' /\ ReqInv'
  <2>1. /\ Tree(node', allocated', root, ht) /\ Ordered(node', allocated', sq, e, w)
        /\ Descending(node', allocated', ht, sq, e, w, n', k', req.key)
    BY <1>4, <1>10, <1>11
  <2> QED BY <1>1, <1>4, <2>1, GoesOn DEF Removing
<1>13. SameItems
  <2>1. ASSUME NEW it PROVE Stores(node', allocated, it) <=> Stores(node, allocated, it)
    BY <1>4, <1>5, <1>6, <1>7, LendStores
  <2> QED BY <1>4, <2>1 DEF SameItems
<1>14. StutterStep
  BY <1>1, <1>4, <1>13 DEF StutterStep
<1> QED BY <1>12, <1>14 DEF MapStep

-----------------------------------------------------------------------------
(* The child beside key i that getPred, or getSucc, begins in. *)
From(dir, i) == IF dir = "getPred" THEN i ELSE i + 1
(* The value next to a key on that side. *)
Brink(dir, key) == IF dir = "getPred" THEN 2 * key - 1 ELSE 2 * key + 1

(* removeFromNonLeaf begins a walk beside the key it found. *)
LEMMA WalkBegins ==
    ASSUME MInv, pc = "remove", ~node[n].is_leaf,
           NEW p \in 1..Len(node[n].keys), node[n].keys[p].key = k,
           NEW dir \in {"getPred", "getSucc"},
           NEW c, c = node[n].child[From(dir, p)]
    PROVE  /\ k = req.key
           /\ \E ht, sp, w : /\ Tree(node, allocated, root, ht)
                             /\ Ordered(node, allocated, sp, NULL, w)
                             /\ Walking(node, ht, sp, dir, n, p, c, k)
<1>1. n \in allocated
  BY RemovesOrd DEF Removing
<1>2. PICK ht, sp, e, w : /\ Tree(node, allocated, root, ht)
                          /\ Ordered(node, allocated, sp, e, w)
                          /\ Placed(ht, sp, e, w)
  BY RemovesOrd DEF Removing
<1>3. Descending(node, allocated, ht, sp, e, w, n, k, req.key) /\ k \in Int
  BY <1>2, RemovesKey
<1>4. e = NULL
  <2>1. HasKey(node, n, k)
    BY DEF HasKey
  <2> QED BY <1>2, <1>3, <2>1, HeldOnce
<1>5. k = req.key /\ Near(sp[n], k)
  BY <1>3, <1>4 DEF Descending
<1>6. PICK g : g = Brink(dir, k)
  OBVIOUS
<1>7. PICK j : j = From(dir, p)
  OBVIOUS
<1>8. Mark(node[n].keys, p) = 2 * k
  BY DEF Mark
<1>9. Len(node[n].keys) \in Nat
  BY <1>1, InUse DEF MInv
<1>10. /\ Between(node[n].keys, p, 2 * k - 1)
       /\ Between(node[n].keys, p + 1, 2 * k + 1)
  BY <1>1, <1>2, <1>8, BesideKey
<1>11. /\ g \in sp[n] /\ Between(node[n].keys, j, g)
       /\ j \in 1..(Len(node[n].keys) + 1)
  <2>1. CASE dir = "getPred"
    BY <1>5, <1>6, <1>7, <1>9, <1>10, <2>1 DEF Near, Brink, From
  <2>2. CASE dir = "getSucc"
    BY <1>5, <1>6, <1>7, <1>9, <1>10, <2>2 DEF Near, Brink, From
  <2> QED BY <2>1, <2>2
<1>12. c = node[n].child[j]
  BY <1>7
<1>13. Room(node, allocated, root, sp, c, g) /\ c \in allocated
  BY <1>1, <1>2, <1>11, <1>12, ChildRoom
<1>14. PICK sq : sq = With(sp, c, g)
  OBVIOUS
<1>15. Ordered(node, allocated, sq, e, w) /\ g \in sq[c]
  BY <1>2, <1>13, <1>14, AddMark
<1>16. ht[c] <= ht[c]
  BY <1>2, <1>13, TreeFacts
<1>17. Walking(node, ht, sq, dir, n, p, c, k)
  BY <1>6, <1>15, <1>16 DEF Walking, Brink, From
<1> QED BY <1>2, <1>4, <1>5, <1>15, <1>17

(* removeFromNonLeaf begins getPred or getSucc in the child beside the      *)
(* key.                                                                     *)
LEMMA removeFromNonLeaf_walkOrd ==
    ASSUME MInv, removeFromNonLeaf_walk
    PROVE  OrdInv' /\ ReqInv' /\ MapStep
<1>1. PICK p \in 1..KeyCnt(n) :
         /\ StopsAt(n, k, p)
         /\ Holds(n, k, p)
         /\ hole' = [node |-> n, idx |-> p]
         /\ \/ /\ Spare(Child(n, p))
               /\ Goto("getPred", Child(n, p), k)
            \/ /\ ~Spare(Child(n, p))
               /\ Spare(Child(n, p + 1))
               /\ Goto("getSucc", Child(n, p + 1), k)
  BY DEF removeFromNonLeaf_walk
<1>2. PICK dir : dir = pc'
  OBVIOUS
<1>3. /\ pc = "remove" /\ ~node[n].is_leaf
      /\ node' = node /\ allocated' = allocated /\ root' = root
      /\ new_root' = new_root /\ found' = found
      /\ p \in 1..Len(node[n].keys) /\ node[n].keys[p].key = k
      /\ hole'.node = n /\ hole'.idx = p
  BY <1>1 DEF removeFromNonLeaf_walk, KeyCnt, Holds
<1>4. /\ dir \in {"getPred", "getSucc"} /\ n' = node[n].child[From(dir, p)]
      /\ k' = k /\ req' = req
  <2>1. CASE Goto("getPred", Child(n, p), k)
    BY <1>2, <2>1 DEF Child, Goto, From
  <2>2. CASE Goto("getSucc", Child(n, p + 1), k)
    BY <1>2, <2>2 DEF Child, Goto, From
  <2> QED BY <1>1, <2>1, <2>2
<1>5. PICK c : c = node[n].child[From(dir, p)]
  OBVIOUS
<1>6. /\ root # NULL /\ new_root = NULL /\ req \in Map!Requests /\ req.op = "remove"
  BY <1>3, RemovesOrd DEF Removing
<1>7. k = req.key
  BY <1>3, <1>4, <1>5, WalkBegins
<1>8. PICK ht, sp, w : /\ Tree(node, allocated, root, ht)
                       /\ Ordered(node, allocated, sp, NULL, w)
                       /\ Walking(node, ht, sp, dir, n, p, c, k)
  BY <1>3, <1>4, <1>5, WalkBegins
<1>9. Placed(ht, sp, NULL, w)'
  BY <1>2, <1>3, <1>4, <1>5, <1>8 DEF Placed
<1>10. OrdInv'
  <2>1. Top' = root
    BY <1>3, <1>6 DEF Top
  <2> QED BY <1>3, <1>8, <1>9, <2>1 DEF OrdInv
<1>11. ReqInv'
  BY <1>2, <1>4, <1>6, <1>7 DEF ReqInv
<1>12. StutterStep
  BY <1>3, <1>4, SameHeap DEF StutterStep
<1> QED BY <1>10, <1>11, <1>12 DEF MapStep

(* The keys of the nodes of a walk are on its side of the key. *)
LEMMA WalkSide ==
    ASSUME NEW H, NEW A, NEW t, NEW ht, Tree(H, A, t, ht),
           NEW sp, NEW e, NEW w, Ordered(H, A, sp, e, w), e \notin A,
           NEW x \in A, ~H[x].is_leaf, NEW i \in 1..Len(H[x].keys),
           NEW y \in A, NEW key, NEW dir, Walking(H, ht, sp, dir, x, i, y, key),
           NEW c, c = H[x].child[From(dir, i)],
           NEW v \in sp[y]
    PROVE  /\ v \in sp[c] /\ v \in Int /\ c \in A
           /\ dir = "getPred" => v < Mark(H[x].keys, i)
           /\ dir # "getPred" => Mark(H[x].keys, i) < v
<1>1. sp[y] \subseteq sp[c]
  BY DEF Walking, From
<1>2. PICK j : j = From(dir, i)
  OBVIOUS
<1>3. Len(H[x].keys) \in Nat /\ Len(H[x].child) = Len(H[x].keys) + 1
  BY TreeFacts
<1>4. j \in 1..Len(H[x].child) /\ c = H[x].child[j]
  BY <1>2, <1>3 DEF From
<1>5. c \in A
  BY <1>4, TreeChild
<1>6. v \in sp[H[x].child[j]]
  BY <1>1, <1>4
<1>7. /\ j <= i => v <= Mark(H[x].keys, i)
      /\ i < j => Mark(H[x].keys, i) <= v
      /\ v = Mark(H[x].keys, i) => H[x].child[j] = e
  BY <1>4, <1>6, ChildSpan
<1>8. v # Mark(H[x].keys, i)
  BY <1>4, <1>5, <1>7
<1>9. Mark(H[x].keys, i) \in Int /\ v \in Int
  <2>1. sp \in [Nodes -> SUBSET Int] /\ y \in Nodes
    BY TreeFacts DEF Ordered
  <2> QED BY <2>1, MarkInt
<1> QED BY <1>1, <1>2, <1>5, <1>7, <1>8, <1>9 DEF From

-----------------------------------------------------------------------------
(* getPred and getSucc stay on the side of the key they began on, and next  *)
(* to it.                                                                   *)
LEMMA walkOrd ==
    ASSUME MInv, walk
    PROVE  OrdInv' /\ ReqInv' /\ MapStep
<1>1. PICK j : j = IF pc = "getPred" THEN Len(node[n].keys) + 1 ELSE 1
  OBVIOUS
<1>2. /\ pc \in {"getPred", "getSucc"} /\ ~node[n].is_leaf
      /\ pc' = pc /\ n' = node[n].child[j] /\ k' = k /\ req' = req
      /\ node' = node /\ allocated' = allocated /\ root' = root
      /\ new_root' = new_root /\ hole' = hole /\ found' = found
  BY <1>1 DEF walk, Goto, Child, KeyCnt
<1>3. /\ root # NULL /\ new_root = NULL /\ Top = root /\ n \in allocated
  BY <1>2, RemovesOrd DEF Removing
<1>4. PICK ht, sp, e, w : /\ Tree(node, allocated, root, ht)
                          /\ Ordered(node, allocated, sp, e, w)
                          /\ Placed(ht, sp, e, w)
  BY <1>2, RemovesOrd DEF Removing
<1>5. PICK dir, x, i : dir = pc /\ x = hole.node /\ i = hole.idx
  OBVIOUS
<1>6. e = NULL /\ e \notin allocated /\ Walking(node, ht, sp, dir, x, i, n, k)
  BY <1>2, <1>4, <1>5, TreeFacts DEF Placed
<1>7. x \in allocated /\ ~node[x].is_leaf /\ i \in 1..Len(node[x].keys)
  BY <1>2, <1>5 DEF MInv, IInv, AtWalk
<1>8. PICK c : c = node[x].child[From(dir, i)]
  OBVIOUS
<1>9. PICK g : g = Brink(dir, k)
  OBVIOUS
<1>10. /\ node[x].keys[i].key = k /\ ht[n] <= ht[c] /\ sp[n] \subseteq sp[c] /\ g \in sp[n]
  BY <1>6, <1>8, <1>9 DEF Walking, From, Brink
<1>11. k \in Int /\ Mark(node[x].keys, i) = 2 * k
  BY <1>4, <1>7, <1>10, MarkInt DEF Mark
<1>12. Len(node[n].keys) \in Nat /\ j \in 1..(Len(node[n].keys) + 1)
  BY <1>1, <1>3, InUse DEF MInv
<1>13. ASSUME NEW l \in 1..Len(node[n].keys)
       PROVE  /\ dir = "getPred" => Mark(node[n].keys, l) < g
              /\ dir # "getPred" => g < Mark(node[n].keys, l)
  <2>1. PICK v : v = Mark(node[n].keys, l)
    OBVIOUS
  <2>2. v \in sp[n] /\ node[n].keys[l].key \in Int /\ v = 2 * node[n].keys[l].key
    <3>1. Sorted(node, n, sp, e, w)
      BY <1>3, <1>4 DEF Ordered
    <3> QED BY <1>3, <1>4, <2>1, <3>1, MarkInt DEF Sorted, Mark
  <2>3. /\ dir = "getPred" => v < 2 * k
        /\ dir # "getPred" => 2 * k < v
    BY <1>3, <1>4, <1>6, <1>7, <1>8, <1>11, <2>2, WalkSide
  <2> QED BY <1>9, <1>11, <2>1, <2>2, <2>3 DEF Brink
<1>14. Between(node[n].keys, j, g)
  <2>1. CASE dir = "getPred"
    BY <1>1, <1>5, <1>12, <1>13, <2>1 DEF Between
  <2>2. CASE dir # "getPred"
    BY <1>1, <1>5, <1>12, <1>13, <2>2 DEF Between
  <2> QED BY <2>1, <2>2
<1>15. PICK y : y = node[n].child[j]
  OBVIOUS
<1>16. /\ Room(node, allocated, root, sp, y, g) /\ y \in allocated
       /\ ht[y] = ht[n] - 1 /\ ht[n] \in Nat
  BY <1>2, <1>3, <1>4, <1>10, <1>12, <1>14, <1>15, ChildRoom
<1>17. PICK sq : sq = With(sp, y, g)
  OBVIOUS
<1>18. /\ Ordered(node, allocated, sq, e, w) /\ sq[y] = sp[y] \union {g}
       /\ \A u \in allocated : sp[u] \subseteq sq[u]
  BY <1>4, <1>16, <1>17, AddMark
<1>19. c \in allocated /\ ht[c] \in Nat
  <2>1. c \in allocated
    BY <1>3, <1>4, <1>6, <1>7, <1>8, <1>10, WalkSide
  <2> QED BY <1>4, <2>1, TreeFacts
<1>20. sp[y] \subseteq sp[n]
  <2>1. j \in 1..Len(node[n].child)
    BY <1>2, <1>3, <1>4, <1>12, TreeFacts
  <2> QED BY <1>3, <1>4, <1>15, <2>1, ChildSpan
<1>21. Walking(node, ht, sq, dir, x, i, y, k)
  <2>1. ht[y] <= ht[c]
    BY <1>10, <1>16, <1>19
  <2>2. sq[y] \subseteq sq[c]
    BY <1>10, <1>18, <1>19, <1>20
  <2>3. g \in sq[y]
    BY <1>18
  <2> QED BY <1>8, <1>9, <1>10, <2>1, <2>2, <2>3 DEF Walking, From, Brink
<1>22. Placed(ht, sq, e, w)'
  BY <1>2, <1>5, <1>6, <1>15, <1>21 DEF Placed
<1>23. OrdInv'
  <2>1. Top' = root
    BY <1>2, <1>3 DEF Top
  <2> QED BY <1>2, <1>4, <1>18, <1>22, <2>1 DEF OrdInv
<1>24. ReqInv'
  BY <1>2 DEF MInv, ReqInv
<1>25. StutterStep
  BY <1>2, SameHeap DEF StutterStep
<1> QED BY <1>23, <1>24, <1>25 DEF MapStep

(* Key q of the leaf at the end of the walk is the neighbour that takes the *)
(* place of the key.                                                        *)
LEMMA ReplacedOrd ==
    ASSUME MInv, NEW it, NEW from, Replaced(it, from), node[n].is_leaf,
           NEW q \in 1..Len(node[n].keys), it = node[n].keys[q],
           q = IF pc = "getPred" THEN Len(node[n].keys) ELSE 1
    PROVE  OrdInv' /\ ReqInv' /\ MapStep
<1>1. PICK dir, x, i : dir = pc /\ x = hole.node /\ i = hole.idx
  OBVIOUS
<1>2. PICK s : s = node[x].keys
  OBVIOUS
<1>3. PICK ks : ks = [s EXCEPT ![i] = it]
  OBVIOUS
<1>4. /\ pc \in {"getPred", "getSucc"} /\ it \in Item /\ from = From(dir, i)
      /\ pc' = "remove" /\ n' = node[x].child[from] /\ k' = it.key /\ req' = req
      /\ allocated' = allocated /\ root' = root
      /\ new_root' = new_root /\ hole' = NoHole /\ found' = found
      /\ node' = [node EXCEPT ![x].keys = ks]
  BY <1>1, <1>2, <1>3 DEF Replaced, ReplaceBy, Goto, Child, From
<1>5. /\ root # NULL /\ new_root = NULL /\ Top = root /\ n \in allocated
      /\ req \in Map!Requests /\ req.op = "remove"
  BY <1>4, RemovesOrd DEF Removing
<1>6. PICK ht, sp, e, w : /\ Tree(node, allocated, root, ht)
                          /\ Ordered(node, allocated, sp, e, w)
                          /\ Placed(ht, sp, e, w)
  BY <1>4, RemovesOrd DEF Removing
<1>7. e = NULL /\ e \notin allocated /\ Walking(node, ht, sp, dir, x, i, n, k)
  BY <1>1, <1>4, <1>6, TreeFacts DEF Placed
<1>8. x \in allocated /\ ~node[x].is_leaf /\ i \in 1..Len(s)
  BY <1>1, <1>2, <1>4 DEF MInv, IInv, AtWalk
<1>9. k = req.key
  BY <1>4 DEF MInv, ReqInv
<1>10. PICK c : c = node[x].child[from]
  OBVIOUS
<1>11. PICK P : P = Mark(node[n].keys, q)
  OBVIOUS
<1>12. PICK K : K = Mark(node[x].keys, i)
  OBVIOUS
<1>13. /\ P = 2 * it.key /\ P \in Int /\ P \in sp[n] /\ it.key \in Int
  <2>1. Sorted(node, n, sp, e, w)
    BY <1>5, <1>6 DEF Ordered
  <2>2. P \in Int /\ it.key \in Int
    BY <1>5, <1>6, <1>11, MarkInt
  <2> QED BY <1>11, <2>1, <2>2 DEF Sorted, Mark
<1>14. /\ P \in sp[c] /\ c \in allocated
       /\ dir = "getPred" => P < K
       /\ dir # "getPred" => K < P
  <2>1. i \in 1..Len(node[x].keys) /\ c = node[x].child[From(dir, i)]
    BY <1>2, <1>4, <1>8, <1>10
  <2> QED BY <1>5, <1>6, <1>7, <1>8, <1>12, <1>13, <2>1, WalkSide
<1>15. K = 2 * k /\ k \in Int /\ Brink(dir, k) \in sp[n]
  <2>1. node[x].keys[i].key = k /\ Brink(dir, k) \in sp[n]
    BY <1>7 DEF Walking, Brink
  <2>2. i \in 1..Len(node[x].keys)
    BY <1>2, <1>8
  <2>3. k \in Int
    BY <1>6, <1>8, <2>1, <2>2, MarkInt
  <2> QED BY <1>12, <2>1, <2>3 DEF Mark
<1>16. Alone(node, allocated, x, i, P)
  <2>0. Len(node[n].keys) \in Nat /\ i \in 1..Len(node[x].keys)
    BY <1>2, <1>5, <1>8, InUse DEF MInv
  <2>1. CASE dir = "getPred"
    <3>1. q = Len(node[n].keys) /\ q >= 1
      BY <1>1, <2>0, <2>1
    <3>2. Mark(node[x].keys, i) - 1 \in sp[n] /\ Mark(node[n].keys, q) < Mark(node[x].keys, i)
      BY <1>11, <1>12, <1>14, <1>15, <2>1 DEF Brink
    <3> QED BY <1>5, <1>6, <1>7, <1>8, <1>11, <2>0, <3>1, <3>2, PredAlone
  <2>2. CASE dir # "getPred"
    <3>1. q = 1 /\ Len(node[n].keys) >= 1
      BY <1>1, <2>0, <2>2
    <3>2. Mark(node[x].keys, i) + 1 \in sp[n] /\ Mark(node[x].keys, i) < Mark(node[n].keys, 1)
      BY <1>11, <1>12, <1>14, <1>15, <2>2, <3>1 DEF Brink
    <3> QED BY <1>5, <1>6, <1>7, <1>8, <1>11, <2>0, <3>1, <3>2, SuccAlone
  <2> QED BY <2>1, <2>2
<1>17. /\ s \in Seq(Item) /\ Len(s) \in Nat /\ Len(s) <= MAX_DEGREE
       /\ x # root => Len(s) >= MIN_DEGREE
  <2>1. /\ node[x] \in Node /\ Len(s) \in Nat
        /\ Len(s) <= MAX_DEGREE /\ (x # root => Len(s) >= MIN_DEGREE)
    BY <1>2, <1>5, <1>8, InUse DEF MInv
  <2> QED BY <1>2, <2>1, NodeFacts
<1>18. /\ ks \in Seq(Item) /\ Len(ks) = Len(s) /\ ks[i] = it
       /\ \A l \in 1..Len(s) : l # i => ks[l] = s[l]
  BY <1>3, <1>4, <1>8, <1>17, ExceptSeq
<1>19. KeysOf(node, node', allocated, root, x, ks)
  BY <1>2, <1>4, <1>8, <1>17, <1>18 DEF KeysOf
<1>20. Tree(node', allocated, root, ht) /\ KeysSet(node, node', x, ks)
  BY <1>6, <1>19, KeysTree, KeysOfSet
<1>21. /\ Len(ks) = Len(node[x].keys) /\ Mark(ks, i) = P /\ ks[i] = it
       /\ \A l \in 1..Len(node[x].keys) : l # i => ks[l] = node[x].keys[l]
  BY <1>2, <1>13, <1>18 DEF Mark
<1>22. ReplaceSite(node, allocated, sp, x, i, from, P)
  <2>1. from \in {i, i + 1}
    BY <1>4 DEF From
  <2> QED BY <1>2, <1>8, <1>10, <1>14, <2>1 DEF ReplaceSite
<1>23. PICK sq : Ordered(node', allocated, sq, c, P) /\ P \in sq[c]
  BY <1>6, <1>7, <1>10, <1>16, <1>20, <1>21, <1>22, ReplaceOrdered
<1>24. it.key # k
  BY <1>13, <1>14, <1>15
<1>25. ItemDropped(k)
  <2>1. Stores(node, allocated, it)
    BY <1>5 DEF Stores, InSeq
  <2>2. node[x].keys[i].key = k /\ i \in 1..Len(node[x].keys)
    BY <1>2, <1>7, <1>8 DEF Walking
  <2>3. ASSUME NEW jt
        PROVE  Stores(node', allocated, jt) <=>
                  jt = it \/ (Stores(node, allocated, jt) /\ jt.key # node[x].keys[i].key)
    BY <1>6, <1>7, <1>8, <1>20, <1>21, <2>2, OverwriteStores
  <2> QED BY <1>4, <1>24, <2>1, <2>2, <2>3 DEF ItemDropped
<1>26. Absent(node', allocated, k)
  <2> SUFFICES ASSUME NEW y \in allocated, NEW j \in 1..Len(node'[y].keys),
                      node'[y].keys[j].key = k
               PROVE  FALSE
    BY DEF Absent, HasKey
  <2>1. Stores(node', allocated', node'[y].keys[j])
    BY <1>4 DEF Stores, InSeq
  <2> QED BY <1>25, <2>1 DEF ItemDropped
<1>27. Twice(node', allocated, ht, ht[c], it.key)
  <2>1. n # x /\ n \in Nodes /\ ht[n] = 0
    BY <1>5, <1>6, <1>8, TreeFacts
  <2>2. node'[n].keys = node[n].keys /\ node'[x].keys = ks
    BY <1>20, <2>1 DEF KeysSet
  <2>3. InSeq(it, node'[n].keys)
    BY <2>2 DEF InSeq
  <2>4. InSeq(it, node'[x].keys)
    BY <1>8, <1>18, <2>2 DEF InSeq
  <2>5. ht[c] < ht[x]
    <3>1. from \in 1..Len(node[x].child)
      BY <1>2, <1>4, <1>6, <1>8, <1>17, TreeFacts DEF From
    <3>2. ht[c] = ht[x] - 1
      BY <1>6, <1>8, <1>10, <3>1, TreeChild
    <3> QED BY <1>6, <1>8, <3>2, TreeFacts
  <2> QED BY <1>5, <1>8, <2>1, <2>3, <2>4, <2>5 DEF Twice
<1>28. Descending(node', allocated, ht, sq, c, P, c, it.key, k)
  <2>1. c # NULL /\ ht[c] \in Nat
    BY <1>6, <1>14, TreeFacts
  <2> QED BY <1>13, <1>14, <1>23, <1>24, <1>26, <1>27, <2>1 DEF Descending
<1>29. OrdInv' /\ ReqInv'
  <2>1. /\ Tree(node', allocated', root, ht) /\ Ordered(node', allocated', sq, c, P)
        /\ Descending(node', allocated', ht, sq, c, P, n', k', req.key)
    BY <1>4, <1>9, <1>10, <1>20, <1>23, <1>28
  <2> QED BY <1>4, <2>1, GoesOn DEF Removing
<1>30. RemoveStep
  BY <1>4, <1>5, <1>9, <1>25 DEF RemoveStep
<1> QED BY <1>29, <1>30 DEF MapStep

(* The last key of the leaf where getPred ends takes the place of the key   *)
(* removed: no key is between the two.                                      *)
LEMMA replace_by_predOrd ==
    ASSUME MInv, replace_by_pred
    PROVE  OrdInv' /\ ReqInv' /\ MapStep
<1>1. /\ pc = "getPred" /\ node[n].is_leaf
      /\ ReplaceBy(node[n].keys[Len(node[n].keys)], hole.idx)
  BY DEF replace_by_pred, KeyCnt
<1>2. PICK q : q = Len(node[n].keys)
  OBVIOUS
<1>3. q \in 1..Len(node[n].keys) /\ node[n].keys[q] \in Item
  BY <1>1, <1>2, WalkEnds DEF MInv
<1>4. Replaced(node[n].keys[q], hole.idx)
  BY <1>1, <1>2, <1>3 DEF Replaced
<1>5. q = IF pc = "getPred" THEN Len(node[n].keys) ELSE 1
  BY <1>1, <1>2
<1> QED BY <1>1, <1>3, <1>4, <1>5, ReplacedOrd

(* The same for the first key of the leaf where getSucc ends. *)
LEMMA replace_by_succOrd ==
    ASSUME MInv, replace_by_succ
    PROVE  OrdInv' /\ ReqInv' /\ MapStep
<1>1. /\ pc = "getSucc" /\ node[n].is_leaf
      /\ ReplaceBy(node[n].keys[1], hole.idx + 1)
  BY DEF replace_by_succ
<1>2. 1 \in 1..Len(node[n].keys) /\ node[n].keys[1] \in Item
  BY <1>1, WalkEnds DEF MInv
<1>3. Replaced(node[n].keys[1], hole.idx + 1)
  BY <1>1, <1>2 DEF Replaced
<1>4. 1 = IF pc = "getPred" THEN Len(node[n].keys) ELSE 1
  BY <1>1
<1> QED BY <1>1, <1>2, <1>3, <1>4, ReplacedOrd

-----------------------------------------------------------------------------
(* A key of a leaf is in no other place at or below the exemption. *)
LEMMA LeafOnly ==
    ASSUME NEW H, NEW A, NEW t, NEW ht, Tree(H, A, t, ht),
           NEW sp, NEW e, NEW w, Ordered(H, A, sp, e, w),
           NEW x \in A, H[x].is_leaf, NEW p \in 1..Len(H[x].keys),
           NEW y \in A, NEW j \in 1..Len(H[y].keys), H[y].keys[j].key = H[x].keys[p].key,
           Under(y, A, ht, e)
    PROVE  y = x /\ j = p
<1>1. CASE e \notin A
  BY <1>1, KeyOnce
<1>2. CASE e \in A
  <2>1. PICK key : key = H[x].keys[p].key
    OBVIOUS
  <2>2. HasKey(H, x, key) /\ HasKey(H, y, key)
    BY <2>1 DEF HasKey
  <2>3. ht[x] = 0 /\ ht[y] \in Nat /\ ht[e] \in Nat
    BY <1>2, TreeFacts
  <2>4. ht[y] = 0
    <3> SUFFICES ASSUME ht[y] # 0 PROVE FALSE
      OBVIOUS
    <3>1. ht[e] = ht[y] - 1
      BY <2>2, <2>3, ExemptBelow
    <3>2. ht[y] <= ht[e]
      BY <1>2 DEF Under
    <3> QED BY <2>3, <3>1, <3>2
  <2>5. PICK v : v = 2 * key
    OBVIOUS
  <2>6. v \in sp[x] /\ v \in sp[y] /\ v \in Int
    BY <2>2, <2>5, KeyMark
  <2>7. ht[x] = ht[y] /\ v <= v
    BY <2>3, <2>4, <2>6
  <2>8. x = y
    BY <2>6, <2>7, SameNode
  <2>9. Mark(H[x].keys, p) = v /\ Mark(H[x].keys, j) = v /\ j \in 1..Len(H[x].keys)
    BY <2>1, <2>5, <2>8 DEF Mark
  <2>10. Len(H[x].keys) \in Nat
    BY TreeFacts
  <2>11. CASE p <= j
    BY <2>8, <2>9, <2>11, MarksAscend
  <2>12. CASE j <= p
    BY <2>8, <2>9, <2>12, MarksAscend
  <2> QED BY <2>9, <2>10, <2>11, <2>12
<1> QED BY <1>1, <1>2

(* The key remove() looks for is taken out of a leaf: it was the key of     *)
(* the request, or the copy of a key that is in an inner node now.          *)
LEMMA removeFromLeafOrd ==
    ASSUME MInv, removeFromLeaf
    PROVE  OrdInv' /\ ReqInv' /\ MapStep
<1>1. PICK p \in 1..KeyCnt(n) :
         /\ Holds(n, k, p)
         /\ node' = [node EXCEPT ![n].keys = RemoveAt(@, p)]
  BY DEF removeFromLeaf
<1>2. /\ pc = "remove" /\ node[n].is_leaf
      /\ pc' = "shrink" /\ n' = root /\ k' = k /\ req' = req
      /\ allocated' = allocated /\ root' = root
      /\ new_root' = new_root /\ hole' = hole /\ found' = found
      /\ p \in 1..Len(node[n].keys) /\ node[n].keys[p].key = k
  BY <1>1 DEF removeFromLeaf, Goto, KeyCnt, Holds
<1>3. /\ root # NULL /\ new_root = NULL /\ Top = root /\ n \in allocated
      /\ req \in Map!Requests /\ req.op = "remove"
  BY <1>2, RemovesOrd DEF Removing
<1>4. PICK ht, sp, e, w : /\ Tree(node, allocated, root, ht)
                          /\ Ordered(node, allocated, sp, e, w)
                          /\ Placed(ht, sp, e, w)
  BY <1>2, RemovesOrd DEF Removing
<1>5. Descending(node, allocated, ht, sp, e, w, n, k, req.key) /\ k \in Int
  BY <1>2, <1>4, RemovesKey
<1>6. PICK s : s = node[n].keys
  OBVIOUS
<1>7. PICK ks : ks = RemoveAt(s, p)
  OBVIOUS
<1>8. /\ s \in Seq(Item) /\ Len(s) \in Nat /\ Len(s) <= MAX_DEGREE
      /\ n = root \/ Len(s) >= MIN_DEGREE + 1
  <2>1. n = root \/ Len(node[n].keys) >= MIN_DEGREE + 1
    BY <1>2 DEF MInv, IInv, AtRemove
  <2>2. node[n] \in Node /\ Len(node[n].keys) <= MAX_DEGREE
    BY <1>3, InUse DEF MInv
  <2> QED BY <1>6, <2>1, <2>2, NodeFacts
<1>9. ks \in Seq(Item) /\ Len(ks) = Len(s) - 1
  <2>1. p \in 1..Len(s)
    BY <1>2, <1>6
  <2> QED BY <1>7, <1>8, <2>1, RemoveAtFacts
<1>10. KeysOf(node, node', allocated, root, n, ks)
  <2>1. Len(ks) <= MAX_DEGREE /\ (n # root => Len(ks) >= MIN_DEGREE)
    BY <1>8, <1>9, TAssumption DEF MIN_DEGREE, MAX_DEGREE
  <2>2. node' = [node EXCEPT ![n].keys = ks]
    BY <1>1, <1>6, <1>7
  <2> QED BY <1>2, <1>3, <1>9, <2>1, <2>2 DEF KeysOf
<1>11. Tree(node', allocated, root, ht) /\ KeysSet(node, node', n, ks)
  BY <1>4, <1>10, KeysTree, KeysOfSet
<1>12. Ordered(node', allocated, sp, e, w)
  <2>1. ks = RemoveAt(node[n].keys, p)
    BY <1>6, <1>7, Zenon
  <2> QED BY <1>2, <1>3, <1>4, <1>11, <2>1, LeafRemoveOrdered
<1>13. ASSUME NEW y \in allocated, NEW j \in 1..Len(node[y].keys), node[y].keys[j].key = k,
              Under(y, allocated, ht, e)
       PROVE  y = n /\ j = p
  BY <1>2, <1>3, <1>4, <1>13, LeafOnly
<1>14. ASSUME NEW it
       PROVE  InSeq(it, ks) <=> \E i \in 1..Len(node[n].keys) : i # p /\ node[n].keys[i] = it
  <2>1. p \in 1..Len(s)
    BY <1>2, <1>6
  <2>2. InSeq(it, ks) <=> \E i \in 1..Len(s) : i # p /\ s[i] = it
    BY <1>7, <1>8, <2>1, RemoveItems
  <2> QED BY <1>6, <2>2
<1>15. ASSUME NEW it
       PROVE  /\ Stores(node', allocated, it) <=> InSeq(it, ks) \/ Elsewhere(node, allocated, n, it)
              /\ Stores(node, allocated, it) <=>
                    InSeq(it, node[n].keys) \/ Elsewhere(node, allocated, n, it)
  <2>1. allocated \subseteq Nodes
    BY <1>4, TreeFacts
  <2> QED BY <1>3, <1>11, <2>1, OtherStores
<1>16. Top' = root
  BY <1>2, <1>3 DEF Top
<1>17. CASE e = NULL
  <2>1. k = req.key
    BY <1>5, <1>17 DEF Descending
  <2>2. e \notin allocated
    BY <1>4, <1>17, TreeFacts
  <2>3. ASSUME NEW y \in allocated PROVE Under(y, allocated, ht, e)
    BY <2>2 DEF Under
  <2>4. ASSUME NEW it
        PROVE  Stores(node', allocated, it) <=> Stores(node, allocated, it) /\ it.key # k
    <3>1. ASSUME InSeq(it, ks) PROVE InSeq(it, node[n].keys) /\ it.key # k
      <4>1. PICK i \in 1..Len(node[n].keys) : i # p /\ node[n].keys[i] = it
        BY <1>14, <3>1
      <4> QED BY <1>3, <1>13, <2>3, <4>1 DEF InSeq
    <3>2. ASSUME InSeq(it, node[n].keys), it.key # k PROVE InSeq(it, ks)
      <4>1. PICK i \in 1..Len(node[n].keys) : node[n].keys[i] = it
        BY <3>2 DEF InSeq
      <4> QED BY <1>2, <1>14, <3>2, <4>1
    <3>3. ASSUME Elsewhere(node, allocated, n, it) PROVE it.key # k
      <4>1. PICK y \in allocated \ {n} : InSeq(it, node[y].keys)
        BY <3>3 DEF Elsewhere
      <4>2. PICK i \in 1..Len(node[y].keys) : node[y].keys[i] = it
        BY <4>1 DEF InSeq
      <4> QED BY <1>13, <2>3, <4>2
    <3> QED BY <1>15, <3>1, <3>2, <3>3
  <2>5. ItemDropped(k)
    BY <1>2, <2>4 DEF ItemDropped
  <2>6. Absent(node', allocated, k)
    <3> SUFFICES ASSUME NEW y \in allocated, NEW j \in 1..Len(node'[y].keys),
                        node'[y].keys[j].key = k
                 PROVE  FALSE
      BY DEF Absent, HasKey
    <3>1. Stores(node', allocated, node'[y].keys[j])
      BY DEF Stores, InSeq
    <3> QED BY <2>4, <3>1
  <2>7. ReqInv'
    BY <1>2, <1>3, <2>1, <2>6 DEF ReqInv
  <2>8. Placed(ht, sp, e, w)'
    BY <1>2, <1>17 DEF Placed
  <2>9. OrdInv'
    BY <1>2, <1>11, <1>12, <1>16, <2>8 DEF OrdInv
  <2>10. RemoveStep
    BY <1>2, <1>3, <2>1, <2>5 DEF RemoveStep
  <2> QED BY <2>7, <2>9, <2>10 DEF MapStep
<1>18. CASE e # NULL
  <2>1. /\ e \in allocated /\ w = 2 * k /\ Absent(node, allocated, req.key)
        /\ Twice(node, allocated, ht, ht[e], k)
    BY <1>5, <1>18 DEF Descending
  <2>2. ht[n] = 0 /\ ht[e] \in Nat
    BY <1>2, <1>3, <1>4, <2>1, TreeFacts
  <2>3. ASSUME NEW y \in allocated, ht[y] <= ht[e] PROVE Under(y, allocated, ht, e)
    BY <2>3 DEF Under
  <2>4. PICK y0 \in allocated, z0 \in allocated : \E it :
           /\ ht[y0] = 0 /\ ht[e] < ht[z0] /\ it.key = k
           /\ InSeq(it, node[y0].keys) /\ InSeq(it, node[z0].keys)
    BY <2>1 DEF Twice
  <2>5. Elsewhere(node, allocated, n, node[n].keys[p])
    <3>1. PICK it : /\ ht[y0] = 0 /\ ht[e] < ht[z0] /\ it.key = k
                    /\ InSeq(it, node[y0].keys) /\ InSeq(it, node[z0].keys)
      BY <2>4
    <3>2. PICK j \in 1..Len(node[y0].keys) : node[y0].keys[j] = it
      BY <3>1 DEF InSeq
    <3>3. ht[y0] <= ht[e]
      BY <2>2, <3>1
    <3>4. y0 = n /\ j = p
      BY <1>13, <2>3, <3>1, <3>2, <3>3
    <3>5. z0 # n
      BY <2>2, <3>1
    <3> QED BY <3>1, <3>2, <3>4, <3>5 DEF Elsewhere
  <2>6. ASSUME NEW it PROVE Stores(node', allocated, it) <=> Stores(node, allocated, it)
    <3>1. ASSUME InSeq(it, ks) PROVE InSeq(it, node[n].keys)
      BY <1>14, <3>1 DEF InSeq
    <3>2. ASSUME InSeq(it, node[n].keys)
          PROVE  InSeq(it, ks) \/ Elsewhere(node, allocated, n, it)
      <4>1. PICK i \in 1..Len(node[n].keys) : node[n].keys[i] = it
        BY <3>2 DEF InSeq
      <4>2. CASE i = p
        BY <2>5, <4>1, <4>2
      <4>3. CASE i # p
        BY <1>14, <4>1, <4>3
      <4> QED BY <4>2, <4>3
    <3> QED BY <1>15, <3>1, <3>2
  <2>7. SameItems
    BY <1>2, <2>6 DEF SameItems
  <2>8. Absent(node', allocated, req.key)
    BY <2>1, <2>6, AbsentStores
  <2>9. ReqInv'
    BY <1>2, <1>3, <2>8 DEF ReqInv
  <2>10. NoKeyIn(node', allocated, ht, ht[e] + 1, {w})
    <3> SUFFICES ASSUME NEW y \in allocated, ht[y] < ht[e] + 1,
                        NEW l \in 1..Len(node'[y].keys), Mark(node'[y].keys, l) = w
                 PROVE  FALSE
      BY DEF NoKeyIn
    <3>1. ht[y] \in Nat /\ y \in Nodes
      BY <1>4, TreeFacts
    <3>2. Under(y, allocated, ht, e)
      BY <2>2, <2>3, <3>1
    <3>3. node'[y].keys[l].key \in Int
      BY <1>11, MarkInt
    <3>4. node'[y].keys[l].key = k
      BY <1>5, <2>1, <3>3 DEF Mark
    <3>5. CASE y # n
      <4>1. node'[y].keys = node[y].keys
        BY <1>11, <3>1, <3>5 DEF KeysSet
      <4> QED BY <1>13, <3>2, <3>4, <3>5, <4>1
    <3>6. CASE y = n
      <4>1. node'[n].keys = ks
        BY <1>11 DEF KeysSet
      <4>2. InSeq(node'[n].keys[l], ks)
        BY <3>6, <4>1 DEF InSeq
      <4>3. PICK i \in 1..Len(node[n].keys) : i # p /\ node[n].keys[i] = node'[n].keys[l]
        BY <1>14, <4>2
      <4> QED BY <1>13, <3>2, <3>4, <3>6, <4>3
    <3> QED BY <3>5, <3>6
  <2>11. PICK sq : Ordered(node', allocated, sq, NULL, w)
    BY <1>11, <1>12, <2>1, <2>10, ForgetOrdered
  <2>12. Placed(ht, sq, NULL, w)'
    BY <1>2 DEF Placed
  <2>13. OrdInv'
    BY <1>2, <1>11, <1>16, <2>11, <2>12 DEF OrdInv
  <2>14. StutterStep
    BY <1>2, <2>7 DEF StutterStep
  <2> QED BY <2>9, <2>13, <2>14 DEF MapStep
<1> QED BY <1>17, <1>18

(* The end of remove_1d: the key of the request is nowhere. *)
LEMMA remove_doneOrd ==
    ASSUME MInv, remove_done
    PROVE  OrdInv' /\ ReqInv' /\ MapStep
<1>1. /\ pc = "shrink" /\ Done /\ req' = NoRequest
      /\ node' = node /\ allocated' = allocated /\ root' = root /\ found' = found
  BY DEF remove_done, Done
<1>2. new_root = NULL
  BY <1>1, Removes DEF MInv
<1>3. OrdInv' /\ ReqInv'
  BY <1>1, <1>2, DoneOrd
<1>4. /\ req \in Map!Requests /\ req.op = "remove" /\ Absent(node, allocated, req.key)
  BY <1>1 DEF MInv, ReqInv
<1>5. FinishStep
  BY <1>1, <1>4, SameHeap DEF FinishStep
<1> QED BY <1>3, <1>5 DEF MapStep

(* The last node given back leaves an empty map. *)
LEMMA shrink_to_emptyOrd ==
    ASSUME MInv, shrink_to_empty
    PROVE  OrdInv' /\ ReqInv' /\ MapStep
<1>1. /\ pc = "shrink" /\ node[root].is_leaf /\ Len(node[root].keys) = 0
      /\ pc' = "idle" /\ new_root' = NULL /\ req' = NoRequest
      /\ allocated' = allocated \ {root} /\ root' = NULL /\ found' = found
  BY DEF shrink_to_empty, Done, Without, KeyCnt
<1>2. PICK ht : Tree(node, allocated, root, ht)
  BY <1>1, Removes DEF MInv
<1>3. allocated = {root}
  BY <1>1, <1>2, LoneLeaf
<1>4. Top' = NULL
  BY <1>1 DEF Top
<1>5. OrdInv' /\ ReqInv'
  BY <1>1, <1>4 DEF OrdInv, ReqInv
<1>6. /\ req \in Map!Requests /\ req.op = "remove" /\ Absent(node, allocated, req.key)
  BY <1>1 DEF MInv, ReqInv
<1>7. SameItems
  <2>1. ASSUME NEW it PROVE ~Stores(node, allocated, it) /\ ~Stores(node', allocated', it)
    BY <1>1, <1>3 DEF Stores, InSeq
  <2> QED BY <2>1 DEF SameItems
<1>8. FinishStep
  BY <1>1, <1>6, <1>7 DEF FinishStep
<1> QED BY <1>5, <1>8 DEF MapStep

(* A root without keys given back drops no item. *)
LEMMA shrink_to_childOrd ==
    ASSUME MInv, shrink_to_child
    PROVE  OrdInv' /\ ReqInv' /\ MapStep
<1>1. PICK c : c = node[root].child[1]
  OBVIOUS
<1>2. /\ pc = "shrink" /\ ~node[root].is_leaf /\ Len(node[root].keys) = 0
      /\ pc' = "idle" /\ new_root' = NULL /\ req' = NoRequest
      /\ node' = [node EXCEPT ![root] = NewNode, ![c].parent = NULL]
      /\ allocated' = allocated \ {root}
      /\ root' = c /\ found' = found
  BY <1>1 DEF shrink_to_child, Done, Without, Child, KeyCnt
<1>3. new_root = NULL /\ Top = root /\ root # NULL /\ root \in allocated
  BY <1>2, Removes DEF MInv
<1>4. PICK ht, sp, e, w : /\ Tree(node, allocated, root, ht)
                          /\ Ordered(node, allocated, sp, e, w)
                          /\ Placed(ht, sp, e, w)
  BY <1>3 DEF MInv, OrdInv
<1>5. e = NULL
  BY <1>2, <1>4 DEF Placed
<1>6. ShrunkOf(node, node', root, c)
  BY <1>1, <1>2 DEF ShrunkOf
<1>7. c \in allocated /\ c # root /\ Tree(node', allocated \ {root}, c, ht)
  BY <1>4, <1>6, ShrinkTree
<1>8. \A u \in allocated \ {root} : node'[u].keys = node[u].keys /\ node'[u].child = node[u].child
  <2>1. node \in [Nodes -> Node] /\ allocated \subseteq Nodes
    BY <1>4, TreeFacts
  <2> QED BY <1>2, <1>7, <2>1 DEF Node
<1>9. Ordered(node', allocated \ {root}, sp, e, w)
  BY <1>4, <1>8, FewerOrdered
<1>10. Top' = c
  BY <1>2 DEF Top
<1>11. Placed(ht, sp, e, w)'
  BY <1>2, <1>5 DEF Placed
<1>12. OrdInv'
  BY <1>2, <1>7, <1>9, <1>10, <1>11 DEF OrdInv
<1>13. ReqInv'
  BY <1>2 DEF ReqInv
<1>14. /\ req \in Map!Requests /\ req.op = "remove" /\ Absent(node, allocated, req.key)
  BY <1>2 DEF MInv, ReqInv
<1>15. SameItems
  <2>1. ASSUME NEW it PROVE ~InSeq(it, node[root].keys)
    BY <1>2 DEF InSeq
  <2>2. ASSUME NEW it PROVE Stores(node', allocated \ {root}, it) <=> Stores(node, allocated, it)
    BY <1>8, <2>1 DEF Stores
  <2> QED BY <1>2, <2>2 DEF SameItems
<1>16. FinishStep
  BY <1>2, <1>14, <1>15 DEF FinishStep
<1> QED BY <1>12, <1>13, <1>16 DEF MapStep

(* destroy_node leaves an empty map. *)
LEMMA destroyOrd ==
    ASSUME MInv, destroy
    PROVE  OrdInv' /\ ReqInv' /\ MapStep
<1>1. /\ pc = "idle" /\ root # NULL /\ pc' = pc /\ req' = req
      /\ new_root' = new_root /\ found' = found /\ root' = NULL
      /\ allocated' = allocated \ Reachable
  BY DEF destroy
<1>2. new_root = NULL /\ Top = root /\ req = NoRequest
  BY <1>1 DEF MInv, IInv, AtInsert, Top, ReqInv
<1>3. PICK ht : Tree(node, allocated, root, ht)
  BY <1>1, <1>2 DEF MInv, IInv, Shape
<1>4. allocated = Reachable
  BY <1>3, AllReached
<1>5. allocated' = {} /\ Top' = NULL
  BY <1>1, <1>2, <1>4 DEF Top
<1>6. OrdInv' /\ ReqInv'
  BY <1>1, <1>2, <1>5 DEF OrdInv, ReqInv
<1>7. ClearStep
  BY <1>1, <1>2, <1>5 DEF ClearStep
<1> QED BY <1>6, <1>7 DEF MapStep

-----------------------------------------------------------------------------
(* The empty tree is ordered. *)
LEMMA InitOrd == Init => OrdInv /\ ReqInv
<1> SUFFICES ASSUME Init PROVE OrdInv /\ ReqInv
  OBVIOUS
<1>1. Top = NULL
  BY DEF Init, Top
<1> QED BY <1>1 DEF Init, OrdInv, ReqInv

(* Every step keeps the order, and is a step of the map or none. *)
LEMMA StepOrd == MInv /\ [Next]_vars => OrdInv' /\ ReqInv' /\ MapStep
<1> SUFFICES ASSUME MInv, [Next]_vars PROVE OrdInv' /\ ReqInv' /\ MapStep
  OBVIOUS
<1>1. ASSUME NEW key \in Keys, NEW op \in {"search", "remove"}, Begin(op, key, NULL)
      PROVE  OrdInv' /\ ReqInv' /\ MapStep
  <2>1. [op |-> op, key |-> key, val |-> NULL] \in Map!Requests
    BY DEF Map!Requests
  <2> QED BY <1>1, <2>1, BeginOrd
<1>2. ASSUME NEW key \in Keys, NEW val \in Vals, Begin("insert", key, val)
      PROVE  OrdInv' /\ ReqInv' /\ MapStep
  <2>1. [op |-> "insert", key |-> key, val |-> val] \in Map!Requests
    BY DEF Map!Requests
  <2> QED BY <1>2, <2>1, BeginOrd
<1>3. CASE find_descend \/ find_hit \/ find_miss
  BY <1>3, find_descendOrd, find_hitOrd, find_missOrd
<1>4. CASE insert_first \/ insert_at_root \/ insert_grow
  BY <1>4, insert_firstOrd, insert_at_rootOrd, insert_growOrd
<1>5. CASE insert_in_leaf \/ insert_descend \/ insert_split \/ bad_alloc
  BY <1>5, insert_in_leafOrd, insert_descendOrd, insert_splitOrd, bad_allocOrd
<1>6. CASE removeFromLeaf \/ removeFromNonLeaf_walk \/ removeFromNonLeaf_merge
  BY <1>6, removeFromLeafOrd, removeFromNonLeaf_walkOrd, removeFromNonLeaf_mergeOrd
<1>7. CASE walk \/ replace_by_pred \/ replace_by_succ
  BY <1>7, walkOrd, replace_by_predOrd, replace_by_succOrd
<1>8. CASE remove_descend \/ fill_borrow \/ fill_merge
  BY <1>8, remove_descendOrd, fill_borrowOrd, fill_mergeOrd
<1>9. CASE remove_done \/ shrink_to_empty \/ shrink_to_child
  BY <1>9, remove_doneOrd, shrink_to_emptyOrd, shrink_to_childOrd
<1>10. CASE destroy
  BY <1>10, destroyOrd
<1>11. CASE terminated \/ UNCHANGED vars
  <2>1. /\ node' = node /\ allocated' = allocated /\ root' = root /\ pc' = pc
        /\ req' = req /\ n' = n /\ k' = k /\ new_root' = new_root
        /\ hole' = hole /\ found' = found
    BY <1>11 DEF terminated, vars
  <2>2. Top' = Top
    BY <2>1 DEF Top
  <2>3. ReqInv'
    BY <2>1 DEF MInv, ReqInv
  <2>4. OrdInv'
    <3>1. ASSUME Top # NULL PROVE OrdInv'
      <4>1. PICK ht, sp, e, w : /\ Tree(node, allocated, Top, ht)
                                /\ Ordered(node, allocated, sp, e, w)
                                /\ Placed(ht, sp, e, w)
        BY <3>1 DEF MInv, OrdInv
      <4>2. Placed(ht, sp, e, w)'
        BY <2>1, <4>1 DEF Placed
      <4> QED BY <2>1, <2>2, <4>1, <4>2 DEF OrdInv
    <3> QED BY <2>2, <3>1 DEF OrdInv
  <2>5. StutterStep
    BY <2>1, SameHeap DEF StutterStep
  <2> QED BY <2>3, <2>4, <2>5 DEF MapStep
<1> QED
  BY <1>1, <1>2, <1>3, <1>4, <1>5, <1>6, <1>7, <1>8, <1>9, <1>10, <1>11
  DEF Next, Step

(* At every step of search, insert_non_full, remove() and fill() the nodes   *)
(* in use are a search tree, and the operation is at a node its key may be   *)
(* below.  Only the key that removeFromNonLeaf has written over another one  *)
(* is in two places, until remove() takes it out of its leaf.                *)
THEOREM OrderKept == Spec => []MInv
<1>1. Init => MInv
  BY InitInv, InitOrd DEF MInv
<1>2. MInv /\ [Next]_vars => MInv'
  BY Inductive, StepOrd DEF MInv
<1> QED BY <1>1, <1>2, PTL DEF Spec

(* In a leaf remove() finds the key it looks for: the invariant says that   *)
(* a node of that height and span has it, and there is one such node.       *)
LEMMA FoundInLeaf == MInv => RemoveNeverThrows
<1> SUFFICES ASSUME MInv, pc = "remove", node[n].is_leaf
             PROVE  \E p \in 1..KeyCnt(n) : StopsAt(n, k, p) /\ Holds(n, k, p)
  BY DEF RemoveNeverThrows
<1>1. n \in allocated
  BY RemovesOrd DEF Removing
<1>2. PICK ht, sp, e, w : /\ Tree(node, allocated, root, ht)
                          /\ Ordered(node, allocated, sp, e, w)
                          /\ Placed(ht, sp, e, w)
  BY RemovesOrd DEF Removing
<1>3. Descending(node, allocated, ht, sp, e, w, n, k, req.key) /\ k \in Int
  BY <1>2, RemovesKey
<1>4. PICK y \in allocated : ht[y] <= ht[n] /\ HasKey(node, y, k)
  BY <1>2, <1>3, DescendingHas
<1>5. ht[y] = ht[n]
  BY <1>1, <1>2, <1>4, TreeFacts
<1>6. PICK v : v = 2 * k
  OBVIOUS
<1>7. v \in sp[n] /\ v \in sp[y] /\ v \in Int /\ v <= v
  <2>1. v \in sp[n]
    BY <1>2, <1>3, <1>6, DescendingHas
  <2>2. v \in sp[y] /\ v \in Int
    BY <1>2, <1>3, <1>4, <1>6, KeyMark
  <2> QED BY <2>1, <2>2
<1>8. y = n
  BY <1>1, <1>2, <1>5, <1>7, SameNode
<1>9. PICK p \in 1..Len(node[n].keys) : node[n].keys[p].key = k
  BY <1>4, <1>8 DEF HasKey
<1>10. Len(node[n].keys) \in Nat
  BY <1>1, InUse DEF MInv
<1>11. ASSUME NEW j \in 1..(p - 1) PROVE node[n].keys[j].key < k
  <2>1. j \in 1..Len(node[n].keys) /\ j < p /\ j <= p
    BY <1>9, <1>10
  <2>2. node[n].keys[j].key \in Int
    BY <1>1, <1>2, <2>1, MarkInt
  <2>3. Mark(node[n].keys, j) < Mark(node[n].keys, p)
    <3>1. Sorted(node, n, sp, e, w)
      BY <1>1, <1>2 DEF Ordered
    <3> QED BY <1>9, <2>1, <3>1 DEF Sorted
  <2> QED BY <1>3, <1>9, <2>2, <2>3 DEF Mark
<1>12. StopsAt(n, k, p) /\ Holds(n, k, p)
  BY <1>3, <1>9, <1>10, <1>11 DEF StopsAt, Holds
<1> QED BY <1>9, <1>12 DEF KeyCnt

(* remove() never comes to a leaf without the key it looks for, where the    *)
(* code throws (RemoveNeverThrows): fill() and merge() move keys on the way  *)
(* down, but never the key to another side of the node remove() goes on in.  *)
THEOREM NeverThrows == Spec => []RemoveNeverThrows
BY OrderKept, FoundInLeaf, PTL

-----------------------------------------------------------------------------
(* The values stored with a key in the nodes A of the heap H. *)
ValsOf(H, A, key) ==
    {it.val : it \in {i \in UNION {ToSet(H[x].keys) : x \in A} : i.key = key}}

(* The value of a map where these are stored. *)
At(S) == IF S = {} THEN NULL ELSE CHOOSE v \in S : TRUE

(* The map that the nodes represent. *)
MapOf(H, A) == [key \in Keys |-> At(ValsOf(H, A, key))]

(* A key with one value has that value in the map. *)
LEMMA AtOne ==
    ASSUME NEW v
    PROVE  At({v}) = v
<1>1. (CHOOSE u \in {v} : TRUE) \in {v}
  OBVIOUS
<1> QED BY <1>1 DEF At

(* The values of a key are those of the items with it. *)
LEMMA ValsStored ==
    ASSUME NEW H \in [Nodes -> Node], NEW A \in SUBSET Nodes, NEW key, NEW v
    PROVE  v \in ValsOf(H, A, key) <=> \E it : Stores(H, A, it) /\ it.key = key /\ it.val = v
<1>1. ASSUME NEW it
      PROVE  it \in UNION {ToSet(H[x].keys) : x \in A} <=> Stores(H, A, it)
  <2>1. ASSUME NEW x \in A PROVE it \in ToSet(H[x].keys) <=> InSeq(it, H[x].keys)
    <3>1. H[x].keys \in Seq(Item)
      BY NodeFacts
    <3> QED BY <3>1, ToSetOfSeq DEF InSeq
  <2> QED BY <2>1 DEF Stores
<1> QED BY <1>1 DEF ValsOf

(* The heap and the pool are as TypeOK says, before and after a step. *)
Heaps ==
    /\ node \in [Nodes -> Node] /\ allocated \in SUBSET Nodes
    /\ node' \in [Nodes -> Node] /\ allocated' \in SUBSET Nodes

(* A step that leaves the items of a key leaves its values. *)
LEMMA SameVals ==
    ASSUME Heaps, NEW key,
           \A it : it.key = key => (Stores(node', allocated', it) <=> Stores(node, allocated, it))
    PROVE  ValsOf(node', allocated', key) = ValsOf(node, allocated, key)
<1>1. ASSUME NEW v
      PROVE  v \in ValsOf(node', allocated', key) <=> v \in ValsOf(node, allocated, key)
  <2>1. v \in ValsOf(node', allocated', key) <=>
           \E it : Stores(node', allocated', it) /\ it.key = key /\ it.val = v
    BY ValsStored DEF Heaps
  <2>2. v \in ValsOf(node, allocated, key) <=>
           \E it : Stores(node, allocated, it) /\ it.key = key /\ it.val = v
    BY ValsStored DEF Heaps
  <2> QED BY <2>1, <2>2
<1> QED BY <1>1

(* A step that leaves the items leaves the map. *)
LEMMA SameMap ==
    ASSUME Heaps, SameItems
    PROVE  MapOf(node', allocated') = MapOf(node, allocated)
<1>1. ASSUME NEW key PROVE ValsOf(node', allocated', key) = ValsOf(node, allocated, key)
  BY SameVals DEF SameItems
<1> QED BY <1>1 DEF MapOf

(* A key that is absent has no value. *)
LEMMA NoVals ==
    ASSUME NEW H \in [Nodes -> Node], NEW A \in SUBSET Nodes, NEW key, Absent(H, A, key)
    PROVE  ValsOf(H, A, key) = {}
<1>1. ASSUME NEW v PROVE v \notin ValsOf(H, A, key)
  <2>1. v \in ValsOf(H, A, key) <=> \E it : Stores(H, A, it) /\ it.key = key /\ it.val = v
    BY ValsStored
  <2> QED BY <2>1 DEF Absent, HasKey, Stores, InSeq
<1> QED BY <1>1

(* Storing an item in the place of what had its key changes the map at      *)
(* that key, to its value,                                                  *)
LEMMA PutMap ==
    ASSUME Heaps, NEW key \in Keys, NEW val, ItemPut([key |-> key, val |-> val])
    PROVE  MapOf(node', allocated') = [MapOf(node, allocated) EXCEPT ![key] = val]
<1>1. PICK new : new = [key |-> key, val |-> val]
  OBVIOUS
<1>2. new.key = key /\ new.val = val
  BY <1>1
<1>3. ASSUME NEW it
      PROVE  Stores(node', allocated', it) <=>
                it = new \/ (Stores(node, allocated, it) /\ it.key # key)
  BY <1>1, <1>2 DEF ItemPut
<1>4. ValsOf(node', allocated', key) = {val}
  <2>1. ASSUME NEW v PROVE v \in ValsOf(node', allocated', key) <=> v = val
    <3>1. v \in ValsOf(node', allocated', key) <=>
             \E it : Stores(node', allocated', it) /\ it.key = key /\ it.val = v
      BY ValsStored DEF Heaps
    <3> QED BY <1>2, <1>3, <3>1
  <2> QED BY <2>1
<1>5. ASSUME NEW o \in Keys, o # key
      PROVE  ValsOf(node', allocated', o) = ValsOf(node, allocated, o)
  <2>1. \A it : it.key = o => (Stores(node', allocated', it) <=> Stores(node, allocated, it))
    BY <1>2, <1>3, <1>5
  <2> QED BY <2>1, SameVals
<1>6. At(ValsOf(node', allocated', key)) = val
  BY <1>4, AtOne
<1> QED BY <1>5, <1>6 DEF MapOf

(* dropping the items of a key changes it there, to nullptr, *)
LEMMA DropMap ==
    ASSUME Heaps, NEW key \in Keys, ItemDropped(key)
    PROVE  MapOf(node', allocated') = [MapOf(node, allocated) EXCEPT ![key] = NULL]
<1>1. ValsOf(node', allocated', key) = {}
  <2>1. Absent(node', allocated', key)
    <3> SUFFICES ASSUME NEW y \in allocated', NEW j \in 1..Len(node'[y].keys),
                        node'[y].keys[j].key = key
                 PROVE  FALSE
      BY DEF Absent, HasKey
    <3>1. Stores(node', allocated', node'[y].keys[j])
      BY DEF Stores, InSeq
    <3> QED BY <3>1 DEF ItemDropped
  <2> QED BY <2>1, NoVals DEF Heaps
<1>2. ASSUME NEW o \in Keys, o # key
      PROVE  ValsOf(node', allocated', o) = ValsOf(node, allocated, o)
  <2>1. \A it : it.key = o => (Stores(node', allocated', it) <=> Stores(node, allocated, it))
    BY <1>2 DEF ItemDropped
  <2> QED BY <2>1, SameVals
<1>3. At(ValsOf(node', allocated', key)) = NULL
  BY <1>1 DEF At
<1> QED BY <1>2, <1>3 DEF MapOf

(* and a tree without nodes is the empty map. *)
LEMMA EmptyMap ==
    ASSUME NEW H \in [Nodes -> Node]
    PROVE  MapOf(H, {}) = [x \in Keys |-> NULL]
<1>1. ASSUME NEW key PROVE ValsOf(H, {}, key) = {}
  BY DEF ValsOf
<1> QED BY <1>1 DEF MapOf, At

(* The map that BTree1d substitutes for SortedMap's is that of the nodes    *)
(* in use.                                                                  *)
LEMMA MapIs ==
    /\ [key \in Keys |-> IF Stored(key) = {} THEN NULL
                         ELSE CHOOSE v \in Stored(key) : TRUE] = MapOf(node, allocated)
    /\ [key \in Keys |-> IF Stored(key) = {} THEN NULL
                         ELSE CHOOSE v \in Stored(key) : TRUE]' = MapOf(node', allocated')
BY DEF MapOf, At, ValsOf, Stored, Items

(* The empty tree is the empty map. *)
LEMMA InitMaps == Init => Map!Init
<1> SUFFICES ASSUME Init PROVE Map!Init
  OBVIOUS
<1>1. MapOf(node, allocated) = [x \in Keys |-> NULL]
  <2>1. node \in [Nodes -> Node] /\ allocated = {}
    BY InitInv DEF IInv, TypeOK, Init
  <2> QED BY <2>1, EmptyMap
<1> QED BY <1>1, MapIs DEF Init, Map!Init, NoRequest, Map!NoRequest

-----------------------------------------------------------------------------
(* Both sides of a step have a heap and a pool. *)
LEMMA StepHeaps ==
    ASSUME MInv, [Next]_vars
    PROVE  Heaps
<1>1. IInv /\ IInv'
  BY Inductive DEF MInv
<1> QED BY <1>1 DEF IInv, TypeOK, Heaps

(* The steps of the tree are steps of the map. *)
LEMMA MapNext ==
    ASSUME Heaps, MapStep
    PROVE  [Map!Next]_(Map!vars)
<1>1. CASE StutterStep
  <2>1. MapOf(node', allocated') = MapOf(node, allocated)
    BY <1>1, SameMap DEF StutterStep
  <2> QED BY <1>1, <2>1, MapIs DEF StutterStep, Map!vars
<1>2. CASE BeginStep
  <2>1. MapOf(node', allocated') = MapOf(node, allocated)
    BY <1>2, SameMap DEF BeginStep
  <2>2. Map!Begin
    BY <1>2, <2>1, MapIs DEF BeginStep, Map!Begin, NoRequest, Map!NoRequest
  <2> QED BY <2>2 DEF Map!Next
<1>3. CASE InsertStep
  <2>1. MapOf(node', allocated') = [MapOf(node, allocated) EXCEPT ![req.key] = req.val]
    <3>1. req.key \in Keys
      BY <1>3, RequestFacts DEF InsertStep
    <3> QED BY <1>3, <3>1, PutMap DEF InsertStep
  <2>2. Map!Change
    BY <1>3, <2>1, MapIs
    DEF InsertStep, Map!Change, Map!Wanted, NoRequest, Map!NoRequest
  <2> QED BY <2>2 DEF Map!Next
<1>4. CASE RemoveStep
  <2>1. req.key \in Keys /\ req.val = NULL
    BY <1>4, RequestFacts DEF RemoveStep
  <2>2. MapOf(node', allocated') = [MapOf(node, allocated) EXCEPT ![req.key] = req.val]
    BY <1>4, <2>1, DropMap DEF RemoveStep
  <2>3. Map!Change
    BY <1>4, <2>2, MapIs DEF RemoveStep, Map!Change, Map!Wanted
  <2> QED BY <2>3 DEF Map!Next
<1>5. CASE FinishStep
  <2>1. req.key \in Keys /\ req.val = NULL
    BY <1>5, RequestFacts DEF FinishStep
  <2>2. MapOf(node', allocated') = MapOf(node, allocated)
    BY <1>5, SameMap DEF FinishStep
  <2>3. MapOf(node, allocated)[req.key] = NULL
    <3>1. ValsOf(node, allocated, req.key) = {}
      BY <1>5, NoVals DEF FinishStep, Heaps
    <3> QED BY <2>1, <3>1 DEF MapOf, At
  <2>4. MapOf(node, allocated) = [MapOf(node, allocated) EXCEPT ![req.key] = req.val]
    BY <2>1, <2>3 DEF MapOf
  <2>5. Map!Finish
    BY <1>5, <2>2, <2>4, MapIs
    DEF FinishStep, Map!Finish, Map!Wanted, NoRequest, Map!NoRequest
  <2> QED BY <2>5 DEF Map!Next
<1>6. CASE AnswerStep
  <2>1. req.key \in Keys
    BY <1>6, RequestFacts DEF AnswerStep
  <2>2. MapOf(node', allocated') = MapOf(node, allocated)
    BY <1>6, SameMap DEF AnswerStep
  <2>3. found' = MapOf(node, allocated)[req.key]
    <3>1. CASE Absent(node, allocated, req.key) /\ found' = NULL
      <4>1. ValsOf(node, allocated, req.key) = {}
        BY <3>1, NoVals DEF Heaps
      <4> QED BY <2>1, <3>1, <4>1 DEF MapOf, At
    <3>2. ASSUME NEW it, IsTheItem(it), found' = it.val
          PROVE  found' = MapOf(node, allocated)[req.key]
      <4>1. ASSUME NEW v PROVE v \in ValsOf(node, allocated, req.key) <=> v = it.val
        <5>1. v \in ValsOf(node, allocated, req.key) <=>
                 \E jt : Stores(node, allocated, jt) /\ jt.key = req.key /\ jt.val = v
          BY ValsStored DEF Heaps
        <5> QED BY <3>2, <5>1 DEF IsTheItem
      <4>2. ValsOf(node, allocated, req.key) = {it.val}
        BY <4>1
      <4>3. At(ValsOf(node, allocated, req.key)) = it.val
        BY <4>2, AtOne
      <4> QED BY <2>1, <3>2, <4>3 DEF MapOf
    <3> QED BY <1>6, <3>1, <3>2 DEF AnswerStep
  <2>4. Map!Answer
    BY <1>6, <2>2, <2>3, MapIs DEF AnswerStep, Map!Answer, NoRequest, Map!NoRequest
  <2> QED BY <2>4 DEF Map!Next
<1>7. CASE ClearStep
  <2>1. MapOf(node', allocated') = [x \in Keys |-> NULL]
    BY <1>7, EmptyMap DEF ClearStep, Heaps
  <2>2. Map!Clear
    BY <1>7, <2>1, MapIs DEF ClearStep, Map!Clear, NoRequest, Map!NoRequest
  <2> QED BY <2>2 DEF Map!Next
<1> QED BY <1>1, <1>2, <1>3, <1>4, <1>5, <1>6, <1>7 DEF MapStep

(* One layer of the tree implements SortedMap: insert stores exactly what    *)
(* it was asked to and remove drops exactly its key, in one step each, and   *)
(* search answers with what is stored; splits, merges, borrows and changes   *)
(* of the root change nothing of the map (ImplementsSortedMap).              *)
THEOREM ImplementsMap == Spec => ImplementsSortedMap
<1>1. MInv /\ [Next]_vars => [Map!Next]_(Map!vars)
  BY StepOrd, StepHeaps, MapNext
<1> QED BY <1>1, InitMaps, OrderKept, PTL DEF Spec, ImplementsSortedMap

(***************************************************************************)
(* The size of the tree: the sum of the key counts is the number of keys,  *)
(* because no two positions hold the same key.                             *)
(***************************************************************************)

(* The sum of the key counts is what the solution of its equation gives,   *)
(* if there is one.                                                        *)
LEMMA SumChosen ==
    ASSUME NEW S, NEW g,
           g = [s \in SUBSET S |->
                  IF s = {} THEN 0
                  ELSE KeyCnt(CHOOSE x \in s : TRUE) + g[s \ {CHOOSE x \in s : TRUE}]]
    PROVE  \E f : /\ f = [s \in SUBSET S |->
                            IF s = {} THEN 0
                            ELSE KeyCnt(CHOOSE x \in s : TRUE) + f[s \ {CHOOSE x \in s : TRUE}]]
                  /\ MapThenSumSet(KeyCnt, S) = f[S]
BY Zenon DEF MapThenSumSet, MapThenFoldSet

(* The keys of a node, and those of some nodes. *)
KeysAt(x) == {node[x].keys[i].key : i \in 1..Len(node[x].keys)}
KeysIn(s) == UNION {KeysAt(x) : x \in s}

(* A node has as many different keys as positions. *)
LEMMA CardKeysAt ==
    ASSUME NEW ht, Tree(node, allocated, root, ht),
           NEW sp, NEW e, NEW w, Ordered(node, allocated, sp, e, w), NEW x \in allocated
    PROVE  IsFiniteSet(KeysAt(x)) /\ Cardinality(KeysAt(x)) = Len(node[x].keys)
<1>1. PICK c \in Nat : c = Len(node[x].keys)
  BY TreeFacts
<1> DEFINE f == [i \in 1..c |-> node[x].keys[i].key]
<1>2. f \in [1..c -> KeysAt(x)]
  BY <1>1 DEF KeysAt
<1>3. ASSUME NEW i \in 1..c, NEW j \in 1..c, f[i] = f[j] PROVE i = j
  <2>1. Mark(node[x].keys, i) = Mark(node[x].keys, j)
    BY <1>3 DEF Mark
  <2>2. i <= j => i = j
    BY <1>1, <2>1, MarksAscend
  <2>3. j <= i => i = j
    BY <1>1, <2>1, MarksAscend
  <2> QED BY <2>2, <2>3
<1>4. ASSUME NEW v \in KeysAt(x) PROVE \E i \in 1..c : f[i] = v
  BY <1>1 DEF KeysAt
<1>5. f \in Bijection(1..c, KeysAt(x))
  <2> HIDE DEF f
  <2>1. f \in Injection(1..c, KeysAt(x))
    BY <1>2, <1>3 DEF Injection, IsInjective
  <2>2. f \in Surjection(1..c, KeysAt(x))
    BY <1>2, <1>4 DEF Surjection
  <2> QED BY <2>1, <2>2 DEF Bijection
<1>6. ExistsBijection(1..c, KeysAt(x))
  BY <1>5 DEF ExistsBijection
<1>7. IsFiniteSet(1..c) /\ Cardinality(1..c) = c
  BY FS_Interval
<1> QED BY <1>1, <1>6, <1>7, FS_Bijection

(* No two nodes have a key in common. *)
LEMMA KeysApart ==
    ASSUME NEW ht, Tree(node, allocated, root, ht),
           NEW sp, NEW w, Ordered(node, allocated, sp, NULL, w),
           NEW x \in allocated, NEW s \in SUBSET allocated, x \notin s
    PROVE  KeysAt(x) \cap KeysIn(s) = {}
<1> SUFFICES ASSUME NEW v \in KeysAt(x), v \in KeysIn(s) PROVE FALSE
  OBVIOUS
<1>1. PICK i \in 1..Len(node[x].keys) : v = node[x].keys[i].key
  BY DEF KeysAt
<1>2. PICK y \in s : v \in KeysAt(y)
  BY DEF KeysIn
<1>3. PICK j \in 1..Len(node[y].keys) : v = node[y].keys[j].key
  BY <1>2 DEF KeysAt
<1>4. Mark(node[x].keys, i) = Mark(node[y].keys, j)
  BY <1>1, <1>3 DEF Mark
<1>5. y \in allocated /\ NULL \notin allocated
  BY TreeFacts
<1>6. x = y
  BY <1>4, <1>5, KeysUnique
<1> QED BY <1>6

(* Adding a node adds its keys. *)
LEMMA KeysInSplit ==
    ASSUME NEW s, NEW x \in s
    PROVE  KeysIn(s) = KeysAt(x) \union KeysIn(s \ {x})
BY DEF KeysIn

(* A set of nodes in use has finitely many keys. *)
LEMMA FiniteKeysIn ==
    ASSUME NEW ht, Tree(node, allocated, root, ht),
           NEW sp, NEW w, Ordered(node, allocated, sp, NULL, w),
           NEW r \in SUBSET allocated
    PROVE  IsFiniteSet(r) /\ IsFiniteSet(KeysIn(r))
<1>1. ASSUME NEW s \in SUBSET allocated PROVE IsFiniteSet(s) /\ Cardinality(s) \in Nat
  <2>1. s \subseteq Nodes
    BY TreeFacts
  <2>2. IsFiniteSet(s)
    BY <2>1, NodesAssumption, FS_Subset
  <2> QED BY <2>2, FS_CardinalityType
<1> DEFINE Bad == {h \in Nat : \E s \in SUBSET allocated :
                                  Cardinality(s) = h /\ ~IsFiniteSet(KeysIn(s))}
<1>2. ASSUME Bad # {} PROVE FALSE
  <2>1. PICK h \in Bad : \A i \in Bad : h <= i
    BY <1>2, LeastNatural
  <2>2. PICK s \in SUBSET allocated : Cardinality(s) = h /\ ~IsFiniteSet(KeysIn(s))
    OBVIOUS
  <2>3. CASE s = {}
    <3>1. KeysIn(s) = {}
      BY <2>3 DEF KeysIn
    <3> QED BY <2>2, <3>1, FS_EmptySet
  <2>4. CASE s # {}
    <3>1. PICK x \in s : TRUE
      BY <2>4
    <3>2. PICK q \in SUBSET allocated : q = s \ {x}
      OBVIOUS
    <3>3. Cardinality(q) = h - 1 /\ h - 1 \in Nat
      <4>1. Cardinality(q) = Cardinality(s) - 1
        BY <1>1, <3>2, FS_RemoveElement
      <4>2. Cardinality(q) \in Nat
        BY <1>1
      <4> QED BY <2>2, <4>1, <4>2
    <3>4. IsFiniteSet(KeysIn(q))
      <4>1. ~(h <= Cardinality(q)) /\ Cardinality(q) \in Nat
        BY <3>3
      <4> QED BY <2>1, <4>1
    <3>5. x \in allocated
      OBVIOUS
    <3>6. IsFiniteSet(KeysAt(x))
      BY <3>5, CardKeysAt
    <3>7. KeysIn(s) = KeysAt(x) \union KeysIn(q)
      BY <3>2, KeysInSplit
    <3>8. IsFiniteSet(KeysAt(x) \union KeysIn(q))
      BY <3>4, <3>6, FS_Union
    <3> QED BY <2>2, <3>7, <3>8
  <2> QED BY <2>3, <2>4
<1> QED BY <1>1, <1>2

(* Taking a node away takes away as many keys as it has. *)
LEMMA CountSplit ==
    ASSUME NEW ht, Tree(node, allocated, root, ht),
           NEW sp, NEW w, Ordered(node, allocated, sp, NULL, w),
           NEW s \in SUBSET allocated, NEW x \in s
    PROVE  Cardinality(KeysIn(s)) = KeyCnt(x) + Cardinality(KeysIn(s \ {x}))
<1>1. PICK q \in SUBSET allocated : q = s \ {x}
  OBVIOUS
<1>2. x \in allocated /\ x \notin q
  BY <1>1
<1>3. IsFiniteSet(KeysIn(q))
  BY FiniteKeysIn
<1>4. IsFiniteSet(KeysAt(x)) /\ Cardinality(KeysAt(x)) = KeyCnt(x)
  BY <1>2, CardKeysAt DEF KeyCnt
<1>5. KeysAt(x) \cap KeysIn(q) = {}
  BY <1>2, KeysApart
<1>6. Cardinality(KeysAt(x) \union KeysIn(q)) =
         Cardinality(KeysAt(x)) + Cardinality(KeysIn(q)) - Cardinality(KeysAt(x) \cap KeysIn(q))
  BY <1>3, <1>4, FS_Union
<1>7. Cardinality(KeysAt(x) \cap KeysIn(q)) = 0
  BY <1>5, FS_EmptySet
<1>8. Cardinality(KeysIn(q)) \in Nat /\ Cardinality(KeysAt(x)) \in Nat
  BY <1>3, <1>4, FS_CardinalityType
<1>9. KeysIn(s) = KeysAt(x) \union KeysIn(q)
  BY <1>1, KeysInSplit
<1>10. Cardinality(KeysIn(s)) = Cardinality(KeysAt(x)) + Cardinality(KeysIn(q))
  BY <1>6, <1>7, <1>8, <1>9
<1> QED BY <1>1, <1>4, <1>10

(* The keys of a set of nodes, counted node by node. *)
LEMMA SumIsCount ==
    ASSUME NEW ht, Tree(node, allocated, root, ht),
           NEW sp, NEW w, Ordered(node, allocated, sp, NULL, w)
    PROVE  MapThenSumSet(KeyCnt, allocated) = Cardinality(KeysIn(allocated))
<1> DEFINE One(s) == CHOOSE x \in s : TRUE
           g == [s \in SUBSET allocated |-> Cardinality(KeysIn(s))]
           G == [s \in SUBSET allocated |->
                   IF s = {} THEN 0 ELSE KeyCnt(One(s)) + g[s \ {One(s)}]]
<1>1. \A s \in SUBSET allocated : s # {} => One(s) \in s
  OBVIOUS
<1>2. Cardinality(KeysIn({})) = 0
  <2>1. KeysIn({}) = {}
    BY DEF KeysIn
  <2> QED BY <2>1, FS_EmptySet
<1>3. ASSUME NEW s \in SUBSET allocated PROVE g[s] = G[s]
  <2>1. CASE s = {}
    BY <1>2, <2>1
  <2>2. CASE s # {}
    <3>1. One(s) \in s /\ s \ {One(s)} \in SUBSET allocated
      BY <1>1, <2>2
    <3> HIDE DEF One
    <3>2. Cardinality(KeysIn(s)) = KeyCnt(One(s)) + Cardinality(KeysIn(s \ {One(s)}))
      BY <3>1, CountSplit
    <3> QED BY <2>2, <3>1, <3>2
  <2> QED BY <2>1, <2>2
<1>4. g = G
  <2>1. g = [s \in SUBSET allocated |-> g[s]] /\ G = [s \in SUBSET allocated |-> G[s]]
    OBVIOUS
  <2> HIDE DEF g, G
  <2> QED BY <1>3, <2>1
<1>5. PICK f : /\ f = [s \in SUBSET allocated |->
                         IF s = {} THEN 0 ELSE KeyCnt(One(s)) + f[s \ {One(s)}]]
               /\ MapThenSumSet(KeyCnt, allocated) = f[allocated]
  <2> HIDE DEF g
  <2> QED BY <1>4, SumChosen
<1> HIDE DEF One
<1>6. \A s \in SUBSET allocated :
         f[s] = IF s = {} THEN 0 ELSE KeyCnt(One(s)) + f[s \ {One(s)}]
  BY <1>5
<1>7. ASSUME NEW s \in SUBSET allocated PROVE IsFiniteSet(s) /\ Cardinality(s) \in Nat
  BY FiniteKeysIn, FS_CardinalityType
<1> DEFINE Bad == {h \in Nat : \E s \in SUBSET allocated :
                                  Cardinality(s) = h /\ f[s] # Cardinality(KeysIn(s))}
<1>8. ASSUME Bad # {} PROVE FALSE
  <2>1. PICK h \in Bad : \A i \in Bad : h <= i
    BY <1>8, LeastNatural
  <2>2. PICK s \in SUBSET allocated : Cardinality(s) = h /\ f[s] # Cardinality(KeysIn(s))
    OBVIOUS
  <2>3. CASE s = {}
    BY <1>2, <1>6, <2>2, <2>3
  <2>4. CASE s # {}
    <3>1. PICK x \in s : x = One(s)
      BY <1>1, <2>4
    <3>2. PICK q \in SUBSET allocated : q = s \ {x}
      OBVIOUS
    <3>3. Cardinality(q) = h - 1 /\ h - 1 \in Nat
      <4>1. Cardinality(q) = Cardinality(s) - 1
        BY <1>7, <3>2, FS_RemoveElement
      <4>2. Cardinality(q) \in Nat
        BY <1>7
      <4> QED BY <2>2, <4>1, <4>2
    <3>4. f[q] = Cardinality(KeysIn(q))
      <4>1. ~(h <= Cardinality(q)) /\ Cardinality(q) \in Nat
        BY <3>3
      <4> QED BY <2>1, <4>1
    <3>5. f[s] = KeyCnt(x) + f[q]
      BY <1>6, <2>4, <3>1, <3>2
    <3>6. Cardinality(KeysIn(s)) = KeyCnt(x) + Cardinality(KeysIn(q))
      BY <3>2, CountSplit
    <3> QED BY <2>2, <3>4, <3>5, <3>6
  <2> QED BY <2>3, <2>4
<1>9. f[allocated] = Cardinality(KeysIn(allocated))
  <2>1. allocated \in SUBSET allocated /\ Cardinality(allocated) \in Nat
    BY <1>7
  <2> QED BY <1>8, <2>1
<1> QED BY <1>5, <1>9

(* The keys of the items in the nodes in use. *)
LEMMA ItemKeys ==
    ASSUME IInv
    PROVE  {item.key : item \in Items} = KeysIn(allocated)
<1>1. ASSUME NEW x \in allocated, NEW v
      PROVE  v \in KeysAt(x) <=> \E item \in ToSet(node[x].keys) : v = item.key
  <2>1. node[x].keys \in Seq(Item)
    BY InUse, NodeFacts
  <2>2. ASSUME NEW item PROVE item \in ToSet(node[x].keys) <=>
                                 \E i \in 1..Len(node[x].keys) : item = node[x].keys[i]
    BY <2>1, ToSetOfSeq
  <2> QED BY <2>2 DEF KeysAt
<1>2. ASSUME NEW v
      PROVE  v \in KeysIn(allocated) <=>
                \E x \in allocated : \E item \in ToSet(node[x].keys) : v = item.key
  BY <1>1 DEF KeysIn
<1> QED BY <1>2 DEF Items

(* The sum over no nodes is 0. *)
LEMMA SumOfNone == MapThenSumSet(KeyCnt, {}) = 0
<1> DEFINE g == [s \in SUBSET {} |-> 0]
           G == [s \in SUBSET {} |->
                   IF s = {} THEN 0
                   ELSE KeyCnt(CHOOSE x \in s : TRUE) + g[s \ {CHOOSE x \in s : TRUE}]]
<1>1. \A s \in SUBSET {} : s = {}
  OBVIOUS
<1>2. \A s \in SUBSET {} : g[s] = G[s]
  BY <1>1
<1>3. g = [s \in SUBSET {} |-> g[s]] /\ G = [s \in SUBSET {} |-> G[s]]
  OBVIOUS
<1>4. g = G
  <2> HIDE DEF g, G
  <2> QED BY <1>2, <1>3
<1>5. PICK f : /\ f = [s \in SUBSET {} |->
                         IF s = {} THEN 0
                         ELSE KeyCnt(CHOOSE x \in s : TRUE) + f[s \ {CHOOSE x \in s : TRUE}]]
               /\ MapThenSumSet(KeyCnt, {}) = f[{}]
  <2> HIDE DEF g
  <2> QED BY <1>4, SumChosen
<1>6. {} \in SUBSET {}
  OBVIOUS
<1>7. f[{}] = 0
  BY <1>5, <1>6
<1> QED BY <1>5, <1>7

(* In every tree the invariant admits, size() counts the keys. *)
LEMMA SizeInv == MInv => SizeCountsKeys
<1> SUFFICES ASSUME MInv, pc = "idle"
             PROVE  size = Cardinality({item.key : item \in Items})
  BY DEF SizeCountsKeys
<1>1. allocated = Reachable
  BY NoLeakHolds DEF MInv, NoLeakBalanced
<1>2. {item.key : item \in Items} = KeysIn(allocated)
  BY ItemKeys DEF MInv
<1>3. Top = root
  BY DEF MInv, IInv, AtInsert, Top
<1>4. CASE root = NULL
  <2>1. allocated = {}
    BY <1>3, <1>4 DEF MInv, IInv, Shape
  <2>2. size = 0
    BY <1>1, <2>1, SumOfNone DEF size
  <2>3. KeysIn(allocated) = {}
    BY <2>1 DEF KeysIn
  <2> QED BY <1>2, <2>2, <2>3, FS_EmptySet
<1>5. CASE root # NULL
  <2>1. PICK ht, sp, e, w : /\ Tree(node, allocated, root, ht)
                            /\ Ordered(node, allocated, sp, e, w)
                            /\ Placed(ht, sp, e, w)
    BY <1>3, <1>5 DEF MInv, OrdInv
  <2>2. e = NULL
    BY <2>1 DEF Placed
  <2>3. MapThenSumSet(KeyCnt, allocated) = Cardinality(KeysIn(allocated))
    BY <2>1, <2>2, SumIsCount
  <2> QED BY <1>1, <1>2, <2>3 DEF size
<1> QED BY <1>4, <1>5

(* size(), which adds up the key counts of the nodes below the root: between *)
(* operations it is the number of different keys stored, no key being in the *)
(* tree twice.                                                               *)
THEOREM SizeCorrect == Spec => []SizeCountsKeys
BY OrderKept, SizeInv, PTL
=============================================================================

----------------------------- MODULE LayeredTree -----------------------------
(***************************************************************************)
(* The multi-dimensional tree of b_tree_insert.h, b_tree_search.h,         *)
(* b_tree_remove.h, b_tree_to_rules.h and b_tree_collision_check.h.  A     *)
(* rule is matched dimension by dimension: every level of the tree is one  *)
(* B-tree (a layer) whose keys are ranges of one dimension, and every key  *)
(* holds an optional rule value and an optional next layer.                *)
(*                                                                         *)
(* A layer is a value [compressed, items].  The items of an ordinary layer *)
(* are sorted by the low end of their key, which is all that module        *)
(* BTree1d leaves visible of its nodes.  A compressed layer is one node    *)
(* whose items are the keys of consecutive levels; only the last one has a *)
(* next layer.  Nil is nullptr.  Levels count from 1 along dimension_order;*)
(* the operators take a rule's key ByLevel, the sequence of its D ranges   *)
(* in that order.  Every item remembers its dimension (dim_index), which   *)
(* the search reads inside compressed nodes only.                          *)
(***************************************************************************)
EXTENDS Range1d, RuleValue, Sequences, FiniteSets, SequencesExt

CONSTANTS
  D,                \* number of dimensions
  MAX_DEGREE,       \* keys of one node
  PATH_COMPRESSION  \* the template parameter of _BTreeCfg

ASSUME ConfigAssumption ==
  /\ D \in Nat \ {0}
  /\ MAX_DEGREE \in Nat /\ MAX_DEGREE >= 3
  /\ PATH_COMPRESSION \in BOOLEAN

Levels == 1 .. D

\* dimension_order of a tree that nobody reordered.
DefaultOrder == [l \in Levels |-> l]

\* The ranges (or values) of a rule (or packet) in the order of the levels.
ByLevel(vec, order) == [l \in Levels |-> vec[order[l]]]

Nil == [compressed |-> FALSE, items |-> <<>>]

Layer(compressed, items) == [compressed |-> compressed, items |-> items]

SetNext(n, i, nl) == [n EXCEPT !.items[i].next = nl]

SetValue(n, i, v) == [n EXCEPT !.items[i].value = v]

\* InsertCookie::total_levels_required_cnt
total_levels_required_cnt(key) ==
  LET specified == {l \in Levels : ~is_wildcard(key[l])}
  IN  IF specified = {} THEN 1 ELSE Max(specified)

-----------------------------------------------------------------------------
(* search_possition_1d: the position of a key in a layer; in a compressed  *)
(* layer only the first position belongs to the level that is searched.    *)

Positions(n) == IF n.compressed THEN {1} ELSE DOMAIN n.items

KeyAt(n, k) == {i \in Positions(n) : n.items[i].key = k}

ValueAt(n, v) == {i \in Positions(n) : in_range(n.items[i].key, v)}

\* The length of the prefix of compressed layer n that agrees with key.
CommonPrefix(n, key, l) ==
  Max({m \in 0 .. Len(n.items) :
         \A i \in 1 .. m : l + i - 1 \in Levels /\ n.items[i].key = key[l + i - 1]})

\* search_path: the layers and positions that hold the ranges of key, from
\* level l on, as far as the tree has them.
RECURSIVE search_path(_, _, _)
search_path(n, key, l) ==
  IF n = Nil \/ KeyAt(n, key[l]) = {} THEN <<>>
  ELSE IF n.compressed
  THEN LET m == CommonPrefix(n, key, l)
       IN  [i \in 1 .. m |-> [root |-> n, index |-> i]]
             \o (IF m < Len(n.items) THEN <<>>
                 ELSE search_path(n.items[m].next, key, l + m))
  ELSE LET i == CHOOSE j \in KeyAt(n, key[l]) : TRUE
       IN  <<[root |-> n, index |-> i]>>
             \o search_path(n.items[i].next, key, l + 1)

-----------------------------------------------------------------------------
(* Insert.  c is the InsertCookie: [key, order, levels, value].            *)

Cookie(key, order, value) ==
  [key |-> key, order |-> order, levels |-> total_levels_required_cnt(key), value |-> value]

\* Fault: the first of the keys behind is forgotten.
Rest_one_less(n, i) ==
  LET s == SubSeq(n.items, i + 1, Len(n.items)) IN Layer(Len(s) > 1, s)

\* The keys of a compressed node from position i on, in a node of their own.
Rest(n, i) ==
  LET s == SubSeq(n.items, i, Len(n.items)) IN Layer(Len(s) > 1, s)

\* Fault: the flag is not reset in a node that keeps one key.
decompress_node_flag_kept(n, i) ==
  IF i = 1
  THEN Layer(FALSE, <<[n.items[1] EXCEPT !.next = Rest(n, 2)]>>)
  ELSE LET nnl  == Rest(n, i + 1)
           item == IF nnl = Nil THEN n.items[i] ELSE [n.items[i] EXCEPT !.next = nnl]
       IN  SetNext(Layer(TRUE, SubSeq(n.items, 1, i - 1)), i - 1, Layer(FALSE, <<item>>))

\* decompress_node: position i of n becomes a layer of its own.
decompress_node(n, i) ==
  IF i = 1
  THEN Layer(FALSE, <<[n.items[1] EXCEPT !.next = Rest(n, 2)]>>)
  ELSE LET nnl  == Rest(n, i + 1)
           item == IF nnl = Nil THEN n.items[i] ELSE [n.items[i] EXCEPT !.next = nnl]
       IN  SetNext(Layer(i - 1 > 1, SubSeq(n.items, 1, i - 1)), i - 1,
                   Layer(FALSE, <<item>>))

\* insert_compressed: the keys of the rule's levels l .. l + end - 1; the
\* value goes with the rule's last key only.
compressed_item(c, l, i, cnt) ==
  [key |-> c.key[l + i - 1],
   dim |-> c.order[l + i - 1],
   value |-> IF i = cnt THEN c.value ELSE INVALID,
   next |-> Nil]

\* insert_non_full at the leaf: the new item, in key order.
sorted_insert(items, item) ==
  LET p == Cardinality({i \in DOMAIN items : ~(item.key.low < items[i].key.low)})
  IN  SubSeq(items, 1, p) \o <<item>> \o SubSeq(items, p + 1, Len(items))

RECURSIVE insert_to_root(_, _, _), insert_in_to_new_node(_, _),
          _insert_in_to_compressed(_, _, _, _), insert(_, _, _)

insert_in_to_new_node(c, l) ==
  LET cnt == c.levels - l + 1 IN
  IF PATH_COMPRESSION /\ cnt > 1
  THEN LET end   == Min({MAX_DEGREE, cnt})
           items == SubSeq([i \in 1 .. cnt |-> compressed_item(c, l, i, cnt)], 1, end)
           n     == Layer(end > 1, items)
       IN  IF end < cnt THEN SetNext(n, end, insert_to_root(Nil, c, l + end)) ELSE n
  ELSE Layer(FALSE, <<[key |-> c.key[l], dim |-> c.order[l], value |-> c.value,
                       next |-> IF cnt > 1 THEN insert_to_root(Nil, c, l + 1) ELSE Nil]>>)

insert_non_full(n, c, l) ==
  LET more == l < c.levels
      item == [key   |-> c.key[l],
               dim   |-> c.order[l],
               value |-> IF more THEN INVALID ELSE c.value,
               next  |-> IF more THEN insert_to_root(Nil, c, l + 1) ELSE Nil]
  IN  Layer(FALSE, sorted_insert(n.items, item))

insert_to_root(n, c, l) ==
  IF n = Nil THEN insert_in_to_new_node(c, l)
  ELSE IF n.compressed
  THEN LET keep == CommonPrefix(n, c.key, l)
       IN  _insert_in_to_compressed(n, c, l + keep, keep)
  ELSE insert_non_full(n, c, l)

\* l is the level after the last of the keep keys that stay in the node.
_insert_in_to_compressed(n, c, l, keep) ==
  IF keep = Len(n.items)
  THEN IF l <= c.levels
       THEN SetNext(n, keep, insert(n.items[keep].next, c, l))
       ELSE SetValue(n, keep, c.value)
  ELSE LET m == decompress_node(n, keep + 1)
       IN  IF keep = 0 THEN insert(m, c, l)
           ELSE SetNext(m, keep, insert(m.items[keep].next, c, l))

\* BTreeInsert::insert: go down as far as the tree already has the rule's
\* keys, then continue from there or overwrite the value.
insert(n, c, l) ==
  IF n = Nil \/ KeyAt(n, c.key[l]) = {} THEN insert_to_root(n, c, l)
  ELSE LET m  == IF n.compressed THEN CommonPrefix(n, c.key, l) ELSE 1
           i  == IF n.compressed THEN m ELSE CHOOSE j \in KeyAt(n, c.key[l]) : TRUE
           nl == n.items[i].next
           at == l + m - 1
       IN  IF (n.compressed => m = Len(n.items)) /\ search_path(nl, c.key, at + 1) # <<>>
           THEN SetNext(n, i, insert(nl, c, at + 1))
           ELSE IF at >= c.levels THEN SetValue(n, i, c.value)
           ELSE IF n.compressed THEN _insert_in_to_compressed(n, c, at + 1, m)
           ELSE SetNext(n, i, insert_to_root(nl, c, at + 1))

-----------------------------------------------------------------------------
(* Search: the value of the deepest key on the way of the packet.          *)

\* Fault: a value found higher up is kept.
Valid_first(v, res) == IF res = INVALID THEN v ELSE res

Valid(v, res) == IF v # INVALID THEN v ELSE res

\* search_rest_of_path_in_compressed_node: how many keys of n match.
Matched(n, vals) ==
  Max({j \in 1 .. Len(n.items) :
         \A i \in 2 .. j : in_range(n.items[i].key, vals[n.items[i].dim])})

RECURSIVE search_from(_, _, _, _, _)
search_from(n, vals, order, l, res) ==
  IF n = Nil \/ ValueAt(n, vals[order[l]]) = {} THEN res
  ELSE IF n.compressed
  THEN LET m     == Matched(n, vals)
           found == SelectSeq(SubSeq(n.items, 1, m), LAMBDA it : it.value # INVALID)
           best  == IF found = <<>> THEN res ELSE Last(found).value
           ways  == {i \in 2 .. m : n.items[i].next # Nil}
       IN  IF ways = {} THEN best
           ELSE search_from(n.items[Max(ways)].next, vals, order, l + Max(ways), best)
  ELSE LET i == CHOOSE j \in ValueAt(n, vals[order[l]]) : TRUE
       IN  search_from(n.items[i].next, vals, order, l + 1, Valid(n.items[i].value, res))

search(n, vals, order) == search_from(n, vals, order, 1, INVALID)

-----------------------------------------------------------------------------
(* to_rules: the keys and values of all paths that end in a valid value.   *)

RECURSIVE to_rules_from(_, _)
to_rules_from(n, path) ==
  LET PathTo(i) == IF n.compressed
                   THEN path \o [j \in 1 .. i |-> n.items[j].key]
                   ELSE Append(path, n.items[i].key)
      Saved(i)  == IF n.items[i].value = INVALID THEN {}
                   ELSE {[key   |-> [l \in Levels |-> IF l <= Len(PathTo(i))
                                                     THEN PathTo(i)[l] ELSE Wildcard],
                          value |-> n.items[i].value]}
  IN  UNION {Saved(i) \cup to_rules_from(n.items[i].next, PathTo(i)) : i \in DOMAIN n.items}

to_rules(n) == to_rules_from(n, <<>>)

-----------------------------------------------------------------------------
(* Remove.  BTreeRemove::remove walks search_path bottom-up; the result is *)
(* the layer, whether the walk stopped below or in it, and whether a key   *)
(* was not found (std::runtime_error, which nothing catches).              *)

Outcome(layer, stop, thrown) == [layer |-> layer, stop |-> stop, thrown |-> thrown]

\* remove_1d on one layer.  findKey stops at the first key that is not lower,
\* which is the right one only where the keys are sorted.
remove_1d(n, k) ==
  LET reached == {i \in DOMAIN n.items : ~less(n.items[i].key, k)}
  IN  IF reached # {} /\ n.items[Min(reached)].key = k
      THEN Outcome([n EXCEPT !.items = RemoveAt(@, Min(reached))], FALSE, FALSE)
      ELSE Outcome(n, FALSE, TRUE)

\* The steps of the walk that stay in one compressed node.
RECURSIVE remove_keys(_, _, _, _)
remove_keys(n, key, l, m) ==
  IF m = 0 THEN Outcome(n, FALSE, FALSE)
  ELSE LET o == remove_1d(n, key[l + m - 1])
       IN  IF o.thrown THEN o ELSE remove_keys(o.layer, key, l, m - 1)

Freed(n) == IF n.items = <<>> THEN Nil ELSE n

\* Line 60 stores nl, which is nullptr there, in the upper layer: whatever is
\* left of the lower layer is dropped.
RECURSIVE remove_from(_, _, _, _)
remove_from(n, key, l, is_tree_root) ==
  LET m    == IF n.compressed THEN CommonPrefix(n, key, l) ELSE 1
      i    == IF n.compressed THEN m ELSE CHOOSE j \in KeyAt(n, key[l]) : TRUE
      nl   == n.items[i].next
      ends == (n.compressed /\ m < Len(n.items)) \/ search_path(nl, key, l + m) = <<>>
      below == IF ends THEN Outcome(Nil, FALSE, FALSE) ELSE remove_from(nl, key, l + m, FALSE)
      cut  == SetNext(n, i, Nil)
      own  == IF is_tree_root THEN remove_1d(cut, key[l + m - 1])
              ELSE remove_keys(cut, key, l, m)
  IN  IF ends /\ nl # Nil THEN Outcome(SetValue(n, i, INVALID), TRUE, FALSE)
      ELSE IF below.thrown THEN below
      ELSE IF below.stop THEN Outcome(SetNext(n, i, below.layer), TRUE, FALSE)
      ELSE Outcome(Freed(own.layer), is_tree_root, own.thrown)

remove(n, key) ==
  IF search_path(n, key, 1) = <<>> THEN Outcome(n, TRUE, FALSE)
  ELSE remove_from(n, key, 1, TRUE)

-----------------------------------------------------------------------------
(* does_rule_colide: the answers the code can give.  start is              *)
(* start_of_this_node; a position behind the keys of a compressed node     *)
(* reads memory nobody wrote, so that any answer is possible.              *)

RECURSIVE colide_from(_, _, _, _)
colide_from(n, key, level, start) ==
  IF level > D \/ n = Nil THEN {FALSE}
  ELSE IF n.compressed
  THEN LET i == level - start + 1 IN
       IF i > Len(n.items) THEN BOOLEAN
       ELSE IF n.items[i].key # key[level] THEN {overlaps(n.items[i].key, key[level])}
       ELSE colide_from(IF i = Len(n.items) THEN n.items[i].next ELSE n, key, level + 1, start)
  ELSE IF KeyAt(n, key[level]) # {}
  THEN LET i == CHOOSE j \in KeyAt(n, key[level]) : TRUE
       IN  colide_from(n.items[i].next, key, level + 1, level)
  ELSE {\E i \in DOMAIN n.items : overlaps(n.items[i].key, key[level])}

does_rule_colide(n, key) == colide_from(n, key, 1, 1)

=============================================================================

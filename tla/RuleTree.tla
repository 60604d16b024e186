------------------------------- MODULE RuleTree -------------------------------
(***************************************************************************)
(* One tree of rules (BTreeImp) under the calls its users make: insert of  *)
(* a rule that does not collide with what the tree holds, update of a      *)
(* stored rule, remove, and the observers search, to_rules and             *)
(* does_rule_colide, which are compared with the set of stored rules.      *)
(***************************************************************************)
EXTENDS LayeredTree

CONSTANTS
  Rules,      \* the keys of the rules that are used: sequences of D ranges
  Versions,   \* the values a rule is stored with
  MaxUpdated  \* bound: how many stored rules have another version than 1

VARIABLES
  tree,     \* tree.root
  stored,   \* key -> version of the rules inserted and not removed
  present   \* keys whose items are still in the tree (remove may keep them)

vars == <<tree, stored, present>>

ASSUME RulesAssumption ==
  \A key \in Rules : DOMAIN key = Levels /\ \A l \in Levels : key[l] \in Range1d

RuleValue(key, ver) == [rule |-> key, version |-> ver]

-----------------------------------------------------------------------------
(* The reference: what the comments of insert and does_rule_colide call a  *)
(* collision.  A new rule may repeat a stored one or continue its prefix;  *)
(* where the two first differ, their ranges must not intersect.            *)

Collide(key, s) ==
  \E l \in 1 .. total_levels_required_cnt(s) :
    /\ \A j \in 1 .. l - 1 : key[j] = s[j]
    /\ key[l] # s[l]
    /\ Intersect(key[l], s[l])

Fits(key) == \A s \in present : ~Collide(key, s)

Matches(key, vals) == \A l \in Levels : in_range(key[l], vals[l])

\* The rule a lookup must return: the matching one with most levels.
Expected(vals) ==
  LET hits == {key \in DOMAIN stored : Matches(key, vals)}
      best == CHOOSE key \in hits : \A k \in hits :
                total_levels_required_cnt(k) <= total_levels_required_cnt(key)
  IN  IF hits = {} THEN INVALID ELSE RuleValue(best, stored[best])

-----------------------------------------------------------------------------

Init == tree = Nil /\ stored = <<>> /\ present = {}

\* BTreeImp::insert of a new rule, or of one that is stored already.
Insert(key, ver) ==
  /\ Fits(key)
  /\ ver # 1 => Cardinality({k \in DOMAIN stored : stored[k] # 1}) < MaxUpdated
  /\ tree' = insert(tree, Cookie(key, DefaultOrder, RuleValue(key, ver)), 1)
  /\ stored' = [k \in DOMAIN stored \cup {key} |-> IF k = key THEN ver ELSE stored[k]]
  /\ present' = present \cup {key}

PathItem(key, i) ==
  LET p == search_path(tree, key, 1)[i] IN p.root.items[p.index]

Continued(key) == PathItem(key, Len(search_path(tree, key, 1))).next # Nil

\* The items on the path of key serve no other rule, and none of them is in a
\* compressed node.
Private(key) ==
  LET path == search_path(tree, key, 1) IN
  /\ \A i \in DOMAIN path : ~path[i].root.compressed
  /\ \A i \in 2 .. Len(path) : Len(path[i].root.items) = 1
  /\ \A i \in 1 .. Len(path) - 1 : PathItem(key, i).value = INVALID

\* BTreeImp::remove of a rule that another one continues: its value goes, its
\* items stay.
RemoveContinued(key) ==
  /\ key \in DOMAIN stored
  /\ Continued(key)
  /\ tree' = remove(tree, key).layer
  /\ stored' = [k \in DOMAIN stored \ {key} |-> stored[k]]
  /\ UNCHANGED present

\* BTreeImp::remove of a rule whose items are its own: they go up to the root,
\* and with them those that earlier removes left there.
RemovePrivate(key) ==
  /\ key \in DOMAIN stored
  /\ ~Continued(key) /\ Private(key)
  /\ tree' = remove(tree, key).layer
  /\ stored' = [k \in DOMAIN stored \ {key} |-> stored[k]]
  /\ present' = {k \in present : k[1] # key[1]}

Next == \E key \in Rules :
  \/ \E ver \in Versions : Insert(key, ver)
  \/ RemoveContinued(key)
  \/ RemovePrivate(key)

Spec == Init /\ [][Next]_vars

-----------------------------------------------------------------------------
(* Properties.                                                             *)

\* BTreeSearch::search returns for every packet the value last given to the
\* matching stored rule with most levels, and INVALID_RULE if none matches,
\* whatever splitting of compressed nodes the order of the inserts caused.
SearchFindsDeepest ==
  \A vals \in [Levels -> Values] : search(tree, vals, DefaultOrder) = Expected(vals)

\* _BTreeToRules::to_rules gives back exactly the stored rules with their
\* values, wildcards in the levels the tree does not store included.
ToRulesGivesStored ==
  to_rules(tree) = {[key |-> k, value |-> RuleValue(k, stored[k])] : k \in DOMAIN stored}

RECURSIVE Shape(_, _)
Shape(n, l) ==
  /\ n.compressed =>
       /\ Len(n.items) \in 2 .. MAX_DEGREE
       /\ \A i \in 1 .. Len(n.items) - 1 : n.items[i].next = Nil
  /\ ~n.compressed =>
       \A i, j \in DOMAIN n.items : i < j => n.items[i].key.high < n.items[j].key.low
  /\ \A i \in DOMAIN n.items :
       LET item == n.items[i]
           at   == IF n.compressed THEN l + i - 1 ELSE l
       IN  /\ at \in Levels /\ item.key \in Range1d
           /\ item.value \in {INVALID} \cup {RuleValue(k, v) : k \in Rules, v \in Versions}
           /\ item.next = Nil => (n.compressed /\ i < Len(n.items)) \/ item.value # INVALID
           /\ Shape(item.next, at + 1)

\* What integrity_check and the asserts of insert_in_to_compressed and
\* decompress_node expect of every node: it is on a level of the rule; a
\* compressed node has at least two keys, fits into a node and continues only
\* behind its last key; the keys of an ordinary layer are disjoint and sorted;
\* and no chain of keys ends without a rule.
NodesWellFormed ==
  Shape(tree, 1) /\ present \subseteq Rules /\ DOMAIN stored \subseteq present

RECURSIVE Plain(_)
Plain(n) == ~n.compressed /\ \A i \in DOMAIN n.items : Plain(n.items[i].next)

\* does_rule_colide answers exactly whether the rule collides with one that
\* the tree holds, as long as no layer below the root is compressed (and the
\* ranges are nested or disjoint, as prefixes are).
CollisionExactOnPlainTrees ==
  (\A i \in DOMAIN tree.items : Plain(tree.items[i].next)) =>
    \A key \in Rules : does_rule_colide(tree, key) = {~Fits(key)}

\* What the comment of does_rule_colide promises: "Check if the rule collides
\* wit any other rule in the tree".
CollisionFound ==
  \A key \in Rules : ~Fits(key) => does_rule_colide(tree, key) = {TRUE}

-----------------------------------------------------------------------------
(* BTreeImp::remove of any stored rule, once, after any inserts.           *)

RemoveAny(key) ==
  /\ key \in DOMAIN stored
  /\ ~remove(tree, key).thrown
  /\ tree' = remove(tree, key).layer
  /\ stored' = [k \in DOMAIN stored \ {key} |-> stored[k]]
  /\ UNCHANGED present

RemoveAnySpec ==
  Init /\ [][/\ present = DOMAIN stored
             /\ \E key \in Rules : Insert(key, 1) \/ RemoveAny(key)]_vars


=============================================================================

----------------------- MODULE PartitionSortClassifier -----------------------
(***************************************************************************)
(* PartitionSortClassifer of partition_sort_classifier.h: rules are spread *)
(* over trees of non-colliding rules; the trees are kept in the order of   *)
(* their greatest priority, so that a search can stop early.  An insert    *)
(* may change the dimension order of a tree, which rebuilds the tree and   *)
(* inserts the rules that no longer fit into it again, elsewhere: insert,  *)
(* update_dimension_order and the rebuild call each other.                 *)
(*                                                                         *)
(* These three are operators from a state st of the classifier to the set  *)
(* of states they may end in; st has the fields of the class.  There is    *)
(* more than one where the code reads memory that is not initialised (see  *)
(* does_rule_colide) or pushes to a vector an outer call iterates over.    *)
(***************************************************************************)
EXTENDS LayeredTree, DimensionOrder, ArrayResort, RangeMask, BagsExt

CONSTANTS
  Rules,                    \* the rules of the clients: [key, priority, id]
  MAX_TREE_CNT,             \* number of trees
  TREE_FIXATION_THRESHOLD,  \* a tree with as many rules keeps its order
  KEY_SIZE,                 \* sizeof(key_t)
  MaxListed,                \* bound: length of a tree's list of rules
  MaxRemoved                \* bound: number of calls of remove

ASSUME ClassifierAssumption ==
  /\ MAX_TREE_CNT \in Nat \ {0}
  /\ TREE_FIXATION_THRESHOLD \in Nat
  /\ MaxListed \in Nat
  /\ MaxRemoved \in Nat
  /\ MAXV = MaxOf(KEY_SIZE)
  /\ \A r \in Rules : /\ DOMAIN r.key = Levels
                      /\ \A d \in Levels : r.key[d] \in Range1d
                      /\ r.priority \in Nat

Slots == 1 .. MAX_TREE_CNT

ValueOf(rule) == [priority |-> rule.priority, id |-> rule.id]

get_rule_mask(rule) == [d \in Levels |-> get_mask_le(rule.key[d], KEY_SIZE)]

EmptyTree ==
  [root |-> Nil, dimension_order |-> DefaultOrder, max_priority |-> 0, used_dim_cnt |-> 0,
   rules |-> <<>>, update_pending |-> FALSE, used_rule_masks |-> EmptyBag]

InitialState ==
  [trees |-> [i \in Slots |-> i], tree_cnt |-> 0, info |-> [t \in Slots |-> EmptyTree],
   rule_to_tree |-> <<>>, status |-> "ok"]

-----------------------------------------------------------------------------
(* One tree.                                                               *)

colides(ti, rule) == does_rule_colide(ti.root, ByLevel(rule.key, ti.dimension_order))

tree_insert(ti, rule) ==
  [ti EXCEPT !.root = insert(@, Cookie(ByLevel(rule.key, ti.dimension_order),
                                       ti.dimension_order, ValueOf(rule)), 1)]

tree_remove(ti, rule) == remove(ti.root, ByLevel(rule.key, ti.dimension_order))

Keys(rules) == [i \in DOMAIN rules |-> rules[i].key]

Resolved(ti) == resolve(Keys(ti.rules), ti.dimension_order)

\* Fault: the rule is not listed.
push_rule_not(st, t, rule) == {st}

\* rules.push_back.  While a rebuild iterates over the list (update_pending),
\* a push that reallocates it leaves the loop with dangling iterators.
push_rule(st, t, rule) ==
  LET pushed == [st EXCEPT !.info[t].rules = Append(@, rule)]
  IN  IF st.info[t].update_pending THEN {pushed, [pushed EXCEPT !.status = "dangling"]}
      ELSE {pushed}

\* Fault: the trees are not resorted.
resort_not(st, i) == st

\* resort_on_priority_change
resort_on_priority_change(st, i) ==
  [st EXCEPT !.trees = array_resort(@, st.tree_cnt, i,
                                    [t \in Slots |-> st.info[t].max_priority])]

\* The loop over the unused dimensions once the order is fixed: one that the
\* rule specifies is swapped to the end of the used ones.
use_dimensions(ti, rule) ==
  FoldLeftDomain(LAMBDA x, d_i :
      IF d_i <= ti.used_dim_cnt \/ is_wildcard(rule.key[x.dimension_order[d_i]]) THEN x
      ELSE [x EXCEPT !.dimension_order[x.used_dim_cnt + 1] = x.dimension_order[d_i],
                     !.dimension_order[d_i] = x.dimension_order[x.used_dim_cnt + 1],
                     !.used_dim_cnt = @ + 1],
    ti, DefaultOrder)

-----------------------------------------------------------------------------
(* insert, update_dimension_order and the rebuild.                         *)

RECURSIVE insert_rule(_, _), insert_to_new_tree(_, _),
          update_dimension_order(_, _, _), rebuild(_, _, _)

Bind(states, Op(_)) == UNION {IF s.status = "ok" THEN Op(s) ELSE {s} : s \in states}

\* Fault: every rule is inserted anew, this tree is not excluded.
RECURSIVE rebuild_unchecked(_, _, _)
rebuild_unchecked(st, t, rules) ==
  IF rules = <<>> THEN {st}
  ELSE Bind(insert_rule(st, Head(rules)), LAMBDA s : rebuild_unchecked(s, t, Tail(rules)))

\* Fault: a rule that no longer fits gets a tree of its own.
RECURSIVE rebuild_apart(_, _, _)
rebuild_apart(st, t, rules) ==
  IF rules = <<>> THEN {st}
  ELSE Bind(UNION {IF c THEN insert_to_new_tree(st, Head(rules))
                   ELSE {[st EXCEPT !.info[t] = tree_insert(@, Head(rules))]}
                   : c \in colides(st.info[t], Head(rules))},
            LAMBDA s : rebuild_apart(s, t, Tail(rules)))

\* The loop over the rules the list had when it began.
rebuild(st, t, rules) ==
  IF rules = <<>> THEN {st}
  ELSE Bind(UNION {IF c THEN insert_rule(st, Head(rules))
                   ELSE {[st EXCEPT !.info[t] = tree_insert(@, Head(rules))]}
                   : c \in colides(st.info[t], Head(rules))},
            LAMBDA s : rebuild(s, t, Tail(rules)))

\* rule_to_add_before is a sequence of at most one rule.
update_dimension_order(st, t, rule_to_add_before) ==
  LET Pushed(s) == IF rule_to_add_before = <<>> THEN {s}
                   ELSE push_rule(s, t, rule_to_add_before[1])
      Added(s)  == IF rule_to_add_before = <<>> THEN s
                   ELSE [s EXCEPT !.info[t] = tree_insert(@, rule_to_add_before[1])]
      Done(s)   == {[s EXCEPT !.info[t].update_pending = FALSE]}
      Reorder(s) ==
        LET new == Resolved(s.info[t])
            beg == [s EXCEPT !.info[t].update_pending = TRUE]
        IN  IF new.order # s.info[t].dimension_order
            THEN rebuild([beg EXCEPT !.info[t].root = Nil,
                                     !.info[t].dimension_order = new.order,
                                     !.info[t].used_dim_cnt = new.used_dim_cnt],
                         t, s.info[t].rules)
            ELSE {Added(beg)}
  IN  IF st.info[t].update_pending THEN Pushed(Added(st))
      ELSE Bind(Bind(Pushed(st), Reorder), Done)

\* Fault: a greater priority is not noted.
raise_priority_not(st, i, t, rule) == st

\* i is the place the tree had before the insert.
raise_priority(st, i, t, rule) ==
  IF rule.priority > st.info[t].max_priority
  THEN resort_on_priority_change([st EXCEPT !.info[t].max_priority = rule.priority], i)
  ELSE st

\* Fault: a rule that moves keeps its map entry.
note_rule_first(st, t, rule) ==
  [st EXCEPT !.rule_to_tree = @ @@ (rule :> t),
             !.info[t].used_rule_masks = @ (+) SetToBag({get_rule_mask(rule)})]

\* Fault: the mask is noted, not counted.
note_rule_mask(st, t, rule) ==
  [st EXCEPT !.rule_to_tree = (rule :> t) @@ @,
             !.info[t].used_rule_masks = SetToBag({get_rule_mask(rule)} \cup BagToSet(@))]

\* rule_to_tree[rule] = &t and used_rule_mask_incr
note_rule(st, t, rule) ==
  [st EXCEPT !.rule_to_tree = (rule :> t) @@ @,
             !.info[t].used_rule_masks = @ (+) SetToBag({get_rule_mask(rule)})]

\* try_insert_to_tree_without_collisions, after the collision check.
insert_to_tree(st, i, rule) ==
  LET t == st.trees[i]
      Insert(s) ==
        IF Len(s.info[t].rules) < TREE_FIXATION_THRESHOLD
        THEN update_dimension_order(s, t, <<rule>>)
        ELSE {[s EXCEPT !.info[t] = tree_insert(use_dimensions(@, rule), rule)]}
  IN  Bind(Bind(push_rule(note_rule(st, t, rule), t, rule), Insert),
           LAMBDA s : {raise_priority(s, i, t, rule)})

\* The part of insert that takes a tree for a rule that fits nowhere else.
insert_to_new_tree(st, rule) ==
  LET i   == st.tree_cnt + 1
      t   == st.trees[i]
      ti  == [st.info[t] EXCEPT !.max_priority = rule.priority]
      new == resolve(<<rule.key>>, ti.dimension_order)
      tr  == IF ti.rules # <<>> THEN ti
             ELSE [ti EXCEPT !.dimension_order = new.order, !.used_dim_cnt = new.used_dim_cnt]
      Insert(s) == IF Len(s.info[t].rules) > 1 THEN update_dimension_order(s, t, <<>>) ELSE {s}
  IN  IF st.tree_cnt >= MAX_TREE_CNT THEN {[st EXCEPT !.status = "thrown"]}
      ELSE Bind(Bind(push_rule(note_rule([st EXCEPT !.info[t] = tree_insert(tr, rule)], t, rule),
                               t, rule), Insert),
                LAMBDA s : {resort_on_priority_change([s EXCEPT !.tree_cnt = @ + 1],
                                                      s.tree_cnt + 1)})

\* insert: the trees with a rule of the same mask are tried first.
insert_rule(st, rule) ==
  LET HasMask(i) == BagIn(get_rule_mask(rule), st.info[st.trees[i]].used_rule_masks)
      places == [i \in 1 .. st.tree_cnt |-> i]
      tries  == SelectSeq(places, HasMask) \o SelectSeq(places, LAMBDA i : ~HasMask(i))
      Answers(k) == colides(st.info[st.trees[tries[k]]], rule)
      Reached(k) == \A j \in 1 .. k - 1 : TRUE \in Answers(j)
  IN  UNION ({insert_to_tree(st, tries[k], rule) :
                k \in {j \in DOMAIN tries : Reached(j) /\ FALSE \in Answers(j)}}
             \cup (IF Reached(Len(tries) + 1) THEN {insert_to_new_tree(st, rule)} ELSE {}))

-----------------------------------------------------------------------------
(* remove.  The map entry is read after it was erased.  The pointer to the *)
(* tree is then in a freed block that nothing was allocated from yet, and  *)
(* behind the words an allocator writes to a free block: it still reads as *)
(* it was.  The rule stays in the tree's list of rules.                    *)

remove_rule(st, rule) ==
  LET t == st.rule_to_tree[rule]
      o == tree_remove(st.info[t], rule)
      s == [st EXCEPT !.info[t].root = o.layer,
                      !.rule_to_tree = [r \in DOMAIN @ \ {rule} |-> @[r]],
                      !.info[t].used_rule_masks = @ (-) SetToBag({get_rule_mask(rule)})]
  IN  IF rule \notin DOMAIN st.rule_to_tree THEN {st}
      ELSE IF o.thrown THEN {[st EXCEPT !.status = "thrown"]}
      ELSE IF Len(s.info[t].rules) < TREE_FIXATION_THRESHOLD
      THEN update_dimension_order(s, t, <<>>)
      ELSE {s}

-----------------------------------------------------------------------------
(* search                                                                  *)

\* The loop of search_trees over the trees in use.
search_rule(st, vals) ==
  LET InUse(i) == st.info[st.trees[i]]
  IN  search_trees([i \in 1 .. st.tree_cnt |-> search(InUse(i).root, vals, InUse(i).dimension_order)],
                   [i \in 1 .. st.tree_cnt |-> InUse(i).max_priority])

-----------------------------------------------------------------------------
(* The classifier and its client.                                          *)

VARIABLES
  cls,      \* the classifier
  live,     \* the rules inserted and not removed
  removed   \* number of removes so far

vars == <<cls, live, removed>>

Init == cls = InitialState /\ live = {} /\ removed = 0

Running == cls.status = "ok" /\ \A t \in Slots : Len(cls.info[t].rules) < MaxListed

\* PartitionSortClassifer::insert of a rule that is not stored.
InsertRule(rule) ==
  /\ Running
  /\ rule \notin live
  /\ cls' \in insert_rule(cls, rule)
  /\ live' = live \cup {rule}
  /\ UNCHANGED removed

\* PartitionSortClassifer::remove of a rule that is stored.
RemoveRule(rule) ==
  /\ Running
  /\ removed < MaxRemoved
  /\ rule \in live
  /\ cls' \in remove_rule(cls, rule)
  /\ live' = live \ {rule}
  /\ removed' = removed + 1

Next == \E rule \in Rules : InsertRule(rule) \/ RemoveRule(rule)

Spec == Init /\ [][Next]_vars

-----------------------------------------------------------------------------
(* Properties.  A call that throws leaves the classifier unusable (nothing *)
(* in the repository catches the exception), so they speak of a classifier *)
(* that is still running.                                                  *)

OK == cls.status = "ok"

\* What holds as long as the client only inserts: remove breaks it.
OnlyInserts == OK /\ removed = 0

Matches(rule, vals) == \A d \in Levels : in_range(rule.key[d], vals[d])

Packets == [Levels -> Values]

Unpermuted(key, order) == [d \in Levels |-> key[PlaceOf(d, order)]]

\* The content of tree t, by to_rules.
Content(t) ==
  {[key |-> Unpermuted(e.key, cls.info[t].dimension_order),
    priority |-> e.value.priority, id |-> e.value.id] : e \in to_rules(cls.info[t].root)}

\* The note on tree_info says of the trees that "[0] has the greatest max
\* priority rule": whatever nested inserts a rebuild made, and although the
\* tree of an insert is resorted from the place it had before them, the
\* trees in use are in descending order of their greatest priority when a
\* call returns.
TreesSorted ==
  OK => \A i, j \in 1 .. cls.tree_cnt : i < j =>
          cls.info[cls.trees[i]].max_priority >= cls.info[cls.trees[j]].max_priority

\* The max_priority that lets a search stop early is never below the
\* priority of a rule in the tree, rules that a rebuild of another tree sent
\* there included.
MaxPriorityBounds ==
  OK => \A t \in Slots : \A r \in Content(t) : r.priority <= cls.info[t].max_priority

\* The rule a client will remove is found in the tree rule_to_tree names,
\* under the dimension order the tree has by now: rebuilds that move rules
\* between trees keep the map right.
MapRight ==
  OnlyInserts => /\ DOMAIN cls.rule_to_tree = live
                 /\ \A r \in live : r \in Content(cls.rule_to_tree[r])

\* The assertion of used_rule_mask_decr: the tree a remove is directed to
\* counts the mask of the rule, once for every rule of that mask it is
\* answerable for, although a rule that moved is counted in both trees.
MasksCounted ==
  OK => \A r \in DOMAIN cls.rule_to_tree :
    LET t == cls.rule_to_tree[r]
        m == get_rule_mask(r)
    IN  CopiesIn(m, cls.info[t].used_rule_masks) >=
          Cardinality({q \in DOMAIN cls.rule_to_tree :
                         cls.rule_to_tree[q] = t /\ get_rule_mask(q) = m})

\* A rebuild destroys the tree and inserts what its list of rules holds: every
\* rule in a tree is in its list, whether it was inserted there, sent there by
\* the rebuild of another tree or put back by its own, and after removes too.
ListsCoverTrees == OK => \A t \in Slots : Content(t) \subseteq ToSet(cls.info[t].rules)

\* The classifier's promise: a search gives the rule of the greatest priority
\* among all inserted rules that match the packet, whichever trees they are
\* in and although it stops at the first tree whose successor cannot do
\* better; none if no rule matches.
SearchFindsBest ==
  OnlyInserts => \A vals \in Packets :
    LET hits == {r \in live : Matches(r, vals)}
        res  == search_rule(cls, vals)
    IN  IF hits = {} THEN res = INVALID
        ELSE \E r \in hits : ValueOf(r) = res /\ \A s \in hits : s.priority <= r.priority

\* A rebuild iterates over the tree's list of rules while the inserts it makes
\* push to the lists of other trees: never to the list it iterates over.
NeverDangling == cls.status # "dangling"

\* Trees are never given back, and a rule that moves may take a new one: still
\* no more trees are in use than rules were inserted, so that a classifier
\* with MAX_TREE_CNT of at least that number does not throw "all tress used".
TreesPerRule == cls.tree_cnt <= Cardinality(live) + removed
=============================================================================

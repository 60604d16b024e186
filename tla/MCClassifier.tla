----------------------------- MODULE MCClassifier -----------------------------
(* Rule sets for model checking module PartitionSortClassifier.            *)
EXTENDS PartitionSortClassifier

\* Ranges of a two-bit key: prefixes of length 2, 1 and 0.
P(v) == [low |-> v, high |-> v]
lo == [low |-> 0, high |-> 1]
hi == [low |-> 2, high |-> 3]
w == Wildcard

\* The priority the test programs give to a rule: cummulative_prefix_len.
Rule(id, key) ==
  [key |-> key, id |-> id,
   priority |-> SumOf([d \in DOMAIN key |-> prefix_len_le(key[d], KEY_SIZE)])]

Numbered(keys) == {Rule(i, keys[i]) : i \in DOMAIN keys}

\* Rules whose trees are rebuilt, moved and shared: nested and overlapping
\* prefixes, one or both dimensions specified, two rules of one mask.
TwoDims ==
  Numbered(<< <<P(0), w>>, <<w, P(0)>>, <<lo, w>>, <<w, w>>, <<P(1), P(0)>>, <<P(2), P(1)>> >>)

\* Four rules that need four trees, or three and a rebuild.
Overlapping == Numbered(<< <<w, lo>>, <<lo, w>>, <<w, w>>, <<w, P(0)>> >>)
=============================================================================

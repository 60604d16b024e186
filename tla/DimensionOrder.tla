---------------------------- MODULE DimensionOrder ----------------------------
(***************************************************************************)
(* GreedyDimensionOrderResolver: in which order a tree should match the    *)
(* dimensions of its rules.  rules is a sequence of keys (one range per    *)
(* dimension), original_order the order the tree has.                      *)
(***************************************************************************)
EXTENDS IntervalScheduling

get_dimension_sel_score(rules, d) ==
  findMaxWeightIntervalSequence([i \in DOMAIN rules |-> rules[i][d]])

\* dim_mask: the dimensions some rule specifies.
used_dims(rules, dims) == {d \in dims : \E i \in DOMAIN rules : ~is_wildcard(rules[i][d])}

PlaceOf(d, order) == CHOOSE i \in DOMAIN order : order[i] = d

\* Fault: equal scores are ordered by the number of the dimension.
score_order_by_number(p, q, original_order) ==
  p.score > q.score \/ (p.score = q.score /\ p.d < q.d)

\* The comparator of the sort: the greater score first, then the old order.
score_order(p, q, original_order) ==
  \/ p.score > q.score
  \/ p.score = q.score /\ PlaceOf(p.d, original_order) < PlaceOf(q.d, original_order)

\* The comparator has no ties, so the order in which pending_dims come to the
\* sort is of no account.
resolve(rules, original_order) ==
  LET used   == used_dims(rules, DOMAIN original_order)
      unused == DOMAIN original_order \ used
      scores == [d \in used |-> [d |-> d, score |-> get_dimension_sel_score(rules, d)]]
      best   == Arrange(used, {p \in used \X used :
                                 score_order(scores[p[1]], scores[p[2]], original_order)})
      rest   == Arrange(unused, {p \in unused \X unused :
                                   PlaceOf(p[1], original_order) < PlaceOf(p[2], original_order)})
  IN  [order |-> best \o rest, used_dim_cnt |-> Len(best)]

=============================================================================

-------------------------- MODULE IntervalScheduling --------------------------
(***************************************************************************)
(* WeightedIntervalSchedulingSolver: the score of a list of ranges, about  *)
(* the weight of the heaviest choice of ranges that do not conflict.       *)
(***************************************************************************)
EXTENDS Range1d, Sequences, SequencesExt

\* The members of the finite set S one after the other: x is the first such
\* that no pair <<y, x>> is in before, and so on.
Arrange(S, before) ==
  [k \in 1 .. Cardinality(S) |->
     CHOOSE x \in S : Cardinality({y \in S : <<y, x>> \in before}) = k - 1]

\* std::sort with intervalComparataor.  Ranges with the same high end keep
\* their order: libstdc++ sorts up to 16 elements by insertion.
EndsFirst(list) ==
  {p \in (DOMAIN list) \X (DOMAIN list) :
     \/ list[p[1]].high < list[p[2]].high
     \/ list[p[1]].high = list[p[2]].high /\ p[1] < p[2]}

sort_intervals(list) ==
  LET from == Arrange(DOMAIN list, EndsFirst(list))
  IN  [k \in DOMAIN list |-> list[from[k]]]

\* "exactly same intervals" do not conflict.
NoConflict(r, s) == r.high <= s.low \/ r = s

\* Fault: the first range that does not conflict is taken.
latestNonConflict_first(s, i) ==
  LET free == {j \in 1 .. i - 1 : NoConflict(s[j], s[i])}
  IN  IF free = {} THEN 0 ELSE Min(free)

\* 0 stands for -1.
latestNonConflict(s, i) ==
  LET free == {j \in 1 .. i - 1 : NoConflict(s[j], s[i])}
  IN  IF free = {} THEN 0 ELSE Max(free)

get_weight(s, i) == IF i > 1 /\ s[i - 1] = s[i] THEN 2 ELSE 1

\* table[i] for the sorted ranges s, from the entries before it.
next_entry(s, table, i) ==
  LET l        == latestNonConflict(s, i)
      inclProf == get_weight(s, i) + (IF l = 0 THEN 0 ELSE table[l])
  IN  IF i = 1 THEN get_weight(s, 1) ELSE Max({inclProf, table[i - 1]})

\* The table, filled from the left.
Table(s) == FoldLeftDomain(LAMBDA table, i : Append(table, next_entry(s, table, i)), <<>>, s)

\* The list is never empty: a tree has a rule when its order is resolved.
findMaxWeightIntervalSequence(list) == Last(Table(sort_intervals(list)))

=============================================================================

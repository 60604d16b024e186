------------------------------ MODULE RuleValue ------------------------------
(***************************************************************************)
(* What a search answers: the value of a rule, [priority, id], or INVALID; *)
(* and the loop of PartitionSortClassifer::search over the trees in use,   *)
(* from what the search of each tree gives.                                *)
(***************************************************************************)
EXTENDS Integers, Sequences, SequencesExt

INVALID == <<>>    \* rule_value_t()

\* A rule of the same priority does not replace the one found before.
Better(found, res) ==
  IF res # INVALID /\ (found = INVALID \/ found.priority < res.priority) THEN res ELSE found

\* Fault: the loop also stops where the next tree can be better by one.
visit_one_less(answers, bounds, x, i) ==
  LET now == Better(x.found, answers[i])
  IN  IF x.done THEN x
      ELSE [found |-> now,
            done  |-> now # INVALID /\ (i < Len(answers) => bounds[i + 1] <= now.priority + 1)]

\* One turn of the loop; answers[i] is what tree i gives and bounds[i] its
\* max_priority.  done stands for the break.
visit(answers, bounds, x, i) ==
  LET now == Better(x.found, answers[i])
  IN  IF x.done THEN x
      ELSE [found |-> now,
            done  |-> now # INVALID /\ (i < Len(answers) => bounds[i + 1] <= now.priority)]

search_trees(answers, bounds) ==
  FoldLeftDomain(LAMBDA x, i : visit(answers, bounds, x, i),
                 [found |-> INVALID, done |-> FALSE], answers).found

=============================================================================

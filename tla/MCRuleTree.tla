------------------------------ MODULE MCRuleTree ------------------------------
(* Rule sets for model checking module RuleTree.                           *)
EXTENDS RuleTree

a == [low |-> 0, high |-> 0]
b == [low |-> 1, high |-> 1]
c == [low |-> 2, high |-> 3]
w == Wildcard

\* Nested or disjoint ranges, as prefixes are: rules that share prefixes of
\* every length, continue each other, have a wildcard inside, and are longer
\* than one node.
PrefixRules ==
  { <<a, w, w, w>>, <<a, b, w, w>>, <<a, b, c, a>>, <<a, b, c, b>>, <<a, b, a, w>>,
    <<b, w, c, w>>, <<b, w, c, a>>, <<c, a, a, a>>, <<c, c, w, b>>, <<w, w, w, w>>, <<w, a, b, w>> }

\* Ranges that overlap in part, as port ranges may.
PortRules ==
  LET lo == [low |-> 0, high |-> 1]
      hi == [low |-> 1, high |-> 2]
  IN  { <<lo, w, w, w>>, <<hi, w, w, w>>, <<c, lo, w, w>>, <<c, hi, w, w>> }

=============================================================================

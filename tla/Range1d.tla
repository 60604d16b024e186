------------------------------- MODULE Range1d -------------------------------
(***************************************************************************)
(* The closed integer ranges of src/include/pcv/common/range.h, the keys   *)
(* of every tree.  A range is a record [low, high]; values are 0 .. MAXV,  *)
(* where MAXV stands for std::numeric_limits<T>::max().                    *)
(***************************************************************************)
EXTENDS Integers

CONSTANT MAXV   \* the greatest value of the key type

ASSUME MaxvAssumption == MAXV \in Nat

Values == 0 .. MAXV

Range1d == {r \in [low : Values, high : Values] : r.low <= r.high}

Wildcard == [low |-> 0, high |-> MAXV]

is_wildcard(r) == r.low = 0 /\ r.high = MAXV

in_range(r, v) == v >= r.low /\ v <= r.high

\* operator< : "overlap not checked"
less(r, s) == r.low < s.low

\* Fault: the case that s contains r is forgotten.
overlaps_no_containment(r, s) == r.low <= s.low /\ r.high >= s.low

\* The test the collision check relies on: r.overlaps(s).
overlaps(r, s) ==
  \/ r.low <= s.low /\ r.high >= s.low
  \/ s.low <= r.low /\ s.high >= r.high

\* What two ranges with a common value are; not code, the reference for
\* overlaps.
Intersect(r, s) == \E v \in Values : in_range(r, v) /\ in_range(s, v)

=============================================================================

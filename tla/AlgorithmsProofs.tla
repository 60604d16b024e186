-------------------------- MODULE AlgorithmsProofs --------------------------
(***************************************************************************)
(* The algorithms around the trees, for inputs of every size: what the     *)
(* ranges' overlap test decides, what array_resort does to the array of    *)
(* trees, and why the search may stop before the last tree.                *)
(*                                                                         *)
(* Each theorem about Spec has the same shape: an input that is picked     *)
(* satisfies the precondition the classifier guarantees (ArrayInput,       *)
(* AnswersInput), and on such inputs the algorithm does what it should.    *)
(* Loops are followed by looking at the first turn after which their       *)
(* invariant fails.                                                        *)
(***************************************************************************)
EXTENDS MCAlgorithms, FiniteSetTheorems, SequenceTheorems, WellFoundedInduction, TLAPS

-----------------------------------------------------------------------------
(* Numbers.                                                                *)

\* Every set of numbers that is not empty has a least one.
LEMMA LeastNatural ==
  ASSUME NEW T, T \subseteq Nat, T # {}
  PROVE  \E x \in T : \A y \in T : x <= y
<1>1. PICK x \in T : \A y \in T : ~(<<y, x>> \in OpToRel(<, Nat))
  BY WFMin, NatLessThanWellFounded, Zenon
<1>2. \A y \in T : ~(y < x)
  BY <1>1 DEF OpToRel
<1>3. \A y \in T : x <= y
  BY <1>2
<1> QED  BY <1>3

\* An injection of S into the numbers of its members reaches each of them.
LEMMA NumbersOnto ==
  ASSUME NEW S, IsFiniteSet(S), NEW N \in Nat, Cardinality(S) = N, NEW f \in [S -> 1 .. N],
         \A x, y \in S : f[x] = f[y] => x = y
  PROVE  \A k \in 1 .. N : \E x \in S : f[x] = k
<1> DEFINE R == {f[x] : x \in S}
<1>1. IsFiniteSet(1 .. N) /\ Cardinality(1 .. N) = N
  BY FS_Interval
<1>2. f \in Bijection(S, R)
  <2>1. f \in [S -> R]
    OBVIOUS
  <2>2. f \in Injection(S, R)
    BY <2>1 DEF Injection, IsInjective
  <2>3. f \in Surjection(S, R)
    BY <2>1 DEF Surjection
  <2> QED  BY <2>2, <2>3 DEF Bijection
<1>3. ExistsBijection(S, R)
  BY <1>2 DEF ExistsBijection
<1>4. R \subseteq 1 .. N
  OBVIOUS
<1> HIDE DEF R
<1>5. Cardinality(R) = Cardinality(1 .. N)
  BY <1>1, <1>3, FS_Bijection
<1>6. R = 1 .. N
  BY <1>1, <1>4, <1>5, FS_Subset
<1> QED  BY <1>6 DEF R

\* A permutation of positions reaches each of them.
LEMMA InjectionOnto ==
  ASSUME NEW N \in Nat, NEW f \in [1 .. N -> 1 .. N],
         \A i, j \in 1 .. N : f[i] = f[j] => i = j
  PROVE  {f[i] : i \in 1 .. N} = 1 .. N
<1>1. IsFiniteSet(1 .. N) /\ Cardinality(1 .. N) = N
  BY FS_Interval
<1>2. \A k \in 1 .. N : \E i \in 1 .. N : f[i] = k
  BY <1>1, NumbersOnto
<1> QED  BY <1>2

\* A bounded set of numbers has a greatest one.
LEMMA MaxIn ==
  ASSUME NEW N \in Nat, NEW t \in SUBSET Nat, t # {}, \A x \in t : x <= N
  PROVE  Max(t) \in t /\ \A y \in t : Max(t) >= y
<1> DEFINE T == {k \in Nat : \E x \in t : k = N - x}
<1>1. PICK x \in t : TRUE
  OBVIOUS
<1>2. N - x \in T
  OBVIOUS
<1>3. PICK k \in T : \A y \in T : k <= y
  BY <1>2, LeastNatural
<1>4. PICK z \in t : k = N - z
  OBVIOUS
<1>5. ASSUME NEW y \in t PROVE z >= y
  <2>1. N - y \in T
    OBVIOUS
  <2> HIDE DEF T
  <2>2. k <= N - y
    BY <1>3, <2>1
  <2> QED  BY <1>4, <2>2
<1> HIDE DEF T
<1> QED  BY <1>4, <1>5 DEF Max

\* The greatest of some positions, and the number of the others.
LEMMA WithoutLast ==
  ASSUME NEW N \in Nat, NEW t \in SUBSET (1 .. N), t # {}
  PROVE  /\ Max(t) \in t
         /\ t \ {Max(t)} \in SUBSET (1 .. N)
         /\ Cardinality(t) \in Nat /\ Cardinality(t \ {Max(t)}) \in Nat
         /\ Cardinality(t \ {Max(t)}) = Cardinality(t) - 1
<1>1. t \in SUBSET Nat /\ \A x \in t : x <= N
  OBVIOUS
<1>2. PICK most \in t : most = Max(t)
  BY <1>1, MaxIn
<1>3. IsFiniteSet(t)
  <2>1. IsFiniteSet(1 .. N)
    BY FS_Interval
  <2> QED  BY <2>1, FS_Subset
<1>4. /\ Cardinality(t) \in Nat
      /\ IsFiniteSet(t \ {most}) /\ Cardinality(t \ {most}) = Cardinality(t) - 1
  BY <1>3, FS_RemoveElement, FS_CardinalityType
<1>5. Cardinality(t \ {most}) \in Nat
  BY <1>4, FS_CardinalityType
<1> QED  BY <1>2, <1>4, <1>5

-----------------------------------------------------------------------------
(* Ranges.  The collision check of the trees asks key.overlaps(rule): it is *)
(* exact for ranges that are nested or disjoint, as the ranges of prefixes *)
(* are, and it misses exactly one kind of intersection.                    *)

\* Two ranges have a common value iff each starts before the other ends.
LEMMA IntersectByEnds ==
  ASSUME NEW r \in Range1d, NEW s \in Range1d
  PROVE  Intersect(r, s) <=> r.low <= s.high /\ s.low <= r.high
<1> USE MaxvAssumption DEF Range1d, Values, Intersect, in_range
<1>1. Intersect(r, s) => r.low <= s.high /\ s.low <= r.high
  OBVIOUS
<1>2. ASSUME r.low <= s.high, s.low <= r.high  PROVE Intersect(r, s)
  <2>1. CASE r.low <= s.low
    <3>1. s.low \in Values /\ in_range(r, s.low) /\ in_range(s, s.low)
      BY <1>2, <2>1
    <3> QED  BY <3>1
  <2>2. CASE s.low < r.low
    <3>1. r.low \in Values /\ in_range(r, r.low) /\ in_range(s, r.low)
      BY <1>2, <2>2
    <3> QED  BY <3>1
  <2> QED  BY <2>1, <2>2
<1> QED  BY <1>1, <1>2

\* Range1d::overlaps is true exactly of the ranges that intersect, except when
\* the argument starts before the range and ends inside it.
THEOREM OverlapsCharacterised ==
  ASSUME NEW r \in Range1d, NEW s \in Range1d
  PROVE  overlaps(r, s) <=> Intersect(r, s) /\ ~(s.low < r.low /\ s.high < r.high)
<1>1. Intersect(r, s) <=> r.low <= s.high /\ s.low <= r.high
  BY IntersectByEnds
<1> QED  BY <1>1, MaxvAssumption DEF overlaps, Range1d, Values

\* For ranges that are nested or disjoint (prefixes) Range1d::overlaps is
\* exact, in both directions of the call.
THEOREM OverlapsExactForPrefixes ==
  ASSUME NEW r \in Range1d, NEW s \in Range1d,
         \/ ~Intersect(r, s)
         \/ r.low <= s.low /\ s.high <= r.high
         \/ s.low <= r.low /\ r.high <= s.high
  PROVE  overlaps(r, s) = overlaps(s, r) /\ (overlaps(r, s) <=> Intersect(r, s))
<1>1. Intersect(r, s) <=> r.low <= s.high /\ s.low <= r.high
  BY IntersectByEnds
<1>2. overlaps(r, s) <=> Intersect(r, s)
  BY <1>1, MaxvAssumption DEF overlaps, Range1d, Values
<1>3. overlaps(s, r) <=> Intersect(r, s)
  BY <1>1, MaxvAssumption DEF overlaps, Range1d, Values
<1> QED  BY <1>2, <1>3 DEF overlaps

\* operator< orders ranges that do not intersect, and a value in the greater
\* one is in none of the lower: what search_seq relies on when it stops at the
\* first key whose low end is greater than the value.
THEOREM DisjointRangesAreOrdered ==
  ASSUME NEW r \in Range1d, NEW s \in Range1d, ~Intersect(r, s)
  PROVE  /\ less(r, s) \/ less(s, r)
         /\ less(r, s) => \A v \in Values : v >= s.low => ~in_range(r, v)
<1>1. Intersect(r, s) <=> r.low <= s.high /\ s.low <= r.high
  BY IntersectByEnds
<1> QED  BY <1>1, MaxvAssumption DEF less, in_range, Range1d, Values

-----------------------------------------------------------------------------
(* array_resort: the item finds its place, wherever its new key sends it,  *)
(* and no item is lost.                                                    *)

\* The call of array_resort: the first n of the N items are in descending
\* order of their keys, except for the one at c, whose key has changed.
Call(Items, N, n, c, arr, key) ==
  /\ N \in Nat /\ n \in 1 .. N /\ c \in 1 .. n
  /\ arr \in [1 .. N -> Items]
  /\ key \in [Items -> Int]
  /\ \A i, j \in (1 .. n) \ {c} : i < j => key[arr[i]] >= key[arr[j]]



\* The walk to the left ends, at the first place all items from which on have
\* lower keys.
LEMMA LeftPlace ==
  ASSUME NEW Items, NEW N, NEW n, NEW c, NEW arr, NEW key, Call(Items, N, n, c, arr, key)
  PROVE  LET l == left_place(arr, c, key)
         IN  /\ l \in 1 .. c
             /\ \A j \in l .. c - 1 : key[arr[j]] < key[arr[c]]
             /\ l > 1 => ~(key[arr[l - 1]] < key[arr[c]])
<1> DEFINE T == {i \in 1 .. c : \A j \in i .. c - 1 : key[arr[j]] < key[arr[c]]}
<1>1. c \in Nat \ {0}
  BY DEF Call
<1>2. T \subseteq Nat /\ c \in T
  BY <1>1
<1>3. PICK l \in T : \A y \in T : l <= y
  BY <1>2, LeastNatural
<1>4. l > 1 => ~(key[arr[l - 1]] < key[arr[c]])
  <2>1. SUFFICES ASSUME l > 1, key[arr[l - 1]] < key[arr[c]]  PROVE FALSE
    OBVIOUS
  <2>2. l - 1 \in T
    BY <1>1, <1>3, <2>1
  <2> QED  BY <1>1, <1>3, <2>2
<1>5. \E i \in 1 .. c : /\ \A j \in i .. c - 1 : key[arr[j]] < key[arr[c]]
                        /\ i > 1 => ~(key[arr[i - 1]] < key[arr[c]])
  BY <1>3, <1>4
<1> HIDE DEF T
<1> QED  BY <1>5 DEF left_place

\* The walk to the right ends, at the last place all items up to which have
\* greater keys.
LEMMA RightPlace ==
  ASSUME NEW Items, NEW N, NEW n, NEW c, NEW arr, NEW key, Call(Items, N, n, c, arr, key)
  PROVE  LET r == right_place(arr, n, c, key)
         IN  /\ r \in c .. n
             /\ \A j \in c + 1 .. r : key[arr[j]] > key[arr[c]]
             /\ r < n => ~(key[arr[r + 1]] > key[arr[c]])
<1> DEFINE T == {k \in 0 .. n - c : \A j \in c + 1 .. n - k : key[arr[j]] > key[arr[c]]}
<1>1. c \in Nat \ {0} /\ n \in Nat /\ c <= n
  BY DEF Call
<1>2. T \subseteq Nat /\ n - c \in T
  BY <1>1
<1>3. PICK k \in T : \A y \in T : k <= y
  BY <1>2, LeastNatural
<1>4. n - k \in c .. n /\ \A j \in c + 1 .. n - k : key[arr[j]] > key[arr[c]]
  BY <1>1, <1>3
<1>5. n - k < n => ~(key[arr[n - k + 1]] > key[arr[c]])
  <2>1. SUFFICES ASSUME n - k < n, key[arr[n - k + 1]] > key[arr[c]]  PROVE FALSE
    OBVIOUS
  <2>2. k - 1 \in T
    BY <1>1, <1>3, <2>1
  <2> QED  BY <1>1, <1>3, <2>2
<1>6. \E i \in c .. n : /\ \A j \in c + 1 .. i : key[arr[j]] > key[arr[c]]
                        /\ i < n => ~(key[arr[i + 1]] > key[arr[c]])
  BY <1>4, <1>5
<1> HIDE DEF T
<1> QED  BY <1>6 DEF right_place

\* What array_resort does, in both directions: one shift of the item at c to
\* a place between items of greater or equal and of lower or equal keys.
LEMMA ResortIsShift ==
  ASSUME NEW Items, NEW N, NEW n, NEW c, NEW arr, NEW key, Call(Items, N, n, c, arr, key)
  PROVE  \E to \in 1 .. n :
           /\ array_resort(arr, n, c, key) = shift(arr, c, to)
           /\ \A i \in (1 .. n) \ {c} :
                /\ (i < to \/ (i = to /\ c < to)) => key[arr[i]] >= key[arr[c]]
                /\ (i > to \/ (i = to /\ c > to)) => key[arr[i]] <= key[arr[c]]
<1> DEFINE l == left_place(arr, c, key)
           r == right_place(arr, n, c, key)
           p == key[arr[c]]
<1>1. /\ l \in 1 .. c
      /\ \A j \in l .. c - 1 : key[arr[j]] < p
      /\ l > 1 => ~(key[arr[l - 1]] < p)
  BY LeftPlace
<1>2. /\ r \in c .. n
      /\ \A j \in c + 1 .. r : key[arr[j]] > p
      /\ r < n => ~(key[arr[r + 1]] > p)
  BY RightPlace
<1>3. /\ N \in Nat /\ n \in 1 .. N /\ c \in 1 .. n
      /\ \A i \in 1 .. n : key[arr[i]] \in Int
      /\ \A i, j \in (1 .. n) \ {c} : i < j => key[arr[i]] >= key[arr[j]]
  BY DEF Call
<1>4. array_resort(arr, n, c, key) = IF n = 1 THEN arr
                                     ELSE IF l # c THEN shift(arr, c, l) ELSE shift(arr, c, r)
  BY DEF array_resort
<1> HIDE DEF l, r, p
<1>5. CASE n = 1
  <2>1. shift(arr, c, 1) = arr
    BY <1>3, <1>5 DEF shift, Call
  <2> QED  BY <1>3, <1>4, <1>5, <2>1
<1>6. CASE n # 1 /\ l # c
  <2>1. \A i \in (1 .. n) \ {c} : i < l => key[arr[i]] >= p
    BY <1>1, <1>3, <1>6 DEF p
  <2>2. \A i \in (1 .. n) \ {c} : i >= l => key[arr[i]] <= p
    BY <1>1, <1>3, <1>6 DEF p
  <2> QED  BY <1>1, <1>3, <1>4, <1>6, <2>1, <2>2 DEF p
<1>7. CASE n # 1 /\ l = c
  <2>1. \A i \in (1 .. n) \ {c} : i <= r => key[arr[i]] >= p
    BY <1>1, <1>2, <1>3, <1>7 DEF p
  <2>2. \A i \in (1 .. n) \ {c} : i > r => key[arr[i]] <= p
    BY <1>1, <1>2, <1>3, <1>7 DEF p
  <2> QED  BY <1>2, <1>3, <1>4, <1>7, <2>1, <2>2 DEF p
<1> QED  BY <1>5, <1>6, <1>7

\* array_resort leaves the items in use in descending order of their keys,
\* for every length of the array and whichever way the key changed.
THEOREM ResortSorts ==
  ASSUME NEW Items, NEW N, NEW n, NEW c, NEW arr, NEW key, Call(Items, N, n, c, arr, key)
  PROVE  LET out == array_resort(arr, n, c, key)
         IN  \A i \in 1 .. n - 1 : key[out[i]] >= key[out[i + 1]]
<1>1. PICK to \in 1 .. n :
        /\ array_resort(arr, n, c, key) = shift(arr, c, to)
        /\ \A i \in (1 .. n) \ {c} :
             /\ (i < to \/ (i = to /\ c < to)) => key[arr[i]] >= key[arr[c]]
             /\ (i > to \/ (i = to /\ c > to)) => key[arr[i]] <= key[arr[c]]
  BY ResortIsShift
<1>2. /\ N \in Nat /\ n \in 1 .. N /\ c \in 1 .. n /\ DOMAIN arr = 1 .. N
      /\ \A i \in 1 .. n : key[arr[i]] \in Int
      /\ \A i, j \in (1 .. n) \ {c} : i < j => key[arr[i]] >= key[arr[j]]
  BY DEF Call
<1>3. SUFFICES ASSUME NEW i \in 1 .. n - 1
               PROVE  key[shift(arr, c, to)[i]] >= key[shift(arr, c, to)[i + 1]]
  BY <1>1
<1>4. \A k \in 1 .. n :
        shift(arr, c, to)[k] = IF k = to THEN arr[c]
                               ELSE IF to < k /\ k <= c THEN arr[k - 1]
                               ELSE IF c <= k /\ k < to THEN arr[k + 1]
                               ELSE arr[k]
  BY <1>2 DEF shift
<1> DEFINE From(k) == IF k = to THEN c ELSE IF to < k /\ k <= c THEN k - 1
                      ELSE IF c <= k /\ k < to THEN k + 1 ELSE k
<1>5. shift(arr, c, to)[i] = arr[From(i)] /\ shift(arr, c, to)[i + 1] = arr[From(i + 1)]
  BY <1>2, <1>3, <1>4
<1>6. CASE i = to
  BY <1>1, <1>2, <1>3, <1>5, <1>6
<1>7. CASE i + 1 = to
  BY <1>1, <1>2, <1>3, <1>5, <1>7
<1>8. CASE i # to /\ i + 1 # to
  <2>1. From(i) \in (1 .. n) \ {c} /\ From(i + 1) \in (1 .. n) \ {c} /\ From(i) < From(i + 1)
    BY <1>1, <1>2, <1>3, <1>8
  <2> HIDE DEF From
  <2> QED  BY <1>2, <1>5, <2>1
<1> QED  BY <1>6, <1>7, <1>8

\* Position k of out has what position from[k] of arr held: all of these
\* different, in the old order but for c, and none behind n moved.
IsMove(out, arr, from, N, n, c) ==
  /\ from \in [1 .. N -> 1 .. N]
  /\ out = [k \in 1 .. N |-> arr[from[k]]]
  /\ \A i, j \in 1 .. N : from[i] = from[j] => i = j
  /\ \A i, j \in 1 .. N : i < j /\ from[i] # c /\ from[j] # c => from[i] < from[j]
  /\ \A k \in n + 1 .. N : from[k] = k

\* array_resort loses no item and duplicates none, keeps the order of all
\* items but the one that changed, and leaves the entries behind actual_size
\* alone.
THEOREM ResortPermutes ==
  ASSUME NEW Items, NEW N, NEW n, NEW c, NEW arr, NEW key, Call(Items, N, n, c, arr, key)
  PROVE  \E from : IsMove(array_resort(arr, n, c, key), arr, from, N, n, c)
<1>1. PICK to \in 1 .. n : array_resort(arr, n, c, key) = shift(arr, c, to)
  BY ResortIsShift
<1>2. N \in Nat /\ n \in 1 .. N /\ c \in 1 .. n /\ DOMAIN arr = 1 .. N
  BY DEF Call
<1> DEFINE from == [k \in 1 .. N |-> IF k = to THEN c ELSE IF to < k /\ k <= c THEN k - 1
                                     ELSE IF c <= k /\ k < to THEN k + 1 ELSE k]
<1>3. from \in [1 .. N -> 1 .. N]
  BY <1>1, <1>2
<1>4. shift(arr, c, to) = [k \in 1 .. N |-> arr[from[k]]]
  BY <1>2 DEF shift
<1>5. \A i, j \in 1 .. N : from[i] = from[j] => i = j
  BY <1>1, <1>2
<1>6. \A i, j \in 1 .. N : i < j /\ from[i] # c /\ from[j] # c => from[i] < from[j]
  BY <1>1, <1>2
<1>7. \A k \in n + 1 .. N : from[k] = k
  BY <1>1, <1>2
<1>8. IsMove(shift(arr, c, to), arr, from, N, n, c)
  BY <1>3, <1>4, <1>5, <1>6, <1>7 DEF IsMove
<1> HIDE DEF from
<1> QED  BY <1>1, <1>8

\* An input is one that its action picks.
ArrayInput ==
  in.kind = "array" =>
    /\ in.size \in 1 .. MaxItems /\ in.changed \in 1 .. in.size
    /\ in.key \in [1 .. MaxItems -> 0 .. MaxKey]
    /\ \A i, j \in (1 .. in.size) \ {in.changed} : i < j => in.key[i] >= in.key[j]



\* Every input that is picked is one.
LEMMA ArrayInputKept == Spec => []ArrayInput
<1>1. Init => ArrayInput
  BY DEF Init, ArrayInput
<1>2. ArrayInput /\ [Next]_in => ArrayInput'
  <2> SUFFICES ASSUME ArrayInput, [Next]_in, in'.kind = "array"
               PROVE  /\ in'.size \in 1 .. MaxItems /\ in'.changed \in 1 .. in'.size
                      /\ in'.key \in [1 .. MaxItems -> 0 .. MaxKey]
                      /\ \A i, j \in (1 .. in'.size) \ {in'.changed} :
                            i < j => in'.key[i] >= in'.key[j]
    BY DEF ArrayInput
  <2>1. CASE UNCHANGED in
    BY <2>1 DEF ArrayInput
  <2>2. CASE PickArray
    <3>1. PICK m \in 1 .. MaxItems, keys \in [1 .. MaxItems -> 0 .. MaxKey] :
            \E c \in 1 .. m :
              /\ \A i, j \in (1 .. m) \ {c} : i < j => keys[i] >= keys[j]
              /\ Pick([kind |-> "array", size |-> m, changed |-> c, key |-> keys])
      BY <2>2 DEF PickArray
    <3>2. PICK c \in 1 .. m :
              /\ \A i, j \in (1 .. m) \ {c} : i < j => keys[i] >= keys[j]
              /\ Pick([kind |-> "array", size |-> m, changed |-> c, key |-> keys])
      BY <3>1
    <3>3. in'.size = m /\ in'.changed = c /\ in'.key = keys
      BY <3>2 DEF Pick
    <3> QED  BY <3>2, <3>3
  <2>3. CASE PickIntervals
    BY <2>3 DEF PickIntervals, Pick
  <2>4. CASE PickTree
    BY <2>4 DEF PickTree, Pick
  <2>5. CASE PickRange
    BY <2>5 DEF PickRange, Pick
  <2>6. CASE PickPrefix
    BY <2>6 DEF PickPrefix, Pick
  <2>7. CASE PickRule
    BY <2>7 DEF PickRule, Pick
  <2>8. CASE PickFile
    BY <2>8 DEF PickFile, Pick
  <2>9. CASE PickAnswers
    BY <2>9 DEF PickAnswers, Pick
  <2> QED  BY <2>1, <2>2, <2>3, <2>4, <2>5, <2>6, <2>7, <2>8, <2>9 DEF Next
<1> QED  BY <1>1, <1>2, PTL DEF Spec

\* On every such input array_resort does what it should.
LEMMA ResortOfInput == ArrayInput => ResortRestoresOrder
<1> SUFFICES ASSUME ArrayInput, in.kind = "array",
                    NEW items, items = [i \in 1 .. MaxItems |-> i],
                    NEW out, out = array_resort(items, in.size, in.changed, in.key)
             PROVE  /\ \A i \in 1 .. in.size - 1 : in.key[out[i]] >= in.key[out[i + 1]]
                    /\ {out[i] : i \in 1 .. MaxItems} = 1 .. MaxItems
                    /\ \A i, j \in 1 .. MaxItems :
                         i < j /\ in.changed \notin {out[i], out[j]} => out[i] < out[j]
                    /\ \A i \in in.size + 1 .. MaxItems : out[i] = i
  BY DEF ResortRestoresOrder
<1>1. PICK m, c, key : m = in.size /\ c = in.changed /\ key = in.key
  OBVIOUS
<1>2. MaxItems \in Nat /\ m \in 1 .. MaxItems /\ c \in 1 .. m
  BY <1>1, BoundsAssumption DEF ArrayInput
<1>3. Call(1 .. MaxItems, MaxItems, m, c, items, key)
  <2>1. key \in [1 .. MaxItems -> Int]
    BY <1>1, BoundsAssumption DEF ArrayInput
  <2>2. items \in [1 .. MaxItems -> 1 .. MaxItems] /\ \A i \in 1 .. m : items[i] = i
    BY <1>2
  <2>3. \A i, j \in (1 .. m) \ {c} : i < j => key[i] >= key[j]
    BY <1>1 DEF ArrayInput
  <2> QED  BY <1>2, <2>1, <2>2, <2>3 DEF Call
<1>4. out = array_resort(items, m, c, key)
  BY <1>1
<1>5. \A i \in 1 .. m - 1 : key[out[i]] >= key[out[i + 1]]
  BY <1>3, <1>4, ResortSorts
<1>6. PICK from : IsMove(out, items, from, MaxItems, m, c)
  <2>1. \E from : IsMove(array_resort(items, m, c, key), items, from, MaxItems, m, c)
    BY <1>3, ResortPermutes
  <2> QED  BY <1>4, <2>1
<1>7. /\ from \in [1 .. MaxItems -> 1 .. MaxItems]
      /\ out = [k \in 1 .. MaxItems |-> items[from[k]]]
      /\ \A i, j \in 1 .. MaxItems : from[i] = from[j] => i = j
      /\ \A i, j \in 1 .. MaxItems : i < j /\ from[i] # c /\ from[j] # c => from[i] < from[j]
      /\ \A k \in m + 1 .. MaxItems : from[k] = k
  BY <1>6 DEF IsMove
<1>8. \A i \in 1 .. MaxItems : out[i] = from[i]
  BY <1>7
<1>9. {from[i] : i \in 1 .. MaxItems} = 1 .. MaxItems
  BY <1>2, <1>7, InjectionOnto
<1>10. {out[i] : i \in 1 .. MaxItems} = 1 .. MaxItems
  BY <1>8, <1>9
<1>11. \A i, j \in 1 .. MaxItems : i < j /\ c \notin {out[i], out[j]} => out[i] < out[j]
  BY <1>7, <1>8
<1>12. \A i \in m + 1 .. MaxItems : out[i] = i
  BY <1>2, <1>7, <1>8
<1> QED  BY <1>1, <1>5, <1>10, <1>11, <1>12

\* array_resort puts the tree whose greatest priority changed in its place,
\* for any number of trees, of items behind them and of keys: the trees are in
\* descending order again, none is lost, the others keep their order and the
\* ones not in use their place.
THEOREM ResortCorrect == Spec => []ResortRestoresOrder
BY ArrayInputKept, ResortOfInput, PTL

-----------------------------------------------------------------------------
(* The search over the trees.                                              *)

\* The loop before the first tree.
NothingFound == [found |-> INVALID, done |-> FALSE]

\* The fold over the trees goes through their sets, the last tree last.
VisitLast(answers, bounds, f, t) ==
  LET most == Max(t)
  IN  visit(answers, bounds, f[t \ {most}], [i \in DOMAIN answers |-> i][most])

\* f is the state of the loop for every set of trees.
Visits(f, answers, bounds, P) ==
  f = [t \in SUBSET P |-> IF t = {} THEN NothingFound ELSE VisitLast(answers, bounds, f, t)]

\* search_trees is the solution of the fold's equation, if there is one.
LEMMA SearchChosen ==
  ASSUME NEW answers, NEW bounds, NEW g,
         Visits(g, answers, bounds, DOMAIN [i \in DOMAIN answers |-> i])
  PROVE  \E f : /\ Visits(f, answers, bounds, DOMAIN [i \in DOMAIN answers |-> i])
                /\ search_trees(answers, bounds) = f[DOMAIN [i \in DOMAIN answers |-> i]].found
BY Zenon DEF search_trees, FoldLeftDomain, FoldLeft, MapThenFoldSet, VisitLast, Visits, NothingFound

\* The last step of the fold looks at the result for the others only.
LEMMA VisitLastSame ==
  ASSUME NEW answers, NEW bounds, NEW t, NEW f, NEW g, f[t \ {Max(t)}] = g[t \ {Max(t)}]
  PROVE  VisitLast(answers, bounds, f, t) = VisitLast(answers, bounds, g, t)
BY DEF VisitLast

\* The equation of the fold has a solution: the sets get smaller.
LEMMA VisitsSolvable ==
  ASSUME NEW N \in Nat, NEW answers, NEW bounds
  PROVE  \E f : Visits(f, answers, bounds, 1 .. N)
<1> DEFINE A == SUBSET (1 .. N)
           Upto(h, g) == \A t \in A : Cardinality(t) < h =>
                            g[t] = IF t = {} THEN NothingFound ELSE VisitLast(answers, bounds, g, t)
           Fun(g) == g = [t \in A |-> g[t]]
           Bad == {h \in Nat : \A g : ~(Fun(g) /\ Upto(h, g))}
<1>1. ASSUME NEW t \in A, t # {}
      PROVE  /\ t \ {Max(t)} \in A
             /\ Cardinality(t) \in Nat /\ Cardinality(t \ {Max(t)}) \in Nat
             /\ Cardinality(t \ {Max(t)}) = Cardinality(t) - 1
  BY <1>1, WithoutLast
<1>2. ASSUME NEW t \in A PROVE Cardinality(t) \in Nat /\ Cardinality(t) <= N
  <2>1. IsFiniteSet(1 .. N) /\ Cardinality(1 .. N) = N
    BY FS_Interval
  <2> QED  BY <2>1, FS_Subset, FS_CardinalityType
<1>3. Bad = {}
  <2> SUFFICES ASSUME Bad # {} PROVE FALSE
    OBVIOUS
  <2>1. PICK h \in Bad : \A i \in Bad : h <= i
    BY LeastNatural
  <2>2. h \in Nat /\ \A g : ~(Fun(g) /\ Upto(h, g))
    OBVIOUS
  <2>3. CASE h = 0
    <3> DEFINE g == [t \in A |-> NothingFound]
    <3>1. Fun(g)
      OBVIOUS
    <3>2. Upto(h, g)
      <4> HIDE DEF g
      <4> QED  BY <1>2, <2>3
    <3> QED  BY <2>2, <3>1, <3>2
  <2>4. CASE h # 0
    <3>1. h - 1 \in Nat /\ h - 1 \notin Bad
      <4> HIDE DEF Bad
      <4> QED  BY <2>1, <2>2, <2>4
    <3>2. PICK g : Fun(g) /\ Upto(h - 1, g)
      BY <3>1
    <3> DEFINE f == [t \in A |-> IF Cardinality(t) = h - 1
                                 THEN IF t = {} THEN NothingFound
                                      ELSE VisitLast(answers, bounds, g, t)
                                 ELSE g[t]]
    <3>3. Fun(f)
      OBVIOUS
    <3>4. Upto(h, f)
      <4> SUFFICES ASSUME NEW t \in A, Cardinality(t) < h
                   PROVE  f[t] = IF t = {} THEN NothingFound ELSE VisitLast(answers, bounds, f, t)
        OBVIOUS
      <4>1. Cardinality(t) \in Nat
        BY <1>2
      <4>2. ASSUME t # {} PROVE VisitLast(answers, bounds, f, t) = VisitLast(answers, bounds, g, t)
        <5>1. PICK u \in A : u = t \ {Max(t)}
          BY <1>1, <4>2
        <5>2. Cardinality(u) \in Nat /\ Cardinality(u) # h - 1
          BY <1>1, <2>2, <4>1, <4>2, <5>1
        <5>3. f[u] = g[u]
          BY <5>2
        <5> HIDE DEF f
        <5> QED  BY <5>1, <5>3, VisitLastSame
      <4>3. CASE Cardinality(t) = h - 1
        BY <4>2, <4>3
      <4>4. CASE Cardinality(t) # h - 1
        <5>1. Cardinality(t) < h - 1
          BY <2>2, <4>1, <4>4
        <5>2. f[t] = g[t]
          BY <4>4
        <5>3. g[t] = IF t = {} THEN NothingFound ELSE VisitLast(answers, bounds, g, t)
          BY <3>2, <5>1
        <5> HIDE DEF f
        <5> QED  BY <4>2, <5>2, <5>3
      <4> QED  BY <4>3, <4>4
    <3> HIDE DEF f
    <3> QED  BY <2>2, <3>3, <3>4
  <2> QED  BY <2>3, <2>4
<1>4. N + 1 \in Nat /\ N + 1 \notin Bad
  <2> HIDE DEF Bad
  <2> QED  BY <1>3
<1>5. PICK g : Fun(g) /\ Upto(N + 1, g)
  BY <1>4
<1>6. \A t \in A : g[t] = IF t = {} THEN NothingFound ELSE VisitLast(answers, bounds, g, t)
  <2>1. \A a, b \in Nat : a <= b => a < b + 1
    OBVIOUS
  <2>2. \A t \in A : Cardinality(t) < N + 1
    <3> HIDE DEF A
    <3> QED  BY <1>2, <2>1
  <2> QED  BY <1>5, <2>2
<1>7. g = [t \in A |-> IF t = {} THEN NothingFound ELSE VisitLast(answers, bounds, g, t)]
  <2> DEFINE F == [t \in A |-> IF t = {} THEN NothingFound ELSE VisitLast(answers, bounds, g, t)]
  <2>1. g = [t \in A |-> g[t]] /\ F = [t \in A |-> F[t]] /\ \A t \in A : F[t] = g[t]
    BY <1>5, <1>6
  <2> HIDE DEF F
  <2>2. g = F
    BY <2>1
  <2> QED  BY <2>2 DEF F
<1> QED  BY <1>7 DEF Visits

\* h[i] is the state of the loop after i trees.
Turns(h, answers, bounds, N) ==
  /\ h[0] = NothingFound
  /\ \A i \in 1 .. N : h[i] = visit(answers, bounds, h[i - 1], i)

\* The trees are visited one after the other.
LEMMA SearchTurns ==
  ASSUME NEW N \in Nat, NEW answers, NEW bounds, DOMAIN answers = 1 .. N
  PROVE  \E h : Turns(h, answers, bounds, N) /\ search_trees(answers, bounds) = h[N].found
<1>1. 1 .. N = DOMAIN [i \in DOMAIN answers |-> i]
  OBVIOUS
<1>2. PICK f : Visits(f, answers, bounds, 1 .. N) /\ search_trees(answers, bounds) = f[1 .. N].found
  <2>1. PICK P : P = DOMAIN [i \in DOMAIN answers |-> i]
    OBVIOUS
  <2>2. PICK g : Visits(g, answers, bounds, P)
    BY <1>1, <2>1, VisitsSolvable
  <2>3. \E f : Visits(f, answers, bounds, P) /\ search_trees(answers, bounds) = f[P].found
    BY <2>1, <2>2, SearchChosen, Zenon
  <2> QED  BY <1>1, <2>1, <2>3
<1> DEFINE h == [i \in 0 .. N |-> f[1 .. i]]
<1>3. \A t \in SUBSET (1 .. N) :
         f[t] = IF t = {} THEN NothingFound ELSE VisitLast(answers, bounds, f, t)
  BY <1>2 DEF Visits
<1>4. h[0] = NothingFound
  <2>1. 1 .. 0 = {}
    OBVIOUS
  <2> QED  BY <1>3, <2>1
<1>5. ASSUME NEW i \in 1 .. N
      PROVE  h[i] = visit(answers, bounds, h[i - 1], i)
  <2>1. PICK t \in SUBSET (1 .. N) : t = 1 .. i
    OBVIOUS
  <2>2. i \in t /\ t # {} /\ \A y \in t : y \in Nat /\ y <= i
    BY <2>1
  <2>3. Max(t) = i
    <3>1. i \in Nat /\ t \in SUBSET Nat
      BY <2>2
    <3>2. PICK most \in t : most = Max(t) /\ most >= i
      BY <2>2, <3>1, MaxIn
    <3> QED  BY <2>2, <3>2
  <2>4. t \ {i} = 1 .. (i - 1)
    BY <2>1
  <2>5. f[t] = VisitLast(answers, bounds, f, t)
    BY <1>3, <2>2
  <2>6. [j \in DOMAIN answers |-> j][i] = i
    OBVIOUS
  <2>7. VisitLast(answers, bounds, f, t) = visit(answers, bounds, f[1 .. (i - 1)], i)
    BY <2>3, <2>4, <2>6 DEF VisitLast
  <2>8. h[i] = f[t] /\ h[i - 1] = f[1 .. (i - 1)]
    BY <2>1
  <2> QED  BY <2>5, <2>7, <2>8
<1>6. h[N] = f[1 .. N]
  OBVIOUS
<1> HIDE DEF h
<1> QED  BY <1>2, <1>4, <1>5, <1>6 DEF Turns

\* What the trees answer and the priorities they answer within.
AreAnswers(answers, bounds, N) ==
  /\ DOMAIN answers = 1 .. N /\ Len(answers) = N
  /\ \A i \in 1 .. N : bounds[i] \in Nat
  /\ \A i, j \in 1 .. N : i < j => bounds[i] >= bounds[j]
  /\ \A i \in 1 .. N : answers[i] # INVALID =>
                         answers[i].priority \in Nat /\ answers[i].priority <= bounds[i]

\* found is the best answer of the first i trees, none if they have none.
BestOf(found, answers, i) ==
  IF found = INVALID THEN \A j \in 1 .. i : answers[j] = INVALID
  ELSE /\ \E k \in 1 .. i : answers[k] = found
       /\ \A j \in 1 .. i : answers[j] # INVALID => answers[j].priority <= found.priority

\* The next tree's answer is taken where it is better.
LEMMA BetterIsBest ==
  ASSUME NEW N \in Nat, NEW answers, NEW bounds, AreAnswers(answers, bounds, N),
         NEW i \in 1 .. N, NEW found, BestOf(found, answers, i - 1)
  PROVE  BestOf(Better(found, answers[i]), answers, i)
<1>1. PICK res : res = answers[i]
  OBVIOUS
<1>2. \A j \in 1 .. N : answers[j] # INVALID => answers[j].priority \in Nat
  BY DEF AreAnswers
<1>3. \A j \in 1 .. i : j = i \/ j \in 1 .. (i - 1)
  OBVIOUS
<1>4. \A j \in 1 .. (i - 1) : j \in 1 .. i /\ j \in 1 .. N
  OBVIOUS
<1>5. i \in 1 .. i
  OBVIOUS
<1>6. CASE found = INVALID
  <2>1. \A j \in 1 .. (i - 1) : answers[j] = INVALID
    BY <1>6 DEF BestOf
  <2>2. Better(found, res) = res
    BY <1>6 DEF Better
  <2>3. CASE res = INVALID
    BY <1>1, <1>3, <2>1, <2>2, <2>3 DEF BestOf
  <2>4. CASE res # INVALID
    <3>1. \A j \in 1 .. i : answers[j] # INVALID => answers[j].priority <= res.priority
      BY <1>1, <1>2, <1>3, <2>1, <2>4
    <3> QED  BY <1>1, <1>5, <2>2, <2>4, <3>1 DEF BestOf
  <2> QED  BY <1>1, <2>3, <2>4
<1>7. CASE found # INVALID
  <2>1. PICK k \in 1 .. (i - 1) : answers[k] = found
    BY <1>7 DEF BestOf
  <2>2. \A j \in 1 .. (i - 1) : answers[j] # INVALID => answers[j].priority <= found.priority
    BY <1>7 DEF BestOf
  <2>3. found.priority \in Nat
    BY <1>2, <1>4, <1>7, <2>1
  <2>4. CASE res # INVALID /\ found.priority < res.priority
    <3>1. Better(found, res) = res
      BY <2>4 DEF Better
    <3>2. res.priority \in Nat
      BY <1>1, <1>2, <2>4
    <3>3. ASSUME NEW j \in 1 .. i, answers[j] # INVALID PROVE answers[j].priority <= res.priority
      <4>1. answers[j].priority \in Nat
        BY <1>2, <3>3
      <4>2. CASE j = i
        BY <1>1, <4>1, <4>2
      <4>3. CASE j \in 1 .. (i - 1)
        <5>1. answers[j].priority <= found.priority
          BY <2>2, <3>3, <4>3
        <5> QED  BY <2>3, <2>4, <3>2, <4>1, <5>1
      <4> QED  BY <1>3, <4>2, <4>3
    <3> QED  BY <1>1, <1>5, <2>4, <3>1, <3>3 DEF BestOf
  <2>5. CASE ~(res # INVALID /\ found.priority < res.priority)
    <3>1. Better(found, res) = found
      BY <1>7, <2>5 DEF Better
    <3>2. ASSUME NEW j \in 1 .. i, answers[j] # INVALID PROVE answers[j].priority <= found.priority
      <4>1. answers[j].priority \in Nat
        BY <1>2, <3>2
      <4>2. CASE j = i
        BY <1>1, <2>3, <2>5, <3>2, <4>1, <4>2
      <4>3. CASE j \in 1 .. (i - 1)
        BY <2>2, <3>2, <4>3
      <4> QED  BY <1>3, <4>2, <4>3
    <3> QED  BY <1>1, <1>4, <1>7, <2>1, <3>1, <3>2 DEF BestOf
  <2> QED  BY <1>1, <2>4, <2>5
<1> QED  BY <1>6, <1>7

\* Trees behind the place where the loop stops have nothing better.
LEMMA StopIsBest ==
  ASSUME NEW N \in Nat, NEW answers, NEW bounds, AreAnswers(answers, bounds, N),
         NEW i \in 1 .. N, NEW found, BestOf(found, answers, i), found # INVALID,
         i < N => bounds[i + 1] <= found.priority
  PROVE  BestOf(found, answers, N)
<1>1. /\ \A j \in 1 .. N : bounds[j] \in Nat
      /\ \A j, l \in 1 .. N : j < l => bounds[j] >= bounds[l]
      /\ \A j \in 1 .. N : answers[j] # INVALID =>
                             answers[j].priority \in Nat /\ answers[j].priority <= bounds[j]
  BY DEF AreAnswers
<1>2. PICK k \in 1 .. i : answers[k] = found
  BY DEF BestOf
<1>3. k \in 1 .. N /\ found.priority \in Nat
  BY <1>1, <1>2
<1>4. ASSUME NEW j \in 1 .. N, answers[j] # INVALID PROVE answers[j].priority <= found.priority
  <2>1. CASE j \in 1 .. i
    BY <1>4, <2>1 DEF BestOf
  <2>2. CASE j > i
    <3>1. i < N /\ i + 1 \in 1 .. N /\ (j = i + 1 \/ i + 1 < j)
      BY <2>2
    <3>2. bounds[i + 1] <= found.priority
      BY <3>1
    <3>3. bounds[j] <= bounds[i + 1] /\ bounds[j] \in Nat /\ bounds[i + 1] \in Nat
      BY <1>1, <3>1
    <3>4. answers[j].priority \in Nat /\ answers[j].priority <= bounds[j]
      BY <1>1, <1>4
    <3> QED  BY <1>3, <3>2, <3>3, <3>4
  <2> QED  BY <2>1, <2>2
<1> QED  BY <1>2, <1>3, <1>4 DEF BestOf

\* After i turns the loop has the best answer of the first i trees; once it
\* has stopped, of all trees.
TurnRight(x, answers, i, N) ==
  /\ x.done \in BOOLEAN
  /\ BestOf(x.found, answers, IF x.done THEN N ELSE i)

\* search_trees gives the best answer of all trees.
LEMMA SearchIsBest ==
  ASSUME NEW N \in Nat, NEW answers, NEW bounds, AreAnswers(answers, bounds, N)
  PROVE  BestOf(search_trees(answers, bounds), answers, N)
<1>0. DOMAIN answers = 1 .. N /\ Len(answers) = N
  BY DEF AreAnswers
<1>1. PICK h : Turns(h, answers, bounds, N) /\ search_trees(answers, bounds) = h[N].found
  BY <1>0, SearchTurns
<1> DEFINE Bad == {i \in Nat : i <= N /\ ~TurnRight(h[i], answers, i, N)}
<1>2. ASSUME Bad # {} PROVE FALSE
  <2>1. PICK i \in Bad : \A j \in Bad : i <= j
    BY <1>2, LeastNatural
  <2>2. i \in Nat /\ i <= N /\ ~TurnRight(h[i], answers, i, N)
    OBVIOUS
  <2>3. CASE i = 0
    <3>1. h[i] = NothingFound
      BY <1>1, <2>3 DEF Turns
    <3>2. \A j \in 1 .. 0 : answers[j] = INVALID
      OBVIOUS
    <3>3. h[i].done = FALSE /\ h[i].found = INVALID
      BY <3>1 DEF NothingFound
    <3>4. BestOf(INVALID, answers, 0)
      BY <3>2 DEF BestOf
    <3> QED  BY <2>2, <2>3, <3>3, <3>4 DEF TurnRight
  <2>4. CASE i # 0
    <3>1. i - 1 \in Nat /\ i - 1 <= N /\ i - 1 \notin Bad /\ i \in 1 .. N
      <4> HIDE DEF Bad
      <4> QED  BY <2>1, <2>2, <2>4
    <3>2. PICK x : x = h[i - 1]
      OBVIOUS
    <3>3. TurnRight(x, answers, i - 1, N)
      BY <3>1, <3>2
    <3>4. h[i] = visit(answers, bounds, x, i)
      BY <1>1, <3>1, <3>2 DEF Turns
    <3>5. CASE x.done
      <4>1. h[i] = x
        BY <3>4, <3>5 DEF visit
      <4> QED  BY <2>2, <3>3, <3>5, <4>1 DEF TurnRight
    <3>6. CASE ~x.done
      <4>1. BestOf(x.found, answers, i - 1)
        BY <3>3, <3>6 DEF TurnRight
      <4>2. PICK now : now = Better(x.found, answers[i])
        OBVIOUS
      <4>3. BestOf(now, answers, i)
        BY <3>1, <4>1, <4>2, BetterIsBest
      <4>4. PICK stop : stop = (now # INVALID /\ (i < N => bounds[i + 1] <= now.priority))
        OBVIOUS
      <4>5. h[i].found = now /\ h[i].done = stop /\ stop \in BOOLEAN
        BY <1>0, <3>4, <3>6, <4>2, <4>4 DEF visit
      <4>6. CASE stop
        <5>1. BestOf(now, answers, N)
          BY <3>1, <4>3, <4>4, <4>6, StopIsBest
        <5> QED  BY <2>2, <4>5, <4>6, <5>1 DEF TurnRight
      <4>7. CASE ~stop
        BY <2>2, <4>3, <4>5, <4>7 DEF TurnRight
      <4> QED  BY <4>6, <4>7
    <3> QED  BY <3>5, <3>6
  <2> QED  BY <2>3, <2>4
<1>3. TurnRight(h[N], answers, N, N)
  BY <1>2
<1> QED  BY <1>1, <1>3 DEF TurnRight

\* An input of the search: bounds in descending order, answers within them.
AnswersInput == in.kind = "search" => \E N \in Nat : AreAnswers(in.answers, in.bounds, N)

\* Every input picked is one.
LEMMA AnswersInputKept == Spec => []AnswersInput
<1>1. Init => AnswersInput
  BY DEF Init, AnswersInput
<1>2. AnswersInput /\ [Next]_in => AnswersInput'
  <2> SUFFICES ASSUME AnswersInput, [Next]_in, in'.kind = "search"
               PROVE  \E N \in Nat : AreAnswers(in'.answers, in'.bounds, N)
    BY DEF AnswersInput
  <2>1. CASE UNCHANGED in
    BY <2>1 DEF AnswersInput
  <2>2. CASE PickArray
    BY <2>2 DEF PickArray, Pick
  <2>3. CASE PickIntervals
    BY <2>3 DEF PickIntervals, Pick
  <2>4. CASE PickTree
    BY <2>4 DEF PickTree, Pick
  <2>5. CASE PickRange
    BY <2>5 DEF PickRange, Pick
  <2>6. CASE PickPrefix
    BY <2>6 DEF PickPrefix, Pick
  <2>7. CASE PickRule
    BY <2>7 DEF PickRule, Pick
  <2>8. CASE PickFile
    BY <2>8 DEF PickFile, Pick
  <2>9. CASE PickAnswers
    <3>1. PICK values : values = {INVALID} \cup [priority : 0 .. MaxPriority, id : 1 .. MaxTrees]
      OBVIOUS
    <3>2. PICK bounds \in Seqs(0 .. MaxPriority, 0, MaxTrees) :
            \E answers \in [DOMAIN bounds -> values] :
              /\ \A i, j \in DOMAIN bounds : i < j => bounds[i] >= bounds[j]
              /\ \A i \in DOMAIN bounds : answers[i] # INVALID => answers[i].priority <= bounds[i]
              /\ Pick([kind |-> "search", answers |-> answers, bounds |-> bounds])
      BY <2>9, <3>1 DEF PickAnswers
    <3>3. PICK answers \in [DOMAIN bounds -> values] :
              /\ \A i, j \in DOMAIN bounds : i < j => bounds[i] >= bounds[j]
              /\ \A i \in DOMAIN bounds : answers[i] # INVALID => answers[i].priority <= bounds[i]
              /\ Pick([kind |-> "search", answers |-> answers, bounds |-> bounds])
      BY <3>2
    <3>4. in'.answers = answers /\ in'.bounds = bounds
      BY <3>3 DEF Pick
    <3>5. PICK N \in 0 .. MaxTrees : bounds \in [1 .. N -> 0 .. MaxPriority]
      BY DEF Seqs
    <3>6. N \in Nat /\ DOMAIN bounds = 1 .. N /\ \A i \in 1 .. N : bounds[i] \in Nat
      BY <3>5, BoundsAssumption
    <3>7. answers \in [1 .. N -> values] /\ DOMAIN answers = 1 .. N
      BY <3>6
    <3>8. Len(answers) = N
      <4>1. Seq(values) = UNION {[1 .. m -> values] : m \in Nat}
        BY SeqDef
      <4>2. answers \in Seq(values)
        BY <3>6, <3>7, <4>1
      <4>3. DOMAIN answers = 1 .. Len(answers) /\ Len(answers) \in Nat
        BY <4>2
      <4> QED  BY <3>6, <3>7, <4>3
    <3>9. \A i \in 1 .. N : answers[i] # INVALID => answers[i].priority \in Nat
      BY <3>1, <3>7
    <3>10. AreAnswers(answers, bounds, N)
      BY <3>3, <3>6, <3>7, <3>8, <3>9 DEF AreAnswers
    <3> QED  BY <3>4, <3>6, <3>10
  <2> QED  BY <2>1, <2>2, <2>3, <2>4, <2>5, <2>6, <2>7, <2>8, <2>9 DEF Next
<1> QED  BY <1>1, <1>2, PTL DEF Spec

\* On every such input the search is right.
LEMMA SearchOfInput == AnswersInput => EarlyStopExact
<1> SUFFICES ASSUME AnswersInput, in.kind = "search" PROVE EarlyStopExact
  BY DEF EarlyStopExact
<1>1. PICK answers, bounds : answers = in.answers /\ bounds = in.bounds
  OBVIOUS
<1>2. PICK N \in Nat : AreAnswers(answers, bounds, N)
  BY <1>1 DEF AnswersInput
<1>3. PICK res : res = search_trees(answers, bounds)
  OBVIOUS
<1>4. BestOf(res, answers, N) /\ DOMAIN answers = 1 .. N
  BY <1>2, <1>3, SearchIsBest DEF AreAnswers
<1>5. PICK hits : hits = {i \in DOMAIN answers : answers[i] # INVALID}
  OBVIOUS
<1>6. hits = {} => res = INVALID
  BY <1>4, <1>5 DEF BestOf
<1>7. hits # {} => \E i \in hits : /\ res = answers[i]
                                   /\ \A j \in hits : answers[j].priority <= res.priority
  BY <1>4, <1>5 DEF BestOf
<1> QED  BY <1>1, <1>3, <1>5, <1>6, <1>7 DEF EarlyStopExact

\* PartitionSortClassifer::search over any number of trees with any
\* priorities: as long as the trees are in descending order of their
\* max_priority and no tree holds a rule above its own, the break of the loop
\* never hides a better rule.
THEOREM SearchCorrect == Spec => []EarlyStopExact
BY AnswersInputKept, SearchOfInput, PTL

=============================================================================

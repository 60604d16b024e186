------------------------ MODULE DimensionOrderProofs ------------------------
(***************************************************************************)
(* The order of the dimensions, for any number of dimensions, rules and    *)
(* ranges: the score of a dimension by weighted interval scheduling, and   *)
(* the resolver that sorts the dimensions by it.                           *)
(*                                                                         *)
(* The table of the scheduler is shown to be filled entry by entry (the    *)
(* fold's equation has a solution, and the first wrong entry has none      *)
(* before it).  That an entry bounds every choice of ranges from below     *)
(* the position is then an argument on its last range: the others end      *)
(* before it and are counted by its latestNonConflict entry.  The sorts    *)
(* are Arrange on a linear order; resolving again gives the same pairs.    *)
(***************************************************************************)
EXTENDS AlgorithmsProofs

-----------------------------------------------------------------------------
(* Sorting.                                                                *)

\* before puts the members of S one after the other.
LinearOrder(before, S) ==
  /\ \A x \in S : <<x, x>> \notin before
  /\ \A x, y \in S : <<x, y>> \in before \/ <<y, x>> \in before \/ x = y
  /\ \A x, y, z \in S : <<x, y>> \in before /\ <<y, z>> \in before => <<x, z>> \in before

\* a lists the N members of S in that order.
Arranged(a, S, before, N) ==
  /\ a \in [1 .. N -> S]
  /\ \A x \in S : \E k \in 1 .. N : a[k] = x
  /\ \A k, l \in 1 .. N : k < l => <<a[k], a[l]>> \in before
  /\ \A k, l \in 1 .. N : a[k] = a[l] => k = l



\* Arrange does so: the number of members before one is its place.
LEMMA ArrangeIs ==
  ASSUME NEW S, IsFiniteSet(S), NEW before, LinearOrder(before, S), NEW N, N = Cardinality(S)
  PROVE  Arranged(Arrange(S, before), S, before, N)
<1> DEFINE Ahead(x) == {y \in S : <<y, x>> \in before}
           place == [x \in S |-> 1 + Cardinality(Ahead(x))]
           a == Arrange(S, before)
<1>1. N \in Nat
  BY FS_CardinalityType
<1>2. ASSUME NEW x \in S
      PROVE  IsFiniteSet(Ahead(x)) /\ Cardinality(Ahead(x)) \in Nat /\ Cardinality(Ahead(x)) < N
  <2>1. Ahead(x) \subseteq S /\ x \notin Ahead(x)
    BY DEF LinearOrder
  <2> HIDE DEF Ahead
  <2>2. IsFiniteSet(Ahead(x)) /\ Cardinality(Ahead(x)) <= N
    BY <2>1, FS_Subset
  <2>3. Cardinality(Ahead(x)) # N
    BY <2>1, FS_Subset
  <2> QED  BY <1>1, <2>2, <2>3, FS_CardinalityType
<1>3. place \in [S -> 1 .. N]
  <2>1. ASSUME NEW x \in S PROVE 1 + Cardinality(Ahead(x)) \in 1 .. N
    <3> HIDE DEF Ahead
    <3> QED  BY <1>1, <1>2
  <2> QED  BY <2>1
<1>4. ASSUME NEW x \in S, NEW y \in S, <<x, y>> \in before
      PROVE  place[x] < place[y]
  <2>1. Ahead(x) \subseteq Ahead(y) /\ x \in Ahead(y) /\ x \notin Ahead(x)
    BY <1>4 DEF LinearOrder
  <2>2. IsFiniteSet(Ahead(y)) /\ Cardinality(Ahead(y)) \in Nat /\ Cardinality(Ahead(x)) \in Nat
    BY <1>2
  <2>3. place[x] = 1 + Cardinality(Ahead(x)) /\ place[y] = 1 + Cardinality(Ahead(y))
    OBVIOUS
  <2> HIDE DEF Ahead, place
  <2>4. /\ Cardinality(Ahead(x)) <= Cardinality(Ahead(y))
        /\ Cardinality(Ahead(x)) # Cardinality(Ahead(y))
    BY <2>1, <2>2, FS_Subset
  <2> QED  BY <2>2, <2>3, <2>4
<1>5. \A x \in S : place[x] = 1 + Cardinality(Ahead(x)) /\ Cardinality(Ahead(x)) \in Nat
  BY <1>2
<1> HIDE DEF place
<1>6. ASSUME NEW x \in S, NEW y \in S, place[x] = place[y] PROVE x = y
  <2>1. place[x] \in Nat /\ place[y] \in Nat
    BY <1>3
  <2>2. ~(place[x] < place[y]) /\ ~(place[y] < place[x])
    BY <1>6, <2>1
  <2> QED  BY <1>4, <2>2 DEF LinearOrder
<1>7. \A k \in 1 .. N : \E x \in S : place[x] = k
  BY <1>1, <1>3, <1>6, NumbersOnto
<1>8. a = [k \in 1 .. N |-> CHOOSE x \in S : Cardinality(Ahead(x)) = k - 1]
  BY DEF Arrange
<1> HIDE DEF a
<1>9. ASSUME NEW k \in 1 .. N PROVE a[k] \in S /\ place[a[k]] = k
  <2>1. \E x \in S : Cardinality(Ahead(x)) = k - 1
    <3> HIDE DEF Ahead
    <3> QED  BY <1>1, <1>5, <1>7
  <2>2. a[k] \in S /\ Cardinality(Ahead(a[k])) = k - 1
    BY <1>8, <2>1
  <2> HIDE DEF Ahead
  <2> QED  BY <1>1, <1>5, <2>2
<1>10. a \in [1 .. N -> S]
  BY <1>8, <1>9
<1>11. ASSUME NEW x \in S PROVE \E k \in 1 .. N : a[k] = x
  <2>1. place[x] \in 1 .. N
    BY <1>3
  <2>2. a[place[x]] = x
    BY <1>6, <1>9, <2>1
  <2> QED  BY <2>1, <2>2
<1>12. \A k, l \in 1 .. N : a[k] = a[l] => k = l
  BY <1>9
<1>13. ASSUME NEW k \in 1 .. N, NEW l \in 1 .. N, k < l PROVE <<a[k], a[l]>> \in before
  <2>1. a[k] \in S /\ a[l] \in S /\ place[a[k]] = k /\ place[a[l]] = l
    BY <1>9
  <2>2. ~(place[a[l]] < place[a[k]]) /\ a[k] # a[l]
    BY <1>1, <1>13, <2>1
  <2>3. <<a[l], a[k]>> \notin before
    BY <1>4, <2>1, <2>2
  <2> QED  BY <2>1, <2>2, <2>3 DEF LinearOrder
<1>14. Arranged(a, S, before, N)
  BY <1>10, <1>11, <1>12, <1>13 DEF Arranged
<1> QED  BY <1>14 DEF a

-----------------------------------------------------------------------------
(* The table of the scheduler.                                             *)

\* The fold over the positions of s goes through their sets, the greatest
\* position last.
AddLast(s, f, t) ==
  LET most == Max(t)
  IN  Append(f[t \ {most}], next_entry(s, f[t \ {most}], [i \in DOMAIN s |-> i][most]))

\* f is what the fold computes for every set of positions.
Folds(f, s, P) == f = [t \in SUBSET P |-> IF t = {} THEN <<>> ELSE AddLast(s, f, t)]

\* Table is the solution of the fold's equation, if there is one.
LEMMA TableChosen ==
  ASSUME NEW s, NEW g, Folds(g, s, DOMAIN [i \in DOMAIN s |-> i])
  PROVE  \E f : /\ Folds(f, s, DOMAIN [i \in DOMAIN s |-> i])
                /\ Table(s) = f[DOMAIN [i \in DOMAIN s |-> i]]
BY Zenon DEF Table, FoldLeftDomain, FoldLeft, MapThenFoldSet, AddLast, Folds

\* The last step of the fold looks at the result for the others only.
LEMMA AddLastSame ==
  ASSUME NEW s, NEW t, NEW f, NEW g, f[t \ {Max(t)}] = g[t \ {Max(t)}]
  PROVE  AddLast(s, f, t) = AddLast(s, g, t)
BY DEF AddLast

\* The equation of the fold has a solution: the sets get smaller.
LEMMA TableSolvable ==
  ASSUME NEW N \in Nat, NEW s
  PROVE  \E f : Folds(f, s, 1 .. N)
<1> DEFINE A == SUBSET (1 .. N)
           Upto(h, g) == \A t \in A : Cardinality(t) < h =>
                            g[t] = IF t = {} THEN <<>> ELSE AddLast(s, g, t)
           Fun(g) == g = [t \in A |-> g[t]]
           Bad == {h \in Nat : \A g : ~(Fun(g) /\ Upto(h, g))}
<1>1. ASSUME NEW t \in A, t # {}
      PROVE  /\ t \ {Max(t)} \in A
             /\ Cardinality(t) \in Nat /\ Cardinality(t \ {Max(t)}) \in Nat
             /\ Cardinality(t \ {Max(t)}) = Cardinality(t) - 1
  BY <1>1, WithoutLast
<1>2. ASSUME NEW t \in A PROVE Cardinality(t) \in Nat /\ Cardinality(t) <= N
  <2>1. IsFiniteSet(1 .. N) /\ Cardinality(1 .. N) = N
    BY FS_Interval
  <2> QED  BY <2>1, FS_Subset, FS_CardinalityType
<1>3. Bad = {}
  <2> SUFFICES ASSUME Bad # {} PROVE FALSE
    OBVIOUS
  <2>1. PICK h \in Bad : \A i \in Bad : h <= i
    BY LeastNatural
  <2>2. h \in Nat /\ \A g : ~(Fun(g) /\ Upto(h, g))
    OBVIOUS
  <2>3. CASE h = 0
    <3> DEFINE g == [t \in A |-> <<>>]
    <3>1. Fun(g)
      OBVIOUS
    <3>2. Upto(h, g)
      <4> HIDE DEF g
      <4> QED  BY <1>2, <2>3
    <3> QED  BY <2>2, <3>1, <3>2
  <2>4. CASE h # 0
    <3>1. h - 1 \in Nat /\ h - 1 \notin Bad
      <4> HIDE DEF Bad
      <4> QED  BY <2>1, <2>2, <2>4
    <3>2. PICK g : Fun(g) /\ Upto(h - 1, g)
      BY <3>1
    <3> DEFINE f == [t \in A |-> IF Cardinality(t) = h - 1
                                 THEN IF t = {} THEN <<>> ELSE AddLast(s, g, t) ELSE g[t]]
    <3>3. Fun(f)
      OBVIOUS
    <3>4. Upto(h, f)
      <4> SUFFICES ASSUME NEW t \in A, Cardinality(t) < h
                   PROVE  f[t] = IF t = {} THEN <<>> ELSE AddLast(s, f, t)
        OBVIOUS
      <4>1. Cardinality(t) \in Nat
        BY <1>2
      <4>2. ASSUME t # {} PROVE AddLast(s, f, t) = AddLast(s, g, t)
        <5>1. PICK u \in A : u = t \ {Max(t)}
          BY <1>1, <4>2
        <5>2. Cardinality(u) \in Nat /\ Cardinality(u) # h - 1
          BY <1>1, <2>2, <4>1, <4>2, <5>1
        <5>3. f[u] = g[u]
          BY <5>2
        <5> HIDE DEF f
        <5> QED  BY <5>1, <5>3, AddLastSame
      <4>3. CASE Cardinality(t) = h - 1
        BY <4>2, <4>3
      <4>4. CASE Cardinality(t) # h - 1
        <5>1. Cardinality(t) < h - 1
          BY <2>2, <4>1, <4>4
        <5>2. f[t] = g[t]
          BY <4>4
        <5>3. g[t] = IF t = {} THEN <<>> ELSE AddLast(s, g, t)
          BY <3>2, <5>1
        <5> HIDE DEF f
        <5> QED  BY <4>2, <5>2, <5>3
      <4> QED  BY <4>3, <4>4
    <3> HIDE DEF f
    <3> QED  BY <2>2, <3>3, <3>4
  <2> QED  BY <2>3, <2>4
<1>4. N + 1 \in Nat /\ N + 1 \notin Bad
  <2> HIDE DEF Bad
  <2> QED  BY <1>3
<1>5. PICK g : Fun(g) /\ Upto(N + 1, g)
  BY <1>4
<1>6. \A t \in A : g[t] = IF t = {} THEN <<>> ELSE AddLast(s, g, t)
  <2>1. \A a, b \in Nat : a <= b => a < b + 1
    OBVIOUS
  <2>2. \A t \in A : Cardinality(t) < N + 1
    <3> HIDE DEF A
    <3> QED  BY <1>2, <2>1
  <2> QED  BY <1>5, <2>2
<1>7. g = [t \in A |-> IF t = {} THEN <<>> ELSE AddLast(s, g, t)]
  <2> DEFINE F == [t \in A |-> IF t = {} THEN <<>> ELSE AddLast(s, g, t)]
  <2>1. g = [t \in A |-> g[t]] /\ F = [t \in A |-> F[t]] /\ \A t \in A : F[t] = g[t]
    BY <1>5, <1>6
  <2> HIDE DEF F
  <2>2. g = F
    BY <2>1
  <2> QED  BY <2>2 DEF F
<1> QED  BY <1>7 DEF Folds

\* h[i] is the table with its first i entries.
Rows(h, s, N) ==
  /\ h[0] = <<>>
  /\ \A i \in 1 .. N : h[i] = Append(h[i - 1], next_entry(s, h[i - 1], i))

\* The table is filled one entry after the other.
LEMMA TableRows ==
  ASSUME NEW N \in Nat, NEW s, DOMAIN s = 1 .. N
  PROVE  \E h : Rows(h, s, N) /\ Table(s) = h[N]
<1>1. 1 .. N = DOMAIN [i \in DOMAIN s |-> i]
  OBVIOUS
<1>2. PICK f : Folds(f, s, 1 .. N) /\ Table(s) = f[1 .. N]
  <2>1. PICK P : P = DOMAIN [i \in DOMAIN s |-> i]
    OBVIOUS
  <2>2. PICK g : Folds(g, s, P)
    BY <1>1, <2>1, TableSolvable
  <2>3. \E f : Folds(f, s, P) /\ Table(s) = f[P]
    BY <2>1, <2>2, TableChosen, Zenon
  <2> QED  BY <1>1, <2>1, <2>3
<1> DEFINE h == [i \in 0 .. N |-> f[1 .. i]]
<1>3. \A t \in SUBSET (1 .. N) : f[t] = IF t = {} THEN <<>> ELSE AddLast(s, f, t)
  BY <1>2 DEF Folds
<1>4. h[0] = <<>>
  <2>1. 1 .. 0 = {}
    OBVIOUS
  <2> QED  BY <1>3, <2>1
<1>5. ASSUME NEW i \in 1 .. N
      PROVE  h[i] = Append(h[i - 1], next_entry(s, h[i - 1], i))
  <2>1. PICK t \in SUBSET (1 .. N) : t = 1 .. i
    OBVIOUS
  <2>2. i \in t /\ t # {} /\ \A y \in t : y \in Nat /\ y <= i
    BY <2>1
  <2>3. Max(t) = i
    <3>1. i \in Nat /\ t \in SUBSET Nat
      BY <2>2
    <3>2. PICK most \in t : most = Max(t) /\ most >= i
      BY <2>2, <3>1, MaxIn
    <3> QED  BY <2>2, <3>2
  <2>4. t \ {i} = 1 .. (i - 1)
    BY <2>1
  <2>5. f[t] = AddLast(s, f, t)
    BY <1>3, <2>2
  <2>6. [j \in DOMAIN s |-> j][i] = i
    OBVIOUS
  <2>7. AddLast(s, f, t) = Append(f[1 .. (i - 1)], next_entry(s, f[1 .. (i - 1)], i))
    BY <2>3, <2>4, <2>6 DEF AddLast
  <2>8. h[i] = f[t] /\ h[i - 1] = f[1 .. (i - 1)]
    BY <2>1
  <2> QED  BY <2>5, <2>7, <2>8
<1>6. h[N] = f[1 .. N]
  OBVIOUS
<1> HIDE DEF h
<1> QED  BY <1>2, <1>4, <1>5, <1>6 DEF Rows

\* The greater of two numbers.
LEMMA MaxOfTwo ==
  ASSUME NEW a \in Nat, NEW b \in Nat
  PROVE  /\ Max({a, b}) \in Nat /\ Max({a, b}) >= a /\ Max({a, b}) >= b
         /\ Max({a, b}) = a \/ Max({a, b}) = b
<1>1. a + b \in Nat /\ {a, b} \in SUBSET Nat /\ {a, b} # {} /\ \A x \in {a, b} : x <= a + b
  OBVIOUS
<1>2. Max({a, b}) \in {a, b} /\ \A y \in {a, b} : Max({a, b}) >= y
  BY <1>1, MaxIn
<1> QED  BY <1>2

\* latestNonConflict finds the last range before i that has no conflict with
\* it.
LEMMA LatestIs ==
  ASSUME NEW s, NEW i \in Nat, i >= 1
  PROVE  LET l == latestNonConflict(s, i)
         IN  /\ l \in 0 .. (i - 1)
             /\ l # 0 => NoConflict(s[l], s[i])
             /\ \A j \in 1 .. (i - 1) : NoConflict(s[j], s[i]) => j <= l
<1> DEFINE free == {j \in 1 .. (i - 1) : NoConflict(s[j], s[i])}
<1>1. latestNonConflict(s, i) = IF free = {} THEN 0 ELSE Max(free)
  BY DEF latestNonConflict
<1>2. CASE free = {}
  BY <1>1, <1>2
<1>3. CASE free # {}
  <2>1. free \in SUBSET Nat /\ \A x \in free : x <= i
    OBVIOUS
  <2>2. PICK l \in free : l = Max(free) /\ \A y \in free : l >= y
    <3> HIDE DEF free
    <3> QED  BY <1>3, <2>1, MaxIn
  <2>3. l \in 1 .. (i - 1) /\ NoConflict(s[l], s[i])
    OBVIOUS
  <2>4. \A j \in 1 .. (i - 1) : NoConflict(s[j], s[i]) => j <= l
    BY <2>2, <2>3
  <2>5. latestNonConflict(s, i) = l
    BY <1>1, <1>3, <2>2
  <2> QED  BY <2>3, <2>4, <2>5
<1> QED  BY <1>2, <1>3

\* What the solver may gain with range i, given the entries before it.
Gain(s, T, i) ==
  get_weight(s, i) + (IF latestNonConflict(s, i) = 0 THEN 0 ELSE T[latestNonConflict(s, i)])

\* The next entry is the best of taking range i and leaving it out.
LEMMA EntryIs ==
  ASSUME NEW s, NEW i \in Nat, i >= 1, NEW T, \A k \in 1 .. (i - 1) : T[k] \in Nat
  PROVE  /\ next_entry(s, T, i) \in Nat /\ Gain(s, T, i) \in Nat
         /\ next_entry(s, T, i) >= Gain(s, T, i)
         /\ i > 1 => next_entry(s, T, i) >= T[i - 1]
         /\ \/ next_entry(s, T, i) = Gain(s, T, i)
            \/ i > 1 /\ next_entry(s, T, i) = T[i - 1]
<1>1. get_weight(s, i) \in Nat
  BY DEF get_weight
<1>2. PICK l : l = latestNonConflict(s, i)
  OBVIOUS
<1>3. l \in 0 .. (i - 1)
  BY <1>2, LatestIs
<1>4. PICK a : a = Gain(s, T, i)
  OBVIOUS
<1>5. a = get_weight(s, i) + (IF l = 0 THEN 0 ELSE T[l])
  BY <1>2, <1>4 DEF Gain
<1>6. a \in Nat
  <2>1. l # 0 => l \in 1 .. (i - 1)
    BY <1>3
  <2>2. (IF l = 0 THEN 0 ELSE T[l]) \in Nat
    BY <2>1
  <2> QED  BY <1>1, <1>5, <2>2
<1>7. next_entry(s, T, i) = IF i = 1 THEN get_weight(s, 1) ELSE Max({a, T[i - 1]})
  BY <1>2, <1>5 DEF next_entry
<1>8. CASE i = 1
  <2>1. l = 0 /\ a = get_weight(s, 1)
    BY <1>1, <1>3, <1>5, <1>8
  <2> QED  BY <1>4, <1>6, <1>7, <1>8, <2>1
<1>9. CASE i # 1
  <2>1. PICK b \in Nat : b = T[i - 1]
    BY <1>9
  <2>2. next_entry(s, T, i) = Max({a, b})
    BY <1>7, <1>9, <2>1
  <2> QED  BY <1>4, <1>6, <1>9, <2>1, <2>2, MaxOfTwo
<1> QED  BY <1>8, <1>9

\* It depends on the entries before it only.
LEMMA EntrySame ==
  ASSUME NEW s, NEW i \in Nat, i >= 1, NEW T, NEW U, \A k \in 1 .. (i - 1) : T[k] = U[k]
  PROVE  next_entry(s, T, i) = next_entry(s, U, i)
<1>1. PICK l : l = latestNonConflict(s, i)
  OBVIOUS
<1>2. l \in 0 .. (i - 1)
  BY <1>1, LatestIs
<1>3. l # 0 => T[l] = U[l]
  BY <1>2
<1>4. i # 1 => T[i - 1] = U[i - 1]
  OBVIOUS
<1> QED  BY <1>1, <1>3, <1>4 DEF next_entry

\* The entries of a full table.
Entries(T, s, N) ==
  /\ T \in Seq(Nat) /\ Len(T) = N
  /\ \A i \in 1 .. N : T[i] = next_entry(s, T, i)

\* Table gives them.
LEMMA TableEntries ==
  ASSUME NEW N \in Nat, NEW s, DOMAIN s = 1 .. N
  PROVE  Entries(Table(s), s, N)
<1>1. PICK h : Rows(h, s, N) /\ Table(s) = h[N]
  BY TableRows
<1> DEFINE Bad == {i \in Nat : i <= N /\ ~Entries(h[i], s, i)}
<1>2. ASSUME Bad # {} PROVE FALSE
  <2>1. PICK i \in Bad : \A j \in Bad : i <= j
    BY <1>2, LeastNatural
  <2>2. i \in Nat /\ i <= N /\ ~Entries(h[i], s, i)
    OBVIOUS
  <2>3. CASE i = 0
    <3>1. h[i] = <<>>
      BY <1>1, <2>3 DEF Rows
    <3>2. <<>> \in Seq(Nat) /\ Len(<<>>) = 0
      OBVIOUS
    <3> QED  BY <2>2, <2>3, <3>1, <3>2 DEF Entries
  <2>4. CASE i # 0
    <3>1. i - 1 \in Nat /\ i - 1 <= N /\ i - 1 \notin Bad
      <4> HIDE DEF Bad
      <4> QED  BY <2>1, <2>2, <2>4
    <3>2. PICK T : T = h[i - 1]
      OBVIOUS
    <3>3. Entries(T, s, i - 1)
      BY <3>1, <3>2
    <3>4. PICK e : e = next_entry(s, T, i)
      OBVIOUS
    <3>5. T \in Seq(Nat) /\ Len(T) = i - 1 /\ \A k \in 1 .. (i - 1) : T[k] = next_entry(s, T, k)
      BY <3>3 DEF Entries
    <3>6. \A k \in 1 .. (i - 1) : T[k] \in Nat
      BY <3>5
    <3>7. i >= 1 /\ i \in 1 .. N
      BY <2>2, <2>4
    <3>8. e \in Nat
      BY <2>2, <3>4, <3>6, <3>7, EntryIs
    <3>9. PICK U : U = Append(T, e)
      OBVIOUS
    <3>10. h[i] = U
      BY <1>1, <3>2, <3>4, <3>7, <3>9 DEF Rows
    <3>11. U \in Seq(Nat) /\ Len(U) = i /\ U[i] = e /\ \A k \in 1 .. (i - 1) : U[k] = T[k]
      BY <2>2, <3>5, <3>7, <3>8, <3>9
    <3>12. ASSUME NEW k \in 1 .. i PROVE U[k] = next_entry(s, U, k)
      <4>1. k \in Nat /\ k >= 1 /\ \A j \in 1 .. (k - 1) : T[j] = U[j]
        BY <2>2, <3>11
      <4>2. next_entry(s, T, k) = next_entry(s, U, k)
        BY <4>1, EntrySame
      <4>3. CASE k = i
        BY <3>4, <3>11, <4>2, <4>3
      <4>4. CASE k # i
        <5>1. k \in 1 .. (i - 1)
          BY <2>2, <4>4
        <5> QED  BY <3>5, <3>11, <4>2, <5>1
      <4> QED  BY <4>3, <4>4
    <3>13. Entries(U, s, i)
      BY <3>11, <3>12 DEF Entries
    <3> QED  BY <2>2, <3>10, <3>13
  <2> QED  BY <2>3, <2>4
<1>3. N \notin Bad
  BY <1>2
<1> QED  BY <1>1, <1>3

-----------------------------------------------------------------------------
(* What the table says about choices of ranges.                            *)

\* Ranges in the order of their high ends.
ByEnds(s, N) ==
  /\ \A i \in 1 .. N : s[i] \in Range1d
  /\ \A i, j \in 1 .. N : i <= j => s[i].high <= s[j].high

\* Positions of ranges without a common value, and of ranges that the solver
\* takes together.
Apart(s, S) == \A i, j \in S : i # j => s[i].high < s[j].low \/ s[j].high < s[i].low
\* The ranges at S pass the solver's test two by two.
Together(s, S) == \A i, j \in S : i # j => NoConflict(s[i], s[j]) \/ NoConflict(s[j], s[i])

\* The ends of a range.
LEMMA EndsOf ==
  ASSUME NEW r \in Range1d
  PROVE  r.low \in Int /\ r.high \in Int /\ r.low <= r.high
BY MaxvAssumption DEF Range1d, Values

\* Some of the first positions are finitely many.
LEMMA FiniteUpto ==
  ASSUME NEW i \in Nat, NEW S \in SUBSET (1 .. i)
  PROVE  IsFiniteSet(S) /\ Cardinality(S) \in Nat /\ Cardinality(S) <= i
<1>1. IsFiniteSet(1 .. i) /\ Cardinality(1 .. i) = i
  BY FS_Interval
<1> QED  BY <1>1, FS_Subset, FS_CardinalityType

\* The entry of i is at least the number of any ranges up to i without a
\* common value: the last one of them leaves the others to the entry of its
\* latestNonConflict.
LEMMA TableAtLeast ==
  ASSUME NEW N \in Nat, NEW s, ByEnds(s, N), NEW T, Entries(T, s, N),
         NEW m \in 1 .. N, NEW Q \in SUBSET (1 .. m), Apart(s, Q)
  PROVE  Cardinality(Q) <= T[m]
<1> DEFINE Holds(i) == \A S \in SUBSET (1 .. i) : Apart(s, S) => Cardinality(S) <= T[i]
           Bad == {i \in Nat : i \in 1 .. N /\ ~Holds(i)}
<1>1. \A i \in 1 .. N : T[i] \in Nat /\ T[i] = next_entry(s, T, i)
  BY DEF Entries
<1>2. ASSUME Bad # {} PROVE FALSE
  <2>1. PICK i \in Bad : \A j \in Bad : i <= j
    BY <1>2, LeastNatural
  <2>2. i \in Nat /\ i \in 1 .. N /\ ~Holds(i) /\ i >= 1
    OBVIOUS
  <2>3. ASSUME NEW j \in 1 .. (i - 1) PROVE j \in 1 .. N /\ Holds(j)
    <3>1. j \in Nat /\ j \in 1 .. N /\ ~(i <= j)
      BY <2>2
    <3>2. j \notin Bad
      <4> HIDE DEF Bad
      <4> QED  BY <2>1, <3>1
    <3> QED  BY <3>1, <3>2
  <2>4. PICK S \in SUBSET (1 .. i) : Apart(s, S) /\ ~(Cardinality(S) <= T[i])
    BY <2>2
  <2> HIDE DEF Bad
  <2>5. \A k \in 1 .. (i - 1) : T[k] \in Nat
    BY <1>1, <2>3
  <2>6. PICK w, l : w = get_weight(s, i) /\ l = latestNonConflict(s, i)
    OBVIOUS
  <2>7. PICK a : a = Gain(s, T, i)
    OBVIOUS
  <2>8. /\ T[i] \in Nat /\ a \in Nat /\ T[i] >= a
        /\ i > 1 => T[i] >= T[i - 1]
    BY <1>1, <2>2, <2>5, <2>7, EntryIs
  <2>9. Cardinality(S) \in Nat /\ IsFiniteSet(S)
    BY <2>2, FiniteUpto
  <2>10. CASE i \notin S
    <3>1. S \in SUBSET (1 .. (i - 1))
      BY <2>2, <2>10
    <3>2. CASE i = 1
      <4>1. S = {}
        BY <3>1, <3>2
      <4>2. Cardinality(S) = 0
        BY <4>1, FS_EmptySet
      <4> QED  BY <2>4, <2>8, <4>2
    <3>3. CASE i # 1
      <4>1. i - 1 \in 1 .. (i - 1) /\ i > 1
        BY <2>2, <3>3
      <4>2. Holds(i - 1) /\ T[i - 1] \in Nat
        BY <2>3, <2>5, <4>1
      <4>3. Cardinality(S) <= T[i - 1]
        BY <2>4, <3>1, <4>2
      <4> QED  BY <2>4, <2>8, <2>9, <4>1, <4>2, <4>3
    <3> QED  BY <3>2, <3>3
  <2>11. CASE i \in S
    <3>1. PICK R : R = S \ {i}
      OBVIOUS
    <3>2. Cardinality(R) \in Nat /\ Cardinality(S) = Cardinality(R) + 1
      <4>1. IsFiniteSet(R) /\ Cardinality(R) = Cardinality(S) - 1
        BY <2>9, <2>11, <3>1, FS_RemoveElement
      <4>2. Cardinality(R) \in Nat
        BY <4>1, FS_CardinalityType
      <4> QED  BY <2>9, <4>1, <4>2
    <3>3. w \in Nat /\ w >= 1
      BY <2>6 DEF get_weight
    <3>4. a = w + (IF l = 0 THEN 0 ELSE T[l])
      BY <2>6, <2>7 DEF Gain
    <3>5. l \in 0 .. (i - 1) /\ \A j \in 1 .. (i - 1) : NoConflict(s[j], s[i]) => j <= l
      BY <2>2, <2>6, LatestIs
    <3>6. ASSUME NEW j \in R PROVE j \in 1 .. (i - 1) /\ NoConflict(s[j], s[i])
      <4>1. j \in S /\ j # i /\ j \in 1 .. (i - 1) /\ j \in 1 .. N /\ j <= i
        BY <2>2, <3>1
      <4>2. s[j] \in Range1d /\ s[i] \in Range1d /\ s[j].high <= s[i].high
        BY <2>2, <4>1 DEF ByEnds
      <4>3. s[j].high < s[i].low \/ s[i].high < s[j].low
        BY <2>4, <2>11, <4>1 DEF Apart
      <4>4. /\ s[j].low \in Int /\ s[j].high \in Int /\ s[j].low <= s[j].high
            /\ s[i].low \in Int /\ s[i].high \in Int
        BY <4>2, EndsOf
      <4>5. s[j].high <= s[i].low
        BY <4>2, <4>3, <4>4
      <4> QED  BY <4>1, <4>5 DEF NoConflict
    <3>7. CASE l = 0
      <4>1. R = {}
        BY <3>5, <3>6, <3>7
      <4>2. Cardinality(R) = 0
        BY <4>1, FS_EmptySet
      <4> QED  BY <2>4, <2>8, <3>2, <3>3, <3>4, <3>7, <4>2
    <3>8. CASE l # 0
      <4>1. l \in 1 .. (i - 1)
        BY <2>2, <3>5, <3>8
      <4>2. R \in SUBSET (1 .. l)
        BY <2>2, <3>5, <3>6, <4>1
      <4>3. Apart(s, R)
        BY <2>4, <3>1 DEF Apart
      <4>4. Cardinality(R) <= T[l] /\ T[l] \in Nat
        BY <2>3, <2>5, <4>1, <4>2, <4>3
      <4> QED  BY <2>4, <2>8, <3>2, <3>3, <3>4, <3>8, <4>4
    <3> QED  BY <3>7, <3>8
  <2> QED  BY <2>10, <2>11
<1>3. m \in Nat /\ m \notin Bad
  <2> HIDE DEF Bad
  <2> QED  BY <1>2
<1> QED  BY <1>3

\* When no range occurs twice, the entry of i is the number of ranges that
\* the solver takes together: those of the entry it builds on and range i.
LEMMA TableTaken ==
  ASSUME NEW N \in Nat, NEW s, ByEnds(s, N), NEW T, Entries(T, s, N),
         \A i, j \in 1 .. N : s[i] = s[j] => i = j, NEW m \in 1 .. N
  PROVE  \E S \in SUBSET (1 .. m) : Together(s, S) /\ Cardinality(S) = T[m]
<1> DEFINE Holds(i) == \E S \in SUBSET (1 .. i) : Together(s, S) /\ Cardinality(S) = T[i]
           Bad == {i \in Nat : i \in 1 .. N /\ ~Holds(i)}
<1>1. \A i \in 1 .. N : T[i] \in Nat /\ T[i] = next_entry(s, T, i)
  BY DEF Entries
<1>2. ASSUME Bad # {} PROVE FALSE
  <2>1. PICK i \in Bad : \A j \in Bad : i <= j
    BY <1>2, LeastNatural
  <2>2. i \in Nat /\ i \in 1 .. N /\ ~Holds(i) /\ i >= 1
    OBVIOUS
  <2>3. ASSUME NEW j \in 1 .. (i - 1) PROVE j \in 1 .. N /\ Holds(j)
    <3>1. j \in Nat /\ j \in 1 .. N /\ ~(i <= j)
      BY <2>2
    <3>2. j \notin Bad
      <4> HIDE DEF Bad
      <4> QED  BY <2>1, <3>1
    <3> QED  BY <3>1, <3>2
  <2> HIDE DEF Bad
  <2>5. \A k \in 1 .. (i - 1) : T[k] \in Nat
    BY <1>1, <2>3
  <2>6. PICK l : l = latestNonConflict(s, i)
    OBVIOUS
  <2>7. T[i] = Gain(s, T, i) \/ (i > 1 /\ T[i] = T[i - 1])
    BY <1>1, <2>2, <2>5, EntryIs
  <2>8. CASE i > 1 /\ T[i] = T[i - 1]
    <3>1. i - 1 \in 1 .. (i - 1)
      BY <2>2, <2>8
    <3>2. PICK S \in SUBSET (1 .. (i - 1)) : Together(s, S) /\ Cardinality(S) = T[i - 1]
      BY <2>3, <3>1
    <3>3. S \in SUBSET (1 .. i)
      BY <2>2
    <3> QED  BY <2>2, <2>8, <3>2, <3>3
  <2>9. CASE T[i] = Gain(s, T, i)
    <3>1. get_weight(s, i) = 1
      <4>1. i > 1 => i - 1 \in 1 .. N /\ i - 1 # i
        BY <2>2
      <4>2. ~(i > 1 /\ s[i - 1] = s[i])
        BY <2>2, <4>1
      <4> QED  BY <4>2 DEF get_weight
    <3>2. T[i] = 1 + (IF l = 0 THEN 0 ELSE T[l])
      BY <2>6, <2>9, <3>1 DEF Gain
    <3>3. l \in 0 .. (i - 1) /\ (l # 0 => NoConflict(s[l], s[i]))
      BY <2>2, <2>6, LatestIs
    <3>4. CASE l = 0
      <4>1. {i} \in SUBSET (1 .. i) /\ Together(s, {i})
        BY <2>2 DEF Together
      <4>2. Cardinality({i}) = 1
        BY FS_Singleton
      <4> QED  BY <2>2, <3>2, <3>4, <4>1, <4>2
    <3>5. CASE l # 0
      <4>1. l \in 1 .. (i - 1) /\ l \in 1 .. N /\ l # i
        BY <2>2, <3>3, <3>5
      <4>2. PICK R \in SUBSET (1 .. l) : Together(s, R) /\ Cardinality(R) = T[l]
        BY <2>3, <4>1
      <4>3. PICK S : S = R \cup {i}
        OBVIOUS
      <4>4. S \in SUBSET (1 .. i) /\ i \notin R
        BY <2>2, <4>1, <4>3
      <4>5. Cardinality(S) = T[i]
        <5>1. IsFiniteSet(R) /\ Cardinality(R) \in Nat
          BY <4>1, FiniteUpto
        <5>2. Cardinality(S) = Cardinality(R) + 1
          BY <4>3, <4>4, <5>1, FS_AddElement
        <5> QED  BY <3>2, <3>5, <4>2, <5>1, <5>2
      <4>6. s[l].high <= s[i].low
        <5>1. s[l] # s[i]
          BY <2>2, <4>1
        <5> QED  BY <3>3, <3>5, <5>1 DEF NoConflict
      <4>7. ASSUME NEW j \in R PROVE NoConflict(s[j], s[i])
        <5>1. j \in 1 .. N /\ j <= l
          BY <2>2, <4>1
        <5>2. s[j] \in Range1d /\ s[l] \in Range1d /\ s[i] \in Range1d /\ s[j].high <= s[l].high
          BY <2>2, <4>1, <5>1 DEF ByEnds
        <5>3. s[j].high \in Int /\ s[l].high \in Int /\ s[i].low \in Int
          BY <5>2, EndsOf
        <5>4. s[j].high <= s[i].low
          BY <4>6, <5>2, <5>3
        <5> QED  BY <5>4 DEF NoConflict
      <4>8. Together(s, S)
        BY <4>2, <4>3, <4>7 DEF Together
      <4> QED  BY <2>2, <4>4, <4>5, <4>8
    <3> QED  BY <3>4, <3>5
  <2> QED  BY <2>7, <2>8, <2>9
<1>3. m \in Nat /\ m \notin Bad
  <2> HIDE DEF Bad
  <2> QED  BY <1>2
<1> QED  BY <1>3

\* The comparator of the sort, with the positions to break ties, is a linear
\* order.
LEMMA EndsFirstLinear ==
  ASSUME NEW N \in Nat, NEW list, DOMAIN list = 1 .. N, \A i \in 1 .. N : list[i] \in Range1d
  PROVE  LinearOrder(EndsFirst(list), 1 .. N)
<1> DEFINE B == EndsFirst(list)
<1>1. ASSUME NEW i \in 1 .. N, NEW j \in 1 .. N
      PROVE  <<i, j>> \in B <=> \/ list[i].high < list[j].high
                                \/ list[i].high = list[j].high /\ i < j
  BY DEF EndsFirst
<1>2. \A i \in 1 .. N : list[i].high \in Int
  BY EndsOf
<1> HIDE DEF B
<1>3. \A i \in 1 .. N : <<i, i>> \notin B
  BY <1>1, <1>2
<1>4. ASSUME NEW i \in 1 .. N, NEW j \in 1 .. N, i # j
      PROVE  <<i, j>> \in B \/ <<j, i>> \in B
  <2>1. list[i].high \in Int /\ list[j].high \in Int
    BY <1>2
  <2>2. \/ list[i].high < list[j].high \/ (list[i].high = list[j].high /\ i < j)
        \/ list[j].high < list[i].high \/ (list[j].high = list[i].high /\ j < i)
    BY <1>4, <2>1
  <2> QED  BY <1>1, <2>2
<1>5. ASSUME NEW i \in 1 .. N, NEW j \in 1 .. N, NEW k \in 1 .. N, <<i, j>> \in B, <<j, k>> \in B
      PROVE  <<i, k>> \in B
  <2>1. list[i].high \in Int /\ list[j].high \in Int /\ list[k].high \in Int
    BY <1>2
  <2>2. list[i].high < list[j].high \/ (list[i].high = list[j].high /\ i < j)
    BY <1>1, <1>5
  <2>3. list[j].high < list[k].high \/ (list[j].high = list[k].high /\ j < k)
    BY <1>1, <1>5
  <2>4. list[i].high < list[k].high \/ (list[i].high = list[k].high /\ i < k)
    BY <2>1, <2>2, <2>3
  <2> QED  BY <1>1, <2>4
<1> QED  BY <1>3, <1>4, <1>5 DEF LinearOrder, B

\* at says where each sorted range was.
Origin(at, s, list, N) ==
  /\ at \in [1 .. N -> 1 .. N]
  /\ \A i, j \in 1 .. N : at[i] = at[j] => i = j
  /\ \A k \in 1 .. N : s[k] = list[at[k]]

\* The sorted list has all ranges of the list, in the order of their ends.
LEMMA SortedIs ==
  ASSUME NEW N \in Nat, NEW list, DOMAIN list = 1 .. N, \A i \in 1 .. N : list[i] \in Range1d,
         NEW s, s = sort_intervals(list)
  PROVE  DOMAIN s = 1 .. N /\ ByEnds(s, N) /\ \E at : Origin(at, s, list, N)
<1>1. PICK B : B = EndsFirst(list)
  OBVIOUS
<1>2. LinearOrder(B, 1 .. N)
  BY <1>1, EndsFirstLinear
<1>3. PICK at : at = Arrange(1 .. N, B)
  OBVIOUS
<1>4. Arranged(at, 1 .. N, B, N)
  <2>1. IsFiniteSet(1 .. N) /\ Cardinality(1 .. N) = N
    BY FS_Interval
  <2> QED  BY <1>2, <1>3, <2>1, ArrangeIs
<1>5. /\ at \in [1 .. N -> 1 .. N]
      /\ \A i, j \in 1 .. N : at[i] = at[j] => i = j
      /\ \A i, j \in 1 .. N : i < j => <<at[i], at[j]>> \in B
      /\ s = [k \in 1 .. N |-> list[at[k]]]
  BY <1>1, <1>3, <1>4 DEF Arranged, sort_intervals
<1>6. Origin(at, s, list, N) /\ DOMAIN s = 1 .. N /\ \A i \in 1 .. N : s[i] \in Range1d
  BY <1>5 DEF Origin
<1>7. ASSUME NEW i \in 1 .. N, NEW j \in 1 .. N, i <= j PROVE s[i].high <= s[j].high
  <2>1. s[i].high \in Int /\ s[j].high \in Int
    BY <1>6, EndsOf
  <2>2. CASE i = j
    BY <2>1, <2>2
  <2>3. CASE i # j
    <3>1. i < j
      BY <1>7, <2>3
    <3>2. <<at[i], at[j]>> \in B
      BY <1>5, <3>1
    <3>3. list[at[i]].high < list[at[j]].high \/ list[at[i]].high = list[at[j]].high
      BY <1>1, <3>2 DEF EndsFirst
    <3>4. s[i].high < s[j].high \/ s[i].high = s[j].high
      BY <1>5, <3>3
    <3> QED  BY <2>1, <3>4
  <2> QED  BY <2>2, <2>3
<1>8. ByEnds(s, N)
  BY <1>6, <1>7 DEF ByEnds
<1> QED  BY <1>6, <1>8

\* S is where the ranges at the positions Q come from.
ComeFrom(S, at, Q) == S = {at[k] : k \in Q}

\* It has as many members.
LEMMA SameNumber ==
  ASSUME NEW N \in Nat, NEW at \in [1 .. N -> 1 .. N],
         \A i, j \in 1 .. N : at[i] = at[j] => i = j,
         NEW Q \in SUBSET (1 .. N), NEW S, ComeFrom(S, at, Q)
  PROVE  Cardinality(S) = Cardinality(Q)
<1> DEFINE f == [k \in Q |-> at[k]]
<1>1. f \in Bijection(Q, S)
  <2>1. f \in [Q -> S] /\ S = {at[k] : k \in Q}
    BY DEF ComeFrom
  <2>2. f \in Injection(Q, S)
    BY <2>1 DEF Injection, IsInjective
  <2>3. f \in Surjection(Q, S)
    BY <2>1 DEF Surjection
  <2> QED  BY <2>2, <2>3 DEF Bijection
<1>2. ExistsBijection(Q, S)
  BY <1>1 DEF ExistsBijection
<1>3. IsFiniteSet(Q)
  BY FiniteUpto
<1> QED  BY <1>2, <1>3, FS_Bijection

\* The score of a list that is not empty.
LEMMA ScoreIs ==
  ASSUME NEW N \in Nat, N >= 1, NEW list, DOMAIN list = 1 .. N,
         \A i \in 1 .. N : list[i] \in Range1d,
         NEW score, score = findMaxWeightIntervalSequence(list)
  PROVE  /\ score \in Nat
         /\ \A S \in SUBSET (1 .. N) : Apart(list, S) => Cardinality(S) <= score
         /\ (\A i, j \in 1 .. N : list[i] = list[j] => i = j) =>
               \E S \in SUBSET (1 .. N) : Together(list, S) /\ Cardinality(S) = score
<1>1. PICK s, T : s = sort_intervals(list) /\ T = Table(s)
  OBVIOUS
<1>2. DOMAIN s = 1 .. N /\ ByEnds(s, N)
  BY <1>1, SortedIs
<1>3. PICK at : Origin(at, s, list, N)
  BY <1>1, SortedIs
<1>4. Entries(T, s, N)
  BY <1>1, <1>2, TableEntries
<1>5. T \in Seq(Nat) /\ Len(T) = N /\ N \in 1 .. N
  BY <1>4 DEF Entries
<1>6. score = T[N] /\ score \in Nat
  BY <1>1, <1>5 DEF findMaxWeightIntervalSequence, Last
<1>7. /\ at \in [1 .. N -> 1 .. N]
      /\ \A i, j \in 1 .. N : at[i] = at[j] => i = j
      /\ \A k \in 1 .. N : s[k] = list[at[k]]
  BY <1>3 DEF Origin
<1>8. ASSUME NEW S \in SUBSET (1 .. N), Apart(list, S) PROVE Cardinality(S) <= score
  <2>1. PICK Q \in SUBSET (1 .. N) : Q = {k \in 1 .. N : at[k] \in S}
    OBVIOUS
  <2>2. ComeFrom(S, at, Q)
    <3>1. {at[i] : i \in 1 .. N} = 1 .. N
      BY <1>7, InjectionOnto
    <3>2. ASSUME NEW v \in S PROVE \E k \in Q : v = at[k]
      BY <2>1, <3>1
    <3>3. \A k \in Q : at[k] \in S
      BY <2>1
    <3> QED  BY <3>2, <3>3 DEF ComeFrom
  <2>3. Cardinality(S) = Cardinality(Q)
    BY <1>7, <2>2, SameNumber
  <2>4. Apart(s, Q)
    <3> SUFFICES ASSUME NEW i \in Q, NEW j \in Q, i # j
                 PROVE  s[i].high < s[j].low \/ s[j].high < s[i].low
      BY DEF Apart
    <3>1. /\ i \in 1 .. N /\ j \in 1 .. N /\ at[i] \in S /\ at[j] \in S
          /\ s[i] = list[at[i]] /\ s[j] = list[at[j]] /\ at[i] # at[j]
      BY <1>7, <2>1
    <3> QED  BY <1>8, <3>1 DEF Apart
  <2>5. Cardinality(Q) <= T[N]
    BY <1>2, <1>4, <1>5, <2>4, TableAtLeast
  <2> QED  BY <1>6, <2>3, <2>5
<1>9. ASSUME \A i, j \in 1 .. N : list[i] = list[j] => i = j
      PROVE  \E S \in SUBSET (1 .. N) : Together(list, S) /\ Cardinality(S) = score
  <2>1. \A i, j \in 1 .. N : s[i] = s[j] => i = j
    BY <1>7, <1>9
  <2>2. PICK Q \in SUBSET (1 .. N) : Together(s, Q) /\ Cardinality(Q) = T[N]
    BY <1>2, <1>4, <1>5, <2>1, TableTaken
  <2>3. PICK S \in SUBSET (1 .. N) : ComeFrom(S, at, Q)
    <3>1. {at[k] : k \in Q} \in SUBSET (1 .. N)
      BY <1>7
    <3> QED  BY <3>1 DEF ComeFrom
  <2>4. Cardinality(S) = score
    <3>1. Cardinality(S) = Cardinality(Q)
      BY <1>7, <2>3, SameNumber
    <3> QED  BY <1>6, <2>2, <3>1
  <2>5. Together(list, S)
    BY <1>7, <2>2, <2>3 DEF Together, ComeFrom
  <2> QED  BY <2>4, <2>5
<1> QED  BY <1>6, <1>8, <1>9

\* The greatest number of positions in a set of sets of them.
LEMMA GreatestNumber ==
  ASSUME NEW N \in Nat, NEW Sel \in SUBSET (SUBSET (1 .. N)), {} \in Sel,
         NEW C, C = {Cardinality(S) : S \in Sel}
  PROVE  Max(C) \in C /\ \A S \in Sel : Cardinality(S) <= Max(C)
<1>1. \A S \in Sel : Cardinality(S) \in Nat /\ Cardinality(S) <= N
  BY FiniteUpto
<1>2. C \in SUBSET Nat /\ C # {} /\ \A x \in C : x <= N
  BY <1>1
<1>3. Max(C) \in C /\ \A y \in C : Max(C) >= y
  BY <1>2, MaxIn
<1>4. ASSUME NEW S \in Sel PROVE Cardinality(S) <= Max(C)
  <2>1. Cardinality(S) \in C
    OBVIOUS
  <2>2. Max(C) >= Cardinality(S) /\ Max(C) \in Nat /\ Cardinality(S) \in Nat
    BY <1>2, <1>3, <2>1
  <2> QED  BY <2>2
<1> QED  BY <1>3, <1>4

\* An input of the solver is a list with a range in it.
ListInput ==
  in.kind = "intervals" =>
    \E N \in 1 .. MaxIntervals : in.list \in [1 .. N -> Range1d]

\* Every input that is picked is one.
LEMMA ListInputKept == Spec => []ListInput
<1>1. Init => ListInput
  BY DEF Init, ListInput
<1>2. ListInput /\ [Next]_in => ListInput'
  <2> SUFFICES ASSUME ListInput, [Next]_in, in'.kind = "intervals"
               PROVE  \E N \in 1 .. MaxIntervals : in'.list \in [1 .. N -> Range1d]
    BY DEF ListInput
  <2>1. CASE UNCHANGED in
    BY <2>1 DEF ListInput
  <2>2. CASE PickArray
    BY <2>2 DEF PickArray, Pick
  <2>3. CASE PickIntervals
    <3>1. PICK list \in Seqs(Range1d, 1, MaxIntervals) : Pick([kind |-> "intervals", list |-> list])
      BY <2>3 DEF PickIntervals
    <3>2. in'.list = list
      BY <3>1 DEF Pick
    <3>3. \E N \in 1 .. MaxIntervals : list \in [1 .. N -> Range1d]
      BY DEF Seqs
    <3> QED  BY <3>2, <3>3
  <2>4. CASE PickTree
    BY <2>4 DEF PickTree, Pick
  <2>5. CASE PickRange
    BY <2>5 DEF PickRange, Pick
  <2>6. CASE PickPrefix
    BY <2>6 DEF PickPrefix, Pick
  <2>7. CASE PickRule
    BY <2>7 DEF PickRule, Pick
  <2>8. CASE PickFile
    BY <2>8 DEF PickFile, Pick
  <2>9. CASE PickAnswers
    BY <2>9 DEF PickAnswers, Pick
  <2> QED  BY <2>1, <2>2, <2>3, <2>4, <2>5, <2>6, <2>7, <2>8, <2>9 DEF Next
<1> QED  BY <1>1, <1>2, PTL DEF Spec

\* On every such input the score is within its bounds.
LEMMA ScoreOfInput == ListInput => ScoreBounds
<1> SUFFICES ASSUME ListInput, in.kind = "intervals",
                    NEW list, list = in.list,
                    NEW score, score = findMaxWeightIntervalSequence(list)
             PROVE  /\ score >= Heaviest(list, LAMBDA r, s : r.high < s.low)
                    /\ IsInjective(list) => score <= Heaviest(list, NoConflict)
  BY DEF ScoreBounds
<1>1. PICK N \in 1 .. MaxIntervals : list \in [1 .. N -> Range1d]
  BY DEF ListInput
<1>2. N \in Nat /\ N >= 1 /\ DOMAIN list = 1 .. N /\ \A i \in 1 .. N : list[i] \in Range1d
  BY <1>1, BoundsAssumption
<1>3. /\ score \in Nat
      /\ \A S \in SUBSET (1 .. N) : Apart(list, S) => Cardinality(S) <= score
      /\ (\A i, j \in 1 .. N : list[i] = list[j] => i = j) =>
            \E S \in SUBSET (1 .. N) : Together(list, S) /\ Cardinality(S) = score
  BY <1>2, ScoreIs
<1>4. score >= Heaviest(list, LAMBDA r, s : r.high < s.low)
  <2>1. PICK Sel : Sel = {S \in SUBSET (1 .. N) : Apart(list, S)}
    OBVIOUS
  <2>2. PICK C : C = {Cardinality(S) : S \in Sel}
    OBVIOUS
  <2>3. Heaviest(list, LAMBDA r, s : r.high < s.low) = Max(C)
    BY <1>2, <2>1, <2>2 DEF Heaviest, Selections, Apart
  <2>4. Sel \in SUBSET (SUBSET (1 .. N)) /\ {} \in Sel
    BY <2>1 DEF Apart
  <2>5. Max(C) \in C
    BY <1>2, <2>2, <2>4, GreatestNumber
  <2>6. PICK S \in Sel : Max(C) = Cardinality(S)
    BY <2>2, <2>5
  <2>7. Cardinality(S) <= score /\ Cardinality(S) \in Nat
    BY <1>2, <1>3, <2>1, FiniteUpto
  <2> QED  BY <1>3, <2>3, <2>6, <2>7
<1>5. ASSUME IsInjective(list) PROVE score <= Heaviest(list, NoConflict)
  <2>1. PICK Sel : Sel = {S \in SUBSET (1 .. N) : Together(list, S)}
    OBVIOUS
  <2>2. PICK C : C = {Cardinality(S) : S \in Sel}
    OBVIOUS
  <2>3. Heaviest(list, NoConflict) = Max(C)
    BY <1>2, <2>1, <2>2 DEF Heaviest, Selections, Together
  <2>4. Sel \in SUBSET (SUBSET (1 .. N)) /\ {} \in Sel
    BY <2>1 DEF Together
  <2>5. \A i, j \in 1 .. N : list[i] = list[j] => i = j
    BY <1>2, <1>5 DEF IsInjective
  <2>6. PICK S \in SUBSET (1 .. N) : Together(list, S) /\ Cardinality(S) = score
    BY <1>3, <2>5
  <2>7. Cardinality(S) <= Max(C)
    BY <1>2, <2>1, <2>2, <2>4, <2>6, GreatestNumber
  <2> QED  BY <2>3, <2>6, <2>7
<1> QED  BY <1>4, <1>5

\* findMaxWeightIntervalSequence on lists of any length of ranges of any key
\* type: never below the greatest number of ranges without a common value,
\* and, for different ranges, never above the greatest number that pass the
\* solver's test two by two.
THEOREM ScoreCorrect == Spec => []ScoreBounds
BY ListInputKept, ScoreOfInput, PTL

-----------------------------------------------------------------------------
(* The resolver.                                                           *)

\* An order of the dimensions 1 .. N.
IsOrder(order, N) ==
  /\ order \in [1 .. N -> 1 .. N]
  /\ \A i, j \in 1 .. N : order[i] = order[j] => i = j

\* Every dimension has its place in it.
LEMMA PlaceIs ==
  ASSUME NEW N \in Nat, NEW order, IsOrder(order, N)
  PROVE  /\ \A d \in 1 .. N : PlaceOf(d, order) \in 1 .. N /\ order[PlaceOf(d, order)] = d
         /\ \A i \in 1 .. N : PlaceOf(order[i], order) = i
<1>1. /\ order \in [1 .. N -> 1 .. N] /\ DOMAIN order = 1 .. N
      /\ \A i, j \in 1 .. N : order[i] = order[j] => i = j
  BY DEF IsOrder
<1>2. ASSUME NEW d \in 1 .. N PROVE PlaceOf(d, order) \in 1 .. N /\ order[PlaceOf(d, order)] = d
  <2>1. IsFiniteSet(1 .. N) /\ Cardinality(1 .. N) = N
    BY FS_Interval
  <2>2. \E i \in 1 .. N : order[i] = d
    <3>1. \A k \in 1 .. N : \E x \in 1 .. N : order[x] = k
      BY <1>1, <2>1, NumbersOnto
    <3> QED  BY <3>1
  <2> QED  BY <1>1, <2>2 DEF PlaceOf
<1>3. ASSUME NEW i \in 1 .. N PROVE PlaceOf(order[i], order) = i
  <2>1. order[i] \in 1 .. N
    BY <1>1
  <2>2. PlaceOf(order[i], order) \in 1 .. N /\ order[PlaceOf(order[i], order)] = order[i]
    BY <1>2, <2>1
  <2> QED  BY <1>1, <2>2
<1> QED  BY <1>2, <1>3

\* Rules that can be resolved: at least one, of N ranges each.
AreRules(rules, N) ==
  \E n \in Nat \ {0} : /\ DOMAIN rules = 1 .. n
                       /\ \A i \in 1 .. n : \A d \in 1 .. N : rules[i][d] \in Range1d

\* Every dimension has a score, and none has the score 0: one range is
\* without conflict.
LEMMA ScoreOfDimension ==
  ASSUME NEW N \in Nat, NEW rules, AreRules(rules, N), NEW d \in 1 .. N
  PROVE  get_dimension_sel_score(rules, d) \in Nat /\ get_dimension_sel_score(rules, d) > 0
<1>1. PICK n \in Nat \ {0} : /\ DOMAIN rules = 1 .. n
                             /\ \A i \in 1 .. n : rules[i][d] \in Range1d
  BY DEF AreRules
<1>2. PICK list : list = [i \in DOMAIN rules |-> rules[i][d]]
  OBVIOUS
<1>3. DOMAIN list = 1 .. n /\ n \in Nat /\ n >= 1 /\ \A i \in 1 .. n : list[i] \in Range1d
  BY <1>1, <1>2
<1>4. PICK score : score = findMaxWeightIntervalSequence(list)
  OBVIOUS
<1>5. score \in Nat /\ \A S \in SUBSET (1 .. n) : Apart(list, S) => Cardinality(S) <= score
  BY <1>3, <1>4, ScoreIs
<1>6. {1} \in SUBSET (1 .. n) /\ Apart(list, {1})
  BY <1>3 DEF Apart
<1>7. Cardinality({1}) = 1
  BY FS_Singleton
<1>8. 1 <= score
  BY <1>5, <1>6, <1>7
<1>9. get_dimension_sel_score(rules, d) = score
  BY <1>2, <1>4 DEF get_dimension_sel_score
<1> QED  BY <1>5, <1>8, <1>9

\* The used dimensions with their scores.
Scores(rules, used) ==
  [d \in used |-> [d |-> d, score |-> get_dimension_sel_score(rules, d)]]

\* The pairs the sort of the used dimensions goes by.
BestPairs(rules, used, order) ==
  {p \in used \X used : score_order(Scores(rules, used)[p[1]], Scores(rules, used)[p[2]], order)}

\* The pairs the unused dimensions are in order by.
RestPairs(unused, order) ==
  {p \in unused \X unused : PlaceOf(p[1], order) < PlaceOf(p[2], order)}

\* The two lists resolve puts together.
IsChoice(rules, order, used, unused, best, rest) ==
  /\ used = used_dims(rules, DOMAIN order) /\ unused = DOMAIN order \ used
  /\ best = Arrange(used, BestPairs(rules, used, order))
  /\ rest = Arrange(unused, RestPairs(unused, order))

\* resolve in terms of them.
LEMMA ResolveIs ==
  ASSUME NEW rules, NEW order, NEW used, NEW unused, NEW best, NEW rest,
         IsChoice(rules, order, used, unused, best, rest)
  PROVE  resolve(rules, order) = [order |-> best \o rest, used_dim_cnt |-> Len(best)]
BY DEF IsChoice, resolve, BestPairs, RestPairs, Scores

\* Dimension d goes before dimension e.
Precedes(rules, order, d, e) ==
  \/ get_dimension_sel_score(rules, d) > get_dimension_sel_score(rules, e)
  \/ /\ get_dimension_sel_score(rules, d) = get_dimension_sel_score(rules, e)
     /\ PlaceOf(d, order) < PlaceOf(e, order)

\* It does iff the pair is one of the sort's.
LEMMA BestPairIs ==
  ASSUME NEW rules, NEW order, NEW used, NEW d \in used, NEW e \in used
  PROVE  <<d, e>> \in BestPairs(rules, used, order) <=> Precedes(rules, order, d, e)
<1>1. /\ Scores(rules, used)[d] = [d |-> d, score |-> get_dimension_sel_score(rules, d)]
      /\ Scores(rules, used)[e] = [d |-> e, score |-> get_dimension_sel_score(rules, e)]
  BY DEF Scores
<1>2. <<d, e>> \in BestPairs(rules, used, order) <=>
         score_order(Scores(rules, used)[d], Scores(rules, used)[e], order)
  BY DEF BestPairs
<1> QED  BY <1>1, <1>2 DEF score_order, Precedes

\* The same for an unused dimension.
LEMMA RestPairIs ==
  ASSUME NEW order, NEW unused, NEW d \in unused, NEW e \in unused
  PROVE  <<d, e>> \in RestPairs(unused, order) <=> PlaceOf(d, order) < PlaceOf(e, order)
BY DEF RestPairs

\* The sort has no ties: the place decides where the scores do not.
LEMMA BestLinear ==
  ASSUME NEW N \in Nat, NEW rules, AreRules(rules, N), NEW order, IsOrder(order, N),
         NEW used \in SUBSET (1 .. N)
  PROVE  LinearOrder(BestPairs(rules, used, order), used)
<1> DEFINE B == BestPairs(rules, used, order)
           sc(d) == get_dimension_sel_score(rules, d)
           at(d) == PlaceOf(d, order)
<1>1. \A d \in used : sc(d) \in Nat
  BY ScoreOfDimension
<1>2. \A d \in used : at(d) \in Nat /\ order[at(d)] = d
  BY PlaceIs
<1>3. \A d, e \in used : <<d, e>> \in B <=> sc(d) > sc(e) \/ (sc(d) = sc(e) /\ at(d) < at(e))
  BY BestPairIs DEF Precedes
<1> HIDE DEF B, sc, at
<1>4. \A d \in used : <<d, d>> \notin B
  BY <1>1, <1>2, <1>3
<1>5. ASSUME NEW d \in used, NEW e \in used, d # e PROVE <<d, e>> \in B \/ <<e, d>> \in B
  <2>1. at(d) # at(e)
    BY <1>2, <1>5
  <2>2. at(d) \in Nat /\ at(e) \in Nat /\ sc(d) \in Nat /\ sc(e) \in Nat
    BY <1>1, <1>2
  <2>3. \/ sc(d) > sc(e) \/ (sc(d) = sc(e) /\ at(d) < at(e))
        \/ sc(e) > sc(d) \/ (sc(e) = sc(d) /\ at(e) < at(d))
    BY <2>1, <2>2
  <2> QED  BY <1>3, <2>3
<1>6. ASSUME NEW d \in used, NEW e \in used, NEW f \in used, <<d, e>> \in B, <<e, f>> \in B
      PROVE  <<d, f>> \in B
  <2>1. /\ sc(d) \in Nat /\ sc(e) \in Nat /\ sc(f) \in Nat
        /\ at(d) \in Nat /\ at(e) \in Nat /\ at(f) \in Nat
    BY <1>1, <1>2
  <2>2. sc(d) > sc(e) \/ (sc(d) = sc(e) /\ at(d) < at(e))
    BY <1>3, <1>6
  <2>3. sc(e) > sc(f) \/ (sc(e) = sc(f) /\ at(e) < at(f))
    BY <1>3, <1>6
  <2>4. sc(d) > sc(f) \/ (sc(d) = sc(f) /\ at(d) < at(f))
    BY <2>1, <2>2, <2>3
  <2> QED  BY <1>3, <2>4
<1> QED  BY <1>4, <1>5, <1>6 DEF LinearOrder, B

\* Nor have the unused dimensions.
LEMMA RestLinear ==
  ASSUME NEW N \in Nat, NEW order, IsOrder(order, N), NEW unused \in SUBSET (1 .. N)
  PROVE  LinearOrder(RestPairs(unused, order), unused)
<1> DEFINE B == RestPairs(unused, order)
           at(d) == PlaceOf(d, order)
<1>1. \A d \in unused : at(d) \in Nat /\ order[at(d)] = d
  BY PlaceIs
<1>2. \A d, e \in unused : <<d, e>> \in B <=> at(d) < at(e)
  BY RestPairIs
<1> HIDE DEF B, at
<1>3. \A d \in unused : <<d, d>> \notin B
  BY <1>1, <1>2
<1>4. ASSUME NEW d \in unused, NEW e \in unused, d # e PROVE <<d, e>> \in B \/ <<e, d>> \in B
  <2>1. at(d) # at(e) /\ at(d) \in Nat /\ at(e) \in Nat
    BY <1>1, <1>4
  <2> QED  BY <1>2, <2>1
<1>5. \A d, e, f \in unused : <<d, e>> \in B /\ <<e, f>> \in B => <<d, f>> \in B
  BY <1>1, <1>2
<1> QED  BY <1>3, <1>4, <1>5 DEF LinearOrder, B

\* out is the one list behind the other.
IsJoin(out, best, rest, N, U) ==
  /\ U \in 0 .. N /\ out \in [1 .. N -> 1 .. N] /\ Len(out) = N /\ Len(best) = U
  /\ \A k \in 1 .. U : out[k] = best[k]
  /\ \A k \in 1 .. N - U : out[U + k] = rest[k]

\* The numbers up to N in two parts, of U and of V members.
IsSplit(used, unused, N, U, V) ==
  /\ used \in SUBSET (1 .. N) /\ unused = (1 .. N) \ used
  /\ U = Cardinality(used) /\ V = Cardinality(unused)

\* Two sorted parts one behind the other are a list of all of them.
LEMMA JoinIs ==
  ASSUME NEW N \in Nat, NEW used, NEW unused, NEW U, NEW V, IsSplit(used, unused, N, U, V),
         NEW before, NEW best, Arranged(best, used, before, U),
         NEW after, NEW rest, Arranged(rest, unused, after, V)
  PROVE  U \in Nat /\ V = N - U /\ IsJoin(best \o rest, best, rest, N, U)
<1> USE DEF IsSplit
<1>1. IsFiniteSet(1 .. N) /\ Cardinality(1 .. N) = N
  BY FS_Interval
<1>2. /\ IsFiniteSet(used) /\ IsFiniteSet(unused) /\ used \cup unused = 1 .. N
      /\ used \cap unused = {}
  BY <1>1, FS_Subset
<1>3. U \in Nat /\ V \in Nat
  BY <1>2, FS_CardinalityType
<1>4. Cardinality(used \cap unused) = 0
  BY <1>2, FS_EmptySet
<1>5. N = U + V - 0
  BY <1>1, <1>2, <1>4, FS_Union
<1>6. V = N - U /\ U \in 0 .. N
  BY <1>3, <1>5
<1>7. best \in [1 .. U -> 1 .. N] /\ rest \in [1 .. V -> 1 .. N]
  BY DEF Arranged
<1>8. best \in Seq(1 .. N) /\ rest \in Seq(1 .. N) /\ Len(best) = U /\ Len(rest) = V
  <2>1. best \in Seq(1 .. N) /\ rest \in Seq(1 .. N)
    <3>1. Seq(1 .. N) = UNION {[1 .. n -> 1 .. N] : n \in Nat}
      BY SeqDef
    <3> QED  BY <1>3, <1>7, <3>1
  <2>2. DOMAIN best = 1 .. U /\ DOMAIN rest = 1 .. V
    BY <1>7
  <2>3. /\ DOMAIN best = 1 .. Len(best) /\ Len(best) \in Nat
        /\ DOMAIN rest = 1 .. Len(rest) /\ Len(rest) \in Nat
    BY <2>1
  <2>4. Len(best) = U
    BY <1>3, <2>2, <2>3
  <2>5. Len(rest) = V
    BY <1>3, <2>2, <2>3
  <2> QED  BY <2>1, <2>4, <2>5
<1>9. /\ best \o rest \in Seq(1 .. N) /\ Len(best \o rest) = U + V
      /\ \A k \in 1 .. U : (best \o rest)[k] = best[k]
      /\ \A k \in 1 .. V : (best \o rest)[U + k] = rest[k]
  <2>1. best \o rest \in Seq(1 .. N) /\ Len(best \o rest) = U + V
    BY <1>8
  <2>2. ASSUME NEW k \in 1 .. U PROVE (best \o rest)[k] = best[k]
    BY <1>3, <1>8
  <2>3. ASSUME NEW k \in 1 .. V PROVE (best \o rest)[U + k] = rest[k]
    BY <1>3, <1>8
  <2> QED  BY <2>1, <2>2, <2>3
<1>10. best \o rest \in [1 .. N -> 1 .. N]
  <2>1. U + V = N
    BY <1>3, <1>5
  <2>2. PICK join : join = best \o rest
    OBVIOUS
  <2>3. join \in Seq(1 .. N) /\ Len(join) = N
    BY <1>9, <2>1, <2>2
  <2>4. join \in [1 .. N -> 1 .. N]
    BY <2>3
  <2> QED  BY <2>2, <2>4
<1>11. Len(best \o rest) = N
  <2>1. U + V = N
    BY <1>3, <1>5
  <2> QED  BY <1>9, <2>1
<1>12. \A k \in 1 .. N - U : (best \o rest)[U + k] = rest[k]
  BY <1>6, <1>9
<1> QED  BY <1>3, <1>6, <1>8, <1>9, <1>10, <1>11, <1>12 DEF IsJoin

\* A place is in the one list or in the other.
LEMMA PlaceSplit ==
  ASSUME NEW N \in Nat, NEW U \in 0 .. N, NEW i \in 1 .. N
  PROVE  i \in 1 .. U \/ \E k \in 1 .. N - U : i = U + k
<1>1. CASE i <= U
  BY <1>1
<1>2. CASE i > U
  <2>1. i - U \in 1 .. N - U /\ i = U + (i - U)
    BY <1>2
  <2> QED  BY <2>1
<1> QED  BY <1>1, <1>2

\* Where dimension d is in the joined list, and what it has to do with the
\* two lists.
LEMMA JoinOrders ==
  ASSUME NEW N \in Nat, NEW used, NEW unused, NEW U, NEW V, IsSplit(used, unused, N, U, V),
         NEW before, NEW best, Arranged(best, used, before, U),
         NEW after, NEW rest, Arranged(rest, unused, after, N - U),
         NEW out, IsJoin(out, best, rest, N, U)
  PROVE  /\ IsOrder(out, N)
         /\ {out[i] : i \in 1 .. U} = used
         /\ \A i, j \in 1 .. N : i < j =>
              \/ out[i] \in used /\ out[j] \in used /\ <<out[i], out[j]>> \in before
              \/ out[i] \in unused /\ out[j] \in unused /\ <<out[i], out[j]>> \in after
              \/ out[i] \in used /\ out[j] \in unused
<1> USE DEF IsSplit
<1>1. /\ U \in 0 .. N /\ U \in Nat /\ out \in [1 .. N -> 1 .. N]
      /\ \A k \in 1 .. U : out[k] = best[k]
      /\ \A k \in 1 .. N - U : out[U + k] = rest[k]
  BY DEF IsJoin
<1>2. /\ best \in [1 .. U -> used]
      /\ \A x \in used : \E k \in 1 .. U : best[k] = x
      /\ \A k, l \in 1 .. U : k < l => <<best[k], best[l]>> \in before
      /\ \A k, l \in 1 .. U : best[k] = best[l] => k = l
  BY DEF Arranged
<1>3. /\ rest \in [1 .. N - U -> unused]
      /\ \A k, l \in 1 .. N - U : k < l => <<rest[k], rest[l]>> \in after
      /\ \A k, l \in 1 .. N - U : rest[k] = rest[l] => k = l
  BY DEF Arranged
<1>4. \A i \in 1 .. U : out[i] = best[i] /\ out[i] \in used
  BY <1>1, <1>2
<1>5. \A k \in 1 .. N - U : out[U + k] = rest[k] /\ out[U + k] \in unused
  BY <1>1, <1>3
<1>6. {out[i] : i \in 1 .. U} = used
  <2>1. \A x \in used : \E i \in 1 .. U : out[i] = x
    BY <1>2, <1>4
  <2> QED  BY <1>4, <2>1
<1>7. ASSUME NEW i \in 1 .. N, NEW j \in 1 .. N, i < j
      PROVE  \/ out[i] \in used /\ out[j] \in used /\ <<out[i], out[j]>> \in before
             \/ out[i] \in unused /\ out[j] \in unused /\ <<out[i], out[j]>> \in after
             \/ out[i] \in used /\ out[j] \in unused
  <2>1. CASE i \in 1 .. U /\ j \in 1 .. U
    BY <1>2, <1>4, <1>7, <2>1
  <2>2. CASE i \in 1 .. U /\ \E k \in 1 .. N - U : j = U + k
    BY <1>4, <1>5, <2>2
  <2>3. ASSUME NEW k \in 1 .. N - U, i = U + k PROVE \E l \in 1 .. N - U : j = U + l /\ k < l
    <3>1. U \in Nat /\ k \in Nat /\ j \in Nat /\ j <= N /\ U + k < j /\ 1 <= k
      BY <1>1, <1>7, <2>3
    <3>2. j - U \in Nat /\ 1 <= j - U /\ j - U <= N - U /\ j = U + (j - U) /\ k < j - U
      BY <3>1
    <3>3. j - U \in 1 .. N - U
      BY <1>1, <3>2
    <3> QED  BY <3>2, <3>3
  <2>4. CASE \E k \in 1 .. N - U : i = U + k
    <3>1. PICK k \in 1 .. N - U : i = U + k
      BY <2>4
    <3>2. PICK l \in 1 .. N - U : j = U + l /\ k < l
      BY <2>3, <3>1
    <3> QED  BY <1>3, <1>5, <3>1, <3>2
  <2> QED  BY <1>1, <2>1, <2>2, <2>4, PlaceSplit
<1>8. ASSUME NEW i \in 1 .. N, NEW j \in 1 .. N, out[i] = out[j] PROVE i = j
  <2>1. CASE i \in 1 .. U /\ j \in 1 .. U
    BY <1>2, <1>4, <1>8, <2>1
  <2>2. CASE i \in 1 .. U /\ \E k \in 1 .. N - U : j = U + k
    BY <1>4, <1>5, <1>8, <2>2
  <2>3. CASE j \in 1 .. U /\ \E k \in 1 .. N - U : i = U + k
    BY <1>4, <1>5, <1>8, <2>3
  <2>4. CASE (\E k \in 1 .. N - U : i = U + k) /\ (\E l \in 1 .. N - U : j = U + l)
    <3>1. PICK k \in 1 .. N - U : i = U + k
      BY <2>4
    <3>2. PICK l \in 1 .. N - U : j = U + l
      BY <2>4
    <3> QED  BY <1>3, <1>5, <1>8, <3>1, <3>2
  <2> QED  BY <1>1, <2>1, <2>2, <2>3, <2>4, PlaceSplit
<1> QED  BY <1>1, <1>6, <1>7, <1>8 DEF IsOrder

\* A list that follows the order of the pairs has the pairs of that order.
LEMMA SameBest ==
  ASSUME NEW N \in Nat, NEW rules, AreRules(rules, N), NEW order, IsOrder(order, N),
         NEW used \in SUBSET (1 .. N), NEW out, IsOrder(out, N),
         \A i, j \in 1 .. N : i < j /\ out[i] \in used /\ out[j] \in used =>
            <<out[i], out[j]>> \in BestPairs(rules, used, order)
  PROVE  BestPairs(rules, used, out) = BestPairs(rules, used, order)
<1> DEFINE B == BestPairs(rules, used, order)
           A == BestPairs(rules, used, out)
           sc(d) == get_dimension_sel_score(rules, d)
           at(d) == PlaceOf(d, order)
           to(d) == PlaceOf(d, out)
<1>1. A \in SUBSET (used \X used) /\ B \in SUBSET (used \X used)
  BY DEF BestPairs
<1>2. \A d \in used : sc(d) \in Nat
  BY ScoreOfDimension
<1>3. \A d \in used : to(d) \in 1 .. N /\ out[to(d)] = d
  BY PlaceIs
<1>4. \A d, e \in used : <<d, e>> \in B <=> sc(d) > sc(e) \/ (sc(d) = sc(e) /\ at(d) < at(e))
  BY BestPairIs DEF Precedes
<1>5. \A d, e \in used : <<d, e>> \in A <=> sc(d) > sc(e) \/ (sc(d) = sc(e) /\ to(d) < to(e))
  BY BestPairIs DEF Precedes
<1>6. LinearOrder(B, used)
  BY BestLinear
<1> HIDE DEF A, B, sc, at, to
<1>7. \A d, e \in used : to(d) < to(e) => <<d, e>> \in B
  BY <1>3 DEF B
<1>8. \A d, e \in used : <<d, e>> \in B => <<e, d>> \notin B
  BY <1>6 DEF LinearOrder
<1>9. ASSUME NEW d \in used, NEW e \in used PROVE <<d, e>> \in A <=> <<d, e>> \in B
  <2>1. CASE <<d, e>> \in A
    BY <1>4, <1>5, <1>7, <2>1
  <2>2. CASE <<d, e>> \in B
    <3>1. d # e /\ <<e, d>> \notin B
      BY <1>8, <2>2
    <3>2. ~(to(e) < to(d)) /\ to(d) # to(e)
      BY <1>3, <1>7, <3>1
    <3>3. to(d) \in 1 .. N /\ to(e) \in 1 .. N
      BY <1>3
    <3>4. to(d) < to(e)
      BY <3>2, <3>3
    <3>5. sc(d) > sc(e) \/ sc(d) = sc(e)
      BY <1>4, <2>2
    <3> QED  BY <1>5, <2>2, <3>4, <3>5
  <2> QED  BY <2>1, <2>2
<1>10. A = B
  <2>1. ASSUME NEW p \in used \X used PROVE p \in A <=> p \in B
    <3>1. p = <<p[1], p[2]>> /\ p[1] \in used /\ p[2] \in used
      OBVIOUS
    <3> QED  BY <1>9, <3>1
  <2> QED  BY <1>1, <2>1
<1> QED  BY <1>10 DEF A, B

\* The same for the dimensions no rule uses.
LEMMA SameRest ==
  ASSUME NEW N \in Nat, NEW order, IsOrder(order, N),
         NEW unused \in SUBSET (1 .. N), NEW out, IsOrder(out, N),
         \A i, j \in 1 .. N : i < j /\ out[i] \in unused /\ out[j] \in unused =>
            <<out[i], out[j]>> \in RestPairs(unused, order)
  PROVE  RestPairs(unused, out) = RestPairs(unused, order)
<1> DEFINE B == RestPairs(unused, order)
           A == RestPairs(unused, out)
           to(d) == PlaceOf(d, out)
<1>1. A \in SUBSET (unused \X unused) /\ B \in SUBSET (unused \X unused)
  BY DEF RestPairs
<1>2. \A d \in unused : to(d) \in 1 .. N /\ out[to(d)] = d
  BY PlaceIs
<1>3. \A d, e \in unused : <<d, e>> \in A <=> to(d) < to(e)
  BY RestPairIs
<1>4. LinearOrder(B, unused)
  BY RestLinear
<1> HIDE DEF A, B, to
<1>5. \A d, e \in unused : to(d) < to(e) => <<d, e>> \in B
  BY <1>2 DEF B
<1>6. \A d, e \in unused : <<d, e>> \in B => <<e, d>> \notin B
  BY <1>4 DEF LinearOrder
<1>7. ASSUME NEW d \in unused, NEW e \in unused PROVE <<d, e>> \in A <=> <<d, e>> \in B
  <2>1. CASE <<d, e>> \in A
    BY <1>3, <1>5, <2>1
  <2>2. CASE <<d, e>> \in B
    <3>1. d # e /\ <<e, d>> \notin B
      BY <1>6, <2>2
    <3>2. ~(to(e) < to(d)) /\ to(d) # to(e)
      BY <1>2, <1>5, <3>1
    <3>3. to(d) \in 1 .. N /\ to(e) \in 1 .. N
      BY <1>2
    <3>4. to(d) < to(e)
      BY <3>2, <3>3
    <3> QED  BY <1>3, <2>2, <3>4
  <2> QED  BY <2>1, <2>2
<1>8. A = B
  <2>1. ASSUME NEW p \in unused \X unused PROVE p \in A <=> p \in B
    <3>1. p = <<p[1], p[2]>> /\ p[1] \in unused /\ p[2] \in unused
      OBVIOUS
    <3> QED  BY <1>7, <3>1
  <2> QED  BY <1>1, <2>1
<1> QED  BY <1>8 DEF A, B

\* What a resolved order is.
IsResolved(res, rules, order, N) ==
  /\ IsOrder(res.order, N) /\ Len(res.order) = N
  /\ {res.order[i] : i \in 1 .. res.used_dim_cnt} = used_dims(rules, 1 .. N)
  /\ \A i, j \in 1 .. N : i < j =>
       LET d == res.order[i]
           e == res.order[j]
           used == used_dims(rules, 1 .. N)
       IN  \/ d \in used /\ e \in used /\ Precedes(rules, order, d, e)
           \/ d \notin used /\ e \notin used /\ PlaceOf(d, order) < PlaceOf(e, order)
           \/ d \in used /\ e \notin used
  /\ resolve(rules, res.order) = res

\* resolve gives one, for any number of dimensions and rules.
LEMMA ResolveGives ==
  ASSUME NEW N \in Nat, NEW rules, AreRules(rules, N), NEW order, IsOrder(order, N)
  PROVE  IsResolved(resolve(rules, order), rules, order, N)
<1>1. PICK used : used = used_dims(rules, 1 .. N)
  OBVIOUS
<1>2. PICK unused : unused = (1 .. N) \ used
  OBVIOUS
<1>3. used \in SUBSET (1 .. N) /\ unused \in SUBSET (1 .. N)
  BY <1>1, <1>2 DEF used_dims
<1>4. PICK before : before = BestPairs(rules, used, order)
  OBVIOUS
<1>5. PICK after : after = RestPairs(unused, order)
  OBVIOUS
<1>6. PICK best : best = Arrange(used, before)
  OBVIOUS
<1>7. PICK rest : rest = Arrange(unused, after)
  OBVIOUS
<1>8. PICK U : U = Cardinality(used)
  OBVIOUS
<1>9. IsFiniteSet(used) /\ IsFiniteSet(unused)
  <2>1. IsFiniteSet(1 .. N)
    BY FS_Interval
  <2> QED  BY <1>3, <2>1, FS_Subset
<1>10. LinearOrder(before, used) /\ LinearOrder(after, unused)
  BY <1>3, <1>4, <1>5, BestLinear, RestLinear
<1>11. Arranged(best, used, before, U)
  BY <1>6, <1>8, <1>9, <1>10, ArrangeIs
<1>12. PICK V : V = Cardinality(unused)
  OBVIOUS
<1>13. Arranged(rest, unused, after, V)
  BY <1>7, <1>9, <1>10, <1>12, ArrangeIs
<1>14. PICK out : out = best \o rest
  OBVIOUS
<1>14a. IsSplit(used, unused, N, U, V)
  BY <1>2, <1>3, <1>8, <1>12 DEF IsSplit
<1>15. U \in Nat /\ V = N - U /\ IsJoin(out, best, rest, N, U)
  BY <1>11, <1>13, <1>14, <1>14a, JoinIs
<1>16. Arranged(rest, unused, after, N - U)
  BY <1>13, <1>15
<1>17. /\ IsOrder(out, N)
       /\ {out[i] : i \in 1 .. U} = used
       /\ \A i, j \in 1 .. N : i < j =>
            \/ out[i] \in used /\ out[j] \in used /\ <<out[i], out[j]>> \in before
            \/ out[i] \in unused /\ out[j] \in unused /\ <<out[i], out[j]>> \in after
            \/ out[i] \in used /\ out[j] \in unused
  BY <1>11, <1>15, <1>16, <1>14a, JoinOrders
<1>18. DOMAIN order = 1 .. N /\ DOMAIN out = 1 .. N /\ Len(out) = N /\ Len(best) = U
  BY <1>15, <1>17 DEF IsOrder, IsJoin
<1>19. resolve(rules, order) = [order |-> out, used_dim_cnt |-> U]
  <2>1. used = used_dims(rules, DOMAIN order) /\ unused = DOMAIN order \ used
    BY <1>1, <1>2, <1>18
  <2>2. resolve(rules, order) = [order |-> best \o rest, used_dim_cnt |-> Len(best)]
    <3>1. IsChoice(rules, order, used, unused, best, rest)
      BY <1>4, <1>5, <1>6, <1>7, <2>1 DEF IsChoice
    <3> QED  BY <3>1, ResolveIs
  <2> QED  BY <1>14, <1>18, <2>2
<1>20. BestPairs(rules, used, out) = before
  <2>1. \A i, j \in 1 .. N : i < j /\ out[i] \in used /\ out[j] \in used =>
          <<out[i], out[j]>> \in BestPairs(rules, used, order)
    BY <1>2, <1>4, <1>17
  <2> QED  BY <1>3, <1>4, <1>17, <2>1, SameBest
<1>21. RestPairs(unused, out) = after
  <2>1. \A i, j \in 1 .. N : i < j /\ out[i] \in unused /\ out[j] \in unused =>
          <<out[i], out[j]>> \in RestPairs(unused, order)
    BY <1>2, <1>5, <1>17
  <2> QED  BY <1>3, <1>5, <1>17, <2>1, SameRest
<1>22. resolve(rules, out) = [order |-> out, used_dim_cnt |-> U]
  <2>1. used = used_dims(rules, DOMAIN out) /\ unused = DOMAIN out \ used
    BY <1>1, <1>2, <1>18
  <2>2. /\ best = Arrange(used, BestPairs(rules, used, out))
        /\ rest = Arrange(unused, RestPairs(unused, out))
    BY <1>6, <1>7, <1>20, <1>21
  <2>3. resolve(rules, out) = [order |-> best \o rest, used_dim_cnt |-> Len(best)]
    <3>1. IsChoice(rules, out, used, unused, best, rest)
      BY <2>1, <2>2 DEF IsChoice
    <3> QED  BY <3>1, ResolveIs
  <2> QED  BY <1>14, <1>18, <2>3
<1>23. ASSUME NEW i \in 1 .. N, NEW j \in 1 .. N, i < j
       PROVE  \/ out[i] \in used /\ out[j] \in used /\ Precedes(rules, order, out[i], out[j])
              \/ /\ out[i] \notin used /\ out[j] \notin used
                 /\ PlaceOf(out[i], order) < PlaceOf(out[j], order)
              \/ out[i] \in used /\ out[j] \notin used
  <2>1. CASE out[i] \in used /\ out[j] \in used /\ <<out[i], out[j]>> \in before
    BY <1>4, <2>1, BestPairIs
  <2>2. CASE out[i] \in unused /\ out[j] \in unused /\ <<out[i], out[j]>> \in after
    BY <1>2, <1>5, <2>2, RestPairIs
  <2>3. CASE out[i] \in used /\ out[j] \in unused
    BY <1>2, <2>3
  <2> QED  BY <1>17, <1>23, <2>1, <2>2, <2>3
<1>24. PICK res : res = resolve(rules, order)
  OBVIOUS
<1>25. res.order = out /\ res.used_dim_cnt = U /\ resolve(rules, out) = res
  BY <1>19, <1>22, <1>24
<1>26. IsResolved(res, rules, order, N)
  BY <1>1, <1>17, <1>18, <1>23, <1>25 DEF IsResolved
<1> QED  BY <1>26, <1>24

\* An input of the resolver: a tree's rules and the order it has.
TreeInput == in.kind = "tree" => AreRules(in.rules, MaxDims) /\ IsOrder(in.order, MaxDims)

\* Every input that is picked is one.
LEMMA TreeInputKept == Spec => []TreeInput
<1>1. Init => TreeInput
  BY DEF Init, TreeInput
<1>2. TreeInput /\ [Next]_in => TreeInput'
  <2> SUFFICES ASSUME TreeInput, [Next]_in, in'.kind = "tree"
               PROVE  AreRules(in'.rules, MaxDims) /\ IsOrder(in'.order, MaxDims)
    BY DEF TreeInput
  <2>1. CASE UNCHANGED in
    BY <2>1 DEF TreeInput
  <2>2. CASE PickArray
    BY <2>2 DEF PickArray, Pick
  <2>3. CASE PickIntervals
    BY <2>3 DEF PickIntervals, Pick
  <2>4. CASE PickTree
    <3>1. PICK rules \in Seqs([Dims -> DimRanges], 1, MaxTreeRules), order \in SetToSeqs(Dims) :
            Pick([kind |-> "tree", rules |-> rules, order |-> order])
      BY <2>4 DEF PickTree
    <3>2. in'.rules = rules /\ in'.order = order
      BY <3>1 DEF Pick
    <3>3. DimRanges \subseteq Range1d
      BY MaxvAssumption, ValuesAssumption DEF DimRanges, Mk, Wildcard, Range1d, Values
    <3>4. AreRules(rules, MaxDims)
      <4>1. PICK m \in 1 .. MaxTreeRules : rules \in [1 .. m -> [Dims -> DimRanges]]
        BY DEF Seqs
      <4>2. m \in Nat \ {0}
        BY BoundsAssumption
      <4>3. /\ DOMAIN rules = 1 .. m
            /\ \A i \in 1 .. m : \A d \in 1 .. MaxDims : rules[i][d] \in Range1d
        BY <3>3, <4>1 DEF Dims
      <4> QED  BY <4>2, <4>3 DEF AreRules
    <3>5. IsOrder(order, MaxDims)
      <4>1. Cardinality(1 .. MaxDims) = MaxDims
        BY BoundsAssumption, FS_Interval
      <4> QED  BY <4>1 DEF SetToSeqs, Dims, IsOrder
    <3> QED  BY <3>2, <3>4, <3>5
  <2>5. CASE PickRange
    BY <2>5 DEF PickRange, Pick
  <2>6. CASE PickPrefix
    BY <2>6 DEF PickPrefix, Pick
  <2>7. CASE PickRule
    BY <2>7 DEF PickRule, Pick
  <2>8. CASE PickFile
    BY <2>8 DEF PickFile, Pick
  <2>9. CASE PickAnswers
    BY <2>9 DEF PickAnswers, Pick
  <2> QED  BY <2>1, <2>2, <2>3, <2>4, <2>5, <2>6, <2>7, <2>8, <2>9 DEF Next
<1> QED  BY <1>1, <1>2, PTL DEF Spec

\* On every such input resolve is stable.
LEMMA ResolveOfInput == TreeInput => ResolveIsStable
<1> SUFFICES ASSUME TreeInput, in.kind = "tree" PROVE ResolveIsStable
  BY DEF ResolveIsStable
<1>1. PICK rules, order : rules = in.rules /\ order = in.order
  OBVIOUS
<1>2. PICK N : N = MaxDims
  OBVIOUS
<1>3. N \in Nat /\ AreRules(rules, N) /\ IsOrder(order, N)
  BY <1>1, <1>2, BoundsAssumption DEF TreeInput
<1>4. PICK res : res = resolve(rules, order)
  OBVIOUS
<1>5. IsResolved(res, rules, order, N)
  BY <1>3, <1>4, ResolveGives
<1>6. PICK out : out = res.order
  OBVIOUS
<1>7. PICK used : used = used_dims(rules, 1 .. N)
  OBVIOUS
<1>8. PICK score : score = [d \in 1 .. N |-> IF d \in used THEN get_dimension_sel_score(rules, d)
                                            ELSE 0]
  OBVIOUS
<1>9. /\ IsOrder(out, N) /\ Len(out) = N
      /\ {out[i] : i \in 1 .. res.used_dim_cnt} = used
      /\ resolve(rules, out) = res
  BY <1>5, <1>6, <1>7 DEF IsResolved
<1>10. DOMAIN out = 1 .. N /\ out \in [1 .. N -> 1 .. N]
  BY <1>9 DEF IsOrder
<1>11. {out[i] : i \in DOMAIN out} = 1 .. N
  <2>1. \A i, j \in 1 .. N : out[i] = out[j] => i = j
    BY <1>9 DEF IsOrder
  <2>2. {out[i] : i \in 1 .. N} = 1 .. N
    BY <1>3, <1>10, <2>1, InjectionOnto
  <2> QED  BY <1>10, <2>2
<1>12. Cardinality(1 .. N) = N
  BY <1>3, FS_Interval
<1>13. ASSUME NEW i \in 1 .. N, NEW j \in 1 .. N, i < j
       PROVE  \/ score[out[i]] > score[out[j]]
              \/ score[out[i]] = score[out[j]] /\ PlaceOf(out[i], order) < PlaceOf(out[j], order)
  <2>1. PICK d \in 1 .. N : d = out[i]
    BY <1>10
  <2>2. PICK e \in 1 .. N : e = out[j]
    BY <1>10
  <2>3. \/ d \in used /\ e \in used /\ Precedes(rules, order, d, e)
        \/ d \notin used /\ e \notin used /\ PlaceOf(d, order) < PlaceOf(e, order)
        \/ d \in used /\ e \notin used
    BY <1>5, <1>6, <1>7, <1>13, <2>1, <2>2 DEF IsResolved
  <2>4. score[d] = (IF d \in used THEN get_dimension_sel_score(rules, d) ELSE 0)
    BY <1>8
  <2>5. score[e] = (IF e \in used THEN get_dimension_sel_score(rules, e) ELSE 0)
    BY <1>8
  <2>6. get_dimension_sel_score(rules, d) \in Nat /\ get_dimension_sel_score(rules, d) > 0
    BY <1>3, ScoreOfDimension
  <2>7. CASE d \in used /\ e \in used /\ Precedes(rules, order, d, e)
    BY <2>1, <2>2, <2>4, <2>5, <2>7 DEF Precedes
  <2>8. CASE d \notin used /\ e \notin used /\ PlaceOf(d, order) < PlaceOf(e, order)
    BY <2>1, <2>2, <2>4, <2>5, <2>8
  <2>9. CASE d \in used /\ e \notin used
    BY <2>1, <2>2, <2>4, <2>5, <2>6, <2>9
  <2> QED  BY <2>3, <2>7, <2>8, <2>9
<1>14. Dims = 1 .. N
  BY <1>2 DEF Dims
<1> HIDE DEF Dims
<1>15. \A i, j \in DOMAIN out : i < j =>
         \/ score[out[i]] > score[out[j]]
         \/ score[out[i]] = score[out[j]] /\ PlaceOf(out[i], order) < PlaceOf(out[j], order)
  BY <1>10, <1>13
<1> QED
  BY <1>1, <1>4, <1>6, <1>7, <1>8, <1>9, <1>11, <1>12, <1>14, <1>15 DEF ResolveIsStable

\* GreedyDimensionOrderResolver::resolve for any number of dimensions and
\* rules: a permutation with the used dimensions first, by score and then by
\* their old place, and a fixed point, so that an update of the order that
\* follows another one rebuilds nothing.
THEOREM ResolveCorrect == Spec => []ResolveIsStable
BY TreeInputKept, ResolveOfInput, PTL

=============================================================================

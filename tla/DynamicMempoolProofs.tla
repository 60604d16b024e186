------------------------ MODULE DynamicMempoolProofs ------------------------
(***************************************************************************)
(* For every ITEM_CNT: the free list of the pool is well formed, size()    *)
(* counts the allocated objects of a pool that is not exhausted, and the   *)
(* pool implements NodePool.                                               *)
(***************************************************************************)
EXTENDS DynamicMempool, FiniteSetTheorems, TLAPS

USE ItemCntAssumption, NullAssumption

(* The elements of FreeLists are the sequences of at most ITEM_CNT items. *)
LEMMA FreeListsAreSequences ==
    ASSUME NEW s \in FreeLists
    PROVE  /\ s \in Seq(Items)
           /\ Len(s) \in 0..ITEM_CNT
           /\ \A k \in 1..Len(s) : s[k] \in Items
<1>1. PICK n \in 0..ITEM_CNT : s \in [1..n -> Items]
  BY DEF FreeLists
<1>2. s \in Seq(Items) /\ Len(s) = n
  BY <1>1
<1> QED BY <1>1, <1>2

(* A function on 1..n with n at most ITEM_CNT is one of FreeLists. *)
LEMMA FreeListsIntro ==
    ASSUME NEW n \in 0..ITEM_CNT, NEW s \in [1..n -> Items]
    PROVE  s \in FreeLists /\ Len(s) = n
<1>1. s \in FreeLists
  BY DEF FreeLists
<1>2. Len(s) = n
  OBVIOUS
<1> QED BY <1>1, <1>2

(* There are as many items as the constructor was asked for. *)
LEMMA ItemsCardinality == IsFiniteSet(Items) /\ Cardinality(Items) = ITEM_CNT
<1>1. IsFiniteSet(0..(ITEM_CNT - 1))
       /\ Cardinality(0..(ITEM_CNT - 1)) = IF 0 > ITEM_CNT - 1 THEN 0 ELSE (ITEM_CNT - 1) - 0 + 1
  BY FS_Interval
<1> QED BY <1>1 DEF Items

(* A list of free objects and the set of owned ones together are all. *)
LEMMA FreeListLength ==
    ASSUME owned \in SUBSET Items, NEW s \in FreeLists, IsFreeList(s)
    PROVE  Len(s) = ITEM_CNT - Cardinality(owned)
<1>1. s \in Seq(Items) /\ Len(s) \in Nat /\ \A k \in 1..Len(s) : s[k] \in Items
  BY FreeListsAreSequences
<1> DEFINE free == Items \ owned
           f == [k \in 1..Len(s) |-> s[k]]
<1>2. f \in Bijection(1..Len(s), free)
  <2>1. f \in [1..Len(s) -> free]
    BY <1>1 DEF IsFreeList
  <2>2. \A a, b \in 1..Len(s) : f[a] = f[b] => a = b
    BY DEF IsFreeList
  <2>3. \A t \in free : \E a \in 1..Len(s) : f[a] = t
    BY DEF IsFreeList
  <2> QED BY <2>1, <2>2, <2>3 DEF Bijection, Injection, Surjection, IsInjective
<1>3. IsFiniteSet(1..Len(s)) /\ Cardinality(1..Len(s)) = Len(s)
  BY <1>1, FS_Interval
<1>4. Cardinality(free) = Len(s)
  <2>1. ExistsBijection(1..Len(s), free)
    BY <1>2 DEF ExistsBijection
  <2>2. IsFiniteSet(free)
    BY ItemsCardinality, FS_Subset
  <2> QED BY <1>3, <2>1, <2>2, FS_Bijection
<1>5. Cardinality(free) = Cardinality(Items) - Cardinality(Items \cap owned)
  BY ItemsCardinality, FS_Difference
<1>6. Items \cap owned = owned
  OBVIOUS
<1>7. IsFiniteSet(owned) /\ Cardinality(owned) \in Nat
  BY ItemsCardinality, FS_Subset, FS_CardinalityType
<1> QED BY <1>4, <1>5, <1>6, <1>7, ItemsCardinality, <1>1

-----------------------------------------------------------------------------
(* While size() walks, its cursor stands at element unused + 1 of the list *)
(* of free objects, or behind its end.                                     *)
WalkInv ==
    outcome = "running" =>
        \E s \in FreeLists :
            /\ IsFreeList(s)
            /\ unused \in 0..Len(s)
            /\ i = IF unused = Len(s) THEN NULL ELSE s[unused + 1]

(* Only a call that has ended has returned a number. *)
ReturnInv == outcome = "running" => size_ret = NULL

(* The inductive invariant. *)
IInv ==
    /\ TypeOK
    /\ FreeListWellFormed
    /\ WalkInv
    /\ ReturnInv
    /\ SizeCountsOwned

(* The constructor of the pool establishes the invariant: the list of all  *)
(* items in the order of their indexes.                                    *)
LEMMA InitIInv == Init => IInv
<1> SUFFICES ASSUME Init PROVE IInv
  OBVIOUS
<1>1. TypeOK
  BY DEF Init, initial_links, TypeOK, Items, Outcomes
<1>2. FreeListWellFormed
  <2> DEFINE s == [k \in 1..ITEM_CNT |-> k - 1]
  <2>1. s \in FreeLists /\ Len(s) = ITEM_CNT
    <3>1. s \in [1..ITEM_CNT -> Items]
      BY DEF Items
    <3> QED BY <3>1, FreeListsIntro
  <2> HIDE DEF s
  <2>2. \A k \in 1..ITEM_CNT : s[k] = k - 1
    BY DEF s
  <2>3. {s[k] : k \in 1..Len(s)} = Items \ owned
    <3>1. ASSUME NEW x \in Items PROVE x + 1 \in 1..ITEM_CNT /\ s[x + 1] = x
      BY <2>2 DEF Items
    <3> QED BY <2>1, <2>2, <3>1 DEF Items, Init, initial_links
  <2>4. m_first_free = IF Len(s) = 0 THEN NULL ELSE s[1]
    BY <2>1, <2>2 DEF Init, initial_links
  <2>5. ASSUME NEW k \in 1..Len(s)
        PROVE  next_free[s[k]] = IF k = Len(s) THEN NULL ELSE s[k + 1]
    BY <2>1, <2>2 DEF Init, initial_links, Items
  <2>6. \A k, l \in 1..Len(s) : s[k] = s[l] => k = l
    BY <2>1, <2>2
  <2>7. IsFreeList(s)
    BY <2>3, <2>4, <2>5, <2>6 DEF IsFreeList
  <2> QED BY <2>1, <2>7 DEF FreeListWellFormed, Init
<1>3. WalkInv /\ ReturnInv /\ SizeCountsOwned
  BY DEF Init, WalkInv, ReturnInv, SizeCountsOwned
<1> QED BY <1>1, <1>2, <1>3 DEF IInv

(* Steps that leave next_free, m_first_free and owned alone keep the list. *)
LEMMA PoolUnchanged ==
    ASSUME UNCHANGED pool
    PROVE  /\ \A s : IsFreeList(s)' <=> IsFreeList(s)
           /\ FreeListWellFormed => FreeListWellFormed'
BY DEF pool, IsFreeList, FreeListWellFormed

(* get() leaves the rest of the list. *)
LEMMA GetKeepsList ==
    ASSUME TypeOK, FreeListWellFormed, get
    PROVE  FreeListWellFormed'
<1> PICK s \in FreeLists : IsFreeList(s)
  BY DEF FreeListWellFormed
<1>1. /\ Len(s) \in 0..ITEM_CNT
      /\ \A k \in 1..Len(s) : s[k] \in Items
  BY FreeListsAreSequences
<1>2. Len(s) > 0 /\ m_first_free = s[1]
  BY <1>1 DEF IsFreeList, get
<1> DEFINE n == Len(s) - 1
           t == [k \in 1..n |-> s[k + 1]]
<1>3. n \in 0..ITEM_CNT
  BY <1>1, <1>2
<1>4. t \in FreeLists /\ Len(t) = n
  <2>1. t \in [1..n -> Items]
    BY <1>1, <1>2
  <2> QED BY <2>1, <1>3, FreeListsIntro
<1>5. \A k \in 1..n : t[k] = s[k + 1]
  OBVIOUS
<1> HIDE DEF t
<1>6. IsFreeList(t)'
  <2>1. ASSUME NEW k \in 1..n
        PROVE  /\ t[k] \in Items
               /\ t[k] # m_first_free
               /\ next_free'[t[k]] = IF k = n THEN NULL ELSE t[k + 1]
    <3>1. k + 1 \in 1..Len(s) /\ 1 \in 1..Len(s) /\ k + 1 # 1
      BY <1>1, <1>2
    <3>2. t[k] \in Items /\ t[k] # m_first_free
      BY <3>1, <1>1, <1>2, <1>5 DEF IsFreeList
    <3>3. next_free'[t[k]] = next_free[s[k + 1]]
      BY <3>2, <1>5 DEF get, unlink, TypeOK
    <3>4. next_free[s[k + 1]] = IF k + 1 = Len(s) THEN NULL ELSE s[k + 2]
      BY <3>1, <1>1 DEF IsFreeList
    <3> QED BY <3>2, <3>3, <3>4, <1>1, <1>5
  <2>2. m_first_free' = IF n = 0 THEN NULL ELSE t[1]
    <3>1. 1 \in 1..Len(s)
      BY <1>1, <1>2
    <3>2. next_free[s[1]] = IF 1 = Len(s) THEN NULL ELSE s[1 + 1]
      BY <3>1 DEF IsFreeList
    <3>3. ASSUME n # 0 PROVE t[1] = s[1 + 1]
      <4>1. 1 \in 1..n
        BY <1>1, <1>2, <3>3
      <4> QED BY <4>1, <1>5, Zenon
    <3>4. m_first_free' = next_free[s[1]]
      BY <1>2 DEF get, head_moved
    <3> QED BY <1>1, <3>2, <3>3, <3>4
  <2>3. ASSUME NEW k \in 1..n, NEW l \in 1..n, t[k] = t[l]
        PROVE  k = l
    <3>1. k + 1 \in 1..Len(s) /\ l + 1 \in 1..Len(s) /\ s[k + 1] = s[l + 1]
      BY <1>1, <1>5, <2>3
    <3>2. k + 1 = l + 1
      BY <3>1 DEF IsFreeList
    <3> QED BY <3>2
  <2>4. {t[k] : k \in 1..n} = Items \ owned'
    <3>1. ASSUME NEW x \in Items \ owned'
          PROVE  \E k \in 1..n : t[k] = x
      <4>1. x \in Items \ owned /\ x # s[1]
        BY <1>2 DEF get
      <4>2. PICK l \in 1..Len(s) : s[l] = x
        BY <4>1 DEF IsFreeList
      <4>3. l # 1 /\ l - 1 \in 1..n /\ t[l - 1] = x
        BY <4>1, <4>2, <1>1, <1>5
      <4> QED BY <4>3
    <3>2. ASSUME NEW k \in 1..n
          PROVE  t[k] \in Items \ owned'
      <4>1. t[k] \in Items \ owned
        BY <1>1, <1>5 DEF IsFreeList
      <4> QED BY <4>1, <2>1 DEF get
    <3> QED BY <3>1, <3>2
  <2> QED BY <1>4, <2>1, <2>2, <2>3, <2>4 DEF IsFreeList
<1>7. \A x \in owned' : next_free'[x] = NULL
  BY <1>1, <1>2 DEF get, unlink, TypeOK, FreeListWellFormed
<1>8. t \in FreeLists'
  BY <1>4 DEF FreeLists
<1> QED BY <1>6, <1>7, <1>8 DEF FreeListWellFormed

(* release() puts one object in front of the list. *)
LEMMA ReleaseKeepsList ==
    ASSUME TypeOK, FreeListWellFormed, NEW x \in Items, release(x)
    PROVE  FreeListWellFormed'
<1> PICK s \in FreeLists : IsFreeList(s)
  BY DEF FreeListWellFormed
<1>1. /\ Len(s) \in 0..ITEM_CNT
      /\ \A k \in 1..Len(s) : s[k] \in Items
  BY FreeListsAreSequences
<1>2. x \in owned /\ next_free[x] = NULL
  BY DEF release
<1> DEFINE n == Len(s) + 1
           t == [k \in 1..n |-> IF k = 1 THEN x ELSE s[k - 1]]
<1>3. n \in 0..ITEM_CNT
  <2>1. owned \in SUBSET Items
    BY DEF TypeOK
  <2>2. Len(s) = ITEM_CNT - Cardinality(owned)
    BY <2>1, FreeListLength
  <2>3. IsFiniteSet(owned)
    BY <2>1, ItemsCardinality, FS_Subset
  <2>4. Cardinality(owned) \in Nat /\ Cardinality(owned) # 0
    BY <1>2, <2>3, FS_EmptySet, FS_CardinalityType
  <2> QED BY <1>1, <2>2, <2>4
<1>4. t \in FreeLists /\ Len(t) = n
  <2>1. t \in [1..n -> Items]
    BY <1>1
  <2> QED BY <2>1, <1>3, FreeListsIntro
<1>5. /\ t[1] = x
      /\ \A k \in 1..Len(s) : t[k + 1] = s[k]
      /\ \A k \in 2..n : k - 1 \in 1..Len(s) /\ t[k] = s[k - 1]
  BY <1>1
<1> HIDE DEF t
<1>6. \A k \in 1..Len(s) : s[k] \in Items /\ s[k] # x
  BY <1>1, <1>2 DEF IsFreeList
<1>7. IsFreeList(t)'
  <2>1. m_first_free' = IF n = 0 THEN NULL ELSE t[1]
    BY <1>1, <1>5 DEF release
  <2>2. ASSUME NEW k \in 1..n
        PROVE  next_free'[t[k]] = IF k = n THEN NULL ELSE t[k + 1]
    <3>1. CASE k = 1
      <4>1. next_free'[t[1]] = m_first_free
        BY <1>5 DEF release, link, TypeOK
      <4>2. CASE Len(s) = 0
        BY <3>1, <4>1, <4>2 DEF IsFreeList
      <4>3. CASE Len(s) # 0
        <5>1. 1 \in 1..Len(s)
          BY <1>1, <4>3
        <5>2. t[1 + 1] = s[1]
          BY <1>5, <5>1, Zenon
        <5>3. m_first_free = s[1]
          BY <4>3 DEF IsFreeList
        <5> QED BY <1>1, <3>1, <4>1, <4>3, <5>2, <5>3
      <4> QED BY <4>2, <4>3
    <3>2. CASE k # 1
      <4>1. k \in 2..n /\ k - 1 \in 1..Len(s) /\ t[k] = s[k - 1]
        BY <1>1, <1>5, <3>2
      <4>2. next_free'[t[k]] = next_free[s[k - 1]]
        BY <4>1, <1>6 DEF release, link, TypeOK
      <4>3. next_free[s[k - 1]] = IF k - 1 = Len(s) THEN NULL ELSE s[(k - 1) + 1]
        BY <4>1 DEF IsFreeList
      <4>4. ASSUME k # n PROVE t[k + 1] = s[(k - 1) + 1]
        <5>1. k \in 1..Len(s) /\ (k - 1) + 1 = k
          BY <1>1, <4>4
        <5> QED BY <5>1, <1>5
      <4> QED BY <1>1, <4>1, <4>2, <4>3, <4>4
    <3> QED BY <3>1, <3>2
  <2>3. ASSUME NEW k \in 1..n, NEW l \in 1..n, t[k] = t[l]
        PROVE  k = l
    <3>0. \A m \in 1..n : t[m] = x => m = 1
      <4> SUFFICES ASSUME NEW m \in 1..n, m # 1 PROVE t[m] # x
        OBVIOUS
      <4>1. m \in 2..n
        BY <1>1
      <4> QED BY <4>1, <1>5, <1>6
    <3>1. CASE k = 1 \/ l = 1
      BY <1>5, <2>3, <3>0, <3>1
    <3>2. CASE k # 1 /\ l # 1
      <4>1. /\ k \in 2..n /\ l \in 2..n
            /\ k - 1 \in 1..Len(s) /\ l - 1 \in 1..Len(s)
            /\ s[k - 1] = s[l - 1]
        BY <1>1, <1>5, <2>3, <3>2
      <4>2. k - 1 = l - 1
        BY <4>1 DEF IsFreeList
      <4> QED BY <4>2
    <3> QED BY <3>1, <3>2
  <2>4. {t[k] : k \in 1..n} = Items \ owned'
    <3>1. ASSUME NEW y \in Items \ owned'
          PROVE  \E k \in 1..n : t[k] = y
      <4>1. CASE y = x
        <5>1. 1 \in 1..n
          BY <1>1
        <5> QED BY <4>1, <5>1, <1>5
      <4>2. CASE y # x
        <5>1. y \in Items \ owned
          BY <4>2 DEF release
        <5>2. PICK l \in 1..Len(s) : s[l] = y
          BY <5>1 DEF IsFreeList
        <5>3. l + 1 \in 1..n /\ t[l + 1] = y
          BY <5>2, <1>1, <1>5
        <5> QED BY <5>3
      <4> QED BY <4>1, <4>2
    <3>2. ASSUME NEW k \in 1..n
          PROVE  t[k] \in Items \ owned'
      <4>1. CASE k = 1
        BY <4>1, <1>5 DEF release
      <4>2. CASE k # 1
        <5>1. k - 1 \in 1..Len(s) /\ t[k] = s[k - 1]
          BY <1>1, <1>5, <4>2
        <5>2. s[k - 1] \in Items \ owned
          BY <5>1 DEF IsFreeList
        <5> QED BY <5>1, <5>2 DEF release
      <4> QED BY <4>1, <4>2
    <3> QED BY <3>1, <3>2
  <2> QED BY <1>4, <2>1, <2>2, <2>3, <2>4 DEF IsFreeList
<1>8. \A y \in owned' : next_free'[y] = NULL
  BY DEF release, link, TypeOK, FreeListWellFormed
<1>9. t \in FreeLists'
  BY <1>4 DEF FreeLists
<1> QED BY <1>7, <1>8, <1>9 DEF FreeListWellFormed

(* Every step of the pool preserves the invariant. *)
LEMMA NextIInv == IInv /\ [Next]_vars => IInv'
<1> SUFFICES ASSUME IInv, [Next]_vars PROVE IInv'
  OBVIOUS
<1> USE DEF IInv
<1>1. TypeOK'
  <2>1. CASE get
    BY <2>1 DEF get, Call, unlink, head_moved, TypeOK, Outcomes
  <2>2. ASSUME NEW x \in Items, release(x) PROVE TypeOK'
    BY <2>2 DEF release, Call, link, TypeOK, Outcomes
  <2>3. CASE get_throws \/ size_early \/ size_begin
    BY <2>3 DEF get_throws, size_early, size_begin, Call, TypeOK, Outcomes, pool
  <2>4. ASSUME NEW x \in Items, release_throws(x) PROVE TypeOK'
    BY <2>4 DEF release_throws, Call, TypeOK, Outcomes, pool
  <2>5. CASE size_step \/ size_end
    BY <2>5, SizeMaxAssumption
    DEF size_step, increment, size_end, allocated_cnt, TypeOK, Outcomes, pool
  <2>6. CASE UNCHANGED vars
    BY <2>6 DEF vars, pool, TypeOK
  <2> QED BY <2>1, <2>2, <2>3, <2>4, <2>5, <2>6 DEF Next
<1>2. FreeListWellFormed'
  <2>1. CASE get
    BY <2>1, GetKeepsList
  <2>2. ASSUME NEW x \in Items, release(x) PROVE FreeListWellFormed'
    BY <2>2, ReleaseKeepsList
  <2>3. CASE UNCHANGED pool
    BY <2>3, PoolUnchanged
  <2>4. get \/ (\E x \in Items : release(x)) \/ UNCHANGED pool
    BY DEF Next, get_throws, release_throws, size_early, size_begin,
           size_step, size_end, vars
  <2> QED BY <2>1, <2>2, <2>3, <2>4
<1>3. WalkInv'
  <2>1. CASE size_begin
    <3>1. UNCHANGED pool /\ m_first_free # NULL /\ i' = m_first_free /\ unused' = 0
      BY <2>1 DEF size_begin
    <3>2. PICK s \in FreeLists : IsFreeList(s)
      BY DEF FreeListWellFormed
    <3>3. Len(s) \in 0..ITEM_CNT
      BY FreeListsAreSequences
    <3>4. Len(s) # 0 /\ m_first_free = s[1]
      BY <3>1, <3>2 DEF IsFreeList
    <3>5. IsFreeList(s)'
      BY <3>1, <3>2, PoolUnchanged
    <3>6. /\ unused' \in 0..Len(s)
          /\ i' = IF unused' = Len(s) THEN NULL ELSE s[unused' + 1]
      BY <3>1, <3>3, <3>4
    <3>7. s \in FreeLists'
      BY <3>2 DEF FreeLists
    <3> QED BY <3>5, <3>6, <3>7 DEF WalkInv
  <2>2. CASE size_step
    <3>1. UNCHANGED pool /\ outcome = "running" /\ i # NULL
          /\ unused' = increment(unused) /\ i' = next_free[i]
      BY <2>2 DEF size_step
    <3>2. PICK s \in FreeLists :
            /\ IsFreeList(s)
            /\ unused \in 0..Len(s)
            /\ i = IF unused = Len(s) THEN NULL ELSE s[unused + 1]
      BY <3>1 DEF WalkInv
    <3>3. Len(s) \in 0..ITEM_CNT
      BY FreeListsAreSequences
    <3>4. unused + 1 \in 1..Len(s) /\ i = s[unused + 1]
      BY <3>1, <3>2, <3>3
    <3>5. next_free[i] = IF unused + 1 = Len(s) THEN NULL ELSE s[(unused + 1) + 1]
      BY <3>2, <3>4 DEF IsFreeList
    <3>6. IsFreeList(s)'
      BY <3>1, <3>2, PoolUnchanged
    <3>7. s \in FreeLists'
      BY <3>2 DEF FreeLists
    <3>8. unused' = unused + 1
      BY <3>1, <3>2, <3>3, <3>4, SizeMaxAssumption DEF increment
    <3>9. /\ unused' \in 0..Len(s)
          /\ i' = IF unused' = Len(s) THEN NULL ELSE s[unused' + 1]
      BY <3>1, <3>3, <3>4, <3>5, <3>8
    <3> QED BY <3>6, <3>7, <3>9 DEF WalkInv
  <2>3. CASE outcome' # "running"
    BY <2>3 DEF WalkInv
  <2>4. CASE UNCHANGED vars
    <3>1. FreeLists' = FreeLists
      BY DEF FreeLists
    <3>2. UNCHANGED <<pool, outcome, i, unused>>
      BY <2>4 DEF vars
    <3> QED BY <3>1, <3>2, PoolUnchanged DEF WalkInv
  <2>5. size_begin \/ size_step \/ outcome' # "running" \/ UNCHANGED vars
    BY DEF Next, get, get_throws, release, release_throws, size_early, size_end, Call
  <2> QED BY <2>1, <2>2, <2>3, <2>4, <2>5
<1>4. ReturnInv'
  <2>1. CASE outcome' # "running"
    BY <2>1 DEF ReturnInv
  <2>2. CASE size_begin
    BY <2>2 DEF size_begin, Call, ReturnInv
  <2>3. CASE size_step \/ UNCHANGED vars
    BY <2>3 DEF size_step, vars, ReturnInv
  <2>4. size_begin \/ size_step \/ outcome' # "running" \/ UNCHANGED vars
    BY DEF Next, get, get_throws, release, release_throws, size_early, size_end, Call
  <2> QED BY <2>1, <2>2, <2>3, <2>4
<1>5. SizeCountsOwned'
  <2>1. CASE size_end
    <3>1. /\ UNCHANGED pool /\ outcome = "running" /\ i = NULL
          /\ size_ret' = ITEM_CNT - unused
      BY <2>1 DEF size_end, allocated_cnt
    <3>2. PICK s \in FreeLists :
            /\ IsFreeList(s)
            /\ unused \in 0..Len(s)
            /\ i = IF unused = Len(s) THEN NULL ELSE s[unused + 1]
      BY <3>1 DEF WalkInv
    <3>3. /\ Len(s) \in 0..ITEM_CNT
          /\ \A k \in 1..Len(s) : s[k] # NULL
      BY FreeListsAreSequences DEF Items
    <3>4. unused = Len(s)
      <4>1. unused # Len(s) => unused + 1 \in 1..Len(s) /\ s[unused + 1] = NULL
        BY <3>1, <3>2, <3>3
      <4> QED BY <4>1, <3>3
    <3>5. Len(s) = ITEM_CNT - Cardinality(owned)
      BY <3>2, FreeListLength DEF TypeOK
    <3>6. Cardinality(owned) \in Nat
      BY ItemsCardinality, FS_Subset, FS_CardinalityType DEF TypeOK
    <3>7. size_ret' = Cardinality(owned)
      BY <3>1, <3>3, <3>4, <3>5, <3>6
    <3>8. owned' = owned
      BY <3>1 DEF pool
    <3> QED BY <3>7, <3>8 DEF SizeCountsOwned
  <2>2. CASE size_early
    BY <2>2 DEF size_early, pool, SizeCountsOwned
  <2>3. CASE size_ret' = NULL
    BY <2>3 DEF SizeCountsOwned
  <2>4. CASE UNCHANGED vars
    BY <2>4 DEF vars, pool, SizeCountsOwned
  <2>5. CASE size_step
    BY <2>5 DEF size_step, ReturnInv, SizeCountsOwned
  <2>6. size_end \/ size_early \/ size_ret' = NULL \/ UNCHANGED vars \/ size_step
    BY DEF Next, get, get_throws, release, release_throws, size_begin, Call
  <2> QED BY <2>1, <2>2, <2>3, <2>4, <2>5, <2>6
<1> QED BY <1>1, <1>2, <1>3, <1>4, <1>5

(* IInv is an invariant of the pool. *)
THEOREM InvariantHolds == Spec => []IInv
BY InitIInv, NextIInv, PTL DEF Spec

(* The fields of the pool always hold indexes of objects or nullptr. *)
THEOREM TypeCorrect == Spec => []TypeOK
<1>1. IInv => TypeOK
  BY DEF IInv
<1> QED BY <1>1, InvariantHolds, PTL

(* The free objects always form one finite list without repetitions that   *)
(* holds exactly what the client does not own, whatever the size of the    *)
(* pool and the history of get() and release().                            *)
THEOREM FreeListAlwaysWellFormed == Spec => []FreeListWellFormed
<1>1. IInv => FreeListWellFormed
  BY DEF IInv
<1> QED BY <1>1, InvariantHolds, PTL

(* What size() returns for a pool that is not exhausted is the number of   *)
(* objects the client owns.                                                *)
THEOREM SizeCorrectUnlessExhausted == Spec => []SizeCountsOwned
<1>1. IInv => SizeCountsOwned
  BY DEF IInv
<1> QED BY <1>1, InvariantHolds, PTL

-----------------------------------------------------------------------------
(* The head of the list is an object the client does not own, and there is *)
(* no head only when it owns all of them.                                  *)
LEMMA HeadIsFree ==
    ASSUME TypeOK, FreeListWellFormed
    PROVE  /\ m_first_free # NULL => m_first_free \in Items \ owned
           /\ m_first_free = NULL => owned = Items
<1> PICK s \in FreeLists : IsFreeList(s)
  BY DEF FreeListWellFormed
<1>1. /\ Len(s) \in 0..ITEM_CNT
      /\ \A k \in 1..Len(s) : s[k] \in Items /\ s[k] # NULL
  BY FreeListsAreSequences DEF Items
<1>2. CASE Len(s) = 0
  <2>1. Items \ owned = {}
    BY <1>2 DEF IsFreeList
  <2> QED BY <1>2, <2>1 DEF IsFreeList, TypeOK
<1>3. CASE Len(s) # 0
  <2>1. 1 \in 1..Len(s) /\ m_first_free = s[1]
    BY <1>1, <1>3 DEF IsFreeList
  <2> QED BY <1>1, <2>1 DEF IsFreeList
<1> QED BY <1>2, <1>3

(* DynamicMempool implements NodePool: for every size of the pool, get()   *)
(* hands out only objects the client does not own, and throws bad_alloc    *)
(* only when it owns all of them.                                          *)
THEOREM Refinement == Spec => ImplementsNodePool
<1>1. Init => Abstract!Init
  BY DEF Init, Abstract!Init
<1>2. IInv /\ [Next]_vars => [Abstract!Next]_(Abstract!vars)
  <2> SUFFICES ASSUME IInv, [Next]_vars PROVE [Abstract!Next]_(Abstract!vars)
    OBVIOUS
  <2> USE DEF IInv, Abstract!Next, Abstract!vars
  <2>1. CASE get
    BY <2>1, HeadIsFree DEF get, Call, Abstract!Get
  <2>2. CASE get_throws
    BY <2>2, HeadIsFree DEF get_throws, Call, pool, Abstract!GetFails
  <2>3. ASSUME NEW x \in Items, release(x)
        PROVE  Abstract!Next
    BY <2>3 DEF release, Call, Abstract!Release
  <2>4. CASE (\E x \in Items : release_throws(x)) \/ size_early \/ size_begin
    BY <2>4 DEF release_throws, size_early, size_begin, Call, pool, Abstract!Reads
  <2>5. CASE size_step \/ size_end \/ UNCHANGED vars
    BY <2>5 DEF size_step, size_end, vars, pool
  <2> QED BY <2>1, <2>2, <2>3, <2>4, <2>5 DEF Next
<1> QED BY <1>1, <1>2, InvariantHolds, PTL DEF Spec, ImplementsNodePool, Abstract!Spec
==============================================================================

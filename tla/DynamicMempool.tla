--------------------------- MODULE DynamicMempool ---------------------------
(***************************************************************************)
(* The pool of equally sized objects of mempool_dynamic.h in the           *)
(* instantiation the program uses, DynamicMempool<Node, false> (b_tree.h,  *)
(* NodeAllocator): one thread, no spinlock, asserts compiled out           *)
(* (meson.build builds with -DNDEBUG unless its option says otherwise).    *)
(*                                                                         *)
(* Every object has an Info whose next_free links the free objects into a  *)
(* singly linked list.  nullptr (NULL here) marks the end of that list and *)
(* is also what an allocated object's next_free holds, so the field alone  *)
(* does not tell the last free object from an allocated one.               *)
(*                                                                         *)
(* get() and release() are one step each; the loop of size() is modelled   *)
(* one iteration a step, so that what it counts is an invariant of the     *)
(* loop and not a recursive definition.                                    *)
(***************************************************************************)
EXTENDS Integers, Sequences, FiniteSets

CONSTANTS
    ITEM_CNT,       \* number of objects, the constructor's argument
    SIZE_MAX,       \* the greatest size_t, at which a counter wraps around
    NULL            \* nullptr

ASSUME ItemCntAssumption == ITEM_CNT \in Nat /\ ITEM_CNT > 1
ASSUME SizeMaxAssumption == SIZE_MAX \in Nat /\ SIZE_MAX >= ITEM_CNT
ASSUME NullAssumption == NULL \notin Int

(* Indexes of mempool and of mempool_info. *)
Items == 0..(ITEM_CNT - 1)

(* What a call ends with; "running" while the loop of size() is under way. *)
Outcomes == {"none", "ok", "bad_alloc", "double_free", "running"}

VARIABLES
    next_free,      \* Info::next_free of every object
    m_first_free,   \* head of the list of free objects
    owned,          \* objects get() returned that were not released since
    outcome,        \* how the last call ended
    given,          \* the object the last call returned, or NULL
    i,              \* size(): the cursor of the walk
    unused,         \* size(): free objects counted so far
    size_ret        \* the number the last call, a size(), returned, or NULL

pool == <<next_free, m_first_free, owned>>
vars == <<pool, outcome, given, i, unused, size_ret>>

-----------------------------------------------------------------------------
(* The constructor: all objects in one list in the order of their index. *)
initial_links_unterminated == [x \in Items |-> x + 1]
initial_links == [x \in Items |-> IF x = ITEM_CNT - 1 THEN NULL ELSE x + 1]

Init ==
    /\ next_free = initial_links
    /\ m_first_free = 0
    /\ owned = {}
    /\ outcome = "none"
    /\ given = NULL
    /\ i = NULL
    /\ unused = 0
    /\ size_ret = NULL

(* A call may start, and ends with outcome o, handing out x and, when it   *)
(* is size(), returning n.                                                 *)
Call(o, x, n) ==
    /\ outcome # "running"
    /\ outcome' = o
    /\ given' = x
    /\ size_ret' = n

(* get() on an exhausted pool throws std::bad_alloc. *)
get_throws ==
    /\ Call("bad_alloc", NULL, NULL)
    /\ m_first_free = NULL
    /\ UNCHANGED <<pool, i, unused>>

(* get() clears the link of the object it hands out ... *)
unlink_forgotten(x) == next_free
unlink(x) == [next_free EXCEPT ![x] = NULL]

(* ... and moves the head of the list to the object behind it. *)
head_not_moved == m_first_free
head_moved == next_free[m_first_free]

get ==
    /\ Call("ok", m_first_free, NULL)
    /\ m_first_free # NULL
    /\ next_free' = unlink(m_first_free)
    /\ m_first_free' = head_moved
    /\ owned' = owned \union {m_first_free}
    /\ UNCHANGED <<i, unused>>

(* release() of an object whose link is not NULL is refused.  The client   *)
(* may pass a free object by mistake, though not the last one of the list: *)
(* its link is NULL and the test cannot tell it from an allocated one.     *)
release_throws(x) ==
    /\ Call("double_free", NULL, NULL)
    /\ next_free[x] # NULL
    /\ UNCHANGED <<pool, i, unused>>

(* release() puts the object in front of the list. *)
link_swapped(x) == [next_free EXCEPT ![x] = x]
link(x) == [next_free EXCEPT ![x] = m_first_free]

release(x) ==
    /\ Call("ok", NULL, NULL)
    /\ x \in owned
    /\ next_free[x] = NULL
    /\ next_free' = link(x)
    /\ m_first_free' = x
    /\ owned' = owned \ {x}
    /\ UNCHANGED <<i, unused>>

(* size() of a pool without a free object returns 0 before the loop. *)
size_early ==
    /\ Call("ok", NULL, 0)
    /\ m_first_free = NULL
    /\ UNCHANGED <<pool, i, unused>>

(* size() starts to walk the list of free objects. *)
size_begin ==
    /\ Call("running", NULL, NULL)
    /\ m_first_free # NULL
    /\ i' = m_first_free
    /\ unused' = 0
    /\ UNCHANGED pool

(* One iteration of the loop of size(). *)
increment(c) == IF c = SIZE_MAX THEN 0 ELSE c + 1

size_step ==
    /\ outcome = "running"
    /\ i # NULL
    /\ unused' = increment(unused)
    /\ i' = next_free[i]
    /\ UNCHANGED <<pool, outcome, given, size_ret>>

(* size() returns the number of objects that are not on the list. *)
allocated_cnt_off_by_one == ITEM_CNT - unused - 1
allocated_cnt == ITEM_CNT - unused

size_end ==
    /\ outcome = "running"
    /\ i = NULL
    /\ outcome' = "ok"
    /\ size_ret' = allocated_cnt
    /\ unused' = 0
    /\ UNCHANGED <<pool, given, i>>

Next ==
    \/ get_throws
    \/ get
    \/ \E x \in Items : release_throws(x)
    \/ \E x \in Items : release(x)
    \/ size_early
    \/ size_begin
    \/ size_step
    \/ size_end

(* A walk that has begun goes on: nothing in the loop of size() waits. *)
Spec == Init /\ [][Next]_vars /\ WF_vars(size_step \/ size_end)

-----------------------------------------------------------------------------
(* Type invariant: links and cursors are objects of the pool or nullptr,   *)
(* the constructor's last link included.                                   *)
TypeOK ==
    /\ next_free \in [Items -> Items \union {NULL}]
    /\ m_first_free \in Items \union {NULL}
    /\ owned \in SUBSET Items
    /\ outcome \in Outcomes
    /\ given \in Items \union {NULL}
    /\ i \in Items \union {NULL}
    /\ unused \in Int
    /\ size_ret \in Int \union {NULL}

(* The lists of at most ITEM_CNT objects. *)
FreeLists == UNION {[1..n -> Items] : n \in 0..ITEM_CNT}

(* s is the list of free objects: it starts at m_first_free, next_free     *)
(* leads from one element to the next and from the last one to NULL, no    *)
(* object is on it twice, and it holds exactly what the client does not    *)
(* own.                                                                    *)
IsFreeList(s) ==
    /\ m_first_free = IF Len(s) = 0 THEN NULL ELSE s[1]
    /\ \A k \in 1..Len(s) :
          next_free[s[k]] = IF k = Len(s) THEN NULL ELSE s[k + 1]
    /\ \A k, l \in 1..Len(s) : s[k] = s[l] => k = l
    /\ {s[k] : k \in 1..Len(s)} = Items \ owned

(* The links always form such a list and the link of an owned object is    *)
(* NULL, so that release() accepts it.  Both get() and release() of        *)
(* mempool_dynamic.h rely on this; a link one of them gets wrong shows     *)
(* only some calls later, as an object handed out twice or never again.    *)
FreeListWellFormed ==
    /\ \E s \in FreeLists : IsFreeList(s)
    /\ \A x \in owned : next_free[x] = NULL

(* While some object is free, size() (mempool_dynamic.h:69) returns the    *)
(* number of objects the client owns.                                      *)
SizeCountsOwned ==
    size_ret # NULL /\ m_first_free # NULL => size_ret = Cardinality(owned)

(* size() returns the number of allocated objects in every state of the    *)
(* pool, as its comment (mempool_dynamic.h:67) says.                       *)
SizeIsNumberOfAllocated ==
    size_ret # NULL => size_ret = Cardinality(owned)

(* The walk of size() ends: no history of get() and release() closes the   *)
(* list of free objects into a ring.                                       *)
SizeTerminates == outcome = "running" ~> outcome # "running"

(* The pool implements the abstract allocator: get() never hands out an    *)
(* object the client owns and fails only when the client owns them all,    *)
(* and a refused call changes nothing.                                     *)
Abstract == INSTANCE NodePool WITH
    Items <- Items, NONE <- NULL, allocated <- owned, given <- given,
    failed <- (outcome = "bad_alloc")

ImplementsNodePool == Abstract!Spec
==============================================================================

----------------------------- MODULE ArrayResort -----------------------------
(***************************************************************************)
(* array_resort of common/array_resorter.h: arr holds actual_size items in *)
(* descending order of their keys, the key of the item at position changed *)
(* has been given a new value, and that item is moved to its place.        *)
(* Positions count from 1; key is a function from items to integers.       *)
(***************************************************************************)
EXTENDS Integers

\* Where the item at changed goes when it passes the items on its left that
\* have lower keys.
left_place(arr, changed, key) ==
  CHOOSE i \in 1 .. changed :
    /\ \A j \in i .. changed - 1 : key[arr[j]] < key[arr[changed]]
    /\ i > 1 => ~(key[arr[i - 1]] < key[arr[changed]])

\* Where it goes when it passes the items on its right that have greater keys.
right_place(arr, actual_size, changed, key) ==
  CHOOSE i \in changed .. actual_size :
    /\ \A j \in changed + 1 .. i : key[arr[j]] > key[arr[changed]]
    /\ i < actual_size => ~(key[arr[i + 1]] > key[arr[changed]])

\* The item at from is put to the place to, those between are shifted by one.
shift(arr, from, to) ==
  [i \in DOMAIN arr |->
     IF i = to THEN arr[from]
     ELSE IF to < i /\ i <= from THEN arr[i - 1]
     ELSE IF from <= i /\ i < to THEN arr[i + 1]
     ELSE arr[i]]

\* Fault: the item is never moved to the right.
array_resort_left_only(arr, actual_size, changed, key) ==
  shift(arr, changed, left_place(arr, changed, key))

array_resort(arr, actual_size, changed, key) ==
  IF actual_size = 1 THEN arr
  ELSE LET l == left_place(arr, changed, key)
       IN  IF l # changed THEN shift(arr, changed, l)
           ELSE shift(arr, changed, right_place(arr, actual_size, changed, key))

=============================================================================

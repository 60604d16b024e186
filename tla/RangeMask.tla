------------------------------ MODULE RangeMask ------------------------------
(***************************************************************************)
(* The masks and byte order conversions of Range1d.  An integer of type T  *)
(* is size bytes of BYTE bits; byte 1 is the one at the lowest address,    *)
(* which on the little-endian machines the code is for is the least        *)
(* significant.                                                            *)
(***************************************************************************)
EXTENDS Range1d, Sequences, SequencesExt

CONSTANT BYTE   \* bits of a byte

ASSUME ByteAssumption == BYTE \in Nat \ {0}

MaxOf(size) == 2 ^ (BYTE * size) - 1

Bytes(v, size) == [b \in 1 .. size |-> (v \div 2 ^ (BYTE * (b - 1))) % 2 ^ BYTE]

FromBytes(bytes) ==
  FoldLeftDomain(LAMBDA sum, b : sum + bytes[b] * 2 ^ (BYTE * (b - 1)), 0, bytes)

\* bytePrefix[a ^ b]: the leading bits two bytes share.
bytePrefix(x, y) ==
  Max({p \in 0 .. BYTE : x \div 2 ^ (BYTE - p) = y \div 2 ^ (BYTE - p)})

mask_val(p) == 2 ^ BYTE - 2 ^ (BYTE - p)

\* Fault: the loop does not stop at the first byte that differs.
mask_bytes_no_break(l, h) ==
  [b \in DOMAIN l |-> bytePrefix(l[b], h[b])]

\* The loops of _get_mask_le and _get_mask_be: common prefix lengths of the
\* bytes in the order they are visited; nothing is counted behind the first
\* byte that differs.
mask_bytes(l, h) ==
  [b \in DOMAIN l |-> IF \E c \in 1 .. b - 1 : bytePrefix(l[c], h[c]) # BYTE
                      THEN 0 ELSE bytePrefix(l[b], h[b])]

MaskOf(lens) == [b \in DOMAIN lens |-> mask_val(lens[b])]

SumOf(lens) == FoldLeft(LAMBDA x, y : x + y, 0, lens)

\* From the most significant byte down.
lens_le(r, size) ==
  Reverse(mask_bytes(Reverse(Bytes(r.low, size)), Reverse(Bytes(r.high, size))))

\* From the lowest address up.
lens_be(r, size) == mask_bytes(Bytes(r.low, size), Bytes(r.high, size))

get_mask_le(r, size) == FromBytes(MaskOf(lens_le(r, size)))

get_mask_be(r, size) == FromBytes(MaskOf(lens_be(r, size)))

prefix_len_le(r, size) == SumOf(lens_le(r, size))

swap_bytes(v, size) == FromBytes(Reverse(Bytes(v, size)))

to_be(r, size) == [low |-> swap_bytes(r.low, size), high |-> swap_bytes(r.high, size)]

prefix_len_be(r, size) == prefix_len_le(to_be(r, size), size)

max_prefix_len(size) == size * BYTE

\* low | ~mask
from_mask(low, mask, size) ==
  [low |-> low, high |-> FromBytes([b \in 1 .. size |->
     LET l == Bytes(low, size)[b]
         m == MaxOf(1) - Bytes(mask, size)[b]
     IN  FoldLeftDomain(LAMBDA sum, k :
           sum + Max({(l \div 2 ^ (k - 1)) % 2, (m \div 2 ^ (k - 1)) % 2}) * 2 ^ (k - 1),
           0, [k \in 1 .. BYTE |-> k])])]

=============================================================================

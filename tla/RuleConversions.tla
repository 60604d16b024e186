--------------------------- MODULE RuleConversions ---------------------------
(***************************************************************************)
(* What happens to an IPv4 rule between the file it is read from and the   *)
(* classifier: its text (classbench_rule_parser.cpp), its ranges           *)
(* (Rule_Ipv4_ACL of rule.h), the seven 16-bit ranges of the classifier's  *)
(* key (rule.cpp) and the packets drawn from it (trace_tools.cpp).         *)
(*                                                                         *)
(* A rule is a record of ranges: sip and dip of 4 bytes, sport, dport and  *)
(* proto of 2.  Text is the numbers it spells: an address is its 4 bytes   *)
(* from left to right with the prefix length, a port range two numbers, a  *)
(* protocol a number and whether its mask is 0xFF.                         *)
(***************************************************************************)
EXTENDS RangeMask

IP == 4      \* sizeof(uint32_t)
PORT == 2    \* sizeof(uint16_t)

HALF == 2 ^ (BYTE * PORT)    \* 1 << 16

Mk(l, h) == [low |-> l, high |-> h]

set_wildcard(size) == Mk(0, MaxOf(size))

\* Rule_Ipv4_ACL()
Rule_Ipv4_ACL ==
  [sip |-> set_wildcard(IP), dip |-> set_wildcard(IP), sport |-> set_wildcard(PORT),
   dport |-> set_wildcard(PORT), proto |-> set_wildcard(PORT)]

cummulative_prefix_len(r) ==
  prefix_len_le(r.sip, IP) + prefix_len_le(r.dip, IP) + prefix_len_le(r.sport, PORT)
    + prefix_len_le(r.dport, PORT) + prefix_len_le(r.proto, PORT)

reverse_endianity(r) ==
  [sip |-> to_be(r.sip, IP), dip |-> to_be(r.dip, IP), sport |-> to_be(r.sport, PORT),
   dport |-> to_be(r.dport, PORT), proto |-> to_be(r.proto, PORT)]

-----------------------------------------------------------------------------
(* The key of the classifier.                                              *)

\* Fault: the upper half first.
fill_upper_first(val) ==
  <<Mk(val.low \div HALF, val.high \div HALF), Mk(val.low % HALF, val.high % HALF)>>

\* fill of a 32-bit range: the lower half first.
fill(val) ==
  <<Mk(val.low % HALF, val.high % HALF), Mk(val.low \div HALF, val.high \div HALF)>>

\* vec_build::pop_32 of the ranges at i and i + 1
pop_32(src, i) ==
  Mk(src[i + 1].low * HALF + src[i].low, src[i + 1].high * HALF + src[i].high)

rule_to_array_16b(r) == fill(r.sip) \o fill(r.dip) \o <<r.sport, r.dport, r.proto>>

rule_from_array(arr) ==
  [sip |-> pop_32(arr, 1), dip |-> pop_32(arr, 3),
   sport |-> arr[5], dport |-> arr[6], proto |-> arr[7]]

-----------------------------------------------------------------------------
(* Packets: seven 16-bit words.                                            *)

\* ramdom_corner_push_value, for a range of 32 and of 16 bits
push_value_32(val, use_low, big_endian) ==
  LET v == IF use_low THEN val.low ELSE val.high
      w == IF big_endian THEN swap_bytes(v, IP) ELSE v
  IN  <<w % HALF, w \div HALF>>

push_value_16(val, use_low, big_endian) ==
  LET v == IF use_low THEN val.low ELSE val.high
  IN  <<IF big_endian THEN swap_bytes(v, PORT) ELSE v>>

\* use_low: for each of the five fields, whether its low end is taken.
random_corner(r, use_low, big_endian) ==
  push_value_32(r.sip, use_low[1], big_endian) \o push_value_32(r.dip, use_low[2], big_endian)
    \o push_value_16(r.sport, use_low[3], big_endian)
    \o push_value_16(r.dport, use_low[4], big_endian)
    \o push_value_16(r.proto, use_low[5], big_endian)

exact_array_to_rule_le(a) ==
  LET word(i) == a[i] + a[i + 1] * HALF
  IN  [sip |-> Mk(word(1), word(1)), dip |-> Mk(word(3), word(3)),
       sport |-> Mk(a[5], a[5]), dport |-> Mk(a[6], a[6]), proto |-> Mk(a[7], a[7])]

\* Fault: the fields stay in network order.
exact_array_to_rule_be_kept(a) == exact_array_to_rule_le(a)

exact_array_to_rule_be(a) == reverse_endianity(exact_array_to_rule_le(a))

\* What the search reads of a packet, given as its bytes, for a dimension with
\* the position p; by default the words follow each other in host order.
default_in_packet_position ==
  [i \in 1 .. 7 |-> [offset |-> (i - 1) * 2, size |-> 2, is_big_endian |-> FALSE]]

get_val(val_vec, p) ==
  LET k == SubSeq(val_vec, p.offset + 1, p.offset + p.size)
  IN  FromBytes(IF p.is_big_endian THEN Reverse(k) ELSE k)

-----------------------------------------------------------------------------
(* Text.                                                                   *)

Bit(v, i) == (v \div 2 ^ i) % 2

\* print_ipv4: the loop ends at the first bit, from the right, in which both
\* ends agree.
print_ipv4(ip) ==
  LET width == max_prefix_len(IP)
      equal == {p \in 1 .. width : Bit(ip.low, width - p) = Bit(ip.high, width - p)}
  IN  [bytes |-> Reverse(Bytes(ip.low, IP)), len |-> IF equal = {} THEN 0 ELSE Max(equal)]

\* Fault: whole bytes only, the bits of the last one are left as they are.
parse_IPRange_bytes(token) ==
  LET masklit1 == (max_prefix_len(IP) - token.len) \div BYTE
      start == [i \in 1 .. IP |-> IF i > IP - masklit1 THEN 0 ELSE token.bytes[i]]
      end   == [i \in 1 .. IP |-> IF i > IP - masklit1 THEN MaxOf(1) ELSE token.bytes[i]]
  IN  Mk(FromBytes(Reverse(start)), FromBytes(Reverse(end)))

\* parse_IPRange: masklit1 bytes and masklit2 bits of the next one are free.
parse_IPRange(token) ==
  LET mask     == max_prefix_len(IP) - token.len
      masklit1 == mask \div BYTE
      masklit2 == mask % BYTE
      Low(b)   == b - (b % (2 ^ masklit2))
      start == [i \in 1 .. IP |-> IF i > IP - masklit1 THEN 0
                                  ELSE IF i = IP - masklit1 THEN Low(token.bytes[i])
                                  ELSE token.bytes[i]]
      end   == [i \in 1 .. IP |-> IF i > IP - masklit1 THEN MaxOf(1)
                                  ELSE IF i = IP - masklit1
                                  THEN Low(token.bytes[i]) + 2 ^ masklit2 - 1
                                  ELSE token.bytes[i]]
  IN  Mk(FromBytes(Reverse(start)), FromBytes(Reverse(end)))

\* print_range, in decimal and in hex; parse_port and parse_protocol read them.
print_range(range) == [from |-> range.low, to |-> range.high]

print_range_hex(range) == [val |-> range.low, exact |-> range.low = range.high]

parse_port(token) == Mk(token.from % HALF, token.to % HALF)

parse_protocol(token) ==
  IF token.exact THEN Mk(token.val % HALF, token.val % HALF) ELSE set_wildcard(PORT)

\* operator<< of Rule_Ipv4_ACL and RuleReader::parse
print_rule(r) ==
  <<print_ipv4(r.sip), print_ipv4(r.dip), print_range(r.sport), print_range(r.dport),
    print_range_hex(r.proto)>>

parse(tokens) ==
  [Rule_Ipv4_ACL EXCEPT
     !.sip = parse_IPRange(tokens[1]), !.dip = parse_IPRange(tokens[2]),
     !.sport = parse_port(tokens[3]), !.dport = parse_port(tokens[4]),
     !.proto = parse_protocol(tokens[5])]

-----------------------------------------------------------------------------
(* parse_ruleset_file                                                      *)


specifity_sort_predicate(a, b) == cummulative_prefix_len(a) > cummulative_prefix_len(b)

\* The lists of <<rule, number>> it may return: std::sort leaves rules that
\* compare equal in any order.
parse_ruleset_file(rules) ==
  LET n       == Len(rules)
      sorted  == {p \in SetToSeqs(1 .. n) :
                    \A i \in 1 .. n - 1 : ~specifity_sort_predicate(rules[p[i + 1]], rules[p[i]])}
  IN  {[i \in 1 .. n |-> [rule |-> rules[p[i]], number |-> n - i + 1]] : p \in sorted}

=============================================================================

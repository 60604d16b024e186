---------------------------- MODULE MCAlgorithms ----------------------------
(***************************************************************************)
(* The pure algorithms around the trees, each checked against a reference  *)
(* definition on every input of a bounded kind.  The state holds one       *)
(* input; an action picks it.                                              *)
(***************************************************************************)
EXTENDS ArrayResort, DimensionOrder, RuleConversions, RuleValue

CONSTANTS
  MaxItems,      \* longest array that is resorted
  MaxKey,        \* keys of its items are 0 .. MaxKey
  MaxIntervals,  \* longest list of ranges that is scheduled
  MaxDims,       \* dimensions of a tree
  MaxTreeRules,  \* most rules of a tree
  MaxRules,      \* most rules of a ruleset file
  MaxTrees,      \* most trees that are searched
  MaxPriority    \* greatest priority of a rule in them

ASSUME BoundsAssumption ==
  /\ MaxItems \in Nat /\ MaxKey \in Nat /\ MaxIntervals \in Nat
  /\ MaxDims \in Nat /\ MaxTreeRules \in Nat /\ MaxRules \in Nat
  /\ MaxTrees \in Nat /\ MaxPriority \in Nat

\* The ranges picked for a tree have values up to 3.
ASSUME ValuesAssumption == MAXV >= 3

VARIABLE in   \* the input: a record with its kind

Dims == 1 .. MaxDims

Seqs(S, lo, hi) == UNION {[1 .. n -> S] : n \in lo .. hi}

\* All prefixes of a field of size bytes.
PrefixesOf(size) ==
  LET w == max_prefix_len(size)
  IN  UNION {{Mk(k * 2 ^ (w - p), (k + 1) * 2 ^ (w - p) - 1) : k \in 0 .. 2 ^ p - 1} :
               p \in 0 .. w}

Ranges(size) == {r \in [low : 0 .. MaxOf(size), high : 0 .. MaxOf(size)] : r.low <= r.high}

IsPrefix1d(r, size) == r \in PrefixesOf(size)

\* Ranges of the dimensions of a tree's rules.
DimRanges == {Wildcard, Mk(0, 0), Mk(2, 3)}

\* Some addresses, ports and protocols.
Addresses == {set_wildcard(IP), Mk(0, MaxOf(IP) \div 2), Mk(5, 5)}
Ports == {set_wildcard(PORT), Mk(1, 6), Mk(7, 7)}
Protocols == {set_wildcard(PORT), Mk(6, 6)}

RuleOf(sip, dip, sport, dport, proto) ==
  [sip |-> sip, dip |-> dip, sport |-> sport, dport |-> dport, proto |-> proto]

\* Rules of a file, all of prefixes.
FileRules ==
  {RuleOf(sip, set_wildcard(IP), sport, set_wildcard(PORT), proto) :
     sip \in {set_wildcard(IP), Mk(0, 3), Mk(2, 2)},
     sport \in {set_wildcard(PORT), Mk(8, 11)}, proto \in Protocols}

-----------------------------------------------------------------------------
Init == in = [kind |-> "none"]

Pick(input) == in' = input

\* Keys are in descending order but for the one that has changed.
PickArray ==
  \E n \in 1 .. MaxItems, keys \in [1 .. MaxItems -> 0 .. MaxKey] :
    \E c \in 1 .. n :
      /\ \A i, j \in (1 .. n) \ {c} : i < j => keys[i] >= keys[j]
      /\ Pick([kind |-> "array", size |-> n, changed |-> c, key |-> keys])

PickIntervals ==
  \E list \in Seqs(Range1d, 1, MaxIntervals) : Pick([kind |-> "intervals", list |-> list])

PickTree ==
  \E rules \in Seqs([Dims -> DimRanges], 1, MaxTreeRules) :
    \E order \in SetToSeqs(Dims) : Pick([kind |-> "tree", rules |-> rules, order |-> order])

PickRange ==
  \E size \in {1, PORT} : \E r \in Ranges(size) : Pick([kind |-> "range", r |-> r, size |-> size])

PickPrefix == \E r \in PrefixesOf(IP) : Pick([kind |-> "range", r |-> r, size |-> IP])

PickRule ==
  \E sip \in PrefixesOf(IP), dip \in Addresses, sport \in Ports, proto \in Protocols :
    Pick([kind |-> "rule", rule |-> RuleOf(sip, dip, sport, Mk(0, 9), proto)])

PickFile == \E rules \in Seqs(FileRules, 1, MaxRules) : Pick([kind |-> "file", rules |-> rules])

\* The trees are in descending order of their greatest priority, and no tree
\* answers with a greater one.
PickAnswers ==
  \E bounds \in Seqs(0 .. MaxPriority, 0, MaxTrees) :
    \E answers \in [DOMAIN bounds -> {INVALID} \cup [priority : 0 .. MaxPriority, id : 1 .. MaxTrees]] :
      /\ \A i, j \in DOMAIN bounds : i < j => bounds[i] >= bounds[j]
      /\ \A i \in DOMAIN bounds : answers[i] # INVALID => answers[i].priority <= bounds[i]
      /\ Pick([kind |-> "search", answers |-> answers, bounds |-> bounds])

Next ==
  /\ in.kind = "none"
  /\ \/ PickArray \/ PickIntervals \/ PickTree \/ PickRange
     \/ PickPrefix \/ PickRule \/ PickFile \/ PickAnswers

Spec == Init /\ [][Next]_in

-----------------------------------------------------------------------------
\* array_resort leaves the array in descending order whichever way the key
\* changed, keeps the order of the other items, and does not touch the items
\* behind actual_size, which are trees the classifier has not taken into use.
ResortRestoresOrder ==
  in.kind = "array" =>
    LET items == [i \in 1 .. MaxItems |-> i]
        out   == array_resort(items, in.size, in.changed, in.key)
    IN  /\ \A i \in 1 .. in.size - 1 : in.key[out[i]] >= in.key[out[i + 1]]
        /\ {out[i] : i \in 1 .. MaxItems} = 1 .. MaxItems
        /\ \A i, j \in 1 .. MaxItems :
             i < j /\ in.changed \notin {out[i], out[j]} => out[i] < out[j]
        /\ \A i \in in.size + 1 .. MaxItems : out[i] = i

\* Subsets of the list whose ranges are pairwise related by ok, by position.
Selections(list, ok(_, _)) ==
  {S \in SUBSET DOMAIN list : \A i, j \in S : i # j => ok(list[i], list[j]) \/ ok(list[j], list[i])}

Heaviest(list, ok(_, _)) == Max({Cardinality(S) : S \in Selections(list, ok)})

\* The score of a dimension is never below the greatest number of ranges that
\* have no value in common, whatever the order of the list; when the ranges
\* are all different it is never above the greatest number that the solver's
\* own conflict test, in which ranges may touch, admits.
ScoreBounds ==
  in.kind = "intervals" =>
    LET score == findMaxWeightIntervalSequence(in.list)
    IN  /\ score >= Heaviest(in.list, LAMBDA r, s : r.high < s.low)
        /\ IsInjective(in.list) => score <= Heaviest(in.list, NoConflict)

\* resolve permutes the dimensions, puts those no rule specifies last and
\* never prefers a lower score; dimensions it has no reason to move keep their
\* order, so that resolving the result again changes nothing and an update
\* does not rebuild the tree for ever.
ResolveIsStable ==
  in.kind = "tree" =>
    LET res   == resolve(in.rules, in.order)
        out   == res.order
        used  == used_dims(in.rules, Dims)
        score == [d \in Dims |-> IF d \in used THEN get_dimension_sel_score(in.rules, d) ELSE 0]
    IN  /\ {out[i] : i \in DOMAIN out} = Dims /\ Len(out) = Cardinality(Dims)
        /\ {out[i] : i \in 1 .. res.used_dim_cnt} = used
        /\ \A i, j \in DOMAIN out : i < j =>
             \/ score[out[i]] > score[out[j]]
             \/ /\ score[out[i]] = score[out[j]]
                /\ PlaceOf(out[i], in.order) < PlaceOf(out[j], in.order)
        /\ resolve(in.rules, out) = res

\* Where the trees are in the order of their greatest priorities, stopping
\* at the first tree whose successor cannot do better costs nothing: the
\* search gives the answer of the greatest priority of all trees, none only
\* if no tree has one.
EarlyStopExact ==
  in.kind = "search" =>
    LET res  == search_trees(in.answers, in.bounds)
        hits == {i \in DOMAIN in.answers : in.answers[i] # INVALID}
    IN  IF hits = {} THEN res = INVALID
        ELSE \E i \in hits : /\ res = in.answers[i]
                             /\ \A j \in hits : in.answers[j].priority <= res.priority

\* The length of the prefix all values of the range share, from its ends.
CommonPrefix(r, size) ==
  LET w == max_prefix_len(size)
  IN  Max({p \in 0 .. w : r.low \div 2 ^ (w - p) = r.high \div 2 ^ (w - p)})

\* The masks and prefix lengths, found byte by byte, are those of the common
\* prefix; the big-endian ones of a range in network order are the same
\* seen in that order; and the mask of a prefix gives the prefix back.
MasksAreCommonPrefix ==
  in.kind = "range" =>
    LET r == in.r
        p == CommonPrefix(r, in.size)
        w == max_prefix_len(in.size)
    IN  /\ prefix_len_le(r, in.size) = p
        /\ get_mask_le(r, in.size) = 2 ^ w - 2 ^ (w - p)
        /\ prefix_len_be(to_be(r, in.size), in.size) = p
        /\ get_mask_be(to_be(r, in.size), in.size) = swap_bytes(get_mask_le(r, in.size), in.size)
        /\ IsPrefix1d(r, in.size) => from_mask(r.low, get_mask_le(r, in.size), in.size) = r

MatchesKey(key, packet) == \A d \in DOMAIN key : in_range(key[d], packet[d])

\* A prefix split into two 16-bit ranges matches, word by word and in the
\* order the words of a packet have, exactly the addresses of the prefix.
SplitMatchesExactly ==
  in.kind = "range" /\ in.size = IP =>
    \A v \in 0 .. MaxOf(IP) :
      in_range(in.r, v) <=> MatchesKey(fill(in.r), push_value_32(Mk(v, v), TRUE, FALSE))

Corners == [1 .. 5 -> BOOLEAN]

PacketBytes(words) == FlattenSeq([i \in DOMAIN words |-> Bytes(words[i], PORT)])

\* Where the words of the key are in a packet in network order: the upper half
\* of an address comes first.
NetworkPosition ==
  LET offsets == <<2, 0, 6, 4, 8, 10, 12>>
  IN  [i \in 1 .. 7 |-> [offset |-> offsets[i], size |-> 2, is_big_endian |-> TRUE]]

\* A rule survives the way to the classifier's key and back, every corner
\* packet drawn from it matches that key as the search reads it, in host and
\* in network order, and decoding the two packets gives the same addresses.
PacketsMatchTheirRule ==
  in.kind = "rule" =>
    LET r   == in.rule
        key == rule_to_array_16b(r)
    IN  /\ rule_from_array(key) = r
        /\ \A use_low \in {c \in Corners : c[1] = c[2] /\ c[3] = c[4] /\ c[4] = c[5]} :
             LET host == random_corner(r, use_low, FALSE)
                 net  == random_corner(r, use_low, TRUE)
             IN  /\ MatchesKey(key, host)
                 /\ \A d \in DOMAIN key :
                      /\ get_val(PacketBytes(host), default_in_packet_position[d]) = host[d]
                      /\ get_val(PacketBytes(net), NetworkPosition[d]) = host[d]
                 /\ exact_array_to_rule_be(net) = exact_array_to_rule_le(host)

\* Printing a rule and reading it again gives the rule.
PrintParseRoundTrip == in.kind = "rule" => parse(print_rule(in.rule)) = in.rule

Within(r, s) == s.low <= r.low /\ r.high <= s.high


=============================================================================

---------------------------- MODULE ZendMMBitset ----------------------------
(***************************************************************************)
(* The bitset utilities of zend_alloc.c (component B): a zend_mm_page_map  *)
(* is an array of PAGE_MAP_LEN words of BITSET_LEN bits, bit i of the map  *)
(* being bit (i % BITSET_LEN) of word (i \div BITSET_LEN).  Words are the  *)
(* unsigned integers 0 .. 2^BITSET_LEN - 1 and the C expressions on them   *)
(* are computed at that width: (zend_mm_bitset)-1 is ALL, ~x is ALL - x,   *)
(* (zend_mm_bitset)-1 << b is ALL - (2^b - 1) and (zend_mm_bitset)-1 >> s  *)
(* is 2^(BITSET_LEN - s) - 1.                                              *)
(***************************************************************************)
EXTENDS Integers, FiniteSets, Bitwise

CONSTANTS
    BITSET_LEN,     \* ZEND_MM_BITSET_LEN: bits per word
    PAGE_MAP_LEN    \* ZEND_MM_PAGE_MAP_LEN: words per page map

ASSUME BITSET_LEN \in Nat \ {0} /\ PAGE_MAP_LEN \in Nat \ {0}

MAP_BITS == BITSET_LEN * PAGE_MAP_LEN
ALL == 2^BITSET_LEN - 1
Word == 0 .. ALL
Words == 0 .. PAGE_MAP_LEN - 1

BitOf(x, i) == (x \div 2^i) % 2

\* zend_mm_bitset_nts: the number of trailing 1 bits of a word that is not
\* all ones (the callers never pass ALL)
Nts(x) == CHOOSE n \in 0 .. BITSET_LEN - 1 :
              BitOf(x, n) = 0 /\ \A j \in 0 .. n - 1 : BitOf(x, j) = 1
\* zend_ulong_ntz: the number of trailing 0 bits of a non-zero word
Ntz(x) == Nts(ALL - x)

\* (zend_mm_bitset)-1 << b and (zend_mm_bitset)-1 >> s at word width
OnesFrom(b) == ALL - (2^b - 1)
OnesShr(s) == 2^(BITSET_LEN - s) - 1

\* zend_mm_bitset_find_zero / find_one: the first clear (set) bit, or -1
RECURSIVE FindZeroFrom(_, _)
FindZeroFrom(bs, i) ==
    IF i >= PAGE_MAP_LEN THEN -1
    ELSE IF bs[i] /= ALL THEN i * BITSET_LEN + Nts(bs[i])
    ELSE FindZeroFrom(bs, i + 1)
FindZero(bs) == FindZeroFrom(bs, 0)

RECURSIVE FindOneFrom(_, _)
FindOneFrom(bs, i) ==
    IF i >= PAGE_MAP_LEN THEN -1
    ELSE IF bs[i] /= 0 THEN i * BITSET_LEN + Ntz(bs[i])
    ELSE FindOneFrom(bs, i + 1)
FindOne(bs) == FindOneFrom(bs, 0)

\* zend_mm_bitset_is_set / set_bit / reset_bit
IsSet(bs, bit) == BitOf(bs[bit \div BITSET_LEN], bit % BITSET_LEN) = 1
SetBit(bs, bit) ==
    [bs EXCEPT ![bit \div BITSET_LEN] = @ | 2^(bit % BITSET_LEN)]
ResetBit(bs, bit) ==
    [bs EXCEPT ![bit \div BITSET_LEN] = @ & (ALL - 2^(bit % BITSET_LEN))]

\* RangeMask with the last word taken from start + len, one bit too far
RangeMaskEndOffByOne(start, len, w) ==
    LET pos == start \div BITSET_LEN
        end == (start + len) \div BITSET_LEN
        bit == start % BITSET_LEN
        last == (start + len - 1) % BITSET_LEN
    IN CASE w < pos \/ w > end -> 0
         [] pos = end -> OnesFrom(bit) & OnesShr((BITSET_LEN - 1) - last)
         [] w = pos -> OnesFrom(bit)
         [] w = end -> OnesShr((BITSET_LEN - 1) - last)
         [] OTHER -> ALL

\* The mask a range operation applies to word w: the bits from "bit" to
\* the end of the first word, every bit of the inner words, the bits from
\* 0 to "end" of the last word, or both bounds when pos = end.
RangeMask(start, len, w) ==
    LET pos == start \div BITSET_LEN
        end == (start + len - 1) \div BITSET_LEN
        bit == start % BITSET_LEN
        last == (start + len - 1) % BITSET_LEN
    IN CASE w < pos \/ w > end -> 0
         [] pos = end -> OnesFrom(bit) & OnesShr((BITSET_LEN - 1) - last)
         [] w = pos -> OnesFrom(bit)
         [] w = end -> OnesShr((BITSET_LEN - 1) - last)
         [] OTHER -> ALL

\* zend_mm_bitset_set_range
SetRange(bs, start, len) ==
    IF len = 1 THEN SetBit(bs, start)
    ELSE [w \in Words |-> bs[w] | RangeMask(start, len, w)]

\* zend_mm_bitset_reset_range
ResetRange(bs, start, len) ==
    IF len = 1 THEN ResetBit(bs, start)
    ELSE [w \in Words |-> bs[w] & (ALL - RangeMask(start, len, w))]

\* zend_mm_bitset_is_free_range
IsFreeRange(bs, start, len) ==
    IF len = 1 THEN ~IsSet(bs, start)
    ELSE \A w \in Words : (bs[w] & RangeMask(start, len, w)) = 0


(***************************************************************************)
(* The word-level operations against their meaning as sets of bit numbers, *)
(* over every page map of the configured size (a constant-level check).    *)
(***************************************************************************)
\* the set of bit numbers a page map holds
Bits(m) == {i \in 0 .. MAP_BITS - 1 : IsSet(m, i)}
Ranges == {r \in (0 .. MAP_BITS - 1) \X (1 .. MAP_BITS) : r[1] + r[2] <= MAP_BITS}
Span(r) == r[1] .. r[1] + r[2] - 1
LeastBit(S) == CHOOSE i \in S : \A j \in S : i <= j

\* the operations on one page map bs agree with their meaning as sets
OpsMatchSetsOn(bs) ==
    /\ \A r \in Ranges :
          /\ Bits(SetRange(bs, r[1], r[2])) = Bits(bs) \cup Span(r)
          /\ Bits(ResetRange(bs, r[1], r[2])) = Bits(bs) \ Span(r)
          /\ IsFreeRange(bs, r[1], r[2]) = (Span(r) \cap Bits(bs) = {})
    /\ FindZero(bs) = IF Bits(bs) = 0 .. MAP_BITS - 1 THEN -1
                      ELSE LeastBit((0 .. MAP_BITS - 1) \ Bits(bs))
    /\ FindOne(bs) = IF Bits(bs) = {} THEN -1 ELSE LeastBit(Bits(bs))

\* zend_mm_bitset_set_range, reset_range and is_free_range, as used by
\* alloc_pages, free_pages and realloc, act on exactly the bits
\* start .. start+len-1 whichever words the range starts, spans and ends
\* in; find_zero and find_one return the lowest clear and set bit.
BitsetOpsMatchSets == \A bs \in [Words -> Word] : OpsMatchSetsOn(bs)

====

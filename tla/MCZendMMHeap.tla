---------------------------- MODULE MCZendMMHeap ----------------------------
(***************************************************************************)
(* Instances of ZendMMHeap for TLC: chunks of 4 pages (page 0 the header), *)
(* pages of 4 units, a bin of 1-unit cells in 1-page runs and a bin of     *)
(* 2-unit cells in 2-page runs (an SRUN followed by an NRUN), and large    *)
(* requests of 1 and 2 pages.                                              *)
(***************************************************************************)
EXTENDS ZendMMHeap, TLC

MCBinSize == (0 :> 1) @@ (1 :> 2)
MCBinElements == (0 :> 4) @@ (1 :> 4)
MCBinPages == (0 :> 1) @@ (1 :> 2)

\* the bitset operations over page maps of four 2-bit words, in which a
\* range can start in one word, span an inner word and end in a third
BS4 == INSTANCE ZendMMBitset WITH BITSET_LEN <- 2, PAGE_MAP_LEN <- 4

\* zend_mm_bitset_set_range, reset_range and is_free_range act on exactly
\* the bits of their range, and find_zero and find_one return the lowest
\* clear and set bit, on every free_map the heap holds and on every page
\* map of four words (ZendMMBitset's BitsetOpsMatchSets at that size)
BitsetOpsMatchSets ==
    /\ \A c \in mm.os : B!OpsMatchSetsOn(mm.ch[c].free_map)
    /\ BS4!BitsetOpsMatchSets

\* the non-main chunks are interchangeable addresses
MCSymmetry == Permutations(Chunks \ {MAIN})
=============================================================================

------------------------------ MODULE ZendHash ------------------------------
(***************************************************************************)
(* The Zend HashTable (src/Zend/zend_hash.c) together with the process-    *)
(* wide iterator registry EG(ht_iterators) it notifies.                    *)
(*                                                                         *)
(* A table is a record with the fields of struct _zend_array that the      *)
(* operations read or write.  arData is the bucket array, hash the slot    *)
(* array in front of it (HT_HASH), both indexed 0..HT_MAX_SIZE-1 and only  *)
(* meaningful below nTableSize.  The flags word is split into the two bits *)
(* the code branches on: HASH_FLAG_INITIALIZED and HASH_FLAG_PACKED.  A    *)
(* packed table keeps nTableMask = HT_MIN_MASK, so its two hash slots are  *)
(* HT_INVALID_IDX: here every slot of a packed table is HT_INVALID_IDX.    *)
(*                                                                         *)
(* Keys are integers (zend_ulong h, key == NULL) or interned strings whose *)
(* hash StrHash is cached, so a bucket stores only its key; h is H(key).   *)
(* A bucket's u2.next is the field next.  Memory that an allocation has    *)
(* not written is the value JUNK: reading it is undefined behaviour.       *)
(***************************************************************************)
EXTENDS Integers, Sequences, FiniteSets, FiniteSetsExt, SequencesExt

CONSTANTS
    Tables,          \* the arrays in play (model values)
    Strs,            \* string keys (model values)
    StrHash,         \* [Strs -> Nat]: ZSTR_H of each string key
    IntKeys,         \* integer keys the callers pass (may be negative)
    Vals,            \* values stored in buckets (model values)
    NULL, UNDEF, JUNK,
    HT_MIN_SIZE,     \* abstracts 8
    HT_MAX_SIZE,     \* abstracts 0x80000000
    ZEND_LONG_MAX,   \* abstracts 2^63-1, the saturation of nNextFreeElement
    ITER_COUNT_MAX,  \* abstracts 255, where the 8-bit nIteratorsCount sticks
    ITER_SLOTS,      \* abstracts 16, the size of EG(ht_iterators_slots)
    ITER_GROW,       \* abstracts 8, the registry growth step
    MAX_ITER_SLOTS,  \* bound on the registry size (a model bound)
    MAX_FOREACH,     \* bound on the foreach loops active at once (a model bound)
    STRICT_NEW,      \* TRUE: callers of the *_new functions meet the
                     \* precondition the code relies on (see NewCallerOk)
    BULK_OPS,        \* TRUE: the sort, apply, merge and copy functions are
                     \* in play (a model bound: FALSE leaves them out)
    EXTEND_OPS,      \* TRUE: zend_hash_extend is in play (a model bound; its
                     \* one caller extends a clone's fresh property table)
    MERGE_SOURCES,   \* the source arrays merged or copied in, each a
                     \* sequence of [key, val] entries with distinct keys
    SrcVals          \* the values those entries carry (may lie outside Vals,
                     \* so that an overwrite is told from a kept value)

ASSUME /\ HT_MIN_SIZE \in Nat \ {0} /\ HT_MAX_SIZE \in Nat
       /\ HT_MIN_SIZE < HT_MAX_SIZE
       /\ StrHash \in [Strs -> Nat]
       /\ ITER_GROW \in Nat \ {0} /\ ITER_SLOTS \in Nat \ {0}
       /\ MAX_ITER_SLOTS >= ITER_SLOTS /\ MAX_FOREACH \in Nat
       /\ STRICT_NEW \in BOOLEAN /\ BULK_OPS \in BOOLEAN /\ EXTEND_OPS \in BOOLEAN
       /\ \A src \in MERGE_SOURCES :
             /\ src \in Seq([key : Strs \cup IntKeys \cup (0 .. ZEND_LONG_MAX), val : SrcVals])
             /\ Len(src) < HT_MAX_SIZE
             /\ IsInjective([i \in DOMAIN src |-> src[i].key])

VARIABLES
    hts,        \* hts[t]: the HashTable t
    iters,      \* EG(ht_iterators)[i] = [ht, pos]
    itersUsed,  \* EG(ht_iterators_used)
    itersCount, \* EG(ht_iterators_count)
    halted,     \* zend_error_noreturn ended the request
    seen,       \* history: keys each foreach has visited
    stable      \* history: keys present ever since each foreach started

vars == <<hts, iters, itersUsed, itersCount, halted, seen, stable>>

HT_INVALID_IDX == 2147483647   \* (uint32_t)-1: larger than every index
HT_POISONED_PTR == "POISONED"  \* (HashTable *)-1: an iterator whose table is gone
\* the address of a table that zend_array_destroy has freed, as a registry
\* entry still holds it
DANGLING == "DANGLING"
Idx == 0 .. HT_MAX_SIZE - 1
Slots == 0 .. MAX_ITER_SLOTS - 1
NextKeys == 0 .. ZEND_LONG_MAX
Keys == Strs \cup IntKeys \cup NextKeys

\* the flag bits of _zend_hash_add_or_update_i / _zend_hash_index_add_or_update_i
HASH_UPDATE == "UPDATE"
HASH_ADD == "ADD"
HASH_ADD_NEW == "ADD_NEW"
HASH_ADD_NEXT == "ADD_NEXT"

UndefBucket == [key |-> NULL, val |-> UNDEF, next |-> HT_INVALID_IDX]
JunkBucket == [key |-> NULL, val |-> JUNK, next |-> HT_INVALID_IDX]
ResetHash == [s \in Idx |-> HT_INVALID_IDX]       \* HT_HASH_RESET

H(k) == IF k \in Strs THEN StrHash[k] ELSE k
\* h | nTableMask read as an offset: h mod nTableSize (TLC's % is the
\* non-negative residue, which is the zend_ulong residue of a negative key)
Slot(t, k) == H(k) % t.nTableSize
\* the unsigned compare (zend_ulong)h < n
Below(k, n) == k \notin Strs /\ k >= 0 /\ k < n
IsLive(b) == b.val /= UNDEF
LiveIdx(t) == {i \in 0 .. t.nNumUsed - 1 : IsLive(t.arData[i])}
LiveKeys(t) == {t.arData[i].key : i \in LiveIdx(t)}

\* zend_hash_check_size(0) for _zend_hash_init(ht, 0, ...)
NewTable == [initialized |-> FALSE, packed |-> FALSE,
             nTableSize |-> HT_MIN_SIZE, nNumUsed |-> 0,
             nNumOfElements |-> 0, nInternalPointer |-> HT_INVALID_IDX,
             nNextFreeElement |-> 0, nIteratorsCount |-> 0,
             arData |-> [i \in Idx |-> JunkBucket], hash |-> ResetHash]

\* zend_hash_real_init_ex: fresh pemalloc'ed buckets, slots reset
RealInit(t, packed) ==
    [t EXCEPT !.initialized = TRUE, !.packed = packed,
              !.arData = [i \in Idx |-> JunkBucket], !.hash = ResetHash]

\* a new block of which only the first nNumUsed buckets are copied
CopyUsed(t) == [i \in Idx |-> IF i < t.nNumUsed THEN t.arData[i] ELSE JunkBucket]

(***************************************************************************)
(* The iterator registry operations the table calls.                       *)
(***************************************************************************)
\* _zend_hash_iterators_update
ItersMove(its, tid, from, to) ==
    [i \in Slots |-> IF i < itersUsed /\ its[i].ht = tid /\ its[i].pos = from
                     THEN [its[i] EXCEPT !.pos = to] ELSE its[i]]

\* zend_hash_iterators_update: a no-op while nIteratorsCount == 0
ItersUpdate(t, its, tid, from, to) ==
    IF t.nIteratorsCount = 0 THEN its ELSE ItersMove(its, tid, from, to)

\* zend_hash_iterators_lower_pos
LowerPos(its, tid, start) ==
    LET ps == {its[i].pos : i \in {i \in Slots : i < itersUsed /\ its[i].ht = tid
                                       /\ its[i].pos >= start
                                       /\ its[i].pos < HT_INVALID_IDX}}
    IN IF ps = {} THEN HT_INVALID_IDX ELSE Min(ps)

(***************************************************************************)
(* Lookup: zend_hash_find_bucket / zend_hash_index_find_bucket walk the    *)
(* collision chain from HT_HASH(ht, h | nTableMask); a packed table is     *)
(* indexed directly (zend_hash_index_find).  Result: the bucket index and  *)
(* its predecessor in the chain (HT_INVALID_IDX for none).                 *)
(***************************************************************************)
RECURSIVE ChainFind(_, _, _, _, _)
ChainFind(t, k, idx, prev, fuel) ==
    IF idx = HT_INVALID_IDX \/ fuel = 0
    THEN [idx |-> HT_INVALID_IDX, prev |-> HT_INVALID_IDX]
    ELSE IF t.arData[idx].key = k
         THEN [idx |-> idx, prev |-> prev]
         ELSE ChainFind(t, k, t.arData[idx].next, idx, fuel - 1)

Find(t, k) ==
    IF t.packed
    THEN [idx |-> IF Below(k, t.nNumUsed) /\ IsLive(t.arData[k])
                  THEN k ELSE HT_INVALID_IDX,
          prev |-> HT_INVALID_IDX]
    ELSE ChainFind(t, k, t.hash[Slot(t, k)], HT_INVALID_IDX, HT_MAX_SIZE)

(***************************************************************************)
(* zend_hash_rehash.  Link prepends bucket i to its chain.  The operators  *)
(* below return [t |-> table, its |-> registry].                           *)
(***************************************************************************)
Link(t, i) ==
    LET s == Slot(t, t.arData[i].key)
    IN [t EXCEPT !.arData[i].next = t.hash[s], !.hash[s] = i]

RECURSIVE LinkUpTo(_, _)
\* link buckets 0 .. n-1 in index order
LinkUpTo(t, n) ==
    IF n = 0 THEN t ELSE CHOOSE x \in {Link(u, n - 1) : u \in {LinkUpTo(t, n - 1)}} : TRUE

\* do { zend_hash_iterators_update(ht, iter_pos, j);
\*      iter_pos = zend_hash_iterators_lower_pos(ht, iter_pos + 1);
\* } while (iter_pos < i);
RECURSIVE ShiftIters(_, _, _, _, _)
ShiftIters(tid, its, iterPos, i, j) ==
    LET its1 == ItersMove(its, tid, iterPos, j)
        nxt == LowerPos(its1, tid, iterPos + 1)
    IN IF nxt < i THEN ShiftIters(tid, its1, nxt, i, j)
                  ELSE [its |-> its1, pos |-> nxt]

\* Seeded faults in the compaction loop, each a plausible slip in its C:
\* CompactKeepIp drops the nInternalPointer = j fix-up, CompactSkip
\* advances the read cursor twice after a copy.
RECURSIVE CompactKeepIp(_, _, _, _, _, _, _)
CompactKeepIp(tid, withIters, t, its, j, iterPos, i) ==
    IF i >= t.nNumUsed
    THEN [t |-> [t EXCEPT !.nNumUsed = j], its |-> its]
    ELSE IF ~IsLive(t.arData[i])
    THEN CompactKeepIp(tid, withIters, t, its, j, iterPos, i + 1)
    ELSE LET t1 == Link([t EXCEPT !.arData[j] = t.arData[i]], j)
             sh == IF withIters /\ i >= iterPos
                   THEN ShiftIters(tid, its, iterPos, i, j)
                   ELSE [its |-> its, pos |-> iterPos]
         IN CompactKeepIp(tid, withIters, t1, sh.its, j + 1, sh.pos, i + 1)

RECURSIVE CompactSkip(_, _, _, _, _, _, _)
CompactSkip(tid, withIters, t, its, j, iterPos, i) ==
    IF i >= t.nNumUsed
    THEN [t |-> [t EXCEPT !.nNumUsed = j], its |-> its]
    ELSE IF ~IsLive(t.arData[i])
    THEN CompactSkip(tid, withIters, t, its, j, iterPos, i + 1)
    ELSE LET t1 == Link([t EXCEPT !.arData[j] = t.arData[i],
                                  !.nInternalPointer = IF @ = i THEN j ELSE @], j)
             sh == IF withIters /\ i >= iterPos
                   THEN ShiftIters(tid, its, iterPos, i, j)
                   ELSE [its |-> its, pos |-> iterPos]
         IN CompactSkip(tid, withIters, t1, sh.its, j + 1, sh.pos, i + 2)

\* the compaction loop after the first hole: read cursor i, write cursor j
\* (the table and registry after a copy are bound as values, t1 and sh)
RECURSIVE Compact(_, _, _, _, _, _, _)
Compact(tid, withIters, t, its, j, iterPos, i) ==
    IF i >= t.nNumUsed
    THEN [t |-> [t EXCEPT !.nNumUsed = j], its |-> its]
    ELSE IF ~IsLive(t.arData[i])
    THEN Compact(tid, withIters, t, its, j, iterPos, i + 1)
    ELSE CHOOSE res \in
           { Compact(tid, withIters, t1, sh.its, j + 1, sh.pos, i + 1) :
               t1 \in {Link([t EXCEPT !.arData[j] = t.arData[i],
                                      !.nInternalPointer = IF @ = i THEN j ELSE @], j)},
               sh \in {IF withIters /\ i >= iterPos
                       THEN ShiftIters(tid, its, iterPos, i, j)
                       ELSE [its |-> its, pos |-> iterPos]} } : TRUE

FirstHole(t) == Min({i \in 0 .. t.nNumUsed - 1 : ~IsLive(t.arData[i])})

Rehash(t, tid, its) ==
    IF t.nNumOfElements = 0
    THEN [t |-> IF t.initialized THEN [t EXCEPT !.nNumUsed = 0, !.hash = ResetHash]
                                 ELSE t,
          its |-> its]
    ELSE LET t0 == [t EXCEPT !.hash = ResetHash]
         IN IF t.nNumUsed = t.nNumOfElements          \* HT_IS_WITHOUT_HOLES
            THEN [t |-> LinkUpTo(t0, t.nNumUsed), its |-> its]
            ELSE LET i0 == FirstHole(t)
                     withIters == t.nIteratorsCount /= 0
                 IN Compact(tid, withIters, LinkUpTo(t0, i0), its, i0,
                            IF withIters THEN LowerPos(its, tid, 0)
                                         ELSE HT_INVALID_IDX,
                            i0 + 1)

\* zend_hash_do_resize; err: the zend_error_noreturn branch
DoResize(t, tid, its) ==
    IF t.nNumUsed > t.nNumOfElements + (t.nNumOfElements \div 32)
    THEN [err |-> FALSE] @@ Rehash(t, tid, its)
    ELSE IF t.nTableSize < HT_MAX_SIZE
    THEN [err |-> FALSE] @@ Rehash([t EXCEPT !.nTableSize = 2 * @,
                                            !.arData = CopyUsed(t)], tid, its)
    ELSE [t |-> t, its |-> its, err |-> TRUE]

\* ZEND_HASH_IF_FULL_DO_RESIZE
ResizeIfFull(t, tid, its) ==
    IF t.nNumUsed >= t.nTableSize THEN DoResize(t, tid, its)
                                  ELSE [t |-> t, its |-> its, err |-> FALSE]

\* zend_hash_packed_to_hash: same nTableSize, new block, rehash
PackedToHash(t, tid, its) ==
    Rehash([t EXCEPT !.packed = FALSE, !.arData = CopyUsed(t), !.hash = ResetHash],
           tid, its)

\* zend_hash_packed_grow: perealloc2 keeps only HT_USED_SIZE
PackedGrow(t) ==
    [t EXCEPT !.nTableSize = 2 * @, !.arData = CopyUsed(t)]

\* zend_hash_check_size: the least power of two not below nSize, at least
\* HT_MIN_SIZE (a caller checks nSize < HT_MAX_SIZE, the zend_error_noreturn)
CheckSize(nSize) ==
    Min({s \in {HT_MIN_SIZE * 2^i : i \in 0 .. HT_MAX_SIZE} : s >= nSize})

(***************************************************************************)
(* Insertion.  The results are [t, its, err, ok]: the table, the registry, *)
(* whether zend_error_noreturn fired, and whether a bucket was written     *)
(* (the NULL return of an ADD onto an existing key is ok = FALSE).         *)
(***************************************************************************)
Done(t, its, ok) == [t |-> t, its |-> its, err |-> FALSE, ok |-> ok]
Fatal(t, its) == [t |-> t, its |-> its, err |-> TRUE, ok |-> FALSE]

\* seeded fault: no saturation at ZEND_LONG_MAX
NextFreeNoSaturation(nf, h) == IF h >= nf THEN h + 1 ELSE nf

\* nNextFreeElement after storing integer key h
NextFree(nf, h) ==
    IF h >= nf THEN (IF h < ZEND_LONG_MAX THEN h + 1 ELSE ZEND_LONG_MAX) ELSE nf

\* seeded fault: add_to_hash without the nNextFreeElement update
AddToHashNoNextFree(t, tid, its, k, v) ==
    LET idx == t.nNumUsed
        t1 == [t EXCEPT !.nNumUsed = @ + 1, !.nNumOfElements = @ + 1,
                        !.nInternalPointer = IF @ = HT_INVALID_IDX THEN idx ELSE @,
                        !.arData[idx] = [key |-> k, val |-> v, next |-> HT_INVALID_IDX]]
    IN Done(Link(t1, idx), ItersUpdate(t, its, tid, HT_INVALID_IDX, idx), TRUE)

\* the add_to_hash label of both insert functions
AddToHash(t, tid, its, k, v) ==
    LET idx == t.nNumUsed
        t1 == [t EXCEPT !.nNumUsed = @ + 1, !.nNumOfElements = @ + 1,
                        !.nInternalPointer = IF @ = HT_INVALID_IDX THEN idx ELSE @,
                        !.nNextFreeElement = IF k \in Strs THEN @ ELSE NextFree(@, k),
                        !.arData[idx] = [key |-> k, val |-> v, next |-> HT_INVALID_IDX]]
    IN Done(Link(t1, idx), ItersUpdate(t, its, tid, HT_INVALID_IDX, idx), TRUE)

\* the add_to_packed label.  With HASH_ADD_NEW|HASH_ADD_NEXT the buckets
\* between nNumUsed and h are not initialised; junkAsUndef is what the
\* uninitialised memory happens to read as.
AddToPacked(t, tid, its, h, v, flags, junkAsUndef) ==
    LET used == t.nNumUsed
        noFill == {HASH_ADD_NEW, HASH_ADD_NEXT} \subseteq flags
        gap(i) == i >= used /\ i < h
        data == [i \in Idx |->
                   IF i = h THEN [key |-> h, val |-> v, next |-> HT_INVALID_IDX]
                   ELSE IF gap(i) /\ (~noFill \/ (junkAsUndef /\ t.arData[i].val = JUNK))
                   THEN UndefBucket
                   ELSE t.arData[i]]
        t1 == [t EXCEPT !.arData = data,
                        !.nNumUsed = IF noFill \/ h >= used THEN h + 1 ELSE @,
                        !.nNumOfElements = @ + 1,
                        !.nInternalPointer = IF @ = HT_INVALID_IDX THEN h ELSE @,
                        !.nNextFreeElement = NextFree(@, h)]
    IN Done(t1, ItersUpdate(t, its, tid, HT_INVALID_IDX, h), TRUE)

\* ZEND_HASH_IF_FULL_DO_RESIZE followed by add_to_hash
ResizeAndAdd(t, tid, its, k, v) ==
    CHOOSE res \in {IF rs.err THEN Fatal(t, its) ELSE AddToHash(rs.t, tid, rs.its, k, v) :
                    rs \in {ResizeIfFull(t, tid, its)}} : TRUE

\* the initialised, hashed branch shared by both insert functions
HashedAddOrUpdate(t, tid, its, k, v, flags) ==
    LET f == Find(t, k).idx
    IN IF HASH_ADD_NEW \notin flags /\ f /= HT_INVALID_IDX
       THEN IF HASH_ADD \in flags
            THEN Done(t, its, FALSE)
            ELSE Done([t EXCEPT !.arData[f].val = v,
                                !.nNextFreeElement = IF k \in Strs THEN @
                                                     ELSE NextFree(@, k)],
                      its, TRUE)
       ELSE ResizeAndAdd(t, tid, its, k, v)

\* _zend_hash_add_or_update_i (HASH_UPDATE_INDIRECT excluded)
AddOrUpdate(t, tid, its, k, v, flags) ==
    CASE ~t.initialized -> AddToHash(RealInit(t, FALSE), tid, its, k, v)
      [] t.packed -> LET c == PackedToHash(t, tid, its)
                     IN ResizeAndAdd(c.t, tid, c.its, k, v)
      [] OTHER -> HashedAddOrUpdate(t, tid, its, k, v, flags)

\* _zend_hash_index_add_or_update_i
IndexAddOrUpdate(t, tid, its, h, v, flags, junkAsUndef) ==
    LET size == t.nTableSize
        ConvertAndAdd == LET c == PackedToHash(t, tid, its)
                         IN ResizeAndAdd(c.t, tid, c.its, h, v)
    IN CASE ~t.initialized ->
              IF Below(h, size)
              THEN AddToPacked(RealInit(t, TRUE), tid, its, h, v, flags, junkAsUndef)
              ELSE AddToHash(RealInit(t, FALSE), tid, its, h, v)
         [] t.packed /\ Below(h, t.nNumUsed) ->
              IF ~IsLive(t.arData[h]) THEN ConvertAndAdd
              ELSE IF HASH_ADD \in flags THEN Done(t, its, FALSE)
              ELSE Done([t EXCEPT !.arData[h].val = v], its, TRUE)
         [] t.packed /\ Below(h, size) ->
              AddToPacked(t, tid, its, h, v, flags, junkAsUndef)
         [] t.packed /\ h >= 0 /\ h \div 2 < size /\ size \div 2 < t.nNumOfElements ->
              IF size >= HT_MAX_SIZE THEN Fatal(t, its)
              ELSE AddToPacked(PackedGrow(t), tid, its, h, v, flags, junkAsUndef)
         [] t.packed -> ConvertAndAdd
         [] OTHER -> HashedAddOrUpdate(t, tid, its, h, v, flags)

(***************************************************************************)
(* Deletion: _zend_hash_del_el_ex, with prev found by the lookup.          *)
(***************************************************************************)
\* the next live bucket after idx below n, else HT_INVALID_IDX
NextLive(t, idx, n) ==
    LET s == {i \in idx + 1 .. n - 1 : IsLive(t.arData[i])}
    IN IF s = {} THEN HT_INVALID_IDX ELSE Min(s)

\* Seeded faults in _zend_hash_del_el_ex: DelElNoPrev always unlinks at
\* the hash slot, DelElNoTrim decrements nNumUsed once without the loop
\* over trailing IS_UNDEF buckets.
DelElNoPrev(t, tid, its, idx, prev) ==
    LET b == t.arData[idx]
        t1 == IF t.packed THEN t ELSE [t EXCEPT !.hash[Slot(t, b.key)] = b.next]
        used == IF idx = t.nNumUsed - 1
                THEN Max({0} \cup {i + 1 : i \in {i \in 0 .. idx - 1 : IsLive(t.arData[i])}})
                ELSE t.nNumUsed
        move == t.nInternalPointer = idx \/ t.nIteratorsCount /= 0
        newIdx == NextLive(t, idx, used)
        t2 == [t1 EXCEPT !.nNumUsed = used, !.nNumOfElements = @ - 1,
                         !.nInternalPointer = IF move /\ @ = idx THEN newIdx ELSE @,
                         !.arData[idx] = UndefBucket]
    IN Done(t2, IF move THEN ItersUpdate(t, its, tid, idx, newIdx) ELSE its, TRUE)

DelElNoTrim(t, tid, its, idx, prev) ==
    LET b == t.arData[idx]
        t1 == IF t.packed THEN t
              ELSE IF prev /= HT_INVALID_IDX
              THEN [t EXCEPT !.arData[prev].next = b.next]
              ELSE [t EXCEPT !.hash[Slot(t, b.key)] = b.next]
        used == IF idx = t.nNumUsed - 1 THEN idx ELSE t.nNumUsed
        move == t.nInternalPointer = idx \/ t.nIteratorsCount /= 0
        newIdx == NextLive(t, idx, used)
        t2 == [t1 EXCEPT !.nNumUsed = used, !.nNumOfElements = @ - 1,
                         !.nInternalPointer = IF move /\ @ = idx THEN newIdx ELSE @,
                         !.arData[idx] = UndefBucket]
    IN Done(t2, IF move THEN ItersUpdate(t, its, tid, idx, newIdx) ELSE its, TRUE)

DelEl(t, tid, its, idx, prev) ==
    LET b == t.arData[idx]
        t1 == IF t.packed THEN t
              ELSE IF prev /= HT_INVALID_IDX
              THEN [t EXCEPT !.arData[prev].next = b.next]
              ELSE [t EXCEPT !.hash[Slot(t, b.key)] = b.next]
        used == IF idx = t.nNumUsed - 1
                THEN Max({0} \cup {i + 1 : i \in {i \in 0 .. idx - 1 : IsLive(t.arData[i])}})
                ELSE t.nNumUsed
        move == t.nInternalPointer = idx \/ t.nIteratorsCount /= 0
        newIdx == NextLive(t, idx, used)
        t2 == [t1 EXCEPT !.nNumUsed = used, !.nNumOfElements = @ - 1,
                         !.nInternalPointer = IF move /\ @ = idx THEN newIdx ELSE @,
                         !.arData[idx] = UndefBucket]
    IN Done(t2, IF move THEN ItersUpdate(t, its, tid, idx, newIdx) ELSE its, TRUE)

\* zend_hash_del and zend_hash_index_del
Del(t, tid, its, k) ==
    LET f == Find(t, k)
    IN IF f.idx = HT_INVALID_IDX THEN Done(t, its, FALSE)
                                 ELSE DelEl(t, tid, its, f.idx, f.prev)

\* the chain predecessor of bucket idx, walking from bucket i
RECURSIVE ChainPrevFrom(_, _, _, _)
ChainPrevFrom(t, idx, i, fuel) ==
    IF fuel = 0 \/ i = HT_INVALID_IDX THEN HT_INVALID_IDX
    ELSE IF t.arData[i].next = idx THEN i
    ELSE ChainPrevFrom(t, idx, t.arData[i].next, fuel - 1)

\* seeded fault: _zend_hash_del_el without the chain walk
DelElAtNoPrev(t, tid, its, idx) == DelEl(t, tid, its, idx, HT_INVALID_IDX)

\* _zend_hash_del_el: find the predecessor of bucket idx in its chain
\* (none when packed or when idx heads the chain), then _zend_hash_del_el_ex
DelElAt(t, tid, its, idx) ==
    LET head == t.hash[Slot(t, t.arData[idx].key)]
    IN DelEl(t, tid, its, idx,
             IF t.packed \/ head = idx THEN HT_INVALID_IDX
             ELSE ChainPrevFrom(t, idx, head, HT_MAX_SIZE))

(***************************************************************************)
(* zend_hash_apply[_with_argument[s]] and zend_hash_reverse_apply.  The     *)
(* callback's answers are the inputs: rm are the live buckets it answers    *)
(* ZEND_HASH_APPLY_REMOVE for, stop the one it answers ..._STOP for         *)
(* (HT_INVALID_IDX: none).  The loop re-reads nNumUsed, which a removal at  *)
(* the tail lowers.  The recursion-protection count goes up and back down;  *)
(* the callbacks modelled do not apply to the same table again.            *)
(***************************************************************************)
RECURSIVE ApplyFrom(_, _, _, _, _), ApplyStep(_, _, _, _, _)
ApplyFrom(tid, r, rm, stop, idx) ==
    IF idx >= r.t.nNumUsed THEN r
    ELSE IF ~IsLive(r.t.arData[idx]) THEN ApplyFrom(tid, r, rm, stop, idx + 1)
    ELSE ApplyStep(tid, IF idx \in rm THEN DelElAt(r.t, tid, r.its, idx) ELSE r,
                   rm, stop, idx)
ApplyStep(tid, r, rm, stop, idx) ==
    IF idx = stop THEN r ELSE ApplyFrom(tid, r, rm, stop, idx + 1)

\* the loop of zend_hash_reverse_apply over the buckets below idx
RECURSIVE ReverseApplyFrom(_, _, _, _, _), ReverseApplyStep(_, _, _, _, _)
ReverseApplyFrom(tid, r, rm, stop, idx) ==
    IF idx = 0 THEN r
    ELSE IF ~IsLive(r.t.arData[idx - 1]) THEN ReverseApplyFrom(tid, r, rm, stop, idx - 1)
    ELSE ReverseApplyStep(tid, IF idx - 1 \in rm
                               THEN DelElAt(r.t, tid, r.its, idx - 1) ELSE r,
                          rm, stop, idx - 1)
ReverseApplyStep(tid, r, rm, stop, idx) ==
    IF idx = stop THEN r ELSE ReverseApplyFrom(tid, r, rm, stop, idx)

(***************************************************************************)
(* zend_hash_merge, zend_hash_merge_ex and zend_hash_copy: the source's     *)
(* live buckets, in order, are stored into the target by the insert        *)
(* functions.  pick are the source buckets stored (merge_ex: those its     *)
(* checker accepts); a zend_error_noreturn in an insert ends the loop.     *)
(* IS_INDIRECT sources are not modelled.                                   *)
(***************************************************************************)
\* zend_hash_update / zend_hash_add on a string key, the index_ variant on
\* an integer key
KeyInsert(t, tid, its, k, v, flags) ==
    IF k \in Strs THEN AddOrUpdate(t, tid, its, k, v, flags)
                  ELSE IndexAddOrUpdate(t, tid, its, k, v, flags, TRUE)

\* the loop of _zend_hash_merge / zend_hash_merge_ex from source bucket idx
\* (the result of each step is taken as a value, {... : r \in {r0}}, so
\* that it is computed once however often the next step reads it)
RECURSIVE MergeFrom(_, _, _, _, _, _)
MergeFrom(tid, r0, s, flags, pick, idx) ==
    CHOOSE res \in
        { IF r.err \/ idx >= s.nNumUsed THEN r
          ELSE MergeFrom(tid, IF idx \in pick
                              THEN KeyInsert(r.t, tid, r.its, s.arData[idx].key,
                                             s.arData[idx].val, flags)
                              ELSE r,
                         s, flags, pick, idx + 1) : r \in {r0} } : TRUE

\* the closing loop of both merges: the internal pointer to the first
\* live bucket of a non-empty target
FirstLivePointer(r) ==
    IF r.err \/ r.t.nNumOfElements = 0 THEN r
    ELSE [r EXCEPT !.t.nInternalPointer = Min(LiveIdx(r.t))]

\* the closing loop of zend_hash_copy: the same, when the pointer is invalid
InvalidToFirstLive(r) ==
    IF ~r.err /\ r.t.nInternalPointer = HT_INVALID_IDX THEN FirstLivePointer(r) ELSE r

\* seeded fault: a merge that leaves the internal pointer where it was
MergeKeepPointer(t, tid, its, s, flags, pick) ==
    MergeFrom(tid, Done(t, its, TRUE), s, flags, pick, 0)

\* _zend_hash_merge (flags {HASH_UPDATE} when overwriting, else {HASH_ADD},
\* pick every live bucket) and zend_hash_merge_ex ({HASH_UPDATE}, pick the
\* buckets the checker accepts)
HashMerge(t, tid, its, s, flags, pick) ==
    CHOOSE res \in {FirstLivePointer(r) :
                    r \in {MergeFrom(tid, Done(t, its, TRUE), s, flags, pick, 0)}} : TRUE

\* the loop of zend_hash_copy: with setPtr (the target's pointer was
\* invalid at the start) the pointer is made invalid again just before the
\* source's current bucket is stored, so that this insert sets it
RECURSIVE CopyFrom(_, _, _, _, _), CopyStore(_, _, _, _, _)
CopyFrom(tid, r0, s, setPtr, idx) ==
    CHOOSE res \in
        { IF r.err \/ idx >= s.nNumUsed THEN r
          ELSE IF ~IsLive(s.arData[idx]) THEN CopyFrom(tid, r, s, setPtr, idx + 1)
          ELSE CopyStore(tid, IF setPtr /\ s.nInternalPointer = idx
                              THEN [r EXCEPT !.t.nInternalPointer = HT_INVALID_IDX]
                              ELSE r,
                         s, setPtr, idx) : r \in {r0} } : TRUE
\* zend_hash_update / zend_hash_index_update of source bucket idx
CopyStore(tid, r0, s, setPtr, idx) ==
    CHOOSE res \in
        { CopyFrom(tid, KeyInsert(r.t, tid, r.its, s.arData[idx].key, s.arData[idx].val,
                                  {HASH_UPDATE}),
                   s, setPtr, idx + 1) : r \in {r0} } : TRUE

\* zend_hash_copy
HashCopy(t, tid, its, s) ==
    CHOOSE res \in {InvalidToFirstLive(r) :
                    r \in {CopyFrom(tid, Done(t, its, TRUE), s,
                                     t.nInternalPointer = HT_INVALID_IDX, 0)}} : TRUE

(***************************************************************************)
(* zend_hash_compare.  rank orders the string keys as their length and    *)
(* bytes do, cmp is the element comparator (its sign); the recursion      *)
(* guard and IS_INDIRECT values are not modelled.                          *)
(***************************************************************************)
\* p1->h > p2->h on zend_ulong: a negative key is above every other one
ULess(a, b) == IF (a < 0) = (b < 0) THEN a < b ELSE b < 0

\* the key test of the ordered walk; a string key is above an integer one
KeyCmp(k1, k2, rank) ==
    CASE k1 \notin Strs /\ k2 \notin Strs ->
              IF k1 = k2 THEN 0 ELSE IF ULess(k1, k2) THEN -1 ELSE 1
      [] k1 \in Strs /\ k2 \in Strs ->
              IF rank[k1] = rank[k2] THEN 0 ELSE IF rank[k1] < rank[k2] THEN -1 ELSE 1
      [] OTHER -> IF k1 \in Strs THEN 1 ELSE -1

\* the value test: pData1 against pData2
ValCmp(p1, p2, cmp) == cmp[p1.val, p2.val]

\* mutant: the ordered walk does not step idx2 past the bucket it compared
RECURSIVE CompareNoAdvance(_, _, _, _, _, _, _)
CompareNoAdvance(t1, t2, ordered, rank, cmp, idx1, idx2) ==
    IF idx1 >= t1.nNumUsed THEN 0
    ELSE IF ~IsLive(t1.arData[idx1])
    THEN CompareNoAdvance(t1, t2, ordered, rank, cmp, idx1 + 1, idx2)
    ELSE LET p1 == t1.arData[idx1]
             j == Min({i \in idx2 .. t2.nNumUsed - 1 : IsLive(t2.arData[i])})
             f == Find(t2, p1.key).idx
             res == IF ordered
                    THEN IF KeyCmp(p1.key, t2.arData[j].key, rank) /= 0
                         THEN KeyCmp(p1.key, t2.arData[j].key, rank)
                         ELSE ValCmp(p1, t2.arData[j], cmp)
                    ELSE IF f = HT_INVALID_IDX THEN 1 ELSE ValCmp(p1, t2.arData[f], cmp)
         IN IF res /= 0 THEN res
            ELSE CompareNoAdvance(t1, t2, ordered, rank, cmp, idx1 + 1, idx2)

\* the loop of zend_hash_compare_impl from idx1 and idx2
RECURSIVE CompareFrom(_, _, _, _, _, _, _)
CompareFrom(t1, t2, ordered, rank, cmp, idx1, idx2) ==
    IF idx1 >= t1.nNumUsed THEN 0
    ELSE IF ~IsLive(t1.arData[idx1])
    THEN CompareFrom(t1, t2, ordered, rank, cmp, idx1 + 1, idx2)
    ELSE LET p1 == t1.arData[idx1]
             j == Min({i \in idx2 .. t2.nNumUsed - 1 : IsLive(t2.arData[i])})
             f == Find(t2, p1.key).idx
             res == IF ordered
                    THEN IF KeyCmp(p1.key, t2.arData[j].key, rank) /= 0
                         THEN KeyCmp(p1.key, t2.arData[j].key, rank)
                         ELSE ValCmp(p1, t2.arData[j], cmp)
                    ELSE IF f = HT_INVALID_IDX THEN 1 ELSE ValCmp(p1, t2.arData[f], cmp)
         IN IF res /= 0 THEN res
            ELSE CompareFrom(t1, t2, ordered, rank, cmp, idx1 + 1,
                             IF ordered THEN j + 1 ELSE idx2)

\* zend_hash_compare_impl: the element counts first
HashCompare(t1, t2, ordered, rank, cmp) ==
    IF t1.nNumOfElements /= t2.nNumOfElements
    THEN IF t1.nNumOfElements > t2.nNumOfElements THEN 1 ELSE -1
    ELSE CompareFrom(t1, t2, ordered, rank, cmp, 0, 0)

\* mutant: a bucket that compares equal replaces the one found so far
RECURSIVE MinmaxTiesLast(_, _, _, _, _)
MinmaxTiesLast(t, cmp, flag, res, idx) ==
    IF idx >= t.nNumUsed THEN res
    ELSE IF ~IsLive(t.arData[idx]) THEN MinmaxTiesLast(t, cmp, flag, res, idx + 1)
    ELSE LET c == ValCmp(t.arData[res], t.arData[idx], cmp)
         IN  MinmaxTiesLast(t, cmp, flag,
                            IF (flag /\ c <= 0) \/ (~flag /\ c >= 0) THEN idx ELSE res,
                            idx + 1)

\* the loop of zend_hash_minmax from bucket idx: res moves to a live bucket
\* that compares strictly greater (flag, max) or strictly smaller (min)
RECURSIVE MinmaxFrom(_, _, _, _, _)
MinmaxFrom(t, cmp, flag, res, idx) ==
    IF idx >= t.nNumUsed THEN res
    ELSE IF ~IsLive(t.arData[idx]) THEN MinmaxFrom(t, cmp, flag, res, idx + 1)
    ELSE LET c == ValCmp(t.arData[res], t.arData[idx], cmp)
         IN  MinmaxFrom(t, cmp, flag,
                        IF (flag /\ c < 0) \/ (~flag /\ c > 0) THEN idx ELSE res,
                        idx + 1)

\* zend_hash_minmax: NULL (HT_INVALID_IDX here) for an empty table, else
\* the scan starts on the first bucket that is not IS_UNDEF
HashMinmax(t, cmp, flag) ==
    IF t.nNumOfElements = 0 \/ LiveIdx(t) = {} THEN HT_INVALID_IDX
    ELSE MinmaxFrom(t, cmp, flag, Min(LiveIdx(t)), Min(LiveIdx(t)))

\* zend_hash_clean: the registry is left alone
CleanTable(t) ==
    [t EXCEPT !.nNumUsed = 0, !.nNumOfElements = 0, !.nNextFreeElement = 0,
              !.nInternalPointer = HT_INVALID_IDX,
              !.hash = IF t.nNumUsed /= 0 /\ ~t.packed THEN ResetHash ELSE @]

(***************************************************************************)
(* zend_array_destroy, when a variable's array is released and the         *)
(* variable is given a new one.  Values are opaque, so the destructor loop *)
(* only frees; what is left is the registry.                               *)
(***************************************************************************)
\* zend_hash_iterators_remove: entries on the table become HT_POISONED_PTR,
\* a scan skipped while nIteratorsCount is 0
ItersRemove(t, tid, its) ==
    IF t.nIteratorsCount = 0 THEN its
    ELSE [i \in Slots |-> IF i < itersUsed /\ its[i].ht = tid
                         THEN [its[i] EXCEPT !.ht = HT_POISONED_PTR] ELSE its[i]]

\* after the free, an entry that still names the table holds freed memory
Dangle(its, tid) ==
    [i \in Slots |-> IF its[i].ht = tid THEN [its[i] EXCEPT !.ht = DANGLING]
                    ELSE its[i]]

\* the registry after zend_array_destroy(t): zend_hash_iterators_remove is
\* called only inside if (ht->nNumUsed)
DestroyIters(t, tid, its) ==
    Dangle(IF t.nNumUsed /= 0 THEN ItersRemove(t, tid, its) ELSE its, tid)

(***************************************************************************)
(* The state machine.  A table operation runs to completion (there is one  *)
(* interpreter thread per heap); its result is applied by Apply, which     *)
(* also narrows the stable history of every foreach over that table.       *)
(***************************************************************************)
RECURSIVE EntriesFrom(_, _)
\* the entries of the live buckets S of t, in index order
EntriesFrom(t, S) ==
    IF S = {} THEN << >>
    ELSE << [key |-> t.arData[Min(S)].key, val |-> t.arData[Min(S)].val] >>
         \o EntriesFrom(t, S \ {Min(S)})

(***************************************************************************)
(* zend_hash_sort_ex.  The comparator is the caller's (usort may pass user *)
(* code), so the order it yields is any permutation of the live buckets:   *)
(* order[j] is the live index whose key and value end at position j.  The  *)
(* swap functions exchange val, h and key but never u2.next, which stays   *)
(* with the position the compaction gave it.                               *)
(***************************************************************************)
\* the early return of zend_hash_sort_ex; the scaled ZEND_LONG_MAX stays
\* above every element count renumbered, as the real one does
SortNeeded(t, renumber) ==
    /\ t.nNumOfElements > 1 \/ (renumber /\ t.nNumOfElements > 0)
    /\ renumber => t.nNumOfElements <= ZEND_LONG_MAX

\* the n-th live index of t, counting from 0
NthLive(t, n) == CHOOSE i \in LiveIdx(t) : Cardinality({x \in LiveIdx(t) : x < i}) = n

\* the compaction loop (or nothing, HT_IS_WITHOUT_HOLES), then the sort
SortBuckets(t, order, renumber) ==
    [i \in Idx |->
        IF i >= Cardinality(LiveIdx(t)) THEN t.arData[i]
        ELSE [key |-> IF renumber THEN i ELSE t.arData[order[i + 1]].key,
              val |-> t.arData[order[i + 1]].val,
              next |-> t.arData[NthLive(t, i)].next]]

\* seeded fault: renumbering a hashed table without switching it to packed
SortTableStayHashed(t, tid, its, order, renumber) ==
    LET n == Cardinality(LiveIdx(t))
        t1 == [t EXCEPT !.arData = SortBuckets(t, order, renumber),
                        !.nNumUsed = n, !.nInternalPointer = 0,
                        !.nNextFreeElement = IF renumber THEN n ELSE @]
    IN CASE renumber -> [t |-> [t1 EXCEPT !.hash = ResetHash], its |-> its]
         [] t.packed -> PackedToHash(t1, tid, its)
         [] OTHER -> Rehash(t1, tid, its)

\* the sorted buckets, then the representation: renumbering keeps a packed
\* table packed and makes a hashed one packed (slots reset); otherwise a
\* packed table goes through packed_to_hash and a hashed one is rehashed
SortTable(t, tid, its, order, renumber) ==
    LET n == Cardinality(LiveIdx(t))
        t1 == [t EXCEPT !.arData = SortBuckets(t, order, renumber),
                        !.nNumUsed = n, !.nInternalPointer = 0,
                        !.nNextFreeElement = IF renumber THEN n ELSE @]
    IN CASE renumber -> [t |-> [t1 EXCEPT !.packed = TRUE, !.hash = ResetHash],
                         its |-> its]
         [] t.packed -> PackedToHash(t1, tid, its)
         [] OTHER -> Rehash(t1, tid, its)

(***************************************************************************)
(* zend_array_dup: the copy SEPARATE_ARRAY makes of a shared array.  The   *)
(* model has no immutable arrays and no IS_INDIRECT values, so copying an  *)
(* element is copying its bucket.                                          *)
(***************************************************************************)
\* the header written before the branches; u.flags is copied with only the
\* persistent bit and the apply count masked out, so the nIteratorsCount
\* byte of the source comes along
DupHeader(t) == [NewTable EXCEPT !.nTableSize = t.nTableSize,
                                 !.nIteratorsCount = t.nIteratorsCount]

\* zend_array_dup_element for a hashed target: copy, then link into the chain
DupElement(d, b, j) == Link([d EXCEPT !.arData[j] = b], j)

\* zend_array_dup_packed_elements: holes are written IS_UNDEF (with_holes is
\* set exactly when nNumUsed > nNumOfElements), so indices are kept
DupPacked(t) ==
    [i \in Idx |-> IF i < t.nNumUsed /\ ~IsLive(t.arData[i]) THEN UndefBucket
                   ELSE IF i < t.nNumUsed THEN t.arData[i] ELSE JunkBucket]

\* seeded fault: the loop after the first hole forgets the internal pointer
RECURSIVE DupAfterHoleKeepIp(_, _, _, _)
DupAfterHoleKeepIp(t, d, i, j) ==
    IF i >= t.nNumUsed THEN [d EXCEPT !.nNumUsed = j, !.nNumOfElements = j]
    ELSE IF ~IsLive(t.arData[i]) THEN DupAfterHoleKeepIp(t, d, i + 1, j)
    ELSE DupAfterHoleKeepIp(t, DupElement(d, t.arData[i], j), i + 1, j + 1)

\* zend_array_dup_elements after the first hole: live buckets move down to
\* target_idx j, and nInternalPointer follows the bucket it designates
RECURSIVE DupAfterHole(_, _, _, _)
DupAfterHole(t, d, i, j) ==
    IF i >= t.nNumUsed THEN [d EXCEPT !.nNumUsed = j, !.nNumOfElements = j]
    ELSE IF ~IsLive(t.arData[i]) THEN DupAfterHole(t, d, i + 1, j)
    ELSE DupAfterHole(t, [DupElement(d, t.arData[i], j) EXCEPT
                             !.nInternalPointer = IF t.nInternalPointer = i
                                                  THEN j ELSE @],
                      i + 1, j + 1)

\* zend_array_dup_elements: buckets are copied in place up to the first
\* hole; the result's nNumUsed and nNumOfElements are the returned idx
RECURSIVE DupElements(_, _, _)
DupElements(t, d, i) ==
    IF i >= t.nNumUsed THEN [d EXCEPT !.nNumUsed = i, !.nNumOfElements = i]
    ELSE IF ~IsLive(t.arData[i]) THEN DupAfterHole(t, d, i + 1, i)
    ELSE DupElements(t, DupElement(d, t.arData[i], i), i + 1)

\* the packed branch: a copied nInternalPointer of HT_INVALID_IDX moves to
\* the first bucket that is not IS_UNDEF
DupPackedTable(t, d) ==
    LET p == [d EXCEPT !.nNumUsed = t.nNumUsed,
                       !.nNumOfElements = t.nNumOfElements,
                       !.arData = DupPacked(t)]
    IN IF p.nNumOfElements > 0 /\ p.nInternalPointer = HT_INVALID_IDX
       THEN [p EXCEPT !.nInternalPointer = Min(LiveIdx(p))] ELSE p

\* the hashed branch: HT_INVALID_IDX becomes 0, the first compacted bucket
DupHashedTable(e) ==
    IF e.nNumUsed > 0 /\ e.nInternalPointer = HT_INVALID_IDX
    THEN [e EXCEPT !.nInternalPointer = 0] ELSE e

\* zend_array_dup.  An array with nNumUsed = 0 is copied as an
\* uninitialized one whose nNextFreeElement is 0.
ArrayDup(t) ==
    LET d == [DupHeader(t) EXCEPT !.initialized = TRUE, !.packed = t.packed,
                                  !.nNextFreeElement = t.nNextFreeElement,
                                  !.nInternalPointer = t.nInternalPointer]
    IN CASE t.nNumUsed = 0 -> DupHeader(t)
         [] t.packed -> DupPackedTable(t, d)
         [] OTHER -> DupHashedTable(DupElements(t, d, 0))

Init ==
    /\ hts = [t \in Tables |-> NewTable]
    /\ iters = [i \in Slots |-> [ht |-> NULL, pos |-> 0, var |-> NULL]]
    /\ itersUsed = 0
    /\ itersCount = ITER_SLOTS
    /\ halted = FALSE
    /\ seen = [i \in Slots |-> {}]
    /\ stable = [i \in Slots |-> {}]

\* Buckets at and above nNumUsed are read by no operation except through
\* the uninitialised gap of add_to_packed, where all that matters is
\* whether the memory reads as IS_UNDEF.  They are kept in that form only,
\* so that states differing in dead memory are one state.
Canon(t) ==
    [t EXCEPT !.arData = [i \in Idx |->
        IF i < t.nNumUsed THEN @[i]
        ELSE IF @[i].val = UNDEF THEN UndefBucket ELSE JunkBucket]]

Apply(tid, r) ==
    /\ IF r.err
       THEN halted' = TRUE /\ UNCHANGED <<hts, iters>>
       ELSE /\ hts' = [hts EXCEPT ![tid] = Canon(r.t)]
            /\ iters' = r.its
            /\ UNCHANGED halted
    /\ stable' = [i \in Slots |-> IF iters[i].ht = tid
                                  THEN stable[i] \cap LiveKeys(hts'[tid])
                                  ELSE stable[i]]
    /\ UNCHANGED <<itersUsed, itersCount, seen>>

\* the values junkAsUndef can take for a call with these flags
JunkReads(flags) ==
    IF {HASH_ADD_NEW, HASH_ADD_NEXT} \subseteq flags THEN BOOLEAN ELSE {TRUE}

\* the precondition of the *_new functions: the key is absent; with
\* STRICT_NEW also that a packed table has no deleted tail, which the
\* uninitialised gap of add_to_packed relies on
NewCallerOk(t, k, flags) ==
    HASH_ADD_NEW \in flags =>
        /\ k \notin LiveKeys(t)
        /\ STRICT_NEW /\ HASH_ADD_NEXT \in flags
           => (t.packed => t.nNextFreeElement = t.nNumUsed)

\* zend_hash_index_add / _add_new / _update, zend_hash_next_index_insert[_new]
IndexInsert(tid, h, v, flags) ==
    /\ ~halted
    /\ NewCallerOk(hts[tid], h, flags)
    /\ \E u \in JunkReads(flags) :
          Apply(tid, IndexAddOrUpdate(hts[tid], tid, iters, h, v, flags, u))

\* zend_hash_add / zend_hash_add_new / zend_hash_update on a string key
StrInsert(tid, k, v, flags) ==
    /\ ~halted
    /\ NewCallerOk(hts[tid], k, flags)
    /\ Apply(tid, AddOrUpdate(hts[tid], tid, iters, k, v, flags))

\* zend_hash_index_del / zend_hash_del
Delete(tid, k) ==
    /\ ~halted
    /\ Apply(tid, Del(hts[tid], tid, iters, k))

\* zend_hash_clean
Clean(tid) ==
    /\ ~halted
    /\ Apply(tid, Done(CleanTable(hts[tid]), iters, TRUE))

\* zend_hash_extend(ht, nSize, packed) for nSize > 0 (nSize == 0 returns
\* at once): an uninitialised table takes the size and is initialised as
\* packed says; a packed one is reallocated keeping HT_USED_SIZE; a hashed
\* one gets a new block with the used buckets and is rehashed
ExtendTable(t, tid, its, nSize, packed) ==
    IF nSize <= t.nTableSize
    THEN Done(IF t.initialized THEN t ELSE RealInit(t, packed), its, TRUE)
    ELSE IF nSize >= HT_MAX_SIZE THEN Fatal(t, its)
    ELSE LET size == CheckSize(nSize)
         IN CASE ~t.initialized ->
                   Done(RealInit([t EXCEPT !.nTableSize = size], packed), its, TRUE)
              [] t.packed ->
                   Done([t EXCEPT !.nTableSize = size, !.arData = CopyUsed(t)], its, TRUE)
              [] OTHER ->
                   [err |-> FALSE, ok |-> TRUE]
                   @@ Rehash([t EXCEPT !.nTableSize = size, !.arData = CopyUsed(t)],
                             tid, its)

\* the caller passes the table's own layout once it is initialised
\* (ZEND_ASSERT); the clone of an object's properties passes packed = 0
Extend(tid, nSize, packed) ==
    /\ ~halted
    /\ hts[tid].initialized => packed = hts[tid].packed
    /\ Apply(tid, ExtendTable(hts[tid], tid, iters, nSize, packed))

\* zend_array_destroy of the variable's array, as $a = [] or $a = null
\* releases it while nothing else holds it (tables are not shared here);
\* the variable then holds a new empty array
ArrayDestroy(tid) ==
    /\ ~halted
    /\ Apply(tid, Done(NewTable, DestroyIters(hts[tid], tid, iters), TRUE))

\* zend_hash_destroy of a table embedded in a structure (a property or
\* symbol table) that is then initialised again: pDestructor runs on every
\* live value, which is opaque here, and zend_hash_iterators_remove is
\* called only inside if (ht->nNumUsed), as in zend_array_destroy
HashDestroy(tid) ==
    /\ ~halted
    /\ Apply(tid, Done(NewTable, DestroyIters(hts[tid], tid, iters), TRUE))

\* SEPARATE_ARRAY before a write to $a while another variable shares its
\* array ($b = $a): the other holder keeps the original, which nothing
\* here reads again, and $a goes on with zend_array_dup's copy.  Iterators
\* name a table by its variable, and the move of a foreach iterator to the
\* copy (zend_hash_iterator_pos_ex) is not modelled, so a table is
\* separated only while no foreach is over it.
Separate(tid) ==
    /\ ~halted
    /\ \A i \in Slots : iters[i].ht /= tid
    /\ Apply(tid, Done(ArrayDup(hts[tid]), iters, TRUE))

\* zend_hash_graceful_destroy / _reverse_destroy: every live bucket is
\* deleted by _zend_hash_del_el, in index order or from the end, then the
\* data is freed; zend_hash_iterators_remove is never called, so an
\* iterator still on the table would be left with its freed address; the
\* callers (function, class, module and symbol tables at shutdown) hold
\* no foreach iterator, which is the guard on the registry
GracefulDestroy(tid, reverse) ==
    LET t == hts[tid]
    IN /\ ~halted
       /\ \A i \in Slots : iters[i].ht /= tid
       /\ \E r \in {IF reverse
                   THEN ReverseApplyFrom(tid, Done(t, iters, TRUE), LiveIdx(t),
                                         HT_INVALID_IDX, t.nNumUsed)
                   ELSE ApplyFrom(tid, Done(t, iters, TRUE), LiveIdx(t), HT_INVALID_IDX, 0)} :
             Apply(tid, Done(NewTable, Dangle(r.its, tid), TRUE))

\* zend_hash_apply, _with_argument and _with_arguments (the same loop)
HashApply(tid) ==
    LET t == hts[tid]
    IN /\ ~halted
       /\ \E stop \in LiveIdx(t) \cup {HT_INVALID_IDX} :
             \E rm \in SUBSET {i \in LiveIdx(t) : i <= stop} :
                Apply(tid, ApplyFrom(tid, Done(t, iters, TRUE), rm, stop, 0))

\* zend_hash_reverse_apply
HashReverseApply(tid) ==
    LET t == hts[tid]
    IN /\ ~halted
       /\ \E stop \in LiveIdx(t) \cup {HT_INVALID_IDX} :
             \E rm \in SUBSET {i \in LiveIdx(t) : stop = HT_INVALID_IDX \/ i >= stop} :
                Apply(tid, ReverseApplyFrom(tid, Done(t, iters, TRUE), rm, stop,
                                            t.nNumUsed))

\* the sources whose values the tables may hold; the others are merged
\* only by the properties, from every reachable table
StoredSources == {src \in MERGE_SOURCES : \A i \in DOMAIN src : src[i].val \in Vals}

\* a source array: an array literal, its entries stored in order
RECURSIVE StoreAll(_, _)
StoreAll(r, src) ==
    IF src = << >> THEN r
    ELSE StoreAll(KeyInsert(r.t, NULL, r.its, Head(src).key, Head(src).val, {HASH_UPDATE}),
                  Tail(src))
SourceTable(src) == StoreAll(Done(NewTable, iters, TRUE), src).t

\* _zend_hash_merge: $a + $src (keep existing keys) or array_replace
\* (overwrite) into the variable's array
Merge(tid, src, overwrite) ==
    /\ ~halted
    /\ \E s \in {SourceTable(src)} :
          Apply(tid, HashMerge(hts[tid], tid, iters, s,
                               IF overwrite THEN {HASH_UPDATE} ELSE {HASH_ADD},
                               LiveIdx(s)))

\* zend_hash_merge_ex: the checker callback accepts any set of the
\* source's buckets; the code stores them by p->key, so sources with
\* integer keys are not passed to it
MergeEx(tid, src) ==
    /\ ~halted
    /\ \E s \in {SourceTable(src)} :
          /\ LiveKeys(s) \subseteq Strs
          /\ \E pick \in SUBSET LiveIdx(s) :
                Apply(tid, HashMerge(hts[tid], tid, iters, s, {HASH_UPDATE}, pick))

\* zend_hash_copy into the variable's array
Copy(tid, src) ==
    /\ ~halted
    /\ \E s \in {SourceTable(src)} : Apply(tid, HashCopy(hts[tid], tid, iters, s))

\* zend_hash_internal_pointer_reset_ex(ht, &ht->nInternalPointer)
InternalPointerReset(tid) ==
    LET t == hts[tid]
    IN /\ ~halted
       /\ hts' = [hts EXCEPT ![tid].nInternalPointer =
                      IF LiveIdx(t) = {} THEN HT_INVALID_IDX ELSE Min(LiveIdx(t))]
       /\ UNCHANGED <<iters, itersUsed, itersCount, halted, seen, stable>>

\* zend_hash_move_forward_ex(ht, &ht->nInternalPointer); FAILURE when INVALID
MoveForward(tid) ==
    LET t == hts[tid]
    IN /\ ~halted
       /\ t.nInternalPointer /= HT_INVALID_IDX
       /\ hts' = [hts EXCEPT ![tid].nInternalPointer =
                      NextLive(t, t.nInternalPointer, t.nNumUsed)]
       /\ UNCHANGED <<iters, itersUsed, itersCount, halted, seen, stable>>

\* zend_hash_internal_pointer_end_ex(ht, &ht->nInternalPointer)
InternalPointerEnd(tid) ==
    LET t == hts[tid]
    IN /\ ~halted
       /\ hts' = [hts EXCEPT ![tid].nInternalPointer =
                      IF LiveIdx(t) = {} THEN HT_INVALID_IDX ELSE Max(LiveIdx(t))]
       /\ UNCHANGED <<iters, itersUsed, itersCount, halted, seen, stable>>

\* the live index before idx, or HT_INVALID_IDX when there is none
PrevLive(t, idx) ==
    LET s == {i \in 0 .. idx - 1 : IsLive(t.arData[i])}
    IN IF s = {} THEN HT_INVALID_IDX ELSE Max(s)

\* zend_hash_move_backwards_ex(ht, &ht->nInternalPointer); FAILURE when
\* INVALID, SUCCESS with HT_INVALID_IDX past the first entry
MoveBackwards(tid) ==
    LET t == hts[tid]
    IN /\ ~halted
       /\ t.nInternalPointer /= HT_INVALID_IDX
       /\ hts' = [hts EXCEPT ![tid].nInternalPointer = PrevLive(t, t.nInternalPointer)]
       /\ UNCHANGED <<iters, itersUsed, itersCount, halted, seen, stable>>

\* zend_hash_sort_ex(ht, sort, compar, renumber).  Iterators are
\* not moved; the foreach promise of spec.md 5 covers inserts and deletes
\* only, so a loop over a sorted array starts its history afresh.
Sort(tid, renumber) ==
    LET t == hts[tid]
    IN /\ ~halted
       /\ SortNeeded(t, renumber)
       /\ \E order \in SetToSeqs(LiveIdx(t)) :
             \E r \in {SortTable(t, tid, iters, order, renumber)} :
                /\ hts' = [hts EXCEPT ![tid] = Canon(r.t)]
                /\ iters' = r.its
       /\ stable' = [i \in Slots |-> IF iters[i].ht = tid THEN {} ELSE stable[i]]
       /\ UNCHANGED <<itersUsed, itersCount, halted, seen>>

(***************************************************************************)
(* The iterator registry: zend_hash_iterator_add, _pos_ex and _del.  An    *)
(* entry also records var, the variable whose array its loop iterates (the *)
(* operand of the loop's opcodes, not a field of HashTableIterator).       *)
(***************************************************************************)
IncSat(c) == IF c /= ITER_COUNT_MAX THEN c + 1 ELSE c

\* zend_hash_iterator_add(ht, pos) registering slot idx
IteratorAdd(tid, pos, idx) ==
    LET grow == idx = itersCount
    IN /\ iters' = [iters EXCEPT ![idx] = [ht |-> tid, pos |-> pos, var |-> tid]]
       /\ itersUsed' = IF grow \/ idx + 1 > itersUsed THEN idx + 1 ELSE itersUsed
       /\ itersCount' = IF grow THEN itersCount + ITER_GROW ELSE itersCount
       /\ hts' = [hts EXCEPT ![tid].nIteratorsCount = IncSat(@)]

\* the slot zend_hash_iterator_add picks: the first NULL one, else a new one
FreeSlot ==
    LET free == {i \in 0 .. itersCount - 1 : iters[i].ht = NULL}
    IN IF free = {} THEN itersCount ELSE Min(free)

\* zend_hash_iterator_pos_ex(idx, array) for the variable tid: an entry
\* left on another table moves onto tid's array at its internal pointer,
\* the old table's count dropping and the new one's rising unless they are
\* saturated.  For a poisoned entry nothing drops; for a DANGLING one the
\* drop is a write to freed memory, which changes no live table.
\* SEPARATE_ARRAY does nothing: tables are not shared here.
IteratorPosEx(h, its, idx, tid) ==
    LET old == its[idx].ht
        h1 == IF old \in Tables /\ h[old].nIteratorsCount /= ITER_COUNT_MAX
              THEN [h EXCEPT ![old].nIteratorsCount = @ - 1] ELSE h
    IN IF its[idx].pos = HT_INVALID_IDX \/ old = tid
       THEN [hts |-> h, iters |-> its]
       ELSE [hts |-> [h1 EXCEPT ![tid].nIteratorsCount = IncSat(@)],
             iters |-> [its EXCEPT ![idx].ht = tid,
                                   ![idx].pos = h[tid].nInternalPointer]]

\* seeded fault: zend_hash_iterator_del decrementing a saturated count
IterDelNoSaturation(h, its, used, idx) ==
    LET tid == its[idx].ht
        left == {i \in 0 .. idx - 1 : its[i].ht /= NULL}
    IN [hts |-> IF tid \in Tables THEN [h EXCEPT ![tid].nIteratorsCount = @ - 1]
                ELSE h,
        iters |-> [its EXCEPT ![idx].ht = NULL],
        used |-> IF idx = used - 1 THEN Max({0} \cup {i + 1 : i \in left}) ELSE used]

\* zend_hash_iterator_del(idx)
IterDel(h, its, used, idx) ==
    LET tid == its[idx].ht
        left == {i \in 0 .. idx - 1 : its[i].ht /= NULL}
    IN [hts |-> IF tid \in Tables /\ h[tid].nIteratorsCount /= ITER_COUNT_MAX
                THEN [h EXCEPT ![tid].nIteratorsCount = @ - 1]
                ELSE h,
        iters |-> [its EXCEPT ![idx].ht = NULL],
        used |-> IF idx = used - 1 THEN Max({0} \cup {i + 1 : i \in left}) ELSE used]

(***************************************************************************)
(* A by-reference foreach, the registry's client in the VM (ZEND_FE_RESET_ *)
(* RW, ZEND_FE_FETCH_RW, ZEND_FE_FREE; the VM is not part of this source). *)
(* The iterator position is the next bucket to examine: a fetch takes the  *)
(* first live bucket at or after it and leaves the position just past it.  *)
(* Every FE_FETCH_RW first calls zend_hash_iterator_pos_ex, so a loop      *)
(* whose array was replaced (its entry poisoned or left dangling) goes on  *)
(* over the variable's new array from that array's internal pointer.      *)
(***************************************************************************)
\* the first bucket a fetch from pos would return, if any
FetchIdx(t, pos) == {p \in LiveIdx(t) : p >= pos}

\* ZEND_FE_RESET_RW registering position 0, and the ZEND_FE_FETCH_RW that
\* always follows it before any loop body runs; an empty array skips the loop
ForeachStart(tid) ==
    LET t == hts[tid]
        p == Min(LiveIdx(t))
    IN /\ ~halted
       /\ Cardinality({i \in Slots : iters[i].ht /= NULL}) < MAX_FOREACH
       /\ LiveIdx(t) /= {}
       /\ FreeSlot = itersCount => itersCount + ITER_GROW <= MAX_ITER_SLOTS
       /\ IteratorAdd(tid, p + 1, FreeSlot)
       /\ seen' = [seen EXCEPT ![FreeSlot] = {t.arData[p].key}]
       /\ stable' = [stable EXCEPT ![FreeSlot] = LiveKeys(t)]
       /\ UNCHANGED halted

\* ZEND_FE_FETCH_RW finding an element
ForeachFetch(idx) ==
    LET tid == iters[idx].var
        r == IteratorPosEx(hts, iters, idx, tid)
        t == r.hts[tid]
        p == Min(FetchIdx(t, r.iters[idx].pos))
    IN /\ ~halted
       /\ iters[idx].ht /= NULL
       /\ FetchIdx(t, r.iters[idx].pos) /= {}
       /\ hts' = r.hts
       /\ iters' = [r.iters EXCEPT ![idx].pos = p + 1]
       /\ seen' = [seen EXCEPT ![idx] = @ \cup {t.arData[p].key}]
       /\ UNCHANGED <<itersUsed, itersCount, halted, stable>>

\* ZEND_FE_FETCH_RW running out of elements, then ZEND_FE_FREE
ForeachEnd(idx) ==
    LET tid == iters[idx].var
        r == IteratorPosEx(hts, iters, idx, tid)
        d == IterDel(r.hts, r.iters, itersUsed, idx)
    IN /\ ~halted
       /\ iters[idx].ht /= NULL
       /\ FetchIdx(r.hts[tid], r.iters[idx].pos) = {}
       /\ hts' = d.hts
       /\ iters' = [d.iters EXCEPT ![idx].var = NULL]
       /\ itersUsed' = d.used
       /\ UNCHANGED <<itersCount, halted, seen, stable>>

\* after zend_error_noreturn the request is over
Terminated == halted /\ UNCHANGED vars

Next ==
    \/ \E tid \in Tables :
          \/ \E h \in IntKeys, v \in Vals :
                \/ IndexInsert(tid, h, v, {HASH_ADD})
                \/ IndexInsert(tid, h, v, {HASH_ADD, HASH_ADD_NEW})
                \/ IndexInsert(tid, h, v, {HASH_UPDATE})
          \/ \E v \in Vals :
                \/ IndexInsert(tid, hts[tid].nNextFreeElement, v, {HASH_ADD, HASH_ADD_NEXT})
                \/ IndexInsert(tid, hts[tid].nNextFreeElement, v,
                               {HASH_ADD, HASH_ADD_NEW, HASH_ADD_NEXT})
          \/ \E k \in Strs, v \in Vals :
                \/ StrInsert(tid, k, v, {HASH_ADD})
                \/ StrInsert(tid, k, v, {HASH_ADD_NEW})
                \/ StrInsert(tid, k, v, {HASH_UPDATE})
          \/ \E k \in Keys : Delete(tid, k)
          \/ Clean(tid)
          \/ BULK_OPS /\ HashApply(tid)
          \/ BULK_OPS /\ HashReverseApply(tid)
          \/ EXTEND_OPS /\ \E nSize \in 1 .. HT_MAX_SIZE, packed \in BOOLEAN :
                Extend(tid, nSize, packed)
          \/ ArrayDestroy(tid)
          \/ HashDestroy(tid)
          \/ Separate(tid)
          \/ \E reverse \in BOOLEAN : GracefulDestroy(tid, reverse)
          \/ BULK_OPS /\ \E renumber \in BOOLEAN : Sort(tid, renumber)
          \/ BULK_OPS /\ \E src \in StoredSources :
                \/ \E overwrite \in BOOLEAN : Merge(tid, src, overwrite)
                \/ MergeEx(tid, src)
                \/ Copy(tid, src)
          \/ InternalPointerReset(tid)
          \/ MoveForward(tid)
          \/ InternalPointerEnd(tid)
          \/ MoveBackwards(tid)
          \/ ForeachStart(tid)
    \/ \E idx \in Slots : ForeachFetch(idx) \/ ForeachEnd(idx)
    \/ Terminated

Spec == Init /\ [][Next]_vars

(***************************************************************************)
(* Properties.                                                             *)
(***************************************************************************)
Bucket == [key : Keys \cup {NULL}, val : Vals \cup {UNDEF, JUNK},
           next : Idx \cup {HT_INVALID_IDX}]

\* every live key of t is found at its unique live bucket, an absent key
\* is not found
LookupAgrees(t) ==
    \A k \in Keys :
        LET at == {i \in LiveIdx(t) : t.arData[i].key = k}
        IN /\ Cardinality(at) <= 1
           /\ Find(t, k).idx = IF at = {} THEN HT_INVALID_IDX
                                          ELSE CHOOSE i \in at : TRUE

\* the counters of t agree with its buckets
Accounted(t) ==
    /\ t.nNumOfElements = Cardinality(LiveIdx(t))
    /\ t.nNumUsed <= t.nTableSize
    /\ t.nNumUsed > 0 => IsLive(t.arData[t.nNumUsed - 1])
    /\ \A i \in 0 .. t.nNumUsed - 1 : t.arData[i].val /= JUNK

TypeOK ==
    /\ \A tid \in Tables :
          LET t == hts[tid] IN
          /\ t.initialized \in BOOLEAN /\ t.packed \in BOOLEAN
          /\ t.nTableSize \in HT_MIN_SIZE .. HT_MAX_SIZE
          /\ t.nNumUsed \in 0 .. HT_MAX_SIZE
          /\ t.nNumOfElements \in 0 .. HT_MAX_SIZE
          /\ t.nInternalPointer \in Idx \cup {HT_INVALID_IDX}
          /\ t.nNextFreeElement \in 0 .. ZEND_LONG_MAX
          /\ t.nIteratorsCount \in 0 .. ITER_COUNT_MAX
          /\ t.arData \in [Idx -> Bucket]
          /\ t.hash \in [Idx -> Idx \cup {HT_INVALID_IDX}]
    /\ iters \in [Slots -> [ht : Tables \cup {NULL, HT_POISONED_PTR, DANGLING},
                            pos : Nat, var : Tables \cup {NULL}]]
    /\ itersUsed \in 0 .. MAX_ITER_SLOTS
    /\ itersCount \in ITER_SLOTS .. MAX_ITER_SLOTS
    /\ halted \in BOOLEAN

\* Every key that is live in the bucket array is found by the lookup the
\* code uses (the chain walk from HT_HASH, or direct indexing of a packed
\* table) at its unique live bucket, and an absent key is not found: the
\* chains that add_to_hash, rehash, the packed/hash switch and del_el_ex
\* maintain agree with the buckets.
LookupAgreesWithBuckets == \A tid \in Tables : LookupAgrees(hts[tid])

\* nNumOfElements counts the live buckets below nNumUsed, nNumUsed stays
\* within nTableSize, the last used bucket is live (the trim in del_el_ex),
\* and no bucket below nNumUsed is memory nobody wrote.
BucketAccounting == \A tid \in Tables : Accounted(hts[tid])

\* The internal pointer (current()/next()) is HT_INVALID_IDX or on a live
\* bucket, through deletions, compaction and the packed/hash switch.
InternalPointerValid ==
    \A tid \in Tables :
        hts[tid].nInternalPointer = HT_INVALID_IDX
        \/ hts[tid].nInternalPointer \in LiveIdx(hts[tid])

\* Every live non-negative integer key is below nNextFreeElement unless it
\* saturated at ZEND_LONG_MAX, so next_index_insert never lands on a key
\* that is already there.
NextFreeAboveKeys ==
    \A tid \in Tables : \A k \in LiveKeys(hts[tid]) :
        k \in NextKeys => k < hts[tid].nNextFreeElement
                          \/ hts[tid].nNextFreeElement = ZEND_LONG_MAX

\* The copy's internal pointer (current() after the separation) is on the
\* entry the source's was on, across the compaction in
\* zend_array_dup_elements; an invalid one moves to the first entry.
DupKeepsCurrent ==
    \A tid \in Tables : \E d \in {ArrayDup(hts[tid])} :
        LET ip == hts[tid].nInternalPointer IN
        IF ip = HT_INVALID_IDX
        THEN d.nInternalPointer = IF LiveIdx(d) = {} THEN HT_INVALID_IDX
                                  ELSE Min(LiveIdx(d))
        ELSE /\ d.nInternalPointer \in LiveIdx(d)
             /\ d.arData[d.nInternalPointer].key = hts[tid].arData[ip].key

\* nIteratorsCount, which gates every zend_hash_iterators_update, equals
\* the number of registry entries on the table until it sticks at 255;
\* registered entries lie below EG(ht_iterators_used), whose last entry is
\* in use (the trim in zend_hash_iterator_del).
IteratorsCounted ==
    /\ \A tid \in Tables :
          \/ hts[tid].nIteratorsCount = ITER_COUNT_MAX
          \/ hts[tid].nIteratorsCount = Cardinality({i \in Slots : iters[i].ht = tid})
    /\ \A i \in Slots : iters[i].ht /= NULL => i < itersUsed
    /\ itersUsed > 0 => iters[itersUsed - 1].ht /= NULL

\* the buckets an apply pass whose callback stops at stop may remove
ApplyCandidates(t, stop, reverse) ==
    SUBSET {i \in LiveIdx(t) : IF reverse THEN stop = HT_INVALID_IDX \/ i >= stop
                                         ELSE i <= stop}

\* An apply pass (forward or reverse, for every answer of the callback)
\* from any reachable table removes exactly the entries whose callback
\* said REMOVE and keeps the others in order (OrderedMap!Filter), and
\* leaves chains that find every remaining key, consistent counters and a
\* valid internal pointer: _zend_hash_del_el must find each bucket's chain
\* predecessor, and each removal at the tail shortens the loop.
ApplyRemovesOnly ==
    \A tid \in Tables, reverse \in BOOLEAN :
        \A stop \in LiveIdx(hts[tid]) \cup {HT_INVALID_IDX} :
            \A rm \in ApplyCandidates(hts[tid], stop, reverse) :
                \E r \in {IF reverse
                          THEN ReverseApplyFrom(tid, Done(hts[tid], iters, TRUE), rm, stop,
                                                hts[tid].nNumUsed)
                          ELSE ApplyFrom(tid, Done(hts[tid], iters, TRUE), rm, stop, 0)} :
                    /\ EntriesFrom(r.t, LiveIdx(r.t))
                         = SelectSeq(EntriesFrom(hts[tid], LiveIdx(hts[tid])),
                                     LAMBDA e : e.key \notin {hts[tid].arData[i].key : i \in rm})
                    /\ LookupAgrees(r.t)
                    /\ Accounted(r.t)
                    /\ r.t.nInternalPointer \in LiveIdx(r.t) \cup {HT_INVALID_IDX}

\* the entries a sort in this order promises (OrderedMap!Sort)
SortedAs(t, order, renumber) ==
    [j \in 1 .. Len(order) |->
        [key |-> IF renumber THEN j - 1 ELSE t.arData[order[j]].key,
         val |-> t.arData[order[j]].val]]

\* zend_hash_sort_ex in any order the comparator can produce, from any
\* reachable table, yields exactly the promised entries (keys renumbered
\* 0.. when asked), in a table whose chains or packed indices find every
\* key, whose counters agree, and whose internal pointer is on the first
\* entry: the compaction, the swap functions that leave u2.next behind,
\* and the packed/hash finalisation together.  The refinement run leaves
\* bulk operations out; this checks each sort step against the abstract one.
SortPreservesEntries ==
    \A tid \in Tables, renumber \in BOOLEAN :
        SortNeeded(hts[tid], renumber) =>
            \A order \in SetToSeqs(LiveIdx(hts[tid])) :
                \E r \in {SortTable(hts[tid], tid, iters, order, renumber)} :
                    /\ EntriesFrom(r.t, LiveIdx(r.t)) = SortedAs(hts[tid], order, renumber)
                    /\ LookupAgrees(r.t)
                    /\ Accounted(r.t)
                    /\ r.t.nInternalPointer = Min(LiveIdx(r.t))

\* zend_hash_iterator_del and zend_hash_iterator_pos[_ex] dereference
\* iter->ht unless it is NULL or HT_POISONED_PTR, so no registered iterator
\* may hold a table that zend_array_destroy has freed: destroying a table
\* poisons every iterator on it, however the loop body emptied it first.
IteratorsReferLive == \A i \in Slots : iters[i].ht /= DANGLING

\* A foreach that has run out of entries has visited every key that was
\* present in the array throughout the loop (spec.md 5, Ordering), however
\* the loop body deleted, inserted and so made the table compact.
ForeachVisitsStableEntries ==
    \A i \in Slots :
        /\ iters[i].ht \in Tables
        /\ FetchIdx(hts[iters[i].ht], iters[i].pos) = {}
        => stable[i] \subseteq seen[i]

(***************************************************************************)
(* Refinement: the live buckets in index order are the ordered map.        *)
(***************************************************************************)
AbsMaps == [tid \in Tables |-> EntriesFrom(hts[tid], LiveIdx(hts[tid]))]

Abstract == INSTANCE OrderedMap WITH Maps <- Tables, maps <- AbsMaps

\* Every step of the table is a step of the ordered map: resize, rehash,
\* compaction and the packed/hash switch never reorder, lose or invent an
\* entry, and each insert, update, delete and clean is the map operation.
ImplementsOrderedMap == Abstract!Spec

\* the entries of a table as the ordered map sees them
Entries(t) == EntriesFrom(t, LiveIdx(t))

\* the calls of the merge family with source s: both merges of every live
\* bucket, merge_ex of every set its checker may accept (string keys
\* only), and the copy; ow is whether existing keys take the new value
MergeCalls(s) ==
    {[copy |-> FALSE, flags |-> {HASH_ADD}, pick |-> LiveIdx(s), ow |-> FALSE],
     [copy |-> FALSE, flags |-> {HASH_UPDATE}, pick |-> LiveIdx(s), ow |-> TRUE],
     [copy |-> TRUE, flags |-> {HASH_UPDATE}, pick |-> LiveIdx(s), ow |-> TRUE]}
    \cup {[copy |-> FALSE, flags |-> {HASH_UPDATE}, pick |-> p, ow |-> TRUE] :
            p \in IF LiveKeys(s) \subseteq Strs THEN SUBSET LiveIdx(s) ELSE {}}

\* one such call
MergeCall(c, t, tid, s) ==
    IF c.copy THEN HashCopy(t, tid, iters, s) ELSE HashMerge(t, tid, iters, s, c.flags, c.pick)

\* the result r of call c of target t (entries et) against the promise
MergeOk(c, t, et, s, r) ==
    ~r.err =>
        /\ Entries(r.t) = Abstract!Merged(et, EntriesFrom(s, c.pick), c.ow)
        /\ LookupAgrees(r.t)
        /\ Accounted(r.t)
        /\ IF c.copy
           THEN /\ t.nInternalPointer /= HT_INVALID_IDX =>
                      r.t.arData[r.t.nInternalPointer].key = t.arData[t.nInternalPointer].key
                /\ LiveIdx(r.t) /= {} => r.t.nInternalPointer \in LiveIdx(r.t)
           ELSE r.t.nInternalPointer = IF LiveIdx(r.t) = {} THEN t.nInternalPointer
                                      ELSE Min(LiveIdx(r.t))

\* zend_hash_merge (keeping or overwriting existing keys), zend_hash_merge_ex
\* (any buckets its checker accepts) and zend_hash_copy, of every source
\* into every reachable table and of every reachable table into every
\* source, give the entries OrderedMap!Merged promises (existing keys keep
\* their place, new keys follow in the source's order) in a table whose
\* lookups and counters agree, across the resizes, packed/hash switches
\* and compactions the inserts make.  Both merges leave the internal
\* pointer on the first entry; the copy keeps a valid one on its entry
\* and leaves a non-empty table with a valid one.
\* The sources checked are those with values the tables do not hold, so
\* that an overwritten entry shows.
MergeMatchesAbstract ==
    \A tid \in Tables, src \in MERGE_SOURCES \ StoredSources :
        \E a \in {SourceTable(src)} :
            \A p \in {<<hts[tid], a>>, <<a, hts[tid]>>} :
                \E et \in {Entries(p[1])} :
                    \A c \in MergeCalls(p[2]) :
                        \E r \in {MergeCall(c, p[1], tid, p[2])} : MergeOk(c, p[1], et, p[2], r)

\* the element comparators over the values (antisymmetric signs) and the
\* orders the string keys' lengths and bytes can give
ValCmps == LET V == Vals \cup SrcVals
           IN {c \in [V \X V -> {-1, 0, 1}] : \A x, y \in V : c[x, y] = -c[y, x]}
StrRanks == {r \in [Strs -> 1 .. Cardinality(Strs)] : IsInjective(r)}

\* zend_hash_compare, ordered (===) or not (==, <), of a reachable table
\* and a source array, either way round, and of the table with itself,
\* returns for every element comparator and string order what
\* OrderedMap!Compared says of their entries: the ordered walk skips the
\* holes of each table on its own, the unordered one finds each key along
\* the other table's collision chain or packed slot
CompareMatchesAbstract ==
    \A tid \in Tables, src \in MERGE_SOURCES :
        \E a \in {SourceTable(src)} :
            \A p \in {<<hts[tid], a>>, <<a, hts[tid]>>, <<hts[tid], hts[tid]>>} :
                \E e1 \in {Entries(p[1])}, e2 \in {Entries(p[2])} :
                    \A ordered \in BOOLEAN, rank \in StrRanks, cmp \in ValCmps :
                        HashCompare(p[1], p[2], ordered, rank, cmp)
                          = Abstract!Compared(e1, e2, ordered,
                                              LAMBDA x, y : KeyCmp(x, y, rank),
                                              LAMBDA x, y : cmp[x, y])

\* element comparators that order the values, ties included
ValRanks == [Vals -> 1 .. Cardinality(Vals)]
RankCmp(r) == [p \in Vals \X Vals |-> Abstract!Sgn(r[p[1]] - r[p[2]])]

\* zend_hash_minmax (max() and min() of an array) returns, for every
\* comparator that orders the values, the first entry in order whose value
\* is largest (flag set) or smallest, and NULL for an empty table: its scan
\* starts past the holes and replaces its candidate only on a strict win
MinmaxMatchesAbstract ==
    \A tid \in Tables : \E e \in {Entries(hts[tid])} :
        \A flag \in BOOLEAN, r \in ValRanks :
            \E i \in {HashMinmax(hts[tid], RankCmp(r), flag)},
               k \in {Abstract!Extremum(e, LAMBDA v : r[v], flag)} :
                IF k = 0 THEN i = HT_INVALID_IDX
                ELSE i /= HT_INVALID_IDX /\ hts[tid].arData[i].key = e[k].key
=============================================================================

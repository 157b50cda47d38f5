----------------------------- MODULE ZendMMHeap -----------------------------
(***************************************************************************)
(* The Zend memory manager of zend_alloc.c: one heap (zend_mm_heap) with   *)
(* its ring of 2 MiB chunks, each split into ZEND_MM_PAGES pages tracked   *)
(* by a free_map bitset and a page_info map; the chunk cache; large runs   *)
(* of pages; small bins carved out of 1..n page runs with in-band free     *)
(* lists; zend_mm_gc; and the per-request reset of zend_mm_shutdown.       *)
(*                                                                         *)
(* Chunk addresses are the model values Chunks, a chunk being mapped while *)
(* it is in mm.os.  Addresses inside a chunk are offsets in units of which *)
(* a page holds PAGE_SIZE.  Memory sizes (real_size, limit) are counted in *)
(* chunks.  heap->avg_chunks_count, a double, is kept exactly as avgN =    *)
(* avg * 2^MAX_REQUESTS, which is an integer for at most MAX_REQUESTS      *)
(* halvings.  Huge blocks (and the huge branch of realloc), the custom    *)
(* heap and the statistics size/peak are not part of this module.          *)
(***************************************************************************)
EXTENDS Integers, Sequences, FiniteSets, SequencesExt

CONSTANTS
    Chunks,         \* the 2 MiB aligned regions the OS can hand out
    MAIN,           \* the one zend_mm_init gets
    NULL,
    BITSET_LEN, PAGE_MAP_LEN,
    PAGE_SIZE,      \* units per page
    BinSize, BinElements, BinPages,     \* bin_data_size, bin_elements, bin_pages
    Sizes,          \* the request sizes the client asks for (no huge ones)
    ReallocSizes,   \* the sizes it reallocates a block to (no huge ones)
    LIMIT,          \* heap->limit, in chunks
    MAX_LIVE,       \* how many allocations the client holds at most
    MAX_REQUESTS,   \* how many request shutdowns are explored
    PIN_MAIN,       \* the engine keeps an allocation in the main chunk
    MAX_NUM         \* the largest chunk num explored

B == INSTANCE ZendMMBitset

ZEND_MM_PAGES == B!MAP_BITS
ZEND_MM_FIRST_PAGE == 1
Pages == 0 .. ZEND_MM_PAGES - 1
Bins == DOMAIN BinSize
ZEND_MM_MAX_SMALL_SIZE == BinSize[Cardinality(Bins) - 1]
ZEND_MM_MAX_LARGE_SIZE == (ZEND_MM_PAGES - ZEND_MM_FIRST_PAGE) * PAGE_SIZE
D == 2^MAX_REQUESTS
DELETE_COUNT_CAP == 4

ASSUME /\ MAIN \in Chunks /\ NULL \notin Chunks
       /\ Bins = 0 .. Cardinality(Bins) - 1
       /\ \A s \in Sizes \cup ReallocSizes : 0 < s /\ s <= ZEND_MM_MAX_LARGE_SIZE

VARIABLES
    mm,         \* [h: the zend_mm_heap, ch: chunk headers, os: mapped chunks]
    live,       \* the client's allocations: [c, a, len]
    status,     \* "run", "bailout" after zend_mm_safe_error, "crash"
    requests    \* request shutdowns so far

vars == <<mm, live, status, requests>>

(***************************************************************************)
(* page_info (zend_mm_page_info): the two status bits and their payload.   *)
(***************************************************************************)
FRUN == [t |-> "F"]
LRUN(n) == [t |-> "L", n |-> n]
SRUN_EX(b, cnt) == [t |-> "S", bin |-> b, cnt |-> cnt]
SRUN(b) == SRUN_EX(b, 0)
NRUN(b, off) == [t |-> "N", bin |-> b, off |-> off]
\* info & ZEND_MM_IS_SRUN and info & ZEND_MM_IS_LRUN (an NRUN has both)
IsSrunBit(i) == i.t \in {"S", "N"}
IsLrunBit(i) == i.t \in {"L", "N"}

\* a chunk header as mmap returns it, or as memset(p, 0, ...) leaves it
ZeroChunk(next) ==
    [next |-> next, prev |-> NULL, free_pages |-> 0, free_tail |-> 0,
     num |-> 0, free_map |-> [w \in B!Words |-> 0], map |-> [p \in Pages |-> FRUN]]

\* the result of an allocator step
Ok(m, ptr) == [m |-> m, ok |-> TRUE, err |-> FALSE, crash |-> FALSE, ptr |-> ptr]
Err(m) == [m |-> m, ok |-> FALSE, err |-> TRUE, crash |-> FALSE, ptr |-> NULL]
Crash(m) == [m |-> m, ok |-> FALSE, err |-> FALSE, crash |-> TRUE, ptr |-> NULL]

(***************************************************************************)
(* OS chunk provider (zend_mm_chunk_alloc / zend_mm_chunk_free): the OS    *)
(* returns the unmapped region f, or fails when f is already mapped.       *)
(***************************************************************************)
ChunkAlloc(m, f) == IF f \in m.os THEN NULL ELSE f
Mapped(m, f) == [m EXCEPT !.os = @ \cup {f}, !.ch[f] = ZeroChunk(NULL)]
ChunkFree(m, c) == [m EXCEPT !.os = @ \ {c}]

\* mutant: chunk_init without chunk->next->prev = chunk
ChunkInitNoPrev(m, c) ==
    LET main == m.h.main_chunk
        last == m.ch[main].prev
        ch1 == [m.ch EXCEPT ![c].next = main, ![c].prev = last]
        ch2 == [ch1 EXCEPT ![last].next = c]
    IN [m EXCEPT !.ch = [ch2 EXCEPT
           ![c].free_pages = ZEND_MM_PAGES - ZEND_MM_FIRST_PAGE,
           ![c].free_tail = ZEND_MM_FIRST_PAGE,
           ![c].num = ch2[last].num + 1,
           ![c].free_map[0] = 2^ZEND_MM_FIRST_PAGE - 1,
           ![c].map[0] = LRUN(ZEND_MM_FIRST_PAGE)]]

\* zend_mm_chunk_init: link c in before the main chunk, page 0 allocated
ChunkInit(m, c) ==
    LET main == m.h.main_chunk
        last == m.ch[main].prev
        ch1 == [m.ch EXCEPT ![c].next = main, ![c].prev = last]
        ch2 == [ch1 EXCEPT ![last].next = c]
        ch3 == [ch2 EXCEPT ![main].prev = c]
    IN [m EXCEPT !.ch = [ch3 EXCEPT
           ![c].free_pages = ZEND_MM_PAGES - ZEND_MM_FIRST_PAGE,
           ![c].free_tail = ZEND_MM_FIRST_PAGE,
           ![c].num = ch3[last].num + 1,
           ![c].free_map[0] = 2^ZEND_MM_FIRST_PAGE - 1,
           ![c].map[0] = LRUN(ZEND_MM_FIRST_PAGE)]]

\* zend_mm_init
InitHeap ==
    LET h == [main_chunk |-> MAIN, cached_chunks |-> NULL, chunks_count |-> 1,
              peak_chunks_count |-> 1, cached_chunks_count |-> 0, avgN |-> D,
              last_chunks_delete_boundary |-> 0, last_chunks_delete_count |-> 0,
              real_size |-> 1, free_slot |-> [b \in Bins |-> << >>]]
        c == [ZeroChunk(MAIN) EXCEPT
                 !.prev = MAIN, !.free_pages = ZEND_MM_PAGES - ZEND_MM_FIRST_PAGE,
                 !.free_tail = ZEND_MM_FIRST_PAGE,
                 !.free_map[0] = 2^ZEND_MM_FIRST_PAGE - 1,
                 !.map[0] = LRUN(ZEND_MM_FIRST_PAGE)]
    IN [h |-> h, os |-> {MAIN},
        ch |-> [x \in Chunks |-> IF x = MAIN THEN c ELSE ZeroChunk(NULL)]]

(***************************************************************************)
(* The best-fit search of zend_mm_alloc_pages over one chunk's free_map,   *)
(* word by word, with i the first bit of the current word and tmp what is  *)
(* left of it.  SkipAllocated is the "skip allocated blocks" loop and      *)
(* SkipFree the "skip free blocks" loop of a gap starting at page.  A gap  *)
(* that reaches a word boundary at or past free_tail is taken to run to    *)
(* the end of the chunk.  The result is the page found, if any, and the    *)
(* chunk's free_tail as the search leaves it.                              *)
(***************************************************************************)
Fit(found, page, ft) == [found |-> found, page |-> page, free_tail |-> ft]

RECURSIVE SkipAllocated(_, _, _, _, _, _), SkipFree(_, _, _, _, _, _, _)
SkipAllocated(ck, n, i, tmp, best, bestLen) ==
    IF tmp = B!ALL
    THEN IF i + BITSET_LEN = ZEND_MM_PAGES
         THEN Fit(best > 0, best, ck.free_tail)
         ELSE SkipAllocated(ck, n, i + BITSET_LEN,
                            ck.free_map[(i + BITSET_LEN) \div BITSET_LEN], best, bestLen)
    ELSE SkipFree(ck, n, i, B!&(tmp, tmp + 1), i + B!Nts(tmp), best, bestLen)

SkipFree(ck, n, i, tmp, page, best, bestLen) ==
    IF tmp = 0
    THEN LET j == i + BITSET_LEN
             len == ZEND_MM_PAGES - page
         IN IF j >= ck.free_tail \/ j = ZEND_MM_PAGES
            THEN IF len >= n /\ len < bestLen
                 THEN Fit(TRUE, page, page + n)
                 ELSE Fit(best > 0, best, page)   \* "set accurate value"
            ELSE SkipFree(ck, n, j, ck.free_map[j \div BITSET_LEN], page, best, bestLen)
    ELSE LET len == i + B!Ntz(tmp) - page
             better == len >= n /\ len < bestLen
         IN IF len = n
            THEN Fit(TRUE, page, ck.free_tail)
            ELSE SkipAllocated(ck, n, i, B!|(tmp, tmp - 1),
                               IF better THEN page ELSE best,
                               IF better THEN len ELSE bestLen)

BestFit(ck, n) == SkipAllocated(ck, n, 0, ck.free_map[0], -1, ZEND_MM_PAGES)

(***************************************************************************)
(* Releasing pages and chunks.                                             *)
(***************************************************************************)
\* heap->chunks_count + heap->cached_chunks_count < heap->avg_chunks_count + 0.1
\* || (chunks_count == last_chunks_delete_boundary && last_chunks_delete_count >= 4)
KeepInCache(h) ==
    \/ 10 * D * (h.chunks_count + h.cached_chunks_count) < 10 * h.avgN + D
    \/ /\ h.chunks_count = h.last_chunks_delete_boundary
       /\ h.last_chunks_delete_count >= DELETE_COUNT_CAP

\* the boundary bookkeeping of a release while the cache is empty; the count
\* is only ever compared with 4, so it is kept as min(count, 4)
DeleteBoundary(h) ==
    IF h.cached_chunks /= NULL THEN h
    ELSE IF h.chunks_count /= h.last_chunks_delete_boundary
         THEN [h EXCEPT !.last_chunks_delete_boundary = h.chunks_count,
                        !.last_chunks_delete_count = 0]
         ELSE [h EXCEPT !.last_chunks_delete_count =
                           IF @ < DELETE_COUNT_CAP THEN @ + 1 ELSE @]

\* mutant: delete_chunk without heap->chunks_count--
DeleteChunkNoCount(m, c) ==
    LET ck == m.ch[c]
        ch1 == [m.ch EXCEPT ![ck.next].prev = ck.prev]
        ch2 == [ch1 EXCEPT ![ck.prev].next = ck.next]
        h1 == m.h
        h2 == DeleteBoundary([h1 EXCEPT !.real_size = @ - 1])
        head == h2.cached_chunks
    IN IF KeepInCache(h1)
       THEN [m EXCEPT !.ch = [ch2 EXCEPT ![c].next = h1.cached_chunks],
                      !.h = [h1 EXCEPT !.cached_chunks_count = @ + 1,
                                       !.cached_chunks = c]]
       ELSE IF head = NULL \/ ch2[c].num > ch2[head].num
            THEN ChunkFree([m EXCEPT !.ch = ch2, !.h = h2], c)
            ELSE ChunkFree([m EXCEPT !.ch = [ch2 EXCEPT ![c].next = ch2[head].next],
                                     !.h = [h2 EXCEPT !.cached_chunks = c]], head)

\* mutant: delete_chunk taking the chunk off real_size also when it caches it
DeleteChunkRealAlways(m, c) ==
    LET ck == m.ch[c]
        ch1 == [m.ch EXCEPT ![ck.next].prev = ck.prev]
        ch2 == [ch1 EXCEPT ![ck.prev].next = ck.next]
        h1 == [m.h EXCEPT !.chunks_count = @ - 1, !.real_size = @ - 1]
        h2 == DeleteBoundary(h1)
        head == h2.cached_chunks
    IN IF KeepInCache(h1)
       THEN [m EXCEPT !.ch = [ch2 EXCEPT ![c].next = h1.cached_chunks],
                      !.h = [h1 EXCEPT !.cached_chunks_count = @ + 1,
                                       !.cached_chunks = c]]
       ELSE IF head = NULL \/ ch2[c].num > ch2[head].num
            THEN ChunkFree([m EXCEPT !.ch = ch2, !.h = h2], c)
            ELSE ChunkFree([m EXCEPT !.ch = [ch2 EXCEPT ![c].next = ch2[head].next],
                                     !.h = [h2 EXCEPT !.cached_chunks = c]], head)

\* zend_mm_delete_chunk: unlink c from the ring, then cache it or return it
\* (or the cache head, if that is younger) to the OS
DeleteChunk(m, c) ==
    LET ck == m.ch[c]
        ch1 == [m.ch EXCEPT ![ck.next].prev = ck.prev]
        ch2 == [ch1 EXCEPT ![ck.prev].next = ck.next]
        h1 == [m.h EXCEPT !.chunks_count = @ - 1]
        h2 == DeleteBoundary([h1 EXCEPT !.real_size = @ - 1])
        head == h2.cached_chunks
    IN IF KeepInCache(h1)
       THEN [m EXCEPT !.ch = [ch2 EXCEPT ![c].next = h1.cached_chunks],
                      !.h = [h1 EXCEPT !.cached_chunks_count = @ + 1,
                                       !.cached_chunks = c]]
       ELSE IF head = NULL \/ ch2[c].num > ch2[head].num
            THEN ChunkFree([m EXCEPT !.ch = ch2, !.h = h2], c)
            ELSE ChunkFree([m EXCEPT !.ch = [ch2 EXCEPT ![c].next = ch2[head].next],
                                     !.h = [h2 EXCEPT !.cached_chunks = c]], head)

\* mutant: free_pages_ex lowering free_tail to page_num unconditionally
FreePagesExTailAlways(m, c, p, n, freeChunk) ==
    LET m2 == [m EXCEPT !.ch[c].free_pages = @ + n,
                        !.ch[c].free_map = B!ResetRange(@, p, n),
                        !.ch[c].map[p] = FRUN,
                        !.ch[c].free_tail = p]
    IN IF freeChunk /\ m2.ch[c].free_pages = ZEND_MM_PAGES - ZEND_MM_FIRST_PAGE
       THEN DeleteChunk(m2, c)
       ELSE m2

\* zend_mm_free_pages_ex: pages p .. p+n-1 of c become free; a chunk left
\* with no page in use is released when freeChunk is set
FreePagesEx(m, c, p, n, freeChunk) ==
    LET m2 == [m EXCEPT !.ch[c].free_pages = @ + n,
                        !.ch[c].free_map = B!ResetRange(@, p, n),
                        !.ch[c].map[p] = FRUN,
                        !.ch[c].free_tail = IF @ = p + n THEN p ELSE @]
    IN IF freeChunk /\ m2.ch[c].free_pages = ZEND_MM_PAGES - ZEND_MM_FIRST_PAGE
       THEN DeleteChunk(m2, c)
       ELSE m2

(***************************************************************************)
(* zend_mm_gc.  A free cell's run starts at its page, or NRUN_OFFSET pages *)
(* before it.  The first pass counts the free cells of every run in the    *)
(* SRUN's FREE_COUNTER and, for a bin with a run all of whose cells are    *)
(* free, drops that run's cells from the free list.  The second walks each *)
(* chunk of the ring below free_tail, releasing such runs (without         *)
(* releasing the chunk) and resetting the other counters, then releases    *)
(* the chunks left with no page in use.                                    *)
(***************************************************************************)
RunStart(m, cell) ==
    LET p == cell.a \div PAGE_SIZE
        info == m.ch[cell.c].map[p]
    IN IF info.t = "N" THEN p - info.off ELSE p

RECURSIVE CountFree(_, _, _, _, _)
CountFree(m, b, fl, k, has) ==
    IF k > Len(fl) THEN [m |-> m, has |-> has]
    ELSE LET cell == fl[k]
             s == RunStart(m, cell)
             info == m.ch[cell.c].map[s]
             \* ZEND_MM_SRUN_FREE_COUNTER: the bits are 0 in a free or LRUN entry
             cnt == (IF info.t = "S" THEN info.cnt ELSE 0) + 1
         IN CountFree([m EXCEPT !.ch[cell.c].map[s] = SRUN_EX(b, cnt)], b, fl, k + 1,
                      has \/ cnt = BinElements[b])

RunAllFree(m, b, cell) == m.ch[cell.c].map[RunStart(m, cell)].cnt = BinElements[b]

\* mutant: the first gc pass counts but keeps the cells of freed runs listed
RECURSIVE GcBinsNoDrop(_, _)
GcBinsNoDrop(m, b) ==
    IF b \notin Bins THEN m
    ELSE GcBinsNoDrop(CountFree(m, b, m.h.free_slot[b], 1, FALSE).m, b + 1)


\* r is the count of bin b; its free list loses the cells of free runs
DropFreeRuns(r, b) ==
    IF r.has
    THEN [r.m EXCEPT !.h.free_slot[b] =
            SelectSeq(@, LAMBDA cell : ~RunAllFree(r.m, b, cell))]
    ELSE r.m

RECURSIVE GcBins(_, _)
GcBins(m, b) ==
    IF b \notin Bins THEN m
    ELSE GcBins(DropFreeRuns(CountFree(m, b, m.h.free_slot[b], 1, FALSE), b), b + 1)

\* the page walk of one chunk; an entry that is no run start is a crash
RECURSIVE GcWalk(_, _, _, _)
GcWalk(m, c, i, collected) ==
    IF i >= m.ch[c].free_tail THEN [m |-> m, collected |-> collected, crash |-> FALSE]
    ELSE IF ~B!IsSet(m.ch[c].free_map, i) THEN GcWalk(m, c, i + 1, collected)
    ELSE LET info == m.ch[c].map[i]
         IN CASE info.t = "S" ->
                   LET n == BinPages[info.bin]
                   IN IF info.cnt = BinElements[info.bin]
                      THEN GcWalk(FreePagesEx(m, c, i, n, FALSE), c, i + n, collected + n)
                      ELSE GcWalk([m EXCEPT !.ch[c].map[i] = SRUN(info.bin)], c, i + n, collected)
              [] info.t = "L" -> GcWalk(m, c, i + info.n, collected)
              [] OTHER -> [m |-> m, collected |-> collected, crash |-> TRUE]

\* the do { ... } while (chunk != heap->main_chunk) loop over the ring
\* after the walk w of chunk c: a chunk with no page in use is released
ReleaseEmpty(w, c) ==
    IF w.m.ch[c].free_pages = ZEND_MM_PAGES - ZEND_MM_FIRST_PAGE
    THEN [w EXCEPT !.m = DeleteChunk(w.m, c)]
    ELSE w

RECURSIVE GcChunks(_, _, _, _), GcWalked(_, _, _), GcNext(_, _, _)
GcChunks(m, c, collected, fuel) ==
    IF c = NULL \/ c \notin m.os \/ fuel = 0
    THEN [m |-> m, collected |-> collected, crash |-> TRUE]
    ELSE GcWalked(GcWalk(m, c, ZEND_MM_FIRST_PAGE, collected), c, fuel)

\* w is the page walk of chunk c
GcWalked(w, c, fuel) ==
    IF w.crash THEN w ELSE GcNext(ReleaseEmpty(w, c), w.m.ch[c].next, fuel)

\* chunk = chunk->next, read before the release; stop at the main chunk
GcNext(w, next, fuel) ==
    IF next = w.m.h.main_chunk THEN w
    ELSE GcChunks(w.m, next, w.collected, fuel - 1)

GcRing(m) == GcChunks(m, m.h.main_chunk, 0, Cardinality(Chunks))
Gc(m) == GcRing(GcBins(m, 0))

(***************************************************************************)
(* zend_mm_alloc_pages: search the ring from the main chunk; when no chunk *)
(* has room take the cache head, or map a new chunk (the memory limit      *)
(* check, gc and one retry on failure come first); f1 and f2 are what the  *)
(* two zend_mm_chunk_alloc calls may return.                               *)
(***************************************************************************)
\* mutant: the move to the ring head without chunk->next->prev = chunk
MoveToFrontNoNextPrev(ch, main, c) ==
    LET chA == [ch EXCEPT ![ch[c].prev].next = ch[c].next]
        chB == [chA EXCEPT ![ch[c].next].prev = ch[c].prev]
    IN [chB EXCEPT ![c].next = chB[main].next, ![c].prev = main, ![main].next = c]

\* the six pointer updates that unlink chunk c and relink it after main
MoveToFront(ch, main, c) ==
    LET chA == [ch EXCEPT ![ch[c].prev].next = ch[c].next]
        chB == [chA EXCEPT ![ch[c].next].prev = ch[c].prev]
        chD == [chB EXCEPT ![c].next = chB[main].next, ![c].prev = main, ![main].next = c]
    IN [chD EXCEPT ![chD[c].next].prev = c]

\* found: move a chunk reached after more than two hops to the ring head,
\* then mark the run allocated
Found(m, c, p, n, steps) ==
    LET ch1 == IF steps > 2 /\ n < 8 THEN MoveToFront(m.ch, m.h.main_chunk, c) ELSE m.ch
    IN Ok([m EXCEPT !.ch = [ch1 EXCEPT
                 ![c].free_pages = @ - n,
                 ![c].free_map = B!SetRange(@, p, n),
                 ![c].map[p] = LRUN(n),
                 ![c].free_tail = IF p = @ THEN p + n ELSE @]],
          [c |-> c, p |-> p])

\* a chunk from the cache or the OS joins the ring and serves the request
Install(m, c, n, steps) ==
    LET h == [m.h EXCEPT !.chunks_count = @ + 1,
                         !.peak_chunks_count = IF m.h.chunks_count + 1 > @
                                               THEN m.h.chunks_count + 1 ELSE @]
    IN Found(ChunkInit([m EXCEPT !.h = h], c), c, ZEND_MM_FIRST_PAGE, n, steps)

FromOs(m, c) == [Mapped(m, c) EXCEPT !.h.real_size = @ + 1]

\* the chunk that serves the request: Ok(m, c) for the cache head or a chunk
\* mapped from the OS, or the bailout or crash on the way
RECURSIVE GetChunk(_, _, _), AfterGc(_, _, _, _)
GetChunk(m, f1, f2) ==
    IF m.h.cached_chunks /= NULL
    THEN Ok([m EXCEPT !.h.cached_chunks_count = @ - 1,
                      !.h.cached_chunks = m.ch[m.h.cached_chunks].next],
            m.h.cached_chunks)
    ELSE IF m.h.real_size + 1 <= LIMIT /\ ChunkAlloc(m, f1) /= NULL
    THEN Ok(FromOs(m, f1), f1)
    ELSE AfterGc(Gc(m), m.h.real_size + 1 > LIMIT, f1, f2)

\* g is the zend_mm_gc run because the limit was reached (retry from the
\* top) or because the OS refused (one more zend_mm_chunk_alloc, giving f2)
AfterGc(g, limited, f1, f2) ==
    IF g.crash THEN Crash(g.m)
    ELSE IF g.collected = 0 THEN Err(g.m)
    ELSE IF limited THEN GetChunk(g.m, f1, f2)
    ELSE IF ChunkAlloc(g.m, f2) /= NULL THEN Ok(FromOs(g.m, f2), f2)
    ELSE Err(g.m)

\* s is the outcome of get_chunk
Take(s, n, steps) == IF s.ok THEN Install(s.m, s.ptr, n, steps) ELSE s

RECURSIVE Search(_, _, _, _, _, _, _), Probed(_, _, _, _, _, _, _, _)
Search(m, c, n, steps, fuel, f1, f2) ==
    IF c = NULL \/ c \notin m.os \/ fuel = 0 THEN Crash(m)
    ELSE Probed(m, c, n, steps, fuel, f1, f2,
                IF m.ch[c].free_pages < n THEN Fit(FALSE, -1, m.ch[c].free_tail)
                ELSE BestFit(m.ch[c], n))

\* r is the best-fit search of chunk c (none when it has too few free
\* pages); not_found moves on along the ring or, at its end, to get_chunk
Probed(m, c, n, steps, fuel, f1, f2, r) ==
    LET m2 == [m EXCEPT !.ch[c].free_tail = r.free_tail]
    IN IF r.found THEN Found(m2, c, r.page, n, steps)
       ELSE IF m.ch[c].next = m.h.main_chunk THEN Take(GetChunk(m2, f1, f2), n, steps)
       ELSE Search(m2, m.ch[c].next, n, steps + 1, fuel - 1, f1, f2)

AllocPages(m, n, f1, f2) ==
    Search(m, m.h.main_chunk, n, 0, Cardinality(Chunks), f1, f2)

(***************************************************************************)
(* Small and large allocations, and the heap entry points.                 *)
(***************************************************************************)
\* zend_mm_alloc_small_slow: a new run of bin b; cell 0 is returned and
\* cells 1 .. elements-1 become the free list
SmallRun(r, b) ==
    LET c == r.ptr.c
        p == r.ptr.p
        map == [q \in Pages |-> IF q = p THEN SRUN(b)
                                ELSE IF p < q /\ q < p + BinPages[b] THEN NRUN(b, q - p)
                                ELSE r.m.ch[c].map[q]]
        cells == [k \in 1 .. BinElements[b] - 1 |->
                     [c |-> c, a |-> p * PAGE_SIZE + k * BinSize[b]]]
    IN IF ~r.ok THEN r
       ELSE Ok([r.m EXCEPT !.ch[c].map = map, !.h.free_slot[b] = cells],
               [c |-> c, a |-> p * PAGE_SIZE])
AllocSmallSlow(m, b, f1, f2) == SmallRun(AllocPages(m, BinPages[b], f1, f2), b)

\* zend_mm_alloc_small: pop the free list of bin b
AllocSmall(m, b, f1, f2) ==
    IF m.h.free_slot[b] /= << >>
    THEN Ok([m EXCEPT !.h.free_slot[b] = Tail(@)], Head(m.h.free_slot[b]))
    ELSE AllocSmallSlow(m, b, f1, f2)

\* ZEND_MM_SMALL_SIZE_TO_BIN: the smallest bin whose cells hold size bytes
SizeToBin(size) == CHOOSE b \in Bins : BinSize[b] >= size /\ \A x \in 0 .. b - 1 : BinSize[x] < size
\* ZEND_MM_SIZE_TO_NUM(size, ZEND_MM_PAGE_SIZE)
SizeToPages(size) == (size + PAGE_SIZE - 1) \div PAGE_SIZE

\* the address of the first page of the run alloc_pages returned in r
LargePtr(r) == IF ~r.ok THEN r ELSE Ok(r.m, [c |-> r.ptr.c, a |-> r.ptr.p * PAGE_SIZE])

\* mutant: alloc_large taking one page fewer than ZEND_MM_SIZE_TO_NUM gives
AllocLargeShort(m, size, f1, f2) == LargePtr(AllocPages(m, SizeToPages(size) - 1, f1, f2))

\* zend_mm_alloc_large
AllocLarge(m, size, f1, f2) == LargePtr(AllocPages(m, SizeToPages(size), f1, f2))

\* zend_mm_alloc_heap for a size that is not huge
AllocHeap(m, size, f1, f2) ==
    IF size <= ZEND_MM_MAX_SMALL_SIZE THEN AllocSmall(m, SizeToBin(size), f1, f2)
    ELSE AllocLarge(m, size, f1, f2)

\* zend_mm_free_small: push the cell on its bin's free list
FreeSmall(m, ptr, b) == [m EXCEPT !.h.free_slot[b] = <<ptr>> \o @]

\* zend_mm_free_large -> zend_mm_free_pages: the run is freed and an empty
\* chunk released
FreeLarge(m, c, p, n) == FreePagesEx(m, c, p, n, TRUE)

\* zend_mm_free_heap: the page_info of the pointer's page says whether it
\* is a small cell (pushed on its bin's free list) or a large run
FreeHeap(m, ptr) ==
    LET page == ptr.a \div PAGE_SIZE
        info == m.ch[ptr.c].map[page]
    IN CASE IsSrunBit(info) -> Ok(FreeSmall(m, ptr, info.bin), NULL)
         [] info.t = "L" -> Ok(FreeLarge(m, ptr.c, page, info.n), NULL)
         [] OTHER -> Crash(m)

(***************************************************************************)
(* zend_mm_realloc_heap for a block that is not huge.  A small block whose *)
(* new size keeps its bin, and a large run resized within its chunk, stay  *)
(* where they are; anything else is the "naive reallocation": allocate,    *)
(* copy, and free the old block.  The huge branch is not modelled.         *)
(***************************************************************************)
\* zend_mm_size of a block of size bytes: its bin's cell or its pages
BlockLen(size) ==
    IF size <= ZEND_MM_MAX_SMALL_SIZE THEN BinSize[SizeToBin(size)]
    ELSE SizeToPages(size) * PAGE_SIZE

\* f is the free of the old block, after r allocated the new one
Moved(f, r) == IF f.crash THEN f ELSE Ok(f.m, r.ptr)
NaiveRealloc(r, ptr) == IF ~r.ok THEN r ELSE Moved(FreeHeap(r.m, ptr), r)

\* mutant: the tail pages taken without checking that they are free
ReallocLargeNoFreeCheck(m, ptr, p, old, new, naive) ==
    LET c == ptr.c
    IN IF new = old THEN Ok(m, ptr)
       ELSE IF new < old
       THEN Ok([m EXCEPT !.ch[c].map[p] = LRUN(new),
                         !.ch[c].free_pages = @ + (old - new),
                         !.ch[c].free_map = B!ResetRange(@, p + new, old - new)], ptr)
       ELSE IF p + new <= ZEND_MM_PAGES
       THEN Ok([m EXCEPT !.ch[c].free_pages = @ - (new - old),
                         !.ch[c].free_map = B!SetRange(@, p + old, new - old),
                         !.ch[c].map[p] = LRUN(new)], ptr)
       ELSE naive

\* the large run of old pages at page p becomes new pages: the tail pages
\* are freed, or taken when they are free and inside the chunk (free_tail
\* is left as it is); naive is the naive reallocation
ReallocLarge(m, ptr, p, old, new, naive) ==
    LET c == ptr.c
    IN IF new = old THEN Ok(m, ptr)
       ELSE IF new < old
       THEN Ok([m EXCEPT !.ch[c].map[p] = LRUN(new),
                         !.ch[c].free_pages = @ + (old - new),
                         !.ch[c].free_map = B!ResetRange(@, p + new, old - new)], ptr)
       ELSE IF p + new <= ZEND_MM_PAGES
               /\ B!IsFreeRange(m.ch[c].free_map, p + old, new - old)
       THEN Ok([m EXCEPT !.ch[c].free_pages = @ - (new - old),
                         !.ch[c].free_map = B!SetRange(@, p + old, new - old),
                         !.ch[c].map[p] = LRUN(new)], ptr)
       ELSE naive

ReallocHeap(m, ptr, size, f1, f2) ==
    LET page == ptr.a \div PAGE_SIZE
        info == m.ch[ptr.c].map[page]
    IN CASE IsSrunBit(info) /\ size <= ZEND_MM_MAX_SMALL_SIZE
                            /\ SizeToBin(size) = info.bin -> Ok(m, ptr)
         [] info.t = "L" /\ size > ZEND_MM_MAX_SMALL_SIZE ->
                ReallocLarge(m, ptr, page, info.n, SizeToPages(size),
                             NaiveRealloc(AllocHeap(m, size, f1, f2), ptr))
         [] OTHER -> NaiveRealloc(AllocHeap(m, size, f1, f2), ptr)

(***************************************************************************)
(* zend_mm_shutdown(heap, 0, ...): the reset between two requests.         *)
(***************************************************************************)
\* the chunks met following next from c until main_chunk (the ring walk)
RECURSIVE RingWalk(_, _, _)
RingWalk(m, c, fuel) ==
    IF c = m.h.main_chunk \/ c = NULL \/ fuel = 0 THEN << >>
    ELSE <<c>> \o RingWalk(m, m.ch[c].next, fuel - 1)

\* the chunks met following next from c until NULL (the cache list)
RECURSIVE ListFrom(_, _, _)
ListFrom(m, c, fuel) ==
    IF c = NULL \/ fuel = 0 THEN << >>
    ELSE <<c>> \o ListFrom(m, m.ch[c].next, fuel - 1)

Ring(m) == <<m.h.main_chunk>> \o RingWalk(m, m.ch[m.h.main_chunk].next, Cardinality(Chunks))
Cache(m) == ListFrom(m, m.h.cached_chunks, Cardinality(Chunks))

\* free cached chunks while cached_chunks_count + 0.9 > avg_chunks_count
RECURSIVE TrimCache(_)
TrimCache(m) ==
    IF 10 * D * m.h.cached_chunks_count + 9 * D > 10 * m.h.avgN /\ m.h.cached_chunks /= NULL
    THEN TrimCache(ChunkFree([m EXCEPT !.h.cached_chunks = m.ch[m.h.cached_chunks].next,
                                       !.h.cached_chunks_count = @ - 1],
                             m.h.cached_chunks))
    ELSE m

\* the main chunk with its first page zeroed and its header set up again
ResetMain(main) ==
    [ZeroChunk(main) EXCEPT
        !.prev = main, !.free_pages = ZEND_MM_PAGES - ZEND_MM_FIRST_PAGE,
        !.free_tail = ZEND_MM_FIRST_PAGE,
        !.free_map[0] = 2^ZEND_MM_FIRST_PAGE - 1,
        !.map[0] = LRUN(ZEND_MM_FIRST_PAGE)]

ShutdownReset(m) ==
    LET main == m.h.main_chunk
        rest == Tail(Ring(m))
        moved == [m EXCEPT
                    !.ch = [c \in Chunks |->
                              IF c \in Range(rest)
                              THEN LET k == CHOOSE k \in DOMAIN rest : rest[k] = c
                                   IN [m.ch[c] EXCEPT !.next = IF k = 1 THEN m.h.cached_chunks
                                                               ELSE rest[k - 1]]
                              ELSE m.ch[c]],
                    !.h.cached_chunks = IF rest = << >> THEN m.h.cached_chunks ELSE Last(rest),
                    !.h.chunks_count = @ - Len(rest),
                    !.h.cached_chunks_count = @ + Len(rest)]
        avg == [moved EXCEPT !.h.avgN = (@ + moved.h.peak_chunks_count * D) \div 2]
        t == TrimCache(avg)
        cached == Range(Cache(t))
    IN [t EXCEPT
          !.ch = [c \in Chunks |->
                    IF c = main THEN ResetMain(main)
                    ELSE IF c \in cached THEN ZeroChunk(t.ch[c].next)
                    ELSE t.ch[c]],
          !.h.free_slot = [b \in Bins |-> << >>],
          !.h.chunks_count = 1, !.h.peak_chunks_count = 1,
          !.h.last_chunks_delete_boundary = 0, !.h.last_chunks_delete_count = 0,
          !.h.real_size = 1]

(***************************************************************************)
(* State the code never reads again is brought to one form, so that TLC    *)
(* does not tell apart heaps the program cannot: an unmapped chunk has no  *)
(* header; a cached chunk is only its next link and num (chunk_init and    *)
(* the reset overwrite the rest, and its pages are all free); the map      *)
(* entry of a page whose free_map bit is clear is never read.              *)
(***************************************************************************)
Canon(m) ==
    LET cached == Range(Cache(m))
    IN [m EXCEPT !.ch = [c \in Chunks |->
          IF c \notin m.os THEN ZeroChunk(NULL)
          ELSE IF c \in cached
          THEN [ZeroChunk(m.ch[c].next) EXCEPT !.num = m.ch[c].num]
          ELSE [m.ch[c] EXCEPT !.map = [p \in Pages |->
                    IF B!IsSet(m.ch[c].free_map, p) THEN m.ch[c].map[p] ELSE FRUN]]]]

\* the allocation the engine keeps in the main chunk through a request: one
\* page, which alloc_pages takes at ZEND_MM_FIRST_PAGE of a fresh heap
Pin(m) == IF PIN_MAIN THEN Found(m, m.h.main_chunk, ZEND_MM_FIRST_PAGE, 1, 0).m ELSE m

(***************************************************************************)
(* The specification.  The client is the interpreter of one request: it    *)
(* allocates any size of Sizes, frees what it holds, calls zend_mm_gc, and *)
(* ends the request.  An allocation that fails raises zend_mm_safe_error,  *)
(* whose bailout ends the request too; a read of corrupted heap structures *)
(* is a crash.                                                             *)
(***************************************************************************)
Init ==
    /\ mm = Pin(InitHeap)
    /\ live = {}
    /\ status = "run"
    /\ requests = 0

\* the result of a step, installed
Apply(r) ==
    /\ mm' = Canon(r.m)
    /\ status' = CASE r.crash -> "crash" [] r.err -> "bailout" [] OTHER -> status

\* what zend_mm_chunk_alloc may return: an unmapped chunk, or a mapped one,
\* which makes it fail as every mapped one does (MAIN stands for them)
OsChoices == (Chunks \ mm.os) \cup (IF MAIN \in mm.os THEN {MAIN} ELSE mm.os)

\* zend_mm_alloc_heap (via _emalloc) of size bytes; chunk num is bounded
Alloc(size) ==
    /\ status = "run"
    /\ Cardinality(live) < MAX_LIVE
    /\ \E f1, f2 \in OsChoices : \E r \in {AllocHeap(mm, size, f1, f2)} :
          /\ \A c \in r.m.os : r.m.ch[c].num <= MAX_NUM
          /\ Apply(r)
          /\ live' = IF r.ok THEN live \cup {[c |-> r.ptr.c, a |-> r.ptr.a, len |-> BlockLen(size)]}
                     ELSE live
    /\ UNCHANGED requests

\* zend_mm_realloc_heap (via _erealloc) of a block the client holds to size
\* bytes: the block returned replaces it; after a bailout it is still held
Realloc(x, size) ==
    /\ status = "run"
    /\ x \in live
    /\ \E f1, f2 \in OsChoices : \E r \in {ReallocHeap(mm, [c |-> x.c, a |-> x.a], size, f1, f2)} :
          /\ \A c \in r.m.os : r.m.ch[c].num <= MAX_NUM
          /\ Apply(r)
          /\ live' = IF r.ok
                     THEN (live \ {x}) \cup {[c |-> r.ptr.c, a |-> r.ptr.a, len |-> BlockLen(size)]}
                     ELSE live
    /\ UNCHANGED requests

\* zend_mm_free_heap (via _efree) of an allocation the client holds
Free(x) ==
    /\ status = "run"
    /\ x \in live
    /\ Apply(FreeHeap(mm, [c |-> x.c, a |-> x.a]))
    /\ live' = live \ {x}
    /\ UNCHANGED requests

\* zend_mm_gc (gc_mem_caches())
GcAction ==
    /\ status = "run"
    /\ LET g == Gc(mm)
       IN /\ mm' = Canon(g.m)
          /\ status' = IF g.crash THEN "crash" ELSE status
    /\ UNCHANGED <<live, requests>>

\* php_request_shutdown -> zend_mm_shutdown(heap, 0, 1); the next request
\* starts with the engine's allocation in the main chunk again
Shutdown ==
    /\ status /= "crash"
    /\ requests < MAX_REQUESTS
    /\ mm' = Canon(Pin(ShutdownReset(mm)))
    /\ live' = {}
    /\ status' = "run"
    /\ requests' = requests + 1

\* nothing more happens after a crash, or after the last request bails out
Terminated ==
    /\ \/ status = "crash"
       \/ status = "bailout" /\ requests = MAX_REQUESTS
    /\ UNCHANGED vars

Next ==
    \/ \E s \in Sizes : Alloc(s)
    \/ \E x \in live : Free(x)
    \/ \E x \in live, s \in ReallocSizes : Realloc(x, s)
    \/ GcAction
    \/ Shutdown
    \/ Terminated

Spec == Init /\ [][Next]_vars

(***************************************************************************)
(* Properties.                                                             *)
(***************************************************************************)
Info == {FRUN} \cup {LRUN(n) : n \in 1 .. ZEND_MM_PAGES}
        \cup UNION {{SRUN_EX(b, k) : k \in 0 .. BinElements[b]} : b \in Bins}
        \cup {NRUN(b, o) : b \in Bins, o \in 1 .. ZEND_MM_PAGES - 1}
Cell == [c : Chunks, a : 0 .. ZEND_MM_PAGES * PAGE_SIZE - 1]

TypeOK ==
    /\ mm.os \subseteq Chunks
    /\ mm.h.main_chunk = MAIN
    /\ mm.h.cached_chunks \in Chunks \cup {NULL}
    /\ {mm.h.chunks_count, mm.h.peak_chunks_count, mm.h.cached_chunks_count,
        mm.h.last_chunks_delete_boundary} \subseteq 0 .. Cardinality(Chunks)
    /\ mm.h.last_chunks_delete_count \in 0 .. DELETE_COUNT_CAP
    /\ mm.h.avgN \in 0 .. Cardinality(Chunks) * D
    /\ mm.h.real_size \in Int
    /\ \A b \in Bins : mm.h.free_slot[b] \in Seq(Cell)
    /\ \A c \in Chunks :
          /\ {mm.ch[c].next, mm.ch[c].prev} \subseteq Chunks \cup {NULL}
          /\ mm.ch[c].free_pages \in 0 .. ZEND_MM_PAGES
          /\ mm.ch[c].free_tail \in 0 .. ZEND_MM_PAGES
          /\ mm.ch[c].num \in 0 .. MAX_NUM
          /\ mm.ch[c].free_map \in [B!Words -> B!Word]
          /\ mm.ch[c].map \in [Pages -> Info]
    /\ live \subseteq [c : Chunks, a : 0 .. ZEND_MM_PAGES * PAGE_SIZE - 1,
                       len : 1 .. ZEND_MM_PAGES * PAGE_SIZE]
    /\ status \in {"run", "bailout", "crash"}
    /\ requests \in 0 .. MAX_REQUESTS

\* The chunk lists stay intact through alloc_pages (move to front),
\* delete_chunk, gc and the reset: walking next from the main chunk returns
\* to it, prev is the reverse link, the ring holds chunks_count chunks, the
\* cache is a NULL-terminated list of cached_chunks_count chunks, and the
\* mapped chunks are exactly those of the ring and the cache.
RingWellFormed ==
    LET R == Ring(mm)
        C == Cache(mm)
    IN /\ mm.h.main_chunk \in mm.os
       /\ mm.ch[Last(R)].next = mm.h.main_chunk
       /\ \A k \in 1 .. Len(R) : mm.ch[R[k]].prev = R[IF k = 1 THEN Len(R) ELSE k - 1]
       /\ Len(R) = mm.h.chunks_count
       /\ (C = << >> \/ mm.ch[Last(C)].next = NULL)
       /\ IsInjective(C) /\ Len(C) = mm.h.cached_chunks_count
       /\ Range(R) \cap Range(C) = {}
       /\ Range(R) \cup Range(C) = mm.os

\* the page_info map as gc and free read it: from page 0, every allocated
\* page starts a run (an SRUN followed by its NRUN pages, or an LRUN) lying
\* within the chunk and wholly allocated
RECURSIVE RunsTile(_, _)
RunsTile(ck, i) ==
    IF i >= ZEND_MM_PAGES THEN TRUE
    ELSE IF ~B!IsSet(ck.free_map, i) THEN RunsTile(ck, i + 1)
    ELSE LET info == ck.map[i]
             n == CASE info.t = "S" -> BinPages[info.bin]
                    [] info.t = "L" -> info.n
                    [] OTHER -> 0
         IN /\ n > 0 /\ i + n <= ZEND_MM_PAGES
            /\ \A q \in i .. i + n - 1 : B!IsSet(ck.free_map, q)
            /\ info.t = "S" => \A q \in i + 1 .. i + n - 1 : ck.map[q] = NRUN(info.bin, q - i)
            /\ RunsTile(ck, i + n)

\* Each chunk of the ring agrees with itself after any sequence of calls:
\* page 0 is allocated, free_pages counts the clear bits of free_map, every
\* run starts below the free_tail hint, and the page_info map tiles the
\* allocated pages with runs.  alloc_pages' best fit takes a free gap that
\* reaches a word at or past free_tail to run to the end of the chunk, and
\* gc walks the pages below free_tail only: both rely on no run starting
\* at or past it.  A run may end past it: realloc extends a large run in
\* place without moving free_tail.
ChunkPagesConsistent ==
    \A c \in Range(Ring(mm)) :
       LET ck == mm.ch[c]
           used == {p \in Pages : B!IsSet(ck.free_map, p)}
       IN /\ 0 \in used
          /\ ck.free_pages = ZEND_MM_PAGES - Cardinality(used)
          /\ \A p \in used : ck.map[p].t \in {"S", "L"} => p < ck.free_tail
          /\ RunsTile(ck, 0)

PagesOf(x) == (x.a \div PAGE_SIZE) .. ((x.a + x.len - 1) \div PAGE_SIZE)
Overlap(x, y) == x.c = y.c /\ x.a < y.a + y.len /\ y.a < x.a + x.len
Pinned == IF PIN_MAIN
          THEN {[c |-> MAIN, a |-> ZEND_MM_FIRST_PAGE * PAGE_SIZE, len |-> PAGE_SIZE]}
          ELSE {}

\* No two blocks the allocator has handed out and not taken back share a
\* byte: every live block lies in allocated pages of a ring chunk, past the
\* chunk header and before its end, and clear of the engine's block and
\* every other one.
AllocationsDisjoint ==
    status /= "crash" =>
    \A x \in live :
       /\ x.c \in Range(Ring(mm))
       /\ \A p \in PagesOf(x) :
             p \in ZEND_MM_FIRST_PAGE .. ZEND_MM_PAGES - 1 /\ B!IsSet(mm.ch[x.c].free_map, p)
       /\ \A y \in (live \cup Pinned) \ {x} : ~Overlap(x, y)

\* The in-band free lists stay sound through free, alloc_small_slow and
\* both passes of gc: no cell is listed twice, each lies in an allocated
\* run of its own bin in a ring chunk, on a cell boundary, and no free cell
\* overlaps a block the client holds.
FreeListsSound ==
    status /= "crash" =>
    \A b \in Bins :
       LET fl == mm.h.free_slot[b]
       IN /\ IsInjective(fl)
          /\ \A k \in 1 .. Len(fl) :
                LET cell == fl[k]
                    p == cell.a \div PAGE_SIZE
                IN /\ cell.c \in Range(Ring(mm))
                   /\ B!IsSet(mm.ch[cell.c].free_map, p)
                   /\ mm.ch[cell.c].map[p].t \in {"S", "N"}
                   /\ mm.ch[cell.c].map[p].bin = b
                   /\ LET s == RunStart(mm, cell)
                      IN /\ (cell.a - s * PAGE_SIZE) % BinSize[b] = 0
                         /\ cell.a - s * PAGE_SIZE < BinElements[b] * BinSize[b]
                   /\ \A x \in live : ~Overlap(x, [c |-> cell.c, a |-> cell.a, len |-> BinSize[b]])

\* heap->real_size, a size_t that delete_chunk decrements, never wraps
\* below one chunk and never counts more than is mapped, across requests
\* and the chunk cache's reuse of chunks it kept at the reset.
RealSizeNoWrap == 1 <= mm.h.real_size /\ mm.h.real_size <= Cardinality(mm.os)

\* The memory limit bounds what the heap holds from the OS (spec.md 4.5:
\* real_size is the bytes held from the OS, checked against the limit
\* before a chunk is mapped).
HeldWithinLimit == Cardinality(mm.os) <= LIMIT

=============================================================================

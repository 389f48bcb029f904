----------------------------- MODULE MMFooter ------------------------------
(***************************************************************************)
(* src/unnamed/part_000: one explicit LIFO doubly-linked free list, a     *)
(* header and a footer in every block (no PREALLOC bit: the predecessor's *)
(* status is read from its footer), best fit among the first 42 fits, a   *)
(* heap that grows by at least CHUNKSIZE bytes, and an mm_init that       *)
(* already extends the heap by one chunk.  There is no heap_end: the      *)
(* epilogue is found as the header after the last block.                  *)
(*                                                                         *)
(* As in MMExplicit, each public entry point is one action and the static *)
(* helpers are operators on an allocator state record [mem, free_blks,    *)
(* brk].                                                                   *)
(***************************************************************************)
EXTENDS HeapClient

CONSTANTS
  CHUNKSIZE,  \* part_000: 1 << 12
  FIT_LIMIT   \* part_000: the literal 42 of _allocate

ASSUME CHUNKSIZE \in Nat /\ CHUNKSIZE % DSIZE = 0 /\ FIT_LIMIT \in Nat \ {0}

VARIABLE
  free_blks   \* head of the free list (a payload pointer or NULL)

vars == <<mem, free_blks, brk, live, ret, call, crashed>>

heap == [mem |-> mem, free_blks |-> free_blks, brk |-> brk]

(***************************************************************************)
(* _insert_free_block and _delete_free_block, as in mm.c.                 *)
(***************************************************************************)
\* Mutant: the old head is not pointed back at the new one.
InsertFreeBlockNoBackLink(st, ptr) ==
  IF ptr = NULL THEN st
  ELSE IF st.free_blks = NULL
  THEN [st EXCEPT !.free_blks = ptr,
                  !.mem = SET_SUCC_FREE(SET_PRED_FREE(@, ptr, NULL), ptr, NULL)]
  ELSE [st EXCEPT !.free_blks = ptr,
                  !.mem = SET_PRED_FREE(SET_SUCC_FREE(@, ptr, st.free_blks),
                                        ptr, NULL)]

InsertFreeBlock(st, ptr) ==
  IF ptr = NULL THEN st
  ELSE IF st.free_blks = NULL
  THEN [st EXCEPT !.free_blks = ptr,
                  !.mem = SET_SUCC_FREE(SET_PRED_FREE(@, ptr, NULL), ptr, NULL)]
  ELSE [st EXCEPT !.free_blks = ptr,
                  !.mem = SET_PRED_FREE(SET_PRED_FREE(SET_SUCC_FREE(@, ptr,
                            st.free_blks), st.free_blks, ptr), ptr, NULL)]

UnlinkFreeBlock(st, ptr, succ_free, pred_free) ==
  IF st.free_blks = ptr
  THEN IF succ_free = NULL
       THEN [st EXCEPT !.free_blks = NULL]
       ELSE [st EXCEPT !.free_blks = succ_free,
                       !.mem = SET_PRED_FREE(@, succ_free, NULL)]
  ELSE IF succ_free = NULL
       THEN [st EXCEPT !.mem = SET_SUCC_FREE(@, pred_free, NULL)]
       ELSE [st EXCEPT !.mem = SET_PRED_FREE(SET_SUCC_FREE(@, pred_free,
                                 succ_free), succ_free, pred_free)]

\* Mutant: the new head is the raw stored offset word, not SUCC_FREE.
DeleteFreeBlockRawSucc(st, ptr) ==
  IF ptr = NULL THEN st
  ELSE UnlinkFreeBlock(st, ptr, st.mem[ptr + WSIZE], PRED_FREE(st.mem, ptr))

DeleteFreeBlock(st, ptr) ==
  IF ptr = NULL THEN st
  ELSE UnlinkFreeBlock(st, ptr, SUCC_FREE(st.mem, ptr), PRED_FREE(st.mem, ptr))

(***************************************************************************)
(* _merge_free_blocks: the predecessor's status comes from its footer,    *)
(* every header is written with status 0, and nothing is done when both   *)
(* neighbours are allocated.                                               *)
(***************************************************************************)
WriteHeader(m, bp, val) == WRITE(m, GET_HEADER(bp), val)
WriteFooter(m, bp, val) == WRITE(m, GET_FOOTER(m, bp), val)

Merged(st, m, bp) == [st |-> [st EXCEPT !.mem = m], bp |-> bp]
MergedAtPred(s1, m2, ptr) == Merged(s1, m2, PRED_BLK(m2, ptr))

MergeSuccSized(s1, ptr, newsize) ==
  Merged(s1, WriteFooter(WriteHeader(s1.mem, ptr, PACK(newsize, 0)),
                         ptr, PACK(newsize, 0)), ptr)

MergeSuccWrites(s1, ptr) ==
  MergeSuccSized(s1, ptr, GET_SIZE(s1.mem, GET_HEADER(ptr))
                            + GET_SIZE(s1.mem, SUCC_HEADER(s1.mem, ptr)))

MergeWithSucc(st, ptr) ==
  MergeSuccWrites(DeleteFreeBlock(st, SUCC_BLK(st.mem, ptr)), ptr)

\* The predecessor's header is located through its footer, which none of
\* the writes moves, so PRED_BLK reads the same before and after.
MergePredSized(s1, ptr, newsize) ==
  MergedAtPred(s1, WriteFooter(WriteHeader(s1.mem, PRED_BLK(s1.mem, ptr),
                                           PACK(newsize, 0)),
                               ptr, PACK(newsize, 0)), ptr)

MergePredWrites(s1, ptr) ==
  MergePredSized(s1, ptr, GET_SIZE(s1.mem, GET_HEADER(ptr))
                            + GET_SIZE(s1.mem, PRED_FOOTER(ptr)))

MergeWithPred(st, ptr) ==
  MergePredWrites(DeleteFreeBlock(st, PRED_BLK(st.mem, ptr)), ptr)

\* Mutant: the merged block's footer is written at ptr's own footer.
MergeBothSizedShort(s1, ptr, newsize) ==
  MergedAtPred(s1, WriteFooter(WriteHeader(s1.mem, PRED_BLK(s1.mem, ptr),
                                           PACK(newsize, 0)),
                               ptr, PACK(newsize, 0)), ptr)

MergeBothSized(s1, ptr, newsize) ==
  MergedAtPred(s1, WriteFooter(WriteHeader(s1.mem, PRED_BLK(s1.mem, ptr),
                                           PACK(newsize, 0)),
                               SUCC_BLK(s1.mem, ptr), PACK(newsize, 0)), ptr)

MergeBothWrites(s1, ptr) ==
  MergeBothSized(s1, ptr, GET_SIZE(s1.mem, GET_HEADER(ptr))
                            + GET_SIZE(s1.mem, PRED_FOOTER(ptr))
                            + GET_SIZE(s1.mem, SUCC_HEADER(s1.mem, ptr)))

MergeDeleteSucc(s0, ptr) ==
  MergeBothWrites(DeleteFreeBlock(s0, SUCC_BLK(s0.mem, ptr)), ptr)

MergeWithBoth(st, ptr) ==
  MergeDeleteSucc(DeleteFreeBlock(st, PRED_BLK(st.mem, ptr)), ptr)

MergeByTags(st, ptr, pred_alloc, succ_alloc) ==
  CASE pred_alloc # 0 /\ succ_alloc # 0 -> Merged(st, st.mem, ptr)
    [] pred_alloc # 0                   -> MergeWithSucc(st, ptr)
    [] succ_alloc # 0                   -> MergeWithPred(st, ptr)
    [] OTHER                            -> MergeWithBoth(st, ptr)

\* Mutant: only backward coalescing; the successor is taken as allocated.
MergeCasesNoForward(st, ptr) ==
  MergeByTags(st, ptr, GET_ALLOC(st.mem, PRED_FOOTER(ptr)), 1)

MergeCases(st, ptr) ==
  MergeByTags(st, ptr, GET_ALLOC(st.mem, PRED_FOOTER(ptr)),
              GET_ALLOC(st.mem, SUCC_HEADER(st.mem, ptr)))

Inserted(r) == [st |-> InsertFreeBlock(r.st, r.bp), bp |-> r.bp]

MergeFreeBlocks(st, ptr) == Inserted(MergeCases(st, ptr))

(***************************************************************************)
(* _build: unlink ptr, and either split it (header and footer of both     *)
(* halves rewritten, the remainder's links cleared and merged) or mark    *)
(* the whole block allocated.  m2 is the memory after ptr's own header    *)
(* and footer are written.                                                 *)
(***************************************************************************)
BuildRest(s1, m2, split, rest) ==
  MergeFreeBlocks(
    [s1 EXCEPT !.mem =
       SET_SUCC_FREE(SET_PRED_FREE(WriteFooter(WriteHeader(m2, split,
                                                 PACK(rest, 0)),
                                               split, PACK(rest, 0)),
                                   split, NULL),
                     split, NULL)],
    split).st

BuildSplitAt(s1, m2, ptr, rest) == BuildRest(s1, m2, SUCC_BLK(m2, ptr), rest)

BuildOn(s1, ptr, size, blksize) ==
  IF blksize - size > ESIZE
  THEN BuildSplitAt(s1, WriteFooter(WriteHeader(s1.mem, ptr, PACK(size, 1)),
                                    ptr, PACK(size, 1)),
                    ptr, blksize - size)
  ELSE [s1 EXCEPT !.mem = WriteFooter(WriteHeader(@, ptr, PACK(blksize, 1)),
                                      ptr, PACK(blksize, 1))]

Build(st, ptr, size) ==
  IF ptr = NULL THEN st
  ELSE BuildOn(DeleteFreeBlock(st, ptr), ptr, size,
               GET_SIZE(st.mem, GET_HEADER(ptr)))

(***************************************************************************)
(* _extend_heap: round the word count up to even, sbrk, turn the old      *)
(* epilogue into the new block's header, write its footer and clear its   *)
(* links, write a new epilogue, and coalesce with the old tail.           *)
(***************************************************************************)
\* Mutant: the new epilogue is placed at SUCC_BLK instead of its header.
ExtendFrameOffByWord(st, m2, ptr, bytes) ==
  MergeFreeBlocks([st EXCEPT !.mem = WRITE(m2, SUCC_BLK(m2, ptr), PACK(0, 1)),
                             !.brk = @ + bytes],
                  ptr)

ExtendFrame(st, m2, ptr, bytes) ==
  MergeFreeBlocks([st EXCEPT !.mem = WRITE(m2, GET_HEADER(SUCC_BLK(m2, ptr)),
                                           PACK(0, 1)),
                             !.brk = @ + bytes],
                  ptr)

ExtendBytes(st, bytes) ==
  IF ~SbrkOk(st.brk, bytes)
  THEN [st |-> st, bp |-> NULL]
  ELSE ExtendFrame(st,
         SET_SUCC_FREE(SET_PRED_FREE(
           WriteFooter(WriteHeader(st.mem, st.brk, PACK(bytes, 0)),
                       st.brk, PACK(bytes, 0)),
           st.brk, NULL), st.brk, NULL),
         st.brk, bytes)

ExtendHeap(st, extend_words) ==
  ExtendBytes(st, IF extend_words % 2 = 1 THEN (extend_words + 1) * WSIZE
                                          ELSE extend_words * WSIZE)

(***************************************************************************)
(* _allocate: walk the list from its head, remembering the smallest fit,  *)
(* and stop at the FIT_LIMIT-th fit.                                       *)
(***************************************************************************)
\* Mutant: a block exactly the requested size is passed over.
RECURSIVE FitScanStrict(_, _, _, _, _, _)
FitScanStrict(m, ptr, size, best_fit, best_fit_size, fit_cnt) ==
  IF ptr = NULL THEN best_fit
  ELSE IF GET_SIZE(m, GET_HEADER(ptr)) <= size
  THEN FitScanStrict(m, SUCC_FREE(m, ptr), size, best_fit, best_fit_size, fit_cnt)
  ELSE LET better == best_fit = NULL
                       \/ GET_SIZE(m, GET_HEADER(ptr)) < best_fit_size
           bf == IF better THEN ptr ELSE best_fit
       IN IF fit_cnt + 1 = FIT_LIMIT THEN bf
          ELSE FitScanStrict(m, SUCC_FREE(m, ptr), size, bf,
                             GET_SIZE(m, GET_HEADER(bf)), fit_cnt + 1)

\* Mutant: the FIT_LIMIT exit is taken one fit late.
RECURSIVE FitScanLimitLate(_, _, _, _, _, _)
FitScanLimitLate(m, ptr, size, best_fit, best_fit_size, fit_cnt) ==
  IF ptr = NULL THEN best_fit
  ELSE IF GET_SIZE(m, GET_HEADER(ptr)) < size
  THEN FitScanLimitLate(m, SUCC_FREE(m, ptr), size, best_fit, best_fit_size, fit_cnt)
  ELSE LET better == best_fit = NULL
                       \/ GET_SIZE(m, GET_HEADER(ptr)) < best_fit_size
           bf == IF better THEN ptr ELSE best_fit
       IN IF fit_cnt = FIT_LIMIT THEN bf
          ELSE FitScanLimitLate(m, SUCC_FREE(m, ptr), size, bf,
                                GET_SIZE(m, GET_HEADER(bf)), fit_cnt + 1)

RECURSIVE FitScan(_, _, _, _, _, _)
FitScan(m, ptr, size, best_fit, best_fit_size, fit_cnt) ==
  IF ptr = NULL THEN best_fit
  ELSE IF GET_SIZE(m, GET_HEADER(ptr)) < size
  THEN FitScan(m, SUCC_FREE(m, ptr), size, best_fit, best_fit_size, fit_cnt)
  ELSE LET better == best_fit = NULL
                       \/ GET_SIZE(m, GET_HEADER(ptr)) < best_fit_size
           bf == IF better THEN ptr ELSE best_fit
       IN IF fit_cnt + 1 = FIT_LIMIT THEN bf
          ELSE FitScan(m, SUCC_FREE(m, ptr), size, bf,
                       GET_SIZE(m, GET_HEADER(bf)), fit_cnt + 1)

Allocate(st, size) == FitScan(st.mem, st.free_blks, size, NULL, 0, 0)

(***************************************************************************)
(* The public entry points as functions of the allocator state.           *)
(***************************************************************************)
\* Mutant: the footerless variants' rounding, which leaves no room for
\* the footer.
AdjustSizeNoFooter(n) ==
  MAX(ESIZE, DSIZE * (((n + WSIZE + DSIZE - 1) % SIZE_MOD) \div DSIZE))

\* The rounding is done in size_t: both the sum and the product wrap.
AdjustSize(n) ==
  (DSIZE * (((n + DSIZE - 1) % SIZE_MOD) \div DSIZE + 1)) % SIZE_MOD

\* The bytes a miss asks _extend_heap for: MAX(size, CHUNKSIZE), an even
\* number of words since both are multiples of DSIZE.
ExtendSize(n) == MAX(AdjustSize(n), CHUNKSIZE)

MallocExtended(e, st, size) ==
  IF e.bp = NULL THEN [st |-> st, ret |-> NULL]
  ELSE [st |-> Build(e.st, e.bp, size), ret |-> e.bp]

\* Mutant: a miss asks memlib for a double word more than it needs.
MallocFitOverAsk(st, size, ptr) ==
  IF ptr # NULL
  THEN [st |-> Build(st, ptr, size), ret |-> ptr]
  ELSE MallocExtended(ExtendHeap(st, (MAX(size, CHUNKSIZE) + DSIZE) \div WSIZE),
                      st, size)

MallocFit(st, size, ptr) ==
  IF ptr # NULL
  THEN [st |-> Build(st, ptr, size), ret |-> ptr]
  ELSE MallocExtended(ExtendHeap(st, MAX(size, CHUNKSIZE) \div WSIZE), st, size)

MallocOp(st, n) ==
  IF n = 0 THEN [st |-> st, ret |-> NULL]
  ELSE MallocFit(st, AdjustSize(n), Allocate(st, AdjustSize(n)))

FreeSized(st, ptr, size) ==
  MergeFreeBlocks(
    [st EXCEPT !.mem = SET_SUCC_FREE(SET_PRED_FREE(
                         WriteFooter(WriteHeader(@, ptr, PACK(size, 0)),
                                     ptr, PACK(size, 0)),
                         ptr, NULL), ptr, NULL)],
    ptr).st

FreeOp(st, ptr) ==
  IF ptr = NULL THEN st
  ELSE FreeSized(st, ptr, GET_SIZE(st.mem, GET_HEADER(ptr)))

(***************************************************************************)
(* mm_init: sbrk 6 words, write the padding word, the prologue and an     *)
(* epilogue PACK(0, 1), then extend the heap by CHUNKSIZE bytes.  The     *)
(* model starts after a successful mm_init (the ASSUME below).            *)
(***************************************************************************)
ASSUME 6 * WSIZE + CHUNKSIZE <= MaxHeap

InitLayout ==
  [mem |-> [a \in Addr |->
              CASE a = HeapLo + 1 * WSIZE -> PACK(ESIZE, 1)
                [] a = HeapLo + 2 * WSIZE -> 0
                [] a = HeapLo + 3 * WSIZE -> 0
                [] a = HeapLo + 4 * WSIZE -> PACK(ESIZE, 1)
                [] a = HeapLo + 5 * WSIZE -> PACK(0, 1)
                [] a = HeapLo             -> 0
                [] OTHER                  -> GARBAGE],
   free_blks |-> NULL,
   brk |-> HeapLo + 6 * WSIZE]

InitFrom(st) ==
  /\ mem = st.mem
  /\ free_blks = st.free_blks
  /\ brk = st.brk

Init ==
  /\ InitFrom(ExtendHeap(InitLayout, CHUNKSIZE \div WSIZE).st)
  /\ InitClient

(***************************************************************************)
(* The entry points, as HeapCalls writes them for all three variants.     *)
(***************************************************************************)
\* Mutant: the old block is freed before its payload is copied.
ReallocCopyAfterFree(st, p, newptr) ==
  [FreeOp(st, p) EXCEPT !.mem = CopyWords(@, newptr, p,
                         MIN(GET_SIZE(st.mem, GET_HEADER(p)),
                             GET_SIZE(st.mem, GET_HEADER(newptr))) - DSIZE)]

ReallocCopy(st, p, newptr) ==
  FreeOp([st EXCEPT !.mem = CopyWords(@, newptr, p,
                             MIN(GET_SIZE(@, GET_HEADER(p)),
                                 GET_SIZE(@, GET_HEADER(newptr))) - DSIZE)],
         p)

\* ReallocCopy is all of realloc after its malloc: it copies and frees.
Calls == INSTANCE HeapCalls
           WITH hp <- heap, heap_end <- NULL, ReallocOp <- ReallocCopy

Next == Calls!Next

Spec == Init /\ [][Next]_vars

FreeList == ListFrom(free_blks, Len(Blocks) + 1)

(***************************************************************************)
(* Invariants.                                                             *)
(***************************************************************************)
TypeOK == ClientTypeOK /\ free_blks \in Addr \cup {NULL}

\* P5: the list is a proper doubly-linked list holding exactly the free
\* blocks of the heap walk.  free, _build's split and _extend_heap each
\* clear the new block's links before the merge inserts it.
FreeListExact == WellLinked(free_blks) /\ ToSet(FreeList) = FreeBlockSet

\* P6 for every block: the footer word equals the header word, allocated
\* blocks included.  _merge_free_blocks reads the predecessor's status
\* and size from its footer only, so a stale footer anywhere makes a later
\* free coalesce into a live block.
BoundaryTagsMatch ==
  \A bp \in ToSet(Blocks) : mem[GET_FOOTER(mem, bp)] = mem[GET_HEADER(bp)]

\* P7/P8 with a header and a footer: the client's pointers are exactly the
\* allocated blocks, aligned, each with size - DSIZE payload bytes for
\* the request.
LiveBlocksAllocated == LiveBlocksFit(DSIZE)

(***************************************************************************)
(* Action properties.                                                      *)
(***************************************************************************)
\* A malloc, realloc or calloc that needs a block misses (returns NULL or
\* grows the heap) only if no free block of the list was big enough
\* before the call: _allocate's FIT_LIMIT exit cuts the walk short only
\* once a fit is known, and the miss path then asks memlib for
\* MAX(size, CHUNKSIZE).
MissOnlyWithoutFit ==
  [][ /\ call'.op \in {"malloc", "realloc", "calloc"}
      /\ call'.n % SIZE_MOD > 0 /\ crashed' = "none"
      /\ ret' = NULL \/ brk' > brk
      => \A bp \in FreeBlockSet :
           GET_SIZE(mem, GET_HEADER(bp)) < AdjustSize(call'.n % SIZE_MOD) ]_vars

\* part_000 implements AllocatorSpec: with the blocks the heap walk finds
\* allocated (capacity: size minus header and footer), memlib's break and
\* the last call, every step is an abstract malloc, free, realloc or
\* calloc, or leaves them alone.  A miss asks memlib for ExtendSize(n).
Alloc == INSTANCE AllocatorSpec
           WITH Lo <- FirstBlock, Hi <- HeapLo + MaxHeap, Sizes <- CallSizes,
                Grow <- ExtendSize, blocks <- Capacities(DSIZE), top <- brk,
                last <- LastCall

Refinement == Alloc!Spec

(***************************************************************************)
(* The words read by the code or the client: the sentinels, every header  *)
(* and footer (the merge reads the predecessor's footer whether or not it *)
(* is allocated), a free block's links, and a live block's written bytes. *)
(***************************************************************************)
BlockWords(bp) ==
  {GET_HEADER(bp), GET_FOOTER(mem, bp)} \cup
    IF IsFree(bp) THEN {bp, bp + WSIZE}
    ELSE IF bp \in DOMAIN live THEN PayloadWords(bp, live[bp].valid)
    ELSE {}

KeptWords ==
  {HeapLo + WSIZE * i : i \in 0 .. 5} \cup {brk - WSIZE}
    \cup UNION {BlockWords(bp) : bp \in ToSet(Blocks)}

KeptMem == [a \in Addr |-> IF a \in KeptWords THEN mem[a] ELSE GARBAGE]

=============================================================================

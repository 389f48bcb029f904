---------------------------- MODULE MMExplicit -----------------------------
(***************************************************************************)
(* src/mm.c: one explicit doubly-linked free list (LIFO insertion),       *)
(* footers kept only in free blocks with a PREALLOC bit in every header,  *)
(* best fit among the first MAX_FIT fits with an early exit after         *)
(* MAX_NFIT misses, and a heap that grows by exactly the request.         *)
(*                                                                         *)
(* Each public entry point (malloc, free, realloc) runs to completion     *)
(* with no yield point, so each is one action.  The static helpers are    *)
(* operators from an allocator state record                               *)
(*     [mem, free_blks, heap_end, brk]                                     *)
(* to the next one, chaining the writes in the order the C performs them. *)
(*                                                                         *)
(* The client (the trace driver) is part of the model: it remembers each  *)
(* pointer it holds, how many bytes it asked for, and fills them with a   *)
(* tag word, so that the allocator's own writes into a live payload show. *)
(***************************************************************************)
EXTENDS FooterlessHeap

CONSTANTS
  MAX_FIT,   \* mm.c: 6
  MAX_NFIT   \* mm.c: 28

ASSUME MAX_FIT \in Nat \ {0} /\ MAX_NFIT \in Nat

VARIABLE
  free_blks   \* head of the free list (a payload pointer or NULL)

vars == <<mem, free_blks, heap_end, brk, live, ret, call, crashed>>

heap == [mem |-> mem, free_blks |-> free_blks, heap_end |-> heap_end,
         brk |-> brk]

(***************************************************************************)
(* Free list: _insert_free_block and _delete_free_block.                  *)
(***************************************************************************)
\* Mutant: the old head is not pointed back at the new one.
InsertFreeBlockNoBackLink(st, ptr) ==
  IF ptr = NULL THEN st
  ELSE IF st.free_blks = NULL
  THEN [st EXCEPT !.free_blks = ptr,
                  !.mem = SET_SUCC_FREE(SET_PRED_FREE(@, ptr, NULL), ptr, NULL)]
  ELSE [st EXCEPT !.free_blks = ptr,
                  !.mem = SET_PRED_FREE(SET_SUCC_FREE(@, ptr, st.free_blks),
                                        ptr, NULL)]

InsertFreeBlock(st, ptr) ==
  IF ptr = NULL THEN st
  ELSE IF st.free_blks = NULL
  THEN [st EXCEPT !.free_blks = ptr,
                  !.mem = SET_SUCC_FREE(SET_PRED_FREE(@, ptr, NULL), ptr, NULL)]
  ELSE [st EXCEPT !.free_blks = ptr,
                  !.mem = SET_PRED_FREE(SET_PRED_FREE(SET_SUCC_FREE(@, ptr,
                            st.free_blks), st.free_blks, ptr), ptr, NULL)]

\* Mutant: unlinking from the middle forgets the successor's back link.
DeleteFreeBlockNoBackLink(st, ptr) ==
  IF ptr = NULL THEN st
  ELSE LET succ_free == SUCC_FREE(st.mem, ptr)
           pred_free == PRED_FREE(st.mem, ptr)
       IN IF st.free_blks = ptr
          THEN IF succ_free = NULL
               THEN [st EXCEPT !.free_blks = NULL]
               ELSE [st EXCEPT !.free_blks = succ_free,
                               !.mem = SET_PRED_FREE(@, succ_free, NULL)]
          ELSE [st EXCEPT !.mem = SET_SUCC_FREE(@, pred_free, succ_free)]

DeleteFreeBlock(st, ptr) ==
  IF ptr = NULL THEN st
  ELSE LET succ_free == SUCC_FREE(st.mem, ptr)
           pred_free == PRED_FREE(st.mem, ptr)
       IN IF st.free_blks = ptr
          THEN IF succ_free = NULL
               THEN [st EXCEPT !.free_blks = NULL]
               ELSE [st EXCEPT !.free_blks = succ_free,
                               !.mem = SET_PRED_FREE(@, succ_free, NULL)]
          ELSE IF succ_free = NULL
               THEN [st EXCEPT !.mem = SET_SUCC_FREE(@, pred_free, NULL)]
               ELSE [st EXCEPT !.mem = SET_PRED_FREE(SET_SUCC_FREE(@,
                                 pred_free, succ_free), succ_free, pred_free)]

(***************************************************************************)
(* _merge_free_blocks: ptr's header and footer already say free.  The     *)
(* four cases of the C, each a chain of writes; the result is the state   *)
(* and the surviving block, which is then inserted at the list head.      *)
(* Each intermediate memory is handed to the next step as an operator     *)
(* argument, in the order the C writes it.                                 *)
(***************************************************************************)
WriteHeader(m, bp, val) == WRITE(m, GET_HEADER(bp), val)
WriteFooter(m, bp, val) == WRITE(m, GET_FOOTER(m, bp), val)
WriteSuccFooter(m, bp, val) == WriteFooter(m, SUCC_BLK(m, bp), val)
ResetSuccPrealloc(m, bp) == RESET_PREALLOC(m, GET_HEADER(SUCC_BLK(m, bp)))

Merged(st, m, bp) == [st |-> [st EXCEPT !.mem = m], bp |-> bp]
MergedAtPred(st, m, bp) == Merged(st, m, PRED_BLK(m, bp))

\* Mutant: the successor's PREALLOC bit is left set (part_000 has no bit).
MergeBothAllocKeep(st, ptr) == Merged(st, st.mem, ptr)

MergeBothAlloc(st, ptr) == Merged(st, ResetSuccPrealloc(st.mem, ptr), ptr)

\* Mutant: the footer is written before the header that locates it.
MergeSuccWritesSwapped(s1, ptr, pred_alloc) ==
  LET newsize == GET_SIZE(s1.mem, GET_HEADER(ptr))
                   + GET_SIZE(s1.mem, SUCC_HEADER(s1.mem, ptr))
  IN Merged(s1, WriteHeader(WriteFooter(s1.mem, ptr, PACK(newsize, 0)),
                            ptr, PACK(newsize, pred_alloc)), ptr)

MergeSuccWrites(s1, ptr, pred_alloc) ==
  LET newsize == GET_SIZE(s1.mem, GET_HEADER(ptr))
                   + GET_SIZE(s1.mem, SUCC_HEADER(s1.mem, ptr))
  IN Merged(s1, WriteFooter(WriteHeader(s1.mem, ptr, PACK(newsize, pred_alloc)),
                            ptr, PACK(newsize, 0)), ptr)

MergeWithSucc(st, ptr, pred_alloc) ==
  MergeSuccWrites(DeleteFreeBlock(st, SUCC_BLK(st.mem, ptr)), ptr, pred_alloc)

MergePredWrites(s1, ptr) ==
  LET newsize == GET_SIZE(s1.mem, GET_HEADER(ptr))
                   + GET_SIZE(s1.mem, PRED_FOOTER(ptr))
      pred == PRED_BLK(s1.mem, ptr)
  IN MergedAtPred(s1,
       ResetSuccPrealloc(
         WriteFooter(WriteHeader(s1.mem, pred,
                       PACK(newsize, GET_PREALLOC(s1.mem, GET_HEADER(pred)))),
                     ptr, PACK(newsize, 0)),
         ptr),
       ptr)

MergeWithPred(st, ptr) ==
  MergePredWrites(DeleteFreeBlock(st, PRED_BLK(st.mem, ptr)), ptr)

MergeBothWrites(s1, ptr) ==
  LET newsize == GET_SIZE(s1.mem, GET_HEADER(ptr))
                   + GET_SIZE(s1.mem, PRED_FOOTER(ptr))
                   + GET_SIZE(s1.mem, SUCC_HEADER(s1.mem, ptr))
      pred == PRED_BLK(s1.mem, ptr)
  IN MergedAtPred(s1,
       WriteSuccFooter(WriteHeader(s1.mem, pred,
                         PACK(newsize, GET_PREALLOC(s1.mem, GET_HEADER(pred)))),
                       ptr, PACK(newsize, 0)),
       ptr)

MergeDeleteSucc(s0, ptr) ==
  MergeBothWrites(DeleteFreeBlock(s0, SUCC_BLK(s0.mem, ptr)), ptr)

MergeWithBoth(st, ptr) ==
  MergeDeleteSucc(DeleteFreeBlock(st, PRED_BLK(st.mem, ptr)), ptr)

\* Mutant: only backward coalescing; the successor is taken as allocated.
MergeCasesNoForward(st, ptr) ==
  LET pred_alloc == GET_PREALLOC(st.mem, GET_HEADER(ptr))
  IN IF pred_alloc # 0 THEN MergeBothAlloc(st, ptr)
     ELSE MergeWithPred(st, ptr)

MergeCases(st, ptr) ==
  LET pred_alloc == GET_PREALLOC(st.mem, GET_HEADER(ptr))
      succ_alloc == GET_ALLOC(st.mem, SUCC_HEADER(st.mem, ptr))
  IN CASE pred_alloc # 0 /\ succ_alloc # 0 -> MergeBothAlloc(st, ptr)
       [] pred_alloc # 0                   -> MergeWithSucc(st, ptr, pred_alloc)
       [] succ_alloc # 0                   -> MergeWithPred(st, ptr)
       [] OTHER                            -> MergeWithBoth(st, ptr)

Inserted(r) == [st |-> InsertFreeBlock(r.st, r.bp), bp |-> r.bp]

MergeFreeBlocks(st, ptr) == Inserted(MergeCases(st, ptr))

(***************************************************************************)
(* _build: take ptr off the list, mark it allocated, and split off the    *)
(* tail as a new free block when more than ESIZE bytes are left over.     *)
(* m2 is the memory after ptr's own header and footer are written.        *)
(***************************************************************************)
BuildSplitAt(s1, m2, ptr, rest) ==
  MergeFreeBlocks(
    [s1 EXCEPT !.mem = WriteFooter(WriteHeader(m2, SUCC_BLK(m2, ptr),
                                               PACK(rest, 2)),
                                   SUCC_BLK(m2, ptr), PACK(rest, 0))],
    SUCC_BLK(m2, ptr)).st

BuildWhole(s1, m2, ptr) ==
  [s1 EXCEPT !.mem = SET_PREALLOC(m2, GET_HEADER(SUCC_BLK(m2, ptr)))]

BuildOn(s1, ptr, size) ==
  LET blksize == GET_SIZE(s1.mem, GET_HEADER(ptr))
      prealloc == GET_PREALLOC(s1.mem, GET_HEADER(ptr))
  IN IF blksize - size > ESIZE
     THEN BuildSplitAt(s1, WriteFooter(WriteHeader(s1.mem, ptr,
                                         PACK(size, prealloc + 1)),
                                       ptr, PACK(size, 1)),
                       ptr, blksize - size)
     ELSE BuildWhole(s1, WriteFooter(WriteHeader(s1.mem, ptr,
                                       PACK(blksize, prealloc + 1)),
                                     ptr, PACK(blksize, 1)),
                     ptr)

Build(st, ptr, size) ==
  IF ptr = NULL THEN st ELSE BuildOn(DeleteFreeBlock(st, ptr), ptr, size)

(***************************************************************************)
(* _extend_heap: round the word count up to even, sbrk that many bytes,   *)
(* turn the old epilogue into the new block's header (keeping its         *)
(* PREALLOC bit), write a new epilogue, and coalesce with the old tail.   *)
(***************************************************************************)
\* Mutant: the new epilogue is placed at SUCC_BLK instead of its header.
ExtendFrameOffByWord(st, m2, ptr, bytes) ==
  MergeFreeBlocks([st EXCEPT !.mem = WRITE(m2, SUCC_BLK(m2, ptr), PACK(0, 1)),
                             !.heap_end = SUCC_BLK(m2, ptr),
                             !.brk = @ + bytes],
                  ptr)

ExtendFrame(st, m2, ptr, bytes) ==
  MergeFreeBlocks([st EXCEPT !.mem = WRITE(m2, GET_HEADER(SUCC_BLK(m2, ptr)),
                                           PACK(0, 1)),
                             !.heap_end = GET_HEADER(SUCC_BLK(m2, ptr)),
                             !.brk = @ + bytes],
                  ptr)

ExtendHeap(st, extend_words) ==
  LET bytes == IF extend_words % 2 = 1 THEN (extend_words + 1) * WSIZE
                                       ELSE extend_words * WSIZE
  IN IF ~SbrkOk(st.brk, bytes)
     THEN [st |-> st, bp |-> NULL]
     ELSE ExtendFrame(st,
            WriteFooter(WriteHeader(st.mem, st.brk,
                          PACK(bytes, GET_PREALLOC(st.mem, st.heap_end))),
                        st.brk, PACK(bytes, 0)),
            st.brk, bytes)

(***************************************************************************)
(* _allocate: walk the list from its head, remembering the smallest fit;  *)
(* stop at the MAX_FIT-th fit, or at a miss once more than MAX_NFIT       *)
(* misses have been seen and some fit has been found.                      *)
(***************************************************************************)
\* Mutant: a miss ends the walk once MAX_NFIT misses are seen, fit or no.
RECURSIVE FitScanNoFitGuard(_, _, _, _, _, _, _)
FitScanNoFitGuard(m, ptr, size, best_fit, best_fit_size, fit_cnt, nfit_cnt) ==
  IF ptr = NULL THEN best_fit
  ELSE LET now_size == GET_SIZE(m, GET_HEADER(ptr))
           better == best_fit = NULL \/ now_size < best_fit_size
           bf == IF better THEN ptr ELSE best_fit
           bfs == IF better THEN now_size ELSE best_fit_size
       IN IF now_size >= size
          THEN IF fit_cnt + 1 = MAX_FIT THEN bf
               ELSE FitScanNoFitGuard(m, SUCC_FREE(m, ptr), size, bf, bfs,
                                      fit_cnt + 1, nfit_cnt)
          ELSE IF nfit_cnt + 1 > MAX_NFIT THEN best_fit
               ELSE FitScanNoFitGuard(m, SUCC_FREE(m, ptr), size, best_fit,
                                      best_fit_size, fit_cnt, nfit_cnt + 1)

RECURSIVE FitScan(_, _, _, _, _, _, _)
FitScan(m, ptr, size, best_fit, best_fit_size, fit_cnt, nfit_cnt) ==
  IF ptr = NULL THEN best_fit
  ELSE LET now_size == GET_SIZE(m, GET_HEADER(ptr))
           better == best_fit = NULL \/ now_size < best_fit_size
           bf == IF better THEN ptr ELSE best_fit
           bfs == IF better THEN now_size ELSE best_fit_size
       IN IF now_size >= size
          THEN IF fit_cnt + 1 = MAX_FIT THEN bf
               ELSE FitScan(m, SUCC_FREE(m, ptr), size, bf, bfs,
                            fit_cnt + 1, nfit_cnt)
          ELSE IF nfit_cnt + 1 > MAX_NFIT /\ fit_cnt # 0 THEN best_fit
               ELSE FitScan(m, SUCC_FREE(m, ptr), size, best_fit,
                            best_fit_size, fit_cnt, nfit_cnt + 1)

Allocate(st, size) == FitScan(st.mem, st.free_blks, size, NULL, 0, 0, 0)

(***************************************************************************)
(* The public entry points as functions of the allocator state.           *)
(***************************************************************************)
\* The rounding is done in size_t: n + 11 wraps for n near SIZE_MAX.
\* Mutant: the request is not rounded up to a double word.
AdjustSizeTruncated(n) == MAX(ESIZE, DSIZE * (((n + WSIZE) % SIZE_MOD) \div DSIZE))

AdjustSize(n) ==
  MAX(ESIZE, DSIZE * (((n + WSIZE + DSIZE - 1) % SIZE_MOD) \div DSIZE))

MallocExtended(e, st, size) ==
  IF e.bp = NULL THEN [st |-> st, ret |-> NULL]
  ELSE [st |-> Build(e.st, e.bp, size), ret |-> e.bp]

\* Mutant: a miss asks memlib for a double word more than the block.
MallocFitOverAsk(st, size, ptr) ==
  IF ptr # NULL
  THEN [st |-> Build(st, ptr, size), ret |-> ptr]
  ELSE MallocExtended(ExtendHeap(st, (size + DSIZE) \div WSIZE), st, size)

MallocFit(st, size, ptr) ==
  IF ptr # NULL
  THEN [st |-> Build(st, ptr, size), ret |-> ptr]
  ELSE MallocExtended(ExtendHeap(st, size \div WSIZE), st, size)

MallocOp(st, n) ==
  IF n = 0 THEN [st |-> st, ret |-> NULL]
  ELSE MallocFit(st, AdjustSize(n), Allocate(st, AdjustSize(n)))

FreeOp(st, ptr) ==
  IF ptr = NULL THEN st ELSE
  LET size == GET_SIZE(st.mem, GET_HEADER(ptr))
      prealloc == GET_PREALLOC(st.mem, GET_HEADER(ptr))
  IN MergeFreeBlocks(
       [st EXCEPT !.mem = WriteFooter(WriteHeader(@, ptr, PACK(size, prealloc)),
                                      ptr, PACK(size, 0))],
       ptr).st

(***************************************************************************)
(* mm_init on a fresh memlib heap whose words hold whatever was there.    *)
(***************************************************************************)
Init ==
  /\ InitHeap
  /\ free_blks = NULL

(***************************************************************************)
(* The entry points, as HeapCalls writes them for all three variants.     *)
(***************************************************************************)
\* Mutant: the copy length of the with-footer variant (part_000).
ReallocCopyTwoWords(st, p, newptr) ==
  [st EXCEPT !.mem = CopyWords(@, newptr, p,
                       MIN(GET_SIZE(@, GET_HEADER(p)),
                           GET_SIZE(@, GET_HEADER(newptr))) - DSIZE)]

\* memcpy(newptr, oldptr, MIN(oldsize, newsize) - WSIZE) on the heap as
\* malloc left it.
ReallocCopy(st, p, newptr) ==
  [st EXCEPT !.mem = CopyWords(@, newptr, p,
                       MIN(GET_SIZE(@, GET_HEADER(p)),
                           GET_SIZE(@, GET_HEADER(newptr))) - WSIZE)]

\* realloc after its malloc: copy the payload, then free the old block.
ReallocOp(st, p, newptr) == FreeOp(ReallocCopy(st, p, newptr), p)

Calls == INSTANCE HeapCalls WITH hp <- heap

Next == Calls!Next

Spec == Init /\ [][Next]_vars

FreeList == ListFrom(free_blks, Len(Blocks) + 1)

(***************************************************************************)
(* Invariants.                                                             *)
(***************************************************************************)
TypeOK == HeapTypeOK /\ free_blks \in Addr \cup {NULL}

\* P5: the explicit list is a proper doubly-linked list (no cycle, the
\* head's pred is NULL, each pred link is the inverse of a succ link)
\* and holds exactly the free blocks of the heap walk.
FreeListExact == WellLinked(free_blks) /\ ToSet(FreeList) = FreeBlockSet

(***************************************************************************)
(* Action properties.                                                      *)
(***************************************************************************)
\* A malloc, realloc or calloc that needs a block misses (returns NULL or
\* grows the heap) only if no free block of the heap was big enough
\* before the call: _allocate's MAX_FIT and MAX_NFIT exits cut the list
\* walk short only once a fit is known, and the miss path then asks
\* memlib for the whole block.
MissOnlyWithoutFit ==
  [][ /\ call'.op \in {"malloc", "realloc", "calloc"}
      /\ call'.n % SIZE_MOD > 0 /\ crashed' = "none"
      /\ ret' = NULL \/ brk' > brk
      => \A bp \in FreeBlockSet :
           GET_SIZE(mem, GET_HEADER(bp)) < AdjustSize(call'.n % SIZE_MOD) ]_vars

\* mm.c implements AllocatorSpec: with the blocks the heap walk finds
\* allocated (capacity: size minus the header word), memlib's break and
\* the last call, every step is an abstract malloc, free, realloc or
\* calloc, or leaves them alone.  A miss asks memlib for AdjustSize(n).
Alloc == INSTANCE AllocatorSpec
           WITH Lo <- FirstBlock, Hi <- HeapLo + MaxHeap, Sizes <- CallSizes,
                Grow <- AdjustSize, blocks <- Capacities(WSIZE), top <- brk,
                last <- LastCall

Refinement == Alloc!Spec

=============================================================================

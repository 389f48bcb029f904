--------------------------- MODULE MMSegregated ----------------------------
(***************************************************************************)
(* src/unnamed/part_001: segregated free lists, one LIFO doubly-linked    *)
(* list per size class chosen by _get_level, footers only in free blocks  *)
(* with a PREALLOC bit in every header, best fit among the first 42 fits  *)
(* scanning the classes upward from the request's own and stopping after  *)
(* the first class that holds a fit, and a heap that grows by exactly the *)
(* request.                                                                *)
(*                                                                         *)
(* As in MMExplicit, each public entry point is one action and the static *)
(* helpers are operators on an allocator state record                     *)
(*     [mem, free_blks, heap_end, brk]                                     *)
(* whose free_blks is the array of class heads.                            *)
(***************************************************************************)
EXTENDS FooterlessHeap, Bitwise

CONSTANTS
  threshold,  \* part_001: <<32, 48, 64, ..., 1048576>> (17 thresholds)
  FIT_LIMIT   \* part_001: the literal 42 of _allocate

max_level == Len(threshold)
Levels == 0 .. max_level

ASSUME threshold \in Seq(Nat) /\ FIT_LIMIT \in Nat \ {0}

VARIABLE
  free_blks   \* class -> head of that class's list (a payload pointer or NULL)

vars == <<mem, free_blks, heap_end, brk, live, ret, call, crashed>>

heap == [mem |-> mem, free_blks |-> free_blks, heap_end |-> heap_end,
         brk |-> brk]

\* _get_level: the first class whose threshold is at least size, else the
\* last class.  threshold[i] of the C is threshold[i + 1] here.
\* Mutant: the comparison is strict.
RECURSIVE LevelFromStrict(_, _)
LevelFromStrict(size, i) ==
  IF i >= max_level THEN max_level
  ELSE IF size < threshold[i + 1] THEN i ELSE LevelFromStrict(size, i + 1)

RECURSIVE LevelFrom(_, _)
LevelFrom(size, i) ==
  IF i >= max_level THEN max_level
  ELSE IF size <= threshold[i + 1] THEN i ELSE LevelFrom(size, i + 1)

GetLevel(size) == LevelFrom(size, 0)

BlockLevel(m, ptr) == GetLevel(GET_SIZE(m, GET_HEADER(ptr)))

(***************************************************************************)
(* _insert_free_block and _delete_free_block on the list of the class     *)
(* the block's current header size selects.                               *)
(***************************************************************************)
InsertInClass(st, ptr, level) ==
  IF st.free_blks[level] = NULL
  THEN [st EXCEPT !.free_blks[level] = ptr,
                  !.mem = SET_SUCC_FREE(SET_PRED_FREE(@, ptr, NULL), ptr, NULL)]
  ELSE [st EXCEPT !.free_blks[level] = ptr,
                  !.mem = SET_PRED_FREE(SET_PRED_FREE(SET_SUCC_FREE(@, ptr,
                            st.free_blks[level]), st.free_blks[level], ptr),
                            ptr, NULL)]

InsertFreeBlock(st, ptr) ==
  IF ptr = NULL THEN st ELSE InsertInClass(st, ptr, BlockLevel(st.mem, ptr))

DeleteFromClass(st, ptr, level, succ_free, pred_free) ==
  IF st.free_blks[level] = ptr
  THEN IF succ_free = NULL
       THEN [st EXCEPT !.free_blks[level] = NULL]
       ELSE [st EXCEPT !.free_blks[level] = succ_free,
                       !.mem = SET_PRED_FREE(@, succ_free, NULL)]
  ELSE IF succ_free = NULL
       THEN [st EXCEPT !.mem = SET_SUCC_FREE(@, pred_free, NULL)]
       ELSE [st EXCEPT !.mem = SET_PRED_FREE(SET_SUCC_FREE(@, pred_free,
                                 succ_free), succ_free, pred_free)]

DeleteFreeBlock(st, ptr) ==
  IF ptr = NULL THEN st
  ELSE DeleteFromClass(st, ptr, BlockLevel(st.mem, ptr),
                SUCC_FREE(st.mem, ptr), PRED_FREE(st.mem, ptr))

(***************************************************************************)
(* _merge_free_blocks.  Where mm.c uses RESET_PREALLOC, part_001 flips    *)
(* the bit with ^ 2 only when it is set.                                   *)
(***************************************************************************)
WriteHeader(m, bp, val) == WRITE(m, GET_HEADER(bp), val)
WriteFooter(m, bp, val) == WRITE(m, GET_FOOTER(m, bp), val)

\* Mutant: the bit is cleared by subtracting it, without the guard.
ClearPreallocSub(m, h) == WRITE(m, h, m[h] - 2)
\* Mutant: the bit is flipped without the guard.
ClearPreallocXor(m, h) == WRITE(m, h, m[h] ^^ 2)

ClearPrealloc(m, h) ==
  IF GET_PREALLOC(m, h) # 0 THEN WRITE(m, h, m[h] ^^ 2) ELSE m

ClearSuccPrealloc(m, bp) == ClearPrealloc(m, GET_HEADER(SUCC_BLK(m, bp)))

Merged(st, m, bp) == [st |-> [st EXCEPT !.mem = m], bp |-> bp]

MergeSuccWrites(s1, ptr, pred_alloc, newsize) ==
  Merged(s1, WriteFooter(WriteHeader(s1.mem, ptr, PACK(newsize, pred_alloc)),
                         ptr, PACK(newsize, 0)), ptr)

MergeSuccSized(s1, ptr, pred_alloc) ==
  MergeSuccWrites(s1, ptr, pred_alloc,
    GET_SIZE(s1.mem, GET_HEADER(ptr))
      + GET_SIZE(s1.mem, SUCC_HEADER(s1.mem, ptr)))

MergeWithSucc(st, ptr, pred_alloc) ==
  MergeSuccSized(DeleteFreeBlock(st, SUCC_BLK(st.mem, ptr)), ptr, pred_alloc)

\* The predecessor's header gets the merged size and keeps its own
\* PREALLOC bit; the result is the predecessor.
PredHeaderWritten(s1, ptr, pred, newsize) ==
  WriteHeader(s1.mem, pred,
              PACK(newsize, GET_PREALLOC(s1.mem, GET_HEADER(pred))))

MergedAtPred(s1, m2, ptr) == Merged(s1, m2, PRED_BLK(m2, ptr))

\* Header of the predecessor first, then ptr's footer (the end of the
\* merged block), then the successor's bit.
MergePredWrites(s1, ptr, pred, newsize) ==
  MergedAtPred(s1,
    ClearSuccPrealloc(WriteFooter(PredHeaderWritten(s1, ptr, pred, newsize),
                                  ptr, PACK(newsize, 0)), ptr),
    ptr)

MergePredSized(s1, ptr) ==
  MergePredWrites(s1, ptr, PRED_BLK(s1.mem, ptr),
    GET_SIZE(s1.mem, GET_HEADER(ptr)) + GET_SIZE(s1.mem, PRED_FOOTER(ptr)))

MergeWithPred(st, ptr) ==
  MergePredSized(DeleteFreeBlock(st, PRED_BLK(st.mem, ptr)), ptr)

\* Mutant: the merged footer is written at ptr's own end, not at the
\* successor's.
MergeBothWritesShort(s1, ptr, pred, newsize) ==
  MergedAtPred(s1,
    WriteFooter(PredHeaderWritten(s1, ptr, pred, newsize),
                ptr, PACK(newsize, 0)),
    ptr)

MergeBothWrites(s1, ptr, pred, newsize) ==
  MergedAtPred(s1,
    WriteFooter(PredHeaderWritten(s1, ptr, pred, newsize),
                SUCC_BLK(s1.mem, ptr), PACK(newsize, 0)),
    ptr)

MergeBothSized(s1, ptr) ==
  MergeBothWrites(s1, ptr, PRED_BLK(s1.mem, ptr),
    GET_SIZE(s1.mem, GET_HEADER(ptr)) + GET_SIZE(s1.mem, PRED_FOOTER(ptr))
      + GET_SIZE(s1.mem, SUCC_HEADER(s1.mem, ptr)))

MergeDeleteSucc(s0, ptr) ==
  MergeBothSized(DeleteFreeBlock(s0, SUCC_BLK(s0.mem, ptr)), ptr)

MergeWithBoth(st, ptr) ==
  MergeDeleteSucc(DeleteFreeBlock(st, PRED_BLK(st.mem, ptr)), ptr)

MergeCases(st, ptr, pred_alloc, succ_alloc) ==
  CASE pred_alloc # 0 /\ succ_alloc # 0 ->
         Merged(st, ClearSuccPrealloc(st.mem, ptr), ptr)
    [] pred_alloc # 0 -> MergeWithSucc(st, ptr, pred_alloc)
    [] succ_alloc # 0 -> MergeWithPred(st, ptr)
    [] OTHER          -> MergeWithBoth(st, ptr)

Inserted(r) == [st |-> InsertFreeBlock(r.st, r.bp), bp |-> r.bp]

\* Mutant: only backward coalescing; the successor is taken as allocated.
MergeFreeBlocksNoForward(st, ptr) ==
  Inserted(MergeCases(st, ptr, GET_PREALLOC(st.mem, GET_HEADER(ptr)), 1))

MergeFreeBlocks(st, ptr) ==
  Inserted(MergeCases(st, ptr, GET_PREALLOC(st.mem, GET_HEADER(ptr)),
                      GET_ALLOC(st.mem, SUCC_HEADER(st.mem, ptr))))

(***************************************************************************)
(* _build: take ptr off its list, mark it allocated, split off the tail   *)
(* as a new free block when more than ESIZE bytes are left over, and     *)
(* otherwise or the successor's PREALLOC bit in with | 2.                 *)
(***************************************************************************)
BuildSplitAt(s1, m2, ptr, blksize, size) ==
  MergeFreeBlocks(
    [s1 EXCEPT !.mem = WriteFooter(WriteHeader(m2, SUCC_BLK(m2, ptr),
                                               PACK(blksize - size, 2)),
                                   SUCC_BLK(m2, ptr), PACK(blksize - size, 0))],
    SUCC_BLK(m2, ptr)).st

SetSuccPrealloc(m2, ptr) ==
  WRITE(m2, GET_HEADER(SUCC_BLK(m2, ptr)),
        m2[GET_HEADER(SUCC_BLK(m2, ptr))] | 2)

BuildOn(s1, ptr, size, blksize, prealloc) ==
  IF blksize - size > ESIZE
  THEN BuildSplitAt(s1, WriteFooter(WriteHeader(s1.mem, ptr,
                                      PACK(size, prealloc | 1)),
                                    ptr, PACK(size, 1)),
                    ptr, blksize, size)
  ELSE [s1 EXCEPT !.mem = SetSuccPrealloc(
                            WriteFooter(WriteHeader(@, ptr,
                                          PACK(blksize, prealloc | 1)),
                                        ptr, PACK(blksize, 1)), ptr)]

BuildDeleted(s1, ptr, size) ==
  BuildOn(s1, ptr, size, GET_SIZE(s1.mem, GET_HEADER(ptr)),
          GET_PREALLOC(s1.mem, GET_HEADER(ptr)))

Build(st, ptr, size) ==
  IF ptr = NULL THEN st ELSE BuildDeleted(DeleteFreeBlock(st, ptr), ptr, size)

(***************************************************************************)
(* _extend_heap, as in mm.c.                                               *)
(***************************************************************************)
\* Mutant: the new epilogue is placed at SUCC_BLK instead of its header.
ExtendFrameOffByWord(st, m2, ptr, bytes) ==
  MergeFreeBlocks([st EXCEPT !.mem = WRITE(m2, SUCC_BLK(m2, ptr), PACK(0, 1)),
                             !.heap_end = SUCC_BLK(m2, ptr),
                             !.brk = @ + bytes],
                  ptr)

ExtendFrame(st, m2, ptr, bytes) ==
  MergeFreeBlocks([st EXCEPT !.mem = WRITE(m2, GET_HEADER(SUCC_BLK(m2, ptr)),
                                           PACK(0, 1)),
                             !.heap_end = GET_HEADER(SUCC_BLK(m2, ptr)),
                             !.brk = @ + bytes],
                  ptr)

ExtendBytes(st, bytes) ==
  IF ~SbrkOk(st.brk, bytes)
  THEN [st |-> st, bp |-> NULL]
  ELSE ExtendFrame(st,
         WriteFooter(WriteHeader(st.mem, st.brk,
                       PACK(bytes, GET_PREALLOC(st.mem, st.heap_end))),
                     st.brk, PACK(bytes, 0)),
         st.brk, bytes)

ExtendHeap(st, extend_words) ==
  ExtendBytes(st, IF extend_words % 2 = 1 THEN (extend_words + 1) * WSIZE
                                          ELSE extend_words * WSIZE)

(***************************************************************************)
(* _allocate: from the request's class upward, walk each list keeping the *)
(* smallest fit; stop at the FIT_LIMIT-th fit, or at the end of the first *)
(* class in which some fit was found.  A scan result is                    *)
(* [bf, bfs, cnt, stop] (best_fit, best_fit_size, fit_cnt, limit hit).    *)
(***************************************************************************)
RECURSIVE ListScan(_, _, _, _, _, _), AfterFit(_, _, _, _, _, _)
\* Mutant: the FIT_LIMIT exit is taken one fit late.
AfterFitLate(m, ptr, size, bf, bfs, cnt) ==
  IF cnt > FIT_LIMIT THEN [bf |-> bf, bfs |-> bfs, cnt |-> cnt, stop |-> TRUE]
  ELSE ListScan(m, SUCC_FREE(m, ptr), size, bf, bfs, cnt)

AfterFit(m, ptr, size, bf, bfs, cnt) ==
  IF cnt = FIT_LIMIT THEN [bf |-> bf, bfs |-> bfs, cnt |-> cnt, stop |-> TRUE]
  ELSE ListScan(m, SUCC_FREE(m, ptr), size, bf, bfs, cnt)

\* Mutant: every block is taken as a fit.
ListScanNoSizeCheck(m, ptr, size, bf, bfs, cnt) ==
  IF ptr = NULL THEN [bf |-> bf, bfs |-> bfs, cnt |-> cnt, stop |-> FALSE]
  ELSE IF bf = NULL \/ GET_SIZE(m, GET_HEADER(ptr)) < bfs
  THEN AfterFit(m, ptr, size, ptr, GET_SIZE(m, GET_HEADER(ptr)), cnt + 1)
  ELSE AfterFit(m, ptr, size, bf, bfs, cnt + 1)

ListScan(m, ptr, size, bf, bfs, cnt) ==
  IF ptr = NULL THEN [bf |-> bf, bfs |-> bfs, cnt |-> cnt, stop |-> FALSE]
  ELSE IF GET_SIZE(m, GET_HEADER(ptr)) < size
  THEN ListScan(m, SUCC_FREE(m, ptr), size, bf, bfs, cnt)
  ELSE IF bf = NULL \/ GET_SIZE(m, GET_HEADER(ptr)) < bfs
  THEN AfterFit(m, ptr, size, ptr, GET_SIZE(m, GET_HEADER(ptr)), cnt + 1)
  ELSE AfterFit(m, ptr, size, bf, bfs, cnt + 1)

\* Mutant: the walk ends after the request's own class.
AfterLevelOwnClass(m, fb, size, i, r) == r.bf

RECURSIVE LevelScan(_, _, _, _, _), AfterLevel(_, _, _, _, _)
AfterLevel(m, fb, size, i, r) ==
  IF r.stop \/ r.bf # NULL THEN r.bf ELSE LevelScan(m, fb, size, i + 1, r)

LevelScan(m, fb, size, i, r) ==
  IF i > max_level THEN NULL
  ELSE AfterLevel(m, fb, size, i,
                  ListScan(m, fb[i], size, r.bf, r.bfs, r.cnt))

Allocate(st, size) ==
  LevelScan(st.mem, st.free_blks, size, GetLevel(size),
            [bf |-> NULL, bfs |-> 0, cnt |-> 0, stop |-> FALSE])

(***************************************************************************)
(* The public entry points as functions of the allocator state.           *)
(***************************************************************************)
\* The rounding is done in size_t: n + WSIZE + DSIZE - 1 wraps near the
\* top of the range.
AdjustSize(n) ==
  MAX(ESIZE, DSIZE * (((n + WSIZE + DSIZE - 1) % SIZE_MOD) \div DSIZE))

MallocExtended(e, st, size) ==
  IF e.bp = NULL THEN [st |-> st, ret |-> NULL]
  ELSE [st |-> Build(e.st, e.bp, size), ret |-> e.bp]

\* Mutant: a miss asks memlib for a double word more than the block.
MallocFitOverAsk(st, size, ptr) ==
  IF ptr # NULL
  THEN [st |-> Build(st, ptr, size), ret |-> ptr]
  ELSE MallocExtended(ExtendHeap(st, (size + DSIZE) \div WSIZE), st, size)

MallocFit(st, size, ptr) ==
  IF ptr # NULL
  THEN [st |-> Build(st, ptr, size), ret |-> ptr]
  ELSE MallocExtended(ExtendHeap(st, size \div WSIZE), st, size)

MallocOp(st, n) ==
  IF n = 0 THEN [st |-> st, ret |-> NULL]
  ELSE MallocFit(st, AdjustSize(n), Allocate(st, AdjustSize(n)))

FreeWrites(st, ptr, size, prealloc) ==
  MergeFreeBlocks(
    [st EXCEPT !.mem = WriteFooter(WriteHeader(@, ptr, PACK(size, prealloc)),
                                   ptr, PACK(size, 0))],
    ptr).st

FreeOp(st, ptr) ==
  IF ptr = NULL THEN st ELSE
  FreeWrites(st, ptr, GET_SIZE(st.mem, GET_HEADER(ptr)),
             GET_PREALLOC(st.mem, GET_HEADER(ptr)))

Init ==
  /\ InitHeap
  /\ free_blks = [i \in Levels |-> NULL]

(***************************************************************************)
(* The entry points, as HeapCalls writes them for all three variants.     *)
(***************************************************************************)
\* Mutant: the copy length of the with-footer variant (part_000).
ReallocCopyTwoWords(st, p, newptr) ==
  [st EXCEPT !.mem = CopyWords(@, newptr, p,
                       MIN(GET_SIZE(@, GET_HEADER(p)),
                           GET_SIZE(@, GET_HEADER(newptr))) - DSIZE)]

ReallocCopy(st, p, newptr) ==
  [st EXCEPT !.mem = CopyWords(@, newptr, p,
                       MIN(GET_SIZE(@, GET_HEADER(p)),
                           GET_SIZE(@, GET_HEADER(newptr))) - WSIZE)]

\* realloc after its malloc: copy the payload, then free the old block.
ReallocOp(st, p, newptr) == FreeOp(ReallocCopy(st, p, newptr), p)

Calls == INSTANCE HeapCalls WITH hp <- heap

Next == Calls!Next

Spec == Init /\ [][Next]_vars

(***************************************************************************)
(* Invariants.                                                             *)
(***************************************************************************)
TypeOK ==
  /\ HeapTypeOK
  /\ free_blks \in [Levels -> Addr \cup {NULL}]

\* The size range each class is meant to hold, read off the threshold
\* table: class i holds the sizes above threshold[i - 1] up to
\* threshold[i], the last class everything above the last threshold.
ClassOf(size) ==
  CHOOSE i \in Levels :
    /\ i > 0 => size > threshold[i]
    /\ i < max_level => size <= threshold[i + 1]

ClassList(i) == ListFrom(free_blks[i], Len(Blocks) + 1)

\* Every class list is a proper doubly-linked list (no repeated block,
\* NULL-terminated, head's pred NULL, each pred the inverse of a succ),
\* the lists are disjoint, their union is exactly the free blocks of the
\* heap walk, and each free block sits in the class its current size
\* belongs to.  _insert/_delete_free_block pick the class from the header
\* size at the time of the call, so a header rewritten before a delete, a
\* class boundary off by one, or a missed unlink shows here.
SegListsExact ==
  /\ \A i \in Levels :
       /\ WellLinked(free_blks[i])
       /\ \A bp \in ToSet(ClassList(i)) :
            ClassOf(GET_SIZE(mem, GET_HEADER(bp))) = i
  /\ \A bp \in FreeBlockSet :
       \E i \in Levels : bp \in ToSet(ClassList(i))

(***************************************************************************)
(* Action properties.                                                      *)
(***************************************************************************)
\* A malloc, realloc or calloc that needs a block misses (returns NULL or
\* grows the heap) only if no free block of any class was big enough
\* before the call: _allocate starts at the request's own class and moves
\* up a class only while no fit is known, and the miss path then asks
\* memlib for the whole block.
MissOnlyWithoutFit ==
  [][ /\ call'.op \in {"malloc", "realloc", "calloc"}
      /\ call'.n % SIZE_MOD > 0 /\ crashed' = "none"
      /\ ret' = NULL \/ brk' > brk
      => \A bp \in FreeBlockSet :
           GET_SIZE(mem, GET_HEADER(bp)) < AdjustSize(call'.n % SIZE_MOD) ]_vars

\* part_001 implements AllocatorSpec: with the blocks the heap walk finds
\* allocated (capacity: size minus the header word), memlib's break and
\* the last call, every step is an abstract malloc, free, realloc or
\* calloc, or leaves them alone.  A miss asks memlib for AdjustSize(n).
Alloc == INSTANCE AllocatorSpec
           WITH Lo <- FirstBlock, Hi <- HeapLo + MaxHeap, Sizes <- CallSizes,
                Grow <- AdjustSize, blocks <- Capacities(WSIZE), top <- brk,
                last <- LastCall

Refinement == Alloc!Spec

=============================================================================

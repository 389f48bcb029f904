---------------------------- MODULE BlockLayout ----------------------------
(***************************************************************************)
(* The macro layer shared by the three allocator variants (src/mm.c,      *)
(* src/unnamed/part_000, src/unnamed/part_001): word reads and writes on  *)
(* the heap, the packed header word, neighbour navigation through         *)
(* boundary tags, and the 32-bit offset encoding of free-list links.      *)
(*                                                                         *)
(* Memory is a function from word-aligned byte addresses to the unsigned  *)
(* value of that word.  Every operator takes the memory it reads as an    *)
(* argument, so that a handler can be written as a chain of writes, each  *)
(* reading the memory the previous one produced, exactly as the C does.   *)
(***************************************************************************)
EXTENDS Integers

CONSTANTS
  HeapLo,   \* address of the first byte mem_sbrk hands out (mem_heap_lo)
  MaxHeap   \* bytes mem_sbrk can hand out in total (memlib's MAX_HEAP)

ASSUME HeapLo \in Nat /\ HeapLo > 0 /\ HeapLo % 8 = 0
ASSUME MaxHeap \in Nat /\ MaxHeap % 8 = 0 /\ MaxHeap >= 24

NULL == 0

WSIZE == 4
DSIZE == 8
ESIZE == 2 * DSIZE

\* Every word the heap can ever occupy.
Addr == {HeapLo + WSIZE * i : i \in 0 .. (MaxHeap \div WSIZE) - 1}

\* mm_init sets heap_ptr to mem_heap_lo + ESIZE; it never changes after.
heap_ptr == HeapLo + ESIZE

MAX(x, y) == IF x < y THEN y ELSE x
MIN(x, y) == IF x < y THEN x ELSE y

\* Size is a multiple of 8 and the status bits are disjoint from it, so
\* the bitwise or of the C is an addition here.
PACK(size, alloc) == size + alloc

READ(m, p) == m[p]
WRITE(m, p, val) == [m EXCEPT ![p] = val]

GET_SIZE(m, p) == m[p] - (m[p] % 8)
GET_ALLOC(m, p) == m[p] % 2
GET_PREALLOC(m, p) == ((m[p] \div 2) % 2) * 2

SET_PREALLOC(m, p) == WRITE(m, p, m[p] - GET_PREALLOC(m, p) + 2)
\* Mutant: clears the bit by subtracting it, as if it were always set.
RESET_PREALLOC_SUB(m, p) == WRITE(m, p, m[p] - 2)
RESET_PREALLOC(m, p) == WRITE(m, p, m[p] - GET_PREALLOC(m, p))

GET_HEADER(bp) == bp - WSIZE
GET_FOOTER(m, bp) == bp + GET_SIZE(m, GET_HEADER(bp)) - DSIZE

PRED_FOOTER(bp) == bp - DSIZE
SUCC_HEADER(m, bp) == bp + GET_SIZE(m, GET_HEADER(bp)) - WSIZE
PRED_BLK(m, bp) == bp - GET_SIZE(m, PRED_FOOTER(bp))
SUCC_BLK(m, bp) == bp + GET_SIZE(m, GET_HEADER(bp))

\* Links are stored as offsets from heap_ptr; the stored word 0 is NULL.
PRED_FREE(m, bp) == IF m[bp] = 0 THEN NULL ELSE m[bp] + heap_ptr
SUCC_FREE(m, bp) ==
  IF m[bp + WSIZE] = 0 THEN NULL ELSE m[bp + WSIZE] + heap_ptr
SET_PRED_FREE(m, bp, val) ==
  WRITE(m, bp, IF val = NULL THEN 0 ELSE val - heap_ptr)
SET_SUCC_FREE(m, bp, val) ==
  WRITE(m, bp + WSIZE, IF val = NULL THEN 0 ELSE val - heap_ptr)

(***************************************************************************)
(* memlib's mem_sbrk (not part of this repository): grows the break by    *)
(* incr bytes and returns the old break, or fails when the break would    *)
(* pass mem_max_addr.  Failure is the value -1 of the C.                  *)
(***************************************************************************)
SBRK_FAIL == -1
SbrkOk(brk, incr) == brk + incr <= HeapLo + MaxHeap

=============================================================================

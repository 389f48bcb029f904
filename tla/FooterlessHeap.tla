--------------------------- MODULE FooterlessHeap --------------------------
(***************************************************************************)
(* What src/mm.c and src/unnamed/part_001 share beyond HeapClient: the   *)
(* heap_end pointer, allocated blocks without a footer and headers that   *)
(* carry a PREALLOC bit, and the mm_init layout.  Each variant EXTENDS    *)
(* this module and adds its own free-list head(s) and its own actions.    *)
(***************************************************************************)
EXTENDS HeapClient

VARIABLE
  heap_end    \* address of the epilogue header

(***************************************************************************)
(* mm_init on a fresh memlib heap whose words hold whatever was there:    *)
(* sbrk 6 words, write the padding word, the prologue (header, two zero   *)
(* link slots, footer) and the epilogue, whose PREALLOC bit says the      *)
(* prologue is allocated.                                                  *)
(***************************************************************************)
InitHeap ==
  /\ mem = [a \in Addr |->
              CASE a = HeapLo + 1 * WSIZE -> PACK(ESIZE, 1)
                [] a = HeapLo + 2 * WSIZE -> 0
                [] a = HeapLo + 3 * WSIZE -> 0
                [] a = HeapLo + 4 * WSIZE -> PACK(ESIZE, 1)
                [] a = HeapLo + 5 * WSIZE -> PACK(0, 3)
                [] a = HeapLo             -> 0
                [] OTHER                  -> GARBAGE]
  /\ heap_end = HeapLo + 5 * WSIZE
  /\ brk = HeapLo + 6 * WSIZE
  /\ InitClient

(***************************************************************************)
(* Invariants both variants must keep.                                     *)
(***************************************************************************)
HeapTypeOK == ClientTypeOK /\ heap_end \in Addr

\* P1/P2: walking the blocks by their header sizes from the first block
\* after the prologue lands exactly on the epilogue (size 0, allocated),
\* which sits in the last word below the break, where heap_end points.
\* Merge, split and extend_heap all rewrite sizes; one wrong sum derails
\* the walk.
HeapWalkReachesEpilogue == EpilogueAtBreak /\ heap_end = brk - WSIZE

\* P3: the PREALLOC bit of every header (the epilogue's included) equals
\* the ALLOC bit of the block before it; the prologue counts as allocated.
\* free, _merge_free_blocks, _build and _extend_heap each keep it up by a
\* separate SET/RESET on the neighbour's header.
PreAllocMatches ==
  LET hdr(i) == IF i <= Len(Blocks) THEN GET_HEADER(Blocks[i]) ELSE heap_end
  IN \A i \in 1 .. Len(Blocks) + 1 :
       GET_PREALLOC(mem, hdr(i)) =
         IF i = 1 THEN 2 ELSE 2 * GET_ALLOC(mem, hdr(i - 1))

\* P7/P8: the pointers the client holds are exactly the allocated blocks
\* of the heap, 8-aligned, each with payload (size minus the header word)
\* at least what was asked for.  A leak, a block handed out twice, or a
\* block too small for its request breaks it.
LiveBlocksAllocated == LiveBlocksFit(WSIZE)

(***************************************************************************)
(* The words the allocator and the client read: the sentinels, every      *)
(* header, the links and footer of a free block, and the bytes a client   *)
(* has written and still holds.  A free block's other payload words, the  *)
(* stale footer of an allocated block and the words past the break are    *)
(* never read by the code, so two states that differ only there have the  *)
(* same futures (used as a VIEW by the MC modules).                        *)
(***************************************************************************)
BlockWords(bp) ==
  {GET_HEADER(bp)} \cup
    IF IsFree(bp) THEN {bp, bp + WSIZE, GET_FOOTER(mem, bp)}
    ELSE IF bp \in DOMAIN live THEN PayloadWords(bp, live[bp].valid)
    ELSE {}

KeptWords ==
  {HeapLo + WSIZE * i : i \in 0 .. 5} \cup {heap_end}
    \cup UNION {BlockWords(bp) : bp \in ToSet(Blocks)}

KeptMem == [a \in Addr |-> IF a \in KeptWords THEN mem[a] ELSE GARBAGE]

=============================================================================

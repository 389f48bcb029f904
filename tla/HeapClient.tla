----------------------------- MODULE HeapClient -----------------------------
(***************************************************************************)
(* What all three allocators of the repository share: the heap memory and *)
(* memlib's break, the client that drives malloc, free and realloc, and   *)
(* the implicit block list read off the headers.  size_t arithmetic is    *)
(* done modulo 2^SIZE_BITS, a scaled-down width.                          *)
(*                                                                         *)
(* The client (the trace driver) remembers each pointer it holds, how     *)
(* many bytes it asked for, and fills them with a tag word, so that the   *)
(* allocator's own writes into a live payload show.                        *)
(***************************************************************************)
EXTENDS BlockLayout, Sequences, FiniteSets, SequencesExt

CONSTANTS
  Requests,    \* byte counts the client passes to malloc and realloc
  CallocArgs,  \* <<nmemb, size>> pairs the client passes to calloc
  SIZE_BITS,   \* width of size_t
  GARBAGE      \* what the words of a fresh memlib heap hold

ASSUME Requests \subseteq Nat \ {0}
ASSUME CallocArgs \subseteq Nat \X Nat
ASSUME SIZE_BITS \in Nat \ {0}
ASSUME GARBAGE \in Nat

\* size_t values wrap modulo SIZE_MOD.
SIZE_MOD == 2 ^ SIZE_BITS

\* calloc's nmemb * size as size_t computes it.
CallocBytes(a) == (a[1] * a[2]) % SIZE_MOD

VARIABLES
  mem,        \* every heap word, including the ones past the break
  brk,        \* memlib's break: one past the last byte of the heap
  live,       \* client: pointer -> [req, tag, valid] of each block it holds
  ret,        \* client: what the last call returned
  call,       \* client: the last call that returned, [op, n]
  crashed     \* "none", or the call in which the process died on a
              \* wild memory access

Ops == {"init", "malloc", "free", "realloc", "calloc"}

InitClient ==
  /\ live = [p \in {} |-> [req |-> 0, tag |-> 0, valid |-> 0]]
  /\ ret = NULL
  /\ call = [op |-> "init", n |-> 0]
  /\ crashed = "none"

NoCrash == crashed = "none"

\* The client's bookkeeping after a call returns.
Issued(op, n) == call' = [op |-> op, n |-> n]
Holds(p, req, tag, valid) ==
  live' = (p :> [req |-> req, tag |-> tag, valid |-> valid]) @@ live
Releases(p) == live' = [q \in DOMAIN live \ {p} |-> live[q]]

\* memcpy of whole words, lowest address first: sizes are multiples of 8,
\* so the byte count is a multiple of the word size.
RECURSIVE CopyWords(_, _, _, _)
CopyWords(m, dst, src, bytes) ==
  IF bytes <= 0 THEN m
  ELSE CopyWords(WRITE(m, dst, m[src]), dst + WSIZE, src + WSIZE,
                 bytes - WSIZE)

\* The words the first `bytes` bytes from p touch.
PayloadWords(p, bytes) == {a \in Addr : a >= p /\ a < p + bytes}

\* The client writes its tag over the bytes it asked for (memset writes
\* zeros the same way).  Words past the end of memlib's region are not
\* modelled: a write there stops the fill.
RECURSIVE Fill(_, _, _, _)
Fill(m, p, bytes, tag) ==
  IF bytes <= 0 \/ p \notin Addr THEN m
  ELSE Fill(WRITE(m, p, tag), p + WSIZE, bytes - WSIZE, tag)

(***************************************************************************)
(* The heap as the code's own checks would see it.                        *)
(***************************************************************************)
\* Payload pointer of the first block after the prologue.
FirstBlock == HeapLo + 6 * WSIZE

\* The implicit list: blocks reached from FirstBlock by header sizes,
\* stopping at the last word below the break or at a size no block can
\* have.
RECURSIVE ChainFrom(_, _)
ChainFrom(bp, fuel) ==
  IF fuel = 0 \/ GET_HEADER(bp) >= brk - WSIZE
     \/ GET_SIZE(mem, GET_HEADER(bp)) < ESIZE
  THEN <<>>
  ELSE <<bp>> \o ChainFrom(SUCC_BLK(mem, bp), fuel - 1)

Blocks == ChainFrom(FirstBlock, MaxHeap \div ESIZE)
ChainEnd == IF Blocks = <<>> THEN FirstBlock ELSE SUCC_BLK(mem, Last(Blocks))
IsFree(bp) == GET_ALLOC(mem, GET_HEADER(bp)) = 0
FreeBlockSet == {bp \in ToSet(Blocks) : IsFree(bp)}

\* A free list, read through the stored offsets from its head.
RECURSIVE ListFrom(_, _)
ListFrom(ptr, fuel) ==
  IF fuel = 0 \/ ptr = NULL \/ ptr \notin Addr \/ ptr + WSIZE \notin Addr
  THEN <<>>
  ELSE <<ptr>> \o ListFrom(SUCC_FREE(mem, ptr), fuel - 1)

\* The list from head is a proper doubly-linked list (no repeated block,
\* NULL-terminated, the head's pred NULL, each pred the inverse of a succ)
\* whose blocks are all free blocks of the heap walk.
WellLinked(head) ==
  LET l == ListFrom(head, Len(Blocks) + 1)
  IN /\ Len(l) <= Len(Blocks)
     /\ \A j, k \in 1 .. Len(l) : l[j] = l[k] => j = k
     /\ l # <<>> => SUCC_FREE(mem, Last(l)) = NULL
     /\ \A j \in 1 .. Len(l) :
          /\ PRED_FREE(mem, l[j]) = IF j = 1 THEN NULL ELSE l[j - 1]
          /\ l[j] \in FreeBlockSet

ClientTypeOK ==
  /\ DOMAIN mem = Addr /\ \A a \in Addr : mem[a] \in Nat
  /\ brk \in HeapLo .. HeapLo + MaxHeap
  /\ DOMAIN live \subseteq Addr
  /\ \A p \in DOMAIN live : live[p].valid <= live[p].req
  /\ ret \in Addr \cup {NULL}
  /\ call \in [op : Ops, n : Nat]
  /\ crashed \in {"none", "realloc", "calloc"}

(***************************************************************************)
(* Invariants all three allocators must keep.                              *)
(***************************************************************************)
\* P1/P2: walking the blocks by their header sizes from the first block
\* after the prologue lands exactly on the epilogue (size 0, allocated) in
\* the last word below the break.  Merge, split and extend_heap all
\* rewrite sizes; one wrong sum derails the walk.
EpilogueAtBreak ==
  /\ GET_HEADER(ChainEnd) = brk - WSIZE
  /\ GET_SIZE(mem, brk - WSIZE) = 0 /\ GET_ALLOC(mem, brk - WSIZE) = 1

\* P4: the coalescer leaves no two free blocks next to each other.
NoAdjacentFree ==
  \A i \in 1 .. Len(Blocks) - 1 : ~(IsFree(Blocks[i]) /\ IsFree(Blocks[i + 1]))

\* Backward navigation reads the footer of a free block: it must carry the
\* block's size and say free.
FreeFooterMatches ==
  \A bp \in FreeBlockSet :
    /\ GET_SIZE(mem, GET_FOOTER(mem, bp)) = GET_SIZE(mem, GET_HEADER(bp))
    /\ GET_ALLOC(mem, GET_FOOTER(mem, bp)) = 0

\* P6 as the spec words it: the footer word of a free block equals its
\* header word.
FooterEqualsHeader ==
  \A bp \in FreeBlockSet : mem[GET_FOOTER(mem, bp)] = mem[GET_HEADER(bp)]

\* P7/P8 for a layout whose blocks spend `overhead` bytes on tags: the
\* pointers the client holds are exactly the allocated blocks of the heap,
\* 8-aligned, each with payload at least what was asked for.
LiveBlocksFit(overhead) ==
  /\ DOMAIN live = {bp \in ToSet(Blocks) : ~IsFree(bp)}
  /\ \A p \in DOMAIN live :
       /\ p % DSIZE = 0
       /\ GET_SIZE(mem, GET_HEADER(p)) - overhead >= live[p].req

\* No allocator write lands in the bytes a client has written and still
\* holds, and realloc carries them over (L2): every live block's first
\* `valid` bytes still hold the block's tag.
LivePayloadIntact ==
  \A p \in DOMAIN live :
    \A a \in PayloadWords(p, live[p].valid) : mem[a] = live[p].tag

\* Spec sections 7 and 8: out of address space propagates as NULL from
\* reallocate and zero_allocate, with the heap left consistent; the
\* process never dies inside realloc or calloc.
ReallocNullChecked == crashed # "realloc"
CallocNullChecked == crashed # "calloc"

(***************************************************************************)
(* The refinement mapping to AllocatorSpec: the blocks the heap walk finds *)
(* allocated with their payload capacity, the break, and the last call     *)
(* with its result.                                                        *)
(***************************************************************************)
AllocatedBlocks == {bp \in ToSet(Blocks) : ~IsFree(bp)}
Capacities(overhead) ==
  [bp \in AllocatedBlocks |-> GET_SIZE(mem, GET_HEADER(bp)) - overhead]
LastCall == [op |-> call.op, n |-> call.n, ret |-> ret]
CallSizes == Requests \cup {a[1] * a[2] : a \in CallocArgs}

=============================================================================

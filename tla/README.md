# TLA+ models of the OS_practice_Malloc allocators

The repository holds three versions of a CS:APP-style `malloc` built on
memlib's `mem_sbrk`:

| file | free-list organisation | footers | placement | heap growth |
|---|---|---|---|---|
| `src/mm.c` | one explicit doubly-linked LIFO list | free blocks only, `PREALLOC` bit in every header | best of the first `MAX_FIT`=6 fits, stop after `MAX_NFIT`=28 misses once a fit is known | exactly the request |
| `src/unnamed/part_000` | one explicit LIFO list | every block | best of the first 42 fits | `CHUNKSIZE`=4096, pre-extended in `mm_init` |
| `src/unnamed/part_001` | 18 segregated LIFO lists (`_get_level`) | free blocks only, `PREALLOC` bit | best of the first 42 fits, class by class, stopping at the first class with a fit | exactly the request |

## Parts of the system and how they interact

* **Block layout layer** (`mm.c` lines 27-71, the same in all three files):
  packed header words, boundary tags, neighbour navigation, and free-list
  links stored as 32-bit offsets from `heap_ptr` (0 is NULL).
* **Free list index**: `_insert_free_block` (at the head) and
  `_delete_free_block` (from any position).
* **Coalescer**: `_merge_free_blocks`, four cases on the predecessor's
  `PREALLOC` bit and the successor's `ALLOC` bit, then an insert.
* **Placement engine**: `_allocate` (bounded best fit) and `_build`
  (unlink, mark allocated, split if more than 16 bytes remain, then merge
  the remainder or set the successor's `PREALLOC`).
* **Heap extender**: `_extend_heap` (round to an even word count,
  `mem_sbrk`, turn the old epilogue into the new header, move the
  epilogue, merge).
* **Entry points**: `mm_init`, `malloc`, `free`, `realloc` (malloc, copy
  `MIN(sizes) - WSIZE` bytes, free), `calloc`, and an empty `mm_checkheap`.
* **memlib** (not in the repository): `mem_sbrk` grows a break up to a
  fixed maximum or fails with `(void *)-1`.

Everything runs on one thread.  No call yields, there are no callbacks, and
nothing is persisted.  The hard behaviours are therefore not interleavings.
They are long sequences of legal calls: each call leaves bookkeeping behind
(`PREALLOC` bits, footers, links), and a later call trusts it.  The
exhausted heap is the other hard case.

## Modules

* `BlockLayout.tla` is the macro layer.  Memory is a function from
  word-aligned addresses in `Addr` (the `MaxHeap` bytes memlib can hand out
  from `HeapLo`) to the word's value.  Every macro is an operator that takes
  the memory it reads.  `SbrkOk` is memlib's limit; it is modelled from the
  spec because memlib is not in the repository.
* `AllocatorSpec.tla` is the abstract allocator: what malloc, free,
  realloc and calloc promise a caller, with no layout and no policy.  Its
  state is the map of held blocks (payload address to capacity), the
  break `top` and the last call `[op, n, ret]`.  An allocation hands out an
  8-aligned block of at least `n` bytes below the break that overlaps no
  held block and leaves the others alone, or returns NULL, and NULL only
  when the break cannot grow by `Grow(n)`, the bytes the implementation
  asks memlib for on a miss.  The break either stays or grows by exactly
  `Grow(n)`.  free releases exactly one block, or nothing when passed
  NULL; realloc of NULL is an allocation; and the break never shrinks.
* `HeapClient.tla` is what all three variants share.  It declares `mem`,
  memlib's `brk` and the client (`live`, `ret`, the last call `call`, and
  `crashed`, the site where the process died on a NULL access: `"realloc"`
  or `"calloc"`).  `size_t` has `SIZE_BITS` bits: `SIZE_MOD` is its modulus
  and `CallocBytes` is `nmemb * size` in it.  The refinement mapping
  (`Capacities`, `LastCall`) is defined here too.  It defines
  `memcpy` as `CopyWords`, the client's fill, and the heap walk
  (`Blocks`, `FreeBlockSet`, `ListFrom`, `WellLinked`).  It also states the
  invariants every variant must keep: `EpilogueAtBreak`,
  `NoAdjacentFree`, `LiveBlocksFit` and `LivePayloadIntact`.
* `HeapCalls.tla` writes the four entry points once, since their text is
  the same in all three files (mm.c:250-316).  A variant instantiates it
  with its state record (`hp`) and its own `MallocOp`, `FreeOp` and
  `ReallocOp` (the copy and free after realloc's malloc), which are
  operator constants.  Each action is one whole call, including every
  helper it makes.  `Commit` stores the state the call computed in the
  variables, one by one.  The actions are:
  * `Malloc(n)`;
  * `Free(p)` and `ReallocZero(p)`, both `Release`;
  * `ReallocMove(p, n)`;
  * `Calloc(<<nmemb, size>>)`.

  The pointers passed to free and realloc are the client's blocks or
  NULL (`Held`).  So `free(NULL)` (an early return in `FreeOp`),
  `realloc(NULL, 0)` and `realloc(NULL, n)` (malloc tagged `"realloc"`)
  are among the steps checked.
* `FooterlessHeap.tla` EXTENDS HeapClient with what mm.c and part_001
  share: `heap_end`, the mm_init layout (`InitHeap`), the `PREALLOC`
  invariant, and the view that drops allocated blocks' stale footers.
* `MMExplicit.tla` models `src/mm.c`.
  * **State.** It has `mem`, `free_blks`, `heap_end` and `brk` (memlib's
    break).  A model of the client adds `live` (pointer to
    `[req, tag, valid]`), `ret` (the last return value) and `crashed` (the
    process died on a wild access).
  * **Helpers.** Each static helper is an operator from an allocator state
    record `[mem, free_blks, heap_end, brk]` to the next one.  Writes are
    chained in the C's order: each step gets the memory produced by the
    previous write as an operator argument.
  * **Actions.** `Next` is HeapCalls' `Next`, instantiated with
    `MallocOp`, `FreeOp` and `ReallocOp` (`ReallocCopy`, then `FreeOp`).
    `malloc(0)` returns NULL
    (`MallocOp`); `calloc(0, 4)` reaches it.  `AdjustSize` rounds in
    `size_t`, so a request near the top wraps.  `Calloc` mallocs the
    wrapped product and zeroes that many bytes; a NULL result with a
    non-zero count is a crash at `"calloc"`, as is realloc's at
    `"realloc"`.
  * **Client.** After every successful `malloc` the client fills the `n`
    bytes it asked for with a tag.  `realloc` carries the tag over for the
    first `MIN(old, new)` bytes.
* `MMSegregated.tla` models `src/unnamed/part_001` in the same style.
  * `free_blks` is a function from class (`0 .. max_level`) to list head.
  * `GetLevel` is `_get_level` over a `threshold` constant.
  * Insert and delete pick the class from the block's current header size.
  * The merge clears the successor's `PREALLOC` bit with a guarded `^ 2`,
    using Bitwise's `^^`; `_build` sets it with `| 2`.
  * `_allocate` is two mutually recursive scans: `ListScan` within a class
    and `LevelScan` across classes.  The scan stops at the `FIT_LIMIT`-th
    fit (the C's literal 42) or after the first class that yielded a fit.
* `MMFooter.tla` models `src/unnamed/part_000` over HeapClient.
  * It has no `heap_end` and no `PREALLOC` bit.  The merge reads the
    predecessor's status from its footer (`GET_ALLOC(PRED_FOOTER(ptr))`),
    so every block, allocated or free, has a footer.
  * `_extend_heap` clears the new block's links, and so do free and
    `_build`'s split.
  * `_allocate` is `FitScan` with `FIT_LIMIT` for the literal 42.
  * malloc extends by `ExtendSize(n)` = `MAX(size, CHUNKSIZE)`.
  * `Init` is the state after `mm_init`, which already extends the heap by
    one `CHUNKSIZE` chunk; an `ASSUME` says that this extension fits.
  * realloc copies `MIN(sizes) - DSIZE` bytes.
* `MCExplicit.tla`, `MCSegregated.tla` and `MCFooter.tla` instantiate the
  three for TLC and define the `ReadView` view, described under Bounds.
* `MCFitScan.tla` checks mm.c's `_allocate` as a pure function.  It
  instantiates MMExplicit and calls `FitScan` on a memory that holds only a
  free list.  The list's block sizes are the state, and they grow one block
  per step.  The result is compared with `SpecFit`, spec section 4.4's
  placement rule written as sets: the scan prefix ends at the `MAX_FIT`-th
  fit or at the `MAX_NFIT`-th non-fit after the first fit, and the result
  is the first smallest fit in that prefix.
* `MCPlacement.tla` does the same for part_001's `LevelScan` and
  part_000's `FitScan`.  The model heaps hold at most two free blocks, so
  there the `FIT_LIMIT` exit never passes over a better block.  Here the
  free blocks are laid out in a memory of their own.  In part_001 each
  block's succ word links it to the next block of its size class, and each
  class head is the first block of that class.  The reference definitions
  are written over the sequence of sizes with `SelectSeq`:
  * `BestOfFirstFits` is the first smallest of the first `FIT_LIMIT`
    fits;
  * `SegSpecFit` applies it to the first class, from the request's own
    upwards, that holds a fit.

Each of the three variant modules instantiates `AllocatorSpec` as `Alloc`:
`blocks` is the allocated blocks the heap walk finds, each with its size
minus the header (minus header and footer in part_000), `top` is `brk`,
`last` is `[call.op, call.n, ret]`, and `Grow` is `AdjustSize` (part_000:
`ExtendSize`).  The property `Refinement == Alloc!Spec` says that every
step of the implementation is a step of the abstract allocator or leaves
its variables alone.  A crash changes none of them, so it is a stutter.

## Runs

| run | cfg | expect | what it shows |
|---|---|---|---|
| `explicit_core` | `MCExplicit.cfg` | pass | See the invariant list after this table. |
| `explicit_list` | `MCExplicitList.cfg` | pass | On a 104-byte heap with only 16-byte blocks, three free blocks separated by allocated ones occur, so a block is unlinked from the middle of the list.  `FreeListExact` holds there too. |
| `segregated_core` | `MCSegregated.cfg` | pass | The same invariants for part_001, with `SegListsExact` in place of P5.  Every class list is a proper doubly-linked list, every free block is on exactly one, and it is the list of the class its current size belongs to.  The class ranges come from reading the threshold table directly, not from `_get_level`.  The guarded XOR keeps P3. |
| `realloc_oom` | `MCExplicitReallocOOM.cfg` | violation | `ReallocNullChecked`: on a 64-byte heap, `malloc(18)` takes a 24-byte block and moves the break to 56; `realloc` of it to a 24-byte block needs 24 more bytes where 16 remain, so `malloc` returns NULL and realloc reads `GET_HEADER(NULL)` (mm.c:299-301).  This is a code bug: spec section 7 says reallocate propagates null.  part_001's `realloc` (part_001:287-291) is the same code; it has no run of its own, like the calloc bugs below. |
| `footer_core` | `MCFooter.cfg` | pass | part_000 with `CHUNKSIZE` = 32 on an 88-byte heap (the initial chunk plus one more) and 8- and 12-byte requests.  It checks `EpilogueAtBreak`, `NoAdjacentFree`, `FreeListExact`, `BoundaryTagsMatch` (every block's footer word equals its header word, allocated blocks included, since the merge trusts the footer alone), `LiveBlocksAllocated` with a two-word overhead, and `LivePayloadIntact`. |
| `footer_realloc_oom` | `MCFooterReallocOOM.cfg` | violation | `ReallocNullChecked`: part_000's `realloc` also lacks the NULL check (part_000:262-266).  Two mallocs fill the heap, and the realloc that needs another chunk crashes. |
| `footer_word` | `MCExplicitFooterWord.cfg` | violation | The spec's P6 (footer word = header word) fails.  The footer is written as `PACK(size, 0)` and the header keeps `PREALLOC`.  Only size and ALLOC agree, and that is all `PRED_BLK` reads; `FreeFooterMatches` checks exactly that much. |
| `placement_rules` | `MCPlacement.cfg` | pass | `SegPlacementAsSpecified` and `FooterPlacementAsSpecified`: on every content of up to four free blocks of 16, 24, 32 or 40 bytes, with `FIT_LIMIT` 2 and part_001's classes scaled as in `segregated_core`, both `_allocate`s return the block spec 4.4 picks, for every request size.  The lists have up to four fits, so the exit at the limit passes over better blocks.  The count that part_001 carries across classes, its stop after the first class with a fit, and the first-of-equal tie rule are all exercised. |
| `fit_nfit_rule` | `MCFitScan.cfg` | violation | `FitAsSpecified` with `MAX_FIT` 3 and `MAX_NFIT` 1, on every list of up to four blocks of 8, 16 or 24 bytes: on the list 24, 8, 16 a 16-byte request gets 16 from `_allocate` and 24 from the spec's rule.  mm.c:214 counts the non-fits before the first fit too, and stops at the `MAX_NFIT + 1`-th.  With `MAX_NFIT` = 28, so that the exit cannot happen, the same check passes on every list of up to five blocks; the two differ only in that rule.  Both pick a fit, so no heap invariant depends on it. |
| `explicit_calloc_oom` | `MCExplicitCallocOOM.cfg` | violation | `CallocNullChecked`: on a 64-byte heap two mallocs leave no room, and `calloc(3, 4)` memsets 12 bytes at the NULL that malloc returned (mm.c:313-314).  Spec section 9 requires the null check. |
| `explicit_calloc_wrap` | `MCExplicitCallocWrap.cfg` | violation | `Refinement` with `size_t` scaled to 7 bits: `calloc(43, 3)` computes 129 mod 128 = 1, gets a 16-byte block and returns it for a call of 129 bytes (mm.c:312).  The abstract allocator allows only a block of at least 129 bytes or NULL. |
| `explicit_size_wrap` | `MCExplicitSizeWrap.cfg` | violation | `LiveBlocksAllocated` with `size_t` scaled to 7 bits: `malloc(125)` rounds (125 + 11) mod 128 = 8 up to a 16-byte block (mm.c:257), and hands it to a caller who asked for 125 bytes. |

`explicit_core` checks, after every sequence of malloc, free, realloc and
calloc with 12- and 18-byte requests (NULL passed to free and realloc
included) on an 80-byte heap, that:

* the heap walk ends exactly at the epilogue (P1/P2);
* every `PREALLOC` bit equals the previous block's `ALLOC` (P3);
* no two free blocks are adjacent (P4);
* the explicit list is a proper doubly-linked list holding exactly the free
  blocks (P5);
* free footers agree with their headers in size and ALLOC;
* the pointers the client holds are exactly the allocated blocks, aligned
  and big enough (P7/P8);
* no allocator write touches the client's bytes, and realloc keeps them
  (L2);
* (`MissOnlyWithoutFit`, an action property) a malloc, realloc or calloc
  that misses had no free block big enough before the call.  A miss is a
  NULL result or a larger break.  So the early exits of `_allocate` never
  hide a fit, and the heap never grows while a fit is free;
* (`Refinement`) every step is a step of `AllocatorSpec`.  This includes
  free(NULL) and realloc(NULL, n), and the break grows by exactly the
  block that was asked for.

`segregated_core` and `footer_core` check the same two action properties.
In part_001 the scan moves up the classes, so a miss also means that no
higher class held a fit.  In part_000 the break grows by a whole
`MAX(size, CHUNKSIZE)`, and NULL means that it cannot.

Every property of a passing run has a mutant in `PROJECT.json`: a
plausible bug in the translated code that TLC catches with that property.
The mutants are a dropped reset, a subtracted bit, an epilogue one word
off, swapped writes, a missing back link, backward-only coalescing,
truncated rounding, and the other variant's copy length.  For part_001
they also include an unguarded XOR, a strict class comparison, a footer
written at the wrong end, and a fit scan without its size test.  For
part_000 they include a list head taken from the raw stored offset, the
footerless variants' rounding (no room for the footer), and a realloc
that frees the old block before copying it, so that free's link writes
land in the data being copied.  The action properties are broken by a fit
scan that drops its "fit known" guard before a MAX_NFIT exit (mm.c), a
class walk that stops after the request's own class (part_001), a scan
that passes over an exact fit (part_000), and a miss that asks memlib for
a double word more than it needs (all three: the break then grows by
more than `Grow(n)`).  The placement rules are broken by a `FIT_LIMIT`
exit taken one fit late, in part_001 and in part_000.

## Bounds and why they are enough

* **part_001 thresholds.** They are scaled from `{32, 48, ..., 1048576}`
  to `<<24, 32>>`, giving three classes.  16- and 24-byte blocks share
  class 0, as 16..32 do in the real class 0, so the within-class size test
  of `_allocate` matters.  32-byte blocks are class 1 and larger merged
  blocks class 2, so merges and splits move blocks between classes.
  `FIT_LIMIT` = 2 stands for 42.  With at most two free blocks, the
  exit it causes never passes over a fit; `placement_rules` uses the same
  limit on lists of up to four blocks.
* **Requests.** Requests of 12 and 18 bytes give blocks of 16 and 24 bytes.
  Twelve bytes use the whole footerless payload.  18 bytes needs a 24-byte
  block and writes into its last word.  Freed 24-byte blocks reused for
  16-byte requests are not split (the remainder is 8), while merged blocks
  are split.
* **Coverage at 80 bytes.** All four coalescing cases, extension, extension
  failure and the split all occur on an 80-byte heap: 56 usable bytes after
  the 24 bytes of prologue and epilogue.  The middle-of-list unlink needs
  five blocks (F A F A F), hence the separate 104-byte run.
* **MAX_FIT = 2 and MAX_NFIT = 0.** These scale 6 and 28 down so that both
  early exits of `_allocate` are taken with the two or three free blocks
  that fit in the heap.
* **part_000.**  `CHUNKSIZE` = 32 stands for 4096.  A 32-byte chunk
  allocated for a 16- or 24-byte block is kept whole (the remainder is not
  more than `ESIZE`), while merged 48- and 64-byte blocks are split.  The
  88-byte heap allows the pre-extension and one more chunk, so extension
  and its failure both occur.  A 120-byte heap (two more chunks) runs for
  more than half an hour.  `HeapLo` = 1024 keeps raw link offsets
  (below 100) out of the address range, as in a real heap.
* **`SIZE_BITS`.** The passing runs use 16 bits, so no sum or product of
  their small requests wraps and the runs check the allocator itself.  The
  two wrap runs use 7 bits, so that a request within 11 bytes of the top
  (125) and a product just over it (43 * 3) are small enough for TLC; the
  wrap happens at the same lines for 64 bits.
* **`calloc` arguments.**  `<<0, 4>>` reaches `malloc(0)`, and `<<3, 4>>`
  needs a 16-byte block, reused or split like a malloc's.  The list and
  realloc-OOM runs leave calloc out (`MCNoCallocArgs`), since their
  questions are about other calls.
* **`GARBAGE`.** This is the content of fresh memlib words, a single value.
  No property and no code path reads a word before it is written.
* **VIEW `ReadView`.** States are identified only by the words that
  the allocator or the client reads (for part_000 every footer is read,
  so allocated footers are kept): sentinels, headers, a free block's links and
  footer, and a live block's written bytes.  A free block's other payload
  words, the stale footer of an allocated block, words past the break, and
  `ret` are never read, so two states that differ only there have the same
  futures.  The invariants read only kept words.

## Fairness and liveness

There is no fairness assumption and no liveness property.  The code runs
on one thread.  Every call is a finite loop (the list walks follow a list
that `FreeListExact` or `SegListsExact` shows to be finite and acyclic),
so it either returns or crashes within the one action that models it.
Nothing waits on anything and nothing is promised to happen later: the
next call is the client's choice, which no fairness condition could
justify.  `CHECK_DEADLOCK FALSE` is set because a crashed process takes
no further steps.

## Not modelled (yet), and the plan

1. **The `calloc`, size and realloc bugs in part_001, and the calloc
   and size bugs in part_000.**  Their code is the same as mm.c's and is
   modelled the same way.  They have no separate violation runs, since
   those would repeat `explicit_calloc_oom`, `explicit_calloc_wrap`,
   `explicit_size_wrap` and `realloc_oom` line for line.  part_000's realloc
   keeps its own run: there the heap grows by whole chunks, so realloc
   fails even for a small request.
2. **Heaps large enough for more than two free blocks in the core runs.**
   A 96-byte part_001 heap takes 12 minutes, and a 120-byte part_000 heap
   more than 30.  The placement rule on longer lists is checked as a pure
   function instead (`placement_rules`, `fit_nfit_rule`).
3. **`mm_checkheap`** is empty in all three files; the invariants above
   are what it would check.  memlib itself is outside the repository and
   is modelled from the spec as a bounded break.

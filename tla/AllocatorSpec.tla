--------------------------- MODULE AllocatorSpec ---------------------------
(***************************************************************************)
(* What a malloc / free / realloc / calloc implementation on a break that *)
(* only grows promises its caller (spec sections 4.6, 7 and 8), with no   *)
(* layout, no free list and no placement policy:                          *)
(*                                                                         *)
(*   blocks  the blocks the caller holds: payload address -> capacity     *)
(*   top     the break                                                     *)
(*   last    the last call that returned: [op, n, ret]                     *)
(*                                                                         *)
(* An allocation returns an 8-aligned block of at least the requested     *)
(* capacity that lies below the break and overlaps no block the caller    *)
(* holds, and leaves every other block where it is with its capacity.     *)
(* It returns NULL only when the break cannot grow by Grow(n) bytes, the  *)
(* amount the implementation asks memlib for on a miss (spec section 7:   *)
(* out-of-address-space is the one failure), and when it grows the break *)
(* it grows it by exactly that.  free releases exactly one block, or      *)
(* nothing for NULL; realloc(NULL, n) allocates.                          *)
(***************************************************************************)
EXTENDS Naturals

CONSTANTS
  Lo,       \* lowest payload address a block can have
  Hi,       \* the highest the break can go (memlib's limit)
  Sizes,    \* request sizes a caller passes
  Grow(_)   \* bytes the implementation asks the break for, per request

VARIABLES blocks, top, last

avars == <<blocks, top, last>>

NULL == 0

Init ==
  /\ blocks = [p \in {} |-> 0]
  /\ top \in Lo .. Hi
  /\ last = [op |-> "init", n |-> 0, ret |-> NULL]

\* Two byte ranges [p, p + c) and [q, q + d) do not overlap.
Apart(p, c, q, d) == p + c <= q \/ q + d <= p

\* After the step the caller holds p with at least n bytes, in place of the
\* blocks in gone; p is aligned, under the new break, and apart from every
\* block held before the step (gone included: it is still held while the
\* new block is chosen); every other block is untouched.  The break stays
\* or grows by Grow(n).
Handed(p, n, gone) ==
  /\ p \notin DOMAIN blocks
  /\ DOMAIN blocks' = (DOMAIN blocks \ gone) \cup {p}
  /\ \A q \in DOMAIN blocks \ gone : blocks'[q] = blocks[q]
  /\ blocks'[p] >= n
  /\ p % 8 = 0 /\ Lo <= p /\ p + blocks'[p] <= top'
  /\ \A q \in DOMAIN blocks : Apart(p, blocks'[p], q, blocks[q])
  /\ top' \in {top, top + Grow(n)}
  /\ top' <= Hi

\* A call that allocates n > 0 bytes, handing back a block or NULL.
Allocation(op, n, gone) ==
  /\ n > 0
  /\ last'.op = op /\ last'.n = n
  /\ \/ last'.ret # NULL /\ Handed(last'.ret, n, gone)
     \/ /\ last'.ret = NULL
        /\ top + Grow(n) > Hi
        /\ UNCHANGED <<blocks, top>>

\* p is a held block or NULL, for which nothing is released.
Release(p, op) ==
  /\ p \in DOMAIN blocks \cup {NULL}
  /\ blocks' = [q \in DOMAIN blocks \ {p} |-> blocks[q]]
  /\ last' = [op |-> op, n |-> 0, ret |-> NULL]
  /\ UNCHANGED top

Malloc(n) == Allocation("malloc", n, {})

Free(p) == Release(p, "free")

\* realloc(p, 0) releases p; realloc(p, n) hands a new block for p, and
\* realloc(NULL, n) a new block.
Realloc(p, n) ==
  \/ n = 0 /\ Release(p, "realloc")
  \/ p \in DOMAIN blocks /\ Allocation("realloc", n, {p})
  \/ p = NULL /\ Allocation("realloc", n, {})

\* calloc of n = nmemb * size bytes; n = 0 returns NULL.
Calloc(n) ==
  \/ /\ n = 0
     /\ last' = [op |-> "calloc", n |-> 0, ret |-> NULL]
     /\ UNCHANGED <<blocks, top>>
  \/ Allocation("calloc", n, {})

Next ==
  \/ \E n \in Sizes : Malloc(n) \/ Calloc(n)
  \/ \E p \in DOMAIN blocks \cup {NULL} : Free(p)
  \/ \E p \in DOMAIN blocks \cup {NULL}, n \in Sizes \cup {0} : Realloc(p, n)

Spec == Init /\ [][Next]_avars

=============================================================================

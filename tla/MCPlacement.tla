--------------------------- MODULE MCPlacement ----------------------------
(***************************************************************************)
(* The _allocate of part_001 (LevelScan in MMSegregated) and of part_000  *)
(* (FitScan in MMFooter) as pure functions, checked against the placement *)
(* rule of spec section 4.4 on every free-block content of up to MaxLen   *)
(* blocks with sizes from FitSizes.                                        *)
(*                                                                         *)
(* A model heap holds at most two free blocks, too few for the FIT_LIMIT  *)
(* exit to pass over a better block; here the lists are laid out in a     *)
(* memory of their own, as in MCFitScan.  The k-th free block has its     *)
(* payload at heap_ptr + 16 * k and its header word holds its size.  In   *)
(* part_000 every block is on the one list, in order; in part_001 its     *)
(* succ word links it to the next block of the same size class, and the  *)
(* class heads are the first block of each class.  Both scans read only   *)
(* the header and the succ word.                                           *)
(***************************************************************************)
EXTENDS Naturals, Sequences, SequencesExt

CONSTANTS HeapLo, MaxHeap, GARBAGE, SIZE_BITS, threshold, FIT_LIMIT, CHUNKSIZE,
          FitSizes,  \* block sizes on the lists
          MaxLen     \* most free blocks

VARIABLE sizes  \* the sizes of the free blocks, in list order

\* The threshold table scaled as in MCSegregated: 16- and 24-byte blocks
\* are class 0, 32-byte blocks class 1, larger ones class 2.
PlaceThreshold == <<24, 32>>

\* The variables of the allocator do not take part in a pure call.
S == INSTANCE MMSegregated
       WITH mem <- [a \in {} |-> 0], free_blks <- 0, heap_end <- 0, brk <- 0,
            live <- [a \in {} |-> 0], ret <- 0, call <- [op |-> "init", n |-> 0],
            crashed <- "none", CallocArgs <- {}, Requests <- {1}
F == INSTANCE MMFooter
       WITH mem <- [a \in {} |-> 0], free_blks <- 0, brk <- 0,
            live <- [a \in {} |-> 0], ret <- 0, call <- [op |-> "init", n |-> 0],
            crashed <- "none", CallocArgs <- {}, Requests <- {1}

ASSUME S!heap_ptr + 16 * MaxLen + S!WSIZE < HeapLo + MaxHeap

Entry(k) == S!heap_ptr + 16 * k
Indices == [k \in 1 .. Len(sizes) |-> k]

\* The size class of spec section 3, read off the threshold table.
Class(s) == S!ClassOf(s)

\* The memory holding the blocks: each header, and each succ word linking
\* a block to the next one on its list (Linked(j, k): j follows k there).
ListMem(Linked(_, _)) ==
  LET Next(k) == {j \in k + 1 .. Len(sizes) : Linked(j, k)}
  IN [a \in S!Addr |->
        IF \E k \in 1 .. Len(sizes) : a = S!GET_HEADER(Entry(k))
        THEN S!PACK(sizes[(a + S!WSIZE - S!heap_ptr) \div 16], 0)
        ELSE IF \E k \in 1 .. Len(sizes) : a = Entry(k) + S!WSIZE
                                       /\ Next(k) # {}
        THEN Entry(Min(Next((a - S!WSIZE - S!heap_ptr) \div 16))) - S!heap_ptr
        ELSE 0]

First(l) == IF l = <<>> THEN S!NULL ELSE Entry(Head(l))

\* The blocks of class i, in list order (as indices into sizes).
InClass(i) == SelectSeq(Indices, LAMBDA k : Class(sizes[k]) = i)

SegHeap ==
  [mem |-> ListMem(LAMBDA j, k : Class(sizes[j]) = Class(sizes[k])),
   free_blks |-> [i \in S!Levels |-> First(InClass(i))],
   heap_end |-> 0, brk |-> 0]

FooterHeap == [mem |-> ListMem(LAMBDA j, k : TRUE), free_blks |-> First(Indices),
               brk |-> 0]

(***************************************************************************)
(* Spec 4.4: track the smallest fitting block; return it after FIT_LIMIT  *)
(* fits in total; in the segregated variant walk the classes from the     *)
(* request's own upwards and stop after the first class with a fit.       *)
(***************************************************************************)
\* Among the first FIT_LIMIT blocks of l that fit s, the first smallest;
\* NULL when none fits.
BestOfFirstFits(l, s) ==
  LET fits == SelectSeq(l, LAMBDA k : sizes[k] >= s)
      g == SubSeq(fits, 1, IF Len(fits) < FIT_LIMIT THEN Len(fits) ELSE FIT_LIMIT)
  IN IF g = <<>> THEN S!NULL
     ELSE Entry(CHOOSE k \in ToSet(g) :
                  \A j \in ToSet(g) : sizes[k] < sizes[j] \/ (sizes[k] = sizes[j] /\ k <= j))

SegSpecFit(s) ==
  LET C == {i \in Class(s) .. S!max_level : BestOfFirstFits(InClass(i), s) # S!NULL}
  IN IF C = {} THEN S!NULL ELSE BestOfFirstFits(InClass(Min(C)), s)

Init == sizes = <<>>

Push(s) ==
  /\ Len(sizes) < MaxLen
  /\ sizes' = Append(sizes, s)

Next == \E s \in FitSizes : Push(s)

Spec == Init /\ [][Next]_sizes

\* part_001's _allocate returns the block spec 4.4 picks for every request
\* size: the fit count it carries across classes reaches FIT_LIMIT only in
\* the first class holding a fit, and its best block is the first smallest
\* of that class's first FIT_LIMIT fits.
SegPlacementAsSpecified ==
  \A s \in FitSizes : S!Allocate(SegHeap, s) = SegSpecFit(s)

\* part_000's _allocate returns the first smallest of the first FIT_LIMIT
\* fits of its list, for every request size.
FooterPlacementAsSpecified ==
  \A s \in FitSizes : F!Allocate(FooterHeap, s) = BestOfFirstFits(Indices, s)
=============================================================================

---------------------------- MODULE MCFitScan -----------------------------
(***************************************************************************)
(* mm.c's _allocate (FitScan in MMExplicit) as a pure function, checked  *)
(* against the placement rule of spec section 4.4 on every free list of  *)
(* up to MaxLen blocks with sizes from FitSizes.                          *)
(*                                                                         *)
(* The free list is laid out in a memory of its own: the k-th block of    *)
(* the list has its payload at heap_ptr + 16 * k, its header word holds   *)
(* its size and its succ word the offset of the next one.  FitScan reads  *)
(* only those two words, so the blocks need not tile a heap.  The list    *)
(* grows one block per step; every reachable state is one list.           *)
(***************************************************************************)
EXTENDS Naturals, Sequences, FiniteSets

CONSTANTS HeapLo, MaxHeap, GARBAGE, SIZE_BITS, MAX_FIT, MAX_NFIT,
          FitSizes,     \* block sizes on the list
          FitRequests,  \* adjusted request sizes passed to _allocate
          MaxLen        \* longest list

VARIABLE sizes  \* the sizes of the free blocks, in list order

E == INSTANCE MMExplicit
       WITH mem <- [a \in {} |-> 0], free_blks <- 0, heap_end <- 0, brk <- 0,
            live <- [a \in {} |-> 0], ret <- 0, call <- [op |-> "init", n |-> 0],
            crashed <- "none", CallocArgs <- {}, Requests <- {1}

ASSUME E!heap_ptr + 16 * MaxLen + E!WSIZE < HeapLo + MaxHeap

Entry(k) == E!heap_ptr + 16 * k

\* The memory holding the list sz: header and succ word of every entry.
ListMem(sz) ==
  [a \in E!Addr |->
     IF \E k \in 1 .. Len(sz) : a = E!GET_HEADER(Entry(k))
     THEN LET k == CHOOSE k \in 1 .. Len(sz) : a = E!GET_HEADER(Entry(k))
          IN E!PACK(sz[k], 0)
     ELSE IF \E k \in 1 .. Len(sz) - 1 : a = Entry(k) + E!WSIZE
     THEN LET k == CHOOSE k \in 1 .. Len(sz) - 1 : a = Entry(k) + E!WSIZE
          IN Entry(k + 1) - E!heap_ptr
     ELSE 0]

ListHead(sz) == IF sz = <<>> THEN E!NULL ELSE Entry(1)

(***************************************************************************)
(* Spec 4.4, single-list variant: walk the list tracking the smallest     *)
(* fitting block (the first of equal ones); return it after MAX_FIT fits  *)
(* in total, or after MAX_NFIT non-fitting blocks met after the first    *)
(* fit, or at the end of the list.                                         *)
(***************************************************************************)
Fit(sz, s, i) == sz[i] >= s

\* The scan ends at position i.
EndsAt(sz, s, i) ==
  \/ Fit(sz, s, i)
     /\ Cardinality({j \in 1 .. i : Fit(sz, s, j)}) = MAX_FIT
  \/ /\ ~Fit(sz, s, i)
     /\ \E f \in 1 .. i - 1 :
          /\ Fit(sz, s, f)
          /\ \A j \in 1 .. f - 1 : ~Fit(sz, s, j)
          /\ Cardinality({j \in f + 1 .. i : ~Fit(sz, s, j)}) = MAX_NFIT

Scanned(sz, s) ==
  IF \E i \in 1 .. Len(sz) : EndsAt(sz, s, i)
  THEN 1 .. (CHOOSE i \in 1 .. Len(sz) :
               EndsAt(sz, s, i) /\ \A j \in 1 .. i - 1 : ~EndsAt(sz, s, j))
  ELSE 1 .. Len(sz)

SpecFit(sz, s) ==
  LET F == {i \in Scanned(sz, s) : Fit(sz, s, i)}
  IN IF F = {} THEN E!NULL
     ELSE Entry(CHOOSE i \in F :
                  \A j \in F : sz[i] < sz[j] \/ (sz[i] = sz[j] /\ i <= j))

Init == sizes = <<>>

Push(s) ==
  /\ Len(sizes) < MaxLen
  /\ sizes' = Append(sizes, s)

Next == \E s \in FitSizes : Push(s)

Spec == Init /\ [][Next]_sizes

\* _allocate returns the block spec section 4.4 picks, for every list and
\* request: the best of the first MAX_FIT fits, cut short once MAX_NFIT
\* non-fitting blocks follow the first fit.  mm.c:214 counts the
\* non-fitting blocks met before the first fit as well, and stops at the
\* MAX_NFIT + 1-th.
FitAsSpecified ==
  \A s \in FitRequests :
    E!FitScan(ListMem(sizes), ListHead(sizes), s, E!NULL, 0, 0, 0)
      = SpecFit(sizes, s)
=============================================================================

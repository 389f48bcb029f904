--------------------------- MODULE MCSegregated ----------------------------
(***************************************************************************)
(* Model-checking instance of MMSegregated.  The threshold table is       *)
(* scaled to the block sizes a small heap holds: 16- and 24-byte blocks   *)
(* share class 0 (so a class holds blocks too small for a request of its *)
(* own class, as 16..32 do in part_001's class 0), 32-byte blocks are     *)
(* class 1 and larger merged blocks class 2.  Blocks move between classes *)
(* as they are split and merged, and _allocate walks several classes.     *)
(***************************************************************************)
EXTENDS MMSegregated

MCRequests == {12, 18}
MCThreshold == <<24, 32>>

\* Small enough that the FIT_LIMIT exit is taken.  With at most two free
\* blocks on this heap it never passes over a better one; MCPlacement
\* checks that case.
MCFitLimit == 2

\* See KeptWords in FooterlessHeap.
\* calloc(0, 4) returns NULL without a block; calloc(3, 4) needs 12 bytes.
MCCallocArgs == {<<0, 4>>, <<3, 4>>}

ReadView == <<KeptMem, free_blks, heap_end, brk, live, crashed>>
=============================================================================

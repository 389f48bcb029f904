----------------------------- MODULE MCFooter ------------------------------
(***************************************************************************)
(* Model-checking instance of MMFooter (src/unnamed/part_000).            *)
(***************************************************************************)
EXTENDS MMFooter

\* 8 bytes round to a 16-byte block (the smallest), 12 bytes to 24.
MCRequests == {8, 12}

\* Stands for 4096: a 32-byte chunk taken for a 16- or 24-byte block is
\* kept whole, since the rest (16 or 8 bytes) is not more than ESIZE;
\* merged 48- and 64-byte blocks are split.
MCChunk == 32

\* Stands for the literal 42 of _allocate; MCPlacement checks the exit on
\* lists longer than this heap can hold.
MCFitLimit == 2

\* calloc(0, 4) returns NULL without a block; calloc(3, 4) needs 12 bytes.
MCCallocArgs == {<<0, 4>>, <<3, 4>>}
MCNoCallocArgs == {}

ReadView == <<KeptMem, free_blks, brk, live, crashed>>
=============================================================================

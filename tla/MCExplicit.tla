---------------------------- MODULE MCExplicit -----------------------------
(***************************************************************************)
(* Model-checking instance of MMExplicit: a heap of a few dozen bytes and *)
(* requests that round to 16- and 24-byte blocks, so that splits,         *)
(* all four coalescing cases, heap growth and its failure all occur.      *)
(***************************************************************************)
EXTENDS MMExplicit

\* A request of 12 bytes fills the whole payload of a 16-byte block,
\* footer word included; 18 bytes needs a 24-byte block and also reaches its footer word.
MCRequests == {12, 18}

\* calloc(0, 4) returns NULL without a block; calloc(3, 4) is 12 zeroed
\* bytes.
MCCallocArgs == {<<0, 4>>, <<3, 4>>}

\* One block size only: on the larger heap this reaches three free blocks
\* separated by allocated ones, so a block is unlinked from the middle of
\* a free list of three.
MCListRequests == {12}

\* A 7-bit size_t: SIZE_MAX is 127.  malloc(125) rounds 125 + 11 = 136,
\* which wraps to 8; calloc(43, 3) multiplies to 129, which wraps to 1.
MCWrapRequests == {125}
MCWrapCallocArgs == {<<43, 3>>}

\* Runs about other calls leave calloc out.
MCNoCallocArgs == {}

\* Small enough that the early exits of _allocate are taken.
MCMaxFit == 2
MCMaxNFit == 0

\* See KeptWords in FooterlessHeap.
ReadView == <<KeptMem, free_blks, heap_end, brk, live, crashed>>
=============================================================================

----------------------------- MODULE HeapCalls -----------------------------
(***************************************************************************)
(* The public entry points malloc, free, realloc and calloc, written once *)
(* for the three variants, whose text of these four functions is the     *)
(* same (mm.c lines 250-316).  A variant instantiates this module with   *)
(* its own state record and its own allocator functions:                 *)
(*                                                                         *)
(*   hp             the allocator state record: mem, free_blks, brk and, *)
(*                  in the footerless variants, heap_end; part_000 has no *)
(*                  heap_end and gives NULL for it                        *)
(*   MallocOp(st, n)           malloc on st: [st |-> st', ret |-> ptr]    *)
(*   FreeOp(st, p)             free on st                                 *)
(*   ReallocOp(st, p, newptr)  realloc after its malloc: copy, then free  *)
(*                                                                         *)
(* Each action is one whole call with every helper it makes, and the     *)
(* client's bookkeeping: after a successful malloc the client fills the  *)
(* n bytes it asked for with a tag, after calloc it holds n zero bytes,  *)
(* and realloc carries the tag over for the first MIN(old, new) bytes.   *)
(***************************************************************************)
EXTENDS HeapClient

CONSTANTS MallocOp(_, _), FreeOp(_, _), ReallocOp(_, _, _)

VARIABLES free_blks, heap_end, hp

\* Store the state a call computed (a crash stores the state as it was).
Commit(st) ==
  /\ mem' = st.mem
  /\ free_blks' = st.free_blks
  /\ brk' = st.brk
  /\ "heap_end" \in DOMAIN st => heap_end' = st.heap_end

\* malloc(n), or realloc(NULL, n) (op "realloc"), which is malloc(n).
MallocDone(r, op, n) ==
  /\ IF r.ret = NULL
     THEN /\ Commit(r.st) /\ UNCHANGED live
     ELSE /\ Commit([r.st EXCEPT !.mem = Fill(@, r.ret, n, r.ret)])
          /\ Holds(r.ret, n, r.ret, n)
  /\ ret' = r.ret
  /\ Issued(op, n)
  /\ UNCHANGED crashed

Malloc(n) ==
  /\ NoCrash
  /\ MallocDone(MallocOp(hp, n), "malloc", n)

\* free(p), and realloc(p, 0), which calls free(p) and returns 0.  free
\* returns nothing: the client's last result is no pointer.  p may be
\* NULL, which FreeOp returns on at once.
Release(p, op) ==
  /\ NoCrash
  /\ Commit(FreeOp(hp, p))
  /\ Releases(p)
  /\ ret' = NULL
  /\ Issued(op, 0)
  /\ UNCHANGED crashed

Free(p) == Release(p, "free")

ReallocZero(p) == Release(p, "realloc")

\* realloc(p, n) for p # NULL: malloc, read both headers, copy, free.
\* When malloc fails the C reads the header of NULL (address -4) and the
\* process dies.
ReallocDone(r, p, n) ==
  IF r.ret = NULL
  THEN /\ crashed' = "realloc"
       /\ Commit(hp)
       /\ UNCHANGED <<live, ret, call>>
  ELSE /\ Commit(ReallocOp(r.st, p, r.ret))
       /\ live' = (r.ret :> [req |-> n, tag |-> live[p].tag,
                             valid |-> MIN(live[p].valid, n)])
                  @@ [q \in DOMAIN live \ {p} |-> live[q]]
       /\ ret' = r.ret
       /\ Issued("realloc", n)
       /\ UNCHANGED crashed

ReallocMove(p, n) ==
  /\ NoCrash
  /\ IF p = NULL THEN MallocDone(MallocOp(hp, n), "realloc", n)
                 ELSE ReallocDone(MallocOp(hp, n), p, n)

\* calloc(nmemb, size): malloc(bytes) with bytes = nmemb * size in size_t,
\* then memset(newptr, 0, bytes) with no NULL check: a NULL result with
\* bytes > 0 is a write to address 0 and the process dies.  The caller
\* holds nmemb * size zeroed bytes, as it counts them.
CallocDone(r, n, bytes) ==
  IF r.ret = NULL /\ bytes > 0
  THEN /\ crashed' = "calloc"
       /\ Commit(hp)
       /\ UNCHANGED <<live, ret, call>>
  ELSE /\ IF r.ret = NULL
          THEN /\ Commit(r.st) /\ UNCHANGED live
          ELSE /\ Commit([r.st EXCEPT !.mem = Fill(@, r.ret, bytes, 0)])
               /\ Holds(r.ret, n, 0, n)
       /\ ret' = r.ret
       /\ Issued("calloc", n)
       /\ UNCHANGED crashed

Calloc(a) ==
  /\ NoCrash
  /\ CallocDone(MallocOp(hp, CallocBytes(a)), a[1] * a[2], CallocBytes(a))

\* The pointers a client passes: the blocks it holds, or NULL.
Held == DOMAIN live \cup {NULL}

Next ==
  \/ \E n \in Requests : Malloc(n)
  \/ \E p \in Held : Free(p)
  \/ \E p \in Held : ReallocZero(p)
  \/ \E p \in Held, n \in Requests : ReallocMove(p, n)
  \/ \E a \in CallocArgs : Calloc(a)
=============================================================================

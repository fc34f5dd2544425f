----------------------------- MODULE BufferPool -----------------------------
(***************************************************************************)
(* What the DMA buffer heap of the FX3 firmware promises its callers       *)
(* (cypress_fx3/cyfxbulksrcsink/cyfxtx.c, CyU3PDmaBufferAlloc and          *)
(* CyU3PDmaBufferFree), without the bitmap, the mutex or the debug list:   *)
(* a heap that is open or closed, and a set of granted blocks.  A block    *)
(* is a run of whole cache lines that holds the payload asked for, lies    *)
(* inside the heap, and shares no cache line with another granted block,   *)
(* so that cleaning or invalidating one buffer never touches another.      *)
(*                                                                         *)
(* DmaBufferMgr implements this specification.                             *)
(***************************************************************************)
EXTENDS Integers

CONSTANTS Lines,    \* cache lines of the heap
          LineSz,   \* bytes of a cache line
          HdrSz,    \* bytes a debug header may take in front of a payload
          Sizes     \* the payload sizes, in bytes, that callers ask for

VARIABLES open,     \* the heap is initialised
          blocks    \* the blocks granted and not yet released

poolVars == <<open, blocks>>

\* The cache lines of a block, and the byte offsets of its payload.
Extent(b) == b.start .. (b.start + b.n - 1)

InHeap(b) == b.start >= 0 /\ b.start + b.n <= Lines

HoldsPayload(b) == /\ b.start * LineSz <= b.ptr
                   /\ b.ptr + b.size <= (b.start + b.n) * LineSz

Apart(b, a) == Extent(b) \cap Extent(a) = {}

PoolInit == open = FALSE /\ blocks = {}

PoolOpen == ~open /\ open' = TRUE /\ blocks' = {}

\* Closing takes every block back, released or not.
PoolClose == open /\ open' = FALSE /\ blocks' = {}

Grant(b) ==
  /\ open
  /\ InHeap(b) /\ HoldsPayload(b)
  /\ \A a \in blocks : Apart(b, a)
  /\ blocks' = blocks \cup {b}
  /\ UNCHANGED open

Release(b) ==
  /\ open
  /\ blocks' = blocks \ {b}
  /\ UNCHANGED open

PoolNext ==
  \/ PoolOpen
  \/ PoolClose
  \/ \E s \in 1 .. (Lines - 1), n \in 2 .. Lines, h \in {0, HdrSz}, sz \in Sizes :
        Grant([start |-> s, n |-> n, ptr |-> s * LineSz + h, size |-> sz])
  \/ \E b \in blocks : Release(b)

PoolSpec == PoolInit /\ [][PoolNext]_poolVars
=============================================================================

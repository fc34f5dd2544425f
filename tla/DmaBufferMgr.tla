---------------------------- MODULE DmaBufferMgr ----------------------------
(***************************************************************************)
(* The DMA buffer heap of the FX3 firmware:                                *)
(* cypress_fx3/cyfxbulksrcsink/cyfxtx.c from CyU3PBufEnableChecks to the   *)
(* end of the file.  The heap is divided into cache lines; usedStatus has  *)
(* one bit per line, and a block of n lines is n-1 ones followed by a zero *)
(* that is found again when the block is freed.  A mutex protects the      *)
(* bitmap and the debug list of blocks in use; CyU3PBufEnableChecks,       *)
(* CyU3PDmaBufferInit and CyU3PBufCorruptionCheck do not take it.          *)
(*                                                                         *)
(* Each caller runs one call at a time; pc names the point of the call it  *)
(* has reached.  The bitmap is the set of the positions of its ones.       *)
(* A definition marked "mutant" is a faulty variant that no action uses.   *)
(***************************************************************************)
EXTENDS Integers, FiniteSets

CONSTANTS Threads,     \* contexts in which CyU3PThreadIdentify() is not 0
          NonThreads,  \* contexts in which it is 0: they never wait
          Lines,       \* CY_U3P_BUFFER_HEAP_SIZE / FX3_CACHE_LINE_SZ
          WordBits,    \* bits of a word of usedStatus (32 in the code)
          Sizes,       \* the sizes in bytes that callers ask for
          MaxAllocs,   \* bound: counted allocations in one life of the heap
          MaxInits     \* bound: how often the heap is initialised

Callers == Threads \cup NonThreads

ASSUME ConstantsAssumption ==
  /\ Threads \cap NonThreads = {}
  /\ Lines \in Nat /\ Lines > 1
  /\ WordBits \in Nat /\ WordBits > 0
  /\ Sizes \subseteq Nat
  /\ MaxAllocs \in Nat /\ MaxInits \in Nat

LineSz   == 32    \* FX3_CACHE_LINE_SZ
HdrSz    == 20    \* sizeof (MemBlockInfo)
FooterSz == 4     \* the end signature

\* usedStatus has whole words, at least one bit per line.
StatusSize == (Lines + WordBits - 1) \div WordBits
Bits == StatusSize * WordBits
Line == 0 .. (Bits - 1)

VARIABLES
  inited,      \* startAddr and regionSize are set (and usedStatus is allocated)
  inits,       \* how often the heap was initialised (for the bound MaxInits)
  used,        \* the positions of the ones of usedStatus
  searchPos,   \* the word where the next search starts
  created,     \* the mutex exists
  holder,      \* the callers inside the mutex
  checks,      \* glBufMgrEnableChecks
  allocCnt,    \* glBufAllocCnt
  freeCnt,     \* glBufFreeCnt
  head,        \* glBufInUseList: the line of the newest block in use, 0 for none
  hdr,         \* the MemBlockInfo in memory at each line
  pc, blk,     \* per caller: the point of its call, and the block it is about
  cur,         \* per caller: block_p of CyU3PBufCorruptionCheck
  live         \* history: the blocks handed out and not yet taken back

heapVars == <<inited, used, searchPos, live>>
lockVars == <<created, holder>>
listVars == <<allocCnt, freeCnt, head, hdr>>
vars == <<inited, inits, used, searchPos, created, holder, checks,
          allocCnt, freeCnt, head, hdr, pc, blk, cur, live>>

-----------------------------------------------------------------------------
(* Blocks, sizes and the bitmap.                                           *)

Block == [start : Line, n : Nat, ptr : Nat, size : Nat]
Request(size) == [start |-> 0, n |-> 0, ptr |-> 0, size |-> size]
NoBlock == Request(0)

Extent(b) == b.start .. (b.start + b.n - 1)
Marks(b)  == b.start .. (b.start + b.n - 2)    \* the last line stays zero

RoundUp4(s) == 4 * ((s + 3) \div 4)

\* Bytes taken with the debug header and footer, and the lines for them.
BlkSize(size) == IF checks THEN RoundUp4(size) + HdrSz + FooterSz ELSE size
LinesForNoMin(bytes) == (bytes + LineSz - 1) \div LineSz            \* mutant
LinesFor(bytes) == IF bytes <= LineSz THEN 2 ELSE (bytes + LineSz - 1) \div LineSz

\* The block of n lines from line s; the pointer skips the header.
BlockAt(s, n, size) ==
  [start |-> s, n |-> n, size |-> size,
   ptr |-> s * LineSz + (IF checks THEN HdrSz ELSE 0)]

\* The ones CyU3PDmaBufferInit sets past the end of the heap.
TailBits ==
  IF Lines % WordBits = 0 THEN {}
  ELSE (Bits - (Lines % WordBits)) .. (Bits - 1)

\* The last positions of the runs of n+1 zeros within lo .. hi-1.
RunEndsShort(lo, hi, n) ==                                           \* mutant
  {e \in (lo + n - 1) .. (hi - 1) : ((e - n + 1) .. e) \cap used = {}}
RunEnds(lo, hi, n) == {e \in (lo + n) .. (hi - 1) : ((e - n) .. e) \cap used = {}}

\* The search goes from searchPos to the end of the bitmap, forgets the run
\* it was in, and goes on from the top up to searchPos.
Candidates(n) ==
  LET after == RunEnds(searchPos * WordBits, Bits, n)
  IN  IF after # {} THEN after ELSE RunEnds(0, searchPos * WordBits, n)

\* The word a search stopped in, where the next one starts.
WordOf(e) == e \div WordBits

\* The consecutive ones from position s.
OnesInWord(s) ==                                                     \* mutant
  {i \in s .. (Bits - 1) : i \div WordBits = s \div WordBits /\ \A j \in s .. i : j \in used}
Ones(s) == {i \in s .. (Bits - 1) : \A j \in s .. i : j \in used}

\* The line CyU3PDmaBufferFree computes from the pointer.
FreedLine(b) == (IF checks THEN b.ptr - HdrSz ELSE b.ptr) \div LineSz

-----------------------------------------------------------------------------
(* The header of a block: its fields, the line of its footer, and whether  *)
(* the start and the end signature are in place.                           *)

Header == [id : Nat, prev : Line, next : Line, last : Int,
           startSig : BOOLEAN, endSig : BOOLEAN]
NoHeader == [id |-> 0, prev |-> 0, next |-> 0, last |-> 0,
             startSig |-> FALSE, endSig |-> FALSE]

FooterLine(b) == b.start + (BlkSize(b.size) - FooterSz) \div LineSz

Init ==
  /\ inited = FALSE /\ inits = 0
  /\ used = {} /\ searchPos = 0 /\ live = {}
  /\ created = FALSE /\ holder = {}
  /\ checks = FALSE
  /\ allocCnt = 0 /\ freeCnt = 0 /\ head = 0
  /\ hdr = [l \in Line |-> NoHeader]
  /\ pc = [c \in Callers |-> "idle"]
  /\ blk = [c \in Callers |-> NoBlock]
  /\ cur = [c \in Callers |-> 0]

Goto(c, from, to) == pc[c] = from /\ pc' = [pc EXCEPT ![c] = to]

-----------------------------------------------------------------------------
(* Set-up: CyU3PBufEnableChecks and CyU3PDmaBufferInit.  A mutex or a      *)
(* bitmap that cannot be allocated leaves everything as it was, as does a  *)
(* call on an initialised heap.  No thread runs during Init (line 715).    *)

BufEnableChecksAnytime(enable) ==                                    \* mutant
  /\ checks' = enable
  /\ UNCHANGED <<heapVars, inits, lockVars, listVars, pc, blk, cur>>

BufEnableChecks(enable) ==
  /\ ~inited
  /\ checks' = enable
  /\ UNCHANGED <<heapVars, inits, lockVars, listVars, pc, blk, cur>>

DmaBufferInit ==
  /\ ~inited /\ inits < MaxInits
  /\ \A c \in Callers : pc[c] = "idle"
  /\ inited' = TRUE /\ inits' = inits + 1
  /\ created' = TRUE /\ holder' = {}
  /\ used' = TailBits /\ searchPos' = 0
  /\ UNCHANGED <<live, checks, listVars, pc, blk, cur>>

-----------------------------------------------------------------------------
(* The mutex.  A thread waits for it, up to 10 ms in alloc and free and    *)
(* for ever in de-init; other contexts do not wait.  A mutex that does not *)
(* exist, or is destroyed while it is waited for, gives an error.          *)

MutexGetShared(c, from, to) ==                                       \* mutant
  /\ Goto(c, from, to)
  /\ created
  /\ holder' = {c}
  /\ UNCHANGED <<heapVars, inits, created, checks, listVars, blk, cur>>

MutexGet(c, from, to) ==
  /\ Goto(c, from, to)
  /\ created /\ holder = {}
  /\ holder' = {c}
  /\ UNCHANGED <<heapVars, inits, created, checks, listVars, blk, cur>>

\* The caller returns 0, -1 or nothing at all: the call had no effect.
MutexRefused(c, from, waits) ==
  /\ Goto(c, from, "idle")
  /\ IF created THEN holder # {} /\ ~waits ELSE TRUE
  /\ blk' = [blk EXCEPT ![c] = NoBlock]
  /\ UNCHANGED <<heapVars, inits, lockVars, checks, listVars, cur>>

MutexPut(c, from, to) ==
  /\ Goto(c, from, to)
  /\ holder' = holder \ {c}
  /\ blk' = [blk EXCEPT ![c] = NoBlock]
  /\ UNCHANGED <<heapVars, inits, created, checks, listVars, cur>>

-----------------------------------------------------------------------------
(* CyU3PDmaBufferAlloc.                                                    *)

AllocCall(c, size) ==
  /\ allocCnt < MaxAllocs
  /\ Goto(c, "idle", "allocGet")
  /\ blk' = [blk EXCEPT ![c] = Request(size)]
  /\ UNCHANGED <<heapVars, inits, lockVars, checks, listVars, cur>>

\* The heap is not initialised, or no run of zeros is long enough.
AllocFailKeepsMutex(c) ==                                            \* mutant
  /\ Goto(c, "search", "idle")
  /\ inited => Candidates(LinesFor(BlkSize(blk[c].size))) = {}
  /\ UNCHANGED <<heapVars, inits, lockVars, checks, listVars, blk, cur>>

AllocFail(c) ==
  /\ Goto(c, "search", "put")
  /\ inited => Candidates(LinesFor(BlkSize(blk[c].size))) = {}
  /\ UNCHANGED <<heapVars, inits, lockVars, checks, listVars, blk, cur>>

\* The first run of n+1 zeros: its first line stays free, or is the last line
\* of the block before, and the block begins one line after it.
AllocFound(c) ==
  /\ Goto(c, "search", "mark")
  /\ inited
  /\ LET n == LinesFor(BlkSize(blk[c].size)) IN
     \E e \in Candidates(n) :
        /\ \A f \in Candidates(n) : e <= f
        /\ searchPos' = WordOf(e)
        /\ blk' = [blk EXCEPT ![c] = BlockAt(e - n + 1, n, blk[c].size)]
  /\ UNCHANGED <<inited, used, live, inits, lockVars, checks, listVars, cur>>

\* CyU3PDmaBufMgrSetStatus (start, size - 1, CyTrue).
AllocMark(c) ==
  /\ Goto(c, "mark", IF checks THEN "link" ELSE "put")
  /\ used' = used \cup Marks(blk[c])
  /\ live' = live \cup {blk[c]}
  /\ UNCHANGED <<inited, searchPos, inits, lockVars, checks, listVars, blk, cur>>

\* Fill the header and make the block the newest of the list.  A footer is in
\* place before it is written only if the memory still holds that of an
\* earlier block.
AllocLink(c) ==
  LET b == blk[c]
      s == b.start
      last == FooterLine(b)
      new == [id |-> allocCnt, prev |-> head, next |-> 0, last |-> last,
              startSig |-> TRUE,
              endSig |-> hdr[s].endSig /\ hdr[s].last = last]
  IN /\ Goto(c, "link", "footer")
     /\ hdr' = [l \in Line |->
                  IF l = s THEN new
                  ELSE IF l = head /\ head # 0 THEN [hdr[l] EXCEPT !.next = s]
                  ELSE hdr[l]]
     /\ head' = s
     /\ allocCnt' = allocCnt + 1
     /\ UNCHANGED <<heapVars, inits, lockVars, checks, freeCnt, blk, cur>>

AllocNoFooter(c) ==                                                  \* mutant
  /\ Goto(c, "footer", "put")
  /\ UNCHANGED <<heapVars, inits, lockVars, checks, listVars, blk, cur>>

AllocFooter(c) ==
  /\ Goto(c, "footer", "put")
  /\ hdr' = [hdr EXCEPT ![blk[c].start].endSig = TRUE]
  /\ UNCHANGED <<heapVars, inits, lockVars, checks, allocCnt, freeCnt, head, blk, cur>>

-----------------------------------------------------------------------------
(* CyU3PDmaBufferFree.  Callers free what they were given, once; a block   *)
(* whose free was refused is still theirs.  A pointer below the heap is    *)
(* refused at once.                                                        *)

Busy(b) == \E c \in Callers : pc[c] # "idle" /\ blk[c] = b

FreeCall(c, b) ==
  /\ Goto(c, "idle", "freeGet")
  /\ ~Busy(b)
  /\ blk' = [blk EXCEPT ![c] = b]
  /\ UNCHANGED <<heapVars, inits, lockVars, checks, listVars, cur>>

\* The headers and the head of the list without the block of line s.
Unlinked(s) ==
  [l \in Line |-> IF l = 0 THEN hdr[l]
     ELSE [hdr[l] EXCEPT !.prev = IF l = hdr[s].next THEN hdr[s].prev ELSE @,
                         !.next = IF l = hdr[s].prev THEN hdr[s].next ELSE @]]

SameHead(s) == head                                                  \* mutant
HeadWithout(s) == IF head = s THEN hdr[s].prev ELSE head

\* Count the free and drop the block from the list.  One step is enough, though
\* CyU3PBufCorruptionCheck reads the list without the mutex: it reads the head and
\* the prev_blk of the blocks, and an unlink changes just one of these, the head
\* if no block is newer and the prev_blk of the next newer block otherwise.
FreeUnlink(c) ==
  /\ Goto(c, "unlink", "clear")
  /\ IF checks
     THEN LET s == FreedLine(blk[c]) IN
          /\ freeCnt' = freeCnt + 1
          /\ hdr' = Unlinked(s)
          /\ head' = HeadWithout(s)
     ELSE UNCHANGED <<freeCnt, hdr, head>>
  /\ UNCHANGED <<heapVars, inits, lockVars, checks, allocCnt, blk, cur>>

FreeClearKeepsPos(c) ==                                              \* mutant
  /\ Goto(c, "clear", "put")
  /\ IF inited
     THEN /\ used' = used \ Ones(FreedLine(blk[c]))
          /\ live' = live \ {blk[c]}
     ELSE UNCHANGED <<used, live>>
  /\ UNCHANGED <<inited, searchPos, inits, lockVars, checks, listVars, blk, cur>>

\* Clear the ones of the block, if the heap is still there, and let the next
\* search start at the top.
FreeClear(c) ==
  /\ Goto(c, "clear", "put")
  /\ IF inited
     THEN /\ used' = used \ Ones(FreedLine(blk[c]))
          /\ searchPos' = 0
          /\ live' = live \ {blk[c]}
     ELSE UNCHANGED <<used, searchPos, live>>
  /\ UNCHANGED <<inited, inits, lockVars, checks, listVars, blk, cur>>

-----------------------------------------------------------------------------
(* CyU3PDmaBufferDeInit: the blocks are gone with the heap, and a caller   *)
(* that waited for the mutex may get it before it is destroyed.            *)

DeInitCall(c) ==
  /\ Goto(c, "idle", "deinitGet")
  /\ UNCHANGED <<heapVars, inits, lockVars, checks, listVars, blk, cur>>

DeInitKeepsList(c) ==                                                \* mutant
  /\ Goto(c, "deinit", "deinitPut")
  /\ inited' = FALSE /\ used' = {} /\ live' = {}
  /\ allocCnt' = 0 /\ freeCnt' = 0
  /\ UNCHANGED <<head, searchPos, inits, lockVars, checks, hdr, blk, cur>>

DeInitBody(c) ==
  /\ Goto(c, "deinit", "deinitPut")
  /\ inited' = FALSE /\ used' = {} /\ live' = {}
  /\ allocCnt' = 0 /\ freeCnt' = 0 /\ head' = 0
  /\ UNCHANGED <<searchPos, inits, lockVars, checks, hdr, blk, cur>>

MutexDestroy(c) ==
  /\ Goto(c, "destroy", "idle")
  /\ created' = FALSE /\ holder' = {}
  /\ UNCHANGED <<heapVars, inits, checks, listVars, blk, cur>>

-----------------------------------------------------------------------------
(* CyU3PBufCorruptionCheck: walks the list without the mutex.              *)

CheckCall(c) ==
  /\ Goto(c, "idle", "check")
  /\ cur' = [cur EXCEPT ![c] = head]
  /\ UNCHANGED <<heapVars, inits, lockVars, checks, listVars, blk>>

\* A pointer out of the heap is a failure as well.
CheckStep(c) ==
  /\ pc[c] = "check"
  /\ IF cur[c] = 0
     THEN pc' = [pc EXCEPT ![c] = "idle"] /\ UNCHANGED cur
     ELSE IF cur[c] < Lines /\ hdr[cur[c]].startSig /\ hdr[cur[c]].endSig
     THEN cur' = [cur EXCEPT ![c] = hdr[cur[c]].prev] /\ UNCHANGED pc
     ELSE pc' = [pc EXCEPT ![c] = "corrupt"] /\ UNCHANGED cur
  /\ UNCHANGED <<heapVars, inits, lockVars, checks, listVars, blk>>

\* Report CY_U3P_ERROR_FAILURE.
CheckReport(c) ==
  /\ Goto(c, "corrupt", "idle")
  /\ cur' = [cur EXCEPT ![c] = 0]
  /\ UNCHANGED <<heapVars, inits, lockVars, checks, listVars, blk>>

-----------------------------------------------------------------------------
(* External: the owner fills its payload, up to the footer.  What earlier  *)
(* blocks left in those lines is gone.                                     *)

PayloadLines(b) == ((b.ptr \div LineSz) + (IF checks THEN 1 ELSE 0))
                     .. ((b.ptr + b.size - 1) \div LineSz)

OwnerWrites(b) ==
  /\ ~Busy(b)
  /\ LET lost(l) == l \in PayloadLines(b)
         new == [l \in Line |->
                   [hdr[l] EXCEPT
                      !.startSig = @ /\ ~lost(l),
                      !.endSig = @ /\ ~(l # b.start /\ lost(hdr[l].last))]]
     IN new # hdr /\ hdr' = new
  /\ UNCHANGED <<heapVars, inits, lockVars, checks, allocCnt, freeCnt, head, pc, blk, cur>>

-----------------------------------------------------------------------------
\* What a caller does on its own to get to the end of its call.
Advance(c) ==
  \/ MutexGet(c, "allocGet", "search")
  \/ MutexRefused(c, "allocGet", FALSE)
  \/ AllocFail(c) \/ AllocFound(c) \/ AllocMark(c) \/ AllocLink(c) \/ AllocFooter(c)
  \/ MutexPut(c, "put", "idle")
  \/ MutexGet(c, "freeGet", "unlink")
  \/ MutexRefused(c, "freeGet", FALSE)
  \/ FreeUnlink(c) \/ FreeClear(c)
  \/ MutexRefused(c, "deinitGet", c \in Threads)
  \/ DeInitBody(c)
  \/ MutexPut(c, "deinitPut", "destroy")
  \/ MutexDestroy(c)
  \/ CheckStep(c) \/ CheckReport(c)

Call(c) ==
  \/ \E size \in Sizes : AllocCall(c, size)
  \/ \E b \in live : FreeCall(c, b)
  \/ DeInitCall(c)
  \/ CheckCall(c)

Next ==
  \/ \E enable \in BOOLEAN : BufEnableChecks(enable)
  \/ DmaBufferInit
  \/ \E c \in Callers : Call(c) \/ Advance(c) \/ MutexGet(c, "deinitGet", "deinit")
  \/ \E b \in live : OwnerWrites(b)

\* A call goes on once it has begun.  The suspended threads of a mutex are
\* resumed in order, so that a thread in de-init gets it in the end.
Fairness ==
  \A c \in Callers : /\ WF_vars(Advance(c))
                     /\ SF_vars(MutexGet(c, "deinitGet", "deinit"))

Spec == Init /\ [][Next]_vars
FairSpec == Spec /\ Fairness

-----------------------------------------------------------------------------
(* Properties.                                                             *)

PCs == {"idle", "allocGet", "search", "mark", "link", "footer", "put",
        "freeGet", "unlink", "clear", "deinitGet", "deinit", "deinitPut",
        "destroy", "check", "corrupt"}

\* The points of a call at which the caller is inside the mutex.
Inside == {"search", "mark", "link", "footer", "put", "unlink", "clear",
           "deinit", "deinitPut"}

\* The variables have their types (cyfxtx.c:127-157 and the locals).
TypeOK ==
  /\ inited \in BOOLEAN /\ inits \in Nat
  /\ used \subseteq Line /\ searchPos \in 0 .. (StatusSize - 1)
  /\ created \in BOOLEAN /\ holder \subseteq Callers
  /\ checks \in BOOLEAN
  /\ allocCnt \in Nat /\ freeCnt \in Nat /\ head \in Line
  /\ hdr \in [Line -> Header]
  /\ pc \in [Callers -> PCs]
  /\ blk \in [Callers -> Block]
  /\ cur \in [Callers -> Line]
  /\ live \subseteq Block

\* While the heap is initialised, only the caller that owns the mutex is
\* between CyU3PMutexGet and CyU3PMutexPut.
MutualExclusion ==
  inited => \A c \in Callers : pc[c] \in Inside => holder = {c}

\* Blocks in use never share a cache line (the heap of cyfxtx.c:685-690 exists
\* for that): the last line of a block, whose bit is zero, is never given away.
BlocksApart ==
  \A a, b \in live : a # b => Extent(a) \cap Extent(b) = {}

\* A block lies inside the heap region, never in line 0, and holds the payload
\* and, with checks enabled, the header and the footer around it.
BlocksFit ==
  \A b \in live :
    /\ 0 < b.start /\ b.start + b.n <= Lines
    /\ b.start * LineSz + (IF checks THEN HdrSz ELSE 0) = b.ptr
    /\ b.ptr + b.size + (IF checks THEN FooterSz ELSE 0) <= (b.start + b.n) * LineSz

\* The bitmap is exactly what the blocks in use account for: no line leaks when
\* calls fail or time out, and clearing a block clears nothing of its neighbours.
BitmapExact ==
  inited => used = TailBits \cup UNION {Marks(b) : b \in live}

\* Once every block is back and no call is inside, any request that fits the
\* heap is found: searchPos was reset and no bit is left behind.
WholeHeapServes ==
  (inited /\ live = {} /\ holder = {}) =>
    \A size \in Sizes :
      LinesFor(BlkSize(size)) < Lines => Candidates(LinesFor(BlkSize(size))) # {}

\* Blocks in use that are in the debug list: all but the one the caller inside
\* the mutex has not linked yet, or has unlinked.
Listed == {b \in live : \A c \in Callers : blk[c] = b => pc[c] \notin {"link", "clear"}}

\* Following prev_blk from glBufInUseList meets exactly the blocks in use, the
\* newest first, and next_blk is the way back (cyfxtx.c:954-964 and 1031-1039).
\* In the first life of the heap the counters of CyU3PBufGetCounts tell how many.
IdOf(b) == hdr[b.start].id
Older(b) == {a \in Listed : IdOf(a) < IdOf(b)}
Newest(B, s) == IF B = {} THEN s = 0
                ELSE \E b \in B : b.start = s /\ \A a \in B : IdOf(a) <= IdOf(b)
ListExact ==
  (inited /\ checks) =>
    /\ Newest(Listed, head)
    /\ \A b \in Listed :
         /\ Newest(Older(b), hdr[b.start].prev)
         /\ hdr[b.start].prev # 0 => hdr[hdr[b.start].prev].next = b.start
         /\ b.start = head => hdr[b.start].next = 0
         /\ \A a \in Listed : a # b => IdOf(a) # IdOf(b)
    /\ inits = 1 => allocCnt - freeCnt = Cardinality(Listed)

\* Neither CyU3PDmaBufferFree nor a CyU3PBufCorruptionCheck that meets no other
\* call reports the corruption of a block whose owner kept to its payload: the
\* signatures of every block in the list are in place, but for the end signature
\* of the one being allocated (cyfxtx.c:1022 and 1167).
NoFalseReport ==
  (inited /\ checks) =>
    \A b \in Listed :
      /\ hdr[b.start].startSig
      /\ \/ hdr[b.start].endSig
         \/ \E c \in Callers : pc[c] = "footer" /\ blk[c] = b

\* The size of the header around a block never changes under it: the checks are
\* not switched while the heap exists, so that a free computes the line the
\* block was given at, with or without the header (cyfxtx.c:676 and 1020).
FreeFindsBlock ==
  \A c \in Callers : (inited /\ pc[c] \in {"freeGet", "unlink", "clear"}) =>
    FreedLine(blk[c]) = blk[c].start

\* Every call returns, whatever the others do.
CallsReturn == \A c \in Callers : pc[c] # "idle" ~> pc[c] = "idle"

\* The heap as its callers see it.
Pool == INSTANCE BufferPool WITH open <- inited, blocks <- live
PoolImplemented == Pool!PoolSpec
=============================================================================

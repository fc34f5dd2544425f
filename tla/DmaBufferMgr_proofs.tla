------------------------ MODULE DmaBufferMgr_proofs -------------------------
(***************************************************************************)
(* Proofs about DmaBufferMgr, for any number of callers, any sizes and any *)
(* heap.  First the inductive invariant IInv of the mutex and the bitmap,  *)
(* the safety invariants that follow from it, and the refinement of        *)
(* BufferPool; then DebugInv, which adds the debug list, the signatures    *)
(* and the search; then the loops of DmaBufLoops and FxMem, which compute  *)
(* what the actions of DmaBufferMgr say.                                   *)
(***************************************************************************)
EXTENDS DmaBufLoops, FoldFacts

-----------------------------------------------------------------------------
(* The bitmap has whole words, so every division by WordBits below is      *)
(* between a position and a word number.                                   *)

LEMMA BitsType == StatusSize \in Nat /\ StatusSize > 0 /\ Bits \in Nat /\ Bits > 0 /\ 0 \in Line
<1>1. Lines \in Nat /\ Lines > 1 /\ WordBits \in Nat /\ WordBits > 0
  BY ConstantsAssumption
<1>2. StatusSize \in Nat /\ StatusSize > 0
  BY <1>1 DEF StatusSize
<1>3. Bits \in Nat /\ Bits > 0
  BY <1>1, <1>2 DEF Bits
<1> QED  BY <1>2, <1>3 DEF Line

LEMMA WordOfBit ==
  ASSUME NEW e \in Line
  PROVE  e \div WordBits \in 0 .. (StatusSize - 1)
<1>1. WordBits \in Nat /\ WordBits > 0 /\ StatusSize \in Nat /\ StatusSize > 0
  BY ConstantsAssumption, BitsType
<1>2. e \in Nat /\ e < StatusSize * WordBits
  BY BitsType DEF Line, Bits
<1>3. e \div WordBits \in Nat /\ (e \div WordBits) * WordBits <= e
  BY <1>1, <1>2
<1>4. (e \div WordBits) * WordBits < StatusSize * WordBits
  BY <1>1, <1>2, <1>3
<1> QED  BY <1>1, <1>3, <1>4

LEMMA WholeWords ==
  ASSUME Lines % WordBits = 0
  PROVE  Bits = Lines /\ TailBits = {}
<1>1. Lines \in Nat /\ Lines > 1 /\ WordBits \in Nat /\ WordBits > 0
  BY ConstantsAssumption
<1> DEFINE k == Lines \div WordBits
<1>2. k \in Nat /\ Lines = WordBits * k
  BY <1>1
<1>3. (WordBits * k + WordBits - 1) \div WordBits = k
  BY <1>1, <1>2
<1> QED  BY <1>1, <1>2, <1>3 DEF Bits, StatusSize, TailBits

-----------------------------------------------------------------------------
(* The inductive invariant.                                                *)

Freeing == {"freeGet", "unlink", "clear"}

\* The lines of a block under construction and the free line before it.
Run(b) == (b.start - 1) .. (b.start + b.n - 1)

InUse(b) ==
  /\ b.start >= 1 /\ b.n >= 2 /\ b.start + b.n <= Bits
  /\ b.ptr = b.start * LineSz + (IF checks THEN HdrSz ELSE 0)
  /\ b.ptr + b.size + (IF checks THEN FooterSz ELSE 0) <= (b.start + b.n) * LineSz
  /\ Extent(b) \cap TailBits = {}
  /\ b.size \in Sizes

\* A pointer that was handed out, whether checks were enabled then or not.
Shaped(b) == b.start >= 1 /\ b.ptr \in {b.start * LineSz, b.start * LineSz + HdrSz}

MutexInv ==
  /\ MutualExclusion
  /\ \A c \in Callers : pc[c] \in {"deinitPut", "destroy"} => ~inited

HeapInv ==
  /\ ~inited => live = {}
  /\ \A b \in live : InUse(b)
  /\ BlocksApart
  /\ BitmapExact

CallInv ==
  /\ \A c \in Callers : pc[c] \in {"allocGet", "search"} => blk[c].size \in Sizes
  /\ \A c \in Callers : pc[c] = "mark" =>
       inited /\ InUse(blk[c]) /\ Run(blk[c]) \cap used = {}
  /\ \A c \in Callers : pc[c] \in Freeing =>
       Shaped(blk[c]) /\ (inited => blk[c] \in live)
  /\ \A c, d \in Callers : (c # d /\ pc[c] \in Freeing /\ pc[d] \in Freeing) =>
       blk[c] # blk[d]

IInv == TypeOK /\ MutexInv /\ HeapInv /\ CallInv

-----------------------------------------------------------------------------
(* Lemmas about sizes, runs and the bitmap.                                *)

\* The lines of a request: at least two, and enough for its bytes.
LEMMA EnoughLines ==
  ASSUME NEW bytes \in Nat
  PROVE  /\ LinesFor(bytes) \in Nat
         /\ LinesFor(bytes) >= 2
         /\ bytes <= LinesFor(bytes) * LineSz
  BY DEF LinesFor, LineSz

\* A run of zeros that a search can end with lies in the bitmap.
LEMMA CandidateRun ==
  ASSUME TypeOK, NEW n \in Nat, NEW e \in Candidates(n)
  PROVE  e \in Line /\ e >= n /\ ((e - n) .. e) \cap used = {}
<1>1. WordBits \in Nat /\ searchPos \in Nat /\ searchPos < StatusSize /\ StatusSize \in Nat
  BY ConstantsAssumption, BitsType DEF TypeOK
<1>2. searchPos * WordBits \in Nat /\ searchPos * WordBits <= StatusSize * WordBits
  BY <1>1
<1>3. e \in RunEnds(searchPos * WordBits, Bits, n) \/ e \in RunEnds(0, searchPos * WordBits, n)
  BY DEF Candidates
<1> QED  BY <1>1, <1>2, <1>3, BitsType DEF RunEnds, Line, Bits

\* A block cut out of a run of zeros shares no line with a block that has its
\* ones in place, although the last line of each has a zero.
LEMMA FreshRunApart ==
  ASSUME NEW a \in Block, NEW b \in Block,
         a.start >= 1, a.n >= 2, b.start >= 1, b.n >= 2,
         Marks(a) \cap Run(b) = {}
  PROVE  Extent(a) \cap Extent(b) = {}
<1>1. a.start \in Int /\ a.n \in Int /\ b.start \in Int /\ b.n \in Int
  BY BitsType DEF Block, Line
<1>2. SUFFICES ASSUME NEW i \in Int, a.start <= i, i <= a.start + a.n - 1,
                      b.start <= i, i <= b.start + b.n - 1
               PROVE  FALSE
  BY <1>1 DEF Extent
<1>3. CASE i <= a.start + a.n - 2
  <2>1. i \in Marks(a) /\ i \in Run(b)
    BY <1>1, <1>2, <1>3 DEF Marks, Run
  <2> QED  BY <2>1
<1>4. CASE i = a.start + a.n - 1
  <2>1. i - 1 \in Marks(a) /\ i - 1 \in Run(b)
    BY <1>1, <1>2, <1>4 DEF Marks, Run
  <2> QED  BY <2>1
<1> QED  BY <1>1, <1>2, <1>3, <1>4

\* The last line of a block in use has a zero.
LEMMA EndIsZero ==
  ASSUME TypeOK, HeapInv, inited, NEW b \in live
  PROVE  (b.start + b.n - 1) \notin used
<1>1. b \in Block /\ b.start \in Int /\ b.n \in Int /\ InUse(b)
  BY BitsType DEF TypeOK, Block, Line, HeapInv
<1> DEFINE z == b.start + b.n - 1
<1>2. z \in Extent(b) /\ z \notin Marks(b)
  BY <1>1 DEF Extent, Marks, InUse
<1>3. z \notin TailBits
  BY <1>1, <1>2 DEF InUse
<1>4. ASSUME NEW a \in live, z \in Marks(a)  PROVE FALSE
  <2>1. a \in Block /\ a.start \in Int /\ a.n \in Int
    BY BitsType DEF TypeOK, Block, Line
  <2>2. z \in Extent(a)
    BY <1>4, <2>1 DEF Extent, Marks
  <2>3. a = b
    BY <1>2, <2>2 DEF HeapInv, BlocksApart
  <2> QED  BY <1>2, <1>4, <2>3
<1> HIDE DEF z
<1>5. z \notin used
  BY <1>3, <1>4 DEF HeapInv, BitmapExact
<1> QED  BY <1>5 DEF z

\* The ones counted by a free are the ones of the block.
LEMMA OnesOfBlock ==
  ASSUME TypeOK, HeapInv, inited, NEW b \in live
  PROVE  Ones(b.start) = Marks(b)
<1>1. b.start \in Int /\ b.n \in Int /\ b.start >= 1 /\ b.n >= 2 /\ b.start + b.n <= Bits
  BY BitsType DEF TypeOK, Block, Line, HeapInv, InUse
<1>2. Marks(b) \subseteq used
  BY DEF HeapInv, BitmapExact
<1>3. (b.start + b.n - 1) \notin used
  BY EndIsZero
<1>4. ASSUME NEW i \in Marks(b)  PROVE i \in Ones(b.start)
  <2>1. i \in Int /\ b.start <= i /\ i <= b.start + b.n - 2
    BY <1>1, <1>4 DEF Marks
  <2>2. \A j \in b.start .. i : j \in Marks(b)
    BY <1>1, <2>1 DEF Marks
  <2> QED  BY <1>1, <1>2, <2>1, <2>2, BitsType DEF Ones
<1>5. ASSUME NEW i \in Ones(b.start)  PROVE i \in Marks(b)
  <2>1. i \in b.start .. (Bits - 1) /\ \A j \in b.start .. i : j \in used
    BY <1>5 DEF Ones
  <2>2. ~(b.start + b.n - 1 \in b.start .. i)
    BY <1>3, <2>1
  <2> QED  BY <1>1, <2>1, <2>2, BitsType DEF Marks
<1> QED  BY <1>4, <1>5

\* The line a free computes from a pointer that was handed out.
LEMMA FreedLineOfShaped ==
  ASSUME TypeOK, NEW b \in Block, Shaped(b)
  PROVE  FreedLine(b) \in Line
  BY BitsType DEF TypeOK, Block, Shaped, FreedLine, Line, LineSz, HdrSz

LEMMA FreedLineOfBlock ==
  ASSUME TypeOK, NEW b \in Block, InUse(b)
  PROVE  FreedLine(b) = b.start
  BY BitsType DEF TypeOK, Block, InUse, FreedLine, Line, LineSz, HdrSz

-----------------------------------------------------------------------------
(* Every step preserves the invariant.                                     *)

LEMMA NoBlockTyped == NoBlock \in Block
  BY BitsType DEF NoBlock, Request, Block

LEMMA TailInLine == TailBits \subseteq Line
<1>1. Lines \in Nat /\ WordBits \in Nat /\ WordBits > 0 /\ StatusSize \in Nat /\ StatusSize > 0
  BY ConstantsAssumption, BitsType
<1>2. Lines % WordBits \in 0 .. (WordBits - 1)
  BY <1>1
<1>3. StatusSize * WordBits >= WordBits
  BY <1>1
<1> QED  BY <1>1, <1>2, <1>3, BitsType DEF TailBits, Line, Bits

LEMMA Relinked ==
  ASSUME NEW h \in Header, NEW p \in Line, NEW n \in Line, NEW l, NEW x, NEW y
  PROVE  [h EXCEPT !.prev = IF l = x THEN p ELSE @,
                   !.next = IF l = y THEN n ELSE @] \in Header
  BY DEF Header

LEMMA BlkSizeType ==
  ASSUME TypeOK, NEW c \in Callers
  PROVE  /\ BlkSize(blk[c].size) \in Nat
         /\ blk[c].size + (IF checks THEN HdrSz + FooterSz ELSE 0) <= BlkSize(blk[c].size)
  BY DEF TypeOK, Block, BlkSize, RoundUp4, HdrSz, FooterSz

\* Every action keeps the types.
LEMMA TypeStep ==
  ASSUME IInv, [Next]_vars
  PROVE  TypeOK'
<1>1. ASSUME NEW enable \in BOOLEAN, BufEnableChecks(enable)
      PROVE  TypeOK'
  BY <1>1, BitsType, NoBlockTyped DEF IInv, TypeOK, BufEnableChecks, Goto, vars, heapVars, lockVars, listVars, PCs
<1>2. CASE DmaBufferInit
  <2>1. TailBits \subseteq Line
    BY TailInLine
  <2>2. 0 \in 0 .. (StatusSize - 1)
    BY BitsType
  <2> QED  BY <1>2, <2>1, <2>2 DEF IInv, TypeOK, DmaBufferInit, heapVars, lockVars, listVars
<1>3. ASSUME NEW c \in Callers, NEW size \in Sizes, AllocCall(c, size)
      PROVE  TypeOK'
  <2>1. Request(size) \in Block
    BY BitsType, ConstantsAssumption DEF Request, Block
  <2> QED  BY <1>3, <2>1 DEF IInv, TypeOK, AllocCall, Goto, vars, heapVars, lockVars, listVars, PCs
<1>4. ASSUME NEW c \in Callers, NEW b \in live, FreeCall(c, b)
      PROVE  TypeOK'
  BY <1>4, BitsType, NoBlockTyped DEF IInv, TypeOK, FreeCall, Goto, vars, heapVars, lockVars, listVars, PCs
<1>5. ASSUME NEW c \in Callers, DeInitCall(c)
      PROVE  TypeOK'
  BY <1>5, BitsType, NoBlockTyped DEF IInv, TypeOK, DeInitCall, Goto, vars, heapVars, lockVars, listVars, PCs
<1>6. ASSUME NEW c \in Callers, CheckCall(c)
      PROVE  TypeOK'
  BY <1>6, BitsType, NoBlockTyped DEF IInv, TypeOK, CheckCall, Goto, vars, heapVars, lockVars, listVars, PCs
<1>7. ASSUME NEW c \in Callers, MutexGet(c, "allocGet", "search")
      PROVE  TypeOK'
  BY <1>7, BitsType, NoBlockTyped DEF IInv, TypeOK, MutexGet, Goto, vars, heapVars, lockVars, listVars, PCs
<1>8. ASSUME NEW c \in Callers, MutexRefused(c, "allocGet", FALSE)
      PROVE  TypeOK'
  BY <1>8, BitsType, NoBlockTyped DEF IInv, TypeOK, MutexRefused, Goto, vars, heapVars, lockVars, listVars, PCs
<1>9. ASSUME NEW c \in Callers, AllocFail(c)
      PROVE  TypeOK'
  BY <1>9, BitsType, NoBlockTyped DEF IInv, TypeOK, AllocFail, Goto, vars, heapVars, lockVars, listVars, PCs
<1>10. ASSUME NEW c \in Callers, AllocFound(c)
      PROVE  TypeOK'
  <2> DEFINE n == LinesFor(BlkSize(blk[c].size))
  <2>1. n \in Nat /\ n >= 2
    BY <1>10, BlkSizeType, EnoughLines DEF IInv
  <2> HIDE DEF n
  <2>2. PICK e \in Candidates(n) :
          /\ searchPos' = WordOf(e)
          /\ blk' = [blk EXCEPT ![c] = BlockAt(e - n + 1, n, blk[c].size)]
    BY <1>10 DEF AllocFound, n
  <2>3. e \in Line /\ e >= n
    BY <2>1, CandidateRun DEF IInv
  <2>4. searchPos' \in 0 .. (StatusSize - 1)
    BY <2>2, <2>3, WordOfBit DEF WordOf
  <2>5. e - n + 1 \in Line
    BY <2>1, <2>3, BitsType DEF Line
  <2>6. (e - n + 1) * LineSz + (IF checks THEN HdrSz ELSE 0) \in Nat
    BY <2>5, BitsType DEF Line, LineSz, HdrSz
  <2>7. blk' \in [Callers -> Block]
    BY <2>1, <2>2, <2>5, <2>6 DEF IInv, TypeOK, Block, BlockAt
  <2> QED  BY <1>10, <2>4, <2>7 DEF IInv, TypeOK, AllocFound, Goto, vars, heapVars, lockVars, listVars, PCs
<1>11. ASSUME NEW c \in Callers, AllocMark(c)
      PROVE  TypeOK'
  <2>1. InUse(blk[c]) /\ blk[c] \in Block
    BY <1>11 DEF IInv, TypeOK, CallInv, AllocMark, Goto
  <2>2. Marks(blk[c]) \subseteq Line
    BY <2>1, BitsType DEF InUse, Marks, Line, Block
  <2> QED  BY <1>11, <2>1, <2>2 DEF IInv, TypeOK, AllocMark, Goto, vars, heapVars, lockVars, listVars, PCs
<1>12. ASSUME NEW c \in Callers, AllocLink(c)
      PROVE  TypeOK'
  <2>1. blk[c] \in Block /\ blk[c].start \in Line /\ blk[c].size \in Nat
    BY DEF IInv, TypeOK, Block
  <2>2. FooterLine(blk[c]) \in Int
    BY <2>1, BlkSizeType, BitsType DEF FooterLine, LineSz, FooterSz, Line, IInv
  <2>3. hdr' \in [Line -> Header]
    BY <1>12, <2>1, <2>2, BitsType DEF IInv, TypeOK, AllocLink, Header
  <2>4. head' \in Line /\ allocCnt' \in Nat
    BY <1>12, <2>1 DEF IInv, TypeOK, AllocLink
  <2> QED  BY <1>12, <2>3, <2>4 DEF IInv, TypeOK, AllocLink, Goto, vars, heapVars, lockVars, listVars, PCs
<1>13. ASSUME NEW c \in Callers, AllocFooter(c)
      PROVE  TypeOK'
  <2>1. hdr' \in [Line -> Header]
    BY <1>13, BitsType DEF IInv, TypeOK, AllocFooter, Header
  <2> QED  BY <1>13, <2>1 DEF IInv, TypeOK, AllocFooter, Goto, vars, heapVars, lockVars, listVars, PCs
<1>14. ASSUME NEW c \in Callers, MutexPut(c, "put", "idle")
      PROVE  TypeOK'
  BY <1>14, BitsType, NoBlockTyped DEF IInv, TypeOK, MutexPut, Goto, vars, heapVars, lockVars, listVars, PCs
<1>15. ASSUME NEW c \in Callers, MutexGet(c, "freeGet", "unlink")
      PROVE  TypeOK'
  BY <1>15, BitsType, NoBlockTyped DEF IInv, TypeOK, MutexGet, Goto, vars, heapVars, lockVars, listVars, PCs
<1>16. ASSUME NEW c \in Callers, MutexRefused(c, "freeGet", FALSE)
      PROVE  TypeOK'
  BY <1>16, BitsType, NoBlockTyped DEF IInv, TypeOK, MutexRefused, Goto, vars, heapVars, lockVars, listVars, PCs
<1>17. ASSUME NEW c \in Callers, FreeUnlink(c)
      PROVE  TypeOK'
  <2>1. FreedLine(blk[c]) \in Line
    <3>1. blk[c] \in Block /\ Shaped(blk[c])
      BY <1>17 DEF IInv, TypeOK, CallInv, FreeUnlink, Goto, Freeing
    <3> QED  BY <3>1, FreedLineOfShaped DEF IInv
  <2> DEFINE s == FreedLine(blk[c])
  <2>2. hdr' \in [Line -> Header]
    <3>1. CASE checks
      <4>1. hdr[s].prev \in Line /\ hdr[s].next \in Line
        BY <2>1 DEF IInv, TypeOK, Header
      <4>2. ASSUME NEW l \in Line
            PROVE  [hdr[l] EXCEPT !.prev = IF l = hdr[s].next THEN hdr[s].prev ELSE @,
                                  !.next = IF l = hdr[s].prev THEN hdr[s].next ELSE @] \in Header
        <5> HIDE DEF s
        <5>1. hdr[l] \in Header
          BY DEF IInv, TypeOK
        <5> QED  BY <4>1, <5>1, Relinked, ZenonT(60)
      <4>3. hdr' = [l \in Line |->
                IF l = 0 THEN hdr[l]
                ELSE [hdr[l] EXCEPT
                        !.prev = IF l = hdr[s].next THEN hdr[s].prev ELSE @,
                        !.next = IF l = hdr[s].prev THEN hdr[s].next ELSE @]]
        BY <1>17, <3>1 DEF FreeUnlink, Unlinked
      <4>4. \A l \in Line : hdr[l] \in Header
        BY DEF IInv, TypeOK
      <4> HIDE DEF s
      <4> QED  BY <4>2, <4>3, <4>4
    <3>2. CASE ~checks
      BY <1>17, <3>2 DEF IInv, TypeOK, FreeUnlink
    <3> QED  BY <3>1, <3>2
  <2>3. head' \in Line /\ freeCnt' \in Nat
    <3>1. hdr[s].prev \in Line
      BY <2>1 DEF IInv, TypeOK, Header
    <3>2. head' \in {head, hdr[s].prev} /\ freeCnt' \in {freeCnt, freeCnt + 1}
      BY <1>17 DEF FreeUnlink, HeadWithout
    <3> QED  BY <3>1, <3>2 DEF IInv, TypeOK
  <2> QED  BY <1>17, <2>2, <2>3 DEF IInv, TypeOK, FreeUnlink, Goto, vars, heapVars, lockVars, listVars, PCs
<1>18. ASSUME NEW c \in Callers, FreeClear(c)
      PROVE  TypeOK'
  BY <1>18, BitsType, NoBlockTyped DEF IInv, TypeOK, FreeClear, Goto, vars, heapVars, lockVars, listVars, PCs
<1>19. ASSUME NEW c \in Callers, MutexGet(c, "deinitGet", "deinit")
      PROVE  TypeOK'
  BY <1>19, BitsType, NoBlockTyped DEF IInv, TypeOK, MutexGet, Goto, vars, heapVars, lockVars, listVars, PCs
<1>20. ASSUME NEW c \in Callers, MutexRefused(c, "deinitGet", c \in Threads)
      PROVE  TypeOK'
  BY <1>20, BitsType, NoBlockTyped DEF IInv, TypeOK, MutexRefused, Goto, vars, heapVars, lockVars, listVars, PCs
<1>21. ASSUME NEW c \in Callers, DeInitBody(c)
      PROVE  TypeOK'
  BY <1>21, BitsType, NoBlockTyped DEF IInv, TypeOK, DeInitBody, Goto, vars, heapVars, lockVars, listVars, PCs
<1>22. ASSUME NEW c \in Callers, MutexPut(c, "deinitPut", "destroy")
      PROVE  TypeOK'
  BY <1>22, BitsType, NoBlockTyped DEF IInv, TypeOK, MutexPut, Goto, vars, heapVars, lockVars, listVars, PCs
<1>23. ASSUME NEW c \in Callers, MutexDestroy(c)
      PROVE  TypeOK'
  BY <1>23, BitsType, NoBlockTyped DEF IInv, TypeOK, MutexDestroy, Goto, vars, heapVars, lockVars, listVars, PCs
<1>24. ASSUME NEW c \in Callers, CheckStep(c)
      PROVE  TypeOK'
  BY <1>24 DEF IInv, TypeOK, CheckStep, Goto, vars, heapVars, lockVars, listVars, PCs, Header
<1>25. ASSUME NEW c \in Callers, CheckReport(c)
      PROVE  TypeOK'
  BY <1>25, BitsType, NoBlockTyped DEF IInv, TypeOK, CheckReport, Goto, vars, heapVars, lockVars, listVars, PCs
<1>26. ASSUME NEW b \in live, OwnerWrites(b)
      PROVE  TypeOK'
  <2>1. hdr' \in [Line -> Header]
    BY <1>26 DEF IInv, TypeOK, OwnerWrites, Header
  <2> QED  BY <1>26, <2>1 DEF IInv, TypeOK, OwnerWrites, Goto, vars, heapVars, lockVars, listVars
<1>27. CASE UNCHANGED vars
  BY <1>27 DEF IInv, TypeOK, vars
<1> QED
  BY <1>1, <1>2, <1>3, <1>4, <1>5, <1>6, <1>7, <1>8, <1>9, <1>10, <1>11, <1>12, <1>13, <1>14, <1>15, <1>16, <1>17, <1>18, <1>19, <1>20, <1>21, <1>22, <1>23, <1>24, <1>25, <1>26, <1>27 DEF Next, Call, Advance

\* One caller at a time is inside the mutex, and the mutex outlives the heap.
LEMMA MutexStep ==
  ASSUME IInv, [Next]_vars
  PROVE  MutexInv'
<1>1. ASSUME NEW enable \in BOOLEAN, BufEnableChecks(enable)
      PROVE  MutexInv'
  BY <1>1 DEF IInv, TypeOK, MutexInv, MutualExclusion, Inside, BufEnableChecks, Goto, vars, heapVars, lockVars, listVars
<1>2. CASE DmaBufferInit
  BY <1>2 DEF IInv, TypeOK, MutexInv, MutualExclusion, Inside, DmaBufferInit, Goto, vars, heapVars, lockVars, listVars
<1>3. ASSUME NEW c \in Callers, NEW size \in Sizes, AllocCall(c, size)
      PROVE  MutexInv'
  BY <1>3 DEF IInv, TypeOK, MutexInv, MutualExclusion, Inside, AllocCall, Goto, vars, heapVars, lockVars, listVars
<1>4. ASSUME NEW c \in Callers, NEW b \in live, FreeCall(c, b)
      PROVE  MutexInv'
  BY <1>4 DEF IInv, TypeOK, MutexInv, MutualExclusion, Inside, FreeCall, Goto, vars, heapVars, lockVars, listVars
<1>5. ASSUME NEW c \in Callers, DeInitCall(c)
      PROVE  MutexInv'
  BY <1>5 DEF IInv, TypeOK, MutexInv, MutualExclusion, Inside, DeInitCall, Goto, vars, heapVars, lockVars, listVars
<1>6. ASSUME NEW c \in Callers, CheckCall(c)
      PROVE  MutexInv'
  BY <1>6 DEF IInv, TypeOK, MutexInv, MutualExclusion, Inside, CheckCall, Goto, vars, heapVars, lockVars, listVars
<1>7. ASSUME NEW c \in Callers, MutexGet(c, "allocGet", "search")
      PROVE  MutexInv'
  BY <1>7 DEF IInv, TypeOK, MutexInv, MutualExclusion, Inside, MutexGet, Goto, vars, heapVars, lockVars, listVars
<1>8. ASSUME NEW c \in Callers, MutexRefused(c, "allocGet", FALSE)
      PROVE  MutexInv'
  BY <1>8 DEF IInv, TypeOK, MutexInv, MutualExclusion, Inside, MutexRefused, Goto, vars, heapVars, lockVars, listVars
<1>9. ASSUME NEW c \in Callers, AllocFail(c)
      PROVE  MutexInv'
  BY <1>9 DEF IInv, TypeOK, MutexInv, MutualExclusion, Inside, AllocFail, Goto, vars, heapVars, lockVars, listVars
<1>10. ASSUME NEW c \in Callers, AllocFound(c)
      PROVE  MutexInv'
  BY <1>10 DEF IInv, TypeOK, MutexInv, MutualExclusion, Inside, AllocFound, Goto, vars, heapVars, lockVars, listVars
<1>11. ASSUME NEW c \in Callers, AllocMark(c)
      PROVE  MutexInv'
  BY <1>11 DEF IInv, TypeOK, MutexInv, MutualExclusion, Inside, AllocMark, Goto, vars, heapVars, lockVars, listVars
<1>12. ASSUME NEW c \in Callers, AllocLink(c)
      PROVE  MutexInv'
  BY <1>12 DEF IInv, TypeOK, MutexInv, MutualExclusion, Inside, AllocLink, Goto, vars, heapVars, lockVars, listVars
<1>13. ASSUME NEW c \in Callers, AllocFooter(c)
      PROVE  MutexInv'
  BY <1>13 DEF IInv, TypeOK, MutexInv, MutualExclusion, Inside, AllocFooter, Goto, vars, heapVars, lockVars, listVars
<1>14. ASSUME NEW c \in Callers, MutexPut(c, "put", "idle")
      PROVE  MutexInv'
  BY <1>14 DEF IInv, TypeOK, MutexInv, MutualExclusion, Inside, MutexPut, Goto, vars, heapVars, lockVars, listVars
<1>15. ASSUME NEW c \in Callers, MutexGet(c, "freeGet", "unlink")
      PROVE  MutexInv'
  BY <1>15 DEF IInv, TypeOK, MutexInv, MutualExclusion, Inside, MutexGet, Goto, vars, heapVars, lockVars, listVars
<1>16. ASSUME NEW c \in Callers, MutexRefused(c, "freeGet", FALSE)
      PROVE  MutexInv'
  BY <1>16 DEF IInv, TypeOK, MutexInv, MutualExclusion, Inside, MutexRefused, Goto, vars, heapVars, lockVars, listVars
<1>17. ASSUME NEW c \in Callers, FreeUnlink(c)
      PROVE  MutexInv'
  BY <1>17 DEF IInv, TypeOK, MutexInv, MutualExclusion, Inside, FreeUnlink, Goto, vars, heapVars, lockVars, listVars
<1>18. ASSUME NEW c \in Callers, FreeClear(c)
      PROVE  MutexInv'
  BY <1>18 DEF IInv, TypeOK, MutexInv, MutualExclusion, Inside, FreeClear, Goto, vars, heapVars, lockVars, listVars
<1>19. ASSUME NEW c \in Callers, MutexGet(c, "deinitGet", "deinit")
      PROVE  MutexInv'
  BY <1>19 DEF IInv, TypeOK, MutexInv, MutualExclusion, Inside, MutexGet, Goto, vars, heapVars, lockVars, listVars
<1>20. ASSUME NEW c \in Callers, MutexRefused(c, "deinitGet", c \in Threads)
      PROVE  MutexInv'
  BY <1>20 DEF IInv, TypeOK, MutexInv, MutualExclusion, Inside, MutexRefused, Goto, vars, heapVars, lockVars, listVars
<1>21. ASSUME NEW c \in Callers, DeInitBody(c)
      PROVE  MutexInv'
  BY <1>21 DEF IInv, TypeOK, MutexInv, MutualExclusion, Inside, DeInitBody, Goto, vars, heapVars, lockVars, listVars
<1>22. ASSUME NEW c \in Callers, MutexPut(c, "deinitPut", "destroy")
      PROVE  MutexInv'
  BY <1>22 DEF IInv, TypeOK, MutexInv, MutualExclusion, Inside, MutexPut, Goto, vars, heapVars, lockVars, listVars
<1>23. ASSUME NEW c \in Callers, MutexDestroy(c)
      PROVE  MutexInv'
  BY <1>23 DEF IInv, TypeOK, MutexInv, MutualExclusion, Inside, MutexDestroy, Goto, vars, heapVars, lockVars, listVars
<1>24. ASSUME NEW c \in Callers, CheckStep(c)
      PROVE  MutexInv'
  BY <1>24 DEF IInv, TypeOK, MutexInv, MutualExclusion, Inside, CheckStep, Goto, vars, heapVars, lockVars, listVars
<1>25. ASSUME NEW c \in Callers, CheckReport(c)
      PROVE  MutexInv'
  BY <1>25 DEF IInv, TypeOK, MutexInv, MutualExclusion, Inside, CheckReport, Goto, vars, heapVars, lockVars, listVars
<1>26. ASSUME NEW b \in live, OwnerWrites(b)
      PROVE  MutexInv'
  BY <1>26 DEF IInv, TypeOK, MutexInv, MutualExclusion, Inside, OwnerWrites, Goto, vars, heapVars, lockVars, listVars
<1>27. CASE UNCHANGED vars
  BY <1>27 DEF IInv, MutexInv, MutualExclusion, vars
<1> QED
  BY <1>1, <1>2, <1>3, <1>4, <1>5, <1>6, <1>7, <1>8, <1>9, <1>10, <1>11, <1>12, <1>13, <1>14, <1>15, <1>16, <1>17, <1>18, <1>19, <1>20, <1>21, <1>22, <1>23, <1>24, <1>25, <1>26, <1>27 DEF Next, Call, Advance

\* The blocks in use stay apart, inside the heap, and account for the bitmap.
LEMMA HeapStep ==
  ASSUME IInv, [Next]_vars
  PROVE  HeapInv'
<1>1. ASSUME NEW enable \in BOOLEAN, BufEnableChecks(enable)
      PROVE  HeapInv'
  BY <1>1 DEF IInv, HeapInv, InUse, BlocksApart, BitmapExact, BufEnableChecks, heapVars
<1>2. CASE DmaBufferInit
  BY <1>2 DEF IInv, HeapInv, InUse, BlocksApart, BitmapExact, DmaBufferInit, heapVars
<1>3. ASSUME NEW c \in Callers, NEW size \in Sizes, AllocCall(c, size)
      PROVE  HeapInv'
  BY <1>3 DEF IInv, HeapInv, InUse, BlocksApart, BitmapExact, AllocCall, heapVars
<1>4. ASSUME NEW c \in Callers, NEW b \in live, FreeCall(c, b)
      PROVE  HeapInv'
  BY <1>4 DEF IInv, HeapInv, InUse, BlocksApart, BitmapExact, FreeCall, heapVars
<1>5. ASSUME NEW c \in Callers, DeInitCall(c)
      PROVE  HeapInv'
  BY <1>5 DEF IInv, HeapInv, InUse, BlocksApart, BitmapExact, DeInitCall, heapVars
<1>6. ASSUME NEW c \in Callers, CheckCall(c)
      PROVE  HeapInv'
  BY <1>6 DEF IInv, HeapInv, InUse, BlocksApart, BitmapExact, CheckCall, heapVars
<1>7. ASSUME NEW c \in Callers, MutexGet(c, "allocGet", "search")
      PROVE  HeapInv'
  BY <1>7 DEF IInv, HeapInv, InUse, BlocksApart, BitmapExact, MutexGet, heapVars
<1>8. ASSUME NEW c \in Callers, MutexRefused(c, "allocGet", FALSE)
      PROVE  HeapInv'
  BY <1>8 DEF IInv, HeapInv, InUse, BlocksApart, BitmapExact, MutexRefused, heapVars
<1>9. ASSUME NEW c \in Callers, AllocFail(c)
      PROVE  HeapInv'
  BY <1>9 DEF IInv, HeapInv, InUse, BlocksApart, BitmapExact, AllocFail, heapVars
<1>10. ASSUME NEW c \in Callers, AllocFound(c)
      PROVE  HeapInv'
  BY <1>10 DEF IInv, HeapInv, InUse, BlocksApart, BitmapExact, AllocFound, heapVars
<1>11. ASSUME NEW c \in Callers, AllocMark(c)
      PROVE  HeapInv'
  <2> DEFINE b == blk[c]
  <2>1. /\ b \in Block /\ inited /\ InUse(b) /\ Run(b) \cap used = {}
        /\ used' = used \cup Marks(b) /\ live' = live \cup {b}
        /\ inited' = inited /\ checks' = checks
    BY <1>11 DEF IInv, TypeOK, CallInv, AllocMark, Goto
  <2> HIDE DEF b
  <2>2. \A a \in live' : InUse(a)'
    BY <2>1 DEF IInv, HeapInv, InUse
  <2>3. ASSUME NEW a \in live
        PROVE  Extent(a) \cap Extent(b) = {}
    <3>1. a \in Block /\ a.start >= 1 /\ a.n >= 2
      BY DEF IInv, TypeOK, HeapInv, InUse
    <3>2. b.start >= 1 /\ b.n >= 2
      BY <2>1 DEF InUse
    <3>3. Marks(a) \cap Run(b) = {}
      BY <2>1 DEF IInv, HeapInv, BitmapExact
    <3> QED  BY <2>1, <3>1, <3>2, <3>3, FreshRunApart
  <2>4. BlocksApart'
    BY <2>1, <2>3 DEF IInv, HeapInv, BlocksApart
  <2>5. BitmapExact'
    BY <2>1 DEF IInv, HeapInv, BitmapExact
  <2> QED  BY <2>1, <2>2, <2>4, <2>5 DEF HeapInv
<1>12. ASSUME NEW c \in Callers, AllocLink(c)
      PROVE  HeapInv'
  BY <1>12 DEF IInv, HeapInv, InUse, BlocksApart, BitmapExact, AllocLink, heapVars
<1>13. ASSUME NEW c \in Callers, AllocFooter(c)
      PROVE  HeapInv'
  BY <1>13 DEF IInv, HeapInv, InUse, BlocksApart, BitmapExact, AllocFooter, heapVars
<1>14. ASSUME NEW c \in Callers, MutexPut(c, "put", "idle")
      PROVE  HeapInv'
  BY <1>14 DEF IInv, HeapInv, InUse, BlocksApart, BitmapExact, MutexPut, heapVars
<1>15. ASSUME NEW c \in Callers, MutexGet(c, "freeGet", "unlink")
      PROVE  HeapInv'
  BY <1>15 DEF IInv, HeapInv, InUse, BlocksApart, BitmapExact, MutexGet, heapVars
<1>16. ASSUME NEW c \in Callers, MutexRefused(c, "freeGet", FALSE)
      PROVE  HeapInv'
  BY <1>16 DEF IInv, HeapInv, InUse, BlocksApart, BitmapExact, MutexRefused, heapVars
<1>17. ASSUME NEW c \in Callers, FreeUnlink(c)
      PROVE  HeapInv'
  BY <1>17 DEF IInv, HeapInv, InUse, BlocksApart, BitmapExact, FreeUnlink, heapVars
<1>18. ASSUME NEW c \in Callers, FreeClear(c)
      PROVE  HeapInv'
  <2>1. CASE ~inited
    BY <1>18, <2>1 DEF IInv, HeapInv, InUse, BlocksApart, BitmapExact, FreeClear, heapVars
  <2>2. CASE inited
    <3> DEFINE b == blk[c]
    <3>1. b \in live
      BY <1>18, <2>2 DEF IInv, CallInv, FreeClear, Goto, Freeing
    <3>2. b \in Block /\ InUse(b)
      BY <3>1 DEF IInv, TypeOK, HeapInv
    <3>3. Ones(FreedLine(b)) = Marks(b)
      BY <2>2, <3>1, <3>2, FreedLineOfBlock, OnesOfBlock DEF IInv
    <3>4. /\ used' = used \ Marks(b) /\ live' = live \ {b}
          /\ inited' = inited /\ checks' = checks
      BY <1>18, <2>2, <3>3 DEF FreeClear
    <3> HIDE DEF b
    <3>5. Marks(b) \cap TailBits = {} /\ \A a \in live : a # b => Marks(a) \cap Marks(b) = {}
      <4>1. \A a \in live : Marks(a) \subseteq Extent(a)
        BY BitsType DEF IInv, TypeOK, Block, Line, Marks, Extent
      <4> QED  BY <3>1, <3>2, <4>1 DEF IInv, HeapInv, BlocksApart, InUse
    <3>6. BitmapExact'
      BY <2>2, <3>1, <3>4, <3>5 DEF IInv, HeapInv, BitmapExact
    <3> QED  BY <2>2, <3>4, <3>6 DEF IInv, HeapInv, BlocksApart, InUse
  <2> QED  BY <2>1, <2>2
<1>19. ASSUME NEW c \in Callers, MutexGet(c, "deinitGet", "deinit")
      PROVE  HeapInv'
  BY <1>19 DEF IInv, HeapInv, InUse, BlocksApart, BitmapExact, MutexGet, heapVars
<1>20. ASSUME NEW c \in Callers, MutexRefused(c, "deinitGet", c \in Threads)
      PROVE  HeapInv'
  BY <1>20 DEF IInv, HeapInv, InUse, BlocksApart, BitmapExact, MutexRefused, heapVars
<1>21. ASSUME NEW c \in Callers, DeInitBody(c)
      PROVE  HeapInv'
  BY <1>21 DEF IInv, HeapInv, InUse, BlocksApart, BitmapExact, DeInitBody, heapVars
<1>22. ASSUME NEW c \in Callers, MutexPut(c, "deinitPut", "destroy")
      PROVE  HeapInv'
  BY <1>22 DEF IInv, HeapInv, InUse, BlocksApart, BitmapExact, MutexPut, heapVars
<1>23. ASSUME NEW c \in Callers, MutexDestroy(c)
      PROVE  HeapInv'
  BY <1>23 DEF IInv, HeapInv, InUse, BlocksApart, BitmapExact, MutexDestroy, heapVars
<1>24. ASSUME NEW c \in Callers, CheckStep(c)
      PROVE  HeapInv'
  BY <1>24 DEF IInv, HeapInv, InUse, BlocksApart, BitmapExact, CheckStep, heapVars
<1>25. ASSUME NEW c \in Callers, CheckReport(c)
      PROVE  HeapInv'
  BY <1>25 DEF IInv, HeapInv, InUse, BlocksApart, BitmapExact, CheckReport, heapVars
<1>26. ASSUME NEW b \in live, OwnerWrites(b)
      PROVE  HeapInv'
  BY <1>26 DEF IInv, HeapInv, InUse, BlocksApart, BitmapExact, OwnerWrites, heapVars
<1>27. CASE UNCHANGED vars
  BY <1>27 DEF IInv, HeapInv, InUse, BlocksApart, BitmapExact, vars
<1> QED
  BY <1>1, <1>2, <1>3, <1>4, <1>5, <1>6, <1>7, <1>8, <1>9, <1>10, <1>11, <1>12, <1>13, <1>14, <1>15, <1>16, <1>17, <1>18, <1>19, <1>20, <1>21, <1>22, <1>23, <1>24, <1>25, <1>26, <1>27 DEF Next, Call, Advance

\* What the calls in progress rely on stays true under the steps of the others.
LEMMA CallStep ==
  ASSUME IInv, [Next]_vars
  PROVE  CallInv'
<1>1. ASSUME NEW enable \in BOOLEAN, BufEnableChecks(enable)
      PROVE  CallInv'
  BY <1>1 DEF IInv, TypeOK, CallInv, InUse, Run, Shaped, Freeing, BufEnableChecks, Goto, vars, heapVars, lockVars, listVars
<1>2. CASE DmaBufferInit
  BY <1>2 DEF CallInv, Freeing, DmaBufferInit
<1>3. ASSUME NEW c \in Callers, NEW size \in Sizes, AllocCall(c, size)
      PROVE  CallInv'
  BY <1>3 DEF IInv, TypeOK, CallInv, InUse, Run, Shaped, Freeing, AllocCall, Request, Goto, vars, heapVars, lockVars, listVars
<1>4. ASSUME NEW c \in Callers, NEW b \in live, FreeCall(c, b)
      PROVE  CallInv'
  <2>1. Shaped(b)
    <3>1. b.start \in Int /\ InUse(b)
      BY BitsType DEF IInv, TypeOK, HeapInv, Block, Line
    <3>2. CASE checks
      BY <3>1, <3>2 DEF InUse, Shaped
    <3>3. CASE ~checks
      <4>1. b.ptr = b.start * LineSz
        BY <3>1, <3>3 DEF InUse, LineSz
      <4> QED  BY <3>1, <4>1 DEF InUse, Shaped
    <3> QED  BY <3>2, <3>3
  <2>2. \A d \in Callers : pc[d] \in Freeing => blk[d] # b
    BY <1>4 DEF FreeCall, Busy, Freeing
  <2>3. inited
    BY DEF IInv, HeapInv
  <2> QED  BY <1>4, <2>1, <2>2, <2>3 DEF IInv, TypeOK, CallInv, InUse, Run, Shaped, Freeing, FreeCall, Goto, vars, heapVars, lockVars, listVars
<1>5. ASSUME NEW c \in Callers, DeInitCall(c)
      PROVE  CallInv'
  BY <1>5 DEF IInv, TypeOK, CallInv, InUse, Run, Shaped, Freeing, DeInitCall, Goto, vars, heapVars, lockVars, listVars
<1>6. ASSUME NEW c \in Callers, CheckCall(c)
      PROVE  CallInv'
  BY <1>6 DEF IInv, TypeOK, CallInv, InUse, Run, Shaped, Freeing, CheckCall, Goto, vars, heapVars, lockVars, listVars
<1>7. ASSUME NEW c \in Callers, MutexGet(c, "allocGet", "search")
      PROVE  CallInv'
  BY <1>7 DEF IInv, TypeOK, CallInv, InUse, Run, Shaped, Freeing, MutexGet, Goto, vars, heapVars, lockVars, listVars
<1>8. ASSUME NEW c \in Callers, MutexRefused(c, "allocGet", FALSE)
      PROVE  CallInv'
  BY <1>8 DEF IInv, TypeOK, CallInv, InUse, Run, Shaped, Freeing, MutexRefused, Goto, vars, heapVars, lockVars, listVars
<1>9. ASSUME NEW c \in Callers, AllocFail(c)
      PROVE  CallInv'
  BY <1>9 DEF IInv, TypeOK, CallInv, InUse, Run, Shaped, Freeing, AllocFail, Goto, vars, heapVars, lockVars, listVars
<1>10. ASSUME NEW c \in Callers, AllocFound(c)
      PROVE  CallInv'
  <2> DEFINE n == LinesFor(BlkSize(blk[c].size))
  <2>1. /\ n \in Nat /\ n >= 2 /\ BlkSize(blk[c].size) <= n * LineSz
        /\ blk[c].size + (IF checks THEN HdrSz + FooterSz ELSE 0) <= n * LineSz
        /\ blk[c].size \in Sizes /\ blk[c].size \in Nat
    <3>1. BlkSize(blk[c].size) \in Nat
      BY BlkSizeType DEF IInv
    <3>2. n \in Nat /\ n >= 2 /\ BlkSize(blk[c].size) <= n * LineSz
      BY <3>1, EnoughLines
    <3>3. blk[c].size \in Sizes /\ blk[c].size \in Nat
      BY <1>10, ConstantsAssumption DEF IInv, CallInv, AllocFound, Goto
    <3> HIDE DEF n
    <3> QED  BY <3>1, <3>2, <3>3, BlkSizeType DEF IInv, LineSz, HdrSz, FooterSz
  <2> HIDE DEF n
  <2>2. PICK e \in Candidates(n) : blk' = [blk EXCEPT ![c] = BlockAt(e - n + 1, n, blk[c].size)]
    BY <1>10 DEF AllocFound, n
  <2>3. e \in Line /\ e >= n /\ ((e - n) .. e) \cap used = {}
    BY <2>1, CandidateRun DEF IInv
  <2> DEFINE b == BlockAt(e - n + 1, n, blk[c].size)
  <2>4. Run(b) \cap used = {} /\ Extent(b) \subseteq Run(b)
    BY <2>1, <2>3, BitsType DEF Run, Extent, BlockAt, Line
  <2>5. inited /\ inited' = inited /\ checks' = checks /\ used' = used /\ live' = live
    BY <1>10 DEF AllocFound
  <2>6. Extent(b) \cap TailBits = {}
    BY <2>4, <2>5 DEF IInv, HeapInv, BitmapExact
  <2>7. InUse(b)
    BY <2>1, <2>3, <2>6, BitsType DEF InUse, BlockAt, Line, LineSz, HdrSz, FooterSz
  <2>8. blk' = [blk EXCEPT ![c] = b] /\ pc' = [pc EXCEPT ![c] = "mark"] /\ pc[c] = "search"
    BY <1>10, <2>2 DEF AllocFound, Goto
  <2> HIDE DEF b
  <2> QED  BY <2>4, <2>5, <2>7, <2>8 DEF IInv, TypeOK, CallInv, InUse, Run, Shaped, Freeing
<1>11. ASSUME NEW c \in Callers, AllocMark(c)
      PROVE  CallInv'
  <2>1. \A d \in Callers : d # c => pc[d] # "mark"
    BY <1>11 DEF IInv, MutexInv, MutualExclusion, Inside, CallInv, AllocMark, Goto
  <2> QED  BY <1>11, <2>1 DEF IInv, TypeOK, CallInv, Shaped, Freeing, AllocMark, Goto, vars, heapVars, lockVars, listVars
<1>12. ASSUME NEW c \in Callers, AllocLink(c)
      PROVE  CallInv'
  BY <1>12 DEF IInv, TypeOK, CallInv, InUse, Run, Shaped, Freeing, AllocLink, Goto, vars, heapVars, lockVars, listVars
<1>13. ASSUME NEW c \in Callers, AllocFooter(c)
      PROVE  CallInv'
  BY <1>13 DEF IInv, TypeOK, CallInv, InUse, Run, Shaped, Freeing, AllocFooter, Goto, vars, heapVars, lockVars, listVars
<1>14. ASSUME NEW c \in Callers, MutexPut(c, "put", "idle")
      PROVE  CallInv'
  BY <1>14 DEF IInv, TypeOK, CallInv, InUse, Run, Shaped, Freeing, MutexPut, Goto, vars, heapVars, lockVars, listVars
<1>15. ASSUME NEW c \in Callers, MutexGet(c, "freeGet", "unlink")
      PROVE  CallInv'
  BY <1>15 DEF IInv, TypeOK, CallInv, InUse, Run, Shaped, Freeing, MutexGet, Goto, vars, heapVars, lockVars, listVars
<1>16. ASSUME NEW c \in Callers, MutexRefused(c, "freeGet", FALSE)
      PROVE  CallInv'
  BY <1>16 DEF IInv, TypeOK, CallInv, InUse, Run, Shaped, Freeing, MutexRefused, Goto, vars, heapVars, lockVars, listVars
<1>17. ASSUME NEW c \in Callers, FreeUnlink(c)
      PROVE  CallInv'
  BY <1>17 DEF IInv, TypeOK, CallInv, InUse, Run, Shaped, Freeing, FreeUnlink, Goto, vars, heapVars, lockVars, listVars
<1>18. ASSUME NEW c \in Callers, FreeClear(c)
      PROVE  CallInv'
  <2>1. \A d \in Callers : d # c => pc[d] # "mark"
    BY <1>18 DEF IInv, MutexInv, MutualExclusion, Inside, CallInv, FreeClear, Goto
  <2> QED  BY <1>18, <2>1 DEF IInv, TypeOK, CallInv, Shaped, Freeing, FreeClear, Goto, vars, heapVars, lockVars, listVars
<1>19. ASSUME NEW c \in Callers, MutexGet(c, "deinitGet", "deinit")
      PROVE  CallInv'
  BY <1>19 DEF IInv, TypeOK, CallInv, InUse, Run, Shaped, Freeing, MutexGet, Goto, vars, heapVars, lockVars, listVars
<1>20. ASSUME NEW c \in Callers, MutexRefused(c, "deinitGet", c \in Threads)
      PROVE  CallInv'
  BY <1>20 DEF IInv, TypeOK, CallInv, InUse, Run, Shaped, Freeing, MutexRefused, Goto, vars, heapVars, lockVars, listVars
<1>21. ASSUME NEW c \in Callers, DeInitBody(c)
      PROVE  CallInv'
  <2>1. \A d \in Callers : d # c => pc[d] # "mark"
    BY <1>21 DEF IInv, MutexInv, MutualExclusion, Inside, CallInv, DeInitBody, Goto
  <2> QED  BY <1>21, <2>1 DEF IInv, TypeOK, CallInv, Shaped, Freeing, DeInitBody, Goto, vars, heapVars, lockVars, listVars
<1>22. ASSUME NEW c \in Callers, MutexPut(c, "deinitPut", "destroy")
      PROVE  CallInv'
  BY <1>22 DEF IInv, TypeOK, CallInv, InUse, Run, Shaped, Freeing, MutexPut, Goto, vars, heapVars, lockVars, listVars
<1>23. ASSUME NEW c \in Callers, MutexDestroy(c)
      PROVE  CallInv'
  BY <1>23 DEF IInv, TypeOK, CallInv, InUse, Run, Shaped, Freeing, MutexDestroy, Goto, vars, heapVars, lockVars, listVars
<1>24. ASSUME NEW c \in Callers, CheckStep(c)
      PROVE  CallInv'
  BY <1>24 DEF IInv, TypeOK, CallInv, InUse, Run, Shaped, Freeing, CheckStep, Goto, vars, heapVars, lockVars, listVars
<1>25. ASSUME NEW c \in Callers, CheckReport(c)
      PROVE  CallInv'
  BY <1>25 DEF IInv, TypeOK, CallInv, InUse, Run, Shaped, Freeing, CheckReport, Goto, vars, heapVars, lockVars, listVars
<1>26. ASSUME NEW b \in live, OwnerWrites(b)
      PROVE  CallInv'
  BY <1>26 DEF IInv, TypeOK, CallInv, InUse, Run, Shaped, Freeing, OwnerWrites, Goto, vars, heapVars, lockVars, listVars
<1>27. CASE UNCHANGED vars
  BY <1>27 DEF IInv, CallInv, InUse, Run, Shaped, Freeing, vars
<1> QED
  BY <1>1, <1>2, <1>3, <1>4, <1>5, <1>6, <1>7, <1>8, <1>9, <1>10, <1>11, <1>12, <1>13, <1>14, <1>15, <1>16, <1>17, <1>18, <1>19, <1>20, <1>21, <1>22, <1>23, <1>24, <1>25, <1>26, <1>27 DEF Next, Call, Advance

-----------------------------------------------------------------------------
(* The theorems.                                                           *)

LEMMA IInvInit == Init => IInv
<1> SUFFICES ASSUME Init PROVE IInv
  OBVIOUS
<1>1. TypeOK
  <2>1. NoHeader \in Header
    BY BitsType DEF NoHeader, Header
  <2>2. 0 \in 0 .. (StatusSize - 1)
    BY BitsType
  <2> QED  BY <2>1, <2>2, BitsType, NoBlockTyped DEF Init, TypeOK, PCs
<1>2. MutexInv /\ HeapInv /\ CallInv
  BY DEF Init, MutexInv, MutualExclusion, HeapInv, BlocksApart, BitmapExact,
         CallInv, Freeing
<1> QED  BY <1>1, <1>2 DEF IInv

\* IInv holds in every reachable state.
THEOREM Inductive == Spec => []IInv
<1>1. IInv /\ [Next]_vars => IInv'
  BY TypeStep, MutexStep, HeapStep, CallStep DEF IInv
<1> QED  BY IInvInit, <1>1, PTL DEF Spec

\* The types are right in every reachable state.
THEOREM TypeCorrect == Spec => []TypeOK
<1>1. IInv => TypeOK
  BY DEF IInv
<1> QED  BY Inductive, <1>1, PTL

\* The mutex does what the bitmap and the list need, although a thread that
\* waits for it may be inside while CyU3PDmaBufferDeInit destroys it.
THEOREM MutexHolds == Spec => []MutualExclusion
<1>1. IInv => MutualExclusion
  BY DEF IInv, MutexInv
<1> QED  BY Inductive, <1>1, PTL

\* No two buffers in use share a cache line.
THEOREM NoSharedLine == Spec => []BlocksApart
<1>1. IInv => BlocksApart
  BY DEF IInv, HeapInv
<1> QED  BY Inductive, <1>1, PTL

\* The bitmap accounts for the blocks in use, to the bit.
THEOREM NoLineLeaks == Spec => []BitmapExact
<1>1. IInv => BitmapExact
  BY DEF IInv, HeapInv
<1> QED  BY Inductive, <1>1, PTL

\* A free computes the line its block starts at, whatever became of the checks.
THEOREM FreeIsExact == Spec => []FreeFindsBlock
<1>1. IInv => FreeFindsBlock
  <2> SUFFICES ASSUME IInv, NEW c \in Callers, inited,
                      pc[c] \in {"freeGet", "unlink", "clear"}
               PROVE  FreedLine(blk[c]) = blk[c].start
    BY DEF FreeFindsBlock
  <2>1. blk[c] \in live /\ blk[c] \in Block /\ InUse(blk[c])
    BY DEF IInv, CallInv, Freeing, HeapInv, TypeOK
  <2> QED  BY <2>1, FreedLineOfBlock DEF IInv
<1> QED  BY Inductive, <1>1, PTL

\* When the bitmap has no bits past the heap, as in both shipped memory maps,
\* every block lies inside the heap with its header and footer.
THEOREM BlocksInHeap ==
  ASSUME Lines % WordBits = 0
  PROVE  Spec => []BlocksFit
<1>1. IInv => BlocksFit
  BY WholeWords, BitsType DEF IInv, TypeOK, HeapInv, InUse, BlocksFit, Block, Line
<1> QED  BY Inductive, <1>1, PTL

-----------------------------------------------------------------------------
(* The refinement.                                                         *)

USE DEF Pool!poolVars

LEMMA GrantStep ==
  ASSUME Lines % WordBits = 0, IInv, NEW c \in Callers, AllocMark(c)
  PROVE  Pool!PoolNext
<1> DEFINE b == blk[c]
           h == IF checks THEN HdrSz ELSE 0
           d == [start |-> b.start, n |-> b.n, ptr |-> b.start * LineSz + h, size |-> b.size]
<1>1. /\ b \in Block /\ inited /\ InUse(b) /\ Run(b) \cap used = {}
      /\ live' = live \cup {b} /\ inited' = inited
  BY DEF IInv, TypeOK, CallInv, AllocMark, Goto
<1>2. /\ b.start \in Int /\ b.n \in Int /\ b.size \in Int /\ h \in {0, HdrSz}
      /\ b.start >= 1 /\ b.n >= 2 /\ b.start + b.n <= Lines /\ b.size \in Sizes
  BY <1>1, WholeWords, BitsType DEF Block, Line, InUse
<1>3. b = d
  BY <1>1 DEF Block, InUse
<1>4. b.start \in 1 .. (Lines - 1) /\ b.n \in 2 .. Lines
  BY <1>2, ConstantsAssumption
<1>5. Pool!InHeap(b) /\ Pool!HoldsPayload(b)
  BY <1>1, <1>2 DEF Pool!InHeap, Pool!HoldsPayload, InUse, Block, LineSz, HdrSz, FooterSz
<1>6. \A a \in live : Pool!Apart(b, a)
  <2> SUFFICES ASSUME NEW a \in live PROVE Extent(a) \cap Extent(b) = {}
    BY DEF Pool!Apart, Pool!Extent, Extent
  <2>1. a \in Block /\ a.start >= 1 /\ a.n >= 2
    BY DEF IInv, TypeOK, HeapInv, InUse
  <2>2. Marks(a) \cap Run(b) = {}
    BY <1>1 DEF IInv, HeapInv, BitmapExact
  <2> HIDE DEF b
  <2> QED  BY <1>1, <1>2, <2>1, <2>2, FreshRunApart
<1>7. Pool!Grant(b)
  BY <1>1, <1>5, <1>6 DEF Pool!Grant
<1>8. Pool!Grant(d)
  BY <1>3, <1>7
<1> HIDE DEF b, h
<1> QED  BY <1>2, <1>4, <1>8 DEF Pool!PoolNext

\* Every step of the allocator is a step of the pool, or none.
LEMMA PoolStep ==
  ASSUME Lines % WordBits = 0, IInv, [Next]_vars
  PROVE  [Pool!PoolNext]_(Pool!poolVars)
<1>1. CASE UNCHANGED <<inited, live>>
  BY <1>1
<1>2. CASE DmaBufferInit
  BY <1>2 DEF IInv, HeapInv, DmaBufferInit, Pool!PoolNext, Pool!PoolOpen
<1>3. ASSUME NEW c \in Callers, AllocMark(c)  PROVE Pool!PoolNext
  BY <1>3, GrantStep
<1>4. ASSUME NEW c \in Callers, FreeClear(c)  PROVE UNCHANGED <<inited, live>> \/ Pool!PoolNext
  <2>1. CASE ~inited
    BY <1>4, <2>1 DEF FreeClear
  <2>2. CASE inited
    <3>1. blk[c] \in live
      BY <1>4, <2>2 DEF IInv, CallInv, FreeClear, Goto, Freeing
    <3>2. Pool!Release(blk[c])
      BY <1>4, <2>2 DEF FreeClear, Pool!Release
    <3> QED  BY <3>1, <3>2 DEF Pool!PoolNext
  <2> QED  BY <2>1, <2>2
<1>5. ASSUME NEW c \in Callers, DeInitBody(c)  PROVE UNCHANGED <<inited, live>> \/ Pool!PoolNext
  <2>1. CASE inited
    BY <1>5, <2>1 DEF DeInitBody, Pool!PoolNext, Pool!PoolClose
  <2>2. CASE ~inited
    BY <1>5, <2>2 DEF IInv, TypeOK, HeapInv, DeInitBody
  <2> QED  BY <2>1, <2>2
<1>6. CASE \A c \in Callers : ~AllocMark(c) /\ ~FreeClear(c) /\ ~DeInitBody(c)
  <2>1. DmaBufferInit \/ UNCHANGED <<inited, live>>
    BY <1>6 DEF Next, Call, Advance, vars, heapVars, BufEnableChecks, AllocCall, FreeCall,
         DeInitCall, CheckCall, MutexGet, MutexRefused, MutexPut, MutexDestroy, AllocFail,
         AllocFound, AllocLink, AllocFooter, FreeUnlink, CheckStep, CheckReport, OwnerWrites
  <2> QED  BY <1>1, <1>2, <2>1
<1> QED  BY <1>1, <1>3, <1>4, <1>5, <1>6

\* The allocator implements the pool of disjoint blocks.
THEOREM ImplementsPool ==
  ASSUME Lines % WordBits = 0
  PROVE  Spec => PoolImplemented
<1>1. Init => Pool!PoolInit
  BY DEF Init, Pool!PoolInit
<1>2. IInv /\ [Next]_vars => [Pool!PoolNext]_(Pool!poolVars)
  BY PoolStep
<1> QED  BY <1>1, <1>2, Inductive, PTL DEF Spec, PoolImplemented, Pool!PoolSpec

-----------------------------------------------------------------------------
(***************************************************************************)
(* The debug list, the signatures and the search.                          *)
(***************************************************************************)
(* The inductive invariant.                                                *)

\* A block under construction belongs to a heap that is there.
LinkInv ==
  /\ \A c \in Callers : pc[c] \in {"mark", "link", "footer"} => inited
  /\ \A c \in Callers : pc[c] \in {"link", "footer"} => blk[c] \in live

\* Between two lives of the heap, and before the first, the list is empty,
\* although a caller may still be in CyU3PDmaBufferFree.
RestInv ==
  /\ ~inited => head = 0
  /\ hdr[0].prev = 0
  /\ inits = 0 => /\ ~inited /\ ~created /\ allocCnt = 0 /\ freeCnt = 0
                  /\ \A c \in Callers : pc[c] \notin Inside

\* An empty heap is searched from the top.
SearchInv == inited /\ live = {} => searchPos = 0 \/ \E c \in Callers : pc[c] = "mark"

\* The signatures of the blocks in the list, and where the end signature is.
SignInv ==
  (inited /\ checks) =>
    \A b \in Listed :
      /\ hdr[b.start].startSig /\ hdr[b.start].last = FooterLine(b)
      /\ hdr[b.start].endSig \/ \E c \in Callers : pc[c] = "footer" /\ blk[c] = b

\* The list is in the order of the ids, both ways.  ListExact follows next_blk
\* only from a block to the one whose prev_blk it is; the free of a block
\* needs to know of each next_blk by itself.
Newer(b) == {a \in Listed : IdOf(b) < IdOf(a)}
Oldest(B, s) == IF B = {} THEN s = 0
                ELSE \E b \in B : b.start = s /\ \A a \in B : IdOf(b) <= IdOf(a)

OrderInv ==
  /\ \A b \in Listed : IdOf(b) < allocCnt
  /\ \A a, b \in Listed : a # b => IdOf(a) # IdOf(b)
  /\ Newest(Listed, head)
  /\ \A b \in Listed : Newest(Older(b), hdr[b.start].prev)
  /\ \A b \in Listed : Oldest(Newer(b), hdr[b.start].next)

CountInv == IsFiniteSet(Listed) /\ (inits = 1 => allocCnt - freeCnt = Cardinality(Listed))

ListInv == (inited /\ checks) => OrderInv /\ CountInv

DebugInv == LinkInv /\ RestInv /\ SearchInv /\ SignInv /\ ListInv

-----------------------------------------------------------------------------
(* What the calls in progress know of each other.                          *)

\* The callers that are inside the mutex with c are c itself.
LEMMA AloneInside ==
  ASSUME IInv, inited, NEW c \in Callers, NEW d \in Callers,
         pc[c] \in Inside, pc[d] \in Inside
  PROVE  c = d
  BY DEF IInv, MutexInv, MutualExclusion

\* Blocks in use start at different lines, none of them line 0.
LEMMA StartsDiffer ==
  ASSUME IInv, NEW a \in live, NEW b \in live
  PROVE  a.start \in Line /\ a.start >= 1 /\ (a.start = b.start => a = b)
<1>1. /\ a.start \in Line /\ b.start \in Line /\ a.n \in Int /\ b.n \in Int
      /\ a.start >= 1 /\ a.n >= 2 /\ b.n >= 2
  BY DEF IInv, TypeOK, Block, HeapInv, InUse
<1>2. ASSUME a.start = b.start  PROVE a.start \in Extent(a) \cap Extent(b)
  BY <1>1, <1>2, BitsType DEF Extent, Line
<1> QED  BY <1>1, <1>2 DEF IInv, HeapInv, BlocksApart

\* The block about to be marked is not in use yet.
LEMMA MarkedIsNew ==
  ASSUME IInv, NEW c \in Callers, pc[c] = "mark"
  PROVE  blk[c] \notin live
<1> SUFFICES ASSUME blk[c] \in live PROVE FALSE
  OBVIOUS
<1>1. inited /\ InUse(blk[c]) /\ Run(blk[c]) \cap used = {}
  BY DEF IInv, CallInv
<1>2. blk[c].start \in Int /\ blk[c].n \in Int
  BY BitsType DEF IInv, TypeOK, Block, Line
<1>3. blk[c].start \in Marks(blk[c]) /\ blk[c].start \in Run(blk[c])
  BY <1>1, <1>2 DEF InUse, Marks, Run
<1> QED  BY <1>1, <1>3 DEF IInv, HeapInv, BitmapExact

-----------------------------------------------------------------------------
(* What a step does to the headers.                                        *)

\* A write by an owner loses signatures in the lines of its payload only.
LEMMA WriteEffect ==
  ASSUME IInv, NEW b \in live, OwnerWrites(b), NEW l \in Line
  PROVE  /\ hdr'[l].id = hdr[l].id /\ hdr'[l].prev = hdr[l].prev
         /\ hdr'[l].next = hdr[l].next /\ hdr'[l].last = hdr[l].last
         /\ hdr[l].startSig /\ l \notin PayloadLines(b) => hdr'[l].startSig
         /\ hdr[l].endSig /\ (l = b.start \/ hdr[l].last \notin PayloadLines(b)) => hdr'[l].endSig
<1> DEFINE lost(k) == k \in PayloadLines(b)
           new == [k \in Line |->
                     [hdr[k] EXCEPT
                        !.startSig = @ /\ ~lost(k),
                        !.endSig = @ /\ ~(k # b.start /\ lost(hdr[k].last))]]
<1>1. hdr' = new
  BY DEF OwnerWrites
<1>2. hdr'[l] = [hdr[l] EXCEPT !.startSig = @ /\ ~lost(l),
                               !.endSig = @ /\ ~(l # b.start /\ lost(hdr[l].last))]
  BY <1>1
<1>3. hdr[l] \in Header
  BY DEF IInv, TypeOK
<1> QED  BY <1>2, <1>3 DEF Header

\* A free with the checks takes its block out of its neighbours' headers.
LEMMA UnlinkEffect ==
  ASSUME IInv, checks, NEW c \in Callers, FreeUnlink(c), NEW l \in Line
  PROVE  LET s == FreedLine(blk[c]) IN
         /\ hdr'[l].id = hdr[l].id /\ hdr'[l].last = hdr[l].last
         /\ hdr'[l].startSig = hdr[l].startSig /\ hdr'[l].endSig = hdr[l].endSig
         /\ l # 0 => /\ hdr'[l].prev = IF l = hdr[s].next THEN hdr[s].prev ELSE hdr[l].prev
                     /\ hdr'[l].next = IF l = hdr[s].prev THEN hdr[s].next ELSE hdr[l].next
<1> DEFINE s == FreedLine(blk[c])
<1>1. hdr[l] \in Header
  BY DEF IInv, TypeOK
<1>2. hdr' = [k \in Line |-> IF k = 0 THEN hdr[k]
                ELSE [hdr[k] EXCEPT !.prev = IF k = hdr[s].next THEN hdr[s].prev ELSE @,
                                    !.next = IF k = hdr[s].prev THEN hdr[s].next ELSE @]]
  BY DEF FreeUnlink, Unlinked
<1> HIDE DEF s
<1>3. l = 0 => hdr'[l] = hdr[l]
  BY <1>2
<1>4. l # 0 => hdr'[l] = [hdr[l] EXCEPT !.prev = IF l = hdr[s].next THEN hdr[s].prev ELSE @,
                                        !.next = IF l = hdr[s].prev THEN hdr[s].next ELSE @]
  BY <1>2
<1> QED  BY <1>1, <1>3, <1>4 DEF Header, s

-----------------------------------------------------------------------------
(* The steps that leave the list alone.                                    *)

\* The list, what is in it and who writes a footer stay as they are.
Resting ==
  /\ UNCHANGED <<inited, inits, checks, allocCnt, freeCnt, head, hdr>>
  /\ checks => Listed' = Listed
  /\ \A c \in Callers : pc[c] = "footer" => pc'[c] = "footer" /\ blk'[c] = blk[c]

ListSteps(c) == AllocLink(c) \/ AllocFooter(c) \/ FreeUnlink(c) \/ DeInitBody(c)

\* A caller that moves between points other than those two, with live as it
\* was, changes nothing about the list.
LEMMA MovesRest ==
  ASSUME TypeOK, NEW c \in Callers, NEW from, NEW to, Goto(c, from, to),
         from \notin {"link", "clear", "footer"}, to \notin {"link", "clear"},
         \A d \in Callers \ {c} : blk'[d] = blk[d],
         UNCHANGED <<inited, inits, checks, allocCnt, freeCnt, head, hdr, live>>
  PROVE  Resting
<1>1. \A d \in Callers \ {c} : pc'[d] = pc[d]
  BY DEF TypeOK, Goto
<1>2. pc[c] \notin {"link", "clear", "footer"} /\ pc'[c] \notin {"link", "clear"}
  BY DEF TypeOK, Goto
<1>3. Listed' = Listed
  BY <1>1, <1>2 DEF Listed
<1> QED  BY <1>1, <1>2, <1>3 DEF Resting

LEMMA StepKinds ==
  ASSUME IInv, [Next]_vars
  PROVE  \/ Resting
         \/ \E c \in Callers : ListSteps(c)
         \/ DmaBufferInit
         \/ \E enable \in BOOLEAN : BufEnableChecks(enable)
         \/ \E b \in live : OwnerWrites(b)
<1> USE DEF heapVars, lockVars, listVars
<1>1. ASSUME NEW c \in Callers, NEW size \in Sizes, AllocCall(c, size)
      PROVE  Resting
  BY <1>1, MovesRest DEF IInv, TypeOK, AllocCall
<1>2. ASSUME NEW c \in Callers, NEW b \in live, FreeCall(c, b)
      PROVE  Resting
  BY <1>2, MovesRest DEF IInv, TypeOK, FreeCall
<1>3. ASSUME NEW c \in Callers, DeInitCall(c)
      PROVE  Resting
  BY <1>3, MovesRest DEF IInv, DeInitCall
<1>4. ASSUME NEW c \in Callers, CheckCall(c)
      PROVE  Resting
  BY <1>4, MovesRest DEF IInv, CheckCall
<1>5. ASSUME NEW c \in Callers, NEW from \in {"allocGet", "freeGet", "deinitGet"},
             NEW to \in {"search", "unlink", "deinit"}, MutexGet(c, from, to)
      PROVE  Resting
  BY <1>5, MovesRest DEF IInv, MutexGet
<1>6. ASSUME NEW c \in Callers, NEW from \in {"allocGet", "freeGet", "deinitGet"},
             NEW waits \in BOOLEAN, MutexRefused(c, from, waits)
      PROVE  Resting
  BY <1>6, MovesRest DEF IInv, TypeOK, MutexRefused
<1>7. ASSUME NEW c \in Callers, NEW from \in {"put", "deinitPut"}, NEW to \in {"idle", "destroy"},
             MutexPut(c, from, to)
      PROVE  Resting
  BY <1>7, MovesRest DEF IInv, TypeOK, MutexPut
<1>8. ASSUME NEW c \in Callers, AllocFail(c)
      PROVE  Resting
  BY <1>8, MovesRest DEF IInv, AllocFail
<1>9. ASSUME NEW c \in Callers, AllocFound(c)
      PROVE  Resting
  BY <1>9, MovesRest DEF IInv, TypeOK, AllocFound
<1>10. ASSUME NEW c \in Callers, AllocMark(c)
       PROVE  Resting
  <2>1. blk[c] \notin live
    BY <1>10, MarkedIsNew DEF AllocMark, Goto
  <2>2. \A d \in Callers \ {c} : pc'[d] = pc[d]
    BY <1>10 DEF IInv, TypeOK, AllocMark, Goto
  <2>3. pc[c] = "mark" /\ blk' = blk /\ live' = live \cup {blk[c]}
    BY <1>10 DEF AllocMark, Goto
  <2>4. ASSUME checks  PROVE Listed' = Listed
    <3>1. pc'[c] = "link"
      BY <1>10, <2>4 DEF IInv, TypeOK, AllocMark, Goto
    <3> QED  BY <2>1, <2>2, <2>3, <3>1 DEF Listed
  <2> QED  BY <1>10, <2>2, <2>3, <2>4 DEF Resting, AllocMark
<1>11. ASSUME NEW c \in Callers, FreeClear(c)
       PROVE  Resting
  <2>1. \A d \in Callers \ {c} : pc'[d] = pc[d]
    BY <1>11 DEF IInv, TypeOK, FreeClear, Goto
  <2>2. pc[c] = "clear" /\ pc'[c] = "put" /\ blk' = blk
    BY <1>11 DEF IInv, TypeOK, FreeClear, Goto
  <2>3. Listed' = Listed
    <3>1. CASE inited
      <4>1. live' = live \ {blk[c]}
        BY <1>11, <3>1 DEF FreeClear
      <4> QED  BY <2>1, <2>2, <4>1 DEF Listed
    <3>2. CASE ~inited
      <4>1. live' = {} /\ live = {}
        BY <1>11, <3>2 DEF IInv, HeapInv, FreeClear
      <4> QED  BY <4>1 DEF Listed
    <3> QED  BY <3>1, <3>2
  <2> QED  BY <1>11, <2>1, <2>2, <2>3 DEF Resting, FreeClear
<1>12. ASSUME NEW c \in Callers, MutexDestroy(c)
       PROVE  Resting
  BY <1>12, MovesRest DEF IInv, MutexDestroy
<1>13. ASSUME NEW c \in Callers, CheckStep(c)
       PROVE  Resting
  <2>1. pc[c] = "check" /\ pc'[c] \in {"check", "idle", "corrupt"}
        /\ \A d \in Callers \ {c} : pc'[d] = pc[d]
    BY <1>13 DEF IInv, TypeOK, CheckStep
  <2>2. Listed' = Listed
    BY <1>13, <2>1 DEF Listed, CheckStep
  <2> QED  BY <1>13, <2>1, <2>2 DEF Resting, CheckStep
<1>14. ASSUME NEW c \in Callers, CheckReport(c)
       PROVE  Resting
  BY <1>14, MovesRest DEF IInv, CheckReport
<1>15. CASE UNCHANGED vars
  BY <1>15 DEF Resting, Listed, vars
<1>16. ASSUME NEW c \in Callers, Advance(c)
       PROVE  Resting \/ ListSteps(c)
  <2>1. CASE \/ MutexGet(c, "allocGet", "search") \/ MutexGet(c, "freeGet", "unlink")
             \/ MutexPut(c, "put", "idle") \/ MutexPut(c, "deinitPut", "destroy")
    BY <2>1, <1>5, <1>7
  <2>2. CASE MutexRefused(c, "allocGet", FALSE) \/ MutexRefused(c, "freeGet", FALSE)
    BY <2>2, <1>6
  <2>3. CASE MutexRefused(c, "deinitGet", c \in Threads)
    <3>1. (c \in Threads) \in BOOLEAN
      OBVIOUS
    <3> QED  BY <2>3, <3>1, <1>6
  <2> QED  BY <2>1, <2>2, <2>3, <1>16, <1>8, <1>9, <1>10, <1>11, <1>12, <1>13, <1>14
           DEF Advance, ListSteps
<1>17. ASSUME NEW c \in Callers, Call(c) \/ MutexGet(c, "deinitGet", "deinit")
       PROVE  Resting
  BY <1>17, <1>1, <1>2, <1>3, <1>4, <1>5 DEF Call
<1> QED
  BY <1>15, <1>16, <1>17 DEF Next
-----------------------------------------------------------------------------
\* A block under construction stays in use until it is in the list.
LEMMA LinkStep ==
  ASSUME IInv, DebugInv, [Next]_vars
  PROVE  LinkInv'
<1> USE DEF IInv, TypeOK, DebugInv, LinkInv, Goto, heapVars, lockVars, listVars
<1>1. ASSUME NEW enable \in BOOLEAN, BufEnableChecks(enable)
      PROVE  LinkInv'
  BY <1>1 DEF BufEnableChecks
<1>2. CASE DmaBufferInit
  BY <1>2 DEF DmaBufferInit
<1>3. ASSUME NEW b \in live, OwnerWrites(b)
      PROVE  LinkInv'
  BY <1>3 DEF OwnerWrites
<1>4. CASE UNCHANGED vars
  BY <1>4 DEF vars
<1>5. ASSUME NEW c \in Callers, NEW size \in Sizes, AllocCall(c, size)
      PROVE  LinkInv'
  BY <1>5 DEF AllocCall
<1>6. ASSUME NEW c \in Callers, NEW b \in live, FreeCall(c, b)
      PROVE  LinkInv'
  BY <1>6 DEF FreeCall
<1>7. ASSUME NEW c \in Callers, DeInitCall(c)
      PROVE  LinkInv'
  BY <1>7 DEF DeInitCall
<1>8. ASSUME NEW c \in Callers, CheckCall(c)
      PROVE  LinkInv'
  BY <1>8 DEF CheckCall
<1>9. ASSUME NEW c \in Callers, MutexGet(c, "allocGet", "search")
      PROVE  LinkInv'
  BY <1>9 DEF MutexGet
<1>10. ASSUME NEW c \in Callers, MutexRefused(c, "allocGet", FALSE)
      PROVE  LinkInv'
  BY <1>10 DEF MutexRefused
<1>11. ASSUME NEW c \in Callers, AllocFail(c)
      PROVE  LinkInv'
  BY <1>11 DEF AllocFail
<1>12. ASSUME NEW c \in Callers, AllocFound(c)
      PROVE  LinkInv'
  BY <1>12 DEF AllocFound
<1>13. ASSUME NEW c \in Callers, AllocMark(c)
      PROVE  LinkInv'
  BY <1>13 DEF AllocMark
<1>14. ASSUME NEW c \in Callers, AllocLink(c)
      PROVE  LinkInv'
  BY <1>14 DEF AllocLink
<1>15. ASSUME NEW c \in Callers, AllocFooter(c)
      PROVE  LinkInv'
  BY <1>15 DEF AllocFooter
<1>16. ASSUME NEW c \in Callers, MutexPut(c, "put", "idle")
      PROVE  LinkInv'
  BY <1>16 DEF MutexPut
<1>17. ASSUME NEW c \in Callers, MutexGet(c, "freeGet", "unlink")
      PROVE  LinkInv'
  BY <1>17 DEF MutexGet
<1>18. ASSUME NEW c \in Callers, MutexRefused(c, "freeGet", FALSE)
      PROVE  LinkInv'
  BY <1>18 DEF MutexRefused
<1>19. ASSUME NEW c \in Callers, FreeUnlink(c)
      PROVE  LinkInv'
  BY <1>19 DEF FreeUnlink
<1>20. ASSUME NEW c \in Callers, FreeClear(c)
      PROVE  LinkInv'
  <2>1. ASSUME NEW d \in Callers, pc[d] \in {"mark", "link", "footer"}
        PROVE  FALSE
    BY <1>20, <2>1, AloneInside DEF FreeClear, Inside
  <2> QED  BY <1>20, <2>1 DEF FreeClear
<1>21. ASSUME NEW c \in Callers, MutexGet(c, "deinitGet", "deinit")
      PROVE  LinkInv'
  BY <1>21 DEF MutexGet
<1>22. ASSUME NEW c \in Callers, MutexRefused(c, "deinitGet", c \in Threads)
      PROVE  LinkInv'
  BY <1>22 DEF MutexRefused
<1>23. ASSUME NEW c \in Callers, DeInitBody(c)
      PROVE  LinkInv'
  <2>1. ASSUME NEW d \in Callers, pc[d] \in {"mark", "link", "footer"}
        PROVE  FALSE
    BY <1>23, <2>1, AloneInside DEF DeInitBody, Inside
  <2> QED  BY <1>23, <2>1 DEF DeInitBody
<1>24. ASSUME NEW c \in Callers, MutexPut(c, "deinitPut", "destroy")
      PROVE  LinkInv'
  BY <1>24 DEF MutexPut
<1>25. ASSUME NEW c \in Callers, MutexDestroy(c)
      PROVE  LinkInv'
  BY <1>25 DEF MutexDestroy
<1>26. ASSUME NEW c \in Callers, CheckStep(c)
      PROVE  LinkInv'
  BY <1>26 DEF CheckStep
<1>27. ASSUME NEW c \in Callers, CheckReport(c)
      PROVE  LinkInv'
  BY <1>27 DEF CheckReport
<1> QED
  BY <1>1, <1>2, <1>3, <1>4, <1>5, <1>6, <1>7, <1>8, <1>9, <1>10, <1>11, <1>12, <1>13,
     <1>14, <1>15, <1>16, <1>17, <1>18, <1>19, <1>20, <1>21, <1>22, <1>23, <1>24, <1>25,
     <1>26, <1>27
  DEF Next, Call, Advance

-----------------------------------------------------------------------------
\* Without a heap the list stays empty.
LEMMA RestStep ==
  ASSUME IInv, DebugInv, [Next]_vars
  PROVE  RestInv'
<1> USE DEF IInv, TypeOK, DebugInv, LinkInv, RestInv, Inside, Goto, heapVars, lockVars, listVars
<1>1. ASSUME NEW enable \in BOOLEAN, BufEnableChecks(enable)
      PROVE  RestInv'
  BY <1>1 DEF BufEnableChecks
<1>2. CASE DmaBufferInit
  BY <1>2 DEF DmaBufferInit
<1>3. ASSUME NEW b \in live, OwnerWrites(b)
      PROVE  RestInv'
  <2>1. hdr'[0].prev = hdr[0].prev
    BY <1>3, BitsType, WriteEffect
  <2> QED  BY <1>3, <2>1 DEF OwnerWrites
<1>4. CASE UNCHANGED vars
  BY <1>4 DEF vars
<1>5. ASSUME NEW c \in Callers, NEW size \in Sizes, AllocCall(c, size)
      PROVE  RestInv'
  BY <1>5 DEF AllocCall
<1>6. ASSUME NEW c \in Callers, NEW b \in live, FreeCall(c, b)
      PROVE  RestInv'
  BY <1>6 DEF FreeCall
<1>7. ASSUME NEW c \in Callers, DeInitCall(c)
      PROVE  RestInv'
  BY <1>7 DEF DeInitCall
<1>8. ASSUME NEW c \in Callers, CheckCall(c)
      PROVE  RestInv'
  BY <1>8 DEF CheckCall
<1>9. ASSUME NEW c \in Callers, MutexGet(c, "allocGet", "search")
      PROVE  RestInv'
  BY <1>9 DEF MutexGet
<1>10. ASSUME NEW c \in Callers, MutexRefused(c, "allocGet", FALSE)
      PROVE  RestInv'
  BY <1>10 DEF MutexRefused
<1>11. ASSUME NEW c \in Callers, AllocFail(c)
      PROVE  RestInv'
  BY <1>11 DEF AllocFail
<1>12. ASSUME NEW c \in Callers, AllocFound(c)
      PROVE  RestInv'
  BY <1>12 DEF AllocFound
<1>13. ASSUME NEW c \in Callers, AllocMark(c)
      PROVE  RestInv'
  BY <1>13 DEF AllocMark
<1>14. ASSUME NEW c \in Callers, AllocLink(c)
      PROVE  RestInv'
  <2>1. inited /\ blk[c].start # 0
    BY <1>14, StartsDiffer DEF AllocLink
  <2>2. hdr'[0] = hdr[0]
    BY <1>14, <2>1, BitsType DEF AllocLink
  <2> QED  BY <1>14, <2>1, <2>2 DEF AllocLink
<1>15. ASSUME NEW c \in Callers, AllocFooter(c)
      PROVE  RestInv'
  BY <1>15 DEF AllocFooter
<1>16. ASSUME NEW c \in Callers, MutexPut(c, "put", "idle")
      PROVE  RestInv'
  BY <1>16 DEF MutexPut
<1>17. ASSUME NEW c \in Callers, MutexGet(c, "freeGet", "unlink")
      PROVE  RestInv'
  BY <1>17 DEF MutexGet
<1>18. ASSUME NEW c \in Callers, MutexRefused(c, "freeGet", FALSE)
      PROVE  RestInv'
  BY <1>18 DEF MutexRefused
<1>19. ASSUME NEW c \in Callers, FreeUnlink(c)
      PROVE  RestInv'
  <2>1. hdr'[0] = hdr[0]
    BY <1>19, BitsType DEF FreeUnlink, Unlinked
  <2>2. ~inited => head' = 0
    BY <1>19 DEF FreeUnlink, HeadWithout
  <2> QED  BY <1>19, <2>1, <2>2 DEF FreeUnlink
<1>20. ASSUME NEW c \in Callers, FreeClear(c)
      PROVE  RestInv'
  BY <1>20 DEF FreeClear
<1>21. ASSUME NEW c \in Callers, MutexGet(c, "deinitGet", "deinit")
      PROVE  RestInv'
  BY <1>21 DEF MutexGet
<1>22. ASSUME NEW c \in Callers, MutexRefused(c, "deinitGet", c \in Threads)
      PROVE  RestInv'
  BY <1>22 DEF MutexRefused
<1>23. ASSUME NEW c \in Callers, DeInitBody(c)
      PROVE  RestInv'
  BY <1>23 DEF DeInitBody
<1>24. ASSUME NEW c \in Callers, MutexPut(c, "deinitPut", "destroy")
      PROVE  RestInv'
  BY <1>24 DEF MutexPut
<1>25. ASSUME NEW c \in Callers, MutexDestroy(c)
      PROVE  RestInv'
  BY <1>25 DEF MutexDestroy
<1>26. ASSUME NEW c \in Callers, CheckStep(c)
      PROVE  RestInv'
  BY <1>26 DEF CheckStep
<1>27. ASSUME NEW c \in Callers, CheckReport(c)
      PROVE  RestInv'
  BY <1>27 DEF CheckReport
<1> QED
  BY <1>1, <1>2, <1>3, <1>4, <1>5, <1>6, <1>7, <1>8, <1>9, <1>10, <1>11, <1>12, <1>13,
     <1>14, <1>15, <1>16, <1>17, <1>18, <1>19, <1>20, <1>21, <1>22, <1>23, <1>24, <1>25,
     <1>26, <1>27
  DEF Next, Call, Advance

-----------------------------------------------------------------------------
\* The next search of an empty heap starts at the top.
LEMMA SearchStep ==
  ASSUME IInv, DebugInv, [Next]_vars
  PROVE  SearchInv'
<1> USE DEF IInv, TypeOK, DebugInv, LinkInv, SearchInv, Goto, heapVars, lockVars, listVars
<1>1. ASSUME NEW enable \in BOOLEAN, BufEnableChecks(enable)
      PROVE  SearchInv'
  BY <1>1 DEF BufEnableChecks
<1>2. CASE DmaBufferInit
  BY <1>2 DEF DmaBufferInit
<1>3. ASSUME NEW b \in live, OwnerWrites(b)
      PROVE  SearchInv'
  BY <1>3 DEF OwnerWrites
<1>4. CASE UNCHANGED vars
  BY <1>4 DEF vars
<1>5. ASSUME NEW c \in Callers, NEW size \in Sizes, AllocCall(c, size)
      PROVE  SearchInv'
  BY <1>5 DEF AllocCall
<1>6. ASSUME NEW c \in Callers, NEW b \in live, FreeCall(c, b)
      PROVE  SearchInv'
  BY <1>6 DEF FreeCall
<1>7. ASSUME NEW c \in Callers, DeInitCall(c)
      PROVE  SearchInv'
  BY <1>7 DEF DeInitCall
<1>8. ASSUME NEW c \in Callers, CheckCall(c)
      PROVE  SearchInv'
  BY <1>8 DEF CheckCall
<1>9. ASSUME NEW c \in Callers, MutexGet(c, "allocGet", "search")
      PROVE  SearchInv'
  BY <1>9 DEF MutexGet
<1>10. ASSUME NEW c \in Callers, MutexRefused(c, "allocGet", FALSE)
      PROVE  SearchInv'
  BY <1>10 DEF MutexRefused
<1>11. ASSUME NEW c \in Callers, AllocFail(c)
      PROVE  SearchInv'
  BY <1>11 DEF AllocFail
<1>12. ASSUME NEW c \in Callers, AllocFound(c)
      PROVE  SearchInv'
  BY <1>12 DEF AllocFound
<1>13. ASSUME NEW c \in Callers, AllocMark(c)
      PROVE  SearchInv'
  BY <1>13 DEF AllocMark
<1>14. ASSUME NEW c \in Callers, AllocLink(c)
      PROVE  SearchInv'
  BY <1>14 DEF AllocLink
<1>15. ASSUME NEW c \in Callers, AllocFooter(c)
      PROVE  SearchInv'
  BY <1>15 DEF AllocFooter
<1>16. ASSUME NEW c \in Callers, MutexPut(c, "put", "idle")
      PROVE  SearchInv'
  BY <1>16 DEF MutexPut
<1>17. ASSUME NEW c \in Callers, MutexGet(c, "freeGet", "unlink")
      PROVE  SearchInv'
  BY <1>17 DEF MutexGet
<1>18. ASSUME NEW c \in Callers, MutexRefused(c, "freeGet", FALSE)
      PROVE  SearchInv'
  BY <1>18 DEF MutexRefused
<1>19. ASSUME NEW c \in Callers, FreeUnlink(c)
      PROVE  SearchInv'
  BY <1>19 DEF FreeUnlink
<1>20. ASSUME NEW c \in Callers, FreeClear(c)
      PROVE  SearchInv'
  BY <1>20 DEF FreeClear
<1>21. ASSUME NEW c \in Callers, MutexGet(c, "deinitGet", "deinit")
      PROVE  SearchInv'
  BY <1>21 DEF MutexGet
<1>22. ASSUME NEW c \in Callers, MutexRefused(c, "deinitGet", c \in Threads)
      PROVE  SearchInv'
  BY <1>22 DEF MutexRefused
<1>23. ASSUME NEW c \in Callers, DeInitBody(c)
      PROVE  SearchInv'
  BY <1>23 DEF DeInitBody
<1>24. ASSUME NEW c \in Callers, MutexPut(c, "deinitPut", "destroy")
      PROVE  SearchInv'
  BY <1>24 DEF MutexPut
<1>25. ASSUME NEW c \in Callers, MutexDestroy(c)
      PROVE  SearchInv'
  BY <1>25 DEF MutexDestroy
<1>26. ASSUME NEW c \in Callers, CheckStep(c)
      PROVE  SearchInv'
  BY <1>26 DEF CheckStep
<1>27. ASSUME NEW c \in Callers, CheckReport(c)
      PROVE  SearchInv'
  BY <1>27 DEF CheckReport
<1> QED
  BY <1>1, <1>2, <1>3, <1>4, <1>5, <1>6, <1>7, <1>8, <1>9, <1>10, <1>11, <1>12, <1>13,
     <1>14, <1>15, <1>16, <1>17, <1>18, <1>19, <1>20, <1>21, <1>22, <1>23, <1>24, <1>25,
     <1>26, <1>27
  DEF Next, Call, Advance

-----------------------------------------------------------------------------
(* What the list holds after a step on it.                                 *)

LEMMA LinkAdds ==
  ASSUME IInv, DebugInv, NEW c \in Callers, AllocLink(c)
  PROVE  /\ inited /\ blk[c] \in live /\ blk[c] \notin Listed
         /\ Listed' = Listed \cup {blk[c]}
<1>1. /\ pc[c] = "link" /\ pc'[c] = "footer" /\ blk' = blk /\ live' = live
      /\ \A d \in Callers \ {c} : pc'[d] = pc[d]
  BY DEF IInv, TypeOK, AllocLink, Goto, heapVars
<1>2. inited /\ blk[c] \in live
  BY <1>1 DEF DebugInv, LinkInv
<1>3. \A d \in Callers \ {c} : pc[d] \notin {"link", "clear"}
  BY <1>1, <1>2, AloneInside DEF Inside
<1> QED  BY <1>1, <1>2, <1>3 DEF Listed

LEMMA UnlinkDrops ==
  ASSUME IInv, NEW c \in Callers, FreeUnlink(c), inited
  PROVE  /\ blk[c] \in Listed /\ blk[c] \in live /\ FreedLine(blk[c]) = blk[c].start
         /\ Listed' = Listed \ {blk[c]}
<1>1. /\ pc[c] = "unlink" /\ pc'[c] = "clear" /\ blk' = blk /\ live' = live
      /\ \A d \in Callers \ {c} : pc'[d] = pc[d]
  BY DEF IInv, TypeOK, FreeUnlink, Goto, heapVars
<1>2. blk[c] \in live
  BY <1>1 DEF IInv, CallInv, Freeing
<1>3. \A d \in Callers \ {c} : pc[d] \notin {"link", "clear"}
  BY <1>1, AloneInside DEF Inside
<1>4. FreedLine(blk[c]) = blk[c].start
  BY <1>2, FreedLineOfBlock DEF IInv, TypeOK, HeapInv
<1> QED  BY <1>1, <1>2, <1>3, <1>4 DEF Listed

-----------------------------------------------------------------------------
(* The signatures.                                                         *)

\* The footer lies in the lines of its block, however the size is rounded up.
LEMMA FooterFits ==
  ASSUME IInv, checks, NEW b \in live
  PROVE  FooterLine(b) \in Extent(b)
<1>1. /\ b.start \in Int /\ b.n \in Int /\ b.size \in Nat /\ b.n >= 2
      /\ b.start * 32 + 20 + b.size + 4 <= (b.start + b.n) * 32
  BY BitsType DEF IInv, TypeOK, Block, Line, HeapInv, InUse, LineSz, HdrSz, FooterSz
<1> DEFINE s == b.size
           n == b.n
<1>2. s + 24 <= n * 32 /\ s \in Nat /\ n \in Int
  BY <1>1
<1> HIDE DEF s, n
<1>3. (s + 3) \div 4 \in Nat /\ 4 * ((s + 3) \div 4) + 24 <= n * 32
  BY <1>2
<1>4. (4 * ((s + 3) \div 4) + 20) \div 32 \in 0 .. (n - 1)
  BY <1>2, <1>3
<1>5. FooterLine(b) = b.start + (4 * ((b.size + 3) \div 4) + 20) \div 32
  BY <1>1, <1>3 DEF FooterLine, BlkSize, RoundUp4, HdrSz, FooterSz, LineSz, s
<1> QED  BY <1>1, <1>4, <1>5 DEF Extent, s, n

\* The payload lies in the other lines of its block.
LEMMA PayloadFits ==
  ASSUME IInv, checks, NEW b \in live
  PROVE  PayloadLines(b) \subseteq Extent(b) \ {b.start}
<1>1. /\ b.start \in Int /\ b.n \in Int /\ b.size \in Nat /\ b.n >= 2 /\ b.start >= 1
      /\ b.ptr = b.start * 32 + 20 /\ b.ptr + b.size + 4 <= (b.start + b.n) * 32
  BY BitsType DEF IInv, TypeOK, Block, Line, HeapInv, InUse, LineSz, HdrSz, FooterSz
<1>2. b.ptr \div 32 = b.start
  BY <1>1
<1>3. (b.ptr + b.size - 1) \div 32 <= b.start + b.n - 1
  BY <1>1
<1> QED  BY <1>1, <1>2, <1>3 DEF PayloadLines, Extent, LineSz

\* A signature is lost only with its block: its line is in nobody's payload.
LEMMA SignStep ==
  ASSUME IInv, DebugInv, [Next]_vars
  PROVE  SignInv'
<1>0. SignInv
  BY DEF DebugInv
<1>1. CASE Resting
  BY <1>0, <1>1 DEF Resting, SignInv, FooterLine, BlkSize
<1>2. ASSUME NEW c \in Callers, AllocLink(c)
      PROVE  SignInv'
  <2>1. inited /\ blk[c] \in live /\ Listed' = Listed \cup {blk[c]} /\ blk[c] \notin Listed
    BY <1>2, LinkAdds
  <2>2. \A l \in Line : l # blk[c].start =>
          /\ hdr'[l].startSig = hdr[l].startSig
          /\ hdr'[l].endSig = hdr[l].endSig /\ hdr'[l].last = hdr[l].last
    BY <1>2 DEF IInv, TypeOK, Header, AllocLink
  <2>3. hdr'[blk[c].start].startSig /\ hdr'[blk[c].start].last = FooterLine(blk[c])
    BY <1>2, <2>1, StartsDiffer DEF AllocLink
  <2>4. \A b \in Listed : b.start \in Line /\ b.start # blk[c].start
    BY <2>1, StartsDiffer DEF Listed
  <2>5. pc'[c] = "footer" /\ blk' = blk /\ \A d \in Callers \ {c} : pc'[d] = pc[d]
    BY <1>2 DEF IInv, TypeOK, AllocLink, Goto
  <2>6. pc[c] = "link" /\ checks' = checks /\ inited' = inited
    BY <1>2 DEF AllocLink, Goto, heapVars
  <2> QED  BY <1>0, <2>1, <2>2, <2>3, <2>4, <2>5, <2>6 DEF SignInv, FooterLine, BlkSize
<1>3. ASSUME NEW c \in Callers, AllocFooter(c)
      PROVE  SignInv'
  <2>1. /\ pc[c] = "footer" /\ pc'[c] = "put" /\ blk' = blk
        /\ \A d \in Callers \ {c} : pc'[d] = pc[d]
    BY <1>3 DEF IInv, TypeOK, AllocFooter, Goto
  <2>2. Listed' = Listed /\ checks' = checks /\ inited' = inited
    BY <1>3, <2>1 DEF Listed, AllocFooter, heapVars
  <2>3. ASSUME NEW l \in Line
        PROVE  /\ hdr'[l].startSig = hdr[l].startSig /\ hdr'[l].last = hdr[l].last
               /\ hdr'[l].endSig = IF l = blk[c].start THEN TRUE ELSE hdr[l].endSig
    <3>1. hdr[l] \in Header /\ hdr \in [Line -> Header]
      BY DEF IInv, TypeOK
    <3>2. CASE l = blk[c].start
      <4>1. hdr'[l] = [hdr[l] EXCEPT !.endSig = TRUE]
        BY <1>3, <3>1, <3>2 DEF AllocFooter
      <4> QED  BY <3>1, <3>2, <4>1 DEF Header
    <3>3. CASE l # blk[c].start
      BY <1>3, <3>1, <3>3 DEF AllocFooter
    <3> QED  BY <3>2, <3>3
  <2>4. \A b \in Listed : b.start \in Line
    BY StartsDiffer DEF Listed
  <2> SUFFICES ASSUME inited, checks, NEW b \in Listed
               PROVE  /\ hdr'[b.start].startSig /\ hdr'[b.start].last = FooterLine(b)
                      /\ hdr'[b.start].endSig \/ \E d \in Callers : pc'[d] = "footer" /\ blk'[d] = b
    BY <2>2 DEF SignInv, FooterLine, BlkSize
  <2>5. CASE b.start = blk[c].start
    BY <1>0, <2>3, <2>4, <2>5 DEF SignInv
  <2>6. CASE b.start # blk[c].start
    <3>1. \A d \in Callers : blk[d] = b => d # c
      BY <2>6
    <3>2. /\ hdr[b.start].startSig /\ hdr[b.start].last = FooterLine(b)
          /\ hdr[b.start].endSig \/ \E d \in Callers : pc[d] = "footer" /\ blk[d] = b
      BY <1>0 DEF SignInv
    <3>3. /\ hdr'[b.start].startSig = hdr[b.start].startSig
          /\ hdr'[b.start].last = hdr[b.start].last
          /\ hdr'[b.start].endSig = hdr[b.start].endSig
      BY <2>3, <2>4, <2>6
    <3>4. ASSUME NEW d \in Callers, pc[d] = "footer", blk[d] = b
          PROVE  pc'[d] = "footer" /\ blk'[d] = b
      BY <2>1, <3>1, <3>4
    <3> QED  BY <3>2, <3>3, <3>4
  <2> QED  BY <2>5, <2>6
<1>4. ASSUME NEW c \in Callers, FreeUnlink(c)
      PROVE  SignInv'
  <2> SUFFICES ASSUME inited, checks  PROVE SignInv'
    BY <1>4 DEF SignInv, FreeUnlink, heapVars
  <2>1. Listed' = Listed \ {blk[c]} /\ checks' = checks /\ inited' = inited
    BY <1>4, UnlinkDrops DEF FreeUnlink, heapVars
  <2>2. /\ pc[c] = "unlink" /\ blk' = blk /\ \A d \in Callers \ {c} : pc'[d] = pc[d]
    BY <1>4 DEF IInv, TypeOK, FreeUnlink, Goto
  <2>3. \A l \in Line :
          /\ hdr'[l].startSig = hdr[l].startSig /\ hdr'[l].last = hdr[l].last
          /\ hdr'[l].endSig = hdr[l].endSig
    BY <1>4, UnlinkEffect
  <2>4. \A b \in Listed : b.start \in Line
    BY StartsDiffer DEF Listed
  <2> QED  BY <1>0, <2>1, <2>2, <2>3, <2>4 DEF SignInv, FooterLine, BlkSize
<1>5. ASSUME NEW c \in Callers, DeInitBody(c)
      PROVE  SignInv'
  BY <1>5 DEF SignInv, DeInitBody
<1>6. CASE DmaBufferInit
  BY <1>6 DEF IInv, HeapInv, SignInv, Listed, DmaBufferInit
<1>7. ASSUME NEW enable \in BOOLEAN, BufEnableChecks(enable)
      PROVE  SignInv'
  BY <1>7 DEF SignInv, BufEnableChecks, heapVars
<1>8. ASSUME NEW w \in live, OwnerWrites(w)
      PROVE  SignInv'
  <2> SUFFICES ASSUME inited, checks  PROVE SignInv'
    BY <1>8 DEF SignInv, OwnerWrites, heapVars
  <2>1. Listed' = Listed /\ UNCHANGED <<checks, inited, pc, blk>>
    BY <1>8 DEF Listed, OwnerWrites, heapVars
  <2>2. ASSUME NEW b \in Listed
        PROVE  b.start \notin PayloadLines(w)
               /\ (b.start = w.start \/ FooterLine(b) \notin PayloadLines(w))
    <3>1. b \in live /\ b.start \in Extent(b)
      BY BitsType DEF Listed, IInv, TypeOK, Block, Line, HeapInv, InUse, Extent
    <3>2. FooterLine(b) \in Extent(b) /\ PayloadLines(w) \subseteq Extent(w) \ {w.start}
      BY <3>1, FooterFits, PayloadFits
    <3> QED  BY <3>1, <3>2 DEF IInv, HeapInv, BlocksApart
  <2>3. \A b \in Listed : b.start \in Line
    BY StartsDiffer DEF Listed
  <2>4. ASSUME NEW b \in Listed, hdr[b.start].last = FooterLine(b)
        PROVE  /\ hdr[b.start].startSig => hdr'[b.start].startSig
               /\ hdr[b.start].endSig => hdr'[b.start].endSig
               /\ hdr'[b.start].last = hdr[b.start].last
    BY <1>8, <2>2, <2>3, <2>4, WriteEffect
  <2> QED  BY <1>0, <2>1, <2>4 DEF SignInv, FooterLine, BlkSize
<1> QED
  BY <1>1, <1>2, <1>3, <1>4, <1>5, <1>6, <1>7, <1>8, StepKinds DEF ListSteps

-----------------------------------------------------------------------------
(* The order of the list.                                                  *)

LEMMA IdTyped ==
  ASSUME IInv, NEW b \in Listed
  PROVE  /\ b \in live /\ b.start \in Line /\ b.start >= 1
         /\ IdOf(b) \in Nat /\ hdr[b.start].prev \in Line /\ hdr[b.start].next \in Line
<1>1. b \in live /\ b.start \in Line /\ b.start >= 1
  BY StartsDiffer DEF Listed
<1>2. hdr[b.start] \in Header
  BY <1>1 DEF IInv, TypeOK
<1> QED  BY <1>1, <1>2 DEF Header, IdOf

\* The order depends on the links and the ids only.
LEMMA OrderFrame ==
  ASSUME OrderInv, Listed' = Listed, head' = head, allocCnt' = allocCnt,
         \A b \in Listed : /\ hdr'[b.start].id = hdr[b.start].id
                           /\ hdr'[b.start].prev = hdr[b.start].prev
                           /\ hdr'[b.start].next = hdr[b.start].next
  PROVE  OrderInv'
<1>1. \A b \in Listed : Older(b)' = Older(b) /\ Newer(b)' = Newer(b)
  BY DEF Older, Newer, IdOf
<1>2. \A B \in SUBSET Listed : \A s : Newest(B, s)' = Newest(B, s)
  BY DEF Newest, IdOf
<1>3. \A B \in SUBSET Listed : \A s : Oldest(B, s)' = Oldest(B, s)
  BY DEF Oldest, IdOf
<1>4. \A b \in Listed : Older(b) \subseteq Listed /\ Newer(b) \subseteq Listed
  BY DEF Older, Newer
<1> QED  BY <1>1, <1>2, <1>3, <1>4 DEF OrderInv, IdOf

\* A new block is the newest: it goes to the front of the list.
LEMMA OrderLink ==
  ASSUME IInv, DebugInv, inited, checks, NEW c \in Callers, AllocLink(c)
  PROVE  OrderInv'
<1>0. PICK x \in live : x = blk[c]
  BY LinkAdds
<1> DEFINE s == x.start
<1>1. x \in live /\ x \notin Listed /\ Listed' = Listed \cup {x}
  BY <1>0, LinkAdds
<1>2. OrderInv
  BY DEF DebugInv, ListInv
<1>3. s \in Line /\ s >= 1 /\ \A b \in Listed : b.start # s
  BY <1>1, StartsDiffer DEF Listed
<1>4. head' = s /\ allocCnt' = allocCnt + 1 /\ allocCnt \in Nat /\ head \in Line
  BY <1>0 DEF IInv, TypeOK, AllocLink
<1>5. hdr'[s].id = allocCnt /\ hdr'[s].prev = head /\ hdr'[s].next = 0
  BY <1>0, <1>3 DEF AllocLink
<1>6. ASSUME NEW b \in Listed
      PROVE  /\ hdr'[b.start].id = hdr[b.start].id
             /\ hdr'[b.start].prev = hdr[b.start].prev
             /\ hdr'[b.start].next = IF b.start = head THEN s ELSE hdr[b.start].next
  <2>1. b.start \in Line /\ b.start # s /\ b.start # 0 /\ hdr[b.start] \in Header
    BY <1>3, IdTyped DEF IInv, TypeOK
  <2>2. hdr'[b.start] = IF b.start = head THEN [hdr[b.start] EXCEPT !.next = s]
                        ELSE hdr[b.start]
    BY <1>0, <2>1 DEF AllocLink
  <2> QED  BY <2>1, <2>2 DEF Header
<1>7. \A b \in Listed : IdOf(b)' = IdOf(b) /\ IdOf(b) \in Nat /\ IdOf(b) < allocCnt
  BY <1>2, <1>6, IdTyped DEF IdOf, OrderInv
<1>8. IdOf(x)' = allocCnt
  BY <1>5 DEF IdOf, s
<1> HIDE DEF s
<1>9. /\ \A b \in Listed : Older(b)' = Older(b) /\ Newer(b)' = Newer(b) \cup {x}
      /\ Older(x)' = Listed /\ Newer(x)' = {}
  BY <1>1, <1>4, <1>7, <1>8 DEF Older, Newer
<1>10. \A b \in Listed' : IdOf(b)' < allocCnt'
  BY <1>1, <1>4, <1>7, <1>8
<1>11. \A a, b \in Listed' : a # b => IdOf(a)' # IdOf(b)'
  BY <1>1, <1>2, <1>4, <1>7, <1>8 DEF OrderInv
<1>12. Newest(Listed, head)'
  BY <1>1, <1>4, <1>7, <1>8 DEF Newest, s
<1>13. \A b \in Listed' : Newest(Older(b), hdr[b.start].prev)'
  <2>1. \A B \in SUBSET Listed : \A l : Newest(B, l) => Newest(B, l)'
    BY <1>7 DEF Newest
  <2>2. \A b \in Listed : Newest(Older(b), hdr[b.start].prev)'
    <3>1. \A b \in Listed : Older(b) \subseteq Listed /\ Newest(Older(b), hdr[b.start].prev)
      BY <1>2 DEF Older, OrderInv
    <3> QED  BY <1>6, <1>9, <2>1, <3>1
  <2>3. Newest(Older(x), hdr[x.start].prev)'
    <3>1. Newest(Listed, head)
      BY <1>2 DEF OrderInv
    <3> QED  BY <1>5, <1>9, <2>1, <3>1 DEF s
  <2> QED  BY <1>1, <2>2, <2>3
<1>14. \A b \in Listed' : Oldest(Newer(b), hdr[b.start].next)'
  <2>1. Oldest(Newer(x), hdr[x.start].next)'
    BY <1>5, <1>9 DEF Oldest, s
  <2>2. ASSUME NEW b \in Listed
        PROVE  Oldest(Newer(b), hdr[b.start].next)'
    <3>1. Oldest(Newer(b), hdr[b.start].next) /\ Newer(b) \subseteq Listed
      BY <1>2 DEF Newer, OrderInv
    <3>2. CASE Newer(b) = {}
      <4>1. b.start = head
        BY <1>2, <1>7, <3>2 DEF Newer, OrderInv, Newest
      <4> QED  BY <1>6, <1>9, <3>2, <4>1, <1>8, <1>4 DEF Oldest, s
    <3>3. CASE Newer(b) # {}
      <4>1. b.start # head
        <5>1. PICK t \in Listed : t.start = head /\ \A a \in Listed : IdOf(a) <= IdOf(t)
          BY <1>2 DEF OrderInv, Newest
        <5>2. PICK a \in Listed : IdOf(b) < IdOf(a)
          BY <3>3 DEF Newer
        <5> QED  BY <1>7, <5>1, <5>2, StartsDiffer DEF Listed
      <4>2. PICK o \in Newer(b) : o.start = hdr[b.start].next
                                  /\ \A a \in Newer(b) : IdOf(o) <= IdOf(a)
        BY <3>1, <3>3 DEF Oldest
      <4>3. \A a \in Newer(b)' : IdOf(o)' <= IdOf(a)'
        BY <1>4, <1>7, <1>8, <1>9, <3>1, <4>2
      <4>4. Newer(b)' # {} /\ o \in Newer(b)' /\ o.start = hdr'[b.start].next
        BY <1>6, <1>9, <4>1, <4>2
      <4> QED  BY <4>3, <4>4 DEF Oldest
    <3> QED  BY <3>2, <3>3
  <2> QED  BY <1>1, <2>1, <2>2
<1> QED  BY <1>10, <1>11, <1>12, <1>13, <1>14 DEF OrderInv

\* A block that is freed leaves the list: its neighbours become neighbours.
LEMMA OrderUnlink ==
  ASSUME IInv, DebugInv, inited, checks, NEW c \in Callers, FreeUnlink(c)
  PROVE  OrderInv'
<1>0. PICK y \in live : y = blk[c]
  BY UnlinkDrops
<1> DEFINE s == y.start
           p == hdr[s].prev
           n == hdr[s].next
<1>1. y \in Listed /\ Listed' = Listed \ {y} /\ FreedLine(blk[c]) = s
  BY <1>0, UnlinkDrops
<1>2. OrderInv
  BY DEF DebugInv, ListInv
<1>3. allocCnt' = allocCnt /\ head' = IF head = s THEN p ELSE head
  BY <1>1 DEF FreeUnlink, HeadWithout
<1>4. ASSUME NEW b \in Listed
      PROVE  /\ hdr'[b.start].id = hdr[b.start].id
             /\ hdr'[b.start].prev = IF b.start = n THEN p ELSE hdr[b.start].prev
             /\ hdr'[b.start].next = IF b.start = p THEN n ELSE hdr[b.start].next
  <2>1. b.start \in Line /\ b.start # 0
    BY IdTyped
  <2> QED  BY <1>1, <2>1, UnlinkEffect
<1>5. \A b \in Listed : IdOf(b)' = IdOf(b) /\ IdOf(b) \in Nat /\ IdOf(b) < allocCnt /\ b.start # 0
  BY <1>2, <1>4, IdTyped DEF IdOf, OrderInv
<1>6. \A a, b \in Listed : a.start = b.start => a = b
  BY StartsDiffer DEF Listed
<1>7. /\ Newest(Older(y), p) /\ Oldest(Newer(y), n) /\ Newest(Listed, head)
      /\ \A a, b \in Listed : a # b => IdOf(a) # IdOf(b)
      /\ \A b \in Listed : /\ Newest(Older(b), hdr[b.start].prev)
                           /\ Oldest(Newer(b), hdr[b.start].next)
  BY <1>1, <1>2 DEF OrderInv
<1> HIDE DEF s, p, n
<1>8. \A b \in Listed : Older(b)' = Older(b) \ {y} /\ Newer(b)' = Newer(b) \ {y}
  BY <1>1, <1>5 DEF Older, Newer
<1>9. /\ \A B \in SUBSET Listed : \A l : Newest(B, l) => Newest(B, l)'
      /\ \A B \in SUBSET Listed : \A l : Oldest(B, l) => Oldest(B, l)'
  BY <1>5 DEF Newest, Oldest
<1>10. \A b \in Listed' : IdOf(b)' < allocCnt'
  BY <1>1, <1>3, <1>5
<1>11. \A a, b \in Listed' : a # b => IdOf(a)' # IdOf(b)'
  BY <1>1, <1>5, <1>7
<1>12. Newest(Listed, head)'
  <2>1. Newest(Listed \ {y}, head')
    <3>1. CASE head = s
      <4>1. \A b \in Listed : IdOf(b) <= IdOf(y)
        BY <1>1, <1>5, <1>6, <1>7, <3>1 DEF Newest, s
      <4>2. Listed \ {y} = Older(y)
        BY <1>1, <1>5, <1>7, <4>1 DEF Older
      <4> QED  BY <1>3, <1>7, <3>1, <4>2
    <3>2. CASE head # s
      BY <1>1, <1>3, <1>7, <3>2 DEF Newest, s
    <3> QED  BY <3>1, <3>2
  <2> QED  BY <1>1, <1>9, <2>1
<1>13. ASSUME NEW b \in Listed, b # y
       PROVE  Newest(Older(b) \ {y}, IF b.start = n THEN p ELSE hdr[b.start].prev)
  <2>1. CASE b.start = n
    <3>1. b \in Newer(y) /\ \A a \in Newer(y) : IdOf(b) <= IdOf(a)
      BY <1>5, <1>6, <1>7, <2>1 DEF Oldest, Newer
    <3>2. Older(b) \ {y} = Older(y)
      BY <1>1, <1>5, <1>7, <3>1 DEF Older, Newer
    <3> QED  BY <1>7, <2>1, <3>2
  <2>2. CASE b.start # n /\ y \notin Older(b)
    <3>1. Older(b) \ {y} = Older(b)
      BY <2>2
    <3> QED  BY <1>7, <2>2, <3>1
  <2>3. CASE b.start # n /\ y \in Older(b)
    <3>1. b \in Newer(y)
      BY <2>3 DEF Older, Newer
    <3>2. PICK o \in Newer(y) : o.start = n /\ \A a \in Newer(y) : IdOf(o) <= IdOf(a)
      BY <1>7, <3>1 DEF Oldest
    <3>3. o \in Listed /\ IdOf(o) < IdOf(b) /\ IdOf(y) < IdOf(o)
      BY <1>5, <1>7, <2>3, <3>1, <3>2 DEF Newer
    <3>4. PICK m \in Older(b) : m.start = hdr[b.start].prev
                                /\ \A a \in Older(b) : IdOf(a) <= IdOf(m)
      BY <1>7, <2>3 DEF Newest
    <3>5. m # y
      BY <1>1, <1>5, <3>3, <3>4 DEF Older
    <3> QED  BY <2>3, <3>4, <3>5 DEF Newest
  <2> QED  BY <2>1, <2>2, <2>3
<1>14. ASSUME NEW b \in Listed, b # y
       PROVE  Oldest(Newer(b) \ {y}, IF b.start = p THEN n ELSE hdr[b.start].next)
  <2>1. CASE b.start = p
    <3>1. b \in Older(y) /\ \A a \in Older(y) : IdOf(a) <= IdOf(b)
      BY <1>5, <1>6, <1>7, <2>1 DEF Newest, Older
    <3>2. Newer(b) \ {y} = Newer(y)
      BY <1>1, <1>5, <1>7, <3>1 DEF Older, Newer
    <3> QED  BY <1>7, <2>1, <3>2
  <2>2. CASE b.start # p /\ y \notin Newer(b)
    <3>1. Newer(b) \ {y} = Newer(b)
      BY <2>2
    <3> QED  BY <1>7, <2>2, <3>1
  <2>3. CASE b.start # p /\ y \in Newer(b)
    <3>1. b \in Older(y)
      BY <2>3 DEF Older, Newer
    <3>2. PICK m \in Older(y) : m.start = p /\ \A a \in Older(y) : IdOf(a) <= IdOf(m)
      BY <1>7, <3>1 DEF Newest
    <3>3. m \in Listed /\ IdOf(b) < IdOf(m) /\ IdOf(m) < IdOf(y)
      BY <1>5, <1>7, <2>3, <3>1, <3>2 DEF Older
    <3>4. PICK o \in Newer(b) : o.start = hdr[b.start].next
                                /\ \A a \in Newer(b) : IdOf(o) <= IdOf(a)
      BY <1>7, <2>3 DEF Oldest
    <3>5. o # y
      BY <1>1, <1>5, <3>3, <3>4 DEF Newer
    <3> QED  BY <2>3, <3>4, <3>5 DEF Oldest
  <2> QED  BY <2>1, <2>2, <2>3
<1>15. \A b \in Listed : Older(b) \ {y} \subseteq Listed /\ Newer(b) \ {y} \subseteq Listed
  BY DEF Older, Newer
<1>16. \A b \in Listed' : Newest(Older(b), hdr[b.start].prev)'
  BY <1>1, <1>4, <1>8, <1>9, <1>13, <1>15
<1>17. \A b \in Listed' : Oldest(Newer(b), hdr[b.start].next)'
  BY <1>1, <1>4, <1>8, <1>9, <1>14, <1>15
<1> QED  BY <1>10, <1>11, <1>12, <1>16, <1>17 DEF OrderInv

\* The counters of CyU3PBufGetCounts keep up with the list.
LEMMA ListStep ==
  ASSUME IInv, DebugInv, [Next]_vars
  PROVE  ListInv'
<1>0. ListInv
  BY DEF DebugInv
<1>1. CASE Resting
  <2> SUFFICES ASSUME inited, checks  PROVE OrderInv' /\ CountInv'
    BY <1>1 DEF Resting, ListInv
  <2>1. OrderInv'
    BY <1>0, <1>1, OrderFrame DEF Resting, ListInv
  <2> QED  BY <1>0, <1>1, <2>1 DEF Resting, ListInv, CountInv
<1>2. ASSUME NEW c \in Callers, AllocLink(c)
      PROVE  ListInv'
  <2> SUFFICES ASSUME inited, checks  PROVE OrderInv' /\ CountInv'
    BY <1>2 DEF AllocLink, ListInv, heapVars
  <2>1. Listed' = Listed \cup {blk[c]} /\ blk[c] \notin Listed
    BY <1>2, LinkAdds
  <2>2. IsFiniteSet(Listed)' /\ Cardinality(Listed)' = Cardinality(Listed) + 1
    BY <1>0, <2>1, FS_AddElement DEF ListInv, CountInv
  <2>3. allocCnt' = allocCnt + 1 /\ freeCnt' = freeCnt /\ inits' = inits
        /\ allocCnt \in Nat /\ freeCnt \in Nat
    BY <1>2 DEF IInv, TypeOK, AllocLink
  <2>4. CountInv'
    BY <1>0, <2>2, <2>3, FS_CardinalityType DEF ListInv, CountInv
  <2> QED  BY <1>2, <2>4, OrderLink
<1>3. ASSUME NEW c \in Callers, AllocFooter(c)
      PROVE  ListInv'
  <2> SUFFICES ASSUME inited, checks  PROVE OrderInv' /\ CountInv'
    BY <1>3 DEF AllocFooter, ListInv, heapVars
  <2>1. Listed' = Listed /\ UNCHANGED <<inits, allocCnt, freeCnt, head>>
    BY <1>3 DEF IInv, TypeOK, Listed, AllocFooter, Goto, heapVars
  <2>2. ASSUME NEW b \in Listed
        PROVE  /\ hdr'[b.start].id = hdr[b.start].id
               /\ hdr'[b.start].prev = hdr[b.start].prev
               /\ hdr'[b.start].next = hdr[b.start].next
    <3>1. b.start \in Line /\ hdr[b.start] \in Header /\ hdr \in [Line -> Header]
      BY IdTyped DEF IInv, TypeOK
    <3>2. hdr'[b.start] \in {hdr[b.start], [hdr[b.start] EXCEPT !.endSig = TRUE]}
      BY <1>3, <3>1 DEF AllocFooter
    <3> QED  BY <3>1, <3>2 DEF Header
  <2>3. OrderInv'
    BY <1>0, <2>1, <2>2, OrderFrame DEF ListInv
  <2> QED  BY <1>0, <2>1, <2>3 DEF ListInv, CountInv
<1>4. ASSUME NEW c \in Callers, FreeUnlink(c)
      PROVE  ListInv'
  <2> SUFFICES ASSUME inited, checks  PROVE OrderInv' /\ CountInv'
    BY <1>4 DEF FreeUnlink, ListInv, heapVars
  <2>1. Listed' = Listed \ {blk[c]} /\ blk[c] \in Listed
    BY <1>4, UnlinkDrops
  <2>2. IsFiniteSet(Listed)' /\ Cardinality(Listed)' = Cardinality(Listed) - 1
    BY <1>0, <2>1, FS_RemoveElement DEF ListInv, CountInv
  <2>3. freeCnt' = freeCnt + 1 /\ allocCnt' = allocCnt /\ inits' = inits
        /\ allocCnt \in Nat /\ freeCnt \in Nat
    BY <1>4 DEF IInv, TypeOK, FreeUnlink
  <2>4. CountInv'
    BY <1>0, <2>2, <2>3, FS_CardinalityType DEF ListInv, CountInv
  <2> QED  BY <1>4, <2>4, OrderUnlink
<1>5. ASSUME NEW c \in Callers, DeInitBody(c)
      PROVE  ListInv'
  BY <1>5 DEF ListInv, DeInitBody
<1>6. CASE DmaBufferInit
  <2>1. Listed' = {} /\ UNCHANGED <<head, allocCnt, freeCnt>>
    BY <1>6 DEF IInv, HeapInv, Listed, DmaBufferInit, listVars
  <2>2. head = 0 /\ (inits' = 1 => allocCnt = 0 /\ freeCnt = 0)
    BY <1>6 DEF IInv, TypeOK, DebugInv, RestInv, DmaBufferInit
  <2>3. OrderInv'
    BY <2>1, <2>2 DEF OrderInv, Newest
  <2>4. CountInv'
    BY <2>1, <2>2, FS_EmptySet DEF CountInv
  <2> QED  BY <2>3, <2>4 DEF ListInv
<1>7. ASSUME NEW enable \in BOOLEAN, BufEnableChecks(enable)
      PROVE  ListInv'
  BY <1>7 DEF ListInv, BufEnableChecks, heapVars
<1>8. ASSUME NEW w \in live, OwnerWrites(w)
      PROVE  ListInv'
  <2> SUFFICES ASSUME inited, checks  PROVE OrderInv' /\ CountInv'
    BY <1>8 DEF OwnerWrites, ListInv, heapVars
  <2>1. Listed' = Listed /\ UNCHANGED <<inits, allocCnt, freeCnt, head>>
    BY <1>8 DEF Listed, OwnerWrites, heapVars
  <2>2. OrderInv'
    BY <1>0, <1>8, <2>1, OrderFrame, WriteEffect, IdTyped DEF ListInv
  <2> QED  BY <1>0, <2>1, <2>2 DEF ListInv, CountInv
<1> QED
  BY <1>1, <1>2, <1>3, <1>4, <1>5, <1>6, <1>7, <1>8, StepKinds DEF ListSteps

-----------------------------------------------------------------------------
(* The theorems.                                                           *)

LEMMA DebugInit == Init => DebugInv
<1> SUFFICES ASSUME Init PROVE DebugInv
  OBVIOUS
<1>1. LinkInv /\ SearchInv /\ SignInv /\ ListInv
  BY DEF Init, LinkInv, SearchInv, SignInv, ListInv
<1>2. RestInv
  BY BitsType DEF Init, RestInv, NoHeader, Inside
<1> QED  BY <1>1, <1>2 DEF DebugInv

\* DebugInv holds in every reachable state.
THEOREM DebugInductive == Spec => []DebugInv
<1>1. IInv /\ DebugInv /\ [Next]_vars => DebugInv'
  BY LinkStep, RestStep, SearchStep, SignStep, ListStep DEF DebugInv
<1> QED  BY Inductive, DebugInit, <1>1, PTL DEF Spec

\* No block whose owner kept to its payload is ever reported as corrupt, whoever
\* allocates, frees or writes beside it.
THEOREM ReportsAreTrue == Spec => []NoFalseReport
<1>1. DebugInv => NoFalseReport
  BY DEF DebugInv, SignInv, NoFalseReport
<1> QED  BY DebugInductive, <1>1, PTL

\* Whenever the bitmap has no bits past the heap, an empty heap serves any
\* request that fits it: searchPos leaves no line out of the search.
THEOREM EmptyHeapServes ==
  ASSUME Lines % WordBits = 0
  PROVE  Spec => []WholeHeapServes
<1>1. IInv /\ DebugInv => WholeHeapServes
  <2> SUFFICES ASSUME IInv, DebugInv, inited, live = {}, holder = {}, NEW size \in Sizes,
                      LinesFor(BlkSize(size)) < Lines
               PROVE  Candidates(LinesFor(BlkSize(size))) # {}
    BY DEF WholeHeapServes
  <2> DEFINE n == LinesFor(BlkSize(size))
  <2>1. \A c \in Callers : pc[c] # "mark"
    BY DEF IInv, MutexInv, MutualExclusion, Inside
  <2>2. searchPos = 0
    BY <2>1 DEF DebugInv, SearchInv
  <2>3. Bits = Lines /\ used = {}
    BY WholeWords DEF IInv, HeapInv, BitmapExact
  <2>4. n \in Nat
    <3>1. BlkSize(size) \in Nat
      BY ConstantsAssumption DEF IInv, TypeOK, BlkSize, RoundUp4, HdrSz, FooterSz
    <3> QED  BY <3>1, EnoughLines
  <2>5. searchPos * WordBits = 0
    BY <2>2, ConstantsAssumption
  <2>6. n \in RunEnds(searchPos * WordBits, Bits, n)
    BY <2>3, <2>4, <2>5, ConstantsAssumption DEF RunEnds
  <2> QED  BY <2>6 DEF Candidates
<1> QED  BY Inductive, DebugInductive, <1>1, PTL

\* Following prev_blk from glBufInUseList meets exactly the blocks in use, newest
\* first, next_blk is the way back, and the counters agree.
THEOREM ListIsExact == Spec => []ListExact
<1>1. IInv /\ DebugInv => ListExact
  <2> SUFFICES ASSUME IInv, DebugInv, inited, checks
               PROVE  /\ Newest(Listed, head)
                      /\ \A b \in Listed :
                           /\ Newest(Older(b), hdr[b.start].prev)
                           /\ hdr[b.start].prev # 0 => hdr[hdr[b.start].prev].next = b.start
                           /\ b.start = head => hdr[b.start].next = 0
                           /\ \A a \in Listed : a # b => IdOf(a) # IdOf(b)
                      /\ inits = 1 => allocCnt - freeCnt = Cardinality(Listed)
    BY DEF ListExact
  <2>1. OrderInv /\ CountInv
    BY DEF DebugInv, ListInv
  <2>2. \A b \in Listed : IdOf(b) \in Nat
    BY IdTyped
  <2>3. \A a, b \in Listed : a.start = b.start => a = b
    BY StartsDiffer DEF Listed
  <2>4. ASSUME NEW b \in Listed, hdr[b.start].prev # 0
        PROVE  hdr[hdr[b.start].prev].next = b.start
    <3>1. PICK p \in Older(b) : p.start = hdr[b.start].prev
                                /\ \A a \in Older(b) : IdOf(a) <= IdOf(p)
      BY <2>1, <2>4 DEF OrderInv, Newest
    <3>2. p \in Listed /\ b \in Newer(p)
      BY <3>1 DEF Older, Newer
    <3>3. PICK o \in Newer(p) : o.start = hdr[p.start].next
                                /\ \A a \in Newer(p) : IdOf(o) <= IdOf(a)
      BY <2>1, <3>2 DEF OrderInv, Oldest
    <3>4. o = b
      BY <2>1, <2>2, <3>1, <3>2, <3>3 DEF OrderInv, Older, Newer
    <3> QED  BY <3>1, <3>3, <3>4
  <2>5. ASSUME NEW b \in Listed, b.start = head
        PROVE  hdr[b.start].next = 0
    <3>1. \A a \in Listed : IdOf(a) <= IdOf(b)
      BY <2>1, <2>3, <2>5 DEF OrderInv, Newest
    <3>2. Newer(b) = {}
      BY <2>2, <3>1 DEF Newer
    <3> QED  BY <2>1, <3>2 DEF OrderInv, Oldest
  <2> QED  BY <2>1, <2>4, <2>5 DEF OrderInv, CountInv
<1> QED  BY Inductive, DebugInductive, <1>1, PTL

-----------------------------------------------------------------------------
(* The loops over bytes, for any memory, addresses and lengths.             *)

LEMMA EightOf ==
  ASSUME NEW o \in Nat
  PROVE  o \div 8 \in Nat /\ o % 8 \in 0 .. 7 /\ o = 8 * (o \div 8) + (o % 8)
  OBVIOUS

\* Groups of eight and a rest are the whole block.
LEMMA SetIsExact ==
  ASSUME NEW ptr \in Nat, NEW count \in Nat, NEW mem, NEW data
  PROVE  MemSet(mem, ptr, data, count)
           = [a \in DOMAIN mem |-> IF a \in Span(ptr, count) THEN data ELSE mem[a]]
<1> DEFINE groups == {ptr + 8 * j + i : j \in 0 .. (count \div 8) - 1, i \in 0 .. 7}
           rest   == {ptr + 8 * (count \div 8) + i : i \in 0 .. (count % 8) - 1}
<1>1. groups \cup rest \subseteq Span(ptr, count)
  BY DEF Span
<1>2. ASSUME NEW a \in Span(ptr, count) PROVE a \in groups \cup rest
  <2>1. PICK o \in 0 .. count - 1 : a = ptr + o
    <3>1. a - ptr \in 0 .. count - 1 /\ a = ptr + (a - ptr)
      BY DEF Span
    <3> QED BY <3>1
  <2>2. PICK j \in Nat, i \in 0 .. 7 : o = 8 * j + i
    <3>1. o \div 8 \in Nat /\ o % 8 \in 0 .. 7 /\ o = 8 * (o \div 8) + (o % 8)
      BY EightOf
    <3> QED BY <3>1
  <2>3. CASE j < count \div 8
    <3>1. j \in 0 .. (count \div 8) - 1 /\ a = ptr + 8 * j + i
      BY <2>1, <2>2, <2>3
    <3> QED BY <3>1
  <2>4. CASE ~(j < count \div 8)
    <3>1. j = count \div 8 /\ i \in 0 .. (count % 8) - 1
      BY <2>2, <2>4
    <3>2. a = ptr + 8 * (count \div 8) + i
      BY <2>1, <2>2, <3>1
    <3> QED BY <3>1, <3>2
  <2> QED BY <2>3, <2>4
<1>3. groups \cup rest = Span(ptr, count)
  <2> HIDE DEF groups, rest
  <2> QED BY <1>1, <1>2
<1>4. MemSet(mem, ptr, data, count)
        = [a \in DOMAIN mem |-> IF a \in groups \cup rest THEN data ELSE mem[a]]
  BY DEF MemSet
<1> HIDE DEF groups, rest
<1> QED BY <1>3, <1>4

-----------------------------------------------------------------------------
\* A memory of addresses and values, a target and a source block in it.
Blk(A, V, mem, dest, src, count) ==
  /\ A \subseteq Int /\ mem \in [A -> V]
  /\ dest \in Nat /\ src \in Nat /\ count \in Nat
  /\ Span(dest, count) \subseteq A /\ Span(src, count) \subseteq A

\* One byte of the copy, as a function of the memory and the offset.
copyByte(A, V, dest, src, count) ==
  [p \in [A -> V] \X (0 .. count - 1) |->
     [p[1] EXCEPT ![dest + p[2]] = p[1][src + p[2]]]]

\* What the two orders are, with one offset for each turn.
LEMMA OrderShape ==
  ASSUME NEW dest \in Nat, NEW src \in Nat, NEW count \in Nat
  PROVE  /\ Order(dest, src, count) \in [1 .. count -> 0 .. count - 1]
         /\ Order(dest, src, count) \in Seq(0 .. count - 1)
         /\ Len(Order(dest, src, count)) = count
<1>1. Upwards(count) \in [1 .. count -> 0 .. count - 1]
  BY DEF Upwards
<1>2. Downwards(count) \in [1 .. count -> 0 .. count - 1]
  <2> SUFFICES ASSUME NEW k \in 1 .. count
               PROVE  (IF k <= 8 * (count \div 8) THEN count - 8 * ((k - 1) \div 8 + 1) + ((k - 1) % 8)
                       ELSE count - k) \in 0 .. count - 1
    BY DEF Downwards
  <2>1. CASE k <= 8 * (count \div 8)
    <3>1. (k - 1) \div 8 + 1 <= count \div 8 /\ 8 * (count \div 8) <= count
      BY <2>1
    <3>2. (k - 1) % 8 \in 0 .. 7 /\ (k - 1) \div 8 \in Nat
      OBVIOUS
    <3> QED BY <2>1, <3>1, <3>2
  <2> QED BY <2>1
<1>3. Order(dest, src, count) \in [1 .. count -> 0 .. count - 1]
  BY <1>1, <1>2 DEF Order
<1> QED BY <1>3

\* The memories a copy goes through.
CopyRun(h, A, V, mem, dest, src, count) ==
  /\ h \in [0 .. count -> [A -> V]] /\ h[0] = mem
  /\ \A k \in 1 .. count :
       LET off == Order(dest, src, count)[k]
       IN  h[k] = [h[k - 1] EXCEPT ![dest + off] = h[k - 1][src + off]]
  /\ MemCopy(mem, dest, src, count) = h[count]

LEMMA CopyTrace ==
  ASSUME NEW A, NEW V, NEW mem, NEW dest, NEW src, NEW count,
         Blk(A, V, mem, dest, src, count)
  PROVE  \E h : CopyRun(h, A, V, mem, dest, src, count)
<1> DEFINE s == Order(dest, src, count)
           M == [A -> V]
           S == 0 .. count - 1
           op == copyByte(A, V, dest, src, count)
           Eq(f) == f = [t \in SUBSET (1 .. count) |->
                           IF t = {} THEN mem
                           ELSE [f[t \ {Max(t)}] EXCEPT ![dest + s[Max(t)]]
                                   = f[t \ {Max(t)}][src + s[Max(t)]]]]
           f == CHOOSE iter : Eq(iter)
<1>1. count \in Nat /\ s \in [1 .. count -> S] /\ s \in Seq(S) /\ Len(s) = count /\ DOMAIN s = 1 .. count
  BY OrderShape DEF Blk
<1>2. \A off \in S : dest + off \in A /\ src + off \in A
  BY DEF Blk, Span
<1>3. Data(M, S, mem, op, s)
  <2>1. ASSUME NEW p \in M \X S PROVE [p[1] EXCEPT ![dest + p[2]] = p[1][src + p[2]]] \in M
    <3>1. p[1] \in M /\ src + p[2] \in A
      BY <1>2
    <3> QED BY <3>1
  <2>2. op \in [M \X S -> M]
    <3> HIDE DEF M, S
    <3> QED BY <2>1 DEF copyByte, M, S
  <2> QED BY <1>1, <2>2 DEF Data, Blk
<1>4. MemCopy(mem, dest, src, count) = f[1 .. count]
  <2> HIDE DEF s
  <2> QED BY <1>1 DEF MemCopy, FoldLeft, MapThenFoldSet, s
<1>5. Eq(f)
  <2> HIDE DEF s, M, S, op
  <2>1. PICK g : Solution(g, M, S, mem, op, s)
    BY <1>3, FoldExists
  <2>2. ASSUME NEW t \in SUBSET (1 .. count), t # {}
        PROVE  g[t] = [g[t \ {Max(t)}] EXCEPT ![dest + s[Max(t)]] = g[t \ {Max(t)}][src + s[Max(t)]]]
    <3>1. t \ {Max(t)} \in SUBSET (1 .. count) /\ s[Max(t)] \in S /\ g[t] = op[<<g[t \ {Max(t)}], s[Max(t)]>>]
      BY <1>1, <2>1, <2>2 DEF Solution
    <3>2. g[t \ {Max(t)}] \in M
      BY <1>1, <2>1, <3>1 DEF Solution
    <3> QED BY <3>1, <3>2 DEF op, copyByte, M, S
  <2>3. g \in [SUBSET (1 .. count) -> M] /\ g[{}] = mem
    BY <1>1, <2>1 DEF Solution
  <2>4. Eq(g)
    BY <2>2, <2>3
  <2> HIDE DEF Eq
  <2> QED BY <2>4
<1>6. Recursion(f, M, mem, op, s)
  <2> HIDE DEF s, f
  <2>1. \A t \in SUBSET (1 .. count) :
          f[t] = IF t = {} THEN mem
                 ELSE [f[t \ {Max(t)}] EXCEPT ![dest + s[Max(t)]] = f[t \ {Max(t)}][src + s[Max(t)]]]
    BY <1>5
  <2>2. ASSUME NEW t \in SUBSET (1 .. count), t # {} PROVE s[Max(t)] \in S
    <3> HIDE DEF S
    <3>1. Max(t) \in 1 .. count
      BY <1>1, <2>2, GreatestIn
    <3> QED BY <1>1, <3>1
  <2>3. ASSUME NEW t \in SUBSET (1 .. count), t # {}, f[t \ {Max(t)}] \in M
        PROVE  f[t] = op[<<f[t \ {Max(t)}], s[Max(t)]>>]
    <3>1. <<f[t \ {Max(t)}], s[Max(t)]>> \in M \X S
      BY <2>2, <2>3
    <3> HIDE DEF M, S
    <3> QED BY <2>1, <2>3, <3>1 DEF copyByte, M, S
  <2> HIDE DEF op, M, S
  <2> QED BY <1>1, <2>1, <2>3 DEF Recursion
<1>7. PICK h : Trace(h, M, S, mem, op, s) /\ f[1 .. count] = h[count]
  <2> HIDE DEF s, M, S, op, f
  <2> QED BY <1>1, <1>3, <1>6, FoldIsTrace
<1>8. ASSUME NEW k \in 1 .. count
      PROVE  h[k] = [h[k - 1] EXCEPT ![dest + s[k]] = h[k - 1][src + s[k]]]
  <2>1. k - 1 \in 0 .. count /\ s[k] \in S
    BY <1>1
  <2> HIDE DEF s, M, S, op
  <2>2. h[k - 1] \in M /\ h[k] = op[<<h[k - 1], s[k]>>]
    BY <1>1, <1>7, <2>1 DEF Trace
  <2> QED BY <2>1, <2>2 DEF op, copyByte, M, S
<1>9. h \in [0 .. count -> M] /\ h[0] = mem
  <2> HIDE DEF s, M, S, op
  <2> QED BY <1>1, <1>7 DEF Trace
<1> HIDE DEF f, op
<1> QED BY <1>4, <1>7, <1>8, <1>9 DEF CopyRun

\* The turn of a group: its number and the place in it.
LEMMA InGroup ==
  ASSUME NEW g \in Nat, NEW r \in 0 .. 7
  PROVE  (8 * g + r) \div 8 = g /\ (8 * g + r) % 8 = r
  OBVIOUS

\* A later offset of the way down is lower, or at most seven above in the same group.
LEMMA DownwardsFalls ==
  ASSUME NEW count \in Nat, NEW k \in 1 .. count, NEW i \in 1 .. k - 1
  PROVE  LET s == Downwards(count)
         IN  s[k] < s[i] \/ (s[k] - s[i] \in 1 .. 7 /\ count >= 8)
<1> DEFINE q == count \div 8
           At(j) == IF j <= 8 * q THEN count - 8 * ((j - 1) \div 8 + 1) + ((j - 1) % 8)
                    ELSE count - j
<1>1. q \in Nat /\ 8 * q <= count
  OBVIOUS
<1>2. PICK gk \in Nat, rk \in 0 .. 7 : k - 1 = 8 * gk + rk
  <2>1. k - 1 \in Nat
    OBVIOUS
  <2> QED BY <2>1, EightOf
<1>3. PICK gi \in Nat, ri \in 0 .. 7 : i - 1 = 8 * gi + ri
  <2>1. i - 1 \in Nat
    OBVIOUS
  <2> QED BY <2>1, EightOf
<1>4. Downwards(count)[k] = At(k) /\ Downwards(count)[i] = At(i)
  <2>1. i \in 1 .. count
    OBVIOUS
  <2> QED BY <2>1 DEF Downwards
<1>5. (k - 1) \div 8 = gk /\ (k - 1) % 8 = rk /\ (i - 1) \div 8 = gi /\ (i - 1) % 8 = ri
  BY <1>2, <1>3, InGroup
<1>6. /\ At(k) = IF k <= 8 * q THEN count - 8 * (gk + 1) + rk ELSE count - k
      /\ At(i) = IF i <= 8 * q THEN count - 8 * (gi + 1) + ri ELSE count - i
  BY <1>5
<1> HIDE DEF At, q
<1> QED BY <1>1, <1>2, <1>3, <1>4, <1>6

LEMMA DownwardsMeetsAll ==
  ASSUME NEW count \in Nat, NEW o \in 0 .. count - 1
  PROVE  \E k \in 1 .. count : Downwards(count)[k] = o
<1> DEFINE q == count \div 8
<1>1. q \in Nat /\ 8 * q <= count
  OBVIOUS
<1>2. CASE count - 1 - o < 8 * q
  <2>1. PICK g \in Nat, m \in 0 .. 7 : count - 1 - o = 8 * g + m
    <3>1. count - 1 - o \in Nat
      OBVIOUS
    <3> QED BY <3>1, EightOf
  <2> DEFINE r == 7 - m
             k == 8 * g + r + 1
  <2>2. r \in 0 .. 7 /\ k \in 1 .. count /\ k <= 8 * q /\ k - 1 = 8 * g + r /\ o = count - 8 * (g + 1) + r
    BY <1>1, <1>2, <2>1
  <2>3. (k - 1) \div 8 = g /\ (k - 1) % 8 = r
    <3> HIDE DEF r, k
    <3> QED BY <2>2, InGroup
  <2> HIDE DEF r, k
  <2>4. Downwards(count)[k] = o
    BY <2>2, <2>3 DEF Downwards
  <2> QED BY <2>2, <2>4
<1>3. CASE ~(count - 1 - o < 8 * q)
  <2> DEFINE k == count - o
  <2>1. k \in 1 .. count /\ ~(k <= 8 * q) /\ count - k = o
    BY <1>1, <1>3
  <2> HIDE DEF k
  <2>2. Downwards(count)[k] = o
    BY <2>1 DEF Downwards
  <2> QED BY <2>1, <2>2
<1> QED BY <1>2, <1>3

\* A copy whose target does not begin 1 to 7 bytes above its source, or that has
\* no whole group of eight, reads every byte before it writes there.
LEMMA CopyIsExact ==
  ASSUME NEW A, NEW V, NEW mem, NEW dest, NEW src, NEW count,
         Blk(A, V, mem, dest, src, count),
         ~(dest - src \in 1 .. 7 /\ count >= 8)
  PROVE  MemCopy(mem, dest, src, count)
           = [a \in A |-> IF a \in Span(dest, count) THEN mem[src + (a - dest)] ELSE mem[a]]
<1> DEFINE s == Order(dest, src, count)
           N == 1 .. count
           Set(k) == {dest + s[i] : i \in 1 .. k}
           Now(k) == [a \in A |-> IF a \in Set(k) THEN mem[src + (a - dest)] ELSE mem[a]]
<1>0. dest \in Nat /\ src \in Nat /\ count \in Nat /\ A \subseteq Int /\ mem \in [A -> V]
  BY DEF Blk
<1>1. s \in [N -> 0 .. count - 1]
  BY <1>0, OrderShape
<1>2. ASSUME NEW k \in N, NEW i \in 1 .. k - 1 PROVE dest + s[i] # src + s[k]
  <2>1. i \in N
    BY <1>0
  <2>2. CASE dest > src
    <3>1. s = Downwards(count)
      BY <2>2 DEF Order
    <3>2. s[k] < s[i] \/ (s[k] - s[i] \in 1 .. 7 /\ count >= 8)
      BY <1>0, <3>1, DownwardsFalls
    <3>3. s[k] \in Nat /\ s[i] \in Nat
      BY <1>1, <2>1
    <3> HIDE DEF s
    <3> QED BY <1>0, <2>2, <3>2, <3>3
  <2>3. CASE ~(dest > src)
    <3>1. s = Upwards(count)
      BY <2>3 DEF Order
    <3>2. s[k] = k - 1 /\ s[i] = i - 1
      BY <2>1, <3>1 DEF Upwards
    <3> HIDE DEF s
    <3> QED BY <1>0, <2>3, <3>2
  <2> QED BY <2>2, <2>3
<1>3. Set(count) = Span(dest, count)
  <2>1. ASSUME NEW o \in 0 .. count - 1 PROVE \E k \in N : s[k] = o
    <3>1. CASE dest > src
      BY <1>0, <3>1, DownwardsMeetsAll DEF Order
    <3>2. CASE ~(dest > src)
      <4>1. o + 1 \in N /\ Upwards(count)[o + 1] = o
        BY <1>0 DEF Upwards
      <4> QED BY <3>2, <4>1 DEF Order
    <3> QED BY <3>1, <3>2
  <2> HIDE DEF s
  <2>2. Set(count) \subseteq Span(dest, count)
    BY <1>0, <1>1 DEF Span
  <2>3. ASSUME NEW a \in Span(dest, count) PROVE a \in Set(count)
    <3>1. a - dest \in 0 .. count - 1 /\ a = dest + (a - dest)
      BY <1>0 DEF Span
    <3>2. PICK k \in N : s[k] = a - dest
      BY <2>1, <3>1
    <3> QED BY <3>1, <3>2
  <2> QED BY <2>2, <2>3
<1>4. PICK h : /\ h \in [0 .. count -> [A -> V]] /\ h[0] = mem
               /\ \A k \in N : h[k] = [h[k - 1] EXCEPT ![dest + s[k]] = h[k - 1][src + s[k]]]
               /\ MemCopy(mem, dest, src, count) = h[count]
  <2>1. PICK h : CopyRun(h, A, V, mem, dest, src, count)
    BY CopyTrace
  <2> QED BY <2>1 DEF CopyRun
<1> HIDE DEF s
<1> DEFINE T == {k \in 0 .. count : h[k] = Now(k)}
<1>5. 0 \in T
  <2>1. Set(0) = {}
    OBVIOUS
  <2> QED BY <1>0, <1>4, <2>1
<1>6. ASSUME NEW k \in 0 .. count - 1, k \in T PROVE k + 1 \in T
  <2>1. k + 1 \in N /\ (k + 1) - 1 = k /\ k + 1 \in 0 .. count
    BY <1>0
  <2>2. s[k + 1] \in 0 .. count - 1 /\ dest + s[k + 1] \in A /\ src + s[k + 1] \in A
    BY <1>0, <1>1, <2>1 DEF Blk, Span
  <2>3. src + s[k + 1] \notin Set(k)
    BY <1>2, <2>1
  <2>4. Set(k + 1) = Set(k) \cup {dest + s[k + 1]}
    <3>1. 1 .. k + 1 = (1 .. k) \cup {k + 1}
      BY <1>0
    <3> QED BY <3>1
  <2>5. h[k] = Now(k) /\ h[k + 1] = [h[k] EXCEPT ![dest + s[k + 1]] = h[k][src + s[k + 1]]]
    BY <1>4, <1>6, <2>1
  <2>6. h[k + 1] = Now(k + 1)
    <3> HIDE DEF Set
    <3>1. h[k][src + s[k + 1]] = mem[src + s[k + 1]]
      BY <2>2, <2>3, <2>5
    <3>2. h[k + 1] = [a \in A |-> IF a = dest + s[k + 1] THEN mem[src + s[k + 1]] ELSE Now(k)[a]]
      BY <2>5, <3>1
    <3>3. ASSUME NEW a \in A
          PROVE  (IF a = dest + s[k + 1] THEN mem[src + s[k + 1]] ELSE Now(k)[a])
                   = (IF a \in Set(k + 1) THEN mem[src + (a - dest)] ELSE mem[a])
      <4>1. a = dest + s[k + 1] => a - dest = s[k + 1]
        BY <1>0, <2>2
      <4> QED BY <2>4, <4>1
    <3> QED BY <3>2, <3>3
  <2> QED BY <2>1, <2>6
<1>7. 0 .. count \subseteq T
  <2> HIDE DEF T, Set, Now
  <2> QED BY <1>0, <1>5, <1>6, UpTo
<1>8. h[count] = Now(count)
  BY <1>0, <1>7
<1> HIDE DEF Set
<1> QED BY <1>3, <1>4, <1>8

\* A copy of eight bytes or more to a block that begins 1 to 7 bytes above tears:
\* the first byte of the upper group is written before it is read there.
LEMMA CopyTears ==
  ASSUME NEW A, NEW V, NEW mem, NEW dest, NEW src, NEW count,
         Blk(A, V, mem, dest, src, count),
         dest - src \in 1 .. 7, count >= 8,
         \A a, b \in A : mem[a] = mem[b] => a = b
  PROVE  \E a \in Span(dest, count) :
           a \in A /\ MemCopy(mem, dest, src, count)[a] # mem[src + (a - dest)]
<1> DEFINE s == Order(dest, src, count)
           N == 1 .. count
           d == dest - src
           low == count - 8
<1>0. dest \in Nat /\ src \in Nat /\ count \in Nat /\ A \subseteq Int /\ mem \in [A -> V]
  BY DEF Blk
<1>1. s \in [N -> 0 .. count - 1]
  BY <1>0, OrderShape
<1>2. s = Downwards(count)
  BY <1>0 DEF Order
<1>3. ASSUME NEW k \in 1 .. 8 PROVE k \in N /\ s[k] = low + (k - 1)
  <2>1. k \in N /\ k <= 8 * (count \div 8)
    BY <1>0
  <2>2. (k - 1) \div 8 = 0 /\ (k - 1) % 8 = k - 1
    OBVIOUS
  <2>3. s[k] = count - 8 * (0 + 1) + (k - 1)
    BY <1>2, <2>1, <2>2 DEF Downwards
  <2> QED BY <1>0, <2>1, <2>3
<1>4. d \in 1 .. 7 /\ 1 \in N /\ d + 1 \in N /\ s[1] = low /\ s[d + 1] = low + d /\ low \in Nat
  <2>1. d + 1 \in 1 .. 8 /\ (d + 1) - 1 = d /\ 1 \in 1 .. 8
    BY <1>0
  <2> HIDE DEF s, N, low, d
  <2>2. d + 1 \in N /\ s[d + 1] = low + ((d + 1) - 1) /\ 1 \in N /\ s[1] = low + (1 - 1)
    BY <1>3, <2>1
  <2> QED BY <1>0, <2>1, <2>2 DEF low, d
<1>5. ASSUME NEW k \in N, NEW i \in 1 .. k - 1 PROVE s[k] # s[i]
  <2>1. s[k] < s[i] \/ (s[k] - s[i] \in 1 .. 7 /\ count >= 8)
    BY <1>0, <1>2, DownwardsFalls
  <2>2. i \in N
    BY <1>0
  <2> HIDE DEF s
  <2> QED BY <1>1, <2>1, <2>2
<1>6. PICK h : /\ h \in [0 .. count -> [A -> V]] /\ h[0] = mem
               /\ \A k \in N : h[k] = [h[k - 1] EXCEPT ![dest + s[k]] = h[k - 1][src + s[k]]]
               /\ MemCopy(mem, dest, src, count) = h[count]
  <2>1. PICK h : CopyRun(h, A, V, mem, dest, src, count)
    BY CopyTrace
  <2> QED BY <2>1 DEF CopyRun
<1> HIDE DEF s
<1> DEFINE byte == mem[src + low]
           T == {k \in 0 .. count : /\ k >= 1 => h[k][dest + low] = byte
                                    /\ k >= d + 1 => h[k][dest + (low + d)] = byte}
<1>7. 0 \in T
  BY <1>0, <1>4
<1>8. ASSUME NEW k \in 0 .. count - 1, k \in T PROVE k + 1 \in T
  <2>1. k + 1 \in N /\ (k + 1) - 1 = k /\ k + 1 \in 0 .. count /\ k \in 0 .. count
    BY <1>0
  <2>2. s[k + 1] \in 0 .. count - 1 /\ dest + s[k + 1] \in A /\ src + s[k + 1] \in A
    BY <1>0, <1>1, <2>1 DEF Blk, Span
  <2>3. h[k + 1] = [h[k] EXCEPT ![dest + s[k + 1]] = h[k][src + s[k + 1]]] /\ h[k] \in [A -> V]
    BY <1>6, <2>1
  <2>4. dest + low \in A /\ dest + (low + d) \in A
    BY <1>0, <1>4 DEF Blk, Span
  <2>5. \A a \in A : h[k + 1][a] = IF a = dest + s[k + 1] THEN h[k][src + s[k + 1]] ELSE h[k][a]
    BY <2>3
  <2>6. h[k + 1][dest + low] = byte
    <3>1. CASE k = 0
      <4>1. s[k + 1] = low /\ h[k] = mem
        BY <1>4, <1>6, <3>1
      <4> QED BY <2>4, <2>5, <4>1
    <3>2. CASE k # 0
      <4>1. 1 \in 1 .. (k + 1) - 1 /\ k >= 1
        BY <3>2, <2>1
      <4>2. s[k + 1] # low
        BY <1>4, <1>5, <2>1, <4>1
      <4>3. h[k][dest + low] = byte
        BY <1>8, <4>1
      <4>4. dest + low # dest + s[k + 1]
        BY <1>0, <1>4, <2>2, <4>2
      <4> QED BY <2>4, <2>5, <4>3, <4>4
    <3> QED BY <3>1, <3>2
  <2>7. ASSUME k + 1 >= d + 1 PROVE h[k + 1][dest + (low + d)] = byte
    <3>1. CASE k = d
      <4>1. s[k + 1] = low + d /\ src + (low + d) = dest + low /\ k >= 1
        BY <1>0, <1>4, <3>1
      <4>2. h[k][dest + low] = byte
        BY <1>8, <4>1
      <4> QED BY <2>4, <2>5, <4>1, <4>2
    <3>2. CASE k # d
      <4>1. d + 1 \in 1 .. (k + 1) - 1 /\ k >= d + 1
        BY <1>4, <2>1, <2>7, <3>2
      <4>2. s[k + 1] # low + d
        BY <1>4, <1>5, <2>1, <4>1
      <4>3. h[k][dest + (low + d)] = byte
        BY <1>8, <4>1
      <4>4. dest + (low + d) # dest + s[k + 1]
        BY <1>0, <1>4, <2>2, <4>2
      <4> QED BY <2>4, <2>5, <4>3, <4>4
    <3> QED BY <3>1, <3>2
  <2> HIDE DEF d, low
  <2> QED BY <2>1, <2>6, <2>7
<1>9. 0 .. count \subseteq T
  <2> HIDE DEF T
  <2> QED BY <1>0, <1>7, <1>8, UpTo
<1> DEFINE a == dest + (low + d)
<1>10. h[count][a] = byte
  <2>1. count \in T /\ count >= d + 1
    BY <1>0, <1>4, <1>9
  <2> QED BY <2>1
<1>11. a \in Span(dest, count) /\ a \in A /\ src + (a - dest) \in A /\ src + low \in A
       /\ src + (a - dest) # src + low
  BY <1>0, <1>4 DEF Blk, Span
<1>12. byte # mem[src + (a - dest)]
  BY <1>11
<1> HIDE DEF a, byte, low, d
<1> QED BY <1>6, <1>10, <1>11, <1>12

\* A comparison tells whether some byte differs.
Differ(mem, s1, s2, n) == \E i \in 0 .. n - 1 : mem[s1 + i] # mem[s2 + i]

LEMMA CmpTells ==
  ASSUME NEW A, NEW mem \in [A -> Int], NEW s1 \in Nat, NEW s2 \in Nat, NEW n \in Nat,
         Span(s1, n) \subseteq A, Span(s2, n) \subseteq A
  PROVE  MemCmp(mem, s1, s2, n) # 0 <=> Differ(mem, s1, s2, n)
<1> DEFINE differ == {i \in 0 .. n - 1 : mem[s1 + i] # mem[s2 + i]}
           first == CHOOSE i \in differ : \A j \in differ : i <= j
<1>1. MemCmp(mem, s1, s2, n) = IF differ = {} THEN 0 ELSE mem[s1 + first] - mem[s2 + first]
  BY DEF MemCmp
<1> USE DEF Differ
<1>2. CASE differ = {}
  BY <1>1, <1>2
<1>3. CASE differ # {}
  <2>1. differ \in SUBSET Nat
    OBVIOUS
  <2>2. first \in differ
    <3> HIDE DEF differ
    <3>1. \E i \in differ : \A j \in differ : i <= j
      BY <1>3, <2>1, LeastElement
    <3> QED BY <3>1
  <2> HIDE DEF first
  <2>3. first \in 0 .. n - 1 /\ mem[s1 + first] # mem[s2 + first]
    BY <2>2
  <2>4. s1 + first \in A /\ s2 + first \in A
    BY <2>3 DEF Span
  <2>5. mem[s1 + first] \in Int /\ mem[s2 + first] \in Int
    BY <2>4
  <2>6. mem[s1 + first] - mem[s2 + first] # 0
    BY <2>3, <2>5
  <2> QED BY <1>1, <1>3, <2>3, <2>6
<1> QED BY <1>2, <1>3

\* The loops over bytes do what BlocksExact says.
LEMMA BlocksAreExact == BlocksExact
<1>1. ASSUME NEW ptr \in 0 .. 9, NEW count \in 0 .. 10
      PROVE  MemSet(Fresh, ptr, 99, count)
               = [a \in Cells |-> IF a \in Span(ptr, count) THEN 99 ELSE Fresh[a]]
  <2>1. ptr \in Nat /\ count \in Nat /\ DOMAIN Fresh = Cells
    BY DEF Fresh
  <2>2. MemSet(Fresh, ptr, 99, count)
          = [a \in DOMAIN Fresh |-> IF a \in Span(ptr, count) THEN 99 ELSE Fresh[a]]
    BY <2>1, SetIsExact
  <2> QED BY <2>1, <2>2
<1>2. ASSUME NEW ptr \in 0 .. 9, NEW count \in 0 .. 10, NEW src \in 0 .. 9
      PROVE  LET after == MemCopy(Fresh, ptr, src, count)
                 exact == after = Copied(ptr, src, count)
             IN  /\ exact <=> ~(ptr - src \in 1 .. 7 /\ count >= 8)
                 /\ exact => (MemCmp(after, ptr, src, count) # 0
                                <=> ptr # src /\ Span(ptr, count) \cap Span(src, count) # {})
  <2> DEFINE after == MemCopy(Fresh, ptr, src, count)
             copied == Copied(ptr, src, count)
  <2>1. Blk(Cells, Int, Fresh, ptr, src, count)
    BY DEF Blk, Cells, Fresh, Span
  <2>2. Span(ptr, count) \subseteq Cells /\ Span(src, count) \subseteq Cells /\ ptr \in Nat /\ src \in Nat
        /\ count \in Nat
    BY <2>1 DEF Blk
  <2>3. \A a \in Span(ptr, count) : a \in Cells /\ a - ptr \in 0 .. count - 1 /\ src + (a - ptr) \in Cells
                                    /\ Fresh[src + (a - ptr)] = src + (a - ptr) /\ copied[a] = src + (a - ptr)
    BY <2>2 DEF Span, Cells, Fresh, Copied
  <2>4. ASSUME ~(ptr - src \in 1 .. 7 /\ count >= 8) PROVE after = copied
    <3>1. after = [a \in Cells |-> IF a \in Span(ptr, count) THEN Fresh[src + (a - ptr)] ELSE Fresh[a]]
      BY <2>1, <2>4, CopyIsExact
    <3> QED BY <3>1 DEF Copied
  <2>5. ASSUME ptr - src \in 1 .. 7 /\ count >= 8 PROVE after # copied
    <3>1. \A a, b \in Cells : Fresh[a] = Fresh[b] => a = b
      BY DEF Fresh
    <3>2. PICK a \in Span(ptr, count) : a \in Cells /\ after[a] # Fresh[src + (a - ptr)]
      BY <2>1, <2>5, <3>1, CopyTears
    <3> HIDE DEF after, copied
    <3> QED BY <2>3, <3>2
  <2>6. copied \in [Cells -> Int]
    BY <2>2 DEF Copied, Fresh, Cells, Span
  <2>7. MemCmp(copied, ptr, src, count) # 0 <=> Differ(copied, ptr, src, count)
    <3> HIDE DEF copied
    <3> QED BY <2>2, <2>6, CmpTells
  <2>8. \A i \in 0 .. count - 1 :
          /\ ptr + i \in Span(ptr, count) /\ src + i \in Span(src, count)
          /\ copied[ptr + i] = src + i
          /\ copied[src + i] = IF src + i \in Span(ptr, count) THEN src + (src + i - ptr) ELSE src + i
    BY <2>2 DEF Copied, Fresh, Cells, Span
  <2>9. (\E i \in 0 .. count - 1 : copied[ptr + i] # copied[src + i])
          <=> ptr # src /\ Span(ptr, count) \cap Span(src, count) # {}
    <3>1. ASSUME NEW i \in 0 .. count - 1, copied[ptr + i] # copied[src + i]
          PROVE  ptr # src /\ Span(ptr, count) \cap Span(src, count) # {}
      <4> HIDE DEF copied
      <4> QED BY <2>2, <2>8, <3>1
    <3>2. ASSUME ptr # src, NEW a \in Span(ptr, count) \cap Span(src, count)
          PROVE  \E i \in 0 .. count - 1 : copied[ptr + i] # copied[src + i]
      <4>1. PICK i \in 0 .. count - 1 : a = src + i
        <5>1. a - src \in 0 .. count - 1 /\ a = src + (a - src)
          BY <2>2 DEF Span
        <5> QED BY <5>1
      <4> HIDE DEF copied
      <4>2. copied[ptr + i] = src + i /\ copied[src + i] = src + (src + i - ptr)
        BY <2>8, <4>1
      <4> QED BY <2>2, <3>2, <4>1, <4>2
    <3> QED BY <3>1, <3>2
  <2> HIDE DEF after, copied
  <2> QED BY <2>4, <2>5, <2>7, <2>9 DEF after, copied, Differ
<1> QED BY <1>1, <1>2 DEF BlocksExact

-----------------------------------------------------------------------------
(* The masks of CyU3PDmaBufMgrSetStatus.                                    *)

LEMMA WordStarts ==
  ASSUME NEW word \in Nat
  PROVE  /\ word * WordBits \in Nat
         /\ (word + 1) * WordBits = word * WordBits + WordBits
         /\ WordBits \in Nat /\ WordBits > 0
<1>1. WordBits \in Nat /\ WordBits > 0
  BY ConstantsAssumption
<1> QED BY <1>1

LEMMA MaskIs ==
  ASSUME NEW word \in Nat, NEW from \in Nat, NEW to \in Nat
  PROVE  Mask(word, from, to) = (word * WordBits + from) .. (word * WordBits + to - 1)
<1> DEFINE base == word * WordBits
<1>1. base \in Nat
  BY WordStarts
<1>2. Mask(word, from, to) = {base + i : i \in from .. (to - 1)}
  BY DEF Mask
<1> HIDE DEF base
<1>3. ASSUME NEW p \in (base + from) .. (base + to - 1) PROVE p \in {base + i : i \in from .. (to - 1)}
  <2>1. p - base \in from .. (to - 1) /\ p = base + (p - base)
    BY <1>1
  <2> QED BY <2>1
<1>4. {base + i : i \in from .. (to - 1)} \subseteq (base + from) .. (base + to - 1)
  BY <1>1
<1>5. {base + i : i \in from .. (to - 1)} = (base + from) .. (base + to - 1)
  BY <1>3, <1>4
<1> QED BY <1>2, <1>5 DEF base

\* The words after the first: whole ones, and a last one that is not.
LEMMA RestIs ==
  ASSUME NEW f,
         f = [left \in Nat |-> [word \in Nat |->
                IF left = 0 THEN {}
                ELSE IF left >= WordBits
                THEN Mask(word, 0, WordBits) \cup f[left - WordBits][word + 1]
                ELSE Mask(word, 0, left)]],
         NEW left \in Nat, NEW word \in Nat
  PROVE  f[left][word] = (word * WordBits) .. (word * WordBits + left - 1)
<1> DEFINE Is(l, w) == f[l][w] = (w * WordBits) .. (w * WordBits + l - 1)
           Bad == {l \in Nat : \E w \in Nat : ~Is(l, w)}
<1>0. \A l, w \in Nat :
        f[l][w] = IF l = 0 THEN {}
                  ELSE IF l >= WordBits THEN Mask(w, 0, WordBits) \cup f[l - WordBits][w + 1]
                  ELSE Mask(w, 0, l)
  <2> HIDE DEF Is, Bad
  <2>1. ASSUME NEW l \in Nat, NEW w \in Nat
        PROVE  f[l][w] = IF l = 0 THEN {}
                         ELSE IF l >= WordBits THEN Mask(w, 0, WordBits) \cup f[l - WordBits][w + 1]
                         ELSE Mask(w, 0, l)
    <3>1. f[l] = [v \in Nat |-> IF l = 0 THEN {}
                      ELSE IF l >= WordBits THEN Mask(v, 0, WordBits) \cup f[l - WordBits][v + 1]
                      ELSE Mask(v, 0, l)]
      BY Zenon
    <3> QED BY <3>1
  <2> QED BY <2>1
<1>1. SUFFICES ASSUME Bad # {} PROVE FALSE
  BY <1>1
<1>2. PICK l \in Bad : \A n \in Bad : l <= n
  <2>1. Bad \in SUBSET Nat
    OBVIOUS
  <2> HIDE DEF Bad
  <2> QED BY <1>1, <2>1, LeastElement
<1>3. l \in Nat
  OBVIOUS
<1>4. PICK w \in Nat : ~Is(l, w)
  BY <1>2
<1> DEFINE base == w * WordBits
<1>5. base \in Nat /\ (w + 1) * WordBits = base + WordBits /\ WordBits \in Nat /\ WordBits > 0
  BY WordStarts
<1>6. f[l][w] = IF l = 0 THEN {}
                ELSE IF l >= WordBits THEN Mask(w, 0, WordBits) \cup f[l - WordBits][w + 1]
                ELSE Mask(w, 0, l)
  BY <1>0, <1>3
<1>7. CASE l >= WordBits
  <2>1. l - WordBits \in Nat /\ l - WordBits < l /\ w + 1 \in Nat /\ l # 0
    BY <1>3, <1>5, <1>7
  <2>2. Is(l - WordBits, w + 1)
    <3>1. l - WordBits \notin Bad
      <4> HIDE DEF Bad
      <4>1. \A n \in Nat : n < l => n \notin Bad
        BY <1>2, <1>3
      <4> QED BY <2>1, <4>1
    <3> HIDE DEF Is
    <3> QED BY <2>1, <3>1
  <2>3. f[l - WordBits][w + 1] = (base + WordBits) .. (base + WordBits + (l - WordBits) - 1)
    BY <1>5, <2>2
  <2>4. Mask(w, 0, WordBits) = base .. (base + WordBits - 1)
    <3>1. Mask(w, 0, WordBits) = (base + 0) .. (base + WordBits - 1)
      BY <1>5, MaskIs
    <3> HIDE DEF base
    <3> QED BY <1>5, <3>1
  <2>5. f[l][w] = base .. (base + l - 1)
    <3>1. f[l][w] = (base .. (base + WordBits - 1))
                      \cup ((base + WordBits) .. (base + WordBits + (l - WordBits) - 1))
      BY <1>6, <1>7, <2>1, <2>3, <2>4
    <3>2. (base .. (base + WordBits - 1)) \cup ((base + WordBits) .. (base + WordBits + (l - WordBits) - 1))
            = base .. (base + l - 1)
      <4> HIDE DEF base, Is, Bad
      <4> QED BY <1>3, <1>5, <1>7
    <3> QED BY <3>1, <3>2
  <2> QED BY <1>4, <2>5
<1>8. CASE l < WordBits /\ l # 0
  <2>1. Mask(w, 0, l) = (base + 0) .. (base + l - 1)
    BY <1>3, <1>5, MaskIs
  <2>2. f[l][w] = Mask(w, 0, l)
    <3> HIDE DEF base, Is, Bad
    <3> QED BY <1>3, <1>5, <1>6, <1>8
  <2>3. base + 0 = base
    BY <1>5
  <2> QED BY <1>4, <2>1, <2>2, <2>3
<1>9. CASE l = 0
  <2>1. f[l][w] = {} /\ base .. (base + l - 1) = {}
    <3> HIDE DEF base, Is, Bad
    <3> QED BY <1>5, <1>6, <1>9
  <2> QED BY <1>4, <2>1
<1> HIDE DEF base, Is, Bad
<1> QED BY <1>3, <1>5, <1>7, <1>8, <1>9

\* Whatever words they lie in, the bits set are those of the run.
LEMMA SetStatusIs ==
  ASSUME NEW startPos \in Nat, NEW numBits \in Nat
  PROVE  SetStatus(startPos, numBits) = startPos .. (startPos + numBits - 1)
<1> DEFINE Eq(f) == f = [left \in Nat |-> [word \in Nat |->
                           IF left = 0 THEN {}
                           ELSE IF left >= WordBits
                           THEN Mask(word, 0, WordBits) \cup f[left - WordBits][word + 1]
                           ELSE Mask(word, 0, left)]]
           rest == CHOOSE f : Eq(f)
           word == WordOf(startPos)
           startbit == startPos % WordBits
           endbit == IF startbit + numBits < WordBits THEN startbit + numBits ELSE WordBits
           base == word * WordBits
<1>1. SetStatus(startPos, numBits)
        = IF numBits = 0 THEN {}
          ELSE Mask(word, startbit, endbit) \cup rest[numBits - (endbit - startbit)][word + 1]
  BY DEF SetStatus
<1>2. Eq(rest)
  <2> DEFINE run == [left \in Nat |-> [w \in Nat |-> (w * WordBits) .. (w * WordBits + left - 1)]]
  <2>1. ASSUME NEW left \in Nat, NEW w \in Nat
        PROVE  run[left][w] = IF left = 0 THEN {}
                              ELSE IF left >= WordBits
                              THEN Mask(w, 0, WordBits) \cup run[left - WordBits][w + 1]
                              ELSE Mask(w, 0, left)
    <3> DEFINE b == w * WordBits
    <3>1. b \in Nat /\ (w + 1) * WordBits = b + WordBits /\ WordBits \in Nat /\ WordBits > 0
      BY WordStarts
    <3>2. run[left][w] = b .. (b + left - 1)
      OBVIOUS
    <3>3. left >= WordBits => run[left - WordBits][w + 1] = (b + WordBits) .. (b + WordBits + (left - WordBits) - 1)
      BY <3>1
    <3>4. Mask(w, 0, WordBits) = (b + 0) .. (b + WordBits - 1) /\ Mask(w, 0, left) = (b + 0) .. (b + left - 1)
      BY <3>1, MaskIs
    <3> HIDE DEF b, run
    <3>5. b + 0 = b
      BY <3>1
    <3>6. left = 0 => b .. (b + left - 1) = {}
      BY <3>1
    <3>7. left >= WordBits => b .. (b + left - 1)
            = (b .. (b + WordBits - 1)) \cup ((b + WordBits) .. (b + WordBits + (left - WordBits) - 1))
      BY <3>1
    <3> QED BY <3>2, <3>3, <3>4, <3>5, <3>6, <3>7
  <2>2. Eq(run)
    BY <2>1
  <2> HIDE DEF Eq
  <2> QED BY <2>2
<1>3. /\ WordBits \in Nat /\ WordBits > 0 /\ word \in Nat
      /\ startbit \in 0 .. WordBits - 1 /\ base \in Nat /\ startPos = base + startbit
  <2>1. WordBits \in Nat /\ WordBits > 0
    BY ConstantsAssumption
  <2>2. startPos \div WordBits \in Nat /\ startPos % WordBits \in 0 .. WordBits - 1
        /\ startPos = (startPos \div WordBits) * WordBits + (startPos % WordBits)
    BY <2>1
  <2>3. word \in Nat
    BY <2>2 DEF WordOf
  <2> QED BY <2>1, <2>2, <2>3, WordStarts DEF WordOf
<1>4. \A l, w \in Nat : rest[l][w] = (w * WordBits) .. (w * WordBits + l - 1)
  <2> HIDE DEF rest
  <2> QED BY <1>2, RestIs
<1>5. CASE numBits = 0
  BY <1>1, <1>5
<1>6. CASE numBits # 0
  <2> DEFINE left == numBits - (endbit - startbit)
  <2> HIDE DEF rest, word, startbit
  <2>1. endbit \in Nat /\ left \in Nat /\ word + 1 \in Nat /\ startbit \in Nat /\ startbit < endbit
    BY <1>3, <1>6
  <2>2. (word + 1) * WordBits = base + WordBits
    BY <1>3, WordStarts
  <2>3. rest[left][word + 1] = (base + WordBits) .. (base + WordBits + left - 1)
    BY <1>4, <2>1, <2>2
  <2>4. Mask(word, startbit, endbit) = (base + startbit) .. (base + endbit - 1)
    BY <1>3, <2>1, MaskIs
  <2>5. ((base + startbit) .. (base + endbit - 1)) \cup ((base + WordBits) .. (base + WordBits + left - 1))
          = startPos .. (startPos + numBits - 1)
    <3> HIDE DEF base
    <3> QED BY <1>3, <1>6, <2>1
  <2> HIDE DEF base, left, endbit
  <2> QED BY <1>1, <1>6, <2>3, <2>4, <2>5 DEF left
<1> QED BY <1>5, <1>6

-----------------------------------------------------------------------------
(* The count of CyU3PDmaBufferFree.                                         *)

\* Past the last word is past the last bit.
LEMMA InTable ==
  ASSUME NEW p \in 0 .. Bits
  PROVE  WordOf(p) < StatusSize <=> p < Bits
<1>1. WordBits \in Nat /\ WordBits > 0 /\ StatusSize \in Nat /\ StatusSize > 0 /\ Bits \in Nat
  BY ConstantsAssumption, BitsType
<1>2. CASE p < Bits
  <2>1. p \in Line
    BY <1>1, <1>2 DEF Line
  <2>2. WordOf(p) \in 0 .. (StatusSize - 1)
    BY <2>1, WordOfBit DEF WordOf
  <2> QED BY <1>1, <1>2, <2>2
<1>3. CASE p = Bits
  <2>1. (StatusSize * WordBits) \div WordBits = StatusSize
    BY <1>1
  <2>2. WordOf(p) = StatusSize
    BY <1>3, <2>1 DEF WordOf, Bits
  <2> QED BY <1>1, <1>3, <2>2
<1> QED BY <1>1, <1>2, <1>3

LEMMA CountIs ==
  ASSUME NEW l \in Line
  PROVE  CountOnes(l) \in Nat /\ Ones(l) = l .. (l + CountOnes(l) - 1)
<1> DEFINE Eq(f) == f = [p \in 0 .. Bits |->
                           IF WordOf(p) < StatusSize /\ p \in used THEN 1 + f[p + 1] ELSE 0]
           count == CHOOSE f : Eq(f)
           One(p) == p < Bits /\ p \in used
           Is(p) == count[p] \in Nat /\ Ones(p) = p .. (p + count[p] - 1)
           T == {k \in 0 .. Bits : Is(Bits - k)}
<1>1. Bits \in Nat /\ l \in 0 .. Bits
  BY BitsType DEF Line
<1>2. CountOnes(l) = count[l]
  BY DEF CountOnes
<1>3. Eq(count)
  <2> DEFINE Ends(p) == {e \in p .. Bits : e = Bits \/ e \notin used}
             End(p) == CHOOSE e \in Ends(p) : \A m \in Ends(p) : e <= m
             run == [p \in 0 .. Bits |-> End(p) - p]
  <2>1. ASSUME NEW p \in 0 .. Bits
        PROVE  End(p) \in Ends(p) /\ \A m \in Ends(p) : End(p) <= m
    <3>1. Ends(p) \in SUBSET Nat /\ Bits \in Ends(p)
      BY <1>1
    <3> HIDE DEF Ends
    <3>2. \E e \in Ends(p) : \A m \in Ends(p) : e <= m
      BY <3>1, LeastElement
    <3> QED BY <3>2
  <2>2. ASSUME NEW p \in 0 .. Bits
        PROVE  run[p] = IF WordOf(p) < StatusSize /\ p \in used THEN 1 + run[p + 1] ELSE 0
    <3>1. WordOf(p) < StatusSize /\ p \in used <=> One(p)
      BY InTable
    <3>2. CASE One(p)
      <4>1. p + 1 \in 0 .. Bits /\ Ends(p) = Ends(p + 1)
        BY <1>1, <3>2
      <4>2. End(p) = End(p + 1)
        <5> HIDE DEF Ends
        <5> QED BY <4>1
      <4>3. End(p) \in Int
        <5> HIDE DEF End
        <5> QED BY <2>1
      <4> HIDE DEF End, Ends
      <4>4. run[p] = End(p) - p /\ run[p + 1] = End(p) - (p + 1)
        BY <4>1, <4>2
      <4>5. run[p] = 1 + run[p + 1]
        <5> HIDE DEF run
        <5> QED BY <4>3, <4>4
      <4> QED BY <3>1, <3>2, <4>5
    <3>3. CASE ~One(p)
      <4>1. p \in Ends(p)
        BY <1>1, <3>3
      <4>2. End(p) \in p .. Bits /\ End(p) <= p
        <5> HIDE DEF End
        <5> QED BY <2>1, <4>1
      <4> HIDE DEF End, Ends
      <4>3. run[p] = 0
        BY <4>2
      <4> QED BY <3>1, <3>3, <4>3
    <3> QED BY <3>2, <3>3
  <2>3. run = [p \in 0 .. Bits |->
                 IF WordOf(p) < StatusSize /\ p \in used THEN 1 + run[p + 1] ELSE 0]
    <3>1. run = [p \in 0 .. Bits |-> run[p]]
      OBVIOUS
    <3> HIDE DEF run
    <3> QED BY <2>2, <3>1
  <2> HIDE DEF run
  <2> QED BY <2>3
<1>4. \A p \in 0 .. Bits :
        count[p] = IF WordOf(p) < StatusSize /\ p \in used THEN 1 + count[p + 1] ELSE 0
  <2> HIDE DEF count
  <2> QED BY <1>3, Zenon
<1> HIDE DEF count
<1>5. ASSUME NEW p \in 0 .. Bits, ~One(p) PROVE Is(p)
  <2>1. count[p] = 0
    BY <1>4, <1>5, InTable
  <2>2. Ones(p) = {}
    BY <1>1, <1>5 DEF Ones
  <2> QED BY <2>1, <2>2
<1>6. ASSUME NEW p \in 0 .. Bits, One(p), Is(p + 1) PROVE Is(p)
  <2>1. p + 1 \in 0 .. Bits
    BY <1>1, <1>6
  <2>2. count[p] = 1 + count[p + 1] /\ count[p + 1] \in Nat
    BY <1>4, <1>6, InTable
  <2>3. Ones(p) = {p} \cup Ones(p + 1)
    <3>1. ASSUME NEW i \in Ones(p) PROVE i \in {p} \cup Ones(p + 1)
      BY <1>1, <3>1 DEF Ones
    <3>2. ASSUME NEW i \in Ones(p + 1) PROVE i \in Ones(p)
      BY <1>1, <1>6, <3>2 DEF Ones
    <3>3. p \in Ones(p)
      BY <1>1, <1>6 DEF Ones
    <3> QED BY <3>1, <3>2, <3>3
  <2>4. Ones(p + 1) = (p + 1) .. (p + 1 + count[p + 1] - 1)
    BY <1>6
  <2>5. {p} \cup ((p + 1) .. (p + 1 + count[p + 1] - 1)) = p .. (p + (1 + count[p + 1]) - 1)
    BY <2>2
  <2> QED BY <2>2, <2>3, <2>4, <2>5
<1>7. 0 \in T
  <2>1. Bits \in 0 .. Bits /\ ~One(Bits) /\ Bits - 0 = Bits
    BY <1>1
  <2> HIDE DEF Is, One
  <2> QED BY <1>1, <1>5, <2>1
<1>8. ASSUME NEW k \in 0 .. Bits - 1, k \in T PROVE k + 1 \in T
  <2> DEFINE p == Bits - (k + 1)
  <2>1. p \in 0 .. Bits /\ p + 1 = Bits - k /\ k + 1 \in 0 .. Bits
    BY <1>1
  <2> HIDE DEF Is, One
  <2>2. Is(p + 1)
    BY <1>8, <2>1
  <2>3. Is(p)
    <3> HIDE DEF p
    <3> QED BY <1>5, <1>6, <2>1, <2>2
  <2> QED BY <2>1, <2>3
<1>9. 0 .. Bits \subseteq T
  <2> HIDE DEF T
  <2> QED BY <1>1, <1>7, <1>8, UpTo
<1>10. Is(l)
  <2>1. Bits - l \in 0 .. Bits /\ Bits - (Bits - l) = l
    BY <1>1
  <2> HIDE DEF Is
  <2> QED BY <1>9, <2>1
<1> QED BY <1>2, <1>10

-----------------------------------------------------------------------------
(* The search of CyU3PDmaBufferAlloc.                                       *)

Accs == [count : Nat, start : Nat, word : Nat, found : BOOLEAN]

searchBit(n) == [x \in Accs \X Line |-> SearchBit(n, x[1], x[2])]

LEMMA SearchBitTyped ==
  ASSUME NEW n \in Nat, NEW acc \in Accs, NEW p \in Line
  PROVE  SearchBit(n, acc, p) \in Accs
<1>1. WordOf(p) \in Nat
  BY WordOfBit, BitsType DEF WordOf
<1>2. p \in Nat
  BY DEF Line
<1> QED BY <1>1, <1>2 DEF SearchBit, Accs

\* The bits in the order of the search: up to the end, then from the top.
LEMMA VisitedIs ==
  ASSUME searchPos \in 0 .. StatusSize - 1
  PROVE  LET first == searchPos * WordBits
         IN  /\ first \in 0 .. Bits - 1
             /\ Visited \in Seq(Line) /\ Len(Visited) = Bits
             /\ \A k \in 1 .. Bits :
                  Visited[k] = IF k <= Bits - first THEN first + k - 1 ELSE first + k - 1 - Bits
<1> DEFINE first == searchPos * WordBits
<1>1. Bits \in Nat /\ Bits > 0 /\ WordBits \in Nat /\ WordBits > 0 /\ StatusSize \in Nat
  BY BitsType, ConstantsAssumption
<1>2. first \in 0 .. Bits - 1
  <2>1. first \in Nat /\ first + WordBits = (searchPos + 1) * WordBits
    BY <1>1
  <2>2. (searchPos + 1) * WordBits <= StatusSize * WordBits
    BY <1>1
  <2> HIDE DEF first
  <2> QED BY <1>1, <2>1, <2>2 DEF Bits
<1>3. ASSUME NEW k \in 1 .. Bits
      PROVE  (first + k - 1) % Bits = IF k <= Bits - first THEN first + k - 1 ELSE first + k - 1 - Bits
  <2> HIDE DEF first
  <2>1. CASE k <= Bits - first
    <3>1. first + k - 1 \in 0 .. Bits - 1
      BY <1>1, <1>2, <2>1
    <3> QED BY <1>1, <2>1, <3>1
  <2>2. CASE ~(k <= Bits - first)
    <3>1. first + k - 1 - Bits \in 0 .. Bits - 1
      BY <1>1, <1>2, <2>2
    <3>2. \A m \in 0 .. Bits - 1 : (m + Bits) % Bits = m
      BY <1>1
    <3>3. first + k - 1 = (first + k - 1 - Bits) + Bits
      BY <1>1, <1>2
    <3> QED BY <2>2, <3>1, <3>2, <3>3
  <2> QED BY <2>1, <2>2
<1>4. Visited = [k \in 1 .. Bits |-> (first + k - 1) % Bits]
  BY DEF Visited
<1> HIDE DEF first
<1>5. Visited \in [1 .. Bits -> Line]
  BY <1>1, <1>2, <1>3, <1>4 DEF Line
<1>6. Visited \in Seq(Line) /\ Len(Visited) = Bits
  BY <1>1, <1>5
<1> QED BY <1>2, <1>3, <1>4, <1>6 DEF first

\* What the search knows after each bit.
SearchRun(h, n) ==
  /\ h \in [0 .. Bits -> Accs] /\ h[0] = SearchStart
  /\ \A k \in 1 .. Bits : h[k] = SearchBit(n, h[k - 1], Visited[k])
  /\ Search(n) = h[Bits]

LEMMA SearchTrace ==
  ASSUME searchPos \in 0 .. StatusSize - 1, NEW n \in Nat
  PROVE  \E h : SearchRun(h, n)
<1> DEFINE s == Visited
           op == searchBit(n)
           Eq(f) == f = [t \in SUBSET (1 .. Bits) |->
                           IF t = {} THEN SearchStart
                           ELSE SearchBit(n, f[t \ {Max(t)}], s[Max(t)])]
           f == CHOOSE iter : Eq(iter)
<1>1. Bits \in Nat /\ s \in Seq(Line) /\ Len(s) = Bits /\ DOMAIN s = 1 .. Bits
      /\ s \in [1 .. Bits -> Line]
  <2>1. Bits \in Nat /\ s \in Seq(Line) /\ Len(s) = Bits
    BY VisitedIs, BitsType
  <2> HIDE DEF s
  <2> QED BY <2>1
<1>2. Data(Accs, Line, SearchStart, op, s)
  <2>1. SearchStart \in Accs
    BY DEF SearchStart, Accs
  <2>2. op \in [Accs \X Line -> Accs]
    BY SearchBitTyped DEF searchBit
  <2> HIDE DEF op, s
  <2> QED BY <1>1, <2>1, <2>2 DEF Data
<1>3. Search(n) = f[1 .. Bits]
  <2> HIDE DEF s
  <2> QED BY <1>1 DEF Search, FoldLeft, MapThenFoldSet, s
<1>4. Eq(f)
  <2> HIDE DEF s, op
  <2>1. PICK g : Solution(g, Accs, Line, SearchStart, op, s)
    BY <1>2, FoldExists
  <2>2. ASSUME NEW t \in SUBSET (1 .. Bits), t # {}
        PROVE  g[t] = SearchBit(n, g[t \ {Max(t)}], s[Max(t)])
    <3>1. t \ {Max(t)} \in SUBSET (1 .. Bits) /\ s[Max(t)] \in Line /\ g[t] = op[<<g[t \ {Max(t)}], s[Max(t)]>>]
      BY <1>1, <2>1, <2>2 DEF Solution
    <3>2. g[t \ {Max(t)}] \in Accs
      BY <1>1, <2>1, <3>1 DEF Solution
    <3> QED BY <3>1, <3>2 DEF op, searchBit
  <2>3. g \in [SUBSET (1 .. Bits) -> Accs] /\ g[{}] = SearchStart
    BY <1>1, <2>1 DEF Solution
  <2>4. Eq(g)
    BY <2>2, <2>3
  <2> HIDE DEF Eq
  <2> QED BY <2>4
<1>5. Recursion(f, Accs, SearchStart, op, s)
  <2> HIDE DEF s, f
  <2>1. \A t \in SUBSET (1 .. Bits) :
          f[t] = IF t = {} THEN SearchStart ELSE SearchBit(n, f[t \ {Max(t)}], s[Max(t)])
    BY <1>4
  <2>2. ASSUME NEW t \in SUBSET (1 .. Bits), t # {} PROVE s[Max(t)] \in Line
    <3>1. Max(t) \in 1 .. Bits
      BY <1>1, <2>2, GreatestIn
    <3> QED BY <1>1, <3>1
  <2>3. ASSUME NEW t \in SUBSET (1 .. Bits), t # {}, f[t \ {Max(t)}] \in Accs
        PROVE  f[t] = op[<<f[t \ {Max(t)}], s[Max(t)]>>]
    BY <2>1, <2>2, <2>3 DEF searchBit
  <2> HIDE DEF op
  <2> QED BY <1>1, <2>1, <2>3 DEF Recursion
<1> HIDE DEF f, op, s
<1>6. PICK h : Trace(h, Accs, Line, SearchStart, op, s) /\ f[1 .. Bits] = h[Bits]
  BY <1>1, <1>2, <1>5, FoldIsTrace
<1>7. h \in [0 .. Bits -> Accs] /\ h[0] = SearchStart
  BY <1>1, <1>6 DEF Trace
<1>8. ASSUME NEW k \in 1 .. Bits PROVE h[k] = SearchBit(n, h[k - 1], s[k])
  <2>1. k - 1 \in 0 .. Bits /\ s[k] \in Line
    BY <1>1
  <2>2. h[k - 1] \in Accs /\ h[k] = op[<<h[k - 1], s[k]>>]
    BY <1>1, <1>6, <2>1 DEF Trace
  <2> QED BY <2>1, <2>2 DEF op, searchBit
<1> QED BY <1>3, <1>6, <1>7, <1>8 DEF SearchRun, s

\* After k bits of a search for n lines from bit first: in this part of the
\* table it has come from lo to hi-1, and knows the run of zeros before hi.
PartLo(first, k) == IF k < Bits - first THEN first ELSE 0
PartHi(first, k) == IF k < Bits - first THEN first + k ELSE k - (Bits - first)

NoRun(first, k, n) ==
  /\ k >= Bits - first => RunEnds(first, Bits, n) = {}
  /\ RunEnds(PartLo(first, k), PartHi(first, k), n) = {}

Searching(acc, first, k, n) ==
  LET lo == PartLo(first, k)
      hi == PartHi(first, k)
  IN  /\ acc.count <= n /\ acc.count <= hi - lo
      /\ \A i \in (hi - acc.count) .. (hi - 1) : i \notin used
      /\ acc.count < hi - lo => hi - acc.count - 1 \in used
      /\ acc.count > 0 => acc.start = hi - acc.count + 1
      /\ NoRun(first, k, n)

Stopped(acc, n) ==
  LET e == acc.start + n - 1
  IN  /\ e \in Candidates(n) /\ acc.word = WordOf(e)
      /\ \A f \in Candidates(n) : e <= f

SearchInvAt(acc, first, k, n) ==
  IF acc.found THEN Stopped(acc, n) ELSE Searching(acc, first, k, n)

\* A run of n+1 zeros that ends at p, added to those that end before.
LEMMA MoreRuns ==
  ASSUME NEW lo \in Nat, NEW p \in Nat, lo <= p, NEW n \in Nat,
         RunEnds(lo, p, n) = {},
         ~(lo + n <= p /\ ((p - n) .. p) \cap used = {})
  PROVE  RunEnds(lo, p + 1, n) = {}
<1> SUFFICES ASSUME NEW e \in RunEnds(lo, p + 1, n) PROVE FALSE
  OBVIOUS
<1>1. e \in (lo + n) .. p /\ ((e - n) .. e) \cap used = {}
  BY DEF RunEnds
<1>2. CASE e = p
  BY <1>1, <1>2
<1>3. CASE e # p
  <2>1. e \in (lo + n) .. (p - 1)
    BY <1>1, <1>3
  <2>2. e \in RunEnds(lo, p, n)
    BY <1>1, <2>1 DEF RunEnds
  <2> QED BY <2>2
<1> QED BY <1>2, <1>3

\* The invariant is kept by each bit.
LEMMA BitSearched ==
  ASSUME searchPos \in 0 .. StatusSize - 1, NEW n \in Nat, n > 0,
         NEW k \in 0 .. Bits - 1, NEW acc \in Accs,
         SearchInvAt(acc, searchPos * WordBits, k, n)
  PROVE  SearchInvAt(SearchBit(n, acc, Visited[k + 1]), searchPos * WordBits, k + 1, n)
<1> DEFINE first == searchPos * WordBits
           p == Visited[k + 1]
           rest == Bits - first
           lo == PartLo(first, k)
           hi == PartHi(first, k)
           next == SearchBit(n, acc, p)
           count == IF p \in used THEN 0 ELSE acc.count + 1
<1>0. SUFFICES SearchInvAt(next, first, k + 1, n)
  OBVIOUS
<1>1. first \in 0 .. Bits - 1 /\ Bits \in Nat /\ Bits > 0 /\ rest \in 1 .. Bits
  <2>1. Bits \in Nat /\ Bits > 0 /\ first \in 0 .. Bits - 1
    BY VisitedIs, BitsType
  <2> HIDE DEF first
  <2> QED BY <2>1
<1>2. p = hi
  <2>1. k + 1 \in 1 .. Bits
    BY <1>1
  <2>2. p = IF k + 1 <= Bits - first THEN first + (k + 1) - 1 ELSE first + (k + 1) - 1 - Bits
    BY <2>1, VisitedIs
  <2> HIDE DEF first, p
  <2> QED BY <1>1, <2>2 DEF PartHi
<1> HIDE DEF p
<1>3. /\ lo \in Nat /\ hi \in Nat /\ lo <= hi /\ hi < Bits
      /\ k < rest => lo = first /\ hi = first + k
      /\ k >= rest => lo = 0 /\ hi < first
  <2> HIDE DEF first
  <2> QED BY <1>1 DEF PartLo, PartHi
<1>4. /\ acc.count \in Nat /\ acc.start \in Nat /\ acc.found \in BOOLEAN /\ count \in Nat
  BY DEF Accs
<1>5. CASE acc.found
  <2>1. next = acc
    BY <1>5 DEF SearchBit
  <2> HIDE DEF next, first
  <2> QED BY <1>5, <2>1 DEF SearchInvAt, first
<1>6. CASE ~acc.found
  <2>1. /\ acc.count <= n /\ acc.count <= hi - lo
        /\ \A i \in (hi - acc.count) .. (hi - 1) : i \notin used
        /\ acc.count < hi - lo => hi - acc.count - 1 \in used
        /\ acc.count > 0 => acc.start = hi - acc.count + 1
        /\ k >= rest => RunEnds(first, Bits, n) = {}
        /\ RunEnds(lo, hi, n) = {}
    BY <1>6 DEF SearchInvAt, Searching, NoRun
  <2>2. /\ next.count = IF p = Bits - 1 /\ ~(count = n + 1) THEN 0 ELSE count
        /\ next.start = IF count = 1 THEN p + 1 ELSE acc.start
        /\ next.word = IF count = n + 1 THEN WordOf(p) ELSE acc.word
        /\ next.found <=> count = n + 1
    BY <1>6 DEF SearchBit
  <2> HIDE DEF first, rest, lo, hi, next, count
  <2>3. CASE count = n + 1
    <3>1. p \notin used /\ acc.count = n
      BY <1>4, <2>3 DEF count
    <3>2. next.found /\ next.start = hi - n + 1 /\ next.word = WordOf(p)
      BY <2>1, <2>2, <2>3, <3>1
    <3>3. next.start + n - 1 = p
      BY <1>2, <1>3, <3>2
    <3>4. \A i \in (p - n) .. p : i \notin used
      <4>1. \A i \in (p - n) .. p : i = p \/ i \in (hi - acc.count) .. (hi - 1)
        BY <1>2, <1>3, <3>1
      <4> QED BY <2>1, <3>1, <4>1
    <3>5. \A h \in Nat : p < h => p \in RunEnds(lo, h, n)
      BY <1>2, <1>3, <2>1, <3>1, <3>4 DEF RunEnds
    <3>6. \A h \in Nat : \A f \in RunEnds(lo, h, n) : p <= f
      <4> SUFFICES ASSUME NEW h \in Nat, NEW f \in RunEnds(lo, h, n), ~(p <= f) PROVE FALSE
        OBVIOUS
      <4>1. f \in (lo + n) .. (h - 1) /\ ((f - n) .. f) \cap used = {} /\ f < p
        BY <1>2, <1>3 DEF RunEnds
      <4>2. f \in RunEnds(lo, hi, n)
        BY <1>2, <1>3, <4>1 DEF RunEnds
      <4> QED BY <2>1, <4>2
    <3>7. CASE k < rest
      <4>1. p \in RunEnds(first, Bits, n) /\ \A f \in RunEnds(first, Bits, n) : p <= f
        BY <1>1, <1>2, <1>3, <3>5, <3>6, <3>7
      <4>2. Candidates(n) = RunEnds(first, Bits, n)
        BY <4>1 DEF Candidates, first
      <4> QED BY <3>2, <3>3, <4>1, <4>2 DEF SearchInvAt, Stopped
    <3>8. CASE ~(k < rest)
      <4>1. p \in RunEnds(0, first, n) /\ \A f \in RunEnds(0, first, n) : p <= f
        <5>1. lo = 0 /\ hi < first /\ first \in Nat
          BY <1>1, <1>3, <3>8
        <5> QED BY <1>2, <3>5, <3>6, <5>1
      <4>2. RunEnds(first, Bits, n) = {}
        BY <1>1, <2>1, <3>8
      <4>3. Candidates(n) = RunEnds(0, first, n)
        BY <4>2 DEF Candidates, first
      <4> QED BY <3>2, <3>3, <4>1, <4>3 DEF SearchInvAt, Stopped
    <3> QED BY <3>7, <3>8
  <2>4. CASE count # n + 1
    <3>1. ~next.found /\ count <= n /\ next.count = IF p = Bits - 1 THEN 0 ELSE count
      BY <1>4, <2>1, <2>2, <2>4 DEF count
    <3>2. RunEnds(lo, hi + 1, n) = {}
      <4>1. ~(lo + n <= p /\ ((p - n) .. p) \cap used = {})
        <5> SUFFICES ASSUME lo + n <= p, ((p - n) .. p) \cap used = {} PROVE FALSE
          OBVIOUS
        <5>1. p \notin used
          BY <1>2, <1>3
        <5>2. acc.count < n
          BY <1>4, <3>1, <5>1 DEF count
        <5>3. hi - acc.count - 1 \in used /\ hi - acc.count - 1 \in (p - n) .. p
          BY <1>2, <1>3, <1>4, <2>1, <5>2
        <5> QED BY <5>3
      <4> QED BY <1>2, <1>3, <2>1, <4>1, MoreRuns
    <3>3. CASE k + 1 = rest
      <4>1. PartLo(first, k + 1) = 0 /\ PartHi(first, k + 1) = 0 /\ p = Bits - 1 /\ k < rest
            /\ lo = first /\ hi + 1 = Bits
        BY <1>1, <1>2, <1>3, <3>3 DEF PartLo, PartHi, rest
      <4>2. next.count = 0
        BY <3>1, <4>1
      <4>3. RunEnds(0, 0, n) = {} /\ RunEnds(first, Bits, n) = {}
        BY <3>2, <4>1 DEF RunEnds
      <4> QED BY <3>1, <4>1, <4>2, <4>3 DEF SearchInvAt, Searching, NoRun
    <3>4. CASE k + 1 # rest
      <4>1. PartLo(first, k + 1) = lo /\ PartHi(first, k + 1) = hi + 1
        BY <1>1, <1>3, <3>4 DEF PartLo, PartHi, rest, lo, hi
      <4>2. p # Bits - 1
        BY <1>1, <1>2, <1>3, <3>4 DEF rest
      <4>3. next.count = count /\ next.start = IF count = 1 THEN p + 1 ELSE acc.start
        BY <2>2, <3>1, <4>2
      <4>4. NoRun(first, k + 1, n)
        <5>1. k + 1 >= rest => k >= rest
          BY <1>1, <3>4
        <5> QED BY <2>1, <3>2, <4>1, <5>1 DEF NoRun, rest
      <4>5. CASE p \in used
        <5>1. count = 0
          BY <4>5 DEF count
        <5>2. hi + 1 - 0 - 1 \in used
          BY <1>2, <1>3, <4>5
        <5> QED BY <1>3, <3>1, <4>1, <4>3, <4>4, <5>1, <5>2 DEF SearchInvAt, Searching
      <4>6. CASE p \notin used
        <5>1. count = acc.count + 1
          BY <4>6 DEF count
        <5>2. \A i \in (hi + 1 - count) .. (hi + 1 - 1) : i \notin used
          <6>1. \A i \in (hi + 1 - count) .. (hi + 1 - 1) : i = hi \/ i \in (hi - acc.count) .. (hi - 1)
            BY <1>3, <1>4, <5>1
          <6> QED BY <1>2, <2>1, <4>6, <6>1
        <5>3. count < hi + 1 - lo => hi + 1 - count - 1 \in used
          <6>1. hi + 1 - count - 1 = hi - acc.count - 1
            BY <1>3, <1>4, <5>1
          <6> QED BY <1>3, <1>4, <2>1, <5>1, <6>1
        <5>4. next.start = hi + 1 - count + 1
          BY <1>2, <1>3, <1>4, <2>1, <4>3, <5>1
        <5>5. count <= n /\ count <= hi + 1 - lo
          BY <1>3, <1>4, <2>1, <3>1, <5>1
        <5>6. /\ next.count <= n /\ next.count <= hi + 1 - lo
              /\ \A i \in (hi + 1 - next.count) .. (hi + 1 - 1) : i \notin used
              /\ next.count < hi + 1 - lo => hi + 1 - next.count - 1 \in used
              /\ next.start = hi + 1 - next.count + 1
          BY <4>3, <5>2, <5>3, <5>4, <5>5
        <5>7. Searching(next, first, k + 1, n)
          BY <1>1, <1>3, <1>4, <4>1, <4>3, <4>4, <5>6 DEF Searching
        <5> QED BY <3>1, <5>7 DEF SearchInvAt
      <4> QED BY <4>5, <4>6
    <3> QED BY <3>3, <3>4
  <2> QED BY <2>3, <2>4
<1> QED BY <1>4, <1>5, <1>6 DEF p

\* The search finds the first run, or none when there is none, and fails on a run
\* only when it lies across the start of the word where it began.
LEMMA SearchIs ==
  ASSUME searchPos \in 0 .. StatusSize - 1, NEW n \in Nat, n > 0
  PROVE  LET s == Search(n)
         IN  /\ s.found <=> Candidates(n) # {}
             /\ s.found => Stopped(s, n)
             /\ ~s.found => \A e \in RunEnds(0, Bits, n) :
                              searchPos * WordBits \in (e - n + 1) .. e
<1> DEFINE first == searchPos * WordBits
<1>1. PICK h : SearchRun(h, n)
  BY SearchTrace
<1> DEFINE T == {k \in 0 .. Bits : SearchInvAt(h[k], first, k, n)}
<1>2. first \in 0 .. Bits - 1 /\ Bits \in Nat /\ Bits > 0
  BY VisitedIs, BitsType
<1> HIDE DEF first
<1>3. 0 \in T
  <2>1. h[0] = SearchStart /\ ~SearchStart.found /\ SearchStart.count = 0
    BY <1>1 DEF SearchRun, SearchStart
  <2>2. PartLo(first, 0) = first /\ PartHi(first, 0) = first
    BY <1>2 DEF PartLo, PartHi
  <2>3. NoRun(first, 0, n)
    BY <1>2, <2>2 DEF NoRun, RunEnds
  <2>4. Searching(SearchStart, first, 0, n)
    BY <1>2, <2>1, <2>2, <2>3 DEF Searching
  <2>5. SearchInvAt(h[0], first, 0, n)
    BY <2>1, <2>4 DEF SearchInvAt
  <2> QED BY <1>2, <2>5
<1>4. ASSUME NEW k \in 0 .. Bits - 1, k \in T PROVE k + 1 \in T
  <2>1. k + 1 \in 1 .. Bits /\ (k + 1) - 1 = k /\ k \in 0 .. Bits /\ k + 1 \in 0 .. Bits
    BY <1>2
  <2>2. h[k] \in Accs /\ h[k + 1] = SearchBit(n, h[k], Visited[k + 1])
    BY <1>1, <2>1 DEF SearchRun
  <2>3. SearchInvAt(h[k], searchPos * WordBits, k, n)
    BY <1>4 DEF first
  <2>4. SearchInvAt(SearchBit(n, h[k], Visited[k + 1]), searchPos * WordBits, k + 1, n)
    BY <2>2, <2>3, BitSearched
  <2> QED BY <2>1, <2>2, <2>4 DEF first
<1>5. 0 .. Bits \subseteq T
  <2> HIDE DEF T
  <2> QED BY <1>2, <1>3, <1>4, UpTo
<1> DEFINE s == Search(n)
<1>6. SearchInvAt(s, first, Bits, n) /\ s.found \in BOOLEAN
  <2>1. Bits \in T /\ s = h[Bits] /\ h[Bits] \in Accs
    BY <1>1, <1>2, <1>5 DEF SearchRun
  <2> HIDE DEF s
  <2> QED BY <2>1 DEF Accs
<1> HIDE DEF s
<1>7. CASE s.found
  <2>1. Stopped(s, n)
    BY <1>6, <1>7 DEF SearchInvAt
  <2>2. Candidates(n) # {}
    BY <2>1 DEF Stopped
  <2> QED BY <1>7, <2>1, <2>2 DEF s
<1>8. CASE ~s.found
  <2>1. RunEnds(first, Bits, n) = {} /\ RunEnds(0, first, n) = {}
    <3>1. PartLo(first, Bits) = 0 /\ PartHi(first, Bits) = first /\ Bits >= Bits - first
      BY <1>2 DEF PartLo, PartHi
    <3> QED BY <1>6, <1>8, <3>1 DEF SearchInvAt, Searching, NoRun
  <2>2. Candidates(n) = {}
    BY <2>1 DEF Candidates, first
  <2>3. ASSUME NEW e \in RunEnds(0, Bits, n) PROVE first \in (e - n + 1) .. e
    <3>1. e \in n .. (Bits - 1) /\ ((e - n) .. e) \cap used = {}
      BY DEF RunEnds
    <3>2. ASSUME e < first PROVE FALSE
      <4>1. e \in (0 + n) .. (first - 1)
        BY <1>2, <3>1, <3>2
      <4>2. e \in RunEnds(0, first, n)
        BY <3>1, <4>1 DEF RunEnds
      <4> QED BY <2>1, <4>2
    <3>3. ~(first <= e - n)
      BY <1>2, <2>1, <3>1 DEF RunEnds
    <3> QED BY <1>2, <3>1, <3>2, <3>3
  <2> QED BY <1>8, <2>2, <2>3 DEF s, first
<1> QED BY <1>7, <1>8

\* In every state of the heap the loops do what the actions say.
LEMMA LoopsAreRight == ASSUME IInv, BlocksExact PROVE LoopsAgree
<1>1. ASSUME inited, NEW size \in Sizes
      PROVE  LET n == LinesFor(BlkSize(size))
                 s == Search(n)
             IN  /\ s.found <=> Candidates(n) # {}
                 /\ s.found => LET e == s.start + n - 1
                               IN  /\ e \in Candidates(n) /\ WordOf(e) = s.word
                                   /\ \A f \in Candidates(n) : e <= f
                 /\ ~s.found => \A e \in RunEnds(0, Bits, n) :
                                  searchPos * WordBits \in (e - n + 1) .. e
  <2> DEFINE n == LinesFor(BlkSize(size))
  <2>1. n \in Nat /\ n > 0
    BY ConstantsAssumption DEF LinesFor, BlkSize, RoundUp4, LineSz, HdrSz, FooterSz
  <2>2. searchPos \in 0 .. StatusSize - 1
    BY DEF IInv, TypeOK
  <2> HIDE DEF n
  <2>3. /\ Search(n).found <=> Candidates(n) # {}
        /\ Search(n).found => Stopped(Search(n), n)
        /\ ~Search(n).found => \A e \in RunEnds(0, Bits, n) :
                                 searchPos * WordBits \in (e - n + 1) .. e
    BY <2>1, <2>2, SearchIs
  <2> QED BY <2>3 DEF Stopped, n
<1>2. ASSUME NEW b \in live PROVE SetStatus(b.start, b.n - 1) = Marks(b)
  <2>1. b.start \in Nat /\ b.n - 1 \in Nat /\ b.n \in Nat
    BY DEF IInv, HeapInv, InUse, TypeOK, Block, Line
  <2>2. SetStatus(b.start, b.n - 1) = b.start .. (b.start + (b.n - 1) - 1)
    BY <2>1, SetStatusIs
  <2>3. b.start + (b.n - 1) - 1 = b.start + b.n - 2
    BY <2>1
  <2> QED BY <2>2, <2>3 DEF Marks
<1>3. ASSUME NEW l \in Line PROVE SetStatus(l, CountOnes(l)) = Ones(l)
  <2>1. l \in Nat /\ CountOnes(l) \in Nat /\ Ones(l) = l .. (l + CountOnes(l) - 1)
    BY CountIs DEF Line
  <2>2. SetStatus(l, CountOnes(l)) = l .. (l + CountOnes(l) - 1)
    BY <2>1, SetStatusIs
  <2> QED BY <2>1, <2>2
<1> QED BY <1>1, <1>2, <1>3 DEF LoopsAgree

\* The search, the masks and the count over words, and the loops over bytes
\* compute what DmaBufferMgr says with sets, for every heap, word size and
\* request (cyfxtx.c:515-650, 802-838, 899-943, 1052-1067).
THEOREM LoopsAreExact == Spec => []LoopsAgree
<1>1. IInv => LoopsAgree
  BY BlocksAreExact, LoopsAreRight
<1> QED  BY Inductive, <1>1, PTL
=============================================================================

------------------------------- MODULE MemHeap -------------------------------
(***************************************************************************)
(* The driver heap of the FX3 firmware, cyfxtx.c 240-495: ThreadX's byte   *)
(* pool with, when checks are enabled, a header and a footer around each   *)
(* block, a doubly linked list of the blocks in use and two counters.      *)
(* Threads and interrupts call it; the pool has its own protection, the    *)
(* list and the counters have none.                                        *)
(*                                                                         *)
(* The pool is a set of blocks; sizes and addresses are left out, so an    *)
(* allocation may fail while blocks are free.  A step reads or writes one  *)
(* thing that is shared.  What a free block holds is only read after calls *)
(* have met in the unprotected part, and is cleared here.  A definition    *)
(* marked "mutant" is a faulty variant that no action uses.                *)
(***************************************************************************)
EXTENDS Integers, FiniteSets

CONSTANTS Threads, Interrupts,  \* callers
          Blocks,               \* blocks of the pool, numbers from 1
          MaxAllocs             \* bound: allocations

ASSUME MemAssumption == Blocks \subseteq Nat \ {0} /\ MaxAllocs \in Nat /\ Threads \cap Interrupts = {}

Callers == Threads \cup Interrupts
NoBlock == 0

VARIABLES
  init, checks,         \* glMemPoolInit, glMemEnableChecks
  free, given,          \* glMemBytePool: blocks that are free; bound: blocks given
  live,                 \* blocks handed out and not given back
  id,                   \* per block: alloc_id
  prev, next,           \* per block: its neighbours
  startSig, endSig,     \* per block: the signature is there
  list,                 \* glMemInUseList
  allocCnt, freeCnt,
  pc, blk, val,         \* per caller: step, block_p, a counter it has read
  result,               \* per caller: what its last CyU3PMemCorruptionCheck said
  over,                 \* history: live blocks whose owner wrote beside them
  clash                 \* history: a call met another, or an overrun, in the
                        \* unprotected part

setup == <<init, checks>>
pool == <<free, given>>
links == <<prev, next, list>>
signs == <<startSig, endSig>>
counts == <<allocCnt, freeCnt, id>>
vars == <<setup, pool, live, links, signs, counts, pc, blk, val, result, over, clash>>

Unprotected == {"count", "counted", "enter", "link", "head", "footer",
                "signs", "freed", "unnext", "unprev", "unhead", "walk"}

Init ==
  /\ init = FALSE /\ checks = FALSE /\ free = {} /\ given = 0 /\ live = {}
  /\ id = [b \in Blocks |-> 0]
  /\ prev = [b \in Blocks |-> NoBlock] /\ next = [b \in Blocks |-> NoBlock]
  /\ startSig = [b \in Blocks |-> FALSE] /\ endSig = [b \in Blocks |-> FALSE]
  /\ list = NoBlock /\ allocCnt = 0 /\ freeCnt = 0
  /\ pc = [c \in Callers |-> "idle"] /\ blk = [c \in Callers |-> NoBlock] /\ val = [c \in Callers |-> 0]
  /\ result = [c \in Callers |-> "none"] /\ over = {} /\ clash = FALSE

\* The history of every step: two calls, or a call and an overrun, meet.
Quiet == \A c \in Callers : pc[c] \notin Unprotected
Overlap == \E c, d \in Callers : c # d /\ pc[c] \in Unprotected /\ pc[d] \in Unprotected
Seen == clash' = (clash \/ Overlap' \/ (over' # {} /\ over = {} /\ ~Quiet))

\* Before the firmware has threads, or after CyU3PFreeHeaps.
MemEnableChecks == ~init /\ checks' \in BOOLEAN /\ UNCHANGED <<init, pool>>
MemInit == ~init /\ init' = TRUE /\ free' = Blocks /\ UNCHANGED <<checks, given>>
Setup == (MemEnableChecks \/ MemInit) /\ UNCHANGED <<live, links, signs, counts, pc, blk, val, result, over, clash>>

\* CyU3PFreeHeaps: the pool goes with all its blocks (that of the bitmap too, which
\* CyU3PDmaBufferDeInit frees first), and the heap can be set up anew.  The SDK
\* calls it when the firmware has stopped everything else: no call is under way,
\* and nobody gives back a block of the old pool.
FreeHeaps ==
  /\ init /\ \A c \in Callers : pc[c] = "idle"
  /\ init' = FALSE /\ free' = {} /\ live' = {} /\ over' = {}
  /\ allocCnt' = 0 /\ freeCnt' = 0 /\ list' = NoBlock
  /\ id' = [b \in Blocks |-> 0]
  /\ prev' = [b \in Blocks |-> NoBlock] /\ next' = [b \in Blocks |-> NoBlock]
  /\ startSig' = [b \in Blocks |-> FALSE] /\ endSig' = [b \in Blocks |-> FALSE]
  /\ clash' = FALSE
  /\ UNCHANGED <<checks, given, pc, blk, val, result>>

\* An interrupt runs to its end before anything else does.
Runs(c) == \A i \in Interrupts : i # c => pc[i] = "idle"
At(c, step) == Runs(c) /\ pc[c] = step
Goto(c, step) == pc' = [pc EXCEPT ![c] = step]
Return(c) == Goto(c, "idle") /\ blk' = [blk EXCEPT ![c] = NoBlock] /\ val' = [val EXCEPT ![c] = 0]

\* A step that leaves the pool and its blocks to their owners.
Move(c, from, to) == At(c, from) /\ Goto(c, to) /\ UNCHANGED <<setup, pool, live, blk, result, over>> /\ Seen
Count(c, n) == val' = [val EXCEPT ![c] = n] /\ UNCHANGED <<links, signs>>
Put(f, b, value) == [f EXCEPT ![b] = value]

-----------------------------------------------------------------------------
(* CyU3PMemAlloc, by a thread or an interrupt.                              *)

AllocCall(c) == init /\ Move(c, "idle", "pool") /\ UNCHANGED <<links, signs, counts, val>>

\* The pool has no memory, for a thread not even after its time-out.
PoolFails(c) == Move(c, "pool", "idle") /\ UNCHANGED <<links, signs, counts, val>>

PoolGives(c) ==
  /\ At(c, "pool") /\ given < MaxAllocs /\ given' = given + 1
  /\ \E b \in free :
       /\ free' = free \ {b}
       /\ IF checks
          THEN Goto(c, "count") /\ blk' = Put(blk, c, b) /\ UNCHANGED live
          ELSE Goto(c, "idle") /\ live' = live \cup {b} /\ UNCHANGED blk
  /\ UNCHANGED <<setup, links, signs, counts, val, result, over>>
  /\ Seen

\* glMemAllocCnt++ is a read and a write.
AllocCount(c) == Move(c, "count", "counted") /\ Count(c, allocCnt) /\ UNCHANGED counts
AllocCounted(c) ==
  /\ Move(c, "counted", "enter") /\ Count(c, 0)
  /\ id' = Put(id, blk[c], val[c]) /\ allocCnt' = val[c] + 1
  /\ UNCHANGED freeCnt

AllocEnter(c) ==
  /\ Move(c, "enter", "link")
  /\ prev' = Put(prev, blk[c], list) /\ next' = Put(next, blk[c], NoBlock)
  /\ startSig' = Put(startSig, blk[c], TRUE)
  /\ UNCHANGED <<list, endSig, counts, val>>

AllocLink(c) ==
  /\ Move(c, "link", "head")
  /\ next' = IF list # NoBlock THEN Put(next, list, blk[c]) ELSE next
  /\ UNCHANGED <<prev, list, signs, counts, val>>

AllocHead(c) == Move(c, "head", "footer") /\ list' = blk[c] /\ UNCHANGED <<prev, next, signs, counts, val>>

HandOut(c) ==
  /\ At(c, "footer")
  /\ live' = live \cup {blk[c]} /\ Return(c)
  /\ UNCHANGED <<setup, pool, links, startSig, counts, result, over>>
  /\ Seen

\* mutant: no footer.
AllocBare(c) == HandOut(c) /\ UNCHANGED endSig

AllocFooter(c) == HandOut(c) /\ endSig' = Put(endSig, blk[c], TRUE)

-----------------------------------------------------------------------------
(* CyU3PMemFree: any caller may give back a block, once.  (Nothing is done  *)
(* for an address below the heap.)  A bad signature is only told to the     *)
(* user, in a call-back.                                                    *)

FreeCall(c) ==
  /\ At(c, "idle")
  /\ \E b \in live : live' = live \ {b} /\ over' = over \ {b} /\ blk' = Put(blk, c, b)
  /\ Goto(c, IF checks THEN "signs" ELSE "give")
  /\ UNCHANGED <<setup, pool, links, signs, counts, val, result>>
  /\ Seen

FreeSigns(c) == Move(c, "signs", "freed") /\ Count(c, freeCnt) /\ UNCHANGED counts

FreeCounted(c) ==
  /\ Move(c, "freed", "unnext") /\ Count(c, 0)
  /\ freeCnt' = val[c] + 1
  /\ UNCHANGED <<allocCnt, id>>

UnlinkNext(c) ==
  /\ Move(c, "unnext", "unprev")
  /\ prev' = IF next[blk[c]] # NoBlock THEN Put(prev, next[blk[c]], prev[blk[c]]) ELSE prev
  /\ UNCHANGED <<next, list, signs, counts, val>>

UnlinkPrev(c) ==
  /\ Move(c, "unprev", "unhead")
  /\ next' = IF prev[blk[c]] # NoBlock THEN Put(next, prev[blk[c]], next[blk[c]]) ELSE next
  /\ UNCHANGED <<prev, list, signs, counts, val>>

Unhead(c, head) ==
  /\ Move(c, "unhead", "give")
  /\ list' = IF list = blk[c] THEN head ELSE list
  /\ UNCHANGED <<prev, next, signs, counts, val>>

\* mutant: the list goes with its head.
UnlinkAll(c) == Unhead(c, NoBlock)

UnlinkHead(c) == Unhead(c, prev[blk[c]])

\* CyU3PByteFree.
PoolTakes(c) ==
  /\ At(c, "give") /\ Return(c)
  /\ free' = free \cup {blk[c]}
  /\ id' = Put(id, blk[c], 0)
  /\ prev' = Put(prev, blk[c], NoBlock) /\ next' = Put(next, blk[c], NoBlock)
  /\ startSig' = Put(startSig, blk[c], FALSE) /\ endSig' = Put(endSig, blk[c], FALSE)
  /\ UNCHANGED <<setup, given, live, list, allocCnt, freeCnt, result, over>>
  /\ Seen

-----------------------------------------------------------------------------
(* CyU3PMemCorruptionCheck, by a thread.                                    *)

CheckCall(c) ==
  /\ init /\ c \in Threads /\ At(c, "idle")
  /\ blk' = Put(blk, c, list) /\ result' = Put(result, c, "none") /\ Goto(c, "walk")
  /\ UNCHANGED <<setup, pool, live, links, signs, counts, val, over>>
  /\ Seen

\* One block more, or the answer: good is what the signatures say.
Look(c, good) ==
  /\ At(c, "walk")
  /\ IF blk[c] # NoBlock /\ good
     THEN blk' = Put(blk, c, prev[blk[c]]) /\ UNCHANGED <<pc, val, result>>
     ELSE Return(c) /\ result' = Put(result, c, IF blk[c] = NoBlock THEN "success" ELSE "failure")
  /\ UNCHANGED <<setup, pool, live, links, signs, counts, over>>
  /\ Seen

\* A pointer that leads out of the heap is a failure too.  (None does here: an
\* overrun reaches the signatures, not the pointers of the header before them.)
CheckStep(c) == Look(c, blk[c] \in Blocks /\ startSig[blk[c]] /\ endSig[blk[c]])

\* An owner writes just before or behind its block.
Overrun ==
  /\ over = {}  \* bound: one block at a time
  /\ \E b \in live :
       /\ over' = {b}
       /\ \/ startSig' = Put(startSig, b, FALSE) /\ UNCHANGED endSig
          \/ endSig' = Put(endSig, b, FALSE) /\ UNCHANGED startSig
  /\ UNCHANGED <<setup, pool, live, links, counts, pc, blk, val, result>>
  /\ Seen

Alloc(c) ==
  \/ AllocCall(c) \/ PoolFails(c) \/ PoolGives(c) \/ AllocCount(c) \/ AllocCounted(c)
  \/ AllocEnter(c) \/ AllocLink(c) \/ AllocHead(c) \/ AllocFooter(c)
Free(c) ==
  \/ FreeCall(c) \/ FreeSigns(c) \/ FreeCounted(c)
  \/ UnlinkNext(c) \/ UnlinkPrev(c) \/ UnlinkHead(c) \/ PoolTakes(c)

\* One life of the heap, and the end of it.
Life == Setup \/ Overrun \/ \E c \in Callers : Alloc(c) \/ Free(c) \/ CheckCall(c) \/ CheckStep(c)
Next == Life \/ FreeHeaps

Spec == Init /\ [][Next]_vars

-----------------------------------------------------------------------------
(* Properties.                                                              *)

AllocSteps == {"count", "counted", "enter", "link", "head", "footer"}
FreeSteps == {"signs", "freed", "unnext", "unprev", "unhead", "give"}
Steps == {"idle", "pool", "walk"} \cup AllocSteps \cup FreeSteps

\* The variables have their types (cyfxtx.c:127-147 and the locals).
TypeOK ==
  /\ init \in BOOLEAN /\ checks \in BOOLEAN /\ free \subseteq Blocks /\ given \in Nat
  /\ live \subseteq Blocks /\ over \subseteq live /\ clash \in BOOLEAN
  /\ id \in [Blocks -> Nat] /\ list \in Blocks \cup {NoBlock}
  /\ prev \in [Blocks -> Blocks \cup {NoBlock}] /\ next \in [Blocks -> Blocks \cup {NoBlock}]
  /\ startSig \in [Blocks -> BOOLEAN] /\ endSig \in [Blocks -> BOOLEAN]
  /\ allocCnt \in Nat /\ freeCnt \in Nat
  /\ pc \in [Callers -> Steps] /\ val \in [Callers -> Nat]
  /\ blk \in [Callers -> Blocks \cup {NoBlock}]
  /\ result \in [Callers -> {"none", "success", "failure"}]

Newest(B, b) == IF B = {} THEN b = NoBlock ELSE b \in B /\ \A a \in B : id[a] <= id[b]
Oldest(B, b) == IF B = {} THEN b = NoBlock ELSE b \in B /\ \A a \in B : id[b] <= id[a]
OlderIn(B, b) == {a \in B : id[a] < id[b]}
NewerIn(B, b) == {a \in B : id[b] < id[a]}

\* CyU3PMemGetActiveList leads to every block in use and to no other, the newest
\* first, next_blk leads back, and the counters say how many there are
\* (cyfxtx.c:435-438, 416), for all orders in which threads and interrupts
\* allocate and free, and in each life of the heap from its start, as long as no two
\* calls have met in the part without protection since then.
ListExact ==
  checks /\ ~clash /\ Quiet =>
    /\ Newest(live, list)
    /\ \A b \in live : Newest(OlderIn(live, b), prev[b]) /\ Oldest(NewerIn(live, b), next[b])
    /\ \A a, b \in live : a # b => id[a] # id[b]
    /\ allocCnt - freeCnt = Cardinality(live)

\* CyU3PMemCorruptionCheck tells of an overrun block and of nothing else
\* (cyfxtx.c:454-460), unless something overlaps with it.
CheckTells ==
  [][\A c \in Threads : checks /\ ~clash' /\ pc[c] = "walk" /\ pc'[c] = "idle"
       => (result'[c] = "success" <=> over = {})]_vars
=============================================================================

--------------------------- MODULE MemHeap_proofs ---------------------------
(***************************************************************************)
(* Proofs about MemHeap: the list of the blocks in use, its counters and   *)
(* the corruption check are right, for any number of threads, interrupts   *)
(* and blocks, as long as no two calls meet in the unprotected part.       *)
(***************************************************************************)
EXTENDS MemHeap, FiniteSetTheorems, TLAPS

-----------------------------------------------------------------------------
(* The inductive invariant.                                                *)

\* A block is in the pool, with a caller or with an owner, and in no two places.
Holds(c) == pc[c] \in AllocSteps \cup FreeSteps

OwnInv ==
  /\ free \cap live = {}
  /\ \A c \in Callers : Holds(c) => blk[c] \in Blocks \ (free \cup live)
  /\ \A c, d \in Callers : Holds(c) /\ Holds(d) /\ blk[c] = blk[d] => c = d

\* Nothing happens before CyU3PMemInit.
RestInv ==
  ~init => /\ live = {} /\ list = NoBlock /\ allocCnt = 0 /\ freeCnt = 0
           /\ \A c \in Callers : pc[c] = "idle"

\* The history tells of every meeting.
ClashInv == Overlap => clash

\* An owner sees both signatures unless it has overwritten one.
SignInv ==
  checks =>
    /\ \A b \in live : startSig[b] /\ endSig[b] <=> b \notin over
    /\ \A c \in Callers : pc[c] \in {"link", "head", "footer"} => startSig[blk[c]]

\* The blocks of the callers (of pcs p and blocks h) that are at one of the steps.
Held(p, h, steps) == {h[c] : c \in {d \in Callers : p[d] \in steps}}

\* ListExact holds between calls.  In a call, the blocks that are in the list,
\* those that the prev_blk and the next_blk of others lead to, and those that
\* are counted differ: each changes at its own step.
Listed == live \cup Held(pc, blk, {"footer", "signs", "freed", "unnext", "unprev", "unhead"})
Back == Listed \ Held(pc, blk, {"unprev", "unhead"})
Forth == (Listed \cup Held(pc, blk, {"head"})) \ Held(pc, blk, {"unhead"})
Counted == live \cup Held(pc, blk, {"enter", "link", "head", "footer", "signs", "freed"})

OrderInv ==
  /\ \A b \in Listed : id[b] < allocCnt
  /\ \A a, b \in Listed : a # b => id[a] # id[b]
  /\ Newest(Listed, list)
  /\ \A b \in Listed : Newest(OlderIn(Back, b), prev[b]) /\ Oldest(NewerIn(Forth, b), next[b])

\* What a call has read is what is there, and a block not yet in the list is newer
\* than the list.
NewInv ==
  \A c \in Callers :
    /\ pc[c] = "counted" => val[c] = allocCnt
    /\ pc[c] = "freed" => val[c] = freeCnt
    /\ pc[c] \in {"enter", "link", "head"} =>
         /\ id[blk[c]] < allocCnt
         /\ \A b \in Listed : id[b] < id[blk[c]]
    /\ pc[c] \in {"link", "head"} => prev[blk[c]] = list /\ next[blk[c]] = NoBlock

CountInv == IsFiniteSet(Counted) /\ allocCnt - freeCnt = Cardinality(Counted)

\* A corruption check has yet to come to a block that was overrun.
WalkInv ==
  \A c \in Callers : pc[c] = "walk" =>
    /\ blk[c] \in live \cup {NoBlock}
    /\ \A b \in over : blk[c] # NoBlock /\ id[b] <= id[blk[c]]

HeapInv == checks /\ ~clash => OrderInv /\ NewInv /\ CountInv /\ WalkInv

IInv == TypeOK /\ OwnInv /\ RestInv /\ ClashInv /\ SignInv /\ HeapInv

-----------------------------------------------------------------------------
(* Types, ownership of the blocks, the signatures.                         *)

USE DEF Callers, NoBlock

\* A step keeps the types: a caller in the middle of a call has a block.
LEMMA TypeStep == TypeOK /\ OwnInv /\ [Life]_vars => TypeOK'
<1> SUFFICES ASSUME TypeOK, OwnInv, [Life]_vars  PROVE TypeOK'
  OBVIOUS
<1> USE DEF TypeOK, Steps, AllocSteps, FreeSteps
<1>1. CASE UNCHANGED vars
  BY <1>1 DEF vars, setup, pool, links, signs, counts
<1>2. CASE Setup
  BY <1>2 DEF Setup, MemEnableChecks, MemInit, pool, links, signs, counts
<1>3. CASE Overrun
  BY <1>3 DEF Overrun, Seen, Put, setup, pool, links, counts
<1>4. ASSUME NEW c \in Callers, Alloc(c)  PROVE TypeOK'
  <2> USE DEF Move, At, Goto, Count, Put, setup, pool, links, signs, counts, Seen
  <2>1. CASE AllocCall(c)
    BY <2>1 DEF AllocCall
  <2>2. CASE PoolFails(c)
    BY <2>2 DEF PoolFails
  <2>3. CASE PoolGives(c)
    BY <2>3 DEF PoolGives
  <2>4. CASE AllocCount(c)
    BY <2>4 DEF AllocCount
  <2>5. CASE AllocCounted(c)
    <3>1. val[c] \in Nat /\ id \in [Blocks -> Nat] /\ blk[c] \in Blocks
      BY <2>5 DEF AllocCounted, OwnInv, Holds
    <3>2. [id EXCEPT ![blk[c]] = val[c]] \in [Blocks -> Nat]
      BY <3>1, Zenon
    <3> QED  BY <2>5, <3>1, <3>2 DEF AllocCounted
  <2>6. CASE AllocEnter(c)
    BY <2>6 DEF AllocEnter
  <2>7. CASE AllocLink(c)
    BY <2>7 DEF AllocLink
  <2>8. CASE AllocHead(c)
    BY <2>8 DEF AllocHead
  <2>9. CASE AllocFooter(c)
    BY <2>9 DEF AllocFooter, HandOut, Return, OwnInv, Holds
  <2> QED  BY <1>4, <2>1, <2>2, <2>3, <2>4, <2>5, <2>6, <2>7, <2>8, <2>9 DEF Alloc
<1>5. ASSUME NEW c \in Callers, Free(c)  PROVE TypeOK'
  <2> USE DEF Move, At, Goto, Count, Put, setup, pool, links, signs, counts, Seen
  <2>1. CASE FreeCall(c)
    BY <2>1 DEF FreeCall
  <2>2. CASE FreeSigns(c)
    BY <2>2 DEF FreeSigns
  <2>3. CASE FreeCounted(c)
    BY <2>3 DEF FreeCounted
  <2>4. CASE UnlinkNext(c)
    BY <2>4 DEF UnlinkNext, OwnInv, Holds
  <2>5. CASE UnlinkPrev(c)
    BY <2>5 DEF UnlinkPrev, OwnInv, Holds
  <2>6. CASE UnlinkHead(c)
    BY <2>6 DEF UnlinkHead, Unhead, OwnInv, Holds
  <2>7. CASE PoolTakes(c)
    BY <2>7 DEF PoolTakes, Return, OwnInv, Holds
  <2> QED  BY <1>5, <2>1, <2>2, <2>3, <2>4, <2>5, <2>6, <2>7 DEF Free
<1>6. ASSUME NEW c \in Callers, CheckCall(c) \/ CheckStep(c)  PROVE TypeOK'
  <2> USE DEF At, Goto, Put, setup, pool, links, signs, counts, Seen
  <2>1. CASE CheckCall(c)
    BY <2>1 DEF CheckCall
  <2>2. CASE CheckStep(c)
    BY <2>2 DEF CheckStep, Look, Return
  <2> QED  BY <1>6, <2>1, <2>2
<1> QED  BY <1>1, <1>2, <1>3, <1>4, <1>5, <1>6 DEF Life

\* Who has a block after a step: its caller, the pool or an owner.
LEMMA OwnStep == TypeOK /\ OwnInv /\ RestInv /\ [Life]_vars => OwnInv'
<1> SUFFICES ASSUME TypeOK, OwnInv, RestInv, [Life]_vars  PROVE OwnInv'
  OBVIOUS
<1> USE DEF TypeOK, Steps, OwnInv, Holds, AllocSteps, FreeSteps
<1>1. CASE UNCHANGED vars
  BY <1>1 DEF vars, setup, pool, links, signs, counts
<1>2. CASE Setup
  BY <1>2 DEF Setup, MemEnableChecks, MemInit, pool, links, signs, counts, RestInv
<1>3. CASE Overrun
  BY <1>3 DEF Overrun, pool
<1>4. ASSUME NEW c \in Callers, Alloc(c)  PROVE OwnInv'
  <2> USE DEF Move, At, Goto, Count, Put, pool
  <2>1. CASE AllocCall(c)
    BY <2>1 DEF AllocCall
  <2>2. CASE PoolFails(c)
    BY <2>2 DEF PoolFails
  <2>3. CASE PoolGives(c)
    BY <2>3 DEF PoolGives
  <2>4. CASE AllocCount(c)
    BY <2>4 DEF AllocCount
  <2>5. CASE AllocCounted(c)
    BY <2>5 DEF AllocCounted
  <2>6. CASE AllocEnter(c)
    BY <2>6 DEF AllocEnter
  <2>7. CASE AllocLink(c)
    BY <2>7 DEF AllocLink
  <2>8. CASE AllocHead(c)
    BY <2>8 DEF AllocHead
  <2>9. CASE AllocFooter(c)
    BY <2>9 DEF AllocFooter, HandOut, Return
  <2> QED  BY <1>4, <2>1, <2>2, <2>3, <2>4, <2>5, <2>6, <2>7, <2>8, <2>9 DEF Alloc
<1>5. ASSUME NEW c \in Callers, Free(c)  PROVE OwnInv'
  <2> USE DEF Move, At, Goto, Count, Put, pool
  <2>1. CASE FreeCall(c)
    BY <2>1 DEF FreeCall
  <2>2. CASE FreeSigns(c)
    BY <2>2 DEF FreeSigns
  <2>3. CASE FreeCounted(c)
    BY <2>3 DEF FreeCounted
  <2>4. CASE UnlinkNext(c)
    BY <2>4 DEF UnlinkNext
  <2>5. CASE UnlinkPrev(c)
    BY <2>5 DEF UnlinkPrev
  <2>6. CASE UnlinkHead(c)
    BY <2>6 DEF UnlinkHead, Unhead
  <2>7. CASE PoolTakes(c)
    BY <2>7 DEF PoolTakes, Return
  <2> QED  BY <1>5, <2>1, <2>2, <2>3, <2>4, <2>5, <2>6, <2>7 DEF Free
<1>6. ASSUME NEW c \in Callers, CheckCall(c) \/ CheckStep(c)  PROVE OwnInv'
  BY <1>6 DEF CheckCall, CheckStep, Look, Return, At, Goto, Put, pool
<1> QED  BY <1>1, <1>2, <1>3, <1>4, <1>5, <1>6 DEF Life

\* Nothing happens before CyU3PMemInit.
LEMMA RestStep == TypeOK /\ RestInv /\ [Life]_vars => RestInv'
<1> SUFFICES ASSUME TypeOK, RestInv, [Life]_vars, ~init'  PROVE RestInv'
  BY DEF RestInv
<1>1. ~init
  <2>1. CASE Setup
    BY <2>1 DEF Setup, MemEnableChecks, MemInit
  <2>2. CASE UNCHANGED vars \/ Overrun
    BY <2>2 DEF vars, Overrun, setup
  <2>3. ASSUME NEW c \in Callers, Alloc(c)  PROVE ~init
    BY <2>3 DEF Alloc, AllocCall, PoolFails, PoolGives, AllocCount, AllocCounted, AllocEnter,
                AllocLink, AllocHead, AllocFooter, HandOut, Move, setup
  <2>4. ASSUME NEW c \in Callers, Free(c)  PROVE ~init
    BY <2>4 DEF Free, FreeCall, FreeSigns, FreeCounted, UnlinkNext, UnlinkPrev, UnlinkHead,
                Unhead, PoolTakes, Move, setup
  <2>5. ASSUME NEW c \in Callers, CheckCall(c) \/ CheckStep(c)  PROVE ~init
    BY <2>5 DEF CheckCall, CheckStep, Look, setup
  <2> QED  BY <2>1, <2>2, <2>3, <2>4, <2>5 DEF Life
<1>2. CASE UNCHANGED vars
  BY <1>1, <1>2 DEF RestInv, vars, pool, links, counts
<1>3. CASE Setup
  BY <1>1, <1>3 DEF RestInv, Setup, pool, links, counts
<1>4. CASE Overrun
  BY <1>1, <1>4 DEF RestInv, Overrun
<1>5. ASSUME NEW c \in Callers, Alloc(c)  PROVE FALSE
  BY <1>1, <1>5 DEF RestInv, Alloc, AllocCall, PoolFails, PoolGives, AllocCount, AllocCounted,
                    AllocEnter, AllocLink, AllocHead, AllocFooter, HandOut, Move, At
<1>6. ASSUME NEW c \in Callers, Free(c)  PROVE FALSE
  BY <1>1, <1>6 DEF RestInv, Free, FreeCall, FreeSigns, FreeCounted, UnlinkNext, UnlinkPrev,
                    UnlinkHead, Unhead, PoolTakes, Move, At
<1>7. ASSUME NEW c \in Callers, CheckCall(c) \/ CheckStep(c)  PROVE FALSE
  BY <1>1, <1>7 DEF RestInv, CheckCall, CheckStep, Look, At
<1> QED  BY <1>2, <1>3, <1>4, <1>5, <1>6, <1>7 DEF Life

\* Every step of a caller or an owner is seen by the history.
LEMMA StepSeen ==
  ASSUME [Life]_vars
  PROVE  Seen \/ (Setup \/ UNCHANGED vars)
<1>1. ASSUME NEW c \in Callers, Alloc(c)  PROVE Seen
  BY <1>1 DEF Alloc, AllocCall, PoolFails, PoolGives, AllocCount, AllocCounted, AllocEnter,
              AllocLink, AllocHead, AllocFooter, HandOut, Move
<1>2. ASSUME NEW c \in Callers, Free(c)  PROVE Seen
  BY <1>2 DEF Free, FreeCall, FreeSigns, FreeCounted, UnlinkNext, UnlinkPrev, UnlinkHead,
              Unhead, PoolTakes, Move
<1>3. ASSUME NEW c \in Callers, CheckCall(c) \/ CheckStep(c)  PROVE Seen
  BY <1>3 DEF CheckCall, CheckStep, Look
<1> QED  BY <1>1, <1>2, <1>3 DEF Life, Overrun

\* The history of meetings is kept, and never forgotten.
LEMMA ClashStep ==
  ASSUME TypeOK, ClashInv, [Life]_vars
  PROVE  ClashInv' /\ (clash => clash')
<1>1. CASE Seen
  BY <1>1 DEF ClashInv, Seen
<1>2. CASE Setup \/ UNCHANGED vars
  <2>1. pc' = pc /\ clash' = clash
    BY <1>2 DEF Setup, vars
  <2> QED  BY <2>1 DEF ClashInv, Overlap
<1> QED  BY <1>1, <1>2, StepSeen

\* A block that is handed out has both signatures; who overruns it loses one.
LEMMA SignStep == TypeOK /\ OwnInv /\ RestInv /\ SignInv /\ [Life]_vars => SignInv'
<1> SUFFICES ASSUME TypeOK, OwnInv, RestInv, SignInv, [Life]_vars, checks'  PROVE SignInv'
  BY DEF SignInv
<1> USE DEF TypeOK, SignInv, Steps, OwnInv, Holds, AllocSteps, FreeSteps
<1>1. CASE UNCHANGED vars
  BY <1>1 DEF vars, setup, pool, links, signs, counts
<1>2. CASE Setup
  BY <1>2 DEF Setup, MemEnableChecks, MemInit, pool, links, signs, counts, RestInv
<1>3. CASE Overrun
  <2>1. checks /\ live' = live /\ pc' = pc /\ blk' = blk
    BY <1>3 DEF Overrun, setup
  <2>2. PICK b \in live :
          /\ over = {} /\ over' = {b}
          /\ \/ startSig' = [startSig EXCEPT ![b] = FALSE] /\ endSig' = endSig
             \/ endSig' = [endSig EXCEPT ![b] = FALSE] /\ startSig' = startSig
    BY <1>3 DEF Overrun, Put
  <2> QED  BY <2>1, <2>2
<1>4. ASSUME NEW c \in Callers, Alloc(c)  PROVE SignInv'
  <2> USE DEF Move, At, Goto, Count, Put, pool, signs, setup, NoBlock
  <2>1. CASE AllocCall(c)
    BY <2>1 DEF AllocCall
  <2>2. CASE PoolFails(c)
    BY <2>2 DEF PoolFails
  <2>3. CASE PoolGives(c)
    BY <2>3 DEF PoolGives
  <2>4. CASE AllocCount(c)
    BY <2>4 DEF AllocCount
  <2>5. CASE AllocCounted(c)
    BY <2>5 DEF AllocCounted
  <2>6. CASE AllocEnter(c)
    BY <2>6 DEF AllocEnter
  <2>7. CASE AllocLink(c)
    BY <2>7 DEF AllocLink
  <2>8. CASE AllocHead(c)
    BY <2>8 DEF AllocHead
  <2>9. CASE AllocFooter(c)
    BY <2>9 DEF AllocFooter, HandOut, Return
  <2> QED  BY <1>4, <2>1, <2>2, <2>3, <2>4, <2>5, <2>6, <2>7, <2>8, <2>9 DEF Alloc
<1>5. ASSUME NEW c \in Callers, Free(c)  PROVE SignInv'
  <2> USE DEF Move, At, Goto, Count, Put, pool, signs, setup, NoBlock
  <2>1. CASE FreeCall(c)
    BY <2>1 DEF FreeCall
  <2>2. CASE FreeSigns(c)
    BY <2>2 DEF FreeSigns
  <2>3. CASE FreeCounted(c)
    BY <2>3 DEF FreeCounted
  <2>4. CASE UnlinkNext(c)
    BY <2>4 DEF UnlinkNext
  <2>5. CASE UnlinkPrev(c)
    BY <2>5 DEF UnlinkPrev
  <2>6. CASE UnlinkHead(c)
    BY <2>6 DEF UnlinkHead, Unhead
  <2>7. CASE PoolTakes(c)
    BY <2>7 DEF PoolTakes, Return
  <2> QED  BY <1>5, <2>1, <2>2, <2>3, <2>4, <2>5, <2>6, <2>7 DEF Free
<1>6. ASSUME NEW c \in Callers, CheckCall(c) \/ CheckStep(c)  PROVE SignInv'
  <2> USE DEF At, Goto, Put, signs, pool, setup
  <2>1. CASE CheckCall(c)
    BY <2>1 DEF CheckCall
  <2>2. CASE CheckStep(c)
    BY <2>2 DEF CheckStep, Look, Return
  <2> QED  BY <1>6, <2>1, <2>2
<1> QED  BY <1>1, <1>2, <1>3, <1>4, <1>5, <1>6 DEF Life

-----------------------------------------------------------------------------
(* The list, its order and the counters.                                   *)

USE DEF Unprotected

\* The blocks held at some steps, when nobody comes or goes, and when only c is there.
LEMMA HeldSame ==
  ASSUME NEW p, NEW h, NEW q, NEW g, NEW steps,
         \A d \in Callers : p[d] \in steps \/ q[d] \in steps => q[d] = p[d] /\ g[d] = h[d]
  PROVE  Held(q, g, steps) = Held(p, h, steps)
  BY DEF Held

LEMMA HeldOne ==
  ASSUME NEW p, NEW h, NEW steps, NEW c \in Callers,
         \A d \in Callers : d # c => p[d] \notin steps
  PROVE  Held(p, h, steps) = IF p[c] \in steps THEN {h[c]} ELSE {}
  BY DEF Held

\* Whoever is in the unprotected part is there alone, as long as no two calls
\* have met.
LEMMA StepAlone ==
  ASSUME ClashInv, ClashInv', ~clash, ~clash', NEW c \in Callers,
         pc[c] \in Unprotected \/ pc'[c] \in Unprotected,
         \A d \in Callers : d # c => pc'[d] = pc[d]
  PROVE  \A d \in Callers : d # c => pc[d] \notin Unprotected /\ pc'[d] \notin Unprotected
  BY DEF ClashInv, Overlap

\* What is in the list, and in each of its two chains, is then told by the
\* step that caller has reached; before a step and after it.

LEMMA AloneSets ==
  ASSUME NEW c \in Callers, \A d \in Callers : d # c => pc[d] \notin Unprotected
  PROVE  /\ pc[c] \in {"idle", "pool", "count", "counted", "give", "walk"} =>
              Listed = live /\ Back = live /\ Forth = live /\ Counted = live
         /\ pc[c] \in {"enter", "link"} =>
              Listed = live /\ Back = live /\ Forth = live /\ Counted = live \cup {blk[c]}
         /\ pc[c] = "head" =>
              Listed = live /\ Back = live /\ Forth = live \cup {blk[c]} /\ Counted = live \cup {blk[c]}
         /\ pc[c] \in {"footer", "signs", "freed"} =>
              /\ Listed = live \cup {blk[c]} /\ Back = live \cup {blk[c]}
              /\ Forth = live \cup {blk[c]} /\ Counted = live \cup {blk[c]}
         /\ pc[c] \in {"unnext", "unprev", "unhead"} =>
              /\ Listed = live \cup {blk[c]} /\ Counted = live
              /\ Back = IF pc[c] = "unnext" THEN Listed ELSE Listed \ {blk[c]}
              /\ Forth = IF pc[c] = "unhead" THEN Listed \ {blk[c]} ELSE Listed
<1> DEFINE H(steps) == Held(pc, blk, steps) = IF pc[c] \in steps THEN {blk[c]} ELSE {}
<1>1. \A steps \in SUBSET Unprotected : H(steps)
  <2> TAKE steps \in SUBSET Unprotected
  <2>1. \A d \in Callers : d # c => pc[d] \notin steps
    OBVIOUS
  <2> QED  BY <2>1, HeldOne
<1>2. /\ H({"footer", "signs", "freed", "unnext", "unprev", "unhead"})
      /\ H({"unprev", "unhead"}) /\ H({"head"}) /\ H({"unhead"})
      /\ H({"enter", "link", "head", "footer", "signs", "freed"})
  <2> HIDE DEF H
  <2> QED  BY <1>1
<1>3. CASE pc[c] \in {"idle", "pool", "count", "counted", "give", "walk"}
  BY <1>2, <1>3 DEF Listed, Back, Forth, Counted
<1>4. CASE pc[c] \in {"enter", "link", "head", "footer", "signs", "freed"}
  BY <1>2, <1>4 DEF Listed, Back, Forth, Counted
<1>5. CASE pc[c] \in {"unnext", "unprev", "unhead"}
  BY <1>2, <1>5 DEF Listed, Back, Forth, Counted
<1> QED  BY <1>3, <1>4, <1>5

LEMMA AloneSetsNext ==
  ASSUME NEW c \in Callers, \A d \in Callers : d # c => pc'[d] \notin Unprotected
  PROVE  /\ pc'[c] \in {"idle", "pool", "count", "counted", "give", "walk"} =>
              Listed' = live' /\ Back' = live' /\ Forth' = live' /\ Counted' = live'
         /\ pc'[c] \in {"enter", "link"} =>
              Listed' = live' /\ Back' = live' /\ Forth' = live' /\ Counted' = live' \cup {blk'[c]}
         /\ pc'[c] = "head" =>
              Listed' = live' /\ Back' = live' /\ Forth' = live' \cup {blk'[c]} /\ Counted' = live' \cup {blk'[c]}
         /\ pc'[c] \in {"footer", "signs", "freed"} =>
              /\ Listed' = live' \cup {blk'[c]} /\ Back' = live' \cup {blk'[c]}
              /\ Forth' = live' \cup {blk'[c]} /\ Counted' = live' \cup {blk'[c]}
         /\ pc'[c] \in {"unnext", "unprev", "unhead"} =>
              /\ Listed' = live' \cup {blk'[c]} /\ Counted' = live'
              /\ Back' = IF pc'[c] = "unnext" THEN Listed' ELSE Listed' \ {blk'[c]}
              /\ Forth' = IF pc'[c] = "unhead" THEN Listed' \ {blk'[c]} ELSE Listed'
<1> DEFINE H(steps) == Held(pc', blk', steps) = IF pc'[c] \in steps THEN {blk'[c]} ELSE {}
<1>1. \A steps \in SUBSET Unprotected : H(steps)
  <2> TAKE steps \in SUBSET Unprotected
  <2>1. \A d \in Callers : d # c => pc'[d] \notin steps
    OBVIOUS
  <2> QED  BY <2>1, HeldOne
<1>2. /\ H({"footer", "signs", "freed", "unnext", "unprev", "unhead"})
      /\ H({"unprev", "unhead"}) /\ H({"head"}) /\ H({"unhead"})
      /\ H({"enter", "link", "head", "footer", "signs", "freed"})
  <2> HIDE DEF H
  <2> QED  BY <1>1
<1>3. CASE pc'[c] \in {"idle", "pool", "count", "counted", "give", "walk"}
  BY <1>2, <1>3 DEF Listed, Back, Forth, Counted, Held
<1>4. CASE pc'[c] \in {"enter", "link", "head", "footer", "signs", "freed"}
  BY <1>2, <1>4 DEF Listed, Back, Forth, Counted, Held
<1>5. CASE pc'[c] \in {"unnext", "unprev", "unhead"}
  BY <1>2, <1>5 DEF Listed, Back, Forth, Counted, Held
<1> QED  BY <1>3, <1>4, <1>5

\* The sets of the invariant are sets of blocks.
LEMMA SetsTyped ==
  ASSUME TypeOK, OwnInv
  PROVE  Listed \subseteq Blocks /\ Back \subseteq Blocks /\ Forth \subseteq Blocks
         /\ Counted \subseteq Blocks /\ live \subseteq Listed
  BY DEF TypeOK, OwnInv, Holds, AllocSteps, FreeSteps, Listed, Back, Forth, Counted, Held

\* The order is kept by a step that leaves the blocks of the list alone.
LEMMA OrderFrame ==
  ASSUME TypeOK, OwnInv, OrderInv, Listed' = Listed, Back' = Back, Forth' = Forth,
         list' = list, allocCnt' \in {allocCnt, allocCnt + 1},
         \A b \in Listed \cup Forth : id'[b] = id[b] /\ prev'[b] = prev[b] /\ next'[b] = next[b]
  PROVE  OrderInv'
<1>1. Back \subseteq Listed /\ Listed \subseteq Blocks /\ allocCnt \in Nat /\ \A b \in Blocks : id[b] \in Nat
  BY SetsTyped DEF Back, TypeOK
<1>2. \A b \in Listed : OlderIn(Back, b)' = OlderIn(Back, b) /\ NewerIn(Forth, b)' = NewerIn(Forth, b)
  BY <1>1 DEF OlderIn, NewerIn
<1>3. \A B \in SUBSET (Listed \cup Forth) : \A s : (Newest(B, s) <=> Newest(B, s)') /\ (Oldest(B, s) <=> Oldest(B, s)')
  BY DEF Newest, Oldest
<1>4. \A b \in Listed : OlderIn(Back, b) \subseteq Listed /\ NewerIn(Forth, b) \subseteq Forth
  BY <1>1 DEF OlderIn, NewerIn
<1> QED  BY <1>1, <1>2, <1>3, <1>4 DEF OrderInv

\* CyU3PMemAlloc lets the head of the list know its new neighbour, ...
LEMMA OrderLink ==
  ASSUME TypeOK, OwnInv, OrderInv, Back = Listed, Forth = Listed,
         NEW x \in Blocks \ Listed, \A b \in Listed : id[b] < id[x],
         Listed' = Listed, Back' = Listed, Forth' = Listed \cup {x},
         next' = IF list # NoBlock THEN [next EXCEPT ![list] = x] ELSE next,
         UNCHANGED <<id, prev, list, allocCnt>>
  PROVE  OrderInv'
<1>0. Listed \subseteq Blocks /\ \A b \in Listed : id[b] \in Nat
  BY SetsTyped DEF TypeOK
<1>1. Listed \subseteq Blocks /\ (\A b \in Blocks : id[b] \in Nat) /\ next \in [Blocks -> Blocks \cup {NoBlock}] /\ Blocks \subseteq Nat \ {0}
  BY SetsTyped, MemAssumption DEF TypeOK
<1>2. ASSUME NEW b \in Listed
      PROVE  Newest(OlderIn(Back, b), prev[b])'
  BY <1>2 DEF OrderInv, Newest, OlderIn
<1>3. ASSUME NEW b \in Listed
      PROVE  Oldest(NewerIn(Forth, b), next[b])'
  <2>1. NewerIn(Forth, b)' = NewerIn(Listed, b) \cup {x} /\ Oldest(NewerIn(Listed, b), next[b])
    BY <1>1 DEF NewerIn, OrderInv
  <2>2. Newest(Listed, list)
    BY DEF OrderInv
  <2>3. CASE b = list
    <3>1. NewerIn(Listed, b) = {} /\ next'[b] = x
      BY <1>1, <2>2, <2>3 DEF NewerIn, Newest
    <3> QED  BY <1>1, <2>1, <3>1 DEF Oldest
  <2>4. CASE b # list
    <3>1. list \in Listed /\ id[b] <= id[list] /\ id[b] # id[list]
      BY <2>2, <2>4 DEF Newest, OrderInv
    <3>2. list \in NewerIn(Listed, b) /\ next'[b] = next[b]
      BY <1>1, <2>4, <3>1 DEF NewerIn
    <3>3. next[b] \in Listed /\ \A a \in NewerIn(Listed, b) : id[next[b]] <= id[a]
      BY <2>1, <3>2 DEF Oldest, NewerIn
    <3>4. id[next[b]] <= id[x]
      <4>1. id[next[b]] \in Nat /\ id[x] \in Nat /\ id[next[b]] < id[x]
        BY <1>0, <1>1, <3>3, Zenon
      <4> QED  BY <4>1
    <3>5. next[b] \in NewerIn(Listed, b)
      BY <2>1, <3>2 DEF Oldest
    <3> QED  BY <2>1, <3>2, <3>3, <3>4, <3>5 DEF Oldest
  <2> QED  BY <2>3, <2>4
<1> QED  BY <1>2, <1>3 DEF OrderInv, Newest

\* ... and becomes the head.
LEMMA OrderHead ==
  ASSUME TypeOK, OwnInv, OrderInv, Back = Listed,
         NEW x \in Blocks \ Listed, \A b \in Listed : id[b] < id[x], id[x] < allocCnt,
         prev[x] = list, next[x] = NoBlock, Forth = Listed \cup {x},
         Listed' = Listed \cup {x}, Back' = Listed \cup {x}, Forth' = Listed \cup {x},
         list' = x, UNCHANGED <<id, prev, next, allocCnt>>
  PROVE  OrderInv'
<1>1. Listed \subseteq Blocks /\ (\A b \in Blocks : id[b] \in Nat)
  BY SetsTyped DEF TypeOK
<1>2. ASSUME NEW b \in Listed
      PROVE  (Newest(OlderIn(Back, b), prev[b]) /\ Oldest(NewerIn(Forth, b), next[b]))'
  <2>1. OlderIn(Back, b)' = OlderIn(Back, b) /\ NewerIn(Forth, b)' = NewerIn(Forth, b)
    BY <1>1 DEF OlderIn, NewerIn
  <2> QED  BY <2>1 DEF OrderInv, Newest, Oldest
<1>3. (Newest(OlderIn(Back, x), prev[x]) /\ Oldest(NewerIn(Forth, x), next[x]))'
  <2>1. OlderIn(Back, x)' = Listed /\ NewerIn(Forth, x)' = {}
    BY <1>1 DEF OlderIn, NewerIn
  <2> QED  BY <2>1 DEF OrderInv, Newest, Oldest
<1>4. Newest(Listed, list)'
  BY <1>1 DEF Newest
<1>5. \A a, b \in Listed' : a # b => id'[a] # id'[b]
  BY <1>1 DEF OrderInv
<1> QED  BY <1>1, <1>2, <1>3, <1>4, <1>5 DEF OrderInv

\* CyU3PMemFree takes a block out of the way back, ...
LEMMA OrderUnnext ==
  ASSUME TypeOK, OwnInv, OrderInv, Back = Listed, Forth = Listed, NEW y \in Listed,
         Listed' = Listed, Back' = Listed \ {y}, Forth' = Listed,
         prev' = IF next[y] # NoBlock THEN [prev EXCEPT ![next[y]] = prev[y]] ELSE prev,
         UNCHANGED <<id, next, list, allocCnt>>
  PROVE  OrderInv'
<1>0. Listed \subseteq Blocks /\ \A b \in Listed : id[b] \in Nat
  BY SetsTyped DEF TypeOK
<1>1. Listed \subseteq Blocks /\ (\A b \in Blocks : id[b] \in Nat) /\ prev \in [Blocks -> Blocks \cup {NoBlock}] /\ Blocks \subseteq Nat \ {0}
  BY SetsTyped, MemAssumption DEF TypeOK
<1>2. ASSUME NEW b \in Listed
      PROVE  Newest(OlderIn(Listed, b), prev[b]) /\ Oldest(NewerIn(Listed, b), next[b])
  BY DEF OrderInv
<1>3. \A a, b \in Listed : a # b => id[a] # id[b]
  BY DEF OrderInv
<1>4. ASSUME NEW b \in Listed
      PROVE  Newest(OlderIn(Listed, b) \ {y}, prev'[b])
  <2>1. CASE b = next[y]
    <3>1. b \in NewerIn(Listed, y) /\ \A a \in NewerIn(Listed, y) : id[b] <= id[a]
      BY <1>1, <1>2, <2>1 DEF Oldest
    <3>2. OlderIn(Listed, b) \ {y} = OlderIn(Listed, y)
      <4>1. \A a \in Listed : id[a] < id[b] /\ a # y <=> id[a] < id[y]
        BY <1>1, <1>3, <3>1 DEF NewerIn
      <4> QED  BY <4>1 DEF OlderIn
    <3>3. prev'[b] = prev[y]
      BY <1>1, <2>1
    <3> QED  BY <1>2, <3>2, <3>3
  <2>2. CASE b # next[y]
    <3>1. prev'[b] = prev[b]
      BY <1>1, <2>2
    <3>2. CASE y \notin OlderIn(Listed, b)
      <4>1. OlderIn(Listed, b) \ {y} = OlderIn(Listed, b)
        BY <3>2
      <4> QED  BY <1>2, <3>1, <4>1
    <3>3. CASE y \in OlderIn(Listed, b)
      <4>1. b \in NewerIn(Listed, y)
        BY <3>3 DEF OlderIn, NewerIn
      <4>2. /\ next[y] \in NewerIn(Listed, y)
            /\ \A a \in NewerIn(Listed, y) : id[next[y]] <= id[a]
        BY <1>2, <4>1 DEF Oldest
      <4>3. next[y] \in Listed /\ id[y] < id[next[y]] /\ id[next[y]] < id[b]
        BY <1>0, <1>3, <2>2, <4>1, <4>2 DEF NewerIn
      <4>4. next[y] \in OlderIn(Listed, b)
        BY <4>3 DEF OlderIn
      <4>5. id[next[y]] <= id[prev[b]]
        BY <1>2, <4>4 DEF Newest
      <4>6. prev[b] # y
        BY <1>0, <4>3, <4>5
      <4> QED  BY <1>2, <3>1, <3>3, <4>6 DEF Newest
    <3> QED  BY <3>2, <3>3
  <2> QED  BY <2>1, <2>2
<1>5. ASSUME NEW b \in Listed
      PROVE  Newest(OlderIn(Back, b), prev[b])'
  <2>1. OlderIn(Back, b)' = OlderIn(Listed, b) \ {y}
    BY DEF OlderIn
  <2> QED  BY <1>4, <2>1 DEF Newest
<1>6. ASSUME NEW b \in Listed
      PROVE  Oldest(NewerIn(Forth, b), next[b])'
  BY <1>2 DEF Oldest, NewerIn
<1> QED  BY <1>5, <1>6 DEF OrderInv, Newest

\* ... then out of the way forth, ...
LEMMA OrderUnprev ==
  ASSUME TypeOK, OwnInv, OrderInv, NEW y \in Listed, Back = Listed \ {y}, Forth = Listed,
         Listed' = Listed, Back' = Listed \ {y}, Forth' = Listed \ {y},
         next' = IF prev[y] # NoBlock THEN [next EXCEPT ![prev[y]] = next[y]] ELSE next,
         UNCHANGED <<id, prev, list, allocCnt>>
  PROVE  OrderInv'
<1>0. Listed \subseteq Blocks /\ \A b \in Listed : id[b] \in Nat
  BY SetsTyped DEF TypeOK
<1>1. Listed \subseteq Blocks /\ (\A b \in Blocks : id[b] \in Nat) /\ next \in [Blocks -> Blocks \cup {NoBlock}] /\ Blocks \subseteq Nat \ {0}
  BY SetsTyped, MemAssumption DEF TypeOK
<1>2. ASSUME NEW b \in Listed
      PROVE  Newest(OlderIn(Listed \ {y}, b), prev[b]) /\ Oldest(NewerIn(Listed, b), next[b])
  BY DEF OrderInv
<1>3. \A a, b \in Listed : a # b => id[a] # id[b]
  BY DEF OrderInv
<1>4. OlderIn(Listed \ {y}, y) = OlderIn(Listed, y)
  BY <1>1 DEF OlderIn
<1>5. ASSUME NEW b \in Listed
      PROVE  Oldest(NewerIn(Listed, b) \ {y}, next'[b])
  <2>1. CASE b = prev[y]
    <3>1. b \in OlderIn(Listed, y) /\ \A a \in OlderIn(Listed, y) : id[a] <= id[b]
      BY <1>1, <1>2, <1>4, <2>1 DEF Newest
    <3>2. NewerIn(Listed, b) \ {y} = NewerIn(Listed, y)
      <4>1. \A a \in Listed : id[b] < id[a] /\ a # y <=> id[y] < id[a]
        BY <1>1, <1>3, <3>1 DEF OlderIn
      <4> QED  BY <4>1 DEF NewerIn
    <3>3. next'[b] = next[y]
      BY <1>1, <2>1
    <3> QED  BY <1>2, <3>2, <3>3
  <2>2. CASE b # prev[y]
    <3>1. next'[b] = next[b]
      BY <1>1, <2>2
    <3>2. CASE y \notin NewerIn(Listed, b)
      <4>1. NewerIn(Listed, b) \ {y} = NewerIn(Listed, b)
        BY <3>2
      <4> QED  BY <1>2, <3>1, <4>1
    <3>3. CASE y \in NewerIn(Listed, b)
      <4>1. b \in OlderIn(Listed, y)
        BY <3>3 DEF OlderIn, NewerIn
      <4>2. /\ prev[y] \in OlderIn(Listed, y)
            /\ \A a \in OlderIn(Listed, y) : id[a] <= id[prev[y]]
        BY <1>2, <1>4, <4>1 DEF Newest
      <4>3. prev[y] \in Listed /\ id[prev[y]] < id[y] /\ id[b] < id[prev[y]]
        BY <1>0, <1>3, <2>2, <4>1, <4>2 DEF OlderIn
      <4>4. prev[y] \in NewerIn(Listed, b)
        BY <4>3 DEF NewerIn
      <4>5. id[next[b]] <= id[prev[y]]
        BY <1>2, <4>4 DEF Oldest
      <4>6. next[b] # y
        BY <1>0, <4>3, <4>5
      <4> QED  BY <1>2, <3>1, <3>3, <4>6 DEF Oldest
    <3> QED  BY <3>2, <3>3
  <2> QED  BY <2>1, <2>2
<1>6. ASSUME NEW b \in Listed
      PROVE  Oldest(NewerIn(Forth, b), next[b])'
  <2>1. NewerIn(Forth, b)' = NewerIn(Listed, b) \ {y}
    BY DEF NewerIn
  <2> QED  BY <1>5, <2>1 DEF Oldest
<1>7. ASSUME NEW b \in Listed
      PROVE  Newest(OlderIn(Back, b), prev[b])'
  BY <1>2 DEF Newest, OlderIn
<1> QED  BY <1>6, <1>7 DEF OrderInv, Newest

\* ... and at last from the head.
LEMMA OrderUnhead ==
  ASSUME TypeOK, OwnInv, OrderInv, NEW y \in Listed, Back = Listed \ {y}, Forth = Listed \ {y},
         Listed' = Listed \ {y}, Back' = Listed \ {y}, Forth' = Listed \ {y},
         list' = IF list = y THEN prev[y] ELSE list,
         UNCHANGED <<id, prev, next, allocCnt>>
  PROVE  OrderInv'
<1>1. Listed \subseteq Blocks /\ (\A b \in Blocks : id[b] \in Nat)
  BY SetsTyped DEF TypeOK
<1>2. \A a, b \in Listed : a # b => id[a] # id[b]
  BY DEF OrderInv
<1>3. Newest(Listed, list) /\ Newest(OlderIn(Back, y), prev[y])
  BY DEF OrderInv
<1>4. Newest(Listed \ {y}, list')
  <2>1. CASE list = y
    <3>1. OlderIn(Back, y) = Listed \ {y}
      BY <1>1, <1>2, <1>3, <2>1 DEF Newest, OlderIn
    <3> QED  BY <1>3, <2>1, <3>1
  <2>2. CASE list # y
    BY <1>3, <2>2 DEF Newest
  <2> QED  BY <2>1, <2>2
<1>5. Newest(Listed, list)'
  BY <1>4 DEF Newest
<1>6. ASSUME NEW b \in Listed \ {y}
      PROVE  (Newest(OlderIn(Back, b), prev[b]) /\ Oldest(NewerIn(Forth, b), next[b]))'
  BY DEF OrderInv, Newest, Oldest, OlderIn, NewerIn
<1> QED  BY <1>5, <1>6 DEF OrderInv

-----------------------------------------------------------------------------
(* One step of a call, while no two calls meet.                             *)

Good == OrderInv /\ NewInv /\ CountInv /\ WalkInv

Peace == TypeOK /\ OwnInv /\ ClashInv /\ SignInv /\ Good /\ checks /\ ~clash

\* The counters count a block that is linked and a block that is not.
LEMMA CountStep ==
  ASSUME TypeOK, CountInv
  PROVE  /\ Counted' = Counted /\ allocCnt' = allocCnt /\ freeCnt' = freeCnt => CountInv'
         /\ \A x : x \notin Counted /\ Counted' = Counted \cup {x} /\ allocCnt' = allocCnt + 1 /\ freeCnt' = freeCnt
                   => CountInv'
         /\ \A x : x \in Counted /\ Counted' = Counted \ {x} /\ allocCnt' = allocCnt /\ freeCnt' = freeCnt + 1
                   => CountInv'
<1>1. IsFiniteSet(Counted) /\ allocCnt - freeCnt = Cardinality(Counted) /\ allocCnt \in Nat /\ freeCnt \in Nat
  BY DEF CountInv, TypeOK
<1>2. ASSUME NEW x, x \notin Counted
      PROVE  IsFiniteSet(Counted \cup {x}) /\ Cardinality(Counted \cup {x}) = Cardinality(Counted) + 1
  BY <1>1, <1>2, FS_AddElement
<1>3. ASSUME NEW x, x \in Counted
      PROVE  IsFiniteSet(Counted \ {x}) /\ Cardinality(Counted \ {x}) = Cardinality(Counted) - 1
  BY <1>1, <1>3, FS_RemoveElement
<1>4. Cardinality(Counted) \in Nat
  BY <1>1, FS_CardinalityType
<1> QED  BY <1>1, <1>2, <1>3, <1>4 DEF CountInv

\* The step of a call that is, or comes, into the unprotected part.
LEMMA AloneStep ==
  ASSUME Peace, ClashInv', ~clash', NEW c \in Callers, NEW to,
         pc' = [pc EXCEPT ![c] = to], pc[c] \in Unprotected \/ to \in Unprotected
  PROVE  /\ pc'[c] = to
         /\ \A d \in Callers : d # c => pc[d] \notin Unprotected /\ pc'[d] \notin Unprotected
<1>1. pc'[c] = to /\ \A d \in Callers : d # c => pc'[d] = pc[d]
  BY DEF Peace, TypeOK
<1>2. \A d \in Callers : d # c => pc[d] \notin Unprotected /\ pc'[d] \notin Unprotected
  BY <1>1, StepAlone DEF Peace
<1> QED  BY <1>1, <1>2

\* The other calls being out of the way, what is to be shown is about c.
LEMMA AloneGood ==
  ASSUME NEW c \in Callers, \A d \in Callers : d # c => pc'[d] \notin Unprotected,
         OrderInv', CountInv',
         /\ pc'[c] = "counted" => val'[c] = allocCnt'
         /\ pc'[c] = "freed" => val'[c] = freeCnt'
         /\ pc'[c] \in {"enter", "link", "head"} =>
              id'[blk'[c]] < allocCnt' /\ \A b \in Listed' : id'[b] < id'[blk'[c]]
         /\ pc'[c] \in {"link", "head"} => prev'[blk'[c]] = list' /\ next'[blk'[c]] = NoBlock
         /\ pc'[c] = "walk" =>
              /\ blk'[c] \in live' \cup {NoBlock}
              /\ \A b \in over' : blk'[c] # NoBlock /\ id'[b] <= id'[blk'[c]]
  PROVE  Good'
<1>1. NewInv'
  BY DEF NewInv
<1>2. WalkInv'
  BY DEF WalkInv
<1> QED  BY <1>1, <1>2 DEF Good

\* A call outside the unprotected part, or in it and on its way, does not
\* disturb the list if it leaves its blocks alone.
LEMMA OutsideGood ==
  ASSUME Peace, NEW c \in Callers, pc[c] \notin Unprotected, pc'[c] \notin Unprotected,
         \A d \in Callers : d # c => pc'[d] = pc[d] /\ blk'[d] = blk[d] /\ val'[d] = val[d],
         UNCHANGED <<live, over, list, allocCnt, freeCnt>>,
         \A b \in Blocks : \/ pc[c] = "give" /\ b = blk[c]
                           \/ id'[b] = id[b] /\ prev'[b] = prev[b] /\ next'[b] = next[b]
  PROVE  Good'
<1>1. /\ Held(pc', blk', {"footer", "signs", "freed", "unnext", "unprev", "unhead"})
         = Held(pc, blk, {"footer", "signs", "freed", "unnext", "unprev", "unhead"})
      /\ Held(pc', blk', {"unprev", "unhead"}) = Held(pc, blk, {"unprev", "unhead"})
      /\ Held(pc', blk', {"unhead"}) = Held(pc, blk, {"unhead"})
      /\ Held(pc', blk', {"head"}) = Held(pc, blk, {"head"})
      /\ Held(pc', blk', {"enter", "link", "head", "footer", "signs", "freed"})
         = Held(pc, blk, {"enter", "link", "head", "footer", "signs", "freed"})
  <2>1. \A d \in Callers : pc[d] \in Unprotected \/ pc'[d] \in Unprotected => pc'[d] = pc[d] /\ blk'[d] = blk[d]
    OBVIOUS
  <2>2. \A steps \in SUBSET Unprotected : Held(pc', blk', steps) = Held(pc, blk, steps)
    <3> TAKE steps \in SUBSET Unprotected
    <3>1. \A d \in Callers : pc[d] \in steps \/ pc'[d] \in steps => pc'[d] = pc[d] /\ blk'[d] = blk[d]
      BY <2>1
    <3> QED  BY <3>1, HeldSame
  <2> QED  BY <2>2
<1>2. Listed' = Listed /\ Back' = Back /\ Forth' = Forth /\ Counted' = Counted
  BY <1>1 DEF Listed, Back, Forth, Counted, Held
<1>3. \A b \in live : id'[b] = id[b] /\ prev'[b] = prev[b] /\ next'[b] = next[b]
  BY DEF Peace, TypeOK, OwnInv, Holds, FreeSteps
<1>4. ASSUME NEW d \in Callers, Holds(d), d # c
      PROVE  /\ blk[d] \in Blocks /\ id'[blk[d]] = id[blk[d]]
             /\ prev'[blk[d]] = prev[blk[d]] /\ next'[blk[d]] = next[blk[d]]
  BY <1>4 DEF Peace, OwnInv, Holds, FreeSteps
<1>5. \A b \in Listed \cup Forth : id'[b] = id[b] /\ prev'[b] = prev[b] /\ next'[b] = next[b]
  BY <1>3, <1>4 DEF Listed, Forth, Held, Holds, AllocSteps, FreeSteps
<1>6. OrderInv'
  BY <1>2, <1>5, OrderFrame DEF Peace, Good
<1>7. NewInv'
  BY <1>2, <1>4, <1>5 DEF Peace, Good, NewInv, Holds, AllocSteps
<1>8. CountInv'
  BY <1>2, CountStep DEF Peace, Good
<1>9. WalkInv'
  BY <1>3 DEF Peace, Good, WalkInv, TypeOK
<1> QED  BY <1>6, <1>7, <1>8, <1>9 DEF Good

\* Each step of CyU3PMemAlloc, ...
LEMMA AllocGood ==
  ASSUME Peace, ClashInv', ~clash', NEW c \in Callers, Alloc(c)
  PROVE  Good'
<1> USE DEF At, Goto, Count, Put
<1>1. CASE AllocCall(c)
  <2>1. pc[c] = "idle" /\ pc' = [pc EXCEPT ![c] = "pool"] /\ blk' = blk /\ val' = val
    BY <1>1 DEF AllocCall, Move
  <2>2. UNCHANGED <<live, over, list, allocCnt, freeCnt, id, prev, next>>
    BY <1>1 DEF AllocCall, Move, links, counts
  <2> QED  BY <2>1, <2>2, OutsideGood DEF Peace, TypeOK
<1>2. CASE PoolFails(c)
  <2>1. pc[c] = "pool" /\ pc' = [pc EXCEPT ![c] = "idle"] /\ blk' = blk /\ val' = val
    BY <1>2 DEF PoolFails, Move
  <2>2. UNCHANGED <<live, over, list, allocCnt, freeCnt, id, prev, next>>
    BY <1>2 DEF PoolFails, Move, links, counts
  <2> QED  BY <2>1, <2>2, OutsideGood DEF Peace, TypeOK
<1>3. CASE PoolGives(c)
  <2>1. pc[c] = "pool" /\ pc' = [pc EXCEPT ![c] = "count"]
    BY <1>3 DEF PoolGives, Peace
  <2>2. UNCHANGED <<live, over, list, allocCnt, freeCnt, id, prev, next>>
    BY <1>3 DEF PoolGives, links, counts, Peace
  <2>3. pc'[c] = "count" /\ \A d \in Callers : d # c => pc[d] \notin Unprotected /\ pc'[d] \notin Unprotected
    BY <2>1, AloneStep
  <2>4. Listed = live /\ Back = live /\ Forth = live /\ Counted = live
    BY <2>1, <2>3, AloneSets
  <2>5. Listed' = live' /\ Back' = live' /\ Forth' = live' /\ Counted' = live'
    BY <2>1, <2>2, <2>3, AloneSetsNext
  <2>6. OrderInv' /\ CountInv'
    BY <2>2, <2>4, <2>5, OrderFrame, CountStep DEF Peace, Good
  <2> QED  BY <2>3, <2>6, AloneGood
<1>4. CASE AllocCount(c)
  <2>1. pc[c] = "count" /\ pc' = [pc EXCEPT ![c] = "counted"] /\ val' = [val EXCEPT ![c] = allocCnt]
    BY <1>4 DEF AllocCount, Move
  <2>2. UNCHANGED <<live, over, list, allocCnt, freeCnt, id, prev, next, blk>>
    BY <1>4 DEF AllocCount, Move, links, counts
  <2>3. pc'[c] = "counted" /\ \A d \in Callers : d # c => pc[d] \notin Unprotected /\ pc'[d] \notin Unprotected
    BY <2>1, AloneStep
  <2>4. Listed = live /\ Back = live /\ Forth = live /\ Counted = live
    BY <2>1, <2>3, AloneSets
  <2>5. Listed' = live' /\ Back' = live' /\ Forth' = live' /\ Counted' = live'
    BY <2>1, <2>2, <2>3, AloneSetsNext
  <2>6. OrderInv' /\ CountInv'
    BY <2>2, <2>4, <2>5, OrderFrame, CountStep DEF Peace, Good
  <2>7. val'[c] = allocCnt'
    BY <2>1, <2>2 DEF Peace, TypeOK
  <2> QED  BY <2>3, <2>6, <2>7, AloneGood
<1>5. CASE AllocCounted(c)
  <2>1. pc[c] = "counted" /\ pc' = [pc EXCEPT ![c] = "enter"]
    BY <1>5 DEF AllocCounted, Move
  <2>2. UNCHANGED <<live, over, list, freeCnt, prev, next, blk>>
    BY <1>5 DEF AllocCounted, Move, links
  <2>3. pc'[c] = "enter" /\ \A d \in Callers : d # c => pc[d] \notin Unprotected /\ pc'[d] \notin Unprotected
    BY <2>1, AloneStep
  <2>4. Listed = live /\ Back = live /\ Forth = live /\ Counted = live
    BY <2>1, <2>3, AloneSets
  <2>5. Listed' = live' /\ Back' = live' /\ Forth' = live' /\ Counted' = live' \cup {blk[c]}
    BY <2>1, <2>2, <2>3, AloneSetsNext
  <2>6. blk[c] \in Blocks \ live /\ val[c] = allocCnt
    BY <2>1 DEF Peace, OwnInv, Holds, AllocSteps, Good, NewInv
  <2>7. allocCnt' = allocCnt + 1 /\ id' = [id EXCEPT ![blk[c]] = allocCnt]
    BY <1>5, <2>6 DEF AllocCounted
  <2>8. id'[blk[c]] = allocCnt /\ \A b \in live : id'[b] = id[b] /\ id[b] < allocCnt
    BY <2>4, <2>6, <2>7 DEF Peace, Good, OrderInv, TypeOK
  <2>9. OrderInv' /\ CountInv'
    BY <2>2, <2>4, <2>5, <2>6, <2>7, <2>8, OrderFrame, CountStep DEF Peace, Good
  <2>10. id'[blk'[c]] < allocCnt' /\ \A b \in Listed' : id'[b] < id'[blk'[c]]
    BY <2>2, <2>5, <2>7, <2>8 DEF Peace, TypeOK
  <2> QED  BY <2>3, <2>9, <2>10, AloneGood
<1>6. CASE AllocEnter(c)
  <2>1. /\ pc[c] = "enter" /\ pc' = [pc EXCEPT ![c] = "link"]
        /\ prev' = [prev EXCEPT ![blk[c]] = list] /\ next' = [next EXCEPT ![blk[c]] = NoBlock]
    BY <1>6 DEF AllocEnter, Move
  <2>2. UNCHANGED <<live, over, list, allocCnt, freeCnt, id, blk>>
    BY <1>6 DEF AllocEnter, Move, counts
  <2>3. pc'[c] = "link" /\ \A d \in Callers : d # c => pc[d] \notin Unprotected /\ pc'[d] \notin Unprotected
    BY <2>1, AloneStep
  <2>4. Listed = live /\ Back = live /\ Forth = live /\ Counted = live \cup {blk[c]}
    BY <2>1, <2>3, AloneSets
  <2>5. Listed' = live' /\ Back' = live' /\ Forth' = live' /\ Counted' = live' \cup {blk[c]}
    BY <2>1, <2>2, <2>3, AloneSetsNext
  <2>6. blk[c] \in Blocks \ live
    BY <2>1 DEF Peace, OwnInv, Holds, AllocSteps
  <2>7. \A b \in live : prev'[b] = prev[b] /\ next'[b] = next[b]
    BY <2>1, <2>6 DEF Peace, TypeOK
  <2>8. OrderInv' /\ CountInv'
    BY <2>2, <2>4, <2>5, <2>7, OrderFrame, CountStep DEF Peace, Good
  <2>9. prev'[blk'[c]] = list' /\ next'[blk'[c]] = NoBlock
    BY <2>1, <2>2, <2>6 DEF Peace, TypeOK
  <2>10. id'[blk'[c]] < allocCnt' /\ \A b \in Listed' : id'[b] < id'[blk'[c]]
    BY <2>1, <2>2, <2>4, <2>5 DEF Peace, Good, NewInv
  <2> QED  BY <2>3, <2>8, <2>9, <2>10, AloneGood
<1>7. CASE AllocLink(c)
  <2>0. PICK x \in Blocks \ live : x = blk[c]
    BY <1>7 DEF AllocLink, Move, Peace, OwnInv, Holds, AllocSteps
  <2>1. /\ pc[c] = "link" /\ pc' = [pc EXCEPT ![c] = "head"]
        /\ next' = IF list # NoBlock THEN [next EXCEPT ![list] = x] ELSE next
    BY <1>7, <2>0 DEF AllocLink, Move
  <2>2. UNCHANGED <<live, over, list, allocCnt, freeCnt, id, prev, blk>>
    BY <1>7 DEF AllocLink, Move, counts
  <2>3. pc'[c] = "head" /\ \A d \in Callers : d # c => pc[d] \notin Unprotected /\ pc'[d] \notin Unprotected
    BY <2>1, AloneStep
  <2>4. Listed = live /\ Back = live /\ Forth = live /\ Counted = live \cup {x}
    BY <2>1, <2>3, AloneSets, <2>0
  <2>5. Listed' = live' /\ Back' = live' /\ Forth' = live' \cup {x} /\ Counted' = live' \cup {x}
    BY <2>1, <2>2, <2>3, AloneSetsNext, <2>0
  <2>6. id[x] < allocCnt /\ (\A b \in Listed : id[b] < id[x]) /\ prev[x] = list /\ next[x] = NoBlock
    BY <2>0, <2>1 DEF Peace, Good, NewInv
  <2>7. OrderInv' /\ CountInv'
    BY <2>1, <2>2, <2>4, <2>5, <2>6, OrderLink, CountStep DEF Peace, Good
  <2>8. list # x
    BY <2>0, <2>4, MemAssumption DEF Peace, Good, OrderInv, Newest
  <2>9. next'[x] = NoBlock
    BY <2>0, <2>1, <2>6, <2>8 DEF Peace, TypeOK
  <2> QED  BY <2>0, <2>2, <2>3, <2>4, <2>5, <2>6, <2>7, <2>9, AloneGood
<1>8. CASE AllocHead(c)
  <2>0. PICK x \in Blocks \ live : x = blk[c]
    BY <1>8 DEF AllocHead, Move, Peace, OwnInv, Holds, AllocSteps
  <2>1. pc[c] = "head" /\ pc' = [pc EXCEPT ![c] = "footer"] /\ list' = x
    BY <1>8, <2>0 DEF AllocHead, Move
  <2>2. UNCHANGED <<live, over, allocCnt, freeCnt, id, prev, next, blk>>
    BY <1>8 DEF AllocHead, Move, counts
  <2>3. pc'[c] = "footer" /\ \A d \in Callers : d # c => pc[d] \notin Unprotected /\ pc'[d] \notin Unprotected
    BY <2>1, AloneStep
  <2>4. Listed = live /\ Back = live /\ Forth = live \cup {x} /\ Counted = live \cup {x}
    BY <2>1, <2>3, AloneSets, <2>0
  <2>5. /\ Listed' = live' \cup {x} /\ Back' = live' \cup {x}
        /\ Forth' = live' \cup {x} /\ Counted' = live' \cup {x}
    BY <2>1, <2>2, <2>3, AloneSetsNext, <2>0
  <2>6. id[x] < allocCnt /\ (\A b \in Listed : id[b] < id[x]) /\ prev[x] = list /\ next[x] = NoBlock
    BY <2>0, <2>1 DEF Peace, Good, NewInv
  <2>7. OrderInv' /\ CountInv'
    BY <2>1, <2>2, <2>4, <2>5, <2>6, OrderHead, CountStep DEF Peace, Good
  <2> QED  BY <2>3, <2>7, AloneGood
<1>9. CASE AllocFooter(c)
  <2>1. pc[c] = "footer" /\ pc' = [pc EXCEPT ![c] = "idle"] /\ live' = live \cup {blk[c]}
    BY <1>9 DEF AllocFooter, HandOut, Return
  <2>2. UNCHANGED <<over, list, allocCnt, freeCnt, id, prev, next>>
    BY <1>9 DEF AllocFooter, HandOut, links, counts
  <2>3. pc'[c] = "idle" /\ \A d \in Callers : d # c => pc[d] \notin Unprotected /\ pc'[d] \notin Unprotected
    BY <2>1, AloneStep
  <2>4. /\ Listed = live \cup {blk[c]} /\ Back = live \cup {blk[c]}
        /\ Forth = live \cup {blk[c]} /\ Counted = live \cup {blk[c]}
    BY <2>1, <2>3, AloneSets
  <2>5. Listed' = live' /\ Back' = live' /\ Forth' = live' /\ Counted' = live'
    BY <2>1, <2>2, <2>3, AloneSetsNext
  <2>6. OrderInv' /\ CountInv'
    BY <2>1, <2>2, <2>4, <2>5, OrderFrame, CountStep DEF Peace, Good
  <2> QED  BY <2>3, <2>6, AloneGood
<1> QED  BY <1>1, <1>2, <1>3, <1>4, <1>5, <1>6, <1>7, <1>8, <1>9 DEF Alloc

\* ... of CyU3PMemFree ...
LEMMA FreeGood ==
  ASSUME Peace, ClashInv', ~clash', NEW c \in Callers, Free(c)
  PROVE  Good'
<1> USE DEF At, Goto, Count, Put
<1>1. CASE FreeCall(c)
  <2>0. PICK y \in live : live' = live \ {y} /\ blk' = [blk EXCEPT ![c] = y]
    BY <1>1 DEF FreeCall
  <2>1. pc[c] = "idle" /\ pc' = [pc EXCEPT ![c] = "signs"] /\ blk'[c] = y
    BY <1>1, <2>0 DEF FreeCall, Peace, TypeOK
  <2>2. UNCHANGED <<list, allocCnt, freeCnt, id, prev, next>>
    BY <1>1 DEF FreeCall, links, counts
  <2>3. pc'[c] = "signs" /\ \A d \in Callers : d # c => pc[d] \notin Unprotected /\ pc'[d] \notin Unprotected
    BY <2>1, AloneStep
  <2>4. Listed = live /\ Back = live /\ Forth = live /\ Counted = live
    BY <2>1, <2>3, AloneSets
  <2>5. /\ Listed' = live' \cup {y} /\ Back' = live' \cup {y}
        /\ Forth' = live' \cup {y} /\ Counted' = live' \cup {y}
    BY <2>1, <2>2, <2>3, AloneSetsNext
  <2>6. OrderInv' /\ CountInv'
    BY <2>0, <2>2, <2>4, <2>5, OrderFrame, CountStep DEF Peace, Good
  <2> QED  BY <2>3, <2>6, AloneGood
<1>2. CASE FreeSigns(c)
  <2>1. pc[c] = "signs" /\ pc' = [pc EXCEPT ![c] = "freed"] /\ val' = [val EXCEPT ![c] = freeCnt]
    BY <1>2 DEF FreeSigns, Move
  <2>2. UNCHANGED <<live, over, list, allocCnt, freeCnt, id, prev, next, blk>>
    BY <1>2 DEF FreeSigns, Move, links, counts
  <2>3. pc'[c] = "freed" /\ \A d \in Callers : d # c => pc[d] \notin Unprotected /\ pc'[d] \notin Unprotected
    BY <2>1, AloneStep
  <2>4. /\ Listed = live \cup {blk[c]} /\ Back = live \cup {blk[c]}
        /\ Forth = live \cup {blk[c]} /\ Counted = live \cup {blk[c]}
    BY <2>1, <2>3, AloneSets
  <2>5. /\ Listed' = live' \cup {blk[c]} /\ Back' = live' \cup {blk[c]}
        /\ Forth' = live' \cup {blk[c]} /\ Counted' = live' \cup {blk[c]}
    BY <2>1, <2>2, <2>3, AloneSetsNext
  <2>6. OrderInv' /\ CountInv'
    BY <2>2, <2>4, <2>5, OrderFrame, CountStep DEF Peace, Good
  <2>7. val'[c] = freeCnt'
    BY <2>1, <2>2 DEF Peace, TypeOK
  <2> QED  BY <2>3, <2>6, <2>7, AloneGood
<1>3. CASE FreeCounted(c)
  <2>1. pc[c] = "freed" /\ pc' = [pc EXCEPT ![c] = "unnext"] /\ freeCnt' = val[c] + 1
    BY <1>3 DEF FreeCounted, Move
  <2>2. UNCHANGED <<live, over, list, allocCnt, id, prev, next, blk>>
    BY <1>3 DEF FreeCounted, Move, links
  <2>3. pc'[c] = "unnext" /\ \A d \in Callers : d # c => pc[d] \notin Unprotected /\ pc'[d] \notin Unprotected
    BY <2>1, AloneStep
  <2>4. /\ Listed = live \cup {blk[c]} /\ Back = live \cup {blk[c]}
        /\ Forth = live \cup {blk[c]} /\ Counted = live \cup {blk[c]}
    BY <2>1, <2>3, AloneSets
  <2>5. /\ Listed' = live' \cup {blk[c]} /\ Back' = live' \cup {blk[c]}
        /\ Forth' = live' \cup {blk[c]} /\ Counted' = live'
    BY <2>1, <2>2, <2>3, AloneSetsNext
  <2>6. val[c] = freeCnt /\ blk[c] \notin live
    BY <2>1 DEF Peace, Good, NewInv, OwnInv, Holds, FreeSteps
  <2>7. Counted' = Counted \ {blk[c]}
    BY <2>2, <2>4, <2>5, <2>6
  <2>8. OrderInv' /\ CountInv'
    BY <2>1, <2>2, <2>4, <2>5, <2>6, <2>7, OrderFrame, CountStep DEF Peace, Good
  <2> QED  BY <2>3, <2>8, AloneGood
<1>4. CASE UnlinkNext(c)
  <2>0. PICK y \in Blocks : y = blk[c]
    BY <1>4 DEF UnlinkNext, Move, Peace, OwnInv, Holds, FreeSteps
  <2>1. /\ pc[c] = "unnext" /\ pc' = [pc EXCEPT ![c] = "unprev"]
        /\ prev' = IF next[y] # NoBlock THEN [prev EXCEPT ![next[y]] = prev[y]] ELSE prev
    BY <1>4, <2>0 DEF UnlinkNext, Move
  <2>2. UNCHANGED <<live, over, list, allocCnt, freeCnt, id, next, blk>>
    BY <1>4 DEF UnlinkNext, Move, counts
  <2>3. pc'[c] = "unprev" /\ \A d \in Callers : d # c => pc[d] \notin Unprotected /\ pc'[d] \notin Unprotected
    BY <2>1, AloneStep
  <2>4. Listed = live \cup {y} /\ Back = live \cup {y} /\ Forth = live \cup {y} /\ Counted = live
    BY <2>1, <2>3, AloneSets, <2>0
  <2>5. Listed' = live' \cup {y} /\ Back' = Listed' \ {y} /\ Forth' = Listed' /\ Counted' = live'
    BY <2>1, <2>2, <2>3, AloneSetsNext, <2>0
  <2>6. OrderInv' /\ CountInv'
    BY <2>1, <2>2, <2>4, <2>5, OrderUnnext, CountStep DEF Peace, Good
  <2> QED  BY <2>3, <2>6, AloneGood
<1>5. CASE UnlinkPrev(c)
  <2>0. PICK y \in Blocks : y = blk[c]
    BY <1>5 DEF UnlinkPrev, Move, Peace, OwnInv, Holds, FreeSteps
  <2>1. /\ pc[c] = "unprev" /\ pc' = [pc EXCEPT ![c] = "unhead"]
        /\ next' = IF prev[y] # NoBlock THEN [next EXCEPT ![prev[y]] = next[y]] ELSE next
    BY <1>5, <2>0 DEF UnlinkPrev, Move
  <2>2. UNCHANGED <<live, over, list, allocCnt, freeCnt, id, prev, blk>>
    BY <1>5 DEF UnlinkPrev, Move, counts
  <2>3. pc'[c] = "unhead" /\ \A d \in Callers : d # c => pc[d] \notin Unprotected /\ pc'[d] \notin Unprotected
    BY <2>1, AloneStep
  <2>4. Listed = live \cup {y} /\ Back = Listed \ {y} /\ Forth = Listed /\ Counted = live
    BY <2>1, <2>3, AloneSets, <2>0
  <2>5. Listed' = live' \cup {y} /\ Back' = Listed' \ {y} /\ Forth' = Listed' \ {y} /\ Counted' = live'
    BY <2>1, <2>2, <2>3, AloneSetsNext, <2>0
  <2>6. OrderInv' /\ CountInv'
    BY <2>1, <2>2, <2>4, <2>5, OrderUnprev, CountStep DEF Peace, Good
  <2> QED  BY <2>3, <2>6, AloneGood
<1>6. CASE UnlinkHead(c)
  <2>0. PICK y \in Blocks \ live : y = blk[c]
    BY <1>6 DEF UnlinkHead, Unhead, Move, Peace, OwnInv, Holds, FreeSteps
  <2>1. /\ pc[c] = "unhead" /\ pc' = [pc EXCEPT ![c] = "give"]
        /\ list' = IF list = y THEN prev[y] ELSE list
    BY <1>6, <2>0 DEF UnlinkHead, Unhead, Move
  <2>2. UNCHANGED <<live, over, allocCnt, freeCnt, id, prev, next, blk>>
    BY <1>6 DEF UnlinkHead, Unhead, Move, counts
  <2>3. pc'[c] = "give" /\ \A d \in Callers : d # c => pc[d] \notin Unprotected /\ pc'[d] \notin Unprotected
    BY <2>1, AloneStep
  <2>4. Listed = live \cup {y} /\ Back = Listed \ {y} /\ Forth = Listed \ {y} /\ Counted = live
    BY <2>1, <2>3, AloneSets, <2>0
  <2>5. Listed' = live' /\ Back' = live' /\ Forth' = live' /\ Counted' = live'
    BY <2>1, <2>2, <2>3, AloneSetsNext, <2>0
  <2>6. Listed \ {y} = live
    BY <2>4
  <2>7. OrderInv' /\ CountInv'
    BY <2>1, <2>2, <2>4, <2>5, <2>6, OrderUnhead, CountStep DEF Peace, Good
  <2> QED  BY <2>3, <2>7, AloneGood
<1>7. CASE PoolTakes(c)
  <2>1. /\ pc[c] = "give" /\ pc' = [pc EXCEPT ![c] = "idle"]
        /\ blk' = [blk EXCEPT ![c] = NoBlock] /\ val' = [val EXCEPT ![c] = 0]
    BY <1>7 DEF PoolTakes, Return
  <2>2. UNCHANGED <<live, over, list, allocCnt, freeCnt>>
    BY <1>7 DEF PoolTakes
  <2>3. \A b \in Blocks \ {blk[c]} : id'[b] = id[b] /\ prev'[b] = prev[b] /\ next'[b] = next[b]
    BY <1>7 DEF PoolTakes, Peace, TypeOK
  <2> QED  BY <2>1, <2>2, <2>3, OutsideGood DEF Peace, TypeOK
<1> QED  BY <1>1, <1>2, <1>3, <1>4, <1>5, <1>6, <1>7 DEF Free

\* ... and of CyU3PMemCorruptionCheck.
LEMMA CheckGood ==
  ASSUME Peace, ClashInv', ~clash', NEW c \in Callers, CheckCall(c) \/ CheckStep(c)
  PROVE  Good'
<1> USE DEF At, Goto, Put
<1>1. CASE CheckCall(c)
  <2>1. pc[c] = "idle" /\ pc' = [pc EXCEPT ![c] = "walk"] /\ blk'[c] = list
    BY <1>1 DEF CheckCall, Peace, TypeOK
  <2>2. UNCHANGED <<live, over, list, allocCnt, freeCnt, id, prev, next>>
    BY <1>1 DEF CheckCall, links, counts
  <2>3. pc'[c] = "walk" /\ \A d \in Callers : d # c => pc[d] \notin Unprotected /\ pc'[d] \notin Unprotected
    BY <2>1, AloneStep
  <2>4. Listed = live /\ Back = live /\ Forth = live /\ Counted = live
    BY <2>1, <2>3, AloneSets
  <2>5. Listed' = live' /\ Back' = live' /\ Forth' = live' /\ Counted' = live'
    BY <2>1, <2>2, <2>3, AloneSetsNext
  <2>6. OrderInv' /\ CountInv'
    BY <2>2, <2>4, <2>5, OrderFrame, CountStep DEF Peace, Good
  <2>7. Newest(live, list) /\ over \subseteq live
    BY <2>4 DEF Peace, Good, OrderInv, TypeOK
  <2>8. blk'[c] \in live' \cup {NoBlock} /\ \A b \in over' : blk'[c] # NoBlock /\ id'[b] <= id'[blk'[c]]
    BY <2>1, <2>2, <2>7, MemAssumption DEF Newest, Peace, TypeOK
  <2> QED  BY <2>3, <2>6, <2>8, AloneGood
<1>2. CASE CheckStep(c) /\ pc'[c] = "walk"
  <2>1. pc[c] = "walk" /\ pc' = [pc EXCEPT ![c] = "walk"]
    BY <1>2 DEF CheckStep, Look, Return, Peace, TypeOK
  <2>2. UNCHANGED <<live, over, list, allocCnt, freeCnt, id, prev, next>>
    BY <1>2 DEF CheckStep, Look, links, counts
  <2>3. pc'[c] = "walk" /\ \A d \in Callers : d # c => pc[d] \notin Unprotected /\ pc'[d] \notin Unprotected
    BY <2>1, AloneStep
  <2>4. Listed = live /\ Back = live /\ Forth = live /\ Counted = live
    BY <2>1, <2>3, AloneSets
  <2>5. Listed' = live' /\ Back' = live' /\ Forth' = live' /\ Counted' = live'
    BY <2>1, <2>2, <2>3, AloneSetsNext
  <2>6. OrderInv' /\ CountInv'
    BY <2>2, <2>4, <2>5, OrderFrame, CountStep DEF Peace, Good
  <2>7. blk[c] # NoBlock /\ startSig[blk[c]] /\ endSig[blk[c]] /\ blk'[c] = prev[blk[c]]
    BY <1>2, <2>1 DEF CheckStep, Look, Return, Peace, TypeOK
  <2>8. PICK b \in live : b = blk[c]
    BY <2>1, <2>7 DEF Peace, Good, WalkInv
  <2>9. b \notin over /\ \A o \in over : o \in live /\ id[o] < id[b]
    BY <2>1, <2>4, <2>7, <2>8 DEF Peace, SignInv, Good, WalkInv, OrderInv, TypeOK
  <2>10. Newest(OlderIn(live, b), prev[b])
    BY <2>4, <2>8 DEF Peace, Good, OrderInv
  <2>11. blk'[c] \in live' \cup {NoBlock} /\ \A o \in over' : blk'[c] # NoBlock /\ id'[o] <= id'[blk'[c]]
    BY <2>2, <2>7, <2>8, <2>9, <2>10, MemAssumption DEF Newest, OlderIn, Peace, TypeOK
  <2> QED  BY <2>3, <2>6, <2>11, AloneGood
<1>3. CASE CheckStep(c) /\ pc'[c] # "walk"
  <2>1. pc[c] = "walk" /\ pc' = [pc EXCEPT ![c] = "idle"]
    BY <1>3 DEF CheckStep, Look, Return, Peace, TypeOK
  <2>2. UNCHANGED <<live, over, list, allocCnt, freeCnt, id, prev, next>>
    BY <1>3 DEF CheckStep, Look, links, counts
  <2>3. pc'[c] = "idle" /\ \A d \in Callers : d # c => pc[d] \notin Unprotected /\ pc'[d] \notin Unprotected
    BY <2>1, AloneStep
  <2>4. Listed = live /\ Back = live /\ Forth = live /\ Counted = live
    BY <2>1, <2>3, AloneSets
  <2>5. Listed' = live' /\ Back' = live' /\ Forth' = live' /\ Counted' = live'
    BY <2>1, <2>2, <2>3, AloneSetsNext
  <2>6. OrderInv' /\ CountInv'
    BY <2>2, <2>4, <2>5, OrderFrame, CountStep DEF Peace, Good
  <2> QED  BY <2>3, <2>6, AloneGood
<1> QED  BY <1>1, <1>2, <1>3

-----------------------------------------------------------------------------
(* The invariant is inductive.                                              *)

\* Before CyU3PMemInit there is nothing in the list and nobody in a call.
LEMMA GoodAtRest ==
  ASSUME \A c \in Callers : pc[c] = "idle", live = {}, over = {}, list = NoBlock, allocCnt = 0, freeCnt = 0
  PROVE  Good
<1>1. Listed = {} /\ Counted = {}
  BY DEF Listed, Counted, Held
<1>2. CountInv
  BY <1>1, FS_EmptySet DEF CountInv
<1>3. OrderInv
  BY <1>1 DEF OrderInv, Newest
<1>4. NewInv /\ WalkInv
  BY DEF NewInv, WalkInv
<1> QED  BY <1>2, <1>3, <1>4 DEF Good

\* What Good says is kept when nothing it speaks of changes.
LEMMA GoodStays ==
  ASSUME Good, UNCHANGED <<pc, blk, val, live, list, id, prev, next, allocCnt, freeCnt>>,
         over' = over \/ \A c \in Callers : pc[c] # "walk"
  PROVE  Good'
<1>1. Listed' = Listed /\ Back' = Back /\ Forth' = Forth /\ Counted' = Counted
  BY DEF Listed, Back, Forth, Counted, Held
<1>2. OrderInv'
  BY <1>1 DEF Good, OrderInv, Newest, Oldest, OlderIn, NewerIn
<1>3. NewInv'
  BY <1>1 DEF Good, NewInv
<1>4. CountInv'
  BY <1>1 DEF Good, CountInv
<1>5. WalkInv'
  BY DEF Good, WalkInv
<1> QED  BY <1>2, <1>3, <1>4, <1>5 DEF Good

\* One case per kind of step.
LEMMA HeapStep ==
  ASSUME IInv, ClashInv', clash => clash', TypeOK', [Life]_vars
  PROVE  HeapInv'
<1> SUFFICES ASSUME checks', ~clash'  PROVE Good'
  BY DEF HeapInv, Good
<1>1. CASE Setup
  <2>1. UNCHANGED <<pc, blk, val, live, over, list, id, prev, next, allocCnt, freeCnt>> /\ ~init
    BY <1>1 DEF Setup, MemEnableChecks, MemInit, links, counts
  <2>2. Good
    <3>1. /\ \A c \in Callers : pc[c] = "idle"
          /\ live = {} /\ over = {} /\ list = NoBlock /\ allocCnt = 0 /\ freeCnt = 0
      BY <2>1 DEF IInv, RestInv, TypeOK
    <3> QED  BY <3>1, GoodAtRest
  <2> QED  BY <2>1, <2>2, GoodStays
<1>2. CASE ~Setup
  <2>1. checks
    <3>1. CASE UNCHANGED vars
      BY <3>1 DEF vars, setup
    <3>2. CASE Overrun
      BY <3>2 DEF Overrun, setup
    <3>3. ASSUME NEW c \in Callers, Alloc(c)  PROVE checks
      BY <3>3 DEF Alloc, AllocCall, PoolFails, PoolGives, AllocCount, AllocCounted, AllocEnter,
                  AllocLink, AllocHead, AllocFooter, HandOut, Move, setup
    <3>4. ASSUME NEW c \in Callers, Free(c)  PROVE checks
      BY <3>4 DEF Free, FreeCall, FreeSigns, FreeCounted, UnlinkNext, UnlinkPrev, UnlinkHead,
                  Unhead, PoolTakes, Move, setup
    <3>5. ASSUME NEW c \in Callers, CheckCall(c) \/ CheckStep(c)  PROVE checks
      BY <3>5 DEF CheckCall, CheckStep, Look, setup
    <3> QED  BY <1>2, <3>1, <3>2, <3>3, <3>4, <3>5 DEF Life
  <2>2. Peace
    BY <2>1 DEF IInv, HeapInv, Peace, Good
  <2>3. CASE UNCHANGED vars
    <3>1. UNCHANGED <<pc, blk, val, live, over, list, id, prev, next, allocCnt, freeCnt>>
      BY <2>3 DEF vars, links, counts
    <3> QED  BY <2>2, <3>1, GoodStays DEF Peace
  <2>4. CASE Overrun
    <3>1. UNCHANGED <<pc, blk, val, live, list, id, prev, next, allocCnt, freeCnt>>
      BY <2>4 DEF Overrun, links, counts
    <3>2. \A c \in Callers : pc[c] # "walk"
      BY <2>4 DEF Overrun, Seen, Quiet
    <3> QED  BY <2>2, <3>1, <3>2, GoodStays DEF Peace
  <2>5. ASSUME NEW c \in Callers, Alloc(c) \/ Free(c) \/ CheckCall(c) \/ CheckStep(c)  PROVE Good'
    BY <2>2, <2>5, AllocGood, FreeGood, CheckGood
  <2> QED  BY <1>2, <2>3, <2>4, <2>5 DEF Life
<1> QED  BY <1>1, <1>2

LEMMA InvInit == Init => IInv
<1> SUFFICES ASSUME Init  PROVE IInv
  OBVIOUS
<1>1. TypeOK
  BY DEF Init, TypeOK, Steps
<1>2. OwnInv /\ RestInv /\ ClashInv /\ SignInv
  BY DEF Init, OwnInv, Holds, AllocSteps, FreeSteps, RestInv, ClashInv, Overlap, SignInv
<1>3. HeapInv
  BY DEF Init, HeapInv
<1> QED  BY <1>1, <1>2, <1>3 DEF IInv

\* A step in one life of the heap.
LEMMA LifeStep == IInv /\ [Life]_vars => IInv'
<1> SUFFICES ASSUME IInv, [Life]_vars  PROVE IInv'
  OBVIOUS
<1>1. TypeOK'
  BY TypeStep DEF IInv
<1>2. OwnInv' /\ RestInv' /\ SignInv'
  BY OwnStep, RestStep, SignStep DEF IInv
<1>3. ClashInv' /\ (clash => clash')
  BY ClashStep DEF IInv
<1>4. HeapInv'
  BY <1>1, <1>3, HeapStep
<1> QED  BY <1>1, <1>2, <1>3, <1>4 DEF IInv

\* CyU3PFreeHeaps leaves nothing of the old life.
LEMMA FreeHeapsKeeps == IInv /\ FreeHeaps => IInv'
<1> SUFFICES ASSUME IInv, FreeHeaps  PROVE IInv'
  OBVIOUS
<1>1. TypeOK'
  BY DEF IInv, TypeOK, FreeHeaps
<1>2. pc' = pc /\ \A c \in Callers : pc[c] = "idle"
  BY DEF FreeHeaps
<1>3. OwnInv'
  BY <1>2 DEF FreeHeaps, OwnInv, Holds, AllocSteps, FreeSteps
<1>4. RestInv' /\ ClashInv' /\ SignInv'
  BY <1>2 DEF FreeHeaps, RestInv, ClashInv, Overlap, SignInv
<1>5. HeapInv'
  <2>1. /\ \A c \in Callers : pc'[c] = "idle"
        /\ live' = {} /\ over' = {} /\ list' = NoBlock /\ allocCnt' = 0 /\ freeCnt' = 0
    BY <1>2 DEF FreeHeaps
  <2>2. Listed' = {} /\ Counted' = {}
    BY <2>1 DEF Listed, Counted, Held
  <2>3. CountInv'
    BY <2>1, <2>2, FS_EmptySet DEF CountInv
  <2>4. OrderInv' /\ NewInv' /\ WalkInv'
    BY <2>1, <2>2 DEF OrderInv, Newest, NewInv, WalkInv
  <2> QED  BY <2>3, <2>4 DEF HeapInv
<1> QED  BY <1>1, <1>3, <1>4, <1>5 DEF IInv

LEMMA InvStep == IInv /\ [Next]_vars => IInv'
  BY LifeStep, FreeHeapsKeeps DEF Next

\* Every reachable state satisfies the inductive invariant.
THEOREM HeapInductive == Spec => []IInv
  BY InvInit, InvStep, PTL DEF Spec

-----------------------------------------------------------------------------
(* The theorems.                                                            *)

\* The variables keep their types, whatever meets in the unprotected part.
THEOREM TypesHold == Spec => []TypeOK
<1>1. IInv => TypeOK
  BY DEF IInv
<1> QED  BY <1>1, HeapInductive, PTL

\* For any number of threads, interrupts and blocks, and all orders in which they
\* allocate and free: if no two calls have met in the unprotected part, then
\* whenever nobody is in it the list of CyU3PMemGetActiveList is exactly the
\* blocks in use, the newest first and linked both ways, and the counters of
\* CyU3PMemGetCounts differ by their number.
THEOREM ListIsExact == Spec => []ListExact
<1>1. ASSUME IInv  PROVE ListExact
  <2> SUFFICES ASSUME checks, ~clash, Quiet
               PROVE  /\ Newest(live, list)
                      /\ \A b \in live : Newest(OlderIn(live, b), prev[b]) /\ Oldest(NewerIn(live, b), next[b])
                      /\ \A a, b \in live : a # b => id[a] # id[b]
                      /\ allocCnt - freeCnt = Cardinality(live)
    BY DEF ListExact
  <2>1. Listed = live /\ Back = live /\ Forth = live /\ Counted = live
    BY DEF Quiet, Listed, Back, Forth, Counted, Held
  <2>2. OrderInv /\ CountInv
    BY <1>1 DEF IInv, HeapInv
  <2> QED  BY <2>1, <2>2 DEF OrderInv, CountInv
<1> QED  BY <1>1, HeapInductive, PTL

\* Only the caller itself ends its check.
LEMMA WalkEnds ==
  ASSUME TypeOK, [Life]_vars, NEW c \in Callers, pc[c] = "walk", pc'[c] = "idle"
  PROVE  CheckStep(c)
<1> USE DEF At, Goto, TypeOK
<1>1. ASSUME NEW d \in Callers, Alloc(d)  PROVE pc'[c] = pc[c]
  BY <1>1 DEF Alloc, AllocCall, PoolFails, PoolGives, AllocCount, AllocCounted, AllocEnter,
              AllocLink, AllocHead, AllocFooter, HandOut, Return, Move
<1>2. ASSUME NEW d \in Callers, Free(d)  PROVE pc'[c] = pc[c]
  BY <1>2 DEF Free, FreeCall, FreeSigns, FreeCounted, UnlinkNext, UnlinkPrev, UnlinkHead,
              Unhead, PoolTakes, Return, Move
<1>3. ASSUME NEW d \in Callers, CheckCall(d) \/ (CheckStep(d) /\ d # c)  PROVE pc'[c] = pc[c]
  BY <1>3 DEF CheckCall, CheckStep, Look, Return
<1>4. CASE Setup \/ Overrun \/ UNCHANGED vars
  BY <1>4 DEF Setup, Overrun, vars
<1> QED  BY <1>1, <1>2, <1>3, <1>4 DEF Life

\* If nothing meets it, CyU3PMemCorruptionCheck fails exactly when a block in use
\* has been overrun.
THEOREM CheckIsRight == Spec => CheckTells
<1>1. IInv /\ [Next]_vars =>
        [\A c \in Threads : checks /\ ~clash' /\ pc[c] = "walk" /\ pc'[c] = "idle"
             => (result'[c] = "success" <=> over = {})]_vars
  <2> SUFFICES ASSUME IInv, [Next]_vars, NEW c \in Threads,
                      checks, ~clash', pc[c] = "walk", pc'[c] = "idle"
               PROVE  result'[c] = "success" <=> over = {}
    OBVIOUS
  <2>0. [Life]_vars
    BY DEF Next, FreeHeaps
  <2>1. CheckStep(c)
    BY <2>0, WalkEnds DEF IInv
  <2>2. ~clash
    BY <2>0, ClashStep DEF IInv
  <2>3. WalkInv /\ SignInv /\ over \subseteq live
    BY <2>2 DEF IInv, HeapInv, TypeOK
  <2>4. /\ blk[c] = NoBlock \/ ~startSig[blk[c]] \/ ~endSig[blk[c]]
        /\ result' = [result EXCEPT ![c] = IF blk[c] = NoBlock THEN "success" ELSE "failure"]
    BY <2>1 DEF CheckStep, Look, Return, Put, Goto, IInv, TypeOK
  <2>5. result'[c] = IF blk[c] = NoBlock THEN "success" ELSE "failure"
    BY <2>4 DEF IInv, TypeOK
  <2>6. CASE blk[c] = NoBlock
    BY <2>3, <2>5, <2>6 DEF WalkInv
  <2>7. CASE blk[c] # NoBlock
    BY <2>3, <2>4, <2>5, <2>7 DEF WalkInv, SignInv
  <2> QED  BY <2>6, <2>7
<1> QED  BY <1>1, HeapInductive, PTL DEF Spec, CheckTells
=============================================================================

----------------------------- MODULE DmaBufLoops -----------------------------
(***************************************************************************)
(* The loops of the DMA buffer heap over the words of usedStatus, as       *)
(* cypress_fx3/cyfxbulksrcsink/cyfxtx.c runs them: the search of           *)
(* CyU3PDmaBufferAlloc, CyU3PDmaBufMgrSetStatus with its masks, and the    *)
(* count of CyU3PDmaBufferFree.  DmaBufferMgr says with sets what they     *)
(* compute; LoopsAgree compares the two in every state of the heap.        *)
(* The loops over bytes are in FxMem.  A definition marked "mutant" is a   *)
(* faulty variant that is not used.                                        *)
(***************************************************************************)
EXTENDS DmaBufferMgr, FxMem

\* The search visits each bit once, from the word searchPos and round.
Visited == [k \in 1 .. Bits |-> (searchPos * WordBits + k - 1) % Bits]

SearchStart == [count |-> 0, start |-> 0, word |-> searchPos, found |-> FALSE]

\* mutant: a run of zeros goes on from the end of the table to its top.
SearchBitNoReset(n, acc, p) ==
  LET count == IF p \in used THEN 0 ELSE acc.count + 1
  IN  IF acc.found THEN acc
      ELSE [count |-> count,
            start |-> IF count = 1 THEN p + 1 ELSE acc.start,
            word  |-> IF count = n + 1 THEN WordOf(p) ELSE acc.word,
            found |-> count = n + 1]

\* One turn for n lines at bit p: the run that ends here, unless the loop was
\* left before.  After the last word the run is forgotten.
SearchBit(n, acc, p) ==
  LET count == IF p \in used THEN 0 ELSE acc.count + 1
      found == count = n + 1
  IN  IF acc.found THEN acc
      ELSE [count |-> IF p = Bits - 1 /\ ~found THEN 0 ELSE count,
            start |-> IF count = 1 THEN p + 1 ELSE acc.start,
            word  |-> IF found THEN WordOf(p) ELSE acc.word,
            found |-> found]

Search(n) == FoldLeft(LAMBDA acc, p : SearchBit(n, acc, p), SearchStart, Visited)

\* The bits from .. to-1 of a word: the ones of its mask.
Mask(word, from, to) == {word * WordBits + i : i \in from .. (to - 1)}

\* CyU3PDmaBufMgrSetStatus: the bits it alters, a mask for each word.
SetStatus(startPos, numBits) ==
  LET startbit == startPos % WordBits
      endbit == IF startbit + numBits < WordBits THEN startbit + numBits ELSE WordBits
      rest[left \in Nat] == [word \in Nat |->
        IF left = 0 THEN {}
        ELSE IF left >= WordBits
        THEN Mask(word, 0, WordBits) \cup rest[left - WordBits][word + 1]
        ELSE Mask(word, 0, left)]
  IN  IF numBits = 0 THEN {}
      ELSE Mask(WordOf(startPos), startbit, endbit)
             \cup rest[numBits - (endbit - startbit)][WordOf(startPos) + 1]

\* The loop of CyU3PDmaBufferFree: how many ones follow each other, over the
\* borders of words, up to the end of the table.
CountOnes(startPos) ==
  LET count[p \in 0 .. Bits] ==
        IF WordOf(p) < StatusSize /\ p \in used THEN 1 + count[p + 1] ELSE 0
  IN  count[startPos]

\* The loops do what the actions of DmaBufferMgr say: the search stops at the
\* first run that is long enough, looking at the table in two parts, and fails
\* only when every such run lies across the start of the word it began in; the
\* masks are the lines of a block and the ones a free finds, whatever words
\* they lie in (cyfxtx.c:899-943, 802-838, 1052-1067).  The loops over bytes
\* do not depend on the heap, and are looked at while there is none.
LoopsAgree ==
  /\ ~inited => BlocksExact
  /\ inited =>
       /\ \A size \in Sizes :
            LET n == LinesFor(BlkSize(size))
                s == Search(n)
            IN  /\ s.found <=> Candidates(n) # {}
                /\ s.found => LET e == s.start + n - 1
                              IN  /\ e \in Candidates(n) /\ WordOf(e) = s.word
                                  /\ \A f \in Candidates(n) : e <= f
                /\ ~s.found => \A e \in RunEnds(0, Bits, n) :
                                 searchPos * WordBits \in (e - n + 1) .. e
       /\ \A b \in live : SetStatus(b.start, b.n - 1) = Marks(b)
       /\ \A l \in Line : SetStatus(l, CountOnes(l)) = Ones(l)
=============================================================================

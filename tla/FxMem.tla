-------------------------------- MODULE FxMem --------------------------------
(***************************************************************************)
(* The block operations of cypress_fx3/cyfxbulksrcsink/cyfxtx.c, byte for  *)
(* byte: CyU3PMemSet, CyU3PMemCopy and CyU3PMemCmp with their unrolled     *)
(* loops.  A memory is a function from addresses to bytes.                 *)
(***************************************************************************)
EXTENDS Integers, SequencesExt

Span(ptr, count) == ptr .. ptr + count - 1

\* CyU3PMemSet: groups of eight bytes, and the rest one by one.
MemSet(mem, ptr, data, count) ==
  LET groups == {ptr + 8 * j + i : j \in 0 .. (count \div 8) - 1, i \in 0 .. 7}
      rest   == {ptr + 8 * (count \div 8) + i : i \in 0 .. (count % 8) - 1}
  IN  [a \in DOMAIN mem |-> IF a \in groups \cup rest THEN data ELSE mem[a]]

\* The offsets in the order in which CyU3PMemCopy copies them.  From the end,
\* the groups come down, but the bytes of a group go up.
Upwards(count) == [k \in 1 .. count |-> k - 1]
Downwards(count) ==
  [k \in 1 .. count |->
     IF k <= 8 * (count \div 8) THEN count - 8 * ((k - 1) \div 8 + 1) + ((k - 1) % 8)
     ELSE count - k]

Order(dest, src, count) == IF dest > src THEN Downwards(count) ELSE Upwards(count)

\* CyU3PMemCopy: one byte after the other, each read when it is written.
MemCopy(mem, dest, src, count) ==
  FoldLeft(LAMBDA m, off : [m EXCEPT ![dest + off] = m[src + off]],
           mem, Order(dest, src, count))

\* CyU3PMemCmp: the difference of the first bytes that are not the same.
MemCmp(mem, s1, s2, n) ==
  LET differ == {i \in 0 .. n - 1 : mem[s1 + i] # mem[s2 + i]}
      first  == CHOOSE i \in differ : \A j \in differ : i <= j
  IN  IF differ = {} THEN 0 ELSE mem[s1 + first] - mem[s2 + first]

-----------------------------------------------------------------------------

\* The memory of the check: 20 bytes, all different, so that every byte tells
\* where it came from.
Cells == 0 .. 19
Fresh == [a \in Cells |-> a]

Copied(dest, src, count) ==
  [a \in Cells |-> IF a \in Span(dest, count) THEN Fresh[src + (a - dest)] ELSE Fresh[a]]

\* A set fills its block and nothing else.  A copy is exact for blocks that
\* overlap too, except where the destination begins less than eight bytes above
\* the source and there is a whole group: its first bytes are written before
\* its last are read.  After an exact copy a comparison of the two blocks finds
\* a difference exactly when the copy has overwritten a part of its source
\* (cyfxtx.c:515-535, 556-616, 637-650).
BlocksExact ==
  \A ptr \in 0 .. 9, count \in 0 .. 10 :
    /\ MemSet(Fresh, ptr, 99, count)
         = [a \in Cells |-> IF a \in Span(ptr, count) THEN 99 ELSE Fresh[a]]
    /\ \A src \in 0 .. 9 :
         LET after == MemCopy(Fresh, ptr, src, count)
             exact == after = Copied(ptr, src, count)
         IN  /\ exact <=> ~(ptr - src \in 1 .. 7 /\ count >= 8)
             /\ exact => (MemCmp(after, ptr, src, count) # 0
                            <=> ptr # src /\ Span(ptr, count) \cap Span(src, count) # {})
=============================================================================

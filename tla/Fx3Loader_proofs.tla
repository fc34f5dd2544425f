-------------------------- MODULE Fx3Loader_proofs --------------------------
(***************************************************************************)
(* The loader writes to EEPROMs and flash through a handle of the          *)
(* programmer only, the library closes what it opened, its IDs fit their   *)
(* table, EEPROMs and flash hold the image the tool reports as written,    *)
(* and a board that was started has its program in RAM, for every program, *)
(* image, list of devices, file of IDs and bound.  The last one rests on   *)
(* what the converter makes of a program: SectionsLaid and WholeImage say  *)
(* which words of an image are lengths, addresses, data and checksum.      *)
(***************************************************************************)
EXTENDS Fx3Loader, FoldFacts, TLAPS

\* From the answer of the programmer on, the handle is good (download_fx3.cpp
\* 229-232 and 269-277): the image is read in between.
HandleInv == pc \in RomSteps \cup {"image"} => Answers(h)

\* Writing to EEPROM and flash leaves the handles alone.
LEMMA HandlesStay ==
  ASSUME WriteRom PROVE h' = h /\ open' = open /\ board' = board /\ pc \in RomSteps \cup {"image"}
  <1> USE DEF usb, bus, RomSteps
  <1>1. ReadForRom \/ NextEeprom \/ I2cWrite => h' = h /\ open' = open /\ board' = board
                                                /\ pc \in RomSteps \cup {"image"}
    BY DEF ReadForRom, NextEeprom, I2cWrite
  <1>2. I2cVerify \/ Erase \/ Erased => h' = h /\ open' = open /\ board' = board
                                         /\ pc \in RomSteps \cup {"image"}
    BY DEF I2cVerify, Erase, Erased
  <1>3. Ready \/ Busy \/ SpiWrite => h' = h /\ open' = open /\ board' = board
                                     /\ pc \in RomSteps \cup {"image"}
    BY DEF Ready, Busy, SpiWrite
  <1> QED BY <1>1, <1>2, <1>3 DEF WriteRom

LEMMA HandleInvInit == Init => HandleInv
  BY DEF Init, HandleInv, RomSteps

LEMMA HandleInvNext == HandleInv /\ [Next]_vars => HandleInv'
  <1> SUFFICES ASSUME HandleInv, [Next]_vars PROVE HandleInv'
    OBVIOUS
  <1> USE DEF HandleInv, Answers
  <1>1. CASE Main
    BY <1>1 DEF Main, Goto, Fail, RomSteps
  <1>2. CASE LoadRam
    <2>1. pc' \notin RomSteps \cup {"image"}
      BY <1>2 DEF LoadRam, Read, Section, Trailer, EndOfFile, RamWrite, Jump,
                  Loaded, Goto, Fail, Succeed, RomSteps
    <2> QED BY <2>1
  <1>3. CASE FindProgrammer
    <2>1. CASE Check
      BY <2>1 DEF Check, Goto, Fail, usb, bus, RomSteps
    <2>2. CASE Found
      BY <2>2 DEF Found, Goto, bus
    <2>3. CASE Close \/ Wait \/ NotFound \/ ScanOn \/ ScanEnds
      <3>1. pc' \notin RomSteps \cup {"image"}
        BY <2>3 DEF Close, Wait, NotFound, ScanOn, ScanEnds, Goto, Fail, RomSteps
      <3> QED BY <3>1
    <2> QED BY <1>3, <2>1, <2>2, <2>3 DEF FindProgrammer
  <1>4. CASE WriteRom
    BY <1>4, HandlesStay
  <1>5. CASE BoardReturns
    BY <1>5 DEF BoardReturns, usb
  <1>6. CASE OtherMoves
    BY <1>6 DEF OtherMoves, usb
  <1>7. CASE UNCHANGED vars
    BY <1>7 DEF vars, usb, bus
  <1> QED BY <1>1, <1>2, <1>3, <1>4, <1>5, <1>6, <1>7 DEF Next, Loader

\* EEPROMs and flash are only touched through an open handle to a board that
\* runs the programmer (download_fx3.cpp:264-277).
THEOREM WritesProgrammer == Spec => []RightDevice
  <1>1. HandleInv => RightDevice
    BY DEF HandleInv, RightDevice
  <1> QED BY <1>1, HandleInvInit, HandleInvNext, PTL DEF Spec

-----------------------------------------------------------------------------

\* From an open that succeeds to the close, the list and the handles of the
\* table are there; before an open, what is still open is lost.
Library ==
  /\ pc \notin {"open", "wait", "done"} => listed /\ Range(table) \subseteq open
  /\ open \subseteq Range(table) \cup lost
  /\ pc \in {"open", "wait"} => open \subseteq lost

LEMMA LibraryInit == Init => Library
  BY DEF Init, Library

\* An open that finds devices, and one that fails.
LEMMA RenumerateKeeps ==
  ASSUME NEW list \in Lists, NEW n \in 0 .. Len(list), open \subseteq lost, Renumerate(list, n)
  PROVE  /\ listed' /\ Range(table') \subseteq open'
         /\ open' \subseteq Range(table') \cup lost'
         /\ n < Len(list) => open' \subseteq lost'
  BY DEF Renumerate

LEMMA MainKeeps == ASSUME Library, Main PROVE Library'
  <1> USE DEF Library, Goto, Fail
  <1>1. pc = "open" /\ open \subseteq lost
    BY DEF Main
  <1>2. CASE OpenFails /\ Fail /\ UNCHANGED h
    BY <1>1, <1>2 DEF OpenFails
  <1>3. ASSUME NEW list \in Lists, NEW n \in 0 .. Len(list), Renumerate(list, n),
               pc' \in {"read", "check", "done"}
        PROVE  Library'
    <2>1. listed' /\ Range(table') \subseteq open' /\ open' \subseteq Range(table') \cup lost'
      BY <1>1, <1>3, RenumerateKeeps
    <2> QED BY <1>3, <2>1
  <1> QED BY <1>2, <1>3 DEF Main

LEMMA WaitKeeps == ASSUME Library, Wait PROVE Library'
  <1> USE DEF Library, Goto
  <1>1. pc = "wait" /\ open \subseteq lost
    BY DEF Wait
  <1>2. CASE OpenFails /\ tries' = tries + 1 /\ UNCHANGED scan /\ Goto("wait")
    BY <1>1, <1>2 DEF OpenFails
  <1>3. ASSUME NEW list \in Lists, NEW n \in 0 .. Len(list), Renumerate(list, n),
               IF n = Len(list) /\ n > 0
               THEN scan' = 1 /\ Goto("scan") /\ UNCHANGED tries
               ELSE tries' = tries + 1 /\ Goto("wait") /\ UNCHANGED scan
        PROVE  Library'
    <2>1. /\ listed' /\ Range(table') \subseteq open'
          /\ open' \subseteq Range(table') \cup lost'
          /\ n < Len(list) => open' \subseteq lost'
      BY <1>1, <1>3, RenumerateKeeps
    <2>2. CASE n = Len(list) /\ n > 0
      BY <1>3, <2>1, <2>2
    <2>3. CASE ~(n = Len(list) /\ n > 0)
      <3>1. CASE n < Len(list)
        BY <1>3, <2>1, <2>3, <3>1
      <3>2. CASE ~(n < Len(list))
        <4>1. n = 0
          BY <1>3, <2>3, <3>2
        <4>2. Range(table') = {}
          BY <1>3, <4>1 DEF Renumerate, Range
        <4> QED BY <1>3, <2>1, <2>3, <4>2
      <3> QED BY <3>1, <3>2
    <2> QED BY <2>2, <2>3
  <1> QED BY <1>2, <1>3 DEF Wait

LEMMA LibraryNext == Library /\ [Next]_vars => Library'
  <1> SUFFICES ASSUME Library, [Next]_vars PROVE Library'
    OBVIOUS
  <1> USE DEF Library
  <1>1. CASE Main
    BY <1>1, MainKeeps
  <1>2. CASE LoadRam
    <2>1. UNCHANGED <<table, listed, lost, open>> /\ pc \notin {"open", "wait", "done"}
                                                 /\ pc' \notin {"open", "wait"}
      BY <1>2 DEF LoadRam, Read, Section, Trailer, EndOfFile, RamWrite, Jump,
                  Loaded, Goto, Fail, Succeed, usb
    <2> QED BY <2>1
  <1>3. CASE FindProgrammer
    <2>1. CASE Check
      BY <2>1 DEF Check, Goto, Fail, usb
    <2>2. CASE Close \/ ScanEnds
      <3>1. /\ pc' = "wait" /\ open' = open \ Range(table)
            /\ table' = table /\ lost' = lost
        BY <2>2 DEF Close, ScanEnds, CloseAll, Goto
      <3> QED BY <3>1
    <2>3. CASE Wait
      BY <2>3, WaitKeeps
    <2>4. CASE NotFound
      BY <2>4 DEF NotFound, Fail, usb
    <2>5. CASE Found
      BY <2>5 DEF Found, Goto
    <2>6. CASE ScanOn
      BY <2>6 DEF ScanOn, Goto, usb
    <2> QED BY <1>3, <2>1, <2>2, <2>3, <2>4, <2>5, <2>6 DEF FindProgrammer
  <1>4. CASE WriteRom
    <2>1. UNCHANGED <<table, listed, lost, open>> /\ pc \notin {"open", "wait", "done"}
                                                 /\ pc' \notin {"open", "wait"}
      <3>1. CASE ReadForRom \/ NextEeprom \/ I2cWrite
        BY <3>1 DEF ReadForRom, NextEeprom, I2cWrite, Goto, Fail, Succeed, usb
      <3>2. CASE I2cVerify
        BY <3>2 DEF I2cVerify, PartDone, Goto, Fail, usb
      <3>3. CASE Erase \/ Erased \/ Ready
        BY <3>3 DEF Erase, Erased, Ready, Goto, Fail, usb
      <3>4. CASE Busy \/ SpiWrite
        BY <3>4 DEF Busy, SpiWrite, Goto, Fail, Succeed, usb
      <3> QED BY <1>4, <3>1, <3>2, <3>3, <3>4 DEF WriteRom
    <2> QED BY <2>1
  <1>5. CASE BoardReturns \/ OtherMoves
    BY <1>5 DEF BoardReturns, OtherMoves, usb
  <1>6. CASE UNCHANGED vars
    BY <1>6 DEF vars, usb
  <1> QED BY <1>1, <1>2, <1>3, <1>4, <1>5, <1>6 DEF Next, Loader

\* Nothing is closed that is not open, and what stays open is in the table or
\* comes from an open that failed at a later device (libcyusb.cpp:180-187).
THEOREM ClosesWhatItOpened == Spec => []LibraryAccounted
  <1>1. Library => LibraryAccounted
    BY DEF Library, LibraryAccounted
  <1> QED BY <1>1, LibraryInit, LibraryNext, PTL DEF Spec

-----------------------------------------------------------------------------

Ids == {"boot", "prog", "cypress", "else"}
Kept == Smaller(MaxIds, Len(conf))

IdsInv == conf \in Seq(Ids) /\ vpd \in Seq(Ids) /\ IdsKept

\* A prefix, and what a concatenation holds.
LEMMA PrefixType ==
  ASSUME NEW S, NEW q \in Seq(S), NEW k \in 0 .. Len(q)
  PROVE  /\ SubSeq(q, 1, k) \in Seq(S) /\ Len(SubSeq(q, 1, k)) = k
         /\ \A i \in 1 .. k : SubSeq(q, 1, k)[i] = q[i]
  OBVIOUS

LEMMA RangeConcat ==
  ASSUME NEW S, NEW a \in Seq(S), NEW b \in Seq(S)
  PROVE  Range(a \o b) = Range(a) \cup Range(b)
  <1>1. a \o b \in Seq(S) /\ Len(a \o b) = Len(a) + Len(b)
    OBVIOUS
  <1>2. ASSUME NEW i \in 1 .. Len(a \o b)
        PROVE  (a \o b)[i] \in Range(a) \cup Range(b)
    <2>1. CASE i <= Len(a)
      <3>1. i \in DOMAIN a /\ (a \o b)[i] = a[i]
        BY <2>1
      <3> QED BY <3>1 DEF Range
    <2>2. CASE i > Len(a)
      <3>1. i - Len(a) \in DOMAIN b /\ (a \o b)[i] = b[i - Len(a)]
        BY <1>1, <2>2
      <3> QED BY <3>1 DEF Range
    <2> QED BY <2>1, <2>2
  <1>3. ASSUME NEW i \in DOMAIN a PROVE a[i] \in Range(a \o b)
    <2>1. i \in DOMAIN (a \o b) /\ (a \o b)[i] = a[i]
      OBVIOUS
    <2> QED BY <2>1 DEF Range
  <1>4. ASSUME NEW i \in DOMAIN b PROVE b[i] \in Range(a \o b)
    <2>1. i + Len(a) \in DOMAIN (a \o b) /\ (a \o b)[i + Len(a)] = b[i]
      OBVIOUS
    <2> QED BY <2>1 DEF Range
  <1>5. Range(a \o b) \subseteq Range(a) \cup Range(b)
    <2>1. DOMAIN (a \o b) = 1 .. Len(a \o b)
      BY <1>1
    <2>2. \A x \in Range(a \o b) : \E i \in 1 .. Len(a \o b) : x = (a \o b)[i]
      BY <2>1 DEF Range
    <2> QED BY <1>2, <2>2
  <1>6. Range(a) \subseteq Range(a \o b)
    BY <1>3, Zenon DEF Range
  <1>7. Range(b) \subseteq Range(a \o b)
    BY <1>4, Zenon DEF Range
  <1> QED BY <1>5, <1>6, <1>7

LEMMA ParseKeeps == ASSUME IdsInv, ParseConfig, conf' = conf PROVE IdsInv'
  <1> DEFINE k == Smaller(Len(conf), MaxIds - Len(vpd))
             new == SubSeq(conf, 1, k)
  <1>1. Len(vpd) \in Nat /\ Len(conf) \in Nat /\ MaxIds \in Nat /\ Len(vpd) <= MaxIds
    BY LoaderAssumption DEF IdsInv, IdsKept
  <1>2. k \in 0 .. Len(conf) /\ Len(vpd) + k <= MaxIds /\ Kept \in 0 .. Len(conf) /\ k <= Kept
    BY <1>1 DEF Smaller, Kept
  <1>3. vpd' = vpd \o new
    BY DEF ParseConfig, ReadIds
  <1> HIDE DEF k
  <1>4. new \in Seq(Ids) /\ Len(new) = k /\ \A i \in 1 .. k : new[i] = conf[i]
    BY <1>2, PrefixType DEF IdsInv
  <1>5. vpd' \in Seq(Ids) /\ Len(vpd') <= MaxIds
    <2>1. vpd \in Seq(Ids) /\ new \in Seq(Ids) /\ Len(new) = k
      BY <1>4 DEF IdsInv
    <2> HIDE DEF new
    <2>2. vpd \o new \in Seq(Ids) /\ Len(vpd \o new) = Len(vpd) + Len(new)
      BY <2>1
    <2> QED BY <1>2, <1>3, <2>1, <2>2
  <1>6. Range(vpd') = Range(vpd) \cup Range(new)
    <2>1. vpd \in Seq(Ids) /\ new \in Seq(Ids)
      BY <1>4 DEF IdsInv
    <2> HIDE DEF new
    <2> QED BY <1>3, <2>1, RangeConcat
  <1>7. CASE vpd = <<>>
    <2>1. Len(vpd) = 0
      BY <1>7
    <2>2. k = Kept
      BY <1>1, <2>1 DEF k, Kept, Smaller
    <2>3. Range(vpd) = {}
      BY <2>1 DEF Range
    <2>4. Range(vpd') = Range(SubSeq(conf, 1, Kept))
      BY <1>6, <2>2, <2>3
    <2> QED BY <1>5, <2>4 DEF IdsInv, IdsKept, Kept
  <1>8. CASE vpd # <<>>
    <2>1. Range(vpd) = Range(SubSeq(conf, 1, Kept))
      BY <1>8 DEF IdsInv, IdsKept, Kept
    <2>2. /\ SubSeq(conf, 1, Kept) \in Seq(Ids) /\ Len(SubSeq(conf, 1, Kept)) = Kept
          /\ \A i \in 1 .. Kept : SubSeq(conf, 1, Kept)[i] = conf[i]
      BY <1>2, PrefixType DEF IdsInv
    <2>3. ASSUME NEW i \in 1 .. k PROVE new[i] \in Range(SubSeq(conf, 1, Kept))
      <3>1. i \in 1 .. Kept /\ new[i] = SubSeq(conf, 1, Kept)[i]
        BY <1>2, <1>4, <2>2
      <3>2. DOMAIN SubSeq(conf, 1, Kept) = 1 .. Kept
        BY <2>2
      <3> QED BY <3>1, <3>2 DEF Range
    <2>4. Range(new) \subseteq Range(SubSeq(conf, 1, Kept))
      <3>1. DOMAIN new = 1 .. k
        BY <1>4
      <3> HIDE DEF new
      <3> QED BY <2>3, <3>1 DEF Range
    <2>5. Range(vpd') = Range(SubSeq(conf, 1, Kept))
      BY <1>6, <2>1, <2>4
    <2> QED BY <1>5, <2>5 DEF IdsInv, IdsKept, Kept
  <1> QED BY <1>7, <1>8

LEMMA IdsStay == ASSUME IdsInv, UNCHANGED <<vpd, conf>> PROVE IdsInv'
  BY DEF IdsInv, IdsKept

LEMMA IdsNext == IdsInv /\ [Next]_vars => IdsInv'
  <1> SUFFICES ASSUME IdsInv, [Next]_vars PROVE IdsInv'
    OBVIOUS
  <1>1. conf' = conf
    BY DEF Next, Loader, LoadRam, FindProgrammer, WriteRom, Main, Read, Section, Trailer,
       EndOfFile, RamWrite, Jump, Check, Close, Wait, NotFound, Found, ScanOn, ScanEnds,
       ReadForRom, NextEeprom, I2cWrite, I2cVerify, Erase, Erased, Ready, Busy, SpiWrite,
       BoardReturns, OtherMoves, program, vars
  <1>2. ParseConfig \/ vpd' = vpd
    <2>1. CASE Main \/ Wait
      BY <2>1 DEF Main, Wait, OpenFails
    <2>2. CASE LoadRam
      BY <2>2 DEF LoadRam, Read, Section, Trailer, EndOfFile, RamWrite, Jump, usb
    <2>3. CASE Check \/ Close \/ NotFound \/ Found \/ ScanOn \/ ScanEnds
      BY <2>3 DEF Check, Close, NotFound, Found, ScanOn, ScanEnds, usb
    <2>4. CASE WriteRom
      BY <2>4 DEF WriteRom, ReadForRom, NextEeprom, I2cWrite, I2cVerify, Erase, Erased,
                  Ready, Busy, SpiWrite, usb
    <2>5. CASE BoardReturns \/ OtherMoves \/ UNCHANGED vars
      BY <2>5 DEF BoardReturns, OtherMoves, vars, usb
    <2> QED BY <2>1, <2>2, <2>3, <2>4, <2>5 DEF Next, Loader, FindProgrammer
  <1> QED BY <1>1, <1>2, ParseKeeps, IdsStay

\* The IDs fit their table however often the configuration file is read, and
\* are those of its first lines (libcyusb.cpp:101-115).
THEOREM IdsAreKept == Spec => []IdsKept
  <1>1. Init => IdsInv
    BY LoaderAssumption DEF Init, IdsInv, IdsKept, Ids
  <1>2. IdsInv => IdsKept
    BY DEF IdsInv
  <1> QED BY <1>1, <1>2, IdsNext, PTL DEF Spec

-----------------------------------------------------------------------------
(* The image that the converter makes.                                      *)

LEMMA DivMod ==
  ASSUME NEW q \in Nat, NEW e \in Nat \ {0}, NEW x \in 0 .. e - 1
  PROVE  (q * e + x) \div e = q /\ (q * e + x) % e = x
  <1> DEFINE p == q * e + x
             r == p \div e
  <1>1. p \in Nat /\ r \in Nat /\ p % e \in 0 .. e - 1 /\ p = e * r + (p % e)
    OBVIOUS
  <1> HIDE DEF r
  <1>2. CASE r < q
    <2>1. e * (q - r) >= e
      BY <1>1, <1>2
    <2> QED BY <1>1, <2>1
  <1>3. CASE r > q
    <2>1. e * (r - q) >= e
      BY <1>1, <1>3
    <2> QED BY <1>1, <2>1
  <1>4. CASE r = q
    BY <1>1, <1>4 DEF r
  <1> QED BY <1>1, <1>2, <1>3, <1>4

\* Sums are kept modulo WordMod.
Words == 0 .. WordMod - 1

LEMMA AddMod ==
  ASSUME NEW a \in Words, NEW b \in Words
  PROVE  /\ (a + b) % WordMod \in Words
         /\ (a + b) % WordMod = IF a + b < WordMod THEN a + b ELSE a + b - WordMod
  <1> DEFINE m == WordMod
  <1>1. m \in Nat \ {0}
    BY ImageAssumption
  <1>2. a + b \in Nat /\ a \in Nat /\ b \in Nat /\ a < m /\ b < m
    BY <1>1 DEF Words
  <1> HIDE DEF m
  <1>3. CASE a + b < m
    <2>1. (0 * m + (a + b)) % m = a + b
      BY <1>1, <1>2, <1>3
    <2> QED BY <1>1, <1>2, <1>3, <2>1 DEF Words, m
  <1>4. CASE a + b >= m
    <2>1. a + b - m \in 0 .. m - 1
      BY <1>1, <1>2, <1>4
    <2>2. (1 * m + (a + b - m)) % m = a + b - m
      BY <1>1, <1>2, <2>1
    <2>3. 1 * m + (a + b - m) = a + b
      BY <1>1, <1>2
    <2> QED BY <1>1, <1>2, <1>4, <2>1, <2>2, <2>3 DEF Words, m
  <1> QED BY <1>1, <1>2, <1>3, <1>4

\* The sums that WordSum goes through.
SumRun(run, s) ==
  /\ run \in [0 .. Len(s) -> Words]
  /\ run[0] = 0 /\ \A i \in 1 .. Len(s) : run[i] = (run[i - 1] + s[i]) % WordMod
  /\ WordSum(s) = run[Len(s)]

addWord == [p \in Words \X Words |-> (p[1] + p[2]) % WordMod]

\* The sum of a sequence is the last value of a trace of partial sums.
LEMMA SumTrace ==
  ASSUME NEW s \in Seq(Words)
  PROVE  \E run : SumRun(run, s)
  <1> DEFINE n == Len(s)
             Eq(f) == f = [t \in SUBSET (1 .. n) |->
                             IF t = {} THEN 0 ELSE (f[t \ {Max(t)}] + s[Max(t)]) % WordMod]
             f == CHOOSE iter : Eq(iter)
  <1>1. n \in Nat /\ DOMAIN s = 1 .. n /\ \A i \in 1 .. n : s[i] \in Words
    OBVIOUS
  <1>2. WordSum(s) = f[1 .. n]
    BY <1>1 DEF WordSum, FoldLeft, MapThenFoldSet
  <1>3. Data(Words, Words, 0, addWord, s)
    <2>1. 0 \in Words
      BY ImageAssumption DEF Words
    <2>2. \A p \in Words \X Words : (p[1] + p[2]) % WordMod \in Words
      BY AddMod
    <2>3. addWord \in [Words \X Words -> Words]
      BY <2>2 DEF addWord
    <2> QED BY <2>1, <2>3 DEF Data
  <1>4. Eq(f)
    <2>1. PICK g : Solution(g, Words, Words, 0, addWord, s)
      BY <1>3, FoldExists
    <2>2. ASSUME NEW t \in SUBSET (1 .. n), t # {}
          PROVE  g[t] = (g[t \ {Max(t)}] + s[Max(t)]) % WordMod
      <3>1. /\ t \ {Max(t)} \in SUBSET (1 .. n) /\ s[Max(t)] \in Words
            /\ g[t] = addWord[<<g[t \ {Max(t)}], s[Max(t)]>>]
        BY <2>1, <2>2 DEF Solution
      <3>2. g[t \ {Max(t)}] \in Words
        BY <2>1, <3>1 DEF Solution
      <3> HIDE DEF n
      <3> QED BY <3>1, <3>2 DEF addWord
    <2>3. g \in [SUBSET (1 .. n) -> Words] /\ g[{}] = 0
      BY <2>1 DEF Solution
    <2>4. Eq(g)
      <3> HIDE DEF n
      <3> QED BY <2>2, <2>3
    <2> HIDE DEF Eq
    <2> QED BY <2>4
  <1>5. Recursion(f, Words, 0, addWord, s)
    <2> HIDE DEF f
    <2>1. \A t \in SUBSET (1 .. n) : f[t] = IF t = {} THEN 0 ELSE (f[t \ {Max(t)}] + s[Max(t)]) % WordMod
      <3> HIDE DEF n
      <3> QED BY <1>4
    <2>2. ASSUME NEW t \in SUBSET (1 .. n), t # {} PROVE s[Max(t)] \in Words
      <3> HIDE DEF n
      <3>1. Max(t) \in 1 .. n
        BY <1>1, <2>2, GreatestIn
      <3> QED BY <1>1, <3>1
    <2>3. ASSUME NEW t \in SUBSET (1 .. n), t # {}, f[t \ {Max(t)}] \in Words
          PROVE  f[t] = addWord[<<f[t \ {Max(t)}], s[Max(t)]>>]
      <3> HIDE DEF n
      <3> QED BY <2>1, <2>2, <2>3 DEF addWord
    <2> QED BY <2>1, <2>3 DEF Recursion
  <1>6. PICK run : Trace(run, Words, Words, 0, addWord, s) /\ f[1 .. n] = run[n]
    <2> HIDE DEF f
    <2> QED BY <1>3, <1>5, FoldIsTrace
  <1>7. ASSUME NEW i \in 1 .. n PROVE run[i] = (run[i - 1] + s[i]) % WordMod
    <2>1. i - 1 \in 0 .. n /\ s[i] \in Words
      BY <1>1
    <2>2. run[i - 1] \in Words /\ run[i] = addWord[<<run[i - 1], s[i]>>]
      BY <1>6, <2>1 DEF Trace
    <2> HIDE DEF n
    <2> QED BY <2>1, <2>2 DEF addWord
  <1> HIDE DEF f
  <1> QED BY <1>2, <1>6, <1>7 DEF Trace, SumRun

LEMMA SumType == ASSUME NEW s \in Seq(Words) PROVE WordSum(s) \in Words
  BY SumTrace DEF SumRun

\* Zeros at the end of a section do not change its sum.
LEMMA SumOfPadded ==
  ASSUME NEW s \in Seq(Words), NEW t \in Seq(Words), Len(s) <= Len(t),
         \A i \in 1 .. Len(t) : t[i] = IF i <= Len(s) THEN s[i] ELSE 0
  PROVE  WordSum(t) = WordSum(s)
  <1>1. PICK g : SumRun(g, s)
    BY SumTrace
  <1>2. PICK run : SumRun(run, t)
    BY SumTrace
  <1> DEFINE T == {k \in 0 .. Len(t) : run[k] = IF k <= Len(s) THEN g[k] ELSE g[Len(s)]}
  <1>3. 0 \in T
    BY <1>1, <1>2 DEF SumRun
  <1>4. ASSUME NEW k \in 0 .. Len(t) - 1, k \in T PROVE k + 1 \in T
    <2>1. k + 1 \in 1 .. Len(t) /\ run[k + 1] = (run[k] + t[k + 1]) % WordMod
      BY <1>2 DEF SumRun
    <2>2. CASE k + 1 <= Len(s)
      <3>1. run[k] = g[k] /\ t[k + 1] = s[k + 1]
        BY <1>4, <2>1, <2>2
      <3>2. g[k + 1] = (g[k] + s[k + 1]) % WordMod
        BY <1>1, <2>1, <2>2 DEF SumRun
      <3> QED BY <2>1, <2>2, <3>1, <3>2
    <2>3. CASE k + 1 > Len(s)
      <3>1. run[k] = g[Len(s)] /\ t[k + 1] = 0
        BY <1>4, <2>1, <2>3
      <3>2. g[Len(s)] \in Words /\ 0 \in Words
        BY <1>1, ImageAssumption DEF SumRun, Words
      <3>3. (g[Len(s)] + 0) % WordMod = g[Len(s)]
        <4> DEFINE x == g[Len(s)]
        <4>1. x \in Words /\ x < WordMod /\ x + 0 = x
          BY <3>2, ImageAssumption DEF Words
        <4> HIDE DEF x
        <4>2. (x + 0) % WordMod = x
          BY <3>2, <4>1, AddMod
        <4> QED BY <4>2 DEF x
      <3>4. run[k + 1] = g[Len(s)]
        BY <2>1, <3>1, <3>3
      <3> QED BY <2>1, <2>3, <3>4
    <2> QED BY <2>2, <2>3
  <1>5. 0 .. Len(t) \subseteq T
    <2>1. Len(t) \in Nat
      OBVIOUS
    <2> HIDE DEF T
    <2> QED BY <1>3, <1>4, <2>1, UpTo
  <1>6. Len(t) \in T
    BY <1>5
  <1>7. run[Len(t)] = g[Len(s)]
    BY <1>6
  <1> QED BY <1>1, <1>2, <1>7 DEF SumRun

Next1(w) == (w + 1) % WordMod

\* A longer sequence of words adds its last word to the sum.
LEMMA NextAdds ==
  ASSUME WordMod > 1, NEW a \in Words, NEW b \in Words
  PROVE  /\ Next1(a) \in Words /\ Next1(a) # a
         /\ (Next1(a) + b) % WordMod = Next1((a + b) % WordMod)
         /\ (b + Next1(a)) % WordMod = Next1((b + a) % WordMod)
  <1>1. WordMod \in Nat /\ 1 \in Words
    BY ImageAssumption DEF Words
  <1>2. \A x, y \in Words : /\ (x + y) % WordMod \in Words
                            /\ (x + y) % WordMod = IF x + y < WordMod THEN x + y ELSE x + y - WordMod
    BY AddMod
  <1>3. \A x \in Words : Next1(x) \in Words /\ Next1(x) = IF x + 1 < WordMod THEN x + 1 ELSE x + 1 - WordMod
    BY <1>1, <1>2 DEF Next1
  <1>4. Next1(a) \in Words /\ (a + b) % WordMod \in Words /\ (b + a) % WordMod \in Words
    BY <1>2, <1>3
  <1>5. /\ Next1(a) = IF a + 1 < WordMod THEN a + 1 ELSE a + 1 - WordMod
        /\ (a + b) % WordMod = IF a + b < WordMod THEN a + b ELSE a + b - WordMod
        /\ (b + a) % WordMod = IF a + b < WordMod THEN a + b ELSE a + b - WordMod
    <2>1. b + a = a + b
      BY <1>1 DEF Words
    <2> QED BY <1>2, <1>3, <2>1
  <1> DEFINE na == Next1(a)
             ab == (a + b) % WordMod
             ba == (b + a) % WordMod
             nab == (na + b) % WordMod
             bna == (b + na) % WordMod
             naab == Next1(ab)
             nba == Next1(ba)
  <1>6. /\ nab = IF na + b < WordMod THEN na + b ELSE na + b - WordMod
        /\ bna = IF na + b < WordMod THEN na + b ELSE na + b - WordMod
        /\ naab = IF ab + 1 < WordMod THEN ab + 1 ELSE ab + 1 - WordMod
        /\ nba = IF ba + 1 < WordMod THEN ba + 1 ELSE ba + 1 - WordMod
    <2>1. na + b = b + na
      BY <1>4, <1>1 DEF Words
    <2> HIDE DEF na, ab, ba
    <2> QED BY <1>2, <1>3, <1>4, <2>1 DEF na, ab, ba
  <1>7. na \in 0 .. WordMod - 1 /\ a \in 0 .. WordMod - 1 /\ b \in 0 .. WordMod - 1
    BY <1>4 DEF Words
  <1>8. /\ na = IF a + 1 < WordMod THEN a + 1 ELSE a + 1 - WordMod
        /\ ab = IF a + b < WordMod THEN a + b ELSE a + b - WordMod
        /\ ba = IF a + b < WordMod THEN a + b ELSE a + b - WordMod
    BY <1>5
  <1> HIDE DEF na, ab, ba, nab, bna, naab, nba
  <1>9. nab = naab /\ bna = nba /\ na # a
    BY <1>1, <1>6, <1>7, <1>8
  <1> QED BY <1>4, <1>9 DEF na, ab, ba, nab, bna, naab, nba

\* One word that is one too large makes the sum one too large.
LEMMA SumOfWrong ==
  ASSUME WordMod > 1, NEW s \in Seq(Words), NEW t \in Seq(Words), Len(t) = Len(s),
         NEW p \in 1 .. Len(s), \A i \in 1 .. Len(s) : t[i] = IF i = p THEN Next1(s[i]) ELSE s[i]
  PROVE  WordSum(t) = Next1(WordSum(s))
  <1>1. PICK g : SumRun(g, s)
    BY SumTrace
  <1>2. PICK run : SumRun(run, t)
    BY SumTrace
  <1> DEFINE T == {k \in 0 .. Len(s) : run[k] = IF k < p THEN g[k] ELSE Next1(g[k])}
  <1>3. 0 \in T
    BY <1>1, <1>2 DEF SumRun
  <1>4. ASSUME NEW k \in 0 .. Len(s) - 1, k \in T PROVE k + 1 \in T
    <2>1. k + 1 \in 1 .. Len(s) /\ (k + 1) - 1 = k
      OBVIOUS
    <2>2. run[k + 1] = (run[k] + t[k + 1]) % WordMod /\ g[k + 1] = (g[k] + s[k + 1]) % WordMod
      BY <1>1, <1>2, <2>1 DEF SumRun
    <2>3. g[k] \in Words /\ s[k + 1] \in Words
      BY <1>1, <2>1 DEF SumRun
    <2>4. CASE k + 1 < p
      <3>1. run[k] = g[k] /\ t[k + 1] = s[k + 1]
        BY <1>4, <2>1, <2>4
      <3> QED BY <2>1, <2>2, <2>4, <3>1
    <2>5. CASE k + 1 = p
      <3>1. run[k] = g[k] /\ t[k + 1] = Next1(s[k + 1])
        BY <1>4, <2>1, <2>5
      <3>2. run[k + 1] = Next1(g[k + 1])
        BY <2>2, <2>3, <3>1, NextAdds
      <3> QED BY <2>1, <2>5, <3>2
    <2>6. CASE k + 1 > p
      <3>1. run[k] = Next1(g[k]) /\ t[k + 1] = s[k + 1]
        BY <1>4, <2>1, <2>6
      <3>2. run[k + 1] = Next1(g[k + 1])
        BY <2>2, <2>3, <3>1, NextAdds
      <3> QED BY <2>1, <2>6, <3>2
    <2> QED BY <2>4, <2>5, <2>6
  <1>5. 0 .. Len(s) \subseteq T
    <2> HIDE DEF T
    <2> QED BY <1>3, <1>4, UpTo
  <1>6. Len(s) \in T
    BY <1>5
  <1>7. run[Len(s)] = Next1(g[Len(s)])
    BY <1>6
  <1> QED BY <1>1, <1>2, <1>7 DEF SumRun

\* Where an image that begins with out goes on.
End(out) == Len(out) + 1

\* The words of the section at position q, and the addresses they are for.
Body(out, q) == [i \in 1 .. out[q] |-> out[q + 1 + i]]
Addresses(out, q) == out[q + 1] .. out[q + 1] + out[q] - 1

\* The section at q: where it ends, its sum, and that it is for addresses of U.
SectionAt(out, H, S, U, q) ==
  /\ out[q] > 0 /\ q + 2 + out[q] \in H
  /\ Body(out, q) \in Seq(Words)
  /\ S[q + 2 + out[q]] = (S[q] + WordSum(Body(out, q))) % WordMod
  /\ Addresses(out, q) \subseteq U

\* H has the positions where sections begin, S the sums of what is before them;
\* sections are not empty, meet nowhere, and there is nothing between them.
Laid(out, sum, H, S, U) ==
  /\ out \in Seq(Nat) /\ U \subseteq Nat
  /\ H \subseteq 2 .. End(out) /\ 2 \in H /\ End(out) \in H
  /\ \A q \in H : S[q] \in Words
  /\ S[2] = 0 /\ S[End(out)] = sum
  /\ \A q \in H \ {End(out)} : SectionAt(out, H, S, U, q)
  /\ \A q, r \in H : q < r => q + 2 + out[q] <= r
  /\ \A q, r \in H \ {End(out)} : q # r => Addresses(out, q) \cap Addresses(out, r) = {}
  /\ \A p \in 2 .. Len(out) : \E q \in H \ {End(out)} : p \in q .. q + 1 + out[q]

\* The word w is for address a.
Places(out, H, a, w) ==
  \E q \in H \ {End(out)} : a \in Addresses(out, q) /\ out[q + 2 + (a - out[q + 1])] = w

WithSection(out, addr, body) == out \o <<Len(body), addr>> \o body

LEMMA Widen ==
  ASSUME NEW A, NEW B, A \subseteq B, NEW s \in Seq(A)
  PROVE  s \in Seq(B) /\ Len(s) \in Nat
  <1>1. Len(s) \in Nat /\ s = [i \in 1 .. Len(s) |-> s[i]] /\ \A i \in 1 .. Len(s) : s[i] \in B
    OBVIOUS
  <1> QED BY <1>1

LEMMA ConcatIs ==
  ASSUME NEW s \in Seq(Nat), NEW t \in Seq(Nat)
  PROVE  /\ s \o t \in Seq(Nat) /\ Len(s \o t) = Len(s) + Len(t)
         /\ Len(s) \in Nat /\ Len(t) \in Nat
         /\ \A i \in 1 .. Len(s) : (s \o t)[i] = s[i]
         /\ \A i \in 1 .. Len(t) : (s \o t)[Len(s) + i] = t[i]
  <1>1. Len(s) \in Nat /\ Len(t) \in Nat
    OBVIOUS
  <1>2. s \o t \in Seq(Nat) /\ Len(s \o t) = Len(s) + Len(t)
    OBVIOUS
  <1>3. \A i \in 1 .. Len(s) : (s \o t)[i] = s[i]
    OBVIOUS
  <1>4. ASSUME NEW i \in 1 .. Len(t) PROVE (s \o t)[Len(s) + i] = t[i]
    <2>1. Len(s) + i \in 1 .. Len(s) + Len(t) /\ ~(Len(s) + i <= Len(s)) /\ Len(s) + i - Len(s) = i
      BY <1>1
    <2> QED BY <2>1
  <1> QED BY <1>1, <1>2, <1>3, <1>4

\* What an image is after a section was appended, word by word.
LEMMA WithSectionIs ==
  ASSUME NEW out \in Seq(Nat), NEW addr \in Nat, NEW body \in Seq(Words)
  PROVE  LET w == WithSection(out, addr, body)
         IN  /\ w \in Seq(Nat) /\ Len(w) = Len(out) + 2 + Len(body)
             /\ End(w) = End(out) + 2 + Len(body)
             /\ \A i \in 1 .. Len(out) : w[i] = out[i]
             /\ w[End(out)] = Len(body) /\ w[End(out) + 1] = addr
             /\ \A i \in 1 .. Len(body) : w[End(out) + 1 + i] = body[i]
  <1> DEFINE run == <<Len(body), addr>>
             oh == out \o run
             w == oh \o body
  <1>1. body \in Seq(Nat) /\ Len(body) \in Nat /\ Len(out) \in Nat
    <2>1. Words \subseteq Nat
      BY ImageAssumption DEF Words
    <2> QED BY <2>1, Widen
  <1>2. run \in Seq(Nat) /\ Len(run) = 2 /\ run[1] = Len(body) /\ run[2] = addr
    BY <1>1
  <1> HIDE DEF run
  <1>3. /\ oh \in Seq(Nat) /\ Len(oh) = Len(out) + 2
        /\ \A i \in 1 .. Len(out) : oh[i] = out[i]
        /\ \A i \in 1 .. 2 : oh[Len(out) + i] = run[i]
    <2>1. /\ out \o run \in Seq(Nat) /\ Len(out \o run) = Len(out) + Len(run)
          /\ \A i \in 1 .. Len(out) : (out \o run)[i] = out[i]
          /\ \A i \in 1 .. Len(run) : (out \o run)[Len(out) + i] = run[i]
      BY <1>2, ConcatIs
    <2> HIDE DEF oh
    <2> QED BY <1>2, <2>1 DEF oh
  <1> HIDE DEF oh
  <1>4. /\ w \in Seq(Nat) /\ Len(w) = Len(out) + 2 + Len(body)
        /\ \A i \in 1 .. Len(out) + 2 : w[i] = oh[i]
        /\ \A i \in 1 .. Len(body) : w[Len(out) + 2 + i] = body[i]
    <2>1. /\ w \in Seq(Nat) /\ Len(w) = Len(oh) + Len(body)
          /\ \A i \in 1 .. Len(oh) : w[i] = oh[i]
          /\ \A i \in 1 .. Len(body) : w[Len(oh) + i] = body[i]
      <3>1. /\ oh \o body \in Seq(Nat) /\ Len(oh \o body) = Len(oh) + Len(body)
            /\ \A i \in 1 .. Len(oh) : (oh \o body)[i] = oh[i]
            /\ \A i \in 1 .. Len(body) : (oh \o body)[Len(oh) + i] = body[i]
        BY <1>1, <1>3, ConcatIs
      <3> QED BY <3>1
    <2> HIDE DEF w
    <2> QED BY <1>1, <1>3, <2>1
  <1>5. WithSection(out, addr, body) = w
    BY DEF WithSection, w, oh, run
  <1> HIDE DEF w
  <1>6. \A i \in 1 .. Len(out) : w[i] = out[i]
    BY <1>1, <1>3, <1>4
  <1>7. w[Len(out) + 1] = Len(body) /\ w[Len(out) + 2] = addr
    <2>1. 1 \in 1 .. 2 /\ 2 \in 1 .. 2
      OBVIOUS
    <2>2. Len(out) + 1 \in 1 .. Len(out) + 2 /\ Len(out) + 2 \in 1 .. Len(out) + 2
      BY <1>1
    <2>3. oh[Len(out) + 1] = run[1] /\ oh[Len(out) + 2] = run[2]
      BY <1>3, <2>1
    <2>4. w[Len(out) + 1] = oh[Len(out) + 1] /\ w[Len(out) + 2] = oh[Len(out) + 2]
      BY <1>4, <2>2
    <2> QED BY <1>2, <2>3, <2>4
  <1>8. End(w) = End(out) + 2 + Len(body) /\ End(out) = Len(out) + 1
    BY <1>1, <1>4 DEF End
  <1>9. w[End(out)] = Len(body) /\ w[End(out) + 1] = addr
    BY <1>1, <1>7, <1>8
  <1>10. \A i \in 1 .. Len(body) : w[End(out) + 1 + i] = body[i]
    <2>1. ASSUME NEW i \in 1 .. Len(body) PROVE w[End(out) + 1 + i] = body[i]
      <3>1. End(out) + 1 + i = Len(out) + 2 + i
        BY <1>1, <1>8
      <3> QED BY <1>4, <3>1
    <2> QED BY <2>1
  <1> QED BY <1>4, <1>5, <1>6, <1>8, <1>9, <1>10

LEMMA AppendedIs ==
  ASSUME NEW out \in Seq(Nat), NEW addr \in Nat, NEW body \in Seq(Words)
  PROVE  /\ WithSection(out, addr, body) \in Seq(Nat)
         /\ Len(WithSection(out, addr, body)) = Len(out) + 2 + Len(body)
         /\ End(WithSection(out, addr, body)) = End(out) + 2 + Len(body)
         /\ WithSection(out, addr, body)[End(out)] = Len(body)
         /\ WithSection(out, addr, body)[End(out) + 1] = addr
         /\ \A i \in 1 .. Len(body) : WithSection(out, addr, body)[End(out) + 1 + i] = body[i]
  BY WithSectionIs, ZenonT(60)

\* What a section that is appended leaves of the ones before.
LEMMA BeforeStays ==
  ASSUME NEW out, NEW sum, NEW H, NEW S, NEW U, Laid(out, sum, H, S, U),
         NEW addr \in Nat, NEW body \in Seq(Words), NEW q \in H \ {End(out)}
  PROVE  LET w == WithSection(out, addr, body)
         IN  /\ w[q] = out[q] /\ w[q + 1] = out[q + 1] /\ Body(w, q) = Body(out, q)
             /\ Addresses(w, q) = Addresses(out, q)
             /\ q \in Nat /\ out[q] \in Nat /\ out[q + 1] \in Nat /\ q + 1 + out[q] <= Len(out)
             /\ q >= 2 /\ out[q] > 0
             /\ \A i \in 1 .. out[q] : w[q + 1 + i] = out[q + 1 + i]
  <1> DEFINE w == WithSection(out, addr, body)
  <1>1. out \in Seq(Nat) /\ Len(out) \in Nat /\ q \in 2 .. Len(out) /\ End(out) = Len(out) + 1
    BY DEF Laid, End
  <1>2. out[q] \in Nat /\ out[q] > 0 /\ q + 2 + out[q] \in 2 .. End(out)
    <2>1. SectionAt(out, H, S, U, q) /\ H \subseteq 2 .. End(out)
      BY DEF Laid
    <2>2. out[q] \in Nat
      BY <1>1
    <2> QED BY <2>1, <2>2 DEF SectionAt
  <1>3. q + 1 + out[q] <= Len(out) /\ q + 1 \in 1 .. Len(out) /\ out[q + 1] \in Nat
    <2>1. q + 1 + out[q] <= Len(out) /\ q + 1 \in 1 .. Len(out)
      BY <1>1, <1>2
    <2> QED BY <1>1, <2>1
  <1>4. \A i \in 1 .. Len(out) : w[i] = out[i]
    BY <1>1, WithSectionIs
  <1> HIDE DEF w
  <1>5. w[q] = out[q] /\ w[q + 1] = out[q + 1]
    BY <1>1, <1>3, <1>4
  <1>6. \A i \in 1 .. out[q] : w[q + 1 + i] = out[q + 1 + i]
    BY <1>1, <1>2, <1>3, <1>4, SMTT(30)
  <1>7. Body(w, q) = Body(out, q)
    BY <1>5, <1>6 DEF Body
  <1>8. Addresses(w, q) = Addresses(out, q)
    BY <1>5 DEF Addresses
  <1> QED BY <1>1, <1>2, <1>3, <1>5, <1>6, <1>7, <1>8 DEF w

Extended(H, e) == H \cup {e}
Summed(H, S, e, sum) == [q \in H \cup {e} |-> IF q = e THEN sum ELSE S[q]]

\* A section appended at addresses that are still free keeps the image laid out.
LEMMA SectionAdded ==
  ASSUME NEW out, NEW sum, NEW H, NEW S, NEW U, Laid(out, sum, H, S, U),
         NEW addr \in Nat, NEW body \in Seq(Words), Len(body) > 0,
         NEW V \in SUBSET Nat, U \subseteq V, addr .. addr + Len(body) - 1 \subseteq V \ U
  PROVE  LET w == WithSection(out, addr, body)
             total == (sum + WordSum(body)) % WordMod
         IN  Laid(w, total, Extended(H, End(w)), Summed(H, S, End(w), total), V)
  <1> DEFINE w == WithSection(out, addr, body)
             total == (sum + WordSum(body)) % WordMod
             e == End(out)
             e2 == End(w)
             H2 == Extended(H, e2)
             S2 == Summed(H, S, e2, total)
             n == Len(body)
  <1>1. /\ out \in Seq(Nat) /\ e \in Nat /\ e >= 2 /\ n \in Nat /\ e = Len(out) + 1
        /\ H \subseteq 2 .. e /\ 2 \in H /\ e \in H /\ \A q \in H : S[q] \in Words
    BY DEF Laid, End
  <1>2. /\ w \in Seq(Nat) /\ e2 = e + 2 + n /\ Len(w) = e + 1 + n
        /\ w[e] = n /\ w[e + 1] = addr /\ \A i \in 1 .. n : w[e + 1 + i] = body[i]
    <2> HIDE DEF w, e
    <2>1. /\ w \in Seq(Nat) /\ Len(w) = Len(out) + 2 + n /\ e2 = e + 2 + n
          /\ w[e] = n /\ w[e + 1] = addr /\ \A i \in 1 .. n : w[e + 1 + i] = body[i]
      <3>1. out \in Seq(Nat)
        BY <1>1
      <3>2. w = WithSection(out, addr, body)
        BY DEF w
      <3>3. /\ w \in Seq(Nat) /\ Len(w) = Len(out) + 2 + Len(body)
            /\ End(w) = End(out) + 2 + Len(body)
            /\ w[End(out)] = Len(body) /\ w[End(out) + 1] = addr
            /\ \A i \in 1 .. Len(body) : w[End(out) + 1 + i] = body[i]
        <4>1. /\ WithSection(out, addr, body) \in Seq(Nat)
              /\ Len(WithSection(out, addr, body)) = Len(out) + 2 + Len(body)
              /\ End(WithSection(out, addr, body)) = End(out) + 2 + Len(body)
              /\ WithSection(out, addr, body)[End(out)] = Len(body)
              /\ WithSection(out, addr, body)[End(out) + 1] = addr
              /\ \A i \in 1 .. Len(body) : WithSection(out, addr, body)[End(out) + 1 + i] = body[i]
          BY <3>1, AppendedIs, ZenonT(40)
        <4> QED BY <3>2, <4>1, ZenonT(40)
      <3> QED BY <3>3 DEF e
    <2>2. Len(out) \in Nat
      BY <1>1
    <2> QED BY <1>1, <2>1, <2>2
  <1>3. total \in Words
    <2>1. sum \in Words
      BY DEF Laid
    <2> QED BY <2>1, SumType, AddMod
  <1>4. ASSUME NEW q \in H \ {e}
        PROVE  /\ w[q] = out[q] /\ w[q + 1] = out[q + 1] /\ Body(w, q) = Body(out, q)
               /\ Addresses(w, q) = Addresses(out, q)
               /\ q \in Nat /\ out[q] \in Nat /\ q + 1 + out[q] <= Len(out)
               /\ SectionAt(out, H, S, U, q)
    <2>1. SectionAt(out, H, S, U, q)
      BY DEF Laid
    <2> HIDE DEF w
    <2> QED BY <2>1, BeforeStays DEF w
  <1>5. Body(w, e) = body /\ Addresses(w, e) = addr .. addr + n - 1
    <2>1. Body(w, e) = [i \in 1 .. n |-> body[i]]
      <3> HIDE DEF w, e, n
      <3> QED BY <1>2 DEF Body
    <2> QED BY <1>2, <2>1 DEF Addresses
  <1>6. /\ \A q \in H : S2[q] = S[q] /\ q # e2
        /\ S2[e2] = total /\ e2 \in H2 /\ H2 \ {e2} = H /\ H \subseteq H2
    <2>1. \A q \in H : q # e2
      BY <1>1, <1>2
    <2> HIDE DEF w, e2
    <2> QED BY <2>1 DEF Extended, Summed
  <1> HIDE DEF w, e, e2, total, n, H2, S2
  <1>7. H2 \subseteq 2 .. e2 /\ 2 \in H2 /\ S2[2] = 0 /\ \A q \in H2 : S2[q] \in Words
    <2>1. S[2] = 0
      BY DEF Laid
    <2>2. H2 = H \cup {e2}
      BY DEF H2, Extended
    <2>3. e2 \in 2 .. e2 /\ 2 .. e \subseteq 2 .. e2
      BY <1>1, <1>2, SMTT(30)
    <2>4. \A q \in H2 : S2[q] \in Words
      BY <1>1, <1>3, <1>6, <2>2
    <2> QED BY <1>1, <1>6, <2>1, <2>2, <2>3, <2>4
  <1>8. ASSUME NEW q \in H2 \ {e2} PROVE SectionAt(w, H2, S2, V, q)
    <2>1. CASE q = e
      <3>1. w[e] > 0 /\ e + 2 + w[e] = e2 /\ e2 \in H2
        BY <1>2, <1>6 DEF n
      <3>2. S2[e] = sum
        BY <1>1, <1>6 DEF Laid, e
      <3>3. S2[e + 2 + w[e]] = (S2[e] + WordSum(Body(w, e))) % WordMod
        BY <1>5, <1>6, <3>1, <3>2 DEF total
      <3>4. Addresses(w, e) \subseteq V
        BY <1>5 DEF n
      <3> QED BY <1>5, <2>1, <3>1, <3>3, <3>4 DEF SectionAt
    <2>2. CASE q # e
      <3>1. q \in H \ {e}
        BY <1>6, <2>2
      <3>2. /\ w[q] = out[q] /\ Body(w, q) = Body(out, q) /\ Addresses(w, q) = Addresses(out, q)
            /\ SectionAt(out, H, S, U, q)
        BY <1>4, <3>1
      <3>3. q + 2 + out[q] \in H /\ q \in H
        BY <3>1, <3>2 DEF SectionAt
      <3>4. S2[q + 2 + out[q]] = S[q + 2 + out[q]] /\ S2[q] = S[q] /\ q + 2 + out[q] \in H2
        BY <1>6, <3>3
      <3> QED BY <3>2, <3>4 DEF SectionAt
    <2> QED BY <2>1, <2>2
  <1>9. ASSUME NEW q \in H2, NEW r \in H2, q < r PROVE q + 2 + w[q] <= r
    <2>1. CASE q = e2
      <3>1. r \in 2 .. e2
        BY <1>7
      <3>2. e2 \in Nat
        BY <1>1, <1>2
      <3> QED BY <1>9, <2>1, <3>1, <3>2
    <2>2. CASE q = e
      <3>1. r = e2
        <4>1. r \notin H
          BY <1>1, <1>9, <2>2
        <4> QED BY <1>6, <4>1
      <3>2. e + 2 + w[e] = e2
        BY <1>1, <1>2
      <3> QED BY <1>1, <1>2, <2>2, <3>1, <3>2, SMTT(30)
    <2>3. CASE q # e /\ q # e2
      <3>1. q \in H \ {e}
        BY <1>6, <2>3
      <3>2. w[q] = out[q] /\ q \in Nat /\ out[q] \in Nat /\ q + 1 + out[q] <= Len(out)
        BY <1>4, <3>1
      <3>3. CASE r \in H
        BY <1>9, <3>1, <3>2, <3>3 DEF Laid
      <3>4. CASE r \notin H
        <4>1. r = e2
          BY <1>6, <3>4, Zenon
        <4>2. e2 = Len(out) + 3 + n /\ n \in Nat /\ Len(out) \in Nat
          <5>1. Len(out) \in Nat
            BY <1>1
          <5> QED BY <1>1, <1>2, <5>1
        <4> QED BY <3>2, <4>1, <4>2
      <3> QED BY <3>3, <3>4
    <2> QED BY <2>1, <2>2, <2>3
  <1>10. ASSUME NEW q \in H, NEW r \in H, q # r
         PROVE  Addresses(w, q) \cap Addresses(w, r) = {}
    <2>1. ASSUME NEW x \in H \ {e} PROVE Addresses(w, x) \subseteq U
      BY <1>4 DEF SectionAt
    <2>2. Addresses(w, e) \cap U = {}
      BY <1>5 DEF n
    <2>3. CASE q # e /\ r # e
      BY <1>4, <1>10, <2>3 DEF Laid, e
    <2>4. CASE q = e
      BY <1>10, <2>1, <2>2, <2>4
    <2>5. CASE r = e
      BY <1>10, <2>1, <2>2, <2>5
    <2> QED BY <2>3, <2>4, <2>5
  <1>11. ASSUME NEW p \in 2 .. Len(w) PROVE \E q \in H : p \in q .. q + 1 + w[q]
    <2>1. CASE p <= Len(out)
      <3>1. PICK q \in H \ {e} : p \in q .. q + 1 + out[q]
        BY <1>1, <1>11, <2>1 DEF Laid, e
      <3> QED BY <1>4, <3>1
    <2>2. CASE p > Len(out)
      <3>1. p \in e .. e + 1 + w[e]
        BY <1>1, <1>2, <1>11, <2>2
      <3> QED BY <1>1, <3>1
    <2> QED BY <1>1, <2>1, <2>2
  <1>12. Laid(w, total, H2, S2, V)
    <2>1. End(w) = e2
      BY DEF e2
    <2>2. \A q, r \in H2 : q < r => q + 2 + w[q] <= r
      BY <1>9
    <2>3. \A q, r \in H2 \ {e2} : q # r => Addresses(w, q) \cap Addresses(w, r) = {}
      BY <1>6, <1>10
    <2>4. \A p \in 2 .. Len(w) : \E q \in H2 \ {e2} : p \in q .. q + 1 + w[q]
      BY <1>6, <1>11
    <2> QED BY <1>2, <1>6, <1>7, <1>8, <2>1, <2>2, <2>3, <2>4 DEF Laid
  <1> QED BY <1>12 DEF w, total, e2, H2, S2

\* The words placed stay, and those of the new section are placed.
LEMMA PlacesStay ==
  ASSUME NEW out, NEW sum, NEW H, NEW S, NEW U, Laid(out, sum, H, S, U),
         NEW addr \in Nat, NEW body \in Seq(Words), NEW a, NEW v, Places(out, H, a, v)
  PROVE  LET w == WithSection(out, addr, body) IN Places(w, Extended(H, End(w)), a, v)
  <1> DEFINE w == WithSection(out, addr, body)
  <1>1. PICK q \in H \ {End(out)} : a \in Addresses(out, q) /\ out[q + 2 + (a - out[q + 1])] = v
    BY DEF Places
  <1>2. /\ w[q] = out[q] /\ w[q + 1] = out[q + 1] /\ Addresses(w, q) = Addresses(out, q)
        /\ q \in Nat /\ out[q] \in Nat /\ out[q + 1] \in Nat /\ q + 1 + out[q] <= Len(out)
        /\ \A i \in 1 .. out[q] : w[q + 1 + i] = out[q + 1 + i]
    <2> HIDE DEF w
    <2> QED BY BeforeStays DEF w
  <1>3. End(w) > End(out) /\ H \subseteq 2 .. End(out) /\ End(w) \in Nat /\ End(out) \in Nat
    <2>1. out \in Seq(Nat) /\ H \subseteq 2 .. End(out) /\ End(out) = Len(out) + 1
      BY DEF Laid, End
    <2>2. End(w) = End(out) + 2 + Len(body) /\ Len(body) \in Nat
      <3> HIDE DEF w
      <3>1. Len(body) \in Nat
        OBVIOUS
      <3> QED BY <2>1, <3>1, WithSectionIs DEF w
    <2> HIDE DEF w
    <2> QED BY <2>1, <2>2
  <1> HIDE DEF w
  <1>4. q \in Extended(H, End(w)) \ {End(w)}
    BY <1>3 DEF Extended
  <1> DEFINE i == a - out[q + 1] + 1
  <1>5. i \in 1 .. out[q] /\ q + 1 + i = q + 2 + (a - out[q + 1])
    <2>1. a \in out[q + 1] .. out[q + 1] + out[q] - 1
      BY <1>1 DEF Addresses
    <2>2. \A x, l, b \in Nat : x \in b .. b + l - 1 =>
            x - b + 1 \in 1 .. l /\ q + 1 + (x - b + 1) = q + 2 + (x - b)
      BY <1>2
    <2>3. a \in Nat
      BY <1>2, <2>1
    <2> HIDE DEF i
    <2> QED BY <1>2, <2>1, <2>2, <2>3 DEF i
  <1> HIDE DEF i
  <1>6. w[q + 2 + (a - w[q + 1])] = v
    BY <1>1, <1>2, <1>5
  <1> QED BY <1>1, <1>2, <1>4, <1>6 DEF Places, w

\* ... and its words are in the image at their addresses.
LEMMA PlacesNew ==
  ASSUME NEW out, NEW sum, NEW H, NEW S, NEW U, Laid(out, sum, H, S, U),
         NEW addr \in Nat, NEW body \in Seq(Words), NEW a \in addr .. addr + Len(body) - 1
  PROVE  LET w == WithSection(out, addr, body)
         IN  Places(w, Extended(H, End(w)), a, body[a - addr + 1])
  <1> DEFINE w == WithSection(out, addr, body)
             e == End(out)
             i == a - addr + 1
  <1>1. /\ e \in Nat /\ w[e] = Len(body) /\ w[e + 1] = addr /\ End(w) = e + 2 + Len(body)
        /\ Len(body) \in Nat /\ e \in H
        /\ \A j \in 1 .. Len(body) : w[e + 1 + j] = body[j]
    <2>1. out \in Seq(Nat) /\ End(out) \in H /\ End(out) = Len(out) + 1 /\ Len(out) \in Nat
      BY DEF Laid, End
    <2>2. Len(body) \in Nat
      OBVIOUS
    <2>3. /\ w[End(out)] = Len(body) /\ w[End(out) + 1] = addr /\ End(w) = End(out) + 2 + Len(body)
          /\ \A i1 \in 1 .. Len(body) : w[End(out) + 1 + i1] = body[i1]
      <3>1. w = WithSection(out, addr, body)
        OBVIOUS
      <3> HIDE DEF w, e, i
      <3>2. /\ WithSection(out, addr, body)[End(out)] = Len(body)
            /\ WithSection(out, addr, body)[End(out) + 1] = addr
            /\ End(WithSection(out, addr, body)) = End(out) + 2 + Len(body)
            /\ \A k \in 1 .. Len(body) : WithSection(out, addr, body)[End(out) + 1 + k] = body[k]
        BY <2>1, AppendedIs, ZenonT(40)
      <3> QED BY <3>1, <3>2, ZenonT(40)
    <2> HIDE DEF w
    <2> QED BY <2>1, <2>2, <2>3
  <1> HIDE DEF w, e
  <1>2. i \in 1 .. Len(body) /\ e + 1 + i = e + 2 + (a - addr)
    BY <1>1
  <1>3. w[e + 2 + (a - w[e + 1])] = body[i]
    <2> HIDE DEF i
    <2> QED BY <1>1, <1>2
  <1>4. a \in Addresses(w, e)
    BY <1>1 DEF Addresses
  <1>5. e \in Extended(H, End(w)) \ {End(w)}
    BY <1>1 DEF Extended
  <1> QED BY <1>3, <1>4, <1>5 DEF Places, w

\* Where the k-th section of a header ends, in words after its start.
Ends(m, size, k) == IF k * size <= m THEN k * size ELSE m

\* The sizes of the sections of a header of m words add up to m.
LEMMA SizesAre ==
  ASSUME NEW m \in Nat, NEW size \in Nat \ {0}
  PROVE  LET s == SectionSizes(m, size)
         IN  /\ s \in Seq(Nat \ {0}) /\ Len(s) \in Nat
             /\ Ends(m, size, 0) = 0 /\ Ends(m, size, Len(s)) = m
             /\ \A k \in 0 .. Len(s) : Ends(m, size, k) \in 0 .. m
             /\ \A k \in 1 .. Len(s) : Ends(m, size, k) = Ends(m, size, k - 1) + s[k]
  <1> DEFINE n == (m + size - 1) \div size
             s == SectionSizes(m, size)
             L(i) == IF i * size <= m THEN size ELSE m % size
  <1>1. n \in Nat /\ (m + size - 1) % size \in 0 .. size - 1
        /\ m + size - 1 = size * n + ((m + size - 1) % size)
    OBVIOUS
  <1>2. s = [i \in 1 .. n |-> L(i)]
    BY DEF SectionSizes
  <1> HIDE DEF n
  <1>3. n * size = size * n /\ n * size \in Nat
    BY <1>1
  <1>4. n * size >= m /\ n * size < m + size
    BY <1>1, <1>3
  <1>5. ASSUME NEW k \in 1 .. n
        PROVE  /\ L(k) \in Nat \ {0}
               /\ Ends(m, size, k) = Ends(m, size, k - 1) + L(k)
    <2>1. /\ k * size \in Nat /\ (k - 1) * size \in Nat /\ k * size = (k - 1) * size + size
          /\ k - 1 \in Nat
      BY <1>1
    <2>2. (k - 1) * size < m
      <3>1. (n - k) * size >= 0
        BY <1>1
      <3>2. (n - k) * size = n * size - k * size
        BY <1>1
      <3> QED BY <1>3, <1>4, <2>1, <3>1, <3>2
    <2>3. CASE k * size <= m
      BY <2>1, <2>2, <2>3 DEF Ends
    <2>4. CASE k * size > m
      <3> DEFINE r == m - (k - 1) * size
      <3>1. r \in 0 .. size - 1 /\ r > 0 /\ (k - 1) * size + r = m
        BY <2>1, <2>2, <2>4
      <3>2. m % size = r
        <4>1. ((k - 1) * size + r) % size = r
          <5> HIDE DEF r
          <5> QED BY <2>1, <3>1, DivMod
        <4> QED BY <3>1, <4>1
      <3>3. L(k) = r
        BY <2>1, <2>4, <3>2
      <3> QED BY <2>1, <2>2, <2>4, <3>1, <3>3 DEF Ends
    <2> QED BY <2>1, <2>3, <2>4
  <1> HIDE DEF L
  <1>6. s \in Seq(Nat \ {0}) /\ Len(s) = n /\ \A k \in 1 .. n : s[k] = L(k)
    BY <1>1, <1>2, <1>5
  <1>7. Ends(m, size, 0) = 0 /\ Ends(m, size, n) = m
    BY <1>1, <1>3, <1>4 DEF Ends
  <1>8. \A k \in 0 .. n : Ends(m, size, k) \in 0 .. m
    <2>1. \A k \in Nat : k * size \in Nat
      OBVIOUS
    <2> QED BY <1>1, <2>1 DEF Ends
  <1> HIDE DEF s
  <1> QED BY <1>1, <1>5, <1>6, <1>7, <1>8 DEF s

-----------------------------------------------------------------------------
(* One section.                                                             *)

Accs == [out : Seq(Nat), checksum : Words, fileSz : Nat, secStart : Nat, pos : Nat]

\* What is read from the file at a position, which is all of it if the file is long enough.
LEMMA ReadIs ==
  ASSUME NEW e, e.words \in Seq(Words), NEW pos \in Nat, NEW n \in Nat
  PROVE  LET data == ReadWords(e, pos, n)
         IN  /\ data \in Seq(Words) /\ Len(data) \in 0 .. n
             /\ \A j \in 1 .. Len(data) : data[j] = e.words[pos + j]
             /\ pos + n <= Len(e.words) => Len(data) = n
  <1> DEFINE w == e.words
             last == IF pos + n > Len(w) THEN Len(w) ELSE pos + n
             data == SubSeq(w, pos + 1, last)
  <1>1. Len(w) \in Nat /\ last \in Nat /\ last <= Len(w) /\ last <= pos + n
    OBVIOUS
  <1>2. ReadWords(e, pos, n) = data
    BY DEF ReadWords
  <1> HIDE DEF last
  <1>3. CASE last <= pos
    <2>1. data = <<>>
      BY <1>1, <1>3
    <2>2. pos + n <= Len(w) => n = 0
      BY <1>1, <1>3 DEF last
    <2>3. <<>> \in Seq(Words) /\ Len(<<>>) = 0 /\ 0 \in 0 .. n
      OBVIOUS
    <2> HIDE DEF data
    <2>4. data \in Seq(Words) /\ Len(data) = 0
      BY <2>1, <2>3
    <2> QED BY <1>2, <2>2, <2>4
  <1>4. CASE last > pos
    <2>1. /\ data \in Seq(Words) /\ Len(data) = last - pos
          /\ \A j \in 1 .. last - pos : data[j] = w[pos + j]
      BY <1>1, <1>4
    <2>2. last - pos \in 0 .. n /\ (pos + n <= Len(w) => last = pos + n)
      BY <1>1, <1>4 DEF last
    <2> HIDE DEF data, w
    <2> QED BY <1>1, <1>2, <2>1, <2>2 DEF w
  <1> QED BY <1>1, <1>3, <1>4

Copy(e, acc, l, new, body) ==
  /\ new \in Accs /\ body \in Seq(Words) /\ Len(body) = l
  /\ new.out = WithSection(acc.out, acc.secStart, body)
  /\ new.checksum = (acc.checksum + WordSum(body)) % WordMod
  /\ new.secStart = acc.secStart + l
  /\ l <= acc.fileSz => new.fileSz = acc.fileSz - l
  /\ acc.pos + acc.fileSz <= Len(e.words) =>
       /\ \A j \in 1 .. l : j <= acc.fileSz => body[j] = e.words[acc.pos + j]
       /\ l <= acc.fileSz => new.pos = acc.pos + l

\* What one turn of the loop over the sections of a header does (elf2img.c 197-255).
LEMMA CopySectionIs ==
  ASSUME NEW e, e.words \in Seq(Words), NEW acc \in Accs, NEW l \in Nat \ {0}
  PROVE  \E body : Copy(e, acc, l, CopySection(e, acc, l), body)
  <1> DEFINE valid == IF l > acc.fileSz THEN acc.fileSz ELSE l
             data == ReadWords(e, acc.pos, valid)
             zeros == Zeros(l - Len(data))
             body == data \o zeros
             new == CopySection(e, acc, l)
  <1>1. /\ acc.out \in Seq(Nat) /\ acc.checksum \in Words /\ acc.fileSz \in Nat
        /\ acc.secStart \in Nat /\ acc.pos \in Nat
    BY DEF Accs
  <1>2. valid \in Nat /\ valid <= l /\ valid <= acc.fileSz
    BY <1>1
  <1>3. new = [out      |-> acc.out \o <<l, acc.secStart>> \o data \o zeros,
               checksum |-> (acc.checksum + WordSum(data)) % WordMod,
               fileSz   |-> IF l > acc.fileSz THEN acc.fileSz ELSE acc.fileSz - valid,
               secStart |-> acc.secStart + l,
               pos      |-> acc.pos + Len(data)]
    BY DEF CopySection
  <1> HIDE DEF new
  <1>4. /\ data \in Seq(Words) /\ Len(data) \in 0 .. valid
        /\ \A j \in 1 .. Len(data) : data[j] = e.words[acc.pos + j]
        /\ acc.pos + valid <= Len(e.words) => Len(data) = valid
    <2> HIDE DEF valid
    <2> QED BY <1>1, <1>2, ReadIs
  <1> HIDE DEF data
  <1>5. /\ zeros \in Seq(Words) /\ Len(zeros) = l - Len(data) /\ l - Len(data) \in Nat
        /\ \A j \in 1 .. l - Len(data) : zeros[j] = 0
    <2>1. 0 \in Words /\ l - Len(data) \in Nat
      BY <1>2, <1>4, ImageAssumption DEF Words
    <2> QED BY <2>1 DEF Zeros
  <1> HIDE DEF zeros
  <1>6. /\ body \in Seq(Words) /\ Len(body) = l
        /\ \A j \in 1 .. l : body[j] = IF j <= Len(data) THEN data[j] ELSE 0
    <2>1. body \in Seq(Words) /\ Len(body) = Len(data) + Len(zeros)
      BY <1>4, <1>5
    <2>2. ASSUME NEW j \in 1 .. l PROVE body[j] = IF j <= Len(data) THEN data[j] ELSE 0
      <3>1. CASE j <= Len(data)
        BY <1>4, <1>5, <3>1
      <3>2. CASE j > Len(data)
        <4>1. j - Len(data) \in 1 .. l - Len(data)
          BY <1>4, <3>2
        <4>2. body[j] = zeros[j - Len(data)]
          BY <1>4, <1>5, <3>2, <4>1
        <4> QED BY <1>4, <1>5, <3>2, <4>1, <4>2
      <3> HIDE DEF body
      <3> QED BY <1>4, <3>1, <3>2
    <2>3. Len(data) + Len(zeros) = l
      BY <1>4, <1>5
    <2> QED BY <2>1, <2>2, <2>3
  <1>7. acc.out \o <<l, acc.secStart>> \o data \o zeros = WithSection(acc.out, acc.secStart, body)
    <2>1. \A x, y, z \in Seq(Nat) : x \o y \o z = x \o (y \o z)
      OBVIOUS
    <2>2. Words \subseteq Nat
      BY ImageAssumption DEF Words
    <2>3. data \in Seq(Nat) /\ zeros \in Seq(Nat)
      BY <1>4, <1>5, <2>2, Widen
    <2>4. acc.out \o <<l, acc.secStart>> \in Seq(Nat)
      BY <1>1
    <2> DEFINE oh == acc.out \o <<l, acc.secStart>>
    <2> HIDE DEF oh
    <2>5. oh \o data \o zeros = oh \o (data \o zeros)
      BY <2>1, <2>3, <2>4 DEF oh
    <2> QED BY <1>6, <2>5 DEF WithSection, oh
  <1>8. WordSum(body) = WordSum(data)
    <2> HIDE DEF body
    <2> QED BY <1>2, <1>4, <1>6, SumOfPadded
  <1> HIDE DEF body
  <1>9. /\ new.out = WithSection(acc.out, acc.secStart, body)
        /\ new.checksum = (acc.checksum + WordSum(body)) % WordMod
        /\ new.secStart = acc.secStart + l
        /\ l <= acc.fileSz => new.fileSz = acc.fileSz - l
    <2>1. l <= acc.fileSz => (IF l > acc.fileSz THEN acc.fileSz ELSE acc.fileSz - valid) = acc.fileSz - l
      BY <1>1
    <2> HIDE DEF valid
    <2> QED BY <1>3, <1>7, <1>8, <2>1
  <1>10. new \in Accs
    <2>1. new.out \in Seq(Nat)
      <3>1. LET w == WithSection(acc.out, acc.secStart, body) IN w \in Seq(Nat)
        BY <1>1, <1>6, WithSectionIs, ZenonT(30)
      <3> QED BY <1>9, <3>1
    <2>2. new.checksum \in Words
      BY <1>1, <1>6, <1>9, SumType, AddMod
    <2>3. new.fileSz \in Nat /\ new.secStart \in Nat /\ new.pos \in Nat
      BY <1>1, <1>2, <1>3, <1>4, SMTT(30)
    <2> QED BY <1>3, <2>1, <2>2, <2>3 DEF Accs
  <1>11. ASSUME acc.pos + acc.fileSz <= Len(e.words)
         PROVE  /\ \A j \in 1 .. l : j <= acc.fileSz => body[j] = e.words[acc.pos + j]
                /\ l <= acc.fileSz => new.pos = acc.pos + l
    <2>1. Len(data) = valid
      <3>1. Len(e.words) \in Nat
        OBVIOUS
      <3>2. acc.pos + valid <= Len(e.words)
        BY <1>1, <1>2, <1>11, <3>1
      <3> QED BY <1>4, <3>2
    <2>2. \A j \in 1 .. l : j <= acc.fileSz => j <= valid
      BY <1>1
    <2>3. \A j \in 1 .. l : j <= acc.fileSz => body[j] = e.words[acc.pos + j]
      <3> HIDE DEF valid
      <3>1. ASSUME NEW j \in 1 .. l, j <= acc.fileSz PROVE body[j] = e.words[acc.pos + j]
        <4>1. j <= Len(data) /\ j \in 1 .. Len(data)
          BY <1>4, <2>1, <2>2, <3>1
        <4> QED BY <1>4, <1>6, <4>1
      <3> QED BY <3>1
    <2>4. l <= acc.fileSz => valid = l
      BY <1>1
    <2> HIDE DEF valid
    <2>5. l <= acc.fileSz => new.pos = acc.pos + l
      BY <1>3, <2>1, <2>4
    <2> QED BY <2>3, <2>5
  <1>12. Copy(e, acc, l, new, body)
    BY <1>6, <1>9, <1>10, <1>11 DEF Copy
  <1> QED BY <1>12 DEF new

-----------------------------------------------------------------------------
(* The sections of a header.                                                *)

Start(acc, hdr, gap) ==
  [out |-> acc.out, checksum |-> acc.checksum, fileSz |-> hdr.filesize - gap,
   secStart |-> hdr.vaddr + gap, pos |-> hdr.offset + gap]

copyOne(e) == [p \in Accs \X (Nat \ {0}) |-> CopySection(e, p[1], p[2])]

\* The images a header goes through.
HeaderRun(run, e, acc, sizes, to) ==
  /\ run \in [0 .. Len(sizes) -> Accs] /\ run[0] = acc
  /\ \A k \in 1 .. Len(sizes) : run[k] = CopySection(e, run[k - 1], sizes[k])
  /\ to = run[Len(sizes)]

LEMMA CopyType ==
  ASSUME NEW e, e.words \in Seq(Words), NEW acc \in Accs, NEW l \in Nat \ {0}
  PROVE  CopySection(e, acc, l) \in Accs
  BY CopySectionIs DEF Copy

CopyAll(e, acc, s) == FoldLeft(LAMBDA a, loadSz : CopySection(e, a, loadSz), acc, s)

\* The loop over the sections of a header, turn by turn.
LEMMA HeaderTrace ==
  ASSUME NEW e, e.words \in Seq(Words), NEW acc \in Accs, NEW s \in Seq(Nat \ {0})
  PROVE  \E run : HeaderRun(run, e, acc, s, CopyAll(e, acc, s))
  <1> DEFINE n == Len(s)
             P == Nat \ {0}
             Eq(f) == f = [t \in SUBSET (1 .. n) |->
                             IF t = {} THEN acc ELSE CopySection(e, f[t \ {Max(t)}], s[Max(t)])]
             f == CHOOSE iter : Eq(iter)
             to == CopyAll(e, acc, s)
  <1>1. n \in Nat /\ DOMAIN s = 1 .. n /\ \A i \in 1 .. n : s[i] \in P
    OBVIOUS
  <1>2. to = f[1 .. n]
    BY <1>1 DEF CopyAll, FoldLeft, MapThenFoldSet
  <1> HIDE DEF to
  <1>3. Data(Accs, P, acc, copyOne(e), s)
    <2>1. \A p \in Accs \X P : CopySection(e, p[1], p[2]) \in Accs
      BY CopyType
    <2> HIDE DEF P
    <2>2. copyOne(e) \in [Accs \X P -> Accs]
      BY <2>1 DEF copyOne, P
    <2> QED BY <2>2 DEF Data, P
  <1> HIDE DEF P
  <1>4. Eq(f)
    <2>1. PICK g : Solution(g, Accs, P, acc, copyOne(e), s)
      BY <1>3, FoldExists
    <2>2. ASSUME NEW t \in SUBSET (1 .. n), t # {}
          PROVE  g[t] = CopySection(e, g[t \ {Max(t)}], s[Max(t)])
      <3>1. /\ t \ {Max(t)} \in SUBSET (1 .. n) /\ s[Max(t)] \in P
            /\ g[t] = copyOne(e)[<<g[t \ {Max(t)}], s[Max(t)]>>]
        BY <2>1, <2>2 DEF Solution
      <3>2. g[t \ {Max(t)}] \in Accs
        BY <2>1, <3>1 DEF Solution
      <3> HIDE DEF n
      <3> QED BY <3>1, <3>2 DEF copyOne, P
    <2>3. g \in [SUBSET (1 .. n) -> Accs] /\ g[{}] = acc
      BY <2>1 DEF Solution
    <2>4. Eq(g)
      <3> HIDE DEF n
      <3> QED BY <2>2, <2>3
    <2> HIDE DEF Eq
    <2> QED BY <2>4
  <1>5. Recursion(f, Accs, acc, copyOne(e), s)
    <2> HIDE DEF f
    <2>1. \A t \in SUBSET (1 .. n) : f[t] = IF t = {} THEN acc ELSE CopySection(e, f[t \ {Max(t)}], s[Max(t)])
      <3> HIDE DEF n
      <3> QED BY <1>4
    <2>2. ASSUME NEW t \in SUBSET (1 .. n), t # {} PROVE s[Max(t)] \in P
      <3> HIDE DEF n
      <3>1. Max(t) \in 1 .. n
        BY <1>1, <2>2, GreatestIn
      <3> QED BY <1>1, <3>1
    <2>3. ASSUME NEW t \in SUBSET (1 .. n), t # {}, f[t \ {Max(t)}] \in Accs
          PROVE  f[t] = copyOne(e)[<<f[t \ {Max(t)}], s[Max(t)]>>]
      <3> HIDE DEF n
      <3> QED BY <2>1, <2>2, <2>3 DEF copyOne, P
    <2> QED BY <2>1, <2>3 DEF Recursion
  <1>6. PICK run : Trace(run, Accs, P, acc, copyOne(e), s) /\ f[1 .. n] = run[n]
    <2> HIDE DEF f
    <2> QED BY <1>3, <1>5, FoldIsTrace
  <1>7. ASSUME NEW k \in 1 .. n PROVE run[k] = CopySection(e, run[k - 1], s[k])
    <2>1. k - 1 \in 0 .. n /\ s[k] \in P
      BY <1>1
    <2>2. run[k - 1] \in Accs /\ run[k] = copyOne(e)[<<run[k - 1], s[k]>>]
      BY <1>6, <2>1 DEF Trace
    <2> HIDE DEF n
    <2> QED BY <2>1, <2>2 DEF copyOne, P
  <1>8. HeaderRun(run, e, acc, s, to)
    <2> HIDE DEF f
    <2> QED BY <1>2, <1>6, <1>7 DEF Trace, HeaderRun
  <1> QED BY <1>8 DEF to

Retained(out, H, w, G) == \A a, v : Places(out, H, a, v) => Places(w, G, a, v)

LEMMA RetainedOn ==
  ASSUME NEW o1, NEW H1, NEW o2, NEW H2, NEW o3, NEW H3, Retained(o1, H1, o2, H2), Retained(o2, H2, o3, H3)
  PROVE  Retained(o1, H1, o3, H3)
  BY DEF Retained

\* After k sections of a header that starts at address v and has f words at
\* position p of the file.
Copied(acc, e, v, p, f, done, out, H, U, G, R) ==
  /\ acc.secStart = v + done
  /\ done <= f => acc.fileSz = f - done /\ acc.pos = p + done
  /\ Laid(acc.out, acc.checksum, G, R, U \cup (v .. v + done - 1))
  /\ Retained(out, H, acc.out, G)
  /\ \A i \in 0 .. f - 1 : i < done => Places(acc.out, G, v + i, e.words[p + i + 1])

\* One more section of the header: the words so far stay, those of the section are added.
LEMMA CopiedNext ==
  ASSUME NEW e, e.words \in Seq(Words), NEW acc \in Accs, NEW v \in Nat, NEW p \in Nat, NEW f \in Nat,
         NEW done \in Nat, NEW l \in Nat \ {0}, NEW out, NEW H, NEW U \in SUBSET Nat, NEW G, NEW R,
         Copied(acc, e, v, p, f, done, out, H, U, G, R), p + f <= Len(e.words),
         (v .. v + done + l - 1) \cap U = {}
  PROVE  \E G2, R2 : Copied(CopySection(e, acc, l), e, v, p, f, done + l, out, H, U, G2, R2)
  <1> DEFINE new == CopySection(e, acc, l)
             U1 == U \cup (v .. v + done - 1)
             U2 == U \cup (v .. v + (done + l) - 1)
             addr == acc.secStart
             total == new.checksum
             G2 == Extended(G, End(new.out))
             R2 == Summed(G, R, End(new.out), total)
  <1>1. PICK body : Copy(e, acc, l, new, body)
    BY CopySectionIs
  <1> HIDE DEF new
  <1>2. /\ body \in Seq(Words) /\ Len(body) = l /\ addr = v + done /\ addr \in Nat
        /\ new.out = WithSection(acc.out, addr, body)
        /\ total = (acc.checksum + WordSum(body)) % WordMod
        /\ Laid(acc.out, acc.checksum, G, R, U1)
    BY <1>1 DEF Copy, Copied
  <1>3. U2 \in SUBSET Nat /\ U1 \subseteq U2 /\ addr .. addr + Len(body) - 1 \subseteq U2 \ U1
    <2>1. addr .. addr + Len(body) - 1 = (v + done) .. (v + done + l - 1)
      BY <1>2
    <2>2. (v + done) .. (v + done + l - 1) \subseteq (v .. v + (done + l) - 1) \ (v .. v + done - 1)
      OBVIOUS
    <2>3. (v .. v + done - 1) \subseteq (v .. v + (done + l) - 1)
      OBVIOUS
    <2>4. (v .. v + (done + l) - 1) \subseteq Nat /\ v + (done + l) - 1 = v + done + l - 1
      OBVIOUS
    <2> QED BY <2>1, <2>2, <2>3, <2>4
  <1> HIDE DEF U1, U2, addr, total
  <1>4. Laid(new.out, total, G2, R2, U2)
    <2>1. LET w == WithSection(acc.out, addr, body)
              t == (acc.checksum + WordSum(body)) % WordMod
          IN  Laid(w, t, Extended(G, End(w)), Summed(G, R, End(w), t), U2)
      <3>1. Len(body) > 0
        BY <1>2
      <3> QED BY <1>2, <1>3, <3>1, SectionAdded
    <2> QED BY <1>2, <2>1
  <1>5. Retained(acc.out, G, new.out, G2)
    <2>1. ASSUME NEW a, NEW x, Places(acc.out, G, a, x) PROVE Places(new.out, G2, a, x)
      <3>1. LET w == WithSection(acc.out, addr, body) IN Places(w, Extended(G, End(w)), a, x)
        BY <1>2, <2>1, PlacesStay
      <3> QED BY <1>2, <3>1
    <2> QED BY <2>1 DEF Retained
  <1>6. ASSUME NEW a \in addr .. addr + l - 1
        PROVE  Places(new.out, G2, a, body[a - addr + 1])
    <2>1. LET w == WithSection(acc.out, addr, body) IN Places(w, Extended(G, End(w)), a, body[a - addr + 1])
      BY <1>2, PlacesNew
    <2> QED BY <1>2, <2>1
  <1>7. ASSUME NEW i \in 0 .. f - 1, i < done + l
        PROVE  Places(new.out, G2, v + i, e.words[p + i + 1])
    <2>1. CASE i < done
      BY <1>5, <2>1 DEF Retained, Copied
    <2>2. CASE i >= done
      <3> DEFINE j == i - done + 1
      <3>1. done <= f /\ acc.fileSz = f - done /\ acc.pos = p + done
        BY <2>2 DEF Copied
      <3>2. Len(e.words) \in Nat
        OBVIOUS
      <3>3. acc.pos + acc.fileSz <= Len(e.words) /\ j \in 1 .. l /\ j <= acc.fileSz
        BY <1>7, <2>2, <3>1, <3>2
      <3>4. body[j] = e.words[acc.pos + j] /\ acc.pos + j = p + i + 1
        BY <1>1, <3>1, <3>3, SMTT(30) DEF Copy
      <3>5. v + i \in addr .. addr + l - 1 /\ (v + i) - addr + 1 = j
        BY <1>2, <1>7, <2>2
      <3> HIDE DEF j
      <3> QED BY <1>6, <3>4, <3>5
    <2> QED BY <2>1, <2>2
  <1>8. new.secStart = v + (done + l)
    BY <1>1, <1>2 DEF Copy, addr
  <1>9. done + l <= f => new.fileSz = f - (done + l) /\ new.pos = p + (done + l)
    <2> SUFFICES ASSUME done + l <= f PROVE new.fileSz = f - (done + l) /\ new.pos = p + (done + l)
      OBVIOUS
    <2>1. acc.fileSz = f - done /\ acc.pos = p + done /\ Len(e.words) \in Nat
      BY DEF Copied
    <2>2. l <= acc.fileSz /\ acc.pos + acc.fileSz <= Len(e.words)
      BY <2>1
    <2>3. new.fileSz = acc.fileSz - l /\ new.pos = acc.pos + l
      BY <1>1, <2>2 DEF Copy
    <2> QED BY <2>1, <2>3
  <1>10. Retained(out, H, new.out, G2)
    BY <1>5, RetainedOn DEF Copied
  <1>11. Copied(new, e, v, p, f, done + l, out, H, U, G2, R2)
    <2> HIDE DEF G2, R2
    <2> QED BY <1>4, <1>7, <1>8, <1>9, <1>10 DEF Copied, total, U2
  <1> QED BY <1>11 DEF new

\* The addresses of a layout may be more than those its sections take.
LEMMA LaidWider ==
  ASSUME NEW out, NEW sum, NEW H, NEW S, NEW U, NEW V \in SUBSET Nat, Laid(out, sum, H, S, U), U \subseteq V
  PROVE  Laid(out, sum, H, S, V)
  <1>1. \A q \in H \ {End(out)} : SectionAt(out, H, S, V, q)
    <2>1. \A q \in H \ {End(out)} : SectionAt(out, H, S, U, q)
      BY DEF Laid
    <2> QED BY <2>1 DEF SectionAt
  <1> QED BY <1>1 DEF Laid

Fits(hdr) == hdr.filesize <= hdr.memsize
Usable == {hdr \in Headers : Fits(hdr)}

LEMMA GapIs ==
  ASSUME NEW hdr \in Usable, NEW v \in BOOLEAN, ~Skipped(hdr, v)
  PROVE  /\ hdr.load /\ Gap(hdr, v) \in Nat /\ Gap(hdr, v) <= hdr.filesize
         /\ hdr.filesize <= hdr.memsize
         /\ hdr.vaddr \in Nat /\ hdr.offset \in Nat /\ hdr.filesize \in Nat /\ hdr.memsize \in Nat
  <1>1. hdr.vaddr \in Nat /\ hdr.offset \in Nat /\ hdr.filesize \in Nat /\ hdr.memsize \in Nat
    BY DEF Usable, Headers
  <1>2. Gap(hdr, v) \in Nat
    BY <1>1, ImageAssumption DEF Gap
  <1> QED BY <1>1, <1>2 DEF Usable, Fits, Skipped

\* A header that is loaded goes through its sections.
LEMMA HeaderSections ==
  ASSUME NEW e, e.words \in Seq(Words), NEW acc \in Accs, NEW hdr \in Usable, NEW v \in BOOLEAN,
         NEW size \in Nat \ {0}, ~Skipped(hdr, v)
  PROVE  /\ Start(acc, hdr, Gap(hdr, v)) \in Accs
         /\ hdr.memsize - Gap(hdr, v) \in Nat
         /\ \E run : HeaderRun(run, e, Start(acc, hdr, Gap(hdr, v)), SectionSizes(hdr.memsize - Gap(hdr, v), size),
                          ProcessProgHeader(e, size, v, acc, hdr))
  <1> DEFINE gap == Gap(hdr, v)
             start == Start(acc, hdr, gap)
             s == SectionSizes(hdr.memsize - gap, size)
             to == CopyAll(e, start, s)
  <1>1. /\ gap \in Nat /\ gap <= hdr.filesize /\ hdr.filesize <= hdr.memsize
        /\ hdr.vaddr \in Nat /\ hdr.offset \in Nat /\ hdr.filesize \in Nat /\ hdr.memsize \in Nat
    BY GapIs
  <1>2. ProcessProgHeader(e, size, v, acc, hdr) = to
    BY DEF ProcessProgHeader, Start, CopyAll
  <1> HIDE DEF gap
  <1>3. start \in Accs
    <2>1. acc.out \in Seq(Nat) /\ acc.checksum \in Words
      BY DEF Accs
    <2>2. start = [out |-> acc.out, checksum |-> acc.checksum, fileSz |-> hdr.filesize - gap,
                   secStart |-> hdr.vaddr + gap, pos |-> hdr.offset + gap]
      BY DEF Start
    <2>3. hdr.filesize - gap \in Nat /\ hdr.vaddr + gap \in Nat /\ hdr.offset + gap \in Nat
      BY <1>1
    <2> HIDE DEF start
    <2> QED BY <2>1, <2>2, <2>3 DEF Accs
  <1>4. hdr.memsize - gap \in Nat
    BY <1>1
  <1> HIDE DEF start
  <1>5. s \in Seq(Nat \ {0})
    <2>1. LET q == SectionSizes(hdr.memsize - gap, size) IN q \in Seq(Nat \ {0})
      BY <1>4, SizesAre, ZenonT(30)
    <2> QED BY <2>1
  <1> HIDE DEF s
  <1>6. \E run : HeaderRun(run, e, start, s, to)
    BY <1>3, <1>5, HeaderTrace
  <1> HIDE DEF to
  <1> QED BY <1>2, <1>3, <1>4, <1>6 DEF start, s, gap

\* Copying a header keeps the types.
LEMMA HeaderType ==
  ASSUME NEW e, e.words \in Seq(Words), NEW acc \in Accs, NEW hdr \in Usable, NEW v \in BOOLEAN,
         NEW size \in Nat \ {0}
  PROVE  ProcessProgHeader(e, size, v, acc, hdr) \in Accs
  <1>1. CASE Skipped(hdr, v)
    BY <1>1 DEF ProcessProgHeader
  <1>2. CASE ~Skipped(hdr, v)
    <2> DEFINE m == hdr.memsize - Gap(hdr, v)
               s == SectionSizes(m, size)
    <2>1. PICK run : HeaderRun(run, e, Start(acc, hdr, Gap(hdr, v)), s, ProcessProgHeader(e, size, v, acc, hdr))
      BY <1>2, HeaderSections
    <2>2. m \in Nat
      BY <1>2, HeaderSections
    <2> HIDE DEF m
    <2>3. Len(s) \in Nat
      <3>1. LET q == SectionSizes(m, size) IN Len(q) \in Nat
        BY <2>2, SizesAre, ZenonT(30)
      <3> QED BY <3>1
    <2> HIDE DEF s
    <2> QED BY <2>1, <2>3 DEF HeaderRun
  <1> QED BY <1>1, <1>2

\* A header is laid out: sections for all of its memory, with its words of the file.
LEMMA HeaderLaid ==
  ASSUME NEW e, e.words \in Seq(Words), NEW acc \in Accs, NEW hdr \in Usable, NEW v \in BOOLEAN,
         NEW size \in Nat \ {0}, ~Skipped(hdr, v), hdr.offset + hdr.filesize <= Len(e.words),
         NEW H, NEW S, NEW U \in SUBSET Nat, Laid(acc.out, acc.checksum, H, S, U), Memory(hdr) \cap U = {}
  PROVE  LET new == ProcessProgHeader(e, size, v, acc, hdr)
             gap == Gap(hdr, v)
         IN  \E G, R :
               /\ Laid(new.out, new.checksum, G, R, U \cup Memory(hdr))
               /\ Retained(acc.out, H, new.out, G)
               /\ \A i \in 0 .. hdr.filesize - gap - 1 :
                    Places(new.out, G, hdr.vaddr + gap + i, e.words[hdr.offset + gap + i + 1])
  <1> DEFINE gap == Gap(hdr, v)
             new == ProcessProgHeader(e, size, v, acc, hdr)
             va == hdr.vaddr + gap
             p == hdr.offset + gap
             f == hdr.filesize - gap
             m == hdr.memsize - gap
             s == SectionSizes(m, size)
             n == Len(s)
             start == Start(acc, hdr, gap)
             to(k) == Ends(m, size, k)
  <1>1. /\ gap \in Nat /\ gap <= hdr.filesize /\ hdr.filesize <= hdr.memsize /\ hdr.load
        /\ hdr.vaddr \in Nat /\ hdr.offset \in Nat /\ hdr.filesize \in Nat /\ hdr.memsize \in Nat
    BY GapIs
  <1> HIDE DEF gap
  <1>2. /\ va \in Nat /\ p \in Nat /\ f \in Nat /\ m \in Nat /\ f <= m /\ p + f <= Len(e.words)
        /\ va .. va + m - 1 \subseteq Memory(hdr)
    <2>1. p + f = hdr.offset + hdr.filesize
      BY <1>1
    <2>2. va .. va + m - 1 \subseteq hdr.vaddr .. hdr.vaddr + hdr.memsize - 1
      BY <1>1
    <2>3. Memory(hdr) = hdr.vaddr .. hdr.vaddr + hdr.memsize - 1
      BY <1>1 DEF Memory
    <2>4. va \in Nat /\ p \in Nat /\ f \in Nat /\ m \in Nat /\ f <= m
      BY <1>1, SMTT(30)
    <2> HIDE DEF va, p, f, m
    <2> QED BY <2>1, <2>2, <2>3, <2>4
  <1>3. PICK run : HeaderRun(run, e, start, s, new)
    BY HeaderSections DEF gap
  <1>4. /\ start.fileSz = f /\ start.secStart = va /\ start.pos = p
        /\ start.out = acc.out /\ start.checksum = acc.checksum
    BY DEF Start, Accs
  <1> HIDE DEF va, p, f, m, start, new
  <1>5. /\ s \in Seq(Nat \ {0}) /\ n \in Nat /\ to(0) = 0 /\ to(n) = m
        /\ \A k \in 0 .. n : to(k) \in 0 .. m
        /\ \A k \in 1 .. n : to(k) = to(k - 1) + s[k]
    <2>1. LET q == SectionSizes(m, size)
          IN  /\ q \in Seq(Nat \ {0}) /\ Len(q) \in Nat
              /\ Ends(m, size, 0) = 0 /\ Ends(m, size, Len(q)) = m
              /\ \A k \in 0 .. Len(q) : Ends(m, size, k) \in 0 .. m
              /\ \A k \in 1 .. Len(q) : Ends(m, size, k) = Ends(m, size, k - 1) + q[k]
      BY <1>2, SizesAre
    <2> QED BY <2>1
  <1>6. s \in Seq(Nat \ {0}) /\ \A k \in 1 .. n : s[k] \in Nat \ {0}
    BY <1>5
  <1> HIDE DEF s, to
  <1>7. run \in [0 .. n -> Accs] /\ run[0] = start /\ new = run[n]
        /\ \A k \in 1 .. n : run[k] = CopySection(e, run[k - 1], s[k])
    BY <1>3 DEF HeaderRun
  <1> DEFINE T == {k \in 0 .. n : \E G, R : Copied(run[k], e, va, p, f, to(k), acc.out, H, U, G, R)}
  <1>8. 0 \in T
    <2>1. U \cup (va .. va + to(0) - 1) = U
      BY <1>2, <1>5
    <2>2. Laid(run[0].out, run[0].checksum, H, S, U \cup (va .. va + to(0) - 1))
      BY <1>4, <1>7, <2>1
    <2>3. Retained(acc.out, H, run[0].out, H)
      BY <1>4, <1>7 DEF Retained
    <2>4. run[0].secStart = va + to(0) /\ (to(0) <= f => run[0].fileSz = f - to(0) /\ run[0].pos = p + to(0))
      BY <1>2, <1>4, <1>5, <1>7
    <2>5. \A i \in 0 .. f - 1 : ~(i < to(0))
      BY <1>2, <1>5
    <2>6. Copied(run[0], e, va, p, f, to(0), acc.out, H, U, H, S)
      BY <2>2, <2>3, <2>4, <2>5 DEF Copied
    <2> QED BY <1>5, <2>6
  <1>9. ASSUME NEW k \in 0 .. n - 1, k \in T PROVE k + 1 \in T
    <2>1. PICK G, R : Copied(run[k], e, va, p, f, to(k), acc.out, H, U, G, R)
      BY <1>9
    <2>2. k + 1 \in 1 .. n /\ (k + 1) - 1 = k /\ k \in 0 .. n /\ k + 1 \in 0 .. n
      BY <1>5
    <2>3. s[k + 1] \in Nat \ {0} /\ to(k) \in Nat /\ to(k + 1) = to(k) + s[k + 1] /\ to(k + 1) <= m
      BY <1>2, <1>5, <1>6, <2>2
    <2>4. run[k] \in Accs /\ run[k + 1] = CopySection(e, run[k], s[k + 1])
      BY <1>7, <2>2
    <2>5. (va .. va + to(k) + s[k + 1] - 1) \cap U = {}
      <3>1. va .. va + to(k) + s[k + 1] - 1 \subseteq va .. va + m - 1
        BY <1>2, <2>3
      <3> QED BY <1>2, <3>1
    <2>6. \E G2, R2 : Copied(CopySection(e, run[k], s[k + 1]), e, va, p, f, to(k) + s[k + 1], acc.out, H, U, G2, R2)
      BY <1>2, <2>1, <2>3, <2>4, <2>5, CopiedNext
    <2> QED BY <2>2, <2>3, <2>4, <2>6
  <1>10. 0 .. n \subseteq T
    <2> HIDE DEF T, n
    <2> QED BY <1>5, <1>8, <1>9, UpTo
  <1>11. PICK G, R : Copied(new, e, va, p, f, m, acc.out, H, U, G, R)
    BY <1>5, <1>7, <1>10
  <1>12. Laid(new.out, new.checksum, G, R, U \cup Memory(hdr))
    <2>1. Memory(hdr) \subseteq Nat
      BY <1>1 DEF Memory
    <2>2. U \cup (va .. va + m - 1) \subseteq U \cup Memory(hdr) /\ U \cup Memory(hdr) \in SUBSET Nat
      BY <1>2, <2>1
    <2> QED BY <1>11, <2>2, LaidWider DEF Copied
  <1>13. ASSUME NEW i \in 0 .. f - 1 PROVE Places(new.out, G, va + i, e.words[p + i + 1])
    <2>1. i < m
      BY <1>2
    <2> QED BY <1>11, <2>1 DEF Copied
  <1>14. Retained(acc.out, H, new.out, G)
    BY <1>11 DEF Copied
  <1> QED BY <1>12, <1>13, <1>14 DEF new, gap, va, p, f

-----------------------------------------------------------------------------
(* The headers of a program.                                                *)

Empty == [out |-> <<0>>, checksum |-> 0, fileSz |-> 0, secStart |-> 0, pos |-> 0]

addHeader(e, size, v) == [p \in Accs \X Usable |-> ProcessProgHeader(e, size, v, p[1], p[2])]

ProgramRun(run, e, size, v, to) ==
  /\ run \in [0 .. Len(e.headers) -> Accs] /\ run[0] = Empty
  /\ \A k \in 1 .. Len(e.headers) : run[k] = ProcessProgHeader(e, size, v, run[k - 1], e.headers[k])
  /\ to = run[Len(e.headers)]

LEMMA EmptyType == Empty \in Accs
  <1>1. <<0>> \in Seq(Nat) /\ 0 \in Words
    BY ImageAssumption DEF Words
  <1> QED BY <1>1 DEF Empty, Accs

\* The loop over the headers, turn by turn (elf2img.c 390-400).
LEMMA ProgramTrace ==
  ASSUME NEW e, e.words \in Seq(Words), e.headers \in Seq(Usable), NEW c, NEW v \in BOOLEAN,
         I2cDeviceSizes(c) \in Nat \ {0}
  PROVE  \E run : ProgramRun(run, e, I2cDeviceSizes(c), v, Sections(e, c, v))
  <1> DEFINE s == e.headers
             n == Len(s)
             size == I2cDeviceSizes(c)
             op == addHeader(e, size, v)
             Eq(f) == f = [t \in SUBSET (1 .. n) |->
                             IF t = {} THEN Empty
                             ELSE ProcessProgHeader(e, size, v, f[t \ {Max(t)}], s[Max(t)])]
             f == CHOOSE iter : Eq(iter)
             to == Sections(e, c, v)
  <1>1. n \in Nat /\ DOMAIN s = 1 .. n /\ \A i \in 1 .. n : s[i] \in Usable
    OBVIOUS
  <1>2. to = f[1 .. n]
    BY <1>1 DEF Sections, FoldLeft, MapThenFoldSet, Empty
  <1> HIDE DEF to, size
  <1>3. Data(Accs, Usable, Empty, op, s)
    <2>1. \A p \in Accs \X Usable : ProcessProgHeader(e, size, v, p[1], p[2]) \in Accs
      BY HeaderType DEF size
    <2>2. op \in [Accs \X Usable -> Accs]
      BY <2>1 DEF addHeader
    <2> HIDE DEF op
    <2> QED BY <2>2, EmptyType DEF Data
  <1>4. Eq(f)
    <2> HIDE DEF op
    <2>1. PICK g : Solution(g, Accs, Usable, Empty, op, s)
      BY <1>3, FoldExists
    <2>2. ASSUME NEW t \in SUBSET (1 .. n), t # {}
          PROVE  g[t] = ProcessProgHeader(e, size, v, g[t \ {Max(t)}], s[Max(t)])
      <3>1. /\ t \ {Max(t)} \in SUBSET (1 .. n) /\ s[Max(t)] \in Usable
            /\ g[t] = op[<<g[t \ {Max(t)}], s[Max(t)]>>]
        BY <2>1, <2>2 DEF Solution
      <3>2. g[t \ {Max(t)}] \in Accs
        BY <2>1, <3>1 DEF Solution
      <3> HIDE DEF n
      <3> QED BY <3>1, <3>2 DEF op, addHeader
    <2>3. g \in [SUBSET (1 .. n) -> Accs] /\ g[{}] = Empty
      BY <2>1 DEF Solution
    <2>4. Eq(g)
      <3> HIDE DEF n
      <3> QED BY <2>2, <2>3
    <2> HIDE DEF Eq
    <2> QED BY <2>4
  <1>5. Recursion(f, Accs, Empty, op, s)
    <2> HIDE DEF f
    <2>1. \A t \in SUBSET (1 .. n) : f[t] = IF t = {} THEN Empty
                                            ELSE ProcessProgHeader(e, size, v, f[t \ {Max(t)}], s[Max(t)])
      <3> HIDE DEF n
      <3> QED BY <1>4
    <2>2. ASSUME NEW t \in SUBSET (1 .. n), t # {} PROVE s[Max(t)] \in Usable
      <3> HIDE DEF n
      <3>1. Max(t) \in 1 .. n
        BY <1>1, <2>2, GreatestIn
      <3> QED BY <1>1, <3>1
    <2>3. ASSUME NEW t \in SUBSET (1 .. n), t # {}, f[t \ {Max(t)}] \in Accs
          PROVE  f[t] = op[<<f[t \ {Max(t)}], s[Max(t)]>>]
      <3> HIDE DEF n
      <3> QED BY <2>1, <2>2, <2>3 DEF addHeader
    <2> HIDE DEF op
    <2> QED BY <2>1, <2>3 DEF Recursion
  <1>6. PICK run : Trace(run, Accs, Usable, Empty, op, s) /\ f[1 .. n] = run[n]
    <2> HIDE DEF f, op
    <2> QED BY <1>3, <1>5, FoldIsTrace
  <1>7. ASSUME NEW k \in 1 .. n PROVE run[k] = ProcessProgHeader(e, size, v, run[k - 1], s[k])
    <2>1. k - 1 \in 0 .. n /\ s[k] \in Usable
      BY <1>1
    <2> HIDE DEF op
    <2>2. run[k - 1] \in Accs /\ run[k] = op[<<run[k - 1], s[k]>>]
      BY <1>6, <2>1 DEF Trace
    <2> HIDE DEF n
    <2> QED BY <2>1, <2>2 DEF op, addHeader
  <1>8. ProgramRun(run, e, size, v, to)
    <2> HIDE DEF f, op
    <2> QED BY <1>2, <1>6, <1>7 DEF Trace, ProgramRun
  <1> QED BY <1>8 DEF to, size

\* The words of header i that are to be loaded are in the image.
Placed(e, v, i, out, G) ==
  LET hdr == e.headers[i]
  IN  hdr.load => \A a \in hdr.vaddr .. hdr.vaddr + hdr.filesize - 1 :
        v \/ a >= VectorEnd => Places(out, G, a, e.words[hdr.offset + (a - hdr.vaddr) + 1])

LEMMA PlacedKept ==
  ASSUME NEW e, NEW v, NEW i, NEW out, NEW H, NEW w, NEW G, Placed(e, v, i, out, H), Retained(out, H, w, G)
  PROVE  Placed(e, v, i, w, G)
  BY DEF Placed, Retained

LEMMA SizeOf == ASSUME NEW c \in Codes PROVE I2cDeviceSizes(c) \in Nat \ {0}
  <1>1. c \in 0 .. 7 /\ EepromSize(c) > 0 /\ SlaveWords \in Nat \ {0}
    BY LoaderAssumption, ImageAssumption
  <1>2. c # 7 => EepromSize(c) = I2cDeviceSizes(c)
    BY DEF EepromSize
  <1>3. \A d \in {64, 32, 16, 8, 4, 2, 1} : SlaveWords \div d \in Nat
    BY <1>1
  <1>4. \E d \in {64, 32, 16, 8, 4, 2, 1} : I2cDeviceSizes(c) = SlaveWords \div d
    BY <1>1 DEF I2cDeviceSizes
  <1>5. c = 7 => I2cDeviceSizes(c) = SlaveWords
    BY <1>1 DEF I2cDeviceSizes
  <1>6. I2cDeviceSizes(c) \in Nat
    BY <1>3, <1>4
  <1> QED BY <1>1, <1>2, <1>5, <1>6

LEMMA ProgramIs ==
  ASSUME NEW e \in Elfs
  PROVE  /\ e.words \in Seq(Words) /\ e.entry \in Words /\ e.headers \in Seq(Usable)
         /\ \A i \in 1 .. Len(e.headers) :
              /\ e.headers[i] \in Usable
              /\ e.headers[i].offset + e.headers[i].filesize <= Len(e.words)
              /\ Memory(e.headers[i]) \subseteq 0 .. MemWords - 1
              /\ \A j \in 1 .. Len(e.headers) :
                   i # j => Memory(e.headers[i]) \cap Memory(e.headers[j]) = {}
  <1>1. Linked(e)
    BY ProgramAssumption
  <1>2. e.headers \in Seq(Headers) /\ DOMAIN e.headers = 1 .. Len(e.headers) /\ Len(e.headers) \in Nat
    BY <1>1 DEF Linked
  <1>3. \A i \in 1 .. Len(e.headers) : e.headers[i] \in Usable
    <2>1. \A i \in 1 .. Len(e.headers) : e.headers[i] \in Headers
      BY <1>2
    <2> QED BY <1>1, <1>2, <2>1 DEF Linked, Usable, Fits
  <1>4. e.headers \in Seq(Usable)
    <2>1. e.headers = [i \in 1 .. Len(e.headers) |-> e.headers[i]]
      BY <1>2
    <2> QED BY <1>2, <1>3, <2>1
  <1> QED BY <1>1, <1>2, <1>3, <1>4 DEF Linked, Words

MemoryTo(e, k) == UNION {Memory(e.headers[i]) : i \in 1 .. k}

LEMMA MemoryToNext ==
  ASSUME NEW e, NEW k \in Nat
  PROVE  MemoryTo(e, k + 1) = MemoryTo(e, k) \cup Memory(e.headers[k + 1])
  <1>1. 1 .. k + 1 = (1 .. k) \cup {k + 1}
    OBVIOUS
  <1> QED BY <1>1 DEF MemoryTo

\* One header more.
LEMMA HeaderAdded ==
  ASSUME NEW e \in Elfs, NEW v \in BOOLEAN, NEW size \in Nat \ {0}, NEW acc \in Accs,
         NEW k \in 0 .. Len(e.headers) - 1, NEW H, NEW S,
         Laid(acc.out, acc.checksum, H, S, MemoryTo(e, k)),
         \A i \in 1 .. k : Placed(e, v, i, acc.out, H)
  PROVE  LET new == ProcessProgHeader(e, size, v, acc, e.headers[k + 1])
         IN  \E G, R : /\ Laid(new.out, new.checksum, G, R, MemoryTo(e, k + 1))
                       /\ \A i \in 1 .. k + 1 : Placed(e, v, i, new.out, G)
  <1> DEFINE hdr == e.headers[k + 1]
             new == ProcessProgHeader(e, size, v, acc, hdr)
             U == MemoryTo(e, k)
  <1>1. k + 1 \in 1 .. Len(e.headers) /\ k \in Nat
    OBVIOUS
  <1>2. /\ e.words \in Seq(Words) /\ hdr \in Usable /\ hdr.offset + hdr.filesize <= Len(e.words)
        /\ Memory(hdr) \subseteq 0 .. MemWords - 1
        /\ \A j \in 1 .. Len(e.headers) : k + 1 # j => Memory(hdr) \cap Memory(e.headers[j]) = {}
    BY <1>1, ProgramIs
  <1>3. U \in SUBSET Nat /\ MemoryTo(e, k + 1) = U \cup Memory(hdr)
        /\ U \cup Memory(hdr) \in SUBSET Nat
    <2>1. \A i \in 1 .. k : i \in 1 .. Len(e.headers)
      BY <1>1
    <2>2. \A i \in 1 .. k : Memory(e.headers[i]) \subseteq Nat
      BY <2>1, ProgramIs
    <2>3. Memory(hdr) \subseteq Nat
      BY <1>2
    <2> HIDE DEF hdr
    <2> QED BY <1>1, <2>2, <2>3, MemoryToNext DEF MemoryTo, hdr
  <1>4. Memory(hdr) \cap U = {}
    <2>1. \A i \in 1 .. k : i \in 1 .. Len(e.headers) /\ k + 1 # i
      BY <1>1
    <2>2. \A i \in 1 .. k : Memory(hdr) \cap Memory(e.headers[i]) = {}
      BY <1>2, <2>1
    <2> HIDE DEF hdr
    <2> QED BY <2>2 DEF MemoryTo
  <1>5. \A i \in 1 .. k + 1 : i \in 1 .. k \/ i = k + 1
    BY <1>1
  <1> HIDE DEF U
  <1>6. CASE Skipped(hdr, v)
    <2>1. new = acc
      BY <1>6 DEF ProcessProgHeader
    <2>2. Laid(new.out, new.checksum, H, S, MemoryTo(e, k + 1))
      BY <1>3, <2>1, LaidWider DEF U
    <2>3. Placed(e, v, k + 1, new.out, H)
      <3> SUFFICES ASSUME hdr.load, NEW a \in hdr.vaddr .. hdr.vaddr + hdr.filesize - 1, v \/ a >= VectorEnd
                   PROVE  FALSE
        BY DEF Placed
      <3>1. Gap(hdr, v) > 0 /\ hdr.filesize <= Gap(hdr, v)
        BY <1>6 DEF Skipped
      <3>2. hdr.vaddr \in Nat /\ hdr.filesize \in Nat /\ VectorEnd \in Nat
        BY <1>2, ImageAssumption DEF Usable, Headers
      <3>3. Gap(hdr, v) = VectorEnd - hdr.vaddr /\ ~v
        BY <3>1 DEF Gap
      <3> HIDE DEF hdr
      <3> QED BY <3>1, <3>2, <3>3
    <2>4. \A i \in 1 .. k + 1 : Placed(e, v, i, new.out, H)
      BY <1>5, <2>1, <2>3
    <2> QED BY <2>2, <2>4
  <1>7. CASE ~Skipped(hdr, v)
    <2> DEFINE gap == Gap(hdr, v)
    <2>1. \E G, R :
            /\ Laid(new.out, new.checksum, G, R, U \cup Memory(hdr))
            /\ Retained(acc.out, H, new.out, G)
            /\ \A i \in 0 .. hdr.filesize - gap - 1 :
                 Places(new.out, G, hdr.vaddr + gap + i, e.words[hdr.offset + gap + i + 1])
      <3> HIDE DEF hdr
      <3> QED BY <1>2, <1>3, <1>4, <1>7, HeaderLaid DEF U
    <2>2. PICK G, R :
            /\ Laid(new.out, new.checksum, G, R, U \cup Memory(hdr))
            /\ Retained(acc.out, H, new.out, G)
            /\ \A i \in 0 .. hdr.filesize - gap - 1 :
                 Places(new.out, G, hdr.vaddr + gap + i, e.words[hdr.offset + gap + i + 1])
      BY <2>1
    <2>3. Placed(e, v, k + 1, new.out, G)
      <3> SUFFICES ASSUME NEW a \in hdr.vaddr .. hdr.vaddr + hdr.filesize - 1, v \/ a >= VectorEnd
                   PROVE  Places(new.out, G, a, e.words[hdr.offset + (a - hdr.vaddr) + 1])
        BY DEF Placed
      <3>1. /\ hdr.vaddr \in Nat /\ hdr.filesize \in Nat /\ hdr.offset \in Nat /\ gap \in Nat
            /\ VectorEnd \in Nat
        BY <1>2, <1>7, GapIs, ImageAssumption
      <3>2. gap = IF hdr.vaddr < VectorEnd /\ ~v THEN VectorEnd - hdr.vaddr ELSE 0
        BY DEF Gap
      <3> HIDE DEF gap, hdr, new
      <3>3. a >= hdr.vaddr + gap
        BY <3>1, <3>2
      <3> DEFINE i == a - hdr.vaddr - gap
      <3>4. /\ i \in 0 .. hdr.filesize - gap - 1 /\ hdr.vaddr + gap + i = a
            /\ hdr.offset + gap + i + 1 = hdr.offset + (a - hdr.vaddr) + 1
        <4>1. \A x, y, z, o, g \in Nat :
                y <= x /\ x <= y + z - 1 /\ x >= y + g =>
                  /\ x - y - g \in 0 .. z - g - 1 /\ y + g + (x - y - g) = x
                  /\ o + g + (x - y - g) + 1 = o + (x - y) + 1
          OBVIOUS
        <4>2. a \in Nat /\ hdr.vaddr <= a /\ a <= hdr.vaddr + hdr.filesize - 1
          BY <3>1
        <4>3. a <= hdr.vaddr + hdr.filesize - 1 /\ a >= hdr.vaddr + gap
          BY <3>3, <4>2
        <4> DEFINE x == hdr.vaddr
                   y == hdr.filesize
                   o == hdr.offset
        <4>4. x \in Nat /\ y \in Nat /\ o \in Nat /\ gap \in Nat /\ a \in Nat
              /\ x <= a /\ a <= x + y - 1 /\ a >= x + gap
          BY <3>1, <4>2, <4>3
        <4> HIDE DEF x, y, o
        <4>5. /\ a - x - gap \in 0 .. y - gap - 1 /\ x + gap + (a - x - gap) = a
              /\ o + gap + (a - x - gap) + 1 = o + (a - x) + 1
          BY <4>1, <4>4
        <4> QED BY <4>5 DEF x, y, o
      <3> HIDE DEF i
      <3>5. Places(new.out, G, hdr.vaddr + gap + i, e.words[hdr.offset + gap + i + 1])
        BY <2>2, <3>4
      <3> QED BY <3>4, <3>5
    <2>4. \A i \in 1 .. k : Placed(e, v, i, new.out, G)
      <3> HIDE DEF new
      <3> QED BY <2>2, PlacedKept
    <2>5. \A i \in 1 .. k + 1 : Placed(e, v, i, new.out, G)
      BY <1>5, <2>3, <2>4
    <2> QED BY <1>3, <2>2, <2>5
  <1> QED BY <1>6, <1>7

\* The converter lays out the sections of a program one behind the other, each
\* with its own addresses, and every word that is to be loaded is in one of them.
LEMMA SectionsLaid ==
  ASSUME NEW e \in Elfs, NEW c \in Codes, NEW v \in BOOLEAN
  PROVE  LET done == Sections(e, c, v)
         IN  /\ done \in Accs
             /\ \E H, S : /\ Laid(done.out, done.checksum, H, S, 0 .. MemWords - 1)
                          /\ \A i \in 1 .. Len(e.headers) : Placed(e, v, i, done.out, H)
  <1> DEFINE done == Sections(e, c, v)
             size == I2cDeviceSizes(c)
             n == Len(e.headers)
  <1>1. e.words \in Seq(Words) /\ e.headers \in Seq(Usable) /\ n \in Nat
    BY ProgramIs
  <1>2. size \in Nat \ {0}
    BY SizeOf
  <1>3. PICK run : ProgramRun(run, e, size, v, done)
    BY <1>1, <1>2, ProgramTrace
  <1> HIDE DEF size, done
  <1>4. run \in [0 .. n -> Accs] /\ run[0] = Empty /\ done = run[n]
        /\ \A k \in 1 .. n : run[k] = ProcessProgHeader(e, size, v, run[k - 1], e.headers[k])
    BY <1>3 DEF ProgramRun
  <1> DEFINE T == {k \in 0 .. n : \E H, S : /\ Laid(run[k].out, run[k].checksum, H, S, MemoryTo(e, k))
                                            /\ \A i \in 1 .. k : Placed(e, v, i, run[k].out, H)}
  <1>5. 0 \in T
    <2> DEFINE S0 == [q \in {2} |-> 0]
    <2>1. Empty.out = <<0>> /\ Empty.checksum = 0 /\ <<0>> \in Seq(Nat) /\ Len(<<0>>) = 1 /\ 0 \in Words
      BY ImageAssumption DEF Empty, Words
    <2>2. End(<<0>>) = 2 /\ S0[2] = 0 /\ {2} \subseteq 2 .. 2 /\ {2} \ {2} = {} /\ 2 .. 1 = {}
      BY <2>1 DEF End
    <2>3. Laid(<<0>>, 0, {2}, S0, {})
      <3> HIDE DEF S0
      <3>1. \A q, r \in {2} : ~(q < r)
        OBVIOUS
      <3> QED BY <2>1, <2>2, <3>1 DEF Laid
    <2>4. MemoryTo(e, 0) = {}
      BY DEF MemoryTo
    <2> HIDE DEF S0
    <2>5. Laid(run[0].out, run[0].checksum, {2}, S0, MemoryTo(e, 0))
      BY <1>4, <2>1, <2>3, <2>4
    <2>6. \A i \in 1 .. 0 : Placed(e, v, i, run[0].out, {2})
      OBVIOUS
    <2> QED BY <1>1, <2>5, <2>6
  <1>6. ASSUME NEW k \in 0 .. n - 1, k \in T PROVE k + 1 \in T
    <2>1. k \in 0 .. n /\ k + 1 \in 1 .. n /\ (k + 1) - 1 = k /\ k + 1 \in 0 .. n
      BY <1>1
    <2>2. run[k] \in Accs /\ run[k + 1] = ProcessProgHeader(e, size, v, run[k], e.headers[k + 1])
      BY <1>4, <2>1
    <2>3. PICK H, S : /\ Laid(run[k].out, run[k].checksum, H, S, MemoryTo(e, k))
                      /\ \A i \in 1 .. k : Placed(e, v, i, run[k].out, H)
      BY <1>6
    <2>4. \E G, R : /\ Laid(run[k + 1].out, run[k + 1].checksum, G, R, MemoryTo(e, k + 1))
                    /\ \A i \in 1 .. k + 1 : Placed(e, v, i, run[k + 1].out, G)
      <3> HIDE DEF T
      <3>1. LET new == ProcessProgHeader(e, size, v, run[k], e.headers[k + 1])
            IN  \E G, R : /\ Laid(new.out, new.checksum, G, R, MemoryTo(e, k + 1))
                          /\ \A i \in 1 .. k + 1 : Placed(e, v, i, new.out, G)
        BY <1>2, <2>2, <2>3, HeaderAdded
      <3> QED BY <2>2, <3>1
    <2> QED BY <2>1, <2>4
  <1>7. 0 .. n \subseteq T
    <2> HIDE DEF T, n
    <2> QED BY <1>1, <1>5, <1>6, UpTo
  <1>8. PICK H, S : /\ Laid(done.out, done.checksum, H, S, MemoryTo(e, n))
                    /\ \A i \in 1 .. n : Placed(e, v, i, done.out, H)
    BY <1>1, <1>4, <1>7
  <1>9. MemoryTo(e, n) \subseteq 0 .. MemWords - 1 /\ 0 .. MemWords - 1 \in SUBSET Nat
    BY ProgramIs, LoaderAssumption DEF MemoryTo
  <1>10. Laid(done.out, done.checksum, H, S, 0 .. MemWords - 1)
    BY <1>8, <1>9, LaidWider
  <1>11. done \in Accs
    BY <1>1, <1>4
  <1> QED BY <1>8, <1>10, <1>11 DEF done

-----------------------------------------------------------------------------
(* A whole image, and what a file may have become of it.                    *)

\* Where the trailer of a whole image begins.
TrailerAt(W) == Len(W) - 2

PlacesIn(W, H, a, w) ==
  \E q \in H \ {TrailerAt(W)} : a \in Addresses(W, q) /\ W[q + 2 + (a - W[q + 1])] = w

\* W is the whole image of program e: sections and trailer.
Whole(e, v, W, H, S) ==
  /\ W \in Seq(Nat) /\ Len(W) > 2
  /\ H \subseteq 2 .. TrailerAt(W) /\ 2 \in H /\ TrailerAt(W) \in H
  /\ \A q \in H : S[q] \in Words
  /\ S[2] = 0 /\ W[TrailerAt(W)] = 0 /\ W[TrailerAt(W) + 1] = e.entry /\ W[TrailerAt(W) + 2] = S[TrailerAt(W)]
  /\ \A q \in H \ {TrailerAt(W)} : SectionAt(W, H, S, 0 .. MemWords - 1, q)
  /\ \A q, r \in H : q < r => q + 2 + W[q] <= r
  /\ \A q, r \in H \ {TrailerAt(W)} : q # r => Addresses(W, q) \cap Addresses(W, r) = {}
  /\ \A p \in 2 .. TrailerAt(W) - 1 : \E q \in H \ {TrailerAt(W)} : p \in q .. q + 1 + W[q]
  /\ \A i \in 1 .. Len(e.headers) :
       LET hdr == e.headers[i]
       IN  hdr.load => \A a \in hdr.vaddr .. hdr.vaddr + hdr.filesize - 1 :
             v \/ a >= VectorEnd => PlacesIn(W, H, a, e.words[hdr.offset + (a - hdr.vaddr) + 1])

LEMMA LaidPlace ==
  ASSUME NEW out, NEW sum, NEW H, NEW S, NEW U, Laid(out, sum, H, S, U), NEW q \in H \ {End(out)}
  PROVE  /\ q \in Nat /\ q >= 2 /\ out[q] \in Nat /\ out[q] > 0 /\ out[q + 1] \in Nat
         /\ q + 1 + out[q] <= Len(out) /\ Len(out) \in Nat
  <1>1. out \in Seq(Nat) /\ Len(out) \in Nat /\ q \in 2 .. Len(out) /\ End(out) = Len(out) + 1
    BY DEF Laid, End
  <1>2. SectionAt(out, H, S, U, q) /\ H \subseteq 2 .. End(out)
    BY DEF Laid
  <1>3. out[q] \in Nat /\ out[q] > 0 /\ q + 2 + out[q] \in 2 .. End(out)
    BY <1>1, <1>2 DEF SectionAt
  <1>4. q + 1 \in 1 .. Len(out)
    BY <1>1, <1>3
  <1> QED BY <1>1, <1>3, <1>4, SMTT(30)

\* The last three words: no length, the entry point and the checksum (elf2img.c 405-409).
LEMMA TrailerIs ==
  ASSUME NEW out \in Seq(Nat), NEW x \in Nat, NEW y \in Nat
  PROVE  LET W == out \o <<0, x, y>>
         IN  /\ W \in Seq(Nat) /\ Len(W) = Len(out) + 3 /\ Len(out) \in Nat
             /\ \A i \in 1 .. Len(out) : W[i] = out[i]
             /\ W[Len(out) + 1] = 0 /\ W[Len(out) + 2] = x /\ W[Len(out) + 3] = y
  <1> DEFINE t == <<0, x, y>>
  <1>1. t \in Seq(Nat) /\ Len(t) = 3 /\ t[1] = 0 /\ t[2] = x /\ t[3] = y
    OBVIOUS
  <1> HIDE DEF t
  <1>2. /\ out \o t \in Seq(Nat) /\ Len(out \o t) = Len(out) + 3 /\ Len(out) \in Nat
        /\ \A i \in 1 .. Len(out) : (out \o t)[i] = out[i]
        /\ \A i \in 1 .. 3 : (out \o t)[Len(out) + i] = t[i]
    <2>1. /\ out \o t \in Seq(Nat) /\ Len(out \o t) = Len(out) + Len(t) /\ Len(out) \in Nat
          /\ \A i \in 1 .. Len(out) : (out \o t)[i] = out[i]
          /\ \A i \in 1 .. Len(t) : (out \o t)[Len(out) + i] = t[i]
      BY <1>1, ConcatIs
    <2> QED BY <1>1, <2>1
  <1>3. 1 \in 1 .. 3 /\ 2 \in 1 .. 3 /\ 3 \in 1 .. 3
    OBVIOUS
  <1>4. /\ (out \o t)[Len(out) + 1] = 0 /\ (out \o t)[Len(out) + 2] = x
        /\ (out \o t)[Len(out) + 3] = y
    BY <1>1, <1>2, <1>3
  <1> QED BY <1>2, <1>4 DEF t

LEMMA WholeImage ==
  ASSUME NEW e \in Elfs, NEW c \in Codes, NEW v \in BOOLEAN
  PROVE  LET done == Sections(e, c, v)
         IN  \E H, S : /\ Whole(e, v, ElfToImage(e, c, v).words, H, S)
                    /\ S[TrailerAt(ElfToImage(e, c, v).words)] = done.checksum
  <1> DEFINE done == Sections(e, c, v)
             out == done.out
             W == out \o <<0, e.entry, done.checksum>>
             M == 0 .. MemWords - 1
  <1>1. PICK H, S : /\ Laid(out, done.checksum, H, S, M)
                    /\ \A i \in 1 .. Len(e.headers) : Placed(e, v, i, out, H)
    BY SectionsLaid
  <1>2. out \in Seq(Nat) /\ e.entry \in Nat /\ done.checksum \in Nat
    <2>1. done \in Accs /\ e.entry \in Words
      BY SectionsLaid, ProgramIs
    <2> HIDE DEF done
    <2>2. out \in Seq(Nat) /\ done.checksum \in Words
      BY <2>1 DEF Accs
    <2> QED BY <2>1, <2>2 DEF Words
  <1> HIDE DEF done
  <1>3. /\ W \in Seq(Nat) /\ Len(W) = Len(out) + 3 /\ Len(out) \in Nat
        /\ \A i \in 1 .. Len(out) : W[i] = out[i]
        /\ W[Len(out) + 1] = 0 /\ W[Len(out) + 2] = e.entry /\ W[Len(out) + 3] = done.checksum
    BY <1>2, TrailerIs
  <1> HIDE DEF W
  <1>4. TrailerAt(W) = End(out) /\ End(out) = Len(out) + 1
    BY <1>3 DEF TrailerAt, End
  <1>5. ASSUME NEW q \in H \ {End(out)}
        PROVE  /\ q \in Nat /\ out[q] \in Nat /\ out[q + 1] \in Nat /\ q >= 2
               /\ q + 1 + out[q] <= Len(out)
               /\ W[q] = out[q] /\ W[q + 1] = out[q + 1] /\ Addresses(W, q) = Addresses(out, q)
               /\ \A i \in 1 .. out[q] : W[q + 1 + i] = out[q + 1 + i]
               /\ Body(W, q) = Body(out, q)
    <2>1. /\ q \in Nat /\ q >= 2 /\ out[q] \in Nat /\ out[q] > 0 /\ out[q + 1] \in Nat
          /\ q + 1 + out[q] <= Len(out) /\ Len(out) \in Nat
      BY <1>1, LaidPlace
    <2>2. W[q] = out[q] /\ W[q + 1] = out[q + 1]
      <3>1. q \in 1 .. Len(out) /\ q + 1 \in 1 .. Len(out)
        BY <2>1
      <3> QED BY <1>3, <3>1
    <2>3. \A i \in 1 .. out[q] : W[q + 1 + i] = out[q + 1 + i]
      BY <1>3, <2>1
    <2> QED BY <2>1, <2>2, <2>3 DEF Addresses, Body
  <1>6. \A q \in H \ {TrailerAt(W)} : SectionAt(W, H, S, M, q)
    <2> SUFFICES ASSUME NEW q \in H \ {End(out)} PROVE SectionAt(W, H, S, M, q)
      BY <1>4
    <2>1. SectionAt(out, H, S, M, q)
      BY <1>1 DEF Laid
    <2> QED BY <1>5, <2>1 DEF SectionAt
  <1>7. \A q, r \in H : q < r => q + 2 + W[q] <= r
    <2> SUFFICES ASSUME NEW q \in H, NEW r \in H, q < r PROVE q + 2 + W[q] <= r
      OBVIOUS
    <2>1. H \subseteq 2 .. End(out) /\ q + 2 + out[q] <= r
      BY <1>1 DEF Laid
    <2>2. q # End(out)
      BY <1>3, <1>4, <2>1
    <2> QED BY <1>5, <2>1, <2>2
  <1>8. \A q, r \in H \ {TrailerAt(W)} : q # r => Addresses(W, q) \cap Addresses(W, r) = {}
    <2> SUFFICES ASSUME NEW q \in H \ {End(out)}, NEW r \in H \ {End(out)}, q # r
                 PROVE  Addresses(W, q) \cap Addresses(W, r) = {}
      BY <1>4
    <2>1. Addresses(out, q) \cap Addresses(out, r) = {}
      BY <1>1 DEF Laid
    <2> QED BY <1>5, <2>1
  <1>9. \A p \in 2 .. TrailerAt(W) - 1 : \E q \in H \ {TrailerAt(W)} : p \in q .. q + 1 + W[q]
    <2> SUFFICES ASSUME NEW p \in 2 .. TrailerAt(W) - 1
                 PROVE  \E q \in H \ {End(out)} : p \in q .. q + 1 + W[q]
      BY <1>4
    <2>1. p \in 2 .. Len(out)
      BY <1>3, <1>4
    <2>2. PICK q \in H \ {End(out)} : p \in q .. q + 1 + out[q]
      BY <1>1, <2>1 DEF Laid
    <2> QED BY <1>5, <2>2
  <1>10. ASSUME NEW a, NEW w, Places(out, H, a, w) PROVE PlacesIn(W, H, a, w)
    <2>1. PICK q \in H \ {End(out)} : a \in Addresses(out, q) /\ out[q + 2 + (a - out[q + 1])] = w
      BY <1>10 DEF Places
    <2>2. /\ q \in Nat /\ out[q] \in Nat /\ out[q + 1] \in Nat
          /\ W[q + 1] = out[q + 1] /\ Addresses(W, q) = Addresses(out, q)
          /\ \A i \in 1 .. out[q] : W[q + 1 + i] = out[q + 1 + i]
      BY <1>5
    <2> DEFINE i == a - out[q + 1] + 1
    <2>3. i \in 1 .. out[q] /\ q + 1 + i = q + 2 + (a - out[q + 1])
      <3>1. \A x, n, y \in Nat : \A b \in x .. x + n - 1 :
              b - x + 1 \in 1 .. n /\ y + 1 + (b - x + 1) = y + 2 + (b - x)
        OBVIOUS
      <3>2. a \in out[q + 1] .. out[q + 1] + out[q] - 1
        BY <2>1 DEF Addresses
      <3> QED BY <2>2, <3>1, <3>2
    <2>4. W[q + 2 + (a - W[q + 1])] = w
      BY <2>1, <2>2, <2>3
    <2> QED BY <1>4, <2>1, <2>2, <2>4 DEF PlacesIn
  <1>11. \A i \in 1 .. Len(e.headers) :
           LET hdr == e.headers[i]
           IN  hdr.load => \A a \in hdr.vaddr .. hdr.vaddr + hdr.filesize - 1 :
                 v \/ a >= VectorEnd => PlacesIn(W, H, a, e.words[hdr.offset + (a - hdr.vaddr) + 1])
    BY <1>1, <1>10 DEF Placed
  <1>12. /\ H \subseteq 2 .. TrailerAt(W) /\ 2 \in H /\ TrailerAt(W) \in H
         /\ \A q \in H : S[q] \in Words
         /\ S[2] = 0 /\ S[TrailerAt(W)] = done.checksum
    BY <1>1, <1>4 DEF Laid
  <1>13. W[TrailerAt(W)] = 0 /\ W[TrailerAt(W) + 1] = e.entry /\ W[TrailerAt(W) + 2] = S[TrailerAt(W)]
    BY <1>3, <1>4, <1>12
  <1>14. W \in Seq(Nat) /\ Len(W) > 2
    BY <1>3
  <1>15. Whole(e, v, W, H, S)
    BY <1>6, <1>7, <1>8, <1>9, <1>11, <1>12, <1>13, <1>14 DEF Whole
  <1> QED BY <1>4, <1>12, <1>15 DEF W, done, ElfToImage

\* The recursion of DataWords has a solution, defined from the end on.
Leaves(w, p) == w[p] = 0 \/ p + 2 + w[p] > Len(w)
HeadsFrom(w, f) == [p \in 1 .. Len(w) |-> IF Leaves(w, p) THEN {p} ELSE {p} \cup f[p + 2 + w[p]]]

LEMMA HeadsExist ==
  ASSUME NEW w \in Seq(Nat)
  PROVE  \E f : f = HeadsFrom(w, f)
  <1> DEFINE n == Len(w)
             Right(f, k) == /\ DOMAIN f = 1 .. n /\ f = [p \in 1 .. n |-> f[p]]
                            /\ \A p \in 1 .. n : p > n - k =>
                                 f[p] = IF Leaves(w, p) THEN {p} ELSE {p} \cup f[p + 2 + w[p]]
             T == {k \in 0 .. n : \E f : Right(f, k)}
  <1>1. n \in Nat /\ \A p \in 1 .. n : w[p] \in Nat
    OBVIOUS
  <1>2. 0 \in T
    <2>1. Right([p \in 1 .. n |-> {}], 0)
      BY <1>1
    <2> HIDE DEF Right
    <2> QED BY <1>1, <2>1
  <1>3. ASSUME NEW k \in 0 .. n - 1, k \in T PROVE k + 1 \in T
    <2>1. PICK f : Right(f, k)
      BY <1>3
    <2> DEFINE m == n - k
               x == IF Leaves(w, m) THEN {m} ELSE {m} \cup f[m + 2 + w[m]]
               g == [p \in 1 .. n |-> IF p = m THEN x ELSE f[p]]
    <2>2. m \in 1 .. n /\ n - (k + 1) = m - 1 /\ k + 1 \in 0 .. n
      BY <1>1
    <2>3. /\ DOMAIN g = 1 .. n /\ g = [p \in 1 .. n |-> g[p]]
          /\ \A p \in 1 .. n : g[p] = IF p = m THEN x ELSE f[p]
      OBVIOUS
    <2>4. \A p \in 1 .. n : p > m => f[p] = IF Leaves(w, p) THEN {p} ELSE {p} \cup f[p + 2 + w[p]]
      BY <2>1
    <2>5. \A p \in 1 .. n : p > n - (k + 1) <=> p >= m
      BY <1>1, <2>2
    <2> HIDE DEF g, m
    <2>6. \A p \in 1 .. n : ~Leaves(w, p) => p + 2 + w[p] \in 1 .. n /\ p + 2 + w[p] > p
      BY <1>1 DEF Leaves
    <2>7. ASSUME NEW p \in 1 .. n, p >= m
          PROVE  g[p] = IF Leaves(w, p) THEN {p} ELSE {p} \cup g[p + 2 + w[p]]
      <3> DEFINE r == p + 2 + w[p]
      <3>1. ~Leaves(w, p) => g[r] = f[r]
        <4>1. ~Leaves(w, p) => r \in 1 .. n /\ r # m
          BY <2>2, <2>6, <2>7
        <4> HIDE DEF r, x
        <4> QED BY <2>3, <4>1
      <3>2. g[p] = IF Leaves(w, p) THEN {p} ELSE {p} \cup f[r]
        <4>1. CASE p = m
          <5>1. g[p] = x
            <6> HIDE DEF x
            <6> QED BY <2>3, <4>1
          <5> QED BY <4>1, <5>1
        <4>2. CASE p # m
          <5>1. p > m
            BY <2>2, <2>7, <4>2
          <5>2. g[p] = f[p]
            <6> HIDE DEF x
            <6> QED BY <2>3, <4>2
          <5> QED BY <2>4, <5>1, <5>2
        <4> QED BY <4>1, <4>2
      <3> QED BY <3>1, <3>2
    <2>8. Right(g, k + 1)
      BY <2>3, <2>5, <2>7
    <2> HIDE DEF Right
    <2> QED BY <2>2, <2>8
  <1>4. n \in T
    <2> HIDE DEF T, n
    <2>1. 0 .. n \subseteq T
      BY <1>1, <1>2, <1>3, UpTo
    <2> QED BY <1>1, <2>1
  <1>5. PICK f : Right(f, n)
    BY <1>4
  <1>6. \A p \in 1 .. n : f[p] = IF Leaves(w, p) THEN {p} ELSE {p} \cup f[p + 2 + w[p]]
    BY <1>1, <1>5, SMTT(30)
  <1>7. f = [p \in 1 .. n |-> f[p]]
    BY <1>5
  <1>8. f = HeadsFrom(w, f)
    <2> HIDE DEF n, Right
    <2> QED BY <1>6, <1>7 DEF HeadsFrom, n
  <1> QED BY <1>8

\* A data word of a whole image is its checksum, or lies in a section.
InBody(W, H, p) == \E q \in H \ {TrailerAt(W)} : p \in q + 2 .. q + 1 + W[q]

LEMMA WholePlace ==
  ASSUME NEW e, NEW v, NEW W, NEW H, NEW S, Whole(e, v, W, H, S), NEW q \in H
  PROVE  /\ q \in Nat /\ 2 <= q /\ q <= TrailerAt(W) /\ W[q] \in Nat /\ W[q + 1] \in Nat
         /\ TrailerAt(W) \in Nat /\ Len(W) = TrailerAt(W) + 2 /\ Len(W) \in Nat
         /\ q # TrailerAt(W) => /\ W[q] > 0 /\ q + 2 + W[q] \in H /\ q + 2 + W[q] <= TrailerAt(W)
                           /\ SectionAt(W, H, S, 0 .. MemWords - 1, q)
  <1>1. W \in Seq(Nat) /\ Len(W) \in Nat /\ Len(W) > 2 /\ H \subseteq 2 .. TrailerAt(W)
    BY DEF Whole
  <1>2. TrailerAt(W) \in Nat /\ Len(W) = TrailerAt(W) + 2
    BY <1>1 DEF TrailerAt
  <1>3. q \in 2 .. TrailerAt(W)
    BY <1>1
  <1>4. q \in 1 .. Len(W) /\ q + 1 \in 1 .. Len(W)
    BY <1>2, <1>3
  <1>5. W[q] \in Nat /\ W[q + 1] \in Nat
    BY <1>1, <1>4
  <1>6. ASSUME q # TrailerAt(W)
        PROVE  /\ W[q] > 0 /\ q + 2 + W[q] \in H /\ q + 2 + W[q] <= TrailerAt(W)
               /\ SectionAt(W, H, S, 0 .. MemWords - 1, q)
    <2>1. SectionAt(W, H, S, 0 .. MemWords - 1, q)
      BY <1>6 DEF Whole
    <2>2. W[q] > 0 /\ q + 2 + W[q] \in H
      BY <2>1 DEF SectionAt
    <2>3. q + 2 + W[q] \in 2 .. TrailerAt(W)
      BY <1>1, <2>2
    <2> QED BY <1>2, <2>1, <2>2, <2>3
  <1> QED BY <1>1, <1>2, <1>3, <1>5, <1>6

LEMMA DataWordIs ==
  ASSUME NEW e, NEW v, NEW img, NEW H, NEW S, Whole(e, v, img.words, H, S), NEW p \in DataWords(img)
  PROVE  p = Len(img.words) \/ InBody(img.words, H, p)
  <1> DEFINE W == img.words
             n == Len(W)
             f == CHOOSE g : g = HeadsFrom(W, g)
  <1>1. W \in Seq(Nat) /\ n \in Nat /\ n > 2 /\ 2 \in H /\ TrailerAt(W) \in H
    BY DEF Whole
  <1>2. p \in 2 .. n /\ \A q \in f[2] : p # q /\ p # q + 1
    BY DEF DataWords, HeadsFrom, Leaves
  <1> HIDE DEF W
  <1>3. f = HeadsFrom(W, f)
    BY <1>1, HeadsExist
  <1> HIDE DEF f
  <1>4. \A q \in 1 .. n : f[q] = IF Leaves(W, q) THEN {q} ELSE {q} \cup f[q + 2 + W[q]]
    <2> DEFINE G(q) == IF Leaves(W, q) THEN {q} ELSE {q} \cup f[q + 2 + W[q]]
    <2>1. f = [q \in 1 .. n |-> G(q)]
      BY <1>3 DEF HeadsFrom
    <2> HIDE DEF G
    <2>2. \A q \in 1 .. n : f[q] = G(q)
      BY <2>1
    <2> QED BY <2>2 DEF G
  <1>5. \A q \in H : /\ q \in Nat /\ 2 <= q /\ q <= TrailerAt(W) /\ W[q] \in Nat
                     /\ TrailerAt(W) \in Nat /\ n = TrailerAt(W) + 2
                     /\ q # TrailerAt(W) => /\ W[q] > 0 /\ q + 2 + W[q] \in H
                                       /\ q + 2 + W[q] <= TrailerAt(W)
    BY WholePlace DEF W
  <1>6. \A q \in H : q \in 1 .. n
    BY <1>5
  <1>7. \A q \in H : q \in f[q]
    BY <1>4, <1>6
  <1>8. ASSUME NEW q \in H, q # TrailerAt(W) PROVE f[q + 2 + W[q]] \subseteq f[q]
    <2>1. ~Leaves(W, q)
      BY <1>5, <1>8 DEF Leaves
    <2>2. f[q] = {q} \cup f[q + 2 + W[q]]
      BY <1>4, <1>6, <2>1
    <2> QED BY <2>2
  <1>9. \A q \in H : f[q] \subseteq f[2]
    <2> DEFINE Bad == {q \in H : ~(f[q] \subseteq f[2])}
    <2> SUFFICES ASSUME Bad # {} PROVE FALSE
      OBVIOUS
    <2>1. Bad \in SUBSET Nat
      BY <1>5
    <2>2. PICK q \in Bad : \A r \in Bad : q <= r
      <3> HIDE DEF Bad
      <3> QED BY <2>1, LeastElement
    <2>3. q \in H /\ q # 2 /\ q \in Nat /\ 2 <= q /\ q <= TrailerAt(W) /\ TrailerAt(W) \in Nat
      BY <1>5, <2>2
    <2>4. q - 1 \in 2 .. TrailerAt(W) - 1
      BY <2>3
    <2>5. PICK r \in H \ {TrailerAt(W)} : q - 1 \in r .. r + 1 + W[r]
      BY <2>4 DEF Whole, W
    <2>6. r \in Nat /\ W[r] \in Nat /\ r < q /\ q <= r + 2 + W[r]
      BY <1>5, <2>3, <2>5
    <2>7. r + 2 + W[r] <= q
      BY <2>3, <2>5, <2>6 DEF Whole, W
    <2>8. q = r + 2 + W[r]
      BY <2>3, <2>6, <2>7
    <2>9. f[q] \subseteq f[r]
      BY <1>8, <2>5, <2>8
    <2>10. r \notin Bad
      BY <2>2, <2>3, <2>6
    <2> QED BY <2>2, <2>5, <2>9, <2>10
  <1>10. \A q \in H : p # q /\ p # q + 1
    BY <1>2, <1>7, <1>9
  <1>11. CASE p \in 2 .. TrailerAt(W) - 1
    <2>1. PICK q \in H \ {TrailerAt(W)} : p \in q .. q + 1 + W[q]
      BY <1>11 DEF Whole, W
    <2>2. p \in q + 2 .. q + 1 + W[q]
      <3>1. q \in Nat /\ W[q] \in Nat /\ p # q /\ p # q + 1
        BY <1>5, <1>10
      <3>2. \A x, m \in Nat : \A y \in x .. x + 1 + m :
              y # x /\ y # x + 1 => y \in x + 2 .. x + 1 + m
        OBVIOUS
      <3> QED BY <2>1, <3>1, <3>2
    <2> QED BY <2>1, <2>2 DEF InBody, W
  <1>12. CASE p \notin 2 .. TrailerAt(W) - 1
    <2>1. p # TrailerAt(W) /\ p # TrailerAt(W) + 1 /\ TrailerAt(W) \in Nat /\ n = TrailerAt(W) + 2
      BY <1>1, <1>5, <1>10
    <2>2. p = n
      BY <1>2, <1>12, <2>1
    <2> QED BY <2>2 DEF W
  <1> QED BY <1>11, <1>12

\* V is what is left of image W: its beginning, or all of it with a wrong word p.
Given(V, W, H, p) ==
  /\ V \in Seq(Nat) /\ Len(V) <= Len(W) /\ p \in Nat
  /\ p # 0 => Len(V) = Len(W) /\ WordMod > 1 /\ (p = Len(W) \/ InBody(W, H, p))
  /\ \A i \in 1 .. Len(V) : V[i] = IF i = p THEN Next1(W[i]) ELSE W[i]

\* Whatever the file has become (Files), it is given from a whole image.
LEMMA FilesGiven ==
  ASSUME NEW e, NEW v, NEW img, NEW H, NEW S, Whole(e, v, img.words, H, S),
         NEW t, NEW f \in Files(img, t),
         img = [code |-> img.code, exec |-> img.exec, words |-> img.words]
  PROVE  f.code = img.code /\ \E p : Given(f.words, img.words, H, p)
  <1> DEFINE W == img.words
  <1>1. W \in Seq(Nat) /\ Len(W) \in Nat /\ \A i \in 1 .. Len(W) : W[i] \in Nat
    BY DEF Whole
  <1>2. ASSUME f \in {[img EXCEPT !.words[p] = (@ + 1) % WordMod] :
                         p \in IF t = "RAM" THEN DataWords(img) ELSE {}}
        PROVE  \E p \in DataWords(img) : f = [img EXCEPT !.words[p] = (@ + 1) % WordMod]
    BY <1>2, Zenon
  <1>3. \/ f \in {img, [img EXCEPT !.exec = FALSE]}
        \/ \E n \in 1 .. Len(W) - 1 : f = [img EXCEPT !.words = SubSeq(@, 1, n)]
        \/ \E p \in DataWords(img) : f = [img EXCEPT !.words[p] = (@ + 1) % WordMod]
    BY <1>2, Zenon DEF Files
  <1>4. CASE f \in {img, [img EXCEPT !.exec = FALSE]}
    <2>1. f.code = img.code /\ f.words = W
      BY <1>4
    <2>2. Given(W, W, H, 0)
      BY <1>1 DEF Given
    <2> QED BY <2>1, <2>2
  <1>5. CASE \E n \in 1 .. Len(W) - 1 : f = [img EXCEPT !.words = SubSeq(@, 1, n)]
    <2>1. PICK n \in 1 .. Len(W) - 1 : f = [img EXCEPT !.words = SubSeq(@, 1, n)]
      BY <1>5
    <2>2. f.code = img.code /\ f.words = SubSeq(W, 1, n)
      BY <2>1
    <2>3. /\ SubSeq(W, 1, n) \in Seq(Nat) /\ Len(SubSeq(W, 1, n)) = n
          /\ \A i \in 1 .. n : SubSeq(W, 1, n)[i] = W[i]
      BY <1>1
    <2>4. n <= Len(W) /\ \A i \in 1 .. n : i # 0
      BY <1>1
    <2> HIDE DEF W
    <2>5. Given(SubSeq(W, 1, n), W, H, 0)
      BY <2>3, <2>4 DEF Given
    <2> QED BY <2>2, <2>5 DEF W
  <1>6. CASE \E p \in DataWords(img) : f = [img EXCEPT !.words[p] = (@ + 1) % WordMod]
    <2>1. PICK p \in DataWords(img) : f = [img EXCEPT !.words[p] = (@ + 1) % WordMod]
      BY <1>6
    <2>2. p \in 1 .. Len(W)
      BY <1>1 DEF DataWords
    <2>3. f.code = img.code /\ f.words = [W EXCEPT ![p] = (W[p] + 1) % WordMod]
      BY <2>1
    <2>4. p = Len(W) \/ InBody(W, H, p)
      BY DataWordIs
    <2> DEFINE V == [W EXCEPT ![p] = (W[p] + 1) % WordMod]
    <2>5. (W[p] + 1) % WordMod \in Nat
      BY <1>1, <2>2, ImageAssumption
    <2>6. V \in Seq(Nat) /\ Len(V) = Len(W)
      BY <1>1, <2>2, <2>5
    <2>7. \A i \in 1 .. Len(V) : V[i] = IF i = p THEN Next1(W[i]) ELSE W[i]
      BY <1>1, <2>2 DEF Next1
    <2> HIDE DEF W, V
    <2>8. CASE WordMod > 1
      <3>1. Given(V, W, H, p)
        BY <2>2, <2>4, <2>6, <2>7, <2>8 DEF Given
      <3> QED BY <2>3, <3>1 DEF W, V
    <2>9. CASE ~(WordMod > 1)
      <3>1. WordMod = 1
        BY <2>9, ImageAssumption
      <3>2. W[p] = 0 /\ Next1(W[p]) = 0
        <4>1. W[p] \in Words
          <5>1. CASE p = Len(W)
            <6>1. /\ p = TrailerAt(W) + 2 /\ TrailerAt(W) \in H
                  /\ W[TrailerAt(W) + 2] = S[TrailerAt(W)] /\ \A q \in H : S[q] \in Words
              BY <1>1, <5>1 DEF Whole, W, TrailerAt
            <6> QED BY <6>1
          <5>2. CASE InBody(W, H, p)
            <6>1. PICK q \in H \ {TrailerAt(W)} : p \in q + 2 .. q + 1 + W[q]
              BY <5>2 DEF InBody
            <6>2. Body(W, q) \in Seq(Words) /\ q \in Nat /\ W[q] \in Nat
              BY WholePlace DEF W, SectionAt
            <6>3. p - q - 1 \in 1 .. W[q] /\ q + 1 + (p - q - 1) = p
              BY <6>1, <6>2
            <6>4. DOMAIN Body(W, q) = 1 .. W[q] /\ Body(W, q)[p - q - 1] = W[p]
              BY <6>3 DEF Body
            <6>5. \A s \in Seq(Words) : \A i \in DOMAIN s : s[i] \in Words
              OBVIOUS
            <6> QED BY <6>2, <6>3, <6>4, <6>5
          <5> QED BY <2>4, <5>1, <5>2
        <4> QED BY <3>1, <4>1 DEF Words, Next1
      <3>3. Given(V, W, H, 0)
        <4>1. \A i \in 1 .. Len(V) : V[i] = W[i]
          BY <2>7, <3>2
        <4> QED BY <1>1, <2>6, <4>1 DEF Given, W
      <3> QED BY <2>3, <3>3 DEF W, V
    <2> QED BY <2>8, <2>9
  <1> QED BY <1>3, <1>4, <1>5, <1>6

-----------------------------------------------------------------------------
(* What EEPROMs and flash hold.                                            *)

Total == RoundUp(Len(image.words), PageWords)
Chip == EepromSize(image.code)

\* The image is in place up to position n.
HeldTo(n) == \A p \in 0 .. n - 1 : RomWord(p) = Word(image, p)

\* The part of the image that is being written or verified begins here; it goes
\* to the first address of an EEPROM, or to the second one of a large EEPROM.
PartStart == job.from - job.at

Jobs == [dev : Nat, at : Nat, from : Nat, left : Nat, all : Nat]

PartInv ==
  /\ job \in Jobs /\ job.at + job.left = job.all
  /\ \/ /\ job.dev = address /\ PartStart = offset
        /\ job.all = Smaller(Size, SlaveWords)
     \/ /\ job.dev = address + 4 /\ PartStart = offset + SlaveWords
        /\ job.all = Size - SlaveWords /\ Size > SlaveWords

EepromInv ==
  /\ pc \in {"eeprom", "i2cWrite", "i2cVerify"} =>
       /\ target = "I2C" /\ Len(image.words) <= MaxImage
       /\ left \in Nat /\ offset \in Nat /\ address \in Nat /\ offset + left = Total
       /\ offset <= address * Chip /\ (left > 0 => offset = address * Chip)
  /\ pc = "eeprom" => HeldTo(offset)
  /\ pc = "i2cWrite" => left > 0 /\ PartInv /\ HeldTo(PartStart)
  /\ pc = "i2cVerify" => left > 0 /\ PartInv /\ HeldTo(job.from)

FlashInv ==
  /\ pc \in {"erase", "poll", "spiWrite"} =>
       target = "SPI" /\ Len(image.words) <= MaxImage /\ left = Total
  /\ pc \in {"erase", "poll"} =>
       sector \in Nat /\ \A a \in 0 .. left - 1 : a \div SectorWords < sector => flash[a] = Blank
  /\ pc = "spiWrite" =>
       /\ job \in Jobs /\ job.from = job.at /\ job.at + job.left = left /\ job.left % PageWords = 0
       /\ \A a \in 0 .. job.at - 1 : flash[a] = Word(image, a)
       /\ \A a \in job.at .. left - 1 : flash[a] = Blank

FileInv ==
  /\ image.code \in Codes /\ image.words \in Seq(Nat) /\ target \in Targets
  /\ DOMAIN flash = 0 .. MaxImage - 1 /\ DOMAIN rom = RomAddresses
  /\ \A d \in RomAddresses : DOMAIN rom[d] = 0 .. SlaveWords - 1
  /\ result = "ok" => pc = "done"
  /\ target # "RAM" /\ pc \in RamSteps => loading = "prog"
  /\ target = "RAM" => loading = "user" /\ pc \notin ProgSteps \cup RomSteps \cup {"image"}

RomInv == FileInv /\ EepromInv /\ FlashInv /\ RomHoldsImage

-----------------------------------------------------------------------------
(* Positions, pages and EEPROMs.                                           *)

\* A position before the one where chip q starts is on an earlier chip.
LEMMA DivBelow ==
  ASSUME NEW q \in Nat, NEW e \in Nat \ {0}, NEW p \in Nat, p < q * e
  PROVE  p \div e \in Nat /\ p \div e < q /\ p % e \in 0 .. e - 1
  <1> DEFINE r == p \div e
  <1>1. r \in Nat /\ p % e \in 0 .. e - 1 /\ p = e * r + (p % e)
    OBVIOUS
  <1> HIDE DEF r
  <1>2. r >= q => e * (r - q) >= 0
    BY <1>1
  <1> QED BY <1>1, <1>2 DEF r

LEMMA RoundUpFacts ==
  ASSUME NEW n \in Nat, NEW v \in Nat \ {0}, NEW m \in Nat, m % v = 0, n <= m
  PROVE  RoundUp(n, v) \in Nat /\ n <= RoundUp(n, v) /\ RoundUp(n, v) <= m /\ RoundUp(n, v) % v = 0
  <1> DEFINE q == (n + v - 1) \div v
             k == m \div v
  <1>1. q \in Nat /\ (n + v - 1) % v \in 0 .. v - 1 /\ n + v - 1 = v * q + ((n + v - 1) % v)
    OBVIOUS
  <1>2. k \in Nat /\ m = v * k
    OBVIOUS
  <1>3. RoundUp(n, v) = q * v
    BY DEF RoundUp
  <1> HIDE DEF q, k
  <1>4. q * v \in Nat /\ q * v = v * q
    BY <1>1
  <1>5. v * q >= n
    BY <1>1
  <1>6. q <= k
    <2>1. SUFFICES ASSUME q > k PROVE FALSE
      BY <1>1, <1>2
    <2>2. v * (q - k) >= v
      BY <1>1, <1>2, <2>1
    <2>3. v * (q - k) = v * q - v * k
      BY <1>1, <1>2
    <2> QED BY <1>1, <1>2, <2>2, <2>3
  <1>7. v * q <= m
    BY <1>1, <1>2, <1>6
  <1>8. (q * v) % v = 0
    <2>1. q \in Nat
      BY <1>1
    <2>2. \A x \in 0 .. v - 1 : (q * v + x) % v = x
      BY <2>1, DivMod
    <2> QED BY <1>4, <2>2
  <1> QED BY <1>3, <1>4, <1>5, <1>7, <1>8

LEMMA Constants ==
  /\ WriteWords \in Nat \ {0} /\ PageWords \in Nat \ {0} /\ SectorWords \in Nat \ {0}
  /\ MaxImage \in Nat \ {0} /\ SlaveWords \in Nat \ {0}
  /\ MaxImage % PageWords = 0 /\ WriteWords % PageWords = 0
  BY LoaderAssumption, ImageAssumption

\* Only the largest EEPROMs have two addresses.
LEMMA ChipSizes ==
  ASSUME FileInv
  PROVE  /\ Chip \in Nat \ {0} /\ Chip % PageWords = 0
         /\ Chip > SlaveWords => Chip = 2 * SlaveWords
         /\ image.words \in Seq(Nat) /\ Len(image.words) \in Nat
  <1>1. image.code \in 0 .. 7 /\ Chip > 0 /\ Chip % PageWords = 0
    BY LoaderAssumption DEF FileInv, Chip
  <1>2. image.code # 7 => Chip \in Nat /\ Chip <= SlaveWords
    <2>1. \A d \in {64, 32, 16, 8, 4, 2, 1} : SlaveWords \div d \in Nat /\ SlaveWords \div d <= SlaveWords
      BY Constants
    <2>2. ASSUME image.code # 7  PROVE \E d \in {64, 32, 16, 8, 4, 2, 1} : Chip = SlaveWords \div d
      BY <1>1, <2>2 DEF Chip, EepromSize, I2cDeviceSizes
    <2> QED BY <2>1, <2>2
  <1>3. image.code = 7 => Chip = 2 * SlaveWords
    BY DEF Chip, EepromSize
  <1> QED BY <1>1, <1>2, <1>3, Constants DEF FileInv

\* Where the word at position p is: RomWord by the address of the chip.
ChipAddress(p) == p \div Chip + IF p % Chip >= SlaveWords THEN 4 ELSE 0
Within(p) == (p % Chip) % SlaveWords

LEMMA RomWordIs == \A p : RomWord(p) = rom[ChipAddress(p)][Within(p)]
  BY DEF RomWord, ChipAddress, Within, Chip

LEMMA Spot ==
  ASSUME FileInv, NEW q \in Nat, NEW x \in 0 .. Chip - 1
  PROVE  IF x < SlaveWords
         THEN ChipAddress(q * Chip + x) = q /\ Within(q * Chip + x) = x
         ELSE ChipAddress(q * Chip + x) = q + 4 /\ Within(q * Chip + x) = x - SlaveWords
  <1> DEFINE e == Chip
  <1>1. /\ e \in Nat \ {0} /\ (e > SlaveWords => e = 2 * SlaveWords)
        /\ SlaveWords \in Nat \ {0}
    BY ChipSizes, Constants
  <1>2. (q * e + x) \div e = q /\ (q * e + x) % e = x
    BY <1>1, DivMod
  <1>3. CASE x < SlaveWords
    <2>1. x % SlaveWords = x
      BY <1>1, <1>3
    <2> QED BY <1>1, <1>2, <1>3, <2>1 DEF ChipAddress, Within
  <1>4. CASE x >= SlaveWords
    <2>1. x \in Nat /\ x - SlaveWords \in 0 .. SlaveWords - 1
      BY <1>1, <1>4
    <2>2. (1 * SlaveWords + (x - SlaveWords)) % SlaveWords = x - SlaveWords
      BY <1>1, <2>1, DivMod
    <2>3. x % SlaveWords = x - SlaveWords
      BY <1>1, <2>1, <2>2
    <2> QED BY <1>1, <1>2, <1>4, <2>1, <2>3 DEF ChipAddress, Within
  <1> QED BY <1>1, <1>3, <1>4

\* What the steps that write a part can rely on.
Writing ==
  /\ FileInv /\ EepromInv /\ pc \in {"i2cWrite", "i2cVerify"}

LEMMA WritingFacts ==
  ASSUME Writing
  PROVE  /\ address \in Nat /\ offset \in Nat /\ left \in Nat \ {0} /\ offset = address * Chip
         /\ Size \in Nat \ {0} /\ Size <= left /\ Size <= Chip
         /\ (left > Chip => Size = Chip) /\ (left <= Chip => Size = left)
         /\ job \in Jobs /\ job.at + job.left = job.all /\ job.from = PartStart + job.at
         /\ PartStart \in Nat
         /\ \/ /\ job.dev = address /\ PartStart = offset /\ job.all <= Size /\ job.all <= SlaveWords
               /\ (Size > SlaveWords => job.all = SlaveWords) /\ (Size <= SlaveWords => job.all = Size)
            \/ /\ job.dev = address + 4 /\ PartStart = offset + SlaveWords
               /\ job.all = Size - SlaveWords /\ Size > SlaveWords /\ Chip = 2 * SlaveWords
         /\ offset + left = Total /\ Total \in Nat /\ Total <= MaxImage /\ Len(image.words) <= Total
  <1>1. /\ address \in Nat /\ offset \in Nat /\ left \in Nat \ {0} /\ offset = address * Chip
        /\ PartInv /\ offset + left = Total /\ Len(image.words) <= MaxImage
    BY DEF Writing, EepromInv
  <1>2. Chip \in Nat \ {0} /\ (Chip > SlaveWords => Chip = 2 * SlaveWords) /\ SlaveWords \in Nat \ {0}
        /\ Len(image.words) \in Nat
    BY ChipSizes, Constants DEF Writing
  <1>3. /\ Size \in Nat \ {0} /\ Size <= left /\ Size <= Chip
        /\ (left > Chip => Size = Chip) /\ (left <= Chip => Size = left)
    BY <1>1, <1>2 DEF Size, Smaller, Chip
  <1>4. Total \in Nat /\ Total <= MaxImage /\ Len(image.words) <= Total
    BY <1>1, <1>2, Constants, RoundUpFacts DEF Total
  <1>5. \/ /\ job.dev = address /\ PartStart = offset /\ job.all <= Size /\ job.all <= SlaveWords
           /\ (Size > SlaveWords => job.all = SlaveWords) /\ (Size <= SlaveWords => job.all = Size)
        \/ /\ job.dev = address + 4 /\ PartStart = offset + SlaveWords
           /\ job.all = Size - SlaveWords /\ Size > SlaveWords /\ Chip = 2 * SlaveWords
    BY <1>1, <1>2, <1>3 DEF PartInv, Smaller
  <1>6. PartStart \in Nat
    BY <1>1, <1>2, <1>5
  <1>7. job \in Jobs /\ job.at + job.left = job.all
    BY <1>1 DEF PartInv
  <1>8. job.from = PartStart + job.at
    BY <1>1, <1>7 DEF PartInv, PartStart, Jobs
  <1> QED BY <1>1, <1>3, <1>4, <1>5, <1>6, <1>7, <1>8

\* The part that is written is where the board will look for it, ...
LEMMA PartIsThere ==
  ASSUME Writing, NEW i \in 0 .. job.all - 1
  PROVE  ChipAddress(PartStart + i) = job.dev /\ Within(PartStart + i) = i
  <1> DEFINE e == Chip
             q == address
  <1>1. e \in Nat \ {0} /\ SlaveWords \in Nat \ {0} /\ FileInv
    BY ChipSizes, Constants DEF Writing
  <1>2. /\ q \in Nat /\ offset = q * e /\ Size \in Nat /\ Size <= e /\ q * e \in Nat
    BY <1>1, WritingFacts
  <1>3. CASE job.dev = address /\ PartStart = offset /\ job.all <= Size /\ job.all <= SlaveWords
    <2>1. i \in 0 .. e - 1 /\ i < SlaveWords
      BY <1>1, <1>2, <1>3, WritingFacts
    <2>2. PartStart + i = q * e + i
      BY <1>2, <1>3
    <2> QED BY <1>1, <1>2, <1>3, <2>1, <2>2, Spot
  <1>4. CASE job.dev = address + 4 /\ PartStart = offset + SlaveWords /\ job.all = Size - SlaveWords
    <2>1. SlaveWords + i \in 0 .. e - 1 /\ ~(SlaveWords + i < SlaveWords) /\ (SlaveWords + i) - SlaveWords = i
      BY <1>1, <1>2, <1>4
    <2>2. PartStart + i = q * e + (SlaveWords + i)
      <3>1. \A n \in Nat : (n + SlaveWords) + i = n + (SlaveWords + i)
        BY <1>1
      <3> QED BY <1>2, <1>4, <3>1
    <2>3. /\ ChipAddress(q * e + (SlaveWords + i)) = q + 4
          /\ Within(q * e + (SlaveWords + i)) = (SlaveWords + i) - SlaveWords
      BY <1>1, <1>2, <2>1, Spot
    <2> QED BY <1>4, <2>1, <2>2, <2>3
  <1> QED BY <1>3, <1>4, WritingFacts

\* ... and what was written before is on other chips or at other addresses: an
\* image of the largest size does not reach the address where the second half of
\* the first chip is.
LEMMA BeforeIsElsewhere ==
  ASSUME Writing, MaxImage <= 8 * SlaveWords, job.dev \in RomAddresses,
         NEW p \in 0 .. PartStart - 1
  PROVE  ChipAddress(p) \in RomAddresses /\ ChipAddress(p) # job.dev
  <1> DEFINE e == Chip
             q == address
             r == p \div e
  <1>1. /\ e \in Nat \ {0} /\ (e > SlaveWords => e = 2 * SlaveWords)
        /\ SlaveWords \in Nat \ {0} /\ MaxImage \in Nat
    BY ChipSizes, Constants DEF Writing
  <1>2. /\ q \in Nat /\ offset = q * e /\ q * e \in Nat /\ q * e < MaxImage
        /\ Size \in Nat /\ Size <= e /\ p \in Nat /\ PartStart \in Nat
    BY <1>1, WritingFacts, SMTT(30)
  <1>3. r \in Nat /\ p % e \in 0 .. e - 1 /\ p = e * r + (p % e)
    BY <1>1, <1>2
  <1>4. ChipAddress(p) = r + IF p % e >= SlaveWords THEN 4 ELSE 0
    BY DEF ChipAddress
  <1> USE DEF RomAddresses
  <1> HIDE DEF e, q, r
  <1>5. CASE job.dev = q /\ PartStart = offset
    <2>1. r < q
      <3>1. p < q * e
        BY <1>2, <1>5
      <3> QED BY <1>1, <1>2, <3>1, DivBelow DEF r
    <2>2. CASE p % e >= SlaveWords
      <3>1. e = 2 * SlaveWords
        BY <1>1, <1>3, <2>2
      <3>2. q < 4
        <4>1. q >= 4 => q * e >= 8 * SlaveWords
          BY <1>1, <1>2, <3>1
        <4> QED BY <1>1, <1>2, <4>1
      <3> QED BY <1>2, <1>3, <1>4, <1>5, <2>1, <2>2, <3>2
    <2> QED BY <1>2, <1>3, <1>4, <1>5, <2>1, <2>2
  <1>6. CASE job.dev = q + 4 /\ PartStart = offset + SlaveWords /\ e = 2 * SlaveWords
    <2>1. CASE p < q * e
      <3>1. r < q
        BY <1>1, <1>2, <2>1, DivBelow DEF r
      <3> QED BY <1>2, <1>3, <1>4, <1>6, <3>1
    <2>2. CASE p >= q * e
      <3>1. p - q * e \in 0 .. SlaveWords - 1
        BY <1>1, <1>2, <1>6, <2>2
      <3>2. PICK x \in 0 .. SlaveWords - 1 : p = q * e + x
        BY <1>1, <1>2, <3>1
      <3>3. x \in 0 .. e - 1
        BY <1>1, <1>6, <3>2
      <3>4. r = q /\ p % e = x
        BY <1>1, <1>2, <3>2, <3>3, DivMod DEF r
      <3> QED BY <1>1, <1>2, <1>4, <1>6, <3>2, <3>4
    <2> QED BY <1>2, <2>1, <2>2
  <1> QED BY <1>5, <1>6, WritingFacts DEF e, q

-----------------------------------------------------------------------------
(* The steps.                                                              *)

LEMMA Names ==
  /\ RamSteps = {"read", "section", "ram", "jump"}
  /\ ProgSteps = {"check", "close", "wait", "scan"}
  /\ RomSteps = {"eeprom", "i2cWrite", "i2cVerify", "erase", "poll", "spiWrite"}
  BY DEF RamSteps, ProgSteps, RomSteps

\* A step that leaves the memories alone and does not go on with writing.
LEMMA ElsewhereKeeps ==
  ASSUME RomInv, UNCHANGED <<image, target, rom, flash>>, pc' \notin RomSteps,
         result' = "ok" => pc' = "done" /\ (result = "ok" \/ target = "RAM"),
         target # "RAM" /\ pc' \in RamSteps => loading' = "prog",
         target = "RAM" => loading' = "user" /\ pc' \notin ProgSteps \cup {"image"}
  PROVE  RomInv'
  <1>1. FileInv'
    BY DEF RomInv, FileInv
  <1>2. EepromInv' /\ FlashInv'
    BY Names DEF EepromInv, FlashInv
  <1>3. RomHoldsImage'
    BY DEF RomInv, RomHoldsImage, RomWord
  <1> QED BY <1>1, <1>2, <1>3 DEF RomInv

LEMMA LoadRamKeeps == ASSUME RomInv, LoadRam PROVE RomInv'
  <1> USE DEF Fail, Succeed, Goto
  <1>1. /\ UNCHANGED <<image, target, loading, rom, flash>>
        /\ pc \in RamSteps /\ pc' \in RamSteps \cup {"close", "done"}
        /\ pc' = "close" => loading = "prog"
        /\ result' = "ok" => pc' = "done" /\ (result = "ok" \/ loading # "prog")
    <2>1. CASE Read \/ Section \/ Trailer
      BY <2>1, Names DEF Read, Section, Trailer, RomInv, FileInv, program, boot, memory
    <2>2. CASE EndOfFile \/ Jump
      <3>1. pc \in RamSteps /\ result # "ok" /\ Loaded /\ UNCHANGED <<image, target, loading, rom, flash>>
        BY <2>2, Names DEF EndOfFile, Jump, program, boot, memory, RomInv, FileInv
      <3> QED BY <3>1, Names DEF Loaded
    <2>3. CASE RamWrite
      BY <2>3, Names DEF RamWrite, RomInv, FileInv, program
    <2> QED BY <2>1, <2>2, <2>3 DEF LoadRam
  <1>2. pc' \notin RomSteps \cup {"image"} /\ (pc' \in ProgSteps => pc' = "close")
    BY <1>1, Names
  <1>3. target # "RAM" => loading = "prog"
    BY <1>1 DEF RomInv, FileInv
  <1>4. target = "RAM" => loading = "user"
    BY DEF RomInv, FileInv
  <1> QED BY <1>1, <1>2, <1>3, <1>4, ElsewhereKeeps

LEMMA FindKeeps == ASSUME RomInv, Main \/ FindProgrammer \/ OtherMoves PROVE RomInv'
  <1> USE DEF Fail, Goto
  <1>1. /\ UNCHANGED <<image, target, rom, flash>>
        /\ result' = "ok" => result = "ok"
    <2>1. CASE Main
      BY <2>1 DEF Main, program, memory
    <2>2. CASE FindProgrammer
      BY <2>2 DEF FindProgrammer, Check, Close, Wait, NotFound, Found, ScanOn, ScanEnds,
                  program, memory
    <2>3. CASE OtherMoves
      BY <2>3 DEF OtherMoves, program, memory
    <2> QED BY <2>1, <2>2, <2>3
  <1>2. pc \in ProgSteps \cup {"open"}
    BY Names DEF Main, FindProgrammer, Check, Close, Wait, NotFound, Found, ScanOn, ScanEnds,
                 OtherMoves
  <1>3. result # "ok" /\ (target = "RAM" => loading = "user" /\ pc = "open")
    BY <1>2, Names DEF RomInv, FileInv
  <1>4. /\ pc' \in {"done", "read", "image", "open"} \cup ProgSteps
        /\ pc' = "read" => target = "RAM" \/ loading' = "prog"
    <2>1. CASE Main
      BY <2>1, Names DEF Main
    <2>2. CASE FindProgrammer
      BY <2>2, Names DEF FindProgrammer, Check, Close, Wait, NotFound, Found, ScanOn, ScanEnds
    <2>3. CASE OtherMoves
      BY <2>3, Names DEF OtherMoves
    <2> QED BY <2>1, <2>2, <2>3
  <1>5. target = "RAM" => loading' = "user" /\ pc' \notin ProgSteps \cup {"image"}
    <2>1. target = "RAM" => Main \/ OtherMoves
      BY <1>3 DEF FindProgrammer, Check, Close, Wait, NotFound, Found, ScanOn, ScanEnds
    <2>2. target = "RAM" /\ Main => loading' = "user" /\ pc' \notin ProgSteps \cup {"image"}
      BY <1>3, Names DEF Main, boot
    <2>3. target = "RAM" /\ OtherMoves => loading' = "user" /\ pc' \notin ProgSteps \cup {"image"}
      BY <1>3, Names DEF OtherMoves, boot
    <2> QED BY <2>1, <2>2, <2>3
  <1> QED BY <1>1, <1>3, <1>4, <1>5, Names, ElsewhereKeeps

LEMMA SameKeeps ==
  ASSUME RomInv,
         UNCHANGED <<image, target, rom, flash, pc, result, loading, job, offset, left, address, sector>>
  PROVE  RomInv'
  <1>1. FileInv'
    BY DEF RomInv, FileInv
  <1>2. PartInv' <=> PartInv
    BY DEF PartInv, PartStart, Size
  <1>3. \A n : HeldTo(n)' <=> HeldTo(n)
    BY DEF HeldTo, RomWord
  <1>4. EepromInv'
    BY <1>2, <1>3 DEF RomInv, EepromInv, Total, Chip, HeldTo, RomWord, PartStart
  <1>5. FlashInv'
    BY DEF RomInv, FlashInv, Total
  <1>6. RomHoldsImage'
    BY DEF RomInv, RomHoldsImage, RomWord
  <1> QED BY <1>1, <1>4, <1>5, <1>6 DEF RomInv

LEMMA ReadKeeps == ASSUME RomInv, ReadForRom PROVE RomInv'
  <1> USE DEF Fail, Goto
  <1>1. UNCHANGED <<image, target, rom, flash, loading>> /\ pc = "image" /\ result # "ok" /\ target # "RAM"
    BY DEF ReadForRom, program, boot, memory, RomInv, FileInv
  <1>2. CASE Fail
    BY <1>1, <1>2, Names, ElsewhereKeeps
  <1>3. CASE /\ ImageRead(image) /\ left' = Total /\ offset' = 0 /\ address' = 0 /\ sector' = 0
             /\ Goto(IF target = "I2C" THEN "eeprom" ELSE "erase")
    <2>1. FileInv'
      BY <1>1, <1>3, Names DEF RomInv, FileInv
    <2>2. Chip \in Nat /\ Total \in Nat /\ Total' = Total /\ Chip' = Chip /\ Len(image.words) <= MaxImage
      BY <1>1, <1>3, ChipSizes, Constants, RoundUpFacts DEF Total, Chip, RomInv, ImageRead
    <2>3. EepromInv'
      BY <1>1, <1>3, <2>2 DEF EepromInv, HeldTo
    <2>4. target # "I2C" => target = "SPI"
      BY <1>1 DEF RomInv, FileInv, Targets
    <2>5. FlashInv'
      <3>1. ASSUME NEW a \in 0 .. left' - 1 PROVE ~(a \div SectorWords < sector')
        BY <1>3, <2>2, Constants
      <3>2. pc' \in {"eeprom", "erase"} /\ (pc' = "erase" => target' = "SPI") /\ left' = Total'
        BY <1>1, <1>3, <2>2, <2>4
      <3>3. sector' \in Nat /\ Len(image.words)' <= MaxImage
        BY <1>1, <1>3, <2>2
      <3> QED BY <3>1, <3>2, <3>3 DEF FlashInv
    <2> QED BY <1>1, <1>3, <2>1, <2>3, <2>5 DEF RomInv, RomHoldsImage
  <1> QED BY <1>2, <1>3 DEF ReadForRom, Total

LEMMA EepromKeeps == ASSUME RomInv, NextEeprom PROVE RomInv'
  <1> USE DEF Succeed, Goto
  <1>1. /\ UNCHANGED <<image, target, rom, flash, loading, offset, left, address>>
        /\ pc = "eeprom" /\ result # "ok" /\ target = "I2C"
    BY DEF NextEeprom, program, boot, loops, memory, RomInv, FileInv, EepromInv
  <1>2. /\ left \in Nat /\ offset \in Nat /\ address \in Nat /\ offset + left = Total /\ HeldTo(offset)
        /\ Len(image.words) <= MaxImage
    BY <1>1 DEF RomInv, EepromInv
  <1>3. FileInv'
    BY <1>1, Names DEF RomInv, FileInv, NextEeprom
  <1>4. FlashInv'
    BY DEF FlashInv, NextEeprom
  <1>5. CASE left = 0
    <2>1. Len(image.words) \in Nat /\ Len(image.words) <= offset
      BY <1>2, <1>5, ChipSizes, Constants, RoundUpFacts DEF Total, RomInv
    <2>2. RomHoldsImage'
      BY <1>1, <1>2, <2>1 DEF RomHoldsImage, HeldTo, RomWord
    <2>3. EepromInv'
      BY <1>5 DEF NextEeprom, EepromInv
    <2> QED BY <1>3, <1>4, <2>2, <2>3 DEF RomInv
  <1>6. CASE left # 0
    <2>1. job' = LowPart /\ pc' = "i2cWrite" /\ result' = result
      BY <1>6 DEF NextEeprom
    <2>2. Chip \in Nat \ {0} /\ SlaveWords \in Nat \ {0} /\ Size \in Nat
      BY <1>2, ChipSizes, Constants DEF RomInv, Size, Chip, Smaller
    <2>3. PartStart' = offset
      BY <1>2, <2>1 DEF PartStart, LowPart
    <2>4. Size' = Size /\ Chip' = Chip /\ Total' = Total
      BY <1>1 DEF Size, Chip, Total
    <2>5. PartInv'
      BY <1>1, <1>2, <2>1, <2>2, <2>3, <2>4 DEF PartInv, LowPart, Smaller, Jobs
    <2>6. HeldTo(offset)'
      BY <1>1, <1>2 DEF HeldTo, RomWord
    <2>7. HeldTo(PartStart)'
      BY <1>1, <2>3, <2>6 DEF HeldTo
    <2>8. EepromInv'
      BY <1>1, <1>6, <2>1, <2>4, <2>5, <2>7 DEF RomInv, EepromInv
    <2> QED BY <1>1, <1>3, <1>4, <2>1, <2>8 DEF RomInv, RomHoldsImage
  <1> QED BY <1>5, <1>6

\* The piece that one request carries.
LEMMA PieceFacts ==
  ASSUME job.left \in Nat
  PROVE  /\ Piece \in Nat /\ Piece <= job.left /\ (job.left <= Piece => Piece = job.left)
         /\ Piece = job.left \/ Piece = WriteWords
  BY Constants DEF Piece, Smaller

LEMMA RestIs ==
  ASSUME job \in Jobs
  PROVE  /\ Rest \in Jobs /\ Rest.dev = job.dev /\ Rest.all = job.all
         /\ Rest.at = job.at + Piece /\ Rest.from = job.from + Piece /\ Rest.left = job.left - Piece
  <1>1. job.at \in Nat /\ job.from \in Nat /\ job.left \in Nat
    BY DEF Jobs
  <1>2. job.at + Piece \in Nat /\ job.from + Piece \in Nat /\ job.left - Piece \in Nat
    BY <1>1, PieceFacts
  <1>3. Rest = [job EXCEPT !.at = job.at + Piece, !.from = job.from + Piece, !.left = job.left - Piece]
    BY DEF Rest
  <1> QED BY <1>1, <1>2, <1>3 DEF Jobs

LEMMA I2cWriteKeeps ==
  ASSUME RomInv, I2cWrite, MaxImage <= 8 * SlaveWords PROVE RomInv'
  <1> USE DEF Fail, Goto
  <1>1. /\ UNCHANGED <<image, target, flash, loading, offset, left, address>>
        /\ pc = "i2cWrite" /\ result # "ok" /\ target = "I2C"
    BY DEF I2cWrite, program, boot, loops, RomInv, FileInv, EepromInv
  <1>2. CASE Fail /\ UNCHANGED <<job, rom>>
    BY <1>1, <1>2, Names, ElsewhereKeeps
  <1>3. ASSUME job.dev \in RomAddresses,
               rom' = [rom EXCEPT ![job.dev] = Stored(@, image)] \/ UNCHANGED rom,
               IF job.left > Piece THEN job' = Rest /\ Goto("i2cWrite")
               ELSE /\ job' = [job EXCEPT !.at = 0, !.from = @ + Piece - job.all, !.left = job.all]
                    /\ Goto("i2cVerify")
        PROVE  RomInv'
    <2>1. Writing /\ HeldTo(PartStart)
      BY <1>1 DEF RomInv, EepromInv, Writing
    <2>2. /\ job.at \in Nat /\ job.left \in Nat /\ job.at + job.left = job.all
          /\ PartStart \in Nat /\ job.from = PartStart + job.at /\ job \in Jobs
      BY <2>1, WritingFacts DEF Jobs
    <2>3. /\ Piece \in Nat /\ Piece <= job.left /\ (job.left <= Piece => Piece = job.left)
      BY <2>2, PieceFacts
    <2>4. DOMAIN rom' = DOMAIN rom /\ \A d \in RomAddresses : DOMAIN rom'[d] = DOMAIN rom[d]
      BY <1>3 DEF Stored, RomInv, FileInv
    <2>5. FileInv'
      BY <1>1, <1>3, <2>4, Names DEF RomInv, FileInv
    <2>6. \A d \in RomAddresses : d # job.dev => rom'[d] = rom[d]
      BY <1>3 DEF RomInv, FileInv
    <2> DEFINE n == PartStart
    <2> DEFINE Still(m) == \A p \in 0 .. m - 1 : RomWord(p)' = Word(image, p)
    <2>7. Still(n)
      <3>1. ASSUME NEW p \in 0 .. n - 1 PROVE RomWord(p)' = Word(image, p)
        <4>1. RomWord(p) = Word(image, p) /\ ChipAddress(p) # job.dev /\ ChipAddress(p) \in RomAddresses
          BY <1>3, <2>1, <3>1, BeforeIsElsewhere DEF HeldTo
        <4>2. RomWord(p)' = rom'[ChipAddress(p)][Within(p)]
          BY <1>1 DEF RomWord, ChipAddress, Within, Chip
        <4>3. rom'[ChipAddress(p)] = rom[ChipAddress(p)]
          BY <2>6, <4>1
        <4> QED BY <4>1, <4>2, <4>3, RomWordIs
      <3> QED BY <3>1
    <2> HIDE DEF n, Still
    <2>8. /\ PartStart' = n /\ job'.dev = job.dev /\ job'.all = job.all
          /\ job' \in Jobs /\ job'.at + job'.left = job'.all
          /\ pc' = "i2cWrite" \/ (pc' = "i2cVerify" /\ job'.from = n)
          /\ result' = result
      <3>1. CASE job.left > Piece
        BY <1>3, <2>2, <2>3, <3>1, RestIs DEF PartStart, n
      <3>2. CASE ~(job.left > Piece)
        <4>1. job.from + Piece - job.all = n /\ n \in Nat /\ job.all \in Nat
          BY <2>2, <2>3, <3>2 DEF Jobs, n
        <4>2. job' = [job EXCEPT !.at = 0, !.from = n, !.left = job.all] /\ pc' = "i2cVerify"
          BY <1>3, <3>2, <4>1
        <4>3. /\ job' \in Jobs /\ job'.dev = job.dev /\ job'.all = job.all
              /\ job'.at = 0 /\ job'.from = n /\ job'.left = job.all
          BY <2>2, <4>1, <4>2 DEF Jobs
        <4> QED BY <1>3, <3>2, <4>1, <4>2, <4>3 DEF PartStart
      <3> QED BY <3>1, <3>2
    <2>9. Size' = Size /\ Chip' = Chip /\ Total' = Total
      BY <1>1 DEF Size, Chip, Total
    <2>10. PartInv'
      BY <1>1, <2>1, <2>8, <2>9 DEF PartInv, RomInv, EepromInv, n
    <2>11. HeldTo(PartStart)' /\ (pc' = "i2cVerify" => HeldTo(job.from)')
      BY <1>1, <2>7, <2>8 DEF HeldTo, Still
    <2>12. EepromInv'
      BY <1>1, <2>8, <2>9, <2>10, <2>11 DEF RomInv, EepromInv
    <2>13. FlashInv'
      BY <2>8 DEF FlashInv
    <2> QED BY <1>1, <2>5, <2>8, <2>12, <2>13 DEF RomInv, RomHoldsImage
  <1> QED BY <1>2, <1>3 DEF I2cWrite

LEMMA I2cVerifyKeeps == ASSUME RomInv, I2cVerify PROVE RomInv'
  <1> USE DEF Fail, Goto
  <1>1. /\ UNCHANGED <<image, target, flash, rom, loading>>
        /\ pc = "i2cVerify" /\ result # "ok" /\ target = "I2C"
    BY DEF I2cVerify, program, boot, memory, RomInv, FileInv, EepromInv
  <1>2. CASE Fail
    BY <1>1, <1>2, Names, ElsewhereKeeps
  <1>3. ASSUME AsExpected,
               IF job.left > Piece
               THEN job' = Rest /\ Goto("i2cVerify") /\ UNCHANGED <<offset, left, address>>
               ELSE PartDone
        PROVE  RomInv'
    <2>1. Writing /\ HeldTo(job.from)
      BY <1>1 DEF RomInv, EepromInv, Writing
    <2>2. /\ job.at \in Nat /\ job.left \in Nat /\ job.at + job.left = job.all
          /\ PartStart \in Nat /\ job.from = PartStart + job.at /\ job \in Jobs
      BY <2>1, WritingFacts DEF Jobs
    <2>3. /\ Piece \in Nat /\ Piece <= job.left /\ (job.left <= Piece => Piece = job.left)
      BY <2>2, PieceFacts
    <2> DEFINE n == job.from + Piece
    <2>4. HeldTo(n)
      <3>1. SUFFICES ASSUME NEW p \in 0 .. n - 1, p >= job.from PROVE RomWord(p) = Word(image, p)
        BY <2>1, <2>2, <2>3 DEF HeldTo
      <3>2. PICK i \in 0 .. Piece - 1 : p = job.from + i
        <4>1. p - job.from \in 0 .. Piece - 1 /\ p = job.from + (p - job.from)
          BY <2>2, <2>3, <3>1
        <4> QED BY <4>1
      <3>3. job.at + i \in 0 .. job.all - 1 /\ p = PartStart + (job.at + i)
        BY <2>2, <2>3, <3>2
      <3>4. ChipAddress(p) = job.dev /\ Within(p) = job.at + i
        BY <2>1, <3>3, PartIsThere
      <3>5. rom[job.dev][job.at + i] = Word(image, job.from + i)
        BY <1>3, <3>2 DEF AsExpected
      <3> QED BY <3>2, <3>4, <3>5, RomWordIs
    <2> DEFINE Still(m) == \A p \in 0 .. m - 1 : RomWord(p)' = Word(image, p)
    <2>5. Still(n)
      BY <1>1, <2>4 DEF HeldTo, RomWord
    <2>6. /\ offset + left = Total /\ address \in Nat /\ offset \in Nat /\ left \in Nat
          /\ offset = address * Chip /\ PartInv /\ left > 0 /\ Len(image.words) <= MaxImage
      BY <1>1 DEF RomInv, EepromInv
    <2>7. Chip' = Chip /\ Total' = Total /\ (left' = left => Size' = Size)
      BY <1>1 DEF Size, Chip, Total
    <2>8. FlashInv'
      BY <1>3 DEF FlashInv, PartDone
    <2>9. FileInv' /\ result' = result
      BY <1>1, <1>3, Names DEF RomInv, FileInv, PartDone
    <2> HIDE DEF n, Still
    <2>10. CASE job.left > Piece
      <3>1. job' = Rest /\ pc' = "i2cVerify" /\ UNCHANGED <<offset, left, address>>
        BY <1>3, <2>10
      <3>2. /\ PartStart' = PartStart /\ job'.dev = job.dev /\ job'.all = job.all
            /\ job' \in Jobs /\ job'.at + job'.left = job'.all
            /\ job'.from = n
        BY <2>2, <2>3, <3>1, RestIs DEF PartStart, n
      <3>3. PartInv'
        BY <2>6, <2>7, <3>1, <3>2 DEF PartInv
      <3>4. HeldTo(job.from)'
        BY <1>1, <2>5, <3>2 DEF HeldTo, Still
      <3>5. EepromInv'
        BY <1>1, <2>6, <2>7, <3>1, <3>3, <3>4 DEF EepromInv
      <3> QED BY <1>1, <2>8, <2>9, <3>5 DEF RomInv, RomHoldsImage
    <2>11. CASE ~(job.left > Piece)
      <3>1. PartDone /\ Piece = job.left
        BY <1>3, <2>2, <2>3, <2>11
      <3>2. job.from + Piece - job.all = PartStart /\ n = PartStart + job.all
        BY <2>2, <3>1 DEF n
      <3>3. Size \in Nat \ {0} /\ Size <= left /\ Size <= Chip /\ (left > Chip => Size = Chip)
            /\ (left <= Chip => Size = left) /\ Chip \in Nat \ {0} /\ SlaveWords \in Nat \ {0}
        BY <2>1, WritingFacts, ChipSizes, Constants DEF Writing
      <3>4. CASE PartStart = offset /\ Size > SlaveWords
        <4>1. job' = HighPart /\ pc' = "i2cWrite" /\ UNCHANGED <<offset, left, address>>
          BY <3>1, <3>2, <3>4 DEF PartDone
        <4>2. n = offset + SlaveWords
          BY <2>1, <3>2, <3>3, <3>4, WritingFacts
        <4>3. PartStart' = n
          BY <2>6, <3>3, <4>1, <4>2 DEF HighPart, PartStart
        <4>4. PartInv'
          BY <2>6, <2>7, <3>3, <3>4, <4>1, <4>2, <4>3 DEF PartInv, HighPart, Jobs
        <4>5. HeldTo(PartStart)'
          BY <1>1, <2>5, <4>3 DEF HeldTo, Still
        <4>6. EepromInv'
          BY <1>1, <2>6, <2>7, <4>1, <4>4, <4>5 DEF EepromInv
        <4> QED BY <1>1, <2>8, <2>9, <4>6 DEF RomInv, RomHoldsImage
      <3>5. CASE ~(PartStart = offset /\ Size > SlaveWords)
        <4>1. /\ offset' = offset + Size /\ left' = left - Size /\ address' = address + 1
              /\ pc' = "eeprom"
          BY <3>1, <3>2, <3>5 DEF PartDone
        <4>2. n = offset + Size
          <5>1. CASE PartStart = offset /\ Size <= SlaveWords /\ job.all = Size
            BY <3>2, <5>1
          <5>2. CASE PartStart = offset + SlaveWords /\ job.all = Size - SlaveWords
            BY <2>6, <3>2, <3>3, <5>2
          <5> QED BY <2>1, <3>3, <3>5, <5>1, <5>2, WritingFacts
        <4>3. HeldTo(offset)'
          BY <1>1, <2>5, <4>1, <4>2 DEF HeldTo, Still
        <4>4. address * Chip + Chip = (address + 1) * Chip
          BY <2>6, <3>3
        <4>5. offset' <= (address + 1) * Chip /\ (left' > 0 => offset' = (address + 1) * Chip)
          BY <2>6, <3>3, <4>1, <4>4
        <4>6. EepromInv'
          BY <1>1, <2>6, <2>7, <3>3, <4>1, <4>3, <4>5 DEF EepromInv
        <4> QED BY <1>1, <2>8, <2>9, <4>6 DEF RomInv, RomHoldsImage
      <3> QED BY <3>4, <3>5
    <2> QED BY <2>10, <2>11
  <1> QED BY <1>2, <1>3 DEF I2cVerify

\* The steps that go on with the flash leave EEPROMs alone.
LEMMA FlashFrame ==
  ASSUME RomInv, pc \in {"erase", "poll", "spiWrite"}, pc' \in {"erase", "poll", "spiWrite"},
         UNCHANGED <<image, target, rom, loading, left, result>>,
         DOMAIN flash' = DOMAIN flash, FlashInv'
  PROVE  RomInv'
  <1>1. result # "ok"
    BY DEF RomInv, FileInv
  <1>2. FileInv'
    BY Names DEF RomInv, FileInv
  <1> QED BY <1>1, <1>2 DEF RomInv, EepromInv, RomHoldsImage

LEMMA FlashFacts ==
  ASSUME RomInv, pc \in {"erase", "poll", "spiWrite"}
  PROVE  /\ target = "SPI" /\ Len(image.words) <= MaxImage /\ left = Total /\ result # "ok"
         /\ left \in Nat /\ left <= MaxImage /\ left % PageWords = 0 /\ Len(image.words) <= left
         /\ Len(image.words) \in Nat /\ 0 .. left - 1 \subseteq DOMAIN flash
         /\ SectorWords \in Nat \ {0}
  <1>1. target = "SPI" /\ Len(image.words) <= MaxImage /\ left = Total /\ result # "ok"
    BY DEF RomInv, FlashInv, FileInv
  <1>2. Len(image.words) \in Nat
    BY ChipSizes DEF RomInv
  <1>3. left \in Nat /\ left <= MaxImage /\ left % PageWords = 0 /\ Len(image.words) <= left
    BY <1>1, <1>2, Constants, RoundUpFacts DEF Total
  <1> QED BY <1>1, <1>2, <1>3, Constants DEF RomInv, FileInv

LEMMA EraseKeeps == ASSUME RomInv, Erase PROVE RomInv'
  <1> USE DEF Fail, Goto
  <1>1. /\ UNCHANGED <<image, target, rom, flash, loading, left, sector>> /\ pc = "erase"
    BY DEF Erase, program, boot, memory
  <1>2. CASE Fail
    BY <1>1, <1>2, Names, FlashFacts, ElsewhereKeeps
  <1>3. CASE Goto("poll")
    <2>1. FlashInv'
      BY <1>1, <1>3 DEF RomInv, FlashInv, Total
    <2> QED BY <1>1, <1>3, <2>1, FlashFrame
  <1> QED BY <1>2, <1>3 DEF Erase

LEMMA ErasedKeeps == ASSUME RomInv, Erased PROVE RomInv'
  <1> USE DEF Goto
  <1>1. /\ UNCHANGED <<image, target, rom, flash, loading, left, result>>
        /\ pc = "erase" /\ pc' = "spiWrite" /\ sector = Sectors
        /\ job' = [dev |-> 0, at |-> 0, from |-> 0, left |-> left, all |-> left]
    BY DEF Erased, program, boot, loops, memory
  <1>2. left \in Nat /\ left % PageWords = 0 /\ SectorWords \in Nat \ {0}
    BY <1>1, FlashFacts
  <1>3. ASSUME NEW a \in 0 .. left - 1 PROVE flash[a] = Blank
    <2> DEFINE q == a \div SectorWords
               k == (left + SectorWords - 1) \div SectorWords
    <2>1. /\ q \in Nat /\ a % SectorWords \in Nat /\ a = SectorWords * q + (a % SectorWords)
          /\ k \in Nat /\ (left + SectorWords - 1) % SectorWords < SectorWords
          /\ (left + SectorWords - 1) % SectorWords \in Nat
          /\ left + SectorWords - 1 = SectorWords * k + ((left + SectorWords - 1) % SectorWords)
      BY <1>2
    <2>2. k = sector /\ (q < sector => flash[a] = Blank)
      BY <1>1 DEF Sectors, RomInv, FlashInv
    <2> HIDE DEF q, k
    <2>3. q < k
      <3>1. SUFFICES ASSUME q >= k PROVE FALSE
        BY <2>1
      <3>2. SectorWords * (q - k) >= 0 /\ SectorWords * (q - k) = SectorWords * q - SectorWords * k
        BY <1>2, <2>1, <3>1
      <3> QED BY <1>2, <2>1, <3>2
    <2> QED BY <2>2, <2>3
  <1>4. FlashInv'
    BY <1>1, <1>2, <1>3 DEF RomInv, FlashInv, Total, Jobs
  <1> QED BY <1>1, <1>4, FlashFrame

LEMMA ReadyKeeps == ASSUME RomInv, Ready PROVE RomInv'
  <1> USE DEF Goto
  <1>1. /\ UNCHANGED <<image, target, rom, loading, left, result>>
        /\ pc = "poll" /\ pc' = "erase" /\ sector' = sector + 1
        /\ flash' = [a \in DOMAIN flash |-> IF a \div SectorWords = sector THEN Blank ELSE flash[a]]
    BY DEF Ready, program, boot
  <1>2. sector \in Nat /\ \A a \in 0 .. left - 1 : a \div SectorWords < sector => flash[a] = Blank
    BY <1>1 DEF RomInv, FlashInv
  <1>3. ASSUME NEW a \in 0 .. left - 1, a \div SectorWords < sector' PROVE flash'[a] = Blank
    <2>1. a \div SectorWords \in Nat /\ a \in DOMAIN flash
      BY <1>1, FlashFacts
    <2> QED BY <1>1, <1>2, <1>3, <2>1
  <1>4. FlashInv'
    BY <1>1, <1>2, <1>3 DEF RomInv, FlashInv, Total
  <1> QED BY <1>1, <1>4, FlashFrame

LEMMA BusyKeeps == ASSUME RomInv, Busy PROVE RomInv'
  <1> USE DEF Fail, Goto
  <1>1. UNCHANGED <<image, target, rom, flash, loading, left, sector>> /\ pc = "poll"
    BY DEF Busy, program, boot, memory
  <1>2. CASE Fail
    BY <1>1, <1>2, Names, FlashFacts, ElsewhereKeeps
  <1>3. CASE Goto("poll")
    <2>1. FlashInv'
      BY <1>1, <1>3 DEF RomInv, FlashInv, Total
    <2> QED BY <1>1, <1>3, <2>1, FlashFrame
  <1> QED BY <1>2, <1>3 DEF Busy

\* A write of whole pages goes on where it ends.
LEMMA WholePages ==
  ASSUME NEW n \in Nat, n % PageWords = 0 PROVE (n \div PageWords) * PageWords = n
  BY Constants

LEMMA PagesLeft ==
  ASSUME NEW n \in Nat, NEW m \in Nat, m <= n, n % PageWords = 0, m % PageWords = 0
  PROVE  (n - m) % PageWords = 0
  <1> DEFINE v == PageWords
             j == n \div v
             k == m \div v
  <1>1. v \in Nat \ {0} /\ j \in Nat /\ k \in Nat /\ n = v * j /\ m = v * k
    BY Constants
  <1> HIDE DEF v, j, k
  <1>2. j >= k
    <2>1. SUFFICES ASSUME j < k PROVE FALSE
      BY <1>1
    <2>2. v * (k - j) >= v /\ v * (k - j) = v * k - v * j
      BY <1>1, <2>1
    <2> QED BY <1>1, <2>2
  <1>3. j - k \in Nat /\ n - m = (j - k) * v + 0 /\ 0 \in 0 .. v - 1
    BY <1>1, <1>2
  <1>4. ((j - k) * v + 0) % v = 0
    BY <1>1, <1>3, DivMod
  <1> QED BY <1>3, <1>4 DEF v

LEMMA SpiWriteKeeps == ASSUME RomInv, SpiWrite PROVE RomInv'
  <1> USE DEF Fail, Succeed, Goto
  <1>1. UNCHANGED <<image, target, rom, loading, left>> /\ pc = "spiWrite"
    BY DEF SpiWrite, program, boot, loops
  <1>2. CASE Fail /\ UNCHANGED <<job, flash>>
    BY <1>1, <1>2, Names, FlashFacts, ElsewhereKeeps
  <1>3. ASSUME flash' = [a \in DOMAIN flash |-> Programmed(flash[a], Stored(flash, image)[a])],
               job' = [Rest EXCEPT !.at = job.at + (Piece \div PageWords) * PageWords],
               IF job.left > Piece THEN Goto("spiWrite") ELSE Succeed
        PROVE  RomInv'
    <2>1. /\ job \in Jobs /\ job.from = job.at /\ job.at + job.left = left
          /\ job.left % PageWords = 0
          /\ \A a \in 0 .. job.at - 1 : flash[a] = Word(image, a)
          /\ \A a \in job.at .. left - 1 : flash[a] = Blank
      BY <1>1 DEF RomInv, FlashInv
    <2>2. job.at \in Nat /\ job.left \in Nat
      BY <2>1 DEF Jobs
    <2>3. /\ Piece \in Nat /\ Piece <= job.left /\ (job.left <= Piece => Piece = job.left)
          /\ Piece % PageWords = 0
      BY <2>1, <2>2, PieceFacts, Constants
    <2>4. (Piece \div PageWords) * PageWords = Piece /\ (job.left - Piece) % PageWords = 0
      BY <2>1, <2>2, <2>3, WholePages, PagesLeft
    <2>5. ASSUME NEW a \in 0 .. left - 1
          PROVE  flash'[a] = IF a < job.at + Piece THEN Word(image, a) ELSE Blank
      <3>1. a \in DOMAIN flash
        BY <1>1, FlashFacts
      <3>2. flash'[a] = Programmed(flash[a], Stored(flash, image)[a])
        BY <1>3, <3>1
      <3>3. Stored(flash, image)[a] = IF a \in job.at .. job.at + Piece - 1
                                      THEN Word(image, job.from + (a - job.at)) ELSE flash[a]
        BY <3>1 DEF Stored
      <3>4. CASE a \in job.at .. job.at + Piece - 1
        <4>1. job.from + (a - job.at) = a /\ flash[a] = Blank
          BY <1>1, <2>1, <2>2, FlashFacts, <3>4
        <4> QED BY <2>2, <2>3, <3>2, <3>3, <3>4, <4>1 DEF Programmed
      <3>5. CASE a \notin job.at .. job.at + Piece - 1
        <4>1. flash'[a] = flash[a]
          BY <3>2, <3>3, <3>5 DEF Programmed
        <4>2. a \in 0 .. job.at - 1 \/ (a \in job.at .. left - 1 /\ ~(a < job.at + Piece))
          BY <2>2, <2>3, <3>5
        <4>3. a \in 0 .. job.at - 1 => a < job.at + Piece
          BY <2>2, <2>3
        <4> QED BY <2>1, <4>1, <4>2, <4>3
      <3> QED BY <3>4, <3>5
    <2>6. DOMAIN flash' = DOMAIN flash
      BY <1>3
    <2>7. CASE job.left > Piece
      <3>1. pc' = "spiWrite" /\ result' = result
        BY <1>3, <2>7
      <3>2. /\ Rest \in Jobs /\ Rest.at = job.at + Piece /\ Rest.from = job.from + Piece
            /\ Rest.left = job.left - Piece
        BY <2>1, RestIs
      <3>3. job' = Rest
        BY <1>3, <2>4, <3>2 DEF Jobs
      <3>4. job'.at \in Nat /\ job'.at + job'.left = left /\ job'.from = job'.at
        BY <2>1, <2>2, <2>3, <3>2, <3>3
      <3>5. /\ \A a \in 0 .. job'.at - 1 : flash'[a] = Word(image, a)
            /\ \A a \in job'.at .. left - 1 : flash'[a] = Blank
        <4>1. job'.at = job.at + Piece /\ job'.at <= left /\ left \in Nat
          BY <1>1, <2>1, <2>2, <2>3, <3>2, <3>3, FlashFacts
        <4> QED BY <2>2, <2>3, <2>5, <4>1
      <3>6. FlashInv'
        BY <1>1, <2>4, <3>1, <3>2, <3>3, <3>4, <3>5, FlashFacts DEF FlashInv, Total
      <3> QED BY <1>1, <2>6, <3>1, <3>6, FlashFrame
    <2>8. CASE ~(job.left > Piece)
      <3>1. pc' = "done" /\ result' = "ok"
        BY <1>3, <2>8
      <3>2. job.at + Piece = left
        BY <2>1, <2>2, <2>3, <2>8
      <3>3. \A p \in 0 .. Len(image.words) - 1 : flash'[p] = Word(image, p)
        BY <1>1, <2>5, <3>2, FlashFacts
      <3>4. RomHoldsImage'
        BY <1>1, <3>3, FlashFacts DEF RomHoldsImage
      <3>5. FileInv'
        BY <1>1, <2>6, <3>1, Names DEF RomInv, FileInv
      <3> QED BY <3>1, <3>4, <3>5 DEF RomInv, EepromInv, FlashInv
    <2> QED BY <2>7, <2>8
  <1> QED BY <1>2, <1>3 DEF SpiWrite

-----------------------------------------------------------------------------

\* What the loader is given is a sequence of words with the size code of an
\* EEPROM, whatever the file has become.
LEMMA FilesKeep ==
  ASSUME NEW e \in Elfs, NEW c \in Codes, NEW v \in BOOLEAN, NEW t,
         NEW f \in Files(ElfToImage(e, c, v), t)
  PROVE  f.code \in Codes /\ f.words \in Seq(Nat)
  <1> DEFINE img == ElfToImage(e, c, v)
  <1>1. PICK H, S : Whole(e, v, img.words, H, S)
    BY WholeImage
  <1>2. img = [code |-> img.code, exec |-> img.exec, words |-> img.words] /\ img.code = c
    BY DEF ElfToImage
  <1> HIDE DEF img
  <1>3. f.code = img.code /\ \E p : Given(f.words, img.words, H, p)
    BY <1>1, <1>2, FilesGiven DEF img
  <1> QED BY <1>2, <1>3 DEF Given

LEMMA RomInit == Init => RomInv
  <1> SUFFICES ASSUME Init PROVE RomInv
    OBVIOUS
  <1>1. PICK c \in Codes : image \in Files(ElfToImage(elf, c, vectors), target)
    BY DEF Init
  <1>2. elf \in Elfs /\ vectors \in BOOLEAN
    BY DEF Init
  <1>3. image.code \in Codes /\ image.words \in Seq(Nat)
    BY <1>1, <1>2, FilesKeep
  <1>4. /\ DOMAIN flash = 0 .. MaxImage - 1 /\ DOMAIN rom = RomAddresses
        /\ \A d \in RomAddresses : DOMAIN rom[d] = 0 .. SlaveWords - 1
    BY DEF Init
  <1>5. target \in Targets /\ pc = "open" /\ result = "none" /\ loading = "user"
    BY DEF Init
  <1>6. FileInv
    BY <1>3, <1>4, <1>5, Names DEF FileInv
  <1> QED BY <1>5, <1>6 DEF RomInv, EepromInv, FlashInv, RomHoldsImage

LEMMA RomNext ==
  ASSUME MaxImage <= 8 * SlaveWords PROVE RomInv /\ [Next]_vars => RomInv'
  <1> SUFFICES ASSUME RomInv, [Next]_vars PROVE RomInv'
    OBVIOUS
  <1>1. CASE LoadRam
    BY <1>1, LoadRamKeeps
  <1>2. CASE Main \/ FindProgrammer \/ OtherMoves
    BY <1>2, FindKeeps
  <1>3. CASE WriteRom
    BY <1>3, ReadKeeps, EepromKeeps, I2cWriteKeeps, I2cVerifyKeeps, EraseKeeps, ErasedKeeps,
       ReadyKeeps, BusyKeeps, SpiWriteKeeps DEF WriteRom
  <1>4. CASE BoardReturns \/ UNCHANGED vars
    BY <1>4, SameKeeps DEF BoardReturns, vars, program, boot, loops, memory
  <1> QED BY <1>1, <1>2, <1>3, <1>4 DEF Next, Loader

\* When the tool says that the image is written, EEPROMs and flash hold it, read
\* in the order of the boot loader, for every image, size code, size of pages,
\* sectors and requests (download_fx3.cpp:430, 539).  The condition on the sizes
\* is that of the code, 512 KB and 64 KB: a longer image would be written over
\* the second half of the first EEPROM of 128 KB.
THEOREM RomHolds ==
  ASSUME MaxImage <= 8 * SlaveWords PROVE Spec => []RomHoldsImage
  <1>1. RomInv => RomHoldsImage
    BY DEF RomInv
  <1> QED BY <1>1, RomInit, RomNext, PTL DEF Spec

-----------------------------------------------------------------------------
(* Loading into RAM.                                                        *)

\* What the loader has summed up before position q of an image with sums S.
SumTo(S, p, q) == IF p # 0 /\ p < q THEN Next1(S[q]) ELSE S[q]

\* A wrong word is none of the words that say where a section is.
LEMMA HeadKept ==
  ASSUME NEW e, NEW v, NEW W, NEW H, NEW S, Whole(e, v, W, H, S), NEW V, NEW p, Given(V, W, H, p),
         NEW q \in H
  PROVE  /\ q <= Len(V) => V[q] = W[q]
         /\ q + 1 <= Len(V) => V[q + 1] = W[q + 1]
         /\ p \in Nat /\ Len(V) \in Nat /\ (p # 0 => p \notin {q, q + 1})
         /\ q # TrailerAt(W) /\ p # 0 =>
              p < q \/ p \in q + 2 .. q + 1 + W[q] \/ p >= q + 2 + W[q]
  <1>1. /\ q \in Nat /\ 2 <= q /\ q <= TrailerAt(W) /\ W[q] \in Nat
        /\ TrailerAt(W) \in Nat /\ Len(W) = TrailerAt(W) + 2
        /\ q # TrailerAt(W) => q + 2 + W[q] <= TrailerAt(W)
    BY WholePlace
  <1>2. V \in Seq(Nat) /\ Len(V) \in Nat /\ p \in Nat
        /\ \A i \in 1 .. Len(V) : V[i] = IF i = p THEN Next1(W[i]) ELSE W[i]
    BY DEF Given
  <1>3. p # 0 => p \notin {q, q + 1}
    <2> SUFFICES ASSUME p # 0 PROVE p \notin {q, q + 1}
      OBVIOUS
    <2>1. CASE p = Len(W)
      BY <1>1, <2>1
    <2>2. CASE InBody(W, H, p)
      <3>1. PICK r \in H \ {TrailerAt(W)} : p \in r + 2 .. r + 1 + W[r]
        BY <2>2 DEF InBody
      <3>2. r \in Nat /\ W[r] \in Nat /\ r + 2 + W[r] <= TrailerAt(W) /\ W[r] > 0
        BY WholePlace
      <3>3. /\ q < r => q + 2 + W[q] <= r
            /\ r < q => r + 2 + W[r] <= q
        BY DEF Whole
      <3> QED BY <1>1, <3>1, <3>2, <3>3
    <2> QED BY <2>1, <2>2 DEF Given
  <1>4. p # q /\ p # q + 1
    BY <1>1, <1>3
  <1>5. (q <= Len(V) => V[q] = W[q]) /\ (q + 1 <= Len(V) => V[q + 1] = W[q + 1])
    BY <1>1, <1>2, <1>4
  <1>6. q # TrailerAt(W) => p < q \/ p \in q + 2 .. q + 1 + W[q] \/ p >= q + 2 + W[q]
    <2>1. \A x, m, y \in Nat : y # x /\ y # x + 1 => y < x \/ y \in x + 2 .. x + 1 + m \/ y >= x + 2 + m
      OBVIOUS
    <2> QED BY <1>1, <1>2, <1>4, <2>1
  <1> QED BY <1>2, <1>3, <1>5, <1>6

\* The sum goes on over a section, with the wrong word before, in or after it.
LEMMA SectionSum ==
  ASSUME NEW e, NEW v, NEW W, NEW H, NEW S, Whole(e, v, W, H, S), NEW V, NEW p, Given(V, W, H, p),
         NEW q \in H \ {TrailerAt(W)}, q + 2 + W[q] <= Len(V)
  PROVE  SumTo(S, p, q + 2 + W[q]) = (SumTo(S, p, q) + WordSum(Body(V, q))) % WordMod
  <1> DEFINE r == q + 2 + W[q]
             b == Body(W, q)
             d == Body(V, q)
  <1>1. /\ q \in Nat /\ 2 <= q /\ W[q] \in Nat /\ W[q] > 0 /\ r \in H
        /\ SectionAt(W, H, S, 0 .. MemWords - 1, q)
    BY WholePlace
  <1>2. /\ V[q] = W[q] /\ p \in Nat /\ Len(V) \in Nat
        /\ p # 0 => p < q \/ p \in q + 2 .. q + 1 + W[q] \/ p >= r
    BY <1>1, HeadKept
  <1>3. b \in Seq(Words) /\ S[r] = (S[q] + WordSum(b)) % WordMod /\ S[q] \in Words /\ S[r] \in Words
    BY <1>1 DEF SectionAt, Whole
  <1>4. WordSum(b) \in Words
    BY <1>3, SumType
  <1>5. \A i \in 1 .. W[q] : /\ q + 1 + i \in 1 .. Len(V)
                             /\ b[i] = W[q + 1 + i] /\ d[i] = V[q + 1 + i]
    BY <1>1, <1>2 DEF Body
  <1>6. \A i \in 1 .. W[q] : d[i] = IF q + 1 + i = p THEN Next1(b[i]) ELSE b[i]
    BY <1>5 DEF Given
  <1>7. Len(b) = W[q] /\ DOMAIN d = 1 .. W[q] /\ d = [i \in 1 .. W[q] |-> d[i]]
    BY <1>1, <1>2 DEF Body
  <1>8. p # 0 => WordMod > 1
    BY DEF Given
  <1> HIDE DEF b, d
  <1>9. CASE p = 0 \/ p < q \/ p >= r
    <2>1. \A i \in 1 .. W[q] : q + 1 + i # p
      BY <1>1, <1>2, <1>9
    <2>2. d = b
      <3>1. \A i \in 1 .. W[q] : d[i] = b[i]
        BY <1>6, <2>1
      <3>2. DOMAIN b = 1 .. W[q] /\ b = [i \in 1 .. W[q] |-> b[i]]
        BY <1>3, <1>7
      <3> QED BY <1>7, <3>1, <3>2
    <2>3. CASE p # 0 /\ p < q
      <3>1. p < r
        BY <1>1, <1>2, <2>3
      <3>2. SumTo(S, p, r) = Next1(S[r]) /\ SumTo(S, p, q) = Next1(S[q])
        BY <2>3, <3>1 DEF SumTo
      <3>3. (Next1(S[q]) + WordSum(b)) % WordMod = Next1((S[q] + WordSum(b)) % WordMod)
        BY <1>3, <1>4, <1>8, <2>3, NextAdds
      <3> QED BY <1>3, <2>2, <3>2, <3>3 DEF d
    <2>4. CASE p = 0 \/ p >= r
      <3>1. ~(p # 0 /\ p < r) /\ ~(p # 0 /\ p < q)
        BY <1>1, <1>2, <2>4
      <3> QED BY <1>3, <2>2, <3>1 DEF SumTo, d
    <2> QED BY <1>9, <2>3, <2>4
  <1>10. CASE p \in q + 2 .. q + 1 + W[q] /\ p # 0
    <2> DEFINE k == p - q - 1
    <2>1. k \in 1 .. W[q] /\ \A i \in 1 .. W[q] : q + 1 + i = p <=> i = k
      BY <1>1, <1>2, <1>10
    <2>2. p < r /\ ~(p < q)
      BY <1>1, <1>2, <1>10
    <2> HIDE DEF k
    <2>3. \A i \in 1 .. Len(b) : d[i] = IF i = k THEN Next1(b[i]) ELSE b[i]
      BY <1>6, <1>7, <2>1
    <2>4. d \in Seq(Words) /\ Len(d) = Len(b)
      <3>1. \A i \in 1 .. W[q] : b[i] \in Words
        BY <1>3, <1>7
      <3>2. \A i \in 1 .. W[q] : d[i] \in Words
        BY <1>7, <1>8, <1>10, <2>3, <3>1, NextAdds
      <3>3. d \in [1 .. W[q] -> Words]
        <4>1. [i \in 1 .. W[q] |-> d[i]] \in [1 .. W[q] -> Words]
          BY <3>2
        <4> QED BY <1>7, <4>1
      <3>4. \A n \in Nat : \A s \in [1 .. n -> Words] : s \in Seq(Words) /\ Len(s) = n
        OBVIOUS
      <3> QED BY <1>1, <1>7, <3>3, <3>4
    <2>5. WordSum(d) = Next1(WordSum(b))
      BY <1>3, <1>7, <1>8, <1>10, <2>1, <2>3, <2>4, SumOfWrong
    <2>6. (S[q] + Next1(WordSum(b))) % WordMod = Next1((S[q] + WordSum(b)) % WordMod)
      BY <1>3, <1>4, <1>8, <1>10, NextAdds
    <2> QED BY <1>3, <1>10, <2>2, <2>5, <2>6 DEF SumTo, d
  <1> QED BY <1>2, <1>9, <1>10

\* The section at r is in RAM; the ones before position q are.
InRam(V, W, r) == \A i \in 0 .. W[r] - 1 : ram[W[r + 1] + i] = V[r + 2 + i]
LoadedTo(V, W, H, q) == \A r \in H : r < q => InRam(V, W, r)

\* Before a section, within it, and before the start.
AtSection(V, W, H, S, p) ==
  /\ index \in Nat
  /\ index < Len(V) =>
       index + 1 \in H /\ checksum = SumTo(S, p, index + 1) /\ LoadedTo(V, W, H, index + 1)

Ahead(V, W, H, S, p, q, done) ==
  /\ checksum = SumTo(S, p, q + 2 + W[q]) /\ LoadedTo(V, W, H, q)
  /\ done \in 0 .. W[q] - 1 /\ job.left = W[q] - done
  /\ job.at = W[q + 1] + done /\ job.from = q + 1 + done
  /\ \A i \in 0 .. done - 1 : ram[W[q + 1] + i] = V[q + 2 + i]

AtRam(V, W, H, S, p) ==
  LET q == index + 1
  IN  /\ index \in Nat /\ q \in H \ {TrailerAt(W)}
      /\ \E d, a, f, l : job = [dev |-> d, at |-> a, from |-> f, left |-> l, all |-> W[q]]
      /\ q + 2 + W[q] <= Len(V) => \E done : Ahead(V, W, H, S, p, q, done)

AtJump(W, H) ==
  /\ LoadedTo(W, W, H, TrailerAt(W))
  /\ Word(image, index + 1) = elf.entry

Stage(V, W, H, S, p) ==
  /\ pc = "section" => AtSection(V, W, H, S, p)
  /\ pc = "ram" => AtRam(V, W, H, S, p)
  /\ pc = "jump" => AtJump(W, H)

\* The file given comes from the whole image W, whose checksum is not zero
\* unless the program starts at zero.
Source(W, H, S, p) ==
  /\ elf \in Elfs /\ Whole(elf, vectors, W, H, S) /\ Given(image.words, W, H, p)
  /\ S[TrailerAt(W)] # 0 \/ elf.entry = 0

Roles ==
  /\ target # "RAM" /\ pc \in RamSteps => loading = "prog"
  /\ target = "RAM" => loading = "user" /\ pc \in RamSteps \cup {"open", "done"}

LoadInv ==
  /\ Roles
  /\ DOMAIN ram = 0 .. MemWords - 1
  /\ entry # Absent => pc = "done" /\ StartedRight
  /\ target = "RAM" =>
       \E W, H, S, p : Source(W, H, S, p) /\ Stage(image.words, W, H, S, p)

\* A program whose words sum up to zero starts at zero.  The loader takes a missing
\* word of the file for a zero (the buffer comes from calloc, download_fx3.cpp:153),
\* so a file that ends within the trailer has the checksum and entry point zero.
ZeroSumStartsAtZero ==
  \A e \in Elfs, c \in Codes, v \in BOOLEAN : Sections(e, c, v).checksum # 0 \/ e.entry = 0

LEMMA LoadInit == ASSUME ZeroSumStartsAtZero, Init PROVE LoadInv
  <1>1. /\ elf \in Elfs /\ vectors \in BOOLEAN /\ target \in Targets
        /\ pc = "open" /\ loading = "user" /\ DOMAIN ram = 0 .. MemWords - 1 /\ entry = Absent
    BY DEF Init
  <1>2. PICK c \in Codes : image \in Files(ElfToImage(elf, c, vectors), target)
    BY DEF Init
  <1>3. Roles
    BY <1>1 DEF Roles, RamSteps
  <1>4. \E W, H, S, p : Source(W, H, S, p) /\ Stage(image.words, W, H, S, p)
    <2> DEFINE img == ElfToImage(elf, c, vectors)
    <2>1. PICK H, S : /\ Whole(elf, vectors, img.words, H, S)
                      /\ S[TrailerAt(img.words)] = Sections(elf, c, vectors).checksum
      BY <1>1, WholeImage
    <2>2. img = [code |-> img.code, exec |-> img.exec, words |-> img.words]
      BY DEF ElfToImage
    <2>3. Sections(elf, c, vectors).checksum # 0 \/ elf.entry = 0
      BY <1>1 DEF ZeroSumStartsAtZero
    <2> HIDE DEF img
    <2>4. PICK p : Given(image.words, img.words, H, p)
      BY <1>2, <2>1, <2>2, FilesGiven DEF img
    <2>5. Source(img.words, H, S, p)
      BY <1>1, <2>1, <2>3, <2>4 DEF Source
    <2>6. Stage(image.words, img.words, H, S, p)
      BY <1>1 DEF Stage
    <2> QED BY <2>5, <2>6
  <1> QED BY <1>1, <1>3, <1>4 DEF LoadInv

LEMMA SourceStays ==
  ASSUME UNCHANGED program
  PROVE  \A W, H, S, p : Source(W, H, S, p)' <=> Source(W, H, S, p)
  BY DEF Source, program

LEMMA StageStays ==
  ASSUME UNCHANGED <<elf, image, pc, index, checksum, job, ram>>
  PROVE  \A V, W, H, S, p : Stage(V, W, H, S, p)' <=> Stage(V, W, H, S, p)
  BY DEF Stage, AtSection, AtRam, AtJump, Ahead, LoadedTo, InRam, Word

LEMMA RightStays ==
  ASSUME UNCHANGED <<elf, vectors, ram, entry>> PROVE StartedRight' <=> StartedRight
  BY DEF StartedRight

\* A step that does not load.
LEMMA ApartKeeps ==
  ASSUME LoadInv, UNCHANGED program, UNCHANGED <<ram, entry>>, Roles',
         entry # Absent => pc' = "done", pc' \notin {"section", "ram", "jump"}
  PROVE  LoadInv'
  <1>1. DOMAIN ram' = 0 .. MemWords - 1
    BY DEF LoadInv
  <1>2. entry' # Absent => pc' = "done" /\ StartedRight'
    BY RightStays DEF LoadInv, program
  <1>3. \A V, W, H, S, p : Stage(V, W, H, S, p)'
    BY DEF Stage
  <1>4. target' = "RAM" =>
          \E W, H, S, p : Source(W, H, S, p)' /\ Stage(image.words, W, H, S, p)'
    <2> SUFFICES ASSUME target = "RAM"
                 PROVE  \E W, H, S, p : Source(W, H, S, p)' /\ Stage(image.words, W, H, S, p)'
      BY DEF program
    <2>1. PICK W, H, S, p : Source(W, H, S, p)
      BY DEF LoadInv
    <2>2. Source(W, H, S, p)' /\ Stage(image.words, W, H, S, p)'
      BY <1>3, <2>1, SourceStays DEF Stage
    <2> QED BY <2>2
  <1> QED BY <1>1, <1>2, <1>4 DEF LoadInv

LEMMA SameLoadKeeps ==
  ASSUME LoadInv, UNCHANGED program, UNCHANGED <<pc, loading, index, checksum, job, ram, entry>>
  PROVE  LoadInv'
  <1>1. Roles' /\ DOMAIN ram' = 0 .. MemWords - 1
    BY DEF LoadInv, Roles, program
  <1>2. entry' # Absent => pc' = "done" /\ StartedRight'
    BY RightStays DEF LoadInv, program
  <1>3. target' = "RAM" =>
          \E W, H, S, p : Source(W, H, S, p)' /\ Stage(image.words, W, H, S, p)'
    <2> SUFFICES ASSUME target = "RAM"
                 PROVE  \E W, H, S, p : Source(W, H, S, p)' /\ Stage(image.words, W, H, S, p)'
      BY DEF program
    <2>1. PICK W, H, S, p : Source(W, H, S, p) /\ Stage(image.words, W, H, S, p)
      BY DEF LoadInv
    <2>2. Source(W, H, S, p)' /\ Stage(image.words, W, H, S, p)'
      BY <2>1, SourceStays, StageStays DEF program
    <2> QED BY <2>2
  <1> QED BY <1>1, <1>2, <1>3 DEF LoadInv

\* The loader is at work only before the board is started.
LEMMA NotStarted == ASSUME LoadInv, pc # "done" PROVE entry = Absent
  BY DEF LoadInv

LEMMA FindLeavesRam ==
  ASSUME LoadInv, Main \/ FindProgrammer \/ WriteRom PROVE LoadInv'
  <1> USE DEF Goto, Fail, Succeed
  <1>1. CASE Main
    <2>1. /\ UNCHANGED program /\ UNCHANGED <<ram, entry, loading>> /\ pc = "open"
          /\ pc' \in {"done", "read", "check"}
          /\ pc' = "read" => target = "RAM"
          /\ pc' = "check" => target # "RAM"
      BY <1>1 DEF Main, boot, memory
    <2>2. Roles'
      BY <2>1, Names DEF LoadInv, Roles, program
    <2>3. entry = Absent
      BY <2>1, NotStarted
    <2> QED BY <2>1, <2>2, <2>3, ApartKeeps
  <1>2. CASE FindProgrammer
    <2>1. /\ UNCHANGED program /\ UNCHANGED <<ram, entry>> /\ pc \in ProgSteps
          /\ pc' \in {"done", "image", "read", "wait", "scan"}
          /\ pc' = "read" => loading' = "prog"
      BY <1>2, Names DEF FindProgrammer, Check, Close, Wait, NotFound, Found, ScanOn, ScanEnds,
                        memory
    <2>2. target # "RAM"
      BY <2>1, Names DEF LoadInv, Roles
    <2>3. Roles'
      BY <2>1, <2>2, Names DEF Roles, program
    <2>4. entry = Absent
      BY <2>1, NotStarted, Names
    <2> QED BY <2>1, <2>3, <2>4, ApartKeeps
  <1>3. CASE WriteRom
    <2>1. /\ UNCHANGED program /\ UNCHANGED <<ram, entry>> /\ pc \in RomSteps \cup {"image"}
          /\ pc' \in RomSteps \cup {"done"}
      <3>1. CASE ReadForRom \/ NextEeprom \/ I2cWrite
        BY <3>1, Names DEF ReadForRom, NextEeprom, I2cWrite, memory
      <3>2. CASE I2cVerify
        BY <3>2, Names DEF I2cVerify, PartDone, memory
      <3>3. CASE Erase \/ Erased \/ Ready
        BY <3>3, Names DEF Erase, Erased, Ready, memory
      <3>4. CASE Busy \/ SpiWrite
        BY <3>4, Names DEF Busy, SpiWrite, memory
      <3> QED BY <1>3, <3>1, <3>2, <3>3, <3>4 DEF WriteRom
    <2>2. target # "RAM"
      BY <2>1, Names DEF LoadInv, Roles
    <2>3. Roles'
      BY <2>1, <2>2, Names DEF Roles, program
    <2>4. entry = Absent
      BY <2>1, NotStarted, Names
    <2> QED BY <2>1, <2>3, <2>4, Names, ApartKeeps
  <1> QED BY <1>1, <1>2, <1>3

\* Loading the programmer starts no program.
LEMMA ProgrammerLoads ==
  ASSUME LoadInv, target # "RAM", LoadRam PROVE LoadInv'
  <1> USE DEF Goto, Fail, Succeed
  <1>1. pc \in RamSteps
    BY Names DEF LoadRam, Read, Section, Trailer, EndOfFile, RamWrite, Jump
  <1>2. loading = "prog" /\ entry = Absent
    BY <1>1, Names, NotStarted DEF LoadInv, Roles
  <1>3. /\ UNCHANGED program /\ UNCHANGED loading /\ entry' = entry
        /\ DOMAIN ram' = DOMAIN ram
    <2>1. CASE Read \/ Section \/ Trailer \/ EndOfFile
      BY <2>1 DEF Read, Section, Trailer, EndOfFile, boot, memory
    <2>2. CASE RamWrite
      BY <2>2 DEF RamWrite, Stored
    <2>3. CASE Jump
      BY <1>2, <2>3 DEF Jump, boot
    <2> QED BY <2>1, <2>2, <2>3 DEF LoadRam
  <1>4. Roles'
    BY <1>2, <1>3 DEF Roles, program
  <1> QED BY <1>2, <1>3, <1>4 DEF LoadInv, program

\* A step of loading into RAM.
LEMMA StageKeeps ==
  ASSUME LoadInv, target = "RAM", pc \in RamSteps, UNCHANGED program, loading' = loading,
         entry' = entry, DOMAIN ram' = DOMAIN ram, pc' \in RamSteps \cup {"done"},
         NEW W, NEW H, NEW S, NEW p, Source(W, H, S, p), Stage(image.words, W, H, S, p)'
  PROVE  LoadInv'
  <1>1. entry' = Absent
    BY NotStarted, Names
  <1>2. Roles'
    BY DEF LoadInv, Roles, program
  <1>3. Source(W, H, S, p)'
    BY SourceStays
  <1>4. DOMAIN ram' = 0 .. MemWords - 1
    BY DEF LoadInv
  <1> QED BY <1>1, <1>2, <1>3, <1>4 DEF LoadInv

LEMMA ReadLoads == ASSUME LoadInv, target = "RAM", Read PROVE LoadInv'
  <1>1. PICK W, H, S, p : Source(W, H, S, p) /\ Stage(image.words, W, H, S, p)
    BY DEF LoadInv
  <1> DEFINE V == image.words
  <1>2. /\ UNCHANGED program /\ loading' = loading /\ entry' = entry /\ ram' = ram
        /\ pc \in RamSteps /\ pc' \in {"section", "done"}
        /\ pc' = "section" => index' = 1 /\ checksum' = 0
    BY Names DEF Read, memory, Fail, Goto
  <1>3. Whole(elf, vectors, W, H, S) /\ Given(V, W, H, p)
    BY <1>1 DEF Source
  <1>4. 2 \in H /\ S[2] = 0 /\ Len(W) \in Nat /\ Len(W) > 2
    BY <1>3 DEF Whole
  <1>5. p = 0 \/ p >= 2
    <2> SUFFICES ASSUME p # 0 PROVE p >= 2
      OBVIOUS
    <2>1. CASE p = Len(W)
      BY <1>4, <2>1
    <2>2. CASE InBody(W, H, p)
      <3>1. PICK r \in H \ {TrailerAt(W)} : p \in r + 2 .. r + 1 + W[r]
        BY <2>2 DEF InBody
      <3>2. r \in Nat /\ W[r] \in Nat
        BY <1>3, WholePlace
      <3> QED BY <3>1, <3>2
    <2> QED BY <1>3, <2>1, <2>2 DEF Given
  <1>6. SumTo(S, p, 2) = 0
    BY <1>3, <1>4, <1>5 DEF SumTo, Given
  <1>7. LoadedTo(V, W, H, 2)'
    <2>1. \A r \in H : ~(r < 2)
      BY <1>3, WholePlace
    <2> QED BY <2>1 DEF LoadedTo
  <1>8. pc' = "section" => AtSection(V, W, H, S, p)'
    BY <1>2, <1>4, <1>6, <1>7 DEF AtSection
  <1>9. Stage(V, W, H, S, p)'
    BY <1>2, <1>8 DEF Stage
  <1> QED BY <1>1, <1>2, <1>9, StageKeeps, Names

LEMMA SectionLoads == ASSUME LoadInv, target = "RAM", Section PROVE LoadInv'
  <1>1. PICK W, H, S, p : Source(W, H, S, p) /\ Stage(image.words, W, H, S, p)
    BY DEF LoadInv
  <1> DEFINE V == image.words
             q == index + 1
             sum == WordSum([i \in 1 .. Length |-> Word(Current, index + 1 + i)])
  <1>2. /\ UNCHANGED program /\ loading' = loading /\ entry' = entry /\ ram' = ram
        /\ index' = index /\ pc = "section" /\ pc' = "ram" /\ index < Len(Current.words) /\ Length # 0
        /\ checksum' = (checksum + sum) % WordMod
        /\ job' = [dev |-> 0, at |-> Word(Current, index + 1), from |-> index + 2,
                   left |-> Length, all |-> Length]
    BY DEF Section, memory, Goto
  <1>3. Current = image
    <2>1. loading = "user"
      BY DEF LoadInv, Roles
    <2> QED BY <2>1 DEF Current
  <1>4. Whole(elf, vectors, W, H, S) /\ Given(V, W, H, p)
    BY <1>1 DEF Source
  <1>5. V \in Seq(Nat) /\ Len(V) \in Nat
    BY <1>4 DEF Given
  <1>6. /\ index \in Nat /\ q <= Len(V) /\ q \in H
        /\ checksum = SumTo(S, p, q) /\ LoadedTo(V, W, H, q)
    BY <1>1, <1>2, <1>3, <1>5 DEF Stage, AtSection
  <1>7. V[q] = W[q] /\ Length = W[q]
    BY <1>2, <1>3, <1>4, <1>6, HeadKept DEF Length, Word
  <1>8. /\ W[q] \in Nat /\ W[q + 1] \in Nat
        /\ q # TrailerAt(W)
    <2>1. W[TrailerAt(W)] = 0
      BY <1>4 DEF Whole
    <2>2. W[q] # 0
      BY <1>2, <1>7
    <2>3. W[q] \in Nat /\ W[q + 1] \in Nat
      BY <1>4, <1>6, WholePlace
    <2> HIDE DEF q
    <2> QED BY <2>1, <2>2, <2>3
  <1>9. \E d, a, f, l : job' = [dev |-> d, at |-> a, from |-> f, left |-> l, all |-> W[q]]
    BY <1>2, <1>7
  <1>10. ASSUME q + 2 + W[q] <= Len(V) PROVE Ahead(V, W, H, S, p, q, 0)'
    <2>1. Word(Current, index + 1) = W[q + 1]
      <3>1. q + 1 <= Len(V) /\ index + 1 < Len(V) /\ index + 1 + 1 = q + 1
        BY <1>5, <1>6, <1>8, <1>10
      <3>2. V[q + 1] = W[q + 1]
        BY <1>4, <1>6, <3>1, HeadKept
      <3> QED BY <1>3, <3>1, <3>2 DEF Word
    <2>2. sum = WordSum(Body(V, q))
      <3>1. ASSUME NEW i \in 1 .. W[q] PROVE Word(Current, index + 1 + i) = V[q + 1 + i]
        <4>1. index + 1 + i < Len(V) /\ index + 1 + i + 1 = q + 1 + i
          BY <1>5, <1>6, <1>8, <1>10
        <4> QED BY <1>3, <4>1 DEF Word
      <3>2. [i \in 1 .. Length |-> Word(Current, index + 1 + i)] = [i \in 1 .. W[q] |-> V[q + 1 + i]]
        BY <1>7, <3>1
      <3> QED BY <1>7, <3>2 DEF Body
    <2>3. checksum' = SumTo(S, p, q + 2 + W[q])
      BY <1>2, <1>4, <1>6, <1>8, <1>10, <2>2, SectionSum
    <2>4. LoadedTo(V, W, H, q)'
      BY <1>2, <1>6 DEF LoadedTo, InRam, program
    <2>5. /\ 0 \in 0 .. W[q] - 1 /\ job'.left = W[q] - 0 /\ job'.at = W[q + 1] + 0
          /\ job'.from = q + 1 + 0
      <3>1. W[q] > 0
        BY <1>2, <1>7, <1>8
      <3> QED BY <1>2, <1>6, <1>7, <1>8, <2>1, <3>1
    <2>6. \A i \in 0 .. 0 - 1 : ram'[W[q + 1] + i] = V'[q + 2 + i]
      OBVIOUS
    <2>7. V' = V /\ q' = q
      BY <1>2 DEF program
    <2> HIDE DEF V, q, sum
    <2> QED BY <2>3, <2>4, <2>5, <2>6, <2>7 DEF Ahead
  <1>11. q' = q /\ V' = V
    BY <1>2 DEF program
  <1>12. AtRam(V, W, H, S, p)'
    <2> HIDE DEF sum
    <2>1. q + 2 + W[q] <= Len(V) => \E done : Ahead(V, W, H, S, p, q, done)'
      BY <1>10
    <2> QED BY <1>2, <1>6, <1>8, <1>9, <1>11, <2>1 DEF AtRam
  <1>13. Stage(V, W, H, S, p)'
    BY <1>2, <1>12 DEF Stage
  <1> QED BY <1>1, <1>2, <1>13, StageKeeps, Names

\* A section has left the trailer: what the checksum says.
LEMMA TrailerLoads == ASSUME LoadInv, target = "RAM", Trailer PROVE LoadInv'
  <1>1. PICK W, H, S, p : Source(W, H, S, p) /\ Stage(image.words, W, H, S, p)
    BY DEF LoadInv
  <1> DEFINE V == image.words
             q == index + 1
  <1>2. /\ UNCHANGED program /\ loading' = loading /\ entry' = entry /\ ram' = ram
        /\ index' = index /\ pc = "section" /\ pc' \in {"jump", "done"}
        /\ index < Len(Current.words) /\ Length = 0
        /\ pc' = "jump" => checksum = Word(Current, index + 2)
    BY DEF Trailer, memory, boot, Goto, Fail
  <1>3. Current = image
    <2>1. loading = "user"
      BY DEF LoadInv, Roles
    <2> QED BY <2>1 DEF Current
  <1>4. /\ Whole(elf, vectors, W, H, S) /\ Given(V, W, H, p)
        /\ S[TrailerAt(W)] # 0 \/ elf.entry = 0
    BY <1>1 DEF Source
  <1>5. /\ V \in Seq(Nat) /\ Len(V) \in Nat /\ Len(V) <= Len(W) /\ p \in Nat
        /\ p # 0 => Len(V) = Len(W) /\ WordMod > 1 /\ (p = Len(W) \/ InBody(W, H, p))
        /\ \A i \in 1 .. Len(V) : V[i] = IF i = p THEN Next1(W[i]) ELSE W[i]
    BY <1>4 DEF Given
  <1>6. /\ index \in Nat /\ q <= Len(V) /\ q \in H
        /\ checksum = SumTo(S, p, q) /\ LoadedTo(V, W, H, q)
    BY <1>1, <1>2, <1>3, <1>5 DEF Stage, AtSection
  <1>7. V[q] = W[q] /\ W[q] = 0
    BY <1>2, <1>3, <1>4, <1>6, HeadKept DEF Length, Word
  <1>8. q = TrailerAt(W) /\ Len(W) = q + 2 /\ Len(W) \in Nat
    <2>1. W[q] \in Nat /\ (q # TrailerAt(W) => W[q] > 0) /\ Len(W) = TrailerAt(W) + 2 /\ Len(W) \in Nat
      BY <1>4, <1>6, WholePlace
    <2> QED BY <1>7, <2>1
  <1>9. S[q] \in Words /\ W[q + 1] = elf.entry /\ W[q + 2] = S[q]
    BY <1>4, <1>6, <1>8 DEF Whole
  <1>10. ASSUME pc' = "jump" PROVE p = 0
    <2> SUFFICES ASSUME p # 0 PROVE FALSE
      OBVIOUS
    <2>1. Word(Current, index + 2) = V[q + 2] /\ q + 2 \in 1 .. Len(V)
      <3>1. Len(V) = q + 2 /\ index + 2 < Len(V) /\ index + 2 + 1 = q + 2 /\ q + 2 \in 1 .. Len(V)
        BY <1>5, <1>6, <1>8
      <3> HIDE DEF q
      <3> QED BY <1>3, <3>1 DEF Word
    <2>2. Next1(S[q]) # S[q]
      BY <1>5, <1>9, NextAdds
    <2>3. CASE p = Len(W)
      <3>1. V[q + 2] = Next1(S[q])
        BY <1>5, <1>8, <1>9, <2>1, <2>3
      <3>2. SumTo(S, p, q) = S[q]
        BY <1>6, <1>8, <2>3 DEF SumTo
      <3> QED BY <1>2, <1>6, <1>10, <2>1, <2>2, <3>1, <3>2
    <2>4. CASE InBody(W, H, p)
      <3>1. PICK r \in H \ {TrailerAt(W)} : p \in r + 2 .. r + 1 + W[r]
        BY <2>4 DEF InBody
      <3>2. r \in Nat /\ W[r] \in Nat /\ r + 2 + W[r] <= q
        BY <1>4, <1>8, WholePlace, SMTT(30)
      <3>3. p < q /\ p # q + 2
        BY <1>6, <3>1, <3>2
      <3>4. V[q + 2] = S[q]
        BY <1>5, <1>9, <2>1, <3>3
      <3>5. SumTo(S, p, q) = Next1(S[q])
        BY <3>3 DEF SumTo
      <3> QED BY <1>2, <1>6, <1>10, <2>1, <2>2, <3>4, <3>5
    <2> QED BY <1>5, <2>3, <2>4
  <1>11. ASSUME pc' = "jump" PROVE Word(image, index + 1) = elf.entry
    <2>1. p = 0 /\ SumTo(S, p, q) = S[q]
      BY <1>10, <1>11 DEF SumTo
    <2>2. CASE index + 1 < Len(V)
      <3>1. Word(image, index + 1) = V[q + 1] /\ q + 1 \in 1 .. Len(V) /\ q + 1 # p
        BY <1>6, <2>1, <2>2 DEF Word
      <3> QED BY <1>5, <1>9, <3>1
    <2>3. CASE ~(index + 1 < Len(V))
      <3>1. Word(image, index + 1) = 0 /\ Word(image, index + 2) = 0
        BY <1>5, <1>6, <2>3 DEF Word
      <3> QED BY <1>2, <1>3, <1>4, <1>6, <1>8, <1>11, <2>1, <3>1
    <2> QED BY <2>2, <2>3
  <1>12. ASSUME pc' = "jump" PROVE LoadedTo(W, W, H, TrailerAt(W))
    <2> SUFFICES ASSUME NEW r \in H, r < TrailerAt(W), NEW i \in 0 .. W[r] - 1
                 PROVE  ram[W[r + 1] + i] = W[r + 2 + i]
      BY DEF LoadedTo, InRam
    <2>1. ram[W[r + 1] + i] = V[r + 2 + i]
      BY <1>6, <1>8 DEF LoadedTo, InRam
    <2>2. r \in Nat /\ W[r] \in Nat /\ r + 2 + W[r] <= q
      <3>1. /\ r \in Nat /\ W[r] \in Nat /\ TrailerAt(W) \in Nat
            /\ r # TrailerAt(W) => r + 2 + W[r] <= TrailerAt(W)
        BY <1>4, WholePlace
      <3> QED BY <1>8, <3>1
    <2>3. r + 2 + i \in 1 .. Len(V) /\ p = 0
      BY <1>5, <1>6, <1>10, <1>12, <2>2
    <2>4. V[r + 2 + i] = W[r + 2 + i]
      BY <1>5, <2>3
    <2> QED BY <2>1, <2>4
  <1>13. pc' = "jump" => AtJump(W, H)'
    <2>1. pc' = "jump" => AtJump(W, H)
      BY <1>11, <1>12 DEF AtJump
    <2> QED BY <1>2, <2>1 DEF AtJump, LoadedTo, InRam, Word, program
  <1>14. Stage(V, W, H, S, p)'
    BY <1>2, <1>13 DEF Stage
  <1> QED BY <1>1, <1>2, <1>14, StageKeeps, Names

LEMMA EndOfFileLoads == ASSUME LoadInv, target = "RAM", EndOfFile PROVE LoadInv'
  <1>1. loading = "user"
    BY DEF LoadInv, Roles
  <1>2. /\ UNCHANGED program /\ UNCHANGED <<ram, entry, loading>> /\ pc = "section" /\ pc' = "done"
    BY <1>1 DEF EndOfFile, boot, memory, Loaded, Succeed, Goto
  <1>3. Roles'
    BY <1>1, <1>2, Names DEF Roles, program
  <1> QED BY <1>2, <1>3, ApartKeeps

\* A request writes the next words of a section, and nothing of those before.
LEMMA PieceWritten ==
  ASSUME NEW e, NEW v, NEW W, NEW H, NEW S, Whole(e, v, W, H, S), NEW V, NEW p, Given(V, W, H, p),
         NEW q \in H \ {TrailerAt(W)}, q + 2 + W[q] <= Len(V), NEW done, Ahead(V, W, H, S, p, q, done),
         DOMAIN ram = 0 .. MemWords - 1, V = image.words, ram' = Stored(ram, image)
  PROVE  /\ Piece \in 1 .. W[q] - done /\ done \in Nat
         /\ \A i \in 0 .. done + Piece - 1 : ram'[W[q + 1] + i] = V[q + 2 + i]
         /\ \A r \in H : r < q => \A i \in 0 .. W[r] - 1 : ram'[W[r + 1] + i] = V[r + 2 + i]
  <1>1. /\ q \in Nat /\ 2 <= q /\ W[q] \in Nat /\ W[q + 1] \in Nat
        /\ SectionAt(W, H, S, 0 .. MemWords - 1, q)
    BY WholePlace
  <1>2. /\ done \in 0 .. W[q] - 1 /\ job.left = W[q] - done
        /\ job.at = W[q + 1] + done /\ job.from = q + 1 + done
        /\ LoadedTo(V, W, H, q)
        /\ \A i \in 0 .. done - 1 : ram[W[q + 1] + i] = V[q + 2 + i]
    BY DEF Ahead
  <1>3. Piece \in 1 .. W[q] - done /\ done \in Nat
    <2>1. WriteWords \in Nat \ {0}
      BY LoaderAssumption
    <2> QED BY <1>1, <1>2, <2>1 DEF Piece, Smaller
  <1>4. MemWords \in Nat /\ Len(V) \in Nat
    BY LoaderAssumption DEF Given
  <1> DEFINE x == W[q + 1]
             to == job.at .. job.at + Piece - 1
  <1>5. /\ DOMAIN ram' = DOMAIN ram
        /\ \A a \in DOMAIN ram :
             ram'[a] = IF a \in to THEN Word(image, job.from + (a - job.at)) ELSE ram[a]
    BY DEF Stored
  <1>6. \A r \in H \ {TrailerAt(W)} : \A i \in 0 .. W[r] - 1 : W[r + 1] + i \in DOMAIN ram
    <2> SUFFICES ASSUME NEW r \in H \ {TrailerAt(W)}, NEW i \in 0 .. W[r] - 1
                 PROVE  W[r + 1] + i \in DOMAIN ram
      OBVIOUS
    <2>1. Addresses(W, r) \subseteq 0 .. MemWords - 1 /\ W[r] \in Nat /\ W[r + 1] \in Nat
      BY WholePlace DEF SectionAt
    <2>2. W[r + 1] + i \in Addresses(W, r)
      BY <2>1 DEF Addresses
    <2> QED BY <2>1, <2>2
  <1>7. ASSUME NEW i \in 0 .. done + Piece - 1 PROVE ram'[x + i] = V[q + 2 + i]
    <2>1. i \in 0 .. W[q] - 1 /\ x + i \in DOMAIN ram
      BY <1>1, <1>2, <1>3, <1>6
    <2>2. CASE i < done
      <3>1. x + i \notin to
        BY <1>1, <1>2, <1>3, <2>2
      <3>2. ram'[x + i] = ram[x + i]
        BY <1>5, <2>1, <3>1
      <3> QED BY <1>2, <2>1, <2>2, <3>2
    <2>3. CASE i >= done
      <3>1. x + i \in to /\ job.from + ((x + i) - job.at) = q + 1 + i
        <4>1. \A y, d, k, j, m \in Nat :
                j >= d /\ j <= d + k - 1 =>
                  y + j \in y + d .. y + d + k - 1 /\ m + 1 + d + ((y + j) - (y + d)) = m + 1 + j
          OBVIOUS
        <4>2. x \in Nat /\ i \in Nat /\ i <= done + Piece - 1 /\ Piece \in Nat /\ done \in Nat
          BY <1>1, <1>3
        <4> HIDE DEF x
        <4>3. x + i \in x + done .. x + done + Piece - 1
              /\ q + 1 + done + ((x + i) - (x + done)) = q + 1 + i
          BY <1>1, <2>3, <4>1, <4>2
        <4> QED BY <1>2, <4>3 DEF x
      <3>2. ram'[x + i] = Word(image, q + 1 + i)
        <4> HIDE DEF x, to
        <4>1. ram'[x + i] = Word(image, job.from + ((x + i) - job.at))
          BY <1>5, <2>1, <3>1
        <4> QED BY <3>1, <4>1
      <3>3. q + 1 + i < Len(V) /\ q + 1 + i + 1 = q + 2 + i
        BY <1>1, <1>4, <2>1
      <3> QED BY <3>2, <3>3 DEF Word
    <2> QED BY <1>2, <2>2, <2>3
  <1>8. ASSUME NEW r \in H, r < q, NEW i \in 0 .. W[r] - 1 PROVE ram'[W[r + 1] + i] = V[r + 2 + i]
    <2>1. r # TrailerAt(W) /\ r \in Nat /\ W[r] \in Nat /\ W[r + 1] \in Nat
      <3>1. r \in Nat /\ W[r] \in Nat /\ W[r + 1] \in Nat /\ q <= TrailerAt(W) /\ TrailerAt(W) \in Nat
        BY WholePlace
      <3> QED BY <1>1, <1>8, <3>1
    <2>2. Addresses(W, r) \cap Addresses(W, q) = {}
      <3>1. r \in H \ {TrailerAt(W)} /\ r # q
        BY <1>1, <1>8, <2>1
      <3> QED BY <3>1 DEF Whole
    <2>3. W[r + 1] + i \in Addresses(W, r)
      BY <2>1 DEF Addresses
    <2>4. to \subseteq Addresses(W, q)
      <3>1. \A y, d, k, n \in Nat : d + k <= n => y + d .. y + d + k - 1 \subseteq y .. y + n - 1
        OBVIOUS
      <3>2. done + Piece <= W[q] /\ Piece \in Nat
        BY <1>1, <1>3
      <3>3. W[q + 1] + done .. W[q + 1] + done + Piece - 1 \subseteq W[q + 1] .. W[q + 1] + W[q] - 1
        BY <1>1, <1>3, <3>1, <3>2
      <3> QED BY <1>2, <3>3 DEF Addresses
    <2>5. W[r + 1] + i \notin to /\ W[r + 1] + i \in DOMAIN ram
      BY <1>6, <2>1, <2>2, <2>3, <2>4
    <2>6. ram'[W[r + 1] + i] = ram[W[r + 1] + i]
      BY <1>5, <2>5
    <2> QED BY <1>2, <1>8, <2>6 DEF LoadedTo, InRam
  <1> QED BY <1>3, <1>7, <1>8

LEMMA RamWriteLoads == ASSUME LoadInv, target = "RAM", RamWrite PROVE LoadInv'
  <1>1. PICK W, H, S, p : Source(W, H, S, p) /\ Stage(image.words, W, H, S, p)
    BY DEF LoadInv
  <1> DEFINE V == image.words
             q == index + 1
  <1>2. /\ UNCHANGED program /\ loading' = loading /\ entry' = entry /\ checksum' = checksum
        /\ pc = "ram" /\ pc' \in {"ram", "section", "done"}
    BY DEF RamWrite, Goto, Fail
  <1>3. Current = image
    <2>1. loading = "user"
      BY DEF LoadInv, Roles
    <2> QED BY <2>1 DEF Current
  <1>4. Whole(elf, vectors, W, H, S) /\ Given(V, W, H, p)
    BY <1>1 DEF Source
  <1>5. /\ index \in Nat /\ q \in H \ {TrailerAt(W)}
        /\ \E d, a, f, l : job = [dev |-> d, at |-> a, from |-> f, left |-> l, all |-> W[q]]
        /\ q + 2 + W[q] <= Len(V) => \E done : Ahead(V, W, H, S, p, q, done)
    BY <1>1, <1>2 DEF Stage, AtRam
  <1>6. V' = V
    BY <1>2 DEF program
  <1>7. DOMAIN ram = 0 .. MemWords - 1 /\ DOMAIN ram' = DOMAIN ram
    BY DEF LoadInv, RamWrite, Stored
  <1>8. /\ q \in Nat /\ W[q] \in Nat /\ q + 2 + W[q] \in H /\ Len(V) \in Nat
        /\ q + 2 + W[q] <= TrailerAt(W) /\ W[q] > 0
    BY <1>4, <1>5, WholePlace, HeadKept
  <1>9. CASE pc' = "done"
    <2>1. Stage(V, W, H, S, p)'
      BY <1>9 DEF Stage
    <2> QED BY <1>1, <1>2, <1>7, <1>9, <2>1, StageKeeps, Names
  <1>10. CASE pc' = "ram"
    <2>1. ram' = Stored(ram, image) /\ job' = Rest /\ job.left > Piece /\ index' = index
      BY <1>2, <1>3, <1>10 DEF RamWrite, Goto, Fail
    <2>2. \E d, a, f, l : job' = [dev |-> d, at |-> a, from |-> f, left |-> l, all |-> W[q]]
      <3>1. PICK d, a, f, l : job = [dev |-> d, at |-> a, from |-> f, left |-> l, all |-> W[q]]
        BY <1>5
      <3>2. job' = [dev |-> d, at |-> a + Piece, from |-> f + Piece, left |-> l - Piece, all |-> W[q]]
        BY <2>1, <3>1 DEF Rest
      <3> QED BY <3>2
    <2>3. ASSUME q + 2 + W[q] <= Len(V) PROVE \E done : Ahead(V, W, H, S, p, q, done)'
      <3>1. PICK done : Ahead(V, W, H, S, p, q, done)
        BY <1>5, <2>3
      <3>0. PICK more : more = done + Piece
        OBVIOUS
      <3>2. /\ Piece \in 1 .. W[q] - done /\ done \in Nat
            /\ \A i \in 0 .. done + Piece - 1 : ram'[W[q + 1] + i] = V[q + 2 + i]
            /\ \A r \in H : r < q => \A i \in 0 .. W[r] - 1 : ram'[W[r + 1] + i] = V[r + 2 + i]
        <4>1. /\ Whole(elf, vectors, W, H, S) /\ Given(V, W, H, p) /\ q \in H \ {TrailerAt(W)}
              /\ q + 2 + W[q] <= Len(V) /\ Ahead(V, W, H, S, p, q, done)
              /\ DOMAIN ram = 0 .. MemWords - 1 /\ V = image.words /\ ram' = Stored(ram, image)
          BY <1>4, <1>5, <1>7, <2>1, <2>3, <3>1
        <4> HIDE DEF V, q
        <4> QED BY <4>1, PieceWritten
      <3>3. /\ checksum = SumTo(S, p, q + 2 + W[q]) /\ job.left = W[q] - done
            /\ job.at = W[q + 1] + done /\ job.from = q + 1 + done
        BY <3>1 DEF Ahead
      <3>4. job'.left = job.left - Piece /\ job'.at = job.at + Piece /\ job'.from = job.from + Piece
        BY <1>5, <2>1 DEF Rest
      <3>5. W[q + 1] \in Nat
        BY <1>4, <1>5, WholePlace
      <3>6. /\ more \in 0 .. W[q] - 1 /\ job'.left = W[q] - more
            /\ job'.at = W[q + 1] + more /\ job'.from = q + 1 + more
        <4>1. done \in Nat /\ Piece \in Nat /\ W[q] \in Nat /\ job.left > Piece
          BY <1>8, <2>1, <3>2
        <4>2. \A d, k, n, x, m \in Nat :
                n - d > k => /\ d + k \in 0 .. n - 1 /\ n - d - k = n - (d + k)
                             /\ x + d + k = x + (d + k) /\ m + 1 + d + k = m + 1 + (d + k)
          OBVIOUS
        <4> HIDE DEF q
        <4>3. /\ done + Piece \in 0 .. W[q] - 1 /\ W[q] - done - Piece = W[q] - (done + Piece)
              /\ W[q + 1] + done + Piece = W[q + 1] + (done + Piece)
              /\ q + 1 + done + Piece = q + 1 + (done + Piece)
          BY <1>8, <3>3, <3>5, <4>1, <4>2
        <4> QED BY <3>0, <3>3, <3>4, <4>3
      <3>7. LoadedTo(V, W, H, q)'
        BY <1>6, <2>1, <3>2 DEF LoadedTo, InRam
      <3>8. q' = q /\ \A i \in 0 .. more - 1 : ram'[W[q + 1] + i] = V[q + 2 + i]
        BY <2>1, <3>0, <3>2
      <3> HIDE DEF V, q
      <3>9. Ahead(V, W, H, S, p, q, more)'
        BY <1>2, <1>6, <3>3, <3>6, <3>7, <3>8 DEF Ahead
      <3> QED BY <3>9
    <2>4. AtRam(V, W, H, S, p)'
      <3> HIDE DEF V
      <3> QED BY <1>5, <1>6, <2>1, <2>2, <2>3 DEF AtRam
    <2>5. Stage(V, W, H, S, p)'
      BY <1>10, <2>4 DEF Stage
    <2> QED BY <1>1, <1>2, <1>7, <1>10, <2>5, StageKeeps, Names
  <1>11. CASE pc' = "section"
    <2>1. ram' = Stored(ram, image) /\ ~(job.left > Piece) /\ index' = index + 2 + job.all
      BY <1>2, <1>3, <1>11 DEF RamWrite, Goto, Fail
    <2>2. job.all = W[q]
      BY <1>5
    <2>3. index' \in Nat /\ index' + 1 = q + 2 + W[q]
      BY <1>5, <1>8, <2>1, <2>2
    <2>4. ASSUME index' < Len(V)
          PROVE  /\ checksum = SumTo(S, p, q + 2 + W[q])
                 /\ LoadedTo(V, W, H, index + 1)'
      <3>1. q + 2 + W[q] <= Len(V)
        BY <1>8, <2>3, <2>4
      <3>2. PICK done : Ahead(V, W, H, S, p, q, done)
        BY <1>5, <3>1
      <3>3. /\ Piece \in 1 .. W[q] - done /\ done \in Nat
            /\ \A i \in 0 .. done + Piece - 1 : ram'[W[q + 1] + i] = V[q + 2 + i]
            /\ \A r \in H : r < q => \A i \in 0 .. W[r] - 1 : ram'[W[r + 1] + i] = V[r + 2 + i]
        <4>1. /\ Whole(elf, vectors, W, H, S) /\ Given(V, W, H, p) /\ q \in H \ {TrailerAt(W)}
              /\ q + 2 + W[q] <= Len(V) /\ Ahead(V, W, H, S, p, q, done)
              /\ DOMAIN ram = 0 .. MemWords - 1 /\ V = image.words /\ ram' = Stored(ram, image)
          BY <1>4, <1>5, <1>7, <2>1, <3>1, <3>2
        <4> HIDE DEF V, q
        <4> QED BY <4>1, PieceWritten
      <3>4. checksum = SumTo(S, p, q + 2 + W[q]) /\ job.left = W[q] - done
        BY <3>2 DEF Ahead
      <3>5. done + Piece = W[q]
        <4>1. done \in Nat /\ Piece \in Nat /\ W[q] \in Nat /\ ~(job.left > Piece)
              /\ Piece <= W[q] - done
          BY <1>8, <2>1, <3>3
        <4> HIDE DEF q
        <4> QED BY <3>4, <4>1
      <3>6. \A r \in H : r < q + 2 + W[q] => r = q \/ r < q
        <4> SUFFICES ASSUME NEW r \in H, r < q + 2 + W[q] PROVE r = q \/ r < q
          OBVIOUS
        <4>1. q < r => q + 2 + W[q] <= r
          BY <1>4, <1>5 DEF Whole
        <4>2. r \in Nat
          BY <1>4, WholePlace
        <4> QED BY <1>8, <4>1, <4>2
      <3>7. \A r \in H : r < q + 2 + W[q] =>
              \A i \in 0 .. W[r] - 1 : ram'[W[r + 1] + i] = V[r + 2 + i]
        <4> HIDE DEF V, q
        <4> QED BY <3>3, <3>5, <3>6
      <3>8. LoadedTo(V, W, H, index + 1)'
        BY <1>6, <2>3, <3>7 DEF LoadedTo, InRam
      <3> QED BY <3>4, <3>8
    <2>5. AtSection(V, W, H, S, p)'
      BY <1>2, <1>6, <1>8, <2>3, <2>4 DEF AtSection
    <2>6. Stage(V, W, H, S, p)'
      BY <1>11, <2>5 DEF Stage
    <2> QED BY <1>1, <1>2, <1>7, <1>11, <2>6, StageKeeps, Names
  <1> QED BY <1>2, <1>9, <1>10, <1>11

LEMMA JumpLoads == ASSUME LoadInv, target = "RAM", Jump PROVE LoadInv'
  <1>1. PICK W, H, S, p : Source(W, H, S, p) /\ Stage(image.words, W, H, S, p)
    BY DEF LoadInv
  <1>2. loading = "user"
    BY DEF LoadInv, Roles
  <1>3. /\ UNCHANGED program /\ loading' = loading /\ ram' = ram /\ pc = "jump" /\ pc' = "done"
        /\ entry' = entry \/ entry' = Word(image, index + 1)
    BY <1>2 DEF Jump, Loaded, Succeed, boot, Current
  <1>4. Whole(elf, vectors, W, H, S)
    BY <1>1 DEF Source
  <1>5. LoadedTo(W, W, H, TrailerAt(W)) /\ Word(image, index + 1) = elf.entry
    BY <1>1, <1>3 DEF Stage, AtJump
  <1>6. entry = Absent
    BY <1>3, NotStarted
  <1>7. ASSUME NEW a, NEW w, PlacesIn(W, H, a, w) PROVE ram[a] = w
    <2>1. PICK r \in H \ {TrailerAt(W)} : a \in Addresses(W, r) /\ W[r + 2 + (a - W[r + 1])] = w
      BY <1>7 DEF PlacesIn
    <2>2. r \in Nat /\ W[r] \in Nat /\ W[r + 1] \in Nat /\ r <= TrailerAt(W) /\ TrailerAt(W) \in Nat
      BY <1>4, WholePlace
    <2> DEFINE i == a - W[r + 1]
    <2>3. i \in 0 .. W[r] - 1 /\ W[r + 1] + i = a
      <3>1. \A x, n \in Nat : \A b \in x .. x + n - 1 : b - x \in 0 .. n - 1 /\ x + (b - x) = b
        OBVIOUS
      <3>2. a \in W[r + 1] .. W[r + 1] + W[r] - 1
        BY <2>1 DEF Addresses
      <3> QED BY <2>2, <3>1, <3>2
    <2>4. InRam(W, W, r)
      BY <1>5, <2>1, <2>2 DEF LoadedTo
    <2>5. ram[W[r + 1] + i] = W[r + 2 + i]
      BY <2>3, <2>4 DEF InRam
    <2> QED BY <2>1, <2>3, <2>5
  <1>8. entry' # Absent => StartedRight'
    <2> SUFFICES ASSUME entry' # Absent PROVE StartedRight'
      OBVIOUS
    <2>1. entry' = elf'.entry /\ elf' = elf /\ vectors' = vectors
      BY <1>3, <1>5, <1>6 DEF program
    <2>2. DOMAIN elf.headers = 1 .. Len(elf.headers)
      BY <1>1, ProgramIs DEF Source
    <2>3. ASSUME NEW i \in DOMAIN elf.headers, elf.headers[i].load,
                 NEW a \in elf.headers[i].vaddr .. elf.headers[i].vaddr + elf.headers[i].filesize - 1,
                 vectors \/ a >= VectorEnd
          PROVE  ram[a] = elf.words[elf.headers[i].offset + (a - elf.headers[i].vaddr) + 1]
      BY <1>4, <1>7, <2>2, <2>3 DEF Whole
    <2> QED BY <1>3, <2>1, <2>3 DEF StartedRight
  <1>9. Roles' /\ DOMAIN ram' = 0 .. MemWords - 1
    BY <1>3, Names DEF LoadInv, Roles, program
  <1>10. Source(W, H, S, p)' /\ Stage(image.words, W, H, S, p)'
    BY <1>1, <1>3, SourceStays DEF Stage
  <1> QED BY <1>3, <1>8, <1>9, <1>10 DEF LoadInv

LEMMA LoadNext == LoadInv /\ [Next]_vars => LoadInv'
  <1> SUFFICES ASSUME LoadInv, [Next]_vars PROVE LoadInv'
    OBVIOUS
  <1>1. CASE Main \/ FindProgrammer \/ WriteRom
    BY <1>1, FindLeavesRam
  <1>2. CASE LoadRam /\ target = "RAM"
    BY <1>2, ReadLoads, SectionLoads, TrailerLoads, EndOfFileLoads, RamWriteLoads, JumpLoads
       DEF LoadRam
  <1>3. CASE LoadRam /\ target # "RAM"
    BY <1>3, ProgrammerLoads
  <1>4. CASE BoardReturns \/ OtherMoves \/ UNCHANGED vars
    BY <1>4, SameLoadKeeps DEF BoardReturns, OtherMoves, vars, boot, memory
  <1> QED BY <1>1, <1>2, <1>3, <1>4 DEF Next, Loader

\* A board that was started runs at the entry point and has the program in place,
\* for every program a linker makes, size code, size of requests and damage to
\* the file (download_fx3.cpp:189).  The code needs the condition: a file cut
\* before the entry point would start a program of sum zero at address zero.
THEOREM StartsRight ==
  ASSUME ZeroSumStartsAtZero PROVE Spec => []StartedRight
  <1>1. LoadInv => StartedRight
    BY DEF LoadInv, StartedRight
  <1> QED BY <1>1, LoadInit, LoadNext, PTL DEF Spec
=============================================================================

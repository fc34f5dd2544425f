------------------------- MODULE NettyDecoder_proofs -------------------------
(***************************************************************************)
(* Proofs about the decoder, for every stream, cut and size of the         *)
(* composite buffer.  First the reference counts: a buffer has one for the *)
(* call that reads it and one for its component, and the components are    *)
(* exactly the buffers of the text that has not ended.  Then the texts:    *)
(* what is read and answered, and that FrameEcho is implemented.           *)
(***************************************************************************)
EXTENDS NettyDecoder, FoldFacts

Owners(run) == {run[i].buffer : i \in DOMAIN run}
Run == Seq([buffer : Nat, byte : Bytes])

Shape ==
  /\ buffers \in Nat /\ cur \in 0 .. buffers
  /\ refs \in [1 .. buffers -> Nat]
  /\ in_buf \in Seq(Bytes) /\ unread \in Run
  /\ parts \subseteq 1 .. buffers

\* A buffer has a reference for the call that reads it and one for its
\* component, and is freed otherwise (NettyExample.java:44-46, 82, 90).
RefsExact ==
  \A b \in 1 .. buffers :
    refs[b] = (IF b \in parts THEN 1 ELSE 0) + (IF b = cur THEN 1 ELSE 0)

\* The invariant: the bytes still to be read have no component yet, so that a
\* component is never counted twice.
IInv ==
  /\ Shape
  /\ RefsExact
  /\ pc = "idle" <=> cur = 0
  /\ in_buf # <<>> => cur \notin parts /\ pc # "idle"
  /\ pc = "skip" => in_buf # <<>>
  /\ open => parts = Owners(unread)

LEMMA SliceType ==
  ASSUME in_buf \in Seq(Bytes), cur \in Nat, NEW n \in 0 .. Len(in_buf)
  PROVE  /\ Slice(n) \in Run /\ Len(Slice(n)) = n
         /\ n > 0 => Owners(Slice(n)) = {cur}
  <1>1. Slice(n) \in Run /\ Len(Slice(n)) = n
    BY DEF Slice, Run
  <1>2. ASSUME n > 0 PROVE Owners(Slice(n)) = {cur}
    <2>1. 1 \in DOMAIN Slice(n) /\ \A i \in DOMAIN Slice(n) : Slice(n)[i].buffer = cur
      BY <1>2 DEF Slice
    <2> QED BY <2>1 DEF Owners
  <1> QED BY <1>1, <1>2

LEMMA OwnersConcat ==
  ASSUME NEW a \in Run, NEW b \in Run
  PROVE  a \o b \in Run /\ Owners(a \o b) = Owners(a) \cup Owners(b)
  <1>1. a \o b \in Run
    BY DEF Run
  <1>2. Owners(a \o b) \subseteq Owners(a) \cup Owners(b)
    <2> SUFFICES ASSUME NEW i \in DOMAIN (a \o b)
                 PROVE (a \o b)[i].buffer \in Owners(a) \cup Owners(b)
      BY DEF Owners
    <2>1. CASE i <= Len(a)
      <3>1. i \in DOMAIN a /\ (a \o b)[i] = a[i]
        BY <2>1 DEF Run
      <3> QED BY <3>1 DEF Owners
    <2>2. CASE i > Len(a)
      <3>1. i - Len(a) \in DOMAIN b /\ (a \o b)[i] = b[i - Len(a)]
        BY <2>2 DEF Run
      <3> QED BY <3>1 DEF Owners
    <2> QED BY <2>1, <2>2 DEF Run
  <1>3. Owners(a) \subseteq Owners(a \o b)
    <2> SUFFICES ASSUME NEW i \in DOMAIN a PROVE a[i].buffer \in Owners(a \o b)
      BY DEF Owners
    <2>1. i \in DOMAIN (a \o b) /\ (a \o b)[i] = a[i]
      BY DEF Run
    <2> QED BY <2>1 DEF Owners
  <1>4. Owners(b) \subseteq Owners(a \o b)
    <2> SUFFICES ASSUME NEW i \in DOMAIN b PROVE b[i].buffer \in Owners(a \o b)
      BY DEF Owners
    <2>1. i + Len(a) \in DOMAIN (a \o b) /\ (a \o b)[i + Len(a)] = b[i]
      BY DEF Run
    <2> QED BY <2>1 DEF Owners
  <1> QED BY <1>1, <1>2, <1>3, <1>4

\* The first bar is where bytesBefore says.
LEMMA FirstBar ==
  ASSUME in_buf \in Seq(Bytes), HasBar
  PROVE  /\ BytesBefore \in 0 .. Len(in_buf) - 1 /\ in_buf[BytesBefore + 1] = "bar"
         /\ \A i \in 1 .. BytesBefore : in_buf[i] # "bar"
  <1> DEFINE Bars == {n \in 0 .. Len(in_buf) - 1 : in_buf[n + 1] = "bar"}
  <1>1. PICK j \in DOMAIN in_buf : in_buf[j] = "bar"
    BY DEF HasBar, Range
  <1>2. j - 1 \in Bars /\ Bars \in SUBSET Nat
    BY <1>1
  <1>3. PICK m \in Bars : \A n \in Bars : m <= n
    <2> HIDE DEF Bars
    <2> QED BY <1>2, LeastElement
  <1>4. \A i \in 1 .. m : in_buf[i] # "bar"
    <2> SUFFICES ASSUME NEW i \in 1 .. m, in_buf[i] = "bar" PROVE FALSE
      OBVIOUS
    <2>1. i - 1 \in Bars /\ i \in Nat /\ m \in Nat
      OBVIOUS
    <2>2. m <= i - 1
      <3> HIDE DEF Bars
      <3> QED BY <1>3, <2>1
    <2> QED BY <2>1, <2>2
  <1>5. \E k \in 0 .. Len(in_buf) - 1 : in_buf[k + 1] = "bar" /\ \A i \in 1 .. k : in_buf[i] # "bar"
    BY <1>3, <1>4
  <1> QED BY <1>5 DEF BytesBefore

\* The part before a bar, or the rest of the buffer.
LEMMA PartType ==
  ASSUME in_buf \in Seq(Bytes), cur \in Nat, in_buf # <<>>
  PROVE  /\ Part \in Run
         /\ Part # <<>> => Owners(Part) = {cur}
         /\ ~HasBar => Part # <<>>
  <1> DEFINE n == IF HasBar THEN BytesBefore ELSE Len(in_buf)
  <1>1. n \in 0 .. Len(in_buf) /\ (~HasBar => n > 0)
    BY FirstBar
  <1>2. Part = Slice(n)
    BY DEF Part
  <1>3. Slice(n) # <<>> => n > 0
    <2> HIDE DEF n
    <2> QED BY <1>1, SliceType
  <1>4. ~HasBar => Slice(n) # <<>>
    <2> HIDE DEF n
    <2> QED BY <1>1, SliceType
  <1> HIDE DEF n
  <1> QED BY <1>1, <1>2, <1>3, <1>4, SliceType

-----------------------------------------------------------------------------

\* What an action that leaves Owners(Whole) to the next one needs to know.
LEMMA WholeType ==
  ASSUME IInv, in_buf # <<>>
  PROVE  /\ Part \in Run /\ Whole \in Run /\ cur \in 1 .. buffers /\ cur \notin parts
         /\ Owners(Whole) = Owners(unread) \cup (IF Part = <<>> THEN {} ELSE {cur})
         /\ ~HasBar => Part # <<>>
  <1>1. cur \in 1 .. buffers /\ cur \notin parts
    BY DEF IInv, Shape
  <1>2. Part \in Run /\ (Part # <<>> => Owners(Part) = {cur}) /\ (~HasBar => Part # <<>>)
    BY PartType DEF IInv, Shape
  <1>3. Whole \in Run /\ Owners(Whole) = Owners(unread) \cup Owners(Part)
    BY <1>2, OwnersConcat DEF IInv, Shape, Whole
  <1>4. Part = <<>> => Owners(Part) = {}
    BY DEF Owners
  <1> QED BY <1>1, <1>2, <1>3, <1>4

LEMMA HasBarNotEmpty == HasBar => in_buf # <<>>
  BY DEF HasBar, Range

\* Counts that are given up are there.
LEMMA CountsHeld ==
  ASSUME IInv
  PROVE  /\ refs \in [1 .. buffers -> Nat] /\ parts \subseteq 1 .. buffers /\ cur \in 0 .. buffers
         /\ \A b \in parts : refs[b] >= 1
         /\ cur # 0 => refs[cur] >= 1 /\ (cur \notin parts => refs[cur] = 1)
         /\ \A b \in 1 .. buffers : b \notin parts /\ b # cur => refs[b] = 0
         /\ cur \notin parts => \A b \in parts : refs[b] = 1
  <1>1. refs \in [1 .. buffers -> Nat] /\ parts \subseteq 1 .. buffers /\ cur \in 0 .. buffers
        /\ buffers \in Nat
    BY DEF IInv, Shape
  <1>2. \A b \in 1 .. buffers :
          /\ b \in parts /\ b = cur => refs[b] = 2
          /\ b \in parts /\ b # cur => refs[b] = 1
          /\ b \notin parts /\ b = cur => refs[b] = 1
          /\ b \notin parts /\ b # cur => refs[b] = 0
    BY <1>1 DEF IInv, RefsExact
  <1>3. cur # 0 => cur \in 1 .. buffers
    BY <1>1
  <1> QED BY <1>1, <1>2, <1>3

LEMMA RestOfSeq ==
  ASSUME NEW S, NEW q \in Seq(S), NEW k \in 1 .. Len(q)
  PROVE  SubSeq(q, k, Len(q)) \in Seq(S) /\ SubSeq(q, k, Len(q)) # <<>>
  <1>1. SubSeq(q, k, Len(q)) \in Seq(S) /\ Len(SubSeq(q, k, Len(q))) = Len(q) - k + 1
    OBVIOUS
  <1>2. Len(SubSeq(q, k, Len(q))) # 0
    BY <1>1
  <1>3. Len(<<>>) = 0
    OBVIOUS
  <1> QED BY <1>1, <1>2, <1>3, Zenon

LEMMA EmptyIsSeq == <<>> \in Seq(Bytes)
  OBVIOUS

LEMMA InitInv == Init => IInv
  BY DEF Init, composite, IInv, Shape, RefsExact, Run, Owners

LEMMA ReceiveInv ==
  ASSUME IInv, NEW bytes \in SeqOf(Bytes, MaxBytes - Len(sent)), bytes # <<>>, Receive(bytes)
  PROVE  IInv'
  <1>1. bytes \in Seq(Bytes)
    BY DEF SeqOf
  <1>2. cur = 0 /\ buffers + 1 \notin parts
    BY DEF Receive, IInv, Shape
  <1>3. Shape'
    BY <1>1, SMTT(30) DEF Receive, IInv, Shape, composite
  <1>4. RefsExact'
    BY <1>2, SMTT(30) DEF Receive, IInv, Shape, RefsExact, composite
  <1>5. (open => parts = Owners(unread))'
    BY DEF Receive, IInv, composite, Owners
  <1> QED BY <1>1, <1>2, <1>3, <1>4, <1>5, SMTT(30) DEF Receive, IInv, Shape, composite

LEMMA ReturnInv == ASSUME IInv, Return PROVE IInv'
  <1> USE DEF Return, Leave, composite, IInv, Shape
  <1>1. cur \in 1 .. buffers /\ refs[cur] >= 1
    BY DEF RefsExact
  <1>2. Shape'
    BY <1>1 DEF Released
  <1>3. RefsExact'
    BY <1>1 DEF Released, RefsExact
  <1> QED BY <1>2, <1>3 DEF Owners

LEMMA TooManyPartsInv == ASSUME IInv, TooManyParts PROVE IInv'
  <1> USE DEF TooManyParts, Throw, Leave
  <1>1. in_buf # <<>>
    BY HasBarNotEmpty DEF Part, Slice
  <1>2. Whole \in Run /\ cur \in 1 .. buffers /\ cur \notin parts
    BY <1>1, WholeType
  <1>3. refs' \in [1 .. buffers -> Nat] /\ \A b \in 1 .. buffers : refs'[b] = 0
    BY <1>2, CountsHeld DEF Dropped
  <1> HIDE DEF TooManyParts
  <1>4. /\ buffers' = buffers /\ cur' = 0 /\ in_buf' = <<>> /\ parts' = {}
        /\ unread' = Whole /\ pc' = "idle" /\ open' = FALSE
    BY DEF TooManyParts
  <1>5. Shape'
    BY <1>2, <1>3, <1>4, EmptyIsSeq DEF IInv, Shape
  <1>6. RefsExact'
    BY <1>3, <1>4, <1>5 DEF Shape, RefsExact
  <1> QED BY <1>4, <1>5, <1>6 DEF IInv

LEMMA KeepInv == ASSUME IInv, Keep PROVE IInv'
  <1> USE DEF Keep
  <1>1. /\ Whole \in Run /\ cur \in 1 .. buffers /\ cur \notin parts
        /\ Owners(Whole) = Owners(unread) \cup {cur}
    BY WholeType
  <1>2. Shape' /\ RefsExact'
    BY <1>1 DEF IInv, Shape, RefsExact, Retained
  <1>3. (open => parts = Owners(unread))'
    BY <1>1 DEF IInv, Owners
  <1> QED BY <1>2, <1>3 DEF IInv

LEMMA NoTextInv == ASSUME IInv, NoText PROVE IInv'
  BY HasBarNotEmpty DEF NoText, IInv, Shape, RefsExact, Owners, composite

LEMMA TextEndsInv == ASSUME IInv, TextEnds PROVE IInv'
  <1> USE DEF TextEnds
  <1>1. in_buf # <<>> /\ BytesBefore \in 0 .. Len(in_buf) - 1
    BY HasBarNotEmpty, FirstBar DEF IInv, Shape
  <1>2. in_buf' \in Seq(Bytes) /\ in_buf' # <<>>
    <2>1. in_buf \in Seq(Bytes) /\ in_buf' = SubSeq(in_buf, BytesBefore + 1, Len(in_buf))
      BY DEF Consume, IInv, Shape
    <2> DEFINE k == BytesBefore + 1
    <2>2. k \in 1 .. Len(in_buf) /\ in_buf' = SubSeq(in_buf, k, Len(in_buf))
      BY <1>1, <2>1
    <2> HIDE DEF k
    <2> QED BY <2>1, <2>2, RestOfSeq, Zenon
  <1>3. refs' \in [1 .. buffers -> Nat] /\ \A b \in 1 .. buffers : refs'[b] = IF b = cur THEN 1 ELSE 0
    <2>1. cur \in 1 .. buffers /\ cur \notin parts
      BY <1>1, WholeType
    <2> QED BY <2>1, CountsHeld DEF Dropped
  <1>4. Shape' /\ RefsExact'
    BY <1>2, <1>3 DEF IInv, Shape, RefsExact, Run
  <1> QED BY <1>2, <1>4 DEF IInv, Owners

LEMMA ParseThrowsInv == ASSUME IInv, ParseThrows PROVE IInv'
  <1> USE DEF ParseThrows, Throw, Leave
  <1>1. cur \in 1 .. buffers /\ cur \notin parts
    BY HasBarNotEmpty, WholeType
  <1>2. CASE Part = <<>>
    <2>1. /\ refs' \in [1 .. buffers -> Nat] /\ parts' = parts
          /\ \A b \in 1 .. buffers : refs'[b] = IF b \in parts THEN 1 ELSE 0
      BY <1>1, <1>2, CountsHeld DEF Released
    <2>2. Shape'
      BY <2>1, EmptyIsSeq DEF IInv, Shape, Run
    <2>3. RefsExact'
      BY <2>1, <2>2 DEF Shape, RefsExact
    <2> QED BY <2>2, <2>3 DEF IInv
  <1>3. CASE Part # <<>>
    <2>1. /\ refs' = refs /\ parts' = parts \cup {cur}
          /\ \A b \in 1 .. buffers : refs[b] = IF b \in parts \cup {cur} THEN 1 ELSE 0
      BY <1>1, <1>3, CountsHeld
    <2>2. Shape'
      BY <1>1, <2>1, EmptyIsSeq DEF IInv, Shape, Run
    <2>3. RefsExact'
      BY <2>1, <2>2 DEF Shape, RefsExact
    <2> QED BY <2>2, <2>3 DEF IInv
  <1> QED BY <1>2, <1>3

LEMMA SkipInv == ASSUME IInv, Skip PROVE IInv'
  <1>1. in_buf # <<>> /\ in_buf' \in Seq(Bytes)
    BY DEF Skip, IInv, Shape
  <1> QED BY <1>1 DEF Skip, IInv, Shape, RefsExact, Owners, composite

LEMMA AssertionErrorInv == ASSUME IInv, AssertionError PROVE IInv'
  <1> USE DEF AssertionError, Throw, Leave, composite
  <1>1. cur \in 1 .. buffers /\ refs[cur] >= 1
    BY DEF IInv, Shape, RefsExact
  <1>2. /\ refs' \in [1 .. buffers -> Nat] /\ parts' = parts
        /\ \A b \in 1 .. buffers : refs'[b] = IF b \in parts THEN 1 ELSE 0
    BY <1>1 DEF IInv, Shape, RefsExact, Released
  <1>3. Shape'
    BY <1>2, EmptyIsSeq DEF IInv, Shape
  <1>4. RefsExact'
    BY <1>2, <1>3 DEF Shape, RefsExact
  <1> QED BY <1>3, <1>4 DEF IInv

LEMMA ChannelInactiveInv == ASSUME IInv, ChannelInactive PROVE IInv'
  BY DEF ChannelInactive, IInv, Shape, RefsExact, composite

THEOREM Invariance == Spec => []IInv
  <1>1. IInv /\ [Next]_vars => IInv'
    <2> SUFFICES ASSUME IInv, [Next]_vars PROVE IInv'
      OBVIOUS
    <2>1. CASE \E bytes \in SeqOf(Bytes, MaxBytes - Len(sent)) : bytes # <<>> /\ Receive(bytes)
      BY <2>1, ReceiveInv
    <2>2. CASE ChannelRead
      BY <2>2, ReturnInv, TooManyPartsInv, KeepInv, NoTextInv, TextEndsInv, ParseThrowsInv,
         SkipInv, AssertionErrorInv DEF ChannelRead
    <2>3. CASE ChannelInactive
      BY <2>3, ChannelInactiveInv
    <2>4. CASE UNCHANGED vars
      BY <2>4 DEF vars, composite, IInv, Shape, RefsExact, Owners
    <2> QED BY <2>1, <2>2, <2>3, <2>4 DEF Next
  <1> QED BY InitInv, <1>1, PTL DEF Spec

\* A buffer is referenced once by the call that reads it, once by its component
\* and by nothing else (NettyExample.java:44-46, 82, 90).
THEOREM RefsAreExact == Spec => []RefsExact
  <1>1. IInv => RefsExact
    BY DEF IInv
  <1> QED BY Invariance, <1>1, PTL

\* Between two reads of an open connection, the live buffers are those with
\* bytes of the text that has not ended.
THEOREM BuffersAreHeld == Spec => []BuffersHeld
  <1>1. IInv => BuffersHeld
    <2> SUFFICES ASSUME IInv, open, pc = "idle"
                 PROVE {b \in 1 .. buffers : refs[b] > 0} = Owners(unread)
      BY DEF BuffersHeld, Owners
    <2>1. cur = 0 /\ parts = Owners(unread) /\ parts \subseteq 1 .. buffers
      BY DEF IInv, Shape
    <2>2. \A b \in 1 .. buffers : refs[b] > 0 <=> b \in parts
      BY <2>1 DEF IInv, Shape, RefsExact
    <2> QED BY <2>1, <2>2
  <1> QED BY Invariance, <1>1, PTL

\* The server closes a connection only for a text in too many buffers, for one
\* the parser cannot take, or for a failed assertion, whatever came before.
THEOREM ClosesOnlyForThese == Spec => ClosesOnlyFor
  <1> DEFINE Cause == \/ pc = "skip" /\ asserts /\ first # "bar"
                      \/ TooDeep(Text(Whole))
                      \/ Cardinality({Whole[i].buffer : i \in DOMAIN Whole}) > MaxParts
             Step == open /\ ~open' /\ pc # "idle" => Cause
  <1>1. IInv /\ [Next]_vars => Step
    <2> SUFFICES ASSUME IInv, [Next]_vars, open, ~open', pc # "idle" PROVE Cause
      OBVIOUS
    <2>1. TooManyParts \/ ParseThrows \/ AssertionError
      BY DEF Next, ChannelRead, Receive, Return, Keep, NoText, TextEnds, Skip,
         ChannelInactive, vars
    <2>2. CASE TooManyParts
      <3>1. in_buf # <<>> /\ Part # <<>>
        BY <2>2, HasBarNotEmpty DEF TooManyParts, Part, Slice
      <3>2. Owners(Whole) = parts \cup {cur} /\ cur \notin parts
        BY <3>1, WholeType DEF IInv
      <3>3. IsFiniteSet(parts)
        <4>1. buffers \in Nat /\ parts \in SUBSET (1 .. buffers) /\ IsFiniteSet(1 .. buffers)
          BY FS_Interval DEF IInv, Shape
        <4> QED BY <4>1, FS_Subset
      <3>4. Cardinality(parts \cup {cur}) = MaxParts + 1
        BY <2>2, <3>2, <3>3, FS_AddElement DEF TooManyParts
      <3>5. Cardinality(Owners(Whole)) > MaxParts
        BY <3>2, <3>4, DecoderAssumption
      <3> QED BY <3>5 DEF Owners
    <2>3. CASE ParseThrows
      BY <2>3 DEF ParseThrows
    <2>4. CASE AssertionError
      BY <2>4 DEF AssertionError
    <2> QED BY <2>1, <2>2, <2>3, <2>4
  <1>2. IInv /\ [Next]_vars => [Step]_vars
    BY <1>1
  <1> QED BY Invariance, <1>2, PTL DEF Spec, ClosesOnlyFor
-----------------------------------------------------------------------------
(***************************************************************************)
(* How a stream is cut into texts, as the client cuts the answers and the  *)
(* abstract specification cuts what has arrived.                           *)
(***************************************************************************)
Texts == Seq(Seq(Bytes))
Accs == [all : Texts, text : Seq(Bytes)]
cut == [p \in Accs \X Bytes |-> Echo!Cut(p[1], p[2])]
keep == [p \in Texts \X Seq(Bytes) |-> Echo!KeepJson(p[1], p[2])]

LEMMA CutType == Echo!Start \in Accs /\ cut \in [Accs \X Bytes -> Accs]
  <1>1. ASSUME NEW acc \in Accs, NEW byte \in Bytes PROVE Echo!Cut(acc, byte) \in Accs
    <2>1. Append(acc.text, byte) \in Seq(Bytes) /\ Append(acc.all, acc.text) \in Texts
      BY DEF Accs, Texts
    <2>2. acc.all \in Texts /\ <<>> \in Seq(Bytes)
      BY DEF Accs
    <2>3. CASE byte # "bar"
      <3>1. Echo!Cut(acc, byte) = [all |-> acc.all, text |-> Append(acc.text, byte)]
        BY <2>3 DEF Echo!Cut, Accs
      <3> QED BY <2>1, <2>2, <3>1 DEF Accs
    <2>4. CASE byte = "bar"
      BY <2>1, <2>2, <2>4 DEF Echo!Cut, Accs
    <2> QED BY <2>3, <2>4
  <1>2. Echo!Start \in Accs
    BY DEF Echo!Start, Accs, Texts
  <1> QED BY <1>1, <1>2 DEF cut

LEMMA KeepType == <<>> \in Texts /\ keep \in [Texts \X Seq(Bytes) -> Texts]
  BY DEF keep, Echo!KeepJson, Texts

LEMMA CutData == \A s \in Seq(Bytes) : Data(Accs, Bytes, Echo!Start, cut, s)
  BY CutType DEF Data

LEMMA KeepData == \A s \in Texts : Data(Texts, Seq(Bytes), <<>>, keep, s)
  BY KeepType DEF Data, Texts

\* Both folds go through the values of their function.
LEMMA CutsTrace ==
  ASSUME NEW s \in Seq(Bytes)
  PROVE  \E h : Trace(h, Accs, Bytes, Echo!Start, cut, s) /\ Echo!Cuts(s) = h[Len(s)]
  <1> DEFINE n == Len(s)
             Eq(f) == f = [t \in SUBSET (1 .. n) |->
                             IF t = {} THEN Echo!Start ELSE Echo!Cut(f[t \ {Max(t)}], s[Max(t)])]
             f == CHOOSE iter : Eq(iter)
  <1>1. n \in Nat /\ DOMAIN s = 1 .. n
    OBVIOUS
  <1>2. Echo!Cuts(s) = f[1 .. n]
    BY <1>1 DEF Echo!Cuts, Echo!FoldLeft, Echo!MapThenFoldSet, Echo!Max, Max
  <1>3. Eq(f)
    <2>1. PICK g : Solution(g, Accs, Bytes, Echo!Start, cut, s)
      BY CutData, FoldExists
    <2>2. \A t \in SUBSET (1 .. n) :
             g[t] = IF t = {} THEN Echo!Start ELSE Echo!Cut(g[t \ {Max(t)}], s[Max(t)])
      BY <2>1 DEF Solution, cut
    <2>3. Eq(g)
      <3>1. g \in [SUBSET (1 .. n) -> Accs]
        BY <2>1 DEF Solution
      <3> HIDE DEF n
      <3> QED BY <2>2, <3>1
    <2> HIDE DEF Eq
    <2> QED BY <2>3
  <1>4. Recursion(f, Accs, Echo!Start, cut, s)
    <2>1. \A t \in SUBSET (1 .. n) :
             f[t] = IF t = {} THEN Echo!Start ELSE Echo!Cut(f[t \ {Max(t)}], s[Max(t)])
      <3> HIDE DEF f, n
      <3> QED BY <1>3
    <2> HIDE DEF f
    <2>2. ASSUME NEW t \in SUBSET (1 .. n), t # {} PROVE s[Max(t)] \in Bytes
      <3> HIDE DEF n
      <3>1. Max(t) \in 1 .. n
        BY <1>1, <2>2, GreatestIn
      <3> QED BY <3>1 DEF n
    <2> QED BY <2>1, <2>2 DEF Recursion, cut
  <1> HIDE DEF f
  <1> QED BY <1>2, <1>4, CutData, FoldIsTrace

LEMMA JsonTrace ==
  ASSUME NEW s \in Texts
  PROVE  \E h : Trace(h, Texts, Seq(Bytes), <<>>, keep, s) /\ Echo!JsonOf(s) = h[Len(s)]
  <1> DEFINE n == Len(s)
             Eq(f) == f = [t \in SUBSET (1 .. n) |->
                             IF t = {} THEN <<>> ELSE Echo!KeepJson(f[t \ {Max(t)}], s[Max(t)])]
             f == CHOOSE iter : Eq(iter)
  <1>1. n \in Nat /\ DOMAIN s = 1 .. n
    OBVIOUS
  <1>2. Echo!JsonOf(s) = f[1 .. n]
    BY <1>1 DEF Echo!JsonOf, Echo!FoldLeft, Echo!MapThenFoldSet, Echo!Max, Max
  <1>3. Eq(f)
    <2>1. PICK g : Solution(g, Texts, Seq(Bytes), <<>>, keep, s)
      BY KeepData, FoldExists
    <2>2. \A t \in SUBSET (1 .. n) :
             g[t] = IF t = {} THEN <<>> ELSE Echo!KeepJson(g[t \ {Max(t)}], s[Max(t)])
      BY <2>1 DEF Solution, keep
    <2>3. Eq(g)
      <3>1. g \in [SUBSET (1 .. n) -> Texts]
        BY <2>1 DEF Solution
      <3> HIDE DEF n
      <3> QED BY <2>2, <3>1
    <2> HIDE DEF Eq
    <2> QED BY <2>3
  <1>4. Recursion(f, Texts, <<>>, keep, s)
    <2>1. \A t \in SUBSET (1 .. n) :
             f[t] = IF t = {} THEN <<>> ELSE Echo!KeepJson(f[t \ {Max(t)}], s[Max(t)])
      <3> HIDE DEF f, n
      <3> QED BY <1>3
    <2> HIDE DEF f
    <2>2. ASSUME NEW t \in SUBSET (1 .. n), t # {} PROVE s[Max(t)] \in Seq(Bytes)
      <3> HIDE DEF n
      <3>1. Max(t) \in 1 .. n
        BY <1>1, <2>2, GreatestIn
      <3> QED BY <3>1 DEF n, Texts
    <2> QED BY <2>1, <2>2 DEF Recursion, keep
  <1> HIDE DEF f
  <1> QED BY <1>2, <1>4, KeepData, FoldIsTrace

\* The first n values of a fold do not depend on what comes after.
LEMMA CutsAppend ==
  ASSUME NEW s \in Seq(Bytes), NEW b \in Bytes
  PROVE  /\ Echo!Cuts(s) \in Accs
         /\ Echo!Cuts(Append(s, b)) = Echo!Cut(Echo!Cuts(s), b)
  <1> DEFINE n == Len(s)
             t == Append(s, b)
  <1>1. n \in Nat /\ t \in Seq(Bytes) /\ Len(t) = n + 1 /\ t[n + 1] = b /\ \A i \in 1 .. n : s[i] = t[i]
    OBVIOUS
  <1>2. PICK g : Trace(g, Accs, Bytes, Echo!Start, cut, s) /\ Echo!Cuts(s) = g[n]
    BY CutsTrace
  <1>3. PICK h : Trace(h, Accs, Bytes, Echo!Start, cut, t) /\ Echo!Cuts(t) = h[n + 1]
    <2> HIDE DEF t, n
    <2> QED BY <1>1, CutsTrace
  <1> HIDE DEF t
  <1>4. g[n] = h[n]
    <2>1. Data(Accs, Bytes, Echo!Start, cut, s) /\ Data(Accs, Bytes, Echo!Start, cut, t)
      BY <1>1, CutData
    <2>2. n <= Len(s) /\ n <= Len(t)
      BY <1>1
    <2> QED BY <1>1, <1>2, <1>3, <2>1, <2>2, TracesAgree
  <1>5. g[n] \in Accs
    BY <1>1, <1>2 DEF Trace
  <1>6. h[n + 1] = cut[<<h[n], b>>]
    <2>1. n + 1 \in 1 .. Len(t) /\ (n + 1) - 1 = n
      BY <1>1
    <2> HIDE DEF n
    <2> QED BY <1>1, <1>3, <2>1 DEF Trace
  <1> QED BY <1>2, <1>3, <1>4, <1>5, <1>6 DEF cut, t

LEMMA JsonAppend ==
  ASSUME NEW s \in Texts, NEW b \in Seq(Bytes)
  PROVE  /\ Echo!JsonOf(s) \in Texts
         /\ Echo!JsonOf(Append(s, b)) = Echo!KeepJson(Echo!JsonOf(s), b)
  <1> DEFINE n == Len(s)
             t == Append(s, b)
  <1>1. n \in Nat /\ t \in Texts /\ Len(t) = n + 1 /\ t[n + 1] = b /\ \A i \in 1 .. n : s[i] = t[i]
    BY DEF Texts
  <1>2. PICK g : Trace(g, Texts, Seq(Bytes), <<>>, keep, s) /\ Echo!JsonOf(s) = g[n]
    BY JsonTrace
  <1>3. PICK h : Trace(h, Texts, Seq(Bytes), <<>>, keep, t) /\ Echo!JsonOf(t) = h[n + 1]
    <2> HIDE DEF t, n
    <2> QED BY <1>1, JsonTrace
  <1> HIDE DEF t
  <1>4. g[n] = h[n]
    <2>1. Data(Texts, Seq(Bytes), <<>>, keep, s) /\ Data(Texts, Seq(Bytes), <<>>, keep, t)
      BY <1>1, KeepData
    <2>2. n <= Len(s) /\ n <= Len(t)
      BY <1>1
    <2> QED BY <1>1, <1>2, <1>3, <2>1, <2>2, TracesAgree
  <1>5. g[n] \in Texts
    BY <1>1, <1>2 DEF Trace
  <1>6. h[n + 1] = keep[<<h[n], b>>]
    <2>1. n + 1 \in 1 .. Len(t) /\ (n + 1) - 1 = n
      BY <1>1
    <2> HIDE DEF n
    <2> QED BY <1>1, <1>3, <2>1 DEF Trace
  <1> QED BY <1>2, <1>3, <1>4, <1>5, <1>6 DEF keep, t

LEMMA EmptyCuts == Echo!Cuts(<<>>) = Echo!Start /\ Echo!JsonOf(<<>>) = <<>>
  <1>1. <<>> \in Seq(Bytes) /\ <<>> \in Texts /\ Len(<<>>) = 0
    BY DEF Texts
  <1>2. PICK g : Trace(g, Accs, Bytes, Echo!Start, cut, <<>>) /\ Echo!Cuts(<<>>) = g[0]
    BY <1>1, CutsTrace
  <1>3. PICK h : Trace(h, Texts, Seq(Bytes), <<>>, keep, <<>>) /\ Echo!JsonOf(<<>>) = h[0]
    BY <1>1, JsonTrace
  <1> QED BY <1>2, <1>3 DEF Trace

LEMMA AppendBytes ==
  \A a, b \in Seq(Bytes) : \A x \in Bytes : Append(a \o b, x) = a \o Append(b, x)
  OBVIOUS

LEMMA AppendTexts ==
  \A a, b \in Texts : \A x \in Seq(Bytes) : Append(a \o b, x) = a \o Append(b, x)
  <1> DEFINE S == Seq(Bytes)
  <1> HIDE DEF S
  <1>1. \A a, b \in Seq(S) : \A x \in S : Append(a \o b, x) = a \o Append(b, x)
    OBVIOUS
  <1> QED BY <1>1 DEF S, Texts

\* The first k elements, and one more.
LEMMA OneMore ==
  ASSUME NEW S, NEW s \in Seq(S), NEW t \in Seq(S), NEW k \in 0 .. Len(t) - 1
  PROVE  /\ s \o SubSeq(t, 1, k) \in Seq(S) /\ k + 1 \in 1 .. Len(t) /\ t[k + 1] \in S
         /\ SubSeq(t, 1, k) \in Seq(S)
         /\ SubSeq(t, 1, k + 1) = Append(SubSeq(t, 1, k), t[k + 1])
         /\ s \o SubSeq(t, 1, k + 1) = Append(s \o SubSeq(t, 1, k), t[k + 1])
  <1> DEFINE a == SubSeq(t, 1, k)
  <1>1. k + 1 \in 1 .. Len(t) /\ t[k + 1] \in S /\ a \in Seq(S) /\ Len(a) = k
    OBVIOUS
  <1>2. SubSeq(t, 1, k + 1) = Append(a, t[k + 1])
    BY <1>1
  <1> HIDE DEF a
  <1>3. s \o Append(a, t[k + 1]) = Append(s \o a, t[k + 1]) /\ s \o a \in Seq(S)
    BY <1>1
  <1> QED BY <1>1, <1>2, <1>3 DEF a

LEMMA AllAndNone ==
  ASSUME NEW S, NEW s \in Seq(S), NEW t \in Seq(S)
  PROVE  s \o SubSeq(t, 1, 0) = s /\ SubSeq(t, 1, 0) = <<>> /\ SubSeq(t, 1, Len(t)) = t
  OBVIOUS

\* Bytes that are no bars go to the text that has not ended.
LEMMA CutsText ==
  ASSUME NEW s \in Seq(Bytes), NEW t \in Seq(Bytes), \A i \in 1 .. Len(t) : t[i] # "bar"
  PROVE  /\ Echo!Cuts(s \o t).all = Echo!Cuts(s).all
         /\ Echo!Cuts(s \o t).text = Echo!Cuts(s).text \o t
  <1> DEFINE n == Len(t)
             at(k) == s \o SubSeq(t, 1, k)
             T == {k \in 0 .. n : /\ Echo!Cuts(at(k)).all = Echo!Cuts(s).all
                                  /\ Echo!Cuts(at(k)).text = Echo!Cuts(s).text \o SubSeq(t, 1, k)}
  <1>1. n \in Nat /\ Echo!Cuts(s) \in Accs /\ Echo!Cuts(s).text \in Seq(Bytes)
    <2>1. Echo!Cuts(s) \in Accs
      BY CutsAppend DEF Bytes
    <2> QED BY <2>1 DEF Accs
  <1>2. 0 \in T
    <2>1. at(0) = s /\ SubSeq(t, 1, 0) = <<>>
      BY AllAndNone
    <2> HIDE DEF at
    <2> QED BY <1>1, <2>1
  <1>3. ASSUME NEW k \in 0 .. n - 1, k \in T PROVE k + 1 \in T
    <2>1. /\ at(k) \in Seq(Bytes) /\ k + 1 \in 1 .. n /\ t[k + 1] \in Bytes
          /\ SubSeq(t, 1, k) \in Seq(Bytes)
          /\ SubSeq(t, 1, k + 1) = Append(SubSeq(t, 1, k), t[k + 1])
          /\ at(k + 1) = Append(at(k), t[k + 1])
      BY OneMore
    <2> HIDE DEF at
    <2>2. t[k + 1] # "bar" /\ Echo!Cuts(at(k)) \in Accs
      BY <2>1, CutsAppend
    <2>3. Echo!Cuts(at(k + 1)) = [Echo!Cuts(at(k)) EXCEPT !.text = Append(@, t[k + 1])]
      BY <2>1, <2>2, CutsAppend DEF Echo!Cut
    <2>4. /\ Echo!Cuts(at(k + 1)).all = Echo!Cuts(at(k)).all
          /\ Echo!Cuts(at(k + 1)).text = Append(Echo!Cuts(at(k)).text, t[k + 1])
      BY <2>2, <2>3 DEF Accs
    <2>5. Append(Echo!Cuts(s).text \o SubSeq(t, 1, k), t[k + 1]) = Echo!Cuts(s).text \o SubSeq(t, 1, k + 1)
      <3> DEFINE a == Echo!Cuts(s).text
                 b == SubSeq(t, 1, k)
      <3>1. a \in Seq(Bytes) /\ b \in Seq(Bytes)
        BY <1>1, <2>1
      <3> HIDE DEF a, b
      <3>2. Append(a \o b, t[k + 1]) = a \o Append(b, t[k + 1])
        <4>1. t[k + 1] \in Bytes
          BY <2>1
        <4> QED BY <3>1, <4>1, AppendBytes, Zenon
      <3> QED BY <2>1, <3>2 DEF a, b
    <2>6. /\ Echo!Cuts(at(k)).all = Echo!Cuts(s).all
          /\ Echo!Cuts(at(k)).text = Echo!Cuts(s).text \o SubSeq(t, 1, k)
      BY <1>3
    <2>7. Echo!Cuts(at(k + 1)).text = Echo!Cuts(s).text \o SubSeq(t, 1, k + 1)
      BY <2>4, <2>5, <2>6, Zenon
    <2>8. Echo!Cuts(at(k + 1)).all = Echo!Cuts(s).all /\ k + 1 \in 0 .. n
      BY <1>1, <2>1, <2>4, <2>6
    <2> QED BY <2>7, <2>8
  <1>4. n \in T
    <2> HIDE DEF T, n
    <2>1. 0 .. n \subseteq T
      BY <1>1, <1>2, <1>3, UpTo
    <2> QED BY <1>1, <2>1
  <1>5. at(n) = s \o t /\ SubSeq(t, 1, n) = t
    BY AllAndNone
  <1> HIDE DEF at
  <1> QED BY <1>4, <1>5

\* A bar ends a text, if there is one.
LEMMA CutsBar ==
  ASSUME NEW s \in Seq(Bytes)
  PROVE  /\ Echo!Cuts(Append(s, "bar")).text = <<>>
         /\ Echo!Cuts(Append(s, "bar")).all = IF Echo!Cuts(s).text = <<>> THEN Echo!Cuts(s).all
                                               ELSE Append(Echo!Cuts(s).all, Echo!Cuts(s).text)
  <1>1. "bar" \in Bytes
    BY DEF Bytes
  <1>2. Echo!Cuts(Append(s, "bar")) = Echo!Cut(Echo!Cuts(s), "bar")
    BY <1>1, CutsAppend
  <1>3. ASSUME NEW acc
        PROVE  /\ Echo!Cut(acc, "bar").text = <<>>
               /\ Echo!Cut(acc, "bar").all = IF acc.text = <<>> THEN acc.all ELSE Append(acc.all, acc.text)
    BY DEF Echo!Cut
  <1> QED BY <1>2, <1>3, Zenon

\* More bytes take back no text that was due.
LEMMA DueGrows ==
  ASSUME NEW s \in Seq(Bytes), NEW t \in Seq(Bytes)
  PROVE  LET due(q) == Echo!JsonOf(Echo!Texts(q))
         IN  /\ due(s) \in Texts
             /\ \E rest \in Texts : due(s \o t) = due(s) \o rest
  <1> DEFINE due(q) == Echo!JsonOf(Echo!Texts(q))
             n == Len(t)
             at(k) == s \o SubSeq(t, 1, k)
             T == {k \in 0 .. n : \E rest \in Texts : due(at(k)) = due(s) \o rest}
  <1>1. ASSUME NEW q \in Seq(Bytes)
        PROVE  Echo!Texts(q) \in Texts /\ due(q) \in Texts
    <2>1. Echo!Texts(q) \in Texts
      BY CutsAppend DEF Bytes, Echo!Texts, Accs
    <2>2. <<>> \in Seq(Bytes)
      OBVIOUS
    <2> QED BY <2>1, <2>2, JsonAppend
  <1>2. ASSUME NEW q \in Seq(Bytes), NEW b \in Bytes
        PROVE  due(Append(q, b)) = due(q) \/ \E text \in Seq(Bytes) : due(Append(q, b)) = Append(due(q), text)
    <2>1. Echo!Cuts(q) \in Accs /\ Echo!Cuts(Append(q, b)) = Echo!Cut(Echo!Cuts(q), b)
      BY CutsAppend
    <2>2. \/ Echo!Texts(Append(q, b)) = Echo!Texts(q)
          \/ \E text \in Seq(Bytes) : Echo!Texts(Append(q, b)) = Append(Echo!Texts(q), text)
      BY <2>1 DEF Echo!Cut, Echo!Texts, Accs
    <2>3. ASSUME NEW text \in Seq(Bytes), Echo!Texts(Append(q, b)) = Append(Echo!Texts(q), text)
          PROVE  due(Append(q, b)) = due(q) \/ due(Append(q, b)) = Append(due(q), text)
      BY <1>1, <2>3, JsonAppend DEF Echo!KeepJson
    <2> QED BY <2>2, <2>3
  <1>3. n \in Nat /\ due(s) \in Texts
    BY <1>1
  <1>4. 0 \in T
    <2>1. at(0) = s
      BY AllAndNone
    <2>2. <<>> \in Texts
      BY DEF Texts
    <2> HIDE DEF at, due
    <2>3. due(s) = due(s) \o <<>>
      BY <1>3 DEF Texts
    <2>4. \E rest \in Texts : due(at(0)) = due(s) \o rest
      BY <2>1, <2>2, <2>3
    <2> QED BY <1>3, <2>4
  <1>5. ASSUME NEW k \in 0 .. n - 1, k \in T PROVE k + 1 \in T
    <2>1. /\ at(k) \in Seq(Bytes) /\ k + 1 \in 1 .. n /\ t[k + 1] \in Bytes
          /\ at(k + 1) = Append(at(k), t[k + 1])
      BY OneMore
    <2> HIDE DEF at, due
    <2>2. PICK rest \in Texts : due(at(k)) = due(s) \o rest
      BY <1>5
    <2>3. CASE due(at(k + 1)) = due(at(k))
      BY <2>1, <2>2, <2>3
    <2>4. ASSUME NEW text \in Seq(Bytes), due(at(k + 1)) = Append(due(at(k)), text) PROVE k + 1 \in T
      <3>1. Append(due(s) \o rest, text) = due(s) \o Append(rest, text)
        BY <1>3, AppendTexts, Zenon
      <3>2. Append(rest, text) \in Texts
        BY DEF Texts
      <3>3. due(at(k + 1)) = due(s) \o Append(rest, text)
        BY <2>2, <2>4, <3>1
      <3>4. \E more \in Texts : due(at(k + 1)) = due(s) \o more
        BY <3>2, <3>3
      <3>5. k + 1 \in 0 .. n
        BY <1>3, <2>1
      <3> QED BY <3>4, <3>5
    <2> QED BY <1>2, <2>1, <2>3, <2>4
  <1>6. n \in T
    <2> HIDE DEF T, n
    <2>1. 0 .. n \subseteq T
      BY <1>3, <1>4, <1>5, UpTo
    <2> QED BY <1>3, <2>1
  <1>7. at(n) = s \o t
    BY AllAndNone
  <1> HIDE DEF at, due
  <1>8. \E rest \in Texts : due(s \o t) = due(s) \o rest
    BY <1>6, <1>7
  <1> QED BY <1>3, <1>8 DEF due

-----------------------------------------------------------------------------
(* What has been read and what has been answered.                          *)

NoBars(text) == \A i \in 1 .. Len(text) : text[i] # "bar"
NoEscapes == \A i \in DOMAIN fired : "escape" \notin Range(fired[i])

\* What a client cuts the answers into.
AnsweredInv ==
  /\ fired \in Texts /\ out \in Seq(Bytes)
  /\ NoEscapes => Echo!Cuts(out).all = fired /\ Echo!Cuts(out).text = <<>>

\* What was read is cut as the specification cuts it: the composite buffer is
\* the text that has not ended, and what has ended is answered.  Between a text
\* and its bar the specification is a byte behind.
HasRead(read) ==
  /\ sent = read \o in_buf
  /\ pc # "skip" => /\ Echo!Cuts(read).text = Text(unread)
                    /\ Echo!JsonOf(Echo!Texts(read)) = fired
  /\ pc = "skip" => /\ in_buf[1] = "bar" /\ unread = <<>>
                    /\ Echo!JsonOf(Echo!Texts(Append(read, "bar"))) = fired

ReadInv == \E read \in Seq(Bytes) : HasRead(read)

StreamInv ==
  /\ sent \in Seq(Bytes)
  /\ NoBars(Text(unread))
  /\ ~open => pc = "idle"
  /\ AnsweredInv
  /\ open => ReadInv

LEMMA TextType ==
  ASSUME NEW a \in Run
  PROVE  /\ Text(a) \in Seq(Bytes) /\ Len(Text(a)) = Len(a)
         /\ \A i \in 1 .. Len(a) : Text(a)[i] = a[i].byte
  <1>1. DOMAIN a = 1 .. Len(a) /\ Len(a) \in Nat /\ \A i \in 1 .. Len(a) : a[i].byte \in Bytes
    <2> DEFINE S == [buffer : Nat, byte : Bytes]
    <2>1. a \in Seq(S) /\ \A x \in S : x.byte \in Bytes
      BY DEF Run
    <2> HIDE DEF S
    <2>2. DOMAIN a = 1 .. Len(a) /\ Len(a) \in Nat /\ \A i \in 1 .. Len(a) : a[i] \in S
      BY <2>1
    <2> QED BY <2>1, <2>2
  <1>2. Text(a) = [i \in 1 .. Len(a) |-> a[i].byte]
    BY <1>1 DEF Text
  <1> QED BY <1>1, <1>2

LEMMA Concat ==
  ASSUME NEW S, NEW a \in Seq(S), NEW b \in Seq(S)
  PROVE  /\ Len(a) \in Nat /\ Len(b) \in Nat
         /\ DOMAIN (a \o b) = 1 .. Len(a) + Len(b)
         /\ a \o b = [i \in 1 .. Len(a) + Len(b) |-> (a \o b)[i]]
         /\ \A i \in 1 .. Len(a) : (a \o b)[i] = a[i]
         /\ \A i \in 1 .. Len(a) + Len(b) : ~ (i <= Len(a)) =>
              i - Len(a) \in 1 .. Len(b) /\ (a \o b)[i] = b[i - Len(a)]
  <1>1. a \o b \in Seq(S) /\ Len(a \o b) = Len(a) + Len(b) /\ Len(a) \in Nat /\ Len(b) \in Nat
    OBVIOUS
  <1>2. a \o b = [i \in 1 .. Len(a \o b) |-> (a \o b)[i]] /\ DOMAIN (a \o b) = 1 .. Len(a \o b)
    <2> DEFINE c == a \o b
    <2>1. c \in Seq(S)
      BY <1>1
    <2> HIDE DEF c
    <2>2. c = [i \in 1 .. Len(c) |-> c[i]] /\ DOMAIN c = 1 .. Len(c)
      BY <2>1
    <2> QED BY <2>2 DEF c
  <1>3. /\ \A i \in 1 .. Len(a) : (a \o b)[i] = a[i]
        /\ \A i \in 1 .. Len(a) + Len(b) : ~ (i <= Len(a)) =>
             i - Len(a) \in 1 .. Len(b) /\ (a \o b)[i] = b[i - Len(a)]
    OBVIOUS
  <1> QED BY <1>1, <1>2, <1>3

LEMMA TextConcat ==
  ASSUME NEW a \in Run, NEW b \in Run
  PROVE  Text(a \o b) = Text(a) \o Text(b)
  <1> DEFINE S == [buffer : Nat, byte : Bytes]
             ta == Text(a)
             tb == Text(b)
             n == Len(a)
             m == Len(b)
  <1>1. a \in Seq(S) /\ b \in Seq(S)
    BY DEF Run
  <1>2. /\ ta \in Seq(Bytes) /\ tb \in Seq(Bytes) /\ Len(ta) = n /\ Len(tb) = m
        /\ \A i \in 1 .. n : ta[i] = a[i].byte
        /\ \A i \in 1 .. m : tb[i] = b[i].byte
    BY TextType
  <1>3. Text(a \o b) = [i \in DOMAIN (a \o b) |-> (a \o b)[i].byte]
    BY DEF Text
  <1> HIDE DEF S, ta, tb
  <1>4. /\ n \in Nat /\ m \in Nat /\ DOMAIN (a \o b) = 1 .. n + m
        /\ \A i \in 1 .. n : (a \o b)[i] = a[i]
        /\ \A i \in 1 .. n + m : ~ (i <= n) => i - n \in 1 .. m /\ (a \o b)[i] = b[i - n]
    BY <1>1, Concat
  <1>5. /\ ta \o tb = [i \in 1 .. n + m |-> (ta \o tb)[i]]
        /\ \A i \in 1 .. n : (ta \o tb)[i] = ta[i]
        /\ \A i \in 1 .. n + m : ~ (i <= n) => (ta \o tb)[i] = tb[i - n]
    <2>1. /\ ta \o tb = [i \in 1 .. Len(ta) + Len(tb) |-> (ta \o tb)[i]]
          /\ \A i \in 1 .. Len(ta) : (ta \o tb)[i] = ta[i]
          /\ \A i \in 1 .. Len(ta) + Len(tb) : ~ (i <= Len(ta)) => (ta \o tb)[i] = tb[i - Len(ta)]
      BY <1>2, Concat
    <2> HIDE DEF n, m
    <2> QED BY <1>2, <2>1
  <1>6. ASSUME NEW i \in 1 .. n + m PROVE (a \o b)[i].byte = (ta \o tb)[i]
    <2>1. CASE i <= n
      <3>1. i \in 1 .. n
        BY <1>4, <2>1
      <3> QED BY <1>2, <1>4, <1>5, <3>1
    <2>2. CASE ~ (i <= n)
      <3>1. i - n \in 1 .. m
        BY <1>4, <2>2
      <3> QED BY <1>2, <1>4, <1>5, <2>2, <3>1
    <2> QED BY <2>1, <2>2
  <1> HIDE DEF n, m
  <1>7. Text(a \o b) = ta \o tb
    BY <1>3, <1>4, <1>5, <1>6
  <1> QED BY <1>7 DEF ta, tb

\* What this turn adds to the text that has not ended.
Added == IF HasBar THEN SubSeq(in_buf, 1, BytesBefore) ELSE in_buf

LEMMA WholeText ==
  ASSUME IInv, in_buf # <<>>
  PROVE  /\ Added \in Seq(Bytes) /\ NoBars(Added) /\ Text(unread) \in Seq(Bytes)
         /\ Text(Whole) = Text(unread) \o Added /\ Text(Whole) \in Seq(Bytes)
         /\ Whole # <<>> <=> Text(Whole) # <<>>
  <1>1. in_buf \in Seq(Bytes) /\ unread \in Run /\ Part \in Run /\ Whole \in Run
    BY WholeType DEF IInv, Shape
  <1>2. Added \in Seq(Bytes) /\ NoBars(Added) /\ Text(Part) = Added
    <2>1. CASE HasBar
      <3> DEFINE n == BytesBefore
      <3>1. n \in 0 .. Len(in_buf) - 1 /\ \A i \in 1 .. n : in_buf[i] # "bar"
        BY <1>1, <2>1, FirstBar
      <3>2. Part = [i \in 1 .. n |-> [buffer |-> cur, byte |-> in_buf[i]]]
            /\ Added = SubSeq(in_buf, 1, n)
        BY <2>1 DEF Part, Slice, Added
      <3> HIDE DEF n
      <3>3. Text(Part) = [i \in 1 .. n |-> in_buf[i]]
        BY <3>2 DEF Text
      <3>4. SubSeq(in_buf, 1, n) = [i \in 1 .. n |-> in_buf[i]] /\ SubSeq(in_buf, 1, n) \in Seq(Bytes)
            /\ Len(SubSeq(in_buf, 1, n)) = n
        BY <1>1, <3>1
      <3> QED BY <3>1, <3>2, <3>3, <3>4 DEF NoBars
    <2>2. CASE ~HasBar
      <3>1. Text(Part) = [i \in 1 .. Len(in_buf) |-> in_buf[i]]
        BY <2>2 DEF Part, Slice, Text
      <3>2. \A i \in 1 .. Len(in_buf) : in_buf[i] # "bar"
        BY <1>1, <2>2 DEF HasBar, Range
      <3>3. in_buf = [i \in 1 .. Len(in_buf) |-> in_buf[i]]
        BY <1>1
      <3> QED BY <1>1, <2>2, <3>1, <3>2, <3>3 DEF Added, NoBars
    <2> QED BY <2>1, <2>2
  <1>3. Text(Whole) = Text(unread) \o Added /\ Text(unread) \in Seq(Bytes) /\ Text(Whole) \in Seq(Bytes)
        /\ Len(Text(Whole)) = Len(Whole)
    BY <1>1, <1>2, TextConcat, TextType DEF Whole
  <1>4. Whole # <<>> <=> Text(Whole) # <<>>
    <2> DEFINE w == Whole
               t == Text(Whole)
    <2>1. w \in Run /\ t \in Seq(Bytes) /\ Len(t) = Len(w)
      BY <1>1, <1>3
    <2> HIDE DEF w, t
    <2>2. w # <<>> <=> t # <<>>
      BY <2>1 DEF Run
    <2> QED BY <2>2 DEF w, t
  <1> QED BY <1>2, <1>3, <1>4

LEMMA NoBarsConcat ==
  ASSUME NEW a \in Seq(Bytes), NEW b \in Seq(Bytes), NoBars(a), NoBars(b)
  PROVE  NoBars(a \o b)
  <1>1. Len(a \o b) = Len(a) + Len(b)
    OBVIOUS
  <1> QED BY <1>1, Concat DEF NoBars

\* A text without bars is nothing but a text, and its bar ends it.
LEMMA WholeIsText ==
  ASSUME IInv, StreamInv, HasBar
  PROVE  /\ Text(Whole) \in Seq(Bytes) /\ NoBars(Text(Whole))
         /\ Text(Whole) = Text(unread) \o SubSeq(in_buf, 1, BytesBefore)
         /\ SubSeq(in_buf, 1, BytesBefore) \in Seq(Bytes) /\ NoBars(SubSeq(in_buf, 1, BytesBefore))
         /\ Whole # <<>> <=> Text(Whole) # <<>>
  <1>1. in_buf # <<>> /\ Added = SubSeq(in_buf, 1, BytesBefore)
    BY HasBarNotEmpty DEF Added
  <1> QED BY <1>1, WholeText, NoBarsConcat DEF StreamInv

\* A text is answered by itself and a bar.
LEMMA AnsweredKeeps ==
  ASSUME IInv, StreamInv, HasBar, Whole # <<>>,
         fired' = Append(fired, Text(Whole)), out' = out \o Encode(Text(Whole))
  PROVE  AnsweredInv'
  <1> DEFINE w == Text(Whole)
             j == ToJson(w)
  <1>1. w \in Seq(Bytes) /\ NoBars(w) /\ w # <<>>
    BY WholeIsText
  <1>2. fired \in Texts /\ out \in Seq(Bytes) /\ fired' = Append(fired, w) /\ out' = out \o Encode(w)
    BY DEF StreamInv, AnsweredInv
  <1> HIDE DEF w
  <1>3. j \in Seq(Bytes) /\ ("escape" \notin Range(w) => j = w)
    <2>1. DOMAIN w = 1 .. Len(w) /\ w = [i \in 1 .. Len(w) |-> w[i]] /\ \A i \in 1 .. Len(w) : w[i] \in Bytes
      BY <1>1
    <2>2. j = [i \in 1 .. Len(w) |-> IF w[i] = "escape" THEN "bar" ELSE w[i]]
      BY <2>1 DEF ToJson
    <2>3. "bar" \in Bytes
      BY DEF Bytes
    <2>4. j \in Seq(Bytes)
      <3> HIDE DEF j
      <3>1. Len(w) \in Nat
        BY <1>1
      <3> QED BY <2>1, <2>2, <2>3, <3>1
    <2>5. ASSUME "escape" \notin Range(w) PROVE j = w
      <3>1. \A i \in 1 .. Len(w) : w[i] # "escape"
        BY <2>1, <2>5 DEF Range
      <3> QED BY <2>1, <2>2, <3>1
    <2> QED BY <2>4, <2>5
  <1>4. out' = out \o (j \o <<"bar">>)
    BY <1>2 DEF Encode
  <1> HIDE DEF j
  <1>5. "bar" \in Bytes /\ <<"bar">> \in Seq(Bytes)
    BY DEF Bytes
  <1>6. out' = Append(out \o j, "bar") /\ out \o j \in Seq(Bytes) /\ out' \in Seq(Bytes)
    <2>1. j \o <<"bar">> = Append(j, "bar")
      BY <1>3
    <2>2. Append(out \o j, "bar") = out \o Append(j, "bar")
      BY <1>2, <1>3, <1>5, AppendBytes, Zenon
    <2>3. out \o j \in Seq(Bytes)
      BY <1>2, <1>3
    <2> QED BY <1>4, <1>5, <2>1, <2>2, <2>3
  <1>7. fired' \in Texts
    BY <1>1, <1>2 DEF Texts
  <1>8. ASSUME NoEscapes' PROVE Echo!Cuts(out').all = fired' /\ Echo!Cuts(out').text = <<>>
    <2>1. NoEscapes /\ "escape" \notin Range(w)
      <3> DEFINE S == Seq(Bytes)
      <3>1. fired \in Seq(S) /\ w \in S
        BY <1>1, <1>2 DEF Texts
      <3> HIDE DEF S
      <3>2. /\ DOMAIN fired = 1 .. Len(fired) /\ Len(fired) \in Nat
            /\ DOMAIN Append(fired, w) = 1 .. Len(fired) + 1
            /\ \A i \in 1 .. Len(fired) : Append(fired, w)[i] = fired[i]
            /\ Append(fired, w)[Len(fired) + 1] = w
        BY <3>1
      <3>3. \A i \in 1 .. Len(fired) + 1 : "escape" \notin Range(Append(fired, w)[i])
        BY <1>2, <1>8, <3>2 DEF NoEscapes
      <3>4. Len(fired) + 1 \in 1 .. Len(fired) + 1 /\ \A i \in 1 .. Len(fired) : i \in 1 .. Len(fired) + 1
        BY <3>2
      <3>5. \A i \in 1 .. Len(fired) : "escape" \notin Range(fired[i])
        BY <3>2, <3>3, <3>4
      <3>6. "escape" \notin Range(w)
        BY <3>2, <3>3, <3>4
      <3> QED BY <3>2, <3>5, <3>6 DEF NoEscapes
    <2>2. j = w /\ Echo!Cuts(out).all = fired /\ Echo!Cuts(out).text = <<>>
      BY <1>3, <2>1 DEF StreamInv, AnsweredInv
    <2>3. Echo!Cuts(out \o w).all = fired /\ Echo!Cuts(out \o w).text = <<>> \o w
      BY <1>1, <1>2, <2>2, CutsText DEF NoBars
    <2>4. <<>> \o w = w
      BY <1>1
    <2>5. /\ Echo!Cuts(Append(out \o w, "bar")).text = <<>>
          /\ Echo!Cuts(Append(out \o w, "bar")).all = Append(fired, w)
      BY <1>1, <1>6, <2>2, <2>3, <2>4, CutsBar
    <2> QED BY <1>2, <1>6, <2>2, <2>5
  <1> QED BY <1>6, <1>7, <1>8 DEF AnsweredInv

LEMMA Associative ==
  ASSUME NEW S, NEW a \in Seq(S), NEW b \in Seq(S), NEW c \in Seq(S)
  PROVE  a \o (b \o c) = (a \o b) \o c
  OBVIOUS

\* Bytes before a bar, and the rest.
LEMMA SplitAt ==
  ASSUME NEW S, NEW q \in Seq(S), NEW n \in 0 .. Len(q) - 1
  PROVE  /\ q = SubSeq(q, 1, n) \o SubSeq(q, n + 1, Len(q))
         /\ SubSeq(q, n + 1, Len(q)) \in Seq(S) /\ SubSeq(q, n + 1, Len(q)) # <<>>
         /\ SubSeq(q, n + 1, Len(q))[1] = q[n + 1]
  <1> DEFINE a == SubSeq(q, 1, n)
             b == SubSeq(q, n + 1, Len(q))
  <1>1. /\ a \in Seq(S) /\ Len(a) = n /\ \A i \in 1 .. n : a[i] = q[i]
        /\ b \in Seq(S) /\ Len(b) = Len(q) - n /\ \A i \in 1 .. Len(q) - n : b[i] = q[n + i]
        /\ Len(q) \in Nat
    OBVIOUS
  <1> HIDE DEF a, b
  <1>2. a \o b = q
    <2>1. /\ a \o b = [i \in 1 .. Len(a) + Len(b) |-> (a \o b)[i]]
          /\ \A i \in 1 .. Len(a) : (a \o b)[i] = a[i]
          /\ \A i \in 1 .. Len(a) + Len(b) : ~ (i <= Len(a)) =>
               i - Len(a) \in 1 .. Len(b) /\ (a \o b)[i] = b[i - Len(a)]
      BY <1>1, Concat
    <2>2. Len(a) + Len(b) = Len(q)
      BY <1>1
    <2>3. ASSUME NEW i \in 1 .. Len(q) PROVE (a \o b)[i] = q[i]
      <3>1. CASE i <= n
        BY <1>1, <2>1, <3>1
      <3>2. CASE ~ (i <= n)
        <4>1. i - n \in 1 .. Len(q) - n /\ n + (i - n) = i
          BY <1>1, <3>2
        <4> QED BY <1>1, <2>1, <2>2, <3>2, <4>1
      <3> QED BY <3>1, <3>2
    <2>4. q = [i \in 1 .. Len(q) |-> q[i]]
      OBVIOUS
    <2> QED BY <2>1, <2>2, <2>3, <2>4
  <1>3. b # <<>> /\ b[1] = q[n + 1]
    BY <1>1
  <1> QED BY <1>1, <1>2, <1>3 DEF a, b

LEMMA HeadAndTail ==
  ASSUME NEW S, NEW a \in Seq(S), NEW b \in Seq(S), b # <<>>
  PROVE  a \o b = Append(a, b[1]) \o Tail(b) /\ b[1] \in S /\ Tail(b) \in Seq(S)
  OBVIOUS

LEMMA AllInv == ASSUME IInv PROVE unread \in Run /\ in_buf \in Seq(Bytes)
  BY DEF IInv, Shape

\* More bytes are to be read.
LEMMA ReceiveStream ==
  ASSUME IInv, StreamInv, NEW bytes \in SeqOf(Bytes, MaxBytes - Len(sent)), Receive(bytes)
  PROVE  StreamInv'
  <1>1. bytes \in Seq(Bytes) /\ in_buf = <<>> /\ open
    <2>1. bytes \in Seq(Bytes)
      BY DEF SeqOf
    <2>2. open /\ pc = "idle"
      BY DEF Receive
    <2> QED BY <2>1, <2>2 DEF IInv
  <1>2. PICK read \in Seq(Bytes) : HasRead(read)
    BY <1>1 DEF StreamInv, ReadInv
  <1>3. sent = read
    BY <1>1, <1>2 DEF HasRead
  <1>4. HasRead(read)'
    BY <1>2, <1>3 DEF Receive, HasRead, composite
  <1>5. sent' \in Seq(Bytes)
    BY <1>1 DEF Receive, StreamInv
  <1> QED BY <1>2, <1>4, <1>5 DEF Receive, StreamInv, AnsweredInv, NoEscapes, ReadInv, composite

\* What the steps that read nothing keep.
LEMMA SameStream ==
  ASSUME StreamInv, UNCHANGED <<sent, fired, out>>, NoBars(Text(unread))',
         ~open' => pc' = "idle", open' => \E read \in Seq(Bytes) : HasRead(read)'
  PROVE  StreamInv'
  BY DEF StreamInv, AnsweredInv, NoEscapes, ReadInv

LEMMA KeepStream == ASSUME IInv, StreamInv, Keep PROVE StreamInv'
  <1>1. in_buf # <<>> /\ ~HasBar /\ Added = in_buf /\ in_buf' = <<>> /\ pc = "loop" /\ open
    BY DEF Keep, Added, StreamInv
  <1>2. PICK read \in Seq(Bytes) : HasRead(read)
    BY <1>1 DEF StreamInv, ReadInv
  <1>3. /\ in_buf \in Seq(Bytes) /\ NoBars(in_buf) /\ Text(unread) \in Seq(Bytes)
        /\ Text(Whole) = Text(unread) \o in_buf
    BY <1>1, WholeText
  <1>4. /\ sent = read \o in_buf /\ Echo!Cuts(read).text = Text(unread)
        /\ Echo!JsonOf(Echo!Texts(read)) = fired
    BY <1>1, <1>2 DEF HasRead
  <1>5. sent \in Seq(Bytes) /\ sent \o <<>> = sent
    BY DEF StreamInv
  <1>6. Echo!Cuts(sent).text = Text(Whole) /\ Echo!Texts(sent) = Echo!Texts(read)
    BY <1>3, <1>4, CutsText DEF NoBars, Echo!Texts
  <1>7. HasRead(sent)'
    BY <1>1, <1>4, <1>5, <1>6 DEF Keep, HasRead
  <1>8. NoBars(Text(Whole))
    BY <1>3, NoBarsConcat DEF StreamInv
  <1> QED BY <1>5, <1>7, <1>8, SameStream DEF Keep, StreamInv

LEMMA NoTextStream == ASSUME IInv, StreamInv, NoText PROVE StreamInv'
  <1>1. in_buf # <<>> /\ HasBar /\ pc = "loop" /\ open /\ Whole = <<>>
    BY HasBarNotEmpty DEF NoText, StreamInv
  <1>2. PICK read \in Seq(Bytes) : HasRead(read)
    BY <1>1 DEF StreamInv, ReadInv
  <1>3. /\ Echo!Cuts(read).text = Text(unread) /\ Echo!JsonOf(Echo!Texts(read)) = fired
    BY <1>1, <1>2 DEF HasRead
  <1>4. unread = <<>> /\ Part = <<>>
    <2>1. unread \in Seq([buffer : Nat, byte : Bytes]) /\ Part \in Seq([buffer : Nat, byte : Bytes])
      BY <1>1, WholeType, AllInv DEF Run
    <2> DEFINE S == [buffer : Nat, byte : Bytes]
               p == Part
    <2>2. unread \in Seq(S) /\ p \in Seq(S) /\ unread \o p = <<>>
      BY <1>1, <2>1 DEF Whole
    <2> HIDE DEF S, p
    <2>3. Len(unread) = 0 /\ Len(p) = 0
      BY <2>2
    <2> QED BY <2>2, <2>3 DEF p
  <1>5. in_buf[1] = "bar"
    <2> DEFINE n == BytesBefore
    <2>1. n \in 0 .. Len(in_buf) - 1 /\ in_buf[n + 1] = "bar"
      BY <1>1, AllInv, FirstBar
    <2>2. Part = [i \in 1 .. n |-> [buffer |-> cur, byte |-> in_buf[i]]]
      BY <1>1 DEF Part, Slice
    <2>3. n = 0
      <3> HIDE DEF n
      <3>1. DOMAIN Part = 1 .. n /\ DOMAIN Part = {}
        BY <1>4, <2>2
      <3> QED BY <2>1, <3>1
    <2> QED BY <2>1, <2>3
  <1>6. Text(unread) = <<>>
    BY <1>4 DEF Text
  <1>7. Echo!Texts(Append(read, "bar")) = Echo!Texts(read)
    BY <1>3, <1>6, CutsBar DEF Echo!Texts
  <1>8. HasRead(read)'
    BY <1>2, <1>3, <1>4, <1>5, <1>7 DEF NoText, HasRead, composite
  <1> QED BY <1>1, <1>8, SameStream DEF NoText, StreamInv, composite

\* A text ends: it is due if it is JSON, and then it is answered.
LEMMA TextEndsStream ==
  ASSUME IInv, StreamInv, TextEnds
  PROVE  /\ StreamInv'
         /\ \/ fired' = fired
            \/ /\ fired' = Append(fired, Text(Whole))
               /\ \E rest \in Texts : Echo!Due = Append(fired, Text(Whole)) \o rest
  <1>1. in_buf # <<>> /\ HasBar /\ pc = "loop" /\ open /\ Whole # <<>>
    BY HasBarNotEmpty DEF TextEnds, StreamInv
  <1>2. PICK read \in Seq(Bytes) : HasRead(read)
    BY <1>1 DEF StreamInv, ReadInv
  <1> DEFINE w == Text(Whole)
             b == SubSeq(in_buf, 1, BytesBefore)
             next == SubSeq(in_buf, BytesBefore + 1, Len(in_buf))
  <1>3. sent = read \o in_buf /\ Echo!Cuts(read).text = Text(unread) /\ Echo!JsonOf(Echo!Texts(read)) = fired
    BY <1>1, <1>2 DEF HasRead
  <1>4. /\ w \in Seq(Bytes) /\ w # <<>> /\ w = Text(unread) \o b
        /\ b \in Seq(Bytes) /\ NoBars(b)
    BY <1>1, WholeIsText
  <1>5. in_buf = b \o next /\ next \in Seq(Bytes) /\ next # <<>> /\ next[1] = "bar"
    <2> DEFINE n == BytesBefore
    <2>1. n \in 0 .. Len(in_buf) - 1 /\ in_buf[n + 1] = "bar" /\ in_buf \in Seq(Bytes)
      BY <1>1, AllInv, FirstBar
    <2> HIDE DEF n
    <2>2. /\ in_buf = SubSeq(in_buf, 1, n) \o SubSeq(in_buf, n + 1, Len(in_buf))
          /\ SubSeq(in_buf, n + 1, Len(in_buf)) \in Seq(Bytes) /\ SubSeq(in_buf, n + 1, Len(in_buf)) # <<>>
          /\ SubSeq(in_buf, n + 1, Len(in_buf))[1] = in_buf[n + 1]
      BY <2>1, SplitAt
    <2> QED BY <2>1, <2>2 DEF n
  <1>6. /\ in_buf' = next /\ unread' = <<>> /\ pc' = "skip" /\ open' = open /\ sent' = sent
        /\ IF IsJson(w) THEN fired' = Append(fired, w) /\ out' = out \o Encode(w) ELSE UNCHANGED <<fired, out>>
    BY DEF TextEnds, Consume
  <1> HIDE DEF w, b, next
  <1>7. PICK now \in Seq(Bytes) : now = read \o b /\ sent = now \o next
    <2>1. read \o b \in Seq(Bytes)
      BY <1>4
    <2>2. read \o (b \o next) = (read \o b) \o next
      BY <1>4, <1>5, Associative
    <2> QED BY <1>3, <1>5, <2>1, <2>2
  <1>8. Echo!Cuts(now).text = w /\ Echo!Texts(now) = Echo!Texts(read)
    BY <1>3, <1>4, <1>7, CutsText DEF NoBars, Echo!Texts
  <1>9. Echo!Texts(Append(now, "bar")) = Append(Echo!Texts(read), w)
    BY <1>4, <1>7, <1>8, CutsBar DEF Echo!Texts
  <1>10. Echo!Texts(read) \in Texts
    BY CutsAppend DEF Bytes, Echo!Texts, Accs
  <1>11. Echo!JsonOf(Echo!Texts(Append(now, "bar"))) = fired'
    <2>1. Echo!JsonOf(Append(Echo!Texts(read), w)) = Echo!KeepJson(fired, w)
      BY <1>3, <1>4, <1>10, JsonAppend
    <2>2. Echo!IsJson(w) <=> IsJson(w)
      BY DEF Echo!IsJson, IsJson, Echo!Range, Range
    <2> QED BY <1>6, <1>9, <2>1, <2>2 DEF Echo!KeepJson
  <1>12. HasRead(now)'
    BY <1>5, <1>6, <1>7, <1>11 DEF HasRead
  <1>13. AnsweredInv'
    <2>1. CASE UNCHANGED <<fired, out>>
      BY <2>1 DEF StreamInv, AnsweredInv, NoEscapes
    <2>2. CASE fired' = Append(fired, w) /\ out' = out \o Encode(w)
      BY <1>1, <2>2, AnsweredKeeps DEF w
    <2> QED BY <1>6, <2>1, <2>2
  <1>14. NoBars(Text(<<>>))
    BY DEF NoBars, Text
  <1>15. StreamInv'
    BY <1>1, <1>6, <1>7, <1>12, <1>13, <1>14 DEF StreamInv, ReadInv
  <1>16. ASSUME fired' # fired
         PROVE  fired' = Append(fired, w) /\ \E rest \in Texts : Echo!Due = Append(fired, w) \o rest
    <2>1. fired' = Append(fired, w)
      BY <1>6, <1>16
    <2>2. /\ Append(now, "bar") \in Seq(Bytes) /\ Tail(next) \in Seq(Bytes)
          /\ sent = Append(now, "bar") \o Tail(next)
      <3>1. now \o next = Append(now, next[1]) \o Tail(next) /\ Tail(next) \in Seq(Bytes)
        BY <1>5, HeadAndTail
      <3>2. Append(now, "bar") \in Seq(Bytes)
        BY DEF Bytes
      <3> QED BY <1>5, <1>7, <3>1, <3>2
    <2>3. \E rest \in Texts :
            Echo!JsonOf(Echo!Texts(sent)) = Echo!JsonOf(Echo!Texts(Append(now, "bar"))) \o rest
      BY <2>2, DueGrows
    <2> QED BY <1>11, <2>1, <2>3 DEF Echo!Due
  <1> QED BY <1>15, <1>16 DEF w

LEMMA SkipStream == ASSUME IInv, StreamInv, Skip PROVE StreamInv'
  <1>1. pc = "skip" /\ open /\ in_buf # <<>> /\ in_buf' = Tail(in_buf) /\ in_buf \in Seq(Bytes)
    BY AllInv DEF Skip, IInv, StreamInv
  <1>2. PICK read \in Seq(Bytes) : HasRead(read)
    BY <1>1 DEF StreamInv, ReadInv
  <1>3. /\ sent = read \o in_buf /\ in_buf[1] = "bar" /\ unread = <<>>
        /\ Echo!JsonOf(Echo!Texts(Append(read, "bar"))) = fired
    BY <1>1, <1>2 DEF HasRead
  <1>4. PICK now \in Seq(Bytes) : now = Append(read, "bar")
    <2>1. "bar" \in Bytes
      BY DEF Bytes
    <2>2. Append(read, "bar") \in Seq(Bytes)
      BY <2>1
    <2> QED BY <2>2, Zenon
  <1>5. sent = now \o Tail(in_buf)
    <2>1. read \o in_buf = Append(read, in_buf[1]) \o Tail(in_buf)
      BY <1>1, HeadAndTail
    <2> QED BY <1>3, <1>4, <2>1
  <1>6. Echo!Cuts(now).text = Text(unread)
    <2>1. Text(unread) = <<>>
      BY <1>3 DEF Text
    <2> QED BY <1>4, <2>1, CutsBar
  <1>7. HasRead(now)'
    BY <1>1, <1>3, <1>4, <1>5, <1>6 DEF Skip, HasRead, composite
  <1> QED BY <1>1, <1>7, SameStream DEF Skip, StreamInv, composite

LEMMA ReturnStream == ASSUME IInv, StreamInv, Return PROVE StreamInv'
  <1>1. pc = "loop" /\ open
    BY DEF Return, StreamInv
  <1>2. PICK read \in Seq(Bytes) : HasRead(read)
    BY <1>1 DEF StreamInv, ReadInv
  <1>3. HasRead(read)'
    BY <1>1, <1>2 DEF Return, Leave, HasRead, composite
  <1> QED BY <1>1, <1>3, SameStream DEF Return, Leave, StreamInv, composite

\* After an exception, or when the client has closed, nothing is read any more.
LEMMA ClosedStream ==
  ASSUME IInv, StreamInv, TooManyParts \/ ParseThrows \/ AssertionError \/ ChannelInactive
  PROVE  StreamInv' /\ open /\ ~open' /\ UNCHANGED <<sent, fired>>
  <1>1. /\ open /\ ~open' /\ pc' = "idle" /\ UNCHANGED <<sent, fired, out>>
    BY DEF TooManyParts, ParseThrows, AssertionError, ChannelInactive, Throw, Leave, StreamInv
  <1>2. NoBars(Text(unread))'
    <2>1. CASE TooManyParts
      <3>1. in_buf # <<>>
        BY <2>1, HasBarNotEmpty DEF TooManyParts, Part, Slice
      <3>2. NoBars(Text(Whole))
        BY <3>1, WholeText, NoBarsConcat DEF StreamInv
      <3> QED BY <2>1, <3>2 DEF TooManyParts
    <2>2. CASE ParseThrows
      BY <2>2 DEF ParseThrows, NoBars, Text
    <2>3. CASE AssertionError \/ ChannelInactive
      BY <2>3 DEF AssertionError, ChannelInactive, StreamInv, composite
    <2> QED BY <2>1, <2>2, <2>3
  <1> QED BY <1>1, <1>2, SameStream

LEMMA InitStream == Init => StreamInv
  <1> SUFFICES ASSUME Init PROVE StreamInv
    OBVIOUS
  <1>1. /\ <<>> \in Seq(Bytes) /\ <<>> \in Texts /\ <<>> \o <<>> = <<>>
        /\ Text(<<>>) = <<>> /\ NoBars(<<>>)
    BY DEF Texts, Text, NoBars
  <1>2. HasRead(<<>>)
    BY <1>1, EmptyCuts DEF Init, HasRead, Echo!Start, Echo!Texts
  <1>3. AnsweredInv
    BY <1>1, EmptyCuts DEF Init, AnsweredInv, Echo!Start
  <1> QED BY <1>1, <1>2, <1>3 DEF Init, StreamInv, ReadInv

\* Each step, as the abstract specification sees it.
LEMMA StreamStep ==
  IInv /\ StreamInv /\ [Next]_vars => StreamInv' /\ [Echo!EchoNext]_(Echo!echoVars)
  <1> SUFFICES ASSUME IInv, StreamInv, [Next]_vars
               PROVE  StreamInv' /\ [Echo!EchoNext]_(Echo!echoVars)
    OBVIOUS
  <1> USE DEF Echo!EchoNext, Echo!echoVars
  <1>1. ASSUME NEW bytes \in SeqOf(Bytes, MaxBytes - Len(sent)), bytes # <<>>, Receive(bytes)
        PROVE  StreamInv' /\ Echo!Arrive
    <2>1. bytes \in Seq(Bytes) /\ sent \in Seq(Bytes) /\ sent' = sent \o bytes
      BY <1>1 DEF SeqOf, Receive, StreamInv
    <2>2. IsStrictPrefix(sent, sent')
      <3>1. /\ Len(sent') = Len(sent) + Len(bytes) /\ Len(bytes) # 0
            /\ Len(sent) \in Nat /\ Len(bytes) \in Nat
        BY <1>1, <2>1
      <3>2. SubSeq(sent, 1, Len(sent)) = SubSeq(sent', 1, Len(sent)) /\ sent # sent'
        BY <2>1, <3>1
      <3> QED BY <3>1, <3>2 DEF IsStrictPrefix, IsPrefix
    <2> QED BY <1>1, <2>2, ReceiveStream DEF Receive, Echo!Arrive, Echo!IsStrictPrefix, IsStrictPrefix,
            Echo!IsPrefix, IsPrefix
  <1>2. CASE TextEnds
    <2>1. open /\ open' = open /\ sent' = sent
      BY <1>2 DEF TextEnds, StreamInv
    <2>2. StreamInv'
      BY <1>2, TextEndsStream
    <2>3. CASE fired' = fired
      BY <2>1, <2>2, <2>3
    <2>4. CASE fired' # fired
      <3> DEFINE w == Text(Whole)
      <3>1. fired' = Append(fired, w)
        BY <1>2, <2>4, TextEndsStream
      <3>2. PICK rest \in Texts : Echo!Due = Append(fired, w) \o rest
        BY <1>2, <2>4, TextEndsStream
      <3>3. w \in Seq(Bytes)
        BY <1>2, WholeIsText DEF TextEnds
      <3> HIDE DEF w
      <3>4. Len(fired) < Len(Echo!Due) /\ Echo!Due[Len(fired) + 1] = w
        <4> DEFINE S == Seq(Bytes)
        <4>1. fired \in Seq(S) /\ w \in S /\ rest \in Seq(S)
          BY <3>3 DEF StreamInv, AnsweredInv, Texts
        <4> HIDE DEF S
        <4>2. /\ Append(fired, w) \in Seq(S) /\ Len(Append(fired, w)) = Len(fired) + 1
              /\ Len(fired) \in Nat /\ Append(fired, w)[Len(fired) + 1] = w
          BY <4>1
        <4>3. /\ Len(Append(fired, w) \o rest) = Len(Append(fired, w)) + Len(rest)
              /\ \A i \in 1 .. Len(Append(fired, w)) :
                   (Append(fired, w) \o rest)[i] = Append(fired, w)[i]
              /\ Len(rest) \in Nat
          BY <4>1, <4>2, Concat
        <4> QED BY <3>2, <4>2, <4>3
      <3>5. Echo!Answer
        BY <2>1, <3>1, <3>4 DEF Echo!Answer
      <3> QED BY <2>2, <3>5
    <2> QED BY <2>3, <2>4
  <1>3. CASE TooManyParts \/ ParseThrows \/ AssertionError \/ ChannelInactive
    BY <1>3, ClosedStream DEF Echo!Close
  <1>4. CASE Return \/ Keep \/ NoText \/ Skip
    BY <1>4, ReturnStream, KeepStream, NoTextStream, SkipStream DEF Return, Keep, NoText, Skip
  <1>5. CASE UNCHANGED vars
    BY <1>5 DEF vars, composite, StreamInv, AnsweredInv, NoEscapes, ReadInv, HasRead
  <1> QED BY <1>1, <1>2, <1>3, <1>4, <1>5 DEF Next, ChannelRead

THEOREM StreamInvariance == Spec => [](IInv /\ StreamInv)
  <1>1. Init => StreamInv
    BY InitStream
  <1> QED BY <1>1, Invariance, StreamStep, PTL DEF Spec

\* A client that cuts the answers at the bars gets the elements back, one for
\* each text, unless one has a bar that had been escaped (NettyExample.java:123-127).
THEOREM AnswersAreFramed == Spec => []AnswersFramed
  <1>1. StreamInv => AnswersFramed
    BY DEF StreamInv, AnsweredInv, NoEscapes, AnswersFramed, Range, Echo!Texts
  <1> QED BY <1>1, StreamInvariance, PTL

\* Every step of the connection is one of the abstract connection, which knows
\* no buffers, or none at all: the texts that are answered are those of the
\* stream, in their order, wherever it was cut (NettyExample.java:74-97).
THEOREM ImplementsEcho == Spec => Echo!EchoSafe
  <1>1. Init => Echo!EchoInit
    BY DEF Init, Echo!EchoInit
  <1>2. IInv /\ StreamInv /\ [Next]_vars => [Echo!EchoNext]_(Echo!echoVars)
    BY StreamStep
  <1> QED BY <1>1, <1>2, StreamInvariance, PTL DEF Spec, Echo!EchoSafe
=============================================================================

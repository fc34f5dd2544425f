--------------------------- MODULE RTorrent_proofs ---------------------------
(***************************************************************************)
(* Proofs about the rTorrent client, for any number of requests and any    *)
(* torrents: the map of requests and the requests that are out agree, and  *)
(* the rows say what the server said.                                      *)
(***************************************************************************)
EXTENDS RTorrent, FoldFacts

\* The inductive invariant: RequestsMatch, and that both are functions of Ids.
IInv ==
  /\ pending \in [Ids -> {"none", "d.multicall", "load_raw_start"}]
  /\ net = [id \in Ids |-> net[id]]
  /\ RequestsMatch

\* Requests under free numbers keep the two together.
LEMMA RequestKeeps ==
  ASSUME IInv, NEW asked, request(asked),
         \A id \in DOMAIN asked :
           /\ asked[id].method \in {"d.multicall", "load_raw_start"}
           /\ asked[id].kind = "asked"
  PROVE  IInv'
<1>1. \A id \in DOMAIN asked : asked[id] # Nothing
  BY DEF Nothing
<1>2. \A id \in Ids : /\ pending'[id] = IF id \in DOMAIN asked THEN asked[id].method ELSE pending[id]
                      /\ net'[id] = IF id \in DOMAIN asked THEN asked[id] ELSE net[id]
  BY DEF request
<1>3. pending' \in [Ids -> {"none", "d.multicall", "load_raw_start"}] /\ net' = [id \in Ids |-> net'[id]]
  BY DEF IInv, request
<1>. QED
  BY <1>1, <1>2, <1>3 DEF IInv, RequestsMatch

\* Files that are sent are requests like that.
LEMMA LoadKeeps ==
  ASSUME IInv, NEW files, LoadLoop(files)
  PROVE  IInv'
<1>1. PICK id \in Injection(DOMAIN load(files).sent, Ids) :
        request([i \in Range(id) |-> Asked("load_raw_start", load(files).sent[AntiFunction(id)[i]])])
  BY DEF LoadLoop
<1>. QED
  BY <1>1, RequestKeeps DEF Asked

\* A request that is forgotten is neither in the map nor out.
LEMMA ForgetKeeps ==
  ASSUME IInv, NEW id \in Ids, Forget(id)
  PROVE  IInv'
  BY DEF IInv, RequestsMatch, Forget, Nothing

\* What the network carries may change as long as it is something.
LEMMA CarriedKeeps ==
  ASSUME IInv, NEW id \in Ids, NEW m, net[id].kind # "nothing", m.kind # "nothing",
         net' = [net EXCEPT ![id] = m], UNCHANGED pending
  PROVE  IInv'
<1>1. net[id] # Nothing /\ m # Nothing
  BY DEF Nothing
<1>2. \A i \in Ids : net'[i] = IF i = id THEN m ELSE net[i]
  BY DEF IInv
<1>3. net' = [i \in Ids |-> net'[i]]
  BY DEF IInv
<1>. QED
  BY <1>1, <1>2, <1>3 DEF IInv, RequestsMatch

LEMMA StepKeeps == IInv /\ [Next]_vars => IInv'
<1>. SUFFICES ASSUME IInv, [Next]_vars PROVE IInv'
  OBVIOUS
<1>1. ASSUME NEW id \in Ids, updateDownloadList(id) PROVE IInv'
  BY <1>1, RequestKeeps DEF updateDownloadList, Asked
<1>2. ASSUME NEW files \in Files, dropEvent(files) PROVE IInv'
  BY <1>2, LoadKeeps DEF dropEvent
<1>3. CASE closeBox
  BY <1>3, LoadKeeps DEF closeBox
<1>4. ASSUME NEW id \in Ids, Answer(id) PROVE IInv'
  BY <1>4, ForgetKeeps DEF Answer, xmlrpcDone, xmlrpcFailed
<1>5. ASSUME NEW id \in Ids, Serve(id) PROVE IInv'
  <2>1. \E m : m.kind # "nothing" /\ net' = [net EXCEPT ![id] = m]
    BY <1>5 DEF Serve, Done
  <2>. QED
    BY <1>5, <2>1, CarriedKeeps DEF Serve, client
<1>6. ASSUME NEW id \in Ids, Lose(id) PROVE IInv'
  BY <1>6, CarriedKeeps DEF Lose, Failed, client
<1>7. ASSUME NEW t \in Torrents, Change(t) \/ Erase(t) PROVE IInv'
  BY <1>7 DEF IInv, RequestsMatch, Change, Erase, client
<1>8. CASE UNCHANGED vars
  BY <1>8 DEF IInv, RequestsMatch, vars, client
<1>. QED
  BY <1>1, <1>2, <1>3, <1>4, <1>5, <1>6, <1>7, <1>8 DEF Next, Refresh

\* The inductive invariant holds in every state.
THEOREM Inductive == Spec => []IInv
<1>1. Init => IInv
  BY DEF Init, IInv, RequestsMatch
<1>. QED
  BY <1>1, StepKeeps, PTL DEF Spec

\* An answer always finds its request in the map, and no request stays there
\* whose answer was taken (xmlrpc.cpp:63, 78), however refreshes, dropped files,
\* answers and broken connections overlap.
THEOREM AnswersFindRequests == Spec => []RequestsMatch
<1>1. IInv => RequestsMatch
  BY DEF IInv
<1>. QED
  BY <1>1, Inductive, PTL

-----------------------------------------------------------------------------
(* Rows.                                                                   *)

Rows == [hash : Torrents, info : Nat]

\* What the server has said when the versions are v, and lists made of it.
Said(v) == {item \in Rows : item.info <= v[item.hash]}
Lists(v) == {list \in Seq(Said(v)) : \A i, j \in DOMAIN list : list[i].hash = list[j].hash => i = j}

\* The invariant: rows, and the answers that are out, say what the server said.
RowsInv ==
  /\ version \in [Torrents -> Nat] /\ here \in SUBSET Torrents
  /\ drop \in Seq(Dropped)
  /\ rows \in Lists(version)
  /\ \A id \in Ids :
       /\ net[id].kind = "done" => net[id].result \in Seq(Said(version))
       /\ net[id].kind = "asked" /\ net[id].method # "d.multicall" => net[id].file \in Torrents

\* The first row of a torrent, or the first file that is none.
LEMMA LeastIs ==
  ASSUME NEW I \in SUBSET Nat, I # {}
  PROVE  Min(I) \in I /\ \A i \in I : Min(I) <= i
<1>1. \E m \in I : \A n \in I : m <= n
  BY LeastElement
<1>. QED
  BY <1>1 DEF Min

\* One torrent of an answer keeps one row for each.
LEMMA PutRowKeeps ==
  ASSUME NEW v \in [Torrents -> Nat], NEW list \in Lists(v), NEW item \in Said(v)
  PROVE  PutRow(list, item) \in Lists(v)
<1>1. list \in Seq(Said(v)) /\ \A i, j \in DOMAIN list : list[i].hash = list[j].hash => i = j
  BY DEF Lists
<1>2. CASE \E i \in DOMAIN list : list[i].hash = item.hash
  <2>. DEFINE I == {i \in 1 .. Len(list) : list[i].hash = item.hash}
              k == Min(I)
  <2>1. k \in I
    <3>1. I \in SUBSET Nat /\ I # {}
      BY <1>1, <1>2
    <3>. HIDE DEF I
    <3>. QED
      BY <3>1, LeastIs
  <2>2. PutRow(list, item) = [list EXCEPT ![k] = item]
    BY <1>2, <2>1 DEF PutRow, SelectInSeq
  <2>3. k \in DOMAIN list /\ list[k].hash = item.hash
    BY <1>1, <2>1
  <2>. HIDE DEF k
  <2>4. [list EXCEPT ![k] = item] \in Seq(Said(v))
    BY <1>1, <2>3
  <2>5. \A i \in DOMAIN list : [list EXCEPT ![k] = item][i].hash = list[i].hash
    BY <2>3
  <2>. QED
    BY <1>1, <2>2, <2>4, <2>5 DEF Lists
<1>3. CASE ~ \E i \in DOMAIN list : list[i].hash = item.hash
  <2>1. PutRow(list, item) = Append(list, item) /\ Append(list, item) \in Seq(Said(v))
    BY <1>1, <1>3 DEF PutRow
  <2>2. \A i \in DOMAIN Append(list, item) :
          IF i \in DOMAIN list THEN Append(list, item)[i] = list[i]
          ELSE i = Len(list) + 1 /\ Append(list, item)[i] = item
    BY <1>1
  <2>3. \A i, j \in DOMAIN Append(list, item) :
          Append(list, item)[i].hash = Append(list, item)[j].hash => i = j
    BY <1>1, <1>3, <2>2
  <2>. QED
    BY <2>1, <2>3 DEF Lists
<1>. QED
  BY <1>2, <1>3

\* And so does a whole answer.
LEMMA FoldKeeps ==
  ASSUME NEW v \in [Torrents -> Nat], NEW list \in Lists(v), NEW result \in Seq(Said(v))
  PROVE  FoldLeft(PutRow, list, result) \in Lists(v)
<1>. DEFINE n == Len(result)
            A == Lists(v)
            S == Said(v)
            put == [p \in A \X S |-> PutRow(p[1], p[2])]
            Eq(f) == f = [t \in SUBSET (1 .. n) |->
                            IF t = {} THEN list ELSE PutRow(f[t \ {Max(t)}], result[Max(t)])]
            f == CHOOSE iter : Eq(iter)
<1>1. n \in Nat /\ DOMAIN result = 1 .. n /\ \A i \in 1 .. n : result[i] \in S
  OBVIOUS
<1>2. FoldLeft(PutRow, list, result) = f[1 .. n]
  BY <1>1 DEF FoldLeft, MapThenFoldSet
<1>3. Data(A, S, list, put, result)
  <2>1. \A rows_ \in A : \A item \in S : PutRow(rows_, item) \in A
    BY PutRowKeeps
  <2>. QED
    BY <2>1 DEF Data
<1>. HIDE DEF A, S
<1>4. Eq(f)
  <2>1. PICK g : Solution(g, A, S, list, put, result)
    <3>. HIDE DEF put
    <3>. QED
      BY <1>3, FoldExists
  <2>2. \A t \in SUBSET (1 .. n) : g[t] = IF t = {} THEN list ELSE PutRow(g[t \ {Max(t)}], result[Max(t)])
    BY <2>1 DEF Solution
  <2>3. g \in [SUBSET (1 .. n) -> A]
    BY <2>1 DEF Solution
  <2>4. Eq(g)
    <3>. HIDE DEF n
    <3>. QED
      BY <2>2, <2>3
  <2>. HIDE DEF Eq
  <2>. QED
    BY <2>4
<1>5. Recursion(f, A, list, put, result)
  <2>1. \A t \in SUBSET (1 .. n) : f[t] = IF t = {} THEN list ELSE PutRow(f[t \ {Max(t)}], result[Max(t)])
    <3>. HIDE DEF f, n
    <3>. QED
      BY <1>4
  <2>. HIDE DEF f
  <2>2. ASSUME NEW t \in SUBSET (1 .. n), t # {} PROVE result[Max(t)] \in S
    <3>. HIDE DEF n
    <3>1. Max(t) \in 1 .. n
      BY <1>1, <2>2, GreatestIn
    <3>. QED
      BY <1>1, <3>1
  <2>. QED
    BY <2>1, <2>2 DEF Recursion
<1>. HIDE DEF f, put
<1>6. PICK h : Trace(h, A, S, list, put, result) /\ f[1 .. n] = h[n]
  BY <1>3, <1>5, FoldIsTrace
<1>. QED
  BY <1>1, <1>2, <1>6 DEF Trace, A

-----------------------------------------------------------------------------

\* What the server has said stays true: versions only grow.
LEMMA StaysTrue ==
  ASSUME NEW v \in [Torrents -> Nat], NEW w \in [Torrents -> Nat],
         \A t \in Torrents : v[t] <= w[t]
  PROVE  Said(v) \subseteq Said(w) /\ Lists(v) \subseteq Lists(w)
<1>1. Said(v) \subseteq Said(w)
  BY DEF Said, Rows
<1>. QED
  BY <1>1 DEF Lists

\* The files up to the first one that is none are torrents.
LEMMA SentAreTorrents ==
  ASSUME NEW files \in Seq(Dropped)
  PROVE  load(files).left \in Seq(Dropped) /\ load(files).sent \in Seq(Torrents)
<1>. DEFINE I == {i \in 1 .. Len(files) : files[i] \in Junk}
            n == SelectInSeq(files, LAMBDA f : f \in Junk)
<1>1. n = IF I # {} THEN Min(I) ELSE 0
  BY DEF SelectInSeq
<1>2. CASE I = {}
  <2>1. n = 0 /\ \A i \in 1 .. Len(files) : files[i] \in Torrents
    BY <1>1, <1>2 DEF Dropped
  <2>2. load(files).sent = files /\ load(files).left = <<>>
    BY <2>1 DEF load
  <2>. QED
    BY <2>1, <2>2
<1>3. CASE I # {}
  <2>1. n \in I /\ \A i \in I : n <= i
    <3>1. I \in SUBSET Nat
      OBVIOUS
    <3>. HIDE DEF I
    <3>. QED
      BY <1>1, <1>3, <3>1, LeastIs
  <2>2. n \in 1 .. Len(files) /\ n # 0
    BY <2>1
  <2>3. load(files) = [sent |-> SubSeq(files, 1, n - 1),
                       left |-> SubSeq(files, n + 1, Len(files)), stop |-> TRUE]
    BY <2>2 DEF load
  <2>4. \A i \in 1 .. n - 1 : files[i] \in Torrents
    <3>. SUFFICES ASSUME NEW i \in 1 .. n - 1 PROVE files[i] \in Torrents
      OBVIOUS
    <3>. HIDE DEF n
    <3>1. i \in 1 .. Len(files) /\ ~ (n <= i)
      BY <2>2
    <3>2. i \notin I
      BY <2>1, <3>1
    <3>. QED
      BY <3>1, <3>2 DEF Dropped
  <2>. HIDE DEF n
  <2>5. SubSeq(files, 1, n - 1) \in Seq(Torrents) /\ SubSeq(files, n + 1, Len(files)) \in Seq(Dropped)
    BY <2>2, <2>4
  <2>. QED
    BY <2>3, <2>5
<1>. QED
  BY <1>2, <1>3

\* Requests change no row and no answer that is out.
LEMMA RequestRows ==
  ASSUME RowsInv, NEW asked, request(asked), UNCHANGED <<rows, server>>, drop' \in Seq(Dropped),
         \A id \in DOMAIN asked :
           /\ asked[id].kind = "asked"
           /\ asked[id].method # "d.multicall" => asked[id].file \in Torrents
  PROVE  RowsInv'
<1>1. \A id \in Ids : net'[id] = IF id \in DOMAIN asked THEN asked[id] ELSE net[id]
  BY DEF request
<1>. QED
  BY <1>1 DEF RowsInv, server

LEMMA LoadRows ==
  ASSUME RowsInv, NEW files \in Seq(Dropped), LoadLoop(files)
  PROVE  RowsInv'
<1>1. PICK id \in Injection(DOMAIN load(files).sent, Ids) :
        request([i \in Range(id) |-> Asked("load_raw_start", load(files).sent[AntiFunction(id)[i]])])
  BY DEF LoadLoop
<1>2. load(files).left \in Seq(Dropped) /\ load(files).sent \in Seq(Torrents)
  BY SentAreTorrents
<1>3. ASSUME NEW i \in Range(id) PROVE load(files).sent[AntiFunction(id)[i]] \in Torrents
  <2>1. AntiFunction(id)[i] \in DOMAIN id
    BY DEF AntiFunction, Inverse, Range
  <2>2. DOMAIN id = DOMAIN load(files).sent
    BY DEF Injection
  <2>. QED
    BY <1>2, <2>1, <2>2
<1>. DEFINE asked == [i \in Range(id) |-> Asked("load_raw_start", load(files).sent[AntiFunction(id)[i]])]
<1>4. \A i \in DOMAIN asked : asked[i].kind = "asked" /\ asked[i].file \in Torrents
  BY <1>3 DEF Asked
<1>5. drop' \in Seq(Dropped) /\ UNCHANGED <<rows, server>>
  BY <1>2 DEF LoadLoop
<1>. HIDE DEF asked
<1>. QED
  BY <1>1, <1>4, <1>5, RequestRows DEF asked

\* The sequence of all torrents of the server.
LEMMA ItemsAreSaid == ASSUME RowsInv PROVE Items \in Seq(Said(version))
<1>. DEFINE S == {[hash |-> t, info |-> version[t]] : t \in here}
            f == [t \in here |-> [hash |-> t, info |-> version[t]]]
<1>1. IsFiniteSet(here)
  BY TorrentAssumption, FS_Subset DEF RowsInv
<1>2. f \in Surjection(here, S)
  BY DEF Surjection
<1>3. IsFiniteSet(S)
  <2>. HIDE DEF S, f
  <2>. QED
    BY <1>1, <1>2, FS_Surjection
<1>4. S \subseteq Said(version)
  BY DEF RowsInv, Said, Rows
<1>. HIDE DEF S
<1>5. Cardinality(S) \in Nat /\ \E g \in [1 .. Cardinality(S) -> S] : IsInjective(g)
  BY <1>3, FS_CardinalityType DEF ExistsBijection, Bijection, Injection, IsInjective
<1>6. SetToSeq(S) \in [1 .. Cardinality(S) -> S]
  BY <1>5 DEF SetToSeq
<1>7. SetToSeq(S) \in Seq(Said(version))
  BY <1>4, <1>5, <1>6
<1>. QED
  BY <1>7 DEF Items, S
\* An answer changes rows as PutRow does, for each of its torrents.
LEMMA AnswerRows ==
  ASSUME RowsInv, IInv, NEW id \in Ids, Answer(id)
  PROVE  RowsInv'
<1>1. UNCHANGED <<drop, server>> /\ net' = [net EXCEPT ![id] = Nothing]
  BY DEF Answer, xmlrpcDone, xmlrpcFailed, Forget
<1>2. rows' \in Lists(version)
  <2>1. CASE rows' = rows
    BY <2>1 DEF RowsInv
  <2>2. CASE rows' # rows
    <3>1. rows' = FoldLeft(PutRow, rows, net[id].result) /\ net[id].kind = "done"
      BY <2>2 DEF Answer, xmlrpcDone, xmlrpcFailed, download_list_finished
    <3>2. version \in [Torrents -> Nat] /\ rows \in Lists(version) /\ net[id].result \in Seq(Said(version))
      BY <3>1 DEF RowsInv
    <3>. QED
      BY <3>1, <3>2, FoldKeeps
  <2>. QED
    BY <2>1, <2>2
<1>3. \A i \in Ids : net'[i] = IF i = id THEN Nothing ELSE net[i]
  BY <1>1 DEF IInv
<1>. QED
  BY <1>1, <1>2, <1>3 DEF RowsInv, server, Nothing

\* What the server answers it says now.
LEMMA ServeRows ==
  ASSUME RowsInv, IInv, NEW id \in Ids, Serve(id)
  PROVE  RowsInv'
<1>1. UNCHANGED <<drop, rows, version>>
  BY DEF Serve, client
<1>2. PICK result \in Seq(Said(version)) : net' = [net EXCEPT ![id] = Done(result)]
  <2>1. Items \in Seq(Said(version)) /\ <<>> \in Seq(Said(version))
    BY ItemsAreSaid
  <2>. QED
    BY <2>1 DEF Serve
<1>3. here' \in SUBSET Torrents
  BY DEF Serve, RowsInv
<1>4. \A i \in Ids : net'[i] = IF i = id THEN Done(result) ELSE net[i]
  BY <1>2 DEF IInv
<1>. QED
  BY <1>1, <1>3, <1>4 DEF RowsInv, Done

LEMMA LoseRows ==
  ASSUME RowsInv, IInv, NEW id \in Ids, Lose(id)
  PROVE  RowsInv'
<1>1. \A i \in Ids : net'[i] = IF i = id THEN Failed ELSE net[i]
  BY DEF Lose, IInv
<1>. QED
  BY <1>1 DEF Lose, RowsInv, Failed, client, server

\* A torrent that changes or goes gets a later version; what was said is true still.
LEMMA VersionRows ==
  ASSUME RowsInv, NEW t \in Torrents, Change(t) \/ Erase(t)
  PROVE  RowsInv'
<1>1. /\ UNCHANGED <<drop, rows, net>> /\ here' \in SUBSET Torrents
      /\ version' = [version EXCEPT ![t] = @ + 1]
  BY DEF Change, Erase, client, RowsInv
<1>2. version' \in [Torrents -> Nat] /\ \A u \in Torrents : version[u] <= version'[u]
  BY <1>1 DEF RowsInv
<1>3. Said(version) \subseteq Said(version') /\ Lists(version) \subseteq Lists(version')
  BY <1>2, StaysTrue DEF RowsInv
<1>4. Seq(Said(version)) \subseteq Seq(Said(version'))
  BY <1>3
<1>5. RowsInv' = (/\ version' \in [Torrents -> Nat] /\ here' \in SUBSET Torrents
                  /\ drop' \in Seq(Dropped)
                  /\ rows' \in Lists(version')
                  /\ \A id \in Ids :
                       /\ net'[id].kind = "done" => net'[id].result \in Seq(Said(version'))
                       /\ net'[id].kind = "asked" /\ net'[id].method # "d.multicall" => net'[id].file \in Torrents)
  BY DEF RowsInv
<1>. QED
  BY <1>1, <1>2, <1>3, <1>4 DEF RowsInv

LEMMA RowsStep == IInv /\ RowsInv /\ [Next]_vars => RowsInv'
<1>. SUFFICES ASSUME IInv, RowsInv, [Next]_vars PROVE RowsInv'
  OBVIOUS
<1>1. ASSUME NEW id \in Ids, updateDownloadList(id) PROVE RowsInv'
  BY <1>1, RequestRows DEF updateDownloadList, Asked, RowsInv
<1>2. ASSUME NEW files \in Files, dropEvent(files) PROVE RowsInv'
  <2>1. PICK a \in Dropped, b \in Dropped : files = <<a, b>>
    BY DEF Files
  <2>2. files \in Seq(Dropped)
    BY <2>1
  <2>. QED
    BY <1>2, <2>2, LoadRows DEF dropEvent
<1>3. CASE closeBox
  BY <1>3, LoadRows DEF closeBox, RowsInv
<1>4. ASSUME NEW id \in Ids, Answer(id) PROVE RowsInv'
  BY <1>4, AnswerRows
<1>5. ASSUME NEW id \in Ids, Serve(id) PROVE RowsInv'
  BY <1>5, ServeRows
<1>6. ASSUME NEW id \in Ids, Lose(id) PROVE RowsInv'
  BY <1>6, LoseRows
<1>7. ASSUME NEW t \in Torrents, Change(t) \/ Erase(t) PROVE RowsInv'
  BY <1>7, VersionRows
<1>8. CASE UNCHANGED vars
  BY <1>8 DEF RowsInv, vars, client, server
<1>. QED
  BY <1>1, <1>2, <1>3, <1>4, <1>5, <1>6, <1>7, <1>8 DEF Next, Refresh

\* A torrent has one row, and the row says what the server said of it: of no
\* other torrent and of no later version, whichever answers are lost and in
\* whatever order the others come (rtorrent_model.cpp:62-77).
THEOREM RowsAreTrue == Spec => []RowsTrue
<1>1. Init => RowsInv
  BY DEF Init, RowsInv, Lists, Nothing
<1>2. RowsInv => RowsTrue
  <2>. SUFFICES ASSUME RowsInv PROVE RowsTrue
    OBVIOUS
  <2>1. rows \in Seq(Said(version)) /\ \A i, j \in DOMAIN rows : rows[i].hash = rows[j].hash => i = j
    BY DEF RowsInv, Lists
  <2>2. \A i \in DOMAIN rows : rows[i] \in Said(version)
    BY <2>1
  <2>. QED
    BY <2>1, <2>2 DEF RowsTrue, Said
<1>. QED
  BY <1>1, <1>2, RowsStep, Inductive, PTL DEF Spec
=============================================================================

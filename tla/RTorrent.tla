------------------------------ MODULE RTorrent ------------------------------
(***************************************************************************)
(* The rTorrent client, qmltorrent/src: the list of torrents is asked for  *)
(* at the start and every five seconds, whether the last request was       *)
(* answered or not, and files dropped on the window are sent to the server.*)
(* Requests are kept by number until their answer comes (xmlrpc.cpp); an   *)
(* answer changes and appends rows of the model (rtorrent_model.cpp).      *)
(*                                                                         *)
(* All of it runs in the event loop of one thread.  The XML-RPC library    *)
(* gives answers in any order, which is what the map of requests is for.   *)
(* What the server says of a torrent is a version, a number that grows     *)
(* with each change.  Sorting and drawing are Qt's and left out.           *)
(* A definition marked "mutant" is a faulty variant that no action uses.   *)
(***************************************************************************)
EXTENDS Naturals, Sequences, SequencesExt, Functions

CONSTANTS Torrents,   \* hashes
          Ids,        \* bound: request numbers, used again when free
          Versions,   \* bound: changes of a torrent
          Junk        \* files that are no torrent, cannot be read or are not local

ASSUME TorrentAssumption ==
  Versions \in Nat /\ Junk \cap Torrents = {} /\ IsFiniteSet(Torrents)

Dropped == Torrents \cup Junk

VARIABLES
  pending,   \* pending_request_: the method of each request
  rows,      \* torrent_list_
  drop,      \* files dropEvent has still to load, when it is in the message box
  box,       \* the message box of dropEvent, which runs the event loop too
  net,       \* per request number: what the network carries
  here,      \* the torrents the server has
  version    \* per torrent: its version at the server

client == <<pending, rows, drop, box>>
server == <<here, version>>
vars == <<client, net, server>>

Nothing == [kind |-> "nothing"]
Asked(method, file) == [kind |-> "asked", method |-> method, file |-> file]
Done(result) == [kind |-> "done", result |-> result]
Failed == [kind |-> "failed"]

\* Before the first refresh, which RTorrentView makes before the event loop.
Init ==
  /\ pending = [id \in Ids |-> "none"] /\ net = [id \in Ids |-> Nothing]
  /\ rows = <<>> /\ drop = <<>> /\ box = FALSE
  /\ here \in SUBSET Torrents /\ version = [t \in Torrents |-> 0]

-----------------------------------------------------------------------------
(* The client.                                                              *)

Free(id) == pending[id] = "none" /\ net[id] = Nothing

\* Requests are made, each under a number that is free.
request(asked) ==
  /\ \A id \in DOMAIN asked : Free(id)
  /\ net' = [id \in Ids |-> IF id \in DOMAIN asked THEN asked[id] ELSE net[id]]
  /\ pending' = [id \in Ids |-> IF id \in DOMAIN asked THEN asked[id].method ELSE pending[id]]

\* The timer, and the constructor of the view.
updateDownloadList(id) ==
  /\ request([i \in {id} |-> Asked("d.multicall", "none")])
  /\ UNCHANGED <<rows, drop, box, server>>

\* The torrents before the first file that is none; at that a box opens.
load(files) ==
  LET n == SelectInSeq(files, LAMBDA f : f \in Junk)
  IN  IF n = 0 THEN [sent |-> files, left |-> <<>>, stop |-> FALSE]
      ELSE [sent |-> SubSeq(files, 1, n - 1), left |-> SubSeq(files, n + 1, Len(files)), stop |-> TRUE]

\* The loop of dropEvent, up to the next message box.
LoadLoop(files) ==
  LET l == load(files)
  IN  /\ \E id \in Injection(DOMAIN l.sent, Ids) :
           request([i \in Range(id) |-> Asked("load_raw_start", l.sent[AntiFunction(id)[i]])])
      /\ drop' = l.left /\ box' = l.stop
      /\ UNCHANGED <<rows, server>>

\* Files are dropped; the window takes no others while a message box is open.
dropEvent(files) == ~box /\ LoadLoop(files)

\* The user closes the box.
closeBox == box /\ LoadLoop(drop)

\* mutants: torrents that are known are not looked for, or not changed.
AppendRow(list, item) == Append(list, item)
KeepRow(list, item) == IF \E i \in DOMAIN list : list[i].hash = item.hash THEN list ELSE Append(list, item)

\* One torrent of an answer changes its row, or gets one.
PutRow(list, item) ==
  IF \E i \in DOMAIN list : list[i].hash = item.hash
  THEN [list EXCEPT ![SelectInSeq(list, LAMBDA r : r.hash = item.hash)] = item]
  ELSE Append(list, item)

download_list_finished(result) == rows' = FoldLeft(PutRow, rows, result)

\* The request is forgotten after its handler.
Forget(id) ==
  /\ pending' = [pending EXCEPT ![id] = "none"]
  /\ net' = [net EXCEPT ![id] = Nothing]

xmlrpcDone(id) ==
  /\ net[id].kind = "done" /\ pending[id] # "none"
  /\ IF pending[id] = "d.multicall"
     THEN download_list_finished(net[id].result)
     ELSE UNCHANGED rows
  /\ Forget(id)
  /\ UNCHANGED <<drop, box, server>>

\* mutant: a failed request is kept.
xmlrpcFailedKept(id) ==
  /\ net[id].kind = "failed" /\ pending[id] # "none"
  /\ net' = [net EXCEPT ![id] = Nothing]
  /\ UNCHANGED <<client, server>>

\* No request has a handler for failures: it is only printed.
xmlrpcFailed(id) ==
  /\ net[id].kind = "failed" /\ pending[id] # "none"
  /\ Forget(id)
  /\ UNCHANGED <<rows, drop, box, server>>

-----------------------------------------------------------------------------
(* The network and the server.                                              *)

Items == SetToSeq({[hash |-> t, info |-> version[t]] : t \in here})

\* The server does what it is asked.
Serve(id) ==
  /\ net[id].kind = "asked"
  /\ IF net[id].method = "d.multicall"
     THEN net' = [net EXCEPT ![id] = Done(Items)] /\ UNCHANGED here
     ELSE /\ net' = [net EXCEPT ![id] = Done(<<>>)]
          /\ here' = here \cup {net[id].file}
  /\ UNCHANGED <<client, version>>

\* The connection breaks, before or after the server has seen the request.
Lose(id) == net[id].kind \in {"asked", "done"} /\ net' = [net EXCEPT ![id] = Failed] /\ UNCHANGED <<client, server>>

\* A torrent makes progress.
Change(t) ==
  /\ t \in here /\ version[t] < Versions
  /\ version' = [version EXCEPT ![t] = @ + 1]
  /\ UNCHANGED <<client, net, here>>

\* It is removed, by another client; to come again it has another version.
Erase(t) ==
  /\ t \in here /\ version[t] < Versions
  /\ here' = here \ {t}
  /\ version' = [version EXCEPT ![t] = @ + 1]
  /\ UNCHANGED <<client, net>>

Files == {files \in Dropped \X Dropped : files[1] # files[2]}

Refresh == \E id \in Ids : updateDownloadList(id)
Answer(id) == xmlrpcDone(id) \/ xmlrpcFailed(id)

Next ==
  \/ Refresh \/ closeBox
  \/ \E id \in Ids : Answer(id) \/ Serve(id) \/ Lose(id)
  \/ \E files \in Files : dropEvent(files)
  \/ \E t \in Torrents : Change(t) \/ Erase(t)

\* The timer goes on, the library answers each request in the end (with an error
\* when the connection breaks), and not every answer is lost.
ServeList == \E id \in Ids : net[id].kind = "asked" /\ net[id].method = "d.multicall" /\ Serve(id)
GotList == \E id \in Ids : pending[id] = "d.multicall" /\ xmlrpcDone(id)

Spec == Init /\ [][Next]_vars
FairSpec ==
  /\ Spec
  /\ SF_vars(Refresh) /\ SF_vars(ServeList) /\ SF_vars(GotList)
  /\ \A id \in Ids : WF_vars(Answer(id)) /\ WF_vars(Serve(id))

-----------------------------------------------------------------------------
(* Properties.                                                              *)

\* An answer finds its request, and a request is kept for as long as its answer
\* is out, however answers, failures and refreshes overlap (xmlrpc.cpp:63, 78).
RequestsMatch == \A id \in Ids : pending[id] # "none" <=> net[id] # Nothing

\* A torrent has one row (rtorrent_model.cpp:62-77), and what the row says is
\* something the server said: of no other torrent and of no later version.
RowsTrue ==
  /\ \A i, j \in DOMAIN rows : rows[i].hash = rows[j].hash => i = j
  /\ \A i \in DOMAIN rows : rows[i].info <= version[rows[i].hash]

\* When the server changes no more, each torrent it has gets a row with what it
\* says of it, and the list comes to rest, though late answers are taken too
\* (rtorrent_view.cpp:22-26).  That is all: an answer takes no row away, so the
\* torrents the server once listed and has no more keep theirs, with what an
\* answer last said of them (rtorrent_model.cpp:40-79).
PresentShown == \A t \in here : \E i \in DOMAIN rows : rows[i] = [hash |-> t, info |-> version[t]]
ListSettles == <>[][UNCHANGED server]_vars => <>[]PresentShown /\ <>[][UNCHANGED rows]_vars
=============================================================================

------------------------ MODULE HybridServer_proofs ------------------------
(***************************************************************************)
(* Safety of HybridServer for any number of calls and replies.  The        *)
(* inductive invariant says, for each processor, which step of its thread  *)
(* goes with which status, what may be outstanding then, and how many      *)
(* replies the client has; and how many processors there are.              *)
(***************************************************************************)
EXTENDS HybridServer, TLAPS

\* The status of a processor and the step of its thread.
Pairs ==
  ({"NONE", "WAIT_FOR_REQUEST"} \X {"none"})
    \cup ({"PROCESSING"} \X {"write", "sleep", "finish"})
    \cup ({"WAIT_FOR_WRITE_RESULT"} \X {"send", "write", "sleep", "finish"})
    \cup ({"WAIT_FOR_FINISH_RESULT"} \X {"none", "sendLast", "return", "ended"})
    \cup ({"FINISHED"} \X {"none", "return", "ended"})
    \cup ({"DELETED"} \X {"none", "ended"})

\* What an outstanding operation or result says of its processor.
WriteOut(o) == status[o] = "WAIT_FOR_WRITE_RESULT" /\ thr[o] # "send"
FinishOut(o) == status[o] = "WAIT_FOR_FINISH_RESULT" /\ thr[o] # "sendLast"

ThreadInv(o) ==
  /\ <<status[o], thr[o]>> \in Pairs
  /\ Stream(o) /\ thr[o] = "none" => status[o] \in {"NONE", "WAIT_FOR_REQUEST"}
  /\ status[o] \in {"NONE", "WAIT_FOR_REQUEST"} => written[o] = 0
  /\ thr[o] \in {"write", "send"} => written[o] < Replies
  /\ thr[o] \in {"finish", "sendLast", "return", "ended"} => written[o] = Replies

MadeInv(o) ==
  /\ status[o] = "NONE" <=> o[2] > made[o[1]]
  /\ status[o] = "WAIT_FOR_REQUEST" <=> o[2] = made[o[1]]

OpInv(o) ==
  /\ op[o] # "none" => ~Waiting(o)
  /\ op[o] = "request" => status[o] = "WAIT_FOR_REQUEST" /\ call[o] = "none"
  /\ op[o] = "write" => WriteOut(o)
  /\ op[o] = "finish" => FinishOut(o)
  /\ Waiting(o) => status[o] = "WAIT_FOR_REQUEST" \/ WriteOut(o) \/ FinishOut(o)

CallInv(o) ==
  /\ call[o] = "none" => status[o] \in {"NONE", "WAIT_FOR_REQUEST"} /\ ~Waiting(o)
  /\ status[o] = "NONE" => call[o] = "none"
  /\ call[o] # "cancelled" => received[o] = IF op[o] = "write" THEN written[o] - 1 ELSE written[o]
  /\ call[o] = "closed" =>
       /\ op[o] = "none" /\ status[o] \in {"WAIT_FOR_FINISH_RESULT", "FINISHED", "DELETED"}
       /\ FinishOut(o) \/ status[o] # "WAIT_FOR_FINISH_RESULT"

\* An operation has one result.
OneResult(o) == ~(Ev(o, "op", TRUE) \in queue /\ Ev(o, "op", FALSE) \in queue)

ObjInv(o) == ThreadInv(o) /\ MadeInv(o) /\ OpInv(o) /\ CallInv(o) /\ OneResult(o)

\* Each call that was taken has a processor, besides the one that waits.
CountInv ==
  \A k \in Kinds :
    /\ made[k] \in Nat \ {0} /\ called[k] \in Nat /\ incoming[k] \in Nat /\ called[k] <= Calls(k)
    /\ called[k] - incoming[k]
         = IF call[<<k, made[k]>>] = "none" THEN made[k] - 1 ELSE made[k]

JoinInv == joining # NoObject => joining \in Objects /\ status[joining] = "FINISHED"

IInv == TypeOK /\ CountInv /\ JoinInv /\ \A o \in Objects : ObjInv(o)

-----------------------------------------------------------------------------
(* Processors and events.                                                   *)

\* The parts of a processor, and the number of them.
LEMMA ObjectParts ==
  ASSUME NEW o \in Objects
  PROVE  /\ o[1] \in Kinds /\ Calls(o[1]) \in Nat /\ o[2] \in 1 .. Calls(o[1]) + 1
         /\ o = <<o[1], o[2]>>
  <1>1. PICK k \in Kinds : o \in {k} \X (1 .. Calls(k) + 1)
    BY DEF Objects
  <1>2. o[1] = k /\ o[2] \in 1 .. Calls(k) + 1 /\ o = <<o[1], o[2]>>
    BY <1>1
  <1> QED
    BY <1>2, ServerAssumption DEF Calls

LEMMA ObjectMade ==
  ASSUME NEW k \in Kinds, NEW i \in 1 .. Calls(k) + 1
  PROVE  <<k, i>> \in Objects
  BY DEF Objects

LEMMA NoObjectIsNone == NoObject \notin Objects
  BY ObjectParts DEF NoObject, Kinds

\* A result taken from the queue.
LEMMA QueueTake ==
  ASSUME NEW o, NEW good \in BOOLEAN, Ev(o, "op", good) \in queue, OneResult(o),
         queue' = queue \ {Ev(o, "op", good)}
  PROVE  /\ Waiting(o) /\ ~Waiting(o)' /\ OneResult(o)'
         /\ \A p : p # o => (Waiting(p)' <=> Waiting(p)) /\ (OneResult(p)' <=> OneResult(p))
  <1>1. Waiting(o) /\ ~Waiting(o)' /\ OneResult(o)'
    BY DEF Waiting, OneResult, Ev
  <1>2. ASSUME NEW p, p # o, NEW g PROVE Ev(p, "op", g) \in queue' <=> Ev(p, "op", g) \in queue
    BY <1>2 DEF Ev
  <1> QED
    BY <1>1, <1>2 DEF Waiting, OneResult

\* A result put into the queue.
LEMMA QueueDeliver ==
  ASSUME NEW o, NEW good \in BOOLEAN, ~Waiting(o), queue' = queue \cup {Ev(o, "op", good)}
  PROVE  /\ Waiting(o)' /\ OneResult(o)'
         /\ \A p : p # o => (Waiting(p)' <=> Waiting(p)) /\ (OneResult(p)' <=> OneResult(p))
  <1>1. Waiting(o)' /\ OneResult(o)'
    BY DEF Waiting, OneResult, Ev
  <1>2. ASSUME NEW p, p # o, NEW g PROVE Ev(p, "op", g) \in queue' <=> Ev(p, "op", g) \in queue
    BY <1>2 DEF Ev
  <1> QED
    BY <1>1, <1>2 DEF Waiting, OneResult

\* Events of AsyncNotifyWhenDone are no results.
LEMMA QueueDone ==
  ASSUME NEW o, queue' = queue \cup {Ev(o, "done", TRUE)} \/ queue' = queue \ {Ev(o, "done", TRUE)}
                  \/ queue' = queue
  PROVE  \A p : (Waiting(p)' <=> Waiting(p)) /\ (OneResult(p)' <=> OneResult(p))
  <1>1. ASSUME NEW p, NEW g PROVE Ev(p, "op", g) \in queue' <=> Ev(p, "op", g) \in queue
    BY DEF Ev
  <1> QED
    BY <1>1 DEF Waiting, OneResult

\* What a step leaves alone keeps its part of the invariant.
Same(p) ==
  /\ status'[p] = status[p] /\ thr'[p] = thr[p] /\ written'[p] = written[p]
  /\ op'[p] = op[p] /\ call'[p] = call[p] /\ received'[p] = received[p]
  /\ (Waiting(p)' <=> Waiting(p)) /\ (OneResult(p)' <=> OneResult(p))

LEMMA SameKeeps ==
  ASSUME NEW p, ObjInv(p), Same(p), MadeInv(p)' PROVE ObjInv(p)'
  <1> USE DEF Same
  <1>1. ThreadInv(p)'
    BY DEF ObjInv, ThreadInv
  <1>2. OpInv(p)'
    BY DEF ObjInv, OpInv, WriteOut, FinishOut
  <1>3. CallInv(p)'
    BY DEF ObjInv, CallInv, FinishOut
  <1> QED
    BY <1>1, <1>2, <1>3 DEF ObjInv

LEMMA MadeKeeps ==
  ASSUME NEW p, ObjInv(p), made' = made, status'[p] = status[p] PROVE MadeInv(p)'
  BY DEF ObjInv, MadeInv

\* The initial states.
LEMMA IInvInit == Init => IInv
  <1> SUFFICES ASSUME Init PROVE IInv
    OBVIOUS
  <1>1. TypeOK
    <2>1. ASSUME NEW k \in Kinds
          PROVE  made[k] = 1 /\ called[k] = 0 /\ incoming[k] = 0 /\ Calls(k) \in Nat
      BY ServerAssumption DEF Init, Calls
    <2>2. \A k \in Kinds : made[k] \in 1 .. called[k] + 1 /\ called[k] \in incoming[k] .. Calls(k)
      BY <2>1
    <2>3. 0 \in 0 .. Replies
      BY ServerAssumption
    <2> QED
      BY <2>2, <2>3 DEF Init, TypeOK
  <1>2. CountInv
    <2> SUFFICES ASSUME NEW k \in Kinds
                 PROVE  /\ made[k] = 1 /\ called[k] = 0 /\ incoming[k] = 0 /\ Calls(k) \in Nat
                        /\ call[<<k, made[k]>>] = "none"
      BY DEF CountInv
    <2>1. Calls(k) \in Nat
      BY ServerAssumption DEF Calls
    <2>2. <<k, 1>> \in Objects
      BY <2>1, ObjectMade
    <2> QED
      BY <2>1, <2>2 DEF Init
  <1>3. JoinInv
    BY DEF Init, JoinInv
  <1>4. ASSUME NEW o \in Objects PROVE ObjInv(o)
    <2>1. ~Waiting(o) /\ OneResult(o)
      BY DEF Init, Waiting, OneResult
    <2>2. o[1] \in Kinds /\ o[2] \in Nat \ {0}
      BY ObjectParts
    <2>3. ThreadInv(o)
      BY DEF Init, ThreadInv, Pairs
    <2>4. MadeInv(o)
      BY <2>2 DEF Init, MadeInv
    <2>5. OpInv(o) /\ CallInv(o)
      BY <2>1 DEF Init, OpInv, CallInv
    <2> QED
      BY <2>1, <2>3, <2>4, <2>5 DEF ObjInv
  <1> QED
    BY <1>1, <1>2, <1>3, <1>4 DEF IInv

-----------------------------------------------------------------------------
(* Each action keeps the invariant.                                         *)

\* A step of one processor that makes no other.
LEMMA OneObject ==
  ASSUME IInv, NEW o \in Objects, TypeOK', CountInv', JoinInv', made' = made,
         ObjInv(o)', \A p \in Objects : p # o => Same(p)
  PROVE  IInv'
  <1>1. ASSUME NEW p \in Objects, p # o PROVE ObjInv(p)'
    <2>1. Same(p) /\ ObjInv(p)
      BY <1>1 DEF IInv
    <2>2. MadeInv(p)'
      BY <2>1, MadeKeeps DEF Same
    <2> QED
      BY <2>1, <2>2, SameKeeps
  <1>2. \A p \in Objects : ObjInv(p)'
    BY <1>1
  <1> QED
    BY <1>2 DEF IInv

\* The number of calls taken is the number of processors that had one.
LEMMA CountKeeps ==
  ASSUME IInv, UNCHANGED <<made, called, incoming>>,
         \A p \in Objects : call'[p] = "none" <=> call[p] = "none"
  PROVE  CountInv'
  <1>1. ASSUME NEW k \in Kinds PROVE <<k, made[k]>> \in Objects
    <2>1. made[k] \in 1 .. Calls(k) + 1
      BY ServerAssumption DEF IInv, TypeOK, CountInv, Calls
    <2> QED
      BY <2>1, ObjectMade
  <1> QED
    BY <1>1 DEF IInv, CountInv

\* A step of the thread of o that changes its status, or its step, only.
LEMMA ThreadStep ==
  ASSUME IInv, NEW o \in Objects, UNCHANGED <<made, joining, op, queue, call, received, incoming, called>>,
         TypeOK', ObjInv(o)', status[o] = "FINISHED" => status'[o] = "FINISHED",
         \A p \in Objects : p # o => status'[p] = status[p] /\ thr'[p] = thr[p] /\ written'[p] = written[p]
  PROVE  IInv'
  <1>1. \A p : (Waiting(p)' <=> Waiting(p)) /\ (OneResult(p)' <=> OneResult(p))
    BY DEF Waiting, OneResult
  <1>2. \A p \in Objects : p # o => Same(p)
    BY <1>1 DEF Same
  <1>3. CountInv'
    BY CountKeeps
  <1>4. JoinInv'
    BY DEF IInv, JoinInv
  <1> QED
    BY <1>2, <1>3, <1>4, OneObject

\* A failed assertion.
LEMMA AbortKeeps ==
  ASSUME IInv, NEW o \in Objects, Abort PROVE IInv'
  <1> USE DEF Abort, server, object, library, client
  <1>1. TypeOK'
    BY DEF IInv, TypeOK
  <1>2. \A p : (Waiting(p)' <=> Waiting(p)) /\ (OneResult(p)' <=> OneResult(p))
    BY DEF Waiting, OneResult
  <1>3. Same(o) /\ MadeInv(o)'
    BY <1>2, MadeKeeps DEF Same, IInv
  <1>4. ObjInv(o)'
    BY <1>3, SameKeeps DEF IInv
  <1> QED
    BY <1>1, <1>4, ThreadStep

\* Write and Finish begin in PROCESSING only.
LEMMA BeginKeeps ==
  ASSUME IInv, NEW o \in Objects, Write(o) \/ Finish(o) PROVE IInv'
  <1>1. CASE Abort
    BY <1>1, AbortKeeps
  <1>2. CASE ~Abort
    <2> PICK step, wait, then :
          /\ <<step, wait, then>> \in {<<"write", "WAIT_FOR_WRITE_RESULT", "send">>,
                                       <<"finish", "WAIT_FOR_FINISH_RESULT", "sendLast">>}
          /\ thr[o] = step /\ status[o] = "PROCESSING"
          /\ status' = [status EXCEPT ![o] = wait] /\ thr' = [thr EXCEPT ![o] = then]
          /\ UNCHANGED <<server, written, library, client, process>>
      BY <1>2 DEF Write, Finish, Begin, At
    <2> USE DEF server, library, client
    <2>1. TypeOK'
      BY DEF IInv, TypeOK
    <2>2. status'[o] = wait /\ thr'[o] = then
      BY DEF IInv, TypeOK
    <2>3. Waiting(o)' <=> Waiting(o)
      BY DEF Waiting
    <2>4. ObjInv(o)'
      <3>1. ObjInv(o)
        BY DEF IInv
      <3>2. ThreadInv(o)'
        BY <2>2, <3>1 DEF ObjInv, ThreadInv, Pairs
      <3>3. MadeInv(o)'
        BY <2>2, <3>1 DEF ObjInv, MadeInv
      <3>4. op[o] = "none" /\ ~Waiting(o)
        BY <3>1 DEF ObjInv, OpInv, WriteOut, FinishOut, IInv, TypeOK
      <3>5. OpInv(o)'
        BY <2>3, <3>4 DEF OpInv
      <3>6. CallInv(o)'
        BY <2>2, <2>3, <3>1, <3>4 DEF ObjInv, CallInv
      <3>7. OneResult(o)'
        BY <3>1 DEF ObjInv, OneResult
      <3> QED
        BY <3>2, <3>3, <3>5, <3>6, <3>7 DEF ObjInv
    <2>5. \A p \in Objects : p # o => status'[p] = status[p] /\ thr'[p] = thr[p] /\ written'[p] = written[p]
      BY DEF IInv, TypeOK
    <2> QED
      BY <2>1, <2>4, <2>5, ThreadStep
  <1> QED
    BY <1>1, <1>2

\* The thread wakes, or ends.
LEMMA AwakeKeeps ==
  ASSUME IInv, NEW o \in Objects, Awake(o) \/ Return(o) PROVE IInv'
  <1> PICK then :
        /\ \/ thr[o] = "sleep" /\ then = IF written[o] < Replies THEN "write" ELSE "finish"
           \/ thr[o] = "return" /\ then = "ended"
        /\ thr' = [thr EXCEPT ![o] = then]
        /\ UNCHANGED <<server, status, written, library, client, process>>
    BY DEF Awake, Return, At
  <1> USE DEF server, library, client
  <1>1. TypeOK'
    BY DEF IInv, TypeOK
  <1>2. thr'[o] = then /\ written[o] \in 0 .. Replies
    BY DEF IInv, TypeOK
  <1>3. Waiting(o)' <=> Waiting(o)
    BY DEF Waiting
  <1>4. ObjInv(o)
    BY DEF IInv
  <1>5. ThreadInv(o)'
    BY <1>2, <1>4, ServerAssumption DEF ObjInv, ThreadInv, Pairs
  <1>6. MadeInv(o)' /\ OneResult(o)'
    BY <1>4 DEF ObjInv, MadeInv, OneResult
  <1>7. OpInv(o)' /\ CallInv(o)'
    BY <1>2, <1>3, <1>4 DEF ObjInv, OpInv, CallInv, WriteOut, FinishOut
  <1>8. ObjInv(o)'
    BY <1>5, <1>6, <1>7 DEF ObjInv
  <1>9. \A p \in Objects : p # o => status'[p] = status[p] /\ thr'[p] = thr[p] /\ written'[p] = written[p]
    BY DEF IInv, TypeOK
  <1> QED
    BY <1>1, <1>8, <1>9, ThreadStep

\* The thread calls the library: nothing of o is outstanding then.
LEMMA SendKeeps ==
  ASSUME IInv, NEW o \in Objects, Send(o) \/ SendLast(o) PROVE IInv'
  <1> USE DEF server, library, client
  <1>1. ObjInv(o) /\ written[o] \in 0 .. Replies
    BY DEF IInv, TypeOK
  <1>2. op[o] = "none" /\ ~Waiting(o)
    BY <1>1 DEF ObjInv, OpInv, WriteOut, FinishOut, ThreadInv, Pairs, IInv, TypeOK, Send, SendLast, At
  <1>3. \A p : (Waiting(p)' <=> Waiting(p)) /\ (OneResult(p)' <=> OneResult(p))
    BY DEF Waiting, OneResult, Send, SendLast
  <1>4. \A p \in Objects : p # o => Same(p)
    BY <1>3 DEF Same, Send, SendLast, IInv, TypeOK
  <1>5. CountInv'
    BY CountKeeps DEF Send, SendLast
  <1>6. JoinInv'
    BY DEF IInv, JoinInv, Send, SendLast
  <1>7. MadeInv(o)' /\ OneResult(o)'
    BY <1>1, <1>3 DEF ObjInv, MadeInv, Send, SendLast
  <1>8. CASE Send(o)
    <2>1. thr[o] = "send" /\ thr'[o] = "sleep" /\ op'[o] = "write" /\ written'[o] = written[o] + 1
      BY <1>8 DEF Send, At, IInv, TypeOK
    <2>2. written[o] < Replies
      BY <1>1, <2>1 DEF ObjInv, ThreadInv
    <2>3. TypeOK'
      BY <1>8, <1>1, <2>2, ServerAssumption DEF IInv, TypeOK, Send
    <2>4. ThreadInv(o)'
      BY <1>1, <1>8, <2>1, <2>2 DEF ObjInv, ThreadInv, Pairs, Send
    <2>5. OpInv(o)' /\ CallInv(o)'
      <3>1. status[o] = "WAIT_FOR_WRITE_RESULT" /\ status'[o] = status[o]
        BY <1>1, <1>8, <2>1 DEF ObjInv, ThreadInv, Pairs, Send
      <3>2. OpInv(o)'
        BY <1>2, <1>3, <2>1, <3>1 DEF OpInv, WriteOut, FinishOut
      <3>3. CallInv(o)'
        BY <1>1, <1>2, <1>3, <1>8, <2>1, <3>1 DEF ObjInv, CallInv, Send
      <3> QED
        BY <3>2, <3>3
    <2> QED
      BY <1>4, <1>5, <1>6, <1>7, <1>8, <2>3, <2>4, <2>5, OneObject DEF ObjInv, Send
  <1>9. CASE SendLast(o)
    <2>1. thr[o] = "sendLast" /\ thr'[o] = "return" /\ op'[o] = "finish" /\ written'[o] = written[o]
      BY <1>9 DEF SendLast, At, IInv, TypeOK
    <2>2. TypeOK'
      BY <1>9 DEF IInv, TypeOK, SendLast
    <2>3. ThreadInv(o)'
      BY <1>1, <1>9, <2>1 DEF ObjInv, ThreadInv, Pairs, SendLast
    <2>4. OpInv(o)' /\ CallInv(o)'
      <3>1. status[o] = "WAIT_FOR_FINISH_RESULT" /\ status'[o] = status[o]
        BY <1>1, <1>9, <2>1 DEF ObjInv, ThreadInv, Pairs, SendLast
      <3>2. OpInv(o)'
        BY <1>2, <1>3, <2>1, <3>1 DEF OpInv, WriteOut, FinishOut
      <3>3. CallInv(o)'
        BY <1>1, <1>2, <1>3, <1>9, <2>1, <3>1 DEF ObjInv, CallInv, SendLast, FinishOut
      <3> QED
        BY <3>2, <3>3
    <2> QED
      BY <1>4, <1>5, <1>6, <1>7, <1>9, <2>2, <2>3, <2>4, OneObject DEF ObjInv, SendLast
  <1> QED
    BY <1>8, <1>9

\* The end of the destructor.
LEMMA JoinKeeps ==
  ASSUME IInv, NEW o \in Objects, Join(o) PROVE IInv'
  <1> USE DEF Join, library, client
  <1>1. ObjInv(o) /\ status[o] = "FINISHED" /\ status'[o] = "DELETED"
    BY NoObjectIsNone DEF IInv, TypeOK, JoinInv
  <1>2. \A p : (Waiting(p)' <=> Waiting(p)) /\ (OneResult(p)' <=> OneResult(p))
    BY DEF Waiting, OneResult
  <1>3. \A p \in Objects : p # o => Same(p)
    BY <1>2 DEF Same, IInv, TypeOK
  <1>4. TypeOK'
    BY DEF IInv, TypeOK
  <1>5. CountInv'
    BY CountKeeps
  <1>6. JoinInv'
    BY DEF JoinInv
  <1>7. MadeInv(o)' /\ OneResult(o)'
    BY <1>1, <1>2 DEF ObjInv, MadeInv
  <1>8. ThreadInv(o)'
    BY <1>1 DEF ObjInv, ThreadInv, Pairs
  <1>9. OpInv(o)' /\ CallInv(o)'
    BY <1>1, <1>2 DEF ObjInv, OpInv, CallInv, WriteOut, FinishOut
  <1> QED
    BY <1>3, <1>4, <1>5, <1>6, <1>7, <1>8, <1>9, OneObject DEF ObjInv

\* The client cancels.
LEMMA CancelKeeps ==
  ASSUME IInv, NEW o \in Objects, Cancel(o) PROVE IInv'
  <1> USE DEF Cancel, server, object, library
  <1>1. ObjInv(o) /\ call[o] = "open" /\ call'[o] = "cancelled"
    BY DEF IInv, TypeOK
  <1>2. \A p : (Waiting(p)' <=> Waiting(p)) /\ (OneResult(p)' <=> OneResult(p))
    BY DEF Waiting, OneResult
  <1>3. \A p \in Objects : p # o => Same(p)
    BY <1>2 DEF Same, IInv, TypeOK
  <1>4. TypeOK'
    BY DEF IInv, TypeOK
  <1>5. CountInv'
    BY <1>1, <1>3, CountKeeps DEF Same
  <1>6. JoinInv'
    BY DEF IInv, JoinInv
  <1>7. MadeInv(o)' /\ OneResult(o)' /\ ThreadInv(o)'
    BY <1>1, <1>2 DEF ObjInv, MadeInv, ThreadInv
  <1>8. OpInv(o)' /\ CallInv(o)'
    BY <1>1, <1>2 DEF ObjInv, OpInv, CallInv, WriteOut, FinishOut
  <1> QED
    BY <1>3, <1>4, <1>5, <1>6, <1>7, <1>8, OneObject DEF ObjInv

\* The answer to AsyncNotifyWhenDone comes, and is taken.
LEMMA DoneKeeps ==
  ASSUME IInv, NEW o \in Objects, Notify(o) \/ ProceedDone(o) PROVE IInv'
  <1> USE DEF Notify, ProceedDone, Deliver, server, object, client
  <1>1. \A p : (Waiting(p)' <=> Waiting(p)) /\ (OneResult(p)' <=> OneResult(p))
    BY QueueDone
  <1>2. \A p \in Objects : Same(p)
    BY <1>1 DEF Same
  <1>3. Ev(o, "done", TRUE) \in Events
    BY DEF Ev, Events
  <1>4. TypeOK'
    BY <1>3 DEF IInv, TypeOK
  <1>5. CountInv'
    BY CountKeeps
  <1>6. JoinInv'
    BY DEF IInv, JoinInv
  <1>7. ObjInv(o)'
    BY <1>2, MadeKeeps, SameKeeps DEF IInv, Same
  <1> QED
    BY <1>2, <1>4, <1>5, <1>6, <1>7, OneObject

\* The result of a write, or of the last operation.
LEMMA ResultKeeps ==
  ASSUME IInv, NEW o \in Objects, ProceedWritten(o) \/ ProceedFinished(o) PROVE IInv'
  <1> PICK good \in BOOLEAN :
        /\ Taken(Ev(o, "op", good)) /\ queue' = queue \ {Ev(o, "op", good)}
        /\ \/ /\ status[o] = "WAIT_FOR_WRITE_RESULT"
              /\ status' = [status EXCEPT ![o] = "PROCESSING"] /\ UNCHANGED joining
           \/ /\ status[o] = "WAIT_FOR_FINISH_RESULT"
              /\ status' = [status EXCEPT ![o] = "FINISHED"] /\ joining' = o
        /\ UNCHANGED <<made, thr, written, op, told, client, process>>
    BY DEF ProceedWritten, ProceedFinished, server
  <1> USE DEF client
  <1>1. ObjInv(o)
    BY DEF IInv
  <1>2. /\ Waiting(o) /\ ~Waiting(o)' /\ OneResult(o)'
        /\ \A p : p # o => (Waiting(p)' <=> Waiting(p)) /\ (OneResult(p)' <=> OneResult(p))
    <2>1. Ev(o, "op", good) \in queue /\ OneResult(o)
      BY <1>1 DEF Taken, ObjInv
    <2> QED
      BY <2>1, QueueTake
  <1>3. \A p \in Objects : p # o => Same(p)
    BY <1>2 DEF Same, IInv, TypeOK
  <1>4. TypeOK'
    BY DEF IInv, TypeOK
  <1>5. CountInv'
    BY CountKeeps
  <1>6. JoinInv'
    BY DEF Taken, JoinInv, IInv, TypeOK
  <1>7. op[o] = "none"
    BY <1>1, <1>2 DEF ObjInv, OpInv
  <1>8. \/ status[o] = "WAIT_FOR_WRITE_RESULT" /\ status'[o] = "PROCESSING" /\ thr[o] # "send"
        \/ status[o] = "WAIT_FOR_FINISH_RESULT" /\ status'[o] = "FINISHED" /\ thr[o] # "sendLast"
    BY <1>1, <1>2 DEF ObjInv, OpInv, WriteOut, FinishOut, IInv, TypeOK
  <1>9. MadeInv(o)' /\ ThreadInv(o)'
    BY <1>1, <1>8 DEF ObjInv, MadeInv, ThreadInv, Pairs
  <1>10. OpInv(o)' /\ CallInv(o)'
    BY <1>1, <1>2, <1>7, <1>8 DEF ObjInv, OpInv, CallInv
  <1> QED
    BY <1>2, <1>3, <1>4, <1>5, <1>6, <1>9, <1>10, OneObject DEF ObjInv

\* The library ends an operation: its call is open or cancelled.
LEMMA CompleteKeeps ==
  ASSUME IInv, NEW o \in Objects, Complete(o) PROVE IInv'
  <1> PICK good \in BOOLEAN :
        /\ op[o] \in {"write", "finish"} /\ op' = [op EXCEPT ![o] = "none"]
        /\ queue' = queue \cup {Ev(o, "op", good)}
        /\ \/ /\ call[o] = "open"
              /\ received' = [received EXCEPT ![o] = IF op[o] = "write" THEN @ + 1 ELSE @]
              /\ call' = [call EXCEPT ![o] = IF op[o] = "finish" THEN "closed" ELSE @]
           \/ call[o] # "open" /\ UNCHANGED <<received, call>>
        /\ UNCHANGED <<server, object, told, incoming, called, process>>
    BY DEF Complete, Deliver
  <1> USE DEF server, object
  <1>1. ObjInv(o)
    BY DEF IInv
  <1>2. ~Waiting(o)
    BY <1>1 DEF ObjInv, OpInv
  <1>3. /\ Waiting(o)' /\ OneResult(o)'
        /\ \A p : p # o => (Waiting(p)' <=> Waiting(p)) /\ (OneResult(p)' <=> OneResult(p))
    BY <1>2, QueueDeliver
  <1>4. \A p \in Objects : p # o => Same(p)
    BY <1>3 DEF Same, IInv, TypeOK
  <1>5. (op[o] = "write" /\ WriteOut(o)) \/ (op[o] = "finish" /\ FinishOut(o))
    BY <1>1 DEF ObjInv, OpInv
  <1>6. call[o] \in {"open", "cancelled"} /\ written[o] \in 0 .. Replies /\ received[o] \in 0 .. Replies
    BY <1>1, <1>5 DEF ObjInv, CallInv, WriteOut, FinishOut, IInv, TypeOK
  <1>7. /\ op'[o] = "none"
        /\ call'[o] = IF call[o] = "open" /\ op[o] = "finish" THEN "closed" ELSE call[o]
        /\ received'[o] = IF call[o] = "open" /\ op[o] = "write" THEN received[o] + 1 ELSE received[o]
    BY DEF IInv, TypeOK
  <1>8. call[o] = "open" => received[o] = IF op[o] = "write" THEN written[o] - 1 ELSE written[o]
    BY <1>1 DEF ObjInv, CallInv
  <1>9. TypeOK'
    <2>1. Ev(o, "op", good) \in Events
      BY DEF Ev, Events
    <2>2. received'[o] \in 0 .. Replies
      BY <1>6, <1>7, <1>8, ServerAssumption
    <2>3. received' \in [Objects -> 0 .. Replies]
      BY <2>2 DEF IInv, TypeOK
    <2>4. call' \in [Objects -> {"none", "open", "cancelled", "closed"}]
      BY DEF IInv, TypeOK
    <2> QED
      BY <2>1, <2>3, <2>4 DEF IInv, TypeOK
  <1>10. CountInv'
    <2>1. \A p \in Objects : call'[p] = "none" <=> call[p] = "none"
      BY <1>4, <1>6, <1>7 DEF Same
    <2> QED
      BY <2>1, CountKeeps
  <1>11. JoinInv'
    BY DEF IInv, JoinInv
  <1>12. MadeInv(o)' /\ ThreadInv(o)'
    BY <1>1 DEF ObjInv, MadeInv, ThreadInv
  <1>13. OpInv(o)'
    BY <1>3, <1>5, <1>7 DEF OpInv, WriteOut, FinishOut
  <1>14. CallInv(o)'
    <2>1. status'[o] = status[o] /\ thr'[o] = thr[o] /\ written'[o] = written[o]
      OBVIOUS
    <2> QED
      BY <2>1, <1>5, <1>6, <1>7, <1>8 DEF CallInv, WriteOut, FinishOut
  <1> QED
    BY <1>3, <1>4, <1>9, <1>10, <1>11, <1>12, <1>13, <1>14, OneObject DEF ObjInv

\* A new call, and its processor.
LEMMA CallKeeps ==
  ASSUME IInv, NEW k \in Kinds, Call(k) PROVE IInv'
  <1> USE DEF Call, server, object, library
  <1>1. /\ called'[k] = called[k] + 1 /\ incoming'[k] = incoming[k] + 1
        /\ \A j \in Kinds : j # k => called'[j] = called[j] /\ incoming'[j] = incoming[j]
        /\ called' \in [Kinds -> Nat] /\ incoming' \in [Kinds -> Nat]
    BY DEF IInv, TypeOK
  <1>2. \A j \in Kinds : Calls(j) \in Nat
    BY ServerAssumption DEF Calls
  <1>3. TypeOK'
    <2>1. ASSUME NEW j \in Kinds
          PROVE  made[j] \in 1 .. called'[j] + 1 /\ called'[j] \in incoming'[j] .. Calls(j)
      <3>1. made[j] \in 1 .. called[j] + 1 /\ called[j] \in incoming[j] .. Calls(j)
            /\ called[j] \in Nat /\ incoming[j] \in Nat
        BY DEF IInv, TypeOK
      <3> QED
        BY <3>1, <1>1, <1>2
    <2> QED
      BY <2>1, <1>1 DEF IInv, TypeOK
  <1>4. CountInv'
    <2>1. ASSUME NEW j \in Kinds
          PROVE  /\ made[j] \in Nat \ {0} /\ called'[j] \in Nat /\ incoming'[j] \in Nat
                 /\ called'[j] <= Calls(j) /\ called'[j] - incoming'[j] = called[j] - incoming[j]
      <3>1. called[j] \in Nat /\ incoming[j] \in Nat /\ called[j] <= Calls(j) /\ made[j] \in Nat \ {0}
        BY DEF IInv, CountInv
      <3> QED
        BY <3>1, <1>1, <1>2
    <2> QED
      BY <2>1 DEF IInv, CountInv
  <1>5. JoinInv'
    BY DEF IInv, JoinInv
  <1>6. \A p : (Waiting(p)' <=> Waiting(p)) /\ (OneResult(p)' <=> OneResult(p))
    BY DEF Waiting, OneResult
  <1>7. \A p \in Objects : Same(p)
    BY <1>6 DEF Same
  <1>8. \A p \in Objects : ObjInv(p)'
    BY <1>7, MadeKeeps, SameKeeps DEF IInv, Same
  <1> QED
    BY <1>3, <1>4, <1>5, <1>8 DEF IInv

LEMMA MatchKeeps ==
  ASSUME IInv, NEW o \in Objects, Match(o) PROVE IInv'
  <1> USE DEF Match, Deliver, server, object
  <1>1. ObjInv(o) /\ o[1] \in Kinds
    BY ObjectParts DEF IInv
  <1>2. /\ ~Waiting(o) /\ status[o] = "WAIT_FOR_REQUEST" /\ call[o] = "none" /\ op[o] = "request"
        /\ received[o] = written[o]
    BY <1>1 DEF ObjInv, OpInv, CallInv
  <1>3. /\ Waiting(o)' /\ OneResult(o)'
        /\ \A p : p # o => (Waiting(p)' <=> Waiting(p)) /\ (OneResult(p)' <=> OneResult(p))
    BY <1>2, QueueDeliver
  <1>4. \A p \in Objects : p # o => Same(p)
    BY <1>3 DEF Same, IInv, TypeOK
  <1>5. call'[o] = "open" /\ op'[o] = "none"
    BY DEF IInv, TypeOK
  <1>6. /\ incoming'[o[1]] = incoming[o[1]] - 1 /\ incoming[o[1]] > 0
        /\ \A j \in Kinds : j # o[1] => incoming'[j] = incoming[j]
        /\ incoming' \in [Kinds -> Nat]
    BY <1>1 DEF IInv, TypeOK
  <1>7. TypeOK'
    <2>1. ASSUME NEW j \in Kinds
          PROVE  made[j] \in 1 .. called[j] + 1 /\ called[j] \in incoming'[j] .. Calls(j)
      <3>1. made[j] \in 1 .. called[j] + 1 /\ called[j] \in incoming[j] .. Calls(j)
            /\ called[j] \in Nat /\ incoming[j] \in Nat /\ Calls(j) \in Nat
        BY ServerAssumption DEF IInv, TypeOK, Calls
      <3> QED
        BY <3>1, <1>6
    <2>2. Ev(o, "op", TRUE) \in Events
      BY DEF Ev, Events
    <2> QED
      BY <2>1, <2>2, <1>6 DEF IInv, TypeOK
  <1>8. CountInv'
    <2>1. o = <<o[1], made[o[1]]>>
      BY <1>1, <1>2, ObjectParts DEF ObjInv, MadeInv
    <2>2. ASSUME NEW j \in Kinds
          PROVE  /\ incoming'[j] \in Nat
                 /\ called[j] - incoming'[j] = IF call'[<<j, made[j]>>] = "none" THEN made[j] - 1 ELSE made[j]
      <3>1. /\ made[j] \in Nat /\ called[j] \in Nat /\ incoming[j] \in Nat
            /\ called[j] - incoming[j] = IF call[<<j, made[j]>>] = "none" THEN made[j] - 1 ELSE made[j]
        BY DEF IInv, CountInv
      <3>2. CASE j = o[1]
        BY <3>1, <3>2, <2>1, <1>2, <1>5, <1>6
      <3>3. CASE j # o[1]
        <4>1. call'[<<j, made[j]>>] = call[<<j, made[j]>>]
          BY <3>3 DEF IInv, TypeOK
        <4> QED
          BY <4>1, <3>1, <3>3, <1>6
      <3> QED
        BY <3>2, <3>3
    <2> QED
      BY <2>2 DEF IInv, CountInv
  <1>9. JoinInv'
    BY DEF IInv, JoinInv
  <1>10. MadeInv(o)' /\ ThreadInv(o)'
    BY <1>1 DEF ObjInv, MadeInv, ThreadInv
  <1>11. OpInv(o)' /\ CallInv(o)'
    BY <1>2, <1>3, <1>5 DEF OpInv, CallInv
  <1> QED
    BY <1>3, <1>4, <1>7, <1>8, <1>9, <1>10, <1>11, OneObject DEF ObjInv

\* A call is taken: o was the last processor of its kind, and there is one more.
LEMMA RequestKeeps ==
  ASSUME IInv, NEW o \in Objects, ProceedRequest(o) PROVE IInv'
  <1> DEFINE k == o[1]
  <1> PICK next : next = <<k, made[k] + 1>>
    OBVIOUS
  <1> USE DEF client
  <1>1. /\ Taken(Ev(o, "op", TRUE)) /\ queue' = queue \ {Ev(o, "op", TRUE)}
        /\ status[o] = "WAIT_FOR_REQUEST" /\ made' = [made EXCEPT ![k] = @ + 1]
        /\ \/ /\ Stream(o)
              /\ status' = [status EXCEPT ![o] = "PROCESSING", ![next] = "WAIT_FOR_REQUEST"]
              /\ thr' = [thr EXCEPT ![o] = FirstStep] /\ op' = [op EXCEPT ![next] = "request"]
           \/ /\ ~Stream(o) /\ thr' = thr
              /\ status' = [status EXCEPT ![o] = "WAIT_FOR_FINISH_RESULT", ![next] = "WAIT_FOR_REQUEST"]
              /\ op' = [op EXCEPT ![o] = "finish", ![next] = "request"]
        /\ UNCHANGED <<joining, written, told, client, process>>
    BY DEF ProceedRequest, HandleRequest
  <1>2. ObjInv(o) /\ k \in Kinds /\ made[k] \in Nat \ {0}
    BY ObjectParts DEF IInv, CountInv
  <1>3. /\ Waiting(o) /\ ~Waiting(o)' /\ OneResult(o)'
        /\ \A p : p # o => (Waiting(p)' <=> Waiting(p)) /\ (OneResult(p)' <=> OneResult(p))
    <2>1. Ev(o, "op", TRUE) \in queue /\ OneResult(o)
      BY <1>1, <1>2 DEF Taken, ObjInv
    <2> QED
      BY <2>1, <1>1, QueueTake
  <1>4. o = <<k, made[k]>> /\ o[2] = made[k]
    BY <1>1, <1>2, ObjectParts DEF ObjInv, MadeInv
  <1>5. op[o] = "none" /\ call[o] \in {"open", "cancelled"} /\ written[o] = 0 /\ thr[o] = "none"
    BY <1>1, <1>2, <1>3 DEF ObjInv, OpInv, CallInv, ThreadInv, Pairs, IInv, TypeOK
  <1>6. called[k] - incoming[k] = made[k] /\ made[k] + 1 <= called[k] + 1 /\ made[k] + 1 <= Calls(k) + 1
    <2>1. called[k] - incoming[k] = made[k] /\ called[k] \in Nat /\ incoming[k] \in Nat /\ called[k] <= Calls(k)
      BY <1>2, <1>4, <1>5 DEF IInv, CountInv
    <2>2. Calls(k) \in Nat
      BY ServerAssumption DEF Calls
    <2> QED
      BY <2>1, <2>2, <1>2
  <1>7. next \in Objects /\ next # o /\ next[1] = k /\ next[2] = made[k] + 1
    <2>1. made[k] + 1 \in 1 .. Calls(k) + 1
      BY <1>2, <1>6, ServerAssumption DEF Calls
    <2> QED
      BY <2>1, <1>2, <1>4, ObjectMade
  <1>8. /\ status[next] = "NONE" /\ thr[next] = "none" /\ op[next] = "none" /\ call[next] = "none"
        /\ ~Waiting(next) /\ OneResult(next) /\ written[next] = 0 /\ received[next] = 0
    <2>1. ObjInv(next)
      BY <1>7 DEF IInv
    <2>2. status[next] = "NONE"
      BY <1>2, <1>7, <2>1 DEF ObjInv, MadeInv
    <2>3. thr[next] = "none" /\ written[next] = 0 /\ call[next] = "none"
      BY <2>1, <2>2 DEF ObjInv, ThreadInv, CallInv, Pairs
    <2>4. op[next] = "none" /\ ~Waiting(next) /\ OneResult(next)
      BY <1>7, <2>1, <2>2 DEF ObjInv, OpInv, WriteOut, FinishOut, IInv, TypeOK
    <2>5. received[next] = 0
      BY <2>1, <2>3, <2>4 DEF ObjInv, CallInv
    <2> QED
      BY <2>2, <2>3, <2>4, <2>5
  <1>9. /\ status'[next] = "WAIT_FOR_REQUEST" /\ op'[next] = "request"
        /\ \/ Stream(o) /\ status'[o] = "PROCESSING" /\ thr'[o] = FirstStep /\ op'[o] = "none"
           \/ ~Stream(o) /\ status'[o] = "WAIT_FOR_FINISH_RESULT" /\ thr'[o] = "none" /\ op'[o] = "finish"
        /\ thr'[next] = "none"
    <2>1. status \in [Objects -> {"NONE", "WAIT_FOR_REQUEST", "PROCESSING", "WAIT_FOR_WRITE_RESULT",
                               "WAIT_FOR_FINISH_RESULT", "FINISHED", "DELETED"}]
          /\ thr \in [Objects -> {"none", "write", "send", "sleep", "finish", "sendLast", "return", "ended"}]
          /\ op \in [Objects -> {"none", "request", "write", "finish"}]
      BY DEF IInv, TypeOK
    <2> QED
      BY <2>1, <1>1, <1>5, <1>7, <1>8
  <1>10. /\ made'[k] = made[k] + 1 /\ made' \in [Kinds -> Nat]
         /\ \A j \in Kinds : j # k => made'[j] = made[j]
    BY <1>1, <1>2 DEF IInv, TypeOK
  <1>11. \A p \in Objects : p # o /\ p # next => Same(p)
    <2> HIDE DEF k
    <2> QED
      BY <1>1, <1>3, <1>7 DEF Same, IInv, TypeOK
  <1>12. TypeOK'
    <2>1. ASSUME NEW j \in Kinds
          PROVE  made'[j] \in 1 .. called[j] + 1 /\ called[j] \in incoming[j] .. Calls(j)
      <3>1. made[j] \in 1 .. called[j] + 1 /\ called[j] \in incoming[j] .. Calls(j) /\ called[j] \in Nat
        BY DEF IInv, TypeOK
      <3> QED
        BY <3>1, <1>2, <1>6, <1>10
    <2>2. FirstStep \in {"write", "finish"}
      BY DEF FirstStep
    <2>3. status' \in [Objects -> {"NONE", "WAIT_FOR_REQUEST", "PROCESSING", "WAIT_FOR_WRITE_RESULT",
                                "WAIT_FOR_FINISH_RESULT", "FINISHED", "DELETED"}]
      BY <1>1, SMTT(30) DEF IInv, TypeOK
    <2>4. /\ thr' \in [Objects -> {"none", "write", "send", "sleep", "finish", "sendLast", "return", "ended"}]
          /\ op' \in [Objects -> {"none", "request", "write", "finish"}]
      <3>1. thr \in [Objects -> {"none", "write", "send", "sleep", "finish", "sendLast", "return", "ended"}]
            /\ op \in [Objects -> {"none", "request", "write", "finish"}]
        BY DEF IInv, TypeOK
      <3>2. thr' = thr \/ thr' = [thr EXCEPT ![o] = FirstStep]
        BY <1>1
      <3>3. op' = [op EXCEPT ![next] = "request"] \/ op' = [op EXCEPT ![o] = "finish", ![next] = "request"]
        BY <1>1
      <3>4. thr' \in [Objects -> {"none", "write", "send", "sleep", "finish", "sendLast", "return", "ended"}]
        BY <3>1, <3>2, <2>2
      <3>5. op' \in [Objects -> {"none", "request", "write", "finish"}]
        BY <3>1, <3>3
      <3> QED
        BY <3>4, <3>5
    <2>5. /\ queue' \subseteq Events /\ joining' \in Objects \cup {NoObject} /\ process' \in {"runs", "asserted", "crashed"}
          /\ written' \in [Objects -> 0 .. Replies] /\ received' \in [Objects -> 0 .. Replies]
          /\ call' \in [Objects -> {"none", "open", "cancelled", "closed"}]
          /\ told' \in [Objects -> BOOLEAN]
          /\ incoming' \in [Kinds -> Nat] /\ called' \in [Kinds -> Nat]
          /\ incoming' = incoming /\ called' = called
      BY <1>1 DEF IInv, TypeOK
    <2> QED
      BY <2>1, <2>3, <2>4, <2>5, <1>10 DEF TypeOK
  <1>13. CountInv'
    <2>1. ASSUME NEW j \in Kinds
          PROVE  /\ made'[j] \in Nat \ {0} /\ called[j] \in Nat /\ incoming[j] \in Nat /\ called[j] <= Calls(j)
                 /\ called[j] - incoming[j] = IF call[<<j, made'[j]>>] = "none" THEN made'[j] - 1 ELSE made'[j]
      <3>1. /\ made[j] \in Nat \ {0} /\ called[j] \in Nat /\ incoming[j] \in Nat /\ called[j] <= Calls(j)
            /\ called[j] - incoming[j] = IF call[<<j, made[j]>>] = "none" THEN made[j] - 1 ELSE made[j]
        BY DEF IInv, CountInv
      <3>2. CASE j = k
        <4>1. call[<<j, made'[j]>>] = "none"
          BY <3>2, <1>8, <1>10
        <4> QED
          BY <4>1, <3>1, <3>2, <1>6, <1>10
      <3>3. CASE j # k
        BY <3>1, <3>3, <1>10
      <3> QED
        BY <3>2, <3>3
    <2>2. call' = call /\ called' = called /\ incoming' = incoming
      BY <1>1
    <2> QED
      BY <2>1, <2>2 DEF CountInv
  <1>14. JoinInv'
    BY <1>1 DEF JoinInv, Taken
  <1>15. ObjInv(o)'
    <2>1. Stream(o)' <=> Stream(o)
      BY DEF Stream
    <2>2. ThreadInv(o)'
      BY <1>1, <1>5, <1>9, <2>1, ServerAssumption DEF ThreadInv, Pairs, FirstStep
    <2>3. MadeInv(o)'
      BY <1>2, <1>4, <1>9, <1>10 DEF MadeInv
    <2>4. OpInv(o)'
      BY <1>3, <1>5, <1>9 DEF OpInv, FinishOut
    <2>5. CallInv(o)'
      <3>1. (call[o] # "cancelled" => received[o] = written[o]) /\ call'[o] = call[o] /\ received'[o] = received[o] /\ written'[o] = written[o]
        BY <1>1, <1>2, <1>5 DEF ObjInv, CallInv
      <3> QED
        BY <3>1, <1>3, <1>5, <1>9 DEF CallInv
    <2> QED
      BY <2>2, <2>3, <2>4, <2>5, <1>3 DEF ObjInv
  <1>16. ObjInv(next)'
    <2>1. /\ call'[next] = "none" /\ received'[next] = 0 /\ written'[next] = 0
          /\ ~Waiting(next)' /\ OneResult(next)'
      BY <1>1, <1>3, <1>7, <1>8
    <2>2. ThreadInv(next)'
      BY <1>9, <2>1 DEF ThreadInv, Pairs
    <2>3. MadeInv(next)'
      BY <1>2, <1>7, <1>9, <1>10 DEF MadeInv
    <2>4. OpInv(next)' /\ CallInv(next)'
      BY <1>9, <2>1 DEF OpInv, CallInv
    <2> QED
      BY <2>1, <2>2, <2>3, <2>4 DEF ObjInv
  <1>17. ASSUME NEW p \in Objects, p # o, p # next PROVE ObjInv(p)'
    <2>1. Same(p) /\ ObjInv(p)
      BY <1>11, <1>17 DEF IInv
    <2>2. MadeInv(p)'
      <3>1. /\ p[1] \in Kinds /\ p[2] \in Nat /\ p = <<p[1], p[2]>> /\ made[p[1]] \in Nat
            /\ status'[p] = status[p]
        <4>1. p[1] \in Kinds /\ p[2] \in 1 .. Calls(p[1]) + 1 /\ Calls(p[1]) \in Nat /\ p = <<p[1], p[2]>>
          BY ObjectParts
        <4>2. made[p[1]] \in Nat
          BY <4>1 DEF IInv, CountInv
        <4>3. p[2] \in Nat
          BY <4>1
        <4> QED
          BY <4>1, <4>2, <4>3, <2>1 DEF Same
      <3>2. CASE p[1] = k
        <4>1. p[2] # made[k] /\ p[2] # made[k] + 1
          BY <3>1, <3>2, <1>4, <1>17
        <4> QED
          BY <3>1, <3>2, <4>1, <1>2, <1>10, <2>1 DEF ObjInv, MadeInv
      <3>3. CASE p[1] # k
        BY <3>1, <3>3, <1>10, <2>1 DEF ObjInv, MadeInv
      <3> QED
        BY <3>2, <3>3
    <2> QED
      BY <2>1, <2>2, SameKeeps
  <1> QED
    BY <1>12, <1>13, <1>14, <1>15, <1>16, <1>17 DEF IInv

-----------------------------------------------------------------------------
(* The theorems.                                                            *)

\* The invariant holds in every reachable state: which step of a thread goes
\* with which status of its processor (HybridServer.cpp:11-56,
\* grpc_async_processor.h:119-170).
THEOREM Inductive == Spec => []IInv
  <1>1. ASSUME IInv, [Next]_vars PROVE IInv'
    <2>1. CASE UNCHANGED vars
      <3> USE <2>1 DEF vars, server, object, library, client
      <3>1. \A p : (Waiting(p)' <=> Waiting(p)) /\ (OneResult(p)' <=> OneResult(p))
        BY DEF Waiting, OneResult
      <3>2. \A p \in Objects : Same(p)
        BY <3>1 DEF Same
      <3>3. \A p \in Objects : ObjInv(p)'
        BY <1>1, <3>2, MadeKeeps, SameKeeps DEF IInv, Same
      <3>4. TypeOK' /\ JoinInv'
        BY <1>1 DEF IInv, TypeOK, JoinInv
      <3>5. CountInv'
        BY <1>1 DEF IInv, CountInv
      <3> QED
        BY <3>3, <3>4, <3>5 DEF IInv
    <2>2. ASSUME NEW o \in Objects, Queue(o) PROVE IInv'
      BY <1>1, <2>2, DoneKeeps, RequestKeeps, ResultKeeps, JoinKeeps DEF Queue
    <2>3. ASSUME NEW o \in Objects, Thread(o) PROVE IInv'
      BY <1>1, <2>3, BeginKeeps, SendKeeps, AwakeKeeps DEF Thread
    <2>4. ASSUME NEW o \in Objects, Library(o) \/ Cancel(o) PROVE IInv'
      BY <1>1, <2>4, MatchKeeps, CompleteKeeps, DoneKeeps, CancelKeeps DEF Library
    <2> QED
      BY <1>1, <2>1, <2>2, <2>3, <2>4, CallKeeps DEF Next
  <1> QED
    BY <1>1, IInvInit, PTL DEF Spec

\* Every variable keeps its type (grpc_async_processor.h:181-188).
THEOREM TypeCorrect == Spec => []TypeOK
  <1>1. IInv => TypeOK
    BY DEF IInv
  <1> QED
    BY <1>1, Inductive, PTL

\* The library works on at most one operation of a processor, for any timing of
\* results, sleeps and cancellations (grpc_async_processor.h:155, 167).
THEOREM OneAtATime == Spec => []OneOperation
  <1>1. IInv => OneOperation
    <2> SUFFICES ASSUME IInv, NEW o \in Objects, thr[o] \in {"send", "sendLast"}
                 PROVE  op[o] = "none" /\ ~Waiting(o)
      BY DEF OneOperation
    <2>1. ObjInv(o)
      BY DEF IInv
    <2> QED
      BY <2>1 DEF ObjInv, OpInv, ThreadInv, Pairs, WriteOut, FinishOut, IInv, TypeOK
  <1> QED
    BY <1>1, Inductive, PTL

\* One processor of each kind waits for the next call, for any number of calls
\* (HybridServer.cpp:21, 44).
THEOREM NextIsMade == Spec => []OneWaits
  <1>1. IInv => OneWaits
    <2> SUFFICES ASSUME IInv, NEW k \in Kinds
                 PROVE  {o \in Objects : o[1] = k /\ status[o] = "WAIT_FOR_REQUEST"} = {<<k, made[k]>>}
      BY DEF OneWaits
    <2>1. made[k] \in 1 .. Calls(k) + 1
      BY ServerAssumption DEF IInv, TypeOK, CountInv, Calls
    <2>2. <<k, made[k]>> \in Objects
      BY <2>1, ObjectMade
    <2>3. \A o \in Objects : status[o] = "WAIT_FOR_REQUEST" <=> o[2] = made[o[1]]
      BY DEF IInv, ObjInv, MadeInv
    <2>4. \A o \in Objects : o = <<o[1], o[2]>>
      BY ObjectParts
    <2> QED
      BY <2>2, <2>3, <2>4
  <1> QED
    BY <1>1, Inductive, PTL

\* A result never finds a processor that expects none: of the two assertions on
\* the status, that of Proceed holds (grpc_async_processor.h:143).
THEOREM ResultsExpected == Spec => []ResultExpected
  <1>1. IInv => ResultExpected
    BY DEF IInv, ObjInv, OpInv, WriteOut, FinishOut, ResultExpected
  <1> QED
    BY <1>1, Inductive, PTL

\* Only streams ask for the answer of AsyncNotifyWhenDone.
DoneInv == \A e \in queue : e.tag = "done" => Stream(e.of)

\* The events that a step adds to the queue are results, or the answer to a stream.
LEMMA DoneIsOfStream == Spec => []DoneInv
  <1>1. Init => DoneInv
    BY DEF Init, DoneInv
  <1>2. ASSUME DoneInv, [Next]_vars PROVE DoneInv'
    <2>1. CASE UNCHANGED vars
      BY <1>2, <2>1 DEF DoneInv, vars, library
    <2>2. ASSUME NEW o \in Objects, Queue(o) PROVE queue' \subseteq queue
      BY <2>2 DEF Queue, ProceedDone, ProceedRequest, HandleRequest, ProceedWritten,
           ProceedFinished, Join, library
    <2>3. ASSUME NEW o \in Objects, Thread(o) PROVE queue' = queue
      BY <2>3 DEF Thread, Write, Send, Awake, Finish, SendLast, Return, Begin, Abort, library
    <2>4. ASSUME NEW o \in Objects, Match(o) \/ Complete(o)
          PROVE  \E good \in BOOLEAN : queue' = queue \cup {Ev(o, "op", good)}
      BY <2>4 DEF Match, Complete, Deliver
    <2>5. ASSUME NEW o \in Objects, Notify(o)
          PROVE  Stream(o) /\ queue' = queue \cup {Ev(o, "done", TRUE)}
      BY <2>5 DEF Notify, Deliver
    <2>6. ASSUME NEW o \in Objects, Cancel(o) PROVE queue' = queue
      BY <2>6 DEF Cancel, library
    <2>7. ASSUME NEW k \in Kinds, Call(k) PROVE queue' = queue
      BY <2>7 DEF Call, library
    <2>8. ASSUME NEW o \in Objects, Library(o) PROVE DoneInv'
      BY <1>2, <2>4, <2>5, <2>8 DEF Library, DoneInv, Ev
    <2> QED
      BY <1>2, <2>1, <2>2, <2>3, <2>6, <2>7, <2>8 DEF Next, DoneInv
  <1> QED
    BY <1>1, <1>2, PTL DEF Spec

\* No thread, operation or result of a processor outlives it, only the answer of
\* AsyncNotifyWhenDone (HybridServer.cpp:40, grpc_async_processor.h:119-141).
THEOREM DeletedIsQuiet == Spec => []DeletedQuiet
  <1>1. IInv /\ DoneInv => DeletedQuiet
    <2> SUFFICES ASSUME IInv, DoneInv, NEW o \in Objects, status[o] = "DELETED"
                 PROVE  /\ thr[o] \in {"none", "ended"} /\ op[o] = "none"
                        /\ \A e \in queue : e.of = o => e.tag = "done" /\ Stream(o)
      BY DEF DeletedQuiet
    <2>1. ObjInv(o)
      BY DEF IInv
    <2>2. thr[o] \in {"none", "ended"} /\ op[o] = "none" /\ ~Waiting(o)
      BY <2>1 DEF ObjInv, OpInv, ThreadInv, Pairs, WriteOut, FinishOut, IInv, TypeOK
    <2>3. ASSUME NEW e \in queue, e.of = o PROVE e.tag = "done"
      <3>1. e \in Events
        BY DEF IInv, TypeOK
      <3>2. e.tag = "op" => e = Ev(o, "op", e.ok) /\ e.ok \in BOOLEAN
        BY <2>3, <3>1 DEF Events, Ev
      <3> QED
        BY <2>2, <3>1, <3>2 DEF Events, Waiting
    <2> QED
      BY <2>2, <2>3 DEF DoneInv
  <1> QED
    BY <1>1, Inductive, DoneIsOfStream, PTL

\* A stream that its client did not cancel ends after all its replies, however
\* many they are (HybridServer.cpp:48-54).
THEOREM StreamsAreWhole == Spec => []StreamWhole
  <1>1. IInv => StreamWhole
    <2> SUFFICES ASSUME IInv, NEW o \in Objects, Stream(o), call[o] = "closed" PROVE received[o] = Replies
      BY DEF StreamWhole
    <2>1. ObjInv(o)
      BY DEF IInv
    <2>2. op[o] = "none" /\ received[o] = written[o] /\ thr[o] \in {"return", "ended"}
      BY <2>1 DEF ObjInv, CallInv, ThreadInv, Pairs, FinishOut
    <2> QED
      BY <2>1, <2>2 DEF ObjInv, ThreadInv
  <1> QED
    BY <1>1, Inductive, PTL
=============================================================================

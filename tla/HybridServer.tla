---------------------------- MODULE HybridServer ----------------------------
(***************************************************************************)
(* The gRPC server on a completion queue: grpc_example/cpp/HybridServer.cpp *)
(* and grpc_async_processor.h.  Each call of SayHello2 (one reply) and     *)
(* SayHello3 (a stream of replies) has a processor object of its own.  One *)
(* thread takes events from the queue and lets the object of the event     *)
(* proceed; a processor of SayHello3 has a second thread that writes a     *)
(* reply every two seconds, without looking at the result of the last one. *)
(*                                                                         *)
(* The library completes operations in any order, so the queue is a set of *)
(* events.  The reply to a call and the printed lines are left out; an     *)
(* assertion that fails stops the process (the build is a debug build).    *)
(* A definition marked "mutant" is a faulty variant that no action uses.   *)
(***************************************************************************)
EXTENDS Naturals, FiniteSets

CONSTANTS Unaries,  \* bound: calls of SayHello2
          Streams,  \* bound: calls of SayHello3
          Replies   \* replies of a stream (10 in the code)

ASSUME ServerAssumption == Unaries \in Nat /\ Streams \in Nat /\ Replies \in Nat

Kinds == {"Hello2", "Hello3"}
Calls(k) == IF k = "Hello2" THEN Unaries ELSE Streams
Objects == UNION {{k} \X (1 .. Calls(k) + 1) : k \in Kinds}
Stream(o) == o[1] = "Hello3"
NoObject == <<"none", 0>>

VARIABLES
  made,       \* per kind: how many processors were made
  status,     \* per object: status_, "NONE" before it is made
  op,         \* per object: the operation the library works on
  thr,        \* per object: the step of thr_
  written,    \* per object: i, the replies written
  call,       \* per object: the call it serves
  told,       \* per object: AsyncNotifyWhenDone was answered
  received,   \* per object: the replies the client has
  queue,      \* events of the completion queue
  joining,    \* the object whose destructor waits for thr_, in the queue's thread
  incoming,   \* per kind: calls that wait for a processor
  called,     \* per kind: calls made (for the bound)
  process     \* "runs", or stopped: an assertion failed, or freed memory was used

server == <<made, joining>>
object == <<status, thr, written>>
library == <<op, queue, told>>
client == <<call, received, incoming, called>>
vars == <<server, object, library, client, process>>

Events == [of : Objects, tag : {"op", "done"}, ok : BOOLEAN]

TypeOK ==
  /\ \A k \in Kinds : made[k] \in 1 .. called[k] + 1 /\ called[k] \in incoming[k] .. Calls(k)
  /\ joining \in Objects \cup {NoObject}
  /\ status \in [Objects -> {"NONE", "WAIT_FOR_REQUEST", "PROCESSING", "WAIT_FOR_WRITE_RESULT",
                             "WAIT_FOR_FINISH_RESULT", "FINISHED", "DELETED"}]
  /\ thr \in [Objects -> {"none", "write", "send", "sleep", "finish", "sendLast", "return", "ended"}]
  /\ written \in [Objects -> 0 .. Replies] /\ received \in [Objects -> 0 .. Replies]
  /\ op \in [Objects -> {"none", "request", "write", "finish"}]
  /\ call \in [Objects -> {"none", "open", "cancelled", "closed"}]
  /\ told \in [Objects -> BOOLEAN] /\ queue \subseteq Events
  /\ incoming \in [Kinds -> Nat] /\ called \in [Kinds -> Nat] /\ made \in [Kinds -> Nat]
  /\ process \in {"runs", "asserted", "crashed"}

\* Run makes one processor of each kind before its loop.
Init ==
  /\ made = [k \in Kinds |-> 1]
  /\ status = [o \in Objects |-> IF o[2] = 1 THEN "WAIT_FOR_REQUEST" ELSE "NONE"]
  /\ op = [o \in Objects |-> IF o[2] = 1 THEN "request" ELSE "none"]
  /\ thr = [o \in Objects |-> "none"] /\ written = [o \in Objects |-> 0]
  /\ call = [o \in Objects |-> "none"] /\ told = [o \in Objects |-> FALSE]
  /\ received = [o \in Objects |-> 0]
  /\ queue = {} /\ joining = NoObject
  /\ incoming = [k \in Kinds |-> 0] /\ called = [k \in Kinds |-> 0]
  /\ process = "runs"

Abort == process' = "asserted" /\ UNCHANGED <<server, object, library, client>>

-----------------------------------------------------------------------------
(* The thread of the completion queue: Run and Proceed.                     *)

Ev(o, tag, good) == [of |-> o, tag |-> tag, ok |-> good]

\* The next event, when the thread is in cq_->Next.
Taken(e) == process = "runs" /\ joining = NoObject /\ e \in queue

\* Proceed with tag 1: the answer to AsyncNotifyWhenDone is only printed.  The
\* object may be deleted by then, for nothing makes its deletion wait for this
\* event; then the call goes through freed memory, where it may find what was
\* there before, or crash.
ProceedDone(o) ==
  /\ Taken(Ev(o, "done", TRUE))
  /\ \/ queue' = queue \ {Ev(o, "done", TRUE)} /\ UNCHANGED process
     \/ status[o] = "DELETED" /\ process' = "crashed" /\ UNCHANGED queue
  /\ UNCHANGED <<server, object, op, told, client>>

\* HandleRequest makes and initiates the next processor of the kind, then
\* starts the answer: a stream has a thread for it, which begins with step; the
\* other kind has finished at once, and waits for the result in status wait.
HandleRequest(o, step, wait) ==
  LET next == <<o[1], made[o[1]] + 1>>
      e == Ev(o, "op", TRUE)
  IN  /\ Taken(e) /\ status[o] = "WAIT_FOR_REQUEST"
      /\ made' = [made EXCEPT ![o[1]] = @ + 1]
      /\ IF Stream(o)
         THEN /\ status' = [status EXCEPT ![o] = "PROCESSING", ![next] = "WAIT_FOR_REQUEST"]
              /\ thr' = [thr EXCEPT ![o] = step]
              /\ op' = [op EXCEPT ![next] = "request"]
         ELSE /\ status' = [status EXCEPT ![o] = wait, ![next] = "WAIT_FOR_REQUEST"]
              /\ op' = [op EXCEPT ![o] = "finish", ![next] = "request"]
              /\ UNCHANGED thr
      /\ queue' = queue \ {e}
      /\ UNCHANGED <<joining, written, told, client, process>>

FirstStep == IF Replies > 0 THEN "write" ELSE "finish"

\* mutants: no thread, no status, no next processor.
ProceedRequestIdle(o) == HandleRequest(o, "none", "WAIT_FOR_FINISH_RESULT")
ProceedRequestLate(o) == HandleRequest(o, FirstStep, "PROCESSING")
ProceedRequestOnce(o) ==
  /\ Taken(Ev(o, "op", TRUE)) /\ status[o] = "WAIT_FOR_REQUEST"
  /\ status' = [status EXCEPT ![o] = "PROCESSING"]
  /\ queue' = queue \ {Ev(o, "op", TRUE)}
  /\ UNCHANGED <<server, thr, written, op, told, client, process>>

ProceedRequest(o) == HandleRequest(o, FirstStep, "WAIT_FOR_FINISH_RESULT")

\* HandleWriteResult only prints.
ProceedWritten(o) ==
  \E good \in BOOLEAN :
    /\ Taken(Ev(o, "op", good)) /\ status[o] = "WAIT_FOR_WRITE_RESULT"
    /\ status' = [status EXCEPT ![o] = "PROCESSING"]
    /\ queue' = queue \ {Ev(o, "op", good)}
    /\ UNCHANGED <<server, thr, written, op, told, client, process>>

\* The last result: delete this, whose destructor joins the thread.
ProceedFinished(o) ==
  \E good \in BOOLEAN :
    /\ Taken(Ev(o, "op", good)) /\ status[o] = "WAIT_FOR_FINISH_RESULT"
    /\ status' = [status EXCEPT ![o] = "FINISHED"]
    /\ joining' = o
    /\ queue' = queue \ {Ev(o, "op", good)}
    /\ UNCHANGED <<made, thr, written, op, told, client, process>>

\* mutant: the thread is not joined.
JoinNot(o) ==
  /\ process = "runs" /\ joining = o
  /\ status' = [status EXCEPT ![o] = "DELETED"]
  /\ joining' = NoObject
  /\ UNCHANGED <<made, thr, written, library, client, process>>

\* The end of the destructor.
Join(o) ==
  /\ process = "runs" /\ joining = o /\ thr[o] \in {"none", "ended"}
  /\ status' = [status EXCEPT ![o] = "DELETED"]
  /\ joining' = NoObject
  /\ UNCHANGED <<made, thr, written, library, client, process>>

-----------------------------------------------------------------------------
(* thr_ of a SayHello3 processor.                                           *)

At(o, step) == process = "runs" /\ thr[o] = step

\* mutant: no assertion.
BeginUnchecked(o, step, wait, then) ==
  /\ At(o, step)
  /\ status' = [status EXCEPT ![o] = wait]
  /\ thr' = [thr EXCEPT ![o] = then]
  /\ UNCHANGED <<server, written, library, client, process>>

\* Write and Finish check and set the status, then call the library.
Begin(o, step, wait, then) ==
  /\ At(o, step)
  /\ IF status[o] = "PROCESSING"
     THEN /\ status' = [status EXCEPT ![o] = wait]
          /\ thr' = [thr EXCEPT ![o] = then]
          /\ UNCHANGED <<server, written, library, client, process>>
     ELSE Abort

Write(o) == Begin(o, "write", "WAIT_FOR_WRITE_RESULT", "send")
Finish(o) == Begin(o, "finish", "WAIT_FOR_FINISH_RESULT", "sendLast")

Send(o) ==
  /\ At(o, "send")
  /\ op' = [op EXCEPT ![o] = "write"]
  /\ written' = [written EXCEPT ![o] = @ + 1]
  /\ thr' = [thr EXCEPT ![o] = "sleep"]
  /\ UNCHANGED <<server, status, queue, told, client, process>>

\* mutant: one reply too few.
AwakeLast(o) ==
  /\ At(o, "sleep")
  /\ thr' = [thr EXCEPT ![o] = IF written[o] + 1 < Replies THEN "write" ELSE "finish"]
  /\ UNCHANGED <<server, status, written, library, client, process>>

\* Two seconds later, whatever became of the write.
Awake(o) ==
  /\ At(o, "sleep")
  /\ thr' = [thr EXCEPT ![o] = IF written[o] < Replies THEN "write" ELSE "finish"]
  /\ UNCHANGED <<server, status, written, library, client, process>>

SendLast(o) ==
  /\ At(o, "sendLast")
  /\ op' = [op EXCEPT ![o] = "finish"]
  /\ thr' = [thr EXCEPT ![o] = "return"]
  /\ UNCHANGED <<server, status, written, queue, told, client, process>>

Return(o) ==
  /\ At(o, "return")
  /\ thr' = [thr EXCEPT ![o] = "ended"]
  /\ UNCHANGED <<server, status, written, library, client, process>>

-----------------------------------------------------------------------------
(* The library and the client.                                              *)

Deliver(e) == queue' = queue \cup {e}

\* A client calls.
Call(k) ==
  /\ process = "runs" /\ called[k] < Calls(k)
  /\ called' = [called EXCEPT ![k] = @ + 1]
  /\ incoming' = [incoming EXCEPT ![k] = @ + 1]
  /\ UNCHANGED <<server, object, library, call, received, process>>

\* The library gives a call to the processor that waits for one.
Match(o) ==
  /\ process = "runs" /\ op[o] = "request" /\ incoming[o[1]] > 0
  /\ incoming' = [incoming EXCEPT ![o[1]] = @ - 1]
  /\ call' = [call EXCEPT ![o] = "open"]
  /\ op' = [op EXCEPT ![o] = "none"]
  /\ Deliver(Ev(o, "op", TRUE))
  /\ UNCHANGED <<server, object, told, received, called, process>>

\* The client cancels, or is gone.
Cancel(o) ==
  /\ process = "runs" /\ call[o] = "open"
  /\ call' = [call EXCEPT ![o] = "cancelled"]
  /\ UNCHANGED <<server, object, library, received, incoming, called, process>>

\* The library ends a write or the last operation of a call.
Complete(o) ==
  /\ process = "runs" /\ op[o] \in {"write", "finish"}
  /\ op' = [op EXCEPT ![o] = "none"]
  /\ IF call[o] = "open"
     THEN /\ Deliver(Ev(o, "op", TRUE))
          /\ received' = [received EXCEPT ![o] = IF op[o] = "write" THEN @ + 1 ELSE @]
          /\ call' = [call EXCEPT ![o] = IF op[o] = "finish" THEN "closed" ELSE @]
     ELSE Deliver(Ev(o, "op", FALSE)) /\ UNCHANGED <<received, call>>
  /\ UNCHANGED <<server, object, told, incoming, called, process>>

\* The answer to AsyncNotifyWhenDone, some time after the end of the call.
Notify(o) ==
  /\ process = "runs" /\ Stream(o) /\ call[o] \in {"cancelled", "closed"} /\ ~told[o]
  /\ told' = [told EXCEPT ![o] = TRUE]
  /\ Deliver(Ev(o, "done", TRUE))
  /\ UNCHANGED <<server, object, op, client, process>>

Queue(o) == ProceedDone(o) \/ ProceedRequest(o) \/ ProceedWritten(o) \/ ProceedFinished(o) \/ Join(o)
Thread(o) == Write(o) \/ Send(o) \/ Awake(o) \/ Finish(o) \/ SendLast(o) \/ Return(o)
Library(o) == Match(o) \/ Complete(o) \/ Notify(o)

Next == (\E o \in Objects : Queue(o) \/ Thread(o) \/ Library(o) \/ Cancel(o))
          \/ \E k \in Kinds : Call(k)

\* The threads run and the library answers; clients do what they like.
Spec == Init /\ [][Next]_vars
FairSpec ==
  /\ Spec
  /\ \A o \in Objects : WF_vars(Queue(o)) /\ WF_vars(Thread(o)) /\ WF_vars(Library(o))

-----------------------------------------------------------------------------
(* Properties.                                                              *)

Waiting(o) == \E good \in BOOLEAN : Ev(o, "op", good) \in queue

\* A processor calls the library for a write or the end of a call only when
\* the result of its last operation was handed out (grpc_async_processor.h:155,
\* 167: the assertions are all that keeps the thread from it).
OneOperation ==
  \A o \in Objects : thr[o] \in {"send", "sendLast"} => op[o] = "none" /\ ~Waiting(o)

\* For each kind, one processor waits for the next call, or has it and is about
\* to make the next (HybridServer.cpp:21, 44).
OneWaits ==
  \A k \in Kinds : {o \in Objects : o[1] = k /\ status[o] = "WAIT_FOR_REQUEST"} = {<<k, made[k]>>}

\* A result is only handed to a processor that waits for one
\* (grpc_async_processor.h:61, 143: assert(false) at any other).
ResultExpected ==
  \A o \in Objects : Waiting(o) =>
    status[o] \in {"WAIT_FOR_REQUEST", "WAIT_FOR_WRITE_RESULT", "WAIT_FOR_FINISH_RESULT"}

\* When a processor is deleted its thread has ended and no operation of its is
\* outstanding: of all that refers to it, only the answer to AsyncNotifyWhenDone
\* may still come, to a stream, where it meets freed memory (ProceedDone;
\* grpc_async_processor.h:119-141, HybridServer.cpp:40).
DeletedQuiet ==
  \A o \in Objects : status[o] = "DELETED" =>
    /\ thr[o] \in {"none", "ended"} /\ op[o] = "none"
    /\ \A e \in queue : e.of = o => e.tag = "done" /\ Stream(o)

\* A client that does not cancel gets all replies before the end of the stream
\* (HybridServer.cpp:48-54).
StreamWhole == \A o \in Objects : Stream(o) /\ call[o] = "closed" => received[o] = Replies

\* Every call is taken, ended, and its processor deleted (HybridServer.cpp:95-101;
\* with the bound on calls, "again and again" says it of each of them), unless the
\* process stops: an assertion fails, or freed memory is used (ProceedDone).
AllServed ==
  process # "runs" \/ \A k \in Kinds : incoming[k] = 0 /\ \A o \in Objects : call[o] # "none" => status[o] = "DELETED"
CallsServed == []<>AllServed

\* Write is called in the state it asserts (grpc_async_processor.h:155).
NoAssertFails == process # "asserted"
=============================================================================

---------------------------- MODULE NettyDecoder ----------------------------
(***************************************************************************)
(* The JSON server of netty_example/src/netty_example/NettyExample.java:   *)
(* one connection, its InboundDecoder, JsonProcessor and OutboundEncoder.  *)
(* The client's bytes arrive in buffers cut anywhere.  The decoder puts    *)
(* the parts of a text into a composite buffer, which keeps the buffers    *)
(* they came in alive through their reference counts.                      *)
(*                                                                         *)
(* A byte is a bar or a piece of JSON; "junk" makes a text no JSON, "deep" *)
(* nests it too deep for the parser, and "escape" stands for a bar written *)
(* as \u007c.  A connection has one event loop, so nothing runs between    *)
(* two steps of channelRead, and connections share nothing.  A definition  *)
(* marked "mutant" is a faulty variant that no action uses.                *)
(***************************************************************************)
EXTENDS Naturals, SequencesExt

CONSTANTS MaxParts,   \* components of a composite buffer (16 in Netty 4.0)
          MaxBytes    \* bound: bytes of a connection

ASSUME DecoderAssumption == MaxParts \in Nat \ {0} /\ MaxBytes \in Nat

Bytes == {"bar", "json", "junk", "deep", "escape"}

VARIABLES
  asserts,   \* the Java VM checks assertions (-ea)
  open,      \* the channel is active
  sent,      \* history: the bytes that have arrived
  buffers,   \* how many buffers have arrived; they are numbered from 1
  refs,      \* the reference count of each buffer, 0 when it was freed
  cur,       \* msg of channelRead: the buffer it was called with, or 0
  in_buf,    \* the bytes of it that are not read yet
  first,     \* in_buf.getByte(0): its first byte, read or not
  pc,        \* "idle", "loop" or "skip" (at the assertion)
  unread,    \* the readable bytes of incomplete_buf, each with its buffer
  parts,     \* the buffers with a component in incomplete_buf
  fired,     \* history: the elements given to JsonProcessor
  out        \* the bytes written to the channel

composite == <<unread, parts>>
vars == <<asserts, open, sent, buffers, refs, cur, in_buf, first, pc, composite, fired, out>>

Init ==
  /\ asserts \in BOOLEAN /\ open = TRUE
  /\ sent = <<>> /\ buffers = 0 /\ refs = <<>> /\ cur = 0
  /\ in_buf = <<>> /\ first = "bar" /\ pc = "idle"
  /\ unread = <<>> /\ parts = {}
  /\ fired = <<>> /\ out = <<>>

-----------------------------------------------------------------------------
(* Texts and elements.                                                     *)

Text(run) == [i \in DOMAIN run |-> run[i].byte]
IsJson(text) == Range(text) \cap {"junk", "deep"} = {}

\* JsonParser.parse meets the nesting before a syntax error, which is caught.
TooDeep(text) ==
  \E i \in DOMAIN text : text[i] = "deep" /\ \A j \in 1 .. i : text[j] # "junk"

\* Gson writes a bar as it is.
ToJson(je) == [i \in DOMAIN je |-> IF je[i] = "escape" THEN "bar" ELSE je[i]]

\* OutboundEncoder.write.
EncodeNoBar(je) == ToJson(je)                                        \* mutant
Encode(je) == ToJson(je) \o <<"bar">>

\* bytesBefore: the number of bytes before the first bar.
HasBar == "bar" \in Range(in_buf)
BytesBefore ==
  CHOOSE n \in 0 .. Len(in_buf) - 1 :
    in_buf[n + 1] = "bar" /\ \A i \in 1 .. n : in_buf[i] # "bar"

\* A slice of the first n bytes, which shares the count of its buffer.
Slice(n) == [i \in 1 .. n |-> [buffer |-> cur, byte |-> in_buf[i]]]

-----------------------------------------------------------------------------
(* Reference counts.                                                       *)

\* addPartialData of a part: one more reference, if it gets its component.
Retained == [refs EXCEPT ![cur] = @ + 1]

\* release at the end of channelRead.
Released(counts) == [counts EXCEPT ![cur] = @ - 1]

\* Each buffer of bs loses the reference of its component.
Dropped(counts, bs) == [b \in DOMAIN counts |-> IF b \in bs THEN counts[b] - 1 ELSE counts[b]]

\* channelRead ends, with or without an exception.
Leave == cur' = 0 /\ pc' = "idle"

\* An exception reaches JsonProcessor.exceptionCaught, which closes the channel.
Throw == open' = FALSE /\ Leave /\ in_buf' = <<>>

-----------------------------------------------------------------------------
(* InboundDecoder.channelRead.                                             *)

Receive(bytes) ==
  /\ open /\ pc = "idle"
  /\ sent' = sent \o bytes
  /\ buffers' = buffers + 1 /\ cur' = buffers + 1
  /\ refs' = [b \in 1 .. buffers + 1 |-> IF b = buffers + 1 THEN 1 ELSE refs[b]]
  /\ in_buf' = bytes /\ first' = bytes[1] /\ pc' = "loop"
  /\ UNCHANGED <<asserts, open, composite, fired, out>>

\* The loop ends, and the buffer of this call is released.
Return ==
  /\ pc = "loop" /\ in_buf = <<>>
  /\ refs' = Released(refs)
  /\ Leave
  /\ UNCHANGED <<asserts, open, sent, buffers, in_buf, first, composite, fired, out>>

\* The part of a text that this turn adds to the composite buffer.
Part == Slice(IF HasBar THEN BytesBefore ELSE Len(in_buf))
WholeInBuffer == Part                                                \* mutant
Whole == unread \o Part

\* A component too many: Netty copies the components into one and releases
\* each of them, the new one before addPartialData retains it.  The retain
\* fails on the freed buffer, and so does the release in the finally block.
TooManyParts ==
  /\ pc = "loop" /\ Part # <<>> /\ Cardinality(parts) = MaxParts
  /\ refs' = Dropped(refs, parts \cup {cur})
  /\ parts' = {} /\ unread' = Whole
  /\ Throw
  /\ UNCHANGED <<asserts, sent, buffers, first, fired, out>>

RoomForPart == Part # <<>> => Cardinality(parts) < MaxParts

\* No bar: what is left of the buffer is kept for later.
KeepNoRetain ==                                                      \* mutant
  /\ pc = "loop" /\ in_buf # <<>> /\ ~HasBar /\ RoomForPart
  /\ unread' = Whole /\ parts' = parts \cup {cur}
  /\ in_buf' = <<>>
  /\ UNCHANGED <<asserts, open, sent, buffers, refs, cur, first, pc, fired, out>>

Keep ==
  /\ pc = "loop" /\ in_buf # <<>> /\ ~HasBar /\ RoomForPart
  /\ unread' = Whole /\ parts' = parts \cup {cur}
  /\ refs' = Retained
  /\ in_buf' = <<>>
  /\ UNCHANGED <<asserts, open, sent, buffers, cur, first, pc, fired, out>>

\* A bar with nothing before it, here or in the composite buffer.
NoText ==
  /\ pc = "loop" /\ HasBar /\ Whole = <<>>
  /\ pc' = "skip"
  /\ UNCHANGED <<asserts, open, sent, buffers, refs, cur, in_buf, first, composite, fired, out>>

\* The bytes before the bar are read.
Consume == in_buf' = SubSeq(in_buf, BytesBefore + 1, Len(in_buf))

\* mutant: the components of the text stay.
TextEndsKeepsParts ==
  /\ pc = "loop" /\ HasBar /\ Whole # <<>> /\ RoomForPart
  /\ ~TooDeep(Text(Whole))
  /\ IF IsJson(Text(Whole))
     THEN fired' = Append(fired, Text(Whole)) /\ out' = out \o Encode(Text(Whole))
     ELSE UNCHANGED <<fired, out>>
  /\ unread' = <<>>
  /\ IF Part = <<>> THEN UNCHANGED <<parts, refs>>
     ELSE parts' = parts \cup {cur} /\ refs' = Retained
  /\ Consume /\ pc' = "skip"
  /\ UNCHANGED <<asserts, open, sent, buffers, cur, first>>

\* A text ends: its element goes through JsonProcessor and OutboundEncoder to
\* the channel, or it is no JSON.  The components of the text are dropped.
TextEnds ==
  /\ pc = "loop" /\ HasBar /\ Whole # <<>> /\ RoomForPart
  /\ ~TooDeep(Text(Whole))
  /\ IF IsJson(Text(Whole))
     THEN fired' = Append(fired, Text(Whole)) /\ out' = out \o Encode(Text(Whole))
     ELSE UNCHANGED <<fired, out>>
  /\ unread' = <<>> /\ parts' = {}
  /\ refs' = Dropped(refs, parts)
  /\ Consume /\ pc' = "skip"
  /\ UNCHANGED <<asserts, open, sent, buffers, cur, first>>

\* JsonParser throws something else: the bytes are read, their components stay.
ParseThrows ==
  /\ pc = "loop" /\ HasBar /\ Whole # <<>> /\ RoomForPart
  /\ TooDeep(Text(Whole))
  /\ unread' = <<>>
  /\ IF Part = <<>> THEN refs' = Released(refs) /\ UNCHANGED parts
     ELSE UNCHANGED refs /\ parts' = parts \cup {cur}
  /\ Throw
  /\ UNCHANGED <<asserts, sent, buffers, first, fired, out>>

\* The bar is skipped.  The assertion looks at the first byte of the buffer,
\* not at the next one.
Skip ==
  /\ pc = "skip"
  /\ asserts => first = "bar"
  /\ in_buf' = Tail(in_buf) /\ pc' = "loop"
  /\ UNCHANGED <<asserts, open, sent, buffers, refs, cur, first, composite, fired, out>>

AssertionError ==
  /\ pc = "skip" /\ asserts /\ first # "bar"
  /\ refs' = Released(refs)
  /\ Throw
  /\ UNCHANGED <<asserts, sent, buffers, first, composite, fired, out>>

\* The client closes: channelInactive leaves incomplete_buf as it is.
ChannelInactive ==
  /\ open /\ pc = "idle" /\ open' = FALSE
  /\ UNCHANGED <<asserts, sent, buffers, refs, cur, in_buf, first, pc, composite, fired, out>>

ChannelRead ==
  \/ Return \/ TooManyParts \/ Keep \/ NoText \/ TextEnds \/ ParseThrows
  \/ Skip \/ AssertionError

Next ==
  \/ \E bytes \in SeqOf(Bytes, MaxBytes - Len(sent)) : bytes # <<>> /\ Receive(bytes)
  \/ ChannelRead
  \/ ChannelInactive

\* The event loop goes on with a call of channelRead.
Spec == Init /\ [][Next]_vars
FairSpec == Spec /\ WF_vars(ChannelRead)

-----------------------------------------------------------------------------
(* Properties.                                                             *)

\* On an open connection the buffers kept alive between two reads are those
\* that hold bytes of the text that has not ended: nothing that was answered,
\* or was no JSON, keeps memory, and no byte is read from a buffer that is gone
\* (NettyExample.java:44-46, 82, 90).
BuffersHeld ==
  open /\ pc = "idle" =>
    {b \in 1 .. buffers : refs[b] > 0} = {unread[i].buffer : i \in DOMAIN unread}

\* The server closes a connection only for a text that comes in more than
\* MaxParts buffers, for one the parser cannot take, or, when assertions are
\* on, for a bar in a buffer that does not begin with one (NettyExample.java:
\* 44-46, 79, 86): what was received and answered before has no part in it.
ClosesOnlyFor ==
  [][open /\ ~open' /\ pc # "idle" =>
       \/ pc = "skip" /\ asserts /\ first # "bar"
       \/ TooDeep(Text(Whole))
       \/ Cardinality({Whole[i].buffer : i \in DOMAIN Whole}) > MaxParts]_vars

\* A client that cuts the answers at the bars gets the elements back, one for
\* each text, unless one of them has a bar in it that the client had escaped
\* (NettyExample.java:123-127).
Echo == INSTANCE FrameEcho WITH arrived <- sent, answered <- fired
AnswersFramed ==
  (\A i \in DOMAIN fired : "escape" \notin Range(fired[i])) => Echo!Texts(out) = fired

\* The connection as its client sees it: the texts that are answered do not
\* depend on where the stream was cut, and each is answered in the end.
EchoImplemented == Echo!EchoSpec
=============================================================================

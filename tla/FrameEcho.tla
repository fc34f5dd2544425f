------------------------------ MODULE FrameEcho ------------------------------
(***************************************************************************)
(* What the server of netty_example promises a client: the bytes of the    *)
(* connection are cut at the bars, whatever pieces they arrive in, and     *)
(* each JSON text between two bars is answered once, in order.  Texts that *)
(* are not JSON, and empty ones, have no answer.  A connection may close   *)
(* at any time; while it is open every answer that is due is given.        *)
(*                                                                         *)
(* NettyDecoder implements this specification.                             *)
(***************************************************************************)
EXTENDS Naturals, SequencesExt

VARIABLES arrived,   \* the bytes that have arrived
          answered,  \* the texts that have been answered
          open

echoVars == <<arrived, answered, open>>

Start == [all |-> <<>>, text |-> <<>>]

\* A byte of a text, or the bar that ends one, if there is one to end.
Cut(acc, byte) ==
  IF byte # "bar" THEN [acc EXCEPT !.text = Append(@, byte)]
  ELSE [all |-> IF acc.text = <<>> THEN acc.all ELSE Append(acc.all, acc.text), text |-> <<>>]

\* The texts before the last bar, without the empty ones.
Cuts(bytes) == FoldLeft(Cut, Start, bytes)
Texts(bytes) == Cuts(bytes).all

IsJson(text) == Range(text) \cap {"junk", "deep"} = {}

\* The JSON among them.
KeepJson(texts, text) == IF IsJson(text) THEN Append(texts, text) ELSE texts
JsonOf(texts) == FoldLeft(KeepJson, <<>>, texts)
Due == JsonOf(Texts(arrived))

EchoInit == arrived = <<>> /\ answered = <<>> /\ open = TRUE

Arrive == open /\ IsStrictPrefix(arrived, arrived') /\ UNCHANGED <<answered, open>>

Answer ==
  /\ open /\ Len(answered) < Len(Due)
  /\ answered' = Append(answered, Due[Len(answered) + 1])
  /\ UNCHANGED <<arrived, open>>

Close == open /\ open' = FALSE /\ UNCHANGED <<arrived, answered>>

EchoNext == Arrive \/ Answer \/ Close

EchoSafe == EchoInit /\ [][EchoNext]_echoVars
EchoSpec == EchoSafe /\ WF_echoVars(Answer)
=============================================================================

-------------------------- MODULE MCIpcConnection --------------------------
(***************************************************************************)
(* The receiving half of a connection alone, a whole connection, and the   *)
(* messages it carries.  A behaviour is of one part: "decoder", whose      *)
(* frames have empty, short and undecodable contents and headers of two    *)
(* bytes that may be split; "connection", with as many ids as calls so     *)
(* that ids are not reused; or "messages", the translation of one call or  *)
(* request from and to JavaScript.                                         *)
(***************************************************************************)
EXTENDS IpcConnection

VARIABLES part, kind, params, stage, request, code, answer, result, owner, held

Messages == INSTANCE AgentMessages WITH
  Texts <- {<<>>, <<"a">>, <<"a", "0", "b">>}, Chunks <- {<<>>, <<1>>}, Ids <- {5}, Uint32 <- 4

messageVars == <<kind, params, stage, request, code, answer, result, owner, held>>

MCFrames == [kind : {"request"}, len : {0}, decodable : {TRUE}]
            \cup [kind : {"request"}, len : {1}, decodable : BOOLEAN]

partVars == <<part, connectionVars, messageVars>>

PartsInit ==
  /\ part \in {"decoder", "connection", "messages"}
  /\ ConnectionInit
  /\ Messages!MessagesInit /\ (part # "messages" => kind = "streamOpen")

PartsNext ==
  \/ part = "decoder" /\ DecoderNext /\ UNCHANGED <<part, delegateVars, peerVars, messageVars>>
  \/ part = "connection" /\ ConnectionNext /\ UNCHANGED <<part, messageVars>>
  \/ part = "messages" /\ Messages!MessagesNext /\ UNCHANGED <<part, connectionVars>>

PartsSpec == /\ PartsInit /\ [][PartsNext]_partVars
             /\ part = "decoder" => DecoderFairness

\* A decodable message that is not behind an undecodable one is dispatched unless
\* the connection ends first, and the end of the peer reaches the service unless
\* the buffer holds an undecodable message (OnReadable, OnEoF).
FramesArrive == part = "decoder" => Delivered /\ EndReported

\* Between JavaScript and the message no required field, header, body or code is
\* lost, and a message whose bytes a buffer shows lives as long as the buffer
\* (NoslatedDataChannel).
MessagesKept == Messages!RequestWhole /\ Messages!AnswerWhole /\ Messages!MessageOwned
=============================================================================

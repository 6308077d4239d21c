----------------------------- MODULE IpcDecoder -----------------------------
(***************************************************************************)
(* The receiving half of a connection: SocketHolder, NoslatedDecoder and   *)
(* the libuv pipe under them.  A message is a fixed-size header followed   *)
(* by the content the header announces; the pipe delivers the bytes of     *)
(* successive messages in arbitrary pieces.                                *)
(*                                                                         *)
(* Byte i of the n-th message sent is <<n, i>>: what the bytes say is of   *)
(* no interest, only where each message begins and ends.                   *)
(***************************************************************************)
EXTENDS Integers, Sequences

CONSTANTS HeaderSize,  \* MessageHeaderSize
          Frames,      \* messages: records with content length len and
                       \* decodable (does the content parse?)
          MaxSent      \* bound: the messages the peer sends

ASSUME HeaderSizeAssumption == HeaderSize \in Nat \ {0}
ASSUME MaxSentAssumption == MaxSent \in Nat \ {0}
ASSUME FramesAssumption == \A f \in Frames : f.len \in Nat /\ f.decodable \in BOOLEAN

VARIABLES
  peerOpen,       \* the peer has not closed its end
  sent,           \* the messages the peer has written
  wire,           \* bytes in the pipe
  buffer,         \* buffer_
  header,         \* header_: the number of the message it describes, 0 if null
  readImmediate,  \* read_immediate_ is armed
  readers,        \* activations of OnReadable on the stack: the debugger's
                  \* nested event loop may start one inside another
  eof,            \* OnEoF: "none", "dispatched" (before OnFinished), "handled"
  socket,         \* "open", "disposed" (uv_close called), "closed"
  dispatched      \* the numbers of the messages dispatched, in order

decoderVars == <<peerOpen, sent, wire, buffer, header, readImmediate, readers,
                 eof, socket, dispatched>>

Size(f) == HeaderSize + f.len
Encode(n, f) == [i \in 1..Size(f) |-> <<n, i>>]

DecoderInit ==
  /\ peerOpen = TRUE
  /\ sent = <<>> /\ wire = <<>> /\ buffer = <<>>
  /\ header = 0
  /\ readImmediate = FALSE
  /\ readers = 0
  /\ eof = "none"
  /\ socket = "open"
  /\ dispatched = <<>>

-----------------------------------------------------------------------------
(* The peer and the pipe *)

PeerSend(f) ==
  /\ peerOpen
  /\ Len(sent) < MaxSent
  /\ sent' = Append(sent, f)
  /\ wire' = wire \o Encode(Len(sent) + 1, f)
  /\ UNCHANGED <<peerOpen, buffer, header, readImmediate, readers, eof, socket,
                 dispatched>>

\* The peer closes its end or dies, perhaps in the middle of a message.
PeerClose ==
  /\ peerOpen
  /\ peerOpen' = FALSE
  /\ \E n \in 0..Len(wire) : wire' = SubSeq(wire, 1, n)
  /\ UNCHANGED <<sent, buffer, header, readImmediate, readers, eof, socket,
                 dispatched>>

\* OnFrame: n bytes arrived; append them and arm the immediate (SetReadable).
OnFrame(n) ==
  /\ socket = "open" /\ eof = "none"
  /\ buffer' = buffer \o SubSeq(wire, 1, n)
  /\ wire' = SubSeq(wire, n + 1, Len(wire))
  /\ readImmediate' = TRUE
  /\ UNCHANGED <<peerOpen, sent, header, readers, eof, socket, dispatched>>

-----------------------------------------------------------------------------
(* Decoding *)

\* The message whose header the buffer begins with, 0 if it is not a header.
ParseHeader ==
  LET n == buffer[1][1]
  IN IF SubSeq(buffer, 1, HeaderSize) = [i \in 1..HeaderSize |-> <<n, i>>]
     THEN n ELSE 0

\* header_ after Decode: parsed once, as soon as there are enough bytes.
Header == IF header # 0 \/ Len(buffer) < HeaderSize THEN header ELSE ParseHeader

\* Decode's result; DecodeRequest and DecodeResponse fail on the content.
Decode ==
  IF Len(buffer) < HeaderSize THEN "More"
  ELSE IF Header = 0 THEN "Error"
  ELSE IF Len(buffer) < Size(sent[Header]) THEN "More"
  ELSE IF sent[Header].decodable THEN "Ok" ELSE "Error"

\* Mutant: only the content is cut off the buffer.
TakeContentOnly ==
  /\ dispatched' = Append(dispatched, Header)
  /\ buffer' = SubSeq(buffer, sent[Header].len + 1, Len(buffer))
  /\ header' = 0

\* Dispatch: take the header and the content off the buffer, call the delegate.
Dispatch ==
  /\ dispatched' = Append(dispatched, Header)
  /\ buffer' = SubSeq(buffer, Size(sent[Header]) + 1, Len(buffer))
  /\ header' = 0

\* The immediate armed by SetReadable runs: OnReadable begins.
OnReadable ==
  /\ readImmediate
  /\ readImmediate' = FALSE
  /\ readers' = readers + 1
  /\ UNCHANGED <<peerOpen, sent, wire, buffer, header, eof, socket, dispatched>>

\* One turn of its loop that finds a message ...
ReadDispatch ==
  /\ readers > 0
  /\ Decode = "Ok"
  /\ Dispatch
  /\ UNCHANGED <<peerOpen, sent, wire, readImmediate, readers, eof, socket>>

\* ... and the turn that ends it, for want of bytes or on an error (OnError
\* only logs).  The bytes that could not be decoded stay in the buffer.
ReadDone ==
  /\ readers > 0
  /\ Decode # "Ok"
  /\ header' = Header
  /\ readers' = readers - 1
  /\ UNCHANGED <<peerOpen, sent, wire, buffer, readImmediate, eof, socket,
                 dispatched>>

-----------------------------------------------------------------------------
(* End of file and disposal *)

\* socket_.reset(): the immediate is cleared and the pipe is being closed.
DisposeSocket == /\ socket' = "disposed"
                 /\ readImmediate' = FALSE

\* Mutant: the service is told only if nothing is left in the buffer.
OnEoFOnlyIfEmpty ==
  /\ ~peerOpen /\ wire = <<>>
  /\ socket = "open" /\ eof = "none"
  /\ \/ /\ Decode = "Error"
        /\ header' = Header
        /\ eof' = "handled"
        /\ UNCHANGED <<buffer, readImmediate, socket, dispatched>>
     \/ /\ Decode = "Ok"
        /\ Dispatch
        /\ eof' = "dispatched"
        /\ UNCHANGED <<readImmediate, socket>>
     \/ /\ Decode = "More"
        /\ header' = Header
        /\ eof' = "handled"
        /\ IF buffer = <<>> THEN DisposeSocket ELSE UNCHANGED <<readImmediate, socket>>
        /\ UNCHANGED <<buffer, dispatched>>
  /\ UNCHANGED <<peerOpen, sent, wire, readers>>

\* OnEoF: at most one buffered message is dispatched; on a decoding error the
\* service is not told.
OnEoF ==
  /\ ~peerOpen /\ wire = <<>>
  /\ socket = "open" /\ eof = "none"
  /\ \/ /\ Decode = "Error"
        /\ header' = Header
        /\ eof' = "handled"
        /\ UNCHANGED <<buffer, readImmediate, socket, dispatched>>
     \/ /\ Decode = "Ok"
        /\ Dispatch
        /\ eof' = "dispatched"
        /\ UNCHANGED <<readImmediate, socket>>
     \/ /\ Decode = "More"
        /\ header' = Header
        /\ eof' = "handled"
        /\ DisposeSocket
        /\ UNCHANGED <<buffer, dispatched>>
  /\ UNCHANGED <<peerOpen, sent, wire, readers>>

\* The rest of OnEoF after its dispatch: OnFinished, Disconnected.
OnFinished ==
  /\ eof = "dispatched"
  /\ eof' = "handled"
  /\ IF socket = "open" THEN DisposeSocket ELSE UNCHANGED <<readImmediate, socket>>
  /\ UNCHANGED <<peerOpen, sent, wire, buffer, header, readers, dispatched>>

\* A handler, or the channel's destructor, resets the socket.
Dispose ==
  /\ socket = "open"
  /\ DisposeSocket
  /\ UNCHANGED <<peerOpen, sent, wire, buffer, header, readers, eof, dispatched>>

\* The close callback runs from the event loop and deletes the holder.
OnClosed ==
  /\ socket = "disposed"
  /\ readers = 0 /\ eof # "dispatched"
  /\ socket' = "closed"
  /\ UNCHANGED <<peerOpen, sent, wire, buffer, header, readImmediate, readers,
                 eof, dispatched>>

DecoderNext ==
  \/ \E f \in Frames : PeerSend(f)
  \/ PeerClose
  \/ \E n \in 1..Len(wire) : OnFrame(n)
  \/ OnReadable \/ ReadDispatch \/ ReadDone
  \/ OnEoF \/ OnFinished \/ Dispose \/ OnClosed

\* The event loop polls the pipe, runs immediates and close callbacks, and
\* handlers return.  Nothing is assumed of the peer.
DecoderFairness ==
  /\ WF_decoderVars(\E n \in 1..Len(wire) : OnFrame(n))
  /\ WF_decoderVars(OnReadable)
  /\ WF_decoderVars(ReadDispatch)
  /\ WF_decoderVars(ReadDone)
  /\ WF_decoderVars(OnEoF)
  /\ WF_decoderVars(OnFinished)
  /\ WF_decoderVars(OnClosed)

DecoderSpec == DecoderInit /\ [][DecoderNext]_decoderVars /\ DecoderFairness

-----------------------------------------------------------------------------
(* Properties *)

\* However the bytes are cut, messages are dispatched whole, in the order they
\* were sent, none twice and none skipped (Decode, TakeContentOwnership).
InOrder == dispatched = [i \in 1..Len(dispatched) |-> i]

\* A complete message in the buffer of an open socket never waits for bytes
\* that may not come: someone is about to look (OnFrame, SetReadable, OnReadable).
NoLostWakeup ==
  socket = "open" /\ eof = "none" /\ Decode = "Ok" => readImmediate \/ readers > 0

\* Messages are dispatched whole, once and in the order they were sent, and bytes
\* that make a message do not wait in the buffer for others to arrive
\* (SocketHolder::OnFrame, OnReadable, NoslatedDecoder::Decode).
FramesInOrder == InOrder /\ NoLostWakeup

\* A decodable message that is not behind an undecodable one is dispatched,
\* unless the connection ends first.
Delivered ==
  \A n \in 1..MaxSent :
    (n <= Len(sent) /\ \A i \in 1..n : sent[i].decodable)
      ~> (n <= Len(dispatched) \/ socket # "open" \/ eof # "none")

\* The end of the peer reaches the service, unless the buffer holds an
\* undecodable message (OnEoF returns before OnFinished).
EndReported == ~peerOpen ~> (socket # "open" \/ Decode = "Error")
=============================================================================

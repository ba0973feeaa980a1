------------------------------- MODULE WsReader -------------------------------
(***************************************************************************)
(* ws/client.h: the counts of bytes with which the client reads the frames   *)
(* of a server, some bytes of which may come along with the response to the  *)
(* handshake.  A handler is one step, with the async_read that leads to it:  *)
(* there is one at a time.                                                   *)
(*                                                                         *)
(* The buffer (Message::streambuf) holds consecutive bytes of the stream, so *)
(* that its size says which they are.  What the frames are is left to        *)
(* WebSocket; when bytes are taken for what they are not, nothing can be said *)
(* of the rest.                                                              *)
(***************************************************************************)
EXTENDS Naturals, Sequences

CONSTANTS
  Streams, \* the sizes of the contents of the frames, in turn, that a server may send
  MaxEarly \* bound: bytes that come along with the response

VARIABLES
  stream,     \* the one of Streams at hand
  at,         \* the outstanding async_read: "header", "length", "content"; or "lost"
  frame,      \* the frame that it is to read
  held,       \* the bytes in the buffer
  additional  \* num_additional_bytes

vars == <<stream, at, frame, held, additional>>

\* The bytes of the length behind the first two bytes of a frame.
LengthBytes(size) == IF size < 126 THEN 0 ELSE IF size <= 65535 THEN 2 ELSE 8

FrameBytes(size) == 2 + LengthBytes(size) + size

\* A location has its type.
TypeOK ==
  /\ stream \in Streams /\ frame \in 1 .. Len(stream) + 1
  /\ at \in {"header", "length", "content", "lost"}
  /\ held \in Nat /\ additional \in Nat

\* The end of the handshake: any bytes may be behind the response.
Init ==
  /\ stream \in Streams /\ frame = 1
  /\ additional \in 0 .. MaxEarly /\ held = additional
  /\ at = "header"

Open == at # "lost" /\ frame <= Len(stream)

\* transfer_exactly: the bytes that async_read waits for, of those wanted.
Transferred(wanted) == IF additional > wanted THEN 0 ELSE wanted - additional

\* The handler takes n bytes out of the buffer and goes on to p.
Takes(wanted, p) ==
  LET size == held + Transferred(wanted) IN
  /\ additional' = size - Transferred(wanted)
  /\ IF size >= wanted THEN held' = size - wanted /\ at' = p
                       ELSE UNCHANGED held /\ at' = "lost"
  /\ UNCHANGED <<stream, frame>>

\* Nothing was read and the buffer is empty: read_message starts again.
ReadAgain ==
  /\ Open /\ at = "header" /\ held = 0 /\ Transferred(2) = 0
  /\ additional' = 0
  /\ UNCHANGED <<stream, at, frame, held>>

ReadMessage ==
  /\ Open /\ at = "header" /\ ~(held = 0 /\ Transferred(2) = 0)
  /\ Takes(2, IF LengthBytes(stream[frame]) > 0 THEN "length" ELSE "content")

ReadLength ==
  /\ Open /\ at = "length" /\ Takes(LengthBytes(stream[frame]), "content")

\* read_message_content: the message is cut out of the buffer only if there were bytes
\* in it before; else it is the whole buffer.
ReadMessageContent ==
  LET wanted == stream[frame]
      size   == held + Transferred(wanted)
  IN  /\ Open /\ at = "content"
      /\ additional' = size - Transferred(wanted)
      /\ IF size = wanted \/ (additional' > 0 /\ size > wanted)
         THEN held' = size - wanted /\ at' = "header" /\ frame' = frame + 1
         ELSE at' = "lost" /\ UNCHANGED <<held, frame>>
      /\ UNCHANGED stream

\* Every frame is read.
Finished == ~Open /\ UNCHANGED vars

Next == ReadAgain \/ ReadMessage \/ ReadLength \/ ReadMessageContent

Spec == Init /\ [][Next \/ Finished]_vars

-----------------------------------------------------------------------------
(* Properties.                                                               *)

\* Nothing is taken for a header, a length or a message but what the server has sent as
\* such: the reads append to what was left of the streambuf by the handshake.
ReadInStep == at # "lost"
=============================================================================

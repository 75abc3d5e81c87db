----------------------------- MODULE LLRPFraming ----------------------------
(***************************************************************************)
(* One direction of a connection, byte by byte: one end writes messages as *)
(* handleOutgoing does, the other reads them as handleIncoming and         *)
(* passToHandler do (reader.go). There is nothing between two messages     *)
(* that would show where one ends: the length in the header must, however  *)
(* the bytes arrive, whatever a handler leaves unread, and wherever the    *)
(* connection breaks.                                                      *)
(***************************************************************************)
EXTENDS LLRPHeader

CONSTANTS
  Messages,               \* what newMessage may have made: version, typ, id, payload
  MaxBufferedPayloadSz,   \* a reply with more payload is not buffered
  MaxInFlight             \* bound: messages written and not yet read

ASSUME MessagesAssumption ==
  \A m \in Messages :
    /\ m \in [version : 0 .. 7, typ : Nat, id : Nat, payload : Seq(Byte)]
    /\ ValidHeader(m.typ, Len(m.payload))
    /\ IsUint32(m.id)

ASSUME BoundsAssumption == MaxBufferedPayloadSz \in Nat /\ MaxInFlight \in Nat

VARIABLES
  writer,     \* "ready", or "closing": nothing may follow CloseConnection
  unsent,     \* what has not been put on the connection of what was begun
  stream,     \* the bytes on the connection
  open,       \* whether more bytes may come
  reader,     \* "header", "reply", "handler", "discard", "failed", "stopped"
  hdr,        \* the header read last
  left,       \* how much of its payload is still on the connection
  data,       \* what has been read of it
  handed,     \* what was handed over last: header, data and whether it is a reply
  current,    \* history: the message being read, if somebody wants it
  queue       \* history: the messages begun and not yet read

vars == <<writer, unsent, stream, open, reader, hdr, left, data, handed, current, queue>>

writerVars == <<writer, unsent, open>>
readerVars == <<reader, hdr, left, data, handed, current>>

MsgCloseConnection == 14

HeaderOf(m) ==
  [version |-> m.version, typ |-> m.typ, payloadLen |-> Len(m.payload), id |-> m.id]

NothingYet == [nothing |-> TRUE]

Init ==
  /\ writer = "ready" /\ unsent = <<>> /\ stream = <<>> /\ open = TRUE
  /\ reader = "header" /\ hdr = NothingYet /\ left = 0 /\ data = <<>>
  /\ handed = NothingYet
  /\ current = <<>> /\ queue = <<>>

-----------------------------------------------------------------------------
(* The end that writes. *)

(* writeHeader. After CloseConnection handleOutgoing writes no more, not   *)
(* even a payload.                                                         *)
WriteHeader(m) ==
  /\ open /\ writer = "ready" /\ unsent = <<>>
  /\ Len(queue) < MaxInFlight
  /\ stream' = stream \o MarshalHeader(HeaderOf(m))
  /\ unsent' = m.payload
  /\ writer' = IF m.typ = MsgCloseConnection THEN "closing" ELSE "ready"
  /\ queue' = Append(queue, m)
  /\ UNCHANGED <<open, readerVars>>

(* io.Copy of the payload, by as much as the connection takes. *)
CopyPayload ==
  /\ open /\ writer = "ready" /\ unsent # <<>>
  /\ \E n \in 1 .. Len(unsent) :
       /\ stream' = stream \o SubSeq(unsent, 1, n)
       /\ unsent' = From(unsent, n + 1)
  /\ UNCHANGED <<writer, open, queue, readerVars>>

(* The connection breaks, or is closed: what has not arrived never does.   *)
Breaks ==
  /\ open /\ open' = FALSE
  /\ \E n \in 0 .. Len(stream) :
       /\ stream' = SubSeq(stream, 1, n)
       /\ unsent' = From(stream, n + 1) \o unsent
  /\ UNCHANGED <<writer, queue, readerVars>>

-----------------------------------------------------------------------------
(* The end that reads. *)

(* Whom passToHandler may find for a message of n bytes: who waits for the *)
(* reply, a handler, nobody. Who waits for a reply that is too large to    *)
(* buffer gets only its header, as a handler that reads nothing does.      *)
Takers(n) ==
  IF n <= MaxBufferedPayloadSz THEN {"reply", "handler", "discard"} ELSE {"handler", "discard"}

(* readHeader, and passToHandler up to its first read. *)
ReadHeader ==
  /\ reader = "header"
  /\ Len(stream) >= HeaderSz /\ LengthField(stream) >= HeaderSz
  /\ hdr' = UnmarshalHeader(stream)
  /\ stream' = From(stream, HeaderSz + 1)
  /\ left' = hdr'.payloadLen
  /\ data' = <<>>
  /\ reader' \in Takers(hdr'.payloadLen)
  /\ queue' = Tail(queue)
  /\ current' = IF reader' = "discard" THEN <<>> ELSE SubSeq(queue, 1, 1)
  /\ UNCHANGED <<writerVars, handed>>

(* Mutant: the io.LimitReader is forgotten.                                *)
Arrived == 1 .. Len(stream)

(* How many bytes of the payload a read may return. *)
Readable == {n \in 1 .. Len(stream) : n <= left}

(* io.ReadFull for a reply, or a handler that reads from the LimitReader.  *)
ReadPayload ==
  /\ reader \in {"reply", "handler"}
  /\ \E n \in Readable :
       /\ data' = data \o SubSeq(stream, 1, n)
       /\ stream' = From(stream, n + 1)
       /\ left' = left - n
  /\ UNCHANGED <<writerVars, reader, hdr, handed, current, queue>>

(* Mutant: Read instead of io.ReadFull.                                    *)
CanHandOverAnyTime == reader \in {"reply", "handler"}

(* The reply is sent once it is complete; a handler returns, or panics,    *)
(* when it likes.                                                          *)
CanHandOver == reader = "handler" \/ (reader = "reply" /\ left = 0)

HandOver ==
  /\ CanHandOver
  /\ handed' = [header |-> hdr, data |-> data, whole |-> reader = "reply"]
  /\ reader' = "discard"
  /\ current' = <<>>
  /\ UNCHANGED <<writerVars, stream, hdr, left, data, queue>>

(* io.Copy to io.Discard of what is left. *)
Discard ==
  /\ reader = "discard"
  /\ \E n \in Readable :
       /\ stream' = From(stream, n + 1)
       /\ left' = left - n
  /\ UNCHANGED <<writerVars, reader, hdr, data, handed, current, queue>>

(* passToHandler returns. *)
GoOn ==
  /\ reader = "discard" /\ left = 0
  /\ reader' = "header"
  /\ UNCHANGED <<writerVars, stream, hdr, left, data, handed, current, queue>>

(* How many bytes a read must have to return any. *)
Needed == IF reader = "header" THEN HeaderSz ELSE IF left > 0 THEN 1 ELSE 0

Reading == reader \in {"header", "reply", "handler", "discard"}

(* The length in a header is impossible, or the connection ends within a   *)
(* header or payload. (Within a payload the deferred io.Copy returns no    *)
(* error and the next header is found missing.)                            *)
ReadFails ==
  /\ Reading
  /\ IF Len(stream) < Needed THEN ~open
     ELSE reader = "header" /\ LengthField(stream) < HeaderSz
  /\ reader' = "failed"
  /\ UNCHANGED <<writerVars, stream, hdr, left, data, handed, current, queue>>

(* A read times out, or the Client is closed. *)
ReaderStops ==
  /\ Reading
  /\ reader' = "stopped"
  /\ UNCHANGED <<writerVars, stream, hdr, left, data, handed, current, queue>>

-----------------------------------------------------------------------------
WriteSomeMessage == \E m \in Messages : WriteHeader(m)

Next ==
  \/ WriteSomeMessage \/ CopyPayload \/ Breaks
  \/ ReadHeader \/ ReadPayload \/ HandOver \/ Discard \/ GoOn
  \/ ReadFails \/ ReaderStops

Spec == Init /\ [][Next]_vars

-----------------------------------------------------------------------------
(* Bytes are bytes, and what is left of a payload is a number of them.     *)
TypeOK ==
  /\ writer \in {"ready", "closing"} /\ open \in BOOLEAN
  /\ unsent \in Seq(Byte) /\ stream \in Seq(Byte) /\ data \in Seq(Byte)
  /\ reader \in {"header", "reply", "handler", "discard", "failed", "stopped"}
  /\ left \in Nat
  /\ current \in Seq(Messages) /\ queue \in Seq(Messages)

(* Whenever the reader looks for a header, the next bytes are the header   *)
(* of the next message, with its version, type, length and ID.             *)
NextIsItsHeader ==
  reader = "header" /\ Len(stream) >= HeaderSz =>
    /\ queue # <<>>
    /\ LengthField(stream) >= HeaderSz
    /\ UnmarshalHeader(stream) = HeaderOf(Head(queue))

(* Only the end of the connection makes handleIncoming give up.            *)
OnlyABreakEndsReading == reader = "failed" => ~open

(***************************************************************************)
(* "The next bytes on the incoming stream are a header", as readHeader     *)
(* assumes: that of the next message and never a byte of a payload that    *)
(* somebody did not read to its end; and nothing that is read makes the    *)
(* reader give up.                                                         *)
(***************************************************************************)
StreamStaysAligned == NextIsItsHeader /\ OnlyABreakEndsReading

(***************************************************************************)
(* The connection is the queue of messages that LLRPSession takes it for:  *)
(* messages arrive in order, none twice, none made up of pieces of others, *)
(* replies whole and what a handler gets from the beginning.               *)
(***************************************************************************)
MQ == INSTANCE MessageQueue WITH queue <- current \o queue, Header <- HeaderOf
ImplementsQueue == MQ!Spec

=============================================================================

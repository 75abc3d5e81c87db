----------------------------- MODULE LLRPHeader -----------------------------
(***************************************************************************)
(* Numbers as big-endian bytes and the 10-byte header that goes before     *)
(* every LLRP message, pkg/llrp/messages.go.                               *)
(***************************************************************************)
EXTENDS Integers, Sequences

Byte == 0 .. 255
From(data, i) == SubSeq(data, i, Len(data))

(* encoding/binary. TLC's numbers end at 2^31 - 1, so bounds are written   *)
(* without 2^32.                                                           *)
TwoTo16 == 65536
IsUint32(n) == n \in Nat /\ n \div TwoTo16 < TwoTo16
U16(n) == <<(n \div 256) % 256, n % 256>>
U32(n) == U16(n \div TwoTo16) \o U16(n % TwoTo16)
Uint16(data) == 256 * data[1] + data[2]
Uint32(data) == TwoTo16 * Uint16(data) + Uint16(From(data, 3))

-----------------------------------------------------------------------------
(* A header is a record of version, typ, payloadLen and id. *)

HeaderSz == 10

(* validateHeader *)
ValidHeader(typ, payloadLen) ==
  /\ typ <= 1023
  /\ ~(900 <= typ /\ typ <= 999)
  /\ IsUint32(payloadLen + HeaderSz)

(* Mutant: the length is that of the payload.                              *)
MarshalHeaderOfPayload(h) ==
  U16(h.version * 1024 + h.typ) \o U32(h.payloadLen) \o U32(h.id)

(* Header.MarshalBinary, Header.WriteTo and Client.writeHeader *)
MarshalHeader(h) ==
  U16(h.version * 1024 + h.typ) \o U32(h.payloadLen + HeaderSz) \o U32(h.id)

(* The length of a message as its header gives it, the header included. *)
LengthField(buf) == Uint32(From(buf, 3))

(* Header.UnmarshalBinary of at least HeaderSz bytes whose length field is *)
(* at least HeaderSz.                                                      *)
UnmarshalHeader(buf) ==
  [version |-> (buf[1] \div 4) % 8,
   typ |-> Uint16(buf) % 1024,
   payloadLen |-> LengthField(buf) - HeaderSz,
   id |-> Uint32(From(buf, 7))]

=============================================================================

---------------------------- MODULE LLRPExchange ----------------------------
(***************************************************************************)
(* A value of any LLRP type goes from one program to another: it is        *)
(* marshalled by this package or laid out by a reader, put behind a header *)
(* if it is a message, sent down a connection on which more follows, read  *)
(* off it by the length in the header and unmarshalled.                    *)
(*                                                                         *)
(* Values are built from the structs: every type with as little as LLRP    *)
(* allows, with everything at once, with everything down to the last       *)
(* parameter, and with each of its optional parameters alone.              *)
(***************************************************************************)
EXTENDS LLRPCodec

CONSTANTS
  Kinds,      \* the messages and parameters that are exchanged
  Fills,      \* the bytes their fields are filled with
  Layouts,    \* how the writer arranges sub-parameters: "own" or see Arranged
  NeverSet    \* parameters that no value holds

ASSUME ExchangeAssumption ==
  /\ Kinds \subseteq Messages \cup Parameters
  /\ Fills \subseteq 0 .. 255
  /\ Layouts \subseteq {"own", "reversed", "interleaved"}
  /\ NeverSet \subseteq Parameters

VARIABLES
  phase,      \* "new", "written" or "read"
  sent,       \* what was written: kind, layout, value and header
  stream,     \* the bytes on the connection that nobody has read
  got         \* what was read

vars == <<phase, sent, stream, got>>

-----------------------------------------------------------------------------
Versions == 1 .. 2
MessageIDs == {0, 2147483647}
TypeNumber(T) == S!MessageType[T]

(* The KeepAlive of a reader, which follows whatever is sent.              *)
NextMessage ==
  MarshalHeader([version |-> 1, typ |-> TypeNumber("KeepAlive"), payloadLen |-> 0,
                 id |-> 7])

-----------------------------------------------------------------------------
(* Values. *)

Repeat(b, n) == [i \in 1 .. n |-> b]
Everything == {"full", "deep"}

FieldValue(T, f, shape, fill) ==
  LET bits == IF shape \in Everything THEN 9
              ELSE IF T = "EPCData" THEN 1 ELSE IF shape = "least" THEN 0 ELSE 8
      count == IF shape \in Everything THEN 2 ELSE 0
  IN  CASE f.k = "fixed" -> MaskedBytes(f.mask, Repeat(fill, f.n))
        [] f.k = "array" -> Repeat(fill, f.n * count)
        [] f.k = "rest"  -> Repeat(fill, count)
        [] f.k = "bits"  -> [bits |-> bits, bytes |-> Repeat(fill, (bits + 7) \div 8)]

(* How many parameters slot holds. Of a group, the first is the default.   *)
Count(T, slot, shape) ==
  LET alts == SelectSeq(SlotsOf(T), LAMBDA x : x.k = "alt")
      chosen == IF shape \in {alts[i].type : i \in DOMAIN alts} THEN shape ELSE alts[1].type
      wanted == IF slot.type \in NeverSet THEN 0
                ELSE IF shape \in Everything THEN 2 ELSE IF shape = slot.type THEN 1 ELSE 0
  IN  CASE slot.k = "one"  -> 1
        [] slot.k = "may"  -> IF wanted > 0 THEN 1 ELSE 0
        [] slot.k = "many" -> wanted
        [] slot.k = "some" -> IF wanted = 2 THEN 2 ELSE 1
        [] slot.k = "alt"  -> IF slot.type = chosen THEN 1 ELSE 0

RECURSIVE Value(_, _, _)

(* The second of two parameters differs from the first.                    *)
Value(T, shape, fill) ==
  LET fs == WrittenFields(T)
      inner == IF shape = "deep" THEN "full" ELSE "least"
      other == IF fill = 255 THEN 1 ELSE 255
      held(s) == LET slot == [type |-> s, k |-> SlotKind(T, s)]
                 IN  [i \in 1 .. Count(T, slot, shape) |->
                        Value(TypeOf(s), inner, IF i = 1 THEN fill ELSE other)]
  IN  [fields |-> [i \in DOMAIN fs |-> FieldValue(T, fs[i], shape, fill)],
       subs   |-> [s \in SlotNames(T) |-> held(s)]]

Shapes(T) == {"least"} \cup Everything \cup SlotNames(T)

(* The tables and the values are of the kind that the theorems about fields *)
(* are about, and a size in the tables is that of header and fields.       *)
ASSUME FieldsAssumption ==
  \A T \in Kinds :
    /\ Decoder(T).fields = WrittenFields(T)
    /\ RestIsLast(WrittenFields(T), Decoder(T).items)
    /\ T \in Parameters =>
         E!ParameterEncoder[T].sz = HeaderBytes(T) + FixedSize(WrittenFields(T))
    /\ \A shape \in Shapes(T), fill \in Fills :
         AllFit(WrittenFields(T), Value(T, shape, fill).fields)

-----------------------------------------------------------------------------
Nothing == [st |-> "nothing"]

Init ==
  /\ phase = "new"
  /\ sent = Nothing
  /\ stream = <<>>
  /\ got = Nothing

Bytes(T, v, layout) ==
  IF layout = "own" THEN MarshalBinary(T, v) ELSE Arranged(T, v, layout)

(* A message is written: header, payload, and the next message after it.   *)
WriteMessage(T, v, layout, version, id) ==
  /\ phase' = "written"
  /\ \E payload \in {Bytes(T, v, layout)} :
       LET header == [version |-> version, typ |-> TypeNumber(T),
                      payloadLen |-> Len(payload), id |-> id]
       IN  /\ ValidHeader(TypeNumber(T), Len(payload))
           /\ sent' = [kind |-> T, layout |-> layout, v |-> v, header |-> header]
           /\ stream' = MarshalHeader(header) \o payload \o NextMessage
  /\ UNCHANGED got

(* A parameter alone has no length of its own: its bytes are all there is. *)
WriteParameter(T, v, layout) ==
  /\ phase' = "written"
  /\ sent' = [kind |-> T, layout |-> layout, v |-> v, header |-> Nothing]
  /\ stream' = Bytes(T, v, layout)
  /\ UNCHANGED got

ReadMessage ==
  LET header == UnmarshalHeader(stream)
      end == HeaderSz + header.payloadLen
  IN  /\ phase = "written"
      /\ sent.kind \in Messages
      /\ phase' = "read"
      /\ \E r \in {Unmarshal(sent.kind, SubSeq(stream, HeaderSz + 1, end))} :
           got' = [st |-> r.st, v |-> r.v, header |-> header]
      /\ stream' = From(stream, end + 1)
      /\ UNCHANGED sent

ReadParameter ==
  /\ phase = "written"
  /\ sent.kind \in Parameters
  /\ phase' = "read"
  /\ \E r \in {Unmarshal(sent.kind, stream)} :
       got' = [st |-> r.st, v |-> r.v, header |-> Nothing]
  /\ stream' = <<>>
  /\ UNCHANGED sent

WriteSomeMessage ==
  /\ phase = "new"
  /\ \E T \in Kinds \cap Messages, fill \in Fills, layout \in Layouts,
        version \in Versions, id \in MessageIDs :
       \E shape \in Shapes(T) : WriteMessage(T, Value(T, shape, fill), layout, version, id)

WriteSomeParameter ==
  /\ phase = "new"
  /\ \E T \in Kinds \cap Parameters, fill \in Fills, layout \in Layouts :
       \E shape \in Shapes(T) : WriteParameter(T, Value(T, shape, fill), layout)

Next == WriteSomeMessage \/ WriteSomeParameter \/ ReadMessage \/ ReadParameter

Spec == Init /\ [][Next]_vars

-----------------------------------------------------------------------------
(* An exchange in a phase has what the phase has produced.                 *)
TypeOK ==
  /\ phase \in {"new", "written", "read"}
  /\ phase # "new" => sent.kind \in Kinds /\ sent.layout \in Layouts
  /\ phase = "read" => got.st \in {"ok", "error", "panic"}

(***************************************************************************)
(* What MarshalBinary writes UnmarshalBinary reads back unchanged, for     *)
(* every type and every choice of its optional parameters: encoder,        *)
(* decoder and struct, generated apart, agree on widths, masks, order,     *)
(* minimum sizes and nesting.                                              *)
(***************************************************************************)
RoundTrip ==
  phase = "read" /\ sent.layout = "own" => got.st = "ok" /\ got.v = sent.v

(***************************************************************************)
(* The same for a writer that arranges the parameters of a group its own   *)
(* way: the groups of UnmarshalBinary take them in any order, and nothing  *)
(* is lost, doubled or left over.                                          *)
(***************************************************************************)
PeerOrderIsRead ==
  phase = "read" /\ sent.layout # "own" => got.st = "ok" /\ got.v = sent.v

(***************************************************************************)
(* The size getHeader computes, before anything is written, is the number  *)
(* of bytes encodeParams then writes: a TLV parameter never claims bytes   *)
(* of its neighbour.                                                       *)
(***************************************************************************)
SizesAgree ==
  phase = "read" /\ sent.kind \in Parameters =>
    Size(sent.kind, sent.v) = Len(EncodeParam(sent.kind, sent.v))

=============================================================================

----------------------------- MODULE LLRPCodec ------------------------------
(***************************************************************************)
(* LLRP messages and parameters as bytes: what MarshalBinary writes and    *)
(* UnmarshalBinary reads, for every type of pkg/llrp, by the tables of     *)
(* LLRPStructs, LLRPEncoders and LLRPDecoders.                             *)
(*                                                                         *)
(* A value is a record: its fields, as in LLRPFields, and for each         *)
(* parameter of its struct the sequence of what it holds.                  *)
(***************************************************************************)
EXTENDS Integers, SequencesExt, LLRPFields, LLRPGrammar

S == INSTANCE LLRPStructs
E == INSTANCE LLRPEncoders
D == INSTANCE LLRPDecoders

Messages == DOMAIN D!MessageDecoder
Parameters == DOMAIN D!ParameterDecoder

-----------------------------------------------------------------------------
(* Types. *)

(* C1G2TagSpec has two parameters of one type, told apart by its fields.   *)
TypeOf(s) == IF s \in {"TagPattern1", "TagPattern2"} THEN "C1G2TargetTag" ELSE s

SlotsOf(T) == IF T \in DOMAIN S!Slots THEN S!Slots[T] ELSE <<>>
SlotKind(T, s) == CHOOSE k \in {"one", "may", "many", "some", "alt"} :
                    [type |-> s, k |-> k] \in ToSet(SlotsOf(T))
SlotNames(T) == {slot.type : slot \in ToSet(SlotsOf(T))}

NumberOf(s) == E!ParameterEncoder[TypeOf(s)].num

(* ParamType.IsTV of params.go. *)
IsTV(num) == num # 0 /\ num <= 127

WrittenFields(T) ==
  IF T \in Parameters THEN E!ParameterEncoder[T].fields
  ELSE IF T \in DOMAIN E!MessageFields THEN E!MessageFields[T] ELSE <<>>

Decoder(T) == IF T \in Parameters THEN D!ParameterDecoder[T] ELSE D!MessageDecoder[T]

-----------------------------------------------------------------------------
(* Encoding. *)

EncodeFields(T, v) == EncodeEach(WrittenFields(T), v.fields)

(* Whether the encoders take a parameter of a group for absent: an EPC that *)
(* is nil, a timestamp that is 0. An EPC96 that was read is never nil.     *)
IsZero(T, v) ==
  CASE T = "EPCData" -> v.fields[1].bits = 0
    [] T = "EPC96"   -> FALSE
    [] OTHER         -> ToSet(v.fields[1]) = {0}

(* The parameters in slot s that getHeader and MarshalBinary write: of a   *)
(* group, only the first that is set.                                      *)
Written(T, v, s) ==
  IF SlotKind(T, s) # "alt" THEN v.subs[s]
  ELSE LET isSet(slot) == /\ slot.k = "alt"
                          /\ v.subs[slot.type] # <<>>
                          /\ ~IsZero(slot.type, v.subs[slot.type][1])
           set == SelectSeq(SlotsOf(T), isSet)
       IN  IF set # <<>> /\ set[1].type = s THEN v.subs[s] ELSE <<>>

(* A sequence of slots as the sequence of parameters they hold.            *)
Typed(type, vs) == [j \in DOMAIN vs |-> [type |-> type, v |-> vs[j]]]
Listed(T, v, ss) ==
  FlattenSeq([i \in DOMAIN ss |-> Typed(TypeOf(ss[i]), Written(T, v, ss[i]))])

(* The first parameter of every slot, then the second of every slot, ...   *)
Interleaved(T, v, ss) ==
  LET element(ps, j) == IF j <= Len(ps) THEN <<ps[j]>> ELSE <<>>
      row(j) == FlattenSeq([i \in DOMAIN ss |-> element(Listed(T, v, <<ss[i]>>), j)])
  IN  row(1) \o row(2)

RECURSIVE Size(_, _), EncodeParam(_, _)

SizeOfAll(subs) == SumOf([i \in DOMAIN subs |-> Size(subs[i].type, subs[i].v)])

(* paramHeader.sz, a uint16 *)
Size(T, v) ==
  LET p == E!ParameterEncoder[T]
  IN  (p.sz + SumOf(VariableSizes(p.fields, v.fields))
            + SizeOfAll(Listed(T, v, p.subs))) % 65536

EncodeAll(subs) == FlattenSeq([i \in DOMAIN subs |-> EncodeParam(subs[i].type, subs[i].v)])

EncodeParam(T, v) ==
  LET p == E!ParameterEncoder[T]
  IN  (IF IsTV(p.num) THEN <<p.num + 128>> ELSE U16(p.num) \o U16(Size(T, v)))
        \o EncodeFields(T, v) \o EncodeAll(Listed(T, v, p.subs))

HeaderBytes(T) == IF IsTV(NumberOf(T)) THEN 1 ELSE 4

(* MarshalBinary of a parameter drops the header that encodeParams wrote.  *)
MarshalParameter(T, v) == From(EncodeParam(T, v), HeaderBytes(T) + 1)

MarshalMessage(T, v) ==
  EncodeFields(T, v) \o EncodeAll(Listed(T, v, E!MessageOrder[T]))

MarshalBinary(T, v) ==
  IF T \in Parameters THEN MarshalParameter(T, v) ELSE MarshalMessage(T, v)

(***************************************************************************)
(* A reader need not write the parameters of a group in this package's     *)
(* order: it may take the slots from the last to the first, or alternate   *)
(* between them. Within a slot the order stays.                            *)
(***************************************************************************)
Arranged(T, v, layout) ==
  LET items == Decoder(T).items
      part(item) ==
        IF item.k \notin {"group", "anygroup", "tvgroup"} THEN Listed(T, v, item.types)
        ELSE IF layout = "reversed" THEN Listed(T, v, Reverse(item.types))
        ELSE Interleaved(T, v, item.types)
  IN  EncodeFields(T, v) \o EncodeAll(FlattenSeq([i \in DOMAIN items |-> part(items[i])]))

-----------------------------------------------------------------------------
(* Decoding what follows the fields. *)

RECURSIVE Unmarshal(_, _), DecodeGroup(_, _, _)

(* Mutant: a list keeps only the last parameter.                           *)
PutLast(r, T, s, v) == [r EXCEPT !.subs[s] = <<v>>]

(* A list grows; a pointer or a struct is overwritten.                     *)
Put(r, T, s, v) ==
  [r EXCEPT !.subs[s] = IF SlotKind(T, s) \in {"many", "some"} THEN Append(@, v) ELSE <<v>>]

(* Reads body into slot s and goes on at byte next.                        *)
GoOn(r, T, s, sub, next) ==
  IF sub.st # "ok" THEN Failed(r, sub.st)
  ELSE [Put(r, T, s, sub.v) EXCEPT !.data = From(@, next)]
ReadInto(r, T, s, body, next) == GoOn(r, T, s, Unmarshal(TypeOf(s), body), next)

(* A TLV parameter whose type has been recognised. A number is read where  *)
(* it stands, whatever length the parameter declares.                      *)
ReadTLV(r, T, s) ==
  LET d == r.data
      subLen == Uint16(From(d, 3))
      width == FixedSize(WrittenFields(TypeOf(s)))
  IN  IF Len(d) < 4 THEN Failed(r, "panic")
      ELSE IF subLen > Len(d) THEN Failed(r, "error")
      ELSE IF TypeOf(s) \in S!Scalars
        THEN IF Len(d) < 4 + width THEN Failed(r, "panic")
             ELSE ReadInto(r, T, s, SubSeq(d, 5, 4 + width), subLen + 1)
      ELSE IF subLen < 4 THEN Failed(r, "panic")
      ELSE ReadInto(r, T, s, SubSeq(d, 5, subLen), subLen + 1)

(* A TV parameter: its length is that of its type.                         *)
ReadTV(r, T, s, stay) ==
  LET n == 1 + FixedSize(WrittenFields(TypeOf(s)))
  IN  IF Len(r.data) < n THEN Failed(r, "panic")
      ELSE ReadInto(r, T, s, SubSeq(r.data, 2, n), IF stay THEN 1 ELSE n + 1)

ReadParam(r, T, s) ==
  IF IsTV(NumberOf(s)) THEN ReadTV(r, T, s, FALSE) ELSE ReadTLV(r, T, s)

(* Which of the types the number pt is; 0 if none.                         *)
Match(types, pt) == SelectInSeq(types, LAMBDA s : NumberOf(s) = pt)

LowBits(b) == b % 128      \* data[0] & 0x7F

(* The type at the front of data where TV and TLV parameters may stand.    *)
AnyType(d) == IF d[1] >= 128 THEN LowBits(d[1]) ELSE Uint16(d)

DecodeGroup(r, T, item) ==
  LET d == r.data
      ended == IF item.k = "group" THEN Len(d) < 4 ELSE Len(d) < 1
      short == \/ item.k = "group" /\ Uint16(From(d, 3)) > Len(d)
               \/ item.k = "anygroup" /\ d[1] < 128 /\ Len(d) < 4
      pt == CASE item.k = "group" -> Uint16(d)
              [] item.k = "anygroup" -> AnyType(d)
              [] item.k = "tvgroup" -> LowBits(d[1])
      i == Match(item.types, pt)
  IN  IF r.st # "ok" \/ ended THEN r
      ELSE IF short THEN Failed(r, "error")
      ELSE IF i = 0 THEN r
      ELSE DecodeGroup(ReadParam(r, T, item.types[i]), T, item)

DecodeRequired(r, T, item) ==
  IF Len(r.data) < item.need THEN Failed(r, "error")
  ELSE IF Len(r.data) < 2 THEN Failed(r, "panic")
  ELSE IF Match(item.types, Uint16(r.data)) = 0 THEN Failed(r, "error")
  ELSE ReadTLV(r, T, item.types[1])

DecodeOptional(r, T, item) ==
  IF Len(r.data) = 0 THEN r
  ELSE IF Len(r.data) < 2 THEN Failed(r, "panic")
  ELSE IF Match(item.types, Uint16(r.data)) = 0 THEN r
  ELSE ReadTLV(r, T, item.types[1])

DecodeEither(r, T, item) ==
  LET d == r.data
      i == Match(item.types, IF item.k = "eithertv" THEN AnyType(d) ELSE Uint16(d))
  IN  IF Len(d) < 1 THEN Failed(r, "panic")
      ELSE IF item.k = "eithertv" /\ d[1] < 128 /\ Len(d) < 4 THEN Failed(r, "error")
      ELSE IF Len(d) < 2 THEN Failed(r, "panic")
      ELSE IF i = 0 THEN Failed(r, "error")
      ELSE ReadParam(r, T, item.types[i])

(* AISpecEvent reads its TV parameter and does not step over it.           *)
DecodePeek(r, T, item) ==
  IF Len(r.data) = 0 \/ Match(item.types, LowBits(r.data[1])) = 0 THEN r
  ELSE ReadTV(r, T, item.types[1], TRUE)

DecodeItem(r, T, item) ==
  CASE r.st # "ok" -> r
    [] r.st = "ok" /\ item.k = "required" -> DecodeRequired(r, T, item)
    [] r.st = "ok" /\ item.k = "optional" -> DecodeOptional(r, T, item)
    [] r.st = "ok" /\ item.k \in {"either", "eithertv"} -> DecodeEither(r, T, item)
    [] r.st = "ok" /\ item.k = "peek" -> DecodePeek(r, T, item)
    [] OTHER -> DecodeGroup(r, T, item)

(* How a read r of n bytes ends: a struct leaves none of them.             *)
Result(g, n, r) ==
  [st |-> IF ~EnoughBytes(g, n) \/ (r.st = "ok" /\ g.k = "struct" /\ r.data # <<>>)
          THEN "error" ELSE r.st,
   v  |-> [fields |-> r.fields, subs |-> r.subs]]

(* UnmarshalBinary *)
Unmarshal(T, data) ==
  LET g == Decoder(T)
      start == [st |-> "ok", data |-> data, fields |-> <<>>,
                subs |-> [s \in SlotNames(T) |-> <<>>]]
  IN  Result(g, Len(data),
             FoldLeft(LAMBDA r, item : DecodeItem(r, T, item),
                      DecodeFields(start, g.fields), g.items))

=============================================================================

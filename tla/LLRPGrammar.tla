---------------------------- MODULE LLRPGrammar -----------------------------
(***************************************************************************)
(* The words the tables of LLRPStructs, LLRPEncoders and LLRPDecoders are  *)
(* written in. They are records; LLRPCodec says what they do.              *)
(***************************************************************************)
EXTENDS Naturals, Sequences

(* Fields: n bytes of which the bits of mask count; a 16-bit count and that *)
(* many elements of n bytes; a 16-bit count of bits and the bytes they fill; *)
(* whatever is left.                                                       *)
Masked(n, mask) == [k |-> "fixed", n |-> n, mask |-> mask]
U(n) == Masked(n, 255)
Array(n) == [k |-> "array", n |-> n]
Bits == [k |-> "bits"]
Rest == [k |-> "rest"]

-----------------------------------------------------------------------------
(* The parameters of a struct: T; *T; []T; []T with at least one; T, of    *)
(* which the struct sets exactly one of its group.                         *)
One(T)  == [type |-> T, k |-> "one"]
May(T)  == [type |-> T, k |-> "may"]
Many(T) == [type |-> T, k |-> "many"]
Some(T) == [type |-> T, k |-> "some"]
Alt(T)  == [type |-> T, k |-> "alt"]

-----------------------------------------------------------------------------
(* An encoder: type number, size without what varies, fields, and the      *)
(* sub-parameters in the order they are written.                           *)
Param(num, sz, fields, subs) ==
  [num |-> num, sz |-> sz, fields |-> fields, subs |-> subs]

-----------------------------------------------------------------------------
(* What a decoder looks for next: a TLV parameter that must come, before   *)
(* which n bytes may be demanded; one that may come; any number of TLV     *)
(* parameters of some types, of TLV and TV parameters, of TV parameters    *)
(* only; exactly one TLV parameter of some types, or TLV or TV parameter;  *)
(* a TV parameter that is read and left where it is.                       *)
RequiredAfter(n, T) == [k |-> "required", need |-> n, types |-> <<T>>]
Required(T)  == RequiredAfter(0, T)
Optional(T)  == [k |-> "optional", types |-> <<T>>]
Group(Ts)    == [k |-> "group", types |-> Ts]
AnyGroup(Ts) == [k |-> "anygroup", types |-> Ts]
TVGroup(Ts)  == [k |-> "tvgroup", types |-> Ts]
Either(Ts)   == [k |-> "either", types |-> Ts]
EitherTV(Ts) == [k |-> "eithertv", types |-> Ts]
Peek(T)      == [k |-> "peek", types |-> <<T>>]

(* A decoder that demands n bytes, reads fields and sub-parameters and does *)
(* not allow anything after them; one that demands the bytes of its fields; *)
(* one that demands exactly these.                                         *)
Struct(n, fields, items) ==
  [k |-> "struct", need |-> n, fields |-> fields, items |-> items]
Leaf(fields) == [k |-> "leaf", fields |-> fields, items |-> <<>>]
Exactly(fields) == [k |-> "exactly", fields |-> fields, items |-> <<>>]

=============================================================================

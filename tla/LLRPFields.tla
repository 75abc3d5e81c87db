----------------------------- MODULE LLRPFields -----------------------------
(***************************************************************************)
(* The fields of a message or parameter as bytes, without the parameters   *)
(* in it: EncodeFields, the sizes in getHeader, and the first half of      *)
(* UnmarshalBinary. The forms of a field are those of LLRPGrammar; the     *)
(* value of a field is a sequence of bytes, or a bit array with the number *)
(* of its bits. A byte keeps only the bits that the struct's booleans and  *)
(* small numbers have.                                                     *)
(***************************************************************************)
EXTENDS LLRPHeader, SequencesExt

(* b & mask, for masks whose bits are the lowest of a byte or the highest. *)
Masked1(b, mask) == IF mask % 2 = 1 THEN b % (mask + 1) ELSE b - (b % (256 - mask))

MaskedBytes(mask, bytes) ==
  IF mask = 255 THEN bytes ELSE [i \in DOMAIN bytes |-> Masked1(bytes[i], mask)]

(* Mutant: a last byte that is not full is forgotten.                      *)
WholeBytesOfBits(n) == n \div 8

(* The bytes n bits fill; Go shifts -1 to -1, so no bits fill no bytes.    *)
BytesOfBits(n) == 1 + ((n - 1) \div 8)

SumOf(ns) ==
  LET sum[i \in 0 .. Len(ns)] == IF i = 0 THEN 0 ELSE sum[i - 1] + ns[i]
  IN  sum[Len(ns)]

-----------------------------------------------------------------------------
(* The fields there are and the values a struct has for them: bytes of     *)
(* which only the bits of the mask are set, whole elements no more than a  *)
(* 16-bit count says, bits and the bytes they fill, anything.              *)
IsField(f) ==
  \/ f.k = "fixed" /\ f.n \in Nat
  \/ f.k = "array" /\ f.n \in Nat \ {0}
  \/ f.k = "bits"
  \/ f.k = "rest"

FitsFixed(f, x) ==
  x \in Seq(Byte) /\ Len(x) = f.n /\ MaskedBytes(f.mask, x) = x
FitsArray(f, x) ==
  x \in Seq(Byte) /\ Len(x) % f.n = 0 /\ Len(x) \div f.n < TwoTo16
FitsBits(x) ==
  /\ x = [bits |-> x.bits, bytes |-> x.bytes]
  /\ x.bits \in Nat /\ x.bits < TwoTo16
  /\ x.bytes \in Seq(Byte) /\ Len(x.bytes) = (x.bits + 7) \div 8

Fits(f, x) ==
  /\ f.k = "fixed" => FitsFixed(f, x)
  /\ f.k = "array" => FitsArray(f, x)
  /\ f.k = "bits" => FitsBits(x)
  /\ f.k = "rest" => x \in Seq(Byte)

(* Fields and a value for each of them.                                    *)
AllFit(fs, xs) ==
  /\ Len(xs) = Len(fs)
  /\ \A i \in 1 .. Len(fs) : IsField(fs[i]) /\ Fits(fs[i], xs[i])

(* A field that takes what is left is the last, and nothing follows it.    *)
RestIsLast(fs, more) ==
  \A i \in 1 .. Len(fs) : fs[i].k = "rest" => i = Len(fs) /\ more = <<>>

-----------------------------------------------------------------------------
(* Encoding. *)

EncodeField(f, x) ==
  CASE f.k = "fixed" -> MaskedBytes(f.mask, x)
    [] f.k = "array" -> U16(Len(x) \div f.n) \o x
    [] f.k = "bits"  -> U16(x.bits) \o x.bytes
    [] f.k = "rest"  -> x

Encoded(fs, xs) == [i \in DOMAIN fs |-> EncodeField(fs[i], xs[i])]
EncodeEach(fs, xs) == FlattenSeq(Encoded(fs, xs))

(* Mutant: the bytes of a bit array are not counted.                       *)
VariableSizeWithoutBits(f, x) == IF f.k = "array" THEN Len(x) ELSE 0

(* What getHeader adds to the size for a field of variable length.         *)
VariableSize(f, x) ==
  CASE f.k = "fixed" -> 0
    [] f.k = "bits"  -> BytesOfBits(x.bits)
    [] OTHER         -> Len(x)
VariableSizes(fs, xs) == [i \in DOMAIN fs |-> VariableSize(fs[i], xs[i])]

(* The bytes of a field that are always there.                             *)
FixedSizeOf(f) ==
  CASE f.k = "fixed" -> f.n
    [] f.k = "rest"  -> 0
    [] OTHER         -> 2
FixedSize(fs) == SumOf([i \in DOMAIN fs |-> FixedSizeOf(fs[i])])

-----------------------------------------------------------------------------
(***************************************************************************)
(* Decoding. A read is under way ("ok"), returned an error or panicked     *)
(* with an index out of range; data is what it has not consumed.           *)
(***************************************************************************)
Failed(r, st) == [r EXCEPT !.st = st]

Took(r, n, x) ==
  [r EXCEPT !.fields = Append(@, x), !.data = From(@, n + 1)]

(* Fixed fields, counts and the bounds checks of what they count.          *)
DecodeField(r, f) ==
  LET d == r.data
      n == IF f.k = "array" THEN Uint16(d) * f.n ELSE BytesOfBits(Uint16(d))
  IN  CASE r.st # "ok" -> r
        [] r.st = "ok" /\ f.k = "fixed" ->
             IF Len(d) < f.n THEN Failed(r, "panic")
             ELSE Took(r, f.n, MaskedBytes(f.mask, SubSeq(d, 1, f.n)))
        [] r.st = "ok" /\ f.k = "rest" -> Took(r, Len(d), d)
        [] OTHER ->
             IF Len(d) < 2 THEN Failed(r, "panic")
             ELSE IF n > Len(d) - 2 THEN Failed(r, "error")
             ELSE Took(r, n + 2,
                       IF f.k = "array" THEN SubSeq(d, 3, n + 2)
                       ELSE [bits |-> Uint16(d), bytes |-> SubSeq(d, 3, n + 2)])

(* The fields in turn, before the parameters that follow them.             *)
DecodeFields(start, fs) ==
  LET r[i \in 0 .. Len(fs)] == IF i = 0 THEN start ELSE DecodeField(r[i - 1], fs[i])
  IN  r[Len(fs)]

(* hasEnoughBytes with exact set does not reject data that is too long; a  *)
(* message that is only fields does.                                       *)
EnoughBytes(g, n) ==
  CASE g.k = "struct"  -> n >= g.need
    [] g.k = "leaf"    -> n >= FixedSize(g.fields)
    [] g.k = "exactly" -> n = FixedSize(g.fields)

=============================================================================

--------------------------- MODULE LLRPWireProofs ---------------------------
(***************************************************************************)
(* Theorems about LLRPFraming: for any messages, however their bytes       *)
(* arrive, whatever is left unread and wherever the connection breaks, the *)
(* reader finds a header where it looks for one, and the connection is a   *)
(* queue of messages. And about LLRPFields: the fields of a message or     *)
(* parameter are read as they were written, and their sizes are true.      *)
(***************************************************************************)
EXTENDS LLRPFraming, LLRPFields, Foundations

-----------------------------------------------------------------------------
(* Pieces of sequences. *)

\* The bytes of s from i on.
LEMMA FromProperties ==
  ASSUME NEW S, NEW s \in Seq(S), NEW i \in 1 .. Len(s) + 1
  PROVE  /\ From(s, i) \in Seq(S)
         /\ Len(From(s, i)) = Len(s) - i + 1
         /\ \A k \in 1 .. Len(s) - i + 1 : From(s, i)[k] = s[i + k - 1]
  <1>1. /\ SubSeq(s, i, Len(s)) \in Seq(S)
        /\ Len(SubSeq(s, i, Len(s))) = IF i <= Len(s) THEN Len(s) - i + 1 ELSE 0
        /\ \A k \in 1 .. Len(s) - i + 1 : SubSeq(s, i, Len(s))[k] = s[i + k - 1]
    BY SMT
  <1> QED
    BY <1>1, SMT DEF From

\* What a sequence is made of.
Consists(s, a, b, n) == \A i \in 1 .. n : s[i] = IF i <= Len(a) THEN a[i] ELSE b[i - Len(a)]

\* Two sequences joined.
LEMMA TwoParts ==
  ASSUME NEW S, NEW a \in Seq(S), NEW b \in Seq(S)
  PROVE  /\ a \o b \in Seq(S) /\ Len(a \o b) = Len(a) + Len(b)
         /\ Consists(a \o b, a, b, Len(a) + Len(b))
  BY ConcatProperties DEF Consists

\* The first n elements.
LEMMA FirstProperties ==
  ASSUME NEW S, NEW s \in Seq(S), NEW n \in 0 .. Len(s)
  PROVE  /\ SubSeq(s, 1, n) \in Seq(S) /\ Len(SubSeq(s, 1, n)) = n
         /\ \A k \in 1 .. n : SubSeq(s, 1, n)[k] = s[k]
  BY SMT

\* Sequences of equal length and elements are equal.
LEMMA SameElements ==
  ASSUME NEW S, NEW s \in Seq(S), NEW t \in Seq(S), Len(s) = Len(t),
         \A k \in 1 .. Len(s) : s[k] = t[k]
  PROVE  s = t
  BY SMT

\* The first element alone.
LEMMA FirstOne ==
  ASSUME NEW S, NEW s \in Seq(S), s # <<>>
  PROVE  SubSeq(s, 1, 1) = <<Head(s)>>
  <1>1. Len(s) \in Nat /\ Len(s) >= 1 /\ Head(s) = s[1] /\ s[1] \in S
    OBVIOUS
  <1>2. SubSeq(s, 1, 1) \in Seq(S) /\ Len(SubSeq(s, 1, 1)) = 1 /\ SubSeq(s, 1, 1)[1] = s[1]
    <2>1. 1 \in 0 .. Len(s) /\ 1 \in 1 .. 1
      BY <1>1
    <2> QED
      BY <2>1, FirstProperties
  <1> DEFINE a == SubSeq(s, 1, 1)
             b == <<s[1]>>
  <1>3. b \in Seq(S) /\ Len(b) = 1 /\ b[1] = s[1]
    BY <1>1
  <1>4. a = b
    <2> HIDE DEF a, b
    <2> QED
      BY <1>2, <1>3, SameElements DEF a
  <1> QED
    BY <1>1, <1>4

\* What is joined to the end of s does not move its elements.
LEMMA FromConcat ==
  ASSUME NEW S, NEW s \in Seq(S), NEW t \in Seq(S), NEW i \in 1 .. Len(s) + 1
  PROVE  From(s \o t, i) = From(s, i) \o t
  <1> DEFINE st == s \o t
             a == From(st, i)
             f == From(s, i)
             b == f \o t
  <1>1. st \in Seq(S) /\ Len(st) = Len(s) + Len(t) /\ Consists(st, s, t, Len(s) + Len(t))
    BY TwoParts
  <1> HIDE DEF st
  <1>2. i \in 1 .. Len(st) + 1
    BY <1>1
  <1>3. a \in Seq(S) /\ Len(a) = Len(st) - i + 1 /\ \A k \in 1 .. Len(st) - i + 1 : a[k] = st[i + k - 1]
    BY <1>1, <1>2, FromProperties
  <1> HIDE DEF a
  <1>4. f \in Seq(S) /\ Len(f) = Len(s) - i + 1 /\ \A k \in 1 .. Len(s) - i + 1 : f[k] = s[i + k - 1]
    BY FromProperties
  <1> HIDE DEF f
  <1>5. b \in Seq(S) /\ Len(b) = Len(f) + Len(t) /\ Consists(b, f, t, Len(f) + Len(t))
    BY <1>4, TwoParts
  <1> HIDE DEF b
  <1>6. Len(a) = Len(b) /\ Len(s) \in Nat /\ Len(t) \in Nat
    BY <1>1, <1>3, <1>4, <1>5
  <1>7. ASSUME NEW k \in 1 .. Len(a) PROVE a[k] = b[k]
    <2>1. /\ k \in 1 .. Len(st) - i + 1 /\ i + k - 1 \in 1 .. Len(s) + Len(t)
          /\ k \in 1 .. Len(f) + Len(t) /\ k \in Nat /\ i \in Nat
      BY <1>1, <1>3, <1>4, <1>6
    <2>2. a[k] = IF i + k - 1 <= Len(s) THEN s[i + k - 1] ELSE t[(i + k - 1) - Len(s)]
      BY <1>1, <1>3, <2>1, Zenon DEF Consists
    <2>3. b[k] = IF k <= Len(f) THEN f[k] ELSE t[k - Len(f)]
      BY <1>5, <2>1, Zenon DEF Consists
    <2>4. CASE k <= Len(f)
      <3>1. i + k - 1 <= Len(s) /\ k \in 1 .. Len(s) - i + 1
        BY <1>4, <1>6, <2>1, <2>4
      <3> QED
        BY <1>4, <2>2, <2>3, <2>4, <3>1, Zenon
    <2>5. CASE ~(k <= Len(f))
      <3>1. ~(i + k - 1 <= Len(s)) /\ (i + k - 1) - Len(s) = k - Len(f)
        BY <1>4, <1>6, <2>1, <2>5
      <3> QED
        BY <2>2, <2>3, <2>5, <3>1, Zenon
    <2> QED
      BY <2>4, <2>5
  <1>8. a = b
    BY <1>3, <1>5, <1>6, <1>7, SameElements
  <1> QED
    BY <1>8 DEF a, b, f, st

\* Nor does it change the first of them.
LEMMA FirstOfConcat ==
  ASSUME NEW S, NEW s \in Seq(S), NEW t \in Seq(S), NEW n \in 0 .. Len(s)
  PROVE  SubSeq(s \o t, 1, n) = SubSeq(s, 1, n)
  <1> DEFINE st == s \o t
             a == SubSeq(st, 1, n)
             b == SubSeq(s, 1, n)
  <1>1. st \in Seq(S) /\ Len(st) = Len(s) + Len(t) /\ Consists(st, s, t, Len(s) + Len(t))
    BY TwoParts
  <1> HIDE DEF st
  <1>2. n \in 0 .. Len(st)
    BY <1>1
  <1>3. a \in Seq(S) /\ Len(a) = n /\ \A k \in 1 .. n : a[k] = st[k]
    BY <1>1, <1>2, FirstProperties
  <1>4. b \in Seq(S) /\ Len(b) = n /\ \A k \in 1 .. n : b[k] = s[k]
    BY FirstProperties
  <1> HIDE DEF a, b
  <1>5. ASSUME NEW k \in 1 .. n PROVE st[k] = s[k]
    <2>1. k \in 1 .. Len(s) + Len(t) /\ k <= Len(s)
      BY <1>1
    <2> QED
      BY <1>1, <2>1, Zenon DEF Consists
  <1>6. a = b
    BY <1>3, <1>4, <1>5, SameElements
  <1> QED
    BY <1>6 DEF a, b, st

\* Two joined sequences come apart where they were joined.
LEMMA AllOfFirst ==
  ASSUME NEW S, NEW s \in Seq(S), NEW t \in Seq(S)
  PROVE  /\ SubSeq(s \o t, 1, Len(s)) = s
         /\ From(s \o t, Len(s) + 1) = t
  <1>1. Len(s) \in 0 .. Len(s) /\ Len(s) + 1 \in 1 .. Len(s) + 1
    OBVIOUS
  <1>2. SubSeq(s \o t, 1, Len(s)) = SubSeq(s, 1, Len(s))
    BY <1>1, FirstOfConcat
  <1>3. SubSeq(s, 1, Len(s)) = s
    OBVIOUS
  <1>4. From(s \o t, Len(s) + 1) = From(s, Len(s) + 1) \o t
    BY <1>1, FromConcat
  <1>5. From(s, Len(s) + 1) = <<>>
    <2>1. From(s, Len(s) + 1) \in Seq(S) /\ Len(From(s, Len(s) + 1)) = Len(s) - (Len(s) + 1) + 1
      BY <1>1, FromProperties, Zenon
    <2>2. Len(s) - (Len(s) + 1) + 1 = 0
      BY <1>1
    <2> QED
      BY <2>1, <2>2
  <1>6. <<>> \o t = t
    OBVIOUS
  <1> QED
    BY <1>2, <1>3, <1>4, <1>5, <1>6, Zenon

\* A sequence cut in two is whole again when it is joined.
LEMMA FirstAndRest ==
  ASSUME NEW S, NEW s \in Seq(S), NEW n \in 0 .. Len(s)
  PROVE  SubSeq(s, 1, n) \o From(s, n + 1) = s
  <1>1. /\ 1 \in 1 .. Len(s) + 1 /\ n \in 1 - 1 .. Len(s) /\ Len(s) \in n .. Len(s)
    OBVIOUS
  <1>2. SubSeq(s, 1, n) \o SubSeq(s, n + 1, Len(s)) = SubSeq(s, 1, Len(s))
    BY <1>1, ConcatAdjacentSubSeq
  <1>3. SubSeq(s, 1, Len(s)) = s
    OBVIOUS
  <1> QED
    BY <1>2, <1>3, Zenon DEF From

\* Taking n elements and then m is taking n + m.
LEMMA FromFrom ==
  ASSUME NEW S, NEW s \in Seq(S), NEW n \in 0 .. Len(s), NEW m \in 0 .. Len(s) - n
  PROVE  /\ From(From(s, n + 1), m + 1) = From(s, n + m + 1)
         /\ SubSeq(s, 1, n) \o SubSeq(From(s, n + 1), 1, m) = SubSeq(s, 1, n + m)
  <1> DEFINE f == From(s, n + 1)
             a == SubSeq(s, 1, n)
             b == SubSeq(f, 1, m)
             c == From(f, m + 1)
             ab == a \o b
  <1>1. n + 1 \in 1 .. Len(s) + 1 /\ Len(s) \in Nat /\ n \in Nat /\ m \in Nat /\ n + m \in 0 .. Len(s)
    OBVIOUS
  <1>2. f \in Seq(S) /\ Len(f) = Len(s) - n
    <2>1. f \in Seq(S) /\ Len(f) = Len(s) - (n + 1) + 1
      BY <1>1, FromProperties
    <2> HIDE DEF f
    <2> QED
      BY <1>1, <2>1
  <1>3. a \in Seq(S) /\ Len(a) = n
    BY FirstProperties
  <1>4. a \o f = s
    BY FirstAndRest
  <1> HIDE DEF f, a
  <1>5. m \in 0 .. Len(f) /\ m + 1 \in 1 .. Len(f) + 1
    BY <1>1, <1>2
  <1>6. b \in Seq(S) /\ Len(b) = m
    BY <1>2, <1>5, FirstProperties
  <1>7. c \in Seq(S)
    BY <1>2, <1>5, FromProperties
  <1>8. b \o c = f
    BY <1>2, <1>5, FirstAndRest
  <1> HIDE DEF b, c
  <1>9. Associate(a, b, c)
    BY <1>3, <1>6, <1>7, Associates, Zenon
  <1>10. s = ab \o c
    BY <1>4, <1>8, <1>9, Zenon DEF Associate, ab
  <1>11. ab \in Seq(S) /\ Len(ab) = n + m
    <2>1. ab \in Seq(S) /\ Len(ab) = Len(a) + Len(b)
      BY <1>3, <1>6, TwoParts
    <2> HIDE DEF ab
    <2> QED
      BY <1>3, <1>6, <2>1
  <1> HIDE DEF ab
  <1>12. SubSeq(ab \o c, 1, Len(ab)) = ab /\ From(ab \o c, Len(ab) + 1) = c
    BY <1>7, <1>11, AllOfFirst
  <1>13. SubSeq(s, 1, n + m) = ab /\ From(s, (n + m) + 1) = c
    BY <1>10, <1>11, <1>12, Zenon
  <1> QED
    BY <1>1, <1>13, Zenon DEF ab, c, b, f, a

-----------------------------------------------------------------------------
(* Numbers as bytes. *)

\* The provers are kept from dividing by what n is divided into.
High(n) == n \div 256
Low(n) == n % 256
HighHalf(n) == n \div TwoTo16
LowHalf(n) == n % TwoTo16

\* Bytes put together.
LEMMA TwoBytes ==
  ASSUME NEW n \in Nat, n < TwoTo16
  PROVE  /\ High(n) \in Byte /\ Low(n) \in Byte
         /\ High(n) % 256 = High(n)
         /\ 256 * High(n) + Low(n) = n
  <1>1. High(n) \in Int /\ Low(n) \in 0 .. 255 /\ n = 256 * High(n) + Low(n)
    BY SMT DEF High, Low
  <1>2. Low(n) \in Nat /\ Low(n) < 256
    BY <1>1
  <1>3. High(n) >= 0 /\ High(n) < 256
    BY <1>1, <1>2, SMT DEF TwoTo16
  <1>4. High(n) \in 0 .. 255
    BY <1>1, <1>3, SMT
  <1>5. \A k \in 0 .. 255 : k % 256 = k
    BY SMT
  <1>6. High(n) % 256 = High(n)
    BY <1>4, <1>5, Zenon
  <1> QED
    BY <1>1, <1>4, <1>6, Zenon DEF Byte

\* A pair by its elements.
LEMMA PairOfBytes ==
  ASSUME NEW a \in Byte, NEW b \in Byte, NEW s, s = <<a, b>>
  PROVE  s \in Seq(Byte) /\ Len(s) = 2 /\ s[1] = a /\ s[2] = b
  BY SMT

\* The two bytes of a 16-bit number.
LEMMA U16Type ==
  ASSUME NEW n \in Nat, n < TwoTo16
  PROVE  U16(n) \in Seq(Byte) /\ Len(U16(n)) = 2 /\ U16(n)[1] = High(n) /\ U16(n)[2] = Low(n)
  <1>1. U16(n) = <<High(n) % 256, Low(n)>>
    BY Zenon DEF U16, High, Low
  <1>2. U16(n) = <<High(n), Low(n)>>
    BY <1>1, TwoBytes, Zenon
  <1>3. High(n) \in Byte /\ Low(n) \in Byte
    BY TwoBytes, Zenon
  <1> QED
    BY <1>2, <1>3, PairOfBytes, SMT

\* A 16-bit number is read as it was written.
LEMMA Uint16OfU16 ==
  ASSUME NEW n \in Nat, n < TwoTo16, NEW s, s[1] = U16(n)[1], s[2] = U16(n)[2]
  PROVE  Uint16(s) = n
  <1>1. s[1] = High(n) /\ s[2] = Low(n)
    BY U16Type, Zenon
  <1>2. Uint16(s) = 256 * High(n) + Low(n)
    BY <1>1, Zenon DEF Uint16
  <1> QED
    BY <1>2, TwoBytes, Zenon

\* The halves of a 32-bit number.
LEMMA FourBytes ==
  ASSUME NEW n, IsUint32(n)
  PROVE  /\ n \in Nat
         /\ HighHalf(n) \in Nat /\ HighHalf(n) < TwoTo16
         /\ LowHalf(n) \in Nat /\ LowHalf(n) < TwoTo16
         /\ TwoTo16 * HighHalf(n) + LowHalf(n) = n
  <1>1. n \in Nat /\ HighHalf(n) < TwoTo16
    BY Zenon DEF IsUint32, HighHalf
  <1>2. HighHalf(n) \in Int /\ n = 65536 * HighHalf(n) + LowHalf(n)
    BY <1>1, SMT DEF HighHalf, LowHalf, TwoTo16
  <1>3. LowHalf(n) \in Nat /\ LowHalf(n) < 65536
    BY <1>1, SMT DEF LowHalf, TwoTo16
  <1>4. HighHalf(n) >= 0
    BY <1>1, <1>2, <1>3, SMT
  <1> QED
    BY <1>1, <1>2, <1>3, <1>4, SMT DEF TwoTo16

\* Two pairs are four elements.
LEMMA JoinedPairs ==
  ASSUME NEW S, NEW q \in Seq(S), Len(q) = 2, NEW r \in Seq(S), Len(r) = 2
  PROVE  /\ q \o r \in Seq(S) /\ Len(q \o r) = 4
         /\ (q \o r)[1] = q[1] /\ (q \o r)[2] = q[2] /\ (q \o r)[3] = r[1] /\ (q \o r)[4] = r[2]
  <1>1. /\ q \o r \in Seq(S) /\ Len(q \o r) = Len(q) + Len(r)
        /\ \A i \in 1 .. Len(q) + Len(r) : (q \o r)[i] = IF i <= Len(q) THEN q[i] ELSE r[i - Len(q)]
    BY ConcatProperties
  <1>2. /\ q \o r \in Seq(S) /\ Len(q \o r) = 4
        /\ \A i \in 1 .. 4 : (q \o r)[i] = IF i <= 2 THEN q[i] ELSE r[i - 2]
    BY <1>1
  <1> DEFINE s == q \o r
  <1> HIDE DEF s
  <1>3. \A i \in 1 .. 4 : s[i] = IF i <= 2 THEN q[i] ELSE r[i - 2]
    BY <1>2 DEF s
  <1>4. s[1] = q[1] /\ s[2] = q[2] /\ s[3] = r[1] /\ s[4] = r[2]
    BY <1>3, SMT
  <1> QED
    BY <1>2, <1>4, Zenon DEF s

\* The four bytes of a 32-bit number.
LEMMA U32Type ==
  ASSUME NEW n, IsUint32(n)
  PROVE  /\ U32(n) \in Seq(Byte) /\ Len(U32(n)) = 4
         /\ U32(n)[1] = U16(HighHalf(n))[1] /\ U32(n)[2] = U16(HighHalf(n))[2]
         /\ U32(n)[3] = U16(LowHalf(n))[1] /\ U32(n)[4] = U16(LowHalf(n))[2]
  <1>1. U32(n) = U16(HighHalf(n)) \o U16(LowHalf(n))
    BY Zenon DEF U32, HighHalf, LowHalf
  <1>2. /\ HighHalf(n) \in Nat /\ HighHalf(n) < TwoTo16
        /\ LowHalf(n) \in Nat /\ LowHalf(n) < TwoTo16
    BY FourBytes, Zenon
  <1>3. /\ U16(HighHalf(n)) \in Seq(Byte) /\ Len(U16(HighHalf(n))) = 2
        /\ U16(LowHalf(n)) \in Seq(Byte) /\ Len(U16(LowHalf(n))) = 2
    BY <1>2, U16Type, Zenon
  <1> QED
    BY <1>1, <1>3, JoinedPairs, SMT

\* Four bytes of a longer sequence.
Begins(s, t) == s[1] = t[1] /\ s[2] = t[2] /\ s[3] = t[3] /\ s[4] = t[4]

\* From the third byte on.
LEMMA ThirdOn ==
  ASSUME NEW s \in Seq(Byte), Len(s) >= 4
  PROVE  From(s, 3)[1] = s[3] /\ From(s, 3)[2] = s[4]
  <1>1. 3 \in 1 .. Len(s) + 1 /\ 1 \in 1 .. Len(s) - 3 + 1 /\ 2 \in 1 .. Len(s) - 3 + 1
    BY SMT
  <1>2. \A k \in 1 .. Len(s) - 3 + 1 : From(s, 3)[k] = s[3 + k - 1]
    BY <1>1, FromProperties, Zenon
  <1>3. 3 + 1 - 1 = 3 /\ 3 + 2 - 1 = 4
    BY SMT
  <1> QED
    BY <1>1, <1>2, <1>3, Zenon

\* A 32-bit number is read as it was written.
LEMMA Uint32OfU32 ==
  ASSUME NEW n, IsUint32(n), NEW s \in Seq(Byte), Len(s) >= 4, Begins(s, U32(n))
  PROVE  Uint32(s) = n
  <1> DEFINE hi == HighHalf(n)
             lo == LowHalf(n)
  <1>1. hi \in Nat /\ hi < TwoTo16 /\ lo \in Nat /\ lo < TwoTo16 /\ TwoTo16 * hi + lo = n
    BY FourBytes, Zenon
  <1>2. From(s, 3)[1] = s[3] /\ From(s, 3)[2] = s[4]
    BY ThirdOn
  <1>3. s[1] = U16(hi)[1] /\ s[2] = U16(hi)[2] /\ s[3] = U16(lo)[1] /\ s[4] = U16(lo)[2]
    BY U32Type, Zenon DEF Begins
  <1>4. Uint16(s) = hi
    BY <1>1, <1>3, Uint16OfU16, Zenon
  <1>5. Uint16(From(s, 3)) = lo
    BY <1>1, <1>2, <1>3, Uint16OfU16, Zenon
  <1>6. Uint32(s) = TwoTo16 * hi + lo
    BY <1>4, <1>5, Zenon DEF Uint32
  <1> QED
    BY <1>1, <1>6, Zenon

-----------------------------------------------------------------------------
(* Headers. *)

Headers == [version : 0 .. 7, typ : Nat, payloadLen : Nat, id : Nat]
ProperHeader(h) == h \in Headers /\ ValidHeader(h.typ, h.payloadLen) /\ IsUint32(h.id)

\* Version and type share two bytes.
VersionAndType(h) == h.version * 1024 + h.typ

Assembled(abc, s, S, a, b, c, n) ==
  /\ abc \in Seq(S) /\ Len(abc) = 10
  /\ s \in Seq(S) /\ Len(s) = n + 10
  /\ s[1] = a[1] /\ s[2] = a[2]
  /\ \A i \in 1 .. 4 : s[2 + i] = b[i] /\ s[6 + i] = c[i]

\* The bytes of a header, and where they are when more follows.
LEMMA ThreeParts ==
  ASSUME NEW S, NEW a \in Seq(S), Len(a) = 2, NEW b \in Seq(S), Len(b) = 4,
         NEW c \in Seq(S), Len(c) = 4, NEW rest \in Seq(S)
  PROVE  Assembled(a \o b \o c, (a \o b \o c) \o rest, S, a, b, c, Len(rest))
  <1> DEFINE ab == a \o b
             abc == ab \o c
             s == abc \o rest
  <1>1. ab \in Seq(S) /\ Len(ab) = 6 /\ Consists(ab, a, b, 6)
    <2>1. ab \in Seq(S) /\ Len(ab) = Len(a) + Len(b) /\ Consists(ab, a, b, Len(a) + Len(b))
      BY TwoParts
    <2>2. Len(a) + Len(b) = 6
      OBVIOUS
    <2> HIDE DEF ab
    <2> QED
      BY <2>1, <2>2, Zenon
  <1> HIDE DEF ab
  <1>2. abc \in Seq(S) /\ Len(abc) = 10 /\ Consists(abc, ab, c, 10)
    <2>1. abc \in Seq(S) /\ Len(abc) = Len(ab) + Len(c) /\ Consists(abc, ab, c, Len(ab) + Len(c))
      BY <1>1, TwoParts
    <2>2. Len(ab) + Len(c) = 10
      BY <1>1
    <2> HIDE DEF abc
    <2> QED
      BY <2>1, <2>2, Zenon
  <1> HIDE DEF abc
  <1>3. s \in Seq(S) /\ Len(s) = Len(rest) + 10 /\ \A i \in 1 .. 10 : s[i] = abc[i]
    <2>1. s \in Seq(S) /\ Len(s) = Len(abc) + Len(rest) /\ Consists(s, abc, rest, Len(abc) + Len(rest))
      BY <1>2, TwoParts
    <2>2. Len(rest) \in Nat /\ Len(abc) = 10
      BY <1>2
    <2> HIDE DEF s
    <2> QED
      BY <2>1, <2>2 DEF Consists
  <1> HIDE DEF s
  <1>4. ASSUME NEW i \in 1 .. 2 PROVE s[i] = a[i]
    <2>1. i \in 1 .. 6 /\ i \in 1 .. 10 /\ i <= 2 /\ i <= 6
      OBVIOUS
    <2>2. abc[i] = ab[i] /\ ab[i] = a[i]
      BY <1>1, <1>2, <2>1, Zenon DEF Consists
    <2> QED
      BY <1>3, <2>1, <2>2
  <1>5. ASSUME NEW i \in 1 .. 4 PROVE s[2 + i] = b[i] /\ s[6 + i] = c[i]
    <2>1. 2 + i \in 1 .. 6 /\ 2 + i \in 1 .. 10 /\ 6 + i \in 1 .. 10 /\ (2 + i) - 2 = i /\ (6 + i) - 6 = i
           /\ ~(2 + i <= 2) /\ ~(6 + i <= 6) /\ 2 + i <= 6
      BY SMT
    <2>2. /\ s[2 + i] = abc[2 + i] /\ s[6 + i] = abc[6 + i]
          /\ abc[2 + i] = IF 2 + i <= Len(ab) THEN ab[2 + i] ELSE c[(2 + i) - Len(ab)]
          /\ abc[6 + i] = IF 6 + i <= Len(ab) THEN ab[6 + i] ELSE c[(6 + i) - Len(ab)]
          /\ ab[2 + i] = IF 2 + i <= Len(a) THEN a[2 + i] ELSE b[(2 + i) - Len(a)]
      BY <1>1, <1>2, <1>3, <2>1, Zenon DEF Consists
    <2>3. Len(a) = 2 /\ Len(ab) = 6
      BY <1>1
    <2>4. ab[2 + i] = b[i] /\ abc[6 + i] = c[i] /\ abc[2 + i] = ab[2 + i]
      BY <2>1, <2>2, <2>3, SMT
    <2> QED
      BY <2>2, <2>4, Zenon
  <1>6. s[1] = a[1] /\ s[2] = a[2]
    BY <1>4
  <1> QED
    BY <1>2, <1>3, <1>5, <1>6, Zenon DEF ab, abc, s, Assembled

\* Three bits of version and ten of type fit in 16.
LEMMA VersionAndTypeFit ==
  ASSUME NEW h, ProperHeader(h)
  PROVE  /\ VersionAndType(h) \in Nat /\ VersionAndType(h) < TwoTo16
         /\ (High(VersionAndType(h)) \div 4) % 8 = h.version
         /\ VersionAndType(h) % 1024 = h.typ
  <1> DEFINE v == h.version
             t == h.typ
             w == VersionAndType(h)
             q == High(w)
             r == Low(w)
  <1>1. v \in 0 .. 7 /\ t \in Nat /\ t <= 1023 /\ w = v * 1024 + t
    BY DEF ProperHeader, Headers, ValidHeader, VersionAndType
  <1> HIDE DEF v, t, w
  <1>2. v \in Nat /\ v <= 7
    BY <1>1
  <1>3. w \in Nat /\ w < 65536
    BY <1>1, <1>2, SMT
  <1>4. w \in Nat /\ w < TwoTo16
    BY <1>3, SMT DEF TwoTo16
  <1>5. 256 * q + r = w /\ q \in Byte /\ r \in Byte
    BY <1>4, TwoBytes
  <1> HIDE DEF q, r
  <1>6. q \in Nat /\ r \in Nat /\ r < 256
    BY <1>5, SMT DEF Byte
  <1>7. q >= 4 * v /\ q < 4 * v + 4
    BY <1>1, <1>2, <1>5, <1>6, SMT
  <1>8. q \div 4 = v
    BY <1>2, <1>6, <1>7, SMT
  <1>9. v % 8 = v
    BY <1>2, SMT
  <1>10. w % 1024 = t
    BY <1>1, <1>2, SMT
  <1> QED
    BY <1>4, <1>8, <1>9, <1>10, ZenonT(60) DEF v, t, w, q

\* Header.UnmarshalBinary reads what Header.MarshalBinary wrote, whatever follows it.
THEOREM HeaderRoundTrip ==
  ASSUME NEW h, ProperHeader(h), NEW rest \in Seq(Byte)
  PROVE  /\ MarshalHeader(h) \in Seq(Byte) /\ Len(MarshalHeader(h)) = HeaderSz
         /\ LengthField(MarshalHeader(h) \o rest) = h.payloadLen + HeaderSz
         /\ UnmarshalHeader(MarshalHeader(h) \o rest) = h
  <1> DEFINE w == VersionAndType(h)
             a == U16(w)
             b == U32(h.payloadLen + HeaderSz)
             c == U32(h.id)
             s == MarshalHeader(h) \o rest
  <1>1. /\ h \in Headers /\ IsUint32(h.payloadLen + HeaderSz) /\ IsUint32(h.id)
    BY DEF ProperHeader, ValidHeader
  <1>2. w \in Nat /\ w < TwoTo16 /\ (High(w) \div 4) % 8 = h.version /\ w % 1024 = h.typ
    BY VersionAndTypeFit
  <1>3. a \in Seq(Byte) /\ Len(a) = 2 /\ a[1] = High(w)
    BY <1>2, U16Type
  <1>4. b \in Seq(Byte) /\ Len(b) = 4 /\ c \in Seq(Byte) /\ Len(c) = 4
    BY <1>1, U32Type
  <1>5. MarshalHeader(h) = a \o b \o c
    BY Zenon DEF MarshalHeader, VersionAndType
  <1> HIDE DEF a, b, c, s
  <1>6. s = (a \o b \o c) \o rest
    BY <1>5 DEF s
  <1>7. /\ a \o b \o c \in Seq(Byte) /\ Len(a \o b \o c) = 10
        /\ s \in Seq(Byte) /\ Len(s) = Len(rest) + 10
        /\ s[1] = a[1] /\ s[2] = a[2]
        /\ \A i \in 1 .. 4 : s[2 + i] = b[i] /\ s[6 + i] = c[i]
    <2>1. Assembled(a \o b \o c, (a \o b \o c) \o rest, Byte, a, b, c, Len(rest))
      BY <1>3, <1>4, ThreeParts
    <2> QED
      BY <1>6, <2>1, Zenon DEF Assembled
  <1>8. Len(s) >= 10 /\ Len(s) \in Nat
    <2>1. Len(rest) \in Nat
      OBVIOUS
    <2> QED
      BY <1>7, <2>1
  <1>9. Uint16(s) = w
    BY <1>2, <1>7, Uint16OfU16, ZenonT(60) DEF a
  <1>10. LengthField(s) = h.payloadLen + HeaderSz
    <2>1. From(s, 3) \in Seq(Byte) /\ Len(From(s, 3)) >= 4
          /\ From(s, 3)[1] = s[3] /\ From(s, 3)[2] = s[4] /\ From(s, 3)[3] = s[5] /\ From(s, 3)[4] = s[6]
      <3>1. /\ From(s, 3) \in Seq(Byte)
            /\ Len(From(s, 3)) = Len(s) - 3 + 1
            /\ \A k \in 1 .. Len(s) - 3 + 1 : From(s, 3)[k] = s[3 + k - 1]
        <4>1. s \in Seq(Byte) /\ 3 \in 1 .. Len(s) + 1
          BY <1>7, <1>8
        <4> QED
          BY <4>1, FromProperties
      <3> QED
        BY <1>8, <3>1, SMT
    <2>2. Begins(From(s, 3), b)
      BY <1>7, <2>1, SMT DEF Begins
    <2>3. Uint32(From(s, 3)) = h.payloadLen + HeaderSz
      BY <1>1, <2>1, <2>2, Uint32OfU32 DEF b
    <2> QED
      BY <2>3 DEF LengthField
  <1>11. Uint32(From(s, 7)) = h.id
    <2>1. From(s, 7) \in Seq(Byte) /\ Len(From(s, 7)) >= 4
          /\ From(s, 7)[1] = s[7] /\ From(s, 7)[2] = s[8] /\ From(s, 7)[3] = s[9] /\ From(s, 7)[4] = s[10]
      <3>1. /\ From(s, 7) \in Seq(Byte)
            /\ Len(From(s, 7)) = Len(s) - 7 + 1
            /\ \A k \in 1 .. Len(s) - 7 + 1 : From(s, 7)[k] = s[7 + k - 1]
        <4>1. s \in Seq(Byte) /\ 7 \in 1 .. Len(s) + 1
          BY <1>7, <1>8
        <4> QED
          BY <4>1, FromProperties
      <3> QED
        BY <1>8, <3>1, SMT
    <2>2. Begins(From(s, 7), c)
      BY <1>7, <2>1, SMT DEF Begins
    <2> QED
      BY <1>1, <2>1, <2>2, Uint32OfU32 DEF c
  <1>12. h.payloadLen \in Nat /\ (h.payloadLen + HeaderSz) - HeaderSz = h.payloadLen
    BY <1>1 DEF Headers, HeaderSz
  <1>13. (s[1] \div 4) % 8 = h.version
    BY <1>2, <1>3, <1>7, ZenonT(60)
  <1>14. UnmarshalHeader(s) = [version |-> h.version, typ |-> h.typ, payloadLen |-> h.payloadLen, id |-> h.id]
    <2>1. Uint16(s) % 1024 = h.typ
      BY <1>2, <1>9
    <2>2. LengthField(s) - HeaderSz = h.payloadLen
      BY <1>10, <1>12, Zenon
    <2> QED
      BY <1>11, <1>13, <2>1, <2>2, ZenonT(60) DEF UnmarshalHeader
  <1>15. h = [version |-> h.version, typ |-> h.typ, payloadLen |-> h.payloadLen, id |-> h.id]
    BY <1>1, Zenon DEF Headers
  <1>16. Len(MarshalHeader(h)) = HeaderSz
    BY <1>5, <1>7 DEF HeaderSz
  <1> QED
    BY <1>5, <1>7, <1>10, <1>14, <1>15, <1>16, Zenon DEF s

-----------------------------------------------------------------------------
(* Messages on the wire. *)

\* A message as WriteHeader and CopyPayload put it on the connection.
Frame(m) == MarshalHeader(HeaderOf(m)) \o m.payload
Frames(q) == [i \in 1 .. Len(q) |-> Frame(q[i])]
Wire(q) == FlattenSeq(Frames(q))

\* The messages have proper headers.
LEMMA MessagesAreProper ==
  ASSUME NEW m \in Messages
  PROVE  /\ m.payload \in Seq(Byte) /\ HeaderOf(m).payloadLen = Len(m.payload)
         /\ ProperHeader(HeaderOf(m))
         /\ Frame(m) \in Seq(Byte)
  <1>1. /\ m \in [version : 0 .. 7, typ : Nat, id : Nat, payload : Seq(Byte)]
        /\ ValidHeader(m.typ, Len(m.payload)) /\ IsUint32(m.id)
    BY MessagesAssumption
  <1>2. m.payload \in Seq(Byte) /\ Len(m.payload) \in Nat
    BY <1>1
  <1>3. HeaderOf(m) \in Headers
    BY <1>1, <1>2, Zenon DEF HeaderOf, Headers
  <1>4. /\ HeaderOf(m).payloadLen = Len(m.payload) /\ HeaderOf(m).typ = m.typ
        /\ HeaderOf(m).id = m.id
    BY Zenon DEF HeaderOf
  <1>5. ProperHeader(HeaderOf(m))
    BY <1>1, <1>3, <1>4, Zenon DEF ProperHeader
  <1>6. <<>> \in Seq(Byte)
    OBVIOUS
  <1>7. MarshalHeader(HeaderOf(m)) \in Seq(Byte)
    BY <1>5, <1>6, HeaderRoundTrip, Zenon
  <1>8. Frame(m) \in Seq(Byte)
    BY <1>2, <1>7, TwoParts, Zenon DEF Frame
  <1> QED
    BY <1>2, <1>4, <1>5, <1>8, Zenon

\* The bytes of messages, each apart.
LEMMA FramesType ==
  ASSUME NEW q \in Seq(Messages)
  PROVE  Frames(q) \in Seq(Seq(Byte)) /\ Len(Frames(q)) = Len(q) /\ Wire(q) \in Seq(Byte)
  <1>1. \A i \in 1 .. Len(q) : q[i] \in Messages
    OBVIOUS
  <1>2. \A i \in 1 .. Len(q) : Frame(q[i]) \in Seq(Byte)
    BY <1>1, MessagesAreProper, Zenon
  <1>3. Len(q) \in Nat
    OBVIOUS
  <1>4. Frames(q) \in [1 .. Len(q) -> Seq(Byte)]
    BY <1>2, Zenon DEF Frames
  <1>5. Frames(q) \in Seq(Seq(Byte)) /\ Len(Frames(q)) = Len(q)
    BY <1>3, <1>4, SMT
  <1> QED
    BY <1>5, FlattenType, Zenon DEF Wire

\* A message more goes behind the others.
LEMMA WireAppend ==
  ASSUME NEW q \in Seq(Messages), NEW m \in Messages
  PROVE  Wire(Append(q, m)) = Wire(q) \o Frame(m)
  <1> DEFINE r == Append(q, m)
             n == Len(q)
  <1>1. n \in Nat /\ r \in Seq(Messages) /\ Len(r) = n + 1
    OBVIOUS
  <1>2. r[n + 1] = m /\ \A i \in 1 .. n : r[i] = q[i]
    OBVIOUS
  <1> HIDE DEF r, n
  <1>3. Frames(q) \in Seq(Seq(Byte)) /\ Len(Frames(q)) = n
    BY FramesType DEF n
  <1>4. Frames(r) \in Seq(Seq(Byte)) /\ Len(Frames(r)) = n + 1
    BY <1>1, FramesType, Zenon
  <1>5. Frame(m) \in Seq(Byte)
    BY MessagesAreProper
  <1> DEFINE s == Append(Frames(q), Frame(m))
  <1>6. s \in Seq(Seq(Byte)) /\ Len(s) = n + 1 /\ s[n + 1] = Frame(m)
        /\ \A i \in 1 .. n : s[i] = Frames(q)[i]
    <2>1. /\ s \in Seq(Seq(Byte)) /\ Len(s) = Len(Frames(q)) + 1
          /\ s[Len(Frames(q)) + 1] = Frame(m)
          /\ \A i \in 1 .. Len(Frames(q)) : s[i] = Frames(q)[i]
      BY <1>3, <1>5, AppendProperties
    <2> QED
      BY <1>3, <2>1, Zenon
  <1>7. ASSUME NEW i \in 1 .. n + 1 PROVE Frames(r)[i] = s[i]
    <2>1. Frames(r)[i] = Frame(r[i])
      BY <1>1, Zenon DEF Frames
    <2>2. CASE i = n + 1
      BY <1>2, <1>6, <2>1, <2>2, Zenon
    <2>3. CASE i # n + 1
      <3>1. i \in 1 .. n
        BY <1>1, <2>3
      <3>2. Frames(q)[i] = Frame(q[i])
        BY <3>1, Zenon DEF Frames, n
      <3> QED
        BY <1>2, <1>6, <2>1, <3>1, <3>2, Zenon
    <2> QED
      BY <2>2, <2>3
  <1> HIDE DEF s
  <1>8. Frames(r) = s
    BY <1>4, <1>6, <1>7, SameElements
  <1>9. FlattenSeq(s) = FlattenSeq(Frames(q)) \o Frame(m)
    BY <1>3, <1>5, FlattenAppend, Zenon DEF s
  <1> QED
    BY <1>8, <1>9, Zenon DEF Wire, r

\* The first message comes first.
LEMMA WireTail ==
  ASSUME NEW q \in Seq(Messages), q # <<>>
  PROVE  Wire(q) = Frame(Head(q)) \o Wire(Tail(q))
  <1> DEFINE t == Tail(q)
             n == Len(t)
  <1>1. /\ n \in Nat /\ t \in Seq(Messages) /\ Len(q) = n + 1 /\ Head(q) = q[1]
        /\ \A i \in 1 .. n : t[i] = q[i + 1]
    OBVIOUS
  <1> HIDE DEF t, n
  <1>2. Frames(q) \in Seq(Seq(Byte)) /\ Len(Frames(q)) = n + 1
    BY <1>1, FramesType
  <1>3. Frames(t) \in Seq(Seq(Byte)) /\ Len(Frames(t)) = n
    BY <1>1, FramesType DEF n
  <1> DEFINE s == Tail(Frames(q))
  <1>4. Frames(q) # <<>> /\ Head(Frames(q)) = Frames(q)[1]
    BY <1>1, <1>2
  <1>5. s \in Seq(Seq(Byte)) /\ Len(s) = n /\ \A i \in 1 .. n : s[i] = Frames(q)[i + 1]
    BY <1>1, <1>2, <1>4
  <1> HIDE DEF s
  <1>6. \A i \in 1 .. n + 1 : Frames(q)[i] = Frame(q[i])
    BY <1>1, Zenon DEF Frames
  <1>7. ASSUME NEW i \in 1 .. n PROVE s[i] = Frames(t)[i]
    <2>1. i + 1 \in 1 .. n + 1
      BY <1>1
    <2>2. Frames(t)[i] = Frame(t[i])
      BY Zenon DEF Frames, n
    <2> QED
      BY <1>1, <1>5, <1>6, <2>1, <2>2, Zenon
  <1>8. s = Frames(t)
    BY <1>3, <1>5, <1>7, SameElements
  <1>9. Head(Frames(q)) = Frame(Head(q))
    <2>1. 1 \in 1 .. n + 1
      BY <1>1
    <2> QED
      BY <1>1, <1>4, <1>6, <2>1, Zenon
  <1>10. FlattenSeq(Frames(q)) = Head(Frames(q)) \o FlattenSeq(Tail(Frames(q)))
    BY <1>2, <1>4, FlattenTail, Zenon
  <1> QED
    BY <1>8, <1>9, <1>10, Zenon DEF Wire, s, t

\* No messages are no bytes.
LEMMA WireOfNone == Wire(<<>>) = <<>>
  <1>1. Frames(<<>>) = <<>>
    BY DEF Frames
  <1> QED
    BY <1>1, FlattenOfNone, Zenon DEF Wire

-----------------------------------------------------------------------------
(* The invariant. *)

\* All that is still to be read, once it has arrived.
coming == stream \o unsent

(***************************************************************************)
(* Behind what is left of the payload that is being read, the connection   *)
(* holds the messages of the queue, whole and in order.                    *)
(***************************************************************************)
RestIsMessages == left <= Len(coming) /\ From(coming, left + 1) = Wire(queue)

\* Whoever is given a message has read the beginning of its payload and has the
\* rest before him.
PayloadIsItsOwn ==
  /\ Len(current) <= 1
  /\ \A i \in 1 .. Len(current) :
       /\ hdr = HeaderOf(current[i])
       /\ data \o SubSeq(coming, 1, left) = current[i].payload

\* The steps of the reader.
ReaderStages ==
  /\ reader \in {"reply", "handler"} => current # <<>>
  /\ reader \in {"header", "discard"} => current = <<>>
  /\ reader = "header" => left = 0

FramingInv ==
  /\ TypeOK /\ RestIsMessages /\ PayloadIsItsOwn /\ ReaderStages /\ OnlyABreakEndsReading

\* Nothing is on the connection at first.
LEMMA FramingInit == ASSUME Init PROVE FramingInv
  <1> USE DEF Init
  <1>1. TypeOK
    BY DEF TypeOK
  <1>2. coming = <<>>
    BY DEF coming
  <1>3. RestIsMessages
    <2>1. From(coming, left + 1) = <<>> /\ Len(coming) = 0
      BY <1>2 DEF From
    <2> QED
      BY <2>1, WireOfNone DEF RestIsMessages
  <1>4. PayloadIsItsOwn /\ ReaderStages /\ OnlyABreakEndsReading
    BY DEF PayloadIsItsOwn, ReaderStages, OnlyABreakEndsReading
  <1> QED
    BY <1>1, <1>3, <1>4 DEF FramingInv

\* Where the reader looks for a header, it finds that of the first message, and behind
\* it the payload and the other messages.
LEMMA HeaderIsThere ==
  ASSUME FramingInv, reader = "header", Len(stream) >= HeaderSz
  PROVE  /\ queue # <<>> /\ Head(queue) \in Messages /\ Tail(queue) \in Seq(Messages)
         /\ LengthField(stream) = Len(Head(queue).payload) + HeaderSz
         /\ UnmarshalHeader(stream) = HeaderOf(Head(queue))
         /\ From(stream, HeaderSz + 1) \in Seq(Byte)
         /\ From(stream, HeaderSz + 1) \o unsent = Head(queue).payload \o Wire(Tail(queue))
  <1> DEFINE m == Head(queue)
             h == MarshalHeader(HeaderOf(m))
             rest == From(stream, HeaderSz + 1)
  <1>1. stream \in Seq(Byte) /\ unsent \in Seq(Byte) /\ queue \in Seq(Messages) /\ left = 0
    BY DEF FramingInv, TypeOK, ReaderStages
  <1>2. coming \in Seq(Byte) /\ Len(coming) = Len(stream) + Len(unsent)
    BY <1>1, TwoParts, Zenon DEF coming
  <1>3. Len(stream) \in Nat /\ Len(unsent) \in Nat /\ HeaderSz = 10
    BY <1>1 DEF HeaderSz
  <1>4. coming = Wire(queue)
    <2>1. From(coming, 1) = coming
      BY <1>2 DEF From
    <2>2. 0 + 1 = 1
      OBVIOUS
    <2> QED
      BY <1>1, <2>1, <2>2, Zenon DEF FramingInv, RestIsMessages
  <1>5. queue # <<>>
    <2>1. SUFFICES ASSUME queue = <<>> PROVE FALSE
      OBVIOUS
    <2>2. coming = <<>>
      BY <1>4, <2>1, WireOfNone, Zenon
    <2>3. Len(coming) = 0
      BY <2>2
    <2> QED
      BY <1>2, <1>3, <2>3
  <1>6. m \in Messages /\ Tail(queue) \in Seq(Messages)
    BY <1>1, <1>5
  <1> HIDE DEF m
  <1>7. /\ m.payload \in Seq(Byte) /\ HeaderOf(m).payloadLen = Len(m.payload)
        /\ ProperHeader(HeaderOf(m))
    BY <1>6, MessagesAreProper, Zenon
  <1>8. h \in Seq(Byte) /\ Len(h) = 10
    <2>1. <<>> \in Seq(Byte)
      OBVIOUS
    <2> QED
      BY <1>3, <1>7, <2>1, HeaderRoundTrip, Zenon
  <1>9. Wire(Tail(queue)) \in Seq(Byte)
    BY <1>6, FramesType, Zenon
  <1> DEFINE more == m.payload \o Wire(Tail(queue))
  <1>10. more \in Seq(Byte)
    BY <1>7, <1>9, TwoParts, Zenon
  <1>11. coming = h \o more
    <2>1. coming = Frame(m) \o Wire(Tail(queue))
      BY <1>1, <1>4, <1>5, WireTail, Zenon DEF m
    <2>2. Frame(m) = h \o m.payload
      BY Zenon DEF Frame
    <2>3. Associate(h, m.payload, Wire(Tail(queue)))
      BY <1>7, <1>8, <1>9, Associates, Zenon
    <2> HIDE DEF h
    <2> QED
      BY <2>1, <2>2, <2>3, Zenon DEF Associate
  <1>12. 10 \in 0 .. Len(stream) /\ 11 \in 1 .. Len(stream) + 1 /\ 10 + 1 = 11
    BY <1>3
  <1>13. SubSeq(stream, 1, 10) = h /\ rest \o unsent = more
    <2> HIDE DEF h, more
    <2>1. SubSeq(coming, 1, 10) = h /\ From(coming, 11) = more
      BY <1>8, <1>10, <1>11, <1>12, AllOfFirst, ZenonT(60)
    <2>2. SubSeq(coming, 1, 10) = SubSeq(stream, 1, 10)
      BY <1>1, <1>12, FirstOfConcat, Zenon DEF coming
    <2>3. From(coming, 11) = From(stream, 11) \o unsent
      BY <1>1, <1>12, FromConcat, Zenon DEF coming
    <2> QED
      BY <1>3, <1>12, <2>1, <2>2, <2>3, Zenon
  <1>14. rest \in Seq(Byte)
    BY <1>1, <1>3, <1>12, FromProperties, Zenon
  <1>15. stream = h \o rest
    <2>1. SubSeq(stream, 1, 10) \o From(stream, 10 + 1) = stream
      BY <1>1, <1>12, FirstAndRest, Zenon
    <2> QED
      BY <1>3, <1>13, <2>1, Zenon
  <1>16. /\ LengthField(h \o rest) = HeaderOf(m).payloadLen + HeaderSz
         /\ UnmarshalHeader(h \o rest) = HeaderOf(m)
    <2> HIDE DEF rest
    <2> QED
      BY <1>7, <1>14, HeaderRoundTrip, Zenon
  <1> QED
    BY <1>5, <1>6, <1>7, <1>13, <1>14, <1>15, <1>16, Zenon DEF m

\* Steps that neither read nor write.
LEMMA FramingFrame ==
  ASSUME FramingInv, TypeOK', UNCHANGED <<hdr, left, data, current, queue>>, coming' = coming,
         ReaderStages', OnlyABreakEndsReading'
  PROVE  FramingInv'
  BY Zenon DEF FramingInv, RestIsMessages, PayloadIsItsOwn

\* What is written joins the end of what is coming.
LEMMA WriteHeaderKeeps ==
  ASSUME FramingInv, NEW m \in Messages, WriteHeader(m) PROVE FramingInv'
  <1> DEFINE h == MarshalHeader(HeaderOf(m))
  <1>1. /\ stream \in Seq(Byte) /\ unsent = <<>> /\ queue \in Seq(Messages) /\ left \in Nat
        /\ stream' = stream \o h /\ unsent' = m.payload /\ queue' = Append(queue, m)
        /\ UNCHANGED <<open, reader, hdr, left, data, handed, current>>
    BY DEF FramingInv, TypeOK, WriteHeader, readerVars
  <1>2. m.payload \in Seq(Byte) /\ Frame(m) \in Seq(Byte) /\ ProperHeader(HeaderOf(m))
    BY MessagesAreProper
  <1>3. h \in Seq(Byte)
    <2>1. <<>> \in Seq(Byte)
      OBVIOUS
    <2> QED
      BY <1>2, <2>1, HeaderRoundTrip, Zenon
  <1>4. coming = stream
    BY <1>1 DEF coming
  <1>5. coming' = coming \o Frame(m)
    <2>1. Associate(stream, h, m.payload)
      BY <1>1, <1>2, <1>3, Associates, Zenon
    <2> HIDE DEF h
    <2>2. coming' = (stream \o h) \o m.payload /\ Frame(m) = h \o m.payload
      BY <1>1, Zenon DEF coming, Frame, h
    <2> QED
      BY <1>4, <2>1, <2>2, Zenon DEF Associate
  <1>6. TypeOK'
    <2>1. stream' \in Seq(Byte)
      BY <1>1, <1>3, TwoParts, Zenon
    <2>2. queue' \in Seq(Messages)
      BY <1>1
    <2>3. writer' \in {"ready", "closing"}
      BY DEF WriteHeader
    <2> QED
      BY <1>1, <1>2, <2>1, <2>2, <2>3, Zenon DEF FramingInv, TypeOK
  <1>7. left <= Len(coming) /\ Len(coming) \in Nat /\ Len(coming') = Len(coming) + Len(Frame(m))
    <2>1. left <= Len(coming) /\ Len(coming) \in Nat
      BY <1>1, <1>4 DEF FramingInv, RestIsMessages
    <2> QED
      BY <1>1, <1>2, <1>4, <1>5, <2>1, TwoParts, Zenon
  <1>8. left + 1 \in 1 .. Len(coming) + 1 /\ left \in 0 .. Len(coming)
    BY <1>1, <1>7
  <1>9. RestIsMessages'
    <2>1. From(coming', left + 1) = From(coming, left + 1) \o Frame(m)
      BY <1>1, <1>2, <1>4, <1>5, <1>8, FromConcat, Zenon
    <2>2. Wire(queue') = Wire(queue) \o Frame(m)
      BY <1>1, WireAppend, Zenon
    <2>3. From(coming, left + 1) = Wire(queue)
      BY Zenon DEF FramingInv, RestIsMessages
    <2>4. left <= Len(coming')
      <3>1. Len(Frame(m)) \in Nat
        BY <1>2
      <3> QED
        BY <1>1, <1>7, <3>1
    <2> QED
      BY <1>1, <2>1, <2>2, <2>3, <2>4, Zenon DEF RestIsMessages
  <1>10. PayloadIsItsOwn'
    <2>1. SubSeq(coming', 1, left) = SubSeq(coming, 1, left)
      BY <1>1, <1>2, <1>4, <1>5, <1>8, FirstOfConcat, Zenon
    <2> QED
      BY <1>1, <2>1, Zenon DEF FramingInv, PayloadIsItsOwn
  <1>11. ReaderStages' /\ OnlyABreakEndsReading'
    BY <1>1, Zenon DEF FramingInv, ReaderStages, OnlyABreakEndsReading
  <1> QED
    BY <1>6, <1>9, <1>10, <1>11, Zenon DEF FramingInv

\* What was coming is still coming, on either side of the connection.
LEMMA WriterKeeps == ASSUME FramingInv, CopyPayload \/ Breaks PROVE FramingInv'
  <1>1. stream \in Seq(Byte) /\ unsent \in Seq(Byte)
    BY DEF FramingInv, TypeOK
  <1>3. stream' \in Seq(Byte) /\ unsent' \in Seq(Byte) /\ coming' = coming
    <2>1. ASSUME CopyPayload PROVE stream' \in Seq(Byte) /\ unsent' \in Seq(Byte) /\ coming' = coming
      <3>1. PICK n \in 1 .. Len(unsent) :
              stream' = stream \o SubSeq(unsent, 1, n) /\ unsent' = From(unsent, n + 1)
        BY <2>1 DEF CopyPayload
      <3>2. n \in 0 .. Len(unsent) /\ n + 1 \in 1 .. Len(unsent) + 1
        BY <1>1
      <3>3. SubSeq(unsent, 1, n) \in Seq(Byte) /\ From(unsent, n + 1) \in Seq(Byte)
        BY <1>1, <3>2, FirstProperties, FromProperties, Zenon
      <3>4. SubSeq(unsent, 1, n) \o From(unsent, n + 1) = unsent
        BY <1>1, <3>2, FirstAndRest, Zenon
      <3>5. Associate(stream, SubSeq(unsent, 1, n), From(unsent, n + 1))
        BY <1>1, <3>3, Associates, Zenon
      <3>6. stream \o SubSeq(unsent, 1, n) \in Seq(Byte)
        BY <1>1, <3>3, TwoParts, Zenon
      <3> QED
        BY <3>1, <3>3, <3>4, <3>5, <3>6, Zenon DEF coming, Associate
    <2>2. ASSUME Breaks PROVE stream' \in Seq(Byte) /\ unsent' \in Seq(Byte) /\ coming' = coming
      <3>1. PICK n \in 0 .. Len(stream) :
              stream' = SubSeq(stream, 1, n) /\ unsent' = From(stream, n + 1) \o unsent
        BY <2>2 DEF Breaks
      <3>2. n + 1 \in 1 .. Len(stream) + 1
        BY <1>1
      <3>3. SubSeq(stream, 1, n) \in Seq(Byte) /\ From(stream, n + 1) \in Seq(Byte)
        BY <1>1, <3>2, FirstProperties, FromProperties, Zenon
      <3>4. SubSeq(stream, 1, n) \o From(stream, n + 1) = stream
        BY <1>1, FirstAndRest, Zenon
      <3>5. Associate(SubSeq(stream, 1, n), From(stream, n + 1), unsent)
        BY <1>1, <3>3, Associates, Zenon
      <3>6. From(stream, n + 1) \o unsent \in Seq(Byte)
        BY <1>1, <3>3, TwoParts, Zenon
      <3> QED
        BY <3>1, <3>3, <3>4, <3>5, <3>6, Zenon DEF coming, Associate
    <2> QED
      BY <2>1, <2>2
  <1>4. UNCHANGED <<writer, queue, reader, hdr, left, data, current>> /\ (open' = open \/ open' = FALSE)
    BY DEF CopyPayload, Breaks, readerVars
  <1>5. TypeOK'
    <2>1. open' \in BOOLEAN
      BY <1>4, Zenon DEF FramingInv, TypeOK
    <2> QED
      BY <1>3, <1>4, <2>1, Zenon DEF FramingInv, TypeOK
  <1>6. ReaderStages' /\ OnlyABreakEndsReading'
    <2>1. ReaderStages'
      BY <1>4, Zenon DEF FramingInv, ReaderStages
    <2>2. OnlyABreakEndsReading'
      BY <1>4, Zenon DEF FramingInv, OnlyABreakEndsReading
    <2> QED
      BY <2>1, <2>2
  <1> QED
    BY <1>3, <1>4, <1>5, <1>6, FramingFrame, Zenon

\* The header that is read is that of the first message, and what is left is its payload.
LEMMA ReadHeaderKeeps == ASSUME FramingInv, ReadHeader PROVE FramingInv'
  <1> DEFINE m == Head(queue)
             rest == From(stream, HeaderSz + 1)
  <1>1. /\ reader = "header" /\ Len(stream) >= HeaderSz
        /\ hdr' = UnmarshalHeader(stream) /\ stream' = rest /\ left' = hdr'.payloadLen
        /\ data' = <<>> /\ reader' \in {"reply", "handler", "discard"} /\ queue' = Tail(queue)
        /\ current' = IF reader' = "discard" THEN <<>> ELSE SubSeq(queue, 1, 1)
        /\ UNCHANGED <<writer, unsent, open>>
    BY DEF ReadHeader, writerVars, Takers
  <1>2. /\ queue # <<>> /\ m \in Messages /\ Tail(queue) \in Seq(Messages)
        /\ UnmarshalHeader(stream) = HeaderOf(m)
        /\ rest \in Seq(Byte)
        /\ rest \o unsent = m.payload \o Wire(Tail(queue))
    BY <1>1, HeaderIsThere, Zenon
  <1>3. queue \in Seq(Messages) /\ unsent \in Seq(Byte)
    BY DEF FramingInv, TypeOK
  <1>4. SubSeq(queue, 1, 1) = <<m>>
    BY <1>2, <1>3, FirstOne
  <1>5. current' \in Seq(Messages) /\ Len(current') <= 1
        /\ \A i \in 1 .. Len(current') : current'[i] = m
    <2>1. current' = <<>> \/ current' = <<m>>
      BY <1>1, <1>4
    <2> HIDE DEF m
    <2>2. ASSUME current' = <<>>
          PROVE  current' \in Seq(Messages) /\ Len(current') <= 1 /\ \A i \in 1 .. Len(current') : current'[i] = m
      BY <2>2
    <2>3. ASSUME current' = <<m>>
          PROVE  current' \in Seq(Messages) /\ Len(current') <= 1 /\ \A i \in 1 .. Len(current') : current'[i] = m
      BY <1>2, <2>3
    <2> QED
      BY <2>1, <2>2, <2>3
  <1> HIDE DEF m, rest
  <1>6. m.payload \in Seq(Byte) /\ HeaderOf(m).payloadLen = Len(m.payload)
    BY <1>2, MessagesAreProper, Zenon
  <1>7. left' = Len(m.payload) /\ left' \in Nat
    BY <1>1, <1>2, <1>6
  <1>8. Wire(Tail(queue)) \in Seq(Byte)
    BY <1>2, FramesType, Zenon
  <1>9. coming' = m.payload \o Wire(Tail(queue))
    BY <1>1, <1>2, Zenon DEF coming
  <1>10. SubSeq(coming', 1, left') = m.payload /\ From(coming', left' + 1) = Wire(Tail(queue))
    BY <1>6, <1>7, <1>8, <1>9, AllOfFirst, Zenon
  <1>11. left' <= Len(coming')
    <2>1. Len(coming') = Len(m.payload) + Len(Wire(Tail(queue)))
      BY <1>6, <1>8, <1>9, TwoParts, Zenon
    <2>2. Len(Wire(Tail(queue))) \in Nat
      BY <1>8
    <2> QED
      BY <1>7, <2>1, <2>2
  <1>12. TypeOK'
    <2>1. data' \in Seq(Byte) /\ open' \in BOOLEAN /\ writer' \in {"ready", "closing"}
      BY <1>1 DEF FramingInv, TypeOK
    <2> QED
      BY <1>1, <1>2, <1>3, <1>5, <1>7, <2>1 DEF TypeOK
  <1>13. RestIsMessages'
    BY <1>1, <1>10, <1>11, Zenon DEF RestIsMessages
  <1>14. PayloadIsItsOwn'
    <2>1. data' \o SubSeq(coming', 1, left') = m.payload
      <3>1. <<>> \o m.payload = m.payload
        BY <1>6
      <3> QED
        BY <1>1, <1>10, <3>1, Zenon
    <2>2. hdr' = HeaderOf(m)
      BY <1>1, <1>2, Zenon
    <2> QED
      BY <1>5, <2>1, <2>2, Zenon DEF PayloadIsItsOwn
  <1>15. ReaderStages' /\ OnlyABreakEndsReading'
    <2>1. <<m>> # <<>>
      OBVIOUS
    <2> QED
      BY <1>1, <1>4, <2>1 DEF ReaderStages, OnlyABreakEndsReading
  <1> QED
    BY <1>12, <1>13, <1>14, <1>15, Zenon DEF FramingInv

\* n bytes of what is left of a payload are taken off the connection.
Takes(n) == stream' = From(stream, n + 1) /\ left' = left - n /\ unsent' = unsent

\* What is taken of a payload is its beginning, and the rest is still coming.
LEMMA TakingKeeps ==
  ASSUME FramingInv, NEW n \in Readable, Takes(n)
  PROVE  /\ stream' \in Seq(Byte) /\ left' \in Nat
         /\ left' <= Len(coming')
         /\ From(coming', left' + 1) = From(coming, left + 1)
         /\ SubSeq(stream, 1, n) \in Seq(Byte) /\ SubSeq(coming', 1, left') \in Seq(Byte)
         /\ SubSeq(stream, 1, n) \o SubSeq(coming', 1, left') = SubSeq(coming, 1, left)
  <1>1. /\ stream \in Seq(Byte) /\ unsent \in Seq(Byte) /\ left \in Nat /\ left <= Len(coming)
        /\ n \in 1 .. Len(stream) /\ n <= left
    BY DEF FramingInv, TypeOK, RestIsMessages, Readable
  <1>2. coming \in Seq(Byte) /\ Len(coming) = Len(stream) + Len(unsent)
    BY <1>1, TwoParts, Zenon DEF coming
  <1>3. /\ Len(stream) \in Nat /\ Len(unsent) \in Nat /\ Len(coming) \in Nat /\ n \in Nat
        /\ n \in 0 .. Len(stream) /\ n + 1 \in 1 .. Len(stream) + 1
        /\ n \in 0 .. Len(coming) /\ n + 1 \in 1 .. Len(coming) + 1
        /\ left - n \in 0 .. Len(coming) - n /\ left - n \in Nat
        /\ n + (left - n) = left
    BY <1>1, <1>2
  <1>4. left' = left - n /\ stream' = From(stream, n + 1) /\ unsent' = unsent
    BY DEF Takes
  <1>5. coming' = From(coming, n + 1)
    <2>1. From(coming, n + 1) = From(stream, n + 1) \o unsent
      BY <1>1, <1>3, FromConcat, Zenon DEF coming
    <2> QED
      BY <1>4, <2>1, Zenon DEF coming
  <1>6. stream' \in Seq(Byte)
    BY <1>1, <1>3, <1>4, FromProperties, Zenon
  <1>7. coming' \in Seq(Byte) /\ Len(coming') = Len(coming) - n
    <2>1. coming' \in Seq(Byte) /\ Len(coming') = Len(coming) - (n + 1) + 1
      BY <1>2, <1>3, <1>5, FromProperties
    <2> QED
      BY <1>3, <2>1
  <1>8. left' <= Len(coming') /\ left' \in 0 .. Len(coming')
    BY <1>1, <1>3, <1>4, <1>7
  <1>9. From(coming', left' + 1) = From(coming, left + 1)
    <2>1. From(From(coming, n + 1), (left - n) + 1) = From(coming, (n + (left - n)) + 1)
      BY <1>2, <1>3, FromFrom, Zenon
    <2> QED
      BY <1>3, <1>4, <1>5, <2>1, Zenon
  <1>10. SubSeq(stream, 1, n) = SubSeq(coming, 1, n) /\ SubSeq(stream, 1, n) \in Seq(Byte)
    BY <1>1, <1>3, FirstOfConcat, FirstProperties, Zenon DEF coming
  <1>11. SubSeq(coming, 1, n) \o SubSeq(coming', 1, left') = SubSeq(coming, 1, left)
    <2>1. SubSeq(coming, 1, n) \o SubSeq(From(coming, n + 1), 1, left - n)
            = SubSeq(coming, 1, n + (left - n))
      BY <1>2, <1>3, FromFrom, Zenon
    <2> QED
      BY <1>3, <1>4, <1>5, <2>1, Zenon
  <1>12. SubSeq(coming', 1, left') \in Seq(Byte)
    BY <1>7, <1>8, FirstProperties, Zenon
  <1> QED
    BY <1>3, <1>4, <1>6, <1>8, <1>9, <1>10, <1>11, <1>12, Zenon

\* What is read of a payload moves from the connection to data.
LEMMA ReadPayloadKeeps == ASSUME FramingInv, ReadPayload PROVE FramingInv'
  <1>1. PICK n \in Readable : data' = data \o SubSeq(stream, 1, n) /\ Takes(n)
    BY DEF ReadPayload, Takes, writerVars
  <1>2. /\ stream' \in Seq(Byte) /\ left' \in Nat
        /\ left' <= Len(coming')
        /\ From(coming', left' + 1) = From(coming, left + 1)
        /\ SubSeq(stream, 1, n) \in Seq(Byte) /\ SubSeq(coming', 1, left') \in Seq(Byte)
        /\ SubSeq(stream, 1, n) \o SubSeq(coming', 1, left') = SubSeq(coming, 1, left)
    BY <1>1, TakingKeeps, Zenon
  <1>3. UNCHANGED <<writer, unsent, open, reader, hdr, current, queue>> /\ reader \in {"reply", "handler"}
    BY DEF ReadPayload, writerVars
  <1>4. data \in Seq(Byte)
    BY DEF FramingInv, TypeOK
  <1>5. data' \in Seq(Byte)
    BY <1>1, <1>2, <1>4, TwoParts, Zenon
  <1>6. TypeOK'
    BY <1>2, <1>3, <1>5 DEF FramingInv, TypeOK
  <1>7. RestIsMessages'
    BY <1>2, <1>3, Zenon DEF FramingInv, RestIsMessages
  <1>8. data' \o SubSeq(coming', 1, left') = data \o SubSeq(coming, 1, left)
    <2>1. Associate(data, SubSeq(stream, 1, n), SubSeq(coming', 1, left'))
      BY <1>2, <1>4, Associates, Zenon
    <2> QED
      BY <1>1, <1>2, <2>1, Zenon DEF Associate
  <1>9. PayloadIsItsOwn'
    BY <1>3, <1>8, Zenon DEF FramingInv, PayloadIsItsOwn
  <1>10. ReaderStages' /\ OnlyABreakEndsReading'
    BY <1>3 DEF FramingInv, ReaderStages, OnlyABreakEndsReading
  <1> QED
    BY <1>6, <1>7, <1>9, <1>10, Zenon DEF FramingInv

\* What is discarded is nobody's.
LEMMA DiscardKeeps == ASSUME FramingInv, Discard PROVE FramingInv'
  <1>1. PICK n \in Readable : Takes(n)
    BY DEF Discard, Takes, writerVars
  <1>2. /\ stream' \in Seq(Byte) /\ left' \in Nat
        /\ left' <= Len(coming')
        /\ From(coming', left' + 1) = From(coming, left + 1)
    BY <1>1, TakingKeeps, Zenon
  <1>3. UNCHANGED <<writer, unsent, open, reader, hdr, data, current, queue>> /\ reader = "discard"
    BY DEF Discard, writerVars
  <1>4. current = <<>>
    BY <1>3 DEF FramingInv, ReaderStages
  <1>5. TypeOK'
    BY <1>2, <1>3 DEF FramingInv, TypeOK
  <1>6. RestIsMessages'
    BY <1>2, <1>3, Zenon DEF FramingInv, RestIsMessages
  <1>7. PayloadIsItsOwn' /\ ReaderStages' /\ OnlyABreakEndsReading'
    BY <1>3, <1>4 DEF FramingInv, PayloadIsItsOwn, ReaderStages, OnlyABreakEndsReading
  <1> QED
    BY <1>5, <1>6, <1>7, Zenon DEF FramingInv

\* What is left of a payload stays on the connection.
LEMMA HandOverKeeps == ASSUME FramingInv, HandOver PROVE FramingInv'
  <1>1. /\ UNCHANGED <<writer, unsent, open, stream, hdr, left, data, queue>>
        /\ reader' = "discard" /\ current' = <<>>
    BY DEF HandOver, writerVars
  <1>2. coming' = coming
    BY <1>1, Zenon DEF coming
  <1>3. TypeOK'
    BY <1>1 DEF FramingInv, TypeOK
  <1>4. RestIsMessages'
    BY <1>1, <1>2, Zenon DEF FramingInv, RestIsMessages
  <1>5. PayloadIsItsOwn' /\ ReaderStages' /\ OnlyABreakEndsReading'
    BY <1>1 DEF PayloadIsItsOwn, ReaderStages, OnlyABreakEndsReading
  <1> QED
    BY <1>3, <1>4, <1>5, Zenon DEF FramingInv

\* The other steps of the reader move no byte.
LEMMA ReaderStepKeeps ==
  ASSUME FramingInv, GoOn \/ ReadFails \/ ReaderStops \/ UNCHANGED vars PROVE FramingInv'
  <1>1. UNCHANGED <<writer, unsent, open, stream, hdr, left, data, current, queue>>
    BY DEF GoOn, ReadFails, ReaderStops, writerVars, vars
  <1>2. coming' = coming
    BY <1>1, Zenon DEF coming
  <1>3. reader' \in {reader, "header", "failed", "stopped"}
    BY DEF GoOn, ReadFails, ReaderStops, vars
  <1>4. TypeOK'
    BY <1>1, <1>3 DEF FramingInv, TypeOK
  <1>5. ReaderStages'
    <2>1. ASSUME GoOn PROVE ReaderStages'
      BY <1>1, <2>1 DEF FramingInv, GoOn, ReaderStages
    <2>2. ASSUME ReadFails \/ ReaderStops \/ UNCHANGED vars PROVE ReaderStages'
      BY <1>1, <2>2 DEF FramingInv, ReadFails, ReaderStops, vars, ReaderStages
    <2> QED
      BY <2>1, <2>2
  <1>6. OnlyABreakEndsReading'
    <2>1. ASSUME ReadFails PROVE ~open
      <3>1. CASE Len(stream) < Needed
        BY <2>1, <3>1 DEF ReadFails
      <3>2. CASE ~(Len(stream) < Needed)
        <4>1. reader = "header" /\ LengthField(stream) < HeaderSz
          BY <2>1, <3>2 DEF ReadFails
        <4>2. stream \in Seq(Byte) /\ Len(stream) \in Nat
          BY DEF FramingInv, TypeOK
        <4>3. Len(stream) >= HeaderSz
          BY <3>2, <4>1, <4>2 DEF Needed, HeaderSz
        <4>4. LengthField(stream) = Len(Head(queue).payload) + HeaderSz /\ Head(queue) \in Messages
          BY <4>1, <4>3, HeaderIsThere, Zenon
        <4>5. Len(Head(queue).payload) \in Nat
          <5>1. Head(queue).payload \in Seq(Byte)
            BY <4>4, MessagesAreProper, Zenon
          <5> QED
            BY <5>1
        <4> QED
          BY <4>1, <4>4, <4>5 DEF HeaderSz
      <3> QED
        BY <3>1, <3>2
    <2>2. ASSUME GoOn \/ ReaderStops \/ UNCHANGED vars PROVE OnlyABreakEndsReading'
      BY <1>1, <2>2 DEF FramingInv, GoOn, ReaderStops, vars, OnlyABreakEndsReading
    <2> QED
      BY <1>1, <2>1, <2>2 DEF OnlyABreakEndsReading
  <1> QED
    BY <1>1, <1>2, <1>4, <1>5, <1>6, FramingFrame, Zenon

\* Each step preserves the invariant.
LEMMA FramingStep == ASSUME FramingInv, [Next]_vars PROVE FramingInv'
  <1>1. ASSUME WriteSomeMessage PROVE FramingInv'
    BY <1>1, WriteHeaderKeeps, Zenon DEF WriteSomeMessage
  <1> QED
    BY <1>1, WriterKeeps, ReadHeaderKeeps, ReadPayloadKeeps, HandOverKeeps, DiscardKeeps,
       ReaderStepKeeps, Zenon DEF Next

\* The invariant holds.
LEMMA FramingCorrect == Spec => []FramingInv
  <1>1. Init => FramingInv
    BY FramingInit
  <1>2. FramingInv /\ [Next]_vars => FramingInv'
    BY FramingStep
  <1> QED
    BY <1>1, <1>2, PTL DEF Spec

(***************************************************************************)
(* The bytes on the connection are bytes, and what is left of a payload is *)
(* never less than nothing.                                                *)
(***************************************************************************)
THEOREM FramingIsTyped == Spec => []TypeOK
  <1>1. FramingInv => TypeOK
    BY DEF FramingInv
  <1> QED
    BY <1>1, FramingCorrect, PTL

(***************************************************************************)
(* Where the reader looks for a header (readHeader), it finds that of the  *)
(* next message, for any messages, any pieces in which they arrive,        *)
(* whatever handlers leave unread; and only the end of the connection ends *)
(* the reading.                                                            *)
(***************************************************************************)
THEOREM HeadersAreFound == Spec => []StreamStaysAligned
  <1>1. ASSUME FramingInv PROVE NextIsItsHeader
    <2>1. SUFFICES ASSUME reader = "header", Len(stream) >= HeaderSz
                   PROVE  /\ queue # <<>>
                          /\ LengthField(stream) >= HeaderSz
                          /\ UnmarshalHeader(stream) = HeaderOf(Head(queue))
      BY DEF NextIsItsHeader
    <2>2. /\ queue # <<>> /\ Head(queue) \in Messages
          /\ LengthField(stream) = Len(Head(queue).payload) + HeaderSz
          /\ UnmarshalHeader(stream) = HeaderOf(Head(queue))
      BY <1>1, <2>1, HeaderIsThere, Zenon
    <2>3. Head(queue).payload \in Seq(Byte)
      BY <2>2, MessagesAreProper, Zenon
    <2>4. LengthField(stream) >= HeaderSz
      BY <2>2, <2>3 DEF HeaderSz
    <2> QED
      BY <2>2, <2>4
  <1>2. FramingInv => StreamStaysAligned
    BY <1>1 DEF FramingInv, StreamStaysAligned
  <1> QED
    BY <1>2, FramingCorrect, PTL

-----------------------------------------------------------------------------
(* The connection is a queue. *)

\* What the abstract queue holds: the messages begun and not handed over.
pending == current \o queue

\* The queue moves when a message is written, handed over or skipped.
LEMMA WriteMaps ==
  ASSUME FramingInv, NEW m \in Messages, WriteHeader(m) PROVE MQ!Put
  <1>1. /\ current \in Seq(Messages) /\ queue \in Seq(Messages)
        /\ queue' = Append(queue, m) /\ UNCHANGED <<current, handed>>
    BY DEF FramingInv, TypeOK, WriteHeader, readerVars
  <1>2. pending' = Append(pending, m)
    <2>1. current \o Append(queue, m) = Append(current \o queue, m)
      BY <1>1, SMT
    <2> QED
      BY <1>1, <2>1, Zenon DEF pending
  <1> QED
    BY <1>1, <1>2, Zenon DEF MQ!Put, pending

\* A header read takes a message off the queue only if nobody wants it.
LEMMA ReadHeaderMaps ==
  ASSUME FramingInv, ReadHeader PROVE MQ!Skip \/ UNCHANGED MQ!vars
  <1>1. /\ reader = "header" /\ Len(stream) >= HeaderSz /\ queue' = Tail(queue)
        /\ current' = IF reader' = "discard" THEN <<>> ELSE SubSeq(queue, 1, 1)
        /\ handed' = handed
    BY DEF ReadHeader
  <1>2. queue # <<>> /\ queue \in Seq(Messages) /\ current = <<>>
    BY <1>1, HeaderIsThere DEF FramingInv, TypeOK, ReaderStages
  <1>3. pending = queue
    <2>1. <<>> \o queue = queue
      BY <1>2
    <2> QED
      BY <1>2, <2>1, Zenon DEF pending
  <1>4. CASE reader' = "discard"
    <2>1. <<>> \o Tail(queue) = Tail(queue)
      BY <1>2
    <2>2. pending' = Tail(pending)
      BY <1>1, <1>3, <1>4, <2>1, Zenon DEF pending
    <2> QED
      BY <1>1, <1>2, <1>3, <2>2, Zenon DEF MQ!Skip, pending
  <1>5. CASE reader' # "discard"
    <2>1. <<Head(queue)>> \o Tail(queue) = queue
      BY <1>2, SMT
    <2>2. SubSeq(queue, 1, 1) = <<Head(queue)>>
      BY <1>2, FirstOne
    <2>3. pending' = pending
      BY <1>1, <1>3, <1>5, <2>1, <2>2, Zenon DEF pending
    <2> QED
      BY <1>1, <2>3, Zenon DEF MQ!vars, pending
  <1> QED
    BY <1>4, <1>5

\* What is handed over is the first of the queue.
LEMMA HandOverMaps ==
  ASSUME FramingInv, HandOver PROVE MQ!Reply \/ MQ!Handle
  <1> DEFINE m == Head(current)
  <1>1. /\ reader \in {"reply", "handler"} /\ (reader = "reply" => left = 0)
        /\ handed' = [header |-> hdr, data |-> data, whole |-> reader = "reply"]
        /\ current' = <<>> /\ queue' = queue
    BY DEF HandOver, CanHandOver
  <1>2. /\ current \in Seq(Messages) /\ queue \in Seq(Messages) /\ current # <<>> /\ Len(current) <= 1
        /\ data \in Seq(Byte) /\ stream \in Seq(Byte) /\ unsent \in Seq(Byte)
        /\ left \in Nat /\ left <= Len(coming)
    BY <1>1 DEF FramingInv, TypeOK, ReaderStages, PayloadIsItsOwn, RestIsMessages
  <1>3. Len(current) = 1 /\ m = current[1] /\ m \in Messages /\ 1 \in 1 .. Len(current)
    <2>1. m = current[1]
      BY <1>2
    <2>2. Len(current) \in Nat /\ Len(current) # 0
      BY <1>2
    <2>3. Len(current) = 1
      <3>1. Len(current) <= 1
        BY <1>2, Zenon
      <3>2. \A n \in Nat : n # 0 /\ n <= 1 => n = 1
        OBVIOUS
      <3> QED
        BY <2>2, <3>1, <3>2, Zenon
    <2> QED
      BY <1>2, <2>1, <2>3
  <1>4. hdr = HeaderOf(m) /\ data \o SubSeq(coming, 1, left) = m.payload
    BY <1>3, Zenon DEF FramingInv, PayloadIsItsOwn
  <1>5. pending # <<>> /\ Head(pending) = m /\ Tail(pending) = queue
    <2>1. current = <<m>>
      BY <1>2, <1>3
    <2> HIDE DEF m
    <2>2. <<m>> \o queue # <<>> /\ Head(<<m>> \o queue) = m /\ Tail(<<m>> \o queue) = queue
      BY <1>2, <1>3, SMT
    <2> QED
      BY <2>1, <2>2, Zenon DEF pending
  <1>6. pending' = queue
    <2>1. <<>> \o queue = queue
      BY <1>2
    <2> QED
      BY <1>1, <2>1, Zenon DEF pending
  <1> HIDE DEF m
  <1>7. coming \in Seq(Byte)
    BY <1>2, TwoParts, Zenon DEF coming
  <1>8. CASE reader = "reply"
    <2>1. SubSeq(coming, 1, 0) = <<>> /\ data \o <<>> = data
      BY <1>2, <1>7
    <2>2. data = m.payload
      BY <1>1, <1>4, <1>8, <2>1, Zenon
    <2>3. handed' = [header |-> HeaderOf(m), data |-> m.payload, whole |-> TRUE]
      BY <1>1, <1>4, <1>8, <2>2, Zenon
    <2> QED
      BY <1>5, <1>6, <2>3, Zenon DEF MQ!Reply, MQ!HandOver, pending
  <1>9. CASE reader = "handler"
    <2>1. left \in 0 .. Len(coming)
      BY <1>2, <1>7
    <2>2. SubSeq(coming, 1, left) \in Seq(Byte)
      BY <1>7, <2>1, FirstProperties, Zenon
    <2>3. SubSeq(m.payload, 1, Len(data)) = data
      BY <1>2, <1>4, <2>2, AllOfFirst, Zenon
    <2>4. Len(data) \in 0 .. Len(m.payload)
      <3>1. Len(m.payload) = Len(data) + Len(SubSeq(coming, 1, left))
        BY <1>2, <1>4, <2>2, TwoParts, Zenon
      <3>2. Len(data) \in Nat /\ Len(SubSeq(coming, 1, left)) \in Nat
        BY <1>2, <2>2
      <3>3. \A a, b \in Nat : a \in 0 .. a + b
        OBVIOUS
      <3> QED
        BY <3>1, <3>2, <3>3, Zenon
    <2>5. (reader = "reply") = FALSE
      BY <1>9
    <2>6. handed' = [header |-> HeaderOf(m), data |-> SubSeq(m.payload, 1, Len(data)), whole |-> FALSE]
      BY <1>1, <1>4, <2>3, <2>5, Zenon
    <2> QED
      BY <1>5, <1>6, <2>4, <2>6, Zenon DEF MQ!Handle, MQ!HandOver, pending
  <1> QED
    BY <1>1, <1>8, <1>9

\* Each step is one of the queue or none.
LEMMA FramingMaps ==
  ASSUME FramingInv, [Next]_vars PROVE [MQ!Next]_(MQ!vars)
  <1>1. ASSUME WriteSomeMessage PROVE MQ!Put
    BY <1>1, WriteMaps, Zenon DEF WriteSomeMessage
  <1>2. ASSUME CopyPayload \/ Breaks \/ ReadPayload \/ Discard \/ GoOn \/ ReadFails
               \/ ReaderStops \/ UNCHANGED vars
        PROVE  UNCHANGED MQ!vars
    <2>1. UNCHANGED <<current, queue, handed>>
      BY <1>2 DEF CopyPayload, Breaks, ReadPayload, Discard, GoOn, ReadFails, ReaderStops,
        readerVars, vars
    <2> QED
      BY <2>1, Zenon DEF MQ!vars
  <1> QED
    BY <1>1, <1>2, ReadHeaderMaps, HandOverMaps, Zenon DEF Next, MQ!Next

(***************************************************************************)
(* The connection is the queue of whole messages that LLRPSession takes it *)
(* for: handleIncoming hands them over in order, none twice, a reply with  *)
(* all of its payload, a handler's with the beginning of its own (reader.go, *)
(* handleOutgoing, handleIncoming and passToHandler).                      *)
(***************************************************************************)
THEOREM ConnectionIsAQueue == Spec => ImplementsQueue
  <1>1. Init => MQ!Init
    <2>1. <<>> \o <<>> = <<>>
      OBVIOUS
    <2> QED
      BY <2>1, Zenon DEF Init, MQ!Init, NothingYet, MQ!NothingYet
  <1>2. FramingInv /\ [Next]_vars => [MQ!Next]_(MQ!vars)
    BY FramingMaps
  <1> QED
    BY <1>1, <1>2, FramingCorrect, PTL DEF Spec, ImplementsQueue, MQ!Spec

-----------------------------------------------------------------------------
(* The fields of messages and parameters. *)

\* An array of whole elements is as long as its count says.
LEMMA WholeElements ==
  ASSUME NEW n \in Nat \ {0}, NEW len \in Nat, len % n = 0
  PROVE  len \div n \in Nat /\ (len \div n) * n = len
  <1> DEFINE q == len \div n
             r == len % n
  <1>1. q \in Int /\ r \in Int /\ len = n * q + r
    BY SMT
  <1>2. r = 0
    OBVIOUS
  <1> HIDE DEF q, r
  <1>3. n * q = len /\ q * n = len
    BY <1>1, <1>2
  <1>4. q >= 0
    <2>1. SUFFICES ASSUME q <= 0 - 1 PROVE FALSE
      BY <1>1
    <2>2. n * q <= n * (0 - 1)
      BY <1>1, <2>1
    <2> QED
      BY <1>3, <2>2
  <1> QED
    BY <1>1, <1>3, <1>4 DEF q

\* Go's count of the bytes that bits fill is their number, rounded up.
LEMMA BytesOfBitsRoundsUp ==
  ASSUME NEW n \in Nat
  PROVE  BytesOfBits(n) \in Nat /\ BytesOfBits(n) = (n + 7) \div 8
  <1> DEFINE q == (n - 1) \div 8
             r == (n - 1) % 8
             p == (n + 7) \div 8
             s == (n + 7) % 8
  <1>1. q \in Int /\ r \in 0 .. 7 /\ n - 1 = 8 * q + r
    BY SMT
  <1>2. p \in Int /\ s \in 0 .. 7 /\ n + 7 = 8 * p + s
    BY SMT
  <1> HIDE DEF q, r, p, s
  <1>3. 1 + q >= 0 /\ 1 + q = p
    BY <1>1, <1>2
  <1> QED
    BY <1>1, <1>3 DEF BytesOfBits, q, p

\* The bytes of a bit array are as many as Go takes them to be.
LEMMA BitArray ==
  ASSUME NEW x, FitsBits(x)
  PROVE  /\ x = [bits |-> x.bits, bytes |-> x.bytes]
         /\ x.bits \in Nat /\ x.bits < TwoTo16 /\ x.bytes \in Seq(Byte)
         /\ Len(x.bytes) = BytesOfBits(x.bits) /\ BytesOfBits(x.bits) \in Nat
  BY BytesOfBitsRoundsUp DEF FitsBits

\* A 16-bit count and what it counts.
LEMMA CountedType ==
  ASSUME NEW n \in Nat, n < TwoTo16, NEW y \in Seq(Byte)
  PROVE  U16(n) \o y \in Seq(Byte) /\ Len(U16(n) \o y) = 2 + Len(y)
  <1>1. U16(n) \in Seq(Byte) /\ Len(U16(n)) = 2
    BY U16Type
  <1> DEFINE u == U16(n)
  <1> HIDE DEF u
  <1> QED
    BY <1>1, TwoParts DEF u

\* It is read as it was written.
Counted(d, n, y, more) ==
  /\ Len(d) = 2 + Len(y) + Len(more) /\ Uint16(d) = n
  /\ SubSeq(d, 3, Len(y) + 2) = y
  /\ From(d, Len(y) + 2 + 1) = more

LEMMA CountedRead ==
  ASSUME NEW n \in Nat, n < TwoTo16, NEW y \in Seq(Byte), NEW more \in Seq(Byte),
         NEW d, d = (U16(n) \o y) \o more
  PROVE  Counted(d, n, y, more)
  <1> DEFINE u == U16(n)
             ym == y \o more
             uy == u \o y
  <1>1. u \in Seq(Byte) /\ Len(u) = 2
    BY U16Type
  <1>2. ym \in Seq(Byte) /\ Len(ym) = Len(y) + Len(more)
    BY TwoParts
  <1>3. uy \in Seq(Byte) /\ Len(uy) = 2 + Len(y)
    BY CountedType
  <1>4. d = u \o ym
    <2>1. Associate(u, y, more)
      BY <1>1, Associates, Zenon
    <2> QED
      BY <2>1, Zenon DEF Associate
  <1>5. d = uy \o more
    OBVIOUS
  <1> HIDE DEF u, ym, uy
  <1>6. Len(d) = 2 + Len(y) + Len(more) /\ d \in Seq(Byte)
    BY <1>3, <1>5, TwoParts
  <1>7. d[1] = u[1] /\ d[2] = u[2]
    <2>1. Consists(u \o ym, u, ym, Len(u) + Len(ym))
      BY <1>1, <1>2, TwoParts
    <2>2. 1 \in 1 .. Len(u) + Len(ym) /\ 2 \in 1 .. Len(u) + Len(ym) /\ 1 <= Len(u) /\ 2 <= Len(u)
      BY <1>1, <1>2
    <2> QED
      BY <1>4, <2>1, <2>2, Zenon DEF Consists
  <1>8. Uint16(d) = n
    BY <1>7, Uint16OfU16 DEF u
  <1>9. From(d, Len(y) + 2 + 1) = more
    <2>1. From(d, Len(uy) + 1) = more
      BY <1>3, <1>5, AllOfFirst
    <2>2. Len(y) + 2 + 1 = Len(uy) + 1
      BY <1>3
    <2> QED
      BY <2>1, <2>2, Zenon
  <1>10. SubSeq(d, 3, Len(y) + 2) = y
    <2>1. Consists(d, uy, more, Len(uy) + Len(more))
      BY <1>3, <1>5, TwoParts
    <2>2. Consists(uy, u, y, Len(u) + Len(y))
      BY <1>1, TwoParts DEF uy
    <2> DEFINE z == SubSeq(d, 3, Len(y) + 2)
    <2>3. z \in Seq(Byte) /\ Len(z) = Len(y) /\ \A k \in 1 .. Len(y) : z[k] = d[k + 2]
      BY <1>6, SMT
    <2> HIDE DEF z
    <2>4. ASSUME NEW k \in 1 .. Len(y) PROVE z[k] = y[k]
      <3>1. /\ k + 2 \in 1 .. Len(uy) + Len(more) /\ k + 2 <= Len(uy)
            /\ k + 2 \in 1 .. Len(u) + Len(y) /\ ~(k + 2 <= Len(u)) /\ (k + 2) - Len(u) = k
        BY <1>1, <1>3
      <3>2. d[k + 2] = uy[k + 2]
        BY <2>1, <3>1, Zenon DEF Consists
      <3>3. uy[k + 2] = y[k]
        BY <2>2, <3>1, Zenon DEF Consists
      <3> QED
        BY <2>3, <3>2, <3>3
    <2>5. z = y
      BY <2>3, <2>4, SameElements
    <2> QED
      BY <2>5 DEF z
  <1> QED
    BY <1>6, <1>8, <1>9, <1>10, Zenon DEF Counted

\* The bytes of one field, and how many there are.
LEMMA EncodedField ==
  ASSUME NEW f, IsField(f), NEW x, Fits(f, x)
  PROVE  /\ EncodeField(f, x) \in Seq(Byte)
         /\ FixedSizeOf(f) \in Nat /\ VariableSize(f, x) \in Nat
         /\ Len(EncodeField(f, x)) = FixedSizeOf(f) + VariableSize(f, x)
  <1>1. CASE f.k = "fixed"
    <2>1. FitsFixed(f, x) /\ f.n \in Nat
      BY <1>1 DEF Fits, IsField
    <2>2. EncodeField(f, x) = x
      BY <1>1, <2>1 DEF EncodeField, FitsFixed
    <2>3. FixedSizeOf(f) = f.n /\ VariableSize(f, x) = 0
      BY <1>1 DEF FixedSizeOf, VariableSize
    <2> QED
      BY <2>1, <2>2, <2>3 DEF FitsFixed
  <1>2. CASE f.k = "array"
    <2>1. FitsArray(f, x) /\ f.n \in Nat \ {0}
      BY <1>2 DEF Fits, IsField
    <2>2. x \in Seq(Byte) /\ Len(x) \in Nat /\ Len(x) \div f.n \in Nat /\ Len(x) \div f.n < TwoTo16
      BY <2>1, WholeElements DEF FitsArray
    <2>3. EncodeField(f, x) = U16(Len(x) \div f.n) \o x
      BY <1>2 DEF EncodeField
    <2>4. FixedSizeOf(f) = 2 /\ VariableSize(f, x) = Len(x)
      BY <1>2 DEF FixedSizeOf, VariableSize
    <2> QED
      BY <2>2, <2>3, <2>4, CountedType
  <1>3. CASE f.k = "bits"
    <2>1. FitsBits(x)
      BY <1>3 DEF Fits
    <2>2. EncodeField(f, x) = U16(x.bits) \o x.bytes
      BY <1>3 DEF EncodeField
    <2>3. FixedSizeOf(f) = 2 /\ VariableSize(f, x) = BytesOfBits(x.bits)
      BY <1>3 DEF FixedSizeOf, VariableSize
    <2>4. /\ x.bits \in Nat /\ x.bits < TwoTo16 /\ x.bytes \in Seq(Byte)
          /\ Len(x.bytes) = BytesOfBits(x.bits) /\ BytesOfBits(x.bits) \in Nat
      BY <2>1, BitArray
    <2>5. U16(x.bits) \o x.bytes \in Seq(Byte) /\ Len(U16(x.bits) \o x.bytes) = 2 + Len(x.bytes)
      BY <2>4, CountedType, Zenon
    <2>6. /\ EncodeField(f, x) \in Seq(Byte)
          /\ Len(EncodeField(f, x)) = FixedSizeOf(f) + VariableSize(f, x)
      <3>1. FixedSizeOf(f) + VariableSize(f, x) = 2 + Len(x.bytes)
        BY <2>3, <2>4, Zenon
      <3> QED
        BY <2>2, <2>5, <3>1, Zenon
    <2>7. FixedSizeOf(f) \in Nat /\ VariableSize(f, x) \in Nat
      BY <2>3, <2>4
    <2> QED
      BY <2>6, <2>7, Zenon
  <1>4. CASE f.k = "rest"
    <2>1. x \in Seq(Byte) /\ Len(x) \in Nat
      BY <1>4 DEF Fits
    <2>2. EncodeField(f, x) = x /\ FixedSizeOf(f) = 0 /\ VariableSize(f, x) = Len(x)
      BY <1>4 DEF EncodeField, FixedSizeOf, VariableSize
    <2> QED
      BY <2>1, <2>2
  <1> QED
    BY <1>1, <1>2, <1>3, <1>4 DEF IsField

\* A read under way.
UnderWay(bytes, xs, subs) == [st |-> "ok", data |-> bytes, fields |-> xs, subs |-> subs]

\* What it is after it took n bytes for x.
TakesOn(bytes, xs, subs, n, x) ==
  Took(UnderWay(bytes, xs, subs), n, x) = UnderWay(From(bytes, n + 1), Append(xs, x), subs)

LEMMA TookAsExpected ==
  ASSUME NEW bytes, NEW xs, NEW subs, NEW n, NEW x
  PROVE  TakesOn(bytes, xs, subs, n, x)
  <1> DEFINE r == UnderWay(bytes, xs, subs)
             fs == Append(xs, x)
             ahead == From(bytes, n + 1)
             q == UnderWay(bytes, fs, subs)
  <1>1. r.fields = xs /\ r.data = bytes
    BY SMT DEF UnderWay
  <1>2. Took(r, n, x) = [[r EXCEPT !.fields = fs] EXCEPT !.data = ahead]
    <2> HIDE DEF r
    <2>1. Took(r, n, x) = [r EXCEPT !.fields = Append(r.fields, x), !.data = From(r.data, n + 1)]
      BY Zenon DEF Took
    <2> QED
      BY <1>1, <2>1, Zenon
  <1> HIDE DEF fs, ahead
  <1>3. [r EXCEPT !.fields = fs] = q
    BY SMT DEF UnderWay
  <1>4. [q EXCEPT !.data = ahead] = UnderWay(ahead, fs, subs)
    BY SMT DEF UnderWay
  <1> QED
    BY <1>2, <1>3, <1>4, Zenon DEF TakesOn, fs, ahead

\* A field that was written is read, and no more than it.
IsRead(f, x, bytes, more, xs, subs) ==
  DecodeField(UnderWay(bytes, xs, subs), f) = UnderWay(more, Append(xs, x), subs)

LEMMA FieldIsRead ==
  ASSUME NEW f, IsField(f), NEW x, Fits(f, x), NEW more \in Seq(Byte),
         f.k = "rest" => more = <<>>, NEW xs, NEW subs, NEW bytes,
         bytes = EncodeField(f, x) \o more
  PROVE  IsRead(f, x, bytes, more, xs, subs)
  <1> DEFINE r == UnderWay(bytes, xs, subs)
  <1>1. r.st = "ok" /\ r.data = bytes
    BY DEF UnderWay
  <1> HIDE DEF r
  <1>2. CASE f.k = "fixed"
    <2>1. FitsFixed(f, x) /\ f.n \in Nat
      BY <1>2 DEF Fits, IsField
    <2>2. bytes = x \o more /\ x \in Seq(Byte) /\ Len(x) = f.n
      BY <1>2, <2>1 DEF EncodeField, FitsFixed
    <2>3. /\ Len(bytes) = f.n + Len(more) /\ SubSeq(bytes, 1, f.n) = x
          /\ From(bytes, f.n + 1) = more
      <3>1. Len(x \o more) = Len(x) + Len(more)
        BY <2>2, TwoParts
      <3>2. SubSeq(x \o more, 1, Len(x)) = x /\ From(x \o more, Len(x) + 1) = more
        BY <2>2, AllOfFirst
      <3> QED
        BY <2>2, <3>1, <3>2, Zenon
    <2>4. ~(Len(bytes) < f.n)
      BY <2>1, <2>3
    <2>5. DecodeField(r, f) = Took(r, f.n, MaskedBytes(f.mask, SubSeq(bytes, 1, f.n)))
      BY <1>1, <1>2, <2>4, Zenon DEF DecodeField
    <2>6. DecodeField(r, f) = Took(r, f.n, x)
      BY <2>1, <2>3, <2>5, Zenon DEF FitsFixed
    <2> QED
      <3>1. TakesOn(bytes, xs, subs, f.n, x)
        BY TookAsExpected, Zenon
      <3> QED
        BY <2>3, <2>6, <3>1, Zenon DEF TakesOn, IsRead, r
  <1>3. CASE f.k = "rest"
    <2>1. bytes = x \o more /\ more = <<>> /\ x \in Seq(Byte)
      BY <1>3 DEF Fits, EncodeField
    <2>2. bytes = x
      BY <2>1
    <2>3. From(bytes, Len(bytes) + 1) = more
      <3>1. From(x \o more, Len(x) + 1) = more
        BY <2>1, AllOfFirst
      <3> QED
        BY <2>1, <2>2, <3>1, Zenon
    <2>4. DecodeField(r, f) = Took(r, Len(bytes), bytes)
      BY <1>1, <1>3, Zenon DEF DecodeField
    <2> QED
      <3>1. TakesOn(bytes, xs, subs, Len(bytes), bytes)
        BY TookAsExpected, Zenon
      <3> QED
        BY <2>2, <2>3, <2>4, <3>1, Zenon DEF TakesOn, IsRead, r
  <1>4. CASE f.k = "array"
    <2> DEFINE c == Len(x) \div f.n
    <2>1. /\ x \in Seq(Byte) /\ c \in Nat /\ c < TwoTo16 /\ c * f.n = Len(x) /\ Len(x) \in Nat
          /\ bytes = (U16(c) \o x) \o more
      <3>1. FitsArray(f, x) /\ f.n \in Nat \ {0}
        BY <1>4 DEF Fits, IsField
      <3>2. x \in Seq(Byte) /\ Len(x) \in Nat
        BY <3>1 DEF FitsArray
      <3>3. c \in Nat /\ c * f.n = Len(x) /\ c < TwoTo16
        BY <3>1, <3>2, WholeElements DEF FitsArray
      <3>4. bytes = (U16(c) \o x) \o more
        BY <1>4 DEF EncodeField
      <3> QED
        BY <3>2, <3>3, <3>4
    <2> HIDE DEF c
    <2>2. /\ Len(bytes) = 2 + Len(x) + Len(more) /\ Uint16(bytes) = c
          /\ SubSeq(bytes, 3, Len(x) + 2) = x /\ From(bytes, Len(x) + 2 + 1) = more
      <3>1. Counted(bytes, c, x, more)
        BY <2>1, CountedRead, Zenon
      <3> QED
        BY <3>1, Zenon DEF Counted
    <2>3. ~(Len(bytes) < 2) /\ ~(Uint16(bytes) * f.n > Len(bytes) - 2)
      BY <2>1, <2>2
    <2>4. DecodeField(r, f) = Took(r, Uint16(bytes) * f.n + 2,
                                   SubSeq(bytes, 3, Uint16(bytes) * f.n + 2))
      BY <1>1, <1>4, <2>3, Zenon DEF DecodeField
    <2>5. DecodeField(r, f) = Took(r, Len(x) + 2, x)
      BY <2>1, <2>2, <2>4, Zenon
    <2> QED
      <3>1. TakesOn(bytes, xs, subs, Len(x) + 2, x)
        BY TookAsExpected, Zenon
      <3> QED
        BY <2>2, <2>5, <3>1, Zenon DEF TakesOn, IsRead, r
  <1>5. CASE f.k = "bits"
    <2> DEFINE c == x.bits
               y == x.bytes
    <2>1. /\ y \in Seq(Byte) /\ c \in Nat /\ c < TwoTo16 /\ Len(y) = BytesOfBits(c)
          /\ bytes = (U16(c) \o y) \o more /\ x = [bits |-> c, bytes |-> y] /\ Len(y) \in Nat
      <3>1. FitsBits(x)
        BY <1>5 DEF Fits
      <3>2. EncodeField(f, x) = U16(x.bits) \o x.bytes
        BY <1>5 DEF EncodeField
      <3> QED
        BY <3>1, <3>2, BitArray
    <2> HIDE DEF c, y
    <2>2. /\ Len(bytes) = 2 + Len(y) + Len(more) /\ Uint16(bytes) = c
          /\ SubSeq(bytes, 3, Len(y) + 2) = y /\ From(bytes, Len(y) + 2 + 1) = more
      <3>1. Counted(bytes, c, y, more)
        BY <2>1, CountedRead, Zenon
      <3> QED
        BY <3>1, Zenon DEF Counted
    <2>3. ~(Len(bytes) < 2) /\ ~(BytesOfBits(Uint16(bytes)) > Len(bytes) - 2)
      <3>1. BytesOfBits(Uint16(bytes)) = Len(y)
        BY <2>1, <2>2, Zenon
      <3> QED
        BY <2>1, <2>2, <3>1
    <2>4. DecodeField(r, f) =
            Took(r, BytesOfBits(Uint16(bytes)) + 2,
                 [bits |-> Uint16(bytes),
                  bytes |-> SubSeq(bytes, 3, BytesOfBits(Uint16(bytes)) + 2)])
      BY <1>1, <1>5, <2>3, Zenon DEF DecodeField
    <2>5. DecodeField(r, f) = Took(r, Len(y) + 2, x)
      BY <2>1, <2>2, <2>4, Zenon
    <2> QED
      <3>1. TakesOn(bytes, xs, subs, Len(y) + 2, x)
        BY TookAsExpected, Zenon
      <3> QED
        BY <2>2, <2>5, <3>1, Zenon DEF TakesOn, IsRead, r
  <1> QED
    BY <1>2, <1>3, <1>4, <1>5 DEF IsField, r

-----------------------------------------------------------------------------
(* All fields of a message or parameter. *)

\* What is left of s from i on is s[i] and what is left from i + 1 on.
LEMMA FromStep ==
  ASSUME NEW S, NEW s \in Seq(S), NEW i \in 1 .. Len(s)
  PROVE  /\ From(s, i) \in Seq(S) /\ From(s, i) # <<>>
         /\ Head(From(s, i)) = s[i] /\ Tail(From(s, i)) = From(s, i + 1)
  <1> DEFINE a == From(s, i)
             b == From(s, i + 1)
             t == Tail(a)
  <1>1. /\ i \in 1 .. Len(s) + 1 /\ i + 1 \in 1 .. Len(s) + 1 /\ Len(s) \in Nat /\ i \in Nat
        /\ Len(s) - i + 1 >= 1 /\ Len(s) - (i + 1) + 1 = Len(s) - i
    OBVIOUS
  <1>2. /\ a \in Seq(S) /\ Len(a) = Len(s) - i + 1
        /\ \A k \in 1 .. Len(s) - i + 1 : a[k] = s[i + k - 1]
    BY <1>1, FromProperties
  <1>3. /\ b \in Seq(S) /\ Len(b) = Len(s) - i
        /\ \A k \in 1 .. Len(s) - i : b[k] = s[(i + 1) + k - 1]
    <2>1. /\ b \in Seq(S) /\ Len(b) = Len(s) - (i + 1) + 1
          /\ \A k \in 1 .. Len(s) - (i + 1) + 1 : b[k] = s[(i + 1) + k - 1]
      BY <1>1, FromProperties
    <2> HIDE DEF b
    <2> QED
      BY <1>1, <2>1, Zenon
  <1> HIDE DEF a, b
  <1>4. a # <<>> /\ Head(a) = a[1]
    BY <1>1, <1>2
  <1>5. /\ t \in Seq(S) /\ Len(t) = Len(s) - i
        /\ \A k \in 1 .. Len(s) - i : t[k] = a[k + 1]
    BY <1>1, <1>2, <1>4
  <1> HIDE DEF t
  <1>6. a[1] = s[i]
    <2>1. 1 \in 1 .. Len(s) - i + 1 /\ i + 1 - 1 = i
      BY <1>1
    <2> QED
      BY <1>2, <2>1
  <1>7. ASSUME NEW k \in 1 .. Len(t) PROVE t[k] = b[k]
    <2>1. /\ k \in 1 .. Len(s) - i /\ k + 1 \in 1 .. Len(s) - i + 1
          /\ i + (k + 1) - 1 = (i + 1) + k - 1
      BY <1>1, <1>5
    <2>2. t[k] = a[k + 1] /\ a[k + 1] = s[i + (k + 1) - 1] /\ b[k] = s[(i + 1) + k - 1]
      BY <1>2, <1>3, <1>5, <2>1
    <2> QED
      BY <2>1, <2>2
  <1>8. t = b
    BY <1>3, <1>5, <1>7, SameElements
  <1> QED
    BY <1>2, <1>4, <1>6, <1>8 DEF a, b, t

\* The first i elements are the first i - 1 and one more.
LEMMA FirstStep ==
  ASSUME NEW S, NEW s \in Seq(S), NEW i \in 1 .. Len(s)
  PROVE  Append(SubSeq(s, 1, i - 1), s[i]) = SubSeq(s, 1, i)
  <1> DEFINE a == SubSeq(s, 1, i - 1)
             b == SubSeq(s, 1, i)
             t == Append(a, s[i])
  <1>1. i - 1 \in 0 .. Len(s) /\ i \in 0 .. Len(s) /\ i \in Nat /\ s[i] \in S
    OBVIOUS
  <1>2. a \in Seq(S) /\ Len(a) = i - 1 /\ \A k \in 1 .. i - 1 : a[k] = s[k]
    BY <1>1, FirstProperties
  <1>3. b \in Seq(S) /\ Len(b) = i /\ \A k \in 1 .. i : b[k] = s[k]
    BY <1>1, FirstProperties
  <1> HIDE DEF a, b
  <1>4. /\ t \in Seq(S) /\ Len(t) = i /\ t[i] = s[i]
        /\ \A k \in 1 .. i - 1 : t[k] = a[k]
    BY <1>1, <1>2
  <1> HIDE DEF t
  <1>5. ASSUME NEW k \in 1 .. Len(t) PROVE t[k] = b[k]
    <2>1. k \in 1 .. i /\ (k = i \/ k \in 1 .. i - 1)
      BY <1>1, <1>4
    <2> QED
      BY <1>2, <1>3, <1>4, <2>1
  <1>6. t = b
    BY <1>3, <1>4, <1>5, SameElements
  <1> QED
    BY <1>6 DEF a, b, t

\* What the fields turn a read into, one after the other.
Decodes(h, start, fs, N) ==
  h[0] = start /\ \A i \in 1 .. N : h[i] = DecodeField(h[i - 1], fs[i])

\* There is only one way.
LEMMA DecodingIsUnique ==
  ASSUME NEW N \in Nat, NEW start, NEW fs, NEW f, NEW g,
         Decodes(f, start, fs, N), Decodes(g, start, fs, N)
  PROVE  f[N] = g[N]
  <1> DEFINE A == {i \in Nat : i <= N => f[i] = g[i]}
  <1>1. 0 \in A
    BY DEF Decodes
  <1>2. ASSUME NEW n \in Nat, n \in A PROVE n + 1 \in A
    <2>1. SUFFICES ASSUME n + 1 <= N PROVE f[n + 1] = g[n + 1]
      OBVIOUS
    <2>2. f[n] = g[n]
      BY <1>2, <2>1
    <2>3. n + 1 \in 1 .. N /\ (n + 1) - 1 = n
      BY <2>1
    <2>4. f[n + 1] = DecodeField(f[n], fs[n + 1]) /\ g[n + 1] = DecodeField(g[n], fs[n + 1])
      BY <2>3 DEF Decodes
    <2> QED
      BY <2>2, <2>4
  <1> HIDE DEF A
  <1>3. N \in A
    BY <1>1, <1>2, NaturalInduction
  <1> QED
    BY <1>3 DEF A

\* DecodeFields is the last of these reads.
LEMMA DecodeFieldsIs ==
  ASSUME NEW F, NEW fs \in Seq(F), NEW start, NEW g, Decodes(g, start, fs, Len(fs))
  PROVE  DecodeFields(start, fs) = g[Len(fs)]
  <1> DEFINE N == Len(fs)
             Eq(f) == f = [i \in 0 .. N |-> IF i = 0 THEN start ELSE DecodeField(f[i - 1], fs[i])]
             h == CHOOSE f : Eq(f)
             g0 == [i \in 0 .. N |-> g[i]]
  <1>1. N \in Nat
    OBVIOUS
  <1>2. DecodeFields(start, fs) = h[N]
    BY Zenon DEF DecodeFields
  <1> HIDE DEF N
  <1>3. Eq(g0)
    <2>1. ASSUME NEW i \in 0 .. N
          PROVE  g0[i] = IF i = 0 THEN start ELSE DecodeField(g0[i - 1], fs[i])
      <3>1. CASE i = 0
        BY <3>1 DEF Decodes
      <3>2. CASE i # 0
        <4>1. i \in 1 .. N /\ i - 1 \in 0 .. N
          BY <1>1, <3>2
        <4>2. g[i] = DecodeField(g[i - 1], fs[i])
          BY <4>1 DEF Decodes, N
        <4>3. g0[i] = g[i] /\ g0[i - 1] = g[i - 1]
          BY <4>1
        <4> QED
          BY <3>2, <4>2, <4>3
      <3> QED
        BY <3>1, <3>2
    <2>2. g0 = [i \in 0 .. N |-> g0[i]]
      OBVIOUS
    <2> HIDE DEF g0
    <2> QED
      BY <2>1, <2>2
  <1>4. Eq(h)
    <2> HIDE DEF Eq, g0
    <2> QED
      BY <1>3
  <1> HIDE DEF h, g0
  <1>5. ASSUME NEW i \in 0 .. N
        PROVE  h[i] = IF i = 0 THEN start ELSE DecodeField(h[i - 1], fs[i])
    BY <1>4
  <1>6. Decodes(h, start, fs, N)
    <2>1. h[0] = start
      <3>1. 0 \in 0 .. N
        BY <1>1
      <3> QED
        BY <1>5, <3>1
    <2>2. ASSUME NEW i \in 1 .. N PROVE h[i] = DecodeField(h[i - 1], fs[i])
      <3>1. i \in 0 .. N /\ i # 0
        BY <1>1
      <3> QED
        BY <1>5, <3>1
    <2> QED
      BY <2>1, <2>2 DEF Decodes
  <1>7. h[N] = g[N]
    <2>1. Decodes(g, start, fs, N)
      BY DEF N
    <2> QED
      BY <1>1, <1>6, <2>1, DecodingIsUnique
  <1> QED
    BY <1>2, <1>7 DEF N

\* The bytes of each field.
LEMMA EncodedType ==
  ASSUME NEW F, NEW fs \in Seq(F), NEW X, NEW xs \in Seq(X), AllFit(fs, xs)
  PROVE  /\ Encoded(fs, xs) \in Seq(Seq(Byte)) /\ Len(Encoded(fs, xs)) = Len(fs)
         /\ \A i \in 1 .. Len(fs) : Encoded(fs, xs)[i] = EncodeField(fs[i], xs[i])
  <1> DEFINE N == Len(fs)
             enc == [i \in 1 .. N |-> EncodeField(fs[i], xs[i])]
  <1>1. N \in Nat /\ DOMAIN fs = 1 .. N
    OBVIOUS
  <1>2. Encoded(fs, xs) = enc
    BY <1>1, Zenon DEF Encoded
  <1>3. \A i \in 1 .. N : EncodeField(fs[i], xs[i]) \in Seq(Byte)
    BY EncodedField DEF AllFit
  <1>4. enc \in [1 .. N -> Seq(Byte)]
    <2> HIDE DEF N
    <2> QED
      BY <1>3
  <1>5. \A i \in 1 .. N : enc[i] = EncodeField(fs[i], xs[i])
    OBVIOUS
  <1> HIDE DEF enc
  <1>6. enc \in Seq(Seq(Byte)) /\ Len(enc) = N
    BY <1>1, <1>4
  <1> QED
    BY <1>2, <1>5, <1>6

(***************************************************************************)
(* Any values that fit any fields are read back as they were written, and  *)
(* what follows them, the parameters in this one, is left for what reads   *)
(* those. The lists of fields of all encoders and decoders are instances.  *)
(***************************************************************************)
THEOREM FieldsRoundTrip ==
  ASSUME NEW F, NEW fs \in Seq(F), NEW X, NEW xs \in Seq(X), AllFit(fs, xs),
         NEW more \in Seq(Byte), RestIsLast(fs, more), NEW subs
  PROVE  DecodeFields(UnderWay(EncodeEach(fs, xs) \o more, <<>>, subs), fs)
           = UnderWay(more, xs, subs)
  <1> DEFINE N == Len(fs)
             enc == Encoded(fs, xs)
             ahead(i) == FlattenSeq(From(enc, i + 1)) \o more
             start == UnderWay(EncodeEach(fs, xs) \o more, <<>>, subs)
             g == [i \in 0 .. N |-> UnderWay(ahead(i), SubSeq(xs, 1, i), subs)]
  <1>1. /\ N \in Nat /\ enc \in Seq(Seq(Byte)) /\ Len(enc) = N
        /\ \A i \in 1 .. N : enc[i] = EncodeField(fs[i], xs[i])
    BY EncodedType
  <1>2. Len(xs) = N /\ \A i \in 1 .. N : IsField(fs[i]) /\ Fits(fs[i], xs[i])
    BY DEF AllFit
  <1>3. EncodeEach(fs, xs) = FlattenSeq(enc)
    BY Zenon DEF EncodeEach
  <1> HIDE DEF enc
  <1>4. \A i \in 0 .. N : From(enc, i + 1) \in Seq(Seq(Byte)) /\ FlattenSeq(From(enc, i + 1)) \in Seq(Byte)
    <2>1. SUFFICES ASSUME NEW i \in 0 .. N
                   PROVE  From(enc, i + 1) \in Seq(Seq(Byte)) /\ FlattenSeq(From(enc, i + 1)) \in Seq(Byte)
      OBVIOUS
    <2>2. i + 1 \in 1 .. Len(enc) + 1
      BY <1>1
    <2>3. From(enc, i + 1) \in Seq(Seq(Byte))
      BY <1>1, <2>2, FromProperties
    <2> QED
      BY <2>3, FlattenType
  <1>5. From(enc, N + 1) = <<>>
    <2>1. N + 1 \in 1 .. Len(enc) + 1 /\ Len(enc) - (N + 1) + 1 = 0
      BY <1>1
    <2>2. From(enc, N + 1) \in Seq(Seq(Byte)) /\ Len(From(enc, N + 1)) = 0
      BY <1>1, <2>1, FromProperties
    <2> QED
      BY <2>2
  <1>6. ahead(N) = more
    <2>1. <<>> \o more = more
      OBVIOUS
    <2> QED
      BY <1>5, <2>1, FlattenOfNone, Zenon
  <1> HIDE DEF N
  <1>7. ASSUME NEW i \in 1 .. N
        PROVE  /\ ahead(i - 1) = EncodeField(fs[i], xs[i]) \o ahead(i)
               /\ ahead(i) \in Seq(Byte)
    <2> DEFINE w == FlattenSeq(From(enc, i + 1))
    <2>1. i \in 1 .. Len(enc) /\ i \in 0 .. N /\ (i - 1) + 1 = i
      BY <1>1
    <2>2. /\ From(enc, i) \in Seq(Seq(Byte)) /\ From(enc, i) # <<>>
          /\ Head(From(enc, i)) = enc[i] /\ Tail(From(enc, i)) = From(enc, i + 1)
      BY <1>1, <2>1, FromStep
    <2>3. FlattenSeq(From(enc, i)) = Head(From(enc, i)) \o FlattenSeq(Tail(From(enc, i)))
      BY <2>2, FlattenTail
    <2>4. FlattenSeq(From(enc, i)) = enc[i] \o w
      BY <2>2, <2>3, Zenon
    <2>5. enc[i] \in Seq(Byte) /\ w \in Seq(Byte)
      BY <1>1, <1>4, <2>1
    <2> HIDE DEF w
    <2>6. Associate(enc[i], w, more)
      BY <2>5, Associates, Zenon
    <2>7. FlattenSeq(From(enc, i)) \o more = enc[i] \o (w \o more)
      BY <2>4, <2>6, Zenon DEF Associate
    <2>8. w \o more \in Seq(Byte)
      BY <2>5
    <2>9. ahead(i) = w \o more /\ ahead(i - 1) = FlattenSeq(From(enc, i)) \o more
      BY <2>1, Zenon DEF w
    <2> QED
      BY <1>1, <2>7, <2>8, <2>9, Zenon
  <1>8. g[0] = start
    <2>1. 0 \in 0 .. N /\ 0 + 1 = 1
      BY <1>1
    <2>2. From(enc, 1) = enc
      BY <1>1 DEF From
    <2>3. SubSeq(xs, 1, 0) = <<>>
      OBVIOUS
    <2>4. ahead(0) = EncodeEach(fs, xs) \o more
      BY <1>3, <2>1, <2>2, Zenon
    <2> HIDE DEF ahead
    <2>5. g[0] = UnderWay(ahead(0), SubSeq(xs, 1, 0), subs)
      BY <2>1, Zenon
    <2> QED
      BY <2>3, <2>4, <2>5, Zenon
  <1>9. ASSUME NEW i \in 1 .. N PROVE g[i] = DecodeField(g[i - 1], fs[i])
    <2> DEFINE bytes == ahead(i - 1)
               then == ahead(i)
               before == SubSeq(xs, 1, i - 1)
    <2>1. i \in 0 .. N /\ i - 1 \in 0 .. N
      BY <1>1
    <2>2. IsField(fs[i]) /\ Fits(fs[i], xs[i])
      BY <1>2
    <2>3. bytes = EncodeField(fs[i], xs[i]) \o then /\ then \in Seq(Byte)
      BY <1>7
    <2>4. fs[i].k = "rest" => then = <<>>
      <3>1. fs[i].k = "rest" => i = N /\ more = <<>>
        BY DEF RestIsLast, N
      <3> QED
        BY <1>6, <3>1, Zenon
    <2>5. Append(before, xs[i]) = SubSeq(xs, 1, i)
      <3>1. i \in 1 .. Len(xs)
        BY <1>2
      <3> QED
        BY <3>1, FirstStep
    <2>6. g[i - 1] = UnderWay(bytes, before, subs) /\ g[i] = UnderWay(then, SubSeq(xs, 1, i), subs)
      <3> HIDE DEF ahead
      <3> QED
        BY <2>1, Zenon
    <2> HIDE DEF bytes, then, before, g, ahead
    <2>7. IsRead(fs[i], xs[i], bytes, then, before, subs)
      BY <2>2, <2>3, <2>4, FieldIsRead, Zenon
    <2> QED
      BY <2>5, <2>6, <2>7, Zenon DEF IsRead
  <1>10. g[N] = UnderWay(more, xs, subs)
    <2>1. N \in 0 .. N
      BY <1>1
    <2>2. SubSeq(xs, 1, N) = xs
      BY <1>2
    <2>3. g[N] = UnderWay(ahead(N), SubSeq(xs, 1, N), subs)
      <3> HIDE DEF ahead
      <3> QED
        BY <2>1, Zenon
    <2> QED
      BY <1>6, <2>2, <2>3, Zenon
  <1> HIDE DEF g, start
  <1>11. Decodes(g, start, fs, N)
    BY <1>8, <1>9, Zenon DEF Decodes
  <1>12. DecodeFields(start, fs) = g[N]
    BY <1>11, DecodeFieldsIs DEF N
  <1> QED
    BY <1>10, <1>12, Zenon DEF start

-----------------------------------------------------------------------------
(* Sizes. *)

\* The sums of the first 0, 1, ... N numbers.
SumsUp(g, ns, N) ==
  g[0] = 0 /\ \A i \in 1 .. N : g[i] = g[i - 1] + ns[i]
SumsTo(g, ns) == SumsUp(g, ns, Len(ns)) /\ SumOf(ns) = g[Len(ns)]

\* SumOf is the last of them.
LEMMA SumOfIsTheSum ==
  ASSUME NEW ns \in Seq(Nat)
  PROVE  \E g : SumsTo(g, ns)
  <1> DEFINE N == Len(ns)
             Eq(f) == f = [i \in 0 .. N |-> IF i = 0 THEN 0 ELSE f[i - 1] + ns[i]]
             h == CHOOSE f : Eq(f)
             term == [i \in Nat |-> IF i + 1 \in 1 .. N THEN ns[i + 1] ELSE 0]
             step == [i \in Nat |-> [x \in Nat |-> x + term[i]]]
  <1>1. N \in Nat /\ \A i \in 1 .. N : ns[i] \in Nat
    OBVIOUS
  <1>2. SumOf(ns) = h[N]
    BY Zenon DEF SumOf
  <1> HIDE DEF N
  <1>3. term \in [Nat -> Nat]
    BY <1>1
  <1>4. step \in [Nat -> [Nat -> Nat]]
    <2> HIDE DEF term
    <2>1. \A i \in Nat, x \in Nat : x + term[i] \in Nat
      BY <1>3, SMTT(60)
    <2> QED
      BY <2>1
  <1>5. PICK g : Iterates(g, Nat, 0, step)
    <2> HIDE DEF step
    <2> QED
      BY <1>4, Iteration
  <1>6. g \in [Nat -> Nat] /\ g[0] = 0
    BY <1>5 DEF Iterates
  <1>7. ASSUME NEW i \in 1 .. N PROVE g[i] = g[i - 1] + ns[i]
    <2>1. i - 1 \in Nat /\ (i - 1) + 1 = i
      BY <1>1
    <2>2. g[(i - 1) + 1] = step[i - 1][g[i - 1]]
      <3> HIDE DEF step
      <3> QED
        BY <1>5, <2>1 DEF Iterates
    <2>3. g[i - 1] \in Nat
      BY <1>6, <2>1
    <2>4. step[i - 1][g[i - 1]] = g[i - 1] + term[i - 1]
      <3> HIDE DEF term
      <3> QED
        BY <2>1, <2>3
    <2>5. term[i - 1] = ns[i]
      BY <2>1
    <2> QED
      BY <2>1, <2>2, <2>4, <2>5
  <1> DEFINE g0 == [i \in 0 .. N |-> g[i]]
  <1>8. Eq(g0)
    <2>1. ASSUME NEW i \in 0 .. N
          PROVE  g0[i] = IF i = 0 THEN 0 ELSE g0[i - 1] + ns[i]
      <3>1. CASE i = 0
        BY <1>6, <3>1
      <3>2. CASE i # 0
        <4>1. i \in 1 .. N /\ i - 1 \in 0 .. N
          BY <1>1, <3>2
        <4> QED
          BY <1>7, <3>2, <4>1
      <3> QED
        BY <3>1, <3>2
    <2>2. g0 = [i \in 0 .. N |-> g0[i]]
      OBVIOUS
    <2> HIDE DEF g0
    <2> QED
      BY <2>1, <2>2
  <1>9. Eq(h)
    <2> HIDE DEF Eq, g0
    <2> QED
      BY <1>8
  <1> HIDE DEF h, g0
  <1>10. ASSUME NEW i \in 0 .. N
         PROVE  h[i] = IF i = 0 THEN 0 ELSE h[i - 1] + ns[i]
    BY <1>9
  <1>11. SumsUp(h, ns, N)
    <2>1. h[0] = 0
      <3>1. 0 \in 0 .. N
        BY <1>1
      <3> QED
        BY <1>10, <3>1
    <2>2. ASSUME NEW i \in 1 .. N PROVE h[i] = h[i - 1] + ns[i]
      <3>1. i \in 0 .. N /\ i # 0
        BY <1>1
      <3> QED
        BY <1>10, <3>1
    <2> QED
      BY <2>1, <2>2 DEF SumsUp
  <1>12. SumsTo(h, ns)
    BY <1>2, <1>11, Zenon DEF SumsTo, N
  <1> QED
    BY <1>12, Zenon

(***************************************************************************)
(* The bytes of any fields are as many as the sizes in the generated code  *)
(* say: the fixed size, which hasEnoughBytes demands of what it is given,  *)
(* and what getHeader adds for the fields of variable length.              *)
(***************************************************************************)
THEOREM FieldsSize ==
  ASSUME NEW F, NEW fs \in Seq(F), NEW X, NEW xs \in Seq(X), AllFit(fs, xs)
  PROVE  /\ Len(EncodeEach(fs, xs)) = FixedSize(fs) + SumOf(VariableSizes(fs, xs))
         /\ \A g : g.k = "leaf" /\ g.fields = fs => EnoughBytes(g, Len(EncodeEach(fs, xs)))
  <1> DEFINE N == Len(fs)
             enc == Encoded(fs, xs)
             fixed == [i \in DOMAIN fs |-> FixedSizeOf(fs[i])]
             varying == VariableSizes(fs, xs)
  <1>1. N \in Nat /\ DOMAIN fs = 1 .. N
    OBVIOUS
  <1>2. /\ enc \in Seq(Seq(Byte)) /\ Len(enc) = N
        /\ \A i \in 1 .. N : enc[i] = EncodeField(fs[i], xs[i])
    BY EncodedType
  <1>3. ASSUME NEW i \in 1 .. N
        PROVE  /\ enc[i] \in Seq(Byte) /\ FixedSizeOf(fs[i]) \in Nat
               /\ VariableSize(fs[i], xs[i]) \in Nat
               /\ Len(enc[i]) = FixedSizeOf(fs[i]) + VariableSize(fs[i], xs[i])
    <2>1. IsField(fs[i]) /\ Fits(fs[i], xs[i])
      BY DEF AllFit
    <2>2. enc[i] = EncodeField(fs[i], xs[i])
      BY <1>2
    <2> HIDE DEF enc
    <2> QED
      BY <2>1, <2>2, EncodedField
  <1>4. /\ fixed \in Seq(Nat) /\ Len(fixed) = N
        /\ \A i \in 1 .. N : fixed[i] = FixedSizeOf(fs[i])
    <2> DEFINE a == [i \in 1 .. N |-> FixedSizeOf(fs[i])]
    <2>1. fixed = a
      BY <1>1, Zenon
    <2>2. a \in [1 .. N -> Nat] /\ \A i \in 1 .. N : a[i] = FixedSizeOf(fs[i])
      <3> HIDE DEF N
      <3> QED
        BY <1>3
    <2> HIDE DEF a
    <2>3. a \in Seq(Nat) /\ Len(a) = N
      BY <1>1, <2>2
    <2> QED
      BY <2>1, <2>2, <2>3, Zenon
  <1>5. /\ varying \in Seq(Nat) /\ Len(varying) = N
        /\ \A i \in 1 .. N : varying[i] = VariableSize(fs[i], xs[i])
    <2> DEFINE a == [i \in 1 .. N |-> VariableSize(fs[i], xs[i])]
    <2>1. varying = a
      BY <1>1, Zenon DEF VariableSizes
    <2>2. a \in [1 .. N -> Nat] /\ \A i \in 1 .. N : a[i] = VariableSize(fs[i], xs[i])
      <3> HIDE DEF N
      <3> QED
        BY <1>3
    <2> HIDE DEF a
    <2>3. a \in Seq(Nat) /\ Len(a) = N
      BY <1>1, <2>2
    <2> QED
      BY <2>1, <2>2, <2>3, Zenon
  <1>6. EncodeEach(fs, xs) = FlattenSeq(enc) /\ FixedSize(fs) = SumOf(fixed)
    BY Zenon DEF EncodeEach, FixedSize
  <1> HIDE DEF N, enc, fixed, varying
  <1>7. PICK f : SumsTo(f, fixed)
    BY <1>4, SumOfIsTheSum
  <1>8. PICK v : SumsTo(v, varying)
    BY <1>5, SumOfIsTheSum
  <1>9. /\ f[0] = 0 /\ \A i \in 1 .. N : f[i] = f[i - 1] + FixedSizeOf(fs[i])
        /\ v[0] = 0 /\ \A i \in 1 .. N : v[i] = v[i - 1] + VariableSize(fs[i], xs[i])
        /\ FixedSize(fs) = f[N] /\ SumOf(varying) = v[N]
    <2>1. SumsUp(f, fixed, N) /\ SumsUp(v, varying, N)
      BY <1>4, <1>5, <1>7, <1>8 DEF SumsTo
    <2>2. SumOf(fixed) = f[N] /\ SumOf(varying) = v[N]
      BY <1>4, <1>5, <1>7, <1>8 DEF SumsTo
    <2> QED
      BY <1>4, <1>5, <1>6, <2>1, <2>2 DEF SumsUp
  <1>10. /\ Len(FlattenSeq(enc)) = f[N] + v[N]
         /\ f[N] \in Nat /\ v[N] \in Nat
    <2>1. CASE enc = <<>>
      <3>1. N = 0
        BY <1>1, <1>2, <2>1
      <3>2. FlattenSeq(enc) = <<>>
        BY <2>1, FlattenOfNone
      <3> QED
        BY <1>9, <3>1, <3>2
    <2>2. CASE enc # <<>>
      <3>1. PICK j : Joins(j, enc, Byte) /\ FlattenSeq(enc) = j[Len(enc)]
        BY <1>2, <2>2, FlattenJoins
      <3>2. /\ j \in [1 .. N -> Seq(Byte)] /\ j[1] = enc[1]
            /\ \A i \in 2 .. N : j[i] = j[i - 1] \o enc[i]
        BY <1>2, <3>1 DEF Joins
      <3>3. N \in Nat \ {0}
        BY <1>1, <1>2, <2>2
      <3> DEFINE Right(n) == f[n] \in Nat /\ v[n] \in Nat /\ Len(j[n]) = f[n] + v[n]
                 A == {n \in Nat : n + 1 <= N => Right(n + 1)}
      <3>4. Right(1)
        <4>1. 1 \in 1 .. N /\ 1 - 1 = 0
          BY <3>3
        <4>2. f[1] = 0 + FixedSizeOf(fs[1]) /\ v[1] = 0 + VariableSize(fs[1], xs[1])
          BY <1>9, <4>1
        <4> QED
          BY <1>3, <3>2, <4>1, <4>2
      <3>5. ASSUME NEW n \in Nat, n \in A PROVE n + 1 \in A
        <4>1. SUFFICES ASSUME (n + 1) + 1 <= N PROVE Right((n + 1) + 1)
          OBVIOUS
        <4> DEFINE i == (n + 1) + 1
        <4>2. i \in 2 .. N /\ i \in 1 .. N /\ i - 1 \in 1 .. N /\ i - 1 = n + 1 /\ n + 1 <= N
          BY <3>3, <4>1
        <4> HIDE DEF i
        <4>3. f[i - 1] \in Nat /\ v[i - 1] \in Nat /\ Len(j[i - 1]) = f[i - 1] + v[i - 1]
          BY <3>5, <4>2
        <4>4. j[i] = j[i - 1] \o enc[i] /\ j[i - 1] \in Seq(Byte) /\ enc[i] \in Seq(Byte)
          BY <1>3, <3>2, <4>2
        <4>5. Len(j[i]) = Len(j[i - 1]) + Len(enc[i])
          BY <4>4
        <4>6. /\ f[i] = f[i - 1] + FixedSizeOf(fs[i])
              /\ v[i] = v[i - 1] + VariableSize(fs[i], xs[i])
          BY <1>9, <4>2
        <4>7. /\ FixedSizeOf(fs[i]) \in Nat /\ VariableSize(fs[i], xs[i]) \in Nat
              /\ Len(enc[i]) = FixedSizeOf(fs[i]) + VariableSize(fs[i], xs[i])
          BY <1>3, <4>2
        <4>8. Right(i)
          <5>1. f[i] \in Nat /\ v[i] \in Nat
            BY <4>3, <4>6, <4>7, SMTT(60)
          <5>2. Len(j[i]) = f[i] + v[i]
            <6>1. Len(j[i]) = (f[i - 1] + v[i - 1])
                               + (FixedSizeOf(fs[i]) + VariableSize(fs[i], xs[i]))
              BY <4>3, <4>5, <4>7
            <6> QED
              BY <4>3, <4>6, <4>7, <6>1
          <5> QED
            BY <5>1, <5>2
        <4> QED
          BY <4>8 DEF i
      <3>6. 0 \in A
        BY <3>4
      <3>7. N - 1 \in Nat /\ (N - 1) + 1 = N /\ N <= N
        BY <3>3
      <3>8. N - 1 \in A
        <4> HIDE DEF A
        <4> QED
          BY <3>5, <3>6, <3>7, NaturalInduction
      <3>9. Right(N)
        BY <3>7, <3>8
      <3> QED
        BY <1>2, <3>1, <3>9
    <2> QED
      BY <2>1, <2>2
  <1>11. /\ Len(EncodeEach(fs, xs)) = FixedSize(fs) + SumOf(varying)
         /\ Len(EncodeEach(fs, xs)) >= FixedSize(fs)
    BY <1>6, <1>9, <1>10
  <1>12. ASSUME NEW g, g.k = "leaf", g.fields = fs
         PROVE  EnoughBytes(g, Len(EncodeEach(fs, xs)))
    BY <1>11, <1>12 DEF EnoughBytes
  <1> QED
    BY <1>11, <1>12, Zenon DEF varying

=============================================================================

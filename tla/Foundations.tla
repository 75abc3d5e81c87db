----------------------------- MODULE Foundations -----------------------------
(***************************************************************************)
(* Facts the proofs about several modules need and the provers do not      *)
(* know: induction on natural numbers, functions defined by recursion, the *)
(* joining of sequences, and the laws of the powers of two.                *)
(*                                                                         *)
(* The library's induction theorems take an operator as a parameter, which *)
(* the provers cannot give them. Its theorem that a well-founded relation  *)
(* has minimal elements takes a set, and induction for a set follows.      *)
(***************************************************************************)
EXTENDS Integers, SequencesExt, FiniteSetTheorems, FunctionTheorems, SequenceTheorems,
        WellFoundedInduction, TLAPS

-----------------------------------------------------------------------------
(* Induction and recursion. *)

\* A set that has 0 and with each number the next has them all: there is no least
\* number that it has not.
LEMMA NaturalInduction ==
  ASSUME NEW S, 0 \in S, \A n \in Nat : n \in S => n + 1 \in S
  PROVE  \A n \in Nat : n \in S
  <1> DEFINE T == {n \in Nat : n \notin S}
             R == OpToRel(<, Nat)
  <1>1. SUFFICES ASSUME T # {} PROVE FALSE
    OBVIOUS
  <1>2. IsWellFoundedOn(R, Nat) /\ T \subseteq Nat
    BY NatLessThanWellFounded
  <1> HIDE DEF R, T
  <1>3. PICK x \in T : \A y \in T : ~(<<y, x>> \in R)
    BY <1>1, <1>2, WFMin
  <1>4. x \in Nat /\ x # 0 /\ x \notin S
    BY DEF T
  <1>5. x - 1 \in Nat /\ (x - 1) + 1 = x
    BY <1>4
  <1>6. x - 1 \notin S
    BY <1>4, <1>5
  <1>7. x - 1 \in T /\ <<x - 1, x>> \in R
    BY <1>4, <1>5, <1>6 DEF T, R, OpToRel
  <1> QED
    BY <1>3, <1>7

\* f begins with x0 and goes from each value to the next by a step.
Iterates(f, X, x0, step) ==
  /\ f \in [Nat -> X]
  /\ f[0] = x0
  /\ \A n \in Nat : f[n + 1] = step[n][f[n]]

\* Whatever the steps, there is a function that takes them.
LEMMA Iteration ==
  ASSUME NEW X, NEW x0 \in X, NEW step \in [Nat -> [X -> X]]
  PROVE  \E f : Iterates(f, X, x0, step)
  <1> DEFINE Runs(h, n) == /\ h \in [0 .. n -> X]
                           /\ h[0] = x0
                           /\ \A i \in 0 .. n - 1 : h[i + 1] = step[i][h[i]]
             S == {n \in Nat : \E h \in [0 .. n -> X] : Runs(h, n)}
  <1>1. \A n \in Nat : n \in S
    <2>1. 0 \in S
      <3>1. Runs([i \in 0 .. 0 |-> x0], 0)
        OBVIOUS
      <3> QED
        BY <3>1
    <2>2. ASSUME NEW n \in Nat, n \in S PROVE n + 1 \in S
      <3>1. PICK h \in [0 .. n -> X] : Runs(h, n)
        BY <2>2
      <3> DEFINE g == [i \in 0 .. n + 1 |-> IF i <= n THEN h[i] ELSE step[n][h[n]]]
      <3>2. n \in 0 .. n /\ h[n] \in X /\ step[n][h[n]] \in X
        OBVIOUS
      <3>3. \A i \in 0 .. n + 1 : g[i] \in X
        BY <3>2
      <3>4. g \in [0 .. n + 1 -> X] /\ g[0] = x0
        BY <3>1, <3>3
      <3>5. ASSUME NEW i \in 0 .. n PROVE g[i + 1] = step[i][g[i]]
        <4>1. g[i] = h[i] /\ i + 1 \in 0 .. n + 1
          OBVIOUS
        <4>2. CASE i < n
          <5>1. i \in 0 .. n - 1 /\ i + 1 <= n
            BY <4>2
          <5> QED
            BY <3>1, <4>1, <5>1
        <4>3. CASE i = n
          BY <4>1, <4>3
        <4> QED
          BY <4>2, <4>3
      <3>6. (n + 1) - 1 = n
        OBVIOUS
      <3>7. Runs(g, n + 1)
        BY <3>4, <3>5, <3>6
      <3>8. g \in [0 .. n + 1 -> X]
        BY <3>4
      <3> HIDE DEF Runs, g
      <3> QED
        BY <3>7, <3>8
    <2> QED
      BY <2>1, <2>2, NaturalInduction
  <1>2. ASSUME NEW m \in Nat, NEW n \in Nat, m <= n, NEW g, NEW h, Runs(g, m), Runs(h, n)
        PROVE  g[m] = h[m]
    <2> DEFINE A == {i \in Nat : i <= m => g[i] = h[i]}
    <2>1. 0 \in A
      BY <1>2
    <2>2. ASSUME NEW i \in Nat, i \in A PROVE i + 1 \in A
      <3>1. SUFFICES ASSUME i + 1 <= m PROVE g[i + 1] = h[i + 1]
        OBVIOUS
      <3>2. i \in 0 .. m - 1 /\ i \in 0 .. n - 1 /\ i <= m
        BY <1>2, <3>1
      <3> QED
        BY <1>2, <2>2, <3>2
    <2>3. \A i \in Nat : i \in A
      BY <2>1, <2>2, NaturalInduction
    <2> QED
      BY <2>3
  <1> DEFINE run(n) == CHOOSE h \in [0 .. n -> X] : Runs(h, n)
             f == [n \in Nat |-> run(n)[n]]
  <1>3. ASSUME NEW n \in Nat PROVE Runs(run(n), n)
    <2>1. n \in S
      BY <1>1
    <2>2. \E h \in [0 .. n -> X] : Runs(h, n)
      BY <2>1
    <2> HIDE DEF Runs
    <2> QED
      BY <2>2
  <1> HIDE DEF run
  <1>4. f \in [Nat -> X]
    BY <1>3
  <1>5. f[0] = x0
    BY <1>3
  <1>6. ASSUME NEW n \in Nat PROVE f[n + 1] = step[n][f[n]]
    <2>1. Runs(run(n), n) /\ Runs(run(n + 1), n + 1)
      BY <1>3
    <2>2. run(n)[n] = run(n + 1)[n]
      <3>1. n + 1 \in Nat /\ n <= n + 1
        OBVIOUS
      <3> HIDE DEF Runs
      <3> QED
        BY <1>2, <2>1, <3>1
    <2>3. run(n + 1)[n + 1] = step[n][run(n + 1)[n]]
      <3>1. n \in 0 .. (n + 1) - 1
        OBVIOUS
      <3> QED
        BY <2>1, <3>1
    <2> QED
      BY <2>2, <2>3
  <1> QED
    BY <1>4, <1>5, <1>6 DEF Iterates

\* f is defined on 1 .. N, each value by the one before.
Recurs(f, N, X, first, step) ==
  /\ f \in [1 .. N -> X]
  /\ f[1] = first
  /\ \A i \in 2 .. N : f[i] = step[i][f[i - 1]]

\* There is such a function.
LEMMA Recursion ==
  ASSUME NEW X, NEW N \in Nat \ {0}, NEW first \in X, NEW step \in [Nat -> [X -> X]]
  PROVE  \E f : Recurs(f, N, X, first, step)
  <1> DEFINE later == [n \in Nat |-> step[n + 2]]
  <1>1. later \in [Nat -> [X -> X]]
    OBVIOUS
  <1>2. PICK F : Iterates(F, X, first, later)
    <2> HIDE DEF later
    <2> QED
      BY <1>1, Iteration
  <1>3. F \in [Nat -> X] /\ F[0] = first /\ \A n \in Nat : F[n + 1] = later[n][F[n]]
    BY <1>2 DEF Iterates
  <1> DEFINE f == [i \in 1 .. N |-> F[i - 1]]
  <1>4. f \in [1 .. N -> X] /\ f[1] = first
    BY <1>3
  <1>5. ASSUME NEW i \in 2 .. N PROVE f[i] = step[i][f[i - 1]]
    <2>1. i - 2 \in Nat /\ (i - 2) + 1 = i - 1 /\ (i - 2) + 2 = i /\ i - 1 \in 1 .. N
      OBVIOUS
    <2>2. F[i - 1] = later[i - 2][F[i - 2]]
      <3> HIDE DEF later
      <3> QED
        BY <1>3, <2>1
    <2>3. later[i - 2] = step[i]
      BY <2>1
    <2>4. f[i] = F[i - 1] /\ f[i - 1] = F[i - 2]
      BY <2>1
    <2> QED
      BY <2>2, <2>3, <2>4
  <1>6. Recurs(f, N, X, first, step)
    <2> HIDE DEF f
    <2> QED
      BY <1>4, <1>5 DEF Recurs
  <1> QED
    BY <1>6

-----------------------------------------------------------------------------
(* Sequences of sequences, joined. *)

\* f[i] is the first i sequences of ss, one after the other.
Joins(f, ss, S) ==
  /\ f \in [1 .. Len(ss) -> Seq(S)]
  /\ f[1] = ss[1]
  /\ \A i \in 2 .. Len(ss) : f[i] = f[i - 1] \o ss[i]

\* The same, whatever it is that is joined.
JoinsUpTo(f, ss, N) ==
  f[1] = ss[1] /\ \A i \in 2 .. N : f[i] = f[i - 1] \o ss[i]
EqualUpTo(f, g, N) == \A i \in 1 .. N : f[i] = g[i]

\* Joining sequences has one result.
LEMMA JoiningIsUnique ==
  ASSUME NEW N \in Nat \ {0}, NEW ss, NEW f, NEW g, JoinsUpTo(f, ss, N), JoinsUpTo(g, ss, N)
  PROVE  EqualUpTo(f, g, N)
  <1> USE DEF JoinsUpTo
  <1> DEFINE A == {i \in Nat : i + 1 <= N => f[i + 1] = g[i + 1]}
  <1>1. 0 \in A
    OBVIOUS
  <1>2. ASSUME NEW i \in Nat, i \in A PROVE i + 1 \in A
    <2>1. SUFFICES ASSUME (i + 1) + 1 <= N PROVE f[(i + 1) + 1] = g[(i + 1) + 1]
      OBVIOUS
    <2>2. i + 2 \in 2 .. N /\ (i + 2) - 1 = i + 1 /\ (i + 1) + 1 = i + 2 /\ i + 1 <= N
      BY <2>1
    <2>3. f[i + 1] = g[i + 1]
      BY <1>2, <2>2
    <2> QED
      BY <2>2, <2>3
  <1>3. \A i \in Nat : i \in A
    <2> HIDE DEF A
    <2> QED
      BY <1>1, <1>2, NaturalInduction
  <1>4. ASSUME NEW i \in 1 .. N PROVE f[i] = g[i]
    <2>1. i - 1 \in A /\ (i - 1) + 1 = i
      BY <1>3
    <2> QED
      BY <2>1
  <1> QED
    BY <1>4 DEF EqualUpTo

\* FlattenSeq joins the sequences.
LEMMA FlattenJoins ==
  ASSUME NEW S, NEW ss \in Seq(Seq(S)), ss # <<>>
  PROVE  \E f : Joins(f, ss, S) /\ FlattenSeq(ss) = f[Len(ss)]
  <1> DEFINE N == Len(ss)
             Eq(f) == f = [i \in 1 .. N |-> IF i = 1 THEN ss[i] ELSE f[i - 1] \o ss[i]]
             piece == [i \in Nat |-> IF i \in 1 .. N THEN ss[i] ELSE <<>>]
             step == [i \in Nat |-> [x \in Seq(S) |-> x \o piece[i]]]
  <1>1. N \in Nat \ {0} /\ \A i \in 1 .. N : ss[i] \in Seq(S)
    OBVIOUS
  <1>2. FlattenSeq(ss) = (CHOOSE f : Eq(f))[N]
    BY <1>1 DEF FlattenSeq
  <1> HIDE DEF N
  <1>3. piece \in [Nat -> Seq(S)]
    BY <1>1
  <1>4. step \in [Nat -> [Seq(S) -> Seq(S)]]
    <2> HIDE DEF piece
    <2>1. \A i \in Nat, x \in Seq(S) : x \o piece[i] \in Seq(S)
      BY <1>3
    <2> QED
      BY <2>1
  <1>5. PICK g : Recurs(g, N, Seq(S), ss[1], step)
    <2>1. ss[1] \in Seq(S)
      BY <1>1
    <2> HIDE DEF step
    <2> QED
      BY <1>1, <1>4, <2>1, Recursion
  <1>6. g \in [1 .. N -> Seq(S)] /\ g[1] = ss[1]
    BY <1>5 DEF Recurs
  <1>7. ASSUME NEW i \in 2 .. N PROVE g[i] = g[i - 1] \o ss[i]
    <2>1. i \in Nat /\ i - 1 \in 1 .. N /\ i \in 1 .. N
      BY <1>1
    <2>2. g[i] = step[i][g[i - 1]]
      <3> HIDE DEF step
      <3> QED
        BY <1>5 DEF Recurs
    <2>3. g[i - 1] \in Seq(S)
      BY <1>6, <2>1
    <2>4. step[i][g[i - 1]] = g[i - 1] \o piece[i]
      <3> HIDE DEF piece
      <3> QED
        BY <2>1, <2>3
    <2>5. piece[i] = ss[i]
      BY <2>1
    <2> QED
      BY <2>2, <2>4, <2>5
  <1>8. Eq(g)
    <2>1. ASSUME NEW i \in 1 .. N
          PROVE  g[i] = IF i = 1 THEN ss[i] ELSE g[i - 1] \o ss[i]
      <3>1. CASE i = 1
        BY <1>6, <3>1
      <3>2. CASE i # 1
        <4>1. i \in 2 .. N
          BY <1>1, <3>2
        <4> QED
          BY <1>7, <3>2, <4>1
      <3> QED
        BY <3>1, <3>2
    <2> QED
      BY <1>6, <2>1
  <1> DEFINE h == CHOOSE f : Eq(f)
  <1>9. Eq(h)
    <2> HIDE DEF Eq
    <2> QED
      BY <1>8
  <1>10. FlattenSeq(ss) = h[N]
    BY <1>2
  <1> HIDE DEF h
  <1>11. ASSUME NEW i \in 1 .. N
         PROVE  h[i] = IF i = 1 THEN ss[i] ELSE h[i - 1] \o ss[i]
    BY <1>9
  <1>12. h[1] = ss[1]
    <2>1. 1 \in 1 .. N
      BY <1>1
    <2> QED
      BY <1>11, <2>1
  <1>13. ASSUME NEW i \in 2 .. N PROVE h[i] = h[i - 1] \o ss[i]
    <2>1. i \in 1 .. N /\ i # 1
      BY <1>1
    <2> QED
      BY <1>11, <2>1
  <1>14. JoinsUpTo(h, ss, N) /\ JoinsUpTo(g, ss, N)
    BY <1>6, <1>7, <1>12, <1>13 DEF JoinsUpTo
  <1>15. EqualUpTo(h, g, N)
    BY <1>1, <1>14, JoiningIsUnique
  <1>16. N \in 1 .. N
    BY <1>1
  <1>17. FlattenSeq(ss) = g[N]
    BY <1>10, <1>15, <1>16 DEF EqualUpTo
  <1>18. Joins(g, ss, S)
    BY <1>6, <1>7 DEF N, Joins
  <1> QED
    BY <1>17, <1>18 DEF N

\* Nothing joined is nothing.
LEMMA FlattenOfNone == FlattenSeq(<<>>) = <<>>
  BY DEF FlattenSeq

\* Whatever joins ss, FlattenSeq(ss) is its last value.
LEMMA FlattenIsTheJoin ==
  ASSUME NEW S, NEW ss \in Seq(Seq(S)), ss # <<>>, NEW f, Joins(f, ss, S)
  PROVE  FlattenSeq(ss) = f[Len(ss)] /\ FlattenSeq(ss) \in Seq(S)
  <1> DEFINE N == Len(ss)
  <1>1. N \in Nat \ {0} /\ N \in 1 .. N
    OBVIOUS
  <1>2. PICK g : Joins(g, ss, S) /\ FlattenSeq(ss) = g[Len(ss)]
    BY FlattenJoins
  <1>3. JoinsUpTo(f, ss, N) /\ JoinsUpTo(g, ss, N)
    BY <1>2 DEF Joins, JoinsUpTo
  <1>4. f[N] \in Seq(S)
    BY <1>1 DEF Joins
  <1>5. EqualUpTo(f, g, N)
    <2> HIDE DEF N
    <2> QED
      BY <1>1, <1>3, JoiningIsUnique
  <1> QED
    BY <1>1, <1>2, <1>4, <1>5 DEF EqualUpTo

\* What is joined is a sequence of the same elements.
LEMMA FlattenType ==
  ASSUME NEW S, NEW ss \in Seq(Seq(S))
  PROVE  FlattenSeq(ss) \in Seq(S)
  <1>1. CASE ss = <<>>
    <2>1. FlattenSeq(ss) = <<>>
      BY <1>1, FlattenOfNone
    <2>2. <<>> \in Seq(S)
      OBVIOUS
    <2> QED
      BY <2>1, <2>2
  <1>2. CASE ss # <<>>
    BY <1>2, FlattenJoins, FlattenIsTheJoin
  <1> QED
    BY <1>1, <1>2

\* A sequence more is joined at the end.
LEMMA FlattenAppend ==
  ASSUME NEW S, NEW ss \in Seq(Seq(S)), NEW s \in Seq(S)
  PROVE  FlattenSeq(Append(ss, s)) = FlattenSeq(ss) \o s
  <1> DEFINE N == Len(ss)
             tt == Append(ss, s)
  <1>1. /\ N \in Nat
        /\ tt \in Seq(Seq(S)) /\ tt # <<>> /\ Len(tt) = N + 1
        /\ tt[N + 1] = s
        /\ \A i \in 1 .. N : tt[i] = ss[i]
    <2>1. N \in Nat /\ tt \in Seq(Seq(S)) /\ Len(tt) = N + 1
      OBVIOUS
    <2>2. tt[N + 1] = s
      OBVIOUS
    <2>3. \A i \in 1 .. N : tt[i] = ss[i]
      OBVIOUS
    <2>4. tt # <<>>
      <3> HIDE DEF tt
      <3> QED
        BY <2>1
    <2> QED
      BY <2>1, <2>2, <2>3, <2>4
  <1> HIDE DEF N, tt
  <1>2. PICK g : Joins(g, tt, S) /\ FlattenSeq(tt) = g[Len(tt)]
    BY <1>1, FlattenJoins
  <1>3. CASE ss = <<>>
    <2>1. N = 0
      BY <1>3 DEF N
    <2>2. FlattenSeq(tt) = s
      BY <1>1, <1>2, <2>1 DEF Joins
    <2> QED
      BY <1>3, <2>2, FlattenOfNone DEF tt
  <1>4. CASE ss # <<>>
    <2>1. N \in 1 .. N /\ N + 1 \in 2 .. N + 1 /\ (N + 1) - 1 = N
      BY <1>4, <1>1 DEF N
    <2> DEFINE f == [i \in 1 .. N |-> g[i]]
    <2>2. Joins(f, ss, S)
      <3>1. g \in [1 .. N + 1 -> Seq(S)] /\ g[1] = tt[1]
             /\ \A i \in 2 .. N + 1 : g[i] = g[i - 1] \o tt[i]
        BY <1>1, <1>2 DEF Joins
      <3>2. f \in [1 .. N -> Seq(S)]
        BY <3>1, <1>1
      <3>3. f[1] = ss[1]
        BY <3>1, <1>1, <2>1
      <3>4. ASSUME NEW i \in 2 .. N PROVE f[i] = f[i - 1] \o ss[i]
        <4>1. i \in 1 .. N /\ i - 1 \in 1 .. N /\ i \in 2 .. N + 1
          BY <1>1
        <4> QED
          BY <3>1, <4>1, <1>1
      <3> HIDE DEF f
      <3> QED
        BY <3>2, <3>3, <3>4 DEF N, Joins
    <2>3. FlattenSeq(ss) = f[N]
      <3> HIDE DEF f
      <3> QED
        BY <1>4, <2>2, FlattenIsTheJoin DEF N
    <2>4. g[N + 1] = g[N] \o s
      BY <1>1, <1>2, <2>1 DEF Joins
    <2> QED
      BY <1>1, <1>2, <2>1, <2>3, <2>4 DEF tt
  <1> QED
    BY <1>3, <1>4

\* Where one puts the brackets is the same.
Associate(r, s, t) == r \o (s \o t) = (r \o s) \o t

LEMMA Associates ==
  ASSUME NEW S, NEW r \in Seq(S), NEW s \in Seq(S), NEW t \in Seq(S)
  PROVE  Associate(r, s, t)
  <1>1. /\ s \o t \in Seq(S) /\ r \o s \in Seq(S)
        /\ r \o (s \o t) \in Seq(S) /\ (r \o s) \o t \in Seq(S)
    BY SMTT(30)
  <1>2. Len(r \o (s \o t)) = Len((r \o s) \o t)
    BY <1>1, SMTT(30)
  <1>3. ASSUME NEW i \in 1 .. Len(r \o (s \o t))
        PROVE  (r \o (s \o t))[i] = ((r \o s) \o t)[i]
    BY <1>1, SMTT(30)
  <1> QED
    BY <1>1, <1>2, <1>3, SMTT(30) DEF Associate

\* The first sequence comes first.
LEMMA FlattenTail ==
  ASSUME NEW S, NEW ss \in Seq(Seq(S)), ss # <<>>
  PROVE  FlattenSeq(ss) = Head(ss) \o FlattenSeq(Tail(ss))
  <1> DEFINE tt == Tail(ss)
             N == Len(tt)
  <1>1. /\ N \in Nat /\ tt \in Seq(Seq(S)) /\ Len(ss) = N + 1
        /\ Head(ss) = ss[1] /\ ss[1] \in Seq(S)
        /\ \A i \in 1 .. N : tt[i] = ss[i + 1] /\ tt[i] \in Seq(S)
    OBVIOUS
  <1>2. CASE tt = <<>>
    <2>1. N = 0
      <3>1. Len(<<>>) = 0
        OBVIOUS
      <3> QED
        BY <1>2, <3>1
    <2> HIDE DEF N, tt
    <2>2. PICK f : Joins(f, ss, S) /\ FlattenSeq(ss) = f[Len(ss)]
      BY FlattenJoins
    <2>3. FlattenSeq(ss) = ss[1]
      BY <1>1, <2>1, <2>2 DEF Joins
    <2>4. ss[1] \o <<>> = ss[1]
      BY <1>1
    <2>5. FlattenSeq(tt) = <<>>
      BY <1>2, FlattenOfNone
    <2> QED
      BY <1>1, <2>3, <2>4, <2>5 DEF tt
  <1>3. CASE tt # <<>>
    <2>1. N \in Nat \ {0}
      BY <1>3, <1>1
    <2> HIDE DEF N, tt
    <2>2. PICK f : Joins(f, tt, S) /\ FlattenSeq(tt) = f[N]
      BY <1>1, <1>3, FlattenJoins DEF N
    <2>3. f \in [1 .. N -> Seq(S)] /\ f[1] = tt[1]
           /\ \A i \in 2 .. N : f[i] = f[i - 1] \o tt[i]
      BY <2>2 DEF Joins, N
    <2> DEFINE g == [i \in 1 .. N + 1 |-> IF i = 1 THEN ss[1] ELSE ss[1] \o f[i - 1]]
    <2>4. g \in [1 .. N + 1 -> Seq(S)]
      <3>1. ASSUME NEW i \in 1 .. N + 1 PROVE g[i] \in Seq(S)
        <4>1. CASE i = 1
          BY <4>1, <1>1
        <4>2. CASE i # 1
          <5>1. i - 1 \in 1 .. N
            BY <4>2, <2>1
          <5>2. f[i - 1] \in Seq(S)
            BY <5>1, <2>3
          <5> QED
            BY <4>2, <5>2, <1>1
        <4> QED
          BY <4>1, <4>2
      <3> QED
        BY <3>1
    <2>5. g[1] = ss[1]
      BY <2>1
    <2>6. ASSUME NEW i \in 2 .. N + 1 PROVE g[i] = g[i - 1] \o ss[i]
      <3>1. i \in 1 .. N + 1 /\ i - 1 \in 1 .. N + 1 /\ i - 1 \in 1 .. N /\ (i - 1) + 1 = i /\ i # 1
        BY <2>1
      <3>2. g[i] = ss[1] \o f[i - 1]
        BY <3>1
      <3>3. tt[i - 1] = ss[i]
        BY <1>1, <3>1
      <3>4. CASE i = 2
        <4>1. g[i - 1] = ss[1] /\ f[i - 1] = tt[i - 1]
          BY <3>4, <2>3, <2>1
        <4> QED
          BY <3>2, <3>3, <4>1
      <3>5. CASE i # 2
        <4>1. i - 1 \in 2 .. N /\ i - 2 \in 1 .. N /\ (i - 1) - 1 = i - 2 /\ i - 1 # 1
          BY <3>5, <2>1
        <4>2. g[i - 1] = ss[1] \o f[i - 2]
          BY <3>1, <4>1
        <4>3. f[i - 1] = f[i - 2] \o tt[i - 1]
          BY <2>3, <4>1
        <4>4. f[i - 2] \in Seq(S) /\ tt[i - 1] \in Seq(S) /\ ss[1] \in Seq(S)
          BY <2>3, <3>1, <4>1, <1>1
        <4>5. ss[1] \o (f[i - 2] \o tt[i - 1]) = (ss[1] \o f[i - 2]) \o tt[i - 1]
          <5>1. Associate(ss[1], f[i - 2], tt[i - 1])
            BY <4>4, Associates, Zenon
          <5> QED
            BY <5>1, Zenon DEF Associate
        <4> QED
          BY <3>2, <3>3, <4>2, <4>3, <4>5
      <3> QED
        BY <3>4, <3>5
    <2>7. Joins(g, ss, S)
      <3> HIDE DEF g
      <3> QED
        BY <1>1, <2>4, <2>5, <2>6 DEF Joins
    <2>8. FlattenSeq(ss) = g[N + 1]
      <3> HIDE DEF g
      <3> QED
        BY <1>1, <2>7, FlattenIsTheJoin
    <2>9. g[N + 1] = ss[1] \o f[N]
      <3>1. N + 1 \in 1 .. N + 1 /\ N + 1 # 1 /\ (N + 1) - 1 = N
        BY <2>1
      <3> QED
        BY <3>1
    <2> QED
      BY <1>1, <2>2, <2>8, <2>9 DEF tt
  <1> QED
    BY <1>2, <1>3

-----------------------------------------------------------------------------
(* The powers of two. The provers know none of the operator ^, but a       *)
(* library theorem says that 2^n is the number of subsets of a set of n    *)
(* elements, and from that they follow.                                    *)

\* 2^n is a positive number.
LEMMA PowersArePositive ==
  ASSUME NEW n \in Nat
  PROVE  2^n \in Nat \ {0}
  <1>1. IsFiniteSet(1 .. n) /\ Cardinality(1 .. n) = n
    BY FS_Interval
  <1>2. IsFiniteSet(SUBSET (1 .. n)) /\ Cardinality(SUBSET (1 .. n)) = 2^n
    BY <1>1, FS_SUBSET
  <1>3. SUBSET (1 .. n) # {}
    OBVIOUS
  <1> QED
    BY <1>2, <1>3, FS_CardinalityType, FS_EmptySet

\* A subset of 1 .. m + n is one of 1 .. m together with one of m + 1 .. m + n.
LEMMA PowersAdd ==
  ASSUME NEW m \in Nat, NEW n \in Nat
  PROVE  2^(m + n) = 2^m * 2^n
  <1> DEFINE A == 1 .. m
             B == m + 1 .. m + n
             C == 1 .. m + n
             f == [p \in (SUBSET A) \X (SUBSET B) |-> p[1] \cup p[2]]
  <1>1. /\ IsFiniteSet(A) /\ Cardinality(A) = m
        /\ IsFiniteSet(B) /\ Cardinality(B) = n
        /\ IsFiniteSet(C) /\ Cardinality(C) = m + n
    <2>1. IsFiniteSet(A) /\ Cardinality(A) = m
      BY FS_Interval
    <2>2. IsFiniteSet(B) /\ Cardinality(B) = n
      <3>1. m + 1 \in Int /\ m + n \in Int
        OBVIOUS
      <3>2. IsFiniteSet(B) /\ Cardinality(B) = IF m + 1 > m + n THEN 0 ELSE m + n - (m + 1) + 1
        BY <3>1, FS_Interval
      <3> HIDE DEF B
      <3> QED
        BY <3>2
    <2>3. IsFiniteSet(C) /\ Cardinality(C) = m + n
      <3>1. 1 \in Int /\ m + n \in Int
        OBVIOUS
      <3>2. IsFiniteSet(C) /\ Cardinality(C) = IF 1 > m + n THEN 0 ELSE m + n - 1 + 1
        BY <3>1, FS_Interval
      <3> HIDE DEF C
      <3> QED
        BY <3>2
    <2> QED
      BY <2>1, <2>2, <2>3
  <1>2. A \cup B = C /\ A \cap B = {}
    OBVIOUS
  <1> HIDE DEF A, B, C
  <1>3. f \in Bijection((SUBSET A) \X (SUBSET B), SUBSET C)
    <2>1. f \in [(SUBSET A) \X (SUBSET B) -> SUBSET C]
      BY <1>2
    <2>2. ASSUME NEW p \in (SUBSET A) \X (SUBSET B), NEW q \in (SUBSET A) \X (SUBSET B),
                 f[p] = f[q]
          PROVE  p = q
      <3>1. p[1] \cup p[2] = q[1] \cup q[2]
        BY <2>2
      <3>2. p[1] \subseteq A /\ q[1] \subseteq A /\ p[2] \subseteq B /\ q[2] \subseteq B
        OBVIOUS
      <3>3. p[1] = q[1] /\ p[2] = q[2]
        BY <1>2, <3>1, <3>2
      <3>4. p = <<p[1], p[2]>> /\ q = <<q[1], q[2]>>
        OBVIOUS
      <3> QED
        BY <3>3, <3>4
    <2>3. ASSUME NEW T \in SUBSET C
          PROVE  \E p \in (SUBSET A) \X (SUBSET B) : f[p] = T
      <3> DEFINE q == <<T \cap A, T \cap B>>
      <3>1. q \in (SUBSET A) \X (SUBSET B)
        OBVIOUS
      <3>2. f[q] = (T \cap A) \cup (T \cap B)
        BY <3>1
      <3>3. (T \cap A) \cup (T \cap B) = T
        BY <1>2
      <3> QED
        BY <3>1, <3>2, <3>3
    <2> HIDE DEF f
    <2> QED
      BY <2>1, <2>2, <2>3, Fun_IsBij
  <1>4. /\ IsFiniteSet(SUBSET A) /\ Cardinality(SUBSET A) = 2^m
        /\ IsFiniteSet(SUBSET B) /\ Cardinality(SUBSET B) = 2^n
        /\ Cardinality(SUBSET C) = 2^(m + n)
    BY <1>1, FS_SUBSET
  <1>5. /\ IsFiniteSet((SUBSET A) \X (SUBSET B))
        /\ Cardinality((SUBSET A) \X (SUBSET B)) = 2^m * 2^n
    BY <1>4, FS_Product
  <1>6. ExistsBijection((SUBSET A) \X (SUBSET B), SUBSET C)
    BY <1>3, Fun_ExistsBij
  <1>7. Cardinality(SUBSET C) = Cardinality((SUBSET A) \X (SUBSET B))
    BY <1>5, <1>6, FS_Bijection
  <1> QED
    BY <1>4, <1>5, <1>7

\* Each power is twice the one before it.
LEMMA PowersDouble ==
  ASSUME NEW n \in Nat
  PROVE  2^(n + 1) = 2 * 2^n
  <1>1. 2^1 = 2
    BY SMT
  <1>2. 2^(n + 1) = 2^n * 2^1 /\ 2^n \in Nat
    BY PowersAdd, PowersArePositive
  <1> QED
    BY <1>1, <1>2

=============================================================================

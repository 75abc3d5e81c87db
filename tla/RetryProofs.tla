----------------------------- MODULE RetryProofs -----------------------------
(***************************************************************************)
(* Theorems about Retry: for any policy, retry count, deadline and number  *)
(* of attempts, FError holds the latest errors and the right count, and    *)
(* the reason RetryWithCtx returns is true.                                *)
(***************************************************************************)
EXTENDS Retry, Foundations, SequenceTheorems, TLAPS

\* The variables have their types.  Those of wait and left depend on the
\* arithmetic of nextWait: see WaitFits.
RetryTypes ==
  /\ ebo \in [BackOff : Int, Max : Int \cup {MaxDuration}, KeepErrs : Int, Jitter : BOOLEAN]
  /\ retries \in Int
  /\ ctx \in {"ok", "canceled", "deadline"}
  /\ pc \in {"start", "calling", "waiting", "fired", "returned"}
  /\ attempt \in 0 .. MaxAttempts
  /\ ferr \in [Others : Seq(Nat), last : Nat, Attempts : Int]
  /\ result \in {"none", "nil", "canceled", "deadline", "err",
                 "ErrRetriesExceeded", "ErrWaitExceedsDeadline"}

\* Nothing has failed before the first call.
StartIsFresh == pc = "start" => attempt = 0

\* There is a result when RetryWithCtx has returned, and not before.
ResultComesLast == (pc # "returned") => (result = "none")

\* After a failed call RetryWithCtx goes on only if it may call again.
GoesOnWithReason == (attempt > 0 /\ pc # "returned") => MoreAttempts(attempt)

\* The ring is filled from its start: which error is the oldest only changes once it is full.
FillsInOrder ==
  (0 < attempt /\ attempt < MaxAttempts /\ Len(ferr.Others) < ebo.KeepErrs) => ferr.last = 0

---------------------------------------------------------------------------
(* The ring *)

\* KeepsLatest, FillsInOrder and AttemptsSaturate of an FError e after n failed calls.
Latest(e, keep, n) ==
  IF keep = 0 THEN e.Others = <<1>> /\ e.last = 0
  ELSE /\ Len(e.Others) = IF keep <= 1 THEN 1 ELSE IF n <= keep THEN n ELSE keep
       /\ e.last \in 0 .. Len(e.Others) - 1
       /\ \A i \in 1 .. Len(e.Others) :
            e.Others[i] = n - Len(e.Others)
                          + (IF i > e.last THEN i - e.last ELSE i - e.last + Len(e.Others))
       /\ Len(e.Others) < keep => e.last = 0
CountOf(e, n) == e.Attempts = IF n - 1 <= MaxInt THEN n - 1 ELSE MaxInt

FErrors == [Others : Seq(Nat), last : Nat, Attempts : Int]

LEMMA MaxIntIsAnInteger == MaxInt \in Nat
  BY RetryAssumption

\* The error of the first call alone.
LEMMA FirstError ==
  ASSUME NEW keep \in Int
  PROVE  newFError(1) \in FErrors /\ Latest(newFError(1), keep, 1) /\ CountOf(newFError(1), 1)
  BY RetryAssumption DEF newFError, FErrors, Latest, CountOf

\* Counting a call leaves the errors alone.
LEMMA CountsOne ==
  ASSUME NEW e \in FErrors
  PROVE  Counted(e) \in FErrors /\ Counted(e).Others = e.Others /\ Counted(e).last = e.last
  <1> DEFINE n == Saturated(e.Attempts)
  <1>1. n \in Int
    BY MaxIntIsAnInteger DEF Saturated, FErrors
  <1>2. Counted(e) = [e EXCEPT !.Attempts = n]
    BY DEF Counted
  <1> HIDE DEF n
  <1> QED
    BY <1>1, <1>2 DEF FErrors

\* addErr puts the error of call n + 1 in the place of the oldest one.
LEMMA AddsLatest ==
  ASSUME NEW e \in FErrors, NEW keep \in Int, NEW n \in Nat \ {0}, Latest(e, keep, n)
  PROVE  addErr(e, keep, n + 1) \in FErrors /\ Latest(addErr(e, keep, n + 1), keep, n + 1)
  <1> DEFINE f == addErr(e, keep, n + 1)
  <1>1. Counted(e) \in FErrors /\ Counted(e).Others = e.Others /\ Counted(e).last = e.last
    BY CountsOne
  <1>2. CASE keep = 0
    BY <1>1, <1>2 DEF addErr, Latest
  <1>3. CASE keep # 0 /\ Len(e.Others) < keep
    <2>1. f \in FErrors /\ f.Others = Append(e.Others, n + 1) /\ f.last = e.last
      <3>1. f = [Counted(e) EXCEPT !.Others = Append(@, n + 1)]
        BY <1>3 DEF addErr
      <3>2. Append(e.Others, n + 1) \in Seq(Nat)
        BY DEF FErrors
      <3> HIDE DEF f
      <3> QED
        BY <1>1, <3>1, <3>2 DEF FErrors
    <2>2. Len(e.Others) = n /\ keep > 1 /\ n + 1 <= keep
      BY <1>3 DEF Latest, FErrors
    <2>3. e.last \in 0 .. n - 1 /\ \A i \in 1 .. n :
            e.Others[i] = (IF i > e.last THEN i - e.last ELSE i - e.last + n)
      BY <1>3, <2>2 DEF Latest, FErrors
    <2>4. e.last = 0
      BY <1>3 DEF Latest
    <2>5. e.Others \in Seq(Nat)
      BY DEF FErrors
    <2> HIDE DEF f
    <2>6. Len(f.Others) = n + 1 /\ f.last = 0
      BY <2>1, <2>2, <2>4, <2>5
    <2>7. \A i \in 1 .. n + 1 : f.Others[i] = i
      BY <2>1, <2>2, <2>3, <2>4, <2>5
    <2>8. Latest(f, keep, n + 1)
      BY <2>2, <2>6, <2>7 DEF Latest
    <2> QED
      BY <2>1, <2>8 DEF f
  <1>4. CASE keep # 0 /\ ~(Len(e.Others) < keep)
    <2>1. /\ f \in FErrors
          /\ f.Others = [e.Others EXCEPT ![e.last + 1] = n + 1]
          /\ f.last = IF e.last + 1 >= Len(e.Others) THEN 0 ELSE e.last + 1
      <3>1. f = [Counted(e) EXCEPT !.Others = [@ EXCEPT ![e.last + 1] = n + 1],
                                   !.last = IF @ + 1 >= Len(e.Others) THEN 0 ELSE @ + 1]
        BY <1>1, <1>4 DEF addErr
      <3>2. [e.Others EXCEPT ![e.last + 1] = n + 1] \in Seq(Nat)
        BY SMTT(30), <1>4, ExceptSeq DEF FErrors, Latest
      <3>3. (IF e.last + 1 >= Len(e.Others) THEN 0 ELSE e.last + 1) \in Nat
        BY DEF FErrors
      <3> HIDE DEF f
      <3> QED
        BY <1>1, <3>1, <3>2, <3>3 DEF FErrors
    <2> DEFINE m == Len(e.Others)
    <2>2. e.Others \in Seq(Nat) /\ m \in Nat \ {0} /\ e.last \in 0 .. m - 1 /\ ~(m < keep)
      BY <1>4 DEF Latest, FErrors
    <2>3. /\ \A i \in 1 .. m : e.Others[i] =
               n - m + (IF i > e.last THEN i - e.last ELSE i - e.last + m)
          /\ m = IF keep <= 1 THEN 1 ELSE IF n <= keep THEN n ELSE keep
      BY <1>4 DEF Latest
    <2>4. Len(f.Others) = m /\ m = IF keep <= 1 THEN 1 ELSE IF n + 1 <= keep THEN n + 1 ELSE keep
      BY <2>1, <2>2, <2>3
    <2>5. ASSUME NEW i \in 1 .. m
          PROVE  f.Others[i] = n + 1 - m
                   + (IF i > f.last THEN i - f.last ELSE i - f.last + m)
      <3>1. f.Others[i] = IF i = e.last + 1 THEN n + 1 ELSE e.Others[i]
        <4> HIDE DEF f
        <4>1. i \in DOMAIN e.Others
          BY <2>2
        <4>2. f.Others[i] = [e.Others EXCEPT ![e.last + 1] = n + 1][i]
          BY <2>1
        <4> QED
          BY <4>1, <4>2
      <3>2. e.Others[i] = n - m + (IF i > e.last THEN i - e.last ELSE i - e.last + m)
        BY <2>3
      <3> HIDE DEF f
      <3>3. f.last = IF e.last + 1 >= m THEN 0 ELSE e.last + 1
        BY <2>1
      <3> HIDE DEF m
      <3>4. CASE i = e.last + 1
        BY <2>2, <3>1, <3>3, <3>4
      <3>5. CASE i # e.last + 1
        <4>1. CASE e.last + 1 >= m
          <5>1. f.last = 0 /\ e.last = m - 1 /\ ~(i > e.last) /\ i > f.last
            BY <2>2, <3>3, <3>5, <4>1
          <5>2. f.Others[i] = n - m + (i - e.last + m)
            BY <3>1, <3>2, <3>5, <5>1
          <5> QED
            BY <2>2, <5>1, <5>2
        <4>2. CASE ~(e.last + 1 >= m) /\ i > e.last
          <5>1. f.last = e.last + 1 /\ i > f.last
            BY <2>2, <3>3, <3>5, <4>2
          <5>2. f.Others[i] = n - m + (i - e.last)
            BY <3>1, <3>2, <3>5, <4>2
          <5> QED
            BY <2>2, <5>1, <5>2
        <4>3. CASE ~(e.last + 1 >= m) /\ ~(i > e.last)
          <5>1. f.last = e.last + 1 /\ ~(i > f.last)
            BY <2>2, <3>3, <3>5, <4>3
          <5>2. f.Others[i] = n - m + (i - e.last + m)
            BY <3>1, <3>2, <3>5, <4>3
          <5> QED
            BY <2>2, <5>1, <5>2
        <4> QED
          BY <4>1, <4>2, <4>3
      <3> QED
        BY <3>4, <3>5
    <2> HIDE DEF f, m
    <2>6. f.last \in 0 .. m - 1
      <3>1. f.last = IF e.last + 1 >= m THEN 0 ELSE e.last + 1
        BY <2>1 DEF m
      <3> QED
        BY <2>2, <3>1
    <2> USE DEF m
    <2>7. Latest(f, keep, n + 1)
      BY <1>4, <2>2, <2>4, <2>5, <2>6 DEF Latest
    <2> QED
      BY <2>1, <2>7 DEF f
  <1> QED
    BY <1>2, <1>3, <1>4

\* An FError stays one.
LEMMA AddsAnError ==
  ASSUME NEW e \in FErrors, NEW keep \in Int, NEW n \in Nat
  PROVE  addErr(e, keep, n) \in FErrors
  <1> DEFINE f == addErr(e, keep, n)
  <1>1. Counted(e) \in FErrors /\ Counted(e).Others = e.Others /\ Counted(e).last = e.last
    BY CountsOne
  <1>2. CASE keep = 0
    BY <1>1, <1>2 DEF addErr
  <1>3. CASE keep # 0 /\ Len(e.Others) < keep
    <2>1. f = [Counted(e) EXCEPT !.Others = Append(@, n)]
      BY <1>3 DEF addErr
    <2>2. Append(e.Others, n) \in Seq(Nat)
      BY DEF FErrors
    <2> HIDE DEF f
    <2>3. f \in FErrors
      BY <1>1, <2>1, <2>2 DEF FErrors
    <2> QED
      BY <2>3 DEF f
  <1>4. CASE keep # 0 /\ ~(Len(e.Others) < keep)
    <2>1. f = [Counted(e) EXCEPT !.Others = [@ EXCEPT ![e.last + 1] = n],
                                 !.last = IF @ + 1 >= Len(e.Others) THEN 0 ELSE @ + 1]
      BY <1>1, <1>4 DEF addErr
    <2>2. [e.Others EXCEPT ![e.last + 1] = n] \in Seq(Nat)
      <3>1. e.Others \in Seq(Nat) /\ e.last + 1 \in Nat
        BY DEF FErrors
      <3>2. CASE e.last + 1 \in 1 .. Len(e.Others)
        BY <3>1, <3>2, ExceptSeq
      <3>3. CASE e.last + 1 \notin 1 .. Len(e.Others)
        <4>1. [e.Others EXCEPT ![e.last + 1] = n] = e.Others
          BY <3>1, <3>3
        <4> QED
          BY <3>1, <4>1
      <3> QED
        BY <3>2, <3>3
    <2>3. (IF e.last + 1 >= Len(e.Others) THEN 0 ELSE e.last + 1) \in Nat
      BY DEF FErrors
    <2> HIDE DEF f
    <2>4. f \in FErrors
      BY <1>1, <2>1, <2>2, <2>3 DEF FErrors
    <2> QED
      BY <2>4 DEF f
  <1> QED
    BY <1>2, <1>3, <1>4

\* addErr counts one more call, up to the largest int.
LEMMA AddsOne ==
  ASSUME NEW e \in FErrors, NEW keep \in Int, NEW n \in Nat \ {0}, CountOf(e, n)
  PROVE  CountOf(addErr(e, keep, n + 1), n + 1)
  <1>1. addErr(e, keep, n + 1).Attempts = Saturated(e.Attempts)
    BY DEF addErr, Counted, FErrors
  <1> QED
    BY <1>1, RetryAssumption DEF CountOf, Saturated

---------------------------------------------------------------------------
(* The steps *)

\* The three parts of the invariant that are about ferr, and that hold while attempt,
\* KeepErrs and ferr stay.
FErrorInv ==
  (0 < attempt /\ attempt < MaxAttempts) =>
    Latest(ferr, ebo.KeepErrs, attempt) /\ CountOf(ferr, attempt)

LEMMA FErrorParts ==
  ASSUME RetryTypes PROVE FErrorInv <=> (KeepsLatest /\ FillsInOrder /\ AttemptsSaturate)
  <1>1. ferr.Others \in Seq(Nat) /\ ebo.KeepErrs \in Int /\ attempt \in Nat
    BY RetryAssumption DEF RetryTypes
  <1> QED
    BY <1>1 DEF FErrorInv, KeepsLatest, FillsInOrder, AttemptsSaturate, Latest, CountOf, Kept, Age

\* The inductive invariant.
RetryInv ==
  /\ RetryTypes /\ StartIsFresh /\ ResultComesLast /\ GoesOnWithReason
  /\ FErrorInv /\ ReasonIsTrue

LEMMA RetryInit == Init => RetryInv
  <1> SUFFICES ASSUME Init PROVE RetryInv
    OBVIOUS
  <1>1. ebo \in [BackOff : Int, Max : Int, KeepErrs : Int, Jitter : BOOLEAN]
    <2>1. ebo \in [BackOff : BackOffs, Max : Maxes, KeepErrs : KeepErrs, Jitter : Jitters]
      BY DEF Init
    <2>2. /\ BackOffs \subseteq Int /\ Maxes \subseteq Int /\ KeepErrs \subseteq Int
          /\ Jitters \subseteq BOOLEAN
      BY RetryAssumption, DurationAssumption
    <2> QED
      BY <2>1, <2>2
  <1>2. retries \in Int
    BY RetryAssumption DEF Init
  <1>3. RetryTypes
    BY <1>1, <1>2, RetryAssumption DEF Init, RetryTypes, NoError
  <1> QED
    BY <1>3 DEF Init, RetryInv, StartIsFresh, ResultComesLast, GoesOnWithReason, FErrorInv,
                ReasonIsTrue, NoDeadline

\* A call of f that fails: the FError and the loop go on together.
LEMMA FailsKeeps ==
  ASSUME RetryInv, Fails PROVE RetryInv'
  <1> DEFINE n == Bounded(attempt + 1)
  <1>1. /\ pc = "calling" /\ attempt' = n /\ ebo' = Normalised /\ retries' = retries
        /\ ferr' = IF attempt = 0 THEN newFError(1) ELSE addErr(ferr, ebo.KeepErrs, n)
    BY DEF Fails
  <1>2. PICK d \in CallTimes : Spend(d) /\ NextAttempt(Normalised, n, LeftAfter(d))
    BY DEF Fails
  <1>3. /\ n \in 1 .. MaxAttempts /\ (attempt < MaxAttempts => n = attempt + 1)
        /\ attempt \in 0 .. MaxAttempts /\ (n < MaxAttempts => attempt < MaxAttempts)
        /\ MaxAttempts \in Nat \ {0}
    BY RetryAssumption DEF Bounded, RetryInv, RetryTypes
  <1>4. /\ Normalised \in [BackOff : Int, Max : Int \cup {MaxDuration}, KeepErrs : Int,
                            Jitter : BOOLEAN]
        /\ Normalised.KeepErrs = ebo.KeepErrs /\ ebo.KeepErrs \in Int
    <2>1. ebo \in [BackOff : Int, Max : Int \cup {MaxDuration}, KeepErrs : Int, Jitter : BOOLEAN]
      BY DEF RetryInv, RetryTypes
    <2> DEFINE max == IF ebo.Max <= 0 THEN MaxDuration ELSE ebo.Max
               wait1 == IF ebo.BackOff <= 0 THEN 1 ELSE ebo.BackOff
    <2>2. max \in Int \cup {MaxDuration} /\ wait1 \in Int
      BY <2>1
    <2>3. Normalised = [ebo EXCEPT !.Max = max, !.BackOff = wait1]
      BY <2>1 DEF Normalised
    <2> HIDE DEF max, wait1
    <2> QED
      BY <2>1, <2>2, <2>3
  <1>5. ctx' \in {"ok", "canceled", "deadline"}
    BY <1>2 DEF Spend, RetryInv, RetryTypes
  <1>6. \/ /\ ~MoreAttempts(n) /\ pc' = "returned" /\ result' = "ErrRetriesExceeded"
        \/ /\ MoreAttempts(n) /\ pc' = "returned" /\ result' = "ErrWaitExceedsDeadline"
           /\ left' # NoDeadline /\ wait' > left'
        \/ MoreAttempts(n) /\ pc' = "waiting" /\ result' = result
    BY <1>2 DEF NextAttempt, Return, Spend
  <1> HIDE DEF n
  <1>7. ferr \in FErrors /\ result = "none" /\ retries \in Int
    BY <1>1 DEF RetryInv, RetryTypes, FErrors, ResultComesLast
  <1>8. CASE attempt = 0
    <2>1. ferr' = newFError(1) /\ n = 1
      BY <1>1, <1>3, <1>8
    <2>2. ferr' \in FErrors /\ Latest(ferr', ebo.KeepErrs, 1) /\ CountOf(ferr', 1)
      BY <1>4, <2>1, FirstError
    <2>3. RetryTypes'
      BY <1>1, <1>3, <1>4, <1>5, <1>6, <1>7, <2>2 DEF RetryTypes, FErrors
    <2>4. FErrorInv'
      BY <1>1, <1>4, <2>1, <2>2 DEF FErrorInv
    <2>5. StartIsFresh' /\ ResultComesLast' /\ GoesOnWithReason'
      BY <1>1, <1>6, <1>7 DEF StartIsFresh, ResultComesLast, GoesOnWithReason, MoreAttempts
    <2>6. ReasonIsTrue'
      BY <1>1, <1>3, <1>6, <1>7, <2>1 DEF ReasonIsTrue, MoreAttempts
    <2> QED
      BY <2>3, <2>4, <2>5, <2>6 DEF RetryInv
  <1>9. CASE attempt > 0
    <2>1. ferr' = addErr(ferr, ebo.KeepErrs, n) /\ MoreAttempts(attempt)
      BY <1>1, <1>3, <1>9 DEF RetryInv, GoesOnWithReason
    <2>2. ferr' \in FErrors
      BY <1>3, <1>4, <1>7, <2>1, AddsAnError
    <2>3. ASSUME n < MaxAttempts
          PROVE  Latest(ferr', ebo.KeepErrs, n) /\ CountOf(ferr', n)
      <3>1. /\ attempt \in Nat \ {0} /\ n = attempt + 1
            /\ Latest(ferr, ebo.KeepErrs, attempt) /\ CountOf(ferr, attempt)
        BY <1>3, <1>9, <2>3 DEF RetryInv, FErrorInv
      <3> QED
        BY <1>4, <1>7, <2>1, <3>1, AddsLatest, AddsOne
    <2>4. RetryTypes'
      BY <1>1, <1>3, <1>4, <1>5, <1>6, <1>7, <2>2 DEF RetryTypes, FErrors
    <2>5. FErrorInv'
      BY <1>1, <1>4, <2>3 DEF FErrorInv
    <2>6. StartIsFresh' /\ ResultComesLast' /\ GoesOnWithReason'
      BY <1>1, <1>6, <1>7 DEF StartIsFresh, ResultComesLast, GoesOnWithReason, MoreAttempts
    <2>7. ReasonIsTrue'
      BY <1>1, <1>3, <1>6, <1>7, <1>9, <2>1 DEF ReasonIsTrue, MoreAttempts, Bounded
    <2> QED
      BY <2>4, <2>5, <2>6, <2>7 DEF RetryInv
  <1> QED
    BY <1>3, <1>8, <1>9

LEMMA RetryStep == RetryInv /\ [Next]_vars => RetryInv'
  <1> SUFFICES ASSUME RetryInv, [Next]_vars PROVE RetryInv'
    OBVIOUS
  <1> USE DEF RetryInv, RetryTypes, StartIsFresh, ResultComesLast, GoesOnWithReason,
              FErrorInv, ReasonIsTrue, MoreAttempts
  <1>1. CASE Expired
    BY <1>1 DEF Expired, Return
  <1>2. CASE FirstCall
    BY <1>2 DEF FirstCall
  <1>3. CASE Succeeds
    BY <1>3 DEF Succeeds, Return, Spend
  <1>4. CASE FailsForGood
    BY <1>4, FirstError DEF FailsForGood, Return, Spend, FErrors
  <1>5. CASE Fails
    BY <1>5, FailsKeeps
  <1>6. CASE Elapses
    BY <1>6 DEF Elapses
  <1>7. CASE NextCall
    BY <1>7 DEF NextCall
  <1>8. CASE Done
    BY <1>8 DEF Done, Return
  <1>9. CASE Cancel
    BY <1>9 DEF Cancel
  <1>10. CASE UNCHANGED vars
    BY <1>10 DEF vars
  <1> QED
    BY <1>1, <1>2, <1>3, <1>4, <1>5, <1>6, <1>7, <1>8, <1>9, <1>10 DEF Next

LEMMA RetryInvariant == Spec => []RetryInv
  BY RetryInit, RetryStep, PTL DEF Spec

---------------------------------------------------------------------------
(* The waits *)

\* The durations are the integers that fit in Bits + 1 bits.
LEMMA DurationBounds ==
  /\ MaxDuration \in Nat \ {0} /\ 2^(Bits + 1) \in Nat \ {0}
  /\ 2^(Bits + 1) = 2 * MaxDuration + 2
  <1>1. Bits \in Nat /\ Bits + 1 \in Nat /\ Bits - 1 \in Nat /\ (Bits - 1) + 1 = Bits
    BY RetryAssumption
  <1>2. 2^Bits \in Nat \ {0} /\ 2^(Bits + 1) \in Nat \ {0} /\ 2^(Bits - 1) \in Nat \ {0}
    BY <1>1, PowersArePositive
  <1>3. 2^(Bits + 1) = 2 * 2^Bits /\ 2^((Bits - 1) + 1) = 2 * 2^(Bits - 1)
    BY <1>1, PowersDouble
  <1>4. 2^Bits = 2 * 2^(Bits - 1)
    BY <1>1, <1>3
  <1> QED
    BY <1>2, <1>3, <1>4 DEF MaxDuration

\* A product that is a duration does not wrap.
LEMMA TimesIsExact ==
  ASSUME NEW d \in Nat, NEW s \in Nat, d * s <= MaxDuration
  PROVE  Times(d, s) = d * s
  <1> DEFINE p == d * s
             w == 2^(Bits + 1)
  <1>1. p \in Nat /\ p <= MaxDuration
    OBVIOUS
  <1>2. w \in Nat \ {0} /\ w = 2 * MaxDuration + 2 /\ MaxDuration \in Nat
    BY DurationBounds
  <1> HIDE DEF p, w
  <1>3. p % w = p
    BY <1>1, <1>2
  <1>4. Times(d, s) = LET q == p % w IN IF q > MaxDuration THEN q - w ELSE q
    BY DEF Times, p, w
  <1>5. ~(p > MaxDuration)
    BY <1>1, <1>2
  <1> QED
    BY <1>3, <1>4, <1>5 DEF p

\* The multiples are natural numbers, and there is one.
LEMMA MultiplesAreNatural ==
  ASSUME NEW b, b.Jitter \in BOOLEAN, NEW n \in 1 .. Bits
  PROVE  Multiples(b, n) \subseteq Nat
  <1>1. n \in Nat /\ n - 1 \in Nat
    BY RetryAssumption
  <1>2. 2^n \in Nat /\ 2^(n - 1) \in Nat
    BY <1>1, PowersArePositive
  <1> QED
    BY <1>2 DEF Multiples

\* The test of nextWait, BackOff > Max \div s, is exact: it holds for the products
\* that are longer than Max and for no other.
LEMMA DivisionIsExact ==
  ASSUME NEW d \in Nat, NEW m \in Nat, NEW s \in Nat \ {0}
  PROVE  d > m \div s <=> d * s > m
  <1> DEFINE q == m \div s
             r == m % s
  <1>1. q \in Int /\ r \in 0 .. s - 1 /\ m = s * q + r
    OBVIOUS
  <1> HIDE DEF q, r
  <1>2. CASE d > q
    <2>1. d >= q + 1
      BY <1>1, <1>2
    <2>2. s * d >= s * (q + 1)
      BY <1>1, <2>1
    <2>3. s * (q + 1) = s * q + s
      BY <1>1
    <2>4. s * d > m
      BY <1>1, <2>2, <2>3
    <2>5. d * s = s * d
      OBVIOUS
    <2> QED
      BY <1>2, <2>4, <2>5 DEF q
  <1>3. CASE ~(d > q)
    <2>1. d <= q
      BY <1>1, <1>3
    <2>2. s * d <= s * q
      BY <1>1, <2>1
    <2>3. s * d <= m
      BY <1>1, <2>2
    <2>4. d * s = s * d
      OBVIOUS
    <2> QED
      BY <1>3, <2>3, <2>4 DEF q
  <1> QED
    BY <1>2, <1>3

\* What nextWait chooses: the smaller of Max and the product of BackOff and a
\* multiple, although it multiplies in a fixed width.
LEMMA NextWaitIsBounded ==
  ASSUME NEW b \in [BackOff : Nat \ {0}, Max : 1 .. MaxDuration, KeepErrs : Int,
                    Jitter : BOOLEAN],
         NEW n \in Nat \ {0}, NEW w \in nextWait(b, n)
  PROVE  /\ w \in 0 .. b.Max
         /\ n < Bits => \E s \in Multiples(b, n) :
              w = IF b.BackOff * s < b.Max THEN b.BackOff * s ELSE b.Max
  <1>1. b.BackOff \in Nat \ {0} /\ b.Max \in Nat \ {0} /\ b.Max <= MaxDuration
        /\ b.Jitter \in BOOLEAN
    BY DurationBounds
  <1>2. CASE n >= Bits
    <2>1. w = b.Max
      BY <1>1, <1>2 DEF nextWait
    <2>2. ~(n < Bits)
      BY <1>2, RetryAssumption
    <2> QED
      BY <1>1, <2>1, <2>2
  <1>3. CASE ~(n >= Bits)
    <2>1. n \in 1 .. Bits
      BY <1>3, RetryAssumption
    <2>2. Multiples(b, n) \subseteq Nat
      BY <1>1, <2>1, MultiplesAreNatural
    <2>3. PICK s \in Multiples(b, n) :
            w = IF s > 0 /\ b.BackOff > b.Max \div s THEN b.Max ELSE Times(b.BackOff, s)
      <3>1. ~(n <= 0 \/ b.Max = 0) /\ ~(b.BackOff = 0 \/ n >= Bits)
        BY <1>1, <1>3
      <3> QED
        BY <3>1 DEF nextWait
    <2>4. s \in Nat
      BY <2>2
    <2> DEFINE p == b.BackOff * s
    <2>5. p \in Nat /\ (s = 0 => p = 0)
      BY <1>1, <2>4
    <2>6. s > 0 => (b.BackOff > b.Max \div s <=> p > b.Max)
      BY <1>1, <2>4, DivisionIsExact
    <2>7. p <= b.Max => Times(b.BackOff, s) = p
      <3>1. p <= b.Max => p <= MaxDuration
        BY <1>1, <2>5, DurationBounds
      <3> QED
        BY <1>1, <2>4, <3>1, TimesIsExact
    <2> HIDE DEF p
    <2>8. w = IF p < b.Max THEN p ELSE b.Max
      <3>1. CASE p > b.Max
        BY <1>1, <2>3, <2>4, <2>5, <2>6, <3>1
      <3>2. CASE ~(p > b.Max)
        <4>1. p <= b.Max
          BY <1>1, <2>5, <3>2
        <4>2. w = p
          BY <2>3, <2>4, <2>6, <2>7, <3>2, <4>1
        <4> QED
          BY <1>1, <2>5, <4>1, <4>2
      <3> QED
        BY <3>1, <3>2
    <2>9. w \in 0 .. b.Max
      BY <1>1, <2>5, <2>8
    <2> QED
      BY <2>8, <2>9 DEF p
  <1> QED
    BY <1>2, <1>3

\* The fields of ebo are durations, and positive once RetryWithCtx has normalised them.
PolicyIsSane ==
  /\ ebo.Max <= MaxDuration
  /\ attempt > 0 => ebo.Max > 0 /\ ebo.BackOff > 0

\* RetryWithCtx does not begin a wait that would end after the deadline.
WaitFits ==
  /\ wait \in Nat /\ left \in Nat \cup {NoDeadline}
  /\ (pc = "waiting" /\ left # NoDeadline) => wait <= left

WaitInv == PolicyIsSane /\ WaitFits /\ WaitIsBounded

LEMMA LeftIsNatural ==
  ASSUME left \in Nat \cup {NoDeadline}, NEW d \in CallTimes
  PROVE  LeftAfter(d) \in Nat \cup {NoDeadline}
  BY RetryAssumption DEF LeftAfter, NoDeadline

\* The defaults make a policy sane, and leave a sane policy alone.
LEMMA NormalisedIsSane ==
  ASSUME RetryTypes, PolicyIsSane
  PROVE  /\ Normalised \in [BackOff : Nat \ {0}, Max : 1 .. MaxDuration, KeepErrs : Int,
                            Jitter : BOOLEAN]
  <1>1. /\ ebo \in [BackOff : Int, Max : Int, KeepErrs : Int, Jitter : BOOLEAN]
        /\ ebo.Max <= MaxDuration
    BY DurationBounds DEF RetryTypes, PolicyIsSane
  <1> DEFINE max == IF ebo.Max <= 0 THEN MaxDuration ELSE ebo.Max
             first == IF ebo.BackOff <= 0 THEN 1 ELSE ebo.BackOff
  <1>2. max \in 1 .. MaxDuration /\ first \in Nat \ {0}
    BY <1>1, DurationBounds
  <1>3. Normalised = [ebo EXCEPT !.Max = max, !.BackOff = first]
    BY <1>1 DEF Normalised
  <1> HIDE DEF max, first
  <1> QED
    BY <1>1, <1>2, <1>3

LEMMA WaitInit == Init => WaitInv
  <1> SUFFICES ASSUME Init PROVE WaitInv
    OBVIOUS
  <1>1. ebo.Max \in Maxes /\ attempt = 0 /\ wait = 0 /\ pc = "start" /\ left \in Deadlines
    BY DEF Init
  <1>2. ebo.Max <= MaxDuration
    BY <1>1, DurationAssumption
  <1>3. left \in Nat \cup {NoDeadline}
    BY <1>1, RetryAssumption
  <1> QED
    BY <1>1, <1>2, <1>3
    DEF WaitInv, PolicyIsSane, WaitFits, WaitIsBounded

LEMMA FailsWaits ==
  ASSUME RetryTypes, WaitInv, Fails PROVE WaitInv'
  <1> DEFINE n == Bounded(attempt + 1)
  <1>1. pc = "calling" /\ attempt' = n /\ ebo' = Normalised
    BY DEF Fails
  <1>2. PICK d \in CallTimes : Spend(d) /\ NextAttempt(Normalised, n, LeftAfter(d))
    BY DEF Fails
  <1>3. n \in Nat \ {0}
    BY RetryAssumption DEF Bounded, RetryTypes
  <1> HIDE DEF n
  <1>4. ebo' \in [BackOff : Nat \ {0}, Max : 1 .. MaxDuration, KeepErrs : Int, Jitter : BOOLEAN]
    BY <1>1, NormalisedIsSane DEF WaitInv
  <1>5. PolicyIsSane'
    BY <1>4, DurationBounds DEF PolicyIsSane
  <1>6. left' = LeftAfter(d) /\ left' \in Nat \cup {NoDeadline}
    BY <1>2, LeftIsNatural DEF Spend, WaitInv, WaitFits
  <1>7. CASE ~MoreAttempts(n)
    <2>1. wait' = wait /\ pc' = "returned"
      BY <1>2, <1>7 DEF NextAttempt, Return
    <2> QED
      BY <1>5, <1>6, <2>1 DEF WaitInv, WaitFits, WaitIsBounded
  <1>8. CASE MoreAttempts(n)
    <2>1. /\ wait' \in nextWait(ebo', n)
          /\ pc' = "waiting" => ~(left' # NoDeadline /\ wait' > left')
      BY <1>1, <1>2, <1>6, <1>8 DEF NextAttempt, Return
    <2>2. /\ wait' \in 0 .. ebo'.Max
          /\ n < Bits => \E s \in Multiples(ebo', n) :
               wait' = IF ebo'.BackOff * s < ebo'.Max THEN ebo'.BackOff * s ELSE ebo'.Max
      BY <1>3, <1>4, <2>1, NextWaitIsBounded
    <2>3. ebo'.Max \in Nat
      BY <1>4, DurationBounds
    <2>4. WaitFits'
      BY <1>6, <2>1, <2>2, <2>3 DEF WaitFits, NoDeadline
    <2>5. WaitIsBounded'
      <3>1. 0 <= wait' /\ wait' <= ebo'.Max
        BY <2>2, <2>3
      <3> QED
        BY <1>1, <2>2, <3>1 DEF WaitIsBounded, Multiples
    <2> QED
      BY <1>5, <2>4, <2>5 DEF WaitInv
  <1> QED
    BY <1>7, <1>8

LEMMA WaitStep == RetryTypes /\ WaitInv /\ [Next]_vars => WaitInv'
  <1> SUFFICES ASSUME RetryTypes, WaitInv, [Next]_vars PROVE WaitInv'
    OBVIOUS
  <1> USE DEF WaitInv, PolicyIsSane, WaitFits, WaitIsBounded, Multiples
  <1>1. CASE Expired
    BY <1>1 DEF Expired, Return
  <1>2. CASE FirstCall
    BY <1>2 DEF FirstCall
  <1>3. CASE Succeeds
    BY <1>3, LeftIsNatural DEF Succeeds, Return, Spend
  <1>4. CASE FailsForGood
    BY <1>4, LeftIsNatural DEF FailsForGood, Return, Spend
  <1>5. CASE Fails
    BY <1>5, FailsWaits
  <1>6. CASE Elapses
    BY <1>6 DEF Elapses, NoDeadline
  <1>7. CASE NextCall
    BY <1>7 DEF NextCall
  <1>8. CASE Done
    BY <1>8 DEF Done, Return
  <1>9. CASE Cancel
    BY <1>9 DEF Cancel
  <1>10. CASE UNCHANGED vars
    BY <1>10 DEF vars
  <1> QED
    BY <1>1, <1>2, <1>3, <1>4, <1>5, <1>6, <1>7, <1>8, <1>9, <1>10 DEF Next

LEMMA WaitInvariant == Spec => []WaitInv
  <1>1. RetryInv => RetryTypes
    BY DEF RetryInv
  <1> QED
    BY <1>1, RetryInvariant, WaitInit, WaitStep, PTL DEF Spec

---------------------------------------------------------------------------

\* FError holds the errors of the latest calls, in their order, as many as KeepErrs
\* allows, for every KeepErrs and any number of calls (retry.go:135-154).
THEOREM RingKeepsLatest == Spec => []KeepsLatest
  <1>1. RetryInv => KeepsLatest
    BY FErrorParts DEF RetryInv
  <1> QED
    BY <1>1, RetryInvariant, PTL

\* The count of attempts does not overflow (retry.go:136-138).
THEOREM CountSaturates == Spec => []AttemptsSaturate
  <1>1. RetryInv => AttemptsSaturate
    BY FErrorParts DEF RetryInv
  <1> QED
    BY <1>1, RetryInvariant, PTL

\* What RetryWithCtx returns is why it has stopped.
THEOREM RetryTellsWhy == Spec => []ReasonIsTrue
  <1>1. RetryInv => ReasonIsTrue
    BY DEF RetryInv
  <1> QED
    BY <1>1, RetryInvariant, PTL

\* A wait is never negative and never longer than Max, and it is the smaller of Max and
\* the product it stands for, for every width of the integers and every policy: the
\* test before the multiplication (retry.go:390-418) leaves no product that wraps.
THEOREM NoWaitWraps == Spec => []WaitIsBounded
  <1>1. WaitInv => WaitIsBounded
    BY DEF WaitInv
  <1> QED
    BY <1>1, WaitInvariant, PTL

\* Every variable keeps its type; the time left never becomes negative, since
\* RetryWithCtx begins no wait that would outlast the deadline (retry.go:344-348).
THEOREM RetryIsTyped == Spec => []TypeOK
  <1>1. RetryInv /\ WaitInv => TypeOK
    <2> SUFFICES ASSUME RetryInv, WaitInv PROVE TypeOK
      OBVIOUS
    <2>1. MaxDuration \in Int
      BY DurationBounds
    <2> QED
      BY <2>1 DEF RetryInv, RetryTypes, WaitInv, WaitFits, TypeOK
  <1> QED
    BY <1>1, RetryInvariant, WaitInvariant, PTL
=============================================================================

------------------------------- MODULE Retry -------------------------------
(***************************************************************************)
(* internal/retry: ExpBackOff.RetryWithCtx.  A function f is called, and   *)
(* called again after a wait that grows exponentially, until it succeeds,  *)
(* fails for good, has been called often enough, or its context is over.   *)
(* The errors of the failed calls are numbered 1, 2, ... in the order of   *)
(* the calls; FError keeps some of them in a ring.                         *)
(***************************************************************************)
EXTENDS Integers, Sequences

CONSTANTS
  BackOffs, Maxes, KeepErrs, Jitters,  \* the values of the fields of ExpBackOff
  RetryCounts,     \* the values of the argument retries
  Deadlines,       \* how far away the context's deadline is; NoDeadline for none
  CallTimes,       \* how long a call of f may take
  Bits,            \* a time.Duration is a signed integer of Bits + 1 bits (63 + 1)
  MaxInt,          \* the largest int
  MaxAttempts      \* bound: failed calls are counted up to this number

Forever == -1
NoDeadline == -1
MaxDuration == 2^Bits - 1

ASSUME RetryAssumption ==
  /\ KeepErrs \subseteq Int
  /\ Jitters \subseteq BOOLEAN /\ RetryCounts \subseteq Int
  /\ Deadlines \subseteq Nat \cup {NoDeadline} /\ CallTimes \subseteq Nat
  /\ Bits \in Nat \ {0} /\ MaxInt \in Nat /\ MaxAttempts \in Nat \ {0}

\* BackOff and Max are time.Durations.
ASSUME DurationAssumption ==
  /\ BackOffs \subseteq Int /\ Maxes \subseteq Int
  /\ \A d \in BackOffs \cup Maxes : d <= MaxDuration

VARIABLES
  ebo,       \* the ExpBackOff, as RetryWithCtx has normalised it
  retries,   \* how often f may be called
  ctx,       \* "ok", or why the context is over: "canceled" or "deadline"
  left,      \* the time left before the deadline, or NoDeadline
  pc,        \* where RetryWithCtx is
  attempt,   \* the loop variable: how many calls have failed
  wait,      \* what nextWait chose last
  ferr,      \* the FError: the ring Others, last and Attempts
  result     \* what RetryWithCtx returned: "none", "nil", or the MainErr

vars == <<ebo, retries, ctx, left, pc, attempt, wait, ferr, result>>

NoError == [Others |-> <<>>, last |-> 0, Attempts |-> 0]

Init ==
  /\ ebo \in [BackOff : BackOffs, Max : Maxes, KeepErrs : KeepErrs, Jitter : Jitters]
  /\ retries \in RetryCounts
  /\ ctx = "ok"
  /\ left \in Deadlines
  /\ pc = "start"
  /\ attempt = 0
  /\ wait = 0
  /\ ferr = NoError
  /\ result = "none"

---------------------------------------------------------------------------
(* FError *)

newFError(err) == [Others |-> <<err>>, last |-> 0, Attempts |-> 0]

\* Attempts + 1 is not positive once it has overflowed.
Wrapped(n) == IF n = MaxInt THEN -MaxInt - 1 ELSE n + 1
Saturated(n) == IF n = MaxInt THEN n ELSE n + 1

Counted(e) == [e EXCEPT !.Attempts = Saturated(@)]
addErrInPlace(e, max, err) ==
  [Counted(e) EXCEPT !.Others = IF max = 0 THEN @
                                ELSE IF Len(@) < max THEN Append(@, err)
                                ELSE [@ EXCEPT ![e.last + 1] = err]]
addErr(e, max, err) ==
  IF max = 0 THEN Counted(e)
  ELSE IF Len(e.Others) < max
  THEN [Counted(e) EXCEPT !.Others = Append(@, err)]
  ELSE [Counted(e) EXCEPT !.Others = [@ EXCEPT ![e.last + 1] = err],
                          !.last = IF @ + 1 >= Len(e.Others) THEN 0 ELSE @ + 1]

---------------------------------------------------------------------------
(* nextWait *)

\* The product of two durations, in Bits + 1 bits.
Times(d, n) ==
  LET p == (d * n) % 2^(Bits + 1)
  IN  IF p > MaxDuration THEN p - 2^(Bits + 1) ELSE p

\* The multiples of b.BackOff that may be waited after n failed calls.
Multiples(b, n) == IF b.Jitter THEN 0 .. 2^n - 1 ELSE {2^(n - 1)}

nextWaitUnchecked(b, n) ==
  IF b.BackOff = 0 \/ n >= Bits THEN {b.Max}
  ELSE { Times(b.BackOff, s) : s \in Multiples(b, n) }

\* The waits nextWait may choose after n failed calls.
nextWait(b, n) ==
  IF n <= 0 \/ b.Max = 0 THEN {0}
  ELSE IF b.BackOff = 0 \/ n >= Bits THEN {b.Max}
  ELSE { IF s > 0 /\ b.BackOff > b.Max \div s
         THEN b.Max ELSE Times(b.BackOff, s) : s \in Multiples(b, n) }

---------------------------------------------------------------------------
(* RetryWithCtx *)

Return(r) == pc' = "returned" /\ result' = r

\* The context is already over: f is not called and Others stays empty.
Expired ==
  /\ pc = "start" /\ ctx # "ok"
  /\ Return(ctx)
  /\ UNCHANGED <<ebo, retries, ctx, left, attempt, wait, ferr>>

FirstCall ==
  /\ pc = "start" /\ ctx = "ok"
  /\ pc' = "calling"
  /\ UNCHANGED <<ebo, retries, ctx, left, attempt, wait, ferr, result>>

\* f runs for d, which may take it past the deadline.
LeftAfter(d) == IF left = NoDeadline THEN left ELSE IF d > left THEN 0 ELSE left - d
Spend(d) ==
  /\ left' = LeftAfter(d)
  /\ ctx' = IF ctx = "ok" /\ left # NoDeadline /\ d > left THEN "deadline" ELSE ctx

Succeeds ==
  /\ pc = "calling"
  /\ \E d \in CallTimes : Spend(d)
  /\ Return("nil")
  /\ UNCHANGED <<ebo, retries, attempt, wait, ferr>>

\* f fails for good.  Only the error of the first call is kept in Others, under
\* ErrRetriesExceeded; that of a later call becomes the MainErr.
FailsForGood ==
  /\ pc = "calling"
  /\ \E d \in CallTimes : Spend(d)
  /\ IF attempt = 0 THEN ferr' = newFError(1) /\ Return("ErrRetriesExceeded")
     ELSE ferr' = ferr /\ Return("err")
  /\ UNCHANGED <<ebo, retries, attempt, wait>>

MoreAttemptsOneOff(n) == retries = Forever \/ n <= retries
MoreAttempts(n) == retries = Forever \/ n < retries

\* The head of the loop, after n failed calls, with b for ebo and t left of the context.
NextAttempt(b, n, t) ==
  IF ~MoreAttempts(n) THEN Return("ErrRetriesExceeded") /\ wait' = wait
  ELSE \E w \in nextWait(b, n) :
         /\ wait' = w
         /\ IF t # NoDeadline /\ w > t THEN Return("ErrWaitExceedsDeadline")
            ELSE pc' = "waiting" /\ result' = result

Bounded(n) == IF n < MaxAttempts THEN n ELSE MaxAttempts

\* ebo, with the defaults that the first failed call gives it.
Normalised ==
  [ebo EXCEPT !.Max = IF @ <= 0 THEN MaxDuration ELSE @,
              !.BackOff = IF @ <= 0 THEN 1 ELSE @]

\* f fails and may be called again.
Fails ==
  /\ pc = "calling"
  /\ LET n == Bounded(attempt + 1)
     IN  /\ attempt' = n
         /\ ferr' = IF attempt = 0 THEN newFError(1) ELSE addErr(ferr, ebo.KeepErrs, n)
         /\ \E d \in CallTimes : Spend(d) /\ NextAttempt(Normalised, n, LeftAfter(d))
  /\ ebo' = Normalised
  /\ retries' = retries

\* The timer of the wait fires.
Elapses ==
  /\ pc = "waiting"
  /\ pc' = "fired"
  /\ left' = IF left = NoDeadline THEN left ELSE left - wait
  /\ UNCHANGED <<ebo, retries, ctx, attempt, wait, ferr, result>>

\* select chooses the timer, though the context may be over too.
NextCall ==
  /\ pc = "fired"
  /\ pc' = "calling"
  /\ UNCHANGED <<ebo, retries, ctx, left, attempt, wait, ferr, result>>

DoneByDeadline ==
  /\ pc \in {"waiting", "fired"} /\ ctx = "deadline"
  /\ Return(ctx)
  /\ UNCHANGED <<ebo, retries, ctx, left, attempt, wait, ferr>>

\* select chooses the context, though the timer may have fired too.
Done ==
  /\ pc \in {"waiting", "fired"} /\ ctx # "ok"
  /\ Return(ctx)
  /\ UNCHANGED <<ebo, retries, ctx, left, attempt, wait, ferr>>

\* The owner of the context cancels it, or its deadline passes.
Cancel ==
  /\ ctx = "ok" /\ pc # "returned"
  /\ \/ ctx' = "canceled"
     \/ left = 0 /\ ctx' = "deadline"
  /\ UNCHANGED <<ebo, retries, left, pc, attempt, wait, ferr, result>>

Next ==
  \/ Expired \/ FirstCall \/ Succeeds \/ FailsForGood \/ Fails
  \/ Elapses \/ NextCall \/ Done \/ Cancel

Spec == Init /\ [][Next]_vars

\* f returns; timers fire; and select, which chooses at random among the cases
\* that are ready, does not pass over the context for ever.
Fairness ==
  /\ WF_vars(Expired \/ FirstCall)
  /\ WF_vars(Succeeds \/ FailsForGood \/ Fails)
  /\ WF_vars(Elapses)
  /\ WF_vars(NextCall)
  /\ SF_vars(Done)

FairSpec == Spec /\ Fairness

---------------------------------------------------------------------------
(* Properties *)

TypeOK ==
  /\ ebo \in [BackOff : Int, Max : Int, KeepErrs : Int, Jitter : BOOLEAN]
  /\ retries \in Int
  /\ ctx \in {"ok", "canceled", "deadline"}
  /\ left \in Nat \cup {NoDeadline}
  /\ pc \in {"start", "calling", "waiting", "fired", "returned"}
  /\ attempt \in 0 .. MaxAttempts
  /\ wait \in Int
  /\ ferr \in [Others : Seq(Nat), last : Nat, Attempts : Int]
  /\ result \in {"none", "nil", "canceled", "deadline", "err",
                 "ErrRetriesExceeded", "ErrWaitExceedsDeadline"}

\* How many errors addErr keeps of n: KeepErrs of them, and one when that is negative.
Kept(n) ==
  IF ebo.KeepErrs <= 1 THEN 1 ELSE IF n <= ebo.KeepErrs THEN n ELSE ebo.KeepErrs

\* The place in the order of the calls, from 1, of the error in slot i of the ring.
Age(i) == IF i > ferr.last THEN i - ferr.last ELSE i - ferr.last + Len(ferr.Others)

\* Others never holds anything but the errors of the latest calls that failed, as
\* many as KeepErrs allows, each once, and last points to the oldest of them: the
\* ring of addErr (retry.go:135-154) does not lose a recent error or keep a stale
\* one when it wraps.  With KeepErrs 0 it is the first error that stays.
KeepsLatest ==
  (0 < attempt /\ attempt < MaxAttempts) =>
    IF ebo.KeepErrs = 0 THEN ferr.Others = <<1>> /\ ferr.last = 0
    ELSE /\ Len(ferr.Others) = Kept(attempt)
         /\ ferr.last \in 0 .. Len(ferr.Others) - 1
         /\ \A i \in 1 .. Len(ferr.Others) :
              ferr.Others[i] = attempt - Len(ferr.Others) + Age(i)

\* Attempts counts the failed calls after the first one, and stops at the largest
\* int instead of wrapping to a negative number (retry.go:136-138).
AttemptsSaturate ==
  (0 < attempt /\ attempt < MaxAttempts) =>
    ferr.Attempts = IF attempt - 1 <= MaxInt THEN attempt - 1 ELSE MaxInt

\* What RetryWithCtx returns is why it stopped: ErrRetriesExceeded only after as
\* many calls as were asked for (or a first call that failed for good, the only
\* one whose error is not reported as such), ErrWaitExceedsDeadline only if the
\* wait would end after the deadline, the context's error only if it is over.
ReasonIsTrue ==
  /\ result = "ErrRetriesExceeded" =>
       \/ attempt = 0
       \/ retries # Forever /\ attempt = IF retries > 1 THEN Bounded(retries) ELSE 1
  /\ result = "ErrWaitExceedsDeadline" => left # NoDeadline /\ wait > left
  /\ result \in {"canceled", "deadline"} => ctx = result
  /\ result = "err" => attempt > 0

\* A wait is never negative and never longer than Max, whatever the product of
\* BackOff and the multiple does in a signed integer of fixed width, and it is
\* the smaller of that product and Max (retry.go:390-418).
WaitIsBounded ==
  pc = "waiting" =>
    /\ 0 <= wait /\ wait <= ebo.Max
    /\ attempt < Bits => \E s \in Multiples(ebo, attempt) :
         wait = IF ebo.BackOff * s < ebo.Max THEN ebo.BackOff * s ELSE ebo.Max

\* Once its context is over, RetryWithCtx returns, also when it retries Forever,
\* if the call of f that may be running returns.
CancelEnds == ctx # "ok" ~> pc = "returned"
=============================================================================

------------------------------ MODULE MCRetry ------------------------------
(* Values of ExpBackOff and of the arguments that TLC enumerates. *)
EXTENDS Retry

SomeKeepErrs == {-1, 0, 1, 2, 3}
SomeRetries == {Forever, 0, 1, 3, 5}
SomeDeadlines == {NoDeadline, 3, 20}
=============================================================================

----------------------------- MODULE MCSession ------------------------------
(* LLRPSession, and what its comments claim, on small instances. *)
EXTENDS LLRPClaims, TLC

(* The senders of the runs are alike: all have a deadline or none has. *)
SenderSymmetry == Permutations(Senders)

(* Readers of either version, in or out of the Client's version. *)
AllReaderVersions == {<<1, 1>>, <<1, 2>>, <<2, 2>>}

(* A reader that starts at 1.0.1 and must be told to use 1.1. *)
NewReader == {<<1, 2>>}
=============================================================================

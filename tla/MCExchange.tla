----------------------------- MODULE MCExchange -----------------------------
(* Every message and every parameter of the package. *)
EXTENDS LLRPExchange

AllKinds == Messages \cup Parameters

=============================================================================

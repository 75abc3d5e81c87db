------------------------------ MODULE MCFraming -----------------------------
(***************************************************************************)
(* A message without payload, one with a short payload of the greatest     *)
(* bytes, one whose payload looks like a header and is too large to        *)
(* buffer, and CloseConnection.                                            *)
(***************************************************************************)
EXTENDS LLRPFraming

KeepAlive == [version |-> 1, typ |-> 62, id |-> 7, payload |-> <<>>]
Response == [version |-> 2, typ |-> 1023, id |-> 2147483647, payload |-> <<255, 255>>]
Report == [version |-> 1, typ |-> 61, id |-> 256, payload |-> MarshalHeader(HeaderOf(KeepAlive))]
CloseConnection == [version |-> 1, typ |-> 14, id |-> 0, payload |-> <<>>]

SomeMessages == {KeepAlive, Response, Report, CloseConnection}

=============================================================================

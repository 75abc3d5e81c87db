----------------------------- MODULE LLRPClaims -----------------------------
(***************************************************************************)
(* What the comments of pkg/llrp/reader.go and pkg/llrp/messages.go say of *)
(* a Client and its code does not do.  Each is a property of LLRPSession   *)
(* that a run finds violated.                                              *)
(***************************************************************************)
EXTENDS LLRPSession

(***************************************************************************)
(* reader.go, SendMessage: "It awaits a response to the message, then      *)
(* buffers and returns it."  passToHandler looks at the message ID only,   *)
(* so any message of the reader that happens to carry it is returned.      *)
(***************************************************************************)
SendMessageReturnsItsResponse ==
  \A p \in Senders :
    op[p] = "SendMessage" /\ outcome[p] = "reply" =>
      reply[p].type \in {"GetReaderConfigResponse", "ErrorMessage"}

(***************************************************************************)
(* reader.go, Connect: it blocks "until either it encounters an error or   *)
(* the Client is closed".  While it negotiates it does not look at the     *)
(* errors of its goroutines, so without a timeout it blocks for ever.      *)
(***************************************************************************)
ConnectReturnsAfterError == errs # <<>> ~> connPc = "returned"

(***************************************************************************)
(* reader.go, handleIncoming: "EOF/io.Timeout after CloseConnection should *)
(* wait for reader to close".                                              *)
(***************************************************************************)
TimeoutAfterCloseWaits ==
  [][receivedClosed /\ inPc = "read" /\ inPc' = "stopped"
       => peer = "closed" \/ ~connOpen]_vars

(***************************************************************************)
(* reader.go, send: "the response payload is non-nil; however, if          *)
(* payloadLen is zero, it will return EOF immediately".  The payload of an *)
(* oversize reply is nil, and getSupportedVersion reads from it.           *)
(***************************************************************************)
RepliesHavePayloads == crash # "nilPayload"

(***************************************************************************)
(* reader.go, Client.version: "sent in headers; established during         *)
(* negotiation".  newMessage has put VersionMin in every request already,  *)
(* and only a header without a version gets the Client's.                  *)
(***************************************************************************)
RequestsCarryNegotiatedVersion ==
  \A i \in DOMAIN wire :
    ready /\ wire[i].type \notin VersionRequests \cup {"KeepAliveAck"} =>
      wire[i].version = version

(***************************************************************************)
(* reader.go, Shutdown: "if only a single code path can call Shutdown, if  *)
(* it returns an error, then Connect will also return an error that does   *)
(* NOT wrap ErrClientClosed".  Not if Close follows, as in its example.    *)
(***************************************************************************)
FailedShutdownFailsConnect ==
  \A p \in Senders :
    /\ op[p] = "Shutdown" /\ outcome[p] \in {"rejected", "expired"}
    /\ \A q \in Senders \ {p} : op[q] # "Shutdown"
    => connErr # "closed"

(***************************************************************************)
(* reader.go, send: "If the connection closes while you're waiting to send *)
(* or awaiting the reply, you'll receive an error wrapping                 *)
(* ErrClientClosed."  Not if it closes after, or within, the response to   *)
(* CloseConnection: both goroutines then wait for a Close.                 *)
(***************************************************************************)
HangupReleasesCallers ==
  \A p \in Senders : (peer = "closed" /\ phase[p] = "await") ~> phase[p] # "await"

=============================================================================

---------------------------- MODULE LLRPSession -----------------------------
(***************************************************************************)
(* One LLRP connection: a Client (LLRPClient) and the reader it talks to.  *)
(* The reader is not part of the program; it is modelled from what the     *)
(* Client must expect of it: it may refuse the connection, answer requests *)
(* in any order or not at all, send messages nobody asked for under IDs of *)
(* its own choice, and hang up at any moment, within a message too.        *)
(***************************************************************************)
EXTENDS LLRPClient

CONSTANTS
  ReplyBodies,      \* how the reader may answer
  UnsolicitedIds,   \* the IDs it uses for its own messages
  MaxUnsolicited    \* bound: how many of those it sends

ASSUME ReaderAssumption ==
  /\ ReplyBodies \subseteq Bodies
  /\ UnsolicitedIds \subseteq Ids
  /\ MaxUnsolicited \in Nat

VARIABLES
  answered,         \* the positions in wire the reader has answered
  unsolicited       \* how many messages of its own it has sent

vars == <<clientVars, answered, unsolicited>>

Hello(body) == [type |-> "ReaderEventNotification", id |-> 0, body |-> body]

(* The reader may accept or refuse the connection, or stay silent. *)
Init ==
  /\ ClientInit
  /\ stream \in {<<Hello("ok")>>, <<Hello("rejected")>>, <<>>}
  /\ wire = <<>> /\ peer = "up" /\ connOpen = TRUE
  /\ answered = {} /\ unsolicited = 0

-----------------------------------------------------------------------------
(* The reader                                                              *)

(***************************************************************************)
(* A reader that cannot do what it is asked answers with an ErrorMessage;  *)
(* one limited to version 1.0.1 so answers the negotiation.                *)
(***************************************************************************)
Replies(request) ==
  LET errors == {"rejected"} \cup
                  (IF request.type \in VersionRequests THEN {"unsupported"} ELSE {})
  IN  {[type |-> Converse[request.type], id |-> request.id, body |-> b] :
         b \in ReplyBodies \ {"unsupported"}}
      \cup {[type |-> "ErrorMessage", id |-> request.id, body |-> b] :
         b \in ReplyBodies \cap errors}

(* A reply cut short is the last thing the reader sends. *)
Answer(i) ==
  /\ peer = "up"
  /\ i \notin answered /\ wire[i].type \in AwaitedRequests
  /\ answered' = answered \cup {i}
  /\ \E m \in Replies(wire[i]) :
       /\ stream' = Append(stream, m)
       /\ peer' = IF m.body = "cut" THEN "closed" ELSE "up"
  /\ UNCHANGED <<connectVars, done, outgoingVars, incomingVars, awaiting, ackVars,
                 replyVars, callVars, wire, connOpen, crash, unsolicited>>

(* Once it has accepted the connection, the reader sends KeepAlives and reports. *)
Notify ==
  /\ peer = "up" /\ unsolicited < MaxUnsolicited
  /\ outPc # "off"
  /\ unsolicited' = unsolicited + 1
  /\ \E t \in UnsolicitedTypes, i \in UnsolicitedIds :
       stream' = Append(stream, [type |-> t, id |-> i, body |-> "ok"])
  /\ UNCHANGED <<connectVars, done, outgoingVars, incomingVars, awaiting, ackVars,
                 replyVars, callVars, wire, peer, connOpen, crash, answered>>

Hangup ==
  /\ peer = "up"
  /\ peer' = "closed"
  /\ UNCHANGED <<connectVars, done, outgoingVars, incomingVars, awaiting, ackVars,
                 replyVars, callVars, stream, wire, connOpen, crash, answered,
                 unsolicited>>

(* Connect does not close its net.Conn; the code that dialled it does. *)
OwnerCloses ==
  /\ connPc = "returned" /\ connOpen
  /\ connOpen' = FALSE
  /\ UNCHANGED <<connectVars, done, outgoingVars, incomingVars, awaiting, ackVars,
                 replyVars, callVars, stream, wire, peer, crash, answered, unsolicited>>

-----------------------------------------------------------------------------
ClientStep ==
  /\ \/ ConnectStep \/ OutgoingStep \/ IncomingStep
     \/ \E p \in Callers : CallerStep(p)
     \/ \E p \in Senders, o \in Operations : Begin(p, o)
  /\ UNCHANGED <<answered, unsolicited>>

ReaderStep == (\E i \in DOMAIN wire : Answer(i)) \/ Notify \/ Hangup

(* Nothing is left to do: Connect has returned and so has everyone else. *)
Finished ==
  /\ connPc = "returned" /\ ~connOpen
  /\ outPc \in {"off", "stopped"} /\ inPc \in {"off", "stopped"}
  /\ \A p \in Callers : phase[p] \in {"idle", "returned"}

(***************************************************************************)
(* Both goroutines have been left waiting for a Close, by the end of the   *)
(* connection after CloseConnection: without one this is the end, even for *)
(* callers that wait without a deadline.                                   *)
(***************************************************************************)
Abandoned ==
  connPc = "serve" /\ ~done /\ outPc = "parked" /\ inPc = "parked" /\ errs = <<>>

Crashed == crash # "none"

Rest == (Finished \/ Abandoned \/ Crashed) /\ UNCHANGED vars

Next ==
  \/ crash = "none" /\ (ClientStep \/ ReaderStep \/ OwnerCloses)
  \/ Rest

(* The scheduler runs every goroutine, and time passes. *)
Fairness ==
  /\ WF_vars(ConnectStep /\ UNCHANGED <<answered, unsolicited>>)
  /\ WF_vars(OutgoingStep /\ UNCHANGED <<answered, unsolicited>>)
  /\ WF_vars(IncomingStep /\ UNCHANGED <<answered, unsolicited>>)
  /\ WF_vars(OwnerCloses)
  /\ \A p \in Callers :
       WF_vars(CallerStep(p) /\ UNCHANGED <<answered, unsolicited>>)

Spec == Init /\ [][Next]_vars
FairSpec == Spec /\ Fairness

-----------------------------------------------------------------------------
(* Types                                                                   *)

CallerPhases == {"idle", "gate", "offer", "await", "close", "returned"}
Outcomes == {"none", "reply", "zero", "ok", "closed", "expired", "rejected"}

ConnectTypeOK ==
  /\ connPc \in {"idle", "hello", "refused", "getVersion", "setVersion", "open",
                 "serve", "join", "returned"}
  /\ connErr \in {"none", "closed", "error"}
  /\ errs \in Seq({"closed", "error"})
  /\ ready \in BOOLEAN /\ done \in BOOLEAN
  /\ version \in Versions

GoroutineTypeOK ==
  /\ outPc \in {"off", "pick", "wait", "write", "parked", "stopped"}
  /\ outMsg \in Outgoing(Ids) /\ nextMsgID \in Ids
  /\ inPc \in {"off", "check", "read", "deliver", "handle", "parked", "stopped"}
  /\ inMsg \in Incoming(Ids) /\ inTarget \in Callers \cup {NoCaller}
  /\ inPc = "deliver" => inTarget \in Callers
  /\ receivedClosed \in BOOLEAN
  /\ awaiting \in [Ids -> Callers \cup {NoCaller}]
  /\ ackQueue \in Seq(Ids) /\ Len(ackQueue) <= AckQueueSize
  /\ bypassed \in Nat
  /\ crash \in {"none", "channel", "nilPayload"}

CallTypeOK ==
  /\ phase \in [Callers -> CallerPhases]
  /\ op \in [Callers -> Requests \cup {"Close"}]
  /\ mid \in [Callers -> Ids]
  /\ chan \in [Callers -> {"none", "open", "full", "closed"}]
  /\ reply \in [Callers -> Incoming(Ids)]
  /\ outcome \in [Callers -> Outcomes]
  /\ \A p \in Callers : phase[p] \in {"gate", "offer", "await"} => op[p] \in Requests

NetworkTypeOK ==
  /\ stream \in Seq(Incoming(Ids))
  /\ wire \in Seq(Outgoing(Ids))
  /\ peer \in {"up", "closed"} /\ connOpen \in BOOLEAN
  /\ answered \subseteq DOMAIN wire /\ unsolicited \in 0 .. MaxUnsolicited

(* Every variable has its type; so do the messages in every queue. *)
TypeOK == ConnectTypeOK /\ GoroutineTypeOK /\ CallTypeOK /\ NetworkTypeOK

-----------------------------------------------------------------------------
(* Safety                                                                  *)

(***************************************************************************)
(* A reply and a cancellation race for the same replyChan, one to send on  *)
(* it and close it, the other to close it: whoever removes the entry from  *)
(* the awaiting map owns the channel, so it is neither closed twice nor    *)
(* sent on after it was closed, which would end the process (reader.go,    *)
(* handleOutgoing's cancel and passToHandler).                             *)
(***************************************************************************)
NoChannelPanic == crash # "channel"

(***************************************************************************)
(* Why it cannot happen, whatever the IDs, even when they wrap: each       *)
(* replyChan has one owner at most, an entry of the awaiting map or the    *)
(* delivery in progress, and an owned channel is open (reader.go,          *)
(* handleOutgoing, passToHandler and send).                                *)
(***************************************************************************)
EntryOwnsItsChannel ==
  \A i \in Ids :
    awaiting[i] # NoCaller =>
      chan[awaiting[i]] = "open" /\ mid[awaiting[i]] = i

DeliveryOwnsItsChannel ==
  inPc = "deliver" =>
    /\ chan[inTarget] = "open"
    /\ \A i \in Ids : awaiting[i] # inTarget

(* A caller whose request was not taken has no channel anyone could use. *)
OfferedHasNoChannel ==
  \A p \in Callers :
    phase[p] \in {"idle", "gate", "offer"} =>
      /\ \A i \in Ids : awaiting[i] # p
      /\ inPc = "deliver" => inTarget # p

(* The goroutine that negotiates has read its reply before it sends again. *)
NegotiatorIsDoneWaiting ==
  /\ connPc \in {"idle", "hello"} => phase[Conn] = "idle"
  /\ phase[Conn] = "returned" /\ outcome[Conn] = "reply" => chan[Conn] = "full"

ChannelOwnership ==
  /\ EntryOwnsItsChannel
  /\ DeliveryOwnsItsChannel
  /\ OfferedHasNoChannel
  /\ NegotiatorIsDoneWaiting

(***************************************************************************)
(* A caller that still waits can still be answered: it is registered under *)
(* its message ID, or its reply is being delivered (reader.go,             *)
(* handleOutgoing and passToHandler).  A reply cut short, or IDs that      *)
(* wrap, break it.                                                         *)
(***************************************************************************)
WaitersAreReachable ==
  \A p \in Callers :
    phase[p] = "await" =>
      \/ awaiting[mid[p]] = p
      \/ inPc = "deliver" /\ inTarget = p
      \/ chan[p] = "full"

(***************************************************************************)
(* What a caller gets is an answer to its own request: the ID is the one   *)
(* the request was sent with and the type one that answers it.  Messages   *)
(* are told apart by their ID alone (reader.go, passToHandler), so it may  *)
(* get one of the reader's own instead, if that has the same ID; but then  *)
(* it is of no type that would answer any request, and so never what       *)
(* another caller has been waiting for.                                    *)
(***************************************************************************)
GotItsAnswer(p) ==
  /\ reply[p].type \in {Converse[RequestType[op[p]]], "ErrorMessage"}
  /\ \E i \in answered : wire[i].id = mid[p] /\ wire[i].type = RequestType[op[p]]

GotReadersOwn(p) == reply[p].type \in UnsolicitedTypes /\ mid[p] \in UnsolicitedIds

RepliesAreCorrelated ==
  \A p \in Callers :
    phase[p] = "await" /\ chan[p] = "full" =>
      reply[p].id = mid[p] /\ (GotItsAnswer(p) \/ GotReadersOwn(p))

(***************************************************************************)
(* ready keeps the callers' requests off the connection until the reader   *)
(* has answered all of the negotiation (reader.go, Connect).               *)
(***************************************************************************)
NegotiationComesFirst ==
  \A i \in DOMAIN wire :
    wire[i].type \notin VersionRequests \cup {"KeepAliveAck"} =>
      /\ \A j \in DOMAIN wire :
           wire[j].type \in VersionRequests => j < i /\ j \in answered
      /\ ClientVersion > Version1_0_1 =>
           \E j \in answered : wire[j].type = "GetSupportedVersion"

(***************************************************************************)
(* Nothing follows CloseConnection on the connection, no acknowledgement   *)
(* either (reader.go, handleOutgoing: "stop processing messages").         *)
(***************************************************************************)
CloseConnectionIsLast ==
  \A i \in DOMAIN wire : wire[i].type = "CloseConnection" => i = Len(wire)

(***************************************************************************)
(* "KeepAliveAck messages are prioritized" (reader.go, handleOutgoing): at *)
(* most one request overtakes the acknowledgements in the queue, the one   *)
(* that both selects saw at once.                                          *)
(***************************************************************************)
AcksWaitForOneRequest == bypassed <= 1

(***************************************************************************)
(* Of all the calls of Shutdown and Close, at most one succeeds (reader.go,*)
(* Shutdown's comment and Close).                                          *)
(***************************************************************************)
OneCloseSucceeds ==
  \A p, q \in Senders :
    /\ op[p] \in {"Shutdown", "Close"} /\ outcome[p] = "ok"
    /\ op[q] \in {"Shutdown", "Close"} /\ outcome[q] = "ok"
    => p = q

(***************************************************************************)
(* "If this returns ErrClientClosed, it indicates some other portion of    *)
(* your code actively requested the connection to close" (reader.go,       *)
(* Connect): whatever the goroutines report, and in whatever order.        *)
(***************************************************************************)
ClosedMeansRequested ==
  connErr = "closed" =>
    \E p \in Senders : op[p] \in {"Shutdown", "Close"} /\ outcome[p] = "ok"

(***************************************************************************)
(* Shutdown is graceful: it succeeds only after CloseConnection has been   *)
(* answered, and nothing the Client had accepted is still unwritten.       *)
(***************************************************************************)
ShutdownIsGraceful ==
  \A p \in Senders :
    op[p] = "Shutdown" /\ outcome[p] = "ok" =>
      /\ wire # <<>> /\ wire[Len(wire)].type = "CloseConnection"
      /\ Len(wire) \in answered
      /\ outPc \in {"parked", "stopped"}

-----------------------------------------------------------------------------
(* Liveness                                                                *)

Waiting(p) == phase[p] \in {"gate", "offer", "await", "close"}

(* A closed Client releases every caller, with or without a deadline. *)
CloseReleasesCallers == \A p \in Callers : (done /\ Waiting(p)) ~> ~Waiting(p)

(***************************************************************************)
(* Close ends Connect, if the connection has a timeout: a goroutine        *)
(* blocked in a read does not see done.                                    *)
(***************************************************************************)
CloseEndsConnect == done ~> connPc \in {"idle", "returned"}

(***************************************************************************)
(* A reader that hangs up ends Connect, unless it was answering            *)
(* CloseConnection, when handleIncoming waits for a Close.                 *)
(***************************************************************************)
HangupEndsConnect == peer = "closed" ~> (connPc = "returned" \/ receivedClosed)

(* Nobody with a deadline waits for ever. *)
CallsReturn == \A p \in Deadlines : Waiting(p) ~> ~Waiting(p)

-----------------------------------------------------------------------------
(* Refinement                                                              *)

(* handleOutgoing keeps the last message it took, so this stays true. *)
LastRequestTaken == outMsg.type = "CloseConnection"

LinkState ==
  CASE connPc = "returned" -> "down"
    [] connPc # "returned" /\ LastRequestTaken -> "closing"
    [] connPc \in {"serve", "join"} /\ ~LastRequestTaken -> "open"
    [] OTHER -> "new"

CallStage(p) ==
  CASE phase[p] = "idle" -> "idle"
    [] phase[p] \in {"gate", "offer"} -> "waiting"
    [] phase[p] = "await" -> IF chan[p] = "full" THEN "answered" ELSE "sent"
    [] phase[p] = "close" -> IF op[p] = "Close" THEN "closing" ELSE "answered"
    [] phase[p] = "returned" -> IF outcome[p] \in {"reply", "ok"} THEN "done" ELSE "failed"

RR == INSTANCE RequestReply
        WITH link <- LinkState, closed <- done,
             call <- [p \in Senders |-> CallStage(p)]

(* The Client keeps its promises to its callers (reader.go, all of Client). *)
ImplementsRequestReply == RR!Spec

=============================================================================

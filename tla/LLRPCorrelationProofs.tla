------------------------ MODULE LLRPCorrelationProofs -----------------------
(***************************************************************************)
(* Theorems about LLRPSession that need message IDs not to wrap: a request *)
(* then has its ID to itself, so that a caller gets the answer to its own  *)
(* request, can be answered as long as it waits, and is told of nothing    *)
(* but a closed Client or its own deadline otherwise.                      *)
(***************************************************************************)
EXTENDS LLRPSessionProofs, FiniteSetTheorems

(***************************************************************************)
(* Every sender makes one request and the negotiation makes two; the code  *)
(* has 2^32 IDs for them.                                                  *)
(***************************************************************************)
NoWrap == IsFiniteSet(Senders) /\ Cardinality(Senders) + 2 < IdMod

(* The reader completes every reply it begins. *)
RepliesComplete == "cut" \notin ReplyBodies

-----------------------------------------------------------------------------
(* Message IDs                                                             *)

(* The senders whose request is still to be taken, if they make one. *)
ToAsk == {p \in Senders : phase[p] \in BeforeRequest}

(* How many requests the negotiation may still put in the queue. *)
ToNegotiate ==
  (IF connPc \in {"idle", "hello", "getVersion"} THEN 1 ELSE 0)
    + (IF connPc \in {"idle", "hello"} \/ phase[Conn] = "offer" THEN 1 ELSE 0)

(***************************************************************************)
(* The inductive invariant: an ID is used up by a request taken, and no    *)
(* more requests are made than there are IDs.                              *)
(***************************************************************************)
CountInv == nextMsgID + Cardinality(ToAsk) + ToNegotiate <= Cardinality(Senders) + 2

(* Where the goroutine that negotiates is in its requests. *)
LEMMA ConnFacts ==
  ASSUME StagesInv
  PROVE  /\ phase[Conn] = "offer" => connPc \in Negotiating
         /\ connPc \in {"idle", "hello"} => phase[Conn] = "idle"
         /\ phase[Conn] # "gate"
BY DEF StagesInv, ConnSends, NothingYet

LEMMA Counts ==
  ASSUME NoWrap
  PROVE  /\ Cardinality(Senders) \in Nat
         /\ \A S \in SUBSET Senders : IsFiniteSet(S) /\ Cardinality(S) \in Nat
                                        /\ Cardinality(S) <= Cardinality(Senders)
         /\ \A S, T \in SUBSET Senders : S \subseteq T => Cardinality(S) <= Cardinality(T)
         /\ \A S \in SUBSET Senders : \A p \in S : Cardinality(S \ {p}) = Cardinality(S) - 1
<1>1. IsFiniteSet(Senders)
  BY DEF NoWrap
<1>2. \A S \in SUBSET Senders : IsFiniteSet(S) /\ Cardinality(S) <= Cardinality(Senders)
  BY <1>1, FS_Subset
<1>3. \A S \in SUBSET Senders : Cardinality(S) \in Nat
  BY <1>2, FS_CardinalityType
<1>4. \A S, T \in SUBSET Senders : S \subseteq T => Cardinality(S) <= Cardinality(T)
  BY <1>2, FS_Subset
<1>5. \A S \in SUBSET Senders : \A p \in S : Cardinality(S \ {p}) = Cardinality(S) - 1
  BY <1>2, FS_RemoveElement
<1>. QED
  BY <1>1, <1>2, <1>3, <1>4, <1>5, FS_CardinalityType

LEMMA SmallModulo == ASSUME NEW i \in Nat, NEW n \in Nat, i < n PROVE i % n = i
OBVIOUS

(* A step that takes no request, and asks the negotiation for none. *)
LEMMA CountFrame ==
  ASSUME NoWrap, TypeOK, StagesInv, CountInv,
         UNCHANGED nextMsgID,
         \A p \in Senders : phase'[p] \in BeforeRequest => phase[p] \in BeforeRequest,
         connPc' = connPc \/ connPc' \notin {"idle", "hello", "getVersion"},
         \/ phase'[Conn] = phase[Conn] /\ connPc' = connPc
         \/ phase'[Conn] # "offer" /\ connPc' \notin {"idle", "hello"}
  PROVE  CountInv'
<1>1. ToAsk' \subseteq ToAsk /\ ToAsk \in SUBSET Senders
  BY DEF ToAsk
<1>2. Cardinality(ToAsk') <= Cardinality(ToAsk) /\ Cardinality(ToAsk') \in Nat
      /\ Cardinality(ToAsk) \in Nat
  BY <1>1, Counts
<1>3. nextMsgID \in Nat /\ Cardinality(Senders) \in Nat
  BY Counts DEF TypeOK, GoroutineTypeOK, Ids
<1>4. ToNegotiate \in Nat /\ ToNegotiate' \in Nat /\ ToNegotiate' <= ToNegotiate
  BY ConnFacts DEF ToNegotiate, Negotiating
<1>. QED
  BY <1>2, <1>3, <1>4 DEF CountInv

(* A request is taken under an ID that no other request has had. *)
LEMMA TakesCount ==
  ASSUME NoWrap, TypeOK, StagesInv, CountInv, NEW p \in Callers, OutTakesRequest(p)
  PROVE  CountInv' /\ nextMsgID' = nextMsgID + 1
                   /\ nextMsgID < Cardinality(Senders) + 2
<1>. USE DEF TypeOK, CallTypeOK, GoroutineTypeOK
<1>1. /\ phase[p] = "offer" /\ connPc' = connPc
      /\ nextMsgID' = (nextMsgID + 1) % IdMod
      /\ \E s \in {"await", "returned"} : phase' = [phase EXCEPT ![p] = s]
  BY DEF OutTakesRequest, NextID, connectVars
<1>2. nextMsgID \in Nat /\ Cardinality(Senders) \in Nat /\ IdMod \in Nat
      /\ Cardinality(Senders) + 2 < IdMod
  BY Counts, ClientAssumption DEF Ids, NoWrap
<1>3. ToAsk \in SUBSET Senders /\ ToAsk' \in SUBSET Senders
  BY DEF ToAsk
<1>4. ToNegotiate \in Nat /\ ToNegotiate' \in Nat
  BY DEF ToNegotiate
<1>5. Cardinality(ToAsk) \in Nat /\ Cardinality(ToAsk') \in Nat
  BY <1>3, Counts
<1>6. Cardinality(ToAsk') + ToNegotiate' + 1 <= Cardinality(ToAsk) + ToNegotiate
  <2>1. CASE p \in Senders
    <3>1. p # Conn /\ Conn \in Callers
      BY <2>1, CallersAssumption DEF Callers
    <3>2. ToAsk' = ToAsk \ {p} /\ p \in ToAsk
      BY <1>1, <2>1 DEF ToAsk, BeforeRequest, Callers
    <3>3. ToNegotiate' = ToNegotiate
      BY <1>1, <3>1 DEF ToNegotiate
    <3>4. Cardinality(ToAsk') = Cardinality(ToAsk) - 1
      BY <1>3, <3>2, Counts
    <3>. QED
      BY <1>4, <1>5, <3>3, <3>4
  <2>2. CASE p = Conn
    <3>1. ToAsk' = ToAsk
      BY <1>1, <2>2, CallersAssumption DEF ToAsk, Callers
    <3>2. ToNegotiate' = ToNegotiate - 1
      BY <1>1, <2>2, ConnFacts DEF ToNegotiate, Negotiating, Callers
    <3>. QED
      BY <1>4, <1>5, <3>1, <3>2
  <2>. QED
    BY <2>1, <2>2 DEF Callers
<1>7. nextMsgID < Cardinality(Senders) + 2
  BY SMTT(30), <1>2, <1>4, <1>5, <1>6 DEF CountInv
<1>8. nextMsgID' = nextMsgID + 1
  <2>1. nextMsgID + 1 \in Nat /\ nextMsgID + 1 < IdMod
    BY <1>2, <1>7
  <2>2. (nextMsgID + 1) % IdMod = nextMsgID + 1
    BY <1>2, <2>1, SmallModulo
  <2>. QED
    BY <1>1, <2>2
<1>9. nextMsgID' + Cardinality(ToAsk') + ToNegotiate' <= Cardinality(Senders) + 2
  <2>. HIDE DEF TypeOK, CallTypeOK, GoroutineTypeOK
  <2>1. nextMsgID + Cardinality(ToAsk) + ToNegotiate <= Cardinality(Senders) + 2
    BY DEF CountInv
  <2>. QED
    BY <1>2, <1>4, <1>5, <1>6, <1>8, <2>1
<1>. QED
  BY <1>7, <1>8, <1>9 DEF CountInv

LEMMA CountStep ==
  ASSUME NoWrap, TypeOK, StagesInv, CountInv, [Next]_vars
  PROVE  CountInv'
<1>. USE DEF connectVars, outgoingVars, incomingVars, ackVars, replyVars, callVars, networkVars
<1>1. ASSUME UNCHANGED <<nextMsgID, connPc, phase>> PROVE CountInv'
  BY <1>1, CountFrame
<1>2. CASE ConnectStep
  <2>1. CASE ReadHello \/ GotSupportedVersion
    <3>1. /\ UNCHANGED nextMsgID /\ Conn \in Callers /\ Conn \notin Senders
          /\ \/ UNCHANGED phase
             \/ phase' = [phase EXCEPT ![Conn] = "offer"]
      BY <2>1, CallersAssumption DEF ReadHello, GotSupportedVersion, SendFromConnect, Callers
    <3>2. ToAsk' = ToAsk
      BY <3>1 DEF ToAsk, TypeOK, CallTypeOK, Callers
    <3>3. ToNegotiate \in Nat /\ ToNegotiate' \in Nat /\ ToNegotiate' <= ToNegotiate
      <4>1. CASE ReadHello
        BY <4>1, ConnFacts DEF ReadHello, SendFromConnect, ToNegotiate, TypeOK, CallTypeOK, Callers
      <4>2. CASE GotSupportedVersion
        BY <4>2 DEF GotSupportedVersion, GotReply, SendFromConnect, ToNegotiate, TypeOK, CallTypeOK, Callers
      <4>. QED
        BY <2>1, <4>1, <4>2
    <3>4. nextMsgID \in Nat /\ Cardinality(Senders) \in Nat /\ Cardinality(ToAsk) \in Nat
      BY Counts DEF TypeOK, GoroutineTypeOK, Ids, ToAsk
    <3>5. nextMsgID' + Cardinality(ToAsk') + ToNegotiate' <= Cardinality(Senders) + 2
      <4>1. nextMsgID + Cardinality(ToAsk) + ToNegotiate <= Cardinality(Senders) + 2
        BY DEF CountInv
      <4>. QED
        BY <3>1, <3>2, <3>3, <3>4, <4>1
    <3>. QED
      BY <3>5 DEF CountInv
  <2>2. CASE StartConnect
    <3>1. UNCHANGED <<nextMsgID, phase>> /\ connPc = "idle" /\ connPc' = "hello"
      BY <2>2 DEF StartConnect
    <3>2. ToAsk' = ToAsk /\ ToNegotiate' = ToNegotiate
      BY <3>1 DEF ToAsk, ToNegotiate
    <3>. QED
      BY <3>1, <3>2 DEF CountInv
  <2>3. CASE ConnectStep /\ ~StartConnect /\ ~ReadHello /\ ~GotSupportedVersion
    <3>1. /\ UNCHANGED <<nextMsgID, phase>>
          /\ \/ UNCHANGED connPc
             \/ connPc' \notin {"idle", "hello", "getVersion"} /\ (connPc \in Negotiating => phase[Conn] = "returned")
      BY <2>3 DEF ConnectStep, HelloFails, Refused, NegotiationAborted, NegotiationRefused,
        FailNegotiation, GotZero, GotReply, HugeSupportedVersion, GotSetVersion, Open, ServeError,
        ServeDone, Join, Negotiating
    <3>2. CASE UNCHANGED connPc
      BY <1>1, <3>1, <3>2
    <3>3. CASE connPc' \notin {"idle", "hello", "getVersion"} /\ (connPc \in Negotiating => phase[Conn] = "returned")
      <4>1. phase'[Conn] # "offer"
        BY <3>1, <3>3, ConnFacts
      <4>. QED
        BY <3>1, <3>3, <4>1, CountFrame
    <3>. QED
      BY <3>1, <3>2, <3>3
  <2>. QED
    BY <1>2, <2>1, <2>2, <2>3
<1>3. ASSUME NEW p \in Callers, OutTakesRequest(p) PROVE CountInv'
  BY <1>3, TakesCount
<1>4. CASE OutSeesDone \/ OutFindsNoAck \/ OutTakesAck \/ OutWrites \/ OutWriteFails
  BY <1>1, <1>4 DEF OutSeesDone, OutFindsNoAck, OutTakesAck, OutWrites, OutWriteFails, OutStops
<1>5. CASE IncomingStep
  BY <1>1, <1>5 DEF IncomingStep, InSeesDone, InContinues, InReads, InReadFails, InDelivers,
    InReplyCut, InHandles, InDiscardFails, InStops, AwaitClose
<1>6. ASSUME NEW p \in Callers, CallerStep(p) \/ \E o \in Operations : Begin(p, o) PROVE CountInv'
  <2>1. /\ UNCHANGED <<nextMsgID, connPc>>
        /\ \E s : /\ phase' = [phase EXCEPT ![p] = s]
                  /\ s \in BeforeRequest => phase[p] \in BeforeRequest
                  /\ s = "offer" => phase[p] = "gate"
                  /\ connPc \in {"idle", "hello"} => p # Conn
    <3>1. CASE \E o \in Operations : Begin(p, o)
      BY <3>1, CallersAssumption DEF Begin, BeforeRequest
    <3>2. CASE CallerStep(p)
      BY <3>2, ConnFacts DEF CallerStep, PassGate, Withdraw, GiveUp, Receive, CallClose,
        StopsWaiting, Returns, BeforeRequest
    <3>. QED
      BY <1>6, <3>1, <3>2
  <2>2. PICK s : /\ phase' = [phase EXCEPT ![p] = s]
                 /\ s \in BeforeRequest => phase[p] \in BeforeRequest
                 /\ s = "offer" => phase[p] = "gate"
                 /\ connPc \in {"idle", "hello"} => p # Conn
    BY <2>1
  <2>3. \A q \in Senders : phase'[q] \in BeforeRequest => phase[q] \in BeforeRequest
    BY <2>2 DEF TypeOK, CallTypeOK, Callers
  <2>. QED
    BY <2>1, <2>2, <2>3, ConnFacts, CountFrame DEF TypeOK, CallTypeOK, Callers
<1>7. CASE ReaderStep \/ OwnerCloses \/ UNCHANGED vars
  BY <1>1, <1>7 DEF ReaderStep, Answer, Notify, Hangup, OwnerCloses, vars, clientVars
<1>. QED
  BY <1>2, <1>3, <1>4, <1>5, <1>6, <1>7 DEF Next, Rest, ClientStep, OutgoingStep, Callers

-----------------------------------------------------------------------------
(* The callers that wait                                                   *)

(* The ID of a caller's request is used up, and no other caller has it. *)
IdsAreUsed == \A p \in Callers : chan[p] # "none" => mid[p] < nextMsgID

IdsAreUnique ==
  \A p, q \in Callers :
    chan[p] # "none" /\ chan[q] # "none" /\ mid[p] = mid[q] => p = q

(* Nobody closes the channel of a caller that waits. *)
ChannelStaysOpen == \A p \in Callers : phase[p] = "await" => chan[p] \in {"open", "full"}

WaiterInv == IdsAreUsed /\ IdsAreUnique /\ ChannelStaysOpen

(* A step that takes no request and gives none up. *)
LEMMA WaiterFrame ==
  ASSUME WaiterInv,
         UNCHANGED <<mid, nextMsgID>>,
         \A p \in Callers : chan'[p] = chan[p] \/ (chan[p] # "none" /\ chan'[p] = "full"),
         \A p \in Callers : phase'[p] = "await" => phase[p] = "await"
  PROVE  WaiterInv'
BY DEF WaiterInv, IdsAreUsed, IdsAreUnique, ChannelStaysOpen

(* The entry a caller that gives up finds in the map is its own. *)
LEMMA CancelsItsOwn ==
  ASSUME ChannelInv, WaiterInv, NEW p \in Callers, phase[p] = "await"
  PROVE  awaiting[mid[p]] \in {p, NoCaller}
<1>1. mid[p] \in Ids /\ awaiting[mid[p]] \in Callers \cup {NoCaller}
  BY DEF ChannelInv, TypeOK, CallTypeOK, GoroutineTypeOK
<1>. SUFFICES ASSUME NEW q \in Callers, q = awaiting[mid[p]] PROVE q = p
  BY <1>1
<1>2. q # NoCaller
  BY CallersAssumption DEF Callers
<1>3. chan[q] = "open" /\ mid[q] = mid[p]
  BY <1>1, <1>2 DEF ChannelInv, ChannelOwnership, EntryOwnsItsChannel
<1>. QED
  BY <1>3 DEF WaiterInv, IdsAreUnique, ChannelStaysOpen

(* What a caller that gives up changes. *)
LEMMA GivesUp ==
  ASSUME ChannelInv, WaiterInv, NEW p \in Callers, GiveUp(p)
  PROVE  /\ phase[p] = "await" /\ phase'[p] = "returned"
         /\ chan[p] # "none" /\ chan'[p] \in {chan[p], "closed"}
         /\ \A q \in Callers : q # p => chan'[q] = chan[q] /\ phase'[q] = phase[q]
         /\ \A i \in Ids : awaiting[i] # p => awaiting'[i] = awaiting[i]
         /\ UNCHANGED <<connectVars, done, outgoingVars, incomingVars, ackVars, reply, op,
                        mid, networkVars>>
<1>1. /\ phase[p] = "await" /\ Cancel(p)
      /\ phase' = [phase EXCEPT ![p] = "returned"]
      /\ UNCHANGED <<connectVars, done, outgoingVars, incomingVars, ackVars, reply, op,
                     mid, networkVars>>
  BY DEF GiveUp, StopsWaiting, Returns
<1>2. phase'[p] = "returned" /\ \A q \in Callers : q # p => phase'[q] = phase[q]
  BY <1>1 DEF ChannelInv, TypeOK, CallTypeOK
<1>3. awaiting[mid[p]] \in {p, NoCaller} /\ p # NoCaller
  BY <1>1, CancelsItsOwn, CallersAssumption DEF Callers
<1>4. chan[p] # "none"
  BY <1>1 DEF WaiterInv, ChannelStaysOpen
<1>5. /\ chan'[p] \in {chan[p], "closed"}
      /\ \A q \in Callers : q # p => chan'[q] = chan[q]
      /\ \A i \in Ids : awaiting[i] # p => awaiting'[i] = awaiting[i]
  <2>1. CASE awaiting[mid[p]] = NoCaller
    BY <1>1, <2>1 DEF Cancel
  <2>2. CASE awaiting[mid[p]] = p
    <3>1. chan' = [chan EXCEPT ![p] = "closed"] /\ awaiting' = [awaiting EXCEPT ![mid[p]] = NoCaller]
      BY <1>1, <1>3, <2>2 DEF Cancel
    <3>. QED
      BY <2>2, <3>1 DEF ChannelInv, TypeOK, CallTypeOK, GoroutineTypeOK
  <2>. QED
    BY <1>3, <2>1, <2>2
<1>. QED
  BY <1>1, <1>2, <1>4, <1>5

(* What a request taken changes. *)
LEMMA Takes ==
  ASSUME NoWrap, TypeOK, StagesInv, CountInv, NEW p \in Callers, OutTakesRequest(p)
  PROVE  /\ outPc = "wait" /\ outPc' = "write" /\ phase[p] = "offer"
         /\ nextMsgID' = nextMsgID + 1 /\ nextMsgID \in Ids
         /\ nextMsgID < Cardinality(Senders) + 2
         /\ outMsg' = NewHdrOnlyMsg(RequestType[op[p]], nextMsgID)
         /\ \/ WantsReply(p) /\ Register(p) /\ phase'[p] = "await"
            \/ ~WantsReply(p) /\ UNCHANGED <<awaiting, chan, mid>> /\ phase'[p] = "returned"
         /\ \A q \in Callers : q # p => phase'[q] = phase[q]
         /\ UNCHANGED <<connectVars, done, incomingVars, ackQueue, reply, op, networkVars, crash>>
<1>1. nextMsgID' = nextMsgID + 1 /\ nextMsgID < Cardinality(Senders) + 2
  BY TakesCount
<1>2. nextMsgID \in Ids
  BY DEF TypeOK, GoroutineTypeOK
<1>. QED
  BY <1>1, <1>2 DEF OutTakesRequest, TypeOK, CallTypeOK

LEMMA WaiterStep ==
  ASSUME NoWrap, ChannelInv, StagesInv, CountInv, WaiterInv, [Next]_vars
  PROVE  WaiterInv'
<1>. USE DEF connectVars, outgoingVars, incomingVars, ackVars, replyVars, callVars, networkVars
<1>0. TypeOK
  BY DEF ChannelInv
<1>1. ASSUME UNCHANGED <<nextMsgID, mid, chan, phase>> PROVE WaiterInv'
  BY <1>1, WaiterFrame
<1>2. CASE ConnectStep
  <2>1. CASE ReadHello \/ GotSupportedVersion
    <3>1. /\ UNCHANGED <<nextMsgID, mid, chan>>
          /\ phase' = phase \/ phase' = [phase EXCEPT ![Conn] = "offer"]
      BY <2>1 DEF ReadHello, GotSupportedVersion, SendFromConnect
    <3>2. \A q \in Callers : phase'[q] = "await" => phase[q] = "await"
      BY <1>0, <3>1 DEF TypeOK, CallTypeOK
    <3>. QED
      BY <3>1, <3>2, WaiterFrame
  <2>2. CASE ConnectStep /\ ~ReadHello /\ ~GotSupportedVersion
    BY <1>1, <2>2 DEF ConnectStep, StartConnect, HelloFails, Refused, NegotiationAborted,
      NegotiationRefused, FailNegotiation, HugeSupportedVersion, GotSetVersion, Open, ServeError,
      ServeDone, Join
  <2>. QED
    BY <1>2, <2>1, <2>2
<1>3. ASSUME NEW p \in Callers, OutTakesRequest(p) PROVE WaiterInv'
  <2>1. nextMsgID' = nextMsgID + 1 /\ nextMsgID \in Nat
    BY <1>0, <1>3, Takes DEF Ids
  <2>2. \A q \in Callers : mid[q] \in Nat
    BY <1>0 DEF TypeOK, CallTypeOK, Ids
  <2>3. CASE Register(p)
    <3>0. \A q \in Callers : q # p => phase'[q] = phase[q]
      BY <1>0, <1>3, Takes
    <3>1. /\ mid'[p] = nextMsgID /\ chan'[p] = "open"
          /\ \A q \in Callers : q # p => mid'[q] = mid[q] /\ chan'[q] = chan[q]
      BY <1>0, <2>3 DEF Register, TypeOK, CallTypeOK
    <3>2. IdsAreUsed'
      BY <2>1, <2>2, <3>1 DEF WaiterInv, IdsAreUsed
    <3>3. IdsAreUnique'
      BY <2>1, <2>2, <3>1 DEF WaiterInv, IdsAreUsed, IdsAreUnique
    <3>4. ChannelStaysOpen'
      BY <3>0, <3>1 DEF WaiterInv, ChannelStaysOpen
    <3>. QED
      BY <3>2, <3>3, <3>4 DEF WaiterInv
  <2>4. CASE UNCHANGED <<awaiting, chan, mid>> /\ phase'[p] = "returned"
    <3>1. \A q \in Callers : q # p => phase'[q] = phase[q]
      BY <1>0, <1>3, Takes
    <3>. QED
      BY <2>1, <2>2, <2>4, <3>1 DEF WaiterInv, IdsAreUsed, IdsAreUnique, ChannelStaysOpen
  <2>. QED
    BY <1>0, <1>3, <2>3, <2>4, Takes
<1>4. CASE OutSeesDone \/ OutFindsNoAck \/ OutTakesAck \/ OutWrites \/ OutWriteFails
  BY <1>1, <1>4 DEF OutSeesDone, OutFindsNoAck, OutTakesAck, OutWrites, OutWriteFails, OutStops
<1>5. CASE IncomingStep
  <2>1. CASE InDelivers
    <3>1. /\ chan' = [chan EXCEPT ![inTarget] = "full"] /\ chan[inTarget] = "open"
          /\ UNCHANGED <<mid, nextMsgID, phase>>
      BY <2>1 DEF InDelivers, ChannelInv, ChannelOwnership, DeliveryOwnsItsChannel
    <3>. QED
      BY <1>0, <3>1, WaiterFrame DEF TypeOK, CallTypeOK
  <2>2. CASE IncomingStep /\ ~InDelivers
    BY <1>1, <2>2 DEF IncomingStep, InSeesDone, InContinues, InReads, InReadFails,
      InReplyCut, InHandles, InDiscardFails, InStops, AwaitClose
  <2>. QED
    BY <1>5, <2>1, <2>2
<1>6. ASSUME NEW p \in Callers, CallerStep(p) PROVE WaiterInv'
  <2>1. CASE GiveUp(p)
    BY <2>1, GivesUp DEF WaiterInv, IdsAreUsed, IdsAreUnique, ChannelStaysOpen
  <2>2. CASE PassGate(p) \/ Withdraw(p) \/ Receive(p) \/ CallClose(p)
    <3>1. /\ UNCHANGED <<nextMsgID, mid, chan>>
          /\ \E s : phase' = [phase EXCEPT ![p] = s] /\ s # "await"
      BY <2>2 DEF PassGate, Withdraw, Receive, CallClose, StopsWaiting, Returns
    <3>. QED
      BY <1>0, <3>1, WaiterFrame DEF TypeOK, CallTypeOK
  <2>. QED
    BY <1>6, <2>1, <2>2 DEF CallerStep
<1>7. ASSUME NEW p \in Senders, NEW o \in Operations, Begin(p, o) PROVE WaiterInv'
  <2>1. /\ UNCHANGED <<nextMsgID, mid, chan>>
        /\ \E s \in {"close", "gate"} : phase' = [phase EXCEPT ![p] = s]
    BY <1>7 DEF Begin
  <2>. QED
    BY <1>0, <2>1, WaiterFrame DEF TypeOK, CallTypeOK
<1>8. CASE ReaderStep \/ OwnerCloses \/ UNCHANGED vars
  BY <1>1, <1>8 DEF ReaderStep, Answer, Notify, Hangup, OwnerCloses, vars, clientVars
<1>. QED
  BY <1>2, <1>3, <1>4, <1>5, <1>6, <1>7, <1>8 DEF Next, Rest, ClientStep, OutgoingStep

LEMMA InitWaiters == ASSUME NoWrap, Init PROVE CountInv /\ WaiterInv
<1>. USE DEF Init, ClientInit
<1>1. ToAsk \subseteq Senders /\ ToNegotiate = 2
  BY DEF ToAsk, ToNegotiate
<1>2. Cardinality(ToAsk) <= Cardinality(Senders) /\ Cardinality(ToAsk) \in Nat
      /\ Cardinality(Senders) \in Nat
  BY <1>1, Counts
<1>3. CountInv
  BY <1>1, <1>2 DEF CountInv
<1>4. WaiterInv
  BY DEF WaiterInv, IdsAreUsed, IdsAreUnique, ChannelStaysOpen
<1>. QED
  BY <1>3, <1>4

(* Connect starts handleOutgoing and handleIncoming at once. *)
StartTogether == inPc = "off" <=> outPc = "off"

LEMMA TogetherStep == ASSUME StartTogether, [Next]_vars PROVE StartTogether'
<1>. USE DEF StartTogether, connectVars, outgoingVars, incomingVars
<1>1. CASE ConnectStep
  BY <1>1 DEF ConnectStep, StartConnect, ReadHello, HelloFails, Refused,
    NegotiationAborted, NegotiationRefused, FailNegotiation, GotSupportedVersion,
    HugeSupportedVersion, GotSetVersion, Open, ServeError, ServeDone, Join
<1>2. CASE OutgoingStep
  BY <1>2 DEF OutgoingStep, OutSeesDone, OutFindsNoAck, OutTakesAck, OutTakesRequest,
    OutWrites, NextAfterWrite, OutWriteFails, OutStops
<1>3. CASE IncomingStep
  BY <1>3 DEF IncomingStep, InSeesDone, InContinues, InReads, InReadFails, InDelivers,
    InReplyCut, InHandles, InDiscardFails, InStops, AwaitClose
<1>4. ASSUME NEW p \in Callers, CallerStep(p) \/ \E o \in Operations : Begin(p, o)
      PROVE  StartTogether'
  BY <1>4 DEF CallerStep, PassGate, Withdraw, GiveUp, Receive, CallClose, Begin
<1>5. CASE ReaderStep \/ OwnerCloses \/ UNCHANGED vars
  BY <1>5 DEF ReaderStep, Answer, Notify, Hangup, OwnerCloses, vars, clientVars
<1>. QED
  BY <1>1, <1>2, <1>3, <1>4, <1>5 DEF Next, Rest, ClientStep, Callers

(* What the proofs below start from. *)
SessionInv == ChannelInv /\ StagesInv /\ StartTogether /\ CountInv /\ WaiterInv

LEMMA WaitersCorrect == ASSUME NoWrap PROVE Spec => []SessionInv
<1>1. Init => CountInv /\ WaiterInv
  BY InitWaiters
<1>2. ChannelInv /\ StagesInv /\ CountInv /\ WaiterInv /\ [Next]_vars => CountInv' /\ WaiterInv'
  BY CountStep, WaiterStep DEF ChannelInv
<1>3. TypeOK /\ ChannelOwnership /\ NoChannelPanic => ChannelInv
  BY DEF ChannelInv
<1>4. Init => StartTogether
  BY DEF Init, ClientInit, StartTogether
<1>5. StartTogether /\ [Next]_vars => StartTogether'
  BY TogetherStep
<1>. QED
  BY <1>1, <1>2, <1>3, <1>4, <1>5, TypeCorrect, OwnershipCorrect, NegotiationCorrect, PTL
  DEF Spec, SessionInv

-----------------------------------------------------------------------------
(* A caller that waits can be answered                                     *)

(* No message ends before its payload does. *)
NoCuts == inMsg.body # "cut" /\ \A j \in DOMAIN stream : stream[j].body # "cut"

(***************************************************************************)
(* The inductive invariant: only a reply cut short takes a caller's entry  *)
(* and gives it nothing.                                                   *)
(***************************************************************************)
ReachInv == WaitersAreReachable /\ NoCuts

(* A step that leaves the entries and the delivery alone. *)
LEMMA ReachFrame ==
  ASSUME WaitersAreReachable,
         UNCHANGED <<awaiting, chan, mid>>,
         \A p \in Callers : phase'[p] = "await" => phase[p] = "await",
         inPc = "deliver" => inPc' = "deliver" /\ UNCHANGED inTarget
  PROVE  WaitersAreReachable'
BY DEF WaitersAreReachable

LEMMA CutsFrame ==
  ASSUME TypeOK, NoCuts,
         \/ UNCHANGED stream
         \/ stream # <<>> /\ stream' = Tail(stream)
         \/ \E m \in Incoming(Ids) : m.body # "cut" /\ stream' = Append(stream, m),
         inMsg' = inMsg \/ (stream # <<>> /\ inMsg' = Head(stream))
  PROVE  NoCuts'
<1>1. stream \in Seq(Incoming(Ids))
  BY DEF TypeOK, NetworkTypeOK
<1>2. \A j \in DOMAIN stream' : stream'[j].body # "cut"
  <2>1. CASE UNCHANGED stream
    BY <2>1 DEF NoCuts
  <2>2. CASE stream # <<>> /\ stream' = Tail(stream)
    BY <1>1, <2>2 DEF NoCuts
  <2>3. ASSUME NEW m \in Incoming(Ids), m.body # "cut", stream' = Append(stream, m)
        PROVE  \A j \in DOMAIN stream' : stream'[j].body # "cut"
    BY <1>1, <2>3 DEF NoCuts
  <2>. QED
    BY <2>1, <2>2, <2>3
<1>3. inMsg'.body # "cut"
  BY <1>1 DEF NoCuts
<1>. QED
  BY <1>2, <1>3 DEF NoCuts

LEMMA CutsStep ==
  ASSUME RepliesComplete, TypeOK, NoCuts, [Next]_vars
  PROVE  NoCuts'
<1>. USE DEF connectVars, outgoingVars, incomingVars, ackVars, replyVars, callVars, networkVars
<1>1. ASSUME UNCHANGED <<stream, inMsg>> PROVE NoCuts'
  BY <1>1 DEF NoCuts
<1>2. CASE ConnectStep
  <2>1. inMsg' = inMsg /\ (stream' = stream \/ (stream # <<>> /\ stream' = Tail(stream)))
    BY <1>2 DEF ConnectStep, StartConnect, ReadHello, HelloFails, CanRead, Refused,
      NegotiationAborted, NegotiationRefused, FailNegotiation, GotSupportedVersion,
      HugeSupportedVersion, GotSetVersion, Open, ServeError, ServeDone, Join
  <2>. QED
    BY <2>1, CutsFrame
<1>3. CASE OutgoingStep
  BY <1>1, <1>3 DEF OutgoingStep, OutSeesDone, OutFindsNoAck, OutTakesAck, OutTakesRequest,
    OutWrites, OutWriteFails, OutStops
<1>4. CASE InReads
  BY <1>4, CutsFrame DEF InReads, CanRead
<1>5. CASE IncomingStep /\ ~InReads
  BY <1>1, <1>5 DEF IncomingStep, InSeesDone, InContinues, InReadFails, InDelivers,
    InReplyCut, InHandles, InDiscardFails, InStops, AwaitClose
<1>6. ASSUME NEW p \in Callers, CallerStep(p) \/ \E o \in Operations : Begin(p, o)
      PROVE  NoCuts'
  BY <1>1, <1>6 DEF CallerStep, PassGate, Withdraw, GiveUp, Receive, CallClose, Begin
<1>7. ASSUME NEW i \in DOMAIN wire, Answer(i) PROVE NoCuts'
  <2>1. PICK m \in Replies(wire[i]) : stream' = Append(stream, m)
    BY <1>7 DEF Answer
  <2>2. m \in Incoming(Ids)
    BY <1>7, <2>1, WireFacts, RepliesType DEF Answer
  <2>3. m.body # "cut"
    BY <2>1 DEF Replies, RepliesComplete
  <2>. QED
    BY <1>7, <2>1, <2>2, <2>3, CutsFrame DEF Answer
<1>8. CASE Notify
  <2>1. PICK t \in UnsolicitedTypes, i \in UnsolicitedIds :
          stream' = Append(stream, [type |-> t, id |-> i, body |-> "ok"])
    BY <1>8 DEF Notify
  <2>2. [type |-> t, id |-> i, body |-> "ok"] \in Incoming(Ids)
    BY ReaderAssumption DEF Incoming, IncomingTypes, Bodies
  <2>. QED
    BY <1>8, <2>1, <2>2, CutsFrame DEF Notify
<1>9. CASE Hangup \/ OwnerCloses \/ UNCHANGED vars
  BY <1>1, <1>9 DEF Hangup, OwnerCloses, vars, clientVars
<1>. QED
  BY <1>2, <1>3, <1>4, <1>5, <1>6, <1>7, <1>8, <1>9
  DEF Next, Rest, ClientStep, ReaderStep, Callers

LEMMA ReachStep ==
  ASSUME NoWrap, SessionInv, ReachInv, [Next]_vars
  PROVE  WaitersAreReachable'
<1>. USE DEF connectVars, outgoingVars, incomingVars, ackVars, replyVars, callVars, networkVars
<1>0. /\ TypeOK /\ ChannelInv /\ StagesInv /\ StartTogether /\ CountInv /\ WaiterInv
      /\ WaitersAreReachable
  BY DEF SessionInv, ChannelInv, ReachInv
<1>1. ASSUME UNCHANGED <<awaiting, chan, mid, phase, inPc, inTarget>> PROVE WaitersAreReachable'
  BY <1>0, <1>1, ReachFrame
<1>2. CASE ConnectStep
  <2>1. CASE ReadHello \/ GotSupportedVersion
    <3>1. /\ UNCHANGED <<awaiting, chan, mid, inTarget>>
          /\ phase' = phase \/ phase' = [phase EXCEPT ![Conn] = "offer"]
      BY <2>1 DEF ReadHello, GotSupportedVersion, SendFromConnect
    <3>2. \A q \in Callers : phase'[q] = "await" => phase[q] = "await"
      BY <1>0, <3>1 DEF TypeOK, CallTypeOK
    <3>3. inPc = "deliver" => inPc' = "deliver"
      BY <1>0, <2>1 DEF ReadHello, GotSupportedVersion, StartTogether, StagesInv, NothingYet
    <3>. QED
      BY <1>0, <3>1, <3>2, <3>3, ReachFrame
  <2>2. CASE ConnectStep /\ ~ReadHello /\ ~GotSupportedVersion
    BY <1>1, <2>2 DEF ConnectStep, StartConnect, HelloFails, Refused, NegotiationAborted,
      NegotiationRefused, FailNegotiation, HugeSupportedVersion, GotSetVersion, Open, ServeError,
      ServeDone, Join
  <2>. QED
    BY <1>2, <2>1, <2>2
<1>3. ASSUME NEW p \in Callers, OutTakesRequest(p) PROVE WaitersAreReachable'
  <2>1. \A q \in Callers : q # p => phase'[q] = phase[q]
    BY <1>0, <1>3, Takes
  <2>2. UNCHANGED <<inPc, inTarget>>
    BY <1>0, <1>3, Takes
  <2>3. CASE Register(p)
    <3>1. /\ mid'[p] = nextMsgID
          /\ \A q \in Callers : q # p => mid'[q] = mid[q] /\ chan'[q] = chan[q]
      BY <1>0, <2>3 DEF Register, TypeOK, CallTypeOK
    <3>2. /\ awaiting'[nextMsgID] = p
          /\ \A i \in Ids : i # nextMsgID => awaiting'[i] = awaiting[i]
      BY <1>0, <2>3 DEF Register, TypeOK, GoroutineTypeOK
    <3>3. \A q \in Callers : phase[q] = "await" => mid[q] # nextMsgID /\ mid[q] \in Ids
      <4>1. \A q \in Callers : phase[q] = "await" => mid[q] < nextMsgID
        BY <1>0 DEF WaiterInv, IdsAreUsed, ChannelStaysOpen
      <4>2. nextMsgID \in Nat /\ \A q \in Callers : mid[q] \in Ids /\ mid[q] \in Nat
        BY <1>0 DEF TypeOK, CallTypeOK, GoroutineTypeOK, Ids
      <4>. QED
        BY <4>1, <4>2
    <3>. QED
      BY <1>0, <2>1, <2>2, <3>1, <3>2, <3>3 DEF WaitersAreReachable
  <2>4. CASE UNCHANGED <<awaiting, chan, mid>> /\ phase'[p] = "returned"
    BY <1>0, <2>1, <2>2, <2>4, ReachFrame
  <2>. QED
    BY <1>0, <1>3, <2>3, <2>4, Takes
<1>4. CASE OutSeesDone \/ OutFindsNoAck \/ OutTakesAck \/ OutWrites \/ OutWriteFails
  BY <1>1, <1>4 DEF OutSeesDone, OutFindsNoAck, OutTakesAck, OutWrites, OutWriteFails, OutStops
<1>5. CASE IncomingStep
  <2>1. CASE InReads
    <3>. DEFINE i == Head(stream).id
    <3>1. i \in Ids
      BY <1>0, <2>1, ReadType DEF InReads, Incoming
    <3>2. /\ awaiting' = [awaiting EXCEPT ![i] = NoCaller] /\ inTarget' = awaiting[i]
          /\ awaiting[i] # NoCaller => inPc' = "deliver"
          /\ inPc = "read" /\ UNCHANGED <<chan, mid, phase>>
      BY <2>1 DEF InReads, RemoveAwaiting, NeedsReply
    <3>. HIDE DEF i
    <3>3. \A j \in Ids : j # i => awaiting'[j] = awaiting[j]
      BY <1>0, <3>2 DEF TypeOK, GoroutineTypeOK
    <3>4. \A q \in Callers : mid[q] \in Ids /\ q # NoCaller
      BY <1>0, CallersAssumption DEF TypeOK, CallTypeOK, Callers
    <3>. QED
      BY <1>0, <3>1, <3>2, <3>3, <3>4 DEF WaitersAreReachable
  <2>2. CASE InDelivers
    <3>1. /\ chan' = [chan EXCEPT ![inTarget] = "full"] /\ UNCHANGED <<awaiting, mid, phase>>
      BY <2>2 DEF InDelivers
    <3>. QED
      BY <1>0, <3>1 DEF WaitersAreReachable, TypeOK, CallTypeOK
  <2>3. CASE InReplyCut
    BY <2>3 DEF InReplyCut, ReachInv, NoCuts
  <2>4. CASE InSeesDone \/ InContinues \/ InReadFails \/ InHandles \/ InDiscardFails
    <3>1. inPc # "deliver" /\ UNCHANGED <<awaiting, chan, mid, phase>>
      BY <2>4 DEF InSeesDone, InContinues, InReadFails, InHandles, InDiscardFails, InStops,
        AwaitClose
    <3>. QED
      BY <1>0, <3>1, ReachFrame
  <2>. QED
    BY <1>5, <2>1, <2>2, <2>3, <2>4 DEF IncomingStep
<1>6. ASSUME NEW p \in Callers, CallerStep(p) PROVE WaitersAreReachable'
  <2>1. CASE GiveUp(p)
    <3>1. \A q \in Callers : mid[q] \in Ids
      BY <1>0 DEF TypeOK, CallTypeOK
    <3>. QED
      BY <1>0, <2>1, <3>1, GivesUp DEF WaitersAreReachable
  <2>2. CASE PassGate(p) \/ Withdraw(p) \/ Receive(p) \/ CallClose(p)
    <3>1. /\ UNCHANGED <<awaiting, chan, mid, inPc, inTarget>>
          /\ \E s : phase' = [phase EXCEPT ![p] = s] /\ s # "await"
      BY <2>2 DEF PassGate, Withdraw, Receive, CallClose, StopsWaiting, Returns
    <3>. QED
      BY <1>0, <3>1, ReachFrame DEF TypeOK, CallTypeOK
  <2>. QED
    BY <1>6, <2>1, <2>2 DEF CallerStep
<1>7. ASSUME NEW p \in Senders, NEW o \in Operations, Begin(p, o) PROVE WaitersAreReachable'
  <2>1. /\ UNCHANGED <<awaiting, chan, mid, inPc, inTarget>>
        /\ \E s \in {"close", "gate"} : phase' = [phase EXCEPT ![p] = s]
    BY <1>7 DEF Begin
  <2>. QED
    BY <1>0, <2>1, ReachFrame DEF TypeOK, CallTypeOK
<1>8. CASE ReaderStep \/ OwnerCloses \/ UNCHANGED vars
  BY <1>1, <1>8 DEF ReaderStep, Answer, Notify, Hangup, OwnerCloses, vars, clientVars
<1>. QED
  BY <1>2, <1>3, <1>4, <1>5, <1>6, <1>7, <1>8 DEF Next, Rest, ClientStep, OutgoingStep

(***************************************************************************)
(* As long as the IDs do not wrap and the reader completes its replies, a  *)
(* caller that waits is registered under its ID, or its reply is being     *)
(* delivered or waits in its replyChan, whoever else is answered or gives  *)
(* up meanwhile (reader.go, handleOutgoing and passToHandler).             *)
(***************************************************************************)
THEOREM NobodyIsForgotten == ASSUME NoWrap, RepliesComplete PROVE Spec => []WaitersAreReachable
<1>1. Init => ReachInv
  <2>. SUFFICES ASSUME Init PROVE ReachInv
    OBVIOUS
  <2>1. WaitersAreReachable /\ inMsg.body # "cut"
    BY DEF Init, ClientInit, WaitersAreReachable, NoReply
  <2>2. \A j \in DOMAIN stream : stream[j].body # "cut"
    BY DEF Init, Hello
  <2>. QED
    BY <2>1, <2>2 DEF ReachInv, NoCuts
<1>2. SessionInv /\ ReachInv /\ [Next]_vars => ReachInv'
  BY CutsStep, ReachStep DEF ReachInv, SessionInv, ChannelInv
<1>. QED
  BY <1>1, <1>2, WaitersCorrect, PTL DEF Spec, ReachInv

-----------------------------------------------------------------------------
(* Requests and the replies to them                                        *)

(* A request is written, or about to be. *)
Issued(t, i) ==
  \/ \E k \in DOMAIN wire : wire[k].type = t /\ wire[k].id = i
  \/ outPc = "write" /\ outMsg.type = t /\ outMsg.id = i

(* An ID that has been used belongs to the request of the caller that waits under it. *)
RequestsInv ==
  \A t \in AwaitedRequests, i \in Ids :
    Issued(t, i) =>
      /\ i < nextMsgID
      /\ \A p \in Callers : phase[p] = "await" /\ mid[p] = i => t = RequestType[op[p]]

(* A step that issues nothing. *)
LEMMA RequestsFrame ==
  ASSUME RequestsInv,
         UNCHANGED <<nextMsgID, mid>>,
         \A t \in AwaitedRequests, i \in Ids : Issued(t, i)' => Issued(t, i),
         \A p \in Callers : phase'[p] = "await" => phase[p] = "await" /\ op'[p] = op[p]
  PROVE  RequestsInv'
BY DEF RequestsInv

(* A step that neither writes nor issues anything. *)
LEMMA IssuedFrame ==
  ASSUME UNCHANGED wire, outPc' = "write" => outPc = "write" /\ outMsg' = outMsg
  PROVE  \A t, i : Issued(t, i)' => Issued(t, i)
BY DEF Issued

LEMMA RequestsStep ==
  ASSUME NoWrap, SessionInv, RequestsInv, [Next]_vars
  PROVE  RequestsInv'
<1>. USE DEF connectVars, outgoingVars, incomingVars, ackVars, replyVars, callVars, networkVars
<1>0. TypeOK /\ ChannelInv /\ StagesInv /\ CountInv /\ WaiterInv
  BY DEF SessionInv, ChannelInv
<1>1. ASSUME UNCHANGED <<nextMsgID, mid, wire, phase, op>>,
             outPc' = "write" => outPc = "write" /\ outMsg' = outMsg
      PROVE RequestsInv'
  BY <1>1, IssuedFrame, RequestsFrame
<1>2. CASE ConnectStep
  <2>1. CASE ReadHello \/ GotSupportedVersion
    <3>1. /\ UNCHANGED <<nextMsgID, mid, wire>>
          /\ outPc' = "write" => outPc = "write" /\ outMsg' = outMsg
      BY <2>1 DEF ReadHello, GotSupportedVersion
    <3>2. \/ UNCHANGED <<phase, op>>
          \/ /\ phase' = [phase EXCEPT ![Conn] = "offer"]
             /\ \E o : op' = [op EXCEPT ![Conn] = o]
      BY <2>1 DEF ReadHello, GotSupportedVersion, SendFromConnect
    <3>3. \A q \in Callers : phase'[q] = "await" => phase[q] = "await" /\ op'[q] = op[q]
      BY <1>0, <3>2 DEF TypeOK, CallTypeOK
    <3>. QED
      BY <3>1, <3>3, IssuedFrame, RequestsFrame
  <2>2. CASE ConnectStep /\ ~ReadHello /\ ~GotSupportedVersion
    BY <1>1, <2>2 DEF ConnectStep, StartConnect, HelloFails, Refused, NegotiationAborted,
      NegotiationRefused, FailNegotiation, HugeSupportedVersion, GotSetVersion, Open, ServeError,
      ServeDone, Join
  <2>. QED
    BY <1>2, <2>1, <2>2
<1>3. ASSUME NEW p \in Callers, OutTakesRequest(p) PROVE RequestsInv'
  <2>1. /\ outPc = "wait" /\ nextMsgID' = nextMsgID + 1 /\ nextMsgID \in Ids
        /\ outMsg' = NewHdrOnlyMsg(RequestType[op[p]], nextMsgID)
        /\ UNCHANGED <<wire, op>>
        /\ \A q \in Callers : q # p => phase'[q] = phase[q]
    BY <1>0, <1>3, Takes
  <2>2. \/ UNCHANGED mid /\ phase'[p] # "await"
        \/ mid' = [mid EXCEPT ![p] = nextMsgID]
    BY <1>0, <1>3, Takes DEF Register
  <2>3. \A q \in Callers : q # p => mid'[q] = mid[q]
    BY <1>0, <2>2 DEF TypeOK, CallTypeOK
  <2>4. phase'[p] = "await" => mid'[p] = nextMsgID
    BY <1>0, <2>2 DEF TypeOK, CallTypeOK
  <2>5. \A q \in Callers : phase[q] = "await" => mid[q] # nextMsgID
    <3>1. \A q \in Callers : phase[q] = "await" => mid[q] < nextMsgID
      BY <1>0 DEF WaiterInv, IdsAreUsed, ChannelStaysOpen
    <3>2. nextMsgID \in Nat /\ \A q \in Callers : mid[q] \in Nat
      BY <1>0 DEF TypeOK, CallTypeOK, GoroutineTypeOK, Ids
    <3>. QED
      BY <3>1, <3>2
  <2>6. \A t, i : Issued(t, i)' => Issued(t, i) \/ (t = RequestType[op[p]] /\ i = nextMsgID)
    BY <2>1 DEF Issued, NewHdrOnlyMsg
  <2>7. nextMsgID \in Nat /\ Ids \subseteq Nat
    BY <2>1, ClientAssumption DEF Ids
  <2>8. ASSUME NEW t \in AwaitedRequests, NEW i \in Ids, Issued(t, i)
        PROVE  /\ i < nextMsgID'
               /\ \A q \in Callers : phase'[q] = "await" /\ mid'[q] = i => t = RequestType[op'[q]]
    <3>1. i < nextMsgID /\ i \in Nat
      BY <2>7, <2>8 DEF RequestsInv
    <3>2. i < nextMsgID' /\ i # nextMsgID
      BY <2>1, <2>7, <3>1
    <3>. QED
      BY <2>1, <2>3, <2>4, <2>8, <3>2 DEF RequestsInv
  <2>9. /\ nextMsgID < nextMsgID'
        /\ \A q \in Callers : phase'[q] = "await" /\ mid'[q] = nextMsgID => q = p /\ op'[q] = op[p]
    BY <2>1, <2>3, <2>5, <2>7
  <2>. QED
    BY <2>6, <2>8, <2>9 DEF RequestsInv
<1>4. CASE OutTakesAck
  <2>1. \A t \in AwaitedRequests, i \in Ids : Issued(t, i)' => Issued(t, i)
    BY <1>4 DEF OutTakesAck, Issued, KeepAliveAck, AwaitedRequests, VersionRequests
  <2>. QED
    BY <1>4, <2>1, RequestsFrame DEF OutTakesAck
<1>5. CASE OutWrites
  <2>1. wire \in Seq(Outgoing(Ids)) /\ outMsg \in Outgoing(Ids)
    BY <1>0, WireFacts
  <2>2. Stamped(outMsg).type = outMsg.type /\ Stamped(outMsg).id = outMsg.id
    BY <2>1 DEF Stamped, Outgoing
  <2>3. outPc = "write" /\ outPc' # "write" /\ wire' = Append(wire, Stamped(outMsg))
    BY <1>5 DEF OutWrites, NextAfterWrite
  <2>4. \A t, i : Issued(t, i)' => Issued(t, i)
    BY <2>1, <2>2, <2>3 DEF Issued
  <2>. QED
    BY <1>5, <2>4, RequestsFrame DEF OutWrites
<1>6. CASE OutSeesDone \/ OutFindsNoAck \/ OutWriteFails
  BY <1>1, <1>6 DEF OutSeesDone, OutFindsNoAck, OutWriteFails, OutStops
<1>7. CASE IncomingStep
  BY <1>1, <1>7 DEF IncomingStep, InSeesDone, InContinues, InReads, InReadFails, InDelivers,
    InReplyCut, InHandles, InDiscardFails, InStops, AwaitClose
<1>8. ASSUME NEW p \in Callers, CallerStep(p) PROVE RequestsInv'
  <2>1. /\ UNCHANGED <<nextMsgID, mid, op, wire, outPc, outMsg>>
        /\ \E s \in {"offer", "returned", "close"} : phase' = [phase EXCEPT ![p] = s]
    BY <1>8 DEF CallerStep, PassGate, Withdraw, GiveUp, Receive, CallClose, StopsWaiting, Returns
  <2>2. \A q \in Callers : phase'[q] = "await" => phase[q] = "await" /\ op'[q] = op[q]
    BY <1>0, <2>1 DEF TypeOK, CallTypeOK
  <2>. QED
    BY <2>1, <2>2, IssuedFrame, RequestsFrame
<1>9. ASSUME NEW p \in Senders, NEW o \in Operations, Begin(p, o) PROVE RequestsInv'
  <2>1. /\ UNCHANGED <<nextMsgID, mid, wire, outPc, outMsg>>
        /\ op' = [op EXCEPT ![p] = o]
        /\ \E s \in {"close", "gate"} : phase' = [phase EXCEPT ![p] = s]
    BY <1>9 DEF Begin
  <2>2. \A q \in Callers : phase'[q] = "await" => phase[q] = "await" /\ op'[q] = op[q]
    BY <1>0, <2>1 DEF TypeOK, CallTypeOK, Callers
  <2>. QED
    BY <2>1, <2>2, IssuedFrame, RequestsFrame
<1>10. CASE ReaderStep \/ OwnerCloses \/ UNCHANGED vars
  BY <1>1, <1>10 DEF ReaderStep, Answer, Notify, Hangup, OwnerCloses, vars, clientVars
<1>. QED
  BY <1>2, <1>3, <1>4, <1>5, <1>6, <1>7, <1>8, <1>9, <1>10
  DEF Next, Rest, ClientStep, OutgoingStep

(* A message that answers a request, or one of the reader's own. *)
IsReply(m) ==
  \E i \in answered :
    /\ wire[i].type \in AwaitedRequests /\ wire[i].id = m.id
    /\ m.type \in {Converse[wire[i].type], "ErrorMessage"}

IsOwn(m) == m.type \in UnsolicitedTypes /\ m.id \in UnsolicitedIds

IsProper(m) == IsReply(m) \/ IsOwn(m)

(***************************************************************************)
(* The inductive invariant: every message answers a request or is one of   *)
(* the reader's own, and it is delivered to the caller under its ID.  Only *)
(* the message that accepts the connection does neither.                   *)
(***************************************************************************)
ProperInv ==
  /\ IF outPc = "off" THEN Len(stream) <= 1
                      ELSE \A j \in DOMAIN stream : IsProper(stream[j])
  /\ inPc = "deliver" => IsProper(inMsg) /\ inMsg.id = mid[inTarget]
  /\ \A p \in Callers :
       phase[p] = "await" /\ chan[p] = "full" => IsProper(reply[p]) /\ reply[p].id = mid[p]

(* What answered a request goes on doing so. *)
LEMMA ProperStays == ASSUME TypeOK, [Next]_vars, NEW m, IsProper(m) PROVE IsProper(m)'
<1>1. answered \subseteq answered' /\ (wire' = wire \/ OutWrites)
  BY DEF Next, Rest, ClientStep, ReaderStep, ConnectStep, StartConnect, ReadHello, HelloFails,
    Refused, NegotiationAborted, NegotiationRefused, FailNegotiation, GotSupportedVersion,
    HugeSupportedVersion, GotSetVersion, Open, ServeError, ServeDone, Join, OutgoingStep,
    OutSeesDone, OutFindsNoAck, OutTakesAck, OutTakesRequest, OutWriteFails, OutStops,
    IncomingStep, InSeesDone, InContinues, InReads, InReadFails, InDelivers, InReplyCut,
    InHandles, InDiscardFails, InStops, AwaitClose, CallerStep, PassGate, Withdraw, GiveUp,
    Receive, CallClose, Begin, Answer, Notify, Hangup, OwnerCloses, vars, clientVars, networkVars
<1>2. \A i \in DOMAIN wire : i \in DOMAIN wire' /\ wire'[i] = wire[i]
  <2>1. wire \in Seq(Outgoing(Ids))
    BY WireFacts
  <2>. QED
    BY <1>1, <2>1 DEF OutWrites
<1>. QED
  BY <1>1, <1>2, WireFacts DEF IsProper, IsReply, IsOwn

LEMMA ProperFrame ==
  ASSUME TypeOK, ProperInv, [Next]_vars,
         stream' = stream \/ (stream # <<>> /\ stream' = Tail(stream)),
         outPc' = "off" <=> outPc = "off",
         inPc' = "deliver" => inPc = "deliver" /\ inMsg' = inMsg /\ inTarget' = inTarget
                                /\ mid'[inTarget] = mid[inTarget],
         \A p \in Callers :
           phase'[p] = "await" /\ chan'[p] = "full" =>
             phase[p] = "await" /\ chan[p] = "full" /\ reply'[p] = reply[p] /\ mid'[p] = mid[p]
  PROVE  ProperInv'
<1>1. \A m : IsProper(m) => IsProper(m)'
  BY ProperStays
<1>2. stream \in Seq(Incoming(Ids))
  BY DEF TypeOK, NetworkTypeOK
<1>3. outPc' = "off" => Len(stream') <= 1
  BY <1>2 DEF ProperInv
<1>4. outPc' # "off" => (\A j \in DOMAIN stream : IsProper(stream[j]))'
  BY <1>1, <1>2 DEF ProperInv
<1>5. inPc' = "deliver" => IsProper(inMsg)' /\ inMsg'.id = mid'[inTarget']
  BY <1>1 DEF ProperInv
<1>6. (\A p \in Callers :
        phase[p] = "await" /\ chan[p] = "full" => IsProper(reply[p]) /\ reply[p].id = mid[p])'
  BY <1>1 DEF ProperInv
<1>. QED
  BY <1>3, <1>4, <1>5, <1>6 DEF ProperInv

(* A message arrives that is proper. *)
LEMMA ProperArrives ==
  ASSUME TypeOK, ProperInv, [Next]_vars, outPc # "off",
         UNCHANGED <<inPc, inMsg, inTarget, mid, phase, chan, reply, outPc>>,
         NEW m \in Incoming(Ids), stream' = Append(stream, m), IsProper(m)'
  PROVE  ProperInv'
<1>1. \A n : IsProper(n) => IsProper(n)'
  BY ProperStays
<1>2. stream \in Seq(Incoming(Ids))
  BY DEF TypeOK, NetworkTypeOK
<1>3. (\A j \in DOMAIN stream : IsProper(stream[j]))'
  BY <1>1, <1>2 DEF ProperInv
<1>4. inPc' = "deliver" => IsProper(inMsg)' /\ inMsg'.id = mid'[inTarget']
  BY <1>1 DEF ProperInv
<1>5. (\A p \in Callers :
        phase[p] = "await" /\ chan[p] = "full" => IsProper(reply[p]) /\ reply[p].id = mid[p])'
  BY <1>1 DEF ProperInv
<1>. QED
  BY <1>3, <1>4, <1>5 DEF ProperInv

LEMMA ProperStep ==
  ASSUME NoWrap, SessionInv, ProperInv, [Next]_vars
  PROVE  ProperInv'
<1>. USE DEF connectVars, outgoingVars, incomingVars, ackVars, replyVars, callVars, networkVars
<1>0. /\ TypeOK /\ ChannelInv /\ StagesInv /\ StartTogether /\ CountInv /\ WaiterInv
      /\ EntryOwnsItsChannel /\ OfferedHasNoChannel
  BY DEF SessionInv, ChannelInv, ChannelOwnership
<1>1. ASSUME stream' = stream \/ (stream # <<>> /\ stream' = Tail(stream)),
             outPc' = "off" <=> outPc = "off",
             inPc' = "deliver" => inPc = "deliver",
             UNCHANGED <<inMsg, inTarget, mid, phase, chan, reply>>
      PROVE  ProperInv'
  BY <1>0, <1>1, ProperFrame
<1>2. CASE ConnectStep
  <2>1. CASE ReadHello
    <3>1. /\ outPc = "off" /\ stream # <<>> /\ stream' = Tail(stream)
          /\ outPc' # "off" /\ inPc' # "deliver"
          /\ UNCHANGED <<mid, chan, reply>>
          /\ phase' = phase \/ phase' = [phase EXCEPT ![Conn] = "offer"]
      BY <1>0, <2>1 DEF ReadHello, CanRead, SendFromConnect, StagesInv, NothingYet
    <3>2. stream \in Seq(Incoming(Ids)) /\ Len(stream) <= 1
      BY <1>0, <3>1 DEF ProperInv, TypeOK, NetworkTypeOK
    <3>3. DOMAIN stream' = {}
      BY <3>1, <3>2
    <3>4. \A m : IsProper(m) => IsProper(m)'
      BY <1>0, ProperStays
    <3>5. \A q \in Callers : phase'[q] = "await" => phase[q] = "await"
      BY <1>0, <3>1 DEF TypeOK, CallTypeOK
    <3>. QED
      BY <3>1, <3>3, <3>4, <3>5 DEF ProperInv
  <2>2. CASE GotSupportedVersion
    <3>1. /\ UNCHANGED <<stream, outPc, inPc, inMsg, inTarget, mid, chan, reply>>
          /\ phase' = phase \/ phase' = [phase EXCEPT ![Conn] = "offer"]
      BY <2>2 DEF GotSupportedVersion, SendFromConnect
    <3>2. \A q \in Callers : phase'[q] = "await" => phase[q] = "await"
      BY <1>0, <3>1 DEF TypeOK, CallTypeOK
    <3>. QED
      BY <1>0, <3>1, <3>2, ProperFrame
  <2>3. CASE ConnectStep /\ ~ReadHello /\ ~GotSupportedVersion
    BY <1>1, <2>3 DEF ConnectStep, StartConnect, HelloFails, CanRead, Refused, NegotiationAborted,
      NegotiationRefused, FailNegotiation, HugeSupportedVersion, GotSetVersion, Open, ServeError,
      ServeDone, Join
  <2>. QED
    BY <1>2, <2>1, <2>2, <2>3
<1>3. ASSUME NEW p \in Callers, OutTakesRequest(p) PROVE ProperInv'
  <2>1. /\ outPc # "off" /\ outPc' # "off" /\ phase[p] = "offer"
        /\ UNCHANGED <<stream, inPc, inMsg, inTarget, reply>>
        /\ \A q \in Callers : q # p => phase'[q] = phase[q]
    BY <1>0, <1>3, Takes
  <2>2. inPc = "deliver" => inTarget \in Callers /\ inTarget # p
    BY <1>0, <2>1 DEF OfferedHasNoChannel, TypeOK, GoroutineTypeOK
  <2>3. \/ UNCHANGED <<mid, chan>> /\ phase'[p] # "await"
        \/ mid' = [mid EXCEPT ![p] = nextMsgID] /\ chan' = [chan EXCEPT ![p] = "open"]
    BY <1>0, <1>3, Takes DEF Register
  <2>4. \A q \in Callers : q # p => mid'[q] = mid[q] /\ chan'[q] = chan[q]
    BY <1>0, <2>3 DEF TypeOK, CallTypeOK
  <2>5. ~(phase'[p] = "await" /\ chan'[p] = "full")
    BY <1>0, <2>3 DEF TypeOK, CallTypeOK
  <2>. QED
    BY <1>0, <2>1, <2>2, <2>4, <2>5, ProperFrame
<1>4. CASE OutSeesDone \/ OutFindsNoAck \/ OutTakesAck \/ OutWrites \/ OutWriteFails
  BY <1>1, <1>4 DEF OutSeesDone, OutFindsNoAck, OutTakesAck, OutWrites, NextAfterWrite,
    OutWriteFails, OutStops
<1>5. CASE InReads
  <2>. DEFINE m == Head(stream)
  <2>1. /\ stream # <<>> /\ stream' = Tail(stream) /\ inMsg' = m /\ inTarget' = awaiting[m.id]
        /\ inPc' = "deliver" => awaiting[m.id] # NoCaller
        /\ inPc = "read" /\ UNCHANGED <<outPc, mid, phase, chan, reply>>
    BY <1>5 DEF InReads, CanRead, NeedsReply
  <2>2. stream \in Seq(Incoming(Ids)) /\ m \in Incoming(Ids)
    BY <1>0, <1>5, ReadType DEF InReads, TypeOK, NetworkTypeOK
  <2>3. m.id \in Ids
    BY <2>2 DEF Incoming
  <2>4. outPc # "off"
    BY <1>0, <2>1 DEF StartTogether
  <2>5. IsProper(m)
    BY <2>1, <2>2, <2>4 DEF ProperInv
  <2>6. \A n : IsProper(n) => IsProper(n)'
    BY <1>0, ProperStays
  <2>7. inPc' = "deliver" => IsProper(inMsg)' /\ inMsg'.id = mid'[inTarget']
    <3>1. IsProper(inMsg)'
      BY <2>1, <2>5, <2>6
    <3>2. inPc' = "deliver" => mid[awaiting[m.id]] = m.id
      BY <1>0, <2>1, <2>3 DEF EntryOwnsItsChannel
    <3>. QED
      BY <2>1, <3>1, <3>2
  <2>8. (\A j \in DOMAIN stream : IsProper(stream[j]))'
    BY <2>1, <2>2, <2>4, <2>6 DEF ProperInv
  <2>9. (\A p \in Callers :
          phase[p] = "await" /\ chan[p] = "full" => IsProper(reply[p]) /\ reply[p].id = mid[p])'
    BY <2>1, <2>6 DEF ProperInv
  <2>. QED
    BY <2>1, <2>4, <2>7, <2>8, <2>9 DEF ProperInv
<1>6. CASE InDelivers
  <2>1. /\ inPc = "deliver" /\ inPc' = "handle"
        /\ chan' = [chan EXCEPT ![inTarget] = "full"]
        /\ reply' = [reply EXCEPT ![inTarget] = inMsg]
        /\ UNCHANGED <<stream, inMsg, outPc, mid, phase>>
    BY <1>6 DEF InDelivers
  <2>2. \A n : IsProper(n) => IsProper(n)'
    BY <1>0, ProperStays
  <2>3. (\A p \in Callers :
          phase[p] = "await" /\ chan[p] = "full" => IsProper(reply[p]) /\ reply[p].id = mid[p])'
    <3>1. inTarget \in Callers /\ reply'[inTarget] = inMsg
      BY <1>0, <2>1 DEF TypeOK, CallTypeOK, GoroutineTypeOK
    <3>2. IsProper(inMsg) /\ inMsg.id = mid[inTarget]
      BY <2>1 DEF ProperInv
    <3>3. \A q \in Callers : q # inTarget => chan'[q] = chan[q] /\ reply'[q] = reply[q]
      BY <1>0, <2>1 DEF TypeOK, CallTypeOK
    <3>4. \A q \in Callers : phase'[q] = "await" /\ chan'[q] = "full" =>
                              IsProper(reply'[q]) /\ reply'[q].id = mid'[q]
      BY <2>1, <3>1, <3>2, <3>3 DEF ProperInv
    <3>. QED
      BY <2>2, <3>4
  <2>4. outPc' # "off" => (\A j \in DOMAIN stream : IsProper(stream[j]))'
    BY <2>1, <2>2 DEF ProperInv
  <2>. QED
    BY <2>1, <2>3, <2>4 DEF ProperInv
<1>7. CASE IncomingStep /\ ~InReads /\ ~InDelivers
  BY <1>1, <1>7 DEF IncomingStep, InSeesDone, InContinues, InReadFails, InReplyCut, InHandles,
    InDiscardFails, InStops, AwaitClose
<1>8. ASSUME NEW p \in Callers, CallerStep(p) PROVE ProperInv'
  <2>1. CASE GiveUp(p)
    <3>1. \A q \in Callers : phase'[q] = "await" => q # p
      BY <1>0, <2>1, GivesUp
    <3>. QED
      BY <1>0, <2>1, <3>1, GivesUp, ProperFrame
  <2>2. CASE PassGate(p) \/ Withdraw(p) \/ Receive(p) \/ CallClose(p)
    <3>1. /\ UNCHANGED <<stream, outPc, inPc, inMsg, inTarget, mid, chan, reply>>
          /\ \E s \in {"offer", "returned", "close"} : phase' = [phase EXCEPT ![p] = s]
      BY <2>2 DEF PassGate, Withdraw, Receive, CallClose, StopsWaiting, Returns
    <3>2. \A q \in Callers : phase'[q] = "await" => phase[q] = "await"
      BY <1>0, <3>1 DEF TypeOK, CallTypeOK
    <3>. QED
      BY <1>0, <3>1, <3>2, ProperFrame
  <2>. QED
    BY <1>8, <2>1, <2>2 DEF CallerStep
<1>9. ASSUME NEW p \in Senders, NEW o \in Operations, Begin(p, o) PROVE ProperInv'
  <2>1. /\ UNCHANGED <<stream, outPc, inPc, inMsg, inTarget, mid, chan, reply>>
        /\ \E s \in {"close", "gate"} : phase' = [phase EXCEPT ![p] = s]
    BY <1>9 DEF Begin
  <2>2. \A q \in Callers : phase'[q] = "await" => phase[q] = "await"
    BY <1>0, <2>1 DEF TypeOK, CallTypeOK
  <2>. QED
    BY <1>0, <2>1, <2>2, ProperFrame
<1>10. ASSUME NEW i \in DOMAIN wire, Answer(i) PROVE ProperInv'
  <2>1. PICK m \in Replies(wire[i]) : stream' = Append(stream, m)
    BY <1>10 DEF Answer
  <2>2. wire[i] \in Outgoing(Ids) /\ wire[i].type \in AwaitedRequests /\ wire' = wire
        /\ i \in answered'
    BY <1>0, <1>10, WireFacts DEF Answer
  <2>3. m \in Incoming(Ids) /\ m.id = wire[i].id
        /\ m.type \in {Converse[wire[i].type], "ErrorMessage"}
    BY <2>1, <2>2, RepliesType DEF Replies
  <2>4. IsProper(m)'
    BY <2>2, <2>3 DEF IsProper, IsReply
  <2>5. outPc # "off"
    BY <1>0, <2>2 DEF StagesInv, NothingYet
  <2>6. UNCHANGED <<inPc, inMsg, inTarget, mid, phase, chan, reply, outPc>>
    BY <1>10 DEF Answer
  <2>. QED
    BY <1>0, <2>1, <2>3, <2>4, <2>5, <2>6, ProperArrives
<1>11. CASE Notify
  <2>1. PICK t \in UnsolicitedTypes, i \in UnsolicitedIds :
          stream' = Append(stream, [type |-> t, id |-> i, body |-> "ok"])
    BY <1>11 DEF Notify
  <2>. DEFINE m == [type |-> t, id |-> i, body |-> "ok"]
  <2>2. m \in Incoming(Ids)
    BY ReaderAssumption DEF Incoming, IncomingTypes, Bodies
  <2>3. IsProper(m)'
    BY DEF IsProper, IsOwn
  <2>4. outPc # "off" /\ UNCHANGED <<inPc, inMsg, inTarget, mid, phase, chan, reply, outPc>>
    BY <1>11 DEF Notify
  <2>. QED
    BY <1>0, <2>1, <2>2, <2>3, <2>4, ProperArrives
<1>12. CASE Hangup \/ OwnerCloses \/ UNCHANGED vars
  BY <1>1, <1>12 DEF Hangup, OwnerCloses, vars, clientVars
<1>. QED
  BY <1>2, <1>3, <1>4, <1>5, <1>6, <1>7, <1>8, <1>9, <1>10, <1>11, <1>12
  DEF Next, Rest, ClientStep, ReaderStep, OutgoingStep

(***************************************************************************)
(* As long as the IDs do not wrap, the message in a caller's replyChan     *)
(* answers that caller's request, whatever the order of the answers and    *)
(* whoever gave up before; unless the reader uses the ID of that request   *)
(* for a message of its own, and then the caller gets that one, and never  *)
(* what another caller waits for (reader.go, handleOutgoing and            *)
(* passToHandler).                                                         *)
(***************************************************************************)
THEOREM RepliesGoToTheirCallers == ASSUME NoWrap PROVE Spec => []RepliesAreCorrelated
<1>1. Init => RequestsInv /\ ProperInv
  <2>. SUFFICES ASSUME Init PROVE RequestsInv /\ ProperInv
    OBVIOUS
  <2>1. RequestsInv
    BY DEF Init, ClientInit, RequestsInv, Issued
  <2>2. Len(stream) <= 1
    <3>1. stream = <<Hello("ok")>> \/ stream = <<Hello("rejected")>> \/ stream = <<>>
      BY DEF Init
    <3>2. Len(<<>>) = 0
      OBVIOUS
    <3>3. \A m : Len(<<m>>) = 1
      OBVIOUS
    <3>4. Len(stream) = 0 \/ Len(stream) = 1
      BY ZenonT(60), <3>1, <3>2, <3>3
    <3>. QED
      BY <3>4
  <2>. QED
    BY <2>1, <2>2 DEF Init, ClientInit, ProperInv
<1>2. SessionInv /\ RequestsInv /\ ProperInv /\ [Next]_vars => RequestsInv' /\ ProperInv'
  BY RequestsStep, ProperStep
<1>3. SessionInv /\ RequestsInv /\ ProperInv => RepliesAreCorrelated
  <2>. SUFFICES ASSUME SessionInv, RequestsInv, ProperInv,
                       NEW p \in Callers, phase[p] = "await", chan[p] = "full"
                PROVE  reply[p].id = mid[p] /\ (GotItsAnswer(p) \/ GotReadersOwn(p))
    BY DEF RepliesAreCorrelated
  <2>1. IsProper(reply[p]) /\ reply[p].id = mid[p]
    BY DEF ProperInv
  <2>2. mid[p] \in Ids /\ TypeOK
    BY DEF SessionInv, ChannelInv, TypeOK, CallTypeOK
  <2>3. CASE IsReply(reply[p])
    <3>1. PICK i \in answered : /\ wire[i].type \in AwaitedRequests /\ wire[i].id = mid[p]
                                /\ reply[p].type \in {Converse[wire[i].type], "ErrorMessage"}
      BY <2>1, <2>3 DEF IsReply
    <3>2. Issued(wire[i].type, mid[p])
      BY <2>2, <3>1, WireFacts DEF Issued
    <3>3. wire[i].type = RequestType[op[p]]
      BY <2>2, <3>1, <3>2 DEF RequestsInv
    <3>. QED
      BY <2>1, <3>1, <3>3 DEF GotItsAnswer
  <2>4. CASE IsOwn(reply[p])
    BY <2>1, <2>4 DEF IsOwn, GotReadersOwn
  <2>. QED
    BY <2>1, <2>3, <2>4 DEF IsProper
<1>. QED
  BY <1>1, <1>2, <1>3, WaitersCorrect, PTL DEF Spec

-----------------------------------------------------------------------------
(* The Client implements RequestReply                                      *)

(***************************************************************************)
(* What the mapped steps need besides: Connect ends closed and with its    *)
(* goroutines stopped, unless it fails to negotiate, and then no sender    *)
(* has been let through; handleOutgoing takes nothing after                *)
(* CloseConnection.                                                        *)
(***************************************************************************)
LinkInv ==
  /\ connPc \in {"join", "returned"} => done
  /\ LastRequestTaken => outPc \in {"write", "parked", "stopped"}
  /\ connPc = "refused" => outPc = "off"
  /\ ready /\ connPc = "returned" => outPc \in {"off", "stopped"} /\ inPc \in {"off", "stopped"}
  /\ \A p \in Senders : phase[p] = "await" => ready

LEMMA LinkFrame ==
  ASSUME LinkInv,
         connPc' = connPc, done => done', ready' = ready,
         outMsg' = outMsg,
         outPc' = outPc \/ (outPc # "off" /\ outPc' = "stopped")
           \/ (~LastRequestTaken /\ outPc \notin {"off", "stopped"} /\ outPc' # "off"),
         inPc' = inPc \/ inPc \notin {"off", "stopped"},
         \A p \in Senders : phase'[p] = "await" => phase[p] = "await"
  PROVE  LinkInv'
BY DEF LinkInv, LastRequestTaken

LEMMA LinkStep ==
  ASSUME NoWrap, SessionInv, LinkInv, [Next]_vars
  PROVE  LinkInv'
<1>. USE DEF connectVars, outgoingVars, incomingVars, ackVars, replyVars, callVars, networkVars
<1>0. TypeOK /\ ChannelInv /\ StagesInv /\ StartTogether /\ CountInv
  BY DEF SessionInv, ChannelInv
<1>1. ASSUME UNCHANGED <<connPc, done, ready, outMsg, outPc, inPc, phase>> PROVE LinkInv'
  BY <1>1, LinkFrame
<1>2. CASE ConnectStep
  <2>1. CASE ReadHello \/ GotSupportedVersion
    <3>1. /\ UNCHANGED <<done, ready, outMsg>>
          /\ connPc' \in Negotiating \cup {"open"}
          /\ outPc' = outPc \/ (outPc = "off" /\ outPc' = "pick")
          /\ phase' = phase \/ phase' = [phase EXCEPT ![Conn] = "offer"]
      BY <1>0, <2>1 DEF ReadHello, GotSupportedVersion, SendFromConnect, Negotiating, StagesInv, NothingYet
    <3>2. \A p \in Senders : phase'[p] = "await" => phase[p] = "await"
      BY <1>0, <3>1 DEF TypeOK, CallTypeOK, Callers
    <3>. QED
      BY <3>1, <3>2 DEF LinkInv, LastRequestTaken, Negotiating
  <2>2. CASE StartConnect \/ GotSetVersion \/ Open
    <3>1. /\ UNCHANGED <<done, outMsg, outPc, phase>> /\ (ready => ready')
          /\ connPc' \in {"hello", "open", "serve"}
      BY <2>2 DEF StartConnect, GotSetVersion, Open
    <3>. QED
      BY <3>1 DEF LinkInv, LastRequestTaken
  <2>3. CASE HelloFails
    <3>1. outPc = "off" /\ connPc' = "refused" /\ ready' = TRUE /\ UNCHANGED <<outMsg, outPc, phase>>
      BY <1>0, <2>3 DEF HelloFails, StagesInv, NothingYet
    <3>. QED
      BY <3>1 DEF LinkInv, LastRequestTaken
  <2>4. CASE Refused
    <3>1. /\ outPc = "off" /\ inPc = "off" /\ connPc' = "returned" /\ done'
          /\ UNCHANGED <<ready, outMsg, outPc, inPc, phase>>
      BY <1>0, <2>4 DEF Refused, CloseDone, LinkInv, StartTogether
    <3>. QED
      BY <3>1 DEF LinkInv, LastRequestTaken
  <2>5. CASE NegotiationAborted \/ NegotiationRefused
    <3>1. /\ connPc \in Negotiating /\ connPc' = "returned" /\ done'
          /\ UNCHANGED <<ready, outMsg, outPc, inPc, phase>>
      BY <2>5 DEF NegotiationAborted, NegotiationRefused, FailNegotiation, CloseDone, Negotiating
    <3>2. ~ready
      BY <1>0, <3>1 DEF StagesInv, OpenWhenNegotiated
    <3>. QED
      BY <3>1, <3>2 DEF LinkInv, LastRequestTaken
  <2>6. CASE ServeError \/ ServeDone
    <3>1. connPc' = "join" /\ done' /\ UNCHANGED <<ready, outMsg, outPc, inPc, phase>>
      BY <2>6 DEF ServeError, ServeDone, CloseDone
    <3>. QED
      BY <3>1 DEF LinkInv, LastRequestTaken
  <2>7. CASE Join
    <3>1. /\ connPc = "join" /\ connPc' = "returned" /\ outPc = "stopped" /\ inPc = "stopped"
          /\ UNCHANGED <<done, ready, outMsg, outPc, inPc, phase>>
      BY <2>7 DEF Join
    <3>. QED
      BY <3>1 DEF LinkInv, LastRequestTaken
  <2>8. CASE HugeSupportedVersion
    BY <1>1, <2>8 DEF HugeSupportedVersion
  <2>. QED
    BY <1>2, <2>1, <2>2, <2>3, <2>4, <2>5, <2>6, <2>7, <2>8 DEF ConnectStep
<1>3. ASSUME NEW p \in Callers, OutTakesRequest(p) PROVE LinkInv'
  <2>1. /\ outPc = "wait" /\ outPc' = "write" /\ phase[p] = "offer"
        /\ UNCHANGED <<connPc, done, ready, inPc>>
        /\ \A q \in Callers : q # p => phase'[q] = phase[q]
    BY <1>0, <1>3, Takes
  <2>2. p \in Senders => ready
    BY <1>0, <2>1 DEF StagesInv, SendersWait
  <2>. QED
    BY <2>1, <2>2 DEF LinkInv, LastRequestTaken, Callers
<1>4. CASE OutTakesAck
  <2>1. /\ outPc \in {"pick", "wait"} /\ outPc' = "write" /\ outMsg'.type = "KeepAliveAck"
        /\ UNCHANGED <<connPc, done, ready, inPc, phase>>
    BY <1>4 DEF OutTakesAck, KeepAliveAck
  <2>. QED
    BY <2>1 DEF LinkInv, LastRequestTaken
<1>5. CASE OutSeesDone \/ OutFindsNoAck \/ OutWrites \/ OutWriteFails
  <2>1. LastRequestTaken => outPc \in {"write", "parked", "stopped"}
    BY DEF LinkInv
  <2>2. UNCHANGED <<connPc, done, ready, outMsg, inPc, phase>>
    BY <1>5 DEF OutSeesDone, OutFindsNoAck, OutWrites, OutWriteFails, OutStops
  <2>3. CASE OutSeesDone \/ OutWriteFails
    BY <2>2, <2>3, LinkFrame DEF OutSeesDone, OutWriteFails, OutStops
  <2>4. CASE OutFindsNoAck
    BY <2>1, <2>2, <2>4, LinkFrame DEF OutFindsNoAck
  <2>5. CASE OutWrites
    <3>1. outPc = "write" /\ outPc' \in {"pick", "parked"} /\ (LastRequestTaken => outPc' = "parked")
      BY <2>5 DEF OutWrites, NextAfterWrite, LastRequestTaken
    <3>. QED
      BY <2>2, <3>1 DEF LinkInv, LastRequestTaken
  <2>. QED
    BY <1>5, <2>3, <2>4, <2>5
<1>6. CASE IncomingStep
  <2>1. UNCHANGED <<connPc, done, ready, outMsg, outPc, phase>> /\ inPc \notin {"off", "stopped"}
    BY <1>6 DEF IncomingStep, InSeesDone, InContinues, InReads, InReadFails, InDelivers,
      InReplyCut, InHandles, InDiscardFails, InStops, AwaitClose
  <2>. QED
    BY <2>1, LinkFrame
<1>7. ASSUME NEW p \in Callers, CallerStep(p) PROVE LinkInv'
  <2>1. /\ UNCHANGED <<connPc, ready, outMsg, outPc, inPc>> /\ (done => done')
        /\ \E s \in {"offer", "returned", "close"} : phase' = [phase EXCEPT ![p] = s]
    BY <1>7 DEF CallerStep, PassGate, Withdraw, GiveUp, Receive, CallClose, StopsWaiting, Returns
  <2>2. \A q \in Senders : phase'[q] = "await" => phase[q] = "await"
    BY <1>0, <2>1 DEF TypeOK, CallTypeOK, Callers
  <2>. QED
    BY <2>1, <2>2, LinkFrame
<1>8. ASSUME NEW p \in Senders, NEW o \in Operations, Begin(p, o) PROVE LinkInv'
  <2>1. /\ UNCHANGED <<connPc, done, ready, outMsg, outPc, inPc>>
        /\ \E s \in {"close", "gate"} : phase' = [phase EXCEPT ![p] = s]
    BY <1>8 DEF Begin
  <2>2. \A q \in Senders : phase'[q] = "await" => phase[q] = "await"
    BY <1>0, <2>1 DEF TypeOK, CallTypeOK, Callers
  <2>. QED
    BY <2>1, <2>2, LinkFrame
<1>9. CASE ReaderStep \/ OwnerCloses \/ UNCHANGED vars
  BY <1>1, <1>9 DEF ReaderStep, Answer, Notify, Hangup, OwnerCloses, vars, clientVars
<1>. QED
  BY <1>2, <1>3, <1>4, <1>5, <1>6, <1>7, <1>8, <1>9 DEF Next, Rest, ClientStep, OutgoingStep

(* When the state of the link changes, and when that of a call. *)
LEMMA LinkSame ==
  ASSUME UNCHANGED connPc, outMsg'.type = outMsg.type PROVE LinkState' = LinkState
BY DEF LinkState, LastRequestTaken

LEMMA StageSame ==
  ASSUME NEW p, phase'[p] = phase[p], op'[p] = op[p], outcome'[p] = outcome[p],
         chan'[p] = chan[p] \/ phase[p] # "await"
  PROVE  CallStage(p)' = CallStage(p)
BY DEF CallStage

LEMMA LinkStutters ==
  ASSUME LinkState' = LinkState, done' = done,
         \A p \in Senders : CallStage(p)' = CallStage(p)
  PROVE  UNCHANGED RR!vars
BY DEF RR!vars

LEMMA CallMoves ==
  ASSUME NEW p \in Senders, NEW from, NEW to,
         CallStage(p) \in from, CallStage(p)' = to,
         \A q \in Senders : q # p => CallStage(q)' = CallStage(q)
  PROVE  RR!Moves(p, from, to)
BY DEF RR!Moves

(* No call moves unless one of its own variables does. *)
LEMMA CallsSame ==
  ASSUME UNCHANGED <<op, chan, outcome>>, \A p \in Senders : phase'[p] = phase[p]
  PROVE  \A p \in Senders : CallStage(p)' = CallStage(p)
BY StageSame

LEMMA NothingHappens ==
  ASSUME UNCHANGED <<connPc, done, op, chan, phase, outcome>>, outMsg'.type = outMsg.type
  PROVE  UNCHANGED RR!vars
BY LinkSame, CallsSame, LinkStutters

(* The steps of Connect open the link, give it up or take it down. *)
LEMMA ConnectMaps ==
  ASSUME NoWrap, SessionInv, LinkInv, ConnectStep
  PROVE  RR!Next \/ UNCHANGED RR!vars
<1>. USE DEF connectVars, outgoingVars, incomingVars, ackVars, replyVars, callVars, networkVars
<1>0. TypeOK /\ StagesInv
  BY DEF SessionInv, ChannelInv
<1>1. CASE HugeSupportedVersion
  BY <1>1, NothingHappens DEF HugeSupportedVersion
<1>2. CASE StartConnect \/ ReadHello \/ HelloFails \/ GotSupportedVersion \/ GotSetVersion
  <2>1. /\ UNCHANGED <<done, outMsg, chan, outcome>>
        /\ {connPc, connPc'} \cap {"returned", "serve", "join"} = {}
        /\ \/ UNCHANGED <<op, phase>>
           \/ /\ phase' = [phase EXCEPT ![Conn] = "offer"]
              /\ \E o : op' = [op EXCEPT ![Conn] = o]
    BY <1>2 DEF StartConnect, ReadHello, HelloFails, GotSupportedVersion, GotSetVersion, SendFromConnect
  <2>2. LinkState' = LinkState
    BY <2>1 DEF LinkState, LastRequestTaken
  <2>3. \A p \in Senders : phase'[p] = phase[p] /\ op'[p] = op[p]
    BY <1>0, <2>1, CallersAssumption DEF TypeOK, CallTypeOK, Callers
  <2>4. \A p \in Senders : CallStage(p)' = CallStage(p)
    BY <2>1, <2>3, StageSame
  <2>. QED
    BY <2>1, <2>2, <2>4, LinkStutters
<1>3. CASE Refused \/ NegotiationAborted \/ NegotiationRefused \/ Join
  <2>1. /\ connPc # "returned" /\ connPc' = "returned" /\ done' = TRUE
        /\ UNCHANGED <<op, chan, outcome, phase>>
    BY <1>3 DEF Refused, NegotiationAborted, NegotiationRefused, FailNegotiation, CloseDone, Join,
      LinkInv, TypeOK, ConnectTypeOK
  <2>2. LinkState # "down" /\ LinkState' = "down"
    BY <2>1 DEF LinkState
  <2>3. [p \in Senders |-> CallStage(p)]' = [p \in Senders |-> CallStage(p)]
    BY <2>1, CallsSame
  <2>. QED
    BY <2>1, <2>2, <2>3 DEF RR!LinkGoesDown, RR!Next
<1>4. CASE Open
  <2>1. /\ connPc = "open" /\ connPc' = "serve"
        /\ UNCHANGED <<done, outMsg, op, chan, outcome, phase>>
    BY <1>4 DEF Open
  <2>2. [p \in Senders |-> CallStage(p)]' = [p \in Senders |-> CallStage(p)]
    BY <2>1, CallsSame
  <2>3. CASE LastRequestTaken
    <3>1. LinkState' = LinkState
      BY <2>1, <2>3 DEF LinkState, LastRequestTaken
    <3>. QED
      BY <2>1, <2>2, <3>1 DEF RR!vars
  <2>4. CASE ~LastRequestTaken
    <3>1. LinkState = "new" /\ LinkState' = "open"
      BY <2>1, <2>4 DEF LinkState, LastRequestTaken
    <3>. QED
      BY <2>1, <2>2, <3>1 DEF RR!OpenLink, RR!Next
  <2>. QED
    BY <2>3, <2>4
<1>5. CASE ServeError \/ ServeDone
  <2>1. /\ connPc = "serve" /\ connPc' = "join" /\ done' = TRUE /\ done \in BOOLEAN
        /\ UNCHANGED <<outMsg, op, chan, outcome, phase>>
    BY <1>0, <1>5 DEF ServeError, ServeDone, CloseDone, TypeOK, ConnectTypeOK
  <2>2. [p \in Senders |-> CallStage(p)]' = [p \in Senders |-> CallStage(p)]
    BY <2>1, CallsSame
  <2>3. LinkState' = LinkState
    BY <2>1 DEF LinkState, LastRequestTaken
  <2>. QED
    BY <2>1, <2>2, <2>3 DEF RR!GiveUpLink, RR!Next, RR!vars
<1>. QED
  BY <1>1, <1>2, <1>3, <1>4, <1>5 DEF ConnectStep

(* The link is open when handleOutgoing takes a sender's request. *)
LEMMA TakesWhenOpen ==
  ASSUME SessionInv, LinkInv, NEW p \in Senders, outPc = "wait", phase[p] = "offer"
  PROVE  LinkState = "open" /\ op[p] \in {"SendMessage", "SendNoWait", "Shutdown"}
<1>0. TypeOK /\ StagesInv
  BY DEF SessionInv, ChannelInv
<1>1. ready /\ op[p] \notin VersionRequests
  BY <1>0 DEF StagesInv, SendersWait
<1>2. connPc \notin {"idle", "hello", "open", "getVersion", "setVersion"}
  BY <1>0, <1>1 DEF StagesInv, OpenWhenNegotiated, Negotiating
<1>3. connPc \in {"serve", "join"} /\ ~LastRequestTaken
  BY <1>0, <1>1, <1>2 DEF LinkInv, TypeOK, ConnectTypeOK
<1>4. op[p] \in Requests
  BY <1>0 DEF TypeOK, CallTypeOK, Callers
<1>. QED
  BY <1>1, <1>3, <1>4, RequestNames DEF LinkState, VersionRequests

LEMMA TakesMaps ==
  ASSUME NoWrap, SessionInv, LinkInv, NEW p \in Callers, OutTakesRequest(p)
  PROVE  RR!Next \/ UNCHANGED RR!vars
<1>0. TypeOK /\ StagesInv /\ CountInv
  BY DEF SessionInv, ChannelInv
<1>1. /\ outPc = "wait" /\ phase[p] = "offer"
      /\ outMsg'.type = RequestType[op[p]]
      /\ UNCHANGED <<connPc, done, op>>
      /\ \A q \in Callers : q # p => phase'[q] = phase[q]
  BY <1>0, Takes DEF NewHdrOnlyMsg, connectVars
<1>2. \/ /\ op[p] # "SendNoWait" /\ phase'[p] = "await" /\ UNCHANGED outcome
         /\ chan' = [chan EXCEPT ![p] = "open"]
      \/ /\ op[p] = "SendNoWait" /\ phase'[p] = "returned" /\ UNCHANGED chan
         /\ outcome' = [outcome EXCEPT ![p] = "ok"]
  BY <1>0 DEF OutTakesRequest, WantsReply, Register, TypeOK, CallTypeOK
<1>3. \A q \in Callers : q # p => chan'[q] = chan[q] /\ outcome'[q] = outcome[q]
  BY <1>0, <1>2 DEF TypeOK, CallTypeOK
<1>4. \A q \in Senders : q # p => CallStage(q)' = CallStage(q)
  BY <1>1, <1>3, StageSame DEF Callers
<1>5. chan'[p] # "full" \/ phase'[p] # "await"
  BY <1>0, <1>2 DEF TypeOK, CallTypeOK
<1>6. outcome'[p] = "ok" \/ phase'[p] # "returned"
  BY <1>0, <1>2 DEF TypeOK, CallTypeOK
<1>7. CASE p = Conn
  <2>1. ~LastRequestTaken
    BY <1>1 DEF LinkInv
  <2>2. op[p] \in VersionRequests
    BY <1>0, <1>1, <1>7, ConnFacts
    DEF StagesInv, GettingVersion, SettingVersion, Offers, Negotiating, VersionRequests
  <2>3. outMsg'.type # "CloseConnection"
    BY <1>1, <2>2 DEF RequestType, VersionRequests
  <2>4. LinkState' = LinkState
    BY <1>1, <2>1, <2>3 DEF LinkState, LastRequestTaken
  <2>. QED
    BY <1>1, <1>4, <1>7, <2>4, CallersAssumption, LinkStutters
<1>8. CASE p \in Senders
  <2>1. LinkState = "open" /\ op[p] \in {"SendMessage", "SendNoWait", "Shutdown"}
    BY <1>1, <1>8, TakesWhenOpen
  <2>2. CallStage(p) = "waiting"
    BY <1>1 DEF CallStage
  <2>3. connPc' \in {"serve", "join"}
    BY <1>1, <2>1 DEF LinkState
  <2>4. CASE op[p] = "SendMessage"
    <3>1. CallStage(p)' = "sent"
      BY <1>1, <1>2, <1>5, <2>4 DEF CallStage
    <3>2. LinkState' = "open"
      BY <1>1, <2>3, <2>4 DEF LinkState, LastRequestTaken, RequestType
    <3>. QED
      BY <1>1, <1>4, <1>8, <2>1, <2>2, <3>1, <3>2, CallMoves DEF RR!Accept, RR!Next
  <2>5. CASE op[p] = "SendNoWait"
    <3>1. CallStage(p)' = "done"
      BY <1>1, <1>2, <1>6, <2>5 DEF CallStage
    <3>2. LinkState' = "open"
      BY <1>1, <2>3, <2>5 DEF LinkState, LastRequestTaken, RequestType
    <3>. QED
      BY <1>1, <1>4, <1>8, <2>1, <2>2, <3>1, <3>2, CallMoves DEF RR!AcceptUnawaited, RR!Next
  <2>6. CASE op[p] = "Shutdown"
    <3>1. CallStage(p)' = "sent"
      BY <1>1, <1>2, <1>5, <2>6 DEF CallStage
    <3>2. LinkState' = "closing"
      BY <1>1, <2>3, <2>6 DEF LinkState, LastRequestTaken, RequestType
    <3>. QED
      BY <1>1, <1>4, <1>8, <2>1, <2>2, <3>1, <3>2, CallMoves DEF RR!AcceptLast, RR!Next
  <2>. QED
    BY <2>1, <2>4, <2>5, <2>6
<1>. QED
  BY <1>7, <1>8 DEF Callers

(* A delivery answers a call, unless its caller has given up. *)
LEMMA DeliverMaps ==
  ASSUME NoWrap, SessionInv, LinkInv, InDelivers
  PROVE  RR!Next \/ UNCHANGED RR!vars
<1>0. TypeOK /\ ChannelInv /\ StagesInv
  BY DEF SessionInv, ChannelInv
<1>. SUFFICES ASSUME NEW p \in Callers, p = inTarget PROVE RR!Next \/ UNCHANGED RR!vars
  BY <1>0 DEF InDelivers, TypeOK, GoroutineTypeOK
<1>1. /\ inPc = "deliver" /\ chan' = [chan EXCEPT ![p] = "full"]
      /\ UNCHANGED <<connPc, ready, done, outMsg, op, phase, outcome>>
  BY DEF InDelivers, connectVars, outgoingVars, callVars
<1>2. chan[p] = "open"
  BY <1>0, <1>1 DEF ChannelInv, ChannelOwnership, DeliveryOwnsItsChannel
<1>3. LinkState' = LinkState
  BY <1>1, LinkSame
<1>4. \A q \in Senders : q # p => CallStage(q)' = CallStage(q)
  <2>1. \A q \in Senders : q # p => chan'[q] = chan[q]
    BY <1>0, <1>1 DEF TypeOK, CallTypeOK, Callers
  <2>. QED
    BY <1>1, <2>1, StageSame
<1>5. CASE p \in Senders /\ phase[p] = "await"
  <2>1. ready
    BY <1>5 DEF LinkInv
  <2>2. connPc \notin {"idle", "hello", "open", "getVersion", "setVersion"}
    BY <1>0, <2>1 DEF StagesInv, OpenWhenNegotiated, Negotiating
  <2>3. connPc \notin {"refused", "returned"}
    BY <1>0, <1>1, <2>1 DEF LinkInv, SessionInv, StartTogether
  <2>4. connPc \in {"serve", "join"}
    BY <1>0, <2>2, <2>3 DEF TypeOK, ConnectTypeOK
  <2>5. LinkState \in {"open", "closing"}
    BY <2>4 DEF LinkState
  <2>6. CallStage(p) = "sent"
    BY <1>2, <1>5 DEF CallStage
  <2>7. chan'[p] = "full"
    BY <1>0, <1>1, <1>2 DEF TypeOK, CallTypeOK
  <2>8. CallStage(p)' = "answered"
    BY <1>1, <1>5, <2>7 DEF CallStage
  <2>. QED
    BY <1>1, <1>3, <1>4, <1>5, <2>5, <2>6, <2>8, CallMoves DEF RR!Answer, RR!Next
<1>6. CASE p \in Senders /\ phase[p] # "await"
  <2>1. CallStage(p)' = CallStage(p)
    BY <1>1, <1>6, StageSame
  <2>. QED
    BY <1>1, <1>3, <1>4, <2>1, LinkStutters
<1>7. CASE p \notin Senders
  BY <1>1, <1>3, <1>4, <1>7, LinkStutters
<1>. QED
  BY <1>5, <1>6, <1>7

(* What a caller does moves its own call only. *)
LEMMA CallerMaps ==
  ASSUME NoWrap, SessionInv, LinkInv, NEW p \in Callers, CallerStep(p)
  PROVE  RR!Next \/ UNCHANGED RR!vars
<1>. USE DEF connectVars, outgoingVars, replyVars
<1>0. TypeOK /\ ChannelInv /\ StagesInv /\ WaiterInv
  BY DEF SessionInv, ChannelInv
<1>1. /\ UNCHANGED <<connPc, outMsg, op>>
      /\ \E s \in CallerPhases : phase' = [phase EXCEPT ![p] = s]
      /\ outcome' = outcome \/ \E r : outcome' = [outcome EXCEPT ![p] = r]
      /\ UNCHANGED chan \/ GiveUp(p)
  BY DEF CallerStep, PassGate, Withdraw, GiveUp, Receive, CallClose, StopsWaiting, Returns, CallerPhases
<1>2. LinkState' = LinkState
  BY <1>1, LinkSame
<1>3. \A q \in Senders : q # p => CallStage(q)' = CallStage(q)
  <2>1. \A q \in Callers : q # p => phase'[q] = phase[q] /\ outcome'[q] = outcome[q]
    BY <1>0, <1>1 DEF TypeOK, CallTypeOK
  <2>2. \A q \in Callers : q # p => chan'[q] = chan[q]
    BY <1>0, <1>1, GivesUp
  <2>. QED
    BY <1>1, <2>1, <2>2, StageSame DEF Callers
<1>4. ASSUME NEW r, Returns(p, r) PROVE phase'[p] = "returned" /\ outcome'[p] = r
  BY <1>0, <1>4 DEF Returns, TypeOK, CallTypeOK
<1>5. CASE p = Conn
  <2>1. phase[p] \notin {"gate", "close"}
    BY <1>0, <1>5 DEF StagesInv, ConnSends
  <2>2. done' = done
    BY <2>1 DEF CallerStep, PassGate, Withdraw, GiveUp, Receive, CallClose
  <2>. QED
    BY <1>2, <1>3, <1>5, <2>2, CallersAssumption, LinkStutters
<1>6. CASE p \in Senders
  <2>1. CASE PassGate(p)
    <3>1. phase[p] = "gate" /\ phase'[p] = "offer" /\ done' = done
      BY <1>0, <2>1 DEF PassGate, TypeOK, CallTypeOK
    <3>2. CallStage(p)' = CallStage(p)
      BY <3>1 DEF CallStage
    <3>. QED
      BY <1>2, <1>3, <3>1, <3>2, LinkStutters
  <2>2. CASE Withdraw(p) \/ GiveUp(p)
    <3>1. phase[p] \in {"gate", "offer", "await"} /\ done' = done /\ StopsWaiting(p)
      BY <2>2 DEF Withdraw, GiveUp
    <3>2. done \/ p \in Deadlines
      BY <1>6, <3>1, CallersAssumption DEF StopsWaiting, HasDeadline
    <3>3. phase'[p] = "returned" /\ outcome'[p] \in {"closed", "expired"}
      BY <1>4, <3>1 DEF StopsWaiting
    <3>4. CallStage(p) \in {"waiting", "closing", "sent", "answered"}
      BY <3>1 DEF CallStage
    <3>5. CallStage(p)' = "failed"
      BY <3>3 DEF CallStage
    <3>. QED
      BY <1>2, <1>3, <1>6, <3>1, <3>2, <3>4, <3>5, CallMoves DEF RR!Fail, RR!Next
  <2>3. CASE Receive(p)
    <3>1. phase[p] = "await" /\ chan[p] = "full" /\ done' = done
      BY <1>0, <2>3 DEF Receive, WaiterInv, ChannelStaysOpen
    <3>2. CallStage(p) = "answered"
      BY <3>1 DEF CallStage
    <3>3. CASE Returns(p, "reply")
      <4>1. CallStage(p)' = "done"
        BY <1>4, <3>3 DEF CallStage
      <4>. QED
        BY <1>2, <1>3, <1>6, <3>1, <3>2, <4>1, CallMoves DEF RR!Return, RR!Next
    <3>4. CASE op[p] = "Shutdown" /\ phase' = [phase EXCEPT ![p] = "close"]
      <4>1. CallStage(p)' = "answered"
        BY <1>0, <1>1, <3>4 DEF CallStage, TypeOK, CallTypeOK
      <4>. QED
        BY <1>2, <1>3, <3>1, <3>2, <4>1, LinkStutters
    <3>5. CASE Returns(p, "rejected")
      <4>1. CallStage(p)' = "failed"
        BY <1>4, <3>5 DEF CallStage
      <4>. QED
        BY <1>2, <1>3, <1>6, <3>1, <3>2, <4>1, CallMoves DEF RR!Fail, RR!Next
    <3>. QED
      BY <2>3, <3>1, <3>3, <3>4, <3>5 DEF Receive
  <2>4. CASE CallClose(p)
    <3>1. CallStage(p) \in {"closing", "answered"}
      BY <2>4 DEF CallClose, CallStage
    <3>2. CASE ~done /\ done' = TRUE /\ Returns(p, "ok")
      <4>1. CallStage(p)' = "done"
        BY <1>4, <3>2 DEF CallStage
      <4>. QED
        BY <1>0, <1>2, <1>3, <1>6, <3>1, <3>2, <4>1, CallMoves
        DEF RR!Close, RR!Next, TypeOK, ConnectTypeOK
    <3>3. CASE done /\ UNCHANGED done /\ Returns(p, "closed")
      <4>1. CallStage(p)' = "failed"
        BY <1>4, <3>3 DEF CallStage
      <4>2. CallStage(p) \in {"waiting", "closing", "sent", "answered"}
        BY <3>1
      <4>. QED
        BY <1>2, <1>3, <1>6, <3>3, <4>1, <4>2, CallMoves DEF RR!Fail, RR!Next
    <3>. QED
      BY <2>4, <3>2, <3>3 DEF CallClose
  <2>. QED
    BY <2>1, <2>2, <2>3, <2>4 DEF CallerStep
<1>. QED
  BY <1>5, <1>6 DEF Callers

LEMMA BeginMaps ==
  ASSUME SessionInv, NEW p \in Senders, NEW o \in Operations, Begin(p, o)
  PROVE  RR!Next
<1>0. TypeOK
  BY DEF SessionInv, ChannelInv
<1>1. /\ UNCHANGED <<connPc, outMsg, done, chan, outcome>> /\ phase[p] = "idle"
      /\ op' = [op EXCEPT ![p] = o]
      /\ phase' = [phase EXCEPT ![p] = IF o = "Close" THEN "close" ELSE "gate"]
  BY DEF Begin, connectVars, outgoingVars, replyVars
<1>2. LinkState' = LinkState
  BY <1>1, LinkSame
<1>3. \A q \in Senders : q # p => CallStage(q)' = CallStage(q)
  <2>1. \A q \in Senders : q # p => phase'[q] = phase[q] /\ op'[q] = op[q]
    BY <1>0, <1>1 DEF TypeOK, CallTypeOK, Callers
  <2>. QED
    BY <1>1, <2>1, StageSame
<1>4. phase'[p] = (IF o = "Close" THEN "close" ELSE "gate") /\ op'[p] = o
  BY <1>0, <1>1 DEF TypeOK, CallTypeOK, Callers
<1>5. CallStage(p) = "idle" /\ CallStage(p)' = (IF o = "Close" THEN "closing" ELSE "waiting")
  BY <1>1, <1>4 DEF CallStage
<1>6. CASE o = "Close"
  BY <1>1, <1>2, <1>3, <1>5, <1>6, CallMoves DEF RR!InvokeClose, RR!Next
<1>7. CASE o # "Close"
  BY <1>1, <1>2, <1>3, <1>5, <1>7, CallMoves DEF RR!Invoke, RR!Next
<1>. QED
  BY <1>6, <1>7

LEMMA StepMaps ==
  ASSUME NoWrap, SessionInv, LinkInv, [Next]_vars
  PROVE  RR!Next \/ UNCHANGED RR!vars
<1>. USE DEF connectVars, outgoingVars, incomingVars, ackVars, replyVars, callVars, networkVars
<1>1. CASE OutTakesAck
  <2>1. outMsg.type # "CloseConnection" /\ outMsg'.type # "CloseConnection"
    BY <1>1 DEF OutTakesAck, KeepAliveAck, LinkInv, LastRequestTaken
  <2>2. UNCHANGED <<connPc, done, op, chan, phase, outcome>>
    BY <1>1 DEF OutTakesAck
  <2>3. LinkState' = LinkState
    BY <2>1, <2>2 DEF LinkState, LastRequestTaken
  <2>. QED
    BY <2>2, <2>3, CallsSame, LinkStutters
<1>2. CASE OutSeesDone \/ OutFindsNoAck \/ OutWrites \/ OutWriteFails
  BY <1>2, NothingHappens DEF OutSeesDone, OutFindsNoAck, OutWrites, OutWriteFails, OutStops
<1>3. CASE IncomingStep /\ ~InDelivers
  BY <1>3, NothingHappens DEF IncomingStep, InSeesDone, InContinues, InReads, InReadFails,
    InReplyCut, InHandles, InDiscardFails, InStops, AwaitClose
<1>4. CASE ReaderStep \/ OwnerCloses \/ UNCHANGED vars
  BY <1>4, NothingHappens DEF ReaderStep, Answer, Notify, Hangup, OwnerCloses, vars, clientVars
<1>. QED
  BY <1>1, <1>2, <1>3, <1>4, ConnectMaps, TakesMaps, DeliverMaps, CallerMaps, BeginMaps
  DEF Next, Rest, ClientStep, OutgoingStep

(***************************************************************************)
(* As long as the IDs do not wrap, the Client, with its goroutines, queues *)
(* and replyChans, does for any number of callers what RequestReply        *)
(* promises them: a call that ends without an answer ends because the      *)
(* Client was closed or its own deadline passed, and nothing is accepted   *)
(* after CloseConnection (reader.go, Connect, SendMessage, SendNoWait,     *)
(* Shutdown and Close).                                                    *)
(***************************************************************************)
THEOREM ClientKeepsItsPromises == ASSUME NoWrap PROVE Spec => ImplementsRequestReply
<1>1. Init => LinkInv /\ RR!Init
  <2>. SUFFICES ASSUME Init PROVE LinkInv /\ RR!Init
    OBVIOUS
  <2>. USE DEF Init, ClientInit
  <2>1. outMsg.type = "KeepAliveAck"
    BY DEF NoRequest
  <2>2. LinkInv
    BY <2>1 DEF LinkInv, LastRequestTaken, Callers
  <2>3. LinkState = "new"
    BY <2>1 DEF LinkState, LastRequestTaken
  <2>4. \A p \in Senders : CallStage(p) = "idle"
    BY DEF CallStage, Callers
  <2>. QED
    BY <2>2, <2>3, <2>4 DEF RR!Init
<1>2. SessionInv /\ LinkInv /\ [Next]_vars => LinkInv' /\ [RR!Next]_(RR!vars)
  BY LinkStep, StepMaps
<1>. QED
  BY <1>1, <1>2, WaitersCorrect, PTL DEF Spec, ImplementsRequestReply, RR!Spec

=============================================================================

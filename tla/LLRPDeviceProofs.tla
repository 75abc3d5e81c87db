--------------------------- MODULE LLRPDeviceProofs ---------------------------
(***************************************************************************)
(* Theorems about LLRPDevice: with any number of handlers and callers that *)
(* stop it, change its address, reset it and send at the same time, there  *)
(* is no connection that the device could not close, and none once a Stop  *)
(* has returned.                                                           *)
(***************************************************************************)
EXTENDS LLRPDevice, TLAPS

\* The goroutine's Client is the only one that is not closed.
OneLiveClient ==
  /\ client \in {c, Closed, NoClient}
  /\ \A p \in Processes : sendTo[p] \in {c, Closed, NoClient}

\* A Client that has been made and not installed is not referred to, nor connected.
NewClientIsUnknown ==
  loop = "install" =>
    /\ c \in Clients /\ client # c
    /\ \A p \in Processes : sendTo[p] # c

\* A Client is installed until it is closed.
InstalledUntilClosed == c # Closed => client = c \/ loop = "install"

\* An open connection is that of the goroutine.
OpenIsConnected == \A x \in Clients : state[x] = "open" => x = c /\ loop = "connected"

\* Whoever closes the connection to stop the device has cancelled its context, and
\* nothing connects once a Stop has returned.
StopCancels ==
  /\ \A p \in Processes : (pc[p] = "closing" /\ op[p] \in {"Stop", "ForcedStop"}) => over
  /\ stopped => over
  /\ (stopped /\ loop \in {"connecting", "connected"}) => c = Closed

\* The inductive invariant.
DeviceInv ==
  /\ TypeOK /\ OneLiveClient /\ NewClientIsUnknown /\ InstalledUntilClosed
  /\ OpenIsConnected /\ StopCancels

---------------------------------------------------------------------------

LEMMA DeviceInit == Init => DeviceInv
  <1> SUFFICES ASSUME Init PROVE DeviceInv
    OBVIOUS
  <1>1. c \in Clients /\ client = c
    BY DeviceAssumption DEF Init
  <1>2. TypeOK
    <2>1. {failed, stale, over, isUp, stopped, reachable, keepAlive} \subseteq BOOLEAN
      BY DeviceAssumption DEF Init
    <2>2. opState \in {"Up", "Down"}
      BY DEF Init
    <2>3. attempts \in [Processes -> 0 .. maxSendAttempts - 1]
      BY DeviceAssumption DEF Init
    <2> QED
      BY <1>1, <2>1, <2>2, <2>3 DEF Init, TypeOK, maxConnAttempts
  <1> QED
    BY <1>1, <1>2, DeviceAssumption
    DEF Init, DeviceInv, OneLiveClient, NewClientIsUnknown, InstalledUntilClosed,
        OpenIsConnected, StopCancels

---------------------------------------------------------------------------
(* The types *)

\* The new Client: there is one, because at most one is referred to, and that is closed.
LEMMA NewClient ==
  ASSUME DeviceInv, ConnectReturns
  PROVE  /\ c' \in Clients /\ client' \in {Closed, NoClient} /\ client' # c'
         /\ \A p \in Processes : sendTo'[p] \in {Closed, NoClient} /\ sendTo'[p] # c'
         /\ state' = [y \in Clients |-> IF y = c THEN "idle" ELSE state[y]]
  <1>1. client' = Now(c, client) /\ Close(c)
    BY DEF ConnectReturns
  <1>2. client' \in {Closed, NoClient}
    BY <1>1 DEF DeviceInv, OneLiveClient, Now
  <1>3. \A p \in Processes : sendTo'[p] \in {Closed, NoClient}
    BY <1>1 DEF DeviceInv, OneLiveClient, Now, Close
  <1>4. PICK new \in Clients : new \notin {client'} \cup { sendTo'[p] : p \in Processes }
    BY <1>2, <1>3, DeviceAssumption
  <1>5. c' = CHOOSE fresh \in Clients : fresh \notin {client'} \cup { sendTo'[p] : p \in Processes }
    BY DEF ConnectReturns
  <1>6. c' \in Clients
    BY <1>4, <1>5
  <1> QED
    BY <1>1, <1>2, <1>3, <1>6, DeviceAssumption DEF Close

LEMMA FailedTypes ==
  ASSUME failures \in 0 .. maxConnAttempts - 1, AttemptFailed
  PROVE  failures' \in 0 .. maxConnAttempts - 1 /\ loop' \in {"quickWait", "failed"}
  BY DEF AttemptFailed, maxConnAttempts

LEMMA LoopTypes == ASSUME DeviceInv, LoopNext PROVE TypeOK'
  <1> USE DeviceAssumption DEF DeviceInv, TypeOK
  <1>1. CASE Check \/ Quick \/ ReadAddress \/ DialSucceeds
    BY <1>1 DEF Check, Quick, ReadAddress, DialSucceeds, LoopStep, processVars
  <1>2. CASE DialFails
    BY <1>2, FailedTypes DEF DialFails, processVars
  <1>3. CASE Connects
    BY <1>3 DEF Connects, LoopStep
  <1>4. CASE ConnectReturns
    <2>1. failed' \in BOOLEAN /\ loop' = "install" /\ stale' = FALSE /\ keepAlive' = FALSE
          /\ UNCHANGED <<failures, over, isUp, clientLock, pc, op, attempts,
                         stopped, reachable, opState>>
      BY <1>4 DEF ConnectReturns
    <2>2. sendTo' \in [Processes -> Clients \cup {Closed, NoClient}]
      BY <1>4 DEF ConnectReturns, Close, Now, DeviceInv
    <2>3. state' \in [Clients -> {"idle", "open"}]
      BY <1>4, NewClient DEF DeviceInv
    <2> QED
      BY <1>4, <2>1, <2>2, <2>3, NewClient DEF DeviceInv
  <1>5. CASE Install
    <2>1. failures' \in 0 .. maxConnAttempts - 1 /\ loop' \in {"quickWait", "failed", "check"}
      <3>1. CASE failed
        BY <1>5, <3>1, FailedTypes DEF Install
      <3>2. CASE ~failed
        BY <1>5, <3>2 DEF Install, maxConnAttempts
      <3> QED
        BY <3>1, <3>2
    <2> QED
      BY <1>5, <2>1 DEF Install, processVars
  <1>6. CASE QuickWaits
    BY <1>6 DEF QuickWaits, processVars, maxConnAttempts
  <1>7. CASE MarkDown \/ ReportDown \/ Undo \/ SlowWaits
    BY <1>7 DEF MarkDown, ReportDown, Undo, SlowWaits, LoopStep, processVars
  <1> QED
    BY <1>1, <1>2, <1>3, <1>4, <1>5, <1>6, <1>7 DEF LoopNext

LEMMA ProcessTypes ==
  ASSUME TypeOK, NEW p \in Processes, ProcessNext(p) PROVE TypeOK'
  <1> USE DeviceAssumption DEF TypeOK, loopVars, At, Goto
  <1>1. CASE ReadClient(p)
    BY <1>1 DEF ReadClient, Recoverable
  <1>2. CASE Sent(p)
    <2>1. sendTo' \in [Processes -> Clients \cup {Closed, NoClient}]
      BY <1>2 DEF Sent
    <2>2. /\ pc' \in [Processes -> {"idle", "onConnect", "reportUp", "markUp", "send", "sending",
                                    "sendWait", "sendFailed", "lock", "closing"}]
          /\ attempts' \in [Processes -> 0 .. maxSendAttempts - 1]
      BY <1>2 DEF Sent, Recoverable
    <2>3. op' \in [Processes -> Operations \cup {"none", "resetConn"}]
      BY <1>2 DEF Sent
    <2>4. keepAlive' \in BOOLEAN
      BY <1>2 DEF Sent
    <2> QED
      BY <1>2, <2>1, <2>2, <2>3, <2>4 DEF Sent
  <1>3. CASE SendWaits(p)
    BY <1>3 DEF SendWaits
  <1>4. CASE SendFailed(p)
    BY <1>4 DEF SendFailed
  <1>5. CASE Lock(p)
    BY <1>5 DEF Lock
  <1>6. CASE closeLocked(p)
    BY <1>6 DEF closeLocked, Unlock, Close, Now, AfterClose
  <1> QED
    BY <1>1, <1>2, <1>3, <1>4, <1>5, <1>6 DEF ProcessNext

LEMMA OtherTypes ==
  ASSUME TypeOK,
         \/ \E h \in Handlers : HandlerNext(h)
         \/ \E p \in Callers : Call(p)
         \/ Reach
         \/ UNCHANGED vars
  PROVE  TypeOK'
  <1> USE DeviceAssumption DEF TypeOK, loopVars, processVars, At, Goto, Processes
  <1>1. ASSUME NEW h \in Handlers, HandlerNext(h) PROVE TypeOK'
    BY ZenonT(60), <1>1 DEF HandlerNext, ReadIsUp, ReportUp, MarkUp
  <1>2. ASSUME NEW p \in Callers, Call(p) PROVE TypeOK'
    BY <1>2 DEF Call
  <1>3. CASE Reach
    BY <1>3 DEF Reach
  <1>4. CASE UNCHANGED vars
    BY <1>4 DEF vars
  <1> QED
    BY <1>1, <1>2, <1>3, <1>4

LEMMA TypesStep == DeviceInv /\ [Next]_vars => TypeOK'
  BY LoopTypes, ProcessTypes, OtherTypes DEF Next, DeviceInv

---------------------------------------------------------------------------
(* The Clients *)

ClientsInv ==
  OneLiveClient /\ NewClientIsUnknown /\ InstalledUntilClosed /\ OpenIsConnected /\ StopCancels

\* What a step has to leave alone that makes, closes and connects no Client.
LEMMA ClientsFrame ==
  ASSUME DeviceInv, UNCHANGED <<c, client, state, stopped>>,
         loop' = "install" <=> loop = "install",
         loop' \in {"connecting", "connected"} => loop \in {"connecting", "connected"} \/ ~over,
         loop = "connected" => loop' = "connected",
         \A p \in Processes : sendTo'[p] \in {sendTo[p], client, NoClient},
         over => over',
         \A p \in Processes : (pc'[p] = "closing" /\ op'[p] \in {"Stop", "ForcedStop"}) => over'
  PROVE  ClientsInv'
  BY DeviceAssumption
  DEF DeviceInv, TypeOK, ClientsInv, OneLiveClient, NewClientIsUnknown, InstalledUntilClosed,
      OpenIsConnected, StopCancels

LEMMA LoopClients == ASSUME DeviceInv, LoopNext PROVE ClientsInv'
  <1> USE DeviceAssumption
  <1>0. StopCancels /\ TypeOK
    BY DEF DeviceInv
  <1>1. CASE Check \/ Quick \/ ReadAddress \/ DialSucceeds
    BY <1>0, <1>1, ClientsFrame
    DEF Check, Quick, ReadAddress, DialSucceeds, LoopStep, processVars, StopCancels
  <1>2. CASE DialFails
    BY <1>0, <1>2, ClientsFrame DEF DialFails, AttemptFailed, processVars, StopCancels
  <1>3. CASE Connects
    <2>1. ClientsInv
      BY DEF DeviceInv, ClientsInv
    <2>2. /\ loop = "connecting" /\ loop' = "connected"
          /\ state' = IF c = Closed THEN state ELSE [state EXCEPT ![c] = "open"]
          /\ UNCHANGED <<c, client, sendTo, over, stopped, op>>
      BY <1>3 DEF Connects, LoopStep
    <2>3. \A p \in Processes : pc'[p] = "closing" => pc[p] = "closing"
      BY <1>0, <1>3 DEF Connects, TypeOK
    <2>4. OpenIsConnected'
      BY <1>0, <2>1, <2>2 DEF ClientsInv, OpenIsConnected, TypeOK
    <2> QED
      BY <2>1, <2>2, <2>3, <2>4
      DEF ClientsInv, OneLiveClient, NewClientIsUnknown, InstalledUntilClosed, StopCancels
  <1>4. CASE ConnectReturns
    <2>1. loop' = "install" /\ UNCHANGED <<over, stopped, pc, op>>
      BY <1>4 DEF ConnectReturns
    <2>2. \A x \in Clients : state'[x] = "open" => x # c /\ state[x] = "open"
      BY <1>4, NewClient
    <2>3. OpenIsConnected'
      BY <2>2 DEF DeviceInv, OpenIsConnected
    <2> QED
      BY <1>0, <1>4, <2>1, <2>3, NewClient
      DEF ClientsInv, OneLiveClient, NewClientIsUnknown, InstalledUntilClosed, StopCancels
  <1>5. CASE Install
    <2>1. /\ loop = "install" /\ client' = c /\ loop' \in {"quickWait", "failed", "check"}
          /\ UNCHANGED <<c, state, sendTo, over, stopped, pc, op>>
      BY <1>5 DEF Install, AttemptFailed, processVars
    <2> QED
      BY <2>1 DEF DeviceInv, ClientsInv, OneLiveClient, NewClientIsUnknown,
                  InstalledUntilClosed, OpenIsConnected, StopCancels
  <1>6. CASE QuickWaits
    BY <1>0, <1>6, ClientsFrame DEF QuickWaits, processVars, StopCancels
  <1>7. CASE MarkDown \/ ReportDown \/ Undo \/ SlowWaits
    BY <1>0, <1>7, ClientsFrame
    DEF MarkDown, ReportDown, Undo, SlowWaits, LoopStep, processVars, StopCancels
  <1> QED
    BY <1>1, <1>2, <1>3, <1>4, <1>5, <1>6, <1>7 DEF LoopNext

LEMMA ProcessClients ==
  ASSUME DeviceInv, NEW p \in Processes, ProcessNext(p) PROVE ClientsInv'
  <1> USE DeviceAssumption DEF loopVars, At, Goto
  <1>0. StopCancels /\ TypeOK
    BY DEF DeviceInv
  <1>1. CASE ReadClient(p)
    <2>1. UNCHANGED <<c, client, state, stopped, loop, over, op>>
      BY <1>1 DEF ReadClient
    <2>2. \A q \in Processes : sendTo'[q] \in {sendTo[q], client, NoClient}
      BY <1>0, <1>1 DEF ReadClient, TypeOK
    <2>3. \A q \in Processes : pc'[q] = "closing" => pc[q] = "closing"
      BY <1>0, <1>1 DEF ReadClient, Recoverable, TypeOK
    <2> QED
      BY <1>0, <2>1, <2>2, <2>3, ClientsFrame DEF StopCancels
  <1>2. CASE Sent(p)
    <2>1. UNCHANGED <<c, client, state, stopped, loop, over>>
      BY <1>2 DEF Sent
    <2>2. \A q \in Processes : sendTo'[q] \in {sendTo[q], client, NoClient}
      BY <1>0, <1>2 DEF Sent, TypeOK
    <2>3. \A q \in Processes : pc'[q] = "closing" => pc[q] = "closing" /\ q # p
      BY <1>0, <1>2 DEF Sent, Recoverable, TypeOK
    <2>4. \A q \in Processes : q # p => op'[q] = op[q]
      BY <1>0, <1>2 DEF Sent, TypeOK
    <2> QED
      BY <1>0, <2>1, <2>2, <2>3, <2>4, ClientsFrame DEF StopCancels
  <1>3. CASE SendWaits(p)
    <2>1. UNCHANGED <<c, client, state, stopped, loop, over, op, sendTo>>
      BY <1>3 DEF SendWaits
    <2>2. \A q \in Processes : pc'[q] = "closing" => pc[q] = "closing"
      BY <1>0, <1>3 DEF SendWaits, TypeOK
    <2> QED
      BY <1>0, <2>1, <2>2, ClientsFrame DEF StopCancels
  <1>4. CASE SendFailed(p)
    <2>1. UNCHANGED <<c, client, state, stopped, loop, over, sendTo>>
      BY <1>4 DEF SendFailed
    <2>2. \A q \in Processes : pc'[q] = "closing" => pc[q] = "closing" /\ q # p
      BY <1>0, <1>4 DEF SendFailed, TypeOK
    <2>3. \A q \in Processes : q # p => op'[q] = op[q]
      BY <1>0, <1>4 DEF SendFailed, TypeOK
    <2> QED
      BY <1>0, <2>1, <2>2, <2>3, ClientsFrame DEF StopCancels
  <1>5. CASE Lock(p)
    <2>1. /\ UNCHANGED <<c, client, state, stopped, loop, sendTo, op>>
          /\ over' = (over \/ op[p] \in {"Stop", "ForcedStop"})
      BY <1>5 DEF Lock
    <2>2. \A q \in Processes : pc'[q] = "closing" => pc[q] = "closing" \/ q = p
      BY <1>0, <1>5 DEF Lock, TypeOK
    <2> QED
      BY <1>0, <2>1, <2>2, ClientsFrame DEF StopCancels
  <1>6. CASE closeLocked(p)
    <2>1. /\ pc[p] = "closing" /\ UNCHANGED <<loop, over>>
          /\ stopped' = (stopped \/ op[p] \in {"Stop", "ForcedStop"})
          /\ client' \in {NoClient, Closed} /\ c' = Now(client, c)
          /\ \A q \in Processes : sendTo'[q] = Now(client, sendTo[q])
          /\ \A x \in Clients : state'[x] = IF x = client THEN "idle" ELSE state[x]
      BY <1>6 DEF closeLocked, Unlock, AfterClose, Close
    <2>2. \A q \in Processes : pc'[q] = "closing" => pc[q] = "closing" /\ op'[q] = op[q]
      BY <1>0, <1>6 DEF closeLocked, Unlock, TypeOK
    <2>3. OneLiveClient' /\ NewClientIsUnknown' /\ InstalledUntilClosed'
      BY <2>1 DEF DeviceInv, OneLiveClient, NewClientIsUnknown, InstalledUntilClosed, Now
    <2>4. OpenIsConnected'
      BY <2>1 DEF DeviceInv, OpenIsConnected, Now
    <2>5. StopCancels'
      BY <2>1, <2>2 DEF DeviceInv, StopCancels, InstalledUntilClosed, Now
    <2> QED
      BY <2>3, <2>4, <2>5 DEF ClientsInv
  <1> QED
    BY <1>1, <1>2, <1>3, <1>4, <1>5, <1>6 DEF ProcessNext

LEMMA OtherClients ==
  ASSUME DeviceInv,
         \/ \E h \in Handlers : HandlerNext(h)
         \/ \E p \in Callers : Call(p)
         \/ Reach
         \/ UNCHANGED vars
  PROVE  ClientsInv'
  <1> USE DeviceAssumption DEF loopVars, processVars, At, Goto
  <1>0. StopCancels /\ TypeOK
    BY DEF DeviceInv
  <1>1. ASSUME NEW h \in Handlers, HandlerNext(h) PROVE ClientsInv'
    <2>1. UNCHANGED <<c, client, state, stopped, loop, over, sendTo, op>>
      BY <1>1 DEF HandlerNext, ReadIsUp, ReportUp, MarkUp
    <2>2. \A q \in Processes : pc'[q] = "closing" => pc[q] = "closing"
      BY <1>0, <1>1 DEF HandlerNext, ReadIsUp, ReportUp, MarkUp, TypeOK
    <2> QED
      BY <1>0, <2>1, <2>2, ClientsFrame DEF StopCancels
  <1>2. ASSUME NEW p \in Callers, Call(p) PROVE ClientsInv'
    <2>1. UNCHANGED <<c, client, state, stopped, loop, over, sendTo>>
      BY <1>2 DEF Call
    <2>2. \A q \in Processes : pc'[q] = "closing" => pc[q] = "closing" /\ q # p
      BY <1>0, <1>2 DEF Call, TypeOK
    <2>3. \A q \in Processes : q # p => op'[q] = op[q]
      BY <1>0, <1>2 DEF Call, TypeOK
    <2> QED
      BY <1>0, <2>1, <2>2, <2>3, ClientsFrame DEF StopCancels
  <1>3. CASE Reach \/ UNCHANGED vars
    BY <1>0, <1>3, ClientsFrame DEF Reach, vars, StopCancels
  <1> QED
    BY <1>1, <1>2, <1>3

LEMMA DeviceStep == DeviceInv /\ [Next]_vars => DeviceInv'
  BY TypesStep, LoopClients, ProcessClients, OtherClients DEF Next, DeviceInv, ClientsInv

LEMMA DeviceInvariant == Spec => []DeviceInv
  BY DeviceInit, DeviceStep, PTL DEF Spec

---------------------------------------------------------------------------

\* A Client that could serve a connection is one that Stop, UpdateAddr and resetConn
\* find and close, whoever replaces or closes it at the same time (device.go:172-175).
THEOREM LiveClientCorrect == Spec => []LiveClientIsInstalled
  <1>1. DeviceInv => LiveClientIsInstalled
    BY DEF DeviceInv, TypeOK, LiveClientIsInstalled, InstalledUntilClosed, NewClientIsUnknown,
           OpenIsConnected
  <1> QED
    BY <1>1, DeviceInvariant, PTL

\* No connection is open once a Stop has returned (device.go:262-272).
THEOREM StopCorrect == Spec => []StopClosesConnections
  <1>1. DeviceInv => StopClosesConnections
    BY DeviceAssumption
    DEF DeviceInv, TypeOK, StopClosesConnections, OpenIsConnected, StopCancels
  <1> QED
    BY <1>1, DeviceInvariant, PTL
=============================================================================

----------------------------- MODULE LLRPDevice -----------------------------
(***************************************************************************)
(* internal/driver/device.go: an LLRPDevice keeps a connection to one      *)
(* reader.  Its goroutine dials, hands the connection to a Client and      *)
(* blocks in Connect; when that returns it makes a new Client and goes on, *)
(* reporting to EdgeX a reader that cannot be reached.  A handler started  *)
(* by each new connection reports the reader as up and sets its KeepAlives;*)
(* callers send messages, change the address and stop the device.          *)
(*                                                                         *)
(* A Client is what LLRPSession promises of it: requests wait until it is  *)
(* open, and fail once it is closed; Connect returns when it is closed.    *)
(* Closed Clients are all alike, so that reconnecting never ends: whatever *)
(* refers to a Client that is being closed refers to Closed afterwards.    *)
(***************************************************************************)
EXTENDS Naturals

CONSTANTS
  Clients,        \* llrp.Client objects that are not closed
  Closed,         \* any Client that is closed
  NoClient,       \* nil
  Handlers,       \* bound: onConnect goroutines that may run at the same time
  Callers,        \* users of the device
  NoProcess,      \* nobody: the clientLock is free
  Operations,     \* what callers do: "Stop", "ForcedStop", "UpdateAddr", "TrySend"
  maxSendAttempts,  \* 3 in the source
  InitiallyUp     \* the operating states it may be created with: subset of BOOLEAN

Processes == Handlers \cup Callers

maxConnAttempts == 2

ASSUME DeviceAssumption ==
  /\ Clients # {}
  /\ NoClient \notin Clients \cup {Closed} /\ Closed \notin Clients /\ NoProcess \notin Processes
  /\ maxSendAttempts \in Nat \ {0}
  /\ Handlers \cap Callers = {}
  /\ Operations \subseteq {"Stop", "ForcedStop", "UpdateAddr", "TrySend"}
  /\ InitiallyUp \subseteq BOOLEAN /\ InitiallyUp # {}

VARIABLES
  loop,        \* where the reconnect goroutine is
  c,           \* the Client it will connect, or has connected
  failures,    \* failed attempts of retry.Quick
  failed,      \* whether Connect returned something other than ErrClientClosed
  stale,       \* the address it dials, or is connected to, has been replaced
  over,        \* the device's context has been cancelled
  isUp,        \* LLRPDevice.isUp
  client,      \* LLRPDevice.client
  clientLock,  \* who holds clientLock for writing
  state,       \* of each Client: "idle" or "open"
  pc,          \* where each handler and caller is
  op,          \* the operation of each of them
  sendTo,      \* the Client of its running SendFor
  attempts,    \* its failed attempts of TrySend
  stopped,     \* a Stop has returned
  reachable,   \* the reader can be reached
  keepAlive,   \* the reader of this connection has been given our KeepAliveSpec
  opState      \* the operating state of the device in EdgeX

loopVars == <<loop, c, failures, failed, stale>>
processVars == <<pc, op, sendTo, attempts>>
vars == <<loopVars, over, isUp, client, clientLock, state, processVars,
          stopped, reachable, keepAlive, opState>>

Init ==
  /\ c = CHOOSE first \in Clients : TRUE
  /\ client = c
  /\ loop = "check" /\ failures = 0 /\ failed = FALSE
  /\ stale = FALSE
  /\ over = FALSE
  /\ isUp \in InitiallyUp
  /\ opState = IF isUp THEN "Up" ELSE "Down"
  /\ clientLock = NoProcess
  /\ state = [x \in Clients |-> "idle"]
  /\ pc = [p \in Processes |-> "idle"]
  /\ op = [p \in Processes |-> "none"]
  /\ sendTo = [p \in Processes |-> NoClient]
  /\ attempts = [p \in Processes |-> 0]
  /\ stopped = FALSE
  /\ reachable \in BOOLEAN
  /\ keepAlive = FALSE

---------------------------------------------------------------------------
(* The reconnect goroutine *)

LoopStep(from, to) == loop = from /\ loop' = to

\* The conditions of the outer loop and, at once, of Slow.RetryWithCtx.
Check ==
  /\ loop = "check" /\ loop' = IF over THEN "exited" ELSE "quick"
  /\ UNCHANGED <<c, failures, failed, stale, over, isUp, client, clientLock,
                 state, processVars, stopped, reachable, keepAlive, opState>>

\* Quick.RetryWithCtx does not call its function under a context that is over.
Quick ==
  /\ loop = "quick" /\ loop' = IF over THEN "failed" ELSE "attempt"
  /\ UNCHANGED <<c, failures, failed, stale, over, isUp, client, clientLock,
                 state, processVars, stopped, reachable, keepAlive, opState>>

ReadAddress ==
  /\ LoopStep("attempt", "dialing")
  /\ UNCHANGED <<c, failures, failed, stale, over, isUp, client, clientLock,
                 state, processVars, stopped, reachable, keepAlive, opState>>

\* An attempt of Quick has failed: it waits for the next one, or gives up.
AttemptFailedAgain ==
  /\ failures' = failures + 1
  /\ loop' = IF failures + 1 < maxConnAttempts THEN "quickWait" ELSE "failed"
AttemptFailed ==
  /\ failures' = IF failures + 1 < maxConnAttempts THEN failures + 1 ELSE 0
  /\ loop' = IF failures + 1 < maxConnAttempts THEN "quickWait" ELSE "failed"

\* The dial fails, at the latest after dialTimeout, and always once over.
DialFails ==
  /\ loop = "dialing"
  /\ AttemptFailed
  /\ stale' = FALSE
  /\ UNCHANGED <<c, failed, over, isUp, client, clientLock,
                 state, processVars, stopped, reachable, keepAlive, opState>>

DialSucceeds ==
  /\ LoopStep("dialing", "connecting")
  /\ reachable /\ ~over
  /\ UNCHANGED <<c, failures, failed, stale, over, isUp, client, clientLock,
                 state, processVars, stopped, reachable, keepAlive, opState>>

\* The reader's ConnectionAttemptEvent reaches newReaderEventHandler, which starts
\* onConnect in a goroutine of its own, also if the Client has been closed meanwhile.
Connects ==
  /\ LoopStep("connecting", "connected")
  /\ reachable
  /\ state' = IF c = Closed THEN state ELSE [state EXCEPT ![c] = "open"]
  /\ keepAlive' = FALSE
  /\ \E h \in Handlers :
       /\ pc[h] = "idle"
       /\ pc' = [pc EXCEPT ![h] = "onConnect"]
  /\ UNCHANGED <<c, failures, failed, stale, over, isUp, client, clientLock,
                 op, sendTo, attempts, stopped, reachable, opState>>

\* The Client x is closed; Now(x, y) is what a reference to y becomes.
Now(x, y) == IF y = x THEN Closed ELSE y
Close(x) ==
  /\ sendTo' = [p \in Processes |-> Now(x, sendTo[p])]
  /\ state' = [y \in Clients |-> IF y = x THEN "idle" ELSE state[y]]

\* Connect returns: with ErrClientClosed only if the Client was closed, otherwise
\* because the connection has failed.  It has closed its Client, and the goroutine
\* makes a new one.
ConnectReturns ==
  /\ loop \in {"connecting", "connected"}
  /\ failed' \in IF c = Closed THEN BOOLEAN ELSE {TRUE}
  /\ client' = Now(c, client)
  /\ Close(c)
  /\ c' = CHOOSE new \in Clients :
            new \notin {client'} \cup { sendTo'[p] : p \in Processes }
  /\ keepAlive' = FALSE
  /\ loop' = "install"
  /\ stale' = FALSE
  /\ UNCHANGED <<failures, over, isUp, clientLock, pc, op, attempts,
                 stopped, reachable, opState>>

\* l.client = c, under clientLock, whether or not the device has been stopped.  The
\* end of a connection that was closed ends both retries.
Install ==
  /\ loop = "install" /\ clientLock = NoProcess
  /\ client' = c
  /\ IF failed THEN AttemptFailed ELSE loop' = "check" /\ failures' = 0
  /\ failed' = FALSE
  /\ UNCHANGED <<c, stale, over, isUp, clientLock,
                 state, processVars, stopped, reachable, keepAlive, opState>>

\* Quick waits: its select may take the timer though the context is over.
QuickWaits ==
  /\ loop = "quickWait"
  /\ \/ loop' = "attempt"
     \/ over /\ loop' = "failed"
  /\ failures' = IF loop' = "failed" THEN 0 ELSE failures
  /\ UNCHANGED <<c, failed, stale, over, isUp, client, clientLock,
                 state, processVars, stopped, reachable, keepAlive, opState>>

\* Quick has failed.  Its *FError is never equal to context.Canceled.
MarkDown ==
  /\ loop = "failed"
  /\ isUp' = FALSE
  /\ loop' = IF isUp THEN "reportDown" ELSE "slowWait"
  /\ UNCHANGED <<c, failures, failed, stale, over, client, clientLock,
                 state, processVars, stopped, reachable, keepAlive, opState>>

ReportDown ==
  /\ loop = "reportDown"
  /\ \/ loop' = "slowWait" /\ opState' = "Down"
     \/ loop' = "undo" /\ opState' = opState
  /\ UNCHANGED <<c, failures, failed, stale, over, isUp, client, clientLock,
                 state, processVars, stopped, reachable, keepAlive>>

ForgetFailure ==
  /\ LoopStep("undo", "slowWait")
  /\ UNCHANGED <<c, failures, failed, stale, over, isUp, client, clientLock,
                 state, processVars, stopped, reachable, keepAlive, opState>>
\* EdgeX has not been told: isUp is set again, for the next round.
Undo ==
  /\ LoopStep("undo", "slowWait")
  /\ isUp' = TRUE
  /\ UNCHANGED <<c, failures, failed, stale, over, client, clientLock,
                 state, processVars, stopped, reachable, keepAlive, opState>>

SlowWaitsOut ==
  /\ LoopStep("slowWait", "quick")
  /\ UNCHANGED <<c, failures, failed, stale, over, isUp, client, clientLock,
                 state, processVars, stopped, reachable, keepAlive, opState>>
SlowWaits ==
  /\ loop = "slowWait"
  /\ \/ loop' = "quick"
     \/ over /\ loop' = "check"
  /\ UNCHANGED <<c, failures, failed, stale, over, isUp, client, clientLock,
                 state, processVars, stopped, reachable, keepAlive, opState>>

LoopNext ==
  \/ Check \/ Quick \/ ReadAddress \/ DialFails \/ DialSucceeds \/ Connects
  \/ ConnectReturns \/ Install \/ QuickWaits \/ MarkDown \/ ReportDown \/ Undo \/ SlowWaits

---------------------------------------------------------------------------
(* onConnect: report the reader as up, then set its KeepAlives *)

At(p, label) == pc[p] = label
Goto(p, label) == pc' = [pc EXCEPT ![p] = label]

ReadIsUp(h) ==
  /\ At(h, "onConnect")
  /\ IF isUp THEN Goto(h, "send") ELSE Goto(h, "reportUp")
  /\ UNCHANGED <<loopVars, over, isUp, client, clientLock, state, op, sendTo,
                 attempts, stopped, reachable, keepAlive, opState>>

ReportUp(h) ==
  /\ At(h, "reportUp")
  /\ \/ Goto(h, "markUp") /\ opState' = "Up"
     \/ Goto(h, "send") /\ opState' = opState
  /\ UNCHANGED <<loopVars, over, isUp, client, clientLock, state, op, sendTo,
                 attempts, stopped, reachable, keepAlive>>

MarkUp(h) ==
  /\ At(h, "markUp")
  /\ isUp' = TRUE
  /\ Goto(h, "send")
  /\ UNCHANGED <<loopVars, over, client, clientLock, state, op, sendTo,
                 attempts, stopped, reachable, keepAlive, opState>>

---------------------------------------------------------------------------
(* TrySend *)

\* An attempt may be made again if no Client was there, or it was closed.
Recoverable(p) ==
  /\ attempts' = [attempts EXCEPT ![p] = IF @ + 1 < maxSendAttempts THEN @ + 1 ELSE 0]
  /\ IF attempts[p] + 1 < maxSendAttempts THEN Goto(p, "sendWait") ELSE Goto(p, "sendFailed")

ReadClient(p) ==
  /\ At(p, "send") /\ clientLock = NoProcess
  /\ IF client = NoClient THEN Recoverable(p) /\ sendTo' = sendTo
     ELSE /\ sendTo' = [sendTo EXCEPT ![p] = client]
          /\ Goto(p, "sending") /\ attempts' = attempts
  /\ UNCHANGED <<loopVars, over, isUp, client, clientLock, state, op,
                 stopped, reachable, keepAlive, opState>>

\* SendFor returns.  Every message of a handler, and every SetReaderConfig, sets our
\* KeepAliveSpec: TrySend replaces any other.
Sent(p) ==
  /\ At(p, "sending")
  /\ sendTo' = [sendTo EXCEPT ![p] = NoClient]
  /\ \/ /\ sendTo[p] # Closed /\ state[sendTo[p]] = "open"
        /\ Goto(p, "idle") /\ attempts' = [attempts EXCEPT ![p] = 0]
        /\ keepAlive' = (keepAlive \/ p \in Handlers)
     \/ /\ sendTo[p] = Closed
        /\ Recoverable(p)
        /\ keepAlive' = keepAlive
     \/ \* the context is over, or the reader's answer is an error
        /\ Goto(p, "sendFailed") /\ attempts' = [attempts EXCEPT ![p] = 0]
        /\ keepAlive' = keepAlive
  /\ op' = [op EXCEPT ![p] = IF pc'[p] = "idle" THEN "none" ELSE @]
  /\ UNCHANGED <<loopVars, over, isUp, client, clientLock, state,
                 stopped, reachable, opState>>

\* The wait of Quick between two attempts; its deadline may come first.
SendWaits(p) ==
  /\ At(p, "sendWait")
  /\ \/ Goto(p, "send") /\ attempts' = attempts
     \/ Goto(p, "sendFailed") /\ attempts' = [attempts EXCEPT ![p] = 0]
  /\ UNCHANGED <<loopVars, over, isUp, client, clientLock, state, op, sendTo,
                 stopped, reachable, keepAlive, opState>>

IgnoreFailure(p) ==
  /\ At(p, "sendFailed")
  /\ Goto(p, "idle")
  /\ op' = [op EXCEPT ![p] = "none"]
  /\ UNCHANGED <<loopVars, over, isUp, client, clientLock, state, sendTo,
                 attempts, stopped, reachable, keepAlive, opState>>
\* A handler that could not set the KeepAlives resets the connection.
SendFailed(p) ==
  /\ At(p, "sendFailed")
  /\ Goto(p, IF p \in Handlers THEN "lock" ELSE "idle")
  /\ op' = [op EXCEPT ![p] = IF p \in Handlers THEN "resetConn" ELSE "none"]
  /\ UNCHANGED <<loopVars, over, isUp, client, clientLock, state, sendTo,
                 attempts, stopped, reachable, keepAlive, opState>>

---------------------------------------------------------------------------
(* Stop, UpdateAddr and resetConn close the connection under clientLock *)

LockOnly(p) ==
  /\ At(p, "lock") /\ clientLock = NoProcess
  /\ clientLock' = p
  /\ Goto(p, "closing")
  /\ UNCHANGED <<loopVars, over, isUp, client, state, op, sendTo, attempts,
                 stopped, reachable, keepAlive, opState>>
Lock(p) ==
  /\ At(p, "lock") /\ clientLock = NoProcess
  /\ clientLock' = p
  /\ over' = (over \/ op[p] \in {"Stop", "ForcedStop"})
  /\ Goto(p, "closing")
  /\ UNCHANGED <<loopVars, isUp, client, state, op, sendTo, attempts,
                 stopped, reachable, keepAlive, opState>>

\* What closeLocked may leave in LLRPDevice.client: nil, or the Client, which is then
\* closed, if Shutdown has failed or its context has ended.  The context of every call
\* but ForcedStop ends; without a deadline Shutdown waits for a connection, and for
\* the reader's answer.
AfterClose(p) ==
  IF client = NoClient THEN {NoClient}
  ELSE IF op[p] # "ForcedStop" THEN {NoClient, Closed}
  ELSE IF client = Closed THEN {NoClient}
  ELSE IF state[client] = "open" THEN {NoClient, Closed} ELSE {}

Unlock(p) ==
  /\ At(p, "closing")
  /\ clientLock' = NoProcess
  /\ stopped' = (stopped \/ op[p] \in {"Stop", "ForcedStop"})
  /\ Goto(p, "idle")
  /\ op' = [op EXCEPT ![p] = "none"]
  /\ UNCHANGED <<loop, failures, failed, stale, over, isUp, attempts, reachable,
                 keepAlive, opState>>

OnlyForgetClient(p) ==
  /\ Unlock(p)
  /\ client' = NoClient
  /\ UNCHANGED <<c, sendTo, state>>
closeLocked(p) ==
  /\ Unlock(p)
  /\ client' \in AfterClose(p)
  /\ c' = Now(client, c)
  /\ Close(client)

---------------------------------------------------------------------------
(* Callers and the world *)

InUse == loop \in {"dialing", "connecting", "connected"}

CallAndReturn(p) ==
  /\ At(p, "idle")
  /\ \E o \in Operations :
       /\ op' = [op EXCEPT ![p] = o]
       /\ Goto(p, IF o = "UpdateAddr" THEN "idle" ELSE "lock")
       /\ stale' = (stale \/ (o = "UpdateAddr" /\ InUse))
  /\ UNCHANGED <<loop, c, failures, failed, over, isUp, client, clientLock, state, sendTo,
                 attempts, stopped, reachable, keepAlive, opState>>
Call(p) ==
  /\ At(p, "idle")
  /\ \E o \in Operations :
       /\ op' = [op EXCEPT ![p] = o]
       /\ Goto(p, IF o = "TrySend" THEN "send" ELSE "lock")
       \* UpdateAddr sets the address first, and goes on if it is another
       /\ stale' = (stale \/ (o = "UpdateAddr" /\ InUse))
  /\ UNCHANGED <<loop, c, failures, failed, over, isUp, client, clientLock, state, sendTo, attempts,
                 stopped, reachable, keepAlive, opState>>

\* The reader goes away or comes back.
Reach ==
  /\ reachable' = ~reachable
  /\ UNCHANGED <<loopVars, over, isUp, client, clientLock, state, processVars,
                 stopped, keepAlive, opState>>

ProcessNext(p) ==
  \/ ReadClient(p) \/ Sent(p) \/ SendWaits(p) \/ SendFailed(p) \/ Lock(p) \/ closeLocked(p)
HandlerNext(h) == ReadIsUp(h) \/ ReportUp(h) \/ MarkUp(h)

Next ==
  \/ LoopNext
  \/ \E p \in Processes : ProcessNext(p)
  \/ \E h \in Handlers : HandlerNext(h)
  \/ \E p \in Callers : Call(p)
  \/ Reach

Spec == Init /\ [][Next]_vars

---------------------------------------------------------------------------
(* Fairness: goroutines run, dials and waits end, a connection whose Client is    *)
(* closed or whose reader is gone makes Connect return (it reads with a timeout), *)
(* locks are granted in the end, select does not pass over a context that is over *)
(* for ever, and EdgeX does not refuse every report that the reader is down.      *)

LoopGoesOn ==
  \/ Check \/ Quick \/ ReadAddress \/ DialFails \/ DialSucceeds \/ QuickWaits
  \/ MarkDown \/ ReportDown \/ Undo \/ SlowWaits
  \/ (ConnectReturns /\ (loop = "connecting" \/ c = Closed \/ ~reachable))

ProcessGoesOn(p) ==
  \/ Sent(p) \/ SendWaits(p) \/ SendFailed(p)
  \/ op[p] # "ForcedStop" /\ closeLocked(p)
  \/ p \in Handlers /\ HandlerNext(p)

Fairness ==
  /\ WF_vars(LoopGoesOn)
  /\ SF_vars(Install)
  /\ SF_vars(SlowWaits /\ loop' = "check")
  /\ SF_vars(ReportDown /\ loop' = "slowWait")
  /\ \A p \in Processes :
       /\ WF_vars(ProcessGoesOn(p))
       /\ SF_vars(Lock(p) \/ ReadClient(p))

FairSpec == Spec /\ Fairness

---------------------------------------------------------------------------
(* Properties *)

TypeOK ==
  /\ loop \in {"check", "quick", "attempt", "dialing", "connecting", "connected", "install",
               "quickWait", "failed", "reportDown", "undo", "slowWait", "exited"}
  /\ c \in Clients \cup {Closed} /\ client \in Clients \cup {Closed, NoClient}
  /\ failures \in 0 .. maxConnAttempts - 1
  /\ clientLock \in Processes \cup {NoProcess}
  /\ state \in [Clients -> {"idle", "open"}]
  /\ sendTo \in [Processes -> Clients \cup {Closed, NoClient}]
  /\ attempts \in [Processes -> 0 .. maxSendAttempts - 1]
  /\ pc \in [Processes -> {"idle", "onConnect", "reportUp", "markUp", "send", "sending",
                            "sendWait", "sendFailed", "lock", "closing"}]
  /\ op \in [Processes -> Operations \cup {"none", "resetConn"}]
  /\ {failed, stale, over, isUp, stopped, reachable, keepAlive} \subseteq BOOLEAN
  /\ opState \in {"Up", "Down"}

\* A Client that could serve a connection, or does, is one that Stop, UpdateAddr and
\* resetConn find in the device and close, except for the moment between its creation
\* and its installation (device.go:172-175), when it is not connected.
LiveClientIsInstalled ==
  c # Closed => client = c \/ (loop = "install" /\ state[c] = "idle")

\* Once a Stop has returned, no connection is open, and none is opened afterwards,
\* though the goroutine may install another Client and try to dial once more
\* (device.go:262-272).
StopClosesConnections == stopped => \A x \in Clients : state[x] # "open"

\* A stopped device ends: the goroutine leaves its waits, dials and connections.
StopEndsLoop == over ~> loop = "exited"

\* A connection to an address that has been replaced is given up (device.go:279-292).
StaleAddressIsLeft == (loop = "connected" /\ stale) ~> (loop # "connected")

\* A connection that lasts is one whose reader has our KeepAliveSpec: it is set, or
\* the connection is reset (device.go:480-493).  Without it the timeout of the Client
\* would end the connection of a reader that has nothing to report.
ConnectionIsConfigured == loop = "connected" ~> (keepAlive \/ loop # "connected")

\* A reader that stays out of reach is reported to EdgeX as down, again and again if
\* a handler of its last connection still reports it as up (device.go:187-204).
LostReaderIsReported == <>[](~reachable) => []<>(opState = "Down" \/ over)
=============================================================================

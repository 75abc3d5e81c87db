--------------------------- MODULE DeviceRegistry ---------------------------
(***************************************************************************)
(* internal/driver/driver.go: the Driver's map of active devices.  The     *)
(* EdgeX SDK calls AddDevice, UpdateDevice, RemoveDevice and Stop, and     *)
(* hands over commands, each in a goroutine of its own; a device that is   *)
(* addressed and not in the map is created.  A device that is stopped ends *)
(* its goroutine, which at last removes whatever device has its name.      *)
(*                                                                         *)
(* What goes on in a device is the business of LLRPDevice.  Here a device  *)
(* is running, or stopped (its context is cancelled and its connection     *)
(* closed), or gone; objects that are gone and that nobody refers to are   *)
(* used again as new ones.  Its clientLock matters only where it may be    *)
(* held without limit: dev.Stop of a forced Driver.Stop holds it for as    *)
(* long as its Shutdown waits for the reader.                              *)
(***************************************************************************)
EXTENDS Naturals, FiniteSets

CONSTANTS
  Names,       \* device names
  Devices,     \* LLRPDevice objects
  NoDevice,    \* no entry in the map
  Users,       \* goroutines of the SDK that call the Driver
  NoProcess,   \* nobody: devicesMu is free
  NoName,      \* a call that is not about a device
  Operations   \* what users do: "get", "remove", "stop", "forcedStop"

ASSUME RegistryAssumption ==
  /\ NoDevice \notin Devices /\ Users \cap Devices = {} /\ NoProcess \notin Users \cup Devices
  /\ NoName \notin Names
  /\ Operations \subseteq {"get", "remove", "stop", "forcedStop"}

VARIABLES
  activeDevices,  \* the map: for each name a device, or NoDevice
  devicesMu,      \* who holds the lock for writing
  done,           \* the channel done is closed: Stop has been called
  panicked,       \* Stop has closed it again
  life,           \* of each device: "gone", "running", "stopped" or "removing"
  nameOf,         \* its name
  stopping,       \* the devices for which a goroutine of Driver.Stop is yet to run
  forced,         \* those whose dev.Stop has no deadline, and has not returned
  pc, op, name,   \* where each user is, in which operation, on which device
  dev             \* the device getDevice has given it

vars == <<activeDevices, devicesMu, done, panicked, life, nameOf, stopping, forced,
          pc, op, name, dev>>

Active == { activeDevices[n] : n \in Names } \ {NoDevice}

\* Start has created a device for each that EdgeX knows.
Init ==
  /\ \E known \in SUBSET Names : \E f \in [known -> Devices] :
       /\ \A m, n \in known : f[m] = f[n] => m = n
       /\ activeDevices = [n \in Names |-> IF n \in known THEN f[n] ELSE NoDevice]
  /\ life = [d \in Devices |-> IF d \in Active THEN "running" ELSE "gone"]
  /\ nameOf = [d \in Devices |-> IF d \in Active
                                 THEN CHOOSE n \in Names : activeDevices[n] = d ELSE NoName]
  /\ devicesMu = NoProcess /\ done = FALSE /\ panicked = FALSE
  /\ stopping = {} /\ forced = {}
  /\ pc = [u \in Users |-> "idle"] /\ op = [u \in Users |-> "none"]
  /\ name = [u \in Users |-> NoName] /\ dev = [u \in Users |-> NoDevice]

Free == devicesMu = NoProcess

\* The devices whose clientLock is held by a Stop without deadline.
Held == forced \ stopping

At(u, label) == pc[u] = label
Goto(u, label) == pc' = [pc EXCEPT ![u] = label]

\* A call ends; what it was about is forgotten.
Return(u) ==
  /\ Goto(u, "idle")
  /\ op' = [op EXCEPT ![u] = "none"] /\ name' = [name EXCEPT ![u] = NoName]
  /\ dev' = [dev EXCEPT ![u] = NoDevice]

---------------------------------------------------------------------------
(* Calls of the SDK *)

Call(u) ==
  /\ At(u, "idle") /\ ~panicked
  /\ \E o \in Operations :
       /\ op' = [op EXCEPT ![u] = o]
       /\ \/ /\ o \in {"get", "remove"}
             /\ \E n \in Names : name' = [name EXCEPT ![u] = n]
             /\ Goto(u, IF o = "get" THEN "lookup" ELSE "remove")
             /\ UNCHANGED <<done, panicked>>
          \/ /\ o \in {"stop", "forcedStop"}
             /\ name' = name
             /\ panicked' = done
             /\ done' = TRUE
             /\ Goto(u, "stop")
  /\ UNCHANGED <<activeDevices, devicesMu, life, nameOf, stopping, forced, dev>>

\* getDevice, under the read lock.
Lookup(u) ==
  /\ At(u, "lookup") /\ Free
  /\ LET d == activeDevices[name[u]]
     IN  /\ dev' = [dev EXCEPT ![u] = d]
         /\ Goto(u, IF d = NoDevice THEN "create" ELSE "use")
  /\ UNCHANGED <<activeDevices, devicesMu, done, panicked, life, nameOf, stopping, forced,
                 op, name>>

Fresh ==
  { d \in Devices : life[d] = "gone" /\ d \notin forced /\ d \notin { dev[u] : u \in Users } }

\* NewLLRPDevice, put into the map.
Create(u) ==
  /\ Fresh # {}
  /\ LET d == CHOOSE d \in Fresh : TRUE
     IN  /\ activeDevices' = [activeDevices EXCEPT ![name[u]] = d]
         /\ life' = [life EXCEPT ![d] = "running"]
         /\ nameOf' = [nameOf EXCEPT ![d] = name[u]]
         /\ dev' = [dev EXCEPT ![u] = d]

\* getDevice, under the lock: the map is looked at again.
CreateUnchecked(u) ==
  /\ At(u, "create") /\ Free
  /\ Create(u)
  /\ Goto(u, "use")
  /\ UNCHANGED <<devicesMu, done, panicked, stopping, forced, op, name>>
LookupAgain(u) ==
  /\ At(u, "create") /\ Free
  /\ IF activeDevices[name[u]] = NoDevice THEN Create(u)
     ELSE /\ dev' = [dev EXCEPT ![u] = activeDevices[name[u]]]
          /\ UNCHANGED <<activeDevices, life, nameOf>>
  /\ Goto(u, "use")
  /\ UNCHANGED <<devicesMu, done, panicked, stopping, forced, op, name>>

\* The protocols of the call hold no usable address.
NoAddress(u) ==
  /\ At(u, "create")
  /\ Return(u)
  /\ UNCHANGED <<activeDevices, devicesMu, done, panicked, life, nameOf, stopping, forced>>

\* TrySend or UpdateAddr on the device, or nothing (AddDevice).  The first two wait for
\* its clientLock, and for nothing else without a deadline.
Use(u) ==
  /\ At(u, "use")
  /\ Return(u)
  /\ UNCHANGED <<activeDevices, devicesMu, done, panicked, life, nameOf, stopping, forced>>

---------------------------------------------------------------------------
(* removeDevice, called by users and by the goroutines of devices *)

\* dev.Stop: it takes effect before its call returns.
Stopped(d) == IF life[d] = "running" THEN "stopped" ELSE life[d]

Remove(u) ==
  /\ At(u, "remove") /\ Free
  /\ LET d == activeDevices[name[u]]
     IN  IF d = NoDevice
         THEN Return(u) /\ UNCHANGED <<devicesMu, life>>
         ELSE /\ devicesMu' = u
              /\ life' = [life EXCEPT ![d] = Stopped(d)]
              /\ Goto(u, "removing")
              /\ UNCHANGED <<op, name, dev>>
  /\ UNCHANGED <<activeDevices, done, panicked, nameOf, stopping, forced>>

RemovedKept(u) ==
  /\ At(u, "removing")
  /\ devicesMu' = NoProcess
  /\ Return(u)
  /\ UNCHANGED <<activeDevices, done, panicked, life, nameOf, stopping, forced>>
\* dev.Stop has returned, at the latest when the context and resetConn's are over; if it
\* were of a device whose clientLock is held, it would not.
Removed(u) ==
  /\ At(u, "removing") /\ activeDevices[name[u]] \notin Held
  /\ activeDevices' = [activeDevices EXCEPT ![name[u]] = NoDevice]
  /\ devicesMu' = NoProcess
  /\ Return(u)
  /\ UNCHANGED <<done, panicked, life, nameOf, stopping, forced>>

\* The goroutine of a stopped device has left its loop and removes its name.
Leave(d) ==
  /\ life[d] = "stopped" /\ Free
  /\ LET e == activeDevices[nameOf[d]]
     IN  IF e = NoDevice
         THEN life' = [life EXCEPT ![d] = "gone"] /\ devicesMu' = devicesMu
         ELSE life' = [life EXCEPT ![e] = Stopped(e), ![d] = "removing"] /\ devicesMu' = d
  /\ UNCHANGED <<activeDevices, done, panicked, nameOf, stopping, forced, pc, op, name, dev>>

Left(d) ==
  /\ life[d] = "removing" /\ activeDevices[nameOf[d]] \notin Held
  /\ activeDevices' = [activeDevices EXCEPT ![nameOf[d]] = NoDevice]
  /\ devicesMu' = NoProcess
  /\ life' = [life EXCEPT ![d] = "gone"]
  /\ UNCHANGED <<done, panicked, nameOf, stopping, forced, pc, op, name, dev>>

---------------------------------------------------------------------------
(* Driver.Stop *)

\* A goroutine for each device; the map is new; without force, Stop waits for the
\* goroutines before it unlocks.
StopAll(u) ==
  /\ At(u, "stop") /\ Free /\ ~panicked
  /\ stopping' = stopping \cup Active
  /\ activeDevices' = [n \in Names |-> NoDevice]
  /\ IF op[u] = "forcedStop"
     THEN Return(u) /\ forced' = forced \cup Active /\ devicesMu' = devicesMu
     ELSE /\ forced' = forced
          /\ devicesMu' = u
          /\ Goto(u, "waiting") /\ UNCHANGED <<op, name, dev>>
  /\ UNCHANGED <<done, panicked, life, nameOf>>

\* dev.Stop of one of them: its context is cancelled; what follows is closeLocked.
StopDevice(d) ==
  /\ d \in stopping
  /\ stopping' = stopping \ {d}
  /\ life' = [life EXCEPT ![d] = Stopped(d)]
  /\ UNCHANGED <<activeDevices, devicesMu, done, panicked, nameOf, forced, pc, op, name, dev>>

\* closeLocked of a forced Stop has returned: there was no Client, the reader has answered
\* CloseConnection, or the connection has ended.  None of these need ever happen.
ForcedReturns(d) ==
  /\ d \in Held
  /\ forced' = forced \ {d}
  /\ UNCHANGED <<activeDevices, devicesMu, done, panicked, life, nameOf, stopping,
                 pc, op, name, dev>>

WaitedForGoroutines(u) ==
  /\ At(u, "waiting") /\ \A d \in Devices : life[d] \in {"gone", "running"}
  /\ stopping = {}
  /\ devicesMu' = NoProcess
  /\ Return(u)
  /\ UNCHANGED <<activeDevices, done, panicked, life, nameOf, stopping, forced>>
Waited(u) ==
  /\ At(u, "waiting") /\ stopping = {}
  /\ devicesMu' = NoProcess
  /\ Return(u)
  /\ UNCHANGED <<activeDevices, done, panicked, life, nameOf, stopping, forced>>

---------------------------------------------------------------------------

UserGoesOn(u) == Use(u) \/ Removed(u) \/ Waited(u)
UserTakesLock(u) == Lookup(u) \/ LookupAgain(u) \/ Remove(u) \/ StopAll(u)

Next ==
  \/ \E u \in Users : Call(u) \/ NoAddress(u) \/ UserGoesOn(u) \/ UserTakesLock(u)
  \/ \E d \in Devices : Leave(d) \/ Left(d) \/ StopDevice(d) \/ ForcedReturns(d)

Spec == Init /\ [][Next]_vars

\* Goroutines run, and a lock that is free again and again is granted in the end.  Calls
\* on a device end, and its goroutine leaves its loop, while its clientLock is free or
\* held by somebody with a deadline; both need it (device.go:172, :244, :289), so that
\* there is no fairness for them while a forced Stop holds it, nor for the end of that.
Fairness ==
  /\ \A u \in Users :
       WF_vars(UserGoesOn(u) /\ dev[u] \notin Held) /\ SF_vars(UserTakesLock(u))
  /\ \A d \in Devices :
       WF_vars(Left(d) \/ StopDevice(d)) /\ SF_vars(Leave(d) /\ d \notin Held)

FairSpec == Spec /\ Fairness

---------------------------------------------------------------------------
(* Properties *)

TypeOK ==
  /\ activeDevices \in [Names -> Devices \cup {NoDevice}]
  /\ devicesMu \in Users \cup Devices \cup {NoProcess}
  /\ done \in BOOLEAN /\ panicked \in BOOLEAN
  /\ life \in [Devices -> {"gone", "running", "stopped", "removing"}]
  /\ nameOf \in [Devices -> Names \cup {NoName}]
  /\ stopping \subseteq Devices /\ forced \subseteq Devices
  /\ pc \in [Users -> {"idle", "lookup", "create", "use", "remove", "removing", "stop", "waiting"}]
  /\ op \in [Users -> Operations \cup {"none"}]
  /\ name \in [Users -> Names \cup {NoName}]
  /\ dev \in [Users -> Devices \cup {NoDevice}]

\* A device that runs is in the map under its name, or a goroutine of Stop is about to
\* stop it: no connection to a reader is kept up that nobody can reach and close,
\* whatever calls come at the same time (driver.go:638-655).
NoOrphans ==
  \A d \in Devices :
    life[d] = "running" => (activeDevices[nameOf[d]] = d \/ d \in stopping)

\* Whoever finds the lock free finds only running devices in the map: a stopped one,
\* which never connects again, is not handed out to later commands (driver.go:660-671).
MapHoldsRunning ==
  Free => \A n \in Names : activeDevices[n] # NoDevice => life[activeDevices[n]] = "running"

\* Every call returns and every stopped device ends: Stop, which waits for devices under
\* the lock, and the goroutines of devices, which need it to end, do not wait for each
\* other (driver.go:516-545, device.go:117-122).  A forced Stop, which may hold the
\* clientLock of its devices for ever (driver.go:519, device.go:313), keeps nobody else:
\* only calls on these devices, and their goroutines, can wait, and nobody who holds
\* devicesMu waits for them.
NobodyWaitsForEver ==
  /\ \A u \in Users :
       (pc[u] # "idle") ~>
         (pc[u] = "idle" \/ panicked \/ (pc[u] = "use" /\ [](dev[u] \in Held)))
  /\ \A d \in Devices : (life[d] = "stopped") ~> (life[d] = "gone" \/ [](d \in Held))

\* driver.go:547 says AddDevice "tells the driver attempt to actively manage a device":
\* a device leaves the map only when RemoveDevice is called for it, or Stop.  This is
\* violated: the goroutine of a device that was removed removes the one that has been
\* added under its name since.
ManagedUntilRemoved ==
  [][\A n \in Names : activeDevices[n] # NoDevice /\ activeDevices'[n] = NoDevice =>
       \E u \in Users : op[u] \in {"remove", "stop", "forcedStop"} /\ pc'[u] # pc[u]]_vars
=============================================================================

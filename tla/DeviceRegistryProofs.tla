------------------------ MODULE DeviceRegistryProofs ------------------------
(***************************************************************************)
(* Theorems about DeviceRegistry: for any names, devices, callers and      *)
(* operations, every running device can be reached or is about to be       *)
(* stopped, and whoever finds the lock free finds only running devices.    *)
(***************************************************************************)
EXTENDS DeviceRegistry, TLAPS

\* A call that is about a device knows its name.
CallsHaveNames ==
  \A u \in Users :
    pc[u] \in {"lookup", "create", "use", "remove", "removing"} => name[u] \in Names

\* A device that is not gone has a name.
LivingHaveNames == \A d \in Devices : life[d] # "gone" => nameOf[d] \in Names

\* An entry of the map is a device of that name, and is not gone.
EntriesAreLiving ==
  \A n \in Names : activeDevices[n] # NoDevice =>
    nameOf[activeDevices[n]] = n /\ life[activeDevices[n]] # "gone"

\* A device that Stop is about to stop is running, and in the map no more.
StoppingRun ==
  \A d \in stopping : life[d] = "running" /\ \A n \in Names : activeDevices[n] # d

\* A device that a forced Stop has taken is in the map no more.
ForcedAreOut == \A n \in Names : activeDevices[n] \notin forced

\* Whoever removes or waits holds the lock.
LockIsHeld ==
  /\ \A u \in Users : pc[u] \in {"removing", "waiting"} => devicesMu = u
  /\ \A d \in Devices : life[d] = "removing" => devicesMu = d

\* An entry that is not running is being removed by who holds the lock.
StoppedEntryIsLeaving ==
  \A n \in Names : (activeDevices[n] # NoDevice /\ life[activeDevices[n]] # "running") =>
    \/ \E u \in Users : devicesMu = u /\ pc[u] = "removing" /\ name[u] = n
    \/ \E d \in Devices : devicesMu = d /\ life[d] = "removing" /\ nameOf[d] = n

\* What is being removed has been stopped before.
RemovedIsStopped ==
  /\ \A u \in Users : pc[u] = "removing" =>
       activeDevices[name[u]] = NoDevice \/ life[activeDevices[name[u]]] # "running"
  /\ \A d \in Devices : life[d] = "removing" =>
       activeDevices[nameOf[d]] = NoDevice \/ life[activeDevices[nameOf[d]]] # "running"

\* The inductive invariant.
RegistryInv ==
  /\ TypeOK
  /\ CallsHaveNames
  /\ LivingHaveNames
  /\ EntriesAreLiving
  /\ StoppingRun
  /\ ForcedAreOut
  /\ LockIsHeld
  /\ StoppedEntryIsLeaving
  /\ RemovedIsStopped
  /\ NoOrphans

USE DEF CallsHaveNames, LivingHaveNames, EntriesAreLiving, StoppingRun, ForcedAreOut,
        LockIsHeld, StoppedEntryIsLeaving, RemovedIsStopped, NoOrphans, TypeOK

---------------------------------------------------------------------------

LEMMA RegistryInit == Init => RegistryInv
  <1> SUFFICES ASSUME Init PROVE RegistryInv
    OBVIOUS
  <1>a. PICK known \in SUBSET Names : \E f \in [known -> Devices] :
          /\ \A m, n \in known : f[m] = f[n] => m = n
          /\ activeDevices = [n \in Names |-> IF n \in known THEN f[n] ELSE NoDevice]
    BY DEF Init
  <1>1. PICK f \in [known -> Devices] :
          /\ \A m, n \in known : f[m] = f[n] => m = n
          /\ activeDevices = [n \in Names |-> IF n \in known THEN f[n] ELSE NoDevice]
    BY <1>a
  <1>2. activeDevices \in [Names -> Devices \cup {NoDevice}]
    BY <1>1
  <1>3. \A d \in Devices : d \in Active => nameOf[d] \in Names /\ activeDevices[nameOf[d]] = d
    BY <1>2, RegistryAssumption DEF Init, Active
  <1>4. \A m, n \in Names : (activeDevices[m] = activeDevices[n] /\ activeDevices[m] # NoDevice) => m = n
    BY <1>1
  <1>5. \A n \in Names : activeDevices[n] # NoDevice => activeDevices[n] \in Active
    BY DEF Active
  <1>6. TypeOK
    BY <1>2, <1>3, RegistryAssumption DEF Init
  <1>7. EntriesAreLiving
    BY <1>2, <1>3, <1>4, <1>5 DEF Init
  <1>8. LivingHaveNames /\ NoOrphans
    BY <1>3 DEF Init
  <1> QED
    BY ZenonT(60), <1>2, <1>5, <1>6, <1>7, <1>8 DEF Init, RegistryInv

LEMMA CallKeeps ==
  ASSUME RegistryInv, NEW u \in Users, Call(u) PROVE RegistryInv'
  <1>1. PICK o \in Operations :
          /\ op' = [op EXCEPT ![u] = o]
          /\ \/ /\ \E n \in Names : name' = [name EXCEPT ![u] = n]
                /\ (pc' = [pc EXCEPT ![u] = "lookup"] \/ pc' = [pc EXCEPT ![u] = "remove"])
                /\ UNCHANGED <<done, panicked>>
             \/ /\ name' = name /\ panicked' = done /\ done' = TRUE
                /\ pc' = [pc EXCEPT ![u] = "stop"]
    BY DEF Call, Goto
  <1>2. pc[u] = "idle" /\ UNCHANGED <<activeDevices, devicesMu, life, nameOf, stopping, forced, dev>>
    BY DEF Call, At
  <1>3. TypeOK'
    <2>1. op' \in [Users -> Operations \cup {"none"}]
      BY <1>1 DEF RegistryInv
    <2>2. done' \in BOOLEAN /\ panicked' \in BOOLEAN
      BY <1>1 DEF RegistryInv
    <2>3. name' \in [Users -> Names \cup {NoName}]
      BY <1>1 DEF RegistryInv
    <2> QED
      BY <1>1, <1>2, <2>1, <2>2, <2>3 DEF RegistryInv
  <1>4. CallsHaveNames'
    BY <1>1, <1>2 DEF RegistryInv
  <1>5. LockIsHeld' /\ StoppedEntryIsLeaving' /\ RemovedIsStopped'
    BY <1>1, <1>2 DEF RegistryInv
  <1> QED
    BY <1>2, <1>3, <1>4, <1>5 DEF RegistryInv

LEMMA LookupKeeps ==
  ASSUME RegistryInv, NEW u \in Users, Lookup(u) PROVE RegistryInv'
  BY RegistryAssumption DEF RegistryInv, Lookup, At, Goto, Free

LEMMA ReturnKeeps ==
  ASSUME RegistryInv, NEW u \in Users, NoAddress(u) \/ Use(u) PROVE RegistryInv'
  BY RegistryAssumption DEF RegistryInv, NoAddress, Use, At, Goto, Return

LEMMA WaitedKeeps ==
  ASSUME RegistryInv, NEW u \in Users, Waited(u) PROVE RegistryInv'
  BY RegistryAssumption DEF RegistryInv, Waited, At, Goto, Return

LEMMA StopDeviceKeeps ==
  ASSUME RegistryInv, NEW d \in Devices, StopDevice(d) PROVE RegistryInv'
  BY RegistryAssumption DEF RegistryInv, StopDevice, Stopped

LEMMA ForcedReturnsKeeps ==
  ASSUME RegistryInv, NEW d \in Devices, ForcedReturns(d) PROVE RegistryInv'
  BY DEF RegistryInv, ForcedReturns

LEMMA RemovedKeeps ==
  ASSUME RegistryInv, NEW u \in Users, Removed(u) PROVE RegistryInv'
  <1>1. TypeOK'
    BY RegistryAssumption DEF RegistryInv, Removed, At, Goto, Return
  <1>2. CallsHaveNames'
    BY RegistryAssumption DEF RegistryInv, Removed, At, Goto, Return
  <1>3. LivingHaveNames'
    BY RegistryAssumption DEF RegistryInv, Removed, At, Goto, Return
  <1>4. EntriesAreLiving'
    BY RegistryAssumption DEF RegistryInv, Removed, At, Goto, Return
  <1>5. StoppingRun'
    BY RegistryAssumption DEF RegistryInv, Removed, At, Goto, Return
  <1>6. LockIsHeld'
    BY RegistryAssumption DEF RegistryInv, Removed, At, Goto, Return
  <1>7. StoppedEntryIsLeaving'
    BY RegistryAssumption DEF RegistryInv, Removed, At, Goto, Return
  <1>8. RemovedIsStopped'
    BY RegistryAssumption DEF RegistryInv, Removed, At, Goto, Return
  <1>9. NoOrphans'
    BY RegistryAssumption DEF RegistryInv, Removed, At, Goto, Return
  <1>10. ForcedAreOut'
    BY RegistryAssumption DEF RegistryInv, Removed
  <1> QED
    BY <1>1, <1>2, <1>3, <1>4, <1>5, <1>6, <1>7, <1>8, <1>9, <1>10 DEF RegistryInv

LEMMA LeftKeeps ==
  ASSUME RegistryInv, NEW d \in Devices, Left(d) PROVE RegistryInv'
  <1>1. TypeOK'
    BY RegistryAssumption DEF RegistryInv, Left
  <1>2. CallsHaveNames'
    BY RegistryAssumption DEF RegistryInv, Left
  <1>3. LivingHaveNames'
    BY RegistryAssumption DEF RegistryInv, Left
  <1>4. EntriesAreLiving'
    BY RegistryAssumption DEF RegistryInv, Left
  <1>5. StoppingRun'
    BY RegistryAssumption DEF RegistryInv, Left
  <1>6. LockIsHeld'
    BY RegistryAssumption DEF RegistryInv, Left
  <1>7. StoppedEntryIsLeaving'
    BY RegistryAssumption DEF RegistryInv, Left
  <1>8. RemovedIsStopped'
    BY RegistryAssumption DEF RegistryInv, Left
  <1>9. NoOrphans'
    BY RegistryAssumption DEF RegistryInv, Left
  <1>10. ForcedAreOut'
    BY RegistryAssumption DEF RegistryInv, Left
  <1> QED
    BY <1>1, <1>2, <1>3, <1>4, <1>5, <1>6, <1>7, <1>8, <1>9, <1>10 DEF RegistryInv

LEMMA StopAllKeeps ==
  ASSUME RegistryInv, NEW u \in Users, StopAll(u) PROVE RegistryInv'
  BY RegistryAssumption DEF RegistryInv, StopAll, Active, At, Goto, Return, Free

LEMMA RemoveKeeps ==
  ASSUME RegistryInv, NEW u \in Users, Remove(u) PROVE RegistryInv'
  BY RegistryAssumption DEF RegistryInv, Remove, Stopped, At, Goto, Return, Free

LEMMA LeaveKeeps ==
  ASSUME RegistryInv, NEW d \in Devices, Leave(d) PROVE RegistryInv'
  BY RegistryAssumption DEF RegistryInv, Leave, Stopped, Free

LEMMA LookupAgainKeeps ==
  ASSUME RegistryInv, NEW u \in Users, LookupAgain(u) PROVE RegistryInv'
  <1>a. /\ pc' = [pc EXCEPT ![u] = "use"]
        /\ name[u] \in Names /\ pc[u] = "create" /\ devicesMu = NoProcess
        /\ UNCHANGED <<devicesMu, done, panicked, stopping, forced, op, name>>
    BY DEF LookupAgain, At, Goto, Free, RegistryInv
  <1>b. CASE activeDevices[name[u]] # NoDevice
    <2>a. dev' = [dev EXCEPT ![u] = activeDevices[name[u]]]
          /\ UNCHANGED <<activeDevices, life, nameOf>>
      BY <1>b DEF LookupAgain
    <2> QED
      BY <1>a, <2>a, RegistryAssumption DEF RegistryInv
  <1>c. CASE activeDevices[name[u]] = NoDevice
    <2>a. PICK d \in Devices :
            /\ life[d] = "gone" /\ d \notin forced
            /\ activeDevices' = [activeDevices EXCEPT ![name[u]] = d]
            /\ life' = [life EXCEPT ![d] = "running"]
            /\ nameOf' = [nameOf EXCEPT ![d] = name[u]]
            /\ dev' = [dev EXCEPT ![u] = d]
      BY <1>c DEF LookupAgain, Create, Fresh
    <2>1. TypeOK'
      BY <1>a, <1>c, <2>a, RegistryAssumption DEF RegistryInv
    <2>2. CallsHaveNames'
      BY <1>a, <1>c, <2>a, RegistryAssumption DEF RegistryInv
    <2>3. LivingHaveNames'
      BY <1>a, <1>c, <2>a, RegistryAssumption DEF RegistryInv
    <2>4. EntriesAreLiving'
      BY <1>a, <1>c, <2>a, RegistryAssumption DEF RegistryInv
    <2>5. StoppingRun'
      BY <1>a, <1>c, <2>a, RegistryAssumption DEF RegistryInv
    <2>6. LockIsHeld'
      BY <1>a, <1>c, <2>a, RegistryAssumption DEF RegistryInv
    <2>7. StoppedEntryIsLeaving'
      BY <1>a, <1>c, <2>a, RegistryAssumption DEF RegistryInv
    <2>8. RemovedIsStopped'
      BY <1>a, <1>c, <2>a, RegistryAssumption DEF RegistryInv
    <2>9. NoOrphans'
      BY <1>a, <1>c, <2>a, RegistryAssumption DEF RegistryInv
    <2>10. ForcedAreOut'
      BY <1>a, <1>c, <2>a, RegistryAssumption DEF RegistryInv
    <2> QED
      BY <2>1, <2>2, <2>3, <2>4, <2>5, <2>6, <2>7, <2>8, <2>9, <2>10 DEF RegistryInv
  <1> QED
    BY <1>b, <1>c

LEMMA RegistryStutter ==
  ASSUME RegistryInv, UNCHANGED vars PROVE RegistryInv'
  BY DEF RegistryInv, vars

LEMMA RegistryStep == RegistryInv /\ [Next]_vars => RegistryInv'
  BY CallKeeps, LookupKeeps, ReturnKeeps, WaitedKeeps, StopDeviceKeeps, ForcedReturnsKeeps, RemovedKeeps,
     LeftKeeps, StopAllKeeps, RemoveKeeps, LeaveKeeps, LookupAgainKeeps, RegistryStutter
  DEF Next, UserGoesOn, UserTakesLock

---------------------------------------------------------------------------

\* The registry's variables keep their types, and the strengthened invariant holds of
\* every state the Driver can reach.
THEOREM RegistryCorrect == Spec => []RegistryInv
  BY RegistryInit, RegistryStep, PTL DEF Spec

\* No device runs that cannot be reached by its name and that nobody is about to stop,
\* whatever calls come at once (driver.go:616-671).
THEOREM RegistryHasNoOrphans == Spec => []NoOrphans
  <1>1. RegistryInv => NoOrphans
    BY DEF RegistryInv
  <1> QED
    BY <1>1, RegistryCorrect, PTL

\* Whoever finds the lock free finds only running devices in the map.
THEOREM RegistryHoldsRunning == Spec => []MapHoldsRunning
  <1>1. RegistryInv => MapHoldsRunning
    BY RegistryAssumption DEF RegistryInv, MapHoldsRunning, Free
  <1> QED
    BY <1>1, RegistryCorrect, PTL

\* What a forced Stop has taken is out of the map: removeDevice, which calls dev.Stop
\* under devicesMu, never meets a device whose clientLock is held without limit
\* (driver.go:516-543, :660-671).
THEOREM RemovalNeverMeetsForced ==
  Spec => [](\A n \in Names : activeDevices[n] \notin Held)
  <1>1. RegistryInv => \A n \in Names : activeDevices[n] \notin Held
    BY DEF RegistryInv, Held
  <1> QED
    BY <1>1, RegistryCorrect, PTL
=============================================================================

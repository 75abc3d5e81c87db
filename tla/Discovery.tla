------------------------------ MODULE Discovery ------------------------------
(***************************************************************************)
(* internal/driver/discover.go and the part of driver.go that starts it.   *)
(* A change of the configuration starts, or restarts, a timer; when it has *)
(* expired, or when the SDK asks for it, the subnets are scanned: one      *)
(* generator for each subnet sends addresses into a channel, workers take  *)
(* them, probe them and send what answers into another, from which the     *)
(* collector updates the devices that EdgeX knows and lists the new ones.  *)
(*                                                                         *)
(* An address is a number of Width bits.  A second scan that begins while  *)
(* one is running is only noted as begun: it shares nothing with the first *)
(* but what EdgeX knows.                                                   *)
(***************************************************************************)
EXTENDS Integers, FiniteSets, Sequences

CONSTANTS
  Width,          \* bits of an address: 32 in the source
  Configs,        \* values of DiscoverySubnets: sequences of subnets <<IP, size of mask>>
  AsyncLimit,     \* ProbeAsyncLimit
  Durations,      \* subset of {"limited", "unlimited"}: MaxDiscoverDurationSeconds
  Names,          \* device names
  NoName,         \* no device
  NoAddress,      \* the device has no tcp protocol
  Listening,      \* the addresses at which something may accept a connection
  ReaderAt,       \* for each of them the names by which a reader there may be known
  Registered,     \* what EdgeX may know at first: functions from some Names to devices
  MaxRequests     \* bound: changes of the configuration and requests of the SDK

Addresses == 0 .. 2^Width - 1
Workers == 1 .. AsyncLimit

ASSUME DiscoveryAssumption ==
  /\ Width \in Nat \ {0, 1} /\ AsyncLimit \in Nat \ {0} /\ MaxRequests \in Nat
  /\ Configs \subseteq Seq(Addresses \X (0 .. Width))
  /\ NoName \notin Names /\ NoAddress \notin Addresses
  /\ Listening \subseteq Addresses /\ ReaderAt \in [Listening -> SUBSET Names]

VARIABLES
  config, requests, changing,  \* the configuration; requests made; not yet announced
  undiscovered,               \* no discovery has begun under this configuration
  debounceTimer,              \* "nil", "running" or "stopped"
  ticker,                     \* the goroutine that waits for it: "none", "waiting", "woken"
  begins,                     \* discoveries about to begin
  scan,       \* the scan: "idle", "running" or "returned"
  params,     \* the configuration it has read
  ctx,        \* its context: "unlimited", "limited" or "over"
  deviceMap,  \* its snapshot: the device at each address, and whether it was up
  spawned,    \* how many subnets have a generator
  quit,       \* no more generators are started: the context was over
  todo,       \* for each subnet the addresses its generator has not sent
  ended,      \* subnets whose generator has returned
  ipCh, ipClosed, resultClosed,
  worker,     \* what each worker does: <<"take">>, <<"probe", address>>,
              \* <<"connected", address>>, <<"send", info>> or <<"ended">>
  result,     \* what the collector works on: <<>>, <<info>>, or <<info, "checked">>
  probed, found, handled,  \* history: addresses probed, answers got, results handled
  devices     \* what EdgeX knows: a function from names

debounceVars == <<config, requests, changing, undiscovered, debounceTimer, ticker, begins>>
pipeVars == <<spawned, quit, todo, ended, ipCh, ipClosed, resultClosed, worker, result>>
scanVars == <<scan, params, ctx, deviceMap, pipeVars, probed, found, handled>>
vars == <<debounceVars, scanVars, devices>>

---------------------------------------------------------------------------
(* The addresses of a subnet *)

computeNetSz(sz) == IF sz >= Width - 1 THEN 1 ELSE 2^(Width - sz) - 2

NetId(inet) == inet[1] - (inet[1] % 2^(Width - inet[2]))
Broadcast(inet) == NetId(inet) + 2^(Width - inet[2]) - 1

\* The addresses from a to b, in this order.
FromTo(a, b) == [i \in 1 .. (IF b >= a THEN b - a + 1 ELSE 0) |-> a + i - 1]

generatedToBroadcast(inet) ==
  IF inet[2] <= 1 THEN <<>>
  ELSE IF inet[2] >= Width - 1 THEN <<NetId(inet)>>
  ELSE FromTo(NetId(inet) + 1, Broadcast(inet))
\* What ipGenerator sends for a subnet; net.ParseCIDR has masked its IP.
generated(inet) ==
  IF inet[2] <= 1 THEN <<>>
  ELSE IF inet[2] >= Width - 1 THEN <<NetId(inet)>>
  ELSE FromTo(NetId(inet) + 1, Broadcast(inet) - 1)

\* The sum of the sizes of the subnets, as the number of places in them.
estimatedProbes(subnets) ==
  Cardinality(UNION { {i} \X (1 .. computeNetSz(subnets[i][2])) : i \in 1 .. Len(subnets) })
\* There are no more workers, nor places in ipCh, than addresses.
asyncLimit(subnets) ==
  IF estimatedProbes(subnets) < AsyncLimit THEN estimatedProbes(subnets) ELSE AsyncLimit

---------------------------------------------------------------------------

Nobody == [name |-> NoName, up |-> FALSE]

NoScan ==
  /\ params = <<>> /\ ctx = "unlimited" /\ deviceMap = [a \in Addresses |-> Nobody]
  /\ spawned = 0 /\ quit = FALSE /\ todo = <<>> /\ ended = {}
  /\ ipCh = <<>> /\ ipClosed = FALSE /\ resultClosed = FALSE
  /\ worker = [w \in Workers |-> <<"ended">>] /\ result = <<>>
  /\ probed = {} /\ found = {} /\ handled = {}

Init ==
  /\ config \in Configs /\ requests = 0 /\ changing = FALSE /\ undiscovered = FALSE
  /\ debounceTimer = "nil" /\ ticker = "none" /\ begins = 0
  /\ scan = "idle" /\ NoScan
  /\ devices \in Registered

---------------------------------------------------------------------------
(* updateWritableConfig and debouncedDiscover *)

Change ==
  /\ ~changing /\ requests < MaxRequests
  /\ config' \in Configs \ {config}
  /\ requests' = requests + 1
  /\ changing' = TRUE
  /\ undiscovered' = TRUE
  /\ UNCHANGED <<debounceTimer, ticker, begins, scanVars, devices>>

\* The timer is reset, or made together with a goroutine that waits for it.
debouncedDiscover ==
  /\ changing
  /\ changing' = FALSE
  /\ debounceTimer' = "running"
  /\ ticker' = IF debounceTimer = "nil" THEN "waiting" ELSE ticker
  /\ UNCHANGED <<config, requests, undiscovered, begins, scanVars, devices>>

\* The timer expires and wakes the goroutine that waits for it.  Once this is awake, the
\* timer may be reset, but nobody waits for it any more.
Expire ==
  /\ ticker = "waiting" /\ debounceTimer = "running"
  /\ ticker' = "woken"
  /\ debounceTimer' = "stopped"
  /\ UNCHANGED <<config, requests, changing, undiscovered, begins, scanVars, devices>>

\* The timer is forgotten, also if it has been reset since its tick.
ForgetTimerOnly ==
  /\ ticker = "woken"
  /\ ticker' = "none"
  /\ debounceTimer' = "nil"
  /\ begins' = IF debounceTimer = "stopped" THEN begins + 1 ELSE begins
  /\ UNCHANGED <<config, requests, changing, undiscovered, scanVars, devices>>
ForgetTimer ==
  /\ ticker = "woken"
  /\ ticker' = "none"
  /\ debounceTimer' = "nil"
  /\ begins' = begins + 1
  /\ UNCHANGED <<config, requests, changing, undiscovered, scanVars, devices>>

---------------------------------------------------------------------------
(* Discover *)

At(a) == { n \in DOMAIN devices : devices[n].tcp = a }
Taken == { a \in Addresses : At(a) # {} }
\* The snapshots: of several devices at one address any may be the last in the SDK's list.
makeDeviceMap ==
  { [a \in Addresses |->
       IF a \in Taken THEN [name |-> last[a], up |-> devices[last[a]].up] ELSE Nobody] :
    last \in { l \in [Taken -> DOMAIN devices] : \A a \in Taken : l[a] \in At(a) } }

\* autoDiscover, up to the start of its goroutines.
Start ==
  /\ scan' = "running"
  /\ params' = config
  /\ ctx' \in Durations
  /\ deviceMap' \in makeDeviceMap
  /\ spawned' = 0 /\ quit' = FALSE
  /\ todo' = [i \in 1 .. Len(config) |-> generated(config[i])]
  /\ ended' = {} /\ ipCh' = <<>> /\ ipClosed' = FALSE /\ resultClosed' = FALSE
  /\ worker' = [w \in Workers |-> IF w <= asyncLimit(config) THEN <<"take">> ELSE <<"ended">>]
  /\ result' = <<>> /\ probed' = {} /\ found' = {} /\ handled' = {}

Discover ==
  /\ begins > 0
  /\ begins' = begins - 1
  /\ undiscovered' = FALSE
  /\ IF scan = "idle" THEN Start ELSE UNCHANGED scanVars
  /\ UNCHANGED <<config, requests, changing, debounceTimer, ticker, devices>>

\* The SDK asks for a discovery.
AskedToDiscover ==
  /\ scan = "idle" /\ requests < MaxRequests
  /\ requests' = requests + 1
  /\ undiscovered' = FALSE
  /\ Start
  /\ UNCHANGED <<config, changing, debounceTimer, ticker, begins, devices>>

\* The time for the scan is over.
Cancel ==
  /\ scan = "running" /\ ctx = "limited"
  /\ ctx' = "over"
  /\ UNCHANGED <<debounceVars, scan, params, deviceMap, pipeVars, probed, found, handled, devices>>

---------------------------------------------------------------------------
(* The goroutine that starts the generators, and the generators *)

\* It starts the next generator, unless the context is over: then it returns, and
\* nobody closes the channels.
Spawn ==
  /\ scan = "running" /\ spawned < Len(params) /\ ~quit
  /\ IF ctx = "over" THEN quit' = TRUE /\ spawned' = spawned
     ELSE spawned' = spawned + 1 /\ quit' = quit
  /\ UNCHANGED <<debounceVars, scan, params, ctx, deviceMap, todo, ended, ipCh, ipClosed,
                 resultClosed, worker, result, probed, found, handled, devices>>

Spawned == spawned = Len(params)
AllGenerated == ended = 1 .. Len(params)
AllWorked == \A w \in Workers : worker[w] = <<"ended">>

CloseIps ==
  /\ scan = "running" /\ Spawned /\ AllGenerated /\ ~ipClosed
  /\ ipClosed' = TRUE
  /\ UNCHANGED <<debounceVars, scan, params, ctx, deviceMap, spawned, quit, todo, ended, ipCh,
                 resultClosed, worker, result, probed, found, handled, devices>>

CloseResults ==
  /\ scan = "running" /\ ipClosed /\ AllWorked /\ ~resultClosed
  /\ resultClosed' = TRUE
  /\ UNCHANGED <<debounceVars, scan, params, ctx, deviceMap, spawned, quit, todo, ended, ipCh,
                 ipClosed, worker, result, probed, found, handled, devices>>

Generating(i) == scan = "running" /\ i <= spawned /\ i \notin ended

Generate(i) ==
  /\ Generating(i) /\ todo[i] # <<>> /\ Len(ipCh) < asyncLimit(params)
  /\ ipCh' = Append(ipCh, Head(todo[i]))
  /\ todo' = [todo EXCEPT ![i] = Tail(@)]
  /\ UNCHANGED <<debounceVars, scan, params, ctx, deviceMap, spawned, quit, ended, ipClosed,
                 resultClosed, worker, result, probed, found, handled, devices>>

IsPoint(inet) == inet[2] >= Width - 1

GenerateAll(i) ==
  /\ Generating(i)
  /\ todo[i] = <<>>
  /\ ended' = ended \cup {i}
  /\ UNCHANGED <<debounceVars, scan, params, ctx, deviceMap, spawned, quit, todo, ipCh, ipClosed,
                 resultClosed, worker, result, probed, found, handled, devices>>
\* It has sent all its addresses, or sees that the context is over, for which the
\* generator of a single address does not look.
Generated(i) ==
  /\ Generating(i)
  /\ (todo[i] = <<>> \/ (ctx = "over" /\ ~IsPoint(params[i])))
  /\ ended' = ended \cup {i}
  /\ UNCHANGED <<debounceVars, scan, params, ctx, deviceMap, spawned, quit, todo, ipCh, ipClosed,
                 resultClosed, worker, result, probed, found, handled, devices>>

---------------------------------------------------------------------------
(* Workers *)

Becomes(w, what) == worker' = [worker EXCEPT ![w] = what]

\* The worker takes an address, and skips it if it is that of a device that was up.
Take(w) ==
  /\ worker[w] = <<"take">> /\ ipCh # <<>>
  /\ ipCh' = Tail(ipCh)
  /\ IF deviceMap[Head(ipCh)].up THEN worker' = worker
     ELSE Becomes(w, <<"probe", Head(ipCh)>>)
  /\ UNCHANGED <<debounceVars, scan, params, ctx, deviceMap, spawned, quit, todo, ended, ipClosed,
                 resultClosed, result, probed, found, handled, devices>>

\* There are no more addresses, or the context is over, before or after it took one.
Quit(w) ==
  /\ \/ /\ worker[w] = <<"take">>
        /\ (ctx = "over" \/ (ipClosed /\ ipCh = <<>>))
     \/ (worker[w][1] = "probe" /\ ctx = "over")
  /\ Becomes(w, <<"ended">>)
  /\ UNCHANGED <<debounceVars, scan, params, ctx, deviceMap, spawned, quit, todo, ended, ipCh,
                 ipClosed, resultClosed, result, probed, found, handled, devices>>

\* probe, up to Connect: net.DialTimeout fails in time, or something accepts.
Dial(w) ==
  /\ worker[w][1] = "probe"
  /\ LET a == worker[w][2]
     IN  /\ probed' = probed \cup {a}
         /\ Becomes(w, <<"take">>) \/ (a \in Listening /\ Becomes(w, <<"connected", a>>))
  /\ UNCHANGED <<debounceVars, scan, params, ctx, deviceMap, spawned, quit, todo, ended, ipCh,
                 ipClosed, resultClosed, result, found, handled, devices>>

\* c.Connect returns: what has accepted hangs up, is no reader, sends no identification,
\* or answers both requests.  This is up to the other side: the requests have a deadline,
\* after which the Client is closed, but not the connection, and a read of the Client,
\* which has no timeout, goes on for as long as nothing comes and nobody hangs up.
Answer(w) ==
  /\ worker[w][1] = "connected"
  /\ \/ Becomes(w, <<"take">>) /\ found' = found
     \/ \E n \in ReaderAt[worker[w][2]] :
          LET info == [name |-> n, tcp |-> worker[w][2]]
          IN  Becomes(w, <<"send", info>>) /\ found' = found \cup {info}
  /\ UNCHANGED <<debounceVars, scan, params, ctx, deviceMap, spawned, quit, todo, ended, ipCh,
                 ipClosed, resultClosed, result, probed, handled, devices>>

\* resultCh has no buffer: the collector takes what the worker sends.
SendOrDrop(w) ==
  /\ worker[w][1] = "send" /\ result = <<>> /\ scan = "running"
  /\ result' = IF ctx = "over" THEN <<>> ELSE <<worker[w][2]>>
  /\ Becomes(w, <<"take">>)
  /\ UNCHANGED <<debounceVars, scan, params, ctx, deviceMap, spawned, quit, todo, ended, ipCh,
                 ipClosed, resultClosed, probed, found, handled, devices>>
Send(w) ==
  /\ worker[w][1] = "send" /\ result = <<>> /\ scan = "running"
  /\ result' = <<worker[w][2]>>
  /\ Becomes(w, <<"take">>)
  /\ UNCHANGED <<debounceVars, scan, params, ctx, deviceMap, spawned, quit, todo, ended, ipCh,
                 ipClosed, resultClosed, probed, found, handled, devices>>

---------------------------------------------------------------------------
(* processResultChannel *)

\* A device of another name that was known at this address loses it, unless EdgeX
\* refuses.
Disable ==
  /\ Len(result) = 1
  /\ LET existing == deviceMap[result[1].tcp].name
     IN  \/ devices' = devices
         \/ /\ existing # NoName /\ existing # result[1].name
            /\ devices' = [devices EXCEPT ![existing] = [tcp |-> NoAddress, up |-> FALSE]]
  /\ result' = <<result[1], "checked">>
  /\ UNCHANGED <<debounceVars, scan, params, ctx, deviceMap, spawned, quit, todo, ended, ipCh,
                 ipClosed, resultClosed, worker, probed, found, handled>>

\* A known device of this name is up, at this address, unless EdgeX refuses; an unknown
\* one is listed for EdgeX to add.
Register ==
  /\ Len(result) = 2
  /\ LET info == result[1]
     IN  \/ devices' = devices
         \/ /\ info.name \in DOMAIN devices
            /\ devices' = [devices EXCEPT ![info.name] = [tcp |-> info.tcp, up |-> TRUE]]
  /\ handled' = handled \cup {result[1]}
  /\ result' = <<>>
  /\ UNCHANGED <<debounceVars, scan, params, ctx, deviceMap, spawned, quit, todo, ended, ipCh,
                 ipClosed, resultClosed, worker, probed, found>>

Return ==
  /\ scan = "running" /\ resultClosed /\ result = <<>>
  /\ scan' = "returned"
  /\ UNCHANGED <<debounceVars, params, ctx, deviceMap, pipeVars, probed, found, handled, devices>>

\* The list is passed to EdgeX, which adds the devices that match.
Pass ==
  /\ scan = "returned"
  /\ scan' = "idle"
  /\ \E added \in SUBSET { info \in handled : info.name \notin DOMAIN devices } :
       /\ \A i, j \in added : i.name = j.name => i = j
       /\ devices' = [n \in DOMAIN devices \cup { info.name : info \in added } |->
                        IF n \in DOMAIN devices THEN devices[n]
                        ELSE [tcp |-> (CHOOSE info \in added : info.name = n).tcp, up |-> TRUE]]
  /\ UNCHANGED debounceVars
  /\ params' = <<>> /\ ctx' = "unlimited" /\ deviceMap' = [a \in Addresses |-> Nobody]
  /\ spawned' = 0 /\ quit' = FALSE /\ todo' = <<>> /\ ended' = {}
  /\ ipCh' = <<>> /\ ipClosed' = FALSE /\ resultClosed' = FALSE
  /\ worker' = [w \in Workers |-> <<"ended">>] /\ result' = <<>>
  /\ probed' = {} /\ found' = {} /\ handled' = {}

---------------------------------------------------------------------------

Debounce == Change \/ debouncedDiscover \/ Expire \/ ForgetTimer \/ Discover
Goroutines ==
  \/ Spawn \/ CloseIps \/ CloseResults
  \/ \E i \in DOMAIN todo : Generate(i) \/ Generated(i)
  \/ \E w \in Workers : Take(w) \/ Quit(w) \/ Dial(w) \/ Send(w)
  \/ Disable \/ Register \/ Return \/ Pass

Next ==
  \/ Debounce \/ AskedToDiscover \/ Cancel \/ Goroutines
  \/ \E w \in Workers : Answer(w)

Spec == Init /\ [][Next]_vars

\* Timers expire, and goroutines run; a dial has a timeout, and EdgeX answers.  There is
\* no fairness for Answer: the code gives up on a silent connection nowhere.
Fairness ==
  /\ WF_vars(debouncedDiscover) /\ WF_vars(Expire) /\ WF_vars(ForgetTimer)
  /\ WF_vars(Discover)
  /\ WF_vars(Goroutines)

FairSpec == Spec /\ Fairness

---------------------------------------------------------------------------
(* Properties *)

\* The addresses of a subnet that can be those of a reader, by the definition of a
\* subnet: all but the first and the last, and the first if there are but one or two.
Hosts(inet) ==
  LET inside == { a \in Addresses : NetId(inet) <= a /\ a <= Broadcast(inet) }
  IN  IF inet[2] <= 1 THEN {}
      ELSE IF Cardinality(inside) <= 2 THEN {NetId(inet)}
      ELSE inside \ {NetId(inet), Broadcast(inet)}

\* A scan that was not cancelled has probed every address of its subnets but those of
\* devices that were up when it began, and no other: no address is lost between the
\* generators and the workers, whoever closes what first (discover.go:146-172).
EveryAddressIsProbed ==
  (scan = "returned" /\ ctx # "over") =>
    probed = { a \in UNION { Hosts(params[i]) : i \in 1 .. Len(params) } : ~deviceMap[a].up }

\* Every reader that has answered is handled, also if the scan is cancelled meanwhile:
\* "we still want to process any in-flight results" (discover.go:181-182).
ResultsAreKept == scan = "returned" => handled = found

\* The generator of a single address does not look at the context (discover.go:314): it
\* waits for room in ipCh.
PointWaits ==
  \E i \in 1 .. Len(params) : ctx = "over" /\ IsPoint(params[i]) /\ Generating(i) /\ todo[i] # <<>>

\* A scan whose generators have all been started ends, and Discover returns, whenever its
\* time is over: workers that stop early leave no generator behind that would wait for
\* room in ipCh, so that both channels are closed (discover.go:164-171, :324-330).  Only
\* two things can keep it, and these keep it for good: a worker in c.Connect with
\* something that neither answers nor hangs up (:394), or the generator of a single
\* address that has not sent it.
StartedScanEnds ==
  (scan = "running" /\ Spawned) ~>
    \/ scan = "returned"
    \/ \E w \in Workers : [](worker[w][1] = "connected")
    \/ []PointWaits

\* The last change of the configuration is followed by a discovery under it, whenever
\* it comes between the steps of the timer's goroutine (driver.go:706-738).
ChangeIsDiscovered == undiscovered ~> ~undiscovered

\* MaxDiscoverDurationSeconds is "the maximum amount of seconds for a discovery to run"
\* (config.go:20): a scan that has such a limit returns.
LimitedScanReturns == (scan = "running" /\ ctx # "unlimited") ~> (scan = "returned")

\* discover.go:393 says of c.Connect that "this will block until `c.Shutdown()` is called
\* in the above go routine", and that routine has a deadline.
ProbesEnd ==
  \A w \in Workers : (worker[w][1] = "connected") ~> (worker[w][1] # "connected")

\* "Check if any devices already exist at that address, and if so disable them"
\* (discover.go:189): a device that loses its address has the one that was probed.
OnlyItsAddressIsTaken ==
  [][\A n \in DOMAIN devices :
       (devices[n].tcp # NoAddress /\ devices'[n].tcp = NoAddress) =>
         devices[n].tcp = result[1].tcp]_vars
=============================================================================

--------------------------- MODULE DiscoveryProofs ---------------------------
(***************************************************************************)
(* Theorems about Discovery: for any subnets, number of workers, readers   *)
(* and moment at which a scan is cancelled, what a worker has found is     *)
(* handled before the scan returns, and nothing else is; and a scan that   *)
(* is not cancelled probes the addresses of its subnets, each of them.     *)
(***************************************************************************)
EXTENDS Discovery, Foundations

\* What has been found is being sent, worked on, or handled.
FoundIsSomewhere ==
  \A info \in found :
    \/ info \in handled
    \/ \E w \in Workers : worker[w] = <<"send", info>>
    \/ result # <<>> /\ result[1] = info

\* What is sent, worked on or handled has been found.
NothingIsInvented ==
  /\ handled \subseteq found
  /\ \A w \in Workers : worker[w][1] = "send" => worker[w][2] \in found
  /\ result # <<>> => result[1] \in found

\* resultCh is closed after the last worker, and the collector waits for that; before
\* a scan there are no workers.
CollectorIsLast ==
  /\ worker = [w \in Workers |-> worker[w]]
  /\ scan \in {"idle", "running", "returned"}
  /\ resultClosed \/ scan = "idle" => AllWorked
  /\ scan = "returned" => resultClosed
  /\ scan # "running" => result = <<>>

\* The inductive invariant.
DiscoveryInv == FoundIsSomewhere /\ NothingIsInvented /\ CollectorIsLast

---------------------------------------------------------------------------

LEMMA DiscoveryInit == Init => DiscoveryInv
  BY DEF Init, NoScan, DiscoveryInv, FoundIsSomewhere, NothingIsInvented, CollectorIsLast, AllWorked

\* What a step has to leave alone that moves no result.
LEMMA PipelineFrame ==
  ASSUME DiscoveryInv,
         UNCHANGED <<found, handled, result, resultClosed, scan>>,
         worker' = [w \in Workers |-> worker'[w]],
         \A w \in Workers : \/ worker'[w] = worker[w]
                            \/ /\ worker[w][1] # "send" /\ worker'[w][1] # "send"
                               /\ worker[w] # <<"ended">>
  PROVE  DiscoveryInv'
  <1>1. FoundIsSomewhere'
    <2> SUFFICES ASSUME NEW info \in found, NEW w \in Workers, worker[w] = <<"send", info>>
                 PROVE  worker'[w] = <<"send", info>>
      BY DEF DiscoveryInv, FoundIsSomewhere
    <2> QED
      OBVIOUS
  <1>2. NothingIsInvented'
    BY DEF DiscoveryInv, NothingIsInvented
  <1>3. CollectorIsLast'
    BY DEF DiscoveryInv, CollectorIsLast, AllWorked
  <1> QED
    BY <1>1, <1>2, <1>3 DEF DiscoveryInv

\* A new scan starts, or the old one is forgotten.
LEMMA FreshScan ==
  ASSUME DiscoveryInv, scan' \in {"idle", "running"}, ~resultClosed', result' = <<>>,
         found' = {}, handled' = {},
         worker' = [w \in Workers |-> worker'[w]],
         \A w \in Workers : worker'[w] \in {<<"take">>, <<"ended">>},
         scan' = "idle" => \A w \in Workers : worker'[w] = <<"ended">>
  PROVE  DiscoveryInv'
  BY DEF DiscoveryInv, FoundIsSomewhere, NothingIsInvented, CollectorIsLast, AllWorked

LEMMA StartKeeps == ASSUME DiscoveryInv, Start PROVE DiscoveryInv'
  <1>1. \A w \in Workers : worker'[w] \in {<<"take">>, <<"ended">>}
    BY DEF Start
  <1>2. worker' = [w \in Workers |-> worker'[w]]
    BY DEF Start
  <1> QED
    BY <1>1, <1>2, FreshScan DEF Start

LEMMA PassKeeps == ASSUME DiscoveryInv, Pass PROVE DiscoveryInv'
  BY FreshScan DEF Pass

\* The steps of a worker.
LEMMA WorkerKeeps ==
  ASSUME DiscoveryInv, NEW w \in Workers,
         Take(w) \/ Quit(w) \/ Dial(w) \/ Answer(w) \/ Send(w)
  PROVE  DiscoveryInv'
  <1> USE DEF Becomes
  <1>0. worker = [v \in Workers |-> worker[v]]
    BY DEF DiscoveryInv, CollectorIsLast
  <1>1. CASE Take(w)
    BY <1>0, <1>1, PipelineFrame DEF Take
  <1>2. CASE Quit(w)
    BY <1>0, <1>2, PipelineFrame DEF Quit
  <1>3. CASE Answer(w)
    <2>1. ~AllWorked
      BY <1>3 DEF Answer, AllWorked
    <2>2. CASE worker' = [worker EXCEPT ![w] = <<"take">>] /\ found' = found
      BY <1>0, <1>3, <2>2, PipelineFrame DEF Answer
    <2>3. ASSUME NEW info, worker' = [worker EXCEPT ![w] = <<"send", info>>],
                 found' = found \cup {info}
          PROVE  DiscoveryInv'
      <3>0. worker'[w] = <<"send", info>> /\ UNCHANGED <<handled, result>>
            /\ \A v \in Workers : worker[v][1] = "send" => worker'[v] = worker[v]
        BY <1>0, <1>3, <2>3 DEF Answer
      <3>1. FoundIsSomewhere'
        <4> SUFFICES ASSUME NEW x \in found,
                            x \notin handled, ~(result # <<>> /\ result[1] = x)
                     PROVE  \E v \in Workers : worker'[v] = <<"send", x>>
          BY <2>3, <3>0 DEF FoundIsSomewhere
        <4>1. PICK v \in Workers : worker[v] = <<"send", x>>
          BY DEF DiscoveryInv, FoundIsSomewhere
        <4> QED
          BY <3>0, <4>1
      <3>2. NothingIsInvented'
        BY <1>0, <1>3, <2>3 DEF Answer, DiscoveryInv, NothingIsInvented
      <3>3. CollectorIsLast'
        BY <1>0, <1>3, <2>1, <2>3 DEF Answer, DiscoveryInv, CollectorIsLast
      <3> QED
        BY <3>1, <3>2, <3>3 DEF DiscoveryInv
    <2> QED
      BY <1>3, <2>2, <2>3 DEF Answer
  <1>4. CASE Send(w)
    <2>1. ~AllWorked
      BY <1>4 DEF Send, AllWorked
    <2>2. worker' = [worker EXCEPT ![w] = <<"take">>] /\ result' = <<worker[w][2]>>
          /\ result = <<>>
      BY <1>4 DEF Send
    <2>3. FoundIsSomewhere'
      <3>0. UNCHANGED <<found, handled>> /\ result' # <<>> /\ result'[1] = worker[w][2]
        BY <1>4, <2>2 DEF Send
      <3> SUFFICES ASSUME NEW x \in found, x \notin handled, x # worker[w][2]
                   PROVE  \E v \in Workers : worker'[v] = <<"send", x>>
        BY <3>0 DEF FoundIsSomewhere
      <3>1. PICK v \in Workers : worker[v] = <<"send", x>>
        BY <2>2 DEF DiscoveryInv, FoundIsSomewhere
      <3>2. v # w
        BY <3>1
      <3> QED
        BY <1>0, <2>2, <3>1, <3>2
    <2>4. NothingIsInvented'
      BY <1>0, <1>4, <2>2 DEF Send, DiscoveryInv, NothingIsInvented
    <2>5. CollectorIsLast'
      BY <1>0, <1>4, <2>1, <2>2 DEF Send, DiscoveryInv, CollectorIsLast
    <2> QED
      BY <2>3, <2>4, <2>5 DEF DiscoveryInv
  <1>5. CASE Dial(w)
    <2>1. PICK what : /\ worker' = [worker EXCEPT ![w] = what] /\ what[1] # "send"
                      /\ worker[w][1] = "probe"
                      /\ UNCHANGED <<found, handled, result, resultClosed, scan>>
      BY <1>5 DEF Dial
    <2>2. worker' = [v \in Workers |-> worker'[v]] /\ worker[w] # <<"ended">>
      BY <1>0, <2>1
    <2>3. \A v \in Workers : v # w => worker'[v] = worker[v]
      BY <1>0, <2>1
    <2>4. worker'[w][1] # "send" /\ worker[w][1] # "send"
      BY <1>0, <2>1
    <2> QED
      BY <2>1, <2>2, <2>3, <2>4, PipelineFrame
  <1> QED
    BY <1>1, <1>2, <1>3, <1>4, <1>5

\* The steps of the collector, and the closing of its channel.
LEMMA CollectorKeeps ==
  ASSUME DiscoveryInv, Disable \/ Register \/ Return \/ CloseResults
  PROVE  DiscoveryInv'
  <1>1. CASE Disable
    <2>1. result # <<>> /\ result' # <<>> /\ result'[1] = result[1]
      BY <1>1 DEF Disable
    <2> QED
      BY <1>1, <2>1 DEF Disable, DiscoveryInv, FoundIsSomewhere, NothingIsInvented,
                        CollectorIsLast, AllWorked
  <1>2. CASE Register
    <2>1. result # <<>> /\ result' = <<>> /\ handled' = handled \cup {result[1]}
      BY <1>2 DEF Register
    <2> QED
      BY <1>2, <2>1 DEF Register, DiscoveryInv, FoundIsSomewhere, NothingIsInvented,
                        CollectorIsLast, AllWorked
  <1>3. CASE Return
    BY <1>3 DEF Return, pipeVars, DiscoveryInv, FoundIsSomewhere, NothingIsInvented,
                CollectorIsLast, AllWorked
  <1>4. CASE CloseResults
    BY <1>4 DEF CloseResults, DiscoveryInv, FoundIsSomewhere, NothingIsInvented,
                CollectorIsLast, AllWorked
  <1> QED
    BY <1>1, <1>2, <1>3, <1>4

LEMMA DiscoveryStep == DiscoveryInv /\ [Next]_vars => DiscoveryInv'
  <1> SUFFICES ASSUME DiscoveryInv, [Next]_vars PROVE DiscoveryInv'
    OBVIOUS
  <1>0. worker = [w \in Workers |-> worker[w]]
    BY DEF DiscoveryInv, CollectorIsLast
  <1>1. ASSUME UNCHANGED <<scan, found, handled, result, resultClosed, worker>>
        PROVE  DiscoveryInv'
    BY <1>0, <1>1, PipelineFrame
  <1> USE DEF scanVars, pipeVars, vars
  <1>2. CASE Change \/ debouncedDiscover \/ Expire \/ ForgetTimer
    BY <1>1, <1>2 DEF Change, debouncedDiscover, Expire, ForgetTimer
  <1>3. CASE Discover
    BY <1>1, <1>3, StartKeeps DEF Discover
  <1>4. CASE AskedToDiscover
    BY <1>4, StartKeeps DEF AskedToDiscover
  <1>5. CASE Cancel
    BY <1>1, <1>5 DEF Cancel
  <1>6. CASE Spawn \/ CloseIps
    BY <1>1, <1>6 DEF Spawn, CloseIps
  <1>7. CASE \E i \in DOMAIN todo : Generate(i) \/ Generated(i)
    BY <1>1, <1>7 DEF Generate, Generated
  <1>8. CASE \E w \in Workers : Take(w) \/ Quit(w) \/ Dial(w) \/ Answer(w) \/ Send(w)
    BY <1>8, WorkerKeeps
  <1>9. CASE Disable \/ Register \/ Return \/ CloseResults
    BY <1>9, CollectorKeeps
  <1>10. CASE Pass
    BY <1>10, PassKeeps
  <1>11. CASE UNCHANGED vars
    BY <1>1, <1>11
  <1> QED
    BY <1>2, <1>3, <1>4, <1>5, <1>6, <1>7, <1>8, <1>9, <1>10, <1>11
       DEF Next, Debounce, Goroutines

\* A reader that has answered is handled before its scan returns, also when the scan is
\* cancelled meanwhile, whatever the number of workers and readers (discover.go:181-182).
THEOREM FoundIsHandled == Spec => []ResultsAreKept
  <1>1. Spec => []DiscoveryInv
    BY DiscoveryInit, DiscoveryStep, PTL DEF Spec
  <1>2. DiscoveryInv => ResultsAreKept
    <2> SUFFICES ASSUME DiscoveryInv, scan = "returned" PROVE handled = found
      BY DEF ResultsAreKept
    <2>1. result = <<>> /\ \A w \in Workers : worker[w] = <<"ended">>
      BY DEF DiscoveryInv, CollectorIsLast, AllWorked
    <2>2. \A w \in Workers : worker[w][1] # "send"
      BY <2>1
    <2>3. \A info \in found : \A w \in Workers : worker[w] # <<"send", info>>
      BY <2>2
    <2>4. found \subseteq handled
      <3> SUFFICES ASSUME NEW info \in found PROVE info \in handled
        OBVIOUS
      <3>1. ~(result # <<>> /\ result[1] = info)
        BY <2>1
      <3> QED
        BY <2>3, <3>1 DEF DiscoveryInv, FoundIsSomewhere
    <2>5. handled \subseteq found
      BY DEF DiscoveryInv, NothingIsInvented
    <2> QED
      BY <2>4, <2>5
  <1> QED
    BY <1>1, <1>2, PTL

---------------------------------------------------------------------------
(* Where the addresses of a scan are *)

Members(s) == { s[j] : j \in 1 .. Len(s) }

\* The addresses of all the subnets of a configuration.
Targets(subnets) == UNION { Hosts(subnets[i]) : i \in 1 .. Len(subnets) }

Probing(a) == \E w \in Workers : worker[w] = <<"probe", a>>
ToSend(a) == \E i \in 1 .. Len(params) : a \in Members(todo[i])

\* An address that is to be probed has been, or is at a worker, in ipCh or at a generator.
NoneIsLost ==
  ctx # "over" =>
    \A a \in Targets(params) :
      deviceMap[a].up \/ a \in probed \/ Probing(a) \/ a \in Members(ipCh) \/ ToSend(a)

\* Only such addresses are.
NoneIsExtra ==
  /\ \A a : a \in Members(ipCh) \/ ToSend(a) => a \in Targets(params)
  /\ \A a : a \in probed \/ Probing(a) => a \in Targets(params) /\ ~deviceMap[a].up

\* While the context is not over, the generators return when they have sent their
\* addresses, and the workers when the channel is closed and empty.
NobodyLeavesEarly ==
  ctx # "over" =>
    /\ \A i \in ended : todo[i] = <<>>
    /\ \A w \in Workers :
         (w <= asyncLimit(params) /\ worker[w] = <<"ended">>) => ipClosed /\ ipCh = <<>>

\* The channels are closed in their order.
ClosedInOrder ==
  /\ ended \subseteq 1 .. Len(params)
  /\ ipClosed => AllGenerated
  /\ resultClosed => ipClosed /\ AllWorked

IsProbe(what) == \E a \in Addresses : what = <<"probe", a>>

ScanTypes ==
  /\ params \in Configs
  /\ todo \in [1 .. Len(params) -> Seq(Addresses)] /\ ipCh \in Seq(Addresses)
  /\ \A w \in Workers :
       \/ worker[w] \in {<<"take">>, <<"ended">>}
       \/ worker[w][1] \in {"connected", "send"}
       \/ IsProbe(worker[w])

RunInv == ScanTypes /\ NoneIsLost /\ NoneIsExtra /\ NobodyLeavesEarly /\ ClosedInOrder

\* The inductive invariant.
ProbingInv ==
  /\ config \in Configs
  /\ scan = "running" => RunInv
  /\ EveryAddressIsProbed

---------------------------------------------------------------------------
(* Sequences of addresses *)

LEMMA MembersAppend ==
  ASSUME NEW S, NEW s \in Seq(S), NEW x \in S
  PROVE  Append(s, x) \in Seq(S) /\ Members(Append(s, x)) = Members(s) \cup {x}
  <1>1. /\ Append(s, x) \in Seq(S) /\ Len(Append(s, x)) = Len(s) + 1 /\ Len(s) \in Nat
        /\ Append(s, x)[Len(s) + 1] = x
        /\ \A j \in 1 .. Len(s) : Append(s, x)[j] = s[j]
    OBVIOUS
  <1> DEFINE t == Append(s, x)
  <1> HIDE DEF t
  <1>2. 1 .. Len(s) + 1 = (1 .. Len(s)) \cup {Len(s) + 1}
    BY <1>1
  <1> QED
    BY <1>1, <1>2 DEF Members, t

LEMMA MembersTail ==
  ASSUME NEW S, NEW s \in Seq(S), s # <<>>
  PROVE  /\ Head(s) \in S /\ Tail(s) \in Seq(S)
         /\ Members(s) = Members(Tail(s)) \cup {Head(s)}
  <1>1. /\ Head(s) \in S /\ Tail(s) \in Seq(S) /\ Len(s) \in Nat \ {0}
        /\ Len(Tail(s)) = Len(s) - 1 /\ Head(s) = s[1]
        /\ \A j \in 1 .. Len(s) - 1 : Tail(s)[j] = s[j + 1]
    OBVIOUS
  <1> DEFINE t == Tail(s)
             h == Head(s)
  <1> HIDE DEF t, h
  <1>2. \A x \in Members(s) : x \in Members(t) \cup {h}
    <2> SUFFICES ASSUME NEW j \in 1 .. Len(s) PROVE s[j] \in Members(t) \cup {h}
      BY DEF Members
    <2>1. j = 1 \/ (j - 1 \in 1 .. Len(t) /\ t[j - 1] = s[j])
      BY <1>1 DEF t
    <2> QED
      BY <1>1, <2>1 DEF Members, t, h
  <1>3. \A x \in Members(t) : x \in Members(s)
    <2> SUFFICES ASSUME NEW j \in 1 .. Len(t) PROVE t[j] \in Members(s)
      BY DEF Members
    <2>1. j + 1 \in 1 .. Len(s) /\ t[j] = s[j + 1]
      BY <1>1 DEF t
    <2> QED
      BY <2>1 DEF Members
  <1>4. h \in Members(s)
    <2>1. 1 \in 1 .. Len(s) /\ h = s[1]
      BY <1>1 DEF h
    <2> QED
      BY <2>1 DEF Members
  <1> QED
    BY <1>1, <1>2, <1>3, <1>4 DEF t, h

LEMMA NoMembers == Members(<<>>) = {}
  BY DEF Members

---------------------------------------------------------------------------
(* The addresses of a subnet *)

\* The network's address is a multiple of its size, so that all of it is in range.
LEMMA SubnetIsInside ==
  ASSUME NEW inet \in Addresses \X (0 .. Width)
  PROVE  LET m == 2^(Width - inet[2])
         IN  /\ m \in Nat \ {0} /\ NetId(inet) \in Nat
             /\ NetId(inet) + m <= 2^Width
             /\ Broadcast(inet) = NetId(inet) + m - 1
  <1> DEFINE ip == inet[1]
             sz == inet[2]
             m == 2^(Width - sz)
             k == 2^sz
             all == 2^Width
             q == ip \div m
             r == ip % m
  <1>1. sz \in Nat /\ Width - sz \in Nat /\ Width \in Nat /\ (Width - sz) + sz = Width
    BY DiscoveryAssumption
  <1>2. m \in Nat \ {0} /\ k \in Nat \ {0} /\ all \in Nat \ {0}
    BY <1>1, PowersArePositive
  <1>3. all = m * k
    BY <1>1, PowersAdd
  <1>4. ip \in Nat /\ ip < all
    <2>1. ip \in 0 .. all - 1
      BY DEF Addresses
    <2> HIDE DEF ip, all
    <2> QED
      BY <1>2, <2>1
  <1>5. NetId(inet) = ip - r /\ Broadcast(inet) = NetId(inet) + m - 1
    BY DEF NetId, Broadcast
  <1> HIDE DEF ip, sz, m, k, all
  <1>6. q \in Nat /\ r \in 0 .. m - 1 /\ ip = m * q + r
    BY <1>2, <1>4
  <1> HIDE DEF q, r
  <1>7. m * q \in Nat /\ m * q < m * k
    BY <1>2, <1>3, <1>4, <1>6
  <1>8. q + 1 <= k
    <2>1. CASE q >= k
      <3>1. m * q >= m * k
        BY <1>2, <1>6, <2>1
      <3> QED
        BY <1>2, <1>7, <3>1
    <2> QED
      BY <1>2, <1>6, <2>1
  <1>9. m * (q + 1) <= m * k /\ m * (q + 1) = m * q + m
    BY <1>2, <1>6, <1>8
  <1>10. NetId(inet) = m * q
    BY <1>2, <1>5, <1>6, <1>7
  <1>11. NetId(inet) + m <= all
    BY <1>2, <1>3, <1>7, <1>9, <1>10
  <1> QED
    BY <1>2, <1>5, <1>7, <1>10, <1>11 DEF m, sz, all

\* ipGenerator sends the addresses of the subnet that can be those of a reader.
LEMMA GeneratedAreHosts ==
  ASSUME NEW inet \in Addresses \X (0 .. Width)
  PROVE  generated(inet) \in Seq(Addresses) /\ Members(generated(inet)) = Hosts(inet)
  <1> DEFINE id == NetId(inet)
             m == 2^(Width - inet[2])
             inside == { a \in Addresses : id <= a /\ a <= Broadcast(inet) }
  <1>1. m \in Nat \ {0} /\ id \in Nat /\ id + m <= 2^Width /\ Broadcast(inet) = id + m - 1
    BY SubnetIsInside
  <1>2. Addresses = 0 .. 2^Width - 1 /\ 2^Width \in Nat
    BY DiscoveryAssumption, PowersArePositive DEF Addresses
  <1>3. inside = id .. id + m - 1
    <2> HIDE DEF id, m
    <2> QED
      BY <1>1, <1>2
  <1>4. Cardinality(inside) = m
    <2> DEFINE last == id + m - 1
    <2>1. id \in Int /\ last \in Int /\ last = id + m - 1
      BY <1>1
    <2> HIDE DEF id, m, inside, last
    <2>2. Cardinality(id .. last) = IF id > last THEN 0 ELSE last - id + 1
      BY <2>1, FS_Interval
    <2>3. inside = id .. last
      BY <1>3, <2>1
    <2> QED
      BY <1>1, <2>1, <2>2, <2>3
  <1>5. Hosts(inet) = IF inet[2] <= 1 THEN {}
                      ELSE IF Cardinality(inside) <= 2 THEN {id} ELSE inside \ {id, Broadcast(inet)}
    BY DEF Hosts
  <1>6. inet[2] \in 0 .. Width /\ Width \in Nat
    BY DiscoveryAssumption
  <1>7. generated(inet) = IF inet[2] <= 1 THEN <<>>
                          ELSE IF inet[2] >= Width - 1 THEN <<id>>
                          ELSE FromTo(id + 1, Broadcast(inet) - 1)
    BY DEF generated
  <1>8. CASE inet[2] <= 1
    BY <1>5, <1>7, <1>8, NoMembers
  <1>9. CASE ~(inet[2] <= 1) /\ inet[2] >= Width - 1
    <2>1. Width - inet[2] = 0 \/ Width - inet[2] = 1
      BY <1>6, <1>9
    <2>2. 2^0 = 1 /\ 2^1 = 2
      BY SMT
    <2>3. m <= 2
      <3>1. CASE Width - inet[2] = 0
        <4>1. m = 2^0
          BY <3>1
        <4> QED
          BY <2>2, <4>1
      <3>2. CASE Width - inet[2] = 1
        <4>1. m = 2^1
          BY <3>2
        <4> QED
          BY <2>2, <4>1
      <3> QED
        BY <2>1, <3>1, <3>2
    <2>4. Hosts(inet) = {id} /\ generated(inet) = <<id>>
      BY <1>4, <1>5, <1>7, <1>9, <2>3
    <2>5. id \in Addresses
      <3> HIDE DEF id, m
      <3> QED
        BY <1>1, <1>2
    <2> HIDE DEF id
    <2>6. <<id>> \in Seq(Addresses) /\ Members(<<id>>) = {id}
      BY <2>5 DEF Members
    <2> QED
      BY <2>4, <2>6
  <1>10. CASE ~(inet[2] <= 1) /\ ~(inet[2] >= Width - 1)
    <2>1. m > 2
      <3> DEFINE n == Width - inet[2] - 2
      <3>1. n \in Nat /\ Width - inet[2] = (n + 1) + 1
        BY <1>6, <1>10
      <3>2. 2^((n + 1) + 1) = 2 * 2^(n + 1) /\ 2^(n + 1) = 2 * 2^n /\ 2^n \in Nat \ {0}
        BY <3>1, PowersDouble, PowersArePositive
      <3>3. m = 2^((n + 1) + 1)
        BY <3>1
      <3> HIDE DEF m, n
      <3> QED
        BY <3>2, <3>3
    <2>2. Hosts(inet) = inside \ {id, Broadcast(inet)}
          /\ generated(inet) = FromTo(id + 1, Broadcast(inet) - 1)
      <3> HIDE DEF id, m, inside
      <3> QED
        BY <1>1, <1>4, <1>5, <1>7, <1>10, <2>1
    <2> HIDE DEF id, m
    <2>3. inside \ {id, Broadcast(inet)} = id + 1 .. id + m - 2
      BY <1>1, <1>3, <2>1
    <2>4. FromTo(id + 1, Broadcast(inet) - 1) = [i \in 1 .. m - 2 |-> id + i]
      <3>1. Broadcast(inet) - 1 >= id + 1 /\ Broadcast(inet) - 1 - (id + 1) + 1 = m - 2
        BY <1>1, <2>1
      <3>2. \A i \in 1 .. m - 2 : id + 1 + i - 1 = id + i
        BY <1>1
      <3> QED
        BY <3>1, <3>2 DEF FromTo
    <2> DEFINE f == [i \in 1 .. m - 2 |-> id + i]
    <2>5. f \in Seq(Addresses) /\ Len(f) = m - 2
      <3>1. \A i \in 1 .. m - 2 : id + i \in Addresses
        BY <1>1, <1>2, <2>1
      <3>2. m - 2 \in Nat
        BY <1>1, <2>1
      <3> HIDE DEF Members
      <3> QED
        BY <3>1, <3>2
    <2>6. Members(f) = id + 1 .. id + m - 2
      <3>1. Members(f) = { id + i : i \in 1 .. m - 2 }
        BY <2>5 DEF Members
      <3>2. ASSUME NEW a \in id + 1 .. id + m - 2
            PROVE  a - id \in 1 .. m - 2 /\ a = id + (a - id)
        BY <1>1
      <3>3. \A i \in 1 .. m - 2 : id + i \in id + 1 .. id + m - 2
        BY <1>1
      <3> QED
        BY <3>1, <3>2, <3>3
    <2> QED
      BY <2>2, <2>3, <2>4, <2>5, <2>6
  <1> QED
    BY <1>8, <1>9, <1>10

---------------------------------------------------------------------------
(* The workers of a scan *)

LEMMA SubnetsAreTyped ==
  ASSUME NEW subnets \in Configs
  PROVE  /\ subnets \in Seq(Addresses \X (0 .. Width)) /\ Len(subnets) \in Nat
         /\ \A i \in 1 .. Len(subnets) : subnets[i] \in Addresses \X (0 .. Width)
  BY DiscoveryAssumption

\* A subnet has at least one place.
LEMMA SubnetHasPlaces ==
  ASSUME NEW sz \in 0 .. Width
  PROVE  computeNetSz(sz) \in Nat \ {0}
  <1>1. CASE sz >= Width - 1
    BY <1>1 DEF computeNetSz
  <1>2. CASE ~(sz >= Width - 1)
    <2> DEFINE n == Width - sz - 2
    <2>1. n \in Nat /\ Width - sz = (n + 1) + 1
      BY <1>2, DiscoveryAssumption
    <2>2. 2^((n + 1) + 1) = 2 * 2^(n + 1) /\ 2^(n + 1) = 2 * 2^n /\ 2^n \in Nat \ {0}
      BY <2>1, PowersDouble, PowersArePositive
    <2>3. computeNetSz(sz) = 2^((n + 1) + 1) - 2
      BY <1>2, <2>1 DEF computeNetSz
    <2> HIDE DEF n
    <2> QED
      BY <2>2, <2>3
  <1> QED
    BY <1>1, <1>2

\* A scan of any subnet has a worker.
LEMMA SomebodyWorks ==
  ASSUME NEW subnets \in Configs, NEW i \in 1 .. Len(subnets)
  PROVE  1 \in Workers /\ 1 <= asyncLimit(subnets)
  <1> DEFINE places(j) == {j} \X (1 .. computeNetSz(subnets[j][2]))
             all == { places(j) : j \in 1 .. Len(subnets) }
  <1>1. Len(subnets) \in Nat /\ \A j \in 1 .. Len(subnets) : subnets[j][2] \in 0 .. Width
    BY SubnetsAreTyped
  <1>2. ASSUME NEW j \in 1 .. Len(subnets)
        PROVE  IsFiniteSet(places(j)) /\ places(j) # {}
    <2> DEFINE n == computeNetSz(subnets[j][2])
    <2>1. n \in Nat \ {0}
      BY <1>1, SubnetHasPlaces
    <2> HIDE DEF n
    <2>2. IsFiniteSet(1 .. n) /\ IsFiniteSet({j})
      <3>1. n \in Int /\ 1 \in Int
        BY <2>1
      <3> QED
        BY <3>1, FS_Interval, FS_Singleton
    <2>3. IsFiniteSet({j} \X (1 .. n))
      BY <2>2, FS_Product
    <2>4. <<j, 1>> \in {j} \X (1 .. n)
      BY <2>1
    <2> QED
      BY <2>3, <2>4 DEF n
  <1>3. IsFiniteSet(all)
    <2>1. IsFiniteSet(1 .. Len(subnets))
      BY <1>1, FS_Interval
    <2> DEFINE f == [j \in 1 .. Len(subnets) |-> places(j)]
    <2>2. f \in Surjection(1 .. Len(subnets), all)
      <3>1. f \in [1 .. Len(subnets) -> all] /\ \A t \in all : \E j \in 1 .. Len(subnets) : f[j] = t
        OBVIOUS
      <3> HIDE DEF f, all
      <3> QED
        BY <3>1, Fun_IsSurj
    <2> QED
      BY <2>1, <2>2, FS_Surjection
  <1>4. IsFiniteSet(UNION all)
    <2>1. \A t \in all : IsFiniteSet(t)
      BY <1>2
    <2> HIDE DEF all
    <2> QED
      BY <1>3, <2>1, FS_UNION
  <1>5. UNION all # {}
    <2>1. places(i) \in all /\ places(i) # {}
      BY <1>2
    <2> HIDE DEF all, places
    <2> QED
      BY <2>1
  <1>6. estimatedProbes(subnets) = Cardinality(UNION all)
    BY DEF estimatedProbes
  <1>7. estimatedProbes(subnets) \in Nat \ {0}
    <2> HIDE DEF all
    <2> QED
      BY <1>4, <1>5, <1>6, FS_CardinalityType, FS_EmptySet
  <1> QED
    BY <1>7, DiscoveryAssumption DEF asyncLimit, Workers

---------------------------------------------------------------------------
(* The steps of a scan *)

LEMMA ProbingInit == Init => ProbingInv
  BY DEF Init, ProbingInv, EveryAddressIsProbed

\* What a step has to leave alone that moves no address.
LEMMA ProbingFrame ==
  ASSUME ProbingInv, config' \in Configs,
         UNCHANGED <<scan, params, ctx, deviceMap, todo, ended, ipCh, ipClosed, resultClosed,
                     worker, probed>>
  PROVE  ProbingInv'
  <1>1. EveryAddressIsProbed'
    BY DEF ProbingInv, EveryAddressIsProbed
  <1>2. \A a : (Probing(a)' <=> Probing(a)) /\ (ToSend(a)' <=> ToSend(a))
    BY DEF Probing, ToSend
  <1>3. ASSUME RunInv PROVE RunInv'
    <2>1. ScanTypes'
      BY <1>3 DEF RunInv, ScanTypes
    <2>2. NoneIsLost'
      BY <1>2, <1>3 DEF RunInv, NoneIsLost
    <2>3. NoneIsExtra'
      BY <1>2, <1>3 DEF RunInv, NoneIsExtra
    <2>4. NobodyLeavesEarly' /\ ClosedInOrder'
      BY <1>3 DEF RunInv, NobodyLeavesEarly, ClosedInOrder, AllGenerated, AllWorked
    <2> QED
      BY <2>1, <2>2, <2>3, <2>4 DEF RunInv
  <1> QED
    BY <1>1, <1>3 DEF ProbingInv

\* A scan that runs has nothing to show yet.
LEMMA StillRuns ==
  ASSUME config' \in Configs, scan' = "running", RunInv'
  PROVE  ProbingInv'
  BY DEF ProbingInv, EveryAddressIsProbed

LEMMA StartProbes ==
  ASSUME config \in Configs, Start
  PROVE  RunInv'
  <1>1. /\ params' = config /\ probed' = {} /\ ipCh' = <<>> /\ ended' = {}
        /\ ~ipClosed' /\ ~resultClosed'
        /\ todo' = [i \in 1 .. Len(config) |-> generated(config[i])]
        /\ worker' = [w \in Workers |->
                        IF w <= asyncLimit(config) THEN <<"take">> ELSE <<"ended">>]
    BY DEF Start
  <1>2. \A i \in 1 .. Len(config) :
          /\ generated(config[i]) \in Seq(Addresses)
          /\ Members(generated(config[i])) = Hosts(config[i])
    BY SubnetsAreTyped, GeneratedAreHosts
  <1>3. \A w \in Workers : /\ worker'[w] \in {<<"take">>, <<"ended">>}
                           /\ worker'[w][1] # "probe"
                           /\ w <= asyncLimit(config) => worker'[w] # <<"ended">>
    BY <1>1
  <1>4. \A i \in 1 .. Len(config) : todo'[i] = generated(config[i])
    BY <1>1
  <1>5. \A a : ~Probing(a)'
    BY <1>3 DEF Probing
  <1>6. \A a : ToSend(a)' <=> a \in Targets(params')
    BY <1>1, <1>2, <1>4 DEF ToSend, Targets
  <1>7. ScanTypes'
    BY <1>1, <1>2, <1>3 DEF ScanTypes
  <1>8. NoneIsLost' /\ NoneIsExtra'
    BY <1>1, <1>5, <1>6, NoMembers DEF NoneIsLost, NoneIsExtra
  <1>9. NobodyLeavesEarly'
    BY <1>1, <1>3 DEF NobodyLeavesEarly
  <1>10. ClosedInOrder'
    BY <1>1 DEF ClosedInOrder
  <1> QED
    BY <1>7, <1>8, <1>9, <1>10 DEF RunInv

\* A generator sends an address.
LEMMA GenerateProbes ==
  ASSUME RunInv, NEW i \in DOMAIN todo, Generate(i)
  PROVE  RunInv'
  <1> DEFINE h == Head(todo[i])
  <1>1. /\ i \notin ended /\ todo[i] # <<>>
        /\ ipCh' = Append(ipCh, h) /\ todo' = [todo EXCEPT ![i] = Tail(@)]
        /\ UNCHANGED <<params, ctx, deviceMap, ended, ipClosed, resultClosed, worker, probed>>
    BY DEF Generate, Generating
  <1>2. /\ todo \in [1 .. Len(params) -> Seq(Addresses)] /\ ipCh \in Seq(Addresses)
        /\ i \in 1 .. Len(params)
    BY DEF RunInv, ScanTypes
  <1>3. /\ h \in Addresses /\ Tail(todo[i]) \in Seq(Addresses)
        /\ Members(todo[i]) = Members(Tail(todo[i])) \cup {h}
    BY <1>1, <1>2, MembersTail
  <1>4. ipCh' \in Seq(Addresses) /\ Members(ipCh') = Members(ipCh) \cup {h}
    BY <1>1, <1>2, <1>3, MembersAppend
  <1> HIDE DEF h
  <1>5. /\ todo' \in [1 .. Len(params) -> Seq(Addresses)]
        /\ Members(todo[i]) = Members(todo'[i]) \cup {h}
        /\ \A j \in 1 .. Len(params) : j # i => todo'[j] = todo[j]
    BY <1>1, <1>2, <1>3
  <1>6. \A a : ToSend(a) \/ a \in Members(ipCh) <=> ToSend(a)' \/ a \in Members(ipCh')
    BY <1>1, <1>2, <1>4, <1>5 DEF ToSend
  <1>7. \A a : Probing(a)' <=> Probing(a)
    BY <1>1 DEF Probing
  <1>8. ScanTypes'
    BY <1>1, <1>4, <1>5 DEF RunInv, ScanTypes
  <1>9. NoneIsLost'
    BY <1>1, <1>6, <1>7 DEF RunInv, NoneIsLost
  <1>10. NoneIsExtra'
    BY <1>1, <1>6, <1>7 DEF RunInv, NoneIsExtra
  <1>11. ~ipClosed
    BY <1>1, <1>2 DEF RunInv, ClosedInOrder, AllGenerated
  <1>12. NobodyLeavesEarly'
    <2>1. ctx # "over" => \A j \in ended : j # i /\ j \in 1 .. Len(params)
      BY <1>1 DEF RunInv, ClosedInOrder
    <2> QED
      BY <1>1, <1>5, <1>11, <2>1 DEF RunInv, NobodyLeavesEarly
  <1>13. ClosedInOrder'
    BY <1>1, <1>11 DEF RunInv, ClosedInOrder, AllWorked
  <1> QED
    BY <1>8, <1>9, <1>10, <1>12, <1>13 DEF RunInv

\* A generator returns.
LEMMA GeneratedProbes ==
  ASSUME RunInv, NEW i \in DOMAIN todo, Generated(i)
  PROVE  RunInv'
  <1>1. /\ i \notin ended /\ ended' = ended \cup {i}
        /\ ctx # "over" => todo[i] = <<>>
        /\ UNCHANGED <<params, ctx, deviceMap, todo, ipCh, ipClosed, resultClosed, worker, probed>>
    BY DEF Generated, Generating
  <1>2. i \in 1 .. Len(params)
    BY DEF RunInv, ScanTypes
  <1>3. ScanTypes' /\ NoneIsLost' /\ NoneIsExtra'
    BY <1>1 DEF RunInv, ScanTypes, NoneIsLost, NoneIsExtra, Probing, ToSend
  <1>4. NobodyLeavesEarly'
    BY <1>1 DEF RunInv, NobodyLeavesEarly
  <1>5. ~ipClosed
    BY <1>1, <1>2 DEF RunInv, ClosedInOrder, AllGenerated
  <1>6. ClosedInOrder'
    BY <1>1, <1>2, <1>5 DEF RunInv, ClosedInOrder, AllGenerated, AllWorked
  <1> QED
    BY <1>3, <1>4, <1>6 DEF RunInv

\* The channels are closed.
LEMMA ClosingProbes ==
  ASSUME RunInv, CloseIps \/ CloseResults
  PROVE  RunInv'
  <1>1. /\ ipClosed' => ipClosed \/ AllGenerated
        /\ resultClosed' => resultClosed \/ (ipClosed /\ AllWorked)
        /\ ipClosed => ipClosed'
        /\ UNCHANGED <<params, ctx, deviceMap, todo, ended, ipCh, worker, probed>>
    BY DEF CloseIps, CloseResults
  <1>2. ScanTypes' /\ NoneIsLost' /\ NoneIsExtra'
    BY <1>1 DEF RunInv, ScanTypes, NoneIsLost, NoneIsExtra, Probing, ToSend
  <1>3. NobodyLeavesEarly'
    BY <1>1 DEF RunInv, NobodyLeavesEarly
  <1>4. ClosedInOrder'
    BY <1>1 DEF RunInv, ClosedInOrder, AllGenerated, AllWorked
  <1> QED
    BY <1>2, <1>3, <1>4 DEF RunInv

\* The steps of a worker.
LEMMA TakeProbes ==
  ASSUME RunInv, worker = [w \in Workers |-> worker[w]], NEW w \in Workers, Take(w)
  PROVE  RunInv'
  <1>1. PICK h \in Addresses :
          /\ worker[w] = <<"take">> /\ ipCh # <<>> /\ ipCh' = Tail(ipCh) /\ h = Head(ipCh)
          /\ UNCHANGED <<params, ctx, deviceMap, todo, ended, ipClosed, resultClosed, probed>>
          /\ \/ deviceMap[h].up /\ worker' = worker
             \/ ~deviceMap[h].up /\ worker' = [worker EXCEPT ![w] = <<"probe", h>>]
    <2>1. ipCh # <<>> /\ Head(ipCh) \in Addresses
      BY MembersTail DEF Take, RunInv, ScanTypes
    <2> QED
      BY <2>1 DEF Take, Becomes
  <1>2. ipCh' \in Seq(Addresses) /\ Members(ipCh) = Members(ipCh') \cup {h}
    BY <1>1, MembersTail DEF RunInv, ScanTypes
  <1>3. h \in Targets(params)
    BY <1>2 DEF RunInv, NoneIsExtra
  <1>4. \A a : ToSend(a)' <=> ToSend(a)
    BY <1>1 DEF ToSend
  <1>5. ~AllWorked
    BY <1>1 DEF AllWorked
  <1>6. /\ \A a : Probing(a) => Probing(a)'
        /\ \A a : Probing(a)' => Probing(a) \/ (a = h /\ ~deviceMap[h].up)
        /\ deviceMap[h].up \/ Probing(h)'
        /\ \A v \in Workers : worker'[v] = <<"ended">> => worker[v] = <<"ended">>
        /\ \A v \in Workers : worker'[v] = worker[v] \/ worker'[v] = <<"probe", h>>
    <2>1. CASE worker' = worker /\ deviceMap[h].up
      BY <2>1 DEF Probing
    <2>2. CASE worker' = [worker EXCEPT ![w] = <<"probe", h>>] /\ ~deviceMap[h].up
      <3>1. worker'[w] = <<"probe", h>> /\ \A v \in Workers : v # w => worker'[v] = worker[v]
        BY <2>2
      <3>2. \A a : worker[w] # <<"probe", a>>
        BY <1>1
      <3>3. ASSUME NEW a, Probing(a) PROVE Probing(a)'
        <4>1. PICK v \in Workers : worker[v] = <<"probe", a>>
          BY <3>3 DEF Probing
        <4> QED
          BY <3>1, <3>2, <4>1 DEF Probing
      <3>4. ASSUME NEW a, Probing(a)', a # h PROVE Probing(a)
        <4>1. PICK v \in Workers : worker'[v] = <<"probe", a>>
          BY <3>4 DEF Probing
        <4>2. v # w
          BY <3>1, <3>4, <4>1
        <4> QED
          BY <3>1, <4>1, <4>2 DEF Probing
      <3>5. Probing(h)'
        BY <3>1 DEF Probing
      <3>6. \A v \in Workers : worker'[v] = worker[v] \/ worker'[v] = <<"probe", h>>
        BY <3>1
      <3> QED
        BY <2>2, <3>3, <3>4, <3>5, <3>6
    <2> QED
      BY <1>1, <2>1, <2>2
  <1>7. ScanTypes'
    BY <1>1, <1>2, <1>6 DEF RunInv, ScanTypes, IsProbe
  <1>8. NoneIsLost'
    BY <1>1, <1>2, <1>4, <1>6 DEF RunInv, NoneIsLost
  <1>9. NoneIsExtra'
    BY <1>1, <1>2, <1>3, <1>4, <1>6 DEF RunInv, NoneIsExtra
  <1>10. NobodyLeavesEarly'
    BY <1>1, <1>6 DEF RunInv, NobodyLeavesEarly
  <1>11. ClosedInOrder'
    BY <1>1, <1>5 DEF RunInv, ClosedInOrder, AllGenerated
  <1> QED
    BY <1>7, <1>8, <1>9, <1>10, <1>11 DEF RunInv

LEMMA QuitProbes ==
  ASSUME RunInv, worker = [w \in Workers |-> worker[w]], NEW w \in Workers, Quit(w)
  PROVE  RunInv'
  <1>1. /\ ctx # "over" => worker[w] = <<"take">> /\ ipClosed /\ ipCh = <<>>
        /\ worker' = [worker EXCEPT ![w] = <<"ended">>]
        /\ worker[w] # <<"ended">>
        /\ UNCHANGED <<params, ctx, deviceMap, todo, ended, ipCh, ipClosed, resultClosed, probed>>
    BY DEF Quit, Becomes
  <1>2. worker'[w] = <<"ended">> /\ \A v \in Workers : v # w => worker'[v] = worker[v]
    BY <1>1
  <1>3. ~AllWorked
    BY <1>1 DEF AllWorked
  <1>4. \A a : (Probing(a)' => Probing(a)) /\ (ctx # "over" => (Probing(a) => Probing(a)'))
    <2>1. ASSUME NEW a, Probing(a)' PROVE Probing(a)
      <3>1. PICK v \in Workers : worker'[v] = <<"probe", a>>
        BY <2>1 DEF Probing
      <3>2. v # w
        BY <1>2, <3>1
      <3> QED
        BY <1>2, <3>1, <3>2 DEF Probing
    <2>2. ASSUME NEW a, Probing(a), ctx # "over" PROVE Probing(a)'
      <3>1. PICK v \in Workers : worker[v] = <<"probe", a>>
        BY <2>2 DEF Probing
      <3>2. v # w
        BY <1>1, <2>2, <3>1
      <3> QED
        BY <1>2, <3>1, <3>2 DEF Probing
    <2> QED
      BY <2>1, <2>2
  <1>5. \A a : ToSend(a)' <=> ToSend(a)
    BY <1>1 DEF ToSend
  <1>6. ScanTypes'
    BY <1>1, <1>2 DEF RunInv, ScanTypes
  <1>7. NoneIsLost' /\ NoneIsExtra'
    BY <1>1, <1>4, <1>5 DEF RunInv, NoneIsLost, NoneIsExtra
  <1>8. NobodyLeavesEarly'
    BY <1>1, <1>2 DEF RunInv, NobodyLeavesEarly
  <1>9. ClosedInOrder'
    BY <1>1, <1>3 DEF RunInv, ClosedInOrder, AllGenerated
  <1> QED
    BY <1>6, <1>7, <1>8, <1>9 DEF RunInv

LEMMA DialProbes ==
  ASSUME RunInv, worker = [w \in Workers |-> worker[w]], NEW w \in Workers, Dial(w)
  PROVE  RunInv'
  <1>1. PICK p \in Addresses : worker[w] = <<"probe", p>>
    BY DEF RunInv, ScanTypes, IsProbe, Dial
  <1>2. /\ probed' = probed \cup {p}
        /\ UNCHANGED <<params, ctx, deviceMap, todo, ended, ipCh, ipClosed, resultClosed>>
    BY <1>1 DEF Dial
  <1>3. PICK what : /\ worker' = [worker EXCEPT ![w] = what]
                    /\ what = <<"take">> \/ what[1] = "connected"
    BY DEF Dial, Becomes
  <1>4. worker'[w] = what /\ \A v \in Workers : v # w => worker'[v] = worker[v]
    BY <1>3
  <1>5. what # <<"ended">> /\ what[1] # "probe" /\ ~AllWorked
    BY <1>1, <1>3 DEF AllWorked
  <1>6. /\ Probing(p)
        /\ \A a : (Probing(a)' => Probing(a)) /\ (Probing(a) => Probing(a)' \/ a = p)
    <2>1. ASSUME NEW a, Probing(a)' PROVE Probing(a)
      <3>1. PICK v \in Workers : worker'[v] = <<"probe", a>>
        BY <2>1 DEF Probing
      <3>2. v # w
        BY <1>4, <1>5, <3>1
      <3> QED
        BY <1>4, <3>1, <3>2 DEF Probing
    <2>2. ASSUME NEW a, Probing(a), a # p PROVE Probing(a)'
      <3>1. PICK v \in Workers : worker[v] = <<"probe", a>>
        BY <2>2 DEF Probing
      <3>2. v # w
        BY <1>1, <2>2, <3>1
      <3> QED
        BY <1>4, <3>1, <3>2 DEF Probing
    <2> QED
      BY <1>1, <2>1, <2>2 DEF Probing
  <1>7. \A a : ToSend(a)' <=> ToSend(a)
    BY <1>2 DEF ToSend
  <1>8. ScanTypes'
    BY <1>2, <1>3, <1>4 DEF RunInv, ScanTypes
  <1>9. NoneIsLost' /\ NoneIsExtra'
    BY <1>2, <1>6, <1>7 DEF RunInv, NoneIsLost, NoneIsExtra
  <1>10. NobodyLeavesEarly'
    BY <1>2, <1>4, <1>5 DEF RunInv, NobodyLeavesEarly
  <1>11. ClosedInOrder'
    BY <1>2, <1>5 DEF RunInv, ClosedInOrder, AllGenerated
  <1> QED
    BY <1>8, <1>9, <1>10, <1>11 DEF RunInv

LEMMA ResultProbes ==
  ASSUME RunInv, worker = [w \in Workers |-> worker[w]], NEW w \in Workers,
         Answer(w) \/ Send(w)
  PROVE  RunInv'
  <1>0. UNCHANGED <<params, ctx, deviceMap, todo, ended, ipCh, ipClosed, resultClosed, probed>>
    BY DEF Answer, Send
  <1>1. PICK what : /\ worker[w][1] \in {"connected", "send"}
                    /\ worker' = [worker EXCEPT ![w] = what]
                    /\ what = <<"take">> \/ what[1] = "send"
    BY DEF Answer, Send, Becomes
  <1>2. worker'[w] = what /\ \A v \in Workers : v # w => worker'[v] = worker[v]
    BY <1>1
  <1>3. ~AllWorked
    BY <1>1 DEF AllWorked
  <1>4. \A a : Probing(a)' <=> Probing(a)
    <2>1. \A a : worker[w] # <<"probe", a>> /\ worker'[w] # <<"probe", a>>
      BY <1>1, <1>2
    <2>2. \A a : \A v \in Workers : worker'[v] = <<"probe", a>> <=> worker[v] = <<"probe", a>>
      BY <1>2, <2>1
    <2> QED
      BY <2>2 DEF Probing
  <1>5. \A a : ToSend(a)' <=> ToSend(a)
    BY <1>0 DEF ToSend
  <1>6. ScanTypes'
    BY <1>0, <1>1, <1>2 DEF RunInv, ScanTypes
  <1>7. NoneIsLost' /\ NoneIsExtra'
    BY <1>0, <1>1, <1>4, <1>5 DEF RunInv, NoneIsLost, NoneIsExtra
  <1>8. NobodyLeavesEarly'
    BY <1>0, <1>1, <1>2 DEF RunInv, NobodyLeavesEarly
  <1>9. ClosedInOrder'
    BY <1>0, <1>1, <1>3 DEF RunInv, ClosedInOrder, AllGenerated
  <1> QED
    BY <1>6, <1>7, <1>8, <1>9 DEF RunInv

\* When the collector returns, nothing is left on the way.
LEMMA ReturnProbes ==
  ASSUME RunInv, Return
  PROVE  EveryAddressIsProbed'
  <1>1. resultClosed /\ UNCHANGED <<params, ctx, deviceMap, probed>>
    BY DEF Return
  <1>2. ipClosed /\ AllGenerated /\ AllWorked
    BY <1>1 DEF RunInv, ClosedInOrder
  <1>3. SUFFICES ASSUME ctx # "over"
                 PROVE  \A a : a \in probed <=> a \in Targets(params) /\ ~deviceMap[a].up
    BY <1>1 DEF EveryAddressIsProbed, Targets
  <1>4. ASSUME NEW a \in Targets(params), ~deviceMap[a].up
        PROVE  a \in probed
    <2>1. PICK i \in 1 .. Len(params) : a \in Hosts(params[i])
      BY DEF Targets
    <2>2. 1 \in Workers /\ 1 <= asyncLimit(params)
      BY SomebodyWorks DEF RunInv, ScanTypes
    <2>3. ipCh = <<>> /\ \A j \in 1 .. Len(params) : todo[j] = <<>>
      BY <1>2, <1>3, <2>2 DEF RunInv, NobodyLeavesEarly, AllGenerated, AllWorked
    <2>4. ~Probing(a) /\ ~ToSend(a) /\ a \notin Members(ipCh)
      <3>1. ~Probing(a)
        BY <1>2 DEF Probing, AllWorked
      <3> QED
        BY <2>3, <3>1, NoMembers DEF ToSend
    <2> QED
      BY <1>3, <1>4, <2>4 DEF RunInv, NoneIsLost
  <1> QED
    BY <1>4 DEF RunInv, NoneIsExtra

LEMMA ProbingStep == DiscoveryInv /\ ProbingInv /\ [Next]_vars => ProbingInv'
  <1> SUFFICES ASSUME DiscoveryInv, ProbingInv, [Next]_vars PROVE ProbingInv'
    OBVIOUS
  <1>0. /\ worker = [w \in Workers |-> worker[w]] /\ config \in Configs
        /\ scan = "running" => RunInv
    BY DEF DiscoveryInv, CollectorIsLast, ProbingInv
  <1>1. ASSUME config' \in Configs,
               UNCHANGED <<scan, params, ctx, deviceMap, todo, ended, ipCh, ipClosed,
                           resultClosed, worker, probed>>
        PROVE  ProbingInv'
    BY <1>1, ProbingFrame
  <1>2. ASSUME config' = config, scan = "running", scan' = scan, RunInv => RunInv'
        PROVE  ProbingInv'
    BY <1>0, <1>2, StillRuns
  <1> USE DEF debounceVars, scanVars, pipeVars, vars
  <1>3. CASE Change \/ debouncedDiscover \/ Expire \/ ForgetTimer
    BY <1>0, <1>1, <1>3 DEF Change, debouncedDiscover, Expire, ForgetTimer
  <1>4. CASE Discover
    <2>1. config' = config /\ (Start \/ UNCHANGED scanVars)
      BY <1>4 DEF Discover
    <2>2. CASE Start
      BY <1>0, <2>1, <2>2, StartProbes, StillRuns DEF Start
    <2>3. CASE UNCHANGED scanVars
      BY <1>0, <1>1, <2>1, <2>3
    <2> QED
      BY <2>1, <2>2, <2>3
  <1>5. CASE AskedToDiscover
    BY <1>0, <1>5, StartProbes, StillRuns DEF AskedToDiscover, Start
  <1>6. CASE Cancel
    <2>1. RunInv => RunInv'
      <3> SUFFICES ASSUME RunInv PROVE RunInv'
        OBVIOUS
      <3>1. ctx' = "over" /\ UNCHANGED <<params, deviceMap, todo, ended, ipCh, ipClosed,
                                         resultClosed, worker, probed>>
        BY <1>6 DEF Cancel
      <3>2. ScanTypes' /\ ClosedInOrder'
        BY <3>1 DEF RunInv, ScanTypes, ClosedInOrder, AllGenerated, AllWorked
      <3>3. NoneIsLost' /\ NobodyLeavesEarly'
        BY <3>1 DEF NoneIsLost, NobodyLeavesEarly
      <3>4. NoneIsExtra'
        BY <3>1 DEF RunInv, NoneIsExtra, Probing, ToSend
      <3> QED
        BY <3>2, <3>3, <3>4 DEF RunInv
    <2> QED
      BY <1>2, <1>6, <2>1 DEF Cancel
  <1>7. CASE Spawn
    BY <1>0, <1>1, <1>7 DEF Spawn
  <1>8. CASE CloseIps \/ CloseResults
    BY <1>2, <1>8, ClosingProbes DEF CloseIps, CloseResults
  <1>9. CASE \E i \in DOMAIN todo : Generate(i) \/ Generated(i)
    <2>1. PICK i \in DOMAIN todo : Generate(i) \/ Generated(i)
      BY <1>9
    <2> QED
      BY <1>2, <2>1, GenerateProbes, GeneratedProbes DEF Generate, Generated, Generating
  <1>10. CASE \E w \in Workers : Take(w) \/ Quit(w) \/ Dial(w) \/ Answer(w) \/ Send(w)
    <2>1. PICK w \in Workers : Take(w) \/ Quit(w) \/ Dial(w) \/ Answer(w) \/ Send(w)
      BY <1>10
    <2>2. worker[w] # <<"ended">>
      BY <2>1 DEF Take, Quit, Dial, Answer, Send
    <2>3. scan = "running"
      BY <2>2 DEF DiscoveryInv, CollectorIsLast, AllWorked
    <2>4. config' = config /\ scan' = scan
      BY <2>1 DEF Take, Quit, Dial, Answer, Send
    <2>5. RunInv => RunInv'
      BY <1>0, <2>1, TakeProbes, QuitProbes, DialProbes, ResultProbes
    <2> QED
      BY <1>2, <2>3, <2>4, <2>5
  <1>11. CASE Disable \/ Register
    BY <1>0, <1>1, <1>11 DEF Disable, Register
  <1>12. CASE Return
    <2>1. scan = "running" /\ scan' = "returned" /\ config' = config
      BY <1>12 DEF Return
    <2> QED
      BY <1>0, <1>12, <2>1, ReturnProbes DEF ProbingInv
  <1>13. CASE Pass
    BY <1>0, <1>13 DEF Pass, ProbingInv, EveryAddressIsProbed
  <1>14. CASE UNCHANGED vars
    BY <1>0, <1>1, <1>14
  <1> QED
    BY <1>3, <1>4, <1>5, <1>6, <1>7, <1>8, <1>9, <1>10, <1>11, <1>12, <1>13, <1>14
       DEF Next, Debounce, Goroutines

\* A scan that is not cancelled probes each address of its subnets that can be a reader's,
\* but those of devices that were up, and no other: for subnets of every size, any number
\* of workers and whoever closes what first (discover.go:146-172).
THEOREM ScanIsComplete == Spec => []EveryAddressIsProbed
  <1>1. Spec => []DiscoveryInv
    BY DiscoveryInit, DiscoveryStep, PTL DEF Spec
  <1>2. Spec => []ProbingInv
    BY <1>1, ProbingInit, ProbingStep, PTL DEF Spec
  <1>3. ProbingInv => EveryAddressIsProbed
    BY DEF ProbingInv
  <1> QED
    BY <1>2, <1>3, PTL
=============================================================================

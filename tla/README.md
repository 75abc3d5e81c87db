# TLA+ specifications of device-rfid-llrp-go

This directory holds specifications of the EdgeX device service for LLRP RFID
readers, the TLC runs that check them and the TLAPS proofs about them. The
source is the reference: `PROJECT.json` maps each definition to the lines it
models, and says what each run, mutant, finding and theorem is.

## 1. The system

| Component | State it keeps | Operations | Hard behaviour |
|---|---|---|---|
| `llrp.Client` (`pkg/llrp/reader.go`) | `done`, `ready`, `version`, the `awaiting` map, `sendQueue`, `ackQueue`, the counters and flags of its goroutines | `Connect`, `SendMessage`, `SendFor`, `SendNoWait`, `Shutdown`, `Close` | three goroutines and any number of callers share one connection; replies are correlated by ID; any step may meet a timeout, a hang-up or a `Close` |
| Headers and framing (`pkg/llrp/messages.go`, the reads and writes of `reader.go`) | what is left of a payload | encode, decode, validate, buffer, hand over or discard a payload | 32-bit lengths, bytes in pieces of any size, payloads that are left unread |
| Parameters (`generated_*.go`, `params.go`) | none | marshal and unmarshal | nesting of lengths |
| `LLRPDevice` (`internal/driver/device.go`) | the current Client, the address, `isUp`, `readerStart`, the context of the reconnect loop | reconnect loop, `TrySend`, `Stop`, `UpdateAddr`, `resetConn`, `onConnect`, event handlers | the Client is replaced while others use it; the operating state follows the connection through EdgeX |
| `retry` (`internal/retry/retry.go`) | none between calls | `Retry`, `RetrySome`, `RetryWithCtx`, `FError` | back-off arithmetic, cancellation during a wait |
| `Driver` (`internal/driver/driver.go`) | `activeDevices`, the configuration, `debounceTimer`, `done` | `Start`, `Stop`, `AddDevice`, `UpdateDevice`, `RemoveDevice`, commands, `debouncedDiscover` | devices come and go by name while their goroutines still run |
| Discovery (`internal/driver/discover.go`) | channels of one run | generate addresses, probe them, register results | a pipeline of goroutines that must end, also when cancelled |
| `cmd/llrp`, `cmd/main.go`, code generator, test emulator | - | - | none of their own |

How they interact: the EdgeX SDK calls the `Driver`, which finds or makes an
`LLRPDevice` by name. A device runs one goroutine that dials, makes a `Client`,
calls its `Connect` and, when that returns, installs a fresh `Client` under
`clientLock`; requests of the `Driver` reach the current `Client` through
`TrySend`, which retries a closed one. A `Client` calls back its message handlers on
the goroutine that reads. Discovery uses a `Client` of its own for each address
it probes.

What makes each correct:

- Client: a caller gets the answer to its own request or an error and never
  waits for ever once the Client is closed; no step panics on a channel; nothing
  precedes the negotiation or follows `CloseConnection`; `ErrClientClosed` means
  that a closing was requested.
- Framing and parameters: decoding what was encoded gives it back, by whichever
  side it was laid out; a size is that of what is written; whoever reads of a payload
  what he likes, the next bytes are taken for what they are.
- Device: the connection it holds is one its callers can close, a stopped device
  stops for good, an address that was replaced is left, and a reader that is lost is
  reported.
- retry: it stops when asked, tells why, waits no longer than the maximum and
  remembers the latest errors.
- Driver: no device runs that is not in the map, none is in the map that does not
  run, and nobody waits for ever for the lock of the map; a change of the configuration
  is discovered.
- Discovery: a scan ends unless a probe does not, every address is probed, every answer
  is handled.

`PROJECT.json` lists the hazards of all of these, line by line, with the
properties that cover them.

## 2. What is modelled

| Module | What it is |
|---|---|
| `LLRPMessages` | message types, IDs, versions and kinds of payload |
| `LLRPClient` | the Client: one action per step of a goroutine or of a caller |
| `LLRPSession` | the Client with a reader at the other end: `Init`, `Next`, fairness, types, safety, liveness, the refinement mapping |
| `RequestReply` | the abstract promise to the callers, without goroutines, queues or IDs |
| `LLRPClaims` | what the comments of the code promise and the code does not do |
| `MCSession` | values for TLC |
| `LLRPHeader` | numbers as bytes; the header of a message and its validation |
| `LLRPFraming`, `MCFraming` | one direction of a connection, byte by byte: headers and payloads are written, read, handed over and discarded |
| `MessageQueue` | what that amounts to: a queue of whole messages |
| `LLRPGrammar` | the words the codec's tables are written in |
| `LLRPStructs` | for each message and parameter, the parameters it holds (`generated_structs.go`) |
| `LLRPEncoders` | for each, number, sizes, fields and sub-parameters as they are written (`generated_encoder.go`) |
| `LLRPDecoders` | for each, what its `UnmarshalBinary` looks for, in order (`generated_unmarshal.go`) |
| `LLRPFields` | what encoders and decoders do with a list of fields, byte by byte |
| `LLRPCodec` | what they do with these tables |
| `LLRPExchange`, `MCExchange` | a value is written, sent behind a header, read and compared |
| `Retry`, `MCRetry` | `RetryWithCtx`, `nextWait` and the ring of `FError` |
| `LLRPDevice` | the reconnect goroutine, `onConnect`, `TrySend`, `Stop`, `UpdateAddr` and `resetConn`, over a Client |
| `LLRPDeviceClaims` | what comments say of devices and the code does not do |
| `DeviceRegistry` | `activeDevices`, `devicesMu`, and the goroutines of devices that end |
| `Discovery`, `MCDiscovery` | the debounce timer, the pipeline of a scan, and what EdgeX is told |
| `RetryProofs`, `LLRPDeviceProofs`, `DeviceRegistryProofs`, `DiscoveryProofs` | theorems about these |
| `LLRPSessionProofs` | theorems about `LLRPSession`: types, who owns a channel, who closes a Client and what `Connect` says of it, in which order a Client writes |
| `LLRPCorrelationProofs` | theorems about `LLRPSession`: whose reply a caller gets, and that it implements `RequestReply` |
| `LLRPWireProofs` | theorems about `LLRPHeader`, `LLRPFraming` and `LLRPFields` |
| `Foundations` | induction, `FlattenSeq`, and laws of `2^n`, for the proofs about bytes, durations and subnets |

`LLRPSession` extends `LLRPClient`, which extends `LLRPMessages`; `RequestReply`
is instantiated by `LLRPSession`. `LLRPFraming` and `LLRPFields` extend `LLRPHeader`; `LLRPCodec` extends `LLRPFields`;
`MessageQueue` is instantiated by `LLRPFraming`. The three tables extend `LLRPGrammar`, and
`LLRPCodec` instantiates them. Each layer above is built on the promise of the
one below, which the runs of that one check: `LLRPSession` sees of each
direction of a connection the queue that `LLRPFraming` implements; `LLRPDevice` sees of a Client only
that requests wait until it is open and fail once it is closed, and that `Connect`
returns once it is closed; `DeviceRegistry` sees of a device only that its goroutine
ends some time after `Stop`, unless a forced `Stop` holds its lock; `Discovery` sees of a
probe only whether it is connected and, if it ever ends, has an answer.

### The Client: state

| Code | Specification |
|---|---|
| where `Connect` is, the error it returns, its channel `errs` | `connPc`, `connErr`, `errs` |
| channels `ready` and `done`, field `version` | `ready`, `done`, `version` |
| `handleOutgoing`: `msg`, `nextMsgID` | `outPc`, `outMsg`, `nextMsgID` |
| `handleIncoming`: `hdr`, `receivedClosed`; the `replyChan` in `passToHandler` | `inPc`, `inMsg`, `receivedClosed`, `inTarget` |
| `awaiting`: message ID to `replyChan` | `awaiting`: message ID to the caller that made the channel |
| a `replyChan` with its buffer of one | `chan[p]` ("none", "open", "full", "closed") and `reply[p]` |
| `ackQueue`; the unbuffered `sendQueue` | `ackQueue`; a caller in `phase` "offer" |
| a caller's place in its call and its result | `phase`, `op`, `mid`, `outcome` |
| the `net.Conn` | `stream` (unread), `wire` (all that was written), `peer`, `connOpen` |

`bypassed`, `answered` and `unsolicited` are history; `crash` records a panic
that nothing in the program recovers.

`done` and `isClosed` are one variable. `Close` sets them in two steps, and a second
`Close` between the two returns before `done` is closed; nothing else reads
`isClosed`, and only the first `Close` goes on, so no other goroutine tells the
difference.

### The Client: steps

A step reaches from one point where another goroutine can notice to the next.
Merged are only steps of which all but one touch nothing that others see:

- `OutTakesRequest`: receiving from `sendQueue`, counting the ID, registering the
  channel and handing over the token. Until the token is there its caller
  waits, without an alternative; no reply can have that ID before the write,
  and should an older one with the same ID arrive in between, it meets the entry
  before or after, as it does here.
- `InReads`: reading a header and removing the entry under `awaitMu`. Between
  them the goroutine holds the only copy of the header, and a cancellation that
  comes between them is one that comes before.
- `InDelivers`: sending on a `replyChan` with an empty buffer, and closing it. The
  caller receives the value either way, and the channel is in no map any more.
- A payload is read or written with its header; failing within it is a
  payload of kind "cut", or `OutWriteFails`.

`HelloFails` and `Refused` stay apart, because `ready` is closed before `done`
there, and callers can pass in between.

The data is reduced to what control depends on. One request type stands for all
that are awaited, one for those that are not; payloads are "ok", "rejected"
(does not decode, or an error status), "unsupported", "huge" or "cut". The
context of a caller with a deadline may end at any moment; the read, write and
negotiation timeouts may strike whenever nothing has arrived. The Client has the
KeepAlive handler and no default handler, as in `device.go` and `discover.go`; the
handlers the driver adds run user code that does not change the Client's
state. Go closes nothing by itself: `OwnerCloses` is the `defer conn.Close()`
of the code that dialled.

The reader is external. It may refuse or say nothing, answer in any order, answer
with an error, answer late or never, send `KeepAlive`s and reports under IDs of
its own, and hang up at any moment. It answers a request at most once and does not
make up answers to requests it has not seen.

### Framing

| Code | Specification |
|---|---|
| `handleOutgoing` between two messages, or after `CloseConnection` | `writer`, `unsent` |
| the `net.Conn` in one direction | `stream`, `open` |
| where `handleIncoming` and `passToHandler` are, `hdr` | `reader`, `hdr` |
| what the `io.LimitReader`, `io.ReadFull` or `io.CopyN` has yet to read | `left` |
| the buffer of a reply; what a handler has read | `data` |
| what was sent on a `replyChan` or given to a handler last | `handed` |

`queue` and `current` are history: the messages begun and not yet read, and the one
that is being read for somebody. Bytes are written and read in pieces of any size, as
a `net.Conn` may. A handler reads as much as it likes and may return, or panic, at any
time; whatever is left is discarded, and so is the payload of a reply too large to
buffer. `Breaks` loses any part of what is on its way. A message to which both a reply
and a handler belong is handed over once here: the handler reads a copy of what the
reply has got, not the connection.

### Parameters and messages

The generated code is about 12,000 lines of four files, all of a few dozen patterns.
The tables keep what differs between the types, one entry each for 46 messages and
123 parameters: in `LLRPStructs` how many of which parameters a struct holds, in
`LLRPEncoders` the type number, the size without what varies, the widths and masks of
fields and the order of sub-parameters, in `LLRPDecoders` the sizes that are demanded and
the loops and switches over sub-parameters. They were made from three different
files and are independent: a field of a wrong width, a mask, a size, a sub-parameter
missing on one side shows as a value that does not come back. `LLRPFields` and `LLRPCodec`
say once what each pattern does, on sequences of bytes: `LLRPFields` the fields of one
type, `LLRPCodec` the parameters in parameters, by recursion. `MaskedBytes` is Go's `&`
without the bitwise operators, for the masks in the tables, whose bits are the lowest or
the highest of a byte.

`LLRPExchange` writes a value, either as this package does ("own") or as a reader may,
which orders the parameters within a group otherwise ("reversed",
"interleaved"), puts a header before a message and a `KeepAlive` after it, and
reads. The values of each type: as little as LLRP allows, each optional parameter
alone, everything twice with sub-parameters as small as allowed ("full"), and
everything twice down two levels ("deep"). Fields are filled with 1 or 255; bit
arrays have 0, 1, 8 or 9 bits. Restrictions, each with its reason:

- no field is 0, because the encoders take a zero timestamp for one that is not set
  (a finding);
- `C1G2SingulationDetails` is never set in an `AISpecEvent`, because its decoder cannot
  read it (a finding; `claim_codec.cfg` sets it);
- lists that LLRP does not let be empty are not empty;
- payloads stay far below 64 kB: the 16-bit sizes of TLV parameters wrap there.

`FieldsAssumption` says of the tables that the decoder of every type has the fields of its
encoder, that a field which takes what is left is the last and nothing follows it, that
the size in `getHeader` is that of header and fields, and that the values fit the fields;
TLC evaluates it for all types. It makes the theorems about fields theorems about every
type.

### Retry

One `RetryWithCtx` with any `ExpBackOff`. Time is `left`, what remains before the
deadline, of which calls and waits take some; `Cancel` is the other end of the
context. Errors are the numbers of the calls that gave them. `select` is the choice of
`NextCall` and `Done`. `Times` multiplies in `Bits + 1` bits as the CPU does.

### Devices

| Code | Specification |
|---|---|
| where the goroutine of `NewLLRPDevice` is; its `c`; the attempts of `retry.Quick` | `loop`, `c`, `failures`, `failed` |
| `client`, `clientLock`, the device's context, `isUp` | `client`, `clientLock`, `over`, `isUp` |
| the Clients | `state` of those that are not closed; `Closed` for all that are |
| `onConnect` goroutines; callers | `pc`, `op`, `sendTo`, `attempts` of `Handlers` and `Callers` |
| EdgeX, the reader | `opState`, `reachable`, `keepAlive` |

`stale` and `stopped` are history. A closed Client never serves again and nobody
compares two of them, so they are one value: the number of reconnections needs no
bound. `closeLocked` is one step, from the context's check to `client = nil`: it holds
`clientLock` all the time, and what others see of it meanwhile is that lock. Its outcome
covers a `Shutdown` that succeeds, fails, or times out. A second
`onConnect` handler while the first is running needs a second element of `Handlers`.

`DeviceRegistry` has a step for each stretch under `devicesMu`, of which those that stop a
device take two: between them the lock is held, and the goroutine of the device may be
waiting for it. `dev.Stop` and its outcome belong to `LLRPDevice`, but for one thing: with
force it has no deadline and may hold the `clientLock` of its device for as long as the
reader is silent. `forced` are the devices of which that `Stop` has not returned, and
`Held` those of them whose lock it has got; `ForcedReturns` is its end, if it comes. A
panic of a second `Stop` is `panicked`.

### Discovery

An address is a number of `Width` bits. `todo` holds what each generator has yet to
send, `ipCh` is a queue of the capacity the code gives it, `resultCh` has none: sending is
the collector's receiving. A probe is two steps: `Dial` ends in time, refused or connected;
`Answer` is the return of `c.Connect`, with any outcome, and may never come. Nothing of the
two touches shared state of the scan. `Listening` are the addresses where something may
accept a connection, `ReaderAt` says where that may be a reader. The collector's two calls to EdgeX are two steps, and
EdgeX may refuse each. The timer and the goroutine that waits for it are two, because a
reset can come between the tick and the goroutine's forgetting the timer. At most one scan
runs in the model; another that begins meanwhile is counted as begun.

## 3. What the runs check

The first four use `MCSession`; the rest `MCFraming`, `MCExchange`, `MCRetry`, `LLRPDevice`,
`DeviceRegistry` and `MCDiscovery`, each with the configuration of the run's name.

| Run | Question | Bounds |
|---|---|---|
| `core` | does a caller get only its own answer; can it always be reached; who closes; does the Client implement `RequestReply` | 2 callers of all four operations, one with a deadline; v1.0.1; timeout; 1 unasked message, under the ID of the first request or one that no request has |
| `negotiation` | do callers wait for the negotiation, whatever the answers; are acknowledgements preferred; is `CloseConnection` the last message | 1 caller; v1.1; readers of all version pairs; all five payload kinds; 2 KeepAlives, a queue of 1 |
| `wrap` | are channels safe when IDs wrap | 3 callers, IDs modulo 2, all with deadlines, truncated replies |
| `liveness` | does everything end that should | 2 callers of `Shutdown` and `Close`, one with a deadline; timeout; negotiation with `SetProtocolVersion`; truncated replies, which lose a caller its entry |
| `framing` | is the next header found, whatever the pieces and whatever was left unread; does only the end of the connection end the reading; is the connection a queue | 2 messages in flight; 4 messages: empty, short with the greatest bytes, one whose payload looks like a header and is too large to buffer, and `CloseConnection`; 4 bytes are buffered at most |
| `codec` | is what was written read back, also when a reader arranges it otherwise; are sizes true | all 46 messages and 123 parameters, in the values named above; fields of 1 and 255; three layouts |
| `retry` | which errors are kept, how long it waits, why it returns, that it returns | durations of 4 bits and a sign, `int` up to 3, 8 failed calls; `KeepErrs` -1 to 3; 0, 1, 3, 5 or endless retries; deadlines none, 3, 20 |
| `device` | does `Stop` close everything and end the goroutine; is a new address used, the connection configured, a lost reader reported | the goroutine, 1 handler, 1 caller of `Stop` and `UpdateAddr` any number of times; 2 sending attempts; EdgeX up or down at first |
| `registry` | is every running device in the map, and everything in the map running; does anybody wait for ever for the map | 1 name, 3 devices, 2 goroutines of the SDK that get, remove and stop, also with force |
| `discovery` | are all addresses probed, answers handled, scans ended, changes discovered | 4-bit addresses, 2 configurations of 2 subnets (/2 and /4, /3 and /1), 2 workers, 2 changes, 2 readers and something else that accepts connections |

Two callers suffice for the races of a request with a cancellation, a reply or a
closing: each concerns an entry of the map, and at most two callers (the owner
and one with the same ID) touch it. Entries overwritten when IDs wrap need the
third. In `core`, IDs run to 7, more than the requests of a run, so nothing wraps; the
reader uses 0, the ID of the first request, and 7 for messages of its own;
`wrap` has fewer IDs than requests. `negotiation` has one KeepAlive more than the
queue holds, and with the requests of the negotiation enough of them to overtake it. Callers call once: a second call of the same goroutine differs
from one of another goroutine in nothing the Client sees. Symmetry of the senders
is used only where all of them are alike and no liveness is checked.

`framing` needs a message behind the one being read, to see it misread; a third only makes
the queue longer. The payload that looks like a header would be taken for one if it were not
skipped, and the greatest bytes would make an impossible length.

`codec` is one exchange per initial state. A field that is read with another
width, mask or offset shifts or changes what follows it, and two fillings, one
with only the lowest bit and one with all, show either; arrays of two elements show
what one cannot, the loop that goes on. `retry` needs more failed calls than
`KeepErrs` for the ring to wrap, than `MaxInt` for the count to saturate, and than
`Bits` for the shift to leave the word: 8 is more than all three. In `device` one
handler and one caller contend with the goroutine for the Client and the lock; a
second caller does what the same one does in its next call, since
`Stop` and `UpdateAddr` hold the lock throughout. `LLRPDeviceProofs` covers any number,
and `TrySend` by callers. One Client name is enough, since a Client that has been
closed frees it. The operations of `registry` meet only on the same name; three devices are one
that is stopped, one that replaces it and one more. In `discovery` two generators
race two workers; the subnets have several hosts, two addresses, one, or are refused by
the generator (/1). Two changes are the one in progress and the one that comes
meanwhile.

In these runs the system
may rest only in `Finished` (all has returned), in `Abandoned` (both goroutines
wait for a `Close` nobody calls, see below) or after a panic.

The runs of the other components do not check for deadlock: they model one
`RetryWithCtx`, one exchange, a bounded number of changes, or goroutines that rest once a device
is stopped or everything has been removed. That nobody is stuck before is said by
their liveness properties (`CancelEnds`, `StopEndsLoop`, `NobodyWaitsForEver`,
`StartedScanEnds`).

`WaitersAreReachable` is the invariant that loses its truth when IDs wrap or a reply
is cut short: then a caller without a deadline really waits until `Close`. It is
therefore checked where neither happens, and `ChannelOwnership`, which
survives both, is checked with both.

Refinements. `RequestReply` knows nothing of goroutines or IDs: a call is accepted at
most once and only over an open link, nothing is accepted after the request that
closes it, an answer needs an accepted call, a failure needs a reason (the
Client closed, the caller's own deadline, an answer it did not like), and one
closing succeeds. `RR` maps the Client to it: the link is open once `Connect`
serves, closing once `handleOutgoing` has taken `CloseConnection`, down once
`Connect` has returned. One of the callers has no deadline, so that the reasons
for failing tell. `MessageQueue` knows nothing of bytes: it holds `current \o queue`, and a
message leaves it when it is handed over, or when nobody wants it.

### Fairness

Weak fairness of `ConnectStep`, `OutgoingStep`, `IncomingStep`, each caller and
`OwnerCloses`: the Go scheduler runs every goroutine that can run, deadlines pass,
and the owner's deferred close runs. Nothing is assumed of the reader. Go's
`select` is not fair, and no property needs it to be: with several
cases ready any is taken, and none of them has to be taken in the end.
With a timeout, a silent reader lets reads fail in the end. Each of these is an enabled
step of its goroutine and hence under its weak fairness.

The other specifications assume the same of goroutines, and of what they use:

- `Retry`: calls of `f` return and timers fire. Strong fairness of `Done`: `select`
  chooses at random among the cases that are ready, so it does not take the timer for
  ever when the context is over each time. `CancelEnds` needs it with a wait of 0.
- `LLRPDevice`: dials and waits end, and `Connect` returns once its Client is closed or
  its reader is gone, which is what `liveness` shows of the Client. A lock that is free
  again and again is granted in the end (Go's mutexes are starvation-free), hence strong
  fairness of `Lock`, `ReadClient` and `Install`. EdgeX does not refuse every report that
  a reader is down. Nothing is assumed of the closing of a forced `Stop`: its
  `Shutdown` has no limit.
- `DeviceRegistry`: `devicesMu` is granted in the end. Calls on a device, and its goroutine
  after a `Stop`, end while nobody holds the `clientLock` without a limit: sending and
  stopping have deadlines. Of a device that a forced `Stop` holds (`Held`) nothing is
  assumed, as in `LLRPDevice`: `driver.go:519` passes `context.Background()`, `closeLocked`
  waits in `Shutdown` with the lock (`device.go:313`), and `TrySend` (`:244`) and
  `UpdateAddr` (`:289`) wait for it without a context.
- `Discovery`: timers fire, goroutines run, dials have a timeout and EdgeX answers. Nothing is
  assumed of a cancellation, of changes of the configuration, or of `Answer`: the Client of a
  probe has no timeout (`discover.go:345`), closing it does not end a read, and the
  connection is only closed once `Connect` has returned (`:342`).

Two liveness properties therefore name what they cannot promise. `NobodyWaitsForEver`: a
call on a device, or the goroutine of one, may wait as long as a forced `Stop` holds that
device; every other call returns, and in particular nobody waits for ever for
`devicesMu`. `StartedScanEnds`: a scan may stay with a worker that is connected for ever,
or with the generator of a single address, which sends without looking at the context
(`:314`). The exceptions are states that last (`[]`): a probe that ends, or a lock that is
released, excuses nothing. TLC finds each property violated without any one of its
exceptions.

### Where code and comments disagree

Each `claim_` configuration checks one sentence of a comment and finds it violated; the
findings in `PROJECT.json` quote it. Two are runs of `PROJECT.json`, the others are
kept to be run by hand: `tlc -config claim_x.cfg` with the module named here.

| Configuration | Module | The comment | The code |
|---|---|---|---|
| `claim_readd` (run) | `DeviceRegistry` | `AddDevice` has the device managed | the goroutine of a device of that name that was removed before removes it when it ends |
| `claim_hang` (run) | `MCDiscovery` | a discovery has a maximum duration | when that ends before all generators have begun, `Discover` never returns, even if nothing accepts a connection |
| `claim_probe` | `MCDiscovery` | `Connect` of a probe lasts until `Shutdown` is called | it reads on for as long as the other side is connected and silent |
| `claim_swap` | `MCDiscovery` | the device at the address found is disabled | also one that has just been given another address |
| `claim_opstate` | `LLRPDeviceClaims` | a connection that is restored is reported | an old handler and the goroutine may leave it "Down" |
| `claim_force` | `LLRPDeviceClaims` | a forced `Stop` closes immediately | it waits for `Shutdown`, without a limit |
| `claim_codec` | `MCExchange` | (`binary_test.go` makes such a value) | an `AISpecEvent` with singulation details is refused |
| `claim_response` | `MCSession` | `SendMessage` awaits a response | any message with the ID counts |
| `claim_connect_error` | `MCSession` | `Connect` returns the first error | not while it negotiates without a timeout |
| `claim_timeout_after_close` | `MCSession` | a timeout after `CloseConnection` waits | `os.IsTimeout` does not see through the wrapped error |
| `claim_payload` | `MCSession` | a response has a payload | nil for an oversize one; `getSupportedVersion` reads it |
| `claim_version` | `MCSession` | the negotiated version is sent in headers | requests carry 1.0.1 |
| `claim_shutdown_error` | `MCSession` | a failed `Shutdown` fails `Connect` otherwise | not when `Close` follows |
| `claim_hangup` | `MCSession` | a closed connection releases callers | not once `CloseConnectionResponse` was read |

The findings that name no run were met while reading: what a race detector, a clock or
arithmetic outside the models would show, or what is a matter of one line. Too small even
for that: an EOF after `CloseConnectionResponse` waits for `done` (`reader.go:720`) where
the comment above the function says it returns; `SendMessage` returns an oversize reply
with neither data nor error (`messages.go:347`) where `reader.go:914` says it rejects it;
an I/O error can win over a `Close` in `Connect`'s `select` (`reader.go:431`);
`SendNoWait` returns when its message is taken, not when it is sent (`reader.go:633`).

## 4. What is proved

`LLRPSessionProofs` proves, for any callers, deadlines, operations, timeouts,
queue size, modulus of IDs and reader that satisfy the assumptions
`CallersAssumption`, `ClientAssumption` and `ReaderAssumption`:

- `TypeCorrect`: `Spec => []TypeOK`. `TypeOK` is inductive as it stands; there
  is a lemma for the steps of each goroutine, of the callers and of the reader.
- `OwnershipCorrect`: `Spec => [](ChannelOwnership /\ NoChannelPanic)`, and from it
- `ChannelSafety`: `Spec => []NoChannelPanic`.

`NoChannelPanic` is not inductive: `Cancel` and `InDelivers` panic if the channel they
find is not open, and only the history of a channel tells that it is. The
strengthening `ChannelInv` is `TypeOK /\ ChannelOwnership /\ NoChannelPanic`. Its parts:
an entry of `awaiting` holds an open channel whose caller has that ID
(`EntryOwnsItsChannel`), so no two entries hold the same one; the channel of a
delivery is open and in no entry (`DeliveryOwnsItsChannel`), since `InReads` moved it
out; a caller about to have a request registered owns nothing
(`OfferedHasNoChannel`), so `Register` cannot give a channel a second owner; and
the goroutine that negotiates, the only one that sends twice, has read its reply
before the second request (`NegotiatorIsDoneWaiting`). The modulus of the
IDs is used nowhere in the argument: overwriting an entry only loses an owner.
`OwnershipFrame` and `OwnershipStutter` say what a step has to leave alone, and
the steps that move a channel have lemmas of their own.

The same module proves, from the same assumptions and `TypeCorrect`:

- `CloseIsExclusive`: `Spec => []OneCloseSucceeds`, and
- `ClosedOnRequest`: `Spec => []ClosedMeansRequested`.

Neither is inductive. `Connect` gets `ErrClientClosed` from three places: its own
`send`, the channel `errs`, and `done`; and it closes the Client itself, after
which a goroutine reports `ErrClientClosed` although nobody asked. `ClosingInv`
separates the two: as long as `Connect` has not left its `select` (`~Ended`),
whatever tells it "closed" (`ToldClosed`) goes back to a `Shutdown` or `Close` that
succeeded (`Requested`); a success implies `done`; and a result is final
(`ResultsAreFinal`). `ClosingCallers`, an invariant of its own, says that only
the callers of `Shutdown` and `Close` ever reach the step that closes, so the
goroutine that negotiates is not one of them. `ClosingFrame` and `ClosingQuiet`
treat the steps that say nothing new about closing.

It goes on, from the same assumptions, `TypeCorrect` and `OwnershipCorrect`, with the order
in which a Client writes:

- `NegotiationIsFirst`: `Spec => []NegotiationComesFirst`,
- `ClosingIsLast`: `Spec => []CloseConnectionIsLast`,
- `ShutdownIsOrderly`: `Spec => []ShutdownIsGraceful`, and
- `AcksAreSoon`: `Spec => []AcksWaitForOneRequest`.

`CloseConnectionIsLast` and `AcksWaitForOneRequest` need one more fact each:
`handleOutgoing` only waits for `done` once it has written `CloseConnection`
(`LastInv`), and enters its second `select` with nothing overtaken (`AcksInv`).
`NegotiationComesFirst` is about four parties. `StagesInv` follows `Connect` through the
negotiation: what has been offered, written and answered at each stage
(`GettingVersion`, `SettingVersion`, `OpenWhenNegotiated`), that each request is written
once (`VersionRequestedOnce`), and that senders stay behind the gate (`SendersWait`).
`Connect` learns of an answer only by a reply, so `RepliesTell` says what a reply
proves, wherever it is: a `SetProtocolVersionResponse` in the stream, in delivery or in
the negotiator's channel proves that the reader has answered `SetProtocolVersion`, and
any reply or `ErrorMessage` that it has answered `GetSupportedVersion`. That the channel
holds a reply when `send` returned one is a part of `ChannelOwnership`. What the reader
sends unasked may carry the ID of a request, but not the type of an answer; so the
argument needs nothing of message IDs, which may wrap in the middle of the negotiation.
`Tells` says the same of an accepted `CloseConnection`, for the channel of every caller;
`GracefulInv` takes it from there to a `Shutdown` that succeeds.

`LLRPCorrelationProofs` proves what holds while message IDs do not wrap (`NoWrap`: fewer
senders than IDs, by two for the negotiation; every sender makes one request, and the
code has 2^32 IDs). The hypotheses are constant: `core` has values that satisfy all of
them, `wrap` has values that do not.

- `NobodyIsForgotten`: `Spec => []WaitersAreReachable`, if the reader completes every
  reply it begins (`RepliesComplete`). `InReplyCut` drops the entry of a reply that is
  cut short and returns, so its caller waits for `done`.
- `RepliesGoToTheirCallers`: `Spec => []RepliesAreCorrelated`, whatever IDs the reader
  uses for what it sends unasked. `passToHandler` looks for the ID in `awaiting` before it
  looks at the type, so a KeepAlive or report under the ID of a request goes to the caller
  of that request; the property says that this is the only other thing a caller may get.
- `ClientKeepsItsPromises`: `Spec => ImplementsRequestReply`.

Behind all three is `CountInv`: an ID taken, a sender that has not asked and a request of
the negotiation still to come are together never more than there are. It bounds
`nextMsgID`, so `(i + 1) % IdMod` never returns to an ID in use, and `WaiterInv` follows:
an ID in `awaiting` or at a waiting caller has been taken (`IdsAreUsed`), no two callers
wait under one (`IdsAreUnique`), and the channel of a caller that waits is open
(`ChannelStaysOpen`). `NobodyIsForgotten` adds that no reply is cut (`NoCuts`); a caller
that gives up removes its own entry and no other (`CancelsItsOwn`, `GivesUp`).
`RepliesGoToTheirCallers` adds that an ID on the wire belongs to the request of the caller
that waits under it (`RequestsInv`) and that whatever is in the stream, in delivery or in
a channel answers a request on the wire or is one of the reader's own messages
(`ProperInv`). For the refinement, `LinkInv` relates the states of the goroutines to the
four of the abstract link, and there is a lemma for the steps of each: `ConnectMaps`,
`TakesMaps` (the one step that accepts a call), `DeliverMaps` (the one that answers it),
`CallerMaps`, `BeginMaps`; every other step stutters. The promise that only an open link
accepts a call rests on `StagesInv`, the invariant of the negotiation.

`RetryProofs` proves, from `RetryAssumption` and `DurationAssumption`, for every policy,
limit, deadline and duration of calls:

- `RingKeepsLatest`, `CountSaturates`, `RetryTellsWhy`, `NoWaitWraps`, `RetryIsTyped`:
  `Spec` implies always `KeepsLatest`, `AttemptsSaturate`, `ReasonIsTrue`,
  `WaitIsBounded` and `TypeOK`.

`KeepsLatest` is not inductive: while the ring fills, `addErr` appends, and only
`last = 0` then makes the first element the oldest. `Latest` adds that; `AddsLatest`
shows that `addErr` preserves it, whether it appends, overwrites the oldest, or moves
`last` round the end. `RetryInv` adds where errors may be missing (`StartIsFresh`),
that nothing has a result before the end, and that a failed call is followed by a
wait only if another may be made (`GoesOnWithReason`), which is what makes
`ErrRetriesExceeded` true of the number of calls.

`WaitIsBounded` is about multiplication in `Bits + 1` bits. `DivisionIsExact` shows that the
test `BackOff > Max / s` holds for just those products that are longer than `Max`;
`TimesIsExact`, that a product which is a duration does not wrap; `NextWaitIsBounded` puts
them together for every multiple, with jitter and without. `WaitInv` adds that the policy
is positive once the first call has failed (`PolicyIsSane`) and that no wait is begun that
would outlast the deadline (`WaitFits`), whence the time left stays a natural number. What
they need of `2^n` is in `Foundations`: the provers know no law of `^`, but a library theorem
says that `2^n` is the number of subsets of a set of `n` elements, and a subset of
`1 .. m + n` is one of `1 .. m` together with one of the rest (`PowersAdd`).

`LLRPDeviceProofs` proves, from `DeviceAssumption`, for any number of Clients, handlers,
callers and attempts:

- `LiveClientCorrect`: `Spec => []LiveClientIsInstalled`, and
- `StopCorrect`: `Spec => []StopClosesConnections`.

Neither is inductive. `DeviceInv` says, apart from types: no process but the goroutine
refers to a Client that is not closed, other than to the goroutine's (`OneLiveClient`); a
Client that is made but not installed is known to nobody (`NewClientIsUnknown`); an
installed one stays until it is closed (`InstalledUntilClosed`); only a Client of a
goroutine that is in `Connect` is open (`OpenIsConnected`); and who stops has
cancelled the context before taking the lock (`StopCancels`), so that the goroutine
finds out at its next check. A handler of an old connection that resets the new one is
one of these processes.

`DeviceRegistryProofs` proves, from `RegistryAssumption`, for any names, devices and
users:

- `RegistryCorrect`: `Spec => []RegistryInv`, and from it
- `RegistryHasNoOrphans` and `RegistryHoldsRunning`: `NoOrphans` and `MapHoldsRunning`; and
- `RemovalNeverMeetsForced`: no device in the map is `Held`, so that `removeDevice`, which
  calls `dev.Stop` under `devicesMu`, never waits for a forced `Stop`.

`RegistryInv` ties each entry to its name and to a device that is not gone
(`EntriesAreLiving`), and says who may have an entry that is stopped: the holder of the
lock, while it removes that name (`LockIsHeld`, `StoppedEntryIsLeaving`,
`RemovedIsStopped`); a forced `Stop` empties the map before anybody else finds a device it
holds in it (`ForcedAreOut`). A goroutine that removes a device of its name which is not itself,
as in `claim_readd`, keeps all of this: it stops that device first.

`DiscoveryProofs` proves, from `DiscoveryAssumption`, for any subnets, width of an address,
number of workers and readers:

- `FoundIsHandled`: `Spec => []ResultsAreKept`, and
- `ScanIsComplete`: `Spec => []EveryAddressIsProbed`.

`DiscoveryInv` says where a reader that was found may be: with its worker, which cannot
return before it has sent it, on its way, or handled (`FoundIsSomewhere`); that nothing
else gets there (`NothingIsInvented`); and that `resultCh` is closed only after the last
worker, and the scan returns only then (`CollectorIsLast`). A cancelled context stops the
generators and the workers between two addresses, never between a find and its sending.

`EveryAddressIsProbed` is about the end of a scan, and `RunInv` about the way there: an
address to be probed is at its generator, in `ipCh`, at a worker or probed (`NoneIsLost`),
and nothing else is (`NoneIsExtra`); generators return with nothing left to send and
workers only when `ipCh` is closed and empty, unless the context is over
(`NobodyLeavesEarly`); and the channels are closed in their order (`ClosedInOrder`). That
the last worker then finds `ipCh` empty needs a worker to be there: `SomebodyWorks` shows
that a subnet of any size counts for at least one in `estimatedProbes`. `GeneratedAreHosts`
shows that what `ipGenerator` sends is what `Hosts` defines, for every size of the mask:
the network's address is a multiple of the size of the subnet, which divides the size of
the address space (`SubnetIsInside`).

`LLRPWireProofs` proves, from `MessagesAssumption` and `BoundsAssumption`, for any messages
with payloads of any length that `validateHeader` allows, any limit of what is buffered and
any number of messages in flight:

- `HeaderRoundTrip`: `UnmarshalHeader` reads what `MarshalHeader` wrote, for every version,
  type, length and ID, whatever bytes follow;
- `FramingIsTyped` and `HeadersAreFound`: `Spec` implies always `TypeOK` and
  `StreamStaysAligned`; and
- `ConnectionIsAQueue`: `Spec => ImplementsQueue`.

About the fields of messages and parameters it proves, for any list of fields, any number of
bytes, elements and bits in them that 16-bit counts can say, and any bytes after them:

- `FieldsRoundTrip`: decoding what was encoded gives the values back, in order, without an
  error or a panic, and leaves exactly the bytes that follow, where the decoder goes on
  with the parameters; and
- `FieldsSize`: there are as many bytes as the fixed size, which `hasEnoughBytes` demands,
  and what `getHeader` adds for the fields of variable length.

`AllFit` says which values these are; the hypothesis of `RestIsLast` is that a field which
takes what is left is the last. Both are what `FieldsAssumption` checks of the tables. The
proof of the round trip gives the function that `DecodeFields` defines by recursion (after
`i` fields, the first `i` values and the bytes of the others), shows that it takes the steps of
`DecodeField` (`FieldIsRead`), and that no other function does (`DecodingIsUnique`).

`StreamStaysAligned` is not inductive: it speaks of the moments when the reader looks for a
header, and the reason for it is elsewhere at all others. `FramingInv` speaks of `coming`, the
bytes on the connection and those not yet sent to it. Without the `left` bytes of the payload
being read, they are the messages in `queue`, each with its header, one after the other
(`RestIsMessages`). What has been read of a payload, followed by what is left of it, is the payload of the message in
`current` (`PayloadIsItsOwn`); and `ReaderStages` says when there is one and that nothing is
left between two messages. A message more or less at either end of the queue needs
`FlattenSeq` of a sequence with one more element, at its end or at its front. `FlattenSeq` is a
recursive function: `Foundations` shows that there is such a function
and only one (`Iteration`, `Recursion`, `JoiningIsUnique`), by induction over the natural
numbers, which it takes from the minimum of a nonempty set in `WellFoundedInduction`,
since the induction theorems of the library cannot be applied to an operator.

Only model-checked:

- all liveness, since the prover reasons neither about fairness nor about ENABLED:
  `CloseReleasesCallers`, `CloseEndsConnect`, `HangupEndsConnect`, `CallsReturn`,
  `CancelEnds`, `StopEndsLoop`, `StaleAddressIsLeft`, `ConnectionIsConfigured`,
  `LostReaderIsReported`, `NobodyWaitsForEver`, `StartedScanEnds`, `ChangeIsDiscovered`;
- that whole messages and parameters come back and have the sizes they claim (`RoundTrip`,
  `PeerOrderIsRead`, `SizesAgree`). A parameter holds parameters, and the operators that
  go down into them are recursive, which is out of the prover's reach: proved is what
  happens on each level to the fields.

Every other property of a run that passes is a theorem.

## 5. What is not modelled

- Code generation: a script that runs when the package is built. What it generates is
  modelled.
- Logging, the `_string.go` files, `cmd/main.go`: no state, and nothing depends on them.
- `cmd/llrp`, the test emulator and test helpers: they use the package, and were read for
  what a reader may do.
- How `HandleReadCommands` and `HandleWriteCommands` turn requests and attributes into
  messages, and how reports and events become readings: conversions without state. For
  the registry they are a `getDevice` and a use of the device, for the device a `TrySend`.
  `readerStart`, which the conversion of uptimes would use, is never set (a finding).
- How discovery makes a reader's name of its identification: the name is one of those the
  reader may have.
- The pool of buffers behind `Message`, which only avoids allocations; payloads of 64 kB
  and more, where sizes of parameters wrap; fields of 0.
- `FError.Error` and `FError.Is`, which only read (two findings say what of it surprised).
- User handlers of messages: they run on the goroutine that reads and change none of the
  Client's state.

Of undefined behaviour there are two data races. `negotiate` writes `Client.version`
while the two goroutines read it; only loggers and headers of acknowledgements read it at
that time, and no property depends on the value they find. `probe` and its goroutine
write one `err` (a finding); either outcome is among those of a probe in `Discovery`.

## 6. Running

    tlc -config core.cfg MCSession            # also negotiation, wrap, liveness
    tlc -config framing.cfg MCFraming
    tlc -config codec.cfg MCExchange
    tlc -config retry.cfg MCRetry
    tlc -config device.cfg LLRPDevice
    tlc -config registry.cfg DeviceRegistry
    tlc -config discovery.cfg MCDiscovery
    tlapm LLRPSessionProofs.tla               # also LLRPCorrelationProofs, LLRPWireProofs,
                                              # RetryProofs, LLRPDeviceProofs,
                                              # DeviceRegistryProofs, DiscoveryProofs,
                                              # Foundations

`device` and `core` take about three minutes on two cores, the other runs at most a minute
and a half, each of the proofs about a minute or two.

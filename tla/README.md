# TLA+ models of scion-time

scion-time is a time service: it synchronizes the local clock to reference
clocks (NTP over IP and over SCION, CSPTP, PTP hardware and shared memory
clocks) with a fault-tolerant algorithm, and it serves the time to others by
NTP, optionally authenticated by NTS. This directory has TLA+ modules for the
parts of it in which the order of events matters, configurations to check them
with TLC on small instances, and TLAPS proofs of what matters most in them for
instances of any size. All references are to files of the repository.

## The system

| Part | State it keeps | Operations | Shared with, called by |
|---|---|---|---|
| NTP timestamp store, `core/server/server.go` | per client up to 8 pairs of receive and transmit timestamps; a priority queue of the clients; gauges | `handleRequest`, `updateTXTimestamp`, under `tssMu` | all server goroutines, IP and SCION |
| NTP servers, `core/server/server_ip.go`, `server_scion.go` | per goroutine the expected ID of the next transmit timestamp and, over SCION, a cache of DRKeys | read, decode, authenticate, `handleRequest`, write, `updateTXTimestamp`; over SCION also SCMP and forwarding from the end host port | timestamp store, key provider |
| NTS cookie keys, `net/ntske/provider.go` | a map of keys with validity, the current ID | `Current`, `Get`, `generateNext`, under a mutex | NTP servers and NTS-KE servers |
| NTS-KE server, `core/server/ntske*.go` | none between connections | `newNTSKEMsg` | key provider |
| NTS cookie pool of a client, `net/ntske/fetcher.go` | cookies, keys, algorithm of an association | `FetchData`, `exchangeKeys`, `StoreCookie` | NTP clients |
| NTS extension fields, `net/nts/nts.go` | none | `NewRequestPacket`, `EncodePacket`, `ProcessResponse`, ... | clients and servers |
| NTP clients, `core/client/client_ip.go`, `client_scion.go` | the previous exchange (`prev`), a filter, a fetcher | `MeasureClockOffset...`, in basic or interleaved mode | measurement |
| Measurement, `core/client/client.go`, `core/measurements` | results of a round | `MeasureClockOffsets`, `collectMeasurements`, `FaultTolerantMidpoint`, path assignment | synchronization loop |
| Synchronization loop, `core/sync/sync.go` | two slices of measurements | `Run`: measure both groups, limit, combine, correct, sleep | measurement, adjustments |
| Adjustments, `core/sync/adjustments` | state of the PLL and of the PI controller | `Do` | system clock |
| System clock, `driver/clocks` | the current adjustment, the epoch | `Step`, `Adjust`, `Sleep` and a goroutine that ends an adjustment | adjustments |
| CSPTP, `core/client/client_csptp_ip.go`, `core/server/server_csptp_ip.go` | conversations of clients | sync and follow-up requests and responses | measurement |
| SCION networking, `net/scion` | caches of paths and of DRKeys | lookup, refresh | clients and servers |
| Hardware and shared memory clocks, `driver/{mbg,phc,shm}` | a segment shared with another process | `MeasureClockOffset`, `StoreClockSample` | measurement |

What is hard to get right and hard to test in it:

* several goroutines serve the same client, and each handles a request in two
  critical sections with a network write in between;
* the store is full, an item is full, timestamps repeat, the era ends;
* requests and responses are lost, a server restarts, keys expire, a key
  exchange fails half-way, and what is left in memory is used next time;
* measurements answer after the timeout of their round, or never;
* a minority of the reference clocks is arbitrarily wrong;
* the clock that everything is measured with is stepped and slewed meanwhile, by
  the loop itself, and what was measured before is used after;
* transmit timestamps, paths and keys come from outside, late, in another order or
  no longer valid, and are matched with what was kept;
* another process writes the shared memory while it is read.

The hazards are listed one by one, with their lines and the properties that
cover them, in `PROJECT.json`.

## The modules

| Module | Models | Extended by |
|---|---|---|
| `TimestampStore` | the timestamp store and the loop of the servers, the priority queue as a set | `MCTimestampStore`, `TimestampStoreProofs`, `TimestampStoreHeap` |
| `TssQueue` | the methods of `tssQueue` and container/heap on them, swap by swap | `MCTssQueue`, `TssQueueProofs` |
| `TimestampStoreHeap` | `TimestampStore` with an instance of `TssQueue` as its queue, and `tssMu` | `MCTimestampStoreHeap`, `HeapProofs` |
| `KeyProvider` | `ntske.Provider` | `MCKeyProvider`, `KeyProviderProofs` |
| `NtsCookies` | the fetcher, a client's requests, a server that answers or forgets | `MCNtsCookies`, `NtsCookiesProofs` |
| `InterleavedClient` | an NTP client in interleaved mode, the network and an instance of `TimestampStore` | `MCInterleavedClient`, `ClientProofs` |
| `OffsetCollection` | rounds of measurements of a group of clocks | `MCOffsetCollection`, `OffsetCollectionProofs` |
| `SyncLoop` | `Run` and the PI controller around a clock that drifts | `MCSyncLoop` |
| `SystemClock` | the system clock with its goroutines, and the PLL that steps and adjusts it | |
| `ScionServer` | servers and dispatchers of SCION hosts, the DRKey cache, the ping | |
| `TxTimestamps` | a server's loop and the error queue of its socket | |
| `ScionPaths` | the path cache and the paths of the clients of a reference clock | |
| `Csptp` | the CSPTP client | |
| `ShmClock` | reader and writer of the shared memory clock | |
| `Components` | an instance of each of the last seven, side by side | `MCComponents`, `ComponentsProofs` |

The seven instances in `Components` share no state in the code, so a behaviour of it
is one of the component that `kind` names, and its state space is their sum.
`MCComponents` gives their constants values.

The operators called "Mutant" in the modules are plausible bugs of the
definition that follows. They are used nowhere; substituting one for its
definition must violate the property that `PROJECT.json` names with it, which
shows that the property is able to fail.

### TimestampStore

The variables `tss`, `tssQ`, `item`, `tssItems` and `tssValues` are the
variables of the same names and the `tssItem` structs; `exch` has the locals
(client ID, timestamps, request, response) of every goroutine between
`handleRequest` and `updateTXTimestamp`. `stamped` is auxiliary: the transmit
timestamp last assigned to the exchange that a client knows by a receive
timestamp, be it the one of `handleRequest` or the one measured later. Like
`updateTXTimestamp`, it knows an exchange by client and receive timestamp only.

`handleRequest` is four actions, by its branches: the client has an item, there
is room for one, another client is evicted for it, or the store is full of newer
clients. `updateTXTimestamp` is two: the exchange is found (and updated, or
removed with or without its item when no better timestamp is available) or it is
not there any more. `WriteFails` is each `continue` between the two calls.
Requests that are rejected before `handleRequest` change nothing and are left
out. The inner loop of `handleRequest` that increments a repeated receive
timestamp ends with the first free one; the model says that, in `UniqueRxt`,
without the loop. `Time64FromTime` keeps the wrap-around of NTP time.

No order is assumed between clock readings: receive and transmit timestamps come
from different clocks, which may be stepped.

### TssQueue, TimestampStoreHeap

`Less`, `Swap`, `PushBack` and `PopBack` are the methods of `tssQueue`; the rest of
`TssQueue` is container/heap of the Go library (external), on which the code relies.
`HeapPush`, `HeapPop`, `HeapFix` and `HeapRemove` are what the calls do before their
first comparison; the loops `down` and `up` are actions, `MoveDown` and `MoveUp` for an
iteration that swaps, `DownReturns` and `Return` for the one that does not, and `op`
says where the call is. That `down` has moved nothing, after which `Fix` and `Remove`
call `up`, is `at = from`. Positions count from 1. `keys` is auxiliary: what is in the
queue. `Push`, `Pop`, `Remove` and `Fix` are the calls with what the code does to the
item at the same time.

`TimestampStoreHeap` composes the two: its queue is the instance `Heap` with the
clients as keys and the queue values of the items. A worker whose call of the heap is
under way holds `tssMu`, and no other enters; the other effects of `handleRequest` and
`updateTXTimestamp`, which nobody sees before the mutex is released, are those of the
step that begins the call. `handleRequest` calls the heap twice when it evicts an item:
`todo` is the item that is pushed after the pop. The decision to evict, and what is
evicted, come from the front of the array, and `tssQ` only records what is in it.

### KeyProvider

`now` is Go's monotonic clock. `Current` is two actions, with and without
`generateNext`, which reads the clock again. `Get` changes nothing and is an
operator. `issued` is auxiliary: cookies with the key they were made with and
the time. The overflow of the ID (the code panics) and its 16 bits in a cookie
are out of reach at one key a day.

### NtsCookies

`data` is `Fetcher.data`; the two keys are named by the key exchange they are
from. `FetchData` is an action per outcome: a cached cookie, a connection that
fails, an exchange that fails after some cookies were read, one that is
rejected, and one that succeeds. Over TLS, `dialTLS` replaces the data before
the exchange; over QUIC the data of `dialQUIC` is ignored and the exchange
changes the old data. A cookie has an identity, its association and the epoch of
the server's keys, instead of bytes; a server answers only cookies of its epoch.
The lengths of extension fields are kept where they matter, in `CanEncode`.
A key exchange returns at most `numStoredCookies` cookies: the client does not limit
them, the server of the repository sends that many.
A client runs one measurement at a time in this model.

### InterleavedClient

A measurement is `MeasureClockOffsetIP`, or what a goroutine of
`MeasureClockOffsetSCION` does for one client: up to three attempts, each with
its own socket. `prev` has the fields of `c.prev`; `reference` says only
whether there is one, as the client has one server. `loc` has the locals of an
attempt, `pc` where it is: before the request (`send`), after it without a
transmit timestamp (`sent`), reading responses (`wait`). `scion` tells the two
clients apart, which differ in the limit on the age of the last exchange (`<`
and `<=`) and in the reset by `MeasureClockOffsetSCION`. All attempts share the
deadline of the measurement's context; when it is over, the attempts that are
left fail at once. Every call has a deadline, as in `Run`.

The server is `TimestampStore` with room for one of two clients, so that any
request of the other evicts the client. Each worker takes a request
(`ServeRequest`, `ServeOther`), writes the response (`Write`) and updates the
transmit timestamp (`Update`), with the time at which the response left or
without it. In between, the client may already have its response and another
worker the client's next request. Requests stay in the network and are served
late or again; what is lost is never served.

Time advances with every event, so that clocks are read in the order of the
events, and the client's clock differs from the server's by a constant. This is
the case in which the algorithm promises something; drifting and stepped clocks
are left out, as are the filter, NTS (see `NtsCookies`) and errors that a server
of this code does not send. `exact`, `faults` and `base` are auxiliary.

### OffsetCollection

A round is `measureOffsetToRefClks`: a context with a timeout, a goroutine per
clock with its own state in `gor`, the collector, the goroutine that drains the
channel afterwards, and the midpoint, for which the slice is sorted in place, in any
order of equal offsets (`slices.SortFunc` is not stable).
Channels are unbuffered; sending and receiving is one step. One group of clocks
is modelled: the reference clocks and the peers have their own channels, slices
and contexts, and `Run` only waits for both. The guard of `MeasureClockOffsets`
against a second call is left out: `measureOffsetToRefClks` takes the
`ReferenceClockClient` by value, every call has its own counter.

### SyncLoop

A `Round` is an iteration of `Run`: measure both groups, limit and combine the
offsets, `Do`, sleep. `err` is the error of the clock, which moves by the step, the
kernel's frequency and the drift. The PI controller keeps `freqAddend`; the frequency
itself is read back from the kernel, which rounds and limits it. With the gains of
the code (1/5 and 1/20) and 100 quanta to a unit the products of `Do` are whole
numbers, so that floating-point numbers are not needed; the quotient by 20 is
rounded like the kernel's scaled ppm. A clock that is measured in interleaved mode
reports the error at the exchange of the round before, as `InterleavedClient` shows
and a `Sample` of the code does, unless that exchange is too old. A measurement that
fails is an offset of 0, and the reference clocks then still count, as in `Run`; all
measurements of one of two groups may fail for ever (`down`).
The offsets of a group are those of correct clocks here: `FaultTolerance` of
`OffsetCollection` is the reason. The filter is left out; its first samples pass it
unchanged.

`Synchronized` says that the error gets into a band around 0 and stays there, in all
these cases but one, which it names: the clock is off by the threshold of the PI
controller or more, the limits allow a correction that is a step, and offsets are late
by a round (`StepsLate`). The clock may then be stepped forth and back for ever (an error
of 12 becomes 0, -12, -12, 0, 12, ...), as `clock_steps` shows; this is the default
configuration with NTP clocks and limits that are not reached. `Synchronized` allows for
nothing else in that case: the clock is synchronized or stepped again and again.

### SystemClock

`Step`, `Adjust` and the end of an adjustment are atomic by the mutex; goroutines of
earlier adjustments are still asleep when later ones start, and sleep until a time of
the clock that steps move. Only the identity of an adjustment is compared in the code
(`adj == adj.clock.adjustment`), and only that is kept: `current`. Frequencies are
named by the adjustment they are of. `Do` of the PLL is an action per mode and
outcome; `mdt` and `dt` are the times since `t0` and `t`. `StepByCaller` is a
step with `SystemClock.Step` between two calls of `Do`. The check of the epoch in `Do` and
its reading of the clock (`pll.go:32-37`), between which the mutex is free, are one step
of the model: nothing in the repository steps the clock while a PLL runs. Steps of the PI
controller, which do not change the epoch, are not part of this module either; a
service has one of the two.

### ScionServer

A packet is wherever it is: in the network, at a socket of a host, answered, dropped.
Sockets, and what their loop does with a packet, are those of `runSCIONServer`: SCMP
is answered or, if it is an echo reply at the end host port, forwarded to the pinger;
UDP to another port is forwarded from the end host port only; a request is
authenticated if it has the option, with the key that `FetchHostASKey` has or
gets, and answered also if there is no key. The authenticated requests are of one client
host for one service, so that the cache is one key per socket: the map by AS and the
comparison of protocol, ASes and host (`fetcher.go:66-72`) are left out. Routers (external) deliver to the end
host port or, as newer ones do, directly to the port. A host can be a server
and a client.

### TxTimestamps

The kernel (external) numbers the packets of a socket and queues a timestamp with
the number, in time, late or never; `ReadTXTimestamp` takes the first of the queue,
if one is there within a millisecond. `txid` is the variable of the loops. A timestamp
that is late stays in the queue and is read for a later response. `StampResync` does
not exclude that; it says that the loop recovers: of responses that are written while the
queue is empty and stamped in time, counted by `inTime`, at most the first is not
stamped with its own timestamp.

### ScionPaths

`Update` is `update` of the path cache, at any time. `MeasureClockOffsetSCION` is a
sequence of small steps on its own copy of the list of paths: `StartRound` takes the
copy, `KeepPath` or `ResetClient` deals with each client in turn, `BeginSample` and
`Pick` are the two loops of `Sample`, which keeps the chosen paths at the front of the
list, and `Assign` hands them out and starts the goroutines; `PickFails` and
`NoPathFound` are the errors on the way, after which clients that were reset stay so.
What a
client has learnt is kept as the fingerprints of the paths it is about.
In the local AS there is one path, without interfaces and so without
a fingerprint: no client ever keeps it, and client and filter are reset in every
round (`copies = 0`). An AS that is configured twice (`copies = 2`) has its paths in the
cache twice, and two clients can then measure over the same one; `PathsDistinct` is about
an AS that is configured once.

### Csptp

`SendSync`, `SendFollowUp`, and for each packet that is read `Receive` or
`Unexpected`, with the counter of retries as in the loop: it is compared by `!=`,
and also grows with accepted packets, so that after an accepted packet at the limit
only the deadline ends the loop. Offsets use the corrections in 2^16ths, cut off by
the shift. The server is external: `server_csptp_ip.go` reads requests and does
not answer yet. The UTC offset of a response is left out: the code uses it for the
two delays it logs and not for the offset it returns.

The sequence ID changes only when an exchange succeeds, so that the client takes a
response to one that has failed for its own; requests and responses reach the other side
also after their exchange has failed. `OffsetWithinDelay` bounds the error for both
kinds of responses, by the mean path delay and the time that passed between the sending
of the request that was answered and `t0`. Nothing bounds it if the Sync message and
the Follow Up message are of two exchanges, which the code does not exclude.

### ShmClock

Both sides access the segment part by part in the order of addresses, as a copy of
the struct does; a sample is the number of its writing. The provider of the
repository writes in mode 0, in which nothing protects a reader from a torn sample;
`SampleUntorn` is about mode 1, with a writer that follows the protocol in the
comment of `shmTime`: what a call returns was written at once, and is later than what the
call before has returned, so that no sample is returned twice. A sample that is written
just before the reader clears `valid` is lost, which is accepted. (The comment has the reader clear `valid` also when the counts
differ; the code leaves it set and tries again.)

## The runs

| Run | Instance | Shows |
|---|---|---|
| `store_workers` | 2 clients, 2 workers, a store of 1 item of 2 exchanges, 4 requests | the store is consistent and interleaved responses are right |
| `store_heap` | 4 clients, 1 worker, a store of 3 items, every swap a step | the front is a smallest item, positions are right, clients are isolated |
| `tss_queue` | 6 items, 4 queue values, any sequence of calls | positions are right at every swap, and an operation leaves a heap behind |
| `key_provider` | the periods of the code in units of 12 h, 12 days, 4 cookies | cookies live 2 to 3 days, at most 3 keys are kept |
| `nts_cookies` | a pool of 3, 3 key exchanges, 11 cookies, one server restart | no cookie is used twice, no mix of associations, the pool is refilled |
| `offset_collection` | 4 clocks of which 1 is faulty, 2 rounds | rounds end with an offset of their own measurements that one faulty clock cannot move, and leave no goroutine behind |
| `client` | IP and SCION client, 2 workers, 2 measurements, 1 fault besides losses (2 if one is a failed read) | offsets are right within half of the round trip delay; without faults a measurement ends in interleaved mode |
| `client_clock` | the same | violated, see below |
| `components` | see below, one component per behaviour | twelve properties of seven components |
| `clock_steps` | the default configuration, a clock that is 12 units ahead, a threshold of 10 | violated, see below |
| `nts_request_fits` | the lengths and numbers of the code | violated, see below |
| `nts_failed_exchange` | the same | violated, see below |

Why the bounds are enough:

* `store_workers`: in a store of one item every new client evicts the other,
  while a worker is between its two steps; with two exchanges per item there are
  additions, replacements of the oldest values, and removals of one and of the
  last. Four requests are enough for a full item, an eviction and a return of the
  evicted client. Readings go from 0 to 2 in an era of 4, so that timestamps
  repeat, are incremented, and wrap around. The proofs have no bounds.
* `store_heap`: `heap.Fix` and `heap.Remove` need three items to move one in both
  directions of an array of the store; the heap alone is checked with six items
  (three levels), where a removal can move the last item up in another subtree. The
  proofs have no bounds.
* `key_provider`: 12 days are four generations of keys; the delays include one
  longer than the validity. The proof has no bounds.
* `nts_cookies`: a pool of 3 can be partly used, used up by losses, and filled up
  with fewer cookies than asked for. Its
  packets have room for two of the three cookies, as those of the code have for
  seven of eight, so that the panic of the first finding is among the behaviours.
* `client`: a measurement of one to three attempts and another one after it,
  which refers to its last exchange or, after a sleep, finds it too old. One
  fault is each of: a request that is repeated or late, an eviction, a response that
  cannot be written, a restart, a transmit timestamp that is missing at the client
  or the server; a lost packet or a failed read may come on top, and two failed reads
  end an attempt. The era of 128 is not reached.
* `offset_collection`: four is the smallest number of clocks with which a fault
  is tolerated; two rounds are what a late result and a reused slice need.

* `components`: the control loop has every combination of: reference clocks, peers, both,
  or both of which one group never answers; offsets that are current or late by a round;
  corrections that are limited or not; errors on both sides of the threshold, without
  drift or with one of half of what the kernel can compensate. One more round fails
  (with two, `Synchronized` holds, too). Its states are finitely many, as the integral
  settles or the steps repeat. The system clock has the delays of the code, steps in
  both directions and three goroutines. Two of six requests are on
  their way together, between a client and two servers of which one is a client,
  over two epochs. Four numbers of packets wrap around while two timestamps are late.
  Two clients share three paths or two, of which they have some in common, an AS
  configured once or twice or the local one. CSPTP has two exchanges, the second of
  which can meet all that the first has left, one retry and three packets, so that both
  ways out of the loop and the missed limit occur; corrections are 0 and 1.5
  units. Shared memory has two samples, so that a copy can be of both.

Symmetry is used only for safety properties of sets of interchangeable clients,
workers and keys. The other instances have an action `BoundReached` that
stutters where the bound is reached, so that any other deadlock is an error;
`components` checks no deadlocks, as its components stop at different bounds.

### Fairness

`OffsetCollection` assumes weak fairness of the steps of
the loop's own goroutines (start a round, stop collecting, take the offset), of
the timer of the context, and of the draining goroutine of every round: the Go
scheduler runs a goroutine that can run, and timers fire. It assumes nothing of the
measurements themselves: they may hang for ever (a read in a key exchange over
TLS has no deadline). It assumes nothing of the choice in `select` either, which is
why the collector need not receive a result that is ready before the timeout.

`SyncLoop` assumes weak fairness of `Measure`: the loop runs for ever. Apart from a group
that is down, rounds in which a measurement fails are finitely many in a behaviour. `ScionServer`
assumes, for each packet, that a router delivers it or loses it, that the worker at a
socket reads it and that the client reads its answer; nothing is assumed of
the time at which epochs end.

### What the violations show

* `nts_request_fits`: "Add cookie extension fields here s.t. 8 cookies are
  available after response" (`net/nts/nts.go:85`). With one cookie left, the
  request has 8 cookie fields of 128 bytes and does not fit into the 1024 bytes
  of `MaxPacketLen`; `EncodePacket` panics. Seven requests in a row that stay without
  a response lead there, for instance after a restart of the server.
* `nts_failed_exchange`: "FetchData returns either cached data or requests new
  Data by performing a NTS key exchange" (`net/ntske/fetcher.go:100`). A key
  exchange that fails after a cookie was read leaves it in `f.data`; the next
  `FetchData` returns it as cached data, without keys or with those of another
  association.
* `client_clock`: `panic("unexpected system clock behavior")`
  (`net/ntp/validation.go:33`). The clock behaves as expected; the transmit
  timestamp of the request was not available within the millisecond that
  `ReadTXTimestamp` waits, the client read the clock instead, and the response had
  arrived, with its receive timestamp, before that.
* `clock_steps`: "Offset threshold indicating that, if raeched, a clock step is to be
  applied" (`core/sync/adjustments/pi_linux.go:64`). In the round after a step the
  client, in interleaved mode, reports the offset of the exchange before the step; the
  clock, right by now, is stepped by the same amount again, and back two rounds later.
  The PI controller does not use `SystemClock.Step`, so that the epoch, by which filters
  notice a step, does not change; the interleaved state of a client is not tied to the
  epoch at all. (A step also leaves the part of the last adjustment in the kernel that
  `Do` has computed to be reverted.)

The panic of `client_clock` has a second cause, which shows with `Start = 120` and
`MaxFaults = 0` in `ClientClock.cfg`: `TimeFromTime64` moves a time that is half an
era before the reference time to the next era, but none that is after it to the one
before ("using a reference time t0 to resolve the NTP timestamp era ambiguity",
`net/ntp/ntp.go:77`). When the last exchange began before the end of an era and
ended after it, the next request finds it ending 136 years before its beginning.

## The proofs

Theorems hold for every value of the constants that satisfies the assumptions next
to their declarations, which TLC evaluates in the runs. Each proof module defines an
inductive invariant, `IInv` or one per component, with a lemma for the initial states
and one per action.

### TimestampStoreProofs

For any number of clients and workers, any capacities, any era longer than an item's
capacity, and any clock readings and requests:

* `StoreCorrect`: `TypeOK`, `QueueTracksMap`, `RxtsUnique`, `QvalCovers` and
  `StoredIsStamped` are invariants;
* `GaugesCorrect`: `GaugesExact` is an invariant;
* `InterleavedCorrect`: `InterleavedServesStamp` holds in every step;
* `IsolationCorrect`: `ClientIsolation` holds in every step.

`IInv` is `TypeOK`, `QueueTracksMap` and `ItemInv` of every
client: receive timestamps differ, the queue value covers them, transmit
timestamps are those in `stamped`. The parts need each other: a late update
reaches the intended exchange only because receive timestamps are unique, and the
queue value covers what is left after a removal only because it covered it before
and the removed values are found. Lemmas about the operations on one item
(`PutValues`, `RemoveValues`, `LoweredQval`, an update) come first, then a lemma per
action. For the gauges the stored values are counted as the set of places they are
in (`Held`), so that a change of one item is a union or a difference of finite sets;
a sum over the clients would need induction.

Assumed: capacities are positive, the era is longer than an item, the set of clients
is finite.

### TssQueueProofs

For any set of items and any queue values, and any sequence of calls:
`PositionsCorrect` (`PositionsKept`, at every swap) and `OrderCorrect` (`OrderKept`,
between calls).

That the array is a heap is not inductive: while an item moves it may be out of order
with its parent and with its children at once. `HeapInv` says what is in order then.
On the way down (`HeapBut`): all pairs without the item, and its parent with its
children (`Around`), so that a child can take its place; once it has moved also its
parent with the item itself (`AboveOK`), which is why `Fix` need not call `up` then. On
the way up (`HeapButUp`): all pairs but the parent with the item. What remains when no
iteration swaps is a heap. These are lemmas about sequences of numbers (`HeapChanged`,
`DownMoved`, `UpMoved`); another one per action applies them to the array. `OpInv` says
which part of the array a call works on: all of it, or all but the item to be
removed. That the front of a heap is a smallest item (`HeapFront`) is a statement about
all paths from the front; it is proved by the first position at which it fails, instead
of by induction.

Assumed: queue values are integers, 0 among them.

### HeapProofs

For any number of workers and clients, any capacities, clock readings and requests:

* `HeapImplementsStore`: `HSpec => Spec`, the store with its heap implements
  `TimestampStore`, with the same variables. A call of the heap is invisible but for its
  beginning. All that `TimestampStoreProofs` shows holds for it, among it `HeapIsolation`
  (`ClientIsolation`, which the run checks with the heap);
* `HeapUsed`: `HSpec => Heap!Spec`, the code uses the heap as `TssQueue` allows it to be
  used. In particular every change of a queue value comes with the call that
  restores the order, and a value that stays needs none (`HKnownClient`, `HFound`: the
  conditions on the maximum receive timestamp in the code are the right ones);
* `QidxCorrect` (`QidxIsPosition`) and `FrontCorrect` (`FrontIsMin`).

Neither refinement can be proved first: the front is a smallest item only if the heap was
used correctly, with the items of the map, and the items are those of `TimestampStore`
only if the front is a smallest one. `HInv` therefore joins the inductive invariants
of both, `IInv` and `QInv` (of an instance of `TssQueueProofs`), by `LockInv`: while
`tssMu` is free no call is under way and nothing is left to be pushed, and what is to be
pushed is already in the map. Each action of `HNext` is shown to be a step of `Next` or
a stutter, and a step of the heap's `Next` or a stutter; the induction then is that of
the two modules.

### KeyProviderProofs

For any positive validity, any renewal interval not longer than it, and any delays:

* `CookieLifetime`: `TypeOK`, `CookieUsable`, `CookieExpires` and `KeysSpaced` (keys
  are more than a renewal interval apart) are invariants;
* `KeysLimited`: `KeysBounded` is an invariant: with `n` keys in the map, `n - 1` renewal
  intervals are shorter than the validity (`n` is at most 3 with the periods of the code).

The properties of cookies are not inductive: they speak of the time since a cookie was
issued, and hold because of when its key was generated. `IInv` adds that no ID is above
the current one, that the current key is the newest, and, in `IssuedInv`, that a cookie
was issued within a renewal interval of its key, and that a key which was deleted had
expired. The number of keys follows from their spacing by a least counterexample on the
number of keys.

### NtsCookiesProofs

For any size of the pool, of packets and of cookies: `PoolTyped` (`TypeOK`),
`CookiesUsedOnce` (`NoCookieReuse`), `PoolOfOneAssociation` (`OneAssociation`) and
`PoolRefilled` (`RefilledAfterResponse`, a step property). The properties speak of the
pool; a cookie leaves it and comes back in a response. `IInv` follows it: `FlightInv`
(the pool is what `FetchData` left of it), `RespInv` (a response has new cookies of the
association of the request, not more than were asked for) and `MadeInv` (no
identity is used before it is made). `Good` says of a pool that its cookies are
different, of one association and never sent. (Key exchanges that fail half-way are
among the behaviours. Over TLS they leave cookies without keys, over QUIC possibly with
the keys of an earlier exchange, which is the second finding; `OneAssociation` excludes
the keys of another association over TLS only.)

### OffsetCollectionProofs

For any finite set of clocks and of faulty ones among them, any rounds, and whatever
measurements return, however late: `CollectionTyped` (`TypeOK`), `OffsetsCurrent`
(`CurrentMeasurements`), `OffsetTolerant` (`FaultTolerance`) and `ResultsAwaited`
(`ReceiverWaits`: for every goroutine that has yet to send there is one that will
receive, the safety core of `NoGoroutineLeak`). The properties speak of the slice when
it is offered; `KeptInv` says what is in it while it is filled, `OfferedInv` that
sorting gives each measurement one place, `PendingInv` counts the goroutines that have
yet to send, and `IdleInv` says that a collector starts with nothing received. Fault tolerance is a
counting argument: among the `f + 1` smallest (largest) offsets at least one is of a
correct clock, so the element at place `f` from either end is between correct
ones. The slice may be sorted in any order of equal offsets.

### ClientProofs

For any number of workers, capacity of an item, clock offset and limit on the age of an
exchange, and any number of measurements and faults, over IP and SCION: `ClientTyped`
(`TypeOK`), and

    ErrorBounded:             Spec => [](OneEra(now) => ErrorWithinDelay)
    InterleavedModeRegained:  Spec => [](OneEra(now) => InterleavedAgain)

`OneEra` is the premise that the client's clock is still in the era of the start and
not more than half of one from it. Without it `ErrorBounded` is false: at the end of an
era `TimeFromTime64` resolves a timestamp to the wrong era, the second cause of
the panic of `client_clock` above. An era is 136 years.

The server is an instance of `TimestampStore`, and the lemmas of
`TimestampStoreProofs` about its actions are used for it (`SP`). The bound itself is
arithmetic once all four times are known to be those of one exchange: the request left
before it arrived and the response likewise (`t0 <= t1 + Theta`, `t2 + Theta <= t3`).
That they are is the invariant `OfOneExchange`, with a part for each place in which a
timestamp can be on its way: what the server has stored (`StoredInv`) and what
its workers are about to store (`WorkersInv`), the client's previous exchange
(`PrevInv`) and current attempt (`AttemptInv`), requests and responses in the network
(`NetInv`, `AnswersInv`) and the result (`ResultInv`).

`InterleavedModeRegained` has two more premises, that the workers are finitely many and
that `Window` exceeds their number by more than 5. Time is counted in events: between the
transmit timestamp of a first attempt and the second attempt lie the 5 events of an exchange
(two of the server's timestamps, the departure and the arrival of the response, the new
request), and one for every worker whose response has yet to leave. `Window` is three
seconds in the code, and the run's 8 satisfies the premise. With a shorter one the second
attempt could come too late to refer to the first. The argument is in three invariants,
each within the era (`AgainInv`):

* `HeldInv`: the server's values are in order, and those of an exchange that is not
  finished have the preliminary transmit timestamp. The timestamp of an update is later,
  so `updateTXTimestamp` changes the value and does not remove it.
* `DistinctInv`: the client's two timestamps of an exchange differ, also when the transmit
  timestamp was read late, so a response tells by its origin timestamp which mode it is in.
* `Undisturbed`: where a measurement without a fault can be. While it waits
  (`WaitingOK`), whatever can reach its socket is a response that it will accept (`Proper`),
  in interleaved mode at the second attempt; before the second attempt (`SendingOK`)
  the server holds the exchange of the first, and the time that has passed and the
  workers that have yet to send are within the window (a sum that no step of the server
  increases, `CalmStep`).

### ComponentsProofs

A step of `Components` is one of a component or leaves its variables unchanged, so each
proof is about one component.

* `SlewEnded` (`SlewOwned`) and `LoopUnpanicked` (`NoPanic`) of `SystemClock`, for any
  steps within an adjustment, by `Do` or between two calls of it, and any number of
  goroutines. `ClockInv` adds `NoticedInv`:
  a loop that does not know of a step yet compares times that are in order.
* `StampsMatch` (`StampResync`) of `TxTimestamps`, for any range of IDs. `TxInv` adds
  `StampInv` (the timestamp of a packet that was written with the queue empty and stamped
  in time is the first in the queue, and after it is read the loop expects the kernel's
  next number, whatever was late before) and `RoomInv`
  (how many timestamps can be in the queue or still to come).
* `SamplesWhole` (`SampleUntorn`) of `ShmClock`, for any number of samples and retries.
  `ShmInv` adds `WriterInv` (what is written when the counter has which value),
  `CopyInv` (the parts that a reader has copied so far) and `LaterInv` (a sample that is
  valid, or will be, in the segment or in the copy, is later than the one returned last,
  which needs that `valid` is cleared).
* `NoForwardingLoop` (`ForwardedOnce`) and `KeysCurrent` (`AuthKeyCurrent`) of
  `ScionServer`, for any hosts, requests and epochs. `ScionInv` adds, per packet,
  `ForwardedInv` (a packet that was forwarded is where nothing forwards it again) and
  `AuthInv` (a packet is authenticated with the key of its MAC).
* `OffsetAccurate` (`OffsetWithinDelay`) of `Csptp`. `CsptpInv` adds `SequenceInv` (the
  sequence ID counts the exchanges that have succeeded), `DatedInv` (what belongs to one of
  these has an earlier ID), `EarlyInv` (what is in the network was requested before the
  open exchange or by it), `OnceInv` (a request is received once), `AnswerInv` (what the packets of an exchange say of it
  and of each other) and `AcceptedInv` (what the client has accepted are such packets).
  Assumed: fewer than 65536 exchanges, so that sequence IDs do not come round.
* `LearntOverPath` (`LearntOnPath`) and `PathsDiffer` (`PathsDistinct`) of `ScionPaths`,
  for any lookups and any number of clients. `PathInv` adds `RoundInv` (a client that has
  no path, and was asked, has forgotten all it knew), `LearntInv` (the filter is about
  the path of the last exchange, in every stage), `SampleInv` (the bounds of the two loops of `Sample`)
  and `FreeInv` (the paths that can still be assigned are different and no client has
  one of them). The latter is the point of the stage in which paths are replaced: places
  behind `pos` still have the paths that were not considered, those between `picks` and
  `pos` may repeat one that was chosen, and are never assigned. Clients without a path
  are numbered by the cardinality of those up to them.
  Assumed: the daemon returns no path twice in one lookup, and no path is nil.
* `CorrectionsLimited` of `SyncLoop`: whatever is measured, and however often it
  fails, the correction of a round, be it a step or what the controller adds to the
  frequency, is within the limit that the code sets for one of the groups. It is an
  invariant of the proof module only. (`freqAddend` is in quanta, of which the
  proportional gain makes 20 of a unit of the offset.) `SyncInv` also says that the
  frequency is one that the kernel accepts.
* `ComponentsTyped`: `TypeOK` of `Components`, all seven of them, from the invariants
  above with `Results` and `SegmentInv`.

### Model-checked only

* Liveness: `RoundEnds` and `NoGoroutineLeak` of `OffsetCollection`, `Synchronized` of
  `SyncLoop`, `AnswerArrives` of `ScionServer`. The prover has no rules for fairness.

## Not modelled

Packet formats and their parsing, cryptography, SCION packet layers, QUIC
and TLS, socket options and control messages, the PHC and Meinberg drivers (single
ioctls), `SysAdjustment` (one system call), command line,
configuration, metrics other than the gauges of the store, benchmarks, logging.
The filters and the gains of the PLL compute with floating-point numbers
and are out of reach. The CSPTP server queues conversations and does not answer
them yet. Timestamps of measurements are left out of
`OffsetCollection`: `Run` ignores them. Two measurements at once on one client or
fetcher, after a timeout, are not modelled: they race without a lock, and any
outcome is possible.

## Plan

Every safety property that a passing run checks is proved. To come: bounds of the error
that the loop of `SyncLoop` converges to, as far as they are invariants.

# A TLA+ model of anytls-x

anytls-x is a proxy transport: a client multiplexes proxied streams over pooled
TLS sessions to a server, and a bulky stream may be moved ("rail-switched") to a
dedicated connection while it runs. This directory models the parts of it whose
correctness depends on the order in which goroutines, frames and timers act. TLC
checks the models on small instances; TLAPS proves the safety of the session pool, the
pipe, the rail-switch, the handshake detector, the skip list, the record shaper and the
service for every value of the constants.

Paths such as `client.go` are relative to `src/session/` unless said otherwise.

## Inventory

| Part | State | Operations | What makes it correct |
|---|---|---|---|
| Session pool (`client.go`) | `sessions`, `idleSession`, `die`, counters | `CreateStream`, `openOn`, `createSession`, `streamDieHook`, `idleCleanup`, `Reset`, `Close` | a session has one owner; none is lost, leaked or torn down in use; `max_session` slots come back; `Reset` misses none that is published, `Close` none |
| Session (`session.go`) | `streams`, `dieOnce`, `connBroken`, `activeStreams`, `buffering`, SYNACK timers | `Run`, `OpenStream`, `recvLoop`, `writeControlFrame`, `streamClosed`, `Close` | SYN follows settings; a close terminates and releases every stream |
| Stream (`stream.go`) | `dieErr`, `dieOnce`, its pipe | `Read`, `Write`, `Close`, `CloseWrite`, `HandshakeSuccess/Failure` | dies once, gives its session back once |
| Rail-switch (`migration.go`) | token registry, `bConn`, `bWriteConn`, cut-over flags, half-close flags, watchdog | offer, dial, attach, two barriers, feeders, half-close, teardown | bytes stay in order and complete across both seams; the carrier never leaks |
| Detector (`migration_detect.go`) | record scanners, handshake state, volume gate | `observeUplink`, `observeDownlink` | a record is seen once however it is cut; TLS 1.2 stays; the gate counts after the handshake |
| Pipe (`../pipe`) | rendezvous channels, `wrMu`, deadlines | `Write`, `Read`, closes, `Set` | a `Write` reports what was read; closes and deadlines wake the blocked |
| Heartbeat, idle loop, window-update camouflage (`session.go`) | `connLock`, `buffering`, `lastHeartRespNano`, `recvBlocked`, `idleReady` | `heartbeatLoop`, `heartbeatProbe`, `idleLoop`, `writeWindowUpdateWaste` | a dead link is found, a live session is not condemned, no goroutine outlives its session |
| Settings, SYN/SYNACK on the server (`session.go`) | peer version, `migActive`, padding source | `recvLoop` cases | a peer without the record shaper is refused; loops start after the settings |
| Frames and shaping (`frame.go`, `record_shaper.go`), padding (`../padding`) | padding source, cached config, frame counter | padding to targets, splitting, chunking, parsing, sampling | lengths fit their two bytes; records have the sizes of the scheme in force; counts are exact |
| Skip list (`../skiplist`) | linked levels | insert, remove, search, iterate | is the ordered map it claims to be, also while iterated |
| Service, client front end (`../service.go`, `../client.go`) | user table, padding source | authenticate, fall back, hand over | a client is admitted by one read; everybody else reaches the fallback untouched |

They interact through calls (pool → session → stream → pipe), hooks (a stream's
die hook returns its session to the pool; a session's die hook leaves the maps),
frames between the two ends, and shared state read without a common lock:
`activeStreams`, `connBroken`, `dieErr` and the migration flags are atomics or
live under another lock than the code that acts on them. That is where the hard
behaviours are: decisions on values that are stale when used, two paths releasing
the same thing, frames and carrier bytes arriving in another order than they were
sent, a control write failing while its caller holds a lock, and the racing ends of
a stream, a session and a client. `PROJECT.json` lists these hazards by line.

## Modules

* **SessionPool** — the pool with the parts of sessions and streams it drives. A
  step is one critical section, one atomic access, one `sync.Once` body or one
  write. A caller's program counter `pc[c]` walks `CreateStream`, with a step between
  the return of the dial and the publication in `Client.sessions`; `closePC[s]` is
  the goroutine that won a session's `dieOnce`, `hookPC[x]` the one that won a
  stream's; `synTimer[x]` is a SYNACK timer with its goroutine. `cleanPC`, `resetPC`
  and `downPC` are `idleCleanup`, `Reset` and `Client.Close`. The skip list is the
  ordered set of sequence numbers it stores. `Events` selects what the network and
  the peer may do, `Operations` which of the client's other operations run.
* **SessionPoolProofs** and **PoolAccountingProofs** — theorems about the pool: types
  and ownership in the first; the session map, `activeStreams` and the whereabouts of
  idle sessions in the second, which extends the first.
* **RailSwitch** — both ends of one migrating stream and their sessions: the writer,
  the closer, `recvLoop`, the feeder, the watchdog and `Session.Close` on each side,
  `clientStartCarrier` on the client and `MaybeAcceptCarrier` on the server. A
  payload chunk is its number, so order is visible. Taking `writeMu` is a guard on
  actions; it is held across steps exactly where the code blocks inside it. A
  *scenario*, fixed in the initial state, says how much is written and which faults,
  closes and half-closes may happen.
* **RailSwitchProofs** — its five safety invariants for every scenario.
* **HandshakeDetector** — the scanner, the detector and both taps over flows of
  records, cut into pieces at every position. A flow says after how many records of
  the other direction each record is sent, so that only causally possible
  interleavings are explored. `tap[t]` is where a tap stands in `serverMaybeTrigger`:
  before the load of `tapsDone`, `Ready`, the `CompareAndSwap` or the offer, so that
  the two goroutines race for it.
  `WellFormed` says what the comments of the code take for granted of a flow.
* **HandshakeDetectorProofs** — the scanner reports every record once, for every flow and
  every cut; what the detector and the taps make of them.
* **Pipe** and **AtomicPipe** — the rendezvous pipe with its deadlines, and what it
  promises: Writes are consumed one after the other and report exactly what was
  consumed. A deadline's cancel channel is a generation number. `readCloseError` loads
  its two errors in two steps, and a close stores its error and closes `done` in two.
* **PipeProofs** — `Pipe` implements `AtomicPipe`, and the safety of its deadlines.
* **SessionLink** — one client session with its server, from `Run` to `Close`: what
  shares `connLock` and the connection. `pc[g]` is where a goroutine is: the writers
  of the streams, `recvLoop`, `heartbeatLoop`, the goroutine that writes a probe,
  `idleLoop` and a caller of `Close`. A blocking write holds the lock across steps.
  The two loads of the heartbeat's verdict are two steps. Records wait in `up` and
  `down`; the link may die in either direction, and a write that finds no room blocks
  until there is room, its deadline passes or `Close` aborts it. `Close` first closes
  the pipes and then waits, with migration, for the stream's `writeMu` (`HoldsWriteMu`).
* **SkipList** — nodes with their links on every level, one step per call, and the
  iteration of `idleCleanupExpTime` node by node. `SessionPool` uses the ordered set
  this implements.
* **PaddingScheme** — what a scheme's text configures and which lengths it samples,
  as operators; **RecordShaper** — the records a session writes under schemes that
  the server replaces; **Service** — the auth packet sized by such a scheme, the
  service that reads it, and the scheme it pushes back. The last two use the first.
* **SkipListProofs** and **WireProofs** — the skip list is the sorted map; what a peer
  reassembles, how records are sized and whom the service admits, for every scheme.
* **DataLemmas** — what folds, recursive functions, extremes and sequences compute, for
  those two and `HandshakeDetectorProofs`.
* **MC...** — the flows, scenarios and symmetry the runs use.

Network connections are modelled from how the code uses them and marked external in
the map: a write is accepted, blocks or fails; a read returns data in order, EOF
after the peer's half-close, or an error.

## Runs

| Run | What it shows |
|---|---|
| `PoolUncapped` | With `max_session` 0 a session is in one pair of hands (`Ownership`): one live stream per session, no idle cleanup under a stream, no broken session left open. |
| `PoolCapped` | Under the cap callers multiplex, against `idleCleanup` (with `minIdleSession` 1) and `Reset`: no healthy session is lost, `activeStreams` is exact on open sessions, a dead session frees its slot, cleanup keeps the minimum, `Reset` closes everything published before its second snapshot. |
| `PoolClose` | Under fairness every session ends closed after `Client.Close`, the ones that racing callers dial or pool included. |
| `RailSafety` | Bytes are in order and complete at EOF in every scenario; a graceful end never turns into a reset; the server's end of the carrier is always released. |
| `RailProgress` | Under fairness what is written arrives, whichever flag is set first and also when the carrier is refused; `waitCarrier` and `Session.Close` return when the stream or the session ends, amid blocked writes and missed deadlines, unless `writeMu` is kept for ever. |
| `Detector` | The scanner reports every record once; the gate opens after the handshake; TLS 1.2 and, in tls-only mode, opaque flows stay; the offer is made once, whichever tap wins the `CompareAndSwap`, and is made to every bulk flow. |
| `Pipe` | `Pipe` implements `AtomicPipe`; a Read that a close ends names an end that did close, `io.EOF` only if the writer closed first; no cancel channel is closed twice; closes and deadlines wake the blocked. |
| `SessionLink` | Under fairness a link that stays dead is noticed, also half-open under traffic; a probe's writer returns, and after `Close` every goroutine ends, unless a data write keeps the stream's `writeMu`. A live session is condemned only in the windows `LiveSessionSpared` names. |
| `Sequential` | The skip list is the sorted map through every insert, removal and removing iteration; the peer reads back what was written and counts agree after failures; records follow the scheme in force; a client is admitted by the single read exactly if its packet is within the first record, as it is under every scheme without a single length above the cap. |
| `ReapSibling` | **violation**: a SYNACK timeout tears down a session that has just been given another stream. |
| `TailLost` | **violation**: after a graceful end the FIN on the mux overtakes the tail on the carrier, and the tail is dropped. |
| `WedgedLink` | **violation**: the heartbeat goroutine waits for `connLock` behind a data write stuck on a dead link, and nobody notices the link. |

Every property of a passing run has a mutant in `PROJECT.json`: a plausible slip in
the code that makes TLC report the property violated.

### Bounds

Two callers are enough for every pairwise race on a session; the remaining actors
(timers, hooks, cleanup, `Reset`, `Close`) run beside them. `PoolUncapped` has one
session and three calls, so that a session is opened, pooled, taken again and taken
once more; `PoolCapped` and `PoolClose` have two sessions and two calls under a cap
of one, the smallest instance with multiplexing, with a race past the cap check and
with two sessions for `minIdleSession` to choose among. Sessions are taken in
sequence order by both, so more of them add no new kind of step. `MaxDials` and
`MaxCalls` only cut behaviours off. `PoolUncapped` has every event but the SYNACK
timer, the most expensive one, and `PoolCapped` has that one: the
properties of `PoolUncapped` are proved for every set of events (see Proofs), and the
run also passes with the timer in place of `"probe"` and `"control"` (5.3 million
states). A SYNACK threshold of 1 makes one timeout reach it; the violation runs use 2,
below which a session is reaped only when alone.

In a rail-switch scenario the two or three chunks of a direction fall on both sides
of its seam in every split; the offer is triggered by a chunk of either direction,
so that further chunks are still written to the mux while the carrier is being set
up. `RailProgress` has, besides undisturbed and refused switches, a data write that
blocks for ever and control frames that miss their deadline (`StalledWrite`,
`MissedDeadline`). More chunks repeat one of these positions. The
detector's flows end exactly at the gate (`MinBulk` 12 stands for the clamp's
floor of the code, reached to the byte), contain an empty record and pieces up to
7 bytes, longer than a header and shorter than two records. The pipe has the writers
it has in the code (`recvLoop` and the feeder) and one reader, a Write longer than
the Read buffer, an empty Write, and two moves of the deadlines in all (`MaxSets`), of one or of both.

`SessionLink` names its surroundings in scenarios (`MCSessionLink`): an
outage during traffic in each direction and with camouflage, with migration and without, a target that takes no data, FINs and closes
at any moment, idle injection from the start or switched on by the server, and servers
the client has to refuse or that send no settings. `UpCap` and `DownCap` are 1: one
record fills a direction and the next write blocks, which is the only difference a
socket buffer makes. Three data writes up are one to flush the settings, one to fill
the dead uplink and one to get stuck. A recorded response spares at most one probe
(`fresh`), because the quiet window is required to be shorter than the interval.

`Sequential` runs three parts that share no state; `part` says which one moves, so
their state spaces add instead of multiplying. The skip list has keys 1 to 4 and
levels 1 to 4 (`MaxKey`, `MaxLevel`): nodes above, on and below the level of the list, one draw more
than the list has levels, and lists in which a removal empties the top. `DataSizes`
are the last size that is not split, the first in three pieces, the last that is
split, and one above two full records and above 2^16; `ControlSizes` are the empty
frame, one that reaches the largest default target and the largest the code accepts. Random draws take the ends of
their range and a middle. The schemes have reversed, outsized, missing, weighted and
unparseable values, and a single length that overflows the packet's buffer by a byte. `Bursts` are reads around the 32 bytes of the hash and the 34 of
the header; `RecordSizes` the smallest first TLS record and the largest.

Deadlock is not checked in the concurrent runs (it is in `Sequential`): callers and applications may stop when they are done.
Liveness properties take its place where progress is due.

### Fairness

Weak fairness is given to goroutines only: one whose next step is enabled takes it,
which Go's scheduler gives, and an armed timer fires. Nothing is assumed of the
network, the peer or the applications: a stream need not be closed, a blocked write
need not recover, no frame has to fail, `idleCleanup` need not wake, and the
detector need not reach its verdict. In `HandshakeDetector` both directions of the
relay keep running, without which no volume is ever reached. A session whose peer
has closed its connection sees its `recvLoop` end.

`SessionLink` separates what takes no time (`Prompt`: locks, flags, writes with
room, frames on a working link) from timers. A timer fires only when nothing prompt is left
(`Settled`), so that an answer on its way over a working link beats a timeout of
seconds; a slower peer is an outage. `Prompt` and the one-second timer of the waste frame are weakly
fair. The heartbeat's timers and the write deadlines are strongly fair: they come due
again and again, also when prompt steps keep interrupting `Settled`, and time passes. Idle
ticks, readers, targets, outages and their end are not fair at all.

Four liveness properties have a premise that the code does not guarantee, because what
they say is false without it (see Disagreements): `WriteMuComesFree` in
`AcceptorReleased` and `SessionCloseReturns`, `WritersMoveOn` in `ProbeReturns` and
`LoopsStop`. It says that the stream's `writeMu` is not held for ever; what is checked
is that nothing else keeps them: no lock, feeder, half-close, timer or signal.

## Proofs

Every theorem is about the specification without fairness and holds for all values of
the constants that satisfy the named assumption of its module. TLC checked each
inductive invariant on the instances of the runs before it was proved.

### Session pool

`PoolAssumption`: counts are natural numbers, the bounds and the threshold positive,
events and operations among the modelled ones. Nothing is assumed of `Callers`.

With any cap:

| Theorem | States |
|---|---|
| `TypeCorrect` | `TypeOK`, and that a caller's session and stream are defined wherever the code uses them (`CallersBound`) |
| `BasisAlways` | `Basis` and `DialedOnly`, on which the others rest |
| `ClosedLeavesMap` | `ClosedSessionLeavesMap`: a dead session frees its `max_session` slot |
| `ResetIsComplete` | `ResetClosesPublishedSessions`: no published session slips between the two snapshots of `Reset` |
| `ActiveStreamsAreExact` | `ActiveStreamsExact`: `activeStreams` of an open session is exact |
| `NoSessionLost` | `HealthySessionPooled`: no healthy session is lost |
| `MinIdleKept` | `CleanupKeepsMinIdle`: the cleanup keeps the configured minimum |

Under `MaxSession = 0`, the default:

| Theorem | States |
|---|---|
| `UncappedOwnership` | `Ownership`: a session is in one pair of hands |
| `UncappedExclusive` | `UncappedSessionsExclusive`: an open session carries at most one live stream |
| `UncappedCleanupSafe` | `CleanupSparesLiveStreams` |
| `BrokenReaped` | `BrokenSessionReaped`: no broken session stays open unnoticed |

None of these is inductive. The strengthening has layers, each proved from the ones
before, by one proof step per action:

* `Basis`. `FreshUntouched`: what has not been dialed or allocated is referred to by
  nobody. `Teardown`: the error paths of `openOn` run on closed sessions, unless the
  stream was never created. `StreamsHeld`: a stream that can still die on an open
  session is in its caller's hands, so that a die hook takes over from one owner.
  `DialedOnly`: lists and queues hold only dialed sessions.
* `Listed`: an open dialed session is not yet published (`Unpublished`), in
  `Client.sessions` or in the snapshot that
  `Client.Close` works through, and none is listed whose die hook has run.
* `OneHolder` and `Exact`: two callers never have the same stream, and the counter of
  an open session is the number of callers that are counted plus the number of die
  hooks about to decrement. Every step changes this account in one of five ways
  (`AccountMove`). Without `OneHolder` the death of one stream could take back two
  callers' shares. On a closed session the equation fails: the rollback and the die
  hook may both decrement.
* `JobsIdle`, `Failed` and `Pooled`: the die hook and the cleanup decide by
  `activeStreams` whether somebody still uses a session. With `Exact` that inference is
  sound, so a session they pass over is in use. `Failed` says that `openOn` gives a
  session up without returning it to the pool only when it is closed or broken.
* `Ownership` (uncapped): `Basis` with `OneOwner`, an open session is in the pool, held
  by one caller, in one stream's die hook or in the cleanup's list, exclusively;
  `NoReuse`, nobody reaches `leastLoadedSession`.

With a cap `OneOwner` is false, as `ReapSibling` shows, and so are
`CleanupSparesLiveStreams`, `SynFollowsSettings` and `BrokenSessionReaped` (see below).

### Pipe

`PipeAssumption`: lengths are natural numbers, the Read buffer is not empty, Writers and
Readers are disjoint. `PipeProofs` proves `TypeCorrect`, `ClosesOnce`
(`NoDoubleClose`), `VerdictNamesTheCloser` (`VerdictNamesCloser`) and `PipeIsAtomic`, the
refinement of `AtomicPipe`, for any number of concurrent Writes and Reads.

The invariant is `TypeOK` with `Handshake` (`wrMu` is held by the one Write that is past
it; a Write waits for its answer exactly while one Read has its bytes), `Deadlines` (only
channels of the current generation or before are closed, so a new one is open),
`Verdicts` (which close won and which errors are stored, for every point between the
two loads of `readCloseError`) and the type of the delivered bytes. The mapping counts as taken what a Read has copied and
not yet acknowledged, so the Read's copy is the abstract step and the acknowledgement
is a stutter. That needs `Handshake`: with two Reads in reply the count would be
ambiguous.

### Rail-switch

`RailAssumption`: a scenario writes a natural number of chunks, and its events and sides
are among the modelled ones. `RailSwitchProofs` proves `TypeCorrect`, `ChunksInOrder`
(`InOrder`), `EofIsComplete` (`EofComplete`), `TeardownIsGraceful` (`GracefulTeardown`)
and `ServerReleases` (`ServerCarrierReleased`), for every scenario and not only the ones
`MCRailSwitch` lists. `InOrder` follows from a chain of facts, the parts of `Inv`:

* `Locks`: a blocked write holds `writeMu`, so no cut-over or close overtakes it;
* `OneOffer`, `Carrier`: the token is offered once and how far the ends of the carrier
  are;
* `Barriers`: a side diverts its writes and queues its barrier frame in one critical
  section, and the other side's feeder starts only behind that frame;
* `Placing`: what a side wrote is first what its living peer got, then what is on the
  mux, then what is on the carrier, with nothing on the mux behind the barrier;
* `Ends`, `Feeding`: what only a dead stream does, and why a feeder that reads the end of
  the carrier has drained it.

### Detector

`DetectorAssumption`: a header has at least two bytes, the gate and the pieces are positive,
and flows are sequences of records. Four theorems hold for every such flow, every gate and
every cut into pieces, two of them only for well-formed flows:

| Theorem | States |
|---|---|
| `OffersOnce` | `OfferedOnce`, from an invariant that ties `triggered` to the history of offers and to the one tap that has won the `CompareAndSwap` and not yet offered |
| `TypesHold` | `TypeOK`; no scanner buffers more than one header |
| `ScannerExactHolds` | `ScannerExact`: each record is reported once, when its first body byte (or the header of an empty one) has been fed |
| `GateHolds` | `GateAfterHandshake`, if `WellFormedFlows` |
| `StaysHolds` | `StaysOnMux`, if `WellFormedFlows` |

The heart is `ScanAt(records, pos, scanner)`: fed the first `pos` bytes of a direction, the
scanner is in the header or in the body of the record those bytes end in and has reported
the records begun, unless a record was too long and it has given up. `ScanStep` shows
that one byte preserves it and that what is reported is the next record's type, length and
first byte; `DownByteKeeps` adds what the detector makes of the report, and an induction over
the piece gives the whole call. `DetectorInv` is `ScanAt` of the downlink while it is
scanned, with the types and with `Verdicts` (the taps leave the relay at the end of the
detection only, and an offer means that the detector is ready).

`FlowInv` is about well-formed flows. `Starts`: the client's first record is read before
the server's answer is written. `Flights`: the client's second record follows the server's
flight, so the gate opens behind it. `Stay`: a flow that is to stay has not passed the
record that gives it away. The last one needs `ScanAt`: after ServerHello the client can
only be read again when the second handshake record has been relayed, and by then the scanner
has reported it, so that `Read` never sees the client's flight first, whichever goroutine
runs.

`WellFormed` is what `migration_detect.go` assumes in its comments: both TLS ends start with
a hello, a TLS 1.2 server sends a second handshake record before the client goes on, a
TLS 1.3 client goes on behind the server's flight, and what answers a ClientHello with a
ServerHello is TLS. `MCHandshakeDetector` asserts it of all flows of the run, and
that the two flows behind the refuted comments (see below), early data and coalesced
handshake records, are not well formed. `OffersOnce`, `TypesHold` and `ScannerExactHolds` hold of those too.

### Skip list

`SkipListAssumption`: the list has levels for its keys (at least three, and no more keys than
`2^(MaxLevel - 2)`), so that the draw of `Insert` never runs out of levels. `SkipListProofs` proves
`ListCorrect` (`SkipInv`) and from it `SortedMapHolds` (`SkipListIsSortedMap`). `SkipInv`
is inductive:

* `Linkage`: on every level a node is followed by the least greater node that reaches it;
* `Topmost`: the list has as many levels as its highest node;
* `Contents`: the bottom level is the map, with its values;
* `Passing`: the iteration that removes expired sessions has met the keys below its
  position, and the next one it will visit is still linked.

The searches are recursive functions over the links. `WalkFinds` and `PrevsFind` show, by
`Linkage`, that they end at the last node before the key on every level, whatever
levels the nodes drew; `NodeRemoved` and `NewNode` show that `Remove` and `Insert` then
restore it.

### Records and service

`ShaperAssumption` and `ServiceAssumption` say that what is pushed is a scheme, that is,
what any text parses to (`IsScheme`; nothing is assumed of its numbers beyond being numbers), that a
write is not empty, and that a record can hold the auth packet. `WireProofs` proves

* `ShaperCorrect` (`ShaperInv`): schemes, buffered frames and an unfinished split
  write keep their bounds, above all that what a write still owes fits the pieces it
  has left;
* `PeerReassemblesHolds` (`PeerReassembles`) and `RecordsShapedHolds` (`RecordsShaped`) from it,
  for every scheme, size and failure;
* `AuthAdmittedHolds` (`AuthAdmitted`): a client is admitted exactly if its password is
  known and its packet is within the first record; it is, and fits the buffer it is built
  in, whenever the client's scheme is `Capped`, that is, has no single length above 1100;
  whatever connects is admitted with a known hash only, and what follows starts behind
  the padding.

They rest on what a scheme's text can configure: every target and bucket is in order,
the default is a scheme, and lengths fit the two bytes of a frame. `RecordsShaped` sums the
frames of a record; `BytesOfAppend` extends that sum frame by frame.

### Induction over data

The induction theorems of the library take an operator as a parameter and cannot be
instantiated here. `DataLemmas` does induction with sets: the set of numbers for which a
statement fails has a least element if it is not empty (`WFMin` over the order of `Nat`),
and that element is contradicted (`NumberInduction`). A recursive function is the
`CHOOSE` of a function that obeys its equation; to use the equation, one function that obeys it
must be shown to exist. `LeftFold` builds it level by level for folds over `1..n`,
`Iteration` and `FoldFollows` turn a fold over sets into a function of the number of
steps, and `Flattened` applies that to `FlattenSeq`. The folds of the models (`EndOf`,
`Bytes`, `Feed`, `FlattenSeq`) are unfolded once to their definitions in the
community modules and reasoned about like this from then on.

### Model-checked only

* Liveness under fairness (`PoolClose`, `RailProgress`, `Detector`, `Pipe`,
  `SessionLink`) is outside the prover's reach.
* `ReapSparesSiblings` and `TailDelivered` are false in general, which the violation runs
  show.
* `SessionLink`'s one action property, `LiveSessionSpared`, depends on a timer firing
  only when nothing prompt is left (`Settled`), which is defined by `ENABLED`.

## Disagreements between code and documentation

The three violation runs, quoted in `PROJECT.json` under `findings`, are statements
of the repository that the code does not keep. Modelling met the following others,
each reproduced by changing constants of a run as given:

* *The idle cleanup may close a live stream.* Under a cap `idleCleanupExpTime` unpools
  an expired session with no active stream and closes it after the unlock; in between
  `leastLoadedSession` may give it a stream, against `README.md:119-121` of the
  repository ("is never torn down by the idle timer with a live stream on it") and
  `client.go:231-232`. `CleanupSparesLiveStreams` with `PoolCapped`'s constants, but
  `MinIdle = 0` and no events.
* *A carrier may leak on the client.* A stream that ends during the dial has run
  `closeCarrier` before `bConn` is published, against `migration.go:393-395` ("so the
  dedicated connection never leaks"). Invariant `CarrierReleased` with
  `RailSafety`'s constants and `Scenarios <- EarlyEnd`.
* *`Session.Close` may wait for a stuck data write.* With migration on, the default,
  `closeLocally` needs `writeMu` (`migration.go:422`), which `migWrite` holds across the
  write (`stream.go:101-112`), and comes before the `SetWriteDeadline` that would abort
  it, against `session.go:216-218` ("Close must never block waiting on a write stuck on
  the no-deadline data path"). `SessionCloseReturns` and, on the server,
  `AcceptorReleased` without their premise and with `Scenarios <- StalledWrite`.
* *The probe's goroutine and the session's loops may then hang as well*, against
  `session.go:1070-1072` ("Close()'s negative write deadline ... ensure this goroutine
  always returns rather than leaking"): `Close` does not get as far as that deadline.
  `ProbeReturns` and `LoopsStop` without `WritersMoveOn`: violated in the scenarios with
  migration, kept in those without.
* *A broken session may be left open.* Under a cap, a failed `openOn` rolls
  `activeStreams` back without the reaping that `streamDieHook` does
  (`client.go:248-258`). `BrokenSessionReaped` with `MaxSession = 1`, `MaxDials = 2`,
  `Events = {"data"}`. This is also why `PoolClose` has no events that break a
  connection.
* *A SYN may precede `cmdSettings`.* `createSession` publishes the session before
  `Run`; `session.go:442-443` relies on the opposite. `SynFollowsSettings` with
  `MaxSession = 1`, `MaxDials = 2`.
* *`activeStreams` may underflow on a dead session*, decremented by `openOn`'s
  rollback and again by the die hook, against `client.go:188-189`. `ActiveStreamsExact`
  is therefore about open sessions.
* *`Session.Close` may wait for itself.* A control frame that misses its deadline
  under `writeMu` runs `Session.Close`, whose `closeOnStreamEnd` needs `writeMu`.
  `SessionCloseReturns` without its premise and with `Scenarios <- MissedDeadline`.
* *`Reset` may miss a session.* One that has been dialed and not yet published
  (`client.go:284-304`) is in neither of the two snapshots and stays open, against
  `client.go:98-100` ("Reset closes all existing sessions"). `ResetClosesEverySession`
  with `PoolCapped`'s constants.
* *`headers_target` sizes more than the first flush.* The SYN of every later stream of a
  session goes through `WriteInitialFlush` as well (`session.go:869-878`), which that
  comment intends, against `README.md:271` of the repository ("affects only the
  once-per-session initial flush") and `README.md:229-232`, which pads a bare `cmdSYN` from
  `pad_targets`. `RecordsShaped` follows the code; `HeadersTargetOnFlushOnly` with
  `Sequential`'s constants is violated.
* *A pushed scheme may switch idle injection on* for a session that began without it
  (`session.go:526-529`), against `README.md:269-270` of the repository ("cannot enable
  it on a session created with it disabled"). `SessionLink` has that push.
* *A live session may be condemned while its reader is slow.* `heartbeatProbe` loads
  the response and then `recvBlocked`; a reader that comes back in between leaves both
  loads unfavourable, against `README.md:135-138` of the repository ("the probe leaves
  the session alone"). A probe that cannot be written because both directions are full
  is not asked about `recvBlocked` at all (`session.go:1086`). `LiveSessionSpared` grants the code both
  windows; without `"reader"` among its causes it is violated.
* *A slow target on the server condemns the client's session.* The server's `recvLoop`
  hands data to a target and answers no probe meanwhile; `recvBlocked` only knows the
  client's side. `LiveSessionSpared` without `"target"` among its causes.
* *A torn waste frame does not tear the session down*, although `session.go:1148-1149`
  says it must be: `connBroken` is set, the streams go on, and the heartbeat stops at
  the mark.
* *A scheme with a single padding length is not capped* (`padding.go:295` returns
  before line 303), against `padding.go:300-302`. A client with a pushed scheme such as
  `pad_dist=1400-1400:1` may not be admitted by the service's single read.
  `AuthAdmitted` without `Capped`. Above 16350 bytes the packet does not even fit its
  buffer (`src/client.go:81-89`, taken to be 16384 bytes), and `Extend` panics; so the
  two bytes that announce the length are never too few.
* *`FindRange` includes its last key*: it ends at `upperBound(last)`, against
  `skiplist.go:151` ("last is not includeed"). Nothing in the repository calls it.
* *The gate may open early with 0-RTT data*, against `migration_detect.go:39-41`.
  `GateAfterHandshake` with `Flows <- Early`.
* *TLS 1.2 may be migrated* when the server coalesces its first flight into one
  record, against `README.md:330` of the repository. `StaysOnMux` with
  `Flows <- Coalesced`.

## Not modelled

* `cmdSYN` and SYNACK on the server (`HandshakeSuccess`, `HandshakeFailure`): a stream
  is registered, reported once, and a SYN before the settings is answered by an alert.
  What a SYNACK or its absence does to the client is in `SessionPool`.
* `CreateProxy`'s write of the destination, behind `CreateStream` and in front of the
  first payload.
* Weights and probabilities of padding targets and buckets, random payload, Md5 and
  the separators of a scheme's text.
* Frame payloads other than their lengths, and a partly written frame other than the waste frame.
* The node constructors of the skip list (generated allocation) and the utilities.
* Several streams migrating on one session at once: the model has one stream per
  session pair in `RailSwitch`; streams share only the mux, whose frames are ordered.

## Plan

1. `SessionPool`, then its ownership theorem. *Done.*
2. `RailSwitch`: order, completeness and release of the carrier, then their proofs. *Done.*
3. `HandshakeDetector` and `Pipe` with its abstraction. *Done.*
4. `SessionLink`: heartbeat, idle loop, camouflage and the settings exchange. *Done.*
5. The server's streams: SYN, SYNACK, `HandshakeFailure`, composed with the SYNACK
   timer of `SessionPool`. *Left.*
6. `SkipList`, `PaddingScheme`, `RecordShaper` and `Service`. *Done.*
7. Proofs: the pool with any cap (`PoolAccountingProofs`), `Pipe => AtomicPipe`, the
   safety invariants of `RailSwitch`, `OfferedOnce`. *Done.*
8. Proofs: `DataLemmas`; the skip list, the record shaper, the service, and the scanner and
   detector byte by byte. *Done.* With them every safety property of a passing run but
   `LiveSessionSpared` is a theorem.

# Verification of rusty-modbus

TLA+ models of the rusty-modbus crates, TLC runs that check them on small
instances, and TLAPS proofs that hold for every instance.
Paths are relative to `src/crates/`.

## The system and its parts

rusty-modbus is an asynchronous Modbus stack on Tokio.

| part | crate | state it owns | modelled by |
|---|---|---|---|
| connection pool | `rusty-modbus-pool` | idle entries, per-class charges, waiters, maintenance tasks | `ConnectionPool` |
| client session | `rusty-modbus-client` | transaction ring, reader and deadline tasks, admission, reuse verdict | `ClientSession` |
| typed methods | `rusty-modbus-client/src/methods` | the page of a paged read | `ClientMethods` |
| PDU codec, owned responses | `rusty-modbus-codec`, `-frame/src/owned.rs` | none | `Bytes`, `RequestPdu`, `ResponsePdu` |
| server lifecycle | `rusty-modbus-server` | connection tasks, request admission, drain | `ServerLifecycle` |
| request handler, stores | `rusty-modbus-server` | tables of bits, registers, files, queues | `RequestHandler`, `DataStore` |
| a call from method to store and back | | | `RequestPath`, refining `Device` |
| TCP transport and listener | `rusty-modbus-tcp` | admission counter | `ServerLifecycle` |
| framing | `rusty-modbus-frame` | read buffers | `Framing` |
| gateway, RTU over TCP | `rusty-modbus-gateway`, `-rtu` | connections, tasks of broadcasts | `Gateway` |
| RTU assembler | `rusty-modbus-rtu/src/assembler.rs` | candidate, deadline, counters | `RtuAssembler` |
| serial transport | `rusty-modbus-rtu/src/serial.rs` | end of the last transmission | `SerialLine` |
| TLS, simulator, CLI, Python | | | see *Not modelled* |

The pool lends a transport to a caller. The caller may wrap it in a client
session. When the session ends, its verdict (`SessionReuseSafety`) decides
whether the pool may lend the transport again. `ConnectionPool` therefore treats
the verdict as an outcome of the session (`session_drained`, `session_retires`),
and `ClientSession` shows what the verdict `ReuseEligible` guarantees
(`EligibleMeansSilent`). Verdict and hand-off need no composition beyond that:
`shutdown_and_return` (`rusty-modbus-pool/src/client_handoff.rs:262`) takes the
session by value, so no method of it can still run when the verdict is read.

The life of a request is cut in two in the same way. `ClientSession`,
`ServerLifecycle` and `Gateway` know about loss, delay and order and nothing of
what a PDU says; `RequestPath` knows every octet of it and has a connection that
delivers.

## ConnectionPool

One action is one critical section of the `PoolInner` mutex, or one synchronous
step outside it. `Notify::notify_waiters` is called after the mutex is released
and is a step of its own: an actor in `owe` has unlocked and not yet broadcast.

* **State.** `idle`, the three active counters, `shutting_down` and the two
  lifetime counters are the fields of `PoolInner`. A transport is an identity in
  `Conns`, `at` gives its address (`NoAddr`: it does not exist), `age` the clock
  ticks since `last_used`. `dirty` is a ghost variable: the transport has
  carried traffic whose end nobody vouches for.
* **Owners.** Every RAII owner of a charge is a stage of a caller or of a
  maintenance task: `reserved` is a `PendingReservation` (with its tentative
  victim in `evicted`), `lease` and `raw_lease` a `PooledConnection`,
  `client_both` and `client_one` the two halves sharing a `RetirementGuard`,
  `session`, `eligible`, `retire` and `vault` the reusable hand-off.
* **Acquisition.** `try_acquire_locked` is split by its results (reused,
  reserved, no room). The non-consuming socket peek is an observation of the
  environment: any matching idle entry may turn out adverse.
* **Time** is a `Tick` that ages idle entries. Deadlines and retry delays may
  elapse at any moment. Ages saturate at `MaxAge`, counters at `MaxCount`.
* **Left out:** metrics, logging, backoff delay values, dropping the pool
  without `shutdown`.

## ClientSession

One action is one poll between two suspension points, one lock of a slot or of
the state, or one atomic store, so every interleaving of a multi-threaded
runtime is covered. The drops of the guards at the end of one attempt
(`DispatchGuard`, `TransactionRegistration`, the sink mutex) are one step.

* **Operations** run once each: `start`, the admission steps, then attempts
  (`begin_attempt`, `lock_sink`, `begin_dispatch`, `send` or
  `send_interrupted`, `receive`), `backoff`, `leave` and, for a typed method,
  `finish_typed_response`. `drop_operation` is the caller dropping the future at
  any suspension point.
* **Ring.** `slots`, `next_id` and the identifier arithmetic of
  `TransactionManager`, with a small modulus so that the wrap that skips
  identifier zero happens within a run.
* **The peer** answers a request at most once, after any delay, in any order,
  with a good answer, "server busy" or a bad one (wrong unit, wrong function or
  undecodable). `wire` holds requests whose answer has not been read.
* **Lifecycle.** The four statements of `abort_inner` that other threads can see
  between are four actions, and `coordinate_shutdown` is five.
* **Ghost.** `exposed` counts dispatched attempts that were not answered "busy".
* **Left out:** `abort_coordinator` when the last client handle is dropped;
  panics of the background tasks.

## ServerLifecycle

The TCP and the TLS server share one lifecycle; `tls`, chosen initially, says
which one runs. A step is what one actor does between two acquisitions of the
state lock, publications on a watch channel or awaits.

* **Sockets** are opened once each. `conn` is where a socket is: in the listen
  backlog, in the supervisor's hands (`accepted`, `admitted`), in `serve_connection`
  (`starting`, `handshake`), in the loop of `handle_connection`, `ended` but not
  joined, or `gone`.
* **Supervisor.** `check_deadline` is the head of the loop, then one action per
  branch of the `select!`. The socket is accepted in one step, passes the check
  under the state lock in the next (`admit_connection`) and gets its task in a
  third (`spawn_connection`), so a seal may come before or after the check.
  `drained`, `abort_all` and `forced` are `drain_connections`.
* **Guards.** The counters change where the code takes or drops a guard;
  `task_ends` drops all guards of a task at once, since no await separates them.
  The semaphore's permit is dropped with its `HandshakeGuard`, so
  `active_handshakes` stands for both.
* **stop().** `seal` takes the lock, `publish_shutdown` sends on the watch
  channel, `ensure_coordinator`, and then the subscribe, check and await steps of
  `wait_for_outcome`. The coordinator records the outcome and publishes it in two
  steps.
* **Drop** aborts the supervisor and the coordinator at their next await, and
  the supervisor's `JoinSet` takes the connection tasks with it.
* **Ghost.** `cut` records sockets whose admitted request an abort interrupted.
* **Left out:** event counters of accepted, denied and refused sockets, backoff
  lengths, what the request handler computes.

## The path of a call

`Bytes`, `RequestPdu` and `ResponsePdu` are the codec on sequences of octets:
decoder and encoder of every request and response, and beside each borrowing
response decoder the owned one of the frame crate. `DataStore` is the store: the
packed `BitTable`, `InMemoryStore`, and the default adapters of the `DataStore`
trait over a store of the embedding program that may fail or return a wrong
number of values (`fault`). `RequestHandler` is `process_request` with its
validation. `ClientMethods` is what each typed method refuses, encodes, and makes
of a response. `RequestPath` runs them:

* **Callers** make one call each: `call_method`, then `receive` or `expire`.
  `receive` may send the next page of a device identification.
* **Server.** A handler that makes one store call is one action (`process`): the
  in-memory store takes one lock per call. The two file-record handlers await a
  store call per group and are `begin_file_record`, then `read_group` or
  `write_group` per group.
* **Embedding program.** `set_cell` is one of the setters of `InMemoryStore`.
* **witness** is a history variable: it records what a response in flight will
  mean to its caller, which the refinement mapping needs before the caller does.

`Device` is the abstract specification: plain tables, each call carried out at one
instant or rejected without a trace, file transfers group by group in order.
`ImplementsDevice` is the refinement. `Device` has no octets, no packed bits, no
byte counts and no encodings, and computes every limit from the numbers of
registers and objects.

## Framing and Gateway

`Framing` holds the MBAP codec, the RTU encoder, the CRC (table-driven, as in the
code) and both policies that find the end of an RTU frame in a TCP stream. A
decoder is a function of the octets read so far.

`Gateway` has one task per client connection, which takes requests one at a time:
`receive`, then `connect_with_framing_policy`, `rtu_send`, `rtu_recv` and their
failures, then `reply`. A broadcast becomes one task per device
(`broadcast_task`) that nobody waits for. Octets of both sides arrive in pieces
(`arrive`, `device_octets`); `octets` is what a sequence of ADUs is on the wire. `heard`
counts, per device, how often each ADU was written to it. Devices are external and answer as `Replies` says:
properly, with an exception, garbled, for the neighbour, with another function,
twice, or not at all. Timeouts may fire whenever their operation is pending.
`stop` and `drop` end the accept loop and leave the tasks running, as in the code.

## RtuAssembler and SerialLine

`RtuAssembler` models the two entry points, `observe_byte` and
`observe_deadline`; `last_observed = 0` stands for `None`, since no timestamp is
smaller. `line` and `delivered` are history variables, from which `IsFrame`
says what an RTU frame is without mentioning the assembler.

`SerialLine` puts `SerialSink::send` and a second station on one line, in ticks of
time, and hands what is heard to an assembler. The driver is external: it takes
`PORT_SIZE` octets, shifts one out per character, and a flush returns when the
last has left. Octets that a timed-out send leaves in the buffer are written
before the next frame, and so are those of a send that the driver failed
(`send_fails`). `encode`, the encoder of the frame crate, is a constant:
the runs give it the one of `Framing`. The scheduler may lose `SLACK` ticks, so that octets are
handed over after timers that were due later. `air` is the history of the wire, and
`overtaken` records that a timer which fired later than a waiting octet closed a
candidate before the octet was handed over; such an octet is rejected, as its time is
before what was observed. The crate does not connect its
assembler to `SerialTransport`, whose read half uses `RtuCodec`; the listener is
whoever uses the assembler.

## What is checked

| run | instance | shows |
|---|---|---|
| `pool_demand` | 2 callers, 1 priority and 2 plain addresses, budgets 1 and 1, 3 transports | budgets, single ownership, counter conservation, clean reuse, no lost wake-up, `Exhausted` only when full |
| `pool_standing` | 2 callers, 1 device with budget 2, replenishment and probe | exact charges, a sealed pool stays empty, completion means quiescence, a deficit wakes maintenance |
| `pool_liveness` | 1 caller, 1 device, replenishment and probe, fairness | shutdown completes, replenishment restores its target |
| `pool_warm_up` | 2 callers, 1 device, one-shot warm-up, fairness | the warm-up task ends, a shutdown releases the waiting caller |
| `client_session` | a read and a mutation over TCP or RTU, 2 slots, 1 retry | each caller gets its own answer, one outcome per attempt, mutations are not repeated, a reusable session is silent |
| `client_liveness` | a read and a broadcast, abort by the user and by the drain deadline, fairness | operations end, `shutdown` returns |
| `client_abort` | a read and a broadcast, drain-deadline abort, fairness | **violated**, see below |
| `server` | 2 sockets, 1 reservation, 1 handshake permit, 2 stop callers, drop, fairness | exact counters, limits, a seal stops admission, stop returns, on a server at rest, `Drained` interrupts nothing |
| `requests` | 2 callers, small tables with every pair of ten calls; every other call, at and beyond its limits, alone or beside a setter | `ImplementsDevice`; the two decoders agree on the responses and on damaged copies of them, their function codes included; a rejected file write has written nothing, and the handler validates every group before the first store call |
| `gateway` | 2 clients, 3 ranges on 2 devices, strict and compatible framing, 7 kinds of answers | each client gets its own answers in order, devices hear nothing twice, every request is answered |
| `serial_line` | 2 sends; 1 send beside a stray octet; 6 octets with pauses of 3, 6 and 7 ticks (t1.5 = 3, t3.5 = 7) | the assembler accepts every octet of the wire that no timer overtook and returns exactly the frames they make; the sink's frames are t3.5 apart |
| `serial_silence` | a request, its answer, the next request | **violated**, see below |

**Bounds.** Two callers and a budget of one make every contention between two
parties happen; a third transport allows an active, an idle and a victim at
once. Two slots with modulus 8 and first identifier 5 make the counter wrap and
skip zero while the other slot is taken. One retry is enough to have an old and
a current attempt of one operation on the wire. Two sockets are one more than
the listener admits, and two `stop` callers meet in every order.

Most operations of the request path only read or check their arguments, so one
caller beside a setter reaches their cases; the ten calls that share cells are
run in every pair. The tables are a few cells wide, except for the calls at the
limits of the protocol, which need tables of 2003 coils, 126 registers and a file
of 130 records. In the gateway a single client is read octet by octet, and two
clients frame by frame. On the line, a frame is four octets, the maximum is five,
so that six octets overflow; tokens end at 8 and timestamps at 34, so that octets
are also rejected because no deadline can be represented. The pauses of a station
are exactly t1.5, between the two limits and exactly t3.5. `HORIZON` lets two
frames and their silences pass.
`CHECK_DEADLOCK` is off in the client and server runs: operations and sockets are
used once, and a closed session or server really stops. The other modules say in
an action of its own when everything is done (`AllDone`, `Rest`, `time_is_up`).

**Fairness.** Tokio polls runnable tasks, so started futures, live tasks, due
broadcasts and a started shutdown are weakly fair. Attempt deadlines pass because
every attempt has one. A broadcast's send ends because the TCP sink has a write
timeout (`rusty-modbus-tcp/src/config.rs`). Nothing is assumed of the peer, nor of
callers returning leases. In the server, nothing is assumed of handlers or sends
either: the drain deadline elapses, and a task told to abort is dropped instead of
polled the next time, so it cannot pass await after await (strong fairness; a
handler that never yields is excluded, as the documentation of `stop` says).
`Replenished` and `WarmUpEnds` carry their own premise,
that a connector tried again and again eventually succeeds. In the gateway the
connection tasks run and octets that a client has sent arrive; an await on a device
ends because every one of them has a timeout. `requests` and the serial runs check
safety only and assume nothing.

**Weaker than one might expect.**

* Over RTU a late answer with the same unit and function cannot be told from the
  current one. `OwnResponse` then only promises that the session is already
  marked `Retire`, and `MutationSentOnce` is a property of TCP sessions.
* `FilesWrittenWhole` excuses `ServerDeviceFailure`: a store that fails in the
  middle leaves the groups before it written. The codec has checked the groups before
  the handler sees them, so a malformed later group cannot arrive there; the property
  therefore also gives the handler's own validation damaged copies of each request,
  and asks that it accepts what the codec accepts and no more.
* `DecodersAgree` excepts function code zero, see the remarks.
* `SealStopsAdmission` is about the locked checks. The task of a socket that was
  admitted before the seal may be spawned after it; it finds the shutdown published,
  or its first request refused.
* `Replenished` accepts a full budget in place of an idle transport, where full means
  used up by others than the maintenance task's own reservation.
* The gateway compares unit and function of an answer. `OwnAnswersInOrder`
  therefore asks that the answer was written by the device on the connection of this
  very request, and the connection is new for each one. The comment at
  `rusty-modbus-gateway/src/gateway.rs:232` also speaks of a response to an earlier
  transaction, which the comparison alone could not tell apart.
* Under the compatible framing policy a prefix of an answer that ends in a valid CRC
  is taken for the answer, which is the documented policy; the property allows
  exactly that for these routes, and only there.
* `FramesApart` says nothing after a send that timed out or that the driver failed,
  whose octets are written before the next frame.
* `HeardFramesReturned` ties the accepted octets to the wire only while no octet was
  overtaken and every deadline is representable (`Representable`); otherwise it says
  that the frames returned are those of the octets that were accepted.
* The invariants of `client_session` are checked without aborts, which are in
  `client_liveness`; the proofs are about sessions with every abort.
* `OwnResponse` and `MutationSentOnce` hold over TCP until identifiers come round to
  one whose answer is still under way, see the proofs.
* `find_evictable` keeps entries strictly older than its clock reading.
  `ExhaustedOnlyWhenFull` and `NoLostWakeup` state exactly that exception.

### Findings

`client_abort`: `abort_inner` empties the transaction ring before it publishes
the cancellation (`rusty-modbus-client/src/lifecycle.rs:282-283`). A request that
holds the sink lock can register and send in between, and then awaits its
channel (`client.rs:429`), which watches neither cancellation nor deadline, while
the reader and the deadline task are aborted. It is never completed, although the
documentation of `shutdown` (`client.rs:304`) says that remaining operations
receive `ClientError::ShuttingDown`.

`serial_silence`: the documentation of the serial transport
(`rusty-modbus-rtu/src/serial.rs:5`) says that the write half enforces the t3.5
silent interval before each subsequent transmit. `remaining_interframe_delay`
(`serial.rs:273`) counts from the end of the sink's own last transmission. An
answer that came in between has used that interval up, so the next request may
follow it without any silence.

Remarks met while modelling, none of them checked by a run of its own:

* Function code zero is rejected by the codec (`rusty-modbus-codec/src/decode.rs:145`)
  and taken for a vendor's by the owned decoder (`rusty-modbus-frame/src/owned.rs:651`),
  whose comment has every byte without the exception bit for a function code.
* `write_file_record` of the client refuses more than 245 octets of groups, while
  codec and server accept up to 251.
* The documentation of the `validate_*` functions
  (`rusty-modbus-codec/src/validate.rs:22`) rejects `address + quantity > 0xFFFF`; the
  code (line 167) accepts a sum of 0x10000, so that the last address can be used.
* `rusty-modbus-frame/src/rtu.rs:42` expects complete frames after the detection of
  silence; `serial.rs:97` gives the codec the driver's chunks as they come.

## What is proved

The theorems hold for every value of the constants that the named assumptions
allow. Each rests on an inductive invariant.

How the proof modules are laid out: lemmas first, the theorems of a component at the end
of the last module of its chain (`ConnectionPoolProofs`, `PoolCapacityProofs`;
`ClientStepProofs`, `ClientSessionProofs`; `RtuAssemblerProofs`, `SerialLineProofs`).
The facts about cardinalities and about a least natural number that the lemmas need are
the definitions of `Counting`, which they assume; `CountingHolds`, before the theorems,
proves them from the library, so that no theorem depends on an assumption other than
those on the constants. A leaf that names no prover is Zenon's, and `SMT` is cited where
arithmetic or functions need it.

**Pool** (`PoolAssumption`: finite sets of callers, addresses and transports, any
budgets; the names of the health task and of the shutdown are not those of a
caller or an address).

From `ConnectionPoolProofs`:

* `PoolTypeCorrect`: `Spec => []TypeOK`. `TypeOK` is not inductive: raw access
  marks `held[o]` dirty, which is a transport only because a lease has one.
  `OwnersInv` relates an owner's stage to its record and makes it inductive.
* `PoolChargesExact`: `Spec => []ChargeAccounting`. Every step is classified as
  `Charging` one owner, `Releasing` one owner or `Moving` none
  (`NextBooked`); the counters then follow the cardinality of the set of charged
  owners (`ChargingCounts`, `ReleasingCounts`).
* `PoolStaysEmpty`: `Spec => []SealedPoolKeepsNothing`.
* Lemmas on budgets: a class with n charges and idle set I that goes to m and J only as
  `Fits` says stays within its budget (`FitsWithin`, `BudgetKept`).

Also from `ConnectionPoolProofs`: `OwnershipInv` adds to `OneHome` what the stage of an owner
says about its hands (`HandsInv`), and to `CleanReuse` that a dirty transport is
held by an owner that knows (`DirtInv`), so that only a clean one is returned. Every
step moves transports in one of a few ways (`LeasingStep`, `RollbackStep`,
`DonatingStep` and so on).

* `PoolOneHome`, `PoolReusesClean`, `PoolConserves`: `OneHome`, `CleanReuse`,
  `Conservation`.
* `PoolShutdownQuiesces`: `CompletedMeansQuiescent`, from `SealInv`.

From `PoolCapacityProofs`: every step of an owner is `Proper`, that is, it changes each
class as `Fits` says, and if it leaves no broadcast due it made no room in a class that
had none (`Calm`). `WaitersInv` and `MaintainersInv` extend the two wake-up
properties to tasks that have looked and not yet gone to sleep, the moment where a
wake-up could be lost.

* `PoolBudgets`: `BudgetRespected`.
* `PoolWakesWaiters`, `PoolWakesMaintenance`: `NoLostWakeup`,
  `DeficitWakesMaintenance`.
* `PoolExhaustedIsFull`: the action property `ExhaustedOnlyWhenFull`.

**Client** (`ClientAssumption`), for any operations, slots, permits and retries,
over TCP and RTU and with every abort; the run `client_session` has none.
`ClientStepProofs` classifies the steps and shows that each keeps the ring
(`RingInv`: a slot is held at the index of its owner's identifier, exactly until
the owner has a result), the mutex (`SinkInv`) and the permits (`CountInv`).
`ClientSessionProofs` proves `SessionInv`, which adds that until the session is
marked `Retire` the frames on the wire are the current requests of operations that
still wait (`WireInv`):

* `SessionTyped`, `SessionSlots`, `SessionDeadlines`: `TypeOK`, `SlotOrResult`,
  `DeadlineArmed`.
* `SlotsSuffice`: `SlotFound`. Every taken slot belongs to another permit holder, so
  one is free; and of the identifiers tried, before or after the counter skips zero,
  as many follow each other as there are slots.
* `ReuseIsSilent`: `EligibleMeansSilent`.
* `OwnAnswerOrRetired`: whoever gets anything but the answer to its own request is
  on a session to be retired.
* `AnswersAreOwn` and `MutationsOnce`: `OwnResponse` and `MutationSentOnce`, for the
  behaviours in which no registration takes an identifier that a frame still under
  way carries (`[][FreshIdentifier]_vars`). The premise is needed: identifiers have
  16 bits, and after 65535 registrations a very late answer has the identifier of a
  current request. With identifiers modulo 3 and two retries TLC shows such a
  behaviour; the run has too few attempts to come round.

**Server**: `ServerLifecycleProofs` proves, for every number of sockets and `stop()`
callers and all positive limits (`SocketsFinite`, `LimitsPositive`), from one inductive
invariant `Inv` (`ServerInvariant`):

* `ServerTypeCorrect` and `ServerCountsGuards`. `Books` joins the counters' types
  to `CountersExact`: a decrement stays a natural number because a guard is
  alive. Every step moves at most one socket, and `Recount` says what that does
  to the number of sockets in a set of stages. Books also needs that a plain TCP
  server has no handshakes.
* `ServerStopsAtRest`: `Joined` says that a finished supervisor has joined every
  task, which needs that a socket is in its hands only between accept and spawn;
  `Outcomes` ties a returned `stop()` to the verdict of a supervisor that was not
  dropped.
* `ServerDrainsHonestly`: `Aborts` says nothing is aborted before the deadline.
* `ServerSealLinearizes`: the action property `SealStopsAdmission`, step by step.

**Gateway**: `GatewayProofs`, for every routing table that `RouteTable::new` accepts
(`RoutesAssumption`) and finitely many clients with any limit, any requests that fit a
PDU and any devices that write octets (`ScenesAssumption`):

* `GatewayHeardAtMostOnce`: `Spec => []HeardAtMostOnce`. The property counts what a
  device heard, and a step writes what a task decided to write earlier. `BooksInv`
  keeps the account: what a device has heard of an ADU and what is still owed to it
  (`OwedTo`: a request about to be sent, a broadcast task not yet run) is no more than
  what was asked (`AskedBy`). A send moves one from owed to heard (`BooksSend`), and a
  send that fails may do so or forget it. A broadcast is owed to an address once because
  `all_backends` has one entry for it (`OneEntry`). That a request is taken once, and as
  the client meant it, is a fact about octets (`StreamInv`): what the read buffer and the
  wire hold together is the encoding of the requests not yet taken, wherever it is cut.
  `Decodes` proves that `MbapCodec::decode` then returns the next request and leaves the
  encoding of the others; `OctetsFrom` gives the recursion of the stream by an argument
  from a least counterexample; `SentIs` proves that the ADU for a device carries the
  request with a matching CRC.
* `GatewayConnectionsBounded`: never more clients are served than there are permits.

**Assembler**: `RtuAssemblerProofs`, for every timing with 0 < t1.5 < t3.5, all
sizes, any set of octets and any CRC (`TimingAssumption`, `BoundsAssumption`), over
every order of octets and deadlines:

* `AssemblerReturnsTheFrames`: `Spec => []ExactlyTheFrames`. The property relates the
  frames returned to the whole line, and a step sees only the candidate. `IInv` closes
  the gap. `CollectingInv` says that the candidate is the clean stretch that ends the
  line, `QuarantinedInv` that the line ends in octets no frame can hold, and `IdleInv`
  that silence has passed since the last octet. `Sound` and `Complete` are the two
  halves of the property; `StretchesStay` and `FrameStays` show that a new octet
  changes none of the frames decided before, and `CleanUnique` that a stretch has one
  beginning, so that nothing is counted twice (`Counted`).
* `AssemblerTypeCorrect`: `TypeOK`, from the same invariant.

**Line**: `SerialLineProofs`, for every character time, driver buffer, timeout, horizon,
encoder, slack and speech of the other station (`LineAssumption`):

* `SinkKeepsFramesApart`: `LineSpec => []FramesApart`. The octets between sink and
  line are one queue, in the order of the sends (`InOrder`). `RestsSilent` says that
  between sends nothing is left in it and a waiting send waits until t3.5 after the
  last octet; `WaitsSilent` carries that silence with the octets that are queued, and
  `Punctual` is the premise that no earlier send timed out or failed in the driver.
* `LineAssembles`: `LineSpec => Spec` of `RtuAssembler`, a refinement. The listener
  hands over octets and fires deadlines only in ways the assembler's specification
  allows.
* `LineReturnsTheFrames`: `LineSpec => []HeardFramesReturned`. Its first half is
  `AssemblerReturnsTheFrames` through the refinement. The second needs `WireInv`: the
  listener holds at most the last octet of the wire, that octet is no older than what
  the assembler has observed unless it was overtaken, and tokens number the accepted
  octets, so that neither check of `observe_byte` can refuse it.

**Only model-checked.** All liveness, which is outside the prover's reach.
`RequestPath` with its refinement of `Device`, and `DecodersAgree`: every call, request
and response would need its own theorem on encoder and decoder, and `DataStore` uses
bitwise operators, which the prover does not take.
`OwnAnswersInOrder`: the answers follow from what both framing policies find in a
device's octets, function code by function code. Of the gateway's `TypeOK` only the
limit on connections is proved. `SilenceBeforeTransmit` is violated.

## Not modelled

* **TLS and role authorization.** Handshakes and certificates are library code; the
  server's side of a handshake (permit, timeout, outcome) is in `ServerLifecycle`.
* **Simulator.** Configuration files and scripted writes to the store.
* **Command line tool, Python bindings.** Terminal I/O and wrappers.
* **Serial read half and opening of ports.** `RtuCodec` takes each chunk of the
  driver for a frame; where chunks end is up to the driver.
* **RTU timing arithmetic.** From baud rates to durations; its results are constants.
* **Configuration builders, errors, metrics, logging.**

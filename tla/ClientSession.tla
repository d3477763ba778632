---------------------------- MODULE ClientSession ----------------------------
(***************************************************************************)
(* One `ModbusClient` session of the rusty-modbus-client crate: logical    *)
(* operations with retries (client.rs), the transaction ring and its       *)
(* deadline scheduler (transaction.rs), the reader task (reader.rs), the   *)
(* admission and shutdown lifecycle (lifecycle.rs) and the reuse verdict   *)
(* (session.rs).                                                           *)
(*                                                                         *)
(* The runtime is multi-threaded, so every critical section, atomic store, *)
(* channel operation or poll of an await is a step of its own.  Time is    *)
(* abstract: the deadline of an attempt may pass at any moment.  The peer  *)
(* answers each request it receives at most once, with any delay, so a     *)
(* request stays on the wire until its answer is read.                     *)
(***************************************************************************)
EXTENDS Integers, FiniteSets

CONSTANTS
    Ops,             \* logical operations, each run once
    Kind,            \* [Ops -> {"ReplaySafe", "Mutating", "Broadcast"}]
    MaxSlots,        \* `MAX_SLOTS` of the transaction ring
    IdModulus,       \* transaction identifiers are integers modulo 2^16
    FirstId,         \* identifier the session would hand out next
    MaxInFlight,     \* admission permits
    MaxRetries,      \* `RetryConfig::max_retries`
    Transports,      \* transports the session may be built on: "tcp", "rtu"
    Aborters,        \* who may run `abort_inner`: "user", "coordinator"
    NoOp             \* "no operation"

ASSUME ClientAssumption ==
    /\ IsFiniteSet(Ops) /\ NoOp \notin Ops
    /\ Kind \in [Ops -> {"ReplaySafe", "Mutating", "Broadcast"}]
    /\ MaxSlots \in Nat \ {0}
    /\ IdModulus \in Nat /\ IdModulus > MaxSlots + 1
    /\ FirstId \in 1..(IdModulus - 1)
    /\ MaxInFlight \in 1..MaxSlots
    /\ MaxRetries \in Nat
    /\ Transports \subseteq {"tcp", "rtu"} /\ Transports # {}
    /\ Aborters \subseteq {"user", "coordinator"}

VARIABLES
    rtu,              \* built by `from_rtu_transport`: no identifiers
    st,               \* stage of each operation
    attempt,          \* attempts made by each operation
    expired,          \* operations whose attempt deadline has passed
    txn,              \* transaction identifier of the current attempt, 0: none
    chan,             \* oneshot channel of the current attempt
    slots,            \* the ring: the operation registered in each slot
    next_id,          \* next nonzero identifier
    deadline_changed, \* `Notify` permit of the deadline scheduler
    seen,             \* operations whose deadline the scheduler sleeps towards
    scheduler,        \* is the deadline task alive?
    reader,           \* the reader task: "reading", "failing" or "ended"
    sink,             \* holder of the sink mutex
    wire,             \* requests that have left and whose answer is not read
    active,           \* `State::active`
    phase,            \* `State::phase`
    connected,
    cancelled,        \* `cancellation_tx`
    task_stop,        \* `task_stop_tx`
    coordinator,      \* progress of `shutdown` and `coordinate_shutdown`
    abort,            \* progress of each run of `abort_inner`
    verdict,          \* `SessionReuseSafety`
    exposed           \* ghost: attempts dispatched and not answered "busy"

operations == <<st, attempt, expired, txn, chan, exposed>>
ring == <<slots, next_id, deadline_changed>>
tasks == <<seen, scheduler, reader>>
lifecycle == <<active, phase, connected, cancelled, task_stop, coordinator, abort>>
session == <<rtu, verdict>>
vars == <<operations, ring, tasks, sink, wire, lifecycle, session>>

\* An operation owns a semaphore permit from `acquire_owned` to the guard drop.
Admitted == {"top", "lock", "locked", "sending", "awaiting", "casting",
             "backoff", "leaving", "leaving_ok"}
Permitted == Admitted \cup {"recheck"}
Registered == {"sending", "awaiting"}
Stages == Permitted \cup {"idle", "permit", "typed", "done"}

Answers == {"ok", "busy", "bad"}
Responses == {"ok", "busy"}
Errors == {"timeout", "shutting_down", "disconnected", "rejected"}
Frames == [id : 0..(IdModulus - 1), op : Ops, n : Nat]
Empty == [what |-> "empty", op |-> NoOp, n |-> 0]
Failure(e) == [what |-> e, op |-> NoOp, n |-> 0]

-----------------------------------------------------------------------------
(* SessionReuseSafety *)

\* `retire` wins over everything and is sticky.
retire ==
    /\ verdict' = "Retire"
    /\ UNCHANGED rtu

retire_if(b) == IF b THEN retire ELSE UNCHANGED session

\* Mutant: a plain store instead of the compare-and-swap.
mark_clean_shutdown_store ==
    /\ verdict' = "ReuseEligible"
    /\ UNCHANGED rtu

\* Compare-and-swap from `NotQuiescent` only.
mark_clean_shutdown ==
    /\ verdict' = IF verdict = "NotQuiescent" THEN "ReuseEligible" ELSE verdict
    /\ UNCHANGED rtu

-----------------------------------------------------------------------------
(* TransactionManager *)

Slot == 0..(MaxSlots - 1)

\* The k-th identifier after next_id; zero is skipped when the counter wraps.
candidate(k) == ((next_id - 1 + k) % (IdModulus - 1)) + 1

\* Mutant: as many identifiers are tried as there are slots.
free_candidates_bounded ==
    {k \in 0..(MaxSlots - 1) : slots[candidate(k) % MaxSlots] = NoOp}

\* Identifiers tried before one falls into a free slot.
free_candidates == {k \in 0..(2 * MaxSlots - 1) : slots[candidate(k) % MaxSlots] = NoOp}

pending == {i \in Slot : slots[i] # NoOp}

registered(o) == {i \in Slot : slots[i] = o}

\* The slots of S are taken and e is sent on their channels.
Take(S, e) ==
    /\ slots' = [i \in Slot |-> IF i \in S THEN NoOp ELSE slots[i]]
    /\ chan' = [o \in Ops |-> IF \E i \in S : slots[i] = o THEN e ELSE chan[o]]

\* Mutant: the slots are emptied and nobody is told.
cancel_all_silent(e) ==
    /\ slots' = [i \in Slot |-> NoOp]
    /\ deadline_changed' = (deadline_changed \/ pending # {})
    /\ UNCHANGED chan

cancel_all(e) ==
    /\ Take(pending, Failure(e))
    /\ deadline_changed' = (deadline_changed \/ pending # {})

\* Mutant: the deadline task is not woken.
notify_deadline_never == deadline_changed' = deadline_changed

\* `deadline_changed.notify_one()` of a new registration.
notify_deadline == deadline_changed' = TRUE

\* `register` under the sink mutex: the first free slot, and a wake-up for the
\* deadline scheduler.
register(o) ==
    \E k \in free_candidates :
        /\ \A j \in free_candidates : k <= j
        /\ slots' = [slots EXCEPT ![candidate(k) % MaxSlots] = o]
        /\ txn' = [txn EXCEPT ![o] = candidate(k)]
        /\ next_id' = candidate(k + 1)
        /\ notify_deadline
        /\ chan' = [chan EXCEPT ![o] = Empty]

\* Mutant: the identifier stored in the slot is not compared.
correlated_by_slot(f) == IF rtu THEN pending ELSE {i \in pending : i = f.id % MaxSlots}

\* The slot a response frame is correlated with: by exact identifier, or for
\* RTU the oldest registration (there is at most one).
correlated(f) ==
    IF rtu THEN pending
    ELSE {i \in pending : i = f.id % MaxSlots /\ txn[slots[i]] = f.id}

\* `deliver_response`, after the expiry check.
delivered(f, a) ==
    IF a = "bad" THEN Failure("rejected") ELSE [what |-> a, op |-> f.op, n |-> f.n]

\* `complete_response` / `complete_oldest_response`: the slot is taken, a doubt
\* retires the session, and the result goes to the channel.
complete_response(f, a) ==
    LET S == correlated(f) IN
    \/ /\ S = {}
       /\ retire
       /\ UNCHANGED <<slots, chan, deadline_changed>>
    \/ /\ S # {}
       /\ \E i \in S :
            LET late == slots[i] \in expired IN
            /\ Take({i}, IF late THEN Failure("timeout") ELSE delivered(f, a))
            /\ retire_if(late \/ a = "bad")
       /\ deadline_changed' = TRUE

\* RTU traffic of another unit: it retires the session, expires a due request
\* and otherwise leaves the request pending.
other_unit_response ==
    LET due == {i \in pending : slots[i] \in expired} IN
    /\ Take(due, Failure("timeout"))
    /\ deadline_changed' = (deadline_changed \/ due # {})
    /\ retire

-----------------------------------------------------------------------------
(* Operations: send_with_retry, send_request and send_broadcast *)

Become(o, s) == st' = [st EXCEPT ![o] = s]

\* `from_rtu_transport` forces a single request in flight.
permits == IF rtu THEN 1 ELSE MaxInFlight

Holders == {o \in Ops : st[o] \in Permitted}

\* The connection check and the phase check at the start of `admit`.
start(o) ==
    /\ st[o] = "idle"
    /\ Become(o, IF connected /\ phase = "Running" THEN "permit" ELSE "done")
    /\ UNCHANGED <<attempt, expired, txn, chan, exposed, ring, tasks, sink,
                   wire, lifecycle, session>>

\* `acquire_owned`: sealing admission closes the semaphore.
acquire_permit(o) ==
    /\ st[o] = "permit"
    /\ \/ phase # "Running" /\ Become(o, "done")
       \/ /\ phase = "Running" /\ Cardinality(Holders) < permits
          /\ Become(o, "recheck")
    /\ UNCHANGED <<attempt, expired, txn, chan, exposed, ring, tasks, sink,
                   wire, lifecycle, session>>

\* Mutant: the operation is not counted.
activated_lost == active

activated == active + 1

\* The phase is checked again together with the count of active operations.
admit(o) ==
    /\ st[o] = "recheck"
    /\ \/ /\ phase # "Running"
          /\ Become(o, "done")
          /\ UNCHANGED active
       \/ /\ phase = "Running"
          /\ active' = activated
          /\ Become(o, "top")
    /\ UNCHANGED <<attempt, expired, txn, chan, exposed, ring, tasks, sink, wire,
                   phase, connected, cancelled, task_stop, coordinator, abort,
                   session>>

\* Top of the attempt loop: cancellation, the operation deadline (which may have
\* passed for any request) and the connection are checked before the sink is
\* asked for.  A broadcast only checks the cancellation.
begin_attempt(o) ==
    /\ st[o] = "top"
    /\ \/ /\ cancelled \/ Kind[o] # "Broadcast"
          /\ Become(o, "leaving")
          /\ UNCHANGED attempt
       \/ /\ ~cancelled /\ (connected \/ Kind[o] = "Broadcast")
          /\ Become(o, "lock")
          /\ attempt' = [attempt EXCEPT ![o] = @ + 1]
    /\ UNCHANGED <<expired, txn, chan, exposed, ring, tasks, sink, wire, lifecycle, session>>

\* Mutant: a timeout is retried whatever the request does.
after_replays(o, r) ==
    IF r \in {"busy", "timeout"}
    THEN IF attempt[o] > MaxRetries THEN "leaving" ELSE "backoff"
    ELSE IF r = "ok" THEN "leaving_ok" ELSE "leaving"

\* What `classify_attempt` and the retry budget make of a result.
after(o, r) ==
    IF r = "busy" \/ (r = "timeout" /\ Kind[o] = "ReplaySafe")
    THEN IF attempt[o] > MaxRetries THEN "leaving" ELSE "backoff"
    ELSE IF r = "ok" THEN "leaving_ok" ELSE "leaving"

\* The guards of `send_request` go out of scope with result r: the dispatch
\* guard retires the session while armed, the registration frees its slot, the
\* sink mutex is released.
unwind(o, r, armed) ==
    /\ Become(o, after(o, r))
    /\ retire_if(armed)
    /\ slots' = [i \in Slot |-> IF slots[i] = o THEN NoOp ELSE slots[i]]
    /\ deadline_changed' = (deadline_changed \/ registered(o) # {})
    /\ txn' = [txn EXCEPT ![o] = 0]
    /\ chan' = [chan EXCEPT ![o] = Empty]
    /\ sink' = IF sink = o THEN NoOp ELSE sink
    /\ exposed' = IF r = "busy" /\ chan[o].op = o /\ chan[o].n = attempt[o]
                  THEN [exposed EXCEPT ![o] = @ - 1] ELSE exposed
    /\ expired' = expired \ {o}
    /\ UNCHANGED <<attempt, next_id, tasks, lifecycle>>

\* The biased select around `sink.lock()`; broadcasts have no deadline.  Timers
\* fire with the runtime's resolution, so a deadline that has passed need not
\* have been noticed.
lock_sink(o) ==
    /\ st[o] = "lock"
    /\ \/ /\ cancelled
          /\ unwind(o, "shutting_down", FALSE)
       \/ /\ ~cancelled /\ o \in expired /\ Kind[o] # "Broadcast"
          /\ unwind(o, "timeout", FALSE)
       \/ /\ ~cancelled /\ sink = NoOp
          /\ sink' = o
          /\ Become(o, IF Kind[o] = "Broadcast" THEN "casting" ELSE "locked")
          /\ UNCHANGED <<attempt, expired, txn, chan, exposed, ring, tasks,
                         lifecycle, session>>
    /\ UNCHANGED wire

\* `register_guarded` and the armed dispatch guard.
begin_dispatch(o) ==
    /\ st[o] = "locked"
    /\ \/ /\ free_candidates = {}
          /\ unwind(o, "conflict", FALSE)
       \/ /\ register(o)
          /\ Become(o, "sending")
          /\ exposed' = [exposed EXCEPT ![o] = @ + 1]
          /\ UNCHANGED <<attempt, expired, tasks, sink, lifecycle, session>>
    /\ UNCHANGED wire

request(o) == [id |-> txn[o], op |-> o, n |-> attempt[o]]

\* The request frame has left completely.
send(o) ==
    /\ st[o] = "sending" /\ ~cancelled
    /\ wire' = wire \cup {request(o)}
    /\ Become(o, "awaiting")
    /\ sink' = NoOp
    /\ UNCHANGED <<attempt, expired, txn, chan, exposed, ring, tasks, lifecycle,
                   session>>

\* The send failed, timed out or was cancelled; the frame may have left.  After
\* a cancellation a response that is already there is still returned.
send_interrupted(o) ==
    /\ st[o] = "sending"
    /\ \/ ~cancelled /\ unwind(o, "error", TRUE)
       \/ ~cancelled /\ unwind(o, "timeout", TRUE)
       \/ cancelled /\ unwind(o, chan[o].what, chan[o].what \notin Responses)
    /\ wire' \in {wire, wire \cup {request(o)}}

\* `rx.await`: neither the cancellation nor the deadline is selected on.
receive(o) ==
    /\ st[o] = "awaiting" /\ chan[o].what # "empty"
    /\ unwind(o, chan[o].what, chan[o].what \notin Responses)
    /\ UNCHANGED wire

\* `send_broadcast` below the sink lock: no registration, no answer.
broadcast(o) ==
    /\ st[o] = "casting"
    /\ \/ cancelled /\ unwind(o, "shutting_down", TRUE)
       \/ ~cancelled /\ \E failed \in BOOLEAN : unwind(o, "broadcast", failed)
    /\ UNCHANGED wire

\* The delay between attempts; the permit and the active count are kept.
backoff(o) ==
    /\ st[o] = "backoff"
    /\ Become(o, IF cancelled THEN "leaving" ELSE "top")
    /\ UNCHANGED <<attempt, expired, txn, chan, exposed, ring, tasks, sink, wire,
                   lifecycle, session>>

\* `OperationGuard::drop`; a typed method still has to look at its response.
leave(o) ==
    /\ st[o] \in {"leaving", "leaving_ok"}
    /\ active' = active - 1
    /\ Become(o, IF st[o] = "leaving_ok" THEN "typed" ELSE "done")
    /\ attempt' = [attempt EXCEPT ![o] = 0]
    /\ exposed' = [exposed EXCEPT ![o] = 0]
    /\ UNCHANGED <<expired, txn, chan, ring, tasks, sink, wire, phase,
                    connected, cancelled, task_stop, coordinator, abort,
                   session>>

\* `finish_typed_response`: response data that does not fit retires the session.
finish_typed_response(o) ==
    /\ st[o] = "typed"
    /\ \E misfit \in BOOLEAN : retire_if(misfit)
    /\ Become(o, "done")
    /\ UNCHANGED <<attempt, expired, txn, chan, exposed, ring, tasks, sink, wire,
                   lifecycle>>

\* The caller drops the operation's future while it is suspended.
drop_operation(o) ==
    \/ /\ st[o] = "permit"
       /\ Become(o, "done")
       /\ UNCHANGED <<attempt, expired, txn, chan, exposed, ring, tasks, sink,
                      wire, lifecycle, session>>
    \/ /\ st[o] \in {"lock", "sending", "awaiting", "casting", "backoff"}
       /\ unwind(o, "dropped", st[o] \in {"sending", "awaiting", "casting"})
       /\ wire' \in IF st[o] = "sending" THEN {wire, wire \cup {request(o)}} ELSE {wire}

\* Time reaches the deadline of the current attempt.
deadline_passes(o) ==
    /\ st[o] \in {"lock", "locked", "sending", "awaiting"}
    /\ Kind[o] # "Broadcast" /\ o \notin expired
    /\ expired' = expired \cup {o}
    /\ UNCHANGED <<st, attempt, txn, chan, exposed, ring, tasks, sink, wire,
                   lifecycle, session>>

-----------------------------------------------------------------------------
(* The deadline scheduler and the reader *)

\* One pass of `run_deadline_scheduler`: it runs on a notification, or when the
\* nearest deadline of the previous pass is reached.
run_deadline_scheduler ==
    LET due == {i \in pending : slots[i] \in expired} IN
    /\ scheduler
    /\ deadline_changed \/ seen \cap expired # {}
    /\ Take(due, Failure("timeout"))
    /\ deadline_changed' = (due # {})
    /\ retire_if(due # {})
    /\ seen' = {slots[i] : i \in pending \ due}
    /\ UNCHANGED <<st, attempt, expired, txn, exposed, next_id, scheduler, reader,
                   sink, wire, lifecycle>>

\* The reader takes an answer of the peer, or for RTU a frame of another unit,
\* from the stream; the stop signal has priority.
reader_receives ==
    /\ reader = "reading" /\ ~task_stop
    /\ \/ \E f \in wire, a \in Answers :
            /\ complete_response(f, a)
            /\ wire' = wire \ {f}
       \/ /\ rtu /\ other_unit_response
          /\ UNCHANGED wire
    /\ UNCHANGED <<st, attempt, expired, txn, exposed, next_id, tasks, sink,
                   lifecycle>>

\* The stream fails: the session is retired and disconnected first ...
reader_fails ==
    /\ reader = "reading" /\ ~task_stop
    /\ reader' = "failing"
    /\ retire
    /\ connected' = FALSE
    /\ UNCHANGED <<operations, ring, seen, scheduler, sink, wire, active, phase,
                   cancelled, task_stop, coordinator, abort>>

\* ... then every pending request is told.
reader_cancels ==
    /\ reader = "failing"
    /\ reader' = "ended"
    /\ cancel_all("disconnected")
    /\ UNCHANGED <<st, attempt, expired, txn, exposed, next_id, seen, scheduler,
                   sink, wire, lifecycle, session>>

reader_stops ==
    /\ reader = "reading" /\ task_stop
    /\ reader' = "ended"
    /\ UNCHANGED <<operations, ring, seen, scheduler, sink, wire, lifecycle,
                   session>>

-----------------------------------------------------------------------------
(* ClientLifecycle: abort_inner, shutdown and coordinate_shutdown *)

\* Dropping an AbortHandle's target takes effect where the task is suspended.
abort_tasks ==
    /\ scheduler' = FALSE
    /\ reader' = IF reader = "reading" THEN "ended" ELSE reader

\* `abort_inner`, first part: verdict, phase and semaphore, connection flag.
abort_seal(x) ==
    /\ abort[x] = (IF x = "user" THEN "none" ELSE "called")
    /\ retire
    /\ phase' = IF phase = "Closed" THEN "Closed" ELSE "Cancelling"
    /\ connected' = FALSE
    /\ abort' = [abort EXCEPT ![x] = "sealed"]
    /\ UNCHANGED <<operations, ring, tasks, sink, wire, active, cancelled,
                   task_stop, coordinator>>

abort_cancel_all(x) ==
    /\ abort[x] = "sealed"
    /\ cancel_all("shutting_down")
    /\ abort' = [abort EXCEPT ![x] = "drained"]
    /\ UNCHANGED <<st, attempt, expired, txn, exposed, next_id, tasks, sink, wire,
                   active, phase, connected, cancelled, task_stop, coordinator,
                   session>>

abort_publish(x) ==
    /\ abort[x] = "drained"
    /\ cancelled' = TRUE
    /\ abort' = [abort EXCEPT ![x] = "published"]
    /\ UNCHANGED <<operations, ring, tasks, sink, wire, active, phase, connected,
                   task_stop, coordinator, session>>

abort_stop_tasks(x) ==
    /\ abort[x] = "published"
    /\ task_stop' = TRUE
    /\ abort_tasks
    /\ abort' = [abort EXCEPT ![x] = "done"]
    /\ UNCHANGED <<operations, ring, seen, sink, wire, active, phase, connected,
                   cancelled, coordinator, session>>

\* `seal` and `ensure_coordinator`.
shutdown ==
    /\ coordinator = "none"
    /\ phase' = IF phase = "Running" THEN "Draining" ELSE phase
    /\ coordinator' = "started"
    /\ UNCHANGED <<operations, ring, tasks, sink, wire, active, connected,
                   cancelled, task_stop, abort, session>>

\* `wait_for_zero_active` or `wait_for_cancellation` is ready.
drained == active = 0 \/ cancelled

\* `coordinate_shutdown` waits for zero active operations, for a cancellation or
\* for the drain deadline, on which it runs `abort_inner` itself.
coordinator_drains ==
    /\ \/ /\ coordinator = "started"
          /\ coordinator' = IF phase = "Draining" THEN "draining" ELSE "stopping"
          /\ UNCHANGED abort
       \/ /\ coordinator = "draining" /\ drained
          /\ coordinator' = "stopping"
          /\ UNCHANGED abort
       \/ /\ coordinator = "draining" /\ ~drained
          /\ "coordinator" \in Aborters
          /\ coordinator' = "aborting"
          /\ abort' = [abort EXCEPT !["coordinator"] = "called"]
       \/ /\ coordinator = "aborting" /\ abort["coordinator"] = "done"
          /\ coordinator' = "stopping"
          /\ UNCHANGED abort
    /\ UNCHANGED <<operations, ring, tasks, sink, wire, active, phase, connected,
                   cancelled, task_stop, session>>

\* Mutant: the reader is not told to stop.
stop_tasks_untold ==
    /\ coordinator = "stopping"
    /\ scheduler' = FALSE
    /\ reader' = IF phase = "Cancelling" /\ reader = "reading" THEN "ended" ELSE reader
    /\ coordinator' = "joining"
    /\ UNCHANGED <<operations, ring, seen, sink, wire, active, phase, connected,
                   cancelled, task_stop, abort, session>>

stop_tasks ==
    /\ coordinator = "stopping"
    /\ task_stop' = TRUE
    /\ scheduler' = FALSE
    /\ reader' = IF phase = "Cancelling" /\ reader = "reading" THEN "ended" ELSE reader
    /\ coordinator' = "joining"
    /\ UNCHANGED <<operations, ring, seen, sink, wire, active, phase, connected,
                   cancelled, abort, session>>

\* `join_tasks`, then the verdict of the drain under the state lock.
join_tasks ==
    /\ coordinator = "joining" /\ reader = "ended" /\ ~scheduler
    /\ connected' = FALSE
    /\ phase' = "Closed"
    /\ coordinator' = IF phase = "Draining" /\ active = 0 /\ pending = {}
                      THEN "clean" ELSE "unclean"
    /\ UNCHANGED <<operations, ring, tasks, sink, wire, active, cancelled,
                   task_stop, abort, session>>

publish_completion ==
    /\ \/ coordinator = "clean" /\ mark_clean_shutdown
       \/ coordinator = "unclean" /\ retire
    /\ coordinator' = "completed"
    /\ UNCHANGED <<operations, ring, tasks, sink, wire, active, phase, connected,
                   cancelled, task_stop, abort>>

-----------------------------------------------------------------------------
(* The specification *)

Init ==
    /\ rtu \in {x = "rtu" : x \in Transports}
    /\ st = [o \in Ops |-> "idle"]
    /\ attempt = [o \in Ops |-> 0]
    /\ expired = {}
    /\ txn = [o \in Ops |-> 0]
    /\ chan = [o \in Ops |-> Empty]
    /\ exposed = [o \in Ops |-> 0]
    /\ slots = [i \in Slot |-> NoOp]
    /\ next_id = FirstId
    /\ deadline_changed = FALSE
    /\ seen = {}
    /\ scheduler = TRUE
    /\ reader = "reading"
    /\ sink = NoOp
    /\ wire = {}
    /\ active = 0
    /\ phase = "Running"
    /\ connected = TRUE
    /\ cancelled = FALSE
    /\ task_stop = FALSE
    /\ coordinator = "none"
    /\ abort = [x \in Aborters |-> "none"]
    /\ verdict = "NotQuiescent"

\* One poll of an operation that has been started.
Poll(o) ==
    \/ acquire_permit(o)
    \/ admit(o)
    \/ begin_attempt(o)
    \/ lock_sink(o)
    \/ begin_dispatch(o)
    \/ send(o)
    \/ send_interrupted(o)
    \/ receive(o)
    \/ broadcast(o)
    \/ backoff(o)
    \/ leave(o)
    \/ finish_typed_response(o)

Background == run_deadline_scheduler \/ reader_cancels \/ reader_stops

AbortStep(x) ==
    abort_seal(x) \/ abort_cancel_all(x) \/ abort_publish(x) \/ abort_stop_tasks(x)

Coordinator ==
    coordinator_drains \/ stop_tasks \/ join_tasks \/ publish_completion

Next ==
    \/ \E o \in Ops : start(o) \/ Poll(o) \/ drop_operation(o) \/ deadline_passes(o)
    \/ Background
    \/ reader_receives
    \/ reader_fails
    \/ \E x \in Aborters : AbortStep(x)
    \/ shutdown
    \/ Coordinator

Spec == Init /\ [][Next]_vars

\* Started futures are polled, time passes, live tasks run, and a run of
\* `abort_inner` or of the coordinator is never left half way.  Nothing is
\* assumed of the peer, the caller or the stream.
Fairness ==
    /\ \A o \in Ops : WF_vars(Poll(o)) /\ WF_vars(deadline_passes(o))
    /\ WF_vars(run_deadline_scheduler)
    /\ WF_vars(reader_cancels \/ reader_stops)
    /\ \A x \in Aborters : WF_vars(abort[x] # "none" /\ AbortStep(x))
    /\ WF_vars(Coordinator)

FairSpec == Spec /\ Fairness

-----------------------------------------------------------------------------
(* Properties *)

\* Every variable keeps the type of its Rust counterpart: in particular the
\* active count never wraps below zero and a oneshot carries one result.
TypeOK ==
    /\ rtu \in BOOLEAN
    /\ st \in [Ops -> Stages]
    /\ attempt \in [Ops -> Nat]
    /\ expired \subseteq Ops
    /\ txn \in [Ops -> 0..(IdModulus - 1)]
    /\ chan \in [Ops -> [what : {"empty"} \cup Responses \cup Errors,
                         op : Ops \cup {NoOp}, n : Nat]]
    /\ exposed \in [Ops -> Int]
    /\ slots \in [Slot -> Ops \cup {NoOp}]
    /\ next_id \in 1..(IdModulus - 1)
    /\ deadline_changed \in BOOLEAN
    /\ seen \subseteq Ops
    /\ scheduler \in BOOLEAN
    /\ reader \in {"reading", "failing", "ended"}
    /\ sink \in Ops \cup {NoOp}
    /\ wire \subseteq Frames
    /\ active \in Nat
    /\ phase \in {"Running", "Draining", "Cancelling", "Closed"}
    /\ connected \in BOOLEAN
    /\ cancelled \in BOOLEAN
    /\ task_stop \in BOOLEAN
    /\ coordinator \in {"none", "started", "draining", "aborting", "stopping",
                        "joining", "clean", "unclean", "completed"}
    /\ abort \in [Aborters -> {"none", "called", "sealed", "drained", "published", "done"}]
    /\ verdict \in {"NotQuiescent", "ReuseEligible", "Retire"}

\* A caller is handed the answer to its own current attempt, however late,
\* reordered or lost the answers to earlier attempts are.  Over RTU, where
\* responses carry no identifier, `complete_oldest_response` can mistake a late
\* answer for the current one, but only once the session is to be retired.
OwnResponse ==
    \A o \in Ops : chan[o].what \in Responses =>
        \/ chan[o].op = o /\ chan[o].n = attempt[o]
        \/ rtu /\ verdict = "Retire"

\* A session is declared `ReuseEligible` only when nothing of it is left: no
\* admitted operation, no pending slot, no task, and no request or answer still
\* under way that a later owner of the transport could mistake for its own.
EligibleMeansSilent ==
    verdict = "ReuseEligible" =>
        /\ pending = {} /\ wire = {} /\ sink = NoOp
        /\ reader = "ended" /\ ~scheduler
        /\ \A o \in Ops : st[o] \notin Admitted

\* A mutation is dispatched again only after its own "server busy" answer: a
\* timeout, a lost answer or a failed send never makes `send_with_retry` repeat
\* it.  (A property of TCP sessions: over RTU a late "server busy" answer can be
\* taken for the current one on a session to be retired, see OwnResponse.)
MutationSentOnce ==
    \A o \in Ops : Kind[o] = "Mutating" /\ ~rtu => exposed[o] <= 1

\* Between registration and the end of the attempt an operation has its slot in
\* the ring or its one result in the channel, never both and never neither:
\* response, expiry, cancellation and removal race for the same slot.
SlotOrResult ==
    \A o \in Ops :
        /\ st[o] \in Registered => (registered(o) = {} <=> chan[o] # Empty)
        /\ st[o] \notin Registered => registered(o) = {} /\ chan[o] = Empty
        /\ Cardinality(registered(o)) <= 1

\* `register` finds a slot whenever it is called, so `TransactionConflict` is
\* never returned: not even where the counter wraps and the skipped identifier
\* zero makes 16 consecutive identifiers miss a slot.
SlotFound ==
    \A o \in Ops : st[o] = "locked" => free_candidates # {}

\* No registration is missed by the deadline task: it sleeps towards the
\* deadline of every pending request or has a wake-up pending.
DeadlineArmed ==
    scheduler => \A i \in pending : slots[i] \in seen \/ deadline_changed

\* Every admitted operation ends, whatever the peer does, unless `abort_inner`
\* runs: deadlines, backoff, the sink queue and the retry limit bound it.
OperationsFinish ==
    \A o \in Ops : (st[o] \in Admitted)
        ~> (st[o] \in {"typed", "done"} \/ \E x \in Aborters : abort[x] # "none")

\* `shutdown().await` returns once called: operations drain or are cancelled
\* and the coordinator joins both tasks, even if an abort races with it.
ShutdownReturns == (coordinator = "started") ~> (coordinator = "completed")

\* When the drain deadline expires "remaining operations receive
\* `ClientError::ShuttingDown`": an admitted operation ends after every
\* cancellation too.
CancelledOperationsFinish ==
    \A o \in Ops : (st[o] \in Admitted) ~> (st[o] \in {"typed", "done"})

=============================================================================

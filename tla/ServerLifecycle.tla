---------------------------- MODULE ServerLifecycle ----------------------------
(***************************************************************************)
(* The two Modbus servers, plain TCP (server.rs) and mutual TLS (tls.rs),  *)
(* with the lifecycle they share (lifecycle.rs) and the listener that      *)
(* admits their sockets (listener.rs).                                     *)
(*                                                                         *)
(* Actors: the supervisor task, which accepts sockets and later drains;    *)
(* one task per connection; any number of stop() callers; the shutdown     *)
(* coordinator that the first of them spawns; and the owner of the server, *)
(* who may drop it.                                                        *)
(*                                                                         *)
(* A step is what one actor does between two points at which another can   *)
(* observe it: an acquisition of the state lock, a publication on a watch  *)
(* channel, an await.  The RAII guards of a task are dropped one after the *)
(* other without an await between them and are dropped here in one step.   *)
(*                                                                         *)
(* A watch receiver is always subscribed before the state lock is read, so *)
(* a task that saw no deadline sees every later publication: `published'   *)
(* stands for its changed() being ready.                                   *)
(***************************************************************************)
EXTENDS Integers, FiniteSets

CONSTANTS
    Sockets,          \* the sockets that peers open, each of them once
    Stoppers,         \* the tasks that call stop()
    MaxConnections,   \* the listener's max_connections
    MaxHandshakes     \* TlsModbusServerConfig::max_handshakes

(* validate() of both configurations refuses a limit of zero. *)
ASSUME SocketsFinite == IsFiniteSet(Sockets)
ASSUME LimitsPositive ==
    /\ MaxConnections \in Nat \ {0}
    /\ MaxHandshakes \in Nat \ {0}

VARIABLES
    tls,                  \* which server was started
    phase,                \* State::phase; State::deadline is set when it leaves Running
    published,            \* shutdown_tx holds the deadline
    outcome,              \* State::outcome
    completed,            \* completion_tx holds the outcome
    coordinator,          \* the coordinator task
    supervisor,           \* where the supervisor task is
    verdict,              \* what the supervisor task returned
    conn,                 \* where each socket, or the task serving it, is
    aborted,              \* tasks told to abort
    active_connections,   \* TcpServerMetricsInner::active_connections
    active_requests,      \* ServerMetricsHandle::active_requests
    active_handshakes,    \* TlsCounters::active_handshakes, and the permits held
    active_sessions,      \* TlsCounters::active_sessions
    started,              \* TlsCounters::started
    finished,             \* TlsCounters::{succeeded, failed, timed_out, cancelled}
    stop,                 \* where each stop() call is
    seen,                 \* stop() calls whose completion_rx has seen the outcome
    dropped,              \* the server value has been dropped
    cut                   \* sockets whose admitted request an abort interrupted

lifecycle == <<tls, phase, published, outcome, completed, coordinator, dropped>>
tasks     == <<supervisor, verdict, aborted, cut>>
counters  == <<active_connections, active_requests, active_handshakes,
               active_sessions, started, finished>>
callers   == <<stop, seen>>
vars      == <<lifecycle, tasks, counters, callers, conn>>

--------------------------------------------------------------------------------
(* Stages of a socket.  "waiting": in the listen backlog.  "accepted": in  *)
(* the supervisor's hands.  "admitted": still there, found before a seal.  *)
(* "starting", "handshake": serve_connection of the TLS server.  The       *)
(* Session stages are those of handle_connection's loop.  "ended": the     *)
(* task returned and is not yet joined.  "gone".                           *)
Session     == {"loop", "receiving", "received", "handling", "sending"}
InRequest   == {"handling", "sending"}
InHandshake == {"starting", "handshake"}
Running     == InHandshake \cup Session
Admitted    == {"admitted"} \cup Running
Guarded     == {"accepted"} \cup Admitted
Stages      == {"waiting", "ended", "gone"} \cup Guarded

(* A task is cancelled at an await, or before its first poll.               *)
Cancellable == Running \ {"received"}

Counters == {"succeeded", "failed", "timed_out", "cancelled"}

HandshakeLimit ==
    IF MaxHandshakes < MaxConnections THEN MaxHandshakes ELSE MaxConnections

In(S) == {c \in Sockets : conn[c] \in S}
One(b) == IF b THEN 1 ELSE 0

(* shutdown_deadline().is_some() *)
Sealed == phase # "Running"

Init ==
    /\ tls \in BOOLEAN
    /\ phase = "Running"
    /\ published = FALSE
    /\ outcome = "none"
    /\ completed = FALSE
    /\ coordinator = "none"
    /\ supervisor = "top"
    /\ verdict = "none"
    /\ conn = [c \in Sockets |-> "waiting"]
    /\ aborted = {}
    /\ active_connections = 0
    /\ active_requests = 0
    /\ active_handshakes = 0
    /\ active_sessions = 0
    /\ started = 0
    /\ finished = [k \in Counters |-> 0]
    /\ stop = [s \in Stoppers |-> "none"]
    /\ seen = {}
    /\ dropped = FALSE
    /\ cut = {}

--------------------------------------------------------------------------------
\* Mutant: a guard dropped without finish is not counted as cancelled.
finish_uncounted(k) ==
    /\ finished' = [finished EXCEPT ![k] = @ + One(k # "cancelled")]
    /\ active_handshakes' = active_handshakes - 1

(* HandshakeGuard: finish counts one result, and a guard dropped without   *)
(* it counts a cancellation; either way the attempt is no longer active.   *)
finish(k) ==
    /\ finished' = [finished EXCEPT ![k] = @ + 1]
    /\ active_handshakes' = active_handshakes - 1

(* The task of c returns, or is dropped: every guard it holds goes with it. *)
task_ends(c, k) ==
    /\ conn' = [conn EXCEPT ![c] = "ended"]
    /\ active_connections' = active_connections - 1
    /\ active_requests' = active_requests - One(conn[c] \in InRequest)
    /\ active_sessions' = active_sessions - One(tls /\ conn[c] \in Session)
    /\ IF conn[c] \in InHandshake THEN finish(k) ELSE UNCHANGED <<finished, active_handshakes>>
    /\ UNCHANGED started

moves_to(c, stage) ==
    /\ conn' = [conn EXCEPT ![c] = stage]
    /\ UNCHANGED counters

--------------------------------------------------------------------------------
(* supervise: the accept loop. *)

(* The head of the loop.  Leaving it drops the listener. *)
check_deadline ==
    /\ supervisor = "top"
    /\ supervisor' = IF Sealed THEN "draining" ELSE "select"
    /\ UNCHANGED <<lifecycle, verdict, aborted, cut, counters, callers, conn>>

shutdown_changed ==
    /\ supervisor = "select"
    /\ published
    /\ supervisor' = "top"
    /\ UNCHANGED <<lifecycle, verdict, aborted, cut, counters, callers, conn>>

(* join_next, in the accept loop and in both loops of drain_connections. *)
join_next(c) ==
    /\ supervisor \in {"select", "draining", "forcing"}
    /\ conn[c] = "ended"
    /\ supervisor' = IF supervisor = "select" THEN "top" ELSE supervisor
    /\ conn' = [conn EXCEPT ![c] = "gone"]
    /\ UNCHANGED <<lifecycle, verdict, aborted, cut, counters, callers>>

\* Mutant: `current > maximum' in the reservation loop.
reserve_past_limit ==
    /\ active_connections <= MaxConnections
    /\ active_connections' = active_connections + 1

reserve_connection ==
    /\ active_connections < MaxConnections
    /\ active_connections' = active_connections + 1

(* accept_socket returns a socket with its reservation. *)
accept_socket(c) ==
    /\ supervisor = "select"
    /\ conn[c] = "waiting"
    /\ reserve_connection
    /\ conn' = [conn EXCEPT ![c] = "accepted"]
    /\ supervisor' = "accepted"
    /\ UNCHANGED <<lifecycle, verdict, aborted, cut, callers, active_requests,
                   active_handshakes, active_sessions, started, finished>>

(* accept_socket drops a socket, denied by the access list or over the     *)
(* limit, and accepts again.                                               *)
accept_refuses(c) ==
    /\ supervisor = "select"
    /\ conn[c] = "waiting"
    /\ conn' = [conn EXCEPT ![c] = "gone"]
    /\ UNCHANGED <<lifecycle, tasks, counters, callers>>

(* accept fails, or the set-up of a reserved socket does and releases the  *)
(* reservation.                                                            *)
accept_fails ==
    /\ supervisor = "select"
    /\ supervisor' = "backoff"
    /\ \/ UNCHANGED conn
       \/ /\ active_connections < MaxConnections
          /\ \E c \in In({"waiting"}) : conn' = [conn EXCEPT ![c] = "gone"]
    /\ UNCHANGED <<lifecycle, verdict, aborted, cut, counters, callers>>

(* The delay elapses or the shutdown is published. *)
backoff_interrupted ==
    /\ supervisor = "backoff"
    /\ supervisor' = "top"
    /\ UNCHANGED <<lifecycle, verdict, aborted, cut, counters, callers, conn>>

(* The supervisor gives up the socket and its reservation. *)
drop_socket(c) ==
    /\ supervisor' = "top"
    /\ conn' = [conn EXCEPT ![c] = "gone"]
    /\ active_connections' = active_connections - 1
    /\ UNCHANGED <<active_requests, active_handshakes, active_sessions, started, finished>>

(* shutdown_deadline() reads the phase under the state lock, and lets go   *)
(* of it: a socket that was accepted is dropped after a seal.              *)
admit_connection(c) ==
    /\ supervisor = "accepted"
    /\ conn[c] = "accepted"
    /\ \/ Sealed /\ drop_socket(c)
       \/ ~Sealed /\ supervisor' = "admitted" /\ moves_to(c, "admitted")
    /\ UNCHANGED <<lifecycle, verdict, aborted, cut, callers>>

(* The task of an admitted socket is spawned, by now perhaps after a seal; *)
(* the TLS server drops the socket for want of a handshake permit.         *)
spawn_connection(c) ==
    /\ supervisor = "admitted"
    /\ conn[c] = "admitted"
    /\ \/ tls /\ active_handshakes >= HandshakeLimit /\ drop_socket(c)
       \/ ~tls /\ supervisor' = "top" /\ moves_to(c, "loop")
       \/ /\ tls /\ active_handshakes < HandshakeLimit
          /\ supervisor' = "top"
          /\ conn' = [conn EXCEPT ![c] = "starting"]
          /\ active_handshakes' = active_handshakes + 1
          /\ started' = started + 1
          /\ UNCHANGED <<active_connections, active_requests, active_sessions, finished>>
    /\ UNCHANGED <<lifecycle, verdict, aborted, cut, callers>>

--------------------------------------------------------------------------------
(* drain_connections.  Time is a choice: the deadline may elapse whenever  *)
(* the supervisor waits for it.                                            *)
drained ==
    /\ supervisor = "draining"
    /\ In({"ended"} \cup Running) = {}
    /\ supervisor' = "finished"
    /\ verdict' = "Drained"
    /\ UNCHANGED <<lifecycle, aborted, cut, counters, callers, conn>>

abort_all ==
    /\ supervisor = "draining"
    /\ In({"ended"} \cup Running) # {}
    /\ supervisor' = "forcing"
    /\ aborted' = In(Running)
    /\ UNCHANGED <<lifecycle, verdict, cut, counters, callers, conn>>

\* Mutant: the aborted tasks are not joined.
forced_unjoined ==
    /\ supervisor = "forcing"
    /\ supervisor' = "finished"
    /\ verdict' = "Forced"
    /\ UNCHANGED <<lifecycle, aborted, cut, counters, callers, conn>>

\* Mutant: a forced drain reports Drained.
forced_as_drained ==
    /\ supervisor = "forcing"
    /\ In({"ended"} \cup Running) = {}
    /\ supervisor' = "finished"
    /\ verdict' = "Drained"
    /\ UNCHANGED <<lifecycle, aborted, cut, counters, callers, conn>>

forced ==
    /\ supervisor = "forcing"
    /\ In({"ended"} \cup Running) = {}
    /\ supervisor' = "finished"
    /\ verdict' = "Forced"
    /\ UNCHANGED <<lifecycle, aborted, cut, counters, callers, conn>>

--------------------------------------------------------------------------------
(* serve_connection: the TLS handshake in front of handle_connection. *)
serve_connection(c) ==
    /\ conn[c] = "starting"
    /\ IF Sealed THEN task_ends(c, "cancelled") ELSE moves_to(c, "handshake")
    /\ UNCHANGED <<lifecycle, tasks, callers>>

handshake_interrupted(c) ==
    /\ conn[c] = "handshake"
    /\ published
    /\ task_ends(c, "cancelled")
    /\ UNCHANGED <<lifecycle, tasks, callers>>

handshake_lost(c) ==
    /\ conn[c] = "handshake"
    /\ \E k \in {"timed_out", "failed"} : task_ends(c, k)
    /\ UNCHANGED <<lifecycle, tasks, callers>>

handshake_succeeds(c) ==
    /\ conn[c] = "handshake"
    /\ finish("succeeded")
    /\ active_sessions' = active_sessions + 1
    /\ conn' = [conn EXCEPT ![c] = "loop"]
    /\ UNCHANGED <<lifecycle, tasks, callers, active_connections, active_requests, started>>

--------------------------------------------------------------------------------
(* handle_connection, of both servers. *)
check_shutdown(c) ==
    /\ conn[c] = "loop"
    /\ IF Sealed THEN task_ends(c, "cancelled") ELSE moves_to(c, "receiving")
    /\ UNCHANGED <<lifecycle, tasks, callers>>

recv_interrupted(c) ==
    /\ conn[c] = "receiving"
    /\ published
    /\ task_ends(c, "cancelled")
    /\ UNCHANGED <<lifecycle, tasks, callers>>

(* A frame arrives, or the receive fails: closed, timed out, malformed. *)
recv(c) ==
    /\ conn[c] = "receiving"
    /\ moves_to(c, "received") \/ task_ends(c, "cancelled")
    /\ UNCHANGED <<lifecycle, tasks, callers>>

begin_request(c) ==
    /\ conn' = [conn EXCEPT ![c] = "handling"]
    /\ active_requests' = active_requests + 1
    /\ UNCHANGED <<active_connections, active_handshakes, active_sessions, started, finished>>

\* Mutant: the phase is not read again after recv.
admit_unlocked(c) ==
    /\ conn[c] = "received"
    /\ begin_request(c)
    /\ UNCHANGED <<lifecycle, tasks, callers>>

admit_request(c) ==
    /\ conn[c] = "received"
    /\ IF Sealed THEN task_ends(c, "cancelled") ELSE begin_request(c)
    /\ UNCHANGED <<lifecycle, tasks, callers>>

(* The request guard is dropped at the end of the loop's body. *)
end_request(c) ==
    /\ conn' = [conn EXCEPT ![c] = "loop"]
    /\ active_requests' = active_requests - 1
    /\ UNCHANGED <<active_connections, active_handshakes, active_sessions, started, finished>>

(* The handler answers; or the request is for another unit, or a           *)
(* broadcast, and is not answered; or the response is empty, or the store  *)
(* panics, and the task ends.                                              *)
process_request(c) ==
    /\ conn[c] = "handling"
    /\ moves_to(c, "sending") \/ end_request(c) \/ task_ends(c, "cancelled")
    /\ UNCHANGED <<lifecycle, tasks, callers>>

send_response(c) ==
    /\ conn[c] = "sending"
    /\ end_request(c) \/ task_ends(c, "cancelled")
    /\ UNCHANGED <<lifecycle, tasks, callers>>

(* A task told to abort is dropped at its next await. *)
task_aborted(c) ==
    /\ c \in aborted
    /\ conn[c] \in Cancellable
    /\ task_ends(c, "cancelled")
    /\ cut' = cut \cup {x \in {c} : conn[x] \in InRequest}
    /\ UNCHANGED <<lifecycle, supervisor, verdict, aborted, callers>>

--------------------------------------------------------------------------------
(* shutdown(): seal, ensure_coordinator, wait_for_outcome. *)
seal(s) ==
    /\ stop[s] = "none"
    /\ ~dropped
    /\ phase' = IF phase = "Running" THEN "Draining" ELSE phase
    /\ stop' = [stop EXCEPT ![s] = "sealed"]
    /\ UNCHANGED <<tls, published, outcome, completed, coordinator, dropped, seen,
                   tasks, counters, conn>>

publish_shutdown(s) ==
    /\ stop[s] = "sealed"
    /\ published' = TRUE
    /\ stop' = [stop EXCEPT ![s] = "published"]
    /\ UNCHANGED <<tls, phase, outcome, completed, coordinator, dropped, seen,
                   tasks, counters, conn>>

ensure_coordinator(s) ==
    /\ stop[s] = "published"
    /\ coordinator' = IF phase = "Closed" \/ coordinator # "none" THEN coordinator ELSE "joining"
    /\ stop' = [stop EXCEPT ![s] = "subscribing"]
    /\ UNCHANGED <<tls, phase, published, outcome, completed, dropped, seen,
                   tasks, counters, conn>>

subscribe(s) ==
    /\ stop[s] = "subscribing"
    /\ stop' = [stop EXCEPT ![s] = "checking"]
    /\ seen' = IF completed THEN seen \cup {s} ELSE seen
    /\ UNCHANGED <<lifecycle, tasks, counters, conn>>

check_outcome(s) ==
    /\ stop[s] = "checking"
    /\ stop' = [stop EXCEPT ![s] = IF outcome = "none" THEN "awaiting" ELSE "returned"]
    /\ UNCHANGED <<lifecycle, seen, tasks, counters, conn>>

completion_changed(s) ==
    /\ stop[s] = "awaiting"
    /\ completed /\ s \notin seen
    /\ stop' = [stop EXCEPT ![s] = "checking"]
    /\ seen' = seen \cup {s}
    /\ UNCHANGED <<lifecycle, tasks, counters, conn>>

(* The caller drops the future of stop() at its only await. *)
cancel_stop(s) ==
    /\ stop[s] = "awaiting"
    /\ stop' = [stop EXCEPT ![s] = "cancelled"]
    /\ UNCHANGED <<lifecycle, seen, tasks, counters, conn>>

--------------------------------------------------------------------------------
(* The coordinator joins the supervisor, records the outcome under the     *)
(* lock and then publishes it.  A supervisor that was aborted is Forced.   *)
record_outcome ==
    /\ coordinator = "joining"
    /\ supervisor \in {"finished", "dropped"}
    /\ phase' = "Closed"
    /\ outcome' = IF supervisor = "finished" THEN verdict ELSE "Forced"
    /\ coordinator' = "recorded"
    /\ UNCHANGED <<tls, published, completed, dropped, tasks, counters, callers, conn>>

\* Mutant: the outcome is recorded and not sent to those already waiting.
publish_outcome_silent ==
    /\ coordinator = "recorded"
    /\ coordinator' = "done"
    /\ UNCHANGED <<tls, phase, published, outcome, completed, dropped, tasks, counters, callers, conn>>

publish_outcome ==
    /\ coordinator = "recorded"
    /\ completed' = TRUE
    /\ coordinator' = "done"
    /\ UNCHANGED <<tls, phase, published, outcome, dropped, tasks, counters, callers, conn>>

--------------------------------------------------------------------------------
(* Drop of the server, which no stop() call then borrows, aborts the       *)
(* supervisor and the coordinator.                                         *)
abort_owned_tasks ==
    /\ ~dropped
    /\ \A s \in Stoppers : stop[s] \in {"none", "returned", "cancelled"}
    /\ dropped' = TRUE
    /\ UNCHANGED <<tls, phase, published, outcome, completed, coordinator,
                   tasks, counters, callers, conn>>

(* The supervisor is dropped at an await, and its JoinSet with it, which   *)
(* aborts every connection task.                                           *)
supervisor_aborted ==
    /\ dropped
    /\ supervisor \in {"select", "backoff", "draining", "forcing"}
    /\ supervisor' = "dropped"
    /\ aborted' = In(Running)
    /\ UNCHANGED <<lifecycle, verdict, cut, counters, callers, conn>>

coordinator_aborted ==
    /\ dropped
    /\ coordinator = "joining"
    /\ coordinator' = "done"
    /\ UNCHANGED <<tls, phase, published, outcome, completed, dropped,
                   tasks, counters, callers, conn>>

--------------------------------------------------------------------------------
Supervise ==
    \/ check_deadline
    \/ shutdown_changed
    \/ \E c \in Sockets : join_next(c)
    \/ \E c \in Sockets : accept_socket(c)
    \/ \E c \in Sockets : accept_refuses(c)
    \/ accept_fails
    \/ backoff_interrupted
    \/ \E c \in Sockets : admit_connection(c)
    \/ \E c \in Sockets : spawn_connection(c)
    \/ drained
    \/ abort_all
    \/ forced

Serve(c) ==
    \/ serve_connection(c)
    \/ handshake_interrupted(c)
    \/ handshake_lost(c)
    \/ handshake_succeeds(c)
    \/ check_shutdown(c)
    \/ recv_interrupted(c)
    \/ recv(c)
    \/ admit_request(c)
    \/ process_request(c)
    \/ send_response(c)
    \/ task_aborted(c)

Shutdown(s) ==
    \/ seal(s)
    \/ publish_shutdown(s)
    \/ ensure_coordinator(s)
    \/ subscribe(s)
    \/ check_outcome(s)
    \/ completion_changed(s)
    \/ cancel_stop(s)

Coordinate ==
    \/ record_outcome
    \/ publish_outcome

Owner ==
    \/ abort_owned_tasks
    \/ supervisor_aborted
    \/ coordinator_aborted

Next ==
    \/ Supervise
    \/ \E c \in Sockets : Serve(c)
    \/ \E s \in Stoppers : Shutdown(s)
    \/ Coordinate
    \/ Owner

Spec == Init /\ [][Next]_vars

--------------------------------------------------------------------------------
(* The runtime polls every task that is ready and timers fire.  A task told *)
(* to abort is dropped instead of polled the next time, so it cannot pass  *)
(* await after await (strong fairness).  Peers, handlers and callers owe   *)
(* nothing: no fairness on arrivals, on the end of a handler or of a send, *)
(* on stop() being called or cancelled, on Drop.                           *)
Fairness ==
    /\ WF_vars(check_deadline)
    /\ WF_vars(shutdown_changed)
    /\ WF_vars(backoff_interrupted)
    /\ WF_vars(drained)
    /\ WF_vars(abort_all)
    /\ WF_vars(forced)
    /\ WF_vars(Coordinate)
    /\ SF_vars(supervisor_aborted)
    /\ \A c \in Sockets :
          /\ WF_vars(join_next(c))
          /\ WF_vars(admit_connection(c))
          /\ WF_vars(spawn_connection(c))
          /\ WF_vars(serve_connection(c))
          /\ WF_vars(check_shutdown(c))
          /\ WF_vars(admit_request(c))
          /\ SF_vars(task_aborted(c))
    /\ \A s \in Stoppers :
          /\ WF_vars(publish_shutdown(s))
          /\ WF_vars(ensure_coordinator(s))
          /\ WF_vars(subscribe(s))
          /\ WF_vars(check_outcome(s))
          /\ WF_vars(completion_changed(s))

FairSpec == Spec /\ Fairness

--------------------------------------------------------------------------------
(* Every variable has its type.  The two limits are part of it: the        *)
(* reservation loop of reserve_connection never passes max_connections,    *)
(* nor the handshakes in progress their semaphore.                         *)
TypeOK ==
    /\ tls \in BOOLEAN
    /\ phase \in {"Running", "Draining", "Closed"}
    /\ published \in BOOLEAN
    /\ outcome \in {"none", "Drained", "Forced"}
    /\ completed \in BOOLEAN
    /\ coordinator \in {"none", "joining", "recorded", "done"}
    /\ supervisor \in {"top", "select", "accepted", "admitted", "backoff", "draining",
                       "forcing", "finished", "dropped"}
    /\ verdict \in {"none", "Drained", "Forced"}
    /\ conn \in [Sockets -> Stages]
    /\ aborted \subseteq Sockets
    /\ active_connections \in 0..MaxConnections
    /\ active_requests \in Nat
    /\ active_handshakes \in 0..HandshakeLimit
    /\ active_sessions \in Nat
    /\ started \in Nat
    /\ finished \in [Counters -> Nat]
    /\ stop \in [Stoppers -> {"none", "sealed", "published", "subscribing",
                              "checking", "awaiting", "returned", "cancelled"}]
    /\ seen \subseteq Stoppers
    /\ dropped \in BOOLEAN
    /\ cut \subseteq Sockets

(* The counters that metrics() reports are exactly the guards alive, and   *)
(* every handshake that was started is active or counted once by the way   *)
(* it ended, whatever order tasks end, are aborted, fail and are joined in *)
(* (ConnectionGuard, RequestGuard, HandshakeGuard, SessionGuard).          *)
CountersExact ==
    /\ active_connections = Cardinality(In(Guarded))
    /\ active_requests = Cardinality(In(InRequest))
    /\ active_handshakes = Cardinality(In(InHandshake))
    /\ active_sessions = IF tls THEN Cardinality(In(Session)) ELSE 0
    /\ started = active_handshakes + finished["succeeded"] + finished["failed"]
                 + finished["timed_out"] + finished["cancelled"]

(* The seal is a linearization point: once stop() has taken the state      *)
(* lock, no request begins, not even for a frame already received, and no  *)
(* socket joins those admitted before it ("an accepted socket is either    *)
(* admitted before the seal or dropped", server.rs:168).  The task of a    *)
(* socket admitted before may still be spawned; it serves no request.      *)
SealStopsAdmission ==
    [][Sealed => /\ In(InRequest)' \subseteq In(InRequest)
                 /\ In(Admitted)' \subseteq In(Admitted)]_vars

(* When stop() returns, its outcome is that of a server at rest: the       *)
(* listener is closed, no connection task is left, and every gauge is      *)
(* zero ("aborted and joined", ShutdownOutcome::Forced).                   *)
StoppedMeansQuiescent ==
    (\E s \in Stoppers : stop[s] = "returned") =>
        /\ supervisor = "finished"
        /\ outcome = verdict
        /\ In(Guarded \cup {"ended"}) = {}
        /\ active_connections = 0 /\ active_requests = 0
        /\ active_handshakes = 0 /\ active_sessions = 0

(* A stop() that reports Drained interrupted no admitted request: each one *)
(* ran its handler and its send to the end ("Every admitted connection     *)
(* finished before the configured deadline", ShutdownOutcome::Drained).    *)
DrainedMeansComplete ==
    outcome = "Drained" => cut = {}

(* A stop() call that is not cancelled returns, however peers and handlers *)
(* behave, since the deadline bounds the drain and the coordinator's       *)
(* outcome reaches every waiter; and a dropped server releases every       *)
(* connection.                                                             *)
EndsCleanly ==
    /\ \A s \in Stoppers :
          stop[s] = "sealed" ~> stop[s] \in {"returned", "cancelled"}
    /\ dropped ~> active_connections = 0

================================================================================

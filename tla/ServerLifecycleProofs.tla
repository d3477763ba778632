------------------------- MODULE ServerLifecycleProofs -------------------------
(***************************************************************************)
(* Safety of ServerLifecycle for any number of sockets and stop() callers  *)
(* and any limits.                                                         *)
(*                                                                         *)
(* Books, the part of the invariant about sockets and counters, is proved  *)
(* first: every step moves at most one socket, and Recount says what that  *)
(* does to the number of sockets in a set of stages.  Order, the part      *)
(* about the supervisor, the coordinator and the stop() calls, follows.    *)
(***************************************************************************)
EXTENDS ServerLifecycle, FiniteSetTheorems, TLAPS

\* A leaf that names no prover is left to Zenon.
USE Zenon

CounterTypes ==
    /\ active_connections \in 0..MaxConnections
    /\ active_requests \in Nat
    /\ active_handshakes \in 0..HandshakeLimit
    /\ active_sessions \in Nat
    /\ started \in Nat
    /\ finished \in [Counters -> Nat]

Books ==
    /\ tls \in BOOLEAN
    /\ conn \in [Sockets -> Stages]
    /\ CounterTypes
    /\ CountersExact
    /\ ~tls => In(InHandshake) = {}

ControlTypes ==
    /\ phase \in {"Running", "Draining", "Closed"}
    /\ published \in BOOLEAN
    /\ outcome \in {"none", "Drained", "Forced"}
    /\ completed \in BOOLEAN
    /\ coordinator \in {"none", "joining", "recorded", "done"}
    /\ supervisor \in {"top", "select", "accepted", "admitted", "backoff",
                       "draining", "forcing", "finished", "dropped"}
    /\ verdict \in {"none", "Drained", "Forced"}
    /\ aborted \subseteq Sockets
    /\ stop \in [Stoppers -> {"none", "sealed", "published", "subscribing",
                              "checking", "awaiting", "returned", "cancelled"}]
    /\ seen \subseteq Stoppers
    /\ dropped \in BOOLEAN
    /\ cut \subseteq Sockets

\* A socket is in the supervisor's hands only between accept and spawn, and a
\* supervisor that finished has joined every task.
InHand == {"accepted", "admitted"}

Joined ==
    /\ supervisor \notin InHand => In(InHand) = {}
    /\ \A c, d \in In(InHand) : c = d
    /\ supervisor = "finished" => In(Guarded \cup {"ended"}) = {}

\* Nothing is aborted before the deadline or the drop, and a drained verdict
\* means that nothing was.
Aborts ==
    /\ supervisor \notin {"forcing", "finished", "dropped"} => aborted = {} /\ cut = {}
    /\ verdict # "none" <=> supervisor = "finished"
    /\ verdict = "Drained" => cut = {}

\* The outcome is the verdict of a supervisor that was not dropped, and a
\* dropped server has no stop() call in flight.
Outcomes ==
    /\ outcome # "none" => supervisor \in {"finished", "dropped"}
    /\ outcome # "none" /\ supervisor = "finished" => outcome = verdict
    /\ outcome # "none" /\ supervisor = "dropped" => outcome = "Forced"
    /\ supervisor = "dropped" => dropped
    /\ dropped => \A s \in Stoppers : stop[s] \in {"none", "returned", "cancelled"}
    /\ \A s \in Stoppers : stop[s] = "returned" => outcome # "none" /\ supervisor = "finished"

\* The inductive invariant.
Inv == Books /\ ControlTypes /\ Joined /\ Aborts /\ Outcomes

\* A set of sockets is finite, so it has a number of elements.
LEMMA Countable ==
  ASSUME NEW S
  PROVE  IsFiniteSet(In(S)) /\ Cardinality(In(S)) \in Nat
<1>1. In(S) \in SUBSET Sockets
  BY DEF In
<1>2. IsFiniteSet(In(S))
  BY <1>1, SocketsFinite, FS_Subset
<1> QED BY <1>2, FS_CardinalityType

\* When one socket moves to stage x, the number of sockets in a set of stages
\* loses it if it was there and gains it if x is.
LEMMA Recount ==
  ASSUME conn \in [Sockets -> Stages], NEW c \in Sockets, NEW x \in Stages,
         conn' = [conn EXCEPT ![c] = x], NEW CONSTANT S
  PROVE  /\ Cardinality(In(S)) \in Nat
         /\ Cardinality(In(S)') \in Nat
         /\ conn[c] \in S => Cardinality(In(S)) >= 1
         /\ Cardinality(In(S)') = Cardinality(In(S)) - One(conn[c] \in S) + One(x \in S)
<1> DEFINE A == In(S)
           B == In(S)'
<1>1. IsFiniteSet(A) /\ Cardinality(A) \in Nat
  BY Countable
<1>2. conn[c] \in S <=> c \in A
  BY DEF In
<1>3. B = IF x \in S THEN (A \ {c}) \cup {c} ELSE A \ {c}
  BY DEF In
<1>4. IsFiniteSet(A \ {c}) /\ Cardinality(A \ {c}) = Cardinality(A) - One(c \in A)
  BY SMT, <1>1, FS_RemoveElement DEF One
<1>5. Cardinality(A \ {c}) \in Nat
  BY <1>4, FS_CardinalityType
<1>6. IsFiniteSet((A \ {c}) \cup {c})
      /\ Cardinality((A \ {c}) \cup {c}) = Cardinality(A \ {c}) + 1
  <2>1. c \notin A \ {c}
    OBVIOUS
  <2> QED BY <2>1, <1>4, FS_AddElement
<1>7. Cardinality(B) = Cardinality(A \ {c}) + One(x \in S)
  BY SMT, <1>3, <1>5, <1>6 DEF One
<1>8. c \in A => Cardinality(A) >= 1
  BY SMT, <1>1, <1>4, <1>5 DEF One
<1> HIDE DEF A, B
<1>9. /\ Cardinality(A) \in Nat
      /\ Cardinality(B) \in Nat
      /\ conn[c] \in S => Cardinality(A) >= 1
      /\ Cardinality(B) = Cardinality(A) - One(conn[c] \in S) + One(x \in S)
  BY SMT, <1>1, <1>2, <1>4, <1>5, <1>7, <1>8 DEF One
<1> QED BY <1>9 DEF A, B


\* The four counts at once, for a socket that moves to stage x.
LEMMA RecountAll ==
  ASSUME conn \in [Sockets -> Stages], NEW c \in Sockets, NEW x \in Stages,
         conn' = [conn EXCEPT ![c] = x]
  PROVE  \A S \in {Guarded, InRequest, InHandshake, Session} :
            /\ Cardinality(In(S)) \in Nat
            /\ Cardinality(In(S)') \in Nat
            /\ conn[c] \in S => Cardinality(In(S)) >= 1
            /\ Cardinality(In(S)') = Cardinality(In(S)) - One(conn[c] \in S) + One(x \in S)
BY Recount

\* One more result of a handshake is one more in the sum of all results.
LEMMA OneMoreFinished ==
  ASSUME finished \in [Counters -> Nat], NEW k \in Counters,
         finished' = [finished EXCEPT ![k] = @ + 1]
  PROVE  /\ finished' \in [Counters -> Nat]
         /\ (finished["succeeded"] + finished["failed"] + finished["timed_out"]
             + finished["cancelled"])'
            = finished["succeeded"] + finished["failed"] + finished["timed_out"]
              + finished["cancelled"] + 1
<1>1. CASE k = "succeeded" BY SMT, <1>1 DEF Counters
<1>2. CASE k = "failed" BY SMT, <1>2 DEF Counters
<1>3. CASE k = "timed_out" BY SMT, <1>3 DEF Counters
<1>4. CASE k = "cancelled" BY SMT, <1>4 DEF Counters
<1> QED BY <1>1, <1>2, <1>3, <1>4 DEF Counters

\* A socket that leaves the handshake stages, or never was there, adds none.
LEMMA NoNewHandshake ==
  ASSUME conn \in [Sockets -> Stages], NEW c \in Sockets, NEW x \in Stages \ InHandshake,
         conn' = [conn EXCEPT ![c] = x], tls' = tls,
         ~tls => In(InHandshake) = {}
  PROVE  (~tls => In(InHandshake) = {})'
BY DEF In

\* A task that ends gives back every guard it holds, each of them once.
LEMMA TaskEnds ==
  ASSUME Books, NEW c \in Sockets, NEW k \in Counters, conn[c] \in Running,
         task_ends(c, k), tls' = tls
  PROVE  Books'
<1>1. /\ conn \in [Sockets -> Stages] /\ "ended" \in Stages \ InHandshake
      /\ conn' = [conn EXCEPT ![c] = "ended"]
  BY DEF Books, task_ends, Stages, InHandshake
<1>2. conn' \in [Sockets -> Stages]
  BY <1>1
<1>3. (~tls => In(InHandshake) = {})'
  BY <1>1, NoNewHandshake DEF Books
<1>4. \A S \in {Guarded, InRequest, InHandshake, Session} :
            /\ Cardinality(In(S)) \in Nat
            /\ Cardinality(In(S)') \in Nat
            /\ conn[c] \in S => Cardinality(In(S)) >= 1
            /\ Cardinality(In(S)') = Cardinality(In(S)) - One(conn[c] \in S) + One("ended" \in S)
  BY <1>1, RecountAll
<1>5. /\ active_connections' \in 0..MaxConnections
      /\ active_connections' = Cardinality(In(Guarded)')
  <2>1. conn[c] \in Guarded /\ "ended" \notin Guarded
    BY DEF Guarded, Admitted, Running, InHandshake, Session
  <2> QED BY SMT, <1>4, <2>1, LimitsPositive DEF task_ends, Books, CounterTypes, CountersExact, One
<1>6. /\ active_requests' \in Nat
      /\ active_requests' = Cardinality(In(InRequest)')
  <2>1. "ended" \notin InRequest
    BY DEF InRequest
  <2> QED BY SMT, <1>4, <2>1 DEF task_ends, Books, CounterTypes, CountersExact, One
<1>7. /\ active_sessions' \in Nat
      /\ active_sessions' = IF tls' THEN Cardinality(In(Session)') ELSE 0
  <2>1. "ended" \notin Session
    BY DEF Session
  <2> QED BY SMT, <1>4, <2>1 DEF task_ends, Books, CounterTypes, CountersExact, One
<1>8. /\ active_handshakes' \in 0..HandshakeLimit
      /\ active_handshakes' = Cardinality(In(InHandshake)')
  <2>1. "ended" \notin InHandshake
    BY DEF InHandshake
  <2>2. HandshakeLimit \in Nat
    BY LimitsPositive DEF HandshakeLimit
  <2> QED BY SMT, <1>4, <2>1, <2>2 DEF task_ends, finish, Books, CounterTypes, CountersExact, One
<1>9. /\ started' \in Nat
      /\ finished' \in [Counters -> Nat]
      /\ started' = active_handshakes' + finished'["succeeded"] + finished'["failed"]
                    + finished'["timed_out"] + finished'["cancelled"]
  <2>0. HandshakeLimit \in Nat
    BY LimitsPositive DEF HandshakeLimit
  <2>1. CASE conn[c] \in InHandshake
    <3>1. finished' = [finished EXCEPT ![k] = @ + 1]
      BY <2>1 DEF task_ends, finish
    <3>2. active_handshakes' = active_handshakes - 1
      BY <2>1 DEF task_ends, finish
    <3> QED BY SMT, <2>0, <3>1, <3>2, OneMoreFinished
            DEF task_ends, Books, CounterTypes, CountersExact, Counters
  <2>2. CASE conn[c] \notin InHandshake
    BY <2>2 DEF task_ends, Books, CounterTypes, CountersExact
  <2> QED BY <2>1, <2>2
<1> QED
  BY <1>2, <1>3, <1>5, <1>6, <1>7, <1>8, <1>9 DEF Books, CounterTypes, CountersExact


\* A move that keeps a task inside the same guards leaves the books balanced.
LEMMA TaskMoves ==
  ASSUME Books, NEW c \in Sockets, NEW x \in Stages, moves_to(c, x), tls' = tls,
         conn[c] \in Guarded <=> x \in Guarded,
         conn[c] \in InRequest <=> x \in InRequest,
         conn[c] \in InHandshake <=> x \in InHandshake,
         tls => (conn[c] \in Session <=> x \in Session)
  PROVE  Books'
<1>1. /\ conn \in [Sockets -> Stages]
      /\ conn' = [conn EXCEPT ![c] = x]
      /\ UNCHANGED counters
  BY DEF Books, moves_to
<1>2. conn' \in [Sockets -> Stages] /\ (~tls => In(InHandshake) = {})'
  BY <1>1 DEF Books, In
<1>3. \A S \in {Guarded, InRequest, InHandshake, Session} :
            /\ Cardinality(In(S)) \in Nat
            /\ Cardinality(In(S)') \in Nat
            /\ conn[c] \in S => Cardinality(In(S)) >= 1
            /\ Cardinality(In(S)') = Cardinality(In(S)) - One(conn[c] \in S) + One(x \in S)
  BY <1>1, RecountAll
<1>4. /\ Cardinality(In(Guarded)') = Cardinality(In(Guarded))
      /\ Cardinality(In(InRequest)') = Cardinality(In(InRequest))
      /\ Cardinality(In(InHandshake)') = Cardinality(In(InHandshake))
      /\ tls => Cardinality(In(Session)') = Cardinality(In(Session))
  BY SMT, <1>3 DEF One
<1> QED
  BY <1>1, <1>2, <1>4 DEF Books, CounterTypes, CountersExact, counters

\* An admitted request adds one to the active requests and nothing else.
LEMMA RequestBegins ==
  ASSUME Books, NEW c \in Sockets, conn[c] = "received", tls' = tls,
         begin_request(c)
  PROVE  Books'
<1>1. /\ conn \in [Sockets -> Stages] /\ "handling" \in Stages \ InHandshake
      /\ conn' = [conn EXCEPT ![c] = "handling"]
  BY DEF Books, begin_request, Stages, Guarded, Admitted, Running, InHandshake, Session, InRequest
<1>2. conn' \in [Sockets -> Stages] /\ (~tls => In(InHandshake) = {})'
  BY <1>1, NoNewHandshake DEF Books
<1>3. \A S \in {Guarded, InRequest, InHandshake, Session} :
            /\ Cardinality(In(S)) \in Nat
            /\ Cardinality(In(S)') \in Nat
            /\ conn[c] \in S => Cardinality(In(S)) >= 1
            /\ Cardinality(In(S)') = Cardinality(In(S)) - One(conn[c] \in S) + One("handling" \in S)
  BY <1>1, RecountAll
<1>4. HandshakeLimit \in Nat
  BY LimitsPositive DEF HandshakeLimit
<1> HIDE DEF In
<1> QED
  BY SMT, <1>2, <1>3, <1>4, LimitsPositive
  DEF Books, CounterTypes, CountersExact, begin_request, One, Guarded, Admitted, Running, InHandshake, Session, InRequest

\* A request guard that is dropped takes one off the active requests.
LEMMA RequestEnds ==
  ASSUME Books, NEW c \in Sockets, conn[c] \in InRequest, tls' = tls,
         end_request(c)
  PROVE  Books'
<1>1. /\ conn \in [Sockets -> Stages] /\ "loop" \in Stages \ InHandshake
      /\ conn' = [conn EXCEPT ![c] = "loop"]
  BY DEF Books, end_request, Stages, Guarded, Admitted, Running, InHandshake, Session, InRequest
<1>2. conn' \in [Sockets -> Stages] /\ (~tls => In(InHandshake) = {})'
  BY <1>1, NoNewHandshake DEF Books
<1>3. \A S \in {Guarded, InRequest, InHandshake, Session} :
            /\ Cardinality(In(S)) \in Nat
            /\ Cardinality(In(S)') \in Nat
            /\ conn[c] \in S => Cardinality(In(S)) >= 1
            /\ Cardinality(In(S)') = Cardinality(In(S)) - One(conn[c] \in S) + One("loop" \in S)
  BY <1>1, RecountAll
<1>4. HandshakeLimit \in Nat
  BY LimitsPositive DEF HandshakeLimit
<1> HIDE DEF In
<1> QED
  BY SMT, <1>2, <1>3, <1>4, LimitsPositive
  DEF Books, CounterTypes, CountersExact, end_request, One, Guarded, Admitted, Running, InHandshake, Session, InRequest


\* The listener reserves a place for a socket it accepts, within its limit.
LEMMA SocketReserved ==
  ASSUME Books, NEW c \in Sockets, tls' = tls,
         accept_socket(c)
  PROVE  Books'
<1>1. /\ conn \in [Sockets -> Stages] /\ "accepted" \in Stages \ InHandshake
      /\ conn' = [conn EXCEPT ![c] = "accepted"]
  BY DEF Books, accept_socket, Stages, Guarded, Admitted, Running, InHandshake, Session, InRequest
<1>2. conn' \in [Sockets -> Stages] /\ (~tls => In(InHandshake) = {})'
  BY <1>1, NoNewHandshake DEF Books
<1>3. \A S \in {Guarded, InRequest, InHandshake, Session} :
            /\ Cardinality(In(S)) \in Nat
            /\ Cardinality(In(S)') \in Nat
            /\ conn[c] \in S => Cardinality(In(S)) >= 1
            /\ Cardinality(In(S)') = Cardinality(In(S)) - One(conn[c] \in S) + One("accepted" \in S)
  BY <1>1, RecountAll
<1>4. HandshakeLimit \in Nat
  BY LimitsPositive DEF HandshakeLimit
<1> HIDE DEF In
<1> QED
  BY SMT, <1>2, <1>3, <1>4, LimitsPositive
  DEF Books, CounterTypes, CountersExact, accept_socket, reserve_connection, One, Guarded, Admitted, Running, InHandshake, Session, InRequest

\* An accepted socket that is dropped gives its reservation back.
LEMMA SocketRefused ==
  ASSUME Books, NEW c \in Sockets, tls' = tls,
         conn[c] \in {"accepted", "admitted"}, conn' = [conn EXCEPT ![c] = "gone"],
         active_connections' = active_connections - 1,
         UNCHANGED <<active_requests, active_handshakes, active_sessions, started, finished>>
  PROVE  Books'
<1>1. /\ conn \in [Sockets -> Stages] /\ "gone" \in Stages \ InHandshake
      /\ conn' = [conn EXCEPT ![c] = "gone"]
  BY DEF Books, Stages, Guarded, Admitted, Running, InHandshake, Session, InRequest
<1>2. conn' \in [Sockets -> Stages] /\ (~tls => In(InHandshake) = {})'
  BY <1>1, NoNewHandshake DEF Books
<1>3. \A S \in {Guarded, InRequest, InHandshake, Session} :
            /\ Cardinality(In(S)) \in Nat
            /\ Cardinality(In(S)') \in Nat
            /\ conn[c] \in S => Cardinality(In(S)) >= 1
            /\ Cardinality(In(S)') = Cardinality(In(S)) - One(conn[c] \in S) + One("gone" \in S)
  BY <1>1, RecountAll
<1>4. HandshakeLimit \in Nat
  BY LimitsPositive DEF HandshakeLimit
<1> HIDE DEF In
<1> QED
  BY SMT, <1>2, <1>3, <1>4, LimitsPositive
  DEF Books, CounterTypes, CountersExact, One, Guarded, Admitted, Running, InHandshake, Session, InRequest

\* A connection task of the TLS server starts with a permit and a counted handshake.
LEMMA HandshakeStarts ==
  ASSUME Books, NEW c \in Sockets, tls' = tls,
         conn[c] = "admitted", conn' = [conn EXCEPT ![c] = "starting"],
         tls, active_handshakes < HandshakeLimit,
         active_handshakes' = active_handshakes + 1, started' = started + 1,
         UNCHANGED <<active_connections, active_requests, active_sessions, finished>>
  PROVE  Books'
<1>1. /\ conn \in [Sockets -> Stages] /\ "starting" \in Stages
      /\ conn' = [conn EXCEPT ![c] = "starting"]
  BY DEF Books, Stages, Guarded, Admitted, Running, InHandshake, Session, InRequest
<1>2. conn' \in [Sockets -> Stages] /\ (~tls => In(InHandshake) = {})'
  BY <1>1 DEF Books, In
<1>3. \A S \in {Guarded, InRequest, InHandshake, Session} :
            /\ Cardinality(In(S)) \in Nat
            /\ Cardinality(In(S)') \in Nat
            /\ conn[c] \in S => Cardinality(In(S)) >= 1
            /\ Cardinality(In(S)') = Cardinality(In(S)) - One(conn[c] \in S) + One("starting" \in S)
  BY <1>1, RecountAll
<1>4. HandshakeLimit \in Nat
  BY LimitsPositive DEF HandshakeLimit
<1>5. /\ active_connections' = Cardinality(In(Guarded)')
      /\ active_requests' = Cardinality(In(InRequest)')
      /\ active_sessions' = Cardinality(In(Session)')
  BY SMT, <1>3 DEF Books, CounterTypes, CountersExact, One, Guarded, Admitted, Running, InHandshake,
     Session, InRequest
<1>6. /\ active_handshakes' = Cardinality(In(InHandshake)')
      /\ active_handshakes' \in 0..HandshakeLimit
  BY SMT, <1>3, <1>4 DEF Books, CounterTypes, CountersExact, One, InHandshake
<1>7. started' = active_handshakes' + finished'["succeeded"] + finished'["failed"]
                 + finished'["timed_out"] + finished'["cancelled"]
  BY SMT, <1>4 DEF Books, CounterTypes, CountersExact, Counters
<1> QED
  BY SMT, <1>2, <1>5, <1>6, <1>7 DEF Books, CounterTypes, CountersExact

\* A handshake that succeeds is counted once and becomes a session.
LEMMA HandshakeSucceeds ==
  ASSUME Books, NEW c \in Sockets, tls' = tls,
         handshake_succeeds(c)
  PROVE  Books'
<1>1. /\ conn \in [Sockets -> Stages] /\ "loop" \in Stages \ InHandshake
      /\ conn' = [conn EXCEPT ![c] = "loop"]
  BY DEF Books, handshake_succeeds, Stages, Guarded, Admitted, Running, InHandshake, Session, InRequest
<1>2. conn' \in [Sockets -> Stages] /\ (~tls => In(InHandshake) = {})'
  BY <1>1, NoNewHandshake DEF Books
<1>3. \A S \in {Guarded, InRequest, InHandshake, Session} :
            /\ Cardinality(In(S)) \in Nat
            /\ Cardinality(In(S)') \in Nat
            /\ conn[c] \in S => Cardinality(In(S)) >= 1
            /\ Cardinality(In(S)') = Cardinality(In(S)) - One(conn[c] \in S) + One("loop" \in S)
  BY <1>1, RecountAll
<1>4. HandshakeLimit \in Nat
  BY LimitsPositive DEF HandshakeLimit
<1>5. tls /\ conn[c] = "handshake"
  BY DEF handshake_succeeds, Books, In, InHandshake
<1>6. /\ active_handshakes' = active_handshakes - 1
      /\ finished' \in [Counters -> Nat]
      /\ started' = active_handshakes' + finished'["succeeded"] + finished'["failed"]
                    + finished'["timed_out"] + finished'["cancelled"]
  <2>1. finished' = [finished EXCEPT !["succeeded"] = @ + 1] /\ "succeeded" \in Counters
    BY DEF handshake_succeeds, finish, Counters
  <2> QED BY SMT, <1>4, <2>1, OneMoreFinished
          DEF handshake_succeeds, finish, Books, CounterTypes, CountersExact, Counters
<1>7. /\ active_connections' = Cardinality(In(Guarded)')
      /\ active_requests' = Cardinality(In(InRequest)')
  BY SMT, <1>3, <1>5 DEF Books, CounterTypes, CountersExact, handshake_succeeds, One, Guarded, Admitted,
     Running, InHandshake, Session, InRequest
<1>8. /\ active_handshakes' = Cardinality(In(InHandshake)')
      /\ active_handshakes' \in 0..HandshakeLimit
  BY SMT, <1>3, <1>4, <1>5, <1>6 DEF Books, CounterTypes, CountersExact, One, InHandshake
<1>9. active_sessions' = Cardinality(In(Session)') /\ active_sessions' \in Nat
  BY SMT, <1>3, <1>5 DEF Books, CounterTypes, CountersExact, handshake_succeeds, One, Session
<1> QED
  BY <1>2, <1>5, <1>6, <1>7, <1>8, <1>9
  DEF Books, CounterTypes, CountersExact, handshake_succeeds

\* Books holds initially: no socket has been accepted.
LEMMA BooksInit ==
  ASSUME Init
  PROVE  Books
<1>1. \A S \in {Guarded, InRequest, InHandshake, Session} : In(S) = {}
  BY DEF Init, In, Guarded, InRequest, Admitted, Running, InHandshake, Session
<1>2. HandshakeLimit \in Nat
  BY LimitsPositive DEF HandshakeLimit
<1> QED
  BY SMT, <1>1, <1>2, LimitsPositive, FS_EmptySet
  DEF Init, Books, CounterTypes, CountersExact, Counters, Stages

\* Every step keeps Books: it leaves sockets and counters alone, or it is one of
\* the moves above.
LEMMA BooksStep ==
  ASSUME Books, [Next]_vars
  PROVE  Books'
<1>0. ASSUME UNCHANGED <<tls, conn, counters>>
      PROVE  Books'
  BY <1>0 DEF Books, CounterTypes, CountersExact, In, counters
<1>1. ASSUME NEW c \in Sockets, Serve(c)
      PROVE  Books'
  <2>0. tls' = tls /\ "cancelled" \in Counters /\ {"timed_out", "failed"} \subseteq Counters
    BY <1>1 DEF Serve, serve_connection, handshake_interrupted, handshake_lost,
       handshake_succeeds, check_shutdown, recv_interrupted, recv, admit_request,
       process_request, send_response, task_aborted, lifecycle, Counters
  <2>1. CASE serve_connection(c)
    BY <1>1, <2>0, <2>1, TaskEnds, TaskMoves
       DEF serve_connection, Stages, Guarded, Admitted, Running, InHandshake, Session, InRequest
  <2>2. CASE handshake_interrupted(c) \/ handshake_lost(c)
    BY <1>1, <2>0, <2>2, TaskEnds
       DEF handshake_interrupted, handshake_lost, Running, InHandshake
  <2>3. CASE handshake_succeeds(c)
    BY <1>1, <2>0, <2>3, HandshakeSucceeds
  <2>4. CASE check_shutdown(c)
    BY <1>1, <2>0, <2>4, TaskEnds, TaskMoves
       DEF check_shutdown, Stages, Guarded, Admitted, Running, InHandshake, Session, InRequest
  <2>5. CASE recv_interrupted(c)
    BY <1>1, <2>0, <2>5, TaskEnds DEF recv_interrupted, Running, Session
  <2>6. CASE recv(c)
    BY <1>1, <2>0, <2>6, TaskEnds, TaskMoves
       DEF recv, Stages, Guarded, Admitted, Running, InHandshake, Session, InRequest
  <2>7. CASE admit_request(c)
    BY <1>1, <2>0, <2>7, TaskEnds, RequestBegins DEF admit_request, Running, Session
  <2>8. CASE process_request(c)
    <3>1. conn[c] = "handling" /\ conn[c] \in InRequest /\ conn[c] \in Running
      BY <2>8 DEF process_request, InRequest, Running, Session
    <3>2. CASE moves_to(c, "sending")
      BY <1>1, <2>0, <3>1, <3>2, TaskMoves
         DEF Stages, Guarded, Admitted, Running, InHandshake, Session, InRequest
    <3>3. CASE end_request(c)
      BY <1>1, <2>0, <3>1, <3>3, RequestEnds
    <3>4. CASE task_ends(c, "cancelled")
      BY <1>1, <2>0, <3>1, <3>4, TaskEnds
    <3> QED BY <2>8, <3>2, <3>3, <3>4 DEF process_request
  <2>9. CASE send_response(c)
    BY <1>1, <2>0, <2>9, TaskEnds, RequestEnds DEF send_response, InRequest, Running, Session
  <2>10. CASE task_aborted(c)
    BY <1>1, <2>0, <2>10, TaskEnds DEF task_aborted, Cancellable
  <2> QED
    BY <1>1, <2>1, <2>2, <2>3, <2>4, <2>5, <2>6, <2>7, <2>8, <2>9, <2>10 DEF Serve
<1>2. ASSUME Supervise
      PROVE  Books'
  <2>0. tls' = tls
    BY <1>2 DEF Supervise, check_deadline, shutdown_changed, join_next, accept_socket,
       accept_refuses, accept_fails, backoff_interrupted, admit_connection, spawn_connection,
       drained, abort_all, forced, lifecycle
  <2>1. CASE check_deadline \/ shutdown_changed \/ backoff_interrupted \/ drained
             \/ abort_all \/ forced
    BY <1>0, <2>1 DEF check_deadline, shutdown_changed, backoff_interrupted, drained,
       abort_all, forced, lifecycle
  <2>2. ASSUME NEW c \in Sockets, conn[c] \in {"waiting", "ended"}, moves_to(c, "gone")
        PROVE  Books'
    BY <2>0, <2>2, TaskMoves
       DEF Stages, Guarded, Admitted, Running, InHandshake, Session, InRequest
  <2>3. ASSUME NEW c \in Sockets, join_next(c) \/ accept_refuses(c)
        PROVE  Books'
    BY <2>2, <2>3 DEF join_next, accept_refuses, moves_to
  <2>4. CASE accept_fails
    BY <1>0, <2>0, <2>2, <2>4 DEF accept_fails, In, moves_to
  <2>5. ASSUME NEW c \in Sockets, accept_socket(c)
        PROVE  Books'
    BY <2>0, <2>5, SocketReserved
  <2>6. ASSUME NEW c \in Sockets, conn[c] \in {"accepted", "admitted"}, drop_socket(c)
        PROVE  Books'
    BY <2>0, <2>6, SocketRefused DEF drop_socket
  <2>7. ASSUME NEW c \in Sockets, admit_connection(c)
        PROVE  Books'
    <3>1. conn[c] = "accepted"
      BY <2>7 DEF admit_connection
    <3>2. CASE moves_to(c, "admitted")
      BY <2>0, <3>1, <3>2, TaskMoves
         DEF Stages, Guarded, Admitted, Running, InHandshake, Session, InRequest
    <3> QED BY <2>6, <2>7, <3>1, <3>2 DEF admit_connection
  <2>8. ASSUME NEW c \in Sockets, spawn_connection(c)
        PROVE  Books'
    <3>1. conn[c] = "admitted"
      BY <2>8 DEF spawn_connection
    <3>2. CASE ~tls /\ moves_to(c, "loop")
      BY <2>0, <3>1, <3>2, TaskMoves
         DEF Stages, Guarded, Admitted, Running, InHandshake, Session, InRequest
    <3>3. CASE /\ tls /\ active_handshakes < HandshakeLimit
               /\ conn' = [conn EXCEPT ![c] = "starting"]
               /\ active_handshakes' = active_handshakes + 1 /\ started' = started + 1
               /\ UNCHANGED <<active_connections, active_requests, active_sessions, finished>>
      BY <2>0, <3>1, <3>3, HandshakeStarts
    <3> QED BY <2>6, <2>8, <3>1, <3>2, <3>3 DEF spawn_connection
  <2> QED BY <1>2, <2>1, <2>3, <2>4, <2>5, <2>7, <2>8 DEF Supervise
<1>3. ASSUME NEW s \in Stoppers, Shutdown(s)
      PROVE  Books'
  BY <1>0, <1>3 DEF Shutdown, seal, publish_shutdown, ensure_coordinator, subscribe,
     check_outcome, completion_changed, cancel_stop, lifecycle
<1>4. CASE Coordinate \/ Owner
  BY <1>0, <1>4 DEF Coordinate, Owner, record_outcome, publish_outcome, abort_owned_tasks,
     supervisor_aborted, coordinator_aborted, lifecycle
<1>5. CASE UNCHANGED vars
  BY <1>0, <1>5 DEF vars, lifecycle
<1> QED BY <1>1, <1>2, <1>3, <1>4, <1>5 DEF Next


\* What a step of a connection task can change: its own stage, while it runs,
\* and the counters; `cut' only when the task was told to abort.
LEMMA ServeShape ==
  ASSUME conn \in [Sockets -> Stages], NEW c \in Sockets, Serve(c)
  PROVE  /\ UNCHANGED <<lifecycle, supervisor, verdict, aborted, callers>>
         /\ conn[c] \in Running
         /\ \E x \in Running \cup {"ended"} : conn' = [conn EXCEPT ![c] = x]
         /\ cut' = cut \/ (c \in aborted /\ cut' \subseteq cut \cup {c})
<1>1. CASE serve_connection(c) \/ check_shutdown(c)
  BY <1>1 DEF serve_connection, check_shutdown, task_ends, moves_to, tasks, Running,
     InHandshake, Session
<1>2. CASE handshake_interrupted(c) \/ handshake_lost(c) \/ handshake_succeeds(c)
  BY <1>2 DEF handshake_interrupted, handshake_lost, handshake_succeeds, task_ends, tasks,
     Running, InHandshake, Session
<1>3. CASE recv_interrupted(c) \/ recv(c)
  BY <1>3 DEF recv_interrupted, recv, task_ends, moves_to, tasks, Running, InHandshake, Session
<1>4. CASE admit_request(c)
  BY <1>4 DEF admit_request, begin_request, task_ends, tasks, Running, InHandshake, Session
<1>5. CASE process_request(c) \/ send_response(c)
  BY <1>5 DEF process_request, send_response, end_request, task_ends, moves_to, tasks,
     Running, InHandshake, Session
<1>6. CASE task_aborted(c)
  BY <1>6 DEF task_aborted, task_ends, Cancellable
<1> QED BY <1>1, <1>2, <1>3, <1>4, <1>5, <1>6 DEF Serve

\* A step of a connection task keeps the invariant.
LEMMA ServeStep ==
  ASSUME Inv, NEW c \in Sockets, Serve(c)
  PROVE  ControlTypes' /\ Joined' /\ Aborts' /\ Outcomes'
<1>1. conn \in [Sockets -> Stages]
  BY DEF Inv, Books
<1>2. /\ UNCHANGED <<lifecycle, supervisor, verdict, aborted, callers>>
      /\ conn[c] \in Running
      /\ \E x \in Running \cup {"ended"} : conn' = [conn EXCEPT ![c] = x]
      /\ cut' = cut \/ (c \in aborted /\ cut' \subseteq cut \cup {c})
  BY <1>1, ServeShape
<1>3. PICK x \in Running \cup {"ended"} : conn' = [conn EXCEPT ![c] = x]
  BY <1>2
<1>4. supervisor # "finished"
  BY <1>2 DEF Inv, Joined, In, Guarded, Admitted
<1>5. ControlTypes'
  BY SMT, <1>2 DEF Inv, ControlTypes, lifecycle, callers
<1>6. Joined'
  <2>1. conn[c] \notin InHand /\ x \notin InHand
    BY <1>2, <1>3 DEF InHand, Running, InHandshake, Session
  <2>2. In(InHand)' = In(InHand)
    BY <1>1, <1>3, <2>1 DEF In
  <2> QED BY <1>2, <1>4, <2>2 DEF Inv, Joined
<1>7. Aborts'
  BY <1>2, <1>4 DEF Inv, Aborts
<1>8. Outcomes'
  BY <1>2 DEF Inv, Outcomes, lifecycle, callers
<1> QED BY <1>5, <1>6, <1>7, <1>8

\* A step of the supervisor keeps the invariant.
LEMMA SuperviseStep ==
  ASSUME Inv, Supervise
  PROVE  ControlTypes' /\ Joined' /\ Aborts' /\ Outcomes'
<1>1. conn \in [Sockets -> Stages]
  BY DEF Inv, Books
<1> USE DEF Inv
<1>2. CASE check_deadline \/ shutdown_changed \/ backoff_interrupted
  <2>1. supervisor \in {"top", "select", "backoff"} /\ supervisor' \in {"top", "select", "draining"}
    BY <1>2 DEF check_deadline, shutdown_changed, backoff_interrupted
  <2>2. /\ UNCHANGED <<phase, published, outcome, completed, coordinator, verdict>>
        /\ UNCHANGED <<aborted, cut, stop, seen, dropped, conn>>
    BY <1>2 DEF check_deadline, shutdown_changed, backoff_interrupted, lifecycle, callers
  <2>3. ControlTypes'
    BY SMT, <2>1, <2>2 DEF ControlTypes
  <2>4. Joined'
    BY <2>1, <2>2 DEF Joined, In, InHand
  <2>5. Aborts'
    BY <2>1, <2>2 DEF Aborts
  <2>6. Outcomes'
    BY <2>1, <2>2 DEF Outcomes
  <2> QED BY <2>3, <2>4, <2>5, <2>6
<1>3. ASSUME NEW c \in Sockets, conn[c] \in {"waiting", "ended"},
             conn' = [conn EXCEPT ![c] = "gone"],
             supervisor \in {"select", "draining", "forcing"},
             supervisor' \in {supervisor, IF supervisor = "select" THEN "top" ELSE supervisor,
                              IF supervisor = "select" THEN "backoff" ELSE supervisor},
             UNCHANGED <<lifecycle, verdict, aborted, cut, callers>>
      PROVE  ControlTypes' /\ Joined' /\ Aborts' /\ Outcomes'
  <2>1. In(InHand)' = In(InHand)
    BY <1>1, <1>3 DEF In, InHand
  <2>2. Joined'
    BY <1>3, <2>1 DEF Joined, InHand
  <2> QED BY SMT, <1>3, <2>2 DEF ControlTypes, Aborts, Outcomes, lifecycle, callers
<1>4. ASSUME NEW c \in Sockets, join_next(c) \/ accept_refuses(c)
      PROVE  ControlTypes' /\ Joined' /\ Aborts' /\ Outcomes'
  BY <1>3, <1>4 DEF join_next, accept_refuses, tasks
<1>5. CASE accept_fails
  <2>1. CASE UNCHANGED conn
    BY <1>5, <2>1 DEF accept_fails, ControlTypes, Joined, Aborts, Outcomes, lifecycle, callers, In, InHand
  <2>2. CASE \E c \in In({"waiting"}) : conn' = [conn EXCEPT ![c] = "gone"]
    <3>1. PICK c \in In({"waiting"}) : conn' = [conn EXCEPT ![c] = "gone"]
      BY <2>2
    <3>2. c \in Sockets /\ conn[c] = "waiting"
      BY <3>1 DEF In
    <3> QED BY <1>3, <1>5, <3>1, <3>2 DEF accept_fails
  <2> QED BY <1>5, <2>1, <2>2 DEF accept_fails
<1>6. ASSUME NEW c \in Sockets, accept_socket(c)
      PROVE  ControlTypes' /\ Joined' /\ Aborts' /\ Outcomes'
  <2>1. In(InHand) = {} /\ supervisor' = "accepted"
    BY <1>6 DEF accept_socket, Joined, InHand
  <2>2. In(InHand)' = {c}
    BY <1>1, <1>6, <2>1 DEF accept_socket, In, InHand
  <2>3. Joined'
    BY <2>1, <2>2 DEF Joined, InHand
  <2> QED BY <1>6, <2>3 DEF accept_socket, ControlTypes, Aborts, Outcomes, lifecycle, callers
<1>7. ASSUME NEW c \in Sockets, admit_connection(c) \/ spawn_connection(c)
      PROVE  ControlTypes' /\ Joined' /\ Aborts' /\ Outcomes'
  <2>0. c \in In(InHand) /\ supervisor \in InHand
    BY <1>7 DEF admit_connection, spawn_connection, In, InHand
  <2>1. In(InHand) = {c} /\ supervisor \in InHand
    BY <2>0 DEF Joined
  <2>2. \/ supervisor' = "admitted" /\ conn' = [conn EXCEPT ![c] = "admitted"]
        \/ /\ supervisor' = "top"
           /\ \E x \in {"gone", "loop", "starting"} : conn' = [conn EXCEPT ![c] = x]
    BY <1>7 DEF admit_connection, spawn_connection, drop_socket, moves_to
  <2>3. In(InHand)' = IF supervisor' = "top" THEN {} ELSE {c}
    BY <1>1, <2>1, <2>2 DEF In, InHand
  <2>4. Joined'
    BY <2>2, <2>3 DEF Joined, InHand
  <2>5. UNCHANGED <<lifecycle, verdict, aborted, cut, callers>>
    BY <1>7 DEF admit_connection, spawn_connection
  <2> QED BY <2>1, <2>2, <2>4, <2>5 DEF InHand, ControlTypes, Aborts, Outcomes, lifecycle, callers
<1>8. CASE drained \/ forced
  <2>1. supervisor' = "finished" /\ supervisor \in {"draining", "forcing"}
    BY <1>8 DEF drained, forced
  <2>2. In(InHand) = {} /\ In({"ended"} \cup Running) = {} /\ UNCHANGED conn
    BY <1>8 DEF drained, forced, Joined, InHand
  <2>3. In(InHand)' = {} /\ In(Guarded \cup {"ended"})' = {}
    BY <2>2 DEF In, InHand, Guarded, Admitted
  <2>4. Joined'
    BY <2>1, <2>3 DEF Joined
  <2> QED BY SMT, <1>8, <2>1, <2>4 DEF drained, forced, ControlTypes, Aborts, Outcomes, lifecycle, callers
<1>9. CASE abort_all
  <2>1. Joined'
    BY <1>9 DEF abort_all, Joined, In, InHand
  <2> QED BY <1>9, <2>1 DEF abort_all, ControlTypes, Aborts, Outcomes, lifecycle, callers, In
<1> QED BY <1>2, <1>4, <1>5, <1>6, <1>7, <1>8, <1>9 DEF Supervise

\* A step of a stop() call, of the coordinator or of the owner keeps the invariant.
LEMMA StopStep ==
  ASSUME Inv, (\E s \in Stoppers : Shutdown(s)) \/ Coordinate \/ Owner
  PROVE  ControlTypes' /\ Joined' /\ Aborts' /\ Outcomes'
<1> USE DEF Inv
<1>1. ASSUME NEW s \in Stoppers, Shutdown(s)
      PROVE  ControlTypes' /\ Joined' /\ Aborts' /\ Outcomes'
  <2>1. Joined' /\ Aborts'
    BY <1>1 DEF Shutdown, seal, publish_shutdown, ensure_coordinator, subscribe, check_outcome,
       completion_changed, cancel_stop, Joined, Aborts, In, tasks
  <2>2. CASE seal(s)
    BY SMT, <2>1, <2>2 DEF seal, ControlTypes, Outcomes, tasks
  <2>5. CASE publish_shutdown(s)
    BY SMT, <2>1, <2>5 DEF publish_shutdown, ControlTypes, Outcomes, tasks
  <2>6. CASE ensure_coordinator(s)
    BY <2>1, <2>6 DEF ensure_coordinator, ControlTypes, Outcomes, tasks
  <2>3. CASE subscribe(s) \/ completion_changed(s) \/ cancel_stop(s)
    BY SMT, <2>1, <2>3 DEF subscribe, completion_changed, cancel_stop, ControlTypes, Outcomes, tasks,
       lifecycle
  <2>4. CASE check_outcome(s)
    BY SMT, <2>1, <2>4 DEF check_outcome, ControlTypes, Outcomes, tasks, lifecycle
  <2> QED BY <1>1, <2>2, <2>3, <2>4, <2>5, <2>6 DEF Shutdown
<1>2. CASE Coordinate
  <2>1. Joined' /\ Aborts'
    BY <1>2 DEF Coordinate, record_outcome, publish_outcome, Joined, Aborts, In, tasks
  <2>2. CASE record_outcome
    BY <2>1, <2>2 DEF record_outcome, ControlTypes, Aborts, Outcomes, tasks, callers
  <2>3. CASE publish_outcome
    BY SMT, <2>1, <2>3 DEF publish_outcome, ControlTypes, Outcomes, tasks, callers
  <2> QED BY <1>2, <2>2, <2>3 DEF Coordinate
<1>3. CASE abort_owned_tasks \/ coordinator_aborted
  <2>1. ControlTypes'
    <3>1. dropped' \in BOOLEAN /\ coordinator' \in {"none", "joining", "recorded", "done"}
      BY <1>3 DEF abort_owned_tasks, coordinator_aborted, ControlTypes
    <3> QED BY <1>3, <3>1 DEF abort_owned_tasks, coordinator_aborted, ControlTypes, tasks, callers
  <2>2. Joined'
    BY <1>3 DEF abort_owned_tasks, coordinator_aborted, Joined, In, tasks, callers
  <2>3. Aborts'
    BY <1>3 DEF abort_owned_tasks, coordinator_aborted, Aborts, tasks, callers
  <2>4. Outcomes'
    BY <1>3 DEF abort_owned_tasks, coordinator_aborted, Outcomes, tasks, callers
  <2> QED BY <2>1, <2>2, <2>3, <2>4
<1>4. CASE supervisor_aborted
  BY <1>4 DEF supervisor_aborted, ControlTypes, Joined, Aborts, Outcomes, In, InHand, lifecycle, callers
<1> QED BY <1>1, <1>2, <1>3, <1>4 DEF Owner


--------------------------------------------------------------------------------
\* The invariant of the server holds in every reachable state.
THEOREM ServerInvariant == Spec => []Inv
<1>1. Init => Inv
  <2> SUFFICES ASSUME Init PROVE Inv
    OBVIOUS
  <2>1. Books
    BY BooksInit
  <2>2. ControlTypes /\ Aborts /\ Outcomes
    BY DEF Init, ControlTypes, Aborts, Outcomes
  <2>3. Joined
    BY DEF Init, Joined, In, InHand
  <2> QED BY <2>1, <2>2, <2>3 DEF Inv
<1>2. Inv /\ [Next]_vars => Inv'
  <2> SUFFICES ASSUME Inv, [Next]_vars PROVE Inv'
    OBVIOUS
  <2>1. Books'
    BY BooksStep DEF Inv
  <2>2. ControlTypes' /\ Joined' /\ Aborts' /\ Outcomes'
    <3>1. CASE UNCHANGED vars
      <4>1. ControlTypes'
        BY SMT, <3>1 DEF Inv, vars, lifecycle, tasks, callers, ControlTypes
      <4>2. Joined'
        BY <3>1 DEF Inv, vars, lifecycle, tasks, callers, Joined, In
      <4>3. Aborts'
        BY <3>1 DEF Inv, vars, lifecycle, tasks, callers, Aborts
      <4>4. Outcomes'
        BY <3>1 DEF Inv, vars, lifecycle, tasks, callers, Outcomes
      <4> QED BY <4>1, <4>2, <4>3, <4>4
    <3>2. CASE Next
      BY <3>2, ServeStep, SuperviseStep, StopStep DEF Next
    <3> QED BY <3>1, <3>2
  <2> QED BY <2>1, <2>2 DEF Inv
<1> QED BY <1>1, <1>2, PTL DEF Spec

\* Every variable keeps its type; the listener never reserves more than
\* max_connections, and handshakes never pass their semaphore.
THEOREM ServerTypeCorrect == Spec => []TypeOK
<1>1. Inv => TypeOK
  BY DEF Inv, Books, CounterTypes, ControlTypes, TypeOK
<1> QED BY <1>1, ServerInvariant, PTL

\* The gauges of metrics() are the guards alive, and the handshake counters add
\* up, in every interleaving of tasks, aborts and failures.
THEOREM ServerCountsGuards == Spec => []CountersExact
<1>1. Inv => CountersExact
  BY DEF Inv, Books
<1> QED BY <1>1, ServerInvariant, PTL

\* When stop() returns, every connection task has been joined.
THEOREM ServerStopsAtRest == Spec => []StoppedMeansQuiescent
<1>1. Inv => StoppedMeansQuiescent
  <2> SUFFICES ASSUME Inv, NEW s \in Stoppers, stop[s] = "returned"
               PROVE  /\ supervisor = "finished"
                      /\ outcome = verdict
                      /\ In(Guarded \cup {"ended"}) = {}
                      /\ active_connections = 0 /\ active_requests = 0
                      /\ active_handshakes = 0 /\ active_sessions = 0
    BY DEF StoppedMeansQuiescent
  <2>1. supervisor = "finished" /\ outcome = verdict /\ In(Guarded \cup {"ended"}) = {}
    BY DEF Inv, Outcomes, Joined
  <2>2. \A S \in {Guarded, InRequest, InHandshake, Session} : In(S) = {}
    BY <2>1 DEF In, Guarded, Admitted, Running, InRequest, InHandshake, Session
  <2>3. \A S \in {Guarded, InRequest, InHandshake, Session} : Cardinality(In(S)) = 0
    BY <2>2, FS_EmptySet
  <2> QED BY <2>1, <2>3 DEF Inv, Books, CountersExact
<1> QED BY <1>1, ServerInvariant, PTL

\* A stop() that reports Drained has interrupted no admitted request.
THEOREM ServerDrainsHonestly == Spec => []DrainedMeansComplete
<1>1. Inv => DrainedMeansComplete
  BY DEF Inv, Outcomes, Aborts, ControlTypes, DrainedMeansComplete
<1> QED BY <1>1, ServerInvariant, PTL

\* Once a stop() call has taken the state lock, no request begins and no
\* socket joins those admitted before it.
THEOREM ServerSealLinearizes == Spec => SealStopsAdmission
<1> DEFINE Admits == /\ In(InRequest)' \subseteq In(InRequest)
                     /\ In(Admitted)' \subseteq In(Admitted)
<1>1. Inv /\ [Next]_vars => [Sealed => Admits]_vars
  <2> SUFFICES ASSUME Inv, Next, Sealed
               PROVE  Admits
    OBVIOUS
  <2>0. conn \in [Sockets -> Stages]
    BY DEF Inv, Books
  <2>1. ASSUME NEW c \in Sockets, NEW x, conn' = [conn EXCEPT ![c] = x],
               x \in InRequest => conn[c] \in InRequest,
               x \in Admitted => conn[c] \in Admitted
        PROVE  Admits
    BY <2>0, <2>1 DEF In
  <2>2. ASSUME UNCHANGED conn PROVE Admits
    BY <2>2 DEF In
  <2>3. ASSUME NEW c \in Sockets, Serve(c) PROVE Admits
    <3>1. conn[c] \in Admitted
      BY <2>0, <2>3, ServeShape DEF Admitted
    <3>2. ASSUME NEW k, task_ends(c, k) PROVE Admits
      BY <2>1, <3>2 DEF task_ends, InRequest, Admitted, Running, InHandshake, Session
    <3>3. ASSUME NEW x \in Stages \ InRequest, conn' = [conn EXCEPT ![c] = x] PROVE Admits
      BY <2>1, <3>1, <3>3
    <3>4. CASE serve_connection(c) \/ check_shutdown(c) \/ admit_request(c)
      BY <3>2, <3>4 DEF serve_connection, check_shutdown, admit_request
    <3>5. CASE handshake_interrupted(c) \/ handshake_lost(c) \/ recv_interrupted(c)
               \/ task_aborted(c)
      BY <3>2, <3>5 DEF handshake_interrupted, handshake_lost, recv_interrupted, task_aborted
    <3>6. CASE handshake_succeeds(c)
      BY <3>3, <3>6 DEF handshake_succeeds, Stages, Guarded, Admitted, Running, InHandshake, Session, InRequest
    <3>7. CASE recv(c)
      BY <3>2, <3>3, <3>7 DEF recv, moves_to, Stages, Guarded, Admitted, Running, InHandshake, Session, InRequest
    <3>8. CASE process_request(c) \/ send_response(c)
      <4>1. conn[c] \in InRequest
        BY <3>8 DEF process_request, send_response, InRequest
      <4>2. CASE moves_to(c, "sending") \/ end_request(c)
        BY <2>1, <3>1, <4>1, <4>2 DEF moves_to, end_request
      <4> QED BY <3>2, <3>8, <4>2 DEF process_request, send_response
    <3> QED BY <2>3, <3>4, <3>5, <3>6, <3>7, <3>8 DEF Serve
  <2>4. CASE Supervise
    <3>1. CASE check_deadline \/ shutdown_changed \/ backoff_interrupted \/ drained
               \/ abort_all \/ forced
      BY <2>2, <3>1 DEF check_deadline, shutdown_changed, backoff_interrupted, drained,
         abort_all, forced
    <3>2. ASSUME NEW c \in Sockets, NEW x \in {"gone", "accepted"},
                 conn' = [conn EXCEPT ![c] = x]
          PROVE  Admits
      BY <2>1, <3>2 DEF InRequest, Admitted, Running, InHandshake, Session
    <3>3. ASSUME NEW c \in Sockets, join_next(c) \/ accept_refuses(c) \/ accept_socket(c)
          PROVE  Admits
      BY <3>2, <3>3 DEF join_next, accept_refuses, accept_socket
    <3>4. CASE accept_fails
      BY <2>2, <3>2, <3>4 DEF accept_fails, In
    <3>5. ASSUME NEW c \in Sockets, admit_connection(c)
          PROVE  Admits
      BY <3>2, <3>5 DEF admit_connection, drop_socket
    <3>6. ASSUME NEW c \in Sockets, spawn_connection(c)
          PROVE  Admits
      <4>1. conn[c] \in Admitted
        BY <3>6 DEF spawn_connection, Admitted
      <4>2. ASSUME NEW x \in {"loop", "starting"}, conn' = [conn EXCEPT ![c] = x] PROVE Admits
        BY <2>1, <4>1, <4>2 DEF InRequest
      <4> QED BY <3>2, <3>6, <4>2 DEF spawn_connection, drop_socket, moves_to
    <3> QED BY <2>4, <3>1, <3>3, <3>4, <3>5, <3>6 DEF Supervise
  <2>5. ASSUME NEW s \in Stoppers, Shutdown(s) PROVE Admits
    BY <2>2, <2>5 DEF Shutdown, seal, publish_shutdown, ensure_coordinator, subscribe,
       check_outcome, completion_changed, cancel_stop
  <2>6. CASE Coordinate \/ Owner
    BY <2>2, <2>6 DEF Coordinate, Owner, record_outcome, publish_outcome, abort_owned_tasks,
       supervisor_aborted, coordinator_aborted
  <2> QED BY <2>3, <2>4, <2>5, <2>6 DEF Next
<1> QED BY <1>1, ServerInvariant, PTL DEF Spec, SealStopsAdmission

================================================================================

------------------------------ MODULE Gateway ------------------------------
(***************************************************************************)
(* The gateway (crates/rusty-modbus-gateway): Modbus TCP clients on one    *)
(* side, RTU-over-TCP devices on the other.  One task serves each client   *)
(* connection and takes its requests one at a time; every request opens a  *)
(* connection of its own to the device; a broadcast is handed to a task    *)
(* per device that nobody waits for.                                       *)
(*                                                                         *)
(* Both sides carry octets, which the reader sees in pieces of any size.   *)
(* A device (external) may answer, answer for somebody else, answer late,  *)
(* garble its answer, say nothing or hang up.  The clock is abstract: a    *)
(* timeout may fire whenever its operation is pending.                     *)
(***************************************************************************)
EXTENDS Framing, FiniteSets

CONSTANTS
    Clients,
    Routes,             \* the RouteEntry list, [low, high, backend, policy]
    Scenes,             \* [requests : per client a sequence of frames, limit, pieces, kinds]
    Replies(_, _)       \* the ADUs that a kind of device writes back to a frame

VARIABLES
    scene,          \* what the clients will ask, how many the gateway serves at
                    \* once (max_tcp_connections), how finely octets are read,
                    \* how the devices may behave
    accepting,      \* the accept loop runs
    connection,     \* per client: the state of handle_tcp_connection
    arriving,       \* per client: octets the client sent, not yet read
    buffer,         \* per client: the read buffer of the TCP stream
    answers,        \* per client: [adu, replied], the answers sent to it
    device,         \* per client: [wire, buffer, replied], its backend stream
    broadcasts,     \* tasks spawned for broadcasts: [client, nth, copy, backend, frame]
    heard           \* per backend: how often each ADU was written to it

vars == <<scene, accepting, connection, arriving, buffer, answers, device, broadcasts, heard>>

GatewayPathUnavailable == 10

GatewayTargetDeviceFailedToRespond == 11

Backends == {Routes[i].backend : i \in DOMAIN Routes}

requests(c) == scene.requests[c]

\* What is on a wire after ADUs are written: from the k-th of them on, and all.
octets_from(adus) ==
    LET from[k \in 1..Len(adus) + 1] == IF k > Len(adus) THEN <<>> ELSE adus[k] \o from[k + 1]
    IN  from

octets(adus) == octets_from(adus)[1]

\* The octets of the requests of c: the MBAP form of each.
stream(c) == octets([i \in DOMAIN requests(c) |-> MbapCodec_encode(requests(c)[i]).val])

NoFrame == Frame(0, 0, <<>>)

Closed == [pc |-> "closed", frame |-> NoFrame, route |-> 0, taken |-> 0, reply |-> NoFrame]

Hung == [wire |-> <<>>, buffer |-> <<>>, replied |-> <<>>]
-----------------------------------------------------------------------------
(* Routing. *)
ranges_overlap(a, b) == a.low <= b.high /\ b.low <= a.high

\* RouteTable::new refuses overlapping ranges.
RouteTable_new(entries) ==
    \A i, j \in DOMAIN entries : i # j => ~ranges_overlap(entries[i], entries[j])

ASSUME RoutesAssumption ==
    /\ Routes \in Seq([low : Byte, high : Byte, backend : Backends,
                      policy : {"FunctionAwareStrict", "CrcScanCompatibility"}])
    /\ RouteTable_new(Routes)

resolve_route(unit) ==
    LET matching == {i \in DOMAIN Routes : unit \in Routes[i].low..Routes[i].high}
    IN  IF matching = {} THEN 0 ELSE Min(matching)

\* Mutant: an address is returned once per range.
all_backends_repeated == DOMAIN Routes

\* The entries that all_backends keeps: the first of each address.
all_backends ==
    {i \in DOMAIN Routes : \A j \in 1..i - 1 : Routes[j].backend # Routes[i].backend}
-----------------------------------------------------------------------------
(* Translation. *)
mbap_to_rtu(frame) == Frame(0, frame.unit, frame.pdu)

\* The frames that a client's MBAP encoder accepts, and devices that write octets.
Request == [txn : Word, unit : Byte, pdu : {p \in Seq(Byte) : Len(p) \in 1..MAX_PDU_SIZE}]

ASSUME ScenesAssumption ==
    /\ IsFiniteSet(Clients)
    /\ \A s \in Scenes :
          /\ s.limit \in Nat /\ s.pieces \subseteq Nat
          /\ \A c \in Clients :
                /\ s.requests[c] \in Seq(Request)
                /\ \A i \in DOMAIN s.requests[c], kind \in s.kinds :
                      Replies(kind, mbap_to_rtu(s.requests[c][i])) \in Seq(Seq(Byte))

make_exception_frame(txn, unit, function_code, exception_code) ==
    Frame(txn, unit, <<128 + (function_code % 128), exception_code>>)

rtu_to_mbap(rtu_frame, txn, unit) ==
    IF Len(rtu_frame.pdu) \in 1..MAX_PDU_SIZE
    THEN Frame(txn, unit, rtu_frame.pdu)
    ELSE make_exception_frame(txn, unit, IF rtu_frame.pdu = <<>> THEN 0 ELSE rtu_frame.pdu[1],
                              GatewayTargetDeviceFailedToRespond)
-----------------------------------------------------------------------------
Init ==
    /\ scene \in Scenes
    /\ accepting = TRUE
    /\ connection = [c \in Clients |-> [Closed EXCEPT !.pc = "new"]]
    /\ arriving = [c \in Clients |-> stream(c)]
    /\ buffer = [c \in Clients |-> <<>>]
    /\ answers = [c \in Clients |-> <<>>]
    /\ device = [c \in Clients |-> Hung]
    /\ broadcasts = {}
    /\ heard = [b \in Backends |-> <<>>]

at(c, pc) == connection[c].pc = pc

open == {c \in Clients : connection[c].pc \notin {"new", "closed"}}

\* Mutant: one connection too many.
accept_one_more(c) ==
    /\ accepting
    /\ at(c, "new") /\ requests(c) # <<>>
    /\ connection' = [connection EXCEPT ![c].pc =
                        IF Cardinality(open) <= scene.limit THEN "receive" ELSE "closed"]
    /\ UNCHANGED <<scene, accepting, arriving, buffer, answers, device, broadcasts, heard>>

(* The accept loop takes clients that have something to ask. *)
accept(c) ==
    /\ accepting
    /\ at(c, "new") /\ requests(c) # <<>>
    /\ connection' = [connection EXCEPT ![c].pc =
                        IF Cardinality(open) < scene.limit THEN "receive" ELSE "closed"]
    /\ UNCHANGED <<scene, accepting, arriving, buffer, answers, device, broadcasts, heard>>

\* After stop() the loop sees the shutdown at its next select; drop() aborts
\* it.  The tasks of connections and broadcasts live on.
accept_loop_ends ==
    /\ accepting
    /\ accepting' = FALSE
    /\ UNCHANGED <<scene, connection, arriving, buffer, answers, device, broadcasts, heard>>

-----------------------------------------------------------------------------
(* Reading: any piece of what is on the way may be read at once. *)
pieces(wire) == {n \in scene.pieces : n <= Len(wire)} \union {Len(wire)}

arrive(c) ==
    /\ at(c, "receive")
    /\ arriving[c] # <<>>
    /\ \E n \in pieces(arriving[c]) :
          /\ buffer' = [buffer EXCEPT ![c] = @ \o SubSeq(arriving[c], 1, n)]
          /\ arriving' = [arriving EXCEPT ![c] = From(@, n + 1)]
    /\ UNCHANGED <<scene, accepting, connection, answers, device, broadcasts, heard>>

\* One turn of handle_tcp_connection up to its first await.
took(c, pc, frame, route, reply) ==
    connection' = [connection EXCEPT ![c] = [pc |-> pc, frame |-> frame, route |-> route,
                                             taken |-> @.taken + 1, reply |-> reply]]

handle_broadcast(c, frame) ==
    /\ frame.unit = 0
    /\ took(c, "receive", NoFrame, 0, NoFrame)
    /\ broadcasts' = broadcasts \union
          {[client |-> c, nth |-> connection[c].taken + 1, copy |-> i,
            backend |-> Routes[i].backend, frame |-> mbap_to_rtu(frame)] : i \in all_backends}

handle_unrouted(c, frame) ==
    /\ frame.unit # 0
    /\ resolve_route(frame.unit) = 0
    /\ took(c, "reply", frame, 0,
            make_exception_frame(frame.txn, frame.unit, frame.pdu[1], GatewayPathUnavailable))
    /\ UNCHANGED broadcasts

handle_routed(c, frame) ==
    /\ frame.unit # 0
    /\ resolve_route(frame.unit) # 0
    /\ took(c, "connect", frame, resolve_route(frame.unit), NoFrame)
    /\ UNCHANGED broadcasts

received(c, decoded) ==
    /\ decoded.status = "frame"
    /\ buffer' = [buffer EXCEPT ![c] = decoded.rest]
    /\ \/ handle_broadcast(c, decoded.frame)
       \/ handle_unrouted(c, decoded.frame)
       \/ handle_routed(c, decoded.frame)
    /\ UNCHANGED <<scene, accepting, arriving, answers, device, heard>>

receive(c) ==
    /\ at(c, "receive")
    /\ \E decoded \in {MbapCodec_decode(buffer[c])} : received(c, decoded)

close(c) == connection' = [connection EXCEPT ![c] = [Closed EXCEPT !.taken = connection[c].taken]]

\* recv fails: a malformed frame, a read timeout, or the client is gone.
receive_fails(c) ==
    /\ at(c, "receive")
    /\ MbapCodec_decode(buffer[c]).status # "frame"
    /\ close(c)
    /\ UNCHANGED <<scene, accepting, arriving, buffer, answers, device, broadcasts, heard>>
-----------------------------------------------------------------------------
(* forward_to_backend. *)
failed(c, code) ==
    LET asked == connection[c].frame
    IN  connection' = [connection EXCEPT ![c].pc = "reply",
                         ![c].reply = make_exception_frame(asked.txn, asked.unit, asked.pdu[1], code)]

connect_with_framing_policy(c) ==
    /\ at(c, "connect")
    /\ \/ connection' = [connection EXCEPT ![c].pc = "send"]
       \/ failed(c, GatewayPathUnavailable)
    /\ UNCHANGED <<scene, accepting, arriving, buffer, answers, device, broadcasts, heard>>

\* How often adu is in a tally, and the tally after one more.
times(tally, adu) == IF adu \in DOMAIN tally THEN tally[adu] ELSE 0

one_more(tally, adu) ==
    [a \in DOMAIN tally \union {adu} |-> times(tally, a) + IF a = adu THEN 1 ELSE 0]

write_to(backend, adu) == heard' = [heard EXCEPT ![backend] = one_more(@, adu)]

\* The device answers with some of the ADUs it may write, or with nothing.
rtu_send(c) ==
    LET frame == mbap_to_rtu(connection[c].frame)
    IN  /\ at(c, "send")
        /\ write_to(Routes[connection[c].route].backend, encode_frame(frame).val)
        /\ connection' = [connection EXCEPT ![c].pc = "await"]
        /\ \E replied \in {Replies(kind, frame) : kind \in scene.kinds} :
              device' = [device EXCEPT ![c] = [wire |-> octets(replied), buffer |-> <<>>, replied |-> replied]]
        /\ UNCHANGED <<scene, accepting, arriving, buffer, answers, broadcasts>>

\* A send that fails or times out may have reached the device all the same.
rtu_send_fails(c) ==
    /\ at(c, "send")
    /\ failed(c, GatewayPathUnavailable)
    /\ \/ write_to(Routes[connection[c].route].backend, encode_frame(mbap_to_rtu(connection[c].frame)).val)
       \/ UNCHANGED heard
    /\ UNCHANGED <<scene, accepting, arriving, buffer, answers, device, broadcasts>>

device_octets(c) ==
    /\ at(c, "await")
    /\ device[c].wire # <<>>
    /\ \E n \in pieces(device[c].wire) :
          device' = [device EXCEPT ![c].wire = From(@, n + 1), ![c].buffer = @ \o SubSeq(device[c].wire, 1, n)]
    /\ UNCHANGED <<scene, accepting, connection, arriving, buffer, answers, broadcasts, heard>>

\* Mutant: the source of the answer is not compared.
matches_any_unit(response, asked) == response.pdu[1] % 128 = asked.pdu[1]

\* The answer must come from the unit addressed and echo the function code.
matches(response, asked) ==
    response.unit = asked.unit /\ response.pdu[1] % 128 = asked.pdu[1]

relay(c, response) ==
    LET asked == connection[c].frame
    IN  IF matches(response, asked)
        THEN connection' = [connection EXCEPT ![c].pc = "reply",
                              ![c].reply = rtu_to_mbap(response, asked.txn, asked.unit)]
        ELSE failed(c, GatewayTargetDeviceFailedToRespond)

responded(c, decoded) ==
    /\ \/ decoded.status = "frame" /\ relay(c, decoded.frame)
       \/ decoded.status = "error" /\ failed(c, GatewayTargetDeviceFailedToRespond)
    /\ UNCHANGED <<scene, accepting, arriving, buffer, answers, device, broadcasts, heard>>

rtu_recv(c) ==
    /\ at(c, "await")
    /\ \E decoded \in {RtuOverTcpCodec_decode(device[c].buffer, Routes[connection[c].route].policy, "Response")} :
          responded(c, decoded)

\* Mutant: the wait is bounded only once the device has begun to answer.
rtu_recv_fails_begun(c) ==
    /\ at(c, "await")
    /\ device[c].buffer # <<>>
    /\ failed(c, GatewayTargetDeviceFailedToRespond)
    /\ UNCHANGED <<scene, accepting, arriving, buffer, answers, device, broadcasts, heard>>

\* serial_timeout expires, or the device hangs up.
rtu_recv_fails(c) ==
    /\ at(c, "await")
    /\ failed(c, GatewayTargetDeviceFailedToRespond)
    /\ UNCHANGED <<scene, accepting, arriving, buffer, answers, device, broadcasts, heard>>

\* The answer goes up; forward_to_backend has dropped its connection.
reply(c) ==
    /\ at(c, "reply")
    /\ answers' = [answers EXCEPT ![c] = Append(@, [adu |-> MbapCodec_encode(connection[c].reply).val,
                                                    replied |-> device[c].replied])]
    /\ connection' = [connection EXCEPT ![c] = [Closed EXCEPT !.pc = "receive", !.taken = connection[c].taken]]
    /\ device' = [device EXCEPT ![c] = Hung]
    /\ UNCHANGED <<scene, accepting, arriving, buffer, broadcasts, heard>>

reply_fails(c) ==
    /\ at(c, "reply")
    /\ close(c)
    /\ device' = [device EXCEPT ![c] = Hung]
    /\ UNCHANGED <<scene, accepting, arriving, buffer, answers, broadcasts, heard>>
-----------------------------------------------------------------------------
(* A broadcast task connects and sends; either may fail, and nobody asks.  *)
broadcast_task(t) ==
    /\ broadcasts' = broadcasts \ {t}
    /\ \/ write_to(t.backend, encode_frame(t.frame).val)
       \/ UNCHANGED heard
    /\ UNCHANGED <<scene, accepting, connection, arriving, buffer, answers, device>>

task(c) ==
    \/ receive(c) \/ connect_with_framing_policy(c)
    \/ rtu_send(c) \/ rtu_send_fails(c)
    \/ rtu_recv(c) \/ rtu_recv_fails(c)
    \/ reply(c) \/ reply_fails(c)

\* Every client has been served or turned away.
Rest ==
    /\ ~accepting /\ broadcasts = {}
    /\ \A c \in Clients : connection[c].pc \in {"new", "closed"}
    /\ UNCHANGED vars

Next ==
    \/ \E c \in Clients :
          \/ accept(c) \/ arrive(c) \/ receive_fails(c) \/ device_octets(c) \/ task(c)
    \/ accept_loop_ends
    \/ \E t \in broadcasts : broadcast_task(t)
    \/ Rest

Fairness ==
    \A c \in Clients : WF_vars(task(c)) /\ WF_vars(arrive(c))

Spec == Init /\ [][Next]_vars /\ Fairness
-----------------------------------------------------------------------------
(* Properties. *)
\* Never more clients are served at once than the gateway has permits.
ConnectionsBounded == Cardinality(open) <= scene.limit

IsATally(tally) == tally \in [DOMAIN tally -> Nat \ {0}]

TypeOK ==
    /\ accepting \in BOOLEAN
    /\ \A c \in Clients :
          /\ connection[c].pc \in {"new", "receive", "connect", "send", "await", "reply", "closed"}
          /\ connection[c].taken \in 0..Len(requests(c))
          /\ arriving[c] \in Seq(Byte) /\ buffer[c] \in Seq(Byte)
          /\ device[c].wire \in Seq(Byte) /\ device[c].buffer \in Seq(Byte)
          /\ answers[c] \in Seq([adu : Seq(Byte), replied : Seq(Seq(Byte))])
    /\ \A t \in broadcasts : t.backend \in Backends
    /\ \A b \in Backends : IsATally(heard[b]) /\ DOMAIN heard[b] \subseteq Seq(Byte)
    /\ ConnectionsBounded

\* What a client that asked q may be told when the device wrote replied: the
\* PDU of its first ADU, whole, if that is an answer of this unit to this
\* function; under the compatible policy, a part of it that ends in a CRC.
Relayed(q, replied) ==
    LET strict == Routes[resolve_route(q.unit)].policy = "FunctionAwareStrict"
        wire == octets(replied)
        ends == IF strict THEN {Len(replied[1])} ELSE {n \in 4..Len(wire) : verify_crc(SubSeq(wire, 1, n))}
    IN  IF replied = <<>> \/ resolve_route(q.unit) = 0 THEN {}
        ELSE {SubSeq(wire, 2, n - 2) : n \in {m \in ends : wire[1] = q.unit /\ wire[2] % 128 = q.pdu[1]}}

\* The k-th answer a client gets is the answer to its k-th request that is not
\* a broadcast: it carries that request's transaction and unit and a length
\* that is its own, and holds what the device wrote for this very request or
\* an exception of the gateway, however the octets of both sides are cut and
\* whatever other units, functions or noise the device's stream carries.
OwnAnswersInOrder ==
    \A c \in Clients :
        LET asked == SelectSeq(SubSeq(requests(c), 1, connection[c].taken), LAMBDA r : r.unit # 0)
        IN  /\ Len(answers[c]) <= Len(asked)
            /\ \A k \in DOMAIN answers[c] :
                  LET q == asked[k]
                      a == answers[c][k]
                      code == 128 + (q.pdu[1] % 128)
                      pdu == From(a.adu, 8)
                  IN  /\ SubSeq(a.adu, 1, 7) = to_be(q.txn) \o <<0, 0>> \o to_be(Len(pdu) + 1) \o <<q.unit>>
                      /\ \/ pdu = <<code, GatewayPathUnavailable>> /\ a.replied = <<>>
                         \/ pdu = <<code, GatewayTargetDeviceFailedToRespond>> /\ resolve_route(q.unit) # 0
                         \/ pdu \in Relayed(q, a.replied)

\* The requests taken so far, by client and position.
Taken == UNION {{<<c, k>> : k \in 1..connection[c].taken} : c \in Clients}

\* Those that adu may bring to a device: requests for one of its units and broadcasts.
AskedBy(b, adu) ==
    {r \in Taken :
        LET q == requests(r[1])[r[2]]
        IN  /\ <<q.unit>> \o q.pdu = SubSeq(adu, 1, Len(adu) - 2)
            /\ q.unit # 0 => resolve_route(q.unit) # 0 /\ Routes[resolve_route(q.unit)].backend = b
            /\ verify_crc(adu)}

\* A device hears only requests that were asked, whole: a request to one of its
\* units at most once, for nothing is sent again after a failure, and a
\* broadcast at most once although several of its ranges are routed to it.
HeardAtMostOnce ==
    \A b \in Backends : \A adu \in DOMAIN heard[b] : heard[b][adu] <= Cardinality(AskedBy(b, adu))

\* A client that stays connected is told something about every request that is
\* not a broadcast, whatever its devices do: the timeouts of connecting,
\* sending and waiting end every request.
EveryRequestAnswered ==
    \A c \in Clients :
        ~at(c, "new") ~>
            \/ at(c, "closed")
            \/ Len(answers[c]) = Len(SelectSeq(requests(c), LAMBDA r : r.unit # 0))
=============================================================================

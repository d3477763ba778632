---------------------------- MODULE RequestPath ----------------------------
(***************************************************************************)
(* Calls on their way from the client methods through the server's request *)
(* handler into the store and back, several at a time and beside the       *)
(* program that embeds the server.  Each caller has a connection of its    *)
(* own, makes one call and waits; what may be lost or late on the way is   *)
(* the subject of ClientSession and ServerLifecycle.                       *)
(*                                                                         *)
(* A scene fixes what the program was started with: the kind of store, the *)
(* identity it reports, the tables, the call of each caller and the cells  *)
(* that the embedding program will set.                                    *)
(***************************************************************************)
EXTENDS RequestHandler, ClientMethods

CONSTANTS Callers, Scenes

VARIABLES
    scene,      \* the scene, which never changes
    mem,        \* the tables of the store
    setting,    \* the cells that the embedding program has still to set
    client,     \* per caller: [pc, page, result]
    server,     \* per caller: [pc, pdu, groups, response, applied]
    witness     \* per caller: what the refinement needs to see early, [outcome, words]

vars == <<scene, mem, setting, client, server, witness>>

call(c) == scene.calls[c]

store(fault) == [kind |-> scene.kind, fault |-> fault, mem |-> mem]

StoreFaults == IF scene.kind = "memory" THEN {"none"} ELSE Faults

Idle == [pc |-> "idle", pdu |-> <<>>, groups |-> <<>>, response |-> <<>>, applied |-> 0]

Init ==
    /\ scene \in Scenes
    /\ mem = scene.mem
    /\ setting = scene.setting
    /\ client = [c \in Callers |-> [pc |-> "ready", page |-> FirstPage, result |-> Pending]]
    /\ server = [c \in Callers |-> Idle]
    /\ witness = [c \in Callers |-> [outcome |-> Pending, words |-> <<>>]]
-----------------------------------------------------------------------------
(* What the caller will make of the response, seen when it is sent, and    *)
(* the words that a read of several groups has gathered.                   *)
observed(c, s) ==
    [outcome |-> IF s.pc = "response"
                 THEN result_of(call(c), client[c].page, OwnedResponsePdu_from_pdu(s.response)) ELSE Pending,
     words |-> IF s.pc = "reading" THEN file_words(read_file_record_sub_responses(s.response)) ELSE <<>>]

observe(c) == witness' = [witness EXCEPT ![c] = observed(c, server'[c])]
-----------------------------------------------------------------------------
(* The client.  A broadcast is over for its caller once it is sent. *)
finished(c, r) == client' = [client EXCEPT ![c].pc = "done", ![c].result = r]

to_server(c, pdu) == server' = [server EXCEPT ![c].pc = "request", ![c].pdu = pdu]

call_method(c) ==
    LET request == request_of(call(c), client[c].page)
    IN  /\ client[c].pc = "ready"
        /\ \/ /\ ~request.ok
              /\ finished(c, result("refused", 0, <<>>))
              /\ UNCHANGED server
           \/ /\ request.ok /\ call(c).unit = BROADCAST
              /\ finished(c, result("sent", 0, <<>>))
              /\ to_server(c, request.val)
           \/ /\ request.ok /\ call(c).unit # BROADCAST
              /\ client' = [client EXCEPT ![c].pc = "waiting"]
              /\ to_server(c, request.val)
        /\ observe(c)
        /\ UNCHANGED <<scene, mem, setting>>

(* The response ends the call, or a page of it. *)
receive(c) ==
    /\ client[c].pc = "waiting" /\ server[c].pc = "response"
    /\ \E r \in {OwnedResponsePdu_from_pdu(server[c].response)} :
       \E outcome \in {result_of(call(c), client[c].page, r)} :
         \/ /\ outcome # Pending
            /\ finished(c, outcome)
            /\ server' = [server EXCEPT ![c].pc = "idle"]
         \/ /\ outcome = Pending
            /\ \E page \in {next_page(client[c].page, identified(r))} :
                 /\ client' = [client EXCEPT ![c].page = page]
                 /\ to_server(c, read_device_identification(call(c), page).val)
    /\ observe(c)
    /\ UNCHANGED <<scene, mem, setting>>

(* The server chose not to answer. *)
expire(c) ==
    /\ client[c].pc = "waiting" /\ server[c].pc = "silent"
    /\ finished(c, result("timeout", 0, <<>>))
    /\ server' = [server EXCEPT ![c].pc = "idle"]
    /\ observe(c)
    /\ UNCHANGED <<scene, mem, setting>>
-----------------------------------------------------------------------------
(* The server.  A reply to a broadcast is not sent. *)
respond(c, pdu, applied) ==
    LET broadcast == call(c).unit = BROADCAST
    IN  server' = [server EXCEPT
                     ![c].pc = IF broadcast THEN "idle" ELSE IF pdu = <<>> THEN "silent" ELSE "response",
                     ![c].response = IF broadcast THEN <<>> ELSE pdu,
                     ![c].applied = applied]

(* process_request, for all functions that take one store call. *)
process(c) ==
    /\ server[c].pc = "request"
    /\ \E req \in {decode_request(server[c].pdu)}, fault \in StoreFaults :
         /\ ~by_groups(req)
         /\ \E served \in {process_request(server[c].pdu, req, call(c).unit, store(fault), scene.identity)} :
              mem' = served.mem /\ respond(c, served.pdu, 0)
    /\ observe(c)
    /\ UNCHANGED <<scene, setting, client>>

(* handle_read_file_record and apply_write_file_record up to the first     *)
(* store call.  The groups of a write are all validated here.              *)
write_groups(p) ==
    LET starts == write_group_starts(p)
        group(i) == [file |-> be16(p, i + 1), record |-> be16(p, i + 3), length |-> be16(p, i + 5),
                     octets |-> SubSeq(p, i + 7, i + write_group_size(p, i) - 1)]
        checked(i) ==
            CASE i + 6 > Len(p) -> Fail(IllegalDataValue)
              [] i + 6 <= Len(p) /\ p[i] # REFERENCE_TYPE -> Fail(IllegalDataAddress)
              [] i + 6 <= Len(p) /\ p[i] = REFERENCE_TYPE /\ i + write_group_size(p, i) > Len(p) + 1 ->
                   Fail(IllegalDataValue)
              [] OTHER -> Checked(validate_range(group(i).file, group(i).record, group(i).length),
                                  IllegalDataAddress, group(i))
        groups == [k \in DOMAIN starts |-> checked(starts[k])]
    IN  IF first_failure(groups).ok THEN Ok([k \in DOMAIN groups |-> groups[k].val]) ELSE first_failure(groups)

MAX_WRITE_FILE_RECORD_GROUPS == 27

\* Mutant: the first group is validated before the first store call, and the
\* others are left to their turn.
validate_first_group(payload) ==
    IF ~(Len(payload) \in 9..251) THEN Fail(IllegalDataValue)
    ELSE write_groups(SubSeq(payload, 1, Min({Len(payload), write_group_size(payload, 1)})))

validate_write_groups(payload) ==
    LET groups == write_groups(payload)
    IN  IF ~(Len(payload) \in 9..251) THEN Fail(IllegalDataValue)
        ELSE IF groups.ok /\ Len(groups.val) > MAX_WRITE_FILE_RECORD_GROUPS THEN Fail(IllegalDataValue)
        ELSE groups

read_groups(payload) ==
    [k \in 1..Len(payload) \div 7 |->
        LET p == sub_request(payload, k)
        IN  [reference |-> p[1], file |-> be16(p, 2), record |-> be16(p, 4), length |-> be16(p, 6)]]

begin_file_record(c) ==
    /\ server[c].pc = "request"
    /\ \E req \in {decode_request(server[c].pdu)} :
         /\ by_groups(req)
         /\ \E groups \in {IF req.val.fc = 20 THEN Ok(read_groups(req.val.payload))
                           ELSE validate_write_groups(req.val.payload)} :
              IF call(c).unit = BROADCAST /\ req.val.fc = 20 THEN respond(c, <<>>, 0)
              ELSE IF ~groups.ok THEN respond(c, encode_exception(req.val.fc, groups.err), 0)
              ELSE server' = [server EXCEPT ![c].pc = IF req.val.fc = 20 THEN "reading" ELSE "writing",
                                            ![c].groups = groups.val, ![c].response = <<>>, ![c].applied = 0]
    /\ observe(c)
    /\ UNCHANGED <<scene, mem, setting, client>>

(* One group of a read: its range, the store call, the count, the size.    *)
MAX_READ_FILE_RECORD_RESPONSE_u8 == 255

MAX_READ_FILE_RECORD_RESPONSE == 250

read_group_answer(s, group) ==
    IF /\ group.reference = REFERENCE_TYPE
       /\ validate_range(group.file, group.record, group.length)
       /\ group.length <= MAX_FILE_RECORD_REGISTERS
    THEN validate_store_count(
             via(s, InMemoryStore_read_file_record_be(s.mem, group.file, group.record, group.length),
                    DataStore_read_file_record_be(s, group.file, group.record, group.length)), group.length)
    ELSE refused(s.mem, IllegalDataAddress)

read_group(c) ==
    LET group == server[c].groups[server[c].applied + 1]
        next == server[c].applied + 1
    IN  /\ server[c].pc = "reading"
        /\ \E fault \in StoreFaults : \E answer \in {read_group_answer(store(fault), group)} :
             LET response == server[c].response \o <<1 + 2 * group.length, REFERENCE_TYPE>> \o answer.out
             IN  \/ /\ answer.ec # 0
                    /\ respond(c, encode_exception(20, answer.ec), server[c].applied)
                 \/ /\ answer.ec = 0 /\ Len(response) > MAX_READ_FILE_RECORD_RESPONSE
                    /\ respond(c, encode_exception(20, IllegalDataValue), server[c].applied)
                 \/ /\ answer.ec = 0 /\ Len(response) <= MAX_READ_FILE_RECORD_RESPONSE
                    /\ IF next = Len(server[c].groups)
                       THEN respond(c, <<20, Len(response)>> \o response, next)
                       ELSE server' = [server EXCEPT ![c].response = response, ![c].applied = next]
        /\ observe(c)
        /\ UNCHANGED <<scene, mem, setting, client>>

(* One group of a write.  The response echoes the request. *)
write_group_answer(s, group) ==
    via(s, InMemoryStore_write_file_record_be(s.mem, group.file, group.record, group.length, group.octets),
           DataStore_write_file_record_be(s, group.file, group.record, group.length, group.octets))

write_group(c) ==
    LET group == server[c].groups[server[c].applied + 1]
        next == server[c].applied + 1
    IN  /\ server[c].pc = "writing"
        /\ \E fault \in StoreFaults : \E answer \in {write_group_answer(store(fault), group)} :
             /\ mem' = answer.mem
             /\ \/ /\ answer.ec # 0
                   /\ respond(c, encode_exception(21, answer.ec), server[c].applied)
                \/ /\ answer.ec = 0 /\ next < Len(server[c].groups)
                   /\ server' = [server EXCEPT ![c].applied = next]
                \/ /\ answer.ec = 0 /\ next = Len(server[c].groups)
                   /\ respond(c, encode_response(21, WriteFileRecordResponse_encode(From(server[c].pdu, 3))), next)
        /\ observe(c)
        /\ UNCHANGED <<scene, setting, client>>
-----------------------------------------------------------------------------
(* The embedding program sets the next of its cells. *)
assign(m, s) ==
    CASE s.table = "coils" -> set_coil(m, s.address, s.values[1])
      [] s.table = "discrete" -> set_discrete_input(m, s.address, s.values[1])
      [] s.table = "holding" -> set_holding_register(m, s.address, s.values[1])
      [] s.table = "input" -> set_input_register(m, s.address, s.values[1])
      [] s.table = "files" -> set_file_record(m, s.address, s.values[1], s.values[2])
      [] s.table = "fifos" -> set_fifo_queue(m, s.address, s.values)
      [] s.table = "status" -> set_exception_status(m, s.values[1])
      [] s.table = "server_id" -> set_server_id(m, s.values)

set_cell ==
    /\ setting # <<>>
    /\ mem' = assign(mem, Head(setting))
    /\ setting' = Tail(setting)
    /\ UNCHANGED <<scene, client, server, witness>>

AllDone == setting = <<>> /\ \A c \in Callers : client[c].pc = "done" /\ server[c].pc = "idle"

Next ==
    \/ \E c \in Callers :
         \/ call_method(c) \/ receive(c) \/ expire(c)
         \/ process(c) \/ begin_file_record(c) \/ read_group(c) \/ write_group(c)
    \/ set_cell
    \/ AllDone /\ UNCHANGED vars

Spec == Init /\ [][Next]_vars
-----------------------------------------------------------------------------
(* The state has its types: a connection carries at most one message, and  *)
(* every octet of the tables and of the messages is one.                   *)
TypeOK ==
    /\ \A t \in {mem.coils, mem.discrete} :
         t.bytes \in Seq(Byte) /\ Len(t.bytes) = packed_len(t.len)
    /\ mem.holding \in Seq(Word) /\ mem.input \in Seq(Word)
    /\ \A f \in DOMAIN mem.files : mem.files[f] \in Seq(Word)
    /\ \A c \in Callers :
         /\ client[c].pc \in {"ready", "waiting", "done"}
         /\ server[c].pc \in {"idle", "request", "reading", "writing", "response", "silent"}
         /\ server[c].pdu \in Seq(Byte) /\ server[c].response \in Seq(Byte)
         /\ Len(server[c].response) <= MAX_PDU_SIZE

(* What is settled for a caller: nothing while the server is at it, then   *)
(* what it will find, and in the end its result.                           *)
settled(c) ==
    CASE server[c].pc \in {"request", "reading", "writing"} -> Pending
      [] server[c].pc = "silent" -> result("timeout", 0, <<>>)
      [] OTHER -> IF client[c].pc = "done" THEN client[c].result ELSE witness[c].outcome

tables ==
    [coils |-> unpack(mem.coils.bytes, mem.coils.len), discrete |-> unpack(mem.discrete.bytes, mem.discrete.len),
     holding |-> mem.holding, input |-> mem.input, files |-> mem.files, fifos |-> mem.fifos,
     status |-> mem.status, server_id |-> mem.server_id, log |-> mem.log]

D == INSTANCE Device WITH
       kind <- scene.kind, identity <- scene.identity, request <- scene.calls, data <- tables,
       progress <- [c \in Callers |-> server[c].applied], gathered <- [c \in Callers |-> witness[c].words],
       outcome <- [c \in Callers |-> settled(c)]

(* The whole path implements the device: whatever client methods, codec,   *)
(* handler, adapters and packed tables do, every caller gets the outcome   *)
(* that its call has on plain tables at one instant between call and       *)
(* return, a rejected call leaves no trace, and calls that race see each   *)
(* other's writes whole.                                                   *)
ImplementsDevice == D!DSpec

(* Encoding what was decoded, for the functions with an encoder. *)
encoded_again(r) ==
    CASE is_exception_response(r.fc) -> ExceptionResponse_encode(r.fc, r.code)
      [] r.fc = 1 -> ReadCoilsResponse_encode(r.payload)
      [] r.fc = 2 -> ReadDiscreteInputsResponse_encode(r.payload)
      [] r.fc = 3 -> ReadHoldingRegistersResponse_encode(r.payload)
      [] r.fc = 4 -> ReadInputRegistersResponse_encode(r.payload)
      [] r.fc = 5 -> WriteSingleCoilResponse_encode(r.address, r.value)
      [] r.fc = 6 -> WriteSingleRegisterResponse_encode(r.address, r.value)
      [] r.fc = 7 -> ReadExceptionStatusResponse_encode(r.payload[1])
      [] r.fc = 8 -> DiagnosticsResponse_encode(r.sub_function, r.payload)
      [] r.fc = 11 -> GetCommEventCounterResponse_encode(be16(r.payload, 1), be16(r.payload, 3))
      [] r.fc = 12 -> GetCommEventLogResponse_encode(be16(r.payload, 1), be16(r.payload, 3), be16(r.payload, 5),
                                                     From(r.payload, 7))
      [] r.fc = 15 -> WriteMultipleCoilsResponse_encode(r.address, r.quantity)
      [] r.fc = 16 -> WriteMultipleRegistersResponse_encode(r.address, r.quantity)
      [] r.fc = 17 -> ReportServerIdResponse_encode(r.payload)
      [] r.fc = 20 -> ReadFileRecordResponse_encode(r.payload)
      [] r.fc = 21 -> WriteFileRecordResponse_encode(r.payload)
      [] r.fc = 22 -> MaskWriteRegisterResponse_encode(r.address, r.and_mask, r.or_mask)
      [] r.fc = 23 -> ReadWriteMultipleRegistersResponse_encode(r.payload)
      [] r.fc = 24 -> ReadFifoQueueResponse_encode(r.payload)
      [] r.fc = 43 -> EncapsulatedInterfaceResponse_encode(r.mei_type, r.payload)
      [] OTHER -> Ok(<<r.fc>> \o r.payload)

(* A PDU as it may arrive: cut short, grown by one octet, or with one of   *)
(* its first octets changed, the function code among them.                 *)
arrivals(pdu, first) ==
    LET last == Min({Len(pdu), first})
    IN  {pdu, Append(pdu, 0), [pdu EXCEPT ![1] = 0]}
          \union {SubSeq(pdu, 1, n) : n \in {1, last, Len(pdu) - 1} \ {0}}
          \union {[pdu EXCEPT ![i] = (@ + d) % 256] : i \in 1..last, d \in {1, 128, 255}}

(* "Validate every group before the first store call. This prevents a      *)
(* malformed later group from causing an earlier group to be submitted"    *)
(* (handler.rs:731).  A write of file records that is rejected for what it *)
(* asks, and not because the store failed, has written nothing; and the    *)
(* handler, which the codec serves here with groups it has checked before, *)
(* does not lean on that: whatever octet of whatever group is damaged, its *)
(* own validation accepts the requests that the codec accepts and no more. *)
FilesWrittenWhole ==
    \A c \in Callers : server[c].pdu # <<>> /\ server[c].pdu[1] = 21 =>
        /\ (/\ server[c].pc = "response"
            /\ server[c].response[1] = 149 /\ server[c].response[2] # ServerDeviceFailure)
               => server[c].applied = 0
        /\ server[c].pc = "request" =>
               \A p \in arrivals(server[c].pdu, 24) : p[1] = 21 /\ Len(p) > 1 /\ Len(p) - 2 = p[2] =>
                   validate_write_groups(From(p, 3)).ok = decode_request(p).ok

(* The codec and the owned decoders of the client, written separately,     *)
(* take the same PDUs for responses and read the same values from them,    *)
(* and encoding those values gives the PDU back.  They part on one         *)
(* function code: zero, which the codec rejects (decode.rs:145) and the    *)
(* client takes for a vendor's (owned.rs:651).                             *)
DecodersAgree ==
    \A c \in Callers : server[c].pc = "response" =>
        \A p \in arrivals(server[c].response, 8) :
            LET r == decode_response(p)
                owned == OwnedResponsePdu_from_pdu(p)
            IN  Len(p) <= MAX_PDU_SIZE =>
                    /\ r.ok = (owned.ok /\ p[1] # 0)
                    /\ r.ok => r.val = owned.val /\ (encoded_again(r.val).ok => encoded_again(r.val).val = p)
=============================================================================

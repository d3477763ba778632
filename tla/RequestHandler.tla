--------------------------- MODULE RequestHandler ---------------------------
(***************************************************************************)
(* What the server does with one request PDU                               *)
(* (rusty-modbus-server/src/handler.rs, device_id.rs, response_encode.rs   *)
(* and the checks of rusty-modbus-codec/src/validate.rs).  A handler       *)
(* returns the response PDU, empty for no reply, and the tables after it.  *)
(* Every handler here makes at most one store call.  The two file-record   *)
(* handlers make one per group and are actions of RequestPath.             *)
(***************************************************************************)
EXTENDS DataStore, ResponsePdu

(* Validation, each function in the order of its checks: 0 for none. *)
validate_address_range(address, n) == IF address + n > 65536 THEN IllegalDataAddress ELSE 0

first_code(value_ok, address_code) == IF value_ok THEN address_code ELSE IllegalDataValue

validate_read_coils(address, n) ==
    first_code(check_quantity(n, MAX_READ_BITS), validate_address_range(address, n))

validate_read_discrete_inputs(address, n) ==
    first_code(check_quantity(n, MAX_READ_BITS), validate_address_range(address, n))

validate_read_registers(address, n) ==
    first_code(check_quantity(n, MAX_READ_REGISTERS), validate_address_range(address, n))

validate_write_coils(address, n, byte_count) ==
    first_code(check_quantity(n, MAX_WRITE_COILS) /\ byte_count = packed_len(n),
               validate_address_range(address, n))

validate_write_registers(address, n, byte_count) ==
    first_code(check_quantity(n, MAX_WRITE_REGISTERS) /\ byte_count = 2 * n,
               validate_address_range(address, n))

validate_mask_write_address(address) == validate_address_range(address, 1)

validate_read_write_registers(address, n, write_address, write_n, byte_count) ==
    first_code(/\ check_quantity(n, MAX_READ_REGISTERS)
               /\ check_quantity(write_n, MAX_RW_WRITE_REGISTERS)
               /\ byte_count = 2 * write_n,
               LET read == validate_address_range(address, n)
               IN  IF read # 0 THEN read ELSE validate_address_range(write_address, write_n))
-----------------------------------------------------------------------------
(* Replies. *)
reply(mem, pdu) == [pdu |-> pdu, mem |-> mem]

encode_exception(fc, ec) == <<(fc % 128) + 128, ec>>

(* An encoder that fails is answered as a failure of the device. *)
encode_response(fc, r) == IF r.ok THEN r.val ELSE encode_exception(fc, ServerDeviceFailure)

rejected(fc, mem, ec) == reply(mem, encode_exception(fc, ec))

(* The reply to a store call: its exception, or the PDU made of its values.*)
answered(fc, answer, pdu) ==
    reply(answer.mem, IF answer.ec = 0 THEN pdu ELSE encode_exception(fc, answer.ec))

validated(fc, s, ec, r) == IF ec = 0 THEN r ELSE rejected(fc, s.mem, ec)

validate_store_count(answer, n) ==
    IF answer.ec = 0 /\ answer.count # n THEN refused(answer.mem, ServerDeviceFailure) ELSE answer

via(s, in_memory, default) == IF s.kind = "memory" THEN in_memory ELSE default
-----------------------------------------------------------------------------
(* Reads of bits and registers. *)
handle_read_bits(fc, address, n, s) ==
    LET ec == IF fc = 1 THEN validate_read_coils(address, n) ELSE validate_read_discrete_inputs(address, n)
        read == IF fc = 1
                THEN via(s, InMemoryStore_read_coils_packed(s.mem, address, n),
                            DataStore_read_coils_packed(s, address, n))
                ELSE via(s, InMemoryStore_read_discrete_inputs_packed(s.mem, address, n),
                            DataStore_read_discrete_inputs_packed(s, address, n))
        answer == validate_store_count(read, n)
    IN  validated(fc, s, ec, answered(fc, answer, <<fc, packed_len(n)>> \o answer.out))

handle_read_registers(fc, address, n, s) ==
    LET read == IF fc = 3
                THEN via(s, InMemoryStore_read_holding_registers_be(s.mem, address, n),
                            DataStore_read_holding_registers_be(s, address, n))
                ELSE via(s, InMemoryStore_read_input_registers_be(s.mem, address, n),
                            DataStore_read_input_registers_be(s, address, n))
        answer == validate_store_count(read, n)
    IN  validated(fc, s, validate_read_registers(address, n),
                  answered(fc, answer, <<fc, 2 * n>> \o answer.out))
-----------------------------------------------------------------------------
(* Writes.  The single writes leave the address to the store. *)
write_single_coil(req, s) ==
    LET answer == plain(s, InMemoryStore_write_coil(s.mem, req.address, req.value))
    IN  answered(5, answer, encode_response(5, WriteSingleCoilResponse_encode(req.address, req.value)))

write_single_register(req, s) ==
    LET answer == plain(s, InMemoryStore_write_register(s.mem, req.address, req.value))
    IN  answered(6, answer, encode_response(6, WriteSingleRegisterResponse_encode(req.address, req.value)))

write_multiple_coils(req, s) ==
    LET n == req.quantity
        answer == via(s, InMemoryStore_write_coils_packed(s.mem, req.address, n, req.values),
                         DataStore_write_coils_packed(s, req.address, n, req.values))
    IN  validated(15, s, validate_write_coils(req.address, n, Len(req.values)),
                  answered(15, answer, encode_response(15, WriteMultipleCoilsResponse_encode(req.address, n))))

write_multiple_registers(req, s) ==
    LET n == req.quantity
        answer == via(s, InMemoryStore_write_registers_be(s.mem, req.address, n, req.values),
                         DataStore_write_registers_be(s, req.address, n, req.values))
    IN  validated(16, s, validate_write_registers(req.address, n, Len(req.values)),
                  answered(16, answer, encode_response(16, WriteMultipleRegistersResponse_encode(req.address, n))))

handle_mask_write(req, s) ==
    LET answer == via(s, InMemoryStore_atomic_mask_write_register(s.mem, req.address, req.and_mask, req.or_mask),
                         DataStore_atomic_mask_write_register(s))
    IN  validated(22, s, validate_mask_write_address(req.address),
                  answered(22, answer,
                      encode_response(22, MaskWriteRegisterResponse_encode(req.address, req.and_mask, req.or_mask))))

handle_read_write_multiple(req, s) ==
    LET n == req.quantity
        result == via(s, InMemoryStore_atomic_read_write_registers_be(
                             s.mem, req.address, n, req.write_address, req.write_quantity, req.values),
                         DataStore_atomic_read_write_registers_be(s))
        answer == validate_store_count(result, n)
    IN  validated(23, s,
                  validate_read_write_registers(req.address, n, req.write_address, req.write_quantity,
                                                Len(req.values)),
                  answered(23, answer, <<23, 2 * n>> \o answer.out))
-----------------------------------------------------------------------------
(* FIFO, status, diagnostics, event log, server id, vendor functions. *)
handle_read_fifo_queue(address, s) ==
    LET answer == via(s, InMemoryStore_read_fifo_queue_be(s.mem, address), DataStore_read_fifo_queue_be(s, address))
        n == answer.count
    IN  IF answer.ec = 0 /\ n > MAX_FIFO_VALUES THEN rejected(24, s.mem, IllegalDataValue)
        ELSE answered(24, answer, <<24>> \o to_be(2 + 2 * n) \o to_be(n) \o answer.out)

read_exception_status(s) ==
    LET answer == plain(s, InMemoryStore_read_exception_status(s.mem))
    IN  answered(7, answer, encode_response(7, ReadExceptionStatusResponse_encode(answer.out[1])))

handle_diagnostics(sub_function, data, s) ==
    LET answer == via(s, InMemoryStore_append_diagnostic_response(s.mem, sub_function, data),
                         DataStore_append_diagnostic_response(s, sub_function, data))
    IN  IF answer.ec = Silent THEN reply(answer.mem, <<>>)
        ELSE IF answer.ec = 0 /\ (Len(answer.out) > MAX_DIAGNOSTIC_RESPONSE_DATA_LEN \/ Len(answer.out) % 2 # 0)
        THEN rejected(8, answer.mem, ServerDeviceFailure)
        ELSE answered(8, answer, <<8>> \o to_be(sub_function) \o answer.out)

get_comm_event_counter(s) ==
    LET answer == via(s, DataStore_get_comm_event_counter(s), plain(s, done(s.mem, <<>>)))
    IN  answered(11, answer,
            encode_response(11, GetCommEventCounterResponse_encode(s.mem.log.status, s.mem.log.event_count)))

handle_comm_event_log(s) ==
    LET answer == via(s, DataStore_get_comm_event_log(s), DataStore_append_comm_event_log(s))
        log == s.mem.log
    IN  IF answer.ec = 0 /\ Len(answer.out) > MAX_COMM_EVENT_LOG_EVENTS
        THEN rejected(12, s.mem, ServerDeviceFailure)
        ELSE answered(12, answer, <<12, 6 + Len(answer.out)>> \o to_be(log.status) \o to_be(log.event_count)
                                    \o to_be(log.message_count) \o answer.out)

handle_report_server_id(s) ==
    LET answer == via(s, InMemoryStore_append_server_id(s.mem), DataStore_append_server_id(s))
    IN  IF answer.ec = 0 /\ Len(answer.out) > MAX_SERVER_ID_BYTES THEN rejected(17, s.mem, ServerDeviceFailure)
        ELSE answered(17, answer, <<17, Len(answer.out)>> \o answer.out)

handle_custom_request(fc, data, s) ==
    LET answer == via(s, DataStore_handle_custom_function(s), plain_custom_function(s, fc, data))
    IN  IF answer.ec = 0 /\ answer.count >= MAX_PDU_SIZE THEN rejected(fc, answer.mem, ServerDeviceFailure)
        ELSE answered(fc, answer, <<fc>> \o answer.out)
-----------------------------------------------------------------------------
(* Device identification.  A configuration maps object ids 0..6 to values; *)
(* the first three are always there.                                       *)
MAX_DEVICE_ID_OBJECT_VALUE_LEN == MAX_PDU_SIZE - 9

Individual == 4
BasicStream == 1

configured_objects(config) ==
    LET rank(id) == Cardinality({i \in DOMAIN config : i <= id})
    IN  [k \in 1..Cardinality(DOMAIN config) |->
            LET id == CHOOSE i \in DOMAIN config : rank(i) = k IN [id |-> id, value |-> config[id]]]

conformity_level(config) == IF DOMAIN config = 0..2 THEN 129 ELSE 130

device_id_exception(ec) == encode_exception(43, ec)

object_len(object) == 2 + Len(object.value)

build_response(code, level, next, objects) ==
    LET octets[k \in 0..Len(objects)] ==
            IF k = 0 THEN <<>>
            ELSE octets[k - 1] \o <<objects[k].id, Len(objects[k].value)>> \o objects[k].value
    IN  <<43, READ_DEVICE_ID, code, level>> \o next \o <<Len(objects)>> \o octets[Len(objects)]

(* From the requested object, or the first, as many objects as fit. *)
build_stream_response(code, level, object_id, objects) ==
    LET named == {k \in DOMAIN objects : objects[k].id = object_id}
        start == IF named = {} THEN 1 ELSE Min(named)
        size(last) == 7 + MapThenSumSet(LAMBDA k : object_len(objects[k]), start..last)
        last == Max({start - 1} \union {k \in start..Len(objects) : size(k) <= MAX_PDU_SIZE})
    IN  CASE \E k \in DOMAIN objects : Len(objects[k].value) > MAX_DEVICE_ID_OBJECT_VALUE_LEN ->
                 device_id_exception(ServerDeviceFailure)
          [] last < start -> device_id_exception(ServerDeviceFailure)
          [] OTHER -> build_response(code, level,
                          IF last < Len(objects) THEN <<255, objects[last + 1].id>> ELSE <<0, 0>>,
                          SubSeq(objects, start, last))

build_device_id_response(data, config) ==
    LET objects == configured_objects(config)
        level == conformity_level(config)
        named == {k \in DOMAIN objects : objects[k].id = data[2]}
        object == objects[Min(named)]
    IN  CASE Len(data) # 2 \/ data[1] \notin DeviceIdCodes -> device_id_exception(IllegalDataValue)
          [] data[1] = Individual ->
                 IF named = {} THEN device_id_exception(IllegalDataAddress)
                 ELSE IF Len(object.value) > MAX_DEVICE_ID_OBJECT_VALUE_LEN
                 THEN device_id_exception(ServerDeviceFailure)
                 ELSE build_response(Individual, level, <<0, 0>>, <<object>>)
          [] data[1] = BasicStream -> build_stream_response(data[1], level, data[2], SubSeq(objects, 1, 3))
          [] OTHER -> build_stream_response(data[1], level, data[2], objects)
-----------------------------------------------------------------------------
(* process_request.  A request that cannot be decoded is rejected by the   *)
(* class of its error.  A broadcast is never answered: reads of it are     *)
(* dropped, writes and diagnostics carried out in silence.                 *)
BROADCAST == 0

decode_exception(class) ==
    CASE class = "Function" -> IllegalFunction
      [] class = "Address" -> IllegalDataAddress
      [] OTHER -> IllegalDataValue

carried_out_on_broadcast(fc) == fc \in {5, 6, 8, 15, 16, 21, 22}

dispatch_request(req, s, config) ==
    CASE req.fc \in {1, 2} -> handle_read_bits(req.fc, req.address, req.quantity, s)
      [] req.fc \in {3, 4} -> handle_read_registers(req.fc, req.address, req.quantity, s)
      [] req.fc = 5 -> write_single_coil(req, s)
      [] req.fc = 6 -> write_single_register(req, s)
      [] req.fc = 7 -> read_exception_status(s)
      [] req.fc = 8 -> handle_diagnostics(req.sub_function, req.payload, s)
      [] req.fc = 11 -> get_comm_event_counter(s)
      [] req.fc = 12 -> handle_comm_event_log(s)
      [] req.fc = 15 -> write_multiple_coils(req, s)
      [] req.fc = 16 -> write_multiple_registers(req, s)
      [] req.fc = 17 -> handle_report_server_id(s)
      [] req.fc = 22 -> handle_mask_write(req, s)
      [] req.fc = 23 -> handle_read_write_multiple(req, s)
      [] req.fc = 24 -> handle_read_fifo_queue(req.address, s)
      [] req.fc = 43 -> IF req.mei_type = READ_DEVICE_ID
                        THEN reply(s.mem, build_device_id_response(req.payload, config))
                        ELSE rejected(43, s.mem, IllegalFunction)
      [] OTHER -> handle_custom_request(req.fc, req.payload, s)

(* Requests of several store calls. *)
by_groups(req) == req.ok /\ req.val.fc \in {20, 21}

addressed(unit, served) == IF unit = BROADCAST THEN reply(served.mem, <<>>) ELSE served

process_request(pdu, req, unit, s, config) ==
    CASE unit = BROADCAST /\ ~(req.ok /\ carried_out_on_broadcast(req.val.fc)) -> reply(s.mem, <<>>)
      [] unit # BROADCAST /\ ~req.ok ->
           rejected(IF pdu = <<>> THEN 0 ELSE pdu[1], s.mem, decode_exception(req.err))
      [] OTHER -> addressed(unit, dispatch_request(req.val, s, config))
=============================================================================

--------------------------- MODULE ClientMethods ---------------------------
(***************************************************************************)
(* The typed methods of ModbusClient (rusty-modbus-client/src/methods):    *)
(* what each sends, and what each makes of the response to it.  A call is  *)
(* a record [op, unit, address, quantity, write_address, values, groups].  *)
(* Its result is a tag with an exception code or data: "ok", "exception",  *)
(* "invalid" for a response that fails a check, "refused" for a call that  *)
(* is not sent, "sent" for a broadcast, "timeout".                         *)
(***************************************************************************)
EXTENDS ResponsePdu

result(tag, code, data) == [tag |-> tag, code |-> code, data |-> data]

ok(data) == result("ok", 0, data)

invalid == result("invalid", 0, <<>>)

Pending == result("none", 0, <<>>)

not_broadcast(call, request) == IF call.unit = 0 THEN Fail("BroadcastReadNotAllowed") ELSE request

checked_quantity_len(n, max, request) == IF n \in 1..max THEN request ELSE Fail("Encode")

checked_byte_count_value(n, least, most, request) == IF n \in least..most THEN request ELSE Fail("Encode")

checked_file_record_byte_count(n, request) == checked_byte_count_value(n, 7, 245, request)

(* A variant of the response, an exception, or anything else. *)
expecting(fc, r, outcome) ==
    CASE ~r.ok -> invalid
      [] is_exception_response(r.val.fc) -> result("exception", r.val.code, <<>>)
      [] r.val.fc # fc -> invalid
      [] OTHER -> outcome

validated_as(holds, data) == IF holds THEN ok(data) ELSE invalid

validate_response_length(expected, data) == Len(data) = expected

(* The length fits the quantity, and the bits past it are zero. *)
validate_bit_response_shape(n, data) ==
    /\ validate_response_length(packed_len(n), data)
    /\ n % 8 # 0 => data[packed_len(n)] \div 2 ^ (n % 8) = 0

validate_register_response_shape(n, data) == validate_response_length(2 * n, data)
-----------------------------------------------------------------------------
(* coils.rs *)
read_coils(call) == not_broadcast(call, ReadCoilsRequest_encode(call.address, call.quantity))

read_coils_result(call, r) ==
    expecting(1, r, validated_as(validate_bit_response_shape(call.quantity, r.val.payload),
                                 unpack(r.val.payload, call.quantity)))

read_discrete_inputs(call) ==
    not_broadcast(call, ReadDiscreteInputsRequest_encode(call.address, call.quantity))

read_discrete_inputs_result(call, r) ==
    expecting(2, r, validated_as(validate_bit_response_shape(call.quantity, r.val.payload),
                                 unpack(r.val.payload, call.quantity)))

write_single_coil_request(call) == WriteSingleCoilRequest_encode(call.address, call.values[1])

write_single_coil_result(call, r) ==
    expecting(5, r, validated_as(r.val.address = call.address /\ r.val.value = call.values[1], <<>>))

write_multiple_coils_request(call) ==
    checked_quantity_len(Len(call.values), MAX_WRITE_COILS,
        WriteMultipleCoilsRequest_encode(call.address, Len(call.values), pack(call.values)))

write_multiple_coils_result(call, r) ==
    expecting(15, r, validated_as(r.val.address = call.address /\ r.val.quantity = Len(call.values), <<>>))
-----------------------------------------------------------------------------
(* registers.rs *)
read_holding_registers(call) ==
    not_broadcast(call, ReadHoldingRegistersRequest_encode(call.address, call.quantity))

read_holding_registers_result(call, r) ==
    expecting(3, r, validated_as(validate_register_response_shape(call.quantity, r.val.payload),
                                 words_of(r.val.payload)))

read_holding_registers_raw_result(call, r) ==
    expecting(3, r, validated_as(validate_register_response_shape(call.quantity, r.val.payload), r.val.payload))

read_input_registers(call) ==
    not_broadcast(call, ReadInputRegistersRequest_encode(call.address, call.quantity))

read_input_registers_result(call, r) ==
    expecting(4, r, validated_as(validate_register_response_shape(call.quantity, r.val.payload),
                                 words_of(r.val.payload)))

write_single_register_request(call) == WriteSingleRegisterRequest_encode(call.address, call.values[1])

write_single_register_result(call, r) ==
    expecting(6, r, validated_as(r.val.address = call.address /\ r.val.value = call.values[1], <<>>))

write_multiple_registers_request(call) ==
    checked_quantity_len(Len(call.values), MAX_WRITE_REGISTERS,
        WriteMultipleRegistersRequest_encode(call.address, Len(call.values), octets_of(call.values)))

write_multiple_registers_result(call, r) ==
    expecting(16, r, validated_as(r.val.address = call.address /\ r.val.quantity = Len(call.values), <<>>))

mask_write_register(call) ==
    MaskWriteRegisterRequest_encode(call.address, call.values[1], call.values[2])

mask_write_register_result(call, r) ==
    expecting(22, r, validated_as(/\ r.val.address = call.address
                                  /\ r.val.and_mask = call.values[1] /\ r.val.or_mask = call.values[2], <<>>))

read_write_multiple_registers(call) ==
    not_broadcast(call, checked_quantity_len(Len(call.values), MAX_RW_WRITE_REGISTERS,
        ReadWriteMultipleRegistersRequest_encode(call.address, call.quantity, call.write_address,
                                                 Len(call.values), octets_of(call.values))))

read_write_multiple_registers_result(call, r) ==
    expecting(23, r, validated_as(validate_register_response_shape(call.quantity, r.val.payload),
                                  words_of(r.val.payload)))
-----------------------------------------------------------------------------
(* file.rs and fifo.rs.  The caller hands over the octets of the groups.   *)
group_octets(group) ==
    <<REFERENCE_TYPE>> \o to_be(group.file) \o to_be(group.record) \o to_be(group.length) \o octets_of(group.words)

sub_request_data(groups) ==
    LET upto[k \in 0..Len(groups)] == IF k = 0 THEN <<>> ELSE upto[k - 1] \o group_octets(groups[k])
    IN  upto[Len(groups)]

read_file_record_sub_responses(p) ==
    LET starts == SelectSeq(read_group_starts(p), LAMBDA i : i + p[i] <= Len(p))
    IN  [k \in DOMAIN starts |-> SubSeq(p, starts[k] + 1, starts[k] + p[starts[k]])]

(* The words of all groups; the method itself returns the octets. *)
file_words(subs) ==
    LET upto[k \in 0..Len(subs)] == IF k = 0 THEN <<>> ELSE upto[k - 1] \o words_of(From(subs[k], 2))
    IN  upto[Len(subs)]

read_file_record_request(call) ==
    LET data == sub_request_data(call.groups)
    IN  not_broadcast(call, checked_file_record_byte_count(Len(data), ReadFileRecordRequest_encode(data)))

read_file_record_result(call, r) ==
    LET subs == read_file_record_sub_responses(r.val.payload)
    IN  expecting(20, r, validated_as(Len(subs) = Len(call.groups), file_words(subs)))

write_file_record_request(call) ==
    LET data == sub_request_data(call.groups)
    IN  not_broadcast(call, checked_file_record_byte_count(Len(data), WriteFileRecordRequest_encode(data)))

write_file_record_result(r) == expecting(21, r, ok(<<>>))

read_fifo_queue(call) == not_broadcast(call, ReadFifoQueueRequest_encode(call.address))

read_fifo_queue_result(r) == expecting(24, r, ok(words_of(r.val.payload)))
-----------------------------------------------------------------------------
(* device_id.rs: pages of the basic objects, at most three, each asked for *)
(* from where the one before it stopped.                                   *)
MAX_BASIC_DEVICE_ID_RESPONSE_PAGES == 3

NotReported == <<257>>

FirstPage == [pages |-> 0, object_id |-> 0, found |-> [id \in 0..2 |-> NotReported]]

read_device_identification(call, page) ==
    not_broadcast(call, ReadDeviceIdentificationRequest_encode(1, page.object_id))

(* The three values in one sequence, set apart by 256. *)
identification(found) == found[0] \o <<256>> \o found[1] \o <<256>> \o found[2]

collect(found, objects) ==
    [id \in 0..2 |->
        LET at == {k \in DOMAIN objects : objects[k].id = id}
        IN  IF at = {} THEN found[id] ELSE objects[Max(at)].value]

identified(r) == ReadDeviceIdentificationResponse_decode(<<READ_DEVICE_ID>> \o r.val.payload)

(* The result, Pending when another page is to be asked for. *)
page_result(page, id) ==
    CASE ~id.ok -> invalid
      [] id.ok /\ ~id.val.more_follows -> ok(identification(collect(page.found, id.val.objects)))
      [] id.ok /\ id.val.more_follows ->
           IF page.pages + 1 >= MAX_BASIC_DEVICE_ID_RESPONSE_PAGES \/ id.val.next_object_id <= page.object_id
           THEN invalid ELSE Pending

read_device_identification_result(page, r) == expecting(43, r, page_result(page, identified(r)))

next_page(page, id) ==
    [pages |-> page.pages + 1, object_id |-> id.val.next_object_id,
     found |-> collect(page.found, id.val.objects)]
-----------------------------------------------------------------------------
(* The other functions, sent by a program that is not this client.         *)
other_request(call) ==
    CASE call.op = "diagnostics" -> DiagnosticsRequest_encode(call.quantity, call.values)
      [] call.op = "read_exception_status" -> Ok(<<7>>)
      [] call.op = "get_comm_event_counter" -> Ok(<<11>>)
      [] call.op = "get_comm_event_log" -> Ok(<<12>>)
      [] call.op = "report_server_id" -> Ok(<<17>>)
      [] call.op = "read_object" -> EncapsulatedInterfaceRequest_encode(READ_DEVICE_ID, <<4, call.address>>)
      [] call.op = "read_stream" -> EncapsulatedInterfaceRequest_encode(READ_DEVICE_ID, <<call.quantity, call.address>>)
      [] call.op = "custom" -> Ok(<<call.quantity>> \o call.values)
      [] call.op = "malformed" -> Ok(call.values)

object_values(op, objects) ==
    IF op = "read_object" THEN objects[1].value ELSE [k \in DOMAIN objects |-> objects[k].id]

other_result(call, r) ==
    expecting(other_request(call).val[1], r,
        ok(IF call.op \in {"read_object", "read_stream"} THEN object_values(call.op, identified(r).val.objects)
           ELSE r.val.payload))
-----------------------------------------------------------------------------
request_of(call, page) ==
    CASE call.op = "read_coils" -> read_coils(call)
      [] call.op = "read_discrete_inputs" -> read_discrete_inputs(call)
      [] call.op = "write_single_coil" -> write_single_coil_request(call)
      [] call.op = "write_multiple_coils" -> write_multiple_coils_request(call)
      [] call.op \in {"read_holding_registers", "read_holding_registers_raw"} -> read_holding_registers(call)
      [] call.op = "read_input_registers" -> read_input_registers(call)
      [] call.op = "write_single_register" -> write_single_register_request(call)
      [] call.op = "write_multiple_registers" -> write_multiple_registers_request(call)
      [] call.op = "mask_write_register" -> mask_write_register(call)
      [] call.op = "read_write_multiple_registers" -> read_write_multiple_registers(call)
      [] call.op = "read_file_record" -> read_file_record_request(call)
      [] call.op = "write_file_record" -> write_file_record_request(call)
      [] call.op = "read_fifo_queue" -> read_fifo_queue(call)
      [] call.op = "read_device_identification" -> read_device_identification(call, page)
      [] OTHER -> other_request(call)

result_of(call, page, r) ==
    CASE call.op = "read_coils" -> read_coils_result(call, r)
      [] call.op = "read_discrete_inputs" -> read_discrete_inputs_result(call, r)
      [] call.op = "write_single_coil" -> write_single_coil_result(call, r)
      [] call.op = "write_multiple_coils" -> write_multiple_coils_result(call, r)
      [] call.op = "read_holding_registers" -> read_holding_registers_result(call, r)
      [] call.op = "read_holding_registers_raw" -> read_holding_registers_raw_result(call, r)
      [] call.op = "read_input_registers" -> read_input_registers_result(call, r)
      [] call.op = "write_single_register" -> write_single_register_result(call, r)
      [] call.op = "write_multiple_registers" -> write_multiple_registers_result(call, r)
      [] call.op = "mask_write_register" -> mask_write_register_result(call, r)
      [] call.op = "read_write_multiple_registers" -> read_write_multiple_registers_result(call, r)
      [] call.op = "read_file_record" -> read_file_record_result(call, r)
      [] call.op = "write_file_record" -> write_file_record_result(r)
      [] call.op = "read_fifo_queue" -> read_fifo_queue_result(r)
      [] call.op = "read_device_identification" -> read_device_identification_result(page, r)
      [] OTHER -> other_result(call, r)
=============================================================================

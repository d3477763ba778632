---------------------------- MODULE ResponsePdu ----------------------------
(***************************************************************************)
(* The response half of the PDU codec (rusty-modbus-codec/src/response and *)
(* decode_response), and its twin in rusty-modbus-frame/src/owned.rs, which *)
(* the client uses: it decodes again, from a shared buffer, and delegates   *)
(* only some of the cases to the codec.  Decoders fail with "Codec".        *)
(***************************************************************************)
EXTENDS RequestPdu

(* A byte count that equals what follows: bits, registers, a server id. *)
run_decode(fc, p) ==
    Checked(p # <<>> /\ p[1] = Len(p) - 1, "Codec", [fc |-> fc, payload |-> From(p, 2)])

run_encode(fc, payload) == encoded(Len(payload) <= 255, <<fc, Len(payload)>> \o payload)

check_register_data_len(p) == Len(p) % 2 = 0

registers_decode(fc, p) ==
    Checked(p # <<>> /\ p[1] = Len(p) - 1 /\ check_register_data_len(From(p, 2)), "Codec",
            [fc |-> fc, payload |-> From(p, 2)])

registers_encode(fc, payload) ==
    encoded(Len(payload) <= 255 /\ check_register_data_len(payload),
            <<fc, Len(payload)>> \o payload)

ReadCoilsResponse_decode(p) == run_decode(1, p)

ReadCoilsResponse_encode(bits) == run_encode(1, bits)

ReadDiscreteInputsResponse_decode(p) == run_decode(2, p)

ReadDiscreteInputsResponse_encode(bits) == run_encode(2, bits)

ReadHoldingRegistersResponse_decode(p) == registers_decode(3, p)

ReadHoldingRegistersResponse_encode(data) == registers_encode(3, data)

ReadInputRegistersResponse_decode(p) == registers_decode(4, p)

ReadInputRegistersResponse_encode(data) == registers_encode(4, data)

ReadWriteMultipleRegistersResponse_decode(p) == registers_decode(23, p)

ReadWriteMultipleRegistersResponse_encode(data) == registers_encode(23, data)
-----------------------------------------------------------------------------
(* Echoes of writes. *)
WriteSingleCoilResponse_decode(p) ==
    Checked(check_exact_len(p, 4) /\ be16(p, 3) \in {0, 65280}, "Codec",
            [fc |-> 5, address |-> be16(p, 1), value |-> CoilValue_from_wire(be16(p, 3))])

WriteSingleCoilResponse_encode(address, bit) ==
    encoded(TRUE, <<5>> \o to_be(address) \o to_be(CoilValue_to_wire(bit)))

WriteSingleRegisterResponse_decode(p) ==
    Checked(check_exact_len(p, 4), "Codec", [fc |-> 6, address |-> be16(p, 1), value |-> be16(p, 3)])

WriteSingleRegisterResponse_encode(address, word) ==
    encoded(TRUE, <<6>> \o to_be(address) \o to_be(word))

WriteMultipleCoilsResponse_decode(p) ==
    Checked(check_exact_len(p, 4), "Codec", [fc |-> 15, address |-> be16(p, 1), quantity |-> be16(p, 3)])

WriteMultipleCoilsResponse_encode(address, quantity) ==
    span_encode(15, MAX_WRITE_COILS, address, quantity)

WriteMultipleRegistersResponse_decode(p) ==
    Checked(check_exact_len(p, 4), "Codec", [fc |-> 16, address |-> be16(p, 1), quantity |-> be16(p, 3)])

WriteMultipleRegistersResponse_encode(address, quantity) ==
    span_encode(16, MAX_WRITE_REGISTERS, address, quantity)

MaskWriteRegisterResponse_decode(p) ==
    Checked(check_exact_len(p, 6), "Codec",
            [fc |-> 22, address |-> be16(p, 1), and_mask |-> be16(p, 3), or_mask |-> be16(p, 5)])

MaskWriteRegisterResponse_encode(address, and_mask, or_mask) ==
    encoded(TRUE, <<22>> \o to_be(address) \o to_be(and_mask) \o to_be(or_mask))
-----------------------------------------------------------------------------
(* File records: groups of length, reference type and words for a read,    *)
(* the whole request for a write.                                          *)
read_group_starts(p) == group_starts(p, LAMBDA i : 1 + p[i])

validate_read_file_response_payload(p) ==
    LET starts == read_group_starts(p)
    IN  \A k \in DOMAIN starts :
            LET i == starts[k]
            IN  p[i] >= 3 /\ p[i] % 2 = 1 /\ i + p[i] <= Len(p) /\ p[i + 1] = REFERENCE_TYPE

validate_read_file_response_payload_encode(p) == validate_read_file_response_payload(p)

validate_write_file_payload(p) ==
    LET starts == write_group_starts(p)
    IN  \A k \in DOMAIN starts :
            LET i == starts[k]
            IN  /\ i + 6 <= Len(p) /\ p[i] = REFERENCE_TYPE
                /\ check_file_record_range(be16(p, i + 1), be16(p, i + 3), be16(p, i + 5))
                /\ i + write_group_size(p, i) <= Len(p) + 1

validate_write_file_payload_encode(p) == validate_write_file_payload(p)

ReadFileRecordResponse_decode(p) ==
    Checked(/\ p # <<>> /\ p[1] \in 4..250 /\ p[1] = Len(p) - 1
            /\ validate_read_file_response_payload(From(p, 2)), "Codec",
            [fc |-> 20, payload |-> From(p, 2)])

ReadFileRecordResponse_encode(payload) ==
    counted_encode(20, 4, 250, validate_read_file_response_payload_encode(payload), payload)

WriteFileRecordResponse_decode(p) ==
    Checked(/\ p # <<>> /\ p[1] \in 9..251 /\ p[1] = Len(p) - 1
            /\ validate_write_file_payload(From(p, 2)), "Codec",
            [fc |-> 21, payload |-> From(p, 2)])

WriteFileRecordResponse_encode(payload) ==
    counted_encode(21, 9, 251, validate_write_file_payload_encode(payload), payload)
-----------------------------------------------------------------------------
(* Diagnostics and counters. *)
ReadExceptionStatusResponse_decode(p) ==
    Checked(check_exact_len(p, 1), "Codec", [fc |-> 7, payload |-> p])

ReadExceptionStatusResponse_encode(status) == encoded(TRUE, <<7, status>>)

DiagnosticsResponse_decode(p) ==
    Checked(/\ Len(p) >= 2
            /\ be16(p, 1) \in DiagnosticSubFunctions
            /\ check_diagnostic_data_len(From(p, 3)), "Codec",
            [fc |-> 8, sub_function |-> be16(p, 1), payload |-> From(p, 3)])

DiagnosticsResponse_encode(sub_function, payload) ==
    encoded(check_diagnostic_data_len(payload), <<8>> \o to_be(sub_function) \o payload)

GetCommEventCounterResponse_decode(p) ==
    Checked(check_exact_len(p, 4), "Codec", [fc |-> 11, payload |-> p])

GetCommEventCounterResponse_encode(status, events) ==
    encoded(TRUE, <<11>> \o to_be(status) \o to_be(events))

GetCommEventLogResponse_decode(p) ==
    Checked(Len(p) >= 7 /\ p[1] >= 6 /\ p[1] = Len(p) - 1, "Codec",
            [fc |-> 12, payload |-> From(p, 2)])

GetCommEventLogResponse_encode(status, events, messages, log) ==
    encoded(6 + Len(log) <= 255,
            <<12, 6 + Len(log)>> \o to_be(status) \o to_be(events) \o to_be(messages) \o log)

ReportServerIdResponse_decode(p) == run_decode(17, p)

ReportServerIdResponse_encode(payload) == run_encode(17, payload)

ReadFifoQueueResponse_decode(p) ==
    Checked(/\ Len(p) >= 4
            /\ be16(p, 1) >= 2 /\ be16(p, 1) = Len(p) - 2
            /\ be16(p, 3) <= MAX_FIFO_VALUES /\ Len(p) - 4 = 2 * be16(p, 3), "Codec",
            [fc |-> 24, payload |-> From(p, 5)])

ReadFifoQueueResponse_encode(payload) ==
    encoded(Len(payload) % 2 = 0 /\ Len(payload) \div 2 <= MAX_FIFO_VALUES,
            <<24>> \o to_be(2 + Len(payload)) \o to_be(Len(payload) \div 2) \o payload)

ExceptionResponse_decode(fc, p) ==
    Checked(check_exact_len(p, 1) /\ fc # 128, "Codec", [fc |-> fc, code |-> p[1]])

ExceptionResponse_encode(fc, code) == encoded(TRUE, <<(fc % 128) + 128, code>>)
-----------------------------------------------------------------------------
(* Device identification: a header, then objects of id, length and value.  *)
valid_conformity_level(level) == level \in {1, 2, 3, 129, 130, 131}

identification_objects(p, n) ==
    LET size(i) == IF i = Len(p) THEN 2 ELSE 2 + p[i + 1]
        starts == group_starts(p, size)
        objects == [k \in DOMAIN starts |->
                        [id |-> p[starts[k]], value |-> SubSeq(p, starts[k] + 2, starts[k] + size(starts[k]) - 1)]]
    IN  Checked(/\ Len(starts) = n
                /\ n # 0 => starts[n] + size(starts[n]) = Len(p) + 1, "Codec", objects)

identification_of(p, objects) ==
    IF objects.ok
    THEN Ok([code |-> p[2], more_follows |-> p[4] = 255, next_object_id |-> p[5], objects |-> objects.val])
    ELSE objects

ReadDeviceIdentificationResponse_decode(p) ==
    IF /\ Len(p) >= 6
       /\ p[1] = READ_DEVICE_ID /\ p[2] \in DeviceIdCodes /\ valid_conformity_level(p[3])
       /\ p[4] \in {0, 255} /\ (p[4] = 0 => p[5] = 0)
       /\ (p[2] = 4 => p[6] = 1)
    THEN identification_of(p, identification_objects(From(p, 7), p[6]))
    ELSE Fail("Codec")

EncapsulatedInterfaceResponse_decode(p) ==
    Checked(/\ p # <<>> /\ p[1] \in MeiTypes
            /\ p[1] = READ_DEVICE_ID => ReadDeviceIdentificationResponse_decode(p).ok, "Codec",
            [fc |-> 43, mei_type |-> p[1], payload |-> From(p, 2)])

EncapsulatedInterfaceResponse_encode(mei_type, payload) ==
    encoded(TRUE, <<43, mei_type>> \o payload)
-----------------------------------------------------------------------------
(* decode_response. *)
decode_response(pdu) ==
    IF ~decode_pdu_ref(pdu) THEN Fail("Codec")
    ELSE LET fc == pdu[1]
             p == From(pdu, 2)
         IN CASE is_exception_response(fc) -> ExceptionResponse_decode(fc, p)
              [] fc = 1 -> ReadCoilsResponse_decode(p)
              [] fc = 2 -> ReadDiscreteInputsResponse_decode(p)
              [] fc = 3 -> ReadHoldingRegistersResponse_decode(p)
              [] fc = 4 -> ReadInputRegistersResponse_decode(p)
              [] fc = 5 -> WriteSingleCoilResponse_decode(p)
              [] fc = 6 -> WriteSingleRegisterResponse_decode(p)
              [] fc = 7 -> ReadExceptionStatusResponse_decode(p)
              [] fc = 8 -> DiagnosticsResponse_decode(p)
              [] fc = 11 -> GetCommEventCounterResponse_decode(p)
              [] fc = 12 -> GetCommEventLogResponse_decode(p)
              [] fc = 15 -> WriteMultipleCoilsResponse_decode(p)
              [] fc = 16 -> WriteMultipleRegistersResponse_decode(p)
              [] fc = 17 -> ReportServerIdResponse_decode(p)
              [] fc = 20 -> ReadFileRecordResponse_decode(p)
              [] fc = 21 -> WriteFileRecordResponse_decode(p)
              [] fc = 22 -> MaskWriteRegisterResponse_decode(p)
              [] fc = 23 -> ReadWriteMultipleRegistersResponse_decode(p)
              [] fc = 24 -> ReadFifoQueueResponse_decode(p)
              [] fc = 43 -> EncapsulatedInterfaceResponse_decode(p)
              [] fc = 0 -> Fail("Codec")
              [] OTHER -> Ok([fc |-> fc, payload |-> p])
-----------------------------------------------------------------------------
(* The owned decoders, over the whole PDU.  The bit reads, diagnostics and *)
(* the server id are decoded a second time; the others ask the codec and   *)
(* then slice the shared buffer at an offset of their own.                 *)
pdu_data(pdu) == From(pdu, 2)

owned_run(pdu) ==
    Checked(pdu_data(pdu) # <<>> /\ Len(pdu) - 2 = pdu[2], "Codec",
            [fc |-> pdu[1], payload |-> SubSeq(pdu, 3, pdu[2] + 2)])

owned_slice(decoded, pdu, first) ==
    IF decoded.ok THEN Ok([fc |-> pdu[1], payload |-> SubSeq(pdu, first, first + Len(decoded.val.payload) - 1)])
    ELSE decoded

OwnedReadCoilsResponse(pdu) == owned_run(pdu)

OwnedReadDiscreteInputsResponse(pdu) == owned_run(pdu)

OwnedReadHoldingRegistersResponse(pdu) ==
    owned_slice(ReadHoldingRegistersResponse_decode(pdu_data(pdu)), pdu, 3)

OwnedReadInputRegistersResponse(pdu) ==
    owned_slice(ReadInputRegistersResponse_decode(pdu_data(pdu)), pdu, 3)

OwnedReadWriteMultipleRegistersResponse(pdu) ==
    owned_slice(ReadWriteMultipleRegistersResponse_decode(pdu_data(pdu)), pdu, 3)

OwnedReadFifoQueueResponse(pdu) == owned_slice(ReadFifoQueueResponse_decode(pdu_data(pdu)), pdu, 6)

OwnedReadFileRecordResponse(pdu) == owned_slice(ReadFileRecordResponse_decode(pdu_data(pdu)), pdu, 3)

OwnedWriteFileRecordResponse(pdu) == owned_slice(WriteFileRecordResponse_decode(pdu_data(pdu)), pdu, 3)

OwnedDiagnosticsResponse_any_length(pdu) ==
    Checked(Len(pdu) >= 3 /\ be16(pdu, 2) \in DiagnosticSubFunctions, "Codec",
            [fc |-> pdu[1], sub_function |-> be16(pdu, 2), payload |-> From(pdu, 4)])

OwnedDiagnosticsResponse(pdu) ==
    Checked(/\ Len(pdu) >= 3
            /\ be16(pdu, 2) \in DiagnosticSubFunctions
            /\ (Len(pdu) - 3) % 2 = 0, "Codec",
            [fc |-> pdu[1], sub_function |-> be16(pdu, 2), payload |-> From(pdu, 4)])

(* Three words and the events, the latter sliced from offset 8. *)
owned_log(decoded, pdu) ==
    IF decoded.ok
    THEN Ok([fc |-> pdu[1], payload |-> SubSeq(decoded.val.payload, 1, 6)
                                         \o SubSeq(pdu, 9, 2 + Len(decoded.val.payload))])
    ELSE decoded

OwnedGetCommEventLogResponse(pdu) == owned_log(GetCommEventLogResponse_decode(pdu_data(pdu)), pdu)

OwnedReportServerIdResponse(pdu) == owned_run(pdu)

owned_mei(decoded, pdu) ==
    IF decoded.ok THEN Ok([fc |-> pdu[1], mei_type |-> decoded.val.mei_type, payload |-> From(pdu, 3)])
    ELSE decoded

OwnedEncapsulatedInterfaceResponse(pdu) == owned_mei(EncapsulatedInterfaceResponse_decode(pdu_data(pdu)), pdu)

(* OwnedResponsePdu::from_pdu: unlike decode_response it sets no limit on  *)
(* the length and takes function code zero for the vendor's.               *)
OwnedResponsePdu_from_pdu(pdu) ==
    IF pdu = <<>> THEN Fail("Codec")
    ELSE LET fc == pdu[1]
             p == pdu_data(pdu)
         IN CASE is_exception_response(fc) -> ExceptionResponse_decode(fc, p)
              [] fc = 1 -> OwnedReadCoilsResponse(pdu)
              [] fc = 2 -> OwnedReadDiscreteInputsResponse(pdu)
              [] fc = 3 -> OwnedReadHoldingRegistersResponse(pdu)
              [] fc = 4 -> OwnedReadInputRegistersResponse(pdu)
              [] fc = 5 -> WriteSingleCoilResponse_decode(p)
              [] fc = 6 -> WriteSingleRegisterResponse_decode(p)
              [] fc = 7 -> ReadExceptionStatusResponse_decode(p)
              [] fc = 8 -> OwnedDiagnosticsResponse(pdu)
              [] fc = 11 -> GetCommEventCounterResponse_decode(p)
              [] fc = 12 -> OwnedGetCommEventLogResponse(pdu)
              [] fc = 15 -> WriteMultipleCoilsResponse_decode(p)
              [] fc = 16 -> WriteMultipleRegistersResponse_decode(p)
              [] fc = 17 -> OwnedReportServerIdResponse(pdu)
              [] fc = 20 -> OwnedReadFileRecordResponse(pdu)
              [] fc = 21 -> OwnedWriteFileRecordResponse(pdu)
              [] fc = 22 -> MaskWriteRegisterResponse_decode(p)
              [] fc = 23 -> OwnedReadWriteMultipleRegistersResponse(pdu)
              [] fc = 24 -> OwnedReadFifoQueueResponse(pdu)
              [] fc = 43 -> OwnedEncapsulatedInterfaceResponse(pdu)
              [] OTHER -> Ok([fc |-> fc, payload |-> p])
=============================================================================

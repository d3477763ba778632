---------------------------- MODULE RequestPdu ----------------------------
(***************************************************************************)
(* The request half of the PDU codec (rusty-modbus-codec/src/request and   *)
(* decode_request).  A decoder takes the octets that follow the function   *)
(* code and yields the request as a record, or the class of its error:     *)
(* "Function" (UnknownFunctionCode, UnknownDiagnosticSubFunction),         *)
(* "Address" (InvalidReferenceType, FileRecordOutOfRange) or "Value" (all  *)
(* the others), which is all that the server tells apart.  An encoder      *)
(* yields the whole PDU or fails with "Encode"; its callers size their     *)
(* buffers by the protocol limit, so BufferTooSmall needs no case.         *)
(***************************************************************************)
EXTENDS Bytes

MAX_PDU_SIZE == 253
MAX_READ_BITS == 2000
MAX_READ_REGISTERS == 125
MAX_WRITE_COILS == 1968
MAX_WRITE_REGISTERS == 123
MAX_RW_WRITE_REGISTERS == 121
MAX_FIFO_VALUES == 31

(* FunctionCode::from_raw: zero and the exception range name no function;  *)
(* whatever is not public is the vendor's, Custom.                         *)
public_codes == {1, 2, 3, 4, 5, 6, 7, 8, 11, 12, 15, 16, 17, 20, 21, 22, 23, 24, 43}

is_exception_response(fc) == fc >= 128

check_exact_len(p, n) == Len(p) = n

check_quantity(n, max) == n \in 1..max

encoded(valid, pdu) == Checked(valid /\ Len(pdu) <= MAX_PDU_SIZE, "Encode", pdu)
-----------------------------------------------------------------------------
(* Reads of a run of bits or registers: address and quantity. *)
span_decode(fc, max, p) ==
    Checked(check_exact_len(p, 4) /\ check_quantity(be16(p, 3), max), "Value",
            [fc |-> fc, address |-> be16(p, 1), quantity |-> be16(p, 3)])

span_encode(fc, max, address, quantity) ==
    encoded(check_quantity(quantity, max), <<fc>> \o to_be(address) \o to_be(quantity))

ReadCoilsRequest_decode(p) == span_decode(1, MAX_READ_BITS, p)

ReadCoilsRequest_encode(address, quantity) == span_encode(1, MAX_READ_BITS, address, quantity)

ReadDiscreteInputsRequest_decode(p) == span_decode(2, MAX_READ_BITS, p)

ReadDiscreteInputsRequest_encode(address, quantity) == span_encode(2, MAX_READ_BITS, address, quantity)

ReadHoldingRegistersRequest_decode(p) == span_decode(3, MAX_READ_REGISTERS, p)

ReadHoldingRegistersRequest_encode(address, quantity) ==
    span_encode(3, MAX_READ_REGISTERS, address, quantity)

ReadInputRegistersRequest_decode(p) == span_decode(4, MAX_READ_REGISTERS, p)

ReadInputRegistersRequest_encode(address, quantity) ==
    span_encode(4, MAX_READ_REGISTERS, address, quantity)
-----------------------------------------------------------------------------
(* Writes.  A single coil travels as 0xFF00 or 0x0000 and nothing else. *)
CoilValue_to_wire(bit) == bit * 65280

CoilValue_from_wire(w) == w \div 65280

WriteSingleCoilRequest_decode(p) ==
    Checked(check_exact_len(p, 4) /\ be16(p, 3) \in {0, 65280}, "Value",
            [fc |-> 5, address |-> be16(p, 1), value |-> CoilValue_from_wire(be16(p, 3))])

WriteSingleCoilRequest_encode(address, bit) ==
    encoded(TRUE, <<5>> \o to_be(address) \o to_be(CoilValue_to_wire(bit)))

WriteSingleRegisterRequest_decode(p) ==
    Checked(check_exact_len(p, 4), "Value",
            [fc |-> 6, address |-> be16(p, 1), value |-> be16(p, 3)])

WriteSingleRegisterRequest_encode(address, word) ==
    encoded(TRUE, <<6>> \o to_be(address) \o to_be(word))

(* Address, quantity, byte count and the values, each checked against the  *)
(* others; the quantity takes size octets.                                 *)
values_decode(fc, max, size, p) ==
    Checked(/\ Len(p) >= 5
            /\ check_quantity(be16(p, 3), max)
            /\ p[5] = size
            /\ p[5] = Len(p) - 5, "Value",
            [fc |-> fc, address |-> be16(p, 1), quantity |-> be16(p, 3), values |-> From(p, 6)])

values_encode(fc, max, size, address, quantity, values) ==
    encoded(check_quantity(quantity, max) /\ Len(values) = size,
            <<fc>> \o to_be(address) \o to_be(quantity) \o <<Len(values)>> \o values)

WriteMultipleCoilsRequest_decode(p) ==
    values_decode(15, MAX_WRITE_COILS, packed_len(be16(p, 3)), p)

WriteMultipleCoilsRequest_encode(address, quantity, values) ==
    values_encode(15, MAX_WRITE_COILS, packed_len(quantity), address, quantity, values)

WriteMultipleRegistersRequest_decode(p) ==
    values_decode(16, MAX_WRITE_REGISTERS, 2 * be16(p, 3), p)

WriteMultipleRegistersRequest_encode(address, quantity, values) ==
    values_encode(16, MAX_WRITE_REGISTERS, 2 * quantity, address, quantity, values)

MaskWriteRegisterRequest_decode(p) ==
    Checked(check_exact_len(p, 6), "Value",
            [fc |-> 22, address |-> be16(p, 1), and_mask |-> be16(p, 3), or_mask |-> be16(p, 5)])

MaskWriteRegisterRequest_encode(address, and_mask, or_mask) ==
    encoded(TRUE, <<22>> \o to_be(address) \o to_be(and_mask) \o to_be(or_mask))

ReadWriteMultipleRegistersRequest_decode(p) ==
    Checked(/\ Len(p) >= 9
            /\ check_quantity(be16(p, 3), MAX_READ_REGISTERS)
            /\ check_quantity(be16(p, 7), MAX_RW_WRITE_REGISTERS)
            /\ p[9] = 2 * be16(p, 7)
            /\ p[9] = Len(p) - 9, "Value",
            [fc |-> 23, address |-> be16(p, 1), quantity |-> be16(p, 3),
             write_address |-> be16(p, 5), write_quantity |-> be16(p, 7), values |-> From(p, 10)])

ReadWriteMultipleRegistersRequest_encode(address, quantity, write_address, write_quantity, values) ==
    encoded(/\ check_quantity(quantity, MAX_READ_REGISTERS)
            /\ check_quantity(write_quantity, MAX_RW_WRITE_REGISTERS)
            /\ Len(values) = 2 * write_quantity,
            <<23>> \o to_be(address) \o to_be(quantity) \o to_be(write_address)
              \o to_be(write_quantity) \o <<Len(values)>> \o values)
-----------------------------------------------------------------------------
(* File records.  A sub-request names a run of records of one file; in a   *)
(* write request the words follow it.                                      *)
REFERENCE_TYPE == 6
RECORD_COUNT == 10000

check_file_record_range(file, record, length) ==
    file >= 1 /\ length # 0 /\ record < RECORD_COUNT /\ record + length <= RECORD_COUNT

FileSubRequest_decode(p) ==
    IF ~check_exact_len(p, 7) THEN Fail("Value")
    ELSE Checked(p[1] = REFERENCE_TYPE /\ check_file_record_range(be16(p, 2), be16(p, 4), be16(p, 6)),
                 "Address",
                 [file |-> be16(p, 2), record |-> be16(p, 4), length |-> be16(p, 6)])

validate_file_sub_request_encode(p) == FileSubRequest_decode(p).ok

(* The k-th sub-request of a read. *)
sub_request(p, k) == SubSeq(p, 7 * k - 6, 7 * k)

first_failure(results) ==
    LET bad == {i \in DOMAIN results : ~results[i].ok}
    IN  IF bad = {} THEN Ok(<<>>) ELSE results[Min(bad)]

validate_read_file_sub_requests(p) ==
    IF Len(p) % 7 # 0 THEN Fail("Value")
    ELSE first_failure([k \in 1..Len(p) \div 7 |-> FileSubRequest_decode(sub_request(p, k))])

validate_read_file_sub_requests_encode(p) ==
    Len(p) % 7 = 0 /\ \A k \in 1..Len(p) \div 7 : validate_file_sub_request_encode(sub_request(p, k))

(* Groups of seven octets, each followed by the words it announces.        *)
write_group_size(p, i) == IF i + 6 > Len(p) THEN 7 ELSE 7 + 2 * be16(p, i + 5)

write_group_starts(p) == group_starts(p, LAMBDA i : write_group_size(p, i))

validate_write_file_sub_requests(p) ==
    LET starts == write_group_starts(p)
        sub(i) == FileSubRequest_decode(SubSeq(p, i, i + 6))
    IN  first_failure([k \in DOMAIN starts |->
            CASE starts[k] + 6 > Len(p) -> Fail("Value")
              [] starts[k] + 6 <= Len(p) /\ ~sub(starts[k]).ok -> sub(starts[k])
              [] OTHER -> Checked(starts[k] + write_group_size(p, starts[k]) <= Len(p) + 1, "Value", <<>>)])

validate_write_file_sub_requests_encode(p) == validate_write_file_sub_requests(p).ok

(* A byte count within limits that equals what follows, then the groups.   *)
counted_decode(fc, least, most, groups, p) ==
    IF ~(p # <<>> /\ p[1] \in least..most /\ p[1] = Len(p) - 1) THEN Fail("Value")
    ELSE IF groups.ok THEN Ok([fc |-> fc, payload |-> From(p, 2)]) ELSE groups

counted_encode(fc, least, most, valid, payload) ==
    encoded(Len(payload) \in least..most /\ valid, <<fc, Len(payload)>> \o payload)

ReadFileRecordRequest_decode(p) ==
    counted_decode(20, 7, 245, validate_read_file_sub_requests(From(p, 2)), p)

ReadFileRecordRequest_encode(groups) ==
    counted_encode(20, 7, 245, validate_read_file_sub_requests_encode(groups), groups)

WriteFileRecordRequest_decode(p) ==
    counted_decode(21, 9, 251, validate_write_file_sub_requests(From(p, 2)), p)

WriteFileRecordRequest_encode(groups) ==
    counted_encode(21, 9, 251, validate_write_file_sub_requests_encode(groups), groups)
-----------------------------------------------------------------------------
(* Diagnostics, the encapsulated interface, device identification, FIFO. *)
DiagnosticSubFunctions == 0..4 \union 10..18 \union {20}

check_diagnostic_data_len(p) == Len(p) % 2 = 0

DiagnosticsRequest_decode(p) ==
    IF Len(p) < 2 THEN Fail("Value")
    ELSE IF be16(p, 1) \notin DiagnosticSubFunctions THEN Fail("Function")
    ELSE Checked(check_diagnostic_data_len(From(p, 3)), "Value",
                 [fc |-> 8, sub_function |-> be16(p, 1), payload |-> From(p, 3)])

DiagnosticsRequest_encode(sub_function, payload) ==
    encoded(check_diagnostic_data_len(payload), <<8>> \o to_be(sub_function) \o payload)

MeiTypes == {13, 14}
READ_DEVICE_ID == 14
DeviceIdCodes == 1..4

EncapsulatedInterfaceRequest_decode(p) ==
    Checked(/\ p # <<>> /\ p[1] \in MeiTypes
            /\ p[1] = READ_DEVICE_ID => Len(p) = 3 /\ p[2] \in DeviceIdCodes, "Value",
            [fc |-> 43, mei_type |-> p[1], payload |-> From(p, 2)])

EncapsulatedInterfaceRequest_encode(mei_type, payload) ==
    encoded(TRUE, <<43, mei_type>> \o payload)

ReadDeviceIdentificationRequest_encode(code, object_id) ==
    encoded(TRUE, <<43, READ_DEVICE_ID, code, object_id>>)

ReadFifoQueueRequest_decode(p) ==
    Checked(check_exact_len(p, 2), "Value", [fc |-> 24, address |-> be16(p, 1)])

ReadFifoQueueRequest_encode(address) == encoded(TRUE, <<24>> \o to_be(address))

(* A request that is its function code and nothing else. *)
bare_decode(fc, p) == Checked(check_exact_len(p, 0), "Value", [fc |-> fc])
-----------------------------------------------------------------------------
(* decode_pdu_ref and decode_request. *)
decode_pdu_ref(pdu) == Len(pdu) \in 1..MAX_PDU_SIZE

decode_request(pdu) ==
    IF ~decode_pdu_ref(pdu) THEN Fail("Value")
    ELSE LET fc == pdu[1]
             p == From(pdu, 2)
         IN CASE fc = 1 -> ReadCoilsRequest_decode(p)
              [] fc = 2 -> ReadDiscreteInputsRequest_decode(p)
              [] fc = 3 -> ReadHoldingRegistersRequest_decode(p)
              [] fc = 4 -> ReadInputRegistersRequest_decode(p)
              [] fc = 5 -> WriteSingleCoilRequest_decode(p)
              [] fc = 6 -> WriteSingleRegisterRequest_decode(p)
              [] fc = 8 -> DiagnosticsRequest_decode(p)
              [] fc = 15 -> WriteMultipleCoilsRequest_decode(p)
              [] fc = 16 -> WriteMultipleRegistersRequest_decode(p)
              [] fc = 20 -> ReadFileRecordRequest_decode(p)
              [] fc = 21 -> WriteFileRecordRequest_decode(p)
              [] fc = 22 -> MaskWriteRegisterRequest_decode(p)
              [] fc = 23 -> ReadWriteMultipleRegistersRequest_decode(p)
              [] fc = 24 -> ReadFifoQueueRequest_decode(p)
              [] fc = 43 -> EncapsulatedInterfaceRequest_decode(p)
              [] fc \in {7, 11, 12, 17} -> bare_decode(fc, p)
              [] fc \in (1..127) \ public_codes -> Ok([fc |-> fc, payload |-> p])
              [] OTHER -> Fail("Function")
=============================================================================

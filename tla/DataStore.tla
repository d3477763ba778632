----------------------------- MODULE DataStore -----------------------------
(***************************************************************************)
(* The data a server serves: the DataStore trait with its default          *)
(* adapters, the packed BitTable and the InMemoryStore                     *)
(* (rusty-modbus-server/src/store).  A call returns its exception code, 0  *)
(* for none, the values it read, and the store after it.  InMemoryStore    *)
(* takes one lock per call, so a call is one step.                         *)
(*                                                                         *)
(* A store is [kind, fault, mem].  Kind "memory" is InMemoryStore.  Kind   *)
(* "plain" is a store of the embedding program that implements the plain   *)
(* methods over the same tables and inherits every packed method; its call *)
(* may fail, or return too few or too many values, as `fault` says.        *)
(***************************************************************************)
EXTENDS RequestPdu, Bitwise, TLC

MAX_FILE_RECORD_REGISTERS == 122
MAX_COMM_EVENT_LOG_EVENTS == 64
MAX_DIAGNOSTIC_RESPONSE_DATA_LEN == MAX_PDU_SIZE - 3
MAX_SERVER_ID_BYTES == MAX_PDU_SIZE - 2

IllegalFunction == 1
IllegalDataAddress == 2
IllegalDataValue == 3
ServerDeviceFailure == 4

(* Ok(None) of a diagnostic: the request gets no reply. *)
Silent == 256

done(mem, out) == [ec |-> 0, count |-> Len(out), out |-> out, mem |-> mem]

refused(mem, ec) == [ec |-> ec, count |-> 0, out |-> <<>>, mem |-> mem]

(* The values in the form they have on the wire; the count stays. *)
packed(answer, form(_)) == IF answer.ec = 0 THEN [answer EXCEPT !.out = form(@)] ELSE answer

when(holds, ec, mem, answer) == IF holds THEN answer ELSE refused(mem, ec)
-----------------------------------------------------------------------------
(* BitTable: bit i is bit i % 8 of octet i \div 8. *)
low_bit_mask(v, n) == v % 2 ^ n

overlay(octet, shift, n, v) ==
    octet - low_bit_mask(octet \div 2 ^ shift, n) * 2 ^ shift + v * 2 ^ shift

BitTable_new(len) == [len |-> len, bytes |-> [i \in 1..packed_len(len) |-> 0]]

BitTable_set(t, index, bit) ==
    [t EXCEPT !.bytes[index \div 8 + 1] = overlay(@, index % 8, 1, bit)]

(* One octet gathered from at most two neighbours of the table. *)
read_byte_bits(t, start, n) ==
    LET i == start \div 8 + 1
        shift == start % 8
        next == IF shift # 0 /\ i < Len(t.bytes) THEN (t.bytes[i + 1] * 2 ^ (8 - shift)) % 256 ELSE 0
    IN  low_bit_mask(t.bytes[i] \div 2 ^ shift + next, n)

write_byte_bits_forgets_next(t, start, value, n) ==
    LET i == start \div 8 + 1
        shift == start % 8
    IN  [t EXCEPT !.bytes[i] = overlay(@, shift, Min({n, 8 - shift}), low_bit_mask(value, Min({n, 8 - shift})))]

write_byte_bits(t, start, value, n) ==
    LET i == start \div 8 + 1
        shift == start % 8
        v == low_bit_mask(value, n)
        low == 8 - shift
    IN  IF shift + n <= 8 THEN [t EXCEPT !.bytes[i] = overlay(@, shift, n, v)]
        ELSE [t EXCEPT !.bytes[i] = overlay(@, shift, low, low_bit_mask(v, low)),
                       !.bytes[i + 1] = overlay(@, 0, n - low, v \div 2 ^ low)]

(* How many of n bits travel in the k-th octet. *)
bit_count(n, k) == Min({8, n - 8 * (k - 1)})

check_range(address, quantity, len) == address + quantity <= len

BitTable_read_bits(t, address, n) ==
    [i \in 1..n |->
        LET k == (i + 7) \div 8
        IN  (read_byte_bits(t, address + 8 * (k - 1), bit_count(n, k)) \div 2 ^ ((i - 1) % 8)) % 2]

BitTable_read_packed(t, address, n) ==
    [k \in 1..packed_len(n) |-> read_byte_bits(t, address + 8 * (k - 1), bit_count(n, k))]

BitTable_write_packed(t, address, n, p) ==
    LET upto[k \in 0..Len(p)] ==
            IF k = 0 THEN t
            ELSE write_byte_bits(upto[k - 1], address + 8 * (k - 1), p[k], bit_count(n, k))
    IN  upto[Len(p)]

BitTable_write_bits(t, address, bits) == BitTable_write_packed(t, address, Len(bits), pack(bits))
-----------------------------------------------------------------------------
(* Runs of registers and of file records. *)
slice(words, address, n) == SubSeq(words, address + 1, address + n)

splice(words, address, new) ==
    [i \in DOMAIN words |-> IF i - address \in DOMAIN new THEN new[i - address] ELSE words[i]]

resize(words, n) == words \o [i \in 1..n - Len(words) |-> 0]

file_of(mem, file) == IF file \in DOMAIN mem.files THEN mem.files[file] ELSE <<>>

validate_range(file, record, length) ==
    file >= 1 /\ length # 0 /\ record < RECORD_COUNT /\ record + length <= RECORD_COUNT
-----------------------------------------------------------------------------
(* InMemoryStore: the tables at start, and the setters the embedding       *)
(* program calls beside the server's traffic.                              *)
InMemoryStore_new(config) ==
    [coils |-> BitTable_new(config.coils), discrete |-> BitTable_new(config.discrete),
     holding |-> resize(<<>>, config.holding), input |-> resize(<<>>, config.input),
     files |-> <<>>, fifos |-> <<>>, status |-> 0,
     server_id |-> <<114, 117, 115, 116, 121, 45, 109, 111, 100, 98, 117, 115, 255>>,
     log |-> [status |-> 0, event_count |-> 0, message_count |-> 0, events |-> <<>>]]

check_setup_address(address, len) == address < len

set_coil(mem, address, bit) ==
    IF check_setup_address(address, mem.coils.len)
    THEN [mem EXCEPT !.coils = BitTable_set(@, address, bit)] ELSE mem

set_discrete_input(mem, address, bit) ==
    IF check_setup_address(address, mem.discrete.len)
    THEN [mem EXCEPT !.discrete = BitTable_set(@, address, bit)] ELSE mem

set_holding_register(mem, address, word) ==
    IF check_setup_address(address, Len(mem.holding))
    THEN [mem EXCEPT !.holding[address + 1] = word] ELSE mem

set_input_register(mem, address, word) ==
    IF check_setup_address(address, Len(mem.input))
    THEN [mem EXCEPT !.input[address + 1] = word] ELSE mem

check_setup_file_record(file, record) == file >= 1 /\ record < RECORD_COUNT

set_file_record(mem, file, record, word) ==
    IF check_setup_file_record(file, record)
    THEN [mem EXCEPT !.files = (file :> splice(resize(file_of(mem, file), record + 1), record, <<word>>)) @@ @]
    ELSE mem

set_fifo_queue(mem, address, words) == [mem EXCEPT !.fifos = (address :> words) @@ @]

set_exception_status(mem, octet) == [mem EXCEPT !.status = octet]

set_server_id(mem, octets) == [mem EXCEPT !.server_id = octets]
-----------------------------------------------------------------------------
(* InMemoryStore: the plain methods. *)
InMemoryStore_read_coils(mem, address, n) ==
    when(check_range(address, n, mem.coils.len), IllegalDataAddress, mem,
         done(mem, BitTable_read_bits(mem.coils, address, n)))

InMemoryStore_write_coil(mem, address, bit) ==
    when(check_range(address, 1, mem.coils.len), IllegalDataAddress, mem,
         done([mem EXCEPT !.coils = BitTable_set(@, address, bit)], <<>>))

InMemoryStore_write_coils(mem, address, bits) ==
    when(check_range(address, Len(bits), mem.coils.len), IllegalDataAddress, mem,
         done([mem EXCEPT !.coils = BitTable_write_bits(@, address, bits)], <<>>))

InMemoryStore_read_discrete_inputs(mem, address, n) ==
    when(check_range(address, n, mem.discrete.len), IllegalDataAddress, mem,
         done(mem, BitTable_read_bits(mem.discrete, address, n)))

InMemoryStore_read_holding_registers(mem, address, n) ==
    when(check_range(address, n, Len(mem.holding)), IllegalDataAddress, mem,
         done(mem, slice(mem.holding, address, n)))

InMemoryStore_write_register(mem, address, word) ==
    when(check_range(address, 1, Len(mem.holding)), IllegalDataAddress, mem,
         done([mem EXCEPT !.holding[address + 1] = word], <<>>))

InMemoryStore_write_registers(mem, address, words) ==
    when(check_range(address, Len(words), Len(mem.holding)), IllegalDataAddress, mem,
         done([mem EXCEPT !.holding = splice(@, address, words)], <<>>))

InMemoryStore_read_input_registers(mem, address, n) ==
    when(check_range(address, n, Len(mem.input)), IllegalDataAddress, mem,
         done(mem, slice(mem.input, address, n)))

InMemoryStore_read_file_record(mem, file, record, n) ==
    when(/\ validate_range(file, record, n)
         /\ record + n <= Len(file_of(mem, file))
         /\ n <= MAX_FILE_RECORD_REGISTERS, IllegalDataAddress, mem,
         done(mem, slice(file_of(mem, file), record, n)))

InMemoryStore_write_file_record(mem, file, record, words) ==
    when(validate_range(file, record, Len(words)), IllegalDataAddress, mem,
         done([mem EXCEPT !.files =
                 (file :> splice(resize(file_of(mem, file), record + Len(words)), record, words)) @@ @], <<>>))

InMemoryStore_read_fifo_queue(mem, address) ==
    when(address \in DOMAIN mem.fifos, IllegalDataAddress, mem, done(mem, mem.fifos[address]))

InMemoryStore_read_exception_status(mem) == done(mem, <<mem.status>>)

InMemoryStore_report_server_id(mem) == done(mem, mem.server_id)
-----------------------------------------------------------------------------
(* InMemoryStore: the packed methods it overrides, which move octets       *)
(* between the wire and the tables without an intermediate buffer.         *)
validate_packed_coils(n, p) == check_quantity(n, MAX_WRITE_COILS) /\ Len(p) = packed_len(n)

validate_register_values_be(n, p) == check_quantity(n, MAX_WRITE_REGISTERS) /\ Len(p) = 2 * n

pack_registers_be(answer) == packed(answer, octets_of)

InMemoryStore_read_coils_packed(mem, address, n) ==
    when(check_range(address, n, mem.coils.len), IllegalDataAddress, mem,
         [done(mem, BitTable_read_packed(mem.coils, address, n)) EXCEPT !.count = n])

InMemoryStore_write_coils_packed(mem, address, n, p) ==
    when(validate_packed_coils(n, p), IllegalDataValue, mem,
    when(check_range(address, n, mem.coils.len), IllegalDataAddress, mem,
         done([mem EXCEPT !.coils = BitTable_write_packed(@, address, n, p)], <<>>)))

InMemoryStore_read_discrete_inputs_packed(mem, address, n) ==
    when(check_range(address, n, mem.discrete.len), IllegalDataAddress, mem,
         [done(mem, BitTable_read_packed(mem.discrete, address, n)) EXCEPT !.count = n])

InMemoryStore_read_holding_registers_be(mem, address, n) ==
    pack_registers_be(InMemoryStore_read_holding_registers(mem, address, n))

InMemoryStore_write_registers_be(mem, address, n, p) ==
    when(validate_register_values_be(n, p), IllegalDataValue, mem,
    when(check_range(address, n, Len(mem.holding)), IllegalDataAddress, mem,
         done([mem EXCEPT !.holding = splice(@, address, words_of(p))], <<>>)))

InMemoryStore_atomic_mask_write_register(mem, address, and_mask, or_mask) ==
    when(check_range(address, 1, Len(mem.holding)), IllegalDataAddress, mem,
         done([mem EXCEPT !.holding[address + 1] = (@ & and_mask) | (or_mask & (65535 - and_mask))], <<>>))

validate_atomic_read_write_buffers(n, write_n, p) ==
    /\ check_quantity(n, MAX_READ_REGISTERS)
    /\ check_quantity(write_n, MAX_RW_WRITE_REGISTERS)
    /\ Len(p) = 2 * write_n

(* Both ranges are checked before the write, and the read sees the write. *)
InMemoryStore_atomic_read_write_registers_be(mem, address, n, write_address, write_n, p) ==
    LET written == splice(mem.holding, write_address, words_of(p))
    IN  when(validate_atomic_read_write_buffers(n, write_n, p), IllegalDataValue, mem,
        when(/\ check_range(write_address, write_n, Len(mem.holding))
             /\ check_range(address, n, Len(mem.holding)), IllegalDataAddress, mem,
             pack_registers_be(done([mem EXCEPT !.holding = written], slice(written, address, n)))))

InMemoryStore_read_input_registers_be(mem, address, n) ==
    pack_registers_be(InMemoryStore_read_input_registers(mem, address, n))

InMemoryStore_read_file_record_be(mem, file, record, n) ==
    when(/\ validate_range(file, record, n)
         /\ n <= MAX_FILE_RECORD_REGISTERS
         /\ record + n <= Len(file_of(mem, file)), IllegalDataAddress, mem,
         pack_registers_be(done(mem, slice(file_of(mem, file), record, n))))

InMemoryStore_write_file_record_be(mem, file, record, n, p) ==
    when(Len(p) = 2 * n, IllegalDataValue, mem,
    when(validate_range(file, record, n), IllegalDataAddress, mem,
         done([mem EXCEPT !.files =
                 (file :> splice(resize(file_of(mem, file), record + n), record, words_of(p))) @@ @], <<>>)))

InMemoryStore_read_fifo_queue_be(mem, address) ==
    when(address \in DOMAIN mem.fifos, IllegalDataAddress, mem,
    when(Len(mem.fifos[address]) <= MAX_FIFO_VALUES, IllegalDataValue, mem,
         pack_registers_be(done(mem, mem.fifos[address]))))

InMemoryStore_append_server_id(mem) ==
    when(Len(mem.server_id) <= MAX_SERVER_ID_BYTES, ServerDeviceFailure, mem, done(mem, mem.server_id))

RETURN_QUERY_DATA == 0

InMemoryStore_append_diagnostic_response(mem, sub_function, data) ==
    when(sub_function = RETURN_QUERY_DATA, IllegalFunction, mem,
    when(Len(data) <= MAX_DIAGNOSTIC_RESPONSE_DATA_LEN, ServerDeviceFailure, mem, done(mem, data)))
-----------------------------------------------------------------------------
(* What a store of kind "plain" does on its own account: its calls may     *)
(* fail as a whole or return a wrong number of values, it keeps an event   *)
(* log, and it knows two diagnostics and two vendor functions.             *)
Faults == {"none", "fails", "short", "long"}

plain(s, answer) == IF s.fault = "fails" THEN refused(s.mem, ServerDeviceFailure) ELSE answer

miscounted(s, answer) ==
    LET a == plain(s, answer)
    IN  CASE a.ec = 0 /\ s.fault = "short" ->
                 [a EXCEPT !.count = @ - 1, !.out = SubSeq(@, 1, a.count - 1)]
          [] a.ec = 0 /\ s.fault = "long" -> [a EXCEPT !.count = @ + 1]
          [] OTHER -> a

CLEAR_COUNTERS == 10
FORCE_LISTEN_ONLY == 4

plain_diagnostic(s, sub_function, data) ==
    plain(s, CASE sub_function = RETURN_QUERY_DATA -> done(s.mem, data)
               [] sub_function = CLEAR_COUNTERS ->
                    done([s.mem EXCEPT !.log.event_count = 0, !.log.message_count = 0], data)
               [] sub_function = FORCE_LISTEN_ONLY -> refused(s.mem, Silent)
               [] OTHER -> refused(s.mem, IllegalFunction))

plain_custom_function(s, fc, data) ==
    plain(s, CASE fc = 65 -> done(s.mem, data)
               [] fc = 66 -> done(s.mem, [i \in 1..MAX_PDU_SIZE |-> 0])
               [] OTHER -> refused(s.mem, IllegalFunction))
-----------------------------------------------------------------------------
(* DataStore: the default adapters of the trait. *)
at_most(n, answer) ==
    IF answer.ec = 0 /\ answer.count > n THEN refused(answer.mem, ServerDeviceFailure) ELSE answer

pack_coils(answer) == packed(answer, pack)

unpack_packed_coils(n, p) == unpack(p, n)

unpack_register_values_be(p) == words_of(p)

DataStore_read_coils_packed(s, address, n) ==
    pack_coils(at_most(n, miscounted(s, InMemoryStore_read_coils(s.mem, address, n))))

DataStore_write_coils_packed(s, address, n, p) ==
    when(validate_packed_coils(n, p), IllegalDataValue, s.mem,
         plain(s, InMemoryStore_write_coils(s.mem, address, unpack_packed_coils(n, p))))

DataStore_read_discrete_inputs_packed(s, address, n) ==
    pack_coils(at_most(n, miscounted(s, InMemoryStore_read_discrete_inputs(s.mem, address, n))))

DataStore_read_holding_registers_be(s, address, n) ==
    pack_registers_be(at_most(n, miscounted(s, InMemoryStore_read_holding_registers(s.mem, address, n))))

DataStore_write_registers_be(s, address, n, p) ==
    when(validate_register_values_be(n, p), IllegalDataValue, s.mem,
         plain(s, InMemoryStore_write_registers(s.mem, address, unpack_register_values_be(p))))

DataStore_atomic_mask_write_register(s) == refused(s.mem, IllegalFunction)

DataStore_atomic_read_write_registers_be(s) == refused(s.mem, IllegalFunction)

DataStore_read_input_registers_be(s, address, n) ==
    pack_registers_be(at_most(n, miscounted(s, InMemoryStore_read_input_registers(s.mem, address, n))))

DataStore_handle_custom_function(s) == refused(s.mem, IllegalFunction)

DataStore_read_file_record_be(s, file, record, n) ==
    pack_registers_be(at_most(n, miscounted(s, InMemoryStore_read_file_record(s.mem, file, record, n))))

DataStore_write_file_record_be(s, file, record, n, p) ==
    when(Len(p) = 2 * n, IllegalDataValue, s.mem,
         plain(s, InMemoryStore_write_file_record(s.mem, file, record, words_of(p))))

DataStore_read_fifo_queue_be(s, address) ==
    LET answer == plain(s, InMemoryStore_read_fifo_queue(s.mem, address))
    IN  when(answer.ec # 0 \/ Len(answer.out) <= MAX_FIFO_VALUES, IllegalDataValue, s.mem,
             pack_registers_be(answer))

DataStore_get_comm_event_counter(s) == refused(s.mem, IllegalFunction)

DataStore_get_comm_event_log(s) == refused(s.mem, IllegalFunction)

DataStore_append_comm_event_log(s) ==
    LET answer == plain(s, done(s.mem, s.mem.log.events))
    IN  when(answer.ec # 0 \/ Len(answer.out) <= MAX_COMM_EVENT_LOG_EVENTS, ServerDeviceFailure, s.mem, answer)

DataStore_append_server_id(s) ==
    LET answer == plain(s, InMemoryStore_report_server_id(s.mem))
    IN  when(answer.ec # 0 \/ Len(answer.out) <= MAX_SERVER_ID_BYTES, ServerDeviceFailure, s.mem, answer)

DataStore_append_diagnostic_response(s, sub_function, data) ==
    LET answer == plain_diagnostic(s, sub_function, data)
    IN  when(answer.ec # 0 \/ Len(answer.out) <= MAX_DIAGNOSTIC_RESPONSE_DATA_LEN, ServerDeviceFailure,
             answer.mem, answer)
=============================================================================

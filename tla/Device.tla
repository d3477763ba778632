------------------------------- MODULE Device -------------------------------
(***************************************************************************)
(* What a Modbus device promises to its callers, with no octet in sight:   *)
(* tables of bits and words, calls that are each carried out at one        *)
(* instant or rejected without a trace, and file transfers whose groups    *)
(* are carried out one by one, in order.  The embedding program may set    *)
(* cells at any time.                                                      *)
(*                                                                         *)
(* A plain store may fail any call before it has an effect; the store in   *)
(* memory may not.                                                         *)
(***************************************************************************)
EXTENDS Integers, Sequences, TLC

VARIABLES
    kind,       \* "memory" or "plain"
    identity,   \* object id -> value
    request,    \* caller -> its call
    data,       \* [coils, discrete, holding, input, files, fifos, status, server_id, log]
    progress,   \* caller -> groups of a file transfer carried out so far
    gathered,   \* caller -> words read by them
    outcome,    \* caller -> result, tag "none" until there is one
    setting     \* cells that the embedding program has still to set

dvars == <<kind, identity, request, data, progress, gathered, outcome, setting>>

Outcome(tag, code, values) == [tag |-> tag, code |-> code, data |-> values]

None == Outcome("none", 0, <<>>)

(* A run of n values from an address on, and its replacement. *)
InTable(table, address, n) == address + n <= Len(table)

Run(table, address, n) == [i \in 1..n |-> table[address + i]]

Replaced(table, address, new) ==
    [i \in 1..Len(table) |-> IF i > address /\ i <= address + Len(new) THEN new[i - address] ELSE table[i]]

(* Where the mask is set the register keeps its bit, elsewhere it takes    *)
(* the bit of the other mask.                                              *)
Bit(w, i) == (w \div 2 ^ i) % 2

Masked(word, and_mask, or_mask) ==
    LET bit(i) == IF Bit(and_mask, i) = 1 THEN Bit(word, i) ELSE Bit(or_mask, i)
        sum[i \in 0..16] == IF i = 0 THEN 0 ELSE sum[i - 1] + bit(i - 1) * 2 ^ (i - 1)
    IN  sum[16]

File(files, f) == IF f \in DOMAIN files THEN files[f] ELSE <<>>

(* A file written past its end grows; the gap is zero. *)
Written(files, f, record, words) ==
    LET old == File(files, f)
        size == IF Len(old) < record + Len(words) THEN record + Len(words) ELSE Len(old)
    IN  (f :> [i \in 1..size |-> CASE i > record /\ i <= record + Len(words) -> words[i - record]
                                   [] i <= Len(old) /\ ~(i > record /\ i <= record + Len(words)) -> old[i]
                                   [] OTHER -> 0]) @@ files

GroupValid(g) == g.file # 0 /\ g.length \in 1..10000 /\ g.record + g.length <= 10000

(* The octets that groups take with a header of the given size each. *)
Total(groups, header) ==
    LET sum[k \in 0..Len(groups)] == IF k = 0 THEN 0 ELSE sum[k - 1] + header + 2 * groups[k].length
    IN  sum[Len(groups)]
-----------------------------------------------------------------------------
(* Limits of the protocol, which a call must keep to be sent at all.  The  *)
(* groups of a transfer must also fit the 245 octets a caller may pass.    *)
Reads == {"read_coils", "read_discrete_inputs", "read_holding_registers", "read_holding_registers_raw",
          "read_input_registers", "read_write_multiple_registers", "read_file_record", "write_file_record",
          "read_fifo_queue", "read_device_identification"}

Legal(r) ==
    /\ ~(r.unit = 0 /\ r.op \in Reads)
    /\ CASE r.op \in {"read_coils", "read_discrete_inputs"} -> r.quantity \in 1..2000
         [] r.op \in {"read_holding_registers", "read_holding_registers_raw", "read_input_registers"} ->
              r.quantity \in 1..125
         [] r.op = "write_multiple_coils" -> Len(r.values) \in 1..1968
         [] r.op = "write_multiple_registers" -> Len(r.values) \in 1..123
         [] r.op = "read_write_multiple_registers" -> r.quantity \in 1..125 /\ Len(r.values) \in 1..121
         [] r.op = "read_file_record" ->
              /\ Len(r.groups) \in 1..35
              /\ \A k \in DOMAIN r.groups : GroupValid(r.groups[k])
         [] r.op = "write_file_record" ->
              /\ r.groups # <<>> /\ Total(r.groups, 7) <= 245
              /\ \A k \in DOMAIN r.groups : GroupValid(r.groups[k])
         [] r.op = "diagnostics" -> Len(r.values) % 2 = 0 /\ Len(r.values) <= 250
         [] OTHER -> TRUE

(* One instant of a call: its outcome and the data after it. *)
Effect(o, d) == [out |-> o, data |-> d]

Reject(code) == Effect(Outcome("exception", code, <<>>), data)

Give(values) == Effect(Outcome("ok", 0, values), data)

Change(new) == Effect(Outcome("ok", 0, <<>>), new)

Within(table, address, n, e) == IF InTable(table, address, n) THEN e ELSE Reject(2)

(* Only the store in memory exchanges words within one instant. *)
Addressable(address, n) == address + n <= 65536

Atomically(e) == IF kind = "memory" THEN e ELSE Reject(1)

Octets(words) == [i \in 1..2 * Len(words) |->
                    IF i % 2 = 1 THEN words[(i + 1) \div 2] \div 256 ELSE words[i \div 2] % 256]

Promise(r) ==
    CASE r.op = "read_coils" ->
           Within(data.coils, r.address, r.quantity, Give(Run(data.coils, r.address, r.quantity)))
      [] r.op = "read_discrete_inputs" ->
           Within(data.discrete, r.address, r.quantity, Give(Run(data.discrete, r.address, r.quantity)))
      [] r.op = "read_holding_registers" ->
           Within(data.holding, r.address, r.quantity, Give(Run(data.holding, r.address, r.quantity)))
      [] r.op = "read_holding_registers_raw" ->
           Within(data.holding, r.address, r.quantity, Give(Octets(Run(data.holding, r.address, r.quantity))))
      [] r.op = "read_input_registers" ->
           Within(data.input, r.address, r.quantity, Give(Run(data.input, r.address, r.quantity)))
      [] r.op \in {"write_single_coil", "write_multiple_coils"} ->
           Within(data.coils, r.address, Len(r.values),
                  Change([data EXCEPT !.coils = Replaced(@, r.address, r.values)]))
      [] r.op \in {"write_single_register", "write_multiple_registers"} ->
           Within(data.holding, r.address, Len(r.values),
                  Change([data EXCEPT !.holding = Replaced(@, r.address, r.values)]))
      [] r.op = "mask_write_register" -> Atomically(
           Within(data.holding, r.address, 1,
                  Change([data EXCEPT !.holding[r.address + 1] = Masked(@, r.values[1], r.values[2])])))
      [] r.op = "read_write_multiple_registers" ->
           IF ~(Addressable(r.address, r.quantity) /\ Addressable(r.write_address, Len(r.values))) THEN Reject(2)
           ELSE Atomically(
           Within(data.holding, r.write_address, Len(r.values),
           Within(data.holding, r.address, r.quantity,
                  LET new == Replaced(data.holding, r.write_address, r.values)
                  IN  Effect(Outcome("ok", 0, Run(new, r.address, r.quantity)),
                             [data EXCEPT !.holding = new]))))
      [] r.op = "read_fifo_queue" ->
           CASE r.address \notin DOMAIN data.fifos -> Reject(2)
             [] r.address \in DOMAIN data.fifos /\ Len(data.fifos[r.address]) > 31 -> Reject(3)
             [] OTHER -> Give(data.fifos[r.address])
      [] r.op = "read_device_identification" ->
           IF \E id \in 0..2 : Len(identity[id]) > 244 THEN Reject(4)
           ELSE Give(identity[0] \o <<256>> \o identity[1] \o <<256>> \o identity[2])
      [] r.op = "read_exception_status" -> Give(<<data.status>>)
      [] r.op = "report_server_id" -> IF Len(data.server_id) > 251 THEN Reject(4) ELSE Give(data.server_id)
      [] r.op = "get_comm_event_counter" ->
           IF kind = "memory" THEN Reject(1) ELSE Give(Octets(<<data.log.status, data.log.event_count>>))
      [] r.op = "get_comm_event_log" ->
           CASE kind = "memory" -> Reject(1)
             [] kind # "memory" /\ Len(data.log.events) > 64 -> Reject(4)
             [] OTHER -> Give(Octets(<<data.log.status, data.log.event_count, data.log.message_count>>)
                                \o data.log.events)
      [] r.op = "diagnostics" ->
           CASE r.quantity = 0 -> Give(r.values)
             [] r.quantity = 10 /\ kind # "memory" ->
                  Effect(Outcome("ok", 0, r.values),
                         [data EXCEPT !.log.event_count = 0, !.log.message_count = 0])
             [] r.quantity = 4 /\ kind # "memory" -> Effect(Outcome("timeout", 0, <<>>), data)
             [] OTHER -> Reject(1)
      [] r.op = "custom" ->
           CASE kind # "memory" /\ r.quantity = 65 -> Give(r.values)
             [] kind # "memory" /\ r.quantity = 66 -> Reject(4)
             [] OTHER -> Reject(1)
      [] r.op = "read_object" ->
           CASE r.address \notin DOMAIN identity -> Reject(2)
             [] r.address \in DOMAIN identity /\ Len(identity[r.address]) > 244 -> Reject(4)
             [] OTHER -> Give(identity[r.address])

(* Part of what a device may do is its own choice: which complaint it      *)
(* makes of a request that is not well formed, and how many of the objects *)
(* from the one asked for it reports at once, if it can report any.        *)
Streams(r) ==
    LET asked == {id \in DOMAIN identity : r.quantity = 1 => id \in 0..2}
        first == IF r.address \in asked THEN r.address ELSE 0
        upto(last) == SelectSeq([i \in 1..last - first + 1 |-> first + i - 1], LAMBDA id : id \in asked)
    IN  IF \E id \in asked : Len(identity[id]) > 244 THEN {Reject(4)}
        ELSE {Give(upto(last)) : last \in {id \in asked : id >= first}}

Storeless == {"malformed", "read_stream", "read_object", "read_device_identification"}

Promises(r) ==
    (CASE r.op = "malformed" ->
            {Reject(1), Reject(2), Reject(3), Effect(Outcome("invalid", 0, <<>>), data)}
       [] r.op = "read_stream" -> Streams(r)
       [] OTHER -> {Promise(r)})
    \union (IF kind = "plain" /\ r.op \notin Storeless THEN {Reject(4)} ELSE {})
-----------------------------------------------------------------------------
Transfers == {"read_file_record", "write_file_record"}

Settle(c, o) == outcome' = [outcome EXCEPT ![c] = o]

(* A call that keeps the limits takes effect; one that does not is refused.*)
CarryOut(c) ==
    LET r == request[c]
    IN  /\ outcome[c] = None
        /\ \/ /\ ~Legal(r)
              /\ Settle(c, Outcome("refused", 0, <<>>))
              /\ UNCHANGED data
           \/ /\ Legal(r) /\ r.op \notin Transfers
              /\ \E e \in Promises(r) :
                   /\ data' = e.data
                   /\ Settle(c, IF r.unit = 0 THEN Outcome("sent", 0, <<>>) ELSE e.out)
        /\ UNCHANGED <<kind, identity, request, progress, gathered, setting>>

(* A read of records stops at the first group that cannot be had or that   *)
(* does not fit the answer.                                                *)
ReadGroup(c) ==
    LET r == request[c]
        k == progress[c] + 1
        g == r.groups[k]
        have == File(data.files, g.file)
        fits == Total(SubSeq(r.groups, 1, k), 2) <= 250
        words == gathered[c] \o Run(have, g.record, g.length)
        stop(o) == Settle(c, o) /\ gathered' = [gathered EXCEPT ![c] = <<>>]
    IN  /\ outcome[c] = None /\ r.op = "read_file_record" /\ Legal(r)
        /\ \/ /\ ~InTable(have, g.record, g.length) \/ g.length > 122
              /\ stop(Outcome("exception", 2, <<>>)) /\ UNCHANGED progress
           \/ /\ kind = "plain"
              /\ stop(Outcome("exception", 4, <<>>)) /\ UNCHANGED progress
           \/ /\ InTable(have, g.record, g.length) /\ g.length <= 122 /\ ~fits
              /\ stop(Outcome("exception", 3, <<>>)) /\ UNCHANGED progress
           \/ /\ InTable(have, g.record, g.length) /\ g.length <= 122 /\ fits
              /\ progress' = [progress EXCEPT ![c] = k]
              /\ IF k = Len(r.groups) THEN stop(Outcome("ok", 0, words))
                 ELSE gathered' = [gathered EXCEPT ![c] = words] /\ UNCHANGED outcome
        /\ UNCHANGED <<kind, identity, request, data, setting>>

(* A write of records that has begun ends early only if the store fails.   *)
WriteGroup(c) ==
    LET r == request[c]
        k == progress[c] + 1
        g == r.groups[k]
    IN  /\ outcome[c] = None /\ r.op = "write_file_record" /\ Legal(r)
        /\ \/ /\ kind = "plain"
              /\ Settle(c, Outcome("exception", 4, <<>>))
              /\ UNCHANGED <<data, progress>>
           \/ /\ data' = [data EXCEPT !.files = Written(@, g.file, g.record, g.words)]
              /\ progress' = [progress EXCEPT ![c] = k]
              /\ IF k = Len(r.groups) THEN Settle(c, Outcome("ok", 0, <<>>)) ELSE UNCHANGED outcome
        /\ UNCHANGED <<kind, identity, request, gathered, setting>>

(* The embedding program sets one cell, if there is such a cell. *)
Assigned(s) ==
    CASE s.table \in {"coils", "discrete", "holding", "input"} ->
           IF s.address < Len(data[s.table]) THEN [data EXCEPT ![s.table][s.address + 1] = s.values[1]] ELSE data
      [] s.table = "files" ->
           IF s.address # 0 /\ s.values[1] < 10000
           THEN [data EXCEPT !.files = Written(@, s.address, s.values[1], <<s.values[2]>>)] ELSE data
      [] s.table = "fifos" -> [data EXCEPT !.fifos = (s.address :> s.values) @@ @]
      [] s.table = "status" -> [data EXCEPT !.status = s.values[1]]
      [] s.table = "server_id" -> [data EXCEPT !.server_id = s.values]

SetCell ==
    /\ setting # <<>>
    /\ data' = Assigned(Head(setting))
    /\ setting' = Tail(setting)
    /\ UNCHANGED <<kind, identity, request, progress, gathered, outcome>>

DInit ==
    /\ outcome = [c \in DOMAIN request |-> None]
    /\ progress = [c \in DOMAIN request |-> 0]
    /\ gathered = [c \in DOMAIN request |-> <<>>]

DNext ==
    \/ \E c \in DOMAIN request : CarryOut(c) \/ ReadGroup(c) \/ WriteGroup(c)
    \/ SetCell

DSpec == DInit /\ [][DNext]_dvars
=============================================================================

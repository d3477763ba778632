--------------------------- MODULE MCRequestPath ---------------------------
(***************************************************************************)
(* Scenes for RequestPath.  Small tables, so that callers meet on the same *)
(* bits and words, with every pair of a set of calls; and calls at the     *)
(* limits of the protocol on tables that are just large enough.            *)
(***************************************************************************)
EXTENDS RequestPath

CONSTANTS A, B

NoCall == [op |-> "read_exception_status", unit |-> 1, address |-> 0, quantity |-> 0,
           write_address |-> 0, values |-> <<>>, groups |-> <<>>]

Call(op, address, quantity, values) ==
    [NoCall EXCEPT !.op = op, !.address = address, !.quantity = quantity, !.values = values]

Exchange(address, n, write_address, values) ==
    [Call("read_write_multiple_registers", address, n, values) EXCEPT !.write_address = write_address]

Group(file, record, words) == [file |-> file, record |-> record, length |-> Len(words), words |-> words]

Span(file, record, n) == [file |-> file, record |-> record, length |-> n, words |-> <<>>]

Transfer(op, groups) == [NoCall EXCEPT !.op = op, !.groups = groups]

Broadcast(r) == [r EXCEPT !.unit = 0]

(* Ten coils over two octets, six inputs, three registers, a short file.   *)
Small ==
    [InMemoryStore_new([coils |-> 10, discrete |-> 6, holding |-> 3, input |-> 2]) EXCEPT
        !.coils.bytes = <<170, 1>>, !.discrete.bytes = <<37>>, !.holding = <<4660, 255, 65535>>, !.input = <<7, 256>>,
        !.files = (1 :> <<10, 11, 12>>), !.fifos = (4 :> <<513, 2>>),
        !.log = [status |-> 0, event_count |-> 258, message_count |-> 3, events |-> <<64, 0>>]]

Name == (0 :> <<65, 67>>) @@ (1 :> <<66>>) @@ (2 :> <<49>>) @@ (4 :> <<80>>)

SmallCalls ==
    {Call("read_coils", 1, 9, <<>>), Call("write_multiple_coils", 5, 0, <<1, 0, 1, 1, 1>>),
     Call("write_single_coil", 9, 0, <<1>>), Call("read_holding_registers", 0, 3, <<>>),
     Call("write_multiple_registers", 1, 0, <<1, 2>>), Call("mask_write_register", 1, 0, <<242, 37>>),
     Exchange(0, 3, 0, <<9, 8>>), Broadcast(Call("write_single_register", 1, 0, <<513>>)),
     Transfer("read_file_record", <<Span(1, 0, 2), Span(1, 1, 2)>>),
     Transfer("write_file_record", <<Group(1, 1, <<77>>), Group(1, 4, <<78, 79>>)>>)}

Small1 ==
    {Call("read_coils", 0, 11, <<>>), Call("read_discrete_inputs", 1, 5, <<>>), Call("read_discrete_inputs", 2, 5, <<>>),
     Call("read_coils", 0, 0, <<>>), Call("write_multiple_coils", 9, 0, <<1, 1>>), Call("write_single_coil", 10, 0, <<1>>),
     Broadcast(Call("read_coils", 0, 1, <<>>)), Broadcast(Call("write_multiple_coils", 6, 0, <<0, 1, 0>>)),
     Call("read_holding_registers_raw", 1, 2, <<>>), Call("read_input_registers", 0, 2, <<>>),
     Call("read_input_registers", 65535, 2, <<>>), Call("read_input_registers", 65535, 1, <<>>),
     Call("write_single_register", 2, 0, <<0>>), Call("write_single_register", 3, 0, <<0>>),
     Call("write_multiple_registers", 2, 0, <<1, 2>>), Call("write_multiple_registers", 65535, 0, <<1, 2>>),
     Broadcast(Call("mask_write_register", 0, 0, <<65280, 15>>)), Call("mask_write_register", 3, 0, <<0, 0>>),
     Exchange(1, 2, 2, <<5>>), Exchange(2, 2, 0, <<5>>), Exchange(0, 1, 3, <<5>>), Exchange(0, 1, 65535, <<5, 6>>),
     Transfer("read_file_record", <<Span(1, 0, 3), Span(2, 0, 1)>>), Transfer("read_file_record", <<Span(1, 9999, 2)>>),
     Transfer("read_file_record", <<Span(1, 0, 123)>>), Transfer("read_file_record", <<>>),
     Transfer("write_file_record", <<Group(2, 0, <<1>>), Group(2, 9999, <<3>>)>>),
     Transfer("write_file_record", <<Group(2, 0, <<1>>), Group(2, 9999, <<3, 4>>)>>),
     Broadcast(Transfer("write_file_record", <<Group(2, 0, <<1>>)>>)),
     Call("read_fifo_queue", 4, 0, <<>>), Call("read_fifo_queue", 5, 0, <<>>),
     Call("read_device_identification", 0, 0, <<>>), Call("read_exception_status", 0, 0, <<>>),
     Call("report_server_id", 0, 0, <<>>), Call("get_comm_event_counter", 0, 0, <<>>),
     Call("get_comm_event_log", 0, 0, <<>>), Call("diagnostics", 0, 0, <<1, 2>>), Call("diagnostics", 0, 10, <<0, 0>>),
     Broadcast(Call("diagnostics", 0, 10, <<0, 0>>)), Call("diagnostics", 0, 4, <<0, 0>>), Call("diagnostics", 0, 1, <<0, 0>>),
     Call("custom", 0, 65, <<3, 4>>), Call("custom", 0, 66, <<>>), Call("custom", 0, 100, <<>>),
     Broadcast(Call("custom", 0, 65, <<3>>)), Call("read_object", 2, 0, <<>>), Call("read_object", 3, 0, <<>>),
     Call("read_stream", 4, 3, <<>>), Call("read_stream", 9, 2, <<>>), Call("read_stream", 1, 1, <<>>)}

(* A write of two groups of which the first is valid. *)
First == <<21, 18, 6, 0, 1, 0, 0, 0, 1, 0, 4>>

(* Requests that the decoder rejects, or that only a broadcast may carry.  *)
Malformed ==
    {Call("malformed", 0, 0, p) :
        p \in {<<1, 0, 0>>, <<3, 0, 0, 0, 126>>, <<5, 0, 0, 1, 0>>, <<8, 0, 5, 0, 0>>, <<15, 0, 0, 0, 9, 1, 255>>,
               <<16, 0, 0, 0, 1, 2, 7>>, <<20, 7, 5, 0, 1, 0, 0, 0, 1>>, <<20, 7, 6, 0, 0, 0, 0, 0, 1>>,
               <<21, 9, 6, 0, 1, 39, 16, 0, 1, 0, 5>>, <<21, 9, 6, 0, 1, 0, 0, 0, 2, 0, 5>>,
               First \o <<7, 0, 1, 0, 1, 0, 1, 0, 5>>, First \o <<6, 0, 1, 39, 16, 0, 1, 0, 5>>,
               First \o <<6, 0, 1, 0, 1, 0, 2, 0, 5>>, First \o <<6, 0, 0, 0, 1, 0, 1, 0, 5>>, <<43, 13, 0, 0>>,
               <<43, 14, 5, 0>>, <<24, 0>>, <<129, 2>>, <<0>>, <<7, 0>>}}
      \union {Broadcast(Call("malformed", 0, 0, p)) :
                p \in {<<1, 0, 0>>, <<3, 0, 0, 0, 1>>, <<43, 14, 1, 0>>, <<20, 7, 6, 0, 1, 0, 0, 0, 1>>}}

Setting(table, address, values) == [table |-> table, address |-> address, values |-> values]

Settings ==
    {<<Setting("coils", 6, <<1>>)>>, <<Setting("discrete", 3, <<1>>)>>, <<Setting("holding", 1, <<6>>)>>,
     <<Setting("input", 2, <<6>>)>>, <<Setting("input", 1, <<6>>)>>, <<Setting("files", 1, <<5, 8>>)>>,
     <<Setting("fifos", 4, [i \in 1..32 |-> i])>>, <<Setting("status", 0, <<129>>)>>,
     <<Setting("server_id", 0, <<1, 255>>)>>, <<Setting("server_id", 0, [i \in 1..252 |-> 1])>>}

Scene(kind, start, name, setting_, a, b) ==
    [kind |-> kind, mem |-> start, identity |-> name, setting |-> setting_, calls |-> (A :> a) @@ (B :> b)]

(* Calls at the limits, and one past them. *)
Long(n) == [i \in 1..n |-> i % 2]

Ramp(n) == [i \in 1..n |-> (i * 257) % 65536]

Large ==
    [InMemoryStore_new([coils |-> 2003, discrete |-> 8, holding |-> 126, input |-> 1]) EXCEPT
        !.coils.bytes = [i \in 1..251 |-> (i * 37) % 256], !.holding = Ramp(126),
        !.files = (1 :> Ramp(130)), !.fifos = (1 :> Ramp(31)), !.server_id = [i \in 1..251 |-> i % 256]]

LargeCalls ==
    {Call("read_coils", 3, 2000, <<>>), Call("read_coils", 0, 2001, <<>>),
     Call("write_multiple_coils", 1883, 0, Long(120)), Call("write_multiple_coils", 36, 0, Long(1968)),
     Call("write_multiple_coils", 0, 0, Long(1969)),
     Call("read_holding_registers", 1, 125, <<>>), Call("read_holding_registers", 0, 126, <<>>),
     Call("write_multiple_registers", 3, 0, Ramp(123)), Call("write_multiple_registers", 0, 0, Ramp(124)),
     Exchange(0, 125, 1, Ramp(121)), Exchange(0, 125, 1, Ramp(122)), Exchange(0, 126, 1, Ramp(1)),
     Transfer("read_file_record", <<Span(1, 0, 122)>>), Transfer("read_file_record", <<Span(1, 0, 61), Span(1, 61, 61)>>),
     Transfer("read_file_record", <<Span(1, 0, 62), Span(1, 61, 62)>>),
     Transfer("read_file_record", [i \in 1..35 |-> Span(1, i, 1)]),
     Transfer("read_file_record", [i \in 1..36 |-> Span(1, i, 1)]),
     Transfer("write_file_record", <<Group(1, 9881, Ramp(119))>>),
     Transfer("write_file_record", <<Group(1, 0, Ramp(120))>>),
     Transfer("write_file_record", [i \in 1..27 |-> Group(1, 2 * i, <<i>>)]),
     Call("read_fifo_queue", 1, 0, <<>>), Call("report_server_id", 0, 0, <<>>),
     Call("diagnostics", 0, 0, Ramp(0) \o [i \in 1..250 |-> i % 256]),
     Call("diagnostics", 0, 0, [i \in 1..252 |-> i % 256])}

(* Identities of one, two and three pages, and one that cannot be sent.    *)
Text(n) == [i \in 1..n |-> 97]

Names ==
    {(0 :> Text(a)) @@ (1 :> Text(b)) @@ (2 :> Text(c)) : a, b, c \in {1, 120, 244}}
      \union {(0 :> Text(245)) @@ (1 :> Text(1)) @@ (2 :> Text(1)),
              (0 :> Text(1)) @@ (1 :> Text(1)) @@ (2 :> Text(1)) @@ (6 :> Text(245))}

MCScenes ==
    LET kinds == {"memory", "plain"}
        identify == Call("read_device_identification", 0, 0, <<>>)
    IN  {Scene(k, Small, Name, <<>>, a, b) : k \in kinds, a \in SmallCalls, b \in SmallCalls}
          \union {Scene(k, Small, Name, <<>>, a, NoCall) : k \in kinds, a \in Small1 \union Malformed}
          \union {Scene("memory", Small, Name, s, a, NoCall) : s \in Settings, a \in SmallCalls \union Small1}
          \union {Scene(k, Large, Name, <<>>, a, NoCall) : k \in kinds, a \in LargeCalls}
          \union {Scene("memory", Small, n, <<>>, identify, NoCall) : n \in Names}
          \union {Scene("memory", Small, n, <<>>, Call("read_stream", 0, q, <<>>), Call("read_object", 6, 0, <<>>)) :
                    n \in Names, q \in {1, 3}}
=============================================================================

----------------------------- MODULE SerialLine -----------------------------
(***************************************************************************)
(* A serial line: SerialSink (crates/rusty-modbus-rtu/src/serial.rs) sends *)
(* frames on it, another station may speak at any time, and a listener     *)
(* feeds what it hears to an RtuFrameAssembler.                            *)
(*                                                                         *)
(* Time is counted in ticks.  External: the driver takes up to PORT_SIZE   *)
(* octets, shifts one out per character time, and a flush returns once the *)
(* last has left; the listener stamps octets as they arrive, but may hand  *)
(* them over late, after a timer that was due later.                       *)
(***************************************************************************)
EXTENDS RtuAssembler

CONSTANTS
    CHARACTER,          \* ticks per character
    WRITE_TIMEOUT,      \* write_timeout, the response timeout
    PORT_SIZE,
    Strict,             \* opened by open_strict: resolved_config.is_some()
    Sends,              \* the frames a program may send, [txn, unit, pdu]
    Talks,              \* [calls, speech, turns]: how often the program sends,
                        \* what the other station says, and whether the two
                        \* take turns, as a client and its server do
    encode(_),          \* `RtuCodec::encode`: [ok, val], the octets of a frame
    Pauses,             \* ticks between two octets of the other station
    SLACK, HORIZON      \* bounds: ticks the scheduler loses, ticks in all

\* A character takes time; what the codec writes and what the other station
\* says are octets; the clock stays within the timestamps of the assembler.
ASSUME LineAssumption ==
    /\ CHARACTER \in Nat \ {0} /\ WRITE_TIMEOUT \in Nat /\ PORT_SIZE \in Nat
    /\ HORIZON \in Nat /\ HORIZON =< TIMESTAMP_MAX
    /\ \A frame \in Sends : encode(frame).ok => encode(frame).val \in Seq(Octet)
    /\ \A talk \in Talks : talk.speech \in Seq(Octet)

VARIABLES
    now,
    sink,           \* [pc, frame, until, buffer, last_tx_end]: SerialSink
    results,        \* what the calls of send returned
    port,           \* octets in the driver, [byte, from]
    shift,          \* ticks until the octet being shifted out has left
    calls,          \* how often the program will still send
    turns,
    speech,         \* what the other station has still to say
    air,            \* history: octets on the line, [at, byte, from]; from is
                    \* the number of the send, 0 for the other station
    unread,         \* octets the listener has not handed over
    overtaken,      \* history: a timer that fired after an octet had arrived
                    \* reached the assembler before it
    slack           \* ticks the scheduler may still lose

line_vars == <<now, sink, results, port, shift, calls, turns, speech, air, unread, overtaken, slack>>
all_vars == <<vars, line_vars>>

None == -1

NoFrame == [txn |-> 0, unit |-> 0, pdu |-> <<>>]

LineInit ==
    /\ Init
    /\ now = 0
    /\ sink = [pc |-> "ready", frame |-> NoFrame, until |-> 0, buffer |-> <<>>, last_tx_end |-> None]
    /\ results = <<>>
    /\ port = <<>> /\ shift = 0
    /\ \E talk \in Talks : calls = talk.calls /\ speech = talk.speech /\ turns = talk.turns
    /\ air = <<>>
    /\ unread = <<>>
    /\ overtaken = FALSE
    /\ slack = SLACK
-----------------------------------------------------------------------------
(* SerialSink::send. *)
remaining_interframe_delay(last_tx_end, instant) ==
    IF last_tx_end = None \/ instant - last_tx_end >= t3_5 THEN 0 ELSE t3_5 - (instant - last_tx_end)

returns(result) == results' = Append(results, result)

\* RtuUnitIdRole::ClientDestination: broadcast or 1 through 247.
valid_destination(unit) == unit \in 0 .. 247

send(frame) ==
    /\ sink.pc = "ready" /\ calls > 0
    /\ turns /\ results # <<>> => speech = <<>> /\ unread = <<>>
    /\ calls' = calls - 1
    /\ \/ /\ Strict /\ ~valid_destination(frame.unit)
          /\ returns("InvalidInput")
          /\ UNCHANGED sink
       \/ /\ ~Strict \/ valid_destination(frame.unit)
          /\ sink' = [sink EXCEPT !.pc = "waiting", !.frame = frame,
                         !.until = now + remaining_interframe_delay(sink.last_tx_end, now)]
          /\ UNCHANGED results
    /\ UNCHANGED <<vars, now, port, shift, turns, speech, air, unread, overtaken, slack>>

\* The silence is over: the codec appends the frame to Framed's buffer.
start_write ==
    /\ sink.pc = "waiting" /\ now >= sink.until
    /\ LET encoded == encode(sink.frame)
           nth == Len(results) + 1
       IN  \/ /\ ~encoded.ok
              /\ sink' = [sink EXCEPT !.pc = "ready"]
              /\ returns("Frame")
           \/ /\ encoded.ok
              /\ sink' = [sink EXCEPT !.pc = "writing", !.until = now + WRITE_TIMEOUT,
                             !.buffer = @ \o [k \in DOMAIN encoded.val |-> [byte |-> encoded.val[k], from |-> nth]]]
              /\ UNCHANGED results
    /\ UNCHANGED <<vars, now, port, shift, calls, turns, speech, air, unread, overtaken, slack>>

\* The driver takes what fits; this happens only while send is polled.
write ==
    LET room == PORT_SIZE - Len(port)
        n == IF Len(sink.buffer) < room THEN Len(sink.buffer) ELSE room
    IN  /\ sink.pc = "writing" /\ n > 0
        /\ port' = port \o SubSeq(sink.buffer, 1, n)
        /\ sink' = [sink EXCEPT !.buffer = SubSeq(@, n + 1, Len(@))]
        /\ UNCHANGED <<vars, now, results, shift, calls, turns, speech, air, unread, overtaken, slack>>

\* Mutant: the end of the transmission is not recorded.
sent_unrecorded ==
    /\ sink.pc = "writing" /\ sink.buffer = <<>> /\ port = <<>>
    /\ sink' = [sink EXCEPT !.pc = "ready"]
    /\ returns("Ok")
    /\ UNCHANGED <<vars, now, port, shift, calls, turns, speech, air, unread, overtaken, slack>>

sent ==
    /\ sink.pc = "writing" /\ sink.buffer = <<>> /\ port = <<>>
    /\ sink' = [sink EXCEPT !.pc = "ready", !.last_tx_end = now]
    /\ returns("Ok")
    /\ UNCHANGED <<vars, now, port, shift, calls, turns, speech, air, unread, overtaken, slack>>

\* What was not written stays in the buffer, before the next frame.
send_times_out ==
    /\ sink.pc = "writing" /\ now >= sink.until
    /\ sink' = [sink EXCEPT !.pc = "ready"]
    /\ returns("Timeout")
    /\ UNCHANGED <<vars, now, port, shift, calls, turns, speech, air, unread, overtaken, slack>>

\* The driver fails a write or a flush; again the rest stays in the buffer.
send_fails ==
    /\ sink.pc = "writing"
    /\ sink' = [sink EXCEPT !.pc = "ready"]
    /\ returns("Io")
    /\ UNCHANGED <<vars, now, port, shift, calls, turns, speech, air, unread, overtaken, slack>>
-----------------------------------------------------------------------------
(* The line. *)
heard(byte, from, at) ==
    /\ unread = <<>>
    /\ unread' = <<[at |-> at, byte |-> byte]>>
    /\ air' = Append(air, [at |-> at, byte |-> byte, from |-> from])

\* Some task can run; a tick that passes all the same is one lost.
Ready ==
    \/ unread # <<>>
    \/ sink.pc = "waiting" /\ now >= sink.until
    \/ sink.pc = "writing" /\ (IF sink.buffer = <<>> THEN port = <<>> ELSE Len(port) < PORT_SIZE)

tick ==
    LET left == IF shift = 0 THEN CHARACTER ELSE shift
    IN  /\ now < HORIZON
        /\ slack' = IF Ready THEN slack - 1 ELSE slack
        /\ slack' >= 0
        /\ now' = now + 1
        /\ \/ port = <<>> /\ UNCHANGED <<port, shift, air, unread>>
           \/ port # <<>> /\ left > 1 /\ shift' = left - 1 /\ UNCHANGED <<port, air, unread>>
           \/ /\ port # <<>> /\ left = 1
              /\ shift' = 0
              /\ port' = Tail(port)
              /\ heard(Head(port).byte, Head(port).from, now + 1)
        /\ UNCHANGED <<vars, sink, results, calls, turns, speech, overtaken>>

\* The other station begins when it likes, or in its turn, t3.5 after
\* the request, and pauses after each octet.
speak ==
    /\ speech # <<>>
    /\ LET spoken == {i \in DOMAIN air : air[i].from = 0}
       IN  IF spoken # {} THEN \A i \in spoken : (\A j \in spoken : j =< i) => now - air[i].at \in Pauses
           ELSE turns => air # <<>> /\ now - CHARACTER - air[Len(air)].at >= t3_5
    /\ heard(Head(speech), 0, now)
    /\ speech' = Tail(speech)
    /\ UNCHANGED <<vars, now, sink, results, port, shift, calls, turns, overtaken, slack>>

hand_over ==
    /\ unread # <<>>
    /\ observe_byte(Head(unread).at, Head(unread).byte)
    /\ unread' = <<>>
    /\ UNCHANGED <<now, sink, results, port, shift, calls, turns, speech, air, overtaken, slack>>

timer_fires ==
    /\ \E deadline \in Issued : observe_deadline(deadline, now)
    /\ overtaken' = (overtaken \/ \E i \in DOMAIN unread : unread[i].at < last_observed')
    /\ UNCHANGED <<now, sink, results, port, shift, calls, turns, speech, air, unread, slack>>

\* The bound on time is reached.
time_is_up == now = HORIZON /\ UNCHANGED all_vars

LineNext ==
    \/ \E frame \in Sends : send(frame)
    \/ start_write \/ write \/ sent \/ send_times_out \/ send_fails
    \/ tick \/ speak \/ hand_over \/ timer_fires \/ time_is_up

LineSpec == LineInit /\ [][LineNext]_all_vars
-----------------------------------------------------------------------------
(* Properties. *)

\* Octet i is the first of a send, and every earlier send has returned without
\* leaving anything behind.
Starts(i) ==
    /\ air[i].from > 0
    /\ \A k \in 1 .. air[i].from - 1 : results[k] \notin {"Timeout", "Io"}
    /\ \A j \in 1 .. i - 1 : air[j].from # air[i].from

\* The ticks between the end of octet j and the start of octet i.
Silence(j, i) == air[i].at - CHARACTER - air[j].at

\* SerialSink keeps its own frames apart by t3.5, whatever the driver, the
\* other station and rejected or invalid sends do between them, as long as no
\* send timed out or failed in the driver.
FramesApart ==
    \A i \in DOMAIN air : Starts(i) =>
        \A j \in 1 .. i - 1 : air[j].from > 0 => Silence(j, i) >= t3_5

\* "The write half enforces the Modbus RTU t3.5 silent interval before each
\* subsequent transmit" (serial.rs:5): the line has been silent for t3.5 when a
\* frame after the first is put on it, whoever spoke last.
SilenceBeforeTransmit ==
    \A i \in DOMAIN air : Starts(i) /\ air[i].from > 1 =>
        \A j \in 1 .. i - 1 : Silence(j, i) >= t3_5

\* Every octet heard so far has a deadline that the assembler can represent.
Representable ==
    /\ Len(air) =< SEQUENCE_MAX
    /\ \A i \in DOMAIN air : air[i].at + t3_5 =< TIMESTAMP_MAX

\* The frames returned are exactly those of the accepted octets; and unless a
\* later timer overtook an octet on its way to the assembler, the accepted
\* octets are those that went over the wire, at the time they did: the
\* assembler loses none that arrives at the instant of a deadline, with the
\* octet before it, or while a superseded timer fires.
HeardFramesReturned ==
    /\ ExactlyTheFrames
    /\ ~overtaken /\ Representable =>
          /\ Len(line) + Len(unread) = Len(air)
          /\ \A i \in DOMAIN line : line[i].at = air[i].at /\ line[i].byte = air[i].byte
=============================================================================

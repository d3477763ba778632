---------------------------- MODULE RtuAssembler ----------------------------
(***************************************************************************)
(* RtuFrameAssembler (crates/rusty-modbus-rtu/src/assembler.rs): the       *)
(* receive core that cuts a timestamped byte stream into RTU frames.       *)
(*                                                                         *)
(* The assembler has no clock.  Its caller submits each byte with its time *)
(* on the wire, and submits the t3.5 deadlines the assembler handed out,   *)
(* early, late or after they were superseded.  line and delivered are      *)
(* history variables: the bytes accepted so far, and the frames returned   *)
(* as FrameReady with the positions on the line they were cut from.        *)
(***************************************************************************)
EXTENDS Integers, Sequences, FiniteSets

CONSTANTS
    Octet,
    t1_5, t3_5,             \* RtuTiming
    MIN_ADU_SIZE, MAX_ADU_SIZE,     \* MIN_RTU_ADU_SIZE and MAX_RTU_ADU_SIZE
    TIMESTAMP_MAX,          \* u64::MAX of a timestamp
    SEQUENCE_MAX,           \* u64::MAX of a deadline token
    COUNTER_MAX,            \* u64::MAX of a diagnostic counter
    crc_matches(_)          \* verify_crc of the frame crate

\* RtuTiming::new accepts only 0 < t1.5 < t3.5.
ASSUME TimingAssumption ==
    /\ t1_5 \in Nat /\ t3_5 \in Nat /\ 0 < t1_5 /\ t1_5 < t3_5

ASSUME BoundsAssumption ==
    /\ MIN_ADU_SIZE \in Nat \ {0} /\ MAX_ADU_SIZE \in Nat
    /\ MIN_ADU_SIZE =< MAX_ADU_SIZE
    /\ TIMESTAMP_MAX \in Nat /\ SEQUENCE_MAX \in Nat /\ COUNTER_MAX \in Nat \ {0}

VARIABLES
    state,              \* [kind, last, deadline]: State
    candidate,          \* the bytes of the active candidate, <<>> otherwise
    last_observed,      \* latest accepted timestamp; 0 stands for None
    deadline_sequence,
    diagnostics,
    line,               \* history: accepted bytes, [at, byte]
    delivered           \* history: returned frames, [first, last, adu]

assembler == <<state, candidate, last_observed, deadline_sequence>>
vars == <<assembler, diagnostics, line, delivered>>

Timestamp == 0 .. TIMESTAMP_MAX

\* The counters of what became of candidates.  Those of events that change
\* nothing else (stale and early deadlines, regressing timestamps, bytes
\* submitted) are left out.
Counter == {"valid_frames", "inter_character_discards", "overlength_discards",
            "too_short_discards", "crc_mismatch_discards", "quarantine_recoveries"}

Deadline == [due_at : Nat, sequence : Nat]
NoDeadline == [due_at |-> 0, sequence |-> 0]
Idle == [kind |-> "Idle", last |-> 0, deadline |-> NoDeadline]

Init ==
    /\ state = Idle
    /\ candidate = <<>>
    /\ last_observed = 0
    /\ deadline_sequence = 0
    /\ diagnostics = [c \in Counter |-> 0]
    /\ line = <<>>
    /\ delivered = {}

-----------------------------------------------------------------------------
(* The private steps of the assembler.                                     *)

saturating_increment(n) == IF n < COUNTER_MAX THEN n + 1 ELSE n

count(class) == diagnostics' = [diagnostics EXCEPT ![class] = saturating_increment(@)]

\* Mutant: a time that was already observed is taken for a regression.
check_timestamp_strict(observed) == observed > last_observed

check_timestamp(observed) == observed >= last_observed

\* Whether the next deadline is representable: neither its token nor its
\* due time may overflow.
plan_deadline(timestamp) ==
    /\ deadline_sequence < SEQUENCE_MAX
    /\ timestamp + t3_5 =< TIMESTAMP_MAX

\* The tail every accepted byte shares: the planned deadline becomes active.
armed(kind, timestamp, byte) ==
    /\ state' = [kind |-> kind, last |-> timestamp,
                 deadline |-> [due_at |-> timestamp + t3_5,
                               sequence |-> deadline_sequence + 1]]
    /\ deadline_sequence' = deadline_sequence + 1
    /\ last_observed' = timestamp
    /\ line' = Append(line, [at |-> timestamp, byte |-> byte])

start_candidate(timestamp, byte) ==
    /\ candidate' = <<byte>>
    /\ armed("Collecting", timestamp, byte)

enter_quarantine(timestamp, byte) ==
    /\ candidate' = <<>>
    /\ armed("Quarantined", timestamp, byte)

\* A boundary closes the candidate.
finish_candidate ==
    \/ /\ Len(candidate) < MIN_ADU_SIZE
       /\ count("too_short_discards")
       /\ UNCHANGED delivered
    \/ /\ Len(candidate) >= MIN_ADU_SIZE
       /\ ~crc_matches(candidate)
       /\ count("crc_mismatch_discards")
       /\ UNCHANGED delivered
    \/ /\ Len(candidate) >= MIN_ADU_SIZE
       /\ crc_matches(candidate)
       /\ count("valid_frames")
       /\ delivered' = delivered \cup
             {[first |-> Len(line) - Len(candidate) + 1, last |-> Len(line),
               adu |-> candidate]}

-----------------------------------------------------------------------------
(* The two entry points.                                                   *)

byte_when_idle(timestamp, byte) ==
    /\ state.kind = "Idle"
    /\ start_candidate(timestamp, byte)
    /\ UNCHANGED <<diagnostics, delivered>>

byte_when_collecting(timestamp, byte) ==
    /\ state.kind = "Collecting"
    /\ LET gap == timestamp - state.last
       IN  \/ /\ gap >= t3_5
              /\ finish_candidate
              /\ start_candidate(timestamp, byte)
           \/ /\ gap < t3_5 /\ gap > t1_5
              /\ count("inter_character_discards")
              /\ enter_quarantine(timestamp, byte)
              /\ UNCHANGED delivered
           \/ /\ gap =< t1_5
              /\ Len(candidate) = MAX_ADU_SIZE
              /\ count("overlength_discards")
              /\ enter_quarantine(timestamp, byte)
              /\ UNCHANGED delivered
           \/ /\ gap =< t1_5
              /\ Len(candidate) # MAX_ADU_SIZE
              /\ candidate' = Append(candidate, byte)
              /\ armed("Collecting", timestamp, byte)
              /\ UNCHANGED <<diagnostics, delivered>>

byte_when_quarantined(timestamp, byte) ==
    /\ state.kind = "Quarantined"
    /\ LET gap == timestamp - state.last
       IN  \/ /\ gap >= t3_5
              /\ start_candidate(timestamp, byte)
              /\ count("quarantine_recoveries")
           \/ /\ gap < t3_5
              /\ enter_quarantine(timestamp, byte)
              /\ UNCHANGED diagnostics
    /\ UNCHANGED delivered

\* A rejected byte: its timestamp regresses, or its deadline overflows.
byte_rejected(timestamp) ==
    /\ ~check_timestamp(timestamp) \/ ~plan_deadline(timestamp)
    /\ UNCHANGED vars

observe_byte(timestamp, byte) ==
    \/ byte_rejected(timestamp)
    \/ /\ check_timestamp(timestamp) /\ plan_deadline(timestamp)
       /\ \/ byte_when_idle(timestamp, byte)
          \/ byte_when_collecting(timestamp, byte)
          \/ byte_when_quarantined(timestamp, byte)

\* An active deadline that is due: silence has closed the candidate, or the
\* quarantine.
deadline_elapses(observed_at) ==
    /\ state' = Idle
    /\ candidate' = <<>>
    /\ last_observed' = observed_at
    /\ UNCHANGED <<deadline_sequence, line>>
    /\ \/ state.kind = "Collecting" /\ finish_candidate
       \/ /\ state.kind = "Quarantined"
          /\ count("quarantine_recoveries")
          /\ UNCHANGED delivered

\* A superseded deadline, a regressing timestamp, or a call that is too early.
deadline_ignored(deadline, observed_at) ==
    /\ \/ state.deadline # deadline
       \/ ~check_timestamp(observed_at)
       \/ observed_at < deadline.due_at
    /\ UNCHANGED vars

observe_deadline(deadline, observed_at) ==
    \/ deadline_ignored(deadline, observed_at)
    \/ /\ state.deadline = deadline
       /\ check_timestamp(observed_at) /\ observed_at >= deadline.due_at
       /\ deadline_elapses(observed_at)

\* Every deadline the assembler has ever returned: one per accepted byte.
Issued == {[due_at |-> line[k].at + t3_5, sequence |-> k] : k \in DOMAIN line}

Next ==
    \/ \E t \in Timestamp, b \in Octet : observe_byte(t, b)
    \/ \E d \in Issued, t \in Timestamp : observe_deadline(d, t)

Spec == Init /\ [][Next]_vars

-----------------------------------------------------------------------------
(* Properties.                                                             *)

TypeOK ==
    /\ state \in [kind : {"Idle", "Collecting", "Quarantined"},
                  last : Timestamp, deadline : Deadline]
    /\ candidate \in Seq(Octet) /\ Len(candidate) =< MAX_ADU_SIZE
    /\ last_observed \in Timestamp
    /\ deadline_sequence \in 0 .. SEQUENCE_MAX
    /\ diagnostics \in [Counter -> 0 .. COUNTER_MAX]
    /\ line \in Seq([at : Timestamp, byte : Octet])
    /\ delivered \subseteq [first : Nat, last : Nat, adu : Seq(Octet)]

Gap(k) == line[k].at - line[k - 1].at

Octets(i, j) == [k \in 1 .. j - i + 1 |-> line[i + k - 1].byte]

\* A stretch of the line that silence set off on the left, and that no gap
\* above t1.5 interrupts.
Clean(i, j) ==
    /\ i = 1 \/ Gap(i) >= t3_5
    /\ \A k \in i + 1 .. j : Gap(k) =< t1_5

\* What an RTU frame is, said of the line alone: a clean stretch with silence
\* after it, of a legal length and with a correct CRC.
IsFrame(i, j) ==
    /\ Clean(i, j)
    /\ j < Len(line) => Gap(j + 1) >= t3_5
    /\ j - i + 1 \in MIN_ADU_SIZE .. MAX_ADU_SIZE
    /\ crc_matches(Octets(i, j))

\* The stretch that ends the line may still grow while it is collected.
Decided(j) == state.kind = "Collecting" => j < Len(line)

\* The frames handed out are exactly the frames of the line, each whole: none
\* is joined to its neighbour, split, invented or lost, whatever the order of
\* bytes and of due, early, late and superseded deadlines; and none is counted
\* twice.
ExactlyTheFrames ==
    /\ \A f \in delivered :
          /\ f.first \in DOMAIN line /\ f.last \in f.first .. Len(line)
          /\ IsFrame(f.first, f.last) /\ Decided(f.last)
          /\ f.adu = Octets(f.first, f.last)
    /\ \A j \in DOMAIN line : \A i \in 1 .. j :
          IsFrame(i, j) /\ Decided(j) =>
              [first |-> i, last |-> j, adu |-> Octets(i, j)] \in delivered
    /\ diagnostics["valid_frames"] =
          IF Cardinality(delivered) < COUNTER_MAX THEN Cardinality(delivered) ELSE COUNTER_MAX
=============================================================================

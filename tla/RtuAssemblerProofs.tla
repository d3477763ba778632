------------------------- MODULE RtuAssemblerProofs -------------------------
(***************************************************************************)
(* The assembler cuts the line into exactly its frames, for every length   *)
(* of line, every timing and every order of its caller's calls.            *)
(*                                                                         *)
(* ExactlyTheFrames alone is not inductive: what a boundary hands out is   *)
(* the candidate, and what a quarantine hides is whatever it began with.   *)
(* IInv adds what each state of the assembler remembers of the line:       *)
(* Collecting, the clean stretch that ends it; Quarantined, that no clean  *)
(* stretch ends it, or only one too long; Idle, that it ends in silence.   *)
(* The theorems are at the end of SerialLineProofs.                        *)
(***************************************************************************)
EXTENDS RtuAssembler, Counting, SequenceTheorems, TLAPS

\* A leaf that names no prover is left to Zenon.
USE Zenon

Start == Len(line) - Len(candidate) + 1

CollectingInv ==
    state.kind = "Collecting" =>
        /\ Len(candidate) \in 1 .. Len(line)
        /\ candidate = Octets(Start, Len(line))
        /\ Clean(Start, Len(line))
        /\ state.last = line[Len(line)].at
        /\ state.deadline.due_at = state.last + t3_5

QuarantinedInv ==
    state.kind = "Quarantined" =>
        /\ Len(line) > 0
        /\ \A i \in DOMAIN line : Clean(i, Len(line)) => Len(line) - i + 1 > MAX_ADU_SIZE
        /\ state.last = line[Len(line)].at
        /\ state.deadline.due_at = state.last + t3_5

IdleInv ==
    state.kind = "Idle" /\ Len(line) > 0 => last_observed >= line[Len(line)].at + t3_5

Sound ==
    \A f \in delivered :
        /\ f.first \in DOMAIN line /\ f.last \in f.first .. Len(line)
        /\ IsFrame(f.first, f.last) /\ Decided(f.last)
        /\ f.adu = Octets(f.first, f.last)

Complete ==
    \A j \in DOMAIN line : \A i \in 1 .. j :
        IsFrame(i, j) /\ Decided(j) =>
            [first |-> i, last |-> j, adu |-> Octets(i, j)] \in delivered

Counted ==
    /\ IsFiniteSet(delivered)
    /\ diagnostics["valid_frames"] =
          IF Cardinality(delivered) < COUNTER_MAX THEN Cardinality(delivered) ELSE COUNTER_MAX

\* The inductive invariant.
IInv ==
    /\ TypeOK
    /\ CollectingInv /\ QuarantinedInv /\ IdleInv
    /\ Sound /\ Complete /\ Counted
-----------------------------------------------------------------------------
(* The line.                                                               *)

\* Accepting a byte leaves the line before it as it was: its octets, its gaps
\* and its clean stretches.
LEMMA LineGrows ==
    ASSUME TypeOK, NEW t \in Timestamp, NEW b \in Octet,
           line' = Append(line, [at |-> t, byte |-> b])
    PROVE  /\ Len(line) \in Nat /\ Len(line') = Len(line) + 1
           /\ DOMAIN line = 1 .. Len(line) /\ DOMAIN line' = 1 .. Len(line) + 1
           /\ \A k \in 1 .. Len(line) : line'[k] = line[k] /\ line[k].at \in Nat
           /\ line'[Len(line) + 1] = [at |-> t, byte |-> b]
           /\ \A k \in 2 .. Len(line) : Gap(k)' = Gap(k) /\ Gap(k) \in Int
           /\ \A n \in Nat \ {0} : n = Len(line) => Gap(n + 1)' = t - line[n].at
<1>1. /\ line \in Seq([at : Timestamp, byte : Octet])
      /\ [at |-> t, byte |-> b] \in [at : Timestamp, byte : Octet]
  BY DEF TypeOK
<1>2. /\ Len(line) \in Nat /\ Len(line') = Len(line) + 1
      /\ DOMAIN line = 1 .. Len(line) /\ DOMAIN line' = 1 .. Len(line) + 1
      /\ \A k \in 1 .. Len(line) : line'[k] = line[k]
      /\ line'[Len(line) + 1] = [at |-> t, byte |-> b]
  BY SMT, <1>1
<1>3. \A k \in 1 .. Len(line) : line[k].at \in Nat
  <2>1. \A k \in 1 .. Len(line) : line[k] \in [at : Timestamp, byte : Octet]
    BY <1>1, ElementOfSeq
  <2> QED BY SMT, <2>1, BoundsAssumption DEF Timestamp
<1>4. \A k \in 2 .. Len(line) : Gap(k)' = Gap(k) /\ Gap(k) \in Int
  <2> TAKE k \in 2 .. Len(line)
  <2>1. k \in 1 .. Len(line) /\ k - 1 \in 1 .. Len(line)
    BY SMT, <1>2
  <2>2. line'[k] = line[k] /\ line'[k - 1] = line[k - 1]
    BY <2>1, <1>2
  <2>3. line[k].at \in Nat /\ line[k - 1].at \in Nat
    BY <2>1, <1>3
  <2> QED BY SMT, <2>2, <2>3 DEF Gap
<1>5. \A n \in Nat \ {0} : n = Len(line) => Gap(n + 1)' = t - line[n].at
  <2> SUFFICES ASSUME NEW n \in Nat \ {0}, n = Len(line)
               PROVE  Gap(n + 1)' = t - line[n].at
    OBVIOUS
  <2>1. n + 1 - 1 = n /\ n \in 1 .. Len(line)
    BY SMT, <1>2
  <2>2. line'[n] = line[n] /\ line'[n + 1].at = t
    BY SMT, <1>2, <2>1
  <2> QED BY SMT, <2>1, <2>2 DEF Gap
<1> QED BY <1>2, <1>3, <1>4, <1>5

\* A new byte changes no stretch that was on the line before it.
LEMMA StretchesStay ==
    ASSUME TypeOK, NEW t \in Timestamp, NEW b \in Octet,
           line' = Append(line, [at |-> t, byte |-> b]),
           NEW j \in 1 .. Len(line), NEW i \in 1 .. j
    PROVE  Octets(i, j)' = Octets(i, j) /\ Clean(i, j)' = Clean(i, j)
<1>1. Octets(i, j)' = Octets(i, j)
  BY SMT, LineGrows DEF Octets
<1>2. Clean(i, j)' = Clean(i, j)
  <2>1. i = 1 \/ i \in 2 .. Len(line)
    BY SMT, LineGrows
  <2>2. \A k \in i + 1 .. j : k \in 2 .. Len(line)
    BY SMT, LineGrows
  <2> QED BY <2>1, <2>2, LineGrows DEF Clean
<1> QED BY <1>1, <1>2

\* Two clean stretches with the same end are the same: the start of one would
\* be a short gap inside the other.
LEMMA CleanUnique ==
    ASSUME TypeOK, NEW n \in 1 .. Len(line), NEW i \in 1 .. n, NEW s \in 1 .. n,
           Clean(i, n), Clean(s, n)
    PROVE  i = s
<1>1. Len(line) \in Nat /\ \A k \in 1 .. Len(line) : line[k].at \in Nat
  <2>1. \A k \in 1 .. Len(line) : line[k] \in [at : Timestamp, byte : Octet]
    BY ElementOfSeq DEF TypeOK
  <2> QED BY SMT, <2>1, BoundsAssumption DEF TypeOK, Timestamp
<1>2. ASSUME NEW k \in 2 .. n PROVE Gap(k) \in Int
  <2>1. k \in 1 .. Len(line) /\ k - 1 \in 1 .. Len(line)
    BY SMT, <1>1
  <2>2. line[k].at \in Nat /\ line[k - 1].at \in Nat
    BY <1>1, <2>1
  <2> QED BY SMT, <2>2 DEF Gap
<1>3. ASSUME i < s PROVE FALSE
  <2>1. s \in i + 1 .. n /\ s # 1 /\ s \in 2 .. n
    BY SMT, <1>1, <1>3
  <2> QED BY SMT, <2>1, <1>2, TimingAssumption DEF Clean
<1>4. ASSUME s < i PROVE FALSE
  <2>1. i \in s + 1 .. n /\ i # 1 /\ i \in 2 .. n
    BY SMT, <1>1, <1>4
  <2> QED BY SMT, <2>1, <1>2, TimingAssumption DEF Clean
<1> QED BY SMT, <1>1, <1>3, <1>4
\* What IsFrame says of a stretch of the line does not change when a byte
\* follows it after silence, and becomes false when one follows it sooner.
LEMMA FrameStays ==
    ASSUME TypeOK, NEW t \in Timestamp, NEW b \in Octet,
           line' = Append(line, [at |-> t, byte |-> b]),
           NEW j \in 1 .. Len(line), NEW i \in 1 .. j
    PROVE  /\ j = Len(line) /\ t - line[j].at >= t3_5 => IsFrame(i, j)' = IsFrame(i, j)
           /\ j = Len(line) /\ IsFrame(i, j)' => t - line[j].at >= t3_5
           /\ j < Len(line) => IsFrame(i, j)' = IsFrame(i, j)
<1>1. Octets(i, j)' = Octets(i, j) /\ Clean(i, j)' = Clean(i, j)
  BY StretchesStay
<1>2. Len(line) \in Nat /\ Len(line') = Len(line) + 1 /\ j \in Nat \ {0}
  BY SMT, LineGrows
<1>3. crc_matches(Octets(i, j))' = crc_matches(Octets(i, j))
  BY <1>1
<1>4. ASSUME j = Len(line) PROVE Gap(j + 1)' = t - line[j].at
  BY <1>2, <1>4, LineGrows
<1>5. ASSUME j < Len(line) PROVE Gap(j + 1)' = Gap(j + 1)
  <2>1. j + 1 \in 2 .. Len(line)
    BY SMT, <1>2, <1>5
  <2> QED BY <2>1, LineGrows
<1>6. ASSUME j = Len(line), t - line[j].at >= t3_5 PROVE IsFrame(i, j)' = IsFrame(i, j)
  BY SMT, <1>1, <1>2, <1>3, <1>4, <1>6 DEF IsFrame
<1>7. ASSUME j = Len(line), IsFrame(i, j)' PROVE t - line[j].at >= t3_5
  BY SMT, <1>2, <1>4, <1>7 DEF IsFrame
<1>8. ASSUME j < Len(line) PROVE IsFrame(i, j)' = IsFrame(i, j)
  BY SMT, <1>1, <1>2, <1>3, <1>5, <1>8 DEF IsFrame
<1> QED BY <1>6, <1>7, <1>8

-----------------------------------------------------------------------------
(* A byte is accepted.                                                     *)

\* The silence before a byte that finds the assembler idle.
LEMMA IdleSilence ==
    ASSUME TypeOK, IdleInv, NEW t \in Timestamp, check_timestamp(t),
           state.kind = "Idle", Len(line) > 0
    PROVE  t - line[Len(line)].at >= t3_5
<1>1. line[Len(line)] \in [at : Timestamp, byte : Octet]
  <2>1. line \in Seq([at : Timestamp, byte : Octet])
    BY DEF TypeOK
  <2>2. Len(line) \in 1 .. Len(line)
    BY SMT, <2>1
  <2> QED BY <2>1, <2>2, ElementOfSeq
<1>2. line[Len(line)].at \in Nat /\ t \in Nat /\ last_observed \in Nat
  BY SMT, <1>1, BoundsAssumption DEF TypeOK, Timestamp
<1>3. last_observed >= line[Len(line)].at + t3_5
  BY DEF IdleInv
<1>4. t >= last_observed
  BY DEF check_timestamp
<1> QED BY SMT, <1>2, <1>3, <1>4, TimingAssumption

\* Whatever was handed out is still a frame of the longer line.
LEMMA ByteSound ==
    ASSUME IInv, NEW t \in Timestamp, NEW b \in Octet, NEW kind,
           check_timestamp(t), armed(kind, t, b), NEW f \in delivered
    PROVE  /\ f.first \in DOMAIN line' /\ f.last \in f.first .. Len(line')
           /\ IsFrame(f.first, f.last)' /\ Decided(f.last)'
           /\ f.adu = Octets(f.first, f.last)'
<1>1. TypeOK /\ line' = Append(line, [at |-> t, byte |-> b])
  BY DEF IInv, armed
<1>2. /\ f.first \in DOMAIN line /\ f.last \in f.first .. Len(line)
      /\ IsFrame(f.first, f.last) /\ Decided(f.last)
      /\ f.adu = Octets(f.first, f.last)
  BY DEF IInv, Sound
<1>3. /\ Len(line) \in Nat /\ Len(line') = Len(line) + 1
      /\ DOMAIN line = 1 .. Len(line) /\ DOMAIN line' = 1 .. Len(line) + 1
  BY <1>1, LineGrows
<1>4. PICK j \in 1 .. Len(line) : j = f.last
  BY SMT, <1>2, <1>3
<1>5. PICK i \in 1 .. j : i = f.first
  BY SMT, <1>2, <1>3, <1>4
<1>6. Octets(i, j)' = Octets(i, j)
  BY <1>1, StretchesStay
<1>7. IsFrame(i, j)'
  <2>1. CASE j < Len(line)
    BY <1>1, <1>2, <1>4, <1>5, <2>1, FrameStays
  <2>2. CASE j = Len(line)
    <3>1. state.kind # "Collecting"
      BY SMT, <1>2, <1>3, <1>4, <2>2 DEF Decided
    <3>2. state.kind # "Quarantined"
      <4>1. Clean(i, j) /\ j - i + 1 =< MAX_ADU_SIZE
        BY SMT, <1>2, <1>3, <1>4, <1>5, BoundsAssumption DEF IsFrame
      <4>2. i \in DOMAIN line /\ MAX_ADU_SIZE \in Nat
        BY SMT, <1>3, BoundsAssumption
      <4> QED BY SMT, <4>1, <4>2, <1>3, <2>2 DEF IInv, QuarantinedInv
    <3>3. state.kind = "Idle"
      BY <1>1, <3>1, <3>2 DEF TypeOK
    <3>4. t - line[j].at >= t3_5
      BY SMT, <1>1, <1>3, <2>2, <3>3, IdleSilence DEF IInv
    <3> QED BY <1>1, <1>2, <1>4, <1>5, <2>2, <3>4, FrameStays
  <2>3. j < Len(line) \/ j = Len(line)
    BY SMT, <1>3, <1>4
  <2> QED BY <2>1, <2>2, <2>3
<1>8. Decided(j)'
  BY SMT, <1>3 DEF Decided
<1> QED BY SMT, <1>2, <1>3, <1>4, <1>5, <1>6, <1>7, <1>8
\* A frame of the longer line was handed out before, or it is the candidate
\* and the byte closes it.
LEMMA ByteComplete ==
    ASSUME IInv, NEW t \in Timestamp, NEW b \in Octet, NEW kind,
           check_timestamp(t), armed(kind, t, b),
           NEW j \in 1 .. Len(line), NEW i \in 1 .. j, IsFrame(i, j)'
    PROVE  \/ [first |-> i, last |-> j, adu |-> Octets(i, j)'] \in delivered
           \/ /\ state.kind = "Collecting" /\ j = Len(line) /\ i = Start
              /\ t - line[j].at >= t3_5 /\ IsFrame(i, j)
<1>1. TypeOK /\ line' = Append(line, [at |-> t, byte |-> b])
  BY DEF IInv, armed
<1>2. /\ Len(line) \in Nat /\ DOMAIN line = 1 .. Len(line)
      /\ Octets(i, j)' = Octets(i, j)
  BY <1>1, LineGrows, StretchesStay
<1>3. IsFrame(i, j) /\ (j = Len(line) => t - line[j].at >= t3_5)
  <2>1. CASE j < Len(line)
    BY <1>1, <2>1, FrameStays
  <2>2. CASE j = Len(line)
    BY <1>1, <2>2, FrameStays
  <2> QED BY SMT, <1>2, <2>1, <2>2
<1>4. CASE Decided(j)
  <2>1. j \in DOMAIN line
    BY <1>2
  <2> QED BY <1>2, <1>3, <1>4, <2>1 DEF IInv, Complete
<1>5. CASE ~Decided(j)
  <2>1. state.kind = "Collecting" /\ j = Len(line)
    <3>1. Len(line) \in Nat
      BY <1>2
    <3>2. ~(j < Len(line)) => j = Len(line)
      BY SMT, <3>1
    <3>3. state.kind = "Collecting" /\ ~(j < Len(line))
      BY <1>5, Zenon DEF Decided
    <3> QED BY <3>2, <3>3
  <2>2. Start \in 1 .. j /\ Clean(Start, j)
    BY SMT, <1>2, <2>1 DEF IInv, CollectingInv, Start
  <2>3. i = Start
    BY <1>1, <1>3, <2>2, CleanUnique DEF IsFrame
  <2> QED BY <1>3, <2>1, <2>3
<1> QED BY <1>4, <1>5

\* A byte that hands nothing out, and closes no candidate by silence, leaves
\* what was handed out sound and complete.
LEMMA ByteQuiet ==
    ASSUME IInv, NEW t \in Timestamp, NEW b \in Octet,
           NEW kind \in {"Collecting", "Quarantined"},
           check_timestamp(t), armed(kind, t, b), QuarantinedInv', delivered' = delivered,
           state.kind = "Collecting" => t - line[Len(line)].at < t3_5
    PROVE  Sound' /\ Complete'
<1>1. TypeOK /\ line' = Append(line, [at |-> t, byte |-> b]) /\ state'.kind = kind
  BY DEF IInv, armed
<1>2. Len(line) \in Nat /\ DOMAIN line' = 1 .. Len(line) + 1 /\ Len(line') = Len(line) + 1
  BY <1>1, LineGrows
<1>3. Sound'
  BY ByteSound DEF Sound
<1>4. ASSUME NEW j \in DOMAIN line', NEW i \in 1 .. j, IsFrame(i, j)', Decided(j)'
      PROVE  [first |-> i, last |-> j, adu |-> Octets(i, j)'] \in delivered
  <2>1. CASE j \in 1 .. Len(line)
    <3>1. \/ [first |-> i, last |-> j, adu |-> Octets(i, j)'] \in delivered
          \/ state.kind = "Collecting" /\ j = Len(line) /\ t - line[j].at >= t3_5
      BY <1>4, <2>1, ByteComplete
    <3>2. ~(state.kind = "Collecting" /\ j = Len(line) /\ t - line[j].at >= t3_5)
      <4> SUFFICES ASSUME state.kind = "Collecting", j = Len(line), t - line[j].at >= t3_5
                   PROVE  FALSE
        OBVIOUS
      <4>1. line[j].at \in Nat /\ t \in Nat
        BY SMT, <1>1, <2>1, LineGrows, BoundsAssumption DEF Timestamp
      <4> QED BY SMT, <4>1, TimingAssumption
    <3> QED BY <3>1, <3>2
  <2>2. CASE j = Len(line')
    <3>1. state'.kind # "Collecting"
      BY SMT, <1>2, <1>4, <2>2 DEF Decided
    <3>2. state'.kind = "Quarantined"
      BY <1>1, <3>1
    <3>3. Clean(i, j)' /\ j - i + 1 =< MAX_ADU_SIZE /\ MAX_ADU_SIZE \in Nat
      BY SMT, <1>2, <1>4, BoundsAssumption DEF IsFrame
    <3>4. i \in DOMAIN line'
      BY SMT, <1>2
    <3> QED BY SMT, <1>2, <2>2, <3>2, <3>3, <3>4 DEF QuarantinedInv
  <2> QED BY SMT, <1>2, <2>1, <2>2
<1> QED BY <1>3, <1>4 DEF Complete

\* A byte accepted leaves a state of the assembler, with the deadline planned.
LEMMA ArmedType ==
    ASSUME TypeOK, NEW t \in Timestamp, NEW b \in Octet,
           NEW kind \in {"Collecting", "Quarantined"}, plan_deadline(t), armed(kind, t, b)
    PROVE  /\ state' \in [kind : {"Idle", "Collecting", "Quarantined"},
                          last : Timestamp, deadline : Deadline]
           /\ last_observed' \in Timestamp
           /\ deadline_sequence' \in 0 .. SEQUENCE_MAX
           /\ line' \in Seq([at : Timestamp, byte : Octet])
<1>1. t + t3_5 \in Nat /\ deadline_sequence + 1 \in 0 .. SEQUENCE_MAX
  BY SMT, BoundsAssumption, TimingAssumption DEF TypeOK, plan_deadline, Timestamp
<1>2. [due_at |-> t + t3_5, sequence |-> deadline_sequence + 1] \in Deadline
  BY SMT, <1>1, BoundsAssumption DEF Deadline
<1>3. line' \in Seq([at : Timestamp, byte : Octet])
  BY SMT DEF TypeOK, armed
<1> QED BY <1>1, <1>2, <1>3 DEF armed

\* A counter other than that of the valid frames.
LEMMA CountsOther ==
    ASSUME TypeOK, NEW class \in Counter, class # "valid_frames", count(class)
    PROVE  /\ diagnostics' \in [Counter -> 0 .. COUNTER_MAX]
           /\ diagnostics'["valid_frames"] = diagnostics["valid_frames"]
<1>1. diagnostics \in [Counter -> 0 .. COUNTER_MAX]
  BY DEF TypeOK
<1>2. saturating_increment(diagnostics[class]) \in 0 .. COUNTER_MAX
  BY SMT, <1>1, BoundsAssumption DEF saturating_increment
<1> QED BY <1>1, <1>2 DEF count, Counter

\* A byte that begins a candidate, at the start of the line or after silence.
LEMMA CandidateStarts ==
    ASSUME IInv, NEW t \in Timestamp, NEW b \in Octet, start_candidate(t, b),
           Len(line) > 0 => t - line[Len(line)].at >= t3_5
    PROVE  CollectingInv' /\ QuarantinedInv' /\ IdleInv'
<1>1. TypeOK /\ line' = Append(line, [at |-> t, byte |-> b]) /\ candidate' = <<b>>
  BY DEF IInv, armed, start_candidate
<1>2. PICK n \in Nat : n = Len(line)
  <2>1. line \in Seq([at : Timestamp, byte : Octet])
    BY <1>1 DEF TypeOK
  <2>2. Len(line) \in Nat
    BY SMT, <2>1
  <2> QED BY <2>2
<1>3. /\ Len(line') = n + 1 /\ Len(candidate') = 1
      /\ line'[n + 1] = [at |-> t, byte |-> b]
  BY <1>1, <1>2, LineGrows
<1>4. Start' = n + 1
  BY SMT, <1>2, <1>3 DEF Start
<1>5. state' = [kind |-> "Collecting", last |-> t, deadline |-> [due_at |-> t + t3_5, sequence |-> deadline_sequence + 1]]
  BY DEF start_candidate, armed
<1>6. candidate' = Octets(n + 1, n + 1)'
  <2>1. Octets(n + 1, n + 1)' = [k \in 1 .. 1 |-> line'[n + k].byte]
    <3>1. n + 1 - (n + 1) + 1 = 1 /\ \A k \in 1 .. 1 : n + 1 + k - 1 = n + k
      BY SMT, <1>2
    <3>2. Octets(n + 1, n + 1)' = [k \in 1 .. n + 1 - (n + 1) + 1 |-> line'[n + 1 + k - 1].byte]
      BY SMT DEF Octets
    <3> QED BY SMT, <3>1, <3>2
  <2>2. \A k \in 1 .. 1 : line'[n + k].byte = b
    BY SMT, <1>2, <1>3
  <2>3. <<b>> = [k \in 1 .. 1 |-> b]
    BY SMT
  <2> QED BY <1>1, <2>1, <2>2, <2>3
<1>7. Clean(n + 1, n + 1)'
  <2>1. n + 1 = 1 \/ Gap(n + 1)' >= t3_5
    <3>1. CASE n = 0
      BY SMT, <3>1
    <3>2. CASE n \in Nat \ {0}
      <4>1. Gap(n + 1)' = t - line[n].at
        BY <1>1, <1>2, <3>2, LineGrows
      <4> QED BY SMT, <4>1, <1>2, <3>2
    <3> QED BY <1>2, <3>1, <3>2
  <2>2. (n + 1) + 1 .. n + 1 = {}
    BY SMT, <1>2
  <2> QED BY <2>1, <2>2 DEF Clean
<1>8. Octets(Start, Len(line))' = Octets(n + 1, n + 1)' /\ Clean(Start, Len(line))' = Clean(n + 1, n + 1)'
  BY <1>3, <1>4
<1>9. CollectingInv'
  BY SMT, <1>2, <1>3, <1>5, <1>6, <1>7, <1>8 DEF CollectingInv
<1> QED BY <1>5, <1>9 DEF QuarantinedInv, IdleInv
-----------------------------------------------------------------------------
(* A boundary closes the candidate.                                        *)

Cut == [first |-> Start, last |-> Len(line), adu |-> candidate]

Good == Len(candidate) >= MIN_ADU_SIZE /\ crc_matches(candidate)

\* The candidate is handed out exactly when it is good, and it was not handed
\* out before.
LEMMA Finishes ==
    ASSUME Counting, IInv, state.kind = "Collecting", finish_candidate
    PROVE  /\ \/ Good /\ delivered' = delivered \cup {Cut}
              \/ ~Good /\ delivered' = delivered
           /\ diagnostics' \in [Counter -> 0 .. COUNTER_MAX]
           /\ delivered' \subseteq [first : Nat, last : Nat, adu : Seq(Octet)]
           /\ Counted'
<1>1. /\ TypeOK /\ Len(line) \in Nat /\ Len(candidate) \in 1 .. Len(line)
      /\ Start \in Nat
  BY SMT DEF IInv, TypeOK, CollectingInv, Start
<1>2. Cut \in [first : Nat, last : Nat, adu : Seq(Octet)]
  BY <1>1 DEF TypeOK, Cut
<1>3. Cut \notin delivered
  <2> SUFFICES ASSUME Cut \in delivered PROVE FALSE
    OBVIOUS
  <2>1. Decided(Cut.last)
    BY DEF IInv, Sound
  <2>2. Cut.last = Len(line)
    BY DEF Cut
  <2>3. Len(line) < Len(line)
    BY <2>1, <2>2 DEF Decided
  <2> QED BY SMT, <1>1, <2>3
<1>4. /\ IsFiniteSet(delivered) /\ Cardinality(delivered) \in Nat
      /\ diagnostics["valid_frames"] =
            IF Cardinality(delivered) < COUNTER_MAX THEN Cardinality(delivered) ELSE COUNTER_MAX
  BY DEF Counting, CountsAreNatural, IInv, Counted
<1>5. CASE Len(candidate) < MIN_ADU_SIZE /\ count("too_short_discards") /\ UNCHANGED delivered
  <2>1. ~Good
    BY SMT, <1>1, <1>5, BoundsAssumption DEF Good
  <2>2. /\ diagnostics' \in [Counter -> 0 .. COUNTER_MAX]
        /\ diagnostics'["valid_frames"] = diagnostics["valid_frames"]
    BY <1>1, <1>5, CountsOther DEF Counter
  <2> QED BY <1>1, <1>4, <1>5, <2>1, <2>2 DEF TypeOK, Counted
<1>6. CASE Len(candidate) >= MIN_ADU_SIZE /\ ~crc_matches(candidate) /\ count("crc_mismatch_discards") /\ UNCHANGED delivered
  <2>1. ~Good
    BY <1>6 DEF Good
  <2>2. /\ diagnostics' \in [Counter -> 0 .. COUNTER_MAX]
        /\ diagnostics'["valid_frames"] = diagnostics["valid_frames"]
    BY <1>1, <1>6, CountsOther DEF Counter
  <2> QED BY <1>1, <1>4, <1>6, <2>1, <2>2 DEF TypeOK, Counted
<1>7. CASE Len(candidate) >= MIN_ADU_SIZE /\ crc_matches(candidate) /\ count("valid_frames") /\ delivered' = delivered \cup {Cut}
  <2>1. Good
    BY <1>7 DEF Good
  <2>2. diagnostics \in [Counter -> 0 .. COUNTER_MAX] /\ "valid_frames" \in Counter
    BY <1>1 DEF TypeOK, Counter
  <2>3. /\ diagnostics' \in [Counter -> 0 .. COUNTER_MAX]
        /\ diagnostics'["valid_frames"] = saturating_increment(diagnostics["valid_frames"])
    <3>1. saturating_increment(diagnostics["valid_frames"]) \in 0 .. COUNTER_MAX
      BY SMT, <2>2, BoundsAssumption DEF saturating_increment
    <3> QED BY <1>7, <2>2, <3>1 DEF count
  <2>4. IsFiniteSet(delivered') /\ Cardinality(delivered') = Cardinality(delivered) + 1
    BY <1>3, <1>4, <1>7 DEF Counting, AddCounts
  <2>5. Counted'
    BY SMT, <1>4, <2>3, <2>4, BoundsAssumption DEF Counted, saturating_increment
  <2>6. delivered' \subseteq [first : Nat, last : Nat, adu : Seq(Octet)]
    BY <1>1, <1>2, <1>7 DEF TypeOK
  <2> QED BY <1>7, <2>1, <2>3, <2>5, <2>6
<1> QED BY <1>5, <1>6, <1>7 DEF finish_candidate, Cut, Start

\* A good candidate is a frame once silence follows it.
LEMMA CutIsFrame ==
    ASSUME IInv, state.kind = "Collecting", NEW n \in Nat, n = Len(line), NEW i \in 1 .. n
    PROVE  IsFrame(i, n) <=> i = Start /\ Good
<1>1. /\ TypeOK /\ n \in 1 .. Len(line) /\ Start \in 1 .. n /\ Clean(Start, n)
      /\ candidate = Octets(Start, n) /\ n - Start + 1 = Len(candidate)
      /\ Len(candidate) \in Nat /\ Len(candidate) =< MAX_ADU_SIZE
  BY SMT DEF IInv, TypeOK, CollectingInv, Start
<1>2. ASSUME IsFrame(i, n) PROVE i = Start /\ Good
  <2>1. i = Start
    BY <1>1, <1>2, CleanUnique DEF IsFrame
  <2>2. Len(candidate) >= MIN_ADU_SIZE /\ crc_matches(candidate)
    BY SMT, <1>1, <1>2, <2>1, BoundsAssumption DEF IsFrame
  <2> QED BY <2>1, <2>2 DEF Good
<1>3. ASSUME i = Start, Good PROVE IsFrame(i, n)
  <2>1. ~(n < Len(line))
    BY SMT, <1>1
  <2>2. n - i + 1 \in MIN_ADU_SIZE .. MAX_ADU_SIZE
    BY SMT, <1>1, <1>3, BoundsAssumption DEF Good
  <2> QED BY <1>1, <1>3, <2>1, <2>2 DEF IsFrame, Good
<1> QED BY <1>2, <1>3
-----------------------------------------------------------------------------
(* One lemma per step.                                                     *)

\* TypeOK' and Counted' of a byte that hands nothing out.
LEMMA ByteTypes ==
    ASSUME IInv, NEW t \in Timestamp, NEW b \in Octet,
           NEW kind \in {"Collecting", "Quarantined"}, plan_deadline(t), armed(kind, t, b),
           candidate' \in Seq(Octet), Len(candidate') =< MAX_ADU_SIZE,
           UNCHANGED delivered,
           UNCHANGED diagnostics \/ \E class \in Counter \ {"valid_frames"} : count(class)
    PROVE  TypeOK' /\ Counted'
<1>1. TypeOK
  BY DEF IInv
<1>2. /\ diagnostics' \in [Counter -> 0 .. COUNTER_MAX]
      /\ diagnostics'["valid_frames"] = diagnostics["valid_frames"]
  <2>1. CASE UNCHANGED diagnostics
    BY <1>1, <2>1 DEF TypeOK
  <2>2. CASE \E class \in Counter \ {"valid_frames"} : count(class)
    BY <1>1, <2>2, CountsOther
  <2> QED BY <2>1, <2>2
<1>3. TypeOK'
  <2>1. delivered' \subseteq [first : Nat, last : Nat, adu : Seq(Octet)]
    BY <1>1 DEF TypeOK
  <2> QED BY <1>1, <1>2, <2>1, ArmedType DEF TypeOK
<1>4. Counted'
  BY <1>2 DEF IInv, Counted
<1> QED BY <1>3, <1>4

\* The first byte after silence keeps the invariant.
LEMMA IdleByte ==
    ASSUME IInv, NEW t \in Timestamp, NEW b \in Octet, check_timestamp(t), plan_deadline(t),
           byte_when_idle(t, b)
    PROVE  IInv'
<1>1. /\ TypeOK /\ state.kind = "Idle" /\ armed("Collecting", t, b)
      /\ candidate' = <<b>> /\ start_candidate(t, b) /\ UNCHANGED <<diagnostics, delivered>>
  BY DEF IInv, byte_when_idle, start_candidate
<1>2. TypeOK' /\ Counted'
  <2>1. candidate' \in Seq(Octet) /\ Len(candidate') =< MAX_ADU_SIZE
    BY SMT, <1>1, BoundsAssumption
  <2> QED BY <1>1, <2>1, ByteTypes
<1>3. CollectingInv' /\ QuarantinedInv' /\ IdleInv'
  BY <1>1, IdleSilence, CandidateStarts DEF IInv
<1>4. Sound' /\ Complete'
  BY <1>1, <1>3, ByteQuiet
<1> QED BY <1>2, <1>3, <1>4 DEF IInv

\* A byte in quarantine keeps the invariant.
LEMMA QuarantinedByte ==
    ASSUME IInv, NEW t \in Timestamp, NEW b \in Octet, check_timestamp(t), plan_deadline(t),
           byte_when_quarantined(t, b)
    PROVE  IInv'
<1>1. /\ TypeOK /\ state.kind = "Quarantined" /\ UNCHANGED delivered
      /\ Len(line) > 0 /\ Len(line) \in Nat /\ DOMAIN line = 1 .. Len(line)
      /\ state.last = line[Len(line)].at
      /\ \A i \in DOMAIN line : Clean(i, Len(line)) => Len(line) - i + 1 > MAX_ADU_SIZE
  BY SMT DEF IInv, TypeOK, QuarantinedInv, byte_when_quarantined
<1>2. CASE t - state.last >= t3_5 /\ start_candidate(t, b) /\ count("quarantine_recoveries")
  <2>1. armed("Collecting", t, b) /\ candidate' = <<b>>
    BY <1>2 DEF start_candidate
  <2>2. CollectingInv' /\ QuarantinedInv' /\ IdleInv'
    BY <1>1, <1>2, CandidateStarts
  <2>3. TypeOK' /\ Counted'
    <3>1. candidate' \in Seq(Octet) /\ Len(candidate') =< MAX_ADU_SIZE
      BY SMT, <2>1, BoundsAssumption
    <3>2. "quarantine_recoveries" \in Counter \ {"valid_frames"}
      BY DEF Counter
    <3> QED BY <1>1, <1>2, <2>1, <3>1, <3>2, ByteTypes
  <2>4. Sound' /\ Complete'
    BY <1>1, <2>1, <2>2, ByteQuiet
  <2> QED BY <2>2, <2>3, <2>4 DEF IInv
<1>3. CASE t - state.last < t3_5 /\ enter_quarantine(t, b) /\ UNCHANGED diagnostics
  <2>1. armed("Quarantined", t, b) /\ candidate' = <<>> /\ line' = Append(line, [at |-> t, byte |-> b])
    BY <1>3 DEF enter_quarantine, armed
  <2>2. PICK n \in Nat \ {0} : n = Len(line)
    <3>1. Len(line) \in Nat \ {0}
      BY SMT, <1>1
    <3> QED BY <3>1
  <2>3. /\ Len(line') = n + 1 /\ DOMAIN line' = 1 .. n + 1 /\ Gap(n + 1)' = t - line[n].at
        /\ line'[n + 1] = [at |-> t, byte |-> b] /\ line[n].at \in Nat
    <3>1. n \in 1 .. Len(line)
      BY SMT, <2>2
    <3> QED BY <1>1, <2>1, <2>2, <3>1, LineGrows
  <2>4. ASSUME NEW i \in 1 .. n + 1, Clean(i, n + 1)'
        PROVE  n + 1 - i + 1 > MAX_ADU_SIZE
    <3>1. i # n + 1
      <4> SUFFICES ASSUME i = n + 1 PROVE FALSE
        OBVIOUS
      <4>1. Gap(n + 1)' >= t3_5
        BY SMT, <2>2, <2>4 DEF Clean
      <4>2. t \in Nat /\ Gap(n + 1)' = t - state.last /\ state.last \in Nat
        BY SMT, <1>1, <2>2, <2>3, BoundsAssumption DEF Timestamp
      <4> QED BY SMT, <1>3, <4>1, <4>2, TimingAssumption
    <3>2. i \in 1 .. n
      BY SMT, <2>2, <3>1
    <3>3. Clean(i, n)'
      BY SMT, <2>2, <2>4, <3>2 DEF Clean
    <3>4. Clean(i, n)
      BY SMT, <1>1, <2>1, <2>2, <3>2, <3>3, StretchesStay
    <3>5. n - i + 1 > MAX_ADU_SIZE
      BY <1>1, <2>2, <3>2, <3>4
    <3> QED BY SMT, <2>2, <3>2, <3>5, BoundsAssumption
  <2>5. state' = [kind |-> "Quarantined", last |-> t, deadline |-> [due_at |-> t + t3_5, sequence |-> deadline_sequence + 1]]
    BY <2>1 DEF armed
  <2>6. QuarantinedInv'
    <3>1. \A i \in DOMAIN line' : Clean(i, Len(line))' => Len(line') - i + 1 > MAX_ADU_SIZE
      BY SMT, <2>3, <2>4
    <3> QED BY SMT, <2>2, <2>3, <2>5, <3>1 DEF QuarantinedInv
  <2>7. CollectingInv' /\ IdleInv'
    BY <2>5 DEF CollectingInv, IdleInv
  <2>8. TypeOK' /\ Counted'
    <3>1. candidate' \in Seq(Octet) /\ Len(candidate') =< MAX_ADU_SIZE
      BY SMT, <2>1, BoundsAssumption
    <3> QED BY <1>1, <1>3, <2>1, <3>1, ByteTypes
  <2>9. Sound' /\ Complete'
    BY <1>1, <2>1, <2>6, ByteQuiet
  <2> QED BY <2>6, <2>7, <2>8, <2>9 DEF IInv
<1> QED BY <1>2, <1>3 DEF byte_when_quarantined
\* Silence, then a byte: the candidate is closed and the next one begins.
LEMMA BoundaryByte ==
    ASSUME Counting, IInv, NEW t \in Timestamp, NEW b \in Octet, check_timestamp(t), plan_deadline(t),
           state.kind = "Collecting", t - state.last >= t3_5,
           finish_candidate, start_candidate(t, b)
    PROVE  IInv'
<1>1. /\ TypeOK /\ armed("Collecting", t, b) /\ candidate' = <<b>>
      /\ line' = Append(line, [at |-> t, byte |-> b]) /\ state'.kind = "Collecting"
  BY DEF IInv, start_candidate, armed
<1>2. /\ Len(line) \in Nat /\ Len(candidate) \in 1 .. Len(line) /\ Start \in 1 .. Len(line)
      /\ state.last = line[Len(line)].at /\ candidate = Octets(Start, Len(line))
  BY SMT, <1>1 DEF IInv, TypeOK, CollectingInv, Start
<1>3. /\ \/ Good /\ delivered' = delivered \cup {Cut}
         \/ ~Good /\ delivered' = delivered
      /\ diagnostics' \in [Counter -> 0 .. COUNTER_MAX]
      /\ delivered' \subseteq [first : Nat, last : Nat, adu : Seq(Octet)]
      /\ Counted'
  BY Finishes
<1>4. TypeOK'
  <2>1. candidate' \in Seq(Octet) /\ Len(candidate') =< MAX_ADU_SIZE
    BY SMT, <1>1, BoundsAssumption
  <2> QED BY <1>1, <1>3, <2>1, ArmedType DEF TypeOK
<1>5. CollectingInv' /\ QuarantinedInv' /\ IdleInv'
  BY <1>2, CandidateStarts
<1>6. PICK n \in 1 .. Len(line) : n = Len(line)
  BY SMT, <1>2
<1>7. PICK s \in 1 .. n : s = Start
  BY <1>2, <1>6
<1>8. /\ Len(line') = n + 1 /\ DOMAIN line' = 1 .. n + 1 /\ n \in Nat
      /\ Octets(s, n)' = Octets(s, n) /\ Cut = [first |-> s, last |-> n, adu |-> Octets(s, n)']
  BY <1>1, <1>2, <1>6, <1>7, LineGrows, StretchesStay DEF Cut
<1>9. \A i \in 1 .. n : IsFrame(i, n)' = IsFrame(i, n)
  BY <1>1, <1>2, <1>6, FrameStays
<1>10. Sound'
  <2> SUFFICES ASSUME NEW f \in delivered'
               PROVE  /\ f.first \in DOMAIN line' /\ f.last \in f.first .. Len(line')
                      /\ IsFrame(f.first, f.last)' /\ Decided(f.last)'
                      /\ f.adu = Octets(f.first, f.last)'
    BY DEF Sound
  <2>1. CASE f \in delivered
    BY <1>1, <2>1, ByteSound
  <2>2. CASE f = Cut /\ Good
    <3>1. f.first = s /\ f.last = n /\ f.adu = Octets(s, n)'
      BY <1>8, <2>2
    <3>2. IsFrame(s, n)
      BY <1>6, <1>7, <1>8, <2>2, CutIsFrame
    <3>3. IsFrame(s, n)'
      BY <1>7, <1>9, <3>2
    <3>4. Decided(n)'
      BY SMT, <1>8 DEF Decided
    <3>5. s \in DOMAIN line' /\ n \in s .. Len(line')
      BY SMT, <1>6, <1>7, <1>8
    <3> QED BY <3>1, <3>3, <3>4, <3>5
  <2> QED BY <1>3, <2>1, <2>2
<1>11. Complete'
  <2> SUFFICES ASSUME NEW j \in DOMAIN line', NEW i \in 1 .. j, IsFrame(i, j)', Decided(j)'
               PROVE  [first |-> i, last |-> j, adu |-> Octets(i, j)'] \in delivered'
    BY DEF Complete
  <2>1. j \in 1 .. Len(line)
    <3>1. j < Len(line')
      BY <1>1 DEF Decided
    <3> QED BY SMT, <1>6, <1>8, <3>1
  <2>2. \/ [first |-> i, last |-> j, adu |-> Octets(i, j)'] \in delivered
        \/ j = n /\ i = s /\ IsFrame(i, j)
    BY <1>1, <1>6, <1>7, <2>1, ByteComplete
  <2>3. CASE j = n /\ i = s /\ IsFrame(i, j)
    <3>1. Good
      BY <1>6, <1>7, <1>8, <2>3, CutIsFrame
    <3> QED BY <1>3, <1>8, <2>3, <3>1
  <2> QED BY <1>3, <2>2, <2>3
<1> QED BY <1>3, <1>4, <1>5, <1>10, <1>11 DEF IInv

\* What is known of the candidate while it is collected.
LEMMA Collects ==
    ASSUME IInv, state.kind = "Collecting"
    PROVE  /\ Len(line) \in Nat /\ Len(candidate) \in 1 .. Len(line)
           /\ Start = Len(line) - Len(candidate) + 1 /\ Start \in 1 .. Len(line)
           /\ state.last = line[Len(line)].at /\ Clean(Start, Len(line))
           /\ candidate = Octets(Start, Len(line))
           /\ candidate \in Seq(Octet) /\ Len(candidate) =< MAX_ADU_SIZE
           /\ Len(candidate) \in Int /\ Len(line) \in 1 .. Len(line)
<1>1. line \in Seq([at : Timestamp, byte : Octet]) /\ candidate \in Seq(Octet) /\ Len(candidate) =< MAX_ADU_SIZE
  BY DEF IInv, TypeOK
<1>2. /\ Len(candidate) \in 1 .. Len(line) /\ candidate = Octets(Start, Len(line))
      /\ Clean(Start, Len(line)) /\ state.last = line[Len(line)].at
  BY DEF IInv, CollectingInv
<1>3. Len(line) \in Nat
  BY SMT, <1>1
<1>4. Start = Len(line) - Len(candidate) + 1
  BY DEF Start
<1>5. Start \in 1 .. Len(line)
  BY SMT, <1>2, <1>3, <1>4
<1>6. Len(candidate) \in Int /\ Len(line) \in 1 .. Len(line)
  BY SMT, <1>2, <1>3
<1> QED BY <1>1, <1>2, <1>3, <1>4, <1>5, <1>6

\* The arithmetic of one more byte.
LEMMA OneMore ==
    \A n \in Nat \ {0} : n + 1 > 0 /\ \A s \in Nat : (n + 1) - s + 1 = n - s + 2
  BY SMT

\* A gap between t1.5 and t3.5, or a byte past the largest frame: the candidate
\* is dropped and no frame ends with this byte.
LEMMA DiscardingByte ==
    ASSUME IInv, NEW t \in Timestamp, NEW b \in Octet, check_timestamp(t), plan_deadline(t),
           state.kind = "Collecting", t - state.last < t3_5,
           t - state.last > t1_5 \/ Len(candidate) = MAX_ADU_SIZE,
           enter_quarantine(t, b), UNCHANGED delivered,
           NEW class \in Counter \ {"valid_frames"}, count(class)
    PROVE  IInv'
<1>1. /\ TypeOK /\ armed("Quarantined", t, b) /\ candidate' = <<>>
      /\ line' = Append(line, [at |-> t, byte |-> b])
      /\ state' = [kind |-> "Quarantined", last |-> t,
                   deadline |-> [due_at |-> t + t3_5, sequence |-> deadline_sequence + 1]]
  BY DEF IInv, enter_quarantine, armed
<1>2. /\ Len(line) \in Nat /\ Len(candidate) \in 1 .. Len(line) /\ Start \in 1 .. Len(line)
      /\ state.last = line[Len(line)].at /\ Clean(Start, Len(line))
      /\ Start = Len(line) - Len(candidate) + 1 /\ Len(line) \in 1 .. Len(line)
  BY Collects
<1>3. PICK n \in 1 .. Len(line) : n = Len(line)
  BY <1>2
<1>4. /\ Len(line') = n + 1 /\ DOMAIN line' = 1 .. n + 1 /\ n \in Nat \ {0}
      /\ Gap(n + 1)' = t - state.last /\ t - state.last \in Int
      /\ line'[n + 1] = [at |-> t, byte |-> b] /\ line'[n + 1].at = t /\ n + 1 > 0
  <2>1. n \in Nat \ {0} /\ n + 1 > 0
    BY SMT, <1>2, <1>3, OneMore
  <2>2. Gap(n + 1)' = t - line[n].at /\ line[n].at \in Nat
    BY <1>1, <1>3, <2>1, LineGrows
  <2>3. t \in Nat
    BY SMT, BoundsAssumption DEF Timestamp
  <2>4. /\ Len(line') = n + 1 /\ DOMAIN line' = 1 .. n + 1
        /\ line'[n + 1] = [at |-> t, byte |-> b]
    BY <1>1, <1>3, LineGrows
  <2>5. Gap(n + 1)' = t - state.last /\ t - state.last \in Int
    BY SMT, <1>2, <1>3, <2>2, <2>3
  <2>6. line'[n + 1].at = t
    BY SMT, <2>4
  <2> QED BY <2>1, <2>4, <2>5, <2>6
<1>5. ASSUME NEW i \in 1 .. n + 1, Clean(i, n + 1)'
      PROVE  n + 1 - i + 1 > MAX_ADU_SIZE
  <2>1. i # n + 1
    <3> SUFFICES ASSUME i = n + 1 PROVE FALSE
      OBVIOUS
    <3>1. Gap(n + 1)' >= t3_5
      BY SMT, <1>4, <1>5 DEF Clean
    <3> QED BY SMT, <1>4, <3>1, TimingAssumption
  <2>2. i \in 1 .. n
    BY SMT, <1>4, <2>1
  <2>3. Clean(i, n)' /\ Gap(n + 1)' =< t1_5
    BY SMT, <1>4, <1>5, <2>2 DEF Clean
  <2>4. Len(candidate) = MAX_ADU_SIZE
    BY SMT, <1>4, <2>3, TimingAssumption
  <2>5. Clean(i, n)
    BY <1>1, <1>3, <2>2, <2>3, StretchesStay
  <2>6. i = Start
    BY <1>1, <1>2, <1>3, <2>2, <2>5, CleanUnique
  <2>7. i = n - MAX_ADU_SIZE + 1
    BY <1>2, <1>3, <2>4, <2>6
  <2>8. n \in Nat /\ MAX_ADU_SIZE \in Nat
    BY <1>4, BoundsAssumption
  <2> QED BY SMT, <2>7, <2>8
<1>6. QuarantinedInv'
  <2>0. DOMAIN line' = 1 .. n + 1 /\ Len(line') = n + 1
    BY <1>4
  <2>1. \A i \in DOMAIN line' : Clean(i, Len(line))' => Len(line') - i + 1 > MAX_ADU_SIZE
    BY SMT, <1>5, <2>0
  <2>2. n + 1 > 0 /\ Len(line') = n + 1 /\ line'[n + 1].at = t
    BY <1>4
  <2>3. state'.last = t /\ state'.deadline.due_at = t + t3_5
    BY <1>1
  <2>4. Len(line') > 0 /\ state'.last = line'[Len(line')].at
    BY <2>2, <2>3
  <2> QED BY <2>1, <2>3, <2>4 DEF QuarantinedInv
<1>7. CollectingInv' /\ IdleInv'
  BY <1>1 DEF CollectingInv, IdleInv
<1>8. TypeOK' /\ Counted'
  <2>1. candidate' \in Seq(Octet) /\ Len(candidate') =< MAX_ADU_SIZE
    BY SMT, <1>1, BoundsAssumption
  <2> QED BY <1>1, <2>1, ByteTypes
<1>9. Sound' /\ Complete'
  BY <1>1, <1>2, <1>6, ByteQuiet
<1> QED BY <1>6, <1>7, <1>8, <1>9 DEF IInv

\* A byte within t1.5: the candidate grows.
LEMMA GrowingByte ==
    ASSUME IInv, NEW t \in Timestamp, NEW b \in Octet, check_timestamp(t), plan_deadline(t),
           state.kind = "Collecting", t - state.last =< t1_5,
           Len(candidate) # MAX_ADU_SIZE, candidate' = Append(candidate, b),
           armed("Collecting", t, b), UNCHANGED <<diagnostics, delivered>>
    PROVE  IInv'
<1>1. /\ TypeOK /\ line' = Append(line, [at |-> t, byte |-> b])
      /\ state' = [kind |-> "Collecting", last |-> t,
                   deadline |-> [due_at |-> t + t3_5, sequence |-> deadline_sequence + 1]]
  BY DEF IInv, armed
<1>2. /\ Len(line) \in Nat /\ Len(candidate) \in 1 .. Len(line) /\ Start \in 1 .. Len(line)
      /\ state.last = line[Len(line)].at /\ Clean(Start, Len(line))
      /\ candidate = Octets(Start, Len(line)) /\ Start = Len(line) - Len(candidate) + 1
      /\ candidate \in Seq(Octet) /\ Len(candidate) =< MAX_ADU_SIZE
      /\ Len(candidate) \in Int /\ Len(line) \in 1 .. Len(line)
  BY Collects
<1>3. PICK n \in 1 .. Len(line) : n = Len(line)
  BY <1>2
<1>4. PICK s \in 1 .. n : s = Start
  BY <1>2, <1>3
<1>5. /\ Len(line') = n + 1 /\ n \in Nat \ {0} /\ s \in Nat
      /\ Gap(n + 1)' = t - state.last /\ t - state.last \in Int
      /\ line'[n + 1] = [at |-> t, byte |-> b]
  <2>1. n \in Nat \ {0} /\ s \in Nat
    <3>1. Len(line) \in Nat
      BY <1>2
    <3>2. n \in Nat \ {0}
      BY SMT, <3>1
    <3> QED BY SMT, <3>2
  <2>2. Gap(n + 1)' = t - line[n].at /\ line[n].at \in Nat
    BY <1>1, <1>3, <2>1, LineGrows
  <2>3. t \in Nat
    BY SMT, BoundsAssumption DEF Timestamp
  <2>4. /\ Len(line') = n + 1 /\ DOMAIN line' = 1 .. n + 1
        /\ line'[n + 1] = [at |-> t, byte |-> b]
    BY <1>1, <1>3, LineGrows
  <2>5. Gap(n + 1)' = t - state.last /\ t - state.last \in Int
    BY SMT, <1>2, <1>3, <2>2, <2>3
  <2> QED BY <2>1, <2>4, <2>5
<1>6. Len(candidate') = n - s + 2 /\ Start' = s
  <2>1. Len(candidate') = Len(candidate) + 1
    BY SMT, <1>2
  <2> QED BY SMT, <1>2, <1>3, <1>4, <1>5, <2>1 DEF Start
<1>7. Clean(s, n + 1)'
  <2>1. Clean(s, n)'
    BY <1>1, <1>2, <1>3, <1>4, StretchesStay
  <2>2. \A k \in s + 1 .. n + 1 : k \in s + 1 .. n \/ k = n + 1
    BY SMT, <1>5
  <2> QED BY <1>5, <2>1, <2>2 DEF Clean
<1>8. candidate' = Octets(s, n + 1)'
  <2>1. Octets(s, n)' = candidate
    BY <1>1, <1>2, <1>3, <1>4, StretchesStay
  <2>2. Octets(s, n)' = [k \in 1 .. n - s + 1 |-> line'[s + k - 1].byte]
    BY DEF Octets
  <2>3. Octets(s, n + 1)' = [k \in 1 .. n - s + 2 |-> line'[s + k - 1].byte]
    <3>1. (n + 1) - s + 1 = n - s + 2
      BY <1>5, OneMore
    <3> QED BY <3>1 DEF Octets
  <2>4. Len(candidate) = n - s + 1
    <3>1. s = n - Len(candidate) + 1
      BY <1>2, <1>3, <1>4
    <3>2. n \in Nat /\ s \in Nat
      BY <1>5
    <3>3. Len(candidate) \in Int
      BY <1>2
    <3> QED BY SMT, <3>1, <3>2, <3>3
  <2>5. candidate' = [k \in 1 .. n - s + 2 |-> IF k = n - s + 2 THEN b ELSE candidate[k]]
    <3>1. n - s + 1 + 1 = n - s + 2 /\ \A k \in 1 .. n - s + 2 : k # n - s + 2 => k \in 1 .. n - s + 1
      BY SMT, <1>5
    <3>2. /\ candidate' \in Seq(Octet) /\ Len(candidate') = Len(candidate) + 1
          /\ \A k \in 1 .. Len(candidate) : candidate'[k] = candidate[k]
          /\ candidate'[Len(candidate) + 1] = b
      BY SMT, <1>2, AppendProperties
    <3>3. candidate' = [k \in 1 .. Len(candidate') |-> candidate'[k]]
      <4>1. candidate' \in [1 .. Len(candidate') -> Octet]
        BY <3>2, LenProperties
      <4> QED BY <4>1
    <3> QED BY <2>4, <3>1, <3>2, <3>3
  <2>6. ASSUME NEW k \in 1 .. n - s + 2
        PROVE  (IF k = n - s + 2 THEN b ELSE candidate[k]) = line'[s + k - 1].byte
    <3>1. CASE k = n - s + 2
      <4>1. s + k - 1 = n + 1
        BY SMT, <1>5, <3>1
      <4> QED BY SMT, <1>5, <3>1, <4>1
    <3>2. CASE k # n - s + 2
      <4>1. n \in Nat /\ s \in Nat
        BY <1>5
      <4>2. k \in 1 .. n - s + 1
        BY SMT, <3>2, <4>1
      <4> QED BY <2>1, <2>2, <3>2, <4>2
    <3> QED BY <3>1, <3>2
  <2> QED BY <2>3, <2>5, <2>6
<1>9. CollectingInv'
  <2>1. Octets(Start, Len(line))' = Octets(s, n + 1)' /\ Clean(Start, Len(line))' = Clean(s, n + 1)'
    BY <1>5, <1>6
  <2>2. Len(candidate') \in 1 .. Len(line')
    BY SMT, <1>4, <1>5, <1>6
  <2>3. candidate' = Octets(Start, Len(line))' /\ Clean(Start, Len(line))'
    BY <1>7, <1>8, <2>1
  <2>4. state'.last = line'[Len(line')].at /\ state'.deadline.due_at = state'.last + t3_5
    <3>1. line'[Len(line')].at = t
      BY SMT, <1>5
    <3>2. state'.last = t /\ state'.deadline.due_at = t + t3_5
      BY <1>1
    <3> QED BY <3>1, <3>2
  <2> QED BY <2>2, <2>3, <2>4 DEF CollectingInv
<1>10. QuarantinedInv' /\ IdleInv'
  BY <1>1 DEF QuarantinedInv, IdleInv
<1>11. TypeOK' /\ Counted'
  <2>1. candidate' \in Seq(Octet) /\ Len(candidate') =< MAX_ADU_SIZE
    BY SMT, <1>2, BoundsAssumption
  <2> QED BY <1>1, <2>1, ByteTypes
<1>12. Sound' /\ Complete'
  <2>1. t - line[Len(line)].at < t3_5
    <3>1. t - state.last \in Int
      BY <1>5
    <3>2. t - state.last < t3_5
      BY SMT, <3>1, TimingAssumption
    <3>3. state.last = line[Len(line)].at
      BY <1>2
    <3> QED BY <3>2, <3>3
  <2> QED BY <1>1, <1>10, <2>1, ByteQuiet
<1> QED BY <1>9, <1>10, <1>11, <1>12 DEF IInv

\* A deadline that is due: the candidate is closed, or the quarantine is over.
LEMMA DueDeadline ==
    ASSUME Counting, IInv, NEW at \in Timestamp, at >= state.deadline.due_at, deadline_elapses(at)
    PROVE  IInv'
<1>1. /\ TypeOK /\ state' = Idle /\ state'.kind = "Idle" /\ candidate' = <<>> /\ last_observed' = at
      /\ deadline_sequence' = deadline_sequence /\ line' = line
      /\ Len(line) \in Nat /\ DOMAIN line = 1 .. Len(line)
  <2>1. TypeOK
    BY DEF IInv
  <2>2. line \in Seq([at : Timestamp, byte : Octet])
    BY <2>1 DEF TypeOK
  <2>3. Len(line) \in Nat /\ DOMAIN line = 1 .. Len(line)
    BY <2>2, LenProperties
  <2>4. /\ state' = Idle /\ candidate' = <<>> /\ last_observed' = at
        /\ deadline_sequence' = deadline_sequence /\ line' = line
    BY DEF deadline_elapses
  <2>5. Idle.kind = "Idle"
    BY DEF Idle
  <2> QED BY <2>1, <2>3, <2>4, <2>5
<1>2. IdleInv'
  <2>1. state.deadline.due_at = line[Len(line)].at + t3_5
    BY DEF IInv, CollectingInv, QuarantinedInv, deadline_elapses
  <2> QED BY <1>1, <2>1 DEF IdleInv
<1>3. CollectingInv' /\ QuarantinedInv'
  BY <1>1 DEF CollectingInv, QuarantinedInv
<1>4. \A i, j : Octets(i, j)' = Octets(i, j) /\ IsFrame(i, j)' = IsFrame(i, j)
  <2>1. \A i, j : Octets(i, j)' = Octets(i, j)
    BY <1>1 DEF Octets
  <2>2. \A i, j : Clean(i, j)' = Clean(i, j)
    BY <1>1 DEF Clean, Gap
  <2> QED BY <1>1, <2>1, <2>2 DEF IsFrame, Gap
<1>5. \A j : Decided(j)'
  BY <1>1 DEF Decided
<1>6. ASSUME diagnostics' \in [Counter -> 0 .. COUNTER_MAX],
             delivered' \subseteq [first : Nat, last : Nat, adu : Seq(Octet)]
      PROVE  TypeOK'
  <2>1. Idle \in [kind : {"Idle", "Collecting", "Quarantined"}, last : Timestamp, deadline : Deadline]
    BY SMT, BoundsAssumption DEF Idle, NoDeadline, Deadline, Timestamp
  <2>2. candidate' \in Seq(Octet) /\ Len(candidate') =< MAX_ADU_SIZE
    BY SMT, <1>1, BoundsAssumption
  <2> QED BY <1>1, <1>6, <2>1, <2>2 DEF TypeOK
<1>7. CASE state.kind = "Collecting" /\ finish_candidate
  <2>1. /\ \/ Good /\ delivered' = delivered \cup {Cut}
           \/ ~Good /\ delivered' = delivered
        /\ diagnostics' \in [Counter -> 0 .. COUNTER_MAX]
        /\ delivered' \subseteq [first : Nat, last : Nat, adu : Seq(Octet)]
        /\ Counted'
    BY <1>7, Finishes
  <2>2. Start \in 1 .. Len(line) /\ candidate = Octets(Start, Len(line))
    BY <1>7, Collects
  <2>3. PICK n \in 1 .. Len(line) : n = Len(line)
    <3>1. Len(line) \in Nat
      BY <1>1
    <3>2. Len(line) \in 1 .. Len(line)
      BY SMT, <2>2, <3>1
    <3> QED BY <3>2
  <2>4. PICK s \in 1 .. n : s = Start
    BY <2>2, <2>3
  <2>5. Cut = [first |-> s, last |-> n, adu |-> Octets(s, n)] /\ n \in Nat
    BY <1>1, <2>2, <2>3, <2>4 DEF Cut
  <2>6. Sound'
    <3> SUFFICES ASSUME NEW f \in delivered'
                 PROVE  /\ f.first \in DOMAIN line' /\ f.last \in f.first .. Len(line')
                        /\ IsFrame(f.first, f.last)' /\ Decided(f.last)'
                        /\ f.adu = Octets(f.first, f.last)'
      BY DEF Sound
    <3>1. CASE f \in delivered
      BY <1>1, <1>4, <1>5, <3>1 DEF IInv, Sound
    <3>2. CASE f = Cut /\ Good
      <4>1. f.first = s /\ f.last = n /\ f.adu = Octets(s, n)
        BY <2>5, <3>2
      <4>2. IsFrame(s, n)
        BY <1>7, <2>3, <2>4, <2>5, <3>2, CutIsFrame
      <4>3. s \in DOMAIN line' /\ n \in s .. Len(line')
        BY SMT, <1>1, <2>3, <2>4
      <4> QED BY <1>4, <1>5, <4>1, <4>2, <4>3
    <3> QED BY <2>1, <3>1, <3>2
  <2>7. Complete'
    <3> SUFFICES ASSUME NEW j \in DOMAIN line', NEW i \in 1 .. j, IsFrame(i, j)', Decided(j)'
                 PROVE  [first |-> i, last |-> j, adu |-> Octets(i, j)'] \in delivered'
      BY DEF Complete
    <3>1. j \in 1 .. n /\ IsFrame(i, j) /\ j \in DOMAIN line
      BY <1>1, <1>4, <2>3
    <3>2. CASE j < n
      <4>1. Decided(j)
        BY <2>3, <3>2 DEF Decided
      <4>2. [first |-> i, last |-> j, adu |-> Octets(i, j)] \in delivered
        BY <3>1, <4>1 DEF IInv, Complete
      <4> QED BY <1>4, <2>1, <4>2
    <3>3. CASE j = n
      <4>1. i = s /\ Good
        BY <1>7, <2>3, <2>4, <2>5, <3>1, <3>3, CutIsFrame
      <4> QED BY <1>4, <2>1, <2>5, <3>3, <4>1
    <3>4. j < n \/ j = n
      BY SMT, <2>5, <3>1
    <3> QED BY <3>2, <3>3, <3>4
  <2> QED BY <1>2, <1>3, <1>6, <2>1, <2>6, <2>7 DEF IInv
<1>8. CASE state.kind = "Quarantined" /\ count("quarantine_recoveries") /\ UNCHANGED delivered
  <2>1. /\ diagnostics' \in [Counter -> 0 .. COUNTER_MAX]
        /\ diagnostics'["valid_frames"] = diagnostics["valid_frames"]
    BY <1>1, <1>8, CountsOther DEF Counter
  <2>2. TypeOK' /\ Counted'
    BY <1>1, <1>6, <1>8, <2>1 DEF IInv, TypeOK, Counted
  <2>3. \A j : Decided(j)
    BY <1>8 DEF Decided
  <2>4. Sound' /\ Complete'
    BY <1>1, <1>4, <1>5, <1>8, <2>3 DEF IInv, Sound, Complete
  <2> QED BY <1>2, <1>3, <2>2, <2>4 DEF IInv
<1> QED BY <1>7, <1>8 DEF deadline_elapses

-----------------------------------------------------------------------------
(* The theorems.                                                           *)

\* A new assembler satisfies the invariant.
LEMMA Initially ==
    ASSUME Counting, Init
    PROVE  IInv
<1>1. /\ state = Idle /\ state.kind = "Idle" /\ candidate = <<>> /\ last_observed = 0
      /\ deadline_sequence = 0 /\ diagnostics = [c \in Counter |-> 0]
      /\ line = <<>> /\ delivered = {} /\ Len(line) = 0 /\ DOMAIN line = {}
  BY SMT DEF Init, Idle
<1>2. TypeOK
  <2>1. Idle \in [kind : {"Idle", "Collecting", "Quarantined"}, last : Timestamp, deadline : Deadline]
    BY SMT, BoundsAssumption DEF Idle, NoDeadline, Deadline, Timestamp
  <2>2. candidate \in Seq(Octet) /\ Len(candidate) =< MAX_ADU_SIZE
    BY SMT, <1>1, BoundsAssumption
  <2>3. line \in Seq([at : Timestamp, byte : Octet])
    BY SMT, <1>1
  <2> QED BY SMT, <1>1, <2>1, <2>2, <2>3, BoundsAssumption DEF TypeOK, Timestamp
<1>3. CollectingInv /\ QuarantinedInv /\ IdleInv
  BY SMT, <1>1 DEF CollectingInv, QuarantinedInv, IdleInv
<1>4. Sound /\ Complete
  BY <1>1 DEF Sound, Complete
<1>5. Counted
  BY SMT, <1>1, BoundsAssumption DEF Counting, EmptyCounts, Counted, Counter
<1> QED BY <1>2, <1>3, <1>4, <1>5 DEF IInv

\* A rejected byte and an ignored deadline keep the invariant.
LEMMA Stutters ==
    ASSUME IInv, UNCHANGED vars
    PROVE  IInv'
<1>1. /\ state' = state /\ candidate' = candidate /\ last_observed' = last_observed
      /\ deadline_sequence' = deadline_sequence /\ diagnostics' = diagnostics
      /\ line' = line /\ delivered' = delivered
  BY DEF vars, assembler
<1>2. TypeOK' /\ Counted'
  BY <1>1 DEF IInv, TypeOK, Counted
<1>3. CollectingInv' /\ QuarantinedInv' /\ IdleInv'
  BY <1>1 DEF IInv, CollectingInv, QuarantinedInv, IdleInv, Start, Clean, Gap, Octets
<1>4. \A i, j : Octets(i, j)' = Octets(i, j) /\ IsFrame(i, j)' = IsFrame(i, j)
  <2>1. \A i, j : Octets(i, j)' = Octets(i, j)
    BY <1>1 DEF Octets
  <2>2. \A i, j : Clean(i, j)' = Clean(i, j)
    BY <1>1 DEF Clean, Gap
  <2> QED BY <1>1, <2>1, <2>2 DEF IsFrame, Gap
<1>5. \A j : Decided(j)' = Decided(j)
  BY <1>1 DEF Decided
<1>6. Sound' /\ Complete'
  BY <1>1, <1>4, <1>5 DEF IInv, Sound, Complete
<1> QED BY <1>2, <1>3, <1>6 DEF IInv

\* Every call of the assembler keeps the invariant.
LEMMA Preserved ==
    ASSUME Counting, IInv, [Next]_vars
    PROVE  IInv'
<1>1. ASSUME NEW t \in Timestamp, NEW b \in Octet, observe_byte(t, b) PROVE IInv'
  <2>1. CASE byte_rejected(t)
    BY <2>1, Stutters DEF byte_rejected
  <2>2. CASE check_timestamp(t) /\ plan_deadline(t) /\ byte_when_idle(t, b)
    BY <2>2, IdleByte
  <2>3. CASE check_timestamp(t) /\ plan_deadline(t) /\ byte_when_quarantined(t, b)
    BY <2>3, QuarantinedByte
  <2>4. CASE check_timestamp(t) /\ plan_deadline(t) /\ byte_when_collecting(t, b)
    <3>1. state.kind = "Collecting" /\ t - state.last \in Int
      <4>1. t \in Int /\ state.last \in Int
        BY SMT, BoundsAssumption DEF IInv, TypeOK, Timestamp
      <4> QED BY SMT, <2>4, <4>1 DEF byte_when_collecting
    <3>2. CASE t - state.last >= t3_5 /\ finish_candidate /\ start_candidate(t, b)
      BY <2>4, <3>1, <3>2, BoundaryByte
    <3>3. CASE /\ t - state.last < t3_5 /\ t - state.last > t1_5
               /\ count("inter_character_discards") /\ enter_quarantine(t, b) /\ UNCHANGED delivered
      <4>1. "inter_character_discards" \in Counter \ {"valid_frames"}
        BY DEF Counter
      <4> QED BY <2>4, <3>1, <3>3, <4>1, DiscardingByte
    <3>4. CASE /\ t - state.last =< t1_5 /\ Len(candidate) = MAX_ADU_SIZE
               /\ count("overlength_discards") /\ enter_quarantine(t, b) /\ UNCHANGED delivered
      <4>1. "overlength_discards" \in Counter \ {"valid_frames"}
        BY DEF Counter
      <4>2. t - state.last < t3_5
        BY SMT, <3>1, <3>4, TimingAssumption
      <4> QED BY <2>4, <3>1, <3>4, <4>1, <4>2, DiscardingByte
    <3>5. CASE /\ t - state.last =< t1_5 /\ Len(candidate) # MAX_ADU_SIZE
               /\ candidate' = Append(candidate, b) /\ armed("Collecting", t, b)
               /\ UNCHANGED <<diagnostics, delivered>>
      BY <2>4, <3>1, <3>5, GrowingByte
    <3> QED BY <2>4, <3>2, <3>3, <3>4, <3>5 DEF byte_when_collecting
  <2> QED BY <1>1, <2>1, <2>2, <2>3, <2>4 DEF observe_byte
<1>2. ASSUME NEW d \in Issued, NEW t \in Timestamp, observe_deadline(d, t) PROVE IInv'
  <2>1. CASE deadline_ignored(d, t)
    BY <2>1, Stutters DEF deadline_ignored
  <2>2. CASE state.deadline = d /\ t >= d.due_at /\ deadline_elapses(t)
    BY <2>2, DueDeadline
  <2> QED BY <1>2, <2>1, <2>2 DEF observe_deadline
<1>3. CASE UNCHANGED vars
  BY <1>3, Stutters
<1> QED BY <1>1, <1>2, <1>3 DEF Next

=============================================================================

------------------------------- MODULE Bytes -------------------------------
(***************************************************************************)
(* Octets and the words and bits packed into them.  A PDU is a sequence of *)
(* integers 0..255; words travel in network order; bit i of a packed table *)
(* is bit i % 8, least significant first, of octet i \div 8.               *)
(***************************************************************************)
EXTENDS Integers, Sequences, FiniteSetsExt

Byte == 0..255

Word == 0..(2 ^ 16 - 1)

(* Results of fallible operations.  A failure carries the class that the   *)
(* callers tell apart, not the wording of the error.                       *)
Ok(v) == [ok |-> TRUE, val |-> v]

Fail(class) == [ok |-> FALSE, err |-> class]

Checked(holds, class, v) == IF holds THEN Ok(v) ELSE Fail(class)

From(p, i) == SubSeq(p, i, Len(p))

(* u16::from_be_bytes and u16::to_be_bytes. *)
be16(p, i) == 256 * p[i] + p[i + 1]

to_be(v) == <<v \div 256, v % 256>>

(* Words and octets of a run of registers. *)
words_of(p) == [i \in 1..Len(p) \div 2 |-> be16(p, 2 * i - 1)]

octets_of(words) ==
    [i \in 1..2 * Len(words) |->
        LET w == words[(i + 1) \div 2] IN IF i % 2 = 1 THEN w \div 256 ELSE w % 256]

(* Where the groups of p begin, when the one at i takes size(i) octets.    *)
(* Only the last of them can run past the end of p.                        *)
group_starts(p, size(_)) ==
    LET from[i \in Nat] == IF i > Len(p) THEN <<>> ELSE <<i>> \o from[i + size(i)]
    IN  from[1]

(* The number of octets that hold n packed bits: div_ceil(8). *)
packed_len(n) == (n + 7) \div 8

bit_at(p, i) == (p[i \div 8 + 1] \div 2 ^ (i % 8)) % 2

(* Bits, as 0 or 1, and their packed form, padded with zeroes. *)
unpack(p, n) == [i \in 1..n |-> bit_at(p, i - 1)]

pack(bits) ==
    [k \in 1..packed_len(Len(bits)) |->
        LET at(j) == 8 * (k - 1) + j + 1
            in == {j \in 0..7 : at(j) <= Len(bits)}
        IN  MapThenSumSet(LAMBDA j : bits[at(j)] * 2 ^ j, in)]
=============================================================================

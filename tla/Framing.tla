------------------------------ MODULE Framing ------------------------------
(***************************************************************************)
(* The frame codecs (crates/rusty-modbus-frame): MBAP framing of Modbus    *)
(* TCP, RTU framing with its CRC, and the two policies that find the end   *)
(* of an RTU frame in a TCP stream.  A decoder is a function of the octets *)
(* read so far: it asks for more, takes a frame off the front, or fails.   *)
(* Nothing depends on which error it is, so the errors are one.            *)
(***************************************************************************)
EXTENDS Bytes

MAX_PDU_SIZE == 253

MAX_RTU_ADU_SIZE == 256

MBAP_HEADER_LEN == 7

MIN_RTU_FRAME == 4

(* A frame.  The transaction identifier of an RTU frame is 0. *)
Frame(txn, unit, pdu) == [txn |-> txn, unit |-> unit, pdu |-> pdu]

More(src) == [status |-> "more", frame |-> Frame(0, 0, <<>>), rest |-> src]

Broken(src) == [More(src) EXCEPT !.status = "error"]

Decoded(frame, rest) == [status |-> "frame", frame |-> frame, rest |-> rest]
-----------------------------------------------------------------------------
(* CRC-16/Modbus: reflected polynomial 0xA001, initial value 0xFFFF. *)
(* Exclusive or, bit by bit, of two words. *)
xor16(a, b) ==
    LET bits[i \in 0..16] ==
          IF i = 0 THEN 0
          ELSE bits[i - 1] + 2 ^ (i - 1) * ((a \div 2 ^ (i - 1) + b \div 2 ^ (i - 1)) % 2)
    IN  bits[16]

(* Tables are sequences, so that they are evaluated once: entry i + 1 is   *)
(* the one for i.                                                          *)
Table(f) == SubSeq(f, 1, 256)

XOR_TABLE == Table([a \in 1..256 |-> Table([b \in 1..256 |-> xor16(a - 1, b - 1)])])

xor(a, b) == XOR_TABLE[a + 1][b + 1]

CRC_TABLE ==
    LET shifted[c \in Word] == IF c % 2 = 1 THEN xor16(c \div 2, 40961) ELSE c \div 2
        crc[i \in Byte, j \in 0..8] == IF j = 0 THEN i ELSE shifted[crc[i, j - 1]]
    IN  Table([i \in 1..256 |-> crc[i - 1, 8]])

(* The shifted-out octet selects the entry; the entry's low octet meets    *)
(* what is left of the old value.                                          *)
crc16_update ==
    [p \in Word \X Byte |->
        LET entry == CRC_TABLE[1 + xor(p[1] % 256, p[2])]
        IN  256 * (entry \div 256) + xor(p[1] \div 256, entry % 256)]

(* The CRC of the first n octets of data. *)
crc16_of(data, n) ==
    LET crc[k \in 0..n] == IF k = 0 THEN 65535 ELSE crc16_update[crc[k - 1], data[k]]
    IN  crc[n]

crc16(data) == crc16_of(data, Len(data))

to_le(v) == <<v % 256, v \div 256>>

(* The last two octets are the CRC of the others. *)
verify_crc(frame) ==
    /\ Len(frame) >= 3
    /\ LET data_end == Len(frame) - 2
       IN  to_le(crc16(SubSeq(frame, 1, data_end))) = From(frame, data_end + 1)
-----------------------------------------------------------------------------
(* MBAP: the declared length counts the unit identifier and the PDU. *)
MbapCodec_decode(src) ==
    LET length == be16(src, 5)
        total == MBAP_HEADER_LEN - 1 + length
    IN  CASE Len(src) < MBAP_HEADER_LEN -> More(src)
          [] be16(src, 3) # 0 -> Broken(src)
          [] length < 2 \/ length > MAX_PDU_SIZE + 1 -> Broken(src)
          [] Len(src) < total -> More(src)
          [] OTHER -> Decoded(Frame(be16(src, 1), src[7], SubSeq(src, MBAP_HEADER_LEN + 1, total)),
                              From(src, total + 1))

(* The header that MbapHeader::new makes declares the length of the PDU,   *)
(* so only a PDU outside 1..253 fails validate_outgoing_header.            *)
MbapCodec_encode(frame) ==
    Checked(Len(frame.pdu) \in 1..MAX_PDU_SIZE, "frame",
            to_be(frame.txn) \o <<0, 0>> \o to_be(Len(frame.pdu) + 1) \o <<frame.unit>> \o frame.pdu)
-----------------------------------------------------------------------------
(* RTU: unit identifier, PDU, CRC. *)
encode_frame(frame) ==
    LET body == <<frame.unit>> \o frame.pdu
    IN  Checked(Len(frame.pdu) \in 1..MAX_PDU_SIZE, "frame", body \o to_le(crc16(body)))

split_frame(src, adu_len) ==
    Decoded(Frame(0, src[1], SubSeq(src, 2, adu_len - 2)), From(src, adu_len + 1))

(* The historical policy: the shortest prefix that ends in its own CRC. *)
decode_compatibility(src) ==
    LET max_len == IF Len(src) < MAX_RTU_ADU_SIZE THEN Len(src) ELSE MAX_RTU_ADU_SIZE
        ends == {n \in MIN_RTU_FRAME..max_len : to_le(crc16_of(src, n - 2)) = SubSeq(src, n - 1, n)}
    IN  CASE ends # {} -> split_frame(src, Min(ends))
          [] ends = {} /\ Len(src) >= MAX_RTU_ADU_SIZE -> Broken(src)
          [] OTHER -> More(src)
-----------------------------------------------------------------------------
(* The strict policy derives the length of the PDU from its function code  *)
(* and the counts it carries.  A length is positive; 0 stands for "more    *)
(* octets are needed" and -1 for "no length can be derived".               *)
indeterminate == -1

validated(length) == IF length > MAX_PDU_SIZE THEN indeterminate ELSE length

strict_supports_standard_base_function(code) ==
    code \in 1..8 \union {11, 12} \union 15..17 \union 20..24 \union {43}

(* Indices count from 0, as the code's do. *)
pdu_length_from_u8_count(src, base, index) ==
    IF Len(src) > index THEN validated(base + src[index + 1]) ELSE 0

pdu_length_from_u16_count(src, base, index) ==
    IF Len(src) > index + 1 THEN validated(base + be16(src, index + 1)) ELSE 0

diagnostic_pdu_length(src) ==
    IF Len(src) < 4 THEN 0
    ELSE IF be16(src, 3) \in 1..3 \union 10..18 \union {20} THEN 5 ELSE indeterminate

mei_request_pdu_length(src) ==
    IF Len(src) < 3 THEN 0 ELSE IF src[3] = 14 THEN 4 ELSE indeterminate

(* Each object has a header of two octets, the second of them its length. *)
mei_response_pdu_length(src) ==
    LET after_object[length \in Int] ==
          CASE length < 1 -> length
            [] length >= 1 /\ Len(src) < length + 3 -> 0
            [] OTHER -> validated(length + 2 + src[length + 3])
        objects[k \in 0..src[8]] == IF k = 0 THEN 7 ELSE after_object[objects[k - 1]]
    IN  CASE Len(src) < 3 -> 0
          [] src[3] # 14 -> indeterminate
          [] Len(src) < 8 -> 0
          [] 7 + 2 * src[8] > MAX_PDU_SIZE -> indeterminate
          [] OTHER -> objects[src[8]]

strict_pdu_length(src, direction) ==
    LET code == src[2]
        request == direction = "Request"
        response == direction = "Response"
    IN  CASE code >= 128 ->
                IF response /\ strict_supports_standard_base_function(code - 128) THEN 2 ELSE indeterminate
          [] (code \in 1..4 /\ request) \/ code \in {5, 6} \/ (code \in {11, 15, 16} /\ response) -> 5
          [] (code \in 1..4 \union {12, 17, 23} /\ response) \/ code \in {20, 21} ->
                pdu_length_from_u8_count(src, 2, 2)
          [] code \in {7, 11, 12, 17} /\ request -> 1
          [] code = 7 /\ response -> 2
          [] code = 8 -> diagnostic_pdu_length(src)
          [] code \in {15, 16} /\ request -> pdu_length_from_u8_count(src, 6, 6)
          [] code = 22 -> 7
          [] code = 23 /\ request -> pdu_length_from_u8_count(src, 10, 10)
          [] code = 24 /\ request -> 3
          [] code = 24 /\ response -> pdu_length_from_u16_count(src, 3, 2)
          [] code = 43 /\ request -> mei_request_pdu_length(src)
          [] code = 43 /\ response -> mei_response_pdu_length(src)
          [] OTHER -> indeterminate

decode_strict(src, direction) ==
    LET pdu_len == strict_pdu_length(src, direction)
        adu_len == pdu_len + 3
    IN  CASE Len(src) < 2 -> More(src)
          [] pdu_len = indeterminate -> Broken(src)
          [] pdu_len = 0 -> IF Len(src) >= MAX_RTU_ADU_SIZE THEN Broken(src) ELSE More(src)
          [] Len(src) < adu_len -> More(src)
          [] ~verify_crc(SubSeq(src, 1, adu_len)) -> Broken(src)
          [] OTHER -> split_frame(src, adu_len)

RtuOverTcpCodec_decode(src, policy, direction) ==
    IF policy = "CrcScanCompatibility" THEN decode_compatibility(src) ELSE decode_strict(src, direction)
=============================================================================

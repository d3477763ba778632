---------------------------- MODULE MCSerialLine ----------------------------
(***************************************************************************)
(* A line with a character of two ticks, frames of four octets, and the    *)
(* CRC of the frame crate.                                                 *)
(***************************************************************************)
EXTENDS SerialLine

F == INSTANCE Framing

MCOctet == 0 .. 255

MCcrc_matches(adu) == F!verify_crc(adu)

MCencode(frame) == F!encode_frame(frame)

Request == F!Frame(0, 1, <<7>>)

MCSends == {Request, F!Frame(0, 248, <<7>>), F!Frame(0, 2, <<>>)}

MCRequests == {Request}

Octets4 == F!encode_frame(Request).val

Talk(n, octets, wait) == [calls |-> n, speech |-> octets, turns |-> wait]

\* Two sends; a send with a stray octet; and a frame with two octets too many,
\* said with pauses of every kind.
MCTalks == {Talk(2, <<>>, FALSE), Talk(1, <<9>>, FALSE), Talk(0, Octets4 \o <<5, 6>>, FALSE)}

\* A request, its answer and the next request.
MCAnswered == {Talk(2, Octets4, TRUE)}
=============================================================================

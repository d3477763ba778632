----------------------------- MODULE MCGateway -----------------------------
(***************************************************************************)
(* Scenes for Gateway: one client read octet by octet through each kind of *)
(* answer, and two clients whose requests and broadcasts meet.             *)
(***************************************************************************)
EXTENDS Gateway, TLC

CONSTANTS A, B

MCRoutes ==
    <<[low |-> 1, high |-> 100, backend |-> "north", policy |-> "FunctionAwareStrict"],
      [low |-> 101, high |-> 200, backend |-> "south", policy |-> "FunctionAwareStrict"],
      [low |-> 240, high |-> 247, backend |-> "north", policy |-> "CrcScanCompatibility"]>>

Adu(unit, pdu) == encode_frame(Frame(0, unit, pdu)).val

Garbled(adu) == [adu EXCEPT ![3] = (@ + 1) % 256]

(* A response to each function of the requests.  The first data octets of  *)
(* the registers are the CRC of what precedes them when the unit is 241.   *)
Response(code) ==
    CASE code = 3 -> <<3, 4, 33, 0, 0, 7>>
      [] code = 7 -> <<7, 109>>
      [] code = 8 -> <<8, 0, 1, 0, 0>>
      [] code = 24 -> <<24, 0, 4, 0, 1, 0, 9>>
      [] code = 43 -> <<43, 14, 1, 1, 0, 0, 2, 0, 1, 65, 1, 0>>
      [] OTHER -> <<code, 1>>

MCReplies(kind, frame) ==
    LET code == frame.pdu[1]
        good == Adu(frame.unit, Response(code))
        refused == Adu(frame.unit, <<128 + (code % 128), 2>>)
    IN  CASE kind = "silent" -> <<>>
          [] kind = "good" -> <<good>>
          [] kind = "refusing" -> <<refused>>
          [] kind = "garbling" -> <<Garbled(good)>>
          [] kind = "neighbour" -> <<Adu(frame.unit + 1, Response(code)), good>>
          [] kind = "other function" -> <<Adu(frame.unit, <<6, 0, 1, 0, 2>>)>>
          [] kind = "babbling" -> <<good, refused>>

Kinds == {"silent", "good", "refusing", "garbling", "neighbour", "other function", "babbling"}

Read == <<3, 0, 0, 0, 2>>

Asks(a, b, n, kinds, k) == [requests |-> (A :> a) @@ (B :> b), pieces |-> n, kinds |-> kinds, limit |-> k]

MCScenes ==
    {Asks(<<Frame(258, u, <<code, 0, 1>>)>>, <<>>, {1}, Kinds, 1) : u \in {1, 241}, code \in {3, 7, 8, 24, 43, 65, 131}}
      \union {Asks(<<Frame(1, 150, Read), Frame(1, 0, <<7>>), Frame(2, 241, Read)>>, <<>>, {1}, {"good"}, 1)}
      \union {Asks(<<Frame(7, 1, Read), Frame(8, 0, Read)>>, <<Frame(7, 2, Read), Frame(9, 220, <<7>>)>>,
                   {}, {"good", "neighbour"}, k) : k \in {1, 2}}
      \union {Asks(<<Frame(7, 0, Read), Frame(8, 241, Read)>>, <<Frame(1, 241, Read)>>,
                   {}, {"babbling"}, 2)}
=============================================================================

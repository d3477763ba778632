CONSTANTS
    Octet <- MCOctet
    t1_5 = 3
    t3_5 = 7
    MIN_ADU_SIZE = 4
    MAX_ADU_SIZE = 5
    TIMESTAMP_MAX = 34
    SEQUENCE_MAX = 8
    COUNTER_MAX = 1
    crc_matches <- MCcrc_matches
    CHARACTER = 2
    WRITE_TIMEOUT = 9
    PORT_SIZE = 3
    Strict = TRUE
    Sends <- MCSends
    Talks <- MCTalks
    encode <- MCencode
    Pauses = {3, 6, 7}
    SLACK = 1
    HORIZON = 31

SPECIFICATION LineSpec

INVARIANTS
    HeardFramesReturned
    FramesApart

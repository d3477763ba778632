CONSTANTS
    Octet <- MCOctet
    t1_5 = 3
    t3_5 = 7
    MIN_ADU_SIZE = 4
    MAX_ADU_SIZE = 5
    TIMESTAMP_MAX = 37
    SEQUENCE_MAX = 8
    COUNTER_MAX = 1
    crc_matches <- MCcrc_matches
    CHARACTER = 2
    WRITE_TIMEOUT = 9
    PORT_SIZE = 4
    Strict = TRUE
    Sends <- MCRequests
    Talks <- MCAnswered
    encode <- MCencode
    Pauses = {2}
    SLACK = 0
    HORIZON = 34

SPECIFICATION LineSpec

INVARIANTS
    SilenceBeforeTransmit

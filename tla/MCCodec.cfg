SPECIFICATION Spec
CONSTANTS
    MAX_MESSAGE_SIZE = 165
    MAX_FIELDS = 26
    MAX_SOH = 28
    MAX_TAG = 512
    WORD = 1024
    MaxOverflow = 4
    MaxSets = 1
    Values <- MCValues
INVARIANTS
    RoundTrip
    TruncatedNeverAccepted
    ParsersAgree
    StrictParser
    DamagedNeverAccepted
    GroupsExact
CHECK_DEADLOCK FALSE

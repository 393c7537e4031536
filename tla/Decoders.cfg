CONSTANTS
    HOP = HOP
    PORT = PORT
    SERVICE = SERVICE
    OS = OS
    READY = READY
    ACCOUNT = ACCOUNT
    ARPSPOOF_ERROR = ARPSPOOF_ERROR
    TCPDUMP_PACKET = TCPDUMP_PACKET
    Unused = Unused
    NUL = NUL
    SizeMod = 65536
    TailChars = {"a", " ", "]"}
    MaxTail = 2

INIT Init
NEXT Next

INVARIANT DecodeAsSpecified
 
INVARIANT ArpspoofRecord

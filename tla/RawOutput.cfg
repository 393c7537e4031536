CONSTANTS
    NL = NL
    Chars = {"a", "b", NL}
    MaxChunk = 2
    MaxMsgs = 4

SPECIFICATION Spec

INVARIANT NoSplicedLines

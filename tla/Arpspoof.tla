------------------------------- MODULE Arpspoof -------------------------------
(***************************************************************************)
(* The arpspoof output decoder, dSploitHandlers/arpspoof.c.  The           *)
(* constructor compiles the anchored, case-insensitive pattern             *)
(* "^\[ERROR\] "; arpspoof_output_parser() turns a line that matches it    *)
(* into a message whose payload is the action code ARPSPOOF_ERROR followed *)
(* by the rest of the line and its NUL, and every other line into no       *)
(* message.  If regcomp fails the constructor only logs; error_pattern    *)
(* then holds no compiled pattern, and regexec on it returns REG_BADPAT    *)
(* (its magic number is unset), which the parser takes as no match.        *)
(*                                                                         *)
(* A line is the sequence of its characters, NUL excluded; the C string is *)
(* that sequence followed by NUL.  len - 6 and len - 7 are size_t          *)
(* arithmetic: they wrap modulo SizeMod, 2^(bits of size_t).  A payload is *)
(* a function from offsets to the bytes written there.                     *)
(***************************************************************************)
EXTENDS Integers, Sequences, TLC

CONSTANTS
    ARPSPOOF_ERROR,  \* action code of an error record
    NUL,             \* the string terminator
    SizeMod          \* 2^(bits of size_t), as far as TLC's integers reach

\* arpspoof_init(): regcomp(&error_pattern, "^\\[ERROR\\] ", REG_ICASE); the
\* pattern's literal characters, compared case-folded.
ErrorPrefix == <<"[", "E", "R", "R", "O", "R", "]", " ">>

Upper(c) == IF c \in {"e", "r", "o"}
            THEN CASE c = "e" -> "E" [] c = "r" -> "R" [] c = "o" -> "O"
            ELSE c

\* regexec(&error_pattern, line, 0, NULL, 0) == 0.
Matches(line, compiled) ==
    /\ compiled
    /\ Len(line) >= Len(ErrorPrefix)
    /\ \A i \in 1..Len(ErrorPrefix) : Upper(line[i]) = ErrorPrefix[i]

\* Byte j (from 0) of the C string of line.
CByte(line, j) == IF j < Len(line) THEN line[j + 1] ELSE NUL

MsgSize(len) == (len - 6) % SizeMod

\* memcpy(m->data + 1, line + 8, len - 7)
CopyLen(len) == (len - 7) % SizeMod

\* Fault variant: the copy starts at the blank that closes the prefix.
CopyFromBlank == 7

CopyFrom == 8

\* arpspoof_output_parser(): no message for an empty or non-matching line
\* or when create_message fails; otherwise the payload written is
\* data[0] and the copied bytes.  src records the offsets of the line read.
ArpspoofOutputParser(line, compiled, allocOk) ==
    LET len == Len(line) IN
    IF len = 0 \/ ~Matches(line, compiled) \/ ~allocOk
    THEN [msg |-> FALSE, size |-> 0, data |-> <<>>, src |-> {}]
    ELSE [msg  |-> TRUE,
          size |-> MsgSize(len),
          data |-> (0 :> ARPSPOOF_ERROR)
                   @@ [k \in 1..CopyLen(len) |-> CByte(line, CopyFrom + k - 1)],
          src  |-> {CopyFrom + k - 1 : k \in 1..CopyLen(len)}]

=============================================================================

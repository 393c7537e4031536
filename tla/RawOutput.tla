------------------------------ MODULE RawOutput ------------------------------
(***************************************************************************)
(* on_raw(), dSploitClient/notifier.c: the output of a child of the raw    *)
(* handler arrives in messages whose chunks need not end at a newline.     *)
(* on_raw appends the chunk to the child's reassembly buffer, then takes   *)
(* every complete line out of it and sends each as a newline event.  A     *)
(* failed append returns -1 and the chunk is lost; a line whose event      *)
(* cannot be created or sent is logged and dropped, and on_raw still       *)
(* returns 0.                                                              *)
(*                                                                         *)
(* buffer.c is not in the repository: append_to_buffer and                 *)
(* get_line_from_buffer are modelled from spec sections 3 and 4.3 (the     *)
(* buffer holds the not-yet-terminated rest of the output; a line is taken *)
(* out without its newline).                                               *)
(***************************************************************************)
EXTENDS Integers, Sequences, SequencesExt

CONSTANTS
    NL,         \* the line terminator
    Chars,      \* bytes of output, NL included
    MaxChunk,   \* bytes per message
    MaxMsgs     \* messages of the child

VARIABLES
    buffer,     \* c->buffer
    lines,      \* every line taken out of the buffer: [text, sent]
    produced,   \* history: the bytes of every chunk the child wrote
    msgs        \* messages handled so far

vars == <<buffer, lines, produced, msgs>>

Chunks == UNION {[1..n -> Chars] : n \in 1..MaxChunk}

\* append_to_buffer(&(c->buffer), m->data, m->head.size), when it succeeds.
AppendToBuffer(buf, data) == buf \o data

\* get_line_from_buffer(): position of the first newline, 0 for NULL.
LineEnd(buf) == SelectInSeq(buf, LAMBDA ch : ch = NL)

\* while((line = get_line_from_buffer(&(c->buffer)))) { ... }
RECURSIVE DrainLines(_)
DrainLines(buf) ==
    IF LineEnd(buf) = 0 THEN [out |-> <<>>, rest |-> buf]
    ELSE LET tail == DrainLines(SubSeq(buf, LineEnd(buf) + 1, Len(buf)))
         IN  [out  |-> << SubSeq(buf, 1, LineEnd(buf) - 1) >> \o tail.out,
              rest |-> tail.rest]

Init ==
    /\ buffer = <<>>
    /\ lines = <<>>
    /\ produced = <<>>
    /\ msgs = 0

\* append_to_buffer fails: LOGE, return -1; the buffer is left as it was.
OnRawAppendFails(data) ==
    /\ msgs < MaxMsgs
    /\ produced' = produced \o data
    /\ msgs' = msgs + 1
    /\ UNCHANGED <<buffer, lines>>

\* The loop body: create_newline_event and send_event for each line; sent
\* says both succeeded.  DeleteLocalRef and free(line) leave no state.
OnRaw(data) ==
    LET d == DrainLines(AppendToBuffer(buffer, data)) IN
    /\ msgs < MaxMsgs
    /\ \E sent \in [1..Len(d.out) -> BOOLEAN] :
          lines' = lines \o [i \in 1..Len(d.out) |-> [text |-> d.out[i],
                                                     sent |-> sent[i]]]
    /\ buffer' = d.rest
    /\ produced' = produced \o data
    /\ msgs' = msgs + 1

\* The child has sent all the messages of the bound.
Done == msgs = MaxMsgs /\ UNCHANGED vars

Next == (\E data \in Chunks : OnRawAppendFails(data) \/ OnRaw(data)) \/ Done

Spec == Init /\ [][Next]_vars

\* t is a line of the child's output: it stands between two newlines
\* (or between the start and a newline) of the bytes the child wrote.
IsOutputLine(t) ==
    \E i \in 0..(Len(produced) - Len(t) - 1) :
        /\ i = 0 \/ produced[i] = NL
        /\ SubSeq(produced, i + 1, i + Len(t)) = t
        /\ produced[i + Len(t) + 1] = NL

\* Spec sections 3 and 6: the reassembly buffer holds the partial line of
\* the child's output, and every newline event delivered is a line the
\* tool printed, even when one message of the child is dropped (append
\* failure at on_raw's first statement, a recoverable per-item error).
NoSplicedLines ==
    \A k \in DOMAIN lines : lines[k].sent => IsOutputLine(lines[k].text)

=============================================================================

----------------------------- MODULE HandlerList -----------------------------
(***************************************************************************)
(* The daemon's answer to a handler-listing request, dSploitd/handler.c:   *)
(* on_handler_request() and send_handlers_list().  The payload is built in *)
(* two passes over the registry: the first sums the size of every entry,   *)
(* the second packs each entry behind a cursor that advances by the size   *)
(* of the entry it has just written.                                       *)
(*                                                                         *)
(* The payload is a function from byte offsets to byte values: an offset   *)
(* outside its domain was never written (create_message does not say it    *)
(* zeroes the buffer).  A handler is a record [id, in, out, name], name    *)
(* the sequence of its non-NUL bytes.  The struct layouts come from the    *)
(* wire format of spec section 5 (struct hndl_list_info, struct hndl_info  *)
(* are declared outside src/): they are constants, given the packed values *)
(* in the configuration.                                                   *)
(***************************************************************************)
EXTENDS Integers, Sequences
LOCAL INSTANCE SequencesExt

CONSTANTS
    HNDL_LIST,    \* request and response code of the listing
    ListSize,     \* sizeof(struct hndl_list_info): the code byte
    InfoSize,     \* sizeof(struct hndl_info): id, have_stdin, have_stdout
    NameOffset    \* offsetof(struct hndl_info, name)

NUL == 0

\* Result of a request that sends nothing.
NoMsg == [size |-> 0, data |-> <<>>]

\* memcpy-like store of the bytes bs at offset off; later stores win.
Store(mem, off, bs) ==
    [k \in {off + i - 1 : i \in DOMAIN bs} |-> bs[k - off + 1]] @@ mem

\* handler_info->id = h->id: an int32, stored little-endian.
IdBytes(id) == [k \in 1..4 |-> (id \div 256^(k - 1)) % 256]

-----------------------------------------------------------------------------
(* Pass 1, lines 175-178                                                   *)

\* array_size += sizeof(struct hndl_info) + strlen(h->name) + 1
EntrySize(h) == InfoSize + Len(h.name) + 1

ArraySize(hs) == FoldLeft(LAMBDA acc, h : acc + EntrySize(h), 0, hs)

-----------------------------------------------------------------------------
(* Pass 2, lines 189-203                                                   *)

\* The fields of one entry, written at the cursor c; strcpy copies the NUL.
WriteEntry(mem, c, h) ==
    Store(Store(Store(mem, c, IdBytes(h.id)), c + 4, <<h.in, h.out>>),
          c + NameOffset, Append(h.name, NUL))

\* Fault variant: the cursor skips strlen(name) but not the NUL.
EntryStrideNoNul(h) == InfoSize + Len(h.name)

\* handler_info = (char *)handler_info + sizeof(struct hndl_info)
\*                + strlen(h->name) + 1
EntryStride(h) == InfoSize + Len(h.name) + 1

RECURSIVE PackEntries(_, _, _)
PackEntries(mem, c, hs) ==
    IF hs = <<>> THEN mem
    ELSE PackEntries(WriteEntry(mem, c, Head(hs)), c + EntryStride(Head(hs)),
                     Tail(hs))

\* send_handlers_list(): create_message may fail (ret -1, nothing sent);
\* enqueue_message may fail (the message is freed, ret -1).
SendHandlersList(hs, allocOk, enqOk) ==
    LET size == ListSize + ArraySize(hs)
        data == PackEntries(Store(<<>>, 0, <<HNDL_LIST>>), ListSize, hs)
    IN  [ret   |-> IF allocOk /\ enqOk THEN 0 ELSE -1,
         built |-> IF allocOk THEN [size |-> size, data |-> data] ELSE NoMsg,
         sent  |-> allocOk /\ enqOk]

\* on_handler_request(): only HNDL_LIST is answered.
OnHandlerRequest(code, hs, allocOk, enqOk) ==
    IF code = HNDL_LIST THEN SendHandlersList(hs, allocOk, enqOk)
    ELSE [ret |-> -1, built |-> NoMsg, sent |-> FALSE]

-----------------------------------------------------------------------------
(* The client's decoder of the listing, as spec section 5 states the wire  *)
(* format: one code byte, then packed entries {int32 id, u8, u8, name, NUL} *)
(* until the payload ends.  A byte never written reads as 256, a value no  *)
(* byte has, so a gap never decodes to the list that was sent.             *)

Byte(d, i) == IF i \in DOMAIN d THEN d[i] ELSE 256

RECURSIVE NulAt(_, _, _)
NulAt(d, i, size) ==
    IF i >= size \/ Byte(d, i) = NUL THEN i ELSE NulAt(d, i + 1, size)

RECURSIVE DecodeFrom(_, _, _)
DecodeFrom(d, off, size) ==
    IF off >= size THEN <<>>
    ELSE LET e == NulAt(d, off + 6, size)
         IN  <<[id   |-> Byte(d, off) + 256 * Byte(d, off + 1)
                         + 65536 * Byte(d, off + 2)
                         + 16777216 * Byte(d, off + 3),
                in   |-> Byte(d, off + 4),
                out  |-> Byte(d, off + 5),
                name |-> [k \in 1..(e - off - 6) |-> Byte(d, off + 5 + k)]]>>
             \o DecodeFrom(d, e + 1, size)

DecodeListing(msg) == DecodeFrom(msg.data, 1, msg.size)

=============================================================================

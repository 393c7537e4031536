---------------------------- MODULE MC_HandlerList ----------------------------
(***************************************************************************)
(* Every request the daemon can receive against every registry of up to    *)
(* MaxHandlers entries built from the ids, flags and names below, with     *)
(* create_message and enqueue_message each succeeding or failing.          *)
(***************************************************************************)
EXTENDS HandlerList, SequencesExt

CONSTANTS Ids, Names, Codes, MaxHandlers

\* Names of no, one and two bytes ("n", "ar").
MCNames == {<<>>, <<110>>, <<97, 114>>}

Handler == [id : Ids, in : {0, 1}, out : {0, 1}, name : Names]

VARIABLES hs, code, allocOk, enqOk

vars == <<hs, code, allocOk, enqOk>>

Init ==
    /\ hs \in SeqOf(Handler, MaxHandlers)
    /\ code \in Codes
    /\ allocOk \in BOOLEAN
    /\ enqOk \in BOOLEAN

Next == UNCHANGED vars

Spec == Init /\ [][Next]_vars

res == OnHandlerRequest(code, hs, allocOk, enqOk)

\* A listing the daemon sends has every payload byte written, starts with
\* HNDL_LIST, and decodes on the client side (spec section 5) to the
\* registry in the same order with the same ids, flags and names; nothing
\* is sent unless the request succeeds.
ListingRoundTrip ==
    /\ res.sent <=> res.ret = 0
    /\ res.sent =>
          /\ DOMAIN res.built.data = 0..(res.built.size - 1)
          /\ res.built.data[0] = HNDL_LIST
          /\ DecodeListing(res.built) = hs
=============================================================================

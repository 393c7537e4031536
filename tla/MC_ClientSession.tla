------------------------- MODULE MC_ClientSession -------------------------
(* Instantiation of ClientSession for TLC.  Four child ids cover every     *)
(* route of on_message: a decoded child (raw), a child whose handler has   *)
(* no stdout, a blind child, and an id with no child in the list.  Two     *)
(* sockets let the caller connect, disconnect and connect again; three     *)
(* messages let one be in flight across each teardown step.               *)
EXTENDS ClientSession, TLC

CONSTANTS c1, c2, c3, c4

MCChildIds == {c1, c2, c3, c4}
MCChildHandler == (c1 :> "raw") @@ (c2 :> "other") @@ (c3 :> "blind")
                  @@ (c4 :> NoChild)
MCHaveStdout == [h \in Handlers |-> h # "other"]
=============================================================================

------------------------------- MODULE Decoders -------------------------------
(***************************************************************************)
(* The client's structured-tool decoders, dSploitClient/notifier.c:        *)
(* on_nmap, on_ettercap, on_hydra, on_arpspoof and on_tcpdump, and the     *)
(* handler test of on_message that picks one of them.  Each switches on    *)
(* the action code m->data[0] to an event constructor; an unknown code is  *)
(* logged and the decoder returns -1 at once.  Then all five share one     *)
(* tail: a NULL event or a failed send_event gives -1, a sent event 0.     *)
(*                                                                         *)
(* An event is named by the kind of its constructor.  Whether the          *)
(* constructor returns an object and whether send_event succeeds are JNI   *)
(* outcomes, inputs here.  The action codes of nmap, ettercap, arpspoof    *)
(* and tcpdump are declared outside src/ and are model values; hydra's     *)
(* are the enum of dSploitHandlers/hydra.h.                                *)
(***************************************************************************)
EXTENDS Integers, TLC

CONSTANTS HOP, PORT, SERVICE, OS, READY, ACCOUNT, ARPSPOOF_ERROR,
          TCPDUMP_PACKET

\* enum hydra_action
HYDRA_ATTEMPTS == 0
HYDRA_WARNING  == 1
HYDRA_ERROR    == 2
HYDRA_LOGIN    == 3

NoEvent == "none"

-----------------------------------------------------------------------------
(* The switch of each decoder, as a function from the action codes it has  *)
(* a case for to the constructor that case calls.                          *)

NmapCases ==
    (HOP :> "hop") @@ (PORT :> "port") @@ (SERVICE :> "port") @@ (OS :> "os")

EttercapCases == (READY :> "ready") @@ (ACCOUNT :> "account")

\* Fault variant: the HYDRA_ERROR label is missing before create_message_event.
HydraCasesNoError ==
    (HYDRA_ATTEMPTS :> "attempts") @@ (HYDRA_WARNING :> "message")
    @@ (HYDRA_LOGIN :> "login")

HydraCases ==
    (HYDRA_ATTEMPTS :> "attempts") @@ (HYDRA_WARNING :> "message")
    @@ (HYDRA_ERROR :> "message") @@ (HYDRA_LOGIN :> "login")

ArpspoofCases == ARPSPOOF_ERROR :> "message"

TcpdumpCases == TCPDUMP_PACKET :> "packet"

-----------------------------------------------------------------------------

\* The tail of every decoder: event built and sent, or ret stays -1.
SendDecoded(kind, created, sent) ==
    [ret   |-> IF created /\ sent THEN 0 ELSE -1,
     event |-> IF created /\ sent THEN kind ELSE NoEvent]

\* on_nmap(), on_ettercap(), ...: default: LOGW; return -1.
Decode(cases, code, created, sent) ==
    IF code \in DOMAIN cases THEN SendDecoded(cases[code], created, sent)
    ELSE [ret |-> -1, event |-> NoEvent]

\* on_nmap() ... on_tcpdump(): the switch, its default and the shared tail.
OnNmap(code, created, sent)     == Decode(NmapCases, code, created, sent)
OnEttercap(code, created, sent) == Decode(EttercapCases, code, created, sent)
OnHydra(code, created, sent)    == Decode(HydraCases, code, created, sent)
OnArpspoof(code, created, sent) == Decode(ArpspoofCases, code, created, sent)
OnTcpdump(code, created, sent)  == Decode(TcpdumpCases, code, created, sent)

\* on_message: the decoder of each well-known structured handler slot.
OnStructured(handler, code, created, sent) ==
    CASE handler = "nmap"     -> OnNmap(code, created, sent)
      [] handler = "ettercap" -> OnEttercap(code, created, sent)
      [] handler = "hydra"    -> OnHydra(code, created, sent)
      [] handler = "arpspoof" -> OnArpspoof(code, created, sent)
      [] handler = "tcpdump"  -> OnTcpdump(code, created, sent)

=============================================================================

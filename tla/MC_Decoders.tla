----------------------------- MODULE MC_Decoders -----------------------------
(***************************************************************************)
(* The decoders of tool output.  Client side: every well-known structured  *)
(* handler, every action code any of them uses plus one nobody uses, and   *)
(* every JNI outcome, checked against the event categories of spec         *)
(* sections 4.3 and 6.  Daemon side: arpspoof_output_parser on every line  *)
(* made of one of the heads below followed by a tail of up to MaxTail      *)
(* characters (the error prefix in several cases, cut short or broken,     *)
(* shifted, or absent), with regcomp and create_message each succeeding or *)
(* not.  The two share the action code ARPSPOOF_ERROR.                     *)
(***************************************************************************)
EXTENDS Decoders, SequencesExt

CONSTANTS
    Unused,      \* an action code no tool wrapper emits
    NUL, SizeMod, TailChars, MaxTail

Arp == INSTANCE Arpspoof

\* The characters of a string literal, as a line.
Chars(s) == [i \in 1..Len(s) |-> SubSeq(s, i, i)]

Heads == {Chars(s) : s \in {"", "[ERROR] ", "[error] ", "[eRrOr] ", "[ERROR]",
                             "[ERROR]x", " [ERROR] ", "[ERR"}}

Tools == {"nmap", "ettercap", "hydra", "arpspoof", "tcpdump"}
Codes == {HOP, PORT, SERVICE, OS, READY, ACCOUNT, ARPSPOOF_ERROR,
          TCPDUMP_PACKET, HYDRA_ATTEMPTS, HYDRA_WARNING, HYDRA_ERROR,
          HYDRA_LOGIN, Unused}

\* The records each tool wrapper emits, and the event category spec
\* section 6 names for each (hydra's from the "must be set to" comments of
\* the hydra_*_info structs).
SpecCategory ==
    [nmap     |-> (HOP :> "host-discovery") @@ (PORT :> "port/service")
                  @@ (SERVICE :> "port/service") @@ (OS :> "os-fingerprint"),
     ettercap |-> (READY :> "readiness") @@ (ACCOUNT :> "captured-credential"),
     hydra    |-> (HYDRA_ATTEMPTS :> "attempt-rate")
                  @@ (HYDRA_WARNING :> "warning/error-message")
                  @@ (HYDRA_ERROR :> "warning/error-message")
                  @@ (HYDRA_LOGIN :> "login"),
     arpspoof |-> ARPSPOOF_ERROR :> "warning/error-message",
     tcpdump  |-> TCPDUMP_PACKET :> "captured-packet"]

\* The category of the event each constructor builds.
CategoryOf ==
    [hop |-> "host-discovery", port |-> "port/service", os |-> "os-fingerprint",
     ready |-> "readiness", account |-> "captured-credential",
     attempts |-> "attempt-rate", message |-> "warning/error-message",
     login |-> "login", packet |-> "captured-packet"]

VARIABLES handler, code, created, sent, line, compiled, allocOk
vars == <<handler, code, created, sent, line, compiled, allocOk>>

Init ==
    /\ handler \in Tools
    /\ code \in Codes
    /\ created \in BOOLEAN
    /\ sent \in BOOLEAN
    /\ line \in {h \o t : h \in Heads, t \in SeqOf(TailChars, MaxTail)}
    /\ compiled \in BOOLEAN
    /\ allocOk \in BOOLEAN

Next == UNCHANGED vars

res == OnStructured(handler, code, created, sent)

\* Every record a tool wrapper emits reaches the presentation layer as one
\* event of the category the spec names, exactly when the JNI constructor
\* and send_event succeed, and then on_* returns 0; every other action code
\* is dropped with -1 and no event (the switches of on_nmap ... on_tcpdump
\* and their shared tail).
DecodeAsSpecified ==
    IF code \in DOMAIN SpecCategory[handler]
    THEN /\ (res.ret = 0) <=> (created /\ sent)
         /\ res.ret = 0 => CategoryOf[res.event] = SpecCategory[handler][code]
         /\ res.ret # 0 => res.event = NoEvent
    ELSE res = [ret |-> -1, event |-> NoEvent]

arp == Arp!ArpspoofOutputParser(line, compiled, allocOk)

ErrorRecord(l) == <<ARPSPOOF_ERROR>> \o SubSeq(l, 9, Len(l)) \o <<NUL>>

ArpspoofRecord ==
    arp.msg =>
        /\ arp.size = Len(ErrorRecord(line))
        /\ arp.data = [i \in 0..(arp.size - 1) |-> ErrorRecord(line)[i + 1]]
=============================================================================

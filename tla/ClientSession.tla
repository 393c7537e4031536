--------------------------- MODULE ClientSession ---------------------------
(***************************************************************************)
(* The client side of the dSploit IPC engine: the connection manager of    *)
(* dSploitClient/connection.c, the notifier thread of                      *)
(* dSploitClient/notifier.c, and the two collaborators they drive: the     *)
(* incoming message queue (msgqueue/control, not in the repository) and    *)
(* the reader thread (reader.c, not in the repository), both taken from    *)
(* spec section 4.1 / section 2.                                           *)
(*                                                                         *)
(* Three threads: the caller (the presentation layer invoking Connect and  *)
(* Disconnect, serialised among themselves, spec section 5), the reader    *)
(* (pushes framed messages read from the socket) and the notifier (pops    *)
(* and dispatches them).  The notifier holds the queue mutex for the whole *)
(* body of its loop, releasing it only inside pthread_cond_wait, so one    *)
(* loop iteration is one atomic step with respect to the reader's pushes   *)
(* and the caller's activate/deactivate.                                   *)
(***************************************************************************)
EXTENDS Naturals, Sequences, FiniteSets

CONSTANTS
    ChildIds,       \* ids a data message may carry
    CTRL,           \* the reserved control id (IS_CTRL)
    ChildHandler,   \* [ChildIds -> Handlers \cup {NoChild}]: the children list
    NoChild,        \* no child with that id in children.list
    HaveStdout,     \* [Handlers -> BOOLEAN]: handler->have_stdout
    AttachMayFail,  \* whether AttachCurrentThread in the notifier may fail
    MaxEpochs,      \* bound on the number of sockets created
    MaxMsgs         \* bound on the number of messages the reader frames

\* The handler identities notifier.c tests by pointer equality
\* (handlers.by_name.*); any other loaded handler is "unknown".
Decoders == {"raw", "nmap", "ettercap", "hydra", "arpspoof", "tcpdump"}
Handlers == Decoders \cup {"blind", "other"}

ASSUME /\ CTRL \notin ChildIds
       /\ ChildHandler \in [ChildIds -> Handlers \cup {NoChild}]
       /\ HaveStdout \in [Handlers -> BOOLEAN]
       /\ AttachMayFail \in BOOLEAN
       /\ MaxEpochs \in Nat \ {0} /\ MaxMsgs \in Nat

VARIABLES
    connected,     \* char connected
    sock,          \* the socket sockfd refers to
    epoch,         \* ghost: number of sockets created so far
    reader,        \* the reader thread
    notifierTid,   \* notifier_tid # 0
    notifier,      \* control point of the notifier thread
    nEpoch,        \* ghost: the socket the running notifier was started for
    queue,         \* incoming_messages.list
    active,        \* incoming_messages.control.active
    callerPc,      \* control point of the caller inside connect/disconnect
    ctx,           \* which entry point the caller's teardown steps belong to
    lastRet,       \* value returned by the last connect_unix
    msgCount,      \* ghost: messages framed so far (serial numbers)
    handled,       \* ghost: messages the notifier has popped and dispatched
    pendingAtStop, \* ghost: serials in the queue when it was deactivated
    wroteClosed    \* ghost: a sender wrote to a descriptor already closed

vars == <<connected, sock, epoch, reader, notifierTid, notifier, nEpoch,
          queue, active, callerPc, ctx, lastRet, msgCount, handled,
          pendingAtStop, wroteClosed>>

MsgIds == ChildIds \cup {CTRL}
Msg == [n : 1..MaxMsgs, id : MsgIds, epoch : 1..MaxEpochs]
Routes == {"control", "no_child", "no_stdout", "blind", "decode", "unknown"}
CallerPcs == {"idle", "socket", "start_reader", "start_notifier",
              "stop_notifier", "join_notifier", "shutdown", "stop_reader",
              "close", "on_disconnect"}

Serials(q) == {q[i].n : i \in DOMAIN q}
HandledSerials == {handled[i].n : i \in DOMAIN handled}

-----------------------------------------------------------------------------
(* Dispatch of one popped message: IS_CTRL(m) goes to on_control, anything *)
(* else to on_message, which looks the child up by id under the children   *)
(* lock and routes by its handler.  The decoders (on_raw, on_nmap, ...)    *)
(* only build and send events to the Java side; which one runs is the      *)
(* route "decode".                                                         *)
Route(m) ==
    IF m.id = CTRL THEN "control"
    ELSE LET h == ChildHandler[m.id] IN
         CASE h = NoChild         -> "no_child"
           [] ~HaveStdout[h]      -> "no_stdout"
           [] h = "blind"         -> "blind"
           [] h \in Decoders      -> "decode"
           [] OTHER               -> "unknown"

-----------------------------------------------------------------------------
(* Caller: connect_unix and disconnect_unix.                               *)

\* connect_unix entry: if(connected) disconnect_unix(...) first.
Connect ==
    /\ callerPc = "idle"
    /\ callerPc' = IF connected THEN "stop_notifier" ELSE "socket"
    /\ ctx' = IF connected THEN "reconnect" ELSE "connect"
    /\ UNCHANGED <<connected, sock, epoch, reader, notifierTid, notifier,
                   nEpoch, queue, active, lastRet, msgCount, handled,
                   pendingAtStop>>

\* disconnect_unix; when not connected it returns at once (no step).
Disconnect ==
    /\ callerPc = "idle"
    /\ connected
    /\ callerPc' = "stop_notifier"
    /\ ctx' = "disconnect"
    /\ UNCHANGED <<connected, sock, epoch, reader, notifierTid, notifier,
                   nEpoch, queue, active, lastRet, msgCount, handled,
                   pendingAtStop>>

\* GetStringUTFChars, socket() and connect(): a NULL path goes to the
\* error path with sockfd = -1, a failed socket() straight to cleanup,
\* a failed connect() to the error path with the socket open.
OpenSocket ==
    /\ callerPc = "socket"
    /\ \/ /\ callerPc' = "stop_notifier"               \* jni_error
          /\ UNCHANGED <<sock, epoch, lastRet>>
       \/ /\ callerPc' = "idle"                        \* socket() < 0
          /\ sock' = "none"
          /\ lastRet' = FALSE
          /\ UNCHANGED epoch
       \/ /\ epoch < MaxEpochs                         \* connect() fails
          /\ epoch' = epoch + 1
          /\ sock' = "created"
          /\ callerPc' = "stop_notifier"
          /\ UNCHANGED lastRet
       \/ /\ epoch < MaxEpochs
          /\ epoch' = epoch + 1
          /\ sock' = "open"
          /\ callerPc' = "start_reader"
          /\ UNCHANGED lastRet
    /\ UNCHANGED <<connected, reader, notifierTid, notifier, nEpoch, queue,
                   active, ctx, msgCount, handled, pendingAtStop>>

\* Fault variant: a failed start_reader() jumps to cleanup instead of
\* error, skipping the rollback.
StartReaderFailCleanup ==
    /\ callerPc = "start_reader"
    /\ \/ /\ reader' = "running"
          /\ callerPc' = "start_notifier"
          /\ UNCHANGED lastRet
       \/ /\ callerPc' = "idle"
          /\ lastRet' = FALSE
          /\ UNCHANGED reader
    /\ UNCHANGED <<connected, sock, epoch, notifierTid, notifier, nEpoch,
                   queue, active, ctx, msgCount, handled, pendingAtStop>>

\* if(start_reader()) goto error;
StartReader ==
    /\ callerPc = "start_reader"
    /\ \/ /\ reader' = "running"
          /\ callerPc' = "start_notifier"
       \/ /\ callerPc' = "stop_notifier"
          /\ UNCHANGED reader
    /\ UNCHANGED <<connected, sock, epoch, notifierTid, notifier, nEpoch,
                   queue, active, ctx, lastRet, msgCount, handled,
                   pendingAtStop>>

\* connect_unix once start_notifier() returned 0: connected = 1;
\* on_connect(); ret = JNI_TRUE; goto cleanup.
ConnectSucceeds ==
    /\ connected' = TRUE
    /\ lastRet' = TRUE
    /\ callerPc' = "idle"

\* start_notifier(): return 0 if a notifier exists, else activate the
\* queue and pthread_create; then connected = 1, on_connect(), return TRUE.
\* A failed pthread_create leaves the queue active and notifier_tid 0; a
\* failed control_activate returns -1 before it, with the queue untouched.
StartNotifier ==
    /\ callerPc = "start_notifier"
    /\ IF notifierTid
       THEN /\ ConnectSucceeds
            /\ UNCHANGED <<notifierTid, notifier, nEpoch, active,
                           pendingAtStop>>
       ELSE \/ /\ active' = TRUE
               /\ \/ /\ notifierTid' = TRUE
                     /\ notifier' = "attach"
                     /\ nEpoch' = epoch
                     /\ pendingAtStop' = {}
                     /\ ConnectSucceeds
                  \/ /\ callerPc' = "stop_notifier"     \* pthread_create fails
                     /\ UNCHANGED <<notifierTid, notifier, nEpoch, connected,
                                    lastRet, pendingAtStop>>
            \/ /\ callerPc' = "stop_notifier"          \* control_activate fails
               /\ UNCHANGED <<active, notifierTid, notifier, nEpoch, connected,
                              lastRet, pendingAtStop>>
    /\ UNCHANGED <<sock, epoch, reader, queue, ctx, msgCount, handled>>

\* stop_notifier(), first half: control_deactivate under the queue lock.
StopNotifier ==
    /\ callerPc = "stop_notifier"
    /\ \/ /\ notifierTid
          /\ active' = FALSE
          /\ pendingAtStop' = Serials(queue)
          /\ callerPc' = "join_notifier"
       \/ /\ ~notifierTid
          /\ callerPc' = "shutdown"
          /\ UNCHANGED <<active, pendingAtStop>>
    /\ UNCHANGED <<connected, sock, epoch, reader, notifierTid, notifier,
                   nEpoch, queue, ctx, lastRet, msgCount, handled>>

\* Fault variant: the thread is joined but notifier_tid is not reset.
JoinNotifierKeepsTid ==
    /\ callerPc = "join_notifier"
    /\ notifier = "exited"
    /\ notifier' = "none"
    /\ callerPc' = "shutdown"
    /\ UNCHANGED <<connected, sock, epoch, reader, notifierTid, nEpoch, queue,
                   active, ctx, lastRet, msgCount, handled, pendingAtStop>>

\* stop_notifier(), second half: pthread_join, notifier_tid = 0.
JoinNotifier ==
    /\ callerPc = "join_notifier"
    /\ notifier = "exited"
    /\ notifierTid' = FALSE
    /\ notifier' = "none"
    /\ callerPc' = "shutdown"
    /\ UNCHANGED <<connected, sock, epoch, reader, nEpoch, queue, active,
                   ctx, lastRet, msgCount, handled, pendingAtStop>>

\* Fault variant: the SHUT_WR is left out, so the daemon never closes its
\* end and the reader never reaches EOF.
ShutdownSkipped ==
    /\ callerPc = "shutdown"
    /\ callerPc' = "stop_reader"
    /\ UNCHANGED <<connected, sock, epoch, reader, notifierTid, notifier,
                   nEpoch, queue, active, ctx, lastRet, msgCount, handled,
                   pendingAtStop>>

\* shutdown(sockfd, SHUT_WR): under write_lock in disconnect_unix, without
\* it on the error path of connect_unix.  No effect on an unconnected or
\* invalid socket.
Shutdown ==
    /\ callerPc = "shutdown"
    /\ sock' = IF sock = "open" THEN "wrshut" ELSE sock
    /\ callerPc' = "stop_reader"
    /\ UNCHANGED <<connected, epoch, reader, notifierTid, notifier, nEpoch,
                   queue, active, ctx, lastRet, msgCount, handled,
                   pendingAtStop>>

\* stop_reader(): joins the reader thread if one was started.
StopReader ==
    /\ callerPc = "stop_reader"
    /\ reader \in {"none", "exited"}
    /\ reader' = "none"
    /\ callerPc' = "close"
    /\ UNCHANGED <<connected, sock, epoch, notifierTid, notifier, nEpoch,
                   queue, active, ctx, lastRet, msgCount, handled,
                   pendingAtStop>>

\* Error path of connect_unix: close(sockfd); sockfd = -1; return FALSE.
RollbackClose ==
    /\ callerPc = "close"
    /\ ctx = "connect"
    /\ sock' = "none"
    /\ lastRet' = FALSE
    /\ callerPc' = "idle"
    /\ UNCHANGED <<connected, epoch, reader, notifierTid, notifier, nEpoch,
                   queue, active, ctx, msgCount, handled, pendingAtStop>>

\* disconnect_unix: close(sockfd), without write_lock; sockfd keeps the
\* number of the closed descriptor.
DisconnectClose ==
    /\ callerPc = "close"
    /\ ctx \in {"disconnect", "reconnect"}
    /\ sock' = "closed"
    /\ callerPc' = "on_disconnect"
    /\ UNCHANGED <<connected, epoch, reader, notifierTid, notifier, nEpoch,
                   queue, active, ctx, lastRet, msgCount, handled,
                   pendingAtStop>>

\* End of disconnect_unix: connected = 0; on_disconnect();
\* unload_handlers().  Called from connect_unix, connect carries on at
\* socket(), and any later failure takes connect's own error path.
MarkDisconnected ==
    /\ callerPc = "on_disconnect"
    /\ connected' = FALSE
    /\ callerPc' = IF ctx = "reconnect" THEN "socket" ELSE "idle"
    /\ ctx' = "connect"
    /\ UNCHANGED <<sock, epoch, reader, notifierTid, notifier, nEpoch, queue,
                   active, lastRet, msgCount, handled, pendingAtStop>>

-----------------------------------------------------------------------------
(* A sender: the paths that write to sockfd (send_to_child, start_command, *)
(* the control path) are not in the repository; spec section 1 says the    *)
(* writer side sends under the single write_lock.  The most careful such   *)
(* sender takes write_lock, tests connected, and only then writes.  The    *)
(* only other holder of write_lock is the SHUT_WR of disconnect_unix, a    *)
(* single step here, so the sender's critical section is one step too.     *)

\* lock(write_lock); if(connected) write(sockfd, ...); unlock(write_lock).
WriterSend ==
    wroteClosed' = (wroteClosed \/ (connected /\ sock = "closed"))

-----------------------------------------------------------------------------
(* Reader thread (reader.c is not in the repository; spec section 2 and   *)
(* 4.1): frames a message from the socket and pushes it on the incoming    *)
(* queue under its lock, whether or not the queue is active.  It sees EOF  *)
(* once the daemon has closed its side after our SHUT_WR.                  *)

ReaderRecv(id) ==
    /\ reader = "running"
    /\ sock \in {"open", "wrshut"}
    /\ msgCount < MaxMsgs
    /\ msgCount' = msgCount + 1
    /\ queue' = Append(queue, [n |-> msgCount + 1, id |-> id, epoch |-> epoch])
    /\ UNCHANGED <<connected, sock, epoch, reader, notifierTid, notifier,
                   nEpoch, active, callerPc, ctx, lastRet, handled,
                   pendingAtStop>>

ReaderEOF ==
    /\ reader = "running"
    /\ sock = "wrshut"
    /\ reader' = "exited"
    /\ UNCHANGED <<connected, sock, epoch, notifierTid, notifier, nEpoch,
                   queue, active, callerPc, ctx, lastRet, msgCount, handled,
                   pendingAtStop>>

-----------------------------------------------------------------------------
(* Notifier thread: notifier() in notifier.c.                              *)

NUnchanged == UNCHANGED <<connected, sock, epoch, reader, notifierTid,
                          nEpoch, active, callerPc, ctx, lastRet, msgCount,
                          pendingAtStop>>

\* AttachCurrentThread, then lock the queue.  On failure the thread
\* returns at once; notifier_tid stays set.
NotifierAttach ==
    /\ notifier = "attach"
    /\ \/ notifier' = "run"
       \/ AttachMayFail /\ notifier' = "exited"
    /\ UNCHANGED <<queue, handled>>
    /\ NUnchanged

\* The record of dispatching message m.
Dispatched(m) ==
    [n |-> m.n, epoch |-> m.epoch, session |-> nEpoch, route |-> Route(m)]

\* queue_get, then on_control or on_message, with the queue lock held.
NotifierPop ==
    /\ notifier = "run"
    /\ queue # <<>>
    /\ queue' = Tail(queue)
    /\ handled' = Append(handled, Dispatched(Head(queue)))
    /\ UNCHANGED notifier
    /\ NUnchanged

\* while(!head && active) pthread_cond_wait(...): releases the lock.
NotifierWait ==
    /\ notifier = "run"
    /\ queue = <<>>
    /\ active
    /\ notifier' = "wait"
    /\ UNCHANGED <<queue, handled>>
    /\ NUnchanged

\* Fault variant: the inner loop waits while(active), ignoring the head.
NotifierWakeOnDeactivateOnly ==
    /\ notifier = "wait"
    /\ ~active
    /\ notifier' = "run"
    /\ UNCHANGED <<queue, handled>>
    /\ NUnchanged

\* The wait returns once a push or a deactivation signalled the condition.
NotifierWake ==
    /\ notifier = "wait"
    /\ queue # <<>> \/ ~active
    /\ notifier' = "run"
    /\ UNCHANGED <<queue, handled>>
    /\ NUnchanged

\* Fault variant: the outer loop is while(active), so messages still queued
\* at deactivation are abandoned.
NotifierExitWhenInactive ==
    /\ notifier = "run"
    /\ ~active
    /\ notifier' = "exited"
    /\ UNCHANGED <<queue, handled>>
    /\ NUnchanged

\* while(head || active) fails: unlock, DetachCurrentThread, return.
NotifierExit ==
    /\ notifier = "run"
    /\ queue = <<>>
    /\ ~active
    /\ notifier' = "exited"
    /\ UNCHANGED <<queue, handled>>
    /\ NUnchanged

-----------------------------------------------------------------------------

Init ==
    /\ connected = FALSE
    /\ sock = "none"
    /\ epoch = 0
    /\ reader = "none"
    /\ notifierTid = FALSE
    /\ notifier = "none"
    /\ nEpoch = 0
    /\ queue = <<>>
    /\ active = FALSE
    /\ callerPc = "idle"
    /\ ctx = "connect"
    /\ lastRet = FALSE
    /\ msgCount = 0
    /\ handled = <<>>
    /\ pendingAtStop = {}
    /\ wroteClosed = FALSE

\* The steps of a connect/disconnect already under way.
CallerStep ==
    /\ \/ OpenSocket \/ StartReader \/ StartNotifier \/ StopNotifier
       \/ JoinNotifier \/ Shutdown \/ StopReader \/ RollbackClose
       \/ DisconnectClose \/ MarkDisconnected
    /\ UNCHANGED wroteClosed

NotifierStep ==
    /\ \/ NotifierAttach \/ NotifierPop \/ NotifierWait
       \/ NotifierWake \/ NotifierExit
    /\ UNCHANGED wroteClosed

ReaderStep ==
    /\ (\E id \in MsgIds : ReaderRecv(id)) \/ ReaderEOF
    /\ UNCHANGED wroteClosed

WriterStep ==
    /\ WriterSend
    /\ UNCHANGED <<connected, sock, epoch, reader, notifierTid, notifier,
                   nEpoch, queue, active, callerPc, ctx, lastRet, msgCount,
                   handled, pendingAtStop>>

Next ==
    \/ (Connect \/ Disconnect) /\ UNCHANGED wroteClosed
    \/ CallerStep
    \/ ReaderStep
    \/ NotifierStep
    \/ WriterStep

\* A running thread keeps running: the caller inside connect/disconnect and
\* the notifier are weakly fair; the daemon closes its end after our
\* SHUT_WR.  Starting a connect, a disconnect or a send, and the daemon
\* sending a message, are not required to happen.
Spec == Init /\ [][Next]_vars
        /\ WF_vars(CallerStep) /\ WF_vars(NotifierStep)
        /\ WF_vars(ReaderEOF /\ UNCHANGED wroteClosed)

-----------------------------------------------------------------------------
(* Properties                                                              *)

\* The variables have their types, and notifier_tid is 0 exactly when no
\* notifier thread is left to join.
TypeOK ==
    /\ connected \in BOOLEAN
    /\ sock \in {"none", "created", "open", "wrshut", "closed"}
    /\ epoch \in 0..MaxEpochs
    /\ reader \in {"none", "running", "exited"}
    /\ notifierTid \in BOOLEAN
    /\ notifierTid = (notifier # "none")
    /\ notifier \in {"none", "attach", "run", "wait", "exited"}
    /\ nEpoch \in 0..MaxEpochs
    /\ queue \in Seq(Msg)
    /\ active \in BOOLEAN
    /\ callerPc \in CallerPcs
    /\ ctx \in {"connect", "disconnect", "reconnect"}
    /\ lastRet \in BOOLEAN
    /\ msgCount \in 0..MaxMsgs
    /\ handled \in Seq([n : 1..MaxMsgs, epoch : 1..MaxEpochs,
                        session : 0..MaxEpochs, route : Routes])
    /\ pendingAtStop \subseteq 1..MaxMsgs
    /\ wroteClosed \in BOOLEAN

\* Whenever connect_unix/disconnect_unix has returned, the session is either
\* whole (socket open, reader running, a notifier thread) or fully torn
\* down (no socket, no reader, no notifier): every failure in connect_unix
\* rolls back what it started, and disconnect_unix undoes all of it.
SessionConsistent ==
    callerPc = "idle" =>
        IF connected
        THEN /\ sock = "open" /\ reader = "running" /\ notifierTid
             /\ lastRet
        ELSE /\ sock \in {"none", "closed"} /\ reader = "none"
             /\ ~notifierTid /\ notifier = "none"

\* A message already queued when stop_notifier deactivates the queue is
\* dispatched before the notifier thread quits: the loop condition
\* while(head || active) drains the queue after deactivation.
DrainOnStop ==
    notifier = "exited" => pendingAtStop \subseteq HandledSerials

\* Every message is dispatched by the notifier of the session whose socket
\* it was read from: nothing read on one connection is handled after the
\* client has disconnected and connected again.
NoStaleDispatch ==
    \A i \in DOMAIN handled : handled[i].epoch = handled[i].session

\* A connect or disconnect that has begun returns: stop_notifier's join and
\* stop_reader's join both end, so the caller is never blocked for good.
DisconnectCompletes ==
    callerPc # "idle" ~> callerPc = "idle"

\* While the client stays connected, every queued message is eventually
\* dispatched by the notifier.
InQueue(k) == k \in Serials(queue)
ConnectedSessionDelivers ==
    \A k \in 1..MaxMsgs :
        (InQueue(k) /\ connected) ~> (k \in HandledSerials \/ ~connected)

\* A sender that holds write_lock and finds the client connected writes to
\* the session's socket, never to the descriptor disconnect_unix has
\* already closed (whose number the system may have handed out again).
NoWriteAfterClose == ~wroteClosed

=============================================================================

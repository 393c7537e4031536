---------------------------- MODULE ChildDispatch ----------------------------
(***************************************************************************)
(* Running children and the notifier's dispatch of their output.           *)
(* on_message (dSploitClient/notifier.c) looks the child of a popped       *)
(* message up by m->head.id in the children list, under the children       *)
(* lock, and hands the message to the child it finds; a message whose id  *)
(* matches no child is logged and dropped.                                 *)
(*                                                                         *)
(* Starting and ending children (child.c) and framing their output into    *)
(* messages (reader.c) are not in the repository; they are modelled from   *)
(* spec section 2: a child's id is unique among the running children,      *)
(* and a child leaves the list when its tool exits or is killed.  Child    *)
(* instances are numbered in the order they start (a ghost), so that a     *)
(* message can be traced back to the instance that produced it.            *)
(***************************************************************************)
EXTENDS Integers, Sequences, SequencesExt

CONSTANTS
    Ids,          \* child ids
    MaxChildren,  \* child instances started in a behaviour
    MaxMsgs,      \* messages produced in a behaviour
    ReuseIds      \* may an id be given again once its child has ended?

VARIABLES
    children,     \* children.list, in list order: [id, inst]
    started,      \* child instances started so far
    used,         \* ids given so far
    queue,        \* incoming messages in flight: [id, inst of the producer]
    routed        \* dispatched messages: [inst, alive, to]

vars == <<children, started, used, queue, routed>>

Running == {children[k].inst : k \in DOMAIN children}

\* Fault variant: the search starts at the second element of the list.
LookupChildSkipHead(list, id) ==
    IF list = <<>> THEN 0
    ELSE LET k == SelectInSeq(Tail(list), LAMBDA c : c.id = id)
         IN  IF k = 0 THEN 0 ELSE k + 1

\* for(c = children.list.head; c && c->id != m->head.id; c = c->next);
\* the position of the child found, 0 for NULL.
LookupChild(list, id) == SelectInSeq(list, LAMBDA c : c.id = id)

Init ==
    /\ children = <<>>
    /\ started = 0
    /\ used = {}
    /\ queue = <<>>
    /\ routed = <<>>

\* A child is started under an id no running child has.
StartChild(id) ==
    /\ started < MaxChildren
    /\ id \notin {children[k].id : k \in DOMAIN children}
    /\ ReuseIds \/ id \notin used
    /\ children' = Append(children, [id |-> id, inst |-> started + 1])
    /\ started' = started + 1
    /\ used' = used \cup {id}
    /\ UNCHANGED <<queue, routed>>

\* The tool of the k-th child exits or is killed: it leaves the list.
ChildExit(k) ==
    /\ children' = RemoveAt(children, k)
    /\ UNCHANGED <<started, used, queue, routed>>

\* The reader frames a chunk of the k-th child's output and pushes it.
ChildOutput(k) ==
    /\ Len(queue) + Len(routed) < MaxMsgs
    /\ queue' = Append(queue, [id |-> children[k].id, inst |-> children[k].inst])
    /\ UNCHANGED <<children, started, used, routed>>

\* The notifier pops the head and on_message looks its child up; alive
\* records whether the producing instance still runs, to the instance the
\* message is handed to (0: "child not found", dropped).
Dispatch ==
    /\ queue # <<>>
    /\ LET m == Head(queue)
           c == LookupChild(children, m.id)
       IN  routed' = Append(routed, [inst  |-> m.inst,
                                     alive |-> m.inst \in Running,
                                     to    |-> IF c = 0 THEN 0
                                               ELSE children[c].inst])
    /\ queue' = Tail(queue)
    /\ UNCHANGED <<children, started, used>>

\* Nothing is left to run: the queue is empty, every child has ended and
\* no further child can start.
Quiet ==
    /\ queue = <<>>
    /\ children = <<>>
    /\ started = MaxChildren \/ (~ReuseIds /\ used = Ids)
    /\ UNCHANGED vars

Next ==
    \/ \E id \in Ids : StartChild(id)
    \/ \E k \in DOMAIN children : ChildExit(k)
    \/ \E k \in DOMAIN children : ChildOutput(k)
    \/ Dispatch
    \/ Quiet

Spec == Init /\ [][Next]_vars

\* Spec section 2: once a child has ended, the messages still in flight
\* for its id are dropped; while it runs they are handed to it.  That is,
\* on_message's lookup by id hands each message to the child instance that
\* produced it, or to none.
RoutedToProducer ==
    \A k \in DOMAIN routed :
        routed[k].to = IF routed[k].alive THEN routed[k].inst ELSE 0

=============================================================================

------------------------- MODULE MC_DaemonHandlers -------------------------
(* A handlers directory with: two valid plugins (ids 1 and 5), a second    *)
(* valid plugin with id 1, a plugin whose executable fails access(X_OK)    *)
(* that also claims id 5, and a loadable library whose name does not end   *)
(* in ".so" (a versioned copy), and a library without handler_info.  With *)
(* the readdir orders and the allocation failures this gives loads that    *)
(* succeed, loads that fail on the duplicate, loads that succeed because a *)
(* duplicate was skipped, and both failure paths that go through close:.  *)
EXTENDS DaemonHandlers, TLC
LOCAL INSTANCE SequencesExt

CONSTANTS p1, p2, p3, p4, p5, p6

Plugin(f, d, s, e, x, i) ==
    [file |-> f, dl |-> d, sym |-> s, enabled |-> e, exec |-> x, id |-> i]

MCPlugins == {p1, p2, p3, p4, p5, p6}
MCInfo ==
    (p1 :> Plugin("so", TRUE, TRUE, TRUE, "ok", 1))
    @@ (p2 :> Plugin("so", TRUE, TRUE, TRUE, "none", 5))
    @@ (p3 :> Plugin("so", TRUE, TRUE, TRUE, "ok", 1))
    @@ (p4 :> Plugin("so", TRUE, TRUE, TRUE, "denied", 5))
    @@ (p5 :> Plugin("other", TRUE, TRUE, TRUE, "none", 7))
    @@ (p6 :> Plugin("so", TRUE, FALSE, TRUE, "none", 9))
-----------------------------------------------------------------------------
(* The duplicate scan of load_handlers on its own, beside the loads: every *)
(* list of up to MaxLen handlers whose ids are drawn from Ids, fixed in an *)
(* initial state.  The registry runs from the initial state with the empty *)
(* list only; the others are checked where they start, and stutter.        *)

CONSTANTS Ids, MaxLen

VARIABLE ids

MCInit == Init /\ ids \in SeqOf(Ids, MaxLen)
MCNext == \/ ids = <<>> /\ Next /\ UNCHANGED ids
          \/ ids # <<>> /\ UNCHANGED <<vars, ids>>
MCSpec == MCInit /\ [][MCNext]_<<vars, ids>>

\* The scan load_handlers() runs reports a duplicate exactly when two
\* handlers in the list share an id, wherever the two sit in the list.
DupScanAgrees == HasDupIds(ids) = RefHasDupIds(ids)
=============================================================================

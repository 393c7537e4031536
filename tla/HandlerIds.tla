----------------------------- MODULE HandlerIds -----------------------------
(***************************************************************************)
(* The duplicate-id scan at the end of load_handlers() in                  *)
(* dSploitd/handler.c, as a pure operator over the sequence of ids of the  *)
(* handlers list (list order), with the nested loop kept:                  *)
(*                                                                         *)
(*   for(h=head; h->next; h=h->next) {                                     *)
(*     for(tmp=h->next; tmp && tmp->id != h->id; tmp=tmp->next);           *)
(*     if(tmp) return -1;                                                  *)
(*   }                                                                     *)
(*                                                                         *)
(* The caller only runs it on a non-empty list (the "no handlers found"    *)
(* check comes first).                                                     *)
(***************************************************************************)
EXTENDS Naturals, Sequences
LOCAL INSTANCE Functions

\* Inner loop: is there a tmp at position j or later with h's id?
RECURSIVE DupAfter(_, _, _)
DupAfter(ids, i, j) ==
    IF j > Len(ids) THEN FALSE
    ELSE ids[j] = ids[i] \/ DupAfter(ids, i, j + 1)

\* Fault variant: the outer loop runs while(h->next->next) and never
\* compares the last two handlers.
RECURSIVE OuterScanStopsEarly(_, _)
OuterScanStopsEarly(ids, i) ==
    IF i + 1 >= Len(ids) THEN FALSE
    ELSE DupAfter(ids, i, i + 1) \/ OuterScanStopsEarly(ids, i + 1)

\* Outer loop: for every h that has a successor.
RECURSIVE OuterScan(_, _)
OuterScan(ids, i) ==
    IF i >= Len(ids) THEN FALSE
    ELSE DupAfter(ids, i, i + 1) \/ OuterScan(ids, i + 1)

HasDupIds(ids) == OuterScan(ids, 1)

\* Reference: two list positions hold the same id.
RefHasDupIds(ids) == ~IsInjective(ids)
=============================================================================

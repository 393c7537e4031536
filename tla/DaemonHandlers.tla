--------------------------- MODULE DaemonHandlers ---------------------------
(***************************************************************************)
(* The daemon's handler registry, dSploitd/handler.c: load_handlers()      *)
(* scans HANDLERS_DIR, dlopens every "*.so", resolves "handler_info",      *)
(* validates it with check_handler() and appends it to the handlers list;  *)
(* after the scan it fails on an empty list or on two handlers sharing an  *)
(* id.  unload_handlers() dlcloses and removes every handler.              *)
(*                                                                         *)
(* A directory entry is a model value; what the code learns about it from  *)
(* the file system and the dynamic loader is a constant record:            *)
(*   file     "so" if the name ends in ".so", "other" otherwise            *)
(*   dl       dlopen succeeds                                              *)
(*   sym      dlsym(handle, "handler_info") succeeds                       *)
(*   enabled  h->enabled                                                   *)
(*   exec     "none" (no argv0, no workdir), "ok" or "denied" (access X_OK)*)
(*   id       h->id                                                        *)
(* readdir order is unspecified: every pass may list the entries in any    *)
(* order.  An allocation (asprintf) may fail on any "*.so" entry.          *)
(***************************************************************************)
EXTENDS Naturals, Sequences, HandlerIds
LOCAL INSTANCE SequencesExt

CONSTANTS Plugins, Info

ASSUME Info \in [Plugins -> [file : {"so", "other"}, dl : BOOLEAN,
                             sym : BOOLEAN, enabled : BOOLEAN,
                             exec : {"none", "ok", "denied"}, id : Nat]]

VARIABLES
    pc,          \* "idle", "scan" (inside the readdir loop) or "opened"
                 \* (dlopen returned a handle, dlsym and check_handler next)
    dir,         \* entries readdir has still to return in this pass
    cur,         \* <<p>> while the handle of entry p is being resolved
    handlers,    \* the handlers list, in list order
    open,        \* plugins whose dl handle is open
    result,      \* return value of the last load_handlers: "ok" | "fail"
    before       \* ghost: the handlers list when this load pass began

vars == <<pc, dir, cur, handlers, open, result, before>>

-----------------------------------------------------------------------------

\* The ids of a list of handlers, in list order.
IdsOf(s) == [i \in DOMAIN s |-> Info[s[i]].id]

\* Fault variant: the extension filter is lost, every entry is dlopened.
IsPluginFileAny(p) == TRUE

\* strncmp(de->d_name + (len - 3), ".so", 3): only "*.so" entries are tried.
IsPluginFile(p) == Info[p].file = "so"

\* check_handler(): a disabled handler is refused; if it names an
\* executable (argv0, workdir or both) that path must pass access(X_OK).
CheckHandler(p) ==
    /\ Info[p].enabled
    /\ Info[p].exec \in {"none", "ok"}

\* Fault variant: the failure path continues without going through close:.
CloseHandleKept(p) == UNCHANGED open

\* close: dlclose(handle); free(path).
CloseHandle(p) == open' = open \ {p}

-----------------------------------------------------------------------------

\* load_handlers(): opendir fails, or the scan starts.  The registry is
\* filled once per pass from empty (at start-up, or after unload_handlers).
LoadHandlers ==
    /\ pc = "idle"
    /\ handlers = <<>>
    /\ \/ /\ result' = "fail"                             \* opendir fails
          /\ UNCHANGED <<pc, dir, before>>
       \/ /\ pc' = "scan"
          /\ dir' \in SetToSeqs(Plugins)
          /\ before' = handlers
          /\ UNCHANGED result
    /\ UNCHANGED <<cur, handlers, open>>

\* One iteration of while((de=readdir(d))) up to dlopen: "." and "..",
\* and names not ending in ".so", are skipped; asprintf or dlopen may fail
\* (logged, nothing opened, continue); else the handle is open.
ScanEntry ==
    /\ pc = "scan"
    /\ dir # <<>>
    /\ LET p == Head(dir) IN
       \/ /\ ~IsPluginFile(p)
          /\ UNCHANGED <<pc, cur, open>>
       \/ /\ IsPluginFile(p)                  \* asprintf (line 93) or dlopen fails
          /\ UNCHANGED <<pc, cur, open>>
       \/ /\ IsPluginFile(p) /\ Info[p].dl
          /\ open' = open \cup {p}
          /\ cur' = <<p>>
          /\ pc' = "opened"
    /\ dir' = Tail(dir)
    /\ UNCHANGED <<handlers, result, before>>

\* dlsym(handle, "handler_info") and check_handler(h): on success
\* h->dl_handle = handle and list_add; on either failure goto close.
ResolveEntry ==
    /\ pc = "opened"
    /\ LET p == cur[1] IN
       \/ /\ Info[p].sym /\ CheckHandler(p)
          /\ handlers' = Append(handlers, p)
          /\ UNCHANGED open
       \/ /\ ~(Info[p].sym /\ CheckHandler(p))
          /\ CloseHandle(p)
          /\ UNCHANGED handlers
    /\ cur' = <<>>
    /\ pc' = "scan"
    /\ UNCHANGED <<dir, result, before>>

\* closedir; "no handlers found"; the duplicate-id scan; return.
FinishLoad ==
    /\ pc = "scan"
    /\ dir = <<>>
    /\ pc' = "idle"
    /\ result' = IF handlers = <<>> \/ HasDupIds(IdsOf(handlers))
                 THEN "fail" ELSE "ok"
    /\ UNCHANGED <<dir, cur, handlers, open, before>>

\* unload_handlers(): queue_get and dlclose every handler.
UnloadHandlers ==
    /\ pc = "idle"
    /\ handlers # <<>>
    /\ handlers' = <<>>
    /\ open' = open \ ToSet(handlers)
    /\ UNCHANGED <<pc, dir, cur, result, before>>

-----------------------------------------------------------------------------

Init ==
    /\ pc = "idle"
    /\ dir = <<>>
    /\ cur = <<>>
    /\ handlers = <<>>
    /\ open = {}
    /\ result = "none"
    /\ before = <<>>

Next == LoadHandlers \/ ScanEntry \/ ResolveEntry \/ FinishLoad
        \/ UnloadHandlers

Spec == Init /\ [][Next]_vars

-----------------------------------------------------------------------------
(* Properties                                                              *)

\* The handlers list only ever holds descriptors resolved from "*.so"
\* entries.
TypeOK ==
    /\ pc \in {"idle", "scan", "opened"}
    /\ dir \in Seq(Plugins)
    /\ cur \in Seq(Plugins) /\ Len(cur) <= 1
    /\ handlers \in Seq({p \in Plugins : Info[p].file = "so"})
    /\ open \subseteq Plugins
    /\ result \in {"none", "ok", "fail"}
    /\ before \in Seq(Plugins)

\* Every dl handle load_handlers opened is held by a handler in the list,
\* or is the one whose dlsym and check_handler are pending; a handle whose
\* plugin was rejected after dlopen has been dlclosed by the time the scan
\* moves on, and unload_handlers closes the rest.
NoLeakedHandles == open = ToSet(handlers) \cup ToSet(cur)

\* The step on which load_handlers returns after its readdir loop.
LoadReturns == pc = "scan" /\ pc' = "idle"

\* A load that returns -1 leaves the registry as it found it (spec section
\* 8: "duplicate ids fails the entire load and yields an empty/unmodified
\* registry").
LoadRollsBack ==
    [][LoadReturns /\ result' = "fail" => handlers' = before]_vars

=============================================================================

------------------------------- MODULE Startup -------------------------------
(***************************************************************************)
(* Loading of the client library, dSploitClient/init.c: JNI_OnLoad gets    *)
(* the JNI environment, zeroes the shared structures, initialises the four *)
(* control blocks, fills the JNI cache and registers the native methods;   *)
(* the first step that fails jumps to the error label, which destroys the  *)
(* control blocks and frees the cache.  The library is usable only when    *)
(* JNI_OnLoad returned JNI_VERSION_1_6 and set jvm.                        *)
(*                                                                         *)
(* The outcome of every call that may fail (GetEnv, each control_init,     *)
(* _init_cache, RegisterNatives) is fixed in the initial state.            *)
(* control_init, _init_cache, destroy_controls and _free_cache live        *)
(* outside src/ and are modelled from spec section 7: a failed step leaves *)
(* nothing initialised of its own, and teardown releases everything.       *)
(***************************************************************************)
EXTENDS Integers, Sequences, SequencesExt

CONSTANT JNI_VERSION_1_6

\* init_controls(): the control blocks, in the order they are initialised.
ControlBlocks == <<"children", "incoming_messages", "handlers", "logged">>

Outcomes == [getEnv : BOOLEAN, control : [ToSet(ControlBlocks) -> BOOLEAN],
             cache : BOOLEAN, register : BOOLEAN]

VARIABLES
    ok,          \* the outcome of each call that may fail
    pc,          \* the next statement of JNI_OnLoad, or "returned"
    ret,         \* what JNI_OnLoad returned
    env,         \* "set" once GetEnv has filled it in, else indeterminate
    controls,    \* control blocks initialised and not destroyed
    cache,       \* "empty", "filled"
    registered,  \* the native methods are registered with the VM
    jvm          \* the global jvm pointer is set

vars == <<ok, pc, ret, env, controls, cache, registered, jvm>>

\* Fault variant: the result of control_init(&(logged.control)) is ignored.
InitControlsNoLoggedCheck(okc) ==
    LET k == SelectInSeq(SubSeq(ControlBlocks, 1, 3), LAMBDA b : ~okc[b])
    IN  IF k = 0 THEN [ret |-> 0, done |-> {b \in ToSet(ControlBlocks) : okc[b]}]
        ELSE [ret |-> -1, done |-> ToSet(SubSeq(ControlBlocks, 1, k - 1))]

\* init_controls(): stops at the first control_init that fails.
InitControls(okc) ==
    LET k == SelectInSeq(ControlBlocks, LAMBDA b : ~okc[b])
    IN  IF k = 0 THEN [ret |-> 0, done |-> ToSet(ControlBlocks)]
        ELSE [ret |-> -1, done |-> ToSet(SubSeq(ControlBlocks, 1, k - 1))]

Init ==
    /\ ok \in Outcomes
    /\ pc = "get_env"
    /\ ret = 0
    /\ env = "indeterminate"
    /\ controls = {}
    /\ cache = "empty"
    /\ registered = FALSE
    /\ jvm = FALSE

\* GetEnv; on failure goto error.
GetEnv ==
    /\ pc = "get_env"
    /\ env' = IF ok.getEnv THEN "set" ELSE "indeterminate"
    /\ pc' = IF ok.getEnv THEN "init_controls" ELSE "error"
    /\ UNCHANGED <<ok, ret, controls, cache, registered, jvm>>

\* init_structs(); set_logger(); if(init_controls()) goto error.
InitStructsAndControls ==
    /\ pc = "init_controls"
    /\ LET r == InitControls(ok.control) IN
       /\ controls' = r.done
       /\ pc' = IF r.ret = 0 THEN "init_cache" ELSE "error"
    /\ UNCHANGED <<ok, ret, env, cache, registered, jvm>>

\* if(_init_cache(env)) goto error.
InitCache ==
    /\ pc = "init_cache"
    /\ cache' = IF ok.cache THEN "filled" ELSE "empty"
    /\ pc' = IF ok.cache THEN "register" ELSE "error"
    /\ UNCHANGED <<ok, ret, env, controls, registered, jvm>>

\* RegisterNatives; on failure clear the exception and goto error; else
\* jvm = pVm and return JNI_VERSION_1_6.
RegisterNatives ==
    /\ pc = "register"
    /\ registered' = ok.register
    /\ jvm' = ok.register
    /\ ret' = IF ok.register THEN JNI_VERSION_1_6 ELSE ret
    /\ pc' = IF ok.register THEN "returned" ELSE "error"
    /\ UNCHANGED <<ok, env, controls, cache>>

\* error: destroy_controls(); _free_cache(env); return -1.
OnLoadError ==
    /\ pc = "error"
    /\ controls' = {}
    /\ cache' = "empty"
    /\ ret' = -1
    /\ pc' = "returned"
    /\ UNCHANGED <<ok, env, registered, jvm>>

\* The library is loaded; nothing more happens in JNI_OnLoad.
Returned == pc = "returned" /\ UNCHANGED vars

Next == GetEnv \/ InitStructsAndControls \/ InitCache \/ RegisterNatives
        \/ OnLoadError \/ Returned

Spec == Init /\ [][Next]_vars

\* JNI_OnLoad leaves no half-initialised library: when it returns
\* JNI_VERSION_1_6 every control block is initialised, the cache filled,
\* the natives registered and jvm set, which happens exactly when every
\* step succeeded; when it returns -1 nothing of it is left.
StartupAllOrNothing ==
    pc = "returned" =>
      IF ret = JNI_VERSION_1_6
      THEN /\ controls = ToSet(ControlBlocks) /\ cache = "filled"
           /\ registered /\ jvm
           /\ ok.getEnv /\ ok.cache /\ \A b \in DOMAIN ok.control : ok.control[b]
      ELSE /\ ret = -1 /\ controls = {} /\ cache = "empty"
           /\ ~registered /\ ~jvm

=============================================================================

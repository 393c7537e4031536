# TLA+ models of the dSploit native layer

This project is a set of TLA+ models of the native (JNI) code in `src/dSploit/jni`,
checked with TLC. It covers:

- the client library `dSploitClient`: the connection manager, the notifier
  thread and a sender writing under `write_lock`;
- the daemon's plugin registry, `dSploitd/handler.c`, with its duplicate-id
  scan as a pure algorithm;
- the daemon's handler-listing response, checked against the client's decoder;
- the arpspoof output decoder;
- the client's per-tool decoders and the `on_raw` line reassembly;
- library start-up, `JNI_OnLoad`;
- the children list and `on_message`'s routing of a message to its child by id.

## 1. Inventory

### System parts and how they interact

| Part | Source | State | Operations |
|---|---|---|---|
| Connection manager | `dSploitClient/connection.c` | `sockfd`, `connected`, `write_lock` | `connect_unix`, `disconnect_unix`, `is_unix_connected` |
| Notifier / dispatch | `dSploitClient/notifier.c` | `notifier_tid`, the `incoming_messages` queue with its mutex, cond and `active` flag | `start_notifier`, `stop_notifier`, the `notifier` thread loop, `on_message` routing, the per-tool decoders `on_raw`, `on_nmap`, … |
| Reader thread, message queue | `reader.c`, `msgqueue.c`, `control.c` | reader thread, queue | `start_reader`, `stop_reader`, push |
| Children list | `child.c` (lookup in `notifier.c`) | list of running children and their handlers | add/remove child; lookup by id in `on_message` |
| Client start-up | `dSploitClient/init.c` | JNI class refs, global structs | `JNI_OnLoad` |
| Daemon registry | `dSploitd/handler.c` | `handlers` list, dl handles | `load_handlers`, `check_handler`, `unload_handlers`, `send_handlers_list`, `on_handler_request` |
| arpspoof decoder | `dSploitHandlers/arpspoof.c` | `error_pattern` regex | `arpspoof_output_parser` |
| hydra layouts | `dSploitHandlers/hydra.h` | none | the `hydra_action` enum shared with `on_hydra`; record structs |

The reader, message-queue and children code is not in `src/`.

How the client parts interact:

- `connect_unix` opens a UNIX socket to the daemon, then starts the reader
  thread and the notifier thread.
- The reader frames messages from the socket and pushes them onto
  `incoming_messages`.
- The notifier pops each message under the queue mutex and routes it:
  - a control message goes to `on_control`;
  - any other message goes by its child's handler to a decoder, which sends an
    event to Java.
- `disconnect_unix` tears the session down in a fixed order:
  1. stop the notifier;
  2. `shutdown(SHUT_WR)` under `write_lock`;
  3. stop the reader, which works only because the daemon closes its end after
     step 2;
  4. close the socket.
- On the daemon side, `load_handlers` fills the registry that
  `send_handlers_list` reports to the client.

### Hard behaviours

These are the behaviours that tests hardly reach; PROJECT.json lists each one at
its line.

- The reader and the notifier interleave with the caller thread.
- Teardown order: the notifier is stopped before the reader.
- Each failure exit of `connect_unix` must undo exactly what was started before
  it.
- A notifier thread can fail to attach to the JVM.
- The drain-before-quit loop condition, `while(head || active)`.
- readdir order is unspecified.
- dlopen/dlsym/check failures must dlclose the handle.
- The duplicate-id failure path.
- Raw output split into messages at arbitrary bytes.
- Every combination of failing start-up calls in `JNI_OnLoad`.

## 2. Modules

Each module below says which code it models.

### `ClientSession.tla`

This module models `connect_unix`, `disconnect_unix`, `start_notifier`,
`stop_notifier`, the notifier thread and `on_message`'s routing.

Four actors share the state:

- **The caller thread.** `callerPc` walks through the steps of connect or
  disconnect. Each step is one action (OpenSocket, StartReader, StartNotifier,
  StopNotifier, JoinNotifier, Shutdown, StopReader, RollbackClose,
  DisconnectClose, MarkDisconnected), and `ctx` says whether the steps belong to a connect
  rollback, a disconnect, or a disconnect inside a reconnect.
- **The reader.** ReaderRecv pushes a message of a child; ReaderEOF ends the
  reader after our SHUT_WR.
- **The notifier.** Its actions are NotifierAttach, NotifierWait, NotifierWake,
  NotifierPop and NotifierExit. The notifier holds the queue mutex from its
  pop through the dispatch, so one loop iteration is a single step.
- **A sender** (WriterSend). The code that writes to `sockfd` is not in
  `src/`. Spec §1 says it writes under `write_lock`, so the model takes the most
  careful form: lock, test `connected`, write, unlock. The only other holder of
  `write_lock` is disconnect's SHUT_WR, so the sender's critical section is
  one step.

`disconnect_unix`'s end is two steps: DisconnectClose (`close`, line 140,
outside the lock) and MarkDisconnected (`connected = 0`, `on_disconnect`,
`unload_handlers`, lines 142-146).

The other variables:

- `active` is the queue's control flag.
- `queue` holds the queued messages.
- `epoch` numbers the connections; `nEpoch` is the connection a notifier thread
  was started for.
- The ghost variables `handled` and `pendingAtStop` record what was dispatched
  and what was queued when `stop_notifier` ran.

What is abstracted:

- A decoder is abstracted to the route it takes (control, unknown child, no
  stdout, blind, decode, unknown handler).
- The children list is the constant `ChildHandler`.

The reader and the queue's push/activate code are not in `src/`. They are
modelled after spec §2/§4.1 and marked `spec_modelled` in the map: push appends
whether or not the queue is active.

### `DaemonHandlers.tla`

This module models `load_handlers`, `check_handler` and `unload_handlers`.

- Each directory entry is a model value. What the file system and the loader say
  about it (extension, dlopen, dlsym, enabled, access, id) is the constant
  `Info`.
- LoadHandlers either fails at opendir or picks a readdir order out of all
  orders.
- ScanEntry is one loop iteration up to `dlopen` (lines 83-102). It skips
  `.`, `..` and names that do not end in `.so`. An asprintf or dlopen failure
  opens nothing. Otherwise the handle is open (`open`), `cur` names the entry
  and `pc` is `"opened"`.
- ResolveEntry is `dlsym` and `check_handler` (lines 104-118). On success the
  handler is appended to the list. On either failure the entry goes to
  label `close:`, which is `CloseHandle` (the `dlclose`).
- FinishLoad runs the empty and duplicate checks.
- The ghost variable `before` is the list when the pass began.

### `HandlerIds.tla`

This module holds the nested duplicate-id loop (`handler.c:135-142`) as the
RECURSIVE operators `DupAfter`/`OuterScan`. `DaemonHandlers` uses it.
`MC_DaemonHandlers` checks it, on every id list of length up to 5 over
3 ids, against the reference definition "the id sequence is not injective".

### `HandlerList.tla`

This module models `send_handlers_list` and `on_handler_request`
(`handler.c:164-227`) as operators:

- `ArraySize`/`EntrySize` are the size pass.
- `PackEntries`/`WriteEntry`/`EntryStride` are the packing pass, with the
  cursor arithmetic of lines 201-202.
- The payload is a function from offset to byte; an offset never written is
  outside its domain.
- The `hndl_list_info`/`hndl_info` declarations are not in `src/`, so their
  sizes are the constants `ListSize`, `InfoSize` and `NameOffset`, given the
  packed values (1, 6, 6) of spec §5.
- `DecodeListing` is the client decoder of the wire format spec §5 states. It
  is the reference the encoder is checked against.

### `Arpspoof.tla`

This module models the constructor's pattern and `arpspoof_output_parser`:

- the anchored, case-folded match;
- `create_message(len - 6)`;
- `memcpy(data + 1, line + 8, len - 7)`.

`size_t` subtraction wraps modulo `SizeMod`. TLC's integers stop at 2^31, so
`SizeMod` is 2^16, which still puts a wrapped length far outside any buffer.

A failed `regcomp` is an input. Regexec on the uncompiled pattern returns
`REG_BADPAT`, which the parser treats as no match.

### `Decoders.tla`

This module models the five structured decoders of `notifier.c`: `on_nmap`,
`on_ettercap`, `on_hydra`, `on_arpspoof` and `on_tcpdump`.

- Each `switch` is a function, `NmapCases` … `TcpdumpCases`, from the action
  codes it has a case for to the event constructor that case calls.
  - A code outside the domain is the `default:` branch: a warning and -1.
- `SendDecoded` is the shared tail: a NULL event or a failed `send_event`
  gives -1, and a sent event gives 0.
- `OnNmap` … `OnTcpdump` are the five functions: the switch, its default and
  the shared tail.
- `OnStructured` is `on_message`'s choice of decoder by handler slot.
- hydra's codes are the `hydra_action` enum of `hydra.h` (0 to 3). The other
  tools' codes are declared outside `src/`, so they are model values.
- Whether a constructor returns an object, and whether `send_event` succeeds,
  are inputs.

### `RawOutput.tla`

This module models `on_raw` for one child of the raw handler.

- The state is the child's reassembly buffer, the lines taken out of it, and a
  history `produced` of every byte the child wrote, lost chunks included.
- `OnRawAppendFails(data)` is the `append_to_buffer` failure: it returns -1,
  the chunk is lost, and the buffer keeps what it held.
- `OnRaw(data)` appends the chunk. The `while` loop (`DrainLines`) then takes
  out every complete line, and each line's event is sent or not.
- `append_to_buffer` and `get_line_from_buffer` (buffer.c) are not in `src/`.
  They are modelled from spec §3 and §4.3, and marked `spec_modelled`.
  Reassembly itself is therefore not checked: with these definitions it
  would hold by construction. The module asks only what the code adds, which
  is the loop and what the append failure leaves behind.

### `Startup.tla`

This module models `JNI_OnLoad` with one action per step up to its
`goto error`:

- `GetEnv`;
- `init_structs` and `init_controls` (one step);
- `_init_cache`;
- `RegisterNatives`;
- the error label.

The outcome of every call that can fail is fixed in the initial state. The
module's outcome set holds every combination of failures, so all paths are
checked. `control_init`, `_init_cache`, `destroy_controls` and `_free_cache`
are outside `src/`; they are abstracted to what they initialise or release.

### `ChildDispatch.tla`

This module composes the children list with the notifier's dispatch.

- `children` is the list in list order, each child a record of its id and a
  ghost instance number, counted by `started` in start order. `queue` holds
  the messages in flight, each with its producer's id and instance.
- `StartChild`, `ChildExit` and `ChildOutput` are the parts in `child.c` and
  `reader.c`, which are not in `src/`. They are modelled from spec §2 and
  marked `spec_modelled`: a child's id is unique among the running children,
  and a child leaves the list when its tool ends.
- `Dispatch` is `on_message`'s lookup (`notifier.c:218-236`). It pops the head
  of the queue, looks the first child with the message's id up
  (`LookupChild`), and records the instance the message was handed to, or 0
  for "child not found".
- The constant `ReuseIds` says whether an id may be given again once its child
  has ended. The spec says only that ids are unique among running children.

### MC modules

`MC_ClientSession`, `MC_DaemonHandlers`, `MC_HandlerList` and `MC_Decoders`
give the constants their values.
- `MC_DaemonHandlers` adds a variable `ids`, the id list given to the
  duplicate scan, which is fixed in the initial state and never changes.
- `MC_HandlerList` and `MC_Decoders` enumerate their inputs as initial states,
  with a stuttering next-state relation.
- `MC_Decoders` covers both ends of tool-output decoding. It instantiates
  `Arpspoof` for the daemon's parser, and the two share the action code
  `ARPSPOOF_ERROR`.
`MC_Decoders` also holds the reference table: the event category that spec §6
names for each record a tool wrapper emits (spec §4.3; hydra's from the
"must be set to" comments in `hydra.h`).

## 3. Runs

| Run | Config | Result | What it shows |
|---|---|---|---|
| session | `ClientSession.cfg` | pass (941,858 states, ~60 s) | Whatever the interleaving and failure exits (`control_activate` and `pthread_create` in `start_notifier` included), a session at rest is whole or fully torn down, teardown returns, the notifier drains before it exits, and queued messages of a live session are dispatched. |
| session_write | `ClientSession_write.cfg` | violation of `NoWriteAfterClose` | A sender holding `write_lock` that sees `connected` writes to the descriptor `disconnect_unix` has just closed. |
| handler_list | `HandlerList.cfg` | pass (383,912 states) | For every registry of up to 3 handlers (ids 1, 5 and 300; names of 0-2 bytes), every request code, and every success or failure of create_message and enqueue_message: a sent listing has every byte of the payload the first pass sized written, and decodes to the registry. |
| session_stale | `ClientSession_stale.cfg` | violation of `NoStaleDispatch` | A message read on connection 1 is dispatched by connection 2's notifier. |
| session_attach_failure | `ClientSession_attach.cfg` | violation of `ConnectedSessionDelivers` | With AttachCurrentThread failing, connect reports success and nothing is ever dispatched. |
| registry | `DaemonHandlers.cfg` | pass (18,918 states) | For every readdir order and allocation failure, every handle `dlopen` returned is held by a listed handler or is closed before the scan moves on. This covers the `check_handler` and `dlsym` failures, and `unload_handlers`. The nested duplicate scan is correct on all id lists of length up to 5 over 3 ids. |
| registry_rollback | `DaemonHandlers_rollback.cfg` | violation of `LoadRollsBack` | A duplicate-id failure returns -1 with the handlers still loaded. |
| decoders | `Decoders.cfg` | pass (104,000 states) | For every structured handler, every action code (one unused code included) and every JNI outcome, a record the tool emits becomes one event of the category spec §6 names, exactly when the constructor and `send_event` succeed. Any other code is dropped with -1. On the daemon side, on error-prefixed lines in any case and on prefixes that are cut short, broken or shifted, arpspoof's copy stays inside the message and the line, and the record is the text after the prefix with its NUL. |
| raw_output | `RawOutput.cfg` | violation of `NoSplicedLines` | A chunk lost to a failed append leaves the start of its line in the buffer, and the next newline event delivers text the tool never printed as a line. |
| child_dispatch | `ChildDispatch.cfg` | pass (11,378 states) | With three ids never reused, every interleaving of children starting, ending and producing output with the notifier's dispatch: each message goes to the child instance that produced it if that child still runs, and otherwise is dropped. |
| child_id_reuse | `ChildDispatch_reuse.cfg` | violation of `RoutedToProducer` | When an id is given again after its child ended, a message of the old child still queued goes to the new child. |
| startup | `Startup.cfg` | pass (453 states) | For every combination of failing `GetEnv`, `control_init` (each of four), `_init_cache` and `RegisterNatives`, `JNI_OnLoad` either initialises everything and sets `jvm`, or returns -1 with nothing left initialised. |

### Findings

1. **Stale dispatch across connections** (`connection.c:132`).
   - `disconnect_unix` and the connect error path stop the notifier before the
     reader.
   - Messages the reader frames in between stay in `incoming_messages`.
   - The next connection's notifier dispatches them against the new session's
     children. The spec says a connect first fully disconnects.
2. **Attach failure** (`notifier.c:276-278`).
   - The notifier returns without dispatching anything, but `notifier_tid` stays
     set and `connected = 1`.
   - The session looks live and never delivers.
3. **No rollback on duplicate ids** (`handler.c:140`).
   - `return -1` leaves the list filled and dlopened, whereas spec §8 promises
     an empty or unmodified registry.
4. **Write after close** (`connection.c:140`).
   - `disconnect_unix` closes `sockfd` outside `write_lock`.
   - It clears `connected` only at line 142, and it never resets `sockfd`.
   - Even a sender that checks `connected` under the lock writes to a closed
     descriptor, or to one the process has reused.
5. **Output routed to the wrong child** (`notifier.c:225`, spec gap).
   - `on_message` finds a message's child by id alone.
   - Spec §2 makes ids unique only among running children and says that
     messages of an ended child are dropped.
   - If an id is reused while an old child's message is still queued, that
     message goes to the new child's decoder and buffer. Whether `child.c`
     reuses ids cannot be seen in the repository.
6. **A lost chunk corrupts the next line** (`notifier.c:35`, spec gap).
   - When `append_to_buffer` fails, `on_raw` returns -1 and drops the chunk.
     The partial line before it stays in `c->buffer`.
   - The next newline event joins that prefix to text after the gap, or
     delivers only the tail of a line.
   - The spec lets a bad item be dropped (§6). It does not say what becomes of
     the partial line, and the event is not a line the tool printed.

### Bounds

`ClientSession` is checked with these bounds:

- **Children:** four, one per routing class: raw decoder, handler without
  stdout, blind, and unknown. The control id is a fifth model value.
- **Connections:** two (`MaxEpochs`). That is enough for a reconnect and for a
  connection to follow a torn-down one, which the stale-dispatch finding needs.
- **Messages:** up to three in total (`MaxMsgs`), so the queue holds more than
  one message when `stop_notifier` runs.

`HandlerList`'s handler ids reach past one byte (300), and its names include
the empty name. The packing and stride errors that matter (NUL counted or not)
show with one entry already, and ordering and overlap errors show with two or
three.

`Arpspoof` lines are one of eight heads followed by a tail of up to two of
`a`, ` ` and `]`. The heads are:

- the prefix in three casings;
- the prefix without its blank;
- the prefix with `x` in place of its blank;
- the prefix after a leading blank;
- a cut-off `[ERR`;
- the empty line.

`RawOutput` bytes are `a`, `b` and a newline, with up to four messages of one
or two bytes each. With these, a line spans up to four messages, one message
holds up to two lines, and empty lines also occur.

`ChildDispatch` has three ids, three child instances and three messages. That
is enough for a message to outlive its child, and for a second child to be
running when it is dispatched. The reuse run has two ids, so an id must be
given again.

`DaemonHandlers` has six plugins: two valid with the same id, one without an
executable, one denied by access, one without `handler_info`, and one
non-`.so` file. With these, the duplicate, filter, dlsym and check paths all
occur, and both failure paths after `dlopen` go through `close:`. The loads
run from the one initial state whose duplicate-scan input is empty. The
other 363 id lists are checked in their initial states, which only stutter,
so the registry's state space is not multiplied by them.

### Fairness

- Weak fairness on the caller's in-progress steps: a started connect or
  disconnect runs to the end.
- Weak fairness on the notifier: it is a dedicated thread.
- Weak fairness on ReaderEOF: the daemon closes after our SHUT_WR.
- User calls (Connect, Disconnect), sends (WriterSend) and message arrival
  (ReaderRecv) are not fair. The registry model has no liveness property.

## 4. Not modelled, and the plan

Done so far:

- the handler-list serialisation;
- the arpspoof decoder;
- the sender under `write_lock`;
- the structured decoders and the `hydra_action` enum;
- `on_raw`'s loop and its append failure;
- `JNI_OnLoad`;
- the lookup of a message's child and its composition with the children list.

Remaining, most important first:

1. **A registry change between the two passes of `send_handlers_list`.** This
   needs to know which daemon threads can load or unload handlers while a
   request is served. The daemon's main loop is not in `src/`.
2. **Message ownership in the notifier loop.** The loop never frees the
   `msg_node` or the message it pops. This would need a heap model and the
   code of `on_control`, which is not in `src/`. It is listed as a hazard.

Left out entirely:

- **The FIFO order of the incoming queue.** `queue_get` and the push are in
  `list.c` and `msgqueue.c`, which are not in `src/`. Modelled from the spec,
  the queue is a FIFO by construction, so a refinement to an abstract queue
  would check nothing of this code.
- **Reassembly across messages in `on_raw`.** For the same reason, since
  `buffer.c` is not in `src/`.

- **What `destroy_controls` and `_free_cache` do with blocks or an `env` that
  were never initialised.** Their code (fini.c, cache.c) is not in `src/`.
- **The hydra record structs and login `contents` flags.** Only `hydra.c` and
  the `create_*_event` constructors read them, and neither is in the
  repository.
- **JNI local references.** Every decoder path deletes the event it created,
  which can be seen by reading the code; the models do not track references.
- **Not in the repository:** `child.c` (its start and end of children are
  modelled from the spec only; killing a child and its exit status are not), the Java listeners, `auth.c` and
  `list.c`.
- **The struct layout of the listing:** the C declarations are not in `src/`,
  so the model uses the packed layout of the spec. Whether the compiled structs
  are packed cannot be checked here.

------------------------------ MODULE Snapshot ------------------------------
(* Startup snapshots: the builder that captures a bootstrapped worker, the  *)
(* file it is written to, and the worker that starts from it.               *)
(*                                                                         *)
(* The builder (SnapshotBuilder::Generate) compiles the native modules,      *)
(* bootstraps, optionally runs a script, cleans up, and captures the heap    *)
(* together with what lives outside it: the isolate's strings and symbols,   *)
(* the immortal's global handles, the native objects behind JavaScript       *)
(* wrappers, and the code caches.  A worker that finds a usable snapshot     *)
(* (AworkerMainInstance::Initialize) puts those back.  V8's own part (the     *)
(* heap, AddData, GetDataFromSnapshotOnce) is external: AddData appends to a  *)
(* list and returns the position, counted from 0.                            *)
EXTENDS Naturals, Sequences, SequencesExt, FiniteSets

CONSTANTS Leftovers,   \* native objects a script may leave behind
          Modules,     \* native modules
          Boot,        \* the bindings the bootstrap scripts load
          MaxLoads     \* how many more a script loads

B == INSTANCE Bindings

ASSUME BootAssumption == Boot \subseteq B!Bindings

VARIABLES
    script,      \* the builder runs a script (external snapshot) or not
    pc,          \* where the builder, and then the worker, is
    isolate,     \* the isolate's symbols and strings
    field,       \* the immortal's global handles: field[f] is empty or an object
    loaded,      \* loaded_internal_bindings
    object,      \* the native object behind each JavaScript wrapper
    cache,       \* cached_data_map_: the modules with a code cache
    rejected,    \* the modules whose cache V8 refused, or that were recompiled
    file,        \* the snapshot and whether its header will be accepted
    requests     \* deserialize_requests_

snapVars == <<script, pc, isolate, field, loaded, object, cache, rejected,
              file, requests>>

-----------------------------------------------------------------------------
(* What is captured *)

ImmortalGlobals ==
    <<"base_object_ctor_template", "async_wrap_ctor_template",
      "handle_wrap_ctor_template", "context", "process_object",
      "loader_function", "load_binding_function", "agent_channel_callback",
      "agent_channel_handler", "async_wrap_init_function",
      "callback_trampoline_function", "async_wrap_after_function",
      "dom_exception_constructor", "module_wrap_dynamic_import_function",
      "module_wrap_init_import_meta_function", "promise_init_hook",
      "promise_before_hook", "promise_after_hook", "promise_resolve_hook">>

Globals == ToSet(ImmortalGlobals)

\* The handles scripts set through setters, in the groups they are set in (the
\* bootstrap scripts pass no resolve hook).
SetJSPromiseHooks == {"promise_init_hook", "promise_before_hook",
                      "promise_after_hook"}
Settable == {B!ImmortalFunctions, SetJSPromiseHooks,
             {"agent_channel_callback", "agent_channel_handler"},
             {"module_wrap_dynamic_import_function",
              "module_wrap_init_import_meta_function"}}

PrivateSymbols ==
    <<"abort_controller_signal", "abort_signal_aborted",
      "agent_channel_stream_id", "async_context_mapping",
      "contextify_global_private", "event_target_private",
      "promise_rejection", "platform_private_options">>
IsolateStrings ==
    <<"emit_promise_rejection", "emit_uncaught_exception", "handle_onclose",
      "level", "mem_level", "message", "name", "onimmediate", "ontimeout",
      "on_signal", "openssl_error_stack", "prepare_stack_trace",
      "run_cleanup_hooks", "stack", "strategy", "tick_task_queue">>
Properties == ToSet(PrivateSymbols \o IsolateStrings)

Empty == "empty"

\* A native object: none behind the wrapper; a converter, the one
\* snapshotable class, with its error mode; or any other wrap.  One that is
\* held is reachable or strong, the others are the collector's.
NoNative == [kind |-> "none", held |-> FALSE, mode |-> "none"]
Natives == {NoNative}
    \cup [kind : {"converter"}, held : BOOLEAN, mode : {"stop", "substitute"}]
    \cup [kind : {"wrap"}, held : BOOLEAN, mode : {"none"}]

Tracked == {o \in Leftovers : object[o].kind /= "none"}
IsSnapshotable(o) == object[o].kind = "converter"

NoSnapshot == [written |-> FALSE, header |-> "none", isolate |-> <<>>,
               properties |-> <<>>, indexes |-> <<>>,
               data |-> <<>>, objects |-> {}, natives |-> <<>>,
               callbacks |-> {}, caches |-> {}]

CreateProperties == [p \in Properties |-> p]

InitializeDefaultContext ==
    [f \in Globals |-> IF f = "context" THEN f ELSE Empty]

SnapInit ==
    /\ script \in BOOLEAN
    /\ pc = "compile"
    /\ isolate = CreateProperties
    /\ field = InitializeDefaultContext
    /\ loaded = {}
    /\ object = [o \in Leftovers |-> NoNative]
    /\ cache = {}
    /\ rejected = {}
    /\ file = NoSnapshot
    /\ requests = <<>>

Goto(at) == pc' = at

-----------------------------------------------------------------------------
(* The native module manager and the bindings *)

\* Compile takes the module's entry out of the map, hands it to the compiler
\* and stores a new one; a compilation that fails leaves none.
Compile(m, ok) == cache' = IF ok THEN cache \cup {m} ELSE cache \ {m}

\* CompileAll before anything else: one failure ends the builder.
CompileAll ==
    /\ pc = "compile"
    /\ \E failed \in SUBSET Modules :
         /\ cache' = Modules \ failed
         /\ rejected' = Modules
         /\ Goto(IF failed = {} THEN "bootstrap" ELSE "aborted")
    /\ UNCHANGED <<script, isolate, field, loaded, object, file, requests>>

\* A binding that makes a constructor template inherits from the shared one,
\* which GetConstructorTemplate creates when it is first asked for.
BaseObjectTemplate == {"module_wrap", "zlib"}
AsyncWrapTemplate == {"timers", "immediate", "signals", "curl"}
GetConstructorTemplate(bindings) ==
    (IF bindings \cap (BaseObjectTemplate \cup AsyncWrapTemplate) /= {}
       THEN {"base_object_ctor_template"} ELSE {})
      \cup (IF bindings \cap AsyncWrapTemplate /= {}
              THEN {"async_wrap_ctor_template"} ELSE {})

Fill(fs) == [f \in Globals |-> IF f \in fs THEN f ELSE field[f]]

\* BootstrapLoader, then BootstrapPureNativeModules: the loader's functions,
\* the process object, and what the bootstrap scripts choose to set.
BootstrapLoader == {"loader_function", "load_binding_function"}
Bootstrap ==
    /\ pc = "bootstrap"
    /\ loaded' = Boot
    /\ \E set \in SUBSET Settable :
         field' = Fill(BootstrapLoader \cup GetConstructorTemplate(Boot)
                         \cup (IF "process" \in Boot THEN {"process_object"}
                                                     ELSE {})
                         \cup UNION set)
    /\ Goto(IF script THEN "execute" ELSE "cleanup")
    /\ UNCHANGED <<script, isolate, object, cache, rejected, file, requests>>

\* GetBinding, asked for by the script.
GetBinding(b) ==
    /\ pc = "execute"
    /\ b \notin loaded
    /\ Cardinality(loaded) < Cardinality(Boot) + MaxLoads
    /\ loaded' = loaded \cup {b}
    /\ field' = Fill(GetConstructorTemplate({b}))
    /\ UNCHANGED <<script, isolate, pc, object, cache, rejected, file,
                   requests>>

\* The script makes native objects, lets them go, or closes them.
Construct(o, native) ==
    /\ pc = "execute"
    /\ object[o] = NoNative
    /\ native.kind /= "none"
    /\ native.held
    /\ object' = [object EXCEPT ![o] = native]
    /\ UNCHANGED <<script, isolate, pc, field, loaded, cache, rejected, file,
                   requests>>

Drop(o) ==
    /\ pc = "execute"
    /\ object[o].held
    /\ object' = [object EXCEPT ![o].held = FALSE]
    /\ UNCHANGED <<script, isolate, pc, field, loaded, cache, rejected, file,
                   requests>>

\* The script and its loop end.
Executed ==
    /\ pc = "execute"
    /\ Goto("cleanup")
    /\ UNCHANGED <<script, isolate, field, loaded, object, cache, rejected,
                   file, requests>>

\* RunCleanupHooks, a full collection, DrainTasks and the loop: every native
\* object nothing holds is gone, closed handles included.
CollectGarbage ==
    /\ pc = "cleanup"
    /\ object' = [o \in Leftovers |-> IF object[o].held THEN object[o]
                                                     ELSE NoNative]
    /\ Goto("serialize")
    /\ UNCHANGED <<script, isolate, field, loaded, cache, rejected, file,
                   requests>>

-----------------------------------------------------------------------------
(* Serialize and CreateBlob *)

\* The handles that hold something are added in the order of the list ...
Present == SelectSeq(ImmortalGlobals, LAMBDA f : field[f] /= Empty)

\* ... and the index vector has, per handle, 0 or the position AddData gave.
ImmortalSerialize ==
    [i \in DOMAIN ImmortalGlobals |->
        IF field[ImmortalGlobals[i]] = Empty THEN 0
        ELSE CHOOSE k \in 0..(Len(Present) - 1) :
               Present[k + 1] = ImmortalGlobals[i]]

\* The isolate's symbols, then its strings, all of them there.
IsolateSerialize ==
    [i \in DOMAIN (PrivateSymbols \o IsolateStrings) |-> i - 1]

\* Every callback the heap refers to.
Callbacks ==
    UNION {B!Installs[b] : b \in loaded}
      \cup B!Qualified("aworker", {"GetBinding", "GetNativeModuleFunction"})

\* A tracked object that is not snapshotable fails a CHECK.
Serialize ==
    /\ pc = "serialize"
    /\ IF \A o \in Tracked : IsSnapshotable(o)
         THEN /\ file' = [written |-> TRUE, header |-> "none",
                          isolate |-> IsolateSerialize,
                          properties |-> [i \in DOMAIN IsolateSerialize |->
                            isolate[(PrivateSymbols \o IsolateStrings)[i]]],
                          indexes |-> ImmortalSerialize,
                          data |-> [k \in DOMAIN Present |-> field[Present[k]]],
                          objects |-> Tracked, natives |-> object,
                          callbacks |-> Callbacks, caches |-> cache]
              /\ Goto("blob")
         ELSE Goto("aborted") /\ UNCHANGED file
    /\ UNCHANGED <<script, isolate, field, loaded, object, cache, rejected,
                   requests>>

\* CreateBlob needs every callback in the registry; then the builder's immortal
\* and isolate data end.
CreateBlob ==
    /\ pc = "blob"
    /\ IF file.callbacks \subseteq B!Collect
         THEN /\ field' = [f \in Globals |-> Empty]
              /\ loaded' = {}
              /\ object' = [o \in Leftovers |-> NoNative]
              /\ isolate' = [p \in Properties |-> Empty]
              /\ Goto("generated")
         ELSE Goto("aborted") /\ UNCHANGED <<field, loaded, object, isolate>>
    /\ UNCHANGED <<script, cache, rejected, file, requests>>

\* WriteToFile checks that it can open the file; the embedded snapshot is
\* compiled in and needs none.
WriteToFile(opened) ==
    /\ pc = "generated"
    /\ script \/ opened
    /\ file' = [file EXCEPT !.header = IF opened THEN "ok" ELSE "absent"]
    /\ Goto(IF opened THEN "written" ELSE "aborted")
    /\ UNCHANGED <<script, isolate, field, loaded, object, cache, rejected,
                   requests>>

\* Before it is read the file may be lost, overwritten, or left from another
\* build of the program.
Damage(header) ==
    /\ pc = "written"
    /\ script
    /\ file.header = "ok"
    /\ file' = [file EXCEPT !.header = header]
    /\ UNCHANGED <<script, isolate, pc, field, loaded, object, cache,
                   rejected, requests>>

-----------------------------------------------------------------------------
(* The worker that starts from it *)

DeserializeProperties ==
    [p \in Properties |->
        LET i == CHOOSE k \in DOMAIN file.isolate :
                   (PrivateSymbols \o IsolateStrings)[k] = p
        IN  file.properties[file.isolate[i] + 1]]

\* ReadFromFile refuses what it cannot open, another magic number and another
\* version; the worker then uses the embedded snapshot.  With the indexes come
\* the code caches.
Initialize ==
    /\ pc = "written"
    /\ IF file.header = "ok"
         THEN /\ isolate' = DeserializeProperties
              /\ cache' = file.caches
              /\ rejected' = {}
              /\ Goto("context")
         ELSE Goto("fallback") /\ cache' = {} /\ UNCHANGED <<isolate, rejected>>
    /\ UNCHANGED <<script, field, loaded, object, file, requests>>

\* Context::FromSnapshot restores the JavaScript objects and asks, for every
\* wrapper with data, for its native object: the request waits.
FromSnapshot ==
    /\ pc = "context"
    /\ \E order \in SetToSeqs(file.objects) : requests' = order
    /\ field' = [field EXCEPT !["context"] = "context"]
    /\ Goto("fields")
    /\ UNCHANGED <<script, isolate, loaded, object, cache, rejected, file>>

\* Deserialize reads the vector: 0 means nothing to restore.
Deserialize ==
    /\ pc = "fields"
    /\ field' = [f \in Globals |->
                   LET i == CHOOSE k \in DOMAIN ImmortalGlobals :
                              ImmortalGlobals[k] = f
                       idx == file.indexes[i]
                   IN  IF idx = 0 THEN field[f] ELSE file.data[idx + 1]]
    /\ Goto("requests")
    /\ UNCHANGED <<script, isolate, loaded, object, cache, rejected, file,
                   requests>>

\* ConverterObject::Deserialize makes a new converter from the name kept in
\* the wrapper, with the library's default error mode.
ConverterDeserialize == [kind |-> "converter", held |-> TRUE,
                         mode |-> "substitute"]
\* Mutant: only the first request is run.
RunDeserializeRequestsOnce ==
    /\ pc = "requests"
    /\ object' = [o \in Leftovers |->
                    IF requests /= <<>> /\ Head(requests) = o
                      THEN ConverterDeserialize ELSE object[o]]
    /\ requests' = <<>>
    /\ Goto("ready")
    /\ UNCHANGED <<script, isolate, field, loaded, cache, rejected, file>>


RunDeserializeRequests ==
    /\ pc = "requests"
    /\ IF requests = <<>>
         THEN Goto("ready") /\ UNCHANGED <<object, requests>>
         ELSE /\ object' = [object EXCEPT ![Head(requests)] =
                              ConverterDeserialize]
              /\ requests' = Tail(requests)
              /\ UNCHANGED pc
    /\ UNCHANGED <<script, isolate, field, loaded, cache, rejected, file>>

\* The worker loads a module: with its code cache when it has one and V8
\* accepts it.
LoadModule(m) ==
    /\ pc = "ready"
    /\ \E ok \in BOOLEAN, refused \in BOOLEAN :
         /\ Compile(m, ok)
         /\ rejected' = IF refused \/ m \notin cache \/ ~ok
                          THEN rejected \cup {m} ELSE rejected
    /\ UNCHANGED <<script, isolate, pc, field, loaded, object, file, requests>>

\* A worker asks for a constructor template: a new one is made when the
\* handle is empty.
UseTemplate(f) ==
    /\ pc = "ready"
    /\ f \in {"base_object_ctor_template", "async_wrap_ctor_template"}
    /\ field[f] = Empty
    /\ field' = Fill({f})
    /\ UNCHANGED <<script, isolate, pc, loaded, object, cache, rejected, file,
                   requests>>

SnapNext ==
    \/ CompileAll
    \/ Bootstrap
    \/ \E b \in B!Bindings : GetBinding(b)
    \/ \E o \in Leftovers, n \in Natives : Construct(o, n)
    \/ \E o \in Leftovers : Drop(o)
    \/ Executed
    \/ CollectGarbage
    \/ Serialize
    \/ CreateBlob
    \/ \E opened \in BOOLEAN : WriteToFile(opened)
    \/ \E h \in {"absent", "magic", "version"} : Damage(h)
    \/ Initialize
    \/ FromSnapshot
    \/ Deserialize
    \/ RunDeserializeRequests
    \/ \E m \in Modules : LoadModule(m)
    \/ \E f \in Globals : UseTemplate(f)

SnapSpec == SnapInit /\ [][SnapNext]_snapVars

-----------------------------------------------------------------------------
(* Properties *)

\* The shape of the builder's and the worker's state.
SnapTypeOK ==
    /\ pc \in {"compile", "bootstrap", "execute", "cleanup", "serialize",
               "blob", "generated", "written", "context", "fields", "requests", "ready",
               "fallback", "aborted"}
    /\ field \in [Globals -> Globals \cup {Empty}]
    /\ loaded \subseteq B!Bindings
    /\ object \in [Leftovers -> Natives]
    /\ cache \subseteq Modules

\* Immortal::Serialize uses 0 for "nothing there" although AddData also gives
\* out 0, so Deserialize leaves one captured handle behind.  A worker can
\* still start: every handle that was captured is back and is the right one,
\* or is the context, set on its own, or a template that is rebuilt when it is
\* next asked for.
HandlesRestored ==
    pc \in {"requests", "ready"} =>
      /\ \A p \in Properties : isolate[p] = p
      /\ \A f \in Globals : field[f] \in {f, Empty}
      /\ field["context"] = "context"
      /\ \A f \in ToSet(file.data) :
           \/ field[f] = f
           \/ f \in {"base_object_ctor_template", "async_wrap_ctor_template",
                     "handle_wrap_ctor_template"}

\* The lists of external references agree with what the bindings install:
\* whatever a script loads, CreateBlob meets no unknown callback.
CallbacksRegistered == pc = "blob" => file.callbacks \subseteq B!Collect

\* A wrapper comes back with a native object exactly when it had one, and
\* until the requests have run the missing ones are exactly those waiting.
WrappersRebuilt ==
    pc \in {"requests", "ready"} =>
      /\ \A i, j \in DOMAIN requests : requests[i] = requests[j] => i = j
      /\ Tracked \cap ToSet(requests) = {}
      /\ Tracked \cup ToSet(requests) = file.objects
      /\ \A o \in Tracked : object[o].kind = file.natives[o].kind

\* The builder gives up only for a module that does not compile, or for a
\* script that leaves an object with no way into a snapshot, or a file that
\* cannot be opened; the worker never.
BuildFails ==
    pc = "aborted" => \/ cache /= Modules
                      \/ file.header = "absent"
                      \/ script /\ \E o \in Leftovers :
                                     object[o].held /\ ~IsSnapshotable(o)

\* A worker compiles a module without its code cache only when the compiler
\* refused the cache or failed: the caches of the builder all arrive.
CachesArrive ==
    pc = "ready" => Modules \ rejected \subseteq cache
=============================================================================

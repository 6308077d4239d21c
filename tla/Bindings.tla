------------------------------ MODULE Bindings ------------------------------
(* The native bindings and the external reference registry.                *)
(*                                                                         *)
(* A binding's Init puts native callbacks into the JavaScript heap; V8 can  *)
(* write such a heap to a snapshot only when every callback in it is in     *)
(* the table ExternalReferenceRegistry::Collect builds from the bindings'   *)
(* own lists, kept by hand next to Init.  For every binding this module     *)
(* states both lists from the code: XInit, the callbacks Init installs, and *)
(* XReferences, the ones it registers.  Values that are no callbacks        *)
(* (numbers, strings, plain objects) need no registration and are left out. *)

Qualified(class, names) == {<<class, n>> : n \in names}

ChannelCalls == {"CallFetch", "CallFetchAbort", "CallStreamOpen",
                 "CallStreamPush", "CallDaprInvoke", "CallDaprBinding",
                 "CallExtensionBinding", "CallResourcePut"}
DataChannelInit == Qualified("JsCall", ChannelCalls) \cup Qualified("agent",
    {"SetCallback", "SetHandler", "Feedback", "Ref", "Unref"})
DataChannelReferences == Qualified("JsCall", ChannelCalls) \cup Qualified("agent",
    {"SetCallback", "SetHandler", "Feedback", "Ref", "Unref"})

AsyncWrapInit == Qualified("AsyncWrap", {"SetJSPromiseHooks"})
AsyncWrapReferences == Qualified("AsyncWrap", {"SetJSPromiseHooks"})

\* The options object has a getter per option and a "has" getter per option
\* that takes a value (the options themselves are generated from
\* command_parser-options.json).
Flags == {"build_snapshot", "dump_arguments", "experimental_async_context",
          "experimental_curl_fetch", "enable_source_maps", "enable_trace_event",
          "eval", "expose_internals", "v8_options", "help", "has_agent",
          "inspect", "inspect_brk", "inspect_brk_aworker", "module",
          "no_experimental_curl_fetch", "ref_agent", "report",
          "report_on_signal", "report_compact", "threaded_platform", "version",
          "cpu_prof"}
Ints == {"max_macro_task_count_per_tick", "long_task_threshold_ms",
         "loop_latency_limit_ms", "threaded_platform_pool_size"}
Strings == {"agent_cred", "location", "mode", "trace_event_categories",
            "report_filename", "script_filename"}
Files == {"agent_ipc_path", "preload_script", "report_directory",
          "snapshot_blob", "trace_event_directory",
          "same_origin_shared_data_dir"}
RawArgs2V8Objects ==
    Qualified("get", Flags \cup Ints \cup Files \cup Strings)
      \cup Qualified("has", Files \cup Strings)
OptionsInit == RawArgs2V8Objects
                 \cup Qualified("get", {"mixin_inspect", "mixin_has_agent"})
OptionsReferences ==
    Qualified("get", Flags \cup Ints \cup Files \cup Strings)
      \cup Qualified("has", Files \cup Strings)
      \cup Qualified("get", {"mixin_inspect", "mixin_has_agent"})

BytesInit == Qualified("bytes", {"AToB", "BToA", "BufferEncodeHex",
    "BufferEncodeBase64", "DomainToASCII", "ToUSVString"})
BytesReferences == Qualified("bytes", {"AToB", "BToA", "BufferEncodeHex",
    "BufferEncodeBase64", "DomainToASCII", "ToUSVString"})

CacheInit == Qualified("cache", {"InitCacheStorage", "ListCacheStorage",
    "DetectCacheStorage", "EnsureCacheStorage", "DeleteCacheStorage",
    "ReadCachePage", "WriteCachePage", "ReadCacheObjectPage",
    "WriteCacheObjectPage"})
CacheReferences == Qualified("cache", {"InitCacheStorage", "ListCacheStorage",
    "DetectCacheStorage", "EnsureCacheStorage", "DeleteCacheStorage",
    "ReadCachePage", "WriteCachePage", "ReadCacheObjectPage",
    "WriteCacheObjectPage"})

ContextInit == Qualified("ContextWrap", {"New", "GetGlobalThis", "Execute"})
ContextReferences ==
    Qualified("ContextWrap", {"New", "GetGlobalThis", "Execute"})
ScriptInit == Qualified("ScriptWrap", {"New", "CreateCachedData"})
ScriptReferences == Qualified("ScriptWrap", {"New", "CreateCachedData"})
ContextifyInit == ContextInit \cup ScriptInit
ContextifyReferences == ContextReferences \cup ScriptReferences

HashInit == Qualified("Hash", {"New", "HashUpdate", "HashDigest"})
HashReferences == Qualified("Hash", {"New", "HashUpdate", "HashDigest"})
HmacInit == Qualified("Hmac", {"New", "HmacUpdate", "HmacDigest"})
HmacReferences == Qualified("Hmac", {"New", "HmacUpdate", "HmacDigest"})
CryptoInit == HashInit \cup HmacInit \cup Qualified("crypto", {"RandomBytes"})
CryptoReferences ==
    HashReferences \cup HmacReferences \cup Qualified("crypto", {"RandomBytes"})

CurlVersionsInit ==
    Qualified("CurlVersions", {"GetterProtocols", "GetterFeatures"})
CurlVersionsReferences ==
    Qualified("CurlVersions", {"GetterFeatures", "GetterProtocols"})
CurlMultiInit ==
    Qualified("CurlMulti", {"New", "AddHandle", "RemoveHandle", "Close"})
CurlMultiReferences ==
    Qualified("CurlMulti", {"New", "AddHandle", "RemoveHandle", "Close"})
CurlEasyInit == Qualified("CurlEasy", {"New", "SetOpt", "Pause"})
CurlEasyReferences == Qualified("CurlEasy", {"New", "SetOpt", "Pause"})
CurlInit == CurlVersionsInit \cup CurlMultiInit \cup CurlEasyInit
              \cup Qualified("curl", {"CurlInit", "EasyStrErr"})
CurlReferences ==
    CurlVersionsReferences \cup CurlMultiReferences \cup CurlEasyReferences
      \cup Qualified("curl", {"CurlInit", "EasyStrErr"})

FileInit == Qualified("file", {"ReadFile"})
FileReferences == Qualified("file", {"ReadFile"})

I18nInit == Qualified("ConverterObject", {"New", "Decode"})
              \cup Qualified("i18n", {"EncodeUtf8", "EncodeIntoUtf8"})
I18nReferences == Qualified("ConverterObject", {"New", "Decode"})
              \cup Qualified("i18n", {"EncodeUtf8", "EncodeIntoUtf8"})

InspectorInit == Qualified("inspector",
    {"IsInspectorActive", "CallAndPauseOnFirstStatement"})
InspectorReferences == Qualified("inspector",
    {"IsInspectorActive", "CallAndPauseOnFirstStatement"})

ImmediateInit == Qualified("ImmediateWrap", {"New", "Remove"})
ImmediateReferences == Qualified("ImmediateWrap", {"New", "Remove"})
TimersInit == Qualified("TimerWrap", {"New", "Remove"})
TimersReferences == Qualified("TimerWrap", {"New", "Remove"})
SignalsInit == Qualified("SignalWrap", {"New", "Stop", "Raise"})
SignalsReferences == Qualified("SignalWrap", {"New", "Raise", "Stop"})

ModuleWrapInit == Qualified("ModuleWrap", {"New", "Link", "Instantiate",
    "GetNamespace", "SetImportModuleDynamicallyCallback",
    "SetInitializeImportMetaObjectCallback"})
ModuleWrapReferences == Qualified("ModuleWrap", {"New", "Link", "Instantiate",
    "GetNamespace", "SetImportModuleDynamicallyCallback",
    "SetInitializeImportMetaObjectCallback"})

PerfInit == Qualified("perf", {"MarkMilestone", "GetMilestonesTimeStamp",
    "Hrtime", "LoopIdleTime", "GetTimeOrigin", "GetTimeOriginTimeStamp",
    "GetTimeOriginRelativeTimeStamp"})
PerfReferences == Qualified("perf", {"MarkMilestone", "Hrtime", "LoopIdleTime",
    "GetMilestonesTimeStamp", "GetTimeOrigin", "GetTimeOriginTimeStamp",
    "GetTimeOriginRelativeTimeStamp"})

ImmortalFunctions == {"async_wrap_init_function",
                      "callback_trampoline_function",
                      "dom_exception_constructor"}
CreateEnvVarProxy == Qualified("env",
    {"EnvGetter", "EnvSetter", "EnvQuery", "EnvDeleter", "EnvEnumerator"})
EnvReferences == Qualified("env",
    {"EnvGetter", "EnvSetter", "EnvQuery", "EnvDeleter", "EnvEnumerator"})
ProcessInit == Qualified("process", {"Exit", "Cwd", "ScriptFilename",
    "ConsoleCall", "HasAgent", "GetExternalSnapshotLoaded",
    "GetStartupForkMode", "WriteStdxxx", "IsATTY", "SetWorkerState",
    "LoopLatencyWatchdogPrologue", "LoopLatencyWatchdogEpilogue"})
      \cup Qualified("GetImmortalFunction", ImmortalFunctions)
      \cup Qualified("SetImmortalFunction", ImmortalFunctions)
      \cup CreateEnvVarProxy
ProcessReferences == Qualified("process", {"Exit", "Cwd", "ScriptFilename",
    "ConsoleCall", "HasAgent", "GetExternalSnapshotLoaded",
    "GetStartupForkMode", "WriteStdxxx", "IsATTY", "SetWorkerState",
    "LoopLatencyWatchdogPrologue", "LoopLatencyWatchdogEpilogue"})
      \cup Qualified("GetImmortalFunction", ImmortalFunctions)
      \cup Qualified("SetImmortalFunction", ImmortalFunctions)

SerdesInit == Qualified("serdes", {"StructuredClone"})
SerdesReferences == Qualified("serdes", {"StructuredClone"})

TaskQueueInit == Qualified("task_queue",
    {"EnqueueMicrotask", "PerformMicrotaskCheckpoint"})
TaskQueueReferences == Qualified("task_queue",
    {"EnqueueMicrotask", "PerformMicrotaskCheckpoint"})

\* VALUE_METHOD_MAP stands for the Is... predicates, registered by the same
\* macro that installs them.
TypesInit == Qualified("types", {"VALUE_METHOD_MAP", "IsAnyArrayBuffer",
    "GetPromiseDetails", "IsArrayBufferDetached", "DetachArrayBuffer"})
TypesReferences == Qualified("types", {"VALUE_METHOD_MAP", "IsAnyArrayBuffer",
    "GetPromiseDetails", "IsArrayBufferDetached", "DetachArrayBuffer"})

UrlInit == Qualified("url",
    {"ParseSearchParams", "SerializeSearchParams", "ParseUrl"})
      \cup Qualified("UpdateUrl", {"protocol", "username", "password", "port",
             "hash", "host", "hostname", "href", "pathname", "search"})
UrlReferences == Qualified("url",
    {"ParseSearchParams", "SerializeSearchParams", "ParseUrl"})
      \cup Qualified("UpdateUrl", {"protocol", "username", "password", "port",
             "hash", "host", "hostname", "href", "pathname", "search"})

V8Init == Qualified("v8",
    {"WriteHeapSnapshot", "GetHeapSnapshot", "GetTotalHeapSize"})
V8References == Qualified("v8",
    {"WriteHeapSnapshot", "GetHeapSnapshot", "GetTotalHeapSize"})

\* A template instantiated for the Zip and the Unzip wrapper.
ZlibWrapperInit(T) ==
    Qualified(T, {"New", "Push", "IsDone", "HasError", "ErrorMessage"})
ZlibWrapperReferences(T) ==
    Qualified(T, {"New", "Push", "IsDone", "HasError", "ErrorMessage"})
ZlibInit == ZlibWrapperInit("UnzipWrapper") \cup ZlibWrapperInit("ZipWrapper")
ZlibReferences == ZlibWrapperReferences("UnzipWrapper")
                    \cup ZlibWrapperReferences("ZipWrapper")

\* Values only: the worker states and signal numbers, the rejection events,
\* and V8's own trace functions.
ConstantsInit == {}
ErrorsInit == {}
TracingInit == {}

\* The bindings RegisterBindings lists, with what each one installs ...
Installs == [noslated_data_channel |-> DataChannelInit,
             async_wrap |-> AsyncWrapInit, aworker_options |-> OptionsInit,
             bytes |-> BytesInit, cache |-> CacheInit,
             constants |-> ConstantsInit, contextify |-> ContextifyInit,
             crypto |-> CryptoInit, curl |-> CurlInit, errors |-> ErrorsInit,
             file |-> FileInit, i18n |-> I18nInit, inspector |-> InspectorInit,
             immediate |-> ImmediateInit, module_wrap |-> ModuleWrapInit,
             perf |-> PerfInit, process |-> ProcessInit, serdes |-> SerdesInit,
             signals |-> SignalsInit, task_queue |-> TaskQueueInit,
             timers |-> TimersInit, tracing |-> TracingInit,
             types |-> TypesInit, url |-> UrlInit, v8 |-> V8Init,
             zlib |-> ZlibInit]

Bindings == DOMAIN Installs

\* ... and the table Collect builds: GetBinding and GetNativeModuleFunction,
\* every binding's list, and the handlers of the environment proxy.
Collect ==
    Qualified("aworker", {"GetBinding", "GetNativeModuleFunction"})
      \cup EnvReferences
      \cup UNION {DataChannelReferences, AsyncWrapReferences,
             OptionsReferences, BytesReferences, CacheReferences,
             ContextifyReferences, CryptoReferences, CurlReferences,
             FileReferences, I18nReferences, InspectorReferences,
             ImmediateReferences, ModuleWrapReferences, PerfReferences,
             ProcessReferences, SerdesReferences, SignalsReferences,
             TaskQueueReferences, TimersReferences, TypesReferences,
             UrlReferences, V8References, ZlibReferences}
=============================================================================

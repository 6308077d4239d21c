---------------------------- MODULE AgentMessages ----------------------------
(***************************************************************************)
(* How NoslatedDataChannel turns the objects of JavaScript into protobuf   *)
(* messages and back: the parameters of a call into its request, the       *)
(* answer into the value the call's promise gets, a request of the agent   *)
(* into the object its handler gets, and the handler's feedback into the   *)
(* response.  Bytes are not copied: an ArrayBuffer shows the inside of the *)
(* message, which must then live as long as the buffer.                    *)
(*                                                                         *)
(* A text is a sequence of characters; Nul is the one that ends a C        *)
(* string.  A message is a function on the fields that have been set, an   *)
(* object a function on its keys.                                          *)
(***************************************************************************)
EXTENDS Integers, Sequences, TLC

CONSTANTS Texts,    \* strings the script and the agent use
          Chunks,   \* byte strings
          Ids,      \* numbers JavaScript uses for streams and requests
          Uint32    \* ids travel modulo this number (2^32)

Nul == "0"
OK == "OK"
ErrorCodes == {"INTERNAL_ERROR", "TIMEOUT"}
Ours == {"fetch", "fetchAbort", "streamOpen", "streamPush", "daprInvoke", "daprBinding",
         "extensionBinding", "resourcePut"}
Agents == {"trigger", "push", "resourceNotification"}

VARIABLES
  kind,     \* the method called
  params,   \* the object the script passed, or the agent's message
  stage,    \* "called"; "sent"/"emitted"; "answered"/"fedback"; "told"
  request,  \* the message sent, or the object the handler got
  code,     \* of the answer or the feedback
  answer,   \* the agent's message, or the script's object
  result,   \* the object the script gets, or the response sent
  owner,    \* of the message that came in: "none" yet, the "closure" that was
            \* given it, the "buffer" that shows it; or it is "freed"
  held      \* the script holds a buffer that shows the message

messageVars == <<kind, params, stage, request, code, answer, result, owner, held>>

None == <<>>
Field(f, v) == f :> v
Optional(given, f, v) == IF given THEN f :> v ELSE None
Has(r, f) == f \in DOMAIN r

\* Characters up to the first Nul: what (const char*) keeps of a text.
CString(t) ==
  SubSeq(t, 1, CHOOSE n \in 0..Len(t) : /\ \A i \in 1..n : t[i] # Nul
                                        /\ n < Len(t) => t[n + 1] = Nul)
Uint32Value(n) == n % Uint32

\* Headers: flat in the parameters of fetch, pairs in messages and elsewhere.
CStrings(pairs) == [i \in DOMAIN pairs |-> <<CString(pairs[i][1]), CString(pairs[i][2])>>]
Pairs(flat) == [i \in 1..(Len(flat) \div 2) |-> <<flat[2 * i - 1], flat[2 * i]>>]
Flat(pairs) == [i \in 1..(2 * Len(pairs)) |-> pairs[(i + 1) \div 2][IF i % 2 = 1 THEN 1 ELSE 2]]

\* An object built by Set for each pair: the last value of a key stays.
Assigned(pairs) ==
  [k \in {pairs[i][1] : i \in DOMAIN pairs} |->
     pairs[CHOOSE i \in DOMAIN pairs : /\ pairs[i][1] = k
                                       /\ \A j \in DOMAIN pairs : pairs[j][1] = k => j <= i][2]]

\* Uint8Array::HasBuffer: false for a small array whose bytes V8 keeps inside
\* the array itself until somebody asks for its buffer.
BodyBytes(body) == IF body.buffered THEN body.bytes ELSE <<>>

-----------------------------------------------------------------------------
(* Calls: parameters to request *)

\* Mutant: the stream of the body is not named.
CallFetchNoStream(p) ==
  [url |-> CString(p.url), method |-> CString(p.method), headers |-> CStrings(Pairs(p.headers)),
   request_id |-> Uint32Value(p.requestId)]

CallFetch(p) ==
  [url |-> CString(p.url), method |-> CString(p.method), headers |-> CStrings(Pairs(p.headers)),
   request_id |-> Uint32Value(p.requestId)]
    @@ Optional(Has(p, "sid"), "sid", Uint32Value(p.sid))

CallFetchAbort(p) == Field("request_id", Uint32Value(p.requestId))

CallStreamOpen(p) == None

CallStreamPush(p) ==
  [sid |-> Uint32Value(p.sid), is_eos |-> p.isEos, is_error |-> p.isError]
    @@ Optional(~p.isEos, "data", p.data.bytes)

CallDaprInvoke(p) ==
  [app_id |-> CString(p.app), method_name |-> CString(p.method), data |-> BodyBytes(p.body)]

CallDaprBinding(p) ==
  [name |-> CString(p.name), operation |-> CString(p.operation),
   metadata |-> CStrings(p.metadata), data |-> BodyBytes(p.body)]

CallExtensionBinding(p) ==
  [name |-> CString(p.name), metadata |-> CString(p.metadata),
   operation |-> CString(p.operation), data |-> BodyBytes(p.body)]

CallResourcePut(p) ==
  [action |-> p.action, resource_id |-> CString(p.resourceId), token |-> CString(p.token)]

Message(k, p) ==
  CASE k = "fetch" -> CallFetch(p)
    [] k = "fetchAbort" -> CallFetchAbort(p)
    [] k = "streamOpen" -> CallStreamOpen(p)
    [] k = "streamPush" -> CallStreamPush(p)
    [] k = "daprInvoke" -> CallDaprInvoke(p)
    [] k = "daprBinding" -> CallDaprBinding(p)
    [] k = "extensionBinding" -> CallExtensionBinding(p)
    [] k = "resourcePut" -> CallResourcePut(p)

-----------------------------------------------------------------------------
(* Calls: answer to result *)

FetchResult(r) ==
  [status |-> r.status, headers |-> Flat(CStrings(r.headers)), sid |-> r.sid]

StreamOpenResult(r) == Field("sid", r.sid)

DaprInvokeResult(r) == [status |-> r.status, body |-> r.data]

DaprBindingResult(r) ==
  [status |-> r.status, body |-> r.data, metadata |-> Assigned(CStrings(r.metadata))]

ExtensionBindingResult(r) ==
  Field("status", r.status) @@ Optional(Has(r, "data"), "body", r.data)

ResourcePutResult(r) ==
  [success_or_acquired |-> r.success_or_acquired,
   token |-> IF Has(r, "token") THEN CString(r.token) ELSE <<>>]

Result(k, r) ==
  CASE k = "fetch" -> FetchResult(r)
    [] k \in {"fetchAbort", "streamPush"} -> None
    [] k = "streamOpen" -> StreamOpenResult(r)
    [] k = "daprInvoke" -> DaprInvokeResult(r)
    [] k = "daprBinding" -> DaprBindingResult(r)
    [] k = "extensionBinding" -> ExtensionBindingResult(r)
    [] k = "resourcePut" -> ResourcePutResult(r)

\* The buffer that shows the answer takes the message over.
ShowsBytes(k, r) == \/ k \in {"daprInvoke", "daprBinding"}
                    \/ k = "extensionBinding" /\ Has(r, "data")

ErrorMessageToJsError(c, e) ==
  [code |-> c,
   peerMessage |-> IF Has(e, "message") THEN CString(e.message) ELSE <<>>,
   peerStack |-> IF Has(e, "stack") THEN CString(e.stack) ELSE <<>>]

-----------------------------------------------------------------------------
(* Requests of the agent: message to object, feedback to response *)

TriggerParams(m) ==
  [method |-> CString(m.method),
   metadata |-> [headers |-> CStrings(m.metadata.headers), baggage |-> CStrings(m.metadata.baggage)]
                  @@ Optional(Has(m.metadata, "url"), "url", CString(m.metadata.url))
                  @@ Optional(Has(m.metadata, "method"), "method", CString(m.metadata.method)),
   hasInputData |-> Has(m, "has_input_data") /\ m.has_input_data,
   hasOutputData |-> Has(m, "has_output_data") /\ m.has_output_data]
    @@ Optional(Has(m, "sid"), "sid", m.sid)

PushShowsBytes(m) == ~m.is_eos /\ Has(m, "data")
StreamPushParams(m) ==
  [sid |-> m.sid, isEos |-> m.is_eos, isError |-> Has(m, "is_error") /\ m.is_error]
    @@ Optional(PushShowsBytes(m), "data", m.data)

ResourceNotificationParams(m) ==
  [resourceId |-> CString(m.resource_id), token |-> CString(m.token)]

Params(k, m) ==
  CASE k = "trigger" -> TriggerParams(m)
    [] k = "push" -> StreamPushParams(m)
    [] k = "resourceNotification" -> ResourceNotificationParams(m)

TriggerResponse(c, p) ==
  IF c = OK THEN [status |-> p.status, metadata |-> Field("headers", CStrings(p.headers))]
  ELSE [message |-> CString(p.message), stack |-> CString(p.stack)]

-----------------------------------------------------------------------------
(* What is passed in *)

Bodies == [bytes : Chunks, buffered : BOOLEAN]
MadeBodies == [bytes : Chunks, buffered : {TRUE}]  \* new Uint8Array(arrayBuffer)
Words == {t \in Texts : \A i \in DOMAIN t : t[i] # Nul}
\* Up to two headers, which Headers has validated, or pairs of any texts.
HeaderLists == LET pair == Words \X Words
               IN  {<<>>} \cup {<<a>> : a \in pair} \cup {<<a, b>> : a, b \in pair}
PairLists == HeaderLists \cup {<<a>> : a \in Texts \X Texts}

Given(k) ==
  CASE k = "fetch" ->
         LET base == [url : Words, method : {<<"G">>}, headers : {Flat(h) : h \in HeaderLists},
                      requestId : Ids]
         IN  base \cup {b @@ Field("sid", s) : b \in base, s \in Ids}
    [] k = "fetchAbort" -> [requestId : Ids]
    [] k = "streamOpen" -> {None}
    [] k = "streamPush" -> [sid : Ids, isEos : BOOLEAN, isError : BOOLEAN, data : Bodies]
    [] k = "daprInvoke" -> [app : Texts, method : Texts, body : MadeBodies]
    [] k = "daprBinding" ->
         [name : Texts, operation : {<<"o">>}, body : MadeBodies,
          metadata : {l \in PairLists : Len(l) < 2 \/ l[1][1] # l[2][1]}]
    [] k = "extensionBinding" ->
         [name : {<<"k">>}, metadata : Words, operation : {<<"s">>}, body : Bodies]
    [] k = "resourcePut" ->
         [action : {"ACQUIRE_SH", "ACQUIRE_EX", "RELEASE"}, resourceId : Texts, token : Texts]
    [] k = "trigger" ->
         LET meta == [headers : PairLists, baggage : HeaderLists]
             full == {m @@ [url |-> u, method |-> <<"G">>] : m \in meta, u \in Words}
             base == [method : {<<"i">>}, metadata : meta \cup full]
         IN  base \cup {b @@ [sid |-> s, has_input_data |-> i, has_output_data |-> TRUE] :
                          b \in base, s \in Ids, i \in BOOLEAN}
    [] k = "push" ->
         LET base == [sid : Ids, is_eos : BOOLEAN]
             data == base \cup {b @@ Field("data", d) : b \in base, d \in Chunks}
         IN  data \cup {b @@ Field("is_error", e) : b \in data, e \in BOOLEAN}
    [] k = "resourceNotification" -> [resource_id : Texts, token : Texts]

Answers(k) ==
  CASE k = "fetch" -> [status : {200}, headers : PairLists, sid : Ids]
    [] k \in {"fetchAbort", "streamPush"} -> {None}
    [] k = "streamOpen" -> [sid : Ids]
    [] k = "daprInvoke" -> [status : {200}, data : Chunks]
    [] k = "daprBinding" -> [status : {200}, data : Chunks, metadata : PairLists]
    [] k = "extensionBinding" -> [status : {200, 400}] \cup [status : {200, 400}, data : Chunks]
    [] k = "resourcePut" -> LET base == [success_or_acquired : BOOLEAN]
                            IN  base \cup [success_or_acquired : BOOLEAN, token : Texts]
    [] k = "trigger" -> [status : {200}, headers : HeaderLists]
    [] OTHER -> {None}
PeerErrors == {None} \cup {Field("message", t) : t \in Texts} \cup [message : Texts, stack : Texts]

-----------------------------------------------------------------------------
(* Steps *)

MessagesInit ==
  /\ kind \in Ours \cup Agents
  /\ params \in Given(kind)
  /\ stage = "called"
  /\ request = None /\ code = OK /\ answer = None /\ result = None
  /\ owner = (IF kind \in Agents THEN "closure" ELSE "none") /\ held = FALSE

\* A call of ours becomes a request.
Send ==
  /\ stage = "called" /\ kind \in Ours
  /\ stage' = "sent"
  /\ request' = Message(kind, params)
  /\ UNCHANGED <<kind, params, code, answer, result, owner, held>>

\* A request of the agent becomes the object its handler gets.  The message
\* goes with the closure's argument unless a buffer has taken it over.
Emit ==
  /\ stage = "called" /\ kind \in Agents
  /\ stage' = "emitted"
  /\ request' = Params(kind, params)
  /\ held' = (kind = "push" /\ PushShowsBytes(params))
  /\ owner' = IF held' THEN "buffer" ELSE "freed"
  /\ UNCHANGED <<kind, params, code, answer, result>>

\* The agent's answer arrives, or the delegate reports an error without one.
Answer ==
  /\ stage = "sent"
  /\ stage' = "answered"
  /\ \/ code' = OK /\ answer' \in Answers(kind)
     \/ code' \in ErrorCodes /\ answer' \in PeerErrors
  /\ owner' = "closure"
  /\ UNCHANGED <<kind, params, request, result, held>>

\* The closure of the call tells the script.
Tell ==
  /\ stage = "answered"
  /\ stage' = "told"
  /\ result' = IF code = OK THEN Result(kind, answer) ELSE ErrorMessageToJsError(code, answer)
  /\ held' = (code = OK /\ ShowsBytes(kind, answer))
  /\ owner' = IF held' THEN "buffer" ELSE "freed"
  /\ UNCHANGED <<kind, params, request, code, answer>>

\* Feedback: the script's response, or its error.  Only a trigger's is looked at.
Feedback ==
  /\ stage = "emitted"
  /\ stage' = "told"
  /\ \/ code' = OK /\ answer' \in Answers(kind)
     \/ kind = "trigger" /\ code' = "INTERNAL_ERROR" /\ answer' \in [message : Texts, stack : Texts]
  /\ result' = IF kind = "trigger" THEN TriggerResponse(code', answer') ELSE None
  /\ UNCHANGED <<kind, params, request, owner, held>>

\* The script drops the buffer and V8 calls its deleter.
Collect ==
  /\ held
  /\ held' = FALSE
  /\ owner' = "freed"
  /\ UNCHANGED <<kind, params, stage, request, code, answer, result>>

MessagesNext == Send \/ Emit \/ Answer \/ Tell \/ Feedback \/ Collect

MessagesSpec == MessagesInit /\ [][MessagesNext]_messageVars

-----------------------------------------------------------------------------
(* Properties *)

\* Fields noslated.proto requires of each message; protobuf refuses to write one
\* that lacks any.
Required(k) ==
  CASE k = "fetch" -> {"url", "method"}
    [] k = "fetchAbort" -> {"request_id"}
    [] k = "streamOpen" -> {}
    [] k = "streamPush" -> {"sid", "is_eos"}
    [] k = "daprInvoke" -> {"app_id", "method_name", "data"}
    [] k = "daprBinding" -> {"name", "operation", "data"}
    [] k = "extensionBinding" -> {"name", "metadata", "operation"}
    [] k = "resourcePut" -> {"action", "resource_id"}

\* Keys the code in lib/ reads of the value its call resolves to.
ReadByScript(k) ==
  CASE k = "fetch" -> {"sid", "status", "headers"}
    [] k = "streamOpen" -> {"sid"}
    [] k = "daprInvoke" -> {"status", "body"}
    [] k = "daprBinding" -> {"status", "body", "metadata"}
    [] k = "extensionBinding" -> {"status"}
    [] k = "resourcePut" -> {"success_or_acquired", "token"}
    [] OTHER -> {}

\* Types of the values that travel.
MessagesTypeOK ==
  /\ kind \in Ours \cup Agents
  /\ stage \in {"called", "sent", "emitted", "answered", "told"}
  /\ code \in {OK} \cup ErrorCodes
  /\ owner \in {"none", "closure", "buffer", "freed"}
  /\ held \in BOOLEAN

\* A request has the fields the schema requires, names the stream and the fetch it
\* is about as every other message about them does, and carries headers in order
\* and bodies whole unless the array never had a buffer (the Call functions).
RequestWhole ==
  kind \in Ours /\ stage # "called" =>
    /\ Required(kind) \subseteq DOMAIN request
    /\ kind = "fetch" => /\ Flat(request.headers) = params.headers
                         /\ request.request_id = CallFetchAbort(params).request_id
                         /\ Has(params, "sid") <=> Has(request, "sid")
    /\ kind = "streamPush" => (Has(request, "data") <=> ~params.isEos)
    /\ kind \in {"daprInvoke", "daprBinding", "extensionBinding"} =>
         request.data = params.body.bytes \/ ~params.body.buffered

\* A call resolves to an object with the keys its caller reads, header names keep
\* their values, a code stays what it was, and a trigger's headers reach the agent
\* in order (the closures of the Call functions, Trigger).
AnswerWhole ==
  stage = "told" =>
    /\ kind \in Ours /\ code = OK => ReadByScript(kind) \subseteq DOMAIN result
    /\ kind = "fetch" /\ code = OK => Pairs(result.headers) = CStrings(answer.headers)
    /\ kind \in Ours /\ code # OK => result.code = code
    /\ kind = "trigger" /\ code = OK => result.metadata.headers = answer.headers

\* A message lives exactly as long as a buffer shows it or its closure runs: it is
\* not freed under a buffer and not forgotten (the deleters of NewBackingStore).
MessageOwned ==
  /\ held <=> owner = "buffer"
  /\ stage = "told" /\ ~held => owner = "freed"
=============================================================================

----------------------------- MODULE Contexts ------------------------------
(***************************************************************************)
(* A contextified global (src/contextify/context.cc): how long the V8      *)
(* context, its ContextWrap and the sandbox live, and what the property    *)
(* interceptors make of a store, a definition or a deletion of one name.   *)
(* An access the interceptor does not answer goes on to the real global.   *)
(***************************************************************************)
EXTENDS Naturals, FiniteSets

CONSTANT Values   \* what a property may hold

VARIABLES
  wrapper,   \* the ContextWrap: "none", "own" or "default" context, "freed"
  context,   \* the V8 context: "none", "alive", "collected"
  held,      \* which of {"wrapper", "sandbox", "code"} the program refers to
  sandbox,   \* the property on the sandbox
  global,    \* the property on the real global object
  unbound,   \* the ScriptWrap: "none" or "compiled"
  cached,    \* what the last CreateCachedData returned
  crash      \* how the process died, "no" while it runs

contextVars == <<wrapper, context, held, sandbox, global, unbound, cached, crash>>

Absent == [has |-> FALSE, v |-> 0, ro |-> FALSE, conf |-> TRUE]
Prop(v, ro, conf) == [has |-> TRUE, v |-> v, ro |-> ro, conf |-> conf]
Unset == "unset"
Descriptors == [v : Values, writable : {Unset, "yes", "no"}, conf : {Unset, "yes", "no"}]

ContextInit ==
  /\ wrapper = "none" /\ context = "none" /\ held = {}
  /\ sandbox \in {Absent} \cup [has : {TRUE}, v : Values, ro : BOOLEAN, conf : BOOLEAN]
  /\ global \in {Absent} \cup {Prop(v, TRUE, FALSE) : v \in Values}
  /\ unbound = "none" /\ cached = "none" /\ crash = "no"

-----------------------------------------------------------------------------
\* What V8 does with an ordinary object.
OrdinarySet(p, v) == IF ~p.has THEN Prop(v, FALSE, TRUE)
                     ELSE IF p.ro THEN p ELSE [p EXCEPT !.v = v]
OrdinaryDelete(p) == IF p.conf THEN Absent ELSE p
Field(given, old) == IF given = Unset THEN old ELSE given = "yes"
OrdinaryDefine(p, d) ==
  LET new == Prop(d.v, ~Field(d.writable, p.has /\ ~p.ro), Field(d.conf, p.has /\ p.conf))
  IN  IF ~p.has \/ p.conf THEN new
      ELSE IF new.conf \/ (p.ro /\ new # p) THEN p ELSE new

-----------------------------------------------------------------------------
\* Mutant: the global object is asked before the sandbox.
GlobalPropertyGetterOld(s, g) == IF g.has THEN g ELSE s
GlobalPropertyGetter(s, g) == IF s.has THEN s ELSE g

ReadOnly(p) == p.has /\ p.ro

\* What the setter does: leave the access to V8, answer it after changing the
\* sandbox, or change the sandbox and let V8 go on.
GlobalPropertySetter(s, g, strict, contextual, function) ==
  IF ReadOnly(g) \/ ReadOnly(s) THEN "ignore"
  ELSE IF ~g.has /\ ~s.has /\ strict /\ contextual /\ ~function THEN "ignore"
  ELSE IF ~g.has /\ s.has /\ strict /\ contextual /\ ~function THEN "sandbox"
  ELSE "both"

\* A strict assignment to an undeclared name throws.
GlobalSet(g, v, strict, contextual) ==
  IF strict /\ contextual /\ ~g.has THEN g ELSE OrdinarySet(g, v)

GlobalPropertyDefiner(s, g, d) ==
  IF ReadOnly(g) THEN s ELSE OrdinaryDefine(s, d)

\* The deleter goes on to the global only when the sandbox let go.
GlobalPropertyDeleter(s) == OrdinaryDelete(s) = Absent

GlobalPropertyDescriptor(s, g) == IF s.has THEN s ELSE g
GlobalPropertyEnumerator(s) == s.has

Visible == GlobalPropertyGetter(sandbox, global)

-----------------------------------------------------------------------------
\* New with no argument wraps the main context, otherwise CreateV8Context
\* ties the new context to the sandbox and to the wrapper.
WrapDefault ==
  /\ crash = "no" /\ wrapper = "none"
  /\ wrapper' = "default" /\ held' = {"wrapper"}
  /\ UNCHANGED <<context, sandbox, global, unbound, cached, crash>>

CreateV8Context ==
  /\ crash = "no" /\ wrapper = "none"
  /\ wrapper' = "own" /\ context' = "alive" /\ held' = {"wrapper", "sandbox"}
  /\ UNCHANGED <<sandbox, global, unbound, cached, crash>>

\* References: the sandbox's private symbol and every object of the context
\* lead to the context, whose embedder data lead to the sandbox and the
\* wrapper.  The wrapper itself leads to nothing: context_ is weak.
ContextReachable == held \cap {"sandbox", "code"} # {}
\* Mutant: the sandbox does not hold the wrapper.
WrapperReachableAlone == "wrapper" \in held
WrapperReachable == "wrapper" \in held \/ (wrapper = "own" /\ ContextReachable)

\* One garbage collection: OnGCCollect deletes the wrapper, and the weak
\* context_ is reset.
OnGCCollect ==
  /\ crash = "no"
  /\ wrapper' = IF wrapper \in {"own", "default"} /\ ~WrapperReachable THEN "freed" ELSE wrapper
  /\ context' = IF context = "alive" /\ ~ContextReachable THEN "collected" ELSE context
  /\ UNCHANGED <<held, sandbox, global, unbound, cached, crash>>

LetGo(x) ==
  /\ crash = "no" /\ x \in held
  /\ held' = held \ {x}
  /\ UNCHANGED <<wrapper, context, sandbox, global, unbound, cached, crash>>

\* globalThis() gives the program an object of the context; both it and
\* Execute use context_, which is empty once the context is collected.
GetGlobalThis ==
  /\ crash = "no" /\ "wrapper" \in held
  /\ IF wrapper = "own" /\ context = "collected"
     THEN crash' = "empty context" /\ UNCHANGED held
     ELSE held' = held \cup (IF wrapper = "own" THEN {"code"} ELSE {}) /\ UNCHANGED crash
  /\ UNCHANGED <<wrapper, context, sandbox, global, unbound, cached>>

NewScript ==
  /\ crash = "no" /\ unbound = "none"
  /\ \/ unbound' = "compiled"
     \/ UNCHANGED unbound      \* the source does not compile: New throws
  /\ UNCHANGED <<wrapper, context, held, sandbox, global, cached, crash>>

\* The branch for a script V8 has no cache for reads the length of nothing.
CreateCachedData ==
  /\ crash = "no" /\ unbound = "compiled"
  /\ \/ cached' = "data" /\ UNCHANGED crash
     \/ crash' = "null cached data" /\ UNCHANGED cached
  /\ UNCHANGED <<wrapper, context, held, sandbox, global, unbound>>

-----------------------------------------------------------------------------
\* Code of the context runs: Execute from outside, or a function the program
\* holds.  Get finds the ContextWrap in the context's embedder data.
Running == /\ crash = "no" /\ wrapper # "default"
           /\ context = "alive"
           /\ \/ "code" \in held
              \/ "wrapper" \in held /\ unbound = "compiled"
           /\ wrapper = "own"

Store(v, strict, contextual, function) ==
  /\ Running
  /\ LET how == GlobalPropertySetter(sandbox, global, strict, contextual, function) IN
     /\ sandbox' = IF how = "ignore" THEN sandbox ELSE OrdinarySet(sandbox, v)
     /\ global' = IF how = "sandbox" THEN global
                  ELSE GlobalSet(global, v, strict, contextual)
  /\ held' \in {held, held \cup {"code"}}
  /\ UNCHANGED <<wrapper, context, unbound, cached, crash>>

Define(d) ==
  /\ Running
  /\ sandbox' = GlobalPropertyDefiner(sandbox, global, d)
  /\ global' = OrdinaryDefine(global, d)
  /\ UNCHANGED <<wrapper, context, held, unbound, cached, crash>>

Delete ==
  /\ Running
  /\ sandbox' = OrdinaryDelete(sandbox)
  /\ global' = IF GlobalPropertyDeleter(sandbox) THEN OrdinaryDelete(global) ELSE global
  /\ UNCHANGED <<wrapper, context, held, unbound, cached, crash>>

\* The program changes the sandbox, an ordinary object to it.
SandboxChange ==
  /\ crash = "no" /\ "sandbox" \in held
  /\ \/ \E v \in Values : sandbox' = OrdinarySet(sandbox, v)
     \/ \E d \in Descriptors : sandbox' = OrdinaryDefine(sandbox, d)
     \/ sandbox' = OrdinaryDelete(sandbox)
  /\ UNCHANGED <<wrapper, context, held, global, unbound, cached, crash>>

\* Execute on a wrapper whose context is gone.
ExecuteCollected ==
  /\ crash = "no" /\ "wrapper" \in held /\ wrapper = "own" /\ context = "collected"
  /\ crash' = "empty context"
  /\ UNCHANGED <<wrapper, context, held, sandbox, global, unbound, cached>>

ContextNext ==
  \/ WrapDefault \/ CreateV8Context \/ OnGCCollect
  \/ \E x \in held : LetGo(x)
  \/ GetGlobalThis \/ NewScript \/ CreateCachedData
  \/ \E v \in Values, s, c, f \in BOOLEAN : Store(v, s, c, f)
  \/ \E d \in Descriptors : Define(d)
  \/ Delete \/ SandboxChange \/ ExecuteCollected

ContextSpec == ContextInit /\ [][ContextNext]_contextVars

-----------------------------------------------------------------------------
ContextTypeOK ==
  /\ wrapper \in {"none", "own", "default", "freed"}
  /\ context \in {"none", "alive", "collected"}
  /\ held \subseteq {"wrapper", "sandbox", "code"}
  /\ {sandbox, global} \subseteq {Absent} \cup
       [has : {TRUE}, v : Values, ro : BOOLEAN, conf : BOOLEAN]
  /\ unbound \in {"none", "compiled"} /\ cached \in {"none", "data"}
  /\ crash \in {"no", "empty context", "null cached data"}

\* While a V8 context lives, the ContextWrap its interceptors dereference does
\* too, in whatever order the program lets go of the sandbox, the Context and
\* the context's objects; and a Context is used without its V8 context only
\* when the program has let go of both (context.cc, "tie ctx with sandbox and
\* bound context object's lifetime").
ContextTied ==
  /\ context = "alive" => wrapper = "own"
  /\ crash = "empty context" => ~ContextReachable

\* A sandbox property that is read-only and not configurable keeps the value
\* the context's code reads, whatever sequence of stores, definitions and
\* deletions it tries and whatever the real global has come to hold
\* (the interceptors of context.cc).
FrozenKept ==
  [][sandbox.has /\ sandbox.ro /\ ~sandbox.conf =>
       GlobalPropertyGetter(sandbox, global)' = GlobalPropertyGetter(sandbox, global)]_contextVars
=============================================================================

----------------------------- MODULE EsModules -----------------------------
(***************************************************************************)
(* The ES module loader: ModuleWrap (src/module_wrap.cc) driven by         *)
(* lib/loader/esm.js.  Linking is asynchronous: every await and every      *)
(* Promise.all costs jobs of the microtask queue, which is what decides    *)
(* whether a module is instantiated before the modules it needs are        *)
(* linked.  The queue is modelled job by job.                              *)
(***************************************************************************)
EXTENDS Naturals, Sequences, SequencesExt, FiniteSets

CONSTANTS
  Files,    \* the files a specifier may resolve to
  Main,     \* the script of the command line
  Bare,     \* a specifier that is neither './' nor '../'
  Graphs,   \* the import graphs tried: functions from Files to sequences
  Broken,   \* the sets of files tried that do not parse or do not exist
  Dynamic   \* the import() expressions the program may evaluate

Roots == Dynamic \cup {"runMain"}
Specifiers == Files \cup {Bare}

VARIABLES
  graph,    \* the module requests of every file
  broken,   \* the files ModuleWrap::New or readFile throws for
  wrap,     \* wrap[f]: the ModuleWrap of moduleMap.get(f) and its linkModule call
  root,     \* root[r]: runMain and each dynamicImport
  jobs,     \* the microtask queue
  abort     \* the check that ended the process, "no" while it runs

esmVars == <<graph, broken, wrap, root, jobs, abort>>

NoWrap == [made |-> FALSE, linked |-> FALSE,
           resolve |-> [s \in Specifiers |-> "none"],   \* _resolve_cache
           left |-> 0, call |-> "none", waiter |-> "runMain",
           instantiated |-> FALSE, evaluated |-> FALSE]

EsmInit ==
  /\ graph \in Graphs
  /\ broken \in Broken
  /\ wrap = [f \in Files |-> NoWrap]
  /\ root = [r \in Roots |-> [state |-> "idle", file |-> Main]]
  /\ jobs = << >>
  /\ abort = "no"

-----------------------------------------------------------------------------
\* The operators below take and return a record st of the wraps and the queue.
St == [wrap |-> wrap, jobs |-> jobs]
Job(kind, of, spec, ok) == [kind |-> kind, of |-> of, spec |-> spec, ok |-> ok]
Post(st, job) == [st EXCEPT !.jobs = Append(@, job)]

\* New makes no native object when the source does not parse; the caller's
\* moduleMap then keeps no entry either.
New(st, f) == IF f \in broken THEN st ELSE [st EXCEPT !.wrap[f].made = TRUE]

ConstructModule(st, f) == New(st, f)

\* resolver: an unsupported specifier rejects at once, everything else adopts
\* the promise of constructModule, which takes two more jobs.
Resolver(st, f, s) ==
  IF s = Bare
  THEN Post([st EXCEPT !.wrap[f].resolve[s] = "rejected"],
            Job("element", f, "requests", FALSE))
  ELSE Post([ConstructModule(st, s) EXCEPT !.wrap[f].resolve[s] = "pending"],
            Job("adopt", f, s, s \notin broken))

\* Link calls the resolver for every request and keeps the promises.
Link(st, f) ==
  LET asked == FoldLeft(LAMBDA a, s : Resolver(a, f, s), st, graph[f])
  IN  [asked EXCEPT !.wrap[f].linked = TRUE]

\* await Promise.all(n promises): the continuation is posted by the last of
\* them, or at once when there is none.
AwaitAll(st, f, phase, n) ==
  LET counted == [st EXCEPT !.wrap[f].left = n, !.wrap[f].call = phase]
  IN  IF n = 0 THEN Post(counted, Job("continue", f, phase, TRUE)) ELSE counted

\* linkModule up to its first await.  moduleLinkingSet and _linked change
\* together, so one field stands for both.
LinkModule(st, f, waiter) ==
  IF st.wrap[f].linked
  THEN st
  ELSE AwaitAll(Link([st EXCEPT !.wrap[f].waiter = waiter], f), f, "requests",
                Len(graph[f]))

\* The promise of linkModule(f) settles: its caller awaits it.
Settle(st, f, ok) ==
  LET w == st.wrap[f].waiter
      settled == [st EXCEPT !.wrap[f].call = IF ok THEN "linked" ELSE "failed"]
  IN  IF w \in Files
      THEN Post(settled, Job("element", w, "children", ok))
      ELSE Post(settled, Job("root", w, "linked", ok))

-----------------------------------------------------------------------------
\* What V8 does with InstantiateModule: every module reachable from f that is
\* not instantiated yet asks ResolveCallback for each of its requests.
RECURSIVE Reach(_, _)
Reach(todo, seen) ==
  LET next == {s \in UNION {Range(graph[g]) : g \in todo} \cap Files :
                 ~wrap[s].instantiated} \ seen
  IN  IF next = {} THEN seen ELSE Reach(next, seen \cup next)
Uninstantiated(f) == IF wrap[f].instantiated THEN {} ELSE Reach({f}, {f})

\* GetFromModule finds the wrap by the module's identity hash; two modules are
\* taken to have different hashes.
GetFromModule(f) == wrap[f]

\* Mutant: the callback trusts that the referrer is linked.
ResolveCallbackTrusting(f, s) == "module"

\* The CHECKs of ResolveCallback for the request s of module f.
ResolveCallback(f, s) ==
  IF ~GetFromModule(f).linked THEN "unlinked"
  ELSE IF GetFromModule(f).resolve[s] # "fulfilled" THEN "unresolved"
  ELSE "module"

Resolutions(f) == UNION {{ResolveCallback(g, s) : s \in Range(graph[g])} :
                           g \in Uninstantiated(f)}

Instantiate(st, f) ==
  [st EXCEPT !.wrap = [g \in Files |-> IF g \in Uninstantiated(f)
                                       THEN [@[g] EXCEPT !.instantiated = TRUE]
                                       ELSE @[g]]]

-----------------------------------------------------------------------------
\* linkModule after its first await: link the modules requested and wait for
\* those calls.  A call that found its module in moduleLinkingSet has returned
\* already, whether or not that module is linked by now.
LinkChildren(st, f) ==
  LET early  == {s \in Range(graph[f]) : st.wrap[s].linked}
      linked == FoldLeft(LAMBDA a, s : LinkModule(a, s, f), st, graph[f])
  IN  FoldLeft(LAMBDA a, s : IF s \in early
                             THEN Post(a, Job("element", f, "children", TRUE))
                             ELSE a,
               AwaitAll(linked, f, "children", Len(graph[f])), graph[f])

Running(kind) == abort = "no" /\ jobs # << >> /\ Head(jobs).kind = kind
Popped == [wrap |-> wrap, jobs |-> Tail(jobs)]
Becomes(st) == wrap' = st.wrap /\ jobs' = st.jobs
Rigid == UNCHANGED <<graph, broken>>

\* The two jobs that make a resolver's promise follow constructModule's.
Adopt ==
  /\ Running("adopt")
  /\ Becomes(Post(Popped, [Head(jobs) EXCEPT !.kind = "resolved"]))
  /\ UNCHANGED <<root, abort>> /\ Rigid

Resolved ==
  /\ Running("resolved")
  /\ LET j == Head(jobs) IN
     Becomes(Post([Popped EXCEPT !.wrap[j.of].resolve[j.spec] =
                                    IF j.ok THEN "fulfilled" ELSE "rejected"],
                  Job("element", j.of, "requests", j.ok)))
  /\ UNCHANGED <<root, abort>> /\ Rigid

\* One promise of a Promise.all settles: the last one, or the first failure,
\* settles the whole.
Element ==
  /\ Running("element")
  /\ LET j == Head(jobs)
         w == wrap[j.of]
     IN  Becomes(CASE w.call # j.spec -> Popped
                   [] w.call = j.spec /\ ~j.ok ->
                        Post([Popped EXCEPT !.wrap[j.of].call = "failing"],
                             Job("continue", j.of, j.spec, FALSE))
                   [] w.call = j.spec /\ j.ok /\ w.left = 1 ->
                        Post([Popped EXCEPT !.wrap[j.of].left = 0],
                             Job("continue", j.of, j.spec, TRUE))
                   [] OTHER -> [Popped EXCEPT !.wrap[j.of].left = @ - 1])
  /\ UNCHANGED <<root, abort>> /\ Rigid

LinkFails ==
  /\ Running("continue") /\ ~Head(jobs).ok
  /\ Becomes(Settle(Popped, Head(jobs).of, FALSE))
  /\ UNCHANGED <<root, abort>> /\ Rigid

RequestsResolved ==
  /\ Running("continue") /\ Head(jobs).ok /\ Head(jobs).spec = "requests"
  /\ Becomes(LinkChildren(Popped, Head(jobs).of))
  /\ UNCHANGED <<root, abort>> /\ Rigid

ChildrenLinked ==
  /\ Running("continue") /\ Head(jobs).ok /\ Head(jobs).spec = "children"
  /\ LET f == Head(jobs).of IN
     \/ /\ Resolutions(f) \subseteq {"module"}
        /\ Becomes(Settle(Instantiate(Popped, f), f, TRUE))
        /\ UNCHANGED abort
     \/ /\ abort' \in Resolutions(f) \ {"module"}
        /\ UNCHANGED <<wrap, jobs>>
  /\ UNCHANGED root /\ Rigid

-----------------------------------------------------------------------------
\* constructAndInstantiateModule, from runMain or from an import() of code
\* that is running.
Import(r, f) ==
  /\ abort = "no" /\ root[r].state = "idle"
  /\ IF r = "runMain" THEN f = Main ELSE wrap[Main].evaluated
  /\ root' = [root EXCEPT ![r] = [state |-> "constructing", file |-> f]]
  /\ Becomes(Post(ConstructModule(St, f), Job("root", r, "construct", f \notin broken)))
  /\ UNCHANGED abort /\ Rigid

\* await linkModule: the root goes on one job after it has returned.
RootLinks ==
  /\ Running("root") /\ Head(jobs).spec = "construct" /\ Head(jobs).ok
  /\ LET r == Head(jobs).of
         f == root[r].file
     IN  Becomes(IF wrap[f].linked THEN Post(Popped, Job("root", r, "linked", TRUE))
                                   ELSE LinkModule(Popped, f, r))
  /\ root' = [root EXCEPT ![Head(jobs).of].state = "linking"]
  /\ UNCHANGED abort /\ Rigid

RootReturns ==
  /\ Running("root") /\ \/ Head(jobs).spec = "linked"
                        \/ Head(jobs).spec = "construct" /\ ~Head(jobs).ok
  /\ Becomes(Post(Popped, [Head(jobs) EXCEPT !.spec = "returned"]))
  /\ UNCHANGED <<root, abort>> /\ Rigid

RootFails ==
  /\ Running("root") /\ Head(jobs).spec = "returned" /\ ~Head(jobs).ok
  /\ Becomes(Popped)
  /\ root' = [root EXCEPT ![Head(jobs).of].state = "rejected"]
  /\ UNCHANGED abort /\ Rigid

\* Execute with kModule: V8 refuses to evaluate a module that is not
\* instantiated, and evaluates the modules it needs first.
Execute ==
  /\ Running("root") /\ Head(jobs).spec = "returned" /\ Head(jobs).ok
  /\ LET r == Head(jobs).of
         f == root[r].file
     IN  IF wrap[f].instantiated
         THEN /\ Becomes([Popped EXCEPT !.wrap[f].evaluated = TRUE])
              /\ root' = [root EXCEPT ![r].state = "evaluated"]
              /\ UNCHANGED abort
         ELSE /\ abort' = "uninstantiated"
              /\ UNCHANGED <<wrap, jobs, root>>
  /\ Rigid

Microtask == \/ Adopt \/ Resolved \/ Element \/ LinkFails \/ RequestsResolved
             \/ ChildrenLinked \/ RootLinks \/ RootReturns \/ RootFails \/ Execute
EsmNext == Microtask \/ \E r \in Roots, f \in Files : Import(r, f)

\* The microtask queue is always run until it is empty, and the bootstrap
\* always calls runMain.
EsmFairness == WF_esmVars(Microtask) /\ WF_esmVars(Import("runMain", Main))
EsmSpec == EsmInit /\ [][EsmNext]_esmVars /\ EsmFairness

-----------------------------------------------------------------------------
EsmTypeOK ==
  /\ graph \in Graphs /\ broken \in Broken
  /\ \A f \in Files :
       /\ wrap[f].made \in BOOLEAN /\ wrap[f].linked \in BOOLEAN
       /\ wrap[f].call \in {"none", "requests", "children", "failing",
                            "linked", "failed"}
       /\ wrap[f].waiter \in Files \cup Roots /\ wrap[f].left \in Nat
  /\ abort \in {"no", "unlinked", "unresolved", "uninstantiated"}

\* The files that more than one linkModule call is made for.
Importers(f) == {g \in Files : f \in Range(graph[g])}
                  \cup {r \in Roots : root[r].state # "idle" /\ root[r].file = f}
Shared == {f \in Files : Cardinality(Importers(f)) > 1}

\* An instantiated module is whole: its requests have resolved and the modules
\* they resolved to are instantiated, whatever order Link, the resolver's
\* promises and Instantiate came in (module_wrap.cc, ResolveCallback).
InstantiatedWhole ==
  \A f \in Files : wrap[f].instantiated =>
    \A s \in Range(graph[f]) : /\ wrap[f].resolve[s] = "fulfilled"
                               /\ wrap[s].instantiated

\* The checks of ResolveCallback and of module evaluation fail only in a
\* program where two importers name one file: a tree of imports, broken files
\* included, ends in an evaluated or a rejected runMain, never in an abort.
AbortsShared == abort # "no" => Shared # {}

\* ResolveCallback is only asked about modules whose Link has run and whose
\* requests have resolved (CHECK(wrap->_linked) and CHECK_EQ(promise->State(),
\* kFulfilled) in module_wrap.cc).
LinkedWhenResolved == abort \notin {"unlinked", "unresolved"}

MainSettled == abort # "no" \/ root["runMain"].state \in {"evaluated", "rejected"}

\* The main module is evaluated or its loading is reported as failed.
MainSettles == []<>MainSettled
=============================================================================

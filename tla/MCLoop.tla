------------------------------- MODULE MCLoop -------------------------------
(***************************************************************************)
(* What other threads hand to the main thread's event loop: V8's tasks,    *)
(* the inspector's requests, and the agent's debugging sessions.  The      *)
(* three share no state, and a behaviour is of one part: "tasks", "queue"  *)
(* or "sessions".  The variables of the others keep their initial values.  *)
(* The worker of "sessions" is started without the inspector, with         *)
(* --inspect, or with --inspect-brk.                                       *)
(***************************************************************************)
EXTENDS TaskRunner, InspectorQueue, InspectorSessions

CONSTANTS d1
MCDelayed == {d1}
MCDelays == {0, 2}
MCOptions == {[inspect |-> FALSE, brk |-> FALSE, breaks |-> FALSE, handles |-> TRUE],
              [inspect |-> TRUE, brk |-> FALSE, breaks |-> TRUE, handles |-> TRUE],
              [inspect |-> TRUE, brk |-> TRUE, breaks |-> TRUE, handles |-> FALSE]}

VARIABLE part
loopVars == <<part, taskVars, queueVars, sessionVars>>

LoopInit == /\ part \in {"tasks", "queue", "sessions"}
            /\ TaskInit /\ QueueInit /\ SessionsInit
            /\ part # "sessions" => ~options.inspect

LoopNext ==
  \/ part = "tasks" /\ TaskNext /\ UNCHANGED <<part, queueVars, sessionVars>>
  \/ part = "queue" /\ QueueNext /\ UNCHANGED <<part, taskVars, sessionVars>>
  \/ part = "sessions" /\ SessionsNext /\ UNCHANGED <<part, taskVars, queueVars>>

\* The fairness of each part's module, for the part the behaviour is of.
Of(p, A) == part = p /\ A

LoopSpec ==
  /\ LoopInit /\ [][LoopNext]_loopVars
  /\ WF_taskVars(Of("tasks", MainStep)) /\ WF_taskVars(Of("tasks", ImmediateProcessor))
  /\ WF_taskVars(Of("tasks", TimerProcessor)) /\ WF_taskVars(Of("tasks", Tick))
  /\ \A x \in Delayed \cup 1..MaxTasks : WF_taskVars(Of("tasks", Send(x)))
  /\ WF_queueVars(Of("queue", PostNotifies)) /\ WF_queueVars(Of("queue", Progress))
  /\ SF_queueVars(Of("queue", IdleInterrupt)) /\ WF_queueVars(Of("queue", ScriptSteps))
  /\ WF_workerVars(Of("sessions", ClientStep))
  /\ WF_workerVars(Of("sessions", LoopLeave))
  /\ WF_workerVars(Of("sessions", DoDispatch))
  /\ \A s \in Sessions : WF_workerVars(Of("sessions", InspectorEndSession(s)))
=============================================================================

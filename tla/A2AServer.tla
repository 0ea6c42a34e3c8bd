----------------------------- MODULE A2AServer ------------------------------
(***************************************************************************)
(* The A2A server as build_app puts it together (interfaces/server.py):    *)
(* requests go through the guard into the application of the SDK, which    *)
(* starts executions of the gateway, cancels them, and keeps the status of *)
(* each task in the bounded task store; the end of the lifespan shuts the  *)
(* gateway down.  The SDK's part is external: an execution outlives the    *)
(* request that started it, a status is stored as it is published, and a   *)
(* request may be any of the methods.                                      *)
(***************************************************************************)
EXTENDS RequestGuard, Gateway, TaskStore

ASSUME ServerAssumption == TaskIds \subseteq Tasks /\ Executions \subseteq Requests

vars == <<guard, gateway, taskStore>>

TypeOK == GuardTypeOK /\ GatewayTypeOK /\ TasksTypeOK

Init == GuardInit /\ GatewayInit /\ TasksInit

\* message/send
Begin(r) ==
  /\ place[r] = "inside" /\ r \in Executions
  /\ Execute(r)
  /\ UNCHANGED <<guard, taskStore>>

\* tasks/cancel finds the task in the store.
CancelRequest(r) ==
  /\ place[r] = "inside"
  /\ \E t \in tasks \cap TaskIds : CancelTask(t) /\ Save(t)
  /\ UNCHANGED guard

\* A status of a task whose executions are not followed here.
StoreOther(r) ==
  /\ place[r] = "inside"
  /\ \E t \in Tasks \ TaskIds : Save(t)
  /\ UNCHANGED <<guard, gateway>>

\* tasks/get
Poll(r) == place[r] = "inside" /\ Get /\ UNCHANGED <<guard, gateway>>

\* A status is published, and stored.
Publish(e) ==
  /\ \/ StartWork(e) \/ Complete(e)
     \/ verdicts[e] = <<>> /\ Report(e)
  /\ Save(TaskOf[e])
  /\ UNCHANGED guard

Continue(e) ==
  /\ \/ Extract(e) \/ Decode(e) \/ LoseDecoding(e) \/ GoWrong(e)
     \/ HandlerEnds(e) \/ Die(e)
     \/ verdicts[e] # <<>> /\ Report(e)
  /\ UNCHANGED <<guard, taskStore>>

\* _handle_lifespan
Lifespan == (Shutdown \/ ShutdownReturns) /\ UNCHANGED <<guard, taskStore>>

Next ==
  \/ \E r \in Requests :
       \/ (Serve(r) \/ Abort(r)) /\ UNCHANGED <<gateway, taskStore>>
       \/ Begin(r) \/ CancelRequest(r) \/ StoreOther(r) \/ Poll(r)
  \/ \E e \in Executions : Publish(e) \/ Continue(e)
  \/ Lifespan
  \/ /\ TickClock \/ \E t \in Tasks : Delete(t)
     /\ UNCHANGED <<guard, gateway>>

\* The event loop runs what is ready, clients take their answers or go away,
\* the application ends within its timeouts, and a cancelled task stops.
Fairness ==
  /\ \A r \in Requests : WF_vars(Progress(r) /\ UNCHANGED <<gateway, taskStore>>)
  /\ \A e \in Executions : WF_vars(Die(e) /\ UNCHANGED <<guard, taskStore>>)
  /\ WF_vars(ShutdownReturns /\ UNCHANGED <<guard, taskStore>>)

Spec == Init /\ [][Next]_vars /\ Fairness

-----------------------------------------------------------------------------
\* Whatever arrives is answered or dropped, although a busy answer to a slow
\* client holds the lock that the others need to come and to go, and shutdown
\* returns although executions are replaced and started while it waits.
EverythingEnds ==
  <>[](At(Places \ {"out", "gone"}) = {} /\ stopping # "waiting")
=============================================================================

----------------------------- MODULE NodeDeploy -----------------------------
(***************************************************************************)
(* Adding a Cassandra node (backend/app/routers/cassandra_admin.py and     *)
(* cassandra_nodes.py): a request is checked against a flag and starts a   *)
(* task on the event loop; the task scales the StatefulSet, waits for the  *)
(* new pod and for the ring, and broadcasts its progress to the pages that *)
(* are connected.  Kubernetes and Cassandra move on by themselves.         *)
(*                                                                         *)
(* The event loop is a queue: what became ready first runs first, and a    *)
(* request's handler runs without giving way.  A call in a thread may take *)
(* any time, so it is a step of its own.                                   *)
(***************************************************************************)
EXTENDS Integers, Sequences, FiniteSets

CONSTANTS
    InFlight,       \* how many requests can be ready to run at once
    Nothing,        \* a page that has seen no progress
    MaxRequests,    \* bound: requests for a node, a death counting as one
    MaxCrashes      \* bound: deaths of the backend

ASSUME DeployAssumption ==
    /\ {InFlight, MaxRequests, MaxCrashes} \subseteq Nat
    /\ Nothing \notin [step : STRING, status : STRING, node : Nat]

Requests == 1 .. MaxRequests
Nodes    == 0 .. MaxRequests

\* What deploy_node does, in order: calls made in a thread ("do") and
\* messages broadcast ("say").
Do(call)          == [kind |-> "do", call |-> call]
Say(step, status) == [kind |-> "say", step |-> step, status |-> status]

Script == <<
    Do("read"),                       Say("creating", "in_progress"),
    Do("scale"),                      Say("creating", "done"),
    Say("healthy", "in_progress"),
    Do("podReady"),                   Say("healthy", "done"),
    Say("joining_ring", "in_progress"),
    Do("podIp"), Do("ringJoin"),      Say("joining_ring", "done"),
    Say("done", "done") >>

Last  == Len(Script) + 1    \* the finally block is left to run
Ended == Len(Script) + 2

\* The step of the display that a call belongs to.
StepOf(call) == CASE call \in {"read", "scale"} -> "creating"
                  [] call = "podReady" -> "healthy"
                  [] OTHER -> "joining_ring"

VARIABLES
    \* the backend
    ready,      \* the event loop's queue: <<"request" or "task", r>>
    flag,       \* app.state.cassandra_deploy_in_progress
    pc,         \* pc[r]: where in Script the task of r is; 0: not begun
    raised,     \* raised[r]: has one of its calls raised?
    node,       \* node[r]: the ordinal of the pod it deploys
    step,       \* step[r]: current_step
    \* the cluster
    replicas,   \* spec.replicas of the StatefulSet
    pods,       \* how many there are: the ordinals below it
    ring,       \* the nodes that have joined, whether up or down
    \* a page
    connected,
    shown,      \* the progress it shows
    \* history, for the properties
    raced,      \* the requests accepted in the gap between a test of the flag
                \* and its setting, or beside a deploy that was
    \* bounds
    asked, crashes

task    == <<pc, raised, node, step>>
backend == <<ready, flag, task>>
cluster == <<replicas, pods, ring>>
page    == <<connected, shown>>
vars == <<backend, cluster, page, raced, asked, crashes>>

Running(r) == pc[r] \in 1 .. Last

Init ==
    /\ ready = <<>>
    /\ flag = FALSE
    /\ pc = [r \in Requests |-> 0]
    /\ raised = [r \in Requests |-> FALSE]
    /\ node = [r \in Requests |-> 0]
    /\ step = [r \in Requests |-> "creating"]
    /\ replicas = 1
    /\ pods = 1
    /\ ring = {0}
    /\ connected = TRUE
    /\ shown = Nothing
    /\ raced = {}
    /\ asked = 0
    /\ crashes = 0

-----------------------------------------------------------------------------
(* The event loop *)

\* An admin's request is ready to be handled.
Arrive ==
    /\ asked + crashes < MaxRequests
    /\ Cardinality({i \in DOMAIN ready : ready[i][1] = "request"}) < InFlight
    /\ asked' = asked + 1
    /\ ready' = Append(ready, <<"request", asked + 1>>)
    /\ UNCHANGED <<flag, task, cluster, page, raced, crashes>>

\* Whom a request that finds the flag down may come to run beside: the tasks
\* that have not begun, and a deploy whose flag its own rival took down.
Rivals == {s \in Requests : \E i \in DOMAIN ready : ready[i] = <<"task", s>>}
              \cup {s \in raced : Running(s)}

Accept(r) ==
    /\ ready' = Append(Tail(ready), <<"task", r>>)
    /\ raced' = IF Rivals = {} THEN raced ELSE raced \cup Rivals \cup {r}

\* Mutant of Handle: no check.
HandleUnchecked(r) ==
    /\ ready # <<>> /\ Head(ready) = <<"request", r>>
    /\ Accept(r)
    /\ UNCHANGED <<flag, task, cluster, page, asked, crashes>>

\* The handler: 409 when the flag is up, or a task for later.  (The check for
\* an available Kubernetes API is settled when the backend starts.)
Handle(r) ==
    /\ ready # <<>> /\ Head(ready) = <<"request", r>>
    /\ IF flag THEN ready' = Tail(ready) /\ UNCHANGED raced ELSE Accept(r)
    /\ UNCHANGED <<flag, task, cluster, page, asked, crashes>>

\* run(): the task begins and puts the flag up.
Run(r) ==
    /\ ready # <<>> /\ Head(ready) = <<"task", r>>
    /\ ready' = Tail(ready)
    /\ flag' = TRUE
    /\ pc' = [pc EXCEPT ![r] = 1]
    /\ UNCHANGED <<raised, node, step, cluster, page, raced, asked, crashes>>

\* broadcast: the connected pages get the message.
Broadcast(message) == shown' = IF connected THEN message ELSE shown

\* Mutant of Emit: current_step is not moved on.
EmitKeepsStep(r) ==
    /\ pc[r] \in DOMAIN Script /\ Script[pc[r]].kind = "say"
    /\ ~raised[r]
    /\ LET said == Script[pc[r]]
       IN  Broadcast([step |-> said.step, status |-> said.status, node |-> node[r]])
    /\ pc' = [pc EXCEPT ![r] = @ + 1]
    /\ UNCHANGED <<ready, flag, raised, node, step, cluster, connected, raced, asked, crashes>>

\* emit()
Emit(r) ==
    /\ pc[r] \in DOMAIN Script /\ Script[pc[r]].kind = "say"
    /\ ~raised[r]
    /\ LET said == Script[pc[r]]
       IN  /\ step' = [step EXCEPT ![r] = said.step]
           /\ Broadcast([step |-> said.step, status |-> said.status, node |-> node[r]])
    /\ pc' = [pc EXCEPT ![r] = @ + 1]
    /\ UNCHANGED <<ready, flag, raised, node, cluster, connected, raced, asked, crashes>>

-----------------------------------------------------------------------------
(* Calls in a thread *)

Calling(r, call) ==
    /\ pc[r] \in DOMAIN Script
    /\ Script[pc[r]] = Do(call)
    /\ ~raised[r]

Return(r) == pc' = [pc EXCEPT ![r] = @ + 1]

\* _current_replicas: the new pod's ordinal is the replicas there are.
Read(r) ==
    /\ Calling(r, "read")
    /\ node' = [node EXCEPT ![r] = replicas]
    /\ Return(r)
    /\ UNCHANGED <<ready, flag, raised, step, cluster, page, raced, asked, crashes>>

\* Mutant of Scale: one is added to new_replicas once more.
ScaleByTwo(r) ==
    /\ Calling(r, "scale")
    /\ replicas' = node[r] + 2
    /\ Return(r)
    /\ UNCHANGED <<ready, flag, raised, node, step, pods, ring, page, raced, asked, crashes>>

\* _scale_statefulset_sync: the patch is a number, not an increment.
Scale(r) ==
    /\ Calling(r, "scale")
    /\ replicas' = node[r] + 1
    /\ Return(r)
    /\ UNCHANGED <<ready, flag, raised, node, step, pods, ring, page, raced, asked, crashes>>

\* _wait_pod_ready_sync: a poll finds every container ready.  Readiness comes
\* and goes, so it may of any pod there is.
PodReady(r) ==
    /\ Calling(r, "podReady")
    /\ node[r] < pods
    /\ Return(r)
    /\ UNCHANGED <<ready, flag, raised, node, step, cluster, page, raced, asked, crashes>>

\* _pod_ip_sync
PodIp(r) ==
    /\ Calling(r, "podIp")
    /\ node[r] < pods
    /\ Return(r)
    /\ UNCHANGED <<ready, flag, raised, node, step, cluster, page, raced, asked, crashes>>

\* _wait_ring_join_sync: a poll finds the pod's address as UN.
RingJoin(r) ==
    /\ Calling(r, "ringJoin")
    /\ node[r] \in ring /\ node[r] < pods
    /\ Return(r)
    /\ UNCHANGED <<ready, flag, raised, node, step, cluster, page, raced, asked, crashes>>

\* A call raises: the API refuses, a pod is stuck, a wait reaches its
\* deadline (however long that takes).  A patch that raises may have been
\* applied.
Raise(r) ==
    /\ pc[r] \in DOMAIN Script /\ Script[pc[r]].kind = "do"
    /\ ~raised[r]
    /\ raised' = [raised EXCEPT ![r] = TRUE]
    /\ \/ UNCHANGED replicas
       \/ Calling(r, "scale") /\ replicas' = node[r] + 1
    /\ UNCHANGED <<ready, flag, pc, node, step, pods, ring, page, raced, asked, crashes>>

\* Mutant of EmitError: the exception is only logged.
EmitErrorSilent(r) ==
    /\ pc[r] \in DOMAIN Script /\ raised[r]
    /\ pc' = [pc EXCEPT ![r] = Last]
    /\ UNCHANGED <<ready, flag, raised, node, step, cluster, page, raced, asked, crashes>>

\* except Exception: the error is broadcast as one of current_step.
EmitError(r) ==
    /\ pc[r] \in DOMAIN Script /\ raised[r]
    /\ Broadcast([step |-> step[r], status |-> "error", node |-> node[r]])
    /\ pc' = [pc EXCEPT ![r] = Last]
    /\ UNCHANGED <<ready, flag, raised, node, step, cluster, connected, raced, asked, crashes>>

\* finally: the flag comes down, whoever put it up, and the task's variables
\* are gone (node is kept, for the properties).
Finish(r) ==
    /\ pc[r] = Last
    /\ flag' = FALSE
    /\ pc' = [pc EXCEPT ![r] = Ended]
    /\ raised' = [raised EXCEPT ![r] = FALSE]
    /\ step' = [step EXCEPT ![r] = "creating"]
    /\ UNCHANGED <<ready, node, cluster, page, raced, asked, crashes>>

\* The backend dies: its queue, its tasks and its sockets are gone.  A page
\* has no progress message to tell it, and does not connect again.
Crash ==
    /\ crashes < MaxCrashes /\ asked + crashes < MaxRequests
    /\ crashes' = crashes + 1
    /\ ready' = <<>>
    /\ flag' = FALSE
    /\ pc' = [r \in Requests |-> IF Running(r) THEN Ended ELSE pc[r]]
    /\ raised' = [r \in Requests |-> FALSE]
    /\ step' = [r \in Requests |-> "creating"]
    /\ connected' = FALSE
    /\ UNCHANGED <<node, cluster, shown, raced, asked>>

\* The page is loaded anew.
Reload ==
    /\ ~connected
    /\ connected' = TRUE
    /\ shown' = Nothing
    /\ UNCHANGED <<backend, cluster, raced, asked, crashes>>

-----------------------------------------------------------------------------
(* Kubernetes and Cassandra *)

\* The StatefulSet controller creates the next pod, once those before it are
\* ready, or deletes the last.
SetPods(number) ==
    /\ pods' = number
    /\ UNCHANGED <<backend, replicas, ring, page, raced, asked, crashes>>

Create == pods < replicas /\ SetPods(pods + 1)
Delete == pods > replicas /\ SetPods(pods - 1)

\* Cassandra on the pod has bootstrapped.  Nobody is taken out of the ring: a
\* node whose pod is deleted stays in it, down.
Join(n) ==
    /\ n < pods /\ n \notin ring
    /\ ring' = ring \cup {n}
    /\ UNCHANGED <<backend, replicas, pods, page, raced, asked, crashes>>

-----------------------------------------------------------------------------
Call(r) == Read(r) \/ Scale(r) \/ PodReady(r) \/ PodIp(r) \/ RingJoin(r)

TaskStep(r) == Emit(r) \/ Call(r) \/ Raise(r) \/ EmitError(r) \/ Finish(r)

Next ==
    \/ Arrive
    \/ \E r \in Requests : Handle(r) \/ Run(r) \/ TaskStep(r)
    \/ Crash
    \/ Reload
    \/ Create
    \/ Delete
    \/ \E n \in Nodes : Join(n)

Spec == Init /\ [][Next]_vars

\* The event loop runs on, and every call returns or raises: the two waits
\* have deadlines.  Nothing is asked of Kubernetes, Cassandra or the admins.
\* (Fairness of every task by itself, which the code gives, adds nothing: a
\* deploy has a last step, so the others cannot be kept waiting for ever.)
FairSpec == Spec /\ WF_vars(\E r \in Requests : Handle(r) \/ Run(r) \/ TaskStep(r))

-----------------------------------------------------------------------------
(* Properties *)

Step == {"creating", "healthy", "joining_ring", "done"}

\* The type invariant.
TypeOK ==
    /\ ready \in Seq({"request", "task"} \X Requests)
    /\ flag \in BOOLEAN /\ connected \in BOOLEAN
    /\ pc \in [Requests -> 0 .. Ended]
    /\ raised \in [Requests -> BOOLEAN]
    /\ node \in [Requests -> Nodes]
    /\ step \in [Requests -> Step]
    /\ replicas \in 1 .. MaxRequests + 1
    /\ pods \in 1 .. MaxRequests + 1
    /\ ring \subseteq Nodes
    /\ \/ shown = Nothing
       \/ shown \in [step : Step, status : {"in_progress", "done", "error"}, node : Nodes]
    /\ raced \subseteq Requests
    /\ asked \in 0 .. MaxRequests /\ crashes \in 0 .. MaxCrashes

\* "A node deploy is already in progress" (routers/cassandra_admin.py:30): two
\* never run at once.  The code does not keep this when requests come together.
NeverTwo == \A r, s \in Requests : Running(r) /\ Running(s) => r = s

\* Two deploys run at once only if both were let in through that gap, whatever
\* fails, however the requests come and whoever takes the flag down.
OneDeploy ==
    \A r, s \in Requests : Running(r) /\ Running(s) => r = s \/ {r, s} \subseteq raced

\* A page that shows a node as ready shows one that is in the ring and that
\* the StatefulSet keeps; only a node of deploys that ran at once may be taken
\* away, by the one whose patch came late.
DoneIsJoined ==
    shown # Nothing /\ shown.step = "done" =>
        /\ shown.node \in ring
        /\ shown.node < replicas \/ \E r \in raced : node[r] = shown.node

\* The box that turns red is the one whose call raised.
ErrorNamesStep ==
    [][\A r \in Requests : pc[r] \in DOMAIN Script /\ raised[r] /\ pc'[r] = Last
          /\ connected => shown'.step = StepOf(Script[pc[r]].call)]_vars

\* An admin can always ask again: no deploy blocks the next one for good.
FlagComesDown == flag ~> ~flag

UnderWay == shown # Nothing /\ shown.step # "done" /\ shown.status # "error"

\* The display comes to an end, ready or failed, unless the page loses its
\* connection: no step is shown for ever as running that nobody works on.
DisplayEnds == UnderWay ~> ~(UnderWay /\ connected)

\* The display tells the truth: of the node that is ready, and of the step
\* that failed (cassandra_nodes.py:319).
DisplayIsTrue == []DoneIsJoined /\ ErrorNamesStep

\* A deploy ends for the next admin and for those who watch it.
DeployEnds == FlagComesDown /\ DisplayEnds
=============================================================================

--------------------------- MODULE NodeDeployProofs ---------------------------
(***************************************************************************)
(* Proofs about NodeDeploy, for any number of requests at once: the number *)
(* of nodes, which deploys can run together, and that the display is true. *)
(***************************************************************************)
EXTENDS NodeDeploy, FiniteSetTheorems, TLAPS

-----------------------------------------------------------------------------
(* The script *)

DoAt  == {1, 3, 6, 9, 10}
SayAt == {2, 4, 5, 7, 8, 11, 12}

LEMMA ScriptLength ==
    /\ Len(Script) = 12 /\ DOMAIN Script = 1 .. 12
    /\ Last = 13 /\ Ended = 14
BY DEF Script, Last, Ended

\* What stands at each place of the script.
LEMMA ScriptIs ==
    /\ Script[1] = Do("read")
    /\ Script[2] = Say("creating", "in_progress")
    /\ Script[3] = Do("scale")
    /\ Script[4] = Say("creating", "done")
    /\ Script[5] = Say("healthy", "in_progress")
    /\ Script[6] = Do("podReady")
    /\ Script[7] = Say("healthy", "done")
    /\ Script[8] = Say("joining_ring", "in_progress")
    /\ Script[9] = Do("podIp")
    /\ Script[10] = Do("ringJoin")
    /\ Script[11] = Say("joining_ring", "done")
    /\ Script[12] = Say("done", "done")
BY DEF Script

LEMMA DoPlaces ==
    ASSUME NEW i \in DOMAIN Script
    PROVE  /\ Script[i].kind = "do" => i \in DoAt
           /\ Script[i].kind = "say" => i \in SayAt
<1>1. i \in DoAt \cup SayAt
      BY ScriptLength DEF DoAt, SayAt
<1>2. ASSUME i \in DoAt PROVE Script[i].kind = "do"
      BY <1>2, ScriptIs DEF DoAt, Do
<1>3. ASSUME i \in SayAt PROVE Script[i].kind = "say"
      BY <1>3, ScriptIs DEF SayAt, Say
<1>4. QED  BY <1>1, <1>2, <1>3

\* The place of a call.
LEMMA CallPlaces ==
    ASSUME NEW i \in DOMAIN Script, NEW call, Script[i] = Do(call)
    PROVE  /\ i \in DoAt
           /\ call = "read" => i = 1
           /\ call = "scale" => i = 3
           /\ call = "podReady" => i = 6
           /\ call = "podIp" => i = 9
           /\ call = "ringJoin" => i = 10
<1>1. Script[i].kind = "do" /\ Script[i].call = call
      BY DEF Do
<1>2. i \in DoAt
      BY <1>1, DoPlaces
<1>3. QED  BY <1>1, <1>2, ScriptIs DEF DoAt, Do

\* What emit() sends is a step and a status of the display.
LEMMA SaidType ==
    ASSUME NEW i \in SayAt
    PROVE  Script[i].step \in Step /\ Script[i].status \in {"in_progress", "done"}
BY ScriptIs DEF SayAt, Say, Step

-----------------------------------------------------------------------------
(* The invariants *)

\* The tasks that have made their patch, or can no longer make it.
Tried == {r \in Requests : pc[r] >= 4 \/ raised[r]}

\* No request stands in the queue twice.
Once(queue) == \A i, j \in DOMAIN queue : queue[i][2] = queue[j][2] => i = j

\* A request waits once, in the queue, before its task begins.
QueueOK ==
    /\ \A i \in DOMAIN ready : ready[i][2] <= asked /\ pc[ready[i][2]] = 0
    /\ Once(ready)
    /\ \A r \in Requests : r > asked => pc[r] = 0
    /\ \A r \in Requests : pc[r] = 0 => ~raised[r]

\* Each task adds one node at most, however the tasks interleave: the patches
\* are absolute, and each is one more than a number read before.
CountOK ==
    /\ replicas <= 1 + Cardinality(Tried)
    /\ \A r \in Requests \ Tried : node[r] <= 1 + Cardinality(Tried)

\* A task that calls has current_step at the step of the call.
StepOK ==
    \A r \in Requests :
        /\ pc[r] <= 3 => step[r] = "creating"
        /\ pc[r] = 6 => step[r] = "healthy"
        /\ pc[r] \in {9, 10} => step[r] = "joining_ring"
        /\ raised[r] /\ pc[r] \in DOMAIN Script => pc[r] \in DoAt

IInv == TypeOK /\ QueueOK /\ CountOK /\ StepOK

\* The task of r waits in the queue.
Queued(r) == \E i \in DOMAIN ready : ready[i] = <<"task", r>>

\* The flag is up while a deploy runs that was not let in through the gap, and
\* who waits or runs beside another was, like the other.
RaceOK ==
    /\ \A r \in Requests : Running(r) => flag \/ r \in raced
    /\ \A r, s \in Requests :
          Queued(s) /\ (Running(r) \/ Queued(r)) => r = s \/ {r, s} \subseteq raced
    /\ OneDeploy

\* A task has a node from its read on, and past its last wait one that has
\* joined.  To a task that is alone the replicas are those it has read, and
\* then one more.
NodeOK ==
    \A r \in Requests :
        /\ pc[r] <= 1 => node[r] = 0
        /\ pc[r] \in 2 .. 12 => node[r] >= 1
        /\ Running(r) /\ ~raised[r] /\ pc[r] >= 11 => node[r] \in ring
        /\ Running(r) /\ ~raised[r] /\ r \notin raced =>
              /\ pc[r] \in {2, 3} => node[r] = replicas
              /\ pc[r] >= 4 => node[r] < replicas

\* A node shown as ready, if it is not one of deploys that ran at once, is a
\* replica, and no task is about to patch the replicas below it.
ShownOK ==
    shown # Nothing /\ shown.step = "done" =>
        /\ shown.node \in ring /\ shown.node >= 1
        /\ (\A r \in raced : node[r] # shown.node) =>
              /\ shown.node < replicas
              /\ \A r \in Requests : pc[r] \in {2, 3} => shown.node <= node[r]

LEMMA InitInvariant == Init => IInv
<1> SUFFICES ASSUME Init PROVE IInv
    OBVIOUS
<1> USE DeployAssumption DEF Init
<1>1. TypeOK
  <2>1. ready \in Seq({"request", "task"} \X Requests)
        OBVIOUS
  <2>2. flag \in BOOLEAN /\ connected \in BOOLEAN
        BY Zenon
  <2>3. /\ pc \in [Requests -> 0 .. Ended]
        /\ raised \in [Requests -> BOOLEAN]
        /\ node \in [Requests -> Nodes]
        /\ step \in [Requests -> Step]
        BY ScriptLength DEF Nodes, Step
  <2>4. /\ replicas \in 1 .. MaxRequests + 1
        /\ pods \in 1 .. MaxRequests + 1
        /\ ring \subseteq Nodes
        BY DEF Nodes
  <2>5. /\ asked \in 0 .. MaxRequests /\ crashes \in 0 .. MaxCrashes /\ shown = Nothing
        /\ raced \subseteq Requests
        OBVIOUS
  <2>6. QED  BY <2>1, <2>2, <2>3, <2>4, <2>5 DEF TypeOK
<1>2. QueueOK
      BY DEF QueueOK, Once
<1>3. CountOK
  <2>1. Tried = {}
        BY DEF Tried
  <2>2. QED  BY <2>1, FS_EmptySet DEF CountOK
<1>4. StepOK
      BY ScriptLength DEF StepOK
<1>5. QED  BY <1>1, <1>2, <1>3, <1>4 DEF IInv

LEMMA TriedFinite ==
    /\ IsFiniteSet(Requests) /\ Cardinality(Requests) = MaxRequests
    /\ IsFiniteSet(Tried) /\ Cardinality(Tried) \in Nat
<1>1. IsFiniteSet(Requests) /\ Cardinality(Requests) = MaxRequests
      BY DeployAssumption, FS_Interval DEF Requests
<1>2. Tried \in SUBSET Requests
      BY DEF Tried
<1>3. QED  BY <1>1, <1>2, FS_Subset, FS_CardinalityType

\* A task that can still make its patch finds room for one more node.
LEMMA RoomForOne ==
    ASSUME TypeOK, CountOK, NEW r \in Requests \ Tried
    PROVE  replicas \in Nodes
<1>1. Tried \subseteq Requests \ {r}
      BY DEF Tried
<1>2. IsFiniteSet(Requests \ {r}) /\ Cardinality(Requests \ {r}) = MaxRequests - 1
      BY TriedFinite, FS_RemoveElement
<1>3. Cardinality(Tried) <= MaxRequests - 1
      BY <1>1, <1>2, FS_Subset
<1>4. QED  BY <1>3, TriedFinite, DeployAssumption DEF CountOK, TypeOK, Nodes

\* Where a task is that makes a call, and what its return does.
LEMMA CallAt ==
    ASSUME NEW r \in Requests, NEW call, Calling(r, call)
    PROVE  /\ pc[r] \in DoAt /\ ~raised[r]
           /\ call = "read" => pc[r] = 1
           /\ call = "scale" => pc[r] = 3
           /\ call = "podReady" => pc[r] = 6
           /\ call = "podIp" => pc[r] = 9
           /\ call = "ringJoin" => pc[r] = 10
BY CallPlaces DEF Calling

LEMMA ReturnType ==
    ASSUME TypeOK, NEW r \in Requests, pc[r] \in DoAt \cup SayAt, Return(r)
    PROVE  pc' \in [Requests -> 0 .. Ended]
<1>1. pc \in [Requests -> 0 .. Ended]
      BY DEF TypeOK
<1>2. pc[r] + 1 \in 0 .. Ended
      BY ScriptLength DEF DoAt, SayAt
<1>3. pc' = [pc EXCEPT ![r] = pc[r] + 1]
      BY DEF Return
<1>4. QED  BY <1>1, <1>2, <1>3

\* Types.  A node that is read is one more than there were, which the count of
\* the tasks bounds.
LEMMA TypeStep == TypeOK /\ CountOK /\ [Next]_vars => TypeOK'
<1> SUFFICES ASSUME TypeOK /\ CountOK, [Next]_vars PROVE TypeOK'
    OBVIOUS
<1> USE DeployAssumption, ScriptLength
<1> USE DEF TypeOK
<1>1. CASE Arrive
      BY <1>1 DEF Arrive, task, cluster, page, Requests
<1>2. CASE Crash
  <2>1. flag' \in BOOLEAN /\ connected' \in BOOLEAN
        BY <1>2, Zenon DEF Crash
  <2>2. pc' \in [Requests -> 0 .. Ended] /\ ready' = <<>>
        BY <1>2 DEF Crash
  <2>3. crashes' \in 0 .. MaxCrashes
    <3>1. MaxCrashes \in Nat /\ crashes \in 0 .. MaxCrashes
          OBVIOUS
    <3>2. crashes' = crashes + 1 /\ crashes < MaxCrashes
          BY <1>2 DEF Crash
    <3>3. QED  BY <3>1, <3>2
  <2>4. UNCHANGED <<node, cluster, shown, raced, asked>>
        BY <1>2 DEF Crash
  <2>5. raised' \in [Requests -> BOOLEAN] /\ step' \in [Requests -> Step]
        BY <1>2 DEF Crash, Step
  <2>6. QED  BY <2>1, <2>2, <2>3, <2>4, <2>5 DEF cluster
<1>3. CASE Reload
      BY <1>3 DEF Reload, backend, task, cluster
<1>4. ASSUME NEW r \in Requests, Handle(r) \/ Run(r) \/ TaskStep(r) PROVE TypeOK'
  <2>1. CASE Handle(r)
    <3>1. /\ Tail(ready) \in Seq({"request", "task"} \X Requests)
          /\ <<"task", r>> \in {"request", "task"} \X Requests
          BY <2>1 DEF Handle
    <3>2. Append(Tail(ready), <<"task", r>>) \in Seq({"request", "task"} \X Requests)
          BY <3>1
    <3>3. ready' \in Seq({"request", "task"} \X Requests)
          BY <2>1, <3>1, <3>2 DEF Handle, Accept
    <3>4. UNCHANGED <<flag, task, cluster, page, asked, crashes>>
          BY <2>1 DEF Handle
    <3>5. raced' \subseteq Requests
          BY <2>1 DEF Handle, Accept, Rivals
    <3>6. QED  BY <3>3, <3>4, <3>5 DEF task, cluster, page
  <2>2. CASE Run(r)
        BY <2>2 DEF Run, cluster, page, Requests
  <2>3. CASE Emit(r)
    <3>1. pc[r] \in SayAt
          BY <2>3, DoPlaces DEF Emit
    <3>2. step' \in [Requests -> Step]
          BY <2>3, <3>1, SaidType DEF Emit
    <3>3. pc' \in [Requests -> 0 .. Ended]
          BY <2>3, <3>1, ReturnType DEF Emit, Return
    <3>4. \/ shown' = shown
          \/ shown' = [step |-> Script[pc[r]].step, status |-> Script[pc[r]].status,
                       node |-> node[r]]
          BY <2>3 DEF Emit, Broadcast
    <3>5. [step |-> Script[pc[r]].step, status |-> Script[pc[r]].status, node |-> node[r]]
              \in [step : Step, status : {"in_progress", "done", "error"}, node : Nodes]
          BY <3>1, SaidType
    <3>6. \/ shown' = Nothing
          \/ shown' \in [step : Step, status : {"in_progress", "done", "error"}, node : Nodes]
          BY <3>4, <3>5
    <3>7. QED  BY <2>3, <3>2, <3>3, <3>6 DEF Emit, cluster
  <2>4. CASE Read(r)
    <3>1. pc[r] = 1 /\ ~raised[r]
          BY <2>4, CallAt DEF Read
    <3>2. replicas \in Nodes
          BY <3>1, RoomForOne DEF Tried
    <3>3. node' \in [Requests -> Nodes]
          BY <2>4, <3>2 DEF Read
    <3>4. pc' \in [Requests -> 0 .. Ended]
          BY <2>4, <3>1, ReturnType DEF Read, DoAt
    <3>5. QED  BY <2>4, <3>3, <3>4 DEF Read, cluster, page
  <2>5. CASE Scale(r)
    <3>1. node[r] \in 0 .. MaxRequests
          BY DEF Nodes
    <3>2. replicas' \in 1 .. MaxRequests + 1
          BY <2>5, <3>1 DEF Scale
    <3>3. pc' \in [Requests -> 0 .. Ended]
          BY <2>5, CallAt, ReturnType DEF Scale
    <3>4. QED  BY <2>5, <3>2, <3>3 DEF Scale, page
  <2>6. CASE PodReady(r)
        BY <2>6, CallAt, ReturnType DEF PodReady, cluster, page
  <2>7. CASE PodIp(r)
        BY <2>7, CallAt, ReturnType DEF PodIp, cluster, page
  <2>8. CASE RingJoin(r)
        BY <2>8, CallAt, ReturnType DEF RingJoin, cluster, page
  <2>9. CASE Raise(r)
        BY <2>9 DEF Raise, Calling, page, Nodes
  <2>10. CASE EmitError(r)
        BY <2>10 DEF EmitError, Broadcast, cluster
  <2>11. CASE Finish(r)
    <3>1. flag' \in BOOLEAN
          BY <2>11, Zenon DEF Finish
    <3>2. pc' \in [Requests -> 0 .. Ended]
          BY <2>11 DEF Finish
    <3>3. raised' \in [Requests -> BOOLEAN] /\ step' \in [Requests -> Step]
          BY <2>11 DEF Finish, Step
    <3>4. QED  BY <2>11, <3>1, <3>2, <3>3 DEF Finish, cluster, page
  <2>12. QED
        BY <1>4, <2>1, <2>2, <2>3, <2>4, <2>5, <2>6, <2>7, <2>8, <2>9, <2>10,
           <2>11 DEF TaskStep, Call
<1>5. CASE Create
      BY <1>5 DEF Create, SetPods, backend, task, page
<1>6. CASE Delete
      BY <1>6 DEF Delete, SetPods, backend, task, page
<1>7. ASSUME NEW n \in Nodes, Join(n) PROVE TypeOK'
      BY <1>7 DEF Join, backend, task, page
<1>8. CASE UNCHANGED vars
      BY <1>8 DEF vars, backend, task, cluster, page
<1>9. QED  BY <1>1, <1>2, <1>3, <1>4, <1>5, <1>6, <1>7, <1>8 DEF Next

-----------------------------------------------------------------------------
(* The queue *)

LEMMA TailIs ==
    ASSUME NEW S, NEW q \in Seq(S), q # <<>>
    PROVE  /\ Tail(q) \in Seq(S) /\ Len(q) >= 1 /\ Head(q) = q[1]
           /\ Len(Tail(q)) = Len(q) - 1 /\ DOMAIN Tail(q) = 1 .. Len(q) - 1
           /\ \A i \in 1 .. Len(q) - 1 : Tail(q)[i] = q[i + 1]
OBVIOUS

LEMMA AppendIs ==
    ASSUME NEW S, NEW q \in Seq(S), NEW x
    PROVE  /\ Len(Append(q, x)) = Len(q) + 1 /\ DOMAIN Append(q, x) = 1 .. Len(q) + 1
           /\ \A i \in 1 .. Len(q) : Append(q, x)[i] = q[i]
           /\ Append(q, x)[Len(q) + 1] = x
OBVIOUS

LEMMA OnceTail ==
    ASSUME NEW S, NEW q \in Seq(S), q # <<>>, Once(q)
    PROVE  /\ Once(Tail(q))
           /\ \A i \in DOMAIN Tail(q) : Tail(q)[i][2] # Head(q)[2]
<1>1. \A i \in DOMAIN Tail(q) : i + 1 \in DOMAIN q /\ i + 1 # 1 /\ Tail(q)[i] = q[i + 1]
      BY TailIs
<1>2. 1 \in DOMAIN q /\ Head(q) = q[1]
      BY TailIs
<1>3. \A i, j \in DOMAIN Tail(q) : i + 1 = j + 1 => i = j
      BY TailIs
<1>4. QED  BY <1>1, <1>2, <1>3 DEF Once

LEMMA OnceAppend ==
    ASSUME NEW S, NEW q \in Seq(S), NEW x, Once(q), \A i \in DOMAIN q : q[i][2] # x[2]
    PROVE  Once(Append(q, x))
<1>1. \A i \in DOMAIN Append(q, x) :
          IF i = Len(q) + 1 THEN Append(q, x)[i] = x
                            ELSE i \in DOMAIN q /\ Append(q, x)[i] = q[i]
      BY AppendIs
<1>2. QED  BY <1>1 DEF Once

\* What waits in the queue is a request that was made.
LEMMA ReadyType ==
    ASSUME TypeOK
    PROVE  /\ DOMAIN ready = 1 .. Len(ready) /\ Len(ready) \in Nat
           /\ \A i \in DOMAIN ready : ready[i][2] \in Requests /\ ready[i][2] \in Nat
BY DEF TypeOK, Requests

\* A crash ends the tasks that run and begins none.
LEMMA CrashKeeps ==
    ASSUME Crash, NEW r \in Requests
    PROVE  (pc'[r] = 0 <=> pc[r] = 0) /\ ~raised'[r]
<1>1. pc'[r] = (IF Running(r) THEN Ended ELSE pc[r]) /\ ~raised'[r]
      BY DEF Crash
<1>2. Running(r) => pc[r] # 0
      BY ScriptLength DEF Running
<1>3. Ended # 0
      BY ScriptLength
<1>4. QED  BY <1>1, <1>2, <1>3

\* A request is numbered once, queued once and begun once.
LEMMA QueueStep == TypeOK /\ QueueOK /\ [Next]_vars => QueueOK'
<1> SUFFICES ASSUME TypeOK /\ QueueOK, [Next]_vars PROVE QueueOK'
    OBVIOUS
<1> USE DeployAssumption, ScriptLength
<1> USE DEF TypeOK, QueueOK
<1>1. CASE Arrive
  <2>1. /\ ready' = Append(ready, <<"request", asked + 1>>)
        /\ asked' = asked + 1 /\ asked \in Nat /\ UNCHANGED <<pc, raised>>
        BY <1>1 DEF Arrive, task
  <2>2. asked + 1 \in Requests
        BY <1>1 DEF Arrive, Requests
  <2>3. \A i \in DOMAIN ready' :
            IF i = Len(ready) + 1 THEN ready'[i] = <<"request", asked + 1>>
                                  ELSE i \in DOMAIN ready /\ ready'[i] = ready[i]
        BY <2>1, AppendIs, ReadyType
  <2>4. pc[asked + 1] = 0
        BY <2>1, <2>2
  <2>5. \A i \in DOMAIN ready' : ready'[i][2] <= asked' /\ pc'[ready'[i][2]] = 0
        BY <2>1, <2>3, <2>4, ReadyType
  <2>6. Once(ready')
    <3>1. \A i \in DOMAIN ready : ready[i][2] # asked + 1
          BY <2>1, ReadyType
    <3>2. ready \in Seq({"request", "task"} \X Requests) /\ <<"request", asked + 1>>[2] = asked + 1
          OBVIOUS
    <3>3. Once(Append(ready, <<"request", asked + 1>>))
          BY <3>1, <3>2, OnceAppend
    <3>4. QED  BY <2>1, <3>3
  <2>7. \A r \in Requests : r > asked' => pc'[r] = 0
        BY <2>1 DEF Requests
  <2>8. QED  BY <2>1, <2>5, <2>6, <2>7
<1>2. CASE Crash
  <2>1. ready' = <<>> /\ asked' = asked
        BY <1>2 DEF Crash
  <2>2. \A r \in Requests : (pc'[r] = 0 <=> pc[r] = 0) /\ ~raised'[r]
        BY <1>2, CrashKeeps
  <2>3. QED  BY <2>1, <2>2 DEF Once
<1>3. CASE Reload
      BY <1>3 DEF Reload, backend, task, cluster
<1>4. ASSUME NEW r \in Requests, Handle(r) \/ Run(r) \/ TaskStep(r) PROVE QueueOK'
  <2>1. CASE Handle(r)
    <3>1. /\ ready # <<>> /\ Head(ready) = <<"request", r>>
          /\ ready' \in {Tail(ready), Append(Tail(ready), <<"task", r>>)}
          /\ UNCHANGED <<pc, raised, asked>>
          BY <2>1 DEF Handle, Accept, task
    <3>2. \A i \in DOMAIN ready' :
              \/ i + 1 \in DOMAIN ready /\ ready'[i] = ready[i + 1]
              \/ i = Len(ready) /\ ready'[i] = <<"task", r>>
      <4>1. /\ Tail(ready) \in Seq({"request", "task"} \X Requests)
            /\ Len(Tail(ready)) = Len(ready) - 1
            /\ \A i \in DOMAIN Tail(ready) :
                  i + 1 \in DOMAIN ready /\ Tail(ready)[i] = ready[i + 1]
            BY <3>1, TailIs, ReadyType
      <4>2. CASE ready' = Tail(ready)
            BY <4>1, <4>2
      <4>3. CASE ready' = Append(Tail(ready), <<"task", r>>)
            BY <4>1, <4>3, AppendIs, ReadyType
      <4>4. QED  BY <3>1, <4>2, <4>3
    <3>3. 1 \in DOMAIN ready /\ ready[1] = <<"request", r>> /\ r <= asked /\ pc[r] = 0
          BY <3>1, TailIs, ReadyType
    <3>4. \A i \in DOMAIN ready : ready[i][2] <= asked /\ pc[ready[i][2]] = 0
          OBVIOUS
    <3>5. ASSUME NEW i \in DOMAIN ready'
          PROVE  ready'[i][2] <= asked' /\ pc'[ready'[i][2]] = 0
      <4>1. CASE i + 1 \in DOMAIN ready /\ ready'[i] = ready[i + 1]
            BY <3>1, <3>4, <4>1
      <4>2. CASE ready'[i] = <<"task", r>>
            BY <3>1, <3>3, <4>2
      <4>3. QED  BY <3>2, <4>1, <4>2
    <3>6. Once(ready')
      <4>1. /\ Tail(ready) \in Seq({"request", "task"} \X Requests)
            /\ Once(Tail(ready)) /\ \A i \in DOMAIN Tail(ready) : Tail(ready)[i][2] # r
            BY <3>1, TailIs, OnceTail
      <4>2. <<"task", r>>[2] = r
            OBVIOUS
      <4>3. Once(Append(Tail(ready), <<"task", r>>))
            BY <4>1, <4>2, OnceAppend
      <4>4. QED  BY <3>1, <4>1, <4>3
    <3>7. QED  BY <3>1, <3>5, <3>6
  <2>2. CASE Run(r)
    <3>1. /\ ready # <<>> /\ Head(ready) = <<"task", r>> /\ ready' = Tail(ready)
          /\ pc' = [pc EXCEPT ![r] = 1] /\ UNCHANGED <<raised, asked>>
          BY <2>2 DEF Run
    <3>2. \A i \in DOMAIN ready' : i + 1 \in DOMAIN ready /\ ready'[i] = ready[i + 1]
          BY <3>1, TailIs, ReadyType
    <3>3. Once(ready') /\ \A i \in DOMAIN ready' : ready'[i][2] # r
          BY <3>1, TailIs, OnceTail
    <3>4. QED  BY <3>1, <3>2, <3>3, ReadyType
  <2>3. CASE Emit(r)
    <3>1. pc[r] \in 1 .. 12 /\ pc' = [pc EXCEPT ![r] = @ + 1]
          BY <2>3 DEF Emit
    <3>2. pc'[r] = pc[r] + 1 /\ \A q \in Requests : q # r => pc'[q] = pc[q]
          BY <3>1
    <3>3. UNCHANGED <<ready, raised, asked>>
          BY <2>3 DEF Emit
    <3>4. \A n \in 1 .. 12 : n # 0 /\ n + 1 # 0
          OBVIOUS
    <3>5. pc[r] # 0 /\ pc'[r] # 0
          BY <3>1, <3>2, <3>4, Zenon
    <3>6. QED  BY <3>2, <3>3, <3>5, ReadyType
  <2>4. CASE Read(r)
        BY <2>4, CallAt DEF Read, Return, cluster, page
  <2>5. CASE Scale(r)
        BY <2>5, CallAt DEF Scale, Return, page
  <2>6. CASE PodReady(r)
        BY <2>6, CallAt DEF PodReady, Return, cluster, page
  <2>7. CASE PodIp(r)
        BY <2>7, CallAt DEF PodIp, Return, cluster, page
  <2>8. CASE RingJoin(r)
        BY <2>8, CallAt DEF RingJoin, Return, cluster, page
  <2>9. CASE Raise(r)
    <3>1. /\ pc[r] \in 1 .. 12 /\ UNCHANGED <<ready, pc, asked>>
          /\ \A q \in Requests : q # r => raised'[q] = raised[q]
          BY <2>9 DEF Raise, page
    <3>2. \A n \in 1 .. 12 : n # 0
          OBVIOUS
    <3>3. pc[r] # 0
          BY <3>1, <3>2, Zenon
    <3>4. QED  BY <3>1, <3>3, ReadyType
  <2>10. CASE EmitError(r)
        BY <2>10 DEF EmitError, cluster
  <2>11. CASE Finish(r)
        BY <2>11 DEF Finish, cluster, page
  <2>12. QED
        BY <1>4, <2>1, <2>2, <2>3, <2>4, <2>5, <2>6, <2>7, <2>8, <2>9, <2>10,
           <2>11 DEF TaskStep, Call
<1>5. CASE Create
      BY <1>5 DEF Create, SetPods, backend, task, page
<1>6. CASE Delete
      BY <1>6 DEF Delete, SetPods, backend, task, page
<1>7. ASSUME NEW n \in Nodes, Join(n) PROVE QueueOK'
      BY <1>7 DEF Join, backend, task, page
<1>8. CASE UNCHANGED vars
      BY <1>8 DEF vars, backend, task, cluster, page
<1>9. QED  BY <1>1, <1>2, <1>3, <1>4, <1>5, <1>6, <1>7, <1>8 DEF Next

\* A message that is followed by a call, or by another message of the same
\* step, is of the step of that call.
LEMMA SaidBefore ==
    ASSUME NEW i \in SayAt
    PROVE  /\ i \in Nat
           /\ i + 1 <= 3 => Script[i].step = "creating"
           /\ i + 1 = 6 => Script[i].step = "healthy"
           /\ i + 1 \in {9, 10} => Script[i].step = "joining_ring"
BY ScriptIs DEF SayAt, Say

\* current_step is moved on by the message before each wait.
LEMMA StepStep == TypeOK /\ QueueOK /\ StepOK /\ [Next]_vars => StepOK'
<1> SUFFICES ASSUME TypeOK /\ QueueOK /\ StepOK, [Next]_vars PROVE StepOK'
    OBVIOUS
<1> USE DeployAssumption, ScriptLength
<1> USE DEF TypeOK, QueueOK, StepOK
<1>1. CASE Arrive
      BY <1>1 DEF Arrive, task, cluster, page
<1>2. CASE Crash
      BY <1>2 DEF Crash, cluster, Running
<1>3. CASE Reload
      BY <1>3 DEF Reload, backend, task, cluster
<1>4. ASSUME NEW r \in Requests, Handle(r) \/ Run(r) \/ TaskStep(r) PROVE StepOK'
  <2>1. CASE Handle(r)
        BY <2>1 DEF Handle, task, cluster, page
  <2>2. CASE Run(r)
    <3>1. /\ ready # <<>> /\ Head(ready) = <<"task", r>>
          /\ pc' = [pc EXCEPT ![r] = 1] /\ UNCHANGED <<raised, step>>
          BY <2>2 DEF Run
    <3>2. 1 \in DOMAIN ready /\ ready[1] = <<"task", r>>
          BY <3>1, TailIs
    <3>3. pc[r] = 0 /\ ~raised[r] /\ step[r] = "creating"
          BY <3>2
    <3>4. pc'[r] = 1 /\ \A q \in Requests : q # r => pc'[q] = pc[q]
          BY <3>1
    <3>5. QED  BY <3>1, <3>3, <3>4
  <2>3. CASE Emit(r)
    <3>1. /\ pc[r] \in SayAt /\ UNCHANGED raised /\ ~raised[r]
          /\ pc' = [pc EXCEPT ![r] = pc[r] + 1]
          /\ step' = [step EXCEPT ![r] = Script[pc[r]].step]
          BY <2>3, DoPlaces DEF Emit
    <3>2. pc'[r] = pc[r] + 1 /\ step'[r] = Script[pc[r]].step /\ ~raised'[r]
          BY <3>1
    <3>3. \A q \in Requests : q # r => pc'[q] = pc[q] /\ step'[q] = step[q] /\ raised'[q] = raised[q]
          BY <3>1
    <3>4. /\ pc'[r] <= 3 => step'[r] = "creating"
          /\ pc'[r] = 6 => step'[r] = "healthy"
          /\ pc'[r] \in {9, 10} => step'[r] = "joining_ring"
          BY <3>1, <3>2, SaidBefore
    <3>5. ASSUME NEW q \in Requests
          PROVE  /\ pc'[q] <= 3 => step'[q] = "creating"
                 /\ pc'[q] = 6 => step'[q] = "healthy"
                 /\ pc'[q] \in {9, 10} => step'[q] = "joining_ring"
                 /\ raised'[q] /\ pc'[q] \in DOMAIN Script => pc'[q] \in DoAt
      <4>1. CASE q = r
            BY <3>2, <3>4, <4>1
      <4>2. CASE q # r
        <5>1. /\ pc[q] <= 3 => step[q] = "creating"
              /\ pc[q] = 6 => step[q] = "healthy"
              /\ pc[q] \in {9, 10} => step[q] = "joining_ring"
              /\ raised[q] /\ pc[q] \in DOMAIN Script => pc[q] \in DoAt
              OBVIOUS
        <5>2. pc'[q] = pc[q] /\ step'[q] = step[q] /\ (raised'[q] <=> raised[q])
              BY <3>3, <4>2
        <5>3. QED  BY <5>1, <5>2, Zenon
      <4>3. QED  BY <4>1, <4>2
    <3>6. QED  BY <3>5
  <2>4. CASE Read(r)
        BY <2>4, CallAt DEF Read, Return, cluster, page
  <2>5. CASE Scale(r)
        BY <2>5, CallAt DEF Scale, Return, page
  <2>6. CASE PodReady(r)
        BY <2>6, CallAt DEF PodReady, Return, cluster, page
  <2>7. CASE PodIp(r)
        BY <2>7, CallAt DEF PodIp, Return, cluster, page
  <2>8. CASE RingJoin(r)
        BY <2>8, CallAt DEF RingJoin, Return, cluster, page
  <2>9. CASE Raise(r)
    <3>1. /\ pc[r] \in DoAt /\ UNCHANGED <<pc, step>>
          /\ \A q \in Requests : q # r => raised'[q] = raised[q]
          BY <2>9, DoPlaces DEF Raise, page
    <3>2. QED  BY <3>1
  <2>10. CASE EmitError(r)
        BY <2>10 DEF EmitError, cluster
  <2>11. CASE Finish(r)
        BY <2>11 DEF Finish, cluster, page
  <2>12. QED
        BY <1>4, <2>1, <2>2, <2>3, <2>4, <2>5, <2>6, <2>7, <2>8, <2>9, <2>10,
           <2>11 DEF TaskStep, Call
<1>5. CASE Create
      BY <1>5 DEF Create, SetPods, backend, task, page
<1>6. CASE Delete
      BY <1>6 DEF Delete, SetPods, backend, task, page
<1>7. ASSUME NEW n \in Nodes, Join(n) PROVE StepOK'
      BY <1>7 DEF Join, backend, task, page
<1>8. CASE UNCHANGED vars
      BY <1>8 DEF vars, backend, task, cluster, page
<1>9. QED  BY <1>1, <1>2, <1>3, <1>4, <1>5, <1>6, <1>7, <1>8 DEF Next

-----------------------------------------------------------------------------
(* The count *)

\* Who has tried stays among those who have.
LEMMA TriedGrows == TypeOK /\ QueueOK /\ [Next]_vars => Tried \subseteq Tried'
<1> SUFFICES ASSUME TypeOK, QueueOK, [Next]_vars, NEW q \in Requests, pc[q] >= 4 \/ raised[q]
             PROVE  pc'[q] >= 4 \/ raised'[q]
    BY DEF Tried
<1> USE ScriptLength
<1>0. pc \in [Requests -> 0 .. 14] /\ raised \in [Requests -> BOOLEAN]
      BY DEF TypeOK
<1>1. CASE UNCHANGED <<pc, raised>>
      BY <1>1
<1>2. CASE Crash
  <2>1. pc[q] # 0
        BY DEF QueueOK
  <2>2. QED  BY <1>0, <1>2, <2>1 DEF Crash, Running
<1>3. ASSUME NEW r \in Requests, Run(r) PROVE pc'[q] >= 4 \/ raised'[q]
  <2>1. ready # <<>> /\ ready[1] = <<"task", r>> /\ 1 \in DOMAIN ready
        BY <1>3, TailIs DEF Run, TypeOK
  <2>2. pc[r] = 0 /\ ~raised[r]
        BY <2>1 DEF QueueOK
  <2>3. QED  BY <1>0, <1>3, <2>2 DEF Run
<1>4. ASSUME NEW r \in Requests, pc' = [pc EXCEPT ![r] = @ + 1], raised' = raised
      PROVE  pc'[q] >= 4 \/ raised'[q]
      BY <1>0, <1>4
<1>5. ASSUME NEW r \in Requests, Raise(r) PROVE pc'[q] >= 4 \/ raised'[q]
      BY <1>0, <1>5 DEF Raise
<1>6. ASSUME NEW r \in Requests, EmitError(r) \/ Finish(r) PROVE pc'[q] >= 4 \/ raised'[q]
      BY <1>0, <1>6 DEF EmitError, Finish
<1>7. QED
      BY <1>1, <1>2, <1>3, <1>4, <1>5, <1>6
      DEF Next, TaskStep, Call, vars, backend, task, cluster, page, Arrive, Reload, Handle,
          Emit, Read, Scale, PodReady, PodIp, RingJoin, Return,
          Create, Delete, SetPods, Join

\* A task that patches has not tried before and has tried afterwards.
LEMMA TriedByOne ==
    ASSUME TypeOK, Tried \subseteq Tried', NEW r \in Requests, r \notin Tried, r \in Tried'
    PROVE  Cardinality(Tried) + 1 <= Cardinality(Tried')
<1>1. IsFiniteSet(Requests) /\ Tried' \in SUBSET Requests
      BY TriedFinite DEF Tried
<1>2. IsFiniteSet(Tried') /\ Cardinality(Tried') \in Nat
      BY <1>1, FS_Subset, FS_CardinalityType
<1>3. Cardinality(Tried \cup {r}) = Cardinality(Tried) + 1
      BY TriedFinite, FS_AddElement
<1>4. Tried \cup {r} \in SUBSET Tried'
      OBVIOUS
<1>5. QED  BY <1>2, <1>3, <1>4, FS_Subset

LEMMA CountStep == TypeOK /\ QueueOK /\ CountOK /\ [Next]_vars => CountOK'
<1> SUFFICES ASSUME TypeOK, QueueOK, CountOK, [Next]_vars PROVE CountOK'
    OBVIOUS
<1> DEFINE n == Cardinality(Tried)
           m == Cardinality(Tried')
<1>1. Tried \subseteq Tried'
      BY TriedGrows
<1>2. n \in Nat /\ m \in Nat /\ n <= m
  <2>1. IsFiniteSet(Requests) /\ Tried' \in SUBSET Requests
        BY TriedFinite DEF Tried
  <2>2. IsFiniteSet(Tried') /\ Cardinality(Tried') \in Nat
        BY <2>1, FS_Subset, FS_CardinalityType
  <2>3. QED  BY <1>1, <2>2, TriedFinite, FS_Subset
<1>3. replicas \in Nat /\ \A r \in Requests : node[r] \in Nat
      BY DEF TypeOK, Nodes
<1>4. replicas <= 1 + n /\ \A r \in Requests \ Tried : node[r] <= 1 + n
      BY DEF CountOK
<1>5. SUFFICES /\ replicas' <= 1 + m
               /\ \A r \in Requests \ Tried' : node'[r] <= 1 + m
      BY DEF CountOK
<1> HIDE DEF n, m
<1>6. CASE UNCHANGED <<replicas, node>>
      BY <1>1, <1>2, <1>3, <1>4, <1>6
<1>7. ASSUME NEW r \in Requests, Read(r)
      PROVE  replicas' <= 1 + m /\ \A q \in Requests \ Tried' : node'[q] <= 1 + m
  <2>1. replicas' = replicas /\ node' = [node EXCEPT ![r] = replicas]
        BY <1>7 DEF Read, cluster
  <2>2. \A q \in Requests : node'[q] = IF q = r THEN replicas ELSE node[q]
        BY <2>1 DEF TypeOK
  <2>3. QED  BY <1>1, <1>2, <1>3, <1>4, <2>1, <2>2
<1>8. ASSUME NEW r \in Requests, replicas' = node[r] + 1, node' = node,
             r \notin Tried, r \in Tried'
      PROVE  replicas' <= 1 + m /\ \A q \in Requests \ Tried' : node'[q] <= 1 + m
  <2>1. n + 1 <= m
        BY <1>1, <1>8, TriedByOne DEF n, m
  <2>2. QED  BY <1>1, <1>2, <1>3, <1>4, <1>8, <2>1
<1>9. ASSUME NEW r \in Requests, Scale(r)
      PROVE  r \notin Tried /\ r \in Tried' /\ replicas' = node[r] + 1 /\ node' = node
  <2>1. pc[r] = 3 /\ ~raised[r] /\ pc'[r] = 4
        BY <1>9, CallAt DEF Scale, Return, TypeOK
  <2>2. QED  BY <1>9, <2>1 DEF Tried, Scale
<1>10. ASSUME NEW r \in Requests, Raise(r), replicas' # replicas
       PROVE  r \notin Tried /\ r \in Tried' /\ replicas' = node[r] + 1 /\ node' = node
  <2>1. Calling(r, "scale") /\ replicas' = node[r] + 1 /\ node' = node
        BY <1>10 DEF Raise
  <2>2. pc[r] = 3 /\ ~raised[r]
        BY <2>1, CallAt
  <2>3. raised'[r]
        BY <1>10 DEF Raise, TypeOK
  <2>4. QED  BY <2>1, <2>2, <2>3 DEF Tried
<1>11. QED
  <2>1. CASE \E r \in Requests : Read(r)
        BY <1>7, <2>1
  <2>2. CASE \E r \in Requests : Scale(r)
        BY <1>8, <1>9, <2>2
  <2>3. CASE (\E r \in Requests : Raise(r)) /\ replicas' # replicas
        BY <1>8, <1>10, <2>3
  <2>4. QED
        BY <1>6, <2>1, <2>2, <2>3
        DEF Next, TaskStep, Call, vars, backend, task, cluster, page, Arrive, Crash, Reload,
            Handle, Run, Emit, PodReady, PodIp, RingJoin, Raise, EmitError, Finish,
            Create, Delete, SetPods, Join

\* Every reachable state satisfies the inductive invariant.
THEOREM Invariant == Spec => []IInv
<1>1. IInv /\ [Next]_vars => IInv'
      BY TypeStep, QueueStep, CountStep, StepStep DEF IInv
<1>2. QED  BY InitInvariant, <1>1, PTL DEF Spec

\* Types, and with them the number of nodes: no number of requests, at once or
\* one after the other, makes the StatefulSet larger than one more than the
\* requests there were.
THEOREM TypeHolds == Spec => []TypeOK
<1>1. IInv => TypeOK
      BY DEF IInv
<1>2. QED  BY Invariant, <1>1, PTL

\* The page's red box is the step whose call raised: current_step is where the
\* task is (cassandra_nodes.py:319), also when several deploys interleave.
THEOREM ErrorHolds == Spec => ErrorNamesStep
<1> DEFINE Names == \A r \in Requests : pc[r] \in DOMAIN Script /\ raised[r] /\ pc'[r] = Last
                       /\ connected => shown'.step = StepOf(Script[pc[r]].call)
<1>1. IInv /\ [Next]_vars => [Names]_vars
  <2> SUFFICES ASSUME IInv, Next, NEW r \in Requests, pc[r] \in DOMAIN Script, raised[r],
                      pc'[r] = Last, connected
               PROVE  shown'.step = StepOf(Script[pc[r]].call)
      OBVIOUS
  <2>0. /\ pc \in [Requests -> 0 .. 14] /\ pc[r] \in DoAt
        /\ step[r] = StepOf(Script[pc[r]].call)
        /\ pc[r] # Last /\ pc[r] + 1 # Last
    <3>1. pc[r] \in DoAt
          BY DEF IInv, StepOK
    <3>2. step[r] = StepOf(Script[pc[r]].call)
          BY <3>1, ScriptIs DEF IInv, StepOK, StepOf, Do, DoAt
    <3>3. QED  BY <3>1, <3>2, ScriptLength DEF IInv, TypeOK, DoAt
  <2>1. EmitError(r)
    <3>1. ASSUME NEW q \in Requests, Emit(q) \/ Call(q) PROVE FALSE
      <4>1. q # r
            BY <3>1 DEF Emit, Call, Read, Scale, PodReady, PodIp, RingJoin, Calling
      <4>2. pc'[r] = pc[r]
            BY <2>0, <3>1, <4>1 DEF Emit, Call, Read, Scale, PodReady, PodIp, RingJoin, Return
      <4>3. QED  BY <2>0, <4>2
    <3>2. ASSUME NEW q \in Requests, Run(q) \/ Finish(q) PROVE FALSE
          BY <2>0, <3>2, ScriptLength DEF Run, Finish
    <3>3. ASSUME NEW q \in Requests, EmitError(q), q # r PROVE FALSE
          BY <2>0, <3>3 DEF EmitError
    <3>4. ~Crash
          BY <2>0, ScriptLength DEF Crash, Running
    <3>5. pc' # pc
          BY <2>0
    <3>6. QED
          BY <3>1, <3>2, <3>3, <3>4, <3>5
          DEF Next, TaskStep, backend, task, Arrive, Reload, Handle, Raise,
              Create, Delete, SetPods, Join
  <2>2. shown' = [step |-> step[r], status |-> "error", node |-> node[r]]
        BY <2>1 DEF EmitError, Broadcast
  <2>3. QED  BY <2>0, <2>2
<1>2. QED  BY Invariant, <1>1, PTL DEF Spec, ErrorNamesStep

-----------------------------------------------------------------------------
(* Which deploys run together *)

\* A task that goes on is still running, and nobody else is affected.
LEMMA GoesOn ==
    ASSUME TypeOK, NEW r \in Requests, pc[r] \in 1 .. 12,
           pc' = [pc EXCEPT ![r] = @ + 1] \/ pc' = [pc EXCEPT ![r] = Last]
    PROVE  \A q \in Requests : Running(q)' <=> Running(q)
<1> SUFFICES ASSUME NEW q \in Requests PROVE pc'[q] \in 1 .. 13 <=> pc[q] \in 1 .. 13
    BY ScriptLength DEF Running
<1>1. pc \in [Requests -> 0 .. Ended]
      BY DEF TypeOK
<1>2. pc[r] + 1 \in 1 .. 13 /\ Last \in 1 .. 13
      BY ScriptLength
<1>3. CASE q = r
  <2>1. pc'[r] \in {pc[r] + 1, Last}
        BY <1>1
  <2>2. QED  BY <1>2, <1>3, <2>1
<1>4. CASE q # r
  <2>1. pc'[q] = pc[q]
        BY <1>1, <1>4
  <2>2. QED  BY <2>1
<1>5. QED  BY <1>3, <1>4

LEMMA HeadIs ==
    ASSUME TypeOK, ready # <<>>
    PROVE  /\ Len(ready) \in Nat /\ Len(ready) >= 1
           /\ 1 \in DOMAIN ready /\ Head(ready) = ready[1]
           /\ Tail(ready) \in Seq({"request", "task"} \X Requests)
           /\ Len(Tail(ready)) = Len(ready) - 1
           /\ DOMAIN Tail(ready) = 1 .. Len(ready) - 1
           /\ \A i \in 1 .. Len(ready) - 1 : Tail(ready)[i] = ready[i + 1]
BY TailIs DEF TypeOK


\* A step of the queue leaves who waits, but for the request it is about.
LEMMA QueuedAfter ==
    ASSUME TypeOK, NEW r \in Requests, NEW s \in Requests, Queued(s)',
           ready # <<>>,
           \/ ready' = Tail(ready)
           \/ ready' = Append(Tail(ready), <<"task", r>>)
    PROVE  Queued(s) \/ (s = r /\ ready' # Tail(ready))
<1>1. PICK i \in DOMAIN ready' : ready'[i] = <<"task", s>>
      BY DEF Queued
<1>2. \A j \in DOMAIN Tail(ready) : j + 1 \in DOMAIN ready /\ Tail(ready)[j] = ready[j + 1]
      BY HeadIs DEF TypeOK
<1>3. ASSUME i \in DOMAIN Tail(ready), Tail(ready)[i] = <<"task", s>> PROVE Queued(s)
      BY <1>2, <1>3 DEF Queued
<1>4. CASE ready' = Tail(ready)
      BY <1>1, <1>3, <1>4
<1>5. CASE ready' = Append(Tail(ready), <<"task", r>>)
  <2>1. /\ DOMAIN ready' = 1 .. Len(Tail(ready)) + 1
        /\ \A j \in 1 .. Len(Tail(ready)) : ready'[j] = Tail(ready)[j]
        /\ ready'[Len(Tail(ready)) + 1] = <<"task", r>>
        /\ Len(Tail(ready)) \in Nat /\ DOMAIN Tail(ready) = 1 .. Len(Tail(ready))
        BY <1>5, AppendIs, HeadIs
  <2>2. CASE i = Len(Tail(ready)) + 1
    <3>1. <<"task", s>> = <<"task", r>>
          BY <1>1, <2>1, <2>2
    <3>2. s = r
          BY <3>1
    <3>3. Len(Tail(ready)) + 1 \in DOMAIN ready' \ DOMAIN Tail(ready)
          BY <2>1
    <3>4. ready' # Tail(ready)
          BY <3>3
    <3>5. QED  BY <3>2, <3>4
  <2>3. CASE i \in DOMAIN Tail(ready)
        BY <1>1, <1>3, <2>1, <2>3
  <2>4. QED  BY <1>1, <2>1, <2>2, <2>3
<1>6. QED  BY <1>4, <1>5

LEMMA RaceInit == Init => RaceOK
<1> SUFFICES ASSUME Init PROVE RaceOK
    OBVIOUS
<1>1. ready = <<>> /\ \A r \in Requests : ~Running(r)
      BY ScriptLength DEF Init, Running
<1>2. \A r \in Requests : ~Queued(r)
      BY <1>1 DEF Queued
<1>3. QED  BY <1>1, <1>2 DEF RaceOK, OneDeploy

\* A request let in joins the rivals it may come to run beside; the flag goes
\* down under a running deploy only if that deploy has a rival.
LEMMA RaceStep ==
    ASSUME TypeOK, QueueOK, QueueOK', RaceOK, [Next]_vars
    PROVE  RaceOK'
<1>1. CASE UNCHANGED <<ready, flag, pc, raced>>
      BY <1>1 DEF RaceOK, OneDeploy, Running, Queued
<1>2. CASE Arrive
  <2>1. ready' = Append(ready, <<"request", asked + 1>>) /\ UNCHANGED <<flag, pc, raced>>
        BY <1>2 DEF Arrive, task
  <2>2. \A i \in DOMAIN ready' :
            IF i = Len(ready) + 1 THEN ready'[i] = <<"request", asked + 1>>
                                  ELSE i \in DOMAIN ready /\ ready'[i] = ready[i]
        BY <2>1, AppendIs, ReadyType DEF TypeOK
  <2>3. \A s \in Requests : Queued(s)' => Queued(s)
        BY <2>2 DEF Queued
  <2>4. \A s \in Requests : Running(s)' <=> Running(s)
        BY <2>1 DEF Running
  <2>5. QED  BY <2>1, <2>3, <2>4 DEF RaceOK, OneDeploy
<1>3. ASSUME NEW r \in Requests, Handle(r) PROVE RaceOK'
  <2>1. ready # <<>> /\ Head(ready) = <<"request", r>> /\ UNCHANGED <<flag, pc>>
        BY <1>3 DEF Handle, task
  <2>2. \A s \in Requests : Running(s)' <=> Running(s)
        BY <2>1 DEF Running
  <2>3. CASE flag
    <3>1. ready' = Tail(ready) /\ raced' = raced
          BY <1>3, <2>3 DEF Handle
    <3>2. \A s \in Requests : Queued(s)' => Queued(s)
          BY <2>1, <3>1, QueuedAfter
    <3>3. QED  BY <2>1, <2>2, <3>1, <3>2 DEF RaceOK, OneDeploy
  <2>4. CASE ~flag
    <3>1. /\ ready' = Append(Tail(ready), <<"task", r>>)
          /\ raced' = IF Rivals = {} THEN raced ELSE raced \cup Rivals \cup {r}
          BY <1>3, <2>4 DEF Handle, Accept
    <3>2. \A s \in Requests : Queued(s)' => Queued(s) \/ s = r
          BY <2>1, <3>1, QueuedAfter
    <3>3. \A s \in Requests : Queued(s) \/ Running(s) => s \in Rivals
          BY <2>4 DEF Rivals, Queued, RaceOK
    <3>4. raced \subseteq raced'
          BY <3>1
    <3>5. \A s \in Rivals : {r, s} \subseteq raced'
          BY <3>1
    <3>6. ASSUME NEW p \in Requests, NEW s \in Requests, Queued(s)',
                 Running(p)' \/ Queued(p)'
          PROVE  p = s \/ {p, s} \subseteq raced'
      <4>1. CASE s = r
            BY <2>2, <3>2, <3>3, <3>5, <3>6, <4>1
      <4>2. CASE p = r
            BY <3>2, <3>3, <3>5, <3>6, <4>2
      <4>3. CASE s # r /\ p # r
            BY <2>2, <3>2, <3>4, <3>6, <4>3 DEF RaceOK
      <4>4. QED  BY <4>1, <4>2, <4>3
    <3>7. \A s \in Requests : Running(s)' => flag' \/ s \in raced'
          BY <2>1, <2>2, <3>4 DEF RaceOK
    <3>8. OneDeploy'
          BY <2>2, <3>4 DEF RaceOK, OneDeploy
    <3>9. QED  BY <3>6, <3>7, <3>8 DEF RaceOK
  <2>5. QED  BY <2>3, <2>4
<1>4. ASSUME NEW r \in Requests, Run(r) PROVE RaceOK'
  <2>1. /\ ready # <<>> /\ Head(ready) = <<"task", r>> /\ ready' = Tail(ready)
        /\ flag' = TRUE /\ pc' = [pc EXCEPT ![r] = 1] /\ raced' = raced
        BY <1>4 DEF Run
  <2>2. Queued(r)
        BY <2>1, HeadIs DEF Queued
  <2>3. \A s \in Requests : Queued(s)' => Queued(s) /\ s # r
    <3>1. SUFFICES ASSUME NEW s \in Requests, Queued(s)' PROVE Queued(s) /\ s # r
          OBVIOUS
    <3>2. pc'[s] = 0
          BY <3>1 DEF QueueOK, Queued
    <3>3. pc'[r] = 1
          BY <2>1 DEF TypeOK
    <3>4. QED  BY <2>1, <3>1, <3>2, <3>3, QueuedAfter
  <2>4. \A s \in Requests : Running(s)' <=> Running(s) \/ s = r
        BY <2>1, ScriptLength DEF Running, TypeOK
  <2>5. OneDeploy'
        BY <2>1, <2>2, <2>4 DEF RaceOK, OneDeploy
  <2>6. ASSUME NEW p \in Requests, NEW s \in Requests, Queued(s)',
               Running(p)' \/ Queued(p)'
        PROVE  p = s \/ {p, s} \subseteq raced'
        BY <2>1, <2>2, <2>3, <2>4, <2>6 DEF RaceOK
  <2>7. QED  BY <2>1, <2>5, <2>6 DEF RaceOK
<1>5. ASSUME NEW r \in Requests, pc[r] \in 1 .. 12, UNCHANGED <<ready, flag, raced>>,
             pc' = [pc EXCEPT ![r] = @ + 1] \/ pc' = [pc EXCEPT ![r] = Last]
      PROVE  RaceOK'
  <2>1. \A s \in Requests : Queued(s)' <=> Queued(s)
        BY <1>5 DEF Queued
  <2>2. QED  BY <1>5, <2>1, GoesOn DEF RaceOK, OneDeploy
<1>6. ASSUME NEW r \in Requests, Finish(r) PROVE RaceOK'
  <2>1. pc[r] = Last /\ UNCHANGED <<ready, raced>> /\ pc' = [pc EXCEPT ![r] = Ended]
        BY <1>6 DEF Finish
  <2>2. Running(r)
        BY <2>1, ScriptLength DEF Running
  <2>3. \A s \in Requests : Running(s)' <=> Running(s) /\ s # r
        BY <2>1, ScriptLength DEF Running, TypeOK
  <2>4. \A s \in Requests : Running(s)' => s \in raced'
        BY <2>1, <2>2, <2>3 DEF RaceOK, OneDeploy
  <2>5. \A s \in Requests : Queued(s)' <=> Queued(s)
        BY <2>1 DEF Queued
  <2>6. QED  BY <2>1, <2>3, <2>4, <2>5 DEF RaceOK, OneDeploy
<1>7. CASE Crash
  <2>1. ready' = <<>> /\ \A q \in Requests : ~Running(q)'
        BY <1>7, ScriptLength DEF Crash, Running
  <2>2. \A q \in Requests : ~Queued(q)'
        BY <2>1 DEF Queued
  <2>3. QED  BY <2>1, <2>2 DEF RaceOK, OneDeploy
<1>8. ASSUME NEW r \in Requests, Emit(r) \/ Call(r) \/ EmitError(r) PROVE RaceOK'
  <2>1. pc[r] \in 1 .. 12
        BY <1>8, ScriptLength
        DEF Emit, Call, Read, Scale, PodReady, PodIp, RingJoin, Calling, EmitError
  <2>2. /\ UNCHANGED <<ready, flag, raced>>
        /\ pc' = [pc EXCEPT ![r] = @ + 1] \/ pc' = [pc EXCEPT ![r] = Last]
        BY <1>8 DEF Emit, Call, Read, Scale, PodReady, PodIp, RingJoin, Return, EmitError
  <2>3. QED  BY <1>5, <2>1, <2>2
<1>9. QED
      BY <1>1, <1>2, <1>3, <1>4, <1>6, <1>7, <1>8
      DEF Next, TaskStep, vars, backend, task, Reload, Raise,
          Create, Delete, SetPods, Join

-----------------------------------------------------------------------------
(* The nodes and the display *)

LEMMA NodeInit == Init => NodeOK /\ ShownOK
BY ScriptLength DEF Init, NodeOK, ShownOK, Running

\* Who joined the ring stays in it; replicas change by a patch only.
LEMMA ClusterStep ==
    ASSUME TypeOK, [Next]_vars
    PROVE  /\ ring \subseteq ring'
           /\ \/ replicas' = replicas
              \/ \E r \in Requests :
                    /\ pc[r] = 3 /\ ~raised[r] /\ replicas' = node[r] + 1
                    /\ Scale(r) \/ Raise(r)
<1> DEFINE Goal == /\ ring \subseteq ring'
                   /\ \/ replicas' = replicas
                      \/ \E r \in Requests :
                            /\ pc[r] = 3 /\ ~raised[r] /\ replicas' = node[r] + 1
                            /\ Scale(r) \/ Raise(r)
<1>1. ASSUME NEW r \in Requests, Handle(r) \/ Run(r) \/ TaskStep(r) PROVE Goal
  <2>1. CASE Scale(r)
        BY <2>1, CallAt DEF Scale
  <2>2. CASE Raise(r)
        BY <2>2, CallAt DEF Raise
  <2>3. CASE Handle(r) \/ Run(r) \/ Emit(r) \/ EmitError(r) \/ Finish(r)
        BY <2>3 DEF Handle, Run, Emit, EmitError, Finish, cluster
  <2>4. CASE Read(r) \/ PodReady(r) \/ PodIp(r) \/ RingJoin(r)
        BY <2>4 DEF Read, PodReady, PodIp, RingJoin, cluster
  <2>5. QED  BY <1>1, <2>1, <2>2, <2>3, <2>4 DEF TaskStep, Call
<1>2. CASE Create \/ Delete
      BY <1>2 DEF Create, Delete, SetPods
<1>3. ASSUME NEW n \in Nodes, Join(n) PROVE Goal
      BY <1>3 DEF Join
<1>4. CASE Arrive \/ Crash \/ Reload \/ UNCHANGED vars
      BY <1>4 DEF Arrive, Crash, Reload, vars, cluster
<1>5. QED  BY <1>1, <1>2, <1>3, <1>4 DEF Next

\* Only those whose rivals are known have rivals.
LEMMA AloneIs ==
    ASSUME RaceOK, NEW q \in Requests, Running(q), q \notin raced,
           NEW r \in Requests, Running(r)
    PROVE  r = q
BY DEF RaceOK, OneDeploy

LEMMA RacedGrows == ASSUME [Next]_vars PROVE raced \subseteq raced'
BY DEF Next, TaskStep, Call, vars, Arrive, Crash, Reload, Handle, Accept, Run, Emit,
       Read, Scale, PodReady, PodIp, RingJoin, Raise, EmitError, Finish,
       Create, Delete, SetPods, Join

\* The script puts the node where the messages say it is.
LEMMA NodeStep ==
    ASSUME TypeOK, RaceOK, NodeOK, QueueOK, [Next]_vars
    PROVE  NodeOK'
<1> DEFINE Placed(q) ==
              /\ pc[q] <= 1 => node[q] = 0
              /\ pc[q] \in 2 .. 12 => node[q] >= 1
              /\ pc[q] \in 1 .. 13 /\ ~raised[q] /\ pc[q] >= 11 => node[q] \in ring
              /\ pc[q] \in 1 .. 13 /\ ~raised[q] /\ q \notin raced =>
                    /\ pc[q] \in {2, 3} => node[q] = replicas
                    /\ pc[q] >= 4 => node[q] < replicas
<1>0. \A q \in Requests : Running(q) <=> pc[q] \in 1 .. 13
      BY ScriptLength DEF Running
<1>1. \A q \in Requests : (Running(q) <=> pc[q] \in 1 .. 13)'
      BY ScriptLength DEF Running
<1> SUFFICES ASSUME NEW q \in Requests PROVE Placed(q)'
    BY <1>1 DEF NodeOK
<1>2. Placed(q)
      BY <1>0 DEF NodeOK
<1>3. /\ pc \in [Requests -> 0 .. 14] /\ raised \in [Requests -> BOOLEAN]
      /\ node \in [Requests -> Nat] /\ replicas \in Nat /\ replicas >= 1
      BY ScriptLength, DeployAssumption DEF TypeOK, Nodes
<1>4. ring \subseteq ring' /\ raced \subseteq raced'
      BY ClusterStep, RacedGrows
<1>5. ASSUME pc'[q] = pc[q], raised'[q] = raised[q], node'[q] = node[q], replicas' = replicas
      PROVE  Placed(q)'
      BY <1>2, <1>3, <1>4, <1>5
<1>6. ASSUME NEW r \in Requests, r # q, TaskStep(r) PROVE Placed(q)'
  <2>1. pc[r] \in 1 .. 13
        BY <1>6, ScriptLength
        DEF TaskStep, Call, Emit, Read, Scale, PodReady, PodIp, RingJoin, Calling,
            Raise, EmitError, Finish
  <2>2. pc'[q] = pc[q]
        BY <1>3, <1>6
        DEF TaskStep, Call, Emit, Read, Scale, PodReady, PodIp, RingJoin, Return,
            Raise, EmitError, Finish
  <2>3. raised'[q] = raised[q] /\ node'[q] = node[q]
        BY <1>3, <1>6
        DEF TaskStep, Call, Emit, Read, Scale, PodReady, PodIp, RingJoin,
            Raise, EmitError, Finish
  <2>4. pc[q] \in 1 .. 13 => q \in raced
        BY <1>0, <1>6, <2>1, AloneIs
  <2>5. QED  BY <1>2, <1>3, <1>4, <2>2, <2>3, <2>4
<1>7. CASE Emit(q)
  <2>1. /\ pc[q] \in SayAt /\ ~raised[q] /\ pc'[q] = pc[q] + 1
        /\ UNCHANGED <<raised, node, replicas, ring, raced>>
        BY <1>3, <1>7, DoPlaces DEF Emit, cluster
  <2>2. QED  BY <1>2, <1>3, <2>1 DEF SayAt
<1>8. CASE Read(q)
  <2>1. pc[q] = 1 /\ pc'[q] = 2 /\ node'[q] = replicas /\ replicas' = replicas
        BY <1>3, <1>8, CallAt DEF Read, Return, cluster
  <2>2. QED  BY <1>3, <2>1
<1>9. CASE Scale(q)
  <2>1. pc[q] = 3 /\ pc'[q] = 4 /\ node'[q] = node[q] /\ replicas' = node[q] + 1
        BY <1>3, <1>9, CallAt DEF Scale, Return
  <2>2. QED  BY <1>2, <1>3, <2>1
<1>10. CASE PodReady(q) \/ PodIp(q)
  <2>1. /\ pc[q] \in {6, 9} /\ ~raised[q] /\ pc'[q] = pc[q] + 1
        /\ UNCHANGED <<raised, node, replicas, ring, raced>>
        BY <1>3, <1>10, CallAt DEF PodReady, PodIp, Return, cluster
  <2>2. QED  BY <1>2, <1>3, <2>1
<1>11. CASE RingJoin(q)
  <2>1. /\ pc[q] = 10 /\ ~raised[q] /\ pc'[q] = 11 /\ node[q] \in ring
        /\ UNCHANGED <<raised, node, replicas, ring, raced>>
        BY <1>3, <1>11, CallAt DEF RingJoin, Return, cluster
  <2>2. QED  BY <1>2, <1>3, <2>1
<1>12. CASE Raise(q)
  <2>1. raised'[q] /\ pc' = pc /\ node' = node
        BY <1>3, <1>12 DEF Raise
  <2>2. QED  BY <1>2, <2>1
<1>13. CASE EmitError(q)
  <2>1. pc'[q] = 13 /\ raised'[q]
        BY <1>3, <1>13, ScriptLength DEF EmitError
  <2>2. QED  BY <2>1
<1>14. CASE Finish(q)
  <2>1. pc'[q] = 14
        BY <1>3, <1>14, ScriptLength DEF Finish
  <2>2. QED  BY <2>1
<1>15. ASSUME NEW r \in Requests, Run(r) PROVE Placed(q)'
  <2>1. /\ pc' = [pc EXCEPT ![r] = 1] /\ UNCHANGED <<raised, node, replicas>>
        /\ ready # <<>> /\ Head(ready) = <<"task", r>>
        BY <1>15 DEF Run, cluster
  <2>2. pc[r] = 0
        BY <2>1, HeadIs DEF QueueOK
  <2>3. CASE q = r
    <3>1. pc'[q] = 1 /\ node'[q] = 0
          BY <1>2, <1>3, <2>1, <2>2, <2>3
    <3>2. QED  BY <3>1
  <2>4. CASE q # r
        BY <1>3, <1>5, <2>1, <2>4
  <2>5. QED  BY <2>3, <2>4
<1>16. CASE Crash
  <2>1. pc'[q] = (IF pc[q] \in 1 .. 13 THEN 14 ELSE pc[q]) /\ node' = node
        BY <1>0, <1>3, <1>16, ScriptLength DEF Crash
  <2>2. QED  BY <1>2, <1>3, <2>1
<1>17. CASE UNCHANGED <<pc, raised, node, replicas>>
      BY <1>5, <1>17
<1>18. ASSUME NEW r \in Requests, TaskStep(r) PROVE Placed(q)'
  <2>1. CASE r = q
        BY <1>7, <1>8, <1>9, <1>10, <1>11, <1>12, <1>13, <1>14, <1>18, <2>1 DEF TaskStep, Call
  <2>2. QED  BY <1>6, <1>18, <2>1
<1>19. QED
      BY <1>15, <1>16, <1>17, <1>18
      DEF Next, vars, backend, task, cluster, page, Arrive, Reload, Handle,
          Create, Delete, SetPods, Join

\* The page is told "done" by a task that has seen its node join, and only a
\* rival of that task can patch the replicas with an older number.
LEMMA ShownStep ==
    ASSUME TypeOK, StepOK, RaceOK, NodeOK, ShownOK, [Next]_vars
    PROVE  ShownOK'
<1> SUFFICES ASSUME shown' # Nothing, shown'.step = "done"
             PROVE  /\ shown'.node \in ring' /\ shown'.node >= 1
                    /\ (\A r \in raced' : node'[r] # shown'.node) =>
                          /\ shown'.node < replicas'
                          /\ \A r \in Requests : pc'[r] \in {2, 3} => shown'.node <= node'[r]
    BY DEF ShownOK
<1>0. /\ pc \in [Requests -> 0 .. 14] /\ raised \in [Requests -> BOOLEAN]
      /\ node \in [Requests -> Nat] /\ replicas \in Nat /\ raced \subseteq Requests
      BY ScriptLength, DeployAssumption DEF TypeOK, Nodes
<1>1. ring \subseteq ring' /\ raced \subseteq raced'
      BY ClusterStep, RacedGrows
<1>2. CASE shown' = shown
  <2> DEFINE n == shown.node
  <2>1. /\ n \in ring /\ n >= 1 /\ n \in Nat
        /\ (\A r \in raced : node[r] # n) =>
              n < replicas /\ \A r \in Requests : pc[r] \in {2, 3} => n <= node[r]
        BY <1>2 DEF ShownOK, TypeOK, Nodes
  <2> SUFFICES ASSUME \A r \in raced' : node'[r] # n
               PROVE  /\ n < replicas'
                      /\ \A r \in Requests : pc'[r] \in {2, 3} => n <= node'[r]
      BY <1>1, <1>2, <2>1
  <2> HIDE DEF n
  \* Nobody who has raced has left that node for another.
  <2>2. n < replicas /\ \A r \in Requests : pc[r] \in {2, 3} => n <= node[r]
    <3>1. ASSUME NEW r \in raced, node[r] = n PROVE FALSE
      <4>1. node'[r] # node[r]
            BY <1>1, <3>1
      <4>2. Read(r)
        <5>1. ASSUME NEW s \in Requests, Read(s) PROVE s = r
              BY <1>0, <4>1, <5>1 DEF Read
        <5>2. QED
              BY <4>1, <5>1
              DEF Next, TaskStep, Call, vars, backend, task, Arrive, Crash, Reload, Handle,
                  Run, Emit, Scale, PodReady, PodIp, RingJoin, Raise, EmitError, Finish,
                  Create, Delete, SetPods, Join
      <4>3. node[r] = 0
            BY <1>0, <4>2, CallAt DEF Read, NodeOK
      <4>4. QED  BY <2>1, <3>1, <4>3
    <3>2. QED  BY <2>1, <3>1
  <2>3. n < replicas'
    <3>1. CASE replicas' = replicas
          BY <2>2, <3>1
    <3>2. ASSUME NEW r \in Requests, pc[r] = 3, replicas' = node[r] + 1 PROVE n < replicas'
          BY <1>0, <2>1, <2>2, <3>2
    <3>3. QED  BY <3>1, <3>2, ClusterStep
  <2>4. ASSUME NEW r \in Requests, pc'[r] \in {2, 3} PROVE n <= node'[r]
    <3>1. CASE pc'[r] = pc[r] /\ node'[r] = node[r]
          BY <2>2, <2>4, <3>1
    <3>2. CASE Read(r)
      <4>1. node'[r] = replicas
            BY <1>0, <3>2 DEF Read
      <4>2. QED  BY <1>0, <2>1, <2>2, <4>1
    <3>3. CASE Emit(r)
      <4>1. pc[r] \in SayAt /\ pc'[r] = pc[r] + 1 /\ node' = node
            BY <1>0, <3>3, DoPlaces DEF Emit
      <4>2. pc[r] = 2
            BY <2>4, <4>1 DEF SayAt
      <4>3. QED  BY <2>2, <4>1, <4>2
    <3>4. CASE Scale(r) \/ PodReady(r) \/ PodIp(r) \/ RingJoin(r)
      <4>1. pc[r] \in {3, 6, 9, 10} /\ pc'[r] = pc[r] + 1
            BY <1>0, <3>4, CallAt DEF Scale, PodReady, PodIp, RingJoin, Return
      <4>2. QED  BY <2>4, <4>1
    <3>5. CASE Raise(r)
          BY <3>1, <3>5 DEF Raise
    <3>6. CASE EmitError(r) \/ Finish(r) \/ Run(r)
      <4>1. pc'[r] \in {1, 13, 14}
            BY <1>0, <3>6, ScriptLength DEF EmitError, Finish, Run
      <4>2. QED  BY <2>4, <4>1
    <3>7. ASSUME NEW s \in Requests, s # r, TaskStep(s) \/ Run(s) PROVE n <= node'[r]
      <4>1. pc'[r] = pc[r]
            BY <1>0, <3>7
            DEF Run, TaskStep, Call, Emit, Read, Scale, PodReady, PodIp, RingJoin, Return,
                Raise, EmitError, Finish
      <4>2. node'[r] = node[r]
            BY <1>0, <3>7
            DEF Run, TaskStep, Call, Emit, Read, Scale, PodReady, PodIp, RingJoin,
                Raise, EmitError, Finish
      <4>3. QED  BY <3>1, <4>1, <4>2
    <3>8. CASE Crash
      <4>1. pc'[r] = (IF Running(r) THEN 14 ELSE pc[r]) /\ node' = node
            BY <3>8, ScriptLength DEF Crash
      <4>2. QED  BY <2>4, <3>1, <4>1
    <3>9. CASE UNCHANGED <<pc, node>>
          BY <3>1, <3>9
    <3>10. ASSUME NEW s \in Requests, TaskStep(s) \/ Run(s) PROVE n <= node'[r]
      <4>1. CASE s = r
            BY <3>2, <3>3, <3>4, <3>5, <3>6, <3>10, <4>1 DEF TaskStep, Call
      <4>2. QED  BY <3>7, <3>10, <4>1
    <3>11. QED
          BY <3>8, <3>9, <3>10
          DEF Next, vars, backend, task, Arrive, Reload, Handle, Create, Delete, SetPods, Join
  <2>5. QED  BY <2>3, <2>4
<1>3. ASSUME NEW r \in Requests, Emit(r), shown' # shown
      PROVE  /\ shown'.node \in ring' /\ shown'.node >= 1
             /\ (\A q \in raced' : node'[q] # shown'.node) =>
                   /\ shown'.node < replicas'
                   /\ \A q \in Requests : pc'[q] \in {2, 3} => shown'.node <= node'[q]
  <2>1. /\ shown' = [step |-> Script[pc[r]].step, status |-> Script[pc[r]].status,
                     node |-> node[r]]
        /\ pc[r] \in SayAt /\ ~raised[r] /\ pc' = [pc EXCEPT ![r] = @ + 1]
        /\ UNCHANGED <<node, replicas, ring, raced>>
        BY <1>3, DoPlaces DEF Emit, Broadcast, cluster
  <2>2. pc[r] = 12 /\ shown'.node = node[r]
        BY <2>1, ScriptIs DEF SayAt, Say
  <2>3. Running(r)
        BY <2>2, ScriptLength DEF Running
  <2>4. node[r] \in ring /\ node[r] >= 1
        BY <2>1, <2>2, <2>3 DEF NodeOK
  <2>5. ASSUME r \notin raced
        PROVE  /\ node[r] < replicas
               /\ \A q \in Requests : pc'[q] \notin {2, 3}
    <3>1. node[r] < replicas
          BY <2>1, <2>2, <2>3, <2>5 DEF NodeOK
    <3>2. ASSUME NEW q \in Requests, pc'[q] \in {2, 3} PROVE FALSE
      <4>1. CASE q = r
            BY <1>0, <2>1, <2>2, <3>2, <4>1
      <4>2. CASE q # r
        <5>1. pc[q] \in {2, 3}
              BY <1>0, <2>1, <3>2, <4>2
        <5>2. Running(q)
              BY <5>1, ScriptLength DEF Running
        <5>3. QED  BY <2>3, <2>5, <4>2, <5>2, AloneIs
      <4>3. QED  BY <4>1, <4>2
    <3>3. QED  BY <3>1, <3>2
  <2>6. CASE r \in raced
        BY <2>1, <2>2, <2>4, <2>6
  <2>7. CASE r \notin raced
        BY <2>1, <2>2, <2>4, <2>5, <2>7
  <2>8. QED  BY <2>6, <2>7
<1>4. ASSUME NEW r \in Requests, EmitError(r), shown' # shown PROVE FALSE
  <2>1. shown'.step = step[r] /\ pc[r] \in DoAt
        BY <1>4 DEF EmitError, Broadcast, StepOK
  <2>2. QED  BY <2>1 DEF StepOK, DoAt
<1>5. CASE Reload
      BY <1>5 DEF Reload
<1>6. QED
      BY <1>2, <1>3, <1>4, <1>5
      DEF Next, TaskStep, Call, vars, page, Arrive, Crash, Handle, Run,
          Read, Scale, PodReady, PodIp, RingJoin, Raise, Finish,
          Create, Delete, SetPods, Join

\* The second invariant: who can run together, and what that does to the nodes.
THEOREM RacesAreKnown == Spec => [](RaceOK /\ NodeOK /\ ShownOK)
<1>1. IInv /\ IInv' /\ RaceOK /\ NodeOK /\ ShownOK /\ [Next]_vars
          => RaceOK' /\ NodeOK' /\ ShownOK'
  <2> SUFFICES ASSUME IInv, IInv', RaceOK, NodeOK, ShownOK, [Next]_vars
               PROVE  RaceOK' /\ NodeOK' /\ ShownOK'
      OBVIOUS
  <2>1. RaceOK'
        BY RaceStep DEF IInv
  <2>2. NodeOK'
        BY NodeStep DEF IInv
  <2>3. ShownOK'
        BY ShownStep DEF IInv
  <2>4. QED  BY <2>1, <2>2, <2>3
<1>2. QED  BY Invariant, RaceInit, NodeInit, <1>1, PTL DEF Spec

\* Two deploys run at once (against the 409 of cassandra_admin.py:30) only if
\* both were let in through the gap: one was accepted while the other's task
\* still waited, or beside a deploy whose flag a rival had taken down.  However
\* many requests are ready together, whatever fails and whenever the backend
\* dies, a deploy that was let in alone runs alone.
THEOREM OneDeployHolds == Spec => []OneDeploy
<1>1. RaceOK => OneDeploy
      BY DEF RaceOK
<1>2. QED  BY RacesAreKnown, <1>1, PTL

\* The display tells the truth: a node shown as ready is in the ring, and stays
\* one of the replicas unless it is a node of deploys that ran at once; and the
\* step shown in red is the one that raised.
THEOREM DisplayHolds == Spec => DisplayIsTrue
<1>1. ShownOK => DoneIsJoined
      BY DEF ShownOK, DoneIsJoined
<1>2. QED  BY RacesAreKnown, ErrorHolds, <1>1, PTL DEF DisplayIsTrue
=============================================================================

--------------------------- MODULE PipelineProofs ---------------------------
(***************************************************************************)
(* Proofs about PipelineTraining, for any number of stages, micro-batches, *)
(* batches and failures: the types; that regular training is synchronous,  *)
(* each step of an optimizer being on a whole batch; that, whatever fails, *)
(* the head never steps on a part of a batch, nobody waits in vain and no  *)
(* stage gets ahead; that a stage without parameters stops all.  All rest  *)
(* on IInv, which every action preserves.                                  *)
(***************************************************************************)
EXTENDS PipelineProperties, ArithmeticLemmas, FiniteSetTheorems, TLAPS

-----------------------------------------------------------------------------
(* torch.chunk: a batch is cut into at most n_micro pieces.                *)

\* What the provers need to know of integer division.
LEMMA Division ==
  ASSUME NEW a \in Nat, NEW b \in Nat \ {0}
  PROVE  /\ a \div b \in Nat
         /\ b * (a \div b) <= a
         /\ a < b * (a \div b) + b
  OBVIOUS

\* If k pieces of size b hold a rows, the ceiling of a / b is at most k.
LEMMA CeilDivBound ==
  ASSUME NEW a \in Nat, NEW b \in Nat \ {0}, NEW k \in Nat, a <= b * k
  PROVE  CeilDiv(a, b) \in Nat /\ CeilDiv(a, b) <= k
<1> DEFINE q == (a + b - 1) \div b
<1>1. a + b - 1 \in Nat
  OBVIOUS
<1>2. q \in Nat /\ b * q <= a + b - 1
  BY <1>1, Division
<1>3. b * q < b * (k + 1)
  BY <1>2
<1>4. q < k + 1
  BY <1>2, <1>3
<1> QED
  BY <1>2, <1>4 DEF CeilDiv

\* b pieces of the size rounded up hold all rows.
LEMMA CeilDivCovers ==
  ASSUME NEW a \in Nat \ {0}, NEW b \in Nat \ {0}
  PROVE  CeilDiv(a, b) \in Nat \ {0} /\ a <= CeilDiv(a, b) * b
<1> DEFINE q == (a + b - 1) \div b
<1>1. a + b - 1 \in Nat
  OBVIOUS
<1>2. q \in Nat /\ a + b - 1 < b * q + b
  BY <1>1, Division
<1>3. a <= b * q
  BY <1>2
<1>4. q # 0
  BY <1>2, <1>3
<1> QED
  BY <1>2, <1>3, <1>4 DEF CeilDiv

\* A batch is cut into at least one piece and at most n_micro.
LEMMA PiecesBound ==
  ASSUME NEW b \in Batch
  PROVE  Pieces(b) \in Nat \ {0} /\ Pieces(b) <= NMicro
<1>1. Rows[b] \in Nat \ {0}
  BY RowsAssumption DEF Batch
<1>2. NMicro \in Nat \ {0}
  BY NMicroAssumption
<1>3. PICK size \in Nat \ {0} : size = CeilDiv(Rows[b], NMicro) /\ Rows[b] <= size * NMicro
  BY <1>1, <1>2, CeilDivCovers
<1>4. CeilDiv(Rows[b], size) \in Nat /\ CeilDiv(Rows[b], size) <= NMicro
  BY <1>1, <1>2, <1>3, CeilDivBound
<1>5. CeilDiv(Rows[b], size) \in Nat \ {0}
  BY <1>1, <1>3, CeilDivCovers
<1> QED
  BY <1>3, <1>4, <1>5 DEF Pieces

\* The pieces of a batch are micro-batches, and there are some.
LEMMA MicroOfBatch ==
  ASSUME NEW b \in Batch
  PROVE  MicroOf(b) \subseteq Micro /\ MicroOf(b) # {}
<1>1. MicroOf(b) \subseteq Micro
  BY PiecesBound, NMicroAssumption DEF MicroOf, Micro
<1>2. <<b, 1>> \in MicroOf(b)
  BY PiecesBound DEF MicroOf
<1> QED
  BY <1>1, <1>2

-----------------------------------------------------------------------------
(* Stages, and updates of functions over them.                             *)

TaskState == {"none", "waiting", "sent", "done", "failed"}
CallState == {"none", "sent", "running", "ok", "error", "cancelled"}

\* How Stage, Worker and Middle lie in each other.
LEMMA StagesAndWorkers ==
  /\ Len(Rows) \in Nat
  /\ Stage \subseteq Nat
  /\ 0 \in Stage /\ 1 \in Worker /\ TailStage \in Worker
  /\ Worker \subseteq Stage /\ 0 \notin Worker
  /\ Middle \subseteq Worker /\ TailStage \notin Middle
  /\ \A s \in Middle : s + 1 \in Worker
  /\ \A s \in Stage : s # 0 => s \in Worker /\ s - 1 \in Stage
  /\ \A s \in Stage : s <= TailStage
  BY DepthAssumption, RowsAssumption DEF Stage, Worker, TailStage, Middle

\* Updating one value of a function keeps its type.
LEMMA PointUpdate ==
  ASSUME NEW S, NEW V, NEW f \in [S -> V], NEW a \in S, NEW v \in V
  PROVE  [f EXCEPT ![a] = v] \in [S -> V]
  OBVIOUS

\* So does updating one value of one of its values.
LEMMA PointUpdate2 ==
  ASSUME NEW S, NEW T, NEW V, NEW f \in [S -> [T -> V]], NEW a \in S, NEW b \in T, NEW v \in V
  PROVE  [f EXCEPT ![a][b] = v] \in [S -> [T -> V]]
  OBVIOUS

\* A micro-batch changes the state of its call at a stage.
LEMMA CallTypes ==
  ASSUME NEW s \in Worker, NEW mb \in Micro, NEW v \in CallState, TypeOK
  PROVE  [call EXCEPT ![s][mb] = v] \in [Worker -> [Micro -> CallState]]
  BY PointUpdate2 DEF TypeOK, CallState

\* A forward pass at a stage is computed with its weights.
LEMMA VersionTypes ==
  ASSUME NEW s \in Stage, NEW mb \in Micro, TypeOK
  PROVE  [version EXCEPT ![s][mb] = weight[s]] \in [Stage -> [Micro -> Nat]]
<1>1. weight[s] \in Nat
  BY DEF TypeOK
<1> QED
  BY <1>1, PointUpdate2 DEF TypeOK

\* Gradients are a set of micro-batches.
LEMMA GradsTypes ==
  ASSUME NEW s \in Stage, NEW g \in SUBSET Micro, TypeOK
  PROVE  [grads EXCEPT ![s] = g] \in [Stage -> SUBSET Micro]
  BY PointUpdate DEF TypeOK

\* Zeroing and accumulating yield sets of micro-batches.
LEMMA GradsOfStage ==
  ASSUME NEW s \in Stage, NEW mb \in Micro, TypeOK
  PROVE  /\ grads[s] \in SUBSET Micro
         /\ Zeroed(s) \in SUBSET Micro
         /\ Accumulated(grads[s], mb) \in SUBSET Micro
         /\ Accumulated(Zeroed(s), mb) \in SUBSET Micro
  BY DEF TypeOK, Zeroed, Accumulated

\* A backward pass of a worker keeps the types of what it counts.
LEMMA CompleteBackwardTypes ==
  ASSUME NEW s \in Stage, TypeOK, CompleteBackward(s)
  PROVE  bw_completed' \in [Stage -> Nat] /\ weight' \in [Stage -> Nat]
<1>1. bw_completed[s] + 1 \in Nat
  BY DEF TypeOK
<1>2. (IF LastOfRound(s) THEN weight[s] + 1 ELSE weight[s]) \in Nat
  BY DEF TypeOK
<1>3. bw_completed' \in [Stage -> Nat]
  BY <1>1, PointUpdate DEF TypeOK, CompleteBackward
<1>4. weight' \in [Stage -> Nat]
  BY <1>2, PointUpdate DEF TypeOK, CompleteBackward
<1> QED
  BY <1>3, <1>4

\* A forward pass of a worker keeps the type of fw_started.
LEMMA CountForwardTypes ==
  ASSUME NEW s \in Stage, TypeOK, CountForward(s)
  PROVE  fw_started' \in [Stage -> Nat]
<1>1. fw_started[s] + 1 \in Nat
  BY DEF TypeOK
<1> QED
  BY <1>1, PointUpdate DEF TypeOK, CountForward

\* One more failure is still within the bound.
LEMMA FailTypes ==
  ASSUME TypeOK, Fail
  PROVE  failures' \in 0 .. MaxFailures /\ failures' # 0
  BY MaxFailuresAssumption DEF TypeOK, Fail

-----------------------------------------------------------------------------
(* Types, action by action.                                                *)

\* A batch starts.
LEMMA StartBatchTypes ==
  ASSUME TypeOK, StartBatch
  PROVE  TypeOK'
<1> USE StagesAndWorkers
<1>1. batch' \in 0 .. Len(Rows)
  BY DEF TypeOK, StartBatch
<1>2. grads' \in [Stage -> SUBSET Micro]
  BY GradsTypes, ZenonT(40) DEF TypeOK, StartBatch
<1>3. task' \in [Micro -> TaskState]
  BY DEF TypeOK, StartBatch, TaskState
<1>4. pc' \in {"idle", "running"}
  BY DEF TypeOK, StartBatch
<1> QED
  BY <1>1, <1>2, <1>3, <1>4 DEF TypeOK, StartBatch, counters, TaskState

\* Or ends.
LEMMA EndBatchTypes ==
  ASSUME TypeOK, EndBatch
  PROVE  TypeOK'
<1> USE StagesAndWorkers
<1>1. weight[0] + 1 \in Nat
  BY DEF TypeOK
<1>2. weight' \in [Stage -> Nat]
  <2>1. CASE FinishBatch
    BY <1>1, <2>1, PointUpdate DEF TypeOK, FinishBatch
  <2>2. CASE AbortBatch
    BY <2>2 DEF TypeOK, AbortBatch
  <2> QED
    BY <2>1, <2>2 DEF EndBatch
<1> QED
  BY <1>2 DEF TypeOK, EndBatch, FinishBatch, AbortBatch, counters

\* A task enters the semaphore.
LEMMA HeadForwardTypes ==
  ASSUME NEW mb \in Micro, TypeOK, HeadForward(mb)
  PROVE  TypeOK'
<1> USE StagesAndWorkers
<1>1. call' \in [Worker -> [Micro -> CallState]]
  BY CallTypes DEF HeadForward, CallState
<1>2. version' \in [Stage -> [Micro -> Nat]]
  BY VersionTypes DEF HeadForward
<1>3. task' \in [Micro -> TaskState]
  BY DEF TypeOK, HeadForward, TaskState
<1> QED
  BY <1>1, <1>2, <1>3 DEF TypeOK, HeadForward, headVars, counters, TaskState, CallState

\* A task ends.
LEMMA HeadTaskEndsTypes ==
  ASSUME NEW mb \in Micro, TypeOK, HeadBackward(mb) \/ HeadTaskFails(mb) \/ HeadFaults(mb)
  PROVE  TypeOK'
<1> USE StagesAndWorkers
<1>1. grads' \in [Stage -> SUBSET Micro]
  <2>1. CASE UNCHANGED grads
    BY <2>1 DEF TypeOK
  <2>2. CASE ~UNCHANGED grads
    <3>1. PICK g \in {grads[0], Accumulated(grads[0], mb)} : grads' = [grads EXCEPT ![0] = g]
      BY <2>2 DEF HeadBackward, HeadTaskFails, HeadFaults
    <3> QED
      BY <3>1, GradsTypes, GradsOfStage
  <2> QED
    BY <2>1, <2>2
<1>2. task' \in [Micro -> TaskState]
  BY DEF TypeOK, HeadBackward, HeadTaskFails, HeadFaults, TaskState
<1>3. failures' \in 0 .. MaxFailures
  BY FailTypes DEF TypeOK, HeadBackward, HeadTaskFails, HeadFaults
<1> QED
  BY <1>1, <1>2, <1>3
     DEF TypeOK, HeadBackward, HeadTaskFails, HeadFaults, headVars, counters, TaskState

\* A middle stage forwards.
LEMMA MiddleForwardTypes ==
  ASSUME NEW s \in Worker, NEW mb \in Micro, TypeOK, MiddleForward(s, mb)
  PROVE  TypeOK'
<1> USE StagesAndWorkers
<1>1. [call EXCEPT ![s][mb] = "running"] \in [Worker -> [Micro -> CallState]]
  BY CallTypes DEF CallState
<1>2. s + 1 \in Worker
  BY DEF MiddleForward
<1>3. [[call EXCEPT ![s][mb] = "running"] EXCEPT ![s + 1][mb] = "sent"]
        \in [Worker -> [Micro -> CallState]]
  BY <1>1, <1>2, PointUpdate2 DEF CallState
<1>4. call' \in [Worker -> [Micro -> CallState]]
  BY <1>3 DEF MiddleForward
<1>5. grads' \in [Stage -> SUBSET Micro]
  BY GradsTypes, GradsOfStage DEF MiddleForward
<1>6. fw_started' \in [Stage -> Nat]
  BY CountForwardTypes DEF MiddleForward
<1>7. version' \in [Stage -> [Micro -> Nat]]
  BY VersionTypes DEF MiddleForward
<1> QED
  BY <1>4, <1>5, <1>6, <1>7 DEF TypeOK, MiddleForward, headVars, CallState

\* It goes back.
LEMMA MiddleBackwardTypes ==
  ASSUME NEW s \in Worker, NEW mb \in Micro, TypeOK, MiddleBackward(s, mb)
  PROVE  TypeOK'
<1> USE StagesAndWorkers
<1>1. call' \in [Worker -> [Micro -> CallState]]
  BY CallTypes DEF MiddleBackward, CallState
<1>2. grads' \in [Stage -> SUBSET Micro]
  BY GradsTypes, GradsOfStage DEF MiddleBackward
<1>3. bw_completed' \in [Stage -> Nat] /\ weight' \in [Stage -> Nat]
  BY CompleteBackwardTypes DEF MiddleBackward
<1> QED
  BY <1>1, <1>2, <1>3 DEF TypeOK, MiddleBackward, headVars, CallState

\* The tail does both.
LEMMA TailCallbackTypes ==
  ASSUME NEW mb \in Micro, TypeOK, TailCallback(mb)
  PROVE  TypeOK'
<1> USE StagesAndWorkers
<1>1. call' \in [Worker -> [Micro -> CallState]]
  BY CallTypes DEF TailCallback, CallState
<1>2. grads' \in [Stage -> SUBSET Micro]
  BY GradsTypes, GradsOfStage DEF TailCallback
<1>3. bw_completed' \in [Stage -> Nat] /\ weight' \in [Stage -> Nat]
  BY CompleteBackwardTypes DEF TailCallback
<1>4. fw_started' \in [Stage -> Nat]
  BY CountForwardTypes DEF TailCallback
<1>5. version' \in [Stage -> [Micro -> Nat]]
  BY VersionTypes DEF TailCallback
<1> QED
  BY <1>1, <1>2, <1>3, <1>4, <1>5 DEF TypeOK, TailCallback, headVars, CallState

\* A callback raises before its backward pass.
LEMMA ForwardFailsTypes ==
  ASSUME NEW s \in Worker, NEW mb \in Micro, TypeOK, CallbackFails(s, mb) \/ ForwardFaults(s, mb)
  PROVE  TypeOK'
<1> USE StagesAndWorkers
<1>1. call' \in [Worker -> [Micro -> CallState]]
  BY CallTypes, SMTT(30) DEF CallbackFails, ForwardFaults, CallState
<1>2. grads' \in [Stage -> SUBSET Micro]
  <2>1. CASE CallbackFails(s, mb)
    BY <2>1 DEF TypeOK, CallbackFails
  <2>2. CASE ForwardFaults(s, mb)
    BY <2>2, GradsTypes, GradsOfStage DEF ForwardFaults
  <2> QED
    BY <2>1, <2>2
<1>3. fw_started' \in [Stage -> Nat]
  BY CountForwardTypes DEF TypeOK, CallbackFails, ForwardFaults, CountFailedForward, counters
<1>4. failures' \in 0 .. MaxFailures
  BY FailTypes DEF TypeOK, CallbackFails, ForwardFaults
<1> QED
  BY <1>1, <1>2, <1>3, <1>4 DEF TypeOK, CallbackFails, ForwardFaults, headVars, counters, CallState

\* Or after it.
LEMMA BackwardFaultsTypes ==
  ASSUME NEW s \in Worker, NEW mb \in Micro, TypeOK, BackwardFaults(s, mb)
  PROVE  TypeOK'
<1> USE StagesAndWorkers
<1>1. call' \in [Worker -> [Micro -> CallState]]
  BY CallTypes DEF BackwardFaults, CallState
<1>2. grads' \in [Stage -> SUBSET Micro]
  <2>1. PICK g \in SUBSET Micro : grads' = [grads EXCEPT ![s] = g]
    BY GradsOfStage DEF BackwardFaults
  <2> QED
    BY <2>1, GradsTypes
<1>3. bw_completed' \in [Stage -> Nat] /\ weight' \in [Stage -> Nat]
  BY CompleteBackwardTypes DEF TypeOK, BackwardFaults
<1>4. fw_started' \in [Stage -> Nat]
  BY CountForwardTypes DEF TypeOK, BackwardFaults
<1>5. failures' \in 0 .. MaxFailures
  BY FailTypes DEF BackwardFaults
<1> QED
  BY <1>1, <1>2, <1>3, <1>4, <1>5 DEF TypeOK, BackwardFaults, headVars, CallState

\* A caller loses its call.
LEMMA CallBreaksTypes ==
  ASSUME NEW s \in Worker, NEW mb \in Micro, TypeOK, CallBreaks(s, mb)
  PROVE  TypeOK'
<1> USE StagesAndWorkers
<1>1. connection' \in [Worker -> [Micro -> {"up", "error", "silent"}]]
  <2>1. PICK seen \in {"up", "error", "silent"} :
          connection' = [connection EXCEPT ![s][mb] = seen]
    BY DEF CallBreaks
  <2> QED
    <3>1. connection \in [Worker -> [Micro -> {"up", "error", "silent"}]]
      BY DEF TypeOK
    <3> QED
      BY <2>1, <3>1, PointUpdate2, ZenonT(40)
<1>2. failures' \in 0 .. MaxFailures
  BY FailTypes DEF CallBreaks
<1> QED
  BY <1>1, <1>2 DEF TypeOK, CallBreaks, headVars, counters

\* The server cancels its callback.
LEMMA CallbackCancelledTypes ==
  ASSUME NEW s \in Worker, NEW mb \in Micro, TypeOK, CallbackCancelled(s, mb)
  PROVE  TypeOK'
<1> USE StagesAndWorkers
<1>1. call' \in [Worker -> [Micro -> CallState]]
  BY CallTypes DEF CallbackCancelled, CallState
<1>2. connection' \in [Worker -> [Micro -> {"up", "error", "silent"}]]
  <2>1. CASE s + 1 \in Worker
    BY <2>1, PointUpdate2 DEF TypeOK, CallbackCancelled
  <2>2. CASE s + 1 \notin Worker
    BY <2>2 DEF TypeOK, CallbackCancelled
  <2> QED
    BY <2>1, <2>2
<1> QED
  BY <1>1, <1>2 DEF TypeOK, CallbackCancelled, headVars, counters, CallState

\* Every step keeps the types.
LEMMA TypesNext ==
  ASSUME TypeOK, [Next]_vars
  PROVE  TypeOK'
<1>1. ASSUME NEW mb \in Micro, HeadTask(mb) \/ HeadFaults(mb) PROVE TypeOK'
  BY <1>1, HeadForwardTypes, HeadTaskEndsTypes DEF HeadTask
<1>2. ASSUME NEW s \in Worker, NEW mb \in Micro, WorkerCallback(s, mb) PROVE TypeOK'
  BY <1>2, MiddleForwardTypes, MiddleBackwardTypes, TailCallbackTypes, ForwardFailsTypes
     DEF WorkerCallback
<1>3. ASSUME NEW s \in Worker, NEW mb \in Micro, ForwardFaults(s, mb) \/ BackwardFaults(s, mb)
      PROVE  TypeOK'
  BY <1>3, ForwardFailsTypes, BackwardFaultsTypes
<1>4. ASSUME NEW s \in Worker, NEW mb \in Micro, CallBreaks(s, mb) \/ CallbackCancelled(s, mb)
      PROVE  TypeOK'
  BY <1>4, CallBreaksTypes, CallbackCancelledTypes
<1>5. CASE UNCHANGED vars
  BY <1>5 DEF TypeOK, vars, headVars, counters
<1> QED
  BY <1>1, <1>2, <1>3, <1>4, <1>5, StartBatchTypes, EndBatchTypes DEF Next

-----------------------------------------------------------------------------
(* The head, whatever fails.                                               *)

\* All that a step does at a worker.
WorkerStep(s, mb) ==
  \/ WorkerCallback(s, mb)
  \/ ForwardFaults(s, mb) \/ BackwardFaults(s, mb)
  \/ CallBreaks(s, mb) \/ CallbackCancelled(s, mb)

\* It is none of the head's business.
LEMMA WorkersLeaveHead ==
  ASSUME NEW s \in Worker, NEW mb \in Micro, TypeOK, WorkerStep(s, mb)
  PROVE  /\ UNCHANGED <<headVars, task>>
         /\ grads'[0] = grads[0] /\ weight'[0] = weight[0] /\ version'[0] = version[0]
<1> USE StagesAndWorkers
<1>1. CASE MiddleForward(s, mb)
  BY <1>1 DEF MiddleForward, TypeOK
<1>2. CASE MiddleBackward(s, mb)
  BY <1>2 DEF MiddleBackward, CompleteBackward, TypeOK
<1>3. CASE TailCallback(mb)
  BY <1>3 DEF TailCallback, CompleteBackward, TypeOK
<1>4. CASE CallbackFails(s, mb) \/ CallBreaks(s, mb) \/ CallbackCancelled(s, mb)
  BY <1>4 DEF CallbackFails, CallBreaks, CallbackCancelled
<1>5. CASE ForwardFaults(s, mb)
  BY <1>5 DEF ForwardFaults, TypeOK
<1>6. CASE BackwardFaults(s, mb)
  BY <1>6 DEF BackwardFaults, CompleteBackward, TypeOK
<1> QED
  BY <1>1, <1>2, <1>3, <1>4, <1>5, <1>6 DEF WorkerStep, WorkerCallback

\* A task is done in the step that accumulates its gradient.
LEMMA HeadInvNext ==
  ASSUME TypeOK, HeadInv, [Next]_vars
  PROVE  HeadInv'
<1> USE StagesAndWorkers
<1>1. CASE StartBatch
  <2>1. batch \in Nat /\ batch' = batch + 1 /\ batch' \in Batch
    BY <1>1 DEF TypeOK, StartBatch, Batch
  <2>2. ASSUME NEW mb \in Micro, mb[1] >= batch'
        PROVE  task'[mb] \in {"none", "waiting"} /\ (task'[mb] = "waiting" => mb[1] = batch')
    <3>1. mb[1] > batch
      BY <2>1, <2>2 DEF Micro, Batch
    <3>2. task[mb] = "none"
      BY <3>1 DEF HeadInv
    <3>3. mb \in MicroOf(batch') => mb[1] = batch'
      BY DEF MicroOf
    <3> QED
      BY <1>1, <2>1, <3>2, <3>3, SMTT(30) DEF TypeOK, StartBatch
  <2>3. ASSUME NEW mb \in Micro PROVE mb[1] \in Nat
    BY DEF Micro, Batch
  <2> QED
    BY <2>1, <2>2, <2>3 DEF HeadInv
<1>2. CASE EndBatch
  BY <1>2 DEF EndBatch, FinishBatch, AbortBatch, HeadInv
<1>3. ASSUME NEW mb \in Micro, HeadForward(mb) PROVE HeadInv'
  BY <1>3 DEF HeadForward, MayEnter, headVars, HeadInv, TypeOK
<1>4. ASSUME NEW mb \in Micro, HeadBackward(mb) PROVE HeadInv'
  BY <1>4 DEF HeadBackward, Accumulated, headVars, HeadInv, TypeOK
<1>5. ASSUME NEW mb \in Micro, HeadTaskFails(mb) PROVE HeadInv'
  BY <1>5 DEF HeadTaskFails, headVars, HeadInv, TypeOK
<1>6. ASSUME NEW mb \in Micro, HeadFaults(mb) PROVE HeadInv'
  <2>1. grads[0] \subseteq grads'[0]
    <3>1. \/ UNCHANGED grads
          \/ \E g \in {grads[0], grads[0] \cup {mb}} : grads' = [grads EXCEPT ![0] = g]
      BY <1>6 DEF HeadFaults, Accumulated
    <3>2. ASSUME NEW g, grads[0] \subseteq g, grads' = [grads EXCEPT ![0] = g]
          PROVE  grads'[0] = g
      BY <3>2 DEF TypeOK
    <3> QED
      BY <3>1, <3>2
  <2>2. task' = [task EXCEPT ![mb] = "failed"] /\ task[mb] # "none" /\ UNCHANGED headVars
    BY <1>6 DEF HeadFaults, MayEnter
  <2> QED
    BY <2>1, <2>2 DEF headVars, HeadInv, TypeOK
<1>7. ASSUME NEW s \in Worker, NEW mb \in Micro, WorkerStep(s, mb) PROVE HeadInv'
  BY <1>7, WorkersLeaveHead DEF HeadInv, headVars
<1>8. CASE UNCHANGED vars
  BY <1>8 DEF HeadInv, vars, headVars
<1> QED
  BY <1>1, <1>2, <1>3, <1>4, <1>5, <1>6, <1>7, <1>8 DEF Next, HeadTask, WorkerStep

-----------------------------------------------------------------------------
(* Calls, whatever fails.                                                  *)

\* A middle stage runs, and the next one is called, for the same micro-batch.
LEMMA MiddleForwardCalls ==
  ASSUME NEW s \in Worker, NEW mb \in Micro, TypeOK, MiddleForward(s, mb)
  PROVE  \A t \in Worker, m \in Micro :
           call'[t][m] = IF m = mb /\ t = s THEN "running"
                         ELSE IF m = mb /\ t = s + 1 THEN "sent" ELSE call[t][m]
<1>1. s + 1 \in Worker /\ s # s + 1
  BY StagesAndWorkers DEF MiddleForward
<1>2. call' = [call EXCEPT ![s] = [call[s] EXCEPT ![mb] = "running"],
                           ![s + 1] = [call[s + 1] EXCEPT ![mb] = "sent"]]
  BY <1>1 DEF MiddleForward, TypeOK
<1>3. /\ call'[s] = [call[s] EXCEPT ![mb] = "running"]
      /\ call'[s + 1] = [call[s + 1] EXCEPT ![mb] = "sent"]
      /\ \A t \in Worker : t # s /\ t # s + 1 => call'[t] = call[t]
  BY <1>1, <1>2 DEF TypeOK
<1>4. \A t \in Worker : call[t] \in [Micro -> CallState]
  BY DEF TypeOK, CallState
<1> QED
  BY <1>1, <1>3, <1>4

\* A callback that ends leaves every other call as it was.
LEMMA CallbackEnds ==
  ASSUME NEW s \in Worker, NEW mb \in Micro, TypeOK, CallInv,
         UNCHANGED <<headVars, task>>,
         \A t \in Worker, m \in Micro : connection[t][m] # "up" => connection'[t][m] # "up",
         NEW v \in {"ok", "error", "cancelled"}, call' = [call EXCEPT ![s][mb] = v],
         v = "cancelled" => connection'[s][mb] # "up"
  PROVE  CallInv'
<1> USE StagesAndWorkers
<1>1. \A t \in Worker, m \in Micro :
        call'[t][m] = IF t = s /\ m = mb THEN v ELSE call[t][m]
  BY DEF TypeOK
<1>2. ASSUME NEW m \in Micro, task'[m] = "sent" PROVE call'[1][m] # "none"
  BY <1>1, <1>2 DEF CallInv
<1>3. ASSUME NEW t \in Worker, NEW m \in Micro, call'[t][m] = "running"
      PROVE  t \in Middle /\ call'[t + 1][m] # "none"
  <2>1. t \in Middle /\ call[t + 1][m] # "none"
    BY <1>1, <1>3 DEF CallInv
  <2> QED
    BY <1>1, <2>1
<1>4. ASSUME NEW t \in Worker, NEW m \in Micro, call'[t][m] = "cancelled"
      PROVE  connection'[t][m] # "up"
  BY <1>1, <1>4 DEF CallInv
<1>5. pc' = "running" => \A m \in MicroOf(batch') : task'[m] # "none"
  BY DEF CallInv, headVars
<1> QED
  BY <1>2, <1>3, <1>4, <1>5 DEF CallInv

\* Steps of the head's tasks that end them.
LEMMA TaskEnds ==
  ASSUME NEW mb \in Micro, TypeOK, CallInv, NEW v \in {"done", "failed"},
         task' = [task EXCEPT ![mb] = v], UNCHANGED <<headVars, call, connection>>
  PROVE  CallInv'
<1>1. \A m \in Micro : task'[m] = IF m = mb THEN v ELSE task[m]
  BY DEF TypeOK
<1>2. ASSUME pc' = "running", NEW m \in MicroOf(batch') PROVE task'[m] # "none"
  BY <1>2 DEF CallInv, headVars, TypeOK
<1> QED
  BY <1>1, <1>2 DEF CallInv

\* Every request is sent before its caller waits.
LEMMA CallInvNext ==
  ASSUME TypeOK, HeadInv, CallInv, [Next]_vars
  PROVE  CallInv'
<1> USE StagesAndWorkers
<1>1. CASE StartBatch
  <2>1. \A m \in Micro : task'[m] \in {"waiting", task[m]}
    BY <1>1 DEF StartBatch, TypeOK
  <2>2. ASSUME pc' = "running", NEW m \in MicroOf(batch') PROVE task'[m] = "waiting"
    <3>1. /\ batch' = batch + 1 /\ batch' \in Batch
          /\ task' = [n \in Micro |-> IF n \in MicroOf(batch + 1) THEN "waiting" ELSE task[n]]
      BY <1>1, <2>2 DEF StartBatch, TypeOK, Batch
    <3>2. m \in Micro
      BY <2>2, <3>1, MicroOfBatch
    <3> QED
      BY <2>2, <3>1, <3>2
  <2>3. UNCHANGED <<call, connection>>
    BY <1>1 DEF StartBatch
  <2> QED
    BY <2>1, <2>2, <2>3 DEF CallInv
<1>2. CASE EndBatch
  BY <1>2 DEF EndBatch, FinishBatch, AbortBatch, CallInv
<1>3. ASSUME NEW mb \in Micro, HeadForward(mb) PROVE CallInv'
  <2>1. /\ \A m \in Micro : task'[m] = IF m = mb THEN "sent" ELSE task[m]
        /\ UNCHANGED <<headVars, connection>>
    BY <1>3 DEF HeadForward, TypeOK
  <2>2. \A t \in Worker, m \in Micro :
          call'[t][m] = IF t = 1 /\ m = mb THEN "sent" ELSE call[t][m]
    BY <1>3 DEF HeadForward, TypeOK
  <2>3. ASSUME pc' = "running", NEW m \in MicroOf(batch') PROVE task'[m] # "none"
    <3>1. m \in Micro
      BY <2>1, <2>3, MicroOfBatch DEF HeadInv, headVars
    <3> QED
      BY <2>1, <2>3, <3>1 DEF CallInv, headVars
  <2>4. ASSUME NEW t \in Worker, NEW m \in Micro, call'[t][m] = "running"
        PROVE  t \in Middle /\ call'[t + 1][m] # "none"
    <3>1. t \in Middle /\ call[t + 1][m] # "none"
      BY <2>2, <2>4 DEF CallInv
    <3> QED
      BY <2>2, <3>1
  <2> QED
    BY <2>1, <2>2, <2>3, <2>4 DEF CallInv
<1>4. ASSUME NEW mb \in Micro, HeadBackward(mb) \/ HeadTaskFails(mb) \/ HeadFaults(mb)
      PROVE  CallInv'
  <2>1. \E v \in {"done", "failed"} : task' = [task EXCEPT ![mb] = v]
    BY <1>4 DEF HeadBackward, HeadTaskFails, HeadFaults
  <2>2. UNCHANGED <<headVars, call, connection>>
    BY <1>4 DEF HeadBackward, HeadTaskFails, HeadFaults
  <2> QED
    BY <2>1, <2>2, TaskEnds
<1>5. ASSUME NEW s \in Worker, NEW mb \in Micro, MiddleForward(s, mb) PROVE CallInv'
  <2>1. s \in Middle /\ s + 1 \in Worker /\ UNCHANGED <<headVars, task, connection>>
    BY <1>5 DEF MiddleForward
  <2>2. \A t \in Worker, m \in Micro :
          call'[t][m] = IF m = mb /\ t = s THEN "running"
                        ELSE IF m = mb /\ t = s + 1 THEN "sent" ELSE call[t][m]
    BY <1>5, MiddleForwardCalls
  <2>3. ASSUME NEW t \in Worker, NEW m \in Micro, call'[t][m] = "running"
        PROVE  t \in Middle /\ call'[t + 1][m] # "none"
    <3>1. t \in Middle /\ t + 1 \in Worker
      BY <2>1, <2>2, <2>3 DEF CallInv
    <3>2. (t = s /\ m = mb) \/ call[t + 1][m] # "none"
      <4>1. (t = s /\ m = mb) \/ call[t][m] = "running"
        BY <2>2, <2>3
      <4> QED
        BY <4>1 DEF CallInv
    <3>3. s + 1 # s
      BY <2>1
    <3> QED
      BY <2>1, <2>2, <3>1, <3>2, <3>3
  <2>4. pc' = "running" => \A m \in MicroOf(batch') : task'[m] # "none"
    BY <2>1 DEF CallInv, headVars
  <2>5. ASSUME NEW m \in Micro, task'[m] = "sent" PROVE call'[1][m] # "none"
    BY <2>1, <2>2, <2>5 DEF CallInv
  <2>6. ASSUME NEW t \in Worker, NEW m \in Micro, call'[t][m] = "cancelled"
        PROVE  connection'[t][m] # "up"
    <3>1. call[t][m] = "cancelled"
      BY <2>2, <2>6
    <3> QED
      BY <2>1, <3>1 DEF CallInv
  <2> QED
    BY <2>3, <2>4, <2>5, <2>6 DEF CallInv
<1>6. ASSUME NEW s \in Worker, NEW mb \in Micro,
             \/ MiddleBackward(s, mb) \/ CallbackFails(s, mb)
             \/ ForwardFaults(s, mb) \/ BackwardFaults(s, mb)
             \/ s = TailStage /\ TailCallback(mb)
      PROVE  CallInv'
  <2>1. \E v \in {"ok", "error"} : call' = [call EXCEPT ![s][mb] = v]
    BY <1>6 DEF MiddleBackward, CallbackFails, ForwardFaults, BackwardFaults, TailCallback
  <2>2. UNCHANGED <<headVars, task, connection>>
    BY <1>6 DEF MiddleBackward, CallbackFails, ForwardFaults, BackwardFaults, TailCallback
  <2> QED
    BY <2>1, <2>2, CallbackEnds
<1>7. ASSUME NEW s \in Worker, NEW mb \in Micro, CallBreaks(s, mb) PROVE CallInv'
  <2>1. PICK seen \in {"error", "silent"} : connection' = [connection EXCEPT ![s][mb] = seen]
    BY <1>7 DEF CallBreaks
  <2>2. \A t \in Worker, m \in Micro : connection[t][m] # "up" => connection'[t][m] # "up"
    BY <2>1 DEF TypeOK
  <2>3. UNCHANGED <<headVars, task, call>>
    BY <1>7 DEF CallBreaks
  <2> QED
    BY <2>2, <2>3 DEF CallInv, headVars
<1>8. ASSUME NEW s \in Worker, NEW mb \in Micro, CallbackCancelled(s, mb) PROVE CallInv'
  <2>1. /\ call' = [call EXCEPT ![s][mb] = "cancelled"] /\ connection[s][mb] # "up"
        /\ UNCHANGED <<headVars, task>>
    BY <1>8 DEF CallbackCancelled
  <2>2. \A t \in Worker, m \in Micro : connection[t][m] # "up" => connection'[t][m] # "up"
    BY <1>8 DEF CallbackCancelled, TypeOK
  <2> QED
    BY <2>1, <2>2, CallbackEnds
<1>9. CASE UNCHANGED vars
  BY <1>9 DEF CallInv, vars, headVars
<1> QED
  BY <1>1, <1>2, <1>3, <1>4, <1>5, <1>6, <1>7, <1>8, <1>9 DEF Next, HeadTask, WorkerCallback

\* A micro-batch that has been sent on, and of which nobody has anything to do, is
\* in the hands of all stages at once, which the tail's callback cannot be.
LEMMA SentIsUnderWay ==
  ASSUME TypeOK, CallInv, NEW mb \in Micro, task[mb] = "sent", ~HeadCanRun(mb),
         \A s \in Worker : ~WorkerCanRun(s, mb) /\ connection[s][mb] # "silent"
  PROVE  FALSE
<1> USE StagesAndWorkers
<1>1. ASSUME NEW s \in Worker, call[s][mb] # "none", Answer(s, mb) \notin {"ok", "error"}
      PROVE  call[s][mb] = "running"
  <2>1. connection[s][mb] = "up"
    BY <1>1 DEF Answer, TypeOK
  <2> QED
    BY <1>1, <2>1 DEF Answer, WorkerCanRun, CallInv, TypeOK
<1>2. call[1][mb] = "running"
  BY <1>1 DEF CallInv, HeadCanRun
<1> DEFINE Waiting == {n \in 0 .. Depth - 2 : call[n + 1][mb] = "running"}
<1>3. ASSUME NEW n \in 0 .. Depth - 2, n < Depth - 2, n \in Waiting PROVE n + 1 \in Waiting
  <2>1. n + 1 \in Worker /\ call[n + 1][mb] = "running" /\ (n + 1) + 1 \in Worker
    BY <1>3, DepthAssumption DEF Worker
  <2>2. n + 1 \in Middle /\ call[(n + 1) + 1][mb] # "none"
    BY <2>1 DEF CallInv
  <2>3. Answer((n + 1) + 1, mb) \notin {"ok", "error"}
    BY <2>1, <2>2 DEF WorkerCanRun
  <2>4. call[(n + 1) + 1][mb] = "running"
    BY <1>1, <2>1, <2>2, <2>3
  <2>5. n + 1 \in 0 .. Depth - 2
    BY <1>3, DepthAssumption
  <2> QED
    BY <2>4, <2>5
<1>4. Depth - 2 \in Nat /\ (Depth - 2) + 1 = TailStage /\ 0 \in Waiting
  BY <1>2, DepthAssumption DEF TailStage
<1> HIDE DEF Waiting
<1>5. \A n \in 0 .. Depth - 2 : n \in Waiting
  BY <1>3, <1>4, InductionUpTo
<1>6. Depth - 2 \in Waiting
  BY <1>4, <1>5
<1>7. call[TailStage][mb] = "running"
  BY <1>4, <1>6 DEF Waiting
<1> QED
  BY <1>7 DEF CallInv

\* If no micro-batch of the batch has been sent on, the first that waits may be.
LEMMA FirstMayEnter ==
  ASSUME TypeOK, pc = "running", batch \in Batch, Admitted(batch) = {},
         NEW mb \in MicroOf(batch), task[mb] = "waiting"
  PROVE  \E first \in MicroOf(batch) : HeadCanRun(first)
<1> DEFINE Waiting == {i \in 1 .. Pieces(batch) : task[<<batch, i>>] = "waiting"}
<1>1. mb = <<batch, mb[2]>> /\ mb[2] \in Waiting
  BY DEF MicroOf
<1>2. Waiting \in SUBSET Nat /\ Waiting # {}
  BY <1>1, PiecesBound
<1>3. PICK i \in Waiting : \A j \in Waiting : i <= j
  BY <1>2, MinOfNats
<1>4. <<batch, i>> \in MicroOf(batch) /\ task[<<batch, i>>] = "waiting"
  BY <1>3 DEF MicroOf
<1>5. \A other \in MicroOf(batch) : task[other] = "waiting" => i <= other[2]
  <2>1. ASSUME NEW other \in MicroOf(batch), task[other] = "waiting" PROVE other[2] \in Waiting
    <3>1. other = <<batch, other[2]>> /\ other[2] \in 1 .. Pieces(batch)
      BY DEF MicroOf
    <3> QED
      BY <2>1, <3>1
  <2> QED
    BY <1>3, <2>1
<1>6. Cardinality(Admitted(batch)) < Depth
  BY FS_EmptySet, DepthAssumption
<1> HIDE DEF Waiting
<1>7. MayEnter(<<batch, i>>)
  BY <1>4, <1>5, <1>6 DEF MayEnter
<1> QED
  BY <1>4, <1>7 DEF HeadCanRun

\* While a batch runs, somebody has something to do.
LEMMA SomebodyCanRun ==
  ASSUME TypeOK, HeadInv, CallInv
  PROVE  NeverStuck
<1> SUFFICES ASSUME pc = "running", ~Gathered(batch),
                    \A mb \in MicroOf(batch) : task[mb] # "failed",
                    \A mb \in MicroOf(batch) :
                      ~HeadCanRun(mb) /\ \A s \in Worker : ~WorkerCanRun(s, mb),
                    \A s \in Worker, mb \in MicroOf(batch) : connection[s][mb] # "silent"
             PROVE  FALSE
  BY DEF NeverStuck
<1>1. batch \in Batch /\ MicroOf(batch) \subseteq Micro
  BY MicroOfBatch DEF HeadInv
<1>2. PICK mb \in MicroOf(batch) : task[mb] # "done"
  BY DEF Gathered
<1>3. task[mb] \in {"waiting", "sent"}
  BY <1>1, <1>2 DEF TypeOK, CallInv
<1>4. PICK sent \in MicroOf(batch) : task[sent] = "sent"
  BY <1>1, <1>3, FirstMayEnter DEF Admitted
<1> QED
  BY <1>1, <1>4, SentIsUnderWay

-----------------------------------------------------------------------------
(* No stage steps more often than there were batches.                      *)

\* The callback of a micro-batch that was called ends.
LEMMA CallbackEndsOnce ==
  ASSUME NEW s \in Worker, NEW mb \in Micro, TypeOK, OnceInv, task' = task,
         call[s][mb] # "none", NEW v \in {"ok", "error", "cancelled"},
         call' = [call EXCEPT ![s][mb] = v]
  PROVE  OnceInv'
<1> USE StagesAndWorkers
<1>1. \A t \in Worker, m \in Micro :
        call'[t][m] = IF t = s /\ m = mb THEN v ELSE call[t][m]
  BY DEF TypeOK
<1>2. ASSUME NEW m \in Micro, task'[m] \in {"none", "waiting"} PROVE call'[1][m] = "none"
  BY <1>1, <1>2 DEF OnceInv
<1>3. ASSUME NEW m \in Micro, task'[m] = "none", NEW t \in Worker PROVE call'[t][m] = "none"
  BY <1>1, <1>3 DEF OnceInv
<1>4. ASSUME NEW t \in Middle, NEW m \in Micro, call'[t][m] \in {"none", "sent"}
      PROVE  call'[t + 1][m] = "none"
  <2>1. t \in Worker /\ t + 1 \in Worker
    OBVIOUS
  <2>2. call[t][m] \in {"none", "sent"}
    BY <1>1, <1>4, <2>1
  <2>3. call[t + 1][m] = "none"
    BY <2>2 DEF OnceInv
  <2> QED
    BY <1>1, <2>1, <2>3
<1> QED
  BY <1>2, <1>3, <1>4 DEF OnceInv

\* Nor does anything change for the calls when only tasks move on.
LEMMA TasksMoveOn ==
  ASSUME OnceInv, call' = call,
         \A m \in Micro :
           /\ task'[m] = "none" => task[m] = "none"
           /\ task'[m] = "waiting" => task[m] \in {"none", "waiting"}
  PROVE  OnceInv'
<1>1. \A m \in Micro : task'[m] \in {"none", "waiting"} => task[m] \in {"none", "waiting"}
  OBVIOUS
<1> QED
  BY <1>1 DEF OnceInv

\* The calls of a micro-batch are made one behind the other, and no call that was
\* answered is made again.
LEMMA OnceInvNext ==
  ASSUME TypeOK, HeadInv, OnceInv, [Next]_vars
  PROVE  /\ OnceInv'
         /\ \A s \in Worker, mb \in Micro :
              call'[s][mb] = call[s][mb] \/ call[s][mb] \in {"none", "sent", "running"}
<1> USE StagesAndWorkers
<1>1. CASE StartBatch
  <2>1. ASSUME NEW m \in Micro
        PROVE  task'[m] = task[m] \/ (task'[m] = "waiting" /\ task[m] = "none")
    <3>1. CASE optimizer[0] /\ m \in MicroOf(batch + 1)
      <4>1. m[1] > batch
        BY <3>1, <1>1 DEF MicroOf, StartBatch, TypeOK
      <4> QED
        BY <1>1, <3>1, <4>1 DEF HeadInv, StartBatch
    <3>2. CASE ~(optimizer[0] /\ m \in MicroOf(batch + 1))
      BY <1>1, <3>2 DEF StartBatch
    <3> QED
      BY <3>1, <3>2
  <2>2. call' = call
    BY <1>1 DEF StartBatch
  <2> QED
    BY <2>1, <2>2, TasksMoveOn
<1>2. CASE EndBatch \/ UNCHANGED vars
  BY <1>2, TasksMoveOn DEF EndBatch, FinishBatch, AbortBatch, vars
<1>3. ASSUME NEW mb \in Micro, HeadForward(mb)
      PROVE  /\ OnceInv'
             /\ \A s \in Worker, m \in Micro :
                  call'[s][m] = call[s][m] \/ call[s][m] \in {"none", "sent", "running"}
  <2>1. \A m \in Micro : task'[m] = IF m = mb THEN "sent" ELSE task[m]
    BY <1>3 DEF HeadForward, TypeOK
  <2>2. \A t \in Worker, m \in Micro :
          call'[t][m] = IF t = 1 /\ m = mb THEN "sent" ELSE call[t][m]
    BY <1>3 DEF HeadForward, TypeOK
  <2>3. call[1][mb] = "none"
    BY <1>3 DEF HeadForward, MayEnter, OnceInv
  <2>4. ASSUME NEW m \in Micro, task'[m] \in {"none", "waiting"} PROVE call'[1][m] = "none"
    BY <2>1, <2>2, <2>4 DEF OnceInv
  <2>5. ASSUME NEW m \in Micro, task'[m] = "none", NEW t \in Worker PROVE call'[t][m] = "none"
    BY <2>1, <2>2, <2>5 DEF OnceInv
  <2>6. ASSUME NEW t \in Middle, NEW m \in Micro, call'[t][m] \in {"none", "sent"}
        PROVE  call'[t + 1][m] = "none"
    <3>1. t \in Worker /\ t + 1 \in Worker /\ t + 1 # 1
      BY DEF Worker
    <3>2. call[t][m] \in {"none", "sent"}
      BY <2>2, <2>3, <2>6, <3>1
    <3>3. call[t + 1][m] = "none"
      BY <3>2 DEF OnceInv
    <3> QED
      BY <2>2, <3>1, <3>3
  <2>7. OnceInv'
    BY <2>4, <2>5, <2>6 DEF OnceInv
  <2> QED
    BY <2>2, <2>3, <2>7
<1>4. ASSUME NEW mb \in Micro, HeadBackward(mb) \/ HeadTaskFails(mb) \/ HeadFaults(mb)
      PROVE  OnceInv' /\ call' = call
  <2>1. PICK v \in {"done", "failed"} : task' = [task EXCEPT ![mb] = v]
    BY <1>4 DEF HeadBackward, HeadTaskFails, HeadFaults
  <2>2. call' = call
    BY <1>4 DEF HeadBackward, HeadTaskFails, HeadFaults
  <2>3. \A m \in Micro : task'[m] \in {v, task[m]}
    BY <2>1 DEF TypeOK
  <2> QED
    BY <2>2, <2>3, TasksMoveOn
<1>5. ASSUME NEW s \in Worker, NEW mb \in Micro, MiddleForward(s, mb)
      PROVE  /\ OnceInv'
             /\ \A t \in Worker, m \in Micro :
                  call'[t][m] = call[t][m] \/ call[t][m] \in {"none", "sent", "running"}
  <2>1. /\ s \in Middle /\ s + 1 \in Worker /\ s # s + 1 /\ task' = task
        /\ call[s][mb] = "sent"
    BY <1>5 DEF MiddleForward
  <2>2. \A t \in Worker, m \in Micro :
          call'[t][m] = IF m = mb /\ t = s THEN "running"
                        ELSE IF m = mb /\ t = s + 1 THEN "sent" ELSE call[t][m]
    BY <1>5, MiddleForwardCalls
  <2>3. call[s + 1][mb] = "none"
    BY <2>1 DEF OnceInv
  <2>4. task[mb] # "none" /\ (s = 1 => task[mb] # "waiting")
    BY <2>1 DEF OnceInv
  <2>5. ASSUME NEW m \in Micro, task'[m] \in {"none", "waiting"} PROVE call'[1][m] = "none"
    <3>1. call[1][m] = "none" /\ 1 # s + 1
      BY <2>1, <2>5 DEF OnceInv, Worker
    <3> QED
      BY <2>1, <2>2, <2>4, <2>5, <3>1
  <2>6. ASSUME NEW m \in Micro, task'[m] = "none", NEW t \in Worker PROVE call'[t][m] = "none"
    <3>1. call[t][m] = "none" /\ m # mb
      BY <2>1, <2>4, <2>6 DEF OnceInv
    <3> QED
      BY <2>2, <3>1
  <2>7. ASSUME NEW t \in Middle, NEW m \in Micro, call'[t][m] \in {"none", "sent"}
        PROVE  call'[t + 1][m] = "none"
    <3>1. t \in Worker /\ t + 1 \in Worker /\ ~(m = mb /\ t = s)
      BY <2>2, <2>7
    <3>2. call[t][m] \in {"none", "sent"}
      BY <2>2, <2>3, <2>7, <3>1
    <3>3. call[t + 1][m] = "none"
      BY <3>2 DEF OnceInv
    <3>4. ~(m = mb /\ t + 1 = s) /\ ~(m = mb /\ t + 1 = s + 1)
      BY <2>1, <3>1, <3>3
    <3> QED
      BY <2>2, <3>1, <3>3, <3>4
  <2>8. OnceInv'
    BY <2>5, <2>6, <2>7 DEF OnceInv
  <2> QED
    BY <2>1, <2>2, <2>3, <2>8
<1>6. ASSUME NEW s \in Worker, NEW mb \in Micro,
             \/ MiddleBackward(s, mb) \/ CallbackFails(s, mb) \/ CallbackCancelled(s, mb)
             \/ ForwardFaults(s, mb) \/ BackwardFaults(s, mb)
             \/ s = TailStage /\ TailCallback(mb)
      PROVE  /\ OnceInv'
             /\ \A t \in Worker, m \in Micro :
                  call'[t][m] = call[t][m] \/ call[t][m] \in {"none", "sent", "running"}
  <2>1. PICK v \in {"ok", "error", "cancelled"} : call' = [call EXCEPT ![s][mb] = v]
    BY <1>6 DEF MiddleBackward, CallbackFails, CallbackCancelled, ForwardFaults, BackwardFaults,
                TailCallback
  <2>2. call[s][mb] \in {"sent", "running"} /\ task' = task
    BY <1>6 DEF MiddleBackward, CallbackFails, CallbackRaises, CallbackCancelled, ForwardFaults,
                BackwardFaults, TailCallback
  <2>3. \A t \in Worker, m \in Micro :
          call'[t][m] = IF t = s /\ m = mb THEN v ELSE call[t][m]
    BY <2>1 DEF TypeOK
  <2>4. OnceInv'
    BY <2>1, <2>2, CallbackEndsOnce
  <2> QED
    BY <2>2, <2>3, <2>4
<1>7. ASSUME NEW s \in Worker, NEW mb \in Micro, CallBreaks(s, mb)
      PROVE  OnceInv' /\ call' = call
  BY <1>7, TasksMoveOn DEF CallBreaks
<1> QED
  BY <1>1, <1>2, <1>3, <1>4, <1>5, <1>6, <1>7 DEF Next, HeadTask, WorkerCallback

\* There are finitely many micro-batches, so many of the batches up to b.
LEMMA MicroBatchesUpTo ==
  ASSUME NEW b \in Nat
  PROVE  /\ IsFiniteSet((1 .. b) \X (1 .. NMicro))
         /\ Cardinality((1 .. b) \X (1 .. NMicro)) = b * NMicro
<1>1. IsFiniteSet(1 .. b) /\ Cardinality(1 .. b) = b
  BY FS_Interval
<1>2. IsFiniteSet(1 .. NMicro) /\ Cardinality(1 .. NMicro) = NMicro
  BY FS_Interval, NMicroAssumption
<1>3. /\ IsFiniteSet((1 .. b) \X (1 .. NMicro))
      /\ Cardinality((1 .. b) \X (1 .. NMicro)) = Cardinality(1 .. b) * Cardinality(1 .. NMicro)
  BY <1>1, <1>2, FS_Product, Zenon
<1> QED
  BY <1>1, <1>2, <1>3, Zenon

\* Callbacks that are over: their number, which only grows.
LEMMA EndedGrows ==
  ASSUME TypeOK, HeadInv, OnceInv, [Next]_vars, NEW s \in Worker
  PROVE  /\ IsFiniteSet(Ended(s)) /\ IsFiniteSet(Ended(s)')
         /\ Cardinality(Ended(s)) \in Nat /\ Cardinality(Ended(s)') \in Nat
         /\ Cardinality(Ended(s)) <= Cardinality(Ended(s)')
         /\ \A mb \in Ended(s)' : mb \notin Ended(s) =>
              Cardinality(Ended(s)) + 1 <= Cardinality(Ended(s)')
<1>1. IsFiniteSet(Micro)
  BY MicroBatchesUpTo, StagesAndWorkers DEF Micro, Batch
<1>2. IsFiniteSet(Ended(s)) /\ IsFiniteSet(Ended(s)')
  BY <1>1, FS_Subset DEF Ended
<1>3. Ended(s) \subseteq Ended(s)'
  BY OnceInvNext DEF Ended
<1>4. /\ Cardinality(Ended(s)) \in Nat /\ Cardinality(Ended(s)') \in Nat
      /\ Cardinality(Ended(s)) <= Cardinality(Ended(s)')
  BY <1>2, <1>3, FS_Subset, FS_CardinalityType
<1>5. ASSUME NEW mb \in Ended(s)', mb \notin Ended(s)
      PROVE  Cardinality(Ended(s)) + 1 <= Cardinality(Ended(s)')
  <2>1. Cardinality(Ended(s) \cup {mb}) = Cardinality(Ended(s)) + 1
    BY <1>2, <1>5, FS_AddElement
  <2>2. Cardinality(Ended(s) \cup {mb}) <= Cardinality(Ended(s)')
    BY <1>2, <1>3, <1>5, FS_Subset
  <2> QED
    BY <2>1, <2>2
<1> QED
  BY <1>2, <1>4, <1>5

\* A round that is complete is accum_steps passes long.
LEMMA RoundComplete ==
  ASSUME NEW n \in Nat \ {0}, NEW w \in Nat, NEW b \in Nat, w * n <= b, (b + 1) % n = 0
  PROVE  (w + 1) * n <= b + 1
<1>1. PICK k \in Nat : b + 1 = k * n
  <2>1. b + 1 = n * ((b + 1) \div n) + ((b + 1) % n) /\ (b + 1) \div n \in Nat
    OBVIOUS
  <2> QED
    BY <2>1
<1>2. w * n < k * n
  BY <1>1
<1>3. w < k
  <2>1. k <= w => k * n <= w * n
    BY ProductGrows
  <2> QED
    BY <1>2, <2>1, ProductGrows
<1> QED
  BY <1>1, <1>3, ProductGrows

\* The workers' files name positive numbers.
LEMMA AccumStepsTypes == ASSUME NEW s \in Worker PROVE AccumSteps[s] \in Nat \ {0}
  BY AccumStepsAssumption

\* What CountInv says of a worker.
Counted(s) ==
  /\ weight[s] * AccumSteps[s] <= bw_completed[s]
  /\ bw_completed[s] <= Cardinality(Ended(s))

\* A worker counts a pass when its callback ends.
LEMMA CountedNext ==
  ASSUME TypeOK, HeadInv, OnceInv, [Next]_vars, NEW s \in Worker, Counted(s),
         \/ bw_completed'[s] = bw_completed[s] /\ weight'[s] = weight[s]
         \/ CompleteBackward(s) /\ \E mb \in Ended(s)' : mb \notin Ended(s)
  PROVE  Counted(s)'
<1>1. weight[s] \in Nat /\ bw_completed[s] \in Nat /\ s \in Stage
  BY StagesAndWorkers DEF TypeOK
<1>2. CASE bw_completed'[s] = bw_completed[s] /\ weight'[s] = weight[s]
  <2>1. weight'[s] * AccumSteps[s] <= bw_completed'[s]
    BY <1>2 DEF Counted
  <2>2. bw_completed'[s] <= Cardinality(Ended(s)')
    BY <1>1, <1>2, EndedGrows DEF Counted
  <2> QED
    BY <2>1, <2>2 DEF Counted
<1>3. CASE CompleteBackward(s) /\ \E mb \in Ended(s)' : mb \notin Ended(s)
  <2>1. /\ bw_completed'[s] = bw_completed[s] + 1
        /\ weight'[s] = IF LastOfRound(s) THEN weight[s] + 1 ELSE weight[s]
    BY <1>1, <1>3 DEF CompleteBackward, TypeOK
  <2>2. bw_completed'[s] <= Cardinality(Ended(s)')
    BY <1>1, <1>3, <2>1, EndedGrows DEF Counted
  <2>3. weight'[s] * AccumSteps[s] <= bw_completed'[s]
    <3>1. CASE LastOfRound(s)
      <4>1. weight[s] * AccumSteps[s] <= bw_completed[s] /\ (bw_completed[s] + 1) % AccumSteps[s] = 0
        BY <3>1 DEF Counted, LastOfRound
      <4> QED
        BY <1>1, <2>1, <3>1, <4>1, AccumStepsTypes, RoundComplete
    <3>2. CASE ~LastOfRound(s)
      <4>1. weight[s] * AccumSteps[s] \in Nat
        BY <1>1, AccumStepsTypes, ProductGrows
      <4> QED
        BY <1>1, <2>1, <3>2, <4>1 DEF Counted
    <3> QED
      BY <3>1, <3>2
  <2> QED
    BY <2>2, <2>3 DEF Counted
<1> QED
  BY <1>2, <1>3

\* No other step touches a worker's counters.
LEMMA WorkersCount ==
  ASSUME TypeOK, HeadInv, OnceInv, CountInv, [Next]_vars, NEW s \in Worker
  PROVE  Counted(s)'
<1> USE StagesAndWorkers
<1>1. Counted(s)
  BY DEF CountInv, Counted
<1> DEFINE Kept == bw_completed'[s] = bw_completed[s] /\ weight'[s] = weight[s]
<1>2. CASE Kept
  BY <1>1, <1>2, CountedNext
<1>3. CASE StartBatch \/ EndBatch \/ UNCHANGED vars
  <2>1. Kept
    BY <1>3 DEF StartBatch, EndBatch, FinishBatch, AbortBatch, TypeOK, vars, counters
  <2> QED
    BY <1>2, <2>1
<1>4. ASSUME NEW mb \in Micro, HeadTask(mb) \/ HeadFaults(mb) PROVE Kept
  BY <1>4 DEF HeadTask, HeadForward, HeadBackward, HeadTaskFails, HeadFaults, counters
<1>5. ASSUME NEW t \in Worker, NEW mb \in Micro,
             \/ MiddleForward(t, mb) \/ CallbackFails(t, mb) \/ ForwardFaults(t, mb)
             \/ CallBreaks(t, mb) \/ CallbackCancelled(t, mb)
      PROVE  Kept
  BY <1>5 DEF MiddleForward, CallbackFails, ForwardFaults, CallBreaks, CallbackCancelled, counters
<1>6. ASSUME NEW t \in Worker, NEW mb \in Micro,
             \/ MiddleBackward(t, mb) \/ BackwardFaults(t, mb)
             \/ t = TailStage /\ TailCallback(mb)
      PROVE  Counted(s)'
  <2>1. UNCHANGED <<bw_completed, weight>> \/ CompleteBackward(t)
    BY <1>6 DEF MiddleBackward, BackwardFaults, TailCallback
  <2>2. CASE s # t \/ UNCHANGED <<bw_completed, weight>>
    <3>1. Kept
      BY <2>1, <2>2 DEF CompleteBackward, TypeOK
    <3> QED
      BY <1>2, <3>1
  <2>3. CASE s = t /\ CompleteBackward(t)
    <3>1. PICK v \in {"ok", "error"} : call' = [call EXCEPT ![t][mb] = v]
      BY <1>6 DEF MiddleBackward, BackwardFaults, TailCallback
    <3>2. call[t][mb] \in {"sent", "running"}
      BY <1>6 DEF MiddleBackward, BackwardFaults, TailCallback
    <3>3. call'[t][mb] = v
      BY <3>1 DEF TypeOK
    <3>4. mb \in Ended(s)' /\ mb \notin Ended(s)
      BY <2>3, <3>2, <3>3 DEF Ended
    <3> QED
      BY <1>1, <2>3, <3>4, CountedNext
  <2> QED
    BY <2>1, <2>2, <2>3
<1> HIDE DEF Kept
<1> QED
  BY <1>2, <1>3, <1>4, <1>5, <1>6 DEF Next, WorkerCallback

\* The head steps once at most for a batch.
LEMMA HeadCounts ==
  ASSUME TypeOK, CountInv, [Next]_vars
  PROVE  weight'[0] + (IF pc' = "running" THEN 1 ELSE 0) <= batch'
<1> USE StagesAndWorkers
<1>1. weight[0] \in Nat /\ batch \in Nat
  BY DEF TypeOK
<1>2. CASE StartBatch
  BY <1>1, <1>2 DEF StartBatch, CountInv
<1>3. CASE FinishBatch
  BY <1>1, <1>3 DEF FinishBatch, CountInv, TypeOK
<1>4. CASE AbortBatch
  BY <1>1, <1>4 DEF AbortBatch, CountInv
<1>5. CASE UNCHANGED <<weight, pc, batch>>
  BY <1>5 DEF CountInv
<1>6. ASSUME NEW mb \in Micro, HeadTask(mb) \/ HeadFaults(mb) PROVE UNCHANGED <<weight, pc, batch>>
  BY <1>6 DEF HeadTask, HeadForward, HeadBackward, HeadTaskFails, HeadFaults, headVars
<1>7. ASSUME NEW s \in Worker, NEW mb \in Micro, WorkerStep(s, mb)
      PROVE  weight'[0] = weight[0] /\ pc' = pc /\ batch' = batch
  BY <1>7, WorkersLeaveHead DEF headVars
<1>8. CASE UNCHANGED vars
  BY <1>5, <1>8 DEF vars, headVars
<1> QED
  BY <1>2, <1>3, <1>4, <1>5, <1>6, <1>7, <1>8 DEF Next, EndBatch, WorkerStep, CountInv

\* Every step keeps the counts.
LEMMA CountInvNext ==
  ASSUME TypeOK, HeadInv, OnceInv, CountInv, [Next]_vars
  PROVE  CountInv'
  BY HeadCounts, WorkersCount DEF CountInv, Counted

\* Only micro-batches of batches that have begun are called.
LEMMA CountsBoundSteps ==
  ASSUME TypeOK, HeadInv, OnceInv, CountInv
  PROVE  NoStageAhead
<1> USE StagesAndWorkers
<1>1. batch \in Nat /\ \A s \in Stage : weight[s] \in Nat /\ bw_completed[s] \in Nat
  BY DEF TypeOK
<1>2. weight[0] <= batch
  BY <1>1 DEF CountInv
<1>3. ASSUME NEW s \in Worker PROVE weight[s] * AccumSteps[s] <= batch * NMicro
  <2>1. Ended(s) \subseteq (1 .. batch) \X (1 .. NMicro)
    <3>1. ASSUME NEW mb \in Ended(s) PROVE mb \in Micro /\ mb[1] <= batch
      <4>1. mb \in Micro /\ mb[1] \in Nat /\ call[s][mb] # "none"
        BY DEF Ended, Micro, Batch
      <4>2. task[mb] # "none"
        BY <4>1 DEF OnceInv
      <4> QED
        BY <1>1, <4>1, <4>2 DEF HeadInv
    <3> QED
      BY <1>1, <3>1 DEF Micro, Batch
  <2>2. Cardinality(Ended(s)) \in Nat /\ Cardinality(Ended(s)) <= batch * NMicro
    <3>1. PICK P : /\ P = (1 .. batch) \X (1 .. NMicro)
                   /\ IsFiniteSet(P) /\ Cardinality(P) = batch * NMicro
      BY <1>1, MicroBatchesUpTo
    <3>2. IsFiniteSet(Ended(s)) /\ Cardinality(Ended(s)) <= Cardinality(P)
      BY <2>1, <3>1, FS_Subset
    <3> QED
      BY <3>1, <3>2, FS_CardinalityType
  <2>3. weight[s] * AccumSteps[s] <= bw_completed[s] /\ bw_completed[s] <= Cardinality(Ended(s))
    BY DEF CountInv
  <2>4. weight[s] * AccumSteps[s] \in Nat /\ batch * NMicro \in Nat
    BY <1>1, AccumStepsTypes, NMicroAssumption, ProductGrows
  <2> QED
    BY <1>1, <2>2, <2>3, <2>4
<1> QED
  BY <1>2, <1>3 DEF NoStageAhead

-----------------------------------------------------------------------------
(* A stage without an optimizer.                                           *)

\* Its counter stays where a round begins.
LEMMA BareNeverForwards ==
  ASSUME NEW s \in Worker, BareInv, ~optimizer[s]
  PROVE  ~MayForward(s)
<1>1. s \in Stage /\ 0 % AccumSteps[s] = 0
  BY StagesAndWorkers, AccumStepsTypes
<1> QED
  BY <1>1 DEF BareInv, MayForward, FirstOfRound

\* An answer that is fine comes from a call that is.
LEMMA AnswerOk ==
  ASSUME NEW s \in Worker, NEW mb \in Micro, TypeOK, Answer(s, mb) = "ok"
  PROVE  call[s][mb] = "ok" /\ Returned(s, mb)
<1>1. connection[s][mb] \in {"up", "error", "silent"}
  BY DEF TypeOK
<1>2. call[s][mb] = "ok"
  BY <1>1 DEF Answer
<1> QED
  BY <1>2, StagesAndWorkers DEF Returned

\* Nobody gets or loses an optimizer.
LEMMA OptimizerKept ==
  ASSUME TypeOK, [Next]_vars
  PROVE  optimizer' = optimizer
<1>1. ASSUME NEW s \in Worker, NEW mb \in Micro, WorkerStep(s, mb) PROVE optimizer' = optimizer
  BY <1>1, WorkersLeaveHead DEF headVars
<1>2. ASSUME NEW mb \in Micro, HeadTask(mb) \/ HeadFaults(mb) PROVE optimizer' = optimizer
  BY <1>2 DEF HeadTask, HeadForward, HeadBackward, HeadTaskFails, HeadFaults, headVars
<1> QED
  BY <1>1, <1>2 DEF Next, WorkerStep, StartBatch, EndBatch, FinishBatch, AbortBatch, vars, headVars

\* What BareInv says of a stage s without an optimizer.
Closed(s) ==
  /\ \A t \in Stage : grads[t] = {} /\ weight[t] = 0
  /\ s = 0 => pc = "idle"
  /\ fw_started[s] = 0
  /\ \A mb \in Micro :
       /\ ~Forwarded(s, mb)
       /\ \A t \in Stage : t > s => call[t][mb] = "none"
       /\ \A t \in Stage : t <= s => ~Returned(t, mb)

\* It is enough to look at what changes.
LEMMA ClosedBy ==
  ASSUME NEW s \in Stage, Closed(s),
         \A t \in Stage : grads'[t] \subseteq grads[t] /\ weight'[t] = weight[t],
         s = 0 => pc' = pc,
         fw_started'[s] = fw_started[s],
         \A t \in Stage, mb \in Micro :
           /\ t > s => call'[t][mb] = call[t][mb]
           /\ t = s => (Forwarded(t, mb)' => Forwarded(t, mb))
           /\ t <= s => (Returned(t, mb)' => Returned(t, mb))
  PROVE  Closed(s)'
<1>1. \A t \in Stage : grads'[t] = {} /\ weight'[t] = 0
  BY DEF Closed
<1>2. (s = 0 => pc' = "idle") /\ fw_started'[s] = 0
  BY DEF Closed
<1>3. ASSUME NEW mb \in Micro PROVE ~Forwarded(s, mb)'
  BY DEF Closed
<1>4. ASSUME NEW mb \in Micro, NEW t \in Stage, t > s PROVE call'[t][mb] = "none"
  BY <1>4 DEF Closed
<1>5. ASSUME NEW mb \in Micro, NEW t \in Stage, t <= s PROVE ~Returned(t, mb)'
  BY <1>5 DEF Closed
<1> QED
  BY <1>1, <1>2, <1>3, <1>4, <1>5 DEF Closed

\* The head gets no gradient, nor does it begin when it is the one.
LEMMA HeadKeepsClosed ==
  ASSUME TypeOK, HeadInv, BareInv, NEW s \in Stage, ~optimizer[s], Closed(s),
         StartBatch \/ EndBatch \/ \E mb \in Micro : HeadTask(mb) \/ HeadFaults(mb)
  PROVE  Closed(s)'
<1> USE StagesAndWorkers
<1>1. CASE StartBatch
  <2>1. CASE optimizer[0]
    <3>1. s # 0
      BY <2>1
    <3>2. \A t \in Stage : grads'[t] \subseteq grads[t]
      BY <1>1, <2>1 DEF StartBatch, TypeOK
    <3>3. \A mb \in Micro : task'[mb] \in {"waiting", task[mb]}
      BY <1>1, <2>1 DEF StartBatch, TypeOK
    <3> QED
      BY <1>1, <3>1, <3>2, <3>3, ClosedBy DEF StartBatch, Forwarded, Returned, counters
  <2>2. CASE ~optimizer[0]
    BY <1>1, <2>2, ClosedBy DEF StartBatch, Forwarded, Returned, counters
  <2> QED
    BY <2>1, <2>2
<1>2. ~FinishBatch
  <2>1. SUFFICES ASSUME FinishBatch PROVE FALSE
    OBVIOUS
  <2>2. PICK mb \in MicroOf(batch) : mb \in Micro
    BY <2>1, MicroOfBatch DEF FinishBatch, HeadInv
  <2> QED
    BY <2>1, <2>2 DEF FinishBatch, Gathered, Closed, Returned
<1>3. CASE AbortBatch
  BY <1>3 DEF AbortBatch, Closed, Forwarded, Returned, counters
<1>4. ASSUME NEW mb \in Micro, HeadForward(mb) PROVE Closed(s)'
  <2>1. s # 0
    BY <1>4 DEF HeadForward, MayEnter, Closed
  <2>2. \A other \in Micro : task'[other] \in {"sent", task[other]}
    BY <1>4 DEF HeadForward, TypeOK
  <2>3. \A t \in Stage, other \in Micro : t # 1 /\ t # 0 => call'[t][other] = call[t][other]
    BY <1>4 DEF HeadForward, TypeOK
  <2>4. \A other \in Micro : call'[1][other] \in {"sent", call[1][other]}
    BY <1>4 DEF HeadForward, TypeOK
  <2> QED
    BY <1>4, <2>1, <2>2, <2>3, <2>4, ClosedBy
       DEF HeadForward, Forwarded, Returned, headVars, counters
<1>5. ASSUME NEW mb \in Micro, pc = "running", Answer(1, mb) = "ok" PROVE FALSE
  BY <1>5, AnswerOk DEF Closed
<1>6. ASSUME NEW mb \in Micro, HeadTaskFails(mb) \/ HeadFaults(mb) PROVE Closed(s)'
  <2>1. grads' = grads /\ task' = [task EXCEPT ![mb] = "failed"]
    BY <1>5, <1>6 DEF HeadTaskFails, HeadFaults
  <2>2. UNCHANGED <<headVars, call, connection, counters, weight>>
    BY <1>6 DEF HeadTaskFails, HeadFaults
  <2> QED
    BY <2>1, <2>2 DEF Closed, Forwarded, Returned, TypeOK, headVars, counters
<1> QED
  BY <1>1, <1>2, <1>3, <1>4, <1>5, <1>6 DEF EndBatch, HeadTask, HeadBackward

\* A worker in front of it may zero what is zero, one behind it gets no call.
LEMMA WorkersKeepClosed ==
  ASSUME TypeOK, BareInv, NEW s \in Stage, ~optimizer[s], Closed(s),
         NEW w \in Worker, NEW mb \in Micro, WorkerStep(w, mb)
  PROVE  Closed(s)'
<1> USE StagesAndWorkers
<1>1. UNCHANGED <<headVars, task>>
  BY WorkersLeaveHead
<1>2. call[w][mb] = "sent" /\ MayForward(w) => w < s
  BY BareNeverForwards DEF Closed
<1>3. call[w][mb] # "running" \/ w \notin Middle \/ Answer(w + 1, mb) # "ok"
  BY AnswerOk DEF Closed, Forwarded
<1>4. CASE MiddleForward(w, mb)
  <2>1. grads' = grads
    BY <1>4 DEF MiddleForward, Zeroed, Closed, TypeOK
  <2>2. weight' = weight /\ fw_started'[s] = fw_started[s]
    BY <1>2, <1>4 DEF MiddleForward, CountForward, TypeOK
  <2>3. \A t \in Worker, other \in Micro :
           \/ call'[t][other] = call[t][other]
           \/ t <= s /\ call'[t][other] = "sent"
           \/ t < s /\ call'[t][other] = "running"
    <3>1. w < s /\ w + 1 <= s
      BY <1>2, <1>4 DEF MiddleForward
    <3> QED
      BY <1>4, <3>1 DEF MiddleForward, TypeOK
  <2> QED
    <3>1. ASSUME NEW t \in Stage, NEW other \in Micro
          PROVE  /\ t > s => call'[t][other] = call[t][other]
                 /\ t = s => (Forwarded(t, other)' => Forwarded(t, other))
                 /\ t <= s => (Returned(t, other)' => Returned(t, other))
      <4>1. CASE t = 0
        BY <1>1, <4>1 DEF Forwarded, Returned
      <4>2. CASE t \in Worker
        <5>1. \/ call'[t][other] = call[t][other]
              \/ t <= s /\ call'[t][other] = "sent"
              \/ t < s /\ call'[t][other] = "running"
          BY <2>3, <4>2
        <5> QED
          BY <4>2, <5>1 DEF Forwarded, Returned, Stage
      <4> QED
        BY <4>1, <4>2
    <3> QED
      BY <1>1, <2>1, <2>2, <3>1, ClosedBy DEF headVars
<1>5. ~MiddleBackward(w, mb)
  BY <1>3 DEF MiddleBackward
<1>6. ~(w = TailStage /\ TailCallback(mb))
  BY <1>2 DEF TailCallback
<1>7. CASE CallbackFails(w, mb)
  <2>1. w <= s
    BY <1>7 DEF CallbackFails, CallbackRaises, Closed
  <2>2. \A t \in Worker, other \in Micro :
           call'[t][other] = call[t][other] \/ (t = w /\ call'[t][other] = "error")
    BY <1>7 DEF CallbackFails, TypeOK
  <2> QED
    BY <1>1, <1>7, <2>1, <2>2, ClosedBy DEF CallbackFails, Forwarded, Returned, headVars, counters
<1>8. CASE ForwardFaults(w, mb)
  <2>1. grads' = grads
    BY <1>8 DEF ForwardFaults, Zeroed, Closed, TypeOK
  <2>2. weight' = weight /\ fw_started'[s] = fw_started[s]
    BY <1>2, <1>8 DEF ForwardFaults, CountFailedForward, CountForward, TypeOK
  <2>3. w < s
    BY <1>2, <1>8 DEF ForwardFaults
  <2>4. \A t \in Worker, other \in Micro :
           call'[t][other] = call[t][other] \/ (t = w /\ call'[t][other] = "error")
    BY <1>8 DEF ForwardFaults, TypeOK
  <2>5. ASSUME NEW t \in Stage, NEW other \in Micro
        PROVE  /\ t > s => call'[t][other] = call[t][other]
               /\ Forwarded(t, other)' => Forwarded(t, other)
               /\ Returned(t, other)' => Returned(t, other)
    <3>1. CASE t = 0
      BY <1>1, <2>3, <3>1 DEF Forwarded, Returned
    <3>2. CASE t \in Worker
      <4>1. call'[t][other] = call[t][other] \/ (t = w /\ call'[t][other] = "error")
        BY <2>4, <3>2
      <4> QED
        BY <2>3, <3>2, <4>1 DEF Forwarded, Returned, Stage
    <3> QED
      BY <3>1, <3>2
  <2> QED
    BY <1>1, <2>1, <2>2, <2>5, ClosedBy DEF headVars
<1>9. ~BackwardFaults(w, mb)
  BY <1>2, <1>3 DEF BackwardFaults, Worker, Middle, TailStage
<1>10. CASE CallBreaks(w, mb)
  BY <1>1, <1>10, ClosedBy DEF CallBreaks, Forwarded, Returned, headVars, counters
<1>11. CASE CallbackCancelled(w, mb)
  <2>1. w <= s
    BY <1>11 DEF CallbackCancelled, Closed
  <2>2. \A t \in Worker, other \in Micro :
           call'[t][other] = call[t][other] \/ (t = w /\ call'[t][other] = "cancelled")
    BY <1>11 DEF CallbackCancelled, TypeOK
  <2> QED
    BY <1>1, <1>11, <2>1, <2>2, ClosedBy
       DEF CallbackCancelled, Forwarded, Returned, headVars, counters
<1> QED
  BY <1>4, <1>5, <1>6, <1>7, <1>8, <1>9, <1>10, <1>11 DEF WorkerStep, WorkerCallback

\* With such a stage, what may still happen leaves gradients and weights alone.
LEMMA BareInvNext ==
  ASSUME TypeOK, HeadInv, BareInv, [Next]_vars
  PROVE  BareInv'
<1>1. BareInv <=> \A s \in Stage : ~optimizer[s] => Closed(s)
  BY DEF BareInv, BareStageStopsTraining, Closed
<1>2. BareInv' <=> \A s \in Stage : ~optimizer'[s] => Closed(s)'
  BY DEF BareInv, BareStageStopsTraining, Closed
<1>3. SUFFICES ASSUME NEW s \in Stage, ~optimizer[s], Closed(s) PROVE Closed(s)'
  BY <1>1, <1>2, OptimizerKept
<1>4. CASE UNCHANGED vars
  BY <1>3, <1>4, ClosedBy DEF vars, headVars, counters, Forwarded, Returned
<1>5. CASE StartBatch \/ EndBatch \/ \E mb \in Micro : HeadTask(mb) \/ HeadFaults(mb)
  BY <1>3, <1>5, HeadKeepsClosed
<1>6. ASSUME NEW w \in Worker, NEW mb \in Micro, WorkerStep(w, mb) PROVE Closed(s)'
  BY <1>3, <1>6, WorkersKeepClosed
<1> QED
  BY <1>4, <1>5, <1>6 DEF Next, WorkerStep

-----------------------------------------------------------------------------
(* Rounds of n_micro.                                                      *)

\* Counting on modulo n.
LEMMA NextRemainder ==
  ASSUME NEW n \in Nat \ {0}, NEW c \in Nat
  PROVE  (c + 1) % n = IF (c % n) + 1 = n THEN 0 ELSE (c % n) + 1
<1> DEFINE q == c \div n
           r == c % n
           p == (c + 1) \div n
           m == (c + 1) % n
<1>1. q \in Nat /\ r \in 0 .. n - 1 /\ c = n * q + r
  OBVIOUS
<1>2. p \in Nat /\ m \in 0 .. n - 1 /\ c + 1 = n * p + m
  OBVIOUS
<1> HIDE DEF q, r, p, m
<1>3. CASE r + 1 < n
  <2>1. n * p < n * (q + 1)
    BY <1>1, <1>2, <1>3
  <2>2. n * q < n * (p + 1)
    BY <1>1, <1>2, <1>3
  <2>3. p < q + 1
    BY <1>1, <1>2, <2>1
  <2>4. q < p + 1
    BY <1>1, <1>2, <2>2
  <2>5. p = q
    BY <1>1, <1>2, <2>3, <2>4
  <2> QED
    BY <1>1, <1>2, <1>3, <2>5 DEF r, m
<1>4. CASE r + 1 = n
  <2>1. c + 1 = n * (q + 1)
    BY <1>1, <1>4
  <2>2. n * p < n * (q + 2)
    BY <1>1, <1>2, <2>1
  <2>3. n * (q + 1) < n * (p + 1)
    BY <1>1, <1>2, <2>1
  <2>4. p < q + 2
    BY <1>1, <1>2, <2>2
  <2>5. q + 1 < p + 1
    BY <1>1, <1>2, <2>3
  <2>6. p = q + 1
    BY <1>1, <1>2, <2>4, <2>5
  <2> QED
    BY <1>1, <1>2, <1>4, <2>1, <2>6 DEF r, m
<1> QED
  BY <1>1, <1>3, <1>4

\* A counter that stands where some pieces have passed moves on with another one.
LEMMA PieceAdded ==
  ASSUME NEW pieces \in SUBSET (1 .. NMicro), NEW i \in (1 .. NMicro) \ pieces,
         NEW c \in Nat, c % NMicro = CountOf(pieces)
  PROVE  /\ c % NMicro = 0 <=> pieces = {}
         /\ (c + 1) % NMicro = CountOf(pieces \cup {i})
         /\ (c + 1) % NMicro = 0 <=> pieces \cup {i} = 1 .. NMicro
<1> DEFINE all == 1 .. NMicro
           more == pieces \cup {i}
<1>1. IsFiniteSet(all) /\ Cardinality(all) = NMicro
  BY FS_Interval, NMicroAssumption
<1>2. IsFiniteSet(pieces) /\ Cardinality(pieces) <= NMicro
  BY <1>1, FS_Subset
<1>3. more \subseteq all
  OBVIOUS
<1> HIDE DEF all, more
<1>4. Cardinality(more) <= NMicro /\ (Cardinality(more) = NMicro <=> more = all)
  <2>1. Cardinality(more) <= Cardinality(all) /\ (Cardinality(more) = Cardinality(all) => more = all)
    BY <1>1, <1>3, FS_Subset, ZenonT(40)
  <2> QED
    BY <1>1, <2>1
<1> USE DEF all, more
<1>5. Cardinality(more) = Cardinality(pieces) + 1
  BY <1>2, FS_AddElement
<1>6. Cardinality(pieces) \in Nat /\ (Cardinality(pieces) = 0 <=> pieces = {})
  BY <1>2, FS_CardinalityType, FS_EmptySet
<1>7. c % NMicro = Cardinality(pieces)
  BY DEF CountOf
<1>8. (c + 1) % NMicro = IF (c % NMicro) + 1 = NMicro THEN 0 ELSE (c % NMicro) + 1
  <2>1. NMicro \in Nat \ {0}
    BY NMicroAssumption
  <2> QED
    BY <2>1, NextRemainder
<1> QED
  BY <1>4, <1>5, <1>6, <1>7, <1>8 DEF CountOf

\* Before the first piece and after the last a counter is at the same place.
LEMMA RoundsMeet ==
  CountOf({}) = 0 /\ CountOf(1 .. NMicro) = 0
  BY FS_EmptySet, NMicroAssumption DEF CountOf

-----------------------------------------------------------------------------
(* Regular training, stage by stage.                                       *)

\* What IInv says of a regular state.
LEMMA RegularFacts ==
  ASSUME IInv, Regular
  PROVE  /\ TypeOK /\ HeadInv /\ ChainInv
         /\ \A s \in Stage : StageInv(s)
         /\ pc = "idle" => \A mb \in Micro : mb[1] = batch => task[mb] = "done"
         /\ batch \in Nat /\ (batch > 0 => batch \in Batch)
<1>1. TypeOK /\ HeadInv /\ RegularInv
  BY DEF IInv
<1>2. batch \in Nat /\ (batch > 0 => batch \in Batch)
  BY <1>1, StagesAndWorkers DEF TypeOK, Batch
<1> QED
  BY <1>1, <1>2 DEF RegularInv

\* The micro-batches of the current batch are its pieces.
LEMMA CurrentPiece ==
  /\ \A mb \in Micro : mb[1] \in Batch /\ mb[2] \in 1 .. NMicro /\ mb = <<mb[1], mb[2]>>
  /\ \A b \in Batch, i \in 1 .. NMicro : <<b, i>> \in Micro
  BY DEF Micro

\* In a regular run there are n_micro of them.
LEMMA RegularPieces ==
  ASSUME Regular, TypeOK, batch > 0
  PROVE  MicroOf(batch) = {batch} \X (1 .. NMicro)
  BY StagesAndWorkers DEF Regular, MicroOf, TypeOK

\* A micro-batch that a stage is at work on belongs to the current batch, for which
\* the stage has not stepped yet.
LEMMA Active ==
  ASSUME IInv, Regular, NEW s \in Stage, NEW mb \in Micro,
         IF s = 0 THEN task[mb] \in {"waiting", "sent"} ELSE call[s][mb] \in {"sent", "running"}
  PROVE  /\ pc = "running" /\ batch \in Batch /\ mb[1] = batch
         /\ mb[2] \in (1 .. NMicro) \ Returns(s) /\ mb = <<batch, mb[2]>>
         /\ weight[s] + 1 = batch
<1> USE StagesAndWorkers, RegularFacts
<1>1. task[mb] \in {"waiting", "sent", "done"} /\ ~Returned(s, mb)
  <2>1. CASE s = 0
    BY <2>1 DEF Returned
  <2>2. CASE s # 0
    <3>1. s \in Worker /\ 0 < s /\ call[s][mb] # "none"
      BY <2>2 DEF Stage
    <3>2. Forwarded(0, mb)
      BY <3>1 DEF ChainInv, Chained
    <3> QED
      BY <2>2, <3>2 DEF Forwarded, Returned
  <2> QED
    BY <2>1, <2>2
<1>2. ~Returned(0, mb)
  <2>1. CASE s = 0
    BY <1>1, <2>1
  <2>2. CASE s # 0
    <3>1. s > 0
      BY <2>2
    <3> QED
      BY <1>1, <3>1 DEF ChainInv, Chained
  <2> QED
    BY <2>1, <2>2
<1>3. mb[1] \in Nat /\ mb[1] \in Batch
  BY CurrentPiece DEF Batch
<1>4. mb[1] = batch
  BY <1>1, <1>2, <1>3 DEF HeadInv, ChainInv, Chained, Returned
<1>5. pc = "running"
  BY <1>2, <1>4 DEF TypeOK, Returned
<1>6. mb[2] \in (1 .. NMicro) \ Returns(s) /\ mb = <<batch, mb[2]>>
  BY <1>1, <1>4, CurrentPiece DEF Returns
<1>7. Owes(s)
  <2>1. batch > 0
    BY <1>3, <1>4 DEF Batch
  <2> QED
    BY <1>5, <1>6, <2>1 DEF Owes
<1>8. weight[s] = batch - 1
  BY <1>7 DEF StageInv
<1> QED
  BY <1>3, <1>4, <1>5, <1>6, <1>8

\* Its graph is not stale.
LEMMA ActiveFresh ==
  ASSUME IInv, Regular, NEW s \in Stage, NEW mb \in Micro,
         IF s = 0 THEN task[mb] = "sent" ELSE call[s][mb] = "running"
  PROVE  ~Stale(s, mb)
<1>1. Forwarded(s, mb) /\ ~Returned(s, mb)
  BY DEF Forwarded, Returned
<1>2. version[s][mb] + 1 = batch /\ weight[s] + 1 = batch
  BY <1>1, Active, RegularFacts DEF StageInv
<1>3. version[s][mb] \in Nat /\ weight[s] \in Nat
  BY RegularFacts DEF TypeOK
<1> QED
  BY <1>2, <1>3 DEF Stale

\* When a task is done, so is the micro-batch at every stage; all stages have
\* stepped when all tasks are.
LEMMA DoneEverywhere ==
  ASSUME IInv, Regular, NEW s \in Stage, \A mb \in Micro : mb[1] = batch => Returned(s, mb)
  PROVE  \A t \in Stage : t > s => weight[t] = batch
<1> SUFFICES ASSUME NEW t \in Stage, t > s PROVE weight[t] = batch
  OBVIOUS
<1>1. ASSUME batch > 0 PROVE Returns(t) = 1 .. NMicro
  <2>1. \A i \in 1 .. NMicro : <<batch, i>> \in Micro
    BY <1>1, RegularFacts, CurrentPiece
  <2>2. \A i \in 1 .. NMicro : Returned(t, <<batch, i>>)
    BY <2>1, RegularFacts DEF ChainInv, Chained
  <2> QED
    BY <1>1, <2>2 DEF Returns
<1>2. ~Owes(t)
  BY <1>1, StagesAndWorkers DEF Owes
<1> QED
  BY <1>2, RegularFacts DEF StageInv

\* Regular training rests on files that agree.
LEMMA AgreedSteps == ASSUME Regular, NEW s \in Worker PROVE AccumSteps[s] = NMicro
  BY DEF Regular

\* The forward half of a worker's round.
LEMMA ForwardHalf ==
  ASSUME IInv, Regular, NEW s \in Worker, NEW i \in (1 .. NMicro) \ Forwards(s), CountForward(s)
  PROVE  /\ Zeroed(s) = {batch} \X Returns(s)
         /\ fw_started'[s] % NMicro = CountOf(Forwards(s) \cup {i})
<1> USE StagesAndWorkers
<1>1. fw_started[s] \in Nat /\ fw_started'[s] = fw_started[s] + 1
  BY RegularFacts DEF TypeOK, CountForward
<1>2. Forwards(s) \in SUBSET (1 .. NMicro) /\ Returns(s) \subseteq Forwards(s)
  BY DEF Forwards, Returns, Forwarded, Returned
<1>3. fw_started[s] % NMicro = CountOf(Forwards(s))
  BY RegularFacts DEF StageInv
<1>4. /\ FirstOfRound(s) <=> Forwards(s) = {}
      /\ fw_started'[s] % NMicro = CountOf(Forwards(s) \cup {i})
  <2> DEFINE c == fw_started[s]
             pieces == Forwards(s)
  <2>1. pieces \in SUBSET (1 .. NMicro) /\ c \in Nat /\ c % NMicro = CountOf(pieces)
    BY <1>1, <1>2, <1>3
  <2>2. i \in (1 .. NMicro) \ pieces
    OBVIOUS
  <2> HIDE DEF c, pieces
  <2>3. /\ c % NMicro = 0 <=> pieces = {}
        /\ (c + 1) % NMicro = CountOf(pieces \cup {i})
        /\ (c + 1) % NMicro = 0 <=> pieces \cup {i} = 1 .. NMicro
    BY <2>1, <2>2, PieceAdded, ZenonT(40)
  <2> QED
    BY <1>1, <2>3, AgreedSteps DEF FirstOfRound, c, pieces
<1>5. Forwards(s) # {} => grads[s] = {batch} \X Returns(s)
  BY RegularFacts DEF StageInv
<1> QED
  BY <1>2, <1>4, <1>5 DEF Zeroed

\* The backward half: the step is taken with the last piece of the batch.
LEMMA BackwardHalf ==
  ASSUME IInv, Regular, NEW s \in Worker, NEW i \in (1 .. NMicro) \ Returns(s),
         weight[s] + 1 = batch, CompleteBackward(s)
  PROVE  /\ bw_completed'[s] % NMicro = CountOf(Returns(s) \cup {i})
         /\ weight'[s] = IF Returns(s) \cup {i} = 1 .. NMicro THEN batch ELSE batch - 1
         /\ weight'[s] # weight[s] <=> Returns(s) \cup {i} = 1 .. NMicro
<1> USE StagesAndWorkers
<1>1. /\ bw_completed[s] \in Nat /\ bw_completed'[s] = bw_completed[s] + 1
      /\ weight[s] \in Nat /\ weight'[s] = IF LastOfRound(s) THEN weight[s] + 1 ELSE weight[s]
  BY RegularFacts DEF TypeOK, CompleteBackward
<1>2. Returns(s) \in SUBSET (1 .. NMicro)
  BY DEF Returns
<1>3. bw_completed[s] % NMicro = CountOf(Returns(s))
  BY RegularFacts DEF StageInv
<1>4. /\ bw_completed'[s] % NMicro = CountOf(Returns(s) \cup {i})
      /\ LastOfRound(s) <=> Returns(s) \cup {i} = 1 .. NMicro
  <2> DEFINE c == bw_completed[s]
             pieces == Returns(s)
  <2>1. pieces \in SUBSET (1 .. NMicro) /\ c \in Nat /\ c % NMicro = CountOf(pieces)
    BY <1>1, <1>2, <1>3
  <2>2. i \in (1 .. NMicro) \ pieces
    OBVIOUS
  <2> HIDE DEF c, pieces
  <2>3. /\ c % NMicro = 0 <=> pieces = {}
        /\ (c + 1) % NMicro = CountOf(pieces \cup {i})
        /\ (c + 1) % NMicro = 0 <=> pieces \cup {i} = 1 .. NMicro
    BY <2>1, <2>2, PieceAdded, ZenonT(40)
  <2> QED
    BY <1>1, <2>3, AgreedSteps DEF LastOfRound, c, pieces
<1> QED
  BY <1>1, <1>4, SMTT(20), ZenonT(30)

-----------------------------------------------------------------------------
(* A step of regular training, seen from the stages it leaves alone and    *)
(* from the one that it takes place at.                                    *)

\* The passes of the current batch, after a step that adds none or one.
LEMMA PassesFollow ==
  ASSUME NEW s \in Stage, NEW mb \in Micro, UNCHANGED batch, batch \in Batch, mb[1] = batch
  PROVE  /\ (\A m \in Micro : Forwarded(s, m)' <=> Forwarded(s, m)) => Forwards(s)' = Forwards(s)
         /\ (\A m \in Micro : Returned(s, m)' <=> Returned(s, m)) => Returns(s)' = Returns(s)
         /\ (\A m \in Micro : Forwarded(s, m)' <=> Forwarded(s, m) \/ m = mb)
              => Forwards(s)' = Forwards(s) \cup {mb[2]}
         /\ (\A m \in Micro : Returned(s, m)' <=> Returned(s, m) \/ m = mb)
              => Returns(s)' = Returns(s) \cup {mb[2]}
<1>1. batch > 0 /\ \A i \in 1 .. NMicro : <<batch, i>> \in Micro
  BY CurrentPiece DEF Batch
<1>2. mb[2] \in 1 .. NMicro /\ \A i \in 1 .. NMicro : <<batch, i>> = mb <=> i = mb[2]
  BY CurrentPiece
<1> QED
  BY <1>1, <1>2 DEF Forwards, Returns

\* A stage at which nothing happens.
LEMMA StageSame ==
  ASSUME NEW s \in Stage, NEW mb \in Micro, StageInv(s),
         UNCHANGED <<batch, pc>>, batch \in Batch, mb[1] = batch,
         fw_started'[s] = fw_started[s], bw_completed'[s] = bw_completed[s],
         grads'[s] = grads[s], weight'[s] = weight[s], version'[s] = version[s],
         \A m \in Micro : (Forwarded(s, m)' <=> Forwarded(s, m)) /\ (Returned(s, m)' <=> Returned(s, m))
  PROVE  StageInv(s)'
<1>1. Forwards(s)' = Forwards(s) /\ Returns(s)' = Returns(s)
  BY PassesFollow
<1>2. Owes(s)' <=> Owes(s)
  BY <1>1 DEF Owes
<1>3. \A m \in Micro : Forwarded(s, m)' /\ ~Returned(s, m)' => version'[s][m] + 1 = batch'
  BY DEF StageInv
<1>4. /\ s # 0 => fw_started'[s] % NMicro = CountOf(Forwards(s)')
      /\ s # 0 => bw_completed'[s] % NMicro = CountOf(Returns(s)')
  BY <1>1 DEF StageInv
<1>5. Forwards(s)' # {} \/ (s = 0 /\ pc' = "running") => grads'[s] = {batch'} \X Returns(s)'
  BY <1>1 DEF StageInv
<1>6. weight'[s] = IF Owes(s)' THEN batch' - 1 ELSE batch'
  BY <1>2 DEF StageInv
<1> QED
  BY <1>3, <1>4, <1>5, <1>6 DEF StageInv, CountOf

\* A micro-batch to which nothing happens.
LEMMA ChainedSame ==
  ASSUME NEW mb \in Micro, Chained(mb), UNCHANGED <<batch, connection>>, task'[mb] = task[mb],
         \A s \in Worker : call'[s][mb] = call[s][mb]
  PROVE  Chained(mb)'
<1>1. ASSUME NEW s \in Stage
      PROVE  (Forwarded(s, mb)' <=> Forwarded(s, mb)) /\ (Returned(s, mb)' <=> Returned(s, mb))
  BY StagesAndWorkers DEF Forwarded, Returned
<1> QED
  BY <1>1, StagesAndWorkers DEF Chained

\* A step of regular training at stage s with micro-batch mb.
Touches(s, mb) ==
  /\ UNCHANGED <<headVars, connection, failures>>
  /\ mb[1] = batch /\ batch \in Batch /\ pc = "running"
  /\ \A t \in Stage : t # s =>
       /\ fw_started'[t] = fw_started[t] /\ bw_completed'[t] = bw_completed[t]
       /\ grads'[t] = grads[t] /\ weight'[t] = weight[t] /\ version'[t] = version[t]
       /\ \A m \in Micro :
            (Forwarded(t, m)' <=> Forwarded(t, m)) /\ (Returned(t, m)' <=> Returned(t, m))
  /\ \A m \in Micro \ {mb} :
       /\ task'[m] = task[m]
       /\ \A t \in Worker : call'[t][m] = call[t][m]

\* It is enough to look at that stage and that micro-batch.
LEMMA TouchesKeeps ==
  ASSUME IInv, Regular, NEW s \in Stage, NEW mb \in Micro, Touches(s, mb),
         StageInv(s)', Chained(mb)'
  PROVE  RegularInv'
<1>1. ASSUME NEW t \in Stage PROVE StageInv(t)'
  <2>1. CASE t # s
    BY <2>1, RegularFacts, StageSame DEF Touches, headVars
  <2> QED
    BY <2>1
<1>2. ASSUME NEW m \in Micro PROVE Chained(m)'
  <2>1. CASE m # mb
    BY <2>1, RegularFacts, ChainedSame DEF Touches, headVars, ChainInv
  <2> QED
    BY <2>1
<1>3. pc' # "idle"
  BY DEF Touches, headVars
<1> QED
  BY <1>1, <1>2, <1>3 DEF RegularInv, ChainInv

-----------------------------------------------------------------------------
(* Regular training, action by action.                                     *)

\* A micro-batch leaves the head.
LEMMA HeadForwardRegular ==
  ASSUME IInv, Regular, NEW mb \in Micro, HeadForward(mb)
  PROVE  RegularInv'
<1> USE StagesAndWorkers, RegularFacts
<1>1. /\ pc = "running" /\ batch \in Batch /\ mb[1] = batch
      /\ mb[2] \in (1 .. NMicro) \ Returns(0) /\ weight[0] + 1 = batch
  BY Active DEF HeadForward, MayEnter
<1>2. \A m \in Micro : task'[m] = IF m = mb THEN "sent" ELSE task[m]
  BY DEF HeadForward, TypeOK
<1>3. \A t \in Worker, m \in Micro :
        call'[t][m] = IF t = 1 /\ m = mb THEN "sent" ELSE call[t][m]
  BY DEF HeadForward, TypeOK
<1>4. \A m \in Micro : version'[0][m] = IF m = mb THEN weight[0] ELSE version[0][m]
  BY DEF HeadForward, TypeOK
<1>5. task[mb] = "waiting" /\ \A t \in Worker : call[t][mb] = "none"
  <2>1. task[mb] = "waiting"
    BY DEF HeadForward, MayEnter
  <2>2. ASSUME NEW t \in Worker, call[t][mb] # "none" PROVE FALSE
    <3>1. 0 < t
      BY DEF Worker
    <3> QED
      BY <2>1, <2>2, <3>1 DEF ChainInv, Chained, Forwarded
  <2> QED
    BY <2>1, <2>2
<1>6. Touches(0, mb)
  <2>1. ASSUME NEW t \in Stage, t # 0, NEW m \in Micro
        PROVE  (Forwarded(t, m)' <=> Forwarded(t, m)) /\ (Returned(t, m)' <=> Returned(t, m))
    BY <1>3, <1>5, <2>1, ZenonT(40) DEF Forwarded, Returned
  <2>2. \A t \in Stage : t # 0 => version'[t] = version[t]
    BY DEF HeadForward, TypeOK
  <2> QED
    BY <1>1, <1>2, <1>3, <2>1, <2>2 DEF Touches, HeadForward, headVars, counters
<1>7. Chained(mb)'
  <2>1. batch' = batch /\ connection' = connection /\ task'[mb] = "sent"
    BY <1>2 DEF HeadForward, headVars
  <2>2. \A t \in Worker : call'[t][mb] = IF t = 1 THEN "sent" ELSE "none"
    BY <1>3, <1>5
  <2>3. \A t \in Stage : ~Returned(t, mb)' /\ (Forwarded(t, mb)' <=> t = 0)
    BY <2>1, <2>2 DEF Returned, Forwarded
  <2> QED
    BY <1>1, <2>1, <2>2, <2>3 DEF Chained, ChainInv, Worker
<1>8. StageInv(0)'
  <2>1. Forwards(0)' = Forwards(0) \cup {mb[2]} /\ Returns(0)' = Returns(0)
    BY <1>1, <1>2, <1>5, PassesFollow DEF HeadForward, headVars, Forwarded, Returned
  <2>2. grads'[0] = {batch'} \X Returns(0)'
    BY <1>1, <2>1 DEF StageInv, HeadForward, headVars
  <2>3. ASSUME NEW m \in Micro, Forwarded(0, m)', ~Returned(0, m)'
        PROVE  version'[0][m] + 1 = batch'
    BY <1>1, <1>2, <1>4, <2>3 DEF StageInv, HeadForward, headVars, Forwarded, Returned
  <2>4. weight'[0] = IF Owes(0)' THEN batch' - 1 ELSE batch'
    BY <1>1 DEF StageInv, Owes, HeadForward, headVars
  <2> QED
    BY <2>2, <2>3, <2>4 DEF StageInv
<1> QED
  BY <1>6, <1>7, <1>8, TouchesKeeps

\* Its gradient is back.
LEMMA HeadBackwardRegular ==
  ASSUME IInv, Regular, NEW mb \in Micro, HeadBackward(mb)
  PROVE  RegularInv'
<1> USE StagesAndWorkers, RegularFacts
<1>1. /\ pc = "running" /\ batch \in Batch /\ mb[1] = batch /\ mb = <<batch, mb[2]>>
      /\ mb[2] \in (1 .. NMicro) \ Returns(0) /\ weight[0] + 1 = batch
  BY Active DEF HeadBackward
<1>2. \A m \in Micro : task'[m] = IF m = mb THEN "done" ELSE task[m]
  BY DEF HeadBackward, TypeOK
<1>3. task[mb] = "sent" /\ Returned(1, mb)
  BY AnswerOk DEF HeadBackward
<1>4. Touches(0, mb)
  <2>1. ASSUME NEW t \in Stage, t # 0, NEW m \in Micro
        PROVE  (Forwarded(t, m)' <=> Forwarded(t, m)) /\ (Returned(t, m)' <=> Returned(t, m))
    BY <2>1 DEF Forwarded, Returned, HeadBackward
  <2>2. \A t \in Stage : t # 0 => grads'[t] = grads[t]
    BY DEF HeadBackward, TypeOK
  <2> QED
    BY <1>1, <1>2, <2>1, <2>2 DEF Touches, HeadBackward, headVars, counters
<1>5. Chained(mb)'
  <2>1. batch' = batch /\ connection' = connection /\ call' = call /\ task'[mb] = "done"
    BY <1>2 DEF HeadBackward, headVars
  <2>2. \A t \in Stage : Forwarded(t, mb)' <=> Forwarded(t, mb)
    BY <1>3, <2>1 DEF Forwarded
  <2>3. \A t \in Stage : t > 0 => Returned(t, mb)
    <3>1. \A t \in Stage : t > 0 => t = 1 \/ t > 1
      BY DEF Stage
    <3> QED
      BY <1>3, <3>1 DEF ChainInv, Chained
  <2>4. \A t \in Stage : Returned(t, mb)'
    BY <2>1, <2>3 DEF Returned
  <2> QED
    BY <1>1, <2>1, <2>2, <2>4 DEF Chained, ChainInv
<1>6. StageInv(0)'
  <2>1. Forwards(0)' = Forwards(0) /\ Returns(0)' = Returns(0) \cup {mb[2]}
    BY <1>1, <1>2, <1>3, PassesFollow DEF HeadBackward, headVars, Forwarded, Returned
  <2>2. grads'[0] = {batch'} \X Returns(0)'
    <3>1. grads[0] = {batch} \X Returns(0)
      BY <1>1 DEF StageInv
    <3>2. grads'[0] = grads[0] \cup {<<batch, mb[2]>>} /\ batch' = batch
      BY <1>1 DEF HeadBackward, Accumulated, TypeOK, headVars
    <3> QED
      BY <2>1, <3>1, <3>2
  <2>3. ASSUME NEW m \in Micro, Forwarded(0, m)', ~Returned(0, m)'
        PROVE  version'[0][m] + 1 = batch'
    BY <1>2, <2>3 DEF StageInv, HeadBackward, headVars, Forwarded, Returned
  <2>4. weight'[0] = IF Owes(0)' THEN batch' - 1 ELSE batch'
    BY <1>1 DEF StageInv, Owes, HeadBackward, headVars
  <2> QED
    BY <2>2, <2>3, <2>4 DEF StageInv
<1> QED
  BY <1>4, <1>5, <1>6, TouchesKeeps

\* What a stage is called with has not been there before.
LEMMA CalledOnce ==
  ASSUME IInv, Regular, NEW s \in Worker, NEW mb \in Micro, call[s][mb] \in {"sent", "running"}
  PROVE  /\ \A t \in Stage : t <= s => ~Returned(t, mb)
         /\ \A t \in Stage : t < s => Forwarded(t, mb)
         /\ call[s][mb] = "sent" => \A t \in Worker : t > s => call[t][mb] = "none"
<1> USE StagesAndWorkers, RegularFacts
<1>1. Chained(mb) /\ ~Returned(s, mb) /\ (call[s][mb] = "sent" => ~Forwarded(s, mb))
  BY DEF ChainInv, Returned, Forwarded
<1>2. ASSUME NEW t \in Stage, t < s PROVE ~Returned(t, mb) /\ Forwarded(t, mb)
  BY <1>1, <1>2 DEF Chained
<1>3. ASSUME call[s][mb] = "sent", NEW t \in Worker, t > s PROVE call[t][mb] = "none"
  BY <1>1, <1>3 DEF Chained
<1>4. \A t \in Stage : t <= s => t < s \/ t = s
  BY DEF Stage, Worker
<1> QED
  BY <1>1, <1>2, <1>3, <1>4

\* A middle stage sends its activations on.
LEMMA MiddleForwardRegular ==
  ASSUME IInv, Regular, NEW s \in Worker, NEW mb \in Micro, MiddleForward(s, mb)
  PROVE  RegularInv'
<1> USE StagesAndWorkers, RegularFacts
<1>1. /\ pc = "running" /\ batch \in Batch /\ mb[1] = batch
      /\ mb[2] \in (1 .. NMicro) \ Returns(s) /\ weight[s] + 1 = batch
      /\ s + 1 \in Worker /\ s # 0 /\ s # TailStage /\ s \in Nat
  <2>1. /\ pc = "running" /\ batch \in Batch /\ mb[1] = batch
        /\ mb[2] \in (1 .. NMicro) \ Returns(s) /\ weight[s] + 1 = batch
    BY Active DEF MiddleForward
  <2> QED
    BY <2>1 DEF MiddleForward
<1>2. /\ \A t \in Stage : t <= s => ~Returned(t, mb)
      /\ \A t \in Stage : t < s => Forwarded(t, mb)
      /\ \A t \in Worker : t > s => call[t][mb] = "none"
      /\ call[s][mb] = "sent"
  BY CalledOnce DEF MiddleForward
<1>3. \A t \in Worker, m \in Micro :
        call'[t][m] = IF m # mb THEN call[t][m]
                      ELSE IF t = s THEN "running" ELSE IF t = s + 1 THEN "sent" ELSE call[t][m]
  <2> DEFINE first == [call EXCEPT ![s][mb] = "running"]
  <2>1. first \in [Worker -> [Micro -> CallState]]
    BY CallTypes DEF CallState
  <2>2. \A t \in Worker, m \in Micro :
          first[t][m] = IF t = s /\ m = mb THEN "running" ELSE call[t][m]
    BY DEF TypeOK
  <2>3. call' = [first EXCEPT ![s + 1][mb] = "sent"]
    BY DEF MiddleForward
  <2> HIDE DEF first
  <2>4. \A t \in Worker, m \in Micro :
          call'[t][m] = IF t = s + 1 /\ m = mb THEN "sent" ELSE first[t][m]
    BY <1>1, <2>1, <2>3
  <2>5. s + 1 # s
    BY <1>1
  <2> QED
    BY <2>2, <2>4, <2>5
<1>4. \A m \in Micro : version'[s][m] = IF m = mb THEN weight[s] ELSE version[s][m]
  BY DEF MiddleForward, TypeOK
<1>5. batch' = batch /\ connection' = connection /\ task' = task /\ UNCHANGED headVars
  BY DEF MiddleForward, headVars
<1>6. \A t \in Stage, m \in Micro :
        /\ Returned(t, m)' <=> Returned(t, m)
        /\ Forwarded(t, m)' <=> Forwarded(t, m) \/ (t = s /\ m = mb)
  <2> SUFFICES ASSUME NEW t \in Stage, NEW m \in Micro
               PROVE  /\ Returned(t, m)' <=> Returned(t, m)
                      /\ Forwarded(t, m)' <=> Forwarded(t, m) \/ (t = s /\ m = mb)
    OBVIOUS
  <2>1. CASE t = 0
    BY <1>1, <1>5, <2>1 DEF Returned, Forwarded
  <2>2. CASE t # 0
    <3>1. call[s + 1][mb] = "none"
      BY <1>1, <1>2
    <3>2. t \in Worker /\ call[s][mb] = "sent"
      BY <1>2, <2>2
    <3>3. call'[t][m] = IF m # mb THEN call[t][m]
                        ELSE IF t = s THEN "running" ELSE IF t = s + 1 THEN "sent" ELSE call[t][m]
      BY <1>3, <3>2
    <3> QED
      BY <2>2, <3>1, <3>2, <3>3, SMTT(30) DEF Returned, Forwarded
  <2> QED
    BY <2>1, <2>2
<1>7. Touches(s, mb)
  <2>1. ASSUME NEW t \in Stage, t # s
        PROVE  /\ fw_started'[t] = fw_started[t] /\ bw_completed'[t] = bw_completed[t]
               /\ grads'[t] = grads[t] /\ weight'[t] = weight[t] /\ version'[t] = version[t]
    BY <2>1 DEF MiddleForward, CountForward, TypeOK
  <2>2. UNCHANGED <<headVars, connection, failures>>
    BY DEF MiddleForward
  <2> QED
    BY <1>1, <1>3, <1>5, <1>6, <2>1, <2>2, SMTT(20), ZenonT(30) DEF Touches
<1>8. Chained(mb)'
  <2>1. ASSUME NEW t \in Worker
        PROVE  /\ connection'[t][mb] = "up"
               /\ call'[t][mb] \in {"none", "sent", "running", "ok"}
               /\ Forwarded(t - 1, mb)' => call'[t][mb] # "none"
               /\ call'[t][mb] # "none" => \A u \in Stage : u < t => Forwarded(u, mb)'
    <3>1. Chained(mb) /\ t \in Nat /\ t - 1 \in Stage
      BY DEF ChainInv, Worker, Stage
    <3>2. CASE t = s + 1
      <4>1. \A u \in Stage : u < t => u < s \/ u = s
        BY <3>2 DEF Stage
      <4> QED
        BY <1>1, <1>2, <1>3, <1>5, <1>6, <3>1, <3>2, <4>1 DEF Chained
    <3>3. CASE t # s + 1
      <4>1. t - 1 # s
        BY <1>1, <3>1, <3>3
      <4>2. /\ connection[t][mb] = "up" /\ call[t][mb] \in {"none", "sent", "running", "ok"}
            /\ Forwarded(t - 1, mb) => call[t][mb] # "none"
            /\ call[t][mb] # "none" => \A u \in Stage : u < t => Forwarded(u, mb)
        BY <3>1 DEF Chained
      <4>3. call'[t][mb] = IF t = s THEN "running" ELSE call[t][mb]
        BY <1>3, <3>3
      <4>4. call[s][mb] = "sent" /\ connection'[t][mb] = "up"
        BY <1>2, <1>5, <4>2
      <4>5. call'[t][mb] # "none" <=> call[t][mb] # "none"
        BY <4>3, <4>4
      <4>6. /\ Forwarded(t - 1, mb)' <=> Forwarded(t - 1, mb)
            /\ \A u \in Stage : Forwarded(u, mb) => Forwarded(u, mb)'
        BY <1>6, <3>1, <4>1
      <4>7. call'[t][mb] \in {"none", "sent", "running", "ok"}
        BY <4>2, <4>3
      <4> QED
        BY <4>2, <4>4, <4>5, <4>6, <4>7
    <3> QED
      BY <3>2, <3>3
  <2>2. call'[TailStage][mb] # "running"
    BY <1>1, <1>3 DEF ChainInv, Chained
  <2> QED
    BY <1>1, <1>5, <1>6, <2>1, <2>2 DEF ChainInv, Chained
<1>9. StageInv(s)'
  <2>1. mb[2] \in (1 .. NMicro) \ Forwards(s)
    <3>1. ~Forwarded(s, mb) /\ mb = <<batch, mb[2]>>
      BY <1>1, <1>2, CurrentPiece DEF Forwarded
    <3> QED
      BY <1>1, <3>1 DEF Forwards
  <2>2. Forwards(s)' = Forwards(s) \cup {mb[2]} /\ Returns(s)' = Returns(s)
    BY <1>1, <1>5, <1>6, PassesFollow
  <2>3. /\ Zeroed(s) = {batch} \X Returns(s)
        /\ fw_started'[s] % NMicro = CountOf(Forwards(s) \cup {mb[2]})
    BY <2>1, ForwardHalf DEF MiddleForward
  <2>4. grads'[s] = {batch'} \X Returns(s)'
    BY <1>5, <2>2, <2>3 DEF MiddleForward, TypeOK
  <2>5. ASSUME NEW m \in Micro, Forwarded(s, m)', ~Returned(s, m)'
        PROVE  version'[s][m] + 1 = batch'
    BY <1>1, <1>4, <1>5, <1>6, <2>5, SMTT(30) DEF StageInv
  <2>6. fw_started'[s] % NMicro = CountOf(Forwards(s)')
    BY <2>2, <2>3
  <2>7. bw_completed'[s] % NMicro = CountOf(Returns(s)')
    BY <1>1, <2>2 DEF StageInv, MiddleForward
  <2>8. weight'[s] = IF Owes(s)' THEN batch' - 1 ELSE batch'
    BY <1>1, <1>5, <2>2 DEF StageInv, Owes, MiddleForward
  <2> QED
    BY <2>4, <2>5, <2>6, <2>7, <2>8 DEF StageInv, CountOf
<1> QED
  BY <1>7, <1>8, <1>9, TouchesKeeps

\* A middle stage sends its gradient back.
LEMMA MiddleBackwardRegular ==
  ASSUME IInv, Regular, NEW s \in Worker, NEW mb \in Micro, MiddleBackward(s, mb)
  PROVE  RegularInv'
<1> USE StagesAndWorkers, RegularFacts
<1>1. /\ pc = "running" /\ batch \in Batch /\ mb[1] = batch /\ mb = <<batch, mb[2]>>
      /\ mb[2] \in (1 .. NMicro) \ Returns(s) /\ weight[s] + 1 = batch
      /\ s # 0 /\ s \in Nat
  <2>1. /\ pc = "running" /\ batch \in Batch /\ mb[1] = batch /\ mb = <<batch, mb[2]>>
        /\ mb[2] \in (1 .. NMicro) \ Returns(s) /\ weight[s] + 1 = batch
    BY Active DEF MiddleBackward
  <2> QED
    BY <2>1
<1>2. /\ \A t \in Stage : t <= s => ~Returned(t, mb)
      /\ \A t \in Stage : t < s => Forwarded(t, mb)
      /\ call[s][mb] = "running"
  BY CalledOnce DEF MiddleBackward
<1>3. \A t \in Stage : t > s => Returned(t, mb)
  <2>1. s + 1 \in Worker /\ Returned(s + 1, mb)
    BY AnswerOk DEF MiddleBackward
  <2>2. \A t \in Stage : t > s => t = s + 1 \/ t > s + 1
    BY <1>1 DEF Stage
  <2> QED
    BY <2>1, <2>2 DEF ChainInv, Chained
<1>4. \A t \in Worker, m \in Micro : call'[t][m] = IF t = s /\ m = mb THEN "ok" ELSE call[t][m]
  BY DEF MiddleBackward, TypeOK
<1>5. batch' = batch /\ connection' = connection /\ task' = task /\ UNCHANGED headVars
  BY DEF MiddleBackward, headVars
<1>6. \A t \in Stage, m \in Micro :
        /\ Returned(t, m)' <=> Returned(t, m) \/ (t = s /\ m = mb)
        /\ Forwarded(t, m)' <=> Forwarded(t, m)
  <2>1. ASSUME NEW t \in Stage, NEW m \in Micro
        PROVE  Returned(t, m)' <=> Returned(t, m) \/ (t = s /\ m = mb)
    BY <1>1, <1>4, <1>5 DEF Returned
  <2>2. ASSUME NEW t \in Stage, NEW m \in Micro
        PROVE  Forwarded(t, m)' <=> Forwarded(t, m)
    BY <1>1, <1>2, <1>4, <1>5 DEF Forwarded
  <2> QED
    BY <2>1, <2>2
<1>7. Touches(s, mb)
  <2>1. ASSUME NEW t \in Stage, t # s
        PROVE  /\ fw_started'[t] = fw_started[t] /\ bw_completed'[t] = bw_completed[t]
               /\ grads'[t] = grads[t] /\ weight'[t] = weight[t] /\ version'[t] = version[t]
    BY <2>1 DEF MiddleBackward, CompleteBackward, TypeOK
  <2>2. UNCHANGED <<headVars, connection, failures>>
    BY DEF MiddleBackward
  <2> QED
    BY <1>1, <1>4, <1>5, <1>6, <2>1, <2>2 DEF Touches
<1>8. Chained(mb)'
  <2>1. ASSUME NEW t \in Worker
        PROVE  /\ connection'[t][mb] = "up"
               /\ call'[t][mb] \in {"none", "sent", "running", "ok"}
               /\ Forwarded(t - 1, mb)' => call'[t][mb] # "none"
               /\ call'[t][mb] # "none" => \A u \in Stage : u < t => Forwarded(u, mb)'
    <3>1. Chained(mb) /\ t - 1 \in Stage /\ (call'[t][mb] # "none" <=> call[t][mb] # "none")
      BY <1>1, <1>2, <1>4 DEF ChainInv
    <3> QED
      BY <1>1, <1>2, <1>4, <1>5, <1>6, <3>1 DEF Chained
  <2>2. ASSUME NEW t \in Stage, Returned(t, mb)', NEW u \in Stage, u > t
        PROVE  Returned(u, mb)'
    <3>1. t >= s /\ u > s
      BY <1>1, <1>2, <1>6, <2>2 DEF Stage
    <3> QED
      BY <1>3, <1>6, <3>1
  <2>3. call'[TailStage][mb] # "running"
    BY <1>1, <1>4 DEF ChainInv, Chained
  <2>4. /\ ~(mb[1] < batch') /\ mb[1] = batch'
        /\ task'[mb] \in {"waiting", "sent", "done"}
    BY <1>1, <1>5 DEF ChainInv, Chained
  <2> QED
    BY <2>1, <2>2, <2>3, <2>4 DEF Chained
<1>9. StageInv(s)'
  <2>1. Forwards(s)' = Forwards(s) /\ Returns(s)' = Returns(s) \cup {mb[2]}
    BY <1>1, <1>5, <1>6, PassesFollow
  <2>2. /\ bw_completed'[s] % NMicro = CountOf(Returns(s) \cup {mb[2]})
        /\ weight'[s] = IF Returns(s) \cup {mb[2]} = 1 .. NMicro THEN batch ELSE batch - 1
    BY <1>1, BackwardHalf DEF MiddleBackward
  <2>3. grads'[s] = {batch'} \X Returns(s)'
    <3>1. Forwards(s) # {}
      BY <1>1, <1>2 DEF Forwards, Forwarded, Batch
    <3>2. grads[s] = {batch} \X Returns(s)
      BY <3>1 DEF StageInv
    <3>3. grads'[s] = grads[s] \cup {<<batch, mb[2]>>}
      BY <1>1 DEF MiddleBackward, Accumulated, TypeOK
    <3> QED
      BY <1>5, <2>1, <3>2, <3>3
  <2>4. ASSUME NEW m \in Micro, Forwarded(s, m)', ~Returned(s, m)'
        PROVE  version'[s][m] + 1 = batch'
    BY <1>5, <1>6, <2>4 DEF StageInv, MiddleBackward
  <2>5. fw_started'[s] % NMicro = CountOf(Forwards(s)')
    BY <1>1, <2>1 DEF StageInv, MiddleBackward
  <2>6. bw_completed'[s] % NMicro = CountOf(Returns(s)')
    BY <2>1, <2>2
  <2>7. weight'[s] = IF Owes(s)' THEN batch' - 1 ELSE batch'
    BY <1>1, <1>5, <2>1, <2>2 DEF Owes, Batch
  <2> QED
    BY <2>3, <2>4, <2>5, <2>6, <2>7 DEF StageInv, CountOf
<1> QED
  BY <1>7, <1>8, <1>9, TouchesKeeps

\* The tail does both at once.
LEMMA TailCallbackRegular ==
  ASSUME IInv, Regular, NEW mb \in Micro, TailCallback(mb)
  PROVE  RegularInv'
<1> DEFINE s == TailStage
<1> USE StagesAndWorkers, RegularFacts
<1>1. /\ pc = "running" /\ batch \in Batch /\ mb[1] = batch /\ mb = <<batch, mb[2]>>
      /\ mb[2] \in (1 .. NMicro) \ Returns(s) /\ weight[s] + 1 = batch
      /\ s \in Worker /\ s # 0 /\ s \in Nat
  <2>1. /\ pc = "running" /\ batch \in Batch /\ mb[1] = batch /\ mb = <<batch, mb[2]>>
        /\ mb[2] \in (1 .. NMicro) \ Returns(s) /\ weight[s] + 1 = batch
    BY Active DEF TailCallback
  <2> QED
    BY <2>1
<1> HIDE DEF s
<1>2. /\ \A t \in Stage : t <= s => ~Returned(t, mb)
      /\ \A t \in Stage : t < s => Forwarded(t, mb)
      /\ call[s][mb] = "sent"
  BY <1>1, CalledOnce DEF TailCallback, s
<1>3. \A t \in Stage : t <= s
  BY DEF s
<1>4. \A t \in Worker, m \in Micro : call'[t][m] = IF t = s /\ m = mb THEN "ok" ELSE call[t][m]
  BY DEF TailCallback, TypeOK, s
<1>5. batch' = batch /\ connection' = connection /\ task' = task /\ UNCHANGED headVars
  BY DEF TailCallback, headVars
<1>6. \A t \in Stage, m \in Micro :
        /\ Returned(t, m)' <=> Returned(t, m) \/ (t = s /\ m = mb)
        /\ Forwarded(t, m)' <=> Forwarded(t, m) \/ (t = s /\ m = mb)
  BY <1>1, <1>2, <1>4, <1>5 DEF Returned, Forwarded
<1>7. Touches(s, mb)
  <2>1. ASSUME NEW t \in Stage, t # s
        PROVE  /\ fw_started'[t] = fw_started[t] /\ bw_completed'[t] = bw_completed[t]
               /\ grads'[t] = grads[t] /\ weight'[t] = weight[t] /\ version'[t] = version[t]
    BY <2>1 DEF TailCallback, CountForward, CompleteBackward, TypeOK, s
  <2>2. UNCHANGED <<headVars, connection, failures>>
    BY DEF TailCallback
  <2> QED
    BY <1>1, <1>4, <1>5, <1>6, <2>1, <2>2 DEF Touches
<1>8. Chained(mb)'
  <2>1. ASSUME NEW t \in Worker
        PROVE  /\ connection'[t][mb] = "up"
               /\ call'[t][mb] \in {"none", "sent", "running", "ok"}
               /\ Forwarded(t - 1, mb)' => call'[t][mb] # "none"
               /\ call'[t][mb] # "none" => \A u \in Stage : u < t => Forwarded(u, mb)'
    <3>1. Chained(mb) /\ t - 1 \in Stage /\ (call'[t][mb] # "none" <=> call[t][mb] # "none")
      BY <1>1, <1>2, <1>4 DEF ChainInv
    <3>2. t - 1 # s
      BY <1>1, <1>3 DEF Worker
    <3> QED
      BY <1>1, <1>2, <1>4, <1>5, <1>6, <3>1, <3>2 DEF Chained
  <2>2. ASSUME NEW t \in Stage, Returned(t, mb)', NEW u \in Stage, u > t
        PROVE  Returned(u, mb)'
    <3>1. t >= s /\ u > s
      BY <1>1, <1>2, <1>6, <2>2 DEF Stage
    <3> QED
      BY <1>1, <1>3, <1>6, <3>1 DEF Stage
  <2>3. call'[TailStage][mb] # "running"
    BY <1>1, <1>4 DEF ChainInv, Chained
  <2>4. batch' \in Nat /\ mb[1] = batch' /\ task'[mb] \in {"waiting", "sent", "done"}
    BY <1>1, <1>5 DEF ChainInv, Chained
  <2>5. \A t \in Stage : Returned(t, mb)' => \A u \in Stage : u > t => Returned(u, mb)'
    BY <2>2
  <2>6. ~(mb[1] < batch')
    BY <2>4
  <2> QED
    BY <2>1, <2>3, <2>4, <2>5, <2>6 DEF Chained
<1>9. StageInv(s)'
  <2>1. mb[2] \in (1 .. NMicro) \ Forwards(s)
    BY <1>1, <1>2 DEF Forwards, Forwarded
  <2>2. Forwards(s)' = Forwards(s) \cup {mb[2]} /\ Returns(s)' = Returns(s) \cup {mb[2]}
    BY <1>1, <1>5, <1>6, PassesFollow
  <2>3. /\ Zeroed(s) = {batch} \X Returns(s)
        /\ fw_started'[s] % NMicro = CountOf(Forwards(s) \cup {mb[2]})
    BY <1>1, <2>1, ForwardHalf DEF TailCallback, s
  <2>4. /\ bw_completed'[s] % NMicro = CountOf(Returns(s) \cup {mb[2]})
        /\ weight'[s] = IF Returns(s) \cup {mb[2]} = 1 .. NMicro THEN batch ELSE batch - 1
    BY <1>1, BackwardHalf DEF TailCallback, s
  <2>5. grads'[s] = {batch'} \X Returns(s)'
    <3>1. grads'[s] = Zeroed(s) \cup {<<batch, mb[2]>>}
      BY <1>1 DEF TailCallback, Accumulated, TypeOK, s
    <3> QED
      BY <1>5, <2>2, <2>3, <3>1
  <2>6. ASSUME NEW m \in Micro, Forwarded(s, m)', ~Returned(s, m)'
        PROVE  version'[s][m] + 1 = batch'
    <3>1. m # mb /\ Forwarded(s, m) /\ ~Returned(s, m)
      BY <1>1, <1>6, <2>6
    <3>2. version'[s][m] = version[s][m]
      BY <1>1, <3>1 DEF TailCallback, TypeOK, s
    <3> QED
      BY <1>1, <1>5, <3>1, <3>2 DEF StageInv
  <2>7. weight'[s] = IF Owes(s)' THEN batch' - 1 ELSE batch'
    BY <1>1, <1>5, <2>2, <2>4 DEF Owes, Batch
  <2> QED
    BY <1>1, <2>2, <2>3, <2>4, <2>5, <2>6, <2>7 DEF StageInv, CountOf
<1> QED
  BY <1>1, <1>7, <1>8, <1>9, TouchesKeeps

\* Between two batches every stage is done with the last one.
LEMMA BetweenBatches ==
  ASSUME IInv, Regular, pc = "idle"
  PROVE  /\ \A mb \in Micro : mb[1] <= batch => \A t \in Stage : Returned(t, mb)
         /\ \A t \in Stage : weight[t] = batch
         /\ \A t \in Worker : fw_started[t] % NMicro = 0 /\ bw_completed[t] % NMicro = 0
<1> USE StagesAndWorkers, RegularFacts
<1>1. ASSUME NEW mb \in Micro, mb[1] <= batch, NEW t \in Stage PROVE Returned(t, mb)
  <2>1. mb[1] < batch \/ mb[1] = batch
    BY <1>1, CurrentPiece DEF Batch
  <2>2. Returned(0, mb)
    BY <2>1 DEF ChainInv, Chained, Returned
  <2> QED
    BY <2>2, SMTT(30) DEF ChainInv, Chained, Stage
<1>2. ASSUME NEW t \in Stage PROVE weight[t] = batch
  <2>1. \A mb \in Micro : mb[1] = batch => Returned(0, mb)
    BY DEF Returned
  <2>2. CASE t = 0
    BY <2>2 DEF StageInv, Owes
  <2>3. CASE t > 0
    BY <2>1, <2>3, DoneEverywhere
  <2> QED
    BY <2>2, <2>3 DEF Stage
<1>3. ASSUME NEW t \in Worker
      PROVE  fw_started[t] % NMicro = 0 /\ bw_completed[t] % NMicro = 0
  <2>1. CASE batch = 0
    <3>1. Forwards(t) = {} /\ Returns(t) = {}
      BY <2>1 DEF Forwards, Returns
    <3> QED
      BY <3>1, RoundsMeet DEF StageInv
  <2>2. CASE batch > 0
    <3>1. \A i \in 1 .. NMicro : <<batch, i>> \in Micro
      BY <2>2, CurrentPiece
    <3>2. \A i \in 1 .. NMicro : Returned(t, <<batch, i>>) /\ Forwarded(t, <<batch, i>>)
      BY <1>1, <3>1 DEF Returned, Forwarded
    <3>3. Forwards(t) = 1 .. NMicro /\ Returns(t) = 1 .. NMicro
      BY <2>2, <3>2 DEF Forwards, Returns
    <3> QED
      BY <3>3, RoundsMeet DEF StageInv
  <2> QED
    BY <2>1, <2>2
<1> QED
  BY <1>1, <1>2, <1>3

\* The next batch begins.
LEMMA StartBatchRegular ==
  ASSUME IInv, Regular, Regular', StartBatch
  PROVE  RegularInv'
<1> USE StagesAndWorkers, RegularFacts
<1>1. /\ pc = "idle" /\ pc' = "running" /\ batch' = batch + 1 /\ batch' \in Batch
      /\ UNCHANGED <<call, connection, counters, weight, version>>
  <2>1. optimizer[0]
    BY DEF Regular
  <2> QED
    BY <2>1, SMTT(30) DEF StartBatch, TypeOK, Batch, counters
<1>2. MicroOf(batch + 1) = {batch + 1} \X (1 .. NMicro)
  <2>1. Pieces(batch') = NMicro
    BY <1>1 DEF Regular, Batch
  <2> QED
    BY <1>1, <2>1 DEF MicroOf
<1>3. \A m \in Micro : m \in MicroOf(batch + 1) <=> m[1] = batch'
  BY <1>1, <1>2, CurrentPiece
<1>4. \A m \in Micro : task'[m] = IF m[1] = batch' THEN "waiting" ELSE task[m]
  <2>1. optimizer[0]
    BY DEF Regular
  <2>2. task' = [m \in Micro |-> IF m \in MicroOf(batch + 1) THEN "waiting" ELSE task[m]]
    BY <2>1 DEF StartBatch
  <2> QED
    BY <1>3, <2>2
<1>5. \A m \in Micro : m[1] = batch' => task[m] = "none"
  BY <1>1 DEF HeadInv
<1>6. \A t \in Stage, m \in Micro :
        (Forwarded(t, m)' <=> Forwarded(t, m)) /\ (Returned(t, m)' <=> Returned(t, m))
  BY <1>1, <1>4, <1>5 DEF Forwarded, Returned
<1>7. \A t \in Stage, m \in Micro : m[1] = batch' => ~Forwarded(t, m) /\ ~Returned(t, m)
  <2>1. ASSUME NEW t \in Stage, NEW m \in Micro, m[1] = batch' PROVE ~Forwarded(t, m)
    <3>1. ~Forwarded(0, m) /\ Chained(m)
      BY <1>5, <2>1 DEF Forwarded, ChainInv
    <3>2. CASE t # 0
      <4>1. t \in Worker /\ 0 < t
        BY <3>2 DEF Stage
      <4>2. call[t][m] = "none"
        BY <3>1, <4>1 DEF Chained
      <4> QED
        BY <3>2, <4>2 DEF Forwarded
    <3> QED
      BY <3>1, <3>2
  <2>2. \A t \in Stage, m \in Micro : Returned(t, m) => Forwarded(t, m)
    BY DEF Returned, Forwarded
  <2> QED
    BY <2>1, <2>2
<1>8. ASSUME NEW m \in Micro PROVE Chained(m)'
  <2>1. m[1] < batch' => task'[m] = "done"
    <3>1. m[1] < batch' => m[1] <= batch
      BY <1>1, CurrentPiece DEF Batch
    <3> QED
      BY <1>1, <1>4, <3>1, BetweenBatches DEF Returned, Batch
  <2>2. m[1] = batch' => task'[m] \in {"waiting", "sent", "done"}
    BY <1>4
  <2> QED
    BY <1>1, <1>6, <2>1, <2>2 DEF ChainInv, Chained
<1>9. ASSUME NEW t \in Stage PROVE StageInv(t)'
  <2>1. Forwards(t)' = {} /\ Returns(t)' = {}
    <3>1. PICK b \in Batch : b = batch'
      BY <1>1
    <3>2. \A i \in 1 .. NMicro : <<b, i>> \in Micro /\ <<b, i>>[1] = batch'
      BY <3>1, CurrentPiece
    <3>3. \A i \in 1 .. NMicro : ~Forwarded(t, <<b, i>>)' /\ ~Returned(t, <<b, i>>)'
      BY <1>6, <1>7, <3>2
    <3> QED
      BY <3>1, <3>3 DEF Forwards, Returns
  <2>2. t # 0 => fw_started'[t] % NMicro = 0 /\ bw_completed'[t] % NMicro = 0
    BY <1>1, BetweenBatches DEF counters
  <2>3. t = 0 => grads'[t] = {}
    BY DEF StartBatch, Regular, TypeOK
  <2>4. ASSUME NEW m \in Micro, Forwarded(t, m)', ~Returned(t, m)' PROVE FALSE
    <3>1. Forwarded(t, m) /\ ~Returned(t, m)
      BY <1>6, <2>4
    <3>2. m[1] > batch
      BY <1>1, <3>1, BetweenBatches, CurrentPiece DEF Batch
    <3>3. ~Forwarded(0, m) /\ Chained(m)
      BY <3>2 DEF HeadInv, Forwarded, ChainInv
    <3>4. t # 0
      BY <3>1, <3>3
    <3>5. t \in Worker /\ 0 < t /\ call[t][m] # "none"
      BY <3>1, <3>4 DEF Forwarded, Stage
    <3> QED
      BY <3>3, <3>5 DEF Chained
  <2>5. weight'[t] = batch' - 1 /\ Owes(t)'
    <3>1. weight'[t] = batch
      BY <1>1, BetweenBatches
    <3>2. {} # 1 .. NMicro
      BY NMicroAssumption
    <3> QED
      BY <1>1, <2>1, <3>1, <3>2 DEF Owes, Batch
  <2> QED
    BY <2>1, <2>2, <2>3, <2>4, <2>5, RoundsMeet DEF StageInv, CountOf
<1> QED
  BY <1>1, <1>8, <1>9 DEF RegularInv, ChainInv

\* It ends when the head has stepped.
LEMMA FinishBatchRegular ==
  ASSUME IInv, Regular, FinishBatch
  PROVE  RegularInv'
<1> USE StagesAndWorkers, RegularFacts
<1>1. /\ pc = "running" /\ pc' = "idle" /\ batch \in Batch /\ batch > 0
      /\ UNCHANGED <<batch, task, call, connection, counters, grads, version>>
  BY DEF FinishBatch, HeadInv, Batch
<1>2. \A mb \in Micro : mb[1] = batch => task'[mb] = "done"
  BY <1>1, RegularPieces, CurrentPiece DEF FinishBatch, Gathered
<1>3. \A t \in Stage, m \in Micro :
        (Forwarded(t, m)' <=> Forwarded(t, m)) /\ (Returned(t, m)' <=> Returned(t, m))
  BY <1>1 DEF Forwarded, Returned
<1>4. ASSUME NEW m \in Micro PROVE Chained(m)'
  BY <1>1, ChainedSame DEF ChainInv
<1>5. ASSUME NEW t \in Stage PROVE StageInv(t)'
  <2>1. Forwards(t)' = Forwards(t) /\ Returns(t)' = Returns(t)
    <3>1. <<batch, 1>> \in Micro
      BY <1>1, CurrentPiece, NMicroAssumption
    <3> QED
      BY <1>1, <1>3, <3>1, PassesFollow
  <2>2. \A m \in Micro : Forwarded(t, m)' /\ ~Returned(t, m)' => version'[t][m] + 1 = batch'
    BY <1>1, <1>3 DEF StageInv
  <2>3. Forwards(t)' # {} \/ (t = 0 /\ pc' = "running") => grads'[t] = {batch'} \X Returns(t)'
    BY <1>1, <2>1 DEF StageInv
  <2>4. weight'[t] = IF Owes(t)' THEN batch' - 1 ELSE batch'
    <3>1. CASE t = 0
      <4>1. weight[0] = batch - 1 /\ weight'[0] = weight[0] + 1
        BY <1>1 DEF StageInv, Owes, FinishBatch, TypeOK
      <4> QED
        BY <1>1, <3>1, <4>1 DEF Owes
    <3>2. CASE t # 0
      <4>1. weight'[t] = weight[t] /\ (Owes(t)' <=> Owes(t))
        BY <1>1, <2>1, <3>2 DEF Owes, FinishBatch, TypeOK
      <4> QED
        BY <1>1, <4>1 DEF StageInv
    <3> QED
      BY <3>1, <3>2
  <2>5. /\ t # 0 => fw_started'[t] % NMicro = CountOf(Forwards(t)')
        /\ t # 0 => bw_completed'[t] % NMicro = CountOf(Returns(t)')
    BY <1>1, <2>1 DEF StageInv, counters
  <2> QED
    BY <2>2, <2>3, <2>4, <2>5 DEF StageInv, CountOf
<1> QED
  BY <1>1, <1>2, <1>4, <1>5 DEF RegularInv, ChainInv

-----------------------------------------------------------------------------
(* The inductive invariant.                                                *)

\* A run that is regular has been so from the start.
LEMMA RegularBefore ==
  ASSUME TypeOK, [Next]_vars, Regular'
  PROVE  Regular
<1> USE StagesAndWorkers
<1>1. \/ batch' = batch /\ failures' \in {failures, failures + 1}
      \/ batch' = batch + 1 /\ failures' = failures
  <2>1. ASSUME NEW s \in Worker, NEW mb \in Micro, WorkerStep(s, mb)
        PROVE  batch' = batch /\ failures' \in {failures, failures + 1}
    <3>1. batch' = batch
      BY <2>1, WorkersLeaveHead DEF headVars
    <3>2. failures' \in {failures, failures + 1}
      BY <2>1 DEF WorkerStep, WorkerCallback, MiddleForward, MiddleBackward, TailCallback,
         CallbackFails, ForwardFaults, BackwardFaults, CallBreaks, CallbackCancelled, Fail
    <3> QED
      BY <3>1, <3>2
  <2>2. ASSUME NEW mb \in Micro, HeadTask(mb) \/ HeadFaults(mb)
        PROVE  batch' = batch /\ failures' \in {failures, failures + 1}
    BY <2>2 DEF HeadTask, HeadForward, HeadBackward, HeadTaskFails, HeadFaults, headVars, Fail
  <2> QED
    BY <2>1, <2>2
       DEF Next, WorkerStep, StartBatch, EndBatch, FinishBatch, AbortBatch, vars, headVars
<1>2. batch \in Nat /\ failures \in Nat
  BY MaxFailuresAssumption DEF TypeOK
<1>3. failures = 0 /\ batch <= batch'
  BY <1>1, <1>2 DEF Regular
<1> QED
  BY <1>1, <1>2, <1>3, OptimizerKept DEF Regular

\* What can happen while training is regular.
LEMMA OnlyRegular ==
  ASSUME IInv, Regular, Regular', Next
  PROVE  \/ StartBatch \/ FinishBatch
         \/ \E mb \in Micro : HeadForward(mb) \/ HeadBackward(mb)
         \/ \E s \in Worker, mb \in Micro : MiddleForward(s, mb) \/ MiddleBackward(s, mb)
         \/ \E mb \in Micro : TailCallback(mb)
<1> USE StagesAndWorkers, RegularFacts
<1>1. ~Fail
  BY FailTypes DEF Regular
<1>2. ~AbortBatch
  BY RegularPieces, CurrentPiece DEF AbortBatch, HeadInv, Batch, ChainInv, Chained
<1>3. ASSUME NEW s \in Worker, NEW mb \in Micro PROVE Answer(s, mb) # "error"
  BY DEF ChainInv, Chained, Answer
<1>4. ASSUME NEW mb \in Micro PROVE ~HeadTaskFails(mb)
  BY <1>3, ActiveFresh DEF HeadTaskFails
<1>5. ASSUME NEW s \in Worker, NEW mb \in Micro PROVE ~CallbackFails(s, mb)
  BY <1>3, ActiveFresh DEF CallbackFails, CallbackRaises, MayForward, Regular
<1>6. ASSUME NEW s \in Worker, NEW mb \in Micro PROVE ~CallbackCancelled(s, mb)
  BY DEF CallbackCancelled, ChainInv, Chained
<1>7. ASSUME NEW mb \in Micro PROVE ~HeadFaults(mb)
  BY <1>1 DEF HeadFaults
<1>8. ASSUME NEW s \in Worker, NEW mb \in Micro
      PROVE  ~ForwardFaults(s, mb) /\ ~BackwardFaults(s, mb) /\ ~CallBreaks(s, mb)
  BY <1>1 DEF ForwardFaults, BackwardFaults, CallBreaks
<1> QED
  BY <1>2, <1>4, <1>5, <1>6, <1>7, <1>8 DEF Next, EndBatch, HeadTask, WorkerCallback

\* Training is kept regular by every step that leaves it so.
LEMMA RegularInvNext ==
  ASSUME IInv, [Next]_vars, Regular'
  PROVE  RegularInv'
<1>1. Regular
  BY RegularBefore DEF IInv
<1>2. CASE UNCHANGED vars
  <2>1. UNCHANGED <<optimizer, pc, batch, task, call, connection, fw_started, bw_completed, grads,
                    weight, version>>
    BY <1>2 DEF vars, headVars, counters
  <2>2. RegularInv
    BY <1>1 DEF IInv
  <2>3. ASSUME NEW m \in Micro PROVE Chained(m)'
    BY <2>1, <2>2, <2>3, ChainedSame DEF RegularInv, ChainInv
  <2>4. ASSUME NEW t \in Stage PROVE StageInv(t)'
    <3>1. \A m : (Forwarded(t, m)' <=> Forwarded(t, m)) /\ (Returned(t, m)' <=> Returned(t, m))
      BY <2>1 DEF Forwarded, Returned
    <3>2. Forwards(t)' = Forwards(t) /\ Returns(t)' = Returns(t)
      BY <2>1 DEF Forwards, Returns, Forwarded, Returned
    <3>3. Owes(t)' <=> Owes(t)
      BY <2>1, <3>2 DEF Owes
    <3>4. StageInv(t)
      BY <2>2 DEF RegularInv
    <3> QED
      BY <2>1, <3>1, <3>2, <3>3, <3>4 DEF StageInv, CountOf
  <2> QED
    BY <2>1, <2>2, <2>3, <2>4 DEF RegularInv, ChainInv
<1>3. CASE Next
  BY <1>1, <1>3, OnlyRegular, StartBatchRegular, FinishBatchRegular, HeadForwardRegular,
     HeadBackwardRegular, MiddleForwardRegular, MiddleBackwardRegular, TailCallbackRegular
<1> QED
  BY <1>2, <1>3

\* Before the first batch.
LEMMA IInvInit == Init => IInv
<1> SUFFICES ASSUME Init PROVE IInv
  OBVIOUS
<1> USE StagesAndWorkers
<1>1. TypeOK
  BY MaxFailuresAssumption DEF Init, TypeOK
<1>2. HeadInv
  BY DEF Init, HeadInv, Micro, Batch
<1>3. BareInv
  BY DEF Init, BareInv, BareStageStopsTraining, Forwarded, Returned
<1>4. RegularInv
  <2>1. ASSUME NEW mb \in Micro PROVE Chained(mb) /\ mb[1] # 0
    <3>1. ~(mb[1] < batch) /\ mb[1] # batch /\ mb[1] # 0
      BY CurrentPiece DEF Init, Batch
    <3>2. \A t \in Stage : ~Forwarded(t, mb) /\ ~Returned(t, mb)
      BY DEF Init, Forwarded, Returned
    <3>3. \A t \in Worker : call[t][mb] = "none" /\ connection[t][mb] = "up"
      BY DEF Init
    <3> QED
      BY <3>1, <3>2, <3>3 DEF Chained
  <2>2. ASSUME NEW s \in Stage PROVE StageInv(s)
    <3>1. Forwards(s) = {} /\ Returns(s) = {} /\ ~Owes(s)
      BY DEF Init, Forwards, Returns, Owes
    <3>2. 0 % NMicro = 0
      BY NMicroAssumption
    <3> QED
      BY <3>1, <3>2, RoundsMeet DEF Init, StageInv, Forwarded
  <2> QED
    BY <2>1, <2>2 DEF Init, RegularInv, ChainInv
<1>5. CallInv /\ OnceInv
  BY DEF Init, CallInv, OnceInv
<1>6. CountInv
  <2>1. ASSUME NEW s \in Worker PROVE Ended(s) = {}
    BY DEF Init, Ended
  <2>2. 0 <= Cardinality({}) /\ \A s \in Worker : 0 * AccumSteps[s] <= 0
    BY FS_EmptySet, AccumStepsTypes
  <2>3. ASSUME NEW s \in Worker
        PROVE  weight[s] * AccumSteps[s] <= bw_completed[s] /\ bw_completed[s] <= Cardinality(Ended(s))
    <3>1. weight[s] = 0 /\ bw_completed[s] = 0
      BY DEF Init
    <3> QED
      BY <2>1, <2>2, <3>1
  <2>4. weight[0] = 0 /\ batch = 0 /\ pc # "running"
    BY DEF Init
  <2> QED
    BY <2>3, <2>4 DEF CountInv
<1> QED
  BY <1>1, <1>2, <1>3, <1>4, <1>5, <1>6 DEF IInv

\* Every step preserves the invariant.
LEMMA IInvNext == IInv /\ [Next]_vars => IInv'
<1> SUFFICES ASSUME IInv, [Next]_vars PROVE IInv'
  OBVIOUS
<1> QED
  BY TypesNext, HeadInvNext, CallInvNext, OnceInvNext, CountInvNext, BareInvNext, RegularInvNext
     DEF IInv

-----------------------------------------------------------------------------
(* The head's steps.                                                       *)

\* The head's weight changes in FinishBatch only.
LEMMA HeadStepIsFinish ==
  ASSUME IInv, [Next]_vars, weight'[0] # weight[0]
  PROVE  FinishBatch
<1>1. ASSUME NEW s \in Worker, NEW mb \in Micro, WorkerStep(s, mb)
      PROVE  weight'[0] = weight[0]
  BY <1>1, WorkersLeaveHead DEF IInv
<1>2. ASSUME NEW mb \in Micro, HeadTask(mb) \/ HeadFaults(mb)
      PROVE  weight'[0] = weight[0]
  BY <1>2 DEF HeadTask, HeadForward, HeadBackward, HeadTaskFails, HeadFaults
<1>3. StartBatch \/ AbortBatch \/ UNCHANGED vars => weight'[0] = weight[0]
  BY DEF StartBatch, AbortBatch, vars
<1> QED
  BY <1>1, <1>2, <1>3 DEF Next, EndBatch, WorkerStep

\* FinishBatch finds every task of its batch done.
LEMMA HeadStepsWholeNext == IInv /\ [Next]_vars => [HeadStepsWhole]_vars
<1> SUFFICES ASSUME IInv, [Next]_vars, weight'[0] # weight[0]
             PROVE  MicroOf(batch) \subseteq grads[0]
  BY DEF HeadStepsWhole
<1>1. FinishBatch
  BY HeadStepIsFinish
<1>2. batch \in Batch
  BY <1>1 DEF FinishBatch, IInv, HeadInv
<1>3. ASSUME NEW mb \in MicroOf(batch) PROVE mb \in grads[0]
  <2>1. mb \in Micro /\ mb[1] = batch
    BY <1>2, MicroOfBatch DEF MicroOf
  <2>2. task[mb] = "done"
    BY <1>1 DEF FinishBatch, Gathered
  <2> QED
    BY <2>1, <2>2 DEF IInv, HeadInv
<1> QED
  BY <1>3

-----------------------------------------------------------------------------
(* Regular training is synchronous.                                        *)

\* The backward pass of a middle stage and of the tail, be it the last thing that
\* goes well, steps on the whole batch or not at all.
LEMMA WorkerStepsWhole ==
  ASSUME IInv, Regular, NEW s \in Worker, NEW mb \in Micro, CompleteBackward(s),
         IF s = TailStage
         THEN /\ call[s][mb] = "sent" /\ CountForward(s)
              /\ grads' = [grads EXCEPT ![s] = Accumulated(Zeroed(s), mb)]
         ELSE /\ call[s][mb] = "running"
              /\ grads' = [grads EXCEPT ![s] = Accumulated(grads[s], mb)],
         NEW t \in Stage, weight'[t] # weight[t]
  PROVE  /\ t = s /\ grads'[t] = MicroOf(batch) /\ Returns(s) \cup {mb[2]} = 1 .. NMicro
         /\ weight'[s] = batch
<1> USE StagesAndWorkers, RegularFacts
<1>1. t = s
  BY DEF CompleteBackward, TypeOK
<1>2. /\ batch \in Batch /\ mb[1] = batch /\ mb = <<batch, mb[2]>> /\ batch > 0
      /\ mb[2] \in (1 .. NMicro) \ Returns(s) /\ weight[s] + 1 = batch /\ s # 0
  <2>1. /\ batch \in Batch /\ mb[1] = batch /\ mb = <<batch, mb[2]>>
        /\ mb[2] \in (1 .. NMicro) \ Returns(s) /\ weight[s] + 1 = batch
    BY Active
  <2> QED
    BY <2>1 DEF Batch
<1>3. Returns(s) \cup {mb[2]} = 1 .. NMicro /\ weight'[s] = batch
  BY <1>1, <1>2, BackwardHalf
<1>4. grads'[s] = ({batch} \X Returns(s)) \cup {mb}
  <2>1. CASE s = TailStage
    <3>1. mb[2] \in (1 .. NMicro) \ Forwards(s)
      BY <1>2, <2>1 DEF Forwards, Forwarded
    <3>2. Zeroed(s) = {batch} \X Returns(s)
      BY <2>1, <3>1, ForwardHalf
    <3> QED
      BY <2>1, <3>2, SMTT(30) DEF Accumulated, TypeOK
  <2>2. CASE s # TailStage
    <3>1. mb[2] \in Forwards(s)
      BY <1>2, <2>2 DEF Forwards, Forwarded
    <3>2. grads[s] = {batch} \X Returns(s)
      BY <3>1 DEF StageInv
    <3>3. grads'[s] = grads[s] \cup {mb}
      BY <2>2, SMTT(20), ZenonT(30) DEF Accumulated, TypeOK
    <3> QED
      BY <3>2, <3>3
  <2> QED
    BY <2>1, <2>2
<1>5. MicroOf(batch) = {batch} \X (1 .. NMicro)
  BY <1>2, RegularPieces
<1> QED
  BY <1>1, <1>2, <1>3, <1>4, <1>5

\* Every step that changes a weight.
LEMMA WholeBatchStepsNext ==
  ASSUME IInv, [Next]_vars, Regular, NEW t \in Stage, weight'[t] # weight[t]
  PROVE  grads'[t] = MicroOf(batch)
<1> USE StagesAndWorkers, RegularFacts
<1>1. CASE FinishBatch
  <2>1. t = 0 /\ grads' = grads /\ pc = "running" /\ batch \in Batch /\ batch > 0
    BY <1>1 DEF FinishBatch, TypeOK, HeadInv, Batch
  <2>2. MicroOf(batch) = {batch} \X (1 .. NMicro)
    BY <2>1, RegularPieces
  <2>3. Returns(0) = 1 .. NMicro
    BY <1>1, <2>1, <2>2 DEF FinishBatch, Gathered, Returns, Returned
  <2> QED
    BY <2>1, <2>2, <2>3 DEF StageInv
<1>2. ASSUME NEW s \in Worker, NEW mb \in Micro, MiddleBackward(s, mb)
      PROVE  grads'[t] = MicroOf(batch)
  <2>1. s # TailStage /\ call[s][mb] = "running" /\ CompleteBackward(s)
    BY <1>2 DEF MiddleBackward
  <2>2. grads' = [grads EXCEPT ![s] = Accumulated(grads[s], mb)]
    BY <1>2 DEF MiddleBackward
  <2> QED
    BY <2>1, <2>2, WorkerStepsWhole
<1>3. ASSUME NEW mb \in Micro, TailCallback(mb) PROVE grads'[t] = MicroOf(batch)
  BY <1>3, WorkerStepsWhole DEF TailCallback
<1>4. ASSUME NEW s \in Worker, NEW mb \in Micro, BackwardFaults(s, mb)
      PROVE  grads'[t] = MicroOf(batch)
  <2>1. CompleteBackward(s)
    BY <1>4 DEF BackwardFaults
  <2>2. IF s = TailStage
        THEN /\ call[s][mb] = "sent" /\ CountForward(s)
             /\ grads' = [grads EXCEPT ![s] = Accumulated(Zeroed(s), mb)]
        ELSE /\ call[s][mb] = "running"
             /\ grads' = [grads EXCEPT ![s] = Accumulated(grads[s], mb)]
    BY <1>4 DEF BackwardFaults
  <2> QED
    BY <2>1, <2>2, WorkerStepsWhole
<1>5. CASE UNCHANGED weight
  BY <1>5
<1> QED
  BY <1>1, <1>2, <1>3, <1>4, <1>5, ZenonT(40) DEF Next, vars, StartBatch, EndBatch, AbortBatch, HeadTask,
     HeadForward, HeadBackward, HeadTaskFails, HeadFaults, WorkerCallback, MiddleForward,
     CallbackFails, ForwardFaults, CallBreaks, CallbackCancelled

\* No gradient goes back through changed weights.
LEMMA FreshGraphs == IInv => SameWeights
  BY ActiveFresh, StagesAndWorkers DEF SameWeights

\* At the start no stage has stepped.
LEMMA SynchronousInit == Init => Synchronous!Init
  BY DEF Init, Synchronous!Init, Regular

\* A worker that steps is the last that has not, but for those before it.
LEMMA WorkerStepIsStep ==
  ASSUME IInv, Regular, Regular', NEW s \in Worker, NEW mb \in Micro,
         MiddleBackward(s, mb) \/ (s = TailStage /\ TailCallback(mb))
  PROVE  Synchronous!Step(s) \/ UNCHANGED <<batch, weight>>
<1> USE StagesAndWorkers, RegularFacts
<1>1. CompleteBackward(s) /\ batch' = batch
  BY DEF MiddleBackward, TailCallback, headVars
<1>2. CASE weight'[s] = weight[s]
  <2>1. weight' = weight
    BY <1>1, <1>2 DEF CompleteBackward, TypeOK
  <2> QED
    BY <1>1, <2>1
<1>3. CASE weight'[s] # weight[s]
  <2>1. /\ Returns(s) \cup {mb[2]} = 1 .. NMicro /\ weight'[s] = batch
    <3>1. IF s = TailStage
          THEN /\ call[s][mb] = "sent" /\ CountForward(s)
               /\ grads' = [grads EXCEPT ![s] = Accumulated(Zeroed(s), mb)]
          ELSE /\ call[s][mb] = "running"
               /\ grads' = [grads EXCEPT ![s] = Accumulated(grads[s], mb)]
      BY DEF MiddleBackward, TailCallback
    <3> QED
      BY <1>1, <1>3, <3>1, WorkerStepsWhole
  <2>2. weight' = [weight EXCEPT ![s] = weight[s] + 1] /\ weight[s] + 1 = batch
    BY <1>1, <1>3, <2>1 DEF CompleteBackward, TypeOK
  <2>3. ASSUME NEW t \in Stage, t > s PROVE weight[t] = batch
    <3>1. s # TailStage
      BY <2>3 DEF Worker
    <3>2. Returned(s + 1, mb) /\ s + 1 \in Worker /\ call[s][mb] = "running"
      BY <3>1, AnswerOk DEF MiddleBackward
    <3>3. batch \in Batch /\ batch > 0 /\ mb = <<batch, mb[2]>> /\ mb[1] = batch
      BY <3>2, Active DEF Batch
    <3>4. ASSUME NEW m \in Micro, m[1] = batch PROVE Returned(s + 1, m)
      <4>1. m = mb \/ m[2] \in Returns(s)
        BY <2>1, <3>3, <3>4, CurrentPiece
      <4>2. m[2] \in Returns(s) => Returned(s, m)
        BY <3>4, CurrentPiece DEF Returns
      <4>3. s < s + 1
        BY DEF Worker
      <4> QED
        BY <3>2, <4>1, <4>2, <4>3 DEF ChainInv, Chained
    <3>5. t = s + 1 \/ t > s + 1
      BY <2>3 DEF Stage, Worker
    <3>6. weight[s + 1] = batch
      <4>1. Returns(s + 1) = 1 .. NMicro
        BY <3>3, <3>4, CurrentPiece DEF Returns
      <4>2. ~Owes(s + 1)
        BY <3>2, <4>1 DEF Owes
      <4> QED
        BY <3>2, <4>2 DEF StageInv
    <3> QED
      BY <3>2, <3>4, <3>5, <3>6, DoneEverywhere
  <2>4. weight[s] \in Nat /\ weight[s] < batch
    BY <2>2, SMTT(30) DEF TypeOK
  <2> QED
    BY <1>1, <2>2, <2>3, <2>4 DEF Synchronous!Step
<1> QED
  BY <1>2, <1>3

\* Every step is a step of synchronous training, or changes nothing it speaks of.
LEMMA SynchronousStep ==
  ASSUME IInv, [Next]_vars
  PROVE  [Synchronous!Next]_(Synchronous!vars)
<1> USE StagesAndWorkers
<1>1. CASE ~Regular'
  BY <1>1 DEF Synchronous!Next
<1>2. CASE UNCHANGED vars
  BY <1>2 DEF vars, headVars, Synchronous!vars, Regular
<1>3. CASE Regular' /\ Next
  <2>1. Regular
    BY <1>3, RegularBefore DEF IInv
  <2>2. CASE StartBatch
    <3>1. optimizer[0]
      BY <2>1 DEF Regular
    <3>2. pc = "idle" /\ batch' = batch + 1 /\ weight' = weight
      BY <2>2 DEF StartBatch
    <3>3. \A t \in Stage : weight[t] = batch
      BY <2>1, <3>2, BetweenBatches
    <3> QED
      BY <1>3, <2>1, <3>2, <3>3 DEF Synchronous!Next, Synchronous!BeginBatch
  <2>3. CASE FinishBatch
    <3>1. /\ weight' = [weight EXCEPT ![0] = weight[0] + 1] /\ batch' = batch
          /\ pc = "running" /\ batch \in Batch /\ batch > 0
      BY <2>1, <2>3, RegularFacts DEF FinishBatch, HeadInv, Batch
    <3>2. weight[0] < batch
      BY <2>1, <3>1, RegularFacts DEF StageInv, Owes
    <3>3. \A mb \in Micro : mb[1] = batch => Returned(0, mb)
      BY <2>1, <2>3, <3>1, RegularFacts, RegularPieces, CurrentPiece DEF FinishBatch, Gathered, Returned
    <3>4. \A t \in Stage : t > 0 => weight[t] = batch
      BY <2>1, <3>3, DoneEverywhere
    <3>5. Synchronous!Step(0)
      BY <3>1, <3>2, <3>4 DEF Synchronous!Step
    <3> QED
      BY <1>3, <2>1, <3>5 DEF Synchronous!Next
  <2>4. ASSUME NEW s \in Worker, NEW mb \in Micro,
               MiddleBackward(s, mb) \/ (s = TailStage /\ TailCallback(mb))
        PROVE  [Synchronous!Next]_(Synchronous!vars)
    <3>1. CASE Synchronous!Step(s)
      BY <1>3, <2>1, <3>1 DEF Synchronous!Next
    <3>2. CASE UNCHANGED <<batch, weight>>
      BY <1>3, <2>1, <3>2 DEF Synchronous!vars
    <3> QED
      BY <1>3, <2>1, <2>4, <3>1, <3>2, WorkerStepIsStep
  <2>5. ASSUME UNCHANGED <<batch, weight>> PROVE [Synchronous!Next]_(Synchronous!vars)
    BY <1>3, <2>1, <2>5 DEF Synchronous!vars
  <2>6. ASSUME NEW mb \in Micro, HeadForward(mb) \/ HeadBackward(mb)
        PROVE  UNCHANGED <<batch, weight>>
    BY <2>6 DEF HeadForward, HeadBackward, headVars
  <2>7. ASSUME NEW s \in Worker, NEW mb \in Micro, MiddleForward(s, mb)
        PROVE  UNCHANGED <<batch, weight>>
    BY <2>7 DEF MiddleForward, headVars
  <2> QED
    BY <1>3, <2>1, <2>2, <2>3, <2>4, <2>5, <2>6, <2>7, OnlyRegular
<1> QED
  BY <1>1, <1>2, <1>3

-----------------------------------------------------------------------------
\* The inductive invariant holds in every state.
THEOREM PipelineInvariance == Spec => []IInv
  BY IInvInit, IInvNext, PTL DEF Spec

\* Every variable of the pipeline keeps its type.
THEOREM PipelineTypes == Spec => []TypeOK
<1>1. IInv => TypeOK
  BY DEF IInv
<1> QED
  BY <1>1, PipelineInvariance, PTL

\* In a regular run an optimizer of any stage steps only when the gradients of
\* exactly the micro-batches of the current batch are accumulated.
THEOREM StepsAreWhole == Spec => WholeBatchSteps
<1>1. IInv /\ [Next]_vars =>
        [Regular => \A s \in Stage : weight'[s] # weight[s] => grads'[s] = MicroOf(batch)]_vars
  BY WholeBatchStepsNext
<1> QED
  BY <1>1, PipelineInvariance, PTL DEF Spec, WholeBatchSteps

\* In a regular run no weights change between the forward and the backward pass of
\* a micro-batch.
THEOREM WeightsStay == Spec => []SameWeights
  BY FreshGraphs, PipelineInvariance, PTL

\* The pipeline implements synchronous training while training is regular.
THEOREM TrainingIsSynchronous == Spec => ImplementsSynchronous
  BY PipelineInvariance, SynchronousInit, SynchronousStep, PTL
     DEF Spec, ImplementsSynchronous, Synchronous!Spec

\* Whatever calls and callbacks fail, the head's optimizer steps only when the
\* gradients of all micro-batches of the current batch are accumulated.
THEOREM HeadStepIsWhole == Spec => HeadStepsOnWholeBatch
  BY PipelineInvariance, HeadStepsWholeNext, PTL DEF Spec, HeadStepsOnWholeBatch

\* A stage without parameters, announced as a relay (core.py:101), relays
\* nothing: with one such stage nothing is ever trained, in any pipeline.
THEOREM BareStopsTraining == Spec => []BareStageStopsTraining
<1>1. IInv => BareStageStopsTraining
  BY DEF IInv, BareInv
<1> QED
  BY <1>1, PipelineInvariance, PTL

\* Whatever fails, execute_batch is never stuck, unless one of its calls, or of
\* the calls these made, is never answered.
THEOREM PipelineIsNeverStuck == Spec => []NeverStuck
<1>1. IInv => NeverStuck
  BY SomebodyCanRun DEF IInv
<1> QED
  BY <1>1, PipelineInvariance, PTL

\* Whatever fails, and however far that throws the workers' counters out of step,
\* no optimizer steps more often than there were batches.
THEOREM NoStageRunsAhead == Spec => []NoStageAhead
<1>1. IInv => NoStageAhead
  BY CountsBoundSteps DEF IInv
<1> QED
  BY <1>1, PipelineInvariance, PTL
=============================================================================

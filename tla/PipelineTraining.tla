-------------------------- MODULE PipelineTraining --------------------------
(***************************************************************************)
(* Training on a formed pipeline: execute_batch on the head cuts a batch   *)
(* into micro-batches (pipeline/core.py), each of which goes forward       *)
(* through every stage and comes back as a gradient (pipeline/runner.py),  *)
(* one gRPC call per hop (comms/client.py, comms/server.py).               *)
(*                                                                         *)
(* Stage 0 is the head, the last stage the tail.  Every section under a    *)
(* stage's lock is one step; a call waits between the two sections of a    *)
(* middle stage, so the sections of different micro-batches interleave.    *)
(* Nothing orders the requests of different micro-batches at a stage.      *)
(*                                                                         *)
(* Only what decides which gradients an optimizer applies is kept of the   *)
(* tensors: grads[s] is the set of micro-batches whose gradients are       *)
(* accumulated in stage s, weight[s] the number of its optimizer's steps.  *)
(* A gradient that was accumulated in part counts or does not.             *)
(***************************************************************************)
EXTENDS Naturals, Sequences, FiniteSets

CONSTANTS
  Depth,        \* number of nodes: head, Depth - 2 middle stages, tail
  NMicro,       \* n_micro of the head's cluster.json
  AccumSteps,   \* accum_steps of each worker: n_micro of its own file
  Rows,         \* the rows of each batch the training script passes
  Bare,         \* the stages whose layers may be without parameters
  MaxFailures   \* bound on the calls and callbacks that fail

ASSUME DepthAssumption == Depth \in Nat /\ Depth > 1
ASSUME NMicroAssumption == NMicro \in Nat /\ NMicro > 0
ASSUME RowsAssumption == Rows \in Seq(Nat \ {0})
ASSUME BareAssumption == Bare \subseteq 0 .. Depth - 1
ASSUME MaxFailuresAssumption == MaxFailures \in Nat

Stage  == 0 .. Depth - 1
Worker == 1 .. Depth - 1
ASSUME AccumStepsAssumption == AccumSteps \in [Worker -> Nat \ {0}]
TailStage == Depth - 1
Middle == Worker \ {TailStage}
Batch  == 1 .. Len(Rows)
Micro  == Batch \X (1 .. NMicro)   \* batch and index of a micro-batch

VARIABLES
  optimizer,    \* whether a stage has one: it has no parameters otherwise
  pc,           \* whether execute_batch is running or has returned
  batch,        \* the batch it was last called with
  task,         \* the head's bounded_train_step of each micro-batch
  call,         \* the callback of each micro-batch at each worker
  connection,   \* what the caller sees of that call, unless it is up
  fw_started,
  bw_completed,
  grads,
  weight,
  version,      \* the weights a stage's pending graph was computed with
  failures

headVars == <<optimizer, pc, batch>>
counters == <<fw_started, bw_completed>>
vars == <<headVars, task, call, connection, counters, grads, weight, version, failures>>

CeilDiv(a, b) == (a + b - 1) \div b

\* torch.chunk: pieces of equal size, which may be fewer than n_micro.
Pieces(b) == CeilDiv(Rows[b], CeilDiv(Rows[b], NMicro))

MicroOf(b) == {b} \X (1 .. Pieces(b))

Init ==
  /\ \E bare \in SUBSET Bare : optimizer = [s \in Stage |-> s \notin bare]
  /\ pc = "idle"
  /\ batch = 0
  /\ task = [mb \in Micro |-> "none"]
  /\ call = [s \in Worker |-> [mb \in Micro |-> "none"]]
  /\ connection = [s \in Worker |-> [mb \in Micro |-> "up"]]
  /\ fw_started = [s \in Stage |-> 0]
  /\ bw_completed = [s \in Stage |-> 0]
  /\ grads = [s \in Stage |-> {}]
  /\ weight = [s \in Stage |-> 0]
  /\ version = [s \in Stage |-> [mb \in Micro |-> 0]]
  /\ failures = 0

\* One more failure.
Fail == failures < MaxFailures /\ failures' = failures + 1

\* Mutant: gradients are zeroed before each backward pass.
AccumulatedAlone(before, mb) == {mb}

\* backward() adds to what is there.
Accumulated(before, mb) == before \cup {mb}

\* The weights have changed since the forward pass: autograd may refuse to go
\* back through the graph.
Stale(s, mb) == version[s][mb] # weight[s]

\* What the caller of a worker sees.
Answer(s, mb) == IF connection[s][mb] = "up" THEN call[s][mb] ELSE connection[s][mb]

-----------------------------------------------------------------------------
(* The head.  Its tasks run only while execute_batch drives the event loop:*)
(* those a failed batch leaves behind go on during the next one.           *)

\* zero_grad, then one task per piece, all waiting for the semaphore.  Without
\* an optimizer zero_grad raises out of execute_batch.
StartBatch ==
  /\ pc = "idle"
  /\ batch < Len(Rows)
  /\ batch' = batch + 1
  /\ IF optimizer[0]
     THEN /\ pc' = "running"
          /\ grads' = [grads EXCEPT ![0] = {}]
          /\ task' = [mb \in Micro |-> IF mb \in MicroOf(batch + 1) THEN "waiting" ELSE task[mb]]
     ELSE UNCHANGED <<pc, grads, task>>
  /\ UNCHANGED <<optimizer, call, connection, counters, weight, version, failures>>

\* Mutant: one semaphore for all batches, and it is not given back.
AdmittedForGood(b) == {mb \in Micro : task[mb] \in {"sent", "done"}}

\* Tasks of a batch that are inside its semaphore.
Admitted(b) == {mb \in MicroOf(b) : task[mb] = "sent"}

\* The first task in line can enter the semaphore.
MayEnter(mb) ==
  /\ pc = "running"
  /\ task[mb] = "waiting"
  /\ \A other \in MicroOf(mb[1]) : task[other] = "waiting" => mb[2] <= other[2]
  /\ Cardinality(Admitted(mb[1])) < Depth

\* It runs the head's layers and sends the activations and the targets on.
HeadForward(mb) ==
  /\ MayEnter(mb)
  /\ task' = [task EXCEPT ![mb] = "sent"]
  /\ version' = [version EXCEPT ![0][mb] = weight[0]]
  /\ call' = [call EXCEPT ![1][mb] = "sent"]
  /\ UNCHANGED <<headVars, connection, counters, grads, weight, failures>>

\* The gradient comes back and goes through the head's own graph.
HeadBackward(mb) ==
  /\ pc = "running"
  /\ task[mb] = "sent" /\ Answer(1, mb) = "ok"
  /\ task' = [task EXCEPT ![mb] = "done"]
  /\ grads' = [grads EXCEPT ![0] = Accumulated(@, mb)]
  /\ UNCHANGED <<headVars, call, connection, counters, weight, version, failures>>

\* The call or the backward pass raises: the task ends, and the semaphore it
\* held is released.
HeadTaskFails(mb) ==
  /\ pc = "running"
  /\ task[mb] = "sent"
  /\ Answer(1, mb) = "error" \/ (Answer(1, mb) = "ok" /\ Stale(0, mb))
  /\ task' = [task EXCEPT ![mb] = "failed"]
  /\ UNCHANGED <<headVars, call, connection, counters, grads, weight, version, failures>>

\* The head's own layers raise, on the way out or half-way back.
HeadFaults(mb) ==
  /\ Fail
  /\ \/ MayEnter(mb) /\ UNCHANGED grads
     \/ /\ pc = "running"
        /\ task[mb] = "sent" /\ Answer(1, mb) = "ok"
        /\ \E g \in {grads[0], Accumulated(grads[0], mb)} : grads' = [grads EXCEPT ![0] = g]
  /\ task' = [task EXCEPT ![mb] = "failed"]
  /\ UNCHANGED <<headVars, call, connection, counters, weight, version>>

\* Mutant: gather hands exceptions over as results.
GatheredAnyhow(b) == \A mb \in MicroOf(b) : task[mb] \in {"done", "failed"}

\* gather has every loss.
Gathered(b) == \A mb \in MicroOf(b) : task[mb] = "done"

\* The head's optimizer steps.
FinishBatch ==
  /\ pc = "running"
  /\ Gathered(batch)
  /\ weight' = [weight EXCEPT ![0] = @ + 1]
  /\ pc' = "idle"
  /\ UNCHANGED <<optimizer, batch, task, call, connection, counters, grads, version, failures>>

\* gather raises the first exception out of execute_batch; the other tasks
\* stay where they are.
AbortBatch ==
  /\ pc = "running"
  /\ \E mb \in MicroOf(batch) : task[mb] = "failed"
  /\ pc' = "idle"
  /\ UNCHANGED <<optimizer, batch, task, call, connection, counters, grads, weight, version,
                 failures>>

-----------------------------------------------------------------------------
(* The workers' callbacks.                                                 *)

\* Mutant: the counter is read after it was incremented.
FirstOfRoundLate(s) == (fw_started[s] + 1) % AccumSteps[s] = 0

\* A forward pass that begins a round calls zero_grad,
FirstOfRound(s) == fw_started[s] % AccumSteps[s] = 0

Zeroed(s) == IF FirstOfRound(s) THEN {} ELSE grads[s]

\* which raises when there is no optimizer, before the pass is counted.
MayForward(s) == FirstOfRound(s) => optimizer[s]

CountForward(s) == fw_started' = [fw_started EXCEPT ![s] = @ + 1]

\* Mutant: the counter is read before it is incremented.
LastOfRoundEarly(s) == bw_completed[s] % AccumSteps[s] = 0

\* Mutant: an optimizer's step after every backward pass.
LastOfRoundAlways(s) == TRUE

LastOfRound(s) == (bw_completed[s] + 1) % AccumSteps[s] = 0

\* The backward pass that completes a round steps the optimizer.
CompleteBackward(s) ==
  /\ bw_completed' = [bw_completed EXCEPT ![s] = @ + 1]
  /\ weight' = [weight EXCEPT ![s] = IF LastOfRound(s) THEN @ + 1 ELSE @]

\* First section of a middle stage, up to the call to the next stage.
MiddleForward(s, mb) ==
  /\ s \in Middle
  /\ call[s][mb] = "sent" /\ MayForward(s)
  /\ call' = [call EXCEPT ![s][mb] = "running", ![s + 1][mb] = "sent"]
  /\ grads' = [grads EXCEPT ![s] = Zeroed(s)]
  /\ CountForward(s)
  /\ version' = [version EXCEPT ![s][mb] = weight[s]]
  /\ UNCHANGED <<headVars, task, connection, bw_completed, weight, failures>>

\* Second section, once the next stage has answered.
MiddleBackward(s, mb) ==
  /\ s \in Middle
  /\ call[s][mb] = "running" /\ Answer(s + 1, mb) = "ok"
  /\ call' = [call EXCEPT ![s][mb] = "ok"]
  /\ grads' = [grads EXCEPT ![s] = Accumulated(@, mb)]
  /\ CompleteBackward(s)
  /\ UNCHANGED <<headVars, task, connection, fw_started, version, failures>>

\* The tail goes forward and back under one lock.
TailCallback(mb) ==
  /\ call[TailStage][mb] = "sent" /\ MayForward(TailStage)
  /\ call' = [call EXCEPT ![TailStage][mb] = "ok"]
  /\ CountForward(TailStage)
  /\ grads' = [grads EXCEPT ![TailStage] = Accumulated(Zeroed(TailStage), mb)]
  /\ version' = [version EXCEPT ![TailStage][mb] = weight[TailStage]]
  /\ CompleteBackward(TailStage)
  /\ UNCHANGED <<headVars, task, connection, failures>>

\* Mutant: the exception of the call is swallowed.
CallbackRaisesOnlyStale(s, mb) ==
  s \in Middle /\ call[s][mb] = "running" /\ Answer(s + 1, mb) = "ok" /\ Stale(s, mb)

\* A callback raises when there is no optimizer, when the next stage answers with
\* an error, or when its backward pass is refused.
CallbackRaises(s, mb) ==
  \/ call[s][mb] = "sent" /\ ~MayForward(s)
  \/ /\ s \in Middle /\ call[s][mb] = "running"
     /\ Answer(s + 1, mb) = "error" \/ (Answer(s + 1, mb) = "ok" /\ Stale(s, mb))

\* The server turns the exception into an error for its own caller.
CallbackFails(s, mb) ==
  /\ CallbackRaises(s, mb)
  /\ call' = [call EXCEPT ![s][mb] = "error"]
  /\ UNCHANGED <<headVars, task, connection, counters, grads, weight, version, failures>>

\* Mutant: the pass is taken back, although it may not have been counted.
CountFailedForwardBack(s) == fw_started' = [fw_started EXCEPT ![s] = @ - 1]

\* The pass has been counted by the time the layers raise.
CountFailedForward(s) == CountForward(s)

\* The layers raise on the way forward.
ForwardFaults(s, mb) ==
  /\ Fail
  /\ call[s][mb] = "sent" /\ MayForward(s)
  /\ call' = [call EXCEPT ![s][mb] = "error"]
  /\ grads' = [grads EXCEPT ![s] = Zeroed(s)]
  /\ CountFailedForward(s)
  /\ UNCHANGED <<headVars, task, connection, bw_completed, weight, version>>

\* The layers raise half-way back, or the gradient for the caller cannot be packed
\* after the optimizer has stepped.
BackwardFaults(s, mb) ==
  /\ Fail
  /\ IF s = TailStage
     THEN call[s][mb] = "sent" /\ MayForward(s) /\ CountForward(s)
     ELSE call[s][mb] = "running" /\ Answer(s + 1, mb) = "ok" /\ UNCHANGED fw_started
  /\ call' = [call EXCEPT ![s][mb] = "error"]
  /\ LET before == IF s = TailStage THEN Zeroed(s) ELSE grads[s] IN
     \/ /\ \E g \in {before, Accumulated(before, mb)} : grads' = [grads EXCEPT ![s] = g]
        /\ UNCHANGED <<bw_completed, weight>>
     \/ /\ grads' = [grads EXCEPT ![s] = Accumulated(before, mb)]
        /\ CompleteBackward(s)
  /\ UNCHANGED <<headVars, task, connection, version>>

-----------------------------------------------------------------------------
(* The network.                                                            *)

\* The caller's coroutine of this call.
Awaits(s, mb) == IF s = 1 THEN task[mb] = "sent" ELSE call[s - 1][mb] = "running"

\* The call ends in an error for its caller, or never: there is no deadline.
\* What the worker does of it is another matter.
CallBreaks(s, mb) ==
  /\ Fail
  /\ Awaits(s, mb) /\ connection[s][mb] = "up"
  /\ \E seen \in {"error", "silent"} : connection' = [connection EXCEPT ![s][mb] = seen]
  /\ UNCHANGED <<headVars, task, call, counters, grads, weight, version>>

\* The request is lost, or the server cancels the callback, which in turn cancels
\* the call it waits for.
CallbackCancelled(s, mb) ==
  /\ connection[s][mb] # "up"
  /\ call[s][mb] \in {"sent", "running"}
  /\ call' = [call EXCEPT ![s][mb] = "cancelled"]
  /\ connection' = IF call[s][mb] = "running"
                   THEN [connection EXCEPT ![s + 1][mb] = "error"] ELSE connection
  /\ UNCHANGED <<headVars, task, counters, grads, weight, version, failures>>

-----------------------------------------------------------------------------
HeadTask(mb) == HeadForward(mb) \/ HeadBackward(mb) \/ HeadTaskFails(mb)

WorkerCallback(s, mb) ==
  \/ MiddleForward(s, mb)
  \/ MiddleBackward(s, mb)
  \/ s = TailStage /\ TailCallback(mb)
  \/ CallbackFails(s, mb)

EndBatch == FinishBatch \/ AbortBatch

Next ==
  \/ StartBatch
  \/ EndBatch
  \/ \E mb \in Micro : HeadTask(mb) \/ HeadFaults(mb)
  \/ \E s \in Worker, mb \in Micro :
       \/ WorkerCallback(s, mb)
       \/ ForwardFaults(s, mb) \/ BackwardFaults(s, mb)
       \/ CallBreaks(s, mb) \/ CallbackCancelled(s, mb)

Spec == Init /\ [][Next]_vars
=============================================================================

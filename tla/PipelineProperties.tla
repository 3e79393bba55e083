------------------------- MODULE PipelineProperties -------------------------
(***************************************************************************)
(* What training on the pipeline promises.                                 *)
(***************************************************************************)
EXTENDS PipelineTraining

\* The type invariant.
TypeOK ==
  /\ optimizer \in [Stage -> BOOLEAN]
  /\ pc \in {"idle", "running"}
  /\ batch \in 0 .. Len(Rows)
  /\ task \in [Micro -> {"none", "waiting", "sent", "done", "failed"}]
  /\ call \in [Worker -> [Micro -> {"none", "sent", "running", "ok", "error", "cancelled"}]]
  /\ connection \in [Worker -> [Micro -> {"up", "error", "silent"}]]
  /\ fw_started \in [Stage -> Nat]
  /\ bw_completed \in [Stage -> Nat]
  /\ grads \in [Stage -> SUBSET Micro]
  /\ weight \in [Stage -> Nat]
  /\ version \in [Stage -> [Micro -> Nat]]
  /\ failures \in 0 .. MaxFailures

\* The files of all nodes agree in n_micro, so far no call has failed and every batch
\* was cut into n_micro pieces, and every stage has something to train.
Regular ==
  /\ \A s \in Worker : AccumSteps[s] = NMicro
  /\ failures = 0
  /\ \A b \in 1 .. batch : Pieces(b) = NMicro
  /\ \A s \in Stage : optimizer[s]

-----------------------------------------------------------------------------
\* Synchronous training: in a regular run, whenever an optimizer steps, at any
\* stage, it applies the gradients of all micro-batches of the current batch
\* and of no other, although stages zero and step by counting alone.
WholeBatchSteps ==
  [][Regular => \A s \in Stage :
       weight'[s] # weight[s] => grads'[s] = MicroOf(batch)]_vars

\* Between its forward and its backward pass at a stage, the weights a
\* micro-batch was computed with do not change under it.
SameWeights ==
  Regular => \A mb \in Micro :
    /\ task[mb] = "sent" => ~Stale(0, mb)
    /\ \A s \in Worker : call[s][mb] = "running" => ~Stale(s, mb)

\* In a regular run the stages train as one model: one step each per batch, from
\* the tail to the head, and no stage begins a batch before all have stepped.
Synchronous == INSTANCE SynchronousTraining WITH regular <- Regular, steps <- weight

ImplementsSynchronous == Synchronous!Spec

\* Whatever fails, the head steps only when its accumulated gradients include
\* all micro-batches of the batch it is about to step for.
HeadStepsWhole ==
  weight'[0] # weight[0] => MicroOf(batch) \subseteq grads[0]

HeadStepsOnWholeBatch == [][HeadStepsWhole]_vars

\* Counting alone places the optimizers' steps, and failures throw the counters out
\* of step; still each step of a worker is paid for with accum_steps micro-batches of
\* its own.  Where the files agree, no stage ever has more steps than there were
\* batches.
NoStageAhead ==
  /\ weight[0] <= batch
  /\ \A s \in Worker : weight[s] * AccumSteps[s] <= batch * NMicro

\* core.py:101 announces a stage without parameters as a pass-through relay: it
\* answers with an error only once it has passed the micro-batch on.
BareStageRelays ==
  failures = 0 =>
    \A s \in Middle, mb \in Micro :
      ~optimizer[s] /\ call[s][mb] = "error" => call[s + 1][mb] # "none"

\* What the head, or a worker, has to do about a micro-batch without waiting.
HeadCanRun(mb) ==
  MayEnter(mb) \/ (task[mb] = "sent" /\ Answer(1, mb) \in {"ok", "error"})

WorkerCanRun(s, mb) ==
  \/ call[s][mb] = "sent"
  \/ s \in Middle /\ call[s][mb] = "running" /\ Answer(s + 1, mb) \in {"ok", "error"}

\* The semaphore, gather and the calls from stage to stage do not wait for each
\* other in vain: while execute_batch runs, it can return, or some coroutine of the
\* current batch goes on, unless a caller never hears of one of its calls again.
NeverStuck ==
  pc = "running" =>
    \/ Gathered(batch) \/ \E mb \in MicroOf(batch) : task[mb] = "failed"
    \/ \E mb \in MicroOf(batch) : HeadCanRun(mb) \/ \E s \in Worker : WorkerCanRun(s, mb)
    \/ \E s \in Worker, mb \in MicroOf(batch) : connection[s][mb] = "silent"

-----------------------------------------------------------------------------
(* The inductive invariant.                                                *)

\* No task exists before its batch starts; a task of the current batch is done
\* only when its gradient is among those the head has accumulated.
HeadInv ==
  /\ pc = "running" => batch \in Batch
  /\ \A mb \in Micro :
       /\ mb[1] > batch => task[mb] = "none"
       /\ mb[1] = batch /\ task[mb] = "done" => mb \in grads[0]

\* Whether a micro-batch has gone forward, and back, through a stage.
Forwarded(s, mb) ==
  IF s = 0 THEN task[mb] \in {"sent", "done"} ELSE call[s][mb] \in {"running", "ok"}

Returned(s, mb) == IF s = 0 THEN task[mb] = "done" ELSE call[s][mb] = "ok"

\* The pieces of the current batch that have.
Forwards(s) == {i \in 1 .. NMicro : batch > 0 /\ Forwarded(s, <<batch, i>>)}
Returns(s)  == {i \in 1 .. NMicro : batch > 0 /\ Returned(s, <<batch, i>>)}

\* Where a counter of n_micro rounds stands after the passes of some pieces.
CountOf(pieces) == IF pieces = 1 .. NMicro THEN 0 ELSE Cardinality(pieces)

\* A micro-batch is called stage by stage, and answered in the reverse order.
Chained(mb) ==
  /\ mb[1] < batch => task[mb] = "done"
  /\ mb[1] = batch => task[mb] \in {"waiting", "sent", "done"}
  /\ call[TailStage][mb] # "running"
  /\ \A s \in Worker :
       /\ connection[s][mb] = "up"
       /\ call[s][mb] \in {"none", "sent", "running", "ok"}
       /\ Forwarded(s - 1, mb) => call[s][mb] # "none"
       /\ call[s][mb] # "none" => \A t \in Stage : t < s => Forwarded(t, mb)
  /\ \A s \in Stage : Returned(s, mb) => \A t \in Stage : t > s => Returned(t, mb)

ChainInv == \A mb \in Micro : Chained(mb)

\* Whether a stage has still to step for the current batch.
Owes(s) == IF s = 0 THEN pc = "running" ELSE batch > 0 /\ Returns(s) # 1 .. NMicro

\* The counters of a worker are the passes of the current batch, from which follow
\* the gradients it has accumulated and the steps it has taken.
StageInv(s) ==
  /\ s # 0 => fw_started[s] % NMicro = CountOf(Forwards(s))
  /\ s # 0 => bw_completed[s] % NMicro = CountOf(Returns(s))
  /\ Forwards(s) # {} \/ (s = 0 /\ pc = "running") => grads[s] = {batch} \X Returns(s)
  /\ \A mb \in Micro : Forwarded(s, mb) /\ ~Returned(s, mb) => version[s][mb] + 1 = batch
  /\ weight[s] = IF Owes(s) THEN batch - 1 ELSE batch

\* What regular training rests on.
RegularInv ==
  /\ ChainInv
  /\ \A s \in Stage : StageInv(s)
  /\ pc = "idle" => \A mb \in Micro : mb[1] = batch => task[mb] = "done"

\* What a stage without an optimizer does instead of relaying: no stage of the pipeline
\* ever accumulates a gradient or steps.
BareStageStopsTraining ==
  (\E s \in Stage : ~optimizer[s]) => \A s \in Stage : grads[s] = {} /\ weight[s] = 0

\* No micro-batch gets through it: none is called behind it and none comes back
\* before it.
BareInv ==
  /\ BareStageStopsTraining
  /\ \A s \in Stage : ~optimizer[s] =>
       /\ s = 0 => pc = "idle"
       /\ fw_started[s] = 0
       /\ \A mb \in Micro :
            /\ ~Forwarded(s, mb)
            /\ \A t \in Stage : t > s => call[t][mb] = "none"
            /\ \A t \in Stage : t <= s => ~Returned(t, mb)

\* The micro-batches whose callback at a worker is over.
Ended(s) == {mb \in Micro : call[s][mb] \in {"ok", "error"}}

\* No micro-batch is called at a worker before it was called at the one in front,
\* or before its batch began; hence none is called twice.
OnceInv ==
  /\ \A mb \in Micro :
       /\ task[mb] \in {"none", "waiting"} => call[1][mb] = "none"
       /\ task[mb] = "none" => \A s \in Worker : call[s][mb] = "none"
  /\ \A s \in Middle, mb \in Micro :
       call[s][mb] \in {"none", "sent"} => call[s + 1][mb] = "none"

\* The head steps when a batch ends.  A worker's step takes accum_steps backward passes,
\* and each of these a callback that ends.
CountInv ==
  /\ weight[0] + (IF pc = "running" THEN 1 ELSE 0) <= batch
  /\ \A s \in Worker :
       /\ weight[s] * AccumSteps[s] <= bw_completed[s]
       /\ bw_completed[s] <= Cardinality(Ended(s))

\* Behind every coroutine that waits for a call there is a callback, down to the
\* tail, which waits for nobody; a callback is cancelled only behind a broken call.
CallInv ==
  /\ pc = "running" => \A mb \in MicroOf(batch) : task[mb] # "none"
  /\ \A mb \in Micro : task[mb] = "sent" => call[1][mb] # "none"
  /\ \A s \in Worker, mb \in Micro :
       /\ call[s][mb] = "running" => s \in Middle /\ call[s + 1][mb] # "none"
       /\ call[s][mb] = "cancelled" => connection[s][mb] # "up"

\* The conjunction that every step preserves.
IInv ==
  /\ TypeOK
  /\ HeadInv
  /\ CallInv /\ OnceInv
  /\ CountInv
  /\ BareInv
  /\ Regular => RegularInv

-----------------------------------------------------------------------------
\* The event loop and the servers run what is ready.
Fairness ==
  /\ WF_vars(EndBatch)
  /\ \A mb \in Micro : WF_vars(HeadTask(mb))
  /\ \A s \in Worker, mb \in Micro : WF_vars(WorkerCallback(s, mb))

FairSpec == Spec /\ Fairness

\* Every execute_batch ends, with a loss or with an exception, even while tasks
\* of an earlier failed batch are still around.  The only thing that can hold it
\* up is a call whose caller never hears of it again.
BatchEnds ==
  pc = "running" ~>
    pc = "idle" \/ \E s \in Worker, mb \in Micro : connection[s][mb] = "silent"
=============================================================================

------------------------ MODULE SynchronousTraining ------------------------
(***************************************************************************)
(* Abstract specification of training on a pipeline: the stages train as   *)
(* one model.  Each takes one optimizer step per batch, from the last      *)
(* stage to the first, and no batch begins before all stages have taken    *)
(* theirs.  This is promised while training is regular, and nothing is     *)
(* after it has ceased to be.                                              *)
(***************************************************************************)
EXTENDS Naturals

CONSTANT Stage

VARIABLES
  regular,
  batch,    \* number of batches begun
  steps     \* of each stage's optimizer

vars == <<regular, batch, steps>>

Init ==
  /\ regular \in BOOLEAN
  /\ batch = 0
  /\ steps = [s \in Stage |-> 0]

BeginBatch ==
  /\ \A s \in Stage : steps[s] = batch
  /\ batch' = batch + 1
  /\ UNCHANGED steps

Step(s) ==
  /\ steps[s] < batch
  /\ \A t \in Stage : t > s => steps[t] = batch
  /\ steps' = [steps EXCEPT ![s] = @ + 1]
  /\ UNCHANGED batch

Next ==
  \/ regular /\ regular' /\ (BeginBatch \/ \E s \in Stage : Step(s))
  \/ ~regular'

Spec == Init /\ [][Next]_vars
=============================================================================

# GradSync in TLA+

This directory models GradSync (`src/`): the election that forms a cluster, the
partition of a model over its nodes, pipeline-parallel training on them, the
codec that every tensor passes through, and the telemetry of the head. The
modules are checked with TLC on small instances, and their safety properties,
action properties and refinements are proved with TLAPS for every value of the
constants.

Paths below are relative to `src/src/gradsync/` unless they start with `tests/`
or `examples/` (both in `src/`).

## The system

One process per machine builds a `DistributedPipeline` (`pipeline/core.py`). It
runs an election, derives its role from the topology that the election chose,
receives its slice of the model's layers, and then either serves (middle, tail)
or drives training (head).

| Part | State | Operations | Interacts with |
|---|---|---|---|
| Election and topology (`orchestrator/`) | `ClusterNode`: `state`, `current_term`, `voted_for`, `votes_received`, `topology_config`, `coordinator_ip`, `peer_capacities`, all but the last under `_election_cv` | `join_cluster` (barrier, timeout, vote requests, counting), `broadcast_topology`; handlers `Ping`, `RequestVote`, `BroadcastTopology` | gRPC calls between all pairs of nodes; threads of one node share the fields |
| Formation (`core.py` 15–216, `node.py` 174–179, 288–316) | the node's file, `role`, layer boundaries, `partition_config`, the runner's target | `validate_cluster_config`, partition on the head, `broadcast_partitioning`, `wait_for_partitioning` | reads what the election returned; one call per worker |
| Training (`core.py` 229–278, `runner.py`, `comms/`) | per stage: its optimizer, accumulated gradients, weights, `fw_started`, `bw_completed`; the head's event loop and semaphore | `execute_batch`, `train_batch`, `_process_batch_callback`, `ExecutePipelineStage` | one nested call per hop and micro-batch |
| Codec (`pipeline/utils.py`, `compression_lab/tensor_compression_new.py`) | none | `pack_tensor`, `unpack_tensor`, router, six codecs | every activation, target and gradient passes through it |
| Telemetry (`telemetry/`) | metrics, the set of websocket clients, the labels and series of each browser's charts | UDP heartbeat, `update`, `broadcast`, `websocket_endpoint`, `onmessage` | every stage sends, the head's thread serves |
| Hardware queries, profiler | none that matters | | |

What is hard:

* **Election.** The main thread, one thread per vote request, one per topology
  call and the server's handlers interleave between critical sections of
  `_election_cv`. A call may pass its deadline (200 ms for votes, 10 s for
  topologies) while its request is still handled later. Terms, votes and state
  are written in four places. Correct means: one winner per term, a topology
  with a head, never replaced; whoever has one stops campaigning; everybody gets
  one if nothing is lost.
* **Training.** Micro-batches overtake each other, stages zero and step by
  counting modulo `n_micro`, `execute_batch` abandons running tasks when one
  fails, a caller may give up while its callee is at work, `torch.chunk` may
  return fewer pieces than asked for, a stage may have nothing to train. Correct
  means: an optimizer applies the gradients of exactly one batch, computed with
  the weights it updates; the stages train as one model; every `execute_batch`
  ends.
* **Formation.** Files that differ from node to node, a head that has lost its
  state between election and partition, a lost call without retry, a wait
  without timeout; index arithmetic on layers.
* **Telemetry.** A set that is iterated over across an `await`, and charts drawn
  from whatever the broadcasts deliver.
* **Codec.** Numeric edges: thresholds, odd lengths, degenerate ranges.

`PROJECT.json` lists each hazard with its line and the properties that cover it.

## The modules

| Module | What it is |
|---|---|
| `ClusterElection` | `join_cluster` and the handlers as a state machine |
| `TopologyChoice` | the abstract specification of what the election promises |
| `ElectionProperties` | invariants, action properties, refinement, fairness and liveness of the election, and the inductive invariant |
| `ElectionProofs` | its theorems |
| `MCElection` + four `.cfg` | instances of the election |
| `PipelineTraining` | `execute_batch`, the callbacks and the calls between stages |
| `SynchronousTraining` | the abstract specification of training: all stages step once per batch |
| `PipelineProperties` | its properties, the refinement and the inductive invariant |
| `PipelineProofs` | its theorems |
| `MCPipeline` + two `.cfg` | an instance of the pipeline, and one with a stage announced as a relay |
| `PipelineFormation` | `DistributedPipeline` from its file to its runner, on top of `TopologyChoice`; the handler and the calls of `BroadcastPartitioning` |
| `FormationProperties` | its properties and inductive invariant |
| `FormationProofs` | its theorems |
| `MCFormation` + `.cfg` | its instance |
| `LayerPartition` + two `.cfg` | the loop that cuts the model, with its properties |
| `LayerPartitionProofs` | its theorems, and that its result is a cut in the sense of `PipelineFormation` |
| `TelemetryTracker` + `.cfg` | the tracker, its broadcasts, the websocket endpoints and the dashboard's charts |
| `TelemetryProofs` | its theorems |
| `TensorCodec` | `pack_tensor`, `unpack_tensor`, the router and the codecs |
| `TensorCodecProofs` | its theorems |
| `MCCodec` + two `.cfg` | the tensors TLC packs |
| `ArithmeticLemmas` | facts about numbers that the proofs share |

How they fit together: `ClusterElection` implements `TopologyChoice`;
`PipelineFormation` extends `TopologyChoice` with what a node does before and
after its election, and takes from `LayerPartition` only what its theorem says
of a successful partition (`Cuts`: slices that are adjacent and not empty);
`PipelineTraining` starts from the stages that formation made, and implements
`SynchronousTraining` as long as it is regular. The codec and the telemetry are
used by training and share no state with it.

Operators whose comment starts with "Mutant" are faulty variants of the
definition that follows them, often of a small operator that exists to name the
decision the bug gets wrong; no specification uses them. They record which bug
each property would catch.

### ClusterElection

Each critical section of `_election_cv` is one step. `pc[n]` is where the main
thread of node `n` is:

| `pc` | code (`node.py`) |
|---|---|
| `offline`, `pinging` | before `_serve_cluster`; in `wait_for_peers` |
| `waiting` | loop test and timed wait (76–90) |
| `campaign` | after the lock is released, before the unlocked test of `state` (125) |
| `collect` | `as_completed` over the vote futures (135–166) |
| `broadcast` | in `broadcast_topology` |
| `drain` | leaving the executor's block, which waits for the other vote threads |
| `joined` | `join_cluster` has returned |

`vote_call[n][p]` and `topology_call[n][p]` are the futures of the calls,
`vote_requests`, `vote_replies`, `topology_requests` and `topology_replies` the
messages under way. A deadline (`VoteCallFails`, `TopologyCallFails`) ends the
call for its caller and leaves the request, so that it may be handled much
later or never; a reply to a call that is over is dropped.

Abstractions. A topology is determined by its coordinator, since the coordinator
always comes first and its peers follow in configuration order; so
`topology_config[n]` is the coordinator and `topology_term[n]` the term field.
`coordinator_ip` is assigned with it and has no variable. Capacities are the set
of peers whose capacity is known. A notification of `_election_cv` only cuts a
wait short and sends the thread round the loop, which is a stuttering step. The
order in which a round of pings visits the peers is left open. Nodes do not
crash and restart: nothing is persisted and the code has no way back into a
formed cluster.

### TopologyChoice

Two variables, two actions: a node without a topology wins a term nobody else
has won (`Elect`), or adopts the topology of a winner (`Adopt`). Neither is ever
undone. It allows several winners, because the code does. The refinement maps
`elected[n]` to the term of `n`'s own topology and `adopted` to
`topology_config`. Formation is built on this module instead of on the
election.

### PipelineTraining

Stage 0 is the head, the last stage the tail. Of the tensors only what decides
an update is kept: `grads[s]`, the micro-batches whose gradients are accumulated
in stage `s`; `weight[s]`, the number of its optimizer's steps; and
`version[s][mb]`, the weights with which the forward pass of `mb` was computed.
`optimizer[s]` is whether the stage has one: without parameters it is `None`
(`core.py` 97–102), for any of the stages in `Bare`. `task[mb]` is the head's
coroutine (`none`, `waiting` for the semaphore, `sent`, `done`, `failed`).
`call[s][mb]` is the callback of `mb` at worker `s`: `none`, `sent` (requested),
`running` in a middle stage between its two sections, `ok`, `error`,
`cancelled`. `connection[s][mb]` is what its caller sees of it instead once the
call has broken: an `error`, or nothing for ever (`silent`). A section under a
stage's lock is one step. Tasks of the head take steps only while
`execute_batch` runs the event loop; those that an exception leaves behind go on
during the next batch.

`NMicro` is `n_micro` of the head's file, by which it cuts batches;
`AccumSteps[s]` is `n_micro` of the file of worker `s`, by which it counts
(`core.py` 80, 210–213). Nothing checks that they agree. `Rows` are the batches
the training script passes. `Pieces` is `torch.chunk`:
pieces of equal size rounded up, so 5 rows in 3 pieces give 2+2+1, and 4 rows in
3 pieces give 2+2. `Stale` stands for autograd's check that the tensors saved
for a backward pass were not modified in place by an optimizer's step: a stale
backward pass may raise or not.

Failures, bounded together by `MaxFailures`: the layers raise on the way forward
after the pass was counted (`ForwardFaults`), half-way back, with the gradient
of the micro-batch accumulated or not, or after the optimizer's step
(`BackwardFaults`); the head's own layers raise (`HeadFaults`); a call breaks
under its caller (`CallBreaks`), whose worker may not have got the request, may
go on to the end, or may be cancelled between its sections together with the
call it waits for (`CallbackCancelled`). What follows from a failure is not
bounded: the error goes back hop by hop (`CallbackFails`, `HeadTaskFails`), and
a stage without an optimizer raises in every callback.

Left out: loss values, telemetry, a pipeline of one node, whose head has no next
stage to call.

### PipelineFormation

Every node has a file of its own, `config[n]`, with the two lists of
`cluster.json`; a node's endpoints for the election and for data both stand as
the node. `LoadConfig` is the constructor's validation, `refused` its exception.
`pc[n]` is where the constructor is on node `n`: `loading`, `electing` (inside
`ClusterNode.join_cluster`), then on the head `partitioning`, `sending` (inside
the executor's block of `broadcast_partitioning`) and `taking` (it reads its own
`partition_config`), on a worker `waiting` (in `wait_for_partitioning`), and in
the end `ready`, `refused` or `failed`. The barrier of the election,
`AllListening`, is the property `NoCampaignBeforeBarrier` of `ClusterElection`.
`leader[n]` is all that formation needs to know of a winner's state: `StepDown`
is the step of the election by which a winner becomes FOLLOWER. `requests`,
`calls` and `timed_out` are the `BroadcastPartitioning` messages not yet
handled, the calls their caller still waits for, and the calls given up after 10
s whose request may still be handled. A worker may adopt its topology after the
head has sent the slices, since a topology call may have timed out and be
handled late. `PartitionFails` stands for an `IndexError` or the failed
assertion.

The order of the stages comes from the coordinator's file (`Position`), the data
endpoint of the next stage from the node's own (`elec_to_data_map`,
`NextStage`); `target[n]` is where its runner will send. Files list the nodes of
the cluster: an accepted file that names other election endpoints would keep the
barrier closed, or form a cluster that this instance is not, and is excluded by
`FileAssumption`.

### LayerPartition

One pass of the loop over the nodes is one step: `AssignLayers`, or
`IndexOverrun` when the inner loop reads past `cumulative_memory`. The inner
loop stops at the first layer for which the comparison fails, or at any bound it
runs into (`Stops`, `LoopEnd`).

The code computes the nodes' cumulated shares in float32 and compares sums of
bytes with them, after rounding these to float32 too (`core.py` 148–160). The
exact quantities are compared after multiplying both sides by the sum of the
capacities (`Have`, `Want`). Rounding is monotone: with the share as the code
has it, the loop goes on up to some amount of memory and no further. That
amount, `share`, is chosen once per node (`RoundedShares`), from what differs
from the exact share by one part in `Precision` at most (`Slack`). Each of the
conversions, the sum, the quotient, the product and the additions of the second
`cumsum` adds a relative error of 2^-24 at most, so for n nodes `Precision` is
about 2^24 / (n + 7); the theorems hold for any. The choice contains more than
the code can do, since it does not relate the errors of different nodes; a share
of nothing and the share of a single node are as exact as in the code.

### TelemetryTracker

A step lasts from one suspension of the event loop to the next. A broadcast is a
record: the size its iterator remembers, the clients it found, those it has
visited, those whose send raised. Python's set iterator raises when the size has
changed (`IterationFails`), and notices nothing when one client came and one
left. Metrics are their step counter and the nodes that have a value. A send to
a connected browser includes its `onmessage` (`Draw`): `labels[c]` are the steps
on the axis, `series[c][n]` the number of points of the line of node `n`. That
messages to one browser arrive in order is the websocket's promise, so drawing
them when they are sent loses nothing. `overlapped` only remembers that an
update came while a broadcast was suspended. Left out: the values, the chart of
the loss, the suspended `accept`, and a table of the set that is resized under
an iterator while its size stays the same.

### TensorCodec

Two steps, pack and unpack, of pure operators. Tensors hold integers in some
unit, a decoded tensor is a sequence of numerators over one denominator, so that
the arithmetic of the codecs is exact; comparisons with a standard deviation are
squared. Half floats are modelled by the number of their significands and their
largest value, which are constants, so that an instance can meet rounding and
overflow with small numbers. Payloads are records. The only length that matters
is that of a zlib stream, from which `_decompress_int8` guesses whether there is
one.

## The runs

| Run | Instance | What it shows |
|---|---|---|
| `election_joins` | 3 nodes from offline, 1 term, `FairSpec` | `IInv` of the proofs, the ping barrier, what a winner knows after its broadcast, and liveness |
| `election` | 3 nodes past the barrier, 2 terms, 2 candidates, at most 4 messages under way, symmetry | the safety and action properties, and the refinement |
| `election_single_coordinator` | as `election` | finding: two coordinators |
| `election_coordinator_is_leader` | as `election` | finding: a coordinator that is FOLLOWER |
| `pipeline` | 3 stages, any of which may lack an optimizer, `n_micro` 2 in all files, batches of 4, 2 and 1 rows, 1 failure, `FairSpec` | `IInv` of the proofs; which gradients are applied when, and how often; training is synchronous; nobody waits in vain; batches end |
| `pipeline_relay` | 3 stages, a middle one that may lack an optimizer, 1 batch, no failure | finding: the relay passes nothing on |
| `partition` | all models of 1 to 4 layers with memory 0, 1, 2 or 6, all clusters of 1 to 3 nodes with capacity 1, 2 or 13, shares off by one part in 13 | what a partition gives to whom, when it succeeds, and why it fails |
| `partition_failure` | up to 3 layers with memory 0 to 2 and 2 nodes with capacity 1 or 2, exact shares but for ties | finding: failures that are not for lack of memory |
| `formation` | 3 nodes with any of 5 files each (two orders, one that pairs endpoints wrongly, two that are refused), 1 term, 4 layers, `FairSpec` | `IInv` of the proofs; slices and targets fit together, a failure starts nobody, a partition that is sent reaches everybody |
| `telemetry` | 2 websockets, 2 nodes, 3 updates, `FairSpec` | who is in the set, what dashboards are shown and what they draw |
| `codec` | all tensors of 1 to 4 values out of 6, tensors of 21, 22, 41 and 42 values with outliers; half floats of 5 bits up to 124 | shape, quantisation error, outliers, signs |
| `codec_restored` | the short tensors | finding: sparse tensors are lost |

The type invariant of the election, of training and of formation is part of
`IInv`; that of the partition is only proved (`PartitionTypes`).

Bounds. Three nodes are the smallest cluster in which a majority is not
everybody and two candidates compete for a third vote. Two terms are what it
takes for a step-down, for a stale reply, and for a second winner; the third
node of that run only votes (`TwoCandidates`), and no more than four messages
are under way at a time (`FewMessages`: all the requests of two candidates that
campaign at once, or what is left of two rounds besides a broadcast), which
keeps the run inside a few minutes; the theorems have neither bound. The
`election` run starts past the barrier: the barrier's own property is checked,
and proved, from the start. Symmetry is used for safety only. Three stages are
the smallest pipeline with a middle stage; two regular batches show that
counters line up across batches, a short last one that they need not; one
failure is enough for a batch to be abandoned while its other micro-batches are
under way, and everything after it, including errors in later batches, follows
without a further one. The semaphore of `execute_batch` has a place for every
stage and does not bind in this run: that needs four micro-batches on three
stages, which is more than TLC gets through. `PipelineIsNeverStuck` is proved
for any number of them. That files disagree in `n_micro` is covered by the
proofs alone. A partition of four layers on three nodes has nodes that get one
layer, several, the rest, or more than there is. One part in thirteen is coarse,
so that with numbers this small rounding can hide a last layer, exceed a share,
and take a loop past the end at the second node of three, whose share is nearly
everything. A product below 13 is exact but for a tie. One term is enough for
formation, whose properties speak of clusters with one winner; four layers allow
different cuts; the five files meet every check of the validation that can pass
or fail and both places where an order matters. With two websockets one can come
while the other leaves under an iterator that has still to visit it; three
updates make a broadcast overtake two others, and let a second node be heard of
when the charts have one point or two. An outlier has to be rarer than 1 in 20
for the router, hence the lengths from 21; two of them at 41 leave one that is
not an end of the range. The router's choices of INT8 and OUTLIER_INT8 need more
than ten thousand elements; the instances reach these codecs through the
override only.

### Properties of the election

* `ElectionSafety`, `HeadExists`, `CapacityFromFollowers`,
  `AdoptedNeverCampaigns`, `NoCampaignBeforeBarrier`: what the formed cluster
  relies on. `CapacityFromFollowers` is about the memory that a head has stored,
  not about who gets layers: the partition assumes 100 GiB for a peer that has
  not reported (`core.py:144`), and slices go to every peer (`node.py:303`),
  which `PipelineFormation` models (`SendPartitioning`).
* `TopologyFinal`, `VoteFinal`: what no step may undo.
* `ImplementsChoice`: the refinement.
* `HeadKnowsFollowers`: a winner that has left its broadcast has told everybody,
  and has the capacities of exactly those that follow it. It holds when no
  topology call is lost (`ReliableSpec`), and also when another winner was
  faster with some of the peers.
* `WinnerMeansAllJoin`: once somebody wins, everybody returns. It holds under
  `FairSpec`, in which no topology call is lost (`Progress` is `Next` without
  `TopologyCallFails`): a lost one is never retried, and its peer is stranded.
  That some node wins at all is not claimed: split votes may repeat.

### Properties of training

* `WholeBatchSteps`: while nothing has failed, batches split into `n_micro`
  pieces, the files agree in `n_micro` and every stage has an optimizer
  (`Regular`), every optimizer steps exactly on the gradients of the whole
  current batch.
* `SameWeights`: no micro-batch sees the weights change between its forward and
  its backward pass at a stage.
* `ImplementsSynchronous`: a regular run is one of `SynchronousTraining`, where
  every stage takes one step per batch, from the tail to the head, and no batch
  begins before all have. The mapping is `steps <- weight`, `regular <-
  Regular`; once a run is not regular the abstract specification allows
  anything, and never promises again.
* `HeadStepsOnWholeBatch`: what survives failures of the steps' being on whole
  batches, at the head.
* `NoStageAhead`: what survives failures of the stages' being in step. A
  callback that raises leaves the counters, and hence the places of the later
  zeroings and steps, shifted; still every step of a worker took `accum_steps`
  micro-batches that count for no other step. Where the files agree, no
  optimizer has ever stepped more often than there were batches.
* `NeverStuck`: while `execute_batch` runs, it can return or some coroutine of
  the current batch can go on, whatever failed before; the semaphore, `gather`
  and the nested calls never wait for each other in a circle. A call that is
  silent is the only exception.
* `BatchEnds`: every `execute_batch` ends, with a loss or an exception, unless a
  caller never hears of its call again: `ExecutePipelineStage` has no deadline
  (`comms/client.py:79`).

`Regular` is needed: one failed micro-batch, a batch that `torch.chunk` cuts
into fewer pieces, or a worker whose file names another `n_micro` shifts the
workers' counters for the rest of the training (`runner.py` 51–53, 71–73,
165–167, 192–194). The example script drops short batches
(`examples/simple_vit.py:106`); nothing in the library does.

### Properties of formation and partition

* `SlicesMeet`: a node sends its activations to the node that serves the layers
  behind its own; the head starts with the first layer and the node without a
  next stage ends with the last; however messages were delayed and however the
  files order the nodes. The sender's file has to pair each election endpoint
  with the same node's data endpoint (`Paired`): nothing in
  `validate_cluster_config` asks for it, and a file that does not misdirects the
  activations.
* `FailureStartsNobody`, `ReadyMeansDelivered`: all or nothing on both sides. A
  refused file stops the whole cluster at the barrier.
* `SentEndsReady`: a partition that was sent makes every node ready. It fails
  when a call is given up (`timed_out`), which the code does not retry, and says
  nothing of a head that failed or stepped down: its workers wait for ever.
* `EveryLayerOnce`, `WithinShare`: what the assertion and the loop guarantee,
  the latter up to what rounding adds to a share. `BalancedReachesTheEnd`: a
  sufficient condition for a partition, with room for the rounding.
  `FailureExplained`: what else there must be for one to fail; rounding is among
  the reasons twice, when it makes a share larger than the model and when it
  hides a small last layer.

The properties of formation are conditional on `OneWinner`. With two winners
(see the findings) both heads send slices to all peers and a worker serves
whatever it finds.

### Properties of telemetry and codec

* `OpenStays`, `ClosedAreForgotten`: the set holds exactly who it should, in the
  end. `DoneMeansShown`: a broadcast that is not cut short by a change of the
  set reaches everybody; one that is leaves the rest to the next update.
  `NeverBackwards`: broadcasts overtake each other, metrics do not.
* `SeriesAligned`: every line of a chart has a point for every step on the axis,
  also that of a node heard of later. It is stated up to the first overlap of an
  update with a broadcast: after that the newest step may be sent twice, which
  is one label (`dashboard.py:79`) and two points, and the lines run ahead of
  the axis.
* `ShapeKept`, `QuantisedWithinStep`, `HalvesKept`, `SignsKept`: what each codec
  keeps. Values that travel as half floats, be it a whole FP16 tensor or the
  outliers of a quantised one, arrive as the nearest half float if they are in
  the range of half floats. Two exceptions are part of the statements because
  the code has them: an odd number of values in four bits makes `unpack_tensor`
  raise, and an INT8 tensor whose zlib stream is as long as its data is decoded
  to noise.

### Fairness

Election: weak fairness of every thread step (a runnable thread runs), of the
call's end (a reply or the deadline, which gRPC guarantees), and of the handling
of a topology request. None for election timeouts and for the handling of votes:
they are not needed once there is a winner. Training: weak fairness of the event
loop's tasks and of the workers' callbacks. That a callback's layers end is an
assumption on PyTorch, not on this code; that a broken call is noticed is not
assumed, and `BatchEnds` makes it an exception. Faults, broken calls and
cancellations are not fair. Formation: weak fairness of the threads, of the
handling of a request and of the end of a call; every node is assumed to get a
topology, which `election_joins` shows when no topology call is lost.
`CallTimesOut`, `StepDown`, `PartitionFails` and `LoadConfig` are not fair.
Telemetry: the event loop runs endpoints and broadcasts; updates and browsers
come as they please.

### Findings

* `SingleCoordinator`. The docstring of `join_cluster` promises a single
  coordinator. A node that gave its vote in term 1 and waits for the winner's
  topology votes again in term 2 (`server.py:33`). Both winners set their own
  topology at once (`node.py:157`), and both return.
* `CoordinatorIsLeader`. `tests/test_integration.py:193` expects the coordinator
  to hold state LEADER. A vote reply of a higher term that arrives after the
  victory turns the winner into a FOLLOWER (`node.py:221`), although its
  topology stands. `broadcast_partitioning` then returns without sending
  anything (`node.py:290`).
* `FailureMeansOutOfMemory`. The assertion reports that the cluster is out of
  memory (`core.py:174`). The loop compares shares, not memory: it stops short
  of a last layer without parameters, gives single layers to more nodes than
  there are, and indexes past the end when a share that is everything, or
  nearly, is rounded up (`core.py:160`).
* `BareStageRelays`. A stage without parameters is announced as a "pass-through
  relay" (`core.py:101`). It relays nothing: its optimizer is `None`, and
  `zero_grad` raises in its first callback before the pass is counted, so the
  next callback begins a round again and raises too (`runner.py` 51–53,
  165–167). The head gets an error for every micro-batch, and every
  `execute_batch` raises. `BareStopsTraining` proves it for any pipeline: with
  such a stage, no stage ever accumulates a gradient or steps.
* `TensorRestored`. `unpack_tensor` "restores the tensor" (`utils.py:74`).
  `compress` passes its compression level, 6, as the threshold of the sparse
  codec (`tensor_compression_new.py:83`), which keeps values above 6 times the
  maximum: a tensor with more than 30% zeros arrives as zeros.

## The proofs

`ElectionProofs`, for any finite nonempty `Node`, any `None` outside it and any
`MaxTerm`:

`IInv` is inductive. `ElectionSafety` alone is not: it speaks of winners and
says nothing about votes under way. The argument goes through `HasVote(v, i)`:
`v`'s vote for the candidacy of `i` is `i`'s own, on its way back, or received.
`VoteInv` says that such a vote binds `v` until `v` moves to a later term;
hence (`OneVotePerTerm`) no node votes for two candidacies of a term. `CountInv`
says that `votes_received` is the number of voters and that a head has a
majority of them; two majorities share a node, so two heads of a term are one.
`RoundInv` keeps replies and calls together (a reply belongs to an open call of
the current round), which is what makes a late reply harmless. `BroadcastInv`
ties state LEADER, topology requests and acknowledgements to heads, from which
`HeadExists` and `CapacityFromFollowers` follow. The barrier has an inductive
invariant of its own, `BarrierInv`. The refinement is proved step by step: the
winning step is `Elect`, the accepting handler is `Adopt`, every other step
stutters.

`HeadKnowsFollowers` is a theorem of `ReliableSpec`, the same specification
without `TopologyCallFails`. Its invariant `ToldInv` follows the one call from a
winner to a peer through its phases (`ToldPhase`): not yet made, on its way,
answered, over. In each of them the messages between the two are known exactly,
and only in the last, when the peer has a topology and its capacity is counted
if it follows, can the winner's broadcast be over.

`PipelineProofs`, for any depth above 1, any `n_micro` in each file, any
batches, any stages without an optimizer and any number of failures. Types and
`HeadStepsOnWholeBatch` rest on `HeadInv`: a task of the current batch is done
only when its gradient is accumulated. `WholeBatchSteps`, `SameWeights` and
`ImplementsSynchronous` rest on `RegularInv`, which none of them is strong
enough to be: `Chained` says that a micro-batch is called stage by stage and
answered in the reverse order; `StageInv` says that the counters of a worker,
modulo `n_micro`, are the numbers of passes of the current batch, and from these
follow the gradients it has accumulated and the steps it has taken. A counter
comes round exactly when the last of `n_micro` distinct pieces has passed
(`NextRemainder`, `PieceAdded`), and `PiecesBound` and `CeilDivCovers` bring in
the arithmetic of `torch.chunk`. A batch can only start when every stage has
finished the last one (`BetweenBatches`), since each of its tasks is done and
the chain has brought every answer back. What a bare stage does
(`BareStageStopsTraining`) is made inductive by `BareInv`: nothing is called
behind a stage without an optimizer, nothing returns before it, and its counter
stays 0. `NeverStuck` rests on `CallInv`: whoever waits for a call has made one,
and a callback is cancelled only behind a broken call; so a micro-batch of which
nobody has anything to do would be waited for at every stage (`SentIsUnderWay`),
and the tail waits for nobody. `NoStageAhead` counts instead of following the
batches, since after a failure nothing is known of the counters' remainders:
`OnceInv` says that no micro-batch is called twice at a stage, `CountInv` that a
worker's steps took `accum_steps` backward passes each and every pass a callback
that ended; only micro-batches of batches that began can have ended, of which
there are at most `n_micro` per batch (`CountsBoundSteps`). The refinement maps
`StartBatch` to `BeginBatch`, the steps of the optimizers to `Step`, and
everything else to a stutter.

`FormationProofs`, for any nodes, any files and any number of
layers: types, `SlicesMeet`, `FailureStartsNobody`, `ReadyMeansDelivered`.
An accepted file numbers the nodes (`Numbering`), hence the positions that a
coordinator gives out are distinct and leave none out (`Positions`), and
`NextStageIs` identifies the node behind. `ChoiceInv` says who can be where
before and after the barrier, `DeliveryInv` that every slice stored or taken is
that of a cut its sender has made, and that every cut is delivered, under way or
given up. With one winner there is one cut (`OnlyCut`), and neighbours share its
boundary.

`LayerPartitionProofs`, for any models, clusters and precision: types,
`EveryLayerOnce`, `WithinShare`, `BalancedReachesTheEnd`, `FailureExplained`.
The invariant `PInv` says that the slices so far are adjacent and that the next
one starts where they end. It holds whatever the comparisons come to, because
only the end of a slice depends on them, and `SliceEnd` is beyond its start. The
layer's holder is the first slice that ends behind it. `PartitionIsACut`
concludes that the boundaries of a successful partition are one of the `Cuts`
that `PipelineFormation` chooses from. The other three are about sums:
`CumulativeDef` and `CumulativeGrows` establish what `Cumulative` computes and
that it is monotone, `ShareIsNear` how far a rounded share is from the exact
one, `LoopStopsAtShare` that the inner loop stops at the first layer that does
not fit into the nodes' common share. `BalancedInv` is then inductive: a layer
remains for every node to come, because what was handed out is within the share
of the nodes that got it. Only at the last node, whose share is everything, may
rounding take the loop too far.

`TelemetryProofs`, for any finite set of websockets, any nodes and any number of
updates: types, `OpenStays`, `DoneMeansShown`, `NeverBackwards` and
`SeriesAligned`. `TInv` adds what a broadcast in progress knows: it gives up
only on clients that have left, and those it visited were shown its update.
`ChartInv` adds what keeps charts aligned: without an overlap one broadcast at
most is sending, and the clients it has not visited do not have its step on
their axes.

`TensorCodecProofs`, for any tensors of integers and any format of half floats:
`ShapeKept`, `QuantisedWithinStep`, `HalvesKept`, `SignsKept`. `CodecInv` says
that what is restored is what the decoder makes of something an encoder made of
the tensor; the rest is in the lemmas about the operators. Eight bits do not
wrap (`Int8Near`): 255 steps from the lowest value reach the highest, and the
truncation after the shift loses less than one step. The scale that ends at the
largest value that is no outlier rounds the others to half a step
(`OutlierWithinStep`), and the outliers are put back over it (`OutlierValues`).
A half float in their range is off by at most half the distance of its
neighbours, a power of two that divides every larger one, the distance at the
end of the range included, so that rounding does not leave it (`UlpsDivide`,
`HalfNear`). That a binary tensor keeps its signs needs its mean magnitude to be
positive, a fact about sums over sets (`SumFacts`). `SparseTensorsAreLost` turns
the finding about sparse tensors into a theorem: every one of them arrives as
zeros.

`ArithmeticLemmas` holds induction over the numbers up to `n` in the form the
provers can instantiate: the step is about membership in a set, not about a
predicate. With it, what the recursive functions compute, `Cumulative` of the
partition and the sums of the codec, is proved: first that the recursion has a
solution, then what every solution is.

Only model-checked: the liveness properties `WinnerMeansAllJoin`, `BatchEnds`,
`SentEndsReady` and `ClosedAreForgotten`, which need fairness and are outside
the prover's reach. What is proved are their safety cores: a winner that has
left its broadcast has told everybody (`HeadKnowsFollowers`), a running batch
can go on (`NeverStuck`), a head is ready when everything is delivered
(`ReadyMeansDelivered`), a websocket is in the set of clients only while its
endpoint, which will remove it, still runs (`TrackerTypes`). The five runs that
end in a violation are findings. The assumptions of the proofs are the `ASSUME`s
of `ClusterElection`, `PipelineTraining`, `PipelineFormation`, `LayerPartition`,
`TelemetryTracker` and `TensorCodec`; TLC evaluates them in every run of these
modules.

## The plan

1. `ClusterElection`, `TopologyChoice` and proofs: done.
2. `PipelineTraining`, `SynchronousTraining` and proofs: done, with what still
   holds after failures (`NeverStuck`, `NoStageAhead`).
3. `PipelineFormation` with configuration files and proofs, `LayerPartition` and
   its theorems, and the cut as the theorem between the two: done.
4. `TelemetryTracker` with the dashboard and proofs: done. To come: the values
   of the metrics, which a late datagram can set back.
5. `TensorCodec` and proofs: done for exact integers. To come: empty and
   non-finite tensors.

## Not modelled, and why

* Hardware queries: a capacity is an opaque value to the election, an input to
  the partition. The profiler: nothing uses it.
* `compression_lab/tensor_compression.py` and `tensor_compression-new.py`
  (superseded), generated gRPC code.
* Crashes and restarts of a process: nothing is persisted, and no code brings a
  process back into a formed cluster. To its peers, a process that dies during
  training is a call that breaks.
* A pipeline of one node (its head has no next stage to call, and training fails
  in the first batch), `AssignConfiguration` and `configure_remote` (never
  called).
* The start of the workers' data server after the formation: a head that trains
  before a worker listens gets an error, which is a broken call of
  `PipelineTraining`.
* Files that name data endpoints of no node, or another set of nodes.
* The values that training computes, and float32 rounding in the codec.

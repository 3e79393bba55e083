--------------------------- MODULE LayerPartition ---------------------------
(***************************************************************************)
(* How the head cuts the model into one slice of layers per node, in       *)
(* proportion to the nodes' memory (DistributedPipeline.join_cluster,      *)
(* pipeline/core.py).  One pass of the loop over the nodes is one step.    *)
(*                                                                         *)
(* Shares are computed in float32 and compared with sums of bytes that    *)
(* are converted to float32 for it.  The code's rounding is monotone, so   *)
(* for each node the loop goes on up to some amount of memory, which       *)
(* differs from the exact share by no more than the errors add up to: that *)
(* amount is a choice here.                                                *)
(***************************************************************************)
EXTENDS Integers, Sequences, FiniteSetsExt

CONSTANTS
  MaxLayers,      \* bounds of the inputs: length of the model
  MaxNodes,       \* and number of nodes
  LayerMemories,  \* memory a layer may need, 0 when it has no parameters
  Capacities,     \* memory a node may have
  Precision       \* a share is off by at most one part in Precision: in float32,
                  \* about 2^24 over the number of operations it takes

ASSUME MaxLayersAssumption == MaxLayers \in Nat \ {0}
ASSUME MaxNodesAssumption == MaxNodes \in Nat \ {0}
ASSUME LayerMemoriesAssumption == LayerMemories \subseteq Nat
ASSUME CapacitiesAssumption == Capacities \subseteq Nat \ {0}
ASSUME PrecisionAssumption == Precision \in Nat \ {0}

VARIABLES
  layer_memory_reqs,
  capacity,        \* of the nodes in topology order
  current_layer,
  allocations,     \* the slices of the nodes served so far
  outcome

vars == <<layer_memory_reqs, capacity, current_layer, allocations, outcome>>

total_layers == Len(layer_memory_reqs)
Nodes == Len(capacity)

\* Sum of the first k entries of a sequence: cumsum.
Cumulative(seq, k) ==
  LET sum[j \in 0 .. Len(seq)] == IF j = 0 THEN 0 ELSE sum[j - 1] + seq[j]
  IN  sum[k]

\* Mutant: the layer itself is not counted.
HaveWithout(layer) == Cumulative(layer_memory_reqs, layer) * Cumulative(capacity, Nodes)

\* The memory of the model up to a layer, and the share of the nodes up to a node,
\* both multiplied by the sum of the capacities.
Have(layer) == Cumulative(layer_memory_reqs, layer + 1) * Cumulative(capacity, Nodes)
Want(node) == Cumulative(layer_memory_reqs, total_layers) * Cumulative(capacity, node)

\* The most by which rounding makes a share larger or smaller.
Slack(node) == Want(node) \div Precision

\* What mem_alloc[node] can come out as, and one more for a tie that counts as
\* below.  A share of nothing is exact, and a single node's is the whole model,
\* rounded as the model is.
RoundedShares(node) ==
  Want(node) - Slack(node) ..
    Want(node) + (IF Want(node) = 0 \/ Nodes = 1 THEN 0 ELSE Slack(node) + 1)

\* cumulative_memory[layer] < mem_alloc[node].
Below(layer, share) == Have(layer) < share

\* The layers at which the inner loop can stop.
Stops(share) ==
  {layer \in current_layer .. total_layers - 1 : ~Below(layer, share)}

\* The loop's bound is current_layer <= total_layers, so a start behind the
\* last layer ends it at once.
LoopEnd(share) ==
  IF current_layer > total_layers THEN current_layer ELSE Min(Stops(share))

\* Mutant: the last layer is left to nobody.
SliceEndNoLast(share) == Max({LoopEnd(share), current_layer + 1})

\* The last layer goes to whoever comes to it, and nobody is left without one.
SliceEnd(share) ==
  LET end == LoopEnd(share)
  IN  Max({IF end = total_layers - 1 THEN total_layers ELSE end, current_layer + 1})

Init ==
  /\ \E l \in 1 .. MaxLayers, n \in 1 .. MaxNodes :
       /\ layer_memory_reqs \in [1 .. l -> LayerMemories]
       /\ capacity \in [1 .. n -> Capacities]
  /\ current_layer = 0
  /\ allocations = <<>>
  /\ outcome = "running"

\* Mutant: the slice starts anew at the layer its predecessor ended with.
SliceStartOverlap == Max({current_layer - 1, 0})

SliceStart == current_layer

\* The next node's slice.
AssignLayers(node, share) ==
  /\ outcome = "running" /\ node = Len(allocations) + 1
  /\ current_layer > total_layers \/ Stops(share) # {}
  /\ current_layer' = SliceEnd(share)
  /\ allocations' = Append(allocations, [start |-> SliceStart, end |-> SliceEnd(share)])
  /\ UNCHANGED <<layer_memory_reqs, capacity, outcome>>

\* The inner loop runs off cumulative_memory, which its bound does not prevent.
IndexOverrun(node, share) ==
  /\ outcome = "running" /\ node = Len(allocations) + 1
  /\ current_layer <= total_layers /\ Stops(share) = {}
  /\ outcome' = "index_error"
  /\ UNCHANGED <<layer_memory_reqs, capacity, current_layer, allocations>>

\* The final assertion.
AssertAllAssigned ==
  /\ outcome = "running" /\ Len(allocations) = Nodes
  /\ outcome' = IF current_layer = total_layers THEN "done" ELSE "refused"
  /\ UNCHANGED <<layer_memory_reqs, capacity, current_layer, allocations>>

Next ==
  \/ \E node \in 1 .. Nodes : \E share \in RoundedShares(node) :
       AssignLayers(node, share) \/ IndexOverrun(node, share)
  \/ AssertAllAssigned

Spec == Init /\ [][Next]_vars

-----------------------------------------------------------------------------
\* The type invariant.
TypeOK ==
  /\ layer_memory_reqs \in Seq(LayerMemories)
  /\ capacity \in Seq(Capacities)
  /\ current_layer \in Nat
  /\ allocations \in Seq([start : Nat, end : Nat])
  /\ Len(allocations) <= Nodes
  /\ outcome \in {"running", "done", "refused", "index_error"}
  /\ current_layer = 0 <=> allocations = <<>>

\* A partition that passes the assertion gives every layer to exactly one node
\* and a layer to every node, in topology order.
EveryLayerOnce ==
  outcome = "done" =>
    /\ \A layer \in 0 .. total_layers - 1 :
         Cardinality({j \in 1 .. Nodes :
           allocations[j].start <= layer /\ layer < allocations[j].end}) = 1
    /\ \A j \in 1 .. Nodes : allocations[j].start < allocations[j].end
    /\ \A j \in 2 .. Nodes : allocations[j - 1].end = allocations[j].start

\* Memory is respected: the nodes up to j together hold no more than their share,
\* and what rounding may add to it, unless j's slice is the single layer or the
\* rest of the model that the code forces on it.
WithinShare ==
  \A j \in 1 .. Len(allocations) :
    LET slice == allocations[j] IN
      slice.end > slice.start + 1 /\ slice.end < total_layers =>
        Cumulative(layer_memory_reqs, slice.end) * Cumulative(capacity, Nodes)
          <= Want(j) + Slack(j)

\* Every layer fits into the share of every node, with room for the errors of two
\* shares, and the last one weighs more than rounding can hide.
Balanced ==
  /\ \A k \in 1 .. total_layers, j \in 1 .. Nodes :
       layer_memory_reqs[k] * Cumulative(capacity, Nodes) + 2 * Slack(Nodes)
         < capacity[j] * Cumulative(layer_memory_reqs, total_layers)
  /\ layer_memory_reqs[total_layers] * Cumulative(capacity, Nodes) > Slack(Nodes)

\* A balanced model reaches the last node, which takes the rest of it, unless
\* its share of everything was rounded up to more than everything.
BalancedReachesTheEnd ==
  Balanced =>
    /\ outcome # "refused"
    /\ outcome = "index_error" => Len(allocations) = Nodes - 1

\* What a failure means: the nodes in front have used up the layers, or a share
\* that is everything but for rounding, the last node's at the latest, was rounded
\* up to more than everything; a loop that does come to the end has given nodes
\* layers that are not there, or stopped before the last layer because rounding
\* hides what it weighs.
FailureExplained ==
  /\ outcome = "index_error" =>
       \/ current_layer = total_layers
       \/ LET node == Len(allocations) + 1 IN Want(Nodes) <= Want(node) + Slack(node)
  /\ outcome = "refused" =>
       \/ current_layer > total_layers
       \/ layer_memory_reqs[total_layers] * Cumulative(capacity, Nodes) <= Slack(Nodes)

\* core.py:174, the message of the assertion: there is no partition when the
\* cluster is out of memory.
FailureMeansOutOfMemory ==
  outcome \in {"refused", "index_error"} =>
    Cumulative(layer_memory_reqs, total_layers) > Cumulative(capacity, Nodes)
=============================================================================

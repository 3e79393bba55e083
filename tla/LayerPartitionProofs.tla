------------------------ MODULE LayerPartitionProofs ------------------------
(***************************************************************************)
(* A partition that passes the final assertion of join_cluster gives every *)
(* layer to one node, whatever the comparisons of the loop come to: only   *)
(* where a slice ends depends on them, never where the next one starts.    *)
(* What they do decide is how much memory a node is given, whether the     *)
(* loop comes to the last layer with the last node, and for which reasons  *)
(* it does not; that is shown from what the sums of Cumulative are.        *)
(***************************************************************************)
EXTENDS LayerPartition, ArithmeticLemmas, TLAPS, FiniteSetTheorems, SequenceTheorems

\* The slices so far follow each other without a gap, and the next one starts
\* where they end.
PInv ==
  /\ layer_memory_reqs \in Seq(LayerMemories)
  /\ capacity \in Seq(Capacities)
  /\ current_layer \in Nat
  /\ allocations \in Seq([start : Nat, end : Nat])
  /\ Len(allocations) <= Nodes
  /\ outcome \in {"running", "done", "refused", "index_error"}
  /\ allocations = <<>> => current_layer = 0
  /\ allocations # <<>> => allocations[1].start = 0 /\ allocations[Len(allocations)].end = current_layer
  /\ \A j \in 1 .. Len(allocations) : allocations[j].start < allocations[j].end
  /\ \A j \in 1 .. Len(allocations) : j > 1 => allocations[j - 1].end = allocations[j].start
  /\ \A j, k \in 1 .. Len(allocations) : j < k => allocations[j].end <= allocations[k].start
  /\ outcome = "done" => current_layer = total_layers /\ Len(allocations) = Nodes

-----------------------------------------------------------------------------
\* What the inputs are, over all numbers.
LEMMA LargerAlphabet ==
  ASSUME NEW S, NEW T, S \subseteq T, NEW seq \in Seq(S)
  PROVE  seq \in Seq(T)
<1>1. Len(seq) \in Nat /\ seq \in [1 .. Len(seq) -> S]
  BY SeqDef
<1>2. seq \in [1 .. Len(seq) -> T]
  BY <1>1
<1> QED BY <1>1, <1>2, SeqDef

LEMMA InputTypes ==
  ASSUME PInv
  PROVE  /\ layer_memory_reqs \in Seq(Nat) /\ capacity \in Seq(Nat)
         /\ \A j \in 1 .. Nodes : capacity[j] > 0
<1>1. layer_memory_reqs \in Seq(Nat)
  BY LayerMemoriesAssumption, LargerAlphabet DEF PInv
<1>2. capacity \in Seq(Nat \ {0})
  BY CapacitiesAssumption, LargerAlphabet DEF PInv
<1>3. capacity \in Seq(Nat)
  <2>1. Nat \ {0} \subseteq Nat
    OBVIOUS
  <2> QED BY <1>2, <2>1, LargerAlphabet
<1>4. \A j \in 1 .. Nodes : capacity[j] \in Nat \ {0}
  BY <1>2 DEF Nodes
<1> QED BY <1>1, <1>3, <1>4

\* What a slice is made of.
LEMMA SliceType ==
  ASSUME PInv, NEW j \in 1 .. Len(allocations)
  PROVE  allocations[j].start \in Nat /\ allocations[j].end \in Nat
<1> DEFINE Slice == [start : Nat, end : Nat]
<1>1. allocations \in Seq(Slice)
  BY DEF PInv
<1>2. ASSUME NEW x \in Slice PROVE x.start \in Nat /\ x.end \in Nat
  OBVIOUS
<1> HIDE DEF Slice
<1>3. allocations[j] \in Slice
  BY <1>1
<1> QED BY <1>2, <1>3

\* Whatever the comparisons come to, a slice has at least one layer.
LEMMA SliceHasLayers ==
  ASSUME PInv, NEW share,
         current_layer > total_layers \/ Stops(share) # {}
  PROVE  SliceEnd(share) \in Nat /\ SliceEnd(share) > current_layer
<1>1. total_layers \in Nat /\ current_layer \in Nat
  BY DEF PInv, total_layers
<1>2. Stops(share) \in SUBSET Nat
  BY <1>1 DEF Stops
<1>3. LoopEnd(share) \in Nat
  <2>1. CASE current_layer > total_layers  BY <1>1, <2>1 DEF LoopEnd
  <2>2. CASE ~(current_layer > total_layers)
    <3>1. Min(Stops(share)) \in Nat  BY <1>2, <2>2, MinOfNats
    <3> QED BY <2>2, <3>1 DEF LoopEnd
  <2> QED BY <2>1, <2>2
<1> DEFINE end == IF LoopEnd(share) = total_layers - 1
                  THEN total_layers ELSE LoopEnd(share)
<1>4. end \in Nat /\ current_layer + 1 \in Nat
  BY <1>1, <1>3
<1>5. SliceEnd(share) = Max({end, current_layer + 1})
  BY DEF SliceEnd
<1> HIDE DEF end
<1>6. Max({end, current_layer + 1}) \in Nat /\ Max({end, current_layer + 1}) >= current_layer + 1
  BY <1>4, MaxOfTwo
<1> QED BY <1>1, <1>5, <1>6

-----------------------------------------------------------------------------
LEMMA PInvInit == Init => PInv
<1> SUFFICES ASSUME Init PROVE PInv
  OBVIOUS
<1>1. PICK l \in 1 .. MaxLayers, n \in 1 .. MaxNodes :
        /\ layer_memory_reqs \in [1 .. l -> LayerMemories]
        /\ capacity \in [1 .. n -> Capacities]
  BY DEF Init
<1>2. l \in Nat /\ n \in Nat
  BY MaxLayersAssumption, MaxNodesAssumption
<1>3. layer_memory_reqs \in Seq(LayerMemories) /\ capacity \in Seq(Capacities)
  BY <1>1, <1>2, SeqDef, SMTT(20), ZenonT(30)
<1>4. allocations = <<>> /\ current_layer = 0 /\ outcome = "running"
  BY DEF Init
<1> QED BY <1>3, <1>4 DEF PInv, Nodes

LEMMA PInvAssign ==
  ASSUME PInv, NEW node \in 1 .. Nodes, NEW share, AssignLayers(node, share)
  PROVE  PInv'
<1> DEFINE new == [start |-> current_layer, end |-> SliceEnd(share)]
<1>1. SliceEnd(share) \in Nat /\ SliceEnd(share) > current_layer
  BY SliceHasLayers DEF AssignLayers, SliceStart
<1>2. /\ current_layer' = new.end
      /\ allocations' = Append(allocations, new)
      /\ UNCHANGED <<layer_memory_reqs, capacity, outcome>>
      /\ outcome = "running" /\ node <= Nodes /\ node = Len(allocations) + 1
  BY DEF AssignLayers, SliceStart, PInv, Nodes
<1>3. new \in [start : Nat, end : Nat] /\ new.start = current_layer /\ new.end > new.start
  BY <1>1 DEF PInv
<1> HIDE DEF new
<1>4. /\ allocations \in Seq([start : Nat, end : Nat]) /\ current_layer \in Nat
      /\ node = Len(allocations) + 1 /\ Len(allocations) \in Nat
  BY <1>2 DEF PInv
<1>5. /\ allocations' \in Seq([start : Nat, end : Nat])
      /\ Len(allocations') = node /\ node \in Nat \ {0}
      /\ allocations'[node] = new
      /\ \A j \in 1 .. Len(allocations) : allocations'[j] = allocations[j]
  BY <1>2, <1>3, <1>4
<1>6. \A j \in 1 .. Len(allocations) : allocations[j].end <= current_layer
  <2>1. SUFFICES ASSUME NEW j \in 1 .. Len(allocations)
                 PROVE  allocations[j].end <= current_layer
    OBVIOUS
  <2>2. allocations[Len(allocations)].end = current_layer
    BY <1>4, <2>1 DEF PInv
  <2>3. CASE j = Len(allocations)  BY <1>4, <2>2, <2>3
  <2>4. CASE j < Len(allocations)
    <3>1. Len(allocations) \in 1 .. Len(allocations)
      BY <1>4, <2>1
    <3>2. allocations[j].end <= allocations[Len(allocations)].start
      BY <2>1, <2>4, <3>1 DEF PInv
    <3>3. allocations[Len(allocations)].start < allocations[Len(allocations)].end
      BY <3>1 DEF PInv
    <3>4. /\ allocations[j].end \in Nat
          /\ allocations[Len(allocations)].start \in Nat
          /\ allocations[Len(allocations)].end \in Nat
      BY <2>1, <3>1, SliceType
    <3> QED BY <1>4, <2>2, <3>2, <3>3, <3>4
  <2> QED BY <1>4, <2>1, <2>3, <2>4
<1>7. (allocations' # <<>>) =>
        allocations'[1].start = 0 /\ allocations'[Len(allocations')].end = current_layer'
  <2>1. CASE allocations = <<>>
    <3>1. current_layer = 0 /\ node = 1  BY <1>4, <2>1 DEF PInv
    <3> QED BY <1>2, <1>3, <1>5, <3>1
  <2>2. CASE allocations # <<>>
    <3>1. 1 \in 1 .. Len(allocations)  BY <1>4, <2>2
    <3> QED BY <1>2, <1>5, <2>2, <3>1 DEF PInv
  <2> QED BY <2>1, <2>2
<1>8. \A j \in 1 .. Len(allocations') : allocations'[j].start < allocations'[j].end
  <2>1. SUFFICES ASSUME NEW j \in 1 .. node
                 PROVE  allocations'[j].start < allocations'[j].end
    BY <1>5
  <2>2. CASE j = node  BY <1>1, <1>3, <1>4, <1>5, <2>2
  <2>3. CASE j \in 1 .. Len(allocations)  BY <1>5, <2>3 DEF PInv
  <2> QED BY <1>4, <2>1, <2>2, <2>3
<1>9. \A j \in 1 .. Len(allocations') : j > 1 => allocations'[j - 1].end = allocations'[j].start
  <2>1. SUFFICES ASSUME NEW j \in 1 .. node, j > 1
                 PROVE  allocations'[j - 1].end = allocations'[j].start
    BY <1>5
  <2>2. j - 1 \in 1 .. Len(allocations)  BY <1>4, <2>1
  <2>3. CASE j = node
    <3>1. allocations # <<>> /\ j - 1 = Len(allocations)  BY <1>4, <2>2, <2>3
    <3>2. allocations[j - 1].end = current_layer  BY <3>1 DEF PInv
    <3> QED BY <1>3, <1>5, <2>2, <2>3, <3>2
  <2>4. CASE j \in 1 .. Len(allocations)  BY <1>5, <2>1, <2>2, <2>4 DEF PInv
  <2> QED BY <1>4, <2>1, <2>3, <2>4
<1>10. \A j, k \in 1 .. Len(allocations') : j < k => allocations'[j].end <= allocations'[k].start
  <2>1. SUFFICES ASSUME NEW j \in 1 .. node, NEW k \in 1 .. node, j < k
                 PROVE  allocations'[j].end <= allocations'[k].start
    BY <1>5
  <2>2. j \in 1 .. Len(allocations)  BY <1>4, <2>1
  <2>3. CASE k = node  BY <1>3, <1>5, <1>6, <2>2, <2>3
  <2>4. CASE k \in 1 .. Len(allocations)  BY <1>5, <2>1, <2>2, <2>4 DEF PInv
  <2> QED BY <1>4, <2>1, <2>3, <2>4
<1>11. allocations' # <<>> /\ current_layer' \in Nat /\ Len(allocations') <= Nodes'
  <2>1. Nodes' = Nodes  BY <1>2 DEF Nodes
  <2> QED BY <1>1, <1>2, <1>5, <2>1 DEF new
<1>12. outcome' = "running" /\ layer_memory_reqs' = layer_memory_reqs /\ capacity' = capacity
  BY <1>2
<1>13. /\ layer_memory_reqs' \in Seq(LayerMemories)
       /\ capacity' \in Seq(Capacities)
       /\ outcome' \in {"running", "done", "refused", "index_error"}
       /\ outcome' # "done"
  BY <1>12 DEF PInv
<1> QED BY <1>5, <1>7, <1>8, <1>9, <1>10, <1>11, <1>13 DEF PInv

LEMMA PInvNext == PInv /\ [Next]_vars => PInv'
<1> SUFFICES ASSUME PInv, [Next]_vars PROVE PInv'
  OBVIOUS
<1>1. ASSUME NEW node \in 1 .. Nodes, NEW share \in RoundedShares(node), AssignLayers(node, share)
      PROVE  PInv'
  BY <1>1, PInvAssign
<1>2. ASSUME NEW node \in 1 .. Nodes, NEW share \in RoundedShares(node), IndexOverrun(node, share)
      PROVE  PInv'
  BY <1>2 DEF IndexOverrun, PInv, Nodes, total_layers
<1>3. CASE AssertAllAssigned
  BY <1>3 DEF AssertAllAssigned, PInv, Nodes, total_layers
<1>4. CASE UNCHANGED vars
  BY <1>4 DEF vars, PInv, Nodes, total_layers
<1> QED BY <1>1, <1>2, <1>3, <1>4 DEF Next

\* The slices recorded so far are adjacent (core.py 156-168), for any model, any
\* cluster and any outcome of the comparisons.
THEOREM PartitionInvariance == Spec => []PInv
<1> QED BY PInvInit, PInvNext, PTL DEF Spec

\* Variables keep their types, and the first node's slice is never empty: the next
\* node starts behind layer 0 as soon as one has been served.
THEOREM PartitionTypes == Spec => []TypeOK
<1>1. PInv => TypeOK
  <2> SUFFICES ASSUME PInv PROVE current_layer = 0 <=> allocations = <<>>
    BY DEF PInv, TypeOK
  <2>1. ASSUME allocations # <<>> PROVE current_layer # 0
    <3> DEFINE last == Len(allocations)
    <3>1. allocations \in Seq([start : Nat, end : Nat])
      BY DEF PInv
    <3>2. last \in 1 .. last
      BY <2>1, <3>1
    <3>3. allocations[last].start \in Nat /\ allocations[last].end \in Nat
      BY <3>2, SliceType
    <3>4. allocations[last].start < allocations[last].end /\ allocations[last].end = current_layer
      BY <2>1, <3>2 DEF PInv
    <3> QED BY <3>3, <3>4
  <2> QED BY <2>1 DEF PInv
<1> QED BY <1>1, PartitionInvariance, PTL

-----------------------------------------------------------------------------
\* The layer is before the end of some slice; the first such slice holds it.
LEMMA LayerHasNode ==
  ASSUME PInv, outcome = "done", NEW layer \in 0 .. total_layers - 1
  PROVE  \E j \in 1 .. Nodes : allocations[j].start <= layer /\ layer < allocations[j].end
<1>1. /\ total_layers \in Nat /\ Nodes \in Nat
      /\ allocations \in Seq([start : Nat, end : Nat]) /\ Len(allocations) = Nodes
      /\ current_layer = total_layers
  BY DEF PInv, total_layers, Nodes
<1>2. allocations # <<>>
  BY <1>1 DEF PInv
<1>3. Nodes \in 1 .. Nodes /\ allocations[Nodes].end = total_layers
  BY <1>1, <1>2 DEF PInv
<1> DEFINE S == {j \in 1 .. Nodes : layer < allocations[j].end}
<1>4. S \in SUBSET Nat /\ S # {}
  <2>1. Nodes \in S  BY <1>1, <1>3
  <2> QED BY <1>1, <2>1
<1> DEFINE first == Min(S)
<1>5. first \in S /\ \A y \in S : first <= y
  BY <1>4, MinOfNats
<1> HIDE DEF first
<1>6. first \in 1 .. Nodes /\ layer < allocations[first].end
  BY <1>5
<1>7. allocations[first].start <= layer
  <2>1. CASE first = 1
    <3>1. allocations[1].start = 0  BY <1>2 DEF PInv
    <3> QED BY <2>1, <3>1
  <2>2. CASE first > 1
    <3>1. first - 1 \in 1 .. Nodes  BY <1>1, <1>6, <2>2
    <3>2. first - 1 \notin S  BY <1>1, <1>5, <1>6
    <3>3. ~(layer < allocations[first - 1].end)  BY <3>1, <3>2
    <3>4. allocations[first - 1].end = allocations[first].start
      BY <1>1, <1>6, <2>2 DEF PInv
    <3>5. allocations[first - 1].end \in Nat
      BY <1>1, <3>1, SliceType
    <3> QED BY <1>1, <3>3, <3>4, <3>5
  <2> QED BY <1>1, <1>6, <2>1, <2>2
<1> QED BY <1>6, <1>7

LEMMA LayerHasOneNode ==
  ASSUME PInv, outcome = "done", NEW layer \in 0 .. total_layers - 1
  PROVE  Cardinality({j \in 1 .. Nodes :
           allocations[j].start <= layer /\ layer < allocations[j].end}) = 1
<1> DEFINE holders == {j \in 1 .. Nodes :
                         allocations[j].start <= layer /\ layer < allocations[j].end}
<1>1. /\ total_layers \in Nat /\ Nodes \in Nat
      /\ allocations \in Seq([start : Nat, end : Nat]) /\ Len(allocations) = Nodes
  BY DEF PInv, total_layers, Nodes
<1>2. PICK i \in 1 .. Nodes : i \in holders
  BY LayerHasNode
<1>3. \A j, k \in holders : ~(j < k)
  <2>1. SUFFICES ASSUME NEW j \in holders, NEW k \in holders, j < k PROVE FALSE
    OBVIOUS
  <2>2. allocations[j].end <= allocations[k].start
    BY <1>1, <2>1 DEF PInv
  <2>3. layer < allocations[j].end /\ allocations[k].start <= layer
    BY <2>1
  <2>4. allocations[j].end \in Nat /\ allocations[k].start \in Nat
    BY <1>1, <2>1, SliceType
  <2> QED BY <1>1, <2>2, <2>3, <2>4
<1>4. holders = {i}
  <2>1. \A j \in holders : j = i
    BY <1>1, <1>2, <1>3
  <2> HIDE DEF holders
  <2> QED BY <1>2, <2>1
<1> QED BY <1>4, FS_Singleton

\* A partition that passes the assertion at core.py:172 covers the model: every
\* layer has one node, every node a layer, in topology order.
THEOREM LayersCovered == Spec => []EveryLayerOnce
<1>1. PInv => EveryLayerOnce
  <2> SUFFICES ASSUME PInv, outcome = "done" PROVE EveryLayerOnce
    BY DEF EveryLayerOnce
  <2>1. Len(allocations) = Nodes /\ Nodes \in Nat
    BY DEF PInv, Nodes
  <2>2. \A layer \in 0 .. total_layers - 1 :
          Cardinality({j \in 1 .. Nodes :
            allocations[j].start <= layer /\ layer < allocations[j].end}) = 1
    BY LayerHasOneNode
  <2>3. \A j \in 1 .. Nodes : allocations[j].start < allocations[j].end
    BY <2>1 DEF PInv
  <2>4. \A j \in 2 .. Nodes : allocations[j - 1].end = allocations[j].start
    BY <2>1, SMTT(20), ZenonT(30) DEF PInv
  <2> QED BY <2>2, <2>3, <2>4 DEF EveryLayerOnce
<1> QED BY <1>1, PartitionInvariance, PTL
-----------------------------------------------------------------------------
(* Sums over sequences: what the recursive function of Cumulative computes. *)

\* There is a function of partial sums.
LEMMA SumExists ==
  ASSUME NEW seq, NEW n \in Nat, \A i \in 1 .. n : seq[i] \in Nat
  PROVE  \E f \in [0 .. n -> Nat] : f[0] = 0 /\ \A j \in 1 .. n : f[j] = f[j - 1] + seq[j]
<1> DEFINE Summed(m) == \E f \in [0 .. m -> Nat] :
                          f[0] = 0 /\ \A j \in 1 .. m : f[j] = f[j - 1] + seq[j]
           S == {m \in 0 .. n : Summed(m)}
<1>1. Summed(0)
  <2> DEFINE f == [j \in 0 .. 0 |-> 0]
  <2>1. f \in [0 .. 0 -> Nat] /\ f[0] = 0
    OBVIOUS
  <2>2. \A j \in 1 .. 0 : f[j] = f[j - 1] + seq[j]
    OBVIOUS
  <2> HIDE DEF f
  <2> QED BY <2>1, <2>2
<1>2. ASSUME NEW m \in 0 .. n, m < n, Summed(m) PROVE Summed(m + 1)
  <2>1. PICK f \in [0 .. m -> Nat] : f[0] = 0 /\ \A j \in 1 .. m : f[j] = f[j - 1] + seq[j]
    BY <1>2
  <2> DEFINE last == f[m] + seq[m + 1]
             g == [j \in 0 .. m + 1 |-> IF j = m + 1 THEN last ELSE f[j]]
  <2>2. last \in Nat
    BY <1>2
  <2>3. last = f[m] + seq[m + 1]
    OBVIOUS
  <2> HIDE DEF last
  <2>4. g \in [0 .. m + 1 -> Nat] /\ g[0] = 0 /\ g[m + 1] = last
        /\ \A j \in 0 .. m : g[j] = f[j]
    BY <2>1, <2>2
  <2> HIDE DEF g
  <2>5. ASSUME NEW j \in 1 .. m + 1 PROVE g[j] = g[j - 1] + seq[j]
    <3>1. CASE j = m + 1
      BY <2>3, <2>4, <3>1
    <3>2. CASE j # m + 1
      <4>1. j \in 1 .. m /\ j - 1 \in 0 .. m
        BY <3>2
      <4> QED BY <2>1, <2>4, <4>1
    <3> QED BY <3>1, <3>2
  <2> QED BY <2>4, <2>5
<1> HIDE DEF Summed
<1>3. 0 \in S /\ \A m \in 0 .. n : m < n /\ m \in S => m + 1 \in S
  BY <1>1, <1>2
<1>4. \A m \in S : Summed(m)
  OBVIOUS
<1> HIDE DEF S
<1>5. \A m \in 0 .. n : m \in S
  BY <1>3, InductionUpTo
<1>6. n \in 0 .. n
  OBVIOUS
<1> QED BY <1>4, <1>5, <1>6 DEF Summed

\* Cumulative is one: its recursive definition has a solution.
LEMMA CumulativeDef ==
  ASSUME NEW seq \in Seq(Nat)
  PROVE  /\ Cumulative(seq, 0) = 0
         /\ \A j \in 1 .. Len(seq) : Cumulative(seq, j) = Cumulative(seq, j - 1) + seq[j]
<1> DEFINE Body(f) == [j \in 0 .. Len(seq) |-> IF j = 0 THEN 0 ELSE f[j - 1] + seq[j]]
           sum == CHOOSE f : f = Body(f)
<1>1. Len(seq) \in Nat /\ \A i \in 1 .. Len(seq) : seq[i] \in Nat
  OBVIOUS
<1>2. PICK f \in [0 .. Len(seq) -> Nat] :
        f[0] = 0 /\ \A j \in 1 .. Len(seq) : f[j] = f[j - 1] + seq[j]
  BY <1>1, SumExists
<1>3. f = Body(f)
  BY <1>2
<1>4. sum = Body(sum)
  BY <1>3
<1>5. \A k : Cumulative(seq, k) = sum[k]
  BY DEF Cumulative
<1> HIDE DEF sum
<1>6. \A j \in 0 .. Len(seq) : sum[j] = IF j = 0 THEN 0 ELSE sum[j - 1] + seq[j]
  <2>1. \A j \in 0 .. Len(seq) : Body(sum)[j] = IF j = 0 THEN 0 ELSE sum[j - 1] + seq[j]
    OBVIOUS
  <2> HIDE DEF Body
  <2>2. \A j : sum[j] = Body(sum)[j]
    BY <1>4
  <2> QED BY <2>1, <2>2
<1> HIDE DEF Body
<1>7. Cumulative(seq, 0) = 0
  BY <1>1, <1>5, <1>6
<1>8. ASSUME NEW j \in 1 .. Len(seq) PROVE Cumulative(seq, j) = Cumulative(seq, j - 1) + seq[j]
  <2>1. j \in 0 .. Len(seq) /\ j # 0
    BY <1>1
  <2>2. sum[j] = sum[j - 1] + seq[j]
    BY <1>6, <2>1
  <2> QED BY <1>5, <2>2
<1> QED BY <1>7, <1>8

\* Partial sums of natural numbers are natural numbers,
LEMMA CumulativeNat ==
  ASSUME NEW seq \in Seq(Nat)
  PROVE  \A j \in 0 .. Len(seq) : Cumulative(seq, j) \in Nat
<1> DEFINE S == {j \in 0 .. Len(seq) : Cumulative(seq, j) \in Nat}
<1>1. 0 \in S
  BY CumulativeDef
<1>2. ASSUME NEW m \in 0 .. Len(seq), m < Len(seq), m \in S PROVE m + 1 \in S
  <2>1. m + 1 \in 1 .. Len(seq) /\ (m + 1) - 1 = m /\ Cumulative(seq, m) \in Nat
    BY <1>2
  <2>2. Cumulative(seq, m + 1) = Cumulative(seq, m) + seq[m + 1] /\ seq[m + 1] \in Nat
    BY <2>1, CumulativeDef
  <2> QED BY <2>1, <2>2
<1>3. Len(seq) \in Nat /\ \A m \in 0 .. Len(seq) : m < Len(seq) /\ m \in S => m + 1 \in S
  BY <1>2
<1> HIDE DEF S
<1>4. \A j \in 0 .. Len(seq) : j \in S
  BY <1>1, <1>3, InductionUpTo
<1> QED BY <1>4 DEF S

\* and they grow.
LEMMA CumulativeGrows ==
  ASSUME NEW seq \in Seq(Nat), NEW i \in 0 .. Len(seq), NEW j \in 0 .. Len(seq), i < j
  PROVE  /\ Cumulative(seq, i) <= Cumulative(seq, j)
         /\ (\A k \in 1 .. Len(seq) : seq[k] > 0) => Cumulative(seq, i) < Cumulative(seq, j)
<1> DEFINE Grown(m) ==
             /\ Cumulative(seq, i) <= Cumulative(seq, i + m)
             /\ m > 0 /\ (\A k \in 1 .. Len(seq) : seq[k] > 0) =>
                  Cumulative(seq, i) < Cumulative(seq, i + m)
           n == Len(seq) - i
           S == {m \in 0 .. n : Grown(m)}
<1>1. n \in Nat /\ Len(seq) \in Nat
  OBVIOUS
<1>2. \A m \in 0 .. n : i + m \in 0 .. Len(seq)
  BY <1>1
<1>3. \A m \in 0 .. n : Cumulative(seq, i + m) \in Nat
  BY <1>2, CumulativeNat
<1>4. Grown(0)
  <2>1. i + 0 = i /\ Cumulative(seq, i) \in Nat
    BY CumulativeNat
  <2> QED BY <2>1
<1>5. ASSUME NEW m \in 0 .. n, m < n, Grown(m) PROVE Grown(m + 1)
  <2>1. i + m + 1 \in 1 .. Len(seq) /\ (i + m + 1) - 1 = i + m
    BY <1>5
  <2>2. Cumulative(seq, i + m + 1) = Cumulative(seq, i + m) + seq[i + m + 1]
    BY <2>1, CumulativeDef
  <2>3. seq[i + m + 1] \in Nat
    BY <2>1
  <2>4. Cumulative(seq, i) \in Nat /\ Cumulative(seq, i + m) \in Nat
    BY <1>3, CumulativeNat
  <2>5. i + (m + 1) = i + m + 1 /\ i + m \in Nat /\ (m = 0 => i + m = i)
    OBVIOUS
  <2> DEFINE before == Cumulative(seq, i)
             sum == Cumulative(seq, i + m)
             more == seq[i + m + 1]
  <2>6. before <= sum
    BY <1>5
  <2>7. (\A k \in 1 .. Len(seq) : seq[k] > 0) => more > 0
    BY <2>1
  <2>8. before \in Nat /\ sum \in Nat /\ more \in Nat /\ Cumulative(seq, i + m + 1) = sum + more
    BY <2>2, <2>3, <2>4
  <2> HIDE DEF before, sum, more
  <2>9. before <= sum + more /\ (more > 0 => before < sum + more)
    BY <2>6, <2>8
  <2> QED BY <2>5, <2>7, <2>8, <2>9 DEF before
<1> HIDE DEF Grown
<1>6. 0 \in S /\ \A m \in 0 .. n : m < n /\ m \in S => m + 1 \in S
  BY <1>1, <1>4, <1>5
<1>7. \A m \in S : Grown(m)
  OBVIOUS
<1>8. j - i \in 0 .. n /\ j - i > 0 /\ i + (j - i) = j
  OBVIOUS
<1> HIDE DEF S
<1>9. j - i \in S
  BY <1>1, <1>6, <1>8, InductionUpTo
<1>10. Grown(j - i)
  BY <1>7, <1>9
<1> QED BY <1>8, <1>10 DEF Grown

-----------------------------------------------------------------------------
(* Where a slice ends.                                                     *)

\* The memory of the first layers, in the unit of Want.
Held(layers) == Cumulative(layer_memory_reqs, layers) * Cumulative(capacity, Nodes)

\* Both sides of the loop's comparison are natural numbers.
LEMMA SharesAreNats ==
  ASSUME PInv
  PROVE  /\ \A k \in 0 .. total_layers : Held(k) \in Nat
         /\ \A j \in 0 .. Nodes : Want(j) \in Nat
<1>1. layer_memory_reqs \in Seq(Nat) /\ capacity \in Seq(Nat)
  BY InputTypes
<1>2. Nodes \in 0 .. Nodes /\ total_layers \in 0 .. total_layers
  BY <1>1 DEF Nodes, total_layers
<1>3. /\ \A k \in 0 .. total_layers : Cumulative(layer_memory_reqs, k) \in Nat
      /\ \A j \in 0 .. Nodes : Cumulative(capacity, j) \in Nat
  BY <1>1, CumulativeNat DEF Nodes, total_layers
<1> QED BY <1>2, <1>3, ProductGrows DEF Held, Want

\* A share is off by the slack at most, which is largest for the share of all nodes.
LEMMA ShareIsNear ==
  ASSUME PInv, NEW node \in 1 .. Nodes, NEW share \in RoundedShares(node)
  PROVE  /\ share \in Int /\ Slack(node) \in Nat /\ Slack(Nodes) \in Nat
         /\ Want(node) - Slack(node) <= share
         /\ share <= Want(node) + Slack(node) + 1
         /\ Slack(node) <= Slack(Nodes)
<1>1. Nodes \in Nat /\ node \in 0 .. Nodes /\ Nodes \in 0 .. Nodes
  BY DEF PInv, Nodes
<1>2. Want(node) \in Nat /\ Want(Nodes) \in Nat
  BY <1>1, SharesAreNats
<1>3. Want(node) <= Want(Nodes)
  <2>1. /\ capacity \in Seq(Nat) /\ layer_memory_reqs \in Seq(Nat) /\ Nodes = Len(capacity)
        /\ total_layers \in 0 .. Len(layer_memory_reqs)
    BY InputTypes DEF Nodes, total_layers
  <2> DEFINE a == Cumulative(capacity, node)
             b == Cumulative(capacity, Nodes)
             c == Cumulative(layer_memory_reqs, total_layers)
  <2>2. a \in Nat /\ b \in Nat /\ c \in Nat
    BY <1>1, <2>1, CumulativeNat
  <2>3. a <= b
    <3>1. CASE node = Nodes  BY <2>2, <3>1
    <3>2. CASE node < Nodes  BY <1>1, <2>1, <3>2, CumulativeGrows
    <3> QED BY <1>1, <3>1, <3>2
  <2>4. Want(node) = c * a /\ Want(Nodes) = c * b
    BY DEF Want
  <2> HIDE DEF a, b, c
  <2>5. a * c <= b * c /\ a * c = c * a /\ b * c = c * b
    BY <2>2, <2>3, ProductGrows
  <2> QED BY <2>4, <2>5
<1>4. Slack(node) \in Nat /\ Slack(Nodes) \in Nat /\ Slack(node) <= Slack(Nodes)
  BY <1>2, <1>3, QuotientGrows, PrecisionAssumption DEF Slack
<1>5. share \in Want(node) - Slack(node) .. Want(node) + (IF Want(node) = 0 \/ Nodes = 1 THEN 0 ELSE Slack(node) + 1)
  BY DEF RoundedShares
<1> QED BY <1>2, <1>4, <1>5

\* The loop stops at a layer that is not below the share, and every layer it has
\* passed is.
LEMMA LoopStopsAtShare ==
  ASSUME PInv, NEW node \in 1 .. Nodes, NEW share \in RoundedShares(node),
         current_layer <= total_layers, Stops(share) # {}
  PROVE  /\ LoopEnd(share) \in current_layer .. total_layers - 1
         /\ Held(LoopEnd(share) + 1) >= share
         /\ \A layer \in current_layer .. LoopEnd(share) - 1 :
              Held(layer + 1) < share
<1> DEFINE stop == Min(Stops(share))
<1>1. current_layer \in Nat /\ total_layers \in Nat /\ Nodes \in Nat
  BY DEF PInv, total_layers, Nodes
<1>2. Stops(share) \in SUBSET Nat
  BY <1>1 DEF Stops
<1>3. stop \in Stops(share) /\ \A layer \in Stops(share) : stop <= layer
  BY <1>2, MinOfNats
<1>4. LoopEnd(share) = stop
  BY <1>1 DEF LoopEnd
<1> HIDE DEF stop
<1>5. stop \in current_layer .. total_layers - 1 /\ ~Below(stop, share)
  BY <1>3 DEF Stops
<1>6. share \in Int /\ \A layer \in 0 .. total_layers - 1 : Held(layer + 1) \in Nat
  BY <1>1, SharesAreNats, ShareIsNear
<1>7. Held(stop + 1) >= share
  BY <1>1, <1>5, <1>6 DEF Below, Have, Held
<1>8. ASSUME NEW layer \in current_layer .. stop - 1 PROVE Held(layer + 1) < share
  <2>1. layer \in current_layer .. total_layers - 1 /\ ~(stop <= layer)
    BY <1>1, <1>5
  <2>2. Below(layer, share)
    BY <1>3, <2>1 DEF Stops
  <2>3. Held(layer + 1) \in Nat
    BY <1>1, <1>6, <2>1
  <2> QED BY <1>6, <2>2, <2>3 DEF Below, Have, Held
<1> QED BY <1>4, <1>5, <1>7, <1>8

\* The slice ends there, unless that would leave the node without a layer or the
\* last layer without a node.
LEMMA SliceEndIs ==
  ASSUME PInv, NEW share, LoopEnd(share) \in Nat
  PROVE  SliceEnd(share) =
           LET end == IF LoopEnd(share) = total_layers - 1
                      THEN total_layers ELSE LoopEnd(share)
           IN  IF end >= current_layer + 1 THEN end ELSE current_layer + 1
<1>1. current_layer + 1 \in Nat /\ total_layers \in Nat
  BY DEF PInv, total_layers
<1> QED BY <1>1, MaxOfTwo DEF SliceEnd

\* A slice of several layers that is not the rest of the model stays within the
\* share.
LEMMA SliceStaysWithinShare ==
  ASSUME PInv, NEW node \in 1 .. Nodes, NEW share \in RoundedShares(node),
         current_layer > total_layers \/ Stops(share) # {},
         SliceEnd(share) > current_layer + 1,
         SliceEnd(share) < total_layers
  PROVE  Held(SliceEnd(share)) <= Want(node) + Slack(node)
<1>1. current_layer \in Nat /\ total_layers \in Nat
  BY DEF PInv, total_layers
<1>2. CASE current_layer > total_layers
  <2>1. LoopEnd(share) = current_layer
    BY <1>2 DEF LoopEnd
  <2> QED BY <1>1, <1>2, <2>1, SliceEndIs
<1>3. CASE ~(current_layer > total_layers)
  <2> DEFINE stop == LoopEnd(share)
  <2>1. /\ stop \in current_layer .. total_layers - 1
        /\ \A layer \in current_layer .. stop - 1 : Held(layer + 1) < share
    BY <1>1, <1>3, LoopStopsAtShare
  <2>2. SliceEnd(share) = stop /\ stop > current_layer + 1
    BY <1>1, <2>1, SliceEndIs
  <2> HIDE DEF stop
  <2>3. stop - 1 \in current_layer .. stop - 1 /\ (stop - 1) + 1 = stop
    BY <1>1, <2>1, <2>2
  <2>4. Held(stop) < share
    BY <2>1, <2>3
  <2>5. Held(stop) \in Nat /\ Want(node) \in Nat
    <3>1. stop \in 0 .. total_layers /\ node \in 0 .. Nodes
      BY <1>1, <2>1 DEF PInv, Nodes
    <3> QED BY <3>1, SharesAreNats
  <2> QED BY <2>2, <2>4, <2>5, ShareIsNear
<1> QED BY <1>2, <1>3

\* It stays so: only the new slice can exceed its share.
LEMMA WithinShareNext ==
  ASSUME PInv, WithinShare, [Next]_vars
  PROVE  WithinShare'
<1>1. CASE UNCHANGED <<allocations, layer_memory_reqs, capacity>>
  BY <1>1 DEF WithinShare, Want, Slack, Nodes, total_layers
<1>2. ASSUME NEW node \in 1 .. Nodes, NEW share \in RoundedShares(node), AssignLayers(node, share)
      PROVE  WithinShare'
  <2> DEFINE new == [start |-> current_layer, end |-> SliceEnd(share)]
  <2>1. /\ allocations \in Seq([start : Nat, end : Nat])
        /\ SliceEnd(share) \in Nat /\ current_layer \in Nat
        /\ node = Len(allocations) + 1
    BY <1>2, SliceHasLayers DEF AssignLayers, PInv
  <2>2. allocations' = Append(allocations, new) /\ UNCHANGED <<layer_memory_reqs, capacity>>
    BY <1>2 DEF AssignLayers, SliceStart
  <2>3. /\ Len(allocations') = node /\ allocations'[node] = new
        /\ \A j \in 1 .. Len(allocations) : allocations'[j] = allocations[j]
    BY <2>1, <2>2
  <2>4. /\ Nodes' = Nodes /\ total_layers' = total_layers
        /\ \A j : Want(j)' = Want(j) /\ Slack(j)' = Slack(j)
    BY <2>2 DEF Nodes, total_layers, Want, Slack
  <2>5. new.start = current_layer /\ new.end = SliceEnd(share)
    OBVIOUS
  <2>7. new.end > new.start + 1 /\ new.end < total_layers =>
          Cumulative(layer_memory_reqs, new.end) * Cumulative(capacity, Nodes)
            <= Want(node) + Slack(node)
    BY <1>2, <2>5, SliceStaysWithinShare DEF AssignLayers, Held
  <2> HIDE DEF new
  <2>8. \A j \in 1 .. Len(allocations) + 1 : j \in 1 .. Len(allocations) \/ j = node
    BY <2>1
  <2> QED BY <2>2, <2>3, <2>4, <2>7, <2>8 DEF WithinShare
<1> QED BY <1>1, <1>2 DEF Next, IndexOverrun, AssertAllAssigned, vars

\* The nodes up to j together hold no more than their share, up to what rounding
\* adds to it (core.py 148-168), forced single layers and the forced rest aside, for
\* any model, any cluster and any precision.
THEOREM SlicesWithinShare == Spec => []WithinShare
<1>1. Init => WithinShare
  BY DEF Init, WithinShare
<1> QED BY <1>1, WithinShareNext, PartitionInvariance, PTL DEF Spec
-----------------------------------------------------------------------------
(* Balanced models.                                                        *)

\* In a balanced model the loop leaves a layer for the nodes to come: what the
\* nodes so far hold is within their share, rounding included.
BalancedInv ==
  /\ total_layers > 0 /\ Nodes > 0
  /\ Balanced =>
       /\ outcome # "refused"
       /\ outcome = "index_error" => Len(allocations) = Nodes - 1
       /\ Len(allocations) < Nodes =>
            current_layer < total_layers /\ Held(current_layer) <= Want(Len(allocations)) + Slack(Nodes)
       /\ Len(allocations) = Nodes => current_layer = total_layers

\* Memory and shares grow from nothing to the same total; a layer weighs less than
\* any node's share, and the last one more than nothing, by more than rounding.
LEMMA BalancedShares ==
  ASSUME PInv, total_layers > 0, Nodes > 0, Balanced
  PROVE  /\ Held(0) = 0 /\ Want(0) = 0 /\ Held(total_layers) = Want(Nodes)
         /\ \A k, l \in 0 .. total_layers : k < l => Held(k) <= Held(l)
         /\ \A i, j \in 0 .. Nodes : i < j => Want(i) <= Want(j)
         /\ \A k \in 1 .. total_layers, j \in 1 .. Nodes :
              Held(k) - Held(k - 1) + 2 * Slack(Nodes) < Want(j) - Want(j - 1)
         /\ Held(total_layers) - Held(total_layers - 1) > Slack(Nodes)
         /\ Slack(Nodes) \in Nat
<1> DEFINE A(k) == Cumulative(layer_memory_reqs, k)
           B(j) == Cumulative(capacity, j)
           R == A(total_layers)
           C == B(Nodes)
           E == Slack(Nodes)
<1>1. /\ layer_memory_reqs \in Seq(Nat) /\ capacity \in Seq(Nat)
      /\ total_layers \in Nat /\ Nodes \in Nat
      /\ total_layers = Len(layer_memory_reqs) /\ Nodes = Len(capacity)
  <2>1. layer_memory_reqs \in Seq(Nat) /\ capacity \in Seq(Nat)
    BY InputTypes
  <2> QED BY <2>1 DEF total_layers, Nodes
<1>2. /\ A(0) = 0 /\ B(0) = 0
      /\ \A k \in 0 .. total_layers : A(k) \in Nat
      /\ \A j \in 0 .. Nodes : B(j) \in Nat
  BY <1>1, CumulativeDef, CumulativeNat
<1>3. /\ \A k, l \in 0 .. total_layers : k < l => A(k) <= A(l)
      /\ \A i, j \in 0 .. Nodes : i < j => B(i) <= B(j)
  BY <1>1, CumulativeGrows
<1>4. /\ \A k \in 1 .. total_layers : A(k) = A(k - 1) + layer_memory_reqs[k]
      /\ \A j \in 1 .. Nodes : B(j) = B(j - 1) + capacity[j]
  BY <1>1, CumulativeDef
<1>5. /\ \A k : Held(k) = A(k) * C
      /\ \A j : Want(j) = R * B(j)
  BY DEF Held, Want
<1>6. /\ \A k \in 1 .. total_layers : layer_memory_reqs[k] \in Nat
      /\ \A j \in 1 .. Nodes : capacity[j] \in Nat
  BY <1>1
<1>7. /\ \A k \in 1 .. total_layers, j \in 1 .. Nodes :
           layer_memory_reqs[k] * C + 2 * E < capacity[j] * R
      /\ layer_memory_reqs[total_layers] * C > E
  BY DEF Balanced
<1>8. E \in Nat
  <2>1. Nodes \in 0 .. Nodes
    BY <1>1
  <2>2. Want(Nodes) \in Nat
    BY <2>1, SharesAreNats
  <2> QED BY <2>2, QuotientGrows, PrecisionAssumption DEF Slack
<1> HIDE DEF A, B, E
<1>9. R \in Nat /\ C \in Nat
  BY <1>1, <1>2
<1> HIDE DEF R, C
<1>10. R * C = C * R /\ \A j \in 0 .. Nodes : R * B(j) = B(j) * R
  BY <1>2, <1>9
<1>11. \A k, l \in 0 .. total_layers : k < l => Held(k) <= Held(l)
  BY <1>2, <1>3, <1>5, <1>9, ProductGrows
<1>12. \A i, j \in 0 .. Nodes : i < j => Want(i) <= Want(j)
  BY <1>2, <1>3, <1>5, <1>9, <1>10, ProductGrows
<1>13. ASSUME NEW k \in 1 .. total_layers
       PROVE  /\ Held(k) = Held(k - 1) + layer_memory_reqs[k] * C
              /\ Held(k - 1) \in Nat /\ layer_memory_reqs[k] * C \in Nat
  <2>1. k - 1 \in 0 .. total_layers
    BY <1>1
  <2> QED BY <1>2, <1>4, <1>5, <1>6, <1>9, <2>1, ProductGrows
<1>14. ASSUME NEW k \in 1 .. total_layers, NEW j \in 1 .. Nodes
       PROVE  Held(k) - Held(k - 1) + 2 * E < Want(j) - Want(j - 1)
  <2>1. j - 1 \in 0 .. Nodes /\ j \in 0 .. Nodes
    BY <1>1
  <2>2. Want(j) = Want(j - 1) + capacity[j] * R
    BY <1>2, <1>4, <1>5, <1>6, <1>9, <1>10, <2>1, ProductGrows
  <2>3. Want(j - 1) \in Nat /\ capacity[j] * R \in Nat
    BY <1>6, <1>9, <2>1, SharesAreNats, ProductGrows
  <2> QED BY <1>7, <1>8, <1>13, <2>2, <2>3
<1>15. Held(total_layers) - Held(total_layers - 1) > E
  <2>1. total_layers \in 1 .. total_layers
    BY <1>1
  <2> QED BY <1>7, <1>8, <1>13, <2>1
<1>16. Held(0) = 0 /\ Want(0) = 0 /\ Held(total_layers) = Want(Nodes)
  BY <1>2, <1>5, <1>9 DEF R, C
<1> QED BY <1>8, <1>11, <1>12, <1>14, <1>15, <1>16 DEF E

\* A node that is not the last stops before the last layer, within its share.
LEMMA BalancedMiddle ==
  ASSUME PInv, total_layers > 0, Nodes > 0, Balanced,
         NEW node \in 1 .. Nodes, node < Nodes, NEW share \in RoundedShares(node),
         current_layer < total_layers, Held(current_layer) <= Want(node - 1) + Slack(Nodes)
  PROVE  /\ Stops(share) # {}
         /\ SliceEnd(share) < total_layers
         /\ Held(SliceEnd(share)) <= Want(node) + Slack(Nodes)
<1> DEFINE stop == LoopEnd(share)
           E == Slack(Nodes)
<1>1. /\ current_layer \in Nat /\ total_layers \in Nat /\ Nodes \in Nat
      /\ \A k \in 0 .. total_layers : Held(k) \in Nat
      /\ \A j \in 0 .. Nodes : Want(j) \in Nat
  BY SharesAreNats DEF PInv, total_layers, Nodes
<1>2. share \in Int /\ E \in Nat /\ Want(node) - E <= share /\ share <= Want(node) + E + 1
  <2>1. node \in 0 .. Nodes
    BY <1>1
  <2> QED BY <1>1, <2>1, ShareIsNear
<1> HIDE DEF E
<1>3. /\ Want(node) \in Nat /\ Want(Nodes) \in Nat /\ Held(total_layers) = Want(Nodes)
      /\ Held(total_layers - 1) \in Nat
      /\ Want(node) + 2 * E < Held(total_layers - 1)
  <2>1. /\ total_layers \in 1 .. total_layers /\ Nodes \in 1 .. Nodes /\ total_layers \in 0 .. total_layers
        /\ total_layers - 1 \in 0 .. total_layers
        /\ node \in 0 .. Nodes /\ Nodes - 1 \in 0 .. Nodes /\ Nodes \in 0 .. Nodes
    BY <1>1
  <2>2. Held(total_layers) - Held(total_layers - 1) + 2 * E < Want(Nodes) - Want(Nodes - 1)
    BY <2>1, BalancedShares DEF E
  <2>3. Want(node) <= Want(Nodes - 1)
    <3>1. node = Nodes - 1 \/ node < Nodes - 1
      BY <1>1
    <3> QED BY <1>1, <2>1, <3>1, BalancedShares
  <2>4. Held(total_layers) = Want(Nodes)
    BY BalancedShares
  <2>5. /\ Want(node) \in Nat /\ Want(Nodes) \in Nat /\ Want(Nodes - 1) \in Nat
        /\ Held(total_layers - 1) \in Nat
    BY <1>1, <2>1
  <2> QED BY <1>2, <2>2, <2>3, <2>4, <2>5
<1>4. Held(total_layers - 1) <= Held(total_layers)
  <2>1. total_layers - 1 \in 0 .. total_layers /\ total_layers \in 0 .. total_layers
    BY <1>1
  <2> QED BY <1>1, <2>1, BalancedShares
<1>5. Stops(share) # {}
  <2>1. total_layers - 1 \in current_layer .. total_layers - 1
    BY <1>1
  <2>2. Have(total_layers - 1) = Held(total_layers)
    BY <1>1 DEF Have, Held
  <2>3. ~Below(total_layers - 1, share)
    BY <1>2, <1>3, <1>4, <2>2 DEF Below
  <2> QED BY <2>1, <2>3 DEF Stops
<1>6. /\ stop \in current_layer .. total_layers - 1
      /\ Held(stop + 1) >= share
      /\ \A layer \in current_layer .. stop - 1 : Held(layer + 1) < share
  BY <1>1, <1>5, LoopStopsAtShare
<1> HIDE DEF stop
<1>7. stop # current_layer
  <2>1. /\ current_layer + 1 \in 1 .. total_layers /\ (current_layer + 1) - 1 = current_layer
        /\ current_layer \in 0 .. total_layers /\ current_layer + 1 \in 0 .. total_layers
        /\ node - 1 \in 0 .. Nodes
    BY <1>1
  <2>2. Held(current_layer + 1) - Held(current_layer) + 2 * E < Want(node) - Want(node - 1)
    BY <2>1, BalancedShares DEF E
  <2>3. /\ Held(current_layer + 1) \in Nat /\ Held(current_layer) \in Nat /\ Want(node - 1) \in Nat
    BY <1>1, <2>1
  <2>4. Held(current_layer + 1) < share
    BY <1>2, <1>3, <2>2, <2>3 DEF E
  <2> QED BY <1>2, <1>6, <2>3, <2>4
<1>8. Held(stop) <= Want(node) + E
  <2>1. stop - 1 \in current_layer .. stop - 1 /\ (stop - 1) + 1 = stop /\ stop \in 0 .. total_layers
    BY <1>1, <1>6, <1>7
  <2>2. Held(stop) < share /\ Held(stop) \in Nat
    BY <1>1, <1>6, <2>1
  <2> QED BY <1>2, <1>3, <2>2
<1>9. stop # total_layers - 1
  BY <1>2, <1>3, <1>8
<1>10. SliceEnd(share) = stop
  BY <1>1, <1>6, <1>7, <1>9, SliceEndIs DEF stop
<1> QED BY <1>1, <1>5, <1>6, <1>8, <1>9, <1>10 DEF E

\* The last node takes the rest, if the loop stops at all.
LEMMA BalancedLast ==
  ASSUME PInv, total_layers > 0, Nodes > 0, Balanced, NEW share \in RoundedShares(Nodes),
         current_layer < total_layers, Stops(share) # {}
  PROVE  SliceEnd(share) = total_layers
<1> DEFINE stop == LoopEnd(share)
<1>1. /\ current_layer \in Nat /\ total_layers \in Nat /\ Nodes \in 1 .. Nodes
      /\ \A k \in 0 .. total_layers : Held(k) \in Nat
  BY SharesAreNats DEF PInv, total_layers, Nodes
<1>2. /\ stop \in current_layer .. total_layers - 1
      /\ Held(stop + 1) >= share
  BY <1>1, LoopStopsAtShare
<1> HIDE DEF stop
<1>3. ~(stop + 1 < total_layers)
  <2>1. SUFFICES ASSUME stop + 1 < total_layers PROVE FALSE
    OBVIOUS
  <2>2. /\ stop + 1 \in 0 .. total_layers /\ total_layers - 1 \in 0 .. total_layers
        /\ total_layers \in 0 .. total_layers
        /\ stop + 1 = total_layers - 1 \/ stop + 1 < total_layers - 1
    BY <1>1, <1>2, <2>1
  <2>3. /\ Held(stop + 1) \in Nat /\ Held(total_layers - 1) \in Nat
        /\ Held(total_layers) \in Nat
    BY <1>1, <2>2
  <2>4. Held(stop + 1) <= Held(total_layers - 1)
    BY <2>2, <2>3, BalancedShares
  <2>5. /\ Held(total_layers) - Held(total_layers - 1) > Slack(Nodes)
        /\ Held(total_layers) = Want(Nodes)
    BY BalancedShares
  <2>6. share \in Int /\ Slack(Nodes) \in Nat /\ Want(Nodes) - Slack(Nodes) <= share
    BY <1>1, ShareIsNear
  <2> QED BY <1>2, <2>3, <2>4, <2>5, <2>6
<1>4. stop = total_layers - 1
  BY <1>1, <1>2, <1>3
<1> QED BY <1>1, <1>4, SliceEndIs DEF stop

\* The next node's slice keeps it so.
LEMMA BalancedAssign ==
  ASSUME PInv, BalancedInv, NEW node \in 1 .. Nodes, NEW share \in RoundedShares(node), AssignLayers(node, share)
  PROVE  BalancedInv'
<1>1. /\ allocations \in Seq([start : Nat, end : Nat]) /\ Len(allocations) \in Nat
      /\ current_layer \in Nat /\ total_layers \in Nat /\ Nodes \in Nat
  BY DEF PInv, total_layers, Nodes
<1>2. /\ UNCHANGED <<layer_memory_reqs, capacity, outcome>> /\ outcome = "running"
      /\ current_layer' = SliceEnd(share)
      /\ node = Len(allocations) + 1
      /\ current_layer > total_layers \/ Stops(share) # {}
  BY <1>1 DEF AssignLayers
<1>3. Len(allocations') = node
  BY <1>1, <1>2 DEF AssignLayers
<1>4. /\ total_layers' = total_layers /\ Nodes' = Nodes /\ (Balanced' <=> Balanced)
      /\ Held(current_layer)' = Held(current_layer') /\ \A j : Want(j)' = Want(j)
      /\ Slack(Nodes)' = Slack(Nodes)
  BY <1>2 DEF total_layers, Nodes, Balanced, Held, Want, Slack
<1>5. ASSUME Balanced
      PROVE  /\ node < Nodes => /\ SliceEnd(share) < total_layers
                                /\ Held(SliceEnd(share)) <= Want(node) + Slack(Nodes)
             /\ node = Nodes => SliceEnd(share) = total_layers
  <2>1. node - 1 = Len(allocations) /\ Len(allocations) < Nodes
    BY <1>1, <1>2
  <2>2. current_layer < total_layers /\ Held(current_layer) <= Want(node - 1) + Slack(Nodes)
    BY <1>5, <2>1 DEF BalancedInv
  <2>3. Stops(share) # {} /\ total_layers > 0 /\ Nodes > 0
    BY <1>1, <1>2, <2>2 DEF BalancedInv
  <2> QED BY <1>1, <1>2, <1>5, <2>2, <2>3, BalancedMiddle, BalancedLast
<1> QED BY <1>2, <1>3, <1>4, <1>5 DEF BalancedInv

\* So do the other steps.
LEMMA BalancedNext ==
  ASSUME PInv, BalancedInv, [Next]_vars
  PROVE  BalancedInv'
<1>1. ASSUME NEW node \in 1 .. Nodes, NEW share \in RoundedShares(node), AssignLayers(node, share)
      PROVE  BalancedInv'
  BY <1>1, BalancedAssign
<1>2. ASSUME UNCHANGED <<layer_memory_reqs, capacity, current_layer, allocations>>,
             Balanced => \/ outcome' = "done"
                         \/ outcome' = outcome
                         \/ outcome' = "index_error" /\ Len(allocations) = Nodes - 1
      PROVE  BalancedInv'
  <2>1. /\ total_layers' = total_layers /\ Nodes' = Nodes /\ (Balanced' <=> Balanced)
        /\ Held(current_layer)' = Held(current_layer)
        /\ Want(Len(allocations))' = Want(Len(allocations)) /\ Slack(Nodes)' = Slack(Nodes)
    BY <1>2 DEF total_layers, Nodes, Balanced, Held, Want, Slack
  <2> QED BY <1>2, <2>1 DEF BalancedInv
<1>3. ASSUME NEW node \in 1 .. Nodes, NEW share \in RoundedShares(node), IndexOverrun(node, share)
      PROVE  BalancedInv'
  <2>1. Len(allocations) \in Nat /\ Nodes \in Nat
    BY DEF PInv, Nodes
  <2>2. /\ UNCHANGED <<layer_memory_reqs, capacity, current_layer, allocations>>
        /\ outcome' = "index_error" /\ Stops(share) = {} /\ node = Len(allocations) + 1
    BY <1>3, <2>1 DEF IndexOverrun
  <2>3. ASSUME Balanced PROVE Len(allocations) = Nodes - 1
    <3>1. SUFFICES ASSUME node < Nodes PROVE FALSE
      BY <2>1, <2>2
    <3>2. node - 1 = Len(allocations) /\ Len(allocations) < Nodes
      BY <2>1, <2>2
    <3>3. /\ current_layer < total_layers /\ Held(current_layer) <= Want(node - 1) + Slack(Nodes)
          /\ total_layers > 0 /\ Nodes > 0
      BY <2>3, <3>2 DEF BalancedInv
    <3> QED BY <2>2, <2>3, <3>1, <3>3, BalancedMiddle
  <2> QED BY <1>2, <2>2, <2>3
<1>4. CASE AssertAllAssigned
  <2>1. UNCHANGED <<layer_memory_reqs, capacity, current_layer, allocations>>
    BY <1>4 DEF AssertAllAssigned
  <2>2. Balanced => outcome' = "done"
    BY <1>4 DEF AssertAllAssigned, BalancedInv
  <2> QED BY <1>2, <2>1, <2>2
<1>5. CASE UNCHANGED vars
  <2>1. UNCHANGED <<layer_memory_reqs, capacity, current_layer, allocations>> /\ outcome' = outcome
    BY <1>5 DEF vars
  <2> QED BY <1>2, <2>1
<1> QED BY <1>1, <1>3, <1>4, <1>5 DEF Next

\* Initially no node is served and no layer given away.
LEMMA BalancedInit ==
  ASSUME Init
  PROVE  BalancedInv
<1>1. PInv
  BY PInvInit
<1>2. /\ total_layers > 0 /\ Nodes > 0 /\ total_layers \in Nat /\ Nodes \in Nat
      /\ current_layer = 0 /\ allocations = <<>> /\ outcome = "running"
  <2>1. PICK l \in 1 .. MaxLayers, n \in 1 .. MaxNodes :
          DOMAIN layer_memory_reqs = 1 .. l /\ DOMAIN capacity = 1 .. n
    BY DEF Init
  <2>2. l \in Nat /\ n \in Nat /\ l > 0 /\ n > 0
    BY MaxLayersAssumption, MaxNodesAssumption
  <2>3. Len(layer_memory_reqs) = l /\ Len(capacity) = n
    BY <1>1, <2>1, <2>2 DEF PInv
  <2> QED BY <2>2, <2>3 DEF Init, total_layers, Nodes
<1>3. Len(allocations) = 0
  BY <1>2
<1>4. Balanced => Held(0) <= Want(0) + Slack(Nodes)
  <2> SUFFICES ASSUME Balanced PROVE Held(0) <= Want(0) + Slack(Nodes)
    OBVIOUS
  <2>1. Held(0) = 0 /\ Want(0) = 0 /\ Slack(Nodes) \in Nat
    BY <1>1, <1>2, BalancedShares
  <2> QED BY <2>1
<1> QED BY <1>2, <1>3, <1>4 DEF BalancedInv

\* A model every layer of which fits into every node's share, errors of rounding
\* included, is cut into slices up to the last node (core.py 148-174), which takes
\* the rest of it unless the last share is rounded up to more than everything.
THEOREM BalancedModelsArePartitioned == Spec => []BalancedReachesTheEnd
<1>1. BalancedInv => BalancedReachesTheEnd
  BY DEF BalancedInv, BalancedReachesTheEnd
<1> QED BY <1>1, BalancedInit, BalancedNext, PartitionInvariance, PTL DEF Spec

-----------------------------------------------------------------------------
(* Why a partition fails.                                                  *)

\* When every node has a slice and layers are left, rounding hides what the last
\* one weighs.
FailureInv ==
  /\ total_layers > 0 /\ Nodes > 0
  /\ Len(allocations) = Nodes /\ current_layer < total_layers =>
       layer_memory_reqs[total_layers] * Cumulative(capacity, Nodes) <= Slack(Nodes)
  /\ FailureExplained

\* Memory and shares are products with the totals, of which that of the nodes is
\* positive.
LEMMA TotalFacts ==
  ASSUME PInv, total_layers > 0, Nodes > 0
  PROVE  /\ total_layers \in Nat /\ Nodes \in Nat /\ current_layer \in Nat
         /\ layer_memory_reqs \in Seq(Nat) /\ capacity \in Seq(Nat)
         /\ \A k \in 0 .. total_layers : Cumulative(layer_memory_reqs, k) \in Nat
         /\ \A j \in 0 .. Nodes : Cumulative(capacity, j) \in Nat
         /\ \A i, j \in 0 .. Nodes : i < j => Cumulative(capacity, i) < Cumulative(capacity, j)
         /\ Cumulative(capacity, Nodes) > 0
<1>1. /\ layer_memory_reqs \in Seq(Nat) /\ capacity \in Seq(Nat)
      /\ total_layers \in Nat /\ Nodes \in Nat /\ current_layer \in Nat
      /\ total_layers = Len(layer_memory_reqs) /\ Nodes = Len(capacity)
  <2>1. layer_memory_reqs \in Seq(Nat) /\ capacity \in Seq(Nat)
    BY InputTypes
  <2> QED BY <2>1 DEF PInv, total_layers, Nodes
<1>2. \A j \in 1 .. Nodes : capacity[j] > 0
  BY InputTypes
<1>3. /\ \A k \in 0 .. total_layers : Cumulative(layer_memory_reqs, k) \in Nat
      /\ \A j \in 0 .. Nodes : Cumulative(capacity, j) \in Nat
  BY <1>1, CumulativeNat
<1>4. \A i, j \in 0 .. Nodes : i < j => Cumulative(capacity, i) < Cumulative(capacity, j)
  BY <1>1, <1>2, CumulativeGrows
<1>5. Cumulative(capacity, Nodes) > 0
  <2>1. 0 \in 0 .. Nodes /\ Nodes \in 0 .. Nodes /\ 0 < Nodes
    BY <1>1
  <2>2. Cumulative(capacity, 0) = 0
    BY <1>1, CumulativeDef
  <2> QED BY <1>3, <1>4, <2>1, <2>2
<1> QED BY <1>1, <1>3, <1>4, <1>5

\* The loop overruns only when no layer is left, or at a share that is everything
\* but for rounding.
LEMMA OverrunReason ==
  ASSUME PInv, total_layers > 0, Nodes > 0, NEW node \in 1 .. Nodes,
         NEW share \in RoundedShares(node), current_layer < total_layers, Stops(share) = {}
  PROVE  Want(Nodes) <= Want(node) + Slack(node)
<1>1. total_layers \in Nat /\ Nodes \in Nat /\ current_layer \in Nat
  BY TotalFacts
<1>2. total_layers - 1 \in current_layer .. total_layers - 1 /\ (total_layers - 1) + 1 = total_layers
  BY <1>1
<1>3. Have(total_layers - 1) < share
  BY <1>2 DEF Stops, Below
<1>4. Have(total_layers - 1) = Want(Nodes)
  BY <1>2 DEF Have, Want
<1>5. Want(Nodes) \in Nat /\ Want(node) \in Nat
  <2>1. Nodes \in 0 .. Nodes /\ node \in 0 .. Nodes
    BY <1>1
  <2> QED BY <2>1, SharesAreNats
<1> QED BY <1>3, <1>4, <1>5, ShareIsNear

\* Of the layers that the last node leaves, rounding hides what the last one weighs.
LEMMA RestReason ==
  ASSUME PInv, total_layers > 0, Nodes > 0, NEW share \in RoundedShares(Nodes),
         current_layer > total_layers \/ Stops(share) # {}, SliceEnd(share) < total_layers
  PROVE  layer_memory_reqs[total_layers] * Cumulative(capacity, Nodes) <= Slack(Nodes)
<1> DEFINE stop == LoopEnd(share)
           C == Cumulative(capacity, Nodes)
           last == layer_memory_reqs[total_layers]
<1>1. /\ total_layers \in Nat /\ Nodes \in 1 .. Nodes /\ Nodes \in 0 .. Nodes /\ current_layer \in Nat
      /\ layer_memory_reqs \in Seq(Nat) /\ total_layers = Len(layer_memory_reqs)
      /\ C \in Nat
  <2>1. Nodes \in Nat
    BY TotalFacts
  <2> QED BY <2>1, TotalFacts DEF total_layers
<1>2. SliceEnd(share) \in Nat /\ SliceEnd(share) > current_layer
  BY SliceHasLayers
<1>3. current_layer <= total_layers /\ Stops(share) # {}
  BY <1>1, <1>2
<1>4. stop \in current_layer .. total_layers - 1 /\ Held(stop + 1) >= share
  BY <1>1, <1>3, LoopStopsAtShare
<1>5. stop # total_layers - 1
  <2>1. SUFFICES ASSUME stop = total_layers - 1 PROVE FALSE
    OBVIOUS
  <2>2. SliceEnd(share) >= total_layers
    BY <1>1, <1>4, <2>1, SliceEndIs
  <2> QED BY <1>1, <1>2, <2>2
<1> HIDE DEF stop, C
<1>6. /\ stop + 1 \in 0 .. total_layers /\ total_layers - 1 \in 0 .. total_layers
      /\ total_layers \in 1 .. total_layers /\ total_layers \in 0 .. total_layers
      /\ stop + 1 = total_layers - 1 \/ stop + 1 < total_layers - 1
  BY <1>1, <1>4, <1>5
<1>7. Held(stop + 1) \in Nat /\ Held(total_layers - 1) \in Nat /\ Want(Nodes) \in Nat
  BY <1>1, <1>6, SharesAreNats
<1>8. Held(stop + 1) <= Held(total_layers - 1)
  <2>1. CASE stop + 1 = total_layers - 1
    BY <1>7, <2>1
  <2>2. CASE stop + 1 < total_layers - 1
    <3>1. Cumulative(layer_memory_reqs, stop + 1) <= Cumulative(layer_memory_reqs, total_layers - 1)
      BY <1>1, <1>6, <2>2, CumulativeGrows
    <3>2. /\ Cumulative(layer_memory_reqs, stop + 1) \in Nat
          /\ Cumulative(layer_memory_reqs, total_layers - 1) \in Nat
      BY <1>6, TotalFacts
    <3> QED BY <1>1, <3>1, <3>2, ProductGrows DEF Held, C
  <2> QED BY <1>6, <2>1, <2>2
<1>9. last \in Nat /\ last * C \in Nat /\ Want(Nodes) = Held(total_layers - 1) + last * C
  <2>1. Cumulative(layer_memory_reqs, total_layers) = Cumulative(layer_memory_reqs, total_layers - 1) + last
    <3>1. total_layers \in 1 .. Len(layer_memory_reqs)
      BY <1>1, <1>6
    <3> QED BY <1>1, <3>1, CumulativeDef
  <2>2. last \in Nat
    BY <1>1, <1>6
  <2>3. Cumulative(layer_memory_reqs, total_layers - 1) \in Nat
    BY <1>6, TotalFacts
  <2> HIDE DEF last
  <2> QED BY <1>1, <2>1, <2>2, <2>3, ProductGrows DEF Held, Want, C
<1> HIDE DEF last
<1>10. share \in Int /\ Slack(Nodes) \in Nat /\ Want(Nodes) - Slack(Nodes) <= share
  BY <1>1, ShareIsNear
<1>11. last * C <= Slack(Nodes)
  BY <1>4, <1>7, <1>8, <1>9, <1>10
<1> QED BY <1>11 DEF last, C

\* The model and the cluster, and what is computed from them alone, are the same.
SameModel ==
  /\ layer_memory_reqs' = layer_memory_reqs /\ total_layers' = total_layers /\ Nodes' = Nodes
  /\ Cumulative(capacity, Nodes)' = Cumulative(capacity, Nodes)
  /\ \A j \in Int : Want(j)' = Want(j) /\ Slack(j)' = Slack(j)

LEMMA ModelIsKept ==
  ASSUME UNCHANGED <<layer_memory_reqs, capacity>>
  PROVE  SameModel
BY DEF SameModel, total_layers, Nodes, Want, Slack, Cumulative

\* Both parts are inductive.
LEMMA FailureNext ==
  ASSUME PInv, FailureInv, [Next]_vars
  PROVE  FailureInv'
<1>1. /\ allocations \in Seq([start : Nat, end : Nat]) /\ Len(allocations) \in Nat
      /\ current_layer \in Nat /\ total_layers \in Nat /\ Nodes \in Nat
      /\ total_layers > 0 /\ Nodes > 0 /\ Len(allocations) <= Nodes
  BY DEF PInv, FailureInv, total_layers, Nodes
<1>2. ASSUME NEW node \in 1 .. Nodes, NEW share \in RoundedShares(node), AssignLayers(node, share)
      PROVE  FailureInv'
  <2>1. /\ UNCHANGED <<layer_memory_reqs, capacity, outcome>> /\ outcome = "running"
        /\ current_layer' = SliceEnd(share) /\ node = Len(allocations) + 1
        /\ current_layer > total_layers \/ Stops(share) # {}
    BY <1>2 DEF AssignLayers
  <2>2. Len(allocations') = node
    BY <1>1, <1>2 DEF AssignLayers
  <2>3. SameModel
    BY <2>1, ModelIsKept
  <2>4. ASSUME node = Nodes, SliceEnd(share) < total_layers
        PROVE  layer_memory_reqs[total_layers] * Cumulative(capacity, Nodes) <= Slack(Nodes)
    BY <1>1, <2>1, <2>4, RestReason
  <2> QED BY <1>1, <2>1, <2>2, <2>3, <2>4 DEF FailureInv, FailureExplained, SameModel
<1>3. ASSUME NEW node \in 1 .. Nodes, NEW share \in RoundedShares(node), IndexOverrun(node, share)
      PROVE  FailureInv'
  <2>1. /\ UNCHANGED <<layer_memory_reqs, capacity, current_layer, allocations>>
        /\ outcome' = "index_error" /\ Stops(share) = {}
        /\ node = Len(allocations) + 1 /\ current_layer <= total_layers
    BY <1>1, <1>3 DEF IndexOverrun
  <2>2. SameModel
    BY <2>1, ModelIsKept
  <2>3. current_layer = total_layers \/ Want(Nodes) <= Want(node) + Slack(node)
    <3>1. SUFFICES ASSUME current_layer < total_layers
                   PROVE  Want(Nodes) <= Want(node) + Slack(node)
      BY <1>1, <2>1
    <3> QED BY <1>1, <2>1, <3>1, OverrunReason
  <2>4. Want(Nodes)' = Want(Nodes) /\ (Want(node) + Slack(node))' = Want(node) + Slack(node)
    BY <1>1, <2>1, <2>2 DEF SameModel
  <2> QED BY <2>1, <2>2, <2>3, <2>4 DEF FailureInv, FailureExplained, SameModel
<1>4. CASE AssertAllAssigned
  <2>1. /\ UNCHANGED <<layer_memory_reqs, capacity, current_layer, allocations>>
        /\ Len(allocations) = Nodes /\ outcome' \in {"done", "refused"}
        /\ outcome' = "refused" => current_layer # total_layers
    BY <1>4 DEF AssertAllAssigned
  <2>2. SameModel
    BY <2>1, ModelIsKept
  <2>3. outcome' = "refused" =>
          \/ current_layer > total_layers
          \/ layer_memory_reqs[total_layers] * Cumulative(capacity, Nodes) <= Slack(Nodes)
    BY <1>1, <2>1 DEF FailureInv
  <2> QED BY <2>1, <2>2, <2>3 DEF FailureInv, FailureExplained, SameModel
<1>5. CASE UNCHANGED vars
  <2>1. UNCHANGED <<layer_memory_reqs, capacity, current_layer, allocations, outcome>>
    BY <1>5 DEF vars
  <2>2. SameModel
    BY <2>1, ModelIsKept
  <2>3. Want(Nodes)' = Want(Nodes)
        /\ (Want(Len(allocations) + 1) + Slack(Len(allocations) + 1))'
             = Want(Len(allocations) + 1) + Slack(Len(allocations) + 1)
        /\ Slack(Nodes)' = Slack(Nodes)
    BY <1>1, <2>1, <2>2 DEF SameModel
  <2> QED BY <2>1, <2>2, <2>3 DEF FailureInv, FailureExplained, SameModel
<1> QED BY <1>2, <1>3, <1>4, <1>5 DEF Next

\* The reasons for which join_cluster finds no partition (core.py 148-174), for any
\* model, any cluster and any precision of the shares: layers used up, a share or a
\* last layer that rounding has swallowed; a lack of memory is none of them.
THEOREM FailuresAreExplained == Spec => []FailureExplained
<1>1. Init => FailureInv
  <2> SUFFICES ASSUME Init PROVE FailureInv
    OBVIOUS
  <2>1. total_layers > 0 /\ Nodes > 0
    BY BalancedInit DEF BalancedInv
  <2>2. Len(allocations) = 0 /\ outcome = "running"
    BY DEF Init
  <2>3. Nodes # 0
    BY <2>1
  <2> QED BY <2>1, <2>2, <2>3 DEF FailureInv, FailureExplained
<1>2. FailureInv => FailureExplained
  BY DEF FailureInv
<1> QED BY <1>1, <1>2, FailureNext, PartitionInvariance, PTL DEF Spec

-----------------------------------------------------------------------------
(* What formation is given.                                                *)

\* The boundaries of the slices, from 0.
Boundaries == [k \in 0 .. Nodes |-> IF k = 0 THEN 0 ELSE allocations[k].end]

\* A successful partition is a cut: what PipelineFormation takes a head to have
\* computed, its Cuts, and how it reads the slices off it, its SliceOf.
DoneIsACut ==
  outcome = "done" =>
    /\ Boundaries \in {b \in [0 .. Nodes -> 0 .. total_layers] :
                        b[0] = 0 /\ b[Nodes] = total_layers /\ \A k \in 1 .. Nodes : b[k - 1] < b[k]}
    /\ \A k \in 1 .. Nodes :
         allocations[k].start = Boundaries[k - 1] /\ allocations[k].end = Boundaries[k]

\* So formation loses nothing by knowing of the partition no more than that.
THEOREM PartitionIsACut == Spec => []DoneIsACut
<1>1. PInv => DoneIsACut
  <2> SUFFICES ASSUME PInv, outcome = "done"
               PROVE  /\ Boundaries \in [0 .. Nodes -> 0 .. total_layers]
                      /\ Boundaries[0] = 0 /\ Boundaries[Nodes] = total_layers
                      /\ \A k \in 1 .. Nodes : Boundaries[k - 1] < Boundaries[k]
                      /\ \A k \in 1 .. Nodes :
                           allocations[k].start = Boundaries[k - 1] /\ allocations[k].end = Boundaries[k]
    BY DEF DoneIsACut
  <2>1. /\ total_layers \in Nat /\ Nodes \in Nat /\ Len(allocations) = Nodes
        /\ allocations \in Seq([start : Nat, end : Nat]) /\ current_layer = total_layers
    BY DEF PInv, total_layers, Nodes
  <2>2. Boundaries[0] = 0 /\ \A k \in 1 .. Nodes : Boundaries[k] = allocations[k].end
    BY <2>1 DEF Boundaries
  <2>3. ASSUME NEW k \in 1 .. Nodes
        PROVE  /\ allocations[k].start = Boundaries[k - 1] /\ allocations[k].end = Boundaries[k]
               /\ Boundaries[k - 1] < Boundaries[k]
    <3>1. allocations[k].start < allocations[k].end
      BY <2>1 DEF PInv
    <3>2. CASE k = 1
      <4>1. allocations # <<>> /\ allocations[1].start = 0
        BY <2>1, <3>2 DEF PInv
      <4> QED BY <2>2, <3>1, <3>2, <4>1
    <3>3. CASE k > 1
      <4>1. k - 1 \in 1 .. Nodes /\ allocations[k - 1].end = allocations[k].start
        BY <2>1, <3>3 DEF PInv
      <4> QED BY <2>2, <3>1, <4>1
    <3> QED BY <2>1, <3>2, <3>3
  <2>4. Boundaries[Nodes] = total_layers
    <3>1. CASE Nodes = 0
      <4>1. current_layer = 0
        BY <2>1, <3>1 DEF PInv
      <4> QED BY <2>1, <2>2, <3>1, <4>1
    <3>2. CASE Nodes > 0
      <4>1. allocations # <<>> /\ allocations[Nodes].end = current_layer
        BY <2>1, <3>2 DEF PInv
      <4> QED BY <2>1, <2>2, <3>2, <4>1
    <3> QED BY <2>1, <3>1, <3>2
  <2>5. \A k \in 1 .. Nodes : allocations[k].end \in 0 .. total_layers
    <3>1. ASSUME NEW k \in 1 .. Nodes, k < Nodes PROVE allocations[k].end <= allocations[Nodes].end
      <4>1. Nodes \in 1 .. Nodes /\ allocations[Nodes].start < allocations[Nodes].end
        BY <2>1, <3>1 DEF PInv
      <4>2. allocations[k].end <= allocations[Nodes].start
        BY <2>1, <3>1, <4>1 DEF PInv
      <4>3. /\ allocations[k].end \in Nat
            /\ allocations[Nodes].start \in Nat /\ allocations[Nodes].end \in Nat
        BY <2>1, <4>1, SliceType
      <4> QED BY <4>1, <4>2, <4>3
    <3>2. ASSUME NEW k \in 1 .. Nodes PROVE allocations[k].end <= total_layers
      <4>1. Nodes \in 1 .. Nodes /\ allocations[Nodes].end = total_layers
        BY <2>1, <2>2, <2>4
      <4>2. CASE k = Nodes
        BY <2>1, <4>1, <4>2
      <4>3. CASE k < Nodes
        BY <3>1, <4>1, <4>3
      <4> QED BY <2>1, <4>2, <4>3
    <3>3. \A k \in 1 .. Nodes : allocations[k].end \in Nat
      BY <2>1, SliceType
    <3> QED BY <2>1, <3>2, <3>3
  <2>6. Boundaries \in [0 .. Nodes -> 0 .. total_layers]
    BY <2>1, <2>5 DEF Boundaries
  <2> QED BY <2>2, <2>3, <2>4, <2>6
<1> QED BY <1>1, PartitionInvariance, PTL
=============================================================================

--------------------------- MODULE FormationProofs ---------------------------
(***************************************************************************)
(* Proofs about PipelineFormation, for any nodes, configuration files,     *)
(* terms and number of layers: the types, and that in a cluster with one   *)
(* winner slices meet, a failure starts nobody, and a head that is ready   *)
(* has delivered.  They rest on IInv, which every action preserves, and on *)
(* the positions of the nodes being the numbers from 1 to their number.    *)
(***************************************************************************)
EXTENDS FormationProperties, TLAPS

-----------------------------------------------------------------------------
(* The order of the nodes.                                                 *)

\* A configuration file that lists every node once.
Complete(c) ==
  /\ config[c] \in File
  /\ validate_cluster_config(config[c], c)

\* Its list is a numbering of the nodes.
LEMMA Numbering ==
  ASSUME NEW c \in Node, Complete(c)
  PROVE  /\ config[c].election_nodes \in Seq(Node) /\ config[c].cluster_nodes \in Seq(Node)
         /\ Total(c) \in Nat /\ Len(config[c].cluster_nodes) = Total(c)
         /\ \A n \in Node : /\ Index(config[c].election_nodes, n) \in 1 .. Total(c)
                            /\ config[c].election_nodes[Index(config[c].election_nodes, n)] = n
         /\ \A k \in 1 .. Total(c) :
              /\ config[c].election_nodes[k] \in Node
              /\ Index(config[c].election_nodes, config[c].election_nodes[k]) = k
<1> DEFINE list == config[c].election_nodes
<1>1. list \in Seq(Node) /\ config[c].cluster_nodes \in Seq(Node)
  BY FileAssumption DEF Complete
<1>2. /\ Distinct(list) /\ \A n \in Node : Lists(list, n)
      /\ Len(config[c].cluster_nodes) = Len(list)
  BY FileAssumption DEF Complete, validate_cluster_config
<1> HIDE DEF list
<1>3. Len(list) \in Nat /\ \A k \in 1 .. Len(list) : list[k] \in Node
  BY <1>1
<1>4. ASSUME NEW n \in Node PROVE Index(list, n) \in 1 .. Len(list) /\ list[Index(list, n)] = n
  <2>1. \E k \in 1 .. Len(list) : list[k] = n
    BY <1>2 DEF Lists
  <2> QED
    BY <2>1 DEF Index
<1>5. ASSUME NEW k \in 1 .. Len(list) PROVE Index(list, list[k]) = k
  BY <1>2, <1>3, <1>4 DEF Distinct
<1> QED
  BY <1>1, <1>2, <1>3, <1>4, <1>5 DEF list, Total

\* The positions that a coordinator gives to the nodes are another, in which it is
\* the first.
LEMMA Positions ==
  ASSUME NEW c \in Node, Complete(c)
  PROVE  /\ \A n \in Node : Position(c, n) \in 1 .. Total(c)
         /\ \A n \in Node : Position(c, n) = 1 <=> n = c
         /\ \A m, n \in Node : Position(c, m) = Position(c, n) => m = n
         /\ \A k \in 1 .. Total(c) : \E n \in Node : Position(c, n) = k
<1> DEFINE list == config[c].election_nodes
           place(n) == Index(list, n)
           N == Total(c)
<1>1. /\ N \in Nat
      /\ \A n \in Node : place(n) \in 1 .. N /\ list[place(n)] = n
      /\ \A k \in 1 .. N : list[k] \in Node /\ place(list[k]) = k
  BY Numbering
<1>2. \A n \in Node :
        Position(c, n) = IF n = c THEN 1 ELSE IF place(n) < place(c) THEN place(n) + 1 ELSE place(n)
  BY DEF Position
<1> HIDE DEF list, place, N
<1>3. \A m, n \in Node : place(m) = place(n) => m = n
  BY <1>1
<1>4. ASSUME NEW n \in Node
      PROVE  Position(c, n) \in 1 .. N /\ (Position(c, n) = 1 <=> n = c)
  BY <1>1, <1>2, <1>3
<1>5. ASSUME NEW m \in Node, NEW n \in Node, Position(c, m) = Position(c, n) PROVE m = n
  BY <1>1, <1>2, <1>3, <1>5
<1>6. ASSUME NEW k \in 1 .. N PROVE \E n \in Node : Position(c, n) = k
  <2>1. CASE k = 1
    BY <1>4, <2>1
  <2>2. CASE k > 1 /\ k <= place(c)
    <3>1. k - 1 \in 1 .. N /\ k - 1 < place(c)
      BY <1>1, <2>2
    <3>2. list[k - 1] \in Node /\ place(list[k - 1]) = k - 1 /\ list[k - 1] # c
      BY <1>1, <3>1
    <3> QED
      BY <1>2, <3>1, <3>2
  <2>3. CASE k > place(c)
    <3>1. list[k] \in Node /\ place(list[k]) = k /\ list[k] # c
      BY <1>1, <2>3
    <3> QED
      BY <1>1, <1>2, <2>3, <3>1
  <2> QED
    BY <1>1, <2>1, <2>2, <2>3
<1> QED
  BY <1>4, <1>5, <1>6 DEF N

\* A slice of a cut is a pair of its boundaries.
LEMMA SliceTypes ==
  ASSUME NEW c \in Node, Complete(c), NEW n \in Node, NEW cut \in Cuts(c)
  PROVE  SliceOf(c, n, cut) \in Slice /\ SliceOf(c, n, cut) # None /\ cut # None
<1>1. Position(c, n) \in 1 .. Total(c) /\ Total(c) \in Nat
  BY Positions, Numbering
<1>2. cut \in [0 .. Total(c) -> 0 .. Layers]
  BY DEF Cuts
<1>3. Position(c, n) - 1 \in 0 .. Total(c) /\ Position(c, n) \in 0 .. Total(c)
  BY <1>1
<1>4. cut[Position(c, n) - 1] \in 0 .. Layers /\ cut[Position(c, n)] \in 0 .. Layers
  BY <1>2, <1>3
<1>5. SliceOf(c, n, cut) \in Slice
  BY <1>4 DEF SliceOf, Slice
<1> QED
  BY <1>2, <1>5, NoneAssumption DEF Slice, Complete, Total

\* The node behind n, under the data endpoint that n's own file has for it.
LEMMA NextStageIs ==
  ASSUME NEW n \in Node, Complete(n), adopted[n] \in Node, Complete(adopted[n])
  PROVE  LET c == adopted[n] IN
         /\ NextStage(n) = None => Position(c, n) = Total(c)
         /\ NextStage(n) \in Node \cup {None}
         /\ NextStage(n) \in Node /\ Paired(config[n]) =>
              Position(c, NextStage(n)) = Position(c, n) + 1
<1> DEFINE c == adopted[n]
           next == Behind(c, n)
<1>1. CASE Position(c, n) = Total(c)
  BY <1>1, NoneAssumption DEF NextStage
<1>2. CASE Position(c, n) # Total(c)
  <2>1. Position(c, n) + 1 \in 1 .. Total(c)
    <3>1. Position(c, n) \in 1 .. Total(c) /\ Total(c) \in Nat
      BY Positions, Numbering
    <3> QED
      BY <1>2, <3>1
  <2>2. next \in Node /\ Position(c, next) = Position(c, n) + 1
    <3>1. \E m \in Node : Position(c, m) = Position(c, n) + 1
      BY <2>1, Positions
    <3> QED
      BY <3>1 DEF Behind
  <2>3. NextStage(n) = elec_to_data_map(n, next)
    BY <1>2 DEF NextStage
  <2> HIDE DEF next
  <2>4. elec_to_data_map(n, next) \in Node
    BY <2>2, Numbering DEF elec_to_data_map
  <2>5. Paired(config[n]) => elec_to_data_map(n, next) = next
    BY <2>2, Numbering DEF elec_to_data_map, Paired, Total
  <2> QED
    BY <2>2, <2>3, <2>4, <2>5, NoneAssumption
<1> QED
  BY <1>1, <1>2

-----------------------------------------------------------------------------
(* The inductive invariant, action by action.                              *)

\* Once somebody has won, every node's file is in order.
LEMMA ElectedComplete ==
  ASSUME IInv, NEW m \in Node, elected[m] > 0
  PROVE  \A n \in Node : Complete(n)
  BY DEF IInv, TypeOK, ChoiceInv, Complete

\* A node that has a topology follows a winner.
LEMMA AdoptedComplete ==
  ASSUME IInv, NEW m \in Node, adopted[m] # None
  PROVE  adopted[m] \in Node /\ elected[adopted[m]] > 0 /\ \A n \in Node : Complete(n)
<1>1. adopted[m] \in Node /\ elected[adopted[m]] > 0
  BY DEF IInv, TypeOK, ChoiceInv
<1> QED
  BY <1>1, ElectedComplete

\* Before anything has happened.
LEMMA IInvInit == Init => IInv
<1> SUFFICES ASSUME Init PROVE IInv
  OBVIOUS
<1> USE DEF Init, ChoiceInit
<1>1. TypeOK
  BY DEF TypeOK
<1>2. ChoiceInv
  BY DEF ChoiceInv
<1>3. DeliveryInv
  BY DEF DeliveryInv
<1> QED
  BY <1>1, <1>2, <1>3 DEF IInv

\* What is derived from the files, an adopted topology and a cut stays as long as
\* they do.
LEMMA DerivedStays ==
  ASSUME config' = config
  PROVE  /\ \A c, n : Position(c, n)' = Position(c, n)
         /\ \A c : Cuts(c)' = Cuts(c)
         /\ \A c, p, s : Allocated(c, p, s) /\ allocations'[c] = allocations[c] => Allocated(c, p, s)'
         /\ \A n : adopted'[n] = adopted[n] => NextStage(n)' = NextStage(n)
<1>1. \A c, n : Position(c, n)' = Position(c, n)
  BY DEF Position
<1>2. \A c : Total(c)' = Total(c)
  BY DEF Total
<1>3. \A c : Cuts(c)' = Cuts(c)
  BY <1>2 DEF Cuts
<1>4. ASSUME NEW c, NEW p, NEW s, Allocated(c, p, s), allocations'[c] = allocations[c]
      PROVE  Allocated(c, p, s)'
  BY <1>1, <1>4 DEF Allocated, SliceOf
<1>5. ASSUME NEW n, adopted'[n] = adopted[n] PROVE NextStage(n)' = NextStage(n)
  <2>1. \A c, m : Behind(c, m)' = Behind(c, m)
    BY <1>1 DEF Behind
  <2>2. \A m : elec_to_data_map(n, m)' = elec_to_data_map(n, m)
    BY DEF elec_to_data_map
  <2> QED
    BY <1>1, <1>2, <1>5, <2>1, <2>2 DEF NextStage
<1> QED
  BY <1>1, <1>3, <1>4, <1>5

\* The three things that DeliveryInv says of one node's slice.
SliceInv(p) ==
  /\ partition_config[p] # None => \E c \in Node : Allocated(c, p, partition_config[p])
  /\ slice[p] # None => \E c \in Node : Allocated(c, p, slice[p])
  /\ slice[p] # None => target[p] = NextStage(p)

\* They stay with the slice, unless the node's topology or the cut changes.
LEMMA SliceKept ==
  ASSUME NEW p \in Node, SliceInv(p), config' = config,
         \A c \in Node : allocations[c] # None => allocations'[c] = allocations[c],
         partition_config'[p] = partition_config[p], slice'[p] = slice[p], target'[p] = target[p],
         slice[p] # None => adopted'[p] = adopted[p]
  PROVE  SliceInv(p)'
<1>1. ASSUME NEW c \in Node, NEW s, Allocated(c, p, s) PROVE Allocated(c, p, s)'
  <2>1. allocations[c] # None
    BY <1>1 DEF Allocated
  <2> QED
    BY <1>1, <2>1, DerivedStays
<1>2. slice[p] # None => NextStage(p)' = NextStage(p)
  BY DerivedStays
<1> QED
  BY <1>1, <1>2 DEF SliceInv

\* A step that concerns neither slices nor calls.
LEMMA DeliveryKept ==
  ASSUME DeliveryInv,
         UNCHANGED <<config, allocations, partition_config, slice, target, messageVars>>,
         \A n \in Node : slice[n] # None => adopted'[n] = adopted[n],
         \A n \in Node : pc[n] = "sending" => pc'[n] = "sending"
  PROVE  DeliveryInv'
<1> USE DEF messageVars
<1>1. \A n, p \in Node : <<n, p>> \in requests' => allocations'[n] # None
  BY DEF DeliveryInv
<1>2. ASSUME NEW p \in Node PROVE SliceInv(p)'
  <2>1. SliceInv(p)
    BY DEF DeliveryInv, SliceInv
  <2> QED
    BY <2>1, SliceKept
<1>3. ASSUME NEW n \in Node, allocations'[n] # None
      PROVE  /\ partition_config'[n] # None
             /\ \A p \in Peers(n) :
                  \/ partition_config'[p] # None
                  \/ <<n, p>> \in timed_out'
                  \/ <<n, p>> \in calls' \cap requests' /\ pc'[n] = "sending"
  BY <1>3 DEF DeliveryInv, Peers
<1> QED
  BY <1>1, <1>2, <1>3 DEF DeliveryInv, SliceInv

\* A node reads its file.
LEMMA LoadConfigKeeps ==
  ASSUME NEW n \in Node, IInv, LoadConfig(n)
  PROVE  IInv'
<1> USE DEF LoadConfig, GoTo, choiceVars, nodeVars, messageVars
<1>1. TypeOK'
  BY DEF IInv, TypeOK, Cuts, Total
<1>2. ChoiceInv'
  BY DEF IInv, TypeOK, ChoiceInv
<1>3. DeliveryInv'
  BY DeliveryKept DEF IInv, TypeOK
<1> QED
  BY <1>1, <1>2, <1>3 DEF IInv

\* A node wins: all files have been accepted.
LEMMA WinKeeps ==
  ASSUME NEW n \in Node, NEW term \in Term, IInv, Win(n, term)
  PROVE  IInv'
<1> USE DEF Win, Elect, messageVars
<1>1. TypeOK'
  BY DEF IInv, TypeOK, Cuts, Total
<1>2. ChoiceInv'
  <2>1. term > 0
    BY TermAssumption
  <2> QED
    BY <2>1, NoneAssumption DEF IInv, TypeOK, ChoiceInv, AllListening
<1>3. DeliveryInv'
  <2>1. \A m \in Node : slice[m] # None => adopted'[m] = adopted[m]
    BY DEF IInv, TypeOK, ChoiceInv
  <2> QED
    BY <2>1, DeliveryKept DEF IInv
<1> QED
  BY <1>1, <1>2, <1>3 DEF IInv

\* A node follows one.
LEMMA FollowKeeps ==
  ASSUME NEW n \in Node, NEW c \in Node, IInv, Follow(n, c)
  PROVE  IInv'
<1> USE DEF Follow, Adopt, nodeVars, messageVars
<1>1. TypeOK'
  BY DEF IInv, TypeOK, Cuts, Total
<1>2. ChoiceInv'
  BY NoneAssumption DEF IInv, TypeOK, ChoiceInv
<1>3. DeliveryInv'
  <2>1. \A m \in Node : slice[m] # None => adopted'[m] = adopted[m]
    BY DEF IInv, TypeOK, ChoiceInv
  <2> QED
    BY <2>1, DeliveryKept DEF IInv
<1> QED
  BY <1>1, <1>2, <1>3 DEF IInv

\* A winner loses its state.
LEMMA StepDownKeeps ==
  ASSUME NEW n \in Node, IInv, StepDown(n)
  PROVE  IInv'
<1> USE DEF StepDown, choiceVars, messageVars
<1>1. TypeOK'
  BY DEF IInv, TypeOK, Cuts, Total
<1>2. ChoiceInv'
  BY DEF IInv, ChoiceInv
<1>3. DeliveryInv'
  BY DeliveryKept DEF IInv
<1> QED
  BY <1>1, <1>2, <1>3 DEF IInv

\* The election is over for a node: the first is the winner it follows.
LEMMA JoinReturnsKeeps ==
  ASSUME NEW n \in Node, IInv, JoinReturns(n)
  PROVE  IInv'
<1> USE DEF JoinReturns, GoTo, choiceVars, nodeVars, messageVars
<1>1. TypeOK'
  BY DEF IInv, TypeOK, Cuts, Total
<1>2. ChoiceInv'
  <2>1. Position(adopted[n], n) = 1 => elected[n] > 0
    BY AdoptedComplete, Positions
  <2>2. validate_cluster_config(config[n], n)
    BY DEF IInv, ChoiceInv
  <2> QED
    BY <2>1, <2>2 DEF IInv, TypeOK, ChoiceInv
<1>3. DeliveryInv'
  BY DeliveryKept DEF IInv, TypeOK
<1> QED
  BY <1>1, <1>2, <1>3 DEF IInv

\* The head fails before it has sent anything, or sends nothing.
LEMMA HeadStopsKeeps ==
  ASSUME NEW n \in Node, IInv, PartitionFails(n) \/ SkipPartitioning(n) \/ TakeNothing(n)
  PROVE  IInv'
<1>1. /\ \/ pc[n] = "partitioning" /\ pc' = [pc EXCEPT ![n] = "failed"]
         \/ pc[n] = "partitioning" /\ pc' = [pc EXCEPT ![n] = "taking"]
         \/ pc[n] = "taking" /\ partition_config[n] = None /\ pc' = [pc EXCEPT ![n] = "failed"]
      /\ UNCHANGED <<choiceVars, nodeVars, messageVars>>
  BY DEF PartitionFails, BeforeSending, SkipPartitioning, TakeNothing, HasPartition, GoTo
<1> USE <1>1 DEF choiceVars, nodeVars, messageVars
<1>2. TypeOK'
  BY DEF IInv, TypeOK, Cuts, Total
<1>3. ChoiceInv'
  BY DEF IInv, TypeOK, ChoiceInv, DeliveryInv
<1>4. DeliveryInv'
  BY DeliveryKept DEF IInv, TypeOK
<1> QED
  BY <1>2, <1>3, <1>4 DEF IInv

\* The head makes its cut and calls every peer.
LEMMA SendPartitioningKeeps ==
  ASSUME NEW n \in Node, IInv, SendPartitioning(n)
  PROVE  IInv'
<1> USE DEF SendPartitioning, GoTo, choiceVars
<1>1. PICK cut \in Cuts(n) :
        /\ allocations' = [allocations EXCEPT ![n] = cut]
        /\ partition_config' = [partition_config EXCEPT ![n] = SliceOf(n, n, cut)]
  OBVIOUS
<1>2. SliceOf(n, n, cut) \in Slice /\ SliceOf(n, n, cut) # None /\ cut # None
  <2>1. elected[n] > 0
    BY DEF IInv, ChoiceInv
  <2> QED
    BY <2>1, ElectedComplete, SliceTypes
<1>3. allocations[n] = None
  BY DEF IInv, ChoiceInv
<1>4. TypeOK'
  <2>1. \A m \in Node : Cuts(m)' = Cuts(m)
    BY DEF Cuts, Total
  <2>2. \A m \in Node : allocations'[m] \in Cuts(m) \cup {None}
    BY <1>1 DEF IInv, TypeOK
  <2>3. partition_config' \in [Node -> Slice \cup {None}]
    BY <1>1, <1>2 DEF IInv, TypeOK
  <2>4. requests' \subseteq Node \X Node /\ calls' \subseteq Node \X Node
    BY DEF IInv, TypeOK, Peers
  <2> QED
    BY <2>1, <2>2, <2>3, <2>4 DEF IInv, TypeOK
<1>5. ChoiceInv'
  BY <1>1 DEF IInv, TypeOK, ChoiceInv
<1>6. DeliveryInv'
  <2>1. \A m \in Node : m # n => allocations'[m] = allocations[m]
                                 /\ partition_config'[m] = partition_config[m]
    BY <1>1 DEF IInv, TypeOK
  <2>2. allocations'[n] = cut /\ partition_config'[n] = SliceOf(n, n, cut)
    BY <1>1 DEF IInv, TypeOK
  <2>3. \A m, p \in Node : <<m, p>> \in requests' => allocations'[m] # None
    <3>1. ASSUME NEW m \in Node, NEW p \in Node, <<m, p>> \in requests', m # n
          PROVE  allocations[m] # None
      BY <3>1 DEF IInv, DeliveryInv, Peers
    <3> QED
      BY <1>2, <2>1, <2>2, <3>1
  <2>4. ASSUME NEW p \in Node PROVE SliceInv(p)'
    <3>1. SliceInv(p)
      BY DEF IInv, DeliveryInv, SliceInv
    <3>2. CASE p = n
      <4>1. Allocated(n, n, partition_config[n])'
        BY <1>2, <2>2, DerivedStays DEF Allocated, SliceOf
      <4>2. slice'[n] = None
        BY DEF IInv, TypeOK
      <4> QED
        BY <3>2, <4>1, <4>2 DEF SliceInv
    <3>3. CASE p # n
      BY <1>3, <2>1, <3>1, <3>3, SliceKept
    <3> QED
      BY <3>2, <3>3
  <2>5. ASSUME NEW m \in Node, allocations'[m] # None
        PROVE  /\ partition_config'[m] # None
               /\ \A p \in Peers(m) :
                    \/ partition_config'[p] # None
                    \/ <<m, p>> \in timed_out'
                    \/ <<m, p>> \in calls' \cap requests' /\ pc'[m] = "sending"
    BY <1>1, <1>2, <2>5 DEF IInv, TypeOK, DeliveryInv, Peers
  <2> QED
    BY <2>3, <2>4, <2>5 DEF DeliveryInv, SliceInv
<1> QED
  BY <1>4, <1>5, <1>6 DEF IInv

\* The executor's block is left: no call of the head waits any more.
LEMMA FinishSendingKeeps ==
  ASSUME NEW n \in Node, IInv, FinishSending(n)
  PROVE  IInv'
<1> USE DEF FinishSending, AllCallsOver, GoTo, choiceVars, nodeVars, messageVars
<1>1. TypeOK'
  BY DEF IInv, TypeOK, Cuts, Total
<1>2. ChoiceInv'
  BY DEF IInv, TypeOK, ChoiceInv
<1>3. DeliveryInv'
  <2>1. ASSUME NEW p \in Node PROVE SliceInv(p)'
    <3>1. SliceInv(p)
      BY DEF IInv, DeliveryInv, SliceInv
    <3> QED
      BY <3>1, SliceKept
  <2>2. \A m, p \in Node : <<m, p>> \in requests' => allocations'[m] # None
    BY DEF IInv, DeliveryInv
  <2>3. ASSUME NEW m \in Node, allocations'[m] # None
        PROVE  /\ partition_config'[m] # None
               /\ \A p \in Peers(m) :
                    \/ partition_config'[p] # None
                    \/ <<m, p>> \in timed_out'
                    \/ <<m, p>> \in calls' \cap requests' /\ pc'[m] = "sending"
    BY <2>3 DEF IInv, TypeOK, DeliveryInv, Peers
  <2> QED
    BY <2>1, <2>2, <2>3 DEF DeliveryInv, SliceInv
<1> QED
  BY <1>1, <1>2, <1>3 DEF IInv

\* A node takes its slice and looks up the next stage.
LEMMA TakeSliceKeeps ==
  ASSUME NEW n \in Node, IInv, TakeSlice(n)
  PROVE  IInv'
<1> USE DEF TakeSlice, HasPartition, GoTo, choiceVars, messageVars
<1>1. NextStage(n) \in Node \cup {None}
  <2>1. adopted[n] # None
    BY DEF IInv, ChoiceInv
  <2> QED
    BY <2>1, AdoptedComplete, NextStageIs
<1>2. TypeOK'
  BY <1>1 DEF IInv, TypeOK, Cuts, Total
<1>3. ChoiceInv'
  BY DEF IInv, TypeOK, ChoiceInv
<1>4. DeliveryInv'
  <2>1. ASSUME NEW p \in Node PROVE SliceInv(p)'
    <3>1. SliceInv(p)
      BY DEF IInv, DeliveryInv, SliceInv
    <3>2. CASE p # n
      <4>1. slice'[p] = slice[p] /\ target'[p] = target[p]
        BY <3>2 DEF IInv, TypeOK
      <4> QED
        BY <3>1, <4>1, SliceKept
    <3>3. CASE p = n
      <4>1. slice'[n] = partition_config[n] /\ target'[n] = NextStage(n)
        BY DEF IInv, TypeOK
      <4>2. PICK c \in Node : Allocated(c, n, partition_config[n])
        BY <3>1, <3>3 DEF SliceInv
      <4>3. Allocated(c, n, slice[n])' /\ Allocated(c, n, partition_config[n])'
        BY <4>1, <4>2, DerivedStays
      <4>4. NextStage(n)' = NextStage(n)
        BY DerivedStays
      <4> QED
        BY <3>3, <4>1, <4>3, <4>4 DEF SliceInv
    <3> QED
      BY <3>2, <3>3
  <2>2. \A m, p \in Node : <<m, p>> \in requests' => allocations'[m] # None
    BY DEF IInv, DeliveryInv
  <2>3. ASSUME NEW m \in Node, allocations'[m] # None
        PROVE  /\ partition_config'[m] # None
               /\ \A p \in Peers(m) :
                    \/ partition_config'[p] # None
                    \/ <<m, p>> \in timed_out'
                    \/ <<m, p>> \in calls' \cap requests' /\ pc'[m] = "sending"
    BY <2>3 DEF IInv, TypeOK, DeliveryInv, Peers
  <2> QED
    BY <2>1, <2>2, <2>3 DEF DeliveryInv, SliceInv
<1> QED
  BY <1>2, <1>3, <1>4 DEF IInv

\* A peer stores the slice it is sent.
LEMMA HandlePartitioningKeeps ==
  ASSUME NEW n \in Node, NEW p \in Node, IInv, HandlePartitioning(n, p)
  PROVE  IInv'
<1> USE DEF HandlePartitioning, Stored, choiceVars
<1> DEFINE stored == SliceOf(n, p, allocations[n])
<1>1. allocations[n] # None /\ allocations[n] \in Cuts(n)
  BY DEF IInv, TypeOK, DeliveryInv
<1>2. stored \in Slice /\ stored # None
  <2>1. elected[n] > 0
    BY <1>1 DEF IInv, ChoiceInv
  <2> QED
    BY <1>1, <2>1, ElectedComplete, SliceTypes
<1>3. partition_config' = [partition_config EXCEPT ![p] = stored]
  OBVIOUS
<1> HIDE DEF stored
<1>4. TypeOK'
  BY <1>2, <1>3 DEF IInv, TypeOK, Cuts, Total
<1>5. ChoiceInv'
  BY DEF IInv, TypeOK, ChoiceInv
<1>6. partition_config'[p] = stored
      /\ \A m \in Node : m # p => partition_config'[m] = partition_config[m]
  BY <1>3 DEF IInv, TypeOK
<1>7. DeliveryInv'
  <2>1. ASSUME NEW m \in Node PROVE SliceInv(m)'
    <3>1. SliceInv(m)
      BY DEF IInv, DeliveryInv, SliceInv
    <3>2. CASE m # p
      BY <1>6, <3>1, <3>2, SliceKept
    <3>3. CASE m = p
      <4>1. Allocated(n, p, stored)
        BY <1>1 DEF Allocated, stored
      <4>2. Allocated(n, p, partition_config[p])'
        BY <1>6, <4>1, DerivedStays
      <4>3. slice'[p] # None => \E c \in Node : Allocated(c, p, slice[p])'
        <5>1. ASSUME slice[p] # None PROVE \E c \in Node : Allocated(c, p, slice[p])'
          <6>1. PICK c \in Node : Allocated(c, p, slice[p])
            BY <3>1, <3>3, <5>1 DEF SliceInv
          <6> QED
            BY <6>1, DerivedStays
        <5> QED
          BY <5>1
      <4>4. slice'[p] # None => target'[p] = NextStage(p)'
        BY <3>1, <3>3, DerivedStays DEF SliceInv
      <4> QED
        BY <3>3, <4>2, <4>3, <4>4 DEF SliceInv
    <3> QED
      BY <3>2, <3>3
  <2>2. \A m, q \in Node : <<m, q>> \in requests' => allocations'[m] # None
    BY DEF IInv, DeliveryInv
  <2>3. ASSUME NEW m \in Node, allocations'[m] # None
        PROVE  /\ partition_config'[m] # None
               /\ \A q \in Peers(m) :
                    \/ partition_config'[q] # None
                    \/ <<m, q>> \in timed_out'
                    \/ <<m, q>> \in calls' \cap requests' /\ pc'[m] = "sending"
    BY <1>2, <1>6, <2>3 DEF IInv, TypeOK, DeliveryInv, Peers
  <2> QED
    BY <2>1, <2>2, <2>3 DEF DeliveryInv, SliceInv
<1> QED
  BY <1>4, <1>5, <1>7 DEF IInv

\* A call ends with its answer or without.
LEMMA CallEndsKeeps ==
  ASSUME NEW n \in Node, NEW p \in Node, IInv, CallReturns(n, p) \/ CallTimesOut(n, p)
  PROVE  IInv'
<1>1. /\ calls' = calls \ {<<n, p>>} /\ requests' = requests
      /\ \/ <<n, p>> \notin requests /\ timed_out' = timed_out
         \/ timed_out' = timed_out \cup {<<n, p>>}
      /\ UNCHANGED <<choiceVars, nodeVars, pc>>
  BY DEF CallReturns, CallTimesOut
<1> USE <1>1 DEF choiceVars, nodeVars
<1>2. TypeOK'
  BY DEF IInv, TypeOK, Cuts, Total
<1>3. ChoiceInv'
  BY DEF IInv, ChoiceInv
<1>4. DeliveryInv'
  <2>1. ASSUME NEW m \in Node PROVE SliceInv(m)'
    <3>1. SliceInv(m)
      BY DEF IInv, DeliveryInv, SliceInv
    <3> QED
      BY <3>1, SliceKept
  <2>2. \A m, q \in Node : <<m, q>> \in requests' => allocations'[m] # None
    BY DEF IInv, DeliveryInv
  <2>3. ASSUME NEW m \in Node, allocations'[m] # None
        PROVE  /\ partition_config'[m] # None
               /\ \A q \in Peers(m) :
                    \/ partition_config'[q] # None
                    \/ <<m, q>> \in timed_out'
                    \/ <<m, q>> \in calls' \cap requests' /\ pc'[m] = "sending"
    BY <2>3 DEF IInv, TypeOK, DeliveryInv, Peers
  <2> QED
    BY <2>1, <2>2, <2>3 DEF DeliveryInv, SliceInv
<1> QED
  BY <1>2, <1>3, <1>4 DEF IInv

\* Every step preserves the invariant.
LEMMA IInvNext == IInv /\ [Next]_vars => IInv'
<1> SUFFICES ASSUME IInv, [Next]_vars PROVE IInv'
  OBVIOUS
<1>1. ASSUME NEW n \in Node, NEW term \in Term, Win(n, term) PROVE IInv'
  BY <1>1, WinKeeps
<1>2. ASSUME NEW n \in Node, NEW c \in Node, Follow(n, c) PROVE IInv'
  BY <1>2, FollowKeeps
<1>3. ASSUME NEW n \in Node,
             \/ LoadConfig(n) \/ StepDown(n) \/ JoinReturns(n)
             \/ PartitionFails(n) \/ SkipPartitioning(n) \/ TakeNothing(n)
      PROVE  IInv'
  BY <1>3, LoadConfigKeeps, StepDownKeeps, JoinReturnsKeeps, HeadStopsKeeps
<1>4. ASSUME NEW n \in Node, SendPartitioning(n) \/ FinishSending(n) \/ TakeSlice(n)
      PROVE  IInv'
  BY <1>4, SendPartitioningKeeps, FinishSendingKeeps, TakeSliceKeeps
<1>5. ASSUME NEW n \in Node, NEW p \in Node,
             HandlePartitioning(n, p) \/ CallReturns(n, p) \/ CallTimesOut(n, p)
      PROVE  IInv'
  BY <1>5, HandlePartitioningKeeps, CallEndsKeeps
<1>6. CASE UNCHANGED vars
  <2>1. TypeOK'
    BY <1>6 DEF IInv, TypeOK, Cuts, Total, vars, choiceVars, nodeVars, messageVars
  <2>2. ChoiceInv'
    BY <1>6 DEF IInv, ChoiceInv, vars, choiceVars, nodeVars, messageVars
  <2>3. DeliveryInv'
    BY <1>6, DeliveryKept DEF IInv, vars, choiceVars, nodeVars
  <2> QED
    BY <2>1, <2>2, <2>3 DEF IInv
<1> QED
  BY <1>1, <1>2, <1>3, <1>4, <1>5, <1>6 DEF Next

-----------------------------------------------------------------------------
(* What follows from it.                                                   *)

\* The invariant holds in every reachable state: files are accepted before anybody
\* wins, and every slice on its way or taken is one of a cut of a winner.
THEOREM FormationInvariance == Spec => []IInv
<1>1. IInv /\ [Next]_vars => IInv'
  BY IInvNext
<1> QED
  BY IInvInit, <1>1, PTL DEF Spec

\* Variables keep their types; a node is ready exactly when it has layers.
THEOREM FormationTypes == Spec => []TypeOK
<1>1. IInv => TypeOK
  BY DEF IInv
<1> QED
  BY FormationInvariance, <1>1, PTL

\* With one winner, every slice is one of its cut.
LEMMA OnlyCut ==
  ASSUME IInv, OneWinner, NEW n \in Node, slice[n] # None
  PROVE  \E c \in Node :
           /\ elected[c] > 0 /\ Complete(c) /\ Complete(n) /\ adopted[n] = c
           /\ allocations[c] \in Cuts(c)
           /\ slice[n] = SliceOf(c, n, allocations[c])
           /\ target[n] = NextStage(n)
           /\ \A m \in Node : slice[m] # None => slice[m] = SliceOf(c, m, allocations[c])
<1>1. ASSUME NEW m \in Node, slice[m] # None
      PROVE  \E c \in Node : elected[c] > 0 /\ Allocated(c, m, slice[m])
  BY <1>1 DEF IInv, DeliveryInv, ChoiceInv, Allocated
<1>2. PICK c \in Node : elected[c] > 0 /\ Allocated(c, n, slice[n])
  BY <1>1
<1>3. Complete(c) /\ Complete(n)
  BY <1>2, ElectedComplete
<1>4. adopted[n] = c
  <2>1. pc[n] = "ready"
    BY DEF IInv, TypeOK
  <2>2. adopted[n] # None
    BY <2>1 DEF IInv, ChoiceInv
  <2> QED
    BY <1>2, <2>2, AdoptedComplete DEF OneWinner
<1>5. allocations[c] \in Cuts(c)
  BY <1>2 DEF IInv, TypeOK, Allocated
<1>6. \A m \in Node : slice[m] # None => slice[m] = SliceOf(c, m, allocations[c])
  <2>1. ASSUME NEW m \in Node, slice[m] # None PROVE slice[m] = SliceOf(c, m, allocations[c])
    <3>1. PICK d \in Node : elected[d] > 0 /\ Allocated(d, m, slice[m])
      BY <1>1, <2>1
    <3>2. d = c
      BY <1>2, <3>1 DEF OneWinner
    <3> QED
      BY <3>1, <3>2 DEF Allocated
  <2> QED
    BY <2>1
<1> QED
  BY <1>2, <1>3, <1>4, <1>5, <1>6 DEF IInv, DeliveryInv

\* Activations go where the next layers are, from the first layer to the last.
THEOREM SlicesAreAdjacent == Spec => []SlicesMeet
<1>1. IInv => SlicesMeet
  <2> SUFFICES ASSUME IInv, OneWinner, NEW n \in Node, Ready(n)
               PROVE  /\ \A m \in Node : target[n] = m /\ Ready(m) /\ Paired(config[n]) =>
                             slice[n].end = slice[m].start
                      /\ elected[n] > 0 => slice[n].start = 0
                      /\ target[n] = None => slice[n].end = Layers
    BY DEF SlicesMeet
  <2>1. \A m \in Node : Ready(m) => slice[m] # None
    BY DEF IInv, TypeOK, Ready
  <2>2. PICK c \in Node :
          /\ elected[c] > 0 /\ Complete(c) /\ Complete(n) /\ adopted[n] = c
          /\ allocations[c] \in Cuts(c)
          /\ slice[n] = SliceOf(c, n, allocations[c])
          /\ target[n] = NextStage(n)
          /\ \A m \in Node : slice[m] # None => slice[m] = SliceOf(c, m, allocations[c])
    BY <2>1, OnlyCut
  <2> DEFINE cut == allocations[c]
  <2>3. /\ NextStage(n) = None => Position(c, n) = Total(c)
        /\ NextStage(n) \in Node /\ Paired(config[n]) =>
             Position(c, NextStage(n)) = Position(c, n) + 1
    BY <2>2, NextStageIs
  <2>4. cut[0] = 0 /\ cut[Total(c)] = Layers
    BY <2>2 DEF Cuts
  <2>5. /\ \A m \in Node : Position(c, m) \in 1 .. Total(c)
        /\ Position(c, c) = 1
        /\ Total(c) \in Nat
    BY <2>2, Positions, Numbering
  <2>6. ASSUME NEW m \in Node, target[n] = m, Ready(m), Paired(config[n])
        PROVE  slice[n].end = slice[m].start
    <3>1. Position(c, m) = Position(c, n) + 1
      BY <2>2, <2>3, <2>6
    <3>2. Position(c, m) - 1 = Position(c, n)
      BY <2>5, <3>1
    <3>3. slice[m] = SliceOf(c, m, cut)
      BY <2>1, <2>2, <2>6
    <3> QED
      BY <2>2, <3>2, <3>3 DEF SliceOf
  <2>7. elected[n] > 0 => slice[n].start = 0
    <3>1. elected[n] > 0 => n = c
      BY <2>2 DEF OneWinner
    <3> QED
      BY <2>2, <2>4, <2>5, <3>1 DEF SliceOf
  <2>8. target[n] = None => slice[n].end = Layers
    BY <2>2, <2>3, <2>4 DEF SliceOf
  <2> QED
    BY <2>6, <2>7, <2>8
<1> QED
  BY FormationInvariance, <1>1, PTL

\* A refused file or a failed head keeps every node from becoming ready.
THEOREM FailureIsForAll == Spec => []FailureStartsNobody
<1>1. IInv => FailureStartsNobody
  <2> SUFFICES ASSUME IInv, OneWinner, NEW m \in Node, pc[m] \in {"failed", "refused"},
                      NEW n \in Node, Ready(n)
               PROVE  FALSE
    BY DEF FailureStartsNobody
  <2>1. slice[n] # None
    BY DEF IInv, TypeOK, Ready
  <2>2. PICK c \in Node : elected[c] > 0 /\ allocations[c] \in Cuts(c) /\ Complete(c)
    BY <2>1, OnlyCut
  <2>3. allocations[c] # None
    BY <2>2, SliceTypes
  <2>4. pc[m] = "failed" /\ elected[m] > 0
    BY <2>2 DEF IInv, ChoiceInv
  <2>5. m = c
    BY <2>2, <2>4 DEF OneWinner
  <2> QED
    BY <2>3, <2>4, <2>5 DEF IInv, ChoiceInv
<1> QED
  BY FormationInvariance, <1>1, PTL

\* A head that has started has delivered every slice it did not give up on.
THEOREM DeliveredBeforeReady == Spec => []ReadyMeansDelivered
<1>1. IInv => ReadyMeansDelivered
  <2> SUFFICES ASSUME IInv, OneWinner, timed_out = {}, NEW n \in Node, elected[n] > 0, Ready(n),
                      NEW p \in Node
               PROVE  partition_config[p] # None
    BY DEF ReadyMeansDelivered
  <2>1. slice[n] # None /\ pc[n] # "sending"
    BY DEF IInv, TypeOK, Ready
  <2>2. PICK c \in Node : elected[c] > 0 /\ allocations[c] \in Cuts(c) /\ Complete(c)
    BY <2>1, OnlyCut
  <2>3. allocations[c] # None
    BY <2>2, SliceTypes
  <2>4. n = c
    BY <2>2 DEF OneWinner
  <2> QED
    BY <2>1, <2>3, <2>4 DEF IInv, DeliveryInv, Peers
<1> QED
  BY FormationInvariance, <1>1, PTL
=============================================================================

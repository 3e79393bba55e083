-------------------------- MODULE PipelineFormation --------------------------
(***************************************************************************)
(* From a configuration file to a pipeline: every node reads its own       *)
(* cluster.json, joins the election, and derives its role and the next     *)
(* stage from the topology (DistributedPipeline in pipeline/core.py).  The *)
(* head cuts the model and sends every node its slice, the workers wait    *)
(* for theirs (broadcast_partitioning, wait_for_partitioning in            *)
(* orchestrator/node.py, BroadcastPartitioning in orchestrator/server.py). *)
(*                                                                         *)
(* The election is TopologyChoice, to which only the barrier before it and *)
(* the winner's state are added: the election leaves some winners in state *)
(* FOLLOWER.  The cut is any that LayerPartition can end with.  A node's   *)
(* two endpoints, for the election and for data, both stand as the node.   *)
(***************************************************************************)
EXTENDS TopologyChoice, Sequences

CONSTANTS
  File,    \* the configurations that nodes may be given
  Layers   \* number of layers of the model

Distinct(list) == \A j, k \in 1 .. Len(list) : list[j] = list[k] => j = k
Lists(list, n) == \E k \in 1 .. Len(list) : list[k] = n

\* Nothing is said of the order of either list, or of other nodes' files.
validate_cluster_config(file, n) ==
  /\ Len(file.election_nodes) = Len(file.cluster_nodes)
  /\ Distinct(file.election_nodes) /\ Distinct(file.cluster_nodes)
  /\ Lists(file.election_nodes, n) /\ Lists(file.cluster_nodes, n)

\* A file that is accepted lists the nodes of this cluster.
ASSUME FileAssumption ==
  \A file \in File :
    /\ file.election_nodes \in Seq(Node) /\ file.cluster_nodes \in Seq(Node)
    /\ (\E n \in Node : validate_cluster_config(file, n)) =>
         \A m \in Node : Lists(file.election_nodes, m)
ASSUME LayersAssumption == Layers \in Nat
ASSUME TermAssumption == Term \subseteq Nat \ {0}
ASSUME NoneAssumption ==
  /\ None \notin Node
  /\ None \notin [start : 0 .. Layers, end : 0 .. Layers]
  /\ \A file \in File : None \notin [0 .. Len(file.election_nodes) -> 0 .. Layers]

VARIABLES
  config,             \* each node's file
  leader,             \* whether a winner is still in state LEADER
  pc,
  allocations,        \* the boundaries a head has computed, or None
  partition_config,   \* of each node, or None
  slice,              \* the layers a node has taken, or None
  target,             \* the node its runner sends activations to, or None
  requests,           \* BroadcastPartitioning requests not yet handled
  calls,              \* calls whose caller still waits
  timed_out           \* calls whose caller gave up before they were handled

nodeVars == <<config, leader, allocations, partition_config, slice, target>>
messageVars == <<requests, calls, timed_out>>
vars == <<choiceVars, nodeVars, pc, messageVars>>

Peers(n) == Node \ {n}
Total(c) == Len(config[c].election_nodes)

Index(list, n) == CHOOSE k \in 1 .. Len(list) : list[k] = n

\* The place of n in ordered_node_ips, from 1: the coordinator, then its peers in
\* the order of its own file.
Position(c, n) ==
  LET place(m) == Index(config[c].election_nodes, m)
  IN  IF n = c THEN 1 ELSE IF place(n) < place(c) THEN place(n) + 1 ELSE place(n)

\* The boundaries a successful partition can have.
Cuts(c) == {b \in [0 .. Total(c) -> 0 .. Layers] :
              b[0] = 0 /\ b[Total(c)] = Layers /\ \A k \in 1 .. Total(c) : b[k - 1] < b[k]}

\* Mutant: the boundaries are handed out in configuration order.
SliceOfInConfigOrder(c, n, cut) ==
  LET k == Index(config[c].election_nodes, n) IN [start |-> cut[k - 1], end |-> cut[k]]

\* n's slice of a cut made by c.
SliceOf(c, n, cut) == [start |-> cut[Position(c, n) - 1], end |-> cut[Position(c, n)]]

\* The next node's data endpoint according to n's own file.
elec_to_data_map(n, m) ==
  config[n].cluster_nodes[Index(config[n].election_nodes, m)]

Behind(c, n) == CHOOSE m \in Node : Position(c, m) = Position(c, n) + 1

\* The tail's next_node_idx is past the end.
NextStage(n) ==
  LET c == adopted[n]
  IN  IF Position(c, n) = Total(c) THEN None ELSE elec_to_data_map(n, Behind(c, n))

Init ==
  /\ ChoiceInit
  /\ config \in [Node -> File]
  /\ leader = [n \in Node |-> FALSE]
  /\ pc = [n \in Node |-> "loading"]
  /\ allocations = [n \in Node |-> None]
  /\ partition_config = [n \in Node |-> None]
  /\ slice = [n \in Node |-> None]
  /\ target = [n \in Node |-> None]
  /\ requests = {} /\ calls = {} /\ timed_out = {}

GoTo(n, label) == pc' = [pc EXCEPT ![n] = label]

\* The constructor raises before anything else when the file is not valid.
LoadConfig(n) ==
  /\ pc[n] = "loading"
  /\ GoTo(n, IF validate_cluster_config(config[n], n) THEN "electing" ELSE "refused")
  /\ UNCHANGED <<choiceVars, nodeVars, messageVars>>

-----------------------------------------------------------------------------
(* The election.                                                           *)

\* Mutant: nobody is waited for.
Listening(n) == pc[n] = "electing"

\* The barrier: every node is up before anybody campaigns.
AllListening(n) == \A m \in Node : pc[m] \notin {"loading", "refused"}

Win(n, term) ==
  /\ AllListening(n)
  /\ Elect(n, term)
  /\ leader' = [leader EXCEPT ![n] = TRUE]
  /\ UNCHANGED <<config, pc, allocations, partition_config, slice, target, messageVars>>

Follow(n, c) ==
  /\ Adopt(n, c)
  /\ UNCHANGED <<nodeVars, pc, messageVars>>

\* A vote reply of a higher term reaches a winner whose election round is not
\* over yet.
StepDown(n) ==
  /\ pc[n] = "electing" /\ leader[n]
  /\ leader' = [leader EXCEPT ![n] = FALSE]
  /\ UNCHANGED <<choiceVars, config, pc, allocations, partition_config, slice, target,
                 messageVars>>

\* ClusterNode.join_cluster returns; index 0 makes the node the head.
JoinReturns(n) ==
  /\ pc[n] = "electing" /\ adopted[n] # None
  /\ GoTo(n, IF Position(adopted[n], n) = 1 THEN "partitioning" ELSE "waiting")
  /\ UNCHANGED <<choiceVars, nodeVars, messageVars>>

-----------------------------------------------------------------------------
(* The head.                                                               *)

\* Mutant: the assertion comes after the broadcast.
BeforeOrAfterSending(n) == pc[n] \in {"partitioning", "sending"}

BeforeSending(n) == pc[n] = "partitioning"

\* The partition ends in an exception, and nobody is told.
PartitionFails(n) ==
  /\ BeforeSending(n)
  /\ GoTo(n, "failed")
  /\ UNCHANGED <<choiceVars, nodeVars, messageVars>>

\* The head stores its own slice and calls every peer, whichever topology the
\* peer has adopted.
SendPartitioning(n) ==
  /\ pc[n] = "partitioning" /\ leader[n]
  /\ \E cut \in Cuts(n) :
       /\ allocations' = [allocations EXCEPT ![n] = cut]
       /\ partition_config' = [partition_config EXCEPT ![n] = SliceOf(n, n, cut)]
  /\ requests' = requests \cup ({n} \X Peers(n))
  /\ calls' = calls \cup ({n} \X Peers(n))
  /\ GoTo(n, "sending")
  /\ UNCHANGED <<choiceVars, config, leader, slice, target, timed_out>>

\* broadcast_partitioning returns at once when the head is no longer LEADER.
SkipPartitioning(n) ==
  /\ pc[n] = "partitioning" /\ ~leader[n]
  /\ GoTo(n, "taking")
  /\ UNCHANGED <<choiceVars, nodeVars, messageVars>>

\* A call is over; its result is not looked at.
CallReturns(n, p) ==
  /\ <<n, p>> \in calls \ requests
  /\ calls' = calls \ {<<n, p>>}
  /\ UNCHANGED <<choiceVars, nodeVars, pc, requests, timed_out>>

\* After 10 s the caller gives up.  The request may be handled later, or never.
CallTimesOut(n, p) ==
  /\ <<n, p>> \in calls \cap requests
  /\ calls' = calls \ {<<n, p>>}
  /\ timed_out' = timed_out \cup {<<n, p>>}
  /\ UNCHANGED <<choiceVars, nodeVars, pc, requests>>

\* Mutant: the executor is not waited for.
SubmittedOnly(n) == TRUE

AllCallsOver(n) == calls \cap ({n} \X Peers(n)) = {}

\* Leaving the executor's block waits for every call.
FinishSending(n) ==
  /\ pc[n] = "sending"
  /\ AllCallsOver(n)
  /\ GoTo(n, "taking")
  /\ UNCHANGED <<choiceVars, nodeVars, messageVars>>

\* Mutant: a missing partition_config goes unnoticed.
HasPartitionOrNot(n) == TRUE

HasPartition(n) == partition_config[n] # None

\* Head or worker, a node takes the slice it finds in partition_config and builds
\* its runner.  The worker's wait has no timeout.
TakeSlice(n) ==
  /\ pc[n] \in {"taking", "waiting"}
  /\ HasPartition(n)
  /\ slice' = [slice EXCEPT ![n] = partition_config[n]]
  /\ target' = [target EXCEPT ![n] = NextStage(n)]
  /\ GoTo(n, "ready")
  /\ UNCHANGED <<choiceVars, config, leader, allocations, partition_config, messageVars>>

\* The head finds none: an attribute of None is read.
TakeNothing(n) ==
  /\ pc[n] = "taking"
  /\ ~HasPartition(n)
  /\ GoTo(n, "failed")
  /\ UNCHANGED <<choiceVars, nodeVars, messageVars>>

-----------------------------------------------------------------------------
(* The handler of BroadcastPartitioning.                                   *)

\* Mutant: only a node that waits already takes notice.
StoredWhenWaiting(n, p) ==
  IF pc[p] = "waiting" THEN SliceOf(n, p, allocations[n]) ELSE partition_config[p]

\* The last sender wins, whoever the node follows.
Stored(n, p) == SliceOf(n, p, allocations[n])

HandlePartitioning(n, p) ==
  /\ <<n, p>> \in requests /\ pc[p] # "failed"
  /\ requests' = requests \ {<<n, p>>}
  /\ partition_config' = [partition_config EXCEPT ![p] = Stored(n, p)]
  /\ UNCHANGED <<choiceVars, config, leader, pc, allocations, slice, target, calls, timed_out>>

-----------------------------------------------------------------------------
Next ==
  \/ \E n \in Node, term \in Term : Win(n, term)
  \/ \E n, c \in Node : Follow(n, c)
  \/ \E n \in Node :
       \/ LoadConfig(n)
       \/ StepDown(n)
       \/ JoinReturns(n)
       \/ PartitionFails(n)
       \/ SendPartitioning(n)
       \/ SkipPartitioning(n)
       \/ FinishSending(n)
       \/ TakeSlice(n)
       \/ TakeNothing(n)
  \/ \E n, p \in Node :
       \/ HandlePartitioning(n, p)
       \/ CallReturns(n, p)
       \/ CallTimesOut(n, p)

Spec == Init /\ [][Next]_vars

\* Threads and handlers run; every node gets a topology.
Fairness ==
  /\ \A n \in Node :
       /\ WF_vars(\E c \in Node : Follow(n, c))
       /\ WF_vars(JoinReturns(n))
       /\ WF_vars(FinishSending(n))
       /\ WF_vars(TakeSlice(n))
  /\ \A n, p \in Node :
       /\ WF_vars(HandlePartitioning(n, p))
       /\ WF_vars(CallReturns(n, p))

FairSpec == Spec /\ Fairness
=============================================================================

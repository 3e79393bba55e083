------------------------ MODULE FormationProperties ------------------------
(***************************************************************************)
(* What the formation of the pipeline promises.                            *)
(***************************************************************************)
EXTENDS PipelineFormation

Slice == [start : 0 .. Layers, end : 0 .. Layers]

\* The type invariant; only a node that has layers is ready.
TypeOK ==
  /\ elected \in [Node -> Term \cup {0}]
  /\ adopted \in [Node -> Node \cup {None}]
  /\ config \in [Node -> File]
  /\ leader \in [Node -> BOOLEAN]
  /\ pc \in [Node -> {"loading", "refused", "electing", "partitioning", "sending", "taking",
                      "waiting", "ready", "failed"}]
  /\ DOMAIN allocations = Node
  /\ \A n \in Node : allocations[n] \in Cuts(n) \cup {None}
  /\ partition_config \in [Node -> Slice \cup {None}]
  /\ slice \in [Node -> Slice \cup {None}]
  /\ target \in [Node -> Node \cup {None}]
  /\ requests \subseteq Node \X Node
  /\ calls \subseteq Node \X Node
  /\ timed_out \subseteq Node \X Node
  /\ \A n \in Node : pc[n] = "ready" <=> slice[n] # None

Ready(n) == pc[n] = "ready"

\* Nodes may win more than one term between them; what follows is about
\* clusters in which only one node has.
OneWinner ==
  \A m, n \in Node : elected[m] > 0 /\ elected[n] > 0 => m = n

\* The file gives both endpoints of a node the same place.  Nothing checks it.
Paired(file) ==
  \A k \in 1 .. Len(file.election_nodes) : file.election_nodes[k] = file.cluster_nodes[k]

-----------------------------------------------------------------------------
\* Activations go where the next layers are: the node a runner sends to serves the
\* layers that follow its own; the head's start at the first layer, and a node
\* without a next stage has the last.  So no layer is left out or trained twice,
\* although the files may list the nodes in different orders.
SlicesMeet ==
  OneWinner => \A n \in Node : Ready(n) =>
    /\ \A m \in Node : target[n] = m /\ Ready(m) /\ Paired(config[n]) =>
         slice[n].end = slice[m].start
    /\ elected[n] > 0 => slice[n].start = 0
    /\ target[n] = None => slice[n].end = Layers

\* All or nothing: when a file is refused, or the head has failed by its assertion
\* or for want of a partition_config, no node has become ready.
FailureStartsNobody ==
  OneWinner /\ (\E n \in Node : pc[n] \in {"failed", "refused"}) => \A n \in Node : ~Ready(n)

\* The head does not start before its workers have their layers, unless it gave
\* up on one of them.
ReadyMeansDelivered ==
  OneWinner /\ timed_out = {} => \A c \in Node :
    elected[c] > 0 /\ Ready(c) => \A p \in Node : partition_config[p] # None

\* Once the only winner has sent the slices and none is lost, every node gets
\* ready, also one whose slice arrives before its election is over.
SentEndsReady ==
  (\E n \in Node : pc[n] = "sending") ~>
    \/ \A n \in Node : Ready(n)
    \/ ~OneWinner
    \/ timed_out # {}

-----------------------------------------------------------------------------
(* The inductive invariant.                                                *)

\* c's cut has been made, and s is p's slice of it.
Allocated(c, p, s) == allocations[c] # None /\ s = SliceOf(c, p, allocations[c])

\* Nobody wins before all files are accepted; a node that has left its election
\* follows a winner, and only a winner makes a cut, in the order of its own list.
ChoiceInv ==
  /\ (\E n \in Node : elected[n] > 0) => \A n \in Node : pc[n] \notin {"loading", "refused"}
  /\ \A n \in Node :
       /\ pc[n] \notin {"loading", "refused"} => validate_cluster_config(config[n], n)
       /\ adopted[n] # None => elected[adopted[n]] > 0
       /\ elected[n] > 0 => adopted[n] = n
       /\ pc[n] \notin {"loading", "refused", "electing"} => adopted[n] # None
       /\ pc[n] \in {"partitioning", "sending", "taking", "failed"} => elected[n] > 0
       /\ pc[n] \notin {"sending", "taking", "ready"} => allocations[n] = None
       /\ allocations[n] # None => elected[n] > 0

\* Every slice under way comes from a cut, and every cut is delivered in the end.
DeliveryInv ==
  /\ \A n, p \in Node : <<n, p>> \in requests => allocations[n] # None
  /\ \A p \in Node :
       /\ partition_config[p] # None => \E c \in Node : Allocated(c, p, partition_config[p])
       /\ slice[p] # None => \E c \in Node : Allocated(c, p, slice[p])
       /\ slice[p] # None => target[p] = NextStage(p)
  /\ \A n \in Node : allocations[n] # None =>
       /\ partition_config[n] # None
       /\ \A p \in Peers(n) :
            \/ partition_config[p] # None
            \/ <<n, p>> \in timed_out
            \/ <<n, p>> \in calls \cap requests /\ pc[n] = "sending"

\* The conjunction that every step preserves.
IInv == TypeOK /\ ChoiceInv /\ DeliveryInv
=============================================================================

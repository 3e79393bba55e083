------------------------- MODULE ElectionProperties -------------------------
(***************************************************************************)
(* What the orchestrator of ClusterElection promises.                      *)
(***************************************************************************)
EXTENDS ClusterElection

CallState == {"none", "open", "granted", "denied", "counted"}

\* The type invariant.
TypeOK ==
  /\ state \in [Node -> NodeState]
  /\ current_term \in [Node -> Nat]
  /\ voted_for \in [Node -> Node \cup {None}]
  /\ votes_received \in [Node -> Nat]
  /\ topology_config \in [Node -> Node \cup {None}]
  /\ topology_term \in [Node -> Nat]
  /\ peer_capacities \in [Node -> SUBSET Node]
  /\ pc \in [Node -> {"offline", "pinging", "waiting", "campaign", "collect",
                      "broadcast", "drain", "joined"}]
  /\ pending \in [Node -> SUBSET Node]
  /\ proposed_term \in [Node -> Nat]
  /\ vote_call \in [Node -> [Node -> CallState]]
  /\ topology_call \in [Node -> [Node -> {"none", "ready", "open", "done"}]]
  /\ vote_requests \subseteq VoteRequest
  /\ vote_replies \subseteq VoteResponse
  /\ topology_requests \subseteq TopologyConfig
  /\ topology_replies \subseteq TopologyResponse

-----------------------------------------------------------------------------
\* A node that won its election heads its own topology.
Head(n) == topology_config[n] = n

\* Two nodes never win the same term: late replies, step-downs, retried rounds
\* and abandoned candidacies never let a vote count twice in one term.
ElectionSafety ==
  \A m, n \in Node :
    Head(m) /\ Head(n) /\ topology_term[m] = topology_term[n] => m = n

\* Whoever a node follows heads its own topology: no node is ever sent into a
\* pipeline whose head does not know that it is the head.
HeadExists ==
  \A n \in Node : topology_config[n] # None => Head(topology_config[n])

\* The memory that a head knows of is that of its own followers: a peer whose capacity
\* a node has stored has adopted the topology of that node, and no other.  Who gets
\* layers is another matter: the partition assumes a default for a peer that has not
\* reported, and slices are sent to every peer.
CapacityFromFollowers ==
  \A n \in Node : \A p \in peer_capacities[n] : topology_config[p] = n

\* The ping barrier: nobody campaigns before every server is listening.
NoCampaignBeforeBarrier ==
  (\E n \in Node : current_term[n] > 0) => \A n \in Node : Online(n)

\* No thread of a node that has adopted a topology can make it run again: from
\* then on it is never CANDIDATE, whichever reply or handler comes late.
AdoptedNeverCampaigns ==
  \A n \in Node : topology_config[n] # None => state[n] # "CANDIDATE"

\* A topology, once adopted, is never replaced, neither by a rival's broadcast
\* nor by an election that the node wins afterwards.
TopologyKept ==
  \A n \in Node : topology_config[n] # None =>
    topology_config'[n] = topology_config[n] /\ topology_term'[n] = topology_term[n]

TopologyFinal == [][TopologyKept]_vars

\* Terms never go back, and within a term a vote is never given to another
\* candidate, whichever of the three writers of voted_for runs.
VoteKept ==
  \A n \in Node :
    /\ current_term'[n] >= current_term[n]
    /\ current_term'[n] = current_term[n] /\ voted_for[n] # None =>
         voted_for'[n] = voted_for[n]

VoteFinal == [][VoteKept]_vars

\* The executor's block in broadcast_topology waits for every acknowledgement: when
\* the winner leaves it, every peer has a topology, and the capacities the winner
\* has are those of exactly the peers that follow it, unless a call was lost.
HeadKnowsFollowers ==
  \A w \in Node : Head(w) /\ pc[w] # "broadcast" => \A p \in Peers(w) :
    /\ topology_config[p] # None
    /\ p \in peer_capacities[w] <=> topology_config[p] = w

-----------------------------------------------------------------------------
(* The orchestrator implements the abstract choice of topologies.          *)

\* The term a node has won, the refinement mapping of elected.
ElectedTerm == [n \in Node |-> IF Head(n) THEN topology_term[n] ELSE 0]

Choice == INSTANCE TopologyChoice
            WITH Term <- 1..MaxTerm, elected <- ElectedTerm, adopted <- topology_config

\* Whatever the messages do, what a user of join_cluster sees is winners of
\* distinct terms and nodes that follow one of them for ever.
ImplementsChoice == Choice!ChoiceSpec

-----------------------------------------------------------------------------
(* The inductive invariant behind the properties above.                    *)

\* Node v's vote for candidate i in the term i is campaigning for: its own, one
\* that is on its way back, or one that i has received.
HasVote(v, i) ==
  /\ proposed_term[i] > 0
  /\ \/ v = i
     \/ vote_call[i][v] \in {"granted", "counted"}
     \/ \E r \in vote_replies : r.to = i /\ r.from = v /\ r.vote_granted

\* The votes a candidate has counted, its own included.
Voters(i) == {v \in Node : v = i \/ vote_call[i][v] = "counted"}

\* The barrier: whoever is past it has seen every server listening, and no term
\* above 0 and no request exists before somebody is past it.
BarrierInv ==
  /\ \A n \in Node : pc[n] = "offline" => pending[n] = Peers(n)
  /\ \A n, p \in Node : pc[n] # "offline" /\ p # n /\ p \notin pending[n] => Online(p)
  /\ \A n \in Node : pc[n] \notin {"offline", "pinging"} => \A p \in Node : Online(p)
  /\ (\E n \in Node : current_term[n] > 0) => \A p \in Node : Online(p)
  /\ vote_requests # {} \/ vote_replies # {} => \A p \in Node : Online(p)

\* Votes are asked for and answered in rounds: a reply has an open call, calls
\* are open only until the executor's block is left, a round has a term.
RoundInv ==
  /\ \A r \in vote_replies : r.from # r.to /\ vote_call[r.to][r.from] = "open"
  /\ \A q \in vote_requests : q.from # q.to
  /\ \A i \in Node : vote_call[i][i] = "none"
  /\ \A i, p \in Node :
       /\ vote_call[i][p] = "open" => pc[i] \in {"collect", "broadcast", "drain"}
       /\ vote_call[i][p] # "none" => proposed_term[i] > 0
       /\ pc[i] = "campaign" => vote_call[i][p] = "none" /\ proposed_term[i] > 0
  /\ \A i \in Node : proposed_term[i] <= current_term[i] /\ proposed_term[i] <= MaxTerm

\* A vote binds its voter until the voter moves to a later term.
VoteInv ==
  \A v, i \in Node : HasVote(v, i) =>
    /\ current_term[v] >= proposed_term[i]
    /\ current_term[v] = proposed_term[i] => voted_for[v] = i

\* Hence no two candidates of a term have a vote of the same node.
OneVotePerTerm ==
  \A v, i, j \in Node :
    HasVote(v, i) /\ HasVote(v, j) /\ proposed_term[i] = proposed_term[j] => i = j

\* votes_received counts voters, and a head has a majority of them.
CountInv ==
  \A i \in Node :
    /\ proposed_term[i] > 0 => votes_received[i] = Cardinality(Voters(i))
    /\ Head(i) => /\ proposed_term[i] > 0
                  /\ topology_term[i] = proposed_term[i]
                  /\ Majority(Cardinality(Voters(i)))

\* Only heads hold state LEADER or send a topology, and only nodes that took it
\* acknowledge it.
BroadcastInv ==
  /\ \A n \in Node : state[n] = "LEADER" => Head(n)
  /\ \A n, p \in Node : topology_call[n][p] \in {"ready", "open"} => Head(n) /\ p # n
  /\ \A q \in topology_requests : Head(q.from) /\ q.from # q.to
  /\ \A r \in topology_replies : r.ok => topology_config[r.from] = r.to

\* The conjunction that every step preserves.
IInv ==
  /\ TypeOK
  /\ RoundInv
  /\ VoteInv
  /\ OneVotePerTerm
  /\ CountInv
  /\ AdoptedNeverCampaigns
  /\ BroadcastInv
  /\ HeadExists
  /\ CapacityFromFollowers

-----------------------------------------------------------------------------
(* When no topology call is lost.                                          *)

ReliableSpec == Init /\ [][Progress]_vars

\* The requests and the answers between w and its peer p.
Asked(w, p)   == {q \in topology_requests : q.from = w /\ q.to = p}
Answers(w, p) == {r \in topology_replies : r.from = p /\ r.to = w}

\* Where the only topology call from w to p is, from the victory of w on: about
\* to be made, on its way, answered, or over.
ToldPhase(w, p) ==
  \/ /\ topology_call[w][p] = "ready"
     /\ pc[w] = "broadcast" /\ topology_config[p] # w
     /\ Asked(w, p) = {} /\ Answers(w, p) = {}
  \/ /\ topology_call[w][p] = "open"
     /\ pc[w] = "broadcast" /\ topology_config[p] # w
     /\ (\E q \in topology_requests : Asked(w, p) = {q}) /\ Answers(w, p) = {}
  \/ /\ topology_call[w][p] = "open"
     /\ pc[w] = "broadcast" /\ topology_config[p] # None
     /\ Asked(w, p) = {}
     /\ Answers(w, p) = {[from |-> p, to |-> w, ok |-> (topology_config[p] = w)]}
  \/ /\ topology_call[w][p] = "done"
     /\ topology_config[p] # None
     /\ topology_config[p] = w => p \in peer_capacities[w]
     /\ Asked(w, p) = {} /\ Answers(w, p) = {}

\* Preserved by every step of Progress, together with IInv.
ToldInv ==
  \A w \in Node : \A p \in Peers(w) :
    IF Head(w) THEN ToldPhase(w, p) ELSE Asked(w, p) = {} /\ Answers(w, p) = {}

-----------------------------------------------------------------------------
(* Liveness.                                                               *)

Fairness ==
  /\ \A n \in Node :
       /\ WF_vars(ServeCluster(n))
       /\ WF_vars(AbandonCampaign(n))
       /\ WF_vars(RequestVotes(n))
       /\ WF_vars(FinishRound(n))
       /\ WF_vars(Return(n))
       /\ WF_vars(FinishBroadcast(n))
       /\ WF_vars(BroadcastTopology(n))
  /\ \A n, p \in Node :
       /\ WF_vars(PingPeer(n, p))
       /\ WF_vars(ReceiveVote(n, p) \/ VoteCallFails(n, p))
       /\ WF_vars(CountVote(n, p) \/ IgnoreStaleVote(n, p))
       /\ WF_vars(SendTopology(n, p))
       /\ WF_vars(ReceiveAck(n, p))

FairSpec == ReliableSpec /\ Fairness

\* Once some node has won, every node returns from join_cluster.
WinnerMeansAllJoin ==
  (\E n \in Node : Head(n)) ~> (\A n \in Node : pc[n] = "joined")

-----------------------------------------------------------------------------
(* What a docstring and a test of the repository say, and the code does not *)
(* guarantee.                                                              *)

\* node.py:66: join_cluster blocks until the cluster agrees on a single
\* coordinator.
SingleCoordinator ==
  \A m, n \in Node : pc[m] = "joined" /\ pc[n] = "joined" =>
    topology_config[m] = topology_config[n]

\* tests/test_integration.py:193: the coordinator agreed on by all nodes is the
\* node that holds state LEADER.
CoordinatorIsLeader ==
  (\A n \in Node : pc[n] = "joined") => \A c \in Node :
    (\A n \in Node : topology_config[n] = c) => state[c] = "LEADER"
=============================================================================

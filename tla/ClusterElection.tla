--------------------------- MODULE ClusterElection ---------------------------
(***************************************************************************)
(* The orchestrator of GradSync: ClusterNode.join_cluster with its ping    *)
(* barrier, its vote-request threads and its topology broadcast            *)
(* (orchestrator/node.py), the gRPC handlers that mutate the same node     *)
(* under _election_cv (orchestrator/server.py) and the client's timeouts   *)
(* (orchestrator/client.py).                                               *)
(*                                                                         *)
(* Every critical section of _election_cv is one step.  Between two of     *)
(* them any thread of any node may run: the main thread of join_cluster,   *)
(* one send_request_vote or send_topology thread per peer, and the server  *)
(* handlers.  A call whose deadline passes is over for its caller, while   *)
(* its request may still be handled later, or never.                       *)
(*                                                                         *)
(* A topology is fully determined by its coordinator (the coordinator      *)
(* first, its peers in configuration order), so topology_config[n] holds   *)
(* the coordinator and topology_term[n] the term field; coordinator_ip is  *)
(* always assigned together with it and to the same node.                  *)
(***************************************************************************)
EXTENDS Naturals, FiniteSets

CONSTANTS
  Node,       \* the election endpoints of cluster.json
  None,       \* Python's None
  MaxTerm     \* bound on the terms a node may campaign in

ASSUME NodeAssumption == IsFiniteSet(Node) /\ Node # {}
ASSUME NoneAssumption == None \notin Node
ASSUME MaxTermAssumption == MaxTerm \in Nat

VARIABLES
  \* Fields of ClusterNode, guarded by _election_cv
  state,            \* FOLLOWER, CANDIDATE or LEADER
  current_term,
  voted_for,
  votes_received,
  topology_config,  \* coordinator of the adopted topology, or None
  topology_term,    \* its term field, 0 while there is none
  peer_capacities,  \* the peers whose memory capacity is known
  \* The main thread of each node: where it is in join_cluster, and its locals
  pc,
  pending,          \* wait_for_peers: peers not yet seen online
  proposed_term,
  vote_call,        \* one send_request_vote future per peer
  topology_call,    \* one send_topology future per peer
  \* Requests not yet handled and replies not yet received
  vote_requests,
  vote_replies,
  topology_requests,
  topology_replies

nodeVars     == <<state, current_term, voted_for, votes_received>>
topologyVars == <<topology_config, topology_term>>
voteMsgs     == <<vote_requests, vote_replies>>
topologyMsgs == <<topology_requests, topology_replies>>
vars == <<nodeVars, topologyVars, peer_capacities, pc, pending, proposed_term,
          vote_call, topology_call, voteMsgs, topologyMsgs>>

NodeState == {"FOLLOWER", "CANDIDATE", "LEADER"}
Peers(n)  == Node \ {n}
Online(n) == pc[n] # "offline"

VoteRequest  == [from : Node, to : Node, term : Nat]
VoteResponse == [from : Node, to : Node, term : Nat, vote_granted : BOOLEAN]
TopologyConfig   == [from : Node, to : Node, term : Nat]
TopologyResponse == [from : Node, to : Node, ok : BOOLEAN]

\* Strictly more than half of the cluster: votes > total_nodes // 2.
Majority(votes) == votes > Cardinality(Node) \div 2

Init ==
  /\ state = [n \in Node |-> "FOLLOWER"]
  /\ current_term = [n \in Node |-> 0]
  /\ voted_for = [n \in Node |-> None]
  /\ votes_received = [n \in Node |-> 0]
  /\ topology_config = [n \in Node |-> None]
  /\ topology_term = [n \in Node |-> 0]
  /\ peer_capacities = [n \in Node |-> {}]
  /\ pc = [n \in Node |-> "offline"]
  /\ pending = [n \in Node |-> Peers(n)]
  /\ proposed_term = [n \in Node |-> 0]
  /\ vote_call = [n \in Node |-> [p \in Node |-> "none"]]
  /\ topology_call = [n \in Node |-> [p \in Node |-> "none"]]
  /\ vote_requests = {} /\ vote_replies = {}
  /\ topology_requests = {} /\ topology_replies = {}

-----------------------------------------------------------------------------
(* The main thread up to the election loop.                                *)

GoTo(n, label) == pc' = [pc EXCEPT ![n] = label]

\* _serve_cluster: the server listens from here on.  A node without peers
\* skips the ping barrier.
ServeCluster(n) ==
  /\ pc[n] = "offline"
  /\ GoTo(n, IF Peers(n) = {} THEN "waiting" ELSE "pinging")
  /\ UNCHANGED <<nodeVars, topologyVars, peer_capacities, pending,
                 proposed_term, vote_call, topology_call, voteMsgs, topologyMsgs>>

\* Mutant: the barrier opens on the first successful ping.
BarrierOpensEarly(n, p) == TRUE

BarrierOpens(n, p) == pending[n] = {p}

\* One successful ping of wait_for_peers; the barrier opens on the last one.
\* A failed ping leaves the peer pending and changes nothing.
PingPeer(n, p) ==
  /\ pc[n] = "pinging"
  /\ p \in pending[n]
  /\ Online(p)
  /\ pending' = [pending EXCEPT ![n] = @ \ {p}]
  /\ GoTo(n, IF BarrierOpens(n, p) THEN "waiting" ELSE "pinging")
  /\ UNCHANGED <<nodeVars, topologyVars, peer_capacities,
                 proposed_term, vote_call, topology_call, voteMsgs, topologyMsgs>>

-----------------------------------------------------------------------------
(* The election loop.  "waiting" stands for the loop test and the timed    *)
(* wait on _election_cv: a notification only shortens the wait, so being   *)
(* notified and going round the loop again changes nothing here.           *)

\* Mutant: LEADER first, the topology only later, outside the lock.
BecomeLeaderBare(n, term) ==
  /\ state' = [state EXCEPT ![n] = "LEADER"]
  /\ UNCHANGED topologyVars
  /\ topology_call' = [topology_call EXCEPT ![n] =
                         [p \in Node |-> IF p = n THEN "none" ELSE "ready"]]
  /\ GoTo(n, "broadcast")

\* The winner publishes its own topology under the same lock.
BecomeLeader(n, term) ==
  /\ state' = [state EXCEPT ![n] = "LEADER"]
  /\ topology_config' = [topology_config EXCEPT ![n] = n]
  /\ topology_term' = [topology_term EXCEPT ![n] = term]
  /\ topology_call' = [topology_call EXCEPT ![n] =
                         [p \in Node |-> IF p = n THEN "none" ELSE "ready"]]
  /\ GoTo(n, "broadcast")

\* The timeout fires with no topology: become CANDIDATE of the next term and
\* vote for oneself.  In a cluster of one that vote is already a majority.
ElectionTimeout(n) ==
  /\ pc[n] = "waiting"
  /\ topology_config[n] = None
  /\ state[n] # "LEADER"
  /\ current_term[n] < MaxTerm
  /\ current_term' = [current_term EXCEPT ![n] = @ + 1]
  /\ proposed_term' = [proposed_term EXCEPT ![n] = current_term[n] + 1]
  /\ votes_received' = [votes_received EXCEPT ![n] = 1]
  /\ voted_for' = [voted_for EXCEPT ![n] = n]
  /\ vote_call' = [vote_call EXCEPT ![n] = [p \in Node |-> "none"]]
  /\ IF Majority(1)
     THEN BecomeLeader(n, current_term[n] + 1)
     ELSE /\ state' = [state EXCEPT ![n] = "CANDIDATE"]
          /\ GoTo(n, "campaign")
          /\ UNCHANGED <<topologyVars, topology_call>>
  /\ UNCHANGED <<peer_capacities, pending, voteMsgs, topologyMsgs>>

\* After the lock is released, state is read once more without it: a node
\* that a handler has meanwhile turned into a FOLLOWER gives the round up.
AbandonCampaign(n) ==
  /\ pc[n] = "campaign"
  /\ state[n] # "CANDIDATE"
  /\ GoTo(n, "waiting")
  /\ UNCHANGED <<nodeVars, topologyVars, peer_capacities, pending,
                 proposed_term, vote_call, topology_call, voteMsgs, topologyMsgs>>

\* One send_request_vote thread per peer, all for the term proposed above.
RequestVotes(n) ==
  /\ pc[n] = "campaign"
  /\ state[n] = "CANDIDATE"
  /\ vote_call' = [vote_call EXCEPT ![n] =
                     [p \in Node |-> IF p = n THEN "none" ELSE "open"]]
  /\ vote_requests' = vote_requests \cup
       {[from |-> n, to |-> p, term |-> proposed_term[n]] : p \in Peers(n)}
  /\ GoTo(n, "collect")
  /\ UNCHANGED <<nodeVars, topologyVars, peer_capacities, pending,
                 proposed_term, topology_call, vote_replies, topologyMsgs>>

\* Mutant: a reply of the same term also steps the node down.
StepsDownAtLeast(n, r) == r.term >= current_term[n]

StepsDown(n, r) == r.term > current_term[n]

\* The reply reaches its send_request_vote thread, which steps the node down
\* when the voter's term is higher, whatever the node has become meanwhile.
ReceiveVote(n, p) ==
  \E r \in vote_replies :
    /\ r.to = n /\ r.from = p
    /\ vote_call[n][p] = "open"
    /\ vote_call' = [vote_call EXCEPT ![n][p] =
                       IF r.vote_granted THEN "granted" ELSE "denied"]
    /\ vote_replies' = {m \in vote_replies : ~(m.to = n /\ m.from = p)}
    /\ IF StepsDown(n, r)
       THEN /\ current_term' = [current_term EXCEPT ![n] = r.term]
            /\ state' = [state EXCEPT ![n] = "FOLLOWER"]
            /\ voted_for' = [voted_for EXCEPT ![n] = None]
       ELSE UNCHANGED <<current_term, state, voted_for>>
    /\ UNCHANGED <<votes_received, topologyVars, peer_capacities, pc, pending,
                   proposed_term, topology_call, vote_requests, topologyMsgs>>

\* The 200 ms deadline passes, or the peer cannot be reached: (False, 0).
VoteCallFails(n, p) ==
  /\ vote_call[n][p] = "open"
  /\ vote_call' = [vote_call EXCEPT ![n][p] = "denied"]
  /\ vote_replies' = {m \in vote_replies : ~(m.to = n /\ m.from = p)}
  /\ UNCHANGED <<nodeVars, topologyVars, peer_capacities, pc, pending,
                 proposed_term, topology_call, vote_requests, topologyMsgs>>

\* Mutant: only the term is compared before a vote counts.
CountsInAnyState(n) == current_term[n] = proposed_term[n]

Counts(n) == state[n] = "CANDIDATE" /\ current_term[n] = proposed_term[n]

\* as_completed yields a granted vote.  It counts only while the node is still
\* CANDIDATE of the term it was asked for; otherwise the loop is left.
CountVote(n, p) ==
  /\ pc[n] = "collect"
  /\ vote_call[n][p] = "granted"
  /\ Counts(n)
  /\ vote_call' = [vote_call EXCEPT ![n][p] = "counted"]
  /\ votes_received' = [votes_received EXCEPT ![n] = @ + 1]
  /\ IF Majority(votes_received[n] + 1)
     THEN BecomeLeader(n, current_term[n])
     ELSE UNCHANGED <<state, topologyVars, topology_call, pc>>
  /\ UNCHANGED <<current_term, voted_for, peer_capacities, pending,
                 proposed_term, voteMsgs, topologyMsgs>>

IgnoreStaleVote(n, p) ==
  /\ pc[n] = "collect"
  /\ vote_call[n][p] = "granted"
  /\ ~Counts(n)
  /\ GoTo(n, "drain")
  /\ UNCHANGED <<nodeVars, topologyVars, peer_capacities, pending,
                 proposed_term, vote_call, topology_call, voteMsgs, topologyMsgs>>

\* Leaving the executor's block waits for every thread still running; the next
\* iteration of the loop then tests topology_config.
FinishRound(n) ==
  /\ \/ pc[n] = "drain"
     \/ pc[n] = "collect" /\ \A p \in Node : vote_call[n][p] # "granted"
  /\ \A p \in Node : vote_call[n][p] # "open"
  /\ GoTo(n, "waiting")
  /\ UNCHANGED <<nodeVars, topologyVars, peer_capacities, pending,
                 proposed_term, vote_call, topology_call, voteMsgs, topologyMsgs>>

\* The loop ends, and join_cluster returns, once there is a topology.
Return(n) ==
  /\ pc[n] = "waiting"
  /\ topology_config[n] # None
  /\ GoTo(n, "joined")
  /\ UNCHANGED <<nodeVars, topologyVars, peer_capacities, pending,
                 proposed_term, vote_call, topology_call, voteMsgs, topologyMsgs>>

-----------------------------------------------------------------------------
(* broadcast_topology, run by the new leader outside the lock.             *)

\* Mutant: only the nodes that gave their vote are told.
UntoldVoter(n, p) == topology_call[n][p] = "ready" /\ vote_call[n][p] = "counted"

Untold(n, p) == topology_call[n][p] = "ready"

\* Mutant: the topology is built without its term.
NoTerm(n) == None

\* current_term is read without the lock, anew for each peer.
ReadTerm(n) == current_term[n]

SendTopology(n, p) ==
  /\ pc[n] = "broadcast"
  /\ Untold(n, p)
  /\ topology_call' = [topology_call EXCEPT ![n][p] = "open"]
  /\ topology_requests' = topology_requests \cup
       {[from |-> n, to |-> p, term |-> ReadTerm(n)]}
  /\ UNCHANGED <<nodeVars, topologyVars, peer_capacities, pc, pending,
                 proposed_term, vote_call, voteMsgs, topology_replies>>

\* Mutant: the capacity in a refusal is kept as well.
BringsAlways(r) == TRUE

\* An acknowledgement brings the peer's capacity; a refusal is only logged.
Brings(r) == r.ok

ReceiveAck(n, p) ==
  \E r \in topology_replies :
    /\ r.to = n /\ r.from = p
    /\ topology_call[n][p] = "open"
    /\ topology_call' = [topology_call EXCEPT ![n][p] = "done"]
    /\ topology_replies' = {m \in topology_replies : ~(m.to = n /\ m.from = p)}
    /\ peer_capacities' = [peer_capacities EXCEPT ![n] =
                             IF Brings(r) THEN @ \cup {p} ELSE @]
    /\ UNCHANGED <<nodeVars, topologyVars, pc, pending, proposed_term,
                   vote_call, voteMsgs, topology_requests>>

\* The 10 s deadline passes, or the peer cannot be reached: (False, 0).  There
\* is no retry.
TopologyCallFails(n, p) ==
  /\ topology_call[n][p] = "open"
  /\ topology_call' = [topology_call EXCEPT ![n][p] = "done"]
  /\ topology_replies' = {m \in topology_replies : ~(m.to = n /\ m.from = p)}
  /\ UNCHANGED <<nodeVars, topologyVars, peer_capacities, pc, pending,
                 proposed_term, vote_call, voteMsgs, topology_requests>>

\* Mutant: the executor is shut down without waiting.
FinishBroadcastAtOnce(n) ==
  /\ pc[n] = "broadcast"
  /\ \A p \in Peers(n) : topology_call[n][p] # "ready"
  /\ GoTo(n, "drain")
  /\ UNCHANGED <<nodeVars, topologyVars, peer_capacities, pending,
                 proposed_term, vote_call, topology_call, voteMsgs, topologyMsgs>>

\* Every future is done; the leader falls back to the vote executor, whose
\* remaining threads it still has to wait for.
FinishBroadcast(n) ==
  /\ pc[n] = "broadcast"
  /\ \A p \in Peers(n) : topology_call[n][p] = "done"
  /\ GoTo(n, "drain")
  /\ UNCHANGED <<nodeVars, topologyVars, peer_capacities, pending,
                 proposed_term, vote_call, topology_call, voteMsgs, topologyMsgs>>

-----------------------------------------------------------------------------
(* The gRPC handlers of ClusterServer.                                     *)

\* The caller still waits for the reply to this request.
VoteCallOpen(req) ==
  vote_call[req.from][req.to] = "open" /\ proposed_term[req.from] = req.term

ReplyVote(req, term, granted) ==
  /\ vote_requests' = vote_requests \ {req}
  /\ vote_replies' = IF VoteCallOpen(req)
       THEN vote_replies \cup {[from |-> req.to, to |-> req.from,
                                term |-> term, vote_granted |-> granted]}
       ELSE vote_replies

\* Once a topology is adopted the election is over for this node.
RejectVoteFinalized(n) ==
  \E req \in vote_requests :
    /\ req.to = n /\ Online(n)
    /\ topology_config[n] # None
    /\ ReplyVote(req, current_term[n], FALSE)
    /\ UNCHANGED <<nodeVars, topologyVars, peer_capacities, pc, pending,
                   proposed_term, vote_call, topology_call, topologyMsgs>>

\* Mutant: rule 2 does not look at voted_for.
MayVoteTwice(vote, from) == TRUE

MayVote(vote, from) == vote \in {None, from}

\* Rule 1, step down to a higher term, then rule 2, one vote per term.
RequestVote(n) ==
  \E req \in vote_requests :
    LET higher  == req.term > current_term[n]
        term    == IF higher THEN req.term ELSE current_term[n]
        vote    == IF higher THEN None ELSE voted_for[n]
        granted == req.term = term /\ MayVote(vote, req.from)
    IN
    /\ req.to = n /\ Online(n)
    /\ topology_config[n] = None
    /\ current_term' = [current_term EXCEPT ![n] = term]
    /\ voted_for' = [voted_for EXCEPT ![n] = IF granted THEN req.from ELSE vote]
    /\ state' = [state EXCEPT ![n] =
                   IF higher \/ granted THEN "FOLLOWER" ELSE @]
    /\ ReplyVote(req, term, granted)
    /\ UNCHANGED <<votes_received, topologyVars, peer_capacities, pc, pending,
                   proposed_term, vote_call, topology_call, topologyMsgs>>

\* The handler's effect, given whether it takes the topology it was sent and
\* the state it leaves the node in.
AcceptTopology(n, req, accepted, newState) ==
  /\ req.to = n /\ Online(n)
  /\ topology_requests' = topology_requests \ {req}
  /\ topology_replies' = IF topology_call[req.from][n] = "open"
       THEN topology_replies \cup {[from |-> n, to |-> req.from, ok |-> accepted]}
       ELSE topology_replies
  /\ peer_capacities' = [peer_capacities EXCEPT ![n] =
                           IF state[n] = "LEADER" THEN @ \cup {n} ELSE @]
  /\ IF accepted
     THEN /\ topology_config' = [topology_config EXCEPT ![n] = req.from]
          /\ topology_term' = [topology_term EXCEPT ![n] = req.term]
          /\ state' = [state EXCEPT ![n] = newState]
     ELSE UNCHANGED <<topologyVars, state>>
  /\ UNCHANGED <<current_term, voted_for, votes_received, pc, pending,
                 proposed_term, vote_call, topology_call, voteMsgs>>

\* Mutants: a topology of a newer term replaces the adopted one; a candidate
\* that takes a topology stays candidate.
BroadcastTopologyNewerWins(n) ==
  \E req \in topology_requests :
    AcceptTopology(n, req, topology_config[n] = None \/ req.term > topology_term[n],
                   "FOLLOWER")
BroadcastTopologyKeepsState(n) ==
  \E req \in topology_requests :
    AcceptTopology(n, req, topology_config[n] = None, state[n])

\* The first topology wins, whatever its term.  A later one is refused: with an
\* older term explicitly, otherwise by a handler that returns nothing, which
\* its caller sees as a failed call.
BroadcastTopology(n) ==
  \E req \in topology_requests :
    AcceptTopology(n, req, topology_config[n] = None, "FOLLOWER")

-----------------------------------------------------------------------------
\* Everything but the loss of a topology call.
Progress ==
  \/ \E n \in Node :
       \/ ServeCluster(n)
       \/ ElectionTimeout(n)
       \/ AbandonCampaign(n)
       \/ RequestVotes(n)
       \/ FinishRound(n)
       \/ Return(n)
       \/ FinishBroadcast(n)
       \/ RejectVoteFinalized(n)
       \/ RequestVote(n)
       \/ BroadcastTopology(n)
  \/ \E n \in Node, p \in Node :
       \/ PingPeer(n, p)
       \/ ReceiveVote(n, p)
       \/ VoteCallFails(n, p)
       \/ CountVote(n, p)
       \/ IgnoreStaleVote(n, p)
       \/ SendTopology(n, p)
       \/ ReceiveAck(n, p)

Next == Progress \/ \E n \in Node, p \in Node : TopologyCallFails(n, p)

Spec == Init /\ [][Next]_vars
=============================================================================

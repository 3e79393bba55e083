----------------------------- MODULE MCElection -----------------------------
(***************************************************************************)
(* Instances of the election for TLC.                                      *)
(***************************************************************************)
EXTENDS ElectionProperties, TLC

\* The bound on campaigns of the two-term runs: one node only votes.
Voter == CHOOSE n \in Node : TRUE

TwoCandidates == proposed_term[Voter] = 0

\* The bound on messages under way: all vote requests of two candidates at once,
\* or what is left of a round besides a broadcast.
MaxMessages == 4
FewMessages ==
  Cardinality(vote_requests) + Cardinality(vote_replies)
    + Cardinality(topology_requests) + Cardinality(topology_replies) <= MaxMessages

\* Nothing distinguishes the other nodes of cluster.json.
Symmetry == Permutations(Node \ {Voter})

\* Behaviours that start when every node is past the ping barrier.
InitOnline ==
  /\ state = [n \in Node |-> "FOLLOWER"]
  /\ current_term = [n \in Node |-> 0]
  /\ voted_for = [n \in Node |-> None]
  /\ votes_received = [n \in Node |-> 0]
  /\ topology_config = [n \in Node |-> None]
  /\ topology_term = [n \in Node |-> 0]
  /\ peer_capacities = [n \in Node |-> {}]
  /\ pc = [n \in Node |-> "waiting"]
  /\ pending = [n \in Node |-> {}]
  /\ proposed_term = [n \in Node |-> 0]
  /\ vote_call = [n \in Node |-> [p \in Node |-> "none"]]
  /\ topology_call = [n \in Node |-> [p \in Node |-> "none"]]
  /\ vote_requests = {} /\ vote_replies = {}
  /\ topology_requests = {} /\ topology_replies = {}

SpecOnline == InitOnline /\ [][Next]_vars
=============================================================================

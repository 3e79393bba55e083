--------------------------- MODULE ElectionProofs ---------------------------
(***************************************************************************)
(* Proofs of the properties of the orchestrator, for every cluster and     *)
(* every bound on the terms.                                               *)
(*                                                                         *)
(* The argument: a vote binds its voter for the rest of the term (VoteInv),*)
(* so a node never has given two votes of one term (OneVotePerTerm); a     *)
(* candidate counts each vote once (CountInv), and two majorities of the   *)
(* cluster share a voter.  The rest is about what follows a win: heads stay*)
(* heads because no step replaces a topology (TopologyStep), so whatever   *)
(* was sent by a head or adopted from one stays true.                      *)
(***************************************************************************)
EXTENDS ElectionProperties, FiniteSetTheorems, TLAPS

\* Conditions and values that the actions have by name.
USE DEF BarrierOpens, StepsDown, Counts, Untold, ReadTerm, Brings, MayVote

-----------------------------------------------------------------------------
(* Type correctness.                                                       *)

\* The initial state has the right types.
LEMMA TypeInit == Init => TypeOK
  BY DEF Init, TypeOK, NodeState, CallState, Peers

\* Winning leaves every variable it assigns well typed.
LEMMA BecomeLeaderType ==
  ASSUME TypeOK, NEW n \in Node, NEW term \in Nat, BecomeLeader(n, term)
  PROVE  /\ state' \in [Node -> NodeState]
         /\ topology_config' \in [Node -> Node \cup {None}]
         /\ topology_term' \in [Node -> Nat]
         /\ pc' \in [Node -> {"offline", "pinging", "waiting", "campaign", "collect",
                      "broadcast", "drain", "joined"}]
         /\ topology_call' \in [Node -> [Node -> {"none", "ready", "open", "done"}]]
  BY DEF TypeOK, BecomeLeader, GoTo, NodeState

\* Answering a vote request leaves the vote messages well typed.
LEMMA ReplyType ==
  ASSUME TypeOK, NEW req \in vote_requests, NEW term \in Nat,
         NEW granted \in BOOLEAN, ReplyVote(req, term, granted)
  PROVE  /\ vote_requests' \subseteq VoteRequest
         /\ vote_replies' \subseteq VoteResponse
  BY DEF TypeOK, ReplyVote, VoteRequest, VoteResponse

\* Handling a topology, whether it is accepted or not, keeps every type.
LEMMA AcceptType ==
  ASSUME TypeOK, NEW n \in Node, NEW req \in topology_requests,
         NEW accepted \in BOOLEAN, NEW newState \in NodeState,
         AcceptTopology(n, req, accepted, newState)
  PROVE  TypeOK'
<1> USE DEF TypeOK
<1>1. req.from \in Node /\ req.term \in Nat
  BY DEF TopologyConfig
<1>2. /\ topology_requests' \subseteq TopologyConfig
      /\ topology_replies' \subseteq TopologyResponse
  BY <1>1 DEF AcceptTopology, TopologyResponse
<1>3. peer_capacities' \in [Node -> SUBSET Node]
  BY DEF AcceptTopology
<1>4. /\ state' \in [Node -> NodeState]
      /\ topology_config' \in [Node -> Node \cup {None}]
      /\ topology_term' \in [Node -> Nat]
  <2>1. CASE accepted
    <3>1. /\ topology_config' = [topology_config EXCEPT ![n] = req.from]
          /\ topology_term' = [topology_term EXCEPT ![n] = req.term]
          /\ state' = [state EXCEPT ![n] = newState]
      BY <2>1 DEF AcceptTopology
    <3> QED
      BY <1>1, <3>1
  <2>2. CASE ~accepted
    BY <2>2 DEF AcceptTopology, topologyVars
  <2> QED
    BY <2>1, <2>2
<1> QED
  BY <1>2, <1>3, <1>4 DEF AcceptTopology, voteMsgs

\* Every step keeps the types.
LEMMA TypeNext == TypeOK /\ [Next]_vars => TypeOK'
<1> SUFFICES ASSUME TypeOK, [Next]_vars PROVE TypeOK'
  OBVIOUS
<1> USE NodeAssumption, NoneAssumption, MaxTermAssumption
        DEF TypeOK, CallState, NodeState, VoteRequest, VoteResponse, TopologyConfig,
            TopologyResponse, Peers
<1>1. ASSUME NEW n \in Node, ServeCluster(n) PROVE TypeOK'
  BY <1>1 DEF ServeCluster, GoTo, nodeVars, topologyVars, voteMsgs, topologyMsgs
<1>2. ASSUME NEW n \in Node, ElectionTimeout(n) PROVE TypeOK'
  <2>1. UNCHANGED <<peer_capacities, pending, voteMsgs, topologyMsgs>>
        /\ current_term' \in [Node -> Nat] /\ proposed_term' \in [Node -> Nat]
        /\ votes_received' \in [Node -> Nat] /\ voted_for' \in [Node -> Node \cup {None}]
        /\ vote_call' \in [Node -> [Node -> CallState]]
    BY <1>2 DEF ElectionTimeout
  <2>2. CASE Majority(1)
    <3>1. BecomeLeader(n, current_term[n] + 1)
      BY <1>2, <2>2 DEF ElectionTimeout
    <3> QED
      BY <2>1, <3>1, BecomeLeaderType DEF voteMsgs, topologyMsgs
  <2>3. CASE ~Majority(1)
    <3>1. /\ state' = [state EXCEPT ![n] = "CANDIDATE"]
          /\ GoTo(n, "campaign")
          /\ UNCHANGED <<topologyVars, topology_call>>
      BY <1>2, <2>3 DEF ElectionTimeout
    <3> QED
      BY <2>1, <3>1 DEF voteMsgs, topologyMsgs, topologyVars, GoTo
  <2> QED
    BY <2>2, <2>3
<1>3. ASSUME NEW n \in Node, AbandonCampaign(n) PROVE TypeOK'
  BY <1>3 DEF AbandonCampaign, GoTo, nodeVars, topologyVars, voteMsgs, topologyMsgs
<1>4. ASSUME NEW n \in Node, RequestVotes(n) PROVE TypeOK'
  BY <1>4 DEF RequestVotes, GoTo, nodeVars, topologyVars, topologyMsgs
<1>5. ASSUME NEW n \in Node, FinishRound(n) PROVE TypeOK'
  BY <1>5 DEF FinishRound, GoTo, nodeVars, topologyVars, voteMsgs, topologyMsgs
<1>6. ASSUME NEW n \in Node, Return(n) PROVE TypeOK'
  BY <1>6 DEF Return, GoTo, nodeVars, topologyVars, voteMsgs, topologyMsgs
<1>7. ASSUME NEW n \in Node, FinishBroadcast(n) PROVE TypeOK'
  BY <1>7 DEF FinishBroadcast, GoTo, nodeVars, topologyVars, voteMsgs, topologyMsgs
<1>8. ASSUME NEW n \in Node, RejectVoteFinalized(n) PROVE TypeOK'
  <2>1. PICK req \in vote_requests :
          /\ req.to = n
          /\ ReplyVote(req, current_term[n], FALSE)
          /\ UNCHANGED <<nodeVars, topologyVars, peer_capacities, pc, pending,
                   proposed_term, vote_call, topology_call, topologyMsgs>>
    BY <1>8 DEF RejectVoteFinalized
  <2> QED
    BY <2>1, ReplyType DEF nodeVars, topologyVars, topologyMsgs
<1>9. ASSUME NEW n \in Node, RequestVote(n) PROVE TypeOK'
  <2>1. PICK req \in vote_requests :
          LET higher  == req.term > current_term[n]
              term    == IF higher THEN req.term ELSE current_term[n]
              vote    == IF higher THEN None ELSE voted_for[n]
              granted == req.term = term /\ vote \in {None, req.from}
          IN
          /\ req.to = n
          /\ current_term' = [current_term EXCEPT ![n] = term]
          /\ voted_for' = [voted_for EXCEPT ![n] = IF granted THEN req.from ELSE vote]
          /\ state' = [state EXCEPT ![n] =
                         IF higher \/ granted THEN "FOLLOWER" ELSE state[n]]
          /\ ReplyVote(req, term, granted)
          /\ UNCHANGED <<votes_received, topologyVars, peer_capacities, pc, pending,
                   proposed_term, vote_call, topology_call, topologyMsgs>>
    BY <1>9 DEF RequestVote
  <2>2. req.from \in Node /\ req.to \in Node /\ req.term \in Nat
    OBVIOUS
  <2>3. /\ state' \in [Node -> NodeState]
        /\ current_term' \in [Node -> Nat]
        /\ voted_for' \in [Node -> Node \cup {None}]
    BY <2>1, <2>2
  <2>4. /\ vote_requests' \subseteq VoteRequest
        /\ vote_replies' \subseteq VoteResponse
    BY <2>1, <2>2, ReplyType
  <2> QED
    BY <2>1, <2>3, <2>4 DEF topologyVars, topologyMsgs
<1>10. ASSUME NEW n \in Node, BroadcastTopology(n) PROVE TypeOK'
  <2>1. PICK req \in topology_requests :
          AcceptTopology(n, req, topology_config[n] = None, "FOLLOWER")
    BY <1>10 DEF BroadcastTopology
  <2> QED
    BY <2>1, AcceptType
<1>11. ASSUME NEW n \in Node, NEW p \in Node, PingPeer(n, p) PROVE TypeOK'
  BY <1>11 DEF PingPeer, GoTo, nodeVars, topologyVars, voteMsgs, topologyMsgs
<1>12. ASSUME NEW n \in Node, NEW p \in Node, ReceiveVote(n, p) PROVE TypeOK'
  <2>1. PICK r \in vote_replies :
    /\ vote_call' = [vote_call EXCEPT ![n][p] =
                       IF r.vote_granted THEN "granted" ELSE "denied"]
    /\ vote_replies' = {m \in vote_replies : ~(m.to = n /\ m.from = p)}
    /\ IF r.term > current_term[n]
       THEN /\ current_term' = [current_term EXCEPT ![n] = r.term]
            /\ state' = [state EXCEPT ![n] = "FOLLOWER"]
            /\ voted_for' = [voted_for EXCEPT ![n] = None]
       ELSE UNCHANGED <<current_term, state, voted_for>>
    /\ UNCHANGED <<votes_received, topologyVars, peer_capacities, pc, pending,
                   proposed_term, topology_call, vote_requests, topologyMsgs>>
    BY <1>12 DEF ReceiveVote
  <2>2. r.term \in Nat
    OBVIOUS
  <2>3. /\ state' \in [Node -> NodeState]
        /\ current_term' \in [Node -> Nat]
        /\ voted_for' \in [Node -> Node \cup {None}]
    BY <2>1, <2>2
  <2>4. vote_call' \in [Node -> [Node -> CallState]]
    BY <2>1
  <2> QED
    BY <2>1, <2>3, <2>4 DEF topologyVars, topologyMsgs
<1>13. ASSUME NEW n \in Node, NEW p \in Node, VoteCallFails(n, p) PROVE TypeOK'
  BY <1>13 DEF VoteCallFails, nodeVars, topologyVars, topologyMsgs
<1>14. ASSUME NEW n \in Node, NEW p \in Node, CountVote(n, p) PROVE TypeOK'
  <2>1. /\ vote_call' \in [Node -> [Node -> CallState]]
        /\ votes_received' \in [Node -> Nat]
        /\ UNCHANGED <<current_term, voted_for, peer_capacities, pending,
                 proposed_term, voteMsgs, topologyMsgs>>
    BY <1>14 DEF CountVote
  <2>2. CASE Majority(votes_received[n] + 1)
    <3>1. BecomeLeader(n, current_term[n])
      BY <1>14, <2>2 DEF CountVote
    <3> QED
      BY <2>1, <3>1, BecomeLeaderType DEF voteMsgs, topologyMsgs
  <2>3. CASE ~Majority(votes_received[n] + 1)
    <3>1. UNCHANGED <<state, topologyVars, topology_call, pc>>
      BY <1>14, <2>3 DEF CountVote
    <3> QED
      BY <2>1, <3>1 DEF voteMsgs, topologyMsgs, topologyVars
  <2> QED
    BY <2>2, <2>3
<1>15. ASSUME NEW n \in Node, NEW p \in Node, IgnoreStaleVote(n, p) PROVE TypeOK'
  BY <1>15 DEF IgnoreStaleVote, GoTo, nodeVars, topologyVars, voteMsgs, topologyMsgs
<1>16. ASSUME NEW n \in Node, NEW p \in Node, SendTopology(n, p) PROVE TypeOK'
  BY <1>16 DEF SendTopology, nodeVars, topologyVars, voteMsgs
<1>17. ASSUME NEW n \in Node, NEW p \in Node, ReceiveAck(n, p) PROVE TypeOK'
  BY <1>17 DEF ReceiveAck, nodeVars, topologyVars, voteMsgs
<1>18. ASSUME NEW n \in Node, NEW p \in Node, TopologyCallFails(n, p) PROVE TypeOK'
  BY <1>18 DEF TopologyCallFails, nodeVars, topologyVars, voteMsgs
<1>19. CASE UNCHANGED vars
  BY <1>19 DEF vars, nodeVars, topologyVars, voteMsgs, topologyMsgs
<1> QED
  BY <1>1, <1>2, <1>3, <1>4, <1>5, <1>6, <1>7, <1>8, <1>9, <1>10, <1>11, <1>12, <1>13,
     <1>14, <1>15, <1>16, <1>17, <1>18, <1>19 DEF Next, Progress

-----------------------------------------------------------------------------
(* Rounds of vote calls.                                                   *)

\* No call is open at the start.
LEMMA RoundInit == Init => RoundInv
  BY MaxTermAssumption DEF Init, RoundInv

\* Every step keeps calls, replies and rounds in agreement.
LEMMA RoundNext ==
  TypeOK /\ TypeOK' /\ RoundInv /\ [Next]_vars => RoundInv'
<1> SUFFICES ASSUME TypeOK, TypeOK', RoundInv, [Next]_vars PROVE RoundInv'
  OBVIOUS
<1> USE MaxTermAssumption DEF TypeOK, RoundInv, CallState
<1>1. ASSUME NEW n \in Node, ServeCluster(n) PROVE RoundInv'
  BY <1>1 DEF ServeCluster, GoTo, nodeVars, topologyVars, voteMsgs, topologyMsgs
<1>2. ASSUME NEW n \in Node, ElectionTimeout(n) PROVE RoundInv'
  <2>1. /\ vote_requests' = vote_requests /\ vote_replies' = vote_replies
        /\ proposed_term' = [proposed_term EXCEPT ![n] = current_term[n] + 1]
        /\ current_term' = [current_term EXCEPT ![n] = current_term[n] + 1]
        /\ vote_call' = [vote_call EXCEPT ![n] = [p \in Node |-> "none"]]
        /\ pc[n] = "waiting" /\ current_term[n] < MaxTerm
    BY <1>2 DEF ElectionTimeout, voteMsgs
  <2>2. \A i \in Node : i # n => pc'[i] = pc[i]
    BY <1>2 DEF ElectionTimeout, BecomeLeader, GoTo
  <2>3. \A r \in vote_replies : r.to # n /\ r.to \in Node /\ r.from \in Node
    <3>1. \A r \in vote_replies : r.to \in Node /\ r.from \in Node
      BY DEF VoteResponse
    <3>2. ASSUME NEW r \in vote_replies, r.to = n PROVE FALSE
      <4>1. vote_call[n][r.from] = "open"
        BY <3>2
      <4>2. r.from \in Node
        BY <3>1
      <4> QED
        BY <2>1, <4>1, <4>2
    <3> QED
      BY <3>1, <3>2
  <2>4. \A r \in vote_replies' : r.from # r.to /\ vote_call'[r.to][r.from] = "open"
    BY <2>1, <2>3
  <2> QED
    BY <2>1, <2>2, <2>4
<1>3. ASSUME NEW n \in Node, AbandonCampaign(n) PROVE RoundInv'
  BY <1>3 DEF AbandonCampaign, GoTo, nodeVars, topologyVars, voteMsgs, topologyMsgs
<1>4. ASSUME NEW n \in Node, RequestVotes(n) PROVE RoundInv'
  <2>1. \A r \in vote_replies : r.to # n /\ r.to \in Node /\ r.from \in Node
    BY <1>4 DEF RequestVotes, VoteResponse
  <2>2. \A r \in vote_replies' : r.from # r.to /\ vote_call'[r.to][r.from] = "open"
    BY <1>4, <2>1 DEF RequestVotes
  <2>3. \A q \in vote_requests' : q.from # q.to
    BY <1>4 DEF RequestVotes, Peers
  <2>4. \A i \in Node : vote_call'[i][i] = "none"
    BY <1>4 DEF RequestVotes
  <2>5. pc' = [pc EXCEPT ![n] = "collect"] /\ UNCHANGED <<proposed_term, current_term>>
    BY <1>4 DEF RequestVotes, GoTo, nodeVars
  <2>6. \A i, p \in Node :
          /\ vote_call'[i][p] = "open" => pc'[i] \in {"collect", "broadcast", "drain"}
          /\ vote_call'[i][p] # "none" => proposed_term'[i] > 0
          /\ pc'[i] = "campaign" => vote_call'[i][p] = "none" /\ proposed_term'[i] > 0
    BY <1>4, <2>5 DEF RequestVotes
  <2> QED
    BY <2>2, <2>3, <2>4, <2>5, <2>6
<1>5. ASSUME NEW n \in Node, FinishRound(n) PROVE RoundInv'
  BY <1>5 DEF FinishRound, GoTo, nodeVars, topologyVars, voteMsgs, topologyMsgs
<1>6. ASSUME NEW n \in Node, Return(n) PROVE RoundInv'
  BY <1>6 DEF Return, GoTo, nodeVars, topologyVars, voteMsgs, topologyMsgs
<1>7. ASSUME NEW n \in Node, FinishBroadcast(n) PROVE RoundInv'
  BY <1>7 DEF FinishBroadcast, GoTo, nodeVars, topologyVars, voteMsgs, topologyMsgs
<1>8. ASSUME NEW n \in Node, RejectVoteFinalized(n) PROVE RoundInv'
  BY <1>8 DEF RejectVoteFinalized, ReplyVote, VoteCallOpen, nodeVars, topologyVars,
     topologyMsgs
<1>9. ASSUME NEW n \in Node, RequestVote(n) PROVE RoundInv'
  BY <1>9 DEF RequestVote, ReplyVote, VoteCallOpen, topologyVars, topologyMsgs
<1>10. ASSUME NEW n \in Node, BroadcastTopology(n) PROVE RoundInv'
  BY <1>10 DEF BroadcastTopology, AcceptTopology, topologyVars, voteMsgs
<1>11. ASSUME NEW n \in Node, NEW p \in Node, PingPeer(n, p) PROVE RoundInv'
  BY <1>11 DEF PingPeer, GoTo, nodeVars, topologyVars, voteMsgs, topologyMsgs
<1>12. ASSUME NEW n \in Node, NEW p \in Node, ReceiveVote(n, p) PROVE RoundInv'
  BY <1>12, SMTT(20), ZenonT(30) DEF ReceiveVote, topologyVars, topologyMsgs
<1>13. ASSUME NEW n \in Node, NEW p \in Node, VoteCallFails(n, p) PROVE RoundInv'
  BY <1>13 DEF VoteCallFails, nodeVars, topologyVars, topologyMsgs
<1>14. ASSUME NEW n \in Node, NEW p \in Node, CountVote(n, p) PROVE RoundInv'
  BY <1>14 DEF CountVote, BecomeLeader, GoTo, topologyVars, voteMsgs, topologyMsgs
<1>15. ASSUME NEW n \in Node, NEW p \in Node, IgnoreStaleVote(n, p) PROVE RoundInv'
  BY <1>15 DEF IgnoreStaleVote, GoTo, nodeVars, topologyVars, voteMsgs, topologyMsgs
<1>16. ASSUME NEW n \in Node, NEW p \in Node, SendTopology(n, p) PROVE RoundInv'
  BY <1>16 DEF SendTopology, nodeVars, topologyVars, voteMsgs
<1>17. ASSUME NEW n \in Node, NEW p \in Node, ReceiveAck(n, p) PROVE RoundInv'
  BY <1>17 DEF ReceiveAck, nodeVars, topologyVars, voteMsgs
<1>18. ASSUME NEW n \in Node, NEW p \in Node, TopologyCallFails(n, p) PROVE RoundInv'
  BY <1>18 DEF TopologyCallFails, nodeVars, topologyVars, voteMsgs
<1>19. CASE UNCHANGED vars
  BY <1>19 DEF vars, nodeVars, topologyVars, voteMsgs, topologyMsgs
<1> QED
  BY <1>1, <1>2, <1>3, <1>4, <1>5, <1>6, <1>7, <1>8, <1>9, <1>10, <1>11, <1>12, <1>13,
     <1>14, <1>15, <1>16, <1>17, <1>18, <1>19 DEF Next, Progress

-----------------------------------------------------------------------------
(* Votes and topologies are final, step by step.                           *)

\* No step takes a term back, or gives a vote again within its term.
LEMMA VoteStep ==
  TypeOK /\ [Next]_vars => VoteKept
<1> SUFFICES ASSUME TypeOK, [Next]_vars PROVE VoteKept
  OBVIOUS
<1> USE NoneAssumption DEF TypeOK, VoteKept
<1>1. ASSUME NEW n \in Node, ServeCluster(n) PROVE VoteKept
  BY <1>1 DEF ServeCluster, GoTo, nodeVars, topologyVars, voteMsgs, topologyMsgs
<1>2. ASSUME NEW n \in Node, ElectionTimeout(n) PROVE VoteKept
  BY <1>2 DEF ElectionTimeout, BecomeLeader, GoTo, topologyVars, voteMsgs, topologyMsgs
<1>3. ASSUME NEW n \in Node, AbandonCampaign(n) PROVE VoteKept
  BY <1>3 DEF AbandonCampaign, GoTo, nodeVars, topologyVars, voteMsgs, topologyMsgs
<1>4. ASSUME NEW n \in Node, RequestVotes(n) PROVE VoteKept
  BY <1>4 DEF RequestVotes, GoTo, Peers, nodeVars, topologyVars, topologyMsgs
<1>5. ASSUME NEW n \in Node, FinishRound(n) PROVE VoteKept
  BY <1>5 DEF FinishRound, GoTo, nodeVars, topologyVars, voteMsgs, topologyMsgs
<1>6. ASSUME NEW n \in Node, Return(n) PROVE VoteKept
  BY <1>6 DEF Return, GoTo, nodeVars, topologyVars, voteMsgs, topologyMsgs
<1>7. ASSUME NEW n \in Node, FinishBroadcast(n) PROVE VoteKept
  BY <1>7 DEF FinishBroadcast, GoTo, nodeVars, topologyVars, voteMsgs, topologyMsgs
<1>8. ASSUME NEW n \in Node, RejectVoteFinalized(n) PROVE VoteKept
  BY <1>8 DEF RejectVoteFinalized, ReplyVote, VoteCallOpen, nodeVars, topologyVars,
     topologyMsgs
<1>9. ASSUME NEW n \in Node, RequestVote(n) PROVE VoteKept
  <2>1. PICK req \in vote_requests :
          LET higher  == req.term > current_term[n]
              term    == IF higher THEN req.term ELSE current_term[n]
              vote    == IF higher THEN None ELSE voted_for[n]
              granted == req.term = term /\ vote \in {None, req.from}
          IN
          /\ current_term' = [current_term EXCEPT ![n] = term]
          /\ voted_for' = [voted_for EXCEPT ![n] = IF granted THEN req.from ELSE vote]
    BY <1>9 DEF RequestVote
  <2>2. req.term \in Nat
    BY DEF VoteRequest
  <2> QED
    BY <2>1, <2>2
<1>10. ASSUME NEW n \in Node, BroadcastTopology(n) PROVE VoteKept
  BY <1>10 DEF BroadcastTopology, AcceptTopology, topologyVars, voteMsgs
<1>11. ASSUME NEW n \in Node, NEW p \in Node, PingPeer(n, p) PROVE VoteKept
  BY <1>11 DEF PingPeer, GoTo, nodeVars, topologyVars, voteMsgs, topologyMsgs
<1>12. ASSUME NEW n \in Node, NEW p \in Node, ReceiveVote(n, p) PROVE VoteKept
  <2>1. PICK r \in vote_replies :
          IF r.term > current_term[n]
          THEN /\ current_term' = [current_term EXCEPT ![n] = r.term]
               /\ voted_for' = [voted_for EXCEPT ![n] = None]
          ELSE UNCHANGED <<current_term, voted_for>>
    BY <1>12 DEF ReceiveVote
  <2>2. r.term \in Nat
    BY DEF VoteResponse
  <2> QED
    BY <2>1, <2>2, SMTT(20), ZenonT(30)
<1>13. ASSUME NEW n \in Node, NEW p \in Node, VoteCallFails(n, p) PROVE VoteKept
  BY <1>13 DEF VoteCallFails, nodeVars, topologyVars, topologyMsgs
<1>14. ASSUME NEW n \in Node, NEW p \in Node, CountVote(n, p) PROVE VoteKept
  BY <1>14 DEF CountVote, BecomeLeader, GoTo, topologyVars, voteMsgs, topologyMsgs
<1>15. ASSUME NEW n \in Node, NEW p \in Node, IgnoreStaleVote(n, p) PROVE VoteKept
  BY <1>15 DEF IgnoreStaleVote, GoTo, nodeVars, topologyVars, voteMsgs, topologyMsgs
<1>16. ASSUME NEW n \in Node, NEW p \in Node, SendTopology(n, p) PROVE VoteKept
  BY <1>16 DEF SendTopology, nodeVars, topologyVars, voteMsgs
<1>17. ASSUME NEW n \in Node, NEW p \in Node, ReceiveAck(n, p) PROVE VoteKept
  BY <1>17 DEF ReceiveAck, nodeVars, topologyVars, voteMsgs
<1>18. ASSUME NEW n \in Node, NEW p \in Node, TopologyCallFails(n, p) PROVE VoteKept
  BY <1>18 DEF TopologyCallFails, nodeVars, topologyVars, voteMsgs
<1>19. CASE UNCHANGED vars
  BY <1>19 DEF vars, nodeVars, topologyVars, voteMsgs, topologyMsgs
<1> QED
  BY <1>1, <1>2, <1>3, <1>4, <1>5, <1>6, <1>7, <1>8, <1>9, <1>10, <1>11, <1>12, <1>13,
     <1>14, <1>15, <1>16, <1>17, <1>18, <1>19 DEF Next, Progress

\* No step replaces a topology.
LEMMA TopologyStep ==
  TypeOK /\ AdoptedNeverCampaigns /\ [Next]_vars => TopologyKept
<1> SUFFICES ASSUME TypeOK, AdoptedNeverCampaigns, [Next]_vars PROVE TopologyKept
  OBVIOUS
<1> USE DEF TypeOK, AdoptedNeverCampaigns, TopologyKept
<1>1. ASSUME NEW n \in Node, ServeCluster(n) PROVE TopologyKept
  BY <1>1 DEF ServeCluster, GoTo, nodeVars, topologyVars, voteMsgs, topologyMsgs
<1>2. ASSUME NEW n \in Node, ElectionTimeout(n) PROVE TopologyKept
  BY <1>2 DEF ElectionTimeout, BecomeLeader, GoTo, topologyVars, voteMsgs, topologyMsgs
<1>3. ASSUME NEW n \in Node, AbandonCampaign(n) PROVE TopologyKept
  BY <1>3 DEF AbandonCampaign, GoTo, nodeVars, topologyVars, voteMsgs, topologyMsgs
<1>4. ASSUME NEW n \in Node, RequestVotes(n) PROVE TopologyKept
  BY <1>4 DEF RequestVotes, GoTo, Peers, nodeVars, topologyVars, topologyMsgs
<1>5. ASSUME NEW n \in Node, FinishRound(n) PROVE TopologyKept
  BY <1>5 DEF FinishRound, GoTo, nodeVars, topologyVars, voteMsgs, topologyMsgs
<1>6. ASSUME NEW n \in Node, Return(n) PROVE TopologyKept
  BY <1>6 DEF Return, GoTo, nodeVars, topologyVars, voteMsgs, topologyMsgs
<1>7. ASSUME NEW n \in Node, FinishBroadcast(n) PROVE TopologyKept
  BY <1>7 DEF FinishBroadcast, GoTo, nodeVars, topologyVars, voteMsgs, topologyMsgs
<1>8. ASSUME NEW n \in Node, RejectVoteFinalized(n) PROVE TopologyKept
  BY <1>8 DEF RejectVoteFinalized, ReplyVote, VoteCallOpen, nodeVars, topologyVars,
     topologyMsgs
<1>9. ASSUME NEW n \in Node, RequestVote(n) PROVE TopologyKept
  BY <1>9 DEF RequestVote, ReplyVote, VoteCallOpen, topologyVars, topologyMsgs
<1>10. ASSUME NEW n \in Node, BroadcastTopology(n) PROVE TopologyKept
  BY <1>10 DEF BroadcastTopology, AcceptTopology, topologyVars, voteMsgs
<1>11. ASSUME NEW n \in Node, NEW p \in Node, PingPeer(n, p) PROVE TopologyKept
  BY <1>11 DEF PingPeer, GoTo, nodeVars, topologyVars, voteMsgs, topologyMsgs
<1>12. ASSUME NEW n \in Node, NEW p \in Node, ReceiveVote(n, p) PROVE TopologyKept
  BY <1>12 DEF ReceiveVote, topologyVars, topologyMsgs
<1>13. ASSUME NEW n \in Node, NEW p \in Node, VoteCallFails(n, p) PROVE TopologyKept
  BY <1>13 DEF VoteCallFails, nodeVars, topologyVars, topologyMsgs
<1>14. ASSUME NEW n \in Node, NEW p \in Node, CountVote(n, p) PROVE TopologyKept
  BY <1>14 DEF CountVote, BecomeLeader, GoTo, topologyVars, voteMsgs, topologyMsgs
<1>15. ASSUME NEW n \in Node, NEW p \in Node, IgnoreStaleVote(n, p) PROVE TopologyKept
  BY <1>15 DEF IgnoreStaleVote, GoTo, nodeVars, topologyVars, voteMsgs, topologyMsgs
<1>16. ASSUME NEW n \in Node, NEW p \in Node, SendTopology(n, p) PROVE TopologyKept
  BY <1>16 DEF SendTopology, nodeVars, topologyVars, voteMsgs
<1>17. ASSUME NEW n \in Node, NEW p \in Node, ReceiveAck(n, p) PROVE TopologyKept
  BY <1>17 DEF ReceiveAck, nodeVars, topologyVars, voteMsgs
<1>18. ASSUME NEW n \in Node, NEW p \in Node, TopologyCallFails(n, p) PROVE TopologyKept
  BY <1>18 DEF TopologyCallFails, nodeVars, topologyVars, voteMsgs
<1>19. CASE UNCHANGED vars
  BY <1>19 DEF vars, nodeVars, topologyVars, voteMsgs, topologyMsgs
<1> QED
  BY <1>1, <1>2, <1>3, <1>4, <1>5, <1>6, <1>7, <1>8, <1>9, <1>10, <1>11, <1>12, <1>13,
     <1>14, <1>15, <1>16, <1>17, <1>18, <1>19 DEF Next, Progress

\* There is no vote at the start.
LEMMA VoteInit == Init => VoteInv /\ OneVotePerTerm
  BY DEF Init, VoteInv, OneVotePerTerm, HasVote

-----------------------------------------------------------------------------
(* One vote per term.                                                      *)

\* A vote that a candidate has after a step, it had before the step in the
\* same term, or its voter has just given it.
LEMMA HasVoteStep ==
  ASSUME TypeOK, RoundInv, [Next]_vars, NEW v \in Node, NEW i \in Node, HasVote(v, i)'
  PROVE  \/ HasVote(v, i) /\ proposed_term'[i] = proposed_term[i]
         \/ /\ current_term'[v] = proposed_term'[i]
            /\ voted_for'[v] = i
            /\ current_term[v] = proposed_term'[i] => voted_for[v] \in {None, i}
<1> DEFINE Goal ==
         \/ HasVote(v, i) /\ proposed_term'[i] = proposed_term[i]
         \/ /\ current_term'[v] = proposed_term'[i]
            /\ voted_for'[v] = i
            /\ current_term[v] = proposed_term'[i] => voted_for[v] \in {None, i}
<1> USE DEF TypeOK, RoundInv, HasVote
<1>1. ASSUME NEW n \in Node, ServeCluster(n) PROVE Goal
  BY <1>1 DEF ServeCluster, GoTo, nodeVars, topologyVars, voteMsgs, topologyMsgs
<1>2. ASSUME NEW n \in Node, ElectionTimeout(n) PROVE Goal
  <2>1. /\ pc[n] = "waiting"
        /\ vote_replies' = vote_replies
        /\ proposed_term' = [proposed_term EXCEPT ![n] = current_term[n] + 1]
        /\ current_term' = [current_term EXCEPT ![n] = current_term[n] + 1]
        /\ voted_for' = [voted_for EXCEPT ![n] = n]
        /\ vote_call' = [vote_call EXCEPT ![n] = [p \in Node |-> "none"]]
    BY <1>2 DEF ElectionTimeout, voteMsgs
  <2>2. CASE i = n
    <3>1. \A r \in vote_replies : r.to \in Node /\ r.from \in Node
      BY DEF VoteResponse
    <3>2. \A r \in vote_replies' : r.to # n
      BY <2>1, <3>1, SMTT(20), ZenonT(30)
    <3>3. v = n
      BY <2>1, <2>2, <3>2
    <3> QED
      BY <2>1, <2>2, <3>3
  <2>3. CASE i # n
    BY <2>1, <2>3
  <2> QED
    BY <2>2, <2>3
<1>3. ASSUME NEW n \in Node, AbandonCampaign(n) PROVE Goal
  BY <1>3 DEF AbandonCampaign, GoTo, nodeVars, topologyVars, voteMsgs, topologyMsgs
<1>4. ASSUME NEW n \in Node, RequestVotes(n) PROVE Goal
  BY <1>4 DEF RequestVotes, GoTo, Peers, nodeVars, topologyVars, topologyMsgs
<1>5. ASSUME NEW n \in Node, FinishRound(n) PROVE Goal
  BY <1>5 DEF FinishRound, GoTo, nodeVars, topologyVars, voteMsgs, topologyMsgs
<1>6. ASSUME NEW n \in Node, Return(n) PROVE Goal
  BY <1>6 DEF Return, GoTo, nodeVars, topologyVars, voteMsgs, topologyMsgs
<1>7. ASSUME NEW n \in Node, FinishBroadcast(n) PROVE Goal
  BY <1>7 DEF FinishBroadcast, GoTo, nodeVars, topologyVars, voteMsgs, topologyMsgs
<1>8. ASSUME NEW n \in Node, RejectVoteFinalized(n) PROVE Goal
  BY <1>8 DEF RejectVoteFinalized, ReplyVote, VoteCallOpen, nodeVars, topologyVars,
     topologyMsgs
<1>9. ASSUME NEW n \in Node, RequestVote(n) PROVE Goal
  <2>1. PICK req \in vote_requests :
          LET higher  == req.term > current_term[n]
              term    == IF higher THEN req.term ELSE current_term[n]
              vote    == IF higher THEN None ELSE voted_for[n]
              granted == req.term = term /\ vote \in {None, req.from}
          IN
          /\ req.to = n
          /\ current_term' = [current_term EXCEPT ![n] = term]
          /\ voted_for' = [voted_for EXCEPT ![n] = IF granted THEN req.from ELSE vote]
          /\ ReplyVote(req, term, granted)
          /\ UNCHANGED <<proposed_term, vote_call>>
    BY <1>9 DEF RequestVote
  <2>2. req.from \in Node /\ req.to \in Node /\ req.term \in Nat
    BY DEF VoteRequest
  <2>3. CASE HasVote(v, i)
    BY <2>1, <2>3
  <2>4. CASE ~HasVote(v, i)
    <3>1. PICK r \in vote_replies' : r.to = i /\ r.from = v /\ r.vote_granted
      BY <2>1, <2>4
    <3>2. r \notin vote_replies
      BY <2>1, <2>4, <3>1
    <3>3. /\ VoteCallOpen(req)
          /\ req.to = v /\ req.from = i
          /\ req.term = IF req.term > current_term[n] THEN req.term ELSE current_term[n]
          /\ (IF req.term > current_term[n] THEN None ELSE voted_for[n]) \in {None, req.from}
      <4>1. /\ VoteCallOpen(req)
            /\ r = [from |-> req.to, to |-> req.from,
                    term |-> IF req.term > current_term[n] THEN req.term ELSE current_term[n],
                    vote_granted |->
                      /\ req.term = IF req.term > current_term[n] THEN req.term
                                                                  ELSE current_term[n]
                      /\ (IF req.term > current_term[n] THEN None ELSE voted_for[n])
                           \in {None, req.from}]
        BY <2>1, <3>1, <3>2 DEF ReplyVote
      <4> QED
        BY <3>1, <4>1
    <3> QED
      BY <2>1, <2>2, <3>3 DEF VoteCallOpen
  <2> QED
    BY <2>3, <2>4
<1>10. ASSUME NEW n \in Node, BroadcastTopology(n) PROVE Goal
  BY <1>10 DEF BroadcastTopology, AcceptTopology, topologyVars, voteMsgs
<1>11. ASSUME NEW n \in Node, NEW p \in Node, PingPeer(n, p) PROVE Goal
  BY <1>11 DEF PingPeer, GoTo, nodeVars, topologyVars, voteMsgs, topologyMsgs
<1>12. ASSUME NEW n \in Node, NEW p \in Node, ReceiveVote(n, p) PROVE Goal
  BY <1>12 DEF ReceiveVote, topologyVars, topologyMsgs
<1>13. ASSUME NEW n \in Node, NEW p \in Node, VoteCallFails(n, p) PROVE Goal
  BY <1>13 DEF VoteCallFails, nodeVars, topologyVars, topologyMsgs
<1>14. ASSUME NEW n \in Node, NEW p \in Node, CountVote(n, p) PROVE Goal
  BY <1>14 DEF CountVote, BecomeLeader, GoTo, topologyVars, voteMsgs, topologyMsgs
<1>15. ASSUME NEW n \in Node, NEW p \in Node, IgnoreStaleVote(n, p) PROVE Goal
  BY <1>15 DEF IgnoreStaleVote, GoTo, nodeVars, topologyVars, voteMsgs, topologyMsgs
<1>16. ASSUME NEW n \in Node, NEW p \in Node, SendTopology(n, p) PROVE Goal
  BY <1>16 DEF SendTopology, nodeVars, topologyVars, voteMsgs
<1>17. ASSUME NEW n \in Node, NEW p \in Node, ReceiveAck(n, p) PROVE Goal
  BY <1>17 DEF ReceiveAck, nodeVars, topologyVars, voteMsgs
<1>18. ASSUME NEW n \in Node, NEW p \in Node, TopologyCallFails(n, p) PROVE Goal
  BY <1>18 DEF TopologyCallFails, nodeVars, topologyVars, voteMsgs
<1>19. CASE UNCHANGED vars
  BY <1>19 DEF vars, nodeVars, topologyVars, voteMsgs, topologyMsgs
<1> QED
  BY <1>1, <1>2, <1>3, <1>4, <1>5, <1>6, <1>7, <1>8, <1>9, <1>10, <1>11, <1>12, <1>13,
     <1>14, <1>15, <1>16, <1>17, <1>18, <1>19 DEF Next, Progress

\* Every step keeps votes binding and unique: an old vote is kept by
\* VoteStep, a fresh one is for a term in which the voter had no other.
LEMMA VoteNext ==
  TypeOK /\ TypeOK' /\ RoundInv /\ VoteInv /\ OneVotePerTerm /\ [Next]_vars
    => VoteInv' /\ OneVotePerTerm'
<1> SUFFICES ASSUME TypeOK, TypeOK', RoundInv, VoteInv, OneVotePerTerm, [Next]_vars
             PROVE  VoteInv' /\ OneVotePerTerm'
  OBVIOUS
<1> USE NoneAssumption
<1>1. VoteKept
  BY VoteStep
<1> DEFINE Old(v, i)   == HasVote(v, i) /\ proposed_term'[i] = proposed_term[i]
           Fresh(v, i) == /\ current_term'[v] = proposed_term'[i]
                          /\ voted_for'[v] = i
                          /\ current_term[v] = proposed_term'[i] => voted_for[v] \in {None, i}
<1>2. \A v, i \in Node : HasVote(v, i)' => Old(v, i) \/ Fresh(v, i)
  BY HasVoteStep
<1>t. \A v \in Node :
        current_term[v] \in Nat /\ current_term'[v] \in Nat /\ proposed_term'[v] \in Nat
  BY DEF TypeOK
<1> HIDE DEF Old, Fresh
<1>3. \A v, i \in Node : Old(v, i) =>
        /\ current_term[v] >= proposed_term'[i]
        /\ current_term[v] = proposed_term'[i] => voted_for[v] = i
  BY DEF VoteInv, Old
<1>4. \A v, i \in Node : Old(v, i) =>
        /\ current_term'[v] >= proposed_term'[i]
        /\ current_term'[v] = proposed_term'[i] => voted_for'[v] = i
  BY <1>1, <1>3, <1>t DEF VoteKept
<1>5. VoteInv'
  <2> SUFFICES ASSUME NEW v \in Node, NEW i \in Node, HasVote(v, i)'
               PROVE  /\ current_term'[v] >= proposed_term'[i]
                      /\ current_term'[v] = proposed_term'[i] => voted_for'[v] = i
    BY DEF VoteInv
  <2> QED
    BY <1>2, <1>4, <1>t DEF Fresh
<1>6. ASSUME NEW v \in Node, NEW i \in Node, NEW j \in Node,
             HasVote(v, i)', HasVote(v, j)', proposed_term'[i] = proposed_term'[j]
      PROVE  i = j
  <2>1. CASE Old(v, i) /\ Old(v, j)
    BY <1>6, <2>1 DEF OneVotePerTerm, Old
  <2>2. CASE Fresh(v, i) /\ Fresh(v, j)
    BY <2>2 DEF Fresh
  <2>3. ASSUME NEW a \in {i, j}, NEW b \in {i, j}, Old(v, a), Fresh(v, b) PROVE a = b
    <3>1. current_term[v] >= proposed_term'[a] /\ current_term'[v] = proposed_term'[a]
      BY <1>3, <1>6, <2>3 DEF Fresh
    <3>2. current_term[v] = proposed_term'[a]
      BY <1>1, <1>t, <3>1 DEF VoteKept
    <3>3. voted_for[v] = a /\ voted_for[v] \in {None, b}
      BY <1>3, <1>6, <2>3, <3>2 DEF Fresh
    <3> QED
      BY <3>3
  <2> QED
    BY <1>2, <1>6, <2>1, <2>2, <2>3
<1>7. OneVotePerTerm'
  BY <1>6 DEF OneVotePerTerm
<1> QED
  BY <1>5, <1>7

-----------------------------------------------------------------------------
(* Topologies, their heads and their followers.                            *)

\* At the start there is no topology, no capacity and no broadcast.
LEMMA AdoptedInit ==
  Init => AdoptedNeverCampaigns /\ BroadcastInv /\ HeadExists /\ CapacityFromFollowers
  BY NoneAssumption
     DEF Init, AdoptedNeverCampaigns, BroadcastInv, HeadExists, CapacityFromFollowers, Head

\* Every step keeps nodes with a topology out of the election.
LEMMA AdoptedNext ==
  TypeOK /\ AdoptedNeverCampaigns /\ [Next]_vars => AdoptedNeverCampaigns'
<1> SUFFICES ASSUME TypeOK, AdoptedNeverCampaigns, [Next]_vars PROVE AdoptedNeverCampaigns'
  OBVIOUS
<1> USE DEF TypeOK, AdoptedNeverCampaigns
<1>1. ASSUME NEW n \in Node, ServeCluster(n) PROVE AdoptedNeverCampaigns'
  BY <1>1 DEF ServeCluster, GoTo, nodeVars, topologyVars, voteMsgs, topologyMsgs
<1>2. ASSUME NEW n \in Node, ElectionTimeout(n) PROVE AdoptedNeverCampaigns'
  BY <1>2 DEF ElectionTimeout, BecomeLeader, GoTo, topologyVars, voteMsgs, topologyMsgs
<1>3. ASSUME NEW n \in Node, AbandonCampaign(n) PROVE AdoptedNeverCampaigns'
  BY <1>3 DEF AbandonCampaign, GoTo, nodeVars, topologyVars, voteMsgs, topologyMsgs
<1>4. ASSUME NEW n \in Node, RequestVotes(n) PROVE AdoptedNeverCampaigns'
  BY <1>4 DEF RequestVotes, GoTo, Peers, nodeVars, topologyVars, topologyMsgs
<1>5. ASSUME NEW n \in Node, FinishRound(n) PROVE AdoptedNeverCampaigns'
  BY <1>5 DEF FinishRound, GoTo, nodeVars, topologyVars, voteMsgs, topologyMsgs
<1>6. ASSUME NEW n \in Node, Return(n) PROVE AdoptedNeverCampaigns'
  BY <1>6 DEF Return, GoTo, nodeVars, topologyVars, voteMsgs, topologyMsgs
<1>7. ASSUME NEW n \in Node, FinishBroadcast(n) PROVE AdoptedNeverCampaigns'
  BY <1>7 DEF FinishBroadcast, GoTo, nodeVars, topologyVars, voteMsgs, topologyMsgs
<1>8. ASSUME NEW n \in Node, RejectVoteFinalized(n) PROVE AdoptedNeverCampaigns'
  BY <1>8 DEF RejectVoteFinalized, ReplyVote, VoteCallOpen, nodeVars, topologyVars,
     topologyMsgs
<1>9. ASSUME NEW n \in Node, RequestVote(n) PROVE AdoptedNeverCampaigns'
  BY <1>9 DEF RequestVote, ReplyVote, VoteCallOpen, topologyVars, topologyMsgs
<1>10. ASSUME NEW n \in Node, BroadcastTopology(n) PROVE AdoptedNeverCampaigns'
  BY <1>10 DEF BroadcastTopology, AcceptTopology, topologyVars, voteMsgs
<1>11. ASSUME NEW n \in Node, NEW p \in Node, PingPeer(n, p) PROVE AdoptedNeverCampaigns'
  BY <1>11 DEF PingPeer, GoTo, nodeVars, topologyVars, voteMsgs, topologyMsgs
<1>12. ASSUME NEW n \in Node, NEW p \in Node, ReceiveVote(n, p) PROVE AdoptedNeverCampaigns'
  BY <1>12 DEF ReceiveVote, topologyVars, topologyMsgs
<1>13. ASSUME NEW n \in Node, NEW p \in Node, VoteCallFails(n, p)
       PROVE AdoptedNeverCampaigns'
  BY <1>13 DEF VoteCallFails, nodeVars, topologyVars, topologyMsgs
<1>14. ASSUME NEW n \in Node, NEW p \in Node, CountVote(n, p) PROVE AdoptedNeverCampaigns'
  BY <1>14 DEF CountVote, BecomeLeader, GoTo, topologyVars, voteMsgs, topologyMsgs
<1>15. ASSUME NEW n \in Node, NEW p \in Node, IgnoreStaleVote(n, p)
       PROVE AdoptedNeverCampaigns'
  BY <1>15 DEF IgnoreStaleVote, GoTo, nodeVars, topologyVars, voteMsgs, topologyMsgs
<1>16. ASSUME NEW n \in Node, NEW p \in Node, SendTopology(n, p)
       PROVE AdoptedNeverCampaigns'
  BY <1>16 DEF SendTopology, nodeVars, topologyVars, voteMsgs
<1>17. ASSUME NEW n \in Node, NEW p \in Node, ReceiveAck(n, p) PROVE AdoptedNeverCampaigns'
  BY <1>17 DEF ReceiveAck, nodeVars, topologyVars, voteMsgs
<1>18. ASSUME NEW n \in Node, NEW p \in Node, TopologyCallFails(n, p)
       PROVE AdoptedNeverCampaigns'
  BY <1>18 DEF TopologyCallFails, nodeVars, topologyVars, voteMsgs
<1>19. CASE UNCHANGED vars
  BY <1>19 DEF vars, nodeVars, topologyVars, voteMsgs, topologyMsgs
<1> QED
  BY <1>1, <1>2, <1>3, <1>4, <1>5, <1>6, <1>7, <1>8, <1>9, <1>10, <1>11, <1>12, <1>13,
     <1>14, <1>15, <1>16, <1>17, <1>18, <1>19 DEF Next, Progress

\* The winner's own assignments keep the broadcast invariant.
LEMMA WinBroadcast ==
  ASSUME TypeOK, BroadcastInv, NEW n \in Node, NEW term \in Nat, topology_config[n] = None,
         BecomeLeader(n, term), UNCHANGED topologyMsgs
  PROVE  BroadcastInv'
<1> USE NoneAssumption DEF TypeOK, BroadcastInv, Head
<1>1. /\ state' = [state EXCEPT ![n] = "LEADER"]
      /\ topology_config' = [topology_config EXCEPT ![n] = n]
      /\ topology_call' = [topology_call EXCEPT ![n] =
                             [p \in Node |-> IF p = n THEN "none" ELSE "ready"]]
      /\ topology_requests' = topology_requests /\ topology_replies' = topology_replies
  BY DEF BecomeLeader, topologyMsgs
<1>2. \A m \in Node : state'[m] = "LEADER" => topology_config'[m] = m
  BY <1>1
<1>3. \A m, p \in Node : topology_call'[m][p] \in {"ready", "open"} =>
        topology_config'[m] = m /\ p # m
  BY <1>1
<1>4. \A q \in topology_requests : q.from \in Node
  BY DEF TopologyConfig
<1>5. \A r \in topology_replies : r.from \in Node /\ r.to \in Node /\ (r.ok => r.from # n)
  BY DEF TopologyResponse
<1> QED
  BY <1>1, <1>2, <1>3, <1>4, <1>5

\* Every step keeps leaders, broadcasts and acknowledgements consistent with
\* the topologies they are about.
LEMMA BroadcastNext ==
  TypeOK /\ TypeOK' /\ AdoptedNeverCampaigns /\ BroadcastInv /\ [Next]_vars => BroadcastInv'
<1> SUFFICES ASSUME TypeOK, TypeOK', AdoptedNeverCampaigns, BroadcastInv, [Next]_vars
             PROVE  BroadcastInv'
  OBVIOUS
<1>0. TopologyKept
  BY TopologyStep
<1>a. \A n \in Node : Head(n) => Head(n)'
  BY <1>0, NoneAssumption DEF TopologyKept, Head
<1> USE NoneAssumption DEF TypeOK, BroadcastInv, Head
<1>1. ASSUME NEW n \in Node, ServeCluster(n) PROVE BroadcastInv'
  BY <1>1 DEF ServeCluster, GoTo, nodeVars, topologyVars, voteMsgs, topologyMsgs
<1>2. ASSUME NEW n \in Node, ElectionTimeout(n) PROVE BroadcastInv'
  <2>1. topology_config[n] = None /\ UNCHANGED topologyMsgs /\ current_term[n] + 1 \in Nat
    BY <1>2 DEF ElectionTimeout
  <2>2. CASE BecomeLeader(n, current_term[n] + 1)
    BY <2>1, <2>2, WinBroadcast
  <2>3. CASE state' = [state EXCEPT ![n] = "CANDIDATE"]
            /\ UNCHANGED <<topologyVars, topology_call>>
    BY <2>1, <2>3 DEF topologyVars, topologyMsgs
  <2> QED
    BY <1>2, <2>2, <2>3 DEF ElectionTimeout
<1>3. ASSUME NEW n \in Node, AbandonCampaign(n) PROVE BroadcastInv'
  BY <1>3 DEF AbandonCampaign, GoTo, nodeVars, topologyVars, voteMsgs, topologyMsgs
<1>4. ASSUME NEW n \in Node, RequestVotes(n) PROVE BroadcastInv'
  BY <1>4 DEF RequestVotes, GoTo, Peers, nodeVars, topologyVars, topologyMsgs
<1>5. ASSUME NEW n \in Node, FinishRound(n) PROVE BroadcastInv'
  BY <1>5 DEF FinishRound, GoTo, nodeVars, topologyVars, voteMsgs, topologyMsgs
<1>6. ASSUME NEW n \in Node, Return(n) PROVE BroadcastInv'
  BY <1>6 DEF Return, GoTo, nodeVars, topologyVars, voteMsgs, topologyMsgs
<1>7. ASSUME NEW n \in Node, FinishBroadcast(n) PROVE BroadcastInv'
  BY <1>7 DEF FinishBroadcast, GoTo, nodeVars, topologyVars, voteMsgs, topologyMsgs
<1>8. ASSUME NEW n \in Node, RejectVoteFinalized(n) PROVE BroadcastInv'
  BY <1>8 DEF RejectVoteFinalized, ReplyVote, VoteCallOpen, nodeVars, topologyVars,
     topologyMsgs
<1>9. ASSUME NEW n \in Node, RequestVote(n) PROVE BroadcastInv'
  BY <1>9 DEF RequestVote, ReplyVote, VoteCallOpen, topologyVars, topologyMsgs
<1>10. ASSUME NEW n \in Node, BroadcastTopology(n) PROVE BroadcastInv'
  <2>1. PICK req \in topology_requests :
          AcceptTopology(n, req, topology_config[n] = None, "FOLLOWER")
    BY <1>10 DEF BroadcastTopology
  <2>2. req.from \in Node /\ req.from # n
    BY <2>1 DEF AcceptTopology, TopologyConfig
  <2>3. \A m \in Node : state'[m] = "LEADER" => Head(m)'
    BY <1>a, <2>1 DEF AcceptTopology
  <2>4. \A m, p \in Node : topology_call'[m][p] \in {"ready", "open"} => Head(m)' /\ p # m
    BY <1>a, <2>1 DEF AcceptTopology
  <2>5. \A q \in topology_requests' : Head(q.from)' /\ q.from # q.to
    <3>1. \A q \in topology_requests : q.from \in Node
      BY DEF TopologyConfig
    <3> QED
      BY <1>a, <2>1, <3>1 DEF AcceptTopology
  <2>6. ASSUME NEW r \in topology_replies', r.ok PROVE topology_config'[r.from] = r.to
    <3>1. CASE r \in topology_replies
      <4>1. r.from \in Node /\ r.to \in Node /\ topology_config[r.from] = r.to
        BY <2>6, <3>1 DEF TopologyResponse
      <4> QED
        BY <1>0, <4>1 DEF TopologyKept
    <3>2. CASE r = [from |-> n, to |-> req.from, ok |-> (topology_config[n] = None)]
      <4>1. topology_config[n] = None
        BY <2>6, <3>2
      <4>2. topology_config' = [topology_config EXCEPT ![n] = req.from]
        BY <2>1, <4>1 DEF AcceptTopology
      <4> QED
        BY <2>2, <3>2, <4>2
    <3> QED
      BY <2>1, <3>1, <3>2 DEF AcceptTopology
  <2> QED
    BY <2>3, <2>4, <2>5, <2>6
<1>11. ASSUME NEW n \in Node, NEW p \in Node, PingPeer(n, p) PROVE BroadcastInv'
  BY <1>11 DEF PingPeer, GoTo, nodeVars, topologyVars, voteMsgs, topologyMsgs
<1>12. ASSUME NEW n \in Node, NEW p \in Node, ReceiveVote(n, p) PROVE BroadcastInv'
  BY <1>12 DEF ReceiveVote, topologyVars, topologyMsgs
<1>13. ASSUME NEW n \in Node, NEW p \in Node, VoteCallFails(n, p) PROVE BroadcastInv'
  BY <1>13 DEF VoteCallFails, nodeVars, topologyVars, topologyMsgs
<1>14. ASSUME NEW n \in Node, NEW p \in Node, CountVote(n, p) PROVE BroadcastInv'
  <2>1. topology_config[n] = None /\ UNCHANGED topologyMsgs /\ current_term[n] \in Nat
    BY <1>14 DEF CountVote, AdoptedNeverCampaigns
  <2>2. CASE BecomeLeader(n, current_term[n])
    BY <2>1, <2>2, WinBroadcast
  <2>3. CASE UNCHANGED <<state, topologyVars, topology_call, pc>>
    BY <2>1, <2>3 DEF topologyVars, topologyMsgs
  <2> QED
    BY <1>14, <2>2, <2>3 DEF CountVote
<1>15. ASSUME NEW n \in Node, NEW p \in Node, IgnoreStaleVote(n, p) PROVE BroadcastInv'
  BY <1>15 DEF IgnoreStaleVote, GoTo, nodeVars, topologyVars, voteMsgs, topologyMsgs
<1>16. ASSUME NEW n \in Node, NEW p \in Node, SendTopology(n, p) PROVE BroadcastInv'
  BY <1>16 DEF SendTopology, nodeVars, topologyVars, voteMsgs
<1>17. ASSUME NEW n \in Node, NEW p \in Node, ReceiveAck(n, p) PROVE BroadcastInv'
  BY <1>17 DEF ReceiveAck, nodeVars, topologyVars, voteMsgs
<1>18. ASSUME NEW n \in Node, NEW p \in Node, TopologyCallFails(n, p)
       PROVE BroadcastInv'
  BY <1>18 DEF TopologyCallFails, nodeVars, topologyVars, voteMsgs
<1>19. CASE UNCHANGED vars
  BY <1>19 DEF vars, nodeVars, topologyVars, voteMsgs, topologyMsgs
<1> QED
  BY <1>1, <1>2, <1>3, <1>4, <1>5, <1>6, <1>7, <1>8, <1>9, <1>10, <1>11, <1>12, <1>13,
     <1>14, <1>15, <1>16, <1>17, <1>18, <1>19 DEF Next, Progress

\* Every step keeps topologies headed and capacities those of followers.
LEMMA FollowersNext ==
  (/\ TypeOK /\ TypeOK' /\ AdoptedNeverCampaigns /\ BroadcastInv
   /\ HeadExists /\ CapacityFromFollowers /\ [Next]_vars)
    => HeadExists' /\ CapacityFromFollowers'
<1> SUFFICES ASSUME TypeOK, TypeOK', AdoptedNeverCampaigns, BroadcastInv, HeadExists,
                    CapacityFromFollowers, [Next]_vars
             PROVE  HeadExists' /\ CapacityFromFollowers'
  OBVIOUS
<1>0. TopologyKept
  BY TopologyStep
<1> USE NoneAssumption DEF TypeOK, HeadExists, CapacityFromFollowers, BroadcastInv, Head, TopologyKept
<1>1. ASSUME NEW n \in Node, ServeCluster(n) PROVE HeadExists' /\ CapacityFromFollowers'
  BY <1>1 DEF ServeCluster, GoTo, nodeVars, topologyVars, voteMsgs, topologyMsgs
<1>2. ASSUME NEW n \in Node, ElectionTimeout(n) PROVE HeadExists' /\ CapacityFromFollowers'
  <2>1. topology_config[n] = None /\ UNCHANGED peer_capacities
    BY <1>2 DEF ElectionTimeout
  <2>2. topology_config' \in {topology_config, [topology_config EXCEPT ![n] = n]}
    BY <1>2 DEF ElectionTimeout, BecomeLeader, topologyVars
  <2>3. CASE topology_config' = topology_config
    BY <2>1, <2>3
  <2>4. CASE topology_config' = [topology_config EXCEPT ![n] = n]
    <3>1. \A m \in Node : topology_config'[m] = IF m = n THEN n ELSE topology_config[m]
      BY <2>4
    <3>2. HeadExists'
      <4> SUFFICES ASSUME NEW m \in Node, topology_config'[m] # None
                   PROVE  topology_config'[topology_config'[m]] = topology_config'[m]
        OBVIOUS
      <4>1. CASE m = n
        BY <3>1, <4>1
      <4>2. CASE m # n
        <5>1. topology_config'[m] = topology_config[m] /\ topology_config[m] \in Node
          BY <3>1, <4>2
        <5>2. topology_config[topology_config[m]] = topology_config[m]
          BY <5>1
        <5> QED
          BY <2>1, <3>1, <5>1, <5>2
      <4> QED
        BY <4>1, <4>2
    <3>3. CapacityFromFollowers'
      BY <2>1, <3>1
    <3> QED
      BY <3>2, <3>3
  <2> QED
    BY <2>2, <2>3, <2>4
<1>3. ASSUME NEW n \in Node, AbandonCampaign(n) PROVE HeadExists' /\ CapacityFromFollowers'
  BY <1>3 DEF AbandonCampaign, GoTo, nodeVars, topologyVars, voteMsgs, topologyMsgs
<1>4. ASSUME NEW n \in Node, RequestVotes(n) PROVE HeadExists' /\ CapacityFromFollowers'
  BY <1>4 DEF RequestVotes, GoTo, Peers, nodeVars, topologyVars, topologyMsgs
<1>5. ASSUME NEW n \in Node, FinishRound(n) PROVE HeadExists' /\ CapacityFromFollowers'
  BY <1>5 DEF FinishRound, GoTo, nodeVars, topologyVars, voteMsgs, topologyMsgs
<1>6. ASSUME NEW n \in Node, Return(n) PROVE HeadExists' /\ CapacityFromFollowers'
  BY <1>6 DEF Return, GoTo, nodeVars, topologyVars, voteMsgs, topologyMsgs
<1>7. ASSUME NEW n \in Node, FinishBroadcast(n) PROVE HeadExists' /\ CapacityFromFollowers'
  BY <1>7 DEF FinishBroadcast, GoTo, nodeVars, topologyVars, voteMsgs, topologyMsgs
<1>8. ASSUME NEW n \in Node, RejectVoteFinalized(n) PROVE HeadExists' /\ CapacityFromFollowers'
  BY <1>8 DEF RejectVoteFinalized, ReplyVote, VoteCallOpen, nodeVars, topologyVars,
     topologyMsgs
<1>9. ASSUME NEW n \in Node, RequestVote(n) PROVE HeadExists' /\ CapacityFromFollowers'
  BY <1>9 DEF RequestVote, ReplyVote, VoteCallOpen, topologyVars, topologyMsgs
<1>10. ASSUME NEW n \in Node, BroadcastTopology(n) PROVE HeadExists' /\ CapacityFromFollowers'
  <2>1. PICK req \in topology_requests :
          AcceptTopology(n, req, topology_config[n] = None, "FOLLOWER")
    BY <1>10 DEF BroadcastTopology
  <2>2. req.from \in Node /\ req.from # n /\ topology_config[req.from] = req.from
    BY <2>1 DEF AcceptTopology, TopologyConfig
  <2>3. topology_config' = topology_config
        \/ (topology_config[n] = None /\ topology_config' = [topology_config EXCEPT ![n] = req.from])
    BY <2>1 DEF AcceptTopology, topologyVars
  <2>4. HeadExists'
    BY <2>2, <2>3
  <2>5. peer_capacities' = [peer_capacities EXCEPT ![n] =
                              IF state[n] = "LEADER" THEN @ \cup {n} ELSE @]
    BY <2>1 DEF AcceptTopology
  <2>6. CapacityFromFollowers'
    BY <2>2, <2>3, <2>5
  <2> QED
    BY <2>4, <2>6
<1>11. ASSUME NEW n \in Node, NEW p \in Node, PingPeer(n, p) PROVE HeadExists' /\ CapacityFromFollowers'
  BY <1>11 DEF PingPeer, GoTo, nodeVars, topologyVars, voteMsgs, topologyMsgs
<1>12. ASSUME NEW n \in Node, NEW p \in Node, ReceiveVote(n, p) PROVE HeadExists' /\ CapacityFromFollowers'
  BY <1>12 DEF ReceiveVote, topologyVars, topologyMsgs
<1>13. ASSUME NEW n \in Node, NEW p \in Node, VoteCallFails(n, p)
       PROVE HeadExists' /\ CapacityFromFollowers'
  BY <1>13 DEF VoteCallFails, nodeVars, topologyVars, topologyMsgs
<1>14. ASSUME NEW n \in Node, NEW p \in Node, CountVote(n, p) PROVE HeadExists' /\ CapacityFromFollowers'
  <2>1. topology_config[n] = None /\ UNCHANGED peer_capacities
    BY <1>14 DEF CountVote, AdoptedNeverCampaigns
  <2>2. topology_config' \in {topology_config, [topology_config EXCEPT ![n] = n]}
    BY <1>14 DEF CountVote, BecomeLeader, topologyVars
  <2>3. CASE topology_config' = topology_config
    BY <2>1, <2>3
  <2>4. CASE topology_config' = [topology_config EXCEPT ![n] = n]
    <3>1. \A m \in Node : topology_config'[m] = IF m = n THEN n ELSE topology_config[m]
      BY <2>4
    <3>2. HeadExists'
      <4> SUFFICES ASSUME NEW m \in Node, topology_config'[m] # None
                   PROVE  topology_config'[topology_config'[m]] = topology_config'[m]
        OBVIOUS
      <4>1. CASE m = n
        BY <3>1, <4>1
      <4>2. CASE m # n
        <5>1. topology_config'[m] = topology_config[m] /\ topology_config[m] \in Node
          BY <3>1, <4>2
        <5>2. topology_config[topology_config[m]] = topology_config[m]
          BY <5>1
        <5> QED
          BY <2>1, <3>1, <5>1, <5>2
      <4> QED
        BY <4>1, <4>2
    <3>3. CapacityFromFollowers'
      BY <2>1, <3>1
    <3> QED
      BY <3>2, <3>3
  <2> QED
    BY <2>2, <2>3, <2>4
<1>15. ASSUME NEW n \in Node, NEW p \in Node, IgnoreStaleVote(n, p)
       PROVE HeadExists' /\ CapacityFromFollowers'
  BY <1>15 DEF IgnoreStaleVote, GoTo, nodeVars, topologyVars, voteMsgs, topologyMsgs
<1>16. ASSUME NEW n \in Node, NEW p \in Node, SendTopology(n, p)
       PROVE HeadExists' /\ CapacityFromFollowers'
  BY <1>16 DEF SendTopology, nodeVars, topologyVars, voteMsgs
<1>17. ASSUME NEW n \in Node, NEW p \in Node, ReceiveAck(n, p) PROVE HeadExists' /\ CapacityFromFollowers'
  BY <1>17 DEF ReceiveAck, nodeVars, topologyVars, voteMsgs
<1>18. ASSUME NEW n \in Node, NEW p \in Node, TopologyCallFails(n, p)
       PROVE HeadExists' /\ CapacityFromFollowers'
  BY <1>18 DEF TopologyCallFails, nodeVars, topologyVars, voteMsgs
<1>19. CASE UNCHANGED vars
  BY <1>19 DEF vars, nodeVars, topologyVars, voteMsgs, topologyMsgs
<1> QED
  BY <1>1, <1>2, <1>3, <1>4, <1>5, <1>6, <1>7, <1>8, <1>9, <1>10, <1>11, <1>12, <1>13,
     <1>14, <1>15, <1>16, <1>17, <1>18, <1>19 DEF Next, Progress

-----------------------------------------------------------------------------
(* Counting votes.                                                         *)

\* Nobody has counted a vote at the start.
LEMMA CountInit == Init => CountInv
  BY NoneAssumption DEF Init, CountInv, Head

\* The votes a candidate has counted can be counted.
LEMMA VotersFinite ==
  ASSUME NEW i \in Node
  PROVE  IsFiniteSet(Voters(i)) /\ Cardinality(Voters(i)) \in Nat
<1>1. Voters(i) \subseteq Node
  BY DEF Voters
<1> QED
  BY <1>1, NodeAssumption, FS_Subset, FS_CardinalityType

\* Counting one more voter adds one.
LEMMA AddVoter ==
  ASSUME NEW i \in Node, NEW p, p \notin Voters(i)
  PROVE  Cardinality(Voters(i) \cup {p}) = Cardinality(Voters(i)) + 1
  BY VotersFinite, FS_AddElement

\* Every step keeps votes_received equal to the number of voters, and heads
\* elected by a majority of them.
LEMMA CountNext ==
  TypeOK /\ TypeOK' /\ RoundInv /\ CountInv /\ AdoptedNeverCampaigns /\ BroadcastInv /\ [Next]_vars
    => CountInv'
<1> SUFFICES ASSUME TypeOK, TypeOK', RoundInv, CountInv, AdoptedNeverCampaigns, BroadcastInv,
                    [Next]_vars
             PROVE  CountInv'
  OBVIOUS
<1> DEFINE Same == \A i \in Node :
         /\ proposed_term'[i] = proposed_term[i]
         /\ votes_received'[i] = votes_received[i]
         /\ Voters(i)' = Voters(i)
         /\ Head(i)' => Head(i) /\ topology_term'[i] = topology_term[i]
<1> USE NoneAssumption DEF TypeOK, RoundInv, AdoptedNeverCampaigns, CallState
<1>0. ASSUME Same PROVE CountInv'
  BY <1>0 DEF CountInv, Majority
<1>1. ASSUME NEW n \in Node, ServeCluster(n) PROVE Same
  BY <1>1 DEF Voters, Head, BroadcastInv, ServeCluster, GoTo, nodeVars, topologyVars,
     voteMsgs, topologyMsgs
<1>2. ASSUME NEW n \in Node, ElectionTimeout(n) PROVE CountInv'
  <2>1. /\ topology_config[n] = None
        /\ proposed_term' = [proposed_term EXCEPT ![n] = current_term[n] + 1]
        /\ votes_received' = [votes_received EXCEPT ![n] = 1]
        /\ vote_call' = [vote_call EXCEPT ![n] = [p \in Node |-> "none"]]
    BY <1>2 DEF ElectionTimeout
  <2>2. Voters(n)' = {n} /\ \A i \in Node : i # n => Voters(i)' = Voters(i)
    BY <2>1 DEF Voters
  <2>3. Cardinality(Voters(n)') = 1
    <3>1. Cardinality({n}) = 1
      BY FS_Singleton
    <3> QED
      BY <2>2, <3>1
  <2>4. \A i \in Node : i # n => topology_config'[i] = topology_config[i] /\ topology_term'[i] = topology_term[i]
    BY <1>2 DEF ElectionTimeout, BecomeLeader, topologyVars
  <2>5. Head(n)' => Majority(1) /\ topology_term'[n] = current_term[n] + 1
    BY <1>2, <2>1 DEF ElectionTimeout, BecomeLeader, topologyVars, Head
  <2> QED
    <3> SUFFICES ASSUME NEW i \in Node
                 PROVE  /\ proposed_term'[i] > 0 => votes_received'[i] = Cardinality(Voters(i)')
                        /\ Head(i)' => /\ proposed_term'[i] > 0
                                       /\ topology_term'[i] = proposed_term'[i]
                                       /\ Majority(Cardinality(Voters(i)'))
      BY DEF CountInv, Majority
    <3>1. CASE i = n
      BY <2>1, <2>3, <2>5, <3>1
    <3>2. CASE i # n
      BY <2>1, <2>2, <2>4, <3>2 DEF CountInv, Head
    <3> QED
      BY <3>1, <3>2
<1>3. ASSUME NEW n \in Node, AbandonCampaign(n) PROVE Same
  BY <1>3 DEF Voters, Head, BroadcastInv, AbandonCampaign, GoTo, nodeVars,
     topologyVars, voteMsgs, topologyMsgs
<1>4. ASSUME NEW n \in Node, RequestVotes(n) PROVE Same
  BY <1>4 DEF Voters, Head, BroadcastInv, RequestVotes, GoTo, Peers, nodeVars,
     topologyVars, topologyMsgs
<1>5. ASSUME NEW n \in Node, FinishRound(n) PROVE Same
  BY <1>5 DEF Voters, Head, BroadcastInv, FinishRound, GoTo, nodeVars, topologyVars,
     voteMsgs, topologyMsgs
<1>6. ASSUME NEW n \in Node, Return(n) PROVE Same
  BY <1>6 DEF Voters, Head, BroadcastInv, Return, GoTo, nodeVars, topologyVars,
     voteMsgs, topologyMsgs
<1>7. ASSUME NEW n \in Node, FinishBroadcast(n) PROVE Same
  BY <1>7 DEF Voters, Head, BroadcastInv, FinishBroadcast, GoTo, nodeVars,
     topologyVars, voteMsgs, topologyMsgs
<1>8. ASSUME NEW n \in Node, RejectVoteFinalized(n) PROVE Same
  BY <1>8 DEF Voters, Head, BroadcastInv, RejectVoteFinalized, ReplyVote,
     VoteCallOpen, nodeVars, topologyVars, topologyMsgs
<1>9. ASSUME NEW n \in Node, RequestVote(n) PROVE Same
  BY <1>9 DEF Voters, Head, BroadcastInv, RequestVote, ReplyVote, VoteCallOpen,
     topologyVars, topologyMsgs
<1>10. ASSUME NEW n \in Node, BroadcastTopology(n) PROVE Same
  BY <1>10 DEF Voters, Head, BroadcastInv, BroadcastTopology, AcceptTopology,
     topologyVars, voteMsgs
<1>11. ASSUME NEW n \in Node, NEW p \in Node, PingPeer(n, p) PROVE Same
  BY <1>11 DEF Voters, Head, BroadcastInv, PingPeer, GoTo, nodeVars, topologyVars,
     voteMsgs, topologyMsgs
<1>12. ASSUME NEW n \in Node, NEW p \in Node, ReceiveVote(n, p) PROVE Same
  BY <1>12 DEF Voters, Head, BroadcastInv, ReceiveVote, topologyVars, topologyMsgs
<1>13. ASSUME NEW n \in Node, NEW p \in Node, VoteCallFails(n, p) PROVE Same
  BY <1>13 DEF Voters, Head, BroadcastInv, VoteCallFails, nodeVars, topologyVars,
     topologyMsgs
<1>14. ASSUME NEW n \in Node, NEW p \in Node, CountVote(n, p) PROVE CountInv'
  <2>0. topology_config[n] = None /\ proposed_term[n] > 0
    <3>1. state[n] = "CANDIDATE" /\ vote_call[n][p] # "none"
      BY <1>14 DEF CountVote
    <3> QED
      BY <3>1
  <2>1. /\ topology_config[n] = None
        /\ proposed_term' = proposed_term /\ proposed_term[n] > 0
        /\ votes_received' = [votes_received EXCEPT ![n] = votes_received[n] + 1]
        /\ vote_call' = [vote_call EXCEPT ![n][p] = "counted"]
        /\ vote_call[n][p] = "granted"
        /\ current_term[n] = proposed_term[n]
    BY <1>14, <2>0 DEF CountVote
  <2>2. Voters(n)' = Voters(n) \cup {p} /\ \A i \in Node : i # n => Voters(i)' = Voters(i)
    BY <2>1 DEF Voters
  <2>3. p \notin Voters(n)
    BY <2>1 DEF Voters
  <2>4. Cardinality(Voters(n)') = Cardinality(Voters(n)) + 1
    BY <2>2, <2>3, AddVoter
  <2>5. \A i \in Node : i # n => topology_config'[i] = topology_config[i] /\ topology_term'[i] = topology_term[i]
    BY <1>14 DEF CountVote, BecomeLeader, topologyVars
  <2>6. Head(n)' => Majority(votes_received[n] + 1) /\ topology_term'[n] = current_term[n]
    BY <1>14, <2>1 DEF CountVote, BecomeLeader, topologyVars, Head
  <2>7. Cardinality(Voters(n)') = votes_received[n] + 1 /\ votes_received[n] \in Nat
    BY <2>1, <2>4 DEF CountInv
  <2> QED
    <3> SUFFICES ASSUME NEW i \in Node
                 PROVE  /\ proposed_term'[i] > 0 => votes_received'[i] = Cardinality(Voters(i)')
                        /\ Head(i)' => /\ proposed_term'[i] > 0
                                       /\ topology_term'[i] = proposed_term'[i]
                                       /\ Majority(Cardinality(Voters(i)'))
      BY DEF CountInv, Majority
    <3>1. CASE i = n
      BY <2>1, <2>6, <2>7, <3>1
    <3>2. CASE i # n
      BY <2>1, <2>2, <2>5, <3>2 DEF CountInv, Head
    <3> QED
      BY <3>1, <3>2
<1>15. ASSUME NEW n \in Node, NEW p \in Node, IgnoreStaleVote(n, p) PROVE Same
  BY <1>15 DEF Voters, Head, BroadcastInv, IgnoreStaleVote, GoTo, nodeVars,
     topologyVars, voteMsgs, topologyMsgs
<1>16. ASSUME NEW n \in Node, NEW p \in Node, SendTopology(n, p) PROVE Same
  BY <1>16 DEF Voters, Head, BroadcastInv, SendTopology, nodeVars, topologyVars,
     voteMsgs
<1>17. ASSUME NEW n \in Node, NEW p \in Node, ReceiveAck(n, p) PROVE Same
  BY <1>17 DEF Voters, Head, BroadcastInv, ReceiveAck, nodeVars, topologyVars, voteMsgs
<1>18. ASSUME NEW n \in Node, NEW p \in Node, TopologyCallFails(n, p) PROVE Same
  BY <1>18 DEF Voters, Head, BroadcastInv, TopologyCallFails, nodeVars, topologyVars,
     voteMsgs
<1>19. ASSUME UNCHANGED vars PROVE Same
  BY <1>19 DEF Voters, Head, vars, nodeVars, topologyVars, voteMsgs, topologyMsgs
<1> QED
  BY <1>0, <1>1, <1>2, <1>3, <1>4, <1>5, <1>6, <1>7, <1>8, <1>9, <1>10, <1>11, <1>12,
     <1>13, <1>14, <1>15, <1>16, <1>17, <1>18, <1>19 DEF Next, Progress

-----------------------------------------------------------------------------
(* The invariant and what follows from it.                                 *)

\* The inductive invariant holds initially.
LEMMA IInvInit == Init => IInv
  BY TypeInit, RoundInit, VoteInit, CountInit, AdoptedInit DEF IInv

\* Every step preserves the inductive invariant.
LEMMA IInvNext == IInv /\ [Next]_vars => IInv'
<1> SUFFICES ASSUME IInv, [Next]_vars PROVE IInv'
  OBVIOUS
<1>1. TypeOK'
  BY TypeNext DEF IInv
<1>2. RoundInv'
  BY <1>1, RoundNext DEF IInv
<1>3. VoteInv' /\ OneVotePerTerm'
  BY <1>1, VoteNext DEF IInv
<1>4. AdoptedNeverCampaigns'
  BY AdoptedNext DEF IInv
<1>5. BroadcastInv'
  BY <1>1, BroadcastNext DEF IInv
<1>6. HeadExists' /\ CapacityFromFollowers'
  BY <1>1, FollowersNext DEF IInv
<1>7. CountInv'
  BY <1>1, CountNext DEF IInv
<1> QED
  BY <1>1, <1>2, <1>3, <1>4, <1>5, <1>6, <1>7 DEF IInv

\* The inductive invariant holds of every reachable state of the orchestrator.
THEOREM Invariance == Spec => []IInv
  BY IInvInit, IInvNext, PTL DEF Spec

\* Every variable of the orchestrator keeps its type.
THEOREM TypeCorrect == Spec => []TypeOK
<1>1. IInv => TypeOK
  BY DEF IInv
<1> QED
  BY <1>1, Invariance, PTL

\* Two winners of a term would share a voter, who has one vote per term.
LEMMA WinnersAreUnique == IInv => ElectionSafety
<1> SUFFICES ASSUME IInv, NEW m \in Node, NEW n \in Node, Head(m), Head(n),
                    topology_term[m] = topology_term[n]
             PROVE  m = n
  BY DEF ElectionSafety
<1>1. ASSUME NEW i \in Node, Head(i)
      PROVE  /\ proposed_term[i] > 0 /\ proposed_term[i] = topology_term[i]
             /\ Majority(Cardinality(Voters(i)))
             /\ Voters(i) \subseteq Node
             /\ \A v \in Voters(i) : HasVote(v, i)
  BY <1>1 DEF IInv, CountInv, Voters, HasVote
<1>2. PICK v \in Voters(m) : v \in Voters(n)
  <2>1. Cardinality(Voters(m)) + Cardinality(Voters(n)) > Cardinality(Node)
    BY <1>1, NodeAssumption, FS_CardinalityType, VotersFinite DEF Majority
  <2> QED
    BY <1>1, <2>1, NodeAssumption, FS_MajoritiesIntersect
<1>3. v \in Node /\ HasVote(v, m) /\ HasVote(v, n) /\ proposed_term[m] = proposed_term[n]
  BY <1>1, <1>2
<1> QED
  BY <1>3 DEF IInv, OneVotePerTerm

\* No term of an election has two winners, for clusters of every size.
THEOREM OneWinnerPerTerm == Spec => []ElectionSafety
  BY Invariance, WinnersAreUnique, PTL

\* Every adopted topology is headed by its coordinator.
THEOREM EveryTopologyHasItsHead == Spec => []HeadExists
<1>1. IInv => HeadExists
  BY DEF IInv
<1> QED
  BY <1>1, Invariance, PTL

\* The memory that a head knows of is that of its own followers.
THEOREM CapacitiesAreOfFollowers == Spec => []CapacityFromFollowers
<1>1. IInv => CapacityFromFollowers
  BY DEF IInv
<1> QED
  BY <1>1, Invariance, PTL

\* A node with a topology is never CANDIDATE.
THEOREM ElectionIsOver == Spec => []AdoptedNeverCampaigns
<1>1. IInv => AdoptedNeverCampaigns
  BY DEF IInv
<1> QED
  BY <1>1, Invariance, PTL

\* No step replaces a topology.
THEOREM TopologyIsFinal == Spec => TopologyFinal
<1>1. IInv /\ [Next]_vars => TopologyKept
  BY TopologyStep DEF IInv
<1>2. IInv /\ [Next]_vars => [TopologyKept]_vars
  BY <1>1
<1> QED
  BY <1>2, Invariance, PTL DEF Spec, TopologyFinal

\* No step takes a vote back within its term, or a term back.
THEOREM VoteIsFinal == Spec => VoteFinal
<1>1. IInv /\ [Next]_vars => [VoteKept]_vars
  BY VoteStep DEF IInv
<1> QED
  BY <1>1, Invariance, PTL DEF Spec, VoteFinal

-----------------------------------------------------------------------------
(* Refinement.                                                             *)

\* The initial state maps to the initial state of TopologyChoice.
LEMMA ChoiceInitially == Init => Choice!ChoiceInit
  BY NoneAssumption DEF Init, Choice!ChoiceInit, ElectedTerm, Head

\* What a step may do to the topologies.
LEMMA TopologyCases ==
  ASSUME IInv, [Next]_vars
  PROVE  \/ UNCHANGED topologyVars
         \/ \E n \in Node, c \in Node, t \in Nat :
              /\ topology_config[n] = None
              /\ c = n \/ Head(c)
              /\ topology_config' = [topology_config EXCEPT ![n] = c]
              /\ topology_term' = [topology_term EXCEPT ![n] = t]
<1> DEFINE Goal ==
         \/ UNCHANGED topologyVars
         \/ \E n \in Node, c \in Node, t \in Nat :
              /\ topology_config[n] = None
              /\ c = n \/ Head(c)
              /\ topology_config' = [topology_config EXCEPT ![n] = c]
              /\ topology_term' = [topology_term EXCEPT ![n] = t]
<1>0. TypeOK /\ AdoptedNeverCampaigns /\ BroadcastInv
  BY DEF IInv
<1>1. ASSUME NEW n \in Node, ServeCluster(n) PROVE Goal
  BY <1>1 DEF ServeCluster, GoTo, nodeVars, topologyVars, voteMsgs, topologyMsgs
<1>2. ASSUME NEW n \in Node, ElectionTimeout(n) PROVE Goal
  <2>1. topology_config[n] = None /\ current_term[n] + 1 \in Nat
    BY <1>2, <1>0 DEF ElectionTimeout, TypeOK
  <2> QED
    BY <1>2, <2>1 DEF ElectionTimeout, BecomeLeader
<1>3. ASSUME NEW n \in Node, AbandonCampaign(n) PROVE Goal
  BY <1>3 DEF AbandonCampaign, GoTo, nodeVars, topologyVars, voteMsgs, topologyMsgs
<1>4. ASSUME NEW n \in Node, RequestVotes(n) PROVE Goal
  BY <1>4 DEF RequestVotes, GoTo, Peers, nodeVars, topologyVars, topologyMsgs
<1>5. ASSUME NEW n \in Node, FinishRound(n) PROVE Goal
  BY <1>5 DEF FinishRound, GoTo, nodeVars, topologyVars, voteMsgs, topologyMsgs
<1>6. ASSUME NEW n \in Node, Return(n) PROVE Goal
  BY <1>6 DEF Return, GoTo, nodeVars, topologyVars, voteMsgs, topologyMsgs
<1>7. ASSUME NEW n \in Node, FinishBroadcast(n) PROVE Goal
  BY <1>7 DEF FinishBroadcast, GoTo, nodeVars, topologyVars, voteMsgs, topologyMsgs
<1>8. ASSUME NEW n \in Node, RejectVoteFinalized(n) PROVE Goal
  BY <1>8 DEF RejectVoteFinalized, ReplyVote, VoteCallOpen, nodeVars, topologyVars,
     topologyMsgs
<1>9. ASSUME NEW n \in Node, RequestVote(n) PROVE Goal
  BY <1>9 DEF RequestVote, ReplyVote, VoteCallOpen, topologyVars, topologyMsgs
<1>10. ASSUME NEW n \in Node, BroadcastTopology(n) PROVE Goal
  <2>1. PICK req \in topology_requests :
          AcceptTopology(n, req, topology_config[n] = None, "FOLLOWER")
    BY <1>10 DEF BroadcastTopology
  <2>2. req.from \in Node /\ req.term \in Nat /\ Head(req.from)
    BY <1>0 DEF TypeOK, TopologyConfig, BroadcastInv
  <2> QED
    BY <2>1, <2>2 DEF AcceptTopology
<1>11. ASSUME NEW n \in Node, NEW p \in Node, PingPeer(n, p) PROVE Goal
  BY <1>11 DEF PingPeer, GoTo, nodeVars, topologyVars, voteMsgs, topologyMsgs
<1>12. ASSUME NEW n \in Node, NEW p \in Node, ReceiveVote(n, p) PROVE Goal
  BY <1>12 DEF ReceiveVote, topologyVars, topologyMsgs
<1>13. ASSUME NEW n \in Node, NEW p \in Node, VoteCallFails(n, p) PROVE Goal
  BY <1>13 DEF VoteCallFails, nodeVars, topologyVars, topologyMsgs
<1>14. ASSUME NEW n \in Node, NEW p \in Node, CountVote(n, p) PROVE Goal
  <2>1. topology_config[n] = None /\ current_term[n] \in Nat
    BY <1>14, <1>0 DEF CountVote, TypeOK, AdoptedNeverCampaigns
  <2> QED
    BY <1>14, <2>1 DEF CountVote, BecomeLeader
<1>15. ASSUME NEW n \in Node, NEW p \in Node, IgnoreStaleVote(n, p) PROVE Goal
  BY <1>15 DEF IgnoreStaleVote, GoTo, nodeVars, topologyVars, voteMsgs, topologyMsgs
<1>16. ASSUME NEW n \in Node, NEW p \in Node, SendTopology(n, p) PROVE Goal
  BY <1>16 DEF SendTopology, nodeVars, topologyVars, voteMsgs
<1>17. ASSUME NEW n \in Node, NEW p \in Node, ReceiveAck(n, p) PROVE Goal
  BY <1>17 DEF ReceiveAck, nodeVars, topologyVars, voteMsgs
<1>18. ASSUME NEW n \in Node, NEW p \in Node, TopologyCallFails(n, p) PROVE Goal
  BY <1>18 DEF TopologyCallFails, nodeVars, topologyVars, voteMsgs
<1>19. CASE UNCHANGED vars
  BY <1>19 DEF vars, nodeVars, topologyVars, voteMsgs, topologyMsgs
<1> QED
  BY <1>1, <1>2, <1>3, <1>4, <1>5, <1>6, <1>7, <1>8, <1>9, <1>10, <1>11, <1>12, <1>13,
     <1>14, <1>15, <1>16, <1>17, <1>18, <1>19 DEF Next, Progress

\* Every step maps to an Elect, an Adopt or a stuttering step: a winner's
\* term is new because winners are unique in it.
LEMMA ChoiceStep ==
  IInv /\ IInv' /\ [Next]_vars => [Choice!ChoiceNext]_(Choice!choiceVars)
<1> SUFFICES ASSUME IInv, IInv', [Next]_vars
             PROVE  [Choice!ChoiceNext]_(Choice!choiceVars)
  OBVIOUS
<1> USE NoneAssumption
<1>1. CASE UNCHANGED topologyVars
  BY <1>1 DEF topologyVars, Choice!choiceVars, ElectedTerm, Head
<1>2. ASSUME NEW n \in Node, NEW c \in Node, NEW t \in Nat,
             topology_config[n] = None,
             c = n \/ Head(c),
             topology_config' = [topology_config EXCEPT ![n] = c],
             topology_term' = [topology_term EXCEPT ![n] = t]
      PROVE  Choice!ChoiceNext
  <2>0. /\ topology_config \in [Node -> Node \cup {None}]
        /\ topology_term \in [Node -> Nat]
        /\ ElectedTerm \in [Node -> Nat]
        /\ ElectedTerm[n] = 0
    BY <1>2 DEF IInv, TypeOK, ElectedTerm, Head
  <2>1. CASE c = n
    <3>1. Head(n)' /\ topology_term'[n] = t
      BY <1>2, <2>0, <2>1 DEF Head
    <3>2. t \in 1..MaxTerm
      BY <3>1, MaxTermAssumption DEF IInv, CountInv, RoundInv, TypeOK
    <3>3. ASSUME NEW m \in Node PROVE ElectedTerm[m] # t
      <4>1. CASE Head(m)
        <5>1. m # n /\ Head(m)' /\ topology_term'[m] = topology_term[m]
          BY <1>2, <2>0, <4>1 DEF Head
        <5>2. ElectionSafety'
          BY WinnersAreUnique, PTL
        <5> QED
          BY <3>1, <4>1, <5>1, <5>2 DEF ElectionSafety, ElectedTerm
      <4>2. CASE ~Head(m)
        BY <3>2, <4>2 DEF ElectedTerm
      <4> QED
        BY <4>1, <4>2
    <3>4. ElectedTerm' = [ElectedTerm EXCEPT ![n] = t]
      BY <1>2, <2>0, <2>1 DEF ElectedTerm, Head
    <3>5. Choice!Elect(n, t)
      BY <1>2, <2>1, <3>3, <3>4 DEF Choice!Elect
    <3> QED
      BY <3>2, <3>5 DEF Choice!ChoiceNext
  <2>2. CASE c # n
    <3>1. ElectedTerm[c] > 0
      BY <1>2, <2>2 DEF IInv, CountInv, ElectedTerm
    <3>2. ElectedTerm' = ElectedTerm
      BY <1>2, <2>0, <2>2 DEF ElectedTerm, Head
    <3>3. Choice!Adopt(n, c)
      BY <1>2, <3>1, <3>2 DEF Choice!Adopt
    <3> QED
      BY <3>3 DEF Choice!ChoiceNext
  <2> QED
    BY <2>1, <2>2
<1> QED
  BY <1>1, <1>2, TopologyCases

\* The orchestrator implements the abstract choice of topologies.
THEOREM ElectionImplementsChoice == Spec => ImplementsChoice
  BY Invariance, ChoiceInitially, ChoiceStep, PTL DEF Spec, ImplementsChoice,
     Choice!ChoiceSpec

-----------------------------------------------------------------------------
(* The ping barrier.                                                       *)

\* At the start every peer is pending.
LEMMA BarrierInit == Init => BarrierInv
  BY DEF Init, BarrierInv, Online, Peers

\* Every step keeps what nodes know of their peers true.
LEMMA BarrierNext ==
  TypeOK /\ BarrierInv /\ [Next]_vars => BarrierInv'
<1> SUFFICES ASSUME TypeOK, BarrierInv, [Next]_vars PROVE BarrierInv'
  OBVIOUS
<1> USE DEF TypeOK, BarrierInv, Online, Peers
<1>1. ASSUME NEW n \in Node, ServeCluster(n) PROVE BarrierInv'
  <2>1. CASE Peers(n) = {}
    <3>1. \A p \in Node : p = n
      BY <2>1
    <3> QED
      BY <1>1, <3>1 DEF ServeCluster, GoTo, nodeVars, voteMsgs
  <2>2. CASE Peers(n) # {}
    BY <1>1, <2>2 DEF ServeCluster, GoTo, nodeVars, voteMsgs
  <2> QED
    BY <2>1, <2>2
<1>2. ASSUME NEW n \in Node, ElectionTimeout(n) PROVE BarrierInv'
  BY <1>2 DEF ElectionTimeout, BecomeLeader, GoTo, topologyVars, voteMsgs, topologyMsgs
<1>3. ASSUME NEW n \in Node, AbandonCampaign(n) PROVE BarrierInv'
  BY <1>3 DEF AbandonCampaign, GoTo, nodeVars, topologyVars, voteMsgs, topologyMsgs
<1>4. ASSUME NEW n \in Node, RequestVotes(n) PROVE BarrierInv'
  BY <1>4 DEF RequestVotes, GoTo, Peers, nodeVars, topologyVars, topologyMsgs
<1>5. ASSUME NEW n \in Node, FinishRound(n) PROVE BarrierInv'
  BY <1>5 DEF FinishRound, GoTo, nodeVars, topologyVars, voteMsgs, topologyMsgs
<1>6. ASSUME NEW n \in Node, Return(n) PROVE BarrierInv'
  BY <1>6 DEF Return, GoTo, nodeVars, topologyVars, voteMsgs, topologyMsgs
<1>7. ASSUME NEW n \in Node, FinishBroadcast(n) PROVE BarrierInv'
  BY <1>7 DEF FinishBroadcast, GoTo, nodeVars, topologyVars, voteMsgs, topologyMsgs
<1>8. ASSUME NEW n \in Node, RejectVoteFinalized(n) PROVE BarrierInv'
  BY <1>8 DEF RejectVoteFinalized, ReplyVote, VoteCallOpen, nodeVars, topologyVars,
     topologyMsgs
<1>9. ASSUME NEW n \in Node, RequestVote(n) PROVE BarrierInv'
  BY <1>9 DEF RequestVote, ReplyVote, VoteCallOpen, topologyVars, topologyMsgs
<1>10. ASSUME NEW n \in Node, BroadcastTopology(n) PROVE BarrierInv'
  BY <1>10 DEF BroadcastTopology, AcceptTopology, topologyVars, voteMsgs
<1>11. ASSUME NEW n \in Node, NEW p \in Node, PingPeer(n, p) PROVE BarrierInv'
  BY <1>11 DEF PingPeer, GoTo, nodeVars, topologyVars, voteMsgs, topologyMsgs
<1>12. ASSUME NEW n \in Node, NEW p \in Node, ReceiveVote(n, p) PROVE BarrierInv'
  BY <1>12 DEF ReceiveVote, topologyVars, topologyMsgs
<1>13. ASSUME NEW n \in Node, NEW p \in Node, VoteCallFails(n, p) PROVE BarrierInv'
  BY <1>13 DEF VoteCallFails, nodeVars, topologyVars, topologyMsgs
<1>14. ASSUME NEW n \in Node, NEW p \in Node, CountVote(n, p) PROVE BarrierInv'
  BY <1>14 DEF CountVote, BecomeLeader, GoTo, topologyVars, voteMsgs, topologyMsgs
<1>15. ASSUME NEW n \in Node, NEW p \in Node, IgnoreStaleVote(n, p) PROVE BarrierInv'
  BY <1>15 DEF IgnoreStaleVote, GoTo, nodeVars, topologyVars, voteMsgs, topologyMsgs
<1>16. ASSUME NEW n \in Node, NEW p \in Node, SendTopology(n, p) PROVE BarrierInv'
  BY <1>16 DEF SendTopology, nodeVars, topologyVars, voteMsgs
<1>17. ASSUME NEW n \in Node, NEW p \in Node, ReceiveAck(n, p) PROVE BarrierInv'
  BY <1>17 DEF ReceiveAck, nodeVars, topologyVars, voteMsgs
<1>18. ASSUME NEW n \in Node, NEW p \in Node, TopologyCallFails(n, p) PROVE BarrierInv'
  BY <1>18 DEF TopologyCallFails, nodeVars, topologyVars, voteMsgs
<1>19. CASE UNCHANGED vars
  BY <1>19 DEF vars, nodeVars, topologyVars, voteMsgs, topologyMsgs
<1> QED
  BY <1>1, <1>2, <1>3, <1>4, <1>5, <1>6, <1>7, <1>8, <1>9, <1>10, <1>11, <1>12, <1>13,
     <1>14, <1>15, <1>16, <1>17, <1>18, <1>19 DEF Next, Progress

\* Nobody campaigns before every server of the cluster is listening.
THEOREM BarrierHolds == Spec => []NoCampaignBeforeBarrier
<1>1. BarrierInv => NoCampaignBeforeBarrier
  BY DEF BarrierInv, NoCampaignBeforeBarrier
<1>2. Spec => []BarrierInv
  BY BarrierInit, BarrierNext, TypeCorrect, PTL DEF Spec
<1> QED
  BY <1>1, <1>2, PTL

-----------------------------------------------------------------------------
(* The broadcast, when no topology call is lost.                           *)

\* There is neither a winner nor a topology call at the start.
LEMMA ToldInit == Init => ToldInv
  BY NoneAssumption DEF Init, ToldInv, Head, Asked, Answers

\* A pair of nodes that a step does not touch stays in its phase.
LEMMA PhaseKept ==
  ASSUME NEW w \in Node, NEW p \in Peers(w), ToldInv, topology_call'[w][p] = topology_call[w][p],
         pc[w] = "broadcast" => pc'[w] = "broadcast",
         topology_config'[w] = w <=> topology_config[w] = w,
         \/ topology_config'[p] = topology_config[p]
         \/ topology_config[p] = None /\ topology_config'[p] # w,
         peer_capacities[w] \subseteq peer_capacities'[w],
         UNCHANGED <<Asked(w, p), Answers(w, p)>>
  PROVE  IF Head(w)' THEN ToldPhase(w, p)' ELSE Asked(w, p)' = {} /\ Answers(w, p)' = {}
<1>1. CASE ~Head(w)
  BY <1>1 DEF ToldInv, Head
<1>2. CASE Head(w)
  <2>1. ToldPhase(w, p) /\ Head(w)'
    BY <1>2 DEF ToldInv, Head
  <2>2. \A q : Asked(w, p) = {q} /\ q \in topology_requests => q \in topology_requests'
    BY DEF Asked
  <2>3. topology_config[p] # None => topology_config'[p] = topology_config[p]
    OBVIOUS
  <2>4. topology_config[p] # w => topology_config'[p] # w
    OBVIOUS
  <2>5. ToldPhase(w, p)'
    BY <2>1, <2>2, <2>3, <2>4 DEF ToldPhase
  <2> QED
    BY <2>1, <2>5
<1> QED
  BY <1>1, <1>2

\* So does every pair in a step that leaves the broadcast alone.
LEMMA BroadcastAlone ==
  ASSUME ToldInv, \A w \in Node : pc[w] = "broadcast" => pc'[w] = "broadcast",
         UNCHANGED <<topologyVars, peer_capacities, topology_call, topologyMsgs>>
  PROVE  ToldInv'
<1> SUFFICES ASSUME NEW w \in Node, NEW p \in Peers(w)
             PROVE  IF Head(w)' THEN ToldPhase(w, p)'
                    ELSE Asked(w, p)' = {} /\ Answers(w, p)' = {}
  BY DEF ToldInv, Peers
<1>1. UNCHANGED <<Asked(w, p), Answers(w, p)>>
  BY DEF topologyMsgs, Asked, Answers
<1> QED
  BY <1>1, PhaseKept DEF topologyVars

\* The winner has a call to make to every peer; none of them follows it yet.
LEMMA WinnerTellsAll ==
  ASSUME TypeOK, HeadExists, ToldInv, NEW n \in Node, NEW term \in Nat,
         topology_config[n] = None, BecomeLeader(n, term),
         UNCHANGED <<peer_capacities, topologyMsgs>>
  PROVE  ToldInv'
<1> USE NoneAssumption
<1> SUFFICES ASSUME NEW w \in Node, NEW p \in Peers(w)
             PROVE  IF Head(w)' THEN ToldPhase(w, p)'
                    ELSE Asked(w, p)' = {} /\ Answers(w, p)' = {}
  BY DEF ToldInv, Peers
<1>1. p \in Node /\ p # w
  BY DEF Peers
<1>2. UNCHANGED <<Asked(w, p), Answers(w, p)>>
  BY DEF topologyMsgs, Asked, Answers
<1>3. \A m \in Node : topology_config'[m] = IF m = n THEN n ELSE topology_config[m]
  BY DEF BecomeLeader, TypeOK
<1>4. topology_call' = [topology_call EXCEPT ![n] = [q \in Node |-> IF q = n THEN "none" ELSE "ready"]]
  BY DEF BecomeLeader
<1>5. pc'[n] = "broadcast" /\ \A m \in Node : m # n => pc'[m] = pc[m]
  BY DEF BecomeLeader, GoTo, TypeOK
<1>6. CASE w = n
  <2>1. ~Head(w) /\ Head(w)'
    BY <1>3, <1>6 DEF Head
  <2>2. Asked(w, p)' = {} /\ Answers(w, p)' = {}
    BY <1>2, <2>1 DEF ToldInv
  <2>3. topology_config[p] # n
    BY <1>1, <1>6, <2>1 DEF HeadExists
  <2>4. topology_call'[w][p] = "ready"
    BY <1>1, <1>4, <1>6 DEF TypeOK
  <2> QED
    BY <1>1, <1>3, <1>5, <1>6, <2>1, <2>2, <2>3, <2>4 DEF ToldPhase
<1>7. CASE w # n
  <2>1. topology_call'[w][p] = topology_call[w][p]
    BY <1>4, <1>7 DEF TypeOK
  <2>2. topology_config'[w] = topology_config[w]
    BY <1>3, <1>7
  <2>3. \/ topology_config'[p] = topology_config[p]
        \/ topology_config[p] = None /\ topology_config'[p] # w
    BY <1>1, <1>3, <1>7
  <2> QED
    BY <1>2, <1>5, <1>7, <2>1, <2>2, <2>3, PhaseKept
<1> QED
  BY <1>6, <1>7

\* A call is made.
LEMMA SendTold ==
  ASSUME TypeOK, BroadcastInv, ToldInv, NEW n \in Node, NEW m \in Node, SendTopology(n, m)
  PROVE  ToldInv'
<1> SUFFICES ASSUME NEW w \in Node, NEW p \in Peers(w)
             PROVE  IF Head(w)' THEN ToldPhase(w, p)'
                    ELSE Asked(w, p)' = {} /\ Answers(w, p)' = {}
  BY DEF ToldInv, Peers
<1> DEFINE request == [from |-> n, to |-> m, term |-> ReadTerm(n)]
<1>1. /\ topology_requests' = topology_requests \cup {request}
      /\ topology_call' = [topology_call EXCEPT ![n][m] = "open"]
      /\ UNCHANGED <<topologyVars, peer_capacities, pc, topology_replies>>
  BY DEF SendTopology
<1>2. topology_call[n][m] = "ready" /\ Head(n) /\ m # n
  BY DEF SendTopology, Untold, BroadcastInv
<1>3. p \in Node /\ p # w
  BY DEF Peers
<1>4. Answers(w, p)' = Answers(w, p)
  BY <1>1 DEF Answers
<1>5. CASE w = n /\ p = m
  <2>1. ToldPhase(w, p) /\ Head(w)'
    BY <1>1, <1>2, <1>5 DEF ToldInv, Head, topologyVars
  <2>2. pc[w] = "broadcast" /\ topology_config[p] # w /\ Asked(w, p) = {} /\ Answers(w, p) = {}
    BY <1>2, <1>5, <2>1 DEF ToldPhase
  <2>3. Asked(w, p)' = {request}
    BY <1>1, <1>5, <2>2 DEF Asked
  <2>4. topology_call'[w][p] = "open"
    BY <1>1, <1>3, <1>5 DEF TypeOK
  <2>5. request \in topology_requests'
    BY <1>1
  <2> HIDE DEF request
  <2> QED
    BY <1>1, <1>4, <2>1, <2>2, <2>3, <2>4, <2>5 DEF ToldPhase, topologyVars
<1>6. CASE ~(w = n /\ p = m)
  <2>1. Asked(w, p)' = Asked(w, p)
    BY <1>1, <1>6 DEF Asked
  <2>2. topology_call'[w][p] = topology_call[w][p]
    BY <1>1, <1>3, <1>6 DEF TypeOK
  <2> QED
    BY <1>1, <1>4, <2>1, <2>2, PhaseKept DEF topologyVars
<1> QED
  BY <1>5, <1>6

\* An answer is received, with the capacity if it is a yes.
LEMMA AckTold ==
  ASSUME TypeOK, ToldInv, NEW n \in Node, NEW m \in Node, ReceiveAck(n, m)
  PROVE  ToldInv'
<1> SUFFICES ASSUME NEW w \in Node, NEW p \in Peers(w)
             PROVE  IF Head(w)' THEN ToldPhase(w, p)'
                    ELSE Asked(w, p)' = {} /\ Answers(w, p)' = {}
  BY DEF ToldInv, Peers
<1>1. PICK r \in topology_replies :
        /\ r.to = n /\ r.from = m
        /\ topology_call' = [topology_call EXCEPT ![n][m] = "done"]
        /\ topology_replies' = {x \in topology_replies : ~(x.to = n /\ x.from = m)}
        /\ peer_capacities' = [peer_capacities EXCEPT ![n] =
                                 IF r.ok THEN peer_capacities[n] \cup {m} ELSE peer_capacities[n]]
        /\ UNCHANGED <<topologyVars, pc, topology_requests>>
  BY DEF ReceiveAck, Brings
<1>2. p \in Node /\ p # w
  BY DEF Peers
<1>3. Asked(w, p)' = Asked(w, p)
  BY <1>1 DEF Asked
<1>4. CASE w = n /\ p = m
  <2>1. r \in Answers(w, p)
    BY <1>1, <1>4 DEF Answers
  <2>2. ToldPhase(w, p) /\ Head(w) /\ Head(w)'
    BY <1>1, <2>1 DEF ToldInv, Head, topologyVars
  <2>3. /\ topology_config[p] # None /\ Asked(w, p) = {}
        /\ r = [from |-> p, to |-> w, ok |-> (topology_config[p] = w)]
    BY <2>1, <2>2 DEF ToldPhase
  <2>4. Answers(w, p)' = {}
    BY <1>1, <1>4 DEF Answers
  <2>5. ASSUME topology_config[p] = w PROVE p \in peer_capacities'[w]
    <3>1. r.ok
      BY <2>3, <2>5, Zenon
    <3>2. peer_capacities' = [peer_capacities EXCEPT ![n] = peer_capacities[n] \cup {m}]
      BY <1>1, <3>1
    <3> QED
      BY <1>4, <3>2 DEF TypeOK
  <2>6. topology_call'[w][p] = "done"
    BY <1>1, <1>2, <1>4 DEF TypeOK
  <2> QED
    BY <1>1, <1>3, <2>2, <2>3, <2>4, <2>5, <2>6 DEF ToldPhase, topologyVars
<1>5. CASE ~(w = n /\ p = m)
  <2>1. Answers(w, p)' = Answers(w, p)
    BY <1>1, <1>5 DEF Answers
  <2>2. topology_call'[w][p] = topology_call[w][p]
    BY <1>1, <1>2, <1>5 DEF TypeOK
  <2>3. peer_capacities[w] \subseteq peer_capacities'[w]
    BY <1>1 DEF TypeOK
  <2> QED
    BY <1>1, <1>3, <2>1, <2>2, <2>3, PhaseKept DEF topologyVars
<1> QED
  BY <1>4, <1>5

\* A request is handled: the node has a topology from then on, and says whose.
LEMMA AcceptTold ==
  ASSUME TypeOK, BroadcastInv, ToldInv, NEW n \in Node, BroadcastTopology(n)
  PROVE  ToldInv'
<1> USE NoneAssumption
<1> SUFFICES ASSUME NEW w \in Node, NEW p \in Peers(w)
             PROVE  IF Head(w)' THEN ToldPhase(w, p)'
                    ELSE Asked(w, p)' = {} /\ Answers(w, p)' = {}
  BY DEF ToldInv, Peers
<1>1. PICK req \in topology_requests :
        AcceptTopology(n, req, topology_config[n] = None, "FOLLOWER")
  BY DEF BroadcastTopology
<1>2. /\ req.to = n /\ req.from \in Node /\ req.from # n /\ Head(req.from)
      /\ topology_requests' = topology_requests \ {req}
      /\ UNCHANGED <<pc, topology_call>>
  BY <1>1 DEF AcceptTopology, BroadcastInv, TypeOK, TopologyConfig
<1> DEFINE answer == [from |-> n, to |-> req.from, ok |-> (topology_config[n] = None)]
<1>3. topology_replies' = IF topology_call[req.from][n] = "open"
                          THEN topology_replies \cup {answer} ELSE topology_replies
  BY <1>1 DEF AcceptTopology
<1>4. \A m \in Node : topology_config'[m] =
        IF m = n /\ topology_config[n] = None THEN req.from ELSE topology_config[m]
  BY <1>1 DEF AcceptTopology, topologyVars, TypeOK
<1>5. peer_capacities[w] \subseteq peer_capacities'[w]
  BY <1>1 DEF AcceptTopology, TypeOK
<1>6. p \in Node /\ p # w
  BY DEF Peers
<1>7. topology_config'[w] = w <=> topology_config[w] = w
  BY <1>2, <1>4
<1>8. CASE w = req.from /\ p = n
  <2>1. req \in Asked(w, p)
    BY <1>2, <1>8 DEF Asked
  <2>2. ToldPhase(w, p) /\ Head(w)'
    BY <1>2, <1>7, <1>8 DEF ToldInv, Head
  <2>3. /\ topology_call[w][p] = "open" /\ pc[w] = "broadcast" /\ topology_config[p] # w
        /\ Asked(w, p) = {req} /\ Answers(w, p) = {}
    BY <2>1, <2>2 DEF ToldPhase
  <2>4. Asked(w, p)' = {}
    BY <1>2, <2>3 DEF Asked
  <2>5. Answers(w, p)' = {answer}
    BY <1>3, <1>8, <2>3 DEF Answers
  <2>6. topology_config'[p] # None /\ (topology_config'[p] = w <=> topology_config[p] = None)
    BY <1>4, <1>8, <2>3
  <2>7. answer = [from |-> p, to |-> w, ok |-> (topology_config'[p] = w)]
    BY <1>8, <2>6
  <2> HIDE DEF answer
  <2> QED
    BY <1>2, <2>2, <2>3, <2>4, <2>5, <2>6, <2>7 DEF ToldPhase
<1>9. CASE ~(w = req.from /\ p = n)
  <2>1. Asked(w, p)' = Asked(w, p)
    BY <1>2, <1>9 DEF Asked
  <2>2. Answers(w, p)' = Answers(w, p)
    BY <1>3, <1>9 DEF Answers
  <2>3. \/ topology_config'[p] = topology_config[p]
        \/ topology_config[p] = None /\ topology_config'[p] # w
    BY <1>4, <1>6, <1>9
  <2> QED
    BY <1>2, <1>5, <1>7, <2>1, <2>2, <2>3, PhaseKept
<1> QED
  BY <1>8, <1>9

\* Every step but the loss of a topology call keeps every peer in a phase.
LEMMA ToldNext ==
  ASSUME IInv, ToldInv, [Progress]_vars
  PROVE  ToldInv'
<1>0. TypeOK /\ AdoptedNeverCampaigns /\ BroadcastInv /\ HeadExists
  BY DEF IInv
<1>1. ASSUME NEW n \in Node, ElectionTimeout(n) PROVE ToldInv'
  <2>1. topology_config[n] = None /\ current_term[n] + 1 \in Nat
    BY <1>0, <1>1 DEF ElectionTimeout, TypeOK
  <2>2. UNCHANGED <<peer_capacities, topologyMsgs>>
    BY <1>1 DEF ElectionTimeout
  <2>3. CASE BecomeLeader(n, current_term[n] + 1)
    BY <1>0, <2>1, <2>2, <2>3, WinnerTellsAll
  <2>4. CASE GoTo(n, "campaign") /\ UNCHANGED <<topologyVars, topology_call>>
    <3>1. \A w \in Node : pc[w] = "broadcast" => pc'[w] = "broadcast"
      BY <1>0, <1>1, <2>4 DEF ElectionTimeout, GoTo, TypeOK
    <3> QED
      BY <2>2, <2>4, <3>1, BroadcastAlone
  <2> QED
    BY <1>1, <2>3, <2>4 DEF ElectionTimeout
<1>2. ASSUME NEW n \in Node, NEW p \in Node, CountVote(n, p) PROVE ToldInv'
  <2>1. topology_config[n] = None /\ current_term[n] \in Nat
    BY <1>0, <1>2 DEF CountVote, Counts, TypeOK, AdoptedNeverCampaigns
  <2>2. UNCHANGED <<peer_capacities, topologyMsgs>>
    BY <1>2 DEF CountVote
  <2>3. CASE BecomeLeader(n, current_term[n])
    BY <1>0, <2>1, <2>2, <2>3, WinnerTellsAll
  <2>4. CASE UNCHANGED <<state, topologyVars, topology_call, pc>>
    BY <2>2, <2>4, BroadcastAlone
  <2> QED
    BY <1>2, <2>3, <2>4 DEF CountVote
<1>3. ASSUME NEW n \in Node, FinishBroadcast(n) PROVE ToldInv'
  <2>1. \A p \in Peers(n) : topology_call[n][p] = "done"
    BY <1>3 DEF FinishBroadcast
  <2>2. /\ UNCHANGED <<topologyVars, peer_capacities, topology_call, topologyMsgs>>
        /\ \A w \in Node : w # n => pc'[w] = pc[w]
    BY <1>0, <1>3 DEF FinishBroadcast, GoTo, TypeOK
  <2> SUFFICES ASSUME NEW w \in Node, NEW p \in Peers(w)
               PROVE  IF Head(w)' THEN ToldPhase(w, p)'
                      ELSE Asked(w, p)' = {} /\ Answers(w, p)' = {}
    BY DEF ToldInv, Peers
  <2>3. UNCHANGED <<Asked(w, p), Answers(w, p)>>
    BY <2>2 DEF topologyMsgs, Asked, Answers
  <2>4. CASE w = n /\ Head(w)
    BY <2>1, <2>2, <2>3, <2>4 DEF ToldInv, ToldPhase, Head, topologyVars
  <2>5. CASE w = n /\ ~Head(w)
    BY <2>2, <2>3, <2>5 DEF ToldInv, Head, topologyVars
  <2>6. CASE w # n
    BY <2>2, <2>3, <2>6, PhaseKept DEF topologyVars
  <2> QED
    BY <2>4, <2>5, <2>6
<1>4. ASSUME NEW n \in Node,
             \/ ServeCluster(n) \/ AbandonCampaign(n) \/ RequestVotes(n) \/ FinishRound(n)
             \/ Return(n) \/ \E p \in Node : PingPeer(n, p) \/ IgnoreStaleVote(n, p)
      PROVE  ToldInv'
  <2>1. /\ pc[n] # "broadcast" /\ (\E label : GoTo(n, label))
        /\ UNCHANGED <<topologyVars, peer_capacities, topology_call, topologyMsgs>>
    BY <1>4 DEF ServeCluster, AbandonCampaign, RequestVotes, FinishRound, Return, PingPeer,
       IgnoreStaleVote
  <2>2. \A w \in Node : pc[w] = "broadcast" => pc'[w] = "broadcast"
    BY <1>0, <2>1 DEF GoTo, TypeOK
  <2> QED
    BY <2>1, <2>2, BroadcastAlone
<1>5. ASSUME NEW n \in Node,
             \/ RejectVoteFinalized(n) \/ RequestVote(n)
             \/ \E p \in Node : ReceiveVote(n, p) \/ VoteCallFails(n, p)
      PROVE  ToldInv'
  <2>1. UNCHANGED <<topologyVars, peer_capacities, topology_call, topologyMsgs, pc>>
    BY <1>5 DEF RejectVoteFinalized, RequestVote, ReceiveVote, VoteCallFails
  <2> QED
    BY <2>1, BroadcastAlone
<1>6. CASE UNCHANGED vars
  BY <1>6, BroadcastAlone DEF vars
<1> QED
  BY <1>0, <1>1, <1>2, <1>3, <1>4, <1>5, <1>6, SendTold, AckTold, AcceptTold DEF Progress

\* When no topology call is lost, a winner that has left its broadcast has told
\* everybody, and knows the capacities of exactly the peers that follow it.
THEOREM WinnerKnowsItsFollowers == ReliableSpec => []HeadKnowsFollowers
<1>1. ToldInv /\ IInv => HeadKnowsFollowers
  <2> SUFFICES ASSUME ToldInv, IInv, NEW w \in Node, Head(w), pc[w] # "broadcast",
                      NEW p \in Peers(w)
               PROVE  /\ topology_config[p] # None
                      /\ p \in peer_capacities[w] <=> topology_config[p] = w
    BY DEF HeadKnowsFollowers
  <2>1. topology_config[p] # None /\ (topology_config[p] = w => p \in peer_capacities[w])
    BY DEF ToldInv, ToldPhase
  <2>2. p \in peer_capacities[w] => topology_config[p] = w
    BY DEF IInv, CapacityFromFollowers
  <2> QED
    BY <2>1, <2>2
<1>2. [Progress]_vars => [Next]_vars
  BY DEF Next
<1>3. IInv /\ ToldInv /\ [Progress]_vars => IInv' /\ ToldInv'
  BY <1>2, IInvNext, ToldNext
<1> QED
  BY <1>1, <1>3, IInvInit, ToldInit, PTL DEF ReliableSpec
=============================================================================

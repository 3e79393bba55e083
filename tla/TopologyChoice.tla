--------------------------- MODULE TopologyChoice ---------------------------
(***************************************************************************)
(* What join_cluster (orchestrator/node.py) promises to the pipeline built *)
(* on top of it, without a word about messages or threads: nodes win, each *)
(* in a term of its own, and every node follows one winner for ever.       *)
(* Several nodes may win: the code does not promise a single leader.       *)
(***************************************************************************)
EXTENDS Naturals

CONSTANTS
  Node,   \* the nodes of the cluster
  None,   \* no coordinator
  Term    \* the terms a node may win, positive numbers

VARIABLES
  elected,   \* the term in which a node won, 0 while it has not
  adopted    \* the coordinator of the topology a node follows, or None

choiceVars == <<elected, adopted>>

ChoiceInit ==
  /\ elected = [n \in Node |-> 0]
  /\ adopted = [n \in Node |-> None]

\* A node without a topology wins a term that nobody else has won.
Elect(n, term) ==
  /\ adopted[n] = None
  /\ \A m \in Node : elected[m] # term
  /\ elected' = [elected EXCEPT ![n] = term]
  /\ adopted' = [adopted EXCEPT ![n] = n]

\* A node without a topology takes that of a winner.
Adopt(n, c) ==
  /\ adopted[n] = None
  /\ elected[c] > 0
  /\ adopted' = [adopted EXCEPT ![n] = c]
  /\ UNCHANGED elected

ChoiceNext ==
  \/ \E n \in Node, term \in Term : Elect(n, term)
  \/ \E n, c \in Node : Adopt(n, c)

ChoiceSpec == ChoiceInit /\ [][ChoiceNext]_choiceVars
=============================================================================

--------------------------- MODULE TelemetryTracker ---------------------------
(***************************************************************************)
(* The tracker of the telemetry server (telemetry/tracker.py), the         *)
(* websocket endpoints that share its set of clients (telemetry/server.py) *)
(* and the charts of the browsers (telemetry/dashboard.py).                *)
(* Everything runs on one event loop: a step lasts from one suspension to  *)
(* the next, and a broadcast is suspended in every send_json.              *)
(*                                                                         *)
(* Metrics are known by their step counter and the nodes they have values  *)
(* of; send_json serialises them when it is called.  A send to an open     *)
(* websocket succeeds; one to a websocket whose peer has left may raise or *)
(* go unnoticed.  The charts of memory and times are alike, and one stands *)
(* for all; the chart of the loss has no series of its own per node.       *)
(***************************************************************************)
EXTENDS Naturals, FiniteSets

CONSTANTS
  Client,      \* websockets, each of them used once
  Node,        \* the pipeline's nodes, which send the datagrams
  MaxUpdates   \* bound on the datagrams received

ASSUME ClientAssumption == IsFiniteSet(Client)
ASSUME MaxUpdatesAssumption == MaxUpdates \in Nat \ {0}

VARIABLES
  conn,      \* "new", "open", "closed" by the peer, or "gone": the endpoint is over
  clients,
  step,      \* metrics["step"]
  vram,      \* the nodes that metrics["vram"] has a value of
  task,      \* the broadcast of each update
  overlapped,   \* whether an update has come while a broadcast was under way
  seen,      \* the metrics each dashboard was shown last, 0 before the first
  labels,    \* the steps on the axis of its chart
  series     \* the number of points it has drawn for each node

trackerVars == <<clients, step, vram, task, overlapped>>
chartVars == <<seen, labels, series>>
vars == <<conn, trackerVars, chartVars>>

Updates == 1 .. MaxUpdates

\* A broadcast: size is what the set's iterator remembers, recipients the
\* clients it found, visited those it has sent to.  A broadcast that is over keeps
\* its recipients only, and none when it has failed.
Idle == [state |-> "none", size |-> 0, recipients |-> {}, visited |-> {}, dead_clients |-> {}]

Init ==
  /\ conn = [c \in Client |-> "new"]
  /\ clients = {}
  /\ step = 0 /\ vram = {}
  /\ task = [u \in Updates |-> Idle] /\ overlapped = FALSE
  /\ seen = [c \in Client |-> 0]
  /\ labels = [c \in Client |-> {}]
  /\ series = [c \in Client |-> [n \in Node |-> 0]]

\* websocket_endpoint, up to its first receive_text.
Connect(c) ==
  /\ conn[c] = "new"
  /\ conn' = [conn EXCEPT ![c] = "open"]
  /\ clients' = clients \cup {c}
  /\ UNCHANGED <<step, vram, task, overlapped, chartVars>>

\* The browser leaves.
Disconnect(c) ==
  /\ conn[c] = "open"
  /\ conn' = [conn EXCEPT ![c] = "closed"]
  /\ UNCHANGED <<trackerVars, chartVars>>

\* Mutant: the client is left to the broadcasts.
WithoutNone(c) == clients

Without(c) == clients \ {c}

\* receive_text raises and the client is removed, with a KeyError that ends the
\* endpoint as well when a broadcast has removed it before.
EndpointEnds(c) ==
  /\ conn[c] = "closed"
  /\ conn' = [conn EXCEPT ![c] = "gone"]
  /\ clients' = Without(c)
  /\ UNCHANGED <<step, vram, task, overlapped, chartVars>>

\* Mutant: a new series is filled up to the last label.
PaddingFull(shown) == Cardinality(shown)

\* A new series is filled up to the label before the last.
Padding(shown) == Cardinality(shown) - 1

\* onmessage: a step is one label, however often it comes, but every message adds
\* a point to every series.
Draw(c, now, nodes) ==
  LET shown == labels[c] \cup {now}
      drawn(n) == IF series[c][n] > 0 THEN series[c][n] + 1
                  ELSE IF n \in nodes THEN Padding(shown) + 1 ELSE 0
  IN  /\ seen' = [seen EXCEPT ![c] = now]
      /\ labels' = [labels EXCEPT ![c] = shown]
      /\ series' = [series EXCEPT ![c] = [n \in Node |-> drawn(n)]]

\* Mutant: the metrics are copied when the broadcast starts.
SnapshotCopied(u, now) == u

\* The metrics sent are those of now.
Snapshot(u, now) == now

\* Mutant: the exception of a send ends the loop.
StateAfterBreaks(b, dead) == IF dead = {} THEN b.state ELSE "done"

\* The loop goes on.
StateAfter(b, dead) == b.state

\* Broadcast u, in state b, sends the metrics of step now, with values of nodes, to
\* client c.
SendTo(u, c, b, now, nodes) ==
  /\ \E dead \in SUBSET ({c} \ {d \in Client : conn[d] = "open"}) :
       task' = [task EXCEPT ![u] = [b EXCEPT !.visited = @ \cup {c},
                                             !.dead_clients = @ \cup dead,
                                             !.state = StateAfter(b, dead)]]
  /\ IF conn[c] = "open" THEN Draw(c, Snapshot(u, now), nodes) ELSE UNCHANGED chartVars

\* update, and broadcast up to the first send.
Update(n) ==
  LET u == step + 1
      b == [Idle EXCEPT !.state = "sending", !.size = Cardinality(clients),
                        !.recipients = clients]
  IN  /\ step < MaxUpdates
      /\ step' = u
      /\ vram' = vram \cup {n}
      /\ overlapped' = (overlapped \/ \E v \in Updates : task[v].state = "sending")
      /\ \/ clients = {} /\ UNCHANGED <<task, chartVars>>
         \/ \E c \in clients : SendTo(u, c, b, u, vram')
      /\ UNCHANGED <<conn, clients>>

SameSize(u) == Cardinality(clients) = task[u].size

\* The next client.  One that came while another left may be passed over.
SendNext(u) ==
  /\ task[u].state = "sending" /\ SameSize(u)
  /\ \E c \in clients \ task[u].visited : SendTo(u, c, task[u], step, vram)
  /\ UNCHANGED <<conn, clients, step, vram, overlapped>>

\* The set has changed its size: the iterator raises, and the broadcast is over
\* for the clients it has not come to.
IterationFails(u) ==
  /\ task[u].state = "sending" /\ ~SameSize(u)
  /\ task' = [task EXCEPT ![u] = [Idle EXCEPT !.state = "failed"]]
  /\ UNCHANGED <<conn, clients, step, vram, overlapped, chartVars>>

\* Mutant: the survivors of the broadcast become the set of clients.
SurvivorsReplace(u) == task[u].recipients \ task[u].dead_clients

Survivors(u) == clients \ task[u].dead_clients

\* The iteration is over, and the clients that raised are removed.
FinishBroadcast(u) ==
  /\ task[u].state = "sending" /\ SameSize(u)
  /\ task[u].recipients \cap clients \subseteq task[u].visited
  /\ task' = [task EXCEPT ![u] = [Idle EXCEPT !.state = "done",
                                           !.recipients = task[u].recipients]]
  /\ clients' = Survivors(u)
  /\ UNCHANGED <<conn, step, vram, overlapped, chartVars>>

Next ==
  \/ \E c \in Client : Connect(c) \/ Disconnect(c) \/ EndpointEnds(c)
  \/ \E n \in Node : Update(n)
  \/ \E u \in Updates : SendNext(u) \/ IterationFails(u) \/ FinishBroadcast(u)

Spec == Init /\ [][Next]_vars

\* The event loop runs the endpoints and the broadcasts; nothing else is
\* certain to happen.
Fairness ==
  /\ \A c \in Client : WF_vars(EndpointEnds(c))
  /\ \A u \in Updates : WF_vars(SendNext(u) \/ IterationFails(u) \/ FinishBroadcast(u))

FairSpec == Spec /\ Fairness

-----------------------------------------------------------------------------
Broadcast ==
  [state : {"none", "sending", "failed", "done"}, size : 0 .. Cardinality(Client),
   recipients : SUBSET Client, visited : SUBSET Client, dead_clients : SUBSET Client]

\* The type invariant; a websocket is in the set only while its endpoint runs.
TypeOK ==
  /\ conn \in [Client -> {"new", "open", "closed", "gone"}]
  /\ clients \subseteq {c \in Client : conn[c] \in {"open", "closed"}}
  /\ step \in 0 .. MaxUpdates
  /\ task \in [Updates -> Broadcast]
  /\ vram \subseteq Node /\ overlapped \in BOOLEAN
  /\ seen \in [Client -> 0 .. MaxUpdates]
  /\ labels \in [Client -> SUBSET Updates]
  /\ series \in [Client -> [Node -> Nat]]

\* A connected dashboard stays in the set, whatever broadcasts and endpoints
\* remove around it.
OpenStays == \A c \in Client : conn[c] = "open" => c \in clients

\* A broadcast that ends without an exception has shown its update, or a newer
\* one, to every client it found that is still connected.
DoneMeansShown ==
  \A u \in Updates : task[u].state = "done" =>
    \A c \in task[u].recipients : conn[c] = "open" => seen[c] >= u

\* No dashboard is shown older metrics after newer ones, although broadcasts
\* overtake each other.
NeverBackwards == [][\A c \in Client : seen'[c] >= seen[c]]_vars

\* The points of a chart stand at the right steps: as long as no update came while
\* a broadcast was under way, every series is as long as the axis, also those of
\* nodes that were heard of later.
SeriesAligned ==
  ~overlapped => \A c \in Client, n \in Node : series[c][n] \in {0, Cardinality(labels[c])}

\* Browsers that have left are forgotten: again and again the set holds connected
\* ones only, also when nobody sends metrics any more.
ClosedAreForgotten == []<>(\A c \in clients : conn[c] = "open")
=============================================================================

--------------------------- MODULE TelemetryProofs ---------------------------
(***************************************************************************)
(* The tracker keeps its promises for any number of browsers and updates.  *)
(***************************************************************************)
EXTENDS TelemetryTracker, TLAPS, FiniteSetTheorems

\* What the actions have by name.
USE DEF Without, Survivors, Snapshot, StateAfter

\* What holds of broadcast u, in state b: it remembers only clients that have been
\* connected, gives up only on clients that have left, and has shown its update to
\* those it visited and, once done, to all it found.
BroadcastInv(u, b) ==
  /\ \A c \in b.recipients \cup b.visited : conn[c] # "new"
  /\ \A c \in b.dead_clients : conn[c] \in {"closed", "gone"}
  /\ \A c \in b.visited : conn[c] = "open" => seen[c] >= u
  /\ b.state # "none" => u <= step
  /\ b.state = "done" => \A c \in b.recipients : conn[c] = "open" => seen[c] >= u

TInv ==
  /\ TypeOK
  /\ OpenStays
  /\ \A c \in Client : seen[c] <= step
  /\ \A u \in Updates : BroadcastInv(u, task[u])

\* While broadcasts do not overlap, the one under way is that of the last update,
\* and the clients it has not come to have not been shown that update yet.
ChartInv ==
  /\ \A c \in Client : \A s \in labels[c] : s <= step
  /\ SeriesAligned
  /\ ~overlapped => \A u \in Updates : task[u].state = "sending" =>
       /\ u = step
       /\ \A c \in Client \ task[u].visited : step \notin labels[c]

-----------------------------------------------------------------------------
LEMMA TInvInit == Init => TInv
<1> SUFFICES ASSUME Init PROVE TInv
  OBVIOUS
<1>1. Cardinality(Client) \in Nat
  BY ClientAssumption, FS_CardinalityType
<1>2. Idle \in Broadcast
  BY <1>1 DEF Idle, Broadcast
<1>3. TypeOK
  <2>1. seen \in [Client -> 0 .. MaxUpdates] /\ step \in 0 .. MaxUpdates
    BY MaxUpdatesAssumption DEF Init
  <2>2. labels \in [Client -> SUBSET Updates] /\ series \in [Client -> [Node -> Nat]]
    BY DEF Init
  <2> QED BY <1>2, <2>1, <2>2 DEF Init, TypeOK
<1>4. OpenStays /\ \A c \in Client : seen[c] <= step
  BY DEF Init, OpenStays
<1>5. \A u \in Updates : BroadcastInv(u, task[u])
  BY DEF Init, BroadcastInv, Idle
<1> QED BY <1>3, <1>4, <1>5 DEF TInv

\* A set of clients is never larger than that of all websockets.
LEMMA SizeType ==
  ASSUME TypeOK
  PROVE  Cardinality(clients) \in 0 .. Cardinality(Client)
<1>1. clients \subseteq Client
  BY DEF TypeOK
<1>2. Cardinality(clients) <= Cardinality(Client) /\ Cardinality(Client) \in Nat
  BY <1>1, ClientAssumption, FS_Subset, FS_CardinalityType
<1>3. Cardinality(clients) \in Nat
  BY <1>1, ClientAssumption, FS_Subset, FS_CardinalityType
<1> QED BY <1>2, <1>3

\* What a chart looks like after a message.
LEMMA DrawTypes ==
  ASSUME TypeOK, NEW c \in Client, NEW now \in Updates, NEW nodes, Draw(c, now, nodes)
  PROVE  /\ seen' = [seen EXCEPT ![c] = now]
         /\ labels' \in [Client -> SUBSET Updates]
         /\ series' \in [Client -> [Node -> Nat]]
         /\ labels'[c] = labels[c] \cup {now}
         /\ \A d \in Client \ {c} : labels'[d] = labels[d] /\ series'[d] = series[d]
         /\ \A n \in Node : series'[c][n] =
              IF series[c][n] > 0 THEN series[c][n] + 1
              ELSE IF n \in nodes THEN Cardinality(labels'[c]) ELSE 0
         /\ IsFiniteSet(labels[c]) /\ Cardinality(labels'[c]) \in Nat
<1> DEFINE shown == labels[c] \cup {now}
           drawn(n) == IF series[c][n] > 0 THEN series[c][n] + 1
                       ELSE IF n \in nodes THEN Padding(shown) + 1 ELSE 0
<1>1. /\ seen' = [seen EXCEPT ![c] = now]
      /\ labels' = [labels EXCEPT ![c] = shown]
      /\ series' = [series EXCEPT ![c] = [n \in Node |-> drawn(n)]]
  BY DEF Draw
<1>2. labels[c] \subseteq Updates /\ shown \subseteq Updates
  BY DEF TypeOK
<1>3. IsFiniteSet(labels[c]) /\ IsFiniteSet(shown)
  <2>1. IsFiniteSet(Updates)
    BY MaxUpdatesAssumption, FS_Interval DEF Updates
  <2> QED BY <1>2, <2>1, FS_Subset
<1>4. Cardinality(shown) \in Nat
  BY <1>3, FS_CardinalityType
<1>5. Padding(shown) + 1 = Cardinality(shown)
  BY <1>4 DEF Padding
<1> HIDE DEF shown
<1>6. \A n \in Node : drawn(n) \in Nat
  BY <1>4, <1>5 DEF TypeOK
<1> HIDE DEF drawn
<1>7. labels' \in [Client -> SUBSET Updates] /\ labels'[c] = shown
  BY <1>1, <1>2 DEF TypeOK
<1>8. series' \in [Client -> [Node -> Nat]] /\ \A n \in Node : series'[c][n] = drawn(n)
  BY <1>1, <1>6 DEF TypeOK
<1>9. \A d \in Client \ {c} : labels'[d] = labels[d] /\ series'[d] = series[d]
  BY <1>1 DEF TypeOK
<1> QED BY <1>1, <1>3, <1>4, <1>5, <1>7, <1>8, <1>9 DEF drawn, shown

\* One send, be it the first of a broadcast or a later one.
LEMMA SendToKeepsTInv ==
  ASSUME TInv,
         NEW u \in Updates, NEW c \in clients, NEW b \in Broadcast,
         SendTo(u, c, b, step', vram'),
         step' \in Updates, step <= step', u <= step',
         vram' \subseteq Node, overlapped' \in BOOLEAN,
         b.state = "sending", BroadcastInv(u, [b EXCEPT !.state = "none"]),
         UNCHANGED <<conn, clients>>
  PROVE  TInv'
<1>1. TypeOK /\ OpenStays
  BY DEF TInv
<1>2. PICK dead \in SUBSET ({c} \ {d \in Client : conn[d] = "open"}) :
        task' = [task EXCEPT ![u] = [b EXCEPT !.visited = @ \cup {c},
                                              !.dead_clients = @ \cup dead,
                                              !.state = b.state]]
  BY DEF SendTo
<1> DEFINE new == [b EXCEPT !.visited = @ \cup {c}, !.dead_clients = @ \cup dead,
                            !.state = b.state]
<1>3. c \in Client /\ dead \subseteq Client /\ conn[c] \in {"open", "closed"}
  BY <1>1 DEF TypeOK
<1>4. /\ new \in Broadcast
      /\ new.state = b.state /\ new.recipients = b.recipients
      /\ new.visited = b.visited \cup {c} /\ new.dead_clients = b.dead_clients \cup dead
  BY <1>3 DEF Broadcast
<1> HIDE DEF new
<1>5. task' = [task EXCEPT ![u] = new]
  BY <1>2 DEF new
<1>6. task' \in [Updates -> Broadcast] /\ task'[u] = new /\ \A v \in Updates \ {u} : task'[v] = task[v]
  BY <1>1, <1>4, <1>5 DEF TypeOK
<1>7. /\ seen' = IF conn[c] = "open" THEN [seen EXCEPT ![c] = step'] ELSE seen
      /\ labels' \in [Client -> SUBSET Updates] /\ series' \in [Client -> [Node -> Nat]]
  <2>1. CASE conn[c] = "open"
    <3>1. Draw(c, step', vram')
      BY <2>1 DEF SendTo
    <3> QED BY <1>1, <1>3, <2>1, <3>1, DrawTypes
  <2>2. CASE conn[c] # "open"
    BY <1>1, <2>2 DEF SendTo, chartVars, TypeOK
  <2> QED BY <2>1, <2>2
<1>8. /\ step \in Nat /\ step' \in Nat /\ step' \in 0 .. MaxUpdates /\ u \in Nat
      /\ seen \in [Client -> 0 .. MaxUpdates]
  BY <1>1 DEF TypeOK, Updates
<1>9. /\ seen' \in [Client -> 0 .. MaxUpdates]
      /\ \A d \in Client : seen'[d] >= seen[d] /\ seen'[d] <= step'
      /\ conn[c] = "open" => seen'[c] = step'
  BY <1>3, <1>7, <1>8 DEF TInv
<1>10. TypeOK'
  BY <1>1, <1>6, <1>7, <1>8, <1>9 DEF TypeOK
<1>11. OpenStays'
  BY <1>1 DEF OpenStays
<1>12. ASSUME NEW v \in Updates PROVE BroadcastInv(v, task[v])'
  <2>1. v \in Nat
    BY <1>12 DEF Updates
  <2>2. CASE v = u
    <3>1. \A d \in new.recipients \cup new.visited : conn[d] # "new"
      BY <1>3, <1>4 DEF BroadcastInv, Broadcast
    <3>2. \A d \in new.dead_clients : conn[d] \in {"closed", "gone"}
      <4>1. \A d \in dead : conn[d] \in {"closed", "gone"}
        BY <1>1, <1>3 DEF TypeOK
      <4> QED BY <4>1, <1>4 DEF BroadcastInv, Broadcast
    <3>3. \A d \in new.visited : conn[d] = "open" => seen'[d] >= u
      <4>1. \A d \in b.visited : conn[d] = "open" => seen[d] >= u
        BY DEF BroadcastInv, Broadcast
      <4>2. b.visited \subseteq Client
        BY DEF Broadcast
      <4> QED BY <4>1, <4>2, <1>4, <1>8, <1>9
    <3>4. new.state = "sending" /\ u <= step'
      BY <1>4
    <3> QED BY <1>6, <2>2, <3>1, <3>2, <3>3, <3>4 DEF BroadcastInv
  <2>3. CASE v # u
    <3>1. BroadcastInv(v, task[v]) /\ task'[v] = task[v]
      BY <1>6, <2>3 DEF TInv
    <3>2. task[v].recipients \subseteq Client /\ task[v].visited \subseteq Client
      BY <1>1 DEF TypeOK, Broadcast
    <3>3. \A d \in Client : seen[d] \in Nat /\ seen'[d] \in Nat
      BY <1>8, <1>9
    <3> QED BY <1>8, <1>9, <2>1, <3>1, <3>2, <3>3 DEF BroadcastInv
  <2> QED BY <2>2, <2>3
<1> QED BY <1>9, <1>10, <1>11, <1>12 DEF TInv

\* A step of an endpoint or a browser: connections only move on, and the set loses
\* only clients that have left.
LEMMA ConnectionKeepsTInv ==
  ASSUME TInv, NEW c \in Client, Connect(c) \/ Disconnect(c) \/ EndpointEnds(c)
  PROVE  TInv'
<1>1. TypeOK /\ OpenStays
  BY DEF TInv
<1>2. /\ UNCHANGED <<step, vram, task, overlapped, chartVars>>
      /\ conn' \in [Client -> {"new", "open", "closed", "gone"}]
      /\ \A d \in Client : conn[d] # "new" => conn'[d] # "new"
      /\ \A d \in Client : conn[d] \in {"closed", "gone"} => conn'[d] \in {"closed", "gone"}
      /\ \A d \in Client : conn[d] # "new" /\ conn'[d] = "open" => conn[d] = "open"
  BY <1>1 DEF TypeOK, Connect, Disconnect, EndpointEnds, trackerVars
<1>3. TypeOK'
  BY <1>1, <1>2 DEF TypeOK, Connect, Disconnect, EndpointEnds, trackerVars, chartVars
<1>4. OpenStays'
  BY <1>1 DEF TypeOK, OpenStays, Connect, Disconnect, EndpointEnds, trackerVars
<1>5. ASSUME NEW u \in Updates PROVE BroadcastInv(u, task[u])'
  <2>1. BroadcastInv(u, task[u])
    BY DEF TInv
  <2>2. /\ task[u].recipients \subseteq Client /\ task[u].visited \subseteq Client
        /\ task[u].dead_clients \subseteq Client
    BY <1>1 DEF TypeOK, Broadcast
  <2>3. seen' = seen
    BY <1>2 DEF chartVars
  <2> QED BY <1>2, <2>1, <2>2, <2>3 DEF BroadcastInv
<1>6. \A d \in Client : seen'[d] <= step'
  BY <1>2 DEF TInv, chartVars
<1> QED BY <1>3, <1>4, <1>5, <1>6 DEF TInv

\* A broadcast begins.
LEMMA UpdateKeepsTInv ==
  ASSUME TInv, NEW n \in Node, Update(n)
  PROVE  TInv'
<1>1. TypeOK
  BY DEF TInv
<1>2. /\ step \in Nat /\ step + 1 \in Updates
      /\ step' = step + 1 /\ step' \in 0 .. MaxUpdates /\ step' \in Updates
      /\ vram' \subseteq Node /\ overlapped' \in BOOLEAN
      /\ UNCHANGED <<conn, clients>>
  BY <1>1, MaxUpdatesAssumption DEF Update, TypeOK, Updates
<1>3. CASE clients = {} /\ UNCHANGED <<task, chartVars>>
  <2>1. TypeOK' /\ OpenStays'
    BY <1>1, <1>2, <1>3 DEF TInv, TypeOK, OpenStays, chartVars
  <2>2. \A c \in Client : seen'[c] <= step'
    BY <1>1, <1>2, <1>3 DEF TInv, TypeOK, chartVars
  <2>3. ASSUME NEW u \in Updates PROVE BroadcastInv(u, task[u])'
    <3>1. BroadcastInv(u, task[u]) /\ u \in Nat
      BY DEF TInv, Updates
    <3> QED BY <1>2, <1>3, <3>1 DEF BroadcastInv, chartVars
  <2> QED BY <2>1, <2>2, <2>3 DEF TInv
<1>4. CASE \E c \in clients : SendTo(step + 1, c,
             [Idle EXCEPT !.state = "sending", !.size = Cardinality(clients),
                          !.recipients = clients], step + 1, vram')
  <2> DEFINE b == [Idle EXCEPT !.state = "sending", !.size = Cardinality(clients),
                               !.recipients = clients]
  <2>1. PICK c \in clients : SendTo(step + 1, c, b, step', vram')
    BY <1>2, <1>4
  <2>2. /\ b \in Broadcast /\ b.state = "sending"
        /\ b.recipients = clients /\ b.visited = {} /\ b.dead_clients = {}
    BY <1>1, SizeType DEF Idle, Broadcast, TypeOK
  <2> HIDE DEF b
  <2>3. BroadcastInv(step + 1, [b EXCEPT !.state = "none"])
    BY <1>1, <2>2 DEF BroadcastInv, Broadcast, TypeOK
  <2>4. step <= step' /\ step + 1 <= step'
    BY <1>2
  <2> QED BY <1>2, <2>1, <2>2, <2>3, <2>4, SendToKeepsTInv
<1> QED BY <1>3, <1>4 DEF Update

\* A broadcast goes on.
LEMMA SendNextKeepsTInv ==
  ASSUME TInv, NEW u \in Updates, SendNext(u)
  PROVE  TInv'
<1>1. TypeOK /\ BroadcastInv(u, task[u]) /\ step \in Nat
  BY DEF TInv, TypeOK
<1>2. PICK c \in clients : SendTo(u, c, task[u], step, vram)
  BY DEF SendNext
<1>3. task[u].state = "sending" /\ UNCHANGED <<conn, clients, step, vram, overlapped>>
  BY DEF SendNext
<1>4. u <= step' /\ step <= step'
  BY <1>1, <1>3 DEF BroadcastInv
<1>5. /\ task[u] \in Broadcast /\ step' \in Updates
      /\ vram' \subseteq Node /\ overlapped' \in BOOLEAN
  BY <1>1, <1>3, <1>4, MaxUpdatesAssumption DEF TypeOK, Updates
<1>6. BroadcastInv(u, [task[u] EXCEPT !.state = "none"])
  BY <1>1, <1>5 DEF BroadcastInv, Broadcast
<1> QED BY <1>2, <1>3, <1>4, <1>5, <1>6, SendToKeepsTInv

\* A broadcast ends, in an exception or not.
LEMMA EndKeepsTInv ==
  ASSUME TInv, NEW u \in Updates, IterationFails(u) \/ FinishBroadcast(u)
  PROVE  TInv'
<1>0. 0 \in 0 .. Cardinality(Client)
  BY ClientAssumption, FS_CardinalityType
<1>1. TypeOK /\ OpenStays /\ BroadcastInv(u, task[u])
  BY DEF TInv
<1>2. /\ UNCHANGED <<conn, step, vram, overlapped, chartVars>>
      /\ clients' \subseteq clients
      /\ \A c \in clients : c \notin clients' => conn[c] \in {"closed", "gone"}
  BY <1>1 DEF IterationFails, FinishBroadcast, BroadcastInv
<1>3. PICK new : task' = [task EXCEPT ![u] = new] /\ new \in Broadcast /\ BroadcastInv(u, new)
  <2>1. CASE IterationFails(u)
    <3> DEFINE new == [Idle EXCEPT !.state = "failed"]
    <3>1. /\ new \in Broadcast /\ new.state = "failed"
          /\ new.recipients = {} /\ new.visited = {} /\ new.dead_clients = {}
      BY <1>1, <1>0 DEF Idle, Broadcast
    <3>2. task' = [task EXCEPT ![u] = new]
      BY <2>1 DEF IterationFails
    <3>3. u <= step
      BY <1>1, <2>1 DEF IterationFails, BroadcastInv
    <3> HIDE DEF new
    <3>4. BroadcastInv(u, new)
      BY <3>1, <3>3 DEF BroadcastInv
    <3> QED BY <3>1, <3>2, <3>4
  <2>2. CASE FinishBroadcast(u)
    <3> DEFINE new == [Idle EXCEPT !.state = "done", !.recipients = task[u].recipients]
    <3>1. /\ new \in Broadcast /\ new.state = "done"
          /\ new.recipients = task[u].recipients /\ new.visited = {} /\ new.dead_clients = {}
      <4>1. task[u].recipients \subseteq Client
        BY <1>1 DEF TypeOK, Broadcast
      <4> QED BY <4>1, <1>0 DEF Idle, Broadcast
    <3>2. task' = [task EXCEPT ![u] = new]
      BY <2>2 DEF FinishBroadcast
    <3>3. u <= step
      BY <1>1, <2>2 DEF FinishBroadcast, BroadcastInv
    <3>4. \A c \in task[u].recipients : conn[c] = "open" => seen[c] >= u
      <4>1. task[u].recipients \subseteq Client
        BY <1>1 DEF TypeOK, Broadcast
      <4>2. task[u].recipients \cap clients \subseteq task[u].visited
        BY <2>2 DEF FinishBroadcast
      <4> QED BY <1>1, <4>1, <4>2 DEF OpenStays, BroadcastInv
    <3> HIDE DEF new
    <3>5. BroadcastInv(u, new)
      BY <1>1, <3>1, <3>3, <3>4 DEF BroadcastInv
    <3> QED BY <3>1, <3>2, <3>5
  <2> QED BY <2>1, <2>2
<1>4. task' \in [Updates -> Broadcast] /\ \A v \in Updates : task'[v] = IF v = u THEN new ELSE task[v]
  BY <1>1, <1>3 DEF TypeOK
<1>5. TypeOK'
  BY <1>1, <1>2, <1>4 DEF TypeOK, chartVars
<1>6. OpenStays'
  BY <1>1, <1>2 DEF OpenStays
<1>7. ASSUME NEW v \in Updates PROVE BroadcastInv(v, task[v])'
  <2>1. BroadcastInv(v, task'[v])
    BY <1>3, <1>4 DEF TInv
  <2> QED BY <1>2, <2>1 DEF BroadcastInv, chartVars
<1>8. \A c \in Client : seen'[c] <= step'
  BY <1>2 DEF TInv, chartVars
<1> QED BY <1>5, <1>6, <1>7, <1>8 DEF TInv

LEMMA TInvNext == TInv /\ [Next]_vars => TInv'
<1> SUFFICES ASSUME TInv, [Next]_vars PROVE TInv'
  OBVIOUS
<1>1. CASE \E c \in Client : Connect(c) \/ Disconnect(c) \/ EndpointEnds(c)
  BY <1>1, ConnectionKeepsTInv
<1>2. ASSUME NEW n \in Node, Update(n) PROVE TInv'
  BY <1>2, UpdateKeepsTInv
<1>3. CASE \E u \in Updates : SendNext(u) \/ IterationFails(u) \/ FinishBroadcast(u)
  BY <1>3, SendNextKeepsTInv, EndKeepsTInv
<1>4. CASE UNCHANGED vars
  BY <1>4 DEF vars, trackerVars, chartVars, TInv, TypeOK, OpenStays, BroadcastInv
<1> QED BY <1>1, <1>2, <1>3, <1>4 DEF Next

\* A message to the client c of broadcast u, which is the last update if broadcasts
\* do not overlap: a new label, and one more point in every series.
LEMMA SendToKeepsChartInv ==
  ASSUME TInv, ChartInv,
         NEW u \in Updates, NEW c \in Client, NEW b \in Broadcast,
         SendTo(u, c, b, step', vram'),
         step' \in Updates, step <= step',
         ~overlapped' => /\ ~overlapped /\ u = step'
                         /\ \A v \in Updates \ {u} : task[v].state # "sending"
                         /\ \A d \in Client \ b.visited : step' \notin labels[d],
         c \notin b.visited
  PROVE  ChartInv'
<1>1. TypeOK /\ step \in Nat /\ step' \in Nat
  BY DEF TInv, TypeOK, Updates
<1>2. /\ \A v \in Updates \ {u} : task'[v] = task[v]
      /\ task'[u].visited = b.visited \cup {c}
  <2>1. PICK dead : task' = [task EXCEPT ![u] = [b EXCEPT !.visited = @ \cup {c},
                                                          !.dead_clients = @ \cup dead,
                                                          !.state = b.state]]
    BY DEF SendTo
  <2> QED BY <1>1, <2>1 DEF TypeOK, Broadcast
<1>3. CASE conn[c] = "open"
  <2>1. Draw(c, step', vram')
    BY <1>3 DEF SendTo
  <2>2. /\ labels'[c] = labels[c] \cup {step'}
        /\ \A d \in Client \ {c} : labels'[d] = labels[d] /\ series'[d] = series[d]
        /\ \A n \in Node : series'[c][n] =
             IF series[c][n] > 0 THEN series[c][n] + 1
             ELSE IF n \in vram' THEN Cardinality(labels'[c]) ELSE 0
        /\ IsFiniteSet(labels[c])
    BY <1>1, <2>1, DrawTypes
  <2>3. \A d \in Client : \A s \in labels'[d] : s <= step'
    <3>1. ASSUME NEW d \in Client, NEW s \in labels[d] PROVE s <= step'
      <4>1. s <= step /\ s \in Nat
        BY DEF TypeOK, TInv, ChartInv, Updates
      <4> QED BY <1>1, <4>1
    <3> QED BY <1>1, <2>2, <3>1
  <2>4. ASSUME ~overlapped', NEW d \in Client, NEW n \in Node
        PROVE  series'[d][n] \in {0, Cardinality(labels'[d])}
    <3>1. series[d][n] \in {0, Cardinality(labels[d])} /\ series[d][n] \in Nat
      BY <1>1, <2>4 DEF ChartInv, SeriesAligned, TypeOK
    <3>2. CASE d = c
      <4>1. Cardinality(labels'[c]) = Cardinality(labels[c]) + 1
        BY <2>2, <2>4, FS_AddElement
      <4>2. series[c][n] \in {0, Cardinality(labels[c])} /\ series[c][n] \in Nat
        BY <3>1, <3>2
      <4>3. series'[c][n] = IF series[c][n] > 0 THEN series[c][n] + 1
                            ELSE IF n \in vram' THEN Cardinality(labels'[c]) ELSE 0
        BY <2>2
      <4>4. series'[c][n] \in {0, Cardinality(labels'[c])}
        BY <4>1, <4>2, <4>3
      <4> QED BY <3>2, <4>4
    <3>3. CASE d # c
      BY <2>2, <3>1, <3>3
    <3> QED BY <3>2, <3>3
  <2>5. ASSUME ~overlapped', NEW v \in Updates, task'[v].state = "sending"
        PROVE  v = step' /\ \A d \in Client \ task'[v].visited : step' \notin labels'[d]
    BY <1>2, <2>2, <2>5
  <2> QED BY <2>3, <2>4, <2>5 DEF ChartInv, SeriesAligned
<1>4. CASE conn[c] # "open"
  <2>1. labels' = labels /\ series' = series
    BY <1>4 DEF SendTo, chartVars
  <2>2. \A d \in Client : \A s \in labels'[d] : s <= step'
    <3>1. ASSUME NEW d \in Client, NEW s \in labels[d] PROVE s <= step'
      <4>1. s <= step /\ s \in Nat
        BY DEF TypeOK, TInv, ChartInv, Updates
      <4> QED BY <1>1, <4>1
    <3> QED BY <2>1, <3>1
  <2>3. ASSUME ~overlapped', NEW v \in Updates, task'[v].state = "sending"
        PROVE  v = step' /\ \A d \in Client \ task'[v].visited : step' \notin labels'[d]
    BY <1>2, <2>1, <2>3
  <2>4. SeriesAligned'
    BY <2>1 DEF ChartInv, SeriesAligned
  <2> QED BY <2>2, <2>3, <2>4 DEF ChartInv
<1> QED BY <1>3, <1>4

\* Charts stay aligned while broadcasts do not overlap.
LEMMA ChartInvNext == TInv /\ ChartInv /\ [Next]_vars => ChartInv'
<1> SUFFICES ASSUME TInv, ChartInv, [Next]_vars PROVE ChartInv'
  OBVIOUS
<1>1. TypeOK /\ step \in Nat
  BY DEF TInv, TypeOK
<1>2. CASE \E c \in Client : Connect(c) \/ Disconnect(c) \/ EndpointEnds(c)
  BY <1>2 DEF Connect, Disconnect, EndpointEnds, trackerVars, chartVars, ChartInv, SeriesAligned
<1>3. ASSUME NEW n \in Node, Update(n) PROVE ChartInv'
  <2>1. /\ step' = step + 1 /\ step' \in Updates /\ step + 1 \in Nat /\ step <= step'
    BY <1>1, <1>3, MaxUpdatesAssumption DEF Update, TypeOK, Updates
  <2>2. ~overlapped' => ~overlapped /\ \A v \in Updates : task[v].state # "sending"
    BY <1>3 DEF Update
  <2>3. ASSUME NEW d \in Client PROVE step' \notin labels[d]
    <3>1. \A s \in labels[d] : s <= step
      BY DEF ChartInv
    <3> QED BY <1>1, <2>1, <3>1
  <2>4. CASE UNCHANGED <<task, chartVars>>
    <3>1. ASSUME NEW d \in Client, NEW s \in labels[d] PROVE s <= step'
      <4>1. s <= step /\ s \in Nat
        BY <1>1 DEF TypeOK, ChartInv, Updates
      <4> QED BY <1>1, <2>1, <4>1
    <3> QED BY <2>2, <2>4, <3>1 DEF ChartInv, SeriesAligned, chartVars
  <2>5. CASE \E c \in clients : SendTo(step + 1, c,
               [Idle EXCEPT !.state = "sending", !.size = Cardinality(clients),
                            !.recipients = clients], step + 1, vram')
    <3> DEFINE b == [Idle EXCEPT !.state = "sending", !.size = Cardinality(clients),
                                 !.recipients = clients]
    <3>1. PICK c \in clients : SendTo(step', c, b, step', vram')
      BY <2>1, <2>5
    <3>2. b \in Broadcast /\ b.visited = {}
      BY <1>1, SizeType DEF Idle, Broadcast, TypeOK
    <3> HIDE DEF b
    <3>3. c \in Client
      BY <1>1 DEF TypeOK
    <3> QED BY <2>1, <2>2, <2>3, <3>1, <3>2, <3>3, SendToKeepsChartInv
  <2> QED BY <1>3, <2>4, <2>5 DEF Update
<1>4. ASSUME NEW u \in Updates, SendNext(u) PROVE ChartInv'
  <2>1. PICK c \in clients \ task[u].visited : SendTo(u, c, task[u], step, vram)
    BY <1>4 DEF SendNext
  <2>2. task[u].state = "sending" /\ UNCHANGED <<conn, clients, step, vram, overlapped>>
    BY <1>4 DEF SendNext
  <2>3. task[u] \in Broadcast /\ c \in Client
    BY <1>1 DEF TypeOK
  <2>4. step' \in Updates /\ step <= step'
    <3>1. u <= step /\ u \in Nat /\ 1 <= u
      BY <2>2 DEF TInv, BroadcastInv, Updates
    <3> QED BY <1>1, <2>2, <3>1 DEF TypeOK, Updates
  <2>5. ~overlapped' => /\ ~overlapped /\ u = step'
                        /\ \A v \in Updates \ {u} : task[v].state # "sending"
                        /\ \A d \in Client \ task[u].visited : step' \notin labels[d]
    BY <2>2 DEF ChartInv
  <2> QED BY <2>1, <2>2, <2>3, <2>4, <2>5, SendToKeepsChartInv
<1>5. ASSUME NEW u \in Updates, IterationFails(u) \/ FinishBroadcast(u) PROVE ChartInv'
  <2>1. UNCHANGED <<step, overlapped, chartVars>>
    BY <1>5 DEF IterationFails, FinishBroadcast
  <2>2. \A v \in Updates : task'[v].state = "sending" => task'[v] = task[v]
    BY <1>1, <1>5 DEF IterationFails, FinishBroadcast, TypeOK, Idle
  <2> QED BY <2>1, <2>2 DEF ChartInv, SeriesAligned, chartVars
<1>6. CASE UNCHANGED vars
  BY <1>6 DEF vars, trackerVars, chartVars, ChartInv, SeriesAligned
<1> QED BY <1>2, <1>3, <1>4, <1>5, <1>6 DEF Next

LEMMA TInvariance == Spec => []TInv
<1> QED BY TInvInit, TInvNext, PTL DEF Spec

-----------------------------------------------------------------------------
\* The tracker's variables keep their types, and a websocket is in the set only
\* while its endpoint runs.
THEOREM TrackerTypes == Spec => []TypeOK
<1>1. TInv => TypeOK
  BY DEF TInv
<1> QED BY <1>1, TInvariance, PTL

\* However endpoints and broadcasts interleave, a connected browser is never
\* removed from the set (tracker.py:38, server.py:23).
THEOREM ConnectedAreKept == Spec => []OpenStays
<1>1. TInv => OpenStays
  BY DEF TInv
<1> QED BY <1>1, TInvariance, PTL

\* A broadcast that runs to its end has reached every client it found that is
\* still connected, with its own update or a newer one.
THEOREM BroadcastReachesAll == Spec => []DoneMeansShown
<1>1. TInv => DoneMeansShown
  BY DEF TInv, BroadcastInv, DoneMeansShown
<1> QED BY <1>1, TInvariance, PTL

\* Broadcasts that overlap never take a dashboard back to older metrics, since
\* every send takes the metrics as they are then (tracker.py:35).
THEOREM DashboardsMoveForward == Spec => NeverBackwards
<1>1. ASSUME TInv, [Next]_vars PROVE [\A c \in Client : seen'[c] >= seen[c]]_vars
  <2>1. /\ seen \in [Client -> 0 .. MaxUpdates] /\ step \in 0 .. MaxUpdates
        /\ \A c \in Client : seen[c] <= step
    BY <1>1 DEF TInv, TypeOK
  <2>2. ASSUME NEW u, NEW c, NEW b, NEW now \in Nat, NEW nodes, now >= step,
               SendTo(u, c, b, now, nodes)
        PROVE  \A d \in Client : seen'[d] >= seen[d]
    BY <2>1, <2>2 DEF SendTo, Draw, chartVars
  <2>3. ASSUME seen' = seen PROVE \A d \in Client : seen'[d] >= seen[d]
    BY <2>1, <2>3
  <2>4. CASE \E c \in Client : Connect(c) \/ Disconnect(c) \/ EndpointEnds(c)
    BY <2>3, <2>4 DEF Connect, Disconnect, EndpointEnds, chartVars
  <2>5. ASSUME NEW n \in Node, Update(n) PROVE \A c \in Client : seen'[c] >= seen[c]
    <3>1. step + 1 \in Nat /\ step + 1 >= step
      BY <2>1
    <3> QED BY <2>2, <2>3, <2>5, <3>1 DEF Update, chartVars
  <2>6. CASE \E u \in Updates : SendNext(u) \/ IterationFails(u) \/ FinishBroadcast(u)
    <3>1. step \in Nat /\ step >= step
      BY <2>1
    <3> QED BY <2>2, <2>3, <2>6, <3>1 DEF SendNext, IterationFails, FinishBroadcast, chartVars
  <2>7. CASE UNCHANGED vars
    BY <2>7
  <2> QED BY <1>1, <2>4, <2>5, <2>6, <2>7 DEF Next
<1> QED BY <1>1, TInvariance, PTL DEF Spec, NeverBackwards

\* As long as updates do not overtake broadcasts, the points of every series stand
\* at the steps they were reported for (dashboard.py, updateNodeDatasets).
THEOREM ChartsAreAligned == Spec => []SeriesAligned
<1>1. Init => ChartInv
  BY FS_EmptySet DEF Init, ChartInv, SeriesAligned, Idle
<1>2. ChartInv => SeriesAligned
  BY DEF ChartInv
<1> QED BY <1>1, <1>2, ChartInvNext, TInvariance, PTL DEF Spec
=============================================================================

----------------------- MODULE BaristaConnectionsProofs -----------------------
(***************************************************************************)
(* The safety of Barista's connections, for any sets of nodes and clients, *)
(* any backlog and any number of descriptors, calls and chunks.            *)
(***************************************************************************)
EXTENDS BaristaConnections, FiniteSetTheorems, WellFoundedInduction, TLAPS

-------------------------------------------------------------------------------
(* The inductive invariant *)

PacketKinds == {"init", "call", "done"}

\* The types the actions rely on.
Types ==
    /\ proc \in [Procs -> {"new", "connected", "ended"}]
    /\ calling \subseteq {p \in DecafsClients : proc[p] = "connected"}
    /\ inbox \in [Procs -> Seq(PacketKinds)]
    /\ answers \in [Procs -> Nat]
    /\ hits \in [Procs -> Nat]
    /\ backlog \in Seq(Procs)
    /\ eof \subseteq {p \in Procs : proc[p] = "ended"}
    /\ pc \in {"messages", "visit", "crashed", "undefined"}

\* Descriptors are numbered without gaps; a process that has connected waits
\* in one place of the backlog or has one descriptor for ever.
Descriptors ==
    /\ \E n \in Nat : DOMAIN conn = 1 .. n
    /\ \A fd \in DOMAIN conn : conn[fd] \in Procs /\ proc[conn[fd]] # "new"
    /\ \A fd, g \in DOMAIN conn : conn[fd] = conn[g] => fd = g
    /\ \A i \in DOMAIN backlog :
          /\ proc[backlog[i]] # "new"
          /\ \A fd \in DOMAIN conn : conn[fd] # backlog[i]
    /\ \A i, j \in DOMAIN backlog : backlog[i] = backlog[j] => i = j
    /\ todo \subseteq m_clients
    /\ m_clients \subseteq DOMAIN conn
    /\ owed \subseteq DOMAIN conn

\* The server has not read the packet that says who p is.
Unregistered(p) == inbox[p] # <<>> /\ inbox[p][1] = "init"

\* That packet is the first of a process, calls come from clients and answers
\* to chunk requests from nodes.
Packeted ==
    /\ \A p \in Procs : \A i \in DOMAIN inbox[p] : inbox[p][i] = "init" => i = 1
    /\ \A p \in EspressoClients : \A i \in DOMAIN inbox[p] : inbox[p][i] # "call"
    /\ \A p \in Procs : proc[p] = "new" => inbox[p] = <<>>
    /\ \A i \in DOMAIN backlog : Unregistered(backlog[i])

\* The sets and maps a connection is in are those of its process.
Roles ==
    /\ m_clients = m_pending_clients \cup m_decafs_clients
                     \cup DOMAIN m_espresso_nodes_rev
    /\ m_pending_clients = {fd \in DOMAIN conn : Unregistered(conn[fd])}
    /\ \A fd \in m_decafs_clients :
          conn[fd] \in DecafsClients /\ ~Unregistered(conn[fd])
    /\ \A fd \in DOMAIN m_espresso_nodes_rev :
          /\ conn[fd] \in EspressoClients /\ ~Unregistered(conn[fd])
          /\ m_espresso_nodes_rev[fd] = NodeId[conn[fd]]
    /\ up_nodes \subseteq DOMAIN m_espresso_nodes
    /\ m_espresso_nodes = [n \in DOMAIN m_espresso_nodes |-> m_espresso_nodes[n]]
    /\ \A n \in DOMAIN m_espresso_nodes :
          /\ m_espresso_nodes[n] \in DOMAIN m_espresso_nodes_rev
          /\ m_espresso_nodes_rev[m_espresso_nodes[n]] = n

\* At most one process of a node is connected, and unless the node was
\* overtaken the server has no connection of an earlier one.
OneProcessPerNode ==
    /\ \A p, q \in EspressoClients :
          /\ proc[p] = "connected" /\ proc[q] = "connected"
          /\ NodeId[p] = NodeId[q]
          => p = q
    /\ \A p \in EspressoClients :
          proc[p] = "connected" /\ NodeId[p] \notin overtaken => ~OldConnection(p)

\* Registered nodes that live are up, unless overtaken; a connection kept for
\* a node that is not up is one of a process that ended.
UpAndDown ==
    /\ \A fd \in DOMAIN m_espresso_nodes_rev :
          LET n == m_espresso_nodes_rev[fd]
          IN  proc[conn[fd]] = "connected" /\ n \notin overtaken =>
                  n \in up_nodes /\ m_espresso_nodes[n] = fd
    /\ \A n \in DOMAIN m_espresso_nodes \ up_nodes :
          proc[conn[m_espresso_nodes[n]]] = "ended"

\* A call of client p is in the server's hands, unread or under way.
Asked(p) == \E i \in DOMAIN inbox[p] : inbox[p][i] = "call"

Owed(p) == \E fd \in owed : conn[fd] = p

\* A client has one call at a time: unread, under way, answered, or answered
\* after its end, and none if it does not wait.
OneCallPerClient ==
    /\ \A p \in DecafsClients :
          /\ \A i, j \in DOMAIN inbox[p] :
                inbox[p][i] = "call" /\ inbox[p][j] = "call" => i = j
          /\ answers[p] + hits[p] <= 1
          /\ Asked(p) => ~Owed(p)
          /\ Asked(p) \/ Owed(p) => answers[p] = 0 /\ hits[p] = 0
          /\ proc[p] # "ended" => hits[p] = 0
          /\ proc[p] # "ended" /\ p \notin calling =>
                ~Asked(p) /\ ~Owed(p) /\ answers[p] = 0
    /\ \A p \in EspressoClients : ~Owed(p) /\ answers[p] = 0

IInv == /\ Types
        /\ Descriptors
        /\ Packeted
        /\ Roles
        /\ OneProcessPerNode
        /\ UpAndDown
        /\ OneCallPerClient

-------------------------------------------------------------------------------
(* Facts about the data *)

\* The rest of a sequence is the sequence moved by one.
LEMMA TailMoves ==
    ASSUME NEW S, NEW s \in Seq(S), s # <<>>
    PROVE  /\ Tail(s) \in Seq(S)
           /\ Head(s) = s[1] /\ 1 \in DOMAIN s
           /\ \A i \in DOMAIN Tail(s) : /\ i + 1 \in DOMAIN s /\ i + 1 > 1
                                       /\ Tail(s)[i] = s[i + 1]
  OBVIOUS

\* What Append does to a sequence.
LEMMA AppendExtends ==
    ASSUME NEW S, NEW s \in Seq(S), NEW x \in S
    PROVE  /\ Append(s, x) \in Seq(S)
           /\ Append(s, x) # <<>>
           /\ Len(s) \in Nat /\ DOMAIN s = 1 .. Len(s)
           /\ DOMAIN Append(s, x) = 1 .. Len(s) + 1
           /\ \A i \in DOMAIN s : i # Len(s) + 1 /\ Append(s, x)[i] = s[i]
           /\ Append(s, x)[Len(s) + 1] = x
           /\ s # <<>> => 1 \in DOMAIN s
           /\ s = <<>> => Len(s) = 0
  OBVIOUS

\* Min of a nonempty set of natural numbers is its least element.
LEMMA MinOfNats ==
    ASSUME NEW T \in SUBSET Nat, T # {}
    PROVE  Min(T) \in T
<1>1. PICK x \in T : \A y \in T : ~(<<y, x>> \in OpToRel(<, Nat))
  BY NatLessThanWellFounded, WFMin
<1>2. \A y \in T : x <= y
  <2> SUFFICES ASSUME NEW y \in T, y < x PROVE FALSE
    OBVIOUS
  <2>1. <<y, x>> \in OpToRel(<, Nat)
    BY DEF OpToRel
  <2> QED BY <1>1, <2>1
<1> QED BY <1>2 DEF Min

\* NewFd is the number after the descriptors given out so far.
LEMMA NewFdNext ==
    ASSUME Descriptors
    PROVE  /\ NewFd \notin DOMAIN conn
           /\ \E n \in Nat : DOMAIN conn \cup {NewFd} = 1 .. n
<1>1. PICK n \in Nat : DOMAIN conn = 1 .. n
  BY DEF Descriptors
<1>2. Cardinality(1 .. n) = n
  BY FS_Interval
<1>3. NewFd = n + 1
  BY <1>1, <1>2 DEF NewFd
<1>4. (1 .. n) \cup {n + 1} = 1 .. n + 1
  OBVIOUS
<1> QED BY <1>1, <1>3, <1>4

\* The initial state.
LEMMA InitIInv == Init => IInv
<1> SUFFICES ASSUME Init PROVE IInv
  OBVIOUS
<1> USE DEF Init
<1>1. Types
  BY DEF Types, PacketKinds
<1>2. DOMAIN conn = {} /\ DOMAIN backlog = {} /\ DOMAIN m_espresso_nodes = {}
      /\ DOMAIN m_espresso_nodes_rev = {}
  OBVIOUS
<1>3. Descriptors
  <2>1. DOMAIN conn = 1 .. 0
    BY <1>2
  <2> QED BY <1>2, <2>1 DEF Descriptors
<1>4. Packeted
  BY <1>2 DEF Packeted, Procs, Unregistered
<1>5. Roles
  BY <1>2 DEF Roles
<1>6. OneProcessPerNode /\ UpAndDown
  BY <1>2 DEF OneProcessPerNode, UpAndDown, Procs
<1>7. OneCallPerClient
  BY <1>2 DEF OneCallPerClient, Asked, Owed, Procs
<1> QED BY <1>1, <1>3, <1>4, <1>5, <1>6, <1>7 DEF IInv

-------------------------------------------------------------------------------
(* The processes *)

\* A step that changes neither the packets nor the maps, and reports only
\* connections that are there.
LEMMA FrameIInv ==
    ASSUME IInv,
           UNCHANGED <<proc, calling, eof, overtaken, inbox, answers, hits, backlog>>,
           UNCHANGED <<conn, m_clients, m_pending_clients, m_decafs_clients,
                       m_espresso_nodes, m_espresso_nodes_rev, up_nodes, owed>>,
           todo' \subseteq m_clients,
           pc' \in {"messages", "visit", "crashed", "undefined"}
    PROVE  IInv'
<1>0. Types /\ Descriptors /\ Packeted /\ Roles /\ OneProcessPerNode
      /\ UpAndDown /\ OneCallPerClient
  BY DEF IInv
<1>1. Types'
  BY <1>0 DEF Types
<1>2. Descriptors'
  BY <1>0 DEF Descriptors
<1>3. Packeted' /\ Roles'
  BY <1>0 DEF Packeted, Roles, Unregistered
<1>4. OneProcessPerNode' /\ UpAndDown'
  BY <1>0 DEF OneProcessPerNode, UpAndDown, OldConnection, FdsOf
<1>5. OneCallPerClient'
  BY <1>0 DEF OneCallPerClient, Asked, Owed
<1> QED BY <1>1, <1>2, <1>3, <1>4, <1>5 DEF IInv

\* A process that connects.
LEMMA openConnectionIInv ==
    ASSUME IInv, NEW p \in Procs, openConnection(p)
    PROVE  IInv'
<1>0. Types /\ Descriptors /\ Packeted /\ Roles /\ OneProcessPerNode
      /\ UpAndDown /\ OneCallPerClient
  BY DEF IInv
<1>1. /\ proc[p] = "new"
      /\ proc' = [proc EXCEPT ![p] = "connected"]
      /\ inbox' = [inbox EXCEPT ![p] = <<"init">>]
      /\ backlog' = Append(backlog, p)
      /\ UNCHANGED <<calling, answers, hits, eof>>
      /\ UNCHANGED <<conn, pc, todo, m_clients, m_pending_clients, m_decafs_clients,
                     m_espresso_nodes, m_espresso_nodes_rev, up_nodes, owed>>
  BY DEF openConnection, server
<1>2. Types'
  BY <1>0, <1>1 DEF Types, PacketKinds, Procs
<1>3. /\ DOMAIN backlog' = DOMAIN backlog \cup {Len(backlog) + 1}
      /\ backlog'[Len(backlog) + 1] = p
      /\ \A i \in DOMAIN backlog : backlog'[i] = backlog[i] /\ backlog[i] # p
                                  /\ backlog[i] \in Procs
  <2>1. backlog \in Seq(Procs)
    BY <1>0 DEF Types
  <2>2. DOMAIN backlog \cup {Len(backlog) + 1} = 1 .. Len(backlog) + 1
    BY <2>1
  <2>3. \A i \in DOMAIN backlog : backlog[i] # p /\ backlog[i] \in Procs
    BY <1>0, <1>1, <2>1 DEF Descriptors
  <2> QED BY <1>1, <2>1, <2>2, <2>3, AppendExtends
<1>4. \A fd \in DOMAIN conn : conn[fd] # p /\ proc'[conn[fd]] = proc[conn[fd]]
  BY <1>0, <1>1 DEF Types, Descriptors
<1>5. Descriptors'
  <2>1. \A i \in DOMAIN backlog' : /\ proc'[backlog'[i]] # "new"
                                  /\ \A fd \in DOMAIN conn : conn[fd] # backlog'[i]
    <3>1. proc' = [proc EXCEPT ![p] = "connected"] /\ DOMAIN proc = Procs
      BY <1>0, <1>1 DEF Types
    <3>2. \A i \in DOMAIN backlog : /\ proc[backlog[i]] # "new"
                                    /\ \A fd \in DOMAIN conn : conn[fd] # backlog[i]
      BY <1>0 DEF Descriptors
    <3>3. ASSUME NEW i \in DOMAIN backlog
          PROVE  /\ proc'[backlog'[i]] # "new"
                 /\ \A fd \in DOMAIN conn : conn[fd] # backlog'[i]
      BY <1>3, <3>1, <3>2
    <3>4. proc'[p] # "new"
      BY <3>1
    <3> QED BY <1>3, <1>4, <3>3, <3>4
  <2>2. \A i, j \in DOMAIN backlog' : backlog'[i] = backlog'[j] => i = j
    BY <1>0, <1>3 DEF Descriptors
  <2> QED BY <1>0, <1>1, <1>4, <2>1, <2>2 DEF Descriptors
<1>6. Packeted'
  BY <1>0, <1>1, <1>3 DEF Types, Packeted, Unregistered, Procs
<1>7. Roles'
  BY <1>0, <1>1, <1>4 DEF Types, Descriptors, Roles, Unregistered
<1>8. OneProcessPerNode'
  <2>1. \A q \in EspressoClients : proc'[q] = "connected" => q = p \/ proc[q] = "connected"
    BY <1>0, <1>1 DEF Types, Procs
  <2>2. \A q \in EspressoClients : p \in EspressoClients /\ proc[q] = "connected"
            => NodeId[q] # NodeId[p]
    BY DEF openConnection
  <2>3. overtaken \subseteq overtaken'
    BY DEF openConnection
  <2>4. ASSUME NEW q \in EspressoClients, q # p, proc[q] = "connected",
               NodeId[q] \notin overtaken, OldConnection(q)'
        PROVE  FALSE
    BY <1>0, <1>1, <1>3, <2>2, <2>4 DEF OldConnection, OneProcessPerNode, FdsOf
  <2>5. ASSUME p \in EspressoClients, NodeId[p] \notin overtaken', OldConnection(p)'
        PROVE  FALSE
    <3>1. ~OldConnection(p)
      BY <2>5 DEF openConnection
    <3> QED BY <1>1, <1>3, <2>5, <3>1 DEF OldConnection, FdsOf
  <2> QED BY <1>0, <2>1, <2>2, <2>3, <2>4, <2>5 DEF OneProcessPerNode
<1>9. UpAndDown'
  <2>1. overtaken \subseteq overtaken'
    BY DEF openConnection
  <2>2. DOMAIN m_espresso_nodes_rev \subseteq DOMAIN conn
    BY <1>0 DEF Roles, Descriptors
  <2> QED BY <1>0, <1>1, <1>4, <2>1, <2>2 DEF UpAndDown
<1>10. OneCallPerClient'
  <2>1. \A q \in Procs : q # p => inbox'[q] = inbox[q] /\ proc'[q] = proc[q]
    BY <1>0, <1>1 DEF Types
  <2>2. /\ inbox[p] = <<>> /\ inbox'[p] = <<"init">> /\ proc'[p] = "connected"
        /\ ~Owed(p) /\ ~Asked(p) /\ ~Asked(p)'
    BY <1>0, <1>1, <1>4 DEF Types, Packeted, Descriptors, Owed, Asked
  <2>3. \A q \in Procs : /\ Owed(q)' <=> Owed(q)
                         /\ Asked(q)' <=> Asked(q)
    BY <1>1, <2>1, <2>2 DEF Owed, Asked
  <2>4. p \in DecafsClients => p \notin calling
    BY <1>0, <1>1 DEF Types
  <2> QED BY <1>0, <1>1, <2>1, <2>2, <2>3, <2>4 DEF OneCallPerClient, Procs
<1> QED BY <1>2, <1>5, <1>6, <1>7, <1>8, <1>9, <1>10 DEF IInv

\* A process that ends.
LEMMA EndIInv ==
    ASSUME IInv, NEW p \in Procs, End(p)
    PROVE  IInv'
<1>0. Types /\ Descriptors /\ Packeted /\ Roles /\ OneProcessPerNode
      /\ UpAndDown /\ OneCallPerClient
  BY DEF IInv
<1>1. /\ proc[p] = "connected"
      /\ proc' = [proc EXCEPT ![p] = "ended"]
      /\ calling' = calling \ {p}
      /\ UNCHANGED <<inbox, answers, hits, backlog, eof, overtaken>>
      /\ UNCHANGED <<conn, pc, todo, m_clients, m_pending_clients, m_decafs_clients,
                     m_espresso_nodes, m_espresso_nodes_rev, up_nodes, owed>>
  BY DEF End, net, server
<1>2. Types'
  BY <1>0, <1>1 DEF Types, Procs
<1>3. \A q \in Procs : /\ proc'[q] = "new" <=> proc[q] = "new"
                       /\ proc'[q] = "connected" => proc[q] = "connected"
                       /\ q # p => proc'[q] = proc[q]
  BY <1>0, <1>1 DEF Types
<1>4. \A i \in DOMAIN backlog : backlog[i] \in Procs
  BY <1>0 DEF Types
<1>5. Descriptors'
  BY <1>0, <1>1, <1>3, <1>4 DEF Descriptors
<1>6. Packeted'
  BY <1>0, <1>1, <1>3 DEF Packeted, Unregistered
<1>7. Roles'
  BY <1>0, <1>1 DEF Roles, Unregistered
<1>8. OneProcessPerNode'
  BY <1>0, <1>1, <1>3 DEF OneProcessPerNode, OldConnection, FdsOf, Procs
<1>9. UpAndDown'
  BY <1>0, <1>1, <1>3 DEF UpAndDown, Roles, Procs
<1>10. OneCallPerClient'
  <2>1. \A q : (Asked(q)' <=> Asked(q)) /\ (Owed(q)' <=> Owed(q))
    BY <1>1 DEF Asked, Owed
  <2>2. p \in DecafsClients => proc'[p] = "ended"
    BY <1>0, <1>1 DEF Types
  <2> QED BY <1>0, <1>1, <1>3, <2>1, <2>2 DEF OneCallPerClient, Procs
<1> QED BY <1>2, <1>5, <1>6, <1>7, <1>8, <1>9, <1>10 DEF IInv

\* The end of a stream reaches the server.
LEMMA EofArrivesIInv ==
    ASSUME IInv, NEW p \in Procs, EofArrives(p)
    PROVE  IInv'
<1>0. Types /\ Descriptors /\ Packeted /\ Roles /\ OneProcessPerNode
      /\ UpAndDown /\ OneCallPerClient
  BY DEF IInv
<1>1. /\ eof' = eof \cup {p} /\ proc[p] = "ended"
      /\ UNCHANGED <<proc, calling, overtaken, inbox, answers, hits, backlog>>
      /\ UNCHANGED <<conn, pc, todo, m_clients, m_pending_clients, m_decafs_clients,
                     m_espresso_nodes, m_espresso_nodes_rev, up_nodes, owed>>
  BY DEF EofArrives, net, server
<1>2. Types'
  BY <1>0, <1>1 DEF Types
<1>3. Descriptors' /\ Packeted' /\ Roles'
  BY <1>0, <1>1 DEF Descriptors, Packeted, Roles, Unregistered
<1>4. OneProcessPerNode' /\ UpAndDown' /\ OneCallPerClient'
  BY <1>0, <1>1 DEF OneProcessPerNode, UpAndDown, OneCallPerClient, Asked,
                    Owed, OldConnection, FdsOf
<1> QED BY <1>2, <1>3, <1>4 DEF IInv

\* A packet is appended to the inbox of a process that has connected: the
\* parts of the invariant that do not look at calls.
LEMMA SendIInv ==
    ASSUME IInv, NEW p \in Procs, NEW x \in {"call", "done"},
           proc[p] = "connected",
           x = "call" => p \in DecafsClients,
           inbox' = [inbox EXCEPT ![p] = Append(@, x)],
           UNCHANGED <<proc, eof, backlog, overtaken, server>>
    PROVE  /\ Descriptors' /\ Packeted' /\ Roles' /\ OneProcessPerNode'
           /\ UpAndDown'
           /\ inbox' \in [Procs -> Seq(PacketKinds)]
<1>0. Types /\ Descriptors /\ Packeted /\ Roles /\ OneProcessPerNode /\ UpAndDown
  BY DEF IInv
<1>1. UNCHANGED <<conn, pc, todo, m_clients, m_pending_clients, m_decafs_clients,
                  m_espresso_nodes, m_espresso_nodes_rev, up_nodes, owed>>
  BY DEF server
<1>2. inbox[p] \in Seq(PacketKinds) /\ x \in PacketKinds
  BY <1>0 DEF Types, PacketKinds
<1>3. /\ \A q \in Procs : q # p => inbox'[q] = inbox[q]
      /\ inbox'[p] = Append(inbox[p], x)
  BY <1>0 DEF Types
<1>4. \A q \in Procs : Unregistered(q)' <=> Unregistered(q)
  BY <1>2, <1>3, AppendExtends DEF Unregistered
<1>5. Packeted'
  <2>1. \A i \in DOMAIN inbox'[p] : inbox'[p][i] = "init" => i = 1
    BY <1>0, <1>2, <1>3, AppendExtends DEF Packeted
  <2>2. p \in EspressoClients => \A i \in DOMAIN inbox'[p] : inbox'[p][i] # "call"
    BY <1>0, <1>2, <1>3, AppendExtends, ConnectionsAssumption DEF Packeted
  <2>3. \A i \in DOMAIN backlog : backlog[i] \in Procs
    BY <1>0 DEF Types
  <2> QED BY <1>0, <1>3, <1>4, <2>1, <2>2, <2>3 DEF Packeted, Procs
<1>6. Roles'
  BY <1>0, <1>1, <1>4 DEF Roles, Descriptors
<1>7. Descriptors' /\ OneProcessPerNode' /\ UpAndDown'
  BY <1>0, <1>1 DEF Descriptors, OneProcessPerNode, UpAndDown, OldConnection, FdsOf
<1> QED BY <1>0, <1>2, <1>5, <1>6, <1>7, AppendExtends DEF Types

\* A client makes a call: it waits for none, so there is no other.
LEMMA CallIInv ==
    ASSUME IInv, NEW p \in DecafsClients, Call(p)
    PROVE  IInv'
<1>0. Types /\ Descriptors /\ Packeted /\ OneCallPerClient
  BY DEF IInv
<1>1. /\ proc[p] = "connected" /\ p \notin calling
      /\ calling' = calling \cup {p}
      /\ inbox' = [inbox EXCEPT ![p] = Append(@, "call")]
      /\ UNCHANGED <<proc, eof, backlog, overtaken, answers, hits, server>>
  BY DEF Call
<1>2. UNCHANGED <<conn, pc, owed>>
  BY <1>1 DEF server
<1>3. p \in Procs
  BY DEF Procs
<1>4. /\ Descriptors' /\ Packeted' /\ Roles' /\ OneProcessPerNode'
      /\ UpAndDown'
      /\ inbox' \in [Procs -> Seq(PacketKinds)]
  BY <1>1, <1>3, SendIInv
<1>5. Types'
  BY <1>0, <1>1, <1>2, <1>4 DEF Types
<1>6. OneCallPerClient'
  <2>1. inbox[p] \in Seq(PacketKinds) /\ "call" \in PacketKinds
        /\ inbox'[p] = Append(inbox[p], "call")
        /\ \A q \in Procs : q # p => inbox'[q] = inbox[q]
    BY <1>0, <1>1, <1>3 DEF Types, PacketKinds
  <2>2. ~Asked(p) /\ ~Owed(p) /\ answers[p] = 0 /\ hits[p] = 0
    BY <1>0, <1>1 DEF OneCallPerClient
  <2>3. \A i, j \in DOMAIN inbox'[p] :
            inbox'[p][i] = "call" /\ inbox'[p][j] = "call" => i = j
    BY <2>1, <2>2, AppendExtends DEF Asked
  <2>4. \A q \in Procs : Owed(q)' <=> Owed(q)
    BY <1>2 DEF Owed
  <2>5. \A q \in Procs : q # p => (Asked(q)' <=> Asked(q))
    BY <2>1 DEF Asked
  <2> QED BY <1>0, <1>1, <2>1, <2>2, <2>3, <2>4, <2>5 DEF OneCallPerClient, Procs
<1> QED BY <1>4, <1>5, <1>6 DEF IInv

\* A client takes an answer.
LEMMA ReturnIInv ==
    ASSUME IInv, NEW p \in DecafsClients, Return(p)
    PROVE  IInv'
<1>0. Types /\ Descriptors /\ Packeted /\ Roles /\ OneProcessPerNode
      /\ UpAndDown /\ OneCallPerClient
  BY DEF IInv
<1>1. /\ p \in calling /\ answers[p] > 0
      /\ answers' = [answers EXCEPT ![p] = @ - 1]
      /\ calling' = calling \ {p}
      /\ UNCHANGED <<proc, eof, backlog, overtaken, inbox, hits>>
      /\ UNCHANGED <<conn, pc, todo, m_clients, m_pending_clients, m_decafs_clients,
                     m_espresso_nodes, m_espresso_nodes_rev, up_nodes, owed>>
  BY DEF Return, server
<1>2. Types'
  BY <1>0, <1>1 DEF Types, Procs
<1>3. Descriptors' /\ Packeted' /\ Roles' /\ OneProcessPerNode' /\ UpAndDown'
  BY <1>0, <1>1 DEF Descriptors, Packeted, Roles, OneProcessPerNode, UpAndDown,
                    Unregistered, OldConnection, FdsOf
<1>4. OneCallPerClient'
  <2>1. /\ answers[p] \in Nat /\ hits[p] \in Nat
        /\ answers'[p] = answers[p] - 1
        /\ \A q \in Procs : q # p => answers'[q] = answers[q]
    BY <1>0, <1>1 DEF Types, Procs
  <2>2. ~Asked(p) /\ ~Owed(p) /\ answers'[p] = 0 /\ hits[p] = 0
    BY <1>0, <1>1, <2>1 DEF OneCallPerClient
  <2>3. \A q \in Procs : (Asked(q)' <=> Asked(q)) /\ (Owed(q)' <=> Owed(q))
    BY <1>1 DEF Asked, Owed
  <2> QED BY <1>0, <1>1, <2>1, <2>2, <2>3, ConnectionsAssumption
          DEF OneCallPerClient, Procs
<1> QED BY <1>2, <1>3, <1>4 DEF IInv

\* A node answers a chunk request.
LEMMA DoWorkIInv ==
    ASSUME IInv, NEW p \in EspressoClients, DoWork(p)
    PROVE  IInv'
<1>0. Types /\ OneCallPerClient
  BY DEF IInv
<1>1. /\ proc[p] = "connected"
      /\ inbox' = [inbox EXCEPT ![p] = Append(@, "done")]
      /\ UNCHANGED <<proc, calling, eof, backlog, overtaken, answers, hits, server>>
  BY DEF DoWork, kernel
<1>2. UNCHANGED <<conn, pc, owed>>
  BY <1>1 DEF server
<1>3. p \in Procs
  BY DEF Procs
<1>4. /\ Descriptors' /\ Packeted' /\ Roles' /\ OneProcessPerNode'
      /\ UpAndDown'
      /\ inbox' \in [Procs -> Seq(PacketKinds)]
  BY <1>1, <1>3, SendIInv
<1>5. Types'
  BY <1>0, <1>1, <1>2, <1>4 DEF Types
<1>6. OneCallPerClient'
  <2>1. \A q \in DecafsClients : inbox'[q] = inbox[q]
    BY <1>0, <1>1, ConnectionsAssumption DEF Types, Procs
  <2> QED BY <1>0, <1>1, <1>2, <2>1 DEF OneCallPerClient, Asked, Owed
<1> QED BY <1>4, <1>5, <1>6 DEF IInv

-------------------------------------------------------------------------------
(* The server's loop *)

\* A connection is taken from the backlog, or none, or the server stops.
LEMMA check_for_clientsIInv ==
    ASSUME IInv, check_for_clients
    PROVE  IInv'
<1>0. Types /\ Descriptors /\ Packeted /\ Roles /\ OneProcessPerNode
      /\ UpAndDown /\ OneCallPerClient
  BY DEF IInv
<1>1. /\ UNCHANGED <<proc, calling, eof, overtaken, inbox, answers, hits>>
      /\ UNCHANGED <<todo, m_decafs_clients, m_espresso_nodes,
                     m_espresso_nodes_rev, up_nodes, owed>>
      /\ pc' \in {"messages", "crashed"}
  BY DEF check_for_clients, net
<1>2. CASE UNCHANGED <<backlog, conn, m_clients, m_pending_clients>>
  BY <1>0, <1>1, <1>2, FrameIInv DEF Descriptors
<1>3. CASE /\ backlog # <<>>
           /\ conn' = With(conn, NewFd, Head(backlog))
           /\ m_clients' = m_clients \cup {NewFd}
           /\ m_pending_clients' = m_pending_clients \cup {NewFd}
           /\ backlog' = Tail(backlog)
  <2> DEFINE p == Head(backlog)
  <2>1. /\ NewFd \notin DOMAIN conn
        /\ \E n \in Nat : DOMAIN conn \cup {NewFd} = 1 .. n
    BY <1>0, NewFdNext
  <2>2. /\ DOMAIN conn' = DOMAIN conn \cup {NewFd}
        /\ conn'[NewFd] = p
        /\ \A fd \in DOMAIN conn : conn'[fd] = conn[fd]
    BY <1>3, <2>1 DEF With
  <2>3. backlog \in Seq(Procs)
    BY <1>0 DEF Types
  <2>4. /\ backlog' \in Seq(Procs)
        /\ p = backlog[1] /\ 1 \in DOMAIN backlog
        /\ \A i \in DOMAIN backlog' : /\ i + 1 \in DOMAIN backlog /\ i + 1 > 1
                                      /\ backlog'[i] = backlog[i + 1]
    BY <1>3, <2>3, TailMoves
  <2>5. p \in Procs /\ proc[p] # "new" /\ Unregistered(p)
        /\ \A fd \in DOMAIN conn : conn[fd] # p
    BY <1>0, <2>3, <2>4 DEF Descriptors, Packeted
  <2>6. Types'
    BY <1>0, <1>1, <2>4 DEF Types
  <2>7. Descriptors'
    <3>1. \A fd, g \in DOMAIN conn' : conn'[fd] = conn'[g] => fd = g
      BY <1>0, <2>2, <2>5 DEF Descriptors
    <3>2. \A i \in DOMAIN backlog' : backlog'[i] # p
      BY <1>0, <2>4 DEF Descriptors
    <3>3. \A i \in DOMAIN backlog' :
            /\ proc[backlog'[i]] # "new"
            /\ \A fd \in DOMAIN conn' : conn'[fd] # backlog'[i]
      BY <1>0, <2>2, <2>4, <3>2 DEF Descriptors
    <3>4. \A i, j \in DOMAIN backlog' : backlog'[i] = backlog'[j] => i = j
      <4> SUFFICES ASSUME NEW i \in DOMAIN backlog', NEW j \in DOMAIN backlog',
                          backlog'[i] = backlog'[j]
                   PROVE  i = j
        OBVIOUS
      <4>1. i + 1 = j + 1
        BY <1>0, <2>4 DEF Descriptors
      <4>2. i \in Int /\ j \in Int
        BY <2>4
      <4> QED BY <4>1, <4>2
    <3>5. \E n \in Nat : DOMAIN conn' = 1 .. n
      BY <2>1, <2>2
    <3>6. \A fd \in DOMAIN conn' : conn'[fd] \in Procs /\ proc[conn'[fd]] # "new"
      BY <1>0, <2>2, <2>5 DEF Descriptors
    <3>7. todo \subseteq m_clients' /\ m_clients' \subseteq DOMAIN conn'
          /\ owed \subseteq DOMAIN conn'
      BY <1>0, <1>3, <2>2 DEF Descriptors
    <3> QED BY <1>1, <3>1, <3>3, <3>4, <3>5, <3>6, <3>7 DEF Descriptors
  <2>8. Packeted'
    BY <1>0, <1>1, <2>4 DEF Packeted, Unregistered
  <2>9. Roles'
    <3>1. \A q : Unregistered(q)' <=> Unregistered(q)
      BY <1>1 DEF Unregistered
    <3>2. m_pending_clients' = {fd \in DOMAIN conn' : Unregistered(conn'[fd])}
      BY <1>0, <1>3, <2>2, <2>5 DEF Roles
    <3>3. m_decafs_clients \cup DOMAIN m_espresso_nodes_rev \subseteq DOMAIN conn
      BY <1>0 DEF Roles, Descriptors
    <3> QED BY <1>0, <1>1, <1>3, <2>2, <3>1, <3>2, <3>3 DEF Roles
  <2>10. \A q \in EspressoClients : OldConnection(q)' => OldConnection(q)
    <3>1. \A q : FdsOf(q)' \cap m_clients' # {} =>
                    q = p \/ FdsOf(q) \cap m_clients # {}
      BY <1>3, <2>2 DEF FdsOf
    <3> QED BY <2>4, <3>1 DEF OldConnection
  <2>11. OneProcessPerNode'
    BY <1>0, <1>1, <2>10 DEF OneProcessPerNode
  <2>12. UpAndDown'
    <3>1. DOMAIN m_espresso_nodes_rev \subseteq DOMAIN conn
      BY <1>0 DEF Roles, Descriptors
    <3>2. \A n \in DOMAIN m_espresso_nodes : m_espresso_nodes[n] \in DOMAIN conn
      BY <1>0, <3>1 DEF Roles
    <3> QED BY <1>0, <1>1, <2>2, <3>1, <3>2 DEF UpAndDown
  <2>13. OneCallPerClient'
    <3>1. \A q : (Asked(q)' <=> Asked(q)) /\ (Owed(q)' <=> Owed(q))
      BY <1>0, <1>1, <2>2 DEF Asked, Owed, Descriptors
    <3> QED BY <1>0, <1>1, <3>1 DEF OneCallPerClient
  <2> QED BY <2>6, <2>7, <2>8, <2>9, <2>11, <2>12, <2>13 DEF IInv
<1> QED BY <1>2, <1>3 DEF check_for_clients

\* select.
LEMMA check_for_messagesIInv ==
    ASSUME IInv, check_for_messages
    PROVE  IInv'
  BY FrameIInv DEF check_for_messages, kernel, net

-------------------------------------------------------------------------------
(* The visit of a connection *)

\* What taking the first packet of connection fd does to the inboxes.
LEMMA TakePacket ==
    ASSUME IInv, NEW fd \in m_clients, inbox[conn[fd]] # <<>>,
           inbox' = [inbox EXCEPT ![conn[fd]] = Tail(@)], UNCHANGED conn
    PROVE  /\ conn[fd] \in Procs
           /\ Head(inbox[conn[fd]]) = inbox[conn[fd]][1]
           /\ 1 \in DOMAIN inbox[conn[fd]]
           /\ inbox' \in [Procs -> Seq(PacketKinds)]
           /\ \A q \in Procs : q # conn[fd] => inbox'[q] = inbox[q]
           /\ \A i \in DOMAIN inbox'[conn[fd]] :
                 /\ i + 1 \in DOMAIN inbox[conn[fd]] /\ i + 1 > 1
                 /\ inbox'[conn[fd]][i] = inbox[conn[fd]][i + 1]
                 /\ inbox'[conn[fd]][i] # "init"
           /\ ~Unregistered(conn[fd])'
           /\ \A q \in Procs : q # conn[fd] => (Unregistered(q)' <=> Unregistered(q))
<1> DEFINE p == conn[fd]
<1>0. Types /\ Descriptors /\ Packeted
  BY DEF IInv
<1>1. p \in Procs
  BY <1>0 DEF Descriptors
<1>2. inbox[p] \in Seq(PacketKinds)
  BY <1>0, <1>1 DEF Types
<1>3. /\ inbox'[p] = Tail(inbox[p])
      /\ \A q \in Procs : q # p => inbox'[q] = inbox[q]
  BY <1>0, <1>1 DEF Types
<1>4. /\ inbox'[p] \in Seq(PacketKinds)
      /\ Head(inbox[p]) = inbox[p][1]
      /\ 1 \in DOMAIN inbox[p]
      /\ \A i \in DOMAIN inbox'[p] : /\ i + 1 \in DOMAIN inbox[p] /\ i + 1 > 1
                                     /\ inbox'[p][i] = inbox[p][i + 1]
  <2>1. inbox[p] # <<>>
    OBVIOUS
  <2>2. /\ Tail(inbox[p]) \in Seq(PacketKinds)
        /\ Head(inbox[p]) = inbox[p][1] /\ 1 \in DOMAIN inbox[p]
        /\ \A i \in DOMAIN Tail(inbox[p]) :
              /\ i + 1 \in DOMAIN inbox[p] /\ i + 1 > 1
              /\ Tail(inbox[p])[i] = inbox[p][i + 1]
    BY <1>2, <2>1, TailMoves
  <2> QED BY <1>3, <2>2
<1>5. \A i \in DOMAIN inbox'[p] : inbox'[p][i] # "init"
  <2> SUFFICES ASSUME NEW i \in DOMAIN inbox'[p], inbox[p][i + 1] = "init" PROVE FALSE
    BY <1>4
  <2>1. i + 1 = 1
    BY <1>0, <1>1, <1>4 DEF Packeted
  <2> QED BY <1>4, <2>1
<1>6. ~Unregistered(p)'
  <2>1. inbox'[p] # <<>> => 1 \in DOMAIN inbox'[p]
    BY <1>4
  <2> QED BY <1>5, <2>1 DEF Unregistered
<1>7. \A q \in Procs : q # p => (Unregistered(q)' <=> Unregistered(q))
  BY <1>3 DEF Unregistered
<1>8. inbox' \in [Procs -> Seq(PacketKinds)]
  BY <1>0, <1>1, <1>4 DEF Types
<1> QED BY <1>1, <1>3, <1>4, <1>5, <1>6, <1>7, <1>8

\* The order of the packets stays right when one is taken.
LEMMA TakePacketPacketed ==
    ASSUME IInv, NEW fd \in m_clients, inbox[conn[fd]] # <<>>,
           inbox' = [inbox EXCEPT ![conn[fd]] = Tail(@)],
           UNCHANGED <<proc, backlog, conn>>
    PROVE  Packeted'
<1> DEFINE p == conn[fd]
<1>0. Types /\ Descriptors /\ Packeted
  BY DEF IInv
<1>1. /\ p \in Procs
      /\ \A q \in Procs : q # p => inbox'[q] = inbox[q]
      /\ \A i \in DOMAIN inbox'[p] : /\ i + 1 \in DOMAIN inbox[p]
                                     /\ inbox'[p][i] = inbox[p][i + 1]
                                     /\ inbox'[p][i] # "init"
      /\ \A q \in Procs : q # p => (Unregistered(q)' <=> Unregistered(q))
  BY TakePacket
<1>2. \A i \in DOMAIN backlog : backlog[i] \in Procs /\ backlog[i] # p
  BY <1>0 DEF Types, Descriptors
<1>3. proc[p] # "new"
  BY <1>0 DEF Descriptors
<1>4. \A i \in DOMAIN backlog' : Unregistered(backlog[i])'
  BY <1>0, <1>1, <1>2 DEF Packeted
<1>5. \A q \in EspressoClients : \A i \in DOMAIN inbox'[q] : inbox'[q][i] # "call"
  BY <1>0, <1>1 DEF Packeted, Procs
<1>6. \A q \in Procs : \A i \in DOMAIN inbox'[q] : inbox'[q][i] = "init" => i = 1
  BY <1>0, <1>1 DEF Packeted
<1>7. \A q \in Procs : proc'[q] = "new" => inbox'[q] = <<>>
  BY <1>0, <1>1, <1>3 DEF Packeted
<1> QED BY <1>4, <1>5, <1>6, <1>7 DEF Packeted

\* A connection gets its role.
LEMMA RegisterIInv ==
    ASSUME IInv, pc = "visit", NEW fd \in todo,
           inbox[conn[fd]] # <<>>, Register(fd),
           inbox' = [inbox EXCEPT ![conn[fd]] = Tail(@)],
           UNCHANGED <<kernel, m_clients, conn>>, todo' = todo \ {fd}
    PROVE  IInv'
<1> DEFINE p == conn[fd]
<1>0. Types /\ Descriptors /\ Packeted /\ Roles /\ OneProcessPerNode
      /\ UpAndDown /\ OneCallPerClient
  BY DEF IInv
<1>1. /\ fd \in m_clients /\ fd \in DOMAIN conn
      /\ UNCHANGED <<proc, calling, eof, backlog, overtaken, answers, hits, owed, pc>>
      /\ Head(inbox[p]) = "init"
  BY <1>0 DEF Descriptors, kernel, Register
<1>2. /\ p \in Procs
      /\ inbox[p][1] = "init" /\ 1 \in DOMAIN inbox[p]
      /\ inbox' \in [Procs -> Seq(PacketKinds)]
      /\ \A q \in Procs : q # p => inbox'[q] = inbox[q]
      /\ \A i \in DOMAIN inbox'[p] : /\ i + 1 \in DOMAIN inbox[p] /\ i + 1 > 1
                                     /\ inbox'[p][i] = inbox[p][i + 1]
      /\ ~Unregistered(p)'
      /\ \A q \in Procs : q # p => (Unregistered(q)' <=> Unregistered(q))
  BY <1>1, TakePacket
<1>3. Packeted'
  BY <1>1, TakePacketPacketed
<1>4. Types'
  BY <1>0, <1>1, <1>2 DEF Types
<1>5. Descriptors'
  BY <1>0, <1>1 DEF Descriptors
<1>6. \A g \in DOMAIN conn : conn[g] \in Procs /\ (conn[g] = p => g = fd)
  BY <1>0, <1>1 DEF Descriptors
<1>7. Unregistered(p) /\ fd \in m_pending_clients
      /\ fd \notin m_decafs_clients /\ fd \notin DOMAIN m_espresso_nodes_rev
  BY <1>0, <1>1, <1>2 DEF Roles, Unregistered
<1>8. m_decafs_clients \subseteq DOMAIN conn
      /\ DOMAIN m_espresso_nodes_rev \subseteq DOMAIN conn
  BY <1>0 DEF Roles, Descriptors
<1>9. m_pending_clients' = m_pending_clients \ {fd}
  BY DEF Register, addEspressoNode, addDecafsClient
<1>10. m_pending_clients' = {g \in DOMAIN conn' : Unregistered(conn[g])'}
  BY <1>0, <1>1, <1>2, <1>6, <1>9 DEF Roles
<1>11. OneProcessPerNode'
  BY <1>0, <1>1 DEF OneProcessPerNode, OldConnection, FdsOf
<1>12. OneCallPerClient'
  <2>1. \A q \in Procs : Owed(q)' <=> Owed(q)
    BY <1>1 DEF Owed
  <2>2. \A q \in Procs : Asked(q)' => Asked(q)
    BY <1>2 DEF Asked
  <2>3. ASSUME NEW q \in DecafsClients,
               NEW i \in DOMAIN inbox'[q], NEW j \in DOMAIN inbox'[q],
               inbox'[q][i] = "call", inbox'[q][j] = "call"
        PROVE  i = j
    <3>1. CASE q # p
      BY <1>0, <1>2, <2>3, <3>1 DEF OneCallPerClient, Procs
    <3>2. CASE q = p
      <4>1. i + 1 = j + 1
        BY <1>0, <1>2, <2>3, <3>2 DEF OneCallPerClient
      <4>2. i \in Int /\ j \in Int
        BY <1>2, <3>2
      <4> QED BY <4>1, <4>2
    <3> QED BY <3>1, <3>2
  <2> QED BY <1>0, <1>1, <2>1, <2>2, <2>3 DEF OneCallPerClient, Procs
<1>13. CASE p \in DecafsClients
  <2>1. /\ m_decafs_clients' = m_decafs_clients \cup {fd}
        /\ UNCHANGED <<m_espresso_nodes, m_espresso_nodes_rev, up_nodes>>
    BY <1>13, ConnectionsAssumption DEF Register, addDecafsClient
  <2>2. Roles'
    BY <1>0, <1>1, <1>2, <1>6, <1>7, <1>8, <1>9, <1>10, <1>13, <2>1 DEF Roles
  <2>3. UpAndDown'
    BY <1>0, <1>1, <2>1 DEF UpAndDown
  <2> QED BY <1>3, <1>4, <1>5, <1>11, <1>12, <2>2, <2>3 DEF IInv
<1>14. CASE p \in EspressoClients
  <2> DEFINE n == NodeId[p]
  <2>1. /\ m_espresso_nodes' = With(m_espresso_nodes, n, fd)
        /\ m_espresso_nodes_rev' = With(m_espresso_nodes_rev, fd, n)
        /\ up_nodes' = up_nodes \cup {n}
        /\ UNCHANGED m_decafs_clients
    BY <1>14, ConnectionsAssumption DEF Register, addEspressoNode
  <2>2. /\ DOMAIN m_espresso_nodes' = DOMAIN m_espresso_nodes \cup {n}
        /\ m_espresso_nodes'[n] = fd
        /\ \A m \in DOMAIN m_espresso_nodes :
              m # n => m_espresso_nodes'[m] = m_espresso_nodes[m]
    BY <2>1 DEF With
  <2>3. /\ DOMAIN m_espresso_nodes_rev' = DOMAIN m_espresso_nodes_rev \cup {fd}
        /\ m_espresso_nodes_rev'[fd] = n
        /\ \A g \in DOMAIN m_espresso_nodes_rev :
              m_espresso_nodes_rev'[g] = m_espresso_nodes_rev[g]
    BY <1>7, <2>1 DEF With
  <2>4. Roles'
    <3>1. m_clients' = m_pending_clients' \cup m_decafs_clients'
                         \cup DOMAIN m_espresso_nodes_rev'
      BY <1>0, <1>1, <1>7, <1>9, <2>1, <2>3 DEF Roles
    <3>2. \A g \in m_decafs_clients' :
              conn'[g] \in DecafsClients /\ ~Unregistered(conn[g])'
      BY <1>0, <1>2, <1>6, <1>7, <1>8, <2>1 DEF Roles
    <3>3. \A g \in DOMAIN m_espresso_nodes_rev' :
              /\ conn'[g] \in EspressoClients /\ ~Unregistered(conn[g])'
              /\ m_espresso_nodes_rev'[g] = NodeId[conn'[g]]
      BY <1>0, <1>2, <1>6, <1>7, <1>8, <1>14, <2>3 DEF Roles
    <3>4. up_nodes' \subseteq DOMAIN m_espresso_nodes'
      BY <1>0, <2>1, <2>2 DEF Roles
    <3>5. \A m \in DOMAIN m_espresso_nodes' :
              /\ m_espresso_nodes'[m] \in DOMAIN m_espresso_nodes_rev'
              /\ m_espresso_nodes_rev'[m_espresso_nodes'[m]] = m
      BY <1>0, <2>2, <2>3 DEF Roles
    <3>6. m_espresso_nodes' = [m \in DOMAIN m_espresso_nodes' |-> m_espresso_nodes'[m]]
      BY <2>1 DEF With
    <3> QED BY <1>10, <3>1, <3>2, <3>3, <3>4, <3>5, <3>6 DEF Roles
  <2>5. ASSUME NEW g \in DOMAIN m_espresso_nodes_rev, m_espresso_nodes_rev[g] = n,
               proc[conn[g]] = "connected", n \notin overtaken
        PROVE  FALSE
    <3>1. conn[g] \in EspressoClients /\ NodeId[conn[g]] = n /\ conn[g] # p
      BY <1>0, <1>6, <1>7, <1>8, <2>5 DEF Roles
    <3>2. OldConnection(conn[g])
      BY <1>1, <1>14, <3>1 DEF OldConnection, FdsOf
    <3> QED BY <1>0, <2>5, <3>1, <3>2 DEF OneProcessPerNode
  <2>6. UpAndDown'
    <3> SUFFICES ASSUME NEW g \in DOMAIN m_espresso_nodes_rev', g # fd,
                        proc[conn[g]] = "connected",
                        m_espresso_nodes_rev[g] \notin overtaken
                 PROVE  /\ m_espresso_nodes_rev[g] \in up_nodes'
                        /\ m_espresso_nodes'[m_espresso_nodes_rev[g]] = g
      <4>1. \A m \in DOMAIN m_espresso_nodes' \ up_nodes' :
                proc'[conn'[m_espresso_nodes'[m]]] = "ended"
        BY <1>0, <1>1, <2>1, <2>2 DEF UpAndDown
      <4> QED BY <1>1, <2>1, <2>2, <2>3, <4>1 DEF UpAndDown
    <3>1. m_espresso_nodes_rev[g] # n
      BY <2>3, <2>5
    <3>2. /\ m_espresso_nodes_rev[g] \in up_nodes
          /\ m_espresso_nodes[m_espresso_nodes_rev[g]] = g
      BY <1>0, <2>3 DEF UpAndDown
    <3> QED BY <1>0, <2>1, <2>2, <3>1, <3>2 DEF Roles
  <2> QED BY <1>3, <1>4, <1>5, <1>11, <1>12, <2>4, <2>6 DEF IInv
<1> QED BY <1>2, <1>13, <1>14 DEF Procs

\* A packet other than the first changes no role.
LEMMA TakePacketRoles ==
    ASSUME IInv, NEW fd \in todo, inbox[conn[fd]] # <<>>,
           Head(inbox[conn[fd]]) # "init",
           inbox' = [inbox EXCEPT ![conn[fd]] = Tail(@)],
           UNCHANGED <<kernel, m_clients, conn>>, todo' = todo \ {fd},
           UNCHANGED <<m_pending_clients, m_decafs_clients, m_espresso_nodes,
                       m_espresso_nodes_rev>>,
           up_nodes' \subseteq up_nodes,
           \A n \in up_nodes \ up_nodes' : proc[conn[m_espresso_nodes[n]]] = "ended",
           owed' \subseteq owed \cup {fd}
    PROVE  Descriptors' /\ Packeted' /\ Roles' /\ OneProcessPerNode' /\ UpAndDown'
<1> DEFINE p == conn[fd]
<1>0. Types /\ Descriptors /\ Packeted /\ Roles /\ OneProcessPerNode /\ UpAndDown
  BY DEF IInv
<1>1. fd \in m_clients /\ fd \in DOMAIN conn /\ UNCHANGED <<proc, backlog, overtaken>>
  BY <1>0 DEF Descriptors, kernel
<1>2. /\ p \in Procs /\ inbox[p][1] # "init" /\ ~Unregistered(p)'
      /\ \A q \in Procs : q # p => (Unregistered(q)' <=> Unregistered(q))
  BY <1>1, TakePacket
<1>3. \A g \in DOMAIN conn : conn[g] \in Procs
                              /\ (Unregistered(conn[g])' <=> Unregistered(conn[g]))
  BY <1>0, <1>2 DEF Descriptors, Unregistered
<1>4. Packeted'
  BY <1>1, TakePacketPacketed
<1>5. Descriptors'
  BY <1>0, <1>1 DEF Descriptors
<1>6. Roles'
  <2>1. m_pending_clients' = {g \in DOMAIN conn' : Unregistered(conn[g])'}
    BY <1>0, <1>3 DEF Roles
  <2>2. m_decafs_clients \subseteq DOMAIN conn
        /\ DOMAIN m_espresso_nodes_rev \subseteq DOMAIN conn
    BY <1>0 DEF Roles, Descriptors
  <2> QED BY <1>0, <1>3, <2>1, <2>2 DEF Roles
<1>7. OneProcessPerNode'
  BY <1>0, <1>1 DEF OneProcessPerNode, OldConnection, FdsOf
<1>8. UpAndDown'
  <2>1. ASSUME NEW g \in DOMAIN m_espresso_nodes_rev, proc[conn[g]] = "connected",
               m_espresso_nodes_rev[g] \notin overtaken
        PROVE  /\ m_espresso_nodes_rev[g] \in up_nodes'
               /\ m_espresso_nodes[m_espresso_nodes_rev[g]] = g
    BY <1>0, <2>1 DEF UpAndDown
  <2>2. ASSUME NEW n \in DOMAIN m_espresso_nodes \ up_nodes'
        PROVE  proc[conn[m_espresso_nodes[n]]] = "ended"
    BY <1>0, <2>2 DEF UpAndDown
  <2> QED BY <1>1, <2>1, <2>2 DEF UpAndDown
<1> QED BY <1>4, <1>5, <1>6, <1>7, <1>8

\* What sends to p change, other than answers and work.
LEMMA SendEffectChanges ==
    ASSUME Types, pc = "visit", NEW p \in Procs, NEW k \in Nat, SendEffect(p, k)
    PROVE  /\ pc' \in {"messages", "visit", "crashed", "undefined"}
           /\ hits' \in [Procs -> Nat]
           /\ \A q \in Procs : q # p => hits'[q] = hits[q]
           /\ \/ proc[p] = "connected" /\ hits'[p] = hits[p]
              \/ proc[p] = "ended" /\ hits'[p] = hits[p] + k
<1>1. CASE proc[p] = "connected" /\ UNCHANGED <<hits, reset, pc>>
  BY <1>1 DEF Types
<1>2. CASE /\ proc[p] = "ended"
           /\ hits' = [hits EXCEPT ![p] = @ + k]
           /\ pc' \in {"visit", "crashed"}
  <2>1. hits \in [Procs -> Nat]
    BY DEF Types
  <2>2. /\ hits' \in [Procs -> Nat]
        /\ hits'[p] = hits[p] + k
        /\ \A q \in Procs : q # p => hits'[q] = hits[q]
    BY <1>2, <2>1
  <2> QED BY <1>2, <2>2
<1> QED BY <1>1, <1>2 DEF SendEffect

\* The same of sends one of which fails.
LEMMA SendFailsChanges ==
    ASSUME Types, pc = "visit", NEW p \in Procs, NEW k \in Nat, SendFails(p, k)
    PROVE  /\ pc' \in {"messages", "visit", "crashed", "undefined"}
           /\ hits' \in [Procs -> Nat]
           /\ \A q \in Procs : q # p => hits'[q] = hits[q]
<1>1. hits \in [Procs -> Nat]
  BY DEF Types
<1> QED BY <1>1 DEF SendFails

\* Client q has no call after its answer, which reached it if it is connected.
LEMMA AnsweredOnce ==
    ASSUME Types, OneCallPerClient, NEW g \in DOMAIN conn, pc = "visit",
           conn[g] \in DecafsClients, SendAnswer(g),
           Asked(conn[g]) \/ Owed(conn[g])
    PROVE  /\ pc' \in {"messages", "visit", "crashed", "undefined"}
           /\ answers' \in [Procs -> Nat] /\ hits' \in [Procs -> Nat]
           /\ \A q \in Procs : q # conn[g] => /\ hits'[q] = hits[q]
                                               /\ answers'[q] = answers[q]
           /\ answers'[conn[g]] + hits'[conn[g]] = 1
           /\ proc[conn[g]] # "ended" => /\ hits'[conn[g]] = 0
                                          /\ conn[g] \in calling
<1> DEFINE p == conn[g]
<1>1. p \in Procs /\ SendEffect(p, 1)
  BY DEF Procs, SendAnswer
<1>2. /\ pc' \in {"messages", "visit", "crashed", "undefined"}
      /\ hits' \in [Procs -> Nat]
      /\ \A q \in Procs : q # p => hits'[q] = hits[q]
      /\ \/ proc[p] = "connected" /\ hits'[p] = hits[p]
         \/ proc[p] = "ended" /\ hits'[p] = hits[p] + 1
  BY <1>1, SendEffectChanges
<1>3. answers[p] = 0 /\ hits[p] = 0 /\ (proc[p] # "ended" => p \in calling)
  BY DEF OneCallPerClient
<1>4. /\ answers' \in [Procs -> Nat]
      /\ \A q \in Procs : q # p => answers'[q] = answers[q]
      /\ answers'[p] = IF proc[p] = "connected" THEN answers[p] + 1 ELSE answers[p]
  BY <1>1 DEF SendAnswer, Types
<1> QED BY <1>2, <1>3, <1>4

\* The packet of a call.
LEMMA TakeCallIInv ==
    ASSUME IInv, pc = "visit", NEW fd \in todo,
           inbox[conn[fd]] # <<>>, TakeCall(fd),
           inbox' = [inbox EXCEPT ![conn[fd]] = Tail(@)],
           UNCHANGED <<kernel, m_clients, conn>>, todo' = todo \ {fd}
    PROVE  IInv'
<1> DEFINE p == conn[fd]
<1>0. Types /\ Descriptors /\ Packeted /\ Roles /\ OneCallPerClient
  BY DEF IInv
<1>1. /\ fd \in m_clients /\ fd \in DOMAIN conn
      /\ UNCHANGED <<proc, calling, eof, backlog, overtaken>>
      /\ Head(inbox[p]) = "call"
      /\ UNCHANGED <<m_pending_clients, m_decafs_clients, m_espresso_nodes,
                     m_espresso_nodes_rev>>
      /\ owed' = owed \/ owed' = owed \cup {fd}
  BY <1>0 DEF Descriptors, kernel, TakeCall
<1>2. /\ p \in Procs
      /\ inbox[p][1] = "call" /\ 1 \in DOMAIN inbox[p]
      /\ inbox' \in [Procs -> Seq(PacketKinds)]
      /\ \A q \in Procs : q # p => inbox'[q] = inbox[q]
      /\ \A i \in DOMAIN inbox'[p] : /\ i + 1 \in DOMAIN inbox[p] /\ i + 1 > 1
                                     /\ inbox'[p][i] = inbox[p][i + 1]
  BY <1>1, TakePacket
<1>3. Descriptors' /\ Packeted' /\ Roles' /\ OneProcessPerNode' /\ UpAndDown'
  <2>1. \/ UNCHANGED up_nodes
        \/ \E n \in Nodes, k \in 1 .. MaxChunks : SendWork(n, k) \/ SendNowhere(n)
    BY DEF TakeCall
  <2>2. /\ up_nodes' \subseteq up_nodes
        /\ \A n \in up_nodes \ up_nodes' : proc[conn[m_espresso_nodes[n]]] = "ended"
    BY <2>1 DEF SendWork, SendFails, SendNowhere
  <2> QED BY <1>1, <2>2, TakePacketRoles
<1>4. p \in DecafsClients /\ Asked(p)
  BY <1>0, <1>2 DEF Packeted, Procs, Asked
<1>5. ~Owed(p) /\ answers[p] = 0 /\ hits[p] = 0
      /\ (proc[p] # "ended" => p \in calling)
  BY <1>0, <1>4 DEF OneCallPerClient
<1>6. \A i \in DOMAIN inbox'[p] : inbox'[p][i] # "call"
  <2> SUFFICES ASSUME NEW i \in DOMAIN inbox'[p], inbox[p][i + 1] = "call" PROVE FALSE
    BY <1>2
  <2>1. i + 1 = 1
    BY <1>0, <1>2, <1>4 DEF OneCallPerClient
  <2> QED BY <1>2, <2>1
<1>7. \A q \in Procs : Asked(q)' <=> q # p /\ Asked(q)
  BY <1>2, <1>6 DEF Asked
<1>8. \A q \in DecafsClients : \A i, j \in DOMAIN inbox'[q] :
          inbox'[q][i] = "call" /\ inbox'[q][j] = "call" => i = j
  BY <1>0, <1>2, <1>6 DEF OneCallPerClient, Procs
<1>9. \A q \in Procs : Owed(q)' <=> Owed(q) \/ (q = p /\ fd \in owed')
  BY <1>1 DEF Owed
<1>10. ASSUME SendAnswer(fd), UNCHANGED owed PROVE Types' /\ OneCallPerClient'
  <2>1. /\ pc' \in {"messages", "visit", "crashed", "undefined"}
        /\ answers' \in [Procs -> Nat] /\ hits' \in [Procs -> Nat]
        /\ \A q \in Procs : q # p => hits'[q] = hits[q] /\ answers'[q] = answers[q]
        /\ answers'[p] + hits'[p] = 1
        /\ proc[p] # "ended" => hits'[p] = 0 /\ p \in calling
    BY <1>0, <1>1, <1>4, <1>10, AnsweredOnce
  <2>2. Types'
    BY <1>0, <1>1, <1>2, <2>1 DEF Types
  <2>3. \A q \in Procs : Owed(q)' <=> Owed(q)
    BY <1>10 DEF Owed
  <2>4. OneCallPerClient'
    <3>1. p \in Procs /\ p \notin EspressoClients
      BY <1>2, <1>4, ConnectionsAssumption
    <3>2. \A q \in EspressoClients : ~Owed(q)' /\ answers'[q] = 0
      BY <1>0, <2>1, <2>3, <3>1 DEF OneCallPerClient, Procs
    <3>3. ~Asked(p)' /\ ~Owed(p)'
      BY <1>5, <1>7, <2>3, <3>1
    <3>4. \A q \in DecafsClients :
              q # p => /\ hits'[q] = hits[q] /\ answers'[q] = answers[q]
                       /\ (Asked(q)' <=> Asked(q)) /\ (Owed(q)' <=> Owed(q))
      BY <1>7, <2>1, <2>3 DEF Procs
    <3>5. answers'[p] + hits'[p] <= 1
      BY <2>1
    <3> QED BY <1>0, <1>1, <1>8, <2>1, <3>2, <3>3, <3>4, <3>5 DEF OneCallPerClient
  <2> QED BY <2>2, <2>4
<1>11. ASSUME UNCHANGED <<answers, hits, owed, pc>> PROVE Types' /\ OneCallPerClient'
  <2>1. Types'
    BY <1>0, <1>1, <1>2, <1>11 DEF Types
  <2>2. \A q \in Procs : Owed(q)' <=> Owed(q)
    BY <1>11 DEF Owed
  <2>3. OneCallPerClient'
    BY <1>0, <1>1, <1>5, <1>7, <1>8, <1>11, <2>2 DEF OneCallPerClient, Procs
  <2> QED BY <2>1, <2>3
<1>12. ASSUME NEW n \in Nodes, NEW k \in 1 .. MaxChunks,
              SendWork(n, k) \/ SendNowhere(n),
              owed' = owed \cup {fd}, UNCHANGED answers
       PROVE  Types' /\ OneCallPerClient'
  <2>1. /\ pc' \in {"messages", "visit", "crashed", "undefined"}
        /\ hits' \in [Procs -> Nat]
    <3>1. CASE SendNowhere(n)
      BY <1>0, <3>1 DEF SendNowhere, Types
    <3>2. CASE SendWork(n, k)
      <4> DEFINE e == conn[m_espresso_nodes[n]]
      <4>1. e \in EspressoClients /\ e \in Procs
        BY <1>0, <3>2 DEF Roles, Procs, SendWork
      <4>2. k \in Nat /\ (SendEffect(e, k) \/ SendFails(e, k))
        BY <3>2, ConnectionsAssumption DEF SendWork
      <4> QED BY <1>0, <4>1, <4>2, SendEffectChanges, SendFailsChanges
    <3> QED BY <1>12, <3>1, <3>2
  <2>4. \A q \in DecafsClients : hits'[q] = hits[q]
    <3>1. CASE SendNowhere(n)
      BY <3>1 DEF SendNowhere
    <3>2. CASE SendWork(n, k)
      <4> DEFINE e == conn[m_espresso_nodes[n]]
      <4>1. e \in EspressoClients /\ e \in Procs
        BY <1>0, <3>2 DEF Roles, Procs, SendWork
      <4>2. k \in Nat /\ (SendEffect(e, k) \/ SendFails(e, k))
        BY <3>2, ConnectionsAssumption DEF SendWork
      <4>3. \A q \in Procs : q # e => hits'[q] = hits[q]
        BY <1>0, <4>1, <4>2, SendEffectChanges, SendFailsChanges
      <4> QED BY <4>1, <4>3, ConnectionsAssumption DEF Procs
    <3> QED BY <1>12, <3>1, <3>2
  <2>5. Types'
    BY <1>0, <1>1, <1>2, <1>12, <2>1 DEF Types
  <2>6. \A q \in Procs : q # p => (Owed(q)' <=> Owed(q))
    BY <1>9
  <2>7. OneCallPerClient'
    BY <1>0, <1>1, <1>4, <1>5, <1>7, <1>8, <1>12, <2>4, <2>6, ConnectionsAssumption
    DEF OneCallPerClient, Procs
  <2> QED BY <2>5, <2>7
<1> QED BY <1>3, <1>10, <1>11, <1>12 DEF IInv, TakeCall

\* The answer of a node to a chunk request.
LEMMA TakeDoneIInv ==
    ASSUME IInv, pc = "visit", NEW fd \in todo,
           inbox[conn[fd]] # <<>>, TakeDone(fd),
           inbox' = [inbox EXCEPT ![conn[fd]] = Tail(@)],
           UNCHANGED <<kernel, m_clients, conn>>, todo' = todo \ {fd}
    PROVE  IInv'
<1> DEFINE p == conn[fd]
<1>0. Types /\ Descriptors /\ OneCallPerClient
  BY DEF IInv
<1>1. /\ fd \in m_clients /\ fd \in DOMAIN conn
      /\ UNCHANGED <<proc, calling, eof, backlog, overtaken>>
      /\ Head(inbox[p]) = "done"
      /\ UNCHANGED <<m_pending_clients, m_decafs_clients, m_espresso_nodes,
                     m_espresso_nodes_rev, up_nodes>>
      /\ owed' \subseteq owed
  BY <1>0 DEF Descriptors, kernel, TakeDone
<1>2. /\ p \in Procs
      /\ inbox[p][1] = "done" /\ 1 \in DOMAIN inbox[p]
      /\ inbox' \in [Procs -> Seq(PacketKinds)]
      /\ \A q \in Procs : q # p => inbox'[q] = inbox[q]
      /\ \A i \in DOMAIN inbox'[p] : /\ i + 1 \in DOMAIN inbox[p] /\ i + 1 > 1
                                     /\ inbox'[p][i] = inbox[p][i + 1]
  BY <1>1, TakePacket
<1>3. Descriptors' /\ Packeted' /\ Roles' /\ OneProcessPerNode' /\ UpAndDown'
  BY <1>1, TakePacketRoles
<1>4. \A q \in Procs : Asked(q)' => Asked(q)
  BY <1>2 DEF Asked
<1>5. ASSUME NEW q \in DecafsClients,
             NEW i \in DOMAIN inbox'[q], NEW j \in DOMAIN inbox'[q],
             inbox'[q][i] = "call", inbox'[q][j] = "call"
      PROVE  i = j
  <2>1. CASE q # p
    BY <1>0, <1>2, <1>5, <2>1 DEF OneCallPerClient, Procs
  <2>2. CASE q = p
    <3>1. i + 1 = j + 1
      BY <1>0, <1>2, <1>5, <2>2 DEF OneCallPerClient
    <3>2. i \in Int /\ j \in Int
      BY <1>2, <2>2
    <3> QED BY <3>1, <3>2
  <2> QED BY <2>1, <2>2
<1>6. ASSUME UNCHANGED <<answers, hits, owed, pc>> PROVE Types' /\ OneCallPerClient'
  <2>1. Types'
    BY <1>0, <1>1, <1>2, <1>6 DEF Types
  <2>2. \A q \in Procs : Owed(q)' <=> Owed(q)
    BY <1>6 DEF Owed
  <2>3. OneCallPerClient'
    BY <1>0, <1>1, <1>4, <1>5, <1>6, <2>2 DEF OneCallPerClient, Procs
  <2> QED BY <2>1, <2>3
<1>7. ASSUME NEW g \in owed, SendAnswer(g), owed' = owed \ {g}
      PROVE  Types' /\ OneCallPerClient'
  <2> DEFINE c == conn[g]
  <2>1. g \in DOMAIN conn /\ c \in Procs /\ Owed(c)
    BY <1>0, <1>7 DEF Descriptors, Owed
  <2>2. c \in DecafsClients
    BY <1>0, <2>1 DEF OneCallPerClient, Procs
  <2>3. /\ pc' \in {"messages", "visit", "crashed", "undefined"}
        /\ answers' \in [Procs -> Nat] /\ hits' \in [Procs -> Nat]
        /\ \A q \in Procs : q # c => hits'[q] = hits[q] /\ answers'[q] = answers[q]
        /\ answers'[c] + hits'[c] = 1
        /\ proc[c] # "ended" => hits'[c] = 0 /\ c \in calling
    BY <1>0, <1>7, <2>1, <2>2, AnsweredOnce
  <2>4. Types'
    BY <1>0, <1>1, <1>2, <2>3 DEF Types
  <2>5. \A q \in Procs : Owed(q)' <=> q # c /\ Owed(q)
    BY <1>0, <1>7, <2>1 DEF Owed, Descriptors
  <2>6. ~Asked(c)'
    BY <1>0, <1>4, <2>1, <2>2 DEF OneCallPerClient
  <2>7. OneCallPerClient'
    <3>1. c \notin EspressoClients
      BY <2>2, ConnectionsAssumption
    <3>2. \A q \in EspressoClients : ~Owed(q)' /\ answers'[q] = 0
      BY <1>0, <2>3, <2>5, <3>1 DEF OneCallPerClient, Procs
    <3>3. ~Owed(c)'
      BY <2>1, <2>5
    <3>4. \A q \in DecafsClients :
              q # c => /\ hits'[q] = hits[q] /\ answers'[q] = answers[q]
                       /\ (Asked(q)' => Asked(q)) /\ (Owed(q)' <=> Owed(q))
      BY <1>4, <2>3, <2>5 DEF Procs
    <3>5. answers'[c] + hits'[c] <= 1
      BY <2>3
    <3> QED BY <1>0, <1>1, <1>5, <2>3, <2>6, <3>2, <3>3, <3>4, <3>5
            DEF OneCallPerClient
  <2> QED BY <2>4, <2>7
<1> QED BY <1>3, <1>6, <1>7 DEF IInv, TakeDone

\* The end of a stream: the connection leaves the maps.
LEMMA DisconnectIInv ==
    ASSUME IInv, NEW fd \in todo, Disconnect(fd),
           UNCHANGED conn, todo' = todo \ {fd}
    PROVE  IInv'
<1> DEFINE p == conn[fd]
<1>0. Types /\ Descriptors /\ Packeted /\ Roles /\ OneProcessPerNode
      /\ UpAndDown /\ OneCallPerClient
  BY DEF IInv
<1>1. /\ UNCHANGED <<proc, calling, eof, backlog, overtaken, inbox, answers, hits, owed>>
      /\ m_clients' = m_clients \ {fd}
      /\ pc' \in {"messages", "visit", "crashed", "undefined"}
      /\ inbox[p] = <<>> /\ fd \in m_clients /\ fd \in DOMAIN conn
      /\ clientDisconnected(fd)
  BY <1>0 DEF Disconnect, kernel, net, Descriptors
<1>2. Types' /\ Descriptors' /\ Packeted'
  BY <1>0, <1>1 DEF Types, Descriptors, Packeted, Unregistered
<1>3. OneCallPerClient'
  BY <1>0, <1>1 DEF OneCallPerClient, Asked, Owed
<1>4. OneProcessPerNode'
  <2>1. \A q \in EspressoClients : OldConnection(q)' => OldConnection(q)
    BY <1>1 DEF OldConnection, FdsOf
  <2> QED BY <1>0, <1>1, <2>1 DEF OneProcessPerNode
<1>5. \A q : Unregistered(q)' <=> Unregistered(q)
  BY <1>1 DEF Unregistered
<1>6. ~Unregistered(p) /\ fd \notin m_pending_clients
  BY <1>0, <1>1 DEF Unregistered, Roles
<1>7. \A n \in DOMAIN m_espresso_nodes :
          m_espresso_nodes[n] = fd => m_espresso_nodes_rev[fd] = n
  BY <1>0 DEF Roles
<1>8. CASE fd \in m_decafs_clients
  <2>1. p \in DecafsClients /\ fd \notin DOMAIN m_espresso_nodes_rev
    BY <1>0, <1>8, ConnectionsAssumption DEF Roles
  <2>2. /\ m_decafs_clients' = m_decafs_clients \ {fd}
        /\ UNCHANGED <<m_pending_clients, m_espresso_nodes, m_espresso_nodes_rev, up_nodes>>
    BY <1>1, <1>6, <2>1 DEF clientDisconnected
  <2>3. Roles'
    BY <1>0, <1>1, <1>5, <1>6, <2>1, <2>2 DEF Roles
  <2>4. UpAndDown'
    BY <1>0, <1>1, <2>2 DEF UpAndDown
  <2> QED BY <1>2, <1>3, <1>4, <2>3, <2>4 DEF IInv
<1>9. CASE fd \in DOMAIN m_espresso_nodes_rev
  <2> DEFINE n == m_espresso_nodes_rev[fd]
  <2>1. p \in EspressoClients /\ fd \notin m_decafs_clients /\ NodeId[p] = n
    BY <1>0, <1>9, ConnectionsAssumption DEF Roles
  <2>2. /\ m_espresso_nodes_rev' = Without(m_espresso_nodes_rev, fd)
        /\ m_espresso_nodes' = Without(m_espresso_nodes, n)
        /\ up_nodes' = up_nodes \ {n}
        /\ UNCHANGED <<m_pending_clients, m_decafs_clients>>
    BY <1>1, <1>6, <2>1 DEF clientDisconnected
  <2>3. /\ DOMAIN m_espresso_nodes' = DOMAIN m_espresso_nodes \ {n}
        /\ \A m \in DOMAIN m_espresso_nodes' :
              m_espresso_nodes'[m] = m_espresso_nodes[m]
        /\ DOMAIN m_espresso_nodes_rev' = DOMAIN m_espresso_nodes_rev \ {fd}
        /\ \A g \in DOMAIN m_espresso_nodes_rev' :
              m_espresso_nodes_rev'[g] = m_espresso_nodes_rev[g]
    BY <2>2 DEF Without
  <2>4. Roles'
    <3>1. m_espresso_nodes' = [m \in DOMAIN m_espresso_nodes' |-> m_espresso_nodes'[m]]
      BY <2>2 DEF Without
    <3> QED BY <1>0, <1>1, <1>5, <1>6, <1>7, <2>1, <2>2, <2>3, <3>1 DEF Roles
  <2>5. ASSUME NEW g \in DOMAIN m_espresso_nodes_rev', m_espresso_nodes_rev[g] = n,
               proc[conn[g]] = "connected", n \notin overtaken
        PROVE  FALSE
    <3>1. g \in DOMAIN m_espresso_nodes_rev /\ g # fd /\ g \in DOMAIN conn
      BY <1>0, <2>3 DEF Roles, Descriptors
    <3>2. conn[g] \in EspressoClients /\ NodeId[conn[g]] = n /\ conn[g] # p
      BY <1>0, <1>1, <2>5, <3>1 DEF Roles, Descriptors
    <3>3. OldConnection(conn[g])
      BY <1>1, <2>1, <3>2 DEF OldConnection, FdsOf
    <3> QED BY <1>0, <2>5, <3>2, <3>3 DEF OneProcessPerNode
  <2>6. UpAndDown'
    BY <1>0, <1>1, <2>2, <2>3, <2>5 DEF UpAndDown, Roles
  <2> QED BY <1>2, <1>3, <1>4, <2>4, <2>6 DEF IInv
<1> QED BY <1>0, <1>1, <1>6, <1>8, <1>9 DEF Roles

\* The visit of the next connection.
LEMMA VisitIInv ==
    ASSUME IInv, Visit
    PROVE  IInv'
<1> DEFINE fd == Min(todo)
<1>1. todo # {} /\ pc = "visit" /\ UNCHANGED conn /\ todo' = todo \ {fd}
      /\ (handleMessageFromClient(fd) \/ RecvError(fd) \/ Disconnect(fd))
  BY DEF Visit
<1>2. fd \in todo
  <2>1. todo \subseteq Nat
    BY DEF IInv, Descriptors
  <2> QED BY <1>1, <2>1, MinOfNats
<1> HIDE DEF fd
<1>3. ASSUME handleMessageFromClient(fd) PROVE IInv'
  BY <1>1, <1>2, <1>3, RegisterIInv, TakeCallIInv, TakeDoneIInv
  DEF handleMessageFromClient
<1>4. ASSUME RecvError(fd) PROVE IInv'
  <2>1. todo' \subseteq m_clients
    BY <1>1 DEF IInv, Descriptors
  <2> QED BY <1>1, <1>4, <2>1, FrameIInv DEF RecvError, kernel
<1>5. ASSUME Disconnect(fd) PROVE IInv'
  BY <1>1, <1>2, <1>5, DisconnectIInv
<1> QED BY <1>1, <1>3, <1>4, <1>5

\* Every step keeps the invariant.
LEMMA NextIInv == IInv /\ [Next]_vars => IInv'
<1> SUFFICES ASSUME IInv, [Next]_vars PROVE IInv'
  OBVIOUS
<1>1. CASE UNCHANGED vars
  <2>1. UNCHANGED <<kernel, net, server>>
    BY <1>1 DEF vars
  <2> QED BY <2>1, FrameIInv DEF kernel, net, server, IInv, Types, Descriptors
<1>2. ASSUME Run PROVE IInv'
  BY <1>2, check_for_clientsIInv, check_for_messagesIInv, VisitIInv DEF Run
<1> QED BY <1>1, <1>2, openConnectionIInv, EndIInv, EofArrivesIInv, CallIInv,
           ReturnIInv, DoWorkIInv
        DEF Next

-------------------------------------------------------------------------------
(* The properties *)

\* The inductive invariant is one.
LEMMA Invariance == Spec => []IInv
  BY InitIInv, NextIInv, PTL DEF Spec

\* Through all interleavings of processes and server the loop visits only
\* connections it has, and requests and maps name only accepted descriptors.
THEOREM ConnectionTypes == Spec => []TypeOK
<1>1. IInv => TypeOK
  <2> SUFFICES ASSUME IInv PROVE TypeOK
    OBVIOUS
  <2>0. Types /\ Descriptors /\ Roles
    BY DEF IInv
  <2>1. m_espresso_nodes \in [DOMAIN m_espresso_nodes -> DOMAIN conn]
    BY <2>0 DEF Roles, Descriptors
  <2>2. DOMAIN m_espresso_nodes \cup Range(m_espresso_nodes_rev) \cup up_nodes
          \subseteq Nodes
    BY <2>0 DEF Roles, Range, Nodes
  <2> QED BY <2>0, <2>1, <2>2 DEF TypeOK, Types, Descriptors
<1> QED BY <1>1, Invariance, PTL

\* Connects, registrations and disconnections in any order leave each
\* connection with exactly one role.
THEOREM ConnectionRoles == Spec => []OneRolePerConnection
<1>1. IInv => OneRolePerConnection
  BY ConnectionsAssumption DEF IInv, Roles, OneRolePerConnection
<1> QED BY <1>1, Invariance, PTL

\* A node that is up has a connection, and every connection kept for a node
\* is of one of its own processes, one that ended if the node is down.
THEOREM NodesConnected == Spec => []UpNodesConnected
<1>1. IInv => UpNodesConnected
  BY DEF IInv, Roles, UpAndDown, UpNodesConnected
<1> QED BY <1>1, Invariance, PTL

\* A registered node that lives and was not overtaken is up at its own
\* connection.
THEOREM NodesUp == Spec => []LiveNodesUp
<1>1. IInv => LiveNodesUp
  BY DEF IInv, UpAndDown, LiveNodesUp
<1> QED BY <1>1, Invariance, PTL

\* A client finds an answer only while it waits, and never two.
THEOREM AnswersToCalls == Spec => []AnswersAwaited
<1>1. IInv => AnswersAwaited
  <2> SUFFICES ASSUME IInv, NEW p \in Procs, proc[p] = "connected"
               PROVE  answers[p] <= (IF p \in calling THEN 1 ELSE 0)
    BY DEF AnswersAwaited
  <2>1. answers[p] \in Nat /\ hits[p] \in Nat
    BY DEF IInv, Types
  <2>2. CASE p \in DecafsClients
    BY <2>1, <2>2 DEF IInv, OneCallPerClient
  <2>3. CASE p \in EspressoClients
    BY <2>1, <2>3 DEF IInv, OneCallPerClient
  <2> QED BY <2>2, <2>3 DEF Procs
<1> QED BY <1>1, Invariance, PTL

\* Of all that the server ever owes a client, at most one answer is unread at
\* its end or sent after it, so that none is sent on a connection that is reset.
THEOREM EndedAnsweredOnce == Spec => []EndedOwedOnce
<1>1. IInv => EndedOwedOnce
  <2> SUFFICES ASSUME IInv, NEW p \in DecafsClients PROVE hits[p] + answers[p] <= 1
    BY DEF EndedOwedOnce
  <2>1. answers[p] \in Nat /\ hits[p] \in Nat /\ answers[p] + hits[p] <= 1
    BY DEF IInv, Types, OneCallPerClient, Procs
  <2> QED BY <2>1
<1> QED BY <1>1, Invariance, PTL
===============================================================================

-------------------------- MODULE BaristaConnections --------------------------
(***************************************************************************)
(* Barista's connections: the TcpServer loop, the maps in which            *)
(* BaristaServer keeps the role of each connection, and the processes at   *)
(* the other end, Espresso nodes (EspressoClient) and clients              *)
(* (DecafsClient).  What a request does is left to BaristaCore: here a     *)
(* call is answered at once, or makes work for a node and is answered when *)
(* the node has done it.  When the server stops the model does.            *)
(*                                                                         *)
(* The server never closes the socket of a connection that ended, so a     *)
(* descriptor is never used twice.  Descriptors are numbered from 1 in the *)
(* order of their acceptance, which is the order of m_clients.             *)
(***************************************************************************)
EXTENDS Integers, Sequences, FiniteSets, FiniteSetsExt, Functions

CONSTANTS
    EspressoClients,    \* processes that are Espresso nodes
    DecafsClients,      \* processes that are clients
    NodeId,             \* the node_id each Espresso process is started with
    BACKLOG,            \* connections the kernel keeps until accept
    MaxFds,             \* connections for which the server has descriptors
    MaxCalls,           \* bound on the calls of a client
    MaxChunks           \* bound on the chunks of a request on a node

Procs == EspressoClients \cup DecafsClients

Nodes == {NodeId[p] : p \in EspressoClients}

ASSUME ConnectionsAssumption ==
    /\ EspressoClients \cap DecafsClients = {}
    /\ DOMAIN NodeId = EspressoClients
    /\ {BACKLOG, MaxFds, MaxCalls, MaxChunks} \subseteq Nat

VARIABLES
    proc,           \* process -> "new", "connected", "ended"
    calls,          \* client -> calls it has made
    calling,        \* clients that wait for an answer
    work,           \* node process -> requests it has not done
    inbox,          \* process -> what the server has not read from it
    answers,        \* process -> answers it has not read
    eof,            \* ended processes whose end has reached the server
    hits,           \* process -> sends to it after its end
    reset,          \* processes whose connection has an error to report
    backlog,        \* processes waiting for accept
    conn,           \* descriptor -> process
    pc,             \* where the server is in its loop
    todo,           \* descriptors select reported and the loop has not visited
    m_clients, m_pending_clients, m_decafs_clients,     \* sets of descriptors
    m_espresso_nodes,       \* node -> descriptor
    m_espresso_nodes_rev,   \* descriptor -> node
    up_nodes,
    owed,           \* descriptors with a call under way
    overtaken       \* nodes restarted before the server saw their end

kernel == <<proc, calls, calling, eof, backlog, overtaken>>
net    == <<work, inbox, answers, hits, reset>>
server == <<conn, pc, todo, m_clients, m_pending_clients, m_decafs_clients,
            m_espresso_nodes, m_espresso_nodes_rev, up_nodes, owed>>
vars   == <<kernel, net, server>>

Stopped == pc \in {"crashed", "undefined"}

Without(f, x) == [y \in DOMAIN f \ {x} |-> f[y]]

With(f, x, v) == [y \in DOMAIN f \cup {x} |-> IF y = x THEN v ELSE f[y]]

FdsOf(p) == {fd \in DOMAIN conn : conn[fd] = p}

-------------------------------------------------------------------------------
(* The processes *)

\* The server still has a connection, accepted or not, of an earlier process
\* of this node.
OldConnection(p) ==
    \E q \in EspressoClients \ {p} :
        /\ NodeId[q] = NodeId[p]
        /\ \/ \E i \in DOMAIN backlog : backlog[i] = q
           \/ FdsOf(q) \cap m_clients # {}

\* openConnection and connectionEstablished: connect and send the packet that
\* says who this is.  A node is started again when its old process has ended.
openConnection(p) ==
    /\ ~Stopped
    /\ proc[p] = "new"
    /\ p \in EspressoClients =>
          \A q \in EspressoClients : proc[q] = "connected" => NodeId[q] # NodeId[p]
    /\ Len(backlog) < BACKLOG
    /\ proc' = [proc EXCEPT ![p] = "connected"]
    /\ backlog' = Append(backlog, p)
    /\ inbox' = [inbox EXCEPT ![p] = <<"init">>]
    /\ overtaken' = IF p \in EspressoClients /\ OldConnection(p)
                    THEN overtaken \cup {NodeId[p]} ELSE overtaken
    /\ UNCHANGED <<calls, calling, eof, work, answers, hits, reset, server>>

\* A process ends, closing its connection.
End(p) ==
    /\ ~Stopped
    /\ proc[p] = "connected"
    /\ proc' = [proc EXCEPT ![p] = "ended"]
    /\ calling' = calling \ {p}
    /\ UNCHANGED <<calls, eof, backlog, overtaken, net, server>>

\* The process has not taken everything that was sent to it.  A socket closed
\* with data it has not read resets the connection.
LeftUnread(p) == answers[p] > 0 \/ (p \in EspressoClients /\ work[p] > 0)

\* The end of its stream reaches the server, as an end or, if it left
\* something unread, as a reset.
EofArrives(p) ==
    /\ ~Stopped
    /\ proc[p] = "ended"
    /\ p \notin eof
    /\ eof' = eof \cup {p}
    /\ reset' \in {reset} \cup {reset \cup {q} : q \in {r \in {p} : LeftUnread(r)}}
    /\ UNCHANGED <<proc, calls, calling, backlog, overtaken, work, inbox, answers, hits,
                   server>>

\* A method of DecafsClient sends its packet and waits for the answer.
Call(p) ==
    /\ ~Stopped
    /\ proc[p] = "connected"
    /\ p \notin calling
    /\ calls[p] < MaxCalls
    /\ calls' = [calls EXCEPT ![p] = @ + 1]
    /\ calling' = calling \cup {p}
    /\ inbox' = [inbox EXCEPT ![p] = Append(@, "call")]
    /\ UNCHANGED <<proc, eof, backlog, overtaken, work, answers, hits, reset, server>>

\* wait_for_packet returns and the method reads the packet.
Return(p) ==
    /\ ~Stopped
    /\ p \in calling
    /\ answers[p] > 0
    /\ answers' = [answers EXCEPT ![p] = @ - 1]
    /\ calling' = calling \ {p}
    /\ UNCHANGED <<proc, calls, eof, backlog, overtaken, work, inbox, hits, reset, server>>

\* EspressoClient::handleMessageFromServer.
DoWork(p) ==
    /\ ~Stopped
    /\ proc[p] = "connected"
    /\ work[p] > 0
    /\ work' = [work EXCEPT ![p] = @ - 1]
    /\ inbox' = [inbox EXCEPT ![p] = Append(@, "done")]
    /\ UNCHANGED <<answers, hits, reset, kernel, server>>

-------------------------------------------------------------------------------
(* Accepting *)

\* A mistake: ended connections are closed without anything else being done,
\* and the kernel gives their descriptors out again.
NewFdReused == CHOOSE fd \in 1 .. MaxFds + 1 :
                   fd \notin m_clients /\ \A g \in 1 .. fd - 1 : g \in m_clients

\* The descriptor accept returns.
NewFd == Cardinality(DOMAIN conn) + 1

\* check_for_clients, when a pass over the connections is finished: it takes
\* one connection.  sock_fd is
\* unsigned, so a failed accept is not noticed, and FD_SET writes far outside
\* its set.
check_for_clients ==
    /\ pc = "visit"
    /\ todo = {}
    /\ \/ /\ backlog = <<>>
          /\ pc' = "messages"
          /\ UNCHANGED <<backlog, conn, m_clients, m_pending_clients>>
       \/ /\ backlog # <<>>
          /\ NewFd <= MaxFds
          /\ conn' = With(conn, NewFd, Head(backlog))
          /\ m_clients' = m_clients \cup {NewFd}
          /\ m_pending_clients' = m_pending_clients \cup {NewFd}
          /\ backlog' = Tail(backlog)
          /\ pc' = "messages"
       \/ /\ backlog # <<>>
          /\ NewFd > MaxFds
          /\ pc' = "crashed"
          /\ UNCHANGED <<backlog, conn, m_clients, m_pending_clients>>
    /\ UNCHANGED <<proc, calls, calling, eof, overtaken, net, todo, m_decafs_clients,
                   m_espresso_nodes, m_espresso_nodes_rev, up_nodes, owed>>

\* A mistake: only data counts.
ReadableData(fd) == inbox[conn[fd]] # <<>>

\* The select of check_for_messages: what is readable now.
Readable(fd) == \/ inbox[conn[fd]] # <<>>
                \/ conn[fd] \in reset \cup eof

\* A mistake: connections that have ended stay in the set given to select.
check_for_all_messages ==
    /\ pc = "messages"
    /\ todo' = {fd \in DOMAIN conn : Readable(fd)}
    /\ pc' = "visit"
    /\ UNCHANGED <<kernel, net, conn, m_clients, m_pending_clients, m_decafs_clients,
                   m_espresso_nodes, m_espresso_nodes_rev, up_nodes, owed>>

check_for_messages ==
    /\ pc = "messages"
    /\ todo' = {fd \in m_clients : Readable(fd)}
    /\ pc' = "visit"
    /\ UNCHANGED <<kernel, net, conn, m_clients, m_pending_clients, m_decafs_clients,
                   m_espresso_nodes, m_espresso_nodes_rev, up_nodes, owed>>

-------------------------------------------------------------------------------
(* Sending *)

\* The process ended by a reset, and recv or send has reported it.
ResetSeen(p) == LeftUnread(p) /\ p \in eof \ reset

\* k sends to a process.  If it has ended, the first is answered by a reset,
\* and any send after a reset raises SIGPIPE, which ends the server.
SendEffect(p, k) ==
    \/ /\ proc[p] = "connected"
       /\ UNCHANGED <<hits, reset, pc>>
    \/ /\ proc[p] = "ended"
       /\ hits' = [hits EXCEPT ![p] = @ + k]
       /\ reset' = IF hits[p] = 0 THEN reset \cup {p} ELSE reset
       /\ pc' \in IF hits'[p] > 1 \/ ResetSeen(p) THEN {"visit", "crashed"} ELSE {"visit"}

\* Of k sends to a process that has ended by a reset, one fails with it.
SendFails(p, k) ==
    /\ proc[p] = "ended"
    /\ LeftUnread(p)
    /\ hits' = [hits EXCEPT ![p] = @ + k]
    /\ reset' = reset \ {p}
    /\ pc' \in IF hits'[p] > 1 THEN {"visit", "crashed"} ELSE {"visit"}

\* ConnectionToClient::sendToClient with the answer to a call.
SendAnswer(fd) ==
    /\ SendEffect(conn[fd], 1)
    /\ answers' = IF proc[conn[fd]] = "connected"
                  THEN [answers EXCEPT ![conn[fd]] = @ + 1] ELSE answers

\* sendToEspresso, for each of the k chunks of a request that are on node n,
\* up or not.  When a send fails IO_Manager sets the node down; the connection
\* stays.
SendWork(n, k) ==
    /\ n \in DOMAIN m_espresso_nodes
    /\ LET p == conn[m_espresso_nodes[n]]
       IN  /\ \/ SendEffect(p, k) /\ UNCHANGED up_nodes
              \/ SendFails(p, k) /\ up_nodes' = up_nodes \ {n}
           /\ work' = IF proc[p] = "connected" THEN [work EXCEPT ![p] = @ + k] ELSE work

\* m_espresso_nodes has no connection for the node: a null pointer is followed.
SendNowhere(n) ==
    /\ n \notin DOMAIN m_espresso_nodes
    /\ pc' = "crashed"
    /\ UNCHANGED <<work, hits, reset, up_nodes>>

-------------------------------------------------------------------------------
(* What the loop of check_for_messages does with a connection *)

\* A mistake: the connection stays among the pending ones.
AddNodeStillPending(fd, n) ==
    /\ m_espresso_nodes' = With(m_espresso_nodes, n, fd)
    /\ m_espresso_nodes_rev' = With(m_espresso_nodes_rev, fd, n)
    /\ up_nodes' = up_nodes \cup {n}
    /\ UNCHANGED m_pending_clients

\* A mistake: set_node_up is not called.
AddNodeNotUp(fd, n) ==
    /\ m_pending_clients' = m_pending_clients \ {fd}
    /\ m_espresso_nodes' = With(m_espresso_nodes, n, fd)
    /\ m_espresso_nodes_rev' = With(m_espresso_nodes_rev, fd, n)
    /\ UNCHANGED up_nodes

\* addEspressoNode, with set_node_up.
addEspressoNode(fd, n) ==
    /\ m_pending_clients' = m_pending_clients \ {fd}
    /\ m_espresso_nodes' = With(m_espresso_nodes, n, fd)
    /\ m_espresso_nodes_rev' = With(m_espresso_nodes_rev, fd, n)
    /\ up_nodes' = up_nodes \cup {n}

\* addDecafsClient.
addDecafsClient(fd) ==
    /\ m_pending_clients' = m_pending_clients \ {fd}
    /\ m_decafs_clients' = m_decafs_clients \cup {fd}

\* handleMessageFromClient, ESPRESSO_INIT and DECAFS_CLIENT_INIT.
Register(fd) ==
    /\ Head(inbox[conn[fd]]) = "init"
    /\ \/ /\ conn[fd] \in EspressoClients
          /\ addEspressoNode(fd, NodeId[conn[fd]])
          /\ UNCHANGED m_decafs_clients
       \/ /\ conn[fd] \in DecafsClients
          /\ addDecafsClient(fd)
          /\ UNCHANGED <<m_espresso_nodes, m_espresso_nodes_rev, up_nodes>>
    /\ UNCHANGED <<work, answers, hits, reset, owed, pc>>

\* A mistake: the handler does not return after it has answered a call it
\* refuses, and goes on with it.
TakeCallTwice(fd) ==
    /\ Head(inbox[conn[fd]]) = "call"
    /\ \/ SendAnswer(fd) /\ UNCHANGED <<work, owed, up_nodes>>
       \/ /\ SendAnswer(fd)
          /\ \E n \in Nodes, k \in 1 .. MaxChunks : SendWork(n, k)
          /\ owed' = owed \cup {fd}
       \/ UNCHANGED <<work, answers, hits, reset, owed, pc, up_nodes>>
       \/ /\ \E n \in Nodes, k \in 1 .. MaxChunks : SendWork(n, k) \/ SendNowhere(n)
          /\ owed' = owed \cup {fd}
          /\ UNCHANGED answers
    /\ UNCHANGED <<m_pending_clients, m_decafs_clients, m_espresso_nodes,
                   m_espresso_nodes_rev>>

\* The packet of a call: answered by its handler, or not at all (make_dir and
\* open_dir are empty), or when a node is done.
TakeCall(fd) ==
    /\ Head(inbox[conn[fd]]) = "call"
    /\ \/ SendAnswer(fd) /\ UNCHANGED <<work, owed, up_nodes>>
       \/ UNCHANGED <<work, answers, hits, reset, owed, pc, up_nodes>>
       \/ /\ \E n \in Nodes, k \in 1 .. MaxChunks : SendWork(n, k) \/ SendNowhere(n)
          /\ owed' = owed \cup {fd}
          /\ UNCHANGED answers
    /\ UNCHANGED <<m_pending_clients, m_decafs_clients, m_espresso_nodes,
                   m_espresso_nodes_rev>>

\* A node's response: the request has parts missing, or its client, connected
\* or not, is answered.
TakeDone(fd) ==
    /\ Head(inbox[conn[fd]]) = "done"
    /\ \/ UNCHANGED <<answers, hits, reset, owed, pc>>
       \/ \E g \in owed : SendAnswer(g) /\ owed' = owed \ {g}
    /\ UNCHANGED <<work, m_pending_clients, m_decafs_clients, m_espresso_nodes,
                   m_espresso_nodes_rev, up_nodes>>

handleMessageFromClient(fd) ==
    /\ inbox[conn[fd]] # <<>>
    /\ Register(fd) \/ TakeCall(fd) \/ TakeDone(fd)
    /\ inbox' = [inbox EXCEPT ![conn[fd]] = Tail(@)]
    /\ UNCHANGED <<kernel, m_clients>>

\* recv fails, and the error is gone.
RecvError(fd) ==
    /\ inbox[conn[fd]] = <<>>
    /\ conn[fd] \in reset
    /\ reset' = reset \ {conn[fd]}
    /\ UNCHANGED <<kernel, work, inbox, answers, hits, pc, m_clients, m_pending_clients,
                   m_decafs_clients, m_espresso_nodes, m_espresso_nodes_rev, up_nodes,
                   owed>>

\* A mistake: the node stays up.
DisconnectNodeStaysUp(fd) ==
    /\ m_pending_clients' = m_pending_clients \ {fd}
    /\ m_decafs_clients' = m_decafs_clients \ {fd}
    /\ m_espresso_nodes_rev' = Without(m_espresso_nodes_rev, fd)
    /\ m_espresso_nodes' = IF fd \in DOMAIN m_espresso_nodes_rev
                           THEN Without(m_espresso_nodes, m_espresso_nodes_rev[fd])
                           ELSE m_espresso_nodes
    /\ UNCHANGED up_nodes

\* clientDisconnected.  The node of the connection goes, even if another
\* connection has been entered for it since.
clientDisconnected(fd) ==
    \/ /\ fd \in m_pending_clients
       /\ m_pending_clients' = m_pending_clients \ {fd}
       /\ UNCHANGED <<m_decafs_clients, m_espresso_nodes, m_espresso_nodes_rev, up_nodes>>
    \/ /\ fd \in m_decafs_clients
       /\ m_decafs_clients' = m_decafs_clients \ {fd}
       /\ UNCHANGED <<m_pending_clients, m_espresso_nodes, m_espresso_nodes_rev, up_nodes>>
    \/ /\ fd \in DOMAIN m_espresso_nodes_rev
       /\ m_espresso_nodes_rev' = Without(m_espresso_nodes_rev, fd)
       /\ m_espresso_nodes' = Without(m_espresso_nodes, m_espresso_nodes_rev[fd])
       /\ up_nodes' = up_nodes \ {m_espresso_nodes_rev[fd]}
       /\ UNCHANGED <<m_pending_clients, m_decafs_clients>>

\* recv returns 0: the connection leaves the maps, and the loop increments
\* the iterator it has just erased.  That is undefined: it goes on with the
\* next connection, crashes, or goes astray, and then the model does not
\* follow it.
Disconnect(fd) ==
    /\ inbox[conn[fd]] = <<>>
    /\ conn[fd] \in eof \ reset
    /\ clientDisconnected(fd)
    /\ m_clients' = m_clients \ {fd}
    /\ pc' \in {"visit", "crashed", "undefined"}
    /\ UNCHANGED <<kernel, net, owed>>

\* The connections select reported are visited in the order of their
\* descriptors.
Visit ==
    /\ pc = "visit"
    /\ todo # {}
    /\ LET fd == Min(todo)
       IN  /\ handleMessageFromClient(fd) \/ RecvError(fd) \/ Disconnect(fd)
           /\ todo' = todo \ {fd}
    /\ UNCHANGED conn

-------------------------------------------------------------------------------
Init == /\ proc = [p \in Procs |-> "new"]
        /\ calls = [p \in DecafsClients |-> 0]
        /\ calling = {}
        /\ work = [p \in EspressoClients |-> 0]
        /\ inbox = [p \in Procs |-> <<>>]
        /\ answers = [p \in Procs |-> 0]
        /\ eof = {}
        /\ hits = [p \in Procs |-> 0]
        /\ reset = {}
        /\ backlog = <<>>
        /\ conn = <<>>
        /\ pc = "visit"
        /\ todo = {}
        /\ m_clients = {}
        /\ m_pending_clients = {}
        /\ m_decafs_clients = {}
        /\ m_espresso_nodes = <<>>
        /\ m_espresso_nodes_rev = <<>>
        /\ up_nodes = {}
        /\ owed = {}
        /\ overtaken = {}

Run == check_for_clients \/ check_for_messages \/ Visit

Next == \/ \E p \in Procs : openConnection(p) \/ End(p) \/ EofArrives(p)
        \/ \E p \in DecafsClients : Call(p) \/ Return(p)
        \/ \E p \in EspressoClients : DoWork(p)
        \/ Run

\* The loop runs as long as the server does, and an end of stream is not
\* delayed for ever.
Fairness == WF_vars(Run) /\ \A p \in Procs : WF_vars(EofArrives(p))

Spec == Init /\ [][Next]_vars /\ Fairness

-------------------------------------------------------------------------------
(* Properties *)

\* Types; the loop visits only connections that are in m_clients, and every
\* descriptor a request remembers is one that was accepted.
TypeOK ==
    /\ proc \in [Procs -> {"new", "connected", "ended"}]
    /\ pc \in {"messages", "visit", "crashed", "undefined"}
    /\ todo \subseteq m_clients
    /\ m_clients \subseteq DOMAIN conn
    /\ owed \subseteq DOMAIN conn
    /\ m_espresso_nodes \in [DOMAIN m_espresso_nodes -> DOMAIN conn]
    /\ DOMAIN m_espresso_nodes \cup Range(m_espresso_nodes_rev) \cup up_nodes
          \subseteq Nodes
    /\ eof \subseteq {p \in Procs : proc[p] = "ended"}

\* Through connects, registrations and disconnections in any order, each
\* connection has exactly one role: pending, client or node.
OneRolePerConnection ==
    /\ m_clients = m_pending_clients \cup m_decafs_clients \cup DOMAIN m_espresso_nodes_rev
    /\ m_pending_clients \cap m_decafs_clients = {}
    /\ (m_pending_clients \cup m_decafs_clients) \cap DOMAIN m_espresso_nodes_rev = {}

\* A node that is up has a connection: no send to it follows a null pointer.
\* Every connection kept for a node is in m_clients and of a process of that
\* node, and if the node is not up, a send to it having failed, that process
\* has ended.
UpNodesConnected ==
    /\ up_nodes \subseteq DOMAIN m_espresso_nodes
    /\ \A n \in DOMAIN m_espresso_nodes :
          LET fd == m_espresso_nodes[n]
          IN  /\ fd \in m_clients
              /\ NodeId[conn[fd]] = n
              /\ n \in up_nodes \/ proc[conn[fd]] = "ended"

\* A node process that has been registered and lives is up, at its own
\* connection, unless it was started before the server had seen the end of
\* its predecessor (then that end takes the new connection with it).
LiveNodesUp ==
    \A fd \in DOMAIN m_espresso_nodes_rev :
        LET n == m_espresso_nodes_rev[fd]
        IN  proc[conn[fd]] = "connected" /\ n \notin overtaken =>
                n \in up_nodes /\ m_espresso_nodes[n] = fd

\* An answer reaches the process that made the call, and only while it waits:
\* a client never finds the answer to another call, its own earlier one or
\* one of a process that had its descriptor before.
AnswersAwaited ==
    \A p \in Procs :
        proc[p] = "connected" => answers[p] <= (IF p \in calling THEN 1 ELSE 0)

\* What a client that ended left unread, and what the server sends it after
\* its end, is one answer at most: no answer is sent on a connection the
\* client has already reset, so that answering it raises no SIGPIPE.  (The
\* erased iterator of its disconnection is another matter.)
EndedOwedOnce ==
    \A p \in DecafsClients : proc[p] = "ended" => hits[p] + answers[p] <= 1

\* The process has not connected, has its role, or has ended and left the maps.
Settled(p) ==
    \/ proc[p] = "new"
    \/ /\ proc[p] = "connected"
       /\ FdsOf(p) \cap (m_decafs_clients \cup DOMAIN m_espresso_nodes_rev) # {}
    \/ /\ proc[p] = "ended"
       /\ FdsOf(p) # {}
       /\ FdsOf(p) \cap m_clients = {}

\* Neither the backlog nor other traffic starves a connection: again and again
\* every process that connected has its role, and every one that ended,
\* whatever it had sent before, has left the server's maps, unless the server
\* stops.
ConnectionsSettle == []<>(Stopped \/ \A p \in Procs : Settled(p))
===============================================================================

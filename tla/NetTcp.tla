------------------------------ MODULE NetTcp ------------------------------
(***************************************************************************)
(* Clients of the network transport over TCP, with the driver for lwIP     *)
(* (freemaster_net_lwip_tcp.c, FMSTR_NET_BLOCKING_TIMEOUT > 0) or for      *)
(* Zephyr (freemaster_zephyr_net_tcp.c), both with blocking sockets.       *)
(* FMSTR_Poll lets the driver poll its sockets, then receives from the     *)
(* first one that is marked and handles what came.  Clients connect, send  *)
(* frames that arrive whole or in pieces, wait for each response, and      *)
(* close.  With FMSTR_NET_AUTODISCOVERY the first entry of the driver's    *)
(* table is a datagram socket, on which somebody looks for boards.         *)
(***************************************************************************)
EXTENDS NetTable, Sequences

CONSTANTS
    Seeker,     \* the address discoveries come from
    Lockable,   \* what clients lock, each a type and an instance
    Builds,     \* the driver, and whether FMSTR_NET_AUTODISCOVERY is set
    Silent,     \* whether a client may close without having sent anything
    MaxSent,    \* bound: the frames each client sends on its connection
    MaxSought   \* bound: the discoveries

ASSUME TcpAssumption ==
    /\ Seeker \notin Clients \union {ZeroAddress}
    /\ Lockable \subseteq [type : STRING, instance : Nat]
    /\ Builds \subseteq [drv : {"lwip", "zephyr"}, discovery : BOOLEAN]
    /\ Silent \in BOOLEAN /\ MaxSent \in [Clients -> Nat] /\ MaxSought \in Nat

VARIABLES
    build,    \* how the target is built
    target,   \* the tables of the transport and the protocol layer
    sock,     \* fmstrTcpSessions: an open socket or none, and receivePending
    state,    \* what each client does: "out", "waiting", "connected", "closing", "gone"
    inbox,    \* what each client has sent that lwIP has not handed over yet
    sent,     \* how many frames each client has sent
    answered, \* how many responses it has got
    sought,   \* how many discoveries were broadcast
    found     \* how many of them were answered

tcpVars == <<build, target, sock, state, inbox, sent, answered, sought, found>>

Slots == DOMAIN sock

\* The entry of the datagram socket.
Broadcast(i) == build.discovery /\ i = 1

NoSock == [address |-> ZeroAddress, open |-> FALSE, pending |-> FALSE]

\* What clients ask for: locks, which the end of a session must release.
LockCommands == [cmd : {"lock"}, feature : Lockable]

Piece == [cmd |-> "piece"]  \* a frame's beginning, its end comes next

\* FMSTR_NET_DRV.Init: FMSTR_TCP_SESSION_COUNT entries without a socket; the
\* datagram socket, if any, gets the first.
LwipInit(discovery) ==
    [i \in 1 .. SessionCount + (IF discovery THEN 1 ELSE 0) |->
        [NoSock EXCEPT !.open = discovery /\ i = 1]]

ZephyrInit(discovery) ==
    IF discovery
    THEN [[i \in 1 .. SessionCount + 1 |-> NoSock] EXCEPT ![1].open = TRUE]
    ELSE [i \in SessionIndex |-> NoSock]

TcpInit ==
    /\ build \in Builds
    /\ target = InitNet
    /\ sock = IF build.drv = "lwip" THEN LwipInit(build.discovery) ELSE ZephyrInit(build.discovery)
    /\ state = [a \in Clients |-> "out"]
    /\ inbox = [a \in Clients |-> <<>>]
    /\ sent = [a \in Clients |-> 0] /\ answered = [a \in Clients |-> 0]
    /\ sought = 0 /\ found = 0
-----------------------------------------------------------------------------
(* The clients, and who looks for boards.                                  *)

Connect(a) ==
    /\ state[a] = "out"
    /\ state' = [state EXCEPT ![a] = "waiting"]
    /\ UNCHANGED <<build, target, sock, inbox, sent, answered, sought, found>>

\* A client may send before the target accepts its connection.
Send(a) ==
    /\ state[a] \in {"waiting", "connected"}
    /\ sent[a] = answered[a] /\ sent[a] < MaxSent[a]
    /\ \E c \in LockCommands, pieces \in {<<>>, <<Piece>>} :
           inbox' = [inbox EXCEPT ![a] = Append(pieces, c)]
    /\ sent' = [sent EXCEPT ![a] = @ + 1]
    /\ UNCHANGED <<build, target, sock, state, answered, sought, found>>

Close(a) ==
    /\ state[a] = "connected"
    /\ sent[a] = answered[a] /\ (sent[a] > 0 \/ Silent)
    /\ state' = [state EXCEPT ![a] = "closing"]
    /\ UNCHANGED <<build, target, sock, inbox, sent, answered, sought, found>>

Seek ==
    /\ build.discovery /\ sought = found /\ sought < MaxSought
    /\ sought' = sought + 1
    /\ UNCHANGED <<build, target, sock, state, inbox, sent, answered, found>>
-----------------------------------------------------------------------------
(* The drivers.                                                            *)

\* Receiving from the socket of entry i does not wait: there is data, or the
\* end of the connection.
Readable(i) ==
    /\ sock[i].open
    /\ IF Broadcast(i) THEN sought > found
       ELSE inbox[sock[i].address] # <<>> \/ state[sock[i].address] = "closing"

Pending(s) == {i \in Slots : s[i].open /\ s[i].pending}

\* What may connect to the listening socket.
Waiting == {a \in Clients : state[a] = "waiting"}

\* The entry i gets the connection of client a.
LwipAccept(s, i, a)   == [s EXCEPT ![i] = [@ EXCEPT !.address = a, !.open = TRUE]]
ZephyrAccept(s, i, a) == [s EXCEPT ![i] = [@ EXCEPT !.address = a, !.open = TRUE]]

\* FMSTR_NET_DRV.Poll: nothing while a socket is still marked.  Otherwise
\* select looks at the sockets, and at the listening one if an entry is free;
\* a client is accepted, then the sockets with something to read are marked.
\* The entries that may result.
LwipPolled ==
    LET free   == {i \in Slots : ~sock[i].open}
        marked == [i \in Slots |-> [sock[i] EXCEPT !.pending = Readable(i)]]
    IN  IF Pending(sock) # {} THEN {sock}
        ELSE IF free = {} \/ Waiting = {} THEN {marked}
        ELSE {LwipAccept(marked, First(free), a) : a \in Waiting}

\* With Zephyr the results of zsock_poll are handled in the order of the
\* entries, the listening socket last.
ZephyrPolled ==
    LET ready == {i \in Slots : Readable(i)}
        free  == {i \in Slots : ~sock[i].open}
        after == [i \in Slots |-> [sock[i] EXCEPT !.pending = @ \/ i \in ready]]
    IN  IF Pending(sock) # {} THEN {sock}
        ELSE IF free # {} /\ Waiting # {}
        THEN UNION {{ZephyrAccept(after, First(free), a)} : a \in Waiting} ELSE {after}

Polled == IF build.drv = "lwip" THEN LwipPolled ELSE ZephyrPolled

\* The first entry with that address.
SessionFind(s, a) == First({i \in Slots : s[i].address = a})

\* Mutant: the mark is left on a socket that has been answered.
LwipSendMarked(s, a) == s

\* FMSTR_NET_DRV.Send to an address takes the mark from its entry away.
LwipSend(s, a)   == [s EXCEPT ![SessionFind(s, a)].pending = FALSE]
ZephyrSend(s, a) == [s EXCEPT ![SessionFind(s, a)].pending = FALSE]

SentTo(s, a) == IF build.drv = "lwip" THEN LwipSend(s, a) ELSE ZephyrSend(s, a)

\* FMSTR_NET_DRV.Close for each address in closed.  The datagram socket is not
\* closed; lwIP's driver also clears an entry without a socket.
LwipClose(s, closed) ==
    [i \in Slots |-> IF s[i].address \in closed /\ ~Broadcast(i) THEN NoSock ELSE s[i]]
ZephyrClose(s, closed) ==
    [i \in Slots |-> IF s[i].address \in closed /\ ~Broadcast(i) /\ s[i].open THEN NoSock ELSE s[i]]

Closed(s, closed) == IF build.drv = "lwip" THEN LwipClose(s, closed) ELSE ZephyrClose(s, closed)

\* What the sockets s make of the clients: accepted ones are connected, and a
\* connection ends when the target closes it too.
ClientStates(s) ==
    [a \in Clients |->
        IF \E i \in Slots : s[i].open /\ s[i].address = a
        THEN IF state[a] = "waiting" THEN "connected" ELSE state[a]
        ELSE IF state[a] \in {"connected", "closing"} THEN "gone" ELSE state[a]]

\* The tables, the sockets and the clients after receiving.
After(tables, s) ==
    \E t \in {tables} :
        /\ target' = [t EXCEPT !.closed = {}]
        /\ sock' = Closed(s, t.closed)
        /\ state' = ClientStates(sock')

\* Receiving through entry i, to which client a is connected.
Receive(polled, i, a) ==
    \/ /\ inbox[a] = <<>> /\ state[a] = "closing"
       /\ After(Disconnected(target, a), polled)
       /\ UNCHANGED <<inbox, sent, answered>>
    \/ /\ inbox[a] # <<>> /\ Head(inbox[a]) = Piece
       /\ After(Incomplete(target, a), polled)
       /\ inbox' = [inbox EXCEPT ![a] = Tail(@)] /\ UNCHANGED <<sent, answered>>
    \/ /\ inbox[a] # <<>> /\ Head(inbox[a]) # Piece
       /\ After(Complete(target, a, Head(inbox[a]), "whole").d, SentTo(polled, a))
       /\ inbox' = [inbox EXCEPT ![a] = Tail(@)]
       /\ answered' = [answered EXCEPT ![a] = @ + 1] /\ UNCHANGED sent

\* Receiving a discovery: the entry keeps who it came from, and the ad-hoc
\* session answers it without a trace in the transport's tables.
LwipReceiveBroadcast(polled, i)   == SentTo([polled EXCEPT ![i].address = Seeker], Seeker)
ZephyrReceiveBroadcast(polled, i) == SentTo([polled EXCEPT ![i].address = Seeker], Seeker)

LwipGetCaps   == {"TCP"}
ZephyrGetCaps == {"TCP"}

\* Who looks for boards is answered, and told the protocol to connect with.
Discover(polled, i) ==
    /\ sought > found
    /\ SendDiscovery(IF build.drv = "lwip" THEN LwipGetCaps ELSE ZephyrGetCaps) = "TCP"
    /\ After(target, IF build.drv = "lwip" THEN LwipReceiveBroadcast(polled, i)
                     ELSE ZephyrReceiveBroadcast(polled, i))
    /\ found' = found + 1

\* One FMSTR_Poll.  Receiving takes the first marked socket, and waits there
\* until it has something to read.
NetPoll ==
    /\ \E polled \in Polled :
           LET marked == Pending(polled)
           IN  \/ /\ marked = {} /\ After(target, polled)
                  /\ UNCHANGED <<inbox, sent, answered, found>>
               \/ /\ marked # {} /\ ~Broadcast(First(marked))
                  /\ Receive(polled, First(marked), polled[First(marked)].address)
                  /\ UNCHANGED found
               \/ /\ marked # {} /\ Broadcast(First(marked))
                  /\ Discover(polled, First(marked)) /\ UNCHANGED <<inbox, sent, answered>>
    /\ UNCHANGED <<build, sought>>

TcpNext == NetPoll \/ Seek \/ \E a \in Clients : Connect(a) \/ Send(a) \/ Close(a)

TcpSpec == TcpInit /\ [][TcpNext]_tcpVars

\* The application calls FMSTR_Poll again and again.
FairSpec == TcpSpec /\ WF_tcpVars(NetPoll)

\* The same with ENABLED <<NetPoll>>_tcpVars written out, for TLC's sake: whether
\* a call of FMSTR_Poll gets past receiving and changes anything.
PollWorks ==
    LET marked == Pending(sock)
        a      == sock[First(marked)].address
    IN  IF marked = {} THEN Polled # {sock}
        ELSE IF Broadcast(First(marked)) THEN sought > found
        ELSE inbox[a] # <<>> \/ (state[a] = "closing" /\ Disconnected(target, a) # target)

FairSpecForTLC == TcpSpec /\ ([]<>~PollWorks \/ []<><<NetPoll>>_tcpVars)
-----------------------------------------------------------------------------
Served(a) == \E i \in SessionIndex : target.net[i].address = a /\ ~Unused(target, i)

\* The driver keeps a socket for every client that the transport serves, so a
\* new connection finds a free entry and nobody has to give up his.
SocketForEveryEntry ==
    \A a \in Clients : Served(a) => \E i \in Slots : sock[i].open /\ sock[i].address = a

\* No lock outlives the connection of the client that took it: whoever owns one
\* is a session of the protocol layer, of an entry of the transport that is in
\* use, whose client has an open socket in the driver.
OwnersAreConnected ==
    \A f \in FeatureIndex :
        LET owner == target.p.feature[f].owner
            id    == target.p.session[owner].id
        IN  owner # NoSession =>
                /\ id # NoId /\ ~Unused(target, id)
                /\ \E i \in Slots : sock[i].open /\ ~Broadcast(i) /\ sock[i].address = target.net[id].address

\* A client is served until it closes its connection, whatever others do.
ServedUntilClosed == [][\A a \in Clients : Served(a) /\ ~Served(a)' => state[a] = "closing"]_tcpVars

\* "... it is possible for multiple clients to access the target MCU
\* simultaneously" (doc/user_guide/20_features.md): a connected client gets an
\* answer to everything it sends, unless it closes before, and whoever looks for
\* boards finds this one.
EveryClientAnswered ==
    /\ \A a \in Clients : \A n \in 1 .. MaxSent[a] :
           state[a] = "connected" /\ sent[a] = n ~> answered[a] = n \/ state[a] # "connected"
    /\ \A n \in 1 .. MaxSought : sought = n ~> found = n

\* A client that closes its connection is let go of, with its locks.
ClosedIsReleased ==
    \A a \in Clients : state[a] = "closing" ~>
        /\ state[a] = "gone" /\ ~Served(a)
        /\ \A f \in FeatureIndex : LET s == target.p.feature[f].owner
                                   IN  s # NoSession => /\ target.p.session[s].id # NoId
                                                        /\ target.net[target.p.session[s].id].address # a
=============================================================================

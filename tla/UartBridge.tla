------------------------------ MODULE UartBridge ------------------------------
(***************************************************************************)
(* The serial port server of platform.c: net_uart_task takes connections   *)
(* on TCP port 23 and datagrams on UDP port 2323 and writes what comes to  *)
(* the UART; uart_rx_task sends what the UART receives to the web          *)
(* terminals, the TCP client and the UDP peer.  Both tasks read, close and *)
(* clear the one global tcp_client_sock without a lock, and each of these  *)
(* is a step of its own here.                                              *)
(*                                                                         *)
(* External (lwIP): descriptors are small numbers used again as soon as    *)
(* they are closed, and all parts of the firmware draw them from the same  *)
(* pool; closing a number that is not open does nothing; recv and send on  *)
(* it, on a connection whose peer has gone, and recv with MSG_DONTWAIT     *)
(* with nothing to read, fail; select says what is ready when it returns,  *)
(* looks only at numbers below its first argument, and may fail, or call   *)
(* anything ready, for a number in the set that is not open.               *)
(***************************************************************************)
EXTENDS Naturals, FiniteSets

CONSTANTS
    Fds,        \* descriptors of the pool that the bridge and others may get
    NoFd,       \* tcp_client_sock = 0
    BadFd,      \* tcp_client_sock = -1, what a failed accept stores
    Hosts,      \* UDP peers
    NoHost      \* udp_peer_addr.sin_addr.s_addr = 0

ASSUME BridgeAssumption == /\ NoFd \notin Fds /\ BadFd \notin Fds /\ NoFd # BadFd
                           /\ NoHost \notin Hosts

VARIABLES
    fd,         \* what each descriptor is: free, a connection of the bridge whose
                \* peer is up or down, or of another part of the firmware
    unread,     \* descriptors with bytes to read
    waiting,    \* a connection waits to be accepted (the backlog is 1)
    tcp_client_sock,
    npc,        \* where net_uart_task is
    ready,      \* what net_uart_task selects, and then what select returned
    rpc,        \* where uart_rx_task is
    rsock,      \* the descriptor uart_rx_task is sending on
    udp_peer,   \* udp_peer_addr
    rpeer,      \* the host uart_rx_task is sending to
    exposed,    \* history: connections that were taken while uart_rx_task was busy
                \* with an earlier one, or under a number that select had returned
    replaced    \* history: connections that a later accept has put aside

netVars == <<npc, ready>>
rxVars == <<rpc, rsock, rpeer>>
envVars == <<fd, unread, waiting>>
history == <<exposed, replaced>>
vars == <<envVars, tcp_client_sock, netVars, rxVars, udp_peer, history>>

FdStates == {"free", "up", "down", "other"}

Nothing == [listen |-> FALSE, udp |-> FALSE, fds |-> {}]

Open(f) == f \in Fds /\ fd[f] # "free"

Init == /\ fd = [f \in Fds |-> "free"]
        /\ unread = {}
        /\ waiting = FALSE
        /\ tcp_client_sock = NoFd
        /\ npc = "select" /\ ready = Nothing
        /\ rpc = "wait" /\ rsock = NoFd /\ rpeer = NoHost
        /\ udp_peer = NoHost
        /\ exposed = {}
        /\ replaced = {}

(***************************************************************************)
(* Peers, and the other parts of the firmware.                             *)
(***************************************************************************)
Connect == /\ ~waiting
           /\ waiting' = TRUE
           /\ UNCHANGED <<fd, unread, tcp_client_sock, netVars, rxVars, udp_peer, history>>

PeerSends(f) == /\ fd[f] \in {"up", "other"}
                /\ unread' = unread \cup {f}
                /\ UNCHANGED <<fd, waiting, tcp_client_sock, netVars, rxVars, udp_peer, history>>

PeerGone(f) == /\ fd[f] = "up"
               /\ fd' = [fd EXCEPT ![f] = "down"]
               /\ UNCHANGED <<unread, waiting, tcp_client_sock, netVars, rxVars, udp_peer, history>>

\* Another part of the firmware (a GDB connection, a web page) opens a descriptor,
\* or reads from and closes its own.
OtherOpens(f) == /\ fd[f] = "free"
                 /\ fd' = [fd EXCEPT ![f] = "other"]
                 /\ UNCHANGED <<unread, waiting, tcp_client_sock, netVars, rxVars, udp_peer, history>>

OtherCloses(f) == /\ fd[f] = "other"
                  /\ fd' = [fd EXCEPT ![f] = "free"]
                  /\ unread' = unread \ {f}
                  /\ UNCHANGED <<waiting, tcp_client_sock, netVars, rxVars, udp_peer, history>>

(***************************************************************************)
(* What both tasks do after a failure: close(tcp_client_sock), and in a    *)
(* later step tcp_client_sock = 0.                                         *)
(***************************************************************************)
CloseClient ==
    /\ fd' = [f \in Fds |-> IF f = tcp_client_sock THEN "free" ELSE fd[f]]
    /\ unread' = unread \ {tcp_client_sock}
    /\ exposed' = exposed \ {tcp_client_sock}
    /\ replaced' = replaced \ {tcp_client_sock}
    /\ UNCHANGED <<waiting, tcp_client_sock, udp_peer>>

ClearClient == tcp_client_sock' = NoFd /\ UNCHANGED <<envVars, udp_peer, history>>
(***************************************************************************)
(* net_uart_task.                                                          *)
(***************************************************************************)
NetGoto(l) == npc' = l /\ UNCHANGED ready

NextRound == npc' = "select" /\ ready' = Nothing

\* The sockets to wait for are the listening socket, the datagram socket, and the client
\* if there is one ...
SelectTest == /\ npc = "select"
              /\ NetGoto(IF tcp_client_sock = NoFd THEN "max" ELSE "set")
              /\ UNCHANGED <<envVars, tcp_client_sock, rxVars, udp_peer, history>>

\* ... which is FD_SET as it is by then: 0, if uart_rx_task has cleared it since.
SelectSet == /\ npc = "set"
             /\ ready' = [ready EXCEPT !.fds = {tcp_client_sock}]
             /\ npc' = "max"
             /\ UNCHANGED <<envVars, tcp_client_sock, rxVars, udp_peer, history>>

\* The first argument of select: if the client has been cleared in between, its number
\* may be too high for it.
SelectMax == /\ npc = "max"
             /\ \/ UNCHANGED ready
                \/ tcp_client_sock = NoFd /\ ready' = [ready EXCEPT !.fds = {}]
             /\ npc' = "selecting"
             /\ UNCHANGED <<envVars, tcp_client_sock, rxVars, udp_peer, history>>

\* select returns those that are ready, which may be the client's number in other
\* hands, or nothing after a second.
Selected ==
    /\ npc = "selecting"
    /\ \E udp \in BOOLEAN, odd \in SUBSET (ready.fds \ Fds) :
           ready' = [listen |-> waiting, udp |-> udp,
                     fds |-> {f \in ready.fds \cap Fds : f \in unread \/ fd[f] = "down"}
                             \cup odd]
    /\ npc' = IF ready' = Nothing THEN "select" ELSE "accept"
    /\ UNCHANGED <<envVars, tcp_client_sock, rxVars, udp_peer, history>>

\* select returns -1, for a number that has been closed or was none: a lost round.
SelectFails == /\ npc = "selecting"
               /\ \E f \in ready.fds : ~Open(f)
               /\ NextRound
               /\ UNCHANGED <<envVars, tcp_client_sock, rxVars, udp_peer, history>>

NoNewClient == /\ npc = "accept" /\ ~ready.listen
               /\ NetGoto("udp")
               /\ UNCHANGED <<envVars, tcp_client_sock, rxVars, udp_peer, history>>

\* The connection that was the client until now is not closed.
PutAside == replaced' = replaced \cup ({tcp_client_sock} \cap {f \in Fds : Open(f)})

RxBusy == rpc \in {"send", "close", "clear"}

Accept(f) ==
    /\ npc = "accept" /\ ready.listen
    /\ fd[f] = "free"
    /\ fd' = [fd EXCEPT ![f] = "up"]
    /\ waiting' = FALSE
    /\ tcp_client_sock' = f
    /\ PutAside
    /\ exposed' = IF RxBusy \/ f \in ready.fds THEN exposed \cup {f} ELSE exposed
    /\ NetGoto("udp")
    /\ UNCHANGED <<unread, rxVars, udp_peer>>

\* There is no descriptor left: accept returns -1, and the client until now is lost.
AcceptFails ==
    /\ npc = "accept" /\ ready.listen
    /\ \A f \in Fds : Open(f)
    /\ waiting' = FALSE
    /\ tcp_client_sock' = BadFd
    /\ PutAside
    /\ NetGoto("check")
    /\ UNCHANGED <<fd, unread, rxVars, udp_peer, exposed>>

\* Mutant: -1 stays in tcp_client_sock.
CheckAcceptMutant ==
    /\ npc = "check"
    /\ NetGoto("udp")
    /\ UNCHANGED <<envVars, tcp_client_sock, rxVars, udp_peer, history>>

CheckAccept ==
    /\ npc = "check"
    /\ tcp_client_sock' = IF tcp_client_sock = BadFd THEN NoFd ELSE tcp_client_sock
    /\ NetGoto("udp")
    /\ UNCHANGED <<envVars, rxVars, udp_peer, history>>

\* recvfrom: whoever sent the datagram is the peer from now on.
Udp ==
    /\ npc = "udp"
    /\ IF ready.udp THEN udp_peer' \in Hosts ELSE UNCHANGED udp_peer
    /\ NetGoto("tcp")
    /\ UNCHANGED <<envVars, tcp_client_sock, rxVars, history>>

\* Is there a client ...
TcpTest == /\ npc = "tcp"
           /\ IF tcp_client_sock = NoFd THEN NextRound ELSE NetGoto("isset")
           /\ UNCHANGED <<envVars, tcp_client_sock, rxVars, udp_peer, history>>

\* Mutant: recv without FD_ISSET.
IssetMutant == /\ npc = "isset"
               /\ NetGoto("recv")
               /\ UNCHANGED <<envVars, tcp_client_sock, rxVars, udp_peer, history>>

\* ... and is what tcp_client_sock is by now among those that were ready?
Isset == /\ npc = "isset"
         /\ IF tcp_client_sock \in ready.fds THEN NetGoto("recv") ELSE NextRound
         /\ UNCHANGED <<envVars, tcp_client_sock, rxVars, udp_peer, history>>

\* Mutant: a recv that fails is ignored.
RecvMutant == /\ npc = "recv"
              /\ NextRound
              /\ unread' = unread \ {tcp_client_sock}
              /\ UNCHANGED <<fd, waiting, tcp_client_sock, rxVars, udp_peer, history>>

\* recv with MSG_DONTWAIT: what has come goes to the UART, and anything else is a
\* failure.
Recv == /\ npc = "recv"
        /\ IF tcp_client_sock \in unread THEN NextRound ELSE NetGoto("close")
        /\ unread' = unread \ {tcp_client_sock}
        /\ UNCHANGED <<fd, waiting, tcp_client_sock, rxVars, udp_peer, history>>

\* Mutant: the variable is cleared and the descriptor is not closed.
NetCloseLeaksMutant == /\ npc = "close"
                       /\ NetGoto("clear")
                       /\ UNCHANGED <<envVars, tcp_client_sock, rxVars, udp_peer, history>>

NetClose == /\ npc = "close"
            /\ CloseClient
            /\ NetGoto("clear")
            /\ UNCHANGED rxVars

\* Mutant: the variable keeps the closed descriptor.
NetClearNotMutant == /\ npc = "clear"
                     /\ NextRound
                     /\ UNCHANGED <<envVars, tcp_client_sock, rxVars, udp_peer, history>>

NetClear == /\ npc = "clear"
            /\ ClearClient
            /\ NextRound
            /\ UNCHANGED rxVars

(***************************************************************************)
(* uart_rx_task.                                                           *)
(***************************************************************************)
RxGoto(l) == rpc' = l /\ UNCHANGED <<rsock, rpeer>>

\* Bytes from the UART, which the web terminals get first.
Receive == /\ rpc = "wait"
           /\ RxGoto("tcp")
           /\ UNCHANGED <<envVars, tcp_client_sock, netVars, udp_peer, history>>

SendTest == /\ rpc = "tcp"
            /\ RxGoto(IF tcp_client_sock = NoFd THEN "udp" ELSE "call")
            /\ UNCHANGED <<envVars, tcp_client_sock, netVars, udp_peer, history>>

\* send is called with the value that tcp_client_sock has by then ...
SendStart == /\ rpc = "call"
             /\ rsock' = tcp_client_sock
             /\ rpc' = "send"
             /\ UNCHANGED <<envVars, tcp_client_sock, netVars, rpeer, udp_peer, history>>

\* ... and returns later.  It may succeed for a while after the peer has gone.
SendEnd ==
    /\ rpc = "send"
    /\ \/ Open(rsock) /\ rpc' = "udp"
       \/ rsock \notin {f \in Fds : fd[f] \in {"up", "other"}} /\ rpc' = "close"
    /\ rsock' = NoFd
    /\ UNCHANGED <<envVars, tcp_client_sock, netVars, rpeer, udp_peer, history>>

RxClose == /\ rpc = "close"
           /\ CloseClient
           /\ RxGoto("clear")
           /\ UNCHANGED netVars

RxClear == /\ rpc = "clear"
           /\ ClearClient
           /\ RxGoto("udp")
           /\ UNCHANGED netVars

SendtoStart ==
    /\ rpc = "udp"
    /\ rpeer' = udp_peer
    /\ rpc' = IF udp_peer = NoHost THEN "wait" ELSE "sendto"
    /\ UNCHANGED <<envVars, tcp_client_sock, netVars, rsock, udp_peer, history>>

\* A sendto that fails forgets the peer, whoever that is by now.
SendtoEnd ==
    /\ rpc = "sendto"
    /\ udp_peer' \in {udp_peer, NoHost}
    /\ rpeer' = NoHost
    /\ rpc' = "wait"
    /\ UNCHANGED <<envVars, tcp_client_sock, netVars, rsock, history>>

Net == \/ SelectTest \/ SelectSet \/ SelectMax \/ Selected \/ SelectFails
       \/ NoNewClient \/ (\E f \in Fds : Accept(f)) \/ AcceptFails \/ CheckAccept
       \/ Udp \/ TcpTest \/ Isset \/ Recv \/ NetClose \/ NetClear

Rx == \/ Receive \/ SendTest \/ SendStart \/ SendEnd \/ RxClose \/ RxClear
      \/ SendtoStart \/ SendtoEnd

Environment == \/ Connect
               \/ \E f \in Fds : \/ PeerSends(f) \/ PeerGone(f)
                                  \/ OtherOpens(f) \/ OtherCloses(f)

Next == Net \/ Rx \/ Environment

\* Nothing net_uart_task calls blocks for ever, and it is time sliced with the other
\* task.  Nothing is assumed of uart_rx_task, which may wait in send for a client that
\* does not read, nor of the peers.
Fairness == WF_vars(Net)

Spec == Init /\ [][Next]_vars /\ Fairness

(***************************************************************************)
(* The properties.                                                         *)
(***************************************************************************)
\* Every variable has its type.  In particular what is FD_SET may be 0, but never the -1
\* of a failed accept, for which there is no bit.
TypeOK == /\ fd \in [Fds -> FdStates]
          /\ unread \subseteq Fds
          /\ waiting \in BOOLEAN
          /\ tcp_client_sock \in Fds \cup {NoFd, BadFd}
          /\ npc \in {"select", "set", "max", "selecting", "accept", "check", "udp", "tcp",
                     "isset", "recv", "close", "clear"}
          /\ ready \in [listen : BOOLEAN, udp : BOOLEAN, fds : SUBSET (Fds \cup {NoFd})]
          /\ rpc \in {"wait", "tcp", "call", "send", "close", "clear", "udp", "sendto"}
          /\ rsock \in Fds \cup {NoFd, BadFd}
          /\ udp_peer \in Hosts \cup {NoHost}
          /\ rpeer \in Hosts \cup {NoHost}
          /\ exposed \subseteq Fds /\ replaced \subseteq Fds

\* The bridge closes a connection whose peer is there only if it was taken while the
\* other task was still sending on an earlier one or clearing up after it, or if it
\* got the number of a connection that was closed since select returned.  The two
\* tasks close whatever tcp_client_sock names when they get there.
LiveClientKept ==
    [][\A f \in Fds : fd[f] = "up" /\ fd'[f] = "free" => f \in exposed]_vars

\* tcp_client_sock names a descriptor of another part of the firmware, which the
\* tasks may then read from, write to or close, only while one of them has closed the
\* client and not cleared the variable yet.
SockIsOurs ==
    tcp_client_sock \in Fds /\ fd[tcp_client_sock] = "other" => "clear" \in {npc, rpc}

\* A connection of the bridge that neither task knows any more, and which stays open
\* for ever, is one that a later accept has put aside or one that was exposed.
OrphansWereReplaced ==
    \A f \in Fds : fd[f] \in {"up", "down"} /\ f # tcp_client_sock
                    => f \in replaced \cup exposed

\* What a client sends reaches the UART, and a client that has gone is dropped, unless
\* it is no longer the client.
Attended(f) == tcp_client_sock # f \/ (f \notin unread /\ fd[f] # "down")

ClientAttended == \A f \in Fds : ~Attended(f) ~> Attended(f)
(***************************************************************************)
(* What the proofs need: what each task may rely on where it is.           *)
(***************************************************************************)
\* The variable names a connection of the bridge.
HasClient == tcp_client_sock \in Fds /\ fd[tcp_client_sock] \in {"up", "down"}

\* The variable names a closed or foreign descriptor only between close and clear.
ClosedIsCleared == tcp_client_sock \in Fds => HasClient \/ "clear" \in {npc, rpc}

\* A failed accept is repaired before anything else is done.
FailedIsChecked == tcp_client_sock = BadFd => npc = "check"

\* net_uart_task, which also accepts, never clears a connection it has not closed.
NetClearsClosed == npc = "clear" => ~HasClient

\* uart_rx_task clears one only if it was accepted in between.
RxClearsExposed == rpc = "clear" /\ HasClient => tcp_client_sock \in exposed

\* While uart_rx_task sends, the variable changes to exposed connections only.
SendsToClient == rpc = "send" /\ HasClient => tcp_client_sock \in exposed \cup {rsock}

\* What either task closes has gone, or is exposed.
Closing == rpc = "close" \/ npc = "close"
ClosesGone == Closing /\ HasClient /\ fd[tcp_client_sock] = "up" => tcp_client_sock \in exposed

\* A connection that select returned can still be read from, has gone or is exposed,
\* and recv is called for none but such a connection.
ReadyIsReadable ==
    /\ npc \notin {"max", "selecting"} =>
           \A f \in ready.fds \cap Fds : fd[f] = "up" => f \in unread \cup exposed
    /\ npc = "recv" /\ HasClient => tcp_client_sock \in ready.fds

\* The inductive invariant: with it the three safety properties follow.
IInv == /\ TypeOK /\ ClosedIsCleared /\ FailedIsChecked /\ NetClearsClosed
        /\ RxClearsExposed /\ SendsToClient /\ ClosesGone /\ ReadyIsReadable /\ OrphansWereReplaced
=============================================================================

-------------------------- MODULE UartBridgeProofs --------------------------
(***************************************************************************)
(* For any number of descriptors and hosts, the two tasks of the serial    *)
(* port server close, name and lose descriptors only in the cases that the *)
(* properties of UartBridge except.  Everything follows from IInv: what    *)
(* each task may rely on where it is.                                      *)
(***************************************************************************)
EXTENDS UartBridge, TLAPS

\* There is no client at first.
LEMMA InitIInv == Init => IInv
<1> SUFFICES ASSUME Init PROVE IInv
  OBVIOUS
<1>1. TypeOK
  <2>1. ready \in [listen : BOOLEAN, udp : BOOLEAN, fds : SUBSET (Fds \cup {NoFd})]
    BY DEF Init, Nothing
  <2> QED
    BY <2>1 DEF Init, TypeOK, FdStates
<1>2. ~HasClient /\ ClosedIsCleared /\ FailedIsChecked
  BY BridgeAssumption DEF Init, HasClient, ClosedIsCleared, FailedIsChecked
<1>3. ReadyIsReadable
  BY DEF Init, Nothing, ReadyIsReadable
<1>4. OrphansWereReplaced
  BY DEF Init, OrphansWereReplaced
<1> QED
  BY <1>1, <1>2, <1>3, <1>4
  DEF Init, IInv, NetClearsClosed, RxClearsExposed, SendsToClient, ClosesGone

\* Steps of net_uart_task keep the inductive invariant.
LEMMA NetIInv == IInv /\ Net => IInv'
<1> SUFFICES ASSUME IInv, Net PROVE IInv'
  OBVIOUS
<1> USE BridgeAssumption
    DEF IInv, TypeOK, FdStates, HasClient, ClosedIsCleared, FailedIsChecked, NetClearsClosed,
        RxClearsExposed, SendsToClient, Closing, ClosesGone, ReadyIsReadable,
        OrphansWereReplaced, envVars, rxVars, netVars, history
<1>0. /\ Nothing \in [listen : BOOLEAN, udp : BOOLEAN, fds : SUBSET (Fds \cup {NoFd})]
      /\ Nothing.fds = {}
  BY DEF Nothing
<1>1. CASE SelectTest
  BY <1>1 DEF SelectTest, NetGoto
<1>2. CASE SelectSet
  <2>1. tcp_client_sock \in Fds \cup {NoFd}
    BY <1>2 DEF SelectSet
  <2>2. /\ ready' \in [listen : BOOLEAN, udp : BOOLEAN, fds : SUBSET (Fds \cup {NoFd})]
    BY <1>2, <2>1 DEF SelectSet
  <2> QED
    BY <1>2, <2>2 DEF SelectSet
<1>3. CASE SelectMax
  <2>1. ready' \in [listen : BOOLEAN, udp : BOOLEAN, fds : SUBSET (Fds \cup {NoFd})]
    BY <1>3 DEF SelectMax
  <2> QED
    BY <1>3, <2>1 DEF SelectMax
<1>4. CASE Selected
  <2>1. PICK udp \in BOOLEAN, odd \in SUBSET (ready.fds \ Fds) :
           ready' = [listen |-> waiting, udp |-> udp,
                     fds |-> {f \in ready.fds \cap Fds : f \in unread \/ fd[f] = "down"}
                             \cup odd]
    BY <1>4 DEF Selected
  <2>2. /\ ready' \in [listen : BOOLEAN, udp : BOOLEAN, fds : SUBSET (Fds \cup {NoFd})]
        /\ \A f \in ready'.fds \cap Fds : fd[f] = "up" => f \in unread
    BY <2>1
  <2> QED
    BY <1>4, <2>2 DEF Selected
<1>5. CASE SelectFails
  BY <1>0, <1>5 DEF SelectFails, NextRound
<1>6. CASE NoNewClient
  BY <1>6 DEF NoNewClient, NetGoto
<1>7. ASSUME NEW f \in Fds, Accept(f) PROVE IInv'
  BY <1>7 DEF Accept, NetGoto, PutAside, RxBusy, Open
<1>8. CASE AcceptFails
  BY <1>8 DEF AcceptFails, NetGoto, PutAside, Open
<1>9. CASE CheckAccept
  BY <1>9 DEF CheckAccept, NetGoto
<1>10. CASE Udp
  BY <1>10 DEF Udp, NetGoto
<1>11. CASE TcpTest
  BY <1>0, <1>11 DEF TcpTest, NetGoto, NextRound
<1>12. CASE Isset
  BY <1>0, <1>12 DEF Isset, NetGoto, NextRound
<1>13. CASE Recv
  BY <1>0, <1>13 DEF Recv, NetGoto, NextRound
<1>14. CASE NetClose
  BY <1>14 DEF NetClose, CloseClient, NetGoto
<1>15. CASE NetClear
  BY <1>0, <1>15 DEF NetClear, ClearClient, NextRound
<1> QED
  BY <1>1, <1>2, <1>3, <1>4, <1>5, <1>6, <1>7, <1>8, <1>9, <1>10, <1>11, <1>12, <1>13,
     <1>14, <1>15
  DEF Net

\* Steps of uart_rx_task keep the inductive invariant.
LEMMA RxIInv == IInv /\ Rx => IInv'
<1> SUFFICES ASSUME IInv, Rx PROVE IInv'
  OBVIOUS
<1> USE BridgeAssumption
    DEF IInv, TypeOK, FdStates, HasClient, ClosedIsCleared, FailedIsChecked, NetClearsClosed,
        RxClearsExposed, SendsToClient, Closing, ClosesGone, ReadyIsReadable,
        OrphansWereReplaced, envVars, rxVars, netVars, history
<1>1. CASE Receive
  BY <1>1 DEF Receive, RxGoto
<1>2. CASE SendTest
  BY <1>2 DEF SendTest, RxGoto
<1>3. CASE SendStart
  BY <1>3 DEF SendStart
<1>4. CASE SendEnd
  BY <1>4 DEF SendEnd, Open
<1>5. CASE RxClose
  BY <1>5 DEF RxClose, CloseClient, RxGoto
<1>6. CASE RxClear
  BY <1>6 DEF RxClear, ClearClient, RxGoto
<1>7. CASE SendtoStart
  BY <1>7 DEF SendtoStart
<1>8. CASE SendtoEnd
  BY <1>8 DEF SendtoEnd
<1> QED
  BY <1>1, <1>2, <1>3, <1>4, <1>5, <1>6, <1>7, <1>8 DEF Rx

\* Peers and the other users of descriptors keep the inductive invariant.
LEMMA EnvironmentIInv == IInv /\ Environment => IInv'
<1> SUFFICES ASSUME IInv, Environment PROVE IInv'
  OBVIOUS
<1> USE BridgeAssumption
    DEF IInv, TypeOK, FdStates, HasClient, ClosedIsCleared, FailedIsChecked, NetClearsClosed,
        RxClearsExposed, SendsToClient, Closing, ClosesGone, ReadyIsReadable,
        OrphansWereReplaced, rxVars, netVars, history
<1>1. CASE Connect
  BY <1>1 DEF Connect
<1>2. ASSUME NEW f \in Fds, PeerSends(f) PROVE IInv'
  BY <1>2 DEF PeerSends
<1>3. ASSUME NEW f \in Fds, PeerGone(f) PROVE IInv'
  BY <1>3 DEF PeerGone
<1>4. ASSUME NEW f \in Fds, OtherOpens(f) PROVE IInv'
  BY <1>4 DEF OtherOpens
<1>5. ASSUME NEW f \in Fds, OtherCloses(f) PROVE IInv'
  BY <1>5 DEF OtherCloses
<1> QED
  BY <1>1, <1>2, <1>3, <1>4, <1>5 DEF Environment

\* Every step of the bridge and of its environment keeps the inductive invariant.
LEMMA NextIInv == IInv /\ [Next]_vars => IInv'
<1> SUFFICES ASSUME IInv, [Next]_vars PROVE IInv'
  OBVIOUS
<1>1. CASE UNCHANGED vars
  BY <1>1
  DEF vars, envVars, rxVars, netVars, history, IInv, TypeOK, HasClient, ClosedIsCleared,
      FailedIsChecked, NetClearsClosed, RxClearsExposed, SendsToClient, Closing, ClosesGone,
      ReadyIsReadable, OrphansWereReplaced
<1> QED
  BY <1>1, NetIInv, RxIInv, EnvironmentIInv DEF Next

\* platform.c 187-322, whatever the two tasks and the others do: what each task relies
\* on at each place holds.
THEOREM BridgeInvariant == Spec => []IInv
  BY InitIInv, NextIInv, PTL DEF Spec

\* The state of the bridge has its type; in particular net_uart_task may pass 0 to
\* FD_SET, which uart_rx_task has cleared under it, but never -1.
THEOREM BridgeTypeCorrect == Spec => []TypeOK
<1>1. IInv => TypeOK
  BY DEF IInv
<1> QED
  BY <1>1, BridgeInvariant, PTL

\* tcp_client_sock names a descriptor of another part of the firmware only between
\* the close and the clearing of one of the two tasks.
THEOREM BridgeSockIsOurs == Spec => []SockIsOurs
<1>1. IInv => SockIsOurs
  BY DEF IInv, ClosedIsCleared, HasClient, SockIsOurs
<1> QED
  BY <1>1, BridgeInvariant, PTL

\* The bridge leaks a connection only when a later one replaces it, or when it was
\* accepted while the other task was busy with an earlier one.
THEOREM BridgeOrphansWereReplaced == Spec => []OrphansWereReplaced
<1>1. IInv => OrphansWereReplaced
  BY DEF IInv
<1> QED
  BY <1>1, BridgeInvariant, PTL

\* A step that closes a connection whose peer is there is one of the two closes.
LEMMA StepKeepsLive ==
    ASSUME IInv, [Next]_vars, NEW f \in Fds, fd[f] = "up", fd'[f] = "free"
    PROVE  f \in exposed
<1>1. CASE NetClose \/ RxClose
  <2>1. f = tcp_client_sock /\ Closing
    BY <1>1 DEF NetClose, RxClose, CloseClient, Closing, IInv, TypeOK
  <2> QED
    BY <2>1 DEF IInv, ClosesGone, HasClient
<1>2. CASE ~(NetClose \/ RxClose)
  <2>1. fd'[f] # "free"
    BY <1>2
    DEF IInv, TypeOK, FdStates, Next, Net, Rx, Environment, SelectTest, SelectSet,
        SelectMax, Selected, SelectFails, NoNewClient, Accept, AcceptFails, CheckAccept,
        Udp, TcpTest, Isset, Recv, NetClear, Receive, SendTest, SendStart, SendEnd, RxClear,
        SendtoStart, SendtoEnd, ClearClient, Connect, PeerSends, PeerGone, OtherOpens,
        OtherCloses, envVars, vars
  <2> QED
    BY <2>1
<1> QED
  BY <1>1, <1>2

\* The two tasks close a live client only in the cases that LiveClientKept excepts.
THEOREM BridgeLiveClientKept == Spec => LiveClientKept
<1>1. IInv /\ [Next]_vars =>
        [\A f \in Fds : fd[f] = "up" /\ fd'[f] = "free" => f \in exposed]_vars
  BY StepKeepsLive
<1> QED
  BY <1>1, BridgeInvariant, PTL DEF Spec, LiveClientKept
=============================================================================

--------------------------- MODULE GdbServerProofs ---------------------------
(***************************************************************************)
(* For any number of clients and targets, any number of resends and leaked *)
(* scopes: the target pointers are only touched under the lock, and never  *)
(* point to a freed target.  Everything follows from IInv: what each task  *)
(* has of the lock, of its scopes and of its target at each label.         *)
(***************************************************************************)
EXTENDS GdbServer, FiniteSetTheorems, TLAPS

\* The null values are not members of the sets.
LEMMA ServerConstants == /\ NoClient \notin Clients
                         /\ NoTarget \notin Targets
                         /\ Retries \in Nat
  BY ServerAssumption

\* A step of another task leaves what holds at d's label alone when it changes none
\* of d's part of the state and, while d owns the lock, none of the targets.
LEMMA Frame ==
    ASSUME NEW d \in Clients, AtLabel(d), Clients # {d},
           pc'[d] = pc[d], nest'[d] = nest[d], scopes'[d] = scopes[d],
           then'[d] = then[d], using'[d] = using[d], outer'[d] = outer[d],
           no_ack'[d] = no_ack[d],
           owner' = d <=> owner = d,
           owner = d => UNCHANGED targetVars
    PROVE  AtLabel(d)'
  BY DEF AtLabel, Inside, InScope, Sending, Ending, Base, AwaitsAck, targetVars

\* What a step of task c has to show.
LEMMA StepIInv ==
    ASSUME NEW c \in Clients, IInv, TypeOK', NoDanglingTarget', AtLabel(c)',
           \A d \in Clients \ {c} :
               /\ pc'[d] = pc[d] /\ nest'[d] = nest[d] /\ scopes'[d] = scopes[d]
               /\ then'[d] = then[d] /\ using'[d] = using[d] /\ outer'[d] = outer[d]
               /\ no_ack'[d] = no_ack[d]
               /\ owner' = d <=> owner = d,
           owner = c \/ UNCHANGED targetVars
    PROVE  IInv'
<1>1. \A d \in Clients \ {c} : AtLabel(d)'
  <2> TAKE d \in Clients \ {c}
  <2>1. Clients # {d}
    OBVIOUS
  <2> QED
    BY <2>1, Frame DEF IInv
<1> QED
  BY <1>1 DEF IInv

\* Nobody is connected at first.
LEMMA InitIInv == Init => IInv
  BY ServerConstants DEF Init, IInv, TypeOK, NoDanglingTarget, AtLabel, InScope,
     Inside, Sending, Ending, Base, AwaitsAck, Labels, Jobs, Lock!Init, Lock!TypeOK

\* Every step of the server keeps the inductive invariant.
LEMMA NextIInv == IInv /\ [Next]_vars => IInv'
<1> SUFFICES ASSUME IInv, [Next]_vars PROVE IInv'
  OBVIOUS
<1>1. CASE UNCHANGED vars
  BY <1>1
     DEF vars, lockVars, countVars, targetVars, useVars, packetVars, IInv, TypeOK,
     Lock!TypeOK, NoDanglingTarget, AtLabel, InScope, Inside, Sending, Ending, Base,
     AwaitsAck
<1>2. CASE Next
  <2> PICK c \in Clients :
            \/ Run(c) \/ Acquire(c) \/ Peer(c)
            \/ Accept(c) \/ PeerGone(c) \/ Raise(c)
    BY <1>2 DEF Next
  <2> USE ServerConstants
      DEF lockVars, countVars, targetVars, useVars, packetVars, Goto, TypeOK, Lock!TypeOK,
          Labels, Jobs, NoDanglingTarget, Ending, Base, AwaitsAck
  <2>1. CASE Send(c)
    <3>1. TypeOK' /\ NoDanglingTarget'
      BY <2>1 DEF Send, SentTo, BreakLock, Lock!Yield, IInv, AtLabel, Inside, InScope
    <3>2. AtLabel(c)'
      BY <2>1
         DEF Send, SentTo, BreakLock, Lock!Yield, IInv, AtLabel, Inside, InScope, Sending
    <3> QED
      BY <2>1, <3>1, <3>2, StepIInv
         DEF Send, SentTo, BreakLock, Lock!Yield, IInv, AtLabel, Inside, InScope
  <2>2. CASE LeaveScope(c)
    <3>1. TypeOK' /\ NoDanglingTarget'
      BY <2>2 DEF LeaveScope, Lock!Leave, IInv, AtLabel, Inside, InScope
    <3>2. AtLabel(c)'
      BY <2>2 DEF LeaveScope, Lock!Leave, IInv, AtLabel, Inside, InScope, Sending
    <3> QED
      BY <2>2, <3>1, <3>2, StepIInv
         DEF LeaveScope, Lock!Leave, IInv, AtLabel, Inside, InScope
  <2>3. CASE CountLoad(c)
    <3>1. TypeOK' /\ NoDanglingTarget'
      BY <2>3 DEF CountLoad, IInv, AtLabel, Inside, InScope
    <3>2. AtLabel(c)'
      BY <2>3 DEF CountLoad, IInv, AtLabel, Inside, InScope, Sending
    <3> QED
      BY <2>3, <3>1, <3>2, StepIInv DEF CountLoad, IInv, AtLabel, Inside, InScope
  <2>4. CASE CountStore(c)
    <3>1. TypeOK' /\ NoDanglingTarget'
      BY <2>4 DEF CountStore, IInv, AtLabel, Inside, InScope
    <3>2. AtLabel(c)'
      BY <2>4 DEF CountStore, IInv, AtLabel, Inside, InScope, Sending
    <3> QED
      BY <2>4, <3>1, <3>2, StepIInv DEF CountStore, IInv, AtLabel, Inside, InScope
  <2>5. CASE Destroy(c)
    <3>1. TypeOK' /\ NoDanglingTarget'
      BY <2>5 DEF Destroy, Lock!Abandon, IInv, AtLabel, Inside, InScope
    <3>2. AtLabel(c)'
      BY <2>5 DEF Destroy, Lock!Abandon, IInv, AtLabel, Inside, InScope, Sending
    <3> QED
      BY <2>5, <3>1, <3>2, StepIInv
         DEF Destroy, Lock!Abandon, IInv, AtLabel, Inside, InScope
  <2>6. CASE Boot(c)
    <3>1. TypeOK' /\ NoDanglingTarget'
      BY <2>6 DEF Boot, IInv, AtLabel, Inside, InScope
    <3>2. AtLabel(c)'
      BY <2>6 DEF Boot, IInv, AtLabel, Inside, InScope, Sending
    <3> QED
      BY <2>6, <3>1, <3>2, StepIInv DEF Boot, IInv, AtLabel, Inside, InScope
  <2>7. CASE Scan(c)
    <3>1. TypeOK' /\ NoDanglingTarget'
      BY <2>7 DEF Scan, IInv, AtLabel, Inside, InScope
    <3>2. AtLabel(c)'
      BY <2>7 DEF Scan, IInv, AtLabel, Inside, InScope, Sending
    <3> QED
      BY <2>7, <3>1, <3>2, StepIInv DEF Scan, IInv, AtLabel, Inside, InScope
  <2>8. CASE DestroyTarget(c)
    <3>1. TypeOK' /\ NoDanglingTarget'
      BY <2>8 DEF DestroyTarget, SendThen, ForgetLast, IInv, AtLabel, Inside, InScope
    <3>2. AtLabel(c)'
      BY <2>8
         DEF DestroyTarget, SendThen, ForgetLast, IInv, AtLabel, Inside, InScope, Sending
    <3> QED
      BY <2>8, <3>1, <3>2, StepIInv
         DEF DestroyTarget, SendThen, ForgetLast, IInv, AtLabel, Inside, InScope
  <2>9. CASE Told(c)
    <3>1. TypeOK' /\ NoDanglingTarget'
      BY <2>9 DEF Told, ForgetLast, IInv, AtLabel, Inside, InScope
    <3>2. AtLabel(c)'
      BY <2>9 DEF Told, ForgetLast, IInv, AtLabel, Inside, InScope, Sending
    <3> QED
      BY <2>9, <3>1, <3>2, StepIInv DEF Told, ForgetLast, IInv, AtLabel, Inside, InScope
  <2>10. CASE Release(c)
    <3>1. TypeOK' /\ NoDanglingTarget'
      BY <2>10 DEF Release, IInv, AtLabel, Inside, InScope
    <3>2. AtLabel(c)'
      BY <2>10 DEF Release, IInv, AtLabel, Inside, InScope, Sending
    <3> QED
      BY <2>10, <3>1, <3>2, StepIInv DEF Release, IInv, AtLabel, Inside, InScope
  <2>11. CASE FreeDone(c)
    <3>1. TypeOK' /\ NoDanglingTarget'
      BY <2>11 DEF FreeDone, IInv, AtLabel, Inside, InScope
    <3>2. AtLabel(c)'
      BY <2>11 DEF FreeDone, IInv, AtLabel, Inside, InScope, Sending
    <3> QED
      BY <2>11, <3>1, <3>2, StepIInv DEF FreeDone, IInv, AtLabel, Inside, InScope
  <2>12. CASE Idle(c)
    <3>1. TypeOK' /\ NoDanglingTarget'
      BY <2>12 DEF Idle, BreakLock, Lock!Yield, IInv, AtLabel, Inside, InScope
    <3>2. AtLabel(c)'
      BY <2>12 DEF Idle, BreakLock, Lock!Yield, IInv, AtLabel, Inside, InScope, Sending
    <3> QED
      BY <2>12, <3>1, <3>2, StepIInv
         DEF Idle, BreakLock, Lock!Yield, IInv, AtLabel, Inside, InScope
  <2>13. CASE NestLock(c)
    <3>1. TypeOK' /\ NoDanglingTarget'
      BY <2>13 DEF NestLock, LockScope, Lock!Enter, IInv, AtLabel, Inside, InScope
    <3>2. AtLabel(c)'
      BY <2>13
         DEF NestLock, LockScope, Lock!Enter, IInv, AtLabel, Inside, InScope, Sending
    <3> QED
      BY <2>13, <3>1, <3>2, StepIInv
         DEF NestLock, LockScope, Lock!Enter, IInv, AtLabel, Inside, InScope
  <2>14. CASE NoTargetAnswer(c)
    <3>1. TypeOK' /\ NoDanglingTarget'
      BY <2>14 DEF NoTargetAnswer, Answer, SendThen, IInv, AtLabel, Inside, InScope
    <3>2. AtLabel(c)'
      BY <2>14
         DEF NoTargetAnswer, Answer, SendThen, IInv, AtLabel, Inside, InScope, Sending
    <3> QED
      BY <2>14, <3>1, <3>2, StepIInv
         DEF NoTargetAnswer, Answer, SendThen, IInv, AtLabel, Inside, InScope
  <2>15. CASE Use(c)
    <3>1. TypeOK' /\ NoDanglingTarget'
      BY <2>15 DEF Use, IInv, AtLabel, Inside, InScope
    <3>2. AtLabel(c)'
      BY <2>15 DEF Use, IInv, AtLabel, Inside, InScope, Sending
    <3> QED
      BY <2>15, <3>1, <3>2, StepIInv DEF Use, IInv, AtLabel, Inside, InScope
  <2>16. CASE Detach(c)
    <3>1. TypeOK' /\ NoDanglingTarget'
      BY <2>16 DEF Detach, InLibrary, Answer, SendThen, IInv, AtLabel, Inside, InScope
    <3>2. AtLabel(c)'
      BY <2>16 DEF Detach, InLibrary, Answer, SendThen, IInv, AtLabel, Inside, InScope, Sending
    <3> QED
      BY <2>16, <3>1, <3>2, StepIInv
         DEF Detach, InLibrary, Answer, SendThen, IInv, AtLabel, Inside, InScope
  <2>17. CASE Reattach(c)
    <3>1. TypeOK' /\ NoDanglingTarget'
      BY <2>17 DEF Reattach, Answer, SendThen, IInv, AtLabel, Inside, InScope
    <3>2. AtLabel(c)'
      BY <2>17 DEF Reattach, Answer, SendThen, IInv, AtLabel, Inside, InScope, Sending
    <3> QED
      BY <2>17, <3>1, <3>2, StepIInv
         DEF Reattach, Answer, SendThen, IInv, AtLabel, Inside, InScope
  <2>18. CASE Attach(c)
    <3>1. TypeOK' /\ NoDanglingTarget'
      BY <2>18 DEF Attach, SendThen, IInv, AtLabel, Inside, InScope
    <3>2. AtLabel(c)'
      BY <2>18 DEF Attach, SendThen, IInv, AtLabel, Inside, InScope, Sending
    <3> QED
      BY <2>18, <3>1, <3>2, StepIInv
         DEF Attach, SendThen, IInv, AtLabel, Inside, InScope
  <2>19. CASE Rescan(c)
    <3>1. TypeOK' /\ NoDanglingTarget'
      BY <2>19 DEF Rescan, IInv, AtLabel, Inside, InScope
    <3>2. AtLabel(c)'
      BY <2>19 DEF Rescan, IInv, AtLabel, Inside, InScope, Sending
    <3> QED
      BY <2>19, <3>1, <3>2, StepIInv DEF Rescan, IInv, AtLabel, Inside, InScope
  <2>20. CASE UsePrintf(c)
    <3>1. TypeOK' /\ NoDanglingTarget'
      BY <2>20 DEF UsePrintf, InLibrary, SendThen, IInv, AtLabel, Inside, InScope
    <3>2. AtLabel(c)'
      BY <2>20 DEF UsePrintf, InLibrary, SendThen, IInv, AtLabel, Inside, InScope, Sending
    <3> QED
      BY <2>20, <3>1, <3>2, StepIInv
         DEF UsePrintf, InLibrary, SendThen, IInv, AtLabel, Inside, InScope
  <2>21. CASE UseDone(c)
    <3>1. TypeOK' /\ NoDanglingTarget'
      BY <2>21 DEF UseDone, InLibrary, Answer, SendThen, IInv, AtLabel, Inside, InScope
    <3>2. AtLabel(c)'
      BY <2>21 DEF UseDone, InLibrary, Answer, SendThen, IInv, AtLabel, Inside, InScope, Sending
    <3> QED
      BY <2>21, <3>1, <3>2, StepIInv
         DEF UseDone, InLibrary, Answer, SendThen, IInv, AtLabel, Inside, InScope
  <2>22. CASE Caught(c)
    <3>1. TypeOK' /\ NoDanglingTarget'
      BY <2>22 DEF Caught, SendThen, IInv, AtLabel, Inside, InScope
    <3>2. AtLabel(c)'
      BY <2>22 DEF Caught, SendThen, IInv, AtLabel, Inside, InScope, Sending
    <3> QED
      BY <2>22, <3>1, <3>2, StepIInv
         DEF Caught, SendThen, IInv, AtLabel, Inside, InScope
  <2>23. CASE BootLock(c)
    <3>1. TypeOK' /\ NoDanglingTarget'
      BY <2>23
         DEF BootLock, LockScope, Lock!Enter, IInv, AtLabel, Inside, InScope, Sending
    <3>2. AtLabel(c)'
      BY <2>23
         DEF BootLock, LockScope, Lock!Enter, IInv, AtLabel, Inside, InScope, Sending
    <3> QED
      BY <2>23, <3>1, <3>2, StepIInv
         DEF BootLock, LockScope, Lock!Enter, IInv, AtLabel, Inside, InScope
  <2>24. CASE CmdLock(c)
    <3>1. TypeOK' /\ NoDanglingTarget'
      BY <2>24
         DEF CmdLock, LockScope, Lock!Enter, IInv, AtLabel, Inside, InScope, Sending
    <3>2. AtLabel(c)'
      BY <2>24
         DEF CmdLock, LockScope, Lock!Enter, IInv, AtLabel, Inside, InScope, Sending
    <3> QED
      BY <2>24, <3>1, <3>2, StepIInv
         DEF CmdLock, LockScope, Lock!Enter, IInv, AtLabel, Inside, InScope
  <2>25. CASE LostLock(c)
    <3>1. TypeOK' /\ NoDanglingTarget'
      BY <2>25
         DEF LostLock, LockScope, Lock!Enter, IInv, AtLabel, Inside, InScope, Sending
    <3>2. AtLabel(c)'
      BY <2>25
         DEF LostLock, LockScope, Lock!Enter, IInv, AtLabel, Inside, InScope, Sending
    <3> QED
      BY <2>25, <3>1, <3>2, StepIInv
         DEF LostLock, LockScope, Lock!Enter, IInv, AtLabel, Inside, InScope
  <2>26. CASE AckWaitOver(c)
    <3>1. TypeOK' /\ NoDanglingTarget'
      BY <2>26
         DEF AckWaitOver, RestoreLock, SentTo, Lock!Resume, IInv, AtLabel, Inside, InScope
    <3>2. AtLabel(c)'
      BY <2>26
         DEF AckWaitOver, RestoreLock, SentTo, Lock!Resume, IInv, AtLabel, Inside, InScope, Sending
    <3> QED
      BY <2>26, <3>1, <3>2, StepIInv
         DEF AckWaitOver, RestoreLock, SentTo, Lock!Resume, IInv, AtLabel, Inside, InScope
  <2>27. CASE Wake(c)
    <3>1. TypeOK' /\ NoDanglingTarget'
      BY <2>27 DEF Wake, RestoreLock, Lock!Resume, IInv, AtLabel, Inside, InScope
    <3>2. AtLabel(c)'
      BY <2>27
         DEF Wake, RestoreLock, Lock!Resume, IInv, AtLabel, Inside, InScope, Sending
    <3> QED
      BY <2>27, <3>1, <3>2, StepIInv
         DEF Wake, RestoreLock, Lock!Resume, IInv, AtLabel, Inside, InScope
  <2>28. CASE Body(c)
    <3>1. TypeOK' /\ NoDanglingTarget'
      BY <2>28 DEF Body, SendThen, IInv, AtLabel, Inside, InScope
    <3>2. AtLabel(c)'
      BY <2>28 DEF Body, SendThen, IInv, AtLabel, Inside, InScope, Sending
    <3> QED
      BY <2>28, <3>1, <3>2, StepIInv DEF Body, SendThen, IInv, AtLabel, Inside, InScope
  <2>29. CASE Accept(c)
    <3>1. TypeOK' /\ NoDanglingTarget'
      BY <2>29 DEF Accept, IInv, AtLabel, Inside, InScope
    <3>2. AtLabel(c)'
      BY <2>29 DEF Accept, IInv, AtLabel, Inside, InScope, Sending
    <3> QED
      BY <2>29, <3>1, <3>2, StepIInv DEF Accept, IInv, AtLabel, Inside, InScope
  <2>30. CASE PeerGone(c)
    <3>1. TypeOK' /\ NoDanglingTarget'
      BY <2>30 DEF PeerGone, IInv, AtLabel, Inside, InScope
    <3>2. AtLabel(c)'
      BY <2>30 DEF PeerGone, IInv, AtLabel, Inside, InScope, Sending
    <3> QED
      BY <2>30, <3>1, <3>2, StepIInv DEF PeerGone, IInv, AtLabel, Inside, InScope
  <2>31. CASE Raise(c)
    <3>1. TypeOK' /\ NoDanglingTarget'
      BY <2>31 DEF Raise, InLibrary, IInv, AtLabel, Inside, InScope
    <3>2. AtLabel(c)'
      BY <2>31 DEF Raise, InLibrary, IInv, AtLabel, Inside, InScope, Sending
    <3> QED
      BY <2>31, <3>1, <3>2, StepIInv DEF Raise, InLibrary, IInv, AtLabel, Inside, InScope
  <2>32. CASE Attached(c)
    <3>1. TypeOK' /\ NoDanglingTarget'
      BY <2>32 DEF Attached, SendThen, IInv, AtLabel, Inside, InScope
    <3>2. AtLabel(c)'
      BY <2>32 DEF Attached, SendThen, IInv, AtLabel, Inside, InScope, Sending
    <3> QED
      BY <2>32, <3>1, <3>2, StepIInv
         DEF Attached, SendThen, IInv, AtLabel, Inside, InScope
  <2>33. CASE UsePutpacket2(c)
    <3>1. TypeOK' /\ NoDanglingTarget'
      BY <2>33 DEF UsePutpacket2, InLibrary, SendThen, IInv, AtLabel, Inside, InScope
    <3>2. AtLabel(c)'
      BY <2>33 DEF UsePutpacket2, InLibrary, SendThen, IInv, AtLabel, Inside, InScope, Sending
    <3> QED
      BY <2>33, <3>1, <3>2, StepIInv
         DEF UsePutpacket2, InLibrary, SendThen, IInv, AtLabel, Inside, InScope
  <2>34. CASE Syscall(c)
    <3>1. TypeOK' /\ NoDanglingTarget'
      BY <2>34 DEF Syscall, InLibrary, SendThen, IInv, AtLabel, Inside, InScope
    <3>2. AtLabel(c)'
      BY <2>34 DEF Syscall, InLibrary, SendThen, IInv, AtLabel, Inside, InScope, Sending
    <3> QED
      BY <2>34, <3>1, <3>2, StepIInv
         DEF Syscall, InLibrary, SendThen, IInv, AtLabel, Inside, InScope
  <2>35. CASE SyscallDone(c)
    <3>1. TypeOK' /\ NoDanglingTarget'
      BY <2>35 DEF SyscallDone, IInv, AtLabel, Inside, InScope
    <3>2. AtLabel(c)'
      BY <2>35 DEF SyscallDone, IInv, AtLabel, Inside, InScope, Sending
    <3> QED
      BY <2>35, <3>1, <3>2, StepIInv
         DEF SyscallDone, IInv, AtLabel, Inside, InScope
  <2>36. CASE Remote(c)
    <3>1. TypeOK' /\ NoDanglingTarget'
      BY <2>36 DEF Remote, IInv, AtLabel, Inside, InScope
    <3>2. AtLabel(c)'
      BY <2>36 DEF Remote, IInv, AtLabel, Inside, InScope, Sending
    <3> QED
      BY <2>36, <3>1, <3>2, StepIInv
         DEF Remote, IInv, AtLabel, Inside, InScope
  <2>37. CASE RemoteDone(c)
    <3>1. TypeOK' /\ NoDanglingTarget'
      BY <2>37 DEF RemoteDone, IInv, AtLabel, Inside, InScope
    <3>2. AtLabel(c)'
      BY <2>37 DEF RemoteDone, IInv, AtLabel, Inside, InScope, Sending
    <3> QED
      BY <2>37, <3>1, <3>2, StepIInv
         DEF RemoteDone, IInv, AtLabel, Inside, InScope
  <2> QED
    BY <2>1, <2>2, <2>3, <2>4, <2>5, <2>6, <2>7, <2>8, <2>9, <2>10, <2>11, <2>12,
       <2>13, <2>14, <2>15, <2>16, <2>17, <2>18, <2>19, <2>20, <2>21, <2>22, <2>23,
       <2>24, <2>25, <2>26, <2>27, <2>28, <2>29, <2>30, <2>31, <2>32, <2>33, <2>34,
       <2>35, <2>36, <2>37
       DEF Run, Command, Acquire, Peer
<1> QED
  BY <1>1, <1>2

\* The inductive invariant implies the properties of the server.
LEMMA IInvImplies ==
    IInv => TypeOK /\ TargetsGuarded /\ WaitersLetGo /\ NoDanglingTarget /\ NoAckUseIsSafe
<1> SUFFICES ASSUME IInv
             PROVE  TargetsGuarded /\ WaitersLetGo /\ NoAckUseIsSafe
  BY DEF IInv
<1>1. TargetsGuarded
  BY DEF IInv, AtLabel, TargetsGuarded, InScope, Inside, Ending
<1>2. WaitersLetGo
  BY DEF IInv, AtLabel, WaitersLetGo
<1>3. NoAckUseIsSafe
  BY DEF IInv, AtLabel, NoAckUseIsSafe
<1> QED
  BY <1>1, <1>2, <1>3

\* The inductive invariant holds in every reachable state.
THEOREM ServerInvariant == Spec => []IInv
  BY InitIInv, NextIInv, PTL DEF Spec

\* Every variable of the server has its type; in particular no task ever has more
\* than two GDBLock objects, or three with an inner main loop, and no packet is sent
\* more than 1 + Retries times.
THEOREM ServerTypeCorrect == Spec => []TypeOK
  BY ServerInvariant, IInvImplies, PTL

\* cur_target, last_target, the target list and the probe are only used under the
\* GDB lock, except by qAttached, for any number of clients and whatever semihosting
\* calls came in between and exceptions did to the scopes.
THEOREM ServerTargetsGuarded == Spec => []TargetsGuarded
  BY ServerInvariant, IInvImplies, PTL

\* A wait with a timeout never keeps the lock.
THEOREM ServerWaitersLetGo == Spec => []WaitersLetGo
  BY ServerInvariant, IInvImplies, PTL

\* cur_target and last_target never point to a freed target, although the destroy
\* callback gives the lock away before it clears them.
THEOREM ServerNoDanglingTarget == Spec => []NoDanglingTarget
  BY ServerInvariant, IInvImplies, PTL

\* A client in no-ack mode is not inside the library with a freed target, unless that
\* call has made a semihosting call or used gdb_putpacket2.
THEOREM ServerNoAckUseIsSafe == Spec => []NoAckUseIsSafe
  BY ServerInvariant, IInvImplies, PTL

\* With one client, and a library that makes no semihosting call and does not use
\* gdb_putpacket2, no target is used that is gone: for the finding it takes a second
\* connection, or one of those callbacks.
THEOREM SingleClientUseIsSafe ==
    (\A c, d \in Clients : c = d) /\ Callbacks = {} => (Spec => []NoUseAfterFree)
<1> SUFFICES ASSUME \A c, d \in Clients : c = d, Callbacks = {}
             PROVE  Spec => []NoUseAfterFree
  OBVIOUS
<1>1. IInv => NoUseAfterFree
  <2> SUFFICES ASSUME IInv, NEW c \in Clients, InLibrary(c) PROVE using[c] \in list
    BY DEF NoUseAfterFree
  <2>1. Clients = {c} /\ pc[c] = "use"
    BY DEF InLibrary, IInv, AtLabel
  <2> QED
    BY <2>1 DEF IInv, AtLabel
<1> QED
  BY <1>1, ServerInvariant, PTL

(***************************************************************************)
(* The server implements TargetList.  Most steps only move the lock; a     *)
(* target is being released by nobody else than the owner of the lock.     *)
(***************************************************************************)
LEMMA ReleasedByOwner ==
    ASSUME IInv, NEW c \in Clients, owner = c
    PROVE  Released = IF pc[c] = "release" THEN {using[c]} ELSE {}
<1>1. \A d \in Clients : pc[d] = "release" => d = c
  BY DEF IInv, AtLabel, InScope, Inside, Ending
<1> QED
  BY <1>1 DEF Released

\* What is being released changes only when a task begins or ends it.
LEMMA ReleasedKept ==
    ASSUME NEW c \in Clients, pc[c] # "release", pc'[c] # "release",
           \A d \in Clients \ {c} : pc'[d] = pc[d] /\ using'[d] = using[d]
    PROVE  Released' = Released
  BY DEF Released

\* A step that moves the lock only.
LEMMA HandsOver ==
    ASSUME TypeOK', UNCHANGED targetVars, Released' = Released
    PROVE  T!Next
<1>1. owner' \in Clients \cup {NoClient}
  BY DEF TypeOK, Lock!TypeOK
<1> QED
  BY <1>1 DEF T!Next, T!HandOver, T!pointers, targetVars

\* A step of the owner.
LEMMA OwnerSteps ==
    ASSUME NEW c \in Clients, owner = c, UNCHANGED owner,
           \/ \E found \in SUBSET Targets : T!Find(found)
           \/ T!Attach \/ T!Detach
           \/ \E t \in Targets : T!Destroy(t)
    PROVE  T!Next
  BY DEF T!Next

\* The steps of task c that leave the pointers and the list alone.
Aside(c) == \/ Send(c) \/ LeaveScope(c) \/ CountLoad(c) \/ CountStore(c) \/ Destroy(c)
            \/ Boot(c) \/ FreeDone(c) \/ Idle(c) \/ NestLock(c) \/ NoTargetAnswer(c)
            \/ Use(c) \/ Rescan(c) \/ UsePrintf(c) \/ UseDone(c) \/ Caught(c)
            \/ UsePutpacket2(c) \/ Syscall(c) \/ SyscallDone(c) \/ Attached(c)
            \/ Remote(c) \/ RemoteDone(c)
            \/ Acquire(c) \/ Body(c) \/ Accept(c) \/ PeerGone(c) \/ Raise(c)

\* None of them begins or ends a release.
LEMMA AsideRefines ==
    ASSUME IInv, TypeOK', NEW c \in Clients, Aside(c)
    PROVE  T!Next
<1>1. UNCHANGED targetVars
  BY DEF Aside, Acquire, Send, LeaveScope, CountLoad, CountStore, Destroy, Boot, FreeDone,
     Idle, NestLock, NoTargetAnswer, Use, Rescan, UsePrintf, UseDone, Caught, BootLock,
     CmdLock, LostLock, AckWaitOver, Wake, Body, Accept, PeerGone, Raise, UsePutpacket2,
     Syscall, SyscallDone, Attached, Remote, RemoteDone, targetVars
<1>2. pc[c] # "release" /\ pc'[c] # "release"
      /\ \A d \in Clients \ {c} : pc'[d] = pc[d] /\ using'[d] = using[d]
  <2> USE DEF IInv, TypeOK, Labels, Goto, useVars
  <2>1. CASE Send(c)
    BY <2>1 DEF Send, SentTo, AtLabel
  <2>2. CASE LeaveScope(c)
    BY <2>2 DEF LeaveScope
  <2>3. CASE CountLoad(c)
    BY <2>3 DEF CountLoad
  <2>4. CASE CountStore(c)
    BY <2>4 DEF CountStore
  <2>5. CASE Destroy(c)
    BY <2>5 DEF Destroy
  <2>6. CASE Boot(c)
    BY <2>6 DEF Boot
  <2>7. CASE FreeDone(c)
    BY <2>7 DEF FreeDone
  <2>8. CASE Idle(c)
    BY <2>8 DEF Idle
  <2>9. CASE NestLock(c)
    BY <2>9 DEF NestLock
  <2>10. CASE NoTargetAnswer(c)
    BY <2>10 DEF NoTargetAnswer, Answer, SendThen
  <2>11. CASE Use(c)
    BY <2>11 DEF Use
  <2>12. CASE Rescan(c)
    BY <2>12 DEF Rescan
  <2>13. CASE UsePrintf(c)
    BY <2>13 DEF UsePrintf, InLibrary, SendThen
  <2>14. CASE UseDone(c)
    BY <2>14 DEF UseDone, InLibrary, Answer, SendThen
  <2>15. CASE Caught(c)
    BY <2>15 DEF Caught, SendThen
  <2>16. CASE BootLock(c)
    BY <2>16 DEF BootLock
  <2>17. CASE CmdLock(c)
    BY <2>17 DEF CmdLock
  <2>18. CASE LostLock(c)
    BY <2>18 DEF LostLock
  <2>19. CASE AckWaitOver(c)
    BY <2>19 DEF AckWaitOver, SentTo, AtLabel
  <2>20. CASE Wake(c)
    BY <2>20 DEF Wake
  <2>21. CASE Body(c)
    BY <2>21 DEF Body, SendThen
  <2>22. CASE Accept(c)
    BY <2>22 DEF Accept
  <2>23. CASE PeerGone(c)
    BY <2>23 DEF PeerGone
  <2>24. CASE Raise(c)
    BY <2>24 DEF Raise, InLibrary
  <2>25. CASE UsePutpacket2(c) \/ Syscall(c) \/ SyscallDone(c)
    BY <2>25 DEF UsePutpacket2, Syscall, SyscallDone, InLibrary, SendThen
  <2>26. CASE Attached(c) \/ Remote(c) \/ RemoteDone(c)
    BY <2>26 DEF Attached, Remote, RemoteDone, SendThen
  <2> QED
    BY <2>1, <2>2, <2>3, <2>4, <2>5, <2>6, <2>7, <2>8, <2>9, <2>10, <2>11, <2>12,
       <2>13, <2>14, <2>15, <2>16, <2>17, <2>18, <2>19, <2>20, <2>21, <2>22, <2>23, <2>24, <2>25, <2>26
       DEF Aside, Acquire
<1> QED
  BY <1>1, <1>2, ReleasedKept, HandsOver

\* The steps of task c that do more, one by one.
LEMMA TargetStepRefines ==
    ASSUME IInv, IInv', NEW c \in Clients,
           \/ Scan(c) \/ DestroyTarget(c) \/ Told(c) \/ Release(c)
           \/ Detach(c) \/ Reattach(c) \/ Attach(c)
    PROVE  [T!Next]_T!listVars
<1>1. Inside(c) /\ UNCHANGED owner
  BY DEF Scan, DestroyTarget, Told, Release, Detach, Reattach, Attach, Inside, InLibrary,
     lockVars
<1>2. owner = c /\ owner' = c
  <2>1. pc[c] \notin {"attached", "ack", "wait"} /\ ~Ending(c)
    BY DEF Scan, DestroyTarget, Told, Release, Detach, Reattach, Attach, InLibrary, Ending
  <2> QED
    BY <1>1, <2>1 DEF IInv, AtLabel, InScope
<1>3. /\ Released = IF pc[c] = "release" THEN {using[c]} ELSE {}
      /\ Released' = IF pc'[c] = "release" THEN {using'[c]} ELSE {}
  <2>1. Released = IF pc[c] = "release" THEN {using[c]} ELSE {}
    BY <1>2, ReleasedByOwner
  <2>2. \A d \in Clients : pc'[d] = "release" => d = c
    BY <1>2 DEF IInv, AtLabel, InScope, Inside, Ending
  <2> QED
    BY <2>1, <2>2 DEF Released
<1>4. TypeOK /\ NoDanglingTarget
  BY DEF IInv
<1> USE <1>2, <1>3, <1>4, ServerConstants
    DEF TypeOK, Labels, Goto, useVars, T!Find, T!Attach, T!Detach, T!Destroy
<1>5. CASE Scan(c)
  <2>1. PICK found \in SUBSET (Targets \ list) :
            /\ list' = list \cup found
            /\ \/ UNCHANGED cur_target
               \/ cur_target' \in found \cup {NoTarget}
    BY <1>5 DEF Scan
  <2>2. T!Find(found)
    BY <1>5, <2>1 DEF Scan
  <2> QED
    BY <2>2, OwnerSteps
<1>6. CASE DestroyTarget(c)
  <2>1. PICK t \in list :
            /\ using' = [using EXCEPT ![c] = t]
            /\ IF cur_target = t
               THEN SendThen(c, "told") /\ UNCHANGED last_target
               ELSE ForgetLast(t) /\ Goto(c, "release") /\ UNCHANGED packetVars
    BY <1>6 DEF DestroyTarget
  <2>2. CASE cur_target = t
    <3>1. UNCHANGED targetVars /\ Released' = Released
      BY <1>6, <2>1, <2>2 DEF DestroyTarget, SendThen, targetVars
    <3> QED
      BY <3>1, HandsOver DEF IInv
  <2>3. CASE cur_target # t
    <3>1. T!Destroy(t)
      BY <1>6, <2>1, <2>3 DEF DestroyTarget, ForgetLast
    <3> QED
      BY <3>1, OwnerSteps
  <2> QED
    BY <2>2, <2>3
<1>7. CASE Told(c)
  <2>1. using[c] \in Targets
    BY <1>7 DEF Told, IInv, AtLabel
  <2>2. T!Destroy(using[c])
    BY <1>7, <2>1 DEF Told, ForgetLast
  <2> QED
    BY <2>1, <2>2, OwnerSteps
<1>8. CASE Release(c)
  BY <1>8 DEF Release, T!listVars, T!pointers
<1>9. CASE Detach(c)
  <2>1. T!Detach
    BY <1>9 DEF Detach, InLibrary, Answer, SendThen
  <2> QED
    BY <2>1, OwnerSteps
<1>10. CASE Reattach(c)
  <2>1. T!Attach
    BY <1>10 DEF Reattach, Answer, SendThen, NoDanglingTarget
  <2> QED
    BY <2>1, OwnerSteps
<1>11. CASE Attach(c)
  <2>1. T!Attach
    BY <1>11 DEF Attach, SendThen
  <2> QED
    BY <2>1, OwnerSteps
<1> QED
  BY <1>5, <1>6, <1>7, <1>8, <1>9, <1>10, <1>11

\* To every client, for any number of them and of targets, each command is one step
\* on the pointers and the list; a target that is destroyed is gone for all of them
\* at once, although its destroy callback gives the lock away in the middle.
THEOREM ServerImplementsTargetList == Spec => ImplementsTargetList
<1>1. Init => T!Init
  BY DEF Init, T!Init, Lock!Init, Released
<1>2. IInv /\ [Next]_vars /\ IInv' => [T!Next]_T!listVars
  <2> SUFFICES ASSUME IInv, IInv', [Next]_vars PROVE [T!Next]_T!listVars
    OBVIOUS
  <2>1. CASE UNCHANGED vars
    BY <2>1 DEF vars, lockVars, targetVars, useVars, T!listVars, T!pointers, Released
  <2>2. ASSUME NEW c \in Clients, Aside(c) PROVE T!Next
    BY <2>2, AsideRefines DEF IInv
  <2>3. ASSUME NEW c \in Clients,
               \/ Scan(c) \/ DestroyTarget(c) \/ Told(c) \/ Release(c)
               \/ Detach(c) \/ Reattach(c) \/ Attach(c)
        PROVE  [T!Next]_T!listVars
    BY <2>3, TargetStepRefines
  <2> QED
    BY <2>1, <2>2, <2>3 DEF Next, Run, Peer, Command, Aside
<1> QED
  BY <1>1, <1>2, ServerInvariant, PTL DEF Spec, ImplementsTargetList, T!Spec

(***************************************************************************)
(* The number of clients.  num_clients++ and num_clients-- take no lock;   *)
(* what goes wrong with them goes wrong only when two of them overlap.     *)
(***************************************************************************)
\* No two tasks are between the load and the store of num_clients.
UpdatesApart ==
    \A c, d \in Clients : pc[c] \in {"count", "dec"} /\ pc[d] \in {"count", "dec"} => c = d

\* The number is that of the clients that were counted, and a task that is updating
\* it has read its present value.
CountOK == /\ IsFiniteSet(Counted)
           /\ num_clients = Cardinality(Counted)
           /\ \A c \in Clients : pc[c] \in {"count", "dec"} => reg[c] = num_clients

\* Where every other step takes its task, as far as counting goes.
LEMMA CountedKept ==
    ASSUME IInv, NEW c \in Clients, ~CountLoad(c), ~CountStore(c),
           Run(c) \/ Acquire(c) \/ Peer(c) \/ Accept(c) \/ PeerGone(c) \/ Raise(c)
    PROVE  /\ UNCHANGED countVars
           /\ pc'[c] \notin {"count", "dec"}
           /\ pc[c] \in {"off", "start", "count", "broken"}
                 <=> pc'[c] \in {"off", "start", "count", "broken"}
           /\ \A d \in Clients \ {c} : pc'[d] = pc[d]
<1> USE DEF IInv, TypeOK, AtLabel, Goto, countVars, SentTo, SendThen, Answer, InLibrary
<1>1. CASE LeaveScope(c) \/ Destroy(c) \/ Boot(c) \/ Scan(c) \/ DestroyTarget(c)
  BY <1>1 DEF LeaveScope, Destroy, Boot, Scan, DestroyTarget
<1>2. CASE Told(c) \/ Release(c) \/ FreeDone(c) \/ Idle(c) \/ UsePrintf(c) \/ UseDone(c)
           \/ UsePutpacket2(c) \/ Syscall(c) \/ Attached(c) \/ Caught(c)
  BY <1>2 DEF Told, Release, FreeDone, Idle, UsePrintf, UseDone, UsePutpacket2, Syscall,
     Attached, Caught
<1>3. CASE Command(c)
  BY <1>3 DEF Command, NestLock, NoTargetAnswer, Use, Detach, Reattach, Attach, Rescan,
     Remote
<1>4. CASE Acquire(c)
  BY <1>4 DEF Acquire, BootLock, CmdLock, LostLock, AckWaitOver, Wake
<1>5. CASE Peer(c) \/ Accept(c) \/ PeerGone(c) \/ Raise(c)
  BY <1>5 DEF Peer, Send, Body, SyscallDone, RemoteDone, Accept, PeerGone, Raise
<1> QED
  BY <1>1, <1>2, <1>3, <1>4, <1>5 DEF Run

\* A step that does not overlap with an update of another task keeps the count.
LEMMA CountKept ==
  IInv /\ CountOK /\ UpdatesApart /\ [Next]_vars => CountOK'
<1> SUFFICES ASSUME IInv, CountOK, UpdatesApart, [Next]_vars PROVE CountOK'
  OBVIOUS
<1>1. CASE UNCHANGED vars
  BY <1>1 DEF vars, countVars, CountOK, Counted
<1>2. CASE Next
  <2> PICK c \in Clients : Run(c) \/ Acquire(c) \/ Peer(c) \/ Accept(c) \/ PeerGone(c) \/ Raise(c)
    BY <1>2 DEF Next
  <2>1. CASE CountLoad(c)
    <3>1. /\ UNCHANGED num_clients /\ reg'[c] = num_clients
          /\ pc[c] \in {"start", "dying"} /\ pc'[c] = IF pc[c] = "start" THEN "count" ELSE "dec"
          /\ \A d \in Clients \ {c} : pc'[d] = pc[d] /\ reg'[d] = reg[d]
      BY <2>1 DEF CountLoad, Goto, IInv, TypeOK
    <3>2. Counted' = Counted
      BY <3>1 DEF Counted
    <3> QED
      BY <3>1, <3>2 DEF CountOK
  <2>2. CASE CountStore(c)
    <3>1. /\ reg[c] = num_clients
          /\ \A d \in Clients \ {c} : pc'[d] = pc[d] /\ reg'[d] = reg[d]
      BY <2>2 DEF CountStore, Goto, CountOK, IInv, TypeOK
    <3>2. \A d \in Clients : pc'[d] \notin {"count", "dec"}
      BY <2>2, <3>1 DEF CountStore, Goto, UpdatesApart, IInv, TypeOK
    <3>3. CASE pc[c] = "count"
      <4>1. Counted' = Counted \cup {c} /\ c \notin Counted /\ num_clients' = num_clients + 1
        BY <2>2, <3>1, <3>3 DEF CountStore, Goto, Counted, IInv, TypeOK
      <4> QED
        BY <3>2, <4>1, FS_AddElement DEF CountOK
    <3>4. CASE pc[c] = "dec"
      <4>1. Counted' = Counted \ {c} /\ c \in Counted /\ num_clients' = num_clients - 1
        BY <2>2, <3>1, <3>4 DEF CountStore, Goto, Counted, IInv, TypeOK
      <4> QED
        BY <3>2, <4>1, FS_RemoveElement DEF CountOK
    <3> QED
      BY <2>2, <3>3, <3>4 DEF CountStore
  <2>3. CASE ~CountLoad(c) /\ ~CountStore(c)
    <3>1. Counted' = Counted
      BY <2>3, CountedKept DEF Counted
    <3> QED
      BY <2>3, <3>1, CountedKept DEF CountOK, countVars
  <2> QED
    BY <2>1, <2>2, <2>3
<1> QED
  BY <1>1, <1>2

\* Nobody is counted at first.
LEMMA CountInit == Init => CountOK
<1> SUFFICES ASSUME Init PROVE CountOK
  OBVIOUS
<1>1. Counted = {}
  BY DEF Init, Counted
<1> QED
  BY <1>1, FS_EmptySet DEF Init, CountOK

\* num_clients is the number of clients that have been counted for as long as no two
\* updates of it overlap, whatever else the tasks do in between (gdb_if.cpp 131, 161).
THEOREM CountExactWhenApart ==
    Spec /\ []UpdatesApart => [](num_clients = Cardinality(Counted))
<1>1. CountOK => num_clients = Cardinality(Counted)
  BY DEF CountOK
<1> QED
  BY <1>1, CountInit, CountKept, ServerInvariant, PTL DEF Spec

\* One client always finds the scan, and so the attach, of its connection made: for
\* the finding it takes a second client.
THEOREM SingleClientScans == (\A c, d \in Clients : c = d) => (Spec => []AutoAttach)
<1> SUFFICES ASSUME \A c, d \in Clients : c = d PROVE Spec => []AutoAttach
  OBVIOUS
<1>1. UpdatesApart
  BY DEF UpdatesApart
<1>2. CountOK => AutoAttach
  <2> SUFFICES ASSUME CountOK, NEW c \in Clients, pc[c] = "boot" PROVE MustScan
    BY DEF AutoAttach
  <2>1. Counted = {c}
    BY DEF Counted
  <2> QED
    BY <2>1, FS_Singleton DEF CountOK, MustScan
<1> QED
  BY <1>1, <1>2, CountInit, CountKept, ServerInvariant, PTL DEF Spec
=============================================================================

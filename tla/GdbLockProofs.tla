---------------------------- MODULE GdbLockProofs ----------------------------
(***************************************************************************)
(* For any set of tasks and any bounds, the lock of gdb_if.cpp keeps its   *)
(* invariants and implements the monitor.  Everything follows from IInv:   *)
(* who holds the mutex and what the counter is at each label.              *)
(***************************************************************************)
EXTENDS GdbLock, TLAPS

\* A step of another task leaves what holds at u's label alone when it changes
\* neither u's part of the state nor, while u holds the mutex, the counter.
LEMMA Frame ==
    ASSUME NEW u \in Tasks, AtLabel(u),
           pc'[u] = pc[u], state'[u] = state[u], scopes'[u] = scopes[u],
           holder' = u <=> holder = u,
           holder = u => lockcount' = lockcount
    PROVE  AtLabel(u)'
  BY DEF AtLabel

\* No task exists at first, and the mutex is free.
LEMMA InitIInv == Init => IInv
  BY LockAssumption DEF Init, IInv, TypeOK, Labels, AtLabel

\* Every step of the lock keeps the inductive invariant.
LEMMA NextIInv == IInv /\ [Next]_vars => IInv'
<1> SUFFICES ASSUME IInv, [Next]_vars PROVE IInv'
  OBVIOUS
<1> USE DEF IInv, TypeOK
<1>1. CASE UNCHANGED vars
  BY <1>1 DEF vars, AtLabel
<1>2. CASE Next
  <2> PICK t \in Tasks :
            \/ LockCall(t) \/ Take(t) \/ UnlockCall(t) \/ Inner(t)
            \/ BreakCall(t) \/ Restore(t) \/ Retake(t)
            \/ Raise(t) \/ Block(t) \/ Unblock(t)
            \/ Connect(t) \/ PeerGone(t)
    BY <1>2 DEF Next
  <2> USE LockAssumption DEF Goto, Labels
  <2>0. ASSUME TypeOK', holder' = NoTask => lockcount' = 0, AtLabel(t)',
               \A u \in Tasks \ {t} :
                   /\ pc'[u] = pc[u] /\ state'[u] = state[u] /\ scopes'[u] = scopes[u]
                   /\ holder' = u <=> holder = u
                   /\ holder = u => lockcount' = lockcount
        PROVE  IInv'
    BY <2>0, Frame
  <2>1. CASE LockCall(t)
    BY <2>0, <2>1 DEF LockCall, AtLabel
  <2>2. CASE Take(t)
    BY <2>0, <2>2 DEF Take, AtLabel
  <2>3. CASE UnlockCall(t)
    BY <2>0, <2>3 DEF UnlockCall, AtLabel
  <2>4. CASE Inc(t)
    BY <2>0, <2>4 DEF Inc, AtLabel
  <2>5. CASE Dec(t)
    BY <2>0, <2>5 DEF Dec, AtLabel
  <2>6. CASE GiveIfZero(t)
    BY <2>0, <2>6 DEF GiveIfZero, AtLabel
  <2>7. CASE Zero(t)
    BY <2>0, <2>7 DEF Zero, AtLabel
  <2>8. CASE Give(t)
    BY <2>0, <2>8 DEF Give, AtLabel
  <2>9. CASE SetCount(t)
    BY <2>0, <2>9 DEF SetCount, AtLabel
  <2>10. CASE DestroyCall(t)
    BY <2>0, <2>10 DEF DestroyCall, AtLabel
  <2>11. CASE DestroyZero(t)
    BY <2>0, <2>11 DEF DestroyZero, AtLabel
  <2>12. CASE DestroyGive(t)
    <3>1. /\ TypeOK'
          /\ holder = t /\ holder' = NoTask
          /\ lockcount = 0 /\ lockcount' = 0
      BY <2>12 DEF DestroyGive, AtLabel
    <3>2. AtLabel(t)'
      BY <2>12, <3>1 DEF DestroyGive, AtLabel
    <3> QED
      BY <2>0, <2>12, <3>1, <3>2 DEF DestroyGive
  <2>13. CASE BreakCall(t)
    BY <2>0, <2>13 DEF BreakCall, AtLabel
  <2>14. CASE Restore(t)
    BY <2>0, <2>14 DEF Restore, AtLabel
  <2>15. CASE Retake(t)
    BY <2>0, <2>15 DEF Retake, AtLabel
  <2>16. CASE Raise(t)
    BY <2>0, <2>16 DEF Raise, AtLabel
  <2>17. CASE Connect(t)
    BY <2>0, <2>17 DEF Connect, AtLabel
  <2>18. CASE PeerGone(t)
    BY <2>0, <2>18 DEF PeerGone, AtLabel
  <2>19. CASE Block(t) \/ Unblock(t)
    BY <2>0, <2>19 DEF Block, Unblock, AtLabel
  <2> QED
    BY <2>1, <2>2, <2>3, <2>4, <2>5, <2>6, <2>7, <2>8, <2>9, <2>10, <2>11,
       <2>12, <2>13, <2>14, <2>15, <2>16, <2>17, <2>18, <2>19 DEF Inner, Destroy
<1> QED
  BY <1>1, <1>2

\* The inductive invariant implies the properties of the lock.
LEMMA IInvImplies ==
    IInv => /\ TypeOK
            /\ MutualExclusion
            /\ OneWriter
            /\ CountCoversScopes
<1> SUFFICES ASSUME IInv
             PROVE  TypeOK /\ MutualExclusion /\ OneWriter /\ CountCoversScopes
  OBVIOUS
<1>1. MutualExclusion
  BY DEF IInv, AtLabel, MutualExclusion, Inside
<1>2. OneWriter
  BY DEF IInv, AtLabel, OneWriter
<1>3. CountCoversScopes
  BY DEF IInv, AtLabel, CountCoversScopes, Inside
<1> QED
  BY <1>1, <1>2, <1>3 DEF IInv

\* The inductive invariant holds in every reachable state.
THEOREM LockInvariant == Spec => []IInv
  BY InitIInv, NextIInv, PTL DEF Spec

\* The counter stays a natural number and every task at a known place, for any
\* number of clients.
THEOREM LockTypeCorrect == Spec => []TypeOK
  BY LockInvariant, IInvImplies, PTL

\* GDB_LOCK() excludes: two tasks are never inside it together, for any number of
\* clients, any nesting and any number of leaked counts.
THEOREM LockMutualExclusion == Spec => []MutualExclusion
  BY LockInvariant, IInvImplies, PTL

\* Only the holder of the mutex is ever about to touch the unprotected counter.
THEOREM LockOneWriter == Spec => []OneWriter
  BY LockInvariant, IInvImplies, PTL

\* The counter covers the scopes of its holder, and a free mutex has counter 0.
THEOREM LockCountCoversScopes == Spec => []CountCoversScopes
  BY LockInvariant, IInvImplies, PTL

\* A task that holds the mutex has not ended and is in none of the waits that need
\* it or gave it away: what keeps the lock from the others is a task that can run,
\* or one in a send() or recv() without timeout, the safety half of LockServed.
THEOREM LockHolderNeverWaits ==
    Spec => [](\A t \in Tasks : holder = t => pc[t] \notin {"off", "take", "io", "retake"})
<1>1. IInv => \A t \in Tasks : holder = t => pc[t] \notin {"off", "take", "io", "retake"}
  BY DEF IInv, AtLabel
<1> QED
  BY <1>1, LockInvariant, PTL

(***************************************************************************)
(* Refinement: the monitor's owner changes at Inc, Dec, Zero, SetCount and *)
(* DestroyZero; every other step of the lock is a step of nobody.          *)
(***************************************************************************)
\* At first nobody owns the monitor and nobody is in it.
LEMMA InitMonitor == Init => M!Init
  BY LockAssumption DEF Init, M!Init, Owner, Depth

\* A step that changes neither the mapped owner nor any depth is no step at all.
LEMMA MonitorStutter ==
    ASSUME Owner' = Owner, \A u \in Tasks : Depth'[u] = Depth[u]
    PROVE  UNCHANGED M!monitorVars
<1>1. Depth' = Depth
  BY DEF Depth
<1> QED
  BY <1>1 DEF M!monitorVars

\* What it takes to show that a step gives one task the depth n.
LEMMA DepthUpdate ==
    ASSUME NEW t \in Tasks, NEW n \in Nat,
           Depth'[t] = n,
           \A u \in Tasks \ {t} : Depth'[u] = Depth[u]
    PROVE  Depth' = [Depth EXCEPT ![t] = n]
  BY DEF Depth

\* Every step of the lock is a step of the monitor or none.
LEMMA NextMonitor == IInv /\ IInv' /\ [Next]_vars => [M!Next]_M!monitorVars
<1> SUFFICES ASSUME IInv, IInv', [Next]_vars PROVE [M!Next]_M!monitorVars
  OBVIOUS
<1> USE LockAssumption DEF IInv, TypeOK
<1>1. CASE UNCHANGED vars
  BY <1>1 DEF vars, M!monitorVars, Owner, Depth
<1>2. CASE Next
  <2> PICK t \in Tasks :
            \/ LockCall(t) \/ Take(t) \/ UnlockCall(t) \/ Inner(t)
            \/ BreakCall(t) \/ Restore(t) \/ Retake(t)
            \/ Raise(t) \/ Block(t) \/ Unblock(t)
            \/ Connect(t) \/ PeerGone(t)
    BY <1>2 DEF Next
  <2> USE DEF Goto
  <2>1. CASE LockCall(t) \/ UnlockCall(t) \/ Restore(t) \/ Raise(t)
             \/ Block(t) \/ Unblock(t) \/ Connect(t) \/ PeerGone(t)
    BY <2>1, MonitorStutter
       DEF LockCall, UnlockCall, Restore, Raise, Block, Unblock, Connect, PeerGone,
           Owner, Depth
  <2>2. CASE Take(t) \/ Retake(t)
    BY <2>2, MonitorStutter DEF Take, Retake, AtLabel, Owner, Depth
  <2>3. CASE Inc(t)
    <3>1. Owner \in {t, NoTask} /\ (Owner = NoTask => Depth[t] = 0) /\ Owner' = t
      BY <2>3 DEF Inc, AtLabel, Owner, Depth
    <3>2. Depth[t] \in Nat /\ Depth'[t] = Depth[t] + 1
      BY <2>3 DEF Inc, AtLabel, Owner, Depth
    <3>3. \A u \in Tasks \ {t} : Depth'[u] = Depth[u]
      BY <2>3 DEF Inc, AtLabel, Owner, Depth
    <3>4. Depth' = [Depth EXCEPT ![t] = Depth[t] + 1]
      BY <3>2, <3>3, DepthUpdate
    <3>5. M!Enter(t)
      BY <3>1, <3>4 DEF M!Enter
    <3> QED
      BY <3>5 DEF M!Next
  <2>4. CASE Dec(t)
    <3>1. Owner = t /\ Owner' = IF Depth[t] = 1 THEN NoTask ELSE t
      BY <2>4 DEF Dec, AtLabel, Owner, Depth
    <3>2. Depth[t] \in Nat /\ Depth[t] > 0 /\ Depth'[t] = Depth[t] - 1
      BY <2>4 DEF Dec, AtLabel, Owner, Depth
    <3>3. \A u \in Tasks \ {t} : Depth'[u] = Depth[u]
      BY <2>4 DEF Dec, AtLabel, Owner, Depth
    <3>4. Depth' = [Depth EXCEPT ![t] = Depth[t] - 1]
      BY <3>2, <3>3, DepthUpdate
    <3>5. M!Leave(t)
      BY <3>1, <3>2, <3>4 DEF M!Leave
    <3> QED
      BY <3>5 DEF M!Next
  <2>5. CASE GiveIfZero(t) \/ Give(t) \/ DestroyGive(t)
    BY <2>5, MonitorStutter
       DEF GiveIfZero, Give, DestroyGive, AtLabel, Owner, Depth
  <2>6. CASE Zero(t)
    <3>1. Owner = t /\ Owner' = NoTask
      BY <2>6 DEF Zero, AtLabel, Owner
    <3>2. Depth' = Depth
      BY <2>6 DEF Zero, AtLabel, Owner, Depth
    <3>3. M!Yield(t)
      BY <3>1, <3>2 DEF M!Yield
    <3> QED
      BY <3>3 DEF M!Next
  <2>7. CASE SetCount(t)
    <3>1. Owner = NoTask /\ Owner' = t /\ Depth[t] > 0
      BY <2>7 DEF SetCount, AtLabel, Owner, Depth
    <3>2. Depth' = Depth
      BY <2>7 DEF SetCount, AtLabel, Owner, Depth
    <3>3. M!Resume(t)
      BY <3>1, <3>2 DEF M!Resume
    <3> QED
      BY <3>3 DEF M!Next
  <2>8. CASE DestroyCall(t)
    <3>1. CASE holder = t
      BY <2>8, <3>1, MonitorStutter DEF DestroyCall, AtLabel, Owner, Depth
    <3>2. CASE holder # t
      <4>1. Owner # t /\ Owner' = Owner
        BY <2>8, <3>2 DEF DestroyCall, Owner
      <4>2. Depth'[t] = 0 /\ \A u \in Tasks \ {t} : Depth'[u] = Depth[u]
        BY <2>8, <3>2 DEF DestroyCall, Owner, Depth
      <4>3. Depth' = [Depth EXCEPT ![t] = 0]
        BY <4>2, DepthUpdate
      <4>4. M!Abandon(t)
        BY <4>1, <4>3 DEF M!Abandon
      <4> QED
        BY <4>4 DEF M!Next
    <3> QED
      BY <3>1, <3>2
  <2>9. CASE DestroyZero(t)
    <3>1. Owner = t /\ Owner' = NoTask
      BY <2>9 DEF DestroyZero, AtLabel, Owner
    <3>2. Depth'[t] = 0 /\ \A u \in Tasks \ {t} : Depth'[u] = Depth[u]
      BY <2>9 DEF DestroyZero, AtLabel, Owner, Depth
    <3>3. Depth' = [Depth EXCEPT ![t] = 0]
      BY <3>2, DepthUpdate
    <3>4. M!Abandon(t)
      BY <3>1, <3>3 DEF M!Abandon
    <3> QED
      BY <3>4 DEF M!Next
  <2>10. CASE BreakCall(t)
    BY <2>10, MonitorStutter DEF BreakCall, AtLabel, Owner, Depth
  <2> QED
    BY <2>1, <2>2, <2>3, <2>4, <2>5, <2>6, <2>7, <2>8, <2>9, <2>10
       DEF Inner, Destroy
<1> QED
  BY <1>1, <1>2

\* The lock of gdb_if.cpp implements the monitor, for any number of clients.
THEOREM LockImplementsMonitor == Spec => ImplementsMonitor
<1>1. IInv /\ IInv' /\ [Next]_vars => [M!Next]_M!monitorVars
  BY NextMonitor
<1> QED
  BY <1>1, InitMonitor, LockInvariant, PTL DEF Spec, ImplementsMonitor, M!Spec
=============================================================================

------------------------------- MODULE GdbLock -------------------------------
(***************************************************************************)
(* The lock of the GDB server (gdb_if.cpp, gdb_if.hpp) at the grain of its *)
(* reads and writes: one FreeRTOS mutex, which is not recursive, and one   *)
(* plain int next to it.  Client tasks have equal priority and are time    *)
(* sliced, so another task may run between any two steps.                  *)
(*                                                                         *)
(* A task uses the lock through scoped objects.  GDBLock locks in its      *)
(* constructor and unlocks in its destructor; GDBBreakLock gives the lock  *)
(* away for the duration of a wait on the socket.  An exception of the     *)
(* target library leaves by longjmp and runs no destructor, so the scopes  *)
(* disappear and the counter stays where it was.                           *)
(***************************************************************************)
EXTENDS Naturals

CONSTANTS
    Tasks,      \* client tasks, one per connection
    NoTask,     \* the mutex has no holder
    MaxDepth,   \* bound: GDBLock objects one task has at a time
    MaxCount    \* bound: value of the counter up to which exceptions may leak it

ASSUME LockAssumption == /\ NoTask \notin Tasks
                         /\ MaxDepth \in Nat
                         /\ MaxCount \in Nat

VARIABLES
    holder,     \* xSemaphoreGetMutexHolder(gdb_mutex)
    lockcount,  \* gdb_mutex_lockcount
    pc,         \* where each task is
    state,      \* GDBBreakLock::state of each task, 0 outside a wait
    scopes      \* the GDBLock objects alive on each task's stack

vars == <<holder, lockcount, pc, state, scopes>>

\* off: no task.  run: the task's own code.  peer: blocked in that code, in a send()
\* or recv() that has no timeout.  io: waiting for its peer, the lock broken.  The
\* others are inside the four functions and inside destroy().
Labels == {"off", "run", "peer", "take", "inc", "dec", "test", "zero", "give", "io",
           "retake", "set", "destroy", "dzero", "dgive"}

Goto(t, l) == pc' = [pc EXCEPT ![t] = l]

Init == /\ holder = NoTask
        /\ lockcount = 0
        /\ pc = [t \in Tasks |-> "off"]
        /\ state = [t \in Tasks |-> 0]
        /\ scopes = [t \in Tasks |-> 0]

(***************************************************************************)
(* gdb_lock() and gdb_unlock().                                            *)
(***************************************************************************)
\* Mutant: any holder counts as "already mine".
LockCallMutant(t) == /\ pc[t] = "run"
                     /\ scopes[t] < MaxDepth
                     /\ lockcount < MaxCount + MaxDepth
                     /\ Goto(t, IF holder # NoTask THEN "inc" ELSE "take")
                     /\ UNCHANGED <<holder, lockcount, state, scopes>>

LockCall(t) == /\ pc[t] = "run"
               /\ scopes[t] < MaxDepth
               /\ lockcount < MaxCount + MaxDepth
               /\ Goto(t, IF holder = t THEN "inc" ELSE "take")
               /\ UNCHANGED <<holder, lockcount, state, scopes>>

Take(t) == /\ pc[t] = "take"
           /\ holder = NoTask
           /\ holder' = t
           /\ Goto(t, "inc")
           /\ UNCHANGED <<lockcount, state, scopes>>

Inc(t) == /\ pc[t] = "inc"
          /\ lockcount' = lockcount + 1
          /\ scopes' = [scopes EXCEPT ![t] = @ + 1]
          /\ Goto(t, "run")
          /\ UNCHANGED <<holder, state>>

\* The destructor of the innermost GDBLock; a caller that does not hold the mutex
\* leaves it alone.
UnlockCall(t) == /\ pc[t] = "run"
                 /\ scopes[t] > 0
                 /\ scopes' = [scopes EXCEPT ![t] = @ - 1]
                 /\ Goto(t, IF holder = t THEN "dec" ELSE "run")
                 /\ UNCHANGED <<holder, lockcount, state>>

Dec(t) == /\ pc[t] = "dec"
          /\ lockcount' = lockcount - 1
          /\ Goto(t, "test")
          /\ UNCHANGED <<holder, state, scopes>>

\* Mutant: the mutex is given at every unlock.
GiveAlwaysMutant(t) == /\ pc[t] = "test"
                       /\ holder' = NoTask
                       /\ Goto(t, "run")
                       /\ UNCHANGED <<lockcount, state, scopes>>

GiveIfZero(t) == /\ pc[t] = "test"
                 /\ holder' = IF lockcount = 0 THEN NoTask ELSE holder
                 /\ Goto(t, "run")
                 /\ UNCHANGED <<lockcount, state, scopes>>

(***************************************************************************)
(* gdb_breaklock() and gdb_restorelock() around a wait on the socket.      *)
(***************************************************************************)
BreakCall(t) == /\ pc[t] = "run"
                /\ state' = [state EXCEPT ![t] = IF holder = t THEN lockcount ELSE 0]
                /\ Goto(t, IF holder = t THEN "zero" ELSE "io")
                /\ UNCHANGED <<holder, lockcount, scopes>>

Zero(t) == /\ pc[t] = "zero"
           /\ lockcount' = 0
           /\ Goto(t, "give")
           /\ UNCHANGED <<holder, state, scopes>>

Give(t) == /\ pc[t] = "give"
           /\ holder' = NoTask
           /\ Goto(t, "io")
           /\ UNCHANGED <<lockcount, state, scopes>>

\* The wait is over: a character came or the time ran out.
Restore(t) == /\ pc[t] = "io"
              /\ Goto(t, IF state[t] = 0 THEN "run" ELSE "retake")
              /\ UNCHANGED <<holder, lockcount, state, scopes>>

Retake(t) == /\ pc[t] = "retake"
             /\ holder = NoTask
             /\ holder' = t
             /\ Goto(t, "set")
             /\ UNCHANGED <<lockcount, state, scopes>>

\* Mutant: the wait gives the lock back without its count.
SetNothingMutant(t) == /\ pc[t] = "set"
                       /\ state' = [state EXCEPT ![t] = 0]
                       /\ Goto(t, "run")
                       /\ UNCHANGED <<holder, lockcount, scopes>>

\* Mutant: the wait gives the lock back one level deep.
SetOneMutant(t) == /\ pc[t] = "set"
                   /\ lockcount' = 1
                   /\ state' = [state EXCEPT ![t] = 0]
                   /\ Goto(t, "run")
                   /\ UNCHANGED <<holder, scopes>>

SetCount(t) == /\ pc[t] = "set"
               /\ lockcount' = state[t]
               /\ state' = [state EXCEPT ![t] = 0]
               /\ Goto(t, "run")
               /\ UNCHANGED <<holder, scopes>>

(***************************************************************************)
(* raise_exception() under a lock: longjmp to the handler in task() (or in *)
(* gdb_main_loop), no destructor runs.                                     *)
(***************************************************************************)
Raise(t) == /\ pc[t] = "run"
            /\ scopes[t] > 0
            /\ lockcount <= MaxCount
            /\ scopes' = [scopes EXCEPT ![t] = 0]
            /\ UNCHANGED <<holder, lockcount, pc, state>>

(***************************************************************************)
(* A send() waits for room in the send buffer, and the recv() of the rest  *)
(* of a packet for its characters; neither has a timeout and neither       *)
(* breaks the lock.  They return when the peer reads, or writes.           *)
(***************************************************************************)
Block(t) == /\ pc[t] = "run"
            /\ Goto(t, "peer")
            /\ UNCHANGED <<holder, lockcount, state, scopes>>

Unblock(t) == /\ pc[t] = "peer"
              /\ Goto(t, "run")
              /\ UNCHANGED <<holder, lockcount, state, scopes>>

(***************************************************************************)
(* A connection comes and goes.  recv fails while the lock is broken or    *)
(* while the task runs, send only while it runs; destroy() breaks the lock *)
(* for good and deletes the task, whose scopes and saved state go with its *)
(* stack.                                                                  *)
(***************************************************************************)
Connect(t) == /\ pc[t] = "off"
              /\ Goto(t, "run")
              /\ UNCHANGED <<holder, lockcount, state, scopes>>

PeerGone(t) == /\ pc[t] \in {"run", "peer", "io"}
               /\ Goto(t, "destroy")
               /\ UNCHANGED <<holder, lockcount, state, scopes>>

\* Mutant: the task is deleted without breaking its lock.
DestroyKeepsMutant(t) == /\ pc[t] = "destroy"
                         /\ state' = [state EXCEPT ![t] = 0]
                         /\ scopes' = [scopes EXCEPT ![t] = 0]
                         /\ Goto(t, "off")
                         /\ UNCHANGED <<holder, lockcount>>

DestroyCall(t) == /\ pc[t] = "destroy"
                  /\ state' = [state EXCEPT ![t] = 0]
                  /\ scopes' = [scopes EXCEPT ![t] = 0]
                  /\ Goto(t, IF holder = t THEN "dzero" ELSE "off")
                  /\ UNCHANGED <<holder, lockcount>>

\* Mutant: the mutex is given with the dead task's count.
DestroyStaleMutant(t) == /\ pc[t] = "dzero"
                         /\ Goto(t, "dgive")
                         /\ UNCHANGED <<holder, lockcount, state, scopes>>

DestroyZero(t) == /\ pc[t] = "dzero"
                  /\ lockcount' = 0
                  /\ Goto(t, "dgive")
                  /\ UNCHANGED <<holder, state, scopes>>

DestroyGive(t) == /\ pc[t] = "dgive"
                  /\ holder' = NoTask
                  /\ Goto(t, "off")
                  /\ UNCHANGED <<lockcount, state, scopes>>

Destroy(t) == DestroyCall(t) \/ DestroyZero(t) \/ DestroyGive(t)

\* The steps inside the functions that never wait.
Inner(t) == \/ Inc(t) \/ Dec(t) \/ GiveIfZero(t)
            \/ Zero(t) \/ Give(t) \/ SetCount(t) \/ Destroy(t)

Next == \E t \in Tasks :
            \/ LockCall(t) \/ Take(t) \/ UnlockCall(t) \/ Inner(t)
            \/ BreakCall(t) \/ Restore(t) \/ Retake(t)
            \/ Raise(t) \/ Block(t) \/ Unblock(t)
            \/ Connect(t) \/ PeerGone(t)

(***************************************************************************)
(* Fairness.  Every task is scheduled (equal priority, time slicing), and  *)
(* a wait with the lock broken ends (it is a select with a timeout).  The  *)
(* handlers are finite, so a task that is not blocked for ever comes back  *)
(* to getchar_to, the only way round the main loop.  The mutex goes to the *)
(* task that has waited longest, so one that becomes free over and over is *)
(* taken.  Nothing is assumed of Unblock: that is the peer's doing.        *)
(***************************************************************************)
Fairness == \A t \in Tasks :
                /\ WF_vars(Inner(t))
                /\ WF_vars(Restore(t))
                /\ SF_vars(BreakCall(t))
                /\ SF_vars(Take(t))
                /\ SF_vars(Retake(t))

Spec == Init /\ [][Next]_vars

FairSpec == Spec /\ Fairness

(***************************************************************************)
(* The properties.                                                         *)
(***************************************************************************)
\* Every variable has its type: the counter never goes below zero.
TypeOK == /\ holder \in Tasks \cup {NoTask}
          /\ lockcount \in Nat
          /\ pc \in [Tasks -> Labels]
          /\ state \in [Tasks -> Nat]
          /\ scopes \in [Tasks -> Nat]

\* Inside(t): code of t that a GDBLock of its own protects is executing.
Inside(t) == pc[t] \in {"run", "peer"} /\ scopes[t] > 0

\* No two tasks are inside code protected by GDB_LOCK() at the same time, whatever
\* they did before: waited with the lock broken, lost scopes to an exception, or
\* took over after a task that was destroyed.
MutualExclusion == \A t, u \in Tasks : Inside(t) /\ Inside(u) => t = u

\* The int next to the mutex has no lock of its own.  Only the task that holds the
\* mutex is ever about to read or write it, so no update of it is lost.
OneWriter ==
    \A t \in Tasks :
        pc[t] \in {"inc", "dec", "test", "zero", "set", "dzero"} => holder = t

\* The counter is never below the number of GDBLock objects its holder has alive:
\* the lock cannot be given away under a scope that still counts on it.  A free
\* mutex has counter 0, so the next task starts from a clean count.
CountCoversScopes ==
    /\ holder = NoTask => lockcount = 0
    /\ \A t \in Tasks : Inside(t) => lockcount >= scopes[t]

\* Stuck(t): t holds the mutex and waits for its peer, which may neither read nor
\* write nor go away.
Stuck(t) == holder = t /\ pc[t] = "peer"

\* A task that has called gdb_lock(), or wants back the lock it gave away for a
\* wait, gets it, if no task stays for ever in a send() or recv() with the mutex:
\* that is the only way to keep it, exceptions under the lock and deleted holders
\* included.
LockServed ==
    (\A u \in Tasks : []<>~Stuck(u)) =>
        \A t \in Tasks, l \in {"take", "retake"} : pc[t] = l ~> pc[t] # l

(***************************************************************************)
(* The lock implements the monitor: its owner is the holder with a nonzero *)
(* counter, and the depth of a task is the counter while it owns the lock  *)
(* and the value that GDBBreakLock saved while it waits.                   *)
(***************************************************************************)
Owner == IF holder # NoTask /\ lockcount > 0 THEN holder ELSE NoTask

Depth == [t \in Tasks |-> IF Owner = t THEN lockcount ELSE state[t]]

M == INSTANCE Monitor WITH owner <- Owner, nest <- Depth

\* Every step of the four functions is a step of the monitor or none: one task at a
\* time is in it, and a wait gives back exactly the depth it took away.
ImplementsMonitor == M!Spec

(***************************************************************************)
(* The inductive invariant: which task holds the mutex and what the        *)
(* counter is, at each place a task can be.                                *)
(***************************************************************************)
\* What holds while task t is at its label.
AtLabel(t) ==
    /\ pc[t] \in {"inc", "dec", "test", "zero", "give", "set", "dzero", "dgive"}
            => holder = t
    /\ pc[t] \in {"off", "take", "io", "retake"} => holder # t
    /\ pc[t] \in {"off", "take", "dzero", "dgive"} => scopes[t] = 0
    /\ pc[t] \in {"give", "set", "dgive"} => lockcount = 0
    /\ pc[t] \in {"zero", "dzero"} => lockcount > 0
    /\ pc[t] = "dec" => lockcount > scopes[t]
    /\ holder = t /\ pc[t] \in {"run", "peer", "destroy"} => lockcount > 0
    /\ holder = t /\ pc[t] \in {"run", "peer", "inc", "test", "destroy"}
            => lockcount >= scopes[t]
    /\ pc[t] \in {"run", "peer"} /\ scopes[t] > 0 => holder = t
    /\ pc[t] = "zero" => state[t] = lockcount
    /\ pc[t] \in {"zero", "give", "io", "retake", "set"} => state[t] >= scopes[t]
    /\ pc[t] \in {"give", "retake", "set"} => state[t] > 0
    /\ pc[t] \notin {"zero", "give", "io", "retake", "set", "destroy"} => state[t] = 0

\* The types, a free mutex has count 0, and every task is where its label says it is:
\* together enough for every step of gdb_lock .. gdb_restorelock to keep them.
IInv == /\ TypeOK
        /\ holder = NoTask => lockcount = 0
        /\ \A t \in Tasks : AtLabel(t)
=============================================================================

------------------------------ MODULE GdbServer ------------------------------
(***************************************************************************)
(* The sessions of the GDB server: one task per connection (gdb_if.cpp),   *)
(* all of them running gdb_main_loop (gdb_main.cpp) over the same two      *)
(* static pointers, cur_target and last_target, and the same target list   *)
(* of the blackmagic library.  The GDB lock is the monitor that GdbLock    *)
(* implements.                                                             *)
(*                                                                         *)
(* A packet sent in ack mode waits for its '+' with the lock broken        *)
(* (gdb_putpacket calls gdb_if_getchar_to), so every send under the lock   *)
(* lets other clients in -- also the one in the destroy callback of a      *)
(* target, and the ones of the library's printf in the middle of a target  *)
(* access.  A semihosting call goes further: in the middle of a library    *)
(* call the client's main loop starts anew, and ends with GDB's answer.    *)
(* An exception of the library is a longjmp to task(): it skips the        *)
(* destructors of the GDBLock objects.                                     *)
(*                                                                         *)
(* The library (scan, attach, target_list_free, raise_exception in target  *)
(* accesses) is external: a scan frees the list and lists what it finds,   *)
(* target_list_free calls the destroy callback of each target and then     *)
(* frees it, attach takes a listed target or fails, any access may raise,  *)
(* and a remote packet leaves the list alone.                              *)
(***************************************************************************)
EXTENDS Integers, FiniteSets

CONSTANTS
    Clients,    \* connections that may exist at a time
    NoClient,   \* nobody owns the lock
    Targets,    \* addresses at which the library may place a target
    NoTarget,   \* NULL
    Callbacks,  \* bound: clients for which the library makes semihosting calls and
                \* uses gdb_putpacket2
    NoAckers,   \* bound: clients that may ask for no-ack mode
    Retries,    \* resends of a packet that gets no '+' (3 in the code)
    MaxLeak,    \* bound: depth up to which an exception may leak the lock
    MaxDrift    \* bound: how far num_clients may drift from the number of clients

ASSUME ServerAssumption == /\ NoClient \notin Clients
                           /\ NoTarget \notin Targets
                           /\ Callbacks \subseteq Clients /\ NoAckers \subseteq Clients
                           /\ Retries \in Nat /\ MaxLeak \in Nat /\ MaxDrift \in Nat

VARIABLES
    pc,             \* where each client's task is
    owner, nest,    \* the GDB lock (Monitor)
    scopes,         \* GDBLock objects alive on each task's stack
    num_clients,    \* GDB::num_clients
    reg,            \* the register of a task that is updating num_clients
    cur_target,     \* the target being debugged
    last_target,    \* the target that was detached from
    list,           \* the targets in the library's target list
    using,          \* the target a task passed to the library, NoTarget if none
    outer,          \* the target of the library call a main loop runs inside of
    job,            \* what a task frees the list for
    then,           \* where a task goes on when its packet is sent
    tries,          \* resends of the packet being sent
    no_ack          \* no_ack_mode of each client

lockVars == <<owner, nest>>
targetVars == <<cur_target, last_target, list>>
countVars == <<num_clients, reg>>
useVars == <<using, outer>>
packetVars == <<then, tries>>
vars == <<pc, lockVars, scopes, countVars, targetVars, useVars, job, packetVars, no_ack>>

Lock == INSTANCE Monitor WITH Tasks <- Clients, NoTask <- NoClient

Labels == {"off", "start", "count", "enter", "boot", "free", "told", "release",
           "scan", "leave", "idle", "wait", "body", "attached", "cmd", "hand", "remote",
           "use", "resumed", "put", "ack", "caught", "lost", "dying", "dec", "broken"}

\* A main loop inside a library call keeps the scope of that call.
Base(c) == IF outer[c] = NoTarget THEN 0 ELSE 1

Jobs == {"none", "boot", "monitor", "lost"}

Goto(c, l) == pc' = [pc EXCEPT ![c] = l]

Init == /\ pc = [c \in Clients |-> "off"]
        /\ Lock!Init
        /\ scopes = [c \in Clients |-> 0]
        /\ num_clients = 0
        /\ reg = [c \in Clients |-> 0]
        /\ cur_target = NoTarget
        /\ last_target = NoTarget
        /\ list = {}
        /\ using = [c \in Clients |-> NoTarget]
        /\ outer = [c \in Clients |-> NoTarget]
        /\ job = [c \in Clients |-> "none"]
        /\ then = [c \in Clients |-> "idle"]
        /\ tries = [c \in Clients |-> 0]
        /\ no_ack = [c \in Clients |-> FALSE]

(***************************************************************************)
(* GDBLock, GDBBreakLock, and sending a packet.                            *)
(***************************************************************************)
\* GDB_LOCK(): one more scope.
LockScope(c) == /\ Lock!Enter(c)
                /\ scopes' = [scopes EXCEPT ![c] = @ + 1]

\* Mutant: the wait keeps the lock.
BreakNothingMutant(c) == UNCHANGED lockVars

BreakLock(c) == IF owner = c THEN Lock!Yield(c) ELSE UNCHANGED lockVars

\* Mutant: the wait does not take the lock back.
RestoreNothingMutant(c) == UNCHANGED lockVars

RestoreLock(c) == IF nest[c] = 0 THEN UNCHANGED lockVars ELSE Lock!Resume(c)

\* gdb_putpacket: the task goes on at label l when the packet is sent.
SendThen(c, l) == /\ then' = [then EXCEPT ![c] = l]
                  /\ Goto(c, "put")
                  /\ UNCHANGED tries

\* Nothing is left of a packet that is done.
SentTo(c) == /\ Goto(c, then[c])
             /\ then' = [then EXCEPT ![c] = "idle"]
             /\ tries' = [tries EXCEPT ![c] = 0]

\* gdb_putpacket2 waits for a '+' in no-ack mode too; only the library uses it.
AwaitsAck(c) == ~no_ack[c] \/ then[c] = "resumed"

\* Mutant: the packet waits for its '+' in no-ack mode too.
SendWaitsMutant(c) ==
    /\ pc[c] = "put"
    /\ Goto(c, "ack") /\ BreakLock(c) /\ UNCHANGED packetVars
    /\ UNCHANGED <<scopes, countVars, targetVars, useVars, job, no_ack>>

\* send() has taken the bytes, however long that took; in ack mode
\* gdb_if_getchar_to(2000) breaks the lock.
Send(c) == /\ pc[c] = "put"
           /\ IF AwaitsAck(c)
              THEN Goto(c, "ack") /\ BreakLock(c) /\ UNCHANGED packetVars
              ELSE SentTo(c) /\ UNCHANGED lockVars
           /\ UNCHANGED <<scopes, countVars, targetVars, useVars, job, no_ack>>

\* Mutant: one resend too many.
ResendMutant(c) ==
    /\ pc[c] = "ack"
    /\ RestoreLock(c)
    /\ tries[c] <= Retries
    /\ tries' = [tries EXCEPT ![c] = @ + 1]
    /\ Goto(c, "put")
    /\ UNCHANGED <<then, scopes, countVars, targetVars, useVars, job, no_ack>>

\* A '+' came, or something else or nothing did and the packet is sent again, as
\* long as tries++ < Retries.
AckWaitOver(c) ==
    /\ pc[c] = "ack"
    /\ RestoreLock(c)
    /\ \/ SentTo(c)
       \/ /\ tries[c] < Retries
          /\ tries' = [tries EXCEPT ![c] = @ + 1]
          /\ Goto(c, "put")
          /\ UNCHANGED then
    /\ UNCHANGED <<scopes, countVars, targetVars, useVars, job, no_ack>>

\* send, or recv in one of the waits, fails: destroy() is called.
PeerGone(c) ==
    /\ pc[c] \in {"put", "ack", "wait", "body", "remote"}
    /\ Goto(c, "dying")
    /\ UNCHANGED <<lockVars, scopes, countVars, targetVars, useVars, job, packetVars, no_ack>>

\* The end of the innermost scope.  When the command has none left the task is back
\* in its main loop, or in task() after an exception, from where it enters gdb_main
\* again.
LeaveScope(c) ==
    /\ pc[c] = "leave"
    /\ Lock!Leave(c)
    /\ scopes' = [scopes EXCEPT ![c] = @ - 1]
    /\ IF scopes[c] > Base(c) + 1
       THEN UNCHANGED <<pc, job>>
       ELSE /\ Goto(c, IF job[c] = "lost" THEN "enter" ELSE "idle")
            /\ job' = [job EXCEPT ![c] = "none"]
    /\ UNCHANGED <<countVars, targetVars, useVars, packetVars, no_ack>>

(***************************************************************************)
(* A connection: accept, num_clients++, and at the end destroy().          *)
(***************************************************************************)
Accept(c) ==
    /\ pc[c] = "off"
    /\ Goto(c, "start")
    /\ no_ack' = [no_ack EXCEPT ![c] = FALSE]
    /\ UNCHANGED <<lockVars, scopes, countVars, targetVars, useVars, job, packetVars>>

\* num_clients++ and num_clients-- are a load and a store, under no lock.  Two
\* updates may overlap, and lose one, while the drift is below its bound.
Counted == {c \in Clients : pc[c] \notin {"off", "start", "count", "broken"}}

MayOverlap ==
    \/ \A d \in Clients : pc[d] \notin {"count", "dec"}
    \/ num_clients - Cardinality(Counted) \in (1 - MaxDrift) .. (MaxDrift - 1)

CountLoad(c) ==
    /\ MayOverlap
    /\ \/ pc[c] = "start" /\ Goto(c, "count")
       \/ pc[c] = "dying" /\ Goto(c, "dec")
    /\ reg' = [reg EXCEPT ![c] = num_clients]
    /\ UNCHANGED <<lockVars, scopes, num_clients, targetVars, useVars, job, packetVars, no_ack>>

CountStore(c) ==
    /\ \/ pc[c] = "count" /\ Goto(c, "enter") /\ num_clients' = reg[c] + 1
       \/ pc[c] = "dec" /\ Goto(c, "broken") /\ num_clients' = reg[c] - 1
    /\ reg' = [reg EXCEPT ![c] = 0]
    /\ UNCHANGED <<lockVars, scopes, targetVars, useVars, job, packetVars, no_ack>>

\* Mutant: destroy() without gdb_breaklock().
DestroyKeepsMutant(c) ==
    /\ pc[c] = "broken"
    /\ scopes' = [scopes EXCEPT ![c] = 0]
    /\ using' = [using EXCEPT ![c] = NoTarget]
    /\ outer' = [outer EXCEPT ![c] = NoTarget]
    /\ job' = [job EXCEPT ![c] = "none"]
    /\ then' = [then EXCEPT ![c] = "idle"]
    /\ tries' = [tries EXCEPT ![c] = 0]
    /\ Goto(c, "off")
    /\ UNCHANGED <<lockVars, countVars, targetVars, no_ack>>

\* gdb_breaklock(), close, vTaskDelete: whatever the task was doing ends here.
Destroy(c) ==
    /\ pc[c] = "broken"
    /\ Lock!Abandon(c)
    /\ scopes' = [scopes EXCEPT ![c] = 0]
    /\ using' = [using EXCEPT ![c] = NoTarget]
    /\ outer' = [outer EXCEPT ![c] = NoTarget]
    /\ job' = [job EXCEPT ![c] = "none"]
    /\ then' = [then EXCEPT ![c] = "idle"]
    /\ tries' = [tries EXCEPT ![c] = 0]
    /\ Goto(c, "off")
    /\ UNCHANGED <<countVars, targetVars, no_ack>>

(***************************************************************************)
(* The start of gdb_main_loop: scan if nobody has a target, or if this is  *)
(* the only client.                                                        *)
(***************************************************************************)
BootLock(c) ==
    /\ pc[c] = "enter"
    /\ LockScope(c)
    /\ Goto(c, "boot")
    /\ UNCHANGED <<countVars, targetVars, useVars, job, packetVars, no_ack>>

MustScan == (cur_target = NoTarget /\ last_target = NoTarget) \/ num_clients = 1

Boot(c) ==
    /\ pc[c] = "boot"
    /\ Goto(c, IF MustScan THEN "free" ELSE "leave")
    /\ job' = [job EXCEPT ![c] = IF MustScan THEN "boot" ELSE "none"]
    /\ UNCHANGED <<lockVars, scopes, countVars, targetVars, useVars, packetVars, no_ack>>

\* What the scan found is attached to at boot, if attaching works; the handler of
\* TRY_CATCH takes an exception of the scan or of the attach.
Scan(c) ==
    /\ pc[c] = "scan"
    /\ \E found \in SUBSET (Targets \ list) :
           /\ list' = list \cup found
           /\ \/ UNCHANGED cur_target
              \/ /\ job[c] = "boot" /\ found # {}
                 /\ cur_target' \in found \cup {NoTarget}
    /\ Goto(c, "leave")
    /\ UNCHANGED <<lockVars, scopes, countVars, last_target, useVars, job, packetVars, no_ack>>

(***************************************************************************)
(* target_list_free() and gdb_target_destroy_callback().                   *)
(***************************************************************************)
ForgetLast(t) == last_target' = IF last_target = t THEN NoTarget ELSE last_target

\* The destroy callback of a listed target.  The client is told when the target is
\* the current one, and only then are the pointers looked at again.
DestroyTarget(c) ==
    /\ pc[c] = "free"
    /\ \E t \in list :
           /\ using' = [using EXCEPT ![c] = t]
           /\ IF cur_target = t
              THEN SendThen(c, "told") /\ UNCHANGED last_target
              ELSE ForgetLast(t) /\ Goto(c, "release") /\ UNCHANGED packetVars
    /\ UNCHANGED <<lockVars, scopes, countVars, cur_target, list, outer, job, no_ack>>

\* Mutant: last_target is looked at only when the target is not the current one.
ToldElseMutant(c) ==
    /\ pc[c] = "told"
    /\ cur_target' = NoTarget
    /\ Goto(c, "release")
    /\ UNCHANGED <<lockVars, scopes, countVars, last_target, list, useVars, job, packetVars, no_ack>>

\* The rest of the callback, after the packet.
Told(c) ==
    /\ pc[c] = "told"
    /\ cur_target' = NoTarget
    /\ ForgetLast(using[c])
    /\ Goto(c, "release")
    /\ UNCHANGED <<lockVars, scopes, countVars, list, useVars, job, packetVars, no_ack>>

\* The library frees the target.
Release(c) ==
    /\ pc[c] = "release"
    /\ list' = list \ {using[c]}
    /\ using' = [using EXCEPT ![c] = NoTarget]
    /\ Goto(c, "free")
    /\ UNCHANGED <<lockVars, scopes, countVars, cur_target, last_target, outer, job,
                   packetVars, no_ack>>

FreeDone(c) ==
    /\ pc[c] = "free"
    /\ list = {}
    /\ Goto(c, IF job[c] = "lost" THEN "leave" ELSE "scan")
    /\ UNCHANGED <<lockVars, scopes, countVars, targetVars, useVars, job, packetVars, no_ack>>

(***************************************************************************)
(* gdb_getpacket: the first character is read with the lock broken, the    *)
(* rest of a packet with recv, without a timeout and without breaking it.  *)
(***************************************************************************)
Idle(c) ==
    /\ pc[c] = "idle"
    /\ BreakLock(c)
    /\ Goto(c, "wait")
    /\ UNCHANGED <<scopes, countVars, targetVars, useVars, job, packetVars, no_ack>>

\* 20 ms have passed, or a 0x03 or 0x04 came ("cmd"), or a packet starts, of GDB or
\* a remote one ("body"), or a character that starts nothing ("idle").
Wake(c) ==
    /\ pc[c] = "wait"
    /\ RestoreLock(c)
    /\ \E l \in {"cmd", "body", "idle"} : Goto(c, l)
    /\ UNCHANGED <<scopes, countVars, targetVars, useVars, job, packetVars, no_ack>>

\* The packet is complete: a command that takes the lock or a remote packet, which
\* does too, one that is answered without it, or a packet with a wrong checksum.
Body(c) ==
    /\ pc[c] = "body"
    /\ \/ Goto(c, "cmd") /\ UNCHANGED <<packetVars, no_ack>>
       \/ Goto(c, "attached") /\ UNCHANGED <<packetVars, no_ack>>
       \/ SendThen(c, "idle") /\ UNCHANGED no_ack
       \/ c \in NoAckers /\ SendThen(c, "idle") /\ no_ack' = [no_ack EXCEPT ![c] = TRUE]
       \/ Goto(c, "idle") /\ UNCHANGED <<packetVars, no_ack>>
    /\ UNCHANGED <<lockVars, scopes, countVars, targetVars, useVars, job>>

\* qAttached compares cur_target with NULL, without the lock, and answers.
Attached(c) ==
    /\ pc[c] = "attached"
    /\ SendThen(c, "idle")
    /\ UNCHANGED <<lockVars, scopes, countVars, targetVars, useVars, job, no_ack>>

(***************************************************************************)
(* The commands, after GDB_LOCK().                                         *)
(***************************************************************************)
CmdLock(c) ==
    /\ pc[c] = "cmd"
    /\ LockScope(c)
    /\ Goto(c, "hand")
    /\ UNCHANGED <<countVars, targetVars, useVars, job, packetVars, no_ack>>

\* The second GDB_LOCK() of vRun and of handle_z_packet.
NestLock(c) ==
    /\ pc[c] = "hand"
    /\ scopes[c] = Base(c) + 1
    /\ LockScope(c)
    /\ UNCHANGED <<pc, countVars, targetVars, useVars, job, packetVars, no_ack>>

\* A command that ends: with a reply, or without one.
Answer(c) == \/ SendThen(c, "leave")
             \/ Goto(c, "leave") /\ UNCHANGED packetVars

\* Commands that need a target and find none.
NoTargetAnswer(c) ==
    /\ pc[c] = "hand"
    /\ cur_target = NoTarget
    /\ Answer(c)
    /\ UNCHANGED <<lockVars, scopes, countVars, targetVars, useVars, job, no_ack>>

\* Registers, memory, breakpoints, flash, run control, polling: cur_target is
\* passed to the library ...
Use(c) ==
    /\ pc[c] = "hand"
    /\ cur_target # NoTarget
    /\ using' = [using EXCEPT ![c] = cur_target]
    /\ Goto(c, "use")
    /\ UNCHANGED <<lockVars, scopes, countVars, targetVars, outer, job, packetVars, no_ack>>

\* (the library has not returned yet; "resumed": it has called gdb_putpacket2, or
\* made a semihosting call, meanwhile)
InLibrary(c) == pc[c] \in {"use", "resumed"}

\* ... which may print to the client in the middle (gdb_target_printf) ...
UsePrintf(c) ==
    /\ InLibrary(c)
    /\ SendThen(c, pc[c])
    /\ UNCHANGED <<lockVars, scopes, countVars, targetVars, useVars, job, no_ack>>

\* ... or call gdb_putpacket2 ...
UsePutpacket2(c) ==
    /\ c \in Callbacks
    /\ InLibrary(c)
    /\ SendThen(c, "resumed")
    /\ UNCHANGED <<lockVars, scopes, countVars, targetVars, useVars, job, no_ack>>

\* ... and returns.
UseDone(c) ==
    /\ InLibrary(c)
    /\ using' = [using EXCEPT ![c] = NoTarget]
    /\ Answer(c)
    /\ UNCHANGED <<lockVars, scopes, countVars, targetVars, outer, job, no_ack>>

(***************************************************************************)
(* Semihosting: what runs on the target asks for a file operation, and the *)
(* library, in target_halt_poll under one GDB_LOCK(), sends GDB a request  *)
(* (hostio_open .. hostio_system) and enters gdb_main_loop again.  That    *)
(* loop scans, waits and handles commands like any other, until GDB's F    *)
(* packet ends it.  Bound: the inner loop is the only one inside another.  *)
(***************************************************************************)
Syscall(c) ==
    /\ c \in Callbacks
    /\ InLibrary(c)
    /\ scopes[c] = 1 /\ outer[c] = NoTarget
    /\ outer' = [outer EXCEPT ![c] = using[c]]
    /\ using' = [using EXCEPT ![c] = NoTarget]
    /\ SendThen(c, "enter")
    /\ UNCHANGED <<lockVars, scopes, countVars, targetVars, job, no_ack>>

\* The F packet: the library goes on with the target it had.
SyscallDone(c) ==
    /\ pc[c] = "body"
    /\ outer[c] # NoTarget
    /\ using' = [using EXCEPT ![c] = outer[c]]
    /\ outer' = [outer EXCEPT ![c] = NoTarget]
    /\ Goto(c, "resumed")
    /\ UNCHANGED <<lockVars, scopes, countVars, targetVars, job, packetVars, no_ack>>

(***************************************************************************)
(* A remote packet ('!' ... '#'): remote_packet_process drives the probe   *)
(* under the lock and sends its answer itself, without waiting for a '+'.  *)
(***************************************************************************)
Remote(c) ==
    /\ pc[c] = "hand"
    /\ scopes[c] = Base(c) + 1
    /\ Goto(c, "remote")
    /\ UNCHANGED <<lockVars, scopes, countVars, targetVars, useVars, job, packetVars, no_ack>>

RemoteDone(c) ==
    /\ pc[c] = "remote"
    /\ Goto(c, "leave")
    /\ UNCHANGED <<lockVars, scopes, countVars, targetVars, useVars, job, packetVars, no_ack>>

\* 'D' and 'k', vKill: the current target is given to the library and then
\* forgotten, whichever it is by then.  'D' does so without a current target too.
Detach(c) ==
    /\ \/ InLibrary(c) /\ Answer(c)
       \/ pc[c] = "hand" /\ cur_target = NoTarget /\ SendThen(c, "leave")
    /\ last_target' = cur_target
    /\ cur_target' = NoTarget
    /\ using' = [using EXCEPT ![c] = NoTarget]
    /\ UNCHANGED <<lockVars, scopes, countVars, list, outer, job, no_ack>>

\* 'R', vRun, memory map, target description: the last target is attached again and
\* then used, or attaching fails.
Reattach(c) ==
    /\ pc[c] = "hand"
    /\ cur_target = NoTarget
    /\ last_target # NoTarget
    /\ \/ /\ cur_target' = last_target
          /\ using' = [using EXCEPT ![c] = last_target]
          /\ Goto(c, "use")
          /\ UNCHANGED packetVars
       \/ Answer(c) /\ UNCHANGED <<cur_target, using>>
    /\ UNCHANGED <<lockVars, scopes, countVars, last_target, list, outer, job, no_ack>>

\* vAttach: any listed target, or none if the number or the attach is wrong.
Attach(c) ==
    /\ pc[c] = "hand"
    /\ cur_target' \in list \cup {NoTarget}
    /\ SendThen(c, "leave")
    /\ UNCHANGED <<lockVars, scopes, countVars, last_target, list, useVars, job, no_ack>>

\* qRcmd: a monitor command of the library that scans again.
Rescan(c) ==
    /\ pc[c] = "hand"
    /\ job' = [job EXCEPT ![c] = "monitor"]
    /\ Goto(c, "free")
    /\ UNCHANGED <<lockVars, scopes, countVars, targetVars, useVars, packetVars, no_ack>>

(***************************************************************************)
(* An exception in a target access unwinds to task(), out of an inner main *)
(* loop too, which reports it, frees the target list and calls gdb_main    *)
(* again.                                                                  *)
(***************************************************************************)
Raise(c) ==
    /\ \/ InLibrary(c) \/ pc[c] = "remote"
       \/ pc[c] = "hand" /\ list # {}
    /\ nest[c] <= MaxLeak
    /\ scopes' = [scopes EXCEPT ![c] = 0]
    /\ outer' = [outer EXCEPT ![c] = NoTarget]
    /\ using' = [using EXCEPT ![c] = NoTarget]
    /\ Goto(c, "caught")
    /\ UNCHANGED <<lockVars, countVars, targetVars, job, packetVars, no_ack>>

\* Mutant: after the report the task waits for the next packet.
CaughtIdleMutant(c) ==
    /\ pc[c] = "caught"
    /\ SendThen(c, "idle")
    /\ UNCHANGED <<lockVars, scopes, countVars, targetVars, useVars, job, no_ack>>

Caught(c) ==
    /\ pc[c] = "caught"
    /\ SendThen(c, "lost")
    /\ UNCHANGED <<lockVars, scopes, countVars, targetVars, useVars, job, no_ack>>

LostLock(c) ==
    /\ pc[c] = "lost"
    /\ LockScope(c)
    /\ job' = [job EXCEPT ![c] = "lost"]
    /\ Goto(c, "free")
    /\ UNCHANGED <<countVars, targetVars, useVars, packetVars, no_ack>>

\* The steps of a task that wait for nobody.
Command(c) == \/ NestLock(c) \/ NoTargetAnswer(c) \/ Use(c) \/ Detach(c)
              \/ Reattach(c) \/ Attach(c) \/ Rescan(c) \/ Remote(c)

Run(c) == \/ LeaveScope(c) \/ CountLoad(c) \/ CountStore(c)
          \/ Destroy(c) \/ Boot(c) \/ Scan(c) \/ DestroyTarget(c) \/ Told(c)
          \/ Release(c) \/ FreeDone(c) \/ Idle(c) \/ Command(c)
          \/ UsePrintf(c) \/ UsePutpacket2(c) \/ UseDone(c) \/ Syscall(c)
          \/ Attached(c) \/ Caught(c)

\* The steps that take as long as the peer likes: a send() that waits for room, and
\* the rest of a packet.
Peer(c) == Send(c) \/ Body(c) \/ SyscallDone(c) \/ RemoteDone(c)

\* The steps that take the lock: a GDB_LOCK(), or the end of a wait for the peer.
Acquire(c) == \/ BootLock(c) \/ CmdLock(c) \/ LostLock(c)
              \/ AckWaitOver(c) \/ Wake(c)

Next == \E c \in Clients :
            \/ Run(c) \/ Acquire(c) \/ Peer(c)
            \/ Accept(c) \/ PeerGone(c) \/ Raise(c)

Spec == Init /\ [][Next]_vars

(***************************************************************************)
(* Fairness.  Tasks of equal priority are time sliced; the two waits with  *)
(* the lock broken have a timeout; a free mutex goes to the task that has  *)
(* waited longest; a library call calls back finitely often and returns,   *)
(* once its callbacks have.  Nothing is assumed of Peer: the peer may stop *)
(* reading, or stop in the middle of a packet.  And nothing makes a        *)
(* connection come, go or raise.                                           *)
(***************************************************************************)
Fairness == \A c \in Clients :
                /\ WF_vars(Run(c))
                /\ SF_vars(UseDone(c))
                /\ SF_vars(Acquire(c))

FairSpec == Spec /\ Fairness

(***************************************************************************)
(* The properties.                                                         *)
(***************************************************************************)
\* Every variable has its type.
TypeOK == /\ pc \in [Clients -> Labels]
          /\ Lock!TypeOK
          /\ scopes \in [Clients -> 0 .. 3]
          /\ num_clients \in Int
          /\ reg \in [Clients -> Int]
          /\ cur_target \in Targets \cup {NoTarget}
          /\ last_target \in Targets \cup {NoTarget}
          /\ list \subseteq Targets
          /\ using \in [Clients -> Targets \cup {NoTarget}]
          /\ outer \in [Clients -> Targets \cup {NoTarget}]
          /\ job \in [Clients -> Jobs]
          /\ then \in [Clients -> Labels]
          /\ tries \in [Clients -> 0 .. Retries]
          /\ no_ack \in [Clients -> BOOLEAN]

\* Where a task reads or writes the shared pointers or the target list, or drives
\* the probe.
Inside(c) == pc[c] \in {"boot", "free", "told", "release", "scan", "leave", "attached",
                        "hand", "use", "resumed", "remote"}

\* The pointers, the target list and the probe are only used by the owner of the
\* lock -- but for qAttached, which reads cur_target once without it -- although
\* every packet sent under it gives it away, a semihosting call runs a whole main
\* loop in the middle, and an exception may have thrown away the scopes of the
\* client that has it.
TargetsGuarded == \A c \in Clients : Inside(c) => owner = c \/ pc[c] = "attached"

\* A client that waits for its peer with a timeout does not keep others out, and
\* neither does one whose task has ended, whatever it was doing and wherever an
\* exception left its scopes when its connection went down.
WaitersLetGo ==
    \A c \in Clients : pc[c] \in {"wait", "ack", "off", "start", "count"} => owner # c

\* gdb_main.cpp never keeps a pointer to a target that the library has freed,
\* whatever the others did while the client that frees it waited for its '+'.
NoDanglingTarget == {cur_target, last_target} \subseteq list \cup {NoTarget}

\* A client in no-ack mode is not inside the library with a freed target, as long as
\* that call has made no semihosting call and not used gdb_putpacket2: either gives
\* the lock away whatever the mode is.
NoAckUseIsSafe ==
    \A c \in Clients : pc[c] = "use" /\ no_ack[c] => using[c] \in list

\* A client has the lock while it waits for its peer, in a send() or for the rest of
\* a packet, and nothing but the peer ends that.
Stuck(c) == owner = c /\ pc[c] \in {"put", "body", "remote"}

PeersMove == \A c \in Clients : []<>~Stuck(c)

\* Every client that waits for the lock, or for the lock it gave away during a
\* send, goes on, if no client is stuck for ever.
ClientsServed ==
    PeersMove => \A c \in Clients :
                    LET Wants == pc[c] \in {"enter", "cmd", "lost", "ack"}
                    IN  Wants ~> ~Wants

\* A client whose target access raised reports it, has the target list freed and
\* starts over with a scan, or loses its connection on the way, if no client is
\* stuck for ever.
LostRecovers ==
    PeersMove => \A c \in Clients :
                    pc[c] = "caught" ~> pc[c] \in {"enter", "dying"}

\* A target that is being released is out of the list: nobody can get at it before
\* the library has freed it.
Released == {using[c] : c \in {d \in Clients : pc[d] = "release"}}

T == INSTANCE TargetList WITH current <- cur_target, last <- last_target,
                              list <- list \ Released

\* To every client the pointers and the list look as if each command were one step:
\* only the owner of the lock changes them, only a listed target is attached, and no
\* target is freed before every pointer to it is cleared.
ImplementsTargetList == T!Spec

\* README.md: "Automatic Attach to target on connect to GDB server".  A client
\* whose connection is not to scan finds a target attached.
AutoAttach ==
    \A c \in Clients : pc[c] = "boot" /\ ~MustScan => cur_target # NoTarget

\* README.md: "multiple GDB connections".  No client is inside the library with a
\* target that has been freed meanwhile.
NoUseAfterFree == \A c \in Clients : InLibrary(c) => using[c] \in list

(***************************************************************************)
(* The inductive invariant: what each task has, at each place it can be.   *)
(***************************************************************************)
Sending(c, ls) == pc[c] \in {"put", "ack"} /\ then[c] \in ls

\* A command is at work in the innermost main loop.
InScope(c) == \/ Inside(c) /\ pc[c] # "attached"
              \/ Sending(c, {"told", "use", "resumed", "leave"})

\* The task has been told to end.
Ending(c) == pc[c] \in {"dying", "dec", "broken"}

AtLabel(c) ==
    \* the lock
    /\ (InScope(c) \/ outer[c] # NoTarget) /\ pc[c] \notin {"ack", "wait"} /\ ~Ending(c)
           => owner = c
    /\ pc[c] \in {"ack", "wait"} => owner # c
    /\ owner = c => nest[c] > 0
    /\ pc[c] \in {"off", "start", "count"} => nest[c] = 0
    \* its scopes
    /\ InScope(c) => scopes[c] > Base(c)
    /\ ~InScope(c) => scopes[c] = Base(c) \/ Ending(c)
    /\ scopes[c] <= nest[c]
    \* callbacks and packets
    /\ c \notin Callbacks
           => outer[c] = NoTarget /\ pc[c] # "resumed" /\ then[c] # "resumed"
    /\ pc[c] \in {"put", "ack"}
           => then[c] \in {"idle", "enter", "lost", "told", "use", "resumed", "leave"}
    /\ pc[c] = "ack" => AwaitsAck(c)
    \* targets
    /\ pc[c] \in {"told", "use", "resumed"} \/ Sending(c, {"told", "use", "resumed"})
           => using[c] \in Targets
    /\ pc[c] = "release" => using[c] \notin {cur_target, last_target}
    /\ (pc[c] = "use" \/ Sending(c, {"use"})) /\ (no_ack[c] \/ Clients = {c})
           => using[c] \in list

\* The types, no dangling target, and every client has what its label says it has:
\* together enough for every step of every handler to keep them.
IInv == /\ TypeOK
        /\ NoDanglingTarget
        /\ \A c \in Clients : AtLabel(c)
=============================================================================

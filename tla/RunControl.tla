----------------------------- MODULE RunControl -----------------------------
(***************************************************************************)
(* Run control: how the sessions of the GDB server let the target run,     *)
(* stop it and tell their GDBs of it (gdb_main.cpp).  cur_target is one    *)
(* for all sessions; run_state, "my GDB waits for a stop reply", is each   *)
(* session's own.                                                          *)
(*                                                                         *)
(* The handlers run under the GDB lock (GdbServer shows that), so each is  *)
(* one action, up to the wait for a '+' in ack mode, which lets the others *)
(* in; and none runs while a session keeps the lock for as long as its     *)
(* peer likes, in a send that blocks or with a lock that an exception has  *)
(* leaked.  The two directions of a connection are queues: a GDB may send  *)
(* an interrupt (0x03) while a stop reply is on its way to it.             *)
(*                                                                         *)
(* GDBs are in all-stop mode, and the target makes no semihosting calls.   *)
(* A command that is answered at once, which a GDB only sends when it      *)
(* waits for nothing else, is one action with its answer.                  *)
(***************************************************************************)
EXTENDS Integers, Sequences, FiniteSets

CONSTANTS
    Clients,     \* connections that may exist at a time
    NoAckers,    \* bound: those of GDBs that start no-ack mode
    NoClient,    \* nobody
    Retries,     \* how often a packet is sent again: 3
    MaxQueue     \* bound: what is under way on a connection that sends a packet

ASSUME RunAssumption == /\ NoClient \notin Clients /\ NoAckers \subseteq Clients
                        /\ Retries \in Nat /\ MaxQueue \in Nat

VARIABLES
    kept,        \* some session keeps the GDB lock, and waits for its peer
    attached,    \* cur_target is set
    last,        \* last_target is set
    core,        \* what the attached target does
    by,          \* history: who let the target run, or took it away, last
    pc,          \* where each session's task is
    then,        \* what a task does when its packet is acknowledged
    tries,       \* how often it has sent the packet again
    run_state,   \* run_state of each session
    single_step, \* single_step of each session
    view,        \* what each GDB takes its target for
    wire,        \* from GDB to the server
    replies      \* from the server to GDB

target == <<attached, last, core, by>>
task == <<pc, then, tries>>
flags == <<run_state, single_step>>
gdb == <<view, wire, replies>>
vars == <<kept, target, task, flags, gdb>>

Init == /\ kept = FALSE
        /\ attached = FALSE /\ last = FALSE /\ core = "running"
        /\ by = NoClient
        /\ pc = [c \in Clients |-> "off"]
        /\ then = [c \in Clients |-> "ok"]
        /\ tries = [c \in Clients |-> 0]
        /\ run_state = [c \in Clients |-> FALSE]
        /\ single_step = [c \in Clients |-> FALSE]
        /\ view = [c \in Clients |-> "stopped"]
        /\ wire = [c \in Clients |-> <<>>]
        /\ replies = [c \in Clients |-> <<>>]

(***************************************************************************)
(* The target, and who has it.                                             *)
(***************************************************************************)
\* Client c sets cur_target, or leaves it NULL; a target that is not attached runs.
SetTarget(c, b) == /\ attached' = b
                   /\ core' = IF b THEN "halted" ELSE "running"
                   /\ by' = IF b THEN NoClient ELSE c

\* target_halt_resume
Run(c) == /\ core' = "running" /\ by' = c
          /\ UNCHANGED <<attached, last>>

\* target_halt_request
Halt == /\ core' = IF core = "running" THEN "halting" ELSE core
        /\ UNCHANGED <<attached, last, by>>

\* A breakpoint, a fault, or the end of a step.
CoreHalts == /\ attached /\ core = "running"
             /\ core' = "halted"
             /\ UNCHANGED <<kept, attached, last, by, task, flags, gdb>>

\* The core does what it was asked to.
CoreObeys == /\ attached /\ core = "halting"
             /\ core' = "halted"
             /\ UNCHANGED <<kept, attached, last, by, task, flags, gdb>>

(***************************************************************************)
(* The lock: a handler under it may wait for its peer, in a send() that    *)
(* blocks (gdb_if.cpp 222) or, with a lock that an exception has leaked,   *)
(* in a recv().  Nobody else gets the lock until the peer moves.           *)
(***************************************************************************)
Live == {c \in Clients : pc[c] # "off"}

Keep == /\ ~kept /\ Live # {}
        /\ kept' = TRUE
        /\ UNCHANGED <<target, task, flags, gdb>>

Unkeep == /\ kept
          /\ kept' = FALSE
          /\ UNCHANGED <<target, task, flags, gdb>>

\* GDB_LOCK, for a handler that does not wait under it.
Locks == ~kept /\ UNCHANGED kept

(***************************************************************************)
(* Packets to GDB.                                                         *)
(***************************************************************************)
Set(f, c, v) == [f EXCEPT ![c] = v]

Send(c, r) == replies' = [replies EXCEPT ![c] = Append(@, r)]

Interrupting(c) == \E i \in 1 .. Len(wire[c]) : wire[c][i] = "brk"

\* Bound: a session does not send anything new while that much is under way.
Room(c) == Len(replies[c]) + Len(wire[c]) - (IF Interrupting(c) THEN 1 ELSE 0) < MaxQueue

\* Mutant: the task waits for a '+' in no-ack mode too.
PutWaitsMutant(c, r, what) == /\ Room(c) /\ Send(c, r)
                              /\ pc' = Set(pc, c, "ack")
                              /\ then' = Set(then, c, what)
                              /\ UNCHANGED tries

\* gdb_putpacket: in ack mode the task waits for a '+'.
Put(c, r, what) == /\ Room(c) /\ Send(c, r)
                   /\ IF c \in NoAckers
                      THEN UNCHANGED task
                      ELSE /\ pc' = Set(pc, c, "ack")
                           /\ then' = Set(then, c, what)
                           /\ UNCHANGED tries

\* Mutant: single_step is left as it is.
ClearedMutant(c) == run_state' = Set(run_state, c, FALSE) /\ UNCHANGED single_step

\* The rest of the poll: nothing more is asked of the session.
Cleared(c) == /\ run_state' = Set(run_state, c, FALSE)
              /\ single_step' = Set(single_step, c, FALSE)

\* The rest of the handler of an exception: the target list is freed, and
\* gdb_main_loop scans again.
Lost(c) == /\ \E b \in BOOLEAN : SetTarget(c, b)
           /\ last' = FALSE

\* What is left to do when the packet is sent, or given up.
AckOver(c) == /\ IF then[c] = "clear" THEN Cleared(c) ELSE UNCHANGED flags
              /\ IF then[c] = "lost" THEN Lost(c) ELSE UNCHANGED target
              /\ pc' = Set(pc, c, "loop")
              /\ then' = Set(then, c, "ok")
              /\ tries' = Set(tries, c, 0)
              /\ UNCHANGED replies

\* gdb_if_getchar_to returned no '+': the packet is sent again.
Resend(c) == /\ tries[c] < Retries
             /\ tries' = Set(tries, c, tries[c] + 1)
             /\ Send(c, IF then[c] = "ok" THEN "ok" ELSE "stop")
             /\ UNCHANGED <<pc, then, target, flags>>

NoAck(c) == \/ Resend(c)
            \/ tries[c] = Retries /\ AckOver(c)

\* Whatever else comes is taken for a missing '+', and lost.
AckRead(c) == /\ Locks /\ pc[c] = "ack" /\ wire[c] # <<>>
              /\ wire' = [wire EXCEPT ![c] = Tail(@)]
              /\ IF Head(wire[c]) = "+" THEN AckOver(c) ELSE NoAck(c)
              /\ UNCHANGED view

\* The '+' is late.
AckTimeout(c) == /\ Locks /\ pc[c] = "ack"
                 /\ NoAck(c)
                 /\ UNCHANGED <<view, wire>>

(***************************************************************************)
(* The main loop: nothing has come for 20 ms, or something has.            *)
(***************************************************************************)
\* A '+' that nobody waits for any more is skipped, without the lock.
Stray(c) == /\ pc[c] = "loop" /\ wire[c] # <<>> /\ Head(wire[c]) = "+"
            /\ wire' = [wire EXCEPT ![c] = Tail(@)]
            /\ UNCHANGED <<kept, target, task, flags, view, replies>>

MustPoll(c) == Locks /\ pc[c] = "loop" /\ run_state[c] /\ attached

\* Mutant: run_state stays as it is when the GDB has been told.
PollKeepsMutant(c) == /\ MustPoll(c) /\ core = "halted"
                      /\ Put(c, "stop", "told")
                      /\ UNCHANGED <<target, flags, view, wire>>

\* Mutant: only the session that let the target run reports that it has halted.
PollOwnMutant(c) == /\ MustPoll(c) /\ core = "halted" /\ by = c
                    /\ Put(c, "stop", "clear")
                    /\ IF c \in NoAckers THEN Cleared(c) ELSE UNCHANGED flags
                    /\ UNCHANGED <<target, view, wire>>

\* A target that has halted is reported to the GDB of each session that waits.
Poll(c) == /\ MustPoll(c) /\ core = "halted"
           /\ Put(c, "stop", "clear")
           /\ IF c \in NoAckers THEN Cleared(c) ELSE UNCHANGED flags
           /\ UNCHANGED <<target, view, wire>>

\* A call of the library raises an exception: the GDB is told "EFF", which one that
\* waits takes for a stop.  The flags stay as the handler has set them.
Raises(c) == /\ Put(c, "stop", "lost")
             /\ IF c \in NoAckers THEN Lost(c) ELSE UNCHANGED target

PollRaises(c) == MustPoll(c) /\ Raises(c) /\ UNCHANGED <<flags, view, wire>>

Interrupts(c) == /\ Locks /\ pc[c] = "loop"
                 /\ wire[c] # <<>> /\ Head(wire[c]) = "brk"
                 /\ wire' = [wire EXCEPT ![c] = Tail(@)]
                 /\ run_state' = Set(run_state, c, TRUE)
                 /\ UNCHANGED <<single_step, view>>

\* Mutant: the target is not asked to halt.
InterruptMutant(c) == Interrupts(c) /\ UNCHANGED <<target, task, replies>>

\* 0x03: from now on the session waits for a halt, whether or not it did before.
\* Without a target the library is given NULL; here it does nothing with it.
Interrupt(c) == /\ Interrupts(c)
                /\ IF attached THEN Halt ELSE UNCHANGED target
                /\ UNCHANGED <<task, replies>>

InterruptRaises(c) == Interrupts(c) /\ attached /\ Raises(c)

(***************************************************************************)
(* The commands that a GDB sends while its target is stopped.              *)
(***************************************************************************)
Asks(c) == /\ Locks /\ pc[c] = "loop" /\ view[c] = "stopped" /\ wire[c] = <<>>
           /\ UNCHANGED wire

\* From now on GDB waits for a stop reply.
Waits(c) == view' = Set(view, c, "running")

\* Mutant: 'c' and 's' set run_state before they look for a target.
ResumeMutant(c, step) ==
    /\ Asks(c) /\ Waits(c)
    /\ single_step' = Set(single_step, c, single_step[c] \/ step)
    /\ run_state' = Set(run_state, c, TRUE)
    /\ IF attached THEN Run(c) ELSE UNCHANGED target
    /\ UNCHANGED <<task, replies>>

\* 'c', and 's', which sets single_step and falls through to 'c'.
Resume(c, step) == /\ attached
                   /\ Asks(c) /\ Waits(c)
                   /\ single_step' = Set(single_step, c, single_step[c] \/ step)
                   /\ run_state' = Set(run_state, c, TRUE)
                   /\ Run(c)
                   /\ UNCHANGED <<task, replies>>

\* They fail if there is no target ("X1D"), or if letting it run raises an exception;
\* single_step is set all the same.
ResumeFails(c, step) == /\ Asks(c) /\ Waits(c)
                        /\ single_step' = Set(single_step, c, single_step[c] \/ step)
                        /\ \/ ~attached /\ Put(c, "stop", "told") /\ UNCHANGED target
                           \/ attached /\ Raises(c)
                        /\ UNCHANGED run_state

\* vCont with an 's' and then a 'c' or a 't', or one of them: 's' only sets the flags,
\* 'c' lets the target run, 't' has it halted.
VContSets(c, step) == /\ attached /\ Asks(c) /\ Waits(c)
                      /\ single_step' = Set(single_step, c, step)
                      /\ run_state' = Set(run_state, c, TRUE)

VCont(c, step, go) == /\ VContSets(c, step)
                      /\ \/ go = "c" /\ Run(c)
                         \/ go = "t" /\ Halt
                         \/ go = "none" /\ step /\ UNCHANGED target
                      /\ Put(c, "ok", "ok")

VContRaises(c, step) == VContSets(c, step) /\ Raises(c)

\* The answer comes at once: "OK" above, "EFF" if there is no target.
VContFails(c) == /\ ~attached /\ Asks(c) /\ Waits(c)
                 /\ Put(c, "stop", "told")
                 /\ UNCHANGED <<target, flags>>

\* The other commands are answered at once; the answer is left out.
Answered(c) == Asks(c) /\ UNCHANGED <<task, flags, view, replies>>

\* 'D': last_target becomes NULL if there is no target.
Detach(c) == /\ Answered(c)
             /\ last' = attached
             /\ IF attached THEN SetTarget(c, FALSE)
                ELSE UNCHANGED <<attached, core, by>>

\* 'k', vKill
Kill(c) == /\ Answered(c) /\ attached
           /\ last' = TRUE
           /\ SetTarget(c, FALSE)

\* 'r', 'R', vRun with a target; the library decides how the reset leaves the core.
ResetTarget(c) == /\ Answered(c) /\ attached
                  /\ \/ Run(c)
                     \/ core' = "halted" /\ UNCHANGED <<attached, last, by>>

\* The same commands after a detach attach to the last target, if they can.
Reattach(c) == /\ Answered(c) /\ ~attached /\ last
               /\ \E b \in BOOLEAN : SetTarget(c, b)
               /\ UNCHANGED last

\* vAttach
Attach(c) == /\ Answered(c)
             /\ \E b \in BOOLEAN : SetTarget(c, b)
             /\ UNCHANGED last

\* A monitor scan frees the target list, and with it both pointers; so does an
\* exception in one of these commands, whose "EFF" is the answer, before a new scan.
Rescan(c) == Answered(c) /\ Lost(c)

(***************************************************************************)
(* Connections.  The first thing a session does is to scan, if nobody has  *)
(* a target or there is no other session (GdbServer: MustScan).            *)
(***************************************************************************)
Connect(c) == /\ Locks /\ pc[c] = "off"
              /\ pc' = Set(pc, c, "loop")
              /\ IF Live = {} \/ (~attached /\ ~last)
                 THEN last' = FALSE /\ \E b \in BOOLEAN : SetTarget(c, b)
                 ELSE UNCHANGED target
              /\ UNCHANGED <<then, tries, flags, gdb>>

\* The connection ends and the object with the session's state is deleted; a lock that
\* it kept is free.
Disconnect(c) == /\ pc[c] # "off"
                 /\ kept' \in {kept /\ Live # {c}, FALSE}
                 /\ pc' = Set(pc, c, "off")
                 /\ then' = Set(then, c, "ok")
                 /\ tries' = Set(tries, c, 0)
                 /\ Cleared(c)
                 /\ view' = Set(view, c, "stopped")
                 /\ wire' = Set(wire, c, <<>>)
                 /\ replies' = Set(replies, c, <<>>)
                 /\ UNCHANGED target

(***************************************************************************)
(* The GDBs.                                                               *)
(***************************************************************************)
\* The user presses ^C.
GdbInterrupts(c) == /\ pc[c] # "off" /\ view[c] = "running" /\ ~Interrupting(c)
                    /\ wire' = [wire EXCEPT ![c] = Append(@, "brk")]
                    /\ UNCHANGED <<kept, target, task, flags, view, replies>>

\* A stop reply is taken for the end of whatever GDB waits for; "OK" is not.
GdbReceives(c) == /\ pc[c] # "off" /\ replies[c] # <<>>
                  /\ replies' = [replies EXCEPT ![c] = Tail(@)]
                  /\ view' = IF Head(replies[c]) = "stop" THEN Set(view, c, "stopped") ELSE view
                  /\ wire' = IF c \in NoAckers THEN wire ELSE [wire EXCEPT ![c] = Append(@, "+")]
                  /\ UNCHANGED <<kept, target, task, flags>>

Next == \/ CoreHalts \/ CoreObeys \/ Keep \/ Unkeep
        \/ \E c \in Clients :
               \/ AckRead(c) \/ AckTimeout(c) \/ Stray(c)
               \/ Poll(c) \/ PollRaises(c) \/ Interrupt(c) \/ InterruptRaises(c)
               \/ \E step \in BOOLEAN :
                      \/ Resume(c, step) \/ ResumeFails(c, step) \/ VContRaises(c, step)
                      \/ \E go \in {"none", "c", "t"} : VCont(c, step, go)
               \/ VContFails(c)
               \/ Detach(c) \/ Kill(c) \/ ResetTarget(c) \/ Reattach(c)
               \/ Attach(c) \/ Rescan(c)
               \/ Connect(c) \/ Disconnect(c)
               \/ GdbInterrupts(c) \/ GdbReceives(c)

\* Each session's task goes on, if it gets the lock again and again: it reads what has
\* come, waits for a '+' with a timeout, and polls, since a GDB that waits sends nothing
\* but '+' and interrupts; not every poll raises an exception.  The connections
\* deliver, and a core that is to halt halts.  Nothing says that a session that keeps
\* the lock ever lets go of it.
Fairness == /\ WF_vars(CoreObeys)
            /\ \A c \in Clients :
                   /\ SF_vars(Poll(c))
                   /\ SF_vars(AckRead(c) \/ Stray(c) \/ Interrupt(c))
                   /\ WF_vars(GdbReceives(c))

Spec == Init /\ [][Next]_vars /\ Fairness

(***************************************************************************)
(* What the sessions promise their GDBs.                                   *)
(***************************************************************************)
TypeOK == /\ kept \in BOOLEAN
          /\ attached \in BOOLEAN /\ last \in BOOLEAN
          /\ core \in {"running", "halting", "halted"}
          /\ by \in Clients \cup {NoClient}
          /\ pc \in [Clients -> {"off", "loop", "ack"}]
          /\ then \in [Clients -> {"ok", "clear", "told", "lost"}]
          /\ tries \in [Clients -> 0 .. Retries]
          /\ run_state \in [Clients -> BOOLEAN]
          /\ single_step \in [Clients -> BOOLEAN]
          /\ view \in [Clients -> {"stopped", "running"}]
          /\ wire \in [Clients -> Seq({"brk", "+"})]
          /\ replies \in [Clients -> Seq({"stop", "ok"})]
          /\ \A c \in Clients : pc[c] = "ack" => c \notin NoAckers

\* The stop replies that a GDB will still get: those on their way, and the one that
\* the session still has to send.
Stops(c) == Cardinality({i \in 1 .. Len(replies[c]) : replies[c][i] = "stop"})
Sent(c) == pc[c] = "ack" /\ then[c] = "clear"
Owed(c) == Stops(c) + IF run_state[c] /\ ~Sent(c) THEN 1 ELSE 0

Wanted(c) == IF view[c] = "running" THEN 1 ELSE 0
Surplus(c) == Owed(c) - Wanted(c)

\* What makes a session owe its GDB a stop reply too many: an interrupt that crosses
\* the reply (gdb_main.cpp:354), a packet sent again for want of a '+'
\* (gdb_packet.cpp:204), and an exception that leaves run_state set (gdb_if.cpp:138).
Crosses(c) == Interrupt(c) /\ ~run_state[c]
Excepted(c) == \/ PollRaises(c) \/ InterruptRaises(c)
               \/ \E step \in BOOLEAN : VContRaises(c, step)

\* A GDB that waits is always owed a stop reply, whatever the sessions, the target and
\* the user do and in whatever order (gdb_main.cpp 207-358, 799-829).  A session owes
\* its GDB more than it waits for only by an interrupt that crosses the reply, by a
\* packet sent again, or by an exception; every other step of every session leaves
\* the surplus, or makes it smaller.
InStep == /\ [](\A c \in Clients : Surplus(c) >= 0)
          /\ [][\A c \in Clients :
                    Surplus(c)' > Surplus(c) => Crosses(c) \/ Resend(c) \/ Excepted(c)]_vars

\* A GDB that waits for a target that is not there, with no stop reply on its way, has
\* lost the target to another session: nothing that its own session does leaves it
\* waiting for ever, not even one that has lost step.
OnlyOthersStrand ==
    \A c \in Clients : view[c] = "running" /\ Stops(c) = 0 /\ ~attached => by # c

\* The step flag of a session that waits for nothing is not set, so that its next 'c'
\* is no step, unless an 's' has failed: gdb_main.cpp:335 sets the flag before there is
\* anything to wait for, and only a poll or a vCont resets it.  (A run_state that
\* outlives the wait, as after an exception in the poll that follows an 's', takes the
\* flag along, and the next 'c' is a step: these are the surpluses of InStep.)
StepFlagIsCurrent ==
    [][\A c \in Clients :
           single_step'[c] /\ ~run_state'[c] =>
               (single_step[c] /\ ~run_state[c]) \/ ResumeFails(c, TRUE)]_vars

\* Nobody keeps the lock for ever.
LockFree == []<>~kept

\* If nobody keeps the lock for ever, a session whose GDB waits tells it when the
\* target has halted, unless another session lets it run again or takes it away, or
\* an exception does.
HaltIsReported ==
    LockFree => \A c \in Clients :
        run_state[c] /\ attached /\ core = "halted" ~>
            ~run_state[c] \/ ~attached \/ core # "halted"

\* If nobody keeps the lock for ever, an interrupt that reaches a session while it
\* does not wait for a '+' gets the user back to the prompt, unless another session
\* has taken the target or let it run again.  One that comes while the session waits
\* for a '+' is taken for a missing one, and lost (gdb_packet.cpp:204).
InterruptStops ==
    LockFree => \A c \in Clients :
        Interrupting(c) /\ view[c] = "running" /\ pc[c] = "loop" ~>
            view[c] = "stopped" \/ ~attached \/ by # c
=============================================================================

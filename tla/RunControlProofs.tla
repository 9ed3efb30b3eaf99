-------------------------- MODULE RunControlProofs --------------------------
(***************************************************************************)
(* For any number of sessions, of retries and any bound of the queues: the *)
(* state of run control has its type; the step flag of a session outlives  *)
(* run_state only when an 's' has failed; each GDB that waits is owed a    *)
(* stop reply, and none is owed too many but for the three known causes;   *)
(* and a GDB that waits for a target that is not there has lost it to      *)
(* another session.                                                        *)
(***************************************************************************)
EXTENDS RunControl, FiniteSetTheorems, FunctionTheorems, SequenceTheorems, TLAPS

\* Nothing has happened yet.
LEMMA InitType == Init => TypeOK
<1> SUFFICES ASSUME Init PROVE TypeOK
  OBVIOUS
<1>1. /\ wire \in [Clients -> Seq({"brk", "+"})]
      /\ replies \in [Clients -> Seq({"stop", "ok"})]
  BY DEF Init
<1>2. /\ pc \in [Clients -> {"off", "loop", "ack"}]
      /\ then \in [Clients -> {"ok", "clear", "told", "lost"}]
      /\ view \in [Clients -> {"stopped", "running"}]
      /\ \A c \in Clients : pc[c] # "ack"
  BY DEF Init
<1>3. /\ tries \in [Clients -> 0 .. Retries]
      /\ run_state \in [Clients -> BOOLEAN] /\ single_step \in [Clients -> BOOLEAN]
  BY RunAssumption DEF Init
<1> QED
  BY <1>1, <1>2, <1>3 DEF Init, TypeOK

\* The types of the target's state, of the tasks' and of the flags.
TargetType == /\ attached \in BOOLEAN /\ last \in BOOLEAN
              /\ core \in {"running", "halting", "halted"}
              /\ by \in Clients \cup {NoClient}
TaskType == /\ pc \in [Clients -> {"off", "loop", "ack"}]
            /\ then \in [Clients -> {"ok", "clear", "told", "lost"}]
            /\ tries \in [Clients -> 0 .. Retries]
            /\ \A c \in Clients : pc[c] = "ack" => c \notin NoAckers
FlagType == run_state \in [Clients -> BOOLEAN] /\ single_step \in [Clients -> BOOLEAN]
WireType == wire \in [Clients -> Seq({"brk", "+"})]
RepliesType == replies \in [Clients -> Seq({"stop", "ok"})]
ViewType == view \in [Clients -> {"stopped", "running"}]

LEMMA Types ==
    /\ TypeOK <=> /\ kept \in BOOLEAN /\ TargetType /\ TaskType /\ FlagType
                  /\ WireType /\ RepliesType /\ ViewType
    /\ TypeOK' <=> /\ kept' \in BOOLEAN /\ TargetType' /\ TaskType' /\ FlagType'
                   /\ WireType' /\ RepliesType' /\ ViewType'
  BY DEF TypeOK, TargetType, TaskType, FlagType, WireType, RepliesType, ViewType

\* What has not changed has its type.
LEMMA KeptTypes ==
    ASSUME TypeOK
    PROVE  /\ UNCHANGED target => TargetType'
           /\ UNCHANGED task => TaskType'
           /\ UNCHANGED flags => FlagType'
           /\ UNCHANGED wire => WireType'
           /\ UNCHANGED replies => RepliesType'
           /\ UNCHANGED view => ViewType'
           /\ UNCHANGED kept => kept' \in BOOLEAN
  BY Types
  DEF target, task, flags, TargetType, TaskType, FlagType, WireType, RepliesType, ViewType

\* A change of the target keeps its type.
LEMMA TargetTypes ==
    ASSUME TypeOK, NEW c \in Clients
    PROVE  /\ Lost(c) => TargetType'
           /\ Run(c) => TargetType'
           /\ Halt => TargetType'
           /\ (\E b \in BOOLEAN : SetTarget(c, b)) /\ last' \in BOOLEAN => TargetType'
  BY Types DEF TargetType, Lost, SetTarget, Run, Halt

\* So does every way to set the flags of a session.
LEMMA FlagTypes ==
    ASSUME TypeOK, NEW c \in Clients, NEW b \in BOOLEAN, NEW d \in BOOLEAN,
           run_state' = Set(run_state, c, b) \/ UNCHANGED run_state,
           single_step' = Set(single_step, c, d) \/ UNCHANGED single_step
    PROVE  FlagType'
<1>1. run_state \in [Clients -> BOOLEAN] /\ single_step \in [Clients -> BOOLEAN]
  BY DEF TypeOK
<1>2. run_state' \in [Clients -> BOOLEAN]
  BY <1>1 DEF Set
<1>3. single_step' \in [Clients -> BOOLEAN]
  BY <1>1 DEF Set
<1> QED
  BY <1>2, <1>3 DEF FlagType

LEMMA ClearedTypes ==
    ASSUME TypeOK, NEW c \in Clients, Cleared(c)
    PROVE  FlagType'
  BY FlagTypes DEF Cleared

\* Sending a packet, with or without a wait for the '+', keeps the types.
LEMMA PutTypes ==
    ASSUME TypeOK, NEW c \in Clients, NEW r \in {"stop", "ok"},
           NEW what \in {"ok", "clear", "told", "lost"}, Put(c, r, what)
    PROVE  RepliesType' /\ TaskType'
<1>1. RepliesType'
  BY Types DEF RepliesType, Put, Send
<1>2. TaskType'
  BY Types DEF TaskType, Put, Set, task
<1> QED
  BY <1>1, <1>2

LEMMA RaisesTypes ==
    ASSUME TypeOK, NEW c \in Clients, Raises(c)
    PROVE  RepliesType' /\ TaskType' /\ TargetType'
  BY PutTypes, KeptTypes, TargetTypes DEF Raises

\* Taking the first element off what a GDB has sent, or adding one, keeps the type.
LEMMA WireTypes ==
    ASSUME TypeOK, NEW c \in Clients
    PROVE  /\ wire[c] # <<>> /\ wire' = [wire EXCEPT ![c] = Tail(@)] => WireType'
           /\ \A x \in {"brk", "+"} : wire' = [wire EXCEPT ![c] = Append(@, x)] => WireType'
<1>1. wire \in [Clients -> Seq({"brk", "+"})]
  BY DEF TypeOK
<1>2. ASSUME wire[c] # <<>>, wire' = [wire EXCEPT ![c] = Tail(@)] PROVE WireType'
  <2>1. Tail(wire[c]) \in Seq({"brk", "+"})
    BY <1>1, <1>2
  <2> QED
    BY <1>1, <1>2, <2>1 DEF WireType
<1>3. ASSUME NEW x \in {"brk", "+"}, wire' = [wire EXCEPT ![c] = Append(@, x)]
      PROVE  WireType'
  BY <1>1, <1>3 DEF WireType
<1> QED
  BY <1>2, <1>3

\* A packet is acknowledged, or given up, or sent again.
LEMMA AckTypes ==
    ASSUME TypeOK, NEW c \in Clients, AckOver(c) \/ Resend(c)
    PROVE  RepliesType' /\ TaskType' /\ TargetType' /\ FlagType'
<1>1. CASE AckOver(c)
  <2>1. FlagType'
    BY <1>1, KeptTypes, ClearedTypes DEF AckOver
  <2>2. TargetType'
    BY <1>1, KeptTypes, TargetTypes DEF AckOver
  <2>3. TaskType'
    BY <1>1, Types, RunAssumption DEF AckOver, TaskType, Set
  <2> QED
    BY <1>1, <2>1, <2>2, <2>3, KeptTypes DEF AckOver
<1>2. CASE Resend(c)
  <2>1. RepliesType'
    BY <1>2, Types DEF Resend, Send, RepliesType
  <2>2. TaskType'
    BY <1>2, Types, RunAssumption DEF Resend, TaskType, Set
  <2> QED
    BY <1>2, <2>1, <2>2, KeptTypes DEF Resend, target, flags
<1> QED
  BY <1>1, <1>2

\* Every step of the sessions, the GDBs and the target keeps the type.
LEMMA NextType == TypeOK /\ [Next]_vars => TypeOK'
<1> SUFFICES ASSUME TypeOK, [Next]_vars PROVE TypeOK'
  OBVIOUS
<1> USE KeptTypes
<1>1. CASE UNCHANGED vars
  BY <1>1, Types DEF vars, gdb
<1>2. CASE CoreHalts \/ CoreObeys
  <2>1. TargetType'
    BY <1>2, Types DEF CoreHalts, CoreObeys, TargetType
  <2> QED
    BY <1>2, <2>1, Types DEF CoreHalts, CoreObeys, gdb
<1>3. CASE Keep \/ Unkeep
  BY <1>3, Types DEF Keep, Unkeep, gdb
<1>4. ASSUME NEW c \in Clients, AckRead(c) \/ AckTimeout(c) PROVE TypeOK'
  <2>1. WireType' /\ UNCHANGED <<kept, view>>
    BY <1>4, WireTypes DEF AckRead, AckTimeout, Locks
  <2>2. AckOver(c) \/ Resend(c)
    BY <1>4 DEF AckRead, AckTimeout, NoAck
  <2> QED
    BY <2>1, <2>2, AckTypes, Types
<1>5. ASSUME NEW c \in Clients, Stray(c) PROVE TypeOK'
  BY <1>5, WireTypes, Types DEF Stray
<1>6. ASSUME NEW c \in Clients, Poll(c) PROVE TypeOK'
  <2>1. FlagType'
    BY <1>6, ClearedTypes DEF Poll
  <2> QED
    BY <1>6, <2>1, PutTypes, Types DEF Poll, MustPoll, Locks
<1>7. ASSUME NEW c \in Clients, PollRaises(c) PROVE TypeOK'
  BY <1>7, RaisesTypes, Types DEF PollRaises, MustPoll, Locks
<1>8. ASSUME NEW c \in Clients, Interrupt(c) \/ InterruptRaises(c) PROVE TypeOK'
  <2>1. Interrupts(c)
    BY <1>8 DEF Interrupt, InterruptRaises
  <2>2. FlagType' /\ WireType' /\ UNCHANGED <<kept, view>>
    BY <2>1, FlagTypes, WireTypes DEF Interrupts, Locks
  <2>3. TargetType' /\ TaskType' /\ RepliesType'
    BY <1>8, TargetTypes, RaisesTypes DEF Interrupt, InterruptRaises
  <2> QED
    BY <2>2, <2>3, Types
<1>9. ASSUME NEW c \in Clients, Asks(c), Waits(c),
             \/ \E step \in BOOLEAN : \/ Resume(c, step) \/ ResumeFails(c, step)
                                      \/ VContRaises(c, step)
                                      \/ \E go \in {"none", "c", "t"} : VCont(c, step, go)
             \/ VContFails(c)
      PROVE  TypeOK'
  <2>1. ViewType' /\ UNCHANGED <<kept, wire>>
    BY <1>9, Types DEF Asks, Locks, Waits, Set, ViewType
  <2>2. ASSUME NEW step \in BOOLEAN, Resume(c, step) PROVE TypeOK'
    <3>1. (single_step[c] \/ step) \in BOOLEAN
      OBVIOUS
    <3>2. FlagType'
      BY <2>2, <3>1, FlagTypes DEF Resume
    <3> QED
      BY <2>1, <2>2, <3>2, TargetTypes, Types DEF Resume
  <2>3. ASSUME NEW step \in BOOLEAN, ResumeFails(c, step) PROVE TypeOK'
    <3>1. (single_step[c] \/ step) \in BOOLEAN
      OBVIOUS
    <3>2. FlagType'
      BY <2>3, <3>1, FlagTypes DEF ResumeFails
    <3>3. RepliesType' /\ TaskType' /\ TargetType'
      BY <2>3, PutTypes, RaisesTypes DEF ResumeFails
    <3> QED
      BY <2>1, <3>2, <3>3, Types
  <2>4. ASSUME NEW step \in BOOLEAN, VContSets(c, step) PROVE FlagType'
    BY <2>4, FlagTypes DEF VContSets
  <2>5. ASSUME NEW step \in BOOLEAN, NEW go \in {"none", "c", "t"}, VCont(c, step, go)
        PROVE  TypeOK'
    BY <2>1, <2>4, <2>5, PutTypes, TargetTypes, Types DEF VCont
  <2>6. ASSUME NEW step \in BOOLEAN, VContRaises(c, step) PROVE TypeOK'
    BY <2>1, <2>4, <2>6, RaisesTypes, Types DEF VContRaises
  <2>7. CASE VContFails(c)
    BY <2>1, <2>7, PutTypes, Types DEF VContFails
  <2> QED
    BY <1>9, <2>2, <2>3, <2>5, <2>6, <2>7
<1>10. ASSUME NEW c \in Clients,
              \/ Detach(c) \/ Kill(c) \/ ResetTarget(c) \/ Reattach(c)
              \/ Attach(c) \/ Rescan(c)
       PROVE  TypeOK'
  <2>1. Answered(c)
    BY <1>10 DEF Detach, Kill, ResetTarget, Reattach, Attach, Rescan
  <2>2. TargetType'
    BY <1>10, Types
    DEF TargetType, Detach, Kill, ResetTarget, Reattach, Attach, Rescan, Lost, SetTarget, Run
  <2> QED
    BY <2>1, <2>2, Types DEF Answered, Asks, Locks
<1>11. ASSUME NEW c \in Clients, Connect(c) PROVE TypeOK'
  <2>1. TaskType'
    BY <1>11, Types DEF Connect, TaskType, Set
  <2>2. TargetType'
    BY <1>11, TargetTypes DEF Connect
  <2> QED
    BY <1>11, <2>1, <2>2, Types DEF Connect, Locks, gdb
<1>12. ASSUME NEW c \in Clients, Disconnect(c) PROVE TypeOK'
  <2>1. TaskType'
    BY <1>12, Types, RunAssumption DEF Disconnect, TaskType, Set
  <2>2. WireType' /\ RepliesType'
    BY <1>12, Types DEF Disconnect, WireType, RepliesType, Set
  <2>3. ViewType' /\ kept' \in BOOLEAN
    BY <1>12, Types DEF Disconnect, ViewType, Set
  <2> QED
    BY <1>12, <2>1, <2>2, <2>3, ClearedTypes, Types DEF Disconnect
<1>13. ASSUME NEW c \in Clients, GdbInterrupts(c) PROVE TypeOK'
  BY <1>13, WireTypes, Types DEF GdbInterrupts
<1>14. ASSUME NEW c \in Clients, GdbReceives(c) PROVE TypeOK'
  <2>1. WireType'
    BY <1>14, WireTypes DEF GdbReceives
  <2>2. RepliesType'
    BY <1>14, Types DEF GdbReceives, RepliesType
  <2>3. ViewType'
    BY <1>14, Types DEF GdbReceives, ViewType, Set
  <2> QED
    BY <1>14, <2>1, <2>2, <2>3, Types DEF GdbReceives
<1> QED
  BY <1>1, <1>2, <1>3, <1>4, <1>5, <1>6, <1>7, <1>8, <1>9, <1>10, <1>11, <1>12, <1>13,
     <1>14
  DEF Next, Resume, ResumeFails, VCont, VContRaises, VContSets, VContFails

\* gdb_main.cpp 207-358 and 799-829: the state of run control has its type; in
\* particular no session in no-ack mode waits for a '+', and none sends a packet more
\* often than the code retries.
THEOREM RunTypeCorrect == Spec => []TypeOK
  BY InitType, NextType, PTL DEF Spec

(***************************************************************************)
(* The step flag.                                                          *)
(***************************************************************************)
FlagOK(c) == single_step'[c] /\ ~run_state'[c] =>
                 (single_step[c] /\ ~run_state[c]) \/ ResumeFails(c, TRUE)

\* Resetting both flags, or setting run_state, leaves no step flag behind.
LEMMA FlagsKept ==
    ASSUME TypeOK, NEW c \in Clients,
           \/ UNCHANGED flags
           \/ Cleared(c)
           \/ run_state' = Set(run_state, c, TRUE) /\ UNCHANGED single_step
           \/ \E b \in BOOLEAN : /\ run_state' = Set(run_state, c, TRUE)
                                 /\ single_step' = Set(single_step, c, b)
    PROVE  \A d \in Clients : FlagOK(d)
<1> SUFFICES ASSUME NEW d \in Clients PROVE FlagOK(d)
  OBVIOUS
<1>1. run_state \in [Clients -> BOOLEAN] /\ single_step \in [Clients -> BOOLEAN]
  BY DEF TypeOK
<1>2. CASE UNCHANGED flags
  BY <1>2 DEF FlagOK, flags
<1>3. CASE Cleared(c)
  BY <1>1, <1>3 DEF FlagOK, Cleared, Set
<1>4. CASE run_state' = Set(run_state, c, TRUE) /\ UNCHANGED single_step
  BY <1>1, <1>4 DEF FlagOK, Set
<1>5. ASSUME NEW b \in BOOLEAN, run_state' = Set(run_state, c, TRUE),
             single_step' = Set(single_step, c, b)
      PROVE  FlagOK(d)
  BY <1>1, <1>5 DEF FlagOK, Set
<1> QED
  BY <1>2, <1>3, <1>4, <1>5

\* Only an 's' that fails leaves the flag behind.
LEMMA NextFlags == TypeOK /\ [Next]_vars => \A c \in Clients : FlagOK(c)
<1> SUFFICES ASSUME TypeOK, [Next]_vars PROVE \A c \in Clients : FlagOK(c)
  OBVIOUS
<1>1. CASE UNCHANGED flags
  <2>1. ASSUME NEW c \in Clients PROVE FlagOK(c)
    BY <1>1, FlagsKept
  <2> QED
    BY <2>1
<1>2. CASE UNCHANGED vars \/ CoreHalts \/ CoreObeys \/ Keep \/ Unkeep
  BY <1>1, <1>2 DEF vars, CoreHalts, CoreObeys, Keep, Unkeep
<1>3. ASSUME NEW c \in Clients,
             \/ Stray(c) \/ PollRaises(c) \/ VContFails(c) \/ Connect(c)
             \/ Detach(c) \/ Kill(c) \/ ResetTarget(c) \/ Reattach(c)
             \/ Attach(c) \/ Rescan(c) \/ GdbInterrupts(c) \/ GdbReceives(c)
      PROVE  UNCHANGED flags
  BY <1>3
  DEF Stray, PollRaises, VContFails, Connect, Answered, Detach, Kill, ResetTarget,
      Reattach, Attach, Rescan, GdbInterrupts, GdbReceives
<1>4. ASSUME NEW c \in Clients, AckRead(c) \/ AckTimeout(c)
      PROVE  UNCHANGED flags \/ Cleared(c)
  BY <1>4 DEF AckRead, AckTimeout, NoAck, AckOver, Resend, flags
<1>5. ASSUME NEW c \in Clients, Poll(c) \/ Disconnect(c)
      PROVE  UNCHANGED flags \/ Cleared(c)
  BY <1>5 DEF Poll, Disconnect
<1>6. ASSUME NEW c \in Clients, Interrupt(c) \/ InterruptRaises(c)
      PROVE  run_state' = Set(run_state, c, TRUE) /\ UNCHANGED single_step
  BY <1>6 DEF Interrupt, InterruptRaises, Interrupts
<1>7. ASSUME NEW c \in Clients, NEW step \in BOOLEAN, Resume(c, step)
      PROVE  \E b \in BOOLEAN : /\ run_state' = Set(run_state, c, TRUE)
                                /\ single_step' = Set(single_step, c, b)
  BY <1>7 DEF Resume
<1>8. ASSUME NEW c \in Clients, NEW step \in BOOLEAN,
             VContRaises(c, step) \/ \E go \in {"none", "c", "t"} : VCont(c, step, go)
      PROVE  /\ run_state' = Set(run_state, c, TRUE)
             /\ single_step' = Set(single_step, c, step)
  BY <1>8 DEF VCont, VContRaises, VContSets
<1>9. ASSUME NEW c \in Clients, NEW step \in BOOLEAN, ResumeFails(c, step)
      PROVE  \A d \in Clients : FlagOK(d)
  <2>1. run_state' = run_state /\ single_step' = Set(single_step, c, single_step[c] \/ step)
    BY <1>9 DEF ResumeFails
  <2>2. CASE step
    <3>1. ResumeFails(c, TRUE)
      BY <1>9, <2>2
    <3> QED
      BY <2>1, <3>1 DEF FlagOK, Set, TypeOK
  <2>3. CASE ~step
    <3>1. single_step' = single_step
      BY <2>1, <2>3 DEF Set, TypeOK
    <3> QED
      BY <2>1, <3>1 DEF FlagOK
  <2> QED
    BY <2>2, <2>3
<1> QED
  BY <1>1, <1>2, <1>3, <1>4, <1>5, <1>6, <1>7, <1>8, <1>9, FlagsKept DEF Next

\* single_step outlives run_state, so that a later continue is a step, only when an 's'
\* has failed (gdb_main.cpp:335).
THEOREM RunStepFlagIsCurrent == Spec => StepFlagIsCurrent
<1>1. TypeOK /\ [Next]_vars =>
          [\A c \in Clients :
               single_step'[c] /\ ~run_state'[c] =>
                   (single_step[c] /\ ~run_state[c]) \/ ResumeFails(c, TRUE)]_vars
  BY NextFlags DEF FlagOK
<1> QED
  BY <1>1, RunTypeCorrect, PTL DEF Spec, StepFlagIsCurrent

(***************************************************************************)
(* The number of stop replies on their way.                                *)
(***************************************************************************)
StopsAt(s) == {i \in 1 .. Len(s) : s[i] = "stop"}
Count(s) == Cardinality(StopsAt(s))

\* A queue has finitely many stop replies, and an empty one has none.
LEMMA CountType ==
    ASSUME NEW s \in Seq({"stop", "ok"})
    PROVE  IsFiniteSet(StopsAt(s)) /\ Count(s) \in Nat /\ (s = <<>> => Count(s) = 0)
<1>1. IsFiniteSet(1 .. Len(s))
  BY FS_Interval
<1>2. IsFiniteSet(StopsAt(s))
  BY <1>1, FS_Subset DEF StopsAt
<1>3. s = <<>> => StopsAt(s) = {}
  BY DEF StopsAt
<1> QED
  BY <1>2, <1>3, FS_CardinalityType, FS_EmptySet DEF Count

\* Sending a packet adds one, if it is a stop reply.
LEMMA CountAppend ==
    ASSUME NEW s \in Seq({"stop", "ok"}), NEW r \in {"stop", "ok"}
    PROVE  Count(Append(s, r)) = Count(s) + (IF r = "stop" THEN 1 ELSE 0)
<1>1. /\ Len(Append(s, r)) = Len(s) + 1 /\ Len(s) \in Nat
      /\ \A i \in 1 .. Len(s) : Append(s, r)[i] = s[i]
      /\ Append(s, r)[Len(s) + 1] = r
  BY AppendProperties
<1>2. CASE r = "stop"
  <2>1. StopsAt(Append(s, r)) = StopsAt(s) \cup {Len(s) + 1}
    BY <1>1, <1>2 DEF StopsAt
  <2>2. Len(s) + 1 \notin StopsAt(s)
    BY <1>1 DEF StopsAt
  <2> QED
    BY <1>2, <2>1, <2>2, CountType, FS_AddElement DEF Count
<1>3. CASE r = "ok"
  <2>1. StopsAt(Append(s, r)) = StopsAt(s)
    BY <1>1, <1>3 DEF StopsAt
  <2> QED
    BY <1>3, <2>1, CountType DEF Count
<1> QED
  BY <1>2, <1>3

\* Receiving a packet removes one, if it is a stop reply.
LEMMA CountTail ==
    ASSUME NEW s \in Seq({"stop", "ok"}), s # <<>>
    PROVE  Count(s) = Count(Tail(s)) + (IF Head(s) = "stop" THEN 1 ELSE 0)
<1> DEFINE later == StopsAt(s) \ {1}
           shift == [i \in StopsAt(Tail(s)) |-> i + 1]
<1>1. /\ Tail(s) \in Seq({"stop", "ok"}) /\ Len(s) \in Nat /\ Len(s) > 0
      /\ Len(Tail(s)) = Len(s) - 1
      /\ \A i \in 1 .. Len(Tail(s)) : Tail(s)[i] = s[i + 1]
      /\ Head(s) = s[1]
  BY HeadTailProperties
<1>2. IsFiniteSet(StopsAt(Tail(s)))
  BY <1>1, CountType
<1>3. shift \in Bijection(StopsAt(Tail(s)), later)
  <2>1. shift \in [StopsAt(Tail(s)) -> later]
    BY <1>1 DEF StopsAt
  <2>2. \A j \in later : \E i \in StopsAt(Tail(s)) : shift[i] = j
    <3> SUFFICES ASSUME NEW j \in later PROVE \E i \in StopsAt(Tail(s)) : shift[i] = j
      OBVIOUS
    <3>1. j - 1 \in 1 .. Len(Tail(s)) /\ s[j] = "stop"
      BY <1>1 DEF StopsAt
    <3>2. j - 1 \in StopsAt(Tail(s))
      BY <1>1, <3>1 DEF StopsAt
    <3>3. shift[j - 1] = j
      BY <1>1, <3>2 DEF StopsAt
    <3> QED
      BY <3>2, <3>3
  <2>3. \A i, j \in StopsAt(Tail(s)) : shift[i] = shift[j] => i = j
    BY DEF StopsAt
  <2> QED
    BY <2>1, <2>2, <2>3, Fun_IsBij
<1>4. IsFiniteSet(later) /\ Cardinality(later) = Count(Tail(s))
  BY <1>2, <1>3, FS_Bijection DEF ExistsBijection, Count
<1>5. CASE Head(s) = "stop"
  <2>1. StopsAt(s) = later \cup {1}
    BY <1>1, <1>5 DEF StopsAt
  <2> HIDE DEF later
  <2>2. 1 \notin later
    BY DEF later
  <2> QED
    BY <1>4, <1>5, <2>1, <2>2, FS_AddElement DEF Count
<1>6. CASE Head(s) # "stop"
  <2>1. StopsAt(s) = later
    BY <1>1, <1>6 DEF StopsAt
  <2>2. Count(s) = Count(Tail(s))
    BY <1>4, <2>1 DEF Count
  <2>3. Count(Tail(s)) \in Nat
    BY <1>1, CountType
  <2> QED
    BY <1>6, <2>2, <2>3
<1> QED
  BY <1>5, <1>6

(***************************************************************************)
(* What the sessions owe their GDBs.  An action changes the state of one   *)
(* session, and the target; every other session notices at most that it    *)
(* has lost the target.                                                    *)
(***************************************************************************)
Due(c) == IF run_state[c] /\ ~Sent(c) THEN 1 ELSE 0
Extra(c) == (Count(replies[c]) + Due(c)) - Wanted(c)

\* An absent session owes nothing, and no GDB is owed too little; a GDB that waits for
\* a target that its own session has given up will get a stop reply, also while the
\* session waits for the '+' to give it up.
SessionOK(c) ==
    /\ pc[c] = "off" => view[c] = "stopped" /\ replies[c] = <<>> /\ ~run_state[c]
    /\ Extra(c) >= 0
    /\ by = c /\ ~attached /\ view[c] = "running" => Count(replies[c]) > 0
    /\ pc[c] = "ack" /\ then[c] = "lost" /\ view[c] = "running" => Count(replies[c]) > 0

Sessions == \A c \in Clients : SessionOK(c)

Grows(c) == Extra(c)' > Extra(c) => Crosses(c) \/ Resend(c) \/ Excepted(c)

OthersKept(c) ==
    \A d \in Clients \ {c} :
        /\ pc'[d] = pc[d] /\ then'[d] = then[d] /\ run_state'[d] = run_state[d]
        /\ view'[d] = view[d] /\ replies'[d] = replies[d]
        /\ attached' \/ by' # d \/ (attached' = attached /\ by' = by)

\* A property of the steps and of the states that they reach.
Good == Sessions' /\ \A c \in Clients : Grows(c)

\* The count of a queue, and what is due and wanted, are numbers.
LEMMA ExtraType ==
    ASSUME TypeOK, NEW c \in Clients
    PROVE  /\ replies[c] \in Seq({"stop", "ok"})
           /\ Count(replies[c]) \in Nat /\ Due(c) \in {0, 1} /\ Wanted(c) \in {0, 1}
           /\ Extra(c) \in Int
<1>1. replies[c] \in Seq({"stop", "ok"})
  BY DEF TypeOK
<1>2. Due(c) \in {0, 1} /\ Wanted(c) \in {0, 1}
  BY DEF Due, Wanted
<1>3. Count(replies[c]) \in Nat
  BY <1>1, CountType
<1> QED
  BY <1>1, <1>2, <1>3 DEF Extra

\* What a session owes depends on nothing but its own state.
LEMMA SameExtra ==
    ASSUME NEW d \in Clients,
           pc'[d] = pc[d], then'[d] = then[d], run_state'[d] = run_state[d],
           view'[d] = view[d], replies'[d] = replies[d]
    PROVE  Extra(d)' = Extra(d)
  BY DEF Extra, Due, Sent, Wanted

\* It is enough to look at the session that takes the step.
LEMMA OneSession ==
    ASSUME TypeOK, Sessions, NEW c \in Clients, SessionOK(c)', Grows(c), OthersKept(c)
    PROVE  Good
<1>1. ASSUME NEW d \in Clients \ {c} PROVE SessionOK(d)' /\ Grows(d)
  <2>1. Extra(d)' = Extra(d) /\ Extra(d) \in Int
    BY SameExtra, ExtraType DEF OthersKept
  <2>2. SessionOK(d)'
    BY <2>1 DEF Sessions, OthersKept, SessionOK
  <2> QED
    BY <2>1, <2>2 DEF Grows
<1> QED
  BY <1>1 DEF Good, Sessions

\* A step that leaves all of that alone.
LEMMA NoSession ==
    ASSUME TypeOK, Sessions,
           UNCHANGED <<pc, then, run_state, view, replies, attached, by>>
    PROVE  Good
<1>1. ASSUME NEW d \in Clients PROVE SessionOK(d)' /\ Grows(d)
  <2>1. Extra(d)' = Extra(d) /\ Extra(d) \in Int
    BY SameExtra, ExtraType
  <2>2. SessionOK(d)'
    BY <2>1 DEF Sessions, SessionOK
  <2> QED
    BY <2>1, <2>2 DEF Grows
<1> QED
  BY <1>1 DEF Good, Sessions

\* At first there are no sessions.
LEMMA InitSessions == Init => Sessions
<1> SUFFICES ASSUME Init, NEW c \in Clients PROVE SessionOK(c)
  BY DEF Sessions
<1>1. /\ pc[c] = "off" /\ view[c] = "stopped" /\ replies[c] = <<>> /\ ~run_state[c]
  BY DEF Init
<1>2. Count(replies[c]) \in Nat
  BY InitType, ExtraType
<1>3. Due(c) = 0 /\ Wanted(c) = 0
  BY <1>1 DEF Due, Wanted
<1> QED
  BY <1>1, <1>2, <1>3 DEF SessionOK, Extra

\* What sending a packet means for the session and for the others.
LEMMA PutSession ==
    ASSUME TypeOK, NEW c \in Clients, NEW r \in {"stop", "ok"},
           NEW what \in {"ok", "clear", "told", "lost"}, Put(c, r, what), pc[c] = "loop"
    PROVE  /\ Count(replies'[c]) = Count(replies[c]) + (IF r = "stop" THEN 1 ELSE 0)
           /\ Count(replies[c]) \in Nat
           /\ \/ c \in NoAckers /\ pc'[c] = "loop"
              \/ c \notin NoAckers /\ pc'[c] = "ack" /\ then'[c] = what
           /\ \A d \in Clients \ {c} : /\ replies'[d] = replies[d]
                                       /\ pc'[d] = pc[d] /\ then'[d] = then[d]
<1>1. replies' = [replies EXCEPT ![c] = Append(@, r)]
  BY DEF Put, Send
<1>2. replies[c] \in Seq({"stop", "ok"}) /\ replies'[c] = Append(replies[c], r)
  BY <1>1 DEF TypeOK
<1>3. /\ Count(replies'[c]) = Count(replies[c]) + (IF r = "stop" THEN 1 ELSE 0)
      /\ Count(replies[c]) \in Nat
  BY <1>2, CountAppend, CountType
<1>4. \/ c \in NoAckers /\ pc'[c] = "loop"
      \/ c \notin NoAckers /\ pc'[c] = "ack" /\ then'[c] = what
  BY DEF Put, Set, TypeOK, task
<1>5. \A d \in Clients \ {c} : pc'[d] = pc[d] /\ then'[d] = then[d]
  BY DEF Put, Set, TypeOK, task
<1> QED
  BY <1>1, <1>3, <1>4, <1>5 DEF TypeOK

\* Only the session that gives up the target is named for that.
LEMMA TargetOthers ==
    ASSUME NEW c \in Clients,
           \/ UNCHANGED target \/ Lost(c) \/ Run(c) \/ Halt
           \/ \E b \in BOOLEAN : SetTarget(c, b)
    PROVE  attached' \/ by' = c \/ (attached' = attached /\ by' = by)
  BY DEF target, Lost, Run, Halt, SetTarget

\* An exception owes the GDB a stop reply at once, whatever else it does.
LEMMA RaisesSession ==
    ASSUME TypeOK, TypeOK', NEW c \in Clients, Raises(c), pc[c] = "loop", Excepted(c)
    PROVE  /\ SessionOK(c)' /\ Grows(c)
           /\ \A d \in Clients \ {c} : /\ replies'[d] = replies[d]
                                       /\ pc'[d] = pc[d] /\ then'[d] = then[d]
           /\ attached' \/ by' = c \/ (attached' = attached /\ by' = by)
<1>1. Put(c, "stop", "lost")
  BY DEF Raises
<1>2. /\ Count(replies'[c]) = Count(replies[c]) + 1 /\ Count(replies[c]) \in Nat
      /\ pc'[c] # "off"
      /\ \A d \in Clients \ {c} : /\ replies'[d] = replies[d]
                                  /\ pc'[d] = pc[d] /\ then'[d] = then[d]
  BY <1>1, PutSession
<1>3. Due(c)' \in {0, 1} /\ Wanted(c)' \in {0, 1}
  BY DEF Due, Wanted
<1>4. Extra(c)' >= 0
  <2> DEFINE n == Count(replies[c])   m == Count(replies'[c])
             b == Due(c)'             w == Wanted(c)'
  <2>1. m = n + 1 /\ n \in Nat /\ b \in {0, 1} /\ w \in {0, 1} /\ Extra(c)' = (m + b) - w
    BY <1>2, <1>3 DEF Extra
  <2> HIDE DEF n, m, b, w
  <2> QED
    BY <2>1
<1>5. Count(replies'[c]) > 0
  BY <1>2
<1>6. attached' \/ by' = c \/ (attached' = attached /\ by' = by)
  BY TargetOthers DEF Raises
<1>7. SessionOK(c)'
  BY <1>2, <1>4, <1>5 DEF SessionOK
<1> QED
  BY <1>2, <1>6, <1>7 DEF Grows

\* The numbers of a step that answers a command with a stop reply: the GDB wants one
\* more, and gets it.
LEMMA Answers ==
    ASSUME NEW n \in Nat, NEW m \in Nat, NEW b \in {0, 1}, NEW v \in {0, 1}, NEW w \in {0, 1},
           NEW x \in {0, 1}, (n + b) - v >= 0
    PROVE  /\ m = n + 1 /\ x = b /\ v = 0 /\ w = 1 => (m + x) - w = (n + b) - v
           /\ m = n + 1 /\ b = 1 /\ x = 0 /\ w = v => (m + x) - w = (n + b) - v
           /\ m = n /\ x = 1 /\ v = 0 /\ w = 1 => /\ (m + x) - w >= 0
                                                  /\ ~((m + x) - w > (n + b) - v)
           /\ m >= n /\ x = b /\ w = v => (m + x) - w >= (n + b) - v
           /\ n = m + 1 /\ x = b /\ w = 0 => /\ (m + x) - w >= 0
                                             /\ ~((m + x) - w > (n + b) - v)
  OBVIOUS

\* Every step keeps what the sessions owe, and only the three named ones owe more.
LEMMA NextSessions == TypeOK /\ TypeOK' /\ Sessions /\ [Next]_vars => Good
<1> SUFFICES ASSUME TypeOK, TypeOK', Sessions, [Next]_vars PROVE Good
  OBVIOUS
<1>0. ASSUME NEW c \in Clients
      PROVE  /\ SessionOK(c)
             /\ replies[c] \in Seq({"stop", "ok"}) /\ replies'[c] \in Seq({"stop", "ok"})
             /\ Count(replies[c]) \in Nat /\ Count(replies'[c]) \in Nat
             /\ Due(c) \in {0, 1} /\ Due(c)' \in {0, 1}
             /\ Wanted(c) \in {0, 1} /\ Wanted(c)' \in {0, 1}
             /\ Extra(c) = (Count(replies[c]) + Due(c)) - Wanted(c)
             /\ Extra(c)' = (Count(replies'[c]) + Due(c)') - Wanted(c)'
             /\ (Count(replies[c]) + Due(c)) - Wanted(c) >= 0
  <2>1. replies[c] \in Seq({"stop", "ok"}) /\ replies'[c] \in Seq({"stop", "ok"})
    BY DEF TypeOK
  <2>2. SessionOK(c)
    BY DEF Sessions
  <2>3. /\ Extra(c) = (Count(replies[c]) + Due(c)) - Wanted(c)
        /\ Extra(c)' = (Count(replies'[c]) + Due(c)') - Wanted(c)'
    BY DEF Extra
  <2>4. /\ Due(c) \in {0, 1} /\ Due(c)' \in {0, 1}
        /\ Wanted(c) \in {0, 1} /\ Wanted(c)' \in {0, 1}
    BY DEF Due, Wanted
  <2>5. (Count(replies[c]) + Due(c)) - Wanted(c) >= 0
    BY <2>2, <2>3 DEF SessionOK
  <2> QED
    BY <2>1, <2>2, <2>3, <2>4, <2>5, CountType
<1>1. CASE UNCHANGED vars \/ CoreHalts \/ CoreObeys \/ Keep \/ Unkeep
  BY <1>1, NoSession
  DEF vars, target, task, flags, gdb, CoreHalts, CoreObeys, Keep, Unkeep
<1>2. ASSUME NEW c \in Clients, Stray(c) \/ GdbInterrupts(c) PROVE Good
  BY <1>2, NoSession DEF Stray, GdbInterrupts, target, task, flags
<1>3. ASSUME NEW c \in Clients, AckRead(c) \/ AckTimeout(c) PROVE Good
  <2>1. pc[c] = "ack" /\ UNCHANGED view /\ (AckOver(c) \/ Resend(c))
    BY <1>3 DEF AckRead, AckTimeout, NoAck
  <2>2. CASE AckOver(c)
    <3>1. /\ pc'[c] = "loop" /\ UNCHANGED replies
          /\ IF then[c] = "clear" THEN Cleared(c) ELSE UNCHANGED flags
          /\ IF then[c] = "lost" THEN Lost(c) ELSE UNCHANGED target
      BY <2>2 DEF AckOver, Set, TypeOK
    <3>2. attached' \/ by' = c \/ (attached' = attached /\ by' = by)
      BY <3>1, TargetOthers
    <3>3. OthersKept(c)
      BY <2>1, <2>2, <3>1, <3>2 DEF OthersKept, AckOver, Cleared, flags, Set, TypeOK
    <3>4. Due(c)' = Due(c) /\ Wanted(c)' = Wanted(c)
      BY <2>1, <3>1 DEF Due, Sent, Wanted, Cleared, Set, flags, TypeOK
    <3>5. Extra(c)' = Extra(c) /\ Extra(c) >= 0 /\ Extra(c) \in Int
      BY <1>0, <3>1, <3>4, ExtraType DEF SessionOK
    <3>6. SessionOK(c)'
      <4>1. CASE then[c] = "lost"
        BY <1>0, <2>1, <3>1, <3>5, <4>1 DEF SessionOK
      <4>2. CASE then[c] # "lost"
        BY <1>0, <2>1, <3>1, <3>5, <4>2 DEF SessionOK, target
      <4> QED
        BY <4>1, <4>2
    <3> QED
      BY <3>3, <3>5, <3>6, OneSession DEF Grows
  <2>3. CASE Resend(c)
    <3>1. UNCHANGED <<pc, then, run_state, attached, by>>
      BY <2>3 DEF Resend, target, flags
    <3>2. PICK r \in {"stop", "ok"} : replies' = [replies EXCEPT ![c] = Append(@, r)]
      BY <2>3 DEF Resend, Send
    <3>3. OthersKept(c)
      BY <2>1, <3>1, <3>2 DEF OthersKept, TypeOK
    <3>4. Count(replies'[c]) >= Count(replies[c])
      <4>1. replies'[c] = Append(replies[c], r)
        BY <3>2 DEF TypeOK
      <4> QED
        BY <1>0, <4>1, CountAppend
    <3>5. Due(c)' = Due(c) /\ Wanted(c)' = Wanted(c)
      BY <2>1, <3>1 DEF Due, Sent, Wanted
    <3>6. Extra(c)' >= 0
      <4> DEFINE n == Count(replies[c])   m == Count(replies'[c])
      <4>1. /\ m >= n /\ n \in Nat /\ m \in Nat /\ (n + Due(c)) - Wanted(c) >= 0
            /\ Due(c) \in {0, 1} /\ Wanted(c) \in {0, 1}
            /\ Extra(c)' = (m + Due(c)) - Wanted(c)
        BY <1>0, <3>4, <3>5
      <4> HIDE DEF n, m
      <4> QED
        BY <4>1
    <3>7. SessionOK(c)'
      <4> DEFINE n == Count(replies[c])   m == Count(replies'[c])
      <4>1. /\ m >= n /\ n \in Nat /\ m \in Nat
            /\ by = c /\ ~attached /\ view[c] = "running" => n > 0
            /\ pc[c] = "ack" /\ then[c] = "lost" /\ view[c] = "running" => n > 0
        BY <1>0, <3>4 DEF SessionOK
      <4>2. SessionOK(c)' <=>
                /\ pc'[c] = "off" => /\ view'[c] = "stopped" /\ replies'[c] = <<>>
                                     /\ ~run_state'[c]
                /\ Extra(c)' >= 0
                /\ by' = c /\ ~attached' /\ view'[c] = "running" => m > 0
                /\ pc'[c] = "ack" /\ then'[c] = "lost" /\ view'[c] = "running" => m > 0
        BY DEF SessionOK
      <4> HIDE DEF n, m
      <4> QED
        BY <2>1, <3>1, <3>6, <4>1, <4>2
    <3> QED
      BY <2>3, <3>3, <3>7, OneSession DEF Grows
  <2> QED
    BY <2>1, <2>2, <2>3
<1>4. ASSUME NEW c \in Clients, Poll(c) PROVE Good
  <2>1. /\ pc[c] = "loop" /\ run_state[c] /\ attached
        /\ Put(c, "stop", "clear") /\ UNCHANGED <<target, view>>
        /\ IF c \in NoAckers THEN Cleared(c) ELSE UNCHANGED flags
    BY <1>4 DEF Poll, MustPoll
  <2>2. OthersKept(c)
    BY <2>1, PutSession DEF OthersKept, target, Cleared, flags, Set, TypeOK
  <2>3. Count(replies'[c]) = Count(replies[c]) + 1
    BY <2>1, PutSession
  <2>4. Due(c) = 1 /\ Due(c)' = 0 /\ Wanted(c)' = Wanted(c)
    BY <2>1, PutSession DEF Due, Sent, Wanted, Cleared, Set, flags, TypeOK
  <2>5. Extra(c)' = Extra(c) /\ Extra(c) >= 0 /\ Extra(c) \in Int
    BY <1>0, <2>3, <2>4, Answers, ExtraType DEF SessionOK
  <2>6. pc'[c] # "off" /\ attached' /\ (pc'[c] = "ack" => then'[c] = "clear")
    BY <2>1, PutSession DEF target
  <2>7. SessionOK(c)'
    BY <2>5, <2>6 DEF SessionOK
  <2> QED
    BY <2>2, <2>5, <2>7, OneSession DEF Grows
<1>5. ASSUME NEW c \in Clients, PollRaises(c) PROVE Good
  <2>1. /\ pc[c] = "loop" /\ Raises(c) /\ Excepted(c) /\ UNCHANGED <<flags, view>>
    BY <1>5 DEF PollRaises, MustPoll, Excepted
  <2>2. OthersKept(c)
    BY <2>1, RaisesSession DEF OthersKept, flags
  <2> QED
    BY <2>1, <2>2, RaisesSession, OneSession
<1>6. ASSUME NEW c \in Clients, Interrupt(c) PROVE Good
  <2>1. /\ pc[c] = "loop" /\ run_state'[c]
        /\ UNCHANGED <<pc, then, view, replies, attached, by>>
    BY <1>6 DEF Interrupt, Interrupts, Set, TypeOK, Halt, target, task
  <2>2. OthersKept(c)
    BY <1>6, <2>1 DEF OthersKept, Interrupt, Interrupts, Set, TypeOK
  <2>3. /\ Due(c)' = 1 /\ Wanted(c)' = Wanted(c)
        /\ run_state[c] => Due(c) = 1
    BY <2>1 DEF Due, Sent, Wanted
  <2>4. Extra(c)' >= 0 /\ (run_state[c] => Extra(c)' = Extra(c)) /\ Extra(c) \in Int
    <3> DEFINE n == Count(replies[c])
    <3>1. n \in Nat /\ Wanted(c) \in {0, 1} /\ Extra(c)' = (n + 1) - Wanted(c)
      BY <1>0, <2>1, <2>3
    <3>2. run_state[c] => Extra(c) = (n + 1) - Wanted(c)
      BY <1>0, <2>3
    <3> HIDE DEF n
    <3> QED
      BY <3>1, <3>2, ExtraType
  <2>5. SessionOK(c)'
    BY <1>0, <2>1, <2>4 DEF SessionOK
  <2>6. Grows(c)
    BY <1>6, <2>4 DEF Grows, Crosses
  <2> QED
    BY <2>2, <2>5, <2>6, OneSession
<1>7. ASSUME NEW c \in Clients, InterruptRaises(c) PROVE Good
  <2>1. /\ pc[c] = "loop" /\ Raises(c) /\ Excepted(c) /\ UNCHANGED view
        /\ run_state' = Set(run_state, c, TRUE)
    BY <1>7 DEF InterruptRaises, Interrupts, Excepted
  <2>2. OthersKept(c)
    BY <2>1, RaisesSession DEF OthersKept, Set, TypeOK
  <2> QED
    BY <2>1, <2>2, RaisesSession, OneSession
<1>8. ASSUME NEW c \in Clients, NEW step \in BOOLEAN, Resume(c, step) PROVE Good
  <2>1. /\ pc[c] = "loop" /\ view[c] = "stopped" /\ view'[c] = "running"
        /\ run_state'[c] /\ attached' /\ by' = c /\ UNCHANGED <<pc, then, replies>>
    BY <1>8 DEF Resume, Asks, Waits, Run, Set, TypeOK, task
  <2>2. OthersKept(c)
    BY <1>8, <2>1 DEF OthersKept, Resume, Waits, Set, TypeOK
  <2>3. Due(c)' = 1 /\ Wanted(c) = 0 /\ Wanted(c)' = 1
    BY <2>1 DEF Due, Sent, Wanted
  <2>4. Extra(c)' >= 0 /\ ~(Extra(c)' > Extra(c))
    BY <1>0, <2>1, <2>3, Answers
  <2>5. SessionOK(c)'
    BY <2>1, <2>4 DEF SessionOK
  <2> QED
    BY <2>2, <2>4, <2>5, OneSession DEF Grows
<1>9. ASSUME NEW c \in Clients, NEW step \in BOOLEAN, ResumeFails(c, step) PROVE Good
  <2>1. /\ pc[c] = "loop" /\ view[c] = "stopped" /\ view'[c] = "running"
        /\ UNCHANGED run_state
    BY <1>9 DEF ResumeFails, Asks, Waits, Set, TypeOK
  <2>2. PICK what \in {"told", "lost"} : Put(c, "stop", what)
    BY <1>9 DEF ResumeFails, Raises
  <2>3. attached' \/ by' = c \/ (attached' = attached /\ by' = by)
    BY <1>9, TargetOthers DEF ResumeFails, Raises
  <2>4. OthersKept(c)
    <3>1. \A d \in Clients \ {c} : view'[d] = view[d]
      BY <1>9 DEF ResumeFails, Waits, Set, TypeOK
    <3>2. \A d \in Clients \ {c} : /\ replies'[d] = replies[d]
                                    /\ pc'[d] = pc[d] /\ then'[d] = then[d]
      BY <2>1, <2>2, PutSession
    <3> QED
      BY <2>1, <2>3, <3>1, <3>2 DEF OthersKept
  <2>5. Count(replies'[c]) = Count(replies[c]) + 1 /\ pc'[c] # "off"
    BY <2>1, <2>2, PutSession
  <2>6. Due(c)' = Due(c) /\ Wanted(c) = 0 /\ Wanted(c)' = 1
    BY <2>1, <2>2, PutSession DEF Due, Sent, Wanted
  <2>7. Extra(c)' = Extra(c) /\ Extra(c) >= 0 /\ Extra(c) \in Int
    BY <1>0, <2>5, <2>6, Answers, ExtraType DEF SessionOK
  <2>8. Count(replies'[c]) > 0
    BY <1>0, <2>5
  <2>9. SessionOK(c)'
    BY <2>5, <2>7, <2>8 DEF SessionOK
  <2> QED
    BY <2>4, <2>7, <2>9, OneSession DEF Grows
<1>10. ASSUME NEW c \in Clients, NEW step \in BOOLEAN, NEW go \in {"none", "c", "t"},
              VCont(c, step, go)
       PROVE  Good
  <2>1. /\ pc[c] = "loop" /\ view[c] = "stopped" /\ view'[c] = "running"
        /\ run_state'[c] /\ attached /\ Put(c, "ok", "ok")
    BY <1>10 DEF VCont, VContSets, Asks, Waits, Set, TypeOK
  <2>2. attached'
    BY <1>10, <2>1 DEF VCont, Run, Halt, target
  <2>3. OthersKept(c)
    <3>1. \A d \in Clients \ {c} : view'[d] = view[d] /\ run_state'[d] = run_state[d]
      BY <1>10 DEF VCont, VContSets, Waits, Set, TypeOK
    <3>2. \A d \in Clients \ {c} : /\ replies'[d] = replies[d]
                                    /\ pc'[d] = pc[d] /\ then'[d] = then[d]
      BY <2>1, PutSession
    <3> QED
      BY <2>2, <3>1, <3>2 DEF OthersKept
  <2>4. Count(replies'[c]) = Count(replies[c])
    BY <2>1, PutSession
  <2>5. pc'[c] # "off" /\ (pc'[c] = "ack" => then'[c] = "ok")
    BY <2>1, PutSession
  <2>6. Due(c)' = 1 /\ Wanted(c) = 0 /\ Wanted(c)' = 1
    BY <2>1, <2>5 DEF Due, Sent, Wanted
  <2>7. Extra(c)' >= 0 /\ ~(Extra(c)' > Extra(c))
    BY <1>0, <2>4, <2>6, Answers
  <2>8. SessionOK(c)'
    BY <2>2, <2>5, <2>7 DEF SessionOK
  <2> QED
    BY <2>3, <2>7, <2>8, OneSession DEF Grows
<1>11. ASSUME NEW c \in Clients, NEW step \in BOOLEAN, VContRaises(c, step) PROVE Good
  <2>1. /\ pc[c] = "loop" /\ Raises(c) /\ Excepted(c)
        /\ run_state' = Set(run_state, c, TRUE) /\ view' = Set(view, c, "running")
    BY <1>11 DEF VContRaises, VContSets, Asks, Waits, Excepted
  <2>2. OthersKept(c)
    BY <2>1, RaisesSession DEF OthersKept, Set, TypeOK
  <2> QED
    BY <2>1, <2>2, RaisesSession, OneSession
<1>12. ASSUME NEW c \in Clients, VContFails(c) PROVE Good
  <2>1. /\ pc[c] = "loop" /\ view[c] = "stopped" /\ view'[c] = "running"
        /\ UNCHANGED <<run_state, attached, by>> /\ Put(c, "stop", "told")
    BY <1>12 DEF VContFails, Asks, Waits, Set, TypeOK, target, flags
  <2>2. OthersKept(c)
    BY <1>12, <2>1, PutSession DEF OthersKept, VContFails, Waits, Set, TypeOK
  <2>3. Count(replies'[c]) = Count(replies[c]) + 1 /\ pc'[c] # "off"
    BY <2>1, PutSession
  <2>4. Due(c)' = Due(c) /\ Wanted(c) = 0 /\ Wanted(c)' = 1
    BY <2>1, PutSession DEF Due, Sent, Wanted
  <2>5. Extra(c)' = Extra(c) /\ Extra(c) >= 0 /\ Extra(c) \in Int
    BY <1>0, <2>3, <2>4, Answers, ExtraType DEF SessionOK
  <2>6. Count(replies'[c]) > 0
    BY <1>0, <2>3
  <2>7. SessionOK(c)'
    BY <2>3, <2>5, <2>6 DEF SessionOK
  <2> QED
    BY <2>2, <2>5, <2>7, OneSession DEF Grows
<1>13. ASSUME NEW c \in Clients,
              \/ Detach(c) \/ Kill(c) \/ ResetTarget(c) \/ Reattach(c)
              \/ Attach(c) \/ Rescan(c)
       PROVE  Good
  <2>1. Answered(c)
    BY <1>13 DEF Detach, Kill, ResetTarget, Reattach, Attach, Rescan
  <2>2. /\ pc[c] = "loop" /\ view[c] = "stopped"
        /\ UNCHANGED <<pc, then, run_state, view, replies>>
    BY <2>1 DEF Answered, Asks, task, flags
  <2>3. attached' \/ by' = c \/ (attached' = attached /\ by' = by)
    BY <1>13
    DEF Detach, Kill, ResetTarget, Reattach, Attach, Rescan, Lost, SetTarget, Run
  <2>4. OthersKept(c)
    BY <2>2, <2>3 DEF OthersKept
  <2>5. Extra(c)' = Extra(c) /\ Extra(c) >= 0 /\ Extra(c) \in Int
    BY <1>0, <2>2, SameExtra, ExtraType DEF SessionOK
  <2>6. SessionOK(c)'
    BY <2>2, <2>5 DEF SessionOK
  <2> QED
    BY <2>4, <2>5, <2>6, OneSession DEF Grows
<1>14. ASSUME NEW c \in Clients, Connect(c) PROVE Good
  <2>1. /\ pc[c] = "off" /\ view[c] = "stopped" /\ ~run_state[c]
        /\ pc'[c] = "loop" /\ UNCHANGED <<then, run_state, view, replies>>
    BY <1>0, <1>14 DEF Connect, SessionOK, Set, TypeOK, flags, gdb
  <2>2. attached' \/ by' = c \/ (attached' = attached /\ by' = by)
    BY <1>14, TargetOthers DEF Connect, SetTarget, target
  <2>3. OthersKept(c)
    BY <1>14, <2>1, <2>2 DEF OthersKept, Connect, Set, TypeOK
  <2>4. Due(c) = 0 /\ Due(c)' = 0 /\ Wanted(c)' = Wanted(c)
    BY <2>1 DEF Due, Wanted
  <2>5. Extra(c)' = Extra(c) /\ Extra(c) >= 0 /\ Extra(c) \in Int
    BY <1>0, <2>1, <2>4, ExtraType DEF SessionOK
  <2>6. SessionOK(c)'
    BY <2>1, <2>5 DEF SessionOK
  <2> QED
    BY <2>3, <2>5, <2>6, OneSession DEF Grows
<1>15. ASSUME NEW c \in Clients, Disconnect(c) PROVE Good
  <2>1. /\ pc'[c] = "off" /\ view'[c] = "stopped" /\ replies'[c] = <<>> /\ ~run_state'[c]
    BY <1>15 DEF Disconnect, Cleared, Set, TypeOK
  <2>2. OthersKept(c)
    BY <1>15 DEF OthersKept, Disconnect, Cleared, Set, TypeOK, target
  <2>3. Due(c)' = 0 /\ Wanted(c)' = 0
    BY <2>1 DEF Due, Wanted
  <2>4. Count(replies'[c]) = 0
    BY <1>0, <2>1, CountType
  <2>5. Extra(c)' = 0 /\ Extra(c) >= 0 /\ Extra(c) \in Int
    BY <1>0, <2>3, <2>4, ExtraType DEF SessionOK
  <2>6. SessionOK(c)'
    BY <2>1, <2>5 DEF SessionOK
  <2> QED
    BY <2>2, <2>5, <2>6, OneSession DEF Grows
<1>16. ASSUME NEW c \in Clients, GdbReceives(c) PROVE Good
  <2>1. /\ pc[c] # "off" /\ replies[c] # <<>>
        /\ replies'[c] = Tail(replies[c])
        /\ view'[c] = IF Head(replies[c]) = "stop" THEN "stopped" ELSE view[c]
        /\ UNCHANGED <<pc, then, run_state, attached, by>>
    BY <1>16 DEF GdbReceives, Set, TypeOK, target, task, flags
  <2>2. OthersKept(c)
    BY <1>16 DEF OthersKept, GdbReceives, Set, TypeOK, target, task, flags
  <2>3. Count(replies[c]) = Count(replies'[c]) + (IF Head(replies[c]) = "stop" THEN 1 ELSE 0)
    BY <1>0, <2>1, CountTail
  <2>4. Due(c)' = Due(c)
    BY <2>1 DEF Due, Sent
  <2>5. CASE Head(replies[c]) = "stop"
    <3>1. view'[c] = "stopped" /\ Wanted(c)' = 0
      BY <2>1, <2>5 DEF Wanted
    <3>2. Extra(c)' >= 0 /\ ~(Extra(c)' > Extra(c))
      BY <1>0, <2>3, <2>4, <2>5, <3>1, Answers
    <3>3. SessionOK(c)'
      BY <2>1, <3>1, <3>2 DEF SessionOK
    <3> QED
      BY <2>2, <3>2, <3>3, OneSession DEF Grows
  <2>6. CASE Head(replies[c]) # "stop"
    <3>1. view'[c] = view[c] /\ Wanted(c)' = Wanted(c)
      BY <2>1, <2>6 DEF Wanted
    <3>2. Count(replies'[c]) = Count(replies[c])
      BY <1>0, <2>3, <2>6
    <3>3. Extra(c)' = Extra(c) /\ Extra(c) >= 0 /\ Extra(c) \in Int
      BY <1>0, <2>4, <3>1, <3>2, ExtraType DEF SessionOK
    <3>4. SessionOK(c)'
      BY <1>0, <2>1, <3>1, <3>2, <3>3 DEF SessionOK
    <3> QED
      BY <2>2, <3>3, <3>4, OneSession DEF Grows
  <2> QED
    BY <2>5, <2>6
<1> QED
  BY <1>1, <1>2, <1>3, <1>4, <1>5, <1>6, <1>7, <1>8, <1>9, <1>10, <1>11, <1>12, <1>13,
     <1>14, <1>15, <1>16
  DEF Next

\* What the sessions owe their GDBs, in every state.
LEMMA SessionsInvariant == Spec => [](TypeOK /\ Sessions)
<1>1. TypeOK /\ Sessions /\ [Next]_vars => (TypeOK /\ Sessions)'
  BY NextType, NextSessions DEF Good
<1> QED
  BY <1>1, InitType, InitSessions, PTL DEF Spec

\* What the sessions owe is the surplus of the stop replies.
LEMMA SurplusIsExtra ==
    ASSUME NEW c \in Clients
    PROVE  Surplus(c) = Extra(c) /\ Surplus(c)' = Extra(c)'
<1>1. Stops(c) = Count(replies[c]) /\ Stops(c)' = Count(replies'[c])
  BY DEF Stops, Count, StopsAt
<1>2. Owed(c) = Stops(c) + Due(c) /\ Owed(c)' = Stops(c)' + Due(c)'
  BY DEF Owed, Due
<1>3. Extra(c) = (Stops(c) + Due(c)) - Wanted(c)
  BY <1>1 DEF Extra
<1>4. Extra(c)' = (Stops(c)' + Due(c)') - Wanted(c)'
  BY <1>1 DEF Extra
<1>5. Surplus(c) = Owed(c) - Wanted(c) /\ Surplus(c)' = Owed(c)' - Wanted(c)'
  BY DEF Surplus
<1> QED
  BY <1>2, <1>3, <1>4, <1>5

\* A GDB that waits is owed a stop reply in every state, and a session comes to owe one
\* too many in three ways only: an interrupt that crosses the reply, a packet sent
\* again, or an exception (gdb_main.cpp 207-358 and 799-829).
THEOREM RunInStep == Spec => InStep
<1>1. Sessions => \A c \in Clients : Surplus(c) >= 0
  BY SurplusIsExtra DEF Sessions, SessionOK
<1>2. TypeOK /\ Sessions /\ [Next]_vars =>
          [\A c \in Clients :
               Surplus(c)' > Surplus(c) => Crosses(c) \/ Resend(c) \/ Excepted(c)]_vars
  BY NextType, NextSessions, SurplusIsExtra DEF Good, Grows
<1> QED
  BY <1>1, <1>2, SessionsInvariant, PTL DEF Spec, InStep

\* No session leaves its own GDB waiting for a target that it has given up, not even
\* after an exception or when it has lost step (gdb_main.cpp 464-485, 579-612,
\* 707-714): only another session can.
THEOREM RunOnlyOthersStrand == Spec => []OnlyOthersStrand
<1>1. TypeOK /\ Sessions => OnlyOthersStrand
  <2> SUFFICES ASSUME TypeOK, Sessions, NEW c \in Clients,
                      view[c] = "running", Stops(c) = 0, ~attached
               PROVE  by # c
    BY DEF OnlyOthersStrand
  <2>1. Stops(c) = Count(replies[c])
    BY DEF Stops, Count, StopsAt
  <2> QED
    BY <2>1 DEF Sessions, SessionOK
<1> QED
  BY <1>1, SessionsInvariant, PTL

=============================================================================

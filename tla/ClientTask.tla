----------------------------- MODULE ClientTask -----------------------------
(***************************************************************************)
(* The life of a GDB_client (gdb_if.cpp): an object on the heap, with the  *)
(* handle of its task in pid.  The task ends in destroy(): it queues the   *)
(* deletion of the object for FreeRTOS's timer task, and then deletes the  *)
(* task whose handle it reads from that object.                            *)
(*                                                                         *)
(* The heap and FreeRTOS are external: a freed block keeps what was in it  *)
(* until an object is placed there again, and the timer task runs the      *)
(* functions that are queued in their order, at any time.                  *)
(***************************************************************************)
EXTENDS Naturals, Sequences

CONSTANTS
    Blocks,     \* heap blocks that hold a GDB_client
    Handles,    \* task handles
    NoHandle    \* what a block holds before it is used

VARIABLES
    used,       \* blocks with an object
    pid,        \* GDB_client::pid in each block
    pc,         \* where each task is
    this,       \* the block of each task's object
    queue       \* blocks whose deletion is queued for the timer task

vars == <<used, pid, pc, this, queue>>

Init == /\ used = {} /\ queue = <<>>
        /\ pid = [b \in Blocks |-> NoHandle]
        /\ pc = [t \in Handles |-> "none"]
        /\ this \in [Handles -> Blocks]

\* accept() in gdb_net_task, new GDB_client; xTaskCreate stores the handle before the
\* new task runs.
Accept(t, b) == /\ pc[t] = "none" /\ b \notin used
                /\ used' = used \cup {b}
                /\ this' = [this EXCEPT ![t] = b]
                /\ pid' = [pid EXCEPT ![b] = t]
                /\ pc' = [pc EXCEPT ![t] = "task"]
                /\ UNCHANGED queue

\* recv or send fails; in destroy(), close and xTimerPendFunctionCall.
Destroy(t) == /\ pc[t] = "task"
              /\ queue' = Append(queue, this[t])
              /\ pc' = [pc EXCEPT ![t] = "destroy"]
              /\ UNCHANGED <<used, pid, this>>

\* The timer task deletes an object.
TimerDeletes == /\ queue # <<>>
                /\ used' = used \ {Head(queue)}
                /\ queue' = Tail(queue)
                /\ UNCHANGED <<pid, pc, this>>

\* vTaskDelete(pid): a task that does not delete itself goes on.
DeleteTask(t) == /\ pc[t] = "destroy"
                 /\ LET victim == pid[this[t]]
                        gone == [pc EXCEPT ![victim] = "none"]
                    IN  pc' = IF victim = t THEN gone ELSE [gone EXCEPT ![t] = "returned"]
                 /\ UNCHANGED <<used, pid, this, queue>>

Next == \/ TimerDeletes
        \/ \E t \in Handles : \/ \E b \in Blocks : Accept(t, b)
                              \/ Destroy(t) \/ DeleteTask(t)

Spec == Init /\ [][Next]_vars

\* "should not be reached": destroy() does not return, so that no task goes on with an
\* object that is deleted, or that is another connection's.
NotReached == \A t \in Handles : pc[t] # "returned"
=============================================================================

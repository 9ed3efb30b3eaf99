------------------------------- MODULE Monitor -------------------------------
(***************************************************************************)
(* What the GDB lock promises its callers: a reentrant monitor that its    *)
(* owner may put aside for as long as it waits for its peer and get back   *)
(* as it was.  Tasks enter and leave it, yield it and resume it, and a     *)
(* task that goes away abandons it.  GdbLock implements this with one      *)
(* FreeRTOS mutex and one counter; GdbServer is built on these actions.    *)
(***************************************************************************)
EXTENDS Naturals

CONSTANTS
    Tasks,      \* the tasks that use the monitor
    NoTask      \* nobody owns the monitor; not a member of Tasks

VARIABLES
    owner,      \* the task inside the monitor, or NoTask
    nest        \* how deep each task is in it, also while it has yielded

monitorVars == <<owner, nest>>

TypeOK == /\ owner \in Tasks \cup {NoTask}
          /\ nest \in [Tasks -> Nat]

Init == /\ owner = NoTask
        /\ nest = [t \in Tasks |-> 0]

\* A task that owns the monitor goes one level deeper; a task that is not in it
\* waits until nobody owns it.
Enter(t) == /\ \/ owner = t
               \/ owner = NoTask /\ nest[t] = 0
            /\ owner' = t
            /\ nest' = [nest EXCEPT ![t] = @ + 1]

\* The level that was entered first is the one that frees the monitor.
Leave(t) == /\ owner = t
            /\ nest[t] > 0
            /\ nest' = [nest EXCEPT ![t] = @ - 1]
            /\ owner' = IF nest[t] = 1 THEN NoTask ELSE t

\* Others may enter, and the task remembers how deep it was.
Yield(t) == /\ owner = t
            /\ owner' = NoTask
            /\ UNCHANGED nest

\* The task is back as deep as it was when it yielded.
Resume(t) == /\ owner = NoTask
             /\ nest[t] > 0
             /\ owner' = t
             /\ UNCHANGED nest

\* A task that ends frees the monitor if it owns it, and forgets its depth.
Abandon(t) == /\ owner' = IF owner = t THEN NoTask ELSE owner
              /\ nest' = [nest EXCEPT ![t] = 0]

Next == \E t \in Tasks : Enter(t) \/ Leave(t) \/ Yield(t) \/ Resume(t) \/ Abandon(t)

Spec == Init /\ [][Next]_monitorVars
=============================================================================

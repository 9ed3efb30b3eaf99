------------------------------ MODULE TargetList ------------------------------
(***************************************************************************)
(* What gdb_main.cpp promises about the target being debugged, the one     *)
(* that was detached from and the target list: one client at a time works  *)
(* on them, what is attached is listed, and a target leaves the list in    *)
(* the same step in which the last pointer to it is cleared.  GdbServer    *)
(* implements this although the destroy callback lets other clients in     *)
(* between finding the target in use and clearing the pointers.            *)
(***************************************************************************)
CONSTANTS
    Clients,    \* the connections
    NoClient,   \* nobody has the lock
    Targets,    \* addresses at which a target may be
    NoTarget    \* no target

VARIABLES
    owner,      \* the client that has the lock
    current,    \* the target being debugged
    last,       \* the target that was detached from
    list        \* the targets that may be used

pointers == <<current, last, list>>
listVars == <<owner, pointers>>

Init == /\ owner = NoClient
        /\ current = NoTarget /\ last = NoTarget
        /\ list = {}

\* The lock goes to somebody, or to nobody.
HandOver == /\ owner' \in Clients \cup {NoClient}
            /\ UNCHANGED pointers

\* A scan lists what it found, and may attach to one of those.
Find(found) == /\ list' = list \cup found
               /\ \/ UNCHANGED current
                  \/ current' \in found \cup {NoTarget}
               /\ UNCHANGED last

\* A listed target is attached, or none is.
Attach == /\ current' \in list \cup {NoTarget}
          /\ UNCHANGED <<last, list>>

\* The current target is left, and remembered.
Detach == /\ last' = current
          /\ current' = NoTarget
          /\ UNCHANGED list

\* A target is gone for good, and nothing points to it any more.
Destroy(t) == /\ list' = list \ {t}
              /\ current' \in {current, NoTarget} \ {t}
              /\ last' = IF last = t THEN NoTarget ELSE last

Next == \/ HandOver
        \/ /\ owner \in Clients
           /\ UNCHANGED owner
           /\ \/ \E found \in SUBSET Targets : Find(found)
              \/ Attach
              \/ Detach
              \/ \E t \in Targets : Destroy(t)

Spec == Init /\ [][Next]_listVars
=============================================================================

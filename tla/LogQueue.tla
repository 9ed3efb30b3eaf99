------------------------------- MODULE LogQueue -------------------------------
(***************************************************************************)
(* What a CBUF promises one writer and one reader that use it without a    *)
(* lock: a first-in first-out queue.  Since CBUF_Push does not look        *)
(* whether there is room, the promise has two limits.  With Capacity       *)
(* characters waiting the next one lands on an old one before it is        *)
(* counted, and Wrap characters are counted as none.  A reader that has    *)
(* seen the queue hold something is past that test: to it Wrap characters  *)
(* are still Wrap, and one more are one.  DebugQueue implements this with  *)
(* a circular buffer and two wrapping indices.                             *)
(***************************************************************************)
EXTENDS Naturals, Sequences

CONSTANTS
    Capacity,   \* characters there is room for
    Wrap,       \* characters that are counted as none
    Prints,     \* what the writer is asked to print at a time
    EndOfLine,  \* the character the reader acts upon
    First       \* what an entry holds that nothing was pushed to

VARIABLES
    input,      \* the characters the writer still has to push
    queue,      \* the characters pushed and not yet read
    taking,     \* how far the reader is with one: "no", "seen" or "read"
    taken,      \* the character it has read
    lines       \* turns over with each end of a line it is done with

logVars == <<input, queue, taking, taken, lines>>

readerVars == <<taking, taken, lines>>

Init == /\ input = <<>> /\ queue = <<>>
        /\ taking = "no" /\ taken = First /\ lines = FALSE

Log == /\ input = <<>>
       /\ input' \in Prints
       /\ UNCHANGED <<queue, readerVars>>

\* The length at which a whole turn is no longer counted.
TooLong == IF taking = "no" THEN Wrap ELSE Wrap + 1

\* The next character joins the queue; the one that is too much for the count takes a
\* whole turn away.
Push == /\ input # <<>>
        /\ input' = Tail(input)
        /\ queue' = IF Len(queue) + 1 = TooLong THEN SubSeq(queue, 1, TooLong - Wrap)
                    ELSE Append(queue, Head(input))
        /\ UNCHANGED readerVars

\* Without room the next character already replaces those that have its place.
Overwrite == /\ input # <<>>
             /\ Len(queue) >= Capacity
             /\ queue' = [i \in 1 .. Len(queue) |->
                              IF i % Capacity = (Len(queue) + 1) % Capacity
                              THEN Head(input) ELSE queue[i]]
             /\ UNCHANGED <<input, readerVars>>

\* The reader sees that there is a character, reads the oldest, and is done with it.
\* The writer may act between these steps.
See == /\ taking = "no"
       /\ queue # <<>>
       /\ taking' = "seen"
       /\ UNCHANGED <<input, queue, taken, lines>>

Read == /\ taking = "seen"
        /\ taking' = "read"
        /\ taken' = Head(queue)
        /\ UNCHANGED <<input, queue, lines>>

Pop == /\ taking = "read"
       /\ taking' = "no"
       /\ queue' = Tail(queue)
       /\ lines' = (lines # (taken = EndOfLine))
       /\ UNCHANGED <<input, taken>>

Next == Log \/ Push \/ Overwrite \/ See \/ Read \/ Pop

Spec == Init /\ [][Next]_logVars
=============================================================================

----------------------------- MODULE DebugQueue -----------------------------
(***************************************************************************)
(* The debug message queue (platform.c, CBUF.h): the log's putchar pushes  *)
(* characters into a circular buffer and gives a semaphore at each end of  *)
(* line; dbg_task empties the buffer into http_debug_putc, which sends a   *)
(* line, or a full buffer, to the web sockets of the debug page.  There is *)
(* no lock and no test for a full buffer: CBUF relies on one reader and    *)
(* one writer (the log lets one task print at a time, which is external),  *)
(* on unsigned wrap around of its indices, and on the reader keeping up.   *)
(***************************************************************************)
EXTENDS Naturals, Sequences

CONSTANTS
    Size,       \* entries in the buffer (256 in the code)
    IdxMod,     \* 2^w for indices of w bits (256 in the code)
    LineMax     \* bytes in http_debug_putc's buffer (256 in the code)

ASSUME QueueAssumption == /\ Size \in Nat \ {0}
                          /\ IdxMod \in Nat \ {0}
                          /\ LineMax \in Nat \ {0}
                          /\ IdxMod % Size = 0

Chars == {"x", "cr", "nl"}

\* What one character of the log becomes: a carriage return goes before the end of a
\* line.
Prints == {<<"x">>, <<"cr", "nl">>}

VARIABLES
    m_put_idx, m_get_idx, m_entry,  \* dbg_msg_queue
    sem,        \* its binary semaphore
    writer,     \* where the writer is in debug_putc
    pushing,    \* the characters putc_remote still has to push
    reader,     \* where dbg_task is: it waits, or is in its inner loop
    elem,       \* the entry CBUF_Pop has read
    bufsize,    \* of http_debug_putc
    sent,       \* history: turns over with each end of a line that is sent on
    unread,     \* history: what was pushed and not yet popped, in order
    overrun     \* history: an unread character was overwritten since it was empty

vars == <<m_put_idx, m_get_idx, m_entry, sem, writer, pushing, reader, elem,
          bufsize, sent, unread, overrun>>

queueVars == <<m_put_idx, m_get_idx, m_entry>>
readerVars == <<reader, elem, bufsize, sent>>
historyVars == <<unread, overrun>>

\* Indices wrap around; the size is a power of two, so the mask is a modulus.
CBUF_Len == (IdxMod + m_put_idx - m_get_idx) % IdxMod

CBUF_IsEmpty == CBUF_Len = 0

Init == /\ m_put_idx = 0 /\ m_get_idx = 0
        /\ m_entry = [i \in 0 .. Size - 1 |-> "x"]
        /\ sem = FALSE
        /\ writer = "idle" /\ pushing = <<>>
        /\ reader = "wait" /\ elem = "x" /\ bufsize = 0 /\ sent = FALSE
        /\ unread = <<>> /\ overrun = FALSE

(***************************************************************************)
(* The writer: putc_remote, debug_putc, CBUF_Push.                         *)
(***************************************************************************)
Putc == /\ writer = "idle"
        /\ writer' = "store"
        /\ pushing' \in Prints
        /\ UNCHANGED <<queueVars, sem, readerVars, historyVars>>

\* Mutant: the mask is off by one.
StoreMaskMutant == /\ writer = "store"
                   /\ writer' = "advance"
                   /\ m_entry' = [m_entry EXCEPT ![m_put_idx % (Size - 1)] = Head(pushing)]
                   /\ overrun' = (overrun \/ Len(unread) >= Size)
                   /\ unread' = IF overrun' THEN <<>> ELSE unread
                   /\ UNCHANGED <<m_put_idx, m_get_idx, sem, pushing, readerVars>>

\* Nothing keeps the writer from an entry that has not been read.  From then on the
\* queue promises nothing until the reader finds it empty.
Store == /\ writer = "store"
         /\ writer' = "advance"
         /\ m_entry' = [m_entry EXCEPT ![m_put_idx % Size] = Head(pushing)]
         /\ overrun' = (overrun \/ Len(unread) >= Size)
         /\ unread' = IF overrun' THEN <<>> ELSE unread
         /\ UNCHANGED <<m_put_idx, m_get_idx, sem, pushing, readerVars>>

\* Mutant: the reader is woken before the last character is in the queue.
GiveFirstMutant == /\ writer = "advance"
                   /\ writer' = IF Len(pushing) > 1 THEN "store" ELSE "idle"
                   /\ sem' = (sem \/ Head(pushing) = "cr")
                   /\ m_put_idx' = (m_put_idx + 1) % IdxMod
                   /\ unread' = IF overrun THEN <<>> ELSE Append(unread, Head(pushing))
                   /\ pushing' = Tail(pushing)
                   /\ UNCHANGED <<m_get_idx, m_entry, readerVars, overrun>>

Advance == /\ writer = "advance"
           /\ writer' = IF Head(pushing) = "nl" THEN "give"
                        ELSE IF Len(pushing) > 1 THEN "store" ELSE "idle"
           /\ m_put_idx' = (m_put_idx + 1) % IdxMod
           /\ unread' = IF overrun THEN <<>> ELSE Append(unread, Head(pushing))
           /\ pushing' = Tail(pushing)
           /\ UNCHANGED <<m_get_idx, m_entry, sem, readerVars, overrun>>

\* The end of a line wakes the reader.
Give == /\ writer = "give"
        /\ writer' = "idle"
        /\ sem' = TRUE
        /\ UNCHANGED <<queueVars, pushing, readerVars, historyVars>>

(***************************************************************************)
(* The reader: dbg_task, CBUF_Pop, http_debug_putc.  The test, the read of *)
(* the entry and the increment of the index are steps of their own, and    *)
(* the writer may go round the whole buffer between any two of them.       *)
(***************************************************************************)
TakeSem == /\ reader = "wait"
           /\ sem
           /\ sem' = FALSE
           /\ reader' = "test"
           /\ UNCHANGED <<queueVars, writer, pushing, elem, bufsize, sent, historyVars>>

Test == /\ reader = "test"
        /\ ~CBUF_IsEmpty
        /\ reader' = "fetch"
        /\ UNCHANGED <<queueVars, sem, writer, pushing, elem, bufsize, sent, historyVars>>

\* The buffer looks empty: reader and writer agree again, and what the reader has
\* not seen by now it never will.
Emptied == /\ reader = "test"
           /\ CBUF_IsEmpty
           /\ reader' = "wait"
           /\ unread' = <<>>
           /\ overrun' = FALSE
           /\ UNCHANGED <<queueVars, sem, writer, pushing, elem, bufsize, sent>>

Fetch == /\ reader = "fetch"
         /\ reader' = "next"
         /\ elem' = m_entry[m_get_idx % Size]
         /\ UNCHANGED <<queueVars, sem, writer, pushing, bufsize, sent, historyVars>>

\* Mutant: a full line buffer is sent one character too late.
PopLateMutant == LET flush == elem = "nl" \/ bufsize = LineMax
                 IN  /\ reader = "next"
                     /\ reader' = "test"
                     /\ m_get_idx' = (m_get_idx + 1) % IdxMod
                     /\ bufsize' = IF flush THEN 0 ELSE bufsize + 1
                     /\ sent' = (sent # (elem = "nl"))
                     /\ unread' = IF unread = <<>> THEN <<>> ELSE Tail(unread)
                     /\ UNCHANGED <<m_put_idx, m_entry, sem, writer, pushing, elem, overrun>>

\* Mutant: dbg_task goes back to its semaphore after each line, one wakeup one line.
LineAtATimeMutant ==
    LET flush == elem = "nl" \/ bufsize + 1 = LineMax
    IN  /\ reader = "next"
        /\ reader' = IF elem = "nl" THEN "wait" ELSE "test"
        /\ m_get_idx' = (m_get_idx + 1) % IdxMod
        /\ bufsize' = IF flush THEN 0 ELSE bufsize + 1
        /\ sent' = (sent # (elem = "nl"))
        /\ unread' = IF unread = <<>> THEN <<>> ELSE Tail(unread)
        /\ UNCHANGED <<m_put_idx, m_entry, sem, writer, pushing, elem, overrun>>

\* The index moves on, whatever the buffer holds by now, and the character goes to
\* http_debug_putc, which nobody else calls.
Pop == LET flush == elem = "nl" \/ bufsize + 1 = LineMax
       IN  /\ reader = "next"
           /\ reader' = "test"
           /\ m_get_idx' = (m_get_idx + 1) % IdxMod
           /\ bufsize' = IF flush THEN 0 ELSE bufsize + 1
           /\ sent' = (sent # (elem = "nl"))
           /\ unread' = IF unread = <<>> THEN <<>> ELSE Tail(unread)
           /\ UNCHANGED <<m_put_idx, m_entry, sem, writer, pushing, elem, overrun>>

Reader == TakeSem \/ Test \/ Emptied \/ Fetch \/ Pop

Next == Putc \/ Store \/ Advance \/ Give \/ Reader

Spec == Init /\ [][Next]_vars

\* Both tasks are scheduled; a task that has begun to print goes on.
Fairness == WF_vars(Store \/ Advance \/ Give) /\ WF_vars(Reader)

FairSpec == Spec /\ Fairness

(***************************************************************************)
(* The properties.                                                         *)
(***************************************************************************)
\* Every variable has its type; http_debug_putc never overruns its own buffer.
TypeOK == /\ m_put_idx \in 0 .. IdxMod - 1
          /\ m_get_idx \in 0 .. IdxMod - 1
          /\ m_entry \in [0 .. Size - 1 -> Chars]
          /\ sem \in BOOLEAN
          /\ writer \in {"idle", "store", "advance", "give"}
          /\ pushing \in Seq(Chars)
          /\ reader \in {"wait", "test", "fetch", "next"}
          /\ elem \in Chars
          /\ bufsize \in 0 .. LineMax - 1
          /\ sent \in BOOLEAN
          /\ unread \in Seq(Chars)
          /\ overrun \in BOOLEAN

\* What is in the buffer from the get index on is what was pushed and not popped, in
\* the order it was pushed, across every wrap of the indices, and what the reader has
\* in hand is the first of it, except from the moment the writer runs over the reader
\* until the reader has caught up.
QueueHoldsUnread ==
    ~overrun => /\ \A i \in 1 .. Len(unread) :
                       m_entry[(m_get_idx + i - 1) % Size] = unread[i]
                /\ reader = "next" => elem = unread[1]

\* The end of a line is in the queue.
HasLine == \E i \in 1 .. Len(unread) : unread[i] = "nl"

\* No wakeup is lost: while the end of a line is in the queue the reader is awake, or
\* the semaphore is given or about to be.  debug_putc gives it after the character is
\* counted, and dbg_task sleeps only after it has seen the queue empty.
NoLostWakeup == HasLine => sem \/ reader # "wait" \/ writer = "give"

\* While a line waits in the queue, another end of a line goes out: whatever the reader
\* was doing when the semaphore was given, and whether or not it has just sent one
\* line, it sends the next; except that the writer runs over the reader or gets as far
\* ahead as the indices can count.
LineDelivered == \A b \in BOOLEAN :
    (HasLine /\ sent = b) ~> (sent # b \/ overrun \/ Len(unread) = IdxMod)

(***************************************************************************)
(* The circular buffer implements a queue: its contents are the entries    *)
(* from the get index on, as many as the indices are apart, where a reader *)
(* that has seen the buffer hold something takes equal indices for a whole *)
(* turn.                                                                   *)
(***************************************************************************)
\* The reader is past its test.
Committed == reader \in {"fetch", "next"}

\* The characters that the reader takes the buffer to hold.
Count == IF Committed /\ CBUF_IsEmpty THEN IdxMod ELSE CBUF_Len

Contents == [i \in 1 .. Count |-> m_entry[(m_get_idx + i - 1) % Size]]

Taking == IF reader = "fetch" THEN "seen" ELSE IF reader = "next" THEN "read" ELSE "no"

Q == INSTANCE LogQueue WITH Capacity <- Size, Wrap <- IdxMod, EndOfLine <- "nl",
                            First <- "x",
                            input <- pushing, queue <- Contents, lines <- sent,
                            taking <- Taking, taken <- elem

\* Every step of the writer and of the reader is a step of the queue or none, for any
\* interleaving of the accesses to the indices and the entries: the reader gets each
\* character once and in order, and what happens to a queue that is not read in time is
\* no more than LogQueue says.
ImplementsLogQueue == Q!Spec
=============================================================================

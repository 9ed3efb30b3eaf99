---------------------------- MODULE WebTerminal ----------------------------
(***************************************************************************)
(* The page of the serial terminal: src/html/index.html with the parts of  *)
(* xterm.js and its fit addon that the page's behaviour rests on.          *)
(*                                                                         *)
(* What the socket delivers, what the page says about the connection and   *)
(* the echo of a line go through Terminal.write to a buffer that a timer   *)
(* of xterm.js empties, for at most 12 ms at a time.  The handlers of a    *)
(* page run one after the other, so each is one action; an exception ends  *)
(* the handler where it is thrown.  Two of them matter: write throws when  *)
(* too much is waiting, and an answer to a query of the device (the page   *)
(* sends what onData reports) throws while the socket is connecting.       *)
(*                                                                         *)
(* Chunks are numbered modulo Ids and count one unit of pendingData each.  *)
(***************************************************************************)
EXTENDS Integers, Sequences

CONSTANTS
    Limit,       \* write throws above so much pendingData (5e7 in xterm.js)
    SliceAt,     \* parsed chunks that are kept in the buffer (50 in xterm.js)
    Ids,         \* chunk numbers, more than there are chunks in the buffer
    MaxLines,    \* bound: different lines the user enters
    Windows,     \* sizes of the terminal's parent element, in pixels
    CellWidth, CellHeight   \* size of a character, in pixels

ASSUME TerminalAssumption ==
    /\ Limit \in Nat /\ SliceAt \in Nat /\ MaxLines \in Nat
    /\ Ids \in Nat /\ Ids > Limit + 1
    /\ Windows \subseteq [width : Nat, height : Nat]
    /\ CellWidth \in Nat \ {0} /\ CellHeight \in Nat \ {0}

VARIABLES
    buffer,      \* WriteBuffer._writeBuffer
    offset,      \* WriteBuffer._bufferOffset
    pending,     \* WriteBuffer._pendingData
    timer,       \* calls of _innerWrite that setTimeout has scheduled
    wrote,       \* number of the last chunk that write accepted
    parsed,      \* number of the last chunk that was parsed
    threw,       \* a chunk's parsing has ended in an exception
    socket,      \* state of the page's WebSocket
    lines,       \* number of line_items
    idx,         \* position in line_items
    window,      \* size of the terminal's parent element
    resized,     \* a resize event waits to be handled
    size         \* the terminal's cols and rows

buffered == <<buffer, offset, pending, timer, wrote>>
parsing == <<parsed, threw>>
history == <<lines, idx>>
layout == <<window, resized, size>>
vars == <<buffered, parsing, socket, history, layout>>

Sockets == {"connecting", "open", "closed", "none"}

AtLeast(n, m) == IF n < m THEN m ELSE n

\* FitAddon.proposeDimensions
ProposeDimensions(w) == [cols |-> AtLeast(w.width \div CellWidth, 2),
                         rows |-> AtLeast(w.height \div CellHeight, 1)]

Init == /\ buffer = <<>> /\ offset = 0 /\ pending = 0 /\ timer = 0 /\ wrote = 0
        /\ parsed = 0 /\ threw = FALSE
        /\ socket = "connecting"
        /\ lines = 0 /\ idx = -1
        /\ window \in Windows /\ resized = FALSE
        /\ size = ProposeDimensions(window)

(***************************************************************************)
(* WriteBuffer: write and _innerWrite.                                     *)
(***************************************************************************)
Next1(k) == (k + 1) % Ids

Full == pending > Limit

\* Mutant: every write schedules _innerWrite.
WriteSchedulesMutant == /\ ~Full
                        /\ wrote' = Next1(wrote)
                        /\ buffer' = Append(buffer, wrote')
                        /\ pending' = pending + 1
                        /\ timer' = timer + 1
                        /\ UNCHANGED offset

\* The first chunk of an empty buffer schedules _innerWrite.
Write == /\ ~Full
         /\ wrote' = Next1(wrote)
         /\ buffer' = Append(buffer, wrote')
         /\ pending' = pending + 1
         /\ IF buffer = <<>>
            THEN offset' = 0 /\ timer' = timer + 1
            ELSE UNCHANGED <<offset, timer>>

\* term.write, whose exception nobody catches.
TryWrite == Write \/ (Full /\ UNCHANGED buffered)

Left == Len(buffer) - offset

\* Mutant: the rest of the buffer is cut off as if nothing had been parsed before.
PauseSliceMutant(n) ==
    /\ IF offset + n > SliceAt
       THEN /\ buffer' = SubSeq(buffer, n + 1, Len(buffer))
            /\ offset' = 0
       ELSE /\ offset' = offset + n
            /\ UNCHANGED buffer
    /\ pending' = pending - n
    /\ timer' = timer

\* n chunks are parsed and 12 ms have passed: go on in another call.
Pause(n) == /\ IF offset + n > SliceAt
               THEN /\ buffer' = SubSeq(buffer, offset + n + 1, Len(buffer))
                    /\ offset' = 0
               ELSE /\ offset' = offset + n
                    /\ UNCHANGED buffer
            /\ pending' = pending - n
            /\ timer' = timer

\* Mutant: the last chunk leaves the buffer as it is.
FinishMutant == /\ offset' = Len(buffer) /\ pending' = 0
                /\ timer' = timer - 1
                /\ UNCHANGED buffer

\* Everything is parsed.
Finish == /\ buffer' = <<>> /\ offset' = 0 /\ pending' = 0
          /\ timer' = timer - 1

\* The parsing of the n-th chunk throws: neither the rest of the loop nor the next
\* setTimeout is reached.
Abort(n) == /\ offset' = offset + n
            /\ pending' = pending - (n - 1)
            /\ timer' = timer - 1
            /\ UNCHANGED buffer

\* A query in a chunk is answered through onData, whose listener calls send.
InnerWrite ==
    /\ timer > 0
    /\ \E n \in 1 .. Left :
           /\ parsed' = buffer[offset + n]
           /\ \/ n < Left /\ Pause(n) /\ UNCHANGED threw
              \/ n = Left /\ Finish /\ UNCHANGED threw
              \/ socket = "connecting" /\ Abort(n) /\ threw' = TRUE
    /\ UNCHANGED <<wrote, socket, history, layout>>

(***************************************************************************)
(* The page's socket.                                                      *)
(***************************************************************************)
\* The first thing the handler does is to write a line.
OnOpen == /\ socket = "connecting"
          /\ socket' = "open"
          /\ TryWrite
          /\ UNCHANGED <<parsing, history, layout>>

OnMessage == /\ socket = "open"
             /\ TryWrite
             /\ UNCHANGED <<parsing, socket, history, layout>>

\* The connection fails or ends; the event is still to be handled.
Disconnect == /\ socket \in {"connecting", "open"}
              /\ socket' = "closed"
              /\ UNCHANGED <<buffered, parsing, history, layout>>

\* Mutant: a new socket only after a connection that was closed cleanly.
OnCloseCleanMutant ==
    /\ socket = "closed"
    /\ TryWrite
    /\ socket' \in {"connecting", "none"}
    /\ UNCHANGED <<parsing, history, layout>>

\* The notice is written before createSocket(): no notice, no socket.
OnClose == /\ socket = "closed"
           /\ TryWrite
           /\ socket' = IF Full THEN "none" ELSE "connecting"
           /\ UNCHANGED <<parsing, history, layout>>

(***************************************************************************)
(* The input line: line_items and idx.                                     *)
(***************************************************************************)
\* A line that is not in line_items is appended; with "Echo" the line is written to
\* the terminal before it is sent.
SendLine == /\ \/ /\ lines < MaxLines
                  /\ lines' = lines + 1
                  /\ idx' = lines
               \/ lines > 0 /\ UNCHANGED history
            /\ TryWrite \/ UNCHANGED buffered
            /\ UNCHANGED <<parsing, socket, layout>>

\* Mutant: idx may pass the oldest line.
ArrowUpMutant == /\ idx' = LET i == IF lines - 1 = idx THEN idx - 1 ELSE idx
                           IN  IF i >= 0 THEN i - 1 ELSE i
                 /\ UNCHANGED <<lines, buffered, parsing, socket, layout>>

\* From the newest line one step back, show that line, and another step back.
ArrowUp == /\ idx' = LET i == IF lines - 1 = idx THEN idx - 1 ELSE idx
                     IN  IF i > 0 THEN i - 1 ELSE i
           /\ UNCHANGED <<lines, buffered, parsing, socket, layout>>

ArrowDown == /\ idx < lines - 1
             /\ idx' = idx + 1
             /\ UNCHANGED <<lines, buffered, parsing, socket, layout>>

(***************************************************************************)
(* The size of the terminal: FitAddon.fit and Terminal.resize.             *)
(***************************************************************************)
WindowChanges == /\ window' \in Windows \ {window}
                 /\ resized' = TRUE
                 /\ UNCHANGED <<size, buffered, parsing, socket, history>>

\* Terminal.resize, with MINIMUM_COLS and MINIMUM_ROWS.
ResizeTo(d) == size' = [cols |-> AtLeast(d.cols, 2), rows |-> AtLeast(d.rows, 1)]

\* Mutant: the terminal is resized only if both dimensions differ.
FitBothMutant ==
    LET d == ProposeDimensions(window)
    IN  /\ resized /\ resized' = FALSE
        /\ IF size.rows = d.rows \/ size.cols = d.cols THEN UNCHANGED size ELSE ResizeTo(d)
        /\ UNCHANGED <<window, buffered, parsing, socket, history>>

\* The page's resize listener.
Fit == LET d == ProposeDimensions(window)
       IN  /\ resized /\ resized' = FALSE
           /\ IF size.rows = d.rows /\ size.cols = d.cols THEN UNCHANGED size ELSE ResizeTo(d)
           /\ UNCHANGED <<window, buffered, parsing, socket, history>>

Next == \/ InnerWrite
        \/ OnOpen \/ OnMessage \/ Disconnect \/ OnClose
        \/ SendLine \/ ArrowUp \/ ArrowDown
        \/ WindowChanges \/ Fit

\* The browser runs the timers that are due and dispatches the events that wait.
Spec == Init /\ [][Next]_vars /\ WF_vars(InnerWrite) /\ WF_vars(OnClose)

(***************************************************************************)
(* What the page guarantees.                                               *)
(***************************************************************************)
\* Types: in particular there is never more than one timer.
TypeOK == /\ buffer \in Seq(0 .. Ids - 1) /\ offset \in 0 .. Len(buffer)
          /\ pending \in 0 .. Limit + 1
          /\ timer \in 0 .. 1
          /\ wrote \in 0 .. Ids - 1 /\ parsed \in 0 .. Ids - 1 /\ threw \in BOOLEAN
          /\ socket \in Sockets
          /\ lines \in 0 .. MaxLines /\ idx \in -2 .. MaxLines - 1
          /\ window \in Windows /\ resized \in BOOLEAN
          /\ size \in [cols : Nat, rows : Nat]

\* Slicing the buffer, starting it anew and exceptions neither lose nor repeat nor
\* reorder a chunk: what is left are all the chunks after the one parsed last.
ParsedInOrder ==
    /\ Left = (wrote - parsed) % Ids
    /\ \A i \in 1 .. Left : buffer[offset + i] = (parsed + i) % Ids

\* The timer runs as long as there is something to parse and no longer: a write that
\* schedules nothing, because the buffer is not empty, may rely on the call that is
\* scheduled.  Once a chunk's parsing has thrown nothing ever starts the timer again.
TimerRuns == timer = 1 <=> Left > 0 /\ ~threw

\* Whatever write accepts is parsed in the end, unless a query of the device was
\* answered while the page was connecting: then the terminal stands still for good.
EveryChunkParsed ==
    \A k \in 0 .. Ids - 1 :
        LET Waits == \E i \in 1 .. Left : buffer[offset + i] = k
        IN  Waits ~> (~Waits \/ threw)

\* The page connects again after every end of a connection, unless so much waits to
\* be parsed that the notice of the end cannot be written.
Reconnects == socket = "closed" ~> (socket = "connecting" \/ Full)

\* Once two different lines have been entered, the arrows stay among them: the field
\* never shows "undefined", which a user could send to the target.
ArrowsStayInHistory == lines > 1 => idx \in 0 .. lines - 1

\* When no resize event is waiting the terminal has the most columns and rows that
\* fit, or the least that xterm.js allows.
Fits(n, min, cell, pixels) ==
    \/ n * cell <= pixels /\ pixels < (n + 1) * cell
    \/ n = min /\ pixels < min * cell

SizeFits == ~resized => /\ Fits(size.cols, 2, CellWidth, window.width)
                        /\ Fits(size.rows, 1, CellHeight, window.height)
=============================================================================

------------------------- MODULE WebTerminalProofs -------------------------
(***************************************************************************)
(* What holds of the terminal page for any limit and any slice of xterm's  *)
(* write buffer, any number of lines, and any windows and characters.      *)
(***************************************************************************)
EXTENDS WebTerminal, Wrapping, SequenceTheorems, TLAPS

Id == 0 .. Ids - 1

(***************************************************************************)
(* The inductive invariant.                                                *)
(***************************************************************************)
\* The chunks left are those after the one parsed last, up to the one written last;
\* pendingData is never less than they are, and a timer only runs for a buffer.
BufferOK == /\ wrote = (parsed + Left) % Ids
            /\ \A i \in 1 .. Left : buffer[offset + i] = (parsed + i) % Ids
            /\ Left <= pending
            /\ timer > 0 => buffer # <<>>

\* While nothing has thrown, a buffer that is not empty has something left and a
\* timer; afterwards it is never empty again and never has one.
TimerOK == IF threw THEN buffer # <<>> /\ timer = 0
           ELSE buffer # <<>> => Left > 0 /\ timer = 1

\* The position never passes the newest line.
PositionOK == idx <= lines - 1

\* With no resize event waiting, the terminal has the size that was computed last.
SizeIsProposed == ~resized => size = ProposeDimensions(window)

Inductive == /\ TypeOK /\ BufferOK /\ TimerOK
             /\ PositionOK /\ ArrowsStayInHistory
             /\ SizeIsProposed

(***************************************************************************)
(* The size of the terminal.                                               *)
(***************************************************************************)
\* FitAddon never proposes less than Terminal.resize allows, so that is what is set.
LEMMA Proposed ==
  ASSUME NEW w \in Windows
  PROVE  LET d == ProposeDimensions(w)
         IN  /\ d \in [cols : Nat, rows : Nat]
             /\ [cols |-> AtLeast(d.cols, 2), rows |-> AtLeast(d.rows, 1)] = d
             /\ Fits(d.cols, 2, CellWidth, w.width)
             /\ Fits(d.rows, 1, CellHeight, w.height)
<1>1. /\ w.width \in Nat /\ w.height \in Nat
      /\ CellWidth \in Nat \ {0} /\ CellHeight \in Nat \ {0}
  BY TerminalAssumption
<1>2. ASSUME NEW pixels \in Nat, NEW cell \in Nat \ {0}, NEW min \in Nat
      PROVE  LET n == AtLeast(pixels \div cell, min)
             IN  n \in Nat /\ AtLeast(n, min) = n /\ Fits(n, min, cell, pixels)
  <2> DEFINE q == pixels \div cell
  <2>1. q \in Nat /\ q * cell <= pixels /\ pixels < (q + 1) * cell
    BY DivFits
  <2> HIDE DEF q
  <2>2. CASE q < min
    <3>1. (q + 1) * cell <= min * cell
      <4>1. CASE q + 1 = min
        BY <2>1, <4>1
      <4>2. CASE q + 1 < min
        BY <2>1, <4>2, MultiplesApart
      <4> QED
        BY <2>1, <2>2, <4>1, <4>2
    <3>2. pixels < min * cell
      BY <2>1, <3>1
    <3> QED
      BY <2>1, <2>2, <3>2 DEF q, AtLeast, Fits
  <2>3. CASE ~(q < min)
    BY <2>1, <2>3 DEF q, AtLeast, Fits
  <2> QED
    BY <2>2, <2>3
<1>3. /\ AtLeast(w.width \div CellWidth, 2) \in Nat
      /\ AtLeast(AtLeast(w.width \div CellWidth, 2), 2) = AtLeast(w.width \div CellWidth, 2)
      /\ Fits(AtLeast(w.width \div CellWidth, 2), 2, CellWidth, w.width)
  BY <1>1, <1>2
<1>4. /\ AtLeast(w.height \div CellHeight, 1) \in Nat
      /\ AtLeast(AtLeast(w.height \div CellHeight, 1), 1) = AtLeast(w.height \div CellHeight, 1)
      /\ Fits(AtLeast(w.height \div CellHeight, 1), 1, CellHeight, w.height)
  BY <1>1, <1>2
<1> QED
  BY <1>3, <1>4 DEF ProposeDimensions

\* The window and the terminal's size.
LEMMA LayoutStep ==
  ASSUME Inductive, WindowChanges \/ Fit
  PROVE  /\ window' \in Windows /\ resized' \in BOOLEAN
         /\ size' \in [cols : Nat, rows : Nat]
         /\ SizeIsProposed'
<1>1. window \in Windows /\ size \in [cols : Nat, rows : Nat]
  BY DEF Inductive, TypeOK
<1>2. CASE WindowChanges
  BY <1>1, <1>2 DEF WindowChanges, SizeIsProposed
<1>3. CASE Fit
  <2> DEFINE d == ProposeDimensions(window)
  <2>1. d \in [cols : Nat, rows : Nat]
    BY <1>1, Proposed
  <2>2. size' = d
    <3>1. CASE size.rows = d.rows /\ size.cols = d.cols /\ UNCHANGED size
      BY <1>1, <2>1, <3>1
    <3>2. CASE ResizeTo(d)
      BY <1>1, <3>2, Proposed DEF ResizeTo
    <3> QED
      BY <1>3, <3>1, <3>2 DEF Fit
  <2>3. d' = d /\ window' = window /\ resized' = FALSE
    BY <1>3 DEF Fit, ProposeDimensions
  <2> QED
    BY <1>1, <2>1, <2>2, <2>3 DEF SizeIsProposed
<1> QED
  BY <1>2, <1>3

(***************************************************************************)
(* The line history.                                                       *)
(***************************************************************************)
\* What the input line's keys do to the position.
LEMMA HistoryStep ==
  ASSUME Inductive, SendLine \/ ArrowUp \/ ArrowDown
  PROVE  /\ lines' \in 0 .. MaxLines /\ idx' \in -2 .. MaxLines - 1
         /\ PositionOK' /\ ArrowsStayInHistory'
<1>1. /\ lines \in 0 .. MaxLines /\ idx \in -2 .. MaxLines - 1 /\ MaxLines \in Nat
      /\ idx <= lines - 1 /\ (lines > 1 => idx \in 0 .. lines - 1)
  BY TerminalAssumption DEF Inductive, TypeOK, PositionOK, ArrowsStayInHistory
<1>2. CASE SendLine
  <2>1. CASE lines < MaxLines /\ lines' = lines + 1 /\ idx' = lines
    BY <1>1, <2>1 DEF PositionOK, ArrowsStayInHistory
  <2>2. CASE UNCHANGED history
    BY <1>1, <2>2 DEF PositionOK, ArrowsStayInHistory, history
  <2> QED
    BY <1>2, <2>1, <2>2 DEF SendLine
<1>3. CASE ArrowUp
  BY <1>1, <1>3 DEF ArrowUp, PositionOK, ArrowsStayInHistory
<1>4. CASE ArrowDown
  BY <1>1, <1>4 DEF ArrowDown, PositionOK, ArrowsStayInHistory
<1> QED
  BY <1>2, <1>3, <1>4

(***************************************************************************)
(* The write buffer.                                                       *)
(***************************************************************************)
BufferType == /\ buffer \in Seq(Id) /\ offset \in 0 .. Len(buffer)
              /\ pending \in 0 .. Limit + 1 /\ timer \in 0 .. 1
              /\ wrote \in Id /\ parsed \in Id

\* The buffer's variables as numbers and a sequence.
LEMMA BufferFacts ==
  ASSUME Inductive
  PROVE  /\ BufferType /\ BufferOK
         /\ Len(buffer) \in Nat /\ offset \in Nat /\ Left \in Nat
         /\ pending \in Nat /\ parsed \in Int /\ wrote \in Int
         /\ Ids \in Nat \ {0} /\ Limit \in Nat /\ SliceAt \in Nat /\ Ids > Limit + 1
         /\ buffer = <<>> => Len(buffer) = 0 /\ offset = 0 /\ Left = 0 /\ timer = 0
<1>1. BufferType /\ BufferOK
  BY DEF Inductive, TypeOK, BufferType, Id
<1>2. Ids \in Nat \ {0} /\ Limit \in Nat /\ SliceAt \in Nat /\ Ids > Limit + 1
  BY TerminalAssumption
<1>3. Len(buffer) \in Nat
  BY <1>1, LenProperties DEF BufferType
<1>4. /\ offset \in Nat /\ Left \in Nat /\ pending \in Nat
      /\ parsed \in Int /\ wrote \in Int
  BY <1>1, <1>2, <1>3 DEF BufferType, Left, Id
<1>5. ASSUME buffer = <<>>
      PROVE  Len(buffer) = 0 /\ offset = 0 /\ Left = 0 /\ timer = 0
  <2>1. Len(buffer) = 0
    BY <1>5, EmptySeq
  <2>2. offset \in 0 .. Len(buffer)
    BY <1>1 DEF BufferType
  <2>3. offset = 0 /\ Left = 0
    <3>1. offset = 0
      BY <2>1, <2>2
    <3>2. Len(buffer) - offset = 0
      BY <2>1, <3>1
    <3> QED
      BY <3>1, <3>2 DEF Left
  <2>4. timer = 0
    BY <1>1, <1>5 DEF BufferType, BufferOK
  <2> QED
    BY <2>1, <2>3, <2>4
<1> QED
  BY <1>1, <1>2, <1>3, <1>4, <1>5

\* A chunk that is accepted is the next one, and the last one left.
LEMMA WriteStep ==
  ASSUME Inductive, Write, UNCHANGED parsed
  PROVE  BufferType' /\ BufferOK'
<1> DEFINE k == Next1(wrote)
<1>1. k \in Id
  <2>1. wrote + 1 \in Int /\ Ids \in Nat \ {0}
    BY BufferFacts
  <2> QED
    BY <2>1, DivMod DEF Next1, Id
<1>2. wrote' = k /\ buffer' = Append(buffer, k) /\ pending' = pending + 1 /\ ~Full
  BY DEF Write
<1>3. k = (parsed + (Left + 1)) % Ids
  <2>1. parsed + Left \in Int /\ 1 \in Int /\ Ids \in Nat \ {0}
    BY BufferFacts
  <2>2. (((parsed + Left) % Ids) + 1) % Ids = (parsed + Left + 1) % Ids
    BY <2>1, ModAdd
  <2>3. parsed + Left + 1 = parsed + (Left + 1)
    BY BufferFacts
  <2> QED
    BY <2>2, <2>3, BufferFacts DEF Next1, BufferOK
<1> HIDE DEF k
<1>4. /\ buffer' \in Seq(Id) /\ Len(buffer') = Len(buffer) + 1 /\ buffer' # <<>>
      /\ \A i \in 1 .. Len(buffer) : buffer'[i] = buffer[i]
      /\ buffer'[Len(buffer) + 1] = k
  BY <1>1, <1>2, BufferFacts, AppendProperties DEF BufferType
<1>5. offset' = offset /\ timer' \in 0 .. 1
  BY BufferFacts DEF Write, BufferType
<1>6. Left' = Left + 1 /\ offset + (Left + 1) = Len(buffer) + 1
  BY <1>4, <1>5, BufferFacts DEF Left
<1>7. pending' \in 0 .. Limit + 1 /\ Left' <= pending'
  BY <1>2, <1>6, BufferFacts DEF Full, BufferOK
<1>8. BufferType'
  <2>1. Id' = Id
    BY DEF Id
  <2> QED
    BY <1>1, <1>2, <1>4, <1>5, <1>7, <2>1, BufferFacts DEF BufferType
<1>9. ASSUME NEW i \in 1 .. Left'
      PROVE  buffer'[offset' + i] = (parsed' + i) % Ids
  <2>1. CASE i = Left + 1
    BY <1>3, <1>4, <1>5, <1>6, <2>1
  <2>2. CASE i # Left + 1
    <3>1. i \in 1 .. Left /\ offset + i \in 1 .. Len(buffer)
      BY <1>6, <2>2, BufferFacts DEF Left
    <3> QED
      BY <1>4, <1>5, <3>1, BufferFacts DEF BufferOK
  <2> QED
    BY <2>1, <2>2
<1>10. wrote' = (parsed' + Left') % Ids
  BY <1>2, <1>3, <1>6
<1> QED
  BY <1>4, <1>7, <1>8, <1>9, <1>10 DEF BufferOK

\* So it is if write throws, or is not called.
LEMMA TryWriteStep ==
  ASSUME Inductive, TryWrite \/ UNCHANGED buffered, UNCHANGED parsed
  PROVE  BufferType' /\ BufferOK'
<1>1. CASE UNCHANGED buffered
  <2>1. Id' = Id /\ Left' = Left
    BY <1>1 DEF buffered, Id, Left
  <2> QED
    BY <1>1, <2>1, BufferFacts DEF buffered, BufferType, BufferOK
<1> QED
  BY <1>1, WriteStep DEF TryWrite

\* A call of _innerWrite parses the first n chunks left, whichever way it ends.
LEMMA InnerWriteStep ==
  ASSUME Inductive, InnerWrite
  PROVE  BufferType' /\ BufferOK'
<1>1. PICK n \in 1 .. Left :
        /\ parsed' = buffer[offset + n]
        /\ \/ n < Left /\ Pause(n)
           \/ n = Left /\ Finish
           \/ Abort(n)
  BY DEF InnerWrite
<1>2. timer = 1 /\ buffer # <<>> /\ wrote' = wrote
  BY BufferFacts DEF InnerWrite, BufferType
<1>3. /\ n \in Nat \ {0} /\ n <= Left /\ n <= pending
      /\ offset + n \in 1 .. Len(buffer) /\ offset + n \in Nat
      /\ Left = Len(buffer) - offset
      /\ Left \in Nat /\ offset \in Nat /\ Len(buffer) \in Nat
  <2>1. Left \in Nat /\ offset \in Nat /\ Len(buffer) \in Nat /\ pending \in Nat
    BY BufferFacts
  <2>2. n \in Nat \ {0} /\ n <= Left
    BY <2>1
  <2>3. Left <= pending
    BY BufferFacts DEF BufferOK
  <2>4. Left = Len(buffer) - offset
    BY DEF Left
  <2>5. n <= pending
    BY <2>1, <2>2, <2>3
  <2>6. offset + n \in 1 .. Len(buffer) /\ offset + n \in Nat
    BY <2>1, <2>2, <2>4
  <2> QED
    BY <2>1, <2>2, <2>4, <2>5, <2>6
<1>4. parsed' \in Id
  BY <1>1, <1>3, BufferFacts, ElementOfSeq DEF BufferType
<1>5. /\ pending - n \in 0 .. Limit + 1 /\ pending - (n - 1) \in 0 .. Limit + 1
      /\ Left - n <= pending - n /\ Left - n <= pending - (n - 1)
      /\ Len(buffer) - (offset + n) = Left - n
      /\ Left - n \in Nat /\ 0 \in 0 .. Left - n
  <2>1. pending \in 0 .. Limit + 1 /\ Left <= pending /\ Limit \in Nat
    BY BufferFacts DEF BufferType, BufferOK
  <2> QED
    BY <1>3, <2>1
<1>6. ASSUME NEW i \in 0 .. Left - n
      PROVE  (parsed' + i) % Ids = (parsed + (n + i)) % Ids
  <2>1. parsed' = (parsed + n) % Ids
    BY <1>1, BufferFacts DEF BufferOK
  <2>2. parsed + n \in Int /\ i \in Int
    BY <1>3, BufferFacts
  <2>3. (((parsed + n) % Ids) + i) % Ids = (parsed + n + i) % Ids
    BY <2>2, BufferFacts, ModAdd
  <2>4. parsed + n + i = parsed + (n + i)
    BY <2>2, <1>3, BufferFacts
  <2> QED
    BY <2>1, <2>3, <2>4
<1>7. ASSUME NEW i \in 1 .. Left - n
      PROVE  buffer[(offset + n) + i] = (parsed' + i) % Ids
  <2>1. n + i \in 1 .. Left /\ i \in 0 .. Left - n /\ offset + (n + i) = (offset + n) + i
    BY <1>3, BufferFacts
  <2>2. buffer[offset + (n + i)] = (parsed + (n + i)) % Ids
    BY <2>1, BufferFacts DEF BufferOK
  <2> QED
    BY <1>6, <2>1, <2>2
<1>8. wrote' = (parsed' + (Left - n)) % Ids
  <2>1. Left - n \in 0 .. Left - n /\ n + (Left - n) = Left
    BY <1>3, BufferFacts
  <2>2. wrote = (parsed + Left) % Ids
    BY BufferFacts DEF BufferOK
  <2> QED
    BY <1>2, <1>6, <2>1, <2>2
<1>9. ASSUME buffer' \in Seq(Id), offset' \in 0 .. Len(buffer'),
             pending' \in 0 .. Limit + 1, timer' \in 0 .. 1,
             timer' > 0 => buffer' # <<>>,
             Left' = Left - n, Left - n <= pending',
             \A i \in 1 .. Left - n : buffer'[offset' + i] = buffer[(offset + n) + i]
      PROVE  BufferType' /\ BufferOK'
  <2>1. Id' = Id
    BY DEF Id
  <2>2. BufferType'
    BY <1>2, <1>4, <1>9, <2>1, BufferFacts DEF BufferType
  <2>3. \A i \in 1 .. Left' : buffer'[offset' + i] = (parsed' + i) % Ids
    BY <1>7, <1>9
  <2>4. wrote' = (parsed' + Left') % Ids
    BY <1>8, <1>9
  <2> QED
    BY <1>9, <2>2, <2>3, <2>4 DEF BufferOK
<1>10. CASE n < Left /\ Pause(n) /\ offset + n > SliceAt
  <2> DEFINE m == offset + n + 1
  <2>1. /\ buffer' = SubSeq(buffer, m, Len(buffer)) /\ offset' = 0
        /\ pending' = pending - n /\ timer' = 1
    BY <1>2, <1>10 DEF Pause
  <2>2. /\ m \in Int /\ Len(buffer) \in Int /\ 1 <= m /\ m <= Len(buffer)
        /\ Len(buffer) - m + 1 = Left - n /\ Left - n \in Nat \ {0}
    BY <1>3, <1>10
  <2> HIDE DEF m
  <2>3. \A i \in m .. Len(buffer) : buffer[i] \in Id
    <3>1. ASSUME NEW i \in m .. Len(buffer) PROVE i \in 1 .. Len(buffer)
      BY <2>2
    <3> QED
      BY <3>1, BufferFacts, ElementOfSeq DEF BufferType
  <2>4. /\ buffer' \in Seq(Id) /\ Len(buffer') = Left - n
        /\ \A i \in 1 .. Left - n : buffer'[i] = buffer[m + i - 1]
    BY <2>1, <2>2, <2>3, SubSeqProperties
  <2>5. buffer' # <<>>
    BY <2>2, <2>4, EmptySeq
  <2>6. /\ offset' \in 0 .. Len(buffer') /\ pending' \in 0 .. Limit + 1
        /\ Left' = Left - n /\ Left - n <= pending'
    BY <1>5, <2>1, <2>2, <2>4 DEF Left
  <2>7. \A i \in 1 .. Left - n : buffer'[offset' + i] = buffer[(offset + n) + i]
    <3>1. ASSUME NEW i \in 1 .. Left - n
          PROVE  offset' + i = i /\ m + i - 1 = (offset + n) + i
      BY <1>3, <2>1 DEF m
    <3> QED
      BY <2>4, <3>1
  <2> QED
    BY <1>9, <2>1, <2>4, <2>5, <2>6, <2>7
<1>11. CASE n < Left /\ Pause(n) /\ ~(offset + n > SliceAt)
  <2>1. /\ buffer' = buffer /\ offset' = offset + n
        /\ pending' = pending - n /\ timer' = 1
    BY <1>2, <1>11 DEF Pause
  <2>2. /\ offset' \in 0 .. Len(buffer') /\ pending' \in 0 .. Limit + 1
        /\ Left' = Left - n /\ Left - n <= pending'
    BY <1>3, <1>5, <2>1 DEF Left
  <2> QED
    BY <1>2, <1>9, <2>1, <2>2, BufferFacts DEF BufferType
<1>12. CASE n = Left /\ Finish
  <2>1. /\ buffer' = <<>> /\ buffer' \in Seq(Id) /\ Len(buffer') = 0
        /\ offset' = 0 /\ pending' = 0 /\ timer' = 0
    BY <1>2, <1>12, EmptySeq DEF Finish
  <2>2. Left' = 0 /\ Left - n = 0
    BY <1>3, <1>12, <2>1 DEF Left
  <2>3. 0 \in 0 .. Limit + 1
    BY BufferFacts
  <2> QED
    BY <1>9, <2>1, <2>2, <2>3
<1>13. CASE Abort(n)
  <2>1. /\ buffer' = buffer /\ offset' = offset + n
        /\ pending' = pending - (n - 1) /\ timer' = 0
    BY <1>2, <1>13 DEF Abort
  <2>2. /\ offset' \in 0 .. Len(buffer') /\ pending' \in 0 .. Limit + 1
        /\ Left' = Left - n /\ Left - n <= pending'
    BY <1>3, <1>5, <2>1 DEF Left
  <2> QED
    BY <1>9, <2>1, <2>2, BufferFacts DEF BufferType
<1> QED
  BY <1>1, <1>10, <1>11, <1>12, <1>13

\* The timer after a write that is accepted, or throws, or is not called.
LEMMA TryWriteTimer ==
  ASSUME Inductive, TryWrite \/ UNCHANGED buffered, UNCHANGED threw
  PROVE  TimerOK'
<1>1. CASE UNCHANGED buffered
  BY <1>1 DEF buffered, Inductive, TimerOK, Left
<1>2. CASE Write
  <2>1. /\ buffer' # <<>> /\ Len(buffer') = Len(buffer) + 1
        /\ timer \in 0 .. 1 /\ offset \in 0 .. Len(buffer)
    <3>1. Next1(wrote) \in Id
      <4>1. wrote + 1 \in Int /\ Ids \in Nat \ {0}
        BY BufferFacts
      <4> QED
        BY <4>1, DivMod DEF Next1, Id
    <3>2. buffer \in Seq(Id) /\ buffer' = Append(buffer, Next1(wrote))
      BY <1>2, BufferFacts DEF Write, BufferType
    <3> QED
      BY <3>1, <3>2, BufferFacts, AppendProperties DEF BufferType
  <2>2. CASE buffer = <<>>
    <3>1. ~threw /\ timer' = 1 /\ offset' = 0 /\ Left' > 0
      BY <1>2, <2>1, <2>2, BufferFacts DEF Write, Inductive, TimerOK, Left
    <3> QED
      BY <2>1, <3>1 DEF TimerOK
  <2>3. CASE buffer # <<>>
    <3>1. timer' = timer /\ offset' = offset
      BY <1>2, <2>3 DEF Write
    <3>2. Left' = Left + 1
      BY <2>1, <3>1, BufferFacts DEF Left
    <3> QED
      BY <2>1, <2>3, <3>1, <3>2, BufferFacts DEF Inductive, TimerOK
  <2> QED
    BY <2>2, <2>3
<1> QED
  BY <1>1, <1>2 DEF TryWrite

\* The timer after a call of _innerWrite, which a timer has caused.
LEMMA InnerWriteTimer ==
  ASSUME Inductive, InnerWrite
  PROVE  TimerOK'
<1>1. PICK n \in 1 .. Left :
        \/ n < Left /\ Pause(n) /\ UNCHANGED threw
        \/ n = Left /\ Finish /\ UNCHANGED threw
        \/ Abort(n) /\ threw' = TRUE
  BY DEF InnerWrite
<1>2. /\ timer = 1 /\ buffer # <<>> /\ ~threw
      /\ n \in Nat \ {0} /\ Left = Len(buffer) - offset /\ Left \in Nat
      /\ offset \in Nat /\ Len(buffer) \in Nat
  BY BufferFacts DEF InnerWrite, BufferType, Inductive, TimerOK, Left
<1>3. CASE n < Left /\ Pause(n) /\ UNCHANGED threw
  <2>1. timer' = 1 /\ ~threw'
    BY <1>2, <1>3 DEF Pause
  <2>2. Left' > 0
    <3>1. CASE offset + n > SliceAt
      <4> DEFINE m == offset + n + 1
      <4>1. buffer' = SubSeq(buffer, m, Len(buffer)) /\ offset' = 0
        BY <1>3, <3>1 DEF Pause
      <4>2. /\ m \in Int /\ Len(buffer) \in Int /\ 1 <= m /\ m <= Len(buffer)
            /\ Len(buffer) - m + 1 = Left - n /\ Left - n > 0
        BY <1>2, <1>3
      <4> HIDE DEF m
      <4>3. \A i \in m .. Len(buffer) : buffer[i] \in Id
        <5>1. ASSUME NEW i \in m .. Len(buffer) PROVE i \in 1 .. Len(buffer)
          BY <4>2
        <5> QED
          BY <5>1, BufferFacts, ElementOfSeq DEF BufferType
      <4>4. Len(buffer') = Left - n
        BY <4>1, <4>2, <4>3, SubSeqProperties
      <4> QED
        BY <1>2, <4>1, <4>2, <4>4 DEF Left
    <3>2. CASE ~(offset + n > SliceAt)
      BY <1>2, <1>3, <3>2 DEF Pause, Left
    <3> QED
      BY <3>1, <3>2
  <2> QED
    BY <2>1, <2>2 DEF TimerOK
<1>4. CASE n = Left /\ Finish /\ UNCHANGED threw
  BY <1>2, <1>4 DEF Finish, TimerOK
<1>5. CASE Abort(n) /\ threw' = TRUE
  BY <1>2, <1>5 DEF Abort, TimerOK
<1> QED
  BY <1>1, <1>3, <1>4, <1>5

(***************************************************************************)
(* Together.                                                               *)
(***************************************************************************)
\* What is not the buffer's.
LEMMA StepKeepsType ==
  ASSUME Inductive, [Next]_vars
  PROVE  /\ threw' \in BOOLEAN /\ socket' \in Sockets
         /\ lines' \in 0 .. MaxLines /\ idx' \in -2 .. MaxLines - 1
         /\ window' \in Windows /\ resized' \in BOOLEAN
         /\ size' \in [cols : Nat, rows : Nat]
         /\ PositionOK' /\ ArrowsStayInHistory' /\ SizeIsProposed'
<1>1. threw' \in BOOLEAN
  BY DEF Inductive, TypeOK, Next, vars, parsing, InnerWrite, OnOpen, OnMessage,
         Disconnect, OnClose, SendLine, ArrowUp, ArrowDown, WindowChanges, Fit
<1>2. socket' \in Sockets
  BY DEF Inductive, TypeOK, Next, vars, InnerWrite, OnOpen, OnMessage, Disconnect,
         OnClose, SendLine, ArrowUp, ArrowDown, WindowChanges, Fit, Sockets
<1>3. /\ lines' \in 0 .. MaxLines /\ idx' \in -2 .. MaxLines - 1
      /\ PositionOK' /\ ArrowsStayInHistory'
  <2>1. CASE UNCHANGED history
    BY <2>1 DEF history, Inductive, TypeOK, PositionOK, ArrowsStayInHistory
  <2>2. CASE SendLine \/ ArrowUp \/ ArrowDown
    BY <2>2, HistoryStep
  <2> QED
    BY <2>1, <2>2 DEF Next, vars, InnerWrite, OnOpen, OnMessage, Disconnect, OnClose,
                      WindowChanges, Fit
<1>4. /\ window' \in Windows /\ resized' \in BOOLEAN
      /\ size' \in [cols : Nat, rows : Nat] /\ SizeIsProposed'
  <2>1. CASE UNCHANGED layout
    BY <2>1 DEF layout, Inductive, TypeOK, SizeIsProposed, ProposeDimensions
  <2>2. CASE WindowChanges \/ Fit
    BY <2>2, LayoutStep
  <2> QED
    BY <2>1, <2>2 DEF Next, vars, InnerWrite, OnOpen, OnMessage, Disconnect, OnClose,
                      SendLine, ArrowUp, ArrowDown
<1> QED
  BY <1>1, <1>2, <1>3, <1>4

\* Every step preserves the invariant.
LEMMA NextInductive == Inductive /\ [Next]_vars => Inductive'
<1> SUFFICES ASSUME Inductive, [Next]_vars PROVE Inductive'
  OBVIOUS
<1>1. InnerWrite \/ ((TryWrite \/ UNCHANGED buffered) /\ UNCHANGED parsing)
  BY DEF Next, vars, parsing, buffered, OnOpen, OnMessage, Disconnect, OnClose, SendLine,
         ArrowUp, ArrowDown, WindowChanges, Fit
<1>2. BufferType' /\ BufferOK'
  BY <1>1, InnerWriteStep, TryWriteStep DEF parsing
<1>3. TypeOK'
  BY <1>2, StepKeepsType DEF TypeOK, BufferType, Id
<1>4. TimerOK'
  BY <1>1, InnerWriteTimer, TryWriteTimer DEF parsing
<1> QED
  BY <1>2, <1>3, <1>4, StepKeepsType DEF Inductive

\* The page starts with nothing written and the size that fits.
LEMMA InitInductive == Init => Inductive
<1> SUFFICES ASSUME Init PROVE Inductive
  OBVIOUS
<1>1. buffer \in Seq(Id) /\ Len(buffer) = 0 /\ Left = 0
  BY EmptySeq DEF Init, Left
<1>2. /\ 0 \in 0 .. Ids - 1 /\ 0 \in 0 .. Limit + 1 /\ Ids \in Nat \ {0}
      /\ MaxLines \in Nat
  BY TerminalAssumption
<1>3. size \in [cols : Nat, rows : Nat]
  BY Proposed DEF Init
<1>4. TypeOK
  <2>1. offset \in 0 .. Len(buffer) /\ timer \in 0 .. 1
    BY <1>1 DEF Init
  <2>2. lines \in 0 .. MaxLines /\ idx \in -2 .. MaxLines - 1
    BY <1>2 DEF Init
  <2>3. pending \in 0 .. Limit + 1 /\ wrote \in 0 .. Ids - 1 /\ parsed \in 0 .. Ids - 1
    BY <1>2 DEF Init
  <2> QED
    BY <1>1, <1>3, <2>1, <2>2, <2>3 DEF Init, TypeOK, Sockets, Id
<1>5. 0 % Ids = 0
  BY <1>2, ModSmall
<1> QED
  BY <1>1, <1>4, <1>5
     DEF Init, Inductive, BufferOK, TimerOK, PositionOK, ArrowsStayInHistory, SizeIsProposed

(***************************************************************************)
(* The theorems.                                                           *)
(***************************************************************************)
\* The invariant of the page holds in every state.
THEOREM TerminalInvariant == Spec => []Inductive
  BY InitInductive, NextInductive, PTL DEF Spec

\* The state of the page has its type; in particular xterm.js never has two timers
\* that empty the same buffer, and pendingData never falls below zero.
THEOREM TerminalTypeCorrect == Spec => []TypeOK
<1>1. Inductive => TypeOK
  BY DEF Inductive
<1> QED
  BY <1>1, TerminalInvariant, PTL

\* The write buffer of xterm.js loses, repeats and reorders nothing, however it is
\* sliced and whatever is thrown.
THEOREM TerminalParsedInOrder == Spec => []ParsedInOrder
<1>1. Inductive => ParsedInOrder
  <2> SUFFICES ASSUME Inductive PROVE ParsedInOrder
    OBVIOUS
  <2>1. Left \in 0 .. Ids - 1 /\ parsed \in 0 .. Ids - 1
    BY BufferFacts DEF BufferOK, BufferType, Id
  <2>2. wrote = (parsed + Left) % Ids
    BY BufferFacts DEF BufferOK
  <2>3. (((parsed + Left) % Ids) + (-parsed)) % Ids = (parsed + Left + (-parsed)) % Ids
    <3>1. parsed + Left \in Int /\ -parsed \in Int
      BY BufferFacts
    <3> QED
      BY <3>1, BufferFacts, ModAdd
  <2>4. /\ parsed + Left + (-parsed) = Left
        /\ wrote - parsed = wrote + (-parsed)
    BY BufferFacts
  <2>5. Left % Ids = Left
    BY <2>1, BufferFacts, ModSmall
  <2>6. (wrote - parsed) % Ids = Left
    BY <2>2, <2>3, <2>4, <2>5
  <2> QED
    BY <2>6, BufferFacts DEF BufferOK, ParsedInOrder
<1> QED
  BY <1>1, TerminalInvariant, PTL

\* The arrow keys of index.html stay inside line_items once it holds two lines.
THEOREM TerminalArrowsStayInHistory == Spec => []ArrowsStayInHistory
<1>1. Inductive => ArrowsStayInHistory
  BY DEF Inductive
<1> QED
  BY <1>1, TerminalInvariant, PTL

\* With no resize event waiting, the terminal has the size that fits its window.
THEOREM TerminalSizeFits == Spec => []SizeFits
<1>1. Inductive => SizeFits
  BY Proposed DEF Inductive, TypeOK, SizeIsProposed, SizeFits
<1> QED
  BY <1>1, TerminalInvariant, PTL

\* What is left in xterm's write buffer has a timer, and an empty buffer has none,
\* until a chunk's parsing throws; then there never is a timer again.
THEOREM TerminalTimerRuns == Spec => []TimerRuns
<1>1. Inductive => TimerRuns
  <2> SUFFICES ASSUME Inductive PROVE TimerRuns
    OBVIOUS
  <2>1. buffer = <<>> => Left = 0 /\ timer = 0
    BY BufferFacts
  <2> QED
    BY <2>1 DEF Inductive, TimerOK, TimerRuns
<1> QED
  BY <1>1, TerminalInvariant, PTL
=============================================================================

-------------------------- MODULE DebugQueueProofs --------------------------
(***************************************************************************)
(* What holds of the debug message queue for any size of the buffer, any   *)
(* width of the indices that the size divides, and any line buffer.        *)
(***************************************************************************)
EXTENDS DebugQueue, Wrapping, SequenceTheorems, TLAPS

(***************************************************************************)
(* Indices, and the entries they lead to.                                  *)
(***************************************************************************)
\* An index leads to the same entry before and after it wraps, since the size of the
\* buffer divides the number of indices.
LEMMA EntryOfIndex ==
  ASSUME NEW a \in Nat
  PROVE  /\ (a % IdxMod) % Size = a % Size
         /\ (a + IdxMod) % Size = a % Size
         /\ (a + IdxMod) % IdxMod = a % IdxMod
<1>1. Size \in Nat \ {0} /\ IdxMod \in Nat \ {0} /\ a \in Int /\ IdxMod \in Int
  BY QueueAssumption
<1>2. PICK m \in Int : IdxMod = m * Size
  <2>1. PICK m \in Int : IdxMod = m * Size + (IdxMod % Size)
    BY <1>1, DivMod
  <2>2. IdxMod = m * Size
    BY <1>1, <2>1, QueueAssumption
  <2> QED
    BY <2>2
<1>3. PICK q \in Int : a = q * IdxMod + (a % IdxMod)
  BY <1>1, DivMod
<1>4. a % IdxMod \in Int
  BY <1>1, DivMod
<1>5. q * m \in Int /\ q * IdxMod = (q * m) * Size
  BY <1>1, <1>2
<1>6. ((a % IdxMod) + (q * m) * Size) % Size = (a % IdxMod) % Size
  BY <1>1, <1>4, <1>5, ModPeriod
<1>7. a = (a % IdxMod) + (q * m) * Size
  <2>1. q * IdxMod \in Int
    BY <1>1
  <2> QED
    BY <1>3, <1>4, <1>5, <2>1
<1>8. (a % IdxMod) % Size = a % Size
  BY <1>6, <1>7
<1>9. (a + IdxMod) % Size = a % Size
  BY <1>1, <1>2, ModPeriod
<1> QED
  BY <1>1, <1>8, <1>9, ModAdd

(***************************************************************************)
(* The inductive invariant.                                                *)
(***************************************************************************)
\* As long as the writer has not run over the reader, the indices are as far apart
\* as there are unread characters, but for whole turns.
IndicesAgree == ~overrun => /\ Len(unread) <= Size
                            /\ m_put_idx = (m_get_idx + Len(unread)) % IdxMod

\* Between the two halves of CBUF_Push the character is in its entry, and that was
\* free.
HalfPushed == writer = "advance" => /\ m_entry[m_put_idx % Size] = Head(pushing)
                                    /\ ~overrun => Len(unread) < Size

\* What debug_putc is given, and nothing is left of it when it returns.
Pushes == /\ writer \in {"store", "advance"} => pushing \in {<<"x">>, <<"cr", "nl">>, <<"nl">>}
          /\ writer \in {"idle", "give"} => pushing = <<>>

\* A reader that has seen the buffer hold something still has a character to take,
\* however far the writer has got since.
InHand == Committed /\ ~overrun => unread # <<>>

Inductive == TypeOK /\ IndicesAgree /\ HalfPushed /\ Pushes /\ InHand /\ QueueHoldsUnread

USE DEF Chars, Prints

\* The first of what is to be pushed is a character.
LEMMA PushedChar ==
  ASSUME pushing \in {<<"x">>, <<"cr", "nl">>, <<"nl">>}
  PROVE  /\ Head(pushing) \in Chars
         /\ Tail(pushing) \in Seq(Chars)
         /\ Len(pushing) > 1 => Tail(pushing) = <<"nl">> /\ Head(pushing) # "nl"
         /\ ~(Len(pushing) > 1) => Tail(pushing) = <<>>
         /\ pushing # <<>>
<1>1. CASE pushing = <<"x">>
  <2>1. pushing \in Seq(Chars) /\ pushing # <<>> /\ Head(pushing) = "x" /\ Len(pushing) = 1
    BY <1>1
  <2>2. Tail(pushing) \in Seq(Chars) /\ Len(Tail(pushing)) = 0
    BY <2>1, HeadTailProperties
  <2>3. Tail(pushing) = <<>>
    BY <2>2, EmptySeq
  <2> QED
    BY <2>1, <2>2, <2>3
<1>2. CASE pushing = <<"cr", "nl">>
  <2>1. /\ pushing \in Seq(Chars) /\ pushing # <<>> /\ Head(pushing) = "cr"
        /\ Len(pushing) = 2 /\ pushing[2] = "nl"
    BY <1>2
  <2>2. /\ Tail(pushing) \in Seq(Chars) /\ Len(Tail(pushing)) = 1
        /\ Tail(pushing)[1] = "nl"
    BY <2>1, HeadTailProperties
  <2>3. <<"nl">> \in Seq(Chars) /\ Len(<<"nl">>) = 1 /\ <<"nl">>[1] = "nl"
    OBVIOUS
  <2>4. Tail(pushing) = <<"nl">>
    <3> DEFINE s == Tail(pushing)
               t == <<"nl">>
    <3>1. /\ s \in Seq(Chars) /\ t \in Seq(Chars) /\ Len(s) = 1 /\ Len(t) = 1
          /\ s[1] = t[1]
      BY <2>2, <2>3
    <3> HIDE DEF s, t
    <3>2. \A i \in 1 .. Len(s) : i = 1
      BY <3>1
    <3>3. s = t
      BY <3>1, <3>2, SeqEqual
    <3> QED
      BY <3>3 DEF s, t
  <2> QED
    BY <2>1, <2>2, <2>4
<1>3. CASE pushing = <<"nl">>
  <2>1. pushing \in Seq(Chars) /\ pushing # <<>> /\ Head(pushing) = "nl" /\ Len(pushing) = 1
    BY <1>3
  <2>2. Tail(pushing) \in Seq(Chars) /\ Len(Tail(pushing)) = 0
    BY <2>1, HeadTailProperties
  <2>3. Tail(pushing) = <<>>
    BY <2>2, EmptySeq
  <2> QED
    BY <2>1, <2>2, <2>3
<1> QED
  BY <1>1, <1>2, <1>3

\* The indices and the length of the history as numbers, and the entries they name.
LEMMA Indices ==
  ASSUME TypeOK
  PROVE  /\ Size \in Nat \ {0} /\ IdxMod \in Nat \ {0} /\ LineMax \in Nat \ {0}
         /\ m_put_idx \in Nat /\ m_put_idx < IdxMod
         /\ m_get_idx \in Nat /\ m_get_idx < IdxMod
         /\ Len(unread) \in Nat
         /\ m_put_idx % Size \in 0 .. Size - 1
         /\ m_get_idx % Size \in 0 .. Size - 1
<1>1. /\ Size \in Nat \ {0} /\ IdxMod \in Nat \ {0} /\ LineMax \in Nat \ {0}
      /\ m_put_idx \in Nat /\ m_put_idx < IdxMod
      /\ m_get_idx \in Nat /\ m_get_idx < IdxMod
  BY QueueAssumption DEF TypeOK
<1>2. m_put_idx % Size \in 0 .. Size - 1 /\ m_get_idx % Size \in 0 .. Size - 1
  BY <1>1, DivMod
<1>3. Len(unread) \in Nat
  BY LenProperties DEF TypeOK
<1> QED
  BY <1>1, <1>2, <1>3

\* The buffer is empty for the reader exactly when the indices are equal.
LEMMA EmptyMeansEqual ==
  ASSUME TypeOK
  PROVE  CBUF_IsEmpty <=> m_put_idx = m_get_idx
<1>1. /\ IdxMod \in Nat \ {0} /\ m_put_idx \in Nat /\ m_put_idx < IdxMod
      /\ m_get_idx \in Nat /\ m_get_idx < IdxMod
  BY Indices
<1>2. CASE m_put_idx >= m_get_idx
  <2>1. /\ m_put_idx - m_get_idx \in Nat
        /\ m_put_idx - m_get_idx \in 0 .. IdxMod - 1
        /\ IdxMod + m_put_idx - m_get_idx = (m_put_idx - m_get_idx) + IdxMod
    BY <1>1, <1>2
  <2>2. CBUF_Len = m_put_idx - m_get_idx
    BY <1>1, <2>1, EntryOfIndex, ModSmall DEF CBUF_Len
  <2> QED
    BY <1>1, <2>2 DEF CBUF_IsEmpty
<1>3. CASE m_put_idx < m_get_idx
  <2>1. /\ IdxMod + m_put_idx - m_get_idx \in Nat \ {0}
        /\ IdxMod + m_put_idx - m_get_idx < IdxMod
    BY <1>1, <1>3
  <2>2. CBUF_Len = IdxMod + m_put_idx - m_get_idx
    BY <1>1, <2>1, ModSmall DEF CBUF_Len
  <2> QED
    BY <1>1, <1>3, <2>1, <2>2 DEF CBUF_IsEmpty
<1> QED
  BY <1>1, <1>2, <1>3

\* An index that is advanced stays one, and leads on.
LEMMA AdvanceIndex ==
  ASSUME NEW g \in 0 .. IdxMod - 1, NEW i \in Nat
  PROVE  /\ (g + 1) % IdxMod \in 0 .. IdxMod - 1
         /\ (((g + 1) % IdxMod) + i) % Size = (g + 1 + i) % Size
         /\ (((g + 1) % IdxMod) + i) % IdxMod = (g + 1 + i) % IdxMod
<1>1. IdxMod \in Nat \ {0} /\ g \in Nat /\ g + 1 \in Nat /\ 0 \in Nat
  BY QueueAssumption
<1>2. CASE g + 1 < IdxMod
  <2>1. (g + 1) % IdxMod = g + 1
    BY <1>1, <1>2, ModSmall
  <2> QED
    BY <1>1, <1>2, <2>1
<1>3. CASE g + 1 = IdxMod
  <2>1. 0 % IdxMod = 0 /\ (0 + IdxMod) % IdxMod = 0 % IdxMod
    BY <1>1, ModSmall, EntryOfIndex
  <2>2. (g + 1) % IdxMod = 0
    BY <1>1, <1>3, <2>1
  <2>3. g + 1 + i = i + IdxMod /\ 0 + i = i
    BY <1>1, <1>3
  <2>4. (i + IdxMod) % Size = i % Size /\ (i + IdxMod) % IdxMod = i % IdxMod
    BY EntryOfIndex
  <2> QED
    BY <1>1, <2>2, <2>3, <2>4
<1> QED
  BY <1>1, <1>2, <1>3

\* The entry of the put index, seen from the get index.
LEMMA PutEntry ==
  ASSUME Inductive, ~overrun
  PROVE  m_put_idx % Size = (m_get_idx + Len(unread)) % Size
<1>1. m_get_idx \in Nat /\ Len(unread) \in Nat
  BY Indices DEF Inductive
<1>2. m_get_idx + Len(unread) \in Nat
  BY <1>1
<1> QED
  BY <1>2, EntryOfIndex DEF Inductive, IndicesAgree

\* The queue starts empty.
LEMMA InitInductive == Init => Inductive
<1> SUFFICES ASSUME Init PROVE Inductive
  OBVIOUS
<1>1. <<>> \in Seq(Chars) /\ Len(<<>>) = 0
  BY EmptySeq
<1>2. TypeOK
  BY <1>1, QueueAssumption DEF Init, TypeOK
<1>3. (m_get_idx + Len(unread)) % IdxMod = m_put_idx
  <2>1. 0 % IdxMod = 0
    BY QueueAssumption, ModSmall
  <2> QED
    BY <1>1, <2>1 DEF Init
<1> QED
  BY <1>1, <1>2, <1>3, QueueAssumption
     DEF Init, Inductive, IndicesAgree, HalfPushed, Pushes, InHand, Committed,
         QueueHoldsUnread

(***************************************************************************)
(* The steps of the writer.                                                *)
(***************************************************************************)
\* What is stored goes to an entry that no unread character is in, or the history
\* starts anew.
LEMMA StoreInductive ==
  ASSUME Inductive, Store
  PROVE  Inductive'
<1>1. /\ TypeOK /\ Head(pushing) \in Chars
      /\ m_put_idx % Size \in 0 .. Size - 1
      /\ m_get_idx \in Nat /\ Len(unread) \in Nat /\ Size \in Nat \ {0}
  BY Indices, PushedChar DEF Store, Inductive, Pushes
<1>2. <<>> \in Seq(Chars) /\ Len(<<>>) = 0
  BY EmptySeq
<1>3. TypeOK'
  <2>1. m_entry' \in [0 .. Size - 1 -> Chars]
    BY <1>1 DEF Store, TypeOK
  <2>2. unread' \in Seq(Chars) /\ overrun' \in BOOLEAN
    BY <1>1, <1>2 DEF Store, TypeOK
  <2> QED
    BY <1>1, <2>1, <2>2 DEF Store, TypeOK, readerVars
<1>4. m_entry'[m_put_idx % Size] = Head(pushing)
  BY <1>1 DEF Store, TypeOK
<1>5. ASSUME ~overrun'
      PROVE  ~overrun /\ Len(unread) < Size /\ unread' = unread
  <2>1. overrun' = (overrun \/ Len(unread) >= Size)
    BY DEF Store
  <2>2. ~overrun /\ ~(Len(unread) >= Size)
    BY <1>5, <2>1
  <2>3. unread' = unread
    BY <1>5 DEF Store
  <2> QED
    BY <1>1, <2>2, <2>3
<1>6. ASSUME ~overrun', NEW i \in 1 .. Len(unread)
      PROVE  m_entry'[(m_get_idx + i - 1) % Size] = unread[i]
  <2>1. m_get_idx + i - 1 \in Int /\ m_get_idx + Len(unread) \in Int
    BY <1>1
  <2>2. (m_get_idx + i - 1) % Size # (m_get_idx + Len(unread)) % Size
    <3> DEFINE a == m_get_idx + i - 1
               b == m_get_idx + Len(unread)
    <3>1. a \in Int /\ b \in Int /\ a < b /\ b < a + Size
      BY <1>1, <1>5, <1>6, <2>1
    <3> HIDE DEF a, b
    <3>2. a % Size # b % Size
      BY <1>1, <3>1, ModApart
    <3> QED
      BY <3>2 DEF a, b
  <2>3. (m_get_idx + i - 1) % Size # m_put_idx % Size
    BY <1>5, <1>6, <2>2, PutEntry
  <2>4. (m_get_idx + i - 1) % Size \in 0 .. Size - 1
    BY <1>1, <2>1, DivMod
  <2>5. m_entry[(m_get_idx + i - 1) % Size] = unread[i]
    BY <1>5, <1>6 DEF Inductive, QueueHoldsUnread
  <2> QED
    BY <1>1, <2>3, <2>4, <2>5 DEF Store, TypeOK
<1>7. IndicesAgree' /\ Pushes' /\ HalfPushed' /\ InHand'
  BY <1>1, <1>4, <1>5
     DEF Store, Inductive, IndicesAgree, Pushes, HalfPushed, InHand, Committed, readerVars
<1>8. QueueHoldsUnread'
  BY <1>5, <1>6 DEF Store, Inductive, QueueHoldsUnread, readerVars
<1> QED
  BY <1>3, <1>7, <1>8 DEF Inductive

\* What was stored becomes the last unread character.
LEMMA AdvanceInductive ==
  ASSUME Inductive, Advance
  PROVE  Inductive'
<1>1. /\ TypeOK /\ Head(pushing) \in Chars
      /\ Tail(pushing) \in Seq(Chars)
      /\ Len(pushing) > 1 => Tail(pushing) = <<"nl">> /\ Head(pushing) # "nl"
      /\ ~(Len(pushing) > 1) => Tail(pushing) = <<>>
      /\ m_put_idx \in 0 .. IdxMod - 1
      /\ m_get_idx \in Nat /\ Len(unread) \in Nat
      /\ IdxMod \in Nat \ {0} /\ Size \in Nat \ {0}
  BY Indices, PushedChar DEF Advance, Inductive, Pushes, TypeOK
<1>2. /\ Append(unread, Head(pushing)) \in Seq(Chars)
      /\ Len(Append(unread, Head(pushing))) = Len(unread) + 1
      /\ \A i \in 1 .. Len(unread) : Append(unread, Head(pushing))[i] = unread[i]
      /\ Append(unread, Head(pushing))[Len(unread) + 1] = Head(pushing)
  BY <1>1, AppendProperties DEF TypeOK
<1>3. m_put_idx' \in 0 .. IdxMod - 1
  BY <1>1, AdvanceIndex DEF Advance
<1>4. TypeOK'
  <2>1. unread' \in Seq(Chars)
    BY <1>2, EmptySeq DEF Advance
  <2> QED
    BY <1>1, <1>3, <2>1 DEF Advance, TypeOK, readerVars
<1>5. Pushes' /\ HalfPushed'
  BY <1>1 DEF Advance, Pushes, HalfPushed
<1>6. CASE ~overrun
  <2>1. /\ unread' = Append(unread, Head(pushing)) /\ overrun' = FALSE
        /\ m_get_idx' = m_get_idx /\ m_entry' = m_entry
        /\ Len(unread) < Size
        /\ m_entry[m_put_idx % Size] = Head(pushing)
    BY <1>6 DEF Advance, Inductive, TypeOK, HalfPushed
  <2>2. m_put_idx' = (m_get_idx + Len(unread')) % IdxMod
    <3>1. m_put_idx = (m_get_idx + Len(unread)) % IdxMod
      BY <1>6 DEF Inductive, IndicesAgree
    <3>2. m_get_idx + Len(unread) \in Int /\ 1 \in Int
      BY <1>1
    <3>3. (((m_get_idx + Len(unread)) % IdxMod) + 1) % IdxMod
             = (m_get_idx + Len(unread) + 1) % IdxMod
      BY <1>1, <3>2, ModAdd
    <3> QED
      BY <1>1, <1>2, <2>1, <3>1, <3>3 DEF Advance
  <2>3. ASSUME NEW i \in 1 .. Len(unread')
        PROVE  m_entry'[(m_get_idx' + i - 1) % Size] = unread'[i]
    <3>1. CASE i = Len(unread) + 1
      <4>1. m_get_idx + i - 1 = m_get_idx + Len(unread)
        BY <1>1, <3>1
      <4> QED
        BY <1>2, <1>6, <2>1, <3>1, <4>1, PutEntry
    <3>2. CASE i # Len(unread) + 1
      <4>1. i \in 1 .. Len(unread)
        BY <1>1, <1>2, <2>1, <3>2
      <4> QED
        BY <1>2, <1>6, <2>1, <4>1 DEF Inductive, QueueHoldsUnread
    <3> QED
      BY <3>1, <3>2
  <2>4. IndicesAgree'
    BY <1>1, <1>2, <2>1, <2>2 DEF IndicesAgree
  <2>5. InHand'
    BY <1>1, <1>2, <2>1, EmptySeq DEF InHand
  <2>6. reader' = "next" => elem' = unread'[1]
    <3> SUFFICES ASSUME reader = "next" PROVE elem = unread'[1]
      BY DEF Advance, readerVars
    <3>1. Len(unread) # 0 /\ elem = unread[1]
      BY <1>1, <1>6, EmptySeq
         DEF Inductive, InHand, Committed, QueueHoldsUnread, TypeOK
    <3> QED
      BY <1>1, <1>2, <2>1, <3>1
  <2> QED
    BY <1>4, <1>5, <2>3, <2>4, <2>5, <2>6 DEF Inductive, QueueHoldsUnread
<1>7. CASE overrun
  BY <1>4, <1>5, <1>7 DEF Advance, Inductive, IndicesAgree, InHand, QueueHoldsUnread
<1> QED
  BY <1>6, <1>7

(***************************************************************************)
(* The steps of the reader.                                                *)
(***************************************************************************)
\* The first unread character leaves.
LEMMA PopInductive ==
  ASSUME Inductive, Pop
  PROVE  Inductive'
<1>1. /\ TypeOK
      /\ m_get_idx \in 0 .. IdxMod - 1 /\ m_get_idx \in Nat
      /\ IdxMod \in Nat \ {0} /\ Size \in Nat \ {0} /\ LineMax \in Nat \ {0}
      /\ Len(unread) \in Nat
  BY Indices DEF Inductive, TypeOK
<1>2. m_get_idx' \in 0 .. IdxMod - 1
  <2>1. 0 \in Nat /\ m_get_idx' = (m_get_idx + 1) % IdxMod
    BY DEF Pop
  <2> QED
    BY <1>1, <2>1, AdvanceIndex
<1>3. unread # <<>> => /\ Tail(unread) \in Seq(Chars)
                       /\ Len(Tail(unread)) = Len(unread) - 1
                       /\ \A i \in 1 .. Len(unread) - 1 : Tail(unread)[i] = unread[i + 1]
  BY <1>1, HeadTailProperties DEF TypeOK
<1>4. TypeOK'
  <2>1. unread' \in Seq(Chars)
    BY <1>3, EmptySeq DEF Pop
  <2>2. bufsize' \in 0 .. LineMax - 1 /\ sent' \in BOOLEAN
    BY <1>1 DEF Pop, TypeOK
  <2> QED
    BY <1>1, <1>2, <2>1, <2>2 DEF Pop, TypeOK
<1>5. UNCHANGED <<writer, pushing, m_put_idx, m_entry, overrun>>
  BY DEF Pop
<1>6. CASE ~overrun
  <2>1. m_put_idx = (m_get_idx + Len(unread)) % IdxMod /\ Len(unread) <= Size
    BY <1>6 DEF Inductive, IndicesAgree
  <2>2. unread # <<>>
    BY <1>6 DEF Pop, Inductive, InHand, Committed
  <2>3. Len(unread) # 0
    BY <1>1, <2>2, EmptySeq DEF TypeOK
  <2>4. /\ unread' = Tail(unread) /\ Len(unread') = Len(unread) - 1
        /\ Len(unread) - 1 \in Nat
    BY <1>1, <1>3, <2>3, <2>2 DEF Pop
  <2>5. IndicesAgree'
    <3>1. (((m_get_idx + 1) % IdxMod) + (Len(unread) - 1)) % IdxMod
             = (m_get_idx + 1 + (Len(unread) - 1)) % IdxMod
      BY <1>1, <2>4, AdvanceIndex
    <3>2. m_get_idx + 1 + (Len(unread) - 1) = m_get_idx + Len(unread)
      BY <1>1
    <3>3. m_get_idx' = (m_get_idx + 1) % IdxMod /\ m_put_idx' = m_put_idx
      BY DEF Pop
    <3>4. m_put_idx' = (m_get_idx' + Len(unread')) % IdxMod
      BY <2>1, <2>4, <3>1, <3>2, <3>3
    <3>5. Len(unread') <= Size
      BY <1>1, <2>1, <2>4
    <3> QED
      BY <3>4, <3>5 DEF IndicesAgree
  <2>6. ASSUME NEW i \in 1 .. Len(unread')
        PROVE  m_entry'[(m_get_idx' + i - 1) % Size] = unread'[i]
    <3>1. i - 1 \in Nat /\ i + 1 \in 1 .. Len(unread) /\ i \in 1 .. Len(unread) - 1
      BY <1>1, <2>4
    <3>2. (((m_get_idx + 1) % IdxMod) + (i - 1)) % Size = (m_get_idx + 1 + (i - 1)) % Size
      BY <1>1, <3>1, AdvanceIndex
    <3>3. /\ m_get_idx + 1 + (i - 1) = m_get_idx + (i + 1) - 1
          /\ m_get_idx' + i - 1 = ((m_get_idx + 1) % IdxMod) + (i - 1)
      BY <1>1, <1>2, <3>1 DEF Pop
    <3>4. m_entry[(m_get_idx + (i + 1) - 1) % Size] = unread[i + 1]
      BY <1>6, <3>1 DEF Inductive, QueueHoldsUnread
    <3> QED
      BY <1>3, <1>5, <2>2, <2>4, <3>1, <3>2, <3>3, <3>4
  <2>7. HalfPushed' /\ Pushes' /\ InHand' /\ reader' # "next"
    BY <1>1, <1>5, <2>4 DEF Pop, Inductive, HalfPushed, Pushes, InHand, Committed
  <2> QED
    BY <1>4, <2>5, <2>6, <2>7 DEF Inductive, QueueHoldsUnread
<1>7. CASE overrun
  BY <1>4, <1>5, <1>7
     DEF Inductive, IndicesAgree, HalfPushed, Pushes, InHand, QueueHoldsUnread
<1> QED
  BY <1>6, <1>7

\* The reader goes on when the buffer holds something: then, unless the writer has run
\* over it, it holds what is unread.
LEMMA TestInductive ==
  ASSUME Inductive, Test
  PROVE  Inductive'
<1>1. UNCHANGED <<queueVars, historyVars, writer, pushing, elem>> /\ reader' = "fetch"
  BY DEF Test, queueVars, historyVars
<1>2. TypeOK'
  BY <1>1 DEF Test, Inductive, TypeOK, queueVars, historyVars
<1>3. ASSUME ~overrun PROVE unread # <<>>
  <2>1. m_put_idx # m_get_idx /\ m_get_idx \in Nat /\ m_get_idx < IdxMod
    BY Indices, EmptyMeansEqual DEF Test, Inductive
  <2>2. m_put_idx = (m_get_idx + Len(unread)) % IdxMod
    BY <1>3 DEF Inductive, IndicesAgree
  <2>3. m_get_idx % IdxMod = m_get_idx
    BY <2>1, QueueAssumption, ModSmall
  <2>4. Len(unread) # 0
    BY <2>1, <2>2, <2>3
  <2> QED
    BY <2>4, EmptySeq
<1> QED
  BY <1>1, <1>2, <1>3
     DEF Inductive, IndicesAgree, HalfPushed, Pushes, InHand, QueueHoldsUnread,
         queueVars, historyVars

\* What the reader fetches is the first unread character.
LEMMA FetchInductive ==
  ASSUME Inductive, Fetch
  PROVE  Inductive'
<1>1. /\ UNCHANGED <<queueVars, historyVars, writer, pushing>>
      /\ reader = "fetch" /\ reader' = "next"
      /\ elem' = m_entry[m_get_idx % Size]
  BY DEF Fetch, queueVars, historyVars
<1>2. /\ m_get_idx % Size \in 0 .. Size - 1 /\ m_get_idx \in Nat /\ Len(unread) \in Nat
      /\ TypeOK
  BY Indices DEF Inductive
<1>3. TypeOK'
  BY <1>1, <1>2 DEF Fetch, TypeOK, queueVars, historyVars
<1>4. ASSUME ~overrun PROVE unread # <<>> /\ elem' = unread[1]
  <2>1. unread # <<>>
    BY <1>1, <1>4 DEF Inductive, InHand, Committed
  <2>2. 1 \in 1 .. Len(unread) /\ m_get_idx + 1 - 1 = m_get_idx
    BY <1>2, <2>1, EmptySeq DEF TypeOK
  <2>3. m_entry[(m_get_idx + 1 - 1) % Size] = unread[1]
    BY <1>4, <2>2 DEF Inductive, QueueHoldsUnread
  <2> QED
    BY <1>1, <2>1, <2>2, <2>3
<1> QED
  BY <1>1, <1>3, <1>4
     DEF Inductive, IndicesAgree, HalfPushed, Pushes, InHand, QueueHoldsUnread,
         queueVars, historyVars

\* When the indices meet, reader and writer agree whatever was before.
LEMMA EmptiedInductive ==
  ASSUME Inductive, Emptied
  PROVE  Inductive'
<1>1. /\ TypeOK /\ m_put_idx = m_get_idx
      /\ m_get_idx \in Nat /\ m_get_idx < IdxMod
      /\ IdxMod \in Nat \ {0} /\ Size \in Nat \ {0}
  BY Indices, EmptyMeansEqual DEF Emptied, Inductive
<1>2. unread' = <<>> /\ Len(unread') = 0 /\ unread' \in Seq(Chars)
  BY EmptySeq DEF Emptied
<1>3. TypeOK'
  BY <1>1, <1>2 DEF Emptied, TypeOK, queueVars
<1>4. m_get_idx % IdxMod = m_get_idx
  BY <1>1, ModSmall
<1>5. IndicesAgree'
  BY <1>1, <1>2, <1>4 DEF Emptied, IndicesAgree, queueVars
<1>6. HalfPushed' /\ Pushes' /\ InHand' /\ reader' # "next"
  BY <1>1, <1>2 DEF Emptied, Inductive, HalfPushed, Pushes, InHand, Committed, queueVars
<1> QED
  BY <1>2, <1>3, <1>5, <1>6 DEF Inductive, QueueHoldsUnread

\* The rest moves no character.
LEMMA OthersInductive ==
  ASSUME Inductive, Putc \/ Give \/ TakeSem \/ UNCHANGED vars
  PROVE  Inductive'
<1>1. UNCHANGED <<queueVars, historyVars>>
  BY DEF Putc, Give, TakeSem, vars, queueVars, historyVars
<1>2. CASE Putc
  <2>1. pushing' \in {<<"x">>, <<"cr", "nl">>} /\ <<"x">> \in Seq(Chars) /\ <<"cr", "nl">> \in Seq(Chars)
    BY <1>2 DEF Putc
  <2>2. TypeOK'
    BY <1>1, <1>2, <2>1 DEF Putc, Inductive, TypeOK, queueVars, readerVars, historyVars
  <2> QED
    BY <1>1, <1>2, <2>1, <2>2
       DEF Putc, Inductive, IndicesAgree, HalfPushed, Pushes, InHand, Committed,
           QueueHoldsUnread, queueVars, readerVars, historyVars
<1>3. CASE Give \/ TakeSem \/ UNCHANGED vars
  <2>1. TypeOK'
    BY <1>1, <1>3 DEF Give, TakeSem, vars, Inductive, TypeOK, queueVars, readerVars, historyVars
  <2> QED
    BY <1>1, <1>3, <2>1
       DEF Give, TakeSem, vars, Inductive, IndicesAgree, HalfPushed, Pushes, InHand,
           Committed, QueueHoldsUnread, queueVars, readerVars, historyVars
<1> QED
  BY <1>2, <1>3

\* Every step preserves the invariant.
LEMMA NextInductive == Inductive /\ [Next]_vars => Inductive'
  BY StoreInductive, AdvanceInductive, TestInductive, FetchInductive, PopInductive,
     EmptiedInductive, OthersInductive
     DEF Next, Reader

(***************************************************************************)
(* The theorems.                                                           *)
(***************************************************************************)
\* The invariant of the queue holds in every state.
THEOREM QueueInvariant == Spec => []Inductive
  BY InitInductive, NextInductive, PTL DEF Spec

\* The state of the queue has its type; in particular http_debug_putc stays inside
\* its line buffer.
THEOREM QueueTypeCorrect == Spec => []TypeOK
<1>1. Inductive => TypeOK
  BY DEF Inductive
<1> QED
  BY <1>1, QueueInvariant, PTL

\* CBUF_Push and CBUF_Pop keep the characters and their order without a lock, across
\* every wrap of the indices, as long as the writer does not run over the reader.
THEOREM QueueOrderKept == Spec => []QueueHoldsUnread
<1>1. Inductive => QueueHoldsUnread
  BY DEF Inductive
<1> QED
  BY <1>1, QueueInvariant, PTL

(***************************************************************************)
(* No wakeup is lost.                                                      *)
(***************************************************************************)
\* The end of a line enters the queue only from Advance, which leads to Give.
LEMMA WakeupStep ==
  ASSUME Inductive, NoLostWakeup, [Next]_vars
  PROVE  NoLostWakeup'
<1>1. CASE Store
  <2>1. ~(\E i \in 1 .. Len(<<>>) : <<>>[i] = "nl")
    BY EmptySeq
  <2>2. HasLine' => HasLine
    BY <1>1, <2>1 DEF Store, HasLine
  <2> QED
    BY <1>1, <2>2 DEF Store, NoLostWakeup, readerVars
<1>2. CASE Advance
  <2>1. /\ Head(pushing) \in Chars /\ unread \in Seq(Chars) /\ Len(unread) \in Nat
        /\ sem' = sem /\ reader' = reader
    BY <1>2, PushedChar, Indices DEF Advance, Inductive, Pushes, TypeOK, readerVars
  <2>2. CASE Head(pushing) = "nl"
    BY <1>2, <2>2 DEF Advance, NoLostWakeup
  <2>3. CASE Head(pushing) # "nl"
    <3>1. HasLine' => HasLine
      <4>1. CASE overrun
        BY <1>2, <4>1, EmptySeq DEF Advance, HasLine
      <4>2. CASE ~overrun
        <5>1. /\ unread' = Append(unread, Head(pushing))
              /\ Len(unread') = Len(unread) + 1
              /\ \A i \in 1 .. Len(unread) : unread'[i] = unread[i]
              /\ unread'[Len(unread) + 1] # "nl"
          BY <1>2, <2>1, <2>3, <4>2, AppendProperties DEF Advance
        <5> QED
          BY <2>1, <5>1 DEF HasLine
      <4> QED
        BY <4>1, <4>2
    <3>2. writer # "give"
      BY <1>2 DEF Advance
    <3> QED
      BY <2>1, <3>1, <3>2 DEF NoLostWakeup
  <2> QED
    BY <2>2, <2>3
<1>3. CASE Pop
  BY <1>3 DEF Pop, NoLostWakeup
<1>4. CASE Emptied
  BY <1>4, EmptySeq DEF Emptied, NoLostWakeup, HasLine
<1>5. CASE Putc \/ Give \/ TakeSem \/ Test \/ Fetch \/ UNCHANGED vars
  BY <1>5
     DEF Putc, Give, TakeSem, Test, Fetch, vars, NoLostWakeup, HasLine, readerVars,
         historyVars
<1> QED
  BY <1>1, <1>2, <1>3, <1>4, <1>5 DEF Next, Reader

\* While the end of a line is in the queue the reader is awake, or the semaphore is
\* given or about to be: dbg_task does not sleep on a line that was logged.
THEOREM QueueNoLostWakeup == Spec => []NoLostWakeup
<1>1. Init => NoLostWakeup
  BY EmptySeq DEF Init, NoLostWakeup, HasLine
<1>2. Inductive /\ NoLostWakeup /\ [Next]_vars => NoLostWakeup'
  BY WakeupStep
<1> QED
  BY <1>1, <1>2, QueueInvariant, PTL DEF Spec

(***************************************************************************)
(* The circular buffer implements LogQueue.                                *)
(***************************************************************************)
\* The number of entries in the queue, without the wrap of the indices.
LEMMA LenOfIndices ==
  ASSUME NEW p \in 0 .. IdxMod - 1, NEW g \in 0 .. IdxMod - 1
  PROVE  /\ (IdxMod + p - g) % IdxMod = IF p >= g THEN p - g ELSE IdxMod + p - g
         /\ (IdxMod + p - g) % IdxMod \in Nat
<1>1. IdxMod \in Nat \ {0} /\ p \in Nat /\ g \in Nat /\ p < IdxMod /\ g < IdxMod
  BY QueueAssumption
<1>2. CASE p >= g
  <2>1. p - g \in 0 .. IdxMod - 1 /\ p - g \in Int /\ IdxMod + p - g = (p - g) + IdxMod
    BY <1>1, <1>2
  <2>2. ((p - g) + IdxMod) % IdxMod = (p - g) % IdxMod /\ (p - g) % IdxMod = p - g
    BY <1>1, <2>1, ModAdd, ModSmall
  <2> QED
    BY <1>1, <1>2, <2>1, <2>2
<1>3. CASE ~(p >= g)
  <2>1. IdxMod + p - g \in 0 .. IdxMod - 1
    BY <1>1, <1>3
  <2>2. (IdxMod + p - g) % IdxMod = IdxMod + p - g
    BY <1>1, <2>1, ModSmall
  <2> QED
    BY <1>1, <1>3, <2>1, <2>2
<1> QED
  BY <1>2, <1>3

\* An index that is advanced.
LEMMA NextIndex ==
  ASSUME NEW k \in 0 .. IdxMod - 1
  PROVE  /\ (k + 1) % IdxMod = IF k + 1 = IdxMod THEN 0 ELSE k + 1
         /\ (k + 1) % IdxMod \in 0 .. IdxMod - 1
<1>1. IdxMod \in Nat \ {0} /\ k \in Nat /\ k < IdxMod /\ 0 \in Nat
  BY QueueAssumption
<1>2. CASE k + 1 = IdxMod
  <2>1. (0 + IdxMod) % IdxMod = 0 % IdxMod /\ 0 % IdxMod = 0 /\ 0 + IdxMod = k + 1
    BY <1>1, <1>2, EntryOfIndex, ModSmall
  <2> QED
    BY <1>1, <1>2, <2>1
<1>3. CASE k + 1 # IdxMod
  <2>1. k + 1 \in 0 .. IdxMod - 1
    BY <1>1, <1>3
  <2> QED
    BY <1>1, <1>3, <2>1, ModSmall
<1> QED
  BY <1>2, <1>3

\* What is between two indices, for any entries.
Between(e, g, n) == [i \in 1 .. n |-> e[(g + i - 1) % Size]]

LEMMA BetweenIsSeq ==
  ASSUME NEW e \in [0 .. Size - 1 -> Chars], NEW g \in Nat, NEW n \in Nat
  PROVE  Between(e, g, n) \in Seq(Chars) /\ Len(Between(e, g, n)) = n
<1>1. ASSUME NEW i \in 1 .. n PROVE e[(g + i - 1) % Size] \in Chars
  <2>1. g + i - 1 \in Int /\ Size \in Nat \ {0}
    BY QueueAssumption
  <2>2. (g + i - 1) % Size \in 0 .. Size - 1
    BY <2>1, DivMod
  <2> QED
    BY <2>2
<1>2. Between(e, g, n) \in [1 .. n -> Chars]
  BY <1>1 DEF Between
<1> QED
  BY <1>2, SeqDef, LenProperties

\* The queue, its length and its entries; the put index leads to the entry after it.
LEMMA ContentsFacts ==
  ASSUME TypeOK
  PROVE  /\ Count \in Nat
         /\ Count = IF Committed /\ m_put_idx = m_get_idx THEN IdxMod
                    ELSE IF m_put_idx >= m_get_idx THEN m_put_idx - m_get_idx
                    ELSE IdxMod + m_put_idx - m_get_idx
         /\ (m_get_idx + Count) % Size = m_put_idx % Size
         /\ Contents \in Seq(Chars) /\ Len(Contents) = Count
         /\ Contents = Between(m_entry, m_get_idx, Count)
<1>1. /\ m_put_idx \in 0 .. IdxMod - 1 /\ m_get_idx \in 0 .. IdxMod - 1
      /\ m_put_idx \in Nat /\ m_get_idx \in Nat /\ IdxMod \in Nat \ {0}
      /\ m_entry \in [0 .. Size - 1 -> Chars]
  BY Indices DEF TypeOK
<1>2. CBUF_Len = IF m_put_idx >= m_get_idx THEN m_put_idx - m_get_idx
                 ELSE IdxMod + m_put_idx - m_get_idx
  BY <1>1, LenOfIndices DEF CBUF_Len
<1>3. Count = IF Committed /\ m_put_idx = m_get_idx THEN IdxMod
              ELSE IF m_put_idx >= m_get_idx THEN m_put_idx - m_get_idx
              ELSE IdxMod + m_put_idx - m_get_idx
  BY <1>2, EmptyMeansEqual DEF Count
<1>4. m_get_idx + Count \in {m_put_idx, m_put_idx + IdxMod} /\ Count \in Nat
  BY <1>1, <1>3
<1>5. (m_get_idx + Count) % Size = m_put_idx % Size
  BY <1>1, <1>4, EntryOfIndex
<1>6. Contents = Between(m_entry, m_get_idx, Count)
  BY DEF Contents, Between
<1> QED
  BY <1>1, <1>3, <1>4, <1>5, <1>6, BetweenIsSeq

\* The queue after a step.
LEMMA ContentsNext ==
  ASSUME TypeOK'
  PROVE  /\ Count' \in Nat
         /\ Count' = IF Committed' /\ m_put_idx' = m_get_idx' THEN IdxMod
                     ELSE IF m_put_idx' >= m_get_idx' THEN m_put_idx' - m_get_idx'
                     ELSE IdxMod + m_put_idx' - m_get_idx'
         /\ Contents' = Between(m_entry', m_get_idx', Count')
         /\ Contents' \in Seq(Chars) /\ Len(Contents') = Count'
<1>1. /\ m_put_idx' \in 0 .. IdxMod - 1 /\ m_get_idx' \in 0 .. IdxMod - 1
      /\ m_get_idx' \in Nat /\ m_put_idx' \in Nat /\ IdxMod \in Nat \ {0}
      /\ m_get_idx' < IdxMod /\ m_put_idx' < IdxMod
      /\ m_entry' \in [0 .. Size - 1 -> Chars]
  BY QueueAssumption DEF TypeOK
<1>2. CBUF_Len' = IF m_put_idx' >= m_get_idx' THEN m_put_idx' - m_get_idx'
                  ELSE IdxMod + m_put_idx' - m_get_idx'
  BY <1>1, LenOfIndices DEF CBUF_Len
<1>3. CBUF_Len' \in Nat /\ (CBUF_Len' = 0 <=> m_put_idx' = m_get_idx')
  <2> DEFINE n == CBUF_Len'
             p == m_put_idx'
             g == m_get_idx'
  <2>1. /\ n = IF p >= g THEN p - g ELSE IdxMod + p - g
        /\ p \in Nat /\ g \in Nat /\ IdxMod \in Nat /\ g < IdxMod
    BY <1>1, <1>2
  <2> HIDE DEF n, p, g
  <2>2. n \in Nat /\ (n = 0 <=> p = g)
    BY <2>1
  <2> QED
    BY <2>2 DEF n, p, g
<1>4. Count' = IF Committed' /\ m_put_idx' = m_get_idx' THEN IdxMod
               ELSE IF m_put_idx' >= m_get_idx' THEN m_put_idx' - m_get_idx'
               ELSE IdxMod + m_put_idx' - m_get_idx'
  BY <1>2, <1>3 DEF Count, CBUF_IsEmpty
<1>5. Count' \in Nat
  BY <1>1, <1>3 DEF Count
<1>6. Contents' = Between(m_entry', m_get_idx', Count')
  BY DEF Contents, Between
<1> QED
  BY <1>1, <1>4, <1>5, <1>6, BetweenIsSeq

\* A step that moves neither index and no entry leaves the queue as it is, if the
\* reader is on the same side of its test.
LEMMA ContentsKept ==
  ASSUME UNCHANGED queueVars, Committed' <=> Committed
  PROVE  Contents' = Contents
<1>1. CBUF_Len' = CBUF_Len /\ m_entry' = m_entry /\ m_get_idx' = m_get_idx
  BY DEF queueVars, CBUF_Len
<1>2. Count' = Count
  BY <1>1 DEF Count, CBUF_IsEmpty
<1> QED
  BY <1>1, <1>2 DEF Contents

\* A store with room changes no entry of the queue; without room it replaces those
\* that share the entry of the put index.
LEMMA StoreRefines ==
  ASSUME Inductive, Store
  PROVE  Q!Overwrite \/ UNCHANGED Q!logVars
<1> DEFINE c == Head(pushing)
<1>1. /\ TypeOK /\ m_get_idx \in Nat /\ Size \in Nat \ {0}
      /\ m_put_idx % Size \in 0 .. Size - 1
      /\ m_entry \in [0 .. Size - 1 -> Chars]
  BY Indices DEF Inductive, TypeOK
<1>2. /\ Count \in Nat /\ Contents \in Seq(Chars) /\ Len(Contents) = Count
      /\ (m_get_idx + Count) % Size = m_put_idx % Size
  BY <1>1, ContentsFacts
<1>3. /\ m_entry' = [m_entry EXCEPT ![m_put_idx % Size] = c]
      /\ m_put_idx' = m_put_idx /\ m_get_idx' = m_get_idx
      /\ pushing' = pushing /\ pushing # <<>>
      /\ reader' = reader /\ elem' = elem /\ sent' = sent
  BY PushedChar DEF Store, readerVars, Inductive, Pushes
<1>4. Count' = Count /\ Taking' = Taking
  BY <1>3 DEF Count, CBUF_IsEmpty, CBUF_Len, Committed, Taking
<1>5. ASSUME NEW i \in 1 .. Count
      PROVE  /\ m_entry'[(m_get_idx + i - 1) % Size]
                   = IF i % Size = (Count + 1) % Size THEN c ELSE Contents[i]
             /\ Count < Size => i % Size # (Count + 1) % Size
  <2>1. /\ i \in Int /\ m_get_idx - 1 \in Int /\ Count + 1 \in Int
        /\ (m_get_idx - 1) + i = m_get_idx + i - 1
        /\ (m_get_idx - 1) + (Count + 1) = m_get_idx + Count
        /\ m_get_idx + i - 1 \in Int
    BY <1>1, <1>2
  <2>2. (m_get_idx + i - 1) % Size = m_put_idx % Size <=> i % Size = (Count + 1) % Size
    <3> DEFINE a == m_get_idx - 1
               y == Count + 1
    <3>1. a \in Int /\ y \in Int /\ i \in Int /\ Size \in Nat \ {0}
      BY <1>1, <2>1
    <3> HIDE DEF a, y
    <3>2. (a + i) % Size = (a + y) % Size <=> i % Size = y % Size
      BY <3>1, ModCancel, Zenon
    <3> QED
      BY <1>2, <2>1, <3>2 DEF a, y
  <2>3. (m_get_idx + i - 1) % Size \in 0 .. Size - 1
    BY <1>1, <2>1, DivMod
  <2>4. Contents[i] = m_entry[(m_get_idx + i - 1) % Size]
    BY DEF Contents
  <2>5. Count < Size => i % Size # (Count + 1) % Size
    <3> SUFFICES ASSUME Count < Size PROVE i % Size # (Count + 1) % Size
      OBVIOUS
    <3>1. i < Count + 1 /\ Count + 1 < i + Size
      BY <1>1, <1>2
    <3> QED
      BY <1>1, <2>1, <3>1, ModApart
  <2> QED
    BY <1>1, <1>3, <2>2, <2>3, <2>4, <2>5
<1>6. Contents' = [i \in 1 .. Count |-> m_entry'[(m_get_idx + i - 1) % Size]]
  BY <1>3, <1>4 DEF Contents
<1>7. CASE Count < Size
  <2>1. \A i \in 1 .. Count : m_entry'[(m_get_idx + i - 1) % Size] = Contents[i]
    BY <1>5, <1>7
  <2>2. Contents' = [i \in 1 .. Count |-> Contents[i]]
    BY <1>6, <2>1
  <2>3. Contents' = Contents
    BY <2>2 DEF Contents
  <2> QED
    BY <1>3, <1>4, <2>3 DEF Q!logVars
<1>8. CASE ~(Count < Size)
  <2>1. Contents' = [i \in 1 .. Len(Contents) |->
                        IF i % Size = (Len(Contents) + 1) % Size THEN c ELSE Contents[i]]
    BY <1>2, <1>5, <1>6
  <2>2. Len(Contents) >= Size
    BY <1>1, <1>2, <1>8
  <2> QED
    BY <1>3, <1>4, <2>1, <2>2 DEF Q!Overwrite, Q!readerVars
<1> QED
  BY <1>7, <1>8

\* What was stored joins the queue when the put index is advanced.
LEMMA AdvanceRefines ==
  ASSUME Inductive, Advance, TypeOK'
  PROVE  Q!Push
<1> DEFINE c == Head(pushing)
<1>1. /\ TypeOK /\ m_get_idx \in Nat /\ m_get_idx < IdxMod
      /\ m_put_idx \in Nat /\ m_put_idx < IdxMod /\ m_put_idx \in 0 .. IdxMod - 1
      /\ IdxMod \in Nat \ {0} /\ Size \in Nat \ {0}
      /\ m_entry \in [0 .. Size - 1 -> Chars]
      /\ c \in Chars /\ pushing # <<>> /\ m_entry[m_put_idx % Size] = c
  BY Indices, PushedChar DEF Inductive, TypeOK, Advance, Pushes, HalfPushed
<1>2. /\ Count \in Nat
      /\ Count = IF Committed /\ m_put_idx = m_get_idx THEN IdxMod
                 ELSE IF m_put_idx >= m_get_idx THEN m_put_idx - m_get_idx
                 ELSE IdxMod + m_put_idx - m_get_idx
      /\ Contents \in Seq(Chars) /\ Len(Contents) = Count
      /\ (m_get_idx + Count) % Size = m_put_idx % Size
  BY <1>1, ContentsFacts
<1>3. /\ m_put_idx' = (m_put_idx + 1) % IdxMod
      /\ m_get_idx' = m_get_idx /\ m_entry' = m_entry
      /\ pushing' = Tail(pushing)
      /\ reader' = reader /\ elem' = elem /\ sent' = sent
      /\ Committed' = Committed /\ Taking' = Taking
  BY DEF Advance, readerVars, Committed, Taking
<1>4. m_put_idx' = IF m_put_idx + 1 = IdxMod THEN 0 ELSE m_put_idx + 1
  BY <1>1, <1>3, NextIndex
<1>5. /\ Count' = IF Committed /\ m_put_idx' = m_get_idx THEN IdxMod
                  ELSE IF m_put_idx' >= m_get_idx THEN m_put_idx' - m_get_idx
                  ELSE IdxMod + m_put_idx' - m_get_idx
      /\ Contents' = Between(m_entry, m_get_idx, Count')
      /\ Contents' \in Seq(Chars) /\ Len(Contents') = Count'
  BY <1>3, ContentsNext
<1> DEFINE limit == IF Committed THEN IdxMod + 1 ELSE IdxMod
<1>6. /\ limit = Q!TooLong /\ limit - IdxMod \in {0, 1}
      /\ Count + 1 = limit \/ Count + 1 < limit
      /\ Count' = IF Count + 1 = limit THEN limit - IdxMod ELSE Count + 1
  <2>1. limit = Q!TooLong
    <3>1. Taking = "no" <=> ~Committed
      BY <1>1 DEF Taking, Committed, TypeOK
    <3> QED
      BY <3>1 DEF Q!TooLong
  <2>2. CASE Committed
    <3> DEFINE n == Count'
               p == m_put_idx'
    <3>1. /\ n = IF p = m_get_idx THEN IdxMod
                 ELSE IF p >= m_get_idx THEN p - m_get_idx ELSE IdxMod + p - m_get_idx
          /\ p = IF m_put_idx + 1 = IdxMod THEN 0 ELSE m_put_idx + 1
          /\ Count = IF m_put_idx = m_get_idx THEN IdxMod
                     ELSE IF m_put_idx >= m_get_idx THEN m_put_idx - m_get_idx
                     ELSE IdxMod + m_put_idx - m_get_idx
          /\ limit = IdxMod + 1
      BY <1>2, <1>4, <1>5, <2>2
    <3> HIDE DEF n, p, limit
    <3>2. /\ limit - IdxMod = 1
          /\ Count + 1 = limit \/ Count + 1 < limit
          /\ n = IF Count + 1 = limit THEN limit - IdxMod ELSE Count + 1
      BY <1>1, <3>1
    <3> QED
      BY <2>1, <3>2 DEF n
  <2>3. CASE ~Committed
    <3> DEFINE n == Count'
               p == m_put_idx'
    <3>1. /\ n = IF p >= m_get_idx THEN p - m_get_idx ELSE IdxMod + p - m_get_idx
          /\ p = IF m_put_idx + 1 = IdxMod THEN 0 ELSE m_put_idx + 1
          /\ Count = IF m_put_idx >= m_get_idx THEN m_put_idx - m_get_idx
                     ELSE IdxMod + m_put_idx - m_get_idx
          /\ limit = IdxMod
      BY <1>2, <1>4, <1>5, <2>3
    <3> HIDE DEF n, p, limit
    <3>2. /\ limit - IdxMod = 0
          /\ Count + 1 = limit \/ Count + 1 < limit
          /\ n = IF Count + 1 = limit THEN limit - IdxMod ELSE Count + 1
      BY <1>1, <3>1
    <3> QED
      BY <2>1, <3>2 DEF n
  <2> QED
    BY <2>2, <2>3
<1>7. CASE Count + 1 = limit
  <2> DEFINE n == limit - IdxMod
             t == SubSeq(Contents, 1, n)
             u == Contents'
  <2>1. n \in {0, 1} /\ n \in Int /\ n <= Count
    BY <1>1, <1>2, <1>6, <1>7
  <2>2. \A i \in 1 .. n : Contents[i] \in Chars
    <3>1. \A i \in 1 .. Len(Contents) : Contents[i] \in Chars
      BY <1>2
    <3> HIDE DEF n
    <3> QED
      BY <1>2, <2>1, <3>1
  <2>3. u \in Seq(Chars) /\ Len(u) = n
    BY <1>5, <1>6, <1>7
  <2> HIDE DEF n
  <2>4. /\ t \in Seq(Chars) /\ Len(t) = n
        /\ \A i \in 1 .. n : t[i] = Contents[i]
    <3>1. 1 \in Int
      OBVIOUS
    <3>2. /\ t \in Seq(Chars) /\ Len(t) = IF 1 <= n THEN n - 1 + 1 ELSE 0
          /\ \A i \in 1 .. n - 1 + 1 : t[i] = Contents[1 + i - 1]
      BY <2>1, <2>2, <3>1, SubSeqProperties
    <3> HIDE DEF t
    <3> QED
      BY <2>1, <3>2
  <2>5. ASSUME NEW i \in 1 .. Len(u) PROVE u[i] = t[i]
    <3>1. i \in 1 .. n /\ i \in 1 .. Count
      BY <1>2, <2>1, <2>3
    <3>2. i \in 1 .. Count'
      BY <1>5, <2>3
    <3>3. u[i] = m_entry[(m_get_idx + i - 1) % Size]
      BY <1>5, <3>2 DEF Between
    <3>4. Contents[i] = m_entry[(m_get_idx + i - 1) % Size]
      BY <3>1 DEF Contents
    <3> QED
      BY <2>4, <3>1, <3>3, <3>4
  <2> HIDE DEF t, u
  <2>6. u = t
    BY <2>3, <2>4, <2>5, SeqEqual
  <2>7. Contents' = SubSeq(Contents, 1, limit - IdxMod)
    BY <2>6 DEF n, t, u
  <2> HIDE DEF limit
  <2>8. Len(Contents) + 1 = Q!TooLong /\ Contents' = SubSeq(Contents, 1, Q!TooLong - IdxMod)
    BY <1>2, <1>6, <1>7, <2>7
  <2> QED
    BY <1>1, <1>3, <2>8 DEF Q!Push, Q!readerVars
<1>8. CASE Count + 1 # limit
  <2> DEFINE t == Append(Contents, c)
             u == Contents'
  <2>1. /\ t \in Seq(Chars) /\ Len(t) = Count + 1
        /\ \A i \in 1 .. Count : t[i] = Contents[i]
        /\ t[Count + 1] = c
    BY <1>1, <1>2, AppendProperties
  <2>2. u \in Seq(Chars) /\ Len(u) = Count + 1
    BY <1>5, <1>6, <1>8
  <2>3. u = Between(m_entry, m_get_idx, Count + 1)
    BY <1>5, <1>6, <1>8
  <2>4. ASSUME NEW i \in 1 .. Len(u) PROVE u[i] = t[i]
    <3>1. u[i] = m_entry[(m_get_idx + i - 1) % Size]
      BY <2>2, <2>3 DEF Between
    <3>2. CASE i = Count + 1
      <4>1. m_get_idx + i - 1 = m_get_idx + Count
        BY <1>1, <1>2, <3>2
      <4> QED
        BY <1>1, <1>2, <2>1, <3>1, <3>2, <4>1
    <3>3. CASE i # Count + 1
      <4>1. i \in 1 .. Count
        BY <1>2, <2>2, <3>3
      <4>2. Contents[i] = m_entry[(m_get_idx + i - 1) % Size]
        BY <4>1 DEF Contents
      <4> QED
        BY <2>1, <3>1, <4>1, <4>2
    <3> QED
      BY <3>2, <3>3
  <2>5. Len(u) = Len(t)
    BY <2>1, <2>2
  <2> HIDE DEF t, u
  <2>6. u = t
    BY <2>1, <2>2, <2>4, <2>5, SeqEqual
  <2>7. Contents' = Append(Contents, Head(pushing))
    BY <2>6 DEF t, u
  <2> QED
    BY <1>1, <1>2, <1>3, <1>6, <1>8, <2>7 DEF Q!Push, Q!readerVars
<1> QED
  BY <1>7, <1>8

\* A reader past its test takes the entry of the get index for the head of the queue.
LEMMA ContentsHead ==
  ASSUME TypeOK, Committed
  PROVE  Contents # <<>> /\ Head(Contents) = m_entry[m_get_idx % Size]
<1>1. /\ Count \in Nat /\ Count # 0 /\ m_get_idx \in Nat
      /\ Contents \in Seq(Chars) /\ Len(Contents) = Count
  BY Indices, ContentsFacts
<1>2. Contents # <<>> /\ 1 \in 1 .. Count /\ m_get_idx + 1 - 1 = m_get_idx
  BY <1>1, EmptySeq
<1>3. Head(Contents) = Contents[1]
  BY <1>1, <1>2
<1> QED
  BY <1>2, <1>3 DEF Contents

\* The reader sees a character when the indices differ.
LEMMA TestRefines ==
  ASSUME Inductive, Test
  PROVE  Q!See
<1>1. /\ UNCHANGED queueVars /\ pushing' = pushing /\ elem' = elem /\ sent' = sent
      /\ reader = "test" /\ reader' = "fetch" /\ ~CBUF_IsEmpty
  BY DEF Test
<1>2. Taking = "no" /\ Taking' = "seen" /\ ~Committed
  BY <1>1 DEF Taking, Committed
<1>3. Contents' = Contents
  <2>1. /\ CBUF_Len' = CBUF_Len /\ m_entry' = m_entry /\ m_get_idx' = m_get_idx
        /\ CBUF_Len # 0
    BY <1>1 DEF queueVars, CBUF_Len, CBUF_IsEmpty
  <2>2. Count' = CBUF_Len /\ Count = CBUF_Len
    BY <2>1 DEF Count, CBUF_IsEmpty
  <2> QED
    BY <2>1, <2>2 DEF Contents
<1>4. Contents # <<>>
  <2>1. m_put_idx # m_get_idx
    BY <1>1, EmptyMeansEqual DEF Inductive
  <2>2. Len(Contents) # 0
    BY <1>2, <2>1, Indices, ContentsFacts DEF Inductive
  <2> QED
    BY <2>2, EmptySeq
<1> QED
  BY <1>1, <1>2, <1>3, <1>4 DEF Q!See

\* It reads the head of the queue, also when the writer has gone round in between.
LEMMA FetchRefines ==
  ASSUME Inductive, Fetch
  PROVE  Q!Read
<1>1. /\ UNCHANGED queueVars /\ pushing' = pushing /\ sent' = sent
      /\ reader = "fetch" /\ reader' = "next"
      /\ elem' = m_entry[m_get_idx % Size]
  BY DEF Fetch
<1>2. Taking = "seen" /\ Taking' = "read" /\ Committed /\ Committed'
  BY <1>1 DEF Taking, Committed
<1>3. Contents' = Contents
  BY <1>1, <1>2, ContentsKept
<1>4. Head(Contents) = m_entry[m_get_idx % Size]
  BY <1>2, ContentsHead DEF Inductive
<1> QED
  BY <1>1, <1>2, <1>3, <1>4 DEF Q!Read

\* The index moves on: the head of the queue leaves, were it a whole turn long.
LEMMA PopRefines ==
  ASSUME Inductive, Pop, TypeOK'
  PROVE  Q!Pop
<1>1. /\ TypeOK /\ m_get_idx \in Nat /\ m_get_idx < IdxMod
      /\ m_put_idx \in Nat /\ m_put_idx < IdxMod /\ m_get_idx \in 0 .. IdxMod - 1
      /\ IdxMod \in Nat \ {0} /\ Size \in Nat \ {0}
  BY Indices DEF Inductive, TypeOK
<1>2. /\ Count \in Nat
      /\ Count = IF m_put_idx = m_get_idx THEN IdxMod
                 ELSE IF m_put_idx >= m_get_idx THEN m_put_idx - m_get_idx
                 ELSE IdxMod + m_put_idx - m_get_idx
      /\ Contents \in Seq(Chars) /\ Len(Contents) = Count /\ Contents # <<>>
  BY <1>1, ContentsFacts, ContentsHead DEF Pop, Committed
<1>3. /\ m_get_idx' = (m_get_idx + 1) % IdxMod
      /\ m_put_idx' = m_put_idx /\ m_entry' = m_entry
      /\ pushing' = pushing /\ elem' = elem
      /\ sent' = (sent # (elem = "nl"))
      /\ Taking = "read" /\ Taking' = "no" /\ ~Committed'
  BY DEF Pop, Taking, Committed
<1>4. m_get_idx' = IF m_get_idx + 1 = IdxMod THEN 0 ELSE m_get_idx + 1
  BY <1>1, <1>3, NextIndex
<1>5. /\ Count' = IF m_put_idx >= m_get_idx' THEN m_put_idx - m_get_idx'
                  ELSE IdxMod + m_put_idx - m_get_idx'
      /\ Contents' = Between(m_entry, m_get_idx', Count')
      /\ Contents' \in Seq(Chars) /\ Len(Contents') = Count'
  BY <1>3, ContentsNext
<1>6. Count' = Count - 1
  BY <1>1, <1>2, <1>3, <1>4, <1>5
<1>7. Contents' = Tail(Contents)
  <2> DEFINE t == Tail(Contents)
             u == Contents'
  <2>1. /\ t \in Seq(Chars) /\ Len(t) = Count - 1
        /\ \A i \in 1 .. Count - 1 : t[i] = Contents[i + 1]
    BY <1>2, HeadTailProperties
  <2>2. /\ u \in Seq(Chars) /\ Len(u) = Count - 1
        /\ u = Between(m_entry, m_get_idx', Count - 1)
    BY <1>5, <1>6
  <2>3. ASSUME NEW i \in 1 .. Len(u) PROVE u[i] = t[i]
    <3>1. i \in 1 .. Count - 1 /\ i + 1 \in 1 .. Count /\ i - 1 \in Nat
      BY <1>2, <2>2
    <3>2. u[i] = m_entry[(m_get_idx' + i - 1) % Size]
      BY <2>2, <3>1 DEF Between
    <3>3. /\ m_get_idx' + i - 1 = ((m_get_idx + 1) % IdxMod) + (i - 1)
          /\ m_get_idx + 1 + (i - 1) = m_get_idx + (i + 1) - 1
      BY <1>1, <1>3, <1>4, <3>1
    <3>4. (((m_get_idx + 1) % IdxMod) + (i - 1)) % Size = (m_get_idx + 1 + (i - 1)) % Size
      BY <1>1, <3>1, AdvanceIndex
    <3>5. Contents[i + 1] = m_entry[(m_get_idx + (i + 1) - 1) % Size]
      BY <3>1 DEF Contents
    <3> QED
      BY <2>1, <3>1, <3>2, <3>3, <3>4, <3>5
  <2>4. Len(u) = Len(t)
    BY <2>1, <2>2
  <2> HIDE DEF t, u
  <2>5. u = t
    BY <2>1, <2>2, <2>3, <2>4, SeqEqual
  <2> QED
    BY <2>5 DEF t, u
<1> QED
  BY <1>3, <1>7 DEF Q!Pop

\* The circular buffer with its two unguarded indices is a queue, for any interleaving
\* of the writer and the reader, any size and any width of the indices, also when the
\* reader falls behind.
THEOREM QueueImplementsLogQueue == Spec => ImplementsLogQueue
<1>1. Init => Q!Init
  <2> SUFFICES ASSUME Init PROVE Q!Init
    OBVIOUS
  <2>1. TypeOK /\ m_put_idx = 0 /\ m_get_idx = 0 /\ ~Committed
    BY InitInductive DEF Inductive, Init, Committed
  <2>2. Contents \in Seq(Chars) /\ Len(Contents) = 0
    <3>1. Count = 0
      BY <2>1, ContentsFacts
    <3> QED
      BY <2>1, <3>1, ContentsFacts
  <2>3. Contents = <<>>
    BY <2>2, EmptySeq
  <2> QED
    BY <2>3 DEF Init, Q!Init, Taking
<1>2. Inductive /\ Inductive' /\ [Next]_vars => [Q!Next]_Q!logVars
  <2> SUFFICES ASSUME Inductive, Inductive', [Next]_vars
               PROVE  Q!Next \/ UNCHANGED Q!logVars
    OBVIOUS
  <2>1. CASE Putc
    <3>1. /\ pushing = <<>> /\ pushing' \in Prints
          /\ UNCHANGED queueVars /\ reader' = reader /\ elem' = elem /\ sent' = sent
      BY <2>1 DEF Putc, Inductive, Pushes, readerVars
    <3>2. Contents' = Contents /\ Taking' = Taking
      BY <3>1, ContentsKept DEF Committed, Taking
    <3> QED
      BY <3>1, <3>2 DEF Q!Log, Q!readerVars, Q!Next
  <2>2. CASE Store
    BY <2>2, StoreRefines DEF Q!Next
  <2>3. CASE Advance
    BY <2>3, AdvanceRefines DEF Inductive, Q!Next
  <2>4. CASE Test
    BY <2>4, TestRefines DEF Q!Next
  <2>5. CASE Fetch
    BY <2>5, FetchRefines DEF Q!Next
  <2>6. CASE Pop
    BY <2>6, PopRefines DEF Inductive, Q!Next
  <2>7. CASE Give \/ TakeSem \/ Emptied \/ UNCHANGED vars
    <3>1. UNCHANGED queueVars /\ pushing' = pushing /\ elem' = elem /\ sent' = sent
      BY <2>7 DEF Give, TakeSem, Emptied, vars, queueVars, readerVars
    <3>2. (Committed' <=> Committed) /\ Taking' = Taking
      BY <2>7 DEF Give, TakeSem, Emptied, vars, readerVars, Committed, Taking
    <3>3. Contents' = Contents
      BY <3>1, <3>2, ContentsKept
    <3> QED
      BY <3>1, <3>2, <3>3 DEF Q!logVars
  <2> QED
    BY <2>1, <2>2, <2>3, <2>4, <2>5, <2>6, <2>7 DEF Next, Reader
<1> QED
  BY <1>1, <1>2, QueueInvariant, PTL DEF Spec, ImplementsLogQueue, Q!Spec
=============================================================================

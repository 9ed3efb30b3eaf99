---------------------------- MODULE OtaTftpProofs ----------------------------
(***************************************************************************)
(* What holds of the firmware update for any peers, any size of an image,  *)
(* any number of retransmissions and any length of the mailbox.            *)
(***************************************************************************)
EXTENDS OtaTftp, SequenceTheorems, TLAPS

USE DEF Slots

Datagrams == Peers \X (0 .. NBlocks)

(***************************************************************************)
(* Sequences.                                                              *)
(***************************************************************************)
\* Head, Tail and the length of the mailbox.
LEMMA TakeOne ==
  ASSUME TypeOK, mailbox # <<>>
  PROVE  /\ From \in Peers /\ Block \in 0 .. NBlocks
         /\ Head(mailbox) = <<From, Block>>
         /\ Head(mailbox) = mailbox[1]
         /\ Len(mailbox) \in Nat \ {0}
         /\ Tail(mailbox) \in Seq(Datagrams)
         /\ Len(Tail(mailbox)) = Len(mailbox) - 1
         /\ \A i \in 1 .. Len(mailbox) - 1 : Tail(mailbox)[i] = mailbox[i + 1]
<1>1. mailbox \in Seq(Datagrams)
  BY DEF TypeOK, Datagrams
<1>2. Head(mailbox) \in Datagrams /\ Head(mailbox) = mailbox[1]
  BY <1>1, HeadTailProperties
<1>3. From \in Peers /\ Block \in 0 .. NBlocks /\ Head(mailbox) = <<From, Block>>
  BY <1>2 DEF Datagrams, From, Block
<1>4. Len(mailbox) \in Nat \ {0}
  BY <1>1, EmptySeq
<1> QED
  BY <1>1, <1>2, <1>3, <1>4, HeadTailProperties

\* An image is a sequence of NBlocks blocks, and so are its beginnings.
LEMMA ImageIsSeq ==
  ASSUME NEW p \in Peers, NEW n \in 0 .. NBlocks
  PROVE  /\ Image(p) \in Seq(Blocks)
         /\ Len(Image(p)) = NBlocks
         /\ SubSeq(Image(p), 1, n) \in Seq(Blocks)
         /\ Len(SubSeq(Image(p), 1, n)) = n
         /\ \A i \in 1 .. n : SubSeq(Image(p), 1, n)[i] = <<p, i>>
<1>1. NBlocks \in Nat /\ n \in Nat
  BY OtaAssumption
<1>2. Image(p) \in [1 .. NBlocks -> Blocks]
  BY DEF Image, Blocks
<1>3. Image(p) \in Seq(Blocks)
  BY <1>1, <1>2, SeqDef
<1>4. Len(Image(p)) = NBlocks
  BY <1>1, <1>2, <1>3, LenProperties
<1>5. \A i \in 1 .. n : Image(p)[i] \in Blocks /\ Image(p)[i] = <<p, i>>
  BY <1>1, <1>2 DEF Image
<1> QED
  BY <1>1, <1>3, <1>4, <1>5, SubSeqProperties

\* The beginning of an image and the block that follows make a longer beginning.
LEMMA NextBlock ==
  ASSUME NEW p \in Peers, NEW b \in 1 .. NBlocks
  PROVE  Append(SubSeq(Image(p), 1, b - 1), <<p, b>>) = SubSeq(Image(p), 1, b)
<1> DEFINE s == SubSeq(Image(p), 1, b - 1)
           t == SubSeq(Image(p), 1, b)
<1>1. NBlocks \in Nat /\ b \in Nat /\ b - 1 \in 0 .. NBlocks /\ b \in 0 .. NBlocks
  BY OtaAssumption
<1>2. <<p, b>> \in Blocks
  BY <1>1 DEF Blocks
<1>3. /\ s \in Seq(Blocks) /\ Len(s) = b - 1
      /\ \A i \in 1 .. b - 1 : s[i] = <<p, i>>
  BY <1>1, ImageIsSeq
<1>4. /\ t \in Seq(Blocks) /\ Len(t) = b
      /\ \A i \in 1 .. b : t[i] = <<p, i>>
  BY <1>1, ImageIsSeq
<1> HIDE DEF s, t
<1>5. /\ Append(s, <<p, b>>) \in Seq(Blocks)
      /\ Len(Append(s, <<p, b>>)) = b
      /\ \A i \in 1 .. b - 1 : Append(s, <<p, b>>)[i] = s[i]
      /\ Append(s, <<p, b>>)[b] = <<p, b>>
  BY <1>1, <1>2, <1>3, AppendProperties
<1>6. ASSUME NEW i \in 1 .. b PROVE Append(s, <<p, b>>)[i] = t[i]
  <2>1. CASE i = b
    BY <1>4, <1>5, <2>1
  <2>2. CASE i # b
    <3>1. i \in 1 .. b - 1
      BY <1>1, <2>2
    <3> QED
      BY <1>3, <1>4, <1>5, <3>1
  <2> QED
    BY <2>1, <2>2
<1>7. Append(s, <<p, b>>) = t
  BY <1>4, <1>5, <1>6, SeqEqual
<1> QED
  BY <1>7 DEF s, t

\* The whole of an image, and nothing of it.
LEMMA WholeImage ==
  ASSUME NEW p \in Peers
  PROVE  SubSeq(Image(p), 1, NBlocks) = Image(p) /\ SubSeq(Image(p), 1, 0) = <<>>
<1>1. NBlocks \in 0 .. NBlocks
  BY OtaAssumption
<1>2. Image(p) \in Seq(Blocks) /\ Len(Image(p)) = NBlocks
  BY <1>1, ImageIsSeq
<1> QED
  BY <1>2, SubSeqFull, SubSeqEmpty

(***************************************************************************)
(* The inductive invariant.                                                *)
(***************************************************************************)
\* The other slot is the one to boot from only while the device restarts; until then
\* nothing is written to what it boots from.
BootIsRunning == stage # "restart" => boot = running

\* A transfer has a peer, and it has timeouts left.
HasPeer == /\ stage \in {"begin", "data"} => peer \in Peers
           /\ stage = "data" => retries >= 0

\* In a clean transfer no datagram of another peer is queued.
OwnMailbox == clean /\ stage \in {"begin", "data"}
                 => \A i \in 1 .. Len(mailbox) : mailbox[i][1] = peer

Inductive == /\ TypeOK
             /\ BootIsRunning
             /\ Bootable
             /\ HasPeer
             /\ OwnMailbox
             /\ SlotIsPrefix

USE DEF BootIsRunning, HasPeer, OwnMailbox

\* The device leaves the factory able to boot.
LEMMA InitInductive == Init => Inductive
<1> SUFFICES ASSUME Init PROVE Inductive
  OBVIOUS
<1>1. Factory \in Seq(Blocks) /\ <<>> \in Seq(Blocks) /\ <<>> \in Seq(Datagrams) /\ Len(<<>>) = 0
  <2>1. <<NoPeer, 1>> \in Blocks
    BY OtaAssumption DEF Blocks
  <2> QED
    BY <2>1, EmptySeq DEF Factory
<1>2. slots \in [Slots -> Seq(Blocks)]
  BY <1>1 DEF Init
<1>3. 1 \in 1 .. NBlocks /\ Retransmits \in -1 .. Retransmits /\ -1 \in -1 .. NBlocks
  BY OtaAssumption
<1>4. mailbox \in Seq(Datagrams) /\ Len(mailbox) <= MailboxSize
  BY <1>1, OtaAssumption DEF Init
<1>5. TypeOK
  BY <1>2, <1>3, <1>4 DEF Init, TypeOK, Datagrams
<1>6. Bootable
  BY DEF Init, Bootable, Valid
<1> QED
  BY <1>5, <1>6 DEF Init, Inductive, SlotIsPrefix

(***************************************************************************)
(* What a step writes to the slot that is not running does no harm to the  *)
(* other one.                                                              *)
(***************************************************************************)
LEMMA WriteKeepsBootable ==
  ASSUME TypeOK, Bootable, boot = running, boot' = boot, NEW s,
         slots' = [slots EXCEPT ![UpdateSlot] = s]
  PROVE  Bootable' /\ slots'[UpdateSlot] = s
<1>1. UpdateSlot \in Slots /\ UpdateSlot # boot
  BY DEF TypeOK, UpdateSlot
<1>2. slots'[boot] = slots[boot] /\ slots'[UpdateSlot] = s
  BY <1>1 DEF TypeOK
<1> QED
  BY <1>2 DEF Bootable, Valid

\* The slots keep their type if what is written is a sequence of blocks.
LEMMA WriteKeepsType ==
  ASSUME TypeOK, NEW s \in Seq(Blocks), slots' = [slots EXCEPT ![UpdateSlot] = s]
  PROVE  slots' \in [Slots -> Seq(Blocks)]
  BY DEF TypeOK

\* A datagram that is taken from the mailbox leaves a mailbox.
LEMMA TakeKeepsMailbox ==
  ASSUME Inductive, mailbox # <<>>, mailbox' = Tail(mailbox)
  PROVE  /\ mailbox' \in Seq(Peers \X (0 .. NBlocks))
         /\ Len(mailbox') <= MailboxSize
         /\ clean /\ stage \in {"begin", "data"}
              => From = peer /\ \A i \in 1 .. Len(mailbox') : mailbox'[i][1] = peer
<1>1. TypeOK /\ OwnMailbox /\ Len(mailbox) <= MailboxSize
  BY DEF Inductive, TypeOK
<1>2. /\ Head(mailbox) = mailbox[1] /\ Len(mailbox) \in Nat \ {0}
      /\ mailbox' \in Seq(Datagrams)
      /\ Len(mailbox') = Len(mailbox) - 1
      /\ \A i \in 1 .. Len(mailbox) - 1 : mailbox'[i] = mailbox[i + 1]
  BY <1>1, TakeOne
<1>3. Len(mailbox') <= MailboxSize
  BY <1>1, <1>2, OtaAssumption
<1>4. ASSUME clean, stage \in {"begin", "data"}
      PROVE  From = peer /\ \A i \in 1 .. Len(mailbox') : mailbox'[i][1] = peer
  <2>1. \A i \in 1 .. Len(mailbox) : mailbox[i][1] = peer
    BY <1>1, <1>4
  <2>2. From = peer
    BY <1>2, <2>1 DEF From
  <2>3. \A i \in 1 .. Len(mailbox) - 1 : i + 1 \in 1 .. Len(mailbox)
    BY <1>2
  <2> QED
    BY <1>2, <2>1, <2>2, <2>3
<1> QED
  BY <1>2, <1>3, <1>4 DEF Datagrams

\* An acknowledgement is a number of a block.
LEMMA AckKeepsType ==
  ASSUME TypeOK, NEW p, NEW b \in 0 .. NBlocks, Ack(p, b)
  PROVE  acked' \in [Peers -> -1 .. NBlocks]
<1>1. b \in -1 .. NBlocks
  BY OtaAssumption
<1> QED
  BY <1>1 DEF TypeOK, Ack

(***************************************************************************)
(* The steps.                                                              *)
(***************************************************************************)
\* What is the same for all steps that leave the flash alone.
LEMMA FlashKept ==
  ASSUME Inductive, UNCHANGED <<slots, boot, running>>
  PROVE  Bootable' /\ UpdateSlot' = UpdateSlot
  BY DEF Inductive, Bootable, Valid, UpdateSlot

\* Peers and the network touch the mailbox only.
LEMMA NetworkInductive ==
  ASSUME Inductive
  PROVE  /\ \A p \in Peers : Send(p) => Inductive'
         /\ ArriveAny => Inductive'
<1>1. ASSUME NEW p \in Peers, Send(p) PROVE Inductive'
  <2>1. sent[p] + 1 \in -1 .. NBlocks
    BY <1>1, OtaAssumption DEF Send, Inductive, TypeOK
  <2>2. TypeOK'
    BY <1>1, <2>1 DEF Send, Inductive, TypeOK, transferVars, flashVars
  <2> QED
    BY <1>1, <2>2, FlashKept
       DEF Send, Inductive, SlotIsPrefix, transferVars, flashVars
<1>2. ASSUME NEW p \in Peers, NEW b \in 0 .. NBlocks, Arrive(p, b) PROVE Inductive'
  <2>1. /\ mailbox \in Seq(Datagrams) /\ <<p, b>> \in Datagrams
        /\ Len(mailbox) < MailboxSize /\ mailbox' = Append(mailbox, <<p, b>>)
    BY <1>2 DEF Arrive, Inductive, TypeOK, Datagrams
  <2>2. /\ mailbox' \in Seq(Datagrams)
        /\ Len(mailbox') = Len(mailbox) + 1
        /\ \A i \in 1 .. Len(mailbox) : mailbox'[i] = mailbox[i]
        /\ mailbox'[Len(mailbox) + 1] = <<p, b>>
        /\ Len(mailbox) \in Nat
    BY <2>1, AppendProperties, LenProperties
  <2>3. TypeOK'
    BY <1>2, <2>1, <2>2, OtaAssumption
       DEF Arrive, Inductive, TypeOK, Datagrams, transferVars, flashVars
  <2>4. ASSUME clean, stage \in {"begin", "data"}, NEW i \in 1 .. Len(mailbox')
        PROVE  mailbox'[i][1] = peer
    <3>1. CASE i = Len(mailbox) + 1
      BY <1>2, <2>2, <2>4, <3>1, OtaAssumption DEF Arrive, Inductive
    <3>2. CASE i # Len(mailbox) + 1
      <4>1. i \in 1 .. Len(mailbox)
        BY <2>2, <3>2
      <4> QED
        BY <2>2, <2>4, <4>1 DEF Inductive
    <3> QED
      BY <3>1, <3>2
  <2>5. OwnMailbox'
    BY <1>2, <2>4 DEF Arrive, transferVars
  <2> QED
    BY <1>2, <2>3, <2>5, FlashKept
       DEF Arrive, Inductive, SlotIsPrefix, transferVars, flashVars
<1> QED
  BY <1>1, <1>2 DEF ArriveAny

\* What the server does while it waits for a write request.
LEMMA WaitInductive ==
  ASSUME Inductive, DropOther \/ TakeWrq \/ AckFailed
  PROVE  Inductive'
<1>1. /\ mailbox # <<>> /\ stage = "wait" /\ mailbox' = Tail(mailbox)
      /\ UNCHANGED <<sent, block, retries, handle, slots, boot, running>>
  BY DEF DropOther, TakeWrq, AckFailed, transferVars, flashVars
<1>2. /\ mailbox' \in Seq(Peers \X (0 .. NBlocks))
      /\ Len(mailbox') <= MailboxSize
  BY <1>1, TakeKeepsMailbox
<1>3. CASE DropOther \/ AckFailed
  <2>1. UNCHANGED <<acked, peer, stage, clean>>
    BY <1>3 DEF DropOther, AckFailed, transferVars
  <2>2. TypeOK'
    BY <1>1, <1>2, <2>1 DEF Inductive, TypeOK
  <2> QED
    BY <1>1, <2>1, <2>2, FlashKept DEF Inductive, SlotIsPrefix
<1>4. CASE TakeWrq
  <2>1. /\ From \in Peers /\ Len(mailbox) \in Nat \ {0}
        /\ Len(mailbox') = Len(mailbox) - 1
        /\ \A i \in 1 .. Len(mailbox) - 1 : mailbox'[i] = mailbox[i + 1]
    BY <1>1, TakeOne DEF Inductive
  <2>2. acked' \in [Peers -> -1 .. NBlocks]
    BY <1>4, AckKeepsType, OtaAssumption DEF TakeWrq, Inductive
  <2>3. TypeOK'
    BY <1>1, <1>2, <1>4, <2>1, <2>2 DEF TakeWrq, Inductive, TypeOK
  <2>4. ASSUME clean', NEW i \in 1 .. Len(mailbox') PROVE mailbox'[i][1] = peer'
    <3>1. i + 1 \in 2 .. Len(mailbox) /\ i \in 1 .. Len(mailbox) - 1
      BY <2>1
    <3> QED
      BY <1>4, <2>1, <2>4, <3>1 DEF TakeWrq
  <2> QED
    BY <1>1, <1>4, <2>1, <2>3, <2>4, FlashKept
       DEF TakeWrq, Inductive, SlotIsPrefix
<1> QED
  BY <1>3, <1>4

\* The slot is erased, or the transfer is no longer clean.
LEMMA BeginInductive ==
  ASSUME Inductive, Begin
  PROVE  Inductive'
<1>1. /\ peer \in Peers /\ boot = running /\ UpdateSlot \in Slots
      /\ 1 \in 1 .. NBlocks /\ Retransmits \in 0 .. Retransmits
      /\ Retransmits \in -1 .. Retransmits
  BY OtaAssumption DEF Begin, Inductive, TypeOK, UpdateSlot
<1>2. UpdateSlot' = UpdateSlot
  BY DEF Begin, UpdateSlot
<1>3. CASE handle' = TRUE /\ slots' = [slots EXCEPT ![UpdateSlot] = <<>>] /\ UNCHANGED clean
  <2>1. slots' \in [Slots -> Seq(Blocks)]
    BY <1>3, WriteKeepsType, EmptySeq DEF Inductive
  <2>2. Bootable' /\ slots'[UpdateSlot] = <<>>
    BY <1>1, <1>3, WriteKeepsBootable DEF Begin, Inductive
  <2>3. TypeOK'
    BY <1>1, <1>3, <2>1 DEF Begin, Inductive, TypeOK, netVars
  <2>4. SlotIsPrefix'
    <3>1. slots'[UpdateSlot] = SubSeq(Image(peer), 1, 1 - 1)
      BY <1>1, <2>2, WholeImage
    <3> QED
      BY <1>2, <3>1 DEF Begin, SlotIsPrefix, Image
  <2> QED
    BY <1>1, <1>3, <2>2, <2>3, <2>4 DEF Begin, Inductive, netVars
<1>4. CASE clean' = FALSE /\ UNCHANGED <<handle, slots>>
  <2>1. TypeOK'
    BY <1>1, <1>4 DEF Begin, Inductive, TypeOK, netVars
  <2> QED
    BY <1>1, <1>4, <2>1, FlashKept DEF Begin, Inductive, SlotIsPrefix, netVars
<1> QED
  BY <1>3, <1>4 DEF Begin

\* A timeout that is not the last one changes no more than the count.
LEMMA TimeoutInductive ==
  ASSUME Inductive, Timeout
  PROVE  Inductive'
<1>1. /\ peer \in Peers /\ retries \in 0 .. Retransmits /\ block \in 1 .. NBlocks
      /\ retries - 1 \in -1 .. Retransmits
  BY OtaAssumption DEF Timeout, Inductive, TypeOK
<1>2. CASE retries > 0 /\ Ack(peer, block - 1) /\ UNCHANGED <<peer, stage>>
  <2>1. block - 1 \in 0 .. NBlocks
    BY <1>1, OtaAssumption
  <2>2. acked' \in [Peers -> -1 .. NBlocks]
    BY <1>2, <2>1, AckKeepsType DEF Inductive
  <2>3. TypeOK'
    BY <1>1, <1>2, <2>2 DEF Timeout, Inductive, TypeOK, flashVars
  <2> QED
    BY <1>1, <1>2, <2>3, FlashKept
       DEF Timeout, Inductive, SlotIsPrefix, flashVars
<1>3. CASE End("wait") /\ UNCHANGED acked
  <2>1. TypeOK'
    BY <1>1, <1>3 DEF Timeout, End, Inductive, TypeOK, flashVars
  <2> QED
    BY <1>3, <2>1, FlashKept DEF Timeout, End, Inductive, SlotIsPrefix, flashVars
<1> QED
  BY <1>2, <1>3 DEF Timeout

\* The transfer ends for a reason that leaves the flash alone.
LEMMA GiveUpInductive ==
  ASSUME Inductive, RecvFailed \/ Unexpected
  PROVE  Inductive'
<1>1. /\ stage = "data" /\ End("wait")
      /\ UNCHANGED <<sent, acked, block, retries, clean, handle, slots, boot, running>>
  BY DEF RecvFailed, Unexpected, netVars, transferVars, flashVars
<1>2. /\ mailbox' \in Seq(Peers \X (0 .. NBlocks))
      /\ Len(mailbox') <= MailboxSize
  <2>1. CASE RecvFailed
    BY <2>1 DEF RecvFailed, Inductive, TypeOK, netVars
  <2>2. CASE Unexpected
    BY <2>2, TakeKeepsMailbox DEF Unexpected
  <2> QED
    BY <2>1, <2>2
<1>3. TypeOK'
  BY <1>1, <1>2 DEF End, Inductive, TypeOK
<1> QED
  BY <1>1, <1>3, FlashKept DEF End, Inductive, SlotIsPrefix

\* A block that comes again is acknowledged and not written.
LEMMA DuplicateInductive ==
  ASSUME Inductive, Duplicate
  PROVE  Inductive'
<1>1. /\ mailbox # <<>> /\ mailbox' = Tail(mailbox) /\ Ack(peer, Block)
      /\ UNCHANGED <<sent, peer, stage, block, retries, clean, handle, slots, boot, running>>
  BY DEF Duplicate, transferVars, flashVars
<1>2. /\ mailbox' \in Seq(Peers \X (0 .. NBlocks))
      /\ Len(mailbox') <= MailboxSize
      /\ OwnMailbox'
  BY <1>1, TakeKeepsMailbox
<1>3. Block \in 0 .. NBlocks
  BY <1>1, TakeOne DEF Inductive
<1>4. acked' \in [Peers -> -1 .. NBlocks]
  BY <1>1, <1>3, AckKeepsType DEF Inductive
<1>5. TypeOK'
  BY <1>1, <1>2, <1>4 DEF Inductive, TypeOK
<1> QED
  BY <1>1, <1>2, <1>5, FlashKept DEF Inductive, SlotIsPrefix

\* What both outcomes of the expected block have in common.
LEMMA ExpectedBlock ==
  ASSUME Inductive, Data \/ DataFailed
  PROVE  /\ peer \in Peers /\ boot = running /\ stage = "data"
         /\ block \in 1 .. NBlocks /\ retries' \in 0 .. Retransmits
         /\ Head(mailbox) = <<From, block>>
         /\ Append(slots[UpdateSlot], Head(mailbox)) \in Seq(Blocks)
         /\ clean => From = peer
         /\ mailbox' \in Seq(Peers \X (0 .. NBlocks))
         /\ Len(mailbox') <= MailboxSize
         /\ OwnMailbox' \/ stage' # "data"
         /\ UpdateSlot' = UpdateSlot
<1>1. /\ stage = "data" /\ mailbox # <<>> /\ Block = block
      /\ mailbox' = Tail(mailbox) /\ retries' = Retransmits
      /\ UNCHANGED <<clean, boot, running>>
  BY DEF Data, DataFailed
<1>2. /\ mailbox' \in Seq(Peers \X (0 .. NBlocks))
      /\ Len(mailbox') <= MailboxSize
      /\ clean => From = peer /\ \A i \in 1 .. Len(mailbox') : mailbox'[i][1] = peer
  BY <1>1, TakeKeepsMailbox
<1>3. From \in Peers /\ Head(mailbox) = <<From, Block>>
  BY <1>1, TakeOne DEF Inductive
<1>4. /\ peer \in Peers /\ boot = running /\ block \in 1 .. NBlocks
      /\ retries' \in 0 .. Retransmits
      /\ slots[UpdateSlot] \in Seq(Blocks)
  BY <1>1, OtaAssumption DEF Inductive, TypeOK, UpdateSlot
<1>5. <<From, block>> \in Blocks
  BY <1>3, <1>4 DEF Blocks
<1>6. Append(slots[UpdateSlot], Head(mailbox)) \in Seq(Blocks)
  BY <1>1, <1>3, <1>4, <1>5, AppendProperties
<1>7. stage' = "data" => peer' = peer
  BY DEF Data, DataFailed, End
<1>8. OwnMailbox' \/ stage' # "data"
  BY <1>1, <1>2, <1>7
<1>9. UpdateSlot' = UpdateSlot
  BY <1>1 DEF UpdateSlot
<1> QED
  BY <1>1, <1>2, <1>3, <1>4, <1>6, <1>8, <1>9

\* Both outcomes keep the type of the variables if they keep that of these four.
LEMMA ExpectedBlockKeepsType ==
  ASSUME Inductive, Data \/ DataFailed,
         slots' \in [Slots -> Seq(Blocks)],
         acked' \in [Peers -> -1 .. NBlocks],
         block' \in 1 .. NBlocks,
         peer' \in Peers \cup {NoPeer},
         stage' \in {"wait", "data", "accept"}
  PROVE  TypeOK'
<1>1. /\ mailbox' \in Seq(Peers \X (0 .. NBlocks)) /\ Len(mailbox') <= MailboxSize
      /\ retries' \in -1 .. Retransmits
  BY ExpectedBlock, OtaAssumption
<1>2. UNCHANGED <<sent, clean, handle, boot, running>>
  BY DEF Data, DataFailed
<1>3. Blocks' = Blocks
  BY DEF Blocks
<1>4. slots' \in [Slots -> Seq(Blocks')]
  BY <1>3
<1> QED
  BY <1>1, <1>2, <1>4 DEF Inductive, TypeOK

\* The expected block makes the slot a longer beginning, or the whole, of the image.
LEMMA DataInductive ==
  ASSUME Inductive, Data
  PROVE  Inductive'
<1>1. slots' = [slots EXCEPT ![UpdateSlot] = Append(slots[UpdateSlot], Head(mailbox))]
  BY DEF Data
<1>2. slots' \in [Slots -> Seq(Blocks)]
  BY <1>1, ExpectedBlock, WriteKeepsType DEF Inductive
<1>3. Bootable' /\ slots'[UpdateSlot] = Append(slots[UpdateSlot], Head(mailbox))
  BY <1>1, ExpectedBlock, WriteKeepsBootable DEF Data, Inductive
<1>4. acked' \in [Peers -> -1 .. NBlocks]
  <2>1. block \in 0 .. NBlocks
    BY ExpectedBlock, OtaAssumption
  <2> QED
    BY <2>1, AckKeepsType DEF Data, Inductive
<1>5. clean => slots'[UpdateSlot] = SubSeq(Image(peer), 1, block)
  BY <1>3, ExpectedBlock, NextBlock DEF Inductive, SlotIsPrefix
<1>6. CASE block = NBlocks /\ End("accept") /\ UNCHANGED block
  <2>1. clean => \E p \in Peers : slots'[UpdateSlot] = Image(p)
    BY <1>5, <1>6, ExpectedBlock, WholeImage
  <2>2. SlotIsPrefix'
    BY <1>6, <2>1, ExpectedBlock DEF Data, End, SlotIsPrefix, Image
  <2>3. TypeOK'
    BY <1>2, <1>4, <1>6, ExpectedBlock, ExpectedBlockKeepsType DEF End
  <2> QED
    BY <1>3, <1>6, <2>2, <2>3, ExpectedBlock DEF Data, End, Inductive
<1>7. CASE block # NBlocks /\ block' = block + 1 /\ UNCHANGED <<peer, stage>>
  <2>1. block' \in 1 .. NBlocks /\ block' - 1 = block
    BY <1>7, ExpectedBlock, OtaAssumption
  <2>2. SlotIsPrefix'
    BY <1>5, <1>7, <2>1, ExpectedBlock DEF Data, SlotIsPrefix, Image
  <2>3. TypeOK'
    BY <1>2, <1>4, <1>7, <2>1, ExpectedBlock, ExpectedBlockKeepsType
  <2> QED
    BY <1>3, <1>7, <2>2, <2>3, ExpectedBlock DEF Data, Inductive
<1> QED
  BY <1>6, <1>7 DEF Data

\* A failure ends the transfer, with or without a block more in the slot.
LEMMA DataFailedInductive ==
  ASSUME Inductive, DataFailed
  PROVE  Inductive'
<1>1. slots' \in [Slots -> Seq(Blocks)] /\ Bootable'
  <2>1. CASE UNCHANGED slots
    BY <2>1, FlashKept DEF DataFailed, Inductive, TypeOK
  <2>2. CASE slots' = [slots EXCEPT ![UpdateSlot] = Append(slots[UpdateSlot], Head(mailbox))]
    BY <2>2, ExpectedBlock, WriteKeepsType, WriteKeepsBootable DEF DataFailed, Inductive
  <2> QED
    BY <2>1, <2>2 DEF DataFailed
<1>2. acked' \in [Peers -> -1 .. NBlocks] /\ block' \in 1 .. NBlocks
  BY DEF DataFailed, Inductive, TypeOK
<1>3. TypeOK'
  BY <1>1, <1>2, ExpectedBlockKeepsType DEF DataFailed, End
<1> QED
  BY <1>1, <1>3, ExpectedBlock DEF DataFailed, End, Inductive, SlotIsPrefix

\* The boot slot changes to a slot that the boot loader accepts.
LEMMA SetBootInductive ==
  ASSUME Inductive, SetBoot
  PROVE  Inductive'
<1>1. UpdateSlot \in Slots /\ UpdateSlot' = UpdateSlot
  BY DEF SetBoot, Inductive, TypeOK, UpdateSlot
<1>2. TypeOK'
  BY <1>1 DEF SetBoot, Inductive, TypeOK, netVars, transferVars
<1>3. Bootable'
  <2>1. CASE Valid(slots[UpdateSlot]) /\ boot' = UpdateSlot
    BY <2>1 DEF SetBoot, Bootable, Valid, Image
  <2>2. CASE UNCHANGED boot
    BY <2>2 DEF SetBoot, Inductive, Bootable, Valid
  <2> QED
    BY <2>1, <2>2 DEF SetBoot
<1> QED
  BY <1>2, <1>3 DEF SetBoot, Inductive, SlotIsPrefix, netVars, transferVars

\* The device starts again, after an update or a loss of power.
LEMMA RestartInductive ==
  ASSUME Inductive, Restart
  PROVE  Inductive'
<1>1. /\ 1 \in 1 .. NBlocks /\ Retransmits \in -1 .. Retransmits /\ 0 <= MailboxSize
      /\ <<>> \in Seq(Peers \X (0 .. NBlocks)) /\ Len(<<>>) = 0
  BY OtaAssumption, EmptySeq
<1>2. TypeOK'
  BY <1>1 DEF Restart, End, Inductive, TypeOK
<1>3. Bootable'
  BY DEF Restart, Inductive, Bootable, Valid
<1> QED
  BY <1>2, <1>3 DEF Restart, End, Inductive, SlotIsPrefix

\* Every step preserves the invariant.
LEMMA NextInductive == Inductive /\ [Next]_vars => Inductive'
<1> SUFFICES ASSUME Inductive, [Next]_vars PROVE Inductive'
  OBVIOUS
<1>1. CASE UNCHANGED vars
  <2>1. TypeOK'
    BY <1>1 DEF vars, Inductive, TypeOK
  <2> QED
    BY <1>1, <2>1, FlashKept DEF vars, Inductive, SlotIsPrefix
<1>2. CASE Serve
  BY <1>2, WaitInductive, BeginInductive, TimeoutInductive, GiveUpInductive,
     DuplicateInductive, DataInductive, DataFailedInductive, SetBootInductive,
     RestartInductive DEF Serve
<1>3. CASE RecvFailed \/ Restart
  BY <1>3, GiveUpInductive, RestartInductive
<1>4. CASE ArriveAny \/ \E p \in Peers : Send(p)
  BY <1>4, NetworkInductive
<1> QED
  BY <1>1, <1>2, <1>3, <1>4 DEF Next

(***************************************************************************)
(* The theorems.                                                           *)
(***************************************************************************)
\* The invariant of the update holds in every state.
THEOREM OtaInvariant == Spec => []Inductive
  BY InitInductive, NextInductive, PTL DEF Spec

\* The state of the update has its type; in particular the expected block never
\* exceeds the image, and no more timeouts are answered than the limit.
THEOREM OtaTypeCorrect == Spec => []TypeOK
<1>1. Inductive => TypeOK
  BY DEF Inductive
<1> QED
  BY <1>1, OtaInvariant, PTL

\* The device can boot at any moment: ota-tftp.c writes only to the slot that is not
\* running, and that is not the one to boot from until it holds an accepted image.
THEOREM OtaBootable == Spec => []Bootable
<1>1. Inductive => Bootable
  BY DEF Inductive
<1> QED
  BY <1>1, OtaInvariant, PTL

\* tftp_receive_data writes each block of the peer once and in order, whatever the
\* network loses, repeats or delays.
THEOREM OtaSlotIsPrefix == Spec => []SlotIsPrefix
<1>1. Inductive => SlotIsPrefix
  BY DEF Inductive
<1> QED
  BY <1>1, OtaInvariant, PTL

\* A clean transfer that ends well leaves an image that can be booted, unless the peer
\* sent one that cannot: the last block is acknowledged before the image is verified
\* (ota-tftp.c 421), and this is what the ACK says all the same.
THEOREM OtaCleanImageIsValid ==
    Broken = {} => (Spec => [](clean /\ stage = "accept" => Valid(slots[UpdateSlot])))
<1> SUFFICES ASSUME Broken = {}
             PROVE  Spec => [](clean /\ stage = "accept" => Valid(slots[UpdateSlot]))
  OBVIOUS
<1>1. SlotIsPrefix => (clean /\ stage = "accept" => Valid(slots[UpdateSlot]))
  BY DEF SlotIsPrefix, Valid
<1> QED
  BY <1>1, OtaSlotIsPrefix, PTL

(***************************************************************************)
(* The update implements FirmwareUpdate.                                   *)
(***************************************************************************)
\* What is written goes to the slot that neither runs nor is booted from.
LEMMA WriteRefines ==
  ASSUME TypeOK, boot = running, UNCHANGED <<boot, running>>, NEW s,
         slots' = [slots EXCEPT ![UpdateSlot] = s]
  PROVE  UNCHANGED F!updateVars
<1>1. UpdateSlot \in Slots /\ UpdateSlot # boot
  BY DEF TypeOK, UpdateSlot
<1>2. slots'[boot'] = slots[boot] /\ slots'[running'] = slots[running]
  BY <1>1 DEF TypeOK
<1> QED
  BY <1>2 DEF F!updateVars

\* What is to be installed ends with a block that a peer has sent: it is not the
\* program of the factory, which the other slot may still hold.
EndsWithPeers == stage = "accept" => slots[UpdateSlot] # Factory

LEMMA EndsWithPeersKept ==
  Inductive /\ EndsWithPeers /\ [Next]_vars => EndsWithPeers'
<1> SUFFICES ASSUME Inductive, EndsWithPeers, [Next]_vars, stage' = "accept"
             PROVE  slots'[UpdateSlot'] # Factory
  BY DEF EndsWithPeers
<1>1. CASE Data
  <2> DEFINE s == slots[UpdateSlot]
             d == <<From, block>>
  <2>1. /\ slots' = [slots EXCEPT ![UpdateSlot] = Append(s, d)]
        /\ UpdateSlot' = UpdateSlot /\ UpdateSlot \in Slots
    <3>1. Head(mailbox) = d /\ UpdateSlot' = UpdateSlot
      BY <1>1, ExpectedBlock
    <3>2. slots' = [slots EXCEPT ![UpdateSlot] = Append(s, Head(mailbox))]
      BY <1>1 DEF Data
    <3>3. UpdateSlot \in Slots
      BY DEF Inductive, TypeOK, UpdateSlot, Slots
    <3> QED
      BY <3>1, <3>2, <3>3
  <2>2. slots'[UpdateSlot'] = Append(s, d) /\ s \in Seq(Blocks)
    BY <2>1 DEF Inductive, TypeOK
  <2>3. d \in Blocks /\ From # NoPeer
    <3>1. From \in Peers /\ block \in 1 .. NBlocks
      BY <1>1, TakeOne DEF Data, Inductive, TypeOK
    <3> QED
      BY <3>1, OtaAssumption DEF Blocks
  <2> HIDE DEF s
  <2>4. Append(s, d)[Len(Append(s, d))] = d
    BY <2>2, <2>3, AppendProperties
  <2>5. Factory[Len(Factory)] = <<NoPeer, 1>>
    BY DEF Factory
  <2> QED
    BY <2>2, <2>3, <2>4, <2>5
<1>2. CASE ~Data
  <2>1. stage = "accept" /\ UNCHANGED <<slots, running>>
    BY <1>2
    DEF Next, Serve, ArriveAny, Arrive, Send, DropOther, TakeWrq, AckFailed, Begin,
        Timeout, RecvFailed, Unexpected, Duplicate, DataFailed, SetBoot, Restart, End,
        netVars, transferVars, flashVars, vars
  <2> QED
    BY <2>1 DEF EndsWithPeers, UpdateSlot
<1> QED
  BY <1>1, <1>2

\* The step that changes the boot slot installs an image that a peer has sent.
LEMMA SetBootRefines ==
  ASSUME Inductive, EndsWithPeers, SetBoot
  PROVE  [F!Next]_F!updateVars
<1>1. boot = running /\ UNCHANGED <<slots, running>>
  BY DEF SetBoot, Inductive
<1>2. CASE Valid(slots[UpdateSlot]) /\ boot' = UpdateSlot
  <2>1. slots'[boot'] = slots[UpdateSlot] /\ slots'[running'] = slots[running]
    BY <1>1, <1>2
  <2>2. slots[boot] = slots[running]
    BY <1>1
  <2>3. slots[UpdateSlot] \in {Image(p) : p \in Peers \ Broken}
    BY <1>2 DEF SetBoot, EndsWithPeers, Valid
  <2> QED
    BY <2>1, <2>2, <2>3 DEF F!Next, F!Install
<1>3. CASE UNCHANGED boot
  BY <1>1, <1>3 DEF F!updateVars
<1> QED
  BY <1>2, <1>3 DEF SetBoot

\* Every step.
LEMMA NextRefines == Inductive /\ EndsWithPeers /\ [Next]_vars => [F!Next]_F!updateVars
<1> SUFFICES ASSUME Inductive, EndsWithPeers, [Next]_vars PROVE [F!Next]_F!updateVars
  OBVIOUS
<1>1. CASE UNCHANGED <<slots, boot, running>>
  BY <1>1 DEF F!updateVars
<1>2. CASE Begin \/ Data \/ DataFailed
  <2>1. TypeOK /\ boot = running /\ UNCHANGED <<boot, running>>
    BY <1>2 DEF Begin, Data, DataFailed, Inductive
  <2>2. UNCHANGED slots \/ \E s : slots' = [slots EXCEPT ![UpdateSlot] = s]
    BY <1>2 DEF Begin, Data, DataFailed
  <2>3. CASE UNCHANGED slots
    BY <2>1, <2>3 DEF F!updateVars
  <2>4. CASE \E s : slots' = [slots EXCEPT ![UpdateSlot] = s]
    BY <2>1, <2>4, WriteRefines
  <2> QED
    BY <2>2, <2>3, <2>4
<1>3. CASE SetBoot
  BY <1>3, SetBootRefines
<1>4. CASE Restart
  BY <1>4 DEF Restart, F!Next, F!Boot
<1> QED
  BY <1>1, <1>2, <1>3, <1>4
  DEF Next, Serve, ArriveAny, Arrive, Send, DropOther, TakeWrq, AckFailed, Timeout,
      RecvFailed, Unexpected, Duplicate, netVars, transferVars, flashVars, vars

\* Two slots written block by block are an atomic update, for any peers, any image
\* size and any loss of datagrams and power (ota-tftp.c 236-260, 340-430).
THEOREM OtaImplementsFirmwareUpdate == Spec => ImplementsFirmwareUpdate
<1>1. Init => F!Init /\ EndsWithPeers
  BY DEF Init, F!Init, EndsWithPeers
<1> QED
  BY <1>1, NextRefines, EndsWithPeersKept, OtaInvariant, PTL DEF Spec, ImplementsFirmwareUpdate, F!Spec
=============================================================================

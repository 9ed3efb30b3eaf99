------------------------------- MODULE OtaTftp -------------------------------
(***************************************************************************)
(* The firmware update server (ota-tftp.c): a TFTP server on one UDP       *)
(* socket that writes what it receives to the slot that is not running,    *)
(* and boots from it when a transfer has ended well.  The device may lose  *)
(* its power at any step.                                                  *)
(*                                                                         *)
(* The network loses, duplicates, delays and reorders datagrams.  A peer   *)
(* is one attempt of a TFTP client (RFC 1350, external): it sends a write  *)
(* request, then block after block, each when the one before it is         *)
(* acknowledged, and any of them again whenever it likes.  So a datagram   *)
(* that was sent once may arrive at any time, any number of times or       *)
(* never; the same goes for an ACK of the server.                          *)
(***************************************************************************)
EXTENDS Integers, Sequences

CONSTANTS
    Peers,          \* attempts of TFTP clients
    NoPeer,         \* the socket is not connected
    Broken,         \* the peers whose image the boot loader would not accept
    NBlocks,        \* blocks of an image, the last one short
    Retransmits,    \* TFTP_TIMEOUT_RETRANSMITS (10 in the code)
    MailboxSize,    \* bound: datagrams the socket queues
    MaxStale        \* bound: what is in the slot when esp_ota_begin fails

ASSUME OtaAssumption == /\ NoPeer \notin Peers
                        /\ Broken \subseteq Peers
                        /\ NBlocks \in Nat \ {0}
                        /\ Retransmits \in Nat
                        /\ MailboxSize \in Nat \ {0}
                        /\ MaxStale \in Nat

VARIABLES
    sent,       \* the last block each peer has sent, 0: the WRQ, -1: nothing
    acked,      \* the last block the server has acknowledged to each peer, -1: none
    mailbox,    \* datagrams queued at the socket: <<peer, block>>, block 0: a WRQ
    peer,       \* whom the socket is connected to
    stage,      \* where tftp_task is
    block,      \* the block tftp_receive_data expects
    retries,    \* timeouts it will still answer
    handle,     \* update_handle is one of esp_ota_begin
    slots,      \* what each slot holds: blocks in the order they were written
    boot,       \* the configured boot slot
    running,    \* the slot that is running
    clean       \* history: the transfer began with no datagram of another peer queued
                \* and with a handle of its own

vars == <<sent, acked, mailbox, peer, stage, block, retries, handle, slots, boot,
          running, clean>>

netVars == <<sent, acked, mailbox>>
transferVars == <<block, retries, clean>>
flashVars == <<handle, slots, boot, running>>

Slots == {0, 1}

Image(p) == [i \in 1 .. NBlocks |-> <<p, i>>]

Factory == <<<<NoPeer, 1>>>>

\* What the boot loader accepts: one whole image (its checksum covers all of it).
Valid(content) == content = Factory \/ \E p \in Peers \ Broken : content = Image(p)

\* Mutant: the slot that is running is updated.
UpdateRunningMutant == running

\* esp_ota_get_next_update_partition(NULL)
UpdateSlot == 1 - running

Init == /\ sent = [p \in Peers |-> -1]
        /\ acked = [p \in Peers |-> -1]
        /\ mailbox = <<>>
        /\ peer = NoPeer
        /\ stage = "wait"
        /\ block = 1
        /\ retries = Retransmits
        /\ handle = FALSE
        /\ slots = [s \in Slots |-> IF s = 0 THEN Factory ELSE <<>>]
        /\ boot = 0
        /\ running = 0
        /\ clean = FALSE

(***************************************************************************)
(* The peers and the network.                                              *)
(***************************************************************************)
\* A peer sends its write request, or the block after an acknowledged one.
Send(p) == /\ sent[p] < NBlocks
           /\ sent[p] <= acked[p]
           /\ sent' = [sent EXCEPT ![p] = @ + 1]
           /\ UNCHANGED <<acked, mailbox, peer, stage, transferVars, flashVars>>

\* Something a peer has sent arrives.  A connected socket takes datagrams of its
\* peer only.
Arrive(p, b) == /\ b <= sent[p]
                /\ peer \in {p, NoPeer}
                /\ Len(mailbox) < MailboxSize
                /\ mailbox' = Append(mailbox, <<p, b>>)
                /\ UNCHANGED <<sent, acked, peer, stage, transferVars, flashVars>>

Ack(p, b) == acked' = [acked EXCEPT ![p] = IF b > @ THEN b ELSE @]

(***************************************************************************)
(* tftp_task: waiting for a write request.                                 *)
(***************************************************************************)
From == Head(mailbox)[1]
Block == Head(mailbox)[2]

\* Anything but a write request for firmware.bin in octet mode is dropped.
DropOther == /\ stage = "wait"
             /\ mailbox # <<>>
             /\ Block # 0
             /\ mailbox' = Tail(mailbox)
             /\ UNCHANGED <<sent, acked, peer, stage, transferVars, flashVars>>

\* The socket is connected to the sender and the request acknowledged.  What others
\* sent before that is still in the mailbox.
TakeWrq == /\ stage = "wait"
           /\ mailbox # <<>>
           /\ Block = 0
           /\ peer' = From
           /\ Ack(From, 0)
           /\ mailbox' = Tail(mailbox)
           /\ clean' = \A i \in 2 .. Len(mailbox) : mailbox[i][1] = From
           /\ stage' = "begin"
           /\ UNCHANGED <<sent, block, retries, flashVars>>

\* The datagram with the ACK cannot be sent.
AckFailed == /\ stage = "wait"
             /\ mailbox # <<>>
             /\ Block = 0
             /\ mailbox' = Tail(mailbox)
             /\ UNCHANGED <<sent, acked, peer, stage, transferVars, flashVars>>

\* ota_tftp_init: the slot is erased and gets a new handle.  If that fails, the
\* result is ignored, and update_handle is what it was.
Begin == /\ stage = "begin"
         /\ stage' = "data"
         /\ block' = 1
         /\ retries' = Retransmits
         /\ \/ /\ handle' = TRUE
               /\ slots' = [slots EXCEPT ![UpdateSlot] = <<>>]
               /\ UNCHANGED clean
            \/ /\ Len(slots[UpdateSlot]) <= MaxStale
               /\ clean' = FALSE
               /\ UNCHANGED <<handle, slots>>
         /\ UNCHANGED <<netVars, peer, boot, running>>

(***************************************************************************)
(* tftp_receive_data.                                                      *)
(***************************************************************************)
\* The transfer ends and the socket is disconnected.
End(s) == /\ stage' = s
          /\ peer' = NoPeer

\* Mutant: the timeouts are not counted.
TimeoutForeverMutant == /\ stage = "data"
                        /\ mailbox = <<>>
                        /\ IF retries > 0 /\ block > 1
                           THEN Ack(peer, block - 1) /\ UNCHANGED <<peer, stage>>
                           ELSE End("wait") /\ UNCHANGED acked
                        /\ UNCHANGED <<sent, mailbox, transferVars, flashVars>>

\* Ten seconds without a datagram: the last ACK is sent again, but not the one for
\* the write request.
Timeout == /\ stage = "data"
           /\ mailbox = <<>>
           /\ retries' = retries - 1
           /\ IF retries > 0 /\ block > 1
              THEN Ack(peer, block - 1) /\ UNCHANGED <<peer, stage>>
              ELSE End("wait") /\ UNCHANGED acked
           /\ UNCHANGED <<sent, mailbox, block, clean, flashVars>>

\* Another error of the socket.
RecvFailed == /\ stage = "data"
              /\ End("wait")
              /\ UNCHANGED <<netVars, transferVars, flashVars>>

\* A write request in the middle of a transfer, or a block that is neither the
\* expected one nor the one before it.
Unexpected == /\ stage = "data"
              /\ mailbox # <<>>
              /\ Block \notin {block} \cup ({block - 1} \ {0})
              /\ mailbox' = Tail(mailbox)
              /\ End("wait")
              /\ UNCHANGED <<sent, acked, transferVars, flashVars>>

\* Mutant: a block that comes twice is written twice.
DuplicateWrittenMutant ==
    /\ stage = "data"
    /\ mailbox # <<>>
    /\ Block = block - 1
    /\ Block # 0
    /\ mailbox' = Tail(mailbox)
    /\ slots' = [slots EXCEPT ![UpdateSlot] = Append(@, Head(mailbox))]
    /\ Len(slots[UpdateSlot]) <= NBlocks
    /\ Ack(peer, Block)
    /\ UNCHANGED <<sent, peer, stage, transferVars, handle, boot, running>>

\* The block before the expected one: its ACK got lost.
Duplicate == /\ stage = "data"
             /\ mailbox # <<>>
             /\ Block = block - 1
             /\ Block # 0
             /\ mailbox' = Tail(mailbox)
             /\ Ack(peer, Block)
             /\ UNCHANGED <<sent, peer, stage, transferVars, flashVars>>

\* Mutant: the transfer goes on after the short block.
DataPastEndMutant ==
    /\ stage = "data"
    /\ mailbox # <<>>
    /\ Block = block
    /\ handle
    /\ mailbox' = Tail(mailbox)
    /\ retries' = Retransmits
    /\ slots' = [slots EXCEPT ![UpdateSlot] = Append(@, Head(mailbox))]
    /\ Ack(peer, block)
    /\ block' = block + 1
    /\ UNCHANGED <<sent, peer, stage, clean, handle, boot, running>>

\* The expected block is written, acknowledged, and if it is short it is the last.
Data == /\ stage = "data"
        /\ mailbox # <<>>
        /\ Block = block
        /\ handle
        /\ mailbox' = Tail(mailbox)
        /\ retries' = Retransmits
        /\ slots' = [slots EXCEPT ![UpdateSlot] = Append(@, Head(mailbox))]
        /\ Ack(peer, block)
        /\ IF block = NBlocks
           THEN End("accept") /\ UNCHANGED block
           ELSE block' = block + 1 /\ UNCHANGED <<peer, stage>>
        /\ UNCHANGED <<sent, clean, handle, boot, running>>

\* esp_ota_write fails, and always does without a handle; or the block is written
\* and its ACK cannot be sent.
DataFailed == /\ stage = "data"
              /\ mailbox # <<>>
              /\ Block = block
              /\ mailbox' = Tail(mailbox)
              /\ retries' = Retransmits
              /\ \/ UNCHANGED slots
                 \/ handle /\ slots' = [slots EXCEPT ![UpdateSlot] = Append(@, Head(mailbox))]
              /\ End("wait")
              /\ UNCHANGED <<sent, acked, block, clean, handle, boot, running>>

(***************************************************************************)
(* After a transfer that ended well; and the device starts again.          *)
(***************************************************************************)
\* esp_ota_set_boot_partition checks the image (external).
SetBoot == /\ stage = "accept"
           /\ IF Valid(slots[UpdateSlot])
              THEN boot' = UpdateSlot /\ stage' = "restart"
              ELSE stage' = "wait" /\ UNCHANGED boot
           /\ UNCHANGED <<netVars, peer, transferVars, handle, slots, running>>

\* Nothing but the flash survives esp_restart() or a loss of power.
Restart == /\ running' = boot
           /\ End("wait")
           /\ mailbox' = <<>>
           /\ handle' = FALSE
           /\ block' = 1
           /\ retries' = Retransmits
           /\ clean' = FALSE
           /\ UNCHANGED <<sent, acked, slots, boot>>

\* The steps the server takes without an error of its socket to help it.
Serve == \/ DropOther \/ TakeWrq \/ AckFailed \/ Begin
         \/ Timeout \/ Unexpected \/ Duplicate \/ Data \/ DataFailed
         \/ SetBoot \/ (stage = "restart" /\ Restart)

ArriveAny == \E p \in Peers, b \in 0 .. NBlocks : Arrive(p, b)

Next == \/ Serve
        \/ RecvFailed
        \/ ArriveAny
        \/ \E p \in Peers : Send(p)
        \/ Restart

Spec == Init /\ [][Next]_vars

\* The server's task is scheduled, its receive has a timeout, and flash operations
\* return.  Nothing is assumed of the peers, the network and the power, and the
\* server cannot count on an error to end a transfer.
FairSpec == Spec /\ WF_vars(Serve)

(***************************************************************************)
(* The properties.                                                         *)
(***************************************************************************)
Blocks == (Peers \cup {NoPeer}) \X (1 .. NBlocks)

\* Every variable has its type.
TypeOK == /\ sent \in [Peers -> -1 .. NBlocks]
          /\ acked \in [Peers -> -1 .. NBlocks]
          /\ mailbox \in Seq(Peers \X (0 .. NBlocks))
          /\ Len(mailbox) <= MailboxSize
          /\ peer \in Peers \cup {NoPeer}
          /\ stage \in {"wait", "begin", "data", "accept", "restart"}
          /\ block \in 1 .. NBlocks
          /\ retries \in -1 .. Retransmits
          /\ handle \in BOOLEAN
          /\ slots \in [Slots -> Seq(Blocks)]
          /\ boot \in Slots
          /\ running \in Slots
          /\ clean \in BOOLEAN

\* Whenever the device loses its power, the slot it boots from holds a whole image
\* that the boot loader accepts.
Bootable == Valid(slots[boot])

\* During a transfer the slot holds the blocks of the peer up to the expected one,
\* each once and in order, and the whole image at its end, whatever the network did
\* with blocks and ACKs.
SlotIsPrefix ==
    clean => /\ stage = "data" => slots[UpdateSlot] = SubSeq(Image(peer), 1, block - 1)
             /\ stage = "accept" => \E p \in Peers : slots[UpdateSlot] = Image(p)

\* A peer that falls silent does not keep the server from the next one: if nothing
\* arrives any more, the transfer ends.
SilenceEnds == <>[][~ArriveAny]_vars => []<>(stage = "wait")

\* ota-tftp.c, above the last ACK: "verify the image before we ACK it so the client
\* gets an indication if things were successful".  The last block is acknowledged
\* only if the image is one to boot from.
AckedImageIsValid ==
    \A p \in Peers : stage = "accept" /\ acked[p] = NBlocks => Valid(slots[UpdateSlot])

(***************************************************************************)
(* The two slots implement an update that happens at once.                 *)
(***************************************************************************)
F == INSTANCE FirmwareUpdate WITH Images <- {Image(p) : p \in Peers \ Broken},
                                  installed <- slots[boot], program <- slots[running]

\* No block, no error and no loss of power changes what the device would boot, or
\* what it runs from, except that a whole image the boot loader accepts takes the place
\* of the one before it in one step.
ImplementsFirmwareUpdate == F!Spec
=============================================================================

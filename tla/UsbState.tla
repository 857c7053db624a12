------------------------------ MODULE UsbState ------------------------------
(***************************************************************************)
(* What a UsbSender keeps, and what must hold of it at any time.  The      *)
(* steps are those of UsbSender.                                           *)
(***************************************************************************)
EXTENDS BatchingSender

CONSTANTS
    Gap,              \* between two calls of processSendQueue()
    HostSpace,        \* the host interface's buffer, when it is empty
    BATCH_N_PACKETS,
    BATCH_X_BYTES,
    BATCH_T_MS_BULK,
    USB_BLOCKED_TIMEOUT_MS,
    MAX_BACKOFF       \* the 5000 us of applyBackoff()

ASSUME UsbAssumption ==
    /\ MaxPacketSize <= HostSpace
    /\ {Gap, HostSpace, BATCH_N_PACKETS, BATCH_X_BYTES, BATCH_T_MS_BULK,
        USB_BLOCKED_TIMEOUT_MS, MAX_BACKOFF} \subseteq Nat \ {0}

VARIABLES
    detects,          \* not a MiniKit: the block detection is compiled in
    usbBlocked,
    lastAvailable,    \* lastAvailableForWrite
    unchanged,        \* now - availableNotChangedSince
    backoffDelay, sinceAttempt,
    window,           \* now - batchWindowStart
    batch,            \* of this call: the packets in batchBuffer and where each ends
    packets,          \* of this call: batchPackets, or what is left to commit
    used,             \* bytes in the host interface's buffer
    torn              \* ghost: part of a batch with a hole was written

(* wire has the numbers of the packets that were written in whole. *)

-----------------------------------------------------------------------------
(* Type correctness; above all the host's buffer is never written beyond its *)
(* room, though the room, the sizes and the packets are read at different    *)
(* times (sendSinglePacket(), the batch of bulk mode).                       *)
UsbTypeOK ==
    /\ packetQueue \in Seq(Packet) /\ Len(packetQueue) <= MaxQueuePackets
    /\ currentQueueBytes \in 0 .. SizeMod - 1
    /\ {totalSent, totalDropped, maxQueueDepth, accepted, streamEnd, item, offered} \subseteq Nat
    /\ live \subseteq Nat /\ {detects, usbBlocked, bulk, lastBulkMode} \subseteq BOOLEAN
    /\ lastAvailable \in 0 .. HostSpace /\ used \in 0 .. HostSpace
    /\ unchanged \in 0 .. USB_BLOCKED_TIMEOUT_MS + 1 \cup {Unset}
    /\ window \in 0 .. BATCH_T_MS_BULK \cup {Unset}
    /\ {backoffDelay, sinceAttempt} \subseteq 0 .. MAX_BACKOFF
    /\ senderPc \in {"idle", "clear", "clear pop", "clear end", "front", "fit", "write",
                     "plan", "flush", "copy", "send", "commit", "free", "pop"}
    /\ batch \in Seq([id : Nat, upto : Nat])
    /\ packets \in 0 .. BATCH_N_PACKETS /\ wire \in Seq(Nat) /\ torn \in BOOLEAN

(* Packets leave in the order they were accepted and none is sent twice, in  *)
(* whatever mixture of single packets and batches, although an enqueue() can *)
(* evict the packet in hand, shift the ones a batch was planned with, or     *)
(* fall into clearAllQueues() (usb_sender.h:67-77, :216-245).  Of whole      *)
(* packets only: a batch that was shifted may be cut inside a packet.  And   *)
(* not once a part of a batch with a hole was written (SendPart): the packets*)
(* counted and the packets written are then others, and one is sent again.   *)
UsbInOrder == torn \/ \A i, j \in 1 .. Len(wire) : i < j => wire[i] < wire[j]
=============================================================================

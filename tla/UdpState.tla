------------------------------ MODULE UdpState ------------------------------
(***************************************************************************)
(* What a UdpSender keeps, and what must hold of it at any time.  The      *)
(* steps are those of UdpSender.                                           *)
(***************************************************************************)
EXTENDS BatchingSender

CONSTANTS
    Gaps,              \* time between two calls of processSendQueue()
    Periods,           \* of the SBUS source: time between two frames
    Rates,             \* device4_config.udpSendRate
    FrameSize,         \* an SBUS frame in its output format
    MTU_SIZE,
    BATCH_PACKETS,     \* ATOMIC_BATCH_PACKETS_*, a function of bulkMode
    BATCH_BYTES,       \* ATOMIC_BATCH_BYTES_*
    BATCH_TIMEOUT,     \* ATOMIC_BATCH_TIMEOUT_MS_*
    RAW_TIMEOUT,       \* RAW_BATCH_TIMEOUT_MS
    SBUS_FRAMES,       \* SBUS_BATCH_FRAMES
    SBUS_STALE         \* SBUS_BATCH_STALE_MS

ASSUME UdpAssumption ==
    /\ MaxPacketSize <= MTU_SIZE
    /\ Gaps \subseteq Nat \ {0} /\ Periods \subseteq Nat \ {0}
    /\ Rates \subseteq 1 .. 1000 /\ FrameSize \in 1 .. MTU_SIZE
    /\ {MTU_SIZE, RAW_TIMEOUT, SBUS_FRAMES, SBUS_STALE} \subseteq Nat \ {0}
    /\ \A f \in {BATCH_PACKETS, BATCH_BYTES, BATCH_TIMEOUT} : f \in [BOOLEAN -> Nat \ {0}]

VARIABLES
    role,          \* "queue" or "sbus"
    batching,      \* enableAtomicBatching
    ready,         \* wifiIsReady()
    wholes,        \* ghost: the packets with hints.keepWhole
    itemWhole,     \* item->packet.hints.keepWhole
    clearing,      \* processSendQueue() found WiFi not ready
    atomicBatch,   \* ghost: the packets in atomicBatchBuffer
    atomicBatchSize, atomicBatchPackets,
    atomicAge,     \* now - atomicBatchStartMs
    rawBatch,      \* ghost: the packets in rawBatchBuffer
    rawBatchSize,
    rawAge,        \* now - lastBatchTime
    period, rate,
    sinceSend,     \* now - lastSendMs
    spanSent       \* ghost: the age of the last SBUS batch that was sent

(* wire has the numbers of the packets of the datagrams handed to AsyncUDP. *)

-----------------------------------------------------------------------------
(* Type correctness; above all neither batch outgrows its buffer of         *)
(* MTU_SIZE bytes, although the packet's size is read again after the room  *)
(* was checked and the packet may be evicted between (udp_sender.h:131-138).*)
UdpTypeOK ==
    /\ packetQueue \in Seq(Packet) /\ currentQueueBytes \in 0 .. SizeMod - 1
    /\ {totalSent, totalDropped, maxQueueDepth, accepted, streamEnd, item, offered} \subseteq Nat
    /\ live \subseteq Nat /\ wholes \subseteq Nat
    /\ role \in {"queue", "sbus"} /\ period \in Periods /\ rate \in Rates
    /\ {batching, ready, itemWhole, clearing, bulk, lastBulkMode} \subseteq BOOLEAN
    /\ senderPc \in {"idle", "next", "fit", "add", "free", "pop"}
    /\ atomicBatch \in Seq(Nat) /\ rawBatch \in Seq(Nat) /\ wire \in Seq(Nat)
    /\ atomicBatchSize \in 0 .. MTU_SIZE /\ rawBatchSize \in 0 .. MTU_SIZE
    /\ atomicBatchPackets \in Nat /\ {atomicAge, rawAge} \subseteq Nat \cup {Unset}
    /\ sinceSend \in Nat /\ spanSent \in Nat

(* The packets of a kind leave in the order they came, each at most once:   *)
(* over batches, their timeouts, changes of the mode, evictions of the      *)
(* packet in hand and losses of WiFi.                                       *)
InOrder(sent, batch, kind) ==
    /\ \A i, j \in 1 .. Len(sent) :
          i < j /\ sent[i] \in kind /\ sent[j] \in kind => sent[i] < sent[j]
    /\ \A i \in 1 .. Len(batch) :
          /\ batch[i] \in kind
          /\ \A j \in 1 .. Len(batch) : i < j => batch[i] < batch[j]
          /\ \A j \in 1 .. Len(sent) : sent[j] \in kind => sent[j] < batch[i]
KindInOrder == /\ InOrder(wire, atomicBatch, wholes)
               /\ InOrder(wire, rawBatch, Nat \ wholes)

(* No frame goes out with one that is SBUS_STALE older (CHANGELOG.md:616:   *)
(* "Stale Protection"), whatever the source's period, the rate and WiFi do. *)
FreshFrames == spanSent < SBUS_STALE
=============================================================================

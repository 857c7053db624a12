--------------------------- MODULE UnlockedSender ---------------------------
(***************************************************************************)
(* What the UART, UDP and USB senders have in common: the queue of         *)
(* PacketSender with no lock around it.  uartBridgeTask calls enqueue(),   *)
(* which preempts senderTask at any point of its processSendQueue().       *)
(***************************************************************************)
EXTENDS PacketSender

CONSTANTS
    OfferedSizes,     \* sizes of the packets routed to the sender
    MaxOffers         \* model bound: packets offered in one behaviour

ASSUME OfferAssumption ==
    OfferedSizes \subseteq 1 .. MaxPacketSize /\ MaxOffers \in Nat

VARIABLES
    senderPc,         \* where processSendQueue() is
    item,             \* of this call: the number of the packet that item points to
    offered,          \* ghost: packets offered
    wire              \* ghost: what was written
=============================================================================

--------------------------- MODULE PacketChannel ---------------------------
(***************************************************************************)
(* What every packet sender of the bridge promises its callers             *)
(* (protocols/packet_sender.h): a lossy FIFO channel.  Packets leave in    *)
(* the order in which they were accepted, each at most once, and the only  *)
(* packet the channel may discard is the oldest one it still holds.        *)
(*                                                                         *)
(* A packet is identified by its acceptance number, so the order of        *)
(* acceptance is the order of the natural numbers.                         *)
(***************************************************************************)
EXTENDS Naturals, Sequences

VARIABLES
    accepted,   \* number of packets accepted so far
    held,       \* packets accepted and neither delivered nor displaced
    delivered   \* packets handed to the link, in the order of the hand-over

chanVars == <<accepted, held, delivered>>

ChanInit ==
    /\ accepted = 0
    /\ held = <<>>
    /\ delivered = <<>>

(* enqueue() took a private copy of a new packet. *)
Accept ==
    /\ accepted' = accepted + 1
    /\ held' = Append(held, accepted + 1)
    /\ UNCHANGED delivered

(* The oldest packet was given up to make room. *)
Displace ==
    /\ held # <<>>
    /\ held' = Tail(held)
    /\ UNCHANGED <<accepted, delivered>>

(* The oldest packet went to the link. *)
Deliver ==
    /\ held # <<>>
    /\ held' = Tail(held)
    /\ delivered' = Append(delivered, Head(held))
    /\ UNCHANGED accepted

ChanNext == Accept \/ Displace \/ Deliver

ChanSpec == ChanInit /\ [][ChanNext]_chanVars
=============================================================================

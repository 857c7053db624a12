----------------------------- MODULE UsbSender -----------------------------
(***************************************************************************)
(* UsbSender (Device 2): the unlocked queue of UartSender, emptied a whole *)
(* packet at a time, or a whole batch in bulk mode, and given up when the  *)
(* host seems to have closed the port.                                     *)
(*                                                                         *)
(* uartBridgeTask preempts senderTask, so enqueue() is one step and        *)
(* processSendQueue() has a step between any two of its accesses that an   *)
(* enqueue() in between can tell apart.  The host's buffer is the one that *)
(* availableForWrite() asks about; the host takes bytes from it whenever   *)
(* it likes.  Times are in ms.  sendDirect(), the text and SBUS output, is *)
(* left out: it does not touch the queue.                                  *)
(***************************************************************************)
EXTENDS UsbState

detection == <<usbBlocked, lastAvailable, unchanged>>
backoff == <<backoffDelay, sinceAttempt>>
call == <<bulk, item, batch, packets>>
Returns == UNCHANGED bulk /\ item' = 0 /\ batch' = <<>> /\ packets' = 0
modes == <<window, lastBulkMode>>
output == <<wire, torn>>
vars == <<queueVars, detects, detection, backoff, modes, senderPc, call, used, offered, output>>

Init ==
    /\ QueueInit /\ detects \in BOOLEAN
    /\ usbBlocked = FALSE /\ lastAvailable = 0 /\ unchanged = Unset
    /\ backoffDelay = 0 /\ sinceAttempt = 0 /\ window = Unset /\ lastBulkMode = FALSE
    /\ senderPc = "idle" /\ bulk = FALSE /\ item = 0 /\ batch = <<>> /\ packets = 0
    /\ used = 0 /\ offered = 0 /\ wire = <<>> /\ torn = FALSE

Available == HostSpace - used
isReady == Available > 0

(* The host takes bytes.  A MiniKit's UART always does. *)
HostTakes == /\ used > 0 /\ used' \in 0 .. used - 1
             /\ UNCHANGED <<queueVars, detects, detection, backoff, modes, senderPc, call,
                            offered, output>>

-----------------------------------------------------------------------------
(* The bridge task: enqueue().                                              *)

Evicted == live \ {Head(packetQueue).id}

Enqueue(size) ==
    /\ offered < MaxOffers /\ offered' = offered + 1
    /\ \/ /\ usbBlocked /\ packetQueue # <<>>   \* there is a test packet already
          /\ UNCHANGED <<packetQueue, currentQueueBytes, totalDropped, maxQueueDepth,
                         accepted, streamEnd, live>>
       \/ /\ ~usbBlocked \/ packetQueue = <<>>
          /\ WillAccept(size)
          /\ Push(packetQueue, currentQueueBytes, live, size)
          /\ UNCHANGED totalDropped
       \/ /\ ~usbBlocked /\ packetQueue # <<>> /\ ~WillAccept(size)
          /\ Push(Tail(packetQueue), BytesWithoutFront, Evicted, size)
          /\ totalDropped' = totalDropped + 1
       \/ /\ packetQueue = <<>> /\ ~WillAccept(size)
          /\ totalDropped' = totalDropped + 1
          /\ UNCHANGED <<packetQueue, currentQueueBytes, maxQueueDepth, accepted,
                         streamEnd, live>>
    /\ UNCHANGED <<totalSent, detects, detection, backoff, modes, senderPc, call, used, output>>

-----------------------------------------------------------------------------
(* The sender task: processSendQueue().                                     *)

SenderGoes(from, to) == senderPc = from /\ senderPc' = to
QueueRest == <<totalDropped, maxQueueDepth, accepted, streamEnd>>
Constant == <<detects, offered>>
Later(age, limit) == IF age = Unset THEN Unset
                     ELSE IF age + Gap < limit THEN age + Gap ELSE limit

(* The times as this call sees them. *)
UnchangedNow == Later(unchanged, USB_BLOCKED_TIMEOUT_MS + 1)
WindowNow == Later(window, BATCH_T_MS_BULK)
AttemptNow == IF backoffDelay = 0 THEN 0 ELSE Later(sinceAttempt, MAX_BACKOFF)
InBackoff(since) == backoffDelay > 0 /\ since < backoffDelay

Looks == detects /\ ~bulk /\ packetQueue # <<>>
Same == Available = lastAvailable
TimedOut == UnchangedNow # Unset /\ UnchangedNow > USB_BLOCKED_TIMEOUT_MS

(* Mutant: a port that is blocked is not looked at. *)
DetectUnlessBlocked ==
    IF Looks /\ ~usbBlocked
    THEN /\ usbBlocked' = (Same /\ TimedOut)
         /\ unchanged' = IF ~Same THEN Unset
                         ELSE IF unchanged = Unset THEN 0 ELSE UnchangedNow
         /\ lastAvailable' = Available
    ELSE unchanged' = Unset /\ UNCHANGED <<usbBlocked, lastAvailable>>

(* The block detection: the same room at every look for too long. *)
Detect ==
    IF Looks
    THEN /\ usbBlocked' = (Same /\ (usbBlocked \/ TimedOut))
         /\ unchanged' = IF ~Same THEN Unset
                         ELSE IF unchanged = Unset THEN 0 ELSE UnchangedNow
         /\ lastAvailable' = Available
    ELSE unchanged' = Unset /\ UNCHANGED <<usbBlocked, lastAvailable>>

(* The mode that processSenders() passes to the calls. *)
ModeChanges == /\ senderPc = "idle" /\ bulk' = ~bulk
               /\ UNCHANGED <<queueVars, detects, detection, backoff, modes, senderPc, item,
                              batch, packets, used, offered, output>>

SenderCall ==
    /\ senderPc = "idle"
    /\ Detect
    /\ sinceAttempt' = AttemptNow
    /\ IF usbBlocked' \/ InBackoff(AttemptNow)
       THEN window' = WindowNow /\ UNCHANGED lastBulkMode
       ELSE /\ lastBulkMode' = bulk
            /\ window' = IF lastBulkMode /\ ~bulk /\ window # Unset
                         THEN BATCH_T_MS_BULK ELSE WindowNow
    /\ senderPc' = CASE usbBlocked' /\ ~usbBlocked -> "clear"
                     [] usbBlocked' /\ usbBlocked -> "idle"
                     [] OTHER -> IF InBackoff(AttemptNow) THEN "idle"
                                 ELSE IF bulk THEN "plan" ELSE "front"
    /\ UNCHANGED <<queueVars, backoffDelay, call, used, output, Constant>>

(* clearAllQueues(): free() and pop_front() of the front until there is none, *)
(* and then the counter.                                                      *)
ClearFree ==
    /\ SenderGoes("clear", "clear pop") /\ packetQueue # <<>>
    /\ packetQueue' = [packetQueue EXCEPT ![1].data = NULL, ![1].size = 0]
    /\ live' = live \ {Head(packetQueue).data}
    /\ UNCHANGED <<currentQueueBytes, totalSent, QueueRest, detection, backoff, modes, call,
                   used, output, Constant>>

ClearPop ==
    /\ SenderGoes("clear pop", "clear")
    /\ packetQueue' = Tail(packetQueue)
    /\ UNCHANGED <<currentQueueBytes, totalSent, live, QueueRest, detection, backoff, modes,
                   call, used, output, Constant>>

ClearTest ==
    /\ SenderGoes("clear", "clear end") /\ packetQueue = <<>>
    /\ UNCHANGED <<queueVars, detection, backoff, modes, call, used, output, Constant>>

ClearEnd ==
    /\ SenderGoes("clear end", "idle")
    /\ currentQueueBytes' = 0 /\ window' = Unset
    /\ UNCHANGED <<packetQueue, totalSent, live, QueueRest, detection, backoff, lastBulkMode,
                   call, used, output, Constant>>

Quiet == <<queueVars, detection, backoff, modes, used, output, Constant>>

(* sendSinglePacket() *)
SingleFront ==
    /\ senderPc = "front"
    /\ IF packetQueue # <<>> /\ isReady
       THEN senderPc' = "fit" /\ item' = Head(packetQueue).id /\ UNCHANGED <<bulk, batch, packets>>
       ELSE senderPc' = "idle" /\ Returns
    /\ UNCHANGED Quiet

(* The bytes of b are the bytes up to the end of its last packet. *)
Bytes(b) == IF b = <<>> THEN 0 ELSE b[Len(b)].upto

(* What *item holds: the slot of an evicted packet was freed. *)
Content == IF Head(packetQueue).id = item
           THEN <<[id |-> item, upto |-> Head(packetQueue).size]>> ELSE <<>>

(* Mutant: the room is not looked at. *)
FitsBlindly(n) == TRUE
Fits(n) == n <= Available

SingleFit ==
    /\ senderPc = "fit"
    /\ IF Fits(Bytes(Content)) THEN senderPc' = "write" /\ UNCHANGED call
                               ELSE senderPc' = "idle" /\ Returns
    /\ UNCHANGED Quiet

ResetBackoff == backoffDelay' = 0 /\ sinceAttempt' = 0
ApplyBackoff == /\ backoffDelay' = IF backoffDelay = 0 THEN 1
                                   ELSE IF 2 * backoffDelay < MAX_BACKOFF
                                        THEN 2 * backoffDelay ELSE MAX_BACKOFF
                /\ sinceAttempt' = 0

(* write() of the first n bytes of b, which the interface takes: the k packets *)
(* that end within them are out in whole.                                      *)
Ids(b, k) == [i \in 1 .. k |-> b[i].id]
Taken(b, n) ==
    /\ n > 0 /\ used' = used + n
    /\ \E k \in 0 .. Len(b) :
          /\ \A i \in 1 .. Len(b) : b[i].upto <= n <=> i <= k
          /\ wire' = wire \o Ids(b, k)

SingleWrite ==
    /\ senderPc = "write"
    /\ \/ /\ Taken(Content, Bytes(Content))
          /\ ResetBackoff /\ senderPc' = "commit"
          /\ packets' = 1 /\ UNCHANGED <<bulk, item, batch, torn>>
       \/ /\ detects \/ Content = <<>>          \* a closed port, or nothing to write
          /\ ApplyBackoff
          /\ senderPc' = "idle" /\ Returns /\ UNCHANGED <<used, output>>
    /\ UNCHANGED <<queueVars, detection, modes, Constant>>

(* commitPackets(): whatever is at the front is what was sent. *)
CommitCount ==
    /\ senderPc = "commit" /\ packets > 0 /\ packetQueue # <<>>
    /\ senderPc' = "free"
    /\ totalSent' = totalSent + 1
    /\ currentQueueBytes' = SizeSub(currentQueueBytes, Head(packetQueue).size)
    /\ UNCHANGED <<packetQueue, live, QueueRest, detection, backoff, modes, call, used, output,
                   Constant>>

CommitFree ==
    /\ SenderGoes("free", "pop")
    /\ packetQueue' = [packetQueue EXCEPT ![1].data = NULL, ![1].size = 0]
    /\ live' = live \ {Head(packetQueue).data}
    /\ UNCHANGED <<currentQueueBytes, totalSent, QueueRest, detection, backoff, modes, call,
                   used, output, Constant>>

CommitPop ==
    /\ SenderGoes("pop", "commit")
    /\ packetQueue' = Tail(packetQueue) /\ packets' = packets - 1
    /\ UNCHANGED <<currentQueueBytes, totalSent, live, QueueRest, detection, backoff, modes,
                   bulk, item, batch, used, output, Constant>>

(* Mutant: off by one. *)
CommitEndEarly ==
    /\ SenderGoes("commit", "idle")
    /\ packets <= 1 \/ packetQueue = <<>>
    /\ window' = IF bulk THEN Unset ELSE window
    /\ Returns
    /\ UNCHANGED <<queueVars, detection, backoff, lastBulkMode, used, output, Constant>>

CommitEnd ==
    /\ SenderGoes("commit", "idle")
    /\ packets = 0 \/ packetQueue = <<>>
    /\ window' = IF bulk THEN Unset ELSE window
    /\ Returns
    /\ UNCHANGED <<queueVars, detection, backoff, lastBulkMode, used, output, Constant>>

(* Bulk mode: how many packets, and whether to wait for more.  The sizes of *)
(* the first n packets add up to the distance from the start of the first    *)
(* to the end of the n-th in the stream of all that was accepted.            *)
Prefix(n) == IF n = 0 THEN 0
             ELSE (packetQueue[n].start + packetQueue[n].size) - packetQueue[1].start
EnoughIn(n) == n >= BATCH_N_PACKETS \/ Prefix(n) >= BATCH_X_BYTES
Planned(n) == /\ EnoughIn(n) \/ n = Len(packetQueue)
              /\ \A k \in 1 .. n - 1 : ~EnoughIn(k)

Plan ==
    /\ senderPc = "plan"
    /\ \/ /\ packetQueue = <<>> \/ ~isReady
          /\ senderPc' = "idle" /\ window' = Unset /\ Returns
       \/ /\ packetQueue # <<>> /\ isReady
          /\ \E n \in 1 .. Len(packetQueue) :
                /\ Planned(n) /\ packets' = n
                /\ senderPc' = IF EnoughIn(n) THEN "copy" ELSE "flush"
          /\ window' = IF window = Unset THEN 0 ELSE window
          /\ UNCHANGED <<bulk, item, batch>>
    /\ UNCHANGED <<queueVars, detection, backoff, lastBulkMode, used, output, Constant>>

Flush ==
    /\ senderPc = "flush"
    /\ IF window >= BATCH_T_MS_BULK \/ packets = Len(packetQueue)
       THEN senderPc' = "copy" /\ UNCHANGED call
       ELSE senderPc' = "idle" /\ Returns
    /\ UNCHANGED Quiet

(* The packets are found again by their place in the queue. *)
CopyNext ==
    /\ senderPc = "copy" /\ Len(batch) < packets
    /\ senderPc' = IF Len(batch) + 1 = packets THEN "send" ELSE "copy"
    /\ LET p == packetQueue[Len(batch) + 1] IN
       batch' = Append(batch, [id |-> p.id, upto |-> Bytes(batch) + p.size])
    /\ UNCHANGED <<bulk, item, packets, Quiet>>

(* How many packets of the queue, as it is now, the interface has room for. *)
Room(n) == /\ Fits(Prefix(n))
           /\ n < packets => ~Fits(Prefix(n + 1))

SendBatch ==
    /\ senderPc = "send" /\ Fits(Bytes(batch))
    /\ \/ /\ Taken(batch, Bytes(batch)) /\ ResetBackoff
          /\ senderPc' = "commit" /\ UNCHANGED <<call, torn>>
       \/ /\ detects /\ ApplyBackoff
          /\ senderPc' = "idle" /\ Returns /\ UNCHANGED <<used, output>>
    /\ UNCHANGED <<queueVars, detection, modes, Constant>>

(* An eviction between two copies leaves out the packet at their seam. *)
Hole(b) == \E i \in 1 .. Len(b) - 1 : b[i + 1].id # b[i].id + 1

(* Too much: wait, and after the window send what fits.  What fits is       *)
(* counted over the queue as it is now and written from the batch as it was *)
(* copied.                                                                  *)
SendPart ==
    /\ senderPc = "send" /\ ~Fits(Bytes(batch))
    /\ \/ /\ window >= BATCH_T_MS_BULK
          /\ \E n \in 1 .. packets :
                /\ Room(n) /\ Taken(batch, Prefix(n)) /\ packets' = n
          /\ torn' = (torn \/ Hole(batch))
          /\ ResetBackoff
          /\ senderPc' = "commit" /\ UNCHANGED <<bulk, item, batch, window>>
       \/ /\ window < BATCH_T_MS_BULK \/ Room(0) \/ detects
          /\ window' = IF window < BATCH_T_MS_BULK THEN window ELSE Unset
          /\ senderPc' = "idle" /\ Returns
          /\ UNCHANGED <<backoff, used, output>>
    /\ UNCHANGED <<queueVars, detection, lastBulkMode, Constant>>

-----------------------------------------------------------------------------
Bridge == \E size \in OfferedSizes : Enqueue(size)
Sender == \/ SenderCall
          \/ ClearFree \/ ClearPop \/ ClearTest \/ ClearEnd
          \/ SingleFront \/ SingleFit \/ SingleWrite
          \/ Plan \/ Flush \/ CopyNext \/ SendBatch \/ SendPart
          \/ CommitCount \/ CommitFree \/ CommitPop \/ CommitEnd

Next == Bridge \/ Sender \/ ModeChanges \/ HostTakes
Spec == Init /\ [][Next]_vars

(* The sender task is scheduled for ever; a MiniKit's UART sends what it has. *)
(* Of a USB host nothing is assumed.                                          *)
FairSpec == Spec /\ WF_vars(Sender) /\ WF_vars(~detects /\ HostTakes)

-----------------------------------------------------------------------------
(* No packet stays for ever, whatever the host does: it is sent, evicted, or *)
(* given up with the port, unless bulk mode postpones that.  As the packets  *)
(* offered are bounded, none stays if the queue is emptied again and again.  *)
NothingStays == []<>(packetQueue = <<>> \/ usbBlocked \/ bulk)

(* "Keep 1 test packet for automatic unblock detection" (CHANGELOG.md:1517): *)
(* once the host took something of what it was given before the port was     *)
(* declared blocked, a packet queued after that brings the port back.        *)
HostIsBack == /\ usbBlocked /\ senderPc = "idle"
              /\ Available > lastAvailable /\ packetQueue # <<>>
Recovers == HostIsBack ~> (~usbBlocked \/ bulk)

(* A host that goes away does not hold on to the packets, and one that comes *)
(* back does not stay shut out.                                              *)
HostComesAndGoes == NothingStays /\ Recovers
=============================================================================

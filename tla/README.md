# Verification of the ESP32 UART bridge

TLA+ models of the firmware under `src/src`, model-checked with TLC and, where
noted, proved with TLAPS for every value of the constants.

## 1. The system

The device forwards packets between serial ports, USB, WiFi and Bluetooth.

| Part | State it keeps | Operations | Interacts with |
|---|---|---|---|
| Protocol pipeline (`protocols/protocol_pipeline.cpp`) | flows (parser, router, input buffer, sender mask), senders | `processInputFlows`, `processTelemetryFlow`, `distributePackets`, `processSenders` | parsers, routers, senders; run by both tasks |
| Packet senders (`protocols/packet_sender.h` and one subclass per output) | `packetQueue`, `currentQueueBytes`, counters; per class: backoff, batches, block detection | `enqueue`, `processSendQueue`, `sendDirect` | pipeline (bridge task), sender task, links |
| Packet memory pool (`packet_memory_pool.h`) | four arrays of blocks with a mutex each | `allocate`, `deallocate`, `duplicate`, `free` | senders, parsers |
| Circular buffer (`circular_buffer.h`) | ring, head, tail, drop statistics | `write`, `getReadSegments`, `getContiguousForParser`, `consume` | drivers and network callbacks write, the bridge task reads |
| UART1 transmit service (`uart/uart1_tx_service.cpp`) | one ring | `enqueue`, `processTxQueue` | UART1 sender, bridge task |
| SBUS router (`protocols/sbus_router.cpp`) | per source: quality, flags, last frame; active source, mode, failsafe state | `routeFrame`, `tick`, manual switch | parsers, SBUS outputs |
| MAVLink router (`protocols/mavlink_router.cpp`) | address book with time stamps | `process`, cleanup | pipeline |
| Parsers (`protocols/*_parser.h`) | position in the frame, statistics | `parse`, `tryFastProcess` | circular buffers |
| WiFi manager (`wifi/wifi_manager.cpp`) | client state, retry counters, current network, timers | event handler, scan, connect, start, stop | ESP-IDF events, main loop |
| Bluetooth links (`bluetooth/`) | connection handle, receive buffer | connect, disconnect, receive, write | Bluetooth stack, senders, circular buffer |
| UART driver (`uart/uart_dma.cpp`) | receive ring, driver handle | event task, `readBytes`, `write` | bridge task, sender task |
| Boot (`main.cpp`, `quick_reset.cpp`) | power-cycle counter and one-shot flags in NVS, mode | mode detection, button, task creation | everything |
| Configuration, web interface, logging, crash log, LEDs, diagnostics | files, rings, counters | load/save, HTTP, reports | main loop |

Two FreeRTOS tasks, pinned to the same core, carry the data.
`uartBridgeTask` (higher priority, every millisecond) reads the inputs, parses,
routes and calls `enqueue()` of each destination's sender. `senderTask` (lower
priority, every 4 ms) calls `processSendQueue()` of every sender. Everything
hard in the data path comes from here: the queues of the senders are shared,
only the Bluetooth senders lock them, and the links come, go, fill up and fail.

What makes each part correct:

* senders: packets leave in order and at most once, nothing is lost uncounted,
  the byte counter is exact, memory is neither leaked nor freed twice, limits
  hold, a queue drains while its link works;
* pool and buffers: a block has one owner, bytes come out as they went in,
  a writer that evicts does not disturb a reader;
* routers: a packet does not go back where it came from, ageing entries are
  forgotten, a failed source loses control and the failsafe is seen;
* WiFi and boot: every failure is retried as configured, a good password is not
  declared wrong, the modes exclude each other, quick power cycles are counted.

## 2. Modules

| Module | Models |
|---|---|
| `PacketChannel` | abstract specification: a lossy FIFO channel that only ever gives up its oldest packet |
| `PacketSender` | the state and operations all senders inherit, and packet ownership |
| `BluetoothSender` | the SPP and BLE senders: bridge task, sender task, mutex, link; refines `PacketChannel` |
| `UnlockedSender`, `BatchingSender` | the state that the UART, UDP and USB senders, and the latter two, have in common |
| `UartSender` | the UART2 and UART3 senders: the same queue without a lock, at the granularity of single loads and stores |
| `UsbState`, `UsbSender` | the USB sender (state with its invariants, steps): the same queue, sent by whole packets or in planned batches, and given up when the host seems gone |
| `UdpState`, `UdpSender` | the UDP sender (state with its invariants, steps): two batches with their limits and timeouts, and the SBUS output with its rate limiter |
| `SbusRouter` | source quality, selection, failsafe state, the Timing Keeper and the web handlers that force a source |
| `MavlinkRouter` | the ageing address book, the choice of a destination and what the pipeline makes of it |
| `CircularBuffer` | the ring: indices, free space, segments, copy, commit, consume |
| `Uart1Tx` | the UART1 transmit service on top of that ring |
| `WifiClient` | scans, attempts, retries, several networks, timeouts, driver resets and the switching off of the WiFi client |
| `BridgeSetup` | how one boot turns the device roles into a mode, interfaces, tasks, buffers, flows, senders and SBUS outputs |
| `MavlinkBridge` | composes the two: a device boots, its flows carry MAVLink packets to the router, and a restart forgets both |
| `Lifecycle` | from reset to reset: NVS flags, quick reset, button, WiFi sessions and their timer, saves, firmware uploads |
| `MC...` | instances for TLC |
| `..._proofs` | theorems and proofs about the module of that name; `UnlockedSenders_proofs` has those of `UartSender`, `UdpSender` and `UsbSender`, `Pipeline_proofs` those of `MavlinkRouter`, `BridgeSetup` and `MavlinkBridge` |

### The queue (`PacketSender`)

`packetQueue`, `currentQueueBytes` (a `size_t`, modulo `SizeMod`),
`totalSent`, `totalDropped` and `maxQueueDepth` are the fields of the class.
`WillAccept`, `DropOldest` and `Push` are `willAccept()`, `dropOldestPacket()`
and the second half of `enqueue()`. A packet's bytes are left out; its memory is
the number of the copy that owns it, 0 (`NULL`) after `free()`. Ghost variables
number the copies (`accepted`), add up their sizes (`streamEnd`) and remember
whose memory is not returned (`live`). `duplicate()` cannot fail: an exhausted
pool falls back to `operator new`, which aborts.

### Bluetooth (`BluetoothSender`)

Each task is a process with a program counter. `enqueue()` is `Offer`, then
`BridgeLock` or `BridgeLockTimeout` (the 5 ms wait), then `BridgeAdmit` (accept,
evict or refuse) and `BridgePush`. `processSendQueue()` is `SenderEnter`
(backoff and client tests), `SenderLock` or `SenderLockTimeout`, `SenderWrite`
and `SenderCommit`. `Connect`, `Disconnect` and `BackoffElapses` belong to the
Bluetooth stack and the clock. The tasks' priorities are not used, so the
results hold for any scheduling. With `PartialWrites` a write can stop after
some of its notifications, as BLE's can; SPP's behaviours are among these, so
one run serves both.

### UART (`UnlockedSender`, `UartSender`)

Here the priorities matter: `enqueue()` is one step because the bridge task
preempts the sender task and not the other way round, while
`processSendQueue()` has a step for every access to shared state. `item` is the
C++ pointer to the front of the deque; once that packet was evicted it reads
as a freed packet. A fault leads to `Reboot`.

### USB (`UsbState`, `UsbSender`)

The same two tasks. `SenderCall` is the entry of `processSendQueue()`: block
detection, backoff, change of the mode. Then either a single packet
(`SingleFront`, `SingleFit`, `SingleWrite`), or in bulk mode `Plan`, `Flush`,
`CopyNext` for each packet, `SendBatch` or `SendPart`; then `commitPackets()` in
steps, since `enqueue()` can come between any two of them. `clearAllQueues()`
is `ClearFree`, `ClearPop`, `ClearTest`, `ClearEnd`. The host takes bytes from
its buffer at any time. `detects` tells the builds with block detection from a
MiniKit, whose UART sends by itself. `sendDirect()` does not touch the queue and
is left out.

What the module shows besides its properties: a host that takes everything
before each look is declared blocked after a second and stays so; an `enqueue()`
inside `clearAllQueues()` leaves the byte counter wrong. An eviction between two
copies of a batch leaves a hole in it (packets 1, 3, 4 of the queue 1, 2, 3, 4).
If the host then has room for a part only, `processSendQueue()` counts over the
queue as it is (2, 3, 4) how many bytes and packets that is, but writes from the
batch and commits from the queue: with sizes 1, 2, 1, 1 and room for two bytes
it writes 1 and 3 and removes 2, which was never sent, and 3 goes out a second
time. Without an eviction inside the copying a batch is a stretch of the queue
and nothing of the kind happens. The ghost `torn` records such a write, and the
order on the wire is claimed up to it. A batch is a sequence of packets with
the place in the batch where each ends, so a write that cuts one is seen.

### UDP (`UdpState`, `UdpSender`)

In the role `"queue"` (bridge or logger) the call is `SenderCall`, then for each
packet `SenderFront`, `SenderFit` (does the batch have room), `SenderAdd`,
`SenderFree`, `SenderPop`, and `SenderDone`, which looks at the timeouts. What
copies into a batch is one step for a packet, and `-=` is one step here
(`UartSender` shows what it is worth). In the role `"sbus"` `Frame` is
`sendDirect()` with the rate limiter, the stale rule and the batch of three.
`WifiChanges` is what `wifiIsReady()` says at the next call. At least one target
address is assumed.

What the module shows besides its properties: where the third frame comes 50 ms
or more after the first (rates of 40 Hz and below), the stale rule drops every
batch and nothing is ever sent; after an outage `totalSent` counts packets that
were thrown away, because `atomicBatchPackets` keeps its value; an eviction
while a packet is in hand makes `pop_front()` remove one that was not sent.

### SBUS router (`SbusRouter`)

Three tasks. The bridge task runs `routeFrame()` step by step: `Receive` takes
a frame, then its quality and flags are stored, the best source is chosen, the
switch is made, the failsafe state is brought up to date, a UDP frame is saved
and the frame is written out. The scheduler runs `tick()`, the Timing Keeper,
as a test (`TickBegin`) and a write (`TickWrite`). The web server sets source
and mode in two steps. Time stamps are ages in units of 10 to 20 ms that stop
at the last threshold they can cross, so the 32-bit clock does not wrap. A copy
of a frame is one step; of its bytes only the failsafe bit is kept. Statistics
are left out.

What the module shows besides its properties: with every source silent the
state stays `OK`, since only a frame updates it; a source that reports failsafe
keeps control over a healthy one of a lower priority for as long as its frames
are fresh (30 ms), since half of its quality is still over the limit, although
the comments of `routeFrame()` and `selectBestSource()` mean to switch away from
it; a switch decided before the user forced a source overwrites that source. With three sources, or a user who can
force either of two, control can bounce back within the delay.

### MAVLink router (`MavlinkRouter`)

Only the bridge task runs this code. `Begin` takes the batch of an interface,
`Route` is one packet (`updateAddressBook()`, `findDestinations()`,
`distributePackets()`), `End` counts the call and cleans up, and `Tick` lets
time pass between batches. `heard` is a ghost: how long ago each system was
learned on each interface, against which the book is judged. The comparison of
times in `isExpired()` fails after 24.8 days without a cleanup; this is left out.

### UART1 transmit service (`Uart1Tx`)

The bridge task and the web server put packets into one `CircularBuffer` under
a mutex: `EnqueueLock`, `Evict` (drop what does not fit), `Write` (copy) and
`Commit` (move `head`). The bridge task empties it in `processTxQueue()`: a test
without the mutex (`TxCheck`), the mutex, then for each round the segments, the
first write, perhaps the second one, and `consume()`. Bytes are numbered as they
are accepted, so the contents of the ring show whether an eviction or a wrap lost,
repeated or swapped something there. Of what is sent only the number of bytes
is kept: which ones they are is a question of where a write reads (`Fifo`).
`Drain` is the transmit interrupt.

### WiFi client (`WifiClient`)

The event handler is one step per event (`HandleStart`, `HandleDisconnected`
with its branches, `HandleScanDone`, `HandleGotIp`). The deferred retry is two
steps (set the flag, connect). The main loop is `wifiStartClient()`, then the
passes of `wifiProcess()` with a step for each call of the driver, and
`wifiStop()` in four steps. The driver is external: it holds a state and a
configured network, refuses calls that come at the wrong time (a connect while
not idle, a scan or a new configuration while connecting), and posts events.
Links and attempts fail for any reason at any time and scans find anything.
The 15 s between scans are left out (a scan is due at any time), the 10 s of an
attempt are a flag. Retry counts stop at the limit, beyond which the code does
not tell them apart. Events still queued when the driver is reset are handled
during the second the code waits there. A save that brings other networks
resets the retry counters at any time (`WebResetsFlags`): it may be refused after
that, and if not, the client goes on for 3 s.

What the module shows besides its properties: a connection does not reset the
retry counter of its network, and every disconnect counts, so a network that
worked for days can be given up after a single authentication error. The
repository's README promises unlimited attempts once a connection succeeded
(`src/README.md:191`, `:247-254`). No run states this.

### Boot (`BridgeSetup`)

One action per stage of `setup()` and of the start of `uartBridgeTask()`:
`Load` (corrections of the configuration), `DetectMode`, `InitBluetooth`,
`InitStandalone` or `InitNetwork`, `CreateTasks`, `InitPipeline`,
`RegisterSbusOutputs`. Six functions each read the same roles with a list of
conditions of their own, and each list is an operator: `Buffers`, `Flows` (a
set of records with buffer, parser, interface and senders), `SendersOf`,
`NeedSenderTask`, `Skipped`, `SbusOutputs`. The properties say that the lists
agree. WiFi, Bluetooth and devices may fail to start.

`MavlinkBridge` joins this module with `MavlinkRouter`. The router runs only
while the bridge loop does (`Routing`), with flows that offer their packets as
the constant `Mask` says, which is read off the flows the boot made (`Offered`).
A restart, which `BridgeSetup` allows at any time, empties the book (`Forgets`).

### From reset to reset (`Lifecycle`)

`setup()` has three steps (mode, devices, tasks). Then four parties interleave:
`loop()` with the scheduler (`Tick`, `TimeoutFires`, `RebootFires`, `Uptime`),
the events of the WiFi stack, the web requests (status, save, a refused save,
import, reboot, factory reset, the chunks of an upload), and the user with the
plug and the button. What two tasks do to an upload is apart: the timer's
callback tests the flag (`TimeoutFires`), then `wifiStop()` stops the server
(`ServerStops`) and the radio (`RadioStops`); the first chunk sets the flag and
sleeps 100 ms (`UploadOpens`), then the update begins (`UploadBegins`), and all
others take their steps in between. `Ends` is what every end of a session has in common: RAM is
lost, NVS and `config.json` stay; a power cut inside `config_save()` leaves the
file missing or empty. Assumed: `setup()` of a MiniKit takes less than 3 s, the
NVS record lags the clock by half a second at most, and requests come only once
`loop()` runs.

What the module shows besides its properties: an upload whose connection breaks
leaves the bridge task suspended; a first chunk that comes after the timer's
test begins its update without WiFi (the run `lifecycle_upload`); a refused save
has changed the configuration in RAM; after a power cut in a save the defaults
come back although a backup exists; a network that does not start with a Device 4 role crashes and restarts
the device again and again.

## 3. Runs

| Run | Shows |
|---|---|
| `bluetooth` | `QueueSound`: depth, exact bytes, ownership, no packet freed in the queue; `Delivery`: what is sent and committed is one and the same packet, in order, and nothing goes uncounted; `ImplementsChannel`: refinement of `PacketChannel`; `QueueDrains`: every queued packet leaves while a client stays |
| `uart` | what survives the missing lock: `QueueHolds` (depth, no pop of an empty deque), `WireInOrder`, and `QueueDrains` |
| `uart_memory` (violated) | `OwnsMemory`: a packet is sent from memory that was returned to the pool |
| `usb` | `UsbInOrder`: order, and nothing sent twice, over single packets, batches, evictions and the clearing of the queue, until a partial write of a batch with a hole; `HostComesAndGoes`: unless the port is blocked or the mode is bulk, no packet stays for ever, and a host that took something brings the port back; in `UsbTypeOK`, the host's buffer is never overrun |
| `udp` | `KindInOrder`: order within each kind of packet; `PacketsLeave`: no batch waits for ever; `SbusServed`: no stale frame goes out, and at rates the stale rule allows frames keep going out; in `UdpTypeOK`, no batch outgrows its buffer |
| `sbus` | `SignalKept`: a healthy source's frame is withheld only while a source of a higher priority is fresh, in failsafe too and then without limit, or for the anti-flapping delay, and the source in control is reported as it is; nothing is said while no frame comes; `NoFlap`: control does not bounce back within the delay; `KeeperEnds`: the keeper repeats no frame of a source that lost control but one; `HealthyTakesOver`: a healthy source gets control in the end when those of a higher priority are silent |
| `bridge` | `QueuesAreServed`: every queue that can get packets is emptied; `BridgesBothWays`: a bridge role has a fed flow in each direction, if no role is SBUS or CRSF; `SbusReachesOutputs`: the frames of a wired SBUS source reach an output, those of the network source a wired one if there is one; `UnicastGoesHome`, `KnownTargetServed`: a packet for a system goes to where it was heard and nowhere else, and always there; `PlacesComeBack`: an expired entry does not hold its place for ever |
| `uart1` | `RingExact`: the ring holds the newest bytes without a gap, the counts of sent, queued and dropped bytes add up to those accepted, and the driver is never asked for more than it has room for (not: which bytes were sent); `Progress`: every enqueue ends, every byte leaves the ring |
| `uart1_fifo` (violated) | `Fifo`: a second segment overtakes the rest of the first one, so that bytes go out twice and others never |
| `wifi` | `KnowsTheLink`: the client never stays in CONNECTED after the link is gone, and awaits no attempt that nobody makes; `SearchGoesOn`: every attempt ends, and as long as a network is not given up the radio is put to work again and again |
| `lifecycle` | `UpdateUndisturbed`: during an upload the flag is set and the bridge task suspended, and WiFi neither stops nor begins to, unless the timer had decided so before the first chunk; `QuickMeansQuick`: only three quick resets, never a crash, force the access point; `TemporaryEnds`: a temporary access point goes off by itself |
| `lifecycle_upload` (violated) | `UpdateKeepsWifi`: WiFi is on while an update is written; the timer's test of the upload is stale when `wifiStop()` runs |

Every run checks a type invariant too. A violated property is a sentence of the
repository's documents or comments, quoted with the finding in `PROJECT.json`.
Every property of a passing run is paired with a mutant, a plausible bug in a
modelled operation (defined next to it and marked as such) under which the
property fails.

Bounds.

* Bluetooth and UART: two queue slots and four or three bytes stand for 20 slots
  and 8192 bytes: either limit can be the one that is hit, a queue can be empty,
  partly full and full, and the counter modulus is reached only by an error. Four
  offered packets (`MaxOffers`) let a packet be queued, evicted, sent and
  followed by others in every order.
* `UsbSender`: four offers of one or two bytes to three slots and four bytes;
  batches of three packets or four bytes, and a host buffer of two bytes, so that
  a batch need not fit and an eviction can fall between two of its copies (with
  these bounds TLC shows the double packet above when `torn` is left out of
  `UsbInOrder`). The bulk window is one call long, the blocked timeout two.
* `UdpSender`: the real constants, except a bulk batch of three packets for
  five and a queue of two; sizes 280 and 800 reach the limits of the queue, the
  batches and the MTU. SBUS periods 7, 9, 14 and 20 ms and rates 10 to 70 Hz.
* `SbusRouter`: 20, 30, 40, 50, 100 and 500 ms become 1 to 6 units, which keeps
  their order; Device 1 and UDP as sources, the keeper on, and a user who
  forces Device 1.
* `MavlinkBridge`: every combination of the roles in each of the three builds.
  `setup()` derives the protocol from the roles, so of the protocols that come
  out the same one is saved: this is nearly the whole space of `BridgeSetup`.
  `BridgesBothWays` leaves Bluetooth of the BLE build out, for which no input
  buffer is allocated, so that it receives nothing from its client, and the
  configurations with SBUS, whose bridges have no input flow.
  Routing is followed in one of these (`Followed`), UART1 and USB: two interfaces, three systems that compete for two places, a
  life of two units and a cleanup at every third call: entries expire before
  they are cleaned up, and a system finds the book full.
* `Uart1Tx`: a ring of four places, packets of one and three bytes, a driver
  buffer of two bytes and at most two bytes per call: the ring wraps, a
  packet does not fit, and a write is cut short. `MaxBytes` stops the offers
  after the ring has gone round twice.
* `WifiClient`: two networks of which the second has the right password, two
  retries for five, a driver reset after two failed scans for ten. `MaxEvents`
  keeps the driver from posting on and on before the handler runs; a lost link
  and what the code itself causes are not held back by it. A scan ends after
  `wifiStartClient()` has noted it, which takes the driver seconds.
* `Lifecycle`: timers of one unit each, two stations, one upload at a time, and
  four configurations that tell all guards apart.

`MaxOffers`, `MaxBytes` and `MaxEvents` are the only bounds that are not limits
of the code.

Fairness. The tasks are scheduled for ever (they block only in bounded waits
and on mutexes whose holders run on), the scheduler looks at the clock, a panic
reboots. About the outside world little is assumed: a Bluetooth link or a UART's
transmit buffer that is asked again and again has room some time; a MiniKit's
UART sends what it has; an SBUS source that is on goes on; MAVLink packets keep
coming. Of a USB host, of the WiFi driver, of stations and users nothing is
assumed: offers, connections, scans, requests and changes of the mode are never
forced. The mutex of `Uart1Tx` is fair in that a task that asks again and again
gets it.

Deadlock is checked except in `wifi`, since the WiFi really stops for good, and
in the two runs of `Uart1Tx`, whose offers are bounded.

## 4. Proofs

The theorems hold for every value of the constants that satisfies the
assumptions named in each module. `PROJECT.json` lists them; every one says
that the specification keeps an invariant, except the refinement of
`PacketChannel` and the action properties `NoFlap` and (in part)
`UpdateUndisturbed`. Each module's type invariant is proved first and used in all
later proofs.

`PacketSender_proofs` proves what popping and pushing do to a well-formed queue
(`Shape`): consecutive numbers, no freed packet, no gap between the stretches of
bytes, exact counter, exact ownership. `BytesFit` shows that the counter stays
below the modulus. `TailNumbered`, `ShiftNumbered` and `FrontSet` say what is left
of it in a queue whose counter may be wrong.

`BluetoothSender_proofs` proves an inductive invariant in two parts.
`QueueInv` says that the queue is well formed, that `owner` is the task between
take and give, and what each task knows at its program point (the sender: the
queue is not empty; the bridge after admission: there is a free slot). The
invariants checked by TLC are not inductive without it: that a commit finds the
packet it wrote needs the mutex, and that a push fits needs what admission
found. `WireInv` relates the queue to what the link took; its part `Behind`
gives the order on the wire. From the two follow all safety properties of
`bluetooth` and the refinement of `PacketChannel` (`StepMaps` maps every step to
a step of the channel or to a stutter). Assumed: the limits are positive and the
counter's modulus exceeds `maxQueueBytes` and `maxQueuePackets` times the largest
packet (20 * 512 against 2^32).

`UnlockedSenders_proofs` does without a mutex.

* UART: `SafeInv` says what the sender may still rely on at each program point
  although the bridge task can have evicted the packet in hand; `OrderInv` with
  `Ahead` and `ItemAhead` relates that packet, the queue and the wire, and gives
  the order. Only `OwnsMemory` fails.
* UDP: `UdpInv` knows that the packet in hand is at the front or evicted
  (`UdpHand`), that the room made for it is still there although its size is
  read again, an evicted packet being empty (`UdpRoom`), and that each of the
  two batches holds packets of its kind, in order, later than what is on the
  wire and earlier than `UdpUnsent`, the first that cannot have been copied
  (`UdpGood`). Each operation on the batches (`Aged`, `Joined`, `GivenUp`, ...)
  has a lemma that it keeps this.
* USB: `UsbInv` knows that the queue has as many packets as were planned or more
  (`UsbHand`: an `enqueue()` that evicts also pushes), that what fitted still
  does, since the host only takes (`UsbRoom`), and how a batch lies to the queue
  (`UsbBatch`): its i-th packet is the i-th of the queue or an earlier one, and
  without a hole the part of the batch up to any packet is at least as long as
  the part of the queue up to it. So a partial write of a batch without a hole
  sends no packet that is not committed with it. `Flowing` replaces the sums of
  sizes by places in the stream of accepted bytes, which needs no induction.
  It was here that the first form of `UsbInOrder` turned out to be false.

The invariants are defined over the state alone (`UdpState`, `UsbState`); the
steps come in as the instances `Udp` and `Usb`, because the three senders name
them alike. The assumptions of the three hold together without restricting any
of them: each speaks of constants of its own, and those they share
(`MaxPacketSize`) are bounded only by constants that have no upper bound. The
latter two senders share `Loose`, what is left of
`Shape` when a counter may be wrong: consecutive numbers, sizes within their
bound, and a freed packet only at the front while the sender pops it.

`SbusRouter_proofs` has `SignalInv` (at each point of `routeFrame()`, what is
known of the source being served and of the choice: the chosen one is the
foremost that is usable, and what is usable holds on), from which `SignalKept`
follows, `YieldInv` (what the keeper's stale test may still be wrong about) and
`FlapInv`. `NoFlap` assumes Device 1 and one other source and a user who forces
Device 1 at most (`TwoSources`): without this it is false.

`Pipeline_proofs` shows of the router that the book agrees with `heard` (`Good`:
one entry for a system, with an interface on which it was heard as long ago as
the entry says, and with every interface on which it was heard within its life),
and the two routing properties from it. Of the boot it proves `SetupInv`: what exists
is a part of what the roles ask for, and all of it once UART1 is there
(`PresentHolds`), and tasks, flows, senders and outputs are what their step made
of the same roles (`MadeHolds`). The properties are then facts
about the operators: `PacketFlows` classifies the flows whose parser returns
packets, `BridgeFlows`, `ReceiverHasFlow` and `NetworkHasFlow` find the flow a
property asks for, `FlowsAreSlots` finds at most seven flows. TLC's run lists
nearly all configurations; the theorems are about all of them. They are stated
of `BridgeSpec`, the device that boots, routes and restarts: a boot step keeps
the router's invariant because it leaves the router alone or puts it back to
its first state (`ForgetsInv`), and routing leaves what the boot made alone.

`Uart1Tx_proofs` has mutual exclusion (`Mutual`), the contents of the ring
(`Contents`: consecutive bytes, from the last one given up to the last one
accepted) and what the task with the mutex knows (`Knows`: room was made,
these bytes are copied, these segments are what is in the ring). The wrap of
the indices is arithmetic on `IF`, in the lemmas `Consumed`, `Produced` and
`CopiedBytes`.

`WifiClient_proofs`: types and counted failures of scans are `RestInv`; a client
that gave up for good has every network refused (`GaveUp`). `KnowsTheLink` needs
what the queue of events says: `LinkTold` with `Told` (whatever entry of the
queue, or belief of the client, says that the link is up: it is, or a later
entry says that it was lost), `Tried` (an attempt in progress has a driver that
is at it, or an event or a timer that will make it try or end it), and
`PhaseInv` (what holds while the radio is started, stopped or reset).

`Lifecycle_proofs`: `UploadInv` says that there is no upload outside `loop()`, and
what the flag and the suspension are while the first chunk sleeps and after it;
with it no step stops WiFi during an upload but of a timer that had decided
before. `ResetInv` ties the count in NVS to the sessions that really were
short, over crashes, restarts and records that lag behind.

Model-checked only: liveness (`QueueDrains`, `HostComesAndGoes`, `PacketsLeave`,
`SbusServed` but for its part `FreshFrames`, `KeeperEnds` but for what
`YieldSafe` says, `HealthyTakesOver`, `PlacesComeBack`, `Progress`,
`SearchGoesOn`, `TemporaryEnds`), which is out of the prover's reach. Every
invariant that a passing run checks is proved, and so are the action properties
`NoFlap` and `UpdateUndisturbed`.

## 5. Possible extensions

* the input side: drivers and Bluetooth callbacks that write and evict while the
  bridge task parses, and the framing of the raw, line, SBUS and CRSF parsers;
* the memory pool's size classes, exhaustion and heap fallback, refining an
  allocator that never hands out a block twice;
* connection and reconnection of SPP and BLE, USB host attach and detach;
* the queue of each unlocked sender against a weaker channel than
  `PacketChannel`, one that may also lose a packet in the middle.

## 6. Not modelled

* Memory pool: which array a block comes from. The sender modules track who owns
  a block, not where it lies.
* Parsers, CRSF, SBUS framing and conversion, and the receive buffers of the
  Bluetooth links: functions of a byte stream, of which the rest of the system
  sees only whole packets.
* The web handler that deletes and rebuilds the pipeline while the tasks use it:
  every later step would read freed memory, so there is nothing to state.
* Crash log, logging, statistics, diagnostics and LEDs: they do not touch the
  data path. Configuration files are kept as values, not as JSON.
* Generated MAVLink headers, which are most of the lines of the repository, and
  the plugins.

`PROJECT.json` lists every component with its status and every hazard found,
those no property covers with the reason.

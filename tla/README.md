# Verification of nrf-hci-usb-rs

TLA+ models of the nRF5340 firmware in `src/`: a Bluetooth HCI-over-USB
bridge.  The application core speaks USB to a host, the network core runs the
SoftDevice Controller (SDC), and two ring buffers in shared memory carry HCI
packets between them.  TLC checks the models on small instances, TLAPS proves
every safety property of them for every size.

All paths below are relative to `src/`.

## 1. The system

```
 host --control--> control_out --HCI_CMD_CHANNEL--> cmd_task --+
 host --bulk OUT-----------------------> usb_read_task --------+--> A2N ring + Event1 --> ipc_rx_loop --> SDC
 host <--IN endpoints-- usb_write_task <--NET_TO_HOST-- ipc_recv_task <-- N2A ring + Event0 <-- notify_app <-- ipc_rx_loop, sdc_event_loop
              application core (cooperative executor)                         network core (cooperative executor)
```

| Component | State | Operations | Where |
|---|---|---|---|
| Ring buffers | `write_idx`, `read_idx` (u32, never reset), `data[14328]`, one pair per direction | `rb_write` (refuse, or store length, payload, index), `rb_read` (empty, skip an oversize packet, or copy and release), `ipc_init` | `ipc/src/lib.rs` |
| IPC link | the hardware event latch of the receiving core | write then trigger; wait, then read until `None` | `app/src/ipc.rs`, `net/src/main.rs:218-249,632-639`, `app/src/main.rs:255-277` |
| App core tasks | `HCI_CMD_CHANNEL` (4), `NET_TO_HOST` (4), the position of each task, the packet in hand | `usb_write_task`, `usb_read_task`, `cmd_task`, `ipc_recv_task`, `usb_task` | `app/src/main.rs` |
| USB class | two IN endpoints and one OUT endpoint, each holding one USB packet | `control_out`, `write_ep` (64-byte chunks, zero-length packet) | `app/src/usb_hci.rs` |
| Net core loops | position in the drain loop | `sdc_event_loop`, `ipc_rx_loop` (joined in one task), `notify_app` | `net/src/main.rs` |
| HCI dispatcher | none of its own; the controller's | `dispatch_hci_cmd` (92 opcodes, six macro kinds), `send_cc_event`, `send_cs_event` | `net/src/main.rs:263-625` |
| Boot | SPU regions, IPC channel configuration, network core reset | app `main`, net `main` | both `main.rs` |
| LED | `LED_STATE`, the three PWM channels | `led_task`, last signal wins | `app/src/led.rs` |
| SDC, MPSL, radio, USB host | outside the repository | modelled by how the code uses them | -- |

**Interactions.**  The cores share memory and two one-bit events and nothing
else.  Tasks of one core are cooperative: a task runs from one `await` to the
next undisturbed.  Each ring has one producer core and one consumer core, but
two tasks or loops of the producer core write it.

**What is hard.**  The ring is accessed by both cores at once, byte by byte.
Its indices run freely over 2^32 while its size, 14328, does not divide 2^32.
The events are one bit and coalesce.  Rings and channels drop or block when
full, each in its own way.  USB may go away at any moment, in the middle of a
transfer or with a packet written and not yet polled.  The net core may be
triggered before it listens.  A command with no answer stops the host.  The
list, line by line, is `hazards` in `PROJECT.json`.

**What makes each part correct.**

* Ring: packets come out whole, unchanged, once, in order; no byte is written
  by one core while the other reads it; a full ring refuses and stays intact.
* Link: a packet in the ring is always being read or about to be.
* Bridge: per direction nothing is duplicated, reordered or lost except where
  the code drops it; the command flow control of HCI bounds the queues; a slow
  host never stops the controller; known commands are answered.
* Dispatcher: one answer per command, with its opcode, whatever the length of
  the parameters.
* USB transfers: the host can tell where a packet ends, and a disconnect in the
  middle of one spoils nothing later.
* LED: the colour shown is what the writer does.
* Boot: memory is initialised and accessible before the other core uses it.

## 2. Modules

| Module | Models | Kind |
|---|---|---|
| `PacketFifo` | what a user of one ring may rely on: a queue of whole packets with room for `Capacity` bytes | abstract specification |
| `IpcRing` | `rb_write`/`rb_read`, each access to shared memory a step, both cores interleaved | detailed specification |
| `IpcLink` | one direction between the cores: `PacketFifo` plus the event latch | composition |
| `UsbDelivery` | what `NET_TO_HOST` and `usb_write_task` promise: whole packets, in order per endpoint, lost only to a disconnect | abstract specification |
| `CommandServer` | what the net core promises: one answer per known command, in order, nothing between a command and its answer | abstract specification |
| `HciBridge` | host, app core tasks, net core loops, one `IpcLink` per direction | composition |
| `HciDispatch` | the dispatcher between its two rings: opcode table, length checks, events, results of the controller | detailed specification |
| `UsbTransfer` | `write_ep` and `read` USB packet by USB packet, the host's reassembly, `led_task` | detailed specification |
| `Boot` | both `main` functions up to the start of the tasks, in front of the app-to-net `IpcLink` | composition |
| `MC...` | values of the constants for TLC | -- |
| `IpcRingProofs`, `IpcRingRefinement`, `IpcLinkProofs`, `BootProofs`, `HciDispatchProofs`, `UsbTransferProofs`, `HciBridgeProofs` | theorems about the module of that name | proofs |
| `SequenceLemmas` | what appending, joining and taking the head do to the range of a sequence and to an order along it | proofs |

The modules refine one another, so a result about bytes, USB packets or opcodes
carries up to the tasks and no larger model needs the detail.  Each of these
refinements is model-checked on a small instance and proved for all (that of
the ring as long as no frame laps an unread one):

| Detailed | Abstract | Property |
|---|---|---|
| `IpcRing` | `PacketFifo` | `ImplementsFifo` |
| `UsbTransfer` | `UsbDelivery` | `ImplementsDelivery` |
| `HciDispatch` | `CommandServer` | `ImplementsServer` |
| `HciBridge`, net core | `CommandServer` | `ImplementsServer` |

`HciBridge` and `Boot` need no refinement to the link: they move its variables by
the actions of `IpcLink` itself, and so does the link those of its ring by the
actions of `PacketFifo`.

Definitions marked "(Faulty variant)" are not part of any specification.  Each
is a definition of the model changed the way a plausible bug would change it;
the property it belongs to is violated when it takes the place of the original
(`mutants` in `PROJECT.json`).

### IpcRing

`wIdx`, `rIdx` and `data` are the fields of the shared memory.  `wPc`, `wPkt`,
`wOff` are the producer's position in `rb_write`; the two checks, which load
the other core's index once, are one step (`RbWriteRefuse`, `RbWriteAccept`),
each stored byte is a step, the store of `write_idx` is a step.  `rPc`,
`pktLen`, `out` are the consumer's position in `rb_read`: the load of
`write_idx`, the two length bytes, each payload byte, the store of `read_idx`.
Program order is kept because the code uses release stores and acquire loads
for the indices.  Index arithmetic is modulo `IdxMod`, the slot is the index
modulo `BufSize`, and bytes are modulo `ByteMod`, so a packet can have a nonzero high
length byte in a small instance.

`fifo` and `lapped` are history.  `fifo` holds the published, unreleased
frames with the index of their first byte.  `lapped` says that a frame was once
accepted over a slot still in use, which the code does not prevent (finding 1
below).

### IpcLink

`queue`, `used`, `sendRet` and `recvRet` are those of `PacketFifo`.  `latch` is
`EVENTS_RECEIVE` of the receiving core, `listening` whether that core has
configured the event, `txPc` whether the sender is between its ring write and
its trigger.  `rxPc` is the position in the receive loop: `wait`, `drain`,
`handle` (a packet in hand) and `return`, the moment between a read that found
nothing and the next `event.wait()`, in which a lost wake-up would happen.
`early` (history) says that the last trigger came before the configuration, and
was lost.  The next trigger ends it: the receiver then drains the ring, the
packets of the lost trigger included.  So `NoLostWakeup` exempts a packet only
until another trigger, and `PacketsGetRead` only a link on which no further
trigger comes.  That is a link nobody writes any more, or one whose ring was
filled before the net core listened: from then on every packet is refused, a
refused packet triggers nothing, and nobody ever empties the ring.

### HciBridge

The state of the app core is `cmdChan`, `netToHost`, the positions `rdPc` and
`wrPc` of the USB tasks, the packet `wrPkt` being written and what each IN
endpoint holds, `inEp`; `cmd_task` and `ipc_recv_task` need no position of their
own beyond the link's.  `write_ep` returns (`WriteDone`) when the endpoint has
accepted the packet, and the host takes it later (`HostTakes`): so the order
between the endpoints is not kept, and a disconnect loses what they hold.
A step of an app core task requires `AppFree`, of a net core loop `NetFree`: no
other task of that core is between write and trigger, as there is no `await`
there.
`SdcEvent` further requires that `ipc_rx_loop` awaits its event, since the two
loops are joined in one task.

The host connects, disconnects, sends a command when it has a command credit,
sends ACL data and takes what its IN endpoints offer.  It keeps the HCI flow
control: one credit after it connects, and an answer sets its credits to one,
the `num_hci_cmd_packets` of every answer the code builds.  `hostCmds`,
`hostAcls` and `ctrls` number the packets.  The histories `hostSent` and `lost`
are the sets of packets the host sent and of those dropped, with where;
`netTook`, `netSent` and `hostGot` are what the net core handled, what it passed
to `notify_app` and what the host received per endpoint, in order.  `DownStream`
and `UpStream(e)` put what has arrived, the hands and the queues on the way in
one sequence, the oldest packet first.

### HciDispatch

`ring` holds the commands for the net core, each its opcode and the number of
bytes it has; `rx` is the position of `ipc_rx_loop`, with `panicked` for a slice
index out of bounds; `answer` is the event in hand between the call of the
controller and `notify_app`.  The opcode table is six sets, one per macro, each with
one action (`RunP` ... `RunAsyncN`), and the sizes of the structs are
constants.  `pending` and `ready` are asynchronous operations inside the
controller, which may finish one between any two steps; `HciGet` is the
iteration of `sdc_event_loop` that forwards the result, possible only while
`ipc_rx_loop` awaits its event.  `asked` (the commands dispatched that have an
answer), `answered`, `calls` and `toApp` are history.

### UsbTransfer

A USB packet is a record of the HCI packet it belongs to, its offset and its
length.  `Transfer` is the sequence `write_ep` writes: chunks of `MaxPacket`
(64) bytes, and a zero-length packet when the length is a multiple.  `wrNext` is
the position in it; each `ep.write` is a step that waits for the endpoint to be
free.  The host (`HostTakes`) knows only lengths: it collects into `partial`
until a packet is short, and drops what it has collected at a disconnect.
`Connect` requires that the task whose transfer the disconnect aborted has seen
the error, which takes it microseconds and the host milliseconds.  In the other
direction the host sends an ACL packet as a transfer, with or without the
zero-length packet, and `ReadAcl` passes on one USB packet per `read()`.
`hostAcls` numbers these packets; `outSent`, `outLost` and `toNet` are history.
`ledSignal` is `LED_STATE`, `lit` the three PWM channels.

### Boot

`appPc` and `netPc` are the positions in the two `main` functions.  The net core
is `off` until `ReleaseNetCore`; from then on nothing orders the cores.
`shared` is the set of SPU regions opened, with the real addresses, `cleared`
the indices set to zero, `appOn` and `listening` whether a core has configured
its event.  The rest is `IpcLink` in the app-to-net direction, and the
net-to-app event.

### UsbDelivery and CommandServer

`UsbDelivery` has the writer's three positions but no lengths: a packet goes to
its endpoint in one step.  `CommandServer` has an inbox, an outbox and whether
packets are being handled; handling a known command and sending its answer is
one step, and a report of the controller goes out only while no packet is
handled.  For `HciDispatch` the outbox shows each event as what it answers, for
`HciBridge` everything passed to `notify_app`, whether the ring takes it or not.

## 3. Runs

| Run | Question | Properties | Distinct states |
|---|---|---|---|
| `ipc_ring` | is the ring sound with the crate's proportions, and a packet queue, until a frame laps another? | `TypeOK`, `RingInv`, `NoDataRace`, `DeliversOldest`, `ImplementsFifo` | 182 000 |
| `ipc_wrap_overlap` | does a read always return the next packet? (violated) | `ReadsNextPacket` | -- |
| `boot` | is memory ready before it is used, is a wake-up ever lost, is every packet read, however fast each core comes up? | `BootTypeOK`, `NoLostWakeup`, `SharedMemoryReady`, `NetTriggersHeard`, `PacketsGetRead` | 600 |
| `bridge_order` | what may get lost, duplicated or reordered end to end, with a reconnect at any moment? | `TypeOK`, `DownstreamInOrder`, `UpstreamInOrder`, `NoLostWakeup`, `ImplementsServer` | 752 000 |
| `bridge_sessions` | what do commands and answers that outlive their USB session do to the next ones? | `CreditsBoundCommands`, `ChannelTakesCommands`, `AnswersMatchCommands` | 432 000 |
| `bridge_liveness` | does a host that is gone or does not read stop the net core from taking commands; does a known command get its answer, over a reconnect too? | `CommandsTaken`, `AnswersArrive` | 168 000 |
| `hci_dispatch` | is each command answered, correctly and in order, whatever its length? | `TypeOK`, `OneAnswerEach`, `AnswersWellFormed`, `EnoughParams`, `StatusBeforeResult`, `ImplementsServer` | 57 000 |
| `usb_transfer` | does the host see each packet whole, wherever a disconnect falls; are its USB packets forwarded in order; does the LED tell the truth? | `TypeOK`, `OutPiecesInOrder`, `LedTellsWriter`, `ImplementsDelivery`, `ConnectedShown` | 563 000 |
| `usb_acl_split` | is each packet for the net core an ACL packet of the host? (violated) | `AclWhole` | -- |
| `hci_short_command` | is every packet dispatched? (violated) | `EveryPacketDispatched` | -- |
| `bridge_unanswered` | does every command get an answer? (violated) | `EveryCommandAnswered` | -- |
| `bridge_disconnect` | does `usb_write_task` notice a disconnect? (violated) | `DisconnectNoticed` | -- |

The properties of `ipc_ring` hold until a frame laps an unread one, which is
what `ipc_wrap_overlap` shows the full check not to prevent.  Until then the
unread frames stay whole (`FramesIntact`, part of `RingInv`), the bytes a running
read may load and a running write may store are different (`NoDataRace`), what
comes out is the oldest packet, whole (`DeliversOldest`), and a packet is refused
exactly when there is no room and skipped exactly when the reader's buffer is too
small (`ImplementsFifo`).  `NoLostWakeup` says that a packet in a ring is being read or
its reader will be woken.  `DownstreamInOrder` and `UpstreamInOrder` say of what
arrived, followed by what is in each hand and each queue along the way, that it
is in the order in which it was sent, each packet once, and that it is what was
sent without what was dropped.  `CreditsBoundCommands`
bounds the commands and answers under way by the USB sessions begun.
`ChannelTakesCommands` is what that means for `HCI_CMD_CHANNEL`, which
`control_out` does not check before it accepts a command: with room for 4 it
drops none before the host has disconnected 4 times, although commands of earlier
sessions may still be in it.  `AnswersMatchCommands` is what a host may conclude from
an answer, of whatever session: the command is one it sent and the net core
handled, and answers come in the order of their commands, none twice.
`CommandsTaken` is the end of the
back-pressure: with every queue towards the host full, commands are still
executed, and their answers dropped.

`ImplementsDelivery` of `usb_transfer` compares what the host puts together from
lengths alone with the HCI packets written: each is one packet with exactly its
bytes, for lengths below, at and above one USB packet, and the pieces of a
transfer a disconnect cut short never join a later one.  `OutPiecesInOrder` is
the same equation for the OUT endpoint as those of the bridge.
`LedTellsWriter` holds although signals overwrite each other and `led_task`
starts by turning the LED off; `ConnectedShown` fails if the writer does not
come back after an error.  `SharedMemoryReady` uses the real addresses: the
second ring ends in the middle of region 31.  `NoLostWakeup` and
`PacketsGetRead` of `boot` say that the net core forgets no trigger between
configuring its event and waiting for it, and that packets sent before that are
read too, once another trigger comes.

`OneAnswerEach` also covers commands with too few parameters, `AnswersWellFormed`
return data up to the 64 bytes `send_cc_event` has room for, and
`StatusBeforeResult` holds because the two loops share a task: its mutant lets
`sdc_event_loop` run beside the other.

**Bounds.** The ring instance has 7 bytes and indices modulo 24, enough for
three frames, a frame that fills the ring (and is too large for the reader's
buffer), one that is too large for the ring, and for every position of a frame
relative to the end of the storage and to the wrap of the indices (24 mod 7 = 3
stands for 2^32 mod 14328 = 6016).  The indices wrap, so there is no bound on
the number of calls.  `boot` has no bound on the number of packets either.  The
bridge is bounded by `MaxCmds`, `MaxAcls`, `MaxCtrls` and `MaxResets`.
`bridge_order` and `bridge_liveness` have one or two of each (three controller
packets in `bridge_liveness`), with channels of depth one and rings of one or
two packets, so that every queue is full in some state and a reconnect happens
with packets in every place.  `bridge_sessions` has commands only, but four of
them, channels of depth two and two reconnects: the second session can find a
command of the first in the channel, and the third one of each and no room.
The net core's late start is in all three, but only `boot` lets triggers follow
an early one without bound.  In `bridge_liveness` the queues towards the host
fill when it disconnects before the writer has noticed the connection: then
three packets fill channel, hand and ring.  With the host connected and not
reading it takes five, since one more lies in the endpoint and one in the
writer's hand; what the net core then does is the same.  `usb_transfer` writes
two packets of one to three bytes to either endpoint with USB packets of two
bytes, reads two ACL packets, and has one disconnect; `usb_acl_split` needs one
packet of three bytes.  `hci_dispatch` sends three commands out of eleven, one
or two per macro, with just enough bytes and with one too few.  `CHECK_DEADLOCK
FALSE` is set for the bridge, the dispatcher and the USB transfers: with their
packets used up they wait.  The state constraint `NotLapped` ends a behaviour
of `ipc_ring` where the ring has been corrupted; the state that shows the
corruption is still checked.

**Fairness.**  `Boot`: both cores run their `main`, the trigger follows the
write without an `await`, and the receive loop is polled; nothing makes the app
core send.  `HciBridge`: each task of the two executors runs when its `await`
is over (`FirmwareFair`), which is all `CommandsTaken` assumes.  The answers
need a host that reads both its IN endpoints (`HostFair`, the premise of
`AnswersArrive`): one task writes them both and has no timeout.
`UsbTransfer`: the writer, the reader and `led_task` are polled.  Nothing makes
the host connect, send, poll an endpoint or reset, or the controller produce
events.

**Findings.**

1. `ipc_wrap_overlap`.  `rb_write` computes the free space from index
   differences, but slots are indices modulo 14328 and 2^32 mod 14328 = 6016.
   When the unread bytes and the new frame straddle the index wrap and are more
   than 6016 bytes together, the new frame overwrites unread bytes and the call
   returns `true`.  Once every 4 GiB per direction, with a backlog of 6 KiB.
   Theorem `ShortBacklogIsFifo` says that this is all: as long as the backlog is
   at most `WrapGap` bytes (6016) whenever it straddles the wrap, the ring is a
   packet queue.  With a size that divides 2^32 (8192) `WrapGap` is the whole ring.
2. `usb_acl_split`.  `read()` returns one USB packet of at most 64 bytes, and
   `usb_read_task` frames each as an ACL packet of its own.  A longer ACL packet
   of the host reaches the controller in pieces, all but the first without its
   header.
3. `hci_short_command`.  The warning about a command `dispatch_hci_cmd` refuses
   indexes the opcode bytes.  For a packet of fewer than two bytes these are not
   there, and the net core panics.
4. `bridge_unanswered`.  An unknown opcode is logged and not answered.
5. `bridge_disconnect`.  `usb_write_task` does not see a disconnect until it
   has a packet to write; until then the LED stays blue.

A smaller one has no run of its own: `ipc/src/lib.rs:158` promises `None` only for
an empty ring, but `rb_read` also answers `None` for a packet longer than the
caller's buffer, which it drops (`RbReadOversize`, `PacketFifo!Receive`).

## 4. Proofs

Every invariant and every refinement that a passing run checks is also a theorem:
`Spec => []Inv` or `Spec => Abstract!Spec`, for every value of the constants.
(That the ring is a queue has the premise that no frame laps an unread one, as
the run `ipc_ring` has the constraint; its invariants say so themselves.)
All that is assumed of the constants are the named assumptions of the modules:
`RingAssumption` (a ring of two bytes or more, which two length bytes can
measure, and indices over more than twice its size), `LinkAssumption` (a
receiver with a buffer its packets fit),
`DispatchAssumption` (struct sizes are numbers, statuses bytes),
`TransferAssumption` and `BridgeAssumption` (USB packets and channels hold at
least one unit, `None` is no packet).  Each holds of the constants in `src/`.
TLC has checked the inductive invariants named below, too.

**Ring** (`IpcRingProofs`, `IpcRingRefinement`).

* `TypeCorrect` includes that the copy offset stays in its frame, that the
  length field is a u16 and that the indices are u32.
* `RingCorrect`: `RingInv` is invariant.  `FramesIntact` alone is not
  inductive: that a store misses every unread frame follows only from where
  the frames lie.  `FramesAbut` says that they lie one behind the other from
  `read_idx` to `write_idx`; `SpanFits` that they and the frame being stored
  fit the ring and do not meet across the index wrap; `ProducerCopied` and
  `ConsumerCopied` relate the two calls in progress to the frames they work
  on.  Lemma `SlotsDiffer` turns distances between indices into different
  slots; it is the only place where the remainder modulo `BufSize` is opened.
  Everything is under `~lapped`, which is what finding 1 costs.
* `FramesStayIntact`, `NoRaceOnData`, `ReadsOldest` follow from it.
* `RingIsFifo`: each step of the ring is a step of `PacketFifo` on the
  payloads of the unread frames, or leaves them alone.
* `ShortBacklogIsFifo`: the same, and that every read returns the next packet,
  from a premise about the indices instead of the history variable: while the
  bytes in use, at most `WrapGap` of them, straddle the index wrap, no frame is
  accepted that laps another (`ShortBacklogStep`).

**Link and boot** (`IpcLinkProofs`, `BootProofs`).

* `NoWakeupLost`: `NoLostWakeup` is inductive together with the type
  invariant: the write leaves `txPc` at `trigger`, the trigger sets the latch,
  the wait enters the drain loop, and the loop is left only with the ring empty.
* `BootLosesNoWakeup`: the same from power-up, since a step of the two `main`
  functions is a step of the link (the link's `Configure` is the net core's
  `NetConfigure`) or leaves it alone.
* `SharedMemoryIsReady`, `NetTriggersAreHeard`: `BootInv` ties the position of
  each core to what has been done (`BootOrder`): the net core is off until the
  app core has opened the regions, cleared the indices and configured its
  event.  `RingsInOpenedRegions` is the address arithmetic.

**Dispatcher** (`HciDispatchProofs`).  Lemma `DispatchDoes` describes the six
macros at once: a command of the table gets an answer that fits it and calls at
most one function, with enough parameters; any other is ignored.

* `EachAnsweredOnce` and `AnswersAreWellFormed` need `AnswersInStep`: outside
  the answer step there are as many answers as commands asked, inside it one
  fewer and the one in hand fits the last.  `OneAnswerEach` alone would not say
  what is in hand.
* `ResultsFollowStatus`: `StatusBeforeResult` speaks of the events sent, but a
  result may still be inside the controller.  `ResultsCovered` counts those too,
  for each opcode: results sent, ready and pending are no more than the statuses
  sent and the one in hand.  Lemma `PrefixesGrow` goes from the count to every
  prefix.
* `DispatchImplementsServer`: the call of a function maps to a stutter, sending
  the answer to the abstract step, because the command in hand still counts as
  waiting in the inbox.

**USB transfers and LED** (`UsbTransferProofs`).

* `TransferImplementsDelivery` rests on `Streams`: what the host has put
  together for an endpoint (`partial`), with the USB packet the endpoint holds, is
  exactly the part already written of the packet in the writer's hand; with no
  such packet it is nothing, or one whole transfer whose end the host has yet to
  take; and with USB down it is nothing.  `PiecesAre` and
  `TransferIs` give the number and length of the USB packets for every length:
  only the last is short.
* `OutStreamInOrder`: `OutInv` adds that no packet number is ahead of `hostAcls`,
  so that a new transfer comes behind everything on its way.
* `LedIsTrue`: `LedFollows` says that the signal not yet taken, if any, is the
  writer's present colour, and that otherwise the LED shows it.

**Bridge** (`HciBridgeProofs`).

* `BridgeWakesUp`: each link takes one of its own steps or none (`LinkSteps`), so
  its invariant carries over from `IpcLinkProofs`, and with it the part of
  `TypeOK` about the links.
* `BridgeImplementsServer`: step by step, with the type invariant.
* `DownstreamOrdered`: `DownInv` adds that the packets sent are numbered up to
  `hostCmds` and `hostAcls`, so that the next one is new and last of its kind,
  and that the channel holds commands only, so that ACL data may go past it.
* `UpstreamOrdered`: the order is that of `netSent`, so `UpInv` must say that
  no packet was sent twice.  For an answer this comes from the other direction:
  it is new because its command was handled once (`AnswerIsNew`, from
  `DownInv`), and `UpInv` relates each answer sent to a command taken.
* `AnswersMatch` puts both directions together.  `AnswerInv` says of the net core
  that it has answered only known commands it took, in their order: the command
  in its hand has a higher number than all it took (`CommandIsLast`, from
  `DownInv`).  What the host got is in that order by `UpInv` (`GotInOrder`), and
  what the net core took is what the host sent, by `DownInv`.
* `CreditBound`: `CreditInv` counts one for a host that is gone, since it will
  start again with a credit: without that, connecting would break the bound.
  Handling a command moves one from the commands to the answers because its
  number occurs once on the way down (`DownInv`); taking an answer frees one
  because it occurs once on the way up (`UpInv`).
* `ChannelDropsNothing`: the commands in the channel have different numbers and
  are under way (`ChannelUnderWay`), so a full channel beside a credit means
  `CHANNEL_DEPTH` disconnects.

Only model-checked: the liveness properties `PacketsGetRead`, `CommandsTaken`,
`AnswersArrive` and `ConnectedShown`, since fairness and `ENABLED` are beyond the
prover, and the five violations.

## 5. Plan

Done: all components the models are to cover, the abstract specifications, and
the theorems above.  Worth adding:

1. The safety half of the liveness results: the invariants and single steps
   their arguments rest on, such as that the net core's loops are blocked by
   nothing the app core does.
2. The guarantees of the links under a ring that laps (finding 1): what is still
   guaranteed of the packets after it.

## 6. Not modelled

* The SoftDevice Controller, MPSL and the radio: a precompiled library; the
  models see a source of packets and functions that return a status.
* USB enumeration, descriptors and endpoint addresses: static data.  The control
  buffer of 128 bytes (`app/src/main.rs:132`) limits commands inside embassy-usb,
  before `control_out` runs.
* That `ipc_rx_loop` may drain for ever while the app core refills the ring
  (`net/src/main.rs:225`): a bound would be an assumption about the host.
* Brightness and PWM programming of the LED, colours nobody signals, clock and
  memory parameters of MPSL and SDC.
* Weak memory beyond what acquire and release forbid: the models are
  sequentially consistent between accesses.
* Build files, linker scripts, flashing.

Two observations that need documents outside the repository and are therefore
not properties here.  Opcodes 0x202C, 0x2059, 0x2075 and 0x2076
(`net/src/main.rs:467,526,579,582`) are bound to controller functions whose
opcodes in the Bluetooth Core Specification are others (0x204E, 0x2074,
0x2061, 0x2075).  The layout comment `ipc/src/lib.rs:10` and the constant at
`:49` differ in the address of the second ring; both cores use the constant.

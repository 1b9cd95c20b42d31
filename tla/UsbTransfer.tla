---------------------------- MODULE UsbTransfer -----------------------------
(***************************************************************************)
(* The USB endpoints of the app core, USB packet by USB packet:            *)
(* usb_write_task with write_ep on the two IN endpoints, usb_read_task on  *)
(* the OUT endpoint (app/src/main.rs, app/src/usb_hci.rs), and led_task    *)
(* (app/src/led.rs), to which the writer signals its state.                *)
(*                                                                         *)
(* An HCI packet goes to the host as a transfer, a sequence of USB packets *)
(* of at most 64 bytes; the host knows the end of a transfer by a USB      *)
(* packet of fewer bytes.  An IN endpoint holds one USB packet until the   *)
(* host has taken it, and the driver's write() waits for it to be free.    *)
(* read() returns one USB packet.                                          *)
(*                                                                         *)
(* The host may disconnect at any moment.  It needs milliseconds to come   *)
(* back; by then the executor has polled the task whose write or read the  *)
(* disconnect has failed, so Connect finds no transfer in progress.        *)
(***************************************************************************)
EXTENDS Integers, Sequences, FiniteSets, Functions

CONSTANTS
  MaxPacket,    \* bytes in a USB packet (64)
  Depth,        \* CHANNEL_DEPTH
  InLengths,    \* lengths of the HCI packets for the host
  OutLengths,   \* lengths of the host's ACL packets
  MaxIn, MaxOut, MaxResets,   \* bounds: packets for the host, ACL packets of the
                \* host, disconnects
  None

\* HCI packets: the endpoint (4 interrupt IN, 2 bulk IN or OUT), a number that
\* identifies the packet, and its length.
Endpoints == {2, 4}
InPackets == [ep : Endpoints, id : 1 .. MaxIn, len : InLengths]
OutPackets == [ep : {2}, id : 1 .. MaxOut, len : OutLengths]

\* What USB packets of such packets can be: the bytes from "at" on.
Chunks(packets) ==
  {c \in [pkt : packets, at : Nat, len : 0 .. MaxPacket] : c.at + c.len <= c.pkt.len}

ASSUME TransferAssumption ==
  /\ MaxPacket \in Nat \ {0} /\ Depth \in Nat \ {0}
  /\ InLengths \subseteq Nat \ {0} /\ OutLengths \subseteq Nat \ {0}
  /\ MaxIn \in Nat /\ MaxOut \in Nat /\ MaxResets \in Nat
  /\ None \notin InPackets \cup Chunks(InPackets) \cup Chunks(OutPackets)
  /\ None \notin {"Off", "Blue", "Yellow"}

VARIABLES
  usbUp,      \* the host has configured the device: its endpoints are enabled
  resets,     \* disconnects so far
  netToHost,  \* NET_TO_HOST
  wrPc,       \* usb_write_task: "wait" (wait_enabled), "receive" or "write"
  wrPkt,      \* the packet it writes
  wrNext,     \* write_ep: index of the next USB packet
  inEp,       \* IN endpoint -> the USB packet it holds, or None
  partial,    \* host, per endpoint: the USB packets of a transfer not yet ended
  hostGot,    \* history, per endpoint: the transfers the host received
  sent,       \* history: the packets put into NET_TO_HOST
  lost,       \* history: the packets lost with a failed write or in an endpoint
  hostOut,    \* host: USB packets of its ACL packet that are still to be sent
  outEp,      \* the USB packet the OUT endpoint holds, or None
  rdPc,       \* usb_read_task: "wait" or "read"
  toNet,      \* history: what usb_read_task passed to ipc_send_to_net
  hostAcls,   \* host: how many ACL packets it has begun to send
  outSent,    \* history: the USB packets of these
  outLost,    \* history: those a disconnect kept from usb_read_task
  ledSignal,  \* LED_STATE: the colour signalled and not yet taken, or None
  ledPc,      \* led_task: "start" or "wait"
  lit         \* the channels switched on, <<red, green, blue>>

busVars == <<usbUp, resets>>
inVars == <<netToHost, wrPc, wrPkt, wrNext, inEp, partial, hostGot, sent, lost>>
outVars == <<hostOut, outEp, rdPc, toNet, hostAcls, outSent, outLost>>
ledVars == <<ledSignal, ledPc, lit>>
vars == <<busVars, inVars, outVars, ledVars>>

-----------------------------------------------------------------------------
(* Transfers. *)

Smaller(m, n) == IF m < n THEN m ELSE n

\* (Faulty variant) chunks_exact: the last piece has 64 bytes too.
PiecesExact(p) ==
  [i \in 1 .. (p.len + MaxPacket - 1) \div MaxPacket |->
     [pkt |-> p, at |-> (i - 1) * MaxPacket, len |-> MaxPacket]]

\* data.chunks(64)
Pieces(p) ==
  [i \in 1 .. (p.len + MaxPacket - 1) \div MaxPacket |->
     [pkt |-> p, at |-> (i - 1) * MaxPacket,
      len |-> Smaller(MaxPacket, p.len - (i - 1) * MaxPacket)]]

ZeroLength(p) == [pkt |-> p, at |-> p.len, len |-> 0]

\* (Faulty variant) no zero-length packet.
TransferNoZlp(p) == Pieces(p)

\* The writes of write_ep: the chunks, and a zero-length packet after a full one.
Transfer(p) ==
  IF p.len % MaxPacket = 0 THEN Append(Pieces(p), ZeroLength(p)) ELSE Pieces(p)

\* A host may leave out the zero-length packet when it sends.
HostTransfers(p) == {Pieces(p), Transfer(p)}

\* (Faulty variant) a colour that was not taken yet stays.
SignalKeepsFirst(c) == ledSignal' = IF ledSignal = None THEN c ELSE ledSignal

\* LED_STATE.signal: the last colour wins.
Signal(c) == ledSignal' = c

ChannelBits(c) ==
  CASE c = "Off"    -> <<FALSE, FALSE, FALSE>>
    [] c = "Blue"   -> <<FALSE, FALSE, TRUE>>
    [] c = "Yellow" -> <<TRUE, TRUE, FALSE>>

-----------------------------------------------------------------------------
\* main has spawned led_task, signalled the first colour and spawned the others;
\* the PWM channels are off before led_task starts.
Init ==
  /\ usbUp = FALSE /\ resets = 0
  /\ netToHost = <<>> /\ wrPc = "wait" /\ wrPkt = None /\ wrNext = 0
  /\ inEp = [e \in Endpoints |-> None]
  /\ partial = [e \in Endpoints |-> <<>>] /\ hostGot = [e \in Endpoints |-> <<>>]
  /\ sent = <<>> /\ lost = {}
  /\ hostOut = <<>> /\ outEp = None /\ rdPc = "wait"
  /\ toNet = <<>> /\ hostAcls = 0 /\ outSent = {} /\ outLost = {}
  /\ ledSignal = "Yellow" /\ ledPc = "start" /\ lit = ChannelBits("Off")

(* The bus. *)

Connect ==
  /\ ~usbUp /\ wrPc # "write" /\ rdPc = "wait"
  /\ usbUp' = TRUE
  /\ UNCHANGED <<resets, inVars, outVars, ledVars>>

\* The endpoints are emptied; the host forgets transfers it has not finished.
Disconnect ==
  /\ usbUp /\ resets < MaxResets
  /\ usbUp' = FALSE /\ resets' = resets + 1
  /\ inEp' = [e \in Endpoints |-> None]
  /\ partial' = [e \in Endpoints |-> <<>>]
  /\ lost' = lost \cup {inEp[e].pkt : e \in
       {f \in Endpoints : inEp[f] # None /\ inEp[f].len < MaxPacket}}
  /\ hostOut' = <<>> /\ outEp' = None
  /\ outLost' = outLost \cup Range(hostOut) \cup ({outEp} \ {None})
  /\ UNCHANGED <<netToHost, wrPc, wrPkt, wrNext, hostGot, sent, rdPc, toNet, hostAcls, outSent, ledVars>>

-----------------------------------------------------------------------------
(* Towards the host. *)

\* ipc_recv_task: NET_TO_HOST.send(pkt).await
Enqueue(p) ==
  /\ Len(sent) < MaxIn /\ p.id = Len(sent) + 1
  /\ Len(netToHost) < Depth
  /\ netToHost' = Append(netToHost, p) /\ sent' = Append(sent, p)
  /\ UNCHANGED <<busVars, wrPc, wrPkt, wrNext, inEp, partial, hostGot, lost, outVars, ledVars>>

\* event_ep.wait_enabled() returns.
WriteEnabled ==
  /\ wrPc = "wait" /\ usbUp
  /\ wrPc' = "receive"
  /\ Signal("Blue")
  /\ UNCHANGED <<busVars, netToHost, wrPkt, wrNext, inEp, partial, hostGot, sent, lost,
                 outVars, ledPc, lit>>

WriteReceive ==
  /\ wrPc = "receive" /\ netToHost # <<>>
  /\ wrPkt' = Head(netToHost) /\ netToHost' = Tail(netToHost)
  /\ wrPc' = "write" /\ wrNext' = 1
  /\ UNCHANGED <<busVars, inEp, partial, hostGot, sent, lost, outVars, ledVars>>

\* ep.write(chunk) returns Ok: the endpoint holds the next USB packet.
EpWrite ==
  /\ wrPc = "write" /\ usbUp
  /\ inEp[wrPkt.ep] = None
  /\ inEp' = [inEp EXCEPT ![wrPkt.ep] = Transfer(wrPkt)[wrNext]]

\* write_ep goes on to the next USB packet ...
WriteChunk ==
  /\ EpWrite
  /\ wrNext < Len(Transfer(wrPkt))
  /\ wrNext' = wrNext + 1
  /\ UNCHANGED <<busVars, netToHost, wrPc, wrPkt, partial, hostGot, sent, lost, outVars, ledVars>>

\* ... or returns Ok after the last one.
WriteDone ==
  /\ EpWrite
  /\ wrNext = Len(Transfer(wrPkt))
  /\ wrPc' = "receive" /\ wrPkt' = None /\ wrNext' = 0
  /\ UNCHANGED <<busVars, netToHost, partial, hostGot, sent, lost, outVars, ledVars>>

\* (Faulty variant) the task ends after a failed write.
WriteFailedStops ==
  /\ wrPc = "write" /\ ~usbUp
  /\ lost' = lost \cup {wrPkt}
  /\ wrPc' = "stopped" /\ wrPkt' = None /\ wrNext' = 0
  /\ Signal("Yellow")
  /\ UNCHANGED <<busVars, netToHost, inEp, partial, hostGot, sent, outVars, ledPc, lit>>

\* ep.write returns an error, and write_ep with it.
WriteFailed ==
  /\ wrPc = "write" /\ ~usbUp
  /\ lost' = lost \cup {wrPkt}
  /\ wrPc' = "wait" /\ wrPkt' = None /\ wrNext' = 0
  /\ Signal("Yellow")
  /\ UNCHANGED <<busVars, netToHost, inEp, partial, hostGot, sent, outVars, ledPc, lit>>

\* The host takes a USB packet; a short one ends the transfer.
HostTakes(e) ==
  LET all == Append(partial[e], inEp[e]) IN
  /\ usbUp /\ inEp[e] # None
  /\ inEp' = [inEp EXCEPT ![e] = None]
  /\ \/ /\ inEp[e].len < MaxPacket
        /\ hostGot' = [hostGot EXCEPT ![e] = Append(@, all)]
        /\ partial' = [partial EXCEPT ![e] = <<>>]
     \/ /\ inEp[e].len = MaxPacket
        /\ partial' = [partial EXCEPT ![e] = all]
        /\ UNCHANGED hostGot
  /\ UNCHANGED <<busVars, netToHost, wrPc, wrPkt, wrNext, sent, lost, outVars, ledVars>>

-----------------------------------------------------------------------------
(* From the host. *)

\* The host begins to send an ACL packet.
HostSends(p) ==
  /\ usbUp /\ hostOut = <<>>
  /\ p.id = hostAcls + 1 /\ hostAcls' = hostAcls + 1
  /\ \E t \in HostTransfers(p) : hostOut' = t /\ outSent' = outSent \cup Range(t)
  /\ UNCHANGED <<busVars, inVars, outEp, rdPc, toNet, outLost, ledVars>>

HostPuts ==
  /\ usbUp /\ hostOut # <<>> /\ outEp = None
  /\ outEp' = Head(hostOut) /\ hostOut' = Tail(hostOut)
  /\ UNCHANGED <<busVars, inVars, rdPc, toNet, hostAcls, outSent, outLost, ledVars>>

ReadEnabled ==
  /\ rdPc = "wait" /\ usbUp
  /\ rdPc' = "read"
  /\ UNCHANGED <<busVars, inVars, hostOut, outEp, toNet, hostAcls, outSent, outLost, ledVars>>

\* read() returns one USB packet, which goes to the net core as an ACL packet.
ReadAcl ==
  /\ rdPc = "read" /\ usbUp
  /\ outEp # None
  /\ toNet' = Append(toNet, outEp) /\ outEp' = None
  /\ UNCHANGED <<busVars, inVars, hostOut, rdPc, hostAcls, outSent, outLost, ledVars>>

\* (Faulty variant) the buffer is forwarded whatever read() returns.
ReadDisabledForwards ==
  /\ rdPc = "read" /\ ~usbUp
  /\ rdPc' = "wait"
  /\ toNet' = IF toNet = <<>> THEN toNet ELSE Append(toNet, toNet[Len(toNet)])
  /\ UNCHANGED <<busVars, inVars, hostOut, outEp, hostAcls, outSent, outLost, ledVars>>

\* read() returns an error.
ReadDisabled ==
  /\ rdPc = "read" /\ ~usbUp
  /\ rdPc' = "wait"
  /\ UNCHANGED <<busVars, inVars, hostOut, outEp, toNet, hostAcls, outSent, outLost, ledVars>>

-----------------------------------------------------------------------------
(* led_task *)

LedStart ==
  /\ ledPc = "start"
  /\ ledPc' = "wait" /\ lit' = ChannelBits("Off")
  /\ UNCHANGED <<busVars, inVars, outVars, ledSignal>>

LedShow ==
  /\ ledPc = "wait" /\ ledSignal # None
  /\ lit' = ChannelBits(ledSignal) /\ ledSignal' = None
  /\ UNCHANGED <<busVars, inVars, outVars, ledPc>>

-----------------------------------------------------------------------------
WriteTask == WriteEnabled \/ WriteReceive \/ WriteChunk \/ WriteDone \/ WriteFailed
ReadTask == ReadEnabled \/ ReadAcl \/ ReadDisabled
LedTask == LedStart \/ LedShow

Next ==
  \/ Connect \/ Disconnect
  \/ \E p \in InPackets : Enqueue(p)
  \/ WriteTask
  \/ \E e \in Endpoints : HostTakes(e)
  \/ \E p \in OutPackets : HostSends(p)
  \/ HostPuts \/ ReadTask \/ LedTask

Spec == Init /\ [][Next]_vars

\* The executor polls every task whose await is over.
FairSpec == Spec /\ WF_vars(WriteTask) /\ WF_vars(ReadTask) /\ WF_vars(LedTask)

-----------------------------------------------------------------------------
(* Properties. *)

TypeOK ==
  /\ usbUp \in BOOLEAN /\ resets \in 0 .. MaxResets
  /\ netToHost \in Seq(InPackets) /\ Len(netToHost) <= Depth
  /\ \/ wrPc \in {"wait", "receive"} /\ wrPkt = None /\ wrNext = 0
     \/ wrPc = "write" /\ wrPkt \in InPackets /\ wrNext \in 1 .. Len(Transfer(wrPkt))
  /\ inEp \in [Endpoints -> Chunks(InPackets) \cup {None}]
  /\ partial \in [Endpoints -> Seq(Chunks(InPackets))]
  /\ hostGot \in [Endpoints -> Seq(Seq(Chunks(InPackets)))]
  /\ sent \in Seq(InPackets) /\ lost \subseteq InPackets
  /\ rdPc \in {"wait", "read"}
  /\ hostOut \in Seq(Chunks(OutPackets)) /\ toNet \in Seq(Chunks(OutPackets))
  /\ outEp \in Chunks(OutPackets) \cup {None}
  /\ hostAcls \in 0 .. MaxOut
  /\ outSent \subseteq Chunks(OutPackets) /\ outLost \subseteq Chunks(OutPackets)
  /\ ledSignal \in {None, "Blue", "Yellow"} /\ ledPc \in {"start", "wait"}
  /\ lit \in BOOLEAN \X BOOLEAN \X BOOLEAN

\* The packet a transfer of the host is, if it has exactly its bytes.
Whole(t) == IF t = Transfer(t[1].pkt) THEN t[1].pkt ELSE None

\* The packet that the host has when it takes what an endpoint holds.
Ends(c) == IF c # None /\ c.len < MaxPacket THEN c.pkt ELSE None

Offered == [e \in Endpoints |-> Ends(inEp[e])]

Got == [e \in Endpoints |-> [i \in DOMAIN hostGot[e] |-> Whole(hostGot[e][i])]]

Delivery == INSTANCE UsbDelivery WITH
  Packets <- InPackets, EndpointOf <- [p \in InPackets |-> p.ep],
  up <- usbUp, channel <- netToHost, writer <- wrPc, hand <- wrPkt,
  offered <- Offered, got <- Got

\* Packet by packet the host sees what UsbDelivery says: each transfer is one
\* HCI packet with all its bytes, whatever the lengths (a multiple of 64 is ended
\* by a zero-length packet, no other length is), and wherever a disconnect falls,
\* the pieces of an unfinished transfer never become part of a later one.
ImplementsDelivery == Delivery!Spec

\* The USB packets of the host that are not lost, from the net core to those the
\* host still has to send.
OutStream == toNet \o (IF outEp # None THEN <<outEp>> ELSE <<>>) \o hostOut

\* The host sends c before d.
Before(c, d) == c.pkt.id < d.pkt.id \/ (c.pkt.id = d.pkt.id /\ c.at < d.at)

\* What usb_read_task passes on, what the endpoint holds and what the host still
\* has to send is what it sent, piece by piece in its order, save what a disconnect
\* lost: no piece is missed, forwarded twice, out of order or after its session.
OutPiecesInOrder ==
  /\ \A i, j \in DOMAIN OutStream : i < j => Before(OutStream[i], OutStream[j])
  /\ Range(OutStream) = outSent \ outLost

\* Once led_task has taken the last colour the LED tells what the writer does:
\* yellow while it waits for USB, blue from then to the next failed write,
\* however the signals and the two tasks interleave.
LedTellsWriter ==
  (ledPc = "wait" /\ ledSignal = None) =>
    lit = ChannelBits(IF wrPc = "wait" THEN "Yellow" ELSE "Blue")

\* A host that connects, even again after a disconnect in the middle of a
\* transfer, finds the writer running: the LED turns blue.
ConnectedShown == usbUp ~> (~usbUp \/ lit = ChannelBits("Blue"))

-----------------------------------------------------------------------------
\* "Reads HCI ACL data sent by the host and forwards it to the net core via the
\* IPC ring buffer", whose frames are HCI packets: each frame is an ACL packet of
\* the host.  Run usb_acl_split shows one of more than MaxPacket bytes arriving as
\* several.
AclWhole == \A i \in DOMAIN toNet : toNet[i].at = 0 /\ toNet[i].len = toNet[i].pkt.len
=============================================================================

----------------------------- MODULE HciBridge ------------------------------
(***************************************************************************)
(* The bridge end to end: a USB host, the tasks of the app core            *)
(* (app/src/main.rs, app/src/usb_hci.rs), the two loops of the net core    *)
(* (net/src/main.rs), and between the cores one IpcLink per direction.     *)
(*                                                                         *)
(*   host -> control_out -> HCI_CMD_CHANNEL -> cmd_task -\                 *)
(*   host -> bulk OUT -> usb_read_task ------------------- A2N -> net core *)
(*   host <- usb_write_task <- NET_TO_HOST <- ipc_recv_task <- N2A <-/     *)
(*                                                                         *)
(* Both cores schedule cooperatively: a task that has written a ring       *)
(* triggers the event before another task of its core runs.                *)
(*                                                                         *)
(* A packet is a triple <<indicator, kind, number>>; the number identifies *)
(* it.  The host is modelled from the Bluetooth rules it follows: it sends *)
(* a command only with a command credit, of which it has one after it      *)
(* connects, and an answer (Command Complete or Command Status, both with  *)
(* num_hci_cmd_packets = 1) sets its credits to one.  A disconnect may     *)
(* come at any moment and loses the host's state, not the firmware's.      *)
(***************************************************************************)
EXTENDS Integers, Sequences, FiniteSets, Functions

CONSTANTS
  Depth,      \* CHANNEL_DEPTH
  RingSize,   \* bytes of each ring; a packet here takes 5
  Kinds,      \* of the commands the host sends, a subset of CommandKinds
  Indicators, \* of the controller's packets: event (4), ACL data (2)
  MaxCmds, MaxAcls, MaxCtrls, MaxResets,   \* bounds: commands and ACL packets of
              \* the host, packets of the controller, disconnects
  None        \* Option::None

\* Whether dispatch_hci_cmd knows the opcode.
CommandKinds == {"known", "unknown"}

Cmd(k, n) == <<1, k, n>>       \* HCI Command
Acl(n) == <<2, "host", n>>     \* HCI ACL data, host to controller
Answer(n) == <<4, "answer", n>>      \* Command Complete or Command Status
CtrlPacket(i, n) == <<i, "ctrl", n>> \* event (4) or ACL data (2) of the controller

DownPackets ==
  {Cmd(k, n) : k \in CommandKinds, n \in 1 .. MaxCmds} \cup {Acl(n) : n \in 1 .. MaxAcls}

UpPackets ==
  {Answer(n) : n \in 1 .. MaxCmds} \cup {CtrlPacket(i, n) : i \in Indicators, n \in 1 .. MaxCtrls}

ASSUME BridgeAssumption ==
  /\ Depth \in Nat \ {0} /\ RingSize \in Nat
  /\ Kinds \subseteq CommandKinds
  /\ Indicators \subseteq {2, 4}
  /\ MaxCmds \in Nat /\ MaxAcls \in Nat /\ MaxCtrls \in Nat /\ MaxResets \in Nat
  /\ None \notin DownPackets \cup UpPackets

\* The IN endpoints by the packets they carry: ACL data (2), events (4).
Endpoints == {2, 4}

IsCmd(p) == p[1] = 1
IsAcl(p) == p[1] = 2
IsAnswer(p) == p[2] = "answer"

VARIABLES
  usbUp,      \* the host has configured the device: its endpoints are enabled
  resets,     \* disconnects so far
  credit,     \* host: commands it may send now
  cmdChan,    \* HCI_CMD_CHANNEL
  netToHost,  \* NET_TO_HOST
  rdPc,       \* usb_read_task: "wait" (wait_enabled) or "read"
  wrPc,       \* usb_write_task: "wait" (wait_enabled), "receive" or "write"
  wrPkt,      \* usb_write_task: the packet being written
  inEp,       \* IN endpoint -> the packet it holds for the host, or None
  a2nQueue, a2nUsed, a2nSent, a2nRecv, a2nLatch, a2nTx, a2nRx, a2nOn, a2nEarly,  \* app to net
  n2aQueue, n2aUsed, n2aSent, n2aRecv, n2aLatch, n2aTx, n2aRx, n2aOn, n2aEarly,  \* net to app
  hostCmds, hostAcls,   \* how many commands and ACL packets the host has sent
  ctrls,      \* how many packets the controller has handed out
  hostSent,   \* history: what the host sent
  netTook,    \* history: what ipc_rx_loop handled, in order
  netSent,    \* history: what the net core passed to notify_app, in order
  hostGot,    \* history, per IN endpoint: what the host received, in order
  lost        \* history: packets dropped, with where

hostVars == <<usbUp, resets, credit>>
a2nVars == <<a2nQueue, a2nUsed, a2nSent, a2nRecv, a2nLatch, a2nTx, a2nRx,
             a2nOn, a2nEarly>>
n2aVars == <<n2aQueue, n2aUsed, n2aSent, n2aRecv, n2aLatch, n2aTx, n2aRx,
             n2aOn, n2aEarly>>
writeVars == <<wrPc, wrPkt, inEp>>
hostHist == <<hostCmds, hostAcls, hostSent, hostGot>>
netHist == <<ctrls, netTook, netSent>>
histVars == <<hostHist, netHist, lost>>
vars == <<hostVars, cmdChan, netToHost, rdPc, writeVars, a2nVars, n2aVars, histVars>>

A2N == INSTANCE IpcLink WITH
  Capacity <- RingSize, OutLen <- 3, Packets <- DownPackets,
  queue <- a2nQueue, used <- a2nUsed, sendRet <- a2nSent, recvRet <- a2nRecv,
  latch <- a2nLatch, txPc <- a2nTx, rxPc <- a2nRx, listening <- a2nOn, early <- a2nEarly

N2A == INSTANCE IpcLink WITH
  Capacity <- RingSize, OutLen <- 3, Packets <- UpPackets,
  queue <- n2aQueue, used <- n2aUsed, sendRet <- n2aSent, recvRet <- n2aRecv,
  latch <- n2aLatch, txPc <- n2aTx, rxPc <- n2aRx, listening <- n2aOn, early <- n2aEarly

\* The app core has configured its event, started its tasks and released the net
\* core, which has not configured its own event yet.
Init ==
  /\ usbUp = FALSE /\ resets = 0 /\ credit = 0
  /\ cmdChan = <<>> /\ netToHost = <<>>
  /\ rdPc = "wait" /\ wrPc = "wait" /\ wrPkt = None
  /\ inEp = [e \in Endpoints |-> None]
  /\ A2N!Init /\ a2nOn = FALSE
  /\ N2A!Init /\ n2aOn = TRUE
  /\ hostCmds = 0 /\ hostAcls = 0 /\ ctrls = 0
  /\ hostSent = {} /\ hostGot = [e \in Endpoints |-> <<>>]
  /\ netTook = <<>> /\ netSent = <<>> /\ lost = {}

\* No task of the core is between its ring write and the trigger.
AppFree == a2nTx = "idle"
NetFree == n2aTx = "idle"

-----------------------------------------------------------------------------
(* The USB bus and the host. *)

Connect ==
  /\ ~usbUp
  /\ usbUp' = TRUE /\ credit' = 1
  /\ UNCHANGED <<resets, cmdChan, netToHost, rdPc, writeVars, a2nVars, n2aVars, histVars>>

\* What the endpoints hold is gone.
Disconnect ==
  /\ usbUp
  /\ resets < MaxResets
  /\ usbUp' = FALSE /\ credit' = 0 /\ resets' = resets + 1
  /\ inEp' = [e \in Endpoints |-> None]
  /\ lost' = lost \cup ({<<"usb", inEp[e]>> : e \in Endpoints} \ {<<"usb", None>>})
  /\ UNCHANGED <<cmdChan, netToHost, rdPc, wrPc, wrPkt, a2nVars, n2aVars, hostHist, netHist>>

\* The host takes a packet from an IN endpoint; an answer gives it a credit.
HostTakes(e) ==
  /\ usbUp
  /\ inEp[e] # None
  /\ hostGot' = [hostGot EXCEPT ![e] = Append(@, inEp[e])]
  /\ credit' = IF IsAnswer(inEp[e]) THEN 1 ELSE credit
  /\ inEp' = [inEp EXCEPT ![e] = None]
  /\ UNCHANGED <<usbUp, resets, cmdChan, netToHost, rdPc, wrPc, wrPkt, a2nVars, n2aVars,
                 hostCmds, hostAcls, hostSent, netHist, lost>>

\* The host sends its next command.
HostCommands(p) ==
  /\ usbUp /\ credit = 1 /\ credit' = 0
  /\ p[3] = hostCmds + 1 /\ hostCmds < MaxCmds /\ hostCmds' = hostCmds + 1
  /\ hostSent' = hostSent \cup {p}
  /\ UNCHANGED <<usbUp, resets, netToHost, rdPc, writeVars, a2nVars, n2aVars,
                 hostAcls, hostGot, netHist>>

\* (Faulty variant) the channel grows past its depth.
ControlOutUnbounded(k) ==
  LET p == Cmd(k, hostCmds + 1) IN
  /\ AppFree
  /\ HostCommands(p)
  /\ cmdChan' = Append(cmdChan, p) /\ UNCHANGED lost

\* (Faulty variant) the last slot of the channel is never used.
ControlOutOffByOne(k) ==
  LET p == Cmd(k, hostCmds + 1) IN
  /\ AppFree
  /\ HostCommands(p)
  /\ \/ /\ Len(cmdChan) < Depth - 1
        /\ cmdChan' = Append(cmdChan, p)
        /\ UNCHANGED lost
     \/ /\ Len(cmdChan) >= Depth - 1
        /\ lost' = lost \cup {<<"channel", p>>}
        /\ UNCHANGED cmdChan

\* The host's class request reaches control_out, which accepts it and drops it
\* if the channel is full.
ControlOut(k) ==
  LET p == Cmd(k, hostCmds + 1) IN
  /\ AppFree
  /\ HostCommands(p)
  /\ \/ /\ Len(cmdChan) < Depth
        /\ cmdChan' = Append(cmdChan, p)
        /\ UNCHANGED lost
     \/ /\ Len(cmdChan) = Depth
        /\ lost' = lost \cup {<<"channel", p>>}
        /\ UNCHANGED cmdChan

-----------------------------------------------------------------------------
(* App core, towards the net core. *)

\* ipc_send_to_net: write the ring, or drop the packet when the ring is full.
SendToNet(p) ==
  \/ A2N!SendPacket(p) /\ UNCHANGED lost
  \/ A2N!DropPacket(p) /\ lost' = lost \cup {<<"a2n", p>>}

TriggerNet ==
  /\ A2N!TriggerEvent
  /\ UNCHANGED <<hostVars, cmdChan, netToHost, rdPc, writeVars, n2aVars, histVars>>

\* (Faulty variant) the command stays in the channel.
CmdTaskPeek ==
  /\ AppFree
  /\ cmdChan # <<>>
  /\ SendToNet(Head(cmdChan))
  /\ UNCHANGED <<hostVars, cmdChan, netToHost, rdPc, writeVars, n2aVars, hostHist, netHist>>

CmdTask ==
  /\ AppFree
  /\ cmdChan # <<>>
  /\ cmdChan' = Tail(cmdChan)
  /\ SendToNet(Head(cmdChan))
  /\ UNCHANGED <<hostVars, netToHost, rdPc, writeVars, n2aVars, hostHist, netHist>>

ReadEnabled ==
  /\ AppFree
  /\ rdPc = "wait" /\ usbUp
  /\ rdPc' = "read"
  /\ UNCHANGED <<hostVars, cmdChan, netToHost, writeVars, a2nVars, n2aVars, histVars>>

\* read() returns what the host put on the bulk OUT endpoint.
ReadAcl ==
  LET p == Acl(hostAcls + 1) IN
  /\ AppFree
  /\ rdPc = "read" /\ usbUp
  /\ hostAcls < MaxAcls /\ hostAcls' = hostAcls + 1
  /\ hostSent' = hostSent \cup {p}
  /\ SendToNet(p)
  /\ UNCHANGED <<hostVars, cmdChan, netToHost, rdPc, writeVars, n2aVars,
                 hostCmds, hostGot, netHist>>

\* read() returns Disabled.
ReadDisabled ==
  /\ AppFree
  /\ rdPc = "read" /\ ~usbUp
  /\ rdPc' = "wait"
  /\ UNCHANGED <<hostVars, cmdChan, netToHost, writeVars, a2nVars, n2aVars, histVars>>

-----------------------------------------------------------------------------
(* App core, towards the host. *)

\* ipc_recv_task up to the point where it has a packet.
RecvTaskWait ==
  /\ AppFree
  /\ N2A!WaitEvent \/ N2A!ReadPacket \/ N2A!ReadEmpty \/ N2A!ReturnToWait
  /\ UNCHANGED <<hostVars, cmdChan, netToHost, rdPc, writeVars, a2nVars, histVars>>

\* (Faulty variant) try_send: a full channel drops the packet.
RecvTaskForwardOrDrop ==
  /\ AppFree
  /\ N2A!HandlePacket
  /\ netToHost' = IF Len(netToHost) < Depth THEN Append(netToHost, n2aRecv) ELSE netToHost
  /\ UNCHANGED <<hostVars, cmdChan, rdPc, writeVars, a2nVars, histVars>>

\* NET_TO_HOST.send(pkt).await: blocks while the channel is full.
RecvTaskForward ==
  /\ AppFree
  /\ Len(netToHost) < Depth
  /\ N2A!HandlePacket
  /\ netToHost' = Append(netToHost, n2aRecv)
  /\ UNCHANGED <<hostVars, cmdChan, rdPc, writeVars, a2nVars, histVars>>

WriteEnabled ==
  /\ AppFree
  /\ wrPc = "wait" /\ usbUp
  /\ wrPc' = "receive"
  /\ UNCHANGED <<hostVars, cmdChan, netToHost, rdPc, wrPkt, inEp, a2nVars, n2aVars, histVars>>

WriteReceive ==
  /\ AppFree
  /\ wrPc = "receive" /\ netToHost # <<>>
  /\ wrPkt' = Head(netToHost) /\ netToHost' = Tail(netToHost)
  /\ wrPc' = "write"
  /\ UNCHANGED <<hostVars, cmdChan, rdPc, inEp, a2nVars, n2aVars, histVars>>

\* write_ep returns Ok: the endpoint, free since the host took the packet before,
\* holds the packet.
WriteDone ==
  /\ AppFree
  /\ wrPc = "write" /\ usbUp
  /\ inEp[wrPkt[1]] = None
  /\ inEp' = [inEp EXCEPT ![wrPkt[1]] = wrPkt]
  /\ wrPc' = "receive" /\ wrPkt' = None
  /\ UNCHANGED <<hostVars, cmdChan, netToHost, rdPc, a2nVars, n2aVars, histVars>>

\* (Faulty variant) the task ends after a failed write.
WriteFailedStops ==
  /\ AppFree
  /\ wrPc = "write" /\ ~usbUp
  /\ lost' = lost \cup {<<"usb", wrPkt>>}
  /\ wrPc' = "stopped" /\ wrPkt' = None
  /\ UNCHANGED <<hostVars, cmdChan, netToHost, rdPc, inEp, a2nVars, n2aVars, hostHist, netHist>>

\* write_ep returns an error: the packet is gone and the task waits for USB.
WriteFailed ==
  /\ AppFree
  /\ wrPc = "write" /\ ~usbUp
  /\ lost' = lost \cup {<<"usb", wrPkt>>}
  /\ wrPc' = "wait" /\ wrPkt' = None
  /\ UNCHANGED <<hostVars, cmdChan, netToHost, rdPc, inEp, a2nVars, n2aVars, hostHist, netHist>>

-----------------------------------------------------------------------------
(* Net core.  Its two loops are joined in one task: sdc_event_loop runs only *)
(* while ipc_rx_loop awaits the event.                                       *)

NotifyApp(p) ==
  /\ netSent' = Append(netSent, p)
  /\ \/ N2A!SendPacket(p) /\ UNCHANGED lost
     \/ N2A!DropPacket(p) /\ lost' = lost \cup {<<"n2a", p>>}

TriggerApp ==
  /\ N2A!TriggerEvent
  /\ UNCHANGED <<hostVars, cmdChan, netToHost, rdPc, writeVars, a2nVars, histVars>>

\* main up to the start of the loops: the event is configured.
NetBoot ==
  /\ A2N!Configure
  /\ UNCHANGED <<hostVars, cmdChan, netToHost, rdPc, writeVars, n2aVars, histVars>>

RxLoopWait ==
  /\ NetFree
  /\ A2N!WaitEvent \/ A2N!ReadPacket \/ A2N!ReadEmpty \/ A2N!ReturnToWait
  /\ UNCHANGED <<hostVars, cmdChan, netToHost, rdPc, writeVars, n2aVars, histVars>>

\* (Faulty variant) waits for room in the ring to the app core.
DispatchKnownWaits ==
  /\ NetFree
  /\ A2N!HandlePacket
  /\ IsCmd(a2nRecv) /\ a2nRecv[2] = "known"
  /\ N2A!SendPacket(Answer(a2nRecv[3]))
  /\ netSent' = Append(netSent, Answer(a2nRecv[3]))
  /\ netTook' = Append(netTook, a2nRecv)
  /\ UNCHANGED <<hostVars, cmdChan, netToHost, rdPc, writeVars, hostHist, ctrls, lost>>

\* dispatch_hci_cmd of a known opcode: the SDC function runs, one answer is sent.
DispatchKnown ==
  /\ NetFree
  /\ A2N!HandlePacket
  /\ IsCmd(a2nRecv) /\ a2nRecv[2] = "known"
  /\ NotifyApp(Answer(a2nRecv[3]))
  /\ netTook' = Append(netTook, a2nRecv)
  /\ UNCHANGED <<hostVars, cmdChan, netToHost, rdPc, writeVars, hostHist, ctrls>>

\* An unknown opcode is only logged; ACL data goes to hci_data_put.
DispatchSilent ==
  /\ NetFree
  /\ A2N!HandlePacket
  /\ IsAcl(a2nRecv) \/ a2nRecv[2] = "unknown"
  /\ netTook' = Append(netTook, a2nRecv)
  /\ UNCHANGED <<hostVars, cmdChan, netToHost, rdPc, writeVars, n2aVars,
                 hostHist, ctrls, netSent, lost>>

\* (Faulty variant) sdc_event_loop runs beside ipc_rx_loop.
SdcEventAnytime(i) ==
  /\ NetFree
  /\ a2nOn
  /\ ctrls < MaxCtrls /\ ctrls' = ctrls + 1
  /\ NotifyApp(CtrlPacket(i, ctrls + 1))
  /\ UNCHANGED <<hostVars, cmdChan, netToHost, rdPc, writeVars, a2nVars, hostHist, netTook>>

\* hci_get returns an event or ACL data of the controller.
SdcEvent(i) ==
  /\ NetFree
  /\ a2nOn /\ a2nRx = "wait"
  /\ ctrls < MaxCtrls /\ ctrls' = ctrls + 1
  /\ NotifyApp(CtrlPacket(i, ctrls + 1))
  /\ UNCHANGED <<hostVars, cmdChan, netToHost, rdPc, writeVars, a2nVars, hostHist, netTook>>

-----------------------------------------------------------------------------
ReadTask == ReadEnabled \/ ReadDisabled
RecvTask == RecvTaskWait \/ RecvTaskForward
WriteTask == WriteEnabled \/ WriteReceive \/ WriteDone \/ WriteFailed
RxLoop == NetBoot \/ RxLoopWait \/ DispatchKnown \/ DispatchSilent

Next ==
  \/ Connect \/ Disconnect
  \/ \E k \in Kinds : ControlOut(k)
  \/ TriggerNet \/ CmdTask \/ ReadTask \/ ReadAcl
  \/ RecvTask \/ WriteTask
  \/ \E e \in Endpoints : HostTakes(e)
  \/ TriggerApp \/ RxLoop
  \/ \E i \in Indicators : SdcEvent(i)

Spec == Init /\ [][Next]_vars

\* The executors poll every task whose await is over.
FirmwareFair ==
  /\ WF_vars(TriggerNet) /\ WF_vars(CmdTask) /\ WF_vars(ReadTask)
  /\ WF_vars(RecvTask) /\ WF_vars(WriteTask)
  /\ WF_vars(TriggerApp) /\ WF_vars(RxLoop)

\* The host reads both its IN endpoints as long as it is connected.
HostFair == \A e \in Endpoints : WF_vars(HostTakes(e))

\* Firmware that runs, facing a host that need not read.
FirmwareSpec == Spec /\ FirmwareFair

FairSpec == Spec /\ FirmwareFair /\ HostFair

-----------------------------------------------------------------------------
(* Properties. *)

Places == {"channel", "a2n", "n2a", "usb"}

Lost == {w[2] : w \in lost}

NetHand == IF a2nRx = "handle" THEN <<a2nRecv>> ELSE <<>>
AppHand == IF n2aRx = "handle" THEN <<n2aRecv>> ELSE <<>>
Writing == IF wrPc = "write" THEN <<wrPkt>> ELSE <<>>

TypeOK ==
  /\ A2N!TypeOK /\ N2A!TypeOK
  /\ usbUp \in BOOLEAN /\ resets \in 0 .. MaxResets /\ credit \in 0 .. 1
  /\ cmdChan \in Seq(DownPackets) /\ Len(cmdChan) <= Depth
  /\ netToHost \in Seq(UpPackets) /\ Len(netToHost) <= Depth
  /\ rdPc \in {"wait", "read"}
  /\ \/ wrPc \in {"wait", "receive"} /\ wrPkt = None
     \/ wrPc = "write" /\ wrPkt \in UpPackets
  /\ inEp \in [Endpoints -> UpPackets \cup {None}]
  /\ hostCmds \in 0 .. MaxCmds /\ hostAcls \in 0 .. MaxAcls /\ ctrls \in 0 .. MaxCtrls
  /\ hostSent \subseteq DownPackets /\ hostGot \in [Endpoints -> Seq(UpPackets)]
  /\ netTook \in Seq(DownPackets) /\ netSent \in Seq(UpPackets)
  /\ lost \subseteq Places \X (DownPackets \cup UpPackets)

\* What the net core took, and what is under way to it.
DownStream == netTook \o NetHand \o a2nQueue \o cmdChan

\* From the host to the net core no packet is duplicated, overtaken by one of
\* its kind, or gone without a full channel or ring: what the net core took,
\* what is under way and nothing else is what the host sent.
DownstreamInOrder ==
  /\ \A i, j \in DOMAIN DownStream :
       i < j /\ DownStream[i][1] = DownStream[j][1] => DownStream[i][3] < DownStream[j][3]
  /\ Range(DownStream) = hostSent \ Lost

\* What an IN endpoint holds, as a sequence.
Offered(e) == IF inEp[e] # None THEN <<inEp[e]>> ELSE <<>>

\* What is under way to the two endpoints.
Back == Writing \o (netToHost \o (AppHand \o n2aQueue))

\* What the host got from an endpoint, what it holds, and what is under way.
UpStream(e) == hostGot[e] \o Offered(e) \o Back

\* The net core passed p to notify_app before q.
SentBefore(p, q) ==
  \E i, j \in DOMAIN netSent : i < j /\ netSent[i] = p /\ netSent[j] = q

\* The same from the net core to the host: only a full ring (notify_app) and a
\* disconnect lose packets, and events keep their order, and so does ACL data.
\* (Between the two there is no order: the host may take ACL data that was
\* written after an event it has not taken.)
UpstreamInOrder ==
  \A e \in Endpoints :
    LET s == UpStream(e)
        Mine == {i \in DOMAIN s : s[i][1] = e} IN
    /\ \A i, j \in Mine : i < j => SentBefore(s[i], s[j])
    /\ {s[i] : i \in Mine} = {p \in Range(netSent) : p[1] = e} \ Lost

\* Neither core sleeps on a ring with a packet in it.
NoLostWakeup == A2N!NoLostWakeup /\ N2A!NoLostWakeup

\* The net core of the bridge is a CommandServer.
Server == INSTANCE CommandServer WITH
  Arrivals <- DownPackets,
  Known <- {Cmd("known", n) : n \in 1 .. MaxCmds},
  AnswerTo <- [p \in {Cmd("known", n) : n \in 1 .. MaxCmds} |-> Answer(p[3])],
  Reports <- {CtrlPacket(i, n) : i \in Indicators, n \in 1 .. MaxCtrls},
  inbox <- NetHand \o a2nQueue, busy <- (a2nRx # "wait"), outbox <- netSent

\* Between its two rings, whatever they hold and drop, the net core answers each
\* known command once, in order, with nothing between a command and its answer.
ImplementsServer == Server!Spec

\* The numbers of the commands on their way to the net core, and of the answers on
\* their way to the host.
CmdsUnderWay ==
  {n \in 1 .. MaxCmds : \E k \in CommandKinds : Cmd(k, n) \in Range(NetHand \o a2nQueue \o cmdChan)}

AnswersUnderWay ==
  {n \in 1 .. MaxCmds :
     Answer(n) \in Range(Offered(4) \o Back)}

\* The one command credit an answer carries keeps the commands under way at one
\* per USB session begun.
CreditsBoundCommands ==
  credit + Cardinality(CmdsUnderWay) + Cardinality(AnswersUnderWay) <= 1 + resets

\* HCI_CMD_CHANNEL, with room for CHANNEL_DEPTH commands, drops none before the
\* host has disconnected that often: control_out may accept a command without
\* being able to queue it, but flow control keeps it from happening.
ChannelTakesCommands == resets < Depth => \A w \in lost : w[1] # "channel"

\* What a host may conclude from an answer, whatever was dropped on the way there or
\* back and whichever session it comes from: it belongs to a command with a known
\* opcode that the host sent and the net core handled, and the answers come in the
\* order of their commands, none twice.
AnswersMatchCommands ==
  LET Got == hostGot[4]
      Mine == {i \in DOMAIN Got : IsAnswer(Got[i])} IN
  /\ \A i \in Mine : Cmd("known", Got[i][3]) \in Range(netTook) \cap (hostSent \ Lost)
  /\ \A i, j \in Mine : i < j => Got[i][3] < Got[j][3]

\* The net core takes every command, whether or not the host reads its answers:
\* a host that is stalled or gone never blocks the controller.  Also commands whose
\* trigger came before the net core had configured its event are taken, once
\* another trigger comes.
CommandsTaken ==
  []<>~a2nEarly =>
    \A k \in Kinds, n \in 1 .. MaxCmds :
      Cmd(k, n) \in hostSent ~> Cmd(k, n) \in Range(netTook) \cup Lost

\* A host that stays connected and reads gets an answer to each command with a
\* known opcode, unless a full channel or ring dropped the command or the answer.
AnswersArrive ==
  HostFair /\ []<>~a2nEarly =>
    \A n \in 1 .. MaxCmds :
      Cmd("known", n) \in hostSent ~>
        \/ Answer(n) \in Range(hostGot[4])
        \/ Cmd("known", n) \in Lost \/ Answer(n) \in Lost
        \/ ~usbUp

-----------------------------------------------------------------------------
\* "The host's Bluetooth stack drives it exactly like any USB BT dongle": it may
\* count on an answer to every command, known or not.  Run bridge_unanswered
\* shows that an unknown opcode gets none, and that the host can then send no
\* further command.
EveryCommandAnswered ==
  (usbUp /\ credit = 0) ~> (~usbUp \/ credit = 1 \/ a2nEarly)

\* "On disconnect, loops back to wait_enabled()": usb_write_task does so only
\* when a write fails.  Run bridge_disconnect shows it waiting for a packet
\* with USB gone.
DisconnectNoticed == ~usbUp ~> (usbUp \/ wrPc = "wait")
=============================================================================

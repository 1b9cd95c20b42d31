---------------------------- MODULE UsbDelivery -----------------------------
(***************************************************************************)
(* What the rest of the bridge may rely on when it puts a packet into      *)
(* NET_TO_HOST (app/src/main.rs, app/src/usb_hci.rs): usb_write_task takes *)
(* the packets one by one and hands each, whole, to the IN endpoint of its *)
(* kind; the host takes what an endpoint offers.  An endpoint holds one    *)
(* packet.  write_ep returns when the endpoint has accepted the end of the *)
(* packet, not when the host has taken it: the task then goes on to the    *)
(* next packet, for the same or the other endpoint.                        *)
(*                                                                         *)
(* Packets for one endpoint keep their order; between the two there is     *)
(* none.  A disconnect loses what the endpoints hold, and the packet being *)
(* written, never one that is still in the channel.                        *)
(*                                                                         *)
(* UsbTransfer.tla, where a transfer is a sequence of USB packets, and     *)
(* HciBridge.tla, where it is one step, both implement this module.        *)
(***************************************************************************)
EXTENDS Integers, Sequences

CONSTANTS
  Packets,
  EndpointOf,   \* the IN endpoint of each packet: interrupt (events) or bulk (ACL)
  Endpoints,
  None

VARIABLES
  up,        \* the endpoints are enabled
  channel,   \* NET_TO_HOST, oldest first
  writer,    \* usb_write_task: "wait" (wait_enabled), "receive" or "write"
  hand,      \* the packet it writes
  offered,   \* endpoint -> the packet it holds for the host, or None
  got,       \* endpoint -> history: the packets the host took
  lost       \* history: the packets a disconnect lost

deliveryVars == <<up, channel, writer, hand, offered, got, lost>>

Init ==
  /\ up = FALSE /\ channel = <<>> /\ writer = "wait" /\ hand = None
  /\ offered = [e \in Endpoints |-> None]
  /\ got = [e \in Endpoints |-> <<>>]
  /\ lost = {}

Connect ==
  /\ ~up /\ up' = TRUE
  /\ UNCHANGED <<channel, writer, hand, offered, got, lost>>

\* A disconnect empties the endpoints; the writer notices when it next writes.
Disconnect ==
  /\ up /\ up' = FALSE
  /\ offered' = [e \in Endpoints |-> None]
  /\ lost' = lost \cup ({offered[e] : e \in Endpoints} \ {None})
  /\ UNCHANGED <<channel, writer, hand, got>>

\* NET_TO_HOST.send(pkt)
Enqueue(p) ==
  /\ channel' = Append(channel, p)
  /\ UNCHANGED <<up, writer, hand, offered, got, lost>>

Enabled ==
  /\ up /\ writer = "wait" /\ writer' = "receive"
  /\ UNCHANGED <<up, channel, hand, offered, got, lost>>

Receive ==
  /\ writer = "receive" /\ channel # <<>>
  /\ writer' = "write" /\ hand' = Head(channel) /\ channel' = Tail(channel)
  /\ UNCHANGED <<up, offered, got, lost>>

\* write_ep returns Ok.
Written ==
  /\ up /\ writer = "write"
  /\ offered[EndpointOf[hand]] = None
  /\ offered' = [offered EXCEPT ![EndpointOf[hand]] = hand]
  /\ writer' = "receive" /\ hand' = None
  /\ UNCHANGED <<up, channel, got, lost>>

\* write_ep returns an error.
Failed ==
  /\ ~up /\ writer = "write"
  /\ lost' = lost \cup {hand}
  /\ writer' = "wait" /\ hand' = None
  /\ UNCHANGED <<up, channel, offered, got>>

HostTakes(e) ==
  /\ up /\ offered[e] # None
  /\ got' = [got EXCEPT ![e] = Append(@, offered[e])]
  /\ offered' = [offered EXCEPT ![e] = None]
  /\ UNCHANGED <<up, channel, writer, hand, lost>>

Next ==
  \/ Connect \/ Disconnect
  \/ \E p \in Packets : Enqueue(p)
  \/ Enabled \/ Receive \/ Written \/ Failed
  \/ \E e \in Endpoints : HostTakes(e)

Spec == Init /\ [][Next]_deliveryVars
=============================================================================

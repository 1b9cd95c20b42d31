------------------------------ MODULE IpcLink -------------------------------
(***************************************************************************)
(* One direction of the bridge between the cores: the ring of PacketFifo   *)
(* and the IPC event that wakes the receiving core.                        *)
(*                                                                         *)
(* The sender (ipc_send_to_net in app/src/ipc.rs, notify_app in            *)
(* net/src/main.rs) writes the ring and then triggers the event.  The      *)
(* receiver (ipc_rx_loop, ipc_recv_task) waits for the event and then      *)
(* reads until the ring is empty.  The two run on different cores: between *)
(* any two steps of one the other may take steps.  An event is one bit: a  *)
(* second trigger before the wait is not remembered, and a trigger before  *)
(* the receiving core has configured the event is lost.                    *)
(***************************************************************************)
EXTENDS Integers, Sequences

CONSTANTS Capacity, OutLen, Packets, None

\* Every packet sent on the link fits the buffer its receiver reads into: at
\* most 1 + 128 bytes (a control transfer) or 1 + 64 bytes (a bulk packet)
\* from app to net, at most 1 + 257 bytes (an event) from net to app.
ASSUME LinkAssumption ==
  /\ Capacity \in Nat /\ OutLen \in Nat
  /\ \A p \in Packets : Len(p) \in Nat /\ Len(p) <= OutLen
  /\ None \notin Packets

VARIABLES
  queue,      \* the ring: packets written and not read, oldest first
  used,       \* bytes they occupy
  sendRet,    \* result of the last ring write
  recvRet,    \* result of the last ring read
  latch,      \* EVENTS_RECEIVE of the receiving core
  listening,  \* the receiving core has configured the event
  txPc,       \* sender: "idle", or "trigger" after a successful write
  rxPc,       \* receiver: "wait", "drain", "handle" with a packet in hand, or
              \* "return" after a read that found none
  early       \* history: the last trigger came before the event was configured

ringVars == <<queue, used, sendRet, recvRet>>
linkVars == <<ringVars, latch, listening, txPc, rxPc, early>>

Ring == INSTANCE PacketFifo

-----------------------------------------------------------------------------
\* Nothing to read.  The app core configures its event before the net core runs,
\* the net core only after the app core has released it.
Init ==
  /\ Ring!Init
  /\ latch = FALSE
  /\ listening \in BOOLEAN
  /\ txPc = "idle"
  /\ rxPc = "wait"
  /\ early = FALSE

\* The receiving core configures the event (configure_wait).
Configure ==
  /\ ~listening
  /\ listening' = TRUE
  /\ UNCHANGED <<ringVars, latch, txPc, rxPc, early>>

\* A sender writes a packet; a full ring drops it and triggers nothing.
SendPacket(p) ==
  /\ txPc = "idle"
  /\ Ring!Send(p)
  /\ txPc' = "trigger"
  /\ UNCHANGED <<latch, listening, rxPc, early>>

DropPacket(p) ==
  /\ txPc = "idle"
  /\ Ring!Refuse(p)
  /\ UNCHANGED <<latch, listening, txPc, rxPc, early>>

TriggerEvent ==
  /\ txPc = "trigger"
  /\ txPc' = "idle"
  /\ latch' = (latch \/ listening)
  /\ early' = ~listening
  /\ UNCHANGED <<ringVars, listening, rxPc>>

\* event.wait() returns and clears the event.
WaitEvent ==
  /\ rxPc = "wait"
  /\ listening
  /\ latch
  /\ latch' = FALSE
  /\ rxPc' = "drain"
  /\ UNCHANGED <<ringVars, listening, txPc, early>>

\* `while let Some(n) = ipc_recv_...`: None ends the loop.
ReadPacket ==
  /\ rxPc = "drain"
  /\ Ring!Receive
  /\ rxPc' = IF recvRet' = None THEN "return" ELSE "handle"
  /\ UNCHANGED <<latch, listening, txPc, early>>

ReadEmpty ==
  /\ rxPc = "drain"
  /\ Ring!ReceiveNothing
  /\ rxPc' = "return"
  /\ UNCHANGED <<latch, listening, txPc, early>>

\* (Faulty variant) event.wait() forgets the event it finds set.
ReturnToWaitClearing ==
  /\ rxPc = "return"
  /\ rxPc' = "wait"
  /\ latch' = FALSE
  /\ UNCHANGED <<ringVars, listening, txPc, early>>

\* The outer loop calls event.wait() again; a packet may have arrived since the
\* last read found none.
ReturnToWait ==
  /\ rxPc = "return"
  /\ rxPc' = "wait"
  /\ UNCHANGED <<ringVars, latch, listening, txPc, early>>

\* (Faulty variant) one packet per wake-up: `if let` instead of `while let`.
HandlePacketOnce ==
  /\ rxPc = "handle"
  /\ rxPc' = "wait"
  /\ UNCHANGED <<ringVars, latch, listening, txPc, early>>

\* The loop body: dispatch to the controller, or forward to USB.
HandlePacket ==
  /\ rxPc = "handle"
  /\ rxPc' = "drain"
  /\ UNCHANGED <<ringVars, latch, listening, txPc, early>>

Sender == TriggerEvent \/ \E p \in Packets : SendPacket(p) \/ DropPacket(p)

Receiver ==
  Configure \/ WaitEvent \/ ReadPacket \/ ReadEmpty \/ ReturnToWait \/ HandlePacket

Next == Sender \/ Receiver

Spec == Init /\ [][Next]_linkVars

\* A task that has written a packet triggers the event without awaiting anything
\* in between; the receiving core boots and keeps polling its receive loop.
\* The loop body terminates: ipc_rx_loop awaits nothing in it, ipc_recv_task
\* awaits room in NET_TO_HOST, which the USB side has to make.
FairSpec == Spec /\ WF_linkVars(TriggerEvent) /\ WF_linkVars(Receiver)

-----------------------------------------------------------------------------
(* Properties. *)

TypeOK ==
  /\ queue \in Seq(Packets)
  /\ used \in Int /\ used <= Capacity
  /\ sendRet \in BOOLEAN \cup {None}
  /\ recvRet \in Packets \cup {None}
  /\ latch \in BOOLEAN /\ listening \in BOOLEAN /\ early \in BOOLEAN
  /\ txPc \in {"idle", "trigger"}
  /\ rxPc \in {"wait", "drain", "handle", "return"}
  /\ rxPc = "handle" => recvRet # None

\* While a packet is in the ring the receiver is reading, or will be woken: the
\* one-bit event loses no wake-up, however the write, the trigger, the wait and
\* the last read of the drain loop interleave.  Only a trigger that comes before
\* the event is configured is lost, and that only until the next trigger: this
\* brings the receiver to the packets of the lost one as well.
NoLostWakeup ==
  (queue # <<>> /\ ~early) =>
    latch \/ txPc = "trigger" \/ rxPc \in {"drain", "handle"}

\* While the ring holds packets the receiver comes to handle one, again and again,
\* also packets whose own trigger came before the event was configured.  The
\* exception is a link on which no trigger follows such a one for ever: nobody
\* sends any more, or the ring was full by then and refuses every packet.
PacketsGetRead == ([]<>~early) => (queue # <<>> ~> rxPc = "handle")
=============================================================================

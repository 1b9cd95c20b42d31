----------------------------- MODULE PacketFifo -----------------------------
(***************************************************************************)
(* What a user of one direction of the thingy53-ipc crate may rely on: a   *)
(* first-in first-out queue of whole packets with room for Capacity bytes, *)
(* where a packet of n bytes takes n + 2.  Both calls return at once.  A   *)
(* send that does not fit is refused and changes nothing.  A receive takes *)
(* the oldest packet; if that packet is longer than the caller's buffer it *)
(* is taken and lost, and the caller is told there is nothing.             *)
(*                                                                         *)
(* IpcRing.tla is the byte-level ring with two cores working on it at the  *)
(* same time, and implements this module.                                  *)
(***************************************************************************)
EXTENDS Integers, Sequences

CONSTANTS
  Capacity,   \* bytes of storage
  OutLen,     \* length of the receiver's buffer
  Packets,    \* the packets senders may offer, sequences of bytes
  None        \* "no packet" as a result of a receive

VARIABLES
  queue,      \* the packets sent and not yet received, oldest first
  used,       \* the bytes they occupy
  sendRet,    \* result of the last send (None before the first)
  recvRet     \* result of the last receive

fifoVars == <<queue, used, sendRet, recvRet>>

FrameSize(p) == 2 + Len(p)

Init ==
  /\ queue = <<>>
  /\ used = 0
  /\ sendRet = None
  /\ recvRet = None

\* (Faulty variant) the room for the packet is not checked.
SendUnchecked(p) ==
  /\ queue' = Append(queue, p)
  /\ used' = used + FrameSize(p)
  /\ sendRet' = TRUE
  /\ UNCHANGED recvRet

Send(p) ==
  /\ used + FrameSize(p) <= Capacity
  /\ queue' = Append(queue, p)
  /\ used' = used + FrameSize(p)
  /\ sendRet' = TRUE
  /\ UNCHANGED recvRet

Refuse(p) ==
  /\ used + FrameSize(p) > Capacity
  /\ sendRet' = FALSE
  /\ UNCHANGED <<queue, used, recvRet>>

Receive ==
  /\ queue # <<>>
  /\ queue' = Tail(queue)
  /\ used' = used - FrameSize(Head(queue))
  /\ recvRet' = IF Len(Head(queue)) <= OutLen THEN Head(queue) ELSE None
  /\ UNCHANGED sendRet

ReceiveNothing ==
  /\ queue = <<>>
  /\ recvRet' = None
  /\ UNCHANGED <<queue, used, sendRet>>

Next ==
  \/ \E p \in Packets : Send(p) \/ Refuse(p)
  \/ Receive
  \/ ReceiveNothing

Spec == Init /\ [][Next]_fifoVars
=============================================================================

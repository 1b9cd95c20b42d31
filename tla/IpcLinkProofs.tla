--------------------------- MODULE IpcLinkProofs ---------------------------
(***************************************************************************)
(* Proofs about IpcLink, for every size of the ring and set of packets.    *)
(***************************************************************************)
EXTENDS IpcLink, SequenceLemmas, TLAPS

\* A receive of the ring returns a packet: none is too long for the receiver.
LEMMA ReceiveReturns ==
  ASSUME queue \in Seq(Packets), Ring!Receive
  PROVE  /\ Head(queue) \in Packets /\ recvRet' = Head(queue)
         /\ queue' \in Seq(Packets)
         /\ recvRet' # None
<1>1. queue # <<>> /\ Head(queue) \in Packets /\ Tail(queue) \in Seq(Packets)
  BY HeadTailProperties DEF Ring!Receive
<1>2. Len(Head(queue)) <= OutLen /\ None \notin Packets
  BY <1>1, LinkAssumption
<1>. QED  BY <1>1, <1>2 DEF Ring!Receive

LEMMA LinkTypeInit == Init => TypeOK
<1> SUFFICES ASSUME Init  PROVE TypeOK
  OBVIOUS
<1>1. queue \in Seq(Packets)
  BY DEF Init, Ring!Init
<1>2. used \in Int /\ used <= Capacity
  BY LinkAssumption DEF Init, Ring!Init
<1>. QED  BY <1>1, <1>2 DEF Init, Ring!Init, TypeOK

LEMMA LinkTypeNext == TypeOK /\ [Next]_linkVars => TypeOK'
<1> SUFFICES ASSUME TypeOK, [Next]_linkVars
             PROVE  TypeOK'
  OBVIOUS
<1> USE DEF TypeOK
<1>1. ASSUME NEW p \in Packets, SendPacket(p)
      PROVE  TypeOK'
  <2>1. queue' = Append(queue, p) /\ queue' \in Seq(Packets)
    BY <1>1, AppendProperties DEF SendPacket, Ring!Send
  <2>2. Len(p) \in Nat /\ used' = used + (2 + Len(p)) /\ used' <= Capacity
    BY <1>1, LinkAssumption DEF SendPacket, Ring!Send, Ring!FrameSize
  <2>. QED  BY <1>1, <2>1, <2>2 DEF SendPacket, Ring!Send
<1>2. ASSUME NEW p \in Packets, DropPacket(p)
      PROVE  TypeOK'
  BY <1>2 DEF DropPacket, Ring!Refuse
<1>3. CASE TriggerEvent
  BY <1>3 DEF TriggerEvent, ringVars
<1>4. CASE Configure
  BY <1>4 DEF Configure, ringVars
<1>5. CASE WaitEvent
  BY <1>5 DEF WaitEvent, ringVars
<1>6. CASE ReadPacket
  <2>1. /\ Head(queue) \in Packets /\ recvRet' = Head(queue)
        /\ queue' \in Seq(Packets)
    BY <1>6, ReceiveReturns DEF ReadPacket
  <2>2. Len(Head(queue)) \in Nat /\ Capacity \in Nat
    BY <2>1, LinkAssumption
  <2>3. used' = used - (2 + Len(Head(queue)))
    BY <1>6 DEF ReadPacket, Ring!Receive, Ring!FrameSize
  <2>4. used' \in Int /\ used' <= Capacity
    BY <2>2, <2>3
  <2>. QED  BY <1>6, <2>1, <2>4 DEF ReadPacket, Ring!Receive
<1>7. CASE ReadEmpty
  BY <1>7 DEF ReadEmpty, Ring!ReceiveNothing
<1>8. CASE HandlePacket
  BY <1>8 DEF HandlePacket, ringVars
<1>9. CASE ReturnToWait
  BY <1>9 DEF ReturnToWait, ringVars
<1>10. CASE UNCHANGED linkVars
  BY <1>10 DEF linkVars, ringVars
<1>. QED
  BY <1>1, <1>2, <1>3, <1>4, <1>5, <1>6, <1>7, <1>8, <1>9, <1>10
     DEF Next, Sender, Receiver

\* The ring never holds more than it has room for, and each variable of the
\* link stays in its range (ipc_send_to_net, notify_app and the two receivers).
THEOREM LinkTypeCorrect == Spec => []TypeOK
  BY LinkTypeInit, LinkTypeNext, PTL DEF Spec

LEMMA WakeupNext ==
  TypeOK /\ NoLostWakeup /\ [Next]_linkVars => NoLostWakeup'
<1> SUFFICES ASSUME TypeOK, NoLostWakeup, [Next]_linkVars,
                    queue' # <<>>, ~early'
             PROVE  latch' \/ txPc' = "trigger" \/ rxPc' \in {"drain", "handle"}
  BY DEF NoLostWakeup
<1>1. ASSUME NEW p \in Packets, SendPacket(p)
      PROVE  txPc' = "trigger"
  BY <1>1 DEF SendPacket
<1>2. ASSUME NEW p \in Packets, DropPacket(p)
      PROVE  UNCHANGED <<queue, early, latch, txPc, rxPc>>
  BY <1>2 DEF DropPacket, Ring!Refuse
<1>3. CASE TriggerEvent
  BY <1>3 DEF TriggerEvent, TypeOK
<1>4. CASE WaitEvent
  BY <1>4 DEF WaitEvent
<1>5. CASE ReadPacket
  BY <1>5, ReceiveReturns DEF ReadPacket, TypeOK
<1>6. CASE ReadEmpty
  BY <1>6 DEF ReadEmpty, Ring!ReceiveNothing
<1>7. CASE HandlePacket
  BY <1>7 DEF HandlePacket
<1>8. CASE Configure
  BY <1>8 DEF Configure, ringVars, NoLostWakeup
<1>9. CASE ReturnToWait
  BY <1>9 DEF ReturnToWait, ringVars, NoLostWakeup
<1>10. CASE UNCHANGED linkVars
  BY <1>10 DEF linkVars, ringVars, NoLostWakeup
<1>. QED
  BY <1>1, <1>2, <1>3, <1>4, <1>5, <1>6, <1>7, <1>8, <1>9, <1>10
     DEF Next, Sender, Receiver, NoLostWakeup

\* A packet in the ring is being read or its reader will be woken: the drain
\* loops may use a one-bit event that coalesces triggers.
THEOREM NoWakeupLost == Spec => []NoLostWakeup
<1>1. Init => NoLostWakeup
  BY DEF Init, Ring!Init, NoLostWakeup
<1>. QED  BY <1>1, WakeupNext, LinkTypeCorrect, PTL DEF Spec

-----------------------------------------------------------------------------
(* The packets on the link. *)

Hand == IF rxPc = "handle" THEN <<recvRet>> ELSE <<>>

\* What was sent and not handled: the packet in the receiver's hand, then the ring.
Pending == Hand \o queue

\* Each action of the link moves packets only along it: a send appends one, the loop
\* body takes the first, and everything in between, the wake-ups and the reads of
\* the drain loop, leaves them as they are.
LEMMA LinkMoves ==
  ASSUME TypeOK
  PROVE  /\ Pending \in Seq(Packets)
         /\ rxPc = "handle" => recvRet \in Packets
         /\ \A p \in Packets : SendPacket(p) =>
              Pending' = Append(Pending, p) /\ UNCHANGED rxPc
         /\ \A p : DropPacket(p) => UNCHANGED <<Pending, rxPc>>
         /\ TriggerEvent \/ Configure => UNCHANGED <<Pending, rxPc>>
         /\ WaitEvent \/ ReadPacket \/ ReadEmpty \/ ReturnToWait => UNCHANGED Pending
         /\ HandlePacket => /\ recvRet \in Packets /\ Pending # <<>> /\ recvRet = Head(Pending)
                            /\ Pending = <<recvRet>> \o Pending' /\ Pending' = Tail(Pending)
                            /\ Pending' \in Seq(Packets)
<1>1. queue \in Seq(Packets) /\ (rxPc = "handle" => recvRet \in Packets)
  BY DEF TypeOK
<1>2. /\ rxPc = "handle" => Pending = <<recvRet>> \o queue
      /\ rxPc # "handle" => Pending = queue
  BY <1>1, ConcatEmptySeq DEF Pending, Hand
<1>3. Pending \in Seq(Packets)
  <2>1. rxPc = "handle" => <<recvRet>> \o queue \in Seq(Packets)
    BY <1>1, OneInFront
  <2>. QED  BY <1>1, <1>2, <2>1
<1>4. ASSUME NEW p \in Packets, SendPacket(p)
      PROVE  Pending' = Append(Pending, p) /\ UNCHANGED rxPc
  <2>1. queue' = Append(queue, p) /\ UNCHANGED <<rxPc, recvRet>> /\ queue' \in Seq(Packets)
    BY <1>1, <1>4, AppendProperties DEF SendPacket, Ring!Send
  <2>2. CASE rxPc = "handle"
    <3>1. Pending' = <<recvRet>> \o queue'
      BY <2>1, <2>2 DEF Pending, Hand
    <3>. QED  BY <1>1, <1>2, <2>1, <2>2, <3>1, OneInFront
  <2>3. CASE rxPc # "handle"
    <3>1. Pending' = queue'
      BY <2>1, <2>3, ConcatEmptySeq DEF Pending, Hand
    <3>. QED  BY <1>2, <2>1, <2>3, <3>1
  <2>. QED  BY <2>1, <2>2, <2>3
<1>5. ASSUME NEW p, DropPacket(p)
      PROVE  UNCHANGED <<Pending, rxPc>>
  BY <1>5 DEF DropPacket, Ring!Refuse, Pending, Hand
<1>6. ASSUME TriggerEvent \/ Configure
      PROVE  UNCHANGED <<Pending, rxPc>>
  BY <1>6 DEF TriggerEvent, Configure, ringVars, Pending, Hand
<1>7. ASSUME WaitEvent \/ ReadPacket \/ ReadEmpty \/ ReturnToWait
      PROVE  UNCHANGED Pending
  <2>1. CASE ReadPacket
    <3>1. /\ rxPc = "drain" /\ rxPc' = "handle" /\ queue # <<>>
          /\ queue' = Tail(queue) /\ recvRet' = Head(queue)
      BY <1>1, <2>1, ReceiveReturns DEF ReadPacket, Ring!Receive
    <3>2. Pending' = <<Head(queue)>> \o Tail(queue)
      BY <3>1 DEF Pending, Hand
    <3>. QED  BY <1>1, <1>2, <3>1, <3>2, HeadAndTail
  <2>. QED  BY <1>7, <2>1 DEF WaitEvent, ReadEmpty, Ring!ReceiveNothing, ReturnToWait,
                            ringVars, Pending, Hand
<1>8. ASSUME HandlePacket
      PROVE  /\ recvRet \in Packets /\ Pending # <<>> /\ recvRet = Head(Pending)
             /\ Pending = <<recvRet>> \o Pending' /\ Pending' = Tail(Pending)
             /\ Pending' \in Seq(Packets)
  <2>1. rxPc = "handle" /\ rxPc' = "drain" /\ queue' = queue
    BY <1>8 DEF HandlePacket, ringVars
  <2>2. Pending' = queue
    BY <1>1, <2>1, ConcatEmptySeq DEF Pending, Hand
  <2>. QED  BY <1>1, <1>2, <2>1, <2>2, OneInFront
<1>. QED  BY <1>1, <1>3, <1>4, <1>5, <1>6, <1>7, <1>8
=============================================================================

-------------------------- MODULE HciBridgeProofs ---------------------------
(***************************************************************************)
(* Proofs about HciBridge, for every channel depth and ring size and every *)
(* number of packets and disconnects.  What is known of the two links      *)
(* comes from IpcLinkProofs.                                               *)
(***************************************************************************)
EXTENDS HciBridge, SequenceLemmas, FiniteSetTheorems, TLAPS

A2NLink == INSTANCE IpcLinkProofs WITH
  Capacity <- RingSize, OutLen <- 3, Packets <- DownPackets,
  queue <- a2nQueue, used <- a2nUsed, sendRet <- a2nSent, recvRet <- a2nRecv,
  latch <- a2nLatch, txPc <- a2nTx, rxPc <- a2nRx, listening <- a2nOn, early <- a2nEarly

N2ALink == INSTANCE IpcLinkProofs WITH
  Capacity <- RingSize, OutLen <- 3, Packets <- UpPackets,
  queue <- n2aQueue, used <- n2aUsed, sendRet <- n2aSent, recvRet <- n2aRecv,
  latch <- n2aLatch, txPc <- n2aTx, rxPc <- n2aRx, listening <- n2aOn, early <- n2aEarly

-----------------------------------------------------------------------------
(* Packets. *)

LEMMA DownPacketIs ==
  ASSUME NEW p \in DownPackets
  PROVE  /\ p[1] \in {1, 2} /\ p[3] \in Nat \ {0} /\ Len(p) = 3
         /\ p \notin UpPackets /\ p # None
         /\ IsCmd(p) => \E k \in CommandKinds, n \in 1 .. MaxCmds : p = Cmd(k, n) /\ p[3] = n
         /\ ~IsCmd(p) => IsAcl(p) /\ \E n \in 1 .. MaxAcls : p = Acl(n) /\ p[3] = n
         /\ p[2] \in {"known", "unknown", "host"}
<1>1. CASE \E k \in CommandKinds, n \in 1 .. MaxCmds : p = Cmd(k, n)
  <2>1. PICK k \in CommandKinds, n \in 1 .. MaxCmds : p = Cmd(k, n)
    BY <1>1
  <2>2. p = <<1, k, n>> /\ n \in Nat \ {0} /\ k \in {"known", "unknown"}
    BY <2>1, BridgeAssumption DEF Cmd, CommandKinds
  <2>3. p \notin UpPackets
    BY <2>2 DEF UpPackets, Answer, CtrlPacket
  <2>4. p[1] = 1 /\ p[2] = k /\ p[3] = n /\ Len(p) = 3
    BY <2>2
  <2>5. p # None
    BY BridgeAssumption
  <2>. QED  BY <2>1, <2>2, <2>3, <2>4, <2>5 DEF IsCmd
<1>2. CASE \E n \in 1 .. MaxAcls : p = Acl(n)
  <2>1. PICK n \in 1 .. MaxAcls : p = Acl(n)
    BY <1>2
  <2>2. p = <<2, "host", n>> /\ n \in Nat \ {0}
    BY <2>1, BridgeAssumption DEF Acl
  <2>3. p \notin UpPackets
    BY <2>2 DEF UpPackets, Answer, CtrlPacket
  <2>4. p[1] = 2 /\ p[2] = "host" /\ p[3] = n /\ Len(p) = 3
    BY <2>2
  <2>5. p # None
    BY BridgeAssumption
  <2>6. \E m \in 1 .. MaxAcls : p = Acl(m) /\ p[3] = m
    BY <2>1, <2>4
  <2>7. ~IsCmd(p) /\ IsAcl(p)
    BY <2>4 DEF IsCmd, IsAcl
  <2>. QED  BY <2>2, <2>3, <2>4, <2>5, <2>6, <2>7
<1>. QED  BY <1>1, <1>2 DEF DownPackets

LEMMA UpPacketIs ==
  ASSUME NEW p \in UpPackets
  PROVE  /\ p[1] \in Endpoints /\ p[3] \in Nat \ {0} /\ Len(p) = 3
         /\ p \notin DownPackets /\ p # None
         /\ IsAnswer(p) => p[1] = 4 /\ \E n \in 1 .. MaxCmds : p = Answer(n) /\ p[3] = n
         /\ ~IsAnswer(p) =>
              \E i \in Indicators, n \in 1 .. MaxCtrls : p = CtrlPacket(i, n) /\ p[3] = n
<1>1. CASE \E n \in 1 .. MaxCmds : p = Answer(n)
  <2>1. PICK n \in 1 .. MaxCmds : p = Answer(n)
    BY <1>1
  <2>2. p = <<4, "answer", n>> /\ n \in Nat \ {0}
    BY <2>1, BridgeAssumption DEF Answer
  <2>3. p[1] = 4 /\ p[2] = "answer" /\ p[3] = n /\ Len(p) = 3
    BY <2>2
  <2>4. p # None /\ p \notin DownPackets
    BY DownPacketIs, BridgeAssumption
  <2>. QED  BY <2>1, <2>2, <2>3, <2>4 DEF IsAnswer, Endpoints
<1>2. CASE \E i \in Indicators, n \in 1 .. MaxCtrls : p = CtrlPacket(i, n)
  <2>1. PICK i \in Indicators, n \in 1 .. MaxCtrls : p = CtrlPacket(i, n)
    BY <1>2
  <2>2. p = <<i, "ctrl", n>> /\ n \in Nat \ {0} /\ i \in {2, 4}
    BY <2>1, BridgeAssumption DEF CtrlPacket
  <2>3. p[1] = i /\ p[2] = "ctrl" /\ p[3] = n /\ Len(p) = 3
    BY <2>2
  <2>4. p # None /\ p \notin DownPackets
    BY DownPacketIs, BridgeAssumption
  <2>. QED  BY <2>1, <2>2, <2>3, <2>4 DEF IsAnswer, Endpoints
<1>. QED  BY <1>1, <1>2 DEF UpPackets

-----------------------------------------------------------------------------
(* The two links. *)

\* The buffers of the receivers have room for every packet.
LEMMA PacketsFit ==
  /\ RingSize \in Nat /\ 3 \in Nat
  /\ \A p \in DownPackets : Len(p) \in Nat /\ Len(p) <= 3
  /\ \A p \in UpPackets : Len(p) \in Nat /\ Len(p) <= 3
  /\ None \notin DownPackets /\ None \notin UpPackets
<1>1. ASSUME NEW p \in DownPackets
      PROVE  Len(p) \in Nat /\ Len(p) <= 3
  <2>1. Len(p) = 3
    BY DownPacketIs
  <2>. QED  BY <2>1
<1>2. ASSUME NEW p \in UpPackets
      PROVE  Len(p) \in Nat /\ Len(p) <= 3
  <2>1. Len(p) = 3
    BY UpPacketIs
  <2>. QED  BY <2>1
<1>. QED  BY <1>1, <1>2, BridgeAssumption

LEMMA A2NIsLink ==
  /\ A2N!Init => A2NLink!Init
  /\ [A2N!Next]_(A2N!linkVars) => [A2NLink!Next]_(A2NLink!linkVars)
  /\ A2N!TypeOK <=> A2NLink!TypeOK
  /\ (A2N!TypeOK)' <=> (A2NLink!TypeOK)'
  /\ A2N!NoLostWakeup <=> A2NLink!NoLostWakeup
<1>1. A2N!Init => A2NLink!Init
  BY DEF A2N!Init, A2NLink!Init, A2N!Ring!Init, A2NLink!Ring!Init
<1>2. UNCHANGED A2N!linkVars => UNCHANGED A2NLink!linkVars
  BY DEF A2N!linkVars, A2NLink!linkVars, A2N!ringVars, A2NLink!ringVars
<1>3. A2N!Next => A2NLink!Next
  BY DEF A2N!Next, A2NLink!Next, A2N!Sender, A2NLink!Sender, A2N!Receiver, A2NLink!Receiver, 
     A2N!TriggerEvent, A2NLink!TriggerEvent, A2N!SendPacket, A2NLink!SendPacket, 
     A2N!DropPacket, A2NLink!DropPacket, A2N!Configure, A2NLink!Configure, 
     A2N!WaitEvent, A2NLink!WaitEvent, A2N!ReadPacket, A2NLink!ReadPacket, 
     A2N!ReadEmpty, A2NLink!ReadEmpty, A2N!ReturnToWait, A2NLink!ReturnToWait, 
     A2N!HandlePacket, A2NLink!HandlePacket, A2N!ringVars, A2NLink!ringVars, 
     A2N!Ring!Send, A2NLink!Ring!Send, A2N!Ring!Refuse, A2NLink!Ring!Refuse, 
     A2N!Ring!Receive, A2NLink!Ring!Receive, A2N!Ring!ReceiveNothing, 
     A2NLink!Ring!ReceiveNothing, A2N!Ring!FrameSize, A2NLink!Ring!FrameSize
<1>4. (A2N!TypeOK <=> A2NLink!TypeOK) /\ ((A2N!TypeOK)' <=> (A2NLink!TypeOK)')
  BY DEF A2N!TypeOK, A2NLink!TypeOK
<1>5. A2N!NoLostWakeup <=> A2NLink!NoLostWakeup
  BY DEF A2N!NoLostWakeup, A2NLink!NoLostWakeup
<1>. QED  BY <1>1, <1>2, <1>3, <1>4, <1>5

LEMMA N2AIsLink ==
  /\ N2A!Init => N2ALink!Init
  /\ [N2A!Next]_(N2A!linkVars) => [N2ALink!Next]_(N2ALink!linkVars)
  /\ N2A!TypeOK <=> N2ALink!TypeOK
  /\ (N2A!TypeOK)' <=> (N2ALink!TypeOK)'
  /\ N2A!NoLostWakeup <=> N2ALink!NoLostWakeup
<1>1. N2A!Init => N2ALink!Init
  BY DEF N2A!Init, N2ALink!Init, N2A!Ring!Init, N2ALink!Ring!Init
<1>2. UNCHANGED N2A!linkVars => UNCHANGED N2ALink!linkVars
  BY DEF N2A!linkVars, N2ALink!linkVars, N2A!ringVars, N2ALink!ringVars
<1>3. N2A!Next => N2ALink!Next
  BY DEF N2A!Next, N2ALink!Next, N2A!Sender, N2ALink!Sender, N2A!Receiver, N2ALink!Receiver, 
     N2A!TriggerEvent, N2ALink!TriggerEvent, N2A!SendPacket, N2ALink!SendPacket, 
     N2A!DropPacket, N2ALink!DropPacket, N2A!Configure, N2ALink!Configure, 
     N2A!WaitEvent, N2ALink!WaitEvent, N2A!ReadPacket, N2ALink!ReadPacket, 
     N2A!ReadEmpty, N2ALink!ReadEmpty, N2A!ReturnToWait, N2ALink!ReturnToWait, 
     N2A!HandlePacket, N2ALink!HandlePacket, N2A!ringVars, N2ALink!ringVars, 
     N2A!Ring!Send, N2ALink!Ring!Send, N2A!Ring!Refuse, N2ALink!Ring!Refuse, 
     N2A!Ring!Receive, N2ALink!Ring!Receive, N2A!Ring!ReceiveNothing, 
     N2ALink!Ring!ReceiveNothing, N2A!Ring!FrameSize, N2ALink!Ring!FrameSize
<1>4. (N2A!TypeOK <=> N2ALink!TypeOK) /\ ((N2A!TypeOK)' <=> (N2ALink!TypeOK)')
  BY DEF N2A!TypeOK, N2ALink!TypeOK
<1>5. N2A!NoLostWakeup <=> N2ALink!NoLostWakeup
  BY DEF N2A!NoLostWakeup, N2ALink!NoLostWakeup
<1>. QED  BY <1>1, <1>2, <1>3, <1>4, <1>5

\* What the actions of the link from app to net do to the packets on it.
LEMMA A2NMoves ==
  ASSUME A2N!TypeOK
  PROVE  LET Pending == NetHand \o a2nQueue IN
         /\ Pending \in Seq(DownPackets) /\ a2nQueue \in Seq(DownPackets)
         /\ a2nRx = "handle" => a2nRecv \in DownPackets
         /\ \A p \in DownPackets : A2N!SendPacket(p) => Pending' = Append(Pending, p) /\ UNCHANGED a2nRx
         /\ \A p \in DownPackets : A2N!DropPacket(p) => UNCHANGED <<Pending, a2nRx>>
         /\ A2N!TriggerEvent \/ A2N!Configure => UNCHANGED <<Pending, a2nRx>>
         /\ A2N!WaitEvent \/ A2N!ReadPacket \/ A2N!ReadEmpty \/ A2N!ReturnToWait => UNCHANGED Pending
         /\ A2N!HandlePacket =>
              /\ a2nRx = "handle" /\ a2nRecv \in DownPackets /\ Pending # <<>> /\ a2nRecv = Head(Pending)
              /\ Pending = <<a2nRecv>> \o Pending' /\ Pending' = Tail(Pending)
              /\ Pending' \in Seq(DownPackets)
<1>1. A2NLink!TypeOK
  BY A2NIsLink
<1>2. /\ A2NLink!Pending = NetHand \o a2nQueue
      /\ (A2NLink!Pending)' = (NetHand \o a2nQueue)'
  BY DEF A2NLink!Pending, A2NLink!Hand, NetHand
<1>3. /\ \A p \in DownPackets : A2N!SendPacket(p) => A2NLink!SendPacket(p)
      /\ \A p \in DownPackets : A2N!DropPacket(p) => A2NLink!DropPacket(p)
  BY DEF A2N!SendPacket, A2NLink!SendPacket, A2N!DropPacket, A2NLink!DropPacket, A2N!Ring!Send, A2NLink!Ring!Send,
     A2N!Ring!Refuse, A2NLink!Ring!Refuse, A2N!Ring!FrameSize, A2NLink!Ring!FrameSize
<1>4. /\ A2N!TriggerEvent => A2NLink!TriggerEvent
      /\ A2N!Configure => A2NLink!Configure
      /\ A2N!WaitEvent => A2NLink!WaitEvent
      /\ A2N!ReturnToWait => A2NLink!ReturnToWait
      /\ A2N!HandlePacket => A2NLink!HandlePacket /\ a2nRx = "handle"
  BY DEF A2N!TriggerEvent, A2NLink!TriggerEvent, A2N!Configure, A2NLink!Configure, A2N!WaitEvent,
     A2NLink!WaitEvent, A2N!ReturnToWait, A2NLink!ReturnToWait, A2N!HandlePacket, A2NLink!HandlePacket,
     A2N!ringVars, A2NLink!ringVars
<1>5. (A2N!ReadPacket => A2NLink!ReadPacket) /\ (A2N!ReadEmpty => A2NLink!ReadEmpty)
  BY DEF A2N!ReadPacket, A2NLink!ReadPacket, A2N!ReadEmpty, A2NLink!ReadEmpty, A2N!Ring!Receive,
     A2NLink!Ring!Receive, A2N!Ring!ReceiveNothing, A2NLink!Ring!ReceiveNothing,
     A2N!Ring!FrameSize, A2NLink!Ring!FrameSize
<1>6. a2nQueue \in Seq(DownPackets)
  BY DEF A2N!TypeOK
<1>7. /\ A2NLink!Pending \in Seq(DownPackets)
      /\ a2nRx = "handle" => a2nRecv \in DownPackets
      /\ \A p \in DownPackets : A2NLink!SendPacket(p) =>
           (A2NLink!Pending)' = Append(A2NLink!Pending, p) /\ UNCHANGED a2nRx
      /\ \A p : A2NLink!DropPacket(p) => UNCHANGED <<A2NLink!Pending, a2nRx>>
      /\ A2NLink!TriggerEvent \/ A2NLink!Configure => UNCHANGED <<A2NLink!Pending, a2nRx>>
      /\ A2NLink!WaitEvent \/ A2NLink!ReadPacket \/ A2NLink!ReadEmpty \/ A2NLink!ReturnToWait =>
           UNCHANGED A2NLink!Pending
      /\ A2NLink!HandlePacket =>
           /\ a2nRecv \in DownPackets /\ A2NLink!Pending # <<>> /\ a2nRecv = Head(A2NLink!Pending)
           /\ A2NLink!Pending = <<a2nRecv>> \o (A2NLink!Pending)' /\ (A2NLink!Pending)' = Tail(A2NLink!Pending)
           /\ (A2NLink!Pending)' \in Seq(DownPackets)
  BY <1>1, PacketsFit, A2NLink!LinkMoves
<1>. QED  BY <1>2, <1>3, <1>4, <1>5, <1>6, <1>7

\* What the actions of the link from net to app do to the packets on it.
LEMMA N2AMoves ==
  ASSUME N2A!TypeOK
  PROVE  LET Pending == AppHand \o n2aQueue IN
         /\ Pending \in Seq(UpPackets) /\ n2aQueue \in Seq(UpPackets)
         /\ n2aRx = "handle" => n2aRecv \in UpPackets
         /\ \A p \in UpPackets : N2A!SendPacket(p) => Pending' = Append(Pending, p) /\ UNCHANGED n2aRx
         /\ \A p \in UpPackets : N2A!DropPacket(p) => UNCHANGED <<Pending, n2aRx>>
         /\ N2A!TriggerEvent \/ N2A!Configure => UNCHANGED <<Pending, n2aRx>>
         /\ N2A!WaitEvent \/ N2A!ReadPacket \/ N2A!ReadEmpty \/ N2A!ReturnToWait => UNCHANGED Pending
         /\ N2A!HandlePacket =>
              /\ n2aRx = "handle" /\ n2aRecv \in UpPackets /\ Pending # <<>> /\ n2aRecv = Head(Pending)
              /\ Pending = <<n2aRecv>> \o Pending' /\ Pending' = Tail(Pending)
              /\ Pending' \in Seq(UpPackets)
<1>1. N2ALink!TypeOK
  BY N2AIsLink
<1>2. /\ N2ALink!Pending = AppHand \o n2aQueue
      /\ (N2ALink!Pending)' = (AppHand \o n2aQueue)'
  BY DEF N2ALink!Pending, N2ALink!Hand, AppHand
<1>3. /\ \A p \in UpPackets : N2A!SendPacket(p) => N2ALink!SendPacket(p)
      /\ \A p \in UpPackets : N2A!DropPacket(p) => N2ALink!DropPacket(p)
  BY DEF N2A!SendPacket, N2ALink!SendPacket, N2A!DropPacket, N2ALink!DropPacket, N2A!Ring!Send, N2ALink!Ring!Send,
     N2A!Ring!Refuse, N2ALink!Ring!Refuse, N2A!Ring!FrameSize, N2ALink!Ring!FrameSize
<1>4. /\ N2A!TriggerEvent => N2ALink!TriggerEvent
      /\ N2A!Configure => N2ALink!Configure
      /\ N2A!WaitEvent => N2ALink!WaitEvent
      /\ N2A!ReturnToWait => N2ALink!ReturnToWait
      /\ N2A!HandlePacket => N2ALink!HandlePacket /\ n2aRx = "handle"
  BY DEF N2A!TriggerEvent, N2ALink!TriggerEvent, N2A!Configure, N2ALink!Configure, N2A!WaitEvent,
     N2ALink!WaitEvent, N2A!ReturnToWait, N2ALink!ReturnToWait, N2A!HandlePacket, N2ALink!HandlePacket,
     N2A!ringVars, N2ALink!ringVars
<1>5. (N2A!ReadPacket => N2ALink!ReadPacket) /\ (N2A!ReadEmpty => N2ALink!ReadEmpty)
  BY DEF N2A!ReadPacket, N2ALink!ReadPacket, N2A!ReadEmpty, N2ALink!ReadEmpty, N2A!Ring!Receive,
     N2ALink!Ring!Receive, N2A!Ring!ReceiveNothing, N2ALink!Ring!ReceiveNothing,
     N2A!Ring!FrameSize, N2ALink!Ring!FrameSize
<1>6. n2aQueue \in Seq(UpPackets)
  BY DEF N2A!TypeOK
<1>7. /\ N2ALink!Pending \in Seq(UpPackets)
      /\ n2aRx = "handle" => n2aRecv \in UpPackets
      /\ \A p \in UpPackets : N2ALink!SendPacket(p) =>
           (N2ALink!Pending)' = Append(N2ALink!Pending, p) /\ UNCHANGED n2aRx
      /\ \A p : N2ALink!DropPacket(p) => UNCHANGED <<N2ALink!Pending, n2aRx>>
      /\ N2ALink!TriggerEvent \/ N2ALink!Configure => UNCHANGED <<N2ALink!Pending, n2aRx>>
      /\ N2ALink!WaitEvent \/ N2ALink!ReadPacket \/ N2ALink!ReadEmpty \/ N2ALink!ReturnToWait =>
           UNCHANGED N2ALink!Pending
      /\ N2ALink!HandlePacket =>
           /\ n2aRecv \in UpPackets /\ N2ALink!Pending # <<>> /\ n2aRecv = Head(N2ALink!Pending)
           /\ N2ALink!Pending = <<n2aRecv>> \o (N2ALink!Pending)' /\ (N2ALink!Pending)' = Tail(N2ALink!Pending)
           /\ (N2ALink!Pending)' \in Seq(UpPackets)
  BY <1>1, PacketsFit, N2ALink!LinkMoves
<1>. QED  BY <1>2, <1>3, <1>4, <1>5, <1>6, <1>7

-----------------------------------------------------------------------------
(* The bridge takes steps of its links, and its variables keep their types. *)

\* A packet a step of the bridge sends is one the link carries.
LEMMA SentOnLinks ==
  ASSUME TypeOK
  PROVE  /\ cmdChan # <<>> => Head(cmdChan) \in DownPackets /\ Tail(cmdChan) \in Seq(DownPackets)
                                /\ Len(Tail(cmdChan)) = Len(cmdChan) - 1
         /\ hostAcls < MaxAcls => /\ Acl(hostAcls + 1) \in DownPackets
                                  /\ hostAcls + 1 \in 0 .. MaxAcls
         /\ \A i \in Indicators : ctrls < MaxCtrls => /\ CtrlPacket(i, ctrls + 1) \in UpPackets
                                                      /\ ctrls + 1 \in 0 .. MaxCtrls
         /\ a2nRx = "handle" /\ IsCmd(a2nRecv) => Answer(a2nRecv[3]) \in UpPackets
         /\ \A k \in Kinds : hostCmds < MaxCmds => /\ Cmd(k, hostCmds + 1) \in DownPackets
                                                   /\ hostCmds + 1 \in 0 .. MaxCmds
<1>1. cmdChan # <<>> => Head(cmdChan) \in DownPackets /\ Tail(cmdChan) \in Seq(DownPackets)
                         /\ Len(Tail(cmdChan)) = Len(cmdChan) - 1
  BY Taken DEF TypeOK
<1>2. hostAcls < MaxAcls => hostAcls + 1 \in 1 .. MaxAcls /\ hostAcls + 1 \in 0 .. MaxAcls
  BY BridgeAssumption DEF TypeOK
<1>3. ctrls < MaxCtrls => ctrls + 1 \in 1 .. MaxCtrls /\ ctrls + 1 \in 0 .. MaxCtrls
  BY BridgeAssumption DEF TypeOK
<1>4. hostCmds < MaxCmds => hostCmds + 1 \in 1 .. MaxCmds /\ hostCmds + 1 \in 0 .. MaxCmds
  BY BridgeAssumption DEF TypeOK
<1>5. ASSUME a2nRx = "handle", IsCmd(a2nRecv)
      PROVE  Answer(a2nRecv[3]) \in UpPackets
  <2>1. a2nRecv \in DownPackets
    BY <1>5, A2NMoves DEF TypeOK
  <2>2. \E k \in CommandKinds, n \in 1 .. MaxCmds : a2nRecv = Cmd(k, n) /\ a2nRecv[3] = n
    BY <1>5, <2>1, DownPacketIs
  <2>. QED  BY <2>2 DEF UpPackets
<1>6. \A k \in Kinds : k \in CommandKinds
  BY BridgeAssumption
<1>. QED  BY <1>1, <1>2, <1>3, <1>4, <1>5, <1>6 DEF DownPackets, UpPackets

\* Whatever task runs, each link takes one of its own steps or none.
LEMMA LinkSteps ==
  ASSUME TypeOK, [Next]_vars
  PROVE  [A2N!Next]_(A2N!linkVars) /\ [N2A!Next]_(N2A!linkVars)
<1>1. /\ UNCHANGED a2nVars => UNCHANGED A2N!linkVars
      /\ UNCHANGED n2aVars => UNCHANGED N2A!linkVars
  BY DEF a2nVars, n2aVars, A2N!linkVars, N2A!linkVars, A2N!ringVars, N2A!ringVars
<1>2. /\ \A p \in DownPackets : A2N!SendPacket(p) \/ A2N!DropPacket(p) => A2N!Next
      /\ A2N!TriggerEvent \/ A2N!Configure \/ A2N!HandlePacket => A2N!Next
      /\ A2N!WaitEvent \/ A2N!ReadPacket \/ A2N!ReadEmpty \/ A2N!ReturnToWait => A2N!Next
  BY DEF A2N!Next, A2N!Sender, A2N!Receiver
<1>3. /\ \A p \in UpPackets : N2A!SendPacket(p) \/ N2A!DropPacket(p) => N2A!Next
      /\ N2A!TriggerEvent \/ N2A!HandlePacket => N2A!Next
      /\ N2A!WaitEvent \/ N2A!ReadPacket \/ N2A!ReadEmpty \/ N2A!ReturnToWait => N2A!Next
  BY DEF N2A!Next, N2A!Sender, N2A!Receiver
<1>4. CASE UNCHANGED vars
  BY <1>1, <1>4 DEF vars
<1>5. CASE Connect
  BY <1>1, <1>5 DEF Connect
<1>6. CASE Disconnect
  BY <1>1, <1>6 DEF Disconnect
<1>7. ASSUME NEW k \in Kinds, ControlOut(k)
      PROVE  UNCHANGED <<a2nVars, n2aVars>>
  BY <1>7 DEF ControlOut, HostCommands
<1>8. CASE ReadTask
  BY <1>1, <1>8 DEF ReadTask, ReadEnabled, ReadDisabled
<1>9. CASE WriteTask
  BY <1>1, <1>9 DEF WriteTask, WriteEnabled, WriteReceive, WriteDone, WriteFailed
<1>10. ASSUME NEW e \in Endpoints, HostTakes(e)
       PROVE  UNCHANGED <<a2nVars, n2aVars>>
  BY <1>10 DEF HostTakes
<1>11. CASE TriggerNet
  BY <1>1, <1>2, <1>11 DEF TriggerNet
<1>12. CASE CmdTask
  BY <1>1, <1>2, <1>12, SentOnLinks DEF CmdTask, SendToNet
<1>13. CASE ReadAcl
  BY <1>1, <1>2, <1>13, SentOnLinks DEF ReadAcl, SendToNet
<1>14. CASE RecvTask
  BY <1>1, <1>3, <1>14 DEF RecvTask, RecvTaskWait, RecvTaskForward
<1>15. CASE TriggerApp
  BY <1>1, <1>3, <1>15 DEF TriggerApp
<1>16. CASE NetBoot
  BY <1>1, <1>2, <1>16 DEF NetBoot
<1>17. CASE RxLoopWait
  BY <1>1, <1>2, <1>17 DEF RxLoopWait
<1>18. CASE DispatchKnown
  <2>1. A2N!Next
    BY <1>2, <1>18 DEF DispatchKnown
  <2>2. Answer(a2nRecv[3]) \in UpPackets
    BY <1>18, SentOnLinks DEF DispatchKnown, A2N!HandlePacket
  <2>. QED  BY <1>3, <1>18, <2>1, <2>2 DEF DispatchKnown, NotifyApp
<1>19. CASE DispatchSilent
  BY <1>1, <1>2, <1>19 DEF DispatchSilent
<1>20. ASSUME NEW i \in Indicators, SdcEvent(i)
       PROVE  N2A!Next /\ UNCHANGED a2nVars
  BY <1>3, <1>20, SentOnLinks DEF SdcEvent, NotifyApp
<1>. QED
  BY <1>1, <1>4, <1>5, <1>6, <1>7, <1>8, <1>9, <1>10, <1>11, <1>12, <1>13, <1>14, <1>15,
     <1>16, <1>17, <1>18, <1>19, <1>20 DEF Next, RxLoop

LEMMA LinkTypes ==
  ASSUME TypeOK, [Next]_vars
  PROVE  (A2N!TypeOK)' /\ (N2A!TypeOK)'
<1>1. (A2NLink!TypeOK)'
  BY LinkSteps, A2NIsLink, PacketsFit, A2NLink!LinkTypeNext DEF TypeOK
<1>2. (N2ALink!TypeOK)'
  BY LinkSteps, N2AIsLink, PacketsFit, N2ALink!LinkTypeNext DEF TypeOK
<1>. QED  BY <1>1, <1>2, A2NIsLink, N2AIsLink

LEMMA BridgeTypeInit == Init => TypeOK
<1> SUFFICES ASSUME Init  PROVE TypeOK
  OBVIOUS
<1>1. A2N!TypeOK /\ N2A!TypeOK
  <2>1. A2NLink!TypeOK
    BY A2NIsLink, PacketsFit, A2NLink!LinkTypeInit DEF Init
  <2>2. N2ALink!TypeOK
    BY N2AIsLink, PacketsFit, N2ALink!LinkTypeInit DEF Init
  <2>. QED  BY <2>1, <2>2, A2NIsLink, N2AIsLink
<1>2. /\ cmdChan \in Seq(DownPackets) /\ Len(cmdChan) <= Depth
      /\ netToHost \in Seq(UpPackets) /\ Len(netToHost) <= Depth
      /\ netTook \in Seq(DownPackets) /\ netSent \in Seq(UpPackets)
  BY BridgeAssumption DEF Init
<1>3. hostGot \in [Endpoints -> Seq(UpPackets)] /\ inEp \in [Endpoints -> UpPackets \cup {None}]
  <2>1. <<>> \in Seq(UpPackets)
    OBVIOUS
  <2>. QED  BY <2>1 DEF Init
<1>4. usbUp \in BOOLEAN
  BY DEF Init
<1>5. credit \in 0 .. 1
  BY DEF Init
<1>6. /\ rdPc \in {"wait", "read"}
      /\ wrPc \in {"wait", "receive"} /\ wrPkt = None
      /\ hostSent \subseteq DownPackets
      /\ resets = 0 /\ hostCmds = 0 /\ hostAcls = 0 /\ ctrls = 0
  BY DEF Init
<1>7. 0 \in 0 .. MaxResets /\ 0 \in 0 .. MaxCmds /\ 0 \in 0 .. MaxAcls /\ 0 \in 0 .. MaxCtrls
  BY BridgeAssumption
<1>8. lost \subseteq Places \X (DownPackets \cup UpPackets)
  BY DEF Init
<1>. QED  BY <1>1, <1>2, <1>6, <1>7, <1>3, <1>8, <1>4, <1>5 DEF TypeOK

\* A write of the ring to the net core, or its refusal.
LEMMA SendToNetTypes ==
  ASSUME TypeOK, NEW p \in DownPackets, SendToNet(p)
  PROVE  lost' \subseteq Places \X (DownPackets \cup UpPackets)
<1>1. <<"a2n", p>> \in Places \X (DownPackets \cup UpPackets)
  BY DEF Places
<1>. QED  BY <1>1 DEF SendToNet, TypeOK

LEMMA NotifyAppTypes ==
  ASSUME TypeOK, NEW p \in UpPackets, NotifyApp(p)
  PROVE  /\ lost' \subseteq Places \X (DownPackets \cup UpPackets)
         /\ netSent' \in Seq(UpPackets)
<1>1. <<"n2a", p>> \in Places \X (DownPackets \cup UpPackets)
  BY DEF Places
<1>. QED  BY <1>1, Appended DEF NotifyApp, TypeOK

LEMMA BridgeTypeNext == TypeOK /\ [Next]_vars => TypeOK'
<1> SUFFICES ASSUME TypeOK, [Next]_vars
             PROVE  TypeOK'
  OBVIOUS
<1>0. (A2N!TypeOK)' /\ (N2A!TypeOK)'
  BY LinkTypes
<1> USE DEF hostVars, hostHist, netHist, histVars, writeVars
<1>1. CASE UNCHANGED vars
  BY <1>0, <1>1 DEF vars, TypeOK
<1>2. CASE Connect
  BY <1>0, <1>2 DEF Connect, TypeOK
<1>3. CASE Disconnect
  <2>1. resets' \in 0 .. MaxResets
    BY <1>3, BridgeAssumption DEF Disconnect, TypeOK
  <2> DEFINE InEps == {<<"usb", inEp[e]>> : e \in Endpoints} \ {<<"usb", None>>}
  <2>2. InEps \subseteq Places \X (DownPackets \cup UpPackets)
    BY DEF Places, TypeOK
  <2>3. lost' = lost \cup InEps /\ usbUp' = FALSE /\ credit' = 0
    BY <1>3 DEF Disconnect
  <2> HIDE DEF InEps
  <2>4. inEp' \in [Endpoints -> UpPackets \cup {None}]
    BY <1>3 DEF Disconnect
  <2>5. lost \subseteq Places \X (DownPackets \cup UpPackets)
    BY DEF TypeOK
  <2>6. lost' \subseteq Places \X (DownPackets \cup UpPackets)
    BY <2>2, <2>3, <2>5
  <2>7. usbUp' \in BOOLEAN
    BY <2>3
  <2>8. credit' \in 0 .. 1
    BY <2>3
  <2>9. UNCHANGED <<cmdChan, netToHost, rdPc, wrPc, wrPkt, hostHist, netHist>>
    BY <1>3 DEF Disconnect
  <2>. QED  BY <1>0, <2>1, <2>4, <2>6, <2>9, <2>7, <2>8 DEF TypeOK
<1>4. ASSUME NEW k \in Kinds, ControlOut(k)
      PROVE  TypeOK'
  <2>1. Cmd(k, hostCmds + 1) \in DownPackets /\ hostCmds' \in 0 .. MaxCmds
    BY <1>4, SentOnLinks DEF ControlOut, HostCommands
  <2>2. hostSent' \subseteq DownPackets /\ credit' \in 0 .. 1
    BY <1>4, <2>1 DEF ControlOut, HostCommands, TypeOK
  <2>3. cmdChan' \in Seq(DownPackets) /\ Len(cmdChan') <= Depth
    BY <1>4, <2>1, Appended, BridgeAssumption DEF ControlOut, TypeOK
  <2>4. lost' \subseteq Places \X (DownPackets \cup UpPackets)
    BY <1>4, <2>1 DEF ControlOut, Places, TypeOK
  <2>. QED  BY <1>0, <1>4, <2>1, <2>2, <2>3, <2>4 DEF ControlOut, HostCommands, TypeOK
<1>5. CASE TriggerNet
  BY <1>0, <1>5 DEF TriggerNet, TypeOK
<1>6. CASE CmdTask
  <2>1. /\ Head(cmdChan) \in DownPackets /\ cmdChan' \in Seq(DownPackets)
        /\ Len(cmdChan') <= Depth
    BY <1>6, SentOnLinks, LenProperties, BridgeAssumption DEF CmdTask, TypeOK
  <2>2. lost' \subseteq Places \X (DownPackets \cup UpPackets)
    BY <1>6, <2>1, SendToNetTypes DEF CmdTask
  <2>. QED  BY <1>0, <1>6, <2>1, <2>2 DEF CmdTask, TypeOK
<1>7. CASE ReadTask
  BY <1>0, <1>7 DEF ReadTask, ReadEnabled, ReadDisabled, TypeOK
<1>8. CASE ReadAcl
  <2>1. Acl(hostAcls + 1) \in DownPackets /\ hostAcls' \in 0 .. MaxAcls
    BY <1>8, SentOnLinks DEF ReadAcl
  <2>2. lost' \subseteq Places \X (DownPackets \cup UpPackets)
    BY <1>8, <2>1, SendToNetTypes DEF ReadAcl
  <2>3. hostSent' \subseteq DownPackets
    BY <1>8, <2>1 DEF ReadAcl, TypeOK
  <2>. QED  BY <1>0, <1>8, <2>1, <2>2, <2>3 DEF ReadAcl, TypeOK
<1>9. CASE RecvTaskWait
  BY <1>0, <1>9 DEF RecvTaskWait, TypeOK
<1>10. CASE RecvTaskForward
  <2>1. n2aRecv \in UpPackets
    BY <1>10, N2AMoves DEF RecvTaskForward, TypeOK
  <2>2. netToHost' \in Seq(UpPackets) /\ Len(netToHost') <= Depth
    BY <1>10, <2>1, Appended, BridgeAssumption DEF RecvTaskForward, TypeOK
  <2>. QED  BY <1>0, <1>10, <2>2 DEF RecvTaskForward, TypeOK
<1>11. CASE WriteEnabled
  BY <1>0, <1>11 DEF WriteEnabled, TypeOK
<1>12. CASE WriteReceive
  <2>1. wrPkt' \in UpPackets /\ netToHost' \in Seq(UpPackets) /\ Len(netToHost') <= Depth
    BY <1>12, Taken, LenProperties, BridgeAssumption DEF WriteReceive, TypeOK
  <2>. QED  BY <1>0, <1>12, <2>1 DEF WriteReceive, TypeOK
<1>13. CASE WriteDone
  <2>1. wrPkt \in UpPackets
    BY <1>13 DEF WriteDone, TypeOK
  <2>2. inEp' \in [Endpoints -> UpPackets \cup {None}]
    BY <1>13, <2>1, UpPacketIs DEF WriteDone, TypeOK
  <2>. QED  BY <1>0, <1>13, <2>2 DEF WriteDone, TypeOK
<1>14. CASE WriteFailed
  <2>1. <<"usb", wrPkt>> \in Places \X (DownPackets \cup UpPackets)
    BY <1>14 DEF WriteFailed, TypeOK, Places
  <2>. QED  BY <1>0, <1>14, <2>1 DEF WriteFailed, TypeOK
<1>15. ASSUME NEW e \in Endpoints, HostTakes(e)
       PROVE  TypeOK'
  <2>1. inEp[e] \in UpPackets /\ hostGot[e] \in Seq(UpPackets)
    BY <1>15 DEF HostTakes, TypeOK
  <2>2. Append(hostGot[e], inEp[e]) \in Seq(UpPackets)
    BY <2>1, Appended
  <2>3. /\ hostGot' \in [Endpoints -> Seq(UpPackets)]
        /\ inEp' \in [Endpoints -> UpPackets \cup {None}]
        /\ credit' \in 0 .. 1
    BY <1>15, <2>2 DEF HostTakes, TypeOK
  <2>. QED  BY <1>0, <1>15, <2>3 DEF HostTakes, TypeOK
<1>16. CASE TriggerApp
  BY <1>0, <1>16 DEF TriggerApp, TypeOK
<1>17. CASE NetBoot
  BY <1>0, <1>17 DEF NetBoot, TypeOK
<1>18. CASE RxLoopWait
  BY <1>0, <1>18 DEF RxLoopWait, TypeOK
<1>19. CASE DispatchKnown
  <2>1. a2nRecv \in DownPackets /\ Answer(a2nRecv[3]) \in UpPackets
    BY <1>19, A2NMoves, SentOnLinks DEF DispatchKnown, TypeOK
  <2>2. netTook' \in Seq(DownPackets)
    BY <1>19, <2>1, Appended DEF DispatchKnown, TypeOK
  <2>3. /\ lost' \subseteq Places \X (DownPackets \cup UpPackets)
        /\ netSent' \in Seq(UpPackets)
    BY <1>19, <2>1, NotifyAppTypes DEF DispatchKnown
  <2>. QED  BY <1>0, <1>19, <2>2, <2>3 DEF DispatchKnown, TypeOK
<1>20. CASE DispatchSilent
  <2>1. a2nRecv \in DownPackets
    BY <1>20, A2NMoves DEF DispatchSilent, TypeOK
  <2>2. netTook' \in Seq(DownPackets)
    BY <1>20, <2>1, Appended DEF DispatchSilent, TypeOK
  <2>. QED  BY <1>0, <1>20, <2>2 DEF DispatchSilent, TypeOK
<1>21. ASSUME NEW i \in Indicators, SdcEvent(i)
       PROVE  TypeOK'
  <2>1. CtrlPacket(i, ctrls + 1) \in UpPackets /\ ctrls' \in 0 .. MaxCtrls
    BY <1>21, SentOnLinks DEF SdcEvent
  <2>2. /\ lost' \subseteq Places \X (DownPackets \cup UpPackets)
        /\ netSent' \in Seq(UpPackets)
    BY <1>21, <2>1, NotifyAppTypes DEF SdcEvent
  <2>. QED  BY <1>0, <1>21, <2>1, <2>2 DEF SdcEvent, TypeOK
<1>. QED
  BY <1>1, <1>2, <1>3, <1>4, <1>5, <1>6, <1>7, <1>8, <1>9, <1>10, <1>11, <1>12, <1>13, <1>14,
     <1>15, <1>16, <1>17, <1>18, <1>19, <1>20, <1>21 DEF Next, RecvTask, WriteTask, RxLoop

\* Every variable of the bridge stays in its range: neither embassy channel holds
\* more than CHANNEL_DEPTH packets, neither ring more than its size.
THEOREM BridgeTypeCorrect == Spec => []TypeOK
  BY BridgeTypeInit, BridgeTypeNext, PTL DEF Spec

\* Neither core sleeps on a ring with a packet in it.
THEOREM BridgeWakesUp == Spec => []NoLostWakeup
<1>1. Init => A2NLink!NoLostWakeup /\ N2ALink!NoLostWakeup
  BY DEF Init, A2N!Init, N2A!Init, A2N!Ring!Init, N2A!Ring!Init,
     A2NLink!NoLostWakeup, N2ALink!NoLostWakeup
<1>2. TypeOK /\ A2NLink!NoLostWakeup /\ [Next]_vars => (A2NLink!NoLostWakeup)'
  BY LinkSteps, A2NIsLink, PacketsFit, A2NLink!WakeupNext DEF TypeOK
<1>3. TypeOK /\ N2ALink!NoLostWakeup /\ [Next]_vars => (N2ALink!NoLostWakeup)'
  BY LinkSteps, N2AIsLink, PacketsFit, N2ALink!WakeupNext DEF TypeOK
<1>4. Spec => [](A2NLink!NoLostWakeup /\ N2ALink!NoLostWakeup)
  BY <1>1, <1>2, <1>3, BridgeTypeCorrect, PTL DEF Spec
<1>5. A2NLink!NoLostWakeup /\ N2ALink!NoLostWakeup => NoLostWakeup
  BY A2NIsLink, N2AIsLink DEF NoLostWakeup
<1>. QED  BY <1>4, <1>5, PTL

-----------------------------------------------------------------------------
(* The refinement of CommandServer. *)

LEMMA BridgeServerInit == Init => Server!Init
<1> SUFFICES ASSUME Init  PROVE Server!Init
  OBVIOUS
<1>1. NetHand \o a2nQueue = <<>>
  BY DEF Init, A2N!Init, A2N!Ring!Init, NetHand
<1>2. netSent = <<>> /\ a2nRx = "wait"
  BY DEF Init, A2N!Init
<1>. QED  BY <1>1, <1>2 DEF Server!Init

LEMMA BridgeServerNext == TypeOK /\ [Next]_vars => [Server!Next]_(Server!serverVars)
<1> SUFFICES ASSUME TypeOK, [Next]_vars
             PROVE  Server!Next \/ UNCHANGED Server!serverVars
  OBVIOUS
<1>0. /\ NetHand \o a2nQueue \in Seq(DownPackets)
      /\ a2nRx = "handle" => a2nRecv \in DownPackets
  BY A2NMoves DEF TypeOK
<1>a. ASSUME UNCHANGED <<NetHand \o a2nQueue, a2nRx, netSent>>
      PROVE  UNCHANGED Server!serverVars
  BY <1>a DEF Server!serverVars
<1>b. UNCHANGED a2nVars => UNCHANGED <<NetHand \o a2nQueue, a2nRx>>
  BY DEF a2nVars, NetHand
<1>c. ASSUME NEW p \in DownPackets, SendToNet(p), UNCHANGED netSent
      PROVE  Server!Next \/ UNCHANGED Server!serverVars
  <2>1. CASE A2N!SendPacket(p)
    <3>1. (NetHand \o a2nQueue)' = Append(NetHand \o a2nQueue, p) /\ UNCHANGED a2nRx
      BY <2>1, A2NMoves DEF TypeOK
    <3>. QED  BY <1>c, <3>1 DEF Server!Next, Server!Arrive
  <2>2. CASE A2N!DropPacket(p)
    <3>1. UNCHANGED <<NetHand \o a2nQueue, a2nRx>>
      BY <2>2, A2NMoves DEF TypeOK
    <3>. QED  BY <1>a, <1>c, <3>1
  <2>. QED  BY <1>c, <2>1, <2>2 DEF SendToNet
<1>d. ASSUME NEW p, NotifyApp(p)
      PROVE  netSent' = Append(netSent, p)
  BY <1>d DEF NotifyApp
<1>1. CASE UNCHANGED vars
  BY <1>1, <1>a, <1>b DEF vars, histVars, netHist
<1>2. CASE Connect \/ Disconnect \/ ReadTask \/ RecvTask \/ WriteTask \/ TriggerApp
  BY <1>2, <1>a, <1>b DEF Connect, Disconnect, ReadTask, ReadEnabled, ReadDisabled, RecvTask,
     RecvTaskWait, RecvTaskForward, WriteTask, WriteEnabled, WriteReceive, WriteDone, WriteFailed,
     TriggerApp, histVars, netHist
<1>3. ASSUME NEW k \in Kinds, ControlOut(k)
      PROVE  UNCHANGED Server!serverVars
  BY <1>3, <1>a, <1>b DEF ControlOut, HostCommands, netHist
<1>4. ASSUME NEW e \in Endpoints, HostTakes(e)
      PROVE  UNCHANGED Server!serverVars
  BY <1>4, <1>a, <1>b DEF HostTakes, netHist
<1>5. CASE TriggerNet \/ NetBoot
  <2>1. A2N!TriggerEvent \/ A2N!Configure
    BY <1>5 DEF TriggerNet, NetBoot
  <2>2. UNCHANGED <<NetHand \o a2nQueue, a2nRx>>
    BY <2>1, A2NMoves DEF TypeOK
  <2>3. UNCHANGED netSent
    BY <1>5 DEF TriggerNet, NetBoot, histVars, netHist
  <2>. QED  BY <1>a, <2>2, <2>3
<1>6. CASE CmdTask
  BY <1>6, <1>c, SentOnLinks DEF CmdTask, netHist
<1>7. CASE ReadAcl
  BY <1>7, <1>c, SentOnLinks DEF ReadAcl, netHist
<1>8. CASE RxLoopWait
  <2>1. UNCHANGED <<NetHand \o a2nQueue, netSent>>
    BY <1>8, A2NMoves DEF RxLoopWait, TypeOK, histVars, netHist
  <2>2. CASE A2N!WaitEvent
    <3>1. a2nRx = "wait" /\ a2nRx' = "drain"
      BY <2>2 DEF A2N!WaitEvent
    <3>2. (a2nRx # "wait")' = TRUE
      BY <3>1
    <3>3. ~(a2nRx # "wait")
      BY <3>1
    <3>4. Server!Start
      BY <2>1, <3>2, <3>3, Zenon DEF Server!Start
    <3>. QED  BY <3>4 DEF Server!Next
  <2>3. CASE A2N!ReadPacket \/ A2N!ReadEmpty
    <3>1. a2nRx = "drain" /\ a2nRx' \in {"handle", "return"}
      BY <2>3 DEF A2N!ReadPacket, A2N!ReadEmpty
    <3>2. UNCHANGED (a2nRx # "wait")
      BY <3>1
    <3>. QED  BY <2>1, <3>2, Zenon DEF Server!serverVars
  <2>4. CASE A2N!ReturnToWait
    <3>1. a2nRx = "return" /\ a2nRx' = "wait"
      BY <2>4 DEF A2N!ReturnToWait
    <3>2. (a2nRx # "wait")' = FALSE
      BY <3>1
    <3>3. a2nRx # "wait"
      BY <3>1
    <3>4. Server!Stop
      BY <2>1, <3>2, <3>3, Zenon DEF Server!Stop
    <3>. QED  BY <3>4 DEF Server!Next
  <2>. QED  BY <1>8, <2>2, <2>3, <2>4 DEF RxLoopWait
<1>9. ASSUME A2N!HandlePacket
      PROVE  /\ NetHand \o a2nQueue # <<>> /\ Head(NetHand \o a2nQueue) = a2nRecv
             /\ (NetHand \o a2nQueue)' = Tail(NetHand \o a2nQueue)
             /\ a2nRx # "wait" /\ UNCHANGED (a2nRx # "wait")
             /\ a2nRecv \in DownPackets
  <2>1. a2nRx = "handle" /\ a2nRx' = "drain"
    BY <1>9 DEF A2N!HandlePacket
  <2>. QED  BY <1>0, <1>9, <2>1, A2NMoves DEF TypeOK
<1>10. CASE DispatchKnown
  <2> DEFINE K == {Cmd("known", n) : n \in 1 .. MaxCmds}
  <2>1. a2nRecv \in K
    <3>1. PICK k \in CommandKinds, n \in 1 .. MaxCmds : a2nRecv = Cmd(k, n)
      BY <1>9, <1>10, DownPacketIs DEF DispatchKnown
    <3>2. k = "known"
      BY <1>10, <3>1 DEF DispatchKnown, Cmd
    <3>. QED  BY <3>1, <3>2
  <2>2. netSent' = Append(netSent, [p \in K |-> Answer(p[3])][a2nRecv])
    BY <1>10, <1>d, <2>1 DEF DispatchKnown
  <2>3. A2N!HandlePacket
    BY <1>10 DEF DispatchKnown
  <2>4. Server!Handle
    BY <1>9, <2>1, <2>2, <2>3, Zenon DEF Server!Handle
  <2>. QED  BY <2>4 DEF Server!Next
<1>11. CASE DispatchSilent
  <2>1. a2nRecv \notin {Cmd("known", n) : n \in 1 .. MaxCmds}
    BY <1>11 DEF DispatchSilent, IsAcl, Cmd
  <2>2. A2N!HandlePacket /\ UNCHANGED netSent
    BY <1>11 DEF DispatchSilent
  <2>3. Server!Handle
    BY <1>9, <2>1, <2>2, Zenon DEF Server!Handle
  <2>. QED  BY <2>3 DEF Server!Next
<1>12. ASSUME NEW i \in Indicators, SdcEvent(i)
       PROVE  Server!Next
  <2> DEFINE r == CtrlPacket(i, ctrls + 1)
  <2>1. r \in {CtrlPacket(j, n) : j \in Indicators, n \in 1 .. MaxCtrls}
    <3>1. ctrls + 1 \in 1 .. MaxCtrls
      BY <1>12, BridgeAssumption DEF SdcEvent, TypeOK
    <3>. QED  BY <3>1
  <2>2. netSent' = Append(netSent, r)
    BY <1>12, <1>d DEF SdcEvent
  <2>3. a2nRx = "wait" /\ UNCHANGED <<NetHand \o a2nQueue, a2nRx>>
    BY <1>12, <1>b DEF SdcEvent
  <2> HIDE DEF r
  <2>4. Server!Report(r)
    BY <2>2, <2>3 DEF Server!Report
  <2>. QED  BY <2>1, <2>4 DEF Server!Next
<1>. QED
  BY <1>1, <1>2, <1>3, <1>4, <1>5, <1>6, <1>7, <1>8, <1>10, <1>11, <1>12 DEF Next, RxLoop

\* Between its rings, whatever they hold and drop and however the cores interleave,
\* the net core answers each known command once and in order.
THEOREM BridgeImplementsServer == Spec => ImplementsServer
  BY BridgeServerInit, BridgeServerNext, BridgeTypeCorrect, PTL
     DEF Spec, ImplementsServer, Server!Spec

-----------------------------------------------------------------------------
(* The order of the packets to the net core. *)

\* In the streams a number tells which of two packets of a kind was sent first.
DownOrder == {r \in DownPackets \X DownPackets : r[1][1] = r[2][1] => r[1][3] < r[2][3]}

LEMMA DownOrderIs ==
  /\ \A p, q \in DownPackets : <<p, q>> \in DownOrder <=> (p[1] = q[1] => p[3] < q[3])
  /\ \A p : <<p, p>> \notin DownOrder
<1>1. \A p, q \in DownPackets : <<p, q>> \in DownOrder <=> (p[1] = q[1] => p[3] < q[3])
  BY DEF DownOrder
<1>2. ASSUME NEW p, <<p, p>> \in DownOrder
      PROVE  FALSE
  <2>1. p \in DownPackets /\ p[3] < p[3]
    BY <1>2 DEF DownOrder
  <2>. QED  BY <2>1, DownPacketIs
<1>. QED  BY <1>1, <1>2

LEMMA DownStreamIs ==
  TypeOK =>
    /\ DownStream = (netTook \o (NetHand \o a2nQueue)) \o cmdChan
    /\ NetHand \o a2nQueue \in Seq(DownPackets)
    /\ netTook \in Seq(DownPackets) /\ cmdChan \in Seq(DownPackets)
    /\ hostSent \subseteq DownPackets
    /\ DownstreamInOrder <=>
         Chain(DownOrder, DownStream) /\ Range(DownStream) = hostSent \ Lost
<1> SUFFICES ASSUME TypeOK
             PROVE  /\ DownStream = (netTook \o (NetHand \o a2nQueue)) \o cmdChan
                    /\ NetHand \o a2nQueue \in Seq(DownPackets)
                    /\ netTook \in Seq(DownPackets) /\ cmdChan \in Seq(DownPackets)
                    /\ hostSent \subseteq DownPackets
                    /\ DownstreamInOrder <=>
                         Chain(DownOrder, DownStream) /\ Range(DownStream) = hostSent \ Lost
  OBVIOUS
<1>1. /\ netTook \in Seq(DownPackets) /\ cmdChan \in Seq(DownPackets)
      /\ a2nQueue \in Seq(DownPackets) /\ NetHand \o a2nQueue \in Seq(DownPackets)
      /\ a2nRx = "handle" => a2nRecv \in DownPackets
      /\ hostSent \subseteq DownPackets
  BY A2NMoves DEF TypeOK
<1>2. NetHand \in Seq(DownPackets)
  BY <1>1 DEF NetHand
<1>3. netTook \o NetHand \o a2nQueue = netTook \o (NetHand \o a2nQueue)
  <2>1. netTook \in Seq(DownPackets) /\ NetHand \in Seq(DownPackets) /\ a2nQueue \in Seq(DownPackets)
    BY <1>1, <1>2
  <2>. QED  BY <2>1, ConcatAssociative
<1>4. DownStream = (netTook \o (NetHand \o a2nQueue)) \o cmdChan
  BY <1>3 DEF DownStream
<1>5. DownStream \in Seq(DownPackets)
  BY <1>1, <1>4, RangeOfThree
<1>6. \A i \in DOMAIN DownStream : DownStream[i] \in DownPackets
  BY <1>5
<1>7. DownstreamInOrder <=>
         Chain(DownOrder, DownStream) /\ Range(DownStream) = hostSent \ Lost
  BY <1>6, DownOrderIs DEF DownstreamInOrder, Chain
<1>. QED  BY <1>1, <1>4, <1>7

\* Losing packets: where does not matter here.
LEMMA LostIs ==
  /\ UNCHANGED lost => UNCHANGED Lost
  /\ \A place, p : lost' = lost \cup {<<place, p>>} => Lost' = Lost \cup {p}
<1>1. ASSUME NEW place, NEW p, lost' = lost \cup {<<place, p>>}
      PROVE  Lost' = Lost \cup {p}
  <2>1. <<place, p>>[2] = p
    OBVIOUS
  <2>. QED  BY <1>1, <2>1 DEF Lost
<1>. QED  BY <1>1 DEF Lost

\* A disconnect loses what the endpoints hold.
LEMMA LostAtDisconnect ==
  ASSUME TypeOK, Disconnect
  PROVE  LET Held == {inEp[e] : e \in Endpoints} \ {None} IN
         Held \subseteq UpPackets /\ Lost' = Lost \cup Held
<1> DEFINE Held == {inEp[e] : e \in Endpoints} \ {None}
           New == {<<"usb", inEp[e]>> : e \in Endpoints} \ {<<"usb", None>>}
<1>1. Held \subseteq UpPackets
  BY DEF TypeOK
<1>2. lost' = lost \cup New
  BY DEF Disconnect
<1>3. ASSUME NEW p \in Held
      PROVE  <<"usb", p>> \in New /\ <<"usb", p>>[2] = p
  OBVIOUS
<1>4. ASSUME NEW l \in New
      PROVE  l[2] \in Held
  <2>1. PICK e \in Endpoints : l = <<"usb", inEp[e]>> /\ inEp[e] # None
    OBVIOUS
  <2>. QED  BY <2>1
<1> HIDE DEF Held, New
<1>5. Lost' = Lost \cup Held
  BY <1>2, <1>3, <1>4 DEF Lost
<1>. QED  BY <1>1, <1>5 DEF Held

\* Whatever is on its way down is numbered, and only commands wait in the channel.
DownInv ==
  /\ DownstreamInOrder
  /\ Lost \cap DownPackets \subseteq hostSent
  /\ \A p \in hostSent : p[3] <= IF IsCmd(p) THEN hostCmds ELSE hostAcls
  /\ \A p \in Range(cmdChan) : IsCmd(p)

LEMMA DownStreamIsNext ==
  TypeOK' =>
    /\ DownStream' = (netTook' \o (NetHand \o a2nQueue)') \o cmdChan'
    /\ (NetHand \o a2nQueue)' \in Seq(DownPackets)
    /\ netTook' \in Seq(DownPackets) /\ cmdChan' \in Seq(DownPackets)
    /\ hostSent' \subseteq DownPackets
    /\ DownstreamInOrder' <=>
         Chain(DownOrder, DownStream') /\ Range(DownStream') = hostSent' \ Lost'
<1>1. (TypeOK =>
    /\ DownStream = (netTook \o (NetHand \o a2nQueue)) \o cmdChan
    /\ NetHand \o a2nQueue \in Seq(DownPackets)
    /\ netTook \in Seq(DownPackets) /\ cmdChan \in Seq(DownPackets)
    /\ hostSent \subseteq DownPackets
    /\ DownstreamInOrder <=>
         Chain(DownOrder, DownStream) /\ Range(DownStream) = hostSent \ Lost)'
  BY DownStreamIs, PTL
<1>. QED  BY <1>1

\* Packets move along the stream, and what is lost comes from the net core.
LEMMA DownKept ==
  ASSUME TypeOK, TypeOK', DownInv,
         UNCHANGED <<DownStream, hostSent, hostCmds, hostAcls>>,
         Lost \subseteq Lost', Lost' \subseteq Lost \cup UpPackets,
         Range(cmdChan') \subseteq Range(cmdChan)
  PROVE  DownInv'
<1>1. hostSent \subseteq DownPackets /\ \A p \in DownPackets : p \notin UpPackets
  BY DownPacketIs DEF TypeOK
<1>2. hostSent' \ Lost' = hostSent \ Lost /\ Lost' \cap DownPackets = Lost \cap DownPackets
  BY <1>1
<1>3. DownstreamInOrder'
  BY <1>2, DownStreamIs, DownStreamIsNext DEF DownInv
<1>4. \A p \in Range(cmdChan') : IsCmd(p)
  BY DEF DownInv
<1>. QED  BY <1>2, <1>3, <1>4 DEF DownInv, IsCmd

\* The host sends a packet, which joins the stream or is dropped.
LEMMA DownSent ==
  ASSUME TypeOK, TypeOK', DownInv,
         NEW p \in DownPackets, hostSent' = hostSent \cup {p},
         IF IsCmd(p) THEN p[3] = hostCmds + 1 /\ hostCmds' = hostCmds + 1 /\ UNCHANGED hostAcls
                     ELSE p[3] = hostAcls + 1 /\ hostAcls' = hostAcls + 1 /\ UNCHANGED hostCmds,
         \/ /\ UNCHANGED lost
            /\ Chain(DownOrder, DownStream')
            /\ Range(DownStream') = Range(DownStream) \cup {p}
            /\ Range(cmdChan') \subseteq Range(cmdChan) \cup (IF IsCmd(p) THEN {p} ELSE {})
         \/ /\ \E place : lost' = lost \cup {<<place, p>>}
            /\ UNCHANGED <<DownStream, cmdChan>>
  PROVE  DownInv'
<1>1. hostSent \subseteq DownPackets /\ hostCmds \in Nat /\ hostAcls \in Nat
  BY BridgeAssumption DEF TypeOK
<1>2. p \notin hostSent /\ p \notin Lost
  BY <1>1 DEF DownInv
<1>3. Range(DownStream) = hostSent \ Lost /\ Chain(DownOrder, DownStream)
  BY DownStreamIs DEF DownInv
<1>4. /\ Chain(DownOrder, DownStream') /\ Range(DownStream') = hostSent' \ Lost'
      /\ Lost' \cap DownPackets \subseteq hostSent'
      /\ \A q \in Range(cmdChan') : IsCmd(q)
  <2>1. CASE /\ UNCHANGED lost
             /\ Chain(DownOrder, DownStream')
             /\ Range(DownStream') = Range(DownStream) \cup {p}
             /\ Range(cmdChan') \subseteq Range(cmdChan) \cup (IF IsCmd(p) THEN {p} ELSE {})
    BY <1>2, <1>3, <2>1, LostIs DEF DownInv
  <2>2. CASE /\ \E place : lost' = lost \cup {<<place, p>>}
             /\ UNCHANGED <<DownStream, cmdChan>>
    <3>1. Lost' = Lost \cup {p}
      BY <2>2, LostIs
    <3>. QED  BY <1>2, <1>3, <2>2, <3>1 DEF DownInv
  <2>. QED  BY <2>1, <2>2
<1>5. DownstreamInOrder'
  BY <1>4, DownStreamIsNext
<1>6. ASSUME NEW q \in hostSent'
      PROVE  q[3] <= IF IsCmd(q) THEN hostCmds' ELSE hostAcls'
  <2>1. q \in DownPackets /\ q[3] \in Nat
    BY <1>1, <1>6, DownPacketIs
  <2>2. CASE q = p
    BY <1>1, <2>2
  <2>3. CASE q \in hostSent
    BY <1>1, <2>1, <2>3 DEF DownInv
  <2>. QED  BY <1>6, <2>2, <2>3
<1>. QED  BY <1>4, <1>5, <1>6 DEF DownInv, IsCmd

\* Where the steps leave the packets on their way down.
LEMMA DownInvNext == TypeOK /\ TypeOK' /\ DownInv /\ [Next]_vars => DownInv'
<1> SUFFICES ASSUME TypeOK, TypeOK', DownInv, [Next]_vars
             PROVE  DownInv'
  OBVIOUS
<1> DEFINE T == netTook
           P == NetHand \o a2nQueue
           C == cmdChan
<1>0. /\ T \in Seq(DownPackets) /\ P \in Seq(DownPackets) /\ C \in Seq(DownPackets)
      /\ T' \in Seq(DownPackets) /\ P' \in Seq(DownPackets) /\ C' \in Seq(DownPackets)
      /\ DownStream = (T \o P) \o C /\ DownStream' = (T' \o P') \o C'
      /\ Chain(DownOrder, DownStream) /\ Range(DownStream) = hostSent \ Lost
      /\ hostSent \subseteq DownPackets
  BY DownStreamIs, DownStreamIsNext DEF DownInv
<1> HIDE DEF T, P, C
<1>s. /\ T \in Seq(DownPackets) /\ P \in Seq(DownPackets) /\ C \in Seq(DownPackets)
      /\ T' \in Seq(DownPackets) /\ P' \in Seq(DownPackets) /\ C' \in Seq(DownPackets)
  BY <1>0
<1>a. /\ Range(DownStream) = Range(T) \cup Range(P) \cup Range(C)
      /\ Chain(DownOrder, T) /\ Chain(DownOrder, P) /\ Chain(DownOrder, C)
      /\ \A c \in Range(T), d \in Range(P) : <<c, d>> \in DownOrder
      /\ \A c \in Range(T), d \in Range(C) : <<c, d>> \in DownOrder
      /\ \A c \in Range(P), d \in Range(C) : <<c, d>> \in DownOrder
  <2>1. Range((T \o P) \o C) = Range(T) \cup Range(P) \cup Range(C)
    BY <1>s, RangeOfThree
  <2>2. Chain(DownOrder, (T \o P) \o C) =>
          /\ Chain(DownOrder, T) /\ Chain(DownOrder, P) /\ Chain(DownOrder, C)
          /\ \A c \in Range(T), d \in Range(P) : <<c, d>> \in DownOrder
          /\ \A c \in Range(T), d \in Range(C) : <<c, d>> \in DownOrder
          /\ \A c \in Range(P), d \in Range(C) : <<c, d>> \in DownOrder
    BY <1>s, ChainOfThree
  <2>. QED  BY <1>0, <2>1, <2>2
<1>b. UNCHANGED a2nVars => UNCHANGED P
  BY DEF a2nVars, NetHand, P
<1>c. \A p \in DownPackets : A2N!SendPacket(p) => P' = Append(P, p)
  BY A2NMoves DEF TypeOK, P
<1>d. /\ \A p \in DownPackets : A2N!DropPacket(p) => P' = P
      /\ A2N!TriggerEvent \/ A2N!Configure => P' = P
      /\ A2N!WaitEvent \/ A2N!ReadPacket \/ A2N!ReadEmpty \/ A2N!ReturnToWait => P' = P
  BY A2NMoves DEF TypeOK, P
<1>e. A2N!HandlePacket => a2nRecv \in DownPackets /\ P = <<a2nRecv>> \o P'
  BY A2NMoves DEF TypeOK, P
<1>f. UNCHANGED lost => Lost \subseteq Lost' /\ Lost' \subseteq Lost \cup UpPackets
  BY LostIs
<1>g. ASSUME NEW p \in UpPackets, NotifyApp(p)
      PROVE  Lost \subseteq Lost' /\ Lost' \subseteq Lost \cup UpPackets
  <2>1. Lost' = Lost \/ Lost' = Lost \cup {p}
    BY <1>g, LostIs DEF NotifyApp
  <2>. QED  BY <2>1, <1>g
<1>1. ASSUME UNCHANGED <<T, P, C, hostSent, hostCmds, hostAcls>>,
             Lost \subseteq Lost', Lost' \subseteq Lost \cup UpPackets
      PROVE  DownInv'
  <2>1. DownStream' = DownStream
    BY <1>0, <1>1
  <2>. QED  BY <1>1, <2>1, DownKept DEF C
<1>2. CASE UNCHANGED vars
  BY <1>1, <1>b, <1>f, <1>2 DEF vars, histVars, netHist, hostHist, T, C
<1>3. CASE Connect \/ ReadTask \/ RecvTask \/ TriggerApp \/ WriteEnabled \/ WriteReceive \/ WriteDone
  BY <1>1, <1>b, <1>f, <1>3 DEF Connect, ReadTask, ReadEnabled, ReadDisabled, RecvTask, RecvTaskWait,
     RecvTaskForward, TriggerApp, WriteEnabled, WriteReceive, WriteDone, histVars, netHist, hostHist,
     T, C
<1>4. CASE Disconnect
  <2>1. Lost \subseteq Lost' /\ Lost' \subseteq Lost \cup UpPackets
    BY <1>4, LostAtDisconnect
  <2>. QED  BY <1>1, <1>b, <1>4, <2>1 DEF Disconnect, netHist, hostHist, T, C
<1>5. CASE WriteFailed
  <2>1. wrPkt \in UpPackets /\ lost' = lost \cup {<<"usb", wrPkt>>}
    BY <1>5 DEF WriteFailed, TypeOK
  <2>2. Lost' = Lost \cup {wrPkt}
    BY <2>1, LostIs
  <2>. QED  BY <1>1, <1>b, <1>5, <2>1, <2>2 DEF WriteFailed, netHist, hostHist, T, C
<1>6. ASSUME NEW e \in Endpoints, HostTakes(e)
      PROVE  DownInv'
  BY <1>1, <1>b, <1>f, <1>6 DEF HostTakes, netHist, T, C
<1>7. CASE TriggerNet \/ NetBoot \/ RxLoopWait
  BY <1>1, <1>d, <1>f, <1>7 DEF TriggerNet, NetBoot, RxLoopWait, histVars, netHist, hostHist, T, C
<1>8. ASSUME NEW i \in Indicators, SdcEvent(i)
      PROVE  DownInv'
  <2>1. Lost \subseteq Lost' /\ Lost' \subseteq Lost \cup UpPackets
    BY <1>8, <1>g, SentOnLinks DEF SdcEvent
  <2>. QED  BY <1>1, <1>b, <1>8, <2>1 DEF SdcEvent, hostHist, T, C
<1>9. CASE DispatchKnown \/ DispatchSilent
  <2>1. /\ a2nRecv \in DownPackets /\ P = <<a2nRecv>> \o P' /\ T' = Append(T, a2nRecv)
        /\ UNCHANGED <<C, hostSent, hostCmds, hostAcls>>
    BY <1>9, <1>e DEF DispatchKnown, DispatchSilent, hostHist, T, C
  <2>2. Lost \subseteq Lost' /\ Lost' \subseteq Lost \cup UpPackets
    <3>1. CASE DispatchSilent
      BY <3>1, <1>f DEF DispatchSilent
    <3>2. CASE DispatchKnown
      <4>1. Answer(a2nRecv[3]) \in UpPackets
        BY <3>2, SentOnLinks DEF DispatchKnown, A2N!HandlePacket
      <4>. QED  BY <3>2, <4>1, <1>g DEF DispatchKnown
    <3>. QED  BY <1>9, <3>1, <3>2
  <2>3. Append(T, a2nRecv) \o P' = T \o (<<a2nRecv>> \o P')
    BY <1>0, <2>1, PassedOn
  <2>4. DownStream' = DownStream
    BY <1>0, <2>1, <2>3
  <2>. QED  BY <2>1, <2>2, <2>4, DownKept DEF C
<1>10. CASE CmdTask
  <2> DEFINE p == Head(C)
             X == Tail(C)
  <2>1. /\ p \in DownPackets /\ X \in Seq(DownPackets) /\ C = <<p>> \o X /\ C' = X
        /\ UNCHANGED <<T, hostSent, hostCmds, hostAcls>> /\ SendToNet(p)
    BY <1>0, <1>10, Taken, HeadAndTail DEF CmdTask, netHist, hostHist, T, C
  <2> HIDE DEF p, X
  <2>2. /\ Range(C) = {p} \cup Range(X) /\ Chain(DownOrder, X)
        /\ \A d \in Range(X) : <<p, d>> \in DownOrder
    BY <1>s, <1>a, <2>1, RangeTaken, ChainTaken
  <2>3. CASE A2N!SendPacket(p) /\ UNCHANGED lost
    <3>1. P' = Append(P, p)
      BY <1>c, <2>1, <2>3
    <3>2. T \o Append(P, p) = Append(T \o P, p) /\ T \o P \in Seq(DownPackets)
      <4>1. T \in Seq(DownPackets) /\ P \in Seq(DownPackets) /\ p \in DownPackets
        BY <1>s, <2>1
      <4>2. T \o P \in Seq(DownPackets)
        BY <4>1, Joined
      <4>. QED  BY <4>1, <4>2, PassedOn
    <3> DEFINE TP == T \o P
    <3>3. Append(TP, p) \o X = TP \o (<<p>> \o X)
      <4>1. TP \in Seq(DownPackets)
        BY <3>2
      <4> HIDE DEF TP
      <4>. QED  BY <2>1, <4>1, PassedOn
    <3>4. DownStream' = DownStream
      BY <1>0, <2>1, <3>1, <3>2, <3>3
    <3>. QED  BY <1>f, <2>1, <2>2, <2>3, <3>4, DownKept DEF C
  <2>4. CASE A2N!DropPacket(p) /\ lost' = lost \cup {<<"a2n", p>>}
    <3>1. P' = P /\ Lost' = Lost \cup {p}
      BY <1>d, <2>1, <2>4, LostIs
    <3>2. p \notin Range(T) /\ p \notin Range(P) /\ p \notin Range(X)
      BY <1>a, <2>2, DownOrderIs
    <3>3. /\ Range(DownStream') = Range(T) \cup Range(P) \cup Range(X)
          /\ Chain(DownOrder, DownStream')
      <4>1. Range((T \o P) \o X) = Range(T) \cup Range(P) \cup Range(X)
        BY <1>s, <2>1, RangeOfThree
      <4>2. /\ \A c \in Range(T), d \in Range(X) : <<c, d>> \in DownOrder
            /\ \A c \in Range(P), d \in Range(X) : <<c, d>> \in DownOrder
        BY <1>a, <2>2
      <4>3. /\ Chain(DownOrder, T) /\ Chain(DownOrder, P) /\ Chain(DownOrder, X)
            /\ \A c \in Range(T), d \in Range(P) : <<c, d>> \in DownOrder
        BY <1>a, <2>2
      <4>4. X \in Seq(DownPackets)
        BY <2>1
      <4>5. Chain(DownOrder, (T \o P) \o X)
        BY <1>s, <4>2, <4>3, <4>4, ChainOfThree
      <4>. QED  BY <1>0, <2>1, <3>1, <4>1, <4>5
    <3>4. Range(DownStream') = hostSent' \ Lost'
      BY <1>0, <1>a, <2>1, <2>2, <3>1, <3>2, <3>3
    <3>5. DownstreamInOrder'
      BY <3>3, <3>4, DownStreamIsNext
    <3>6. p \in hostSent
      BY <1>0, <1>a, <2>2
    <3>. QED  BY <2>1, <2>2, <3>1, <3>5, <3>6 DEF DownInv, IsCmd, C
  <2>. QED  BY <2>1, <2>3, <2>4 DEF SendToNet
<1>11. ASSUME NEW k \in Kinds, ControlOut(k)
       PROVE  DownInv'
  <2> DEFINE p == Cmd(k, hostCmds + 1)
  <2>1. /\ p \in DownPackets /\ IsCmd(p) /\ p[1] = 1 /\ p[3] = hostCmds + 1
        /\ hostCmds' = hostCmds + 1 /\ hostSent' = hostSent \cup {p} /\ UNCHANGED hostAcls
    BY <1>11, SentOnLinks DEF ControlOut, HostCommands, Cmd, IsCmd
  <2>2. UNCHANGED <<T, P>>
    BY <1>b, <1>11 DEF ControlOut, HostCommands, netHist, T
  <2>3. \/ C' = Append(C, p) /\ UNCHANGED lost
        \/ lost' = lost \cup {<<"channel", p>>} /\ UNCHANGED C
    BY <1>11 DEF ControlOut, C
  <2> HIDE DEF p
  <2>4. \A q \in Range(DownStream) : <<q, p>> \in DownOrder
    <3>1. ASSUME NEW q \in hostSent, q[1] = p[1]
          PROVE  q[3] < p[3]
      <4>1. q \in DownPackets /\ q[3] \in Nat
        BY <1>0, <3>1, DownPacketIs
      <4>2. hostCmds \in Nat
        BY BridgeAssumption DEF TypeOK
      <4>. QED  BY <2>1, <3>1, <4>1, <4>2 DEF DownInv, IsCmd
    <3>. QED  BY <1>0, <2>1, <3>1, DownOrderIs
  <2>5. CASE C' = Append(C, p) /\ UNCHANGED lost
    <3>1. /\ Range(C') = Range(C) \cup {p} /\ Chain(DownOrder, C')
      BY <1>0, <1>a, <2>1, <2>4, <2>5, RangeAppended, ChainAppended
    <3>2. Range((T \o P) \o C') = Range(T) \cup Range(P) \cup Range(C')
      BY <1>s, RangeOfThree
    <3>3. Chain(DownOrder, (T \o P) \o C')
      <4>1. /\ \A c \in Range(T), d \in Range(C') : <<c, d>> \in DownOrder
            /\ \A c \in Range(P), d \in Range(C') : <<c, d>> \in DownOrder
        BY <1>a, <2>4, <3>1
      <4>2. /\ Chain(DownOrder, T) /\ Chain(DownOrder, P) /\ Chain(DownOrder, C')
            /\ \A c \in Range(T), d \in Range(P) : <<c, d>> \in DownOrder
        BY <1>a, <3>1
      <4>. QED  BY <1>s, <4>1, <4>2, ChainOfThree
    <3>4. Range(DownStream') = Range(DownStream) \cup {p} /\ Chain(DownOrder, DownStream')
      BY <1>0, <1>a, <2>2, <3>1, <3>2, <3>3
    <3>. QED  BY <2>1, <2>5, <3>1, <3>4, DownSent DEF C
  <2>6. CASE lost' = lost \cup {<<"channel", p>>} /\ UNCHANGED C
    <3>1. DownStream' = DownStream
      BY <1>0, <2>2, <2>6
    <3>. QED  BY <2>1, <2>6, <3>1, DownSent DEF C
  <2>. QED  BY <2>3, <2>5, <2>6
<1>12. CASE ReadAcl
  <2> DEFINE p == Acl(hostAcls + 1)
  <2>1. /\ p \in DownPackets /\ ~IsCmd(p) /\ p[1] = 2 /\ p[3] = hostAcls + 1
        /\ hostAcls' = hostAcls + 1 /\ hostSent' = hostSent \cup {p} /\ UNCHANGED hostCmds
        /\ SendToNet(p) /\ UNCHANGED <<T, C>>
    BY <1>12, SentOnLinks DEF ReadAcl, Acl, IsCmd, netHist, T, C
  <2> HIDE DEF p
  <2>2. \A q \in Range(DownStream) : <<q, p>> \in DownOrder
    <3>1. ASSUME NEW q \in hostSent, q[1] = p[1]
          PROVE  q[3] < p[3]
      <4>1. q \in DownPackets /\ q[3] \in Nat
        BY <1>0, <3>1, DownPacketIs
      <4>2. hostAcls \in Nat
        BY BridgeAssumption DEF TypeOK
      <4>. QED  BY <2>1, <3>1, <4>1, <4>2 DEF DownInv, IsCmd
    <3>. QED  BY <1>0, <2>1, <3>1, DownOrderIs
  <2>3. CASE A2N!SendPacket(p) /\ UNCHANGED lost
    <3>1. P' = Append(P, p)
      BY <1>c, <2>1, <2>3
    <3>2. Range(P') = Range(P) \cup {p} /\ Chain(DownOrder, P')
      BY <1>0, <1>a, <2>1, <2>2, <3>1, RangeAppended, ChainAppended
    <3>3. \A d \in Range(C) : <<p, d>> \in DownOrder
      <4>1. \A d \in Range(C) : d \in DownPackets /\ d[1] = 1
        BY <1>0, <1>a DEF DownInv, IsCmd, C
      <4>. QED  BY <2>1, <4>1, DownOrderIs
    <3>4. Range((T \o P') \o C) = Range(T) \cup Range(P') \cup Range(C)
      BY <1>s, RangeOfThree
    <3>5. Chain(DownOrder, (T \o P') \o C)
      <4>1. /\ Chain(DownOrder, T) /\ Chain(DownOrder, P') /\ Chain(DownOrder, C)
            /\ \A x \in Range(T), d \in Range(P') : <<x, d>> \in DownOrder
            /\ \A x \in Range(T), d \in Range(C) : <<x, d>> \in DownOrder
            /\ \A x \in Range(P'), d \in Range(C) : <<x, d>> \in DownOrder
        BY <1>a, <2>2, <3>2, <3>3
      <4>2. T \in Seq(DownPackets) /\ P' \in Seq(DownPackets) /\ C \in Seq(DownPackets)
        BY <1>s
      <4>. QED  BY <4>1, <4>2, ChainOfThree
    <3>6. Range(DownStream') = Range(DownStream) \cup {p} /\ Chain(DownOrder, DownStream')
      BY <1>0, <1>a, <2>1, <3>2, <3>4, <3>5
    <3>. QED  BY <2>1, <2>3, <3>6, DownSent DEF C
  <2>4. CASE A2N!DropPacket(p) /\ lost' = lost \cup {<<"a2n", p>>}
    <3>1. DownStream' = DownStream
      BY <1>0, <1>d, <2>1, <2>4
    <3>. QED  BY <2>1, <2>4, <3>1, DownSent DEF C
  <2>. QED  BY <2>1, <2>3, <2>4 DEF SendToNet
<1>. QED
  BY <1>2, <1>3, <1>4, <1>5, <1>6, <1>7, <1>8, <1>9, <1>10, <1>11, <1>12
     DEF Next, WriteTask, RxLoop

LEMMA DownInvInit == Init => DownInv
<1> SUFFICES ASSUME Init  PROVE DownInv
  OBVIOUS
<1>1. DownStream = <<>>
  BY DEF Init, A2N!Init, A2N!Ring!Init, DownStream, NetHand
<1>2. Range(DownStream) = {} /\ Lost = {} /\ Range(cmdChan) = {} /\ hostSent = {}
  BY <1>1 DEF Init, Range, Lost
<1>. QED  BY <1>1, <1>2 DEF DownInv, DownstreamInOrder

\* No packet of the host overtakes one of its kind, is duplicated, or is gone
\* without a full channel or ring, through the channel, the ring and both cores.
THEOREM DownstreamOrdered == Spec => []DownstreamInOrder
<1>1. DownInv => DownstreamInOrder
  BY DEF DownInv
<1>. QED  BY <1>1, DownInvInit, DownInvNext, BridgeTypeCorrect, PTL DEF Spec

-----------------------------------------------------------------------------
(* The order of the packets to the host. *)

\* What the host got from an endpoint and what the endpoint holds; what is behind
\* the packet being written.
Front(e) == hostGot[e] \o Offered(e)
After == netToHost \o (AppHand \o n2aQueue)

LEMMA UpStreamIs ==
  TypeOK =>
    /\ AppHand \o n2aQueue \in Seq(UpPackets) /\ netToHost \in Seq(UpPackets)
    /\ After \in Seq(UpPackets) /\ Back \in Seq(UpPackets)
    /\ wrPc = "write" => wrPkt \in UpPackets /\ Back = <<wrPkt>> \o After
    /\ wrPc # "write" => Back = After
    /\ \A e \in Endpoints :
         /\ hostGot[e] \in Seq(UpPackets) /\ Front(e) \in Seq(UpPackets)
         /\ inEp[e] = None => Front(e) = hostGot[e]
         /\ inEp[e] # None => inEp[e] \in UpPackets /\ Front(e) = Append(hostGot[e], inEp[e])
         /\ UpStream(e) = Front(e) \o Back
<1> SUFFICES ASSUME TypeOK
             PROVE  /\ AppHand \o n2aQueue \in Seq(UpPackets) /\ netToHost \in Seq(UpPackets)
                    /\ After \in Seq(UpPackets) /\ Back \in Seq(UpPackets)
                    /\ wrPc = "write" => wrPkt \in UpPackets /\ Back = <<wrPkt>> \o After
                    /\ wrPc # "write" => Back = After
                    /\ \A e \in Endpoints :
                         /\ hostGot[e] \in Seq(UpPackets) /\ Front(e) \in Seq(UpPackets)
                         /\ inEp[e] = None => Front(e) = hostGot[e]
                         /\ inEp[e] # None =>
                              inEp[e] \in UpPackets /\ Front(e) = Append(hostGot[e], inEp[e])
                         /\ UpStream(e) = Front(e) \o Back
  OBVIOUS
<1>1. /\ AppHand \o n2aQueue \in Seq(UpPackets) /\ netToHost \in Seq(UpPackets)
      /\ n2aQueue \in Seq(UpPackets)
      /\ n2aRx = "handle" => n2aRecv \in UpPackets
      /\ wrPc = "write" => wrPkt \in UpPackets
  BY N2AMoves DEF TypeOK
<1>2. AppHand \in Seq(UpPackets) /\ Writing \in Seq(UpPackets)
  BY <1>1 DEF AppHand, Writing
<1>3. After \in Seq(UpPackets)
  BY <1>1, Joined DEF After
<1>4. Back \in Seq(UpPackets)
  BY <1>2, <1>3, Joined DEF Back, After
<1>5. wrPc = "write" => Back = <<wrPkt>> \o After
  BY DEF Back, Writing, After
<1>6. wrPc # "write" => Back = After
  BY <1>3, ConcatEmptySeq DEF Back, Writing, After
<1>7. ASSUME NEW e \in Endpoints
      PROVE  /\ hostGot[e] \in Seq(UpPackets) /\ Front(e) \in Seq(UpPackets)
             /\ inEp[e] = None => Front(e) = hostGot[e]
             /\ inEp[e] # None => inEp[e] \in UpPackets /\ Front(e) = Append(hostGot[e], inEp[e])
             /\ UpStream(e) = Front(e) \o Back
  <2>1. hostGot[e] \in Seq(UpPackets) /\ (inEp[e] # None => inEp[e] \in UpPackets)
    BY DEF TypeOK
  <2>2. inEp[e] = None => Front(e) = hostGot[e]
    BY <2>1, ConcatEmptySeq DEF Front, Offered
  <2>3. inEp[e] # None => Front(e) = Append(hostGot[e], inEp[e])
    BY <2>1, AppendIsConcat DEF Front, Offered
  <2>4. Front(e) \in Seq(UpPackets)
    BY <2>1, <2>2, <2>3, AppendProperties
  <2>5. UpStream(e) = Front(e) \o Back
    BY DEF UpStream, Front
  <2>. QED  BY <2>1, <2>2, <2>3, <2>4, <2>5
<1>. QED  BY <1>1, <1>3, <1>4, <1>5, <1>6, <1>7

\* The same of the next state.
LEMMA UpStreamIsNext ==
  TypeOK' =>
    /\ (AppHand \o n2aQueue)' \in Seq(UpPackets) /\ netToHost' \in Seq(UpPackets)
    /\ After' \in Seq(UpPackets) /\ Back' \in Seq(UpPackets)
    /\ wrPc' = "write" => wrPkt' \in UpPackets /\ Back' = <<wrPkt'>> \o After'
    /\ wrPc' # "write" => Back' = After'
    /\ \A e \in Endpoints :
         /\ hostGot'[e] \in Seq(UpPackets) /\ Front(e)' \in Seq(UpPackets)
         /\ inEp'[e] = None => Front(e)' = hostGot'[e]
         /\ inEp'[e] # None => inEp'[e] \in UpPackets /\ Front(e)' = Append(hostGot'[e], inEp'[e])
         /\ UpStream(e)' = Front(e)' \o Back'
<1>1. (TypeOK =>
    /\ AppHand \o n2aQueue \in Seq(UpPackets) /\ netToHost \in Seq(UpPackets)
    /\ After \in Seq(UpPackets) /\ Back \in Seq(UpPackets)
    /\ wrPc = "write" => wrPkt \in UpPackets /\ Back = <<wrPkt>> \o After
    /\ wrPc # "write" => Back = After
    /\ \A e \in Endpoints :
         /\ hostGot[e] \in Seq(UpPackets) /\ Front(e) \in Seq(UpPackets)
         /\ inEp[e] = None => Front(e) = hostGot[e]
         /\ inEp[e] # None => inEp[e] \in UpPackets /\ Front(e) = Append(hostGot[e], inEp[e])
         /\ UpStream(e) = Front(e) \o Back)'
  BY UpStreamIs, PTL
<1>. QED  BY <1>1

\* Of two packets for an endpoint the one sent first comes first, and the stream
\* holds all that were sent and not lost.
UpOrder(e) ==
  {r \in UpPackets \X UpPackets : r[1][1] = e /\ r[2][1] = e => SentBefore(r[1], r[2])}

UpFine(e) ==
  /\ Chain(UpOrder(e), UpStream(e))
  /\ {p \in Range(UpStream(e)) : p[1] = e} = {p \in Range(netSent) : p[1] = e} \ Lost

LEMMA UpFineIs == TypeOK => (UpstreamInOrder <=> \A e \in Endpoints : UpFine(e))
<1> SUFFICES ASSUME TypeOK, NEW e \in Endpoints
             PROVE  LET s == UpStream(e)
                        Mine == {i \in DOMAIN s : s[i][1] = e} IN
                    /\ (\A i, j \in Mine : i < j => SentBefore(s[i], s[j]))
                         <=> Chain(UpOrder(e), s)
                    /\ {s[i] : i \in Mine} = {p \in Range(s) : p[1] = e}
  BY DEF UpstreamInOrder, UpFine
<1> DEFINE s == UpStream(e)
           Mine == {i \in DOMAIN s : s[i][1] = e}
<1>1. s \in Seq(UpPackets)
  BY UpStreamIs, ConcatProperties
<1>2. \A i \in DOMAIN s : s[i] \in UpPackets
  BY <1>1
<1> HIDE DEF s
<1>3. {s[i] : i \in Mine} = {p \in Range(s) : p[1] = e}
  BY DEF Range
<1>4. ASSUME NEW i \in DOMAIN s, NEW j \in DOMAIN s
      PROVE  <<s[i], s[j]>> \in UpOrder(e) <=>
               (i \in Mine /\ j \in Mine => SentBefore(s[i], s[j]))
  BY <1>2 DEF UpOrder
<1>5. (\A i, j \in Mine : i < j => SentBefore(s[i], s[j])) <=> Chain(UpOrder(e), s)
  BY <1>4 DEF Chain
<1>. QED  BY <1>3, <1>5 DEF s

LEMMA UpFineIsNext == TypeOK' => (UpstreamInOrder' <=> \A e \in Endpoints : UpFine(e)')
<1>1. (TypeOK => (UpstreamInOrder <=> \A e \in Endpoints : UpFine(e)))'
  BY UpFineIs, PTL
<1>. QED  BY <1>1

\* Every packet the net core sends is a new one: it answers a command once, and
\* numbers those of the controller.
UpInv ==
  /\ UpstreamInOrder
  /\ \A e \in Endpoints : inEp[e] # None => inEp[e][1] = e
  /\ \A i, j \in DOMAIN netSent : netSent[i] = netSent[j] => i = j
  /\ Lost \cap UpPackets \subseteq Range(netSent)
  /\ \A p \in Range(netSent) :
       IF IsAnswer(p) THEN \E q \in Range(netTook) : IsCmd(q) /\ q[3] = p[3]
                      ELSE p[3] <= ctrls

LEMMA SentBeforeIs ==
  ASSUME TypeOK, UpInv
  PROVE  \A p : ~SentBefore(p, p)
<1>. SUFFICES ASSUME NEW p, SentBefore(p, p)
              PROVE  FALSE
  OBVIOUS
<1>1. PICK i, j \in DOMAIN netSent : i < j /\ netSent[i] = p /\ netSent[j] = p
  BY DEF SentBefore
<1>2. i = j
  BY <1>1 DEF UpInv
<1>3. i \in Int
  BY LenProperties DEF TypeOK
<1>. QED  BY <1>1, <1>2, <1>3

LEMMA NetSentNext ==
  ASSUME TypeOK, NEW p \in UpPackets, netSent' = Append(netSent, p)
  PROVE  /\ Len(netSent) \in Nat
         /\ \A k \in 1 .. Len(netSent) : netSent'[k] = netSent[k]
         /\ netSent'[Len(netSent) + 1] = p
         /\ DOMAIN netSent = 1 .. Len(netSent) /\ DOMAIN netSent' = 1 .. Len(netSent) + 1
<1>1. netSent \in Seq(UpPackets)
  BY DEF TypeOK
<1>. QED  BY <1>1, Appended

LEMMA SentBeforeNext ==
  ASSUME TypeOK, NEW p \in UpPackets, netSent' = Append(netSent, p)
  PROVE  /\ \A a, b : SentBefore(a, b) => SentBefore(a, b)'
         /\ \A a \in Range(netSent) : SentBefore(a, p)'
         /\ Range(netSent') = Range(netSent) \cup {p}
<1>1. /\ Len(netSent) \in Nat
      /\ \A i \in 1 .. Len(netSent) : netSent'[i] = netSent[i]
      /\ netSent'[Len(netSent) + 1] = p
      /\ DOMAIN netSent = 1 .. Len(netSent) /\ DOMAIN netSent' = 1 .. Len(netSent) + 1
  BY NetSentNext
<1>2. ASSUME NEW a, NEW b, SentBefore(a, b)
      PROVE  SentBefore(a, b)'
  BY <1>1, <1>2 DEF SentBefore
<1>3. ASSUME NEW a \in Range(netSent)
      PROVE  SentBefore(a, p)'
  <2>1. PICK i \in DOMAIN netSent : netSent[i] = a
    BY DEF Range
  <2>2. /\ i \in DOMAIN netSent' /\ Len(netSent) + 1 \in DOMAIN netSent' /\ i < Len(netSent) + 1
        /\ netSent'[i] = a
    BY <1>1, <2>1
  <2>. QED  BY <1>1, <2>2 DEF SentBefore
<1>4. Range(netSent') = Range(netSent) \cup {p}
  BY RangeAppended DEF TypeOK
<1>. QED  BY <1>2, <1>3, <1>4

-----------------------------------------------------------------------------
(* What a step can do to the stream of an endpoint. *)

\* Nothing, but for packets of the other endpoint that are lost.
LEMMA UpSame ==
  ASSUME UpInv, TypeOK, NEW e \in Endpoints, UNCHANGED <<netSent, UpStream(e)>>,
         \A x \in UpPackets : x[1] = e => (x \in Lost' <=> x \in Lost)
  PROVE  UpFine(e)'
<1>1. UpFine(e)
  BY UpFineIs DEF UpInv
<1>2. Range(netSent) \subseteq UpPackets
  BY DEF TypeOK, Range
<1>3. UpOrder(e)' = UpOrder(e)
  BY DEF UpOrder, SentBefore
<1>4. {p \in Range(netSent) : p[1] = e} \ Lost' = {p \in Range(netSent) : p[1] = e} \ Lost
  BY <1>2
<1>. QED  BY <1>1, <1>3, <1>4 DEF UpFine

\* A packet leaves the stream: it belongs to the other endpoint, or is lost.
LEMMA UpLeft ==
  ASSUME UpInv, TypeOK, NEW e \in Endpoints, UNCHANGED netSent,
         NEW a \in Seq(UpPackets), NEW c \in UpPackets, NEW b \in Seq(UpPackets),
         UpStream(e) = a \o (<<c>> \o b), UpStream(e)' = a \o b,
         \A x \in UpPackets : x[1] = e => (x \in Lost' <=> x \in Lost \/ x = c)
  PROVE  UpFine(e)' /\ (c[1] = e => c \in Range(netSent))
<1> DEFINE R == UpOrder(e)
           cb == <<c>> \o b
<1>1. Chain(R, a \o cb) /\ {p \in Range(a \o cb) : p[1] = e} = {p \in Range(netSent) : p[1] = e} \ Lost
  BY UpFineIs DEF UpInv, UpFine
<1>2. Range(netSent) \subseteq UpPackets
  BY DEF TypeOK, Range
<1>3. UpOrder(e)' = R
  BY DEF UpOrder, SentBefore
<1>4. cb \in Seq(UpPackets) /\ Range(cb) = {c} \cup Range(b)
  BY OneInFront, RangeTaken
<1>5. Chain(R, cb) <=> Chain(R, b) /\ \A d \in Range(b) : <<c, d>> \in R
  BY ChainTaken
<1>6. ASSUME <<c, c>> \in R, c[1] = e
      PROVE  FALSE
  BY <1>6, SentBeforeIs DEF UpOrder
<1> HIDE DEF R, cb
<1>7. Chain(R, a \o cb) <=>
        /\ Chain(R, a) /\ Chain(R, cb)
        /\ \A x \in Range(a), d \in Range(cb) : <<x, d>> \in R
  BY <1>4, ChainJoined
<1>8. Range(a \o cb) = Range(a) \cup Range(cb) /\ Range(a \o b) = Range(a) \cup Range(b)
  BY <1>4, RangeJoined
<1>9. Chain(R, a \o b) <=>
        /\ Chain(R, a) /\ Chain(R, b)
        /\ \A x \in Range(a), d \in Range(b) : <<x, d>> \in R
  BY ChainJoined
<1>10. Chain(R, a \o b)
  BY <1>1, <1>4, <1>5, <1>7, <1>9
<1>11. c[1] = e => c \notin Range(a) /\ c \notin Range(b)
  BY <1>1, <1>4, <1>5, <1>6, <1>7
<1>12. {p \in Range(a \o b) : p[1] = e} = {p \in Range(netSent) : p[1] = e} \ Lost'
  BY <1>1, <1>2, <1>4, <1>8, <1>11
<1>13. c[1] = e => c \in Range(netSent)
  BY <1>1, <1>4, <1>8
<1>. QED  BY <1>3, <1>10, <1>12, <1>13 DEF UpFine

\* The net core sends a packet, which joins the streams or is dropped.
LEMMA UpMore ==
  ASSUME UpInv, TypeOK, TypeOK', NEW e \in Endpoints,
         NEW p \in UpPackets, p \notin Range(netSent), netSent' = Append(netSent, p),
         \/ UNCHANGED Lost /\ UpStream(e)' = Append(UpStream(e), p)
         \/ Lost' = Lost \cup {p} /\ UNCHANGED UpStream(e)
  PROVE  UpFine(e)'
<1> DEFINE R == UpOrder(e)'
           s == UpStream(e)
<1>1. /\ Chain(UpOrder(e), s)
      /\ {q \in Range(s) : q[1] = e} = {q \in Range(netSent) : q[1] = e} \ Lost
  BY UpFineIs DEF UpInv, UpFine
<1>2. s \in Seq(UpPackets)
  <2>1. s = Front(e) \o Back /\ Front(e) \in Seq(UpPackets) /\ Back \in Seq(UpPackets)
    BY UpStreamIs
  <2>. QED  BY <2>1, Joined
<1>3. Range(netSent') = Range(netSent) \cup {p} /\ p \notin Lost
  BY SentBeforeNext DEF UpInv
<1>4. UpOrder(e) \subseteq R
  BY SentBeforeNext DEF UpOrder
<1>5. Chain(R, s)
  BY <1>1, <1>4 DEF Chain
<1>6. \A d \in Range(s) : <<d, p>> \in R
  <2>1. ASSUME NEW d \in Range(s), d[1] = e
        PROVE  SentBefore(d, p)'
    BY <1>1, <2>1, SentBeforeNext
  <2>2. Range(s) \subseteq UpPackets
    BY <1>2 DEF Range
  <2>. QED  BY <2>1, <2>2 DEF UpOrder
<1> HIDE DEF R, s
<1>7. CASE UNCHANGED Lost /\ UpStream(e)' = Append(s, p)
  <2>1. Chain(R, Append(s, p))
    BY <1>2, <1>5, <1>6, ChainAppended
  <2>2. Range(Append(s, p)) = Range(s) \cup {p}
    BY <1>2, RangeAppended
  <2>3. {q \in Range(Append(s, p)) : q[1] = e} = {q \in Range(netSent') : q[1] = e} \ Lost
    BY <1>1, <1>3, <2>2
  <2>. QED  BY <1>7, <2>1, <2>3 DEF UpFine, R
<1>8. CASE Lost' = Lost \cup {p} /\ UpStream(e)' = s
  <2>1. {q \in Range(s) : q[1] = e} = {q \in Range(netSent') : q[1] = e} \ Lost'
    BY <1>1, <1>3, <1>8
  <2>. QED  BY <1>5, <1>8, <2>1 DEF UpFine, R
<1>. QED  BY <1>7, <1>8 DEF s
-----------------------------------------------------------------------------
(* The order is kept by every step. *)

\* What is left to show of a step in which the net core sends nothing.
LEMMA UpKept ==
  ASSUME TypeOK, TypeOK', UpInv, UNCHANGED <<netSent, ctrls>>,
         Range(netTook) \subseteq Range(netTook'),
         \A e \in Endpoints : UpFine(e)',
         \A e \in Endpoints : inEp'[e] # None => inEp'[e][1] = e,
         Lost' \cap UpPackets \subseteq Range(netSent)
  PROVE  UpInv'
<1>1. UpstreamInOrder'
  BY UpFineIsNext
<1>2. \A p \in Range(netSent) :
        IF IsAnswer(p) THEN \E q \in Range(netTook') : IsCmd(q) /\ q[3] = p[3]
                       ELSE p[3] <= ctrls
  BY DEF UpInv
<1>3. \A i, j \in DOMAIN netSent : netSent[i] = netSent[j] => i = j
  BY DEF UpInv
<1>. QED  BY <1>1, <1>2, <1>3 DEF UpInv, IsAnswer, IsCmd

\* The packets of the net core on their way stay where they are.
LEMMA UpUntouched ==
  ASSUME TypeOK, TypeOK', UpInv, UNCHANGED <<netSent, ctrls, Back, hostGot, inEp>>,
         Range(netTook) \subseteq Range(netTook'),
         Lost \subseteq Lost', Lost' \subseteq Lost \cup DownPackets
  PROVE  UpInv'
<1>1. \A x \in UpPackets : x \in Lost' <=> x \in Lost
  BY UpPacketIs
<1>2. ASSUME NEW e \in Endpoints
      PROVE  UpFine(e)'
  <2>1. UpStream(e)' = UpStream(e)
    BY DEF UpStream, Offered
  <2>. QED  BY <1>1, <2>1, UpSame
<1>. QED  BY <1>1, <1>2, UpKept DEF UpInv

\* The net core sends a new packet.
LEMMA UpNotified ==
  ASSUME TypeOK, TypeOK', UpInv, NEW p \in UpPackets, NotifyApp(p), p \notin Range(netSent),
         UNCHANGED <<Writing, netToHost, hostGot, inEp>>,
         Range(netTook) \subseteq Range(netTook'), ctrls <= ctrls', ctrls' \in Nat,
         IF IsAnswer(p) THEN \E q \in Range(netTook') : IsCmd(q) /\ q[3] = p[3]
                        ELSE p[3] <= ctrls'
  PROVE  UpInv'
<1> DEFINE Q == AppHand \o n2aQueue
<1>1. netSent' = Append(netSent, p)
  BY DEF NotifyApp
<1>2. \/ Q' = Append(Q, p) /\ UNCHANGED Lost
      \/ Q' = Q /\ Lost' = Lost \cup {p}
  <2>1. CASE N2A!SendPacket(p) /\ UNCHANGED lost
    BY <2>1, N2AMoves, LostIs DEF TypeOK
  <2>2. CASE N2A!DropPacket(p) /\ lost' = lost \cup {<<"n2a", p>>}
    BY <2>2, N2AMoves, LostIs DEF TypeOK
  <2>. QED  BY <2>1, <2>2 DEF NotifyApp
<1>3. /\ Q \in Seq(UpPackets) /\ netToHost \in Seq(UpPackets) /\ After \in Seq(UpPackets)
      /\ Back \in Seq(UpPackets) /\ Writing \in Seq(UpPackets)
  BY UpStreamIs DEF Writing
<1>4. Back = Writing \o (netToHost \o Q) /\ Back' = Writing \o (netToHost \o Q')
  BY DEF Back
<1> HIDE DEF Q
<1>5. ASSUME Q' = Append(Q, p)
      PROVE  Back' = Append(Back, p)
  <2> DEFINE N == netToHost \o Q
  <2>1. N \in Seq(UpPackets)
    BY <1>3, Joined
  <2>2. netToHost \o Append(Q, p) = Append(N, p)
    BY <1>3, PassedOn
  <2> HIDE DEF N
  <2>3. Writing \o Append(N, p) = Append(Writing \o N, p)
    <3>1. Writing \in Seq(UpPackets) /\ N \in Seq(UpPackets) /\ p \in UpPackets
      BY <1>3, <2>1
    <3>. QED  BY <3>1, PassedOn
  <2>. QED  BY <1>4, <1>5, <2>2, <2>3 DEF N
<1>6. ASSUME NEW e \in Endpoints
      PROVE  UpFine(e)'
  <2>1. /\ UpStream(e) = Front(e) \o Back /\ UpStream(e)' = Front(e) \o Back'
        /\ Front(e) \in Seq(UpPackets)
    BY UpStreamIs DEF UpStream, Front, Offered
  <2>2. Front(e) \o Append(Back, p) = Append(Front(e) \o Back, p)
    <3>1. Front(e) \in Seq(UpPackets) /\ Back \in Seq(UpPackets) /\ p \in UpPackets
      BY <1>3, <2>1
    <3>. QED  BY <3>1, PassedOn
  <2>3. CASE Q' = Append(Q, p) /\ UNCHANGED Lost
    <3>1. UpStream(e)' = Append(UpStream(e), p)
      BY <1>5, <2>1, <2>2, <2>3
    <3>. QED  BY <1>1, <2>3, <3>1, UpMore
  <2>4. CASE Q' = Q /\ Lost' = Lost \cup {p}
    <3>1. UpStream(e)' = UpStream(e)
      BY <1>4, <2>1, <2>4
    <3>. QED  BY <1>1, <2>4, <3>1, UpMore
  <2>. QED  BY <1>2, <2>3, <2>4
<1>7. UpstreamInOrder'
  BY <1>6, UpFineIsNext
<1>8. Range(netSent') = Range(netSent) \cup {p}
  BY <1>1, SentBeforeNext
<1>9. Lost' \cap UpPackets \subseteq Range(netSent')
  BY <1>2, <1>8 DEF UpInv
<1>10. ASSUME NEW i \in DOMAIN netSent', NEW j \in DOMAIN netSent', netSent'[i] = netSent'[j]
       PROVE  i = j
  <2>1. /\ Len(netSent) \in Nat
        /\ \A k \in 1 .. Len(netSent) : netSent'[k] = netSent[k]
        /\ netSent'[Len(netSent) + 1] = p
        /\ DOMAIN netSent = 1 .. Len(netSent) /\ DOMAIN netSent' = 1 .. Len(netSent) + 1
    BY <1>1, NetSentNext
  <2>2. \A k \in 1 .. Len(netSent) : netSent[k] # p
    BY <2>1 DEF Range
  <2>3. \A k, l \in 1 .. Len(netSent) : netSent[k] = netSent[l] => k = l
    BY <2>1 DEF UpInv
  <2>. QED  BY <1>10, <2>1, <2>2, <2>3
<1>11. ASSUME NEW q \in Range(netSent')
       PROVE  IF IsAnswer(q) THEN \E r \in Range(netTook') : IsCmd(r) /\ r[3] = q[3]
                             ELSE q[3] <= ctrls'
  <2>1. CASE q = p
    BY <2>1
  <2>2. CASE q \in Range(netSent)
    <3>1. q \in UpPackets /\ q[3] \in Nat /\ ctrls \in Nat
      <4>1. q \in UpPackets
        <5>1. netSent \in Seq(UpPackets)
          BY DEF TypeOK
        <5>. QED  BY <2>2, <5>1 DEF Range
      <4>2. ctrls \in Nat
        BY BridgeAssumption DEF TypeOK
      <4>. QED  BY <4>1, <4>2, UpPacketIs
    <3>2. IF IsAnswer(q) THEN \E r \in Range(netTook) : IsCmd(r) /\ r[3] = q[3]
                         ELSE q[3] <= ctrls
      BY <2>2 DEF UpInv
    <3>. QED  BY <3>1, <3>2
  <2>. QED  BY <1>8, <1>11, <2>1, <2>2
<1>12. \A e \in Endpoints : inEp'[e] # None => inEp'[e][1] = e
  BY DEF UpInv
<1>. QED  BY <1>7, <1>9, <1>10, <1>11, <1>12 DEF UpInv, IsAnswer, IsCmd

\* An answer is new: the commands before it in the stream have lower numbers.
LEMMA AnswerIsNew ==
  ASSUME TypeOK, DownInv, UpInv, A2N!HandlePacket, IsCmd(a2nRecv)
  PROVE  Answer(a2nRecv[3]) \in UpPackets \ Range(netSent)
<1> DEFINE P == NetHand \o a2nQueue
           PT == P'
<1>1. a2nRx = "handle" /\ a2nRecv \in DownPackets /\ P = <<a2nRecv>> \o PT
      /\ PT \in Seq(DownPackets) /\ P \in Seq(DownPackets)
  BY A2NMoves DEF TypeOK
<1>2. /\ Chain(DownOrder, (netTook \o P) \o cmdChan)
      /\ netTook \in Seq(DownPackets) /\ cmdChan \in Seq(DownPackets)
  BY DownStreamIs DEF DownInv
<1>3. Answer(a2nRecv[3]) \in UpPackets
  BY <1>1, SentOnLinks
<1> HIDE DEF PT, P
<1>4. a2nRecv \in Range(P)
  BY <1>1, RangeTaken
<1>5. \A c \in Range(netTook), d \in Range(P) : <<c, d>> \in DownOrder
  BY <1>1, <1>2, ChainOfThree
<1>6. ASSUME NEW q \in Range(netTook), IsCmd(q)
      PROVE  q[3] # a2nRecv[3]
  <2>1. <<q, a2nRecv>> \in DownOrder
    BY <1>4, <1>5
  <2>2. q[1] = a2nRecv[1]
    BY <1>6 DEF IsCmd
  <2>3. q \in DownPackets
    BY <1>2 DEF Range
  <2>4. q[3] < a2nRecv[3] /\ q[3] \in Nat /\ a2nRecv[3] \in Nat
    BY <1>1, <2>1, <2>2, <2>3, DownOrderIs, DownPacketIs
  <2>. QED  BY <2>4
<1>7. /\ IsAnswer(Answer(a2nRecv[3])) /\ Answer(a2nRecv[3])[3] = a2nRecv[3]
  BY DEF Answer, IsAnswer
<1>. QED  BY <1>3, <1>6, <1>7 DEF UpInv
\* Where the steps leave the packets on their way to the host.
LEMMA UpInvNext == TypeOK /\ TypeOK' /\ DownInv /\ UpInv /\ [Next]_vars => UpInv'
<1> SUFFICES ASSUME TypeOK, TypeOK', DownInv, UpInv, [Next]_vars
             PROVE  UpInv'
  OBVIOUS
<1>a. /\ netToHost \in Seq(UpPackets) /\ netToHost' \in Seq(UpPackets)
      /\ AppHand \o n2aQueue \in Seq(UpPackets) /\ (AppHand \o n2aQueue)' \in Seq(UpPackets)
      /\ After \in Seq(UpPackets) /\ After' \in Seq(UpPackets)
      /\ Back \in Seq(UpPackets) /\ Back' \in Seq(UpPackets)
  BY UpStreamIs, UpStreamIsNext
<1>b. /\ UNCHANGED n2aVars => UNCHANGED (AppHand \o n2aQueue)
      /\ UNCHANGED writeVars => UNCHANGED <<Writing, inEp>>
  BY DEF n2aVars, AppHand, writeVars, Writing
<1>c. /\ N2A!TriggerEvent => UNCHANGED (AppHand \o n2aQueue)
      /\ N2A!WaitEvent \/ N2A!ReadPacket \/ N2A!ReadEmpty \/ N2A!ReturnToWait =>
           UNCHANGED (AppHand \o n2aQueue)
  BY N2AMoves DEF TypeOK
<1>d. UNCHANGED lost => Lost \subseteq Lost' /\ Lost' \subseteq Lost \cup DownPackets
  BY LostIs
<1>e. \A p \in DownPackets : SendToNet(p) => Lost \subseteq Lost' /\ Lost' \subseteq Lost \cup DownPackets
  <2>1. ASSUME NEW p \in DownPackets, SendToNet(p)
        PROVE  Lost' = Lost \/ Lost' = Lost \cup {p}
    BY <2>1, LostIs DEF SendToNet
  <2>. QED  BY <2>1
<1>f. ASSUME NEW p, netTook' = Append(netTook, p), p \in DownPackets
      PROVE  Range(netTook') = Range(netTook) \cup {p}
  <2>1. netTook \in Seq(DownPackets)
    BY DEF TypeOK
  <2>. QED  BY <1>f, <2>1, RangeAppended
<1>1. ASSUME UNCHANGED <<netSent, ctrls, netTook, Writing, netToHost, AppHand \o n2aQueue, hostGot, inEp>>,
             Lost \subseteq Lost', Lost' \subseteq Lost \cup DownPackets
      PROVE  UpInv'
  <2>1. Back' = Back
    BY <1>1 DEF Back
  <2>. QED  BY <1>1, <2>1, UpUntouched
<1>2. CASE UNCHANGED vars
  BY <1>1, <1>b, <1>d, <1>2 DEF vars, histVars, netHist, hostHist
<1>3. CASE Connect \/ ReadTask \/ TriggerNet \/ NetBoot \/ RxLoopWait
  BY <1>1, <1>b, <1>d, <1>3 DEF Connect, ReadTask, ReadEnabled, ReadDisabled, TriggerNet, NetBoot,
     RxLoopWait, histVars, netHist, hostHist
<1>4. CASE TriggerApp \/ RecvTaskWait
  BY <1>1, <1>b, <1>c, <1>d, <1>4 DEF TriggerApp, RecvTaskWait, histVars, netHist, hostHist
<1>5. ASSUME NEW k \in Kinds, ControlOut(k)
      PROVE  UpInv'
  <2> DEFINE p == Cmd(k, hostCmds + 1)
  <2>1. p \in DownPackets
    BY <1>5, SentOnLinks DEF ControlOut, HostCommands
  <2>2. lost' = lost \/ lost' = lost \cup {<<"channel", p>>}
    BY <1>5 DEF ControlOut
  <2> HIDE DEF p
  <2>3. Lost' = Lost \/ Lost' = Lost \cup {p}
    BY <2>2, LostIs
  <2>4. Lost \subseteq Lost' /\ Lost' \subseteq Lost \cup DownPackets
    BY <2>1, <2>3
  <2>. QED  BY <1>1, <1>b, <1>5, <2>4 DEF ControlOut, HostCommands, netHist
<1>6. CASE CmdTask \/ ReadAcl
  <2>1. Lost \subseteq Lost' /\ Lost' \subseteq Lost \cup DownPackets
    BY <1>e, <1>6, SentOnLinks DEF CmdTask, ReadAcl
  <2>. QED  BY <1>1, <1>b, <1>6, <2>1 DEF CmdTask, ReadAcl, hostHist, netHist
<1>7. CASE DispatchSilent
  <2>1. a2nRecv \in DownPackets
    BY <1>7, A2NMoves DEF DispatchSilent, TypeOK
  <2>2. Range(netTook) \subseteq Range(netTook')
    BY <1>f, <1>7, <2>1 DEF DispatchSilent
  <2>3. UNCHANGED Back
    BY <1>b, <1>7 DEF DispatchSilent, Back
  <2>. QED  BY <1>b, <1>d, <1>7, <2>2, <2>3, UpUntouched DEF DispatchSilent, hostHist
<1>8. CASE WriteEnabled
  <2>1. UNCHANGED Writing
    BY <1>8 DEF WriteEnabled, Writing
  <2>. QED  BY <1>1, <1>b, <1>d, <1>8, <2>1 DEF WriteEnabled, histVars, netHist, hostHist
<1>9. CASE RecvTaskForward
  <2> DEFINE Q == AppHand \o n2aQueue
  <2>1. n2aRecv \in UpPackets /\ Q = <<n2aRecv>> \o Q' /\ Q' \in Seq(UpPackets)
    BY <1>9, N2AMoves DEF RecvTaskForward, TypeOK
  <2>2. After = netToHost \o Q /\ After' = netToHost' \o Q'
    BY DEF After
  <2> HIDE DEF Q
  <2>3. Append(netToHost, n2aRecv) \o Q' = netToHost \o (<<n2aRecv>> \o Q')
    <3>1. netToHost \in Seq(UpPackets)
      BY <1>a
    <3>. QED  BY <2>1, <3>1, PassedOn
  <2>4. After' = After
    BY <1>9, <2>1, <2>2, <2>3 DEF RecvTaskForward
  <2>5. Back' = Back
    BY <1>b, <1>9, <2>4 DEF RecvTaskForward, Back, After
  <2>. QED  BY <1>b, <1>d, <1>9, <2>5, UpUntouched DEF RecvTaskForward, histVars, netHist, hostHist
<1>10. CASE WriteReceive
  <2> DEFINE Q == AppHand \o n2aQueue
             c == Head(netToHost)
             X == Tail(netToHost)
             one == <<c>>
  <2>1. c \in UpPackets /\ X \in Seq(UpPackets) /\ netToHost = one \o X /\ one \in Seq(UpPackets)
    BY <1>a, <1>10, Taken, HeadAndTail DEF WriteReceive
  <2>2. Back = After /\ Back' = one \o After' /\ After = netToHost \o Q /\ After' = X \o Q
    BY <1>b, <1>10, UpStreamIs, UpStreamIsNext DEF WriteReceive, After
  <2>3. Q \in Seq(UpPackets)
    BY <1>a
  <2> HIDE DEF Q, c, X, one
  <2>4. (one \o X) \o Q = one \o (X \o Q)
    BY <2>1, <2>3, ConcatAssociative
  <2>5. Back' = Back
    BY <2>1, <2>2, <2>4
  <2>. QED  BY <1>d, <1>10, <2>5, UpUntouched DEF WriteReceive, histVars, netHist, hostHist
<1>11. CASE WriteDone
  <2>1. /\ wrPkt \in UpPackets /\ wrPkt[1] \in Endpoints /\ Back = <<wrPkt>> \o After
        /\ Back' = After' /\ After' = After
        /\ inEp[wrPkt[1]] = None /\ inEp' = [inEp EXCEPT ![wrPkt[1]] = wrPkt]
        /\ UNCHANGED <<netSent, ctrls, netTook, hostGot, Lost>>
    BY <1>b, <1>11, UpStreamIs, UpStreamIsNext, UpPacketIs, LostIs
       DEF WriteDone, After, histVars, netHist, hostHist
  <2>2. ASSUME NEW e \in Endpoints, e = wrPkt[1]
        PROVE  UpFine(e)'
    <3> DEFINE f == Front(e)
    <3>1. inEp[e] = None /\ inEp'[e] = wrPkt /\ wrPkt # None
      BY <2>1, <2>2, UpPacketIs DEF TypeOK
    <3>2. /\ Front(e)' = Append(f, wrPkt) /\ f \in Seq(UpPackets)
          /\ UpStream(e) = f \o Back /\ UpStream(e)' = Front(e)' \o After
      BY <2>1, <3>1, UpStreamIs, UpStreamIsNext
    <3>3. f \in Seq(UpPackets) /\ wrPkt \in UpPackets /\ After \in Seq(UpPackets)
      BY <1>a, <2>1, <3>2
    <3> HIDE DEF f
    <3>4. Append(f, wrPkt) \o After = f \o (<<wrPkt>> \o After)
      BY <3>3, PassedOn
    <3>5. UpStream(e)' = UpStream(e)
      BY <2>1, <3>2, <3>4
    <3>. QED  BY <2>1, <3>5, UpSame
  <2>3. ASSUME NEW e \in Endpoints, e # wrPkt[1]
        PROVE  UpFine(e)'
    <3>1. inEp'[e] = inEp[e]
      BY <2>1, <2>3 DEF TypeOK
    <3>2. /\ Front(e) \in Seq(UpPackets) /\ UpStream(e) = Front(e) \o (<<wrPkt>> \o After)
          /\ UpStream(e)' = Front(e) \o After
      BY <2>1, <3>1, UpStreamIs DEF UpStream, Front, Offered
    <3>3. \A x \in UpPackets : x[1] = e => (x \in Lost' <=> x \in Lost \/ x = wrPkt)
      BY <2>1, <2>3
    <3>. QED  BY <1>a, <2>1, <3>2, <3>3, UpLeft
  <2>4. \A e \in Endpoints : inEp'[e] # None => inEp'[e][1] = e
    BY <2>1 DEF UpInv, TypeOK
  <2>5. \A e \in Endpoints : UpFine(e)'
    BY <2>2, <2>3
  <2>. QED  BY <2>1, <2>4, <2>5, UpKept DEF UpInv
<1>12. CASE WriteFailed
  <2>1. /\ wrPkt \in UpPackets /\ wrPkt[1] \in Endpoints /\ Back = <<wrPkt>> \o After
        /\ Back' = After' /\ After' = After
        /\ UNCHANGED <<netSent, ctrls, netTook, hostGot, inEp>>
        /\ Lost' = Lost \cup {wrPkt}
    BY <1>b, <1>12, UpStreamIs, UpStreamIsNext, UpPacketIs, LostIs
       DEF WriteFailed, After, netHist, hostHist
  <2>2. ASSUME NEW e \in Endpoints
        PROVE  UpFine(e)' /\ (wrPkt[1] = e => wrPkt \in Range(netSent))
    <3>1. /\ Front(e) \in Seq(UpPackets) /\ UpStream(e) = Front(e) \o (<<wrPkt>> \o After)
          /\ UpStream(e)' = Front(e) \o After
      BY <2>1, UpStreamIs DEF UpStream, Front, Offered
    <3>2. \A x \in UpPackets : x[1] = e => (x \in Lost' <=> x \in Lost \/ x = wrPkt)
      BY <2>1
    <3>. QED  BY <1>a, <2>1, <3>1, <3>2, UpLeft
  <2>3. Lost' \cap UpPackets \subseteq Range(netSent)
    BY <2>1, <2>2 DEF UpInv
  <2>. QED  BY <2>1, <2>2, <2>3, UpKept DEF UpInv
<1>13. CASE Disconnect
  <2> DEFINE L == {inEp[e] : e \in Endpoints} \ {None}
  <2>1. Lost' = Lost \cup L
    BY <1>13, LostAtDisconnect
  <2>2. /\ \A x \in L : x \in UpPackets /\ x[1] \in Endpoints /\ x = inEp[x[1]]
        /\ \A e \in Endpoints : inEp[e] # None => inEp[e] \in L /\ inEp[e][1] = e
        /\ None \notin L
    <3>1. ASSUME NEW e \in Endpoints, inEp[e] # None
          PROVE  inEp[e] \in UpPackets /\ inEp[e][1] = e
      BY <3>1 DEF TypeOK, UpInv
    <3>. QED  BY <3>1
  <2> HIDE DEF L
  <2>3. /\ \A e \in Endpoints : inEp'[e] = None
        /\ UNCHANGED <<netSent, ctrls, netTook, hostGot, Back>>
    BY <1>b, <1>13 DEF Disconnect, netHist, hostHist, Back, Writing
  <2>4. ASSUME NEW e \in Endpoints
        PROVE  UpFine(e)' /\ (inEp[e] # None => inEp[e] \in Range(netSent))
    <3>1. /\ hostGot[e] \in Seq(UpPackets)
          /\ UpStream(e) = Front(e) \o Back /\ UpStream(e)' = hostGot[e] \o Back
      BY <2>3, UpStreamIs, UpStreamIsNext
    <3>2. CASE inEp[e] = None
      <4>1. UpStream(e)' = UpStream(e)
        BY <3>1, <3>2, UpStreamIs
      <4>2. \A x \in UpPackets : x[1] = e => (x \in Lost' <=> x \in Lost)
        BY <2>1, <2>2, <3>2, UpPacketIs
      <4>. QED  BY <2>3, <3>2, <4>1, <4>2, UpSame
    <3>3. CASE inEp[e] # None
      <4> DEFINE c == inEp[e]
      <4>1. c \in UpPackets /\ c[1] = e /\ Front(e) = Append(hostGot[e], c)
        BY <2>2, <3>3, UpStreamIs
      <4>2. \A x \in UpPackets : x[1] = e => (x \in Lost' <=> x \in Lost \/ x = c)
        BY <2>1, <2>2, <3>3
      <4> DEFINE g == hostGot[e]
      <4>3. Append(g, c) \o Back = g \o (<<c>> \o Back)
        <5>1. g \in Seq(UpPackets) /\ c \in UpPackets /\ Back \in Seq(UpPackets)
          BY <1>a, <3>1, <4>1
        <5> HIDE DEF c, g
        <5>. QED  BY <5>1, PassedOn
      <4> HIDE DEF c
      <4>4. UpStream(e) = hostGot[e] \o (<<c>> \o Back)
        BY <3>1, <4>1, <4>3
      <4>5. UpFine(e)' /\ (c[1] = e => c \in Range(netSent))
        BY <1>a, <2>3, <3>1, <4>1, <4>2, <4>4, UpLeft
      <4>. QED  BY <4>1, <4>5 DEF c
    <3>. QED  BY <3>2, <3>3
  <2>5. Lost' \cap UpPackets \subseteq Range(netSent)
    BY <2>1, <2>2, <2>4 DEF UpInv
  <2>. QED  BY <2>3, <2>4, <2>5, UpKept
<1>14. ASSUME NEW d \in Endpoints, HostTakes(d)
       PROVE  UpInv'
  <2>1. /\ inEp[d] # None /\ inEp' = [inEp EXCEPT ![d] = None]
        /\ hostGot' = [hostGot EXCEPT ![d] = Append(@, inEp[d])]
        /\ UNCHANGED <<netSent, ctrls, netTook, Back, Lost>>
    BY <1>b, <1>14, LostIs DEF HostTakes, netHist, Back, Writing
  <2>2. ASSUME NEW e \in Endpoints
        PROVE  UpFine(e)'
    <3>1. UpStream(e) = Front(e) \o Back /\ UpStream(e)' = Front(e)' \o Back
      BY <2>1, UpStreamIs, UpStreamIsNext
    <3>2. Front(e)' = Front(e)
      <4>1. CASE e = d
        <5>1. Front(e) = Append(hostGot[e], inEp[e])
          BY <2>1, <4>1, UpStreamIs
        <5>2. inEp'[e] = None /\ hostGot'[e] = Append(hostGot[e], inEp[e])
          BY <2>1, <4>1 DEF TypeOK
        <5>3. Front(e)' = hostGot'[e]
          BY <5>2, UpStreamIsNext
        <5>. QED  BY <5>1, <5>2, <5>3
      <4>2. CASE e # d
        <5>1. inEp'[e] = inEp[e] /\ hostGot'[e] = hostGot[e]
          BY <2>1, <4>2 DEF TypeOK
        <5>. QED  BY <5>1 DEF Front, Offered
      <4>. QED  BY <4>1, <4>2
    <3>3. UpStream(e)' = UpStream(e)
      BY <3>1, <3>2
    <3>. QED  BY <2>1, <3>3, UpSame
  <2>3. \A e \in Endpoints : inEp'[e] # None => inEp'[e][1] = e
    BY <2>1 DEF UpInv, TypeOK
  <2>. QED  BY <2>1, <2>2, <2>3, UpKept DEF UpInv
<1>15. CASE DispatchKnown
  <2> DEFINE p == Answer(a2nRecv[3])
  <2>1. /\ a2nRecv \in DownPackets /\ IsCmd(a2nRecv) /\ A2N!HandlePacket /\ NotifyApp(p)
        /\ netTook' = Append(netTook, a2nRecv)
        /\ UNCHANGED <<Writing, netToHost, hostGot, inEp, ctrls>>
    BY <1>b, <1>15, A2NMoves DEF DispatchKnown, hostHist, TypeOK
  <2>2. p \in UpPackets /\ p \notin Range(netSent)
    BY <2>1, AnswerIsNew
  <2>3. Range(netTook') = Range(netTook) \cup {a2nRecv}
    BY <1>f, <2>1
  <2>4. IsAnswer(p) /\ p[3] = a2nRecv[3]
    BY DEF Answer, IsAnswer
  <2>5. ctrls \in Nat /\ ctrls <= ctrls
    BY BridgeAssumption DEF TypeOK
  <2> HIDE DEF p
  <2>. QED  BY <2>1, <2>2, <2>3, <2>4, <2>5, UpNotified
<1>16. ASSUME NEW i \in Indicators, SdcEvent(i)
       PROVE  UpInv'
  <2> DEFINE p == CtrlPacket(i, ctrls + 1)
  <2>1. /\ p \in UpPackets /\ NotifyApp(p) /\ ctrls' = ctrls + 1
        /\ UNCHANGED <<Writing, netToHost, hostGot, inEp, netTook>>
    BY <1>b, <1>16, SentOnLinks DEF SdcEvent, hostHist
  <2>2. ~IsAnswer(p) /\ p[3] = ctrls + 1
    BY DEF CtrlPacket, IsAnswer
  <2>3. ctrls \in Nat
    BY BridgeAssumption DEF TypeOK
  <2> HIDE DEF p
  <2>4. p \notin Range(netSent)
    BY <2>2, <2>3 DEF UpInv
  <2>5. ctrls <= ctrls' /\ ctrls' \in Nat /\ p[3] <= ctrls'
    BY <2>1, <2>2, <2>3
  <2>. QED  BY <2>1, <2>2, <2>4, <2>5, UpNotified
<1>. QED
  BY <1>2, <1>3, <1>4, <1>5, <1>6, <1>7, <1>8, <1>9, <1>10, <1>11, <1>12, <1>13, <1>14,
     <1>15, <1>16 DEF Next, RecvTask, WriteTask, RxLoop

LEMMA UpInvInit == Init => UpInv
<1> SUFFICES ASSUME Init  PROVE UpInv
  OBVIOUS
<1>1. TypeOK
  BY BridgeTypeInit
<1>2. netSent = <<>> /\ lost = {} /\ \A e \in Endpoints : inEp[e] = None
  BY DEF Init
<1>3. Range(netSent) = {} /\ DOMAIN netSent = {} /\ Lost = {}
  BY <1>2 DEF Range, Lost
<1>4. ASSUME NEW e \in Endpoints
      PROVE  UpStream(e) = <<>>
  BY DEF Init, N2A!Init, N2A!Ring!Init, UpStream, Offered, Back, Writing, AppHand
<1>5. ASSUME NEW e \in Endpoints
      PROVE  UpFine(e)
  <2>1. DOMAIN UpStream(e) = {} /\ Range(UpStream(e)) = {}
    BY <1>4 DEF Range
  <2>. QED  BY <1>3, <2>1 DEF UpFine, Chain
<1>6. UpstreamInOrder
  BY <1>1, <1>5, UpFineIs
<1>. QED  BY <1>2, <1>3, <1>6 DEF UpInv

\* Events reach the host in the order in which the net core sent them, and so does
\* ACL data, each once, and none is gone without a full ring or a disconnect.
THEOREM UpstreamOrdered == Spec => []UpstreamInOrder
<1>1. UpInv => UpstreamInOrder
  BY DEF UpInv
<1>. QED
  BY <1>1, UpInvInit, UpInvNext, DownInvInit, DownInvNext, BridgeTypeCorrect, PTL DEF Spec
-----------------------------------------------------------------------------
(* From a command to its answer at the host. *)

\* The net core has answered only known commands it took, in their order.
AnswerInv ==
  /\ \A p \in Range(netSent) : IsAnswer(p) => Cmd("known", p[3]) \in Range(netTook)
  /\ \A i, j \in DOMAIN netSent :
       i < j /\ IsAnswer(netSent[i]) /\ IsAnswer(netSent[j]) => netSent[i][3] < netSent[j][3]

\* The command in the hand of ipc_rx_loop has a higher number than all it took.
LEMMA CommandIsLast ==
  ASSUME TypeOK, DownInv, A2N!HandlePacket, IsCmd(a2nRecv)
  PROVE  /\ a2nRecv \in DownPackets /\ a2nRecv[3] \in Nat
         /\ \A q \in Range(netTook) : IsCmd(q) => q[3] < a2nRecv[3]
<1> DEFINE P == NetHand \o a2nQueue
           PT == P'
<1>1. a2nRecv \in DownPackets /\ P = <<a2nRecv>> \o PT
      /\ PT \in Seq(DownPackets) /\ P \in Seq(DownPackets)
  BY A2NMoves DEF TypeOK
<1>2. /\ Chain(DownOrder, (netTook \o P) \o cmdChan)
      /\ netTook \in Seq(DownPackets) /\ cmdChan \in Seq(DownPackets)
  BY DownStreamIs DEF DownInv
<1> HIDE DEF PT, P
<1>3. a2nRecv \in Range(P)
  BY <1>1, RangeTaken
<1>4. \A c \in Range(netTook), d \in Range(P) : <<c, d>> \in DownOrder
  BY <1>1, <1>2, ChainOfThree
<1>5. ASSUME NEW q \in Range(netTook), IsCmd(q)
      PROVE  q[3] < a2nRecv[3]
  <2>1. <<q, a2nRecv>> \in DownOrder
    BY <1>3, <1>4
  <2>2. q[1] = a2nRecv[1]
    BY <1>5 DEF IsCmd
  <2>3. q \in DownPackets
    BY <1>2 DEF Range
  <2>. QED  BY <1>1, <2>1, <2>2, <2>3, DownOrderIs
<1>6. a2nRecv[3] \in Nat
  BY <1>1, DownPacketIs
<1>. QED  BY <1>1, <1>5, <1>6

\* A packet the net core passes on keeps the answers as they should be, unless it is
\* an answer out of turn.
LEMMA AnswerKept ==
  ASSUME TypeOK, AnswerInv, NEW p \in UpPackets, netSent' = Append(netSent, p),
         Range(netTook) \subseteq Range(netTook'),
         IsAnswer(p) => /\ Cmd("known", p[3]) \in Range(netTook')
                        /\ \A q \in Range(netSent) : IsAnswer(q) => q[3] < p[3]
  PROVE  AnswerInv'
<1> DEFINE n == Len(netSent)
<1>1. /\ n \in Nat /\ netSent'[n + 1] = p
      /\ \A k \in 1 .. n : netSent'[k] = netSent[k]
      /\ DOMAIN netSent = 1 .. n /\ DOMAIN netSent' = 1 .. n + 1
  BY NetSentNext
<1>2. Range(netSent') = Range(netSent) \cup {p}
  BY RangeAppended DEF TypeOK
<1>3. \A k \in 1 .. n : netSent[k] \in Range(netSent)
  BY <1>1 DEF Range
<1> HIDE DEF n
<1>4. \A q \in Range(netSent') : IsAnswer(q) => Cmd("known", q[3]) \in Range(netTook')
  BY <1>2 DEF AnswerInv
<1>5. ASSUME NEW i \in DOMAIN netSent', NEW j \in DOMAIN netSent', i < j,
             IsAnswer(netSent'[i]), IsAnswer(netSent'[j])
      PROVE  netSent'[i][3] < netSent'[j][3]
  <2>1. i \in 1 .. n
    BY <1>1, <1>5
  <2>2. CASE j = n + 1
    BY <1>1, <1>3, <1>5, <2>1, <2>2
  <2>3. CASE j \in 1 .. n
    BY <1>1, <1>5, <2>1, <2>3 DEF AnswerInv
  <2>. QED  BY <1>1, <2>2, <2>3
<1>. QED  BY <1>4, <1>5 DEF AnswerInv

LEMMA AnswerInvNext ==
  TypeOK /\ TypeOK' /\ DownInv /\ AnswerInv /\ [Next]_vars => AnswerInv'
<1> SUFFICES ASSUME TypeOK, TypeOK', DownInv, AnswerInv, [Next]_vars
             PROVE  AnswerInv'
  OBVIOUS
<1>a. ASSUME UNCHANGED <<netTook, netSent>>
      PROVE  AnswerInv'
  BY <1>a DEF AnswerInv
<1>b. ASSUME A2N!HandlePacket, netTook' = Append(netTook, a2nRecv)
      PROVE  Range(netTook') = Range(netTook) \cup {a2nRecv}
  <2>1. a2nRecv \in DownPackets
    BY <1>b, A2NMoves DEF TypeOK
  <2>2. netTook \in Seq(DownPackets)
    BY DEF TypeOK
  <2>. QED  BY <1>b, <2>1, <2>2, RangeAppended
<1>1. CASE UNCHANGED vars
  BY <1>1, <1>a DEF vars, histVars, netHist
<1>2. CASE Connect \/ Disconnect \/ ReadTask \/ RecvTask \/ WriteTask \/ TriggerApp
            \/ TriggerNet \/ NetBoot \/ RxLoopWait \/ CmdTask \/ ReadAcl
  BY <1>2, <1>a DEF Connect, Disconnect, ReadTask, ReadEnabled, ReadDisabled, RecvTask,
     RecvTaskWait, RecvTaskForward, WriteTask, WriteEnabled, WriteReceive, WriteDone, WriteFailed,
     TriggerApp, TriggerNet, NetBoot, RxLoopWait, CmdTask, ReadAcl, histVars, netHist
<1>3. ASSUME NEW k \in Kinds, ControlOut(k)
      PROVE  AnswerInv'
  BY <1>3, <1>a DEF ControlOut, HostCommands, netHist
<1>4. ASSUME NEW e \in Endpoints, HostTakes(e)
      PROVE  AnswerInv'
  BY <1>4, <1>a DEF HostTakes, netHist
<1>5. CASE DispatchKnown
  <2> DEFINE n == a2nRecv[3]
             p == Answer(n)
  <2>1. /\ A2N!HandlePacket /\ IsCmd(a2nRecv) /\ a2nRecv[2] = "known"
        /\ netTook' = Append(netTook, a2nRecv) /\ netSent' = Append(netSent, p)
    BY <1>5 DEF DispatchKnown, NotifyApp
  <2>2. a2nRecv = Cmd("known", n)
    <3>1. PICK k \in CommandKinds, m \in 1 .. MaxCmds : a2nRecv = Cmd(k, m)
      BY <2>1, CommandIsLast, DownPacketIs
    <3>2. k = "known"
      BY <2>1, <3>1 DEF Cmd
    <3>. QED  BY <3>1, <3>2 DEF Cmd
  <2>3. p \in UpPackets /\ IsAnswer(p) /\ p[3] = n
    <3>1. a2nRx = "handle"
      BY <2>1 DEF A2N!HandlePacket
    <3>2. p \in UpPackets
      BY <2>1, <3>1, SentOnLinks
    <3>3. p[2] = "answer" /\ p[3] = n
      BY DEF Answer
    <3>. QED  BY <3>2, <3>3 DEF IsAnswer
  <2>4. Range(netTook') = Range(netTook) \cup {a2nRecv}
    BY <1>b, <2>1
  <2>5. ASSUME NEW q \in Range(netSent), IsAnswer(q)
        PROVE  q[3] < n
    <3>1. Cmd("known", q[3]) \in Range(netTook)
      BY <2>5 DEF AnswerInv
    <3>2. IsCmd(Cmd("known", q[3])) /\ Cmd("known", q[3])[3] = q[3]
      BY DEF Cmd, IsCmd
    <3>. QED  BY <2>1, <3>1, <3>2, CommandIsLast
  <2> HIDE DEF p, n
  <2>. QED  BY <2>1, <2>2, <2>3, <2>4, <2>5, AnswerKept
<1>6. CASE DispatchSilent
  <2>1. Range(netTook) \subseteq Range(netTook') /\ UNCHANGED netSent
    BY <1>6, <1>b DEF DispatchSilent
  <2>. QED  BY <2>1 DEF AnswerInv
<1>7. ASSUME NEW i \in Indicators, SdcEvent(i)
      PROVE  AnswerInv'
  <2> DEFINE p == CtrlPacket(i, ctrls + 1)
  <2>1. netSent' = Append(netSent, p) /\ UNCHANGED netTook
    BY <1>7 DEF SdcEvent, NotifyApp
  <2>2. p \in UpPackets /\ ~IsAnswer(p)
    <3>1. ctrls < MaxCtrls
      BY <1>7 DEF SdcEvent
    <3>2. p \in UpPackets
      BY <3>1, SentOnLinks
    <3>3. p[2] = "ctrl"
      BY DEF CtrlPacket
    <3>. QED  BY <3>2, <3>3 DEF IsAnswer
  <2> HIDE DEF p
  <2>. QED  BY <2>1, <2>2, AnswerKept
<1>. QED
  BY <1>1, <1>2, <1>3, <1>4, <1>5, <1>6, <1>7 DEF Next, RxLoop

\* What the host got from the event endpoint was sent by the net core, in order.
LEMMA GotInOrder ==
  ASSUME TypeOK, UpInv
  PROVE  /\ hostGot[4] \in Seq(UpPackets)
         /\ \A p \in Range(hostGot[4]) : p[1] = 4 => p \in Range(netSent)
         /\ \A i, j \in DOMAIN hostGot[4] :
              i < j /\ hostGot[4][i][1] = 4 /\ hostGot[4][j][1] = 4 =>
                SentBefore(hostGot[4][i], hostGot[4][j])
<1> DEFINE Got == hostGot[4]
           F == Front(4)
           B == Back
           R == UpOrder(4)
           Stream == UpStream(4)
<1>1. 4 \in Endpoints
  BY DEF Endpoints
<1>2. /\ Got \in Seq(UpPackets) /\ F \in Seq(UpPackets) /\ B \in Seq(UpPackets)
      /\ Stream = F \o B
      /\ inEp[4] = None => F = Got
      /\ inEp[4] # None => inEp[4] \in UpPackets /\ F = Append(Got, inEp[4])
  BY <1>1, UpStreamIs
<1>3. /\ Chain(R, Stream)
      /\ {p \in Range(Stream) : p[1] = 4} = {p \in Range(netSent) : p[1] = 4} \ Lost
  BY <1>1, UpFineIs DEF UpInv, UpFine
<1>4. \A i, j : <<i, j>> \in R => (i[1] = 4 /\ j[1] = 4 => SentBefore(i, j))
  BY DEF UpOrder
<1> HIDE DEF Got, F, B, R, Stream
<1>5. Chain(R, F)
  <2>1. F \in Seq(UpPackets) /\ B \in Seq(UpPackets) /\ Chain(R, F \o B)
    BY <1>2, <1>3
  <2>. QED  BY <2>1, ChainJoined
<1>6. Range(F) \subseteq Range(Stream)
  <2>1. F \in Seq(UpPackets) /\ B \in Seq(UpPackets)
    BY <1>2
  <2>2. Range(F \o B) = Range(F) \cup Range(B)
    BY <2>1, RangeJoined
  <2>. QED  BY <1>2, <2>2
<1>7. Chain(R, Got) /\ Range(Got) \subseteq Range(F)
  <2>1. CASE inEp[4] = None
    BY <1>2, <1>5, <2>1
  <2>2. CASE inEp[4] # None
    <3> DEFINE c == inEp[4]
    <3>1. Got \in Seq(UpPackets) /\ c \in UpPackets /\ F = Append(Got, c)
      BY <1>2, <2>2
    <3> HIDE DEF c
    <3>2. Range(F) = Range(Got) \cup {c}
      BY <3>1, RangeAppended
    <3>3. Chain(R, Append(Got, c))
      BY <1>5, <3>1
    <3>4. Chain(R, Got)
      BY <3>1, <3>3, ChainAppended
    <3>. QED  BY <3>2, <3>4
  <2>. QED  BY <2>1, <2>2
<1>8. \A p \in Range(Got) : p[1] = 4 => p \in Range(netSent)
  BY <1>3, <1>6, <1>7
<1>9. \A i, j \in DOMAIN Got :
        i < j /\ Got[i][1] = 4 /\ Got[j][1] = 4 => SentBefore(Got[i], Got[j])
  BY <1>4, <1>7 DEF Chain
<1>. QED  BY <1>2, <1>8, <1>9 DEF Got

LEMMA AnswersAtHost ==
  ASSUME TypeOK, DownInv, UpInv, AnswerInv
  PROVE  AnswersMatchCommands
<1> DEFINE Got == hostGot[4]
<1>1. /\ Got \in Seq(UpPackets)
      /\ \A p \in Range(Got) : p[1] = 4 => p \in Range(netSent)
      /\ \A i, j \in DOMAIN Got :
           i < j /\ Got[i][1] = 4 /\ Got[j][1] = 4 => SentBefore(Got[i], Got[j])
  BY GotInOrder
<1>2. \A p \in UpPackets : IsAnswer(p) => p[1] = 4
  BY UpPacketIs
<1> HIDE DEF Got
<1>3. \A i \in DOMAIN Got : Got[i] \in UpPackets /\ Got[i] \in Range(Got)
  BY <1>1 DEF Range
<1>4. Range(netTook) \subseteq hostSent \ Lost
  <2> DEFINE P == NetHand \o a2nQueue
  <2>1. /\ netTook \in Seq(DownPackets) /\ P \in Seq(DownPackets) /\ cmdChan \in Seq(DownPackets)
        /\ DownStream = (netTook \o P) \o cmdChan
        /\ Range(DownStream) = hostSent \ Lost
    BY DownStreamIs DEF DownInv
  <2> HIDE DEF P
  <2>2. netTook \in Seq(DownPackets) /\ P \in Seq(DownPackets) /\ cmdChan \in Seq(DownPackets)
    BY <2>1
  <2>3. Range((netTook \o P) \o cmdChan) = Range(netTook) \cup Range(P) \cup Range(cmdChan)
    BY <2>2, RangeOfThree
  <2>. QED  BY <2>1, <2>3
<1>5. ASSUME NEW i \in DOMAIN Got, IsAnswer(Got[i])
      PROVE  Cmd("known", Got[i][3]) \in Range(netTook) \cap (hostSent \ Lost)
  <2>1. Got[i] \in Range(netSent)
    BY <1>1, <1>2, <1>3, <1>5
  <2>. QED  BY <1>4, <1>5, <2>1 DEF AnswerInv
<1>6. ASSUME NEW i \in DOMAIN Got, NEW j \in DOMAIN Got, i < j,
             IsAnswer(Got[i]), IsAnswer(Got[j])
      PROVE  Got[i][3] < Got[j][3]
  <2>1. SentBefore(Got[i], Got[j])
    BY <1>1, <1>2, <1>3, <1>6
  <2>2. PICK m, n \in DOMAIN netSent : m < n /\ netSent[m] = Got[i] /\ netSent[n] = Got[j]
    BY <2>1 DEF SentBefore
  <2>. QED  BY <1>6, <2>2 DEF AnswerInv
<1>. QED  BY <1>5, <1>6 DEF AnswersMatchCommands, Got

LEMMA AnswerInvInit == Init => AnswerInv
<1>1. ASSUME netSent = <<>>
      PROVE  AnswerInv
  BY <1>1 DEF AnswerInv, Range
<1>. QED  BY <1>1 DEF Init

\* Whatever was dropped on the way and however often the host was gone, each answer
\* the host gets belongs to a known command that it sent and the net core handled, and
\* the answers come in the order of their commands, none twice.
THEOREM AnswersMatch == Spec => []AnswersMatchCommands
<1>1. TypeOK /\ DownInv /\ UpInv /\ AnswerInv => AnswersMatchCommands
  BY AnswersAtHost
<1>. QED
  BY <1>1, AnswerInvInit, AnswerInvNext, UpInvInit, UpInvNext, DownInvInit, DownInvNext,
     BridgeTypeCorrect, PTL DEF Spec

-----------------------------------------------------------------------------
(* The credit of the host bounds the commands under way. *)

\* Where the commands and the answers under way are.
DownWay == Range(NetHand \o a2nQueue) \cup Range(cmdChan)
UpWay ==
  {inEp[4]} \cup (IF wrPc = "write" THEN {wrPkt} ELSE {}) \cup Range(netToHost)
    \cup Range(AppHand \o n2aQueue)

\* A host that is gone will be given one credit when it is back.
CreditInv ==
  /\ ~usbUp => credit = 0
  /\ (IF usbUp THEN credit ELSE 1) + Cardinality(CmdsUnderWay) + Cardinality(AnswersUnderWay)
       <= 1 + resets

LEMMA BackIs ==
  ASSUME TypeOK
  PROVE  Range(Back) = (IF wrPc = "write" THEN {wrPkt} ELSE {}) \cup Range(netToHost)
                         \cup Range(AppHand \o n2aQueue)
<1>1. /\ After \in Seq(UpPackets) /\ Back \in Seq(UpPackets)
      /\ Range(After) = Range(netToHost) \cup Range(AppHand \o n2aQueue)
  <2>1. /\ netToHost \in Seq(UpPackets) /\ AppHand \o n2aQueue \in Seq(UpPackets)
        /\ After \in Seq(UpPackets) /\ Back \in Seq(UpPackets)
    BY UpStreamIs
  <2> DEFINE Q == AppHand \o n2aQueue
  <2>2. netToHost \in Seq(UpPackets) /\ Q \in Seq(UpPackets) /\ After = netToHost \o Q
    BY <2>1 DEF After
  <2> HIDE DEF Q
  <2>3. Range(After) = Range(netToHost) \cup Range(Q)
    BY <2>2, RangeJoined
  <2>. QED  BY <2>1, <2>3 DEF Q
<1>2. Range(Back) = (IF wrPc = "write" THEN {wrPkt} ELSE {}) \cup Range(After)
  <2>1. CASE wrPc = "write"
    <3>1. wrPkt \in UpPackets /\ Back = <<wrPkt>> \o After
      BY <2>1, UpStreamIs
    <3>. QED  BY <1>1, <2>1, <3>1, RangeTaken
  <2>2. CASE wrPc # "write"
    BY <2>2, UpStreamIs
  <2>. QED  BY <2>1, <2>2
<1>. QED  BY <1>1, <1>2

LEMMA UnderWayIs ==
  TypeOK =>
    /\ CmdsUnderWay = {n \in 1 .. MaxCmds : \E k \in CommandKinds : Cmd(k, n) \in DownWay}
    /\ AnswersUnderWay = {n \in 1 .. MaxCmds : Answer(n) \in UpWay}
<1> SUFFICES ASSUME TypeOK
             PROVE  /\ CmdsUnderWay = {n \in 1 .. MaxCmds :
                                         \E k \in CommandKinds : Cmd(k, n) \in DownWay}
                    /\ AnswersUnderWay = {n \in 1 .. MaxCmds : Answer(n) \in UpWay}
  OBVIOUS
<1>1. Range(NetHand \o a2nQueue \o cmdChan) = DownWay
  <2> DEFINE P == NetHand \o a2nQueue
  <2>1. P \in Seq(DownPackets) /\ cmdChan \in Seq(DownPackets)
    BY DownStreamIs
  <2> HIDE DEF P
  <2>2. Range(P \o cmdChan) = Range(P) \cup Range(cmdChan)
    BY <2>1, RangeJoined
  <2>. QED  BY <2>2 DEF DownWay, P
<1>2. Back \in Seq(UpPackets)
  BY UpStreamIs
<1>3. Range(Back) = (IF wrPc = "write" THEN {wrPkt} ELSE {}) \cup Range(netToHost)
                      \cup Range(AppHand \o n2aQueue)
  BY BackIs
<1>4. \A n \in 1 .. MaxCmds : Answer(n) \in UpPackets /\ Answer(n) # None
  BY UpPacketIs DEF UpPackets
<1>5. ASSUME NEW n \in 1 .. MaxCmds
      PROVE  Answer(n) \in Range(Offered(4) \o Back) <=> Answer(n) \in UpWay
  <2>1. CASE inEp[4] = None
    <3>1. Offered(4) \o Back = Back
      BY <1>2, <2>1, ConcatEmptySeq DEF Offered
    <3>. QED  BY <1>2, <1>3, <1>4, <2>1, <3>1 DEF UpWay
  <2>2. CASE inEp[4] # None
    <3> DEFINE c == inEp[4]
    <3>1. Offered(4) \o Back = <<c>> \o Back /\ c \in UpPackets
      BY <2>2 DEF Offered, TypeOK, Endpoints
    <3> HIDE DEF c
    <3>2. Range(<<c>> \o Back) = {c} \cup Range(Back)
      BY <1>2, <3>1, RangeTaken
    <3>. QED  BY <1>2, <1>3, <3>1, <3>2 DEF UpWay, c
  <2>. QED  BY <2>1, <2>2
<1>. QED  BY <1>1, <1>5 DEF CmdsUnderWay, AnswersUnderWay

LEMMA UnderWayIsNext ==
  TypeOK' =>
    /\ CmdsUnderWay' = {n \in 1 .. MaxCmds : \E k \in CommandKinds : Cmd(k, n) \in DownWay'}
    /\ AnswersUnderWay' = {n \in 1 .. MaxCmds : Answer(n) \in UpWay'}
<1>1. (TypeOK =>
    /\ CmdsUnderWay = {n \in 1 .. MaxCmds : \E k \in CommandKinds : Cmd(k, n) \in DownWay}
    /\ AnswersUnderWay = {n \in 1 .. MaxCmds : Answer(n) \in UpWay})'
  BY UnderWayIs, PTL
<1>. QED  BY <1>1

\* Both are finite, also after a step.
LEMMA UnderWayFinite ==
  /\ IsFiniteSet(CmdsUnderWay) /\ Cardinality(CmdsUnderWay) \in Nat
  /\ IsFiniteSet(AnswersUnderWay) /\ Cardinality(AnswersUnderWay) \in Nat
  /\ IsFiniteSet(CmdsUnderWay') /\ Cardinality(CmdsUnderWay') \in Nat
  /\ IsFiniteSet(AnswersUnderWay') /\ Cardinality(AnswersUnderWay') \in Nat
<1> DEFINE M == 1 .. MaxCmds
<1>1. IsFiniteSet(M)
  BY FS_Interval, BridgeAssumption
<1>2. /\ CmdsUnderWay \in SUBSET M /\ AnswersUnderWay \in SUBSET M
      /\ CmdsUnderWay' \in SUBSET M /\ AnswersUnderWay' \in SUBSET M
  BY DEF CmdsUnderWay, AnswersUnderWay
<1> HIDE DEF M
<1>3. \A X \in SUBSET M : IsFiniteSet(X) /\ Cardinality(X) \in Nat
  BY <1>1, FS_Subset, FS_CardinalityType
<1>. QED  BY <1>2, <1>3

\* No more commands, no more answers.
LEMMA NotMore ==
  ASSUME TypeOK, TypeOK'
  PROVE  /\ (\A p \in DownWay' : IsCmd(p) => p \in DownWay) =>
              /\ CmdsUnderWay' \subseteq CmdsUnderWay
              /\ Cardinality(CmdsUnderWay') <= Cardinality(CmdsUnderWay)
         /\ (\A p \in UpWay' : p # None /\ IsAnswer(p) => p \in UpWay) =>
              /\ AnswersUnderWay' \subseteq AnswersUnderWay
              /\ Cardinality(AnswersUnderWay') <= Cardinality(AnswersUnderWay)
<1>1. ASSUME \A p \in DownWay' : IsCmd(p) => p \in DownWay
      PROVE  CmdsUnderWay' \subseteq CmdsUnderWay
  <2>1. \A k, n : IsCmd(Cmd(k, n))
    BY DEF Cmd, IsCmd
  <2>. QED  BY <1>1, <2>1, UnderWayIs, UnderWayIsNext
<1>2. ASSUME \A p \in UpWay' : p # None /\ IsAnswer(p) => p \in UpWay
      PROVE  AnswersUnderWay' \subseteq AnswersUnderWay
  <2>1. \A n \in 1 .. MaxCmds : Answer(n) # None /\ IsAnswer(Answer(n))
    <3>1. ASSUME NEW n \in 1 .. MaxCmds
          PROVE  Answer(n) # None
      BY UpPacketIs DEF UpPackets
    <3>. QED  BY <3>1 DEF Answer, IsAnswer
  <2>. QED  BY <1>2, <2>1, UnderWayIs, UnderWayIsNext
<1>3. \A S : IsFiniteSet(S) => \A T \in SUBSET S : Cardinality(T) <= Cardinality(S)
  BY FS_Subset
<1>. QED  BY <1>1, <1>2, <1>3, UnderWayFinite

\* One more at most, or one less.
LEMMA OneMore ==
  ASSUME NEW S, IsFiniteSet(S), NEW x, NEW T, T \subseteq S \cup {x}
  PROVE  Cardinality(T) <= Cardinality(S) + 1
<1>1. IsFiniteSet(S \cup {x}) /\ Cardinality(S \cup {x}) \in {Cardinality(S), Cardinality(S) + 1}
  BY FS_AddElement
<1>2. Cardinality(S) \in Nat /\ Cardinality(S \cup {x}) \in Nat
  BY <1>1, FS_CardinalityType
<1>3. Cardinality(T) \in Nat /\ Cardinality(T) <= Cardinality(S \cup {x})
  BY <1>1, FS_Subset, FS_CardinalityType
<1>. QED  BY <1>1, <1>2, <1>3

LEMMA OneLess ==
  ASSUME NEW S, IsFiniteSet(S), NEW x \in S, NEW T, T \subseteq S \ {x}
  PROVE  Cardinality(T) <= Cardinality(S) - 1
<1>1. IsFiniteSet(S \ {x}) /\ Cardinality(S \ {x}) = Cardinality(S) - 1
  BY FS_RemoveElement
<1>2. Cardinality(T) <= Cardinality(S \ {x})
  BY <1>1, FS_Subset
<1>. QED  BY <1>1, <1>2

LEMMA CreditInvNext == TypeOK /\ TypeOK' /\ DownInv /\ UpInv /\ CreditInv /\ [Next]_vars => CreditInv'
<1> SUFFICES ASSUME TypeOK, TypeOK', DownInv, UpInv, CreditInv, [Next]_vars
             PROVE  CreditInv'
  OBVIOUS
<1> DEFINE P == NetHand \o a2nQueue
           Q == AppHand \o n2aQueue
           c == Cardinality(CmdsUnderWay)
           a == Cardinality(AnswersUnderWay)
           b == IF usbUp THEN credit ELSE 1
           cn == c'
           an == a'
           bn == b'
           rn == resets'
           NoMoreCmds == \A p \in DownWay' : IsCmd(p) => p \in DownWay
           NoMoreAnswers == \A p \in UpWay' : p # None /\ IsAnswer(p) => p \in UpWay
<1>a. /\ c \in Nat /\ a \in Nat /\ cn \in Nat /\ an \in Nat
      /\ credit \in {0, 1} /\ resets \in Nat /\ b \in {0, 1}
      /\ b + c + a <= 1 + resets
  BY UnderWayFinite, BridgeAssumption DEF TypeOK, CreditInv
<1>b. (NoMoreCmds => cn <= c) /\ (NoMoreAnswers => an <= a)
  BY NotMore
<1>c. (~usbUp' => credit' = 0) /\ bn + cn + an <= 1 + rn => CreditInv'
  BY DEF CreditInv
<1>d. ~usbUp => credit = 0
  BY DEF CreditInv
<1>e. /\ P \in Seq(DownPackets) /\ P' \in Seq(DownPackets)
      /\ cmdChan \in Seq(DownPackets) /\ cmdChan' \in Seq(DownPackets)
      /\ Q \in Seq(UpPackets) /\ Q' \in Seq(UpPackets)
      /\ netToHost \in Seq(UpPackets) /\ netToHost' \in Seq(UpPackets)
  BY DownStreamIs, DownStreamIsNext, UpStreamIs, UpStreamIsNext
<1>f. /\ DownWay = Range(P) \cup Range(cmdChan) /\ DownWay' = Range(P') \cup Range(cmdChan')
      /\ UpWay = {inEp[4]} \cup (IF wrPc = "write" THEN {wrPkt} ELSE {})
                   \cup Range(netToHost) \cup Range(Q)
      /\ UpWay' = {inEp'[4]} \cup (IF wrPc' = "write" THEN {wrPkt'} ELSE {})
                   \cup Range(netToHost') \cup Range(Q')
  BY DEF DownWay, UpWay
<1>g. /\ UNCHANGED a2nVars => P' = P
      /\ UNCHANGED n2aVars => Q' = Q
  BY DEF a2nVars, n2aVars, NetHand, AppHand
<1>h. /\ A2N!TriggerEvent \/ A2N!Configure => P' = P
      /\ A2N!WaitEvent \/ A2N!ReadPacket \/ A2N!ReadEmpty \/ A2N!ReturnToWait => P' = P
      /\ \A p \in DownPackets : SendToNet(p) => P' = P \/ P' = Append(P, p)
      /\ A2N!HandlePacket => a2nRecv \in DownPackets /\ P = <<a2nRecv>> \o P'
  BY A2NMoves DEF TypeOK, SendToNet
<1>i. /\ N2A!TriggerEvent => Q' = Q
      /\ N2A!WaitEvent \/ N2A!ReadPacket \/ N2A!ReadEmpty \/ N2A!ReturnToWait => Q' = Q
      /\ \A p \in UpPackets : NotifyApp(p) => Q' = Q \/ Q' = Append(Q, p)
      /\ N2A!HandlePacket => n2aRecv \in UpPackets /\ Q = <<n2aRecv>> \o Q'
  BY N2AMoves DEF TypeOK, NotifyApp
<1>j. /\ usbUp => b = credit
      /\ ~usbUp => b = 1
      /\ usbUp' => bn = credit'
      /\ ~usbUp' => bn = 1
      /\ UNCHANGED <<usbUp, credit>> => bn = b
      /\ rn = resets'
  OBVIOUS
<1> HIDE DEF P, Q, c, a, b, cn, an, bn, rn, NoMoreCmds, NoMoreAnswers
<1>k. ASSUME P' = P, cmdChan' = cmdChan
      PROVE  NoMoreCmds
  BY <1>f, <1>k DEF NoMoreCmds
<1>l. ASSUME Q' = Q, UNCHANGED <<netToHost, wrPc, wrPkt, inEp>>
      PROVE  NoMoreAnswers
  BY <1>f, <1>l DEF NoMoreAnswers
<1>m. ASSUME UNCHANGED <<usbUp, credit, resets>>, NoMoreCmds, NoMoreAnswers
      PROVE  CreditInv'
  <2>1. cn <= c /\ an <= a
    BY <1>b, <1>m
  <2>2. bn = b /\ rn = resets
    BY <1>m, <1>j
  <2>3. bn + cn + an <= 1 + rn
    BY <1>a, <2>1, <2>2
  <2>. QED  BY <1>c, <1>m, <1>d, <2>3
<1>1. CASE UNCHANGED vars
  BY <1>g, <1>k, <1>l, <1>m, <1>1 DEF vars, hostVars, writeVars
<1>2. CASE ReadTask \/ TriggerNet \/ NetBoot \/ RxLoopWait \/ TriggerApp \/ RecvTaskWait
  BY <1>g, <1>h, <1>i, <1>k, <1>l, <1>m, <1>2 DEF ReadTask, ReadEnabled, ReadDisabled, TriggerNet,
     NetBoot, RxLoopWait, TriggerApp, RecvTaskWait, hostVars, writeVars
<1>3. CASE Connect
  <2>1. NoMoreCmds /\ NoMoreAnswers
    BY <1>g, <1>k, <1>l, <1>3 DEF Connect, writeVars
  <2>2. cn <= c /\ an <= a
    BY <1>b, <2>1
  <2>3. bn = b /\ rn = resets /\ usbUp'
    BY <1>j, <1>d, <1>3 DEF Connect
  <2>4. bn + cn + an <= 1 + rn
    BY <1>a, <2>2, <2>3
  <2>. QED  BY <1>c, <2>3, <2>4
<1>4. CASE Disconnect
  <2>1. NoMoreCmds
    BY <1>g, <1>k, <1>4 DEF Disconnect
  <2>2. inEp'[4] = None
    BY <1>4 DEF Disconnect, Endpoints
  <2>3. NoMoreAnswers
    BY <1>f, <1>g, <1>4, <2>2 DEF Disconnect, NoMoreAnswers
  <2>4. cn <= c /\ an <= a
    BY <1>b, <2>1, <2>3
  <2>5. bn = 1 /\ rn = resets + 1 /\ credit' = 0
    BY <1>j, <1>4 DEF Disconnect
  <2>6. bn + cn + an <= 1 + rn
    BY <1>a, <2>4, <2>5
  <2>. QED  BY <1>c, <2>5, <2>6
<1>5. ASSUME NEW k \in Kinds, ControlOut(k)
      PROVE  CreditInv'
  <2> DEFINE p == Cmd(k, hostCmds + 1)
  <2>1. p \in DownPackets /\ usbUp /\ credit = 1 /\ credit' = 0 /\ UNCHANGED <<usbUp, resets>>
    BY <1>5, SentOnLinks DEF ControlOut, HostCommands
  <2>2. NoMoreAnswers /\ P' = P
    BY <1>g, <1>l, <1>5 DEF ControlOut, HostCommands, writeVars
  <2>3. cmdChan' = cmdChan \/ cmdChan' = Append(cmdChan, p)
    BY <1>5 DEF ControlOut
  <2> HIDE DEF p
  <2>4. DownWay' \subseteq DownWay \cup {p}
    BY <1>e, <1>f, <2>1, <2>2, <2>3, RangeAppended
  <2>5. CmdsUnderWay' \subseteq CmdsUnderWay \cup {hostCmds + 1}
    <3>1. ASSUME NEW n, NEW i, Cmd(i, n) = p
          PROVE  n = hostCmds + 1
      BY <3>1 DEF Cmd, p
    <3>. QED  BY <2>4, <3>1, UnderWayIs, UnderWayIsNext
  <2>6. cn <= c + 1
    BY <2>5, UnderWayFinite, OneMore DEF c, cn
  <2>7. an <= a
    BY <1>b, <2>2
  <2>8. b = 1 /\ bn = 0 /\ rn = resets /\ credit' = 0
    BY <1>j, <2>1
  <2>9. bn + cn + an <= 1 + rn
    BY <1>a, <2>6, <2>7, <2>8
  <2>. QED  BY <1>c, <2>8, <2>9
<1>6. CASE CmdTask
  <2> DEFINE p == Head(cmdChan)
  <2>1. /\ p \in DownPackets /\ cmdChan = <<p>> \o cmdChan'
        /\ P' = P \/ P' = Append(P, p)
    BY <1>e, <1>h, <1>6, Taken, HeadAndTail DEF CmdTask
  <2> HIDE DEF p
  <2>2. Range(cmdChan) = {p} \cup Range(cmdChan')
    BY <1>e, <2>1, RangeTaken
  <2>3. Range(P') \subseteq Range(P) \cup {p}
    BY <1>e, <2>1, RangeAppended
  <2>4. NoMoreCmds
    BY <1>f, <2>2, <2>3 DEF NoMoreCmds
  <2>. QED  BY <1>g, <1>l, <1>m, <1>6, <2>4 DEF CmdTask, hostVars, writeVars
<1>7. CASE ReadAcl
  <2> DEFINE p == Acl(hostAcls + 1)
  <2>1. p \in DownPackets /\ ~IsCmd(p) /\ (P' = P \/ P' = Append(P, p)) /\ cmdChan' = cmdChan
    BY <1>h, <1>7, SentOnLinks DEF ReadAcl, Acl, IsCmd
  <2> HIDE DEF p
  <2>2. Range(P') \subseteq Range(P) \cup {p}
    BY <1>e, <2>1, RangeAppended
  <2>3. NoMoreCmds
    BY <1>f, <2>1, <2>2 DEF NoMoreCmds
  <2>. QED  BY <1>g, <1>l, <1>m, <1>7, <2>3 DEF ReadAcl, hostVars, writeVars
<1>8. CASE RecvTaskForward
  <2>1. /\ n2aRecv \in UpPackets /\ Q = <<n2aRecv>> \o Q'
        /\ netToHost' = Append(netToHost, n2aRecv)
    BY <1>i, <1>8 DEF RecvTaskForward
  <2>2. Range(Q) = {n2aRecv} \cup Range(Q') /\ Range(netToHost') = Range(netToHost) \cup {n2aRecv}
    BY <1>e, <2>1, RangeTaken, RangeAppended
  <2>3. NoMoreAnswers
    BY <1>f, <1>8, <2>2 DEF NoMoreAnswers, RecvTaskForward, writeVars
  <2>. QED  BY <1>g, <1>k, <1>m, <1>8, <2>3 DEF RecvTaskForward, hostVars
<1>9. CASE WriteTask
  <2>1. NoMoreCmds
    BY <1>g, <1>k, <1>9 DEF WriteTask, WriteEnabled, WriteReceive, WriteDone, WriteFailed
  <2>2. Q' = Q /\ UNCHANGED hostVars
    BY <1>g, <1>9 DEF WriteTask, WriteEnabled, WriteReceive, WriteDone, WriteFailed
  <2>3. NoMoreAnswers
    <3>1. CASE WriteEnabled
      BY <1>f, <2>2, <3>1 DEF WriteEnabled, NoMoreAnswers
    <3>2. CASE WriteReceive
      <4>1. wrPkt' \in UpPackets /\ netToHost = <<wrPkt'>> \o netToHost' /\ UNCHANGED inEp
        BY <1>e, <3>2, Taken, HeadAndTail DEF WriteReceive
      <4>2. Range(netToHost) = {wrPkt'} \cup Range(netToHost')
        BY <1>e, <4>1, RangeTaken
      <4>. QED  BY <1>f, <2>2, <4>1, <4>2 DEF NoMoreAnswers
    <3>3. CASE WriteDone
      <4>1. inEp'[4] = inEp[4] \/ inEp'[4] = wrPkt
        BY <3>3 DEF WriteDone, TypeOK, Endpoints
      <4>. QED  BY <1>f, <2>2, <3>3, <4>1 DEF WriteDone, NoMoreAnswers
    <3>4. CASE WriteFailed
      BY <1>f, <2>2, <3>4 DEF WriteFailed, NoMoreAnswers
    <3>. QED  BY <1>9, <3>1, <3>2, <3>3, <3>4 DEF WriteTask
  <2>. QED  BY <1>m, <2>1, <2>2, <2>3 DEF hostVars
<1>10. ASSUME NEW e \in Endpoints, HostTakes(e)
       PROVE  CreditInv'
  <2>1. /\ usbUp /\ inEp[e] # None /\ inEp' = [inEp EXCEPT ![e] = None]
        /\ credit' = IF IsAnswer(inEp[e]) THEN 1 ELSE credit
        /\ UNCHANGED <<usbUp, resets, netToHost, wrPc, wrPkt>> /\ Q' = Q
    BY <1>g, <1>10 DEF HostTakes
  <2>2. NoMoreCmds
    BY <1>g, <1>k, <1>10 DEF HostTakes
  <2>3. inEp'[4] = inEp[4] \/ inEp'[4] = None
    BY <2>1 DEF TypeOK, Endpoints
  <2>4. NoMoreAnswers
    BY <1>f, <2>1, <2>3 DEF NoMoreAnswers
  <2>5. CASE ~IsAnswer(inEp[e])
    BY <1>m, <2>1, <2>2, <2>4, <2>5
  <2>6. CASE IsAnswer(inEp[e])
    <3> DEFINE r == inEp[4]
    <3>1. /\ e = 4 /\ r \in UpPackets /\ inEp'[4] = None
          /\ \E n \in 1 .. MaxCmds : r = Answer(n)
      <4>1. inEp[e] \in UpPackets /\ inEp[e][1] = e /\ inEp'[e] = None
        BY <2>1 DEF UpInv, TypeOK
      <4>2. inEp[e][1] = 4 /\ \E n \in 1 .. MaxCmds : inEp[e] = Answer(n)
        BY <2>6, <4>1, UpPacketIs
      <4>. QED  BY <4>1, <4>2
    <3>2. PICK n \in 1 .. MaxCmds : r = Answer(n)
      BY <3>1
    <3>3. /\ Chain(UpOrder(4), Front(4) \o Back)
          /\ Front(4) = Append(hostGot[4], r) /\ hostGot[4] \in Seq(UpPackets)
          /\ Front(4) \in Seq(UpPackets) /\ Back \in Seq(UpPackets)
      <4>1. 4 \in Endpoints
        BY DEF Endpoints
      <4>2. UpStream(4) = Front(4) \o Back /\ UpFine(4)
        BY <4>1, UpStreamIs, UpFineIs DEF UpInv
      <4>. QED  BY <2>1, <3>1, <4>1, <4>2, UpStreamIs DEF UpFine
    <3>4. r \in Range(Front(4))
      <4> DEFINE g == hostGot[4]
                 f == Front(4)
      <4>1. g \in Seq(UpPackets) /\ r \in UpPackets /\ f = Append(g, r)
        BY <3>1, <3>3
      <4> HIDE DEF g, f, r
      <4>2. Range(Append(g, r)) = Range(g) \cup {r}
        BY <4>1, RangeAppended
      <4>3. r \in Range(f)
        BY <4>1, <4>2
      <4>. QED  BY <4>3 DEF f
    <3> HIDE DEF r
    <3>5. r \notin Range(Back)
      <4>1. Front(4) \in Seq(UpPackets) /\ Back \in Seq(UpPackets)
        BY <3>3
      <4>2. \A x \in Range(Front(4)), y \in Range(Back) : <<x, y>> \in UpOrder(4)
        BY <3>3, <4>1, ChainJoined
      <4>3. r \in Range(Back) => <<r, r>> \in UpOrder(4)
        BY <3>4, <4>2
      <4>4. r[1] = 4
        BY <3>2 DEF Answer
      <4>. QED  BY <4>3, <4>4, SentBeforeIs DEF UpOrder
    <3>6. Range(Back) = (IF wrPc = "write" THEN {wrPkt} ELSE {}) \cup Range(netToHost) \cup Range(Q)
      BY BackIs DEF Q
    <3>7. Answer(n) \notin UpWay'
      <4>1. Answer(n) # None
        BY <3>1, <3>2, UpPacketIs
      <4>. QED  BY <1>f, <2>1, <3>1, <3>2, <3>5, <3>6, <4>1
    <3>8. n \in AnswersUnderWay /\ n \notin AnswersUnderWay'
      <4>1. Answer(n) \in UpWay
        BY <1>f, <3>2 DEF r
      <4>. QED  BY <3>7, <4>1, UnderWayIs, UnderWayIsNext
    <3>9. AnswersUnderWay' \subseteq AnswersUnderWay \ {n}
      BY <2>4, <3>8, NotMore DEF NoMoreAnswers
    <3>10. an <= a - 1
      BY <3>8, <3>9, UnderWayFinite, OneLess DEF a, an
    <3>11. cn <= c
      BY <1>b, <2>2
    <3>12. bn = 1 /\ rn = resets /\ usbUp'
      BY <1>j, <2>1, <2>6
    <3>13. bn + cn + an <= 1 + rn
      BY <1>a, <3>10, <3>11, <3>12
    <3>. QED  BY <1>c, <3>12, <3>13
  <2>. QED  BY <2>5, <2>6
<1>11. CASE DispatchSilent
  <2>1. a2nRecv \in DownPackets /\ P = <<a2nRecv>> \o P' /\ cmdChan' = cmdChan
    BY <1>h, <1>11 DEF DispatchSilent
  <2>2. Range(P) = {a2nRecv} \cup Range(P')
    BY <1>e, <2>1, RangeTaken
  <2>3. NoMoreCmds
    BY <1>f, <2>1, <2>2 DEF NoMoreCmds
  <2>. QED  BY <1>g, <1>l, <1>m, <1>11, <2>3 DEF DispatchSilent, hostVars, writeVars
<1>12. CASE DispatchKnown
  <2> DEFINE n == a2nRecv[3]
             p == Answer(n)
  <2>1. /\ a2nRecv \in DownPackets /\ IsCmd(a2nRecv) /\ P = <<a2nRecv>> \o P'
        /\ UNCHANGED <<cmdChan, netToHost, wrPc, wrPkt, inEp, usbUp, credit, resets>>
    BY <1>h, <1>12 DEF DispatchKnown, hostVars, writeVars
  <2>2. p \in UpPackets /\ (Q' = Q \/ Q' = Append(Q, p))
    BY <1>i, <1>12, SentOnLinks DEF DispatchKnown, A2N!HandlePacket
  <2>3. PICK k \in CommandKinds : a2nRecv = Cmd(k, n) /\ n \in 1 .. MaxCmds
    BY <2>1, DownPacketIs
  <2> HIDE DEF n, p
  <2>4. Range(P) = {a2nRecv} \cup Range(P')
    BY <1>e, <2>1, RangeTaken
  <2>5. \A d \in DownWay' : <<a2nRecv, d>> \in DownOrder
    <3>1. /\ Chain(DownOrder, (netTook \o P) \o cmdChan) /\ netTook \in Seq(DownPackets)
      BY DownStreamIs DEF DownInv, P
    <3>2. /\ Chain(DownOrder, P)
          /\ \A x \in Range(P), y \in Range(cmdChan) : <<x, y>> \in DownOrder
      <4>1. P \in Seq(DownPackets) /\ cmdChan \in Seq(DownPackets)
        BY <1>e
      <4>. QED  BY <3>1, <4>1, ChainOfThree
    <3>3. \A d \in Range(P') : <<a2nRecv, d>> \in DownOrder
      <4>1. P' \in Seq(DownPackets)
        BY <1>e
      <4>. QED  BY <2>1, <3>2, <4>1, ChainTaken
    <3>. QED  BY <1>f, <2>1, <2>4, <3>2, <3>3
  <2>6. n \in CmdsUnderWay
    BY <1>f, <2>3, <2>4, UnderWayIs
  <2>7. n \notin CmdsUnderWay'
    <3>1. ASSUME NEW i \in CommandKinds, Cmd(i, n) \in DownWay'
          PROVE  FALSE
      <4>1. <<a2nRecv, Cmd(i, n)>> \in DownOrder
        BY <2>5, <3>1
      <4>2. Cmd(i, n) \in DownPackets /\ Cmd(i, n)[1] = 1 /\ Cmd(i, n)[3] = n
            /\ a2nRecv[1] = 1 /\ a2nRecv[3] = n /\ n \in Nat
        BY <2>1, <2>3 DEF DownPackets, Cmd, IsCmd, n
      <4>. QED  BY <2>1, <4>1, <4>2, DownOrderIs
    <3>. QED  BY <3>1, UnderWayIsNext
  <2>8. NoMoreCmds
    BY <1>f, <2>1, <2>4 DEF NoMoreCmds
  <2>9. CmdsUnderWay' \subseteq CmdsUnderWay \ {n}
    BY <2>7, <2>8, NotMore DEF NoMoreCmds
  <2>10. cn <= c - 1
    BY <2>6, <2>9, UnderWayFinite, OneLess DEF c, cn
  <2>11. UpWay' \subseteq UpWay \cup {p}
    <3>1. Range(Q') \subseteq Range(Q) \cup {p}
      BY <1>e, <2>2, RangeAppended
    <3>. QED  BY <1>f, <2>1, <3>1
  <2>12. AnswersUnderWay' \subseteq AnswersUnderWay \cup {n}
    <3>1. \A m : Answer(m) = p => m = n
      BY DEF Answer, p
    <3>. QED  BY <2>11, <3>1, UnderWayIs, UnderWayIsNext
  <2>13. an <= a + 1
    BY <2>12, UnderWayFinite, OneMore DEF a, an
  <2>14. bn = b /\ rn = resets /\ (~usbUp' => credit' = 0)
    BY <1>j, <1>d, <2>1
  <2>15. bn + cn + an <= 1 + rn
    BY <1>a, <2>10, <2>13, <2>14
  <2>. QED  BY <1>c, <2>14, <2>15
<1>13. ASSUME NEW i \in Indicators, SdcEvent(i)
       PROVE  CreditInv'
  <2> DEFINE p == CtrlPacket(i, ctrls + 1)
  <2>1. p \in UpPackets /\ ~IsAnswer(p) /\ (Q' = Q \/ Q' = Append(Q, p))
    BY <1>i, <1>13, SentOnLinks DEF SdcEvent, CtrlPacket, IsAnswer
  <2> HIDE DEF p
  <2>2. Range(Q') \subseteq Range(Q) \cup {p}
    BY <1>e, <2>1, RangeAppended
  <2>3. UNCHANGED <<netToHost, wrPc, wrPkt, inEp>>
    BY <1>13 DEF SdcEvent, writeVars
  <2>4. NoMoreAnswers
    BY <1>f, <2>1, <2>2, <2>3 DEF NoMoreAnswers
  <2>. QED  BY <1>g, <1>k, <1>m, <1>13, <2>4 DEF SdcEvent, hostVars
<1>. QED
  BY <1>1, <1>2, <1>3, <1>4, <1>5, <1>6, <1>7, <1>8, <1>9, <1>10, <1>11, <1>12, <1>13
     DEF Next, RecvTask, RxLoop

LEMMA CreditInvInit == Init => CreditInv
<1> SUFFICES ASSUME Init  PROVE CreditInv
  OBVIOUS
<1>1. TypeOK
  BY BridgeTypeInit
<1>2. DownWay = {} /\ UpWay = {None}
  <2>1. NetHand \o a2nQueue = <<>> /\ AppHand \o n2aQueue = <<>>
    BY DEF Init, A2N!Init, A2N!Ring!Init, N2A!Init, N2A!Ring!Init, NetHand, AppHand
  <2>. QED  BY <2>1 DEF Init, DownWay, UpWay, Range, Endpoints
<1>3. \A n \in 1 .. MaxCmds : Answer(n) # None
  <2>1. \A n \in 1 .. MaxCmds : Answer(n) \in UpPackets
    BY DEF UpPackets
  <2>. QED  BY <2>1, UpPacketIs
<1>4. CmdsUnderWay = {} /\ AnswersUnderWay = {}
  BY <1>1, <1>2, <1>3, UnderWayIs
<1>. QED  BY <1>4, FS_EmptySet DEF Init, CreditInv

\* The host's command credit bounds the commands on their way to the net core and
\* the answers on their way back: one per USB session begun.
THEOREM CreditBound == Spec => []CreditsBoundCommands
<1>1. TypeOK /\ CreditInv => CreditsBoundCommands
  <2>1. TypeOK => credit \in {0, 1} /\ resets \in Nat
    BY BridgeAssumption DEF TypeOK
  <2>. QED  BY <2>1, UnderWayFinite DEF CreditInv, CreditsBoundCommands
<1>. QED
  BY <1>1, CreditInvInit, CreditInvNext, UpInvInit, UpInvNext, DownInvInit, DownInvNext,
     BridgeTypeCorrect, PTL DEF Spec

-----------------------------------------------------------------------------
(* The channel of the commands. *)

\* Each command in the channel has a number of its own and is under way.
LEMMA ChannelUnderWay ==
  ASSUME TypeOK, DownInv
  PROVE  Len(cmdChan) <= Cardinality(CmdsUnderWay)
<1> DEFINE f == [i \in 1 .. Len(cmdChan) |-> cmdChan[i][3]]
<1>1. cmdChan \in Seq(DownPackets) /\ Len(cmdChan) \in Nat
  BY DEF TypeOK
<1>2. Chain(DownOrder, cmdChan)
  <2>1. /\ NetHand \o a2nQueue \in Seq(DownPackets) /\ netTook \in Seq(DownPackets)
        /\ Chain(DownOrder, (netTook \o (NetHand \o a2nQueue)) \o cmdChan)
    BY DownStreamIs DEF DownInv
  <2>. QED  BY <1>1, <2>1, ChainOfThree
<1>3. ASSUME NEW i \in 1 .. Len(cmdChan)
      PROVE  /\ cmdChan[i] \in DownPackets /\ cmdChan[i][1] = 1
             /\ f[i] \in CmdsUnderWay
  <2>1. cmdChan[i] \in Range(cmdChan)
    BY <1>1 DEF Range
  <2>2. cmdChan[i] \in DownPackets /\ IsCmd(cmdChan[i]) /\ cmdChan[i] \in DownWay
    BY <1>1, <2>1 DEF DownInv, DownWay
  <2>3. PICK k \in CommandKinds, n \in 1 .. MaxCmds : cmdChan[i] = Cmd(k, n) /\ cmdChan[i][3] = n
    BY <2>2, DownPacketIs
  <2>4. f[i] \in CmdsUnderWay
    BY <2>2, <2>3, UnderWayIs
  <2>. QED  BY <2>2, <2>4 DEF IsCmd
<1>4. ASSUME NEW i \in 1 .. Len(cmdChan), NEW j \in 1 .. Len(cmdChan), i < j
      PROVE  f[i] # f[j]
  <2>1. <<cmdChan[i], cmdChan[j]>> \in DownOrder
    BY <1>1, <1>2, <1>4 DEF Chain
  <2>2. cmdChan[i][3] < cmdChan[j][3]
    BY <1>3, <2>1, DownOrderIs
  <2>3. cmdChan[i][3] \in Nat /\ cmdChan[j][3] \in Nat
    BY <1>3, DownPacketIs
  <2>. QED  BY <2>2, <2>3
<1>5. f \in Injection(1 .. Len(cmdChan), CmdsUnderWay)
  <2>1. f \in [1 .. Len(cmdChan) -> CmdsUnderWay]
    BY <1>3
  <2>2. \A i, j \in 1 .. Len(cmdChan) : f[i] = f[j] => i = j
    BY <1>1, <1>4
  <2>. QED  BY <2>1, <2>2 DEF Injection, IsInjective
<1>6. Cardinality(1 .. Len(cmdChan)) <= Cardinality(CmdsUnderWay)
  <2> DEFINE S == 1 .. Len(cmdChan)
             U == CmdsUnderWay
  <2>1. f \in Injection(S, U) /\ IsFiniteSet(U)
    BY <1>5, UnderWayFinite
  <2> HIDE DEF S, U, f
  <2>2. Cardinality(S) <= Cardinality(U)
    BY <2>1, FS_Injection
  <2>. QED  BY <2>2 DEF S, U
<1>7. Cardinality(1 .. Len(cmdChan)) = Len(cmdChan)
  <2> DEFINE n == Len(cmdChan)
  <2>1. n \in Nat
    BY <1>1
  <2> HIDE DEF n
  <2>2. Cardinality(1 .. n) = n
    BY <2>1, FS_Interval
  <2>. QED  BY <2>2 DEF n
<1>. QED  BY <1>6, <1>7

\* Only control_out drops a packet at the channel, and then the host has a credit
\* beside a full channel.
LEMMA ChannelNext ==
  TypeOK /\ TypeOK' /\ DownInv /\ CreditInv /\ ChannelTakesCommands /\ [Next]_vars
    => ChannelTakesCommands'
<1> SUFFICES ASSUME TypeOK, TypeOK', DownInv, CreditInv, ChannelTakesCommands, [Next]_vars
             PROVE  ChannelTakesCommands'
  OBVIOUS
<1>1. resets \in Nat /\ (resets' = resets \/ resets' = resets + 1)
  BY BridgeAssumption DEF TypeOK, Next, vars, hostVars, Connect, Disconnect, ControlOut,
     HostCommands, TriggerNet, CmdTask, ReadTask, ReadEnabled, ReadDisabled, ReadAcl, RecvTask,
     RecvTaskWait, RecvTaskForward, WriteTask, WriteEnabled, WriteReceive, WriteDone, WriteFailed,
     HostTakes, TriggerApp, RxLoop, NetBoot, RxLoopWait, DispatchKnown, DispatchSilent, SdcEvent
<1>2. ASSUME \A w \in lost' : w \in lost \/ w[1] # "channel"
      PROVE  ChannelTakesCommands'
  <2>1. resets' < Depth => resets < Depth
    BY <1>1, BridgeAssumption
  <2>. QED  BY <1>2, <2>1, Zenon DEF ChannelTakesCommands
<1>3. ASSUME UNCHANGED lost
      PROVE  ChannelTakesCommands'
  BY <1>2, <1>3
<1>4. ASSUME NEW p, SendToNet(p)
      PROVE  ChannelTakesCommands'
  <2>1. <<"a2n", p>>[1] # "channel"
    OBVIOUS
  <2>2. CASE lost' = lost \cup {<<"a2n", p>>}
    <3>1. \A w \in lost' : w \in lost \/ w[1] # "channel"
      BY <2>1, <2>2
    <3>. QED  BY <1>2, <3>1
  <2>. QED  BY <1>3, <1>4, <2>2 DEF SendToNet
<1>5. ASSUME NEW p, NotifyApp(p)
      PROVE  ChannelTakesCommands'
  <2>1. <<"n2a", p>>[1] # "channel"
    OBVIOUS
  <2>2. CASE lost' = lost \cup {<<"n2a", p>>}
    <3>1. \A w \in lost' : w \in lost \/ w[1] # "channel"
      BY <2>1, <2>2
    <3>. QED  BY <1>2, <3>1
  <2>. QED  BY <1>3, <1>5, <2>2 DEF NotifyApp
<1>6. CASE Disconnect
  <2> DEFINE W == {<<"usb", inEp[e]>> : e \in Endpoints} \ {<<"usb", None>>}
  <2>1. lost' = lost \cup W
    BY <1>6 DEF Disconnect
  <2>2. \A w \in W : w[1] # "channel"
    OBVIOUS
  <2> HIDE DEF W
  <2>3. \A w \in lost' : w \in lost \/ w[1] # "channel"
    BY <2>1, <2>2
  <2>. QED  BY <1>2, <2>3
<1>7. CASE WriteFailed
  <2>1. lost' = lost \cup {<<"usb", wrPkt>>}
    BY <1>7 DEF WriteFailed
  <2>2. <<"usb", wrPkt>>[1] # "channel"
    OBVIOUS
  <2>3. \A w \in lost' : w \in lost \/ w[1] # "channel"
    BY <2>1, <2>2
  <2>. QED  BY <1>2, <2>3
<1>8. ASSUME NEW k \in Kinds, ControlOut(k)
      PROVE  ChannelTakesCommands'
  <2>1. CASE Len(cmdChan) < Depth /\ UNCHANGED lost
    BY <1>3, <2>1
  <2>2. CASE Len(cmdChan) = Depth
    <3>1. usbUp /\ credit = 1 /\ UNCHANGED resets
      BY <1>8 DEF ControlOut, HostCommands
    <3> DEFINE c == Cardinality(CmdsUnderWay)
               a == Cardinality(AnswersUnderWay)
    <3>2. c \in Nat /\ a \in Nat /\ Depth <= c
      BY <2>2, ChannelUnderWay, UnderWayFinite
    <3>3. 1 + c + a <= 1 + resets
      BY <3>1 DEF CreditInv
    <3> HIDE DEF c, a
    <3>4. ~(resets < Depth)
      BY <1>1, <3>2, <3>3, BridgeAssumption
    <3>. QED  BY <3>1, <3>4 DEF ChannelTakesCommands
  <2>. QED  BY <1>8, <2>1, <2>2 DEF ControlOut
<1>9. CASE CmdTask \/ ReadAcl
  BY <1>4, <1>9 DEF CmdTask, ReadAcl
<1>10. CASE DispatchKnown \/ \E i \in Indicators : SdcEvent(i)
  BY <1>5, <1>10 DEF DispatchKnown, SdcEvent
<1>11. CASE \/ UNCHANGED vars \/ Connect \/ TriggerNet \/ ReadTask \/ RecvTask
            \/ WriteEnabled \/ WriteReceive \/ WriteDone \/ TriggerApp
            \/ NetBoot \/ RxLoopWait \/ DispatchSilent
            \/ \E e \in Endpoints : HostTakes(e)
  BY <1>3, <1>11 DEF vars, histVars, Connect, TriggerNet, ReadTask, ReadEnabled, ReadDisabled,
     RecvTask, RecvTaskWait, RecvTaskForward, WriteEnabled, WriteReceive, WriteDone, TriggerApp,
     NetBoot, RxLoopWait, DispatchSilent, HostTakes
<1>. QED
  BY <1>6, <1>7, <1>8, <1>9, <1>10, <1>11 DEF Next, WriteTask, RxLoop

\* HCI_CMD_CHANNEL drops no command before the host has disconnected CHANNEL_DEPTH
\* times, for every depth: control_out accepts nothing it cannot queue.
THEOREM ChannelDropsNothing == Spec => []ChannelTakesCommands
<1>1. Init => ChannelTakesCommands
  BY DEF Init, ChannelTakesCommands
<1>. QED
  BY <1>1, ChannelNext, CreditInvInit, CreditInvNext, UpInvInit, UpInvNext, DownInvInit,
     DownInvNext, BridgeTypeCorrect, PTL DEF Spec
=============================================================================

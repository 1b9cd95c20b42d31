------------------------- MODULE IpcRingRefinement --------------------------
(***************************************************************************)
(* IpcRing implements PacketFifo as long as no frame laps an unread one    *)
(* across the index wrap, and how short a backlog rules that out.          *)
(***************************************************************************)
EXTENDS IpcRingProofs

-----------------------------------------------------------------------------
(* The abstract queue: the payloads of the unread frames. *)

LEMMA PayloadsType ==
  ASSUME NEW f \in Seq(Frame)
  PROVE  /\ Payloads(f) \in Seq(Seq(Byte)) /\ Len(Payloads(f)) = Len(f)
         /\ \A i \in 1 .. Len(f) : Payloads(f)[i] = f[i].pkt
<1>1. DOMAIN f = 1 .. Len(f) /\ Len(f) \in Nat
  OBVIOUS
<1>2. \A i \in 1 .. Len(f) : f[i].pkt \in Seq(Byte)
  <2>1. TAKE i \in 1 .. Len(f)
  <2>2. f[i] \in Frame
    OBVIOUS
  <2>. QED  BY <2>2 DEF Frame
<1>3. Payloads(f) \in [1 .. Len(f) -> Seq(Byte)]
  BY <1>1, <1>2 DEF Payloads
<1>4. Payloads(f) \in Seq(Seq(Byte))
  BY <1>1, <1>3, SeqDef
<1>. QED  BY <1>1, <1>3, <1>4 DEF Payloads

\* Publishing appends to the abstract queue.
LEMMA PayloadsAppend ==
  ASSUME NEW f \in Seq(Frame), NEW x \in Frame
  PROVE  Payloads(Append(f, x)) = Append(Payloads(f), x.pkt)
<1> DEFINE q == Append(Payloads(f), x.pkt)
           g == Append(f, x)
           n == Len(f)
<1>1. x.pkt \in Seq(Byte) /\ n \in Nat
  BY DEF Frame
<1>2. /\ q \in Seq(Seq(Byte)) /\ Len(q) = n + 1 /\ q[n + 1] = x.pkt
      /\ \A i \in 1 .. n : q[i] = f[i].pkt
  BY <1>1, PayloadsType, AppendProperties
<1>3. /\ g \in Seq(Frame) /\ Len(g) = n + 1 /\ g[n + 1] = x
      /\ \A i \in 1 .. n : g[i] = f[i]
  BY AppendProperties
<1>4. /\ Payloads(g) \in Seq(Seq(Byte)) /\ Len(Payloads(g)) = n + 1
      /\ \A i \in 1 .. n + 1 : Payloads(g)[i] = g[i].pkt
  BY <1>3, PayloadsType
<1> HIDE DEF q, g, n
<1>5. \A i \in 1 .. n + 1 : Payloads(g)[i] = q[i]
  <2>1. TAKE i \in 1 .. n + 1
  <2>2. CASE i = n + 1
    BY <1>2, <1>3, <1>4, <2>2
  <2>3. CASE i \in 1 .. n
    BY <1>2, <1>3, <1>4, <2>3
  <2>. QED  BY <1>1, <2>2, <2>3
<1>6. Payloads(g) = q
  BY <1>2, <1>4, <1>5, SeqEqual
<1>. QED  BY <1>6 DEF g, q

\* Releasing takes the head of the abstract queue.
LEMMA PayloadsTail ==
  ASSUME NEW f \in Seq(Frame), f # <<>>
  PROVE  /\ Payloads(f) # <<>> /\ Head(Payloads(f)) = f[1].pkt
         /\ Payloads(Tail(f)) = Tail(Payloads(f))
<1> DEFINE q == Payloads(f)
           n == Len(f)
<1>1. n \in Nat /\ n >= 1
  OBVIOUS
<1>2. /\ q \in Seq(Seq(Byte)) /\ Len(q) = n
      /\ \A i \in 1 .. n : q[i] = f[i].pkt
  BY PayloadsType
<1> HIDE DEF q
<1>3. q # <<>> /\ Head(q) = f[1].pkt
  BY <1>1, <1>2
<1>4. /\ Tail(f) \in Seq(Frame) /\ Len(Tail(f)) = n - 1
      /\ \A i \in 1 .. n - 1 : Tail(f)[i] = f[i + 1]
  BY <1>1, HeadTailProperties
<1>5. /\ Tail(q) \in Seq(Seq(Byte)) /\ Len(Tail(q)) = n - 1
      /\ \A i \in 1 .. n - 1 : Tail(q)[i] = q[i + 1]
  BY <1>1, <1>2, <1>3, HeadTailProperties
<1>6. /\ Payloads(Tail(f)) \in Seq(Seq(Byte)) /\ Len(Payloads(Tail(f))) = n - 1
      /\ \A i \in 1 .. n - 1 : Payloads(Tail(f))[i] = Tail(f)[i].pkt
  BY <1>4, PayloadsType
<1>7. \A i \in 1 .. n - 1 : i + 1 \in 1 .. n
  BY <1>1
<1>8. \A i \in 1 .. n - 1 : Payloads(Tail(f))[i] = Tail(q)[i]
  BY <1>2, <1>4, <1>5, <1>6, <1>7
<1>9. Payloads(Tail(f)) = Tail(q)
  BY <1>5, <1>6, <1>8, SeqEqual
<1>. QED  BY <1>3, <1>9 DEF q

-----------------------------------------------------------------------------
(* Without a lap every step is a step of the queue or invisible to it. *)

\* A ring without unread frames is the one whose indices are equal.
LEMMA EmptyRing ==
  ASSUME TypeOK, RingSound
  PROVE  fifo = <<>> <=> wIdx = rIdx
<1>1. Used(wIdx, rIdx) = 0 <=> wIdx = rIdx
  BY WrapSubZero DEF Used, TypeOK
<1>2. fifo # <<>> => Used(wIdx, rIdx) >= 2
  <2>1. SUFFICES ASSUME fifo # <<>>  PROVE Used(wIdx, rIdx) >= 2
    OBVIOUS
  <2>2. 1 \in 1 .. Len(fifo) /\ FrameSize(fifo[1].pkt) <= Used(wIdx, rIdx)
    BY <2>1, OldestFrame DEF RingSound
  <2>. QED  BY <2>2, FrameType, SpanType, Sizes DEF Index
<1>. QED  BY <1>1, <1>2 DEF RingSound, FramesAbut

LEMMA FifoInit == Init => Fifo!Init
<1> SUFFICES ASSUME Init  PROVE Fifo!Init
  OBVIOUS
<1>1. 0 \in Index /\ WrapSub(0, 0) = 0
  BY Sizes, WrapSubCases DEF Index
<1>2. <<>> \in Seq(Frame) /\ Payloads(<<>>) = <<>>
  BY DEF Payloads
<1>. QED  BY <1>1, <1>2 DEF Init, Fifo!Init, Used

\* The room the full check of rb_write computes.
LEMMA FreeIsRest ==
  ASSUME TypeOK, SpanFits
  PROVE  /\ Used(wIdx, rIdx) \in Nat /\ Used(wIdx, rIdx) <= BufSize
         /\ Free(wIdx, rIdx) = BufSize - Used(wIdx, rIdx)
<1> DEFINE U == Used(wIdx, rIdx)
<1>1. U \in Index /\ U \in Nat /\ U <= BufSize
  BY SpanType, Sizes DEF SpanFits, Index
<1> HIDE DEF U
<1>2. BufSize \in Index /\ BufSize >= U
  BY <1>1, Sizes DEF Index
<1>3. WrapSub(BufSize, U) = BufSize - U
  BY <1>1, <1>2, WrapSubCases
<1>. QED  BY <1>1, <1>3 DEF U, Free

LEMMA RefuseRefines ==
  ASSUME TypeOK, RingSound, NEW p \in Packets, RbWriteRefuse(p)
  PROVE  Fifo!Refuse(p)
<1>1. Free(wIdx, rIdx) = BufSize - Used(wIdx, rIdx)
      /\ Used(wIdx, rIdx) \in Nat
  BY FreeIsRest DEF RingSound
<1>2. FrameSize(p) \in Nat
  BY RingAssumption DEF FrameSize
<1>3. Used(wIdx, rIdx) + FrameSize(p) > BufSize
  BY <1>1, <1>2, Sizes DEF RbWriteRefuse
<1>4. UNCHANGED <<wIdx, rIdx, fifo, rRet>> /\ wRet' = FALSE
  BY DEF RbWriteRefuse, consVars
<1>. QED  BY <1>3, <1>4 DEF Fifo!Refuse, Fifo!FrameSize, FrameSize

LEMMA PublishRefines ==
  ASSUME TypeOK, RingSound, RbWritePublish
  PROVE  wPkt \in Packets /\ Fifo!Send(wPkt)
<1> DEFINE U == Used(wIdx, rIdx)
           F == FrameSize(wPkt)
<1>1. wPkt \in Packets /\ wIdx \in Index /\ rIdx \in Index
  BY DEF RbWritePublish, TypeOK
<1>2. U \in Nat /\ F \in Nat /\ U + F <= BufSize
  BY SpanType, Sizes DEF RbWritePublish, Span, RingSound, SpanFits, Index
<1>3. Used(wIdx', rIdx') = U + F
  <2>1. WrapSub(WrapAdd(wIdx, F), rIdx) = WrapSub(wIdx, rIdx) + F
    BY <1>1, <1>2, Sizes, WrapSubShift DEF Used
  <2>. QED  BY <2>1 DEF RbWritePublish, Used
<1>4. Payloads(fifo') = Append(Payloads(fifo), wPkt)
  <2>1. [pkt |-> wPkt, at |-> wIdx] \in Frame /\ fifo \in Seq(Frame)
    BY DEF TypeOK, Frame
  <2>. QED  BY <2>1, PayloadsAppend DEF RbWritePublish
<1>5. wRet' = TRUE /\ rRet' = rRet
  BY DEF RbWritePublish, consVars
<1>. QED
  BY <1>1, <1>2, <1>3, <1>4, <1>5 DEF Fifo!Send, Fifo!FrameSize, FrameSize

LEMMA EmptyRefines ==
  ASSUME TypeOK, RingSound, RbReadEmpty
  PROVE  Fifo!ReceiveNothing
<1>1. Payloads(fifo) = <<>>
  BY EmptyRing DEF RbReadEmpty, Payloads
<1>. QED  BY <1>1 DEF RbReadEmpty, prodVars, Fifo!ReceiveNothing

LEMMA ReleaseRefines ==
  ASSUME TypeOK, RingSound, RbReadOversize \/ RbReadDone
  PROVE  Fifo!Receive
<1> DEFINE U == Used(wIdx, rIdx)
           p == fifo[1].pkt
<1>1. Release /\ rPc = "copy"
  BY DEF RbReadOversize, RbReadDone
<1>2. /\ fifo # <<>> /\ pktLen = Len(p) /\ Len(out) <= pktLen
      /\ \A j \in 1 .. Len(out) : out[j] = p[j]
  BY <1>1 DEF RingSound, ConsumerCopied
<1>3. p \in Seq(Byte) /\ out \in Seq(Byte) /\ FrameSize(p) <= U
  BY <1>2, OldestFrame, FrameType DEF RingSound, TypeOK
<1>4. FrameSize(p) = 2 + pktLen /\ FrameSize(p) \in Nat
  BY <1>2, <1>3 DEF FrameSize
<1>5. Used(wIdx', rIdx') = U - FrameSize(p)
  <2>1. WrapSub(wIdx, WrapAdd(rIdx, FrameSize(p))) = U - FrameSize(p)
    BY <1>3, <1>4, WrapSubShift DEF TypeOK, Used
  <2>. QED  BY <1>1, <1>4, <2>1 DEF Release, Used
<1>6. /\ Payloads(fifo) # <<>> /\ Head(Payloads(fifo)) = p
      /\ Payloads(fifo') = Tail(Payloads(fifo))
  <2>1. fifo' = Tail(fifo) /\ fifo \in Seq(Frame)
    BY <1>1, <1>2 DEF Release, TypeOK
  <2>. QED  BY <1>2, <2>1, PayloadsTail
<1>7. rRet' = IF Len(p) <= OutLen THEN p ELSE None
  <2>1. CASE RbReadOversize
    BY <1>2, <1>3, <2>1, RingAssumption DEF RbReadOversize
  <2>2. CASE RbReadDone
    <3>1. Len(out) = Len(p) /\ Len(p) <= OutLen /\ rRet' = out
      BY <1>2, <2>2 DEF RbReadDone
    <3> HIDE DEF p
    <3>2. out = p
      BY <1>2, <1>3, <3>1, SeqEqual
    <3>. QED  BY <3>1, <3>2
  <2>. QED  BY <2>1, <2>2
<1>8. wRet' = wRet
  BY <1>1 DEF Release, prodVars
<1> HIDE DEF p, U
<1>. QED
  BY <1>5, <1>6, <1>7, <1>8 DEF Fifo!Receive, Fifo!FrameSize, FrameSize, U

LEMMA FifoNext ==
  TypeOK /\ RingInv /\ ~lapped /\ [Next]_vars => [Fifo!Next]_(Fifo!fifoVars)
<1> SUFFICES ASSUME TypeOK, RingSound, [Next]_vars
             PROVE  Fifo!Next \/ UNCHANGED Fifo!fifoVars
  BY DEF RingInv
<1>1. ASSUME UNCHANGED <<wIdx, rIdx, fifo, wRet, rRet>>
      PROVE  UNCHANGED Fifo!fifoVars
  BY <1>1 DEF Fifo!fifoVars
<1>2. ASSUME NEW p \in Packets, RbWriteRefuse(p)
      PROVE  Fifo!Next
  BY <1>2, RefuseRefines DEF Fifo!Next
<1>3. ASSUME NEW p \in Packets, RbWriteAccept(p)
      PROVE  UNCHANGED Fifo!fifoVars
  BY <1>1, <1>3 DEF RbWriteAccept, consVars
<1>4. CASE RbWritePublish
  BY <1>4, PublishRefines DEF Fifo!Next
<1>5. CASE RbReadEmpty
  BY <1>5, EmptyRefines DEF Fifo!Next
<1>6. CASE RbReadOversize \/ RbReadDone
  BY <1>6, ReleaseRefines DEF Fifo!Next
<1>7. CASE RbWriteByte \/ RbReadBegin \/ RbReadLo \/ RbReadHi \/ RbReadByte
  BY <1>1, <1>7 DEF RbWriteByte, RbReadBegin, RbReadLo, RbReadHi, RbReadByte,
                    prodVars, consVars
<1>8. CASE UNCHANGED vars
  BY <1>1, <1>8 DEF vars, prodVars, consVars
<1>. QED
  BY <1>2, <1>3, <1>4, <1>5, <1>6, <1>7, <1>8 DEF Next, Producer, Consumer

\* Behaviours of rb_write and rb_read in which no frame laps an unread one are
\* those of a packet queue.
THEOREM RingIsFifo == Spec /\ []~lapped => ImplementsFifo
  BY FifoInit, FifoNext, TypeCorrect, RingCorrect, PTL
     DEF Spec, ImplementsFifo, Fifo!Spec

-----------------------------------------------------------------------------
(* Without the history variable: how short a backlog has to be. *)

LEMMA ShortBacklogStep ==
  ASSUME TypeOK, BacklogShortAtWrap', ~lapped, [Next]_vars
  PROVE  ~lapped'
<1>1. ASSUME NEW p \in Packets, RbWriteAccept(p)
      PROVE  ~lapped'
  <2>1. Span' = Used(wIdx, rIdx) + FrameSize(p) /\ rIdx' = rIdx
    BY <1>1 DEF RbWriteAccept, consVars, Span
  <2>2. Used(wIdx, rIdx) \in Int /\ FrameSize(p) \in Int /\ WrapGap \in Int
    BY SpanType, Sizes, RingAssumption DEF FrameSize, WrapGap, Index
  <2>3. WrapGap' = WrapGap
    BY DEF WrapGap
  <2>4. ~Laps(FrameSize(p))
    BY <2>1, <2>2, <2>3 DEF BacklogShortAtWrap, Laps
  <2>. QED  BY <1>1, <2>4 DEF RbWriteAccept
<1>2. CASE \E p \in Packets : RbWriteRefuse(p)
  BY <1>2 DEF RbWriteRefuse
<1>3. CASE RbWriteByte \/ RbWritePublish \/ Consumer
  BY <1>3 DEF RbWriteByte, RbWritePublish, Consumer, RbReadEmpty, RbReadBegin,
              RbReadLo, RbReadHi, RbReadByte, RbReadOversize, RbReadDone, Release
<1>4. CASE UNCHANGED vars
  BY <1>4 DEF vars
<1>. QED  BY <1>1, <1>2, <1>3, <1>4 DEF Next, Producer

\* How far the wrap defect of rb_write reaches: as long as the bytes in use never
\* exceed WrapGap (6016 of 14328 in the crate) at a moment when they straddle the wrap
\* of the u32 indices, rb_write and rb_read are a packet queue and every read returns
\* the oldest packet whole.
THEOREM ShortBacklogIsFifo ==
  Spec /\ []BacklogShortAtWrap => ImplementsFifo /\ []ReadsNextPacket
<1>1. Init => ~lapped
  BY DEF Init
<1>2. Spec /\ []BacklogShortAtWrap => []~lapped
  BY <1>1, ShortBacklogStep, TypeCorrect, PTL DEF Spec
<1>3. ~lapped /\ DeliversOldest => ReadsNextPacket
  BY DEF DeliversOldest
<1>. QED  BY <1>2, <1>3, RingIsFifo, ReadsOldest, PTL
=============================================================================

-------------------------- MODULE UsbTransferProofs -------------------------
(***************************************************************************)
(* Proofs about UsbTransfer, for every size of the USB packets, every set  *)
(* of lengths and every number of packets and disconnects.                 *)
(***************************************************************************)
EXTENDS UsbTransfer, SequenceLemmas, TLAPS

-----------------------------------------------------------------------------
(* The pieces of a packet. *)

LEMMA Times ==
  ASSUME NEW m \in Nat \ {0}, NEW a \in Int, NEW b \in Int
  PROVE  /\ a < b => a * m < b * m
         /\ a <= b => a * m <= b * m
         /\ (a + 1) * m = (a * m) + m
         /\ a * m \in Int
         /\ a \in Nat => a * m \in Nat
  BY SMT

\* How many pieces of m bytes n bytes have, and how long the last one is.
LEMMA PiecesOf ==
  ASSUME NEW m \in Nat \ {0}, NEW n \in Nat \ {0}
  PROVE  LET k == (n + m - 1) \div m IN
         /\ k \in Nat \ {0}
         /\ (k - 1) * m < n /\ n <= k * m
         /\ n % m = 0 <=> n = k * m
<1> DEFINE k == (n + m - 1) \div m
           r == (n + m - 1) % m
<1>1. n + m - 1 = (m * k) + r /\ r \in 0 .. m - 1 /\ k \in Int
  BY SMT
<1>2. n <= k * m /\ (k - 1) * m < n /\ k * m = m * k
  <2>1. (k - 1) * m = (m * k) - m
    BY <1>1, SMT
  <2>2. k * m = m * k /\ m * k \in Int
    BY <1>1, SMT
  <2>. HIDE DEF k, r
  <2>. QED  BY <1>1, <2>1, <2>2
<1>3. k \in Nat \ {0}
  <2>. HIDE DEF k
  <2>1. CASE k <= 0
    <3>1. k * m <= 0 * m
      BY <1>1, <2>1, Times
    <3>. QED  BY <1>1, <1>2, <3>1
  <2>. QED  BY <1>1, <2>1
<1>4. n = (m * (n \div m)) + (n % m) /\ n % m \in 0 .. m - 1 /\ n \div m \in Int
  BY SMT
<1>5. ASSUME n % m = 0
      PROVE  n = k * m
  <2> DEFINE q == n \div m
  <2>. HIDE DEF k, q
  <2>1. n = q * m /\ q \in Int
    BY <1>4, <1>5, SMT DEF q
  <2>2. CASE q < k
    <3>1. q <= k - 1
      BY <1>3, <2>1, <2>2
    <3>2. q * m <= (k - 1) * m /\ q * m \in Int /\ (k - 1) * m \in Int
      BY <1>3, <2>1, <3>1, Times
    <3>. QED  BY <1>2, <2>1, <3>2
  <2>3. CASE q > k
    <3>1. k * m < q * m /\ k * m \in Int
      BY <1>3, <2>1, <2>3, Times
    <3>. QED  BY <1>2, <2>1, <3>1
  <2>. QED  BY <1>3, <2>1, <2>2, <2>3
<1>6. ASSUME n = k * m
      PROVE  n % m = 0
  <2> DEFINE q == n \div m
             c == n % m
  <2>. HIDE DEF k, q, c
  <2>1. n = (q * m) + c /\ q \in Int /\ c \in 0 .. m - 1
    BY <1>4, SMT DEF q, c
  <2>2. k * m = (q * m) + c
    BY <1>6, <2>1
  <2>3. CASE q < k
    <3>1. (q + 1) * m <= k * m /\ (q + 1) * m = (q * m) + m /\ q * m \in Int
      BY <1>3, <2>1, <2>3, Times
    <3>. QED  BY <2>1, <2>2, <3>1
  <2>4. CASE q > k
    <3>1. k * m < q * m /\ k * m \in Int /\ q * m \in Int
      BY <1>3, <2>1, <2>4, Times
    <3>. QED  BY <2>1, <2>2, <3>1
  <2>5. CASE q = k
    <3>1. k * m \in Int
      BY <1>3, Times
    <3>. QED  BY <2>1, <2>2, <2>5, <3>1 DEF c
  <2>. QED  BY <1>3, <2>1, <2>3, <2>4, <2>5
<1>. QED  BY <1>2, <1>3, <1>5, <1>6

Sized(packets) == \A p \in packets : p.len \in Nat \ {0}

LEMMA AllSized == Sized(InPackets) /\ Sized(OutPackets)
BY TransferAssumption DEF Sized, InPackets, OutPackets

\* chunks(64): pieces that lie one behind the other, all but the last full.
LEMMA PiecesAre ==
  ASSUME NEW packets, Sized(packets), NEW p \in packets
  PROVE  LET k == (p.len + MaxPacket - 1) \div MaxPacket
             t == Pieces(p) IN
         /\ k \in Nat \ {0} /\ t \in Seq(Chunks(packets)) /\ Len(t) = k
         /\ \A i \in 1 .. k : t[i].pkt = p /\ t[i].at = (i - 1) * MaxPacket
         /\ \A i \in 1 .. k - 1 : t[i].len = MaxPacket
         /\ p.len % MaxPacket = 0 <=> p.len = k * MaxPacket
         /\ IF p.len % MaxPacket = 0 THEN t[k].len = MaxPacket ELSE t[k].len < MaxPacket
<1> DEFINE m == MaxPacket
           n == p.len
           k == (n + m - 1) \div m
           t == Pieces(p)
<1>1. m \in Nat \ {0} /\ n \in Nat \ {0}
  BY TransferAssumption DEF Sized
<1>2. /\ k \in Nat \ {0}
      /\ (k - 1) * m < n /\ n <= k * m
      /\ n % m = 0 <=> n = k * m
  BY <1>1, PiecesOf
<1>3. t = [i \in 1 .. k |->
            [pkt |-> p, at |-> (i - 1) * m, len |-> Smaller(m, n - (i - 1) * m)]]
  BY DEF Pieces
<1> HIDE DEF m, n, k, t
<1>4. ASSUME NEW i \in 1 .. k
      PROVE  /\ (i - 1) * m \in Nat /\ (i - 1) * m < n
             /\ i < k => n - (i - 1) * m >= m
             /\ i = k => n - (i - 1) * m <= m
             /\ i = k => (n - (i - 1) * m = m <=> n = k * m)
  <2>1. i \in Nat /\ i - 1 \in Nat /\ k \in Nat /\ k - 1 \in Nat /\ m \in Nat
    BY <1>1, <1>2
  <2>2. /\ (i - 1) * m <= (k - 1) * m /\ (i - 1) * m \in Nat /\ (k - 1) * m \in Nat
        /\ i * m = ((i - 1) * m) + m
    <3>1. i = (i - 1) + 1
      BY <2>1
    <3>. QED  BY <1>1, <2>1, <3>1, Times
  <2>3. i < k => i * m <= (k - 1) * m
    BY <1>1, <2>1, Times
  <2>. QED  BY <1>1, <1>2, <2>1, <2>2, <2>3
<1>5. ASSUME NEW i \in 1 .. k
      PROVE  /\ t[i].pkt = p /\ t[i].at = (i - 1) * m
             /\ t[i] \in Chunks(packets)
             /\ i < k => t[i].len = m
             /\ i = k => IF n = k * m THEN t[i].len = m ELSE t[i].len < m
  <2> DEFINE a == (i - 1) * m
             l == Smaller(m, n - a)
  <2>1. /\ a \in Nat /\ a < n
        /\ i < k => n - a >= m
        /\ i = k => n - a <= m /\ (n - a = m <=> n = k * m)
    BY <1>4
  <2>2. t[i] = [pkt |-> p, at |-> a, len |-> l]
    BY <1>3
  <2> HIDE DEF a
  <2>3. /\ l \in 0 .. m /\ a + l <= n
        /\ i < k => l = m
        /\ i = k => IF n = k * m THEN l = m ELSE l < m
    BY <1>1, <1>2, <2>1 DEF Smaller
  <2> HIDE DEF l
  <2>4. t[i] \in Chunks(packets)
    BY <2>1, <2>2, <2>3 DEF Chunks, m, n
  <2>. QED  BY <2>2, <2>3, <2>4 DEF a, l
<1>6. t \in Seq(Chunks(packets)) /\ Len(t) = k
  BY <1>2, <1>3, <1>5
<1>7. \A i \in 1 .. k : t[i].pkt = p /\ t[i].at = (i - 1) * m
  BY <1>5
<1>8. \A i \in 1 .. k - 1 : t[i].len = m
  BY <1>2, <1>5
<1>9. IF n % m = 0 THEN t[k].len = m ELSE t[k].len < m
  <2>1. k \in 1 .. k
    BY <1>2
  <2>. QED  BY <1>2, <1>5, <2>1
<1>. QED  BY <1>2, <1>6, <1>7, <1>8, <1>9 DEF m, n, k, t

\* The writes of write_ep: the last one, and only that, is of fewer bytes than a
\* USB packet may have, whatever the length of the packet.
LEMMA TransferIs ==
  ASSUME NEW packets, Sized(packets), NEW p \in packets
  PROVE  LET t == Transfer(p) IN
         /\ t \in Seq(Chunks(packets)) /\ Len(t) \in Nat \ {0}
         /\ \A i \in 1 .. Len(t) : t[i].pkt = p /\ t[i].at = (i - 1) * MaxPacket
         /\ \A i \in 1 .. Len(t) - 1 : t[i].len = MaxPacket
         /\ t[Len(t)].len < MaxPacket
<1> DEFINE k == (p.len + MaxPacket - 1) \div MaxPacket
           s == Pieces(p)
           t == Transfer(p)
<1>1. /\ k \in Nat \ {0} /\ s \in Seq(Chunks(packets)) /\ Len(s) = k
      /\ \A i \in 1 .. k : s[i].pkt = p /\ s[i].at = (i - 1) * MaxPacket
      /\ \A i \in 1 .. k - 1 : s[i].len = MaxPacket
      /\ p.len % MaxPacket = 0 <=> p.len = k * MaxPacket
      /\ IF p.len % MaxPacket = 0 THEN s[k].len = MaxPacket ELSE s[k].len < MaxPacket
  BY PiecesAre
<1>2. t = IF p.len % MaxPacket = 0 THEN Append(s, ZeroLength(p)) ELSE s
  BY DEF Transfer
<1>3. MaxPacket \in Nat \ {0} /\ p.len \in Nat \ {0}
  BY TransferAssumption DEF Sized
<1> HIDE DEF k, s, t
<1>4. CASE p.len % MaxPacket = 0
  <2>1. ZeroLength(p) \in Chunks(packets) /\ ZeroLength(p).len = 0
        /\ ZeroLength(p).pkt = p /\ ZeroLength(p).at = p.len
    BY <1>3 DEF ZeroLength, Chunks
  <2>2. /\ t \in Seq(Chunks(packets)) /\ Len(t) = k + 1
        /\ \A i \in 1 .. k : t[i] = s[i]
        /\ t[k + 1] = ZeroLength(p)
    BY <1>1, <1>2, <1>4, <2>1, AppendProperties
  <2>3. \A i \in 1 .. k : s[i].len = MaxPacket
    BY <1>1, <1>4
  <2>4. ASSUME NEW i \in 1 .. k + 1
        PROVE  t[i].pkt = p /\ t[i].at = (i - 1) * MaxPacket
    <3>1. CASE i \in 1 .. k
      BY <1>1, <2>2, <3>1
    <3>2. CASE i = k + 1
      <4>1. i - 1 = k
        BY <1>1, <3>2
      <4>. QED  BY <1>1, <1>4, <2>1, <2>2, <3>2, <4>1
    <3>. QED  BY <1>1, <3>1, <3>2
  <2>. QED  BY <1>1, <1>3, <2>1, <2>2, <2>3, <2>4 DEF t
<1>5. CASE p.len % MaxPacket # 0
  BY <1>1, <1>2, <1>5 DEF t
<1>. QED  BY <1>4, <1>5

-----------------------------------------------------------------------------
(* Types. *)

LEMMA UsbTypeInit == Init => TypeOK
<1> SUFFICES ASSUME Init  PROVE TypeOK
  OBVIOUS
<1>1. ChannelBits("Off") \in BOOLEAN \X BOOLEAN \X BOOLEAN
  BY DEF ChannelBits
<1>2. \A S : <<>> \in Seq(S)
  OBVIOUS
<1>3. /\ inEp \in [Endpoints -> Chunks(InPackets) \cup {None}]
      /\ partial \in [Endpoints -> Seq(Chunks(InPackets))]
      /\ hostGot \in [Endpoints -> Seq(Seq(Chunks(InPackets)))]
  BY <1>2 DEF Init
<1>4. Len(netToHost) <= Depth /\ hostAcls \in 0 .. MaxOut /\ resets \in 0 .. MaxResets
  BY TransferAssumption DEF Init
<1>. QED  BY <1>1, <1>2, <1>3, <1>4 DEF Init, TypeOK

LEMMA UsbTypeNext == TypeOK /\ [Next]_vars => TypeOK'
<1> SUFFICES ASSUME TypeOK, [Next]_vars
             PROVE  TypeOK'
  OBVIOUS
<1> USE DEF TypeOK, busVars, inVars, outVars, ledVars
<1>0. \A S, s : s \in Seq(S) => Len(s) \in Nat
  OBVIOUS
<1>1. CASE Connect
  BY <1>1 DEF Connect
<1>2. CASE Disconnect
  <2>1. resets' \in 0 .. MaxResets
    BY <1>2, TransferAssumption DEF Disconnect
  <2>2. lost' \subseteq InPackets
    BY <1>2 DEF Disconnect, Chunks
  <2>3. Range(hostOut) \subseteq Chunks(OutPackets)
    BY RangeOfSeq
  <2>4. outLost' \subseteq Chunks(OutPackets)
    BY <1>2, <2>3 DEF Disconnect
  <2>5. \A S : <<>> \in Seq(S)
    OBVIOUS
  <2>6. inEp' \in [Endpoints -> Chunks(InPackets) \cup {None}]
        /\ partial' \in [Endpoints -> Seq(Chunks(InPackets))]
    BY <1>2, <2>5 DEF Disconnect
  <2>. QED  BY <1>2, <2>1, <2>2, <2>4, <2>5, <2>6 DEF Disconnect
<1>3. ASSUME NEW p \in InPackets, Enqueue(p)
      PROVE  TypeOK'
  <2>1. /\ netToHost' \in Seq(InPackets) /\ Len(netToHost') = Len(netToHost) + 1
        /\ sent' \in Seq(InPackets)
    BY <1>3, Appended DEF Enqueue
  <2>2. Len(netToHost') <= Depth
    BY <1>0, <1>3, <2>1, TransferAssumption DEF Enqueue
  <2>. QED  BY <1>3, <2>1, <2>2 DEF Enqueue
<1>4. CASE WriteEnabled
  BY <1>4 DEF WriteEnabled, Signal
<1>5. CASE WriteReceive
  <2>1. /\ Head(netToHost) \in InPackets /\ Tail(netToHost) \in Seq(InPackets)
        /\ Len(Tail(netToHost)) = Len(netToHost) - 1
    BY <1>5, Taken DEF WriteReceive
  <2>2. 1 \in 1 .. Len(Transfer(Head(netToHost)))
    BY <2>1, TransferIs, AllSized
  <2>3. Len(Tail(netToHost)) <= Depth
    BY <1>0, <2>1, TransferAssumption
  <2>. QED  BY <1>5, <2>1, <2>2, <2>3 DEF WriteReceive
<1>6. ASSUME EpWrite
      PROVE  /\ inEp' \in [Endpoints -> Chunks(InPackets) \cup {None}]
             /\ wrPkt \in InPackets /\ wrNext \in 1 .. Len(Transfer(wrPkt))
             /\ Len(Transfer(wrPkt)) \in Nat
  <2>1. wrPkt \in InPackets /\ wrNext \in 1 .. Len(Transfer(wrPkt))
    BY <1>6 DEF EpWrite
  <2>2. Transfer(wrPkt) \in Seq(Chunks(InPackets)) /\ Len(Transfer(wrPkt)) \in Nat
    BY <2>1, TransferIs, AllSized
  <2>3. Transfer(wrPkt)[wrNext] \in Chunks(InPackets)
    BY <2>1, <2>2, ElementOfSeq
  <2>. QED  BY <1>6, <2>1, <2>2, <2>3 DEF EpWrite
<1>7. CASE WriteChunk
  <2>1. wrNext' \in 1 .. Len(Transfer(wrPkt))
    BY <1>6, <1>7 DEF WriteChunk
  <2>. QED  BY <1>6, <1>7, <2>1 DEF WriteChunk, EpWrite
<1>8. CASE WriteDone
  BY <1>6, <1>8 DEF WriteDone
<1>9. CASE WriteFailed
  BY <1>9 DEF WriteFailed, Signal
<1>10. ASSUME NEW e \in Endpoints, HostTakes(e)
       PROVE  TypeOK'
  <2> DEFINE all == Append(partial[e], inEp[e])
  <2>1. all \in Seq(Chunks(InPackets))
    BY <1>10, Appended DEF HostTakes
  <2>2. Append(hostGot[e], all) \in Seq(Seq(Chunks(InPackets)))
    BY <2>1, Appended
  <2>3. <<>> \in Seq(Chunks(InPackets))
    OBVIOUS
  <2> HIDE DEF all
  <2>4. /\ inEp' = [inEp EXCEPT ![e] = None]
        /\ hostGot' = hostGot \/ hostGot' = [hostGot EXCEPT ![e] = Append(hostGot[e], all)]
        /\ partial' = [partial EXCEPT ![e] = <<>>] \/ partial' = [partial EXCEPT ![e] = all]
    BY <1>10 DEF HostTakes, all
  <2>5. /\ inEp' \in [Endpoints -> Chunks(InPackets) \cup {None}]
        /\ hostGot' \in [Endpoints -> Seq(Seq(Chunks(InPackets)))]
        /\ partial' \in [Endpoints -> Seq(Chunks(InPackets))]
    BY <2>1, <2>2, <2>3, <2>4
  <2>. QED  BY <1>10, <2>5 DEF HostTakes
<1>11. ASSUME NEW p \in OutPackets, HostSends(p)
       PROVE  TypeOK'
  <2>1. PICK t \in HostTransfers(p) : hostOut' = t /\ outSent' = outSent \cup Range(t)
    BY <1>11 DEF HostSends
  <2>2. t \in Seq(Chunks(OutPackets))
    BY TransferIs, PiecesAre, AllSized DEF HostTransfers
  <2>3. Range(t) \subseteq Chunks(OutPackets)
    BY <2>2, RangeOfSeq
  <2>4. hostAcls' \in 0 .. MaxOut
    BY <1>11, TransferAssumption DEF HostSends, OutPackets
  <2>. QED  BY <1>11, <2>1, <2>2, <2>3, <2>4 DEF HostSends
<1>12. CASE HostPuts
  BY <1>12, Taken DEF HostPuts
<1>13. CASE ReadEnabled
  BY <1>13 DEF ReadEnabled
<1>14. CASE ReadAcl
  <2>1. toNet' \in Seq(Chunks(OutPackets))
    BY <1>14, Appended DEF ReadAcl
  <2>. QED  BY <1>14, <2>1 DEF ReadAcl
<1>15. CASE ReadDisabled
  BY <1>15 DEF ReadDisabled
<1>16. CASE LedTask
  <2>1. \A c \in {"Off", "Blue", "Yellow"} : ChannelBits(c) \in BOOLEAN \X BOOLEAN \X BOOLEAN
    BY DEF ChannelBits
  <2>. QED  BY <1>16, <2>1 DEF LedTask, LedStart, LedShow
<1>17. CASE UNCHANGED vars
  BY <1>17 DEF vars
<1>. QED
  BY <1>1, <1>2, <1>3, <1>4, <1>5, <1>7, <1>8, <1>9, <1>10, <1>11, <1>12, <1>13,
     <1>14, <1>15, <1>16, <1>17
     DEF Next, WriteTask, ReadTask

\* Each variable of the endpoints and their tasks stays in its range: write_ep and
\* the host's driver cut no USB packet that is too long or reaches beyond the end.
THEOREM UsbTypeCorrect == Spec => []TypeOK
  BY UsbTypeInit, UsbTypeNext, PTL DEF Spec

-----------------------------------------------------------------------------
(* The LED. *)

\* The colour that the writer signalled last.
WriterColour == IF wrPc = "wait" THEN "Yellow" ELSE "Blue"

\* It is waiting to be shown, or shown.
LedFollows ==
  /\ ledSignal \in {None, WriterColour}
  /\ ledSignal = None => ledPc = "wait" /\ lit = ChannelBits(WriterColour)

LEMMA LedNext == TypeOK /\ LedFollows /\ [Next]_vars => LedFollows'
<1> SUFFICES ASSUME TypeOK, LedFollows, [Next]_vars
             PROVE  LedFollows'
  OBVIOUS
<1> USE DEF LedFollows, WriterColour, ledVars
<1>0. None \notin {"Blue", "Yellow"}
  BY TransferAssumption
<1>1. ASSUME wrPc' = wrPc, UNCHANGED ledVars
      PROVE  LedFollows'
  BY <1>1
<1>2. CASE WriteEnabled
  BY <1>0, <1>2 DEF WriteEnabled, Signal
<1>3. CASE WriteReceive
  BY <1>3 DEF WriteReceive
<1>4. CASE WriteChunk
  BY <1>1, <1>4 DEF WriteChunk
<1>5. CASE WriteDone
  BY <1>5 DEF WriteDone, EpWrite
<1>6. CASE WriteFailed
  BY <1>0, <1>6 DEF WriteFailed, Signal
<1>7. CASE LedTask
  BY <1>0, <1>7 DEF LedTask, LedStart, LedShow, inVars
<1>8. CASE Connect \/ Disconnect \/ HostPuts \/ ReadTask \/ UNCHANGED vars
  BY <1>1, <1>8
     DEF Connect, Disconnect, HostPuts, ReadTask, ReadEnabled, ReadAcl, ReadDisabled, vars, inVars
<1>9. ASSUME NEW p, Enqueue(p) \/ HostSends(p)
      PROVE  LedFollows'
  BY <1>1, <1>9 DEF Enqueue, HostSends, inVars
<1>10. ASSUME NEW e, HostTakes(e)
       PROVE  LedFollows'
  BY <1>1, <1>10 DEF HostTakes
<1>. QED  BY <1>2, <1>3, <1>4, <1>5, <1>6, <1>7, <1>8, <1>9, <1>10 DEF Next, WriteTask

\* The LED lags behind the writer by a signal at most: once led_task has taken it,
\* the colour is that of what the writer does.
THEOREM LedIsTrue == Spec => []LedTellsWriter
<1>1. Init => LedFollows
  BY TransferAssumption DEF Init, LedFollows, WriterColour
<1>2. TypeOK /\ LedFollows => LedTellsWriter
  BY DEF LedFollows, WriterColour, LedTellsWriter
<1>. QED  BY <1>1, <1>2, LedNext, UsbTypeCorrect, PTL DEF Spec
-----------------------------------------------------------------------------
(* The ACL data of the host. *)

Ordered(s) == \A i, j \in DOMAIN s : i < j => Before(s[i], s[j])

\* Each piece the host has sent is one of a packet it has begun.
OutInv ==
  /\ OutPiecesInOrder
  /\ outLost \subseteq outSent
  /\ \A c \in outSent : c.pkt.id <= hostAcls

LEMMA OrderedJoined ==
  ASSUME NEW S, NEW s \in Seq(S), NEW t \in Seq(S)
  PROVE  Ordered(s \o t) <=>
           /\ Ordered(s) /\ Ordered(t)
           /\ \A c \in Range(s), d \in Range(t) : Before(c, d)
<1> DEFINE R == {r \in S \X S : Before(r[1], r[2])}
<1>1. \A c, d \in S : <<c, d>> \in R <=> Before(c, d)
  OBVIOUS
<1> HIDE DEF R
<1>2. ASSUME NEW u \in Seq(S)
      PROVE  Ordered(u) <=> Chain(R, u)
  <2>1. \A i \in DOMAIN u : u[i] \in S
    OBVIOUS
  <2>. QED  BY <1>1, <2>1 DEF Ordered, Chain
<1>3. Range(s) \subseteq S /\ Range(t) \subseteq S
  BY DEF Range
<1>4. s \o t \in Seq(S)
  BY Joined
<1>. QED  BY <1>1, <1>2, <1>3, <1>4, ChainJoined

\* What the host sends of a packet: its pieces, one behind the other.
LEMMA HostTransferIs ==
  ASSUME NEW p \in OutPackets, NEW t \in HostTransfers(p)
  PROVE  /\ t \in Seq(Chunks(OutPackets))
         /\ \A c \in Range(t) : c.pkt = p
         /\ Ordered(t)
<1>1. /\ t \in Seq(Chunks(OutPackets)) /\ Len(t) \in Nat
      /\ \A i \in 1 .. Len(t) : t[i].pkt = p /\ t[i].at = (i - 1) * MaxPacket
  <2>1. CASE t = Pieces(p)
    BY <2>1, PiecesAre, AllSized
  <2>2. CASE t = Transfer(p)
    BY <2>2, TransferIs, AllSized
  <2>. QED  BY <2>1, <2>2 DEF HostTransfers
<1>2. DOMAIN t = 1 .. Len(t)
  BY <1>1, LenProperties
<1>3. ASSUME NEW i \in 1 .. Len(t), NEW j \in 1 .. Len(t), i < j
      PROVE  Before(t[i], t[j])
  <2>1. (i - 1) * MaxPacket < (j - 1) * MaxPacket
    <3>1. i - 1 \in Int /\ j - 1 \in Int /\ i - 1 < j - 1
      BY <1>1, <1>3
    <3>. QED  BY <3>1, Times, TransferAssumption
  <2>. QED  BY <1>1, <2>1 DEF Before
<1>. QED  BY <1>1, <1>2, <1>3 DEF Ordered, Range

\* What the OUT endpoint holds, as a sequence.
Held == IF outEp # None THEN <<outEp>> ELSE <<>>

LEMMA StreamIs ==
  ASSUME TypeOK
  PROVE  /\ Held \in Seq(Chunks(OutPackets)) /\ Held \o hostOut \in Seq(Chunks(OutPackets))
         /\ toNet \in Seq(Chunks(OutPackets)) /\ hostOut \in Seq(Chunks(OutPackets))
         /\ OutStream = (toNet \o Held) \o hostOut
         /\ OutStream = toNet \o (Held \o hostOut)
         /\ OutStream \in Seq(Chunks(OutPackets))
         /\ Range(Held) = {outEp} \ {None}
<1>1. Held \in Seq(Chunks(OutPackets)) /\ Range(Held) = {outEp} \ {None}
  <2>1. CASE outEp = None
    BY <2>1 DEF Held, Range
  <2>2. CASE outEp # None
    <3>1. outEp \in Chunks(OutPackets) /\ Held = <<outEp>>
      BY <2>2 DEF TypeOK, Held
    <3>2. <<outEp>> \in Seq(Chunks(OutPackets)) /\ DOMAIN <<outEp>> = {1} /\ <<outEp>>[1] = outEp
      BY <3>1
    <3>3. Range(<<outEp>>) = {outEp}
      BY <3>2 DEF Range
    <3>. QED  BY <2>2, <3>1, <3>2, <3>3
  <2>. QED  BY <2>1, <2>2
<1>2. toNet \in Seq(Chunks(OutPackets)) /\ hostOut \in Seq(Chunks(OutPackets))
  BY DEF TypeOK
<1>3. OutStream = (toNet \o Held) \o hostOut
  BY DEF OutStream, Held
<1>4. toNet \o (Held \o hostOut) = (toNet \o Held) \o hostOut
  BY <1>1, <1>2, ConcatAssociative
<1>5. Held \o hostOut \in Seq(Chunks(OutPackets))
      /\ toNet \o (Held \o hostOut) \in Seq(Chunks(OutPackets))
  BY <1>1, <1>2, ConcatProperties
<1>. QED  BY <1>1, <1>2, <1>3, <1>4, <1>5

LEMMA OutInvInit == Init => OutInv
<1> SUFFICES ASSUME Init  PROVE OutInv
  OBVIOUS
<1>1. OutStream = <<>>
  BY DEF Init, OutStream
<1>. QED  BY <1>1 DEF Init, OutInv, OutPiecesInOrder, Range

\* A step that loses nothing, sends nothing and moves a piece only along the stream.
LEMMA StreamMoves ==
  ASSUME OutInv, UNCHANGED <<OutStream, hostAcls, outSent, outLost>>
  PROVE  OutInv'
BY DEF OutInv, OutPiecesInOrder, Before

LEMMA OutInvNext == TypeOK /\ TypeOK' /\ OutInv /\ [Next]_vars => OutInv'
<1> SUFFICES ASSUME TypeOK, TypeOK', OutInv, [Next]_vars
             PROVE  OutInv'
  OBVIOUS
<1> USE DEF outVars
<1> DEFINE S == Chunks(OutPackets)
<1>0. /\ toNet \in Seq(S) /\ hostOut \in Seq(S) /\ Held \in Seq(S) /\ Held \o hostOut \in Seq(S)
      /\ OutStream = (toNet \o Held) \o hostOut /\ OutStream = toNet \o (Held \o hostOut)
      /\ OutStream \in Seq(S) /\ Range(Held) = {outEp} \ {None}
  BY StreamIs
<1>a. ASSUME TypeOK'
      PROVE  OutStream' = (toNet' \o Held') \o hostOut'
  BY DEF OutStream, Held
<1>b. Ordered(OutStream) /\ Range(OutStream) = outSent \ outLost /\ outLost \subseteq outSent
  BY DEF OutInv, OutPiecesInOrder, Ordered
<1>c. ASSUME UNCHANGED outVars
      PROVE  OutInv'
  BY <1>c, StreamMoves DEF OutStream
<1>1. CASE Disconnect
  <2>1. /\ toNet' = toNet /\ hostOut' = <<>> /\ Held' = <<>> /\ hostAcls' = hostAcls
        /\ outSent' = outSent
        /\ outLost' = outLost \cup Range(hostOut) \cup Range(Held)
    BY <1>0, <1>1 DEF Disconnect, Held
  <2>2. OutStream' = toNet
    BY <1>0, <1>a, <2>1, ConcatEmptySeq
  <2>3. /\ Ordered(toNet)
        /\ \A c \in Range(toNet), d \in Range(Held \o hostOut) : Before(c, d)
        /\ Range(OutStream) = Range(toNet) \cup Range(Held \o hostOut)
        /\ Range(Held \o hostOut) = Range(Held) \cup Range(hostOut)
    BY <1>0, <1>b, OrderedJoined, Joined
  <2>4. Range(toNet) \cap Range(Held \o hostOut) = {}
    <3>1. \A c \in S : ~Before(c, c)
      <4>1. ASSUME NEW c \in S
            PROVE  c.pkt.id \in Int /\ c.at \in Int
        BY DEF Chunks, OutPackets
      <4>. QED  BY <4>1 DEF Before
    <3>2. Range(toNet) \subseteq S
      BY <1>0, RangeOfSeq
    <3>. QED  BY <2>3, <3>1, <3>2
  <2>5. Range(toNet) = outSent \ outLost'
    BY <1>b, <2>1, <2>3, <2>4
  <2>6. outLost' \subseteq outSent
    BY <1>b, <2>1, <2>3
  <2>7. Ordered(OutStream') /\ Range(OutStream') = outSent' \ outLost'
    BY <2>1, <2>2, <2>3, <2>5
  <2>. QED  BY <2>1, <2>6, <2>7 DEF OutInv, OutPiecesInOrder, Ordered, Before
<1>2. ASSUME NEW p \in OutPackets, HostSends(p)
      PROVE  OutInv'
  <2>1. PICK t \in HostTransfers(p) : hostOut' = t /\ outSent' = outSent \cup Range(t)
    BY <1>2 DEF HostSends
  <2>2. /\ hostOut = <<>> /\ p.id = hostAcls + 1 /\ hostAcls' = hostAcls + 1
        /\ toNet' = toNet /\ Held' = Held /\ outLost' = outLost
    BY <1>2 DEF HostSends, Held
  <2>3. t \in Seq(S) /\ Ordered(t) /\ \A c \in Range(t) : c.pkt = p
    BY HostTransferIs
  <2>4. OutStream = toNet \o Held /\ OutStream' = OutStream \o t
    <3>1. toNet \o Held \in Seq(S)
      BY <1>0, ConcatProperties
    <3>. QED  BY <1>0, <1>a, <2>1, <2>2, <3>1, ConcatEmptySeq
  <2>5. hostAcls \in Int /\ \A c \in outSent : c.pkt.id \in Int /\ c.pkt.id <= hostAcls
    <3>1. \A c \in S : c.pkt.id \in Int
      BY DEF Chunks, OutPackets
    <3>. QED  BY <3>1 DEF OutInv, TypeOK
  <2>6. \A c \in outSent, d \in Range(t) : Before(c, d)
    BY <2>2, <2>3, <2>5 DEF Before
  <2>7. Range(OutStream) \subseteq outSent
    BY <1>b
  <2>8. Ordered(OutStream \o t) /\ Range(OutStream \o t) = Range(OutStream) \cup Range(t)
    BY <1>0, <1>b, <2>3, <2>6, <2>7, OrderedJoined, Joined
  <2>9. Range(t) \cap outLost = {}
    <3>1. ASSUME NEW c \in Range(t), c \in outLost
          PROVE  FALSE
      BY <1>b, <2>2, <2>3, <2>5, <3>1
    <3>. QED  BY <3>1
  <2>10. Ordered(OutStream') /\ Range(OutStream') = outSent' \ outLost'
    BY <1>b, <2>1, <2>2, <2>4, <2>8, <2>9
  <2>11. outLost' \subseteq outSent'
    BY <1>b, <2>1, <2>2
  <2>12. \A c \in outSent' : c.pkt.id <= hostAcls'
    BY <2>1, <2>2, <2>3, <2>5
  <2>. QED  BY <2>10, <2>11, <2>12 DEF OutInv, OutPiecesInOrder, Ordered, Before
<1>3. CASE HostPuts
  <2>1. /\ hostOut # <<>> /\ Held = <<>> /\ Held' = <<Head(hostOut)>>
        /\ hostOut' = Tail(hostOut) /\ UNCHANGED <<toNet, hostAcls, outSent, outLost>>
    <3>1. Head(hostOut) \in S
      BY <1>0, <1>3, Taken DEF HostPuts
    <3>2. Head(hostOut) # None
      BY <3>1, TransferAssumption
    <3>. QED  BY <1>3, <3>2 DEF HostPuts, Held
  <2>2. Head(hostOut) \in S /\ Tail(hostOut) \in Seq(S) /\ <<Head(hostOut)>> \in Seq(S)
    BY <1>0, <2>1, Taken
  <2>3. OutStream = toNet \o hostOut
    BY <1>0, <2>1, ConcatEmptySeq
  <2>4. (toNet \o <<Head(hostOut)>>) \o Tail(hostOut) = toNet \o (<<Head(hostOut)>> \o Tail(hostOut))
    BY <1>0, <2>2, ConcatAssociative
  <2>5. <<Head(hostOut)>> \o Tail(hostOut) = hostOut
    BY <1>0, <2>1, HeadAndTail
  <2>6. OutStream' = OutStream
    BY <1>a, <2>1, <2>3, <2>4, <2>5
  <2>. QED  BY <2>1, <2>6, StreamMoves
<1>4. CASE ReadAcl
  <2>1. /\ outEp # None /\ Held = <<outEp>> /\ Held' = <<>> /\ toNet' = Append(toNet, outEp)
        /\ UNCHANGED <<hostOut, hostAcls, outSent, outLost>>
    BY <1>4 DEF ReadAcl, Held
  <2>2. outEp \in S
    BY <2>1 DEF TypeOK
  <2>3. toNet' = toNet \o <<outEp>> /\ toNet' \in Seq(S)
    BY <1>0, <2>1, <2>2, AppendIsConcat, Appended
  <2>4. OutStream' = (toNet \o <<outEp>>) \o hostOut
    BY <1>a, <2>1, <2>3, ConcatEmptySeq
  <2>. QED  BY <1>0, <2>1, <2>4, StreamMoves
<1>5. CASE ReadEnabled \/ ReadDisabled
  BY <1>5, StreamMoves DEF ReadEnabled, ReadDisabled, OutStream
<1>6. CASE Connect \/ WriteTask \/ LedTask \/ UNCHANGED vars
  BY <1>6, <1>c DEF Connect, WriteTask, WriteEnabled, WriteReceive, WriteChunk, WriteDone,
     WriteFailed, LedTask, LedStart, LedShow, vars
<1>7. ASSUME NEW p, Enqueue(p)
      PROVE  OutInv'
  BY <1>7, <1>c DEF Enqueue
<1>8. ASSUME NEW e, HostTakes(e)
      PROVE  OutInv'
  BY <1>8, <1>c DEF HostTakes
<1>. QED  BY <1>1, <1>2, <1>3, <1>4, <1>5, <1>6, <1>7, <1>8 DEF Next, ReadTask

\* usb_read_task misses no piece, forwards none twice and none of a session that
\* has ended: it empties the endpoint with each read, and a disconnect empties
\* the endpoint and the host's driver together.
THEOREM OutStreamInOrder == Spec => []OutPiecesInOrder
<1>1. OutInv => OutPiecesInOrder
  BY DEF OutInv
<1>. QED  BY <1>1, OutInvInit, OutInvNext, UsbTypeCorrect, PTL DEF Spec

-----------------------------------------------------------------------------
(* The refinement of UsbDelivery. *)

\* The first n USB packets of p.
First(p, n) == [i \in 1 .. n |-> Transfer(p)[i]]

\* What has reached an endpoint and is not yet part of a transfer of the host.
Begun(e) == IF inEp[e] = None THEN partial[e] ELSE Append(partial[e], inEp[e])

\* In a session these are the USB packets already written of the packet in hand, or
\* a whole transfer whose end the host has not taken; outside of it, none.
InStream(e) ==
  /\ ~usbUp => inEp[e] = None /\ partial[e] = <<>>
  /\ usbUp =>
       IF wrPc = "write" /\ wrPkt.ep = e /\ wrNext > 1
       THEN Begun(e) = First(wrPkt, wrNext - 1)
       ELSE \/ Begun(e) = <<>>
            \/ inEp[e] # None /\ \E q \in InPackets : q.ep = e /\ Begun(e) = Transfer(q)

Streams == \A e \in Endpoints : InStream(e)

LEMMA FirstIs ==
  ASSUME NEW p \in InPackets
  PROVE  /\ Len(Transfer(p)) \in Nat \ {0}
         /\ First(p, 0) = <<>> /\ First(p, Len(Transfer(p))) = Transfer(p)
         /\ Transfer(p)[1].pkt = p /\ Transfer(p) \in Seq(Chunks(InPackets))
         /\ \A n \in 1 .. Len(Transfer(p)) :
              /\ First(p, n) = Append(First(p, n - 1), Transfer(p)[n])
              /\ First(p, n) \in Seq(Chunks(InPackets)) /\ First(p, n) # <<>>
              /\ First(p, n - 1) \in Seq(Chunks(InPackets))
              /\ Transfer(p)[n] \in Chunks(InPackets) /\ Transfer(p)[n] # None
              /\ Transfer(p)[n].pkt = p
              /\ n < Len(Transfer(p)) => Transfer(p)[n].len = MaxPacket
              /\ n = Len(Transfer(p)) => Transfer(p)[n].len < MaxPacket
<1> DEFINE t == Transfer(p)
           k == Len(t)
           C == Chunks(InPackets)
<1>1. /\ t \in Seq(C) /\ k \in Nat \ {0}
      /\ \A i \in 1 .. k : t[i].pkt = p
      /\ \A i \in 1 .. k - 1 : t[i].len = MaxPacket
      /\ t[k].len < MaxPacket
  BY TransferIs, AllSized
<1>2. /\ \A i \in 1 .. k : t[i] \in C /\ t[i] # None
      /\ t = [i \in 1 .. k |-> t[i]]
  BY <1>1, ElementOfSeq, TransferAssumption
<1>3. \A n : First(p, n) = [i \in 1 .. n |-> t[i]]
  BY DEF First
<1> HIDE DEF t, C, k
<1>4. ASSUME NEW n \in 0 .. k
      PROVE  First(p, n) \in Seq(C) /\ Len(First(p, n)) = n
  <2>1. n \in Nat /\ 1 .. n \subseteq 1 .. k
    BY <1>1
  <2>2. First(p, n) \in [1 .. n -> C]
    BY <1>2, <1>3, <2>1
  <2>. QED  BY <2>1, <2>2
<1>5. First(p, 0) = <<>> /\ First(p, k) = t
  <2>1. First(p, 0) = <<>>
    BY <1>1, <1>4, EmptySeq
  <2>. QED  BY <1>2, <1>3, <2>1
<1>6. ASSUME NEW n \in 1 .. k
      PROVE  First(p, n) = Append(First(p, n - 1), t[n]) /\ First(p, n) # <<>>
  <2>1. n - 1 \in 0 .. k /\ n \in 0 .. k
    BY <1>1
  <2>2. First(p, n) \in Seq(C) /\ Len(First(p, n)) = n
        /\ First(p, n - 1) \in Seq(C) /\ Len(First(p, n - 1)) = n - 1
    BY <1>4, <2>1
  <2>3. \A i \in 1 .. n : First(p, n)[i] = t[i]
    BY <1>3
  <2>4. \A i \in 1 .. n - 1 : First(p, n - 1)[i] = t[i]
    BY <1>3
  <2> DEFINE A == Append(First(p, n - 1), t[n])
  <2>5. /\ A \in Seq(C) /\ Len(A) = n /\ A # <<>>
        /\ \A i \in 1 .. n - 1 : A[i] = First(p, n - 1)[i]
        /\ A[n] = t[n]
    <3>1. (n - 1) + 1 = n
      OBVIOUS
    <3>. QED  BY <1>2, <2>2, <3>1, AppendProperties
  <2> HIDE DEF A
  <2>6. \A i \in 1 .. n : A[i] = First(p, n)[i]
    BY <2>3, <2>4, <2>5
  <2>7. First(p, n) = A
    BY <2>2, <2>5, <2>6, SeqEqual
  <2>. QED  BY <2>5, <2>7 DEF A
<1>7. ASSUME NEW n \in 1 .. k
      PROVE  /\ n - 1 \in 0 .. k /\ n \in 0 .. k
             /\ n < k => t[n].len = MaxPacket
             /\ n = k => t[n].len < MaxPacket
  BY <1>1
<1>8. 1 \in 1 .. k
  BY <1>1
<1>. QED  BY <1>1, <1>2, <1>4, <1>5, <1>6, <1>7, <1>8 DEF t, k, C

LEMMA BegunIs ==
  ASSUME TypeOK, NEW e \in Endpoints
  PROVE  /\ inEp[e] \in Chunks(InPackets) \cup {None}
         /\ partial[e] \in Seq(Chunks(InPackets))
         /\ Begun(e) \in Seq(Chunks(InPackets))
         /\ inEp[e] = None => Begun(e) = partial[e]
         /\ inEp[e] # None => Begun(e) = Append(partial[e], inEp[e]) /\ Begun(e) # <<>>
<1>1. inEp[e] \in Chunks(InPackets) \cup {None} /\ partial[e] \in Seq(Chunks(InPackets))
  BY DEF TypeOK
<1>2. CASE inEp[e] = None
  BY <1>1, <1>2 DEF Begun
<1>3. CASE inEp[e] # None
  BY <1>1, <1>3, AppendProperties DEF Begun
<1>. QED  BY <1>1, <1>2, <1>3

\* The writer puts a USB packet into an endpoint that holds none, behind those it has
\* put there before, which the host has taken.
LEMMA WriteAppends ==
  ASSUME TypeOK, Streams, EpWrite, UNCHANGED partial, NEW e, e = wrPkt.ep
  PROVE  /\ wrPkt \in InPackets /\ e \in Endpoints
         /\ wrNext \in 1 .. Len(Transfer(wrPkt))
         /\ Begun(e)' = First(wrPkt, wrNext)
         /\ inEp' = [inEp EXCEPT ![e] = Transfer(wrPkt)[wrNext]]
         /\ inEp[e] = None /\ inEp'[e] # None
<1> DEFINE t == Transfer(wrPkt)
<1>1. /\ wrPkt \in InPackets /\ e \in Endpoints /\ wrNext \in 1 .. Len(t)
      /\ wrPc = "write" /\ usbUp /\ inEp[e] = None
      /\ inEp' = [inEp EXCEPT ![e] = t[wrNext]]
  BY DEF EpWrite, TypeOK, InPackets
<1>2. /\ Len(t) \in Nat \ {0} /\ First(wrPkt, 0) = <<>>
      /\ First(wrPkt, wrNext) = Append(First(wrPkt, wrNext - 1), t[wrNext])
      /\ t[wrNext] # None
  BY <1>1, FirstIs
<1>3. Begun(e) = First(wrPkt, wrNext - 1)
  <2>1. CASE wrNext > 1
    BY <1>1, <2>1 DEF Streams, InStream
  <2>2. CASE wrNext = 1
    <3>1. Begun(e) = <<>>
      BY <1>1, <2>2 DEF Streams, InStream
    <3>2. wrNext - 1 = 0
      BY <2>2
    <3>. QED  BY <1>2, <3>1, <3>2
  <2>. QED  BY <1>1, <1>2, <2>1, <2>2
<1>4. inEp'[e] = t[wrNext]
  BY <1>1 DEF TypeOK
<1> HIDE DEF t
<1>5. Begun(e)' = Append(partial[e], inEp'[e])
  BY <1>2, <1>4 DEF Begun
<1>6. Begun(e)' = First(wrPkt, wrNext)
  BY <1>1, <1>2, <1>3, <1>4, <1>5 DEF Begun
<1>. QED  BY <1>1, <1>2, <1>4, <1>6 DEF t

\* What the host takes: in the middle of a packet a full USB packet, as the writer
\* puts no other there; else the end of a transfer.
LEMMA TakenIs ==
  ASSUME TypeOK, Streams, NEW e \in Endpoints, usbUp, inEp[e] # None
  PROVE  /\ Begun(e) = Append(partial[e], inEp[e])
         /\ \/ /\ inEp[e].len = MaxPacket
               /\ wrPc = "write" /\ wrPkt.ep = e /\ wrNext > 1
            \/ /\ inEp[e].len < MaxPacket
               /\ ~(wrPc = "write" /\ wrPkt.ep = e /\ wrNext > 1)
               /\ inEp[e].pkt \in InPackets /\ inEp[e].pkt.ep = e
               /\ Begun(e) = Transfer(inEp[e].pkt)
<1> DEFINE C == Chunks(InPackets)
<1>1. inEp[e] \in C /\ partial[e] \in Seq(C) /\ Begun(e) = Append(partial[e], inEp[e])
      /\ Begun(e) # <<>>
  BY BegunIs
<1>2. CASE wrPc = "write" /\ wrPkt.ep = e /\ wrNext > 1
  <2> DEFINE n == wrNext - 1
             t == Transfer(wrPkt)
  <2>1. wrPkt \in InPackets /\ wrNext \in 1 .. Len(t) /\ Begun(e) = First(wrPkt, n)
    BY <1>2 DEF TypeOK, Streams, InStream
  <2>2. Len(t) \in Nat
    BY <2>1, FirstIs
  <2>3. n \in 1 .. Len(t) /\ n < Len(t)
    BY <1>2, <2>1, <2>2
  <2> HIDE DEF n
  <2>4. /\ First(wrPkt, n) = Append(First(wrPkt, n - 1), t[n])
        /\ t[n] \in C /\ First(wrPkt, n - 1) \in Seq(C) /\ t[n].len = MaxPacket
    BY <2>1, <2>3, FirstIs
  <2> HIDE DEF C, t
  <2>5. inEp[e] = t[n]
    <3>1. Append(partial[e], inEp[e]) = Append(First(wrPkt, n - 1), t[n])
      BY <1>1, <2>1, <2>4
    <3>. QED  BY <1>1, <2>4, <3>1, AppendInjective
  <2>. QED  BY <1>1, <1>2, <2>4, <2>5
<1>3. CASE ~(wrPc = "write" /\ wrPkt.ep = e /\ wrNext > 1)
  <2>1. PICK q \in InPackets : q.ep = e /\ Begun(e) = Transfer(q)
    BY <1>1, <1>3 DEF Streams, InStream
  <2> DEFINE t == Transfer(q)
             n == Len(t)
  <2>2. n \in Nat \ {0} /\ First(q, n) = t
    BY <2>1, FirstIs
  <2>3. n \in 1 .. Len(t) /\ n = Len(t)
    BY <2>2
  <2> HIDE DEF n
  <2>4. /\ First(q, n) = Append(First(q, n - 1), t[n])
        /\ t[n] \in C /\ First(q, n - 1) \in Seq(C) /\ t[n].len < MaxPacket /\ t[n].pkt = q
    BY <2>3, FirstIs
  <2> HIDE DEF C, t
  <2>5. inEp[e] = t[n]
    <3>1. Append(partial[e], inEp[e]) = Append(First(q, n - 1), t[n])
      BY <1>1, <2>1, <2>2, <2>4 DEF t
    <3>. QED  BY <1>1, <2>4, <3>1, AppendInjective
  <2>. QED  BY <1>1, <1>3, <2>1, <2>4, <2>5 DEF t
<1>. QED  BY <1>2, <1>3

LEMMA StreamsInit == Init => Streams
BY DEF Init, Streams, InStream

LEMMA StreamsNext == TypeOK /\ Streams /\ [Next]_vars => Streams'
<1> SUFFICES ASSUME TypeOK, Streams, [Next]_vars, NEW f \in Endpoints
             PROVE  InStream(f)'
  BY DEF Streams
<1> USE DEF busVars, inVars
<1>0. InStream(f) /\ inEp \in [Endpoints -> Chunks(InPackets) \cup {None}]
      /\ partial \in [Endpoints -> Seq(Chunks(InPackets))]
      /\ hostGot \in [Endpoints -> Seq(Seq(Chunks(InPackets)))]
  BY DEF Streams, TypeOK
<1>a. ASSUME inEp'[f] = inEp[f], partial'[f] = partial[f]
      PROVE  Begun(f)' = Begun(f)
  BY <1>a DEF Begun
<1>1. CASE Connect
  BY <1>0, <1>1 DEF Connect, InStream, Begun
<1>2. CASE Disconnect
  BY <1>2 DEF Disconnect, InStream
<1>3. ASSUME UNCHANGED <<usbUp, inEp, partial, wrPc, wrPkt, wrNext>>
      PROVE  InStream(f)'
  BY <1>0, <1>3, <1>a DEF InStream
<1>4. CASE WriteEnabled
  BY <1>0, <1>4, <1>a DEF WriteEnabled, InStream
<1>5. CASE WriteReceive
  BY <1>0, <1>5, <1>a DEF WriteReceive, InStream
<1>6. CASE WriteFailed
  BY <1>0, <1>6, <1>a DEF WriteFailed, InStream
<1>7. ASSUME EpWrite, UNCHANGED partial, wrPkt.ep # f
      PROVE  Begun(f)' = Begun(f) /\ inEp'[f] = inEp[f] /\ partial'[f] = partial[f]
  BY <1>0, <1>7, <1>a DEF EpWrite
<1>8. CASE WriteChunk
  <2>1. EpWrite /\ UNCHANGED <<usbUp, partial, wrPc, wrPkt>> /\ wrNext' = wrNext + 1
        /\ wrPc = "write" /\ usbUp
    BY <1>8 DEF WriteChunk, EpWrite
  <2>2. CASE wrPkt.ep = f
    <3>1. Begun(f)' = First(wrPkt, wrNext) /\ wrNext \in 1 .. Len(Transfer(wrPkt))
      BY <2>1, <2>2, WriteAppends
    <3>2. wrNext' - 1 = wrNext /\ wrNext' > 1
      BY <2>1, <3>1
    <3>. QED  BY <2>1, <2>2, <3>1, <3>2 DEF InStream
  <2>3. CASE wrPkt.ep # f
    BY <1>0, <1>7, <2>1, <2>3 DEF InStream
  <2>. QED  BY <2>2, <2>3
<1>9. CASE WriteDone
  <2>1. EpWrite /\ UNCHANGED <<usbUp, partial>> /\ wrPc' = "receive"
        /\ wrNext = Len(Transfer(wrPkt)) /\ wrPc = "write" /\ usbUp
    BY <1>9 DEF WriteDone, EpWrite
  <2>2. CASE wrPkt.ep = f
    <3>1. /\ Begun(f)' = First(wrPkt, wrNext) /\ wrPkt \in InPackets
          /\ inEp'[f] # None
      BY <2>1, <2>2, WriteAppends
    <3>2. Begun(f)' = Transfer(wrPkt)
      BY <2>1, <3>1, FirstIs
    <3>. QED  BY <2>1, <2>2, <3>1, <3>2 DEF InStream
  <2>3. CASE wrPkt.ep # f
    BY <1>0, <1>7, <2>1, <2>3 DEF InStream
  <2>. QED  BY <2>2, <2>3
<1>10. ASSUME NEW e \in Endpoints, HostTakes(e)
       PROVE  InStream(f)'
  <2>1. /\ UNCHANGED <<usbUp, wrPc, wrPkt, wrNext>> /\ usbUp /\ inEp[e] # None
        /\ inEp' = [inEp EXCEPT ![e] = None]
    BY <1>10 DEF HostTakes
  <2>2. CASE e = f
    <3>1. inEp'[f] = None /\ Begun(f)' = partial'[f]
      BY <1>0, <2>1, <2>2 DEF Begun
    <3>2. CASE inEp[e].len < MaxPacket
      <4>1. ~(wrPc = "write" /\ wrPkt.ep = e /\ wrNext > 1)
        <5>1. MaxPacket \in Nat
          BY TransferAssumption
        <5>. QED  BY <2>1, <3>2, <5>1, TakenIs
      <4>2. partial'[f] = <<>>
        <5>1. MaxPacket \in Nat
          BY TransferAssumption
        <5>. QED  BY <1>0, <1>10, <2>2, <3>2, <5>1 DEF HostTakes
      <4>. QED  BY <2>1, <2>2, <3>1, <4>1, <4>2 DEF InStream
    <3>3. CASE inEp[e].len = MaxPacket
      <4>0. MaxPacket \in Nat
        BY TransferAssumption
      <4>1. wrPc = "write" /\ wrPkt.ep = e /\ wrNext > 1 /\ Begun(f) = Append(partial[f], inEp[f])
        BY <2>1, <2>2, <3>3, <4>0, TakenIs
      <4>2. partial'[f] = Append(partial[f], inEp[f])
        BY <1>0, <1>10, <2>2, <3>3, <4>0 DEF HostTakes
      <4>3. Begun(f)' = Begun(f)
        BY <3>1, <4>1, <4>2
      <4>. QED  BY <1>0, <2>1, <2>2, <4>1, <4>3 DEF InStream
    <3>. QED  BY <1>10, <3>2, <3>3 DEF HostTakes
  <2>3. CASE e # f
    <3>1. inEp'[f] = inEp[f] /\ partial'[f] = partial[f]
      BY <1>0, <1>10, <2>3 DEF HostTakes
    <3>. QED  BY <1>0, <1>a, <2>1, <3>1 DEF InStream
  <2>. QED  BY <2>2, <2>3
<1>11. CASE HostPuts \/ ReadTask \/ LedTask \/ UNCHANGED vars
  BY <1>3, <1>11 DEF HostPuts, ReadTask, ReadEnabled, ReadAcl, ReadDisabled, LedTask,
     LedStart, LedShow, vars
<1>12. ASSUME NEW p, Enqueue(p) \/ HostSends(p)
       PROVE  InStream(f)'
  BY <1>3, <1>12 DEF Enqueue, HostSends
<1>. QED  BY <1>1, <1>2, <1>4, <1>5, <1>6, <1>8, <1>9, <1>10, <1>11, <1>12 DEF Next, WriteTask

\* The host has one more transfer.
LEMMA GotAppended ==
  ASSUME TypeOK, NEW e \in Endpoints, NEW t \in Seq(Chunks(InPackets)),
         hostGot' = [hostGot EXCEPT ![e] = Append(@, t)]
  PROVE  Got' = [Got EXCEPT ![e] = Append(@, Whole(t))]
<1> DEFINE S == Seq(Chunks(InPackets))
           W == {Whole(u) : u \in S}
           s == hostGot[e]
           n == Len(s)
           g == [i \in DOMAIN s |-> Whole(s[i])]
           h == [i \in DOMAIN Append(s, t) |-> Whole(Append(s, t)[i])]
<1>1. /\ hostGot \in [Endpoints -> Seq(S)] /\ s \in Seq(S)
      /\ hostGot' = [hostGot EXCEPT ![e] = Append(s, t)]
  BY DEF TypeOK
<1>2. /\ Append(s, t) \in Seq(S) /\ n \in Nat
      /\ DOMAIN s = 1 .. n /\ DOMAIN Append(s, t) = 1 .. n + 1
      /\ \A i \in 1 .. n : Append(s, t)[i] = s[i]
      /\ Append(s, t)[n + 1] = t
  BY <1>1, Appended
<1>3. g \in Seq(W) /\ Len(g) = n /\ \A i \in 1 .. n : g[i] = Whole(s[i])
  <2>1. \A i \in 1 .. n : s[i] \in S
    BY <1>1, <1>2, ElementOfSeq
  <2>. HIDE DEF S, n, s
  <2>. QED  BY <1>2, <2>1
<1>4. h \in Seq(W) /\ Len(h) = n + 1 /\ \A i \in 1 .. n + 1 : h[i] = Whole(Append(s, t)[i])
  <2>1. \A i \in 1 .. n + 1 : Append(s, t)[i] \in S
    BY <1>1, <1>2, ElementOfSeq
  <2>. HIDE DEF S, n, s
  <2>. QED  BY <1>2, <2>1
<1> HIDE DEF g, h
<1> DEFINE A == Append(g, Whole(t))
<1>5. /\ A \in Seq(W) /\ Len(A) = n + 1
      /\ \A i \in 1 .. n : A[i] = g[i]
      /\ A[n + 1] = Whole(t)
  <2>1. Whole(t) \in W
    OBVIOUS
  <2> HIDE DEF W, n, s
  <2>. QED  BY <1>3, <2>1, AppendProperties
<1>6. h = A
  <2> HIDE DEF W, A, n, s
  <2>1. \A i \in 1 .. n + 1 : h[i] = A[i]
    BY <1>2, <1>3, <1>4, <1>5
  <2>. QED  BY <1>4, <1>5, <2>1, SeqEqual
<1>7. Got = [f \in Endpoints |-> [i \in DOMAIN hostGot[f] |-> Whole(hostGot[f][i])]]
      /\ Got' = [f \in Endpoints |-> [i \in DOMAIN hostGot'[f] |-> Whole(hostGot'[f][i])]]
  BY DEF Got, Whole
<1>8. Got[e] = g /\ Got'[e] = h
  BY <1>1, <1>7 DEF g, h
<1>9. \A f \in Endpoints \ {e} : Got'[f] = Got[f]
  BY <1>1, <1>7
<1> HIDE DEF s, A
<1>10. Got' = [Got EXCEPT ![e] = A]
  BY <1>6, <1>7, <1>8, <1>9
<1>. QED  BY <1>8, <1>10 DEF A

LEMMA DeliveryInit == Init => Delivery!Init
BY DEF Init, Delivery!Init, Offered, Got, Ends

LEMMA DeliveryNext == TypeOK /\ Streams /\ [Next]_vars => [Delivery!Next]_(Delivery!deliveryVars)
<1> SUFFICES ASSUME TypeOK, Streams, [Next]_vars
             PROVE  Delivery!Next \/ UNCHANGED Delivery!deliveryVars
  OBVIOUS
<1> USE DEF busVars, inVars
<1>0. /\ inEp \in [Endpoints -> Chunks(InPackets) \cup {None}]
      /\ MaxPacket \in Nat
      /\ \A e \in Endpoints : Offered[e] = Ends(inEp[e])
      /\ Offered = [e \in Endpoints |-> Ends(inEp[e])]
      /\ Offered' = [e \in Endpoints |-> Ends(inEp'[e])]
      /\ \A p \in InPackets : p # None
      /\ Ends(None) = None
  BY TransferAssumption DEF TypeOK, Offered, Ends
<1>a. UNCHANGED inEp => UNCHANGED Offered
  BY DEF Offered
<1>b. UNCHANGED hostGot => UNCHANGED Got
  BY DEF Got, Whole
<1>1. CASE Connect
  BY <1>1, <1>a, <1>b DEF Connect, Delivery!Next, Delivery!Connect
<1>2. CASE Disconnect
  <2>1. Offered' = [e \in Endpoints |-> None]
    BY <1>0, <1>2 DEF Disconnect
  <2>2. {inEp[e].pkt : e \in {f \in Endpoints : inEp[f] # None /\ inEp[f].len < MaxPacket}}
          = {Offered[e] : e \in Endpoints} \ {None}
    <3>1. \A c \in Chunks(InPackets) : c.pkt # None
      BY <1>0 DEF Chunks
    <3>. QED  BY <1>0, <3>1 DEF Ends
  <2>. QED
    BY <1>2, <1>b, <2>1, <2>2 DEF Disconnect, Delivery!Next, Delivery!Disconnect
<1>3. ASSUME NEW p \in InPackets, Enqueue(p)
      PROVE  Delivery!Next
  BY <1>3, <1>a, <1>b DEF Enqueue, Delivery!Next, Delivery!Enqueue
<1>4. CASE WriteEnabled
  BY <1>4, <1>a, <1>b DEF WriteEnabled, Delivery!Next, Delivery!Enabled
<1>5. CASE WriteReceive
  BY <1>5, <1>a, <1>b DEF WriteReceive, Delivery!Next, Delivery!Receive
<1>6. ASSUME EpWrite, UNCHANGED partial
      PROVE  /\ wrPkt \in InPackets /\ wrPkt.ep \in Endpoints
             /\ Offered[wrPkt.ep] = None
             /\ wrPc = "write" /\ usbUp
             /\ wrNext < Len(Transfer(wrPkt)) => Offered' = Offered
             /\ wrNext = Len(Transfer(wrPkt)) => Offered' = [Offered EXCEPT ![wrPkt.ep] = wrPkt]
  <2> DEFINE c == Transfer(wrPkt)[wrNext]
             n == Len(Transfer(wrPkt))
  <2>1. /\ wrPkt \in InPackets /\ wrPkt.ep \in Endpoints /\ wrNext \in 1 .. n
        /\ inEp' = [inEp EXCEPT ![wrPkt.ep] = c]
        /\ inEp[wrPkt.ep] = None
    BY <1>6, WriteAppends
  <2>2. /\ c # None /\ c.pkt = wrPkt
        /\ wrNext < n => c.len = MaxPacket
        /\ wrNext = n => c.len < MaxPacket
    BY <2>1, FirstIs
  <2> HIDE DEF c, n
  <2>3. wrNext < n => Ends(c) = None
    BY <1>0, <2>2 DEF Ends
  <2>4. wrNext = n => Ends(c) = wrPkt
    BY <1>0, <2>2 DEF Ends
  <2>5. \A e \in Endpoints : Ends(inEp'[e]) = IF e = wrPkt.ep THEN Ends(c) ELSE Offered[e]
    BY <1>0, <2>1
  <2>6. Offered[wrPkt.ep] = None
    BY <1>0, <2>1
  <2>7. wrPc = "write" /\ usbUp
    BY <1>6 DEF EpWrite
  <2>. QED  BY <1>0, <2>1, <2>3, <2>4, <2>5, <2>6, <2>7 DEF n
<1>7. CASE WriteChunk
  <2>1. Offered' = Offered
    BY <1>6, <1>7 DEF WriteChunk
  <2>. QED  BY <1>7, <1>b, <2>1 DEF WriteChunk, Delivery!deliveryVars
<1>8. CASE WriteDone
  <2>1. /\ wrPkt \in InPackets /\ wrPc = "write" /\ usbUp /\ Offered[wrPkt.ep] = None
        /\ Offered' = [Offered EXCEPT ![wrPkt.ep] = wrPkt]
    BY <1>6, <1>8 DEF WriteDone
  <2>. QED  BY <1>8, <1>b, <2>1 DEF WriteDone, Delivery!Next, Delivery!Written
<1>9. CASE WriteFailed
  BY <1>9, <1>a, <1>b DEF WriteFailed, Delivery!Next, Delivery!Failed
<1>10. ASSUME NEW e \in Endpoints, HostTakes(e)
       PROVE  Delivery!Next \/ UNCHANGED Delivery!deliveryVars
  <2>1. /\ usbUp /\ inEp[e] # None /\ inEp' = [inEp EXCEPT ![e] = None]
        /\ UNCHANGED <<usbUp, netToHost, wrPc, wrPkt, lost>>
    BY <1>10 DEF HostTakes
  <2>2. Offered' = [Offered EXCEPT ![e] = None]
    BY <1>0, <2>1
  <2>3. CASE inEp[e].len = MaxPacket
    <3>1. hostGot' = hostGot
      BY <1>0, <1>10, <2>3 DEF HostTakes
    <3>2. Offered[e] = None
      BY <1>0, <2>3 DEF Ends
    <3>3. Offered' = Offered
      BY <1>0, <2>2, <3>2
    <3>. QED  BY <1>b, <2>1, <3>1, <3>3 DEF Delivery!deliveryVars
  <2>4. CASE inEp[e].len < MaxPacket
    <3> DEFINE q == inEp[e].pkt
               t == Append(partial[e], inEp[e])
    <3>1. q \in InPackets /\ t = Transfer(q)
      BY <1>0, <2>1, <2>4, TakenIs
    <3>2. Offered[e] = q /\ q # None
      BY <1>0, <2>1, <2>4, <3>1 DEF Ends
    <3>3. hostGot' = [hostGot EXCEPT ![e] = Append(@, t)]
      BY <1>0, <1>10, <2>4 DEF HostTakes
    <3> HIDE DEF q, t
    <3>4. t \in Seq(Chunks(InPackets)) /\ Whole(t) = q
      BY <3>1, FirstIs DEF Whole
    <3>5. Got' = [Got EXCEPT ![e] = Append(@, Offered[e])]
      BY <3>2, <3>3, <3>4, GotAppended
    <3>. QED  BY <2>1, <2>2, <3>2, <3>5 DEF Delivery!Next, Delivery!HostTakes
  <2>. QED  BY <1>10, <2>3, <2>4 DEF HostTakes
<1>11. CASE HostPuts \/ ReadTask \/ LedTask \/ UNCHANGED vars
  BY <1>11, <1>a, <1>b DEF HostPuts, ReadTask, ReadEnabled, ReadAcl, ReadDisabled, LedTask,
     LedStart, LedShow, vars, Delivery!deliveryVars
<1>12. ASSUME NEW p, HostSends(p)
       PROVE  UNCHANGED Delivery!deliveryVars
  BY <1>12, <1>a, <1>b DEF HostSends, Delivery!deliveryVars
<1>. QED
  BY <1>1, <1>2, <1>3, <1>4, <1>5, <1>7, <1>8, <1>9, <1>10, <1>11, <1>12
     DEF Next, WriteTask

\* The chunking of write_ep, the zero-length packet and the waiting of the driver
\* deliver each packet whole and once, for every packet size and every length, and
\* wherever a disconnect cuts a transfer.
THEOREM TransferImplementsDelivery == Spec => ImplementsDelivery
<1>1. Spec => []Streams
  BY StreamsInit, StreamsNext, UsbTypeCorrect, PTL DEF Spec
<1>. QED
  BY <1>1, DeliveryInit, DeliveryNext, UsbTypeCorrect, PTL
     DEF Spec, ImplementsDelivery, Delivery!Spec
=============================================================================

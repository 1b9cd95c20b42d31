--------------------------- MODULE IpcRingProofs ----------------------------
(***************************************************************************)
(* Proofs about IpcRing, for every size of the ring and of its indices.    *)
(***************************************************************************)
EXTENDS IpcRing, SequenceTheorems, TLAPS

-----------------------------------------------------------------------------
(* Arithmetic. *)

\* Division with remainder.
LEMMA DivMod ==
  ASSUME NEW m \in Nat \ {0}, NEW a \in Nat
  PROVE  /\ a = (m * (a \div m)) + (a % m)
         /\ (a % m) \in 0 .. m - 1
         /\ (a \div m) \in Nat
  BY SMT

\* A remainder is unique.
LEMMA ModUnique ==
  ASSUME NEW m \in Nat \ {0}, NEW q \in Nat, NEW c \in 0 .. m - 1
  PROVE  ((m * q) + c) % m = c
<1> DEFINE a == (m * q) + c
           d == a \div m
           e == a % m
<1>1. m * q \in Nat /\ a \in Nat
  OBVIOUS
<1>2. a = (m * d) + e /\ e \in 0 .. m - 1 /\ d \in Nat
  BY <1>1, DivMod
<1>3. m * (q - d) = e - c
  BY <1>2
<1> HIDE DEF d, e
<1>4. CASE q > d
  <2>1. m * (q - d) >= m
    BY <1>2, <1>4
  <2>. QED  BY <1>2, <1>3, <2>1
<1>5. CASE q < d
  <2>1. m * (d - q) >= m
    BY <1>2, <1>5
  <2>2. m * (q - d) = 0 - (m * (d - q))
    BY <1>2
  <2>. QED  BY <1>2, <1>3, <2>1, <2>2
<1>6. CASE q = d
  BY <1>2, <1>3, <1>6
<1>7. e = c
  BY <1>2, <1>4, <1>5, <1>6
<1>. QED  BY <1>7 DEF e

\* Two numbers less than m apart have different remainders.
LEMMA ModDiffers ==
  ASSUME NEW m \in Nat \ {0}, NEW a \in Nat, NEW b \in Nat, a < b, b < a + m
  PROVE  (a % m) # (b % m)
<1> DEFINE qa == a \div m
           qb == b \div m
           c == b % m
<1>1. SUFFICES ASSUME (a % m) = c  PROVE FALSE
  OBVIOUS
<1>2. a = (m * qa) + c /\ qa \in Nat
  BY <1>1, DivMod
<1>3. b = (m * qb) + c /\ qb \in Nat /\ c \in 0 .. m - 1
  BY DivMod
<1> HIDE DEF qa, qb, c
<1>4. b - a = m * (qb - qa)
  BY <1>2, <1>3
<1>5. CASE qb > qa
  <2>1. m * (qb - qa) >= m
    BY <1>2, <1>3, <1>5
  <2>. QED  BY <1>4, <2>1
<1>6. CASE qb <= qa
  <2>1. m * (qb - qa) <= 0
    BY <1>2, <1>3, <1>6
  <2>. QED  BY <1>4, <2>1
<1>. QED  BY <1>2, <1>3, <1>5, <1>6

\* What % does to a number less than one modulus out of range.
LEMMA ModOnce ==
  ASSUME NEW m \in Nat \ {0}, NEW a \in Int, 0 - m <= a, a < 2 * m
  PROVE  a % m = IF a < 0 THEN a + m ELSE IF a < m THEN a ELSE a - m
  BY SMT

-----------------------------------------------------------------------------
(* Index arithmetic. *)

\* The part of RingAssumption about sizes.
LEMMA Sizes ==
  /\ BufSize \in Nat \ {0} /\ BufSize >= 2
  /\ IdxMod \in Nat \ {0} /\ IdxMod > 2 * BufSize
  BY RingAssumption

\* wrapping_add of an index and a short length.
LEMMA WrapAddCases ==
  ASSUME NEW i \in Index, NEW n \in Nat, n <= IdxMod
  PROVE  WrapAdd(i, n) = IF i + n < IdxMod THEN i + n ELSE i + n - IdxMod
<1> DEFINE a == i + n
<1>1. a \in Nat /\ 0 - IdxMod <= a /\ a < 2 * IdxMod
  BY Sizes DEF Index
<1>2. a % IdxMod = IF a < IdxMod THEN a ELSE a - IdxMod
  <2> HIDE DEF a
  <2>1. IdxMod \in Nat \ {0}
    BY Sizes
  <2>. QED  BY <1>1, <2>1
<1>. QED  BY <1>1, <1>2, Sizes DEF WrapAdd, Index

\* wrapping_sub of two indices.
LEMMA WrapSubCases ==
  ASSUME NEW i \in Index, NEW j \in Index
  PROVE  WrapSub(j, i) = IF j >= i THEN j - i ELSE j - i + IdxMod
<1>1. j - i \in Int /\ 0 - IdxMod <= j - i /\ j - i < IdxMod
  BY Sizes DEF Index
<1>2. (j - i) % IdxMod = IF j - i < 0 THEN j - i + IdxMod ELSE j - i
  BY <1>1, Sizes, ModOnce
<1>. QED  BY <1>1, <1>2, Sizes DEF WrapSub, Index

\* Indices a distance of zero apart are equal.
LEMMA WrapSubZero ==
  ASSUME NEW i \in Index, NEW j \in Index
  PROVE  WrapSub(j, i) = 0 <=> i = j
  BY WrapSubCases, Sizes DEF Index

LEMMA WrapTypes ==
  ASSUME NEW i \in Index, NEW j \in Index, NEW n \in Nat
  PROVE  WrapAdd(i, n) \in Index /\ WrapSub(j, i) \in Index
<1>1. WrapAdd(i, n) \in Index
  BY Sizes, DivMod DEF WrapAdd, Index
<1>2. WrapSub(j, i) \in Index
  BY WrapSubCases, Sizes DEF Index
<1>. QED  BY <1>1, <1>2

\* An index distance grows with its far end and shrinks with its near end.
LEMMA WrapSubShift ==
  ASSUME NEW i \in Index, NEW j \in Index, NEW n \in Nat
  PROVE  /\ WrapSub(j, i) + n < IdxMod =>
              WrapSub(WrapAdd(j, n), i) = WrapSub(j, i) + n
         /\ n <= WrapSub(j, i) =>
              WrapSub(j, WrapAdd(i, n)) = WrapSub(j, i) - n
<1> USE Sizes DEF Index
<1>1. WrapSub(j, i) = IF j >= i THEN j - i ELSE j - i + IdxMod
  BY WrapSubCases
<1>2. ASSUME WrapSub(j, i) + n < IdxMod
      PROVE  WrapSub(WrapAdd(j, n), i) = WrapSub(j, i) + n
  <2>1. WrapAdd(j, n) = IF j + n < IdxMod THEN j + n ELSE j + n - IdxMod
    BY <1>1, <1>2, WrapAddCases
  <2>2. WrapAdd(j, n) \in Index
    BY WrapTypes
  <2>3. WrapSub(WrapAdd(j, n), i) =
          IF WrapAdd(j, n) >= i THEN WrapAdd(j, n) - i
                                ELSE WrapAdd(j, n) - i + IdxMod
    BY <2>2, WrapSubCases
  <2>. QED  BY <1>1, <1>2, <2>1, <2>3
<1>3. ASSUME n <= WrapSub(j, i)
      PROVE  WrapSub(j, WrapAdd(i, n)) = WrapSub(j, i) - n
  <2>1. WrapAdd(i, n) = IF i + n < IdxMod THEN i + n ELSE i + n - IdxMod
    BY <1>1, <1>3, WrapAddCases
  <2>2. WrapAdd(i, n) \in Index
    BY WrapTypes
  <2>3. WrapSub(j, WrapAdd(i, n)) =
          IF j >= WrapAdd(i, n) THEN j - WrapAdd(i, n)
                                ELSE j - WrapAdd(i, n) + IdxMod
    BY <2>2, WrapSubCases
  <2>. QED  BY <1>1, <1>3, <2>1, <2>3
<1>. QED  BY <1>2, <1>3

\* The byte n behind j is the byte WrapSub(j, i) + n behind i.
LEMMA WrapAddShift ==
  ASSUME NEW i \in Index, NEW j \in Index, NEW n \in 0 .. BufSize,
         WrapSub(j, i) <= BufSize
  PROVE  WrapAdd(j, n) = WrapAdd(i, WrapSub(j, i) + n)
<1> USE Sizes DEF Index
<1>1. WrapSub(j, i) = IF j >= i THEN j - i ELSE j - i + IdxMod
  BY WrapSubCases
<1>2. WrapAdd(j, n) = IF j + n < IdxMod THEN j + n ELSE j + n - IdxMod
  BY WrapAddCases
<1>3. WrapSub(j, i) + n \in Nat /\ WrapSub(j, i) + n <= IdxMod
  BY <1>1
<1>4. WrapAdd(i, WrapSub(j, i) + n) =
        IF i + (WrapSub(j, i) + n) < IdxMod THEN i + (WrapSub(j, i) + n)
        ELSE i + (WrapSub(j, i) + n) - IdxMod
  BY <1>3, WrapAddCases
<1>. QED  BY <1>1, <1>2, <1>4

\* WrapGap is what is left of IdxMod after whole turns of the ring.
LEMMA WrapGapIsRest ==
  /\ WrapGap \in 1 .. BufSize
  /\ \E q \in Nat : IdxMod = (BufSize * q) + WrapGap
<1> DEFINE d == IdxMod \div BufSize
           s == IdxMod % BufSize
<1>1. IdxMod = (BufSize * d) + s /\ s \in 0 .. BufSize - 1 /\ d \in Nat
  BY DivMod, Sizes
<1>2. CASE s = 0
  <2>1. WrapGap = BufSize
    BY <1>2 DEF WrapGap
  <2> HIDE DEF d, s
  <2>2. d >= 1 /\ IdxMod = (BufSize * (d - 1)) + BufSize
    BY <1>1, <1>2, Sizes
  <2>3. d - 1 \in Nat
    BY <1>1, <2>2
  <2>. QED  BY <2>1, <2>2, <2>3, Sizes
<1>3. CASE s # 0
  <2>1. WrapGap = s
    BY <1>3 DEF WrapGap
  <2> HIDE DEF d, s
  <2>2. WrapGap \in 1 .. BufSize
    BY <1>1, <1>3, <2>1, Sizes
  <2>. QED  BY <1>1, <2>1, <2>2
<1>. QED  BY <1>2, <1>3

\* Different bytes of a span that fits the ring and, if it straddles the wrap,
\* is no longer than WrapGap, are in different slots.
LEMMA SlotsDiffer ==
  ASSUME NEW r \in Index, NEW n \in 0 .. BufSize,
         r + n > IdxMod => n <= WrapGap,
         NEW a \in 0 .. n - 1, NEW b \in 0 .. n - 1, a < b
  PROVE  Slot(WrapAdd(r, a)) # Slot(WrapAdd(r, b))
<1> USE Sizes DEF Index, Slot
<1> DEFINE x == WrapAdd(r, a)
           y == WrapAdd(r, b)
<1>1. x = IF r + a < IdxMod THEN r + a ELSE r + a - IdxMod
  BY WrapAddCases
<1>2. y = IF r + b < IdxMod THEN r + b ELSE r + b - IdxMod
  BY WrapAddCases
<1> HIDE DEF x, y
<1>3. x \in Nat /\ y \in Nat
  BY <1>1, <1>2
<1>4. CASE x < y
  <2>1. y < x + BufSize
    BY <1>1, <1>2, <1>4
  <2>. QED  BY <1>3, <1>4, <2>1, ModDiffers DEF x, y
<1>5. CASE x >= y
  <2>1. x = r + a /\ y = r + b - IdxMod /\ n <= WrapGap
    BY <1>1, <1>2, <1>5
  <2>2. PICK q \in Nat : IdxMod = (BufSize * q) + WrapGap
    BY WrapGapIsRest
  <2>3. WrapGap \in 1 .. BufSize
    BY WrapGapIsRest
  <2> DEFINE c == WrapGap - (IdxMod - x)
  <2>4. y < c /\ c \in 0 .. BufSize - 1
    BY <1>1, <1>2, <1>3, <2>1, <2>3
  <2>5. x = (BufSize * q) + c
    BY <2>1, <2>2, <2>3
  <2> HIDE DEF c
  <2>6. x % BufSize = c
    BY <2>4, <2>5, ModUnique
  <2>7. y = (BufSize * 0) + y /\ y \in 0 .. BufSize - 1
    BY <1>3, <2>4
  <2>8. y % BufSize = y
    BY <2>7, ModUnique
  <2>. QED  BY <2>4, <2>6, <2>8, <1>3 DEF x, y
<1>. QED  BY <1>3, <1>4, <1>5

-----------------------------------------------------------------------------
(* Framing. *)

LEMMA Bytes ==
  /\ ByteMod \in Nat \ {0}
  /\ ByteMod * ByteMod > BufSize
  /\ ByteMod * ByteMod \in Nat
  BY RingAssumption

LEMMA SlotType ==
  ASSUME NEW i \in Index
  PROVE  Slot(i) \in Slots
  BY Sizes, DivMod DEF Slot, Slots, Index

LEMMA FrameByteType ==
  ASSUME NEW p \in Seq(Byte), NEW k \in 0 .. FrameSize(p) - 1
  PROVE  FrameByte(p, k) \in Byte
<1>1. Len(p) \in Nat /\ \A j \in 1 .. Len(p) : p[j] \in Byte
  OBVIOUS
<1>2. (Len(p) % ByteMod) \in Byte
  BY <1>1, Bytes, DivMod DEF Byte
<1>3. ((Len(p) \div ByteMod) % ByteMod) \in Byte
  BY <1>1, Bytes, DivMod DEF Byte
<1>. QED  BY <1>1, <1>2, <1>3 DEF FrameByte, FrameSize

\* The length field of a frame that fits the ring is the length: it does not
\* overflow the u16.
LEMMA LengthField ==
  ASSUME NEW p \in Seq(Byte), FrameSize(p) <= BufSize
  PROVE  FrameByte(p, 0) + (ByteMod * FrameByte(p, 1)) = Len(p)
<1> DEFINE n == Len(p)
           d == n \div ByteMod
<1>1. n \in Nat /\ n < ByteMod * ByteMod
  BY Bytes, Sizes DEF FrameSize
<1>2. n = (ByteMod * d) + (n % ByteMod) /\ (n % ByteMod) \in 0 .. ByteMod - 1
      /\ d \in Nat
  BY <1>1, Bytes, DivMod
<1>3. d < ByteMod
  <2> HIDE DEF n, d
  <2>1. SUFFICES ASSUME d >= ByteMod  PROVE FALSE
    BY <1>2, Bytes
  <2>2. ByteMod * d >= ByteMod * ByteMod
    BY <2>1, <1>2, Bytes
  <2>. QED  BY <1>1, <1>2, <2>2, Bytes
<1>4. d % ByteMod = d
  <2>1. (ByteMod * 0) + d = d /\ d \in 0 .. ByteMod - 1
    BY <1>2, <1>3, Bytes
  <2> HIDE DEF n, d
  <2>. QED  BY <2>1, Bytes, ModUnique
<1>5. FrameByte(p, 0) = n % ByteMod /\ FrameByte(p, 1) = d % ByteMod
  BY DEF FrameByte
<1>6. (n % ByteMod) + (ByteMod * d) = n
  <2> HIDE DEF d, n
  <2>. QED  BY <1>1, <1>2, Bytes
<1>. QED  BY <1>4, <1>5, <1>6

\* Any two bytes make a u16.
LEMMA TwoBytes ==
  ASSUME NEW lo \in Byte, NEW hi \in Byte
  PROVE  lo + (ByteMod * hi) \in 0 .. (ByteMod * ByteMod) - 1
<1>1. hi <= ByteMod - 1 /\ hi \in Nat /\ lo \in Nat /\ lo <= ByteMod - 1
  BY Bytes DEF Byte
<1>2. ByteMod * hi <= ByteMod * (ByteMod - 1)
  BY <1>1, Bytes
<1>3. ByteMod * (ByteMod - 1) = (ByteMod * ByteMod) - ByteMod
  BY Bytes
<1>4. ByteMod * hi \in Nat
  BY <1>1, Bytes
<1>. QED  BY <1>1, <1>2, <1>3, <1>4, Bytes

\* A byte is a u16.
LEMMA OneByte ==
  ASSUME NEW b \in Byte
  PROVE  b \in 0 .. (ByteMod * ByteMod) - 1
<1>1. b \in Nat /\ b <= ByteMod - 1 /\ ByteMod >= 1
  BY Bytes DEF Byte
<1>2. ByteMod * ByteMod >= ByteMod
  BY <1>1, Bytes
<1>. QED  BY <1>1, <1>2, Bytes

-----------------------------------------------------------------------------
(* Type correctness. *)

\* The initial state is well typed, and every step keeps it so.
LEMMA TypeInit == Init => TypeOK
<1> SUFFICES ASSUME Init  PROVE TypeOK
  OBVIOUS
<1>1. Uninit \subseteq Byte
  BY RingAssumption
<1>2. data \in [Slots -> Byte]
  BY <1>1 DEF Init
<1>3. 0 \in Index /\ pktLen \in 0 .. (ByteMod * ByteMod) - 1
  BY Sizes, Bytes DEF Init, Index
<1>4. wOff \in 0 .. FrameSize(wPkt)
  BY DEF Init, FrameSize
<1>5. <<>> \in Seq(Byte) /\ <<>> \in Seq(Frame)
  OBVIOUS
<1>6. wIdx = 0 /\ rIdx = 0 /\ wPkt = <<>> /\ out = <<>> /\ fifo = <<>>
  BY DEF Init
<1>7. wIdx \in Index /\ rIdx \in Index /\ wPkt \in Seq(Byte)
      /\ out \in Seq(Byte) /\ fifo \in Seq(Frame)
  BY <1>3, <1>5, <1>6
<1>. QED  BY <1>2, <1>3, <1>4, <1>7 DEF Init, TypeOK

LEMMA TypeNext == TypeOK /\ [Next]_vars => TypeOK'
<1> SUFFICES ASSUME TypeOK, [Next]_vars
             PROVE  TypeOK'
  OBVIOUS
<1> USE DEF TypeOK
<1>1. ASSUME NEW p \in Packets, RbWriteRefuse(p)
      PROVE  TypeOK'
  BY <1>1 DEF RbWriteRefuse, consVars
<1>2. ASSUME NEW p \in Packets, RbWriteAccept(p)
      PROVE  TypeOK'
  <2>1. p \in Seq(Byte)
    BY RingAssumption
  <2>2. Laps(FrameSize(p)) \in BOOLEAN
    BY DEF Laps
  <2>3. wOff' \in 0 .. FrameSize(p)
    BY <1>2, <2>1 DEF RbWriteAccept, FrameSize
  <2>4. lapped' \in BOOLEAN
    BY <1>2, <2>2 DEF RbWriteAccept
  <2>. QED  BY <1>2, <2>1, <2>3, <2>4 DEF RbWriteAccept, consVars
<1>3. CASE RbWriteByte
  <2>1. wOff \in 0 .. FrameSize(wPkt) - 1 /\ wOff + 1 \in 0 .. FrameSize(wPkt)
    BY <1>3 DEF RbWriteByte, FrameSize
  <2>2. FrameByte(wPkt, wOff) \in Byte
    BY <2>1, FrameByteType
  <2>. QED  BY <1>3, <2>1, <2>2 DEF RbWriteByte, consVars
<1>4. CASE RbWritePublish
  <2>1. FrameSize(wPkt) \in Nat
    BY DEF FrameSize
  <2>2. WrapAdd(wIdx, FrameSize(wPkt)) \in Index
    BY <2>1, WrapTypes
  <2>3. [pkt |-> wPkt, at |-> wIdx] \in Frame
    BY DEF Frame
  <2>4. fifo' \in Seq(Frame)
    BY <1>4, <2>3, AppendProperties DEF RbWritePublish
  <2>. QED  BY <1>4, <2>2, <2>4 DEF RbWritePublish, consVars
<1>5. CASE RbReadEmpty
  BY <1>5 DEF RbReadEmpty, prodVars
<1>6. CASE RbReadBegin
  BY <1>6 DEF RbReadBegin, prodVars
<1>7. CASE RbReadLo
  <2>1. pktLen' \in Byte
    BY <1>7, SlotType DEF RbReadLo
  <2>2. pktLen' \in 0 .. (ByteMod * ByteMod) - 1
    BY <2>1, OneByte
  <2>. QED  BY <1>7, <2>1, <2>2 DEF RbReadLo, prodVars
<1>8. CASE RbReadHi
  <2>1. WrapAdd(rIdx, 1) \in Index
    BY WrapTypes
  <2>2. pktLen' \in 0 .. (ByteMod * ByteMod) - 1
    BY <1>8, <2>1, SlotType, TwoBytes DEF RbReadHi
  <2>. QED  BY <1>8, <2>2 DEF RbReadHi, prodVars
<1>9. CASE RbReadByte
  <2>1. 2 + Len(out) \in Nat
    OBVIOUS
  <2>2. data[Slot(WrapAdd(rIdx, 2 + Len(out)))] \in Byte
    BY <2>1, WrapTypes, SlotType
  <2>3. out' \in Seq(Byte)
    BY <1>9, <2>2, AppendProperties DEF RbReadByte
  <2>. QED  BY <1>9, <2>3 DEF RbReadByte, prodVars
<1>10. ASSUME Release, rRet' = None \/ rRet' \in Seq(Byte)
       PROVE  TypeOK'
  <2>1. 2 + pktLen \in Nat
    BY Bytes
  <2>2. rIdx' \in Index
    BY <1>10, <2>1, WrapTypes DEF Release
  <2>3. fifo' \in Seq(Frame)
    BY <1>10, HeadTailProperties DEF Release
  <2>. QED  BY <1>10, <2>2, <2>3 DEF Release, prodVars
<1>11. CASE RbReadOversize
  BY <1>10, <1>11 DEF RbReadOversize
<1>12. CASE RbReadDone
  BY <1>10, <1>12 DEF RbReadDone
<1>13. CASE UNCHANGED vars
  BY <1>13 DEF vars, prodVars, consVars
<1>. QED
  BY <1>1, <1>2, <1>3, <1>4, <1>5, <1>6, <1>7, <1>8, <1>9, <1>11, <1>12, <1>13
     DEF Next, Producer, Consumer

-----------------------------------------------------------------------------
(* Where bytes lie. *)

LEMMA ByteSlot ==
  ASSUME NEW i \in Index, NEW k \in Nat
  PROVE  Slot(WrapAdd(i, k)) \in Slots
<1>1. WrapAdd(i, k) \in Index
  BY WrapTypes
<1>. QED  BY <1>1, SlotType

\* The bytes in use, in terms of read_idx.
LEMMA SpanType ==
  ASSUME TypeOK
  PROVE  /\ Used(wIdx, rIdx) \in Index /\ Span \in Nat
         /\ FrameSize(wPkt) \in Nat /\ FrameSize(wPkt) >= 2
         /\ Span >= Used(wIdx, rIdx)
<1>1. Used(wIdx, rIdx) \in Index
  BY WrapTypes, 0 \in Nat DEF TypeOK, Used
<1>2. FrameSize(wPkt) \in Nat /\ FrameSize(wPkt) >= 2
  BY DEF TypeOK, FrameSize
<1>. QED  BY <1>1, <1>2, Sizes DEF Span, Index

\* Different bytes in use are in different slots.
LEMMA Disjoint ==
  ASSUME TypeOK, SpanFits,
         NEW a \in 0 .. Span - 1, NEW b \in 0 .. Span - 1, a < b
  PROVE  Slot(WrapAdd(rIdx, a)) # Slot(WrapAdd(rIdx, b))
<1>1. Span \in 0 .. BufSize /\ rIdx \in Index
  BY SpanType, Sizes DEF SpanFits, BacklogShortAtWrap, TypeOK
<1>2. rIdx + Span > IdxMod => Span <= WrapGap
  BY DEF SpanFits, BacklogShortAtWrap
<1>. QED  BY <1>1, <1>2, SlotsDiffer

\* An unread frame, counted from read_idx.
LEMMA FrameType ==
  ASSUME TypeOK, NEW i \in 1 .. Len(fifo)
  PROVE  /\ fifo[i].pkt \in Seq(Byte) /\ fifo[i].at \in Index
         /\ FrameSize(fifo[i].pkt) \in Nat /\ FrameSize(fifo[i].pkt) >= 2
         /\ Off(i) \in Index /\ FrameEnd(i) = Off(i) + FrameSize(fifo[i].pkt)
<1>1. fifo[i] \in Frame
  BY DEF TypeOK
<1>2. fifo[i].pkt \in Seq(Byte) /\ fifo[i].at \in Index
  BY <1>1 DEF Frame
<1>3. Off(i) \in Index
  BY <1>2, WrapTypes, 0 \in Nat DEF TypeOK, Off
<1>. QED  BY <1>2, <1>3 DEF FrameSize, FrameEnd

\* Byte k of the i-th unread frame.
LEMMA UnreadByte ==
  ASSUME TypeOK, FramesAbut, SpanFits, NEW i \in 1 .. Len(fifo),
         NEW k \in 0 .. FrameSize(fifo[i].pkt) - 1
  PROVE  /\ Off(i) + k \in 0 .. Span - 1 /\ Off(i) + k < Used(wIdx, rIdx)
         /\ WrapAdd(fifo[i].at, k) = WrapAdd(rIdx, Off(i) + k)
<1> DEFINE o == Off(i)
           u == Used(wIdx, rIdx)
           n == FrameSize(fifo[i].pkt)
<1>1. FrameEnd(i) = o + n /\ FrameEnd(i) <= u /\ o \in Nat /\ n \in Nat /\ u \in Nat
  <2>1. FrameEnd(i) = o + n /\ o \in Index /\ n \in Nat
    BY FrameType
  <2>2. FrameEnd(i) <= u
    BY DEF FramesAbut
  <2>3. u \in Index
    BY SpanType
  <2>4. Index \subseteq Nat
    BY Sizes DEF Index
  <2> HIDE DEF o, n, u
  <2>. QED  BY <2>1, <2>2, <2>3, <2>4
<1>2. u <= BufSize /\ u <= Span /\ Span \in Nat
  <2>1. u <= Span /\ Span \in Nat
    BY SpanType
  <2>2. Span <= BufSize
    BY DEF SpanFits, BacklogShortAtWrap
  <2> HIDE DEF u
  <2>. QED  BY <1>1, <2>1, <2>2, Sizes
<1>3. k \in 0 .. n - 1
  OBVIOUS
<1> HIDE DEF o, u, n
<1>4. o + k \in Nat /\ o + k < u /\ k \in Nat
  BY <1>1, <1>3
<1>5. k \in 0 .. BufSize /\ o <= BufSize /\ o + k \in 0 .. Span - 1
  BY <1>1, <1>2, <1>3, <1>4, Sizes
<1>6. WrapAdd(fifo[i].at, k) = WrapAdd(rIdx, o + k)
  BY <1>5, FrameType, WrapAddShift DEF o, Off, TypeOK
<1>. QED  BY <1>4, <1>5, <1>6 DEF o, u

\* Byte k of the frame being stored.
LEMMA StoredByte ==
  ASSUME TypeOK, SpanFits, wPc = "copy", NEW k \in 0 .. FrameSize(wPkt) - 1
  PROVE  /\ Used(wIdx, rIdx) + k \in 0 .. Span - 1
         /\ WrapAdd(wIdx, k) = WrapAdd(rIdx, Used(wIdx, rIdx) + k)
<1>1. Span = Used(wIdx, rIdx) + FrameSize(wPkt)
  BY DEF Span
<1>2. Used(wIdx, rIdx) <= BufSize /\ k \in 0 .. BufSize
  BY <1>1, SpanType, Sizes DEF SpanFits, BacklogShortAtWrap, Index
<1>3. WrapAdd(wIdx, k) = WrapAdd(rIdx, Used(wIdx, rIdx) + k)
  BY <1>2, WrapAddShift DEF Used, TypeOK
<1>. QED  BY <1>1, <1>3, SpanType, Sizes DEF Index

\* Reader and writer are in different slots.
LEMMA ReadWriteApart ==
  ASSUME TypeOK, FramesAbut, SpanFits, wPc = "copy",
         NEW k \in 0 .. FrameSize(wPkt) - 1,
         NEW i \in 1 .. Len(fifo), NEW j \in 0 .. FrameSize(fifo[i].pkt) - 1
  PROVE  Slot(WrapAdd(fifo[i].at, j)) # Slot(WrapAdd(wIdx, k))
<1>1. /\ Off(i) + j \in 0 .. Span - 1 /\ Off(i) + j < Used(wIdx, rIdx)
      /\ WrapAdd(fifo[i].at, j) = WrapAdd(rIdx, Off(i) + j)
  BY UnreadByte
<1>2. /\ Used(wIdx, rIdx) + k \in 0 .. Span - 1
      /\ WrapAdd(wIdx, k) = WrapAdd(rIdx, Used(wIdx, rIdx) + k)
  BY StoredByte
<1>3. Off(i) + j < Used(wIdx, rIdx) + k
  BY <1>1, SpanType, Sizes DEF Index
<1>4. Slot(WrapAdd(rIdx, Off(i) + j)) # Slot(WrapAdd(rIdx, Used(wIdx, rIdx) + k))
  BY <1>1, <1>2, <1>3, Disjoint
<1>. QED  BY <1>1, <1>2, <1>4

-----------------------------------------------------------------------------
(* The ring invariant, one lemma per action that disturbs it. *)

\* A frame in the ring fits it, and the oldest one starts at read_idx.
LEMMA OldestFrame ==
  ASSUME TypeOK, FramesAbut, SpanFits, fifo # <<>>
  PROVE  /\ 1 \in 1 .. Len(fifo) /\ fifo[1].at = rIdx /\ Off(1) = 0
         /\ FrameSize(fifo[1].pkt) <= Used(wIdx, rIdx)
         /\ FrameSize(fifo[1].pkt) <= BufSize
<1>1. 1 \in 1 .. Len(fifo)
  BY DEF TypeOK
<1>2. Off(1) = 0 /\ FrameEnd(1) <= Used(wIdx, rIdx)
  BY <1>1 DEF FramesAbut
<1>3. fifo[1].at \in Index /\ rIdx \in Index
  BY <1>1, FrameType DEF TypeOK
<1>4. fifo[1].at = rIdx
  <2>1. WrapSub(fifo[1].at, rIdx) = 0
    BY <1>2 DEF Off
  <2>. QED  BY <2>1, <1>3, WrapSubZero
<1>5. FrameSize(fifo[1].pkt) <= Used(wIdx, rIdx)
  BY <1>1, <1>2, FrameType
<1>6. Used(wIdx, rIdx) <= BufSize
  BY SpanType, Sizes DEF SpanFits, BacklogShortAtWrap, Index
<1>. QED
  BY <1>1, <1>2, <1>4, <1>5, <1>6, FrameType, SpanType, Sizes DEF Index

\* The byte rb_read loads is the byte rb_write stored there.
LEMMA OldestByte ==
  ASSUME TypeOK, RingSound, fifo # <<>>,
         NEW k \in 0 .. FrameSize(fifo[1].pkt) - 1
  PROVE  data[Slot(WrapAdd(rIdx, k))] = FrameByte(fifo[1].pkt, k)
<1>1. 1 \in DOMAIN fifo /\ fifo[1].at = rIdx
  BY OldestFrame DEF RingSound, TypeOK
<1>. QED  BY <1>1 DEF RingSound, FramesIntact

LEMMA RingInit == Init => RingSound
<1> SUFFICES ASSUME Init  PROVE RingSound
  OBVIOUS
<1>1. wIdx \in Index /\ rIdx \in Index /\ Used(wIdx, rIdx) = 0
  <2>1. 0 \in Index
    BY Sizes DEF Index
  <2>2. WrapSub(0, 0) = 0
    BY <2>1, WrapSubCases
  <2>. QED  BY <2>1, <2>2 DEF Init, Used
<1>2. Span = 0
  BY <1>1 DEF Init, Span
<1>3. SpanFits
  BY <1>1, <1>2, Sizes DEF SpanFits, BacklogShortAtWrap, Index
<1>4. FramesAbut
  BY <1>1 DEF Init, FramesAbut
<1>5. FramesIntact /\ ProducerCopied /\ ConsumerCopied
  BY DEF Init, FramesIntact, ProducerCopied, ConsumerCopied
<1>. QED  BY <1>3, <1>4, <1>5 DEF RingSound

\* A step that changes results only.
LEMMA RingStutter ==
  ASSUME RingSound,
         UNCHANGED <<wIdx, rIdx, data, wPc, wPkt, wOff, rPc, pktLen, out, fifo>>
  PROVE  RingSound'
BY DEF RingSound, FramesAbut, SpanFits, BacklogShortAtWrap, FramesIntact, ProducerCopied,
       ConsumerCopied, Off, FrameEnd, Span

\* rb_write accepts: the full check leaves room for the frame.
LEMMA RingAccept ==
  ASSUME TypeOK, RingSound, NEW p \in Packets, RbWriteAccept(p), ~lapped'
  PROVE  RingSound'
<1> DEFINE U == Used(wIdx, rIdx)
<1>1. p \in Seq(Byte) /\ FrameSize(p) \in Nat
  BY RingAssumption DEF FrameSize
<1>2. U \in Index /\ U <= BufSize /\ Span = U
  BY SpanType, Sizes DEF RbWriteAccept, Span, RingSound, SpanFits, BacklogShortAtWrap, Index
<1>3. Free(wIdx, rIdx) = BufSize - U
  <2> HIDE DEF U
  <2>1. BufSize \in Index /\ BufSize >= U
    BY <1>2, Sizes DEF Index
  <2>2. WrapSub(BufSize, U) = BufSize - U
    BY <1>2, <2>1, WrapSubCases
  <2>. QED  BY <2>2 DEF Free, U
<1>4. U + FrameSize(p) <= BufSize
  BY <1>1, <1>2, <1>3, Sizes DEF RbWriteAccept, Index
<1>5. rIdx + (U + FrameSize(p)) > IdxMod => U + FrameSize(p) <= WrapGap
  <2>1. ~Laps(FrameSize(p))
    BY DEF RbWriteAccept
  <2>2. U + FrameSize(p) \in Nat /\ WrapGap \in Nat
    BY <1>1, <1>2, WrapGapIsRest, Sizes DEF Index
  <2>. QED  BY <2>1, <2>2 DEF Laps
<1>6. SpanFits'
  <2>1. Span' = U + FrameSize(p) /\ rIdx' = rIdx
    BY DEF RbWriteAccept, Span
  <2>. QED  BY <1>4, <1>5, <2>1 DEF SpanFits, BacklogShortAtWrap, WrapGap
<1>7. ProducerCopied'
  BY DEF RbWriteAccept, ProducerCopied
<1>8. FramesAbut' /\ FramesIntact' /\ ConsumerCopied'
  BY DEF RingSound, RbWriteAccept, consVars, FramesAbut, Off, FrameEnd,
         FramesIntact, ConsumerCopied
<1>. QED  BY <1>6, <1>7, <1>8 DEF RingSound

\* rb_write stores a byte: no byte of an unread frame is under it.
LEMMA RingWriteByte ==
  ASSUME TypeOK, RingSound, RbWriteByte
  PROVE  RingSound'
<1>1. wPc = "copy" /\ wOff \in 0 .. FrameSize(wPkt) - 1
  BY SpanType DEF RbWriteByte, TypeOK
<1>2. FramesIntact'
  <2>1. SUFFICES ASSUME NEW i \in 1 .. Len(fifo),
                        NEW k \in 0 .. FrameSize(fifo[i].pkt) - 1
                 PROVE  data'[Slot(WrapAdd(fifo[i].at, k))]
                          = FrameByte(fifo[i].pkt, k)
    BY DEF FramesIntact, RbWriteByte, TypeOK
  <2>2. data[Slot(WrapAdd(fifo[i].at, k))] = FrameByte(fifo[i].pkt, k)
    BY DEF RingSound, FramesIntact, TypeOK
  <2>3. Slot(WrapAdd(fifo[i].at, k)) # Slot(WrapAdd(wIdx, wOff))
    BY <1>1, ReadWriteApart DEF RingSound
  <2>4. Slot(WrapAdd(fifo[i].at, k)) \in Slots
    <3>1. fifo[i].at \in Index /\ k \in Nat
      BY FrameType
    <3>. QED  BY <3>1, ByteSlot
  <2>. QED  BY <2>2, <2>3, <2>4 DEF RbWriteByte, TypeOK
<1>3. ProducerCopied'
  <2>1. SUFFICES ASSUME NEW k \in 0 .. wOff
                 PROVE  data'[Slot(WrapAdd(wIdx, k))] = FrameByte(wPkt, k)
    BY <1>1, SpanType DEF ProducerCopied, RbWriteByte
  <2>2. Slot(WrapAdd(wIdx, k)) \in Slots
    <3>1. wIdx \in Index /\ k \in Nat
      BY <1>1, SpanType DEF TypeOK
    <3>. QED  BY <3>1, ByteSlot
  <2>3. CASE k = wOff
    BY <2>2, <2>3 DEF RbWriteByte, TypeOK
  <2>4. CASE k < wOff
    <3>1. data[Slot(WrapAdd(wIdx, k))] = FrameByte(wPkt, k)
      BY <1>1, <2>4 DEF RingSound, ProducerCopied
    <3>2. Slot(WrapAdd(wIdx, k)) # Slot(WrapAdd(wIdx, wOff))
      <4> DEFINE a == Used(wIdx, rIdx) + k
                 b == Used(wIdx, rIdx) + wOff
      <4>1. k \in 0 .. FrameSize(wPkt) - 1
        BY <1>1, SpanType
      <4>2. a \in 0 .. Span - 1 /\ WrapAdd(wIdx, k) = WrapAdd(rIdx, a)
        BY <1>1, <4>1, StoredByte DEF RingSound
      <4>3. b \in 0 .. Span - 1 /\ WrapAdd(wIdx, wOff) = WrapAdd(rIdx, b)
        BY <1>1, StoredByte DEF RingSound
      <4>4. a < b
        BY <1>1, <2>4, SpanType, Sizes DEF Index
      <4> HIDE DEF a, b
      <4>. QED  BY <4>2, <4>3, <4>4, Disjoint DEF RingSound
    <3>. QED  BY <2>2, <3>1, <3>2 DEF RbWriteByte, TypeOK
  <2>. QED  BY <1>1, <2>3, <2>4
<1>4. FramesAbut' /\ SpanFits' /\ ConsumerCopied'
  BY DEF RingSound, RbWriteByte, consVars, FramesAbut, Off, FrameEnd, SpanFits, BacklogShortAtWrap,
         Span, ConsumerCopied
<1>. QED  BY <1>2, <1>3, <1>4 DEF RingSound

\* rb_write publishes: the frame it stored becomes the newest unread one.
LEMMA RingPublish ==
  ASSUME TypeOK, RingSound, RbWritePublish
  PROVE  RingSound'
<1> DEFINE U == Used(wIdx, rIdx)
           F == FrameSize(wPkt)
           n == Len(fifo)
           new == [pkt |-> wPkt, at |-> wIdx]
<1>1. /\ wPc = "copy" /\ wOff = F /\ wPc' = "idle"
      /\ wIdx' = WrapAdd(wIdx, F) /\ fifo' = Append(fifo, new)
      /\ UNCHANGED <<rIdx, data, wPkt, consVars>>
  BY DEF RbWritePublish
<1>2. /\ U \in Nat /\ F \in Nat /\ F >= 2 /\ n \in Nat
      /\ Span = U + F /\ U + F <= BufSize
  BY <1>1, SpanType, Sizes DEF Span, RingSound, SpanFits, BacklogShortAtWrap, TypeOK, Index
<1>3. Used(wIdx', rIdx') = U + F
  <2>1. wIdx \in Index /\ rIdx \in Index /\ WrapSub(wIdx, rIdx) + F < IdxMod
    BY <1>2, Sizes DEF TypeOK, Used
  <2>2. WrapSub(WrapAdd(wIdx, F), rIdx) = WrapSub(wIdx, rIdx) + F
    BY <1>2, <2>1, WrapSubShift
  <2>. QED  BY <1>1, <2>2 DEF Used
<1>4. /\ Len(fifo') = n + 1 /\ fifo'[n + 1] = new
      /\ \A i \in 1 .. n : fifo'[i] = fifo[i]
      /\ DOMAIN fifo' = 1 .. n + 1 /\ DOMAIN fifo = 1 .. n
  <2>1. new \in Frame /\ fifo \in Seq(Frame)
    BY DEF Frame, TypeOK
  <2> HIDE DEF new
  <2>2. Append(fifo, new) \in Seq(Frame)
    BY <2>1
  <2>. QED  BY <1>1, <2>1, <2>2, AppendProperties
<1> DEFINE O(i) == WrapSub(fifo'[i].at, rIdx')
           E(i) == O(i) + FrameSize(fifo'[i].pkt)
<1>5. \A i \in 1 .. n : O(i) = Off(i) /\ E(i) = FrameEnd(i)
  BY <1>1, <1>4 DEF Off, FrameEnd
<1>6. O(n + 1) = U /\ E(n + 1) = U + F
  BY <1>1, <1>4 DEF Used
<1>7. FramesAbut'
  <2> HIDE DEF U, F, n, new, O, E
  <2>1. /\ fifo = <<>> => U = 0
        /\ fifo # <<>> => Off(1) = 0 /\ FrameEnd(n) = U
        /\ \A i \in 1 .. n - 1 : FrameEnd(i) = Off(i + 1)
        /\ \A i, j \in 1 .. n : i < j => FrameEnd(i) <= Off(j)
        /\ \A i \in 1 .. n : FrameEnd(i) <= U
    BY DEF RingSound, FramesAbut, U, n
  <2>2. \A i \in 1 .. n : Off(i) \in Nat /\ FrameEnd(i) \in Nat
    BY FrameType, Sizes DEF Index, n
  <2>3. fifo = <<>> <=> n = 0
    BY DEF n, TypeOK
  <2>4. fifo' # <<>>
    BY <1>2, <1>4
  <2>5. O(1) = 0
    BY <1>2, <1>5, <1>6, <2>1, <2>3
  <2>6. \A i \in 1 .. n : E(i) = O(i + 1)
    <3>1. TAKE i \in 1 .. n
    <3>2. CASE i = n
      BY <3>2, <1>2, <1>5, <1>6, <2>1, <2>3
    <3>3. CASE i # n
      <4>1. i \in 1 .. n - 1 /\ i + 1 \in 1 .. n
        BY <1>2, <3>3
      <4>. QED  BY <4>1, <1>5, <2>1
    <3>. QED  BY <3>2, <3>3
  <2>7. \A i, j \in 1 .. n + 1 : i < j => E(i) <= O(j)
    <3>1. TAKE i, j \in 1 .. n + 1
    <3>2. HAVE i < j
    <3>3. i \in 1 .. n /\ (j = n + 1 \/ j \in 1 .. n)
      BY <3>2, <1>2
    <3>4. CASE j = n + 1
      BY <3>3, <3>4, <1>5, <1>6, <2>1
    <3>5. CASE j \in 1 .. n
      BY <3>2, <3>3, <3>5, <1>5, <2>1
    <3>. QED  BY <3>3, <3>4, <3>5
  <2>8. \A i \in 1 .. n + 1 : E(i) <= U + F
    BY <1>2, <1>5, <1>6, <2>1, <2>2
  <2>9. Len(fifo') - 1 = n
    BY <1>2, <1>4
  <2>. QED
    BY <1>3, <1>4, <1>6, <2>4, <2>5, <2>6, <2>7, <2>8, <2>9
       DEF FramesAbut, Off, FrameEnd, O, E
<1>8. SpanFits'
  <2>1. Span' = U + F
    BY <1>1, <1>2, <1>3 DEF Span
  <2>. QED  BY <1>1, <1>2, <2>1 DEF RingSound, SpanFits, BacklogShortAtWrap, WrapGap
<1>9. FramesIntact'
  <2>1. SUFFICES ASSUME NEW i \in 1 .. n + 1,
                        NEW k \in 0 .. FrameSize(fifo'[i].pkt) - 1
                 PROVE  data[Slot(WrapAdd(fifo'[i].at, k))]
                          = FrameByte(fifo'[i].pkt, k)
    BY <1>1, <1>4 DEF FramesIntact
  <2>2. CASE i = n + 1
    <3>1. fifo'[i].pkt = wPkt /\ fifo'[i].at = wIdx /\ k \in 0 .. wOff - 1
      BY <1>1, <1>4, <2>2
    <3>. QED  BY <1>1, <3>1 DEF RingSound, ProducerCopied
  <2>3. CASE i \in 1 .. n
    BY <1>4, <2>3 DEF RingSound, FramesIntact
  <2>. QED  BY <2>2, <2>3, <1>2
<1>10. ProducerCopied'
  BY <1>1 DEF ProducerCopied
<1>11. ConsumerCopied'
  <2>1. fifo # <<>> => fifo' # <<>> /\ fifo'[1] = fifo[1]
    BY <1>1, <1>4, <1>2 DEF TypeOK
  <2>. QED  BY <1>1, <2>1 DEF RingSound, ConsumerCopied, consVars
<1>. QED  BY <1>7, <1>8, <1>9, <1>10, <1>11 DEF RingSound

\* rb_read loads: the bytes are those of the oldest unread frame.
LEMMA RingReadBegin ==
  ASSUME TypeOK, RingSound, RbReadBegin
  PROVE  RingSound'
<1>1. fifo # <<>>
  BY WrapSubZero DEF RbReadBegin, RingSound, FramesAbut, Used, TypeOK
<1>2. ConsumerCopied'
  BY <1>1 DEF RbReadBegin, ConsumerCopied
<1>3. (FramesAbut /\ SpanFits /\ FramesIntact /\ ProducerCopied)'
  BY DEF RingSound, RbReadBegin, prodVars, FramesAbut, Off, FrameEnd, SpanFits, BacklogShortAtWrap,
         Span, FramesIntact, ProducerCopied
<1>. QED  BY <1>2, <1>3 DEF RingSound

LEMMA RingReadLo ==
  ASSUME TypeOK, RingSound, RbReadLo
  PROVE  RingSound'
<1>1. fifo # <<>> /\ 1 \in 1 .. Len(fifo)
  BY OldestFrame DEF RbReadLo, RingSound, ConsumerCopied
<1>2. 0 \in 0 .. FrameSize(fifo[1].pkt) - 1
  BY <1>1, FrameType
<1>3. WrapAdd(rIdx, 0) = rIdx
  BY WrapAddCases, Sizes DEF TypeOK, Index
<1>4. pktLen' = FrameByte(fifo[1].pkt, 0)
  BY <1>1, <1>2, <1>3, OldestByte DEF RbReadLo
<1>5. ConsumerCopied'
  BY <1>1, <1>4 DEF RbReadLo, ConsumerCopied
<1>6. (FramesAbut /\ SpanFits /\ FramesIntact /\ ProducerCopied)'
  BY DEF RingSound, RbReadLo, prodVars, FramesAbut, Off, FrameEnd, SpanFits, BacklogShortAtWrap,
         Span, FramesIntact, ProducerCopied
<1>. QED  BY <1>5, <1>6 DEF RingSound

LEMMA RingReadHi ==
  ASSUME TypeOK, RingSound, RbReadHi
  PROVE  RingSound'
<1> DEFINE p == fifo[1].pkt
<1>1. fifo # <<>> /\ pktLen = FrameByte(p, 0)
  BY DEF RbReadHi, RingSound, ConsumerCopied
<1>2. p \in Seq(Byte) /\ FrameSize(p) <= BufSize /\ 1 \in 0 .. FrameSize(p) - 1
  BY <1>1, OldestFrame, FrameType DEF RingSound
<1>3. data[Slot(WrapAdd(rIdx, 1))] = FrameByte(p, 1)
  BY <1>1, <1>2, OldestByte
<1>4. pktLen' = Len(p)
  BY <1>1, <1>2, <1>3, LengthField DEF RbReadHi
<1>5. Len(<<>>) = 0 /\ 0 <= Len(p)
  BY <1>2
<1>6. ConsumerCopied'
  BY <1>1, <1>4, <1>5 DEF RbReadHi, ConsumerCopied
<1>7. (FramesAbut /\ SpanFits /\ FramesIntact /\ ProducerCopied)'
  BY DEF RingSound, RbReadHi, prodVars, FramesAbut, Off, FrameEnd, SpanFits, BacklogShortAtWrap,
         Span, FramesIntact, ProducerCopied
<1>. QED  BY <1>6, <1>7 DEF RingSound

LEMMA RingReadByte ==
  ASSUME TypeOK, RingSound, RbReadByte
  PROVE  RingSound'
<1> DEFINE p == fifo[1].pkt
           n == Len(out)
           b == data[Slot(WrapAdd(rIdx, 2 + n))]
<1>1. /\ fifo # <<>> /\ pktLen = Len(p) /\ n < Len(p) /\ rPc = "copy"
      /\ \A j \in 1 .. n : out[j] = p[j]
  BY DEF RbReadByte, RingSound, ConsumerCopied
<1>2. p \in Seq(Byte) /\ n \in Nat /\ out \in Seq(Byte)
  BY <1>1, OldestFrame, FrameType DEF RingSound, TypeOK
<1>3. 2 + n \in 0 .. FrameSize(p) - 1
  BY <1>1, <1>2 DEF FrameSize
<1>4. b = FrameByte(p, 2 + n)
  BY <1>1, <1>3, OldestByte
<1>5. FrameByte(p, 2 + n) = p[n + 1]
  BY <1>2 DEF FrameByte
<1>6. n + 1 \in 1 .. Len(p) /\ p[n + 1] \in Byte
  BY <1>1, <1>2
<1>7. /\ Len(out') = n + 1
      /\ \A j \in 1 .. n : out'[j] = out[j]
      /\ out'[n + 1] = p[n + 1]
  <2> HIDE DEF b, p
  <2>1. out' = Append(out, b) /\ b \in Byte
    BY <1>4, <1>5, <1>6 DEF RbReadByte, b
  <2>. QED  BY <1>2, <1>4, <1>5, <2>1, AppendProperties
<1>8. \A j \in 1 .. n + 1 : out'[j] = p[j]
  BY <1>1, <1>2, <1>7
<1>9. Len(out') <= Len(p)
  BY <1>1, <1>2, <1>7
<1>10. ConsumerCopied'
  BY <1>1, <1>7, <1>8, <1>9 DEF RbReadByte, ConsumerCopied
<1>11. (FramesAbut /\ SpanFits /\ FramesIntact /\ ProducerCopied)'
  BY DEF RingSound, RbReadByte, prodVars, FramesAbut, Off, FrameEnd, SpanFits, BacklogShortAtWrap,
         Span, FramesIntact, ProducerCopied
<1>. QED  BY <1>10, <1>11 DEF RingSound

\* rb_read stores read_idx: the oldest frame leaves, the others stay in place.
LEMMA RingRelease ==
  ASSUME TypeOK, RingSound, Release, fifo # <<>>, rPc = "copy"
  PROVE  RingSound'
<1> DEFINE U == Used(wIdx, rIdx)
           F == FrameSize(fifo[1].pkt)
           n == Len(fifo)
<1>1. /\ rIdx' = WrapAdd(rIdx, F) /\ fifo' = Tail(fifo) /\ rPc' = "idle"
      /\ UNCHANGED <<wIdx, data, wPc, wPkt, wOff>>
  BY DEF Release, prodVars, RingSound, ConsumerCopied, FrameSize
<1>2. /\ U \in Nat /\ F \in Nat /\ F >= 2 /\ n \in Nat /\ n >= 1
      /\ F <= U /\ U <= BufSize /\ Off(1) = 0 /\ FrameEnd(1) = F
  <2>1. U \in Nat /\ U <= BufSize
    BY SpanType, Sizes DEF RingSound, SpanFits, BacklogShortAtWrap, Index
  <2>2. n \in Nat /\ n >= 1
    BY DEF TypeOK
  <2>3. 1 \in 1 .. n /\ Off(1) = 0 /\ F <= U
    BY OldestFrame DEF RingSound
  <2>4. F \in Nat /\ F >= 2 /\ FrameEnd(1) = Off(1) + F
    BY <2>3, FrameType
  <2>. QED  BY <2>1, <2>2, <2>3, <2>4
<1>3. Used(wIdx', rIdx') = U - F
  <2>1. WrapSub(wIdx, WrapAdd(rIdx, F)) = WrapSub(wIdx, rIdx) - F
    BY <1>2, WrapSubShift DEF TypeOK, Used
  <2>. QED  BY <1>1, <2>1 DEF Used
<1>4. /\ Len(fifo') = n - 1 /\ DOMAIN fifo' = 1 .. n - 1
      /\ \A i \in 1 .. n - 1 : fifo'[i] = fifo[i + 1]
      /\ \A i \in 1 .. n - 1 : i + 1 \in 1 .. n
  BY <1>1, <1>2, HeadTailProperties DEF TypeOK
<1> DEFINE O(i) == WrapSub(fifo'[i].at, rIdx')
           E(i) == O(i) + FrameSize(fifo'[i].pkt)
<1>5. \A i \in 1 .. n : Off(i) \in Nat /\ FrameEnd(i) \in Nat
  BY FrameType, Sizes DEF Index
<1>6. \A i \in 1 .. n - 1 : O(i) = Off(i + 1) - F /\ E(i) = FrameEnd(i + 1) - F
  <2>1. TAKE i \in 1 .. n - 1
  <2>2. i + 1 \in 1 .. n /\ 1 \in 1 .. n /\ 1 < i + 1
    BY <1>2
  <2>3. F <= Off(i + 1)
    BY <1>2, <2>2 DEF RingSound, FramesAbut
  <2>4. fifo[i + 1].at \in Index /\ rIdx \in Index
    BY <2>2, FrameType DEF TypeOK
  <2>5. WrapSub(fifo[i + 1].at, WrapAdd(rIdx, F)) = Off(i + 1) - F
    BY <1>2, <2>3, <2>4, WrapSubShift DEF Off
  <2>6. O(i) = Off(i + 1) - F
    BY <1>1, <1>4, <2>5
  <2>7. E(i) = O(i) + FrameSize(fifo[i + 1].pkt)
        /\ FrameEnd(i + 1) = Off(i + 1) + FrameSize(fifo[i + 1].pkt)
    BY <1>4 DEF FrameEnd
  <2>8. FrameSize(fifo[i + 1].pkt) \in Nat /\ Off(i + 1) \in Nat
    BY <1>5, <2>2, FrameType
  <2> HIDE DEF O, E, F
  <2>. QED  BY <1>2, <2>6, <2>7, <2>8
<1>7. FramesAbut'
  <2> HIDE DEF U, F, n, O, E
  <2>1. /\ FrameEnd(n) = U
        /\ \A i \in 1 .. n - 1 : FrameEnd(i) = Off(i + 1)
        /\ \A i, j \in 1 .. n : i < j => FrameEnd(i) <= Off(j)
        /\ \A i \in 1 .. n : FrameEnd(i) <= U
    BY DEF RingSound, FramesAbut, U, n
  <2>2. fifo' = <<>> <=> n = 1
    BY <1>2, <1>4 DEF TypeOK
  <2>3. n = 1 => U - F = 0
    BY <1>2, <2>1
  <2>4. n # 1 => O(1) = 0 /\ E(n - 1) = U - F
    <3>1. SUFFICES ASSUME n # 1  PROVE O(1) = 0 /\ E(n - 1) = U - F
      OBVIOUS
    <3>2. 1 \in 1 .. n - 1 /\ n - 1 \in 1 .. n - 1 /\ (n - 1) + 1 = n
      BY <1>2, <3>1
    <3>3. Off(1 + 1) = F
      BY <1>2, <2>1, <3>2
    <3>4. O(1) = Off(1 + 1) - F
      BY <1>6, <3>2
    <3>5. E(n - 1) = FrameEnd(n) - F
      BY <1>6, <3>2
    <3>. QED  BY <1>2, <2>1, <3>3, <3>4, <3>5
  <2>5. \A i \in 1 .. (n - 1) - 1 : E(i) = O(i + 1)
    <3>1. TAKE i \in 1 .. (n - 1) - 1
    <3>2. i \in 1 .. n - 1 /\ i + 1 \in 1 .. n - 1
      BY <1>2
    <3>3. E(i) = FrameEnd(i + 1) - F /\ O(i + 1) = Off((i + 1) + 1) - F
      BY <1>6, <3>2
    <3>4. FrameEnd(i + 1) = Off((i + 1) + 1)
      BY <2>1, <3>2
    <3>. QED  BY <3>3, <3>4
  <2>6. \A i, j \in 1 .. n - 1 : i < j => E(i) <= O(j)
    <3>1. TAKE i, j \in 1 .. n - 1
    <3>2. HAVE i < j
    <3>3. i + 1 \in 1 .. n /\ j + 1 \in 1 .. n /\ i + 1 < j + 1
      BY <1>2, <3>2
    <3>4. FrameEnd(i + 1) <= Off(j + 1)
      BY <2>1, <3>3
    <3>5. E(i) = FrameEnd(i + 1) - F /\ O(j) = Off(j + 1) - F
      BY <1>6
    <3>6. FrameEnd(i + 1) \in Nat /\ Off(j + 1) \in Nat /\ F \in Nat
      BY <1>2, <1>5, <3>3
    <3>. QED  BY <3>4, <3>5, <3>6
  <2>7. \A i \in 1 .. n - 1 : E(i) <= U - F
    <3>1. TAKE i \in 1 .. n - 1
    <3>2. FrameEnd(i + 1) <= U /\ FrameEnd(i + 1) \in Nat
      BY <1>4, <1>5, <2>1
    <3>. QED  BY <1>2, <1>6, <3>2
  <2>. QED
    BY <1>3, <1>4, <2>2, <2>3, <2>4, <2>5, <2>6, <2>7
       DEF FramesAbut, Off, FrameEnd, O, E
<1>8. SpanFits'
  <2> DEFINE s == Span
  <2>1. Span' = s - F
    BY <1>1, <1>2, <1>3, SpanType DEF Span
  <2>2. s \in Nat /\ s <= BufSize /\ U <= s
    BY SpanType DEF RingSound, SpanFits, BacklogShortAtWrap
  <2>3. rIdx + s > IdxMod => s <= WrapGap
    BY DEF RingSound, SpanFits, BacklogShortAtWrap
  <2>4. rIdx' = IF rIdx + F < IdxMod THEN rIdx + F ELSE rIdx + F - IdxMod
    BY <1>1, <1>2, WrapAddCases, Sizes DEF TypeOK
  <2>5. rIdx \in Nat /\ rIdx < IdxMod
    BY Sizes DEF TypeOK, Index
  <2>6. WrapGap \in Nat
    BY WrapGapIsRest
  <2> HIDE DEF s, U, F, n
  <2>7. s - F <= BufSize
    BY <1>2, <2>2, Sizes
  <2>8. rIdx' + (s - F) > IdxMod => s - F <= WrapGap
    BY <1>2, <2>2, <2>3, <2>4, <2>5, <2>6, Sizes
  <2>. QED  BY <2>1, <2>7, <2>8 DEF SpanFits, BacklogShortAtWrap, WrapGap
<1>9. FramesIntact'
  BY <1>1, <1>4 DEF RingSound, FramesIntact, TypeOK
<1>10. ProducerCopied'
  BY <1>1 DEF RingSound, ProducerCopied
<1>11. ConsumerCopied'
  BY <1>1 DEF ConsumerCopied
<1>. QED  BY <1>7, <1>8, <1>9, <1>10, <1>11 DEF RingSound

\* Every step keeps the ring invariant.
LEMMA RingNext == TypeOK /\ RingInv /\ [Next]_vars => RingInv'
<1> SUFFICES ASSUME TypeOK, RingInv, [Next]_vars, ~lapped'
             PROVE  RingSound'
  BY DEF RingInv
<1>1. ~lapped
  BY DEF Next, Producer, Consumer, RbWriteRefuse, RbWriteAccept, RbWriteByte,
         RbWritePublish, RbReadEmpty, RbReadBegin, RbReadLo, RbReadHi,
         RbReadByte, RbReadOversize, RbReadDone, Release, vars, TypeOK
<1>2. RingSound
  BY <1>1 DEF RingInv
<1>3. ASSUME NEW p \in Packets, RbWriteRefuse(p)
      PROVE  RingSound'
  BY <1>2, <1>3, RingStutter DEF RbWriteRefuse, consVars
<1>4. ASSUME NEW p \in Packets, RbWriteAccept(p)
      PROVE  RingSound'
  BY <1>2, <1>4, RingAccept
<1>5. CASE RbWriteByte
  BY <1>2, <1>5, RingWriteByte
<1>6. CASE RbWritePublish
  BY <1>2, <1>6, RingPublish
<1>7. CASE RbReadEmpty
  BY <1>2, <1>7, RingStutter DEF RbReadEmpty, prodVars
<1>8. CASE RbReadBegin
  BY <1>2, <1>8, RingReadBegin
<1>9. CASE RbReadLo
  BY <1>2, <1>9, RingReadLo
<1>10. CASE RbReadHi
  BY <1>2, <1>10, RingReadHi
<1>11. CASE RbReadByte
  BY <1>2, <1>11, RingReadByte
<1>12. CASE RbReadOversize \/ RbReadDone
  <2>1. Release /\ rPc = "copy"
    BY <1>12 DEF RbReadOversize, RbReadDone
  <2>2. fifo # <<>>
    BY <1>2, <2>1 DEF RingSound, ConsumerCopied
  <2>. QED  BY <1>2, <2>1, <2>2, RingRelease
<1>13. CASE UNCHANGED vars
  BY <1>2, <1>13, RingStutter DEF vars, prodVars, consVars
<1>. QED
  BY <1>3, <1>4, <1>5, <1>6, <1>7, <1>8, <1>9, <1>10, <1>11, <1>12, <1>13
     DEF Next, Producer, Consumer

-----------------------------------------------------------------------------
(* The theorems. *)

\* Whatever the two cores do, the indices stay u32, the frame being stored is
\* never overrun and the length field is a u16 (rb_write, rb_read).
THEOREM TypeCorrect == Spec => []TypeOK
  BY TypeInit, TypeNext, PTL DEF Spec

\* The ring invariant holds in every reachable state, whatever the size of the
\* ring and of its indices (rb_write and rb_read together).
THEOREM RingCorrect == Spec => []RingInv
<1>1. Init => RingInv
  BY RingInit DEF RingInv
<1>. QED  BY <1>1, RingNext, TypeCorrect, PTL DEF Spec

\* rb_write never overwrites an unread byte, except where the index wrap makes
\* two indices of a frame and of an unread one share a slot.
THEOREM FramesStayIntact == Spec => [](~lapped => FramesIntact)
<1>1. RingInv => (~lapped => FramesIntact)
  BY DEF RingInv, RingSound
<1>. QED  BY <1>1, RingCorrect, PTL

\* Until a frame laps an unread one, rb_write on one core and rb_read on the
\* other, interleaved byte by byte, never work on the same byte of the data area.
THEOREM NoRaceOnData == Spec => []NoDataRace
<1>1. TypeOK /\ RingInv => NoDataRace
  <2>1. SUFFICES ASSUME TypeOK, RingSound, wPc = "copy", rPc # "idle",
                        NEW k \in wOff .. FrameSize(wPkt) - 1,
                        NEW j \in 0 .. FrameSize(Head(fifo).pkt) - 1
                 PROVE  Slot(WrapAdd(wIdx, k)) # Slot(WrapAdd(rIdx, j))
    BY DEF NoDataRace, RingInv
  <2>2. fifo # <<>>
    BY <2>1 DEF RingSound, ConsumerCopied
  <2>3. Head(fifo) = fifo[1] /\ fifo[1].at = rIdx /\ 1 \in 1 .. Len(fifo)
    BY <2>1, <2>2, OldestFrame DEF RingSound, TypeOK
  <2>4. k \in 0 .. FrameSize(wPkt) - 1
    BY <2>1, SpanType DEF TypeOK
  <2>. QED  BY <2>1, <2>3, <2>4, ReadWriteApart DEF RingSound
<1>. QED  BY <1>1, TypeCorrect, RingCorrect, PTL

\* Until a frame laps an unread one, what rb_read is about to return is the oldest
\* packet rb_write published.
THEOREM ReadsOldest == Spec => []DeliversOldest
<1>1. TypeOK /\ RingInv => DeliversOldest
  <2>1. SUFFICES ASSUME TypeOK, RingSound, rPc = "copy", Len(out) = pktLen
                 PROVE  fifo # <<>> /\ out = Head(fifo).pkt
    BY DEF DeliversOldest, ReadsNextPacket, RingInv
  <2> DEFINE p == fifo[1].pkt
  <2>2. /\ fifo # <<>> /\ Len(out) = Len(p)
        /\ \A j \in 1 .. Len(out) : out[j] = p[j]
    BY <2>1 DEF RingSound, ConsumerCopied
  <2>3. Head(fifo) = fifo[1] /\ p \in Seq(Byte) /\ out \in Seq(Byte)
    BY <2>1, <2>2, OldestFrame, FrameType DEF RingSound, TypeOK
  <2> HIDE DEF p
  <2>4. out = p
    BY <2>2, <2>3, SeqEqual
  <2>. QED  BY <2>2, <2>3, <2>4 DEF p
<1>. QED  BY <1>1, TypeCorrect, RingCorrect, PTL
=============================================================================

------------------------------ MODULE IpcRing -------------------------------
(***************************************************************************)
(* One ring buffer of the thingy53-ipc crate (src/ipc/src/lib.rs): one     *)
(* core runs rb_write, the other core runs rb_read, both on the same       *)
(* shared memory.  Each access to memory the other core may touch is a     *)
(* step of its own, so a call of one core interleaves with a call of the   *)
(* other at every byte.                                                    *)
(*                                                                         *)
(* Indices are u32 and never reset: they count bytes modulo IdxMod = 2^32, *)
(* and the slot of an index is its remainder modulo BufSize = 14328, which *)
(* does not divide 2^32.  The index arithmetic is that of the release      *)
(* build, where usize addition wraps.                                      *)
(***************************************************************************)
EXTENDS Integers, Sequences

CONSTANTS
  BufSize,    \* bytes of payload storage (N2A_BUF_SIZE, A2N_BUF_SIZE)
  IdxMod,     \* number of values of an index (2^32)
  ByteMod,    \* number of values of a byte (256)
  OutLen,     \* out.len() of the rb_read caller
  Packets,    \* payloads the rb_write caller may pass
  Uninit,     \* bytes the data area may hold at power-up
  None        \* Option::None, and "no call has returned yet"

Byte == 0 .. ByteMod - 1
Slots == 0 .. BufSize - 1
Index == 0 .. IdxMod - 1

ASSUME RingAssumption ==
  /\ BufSize \in Nat /\ BufSize >= 2
  /\ IdxMod \in Nat /\ IdxMod > 2 * BufSize
  /\ ByteMod \in Nat /\ ByteMod >= 2 /\ ByteMod * ByteMod > BufSize
  /\ OutLen \in Nat
  /\ \A p \in Packets : p \in Seq(Byte)
  /\ Uninit \subseteq Byte /\ Uninit # {}
  /\ None \notin Packets

VARIABLES
  wIdx,       \* write_idx, stored by the producer only
  rIdx,       \* read_idx, stored by the consumer only
  data,       \* data[BufSize]
  wPc,        \* producer: "idle" (between calls) or "copy"
  wPkt,       \* producer: payload of the call in progress
  wOff,       \* producer: frame bytes stored so far
  wRet,       \* result of the last rb_write call
  rPc,        \* consumer: "idle", "lo", "hi" or "copy"
  pktLen,     \* consumer: the length field as far as it is read
  out,        \* consumer: payload bytes copied so far
  rRet,       \* result of the last rb_read call
  fifo,       \* history: frames published and not released, oldest first
  lapped      \* history: a frame was accepted over a slot still in use

prodVars == <<wPc, wPkt, wOff, wRet>>
consVars == <<rPc, pktLen, out, rRet>>
vars == <<wIdx, rIdx, data, prodVars, consVars, fifo, lapped>>

-----------------------------------------------------------------------------
(* Index arithmetic and framing. *)

\* (Faulty variant) indices that do not wrap.
WrapAddNoWrap(i, n) == i + n

WrapAdd(i, n) == (i + n) % IdxMod

WrapSub(i, n) == (i - n) % IdxMod

\* The byte an index denotes.
Slot(i) == i % BufSize

Used(w, r) == WrapSub(w, r)

\* (Faulty variant) the full check is off by one.
FreePlusOne(w, r) == WrapSub(BufSize, Used(w, r)) + 1

Free(w, r) == WrapSub(BufSize, Used(w, r))

FrameSize(p) == 2 + Len(p)

\* Byte k of the frame of p: the u16 length, low byte first, then the payload.
FrameByte(p, k) ==
  IF k = 0 THEN Len(p) % ByteMod
  ELSE IF k = 1 THEN (Len(p) \div ByteMod) % ByteMod
  ELSE p[k - 1]

\* Distance from the last multiple of BufSize below IdxMod to IdxMod: two
\* indices on either side of the wrap share a slot when they are this far apart.
WrapGap == IF IdxMod % BufSize = 0 THEN BufSize ELSE IdxMod % BufSize

\* The bytes from read_idx to the end of a frame of n bytes put at write_idx
\* straddle the wrap and are more than WrapGap.
Laps(n) ==
  LET span == Used(wIdx, rIdx) + n IN rIdx + span > IdxMod /\ span > WrapGap

-----------------------------------------------------------------------------
Init ==
  /\ wIdx = 0 /\ rIdx = 0
  /\ data \in [Slots -> Uninit]
  /\ wPc = "idle" /\ wPkt = <<>> /\ wOff = 0 /\ wRet = None
  /\ rPc = "idle" /\ pktLen = 0 /\ out = <<>> /\ rRet = None
  /\ fifo = <<>> /\ lapped = FALSE

-----------------------------------------------------------------------------
(* rb_write.  The only access to memory of the other core before the bytes *)
(* are stored is the load of read_idx, so the checks are one step.         *)

RbWriteRefuse(p) ==
  /\ wPc = "idle"
  /\ FrameSize(p) > BufSize \/ Free(wIdx, rIdx) < FrameSize(p)
  /\ wRet' = FALSE
  /\ UNCHANGED <<wIdx, rIdx, data, wPc, wPkt, wOff, consVars, fifo, lapped>>

RbWriteAccept(p) ==
  /\ wPc = "idle"
  /\ FrameSize(p) <= BufSize
  /\ Free(wIdx, rIdx) >= FrameSize(p)
  /\ wPc' = "copy" /\ wPkt' = p /\ wOff' = 0
  /\ lapped' = (lapped \/ Laps(FrameSize(p)))
  /\ UNCHANGED <<wIdx, rIdx, data, wRet, consVars, fifo>>

RbWriteByte ==
  /\ wPc = "copy"
  /\ wOff < FrameSize(wPkt)
  /\ data' = [data EXCEPT ![Slot(WrapAdd(wIdx, wOff))] = FrameByte(wPkt, wOff)]
  /\ wOff' = wOff + 1
  /\ UNCHANGED <<wIdx, rIdx, wPc, wPkt, wRet, consVars, fifo, lapped>>

\* (Faulty variant) write_idx is stored before the payload bytes are.
RbWritePublishEarly ==
  /\ wPc = "copy"
  /\ wOff \in 2 .. FrameSize(wPkt)
  /\ wIdx' = WrapAdd(wIdx, FrameSize(wPkt))
  /\ wPc' = "idle" /\ wRet' = TRUE
  /\ fifo' = Append(fifo, [pkt |-> wPkt, at |-> wIdx])
  /\ UNCHANGED <<rIdx, data, wPkt, wOff, consVars, lapped>>

RbWritePublish ==
  /\ wPc = "copy"
  /\ wOff = FrameSize(wPkt)
  /\ wIdx' = WrapAdd(wIdx, FrameSize(wPkt))
  /\ wPc' = "idle" /\ wRet' = TRUE
  /\ fifo' = Append(fifo, [pkt |-> wPkt, at |-> wIdx])
  /\ UNCHANGED <<rIdx, data, wPkt, wOff, consVars, lapped>>

-----------------------------------------------------------------------------
(* rb_read. *)

RbReadEmpty ==
  /\ rPc = "idle"
  /\ wIdx = rIdx
  /\ rRet' = None
  /\ UNCHANGED <<wIdx, rIdx, data, prodVars, rPc, pktLen, out, fifo, lapped>>

RbReadBegin ==
  /\ rPc = "idle"
  /\ wIdx # rIdx
  /\ rPc' = "lo"
  /\ UNCHANGED <<wIdx, rIdx, data, prodVars, pktLen, out, rRet, fifo, lapped>>

RbReadLo ==
  /\ rPc = "lo"
  /\ pktLen' = data[Slot(rIdx)]
  /\ rPc' = "hi"
  /\ UNCHANGED <<wIdx, rIdx, data, prodVars, out, rRet, fifo, lapped>>

RbReadHi ==
  /\ rPc = "hi"
  /\ pktLen' = pktLen + ByteMod * data[Slot(WrapAdd(rIdx, 1))]
  /\ rPc' = "copy" /\ out' = <<>>
  /\ UNCHANGED <<wIdx, rIdx, data, prodVars, rRet, fifo, lapped>>

\* (Faulty variant) the payload is read from one byte too early.
RbReadByteOffByOne ==
  /\ rPc = "copy"
  /\ pktLen <= OutLen
  /\ Len(out) < pktLen
  /\ out' = Append(out, data[Slot(WrapAdd(rIdx, 1 + Len(out)))])
  /\ UNCHANGED <<wIdx, rIdx, data, prodVars, rPc, pktLen, rRet, fifo, lapped>>

RbReadByte ==
  /\ rPc = "copy"
  /\ pktLen <= OutLen
  /\ Len(out) < pktLen
  /\ out' = Append(out, data[Slot(WrapAdd(rIdx, 2 + Len(out)))])
  /\ UNCHANGED <<wIdx, rIdx, data, prodVars, rPc, pktLen, rRet, fifo, lapped>>

\* (Faulty variant) read_idx does not move past the length field.
ReleasePayloadOnly ==
  /\ rIdx' = WrapAdd(rIdx, pktLen)
  /\ rPc' = "idle"
  /\ fifo' = IF fifo = <<>> THEN fifo ELSE Tail(fifo)
  /\ UNCHANGED <<wIdx, data, prodVars, pktLen, out, lapped>>

\* The store of read_idx that gives the frame's bytes back to the producer.
Release ==
  /\ rIdx' = WrapAdd(rIdx, 2 + pktLen)
  /\ rPc' = "idle"
  /\ fifo' = IF fifo = <<>> THEN fifo ELSE Tail(fifo)
  /\ UNCHANGED <<wIdx, data, prodVars, pktLen, out, lapped>>

\* The packet does not fit the caller's buffer: it is skipped.
RbReadOversize ==
  /\ rPc = "copy"
  /\ pktLen > OutLen
  /\ rRet' = None
  /\ Release

RbReadDone ==
  /\ rPc = "copy"
  /\ pktLen <= OutLen
  /\ Len(out) = pktLen
  /\ rRet' = out
  /\ Release

-----------------------------------------------------------------------------
Producer ==
  \/ \E p \in Packets : RbWriteRefuse(p) \/ RbWriteAccept(p)
  \/ RbWriteByte
  \/ RbWritePublish

Consumer ==
  \/ RbReadEmpty
  \/ RbReadBegin
  \/ RbReadLo
  \/ RbReadHi
  \/ RbReadByte
  \/ RbReadOversize
  \/ RbReadDone

Next == Producer \/ Consumer

Spec == Init /\ [][Next]_vars

-----------------------------------------------------------------------------
(* Properties. *)

\* A published frame: its payload and the index of its first byte.
Frame == [pkt : Seq(Byte), at : Index]

\* Every variable stays in its range: the indices are u32, a frame being
\* stored never runs past its size, and the length field is a u16.
TypeOK ==
  /\ wIdx \in Index /\ rIdx \in Index
  /\ data \in [Slots -> Byte]
  /\ wPc \in {"idle", "copy"}
  /\ wPkt \in Seq(Byte)
  /\ wPc = "copy" => wPkt \in Packets
  /\ wOff \in 0 .. FrameSize(wPkt)
  /\ wRet = None \/ wRet \in BOOLEAN
  /\ rPc \in {"idle", "lo", "hi", "copy"}
  /\ pktLen \in 0 .. ByteMod * ByteMod - 1
  /\ rPc = "hi" => pktLen \in Byte
  /\ out \in Seq(Byte)
  /\ rRet = None \/ rRet \in Seq(Byte)
  /\ fifo \in Seq(Frame)
  /\ lapped \in BOOLEAN

\* Every byte of every frame that was published and is not released is still
\* in its slot.  The full check of rb_write keeps it so until it accepts a frame
\* that laps an unread one (a part of RingSound, which RingInv asks for only
\* until then).
FramesIntact ==
  \A i \in DOMAIN fifo : \A k \in 0 .. FrameSize(fifo[i].pkt) - 1 :
    data[Slot(WrapAdd(fifo[i].at, k))] = FrameByte(fifo[i].pkt, k)

\* Until a frame laps an unread one, the slots the rb_read in progress may still
\* load are none of those the rb_write in progress may still store: the two cores
\* do not race on a byte.
NoDataRace ==
  (~lapped /\ wPc = "copy" /\ rPc # "idle") =>
    \A k \in wOff .. FrameSize(wPkt) - 1 :
      \A j \in 0 .. FrameSize(Head(fifo).pkt) - 1 :
        Slot(WrapAdd(wIdx, k)) # Slot(WrapAdd(rIdx, j))

\* A call of rb_read that returns a packet returns the oldest published one,
\* whole and unchanged: "Read the next HCI packet".  It holds as long as no
\* frame lapped an unread one; run ipc_wrap_overlap shows what happens then.
ReadsNextPacket ==
  (rPc = "copy" /\ Len(out) = pktLen) => fifo # <<>> /\ out = Head(fifo).pkt

DeliversOldest == ~lapped => ReadsNextPacket

(* Why the properties above hold: the inductive invariant of the proofs. *)

\* Bytes from read_idx to the first byte of the i-th unread frame.
Off(i) == WrapSub(fifo[i].at, rIdx)

FrameEnd(i) == Off(i) + FrameSize(fifo[i].pkt)

\* Bytes in use, those of the frame being stored included.
Span ==
  Used(wIdx, rIdx) + (IF wPc = "copy" THEN FrameSize(wPkt) ELSE 0)

\* The unread frames lie one behind the other from read_idx to write_idx.
FramesAbut ==
  /\ fifo = <<>> => Used(wIdx, rIdx) = 0
  /\ fifo # <<>> => Off(1) = 0 /\ FrameEnd(Len(fifo)) = Used(wIdx, rIdx)
  /\ \A i \in 1 .. Len(fifo) - 1 : FrameEnd(i) = Off(i + 1)
  /\ \A i, j \in 1 .. Len(fifo) : i < j => FrameEnd(i) <= Off(j)
  /\ \A i \in 1 .. Len(fifo) : FrameEnd(i) <= Used(wIdx, rIdx)

\* When the bytes in use straddle the index wrap they are at most WrapGap, 6016 in
\* the crate: then no two of them share a slot.  The code does not see to it.
BacklogShortAtWrap == rIdx + Span > IdxMod => Span <= WrapGap

\* The bytes in use fit the ring, and share no slot across the index wrap.
SpanFits == Span <= BufSize /\ BacklogShortAtWrap

\* The producer has stored the first wOff bytes of its frame behind write_idx.
ProducerCopied ==
  wPc = "copy" => \A k \in 0 .. wOff - 1 :
    data[Slot(WrapAdd(wIdx, k))] = FrameByte(wPkt, k)

\* What the consumer has read so far belongs to the oldest unread frame.
ConsumerCopied ==
  /\ rPc # "idle" => fifo # <<>>
  /\ rPc = "hi" => pktLen = FrameByte(fifo[1].pkt, 0)
  /\ rPc = "copy" =>
       /\ pktLen = Len(fifo[1].pkt)
       /\ Len(out) <= pktLen
       /\ \A j \in 1 .. Len(out) : out[j] = fifo[1].pkt[j]

RingSound ==
  /\ FramesAbut
  /\ SpanFits
  /\ FramesIntact
  /\ ProducerCopied
  /\ ConsumerCopied

\* The inductive invariant: as long as no frame lapped an unread one, the ring
\* holds exactly the unread frames, each call in progress works on its own
\* bytes only, and what it has copied so far is right.
RingInv == ~lapped => RingSound

-----------------------------------------------------------------------------
Payloads(f) == [i \in DOMAIN f |-> f[i].pkt]

\* The ring is the packet queue of PacketFifo: publishing is sending, releasing
\* is receiving, and every other step is invisible, until a frame laps an unread
\* one.
Fifo == INSTANCE PacketFifo WITH
  Capacity <- BufSize,
  queue <- Payloads(fifo),
  used <- Used(wIdx, rIdx),
  sendRet <- wRet,
  recvRet <- rRet

ImplementsFifo == Fifo!Spec
=============================================================================

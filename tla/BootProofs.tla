----------------------------- MODULE BootProofs -----------------------------
(***************************************************************************)
(* Proofs about Boot, for every size of the ring and set of packets.  What *)
(* is known of the link comes from IpcLinkProofs: the steps of booting are *)
(* steps of the link or leave it alone.                                    *)
(***************************************************************************)
EXTENDS Boot, IpcLinkProofs

\* What the order of main's steps on the app core guarantees: each step's effect
\* is there once it is past, and the net core runs only after all of them.
BootOrder ==
  /\ appPc # "spu" => shared = OpenedRegions
  /\ appPc \notin {"spu", "init"} => cleared = Indices
  /\ appPc \notin {"spu", "init", "events"} => appOn
  /\ netPc # "off" => appPc \in {"start", "run"}
  /\ ~n2aEarly

BootInv == BootTypeOK /\ BootOrder

-----------------------------------------------------------------------------
(* The link's guarantee from power-up on. *)

LEMMA BootStepIsLinkStep == [BootNext]_allVars => [Next]_linkVars
<1> SUFFICES ASSUME [BootNext]_allVars
             PROVE  [Next]_linkVars
  OBVIOUS
<1>1. CASE AppBoot
  BY <1>1 DEF AppBoot, ConfigureSpu, IpcInit, ConfigureEvents, ReleaseNetCore, StartTasks
<1>2. CASE AppSends
  BY <1>2 DEF AppSends, Next
<1>3. CASE AppWakes
  BY <1>3 DEF AppWakes
<1>4. CASE NetCore
  BY <1>4 DEF NetCore, NetConfigure, NetInit, NetReceives, Next, Receiver
<1>5. CASE NetTriggers
  BY <1>5 DEF NetTriggers
<1>6. CASE UNCHANGED allVars
  BY <1>6 DEF allVars
<1>. QED  BY <1>1, <1>2, <1>3, <1>4, <1>5, <1>6 DEF BootNext

\* A packet the app core sends while the net core brings up its controller is not
\* forgotten, and one whose trigger came before the net core had configured its
\* event only until the next trigger.
THEOREM BootLosesNoWakeup == BootSpec => []NoLostWakeup
<1>1. BootInit => Init
  BY DEF BootInit
<1>2. BootSpec => Spec
  BY <1>1, BootStepIsLinkStep, PTL DEF BootSpec, Spec
<1>. QED  BY <1>2, NoWakeupLost, PTL

-----------------------------------------------------------------------------
(* The order of the steps of the app core. *)

LEMMA BootInvInit == BootInit => BootInv
<1> SUFFICES ASSUME BootInit  PROVE BootInv
  OBVIOUS
<1>1. TypeOK
  BY LinkTypeInit DEF BootInit
<1>. QED  BY <1>1 DEF BootInit, BootInv, BootTypeOK, BootOrder

LEMMA BootInvNext == BootInv /\ [BootNext]_allVars => BootInv'
<1> SUFFICES ASSUME BootInv, [BootNext]_allVars
             PROVE  BootInv'
  OBVIOUS
<1>0. TypeOK'
  BY BootStepIsLinkStep, LinkTypeNext DEF BootInv, BootTypeOK
<1> USE DEF BootInv, BootTypeOK, BootOrder
<1>1. CASE ConfigureSpu
  <2>1. OpenedRegions \subseteq 0 .. 63
    BY DEF OpenedRegions
  <2>. QED  BY <1>0, <1>1, <2>1 DEF ConfigureSpu
<1>2. CASE IpcInit
  BY <1>0, <1>2 DEF IpcInit
<1>3. CASE ConfigureEvents
  BY <1>0, <1>3 DEF ConfigureEvents
<1>4. CASE ReleaseNetCore
  BY <1>0, <1>4 DEF ReleaseNetCore
<1>5. CASE StartTasks
  BY <1>0, <1>5 DEF StartTasks
<1>6. CASE AppSends
  BY <1>0, <1>6 DEF AppSends, bootVars
<1>7. CASE AppWakes
  BY <1>0, <1>7 DEF AppWakes
<1>8. CASE NetConfigure
  BY <1>0, <1>8 DEF NetConfigure
<1>9. CASE NetInit
  BY <1>0, <1>9 DEF NetInit
<1>10. CASE NetReceives
  BY <1>0, <1>10 DEF NetReceives, bootVars
<1>11. CASE NetTriggers
  BY <1>0, <1>11 DEF NetTriggers
<1>12. CASE UNCHANGED allVars
  BY <1>0, <1>12 DEF allVars, bootVars
<1>. QED
  BY <1>1, <1>2, <1>3, <1>4, <1>5, <1>6, <1>7, <1>8, <1>9, <1>10, <1>11, <1>12
     DEF BootNext, AppBoot, NetCore

LEMMA BootInvariant == BootSpec => []BootInv
  BY BootInvInit, BootInvNext, PTL DEF BootSpec

\* Each variable of the boot sequence stays in its range (the two mains).
THEOREM BootTypeCorrect == BootSpec => []BootTypeOK
  BY BootInvariant, PTL DEF BootInv

LEMMA RingsInOpenedRegions ==
  RegionsOf(N2ABase) \cup RegionsOf(A2NBase) \subseteq OpenedRegions
<1>1. RegionsOf(N2ABase) = 28 .. 29
  BY DEF RegionsOf, N2ABase, ShmemBase, RingBytes, RegionBytes
<1>2. RegionsOf(A2NBase) = 29 .. 31
  BY DEF RegionsOf, A2NBase, ShmemBase, RingBytes, RegionBytes
<1>. QED  BY <1>1, <1>2 DEF OpenedRegions

\* The regions main opens hold both rings, and they are open, and the indices
\* cleared, before any loop of either core looks at a ring.
THEOREM SharedMemoryIsReady == BootSpec => []SharedMemoryReady
<1>1. BootInv => SharedMemoryReady
  BY RingsInOpenedRegions DEF BootInv, BootTypeOK, BootOrder, SharedMemoryReady
<1>. QED  BY <1>1, BootInvariant, PTL

\* The app core has configured its event before the net core can trigger it.
THEOREM NetTriggersAreHeard == BootSpec => []NetTriggersHeard
<1>1. BootInv => NetTriggersHeard
  BY DEF BootInv, BootOrder, NetTriggersHeard
<1>. QED  BY <1>1, BootInvariant, PTL
=============================================================================

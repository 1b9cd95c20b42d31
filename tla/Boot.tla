-------------------------------- MODULE Boot --------------------------------
(***************************************************************************)
(* How the two cores come up (main of app/src/main.rs and of               *)
(* net/src/main.rs), in front of the app-to-net link, the one whose        *)
(* receiver starts later than its sender.                                  *)
(*                                                                         *)
(* The app core opens the shared memory to the net core, clears the ring   *)
(* indices, configures its IPC events and releases the net core, which is  *)
(* held in reset until then.  From there both run: the app core starts its *)
(* tasks, the net core configures its own events and then brings up MPSL   *)
(* and the controller before its loops look at a ring.  Neither waits for  *)
(* the other, so the app core may send in any of these states.             *)
(*                                                                         *)
(* The variables of IpcLink are those of the app-to-net direction.  Of the *)
(* other direction only the event matters here.                            *)
(***************************************************************************)
EXTENDS IpcLink

VARIABLES
  appPc,     \* app core: "spu", "init", "events", "release", "start" or "run"
  netPc,     \* net core: "off", "configure", "init" or "run"
  shared,    \* the SPU regions of the app core's RAM that are non-secure
  cleared,   \* the ring indices that have been set to zero
  appOn,     \* the app core has configured Event0
  n2aLatch,  \* Event0 is set
  n2aEarly   \* history: Event0 was triggered before it was configured

bootVars == <<appPc, netPc, shared, cleared, appOn, n2aLatch, n2aEarly>>
allVars == <<linkVars, bootVars>>

-----------------------------------------------------------------------------
(* Addresses, relative to the start of the app core's RAM. *)

ShmemBase == \h38000                \* IPC_SHMEM_BASE
N2ABase == ShmemBase
A2NBase == ShmemBase + 14 * 1024
RingBytes == 14 * 1024              \* a ring with its two indices
RegionBytes == 8 * 1024             \* what one SPU region covers

\* The SPU regions a ring lies in.
RegionsOf(base) == base \div RegionBytes .. (base + RingBytes - 1) \div RegionBytes

\* (Faulty variant) `28..31`, as a Rust range without its end.
OpenedRegionsExclusive == 28 .. 30

\* The regions main opens: 28..=31.
OpenedRegions == 28 .. 31

Indices == {"n2aWrite", "n2aRead", "a2nWrite", "a2nRead"}

-----------------------------------------------------------------------------
BootInit ==
  /\ Init /\ listening = FALSE
  /\ appPc = "spu" /\ netPc = "off"
  /\ shared = {} /\ cleared = {}
  /\ appOn = FALSE /\ n2aLatch = FALSE /\ n2aEarly = FALSE

(* The app core. *)

ConfigureSpu ==
  /\ appPc = "spu" /\ appPc' = "init"
  /\ shared' = OpenedRegions
  /\ UNCHANGED <<linkVars, netPc, cleared, appOn, n2aLatch, n2aEarly>>

IpcInit ==
  /\ appPc = "init" /\ appPc' = "events"
  /\ cleared' = Indices
  /\ UNCHANGED <<linkVars, netPc, shared, appOn, n2aLatch, n2aEarly>>

ConfigureEvents ==
  /\ appPc = "events" /\ appPc' = "release"
  /\ appOn' = TRUE
  /\ UNCHANGED <<linkVars, netPc, shared, cleared, n2aLatch, n2aEarly>>

\* (Faulty variant) the net core is released before the events are configured.
ReleaseNetCoreEarly ==
  /\ appPc \in {"events", "release"} /\ netPc = "off"
  /\ netPc' = "configure"
  /\ appPc' = IF appPc = "release" THEN "start" ELSE appPc
  /\ UNCHANGED <<linkVars, shared, cleared, appOn, n2aLatch, n2aEarly>>

ReleaseNetCore ==
  /\ appPc = "release" /\ appPc' = "start"
  /\ netPc' = "configure"
  /\ UNCHANGED <<linkVars, shared, cleared, appOn, n2aLatch, n2aEarly>>

\* USB is set up and the tasks are spawned.
StartTasks ==
  /\ appPc = "start" /\ appPc' = "run"
  /\ UNCHANGED <<linkVars, netPc, shared, cleared, appOn, n2aLatch, n2aEarly>>

\* cmd_task and usb_read_task send.
AppSends == appPc = "run" /\ Sender /\ UNCHANGED bootVars

\* ipc_recv_task: event.wait() returns.
AppWakes ==
  /\ appPc = "run" /\ n2aLatch
  /\ n2aLatch' = FALSE
  /\ UNCHANGED <<linkVars, appPc, netPc, shared, cleared, appOn, n2aEarly>>

(* The net core. *)

NetConfigure ==
  /\ netPc = "configure" /\ netPc' = "init"
  /\ Configure
  /\ UNCHANGED <<appPc, shared, cleared, appOn, n2aLatch, n2aEarly>>

\* (Faulty variant) a late initialisation of the peripheral clears the event.
NetInitClears ==
  /\ netPc = "init" /\ netPc' = "run"
  /\ latch' = FALSE
  /\ UNCHANGED <<ringVars, listening, txPc, rxPc, early,
                 appPc, shared, cleared, appOn, n2aLatch, n2aEarly>>

\* MPSL and the controller.
NetInit ==
  /\ netPc = "init" /\ netPc' = "run"
  /\ UNCHANGED <<linkVars, appPc, shared, cleared, appOn, n2aLatch, n2aEarly>>

\* ipc_rx_loop
NetReceives ==
  /\ netPc = "run"
  /\ WaitEvent \/ ReadPacket \/ ReadEmpty \/ ReturnToWait \/ HandlePacket
  /\ UNCHANGED bootVars

\* notify_app: the trigger that follows a successful write.
NetTriggers ==
  /\ netPc = "run"
  /\ n2aLatch' = (n2aLatch \/ appOn) /\ n2aEarly' = (n2aEarly \/ ~appOn)
  /\ UNCHANGED <<linkVars, appPc, netPc, shared, cleared, appOn>>

AppBoot == ConfigureSpu \/ IpcInit \/ ConfigureEvents \/ ReleaseNetCore \/ StartTasks
NetCore == NetConfigure \/ NetInit \/ NetReceives

BootNext == AppBoot \/ AppSends \/ AppWakes \/ NetCore \/ NetTriggers

BootSpec == BootInit /\ [][BootNext]_allVars

\* Both cores run their code; the app core's tasks trigger what they have written.
BootFairSpec ==
  /\ BootSpec
  /\ WF_allVars(AppBoot) /\ WF_allVars(appPc = "run" /\ TriggerEvent /\ UNCHANGED bootVars)
  /\ WF_allVars(NetCore)

-----------------------------------------------------------------------------
(* Properties, besides those of IpcLink. *)

BootTypeOK ==
  /\ TypeOK
  /\ appPc \in {"spu", "init", "events", "release", "start", "run"}
  /\ netPc \in {"off", "configure", "init", "run"}
  /\ shared \subseteq 0 .. 63 /\ cleared \subseteq Indices
  /\ appOn \in BOOLEAN /\ n2aLatch \in BOOLEAN /\ n2aEarly \in BOOLEAN

\* When the loops of the net core may touch a ring, every byte of both rings is in
\* a region it may access, and when either core may, all indices are cleared: no
\* bus fault, and no packet read out of memory nobody wrote.
SharedMemoryReady ==
  /\ netPc = "run" => RegionsOf(N2ABase) \cup RegionsOf(A2NBase) \subseteq shared
  /\ netPc = "run" \/ appPc = "run" => cleared = Indices

\* The app core hears every trigger of the net core, however fast that comes up;
\* only the other direction has to live with a trigger that came too early.
NetTriggersHeard == ~n2aEarly
=============================================================================

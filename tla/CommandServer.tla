--------------------------- MODULE CommandServer ----------------------------
(***************************************************************************)
(* What the net core promises to those who send it packets                 *)
(* (ipc_rx_loop, dispatch_hci_cmd and sdc_event_loop of net/src/main.rs):  *)
(* it handles the packets in the order they arrive, answers each command   *)
(* it knows exactly once, when it handles it, and sends nothing for the    *)
(* others.  Packets of the controller itself go out only while no packet   *)
(* is being handled, so never between a command and its answer.            *)
(*                                                                         *)
(* HciDispatch.tla implements this with the opcode table and the calls of  *)
(* the controller, HciBridge.tla with the rings and events around it.      *)
(***************************************************************************)
EXTENDS Integers, Sequences

CONSTANTS
  Arrivals,   \* the packets that may arrive: commands, ACL data
  Known,      \* those that get an answer
  AnswerTo,   \* the answer to each of them
  Reports     \* what the controller sends on its own

VARIABLES
  inbox,      \* packets arrived and not handled, oldest first
  busy,       \* packets are being handled
  outbox      \* history: everything sent, oldest first

serverVars == <<inbox, busy, outbox>>

Init == inbox = <<>> /\ busy = FALSE /\ outbox = <<>>

Arrive(p) == inbox' = Append(inbox, p) /\ UNCHANGED <<busy, outbox>>

Start == ~busy /\ busy' = TRUE /\ UNCHANGED <<inbox, outbox>>

\* A packet may have arrived since the last one was handled.
Stop == busy /\ busy' = FALSE /\ UNCHANGED <<inbox, outbox>>

Handle ==
  /\ busy /\ inbox # <<>>
  /\ inbox' = Tail(inbox)
  /\ outbox' = IF Head(inbox) \in Known THEN Append(outbox, AnswerTo[Head(inbox)]) ELSE outbox
  /\ UNCHANGED busy

Report(r) == ~busy /\ outbox' = Append(outbox, r) /\ UNCHANGED <<inbox, busy>>

Next ==
  \/ \E p \in Arrivals : Arrive(p)
  \/ Start \/ Stop \/ Handle
  \/ \E r \in Reports : Report(r)

Spec == Init /\ [][Next]_serverVars
=============================================================================

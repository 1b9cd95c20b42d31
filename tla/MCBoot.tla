------------------------------- MODULE MCBoot -------------------------------
(* An instance of Boot, and so of IpcLink, for TLC. *)
EXTENDS Boot

\* Two lengths: a ring of 9 bytes holds three short packets, or one of each, or
\* two long ones, and is full or nearly full then.
MCPackets == { <<1>>, <<2, 2>> }
=============================================================================

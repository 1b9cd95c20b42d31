----------------------------- MODULE MCIpcRing ------------------------------
(* Instances of IpcRing for TLC. *)
EXTENDS IpcRing

\* One packet of every length class: empty, short, two with a nonzero high
\* length byte of which the longer fills a ring of 7 bytes exactly and does not
\* fit a reader's buffer of 4, and one that is too large for the ring.
MCPackets == { <<>>, <<1>>, <<2, 3>>, <<0, 1, 2, 3>>, <<3, 0, 1, 2, 1>>, <<1, 1, 1, 1, 1, 1>> }

\* States after a frame has been put over unread ones are not explored further.
NotLapped == ~lapped
=============================================================================

--------------------------- MODULE MCHciDispatch ----------------------------
(* An instance of HciDispatch for TLC. *)
EXTENDS HciDispatch

\* Sizes of the structs of the commands below; the other opcodes are not sent.
MCParamSize ==
  [op \in CmdP \cup CmdPR \cup CmdAsyncP |->
     CASE op = \h2001 -> 8 [] op = \h2015 -> 2 [] op = \h0406 -> 3 [] OTHER -> 1]
MCReturnSize ==
  [op \in CmdR \cup CmdPR |->
     CASE op = \h1002 -> 64 [] op = \h2015 -> 7 [] OTHER -> 1]

\* One opcode of each macro and an unknown one (LE Set Privacy Mode), each with
\* just enough bytes, and those with parameters with one byte too few; a known
\* opcode without its length byte, and a packet that ends inside the opcode.
MCCommands ==
  { [op |-> \h2001, len |-> 11], [op |-> \h2001, len |-> 10],
    [op |-> \h0C03, len |-> 3],  [op |-> \h1002, len |-> 2],
    [op |-> \h2015, len |-> 5],  [op |-> \h2015, len |-> 4],
    [op |-> \h0406, len |-> 6],  [op |-> \h0406, len |-> 5],
    [op |-> \h200E, len |-> 3],  [op |-> \h204E, len |-> 11],
    [op |-> 0, len |-> 1] }
=============================================================================

----------------------------- MODULE HciDispatch ----------------------------
(***************************************************************************)
(* The net core between its two rings (net/src/main.rs): ipc_rx_loop takes *)
(* HCI commands, dispatch_hci_cmd calls the function of the controller     *)
(* that the opcode stands for and builds the answer, and sdc_event_loop    *)
(* forwards what the controller reports later.                             *)
(*                                                                         *)
(* The two loops are joined in one task: sdc_event_loop runs only while    *)
(* ipc_rx_loop awaits its event.  The controller itself works at interrupt *)
(* level and may have a result ready between any two steps.                *)
(*                                                                         *)
(* A command is its opcode and the number of bytes behind the indicator;   *)
(* three of them, opcode and parameter length, come before the parameters. *)
(* ACL data goes to the controller unanswered and is left out.             *)
(* Packets are handed to notify_app here; what a full ring does to them is *)
(* the subject of HciBridge.                                               *)
(***************************************************************************)
EXTENDS Integers, Sequences, FiniteSets

CONSTANTS
  Commands,    \* commands the app core may send: [op : opcode, len : Nat]
  ParamSize,   \* opcode -> size_of the parameter struct of its function
  ReturnSize,  \* opcode -> size_of its return struct
  Statuses,    \* status codes a function of the controller may return
  MaxCmds      \* bound: commands answered or in the ring

\* The opcodes of dispatch_hci_cmd by macro: parameters, nothing, return data,
\* parameters and return data; asynchronous with parameters and with nothing.
CmdP == {\h0C01, \h0C31, \h0C33, \h0C35, \h0C63, \h2001, \h2005, \h2006, \h2008,
         \h2009, \h200A, \h200B, \h200C, \h2011, \h2012, \h2014, \h2024, \h2027,
         \h2028, \h202C, \h202D, \h202E, \h2031, \h2035, \h2037, \h2039, \h203C,
         \h2041, \h2042, \h2046, \h2047, \h2048, \h2059, \h2066}
CmdN == {\h0C03, \h2010, \h2029, \h203D, \h2049}
CmdR == {\h1001, \h1002, \h1003, \h1009, \h2002, \h2003, \h2007, \h200F, \h2018,
         \h201C, \h2023, \h202A, \h202F, \h203A, \h203B, \h204A, \h204B}
CmdPR == {\h2015, \h2017, \h201A, \h201B, \h2022, \h2030, \h2036, \h2062, \h2063,
          \h2065, \h2067, \h206C, \h206E, \h206F, \h2070, \h2071, \h2072, \h2073,
          \h2075, \h2076}
CmdAsyncP == {\h0406, \h041D, \h200D, \h2013, \h2016, \h2019, \h2032, \h2043, \h2044,
              \h2064, \h2068, \h2069, \h206A, \h206B}
CmdAsyncN == {\h200E, \h2045}

Async == CmdAsyncP \cup CmdAsyncN
Known == CmdP \cup CmdN \cup CmdR \cup CmdPR \cup Async

Opcode == 0 .. 65535

ASSUME DispatchAssumption ==
  /\ \A c \in Commands : c.op \in Opcode /\ c.len \in Nat
  /\ \A op \in CmdP \cup CmdPR \cup CmdAsyncP : ParamSize[op] \in Nat
  /\ \A op \in CmdR \cup CmdPR : ReturnSize[op] \in Nat
  /\ Statuses \subseteq 0 .. 255 /\ 0 \in Statuses
  /\ MaxCmds \in Nat

InvalidParams == \h12   \* Invalid HCI Command Parameters

VARIABLES
  ring,     \* commands in the A->N ring
  rx,       \* ipc_rx_loop: "wait" (awaits the event), "drain", "answer" (the
            \* function has returned, notify_app is next) or "panicked"
  answer,   \* the event dispatch_hci_cmd is about to send
  pending,  \* asynchronous operations the controller will report the result of
  ready,    \* those whose result waits in the controller's queue
  asked,    \* history: the commands taken from the ring that have an answer
  answered, \* history: the answers handed to notify_app
  calls,    \* history: [op, given], functions called and parameter bytes passed
  toApp     \* history: the events handed to notify_app

vars == <<ring, rx, answer, pending, ready, asked, answered, calls, toApp>>

-----------------------------------------------------------------------------
(* Events. *)

\* (Faulty variant) the length leaves out the status byte.
CmdCompleteShort(op, status, ret) ==
  LET retLen == IF ret <= 64 THEN ret ELSE 64 IN
  [code |-> "complete", paramLen |-> (3 + retLen) % 256, credits |-> 1,
   op |-> op, status |-> status, size |-> 7 + retLen]

\* send_cc_event: 3 bytes of header, 4 of num_hci_cmd_packets, opcode and
\* status, at most 64 of return data; the length is one byte.
CmdComplete(op, status, ret) ==
  LET retLen == IF ret <= 64 THEN ret ELSE 64 IN
  [code |-> "complete", paramLen |-> (4 + retLen) % 256, credits |-> 1,
   op |-> op, status |-> status, size |-> 7 + retLen]

CmdStatus(op, status) ==
  [code |-> "status", paramLen |-> 4, credits |-> 1,
   op |-> op, status |-> status, size |-> 7]

\* What hci_get returns for an asynchronous operation: no answer, no credit.
Result(op) ==
  [code |-> "result", paramLen |-> 4, credits |-> 0,
   op |-> op, status |-> 0, size |-> 7]

-----------------------------------------------------------------------------
Init ==
  /\ ring = <<>> /\ rx = "wait" /\ answer = <<>>
  /\ pending = {} /\ ready = {}
  /\ asked = <<>> /\ answered = <<>> /\ calls = <<>> /\ toApp = <<>>

Send(c) ==
  /\ Len(asked) + Len(ring) < MaxCmds
  /\ ring' = Append(ring, c)
  /\ UNCHANGED <<rx, answer, pending, ready, asked, answered, calls, toApp>>

\* event.wait() returns, perhaps for packets already read; IpcLink says when
\* it must.
WakeUp ==
  /\ rx = "wait"
  /\ rx' = "drain"
  /\ UNCHANGED <<ring, answer, pending, ready, asked, answered, calls, toApp>>

Drained ==
  /\ rx = "drain"
  /\ ring = <<>>
  /\ rx' = "wait"
  /\ UNCHANGED <<ring, answer, pending, ready, asked, answered, calls, toApp>>

\* The commands dispatch_hci_cmd answers: a whole opcode of the table.
IsKnown(c) == c.op \in Known /\ c.len >= 2

Take(c) ==
  /\ rx = "drain"
  /\ ring # <<>> /\ c = Head(ring)
  /\ ring' = Tail(ring)
  /\ asked' = IF IsKnown(c) THEN Append(asked, c) ELSE asked
  /\ UNCHANGED answered

\* (Faulty variant) the parameters start at byte three, present or not.
ParamsUnchecked(c) == c.len - 3

\* Parameter bytes of a command.
Params(c) == IF c.len > 3 THEN c.len - 3 ELSE 0

Enough(c) == Params(c) >= ParamSize[c.op]

\* The function of the controller is called with the parameters at hand.
Call(c) == calls' = Append(calls, [op |-> c.op, given |-> Params(c)])

Reply(e) == rx' = "answer" /\ answer' = e

-----------------------------------------------------------------------------
(* dispatch_hci_cmd, one action per macro. *)

RunP(c) ==
  /\ Take(c) /\ c.len >= 2 /\ c.op \in CmdP
  /\ \/ Enough(c) /\ Call(c) /\ \E s \in Statuses : Reply(CmdComplete(c.op, s, 0))
     \/ ~Enough(c) /\ UNCHANGED calls /\ Reply(CmdComplete(c.op, InvalidParams, 0))
  /\ UNCHANGED <<pending, ready, toApp>>

RunN(c) ==
  /\ Take(c) /\ c.len >= 2 /\ c.op \in CmdN
  /\ Call(c)
  /\ \E s \in Statuses : Reply(CmdComplete(c.op, s, 0))
  /\ UNCHANGED <<pending, ready, toApp>>

RunR(c) ==
  /\ Take(c) /\ c.len >= 2 /\ c.op \in CmdR
  /\ Call(c)
  /\ \E s \in Statuses : Reply(CmdComplete(c.op, s, ReturnSize[c.op]))
  /\ UNCHANGED <<pending, ready, toApp>>

\* (Faulty variant) too few parameters are passed over in silence.
RunPRSilent(c) ==
  /\ Take(c) /\ c.len >= 2 /\ c.op \in CmdPR
  /\ \/ Enough(c) /\ Call(c)
        /\ \E s \in Statuses : Reply(CmdComplete(c.op, s, ReturnSize[c.op]))
     \/ ~Enough(c) /\ UNCHANGED <<calls, rx, answer>>
  /\ UNCHANGED <<pending, ready, toApp>>

RunPR(c) ==
  /\ Take(c) /\ c.len >= 2 /\ c.op \in CmdPR
  /\ \/ Enough(c) /\ Call(c)
        /\ \E s \in Statuses : Reply(CmdComplete(c.op, s, ReturnSize[c.op]))
     \/ ~Enough(c) /\ UNCHANGED calls /\ Reply(CmdComplete(c.op, InvalidParams, 0))
  /\ UNCHANGED <<pending, ready, toApp>>

\* The controller starts the operation only if it reports success.
Start(c) ==
  /\ Call(c)
  /\ \E s \in Statuses :
       /\ Reply(CmdStatus(c.op, s))
       /\ pending' = IF s = 0 THEN pending \cup {c.op} ELSE pending

\* (Faulty variant) the length of the parameters is not checked.
RunAsyncPUnchecked(c) ==
  /\ Take(c) /\ c.len >= 2 /\ c.op \in CmdAsyncP
  /\ Start(c)
  /\ UNCHANGED <<ready, toApp>>

RunAsyncP(c) ==
  /\ Take(c) /\ c.len >= 2 /\ c.op \in CmdAsyncP
  /\ \/ Enough(c) /\ Start(c)
     \/ /\ ~Enough(c)
        /\ Reply(CmdStatus(c.op, InvalidParams))
        /\ UNCHANGED <<calls, pending>>
  /\ UNCHANGED <<ready, toApp>>

RunAsyncN(c) ==
  /\ Take(c) /\ c.len >= 2 /\ c.op \in CmdAsyncN
  /\ Start(c)
  /\ UNCHANGED <<ready, toApp>>

\* Logged only.
RunUnknown(c) ==
  /\ Take(c) /\ c.len >= 2 /\ c.op \notin Known
  /\ UNCHANGED <<rx, answer, pending, ready, calls, toApp>>

\* dispatch_hci_cmd refuses the command, and the message about it reads an
\* opcode that is not there: the slice index is out of bounds.
RunShort(c) ==
  /\ Take(c) /\ c.len < 2
  /\ rx' = "panicked"
  /\ UNCHANGED <<answer, pending, ready, calls, toApp>>

Dispatch(c) ==
  RunP(c) \/ RunN(c) \/ RunR(c) \/ RunPR(c) \/ RunAsyncP(c) \/ RunAsyncN(c)
    \/ RunUnknown(c) \/ RunShort(c)

\* notify_app, and back to the drain loop.
SendAnswer ==
  /\ rx = "answer"
  /\ toApp' = Append(toApp, answer) /\ answered' = Append(answered, answer)
  /\ rx' = "drain" /\ answer' = <<>>
  /\ UNCHANGED <<ring, pending, ready, asked, calls>>

-----------------------------------------------------------------------------
\* The controller completes an operation, in an interrupt.
Complete(op) ==
  /\ op \in pending
  /\ rx # "panicked"
  /\ pending' = pending \ {op} /\ ready' = ready \cup {op}
  /\ UNCHANGED <<ring, rx, answer, asked, answered, calls, toApp>>

\* (Faulty variant) sdc_event_loop runs beside ipc_rx_loop.
HciGetAnytime(op) ==
  /\ rx # "panicked"
  /\ op \in ready
  /\ ready' = ready \ {op}
  /\ toApp' = Append(toApp, Result(op))
  /\ UNCHANGED <<ring, rx, answer, pending, asked, answered, calls>>

\* sdc_event_loop: hci_get returns the result, which is forwarded.
HciGet(op) ==
  /\ rx = "wait"
  /\ op \in ready
  /\ ready' = ready \ {op}
  /\ toApp' = Append(toApp, Result(op))
  /\ UNCHANGED <<ring, rx, answer, pending, asked, answered, calls>>

Next ==
  \/ \E c \in Commands : Send(c) \/ Dispatch(c)
  \/ WakeUp \/ Drained \/ SendAnswer
  \/ \E op \in Async : Complete(op) \/ HciGet(op)

Spec == Init /\ [][Next]_vars

-----------------------------------------------------------------------------
(* Properties. *)

Event == [code : {"complete", "status", "result"}, paramLen : 0 .. 255,
          credits : 0 .. 1, op : Known, status : 0 .. 255, size : 7 .. 71]

TypeOK ==
  /\ ring \in Seq(Commands) /\ asked \in Seq(Commands)
  /\ rx \in {"wait", "drain", "answer", "panicked"}
  /\ answer \in Event \cup {<<>>}
  /\ pending \subseteq Async /\ ready \subseteq Async
  /\ calls \in Seq([op : Known, given : Nat])
  /\ toApp \in Seq(Event) /\ answered \in Seq(Event)

Answers == answered \o (IF rx = "answer" THEN <<answer>> ELSE <<>>)

\* Every command with a known opcode, however few its parameters, has exactly
\* one answer, with its opcode, one command credit and the event code of its
\* kind, and the answers come in the order of the commands.
OneAnswerEach ==
  /\ Len(Answers) = Len(asked)
  /\ \A i \in 1 .. Len(asked) :
       /\ Answers[i].op = asked[i].op /\ Answers[i].credits = 1
       /\ Answers[i].code = IF asked[i].op \in Async THEN "status" ELSE "complete"

\* What an event says of its own length behind the indicator: the event code, the
\* length byte, and as many bytes as that says.
EventLen(e) == 2 + e.paramLen

\* The length byte of an answer agrees with the bytes sent, return data
\* of any size included: the host finds the next event where it is.
AnswersWellFormed ==
  \A i \in DOMAIN Answers : Answers[i].size = 1 + EventLen(Answers[i])

\* No function of the controller reads parameters beyond the end of the packet.
EnoughParams ==
  \A i \in DOMAIN calls :
    calls[i].op \in CmdP \cup CmdPR \cup CmdAsyncP =>
      calls[i].given >= ParamSize[calls[i].op]

\* Where among the first n events those of this kind are that report success of op.
Reported(events, code, op, n) ==
  {j \in 1 .. n : events[j].code = code /\ events[j].op = op /\ events[j].status = 0}

\* The result of an asynchronous command follows its Command Status, however
\* fast the controller is: "send Command Status event immediately; the actual
\* result event arrives later".
StatusBeforeResult ==
  \A i \in DOMAIN toApp :
    Cardinality(Reported(toApp, "result", toApp[i].op, i))
      <= Cardinality(Reported(toApp, "status", toApp[i].op, i))

\* What matters of an answer, or of a result, to the order of the packets.
Essence(e) == [code |-> e.code, op |-> e.op]

\* A command counts as handled when its answer is sent.
Inbox == (IF rx = "answer" THEN <<asked[Len(asked)]>> ELSE <<>>) \o ring

Outbox == [i \in DOMAIN toApp |-> Essence(toApp[i])]

Server == INSTANCE CommandServer WITH
  Arrivals <- Commands,
  Known <- {c \in Commands : IsKnown(c)},
  AnswerTo <- [c \in {d \in Commands : IsKnown(d)} |->
                [code |-> IF c.op \in Async THEN "status" ELSE "complete", op |-> c.op]],
  Reports <- {[code |-> "result", op |-> op] : op \in Async},
  inbox <- Inbox,
  busy <- (rx # "wait"),
  outbox <- Outbox

\* The table, the length checks, the calls of the controller and its interrupts
\* come down to CommandServer: the net core handles one command at a time and
\* sends nothing between it and its answer.
ImplementsServer == Server!Spec

\* The loop "drains the ring buffer and dispatches each packet": a packet it
\* cannot dispatch does not end it.
EveryPacketDispatched == rx # "panicked"
=============================================================================

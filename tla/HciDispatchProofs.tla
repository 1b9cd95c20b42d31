------------------------- MODULE HciDispatchProofs --------------------------
(***************************************************************************)
(* Proofs about HciDispatch, for every set of commands, every size of the  *)
(* parameter and return structs and every status the controller returns.   *)
(***************************************************************************)
EXTENDS HciDispatch, SequenceLemmas, FiniteSetTheorems, TLAPS

-----------------------------------------------------------------------------
(* The inductive invariant. *)

\* An event answers a command.
AnswerFits(e, c) ==
  /\ e.op = c.op /\ e.credits = 1
  /\ e.code = IF c.op \in Async THEN "status" ELSE "complete"
  /\ e.size = 1 + EventLen(e)

\* The answers are those of the commands taken, one by one; the one in hand is
\* that of the last.
AnswersInStep ==
  /\ rx # "answer" => Len(asked) = Len(answered)
  /\ rx = "answer" =>
       /\ Len(asked) = Len(answered) + 1
       /\ answer \in Event /\ AnswerFits(answer, asked[Len(asked)])
  /\ \A i \in 1 .. Len(answered) : AnswerFits(answered[i], asked[i])

In(op, ops) == IF op \in ops THEN 1 ELSE 0

Count(events, code, op) == Cardinality(Reported(events, code, op, Len(events)))

\* The answer in hand, if it reports that op was started.
InHand(op) ==
  IF rx = "answer" /\ answer.code = "status" /\ answer.op = op /\ answer.status = 0
  THEN 1 ELSE 0

\* Each result, forwarded, ready or still to come, has its own Command Status,
\* forwarded or in hand.
ResultsCovered ==
  \A op \in Known :
    Count(toApp, "result", op) + In(op, pending) + In(op, ready)
      <= Count(toApp, "status", op) + InHand(op)

AnswersKnown == \A i \in 1 .. Len(asked) : IsKnown(asked[i])

DispatchInv == TypeOK /\ AnswersInStep /\ AnswersKnown /\ EnoughParams

-----------------------------------------------------------------------------
(* What dispatch_hci_cmd does with a command, whichever macro it meets. *)

LEMMA TableDisjoint ==
  (CmdP \cup CmdN \cup CmdR \cup CmdPR) \cap Async = {}
<1>1. CmdP \cap Async = {}
  BY DEF CmdP, Async, CmdAsyncP, CmdAsyncN
<1>2. CmdN \cap Async = {}
  BY DEF CmdN, Async, CmdAsyncP, CmdAsyncN
<1>3. CmdR \cap Async = {}
  BY DEF CmdR, Async, CmdAsyncP, CmdAsyncN
<1>4. CmdPR \cap Async = {}
  BY DEF CmdPR, Async, CmdAsyncP, CmdAsyncN
<1>. QED  BY <1>1, <1>2, <1>3, <1>4

\* An opcode belongs to one macro only, so the parameter and the return struct
\* a command is checked against are those of the arm it runs.
LEMMA SyncDisjoint ==
  /\ (CmdN \cup CmdR) \cap (CmdP \cup CmdPR \cup CmdAsyncP) = {}
  /\ CmdAsyncN \cap (CmdP \cup CmdPR \cup CmdAsyncP) = {}
<1>1. CmdN \cap (CmdP \cup CmdPR \cup CmdAsyncP) = {}
  BY DEF CmdN, CmdP, CmdPR, CmdAsyncP
<1>2. CmdR \cap (CmdP \cup CmdPR \cup CmdAsyncP) = {}
  BY DEF CmdR, CmdP, CmdPR, CmdAsyncP
<1>3. CmdAsyncN \cap (CmdP \cup CmdPR \cup CmdAsyncP) = {}
  BY DEF CmdAsyncN, CmdP, CmdPR, CmdAsyncP
<1>. QED  BY <1>1, <1>2, <1>3

LEMMA CompleteFits ==
  ASSUME NEW c, c.op \in Known \ Async, NEW s \in 0 .. 255, NEW ret \in Nat
  PROVE  /\ CmdComplete(c.op, s, ret) \in Event
         /\ AnswerFits(CmdComplete(c.op, s, ret), c)
<1> DEFINE n == IF ret <= 64 THEN ret ELSE 64
<1>1. n \in 0 .. 64
  OBVIOUS
<1>2. (4 + n) % 256 = 4 + n
  <2> HIDE DEF n
  <2>. QED  BY <1>1
<1>3. CmdComplete(c.op, s, ret) =
        [code |-> "complete", paramLen |-> 4 + n, credits |-> 1,
         op |-> c.op, status |-> s, size |-> 7 + n]
  BY <1>2 DEF CmdComplete
<1>4. 4 + n \in 0 .. 255 /\ 7 + n \in 7 .. 71
  BY <1>1
<1> HIDE DEF n
<1>. QED  BY <1>1, <1>3, <1>4 DEF Event, AnswerFits, EventLen

LEMMA StatusFits ==
  ASSUME NEW c, c.op \in Async, NEW s \in 0 .. 255
  PROVE  /\ CmdStatus(c.op, s) \in Event
         /\ AnswerFits(CmdStatus(c.op, s), c)
         /\ CmdStatus(c.op, s).code = "status" /\ CmdStatus(c.op, s).status = s
BY DEF CmdStatus, Event, AnswerFits, EventLen, Known

\* The function of a macro gets all the parameters its struct has.
Fed(c, call) ==
  /\ call \in [op : Known, given : Nat]
  /\ call.op \in CmdP \cup CmdPR \cup CmdAsyncP => call.given >= ParamSize[call.op]

Called(c) == calls' = calls \/ \E call : Fed(c, call) /\ calls' = Append(calls, call)

Answered(c) ==
  /\ IsKnown(c) /\ asked' = Append(asked, c)
  /\ rx' = "answer" /\ answer' \in Event /\ AnswerFits(answer', c)
  /\ \/ pending' = pending
     \/ /\ pending' = pending \cup {c.op} /\ c.op \in Async
        /\ answer'.code = "status" /\ answer'.status = 0
  /\ Called(c)

Ignored(c) ==
  /\ ~IsKnown(c)
  /\ rx' \in {"drain", "panicked"}
  /\ UNCHANGED <<asked, answer, pending, calls>>

LEMMA DispatchDoes ==
  ASSUME NEW c \in Commands, Dispatch(c)
  PROVE  /\ rx = "drain" /\ ring # <<>> /\ c = Head(ring) /\ ring' = Tail(ring)
         /\ UNCHANGED <<answered, ready, toApp>>
         /\ Answered(c) \/ Ignored(c)
<1> USE DispatchAssumption
<1>1. Params(c) \in Nat
  BY DEF Params
<1>2. InvalidParams \in 0 .. 255 /\ InvalidParams # 0 /\ \A s \in Statuses : s \in 0 .. 255
  BY DEF InvalidParams
<1>3. ASSUME Call(c), Enough(c) \/ c.op \notin CmdP \cup CmdPR \cup CmdAsyncP, c.op \in Known
      PROVE  Called(c)
  BY <1>1, <1>3 DEF Call, Called, Fed, Enough
<1>4. ASSUME UNCHANGED calls
      PROVE  Called(c)
  BY <1>4 DEF Called
<1>5. ASSUME NEW e \in Event, Reply(e), AnswerFits(e, c), IsKnown(c),
             asked' = Append(asked, c), Called(c),
             \/ pending' = pending
             \/ /\ pending' = pending \cup {c.op} /\ c.op \in Async
                /\ e.code = "status" /\ e.status = 0
      PROVE  Answered(c)
  BY <1>5 DEF Reply, Answered
<1>6. ASSUME NEW ret \in Nat, NEW s \in 0 .. 255, Reply(CmdComplete(c.op, s, ret)),
             c.op \in Known \ Async, c.len >= 2, asked' = Append(asked, c),
             Called(c), UNCHANGED pending
      PROVE  Answered(c)
  BY <1>5, <1>6, CompleteFits DEF IsKnown
<1>7. ASSUME NEW s \in 0 .. 255, Reply(CmdStatus(c.op, s)),
             c.op \in Async, c.len >= 2, asked' = Append(asked, c), Called(c),
             pending' = IF s = 0 THEN pending \cup {c.op} ELSE pending
      PROVE  Answered(c)
  <2>1. IsKnown(c)
    BY <1>7 DEF IsKnown, Known
  <2>. QED  BY <1>5, <1>7, <2>1, StatusFits
<1>8. CASE RunP(c)
  <2>1. c.op \in Known \ Async
    BY <1>8, TableDisjoint DEF RunP, Known
  <2>2. Called(c)
    BY <1>3, <1>4, <1>8, <2>1 DEF RunP
  <2>3. PICK s \in 0 .. 255 : Reply(CmdComplete(c.op, s, 0))
    BY <1>2, <1>8 DEF RunP
  <2>4. asked' = Append(asked, c)
    BY <1>8, <2>1 DEF RunP, Take, IsKnown
  <2>. QED  BY <1>6, <1>8, <2>1, <2>2, <2>3, <2>4 DEF RunP, Take
<1>9. CASE RunN(c)
  <2>1. c.op \in Known \ Async
    BY <1>9, TableDisjoint DEF RunN, Known
  <2>2. Called(c)
    BY <1>3, <1>9, <2>1, SyncDisjoint DEF RunN
  <2>3. PICK s \in 0 .. 255 : Reply(CmdComplete(c.op, s, 0))
    BY <1>2, <1>9 DEF RunN
  <2>4. asked' = Append(asked, c)
    BY <1>9, <2>1 DEF RunN, Take, IsKnown
  <2>. QED  BY <1>6, <1>9, <2>1, <2>2, <2>3, <2>4 DEF RunN, Take
<1>10. CASE RunR(c)
  <2>1. c.op \in Known \ Async /\ ReturnSize[c.op] \in Nat
    BY <1>10, TableDisjoint DEF RunR, Known
  <2>2. Called(c)
    BY <1>3, <1>10, <2>1, SyncDisjoint DEF RunR
  <2>3. PICK s \in 0 .. 255 : Reply(CmdComplete(c.op, s, ReturnSize[c.op]))
    BY <1>2, <1>10 DEF RunR
  <2>4. asked' = Append(asked, c)
    BY <1>10, <2>1 DEF RunR, Take, IsKnown
  <2>. QED  BY <1>6, <1>10, <2>1, <2>2, <2>3, <2>4 DEF RunR, Take
<1>11. CASE RunPR(c)
  <2>1. c.op \in Known \ Async /\ ReturnSize[c.op] \in Nat
    BY <1>11, TableDisjoint DEF RunPR, Known
  <2>2. Called(c)
    BY <1>3, <1>4, <1>11, <2>1 DEF RunPR
  <2>3. PICK s \in 0 .. 255, ret \in Nat : Reply(CmdComplete(c.op, s, ret))
    BY <1>2, <1>11, <2>1 DEF RunPR
  <2>4. asked' = Append(asked, c)
    BY <1>11, <2>1 DEF RunPR, Take, IsKnown
  <2>. QED  BY <1>6, <1>11, <2>1, <2>2, <2>3, <2>4 DEF RunPR, Take
<1>12. CASE RunAsyncP(c)
  <2>1. c.op \in Async /\ c.op \in Known
    BY <1>12 DEF RunAsyncP, Async, Known
  <2>2. asked' = Append(asked, c)
    BY <1>12, <2>1 DEF RunAsyncP, Take, IsKnown
  <2>3. CASE Enough(c) /\ Start(c)
    <3>1. Called(c)
      BY <1>3, <2>1, <2>3 DEF Start
    <3>. QED  BY <1>2, <1>7, <1>12, <2>1, <2>2, <2>3, <3>1 DEF RunAsyncP, Take, Start
  <2>4. CASE Reply(CmdStatus(c.op, InvalidParams)) /\ UNCHANGED <<calls, pending>>
    BY <1>2, <1>4, <1>7, <1>12, <2>1, <2>2, <2>4 DEF RunAsyncP, Take
  <2>. QED  BY <1>12, <2>3, <2>4 DEF RunAsyncP
<1>13. CASE RunAsyncN(c)
  <2>1. c.op \in Async /\ c.op \in Known
    BY <1>13 DEF RunAsyncN, Async, Known
  <2>2. asked' = Append(asked, c)
    BY <1>13, <2>1 DEF RunAsyncN, Take, IsKnown
  <2>3. Called(c)
    BY <1>3, <1>13, <2>1, SyncDisjoint DEF RunAsyncN, Start
  <2>. QED  BY <1>2, <1>7, <1>13, <2>1, <2>2, <2>3 DEF RunAsyncN, Take, Start
<1>14. CASE RunUnknown(c)
  BY <1>14 DEF RunUnknown, Take, Ignored, IsKnown
<1>15. CASE RunShort(c)
  BY <1>15 DEF RunShort, Take, Ignored, IsKnown
<1>. QED
  BY <1>8, <1>9, <1>10, <1>11, <1>12, <1>13, <1>14, <1>15 DEF Dispatch

-----------------------------------------------------------------------------
(* Types, the answers in step with the commands, and the parameters. *)

LEMMA DispatchInvInit == Init => DispatchInv
BY DEF Init, DispatchInv, TypeOK, AnswersInStep, AnswersKnown, EnoughParams

LEMMA DispatchInvDispatch ==
  ASSUME DispatchInv, NEW c \in Commands, Dispatch(c)
  PROVE  DispatchInv'
<1> USE DEF DispatchInv
<1>1. /\ rx = "drain" /\ ring # <<>> /\ c = Head(ring) /\ ring' = Tail(ring)
      /\ UNCHANGED <<answered, ready, toApp>>
      /\ Answered(c) \/ Ignored(c)
  BY DispatchDoes
<1>2. ring' \in Seq(Commands)
  BY <1>1, HeadTailProperties DEF TypeOK
<1>3. CASE Answered(c)
  <2>1. /\ asked' \in Seq(Commands) /\ Len(asked) \in Nat /\ Len(asked') = Len(asked) + 1
        /\ \A i \in 1 .. Len(asked) : asked'[i] = asked[i]
        /\ asked'[Len(asked) + 1] = c
    BY <1>3, Appended DEF Answered, TypeOK
  <2>2. pending' \subseteq Async
    BY <1>3 DEF Answered, TypeOK
  <2>3. calls' \in Seq([op : Known, given : Nat]) /\ EnoughParams'
    <3>1. CASE calls' = calls
      BY <3>1 DEF TypeOK, EnoughParams
    <3>2. CASE \E call : Fed(c, call) /\ calls' = Append(calls, call)
      <4>1. PICK call : Fed(c, call) /\ calls' = Append(calls, call)
        BY <3>2
      <4>2. /\ calls' \in Seq([op : Known, given : Nat]) /\ Len(calls) \in Nat
            /\ \A i \in 1 .. Len(calls) : calls'[i] = calls[i]
            /\ calls'[Len(calls) + 1] = call
            /\ DOMAIN calls = 1 .. Len(calls) /\ DOMAIN calls' = 1 .. Len(calls) + 1
        BY <4>1, Appended DEF Fed, TypeOK
      <4>3. ASSUME NEW i \in 1 .. Len(calls) + 1,
                   calls'[i].op \in CmdP \cup CmdPR \cup CmdAsyncP
            PROVE  calls'[i].given >= ParamSize[calls'[i].op]
        BY <4>1, <4>2, <4>3 DEF Fed, EnoughParams
      <4>. QED  BY <4>2, <4>3 DEF EnoughParams
    <3>. QED  BY <1>3, <3>1, <3>2 DEF Answered, Called
  <2>4. TypeOK'
    BY <1>1, <1>2, <1>3, <2>1, <2>2, <2>3 DEF TypeOK, Answered
  <2>5. AnswersInStep'
    BY <1>1, <1>3, <2>1 DEF AnswersInStep, Answered
  <2>6. AnswersKnown'
    BY <1>3, <2>1 DEF AnswersKnown, Answered
  <2>. QED  BY <2>3, <2>4, <2>5, <2>6
<1>4. CASE Ignored(c)
  BY <1>1, <1>2, <1>4 DEF Ignored, TypeOK, AnswersInStep, AnswersKnown, EnoughParams
<1>. QED  BY <1>1, <1>3, <1>4

LEMMA DispatchInvNext == DispatchInv /\ [Next]_vars => DispatchInv'
<1> SUFFICES ASSUME DispatchInv, [Next]_vars
             PROVE  DispatchInv'
  OBVIOUS
<1> USE DEF DispatchInv
<1>1. ASSUME NEW c \in Commands, Send(c)
      PROVE  DispatchInv'
  <2>1. ring' \in Seq(Commands)
    BY <1>1, AppendProperties DEF Send, TypeOK
  <2>. QED  BY <1>1, <2>1 DEF Send, TypeOK, AnswersInStep, AnswersKnown, EnoughParams
<1>2. ASSUME NEW c \in Commands, Dispatch(c)
      PROVE  DispatchInv'
  BY <1>2, DispatchInvDispatch
<1>3. CASE WakeUp
  BY <1>3 DEF WakeUp, TypeOK, AnswersInStep, AnswersKnown, EnoughParams
<1>4. CASE Drained
  BY <1>4 DEF Drained, TypeOK, AnswersInStep, AnswersKnown, EnoughParams
<1>5. CASE SendAnswer
  <2>1. rx = "answer" /\ answer \in Event
    BY <1>5 DEF SendAnswer, AnswersInStep
  <2>2. /\ answered' \in Seq(Event) /\ Len(answered) \in Nat
        /\ Len(answered') = Len(answered) + 1
        /\ \A i \in 1 .. Len(answered) : answered'[i] = answered[i]
        /\ answered'[Len(answered) + 1] = answer
        /\ toApp' \in Seq(Event)
    BY <1>5, <2>1, Appended DEF SendAnswer, TypeOK
  <2>3. TypeOK'
    BY <1>5, <2>2 DEF SendAnswer, TypeOK
  <2>4. AnswersInStep'
    BY <1>5, <2>1, <2>2 DEF SendAnswer, AnswersInStep
  <2>. QED  BY <1>5, <2>3, <2>4 DEF SendAnswer, AnswersKnown, EnoughParams
<1>6. ASSUME NEW op \in Async, Complete(op)
      PROVE  DispatchInv'
  BY <1>6 DEF Complete, TypeOK, AnswersInStep, AnswersKnown, EnoughParams
<1>7. ASSUME NEW op \in Async, HciGet(op)
      PROVE  DispatchInv'
  <2>1. Result(op) \in Event
    BY DEF Result, Event, Known
  <2>2. toApp' \in Seq(Event)
    BY <1>7, <2>1, AppendProperties DEF HciGet, TypeOK
  <2>. QED  BY <1>7, <2>2 DEF HciGet, TypeOK, AnswersInStep, AnswersKnown, EnoughParams
<1>8. CASE UNCHANGED vars
  BY <1>8 DEF vars, TypeOK, AnswersInStep, AnswersKnown, EnoughParams
<1>. QED  BY <1>1, <1>2, <1>3, <1>4, <1>5, <1>6, <1>7, <1>8 DEF Next

LEMMA DispatchInvariant == Spec => []DispatchInv
  BY DispatchInvInit, DispatchInvNext, PTL DEF Spec

\* Each variable of the net core's loops stays in its range, the events built
\* for every command included: no length byte wraps.
THEOREM DispatchTypeCorrect == Spec => []TypeOK
  BY DispatchInvariant, PTL DEF DispatchInv

\* dispatch_hci_cmd calls no function of the controller with a parameter struct
\* that reaches beyond the packet.
THEOREM ParamsAreThere == Spec => []EnoughParams
  BY DispatchInvariant, PTL DEF DispatchInv

\* The answers are those sent, and the one in hand.
LEMMA AnswersAre ==
  ASSUME DispatchInv
  PROVE  /\ Len(Answers) = Len(asked) /\ Len(asked) \in Nat
         /\ DOMAIN Answers = 1 .. Len(asked)
         /\ \A i \in 1 .. Len(asked) : AnswerFits(Answers[i], asked[i])
<1> DEFINE h == IF rx = "answer" THEN <<answer>> ELSE <<>>
<1>1. answered \in Seq(Event) /\ Len(answered) \in Nat /\ Len(asked) \in Nat
  BY LenProperties DEF DispatchInv, TypeOK
<1>2. h \in Seq(Event) /\ Len(h) = (IF rx = "answer" THEN 1 ELSE 0)
      /\ (rx = "answer" => h[1] = answer)
  BY DEF DispatchInv, AnswersInStep
<1>3. Answers = answered \o h
  BY DEF Answers
<1> HIDE DEF h
<1>4. /\ Answers \in Seq(Event)
      /\ Len(Answers) = Len(answered) + Len(h)
      /\ \A i \in 1 .. Len(answered) + Len(h) :
           Answers[i] = IF i <= Len(answered) THEN answered[i] ELSE h[i - Len(answered)]
  BY <1>1, <1>2, <1>3, ConcatProperties
<1>5. Len(Answers) = Len(asked)
  BY <1>1, <1>2, <1>4 DEF DispatchInv, AnswersInStep
<1>6. ASSUME NEW i \in 1 .. Len(asked)
      PROVE  AnswerFits(Answers[i], asked[i])
  <2>1. CASE i <= Len(answered)
    BY <1>1, <1>2, <1>4, <1>5, <2>1 DEF DispatchInv, AnswersInStep
  <2>2. CASE i > Len(answered)
    <3>1. rx = "answer" /\ i = Len(asked) /\ i - Len(answered) = 1
      BY <1>1, <1>2, <1>4, <1>5, <2>2 DEF DispatchInv, AnswersInStep
    <3>2. Answers[i] = answer
      BY <1>1, <1>2, <1>4, <1>5, <2>2, <3>1
    <3>. QED  BY <3>1, <3>2 DEF DispatchInv, AnswersInStep
  <2>. QED  BY <1>1, <2>1, <2>2
<1>. QED  BY <1>1, <1>4, <1>5, <1>6, LenProperties

\* Every command of the table that ipc_rx_loop takes, however short, has exactly
\* one answer, of its kind and with one credit, in the order of the commands.
THEOREM EachAnsweredOnce == Spec => []OneAnswerEach
<1>1. DispatchInv => OneAnswerEach
  BY AnswersAre DEF OneAnswerEach, AnswerFits
<1>. QED  BY <1>1, DispatchInvariant, PTL

\* The length byte of each answer is that of the bytes behind it, for return
\* data of every size: send_cc_event caps it before the length is one byte.
THEOREM AnswersAreWellFormed == Spec => []AnswersWellFormed
<1>1. DispatchInv => AnswersWellFormed
  BY AnswersAre DEF AnswersWellFormed, AnswerFits
<1>. QED  BY <1>1, DispatchInvariant, PTL

-----------------------------------------------------------------------------
(* Results follow their Command Status. *)

\* What one more event changes in the counts: they grow by one if it is of the
\* kind counted, and those of the earlier events stay what they were.
LEMMA OneMoreEvent ==
  ASSUME NEW s \in Seq(Event), NEW e \in Event, NEW code, NEW op
  PROVE  /\ \A i \in 1 .. Len(s) :
              Reported(Append(s, e), code, op, i) = Reported(s, code, op, i)
         /\ Count(s, code, op) \in Nat
         /\ Count(Append(s, e), code, op) =
              Count(s, code, op) +
                (IF e.code = code /\ e.op = op /\ e.status = 0 THEN 1 ELSE 0)
<1> DEFINE t == Append(s, e)
           n == Len(s)
           R == Reported(s, code, op, n)
           match == e.code = code /\ e.op = op /\ e.status = 0
<1>1. /\ n \in Nat /\ Len(t) = n + 1 /\ t[n + 1] = e
      /\ \A i \in 1 .. n : t[i] = s[i]
  BY Appended
<1>2. \A i \in 1 .. n : Reported(t, code, op, i) = Reported(s, code, op, i)
  BY <1>1 DEF Reported
<1>3. IsFiniteSet(R) /\ Cardinality(R) \in Nat
  <2>1. IsFiniteSet(1 .. n)
    BY <1>1, FS_Interval
  <2>2. R \subseteq 1 .. n
    BY DEF Reported
  <2>. QED  BY <2>1, <2>2, FS_Subset, FS_CardinalityType
<1>4. Reported(t, code, op, n + 1) = IF match THEN R \cup {n + 1} ELSE R
  BY <1>1 DEF Reported
<1>5. n + 1 \notin R
  BY <1>1 DEF Reported
<1>6. Cardinality(R \cup {n + 1}) = Cardinality(R) + 1
  BY <1>3, <1>5, FS_AddElement
<1> HIDE DEF t, n, R, match
<1>7. Cardinality(Reported(t, code, op, n + 1)) = Cardinality(R) + (IF match THEN 1 ELSE 0)
  BY <1>3, <1>4, <1>6
<1>. QED  BY <1>1, <1>2, <1>3, <1>7 DEF Count, t, n, R, match

\* Once the counts agree for all events, they do for each prefix that grows by
\* one event.
LEMMA PrefixesGrow ==
  ASSUME TypeOK, StatusBeforeResult, NEW e \in Event, toApp' = Append(toApp, e),
         Count(toApp', "result", e.op) <= Count(toApp', "status", e.op)
  PROVE  StatusBeforeResult'
<1> DEFINE n == Len(toApp)
<1>1. /\ n \in Nat /\ Len(toApp') = n + 1 /\ toApp'[n + 1] = e
      /\ \A i \in 1 .. n : toApp'[i] = toApp[i]
      /\ DOMAIN toApp = 1 .. n /\ DOMAIN toApp' = 1 .. n + 1
  BY Appended DEF TypeOK
<1>2. SUFFICES ASSUME NEW i \in 1 .. n + 1
               PROVE  Cardinality(Reported(toApp', "result", toApp'[i].op, i))
                        <= Cardinality(Reported(toApp', "status", toApp'[i].op, i))
  BY <1>1 DEF StatusBeforeResult
<1>3. CASE i = n + 1
  BY <1>1, <1>3 DEF Count
<1>4. CASE i \in 1 .. n
  <2>1. \A code, op : Reported(toApp', code, op, i) = Reported(toApp, code, op, i)
    BY <1>4, OneMoreEvent DEF TypeOK
  <2>. QED  BY <1>1, <1>4, <2>1 DEF StatusBeforeResult
<1>. QED  BY <1>1, <1>3, <1>4

ResultsInv == DispatchInv /\ ResultsCovered /\ StatusBeforeResult

LEMMA CountType ==
  ASSUME NEW s \in Seq(Event), NEW code, NEW op
  PROVE  Count(s, code, op) \in Nat
<1>1. IsFiniteSet(1 .. Len(s)) /\ Len(s) \in Nat
  BY LenProperties, FS_Interval
<1>2. Reported(s, code, op, Len(s)) \subseteq 1 .. Len(s)
  BY DEF Reported
<1>. QED  BY <1>1, <1>2, FS_Subset, FS_CardinalityType DEF Count

LEMMA ResultsInvInit == Init => ResultsInv
<1> SUFFICES ASSUME Init  PROVE ResultsInv
  OBVIOUS
<1>1. DispatchInv
  BY DispatchInvInit
<1>2. StatusBeforeResult
  BY DEF Init, StatusBeforeResult
<1>3. \A code, op : Count(toApp, code, op) = 0
  <2>1. \A code, op : Reported(toApp, code, op, Len(toApp)) = {}
    BY DEF Init, Reported
  <2>. QED  BY <2>1, FS_EmptySet DEF Count
<1>4. ResultsCovered
  BY <1>3 DEF ResultsCovered, Init, InHand, In
<1>. QED  BY <1>1, <1>2, <1>4 DEF ResultsInv

LEMMA ResultsInvNext == ResultsInv /\ [Next]_vars => ResultsInv'
<1> SUFFICES ASSUME ResultsInv, [Next]_vars
             PROVE  ResultsInv'
  OBVIOUS
<1>0. DispatchInv' /\ DispatchInv /\ TypeOK /\ toApp \in Seq(Event)
  BY DispatchInvNext DEF ResultsInv, DispatchInv, TypeOK
<1>a. \A code, op : Count(toApp, code, op) \in Nat
  BY <1>0, CountType
<1>c. /\ \A op, ops : In(op, ops) \in Nat
      /\ \A op : InHand(op) \in Nat /\ InHand(op)' \in Nat
  BY DEF In, InHand
<1>b. ASSUME UNCHANGED toApp, UNCHANGED <<rx, answer, pending, ready>>
      PROVE  ResultsInv'
  BY <1>0, <1>b DEF ResultsInv, ResultsCovered, StatusBeforeResult, InHand
<1>1. ASSUME NEW c \in Commands, Dispatch(c)
      PROVE  ResultsInv'
  <2>1. /\ rx = "drain" /\ UNCHANGED <<ready, toApp>>
        /\ Answered(c) \/ Ignored(c)
    BY <1>1, DispatchDoes
  <2>2. StatusBeforeResult'
    BY <2>1 DEF ResultsInv, StatusBeforeResult
  <2>3. ASSUME NEW op \in Known
        PROVE  Count(toApp', "result", op) + In(op, pending') + In(op, ready')
                 <= Count(toApp', "status", op) + InHand(op)'
    <3>1. Count(toApp, "result", op) + In(op, pending) + In(op, ready)
            <= Count(toApp, "status", op)
      BY <1>a, <2>1 DEF ResultsInv, ResultsCovered, InHand, In
    <3>2. op \in pending' => op \in pending \/ InHand(op)' = 1
      BY <2>1 DEF Answered, Ignored, InHand, AnswerFits
    <3>. QED  BY <1>a, <1>c, <2>1, <3>1, <3>2 DEF In
  <2>. QED  BY <1>0, <2>2, <2>3 DEF ResultsInv, ResultsCovered
<1>2. CASE SendAnswer
  <2>1. /\ rx = "answer" /\ rx' = "drain" /\ answer \in Event
        /\ toApp' = Append(toApp, answer)
        /\ UNCHANGED <<pending, ready>> /\ answer.code # "result" /\ answer.op \in Known
    BY <1>0, <1>2 DEF SendAnswer, DispatchInv, AnswersInStep, AnswerFits, Event
  <2>a. \A code, op : Count(toApp', code, op) =
          Count(toApp, code, op) +
            (IF answer.code = code /\ answer.op = op /\ answer.status = 0 THEN 1 ELSE 0)
    BY <1>0, <2>1, OneMoreEvent
  <2>2. ASSUME NEW op \in Known
        PROVE  Count(toApp', "result", op) + In(op, pending') + In(op, ready')
                 <= Count(toApp', "status", op) + InHand(op)'
    <3>1. Count(toApp', "result", op) = Count(toApp, "result", op)
      <4>1. Count(toApp', "result", op) = Count(toApp, "result", op) + 0
        BY <2>1, <2>a
      <4>. QED  BY <1>a, <4>1
    <3>2. Count(toApp', "status", op) = Count(toApp, "status", op) + InHand(op)
      BY <2>1, <2>a DEF InHand, In
    <3>3. InHand(op)' = 0
      BY <2>1 DEF InHand
    <3>. QED  BY <1>a, <1>c, <2>1, <3>1, <3>2, <3>3 DEF ResultsInv, ResultsCovered
  <2>3. PICK o \in Known : o = answer.op
    BY <2>1
  <2>4. Count(toApp', "result", o) <= Count(toApp', "status", o)
    <3>1. Count(toApp', "result", o) \in Nat /\ Count(toApp', "status", o) \in Nat
      BY <1>0, CountType DEF DispatchInv, TypeOK
    <3>2. InHand(o)' = 0
      BY <2>1 DEF InHand
    <3>3. Count(toApp', "result", o) + In(o, pending') + In(o, ready')
            <= Count(toApp', "status", o) + InHand(o)'
      BY <2>2
    <3>. QED  BY <1>c, <3>1, <3>2, <3>3
  <2>. QED  BY <1>0, <2>1, <2>2, <2>3, <2>4, PrefixesGrow DEF ResultsInv, ResultsCovered
<1>3. ASSUME NEW o \in Async, Complete(o)
      PROVE  ResultsInv'
  <2>1. UNCHANGED <<rx, answer, toApp>> /\ o \in pending
        /\ pending' = pending \ {o} /\ ready' = ready \cup {o}
    BY <1>3 DEF Complete
  <2>2. ASSUME NEW op \in Known
        PROVE  Count(toApp', "result", op) + In(op, pending') + In(op, ready')
                 <= Count(toApp', "status", op) + InHand(op)'
    <3>1. InHand(op)' = InHand(op)
      BY <2>1 DEF InHand
    <3>2. In(op, pending') + In(op, ready') <= In(op, pending) + In(op, ready)
      BY <2>1 DEF In
    <3>. QED  BY <1>a, <1>c, <2>1, <3>1, <3>2 DEF ResultsInv, ResultsCovered
  <2>. QED  BY <1>0, <2>1, <2>2 DEF ResultsInv, ResultsCovered, StatusBeforeResult
<1>4. ASSUME NEW o \in Async, HciGet(o)
      PROVE  ResultsInv'
  <2>1. /\ rx = "wait" /\ UNCHANGED <<rx, pending>>
        /\ o \in ready /\ ready' = ready \ {o}
        /\ toApp' = Append(toApp, Result(o)) /\ o \in Known
        /\ Result(o) \in Event /\ Result(o).code = "result" /\ Result(o).op = o
        /\ Result(o).status = 0
    BY <1>4 DEF HciGet, Known, Result, Event
  <2>a. \A code, op : Count(toApp', code, op) = Count(toApp, code, op) +
          (IF Result(o).code = code /\ Result(o).op = op /\ Result(o).status = 0 THEN 1 ELSE 0)
    BY <1>0, <2>1, OneMoreEvent
  <2>2. ASSUME NEW op \in Known
        PROVE  Count(toApp', "result", op) + In(op, pending') + In(op, ready')
                 <= Count(toApp', "status", op) + InHand(op)'
    <3>1. Count(toApp', "result", op) = Count(toApp, "result", op) + (IF op = o THEN 1 ELSE 0)
      BY <2>1, <2>a DEF In
    <3>2. Count(toApp', "status", op) = Count(toApp, "status", op)
      <4>1. Count(toApp', "status", op) = Count(toApp, "status", op) + 0
        BY <2>1, <2>a
      <4>. QED  BY <1>a, <4>1
    <3>3. InHand(op) = 0 /\ InHand(op)' = 0
      BY <2>1 DEF InHand
    <3>4. In(op, ready') + (IF op = o THEN 1 ELSE 0) = In(op, ready)
      BY <2>1 DEF In
    <3>. QED  BY <1>a, <2>1, <3>1, <3>2, <3>3, <3>4 DEF ResultsInv, ResultsCovered, In
  <2>3. Count(toApp', "result", o) <= Count(toApp', "status", o)
    <3>1. Count(toApp', "result", o) \in Nat /\ Count(toApp', "status", o) \in Nat
      BY <1>0, CountType DEF DispatchInv, TypeOK
    <3>2. InHand(o)' = 0
      BY <2>1 DEF InHand
    <3>3. In(o, pending') \in Nat /\ In(o, ready') \in Nat
      BY DEF In
    <3>4. Count(toApp', "result", o) + In(o, pending') + In(o, ready')
            <= Count(toApp', "status", o) + InHand(o)'
      BY <2>1, <2>2
    <3>. QED  BY <3>1, <3>2, <3>3, <3>4
  <2>. QED  BY <1>0, <2>1, <2>2, <2>3, PrefixesGrow DEF ResultsInv, ResultsCovered
<1>5. CASE WakeUp \/ Drained
  <2>1. rx # "answer" /\ rx' # "answer" /\ UNCHANGED <<answer, pending, ready, toApp>>
    BY <1>5 DEF WakeUp, Drained
  <2>. QED
    BY <1>0, <2>1 DEF ResultsInv, ResultsCovered, StatusBeforeResult, InHand
<1>6. ASSUME NEW c \in Commands, Send(c)
      PROVE  ResultsInv'
  BY <1>b, <1>6 DEF Send
<1>7. CASE UNCHANGED vars
  BY <1>b, <1>7 DEF vars
<1>. QED  BY <1>1, <1>2, <1>3, <1>4, <1>5, <1>6, <1>7 DEF Next

\* No result of an asynchronous command overtakes its Command Status, because
\* sdc_event_loop runs only while ipc_rx_loop has no answer in hand.
THEOREM ResultsFollowStatus == Spec => []StatusBeforeResult
<1>1. ResultsInv => StatusBeforeResult
  BY DEF ResultsInv
<1>. QED  BY <1>1, ResultsInvInit, ResultsInvNext, PTL DEF Spec

-----------------------------------------------------------------------------
(* The refinement of CommandServer. *)

LEMMA EssenceAppended ==
  ASSUME TypeOK, NEW e \in Event, toApp' = Append(toApp, e)
  PROVE  Outbox' = Append(Outbox, Essence(e))
<1> DEFINE n == Len(toApp)
           S == [code : {"complete", "status", "result"}, op : Known]
<1>1. /\ n \in Nat /\ DOMAIN toApp = 1 .. n /\ DOMAIN toApp' = 1 .. n + 1
      /\ toApp' \in Seq(Event) /\ toApp'[n + 1] = e
      /\ \A i \in 1 .. n : toApp'[i] = toApp[i]
  BY Appended DEF TypeOK
<1>2. \A f \in Event : Essence(f) \in S
  BY DEF Essence, Event
<1>3. Outbox = [i \in 1 .. n |-> Essence(toApp[i])] /\ Outbox \in Seq(S) /\ Len(Outbox) = n
  <2>1. \A i \in 1 .. n : toApp[i] \in Event
    BY <1>1, ElementOfSeq DEF TypeOK
  <2>. QED  BY <1>1, <1>2, <2>1 DEF Outbox
<1>4. /\ Outbox' = [i \in 1 .. n + 1 |-> Essence(toApp'[i])]
      /\ Outbox' \in Seq(S) /\ Len(Outbox') = n + 1
  <2>1. \A i \in 1 .. n + 1 : toApp'[i] \in Event
    BY <1>1, ElementOfSeq
  <2>. QED  BY <1>1, <1>2, <2>1 DEF Outbox
<1> DEFINE A == Append(Outbox, Essence(e))
<1> HIDE DEF S
<1>5. /\ A \in Seq(S) /\ Len(A) = n + 1
      /\ \A i \in 1 .. n : A[i] = Outbox[i]
      /\ A[n + 1] = Essence(e)
  BY <1>1, <1>2, <1>3, AppendProperties
<1>6. \A i \in 1 .. n + 1 : A[i] = Outbox'[i]
  BY <1>1, <1>3, <1>4, <1>5
<1> HIDE DEF A
<1>7. Outbox' = A
  BY <1>4, <1>5, <1>6, SeqEqual
<1>. QED  BY <1>7 DEF A

\* What is in the inbox in each state of the drain loop.
LEMMA InboxIs ==
  ASSUME TypeOK
  PROVE  /\ rx # "answer" => Inbox = ring
         /\ rx = "answer" => Inbox = <<asked[Len(asked)]>> \o ring
BY ConcatEmptySeq DEF Inbox, TypeOK

LEMMA ServerInit == Init => Server!Init
<1> SUFFICES ASSUME Init  PROVE Server!Init
  OBVIOUS
<1>1. TypeOK
  BY DispatchInvInit DEF DispatchInv
<1>2. Inbox = <<>>
  BY <1>1, InboxIs DEF Init
<1>3. Outbox = <<>>
  BY DEF Init, Outbox
<1>. QED  BY <1>2, <1>3 DEF Init, Server!Init

LEMMA ServerNext == DispatchInv /\ DispatchInv' /\ [Next]_vars => [Server!Next]_(Server!serverVars)
<1> SUFFICES ASSUME DispatchInv, DispatchInv', [Next]_vars
             PROVE  Server!Next \/ UNCHANGED Server!serverVars
  OBVIOUS
<1>0. /\ TypeOK /\ TypeOK'
      /\ rx # "answer" => Inbox = ring
      /\ rx = "answer" => Inbox = <<asked[Len(asked)]>> \o ring
      /\ rx' # "answer" => Inbox' = ring'
      /\ rx' = "answer" => Inbox' = <<asked'[Len(asked')]>> \o ring'
  <2>1. TypeOK /\ TypeOK'
    BY DEF DispatchInv
  <2>2. TypeOK' => (rx' # "answer" => Inbox' = ring')
                   /\ (rx' = "answer" => Inbox' = <<asked'[Len(asked')]>> \o ring')
    BY ConcatEmptySeq DEF Inbox, TypeOK
  <2>. QED  BY <2>1, <2>2, InboxIs
<1>a. rx = "answer" => asked[Len(asked)] \in Commands /\ IsKnown(asked[Len(asked)])
  <2>1. Len(answered) \in Nat /\ asked \in Seq(Commands)
    BY LenProperties DEF DispatchInv, TypeOK
  <2>2. rx = "answer" => Len(asked) \in 1 .. Len(asked)
    BY <2>1 DEF DispatchInv, AnswersInStep
  <2>. QED  BY <2>1, <2>2, ElementOfSeq DEF DispatchInv, AnswersKnown
<1>b. ring \in Seq(Commands)
  BY <1>0 DEF TypeOK
<1>c. UNCHANGED toApp => UNCHANGED Outbox
  BY DEF Outbox
<1>d. ASSUME UNCHANGED <<ring, rx, asked>>
      PROVE  UNCHANGED Inbox
  BY <1>d DEF Inbox
<1>1. ASSUME NEW c \in Commands, Send(c)
      PROVE  Server!Next
  <2>1. Inbox' = Append(Inbox, c)
    <3>1. ring' = Append(ring, c) /\ rx' = rx /\ asked' = asked
      BY <1>1 DEF Send
    <3>2. CASE rx = "answer"
      BY <1>0, <1>a, <1>b, <3>1, <3>2, OneInFront
    <3>3. CASE rx # "answer"
      BY <1>0, <3>1, <3>3
    <3>. QED  BY <3>2, <3>3
  <2>. QED  BY <1>1, <1>c, <2>1 DEF Send, Server!Next, Server!Arrive
<1>2. ASSUME NEW c \in Commands, Dispatch(c)
      PROVE  Server!Next \/ UNCHANGED Server!serverVars
  <2>1. /\ rx = "drain" /\ ring # <<>> /\ c = Head(ring) /\ ring' = Tail(ring)
        /\ UNCHANGED toApp
        /\ Answered(c) \/ Ignored(c)
    BY <1>2, DispatchDoes
  <2>2. CASE Answered(c)
    <3>1. asked'[Len(asked')] = c
      BY <2>2, Appended DEF Answered, DispatchInv, TypeOK
    <3>2. Inbox' = Inbox
      BY <1>0, <1>b, <2>1, <2>2, <3>1, HeadAndTail DEF Answered
    <3>3. UNCHANGED (rx # "wait")
      BY <2>1, <2>2 DEF Answered
    <3>4. UNCHANGED Outbox
      BY <1>c, <2>1
    <3>. QED  BY <3>2, <3>3, <3>4, Zenon DEF Server!serverVars
  <2>3. CASE Ignored(c)
    <3>1. Inbox = ring /\ Inbox' = Tail(Inbox) /\ Head(Inbox) = c
      BY <1>0, <2>1, <2>3 DEF Ignored
    <3>2. Head(Inbox) \notin {d \in Commands : IsKnown(d)}
      BY <2>3, <3>1 DEF Ignored
    <3>3. rx # "wait" /\ UNCHANGED (rx # "wait") /\ Inbox # <<>>
      BY <2>1, <2>3, <3>1 DEF Ignored
    <3>4. UNCHANGED Outbox
      BY <1>c, <2>1
    <3>5. Server!Handle
      BY <3>1, <3>2, <3>3, <3>4, Zenon DEF Server!Handle
    <3>. QED  BY <3>5 DEF Server!Next
  <2>. QED  BY <2>1, <2>2, <2>3
<1>3. CASE WakeUp
  BY <1>0, <1>c, <1>3 DEF WakeUp, Server!Next, Server!Start
<1>4. CASE Drained
  BY <1>0, <1>c, <1>4 DEF Drained, Server!Next, Server!Stop
<1>5. CASE SendAnswer
  <2> DEFINE c == asked[Len(asked)]
  <2>1. /\ rx = "answer" /\ rx' = "drain" /\ ring' = ring /\ toApp' = Append(toApp, answer)
        /\ answer \in Event /\ AnswerFits(answer, c) /\ c \in Commands
    BY <1>5, <1>a DEF SendAnswer, DispatchInv, AnswersInStep
  <2>2. Inbox # <<>> /\ Head(Inbox) = c /\ Inbox' = Tail(Inbox)
    BY <1>0, <1>b, <2>1, OneInFront
  <2>3. Outbox' = Append(Outbox, Essence(answer))
    BY <1>0, <2>1, EssenceAppended
  <2>4. IsKnown(c)
    BY <1>a, <2>1
  <2>5. Essence(answer) = [code |-> IF c.op \in Async THEN "status" ELSE "complete", op |-> c.op]
    BY <2>1 DEF Essence, AnswerFits
  <2> HIDE DEF c
  <2>. QED  BY <2>1, <2>2, <2>3, <2>4, <2>5 DEF Server!Next, Server!Handle
<1>6. ASSUME NEW op \in Async, Complete(op)
      PROVE  UNCHANGED Server!serverVars
  BY <1>c, <1>d, <1>6 DEF Complete, Server!serverVars
<1>7. ASSUME NEW op \in Async, HciGet(op)
      PROVE  Server!Next
  <2>1. Result(op) \in Event /\ Essence(Result(op)) = [code |-> "result", op |-> op]
    BY DEF Result, Event, Known, Essence
  <2>2. Outbox' = Append(Outbox, Essence(Result(op)))
    BY <1>0, <1>7, <2>1, EssenceAppended DEF HciGet
  <2>3. UNCHANGED Inbox
    BY <1>7, <1>d DEF HciGet
  <2>. QED  BY <1>7, <2>1, <2>2, <2>3 DEF HciGet, Server!Next, Server!Report
<1>8. CASE UNCHANGED vars
  BY <1>c, <1>d, <1>8 DEF vars, Server!serverVars
<1>. QED  BY <1>1, <1>2, <1>3, <1>4, <1>5, <1>6, <1>7, <1>8 DEF Next

\* The opcode table, the length checks, the calls of the controller and its
\* interrupts implement CommandServer: commands are handled one at a time and in
\* order, and nothing is sent between a command and its answer.
THEOREM DispatchImplementsServer == Spec => ImplementsServer
BY DispatchInvariant, ServerInit, ServerNext, PTL DEF Spec, ImplementsServer, Server!Spec
=============================================================================

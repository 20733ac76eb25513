--------------------------- MODULE Sim900SystemProofs ---------------------------
(***************************************************************************)
(* Proofs about the driver between a worker and a modem: the types, and    *)
(* the agreement on the multi-IP mode.                                     *)
(***************************************************************************)
EXTENDS Sim900System, Sim900DriverProofs, SequenceTheorems

-----------------------------------------------------------------------------
(* Lines and commands under way.                                           *)

\* Short sequences, element by element.
LEMMA ShortSeq ==
  ASSUME NEW S, NEW a \in S, NEW b \in S
  PROVE  /\ <<>> \in Seq(S) /\ <<a>> \in Seq(S) /\ <<a, b>> \in Seq(S)
         /\ \A c, d \in S : <<a, b, c>> \in Seq(S) /\ <<a, b, c, d>> \in Seq(S)
         /\ \A c, d, e \in S : <<a, b, c, d, e>> \in Seq(S)
  OBVIOUS

Packet == [f : Frame, whose : {"own", "old", "event"}]
Posted   == [cmd : Cmds, arg : Nat, whose : {"own", "old"}]

\* Stamping lines keeps their number, order and contents.
LEMMA StampSeq ==
  ASSUME NEW lines \in Seq(Frame), NEW w \in {"own", "old", "event"}
  PROVE  /\ Stamp(lines, w) \in Seq(Packet)
         /\ Len(Stamp(lines, w)) = Len(lines)
         /\ \A i \in 1..Len(lines) : Stamp(lines, w)[i] = [f |-> lines[i], whose |-> w]
<1>1. Len(lines) \in Nat /\ DOMAIN lines = 1..Len(lines) /\ lines \in [1..Len(lines) -> Frame]
  BY LenProperties
<1>2. Stamp(lines, w) \in [1..Len(lines) -> Packet]
  BY <1>1 DEF Stamp, Packet
<1>3. Stamp(lines, w) \in Seq(Packet)
  BY <1>1, <1>2, SeqDef
<1>4. Len(Stamp(lines, w)) = Len(lines)
  BY <1>1, <1>2, <1>3, LenProperties
<1> QED
  BY <1>1, <1>3, <1>4 DEF Stamp

\* Ageing keeps everything but the mark of the last command.
LEMMA AgedSeq ==
  ASSUME NEW S, S = Packet \/ S = Posted, NEW s \in Seq(S)
  PROVE  /\ Aged(s) \in Seq(S)
         /\ Len(Aged(s)) = Len(s)
         /\ \A i \in 1..Len(s) :
              Aged(s)[i] = [s[i] EXCEPT !.whose = IF @ = "own" THEN "old" ELSE @]
         /\ \A i \in 1..Len(s) : Aged(s)[i].whose # "own"
<1>1. Len(s) \in Nat /\ DOMAIN s = 1..Len(s) /\ s \in [1..Len(s) -> S]
  BY LenProperties
<1>2. ASSUME NEW m \in S
      PROVE  /\ [m EXCEPT !.whose = IF @ = "own" THEN "old" ELSE @] \in S
             /\ [m EXCEPT !.whose = IF @ = "own" THEN "old" ELSE @].whose # "own"
  <2>1. CASE S = Packet
    BY <1>2, <2>1 DEF Packet
  <2>2. CASE S = Posted
    BY <1>2, <2>2 DEF Posted
  <2> QED BY <2>1, <2>2
<1>3. Aged(s) \in [1..Len(s) -> S]
  BY <1>1, <1>2 DEF Aged
<1>4. Aged(s) \in Seq(S)
  BY <1>1, <1>3, SeqDef
<1>5. Len(Aged(s)) = Len(s)
  BY <1>1, <1>3, <1>4, LenProperties
<1> QED
  BY <1>1, <1>2, <1>4, <1>5 DEF Aged

\* The lines the modem writes are lines.
LEMMA LineType ==
  /\ \A t \in FrameTexts : Line(t) \in Frame
  /\ \A t \in FrameTexts, n \in Link : LinkLine(t, n) \in Frame
  /\ \A t \in FrameTexts : Linked(t) \in Frame
  /\ \A t \in FrameTexts, v \in Nat : Saying(t, v) \in Frame
  /\ \A c \in Cmds : InfoLine(c) \in Frame
  /\ \A c \in Cmds, v \in Nat : Report(c, v) \in Frame
  /\ \A n \in Link, v \in Nat : Row(n, v) \in Frame
<1>1. \A t \in FrameTexts : Line(t) \in Frame
  BY DEF Line, Frame, NoLink, NO_AT
<1>2. \A t \in FrameTexts, n \in Link : LinkLine(t, n) \in Frame
  BY DEF LinkLine, Frame, NO_AT
<1>3. \A c \in Cmds : InfoLine(c) \in Frame
  BY DEF InfoLine, Frame, NoLink, FrameTexts, OtherTexts
<1>4. \A f \in Frame, v \in Nat, n \in Link :
        [f EXCEPT !.link = n, !.len = v] \in Frame
  BY DEF Frame
<1>5. 0 \in Link /\ 1 \in Link
  BY DEF Link
<1>6. \A t \in FrameTexts : Linked(t) \in Frame
  BY <1>1, <1>2, <1>5 DEF Linked
<1>7. \A t \in FrameTexts, v \in Nat : Saying(t, v) \in Frame
  <2>1. \A f \in Frame, v \in Nat : [f EXCEPT !.len = v] \in Frame
    BY DEF Frame
  <2> QED BY <1>1, <2>1 DEF Saying
<1>8. \A c \in Cmds, v \in Nat : Report(c, v) \in Frame
  BY <1>3, <1>4, <1>5 DEF Report
<1>9. "CLIENT" \in FrameTexts
  BY DEF FrameTexts, OtherTexts
<1>10. \A n \in Link, v \in Nat : Row(n, v) \in Frame
  <2>1. \A f \in Frame, v \in Nat : [f EXCEPT !.len = v] \in Frame
    BY DEF Frame
  <2> QED BY <1>2, <1>9, <2>1 DEF Row
<1> QED BY <1>1, <1>2, <1>3, <1>6, <1>7, <1>8, <1>10

\* The texts the modem's answers are made of.
LEMMA AnswerTexts ==
  {"CRLF", "OK", "ERROR", "PROMPT", "STATE", "IP", "TEXT", "CLOSE OK", "SHUT OK",
   "SEND OK", "SEND FAIL", "CONNECT", "NO CARRIER"} \subseteq FrameTexts
  BY DEF FrameTexts, OtherTexts, StatusTexts

LEMMA VerdictSeq == \A t \in FrameTexts : Verdict(t) \in Seq(Frame)
  BY LineType, AnswerTexts, ShortSeq DEF Verdict

LEMMA GrantedSeq ==
  ASSUME NEW c \in Cmds, NEW v \in Nat
  PROVE  Granted(c, v) \in Seq(Frame)
<1>1. 0 \in Link /\ 7 \in Link
  BY DEF Link
<1>2. /\ Line("CRLF") \in Frame /\ Line("OK") \in Frame /\ Line("PROMPT") \in Frame
      /\ Saying("STATE", v) \in Frame /\ Saying("IP", v) \in Frame /\ Saying("TEXT", v) \in Frame
      /\ Report(c, v) \in Frame /\ Row(0, v) \in Frame /\ Row(7, v) \in Frame
      /\ Linked("CLOSE OK") \in Frame
  BY <1>1, AnswerTexts, LineType
<1>3. Table(v) \in Seq(Frame)
  <2>1. <<Line("CRLF"), Line("OK"), Line("CRLF"), Saying("STATE", v), Line("CRLF")>> \in Seq(Frame)
    BY <1>2, ShortSeq
  <2>2. (IF modem_mux # 0 THEN <<Row(0, v), Row(7, v)>> ELSE <<>>) \in Seq(Frame)
    BY <1>2, ShortSeq
  <2> QED BY <2>1, <2>2, ConcatProperties DEF Table
<1>4. /\ Verdict("SHUT OK") \in Seq(Frame) /\ Verdict("OK") \in Seq(Frame)
      /\ Verdict("CONNECT") \in Seq(Frame)
  BY AnswerTexts, VerdictSeq
<1>5. /\ <<Line("CRLF"), Saying("IP", v)>> \in Seq(Frame)
      /\ <<Line("CRLF"), Report(c, v), Saying("TEXT", v), Line("CRLF"), Line("OK")>> \in Seq(Frame)
      /\ <<Line("CRLF"), Report(c, v), Line("CRLF"), Line("OK")>> \in Seq(Frame)
      /\ <<Line("CRLF"), Line("PROMPT")>> \in Seq(Frame)
      /\ <<Line("CRLF"), Linked("CLOSE OK")>> \in Seq(Frame)
  BY <1>2, ShortSeq
<1> QED BY <1>3, <1>4, <1>5 DEF Granted

LEMMA DeniedSeq ==
  ASSUME NEW c, NEW a \in Denied(c)
  PROVE  a \in Seq(Frame) /\ a \in {Verdict("ERROR"), Verdict("NO CARRIER")}
<1>1. Verdict("ERROR") \in Seq(Frame) /\ Verdict("NO CARRIER") \in Seq(Frame)
  BY AnswerTexts, VerdictSeq
<1>2. a = Verdict("ERROR") \/ a = Verdict("NO CARRIER")
  <2>1. CASE c = "ATO"
    BY <2>1 DEF Denied
  <2>2. CASE c # "ATO"
    BY <2>2 DEF Denied
  <2> QED BY <2>1, <2>2
<1> QED BY <1>1, <1>2

LEMMA FinishedSeq ==
  ASSUME NEW c \in Cmds
  PROVE  Finished(c) \subseteq Seq(Frame)
<1>1. /\ Line("CRLF") \in Frame /\ Line("OK") \in Frame /\ InfoLine(c) \in Frame
      /\ Linked("SEND OK") \in Frame /\ Linked("SEND FAIL") \in Frame
  BY AnswerTexts, LineType
<1>2. Verdict("ERROR") \in Seq(Frame)
  BY AnswerTexts, VerdictSeq
<1>3. \A t \in {"SEND OK", "SEND FAIL"} : <<Line("CRLF"), Linked(t)>> \in Seq(Frame)
  BY <1>1, ShortSeq
<1>4. <<Line("CRLF"), InfoLine(c), Line("CRLF"), Line("OK")>> \in Seq(Frame)
  BY <1>1, ShortSeq
<1> QED BY <1>2, <1>3, <1>4 DEF Finished

-----------------------------------------------------------------------------
(* The types.                                                              *)

\* What the getters return, and what lies behind the caller's pointers.
ResultsTyped ==
  /\ result \in [Queries -> Nat \cup {Unknown}]
  /\ \A q \in DOMAIN Known : result[q] \in Known[q] \cup {Unknown}
  /\ result["CIPSTATUS"] \in 0..9 \cup {Unknown}
  /\ client \in [Link -> ClientStates \cup {Unknown}] /\ sms_text \in 0..MsgLength

LineTyped ==
  /\ wire \in Seq(Packet) /\ pending \in Seq(Posted) /\ prompting \in Seq(Posted)
  /\ Len(pending) <= Backlog /\ Len(prompting) <= 1
  /\ modem_mux \in {0, 1} /\ {quiet, cut, doubt} \subseteq BOOLEAN /\ said \in Numbers \cup {0}

\* The worker waits while its command is in flight, so none of its calls is refused.
WorkerWaits ==
  /\ waiting \in BOOLEAN
  /\ todo = <<>> => ~waiting
  /\ InFlight => waiting /\ status[reply] # "BUSY"

TypeInv == IInv /\ ResultsTyped /\ LineTyped /\ WorkerWaits

LEMMA KnownNumbers ==
  /\ DOMAIN Known = {"CPINR", "CREG", "CSMINS", "CGATT"}
  /\ DOMAIN Known \subseteq Queries
  /\ \A q \in DOMAIN Known : Known[q] \subseteq Nat
  /\ "CIPSTATUS" \notin DOMAIN Known /\ "CSQ" \notin DOMAIN Known
  /\ "CIFSR" \notin DOMAIN Known /\ "CMGR" \notin DOMAIN Known
  BY DEF Known, Queries

\* A parser stores only what its field can hold.
LEMMA StoreType ==
  ASSUME ResultsTyped, NEW q \in Queries, NEW v \in Nat \cup {Unknown},
         q \in DOMAIN Known => v \in Known[q] \cup {Unknown},
         q = "CIPSTATUS" => v \in 0..9 \cup {Unknown},
         result' = [result EXCEPT ![q] = v], UNCHANGED <<client, sms_text>>
  PROVE  ResultsTyped'
<1>1. "CIPSTATUS" \in Queries /\ DOMAIN Known \subseteq Queries
  BY KnownNumbers DEF Queries
<1> QED BY <1>1 DEF ResultsTyped

LEMMA StateNumbers ==
  ASSUME NEW k \in Nat
  PROVE  /\ _simx_mux0_cipstate(k) \in 0..9 \cup {Unknown}
         /\ _simx_mux1_cipstate(k) \in 0..9 \cup {Unknown}
  BY DEF _simx_mux0_cipstate, _simx_mux1_cipstate

LEMMA ParseType ==
  ASSUME NEW f \in Frame, TypeOK, ResultsTyped, Parse(f)
  PROVE  ResultsTyped'
<1>1. f.len \in Nat
  BY DEF Frame
<1>2. CASE UNCHANGED results
  BY <1>2 DEF ResultsTyped, results
<1>3. CASE Number(f)
  <2>1. cmd \in Queries /\ cmd \in DOMAIN Known /\ cmd # "CIPSTATUS"
    BY <1>3, KnownNumbers DEF Number
  <2>2. PICK v \in Known[cmd] \cup {Unknown} : Store(v)
    BY <1>3, <2>1 DEF Number
  <2>3. v \in Nat \cup {Unknown} /\ UNCHANGED <<client, sms_text>>
    BY <1>3, <2>1, KnownNumbers DEF Number
  <2> QED BY <2>1, <2>2, <2>3, StoreType DEF Store
<1>4. CASE _simx_signal_quality_report_resp(f)
  <2>1. cmd = "CSQ" /\ UNCHANGED <<client, sms_text>>
    BY <1>4 DEF _simx_signal_quality_report_resp
  <2>2. f.len % ByteMod \in Nat /\ result["CSQ"] \in Nat \cup {Unknown}
    BY <1>1, NumberAssumption DEF ResultsTyped, Queries
  <2>3. PICK v \in Nat \cup {Unknown} : Store(v)
    BY <1>4, <2>1, <2>2 DEF _simx_signal_quality_report_resp
  <2> QED BY <2>1, <2>3, KnownNumbers, StoreType DEF Store, Queries
<1>5. CASE Address(f)
  <2>1. cmd = "CIFSR" /\ UNCHANGED <<client, sms_text>>
    BY <1>5 DEF Address
  <2>2. result["CIFSR"] \in Nat \cup {Unknown}
    BY DEF ResultsTyped, Queries
  <2>3. PICK v \in Nat \cup {Unknown} : Store(v)
    BY <1>1, <1>5, <2>1, <2>2 DEF Address
  <2> QED BY <2>1, <2>3, KnownNumbers, StoreType DEF Store, Queries
<1>6. CASE _simx_sms_read_resp(f)
  <2>1. cmd = "CMGR" /\ UNCHANGED client /\ result["CMGR"] \in Nat \cup {Unknown}
    BY <1>6 DEF _simx_sms_read_resp, ResultsTyped, Queries
  <2>2. CASE f.text = "INFO" /\ f.of = "CMGR"
    <3>1. PICK v \in Nat \cup {Unknown} : Store(v)
      BY <1>1, <1>6, <2>1, <2>2 DEF _simx_sms_read_resp
    <3>2. UNCHANGED sms_text
      BY <1>6, <2>2 DEF _simx_sms_read_resp
    <3> QED BY <2>1, <3>1, <3>2, KnownNumbers, StoreType DEF Store, Queries
  <2>3. CASE ~(f.text = "INFO" /\ f.of = "CMGR")
    <3>1. sms_text' = (IF MsgLength > f.len + 2 THEN f.len ELSE MsgLength) /\ UNCHANGED result
      BY <1>6, <2>3 DEF _simx_sms_read_resp
    <3> QED BY <1>1, <2>1, <3>1, MsgLengthAssumption DEF ResultsTyped
  <2> QED BY <2>2, <2>3
<1>7. CASE _simx_connection_status(f)
  <2>1. cmd = "CIPSTATUS" /\ UNCHANGED sms_text
    BY <1>7 DEF _simx_connection_status
  <2>2. client' \in [Link -> ClientStates \cup {Unknown}]
    BY <1>7 DEF _simx_connection_status, ResultsTyped
  <2>3. CASE f.text = "STATE"
    <3>1. PICK v \in 0..9 \cup {Unknown} : Store(v)
      BY <1>1, <1>7, <2>3, StateNumbers DEF _simx_connection_status
    <3>2. /\ result' \in [Queries -> Nat \cup {Unknown}]
          /\ \A q \in DOMAIN Known : result'[q] = result[q]
          /\ result'["CIPSTATUS"] = v
      BY <2>1, <3>1, KnownNumbers DEF Store, ResultsTyped, Queries
    <3> QED BY <2>1, <2>2, <3>2 DEF ResultsTyped
  <2>4. CASE f.text # "STATE"
    <3>1. UNCHANGED result
      BY <1>7, <2>4 DEF _simx_connection_status
    <3> QED BY <2>1, <2>2, <3>1 DEF ResultsTyped
  <2> QED BY <2>3, <2>4
<1> QED BY <1>2, <1>3, <1>4, <1>5, <1>6, <1>7 DEF Parse

-----------------------------------------------------------------------------
(* What each step does to the driver.                                      *)

\* A call starts a command: the worker makes none while one is in flight.
LEMMA CallStarts ==
  ASSUME TypeInv, NEW r \in Replies, Call(r)
  PROVE  /\ is_receive = 1 /\ is_receive' = 0 /\ state' = "RN" /\ reply' = r
         /\ cmd' \in Calls /\ cmd' \in Cmds /\ cmd' = Head(todo).cmd
         /\ CallFields(r, cmd') /\ FieldsTyped'
         /\ status' = [status EXCEPT ![r] = "NULL"]
         /\ UNCHANGED modes
         /\ upcalls' # {}
<1>1. is_receive = 1
  BY DEF Call, TypeInv, WorkerWaits, IInv, TypeOK, InFlight
<1>2. AppCall(r) /\ cmd' = Head(todo).cmd
  BY DEF Call
<1>3. TypeOK
  BY DEF TypeInv, IInv
<1>4. PICK c \in Calls, n \in Connections : MayCall(r, c) /\ CallEffect(r, c, n)
  BY <1>2, <1>3, AppCallEffect
<1>5. FieldsTyped'
  BY <1>2, <1>3, AppCallEffect
<1>6. PICK m, t : Launch(r, c, m, "RN", "NULL", t)
  BY <1>1, <1>4 DEF CallEffect, Accept, CommandMode, Refuse
<1>7. c \in Cmds
  BY CallAssumption
<1> QED BY <1>1, <1>2, <1>4, <1>5, <1>6, <1>7 DEF Launch, CallEffect

\* The line at the head of the wire, and the one a lost prompt spoils, are lines.
LEMMA HeadLine ==
  ASSUME LineTyped, wire # <<>>
  PROVE  /\ Head(wire) \in Packet /\ Head(wire).f \in Frame /\ Head(wire) = wire[1]
         /\ Tail(wire) \in Seq(Packet) /\ Len(Tail(wire)) = Len(wire) - 1
         /\ \A i \in 1..Len(Tail(wire)) : Tail(wire)[i] = wire[i + 1]
         /\ Len(wire) \in Nat /\ Len(wire) >= 1
<1>1. wire \in Seq(Packet)
  BY DEF LineTyped
<1>2. Head(wire) \in Packet /\ Head(wire) = wire[1]
  BY <1>1, HeadTailProperties
<1>3. Head(wire).f \in Frame
  BY <1>2 DEF Packet
<1> QED BY <1>1, <1>2, <1>3, HeadTailProperties, EmptySeq, LenProperties

LEMMA TextLine == Line("TEXT") \in Frame
  BY LineType, AnswerTexts

\* Every step of the system is a step of the driver, or leaves it alone.
LEMMA DriverStep ==
  ASSUME TypeInv, [SystemNext]_allVars
  PROVE  IInv'
<1>1. IInv
  BY DEF TypeInv
<1>2. ASSUME NEW r \in Replies, Call(r) PROVE IInv'
  BY <1>1, <1>2, AppCallInv DEF Call
<1>3. CASE Deliver
  BY <1>1, <1>3, HeadLine, ReceiveInv DEF Deliver, TypeInv
<1>4. CASE DeliverSpoilt
  BY <1>1, <1>4, TextLine, ReceiveInv DEF DeliverSpoilt
<1>5. CASE Timer
  BY <1>1, <1>5, TickInv DEF Timer
<1>6. CASE StartScript \/ Return \/ Work \/ Announce \/ UNCHANGED allVars
  <2>1. UNCHANGED vars
    BY <1>6 DEF StartScript, Return, Work, Announce, allVars
  <2> QED BY <1>1, <2>1, StutterInv
<1> QED BY <1>2, <1>3, <1>4, <1>5, <1>6 DEF SystemNext

\* A line or the timer never starts a command, nor changes whose command was the
\* last.
LEMMA LineKeepsCommand ==
  ASSUME IInv, NEW f \in Frame, simx_receive_msg(f)
  PROVE  UNCHANGED <<cmd, reply, user_data>> /\ (is_receive' = 0 => is_receive = 0)
<1>1. UNCHANGED user_data
  BY DEF simx_receive_msg, fields
<1>2. ~\E r \in Replies, c \in NestedCalls : NestedCall(f, r, c)
  BY CallbackAssumption
<1>3. CASE simx_check_message(f)
  BY <1>1, <1>3 DEF simx_check_message, simx_finished
<1>4. CASE IdleLine(f)
  BY <1>1, <1>4 DEF IdleLine
<1>5. CASE Answer(f)
  BY <1>1, <1>5 DEF Answer
<1>6. CASE ~simx_receive_frame(f)
  BY <1>1, <1>6 DEF simx_receive_msg
<1> QED BY <1>2, <1>3, <1>4, <1>5, <1>6 DEF simx_receive_frame

LEMMA TimerKeepsCommand ==
  ASSUME Timer
  PROVE  UNCHANGED <<cmd, reply, user_data, modes, fcmd_finished, state>> /\ is_receive = 0
  BY DEF Timer, simx_tick_1ms, Tick, fields

-----------------------------------------------------------------------------
(* The types are inductive.                                                *)

LEMMA TypeInit == SystemInit => TypeInv
<1> SUFFICES ASSUME SystemInit PROVE TypeInv
  OBVIOUS
<1>1. IInv
  BY InitInv DEF SystemInit
<1>2. ResultsTyped
  <2>1. FirstResult \in [Queries -> Nat \cup {Unknown}]
    BY DEF FirstResult
  <2>2. \A q \in DOMAIN Known : FirstResult[q] \in Known[q] \cup {Unknown}
    BY DEF FirstResult, Known, Queries
  <2>3. FirstResult["CIPSTATUS"] \in 0..9 \cup {Unknown}
    BY DEF FirstResult, Queries
  <2> QED BY <2>1, <2>2, <2>3, MsgLengthAssumption DEF SystemInit, InitResults, ResultsTyped
<1>3. LineTyped
  <2>1. \A S : <<>> \in Seq(S) /\ Len(<<>>) = 0
    BY EmptySeq
  <2>2. pending = <<>> /\ prompting = <<>> /\ wire = <<>> /\ modem_mux = 0 /\ said = 0
    BY DEF SystemInit
  <2>3. {quiet, cut, doubt} \subseteq BOOLEAN
    BY DEF SystemInit
  <2> QED BY <2>1, <2>2, <2>3, BacklogAssumption DEF LineTyped
<1>4. WorkerWaits
  <2>1. is_receive = 1 /\ waiting = FALSE
    BY DEF SystemInit, Init
  <2>2. ~InFlight
    BY <2>1 DEF InFlight
  <2> QED BY <2>1, <2>2 DEF WorkerWaits
<1> QED BY <1>1, <1>2, <1>3, <1>4 DEF TypeInv

\* What the modem has got and said after each kind of step.
LEMMA CallLine ==
  ASSUME TypeInv, NEW r \in Replies, Call(r)
  PROVE  LineTyped'
<1>1. cmd' \in Cmds /\ r \in Replies /\ FieldsTyped'
  BY CallStarts
<1>2. user_data'[r] \in Nat
  BY <1>1 DEF FieldsTyped
<1>3. [cmd |-> cmd', arg |-> user_data'[r], whose |-> "own"] \in Posted
  BY <1>1, <1>2 DEF Posted
<1>4. /\ Aged(pending) \in Seq(Posted) /\ Len(Aged(pending)) = Len(pending)
      /\ Aged(prompting) \in Seq(Posted) /\ Len(Aged(prompting)) = Len(prompting)
      /\ Aged(wire) \in Seq(Packet)
  BY AgedSeq DEF TypeInv, LineTyped
<1>5. pending' \in Seq(Posted) /\ Len(pending') <= Len(pending) + 1
  <2>1. CASE prompting # <<>>
    BY <1>4, <2>1, LenProperties DEF Call, TypeInv, LineTyped
  <2>2. CASE prompting = <<>>
    <3>1. pending' = Append(Aged(pending), [cmd |-> cmd', arg |-> user_data'[r], whose |-> "own"])
      BY <2>2 DEF Call
    <3>2. Len(pending') = Len(Aged(pending)) + 1 /\ pending' \in Seq(Posted)
      BY <1>3, <1>4, <3>1, AppendProperties
    <3> QED BY <1>4, <3>2, LenProperties DEF TypeInv, LineTyped
  <2> QED BY <2>1, <2>2
<1>6. Len(pending) < Backlog /\ Len(pending) \in Nat /\ Len(pending') \in Nat
  BY <1>5, LenProperties DEF Call, TypeInv, LineTyped
<1>7. Len(pending') <= Backlog
  BY <1>5, <1>6, BacklogAssumption
<1>8. quiet' \in BOOLEAN /\ cut' \in BOOLEAN
  BY DEF Call, LineQuiet
<1> QED BY <1>4, <1>5, <1>7, <1>8 DEF TypeInv, LineTyped, Call

LEMMA WorkLine ==
  ASSUME TypeInv, Work
  PROVE  LineTyped'
<1>1. pending \in Seq(Posted) /\ pending # <<>> /\ wire \in Seq(Packet)
  BY DEF TypeInv, LineTyped, Work
<1>2. /\ Head(pending) \in Posted /\ Tail(pending) \in Seq(Posted)
      /\ Len(Tail(pending)) = Len(pending) - 1 /\ Len(pending) \in Nat
  BY <1>1, HeadTailProperties, LenProperties
<1>3. Len(Tail(pending)) <= Backlog
  BY <1>2, BacklogAssumption DEF TypeInv, LineTyped
<1> DEFINE p == Head(pending)
<1>4. p.cmd \in Cmds /\ p.arg \in Nat /\ p.whose \in {"own", "old", "event"}
  BY <1>2 DEF Posted
<1>5. ASSUME NEW lines \in Denied(p.cmd), wire' = wire \o Stamp(lines, p.whose),
             UNCHANGED <<prompting, modem_mux, said>>
      PROVE  LineTyped'
  <2>1. lines \in Seq(Frame)
    BY <1>5, DeniedSeq
  <2>2. Stamp(lines, p.whose) \in Seq(Packet)
    BY <1>4, <2>1, StampSeq
  <2>3. wire' \in Seq(Packet)
    BY <1>1, <1>5, <2>2, ConcatProperties
  <2> QED BY <1>2, <1>3, <1>5, <2>3 DEF TypeInv, LineTyped, Work
<1>6. ASSUME NEW v \in IF p.cmd \in Queries THEN Numbers ELSE {0},
             p.cmd = "CIPMUX" => p.arg \in {0, 1},
             wire' = wire \o Stamp(Granted(p.cmd, v), p.whose),
             prompting' = IF p.cmd \in PromptCmds THEN <<p>> ELSE <<>>,
             modem_mux' = IF p.cmd = "CIPMUX" THEN p.arg ELSE modem_mux,
             said' = IF p.whose = "own" THEN v ELSE said
      PROVE  LineTyped'
  <2>1. v \in Nat /\ v \in Numbers \cup {0}
    BY <1>6, NumbersAssumption
  <2>2. Stamp(Granted(p.cmd, v), p.whose) \in Seq(Packet)
    BY <1>4, <2>1, GrantedSeq, StampSeq
  <2>3. wire' \in Seq(Packet)
    BY <1>1, <1>6, <2>2, ConcatProperties
  <2>4. prompting' \in Seq(Posted) /\ Len(prompting') <= 1
    <3>1. <<p>> \in Seq(Posted) /\ <<>> \in Seq(Posted) /\ Len(<<p>>) = 1 /\ Len(<<>>) = 0
      BY <1>2, ShortSeq
    <3> QED BY <1>6, <3>1
  <2>5. modem_mux' \in {0, 1} /\ said' \in Numbers \cup {0}
    BY <1>6, <2>1 DEF TypeInv, LineTyped
  <2> QED BY <1>2, <1>3, <2>3, <2>4, <2>5 DEF TypeInv, LineTyped, Work
<1> QED BY <1>5, <1>6 DEF Work

\* An event is two lines, the second of which says what has happened.
LEMMA EventSeq ==
  ASSUME NEW t \in Events
  PROVE  \E f \in Frame :
           /\ f.text = t
           /\ f = IF t \in LinkTexts THEN Linked(t)
                  ELSE IF t = "+CMTI" THEN LinkLine(t, 1) ELSE Line(t)
           /\ <<Line("CRLF"), f>> \in Seq(Frame)
<1>1. t \in FrameTexts /\ 1 \in Link
  <2>1. 1 \in Link
    BY DEF Link
  <2> QED BY <2>1, EventsAssumption
<1>2. Linked(t) \in Frame /\ LinkLine(t, 1) \in Frame /\ Line(t) \in Frame /\ Line("CRLF") \in Frame
  BY <1>1, LineType, AnswerTexts
<1>3. Linked(t).text = t /\ LinkLine(t, 1).text = t /\ Line(t).text = t
  BY DEF Linked, LinkLine, Line
<1> QED BY <1>2, <1>3, ShortSeq

LEMMA AnnounceLine ==
  ASSUME TypeInv, Announce
  PROVE  LineTyped'
<1>1. PICK t \in Events :
        wire' = wire \o Stamp(<<Line("CRLF"),
                  IF t \in LinkTexts THEN Linked(t)
                  ELSE IF t = "+CMTI" THEN LinkLine(t, 1) ELSE Line(t)>>, "event")
  BY DEF Announce
<1>2. PICK f \in Frame :
        /\ f = IF t \in LinkTexts THEN Linked(t)
               ELSE IF t = "+CMTI" THEN LinkLine(t, 1) ELSE Line(t)
        /\ <<Line("CRLF"), f>> \in Seq(Frame)
  BY EventSeq
<1>3. Stamp(<<Line("CRLF"), f>>, "event") \in Seq(Packet)
  BY <1>2, StampSeq
<1>4. wire' \in Seq(Packet)
  BY <1>1, <1>2, <1>3, ConcatProperties DEF TypeInv, LineTyped
<1> QED BY <1>4 DEF TypeInv, LineTyped, Announce, modem, history

LEMMA RecordType ==
  ASSUME LineTyped, NEW byOwn \in BOOLEAN, Record(byOwn)
  PROVE  {quiet', cut', doubt'} \subseteq BOOLEAN /\ UNCHANGED <<quiet, said>>
  BY DEF Record, Concluded, LineTyped

LEMMA DeliverLine ==
  ASSUME TypeInv, Deliver
  PROVE  LineTyped'
<1>1. LineTyped /\ wire # <<>>
  BY DEF TypeInv, Deliver
<1>2. Tail(wire) \in Seq(Packet)
  BY <1>1, HeadLine
<1>3. {quiet', cut', doubt'} \subseteq BOOLEAN /\ UNCHANGED <<quiet, said>>
  <2>1. (Head(wire).whose = "own") \in BOOLEAN
    OBVIOUS
  <2> QED BY <1>1, <2>1, RecordType DEF Deliver
<1>4. wire' \in Seq(Packet) /\ prompting' \in Seq(Posted) /\ Len(prompting') <= 1
  <2>1. CASE wire' = Tail(wire) /\ UNCHANGED prompting
    BY <1>1, <1>2, <2>1 DEF LineTyped
  <2>2. ASSUME prompting # <<>>, prompting' = <<>>,
               NEW lines \in Finished(prompting[1].cmd),
               wire' = Tail(wire) \o Stamp(lines, prompting[1].whose)
        PROVE  wire' \in Seq(Packet) /\ prompting' \in Seq(Posted) /\ Len(prompting') <= 1
    <3>1. prompting[1] \in Posted
      BY <1>1, <2>2, HeadTailProperties DEF LineTyped
    <3>2. prompting[1].cmd \in Cmds /\ prompting[1].whose \in {"own", "old", "event"}
      BY <3>1 DEF Posted
    <3>3. lines \in Seq(Frame)
      BY <2>2, <3>2, FinishedSeq
    <3>4. Stamp(lines, prompting[1].whose) \in Seq(Packet)
      BY <3>2, <3>3, StampSeq
    <3> QED BY <1>2, <2>2, <3>4, ConcatProperties, EmptySeq
  <2> QED BY <2>1, <2>2 DEF Deliver
<1> QED BY <1>1, <1>3, <1>4 DEF LineTyped, Deliver

LEMMA SpoiltLine ==
  ASSUME TypeInv, DeliverSpoilt
  PROVE  LineTyped'
<1>1. LineTyped /\ wire \in Seq(Packet) /\ Len(wire) > 1
  BY DEF TypeInv, LineTyped, DeliverSpoilt
<1>2. wire # <<>>
  BY <1>1, EmptySeq
<1>3. Tail(wire) \in Seq(Packet) /\ Len(Tail(wire)) = Len(wire) - 1 /\ Len(wire) \in Nat
  BY <1>1, <1>2, HeadLine
<1>4. Tail(Tail(wire)) \in Seq(Packet)
  <2>1. Tail(wire) = <<>> => Len(Tail(wire)) = 0
    BY EmptySeq
  <2>2. Tail(wire) # <<>>
    BY <1>1, <1>3, <2>1
  <2> QED BY <1>3, <2>2, HeadTailProperties
<1>5. {quiet', cut', doubt'} \subseteq BOOLEAN /\ UNCHANGED <<quiet, said>>
  BY <1>1, RecordType, FALSE \in BOOLEAN DEF DeliverSpoilt
<1> QED BY <1>1, <1>4, <1>5 DEF LineTyped, DeliverSpoilt, modem

\* A reply in flight that has not been refused is not refused by a line.
LEMMA LineNotBusy ==
  ASSUME IInv, NEW f \in Frame, simx_receive_msg(f), is_receive' = 0, status[reply] # "BUSY"
  PROVE  is_receive = 0 /\ status'[reply'] # "BUSY"
<1>1. is_receive = 0 /\ reply' = reply
  BY LineKeepsCommand
<1>2. reply \in Replies /\ status \in [Replies -> Statuses]
  BY <1>1 DEF IInv, InFlightIsServed, InFlight, TypeOK
<1>3. Stays \/ Answered
  BY <1>1, ReceiveKinds DEF LineKind, Ended, Bounced
<1>4. CASE Stays
  BY <1>1, <1>4 DEF Stays
<1>5. CASE Answered
  <2>1. status' = status \/ status' = [status EXCEPT ![reply] = "OK"]
    BY <1>1, <1>5 DEF Answered, Outcome
  <2> QED BY <1>1, <1>2, <2>1
<1> QED BY <1>1, <1>3, <1>4, <1>5

LEMMA WaitsNext ==
  ASSUME TypeInv, [SystemNext]_allVars
  PROVE  WorkerWaits'
<1>0. IInv /\ WorkerWaits /\ TypeOK
  BY DEF TypeInv, IInv
<1>1. ASSUME NEW r \in Replies, Call(r) PROVE WorkerWaits'
  <2>1. reply' = r /\ status' = [status EXCEPT ![r] = "NULL"] /\ status \in [Replies -> Statuses]
    BY <1>0, <1>1, CallStarts DEF TypeOK
  <2>2. status'[reply'] # "BUSY"
    BY <2>1
  <2>3. todo' # <<>> /\ waiting' = TRUE
    BY <1>1 DEF Call
  <2> QED BY <2>2, <2>3 DEF WorkerWaits
<1>2. ASSUME NEW f \in Frame, simx_receive_msg(f), UNCHANGED worker PROVE WorkerWaits'
  <2>1. waiting' = waiting /\ todo' = todo
    BY <1>2 DEF worker
  <2>2. InFlight' => waiting /\ status'[reply'] # "BUSY"
    BY <1>0, <1>2, LineKeepsCommand, LineNotBusy DEF WorkerWaits, InFlight
  <2> QED BY <1>0, <2>1, <2>2 DEF WorkerWaits
<1>3. CASE Deliver
  BY <1>2, <1>3, HeadLine DEF Deliver, TypeInv
<1>4. CASE DeliverSpoilt
  BY <1>2, <1>4, TextLine DEF DeliverSpoilt
<1>5. CASE Timer
  <2>1. waiting' = waiting /\ todo' = todo /\ reply' = reply
    BY <1>5 DEF Timer, worker, simx_tick_1ms, Tick
  <2>2. is_receive' = 0 => is_receive = 0 /\ status' = status
    BY <1>5 DEF Timer, simx_tick_1ms, Tick
  <2> QED BY <1>0, <2>1, <2>2 DEF WorkerWaits, InFlight
<1>6. CASE Return
  <2>1. waiting' = FALSE /\ ~InFlight'
    BY <1>6 DEF Return, vars, InFlight
  <2> QED BY <2>1 DEF WorkerWaits
<1>7. CASE StartScript
  <2>1. ~waiting /\ waiting' = waiting /\ UNCHANGED <<is_receive, status, reply>>
    BY <1>0, <1>7 DEF StartScript, WorkerWaits, vars
  <2> QED BY <1>0, <2>1 DEF WorkerWaits, InFlight
<1>8. CASE Work \/ Announce \/ UNCHANGED allVars
  <2>1. UNCHANGED <<waiting, todo, is_receive, status, reply>>
    BY <1>8 DEF Work, Announce, allVars, worker, vars
  <2> QED BY <1>0, <2>1 DEF WorkerWaits, InFlight
<1> QED BY <1>1, <1>3, <1>4, <1>5, <1>6, <1>7, <1>8 DEF SystemNext

LEMMA TypeNext ==
  ASSUME TypeInv, [SystemNext]_allVars
  PROVE  TypeInv'
<1>1. IInv' /\ WorkerWaits'
  BY DriverStep, WaitsNext
<1>2. ResultsTyped'
  <2>1. TypeOK /\ ResultsTyped /\ LineTyped
    BY DEF TypeInv, IInv
  <2>2. CASE Deliver
    BY <2>1, <2>2, HeadLine, ParseType DEF Deliver
  <2>3. CASE DeliverSpoilt
    BY <2>1, <2>3, TextLine, ParseType DEF DeliverSpoilt
  <2>4. CASE UNCHANGED results
    BY <2>1, <2>4 DEF ResultsTyped, results
  <2> QED BY <2>2, <2>3, <2>4 DEF SystemNext, StartScript, Call, Return, Work, Announce, Timer,
                                  allVars
<1>3. LineTyped'
  <2>1. CASE StartScript \/ Return \/ UNCHANGED allVars
    BY <2>1 DEF StartScript, Return, allVars, modem, history, TypeInv, LineTyped
  <2>2. CASE Timer
    <3>1. {quiet', cut', doubt'} \subseteq BOOLEAN /\ UNCHANGED <<quiet, said>>
      BY <2>2, RecordType, FALSE \in BOOLEAN DEF Timer, TypeInv
    <3> QED BY <2>2, <3>1 DEF Timer, modem, TypeInv, LineTyped
  <2> QED BY <2>1, <2>2, CallLine, WorkLine, AnnounceLine, DeliverLine, SpoiltLine DEF SystemNext
<1> QED BY <1>1, <1>2, <1>3 DEF TypeInv

LEMMA AlwaysTyped == SystemSpec => []TypeInv
<1>1. SystemInit => TypeInv
  BY TypeInit
<1>2. TypeInv /\ [SystemNext]_allVars => TypeInv'
  BY TypeNext
<1> QED BY <1>1, <1>2, PTL DEF SystemSpec

\* Whatever the worker's scripts, the modem's answers and events and the timer do,
\* every record has its type: the getters return only values sim900.h names, an
\* SMS never outgrows its buffer, and no call is made while a script has none.
THEOREM SystemTypeCorrect == SystemSpec => []SystemTypeOK
<1>1. TypeInv => SystemTypeOK
  BY DEF TypeInv, IInv, ResultsTyped, LineTyped, WorkerWaits, SystemTypeOK
<1> QED BY AlwaysTyped, <1>1, PTL

\* The driver's guarantees hold between this worker and this modem as they do in
\* the open environment: a command in flight has its reply, its handler and a
\* state the handler knows, its reply no verdict yet, and time left.
THEOREM DriverServesSystem ==
  SystemSpec => [](InFlightIsServed /\ NoEarlyVerdict /\ TimeLimit /\ PayloadOnlyWhenIdle)
<1>1. TypeInv => InFlightIsServed /\ NoEarlyVerdict /\ TimeLimit /\ PayloadOnlyWhenIdle
  BY DEF TypeInv, IInv
<1> QED BY AlwaysTyped, <1>1, PTL

-----------------------------------------------------------------------------
(* The multi-IP mode.                                                      *)

Own(i) == wire[i].whose = "own"

\* What is marked as the last command's is that: the modem takes it last, and
\* has taken everything before it when it answers.
Marks ==
  /\ \A i \in 1..Len(pending) : pending[i].whose = "own" =>
       i = Len(pending) /\ pending[i].cmd = cmd /\ pending[i].arg = user_data[reply]
  /\ prompting # <<>> => prompting[1].cmd \in PromptCmds
  /\ prompting # <<>> /\ prompting[1].whose = "own" => pending = <<>> /\ prompting[1].cmd = cmd
  /\ (\E i \in 1..Len(wire) : Own(i)) => pending = <<>>

Setting == InFlight /\ cmd = "CIPMUX"

\* The hook of AT+CIPMUX is installed while that command is in flight, and is
\* left behind only by one that ended without its answer.
MuxHook ==
  /\ fcmd_finished = "mux" => doubt \/ Setting
  /\ Setting => fcmd_finished = "mux" /\ user_data[reply] \in 0..(ByteMod - 1)

\* The answer to the AT+CIPMUX in flight: an empty line and a verdict, an OK only
\* when the modem has taken the mode over.
MuxAnswer ==
  /\ state \in {"RN", "STATUS"}
  /\ \A i \in 1..Len(wire) : Own(i) =>
       \/ wire[i].f = Line("CRLF") /\ i < Len(wire) /\ Own(i + 1)
       \/ wire[i].f = Line("OK") /\ modem_mux = user_data[reply]
       \/ wire[i].f = Line("ERROR") /\ (~doubt => mux = modem_mux)
  /\ \A i \in 1..Len(wire) : Own(i) /\ wire[i].f # Line("CRLF") =>
       state = "STATUS" \/ (i > 1 /\ Own(i - 1))
  /\ ~doubt /\ (\A i \in 1..Len(wire) : ~Own(i)) => mux = modem_mux

MuxInv ==
  /\ ~doubt /\ ~Setting => mux = modem_mux
  /\ ~doubt => \A i \in 1..Len(pending) :
       pending[i].cmd = "CIPMUX" => pending[i].whose = "own" /\ Setting
  /\ Setting => MuxAnswer

ModeInv == Marks /\ MuxHook /\ MuxInv

\* A line runs the hook of the command it ends, or leaves it alone.
LEMMA ReceiveHook ==
  ASSUME IInv, NEW f \in Frame, simx_receive_msg(f)
  PROVE  \/ \E v : Ran(v)
         \/ HookStays /\ is_receive' = is_receive
         \/ HookStays /\ is_receive' = 1 /\ cmd = "CIPSTATUS"
<1>1. ~\E r \in Replies, c \in NestedCalls : NestedCall(f, r, c)
  BY CallbackAssumption
<1>2. CASE simx_check_message(f)
  BY <1>2 DEF simx_check_message, Ran, HookStays
<1>3. CASE IdleLine(f)
  BY <1>3 DEF IdleLine, HookStays
<1>4. CASE Answer(f)
  <2>1. \A c \in MframeCmds : c = "CIPSTATUS"
    BY DEF MframeCmds
  <2> QED BY <1>4, <2>1, AnswerHook
<1>5. CASE ~simx_receive_frame(f)
  BY <1>5 DEF simx_receive_msg, HookStays
<1> QED BY <1>1, <1>2, <1>3, <1>4, <1>5 DEF simx_receive_frame

\* What a line does to the AT+CIPMUX in flight.
LEMMA SettingLine ==
  ASSUME Setting, state \in {"RN", "STATUS"}, NEW f \in Frame, simx_receive_msg(f)
  PROVE  \/ /\ f # Line("CRLF")
            /\ \E v : /\ Ran(v)
                      /\ state = "STATUS" /\ f = Line("OK") => v = "OK"
                      /\ state = "STATUS" /\ f = Line("ERROR") => v = "ERROR"
         \/ /\ HookStays /\ is_receive' = 0 /\ state' = "STATUS"
            /\ state = "STATUS" => f # Line("OK") /\ f # Line("ERROR")
<1>1. is_receive = 0 /\ cmd = "CIPMUX"
  BY DEF Setting, InFlight
<1>2. /\ Line("CRLF").text = "CRLF"
      /\ Line("OK").text = "OK" /\ Line("OK").link = NoLink
      /\ Line("ERROR").text = "ERROR" /\ Line("ERROR").link = NoLink
  BY DEF Line
<1>3. simx_receive_frame(f)
  BY <1>1 DEF simx_receive_msg, IpdHeader
<1>4. CASE simx_check_message(f)
  <2>1. simx_finished("ERROR") /\ UNCHANGED <<reply, cmd>>
    BY <1>1, <1>4 DEF simx_check_message
  <2>2. f.text \notin {"CRLF", "OK"}
    BY <1>4 DEF simx_check_message, IsNotification, NotificationTexts
  <2> QED BY <1>1, <1>2, <2>1, <2>2 DEF Ran
<1>5. CASE Answer(f)
  <2>1. simx_rcv_dframe(f) /\ UNCHANGED <<reply, cmd>>
    BY <1>1, <1>5 DEF Answer, RframeCmds, DframeCmds, WframeCmds, MframeCmds, IpframeCmds, SdframeCmds
  <2>2. CASE Goto("STATUS") /\ (state = "RN" \/ f.text = "CRLF")
    BY <1>1, <1>2, <2>1, <2>2 DEF Goto, HookStays
  <2>3. ASSUME NEW v, simx_finished(v), f.text # "CRLF",
               state = "STATUS" /\ f.text \in {"OK", "ERROR"} /\ f.link = NoLink => v = f.text
        PROVE  /\ f # Line("CRLF")
               /\ Ran(v)
               /\ state = "STATUS" /\ f = Line("OK") => v = "OK"
               /\ state = "STATUS" /\ f = Line("ERROR") => v = "ERROR"
    BY <1>1, <1>2, <2>1, <2>3 DEF Ran
  <2>4. \/ Goto("STATUS") /\ (state = "RN" \/ f.text = "CRLF")
        \/ \E v : /\ simx_finished(v) /\ f.text # "CRLF"
                  /\ state = "STATUS" /\ f.text \in {"OK", "ERROR"} /\ f.link = NoLink => v = f.text
    BY <2>1 DEF simx_rcv_dframe, TwoBytes, StatusTexts, MatchesBehindPrefix
  <2> QED BY <2>2, <2>3, <2>4
<1> QED BY <1>1, <1>3, <1>4, <1>5, CallbackAssumption DEF simx_receive_frame, IdleLine

\* Line by line, z is w with the lines behind it, marked m.
Written(z, w, lines, m) ==
  /\ z \in Seq(Packet)
  /\ Len(w) \in Nat /\ Len(lines) \in Nat /\ Len(z) = Len(w) + Len(lines)
  /\ \A i \in 1..Len(w) : z[i] = w[i]
  /\ \A i \in 1..Len(lines) : z[Len(w) + i] = [f |-> lines[i], whose |-> m]
  /\ \A i \in 1..Len(z) : i \in 1..Len(w) \/ i - Len(w) \in 1..Len(lines)
  /\ \A i \in 1..Len(z) : i \in 1..Len(w) \/ z[i].whose = m

LEMMA WrittenLines ==
  ASSUME NEW w \in Seq(Packet), NEW lines \in Seq(Frame), NEW m \in {"own", "old", "event"},
         NEW z, z = w \o Stamp(lines, m)
  PROVE  Written(z, w, lines, m)
<1>1. Len(w) \in Nat /\ Len(lines) \in Nat
  BY LenProperties
<1>2. /\ Stamp(lines, m) \in Seq(Packet) /\ Len(Stamp(lines, m)) = Len(lines)
      /\ \A i \in 1..Len(lines) : Stamp(lines, m)[i] = [f |-> lines[i], whose |-> m]
  BY StampSeq
<1>3. /\ z \in Seq(Packet) /\ Len(z) = Len(w) + Len(lines)
      /\ \A i \in 1..Len(z) : z[i] = IF i <= Len(w) THEN w[i] ELSE Stamp(lines, m)[i - Len(w)]
  <2> DEFINE t == Stamp(lines, m)
  <2>1. t \in Seq(Packet) /\ Len(t) = Len(lines) /\ z = w \o t
    BY <1>2
  <2> HIDE DEF t
  <2>2. /\ w \o t \in Seq(Packet) /\ Len(w \o t) = Len(w) + Len(t)
        /\ \A i \in 1..(Len(w) + Len(t)) : (w \o t)[i] = IF i <= Len(w) THEN w[i] ELSE t[i - Len(w)]
    BY <2>1, ConcatProperties
  <2>3. z \in Seq(Packet) /\ Len(z) = Len(w) + Len(lines)
    BY <2>1, <2>2
  <2>4. \A i \in 1..Len(z) : z[i] = IF i <= Len(w) THEN w[i] ELSE t[i - Len(w)]
    BY <2>1, <2>2, <2>3
  <2> QED BY <2>3, <2>4 DEF t
<1>4. \A i \in 1..Len(lines) : Len(w) + i \in 1..Len(z) /\ ~(Len(w) + i <= Len(w)) /\ Len(w) + i - Len(w) = i
  BY <1>1, <1>3
<1>5. \A i \in 1..Len(w) : i \in 1..Len(z) /\ i <= Len(w)
  BY <1>1, <1>3
<1>6. \A i \in 1..Len(z) : i \in 1..Len(w) \/ i - Len(w) \in 1..Len(lines)
  BY <1>1, <1>3
<1>7. \A i \in 1..Len(z) : i \in 1..Len(w) \/ z[i].whose = m
  <2> SUFFICES ASSUME NEW i \in 1..Len(z), ~(i \in 1..Len(w)) PROVE z[i].whose = m
    OBVIOUS
  <2>1. i - Len(w) \in 1..Len(lines) /\ ~(i <= Len(w))
    BY <1>1, <1>3, <1>6
  <2>2. z[i] = Stamp(lines, m)[i - Len(w)]
    BY <1>3, <2>1
  <2>3. Stamp(lines, m)[i - Len(w)] = [f |-> lines[i - Len(w)], whose |-> m]
    BY <1>2, <2>1
  <2> QED BY <2>2, <2>3
<1> QED BY <1>1, <1>2, <1>3, <1>4, <1>5, <1>6, <1>7 DEF Written

LEMMA ModeInit == SystemInit => ModeInv
<1> SUFFICES ASSUME SystemInit PROVE ModeInv
  OBVIOUS
<1>1. \A i \in 1..Len(<<>>) : FALSE
  BY EmptySeq
<1>2. /\ pending = <<>> /\ prompting = <<>> /\ wire = <<>> /\ fcmd_finished = "none"
      /\ is_receive = 1 /\ mux = 0 /\ modem_mux = 0
  BY DEF SystemInit, Init
<1> QED BY <1>1, <1>2 DEF ModeInv, Marks, MuxHook, MuxInv, Setting, InFlight

\* The worker's next call.
LEMMA ModeCall ==
  ASSUME TypeInv, ModeInv, NEW r \in Replies, Call(r)
  PROVE  ModeInv'
<1>1. /\ is_receive = 1 /\ is_receive' = 0 /\ state' = "RN" /\ reply' = r /\ CallFields(r, cmd')
      /\ mux' = mux /\ modem_mux' = modem_mux /\ doubt' = doubt
  BY CallStarts DEF Call, modes
<1>2. ~Setting /\ (Setting' <=> cmd' = "CIPMUX")
  BY <1>1 DEF Setting, InFlight
<1>3. /\ pending \in Seq(Posted) /\ Aged(pending) \in Seq(Posted) /\ Len(Aged(pending)) = Len(pending)
      /\ \A i \in 1..Len(pending) :
           Aged(pending)[i].whose # "own" /\ Aged(pending)[i].cmd = pending[i].cmd
  <2>1. pending \in Seq(Posted)
    BY DEF TypeInv, LineTyped
  <2>2. \A i \in 1..Len(pending) : pending[i] \in Posted
    BY <2>1, ElementOfSeq
  <2>3. /\ Aged(pending) \in Seq(Posted) /\ Len(Aged(pending)) = Len(pending)
        /\ \A i \in 1..Len(pending) :
             Aged(pending)[i] = [pending[i] EXCEPT !.whose = IF @ = "own" THEN "old" ELSE @]
        /\ \A i \in 1..Len(pending) : Aged(pending)[i].whose # "own"
    BY <2>1, AgedSeq
  <2>4. \A i \in 1..Len(pending) : Aged(pending)[i].cmd = pending[i].cmd
    BY <2>2, <2>3 DEF Posted
  <2> QED BY <2>1, <2>3, <2>4
<1>4. \A i \in 1..Len(wire') : wire'[i].whose # "own"
  BY AgedSeq DEF Call, TypeInv, LineTyped
<1>5. prompting' # <<>> =>
        prompting # <<>> /\ prompting'[1].whose # "own" /\ prompting'[1].cmd = prompting[1].cmd
  <2> SUFFICES ASSUME prompting' # <<>>
      PROVE  prompting # <<>> /\ prompting'[1].whose # "own" /\ prompting'[1].cmd = prompting[1].cmd
    OBVIOUS
  <2>1. prompting \in Seq(Posted) /\ prompting' = Aged(prompting)
    BY DEF TypeInv, LineTyped, Call
  <2>2. Len(prompting') = Len(prompting) /\ prompting' \in Seq(Posted) /\ Len(prompting') \in Nat
    BY <2>1, AgedSeq, LenProperties
  <2>3. Len(prompting) # 0 /\ prompting # <<>>
    BY <2>2, EmptySeq
  <2>4. 1 \in 1..Len(prompting) /\ prompting[1] \in Posted
    BY <2>1, <2>2, <2>3, ElementOfSeq
  <2>5. /\ Aged(prompting)[1] = [prompting[1] EXCEPT !.whose = IF @ = "own" THEN "old" ELSE @]
        /\ Aged(prompting)[1].whose # "own"
    BY <2>1, <2>4, AgedSeq
  <2> QED BY <2>1, <2>3, <2>4, <2>5 DEF Posted
<1>6. CASE prompting # <<>>
  <2>1. pending' = Aged(pending)
    BY <1>6 DEF Call
  <2>2. Marks'
    BY <1>3, <1>4, <1>5, <2>1 DEF Marks, Own, ModeInv
  <2>3. MuxHook'
    BY <1>1, <1>2 DEF MuxHook, ModeInv, CallFields, HookOf
  <2>4. MuxInv'
    BY <1>1, <1>2, <1>3, <1>4, <2>1 DEF MuxInv, MuxAnswer, ModeInv, Own
  <2> QED BY <2>2, <2>3, <2>4 DEF ModeInv
<1>7. CASE prompting = <<>>
  <2> DEFINE n == [cmd |-> cmd', arg |-> user_data'[r], whose |-> "own"]
  <2>1. pending' = Append(Aged(pending), n)
    BY <1>7 DEF Call
  <2>2. n \in Posted /\ Len(pending) \in Nat
    BY <1>3, CallStarts, LenProperties DEF Posted, FieldsTyped
  <2>3. /\ Len(pending') = Len(pending) + 1 /\ pending'[Len(pending) + 1] = n
        /\ \A i \in 1..Len(pending) : pending'[i] = Aged(pending)[i]
    <3> HIDE DEF n
    <3> QED BY <1>3, <2>1, <2>2, AppendProperties
  <2>4. \A i \in 1..Len(pending') : i \in 1..Len(pending) \/ i = Len(pending')
    BY <2>2, <2>3
  <2>5. Marks'
    BY <1>1, <1>3, <1>4, <1>5, <2>3, <2>4 DEF Marks, Own, ModeInv
  <2>6. MuxHook'
    BY <1>1, <1>2 DEF MuxHook, ModeInv, CallFields, HookOf
  <2>7. MuxInv'
    BY <1>1, <1>2, <1>3, <1>4, <2>3, <2>4 DEF MuxInv, MuxAnswer, ModeInv, Own
  <2> QED BY <2>5, <2>6, <2>7 DEF ModeInv
<1> QED BY <1>6, <1>7

\* What the modem takes from the head of its queue.
LEMMA TakenCommand ==
  ASSUME TypeInv, ModeInv, Work
  PROVE  /\ Head(pending) = pending[1] /\ Head(pending) \in Posted /\ 1 \in 1..Len(pending)
         /\ Len(pending') = Len(pending) - 1 /\ Len(pending) \in Nat
         /\ \A i \in 1..Len(pending') : pending'[i] = pending[i + 1] /\ i + 1 \in 1..Len(pending)
         /\ Head(pending).whose = "own" =>
              pending' = <<>> /\ Len(pending') = 0
              /\ Head(pending).cmd = cmd /\ Head(pending).arg = user_data[reply]
         /\ ~doubt /\ Head(pending).cmd = "CIPMUX" => Head(pending).whose = "own" /\ Setting
         /\ \A i \in 1..Len(wire) : wire[i].whose = "event"
         /\ prompting = <<>>
<1>1. pending \in Seq(Posted) /\ pending # <<>> /\ pending' = Tail(pending) /\ wire \in Seq(Packet)
  BY DEF TypeInv, LineTyped, Work
<1>2. /\ Head(pending) = pending[1] /\ Head(pending) \in Posted
      /\ Tail(pending) \in Seq(Posted) /\ Len(Tail(pending)) = Len(pending) - 1
      /\ \A i \in 1..Len(Tail(pending)) : Tail(pending)[i] = pending[i + 1]
      /\ Len(pending) \in Nat \ {0}
  BY <1>1, HeadTailProperties, EmptySeq
<1>3. 1 \in 1..Len(pending) /\ \A i \in 1..Len(pending') : i + 1 \in 1..Len(pending)
  BY <1>1, <1>2
<1>4. Len(pending) = 1 => pending' = <<>> /\ Len(pending') = 0
  BY <1>1, <1>2, EmptySeq
<1>5. DOMAIN wire = 1..Len(wire)
  BY <1>1, LenProperties
<1> QED BY <1>1, <1>2, <1>3, <1>4, <1>5 DEF ModeInv, Marks, MuxInv, Work

\* The modem answers the next command.
LEMMA ModeWork ==
  ASSUME TypeInv, ModeInv, Work
  PROVE  ModeInv'
<1> DEFINE p == Head(pending)
<1>1. /\ UNCHANGED <<cmd, reply, user_data, fcmd_finished, is_receive, state, mux, doubt>>
      /\ (Setting' <=> Setting)
  BY DEF Work, vars, modes, Setting, InFlight
<1>2. /\ p \in Posted /\ 1 \in 1..Len(pending) /\ p = pending[1]
      /\ Len(pending') = Len(pending) - 1 /\ Len(pending) \in Nat
      /\ \A i \in 1..Len(pending') : pending'[i] = pending[i + 1] /\ i + 1 \in 1..Len(pending)
      /\ p.whose = "own" =>
           pending' = <<>> /\ Len(pending') = 0 /\ p.cmd = cmd /\ p.arg = user_data[reply]
      /\ ~doubt /\ p.cmd = "CIPMUX" => p.whose = "own" /\ Setting
      /\ \A i \in 1..Len(wire) : wire[i].whose = "event"
      /\ prompting = <<>> /\ wire \in Seq(Packet)
  BY TakenCommand DEF TypeInv, LineTyped
<1>3. p.whose \in {"own", "old", "event"} /\ p.cmd \in Cmds /\ p.arg \in Nat
  BY <1>2 DEF Posted
<1>4. \E lines \in Seq(Frame) :
        /\ wire' = wire \o Stamp(lines, p.whose)
        /\ \/ /\ p.cmd = "CIPMUX" => lines = Verdict("ERROR")
              /\ UNCHANGED <<prompting, modem_mux>>
           \/ /\ p.cmd = "CIPMUX" => lines = Verdict("OK")
              /\ prompting' = IF p.cmd \in PromptCmds THEN <<p>> ELSE <<>>
              /\ modem_mux' = IF p.cmd = "CIPMUX" THEN p.arg ELSE modem_mux
  <2>1. /\ \A lines \in Denied(p.cmd) : lines \in Seq(Frame)
        /\ p.cmd = "CIPMUX" => \A lines \in Denied(p.cmd) : lines = Verdict("ERROR")
    <3>1. p.cmd = "CIPMUX" => Denied(p.cmd) = {Verdict("ERROR")}
      BY DEF Denied
    <3> QED BY <3>1, DeniedSeq
  <2>2. \A v \in IF p.cmd \in Queries THEN Numbers ELSE {0} : Granted(p.cmd, v) \in Seq(Frame)
    BY <1>3, GrantedSeq, NumbersAssumption
  <2>3. \A v : p.cmd = "CIPMUX" => Granted(p.cmd, v) = Verdict("OK")
    BY DEF Granted, RframeCmds, PromptCmds, WframeCmds, SdframeCmds
  <2> QED BY <2>1, <2>2, <2>3 DEF Work
<1>5. PICK lines \in Seq(Frame) :
        /\ wire' = wire \o Stamp(lines, p.whose)
        /\ \/ /\ p.cmd = "CIPMUX" => lines = Verdict("ERROR")
              /\ UNCHANGED <<prompting, modem_mux>>
           \/ /\ p.cmd = "CIPMUX" => lines = Verdict("OK")
              /\ prompting' = IF p.cmd \in PromptCmds THEN <<p>> ELSE <<>>
              /\ modem_mux' = IF p.cmd = "CIPMUX" THEN p.arg ELSE modem_mux
  BY <1>4
<1>6. /\ Len(wire) \in Nat /\ Len(lines) \in Nat /\ Len(wire') = Len(wire) + Len(lines)
      /\ \A i \in 1..Len(wire) : wire'[i] = wire[i]
      /\ \A i \in 1..Len(lines) : wire'[Len(wire) + i] = [f |-> lines[i], whose |-> p.whose]
      /\ \A i \in 1..Len(wire') : i \in 1..Len(wire) \/ i - Len(wire) \in 1..Len(lines)
      /\ \A i \in 1..Len(wire') : i \in 1..Len(wire) \/ wire'[i].whose = p.whose
  <2>1. Written(wire', wire, lines, p.whose)
    BY <1>2, <1>3, <1>5, WrittenLines
  <2> QED BY <2>1 DEF Written
<1>7. \A i \in 1..Len(wire') : Own(i)' => p.whose = "own"
  BY <1>2, <1>6 DEF Own
<1> HIDE DEF p
<1>8. Marks'
  <2>1. \A i \in 1..Len(pending') : pending'[i].whose = "own" =>
          i = Len(pending') /\ pending'[i].cmd = cmd /\ pending'[i].arg = user_data[reply]
    <3> SUFFICES ASSUME NEW i \in 1..Len(pending'), pending'[i].whose = "own"
        PROVE  i = Len(pending') /\ pending'[i].cmd = cmd /\ pending'[i].arg = user_data[reply]
      OBVIOUS
    <3>1. i + 1 = Len(pending) /\ pending[i + 1].cmd = cmd /\ pending[i + 1].arg = user_data[reply]
      BY <1>2 DEF ModeInv, Marks
    <3> QED BY <1>2, <3>1
  <2>2. prompting' # <<>> => prompting'[1] = p /\ p.cmd \in PromptCmds
    BY <1>2, <1>5
  <2>3. (\E i \in 1..Len(wire') : Own(i)') => pending' = <<>>
    BY <1>2, <1>7
  <2> QED BY <1>1, <1>2, <2>1, <2>2, <2>3 DEF Marks
<1>9. MuxHook'
  BY <1>1 DEF MuxHook, ModeInv
<1>10. ~doubt /\ ~Setting => mux = modem_mux'
  BY <1>2, <1>5 DEF ModeInv, MuxInv
<1>11. ~doubt => \A i \in 1..Len(pending') :
         pending'[i].cmd = "CIPMUX" => pending'[i].whose = "own" /\ Setting
  BY <1>2 DEF ModeInv, MuxInv
<1>12. ASSUME Setting PROVE MuxAnswer'
  <2>1. state \in {"RN", "STATUS"} /\ (~doubt => mux = modem_mux)
    BY <1>2, <1>12 DEF ModeInv, MuxInv, MuxAnswer, Own
  <2>2. CASE p.whose # "own"
    <3>1. \A i \in 1..Len(wire') : ~Own(i)'
      BY <1>7, <2>2
    <3>2. ~doubt => modem_mux' = modem_mux
      BY <1>2, <1>5, <2>2
    <3> QED BY <1>1, <2>1, <3>1, <3>2 DEF MuxAnswer
  <2>3. CASE p.whose = "own"
    <3>1. PICK t \in {"OK", "ERROR"} :
            /\ lines = <<Line("CRLF"), Line(t)>>
            /\ t = "OK" => modem_mux' = user_data[reply]
            /\ t = "ERROR" => modem_mux' = modem_mux
      BY <1>2, <1>5, <1>12, <2>3 DEF Setting, Verdict
    <3>2. Len(lines) = 2 /\ lines[1] = Line("CRLF") /\ lines[2] = Line(t)
      BY <3>1
    <3>3. /\ wire'[Len(wire) + 1] = [f |-> Line("CRLF"), whose |-> "own"]
          /\ wire'[Len(wire) + 2] = [f |-> Line(t), whose |-> "own"]
          /\ Len(wire') = Len(wire) + 2
      BY <1>6, <2>3, <3>2
    <3>4. \A i \in 1..Len(wire') : Own(i)' => i = Len(wire) + 1 \/ i = Len(wire) + 2
      <4>1. \A i \in 1..Len(wire) : ~(wire'[i].whose = "own")
        BY <1>2, <1>6
      <4>2. \A i \in 1..Len(wire') : i \in 1..Len(wire) \/ i = Len(wire) + 1 \/ i = Len(wire) + 2
        BY <1>6, <3>3
      <4> QED BY <4>1, <4>2 DEF Own
    <3>5. \A i : i = Len(wire) + 1 \/ i = Len(wire) + 2 => Own(i)'
      BY <3>3 DEF Own
    <3>6. Line("CRLF") # Line(t)
      BY DEF Line
    <3>7. \A i \in 1..Len(wire') : Own(i)' =>
            \/ wire'[i].f = Line("CRLF") /\ i < Len(wire') /\ Own(i + 1)'
            \/ wire'[i].f = Line("OK") /\ modem_mux' = user_data[reply]
            \/ wire'[i].f = Line("ERROR") /\ (~doubt => mux = modem_mux')
      <4> SUFFICES ASSUME NEW i \in 1..Len(wire'), Own(i)'
          PROVE  \/ wire'[i].f = Line("CRLF") /\ i < Len(wire') /\ Own(i + 1)'
                 \/ wire'[i].f = Line("OK") /\ modem_mux' = user_data[reply]
                 \/ wire'[i].f = Line("ERROR") /\ (~doubt => mux = modem_mux')
        OBVIOUS
      <4>1. CASE i = Len(wire) + 1
        <5>1. i < Len(wire') /\ i + 1 = Len(wire) + 2
          BY <1>6, <3>3, <4>1
        <5> QED BY <3>3, <3>5, <4>1, <5>1
      <4>2. CASE i = Len(wire) + 2
        BY <2>1, <3>1, <3>3, <4>2
      <4> QED BY <3>4, <4>1, <4>2
    <3>8. \A i \in 1..Len(wire') : Own(i)' /\ wire'[i].f # Line("CRLF") => i > 1 /\ Own(i - 1)'
      <4> SUFFICES ASSUME NEW i \in 1..Len(wire'), Own(i)', wire'[i].f # Line("CRLF")
          PROVE  i > 1 /\ Own(i - 1)'
        OBVIOUS
      <4>1. i = Len(wire) + 2
        BY <3>3, <3>4
      <4>2. i > 1 /\ i - 1 = Len(wire) + 1
        BY <1>6, <4>1
      <4> QED BY <3>5, <4>2
    <3>9. ~(\A i \in 1..Len(wire') : ~Own(i)')
      <4>1. Len(wire) + 1 \in 1..Len(wire')
        BY <1>6, <3>3
      <4> QED BY <3>5, <4>1
    <3> QED BY <1>1, <2>1, <3>7, <3>8, <3>9 DEF MuxAnswer
  <2> QED BY <2>2, <2>3
<1> QED BY <1>1, <1>8, <1>9, <1>10, <1>11, <1>12 DEF ModeInv, MuxInv

\* An event joins the lines under way.
LEMMA ModeAnnounce ==
  ASSUME TypeInv, ModeInv, Announce
  PROVE  ModeInv'
<1>1. /\ UNCHANGED <<cmd, reply, user_data, fcmd_finished, is_receive, state, mux, doubt>>
      /\ UNCHANGED <<pending, prompting, modem_mux>>
      /\ (Setting' <=> Setting)
  BY DEF Announce, vars, modes, modem, history, Setting, InFlight
<1>2. PICK lines \in Seq(Frame) : wire' = wire \o Stamp(lines, "event")
  BY EventSeq DEF Announce
<1>3. /\ Len(wire) \in Nat /\ Len(lines) \in Nat /\ Len(wire') = Len(wire) + Len(lines)
      /\ \A i \in 1..Len(wire) : wire'[i] = wire[i]
      /\ \A i \in 1..Len(lines) : wire'[Len(wire) + i] = [f |-> lines[i], whose |-> "event"]
      /\ \A i \in 1..Len(wire') : i \in 1..Len(wire) \/ wire'[i].whose = "event"
  <2>1. Written(wire', wire, lines, "event")
    BY <1>2, WrittenLines DEF TypeInv, LineTyped
  <2> QED BY <2>1 DEF Written
<1>5. \A i \in 1..Len(wire') : Own(i)' => i \in 1..Len(wire) /\ Own(i) /\ wire'[i] = wire[i]
  BY <1>3 DEF Own
<1>6. \A i \in 1..Len(wire) : Own(i) => i \in 1..Len(wire') /\ Own(i)'
  BY <1>3 DEF Own
<1>7. Marks'
  BY <1>1, <1>5 DEF Marks, ModeInv
<1>8. MuxHook'
  BY <1>1 DEF MuxHook, ModeInv
<1>9. ASSUME Setting PROVE MuxAnswer'
  <2>1. MuxAnswer
    BY <1>9 DEF ModeInv, MuxInv
  <2>2. \A i \in 1..Len(wire') : Own(i)' =>
          \/ wire'[i].f = Line("CRLF") /\ i < Len(wire') /\ Own(i + 1)'
          \/ wire'[i].f = Line("OK") /\ modem_mux = user_data[reply]
          \/ wire'[i].f = Line("ERROR") /\ (~doubt => mux = modem_mux)
    <3> SUFFICES ASSUME NEW i \in 1..Len(wire'), Own(i)'
        PROVE  \/ wire'[i].f = Line("CRLF") /\ i < Len(wire') /\ Own(i + 1)'
               \/ wire'[i].f = Line("OK") /\ modem_mux = user_data[reply]
               \/ wire'[i].f = Line("ERROR") /\ (~doubt => mux = modem_mux)
      OBVIOUS
    <3>1. i \in 1..Len(wire) /\ Own(i) /\ wire'[i] = wire[i]
      BY <1>5
    <3>2. i < Len(wire) => i + 1 \in 1..Len(wire) /\ i < Len(wire')
      BY <1>3, <3>1
    <3> QED BY <1>6, <2>1, <3>1, <3>2 DEF MuxAnswer
  <2>3. \A i \in 1..Len(wire') : Own(i)' /\ wire'[i].f # Line("CRLF") =>
          state = "STATUS" \/ (i > 1 /\ Own(i - 1)')
    <3> SUFFICES ASSUME NEW i \in 1..Len(wire'), Own(i)', wire'[i].f # Line("CRLF"), state # "STATUS"
        PROVE  i > 1 /\ Own(i - 1)'
      OBVIOUS
    <3>1. i \in 1..Len(wire) /\ Own(i) /\ wire'[i] = wire[i]
      BY <1>5
    <3>2. i > 1 /\ Own(i - 1)
      BY <2>1, <3>1 DEF MuxAnswer
    <3>3. i - 1 \in 1..Len(wire)
      BY <1>3, <3>1, <3>2
    <3> QED BY <1>6, <3>2, <3>3
  <2>4. state \in {"RN", "STATUS"} /\ (~doubt /\ (\A i \in 1..Len(wire') : ~Own(i)') => mux = modem_mux)
    BY <1>6, <2>1 DEF MuxAnswer
  <2> QED BY <1>1, <2>2, <2>3, <2>4 DEF MuxAnswer
<1> QED BY <1>1, <1>7, <1>8, <1>9 DEF ModeInv, MuxInv

\* What a line the driver gets means for the mode; byOwn if it is the next line
\* of the answer to the last command.
LEMMA ModeByLine ==
  ASSUME TypeInv, ModeInv, NEW f \in Frame, simx_receive_msg(f), NEW byOwn \in BOOLEAN,
         Record(byOwn), UNCHANGED <<pending, modem_mux>>,
         byOwn => Len(wire) \in Nat /\ Len(wire) >= 1 /\ Own(1) /\ wire[1].f = f
  PROVE  /\ UNCHANGED <<cmd, reply, user_data>>
         /\ MuxHook'
         /\ ~doubt' /\ ~Setting' => mux' = modem_mux'
         /\ ~doubt' => \A i \in 1..Len(pending') :
              pending'[i].cmd = "CIPMUX" => pending'[i].whose = "own" /\ Setting'
         /\ Setting' => /\ Setting /\ state' = "STATUS"
                        /\ UNCHANGED <<mux, doubt>>
                        /\ state = "STATUS" => f # Line("OK") /\ f # Line("ERROR")
<1>1. UNCHANGED <<cmd, reply, user_data>> /\ (is_receive' = 0 => is_receive = 0)
  BY LineKeepsCommand DEF TypeInv
<1>2. IInv /\ TypeOK
  BY DEF TypeInv, IInv
<1>3. CASE ~Setting
  <2>1. ~Setting' /\ doubt' = doubt
    BY <1>1, <1>3 DEF Setting, InFlight, Record, Concluded
  <2>2. fcmd_finished = "mux" => doubt
    BY <1>3 DEF ModeInv, MuxHook
  <2>3. mux' = mux \/ doubt
    BY <1>2, <2>2, ReceiveHook DEF Ran, simx_finished, RunHook, HookStays, modes
  <2>4. fcmd_finished' = "mux" => fcmd_finished = "mux"
    BY <1>2, ReceiveHook DEF Ran, simx_finished, RunHook, HookStays
  <2>5. MuxHook'
    BY <2>1, <2>2, <2>4 DEF MuxHook
  <2> QED BY <1>1, <1>3, <2>1, <2>3, <2>5 DEF ModeInv, MuxInv
<1>4. CASE Setting
  <2>1. MuxAnswer /\ fcmd_finished = "mux" /\ user_data[reply] \in 0..(ByteMod - 1)
    BY <1>4 DEF ModeInv, MuxInv, MuxHook
  <2>2. state \in {"RN", "STATUS"}
    BY <2>1 DEF MuxAnswer
  <2>3. ASSUME f # Line("CRLF"), NEW v, Ran(v),
               state = "STATUS" /\ f = Line("OK") => v = "OK",
               state = "STATUS" /\ f = Line("ERROR") => v = "ERROR"
        PROVE  /\ MuxHook' /\ ~Setting'
               /\ ~doubt' => mux' = modem_mux'
               /\ ~doubt' => \A i \in 1..Len(pending') : pending'[i].cmd # "CIPMUX"
    <3>1. is_receive = 0 /\ is_receive' = 1 /\ fcmd_finished' = "none" /\ cmd = "CIPMUX"
      BY <1>4, <2>3 DEF Ran, simx_finished, RunHook, Setting
    <3>2. ~Setting' /\ MuxHook'
      BY <3>1 DEF Setting, InFlight, MuxHook
    <3>3. status'[reply] = v
      BY <1>2, <3>1, <2>3 DEF Ran, simx_finished, TypeOK, IInv, InFlightIsServed, InFlight
    <3>4. mux' = IF v = "OK" THEN user_data[reply] ELSE mux
      BY <2>1, <2>3, Adopted DEF Ran, simx_finished, RunHook
    <3>5. doubt' = (~byOwn \/ (doubt /\ v # "OK"))
      BY <1>1, <3>1, <3>3 DEF Record, Concluded
    <3>6. ASSUME ~doubt'
          PROVE  mux' = modem_mux' /\ \A i \in 1..Len(pending') : pending'[i].cmd # "CIPMUX"
      <4>1. byOwn /\ (doubt => v = "OK")
        BY <3>5, <3>6
      <4>2. 1 \in 1..Len(wire) /\ Own(1) /\ wire[1].f = f
        BY <4>1
      <4>3. state = "STATUS"
        <5>1. wire[1].f # Line("CRLF")
          BY <2>3, <4>2
        <5>2. ~(1 > 1)
          OBVIOUS
        <5> QED BY <2>1, <4>2, <5>1, <5>2 DEF MuxAnswer
      <4>4. \/ f = Line("OK") /\ modem_mux = user_data[reply]
            \/ f = Line("ERROR") /\ (~doubt => mux = modem_mux)
        BY <2>1, <2>3, <4>2 DEF MuxAnswer
      <4>5. mux' = modem_mux
        BY <2>3, <3>4, <4>1, <4>3, <4>4
      <4>6. pending = <<>>
        BY <4>2 DEF ModeInv, Marks
      <4>7. Len(<<>>) = 0 /\ \A i \in 1..0 : FALSE
        BY EmptySeq
      <4> QED BY <4>5, <4>6, <4>7
    <3> QED BY <3>2, <3>6
  <2>4. ASSUME HookStays, is_receive' = 0, state' = "STATUS"
        PROVE  /\ MuxHook' /\ Setting'
               /\ UNCHANGED <<mux, doubt>>
               /\ ~doubt' => \A i \in 1..Len(pending') :
                    pending'[i].cmd = "CIPMUX" => pending'[i].whose = "own" /\ Setting'
    <3>1. Setting' /\ doubt' = doubt
      BY <1>1, <1>4, <2>4 DEF Setting, InFlight, Record, Concluded
    <3>2. mux' = mux /\ fcmd_finished' = "mux" /\ user_data'[reply'] = user_data[reply]
      BY <1>1, <2>1, <2>4 DEF HookStays, modes
    <3>3. MuxHook'
      BY <2>1, <3>1, <3>2 DEF MuxHook
    <3> QED BY <1>4, <3>1, <3>2, <3>3 DEF ModeInv, MuxInv
  <2>5. \/ /\ f # Line("CRLF")
           /\ \E v : /\ Ran(v)
                     /\ state = "STATUS" /\ f = Line("OK") => v = "OK"
                     /\ state = "STATUS" /\ f = Line("ERROR") => v = "ERROR"
        \/ /\ HookStays /\ is_receive' = 0 /\ state' = "STATUS"
           /\ state = "STATUS" => f # Line("OK") /\ f # Line("ERROR")
    BY <1>4, <2>2, SettingLine
  <2> QED BY <1>1, <1>4, <2>3, <2>4, <2>5
<1> QED BY <1>3, <1>4

\* The lines behind the one delivered, and what a text completes.
LEMMA PassedLines ==
  ASSUME TypeInv, Deliver
  PROVE  /\ Len(wire) \in Nat /\ Len(wire) >= 1 /\ Len(wire') \in Nat
         /\ Len(wire) - 1 <= Len(wire')
         /\ \A i \in 1..(Len(wire) - 1) : wire'[i] = wire[i + 1]
         /\ \A i \in 1..Len(wire') :
              i \in 1..(Len(wire) - 1) \/ (prompting # <<>> /\ wire'[i].whose = prompting[1].whose)
<1>1. /\ Tail(wire) \in Seq(Packet) /\ Len(Tail(wire)) = Len(wire) - 1
      /\ \A i \in 1..Len(Tail(wire)) : Tail(wire)[i] = wire[i + 1]
      /\ Len(wire) \in Nat /\ Len(wire) >= 1
  BY HeadLine DEF TypeInv, Deliver
<1>2. CASE wire' = Tail(wire)
  BY <1>1, <1>2
<1>3. ASSUME prompting # <<>>, NEW lines \in Finished(prompting[1].cmd),
             wire' = Tail(wire) \o Stamp(lines, prompting[1].whose)
      PROVE  /\ Len(wire') \in Nat /\ Len(wire) - 1 <= Len(wire')
             /\ \A i \in 1..(Len(wire) - 1) : wire'[i] = wire[i + 1]
             /\ \A i \in 1..Len(wire') :
                  i \in 1..(Len(wire) - 1) \/ wire'[i].whose = prompting[1].whose
  <2>1. prompting \in Seq(Posted) /\ Len(prompting) \in Nat \ {0}
    BY <1>3, EmptySeq DEF TypeInv, LineTyped
  <2>2. prompting[1] \in Posted
    BY <2>1, ElementOfSeq
  <2>3. prompting[1].cmd \in Cmds /\ prompting[1].whose \in {"own", "old", "event"}
    BY <2>2 DEF Posted
  <2>4. Written(wire', Tail(wire), lines, prompting[1].whose)
    BY <1>1, <1>3, <2>3, FinishedSeq, WrittenLines
  <2> QED BY <1>1, <2>4 DEF Written
<1> QED BY <1>1, <1>2, <1>3 DEF Deliver

\* The driver gets the next line.
LEMMA ModeDeliver ==
  ASSUME TypeInv, ModeInv, Deliver
  PROVE  ModeInv'
<1>1. /\ Len(wire) \in Nat /\ Len(wire) >= 1 /\ Len(wire') \in Nat
      /\ Len(wire) - 1 <= Len(wire')
      /\ \A i \in 1..(Len(wire) - 1) : wire'[i] = wire[i + 1]
      /\ \A i \in 1..Len(wire') :
           i \in 1..(Len(wire) - 1) \/ (prompting # <<>> /\ wire'[i].whose = prompting[1].whose)
  BY PassedLines
<1>2. /\ simx_receive_msg(wire[1].f) /\ wire[1].f \in Frame /\ Record(wire[1].whose = "own")
      /\ UNCHANGED <<pending, modem_mux>>
      /\ prompting' = <<>> \/ prompting' = prompting
  BY HeadLine DEF Deliver, TypeInv
<1>3. /\ UNCHANGED <<cmd, reply, user_data>>
      /\ MuxHook'
      /\ ~doubt' /\ ~Setting' => mux' = modem_mux'
      /\ ~doubt' => \A i \in 1..Len(pending') :
           pending'[i].cmd = "CIPMUX" => pending'[i].whose = "own" /\ Setting'
      /\ Setting' => /\ Setting /\ state' = "STATUS"
                     /\ UNCHANGED <<mux, doubt>>
                     /\ state = "STATUS" => wire[1].f # Line("OK") /\ wire[1].f # Line("ERROR")
  <2>1. (wire[1].whose = "own") \in BOOLEAN
    OBVIOUS
  <2> QED BY <1>1, <1>2, <2>1, ModeByLine DEF Own
<1>4. \A i \in 1..(Len(wire) - 1) : i + 1 \in 1..Len(wire) /\ i \in 1..Len(wire')
  BY <1>1
<1>5. \A i \in 1..Len(wire') : Own(i)' =>
        \/ i \in 1..(Len(wire) - 1) /\ Own(i + 1)
        \/ prompting # <<>> /\ prompting[1].whose = "own"
  BY <1>1 DEF Own
<1>6. Marks'
  <2>1. (\E i \in 1..Len(wire') : Own(i)') => pending = <<>>
    BY <1>4, <1>5 DEF ModeInv, Marks
  <2> QED BY <1>2, <1>3, <2>1 DEF ModeInv, Marks, Own
<1>7. ASSUME Setting' PROVE MuxAnswer'
  <2>1. Setting /\ MuxAnswer /\ state' = "STATUS" /\ UNCHANGED <<mux, doubt, reply, user_data, modem_mux>>
    BY <1>2, <1>3, <1>7 DEF ModeInv, MuxInv
  <2>2. ~(prompting # <<>> /\ prompting[1].whose = "own")
    BY <2>1 DEF Setting, ModeInv, Marks, PromptCmds, WframeCmds, SdframeCmds
  <2>3. \A i \in 1..Len(wire') : Own(i)' => i \in 1..(Len(wire) - 1) /\ Own(i + 1)
    BY <1>5, <2>2
  <2>4. \A i \in 1..(Len(wire) - 1) : Own(i + 1) => Own(i)'
    BY <1>1 DEF Own
  <2>5. \A i \in 1..Len(wire') : Own(i)' =>
          \/ wire'[i].f = Line("CRLF") /\ i < Len(wire') /\ Own(i + 1)'
          \/ wire'[i].f = Line("OK") /\ modem_mux = user_data[reply]
          \/ wire'[i].f = Line("ERROR") /\ (~doubt => mux = modem_mux)
    <3> SUFFICES ASSUME NEW i \in 1..Len(wire'), Own(i)'
        PROVE  \/ wire'[i].f = Line("CRLF") /\ i < Len(wire') /\ Own(i + 1)'
               \/ wire'[i].f = Line("OK") /\ modem_mux = user_data[reply]
               \/ wire'[i].f = Line("ERROR") /\ (~doubt => mux = modem_mux)
      OBVIOUS
    <3>1. i + 1 \in 1..Len(wire) /\ Own(i + 1) /\ wire'[i].f = wire[i + 1].f
      BY <1>1, <1>4, <2>3
    <3>2. CASE wire[i + 1].f = Line("CRLF") /\ i + 1 < Len(wire) /\ Own(i + 1 + 1)
      <4>1. i + 1 \in 1..(Len(wire) - 1) /\ i < Len(wire')
        BY <1>1, <3>1, <3>2
      <4> QED BY <2>4, <3>1, <3>2, <4>1
    <3> QED BY <2>1, <3>1, <3>2 DEF MuxAnswer
  <2>6. ~doubt /\ (\A i \in 1..Len(wire') : ~Own(i)') => mux = modem_mux
    <3> SUFFICES ASSUME ~doubt, \A i \in 1..Len(wire') : ~Own(i)' PROVE mux = modem_mux
      OBVIOUS
    <3>1. \A i \in 1..(Len(wire) - 1) : ~Own(i + 1)
      BY <1>4, <2>4
    <3>2. CASE Own(1)
      <4>1. 1 \in 1..Len(wire) /\ (1 < Len(wire) => 1 \in 1..(Len(wire) - 1))
        BY <1>1
      <4>2. wire[1].f # Line("CRLF")
        <5>1. Line("CRLF") # Line("OK") /\ Line("CRLF") # Line("ERROR")
          BY DEF Line
        <5> QED BY <2>1, <3>1, <3>2, <4>1, <5>1 DEF MuxAnswer
      <4>3. state = "STATUS"
        <5>1. ~(1 > 1)
          OBVIOUS
        <5> QED BY <2>1, <3>2, <4>1, <4>2, <5>1 DEF MuxAnswer
      <4>4. wire[1].f # Line("OK") /\ wire[1].f # Line("ERROR")
        BY <1>3, <1>7, <4>3
      <4> QED BY <2>1, <3>2, <4>1, <4>2, <4>4 DEF MuxAnswer
    <3>3. CASE ~Own(1)
      <4>1. \A i \in 1..Len(wire) : i = 1 \/ (i - 1 \in 1..(Len(wire) - 1) /\ i - 1 + 1 = i)
        BY <1>1
      <4>2. \A i \in 1..Len(wire) : ~Own(i)
        BY <3>1, <3>3, <4>1
      <4> QED BY <2>1, <4>2 DEF MuxAnswer
    <3> QED BY <3>2, <3>3
  <2> QED BY <2>1, <2>5, <2>6 DEF MuxAnswer
<1> QED BY <1>3, <1>6, <1>7 DEF ModeInv, MuxInv

\* A line is spoilt by a prompt nobody waits for.
LEMMA ModeSpoilt ==
  ASSUME TypeInv, ModeInv, DeliverSpoilt
  PROVE  ModeInv'
<1>1. /\ simx_receive_msg(Line("TEXT")) /\ Record(FALSE)
      /\ UNCHANGED <<pending, prompting, modem_mux>> /\ wire' = Tail(Tail(wire))
  BY DEF DeliverSpoilt, modem
<1>2. /\ UNCHANGED <<cmd, reply, user_data>>
      /\ MuxHook'
      /\ ~doubt' /\ ~Setting' => mux' = modem_mux'
      /\ ~doubt' => \A i \in 1..Len(pending') :
           pending'[i].cmd = "CIPMUX" => pending'[i].whose = "own" /\ Setting'
  BY <1>1, TextLine, ModeByLine
<1>3. ~Setting'
  <2>1. Setting' => Setting
    BY <1>1, <1>2, LineKeepsCommand, TextLine DEF TypeInv, Setting, InFlight
  <2>2. ASSUME Setting PROVE is_receive' = 1
    <3>1. is_receive = 0 /\ cmd = "CIPMUX" /\ state \in {"RN", "STATUS"}
      BY <2>2 DEF Setting, InFlight, ModeInv, MuxInv, MuxAnswer
    <3>2. Answer(Line("TEXT"))
      BY <1>1, <3>1, CallbackAssumption DEF simx_receive_msg, IpdHeader, simx_receive_frame,
         simx_check_message, IdleLine, IsNotification, NotificationTexts, Line
    <3>3. simx_rcv_dframe(Line("TEXT"))
      BY <3>1, <3>2 DEF Answer, RframeCmds, DframeCmds, WframeCmds, MframeCmds, IpframeCmds, SdframeCmds
    <3> QED BY <3>1, <3>3 DEF simx_rcv_dframe, TwoBytes, simx_finished, Line
  <2> QED BY <2>1, <2>2 DEF Setting, InFlight
<1>4. \A i \in 1..Len(wire') : i + 2 \in 1..Len(wire) /\ wire'[i] = wire[i + 2]
  <2>1. wire \in Seq(Packet) /\ Len(wire) > 1
    BY DEF TypeInv, LineTyped, DeliverSpoilt
  <2>2. /\ Tail(wire) \in Seq(Packet) /\ Len(Tail(wire)) = Len(wire) - 1
        /\ \A i \in 1..Len(Tail(wire)) : Tail(wire)[i] = wire[i + 1]
        /\ Len(wire) \in Nat
    <3>1. wire # <<>>
      BY <2>1, EmptySeq
    <3> QED BY <3>1, HeadLine DEF TypeInv
  <2>3. Tail(wire) = <<>> => Len(Tail(wire)) = 0
    BY EmptySeq
  <2>4. Tail(wire) # <<>>
    BY <2>1, <2>2, <2>3
  <2> HIDE DEF Packet
  <2>5. /\ Len(wire') = Len(Tail(wire)) - 1
        /\ \A i \in 1..Len(wire') : wire'[i] = Tail(wire)[i + 1]
    BY <1>1, <2>2, <2>4, HeadTailProperties
  <2>6. \A i \in 1..Len(wire') : i + 2 \in 1..Len(wire) /\ i + 1 \in 1..Len(Tail(wire)) /\ i + 1 + 1 = i + 2
    BY <2>2, <2>5
  <2> QED BY <2>2, <2>5, <2>6
<1>5. Marks'
  BY <1>1, <1>2, <1>4 DEF ModeInv, Marks, Own
<1> QED BY <1>2, <1>3, <1>5 DEF ModeInv, MuxInv

LEMMA ModeTimer ==
  ASSUME TypeInv, ModeInv, Timer
  PROVE  ModeInv'
<1>1. /\ UNCHANGED <<cmd, reply, user_data, modes, fcmd_finished, state>> /\ is_receive = 0
      /\ UNCHANGED <<pending, prompting, modem_mux, wire>>
  BY TimerKeepsCommand DEF Timer, modem
<1>2. mux' = mux
  BY <1>1 DEF modes
<1>3. Marks'
  BY <1>1 DEF ModeInv, Marks, Own
<1>4. CASE is_receive' = 1 /\ cmd = "CIPMUX"
  <2>1. doubt' /\ ~Setting'
    <3>1. Concluded /\ Record(FALSE)
      BY <1>1, <1>4 DEF Timer, Concluded
    <3>2. doubt' = TRUE
      BY <1>4, <3>1 DEF Record
    <3> QED BY <1>4, <3>2 DEF Setting, InFlight
  <2> QED BY <1>3, <2>1 DEF ModeInv, MuxHook, MuxInv
<1>5. CASE ~(is_receive' = 1 /\ cmd = "CIPMUX")
  <2>1. doubt' = doubt /\ (Setting' <=> Setting)
    BY <1>1, <1>5 DEF Timer, Record, Concluded, Setting, InFlight, simx_tick_1ms, Tick
  <2>2. MuxHook' /\ MuxInv'
    BY <1>1, <1>2, <2>1 DEF ModeInv, MuxHook, MuxInv, MuxAnswer, Own
  <2> QED BY <1>3, <2>2 DEF ModeInv
<1> QED BY <1>4, <1>5

LEMMA ModeNext ==
  ASSUME TypeInv, ModeInv, [SystemNext]_allVars
  PROVE  ModeInv'
<1>1. CASE StartScript \/ Return \/ UNCHANGED allVars
  <2>1. UNCHANGED <<cmd, reply, user_data, fcmd_finished, is_receive, state, mux, doubt,
                    pending, prompting, modem_mux, wire>>
    BY <1>1 DEF StartScript, Return, allVars, vars, modes, modem, history
  <2> QED BY <2>1 DEF ModeInv, Marks, MuxHook, MuxInv, MuxAnswer, Own, Setting, InFlight
<1> QED
  BY <1>1, ModeCall, ModeWork, ModeAnnounce, ModeDeliver, ModeSpoilt, ModeTimer DEF SystemNext

LEMMA AlwaysMode == SystemSpec => [](TypeInv /\ ModeInv)
<1>1. SystemInit => ModeInv
  BY ModeInit
<1>2. TypeInv /\ ModeInv /\ [SystemNext]_allVars => ModeInv'
  BY ModeNext
<1> QED BY <1>1, <1>2, AlwaysTyped, PTL DEF SystemSpec

\* Between commands the driver and the modem agree on the multi-IP mode, whatever
\* timeouts and events have done to other commands, as long as no AT+CIPMUX ended
\* without its answer.
THEOREM MuxStaysAgreed == SystemSpec => []MuxAgrees
<1>1. ModeInv => MuxAgrees
  BY DEF ModeInv, MuxInv, Setting, MuxAgrees
<1> QED BY AlwaysMode, <1>1, PTL
=============================================================================

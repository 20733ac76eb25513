--------------------------- MODULE Sim900AnswersProofs ---------------------------
(***************************************************************************)
(* Proofs about the answers: which lines belong to the command in flight,  *)
(* that a command ends well only with its own answer, badly only when the  *)
(* modem refused it, and that it leaves nothing behind.                    *)
(***************************************************************************)
EXTENDS Sim900SystemProofs

Empty == Line("CRLF")

-----------------------------------------------------------------------------
(* The answers, line by line.                                              *)

LEMMA TwoLines ==
  \A x, y : Len(<<x, y>>) = 2 /\ <<x, y>>[1] = x /\ <<x, y>>[2] = y
  OBVIOUS

LEMMA TwoOrMore == \A a : Len(a) = 2 => Len(a) \in Nat /\ Len(a) >= 2
  OBVIOUS

\* A refusal; which command gets which does not matter to the handlers.
Refusals == {"ERROR", "NO CARRIER"}
IsRefusal(a) == Len(a) = 2 /\ a[2] \in {Line("ERROR"), Line("NO CARRIER")}

LEMMA RefusalLine ==
  ASSUME NEW a, IsRefusal(a)
  PROVE  a[2] \in Frame /\ a[2].text \in Refusals
<1>1. Line("ERROR") \in Frame /\ Line("NO CARRIER") \in Frame
  BY AnswerTexts, LineType
<1>2. Line("ERROR").text = "ERROR" /\ Line("NO CARRIER").text = "NO CARRIER"
  BY DEF Line
<1>3. a[2] = Line("ERROR") \/ a[2] = Line("NO CARRIER")
  BY DEF IsRefusal
<1> QED BY <1>1, <1>2, <1>3 DEF Refusals

\* A report between empty lines, behind it the verdict.
IsReport(a, c, v) ==
  /\ c \in RframeCmds /\ c # "CMGR" /\ Len(a) = 4
  /\ a[2] = Report(c, v) /\ a[3] = Empty /\ a[4] = Line("OK")

\* The same with the text of an SMS.
IsSms(a, c, v) ==
  /\ c = "CMGR" /\ Len(a) = 5
  /\ a[2] = Report(c, v) /\ a[3] = Saying("TEXT", v) /\ a[4] = Empty /\ a[5] = Line("OK")

IsVerdict(a, c) ==
  /\ c \in DframeCmds /\ Len(a) = 2
  /\ \/ a[2] \in {Line("OK"), Line("SHUT OK"), Line("CONNECT")}
     \/ c = "CIPCLOSE" /\ a[2] = Linked("CLOSE OK")

IsPrompt(a) == Len(a) = 2 /\ a[2] = Line("PROMPT")

IsAddress(a, c, v) == c \in IpframeCmds /\ Len(a) = 2 /\ a[2] = Saying("IP", v)

IsTable(a, c, v) ==
  /\ c = "CIPSTATUS" /\ Len(a) \in {5, 7} /\ (Len(a) = 7 <=> modem_mux # 0)
  /\ a[2] = Line("OK") /\ a[3] = Empty /\ a[4] = Saying("STATE", v) /\ a[5] = Empty
  /\ Len(a) = 7 => a[6] = Row(0, v) /\ a[7] = Row(7, v)

LEMMA TableLines ==
  ASSUME NEW v \in Nat
  PROVE  Table(v) \in Seq(Frame) /\ Table(v)[1] = Empty /\ IsTable(Table(v), "CIPSTATUS", v)
<1> DEFINE s == <<Line("CRLF"), Line("OK"), Line("CRLF"), Saying("STATE", v), Line("CRLF")>>
           t == IF modem_mux # 0 THEN <<Row(0, v), Row(7, v)>> ELSE <<>>
<1>1. 0 \in Link /\ 7 \in Link
  BY DEF Link
<1>2. /\ Line("CRLF") \in Frame /\ Line("OK") \in Frame /\ Saying("STATE", v) \in Frame
      /\ Row(0, v) \in Frame /\ Row(7, v) \in Frame
  BY <1>1, AnswerTexts, LineType
<1>3. s \in Seq(Frame) /\ t \in Seq(Frame)
  BY <1>2, ShortSeq
<1>4. /\ Len(s) = 5 /\ s[1] = Empty /\ s[2] = Line("OK") /\ s[3] = Empty
      /\ s[4] = Saying("STATE", v) /\ s[5] = Empty
  BY DEF Empty
<1>5. IF modem_mux # 0 THEN Len(t) = 2 /\ t[1] = Row(0, v) /\ t[2] = Row(7, v) ELSE Len(t) = 0
  BY EmptySeq
<1>6. Table(v) = s \o t
  BY DEF Table
<1> HIDE DEF s, t
<1>7. /\ s \o t \in Seq(Frame) /\ Len(s \o t) = Len(s) + Len(t)
      /\ \A i \in 1..(Len(s) + Len(t)) : (s \o t)[i] = IF i <= Len(s) THEN s[i] ELSE t[i - Len(s)]
  BY <1>3, ConcatProperties
<1>8. Len(t) \in {0, 2} /\ (Len(t) = 2 <=> modem_mux # 0)
  BY <1>5
<1>9. \A i \in 1..5 : (s \o t)[i] = s[i]
  BY <1>4, <1>7, <1>8
<1>10. Len(t) = 2 => (s \o t)[6] = t[1] /\ (s \o t)[7] = t[2]
  BY <1>4, <1>7
<1> DEFINE st == s \o t
<1>11. st \in Seq(Frame) /\ st[1] = Empty
  BY <1>4, <1>7, <1>9
<1>12. Len(st) = 5 + Len(t)
  BY <1>4, <1>7
<1>13. Len(st) \in {5, 7} /\ (Len(st) = 7 <=> modem_mux # 0)
  <2>1. Len(t) = 2 => Len(st) = 7
    BY <1>12
  <2>2. Len(t) = 0 => Len(st) = 5
    BY <1>12
  <2> HIDE DEF st
  <2>3. CASE Len(t) = 2
    BY <1>8, <2>1, <2>3
  <2>4. CASE Len(t) = 0
    BY <1>8, <2>2, <2>4
  <2> QED BY <1>8, <2>3, <2>4
<1>14. st[2] = Line("OK") /\ st[3] = Empty /\ st[4] = Saying("STATE", v) /\ st[5] = Empty
  BY <1>4, <1>9
<1>15. Len(st) = 7 => st[6] = Row(0, v) /\ st[7] = Row(7, v)
  BY <1>5, <1>10, <1>12, <1>13
<1>16. Table(v) = st
  BY <1>6
<1> HIDE DEF st
<1> QED BY <1>11, <1>13, <1>14, <1>15, <1>16 DEF IsTable

LEMMA VerdictLines ==
  ASSUME NEW t \in FrameTexts
  PROVE  Verdict(t) \in Seq(Frame) /\ Len(Verdict(t)) = 2 /\ Verdict(t)[1] = Empty /\ Verdict(t)[2] = Line(t)
  BY VerdictSeq DEF Verdict, Empty

\* What the modem may write when it gets a command.
FirstAnswer(a, c, v) ==
  /\ a \in Seq(Frame) /\ Len(a) \in Nat /\ Len(a) >= 2 /\ a[1] = Empty
  /\ \/ IsRefusal(a)
     \/ IsReport(a, c, v) \/ IsSms(a, c, v)
     \/ IsVerdict(a, c)
     \/ c \in PromptCmds /\ IsPrompt(a)
     \/ IsAddress(a, c, v)
     \/ IsTable(a, c, v)

LEMMA RefusalLines ==
  ASSUME NEW c, NEW v, NEW b, NEW a \in Denied(b)
  PROVE  FirstAnswer(a, c, v) /\ IsRefusal(a)
<1>1. PICK t \in FrameTexts : a = Verdict(t) /\ t \in {"ERROR", "NO CARRIER"}
  BY DeniedSeq, AnswerTexts
<1>2. a \in Seq(Frame) /\ Len(a) = 2 /\ a[1] = Empty /\ a[2] = Line(t)
  BY <1>1, VerdictLines
<1>3. IsRefusal(a)
  BY <1>1, <1>2 DEF IsRefusal
<1>4. Len(a) \in Nat /\ Len(a) >= 2
  BY <1>2
<1> QED BY <1>2, <1>3, <1>4, Zenon DEF FirstAnswer

LEMMA FirstLines ==
  ASSUME NEW c \in Cmds, NEW v \in Nat
  PROVE  FirstAnswer(Granted(c, v), c, v) /\ (c \in PromptCmds => IsPrompt(Granted(c, v)))
<1> DEFINE a == Granted(c, v)
<1>1. a \in Seq(Frame)
  BY GrantedSeq
<1>2. CASE c = "CIPSTATUS"
  <2>1. a = Table(v)
    BY <1>2 DEF Granted
  <2>2. Len(a) \in {5, 7} /\ a[1] = Empty /\ IsTable(a, c, v)
    BY <1>2, <2>1, TableLines DEF IsTable
  <2>3. c \notin PromptCmds
    BY <1>2 DEF PromptCmds, WframeCmds, SdframeCmds
  <2> HIDE DEF a
  <2>4. FirstAnswer(a, c, v)
    <3>1. Len(a) \in Nat /\ Len(a) >= 2
      BY <2>2
    <3> QED BY <1>1, <2>2, <3>1, Zenon DEF FirstAnswer
  <2> QED BY <2>3, <2>4 DEF a
<1>3. CASE c = "CIFSR"
  <2>1. a = <<Line("CRLF"), Saying("IP", v)>>
    BY <1>3 DEF Granted
  <2>2. Len(a) = 2 /\ a[1] = Empty /\ IsAddress(a, c, v)
    BY <1>3, <2>1 DEF IsAddress, Empty, IpframeCmds
  <2>3. c \notin PromptCmds
    BY <1>3 DEF PromptCmds, WframeCmds, SdframeCmds, RframeCmds
  <2> HIDE DEF a
  <2>4. FirstAnswer(a, c, v)
    BY <1>1, <2>2 DEF FirstAnswer
  <2> QED BY <2>3, <2>4 DEF a
<1>4. CASE c = "CMGR"
  <2>1. a = <<Line("CRLF"), Report(c, v), Saying("TEXT", v), Line("CRLF"), Line("OK")>>
    BY <1>4 DEF Granted
  <2>2. Len(a) = 5 /\ a[1] = Empty /\ IsSms(a, c, v)
    BY <1>4, <2>1 DEF IsSms, Empty
  <2>3. c \notin PromptCmds
    BY <1>4 DEF PromptCmds, WframeCmds, SdframeCmds, RframeCmds
  <2> HIDE DEF a
  <2>4. FirstAnswer(a, c, v)
    BY <1>1, <2>2 DEF FirstAnswer
  <2> QED BY <2>3, <2>4 DEF a
<1>5. CASE c \in RframeCmds /\ c # "CMGR"
  <2>1. a = <<Line("CRLF"), Report(c, v), Line("CRLF"), Line("OK")>>
    BY <1>5 DEF Granted, RframeCmds
  <2>2. Len(a) = 4 /\ a[1] = Empty /\ IsReport(a, c, v)
    BY <1>5, <2>1 DEF IsReport, Empty
  <2>3. c \notin PromptCmds
    BY <1>5 DEF PromptCmds, WframeCmds, SdframeCmds, RframeCmds
  <2> HIDE DEF a
  <2>4. FirstAnswer(a, c, v)
    BY <1>1, <2>2 DEF FirstAnswer
  <2> QED BY <2>3, <2>4 DEF a
<1>6. CASE c \in PromptCmds
  <2>1. a = <<Line("CRLF"), Line("PROMPT")>>
    BY <1>6 DEF Granted, PromptCmds, WframeCmds, SdframeCmds, RframeCmds
  <2>2. Len(a) = 2 /\ a[1] = Empty /\ IsPrompt(a)
    BY <1>6, <2>1 DEF IsPrompt, Empty
  <2> QED BY <1>1, <1>6, <2>2 DEF FirstAnswer
<1>7. CASE c \in DframeCmds
  <2>1. c \notin PromptCmds
    BY <1>7 DEF DframeCmds, PromptCmds, WframeCmds, SdframeCmds
  <2>2. ASSUME NEW f, a = <<Line("CRLF"), f>>,
               f \in {Line("OK"), Line("SHUT OK"), Line("CONNECT")} \/ (c = "CIPCLOSE" /\ f = Linked("CLOSE OK"))
        PROVE  FirstAnswer(a, c, v)
    <3> HIDE DEF a
    <3>1. Len(a) = 2 /\ a[1] = Empty /\ a[2] = f
      BY <2>2, TwoLines DEF Empty
    <3>2. IsVerdict(a, c)
      BY <1>7, <2>2, <3>1, Zenon DEF IsVerdict
    <3>3. Len(a) \in Nat /\ Len(a) >= 2
      BY <3>1
    <3> QED BY <1>1, <3>1, <3>2, <3>3, Zenon DEF FirstAnswer
  <2>3. CASE c = "CIPCLOSE"
    <3>1. a = <<Line("CRLF"), Linked("CLOSE OK")>>
      BY <2>3 DEF Granted, PromptCmds, WframeCmds, SdframeCmds, RframeCmds
    <3> QED BY <2>1, <2>2, <2>3, <3>1
  <2>4. CASE c # "CIPCLOSE"
    <3>1. \E t \in {"OK", "SHUT OK", "CONNECT"} : a = Verdict(t)
      BY <1>7, <2>1, <2>4 DEF Granted, RframeCmds, DframeCmds
    <3>2. PICK t \in {"OK", "SHUT OK", "CONNECT"} : a = <<Line("CRLF"), Line(t)>>
      BY <3>1 DEF Verdict
    <3> QED BY <2>1, <2>2, <3>2
  <2> QED BY <2>3, <2>4
<1> QED BY <1>2, <1>3, <1>4, <1>5, <1>6, <1>7
     DEF Cmds, PromptCmds, WframeCmds, SdframeCmds, MframeCmds, IpframeCmds

\* What it may write once it has the text.
LastAnswer(a, c) ==
  /\ a \in Seq(Frame) /\ Len(a) \in Nat /\ Len(a) >= 2 /\ a[1] = Empty
  /\ \/ c \in WframeCmds /\ IsRefusal(a)
     \/ /\ c \in WframeCmds /\ Len(a) = 4
        /\ a[2] = InfoLine(c) /\ a[3] = Empty /\ a[4] = Line("OK")
     \/ /\ c \in SdframeCmds /\ Len(a) = 2
        /\ a[2] \in {Linked("SEND OK"), Linked("SEND FAIL")}

LEMMA LastLines ==
  ASSUME NEW c \in PromptCmds, NEW a \in Finished(c)
  PROVE  LastAnswer(a, c)
<1>1. c \in Cmds
  BY DEF Cmds, PromptCmds
<1>2. a \in Seq(Frame)
  BY <1>1, FinishedSeq
<1>3. CASE c = "CIPSEND"
  <2>1. PICK t \in {"SEND OK", "SEND FAIL"} : a = <<Line("CRLF"), Linked(t)>>
    BY <1>3 DEF Finished
  <2>2. Len(a) = 2 /\ a[1] = Empty /\ a[2] \in {Linked("SEND OK"), Linked("SEND FAIL")}
    BY <2>1 DEF Empty
  <2>3. c \in SdframeCmds
    BY <1>3 DEF SdframeCmds
  <2>4. Len(a) = 2
    BY <2>2
  <2>5. Len(a) \in Nat /\ Len(a) >= 2
    BY <2>4, TwoOrMore
  <2> QED BY <1>2, <2>2, <2>3, <2>5, Zenon DEF LastAnswer
<1>4. CASE c \in WframeCmds
  <2>1. a \in {<<Line("CRLF"), InfoLine(c), Line("CRLF"), Line("OK")>>, Verdict("ERROR")}
    BY <1>4 DEF Finished, WframeCmds
  <2>2. CASE a = <<Line("CRLF"), InfoLine(c), Line("CRLF"), Line("OK")>>
    BY <1>2, <1>4, <2>2 DEF LastAnswer, Empty
  <2>3. CASE a = Verdict("ERROR")
    <3>1. "ERROR" \in FrameTexts
      BY AnswerTexts
    <3>2. Len(a) = 2 /\ a[1] = Empty /\ a[2] = Line("ERROR")
      BY <2>3, <3>1, VerdictLines
    <3>3. IsRefusal(a)
      BY <3>2 DEF IsRefusal
    <3>4. Len(a) \in Nat /\ Len(a) >= 2
      BY <3>2
    <3> QED BY <1>2, <1>4, <3>2, <3>3, <3>4, Zenon DEF LastAnswer
  <2> QED BY <2>1, <2>2, <2>3
<1> QED BY <1>3, <1>4 DEF PromptCmds, SdframeCmds

-----------------------------------------------------------------------------
(* What a line does to the command in flight.                              *)

NoSend == \A u \in upcalls' : u.fn # "send"

StaysIn(s) == is_receive' = 0 /\ state' = s

EndsWith(v) == is_receive' = 1 /\ status'[reply] = v

LEMMA FinishedEnds ==
  ASSUME TypeInv, is_receive = 0, NEW v, simx_finished(v)
  PROVE  EndsWith(v)
<1>1. reply \in Replies /\ status \in [Replies -> Statuses]
  BY DEF TypeInv, IInv, InFlightIsServed, InFlight, TypeOK
<1> QED BY <1>1 DEF simx_finished, EndsWith

LEMMA GotoStays ==
  ASSUME is_receive = 0, NEW s, Goto(s)
  PROVE  StaysIn(s)
  BY DEF Goto, StaysIn

\* A notification ends the command.
LEMMA NotificationEnds ==
  ASSUME TypeInv, NEW f \in Frame, simx_receive_msg(f), is_receive = 0, IsNotification(f)
  PROVE  EndsWith("ERROR") /\ NoSend
<1>1. simx_check_message(f)
  BY CallbackAssumption DEF simx_receive_msg, IpdHeader, simx_receive_frame, IdleLine
<1>2. simx_finished("ERROR")
  BY <1>1 DEF simx_check_message
<1>3. NoSend
  <2>1. upcalls' = NotificationUpcall(f)
    BY <1>1 DEF simx_check_message
  <2>2. \A u \in NotificationUpcall(f) : u = SmsReceived(f.link) \/ u = Message(f.text)
    BY DEF NotificationUpcall
  <2>3. SmsReceived(f.link).fn # "send" /\ Message(f.text).fn # "send"
    BY DEF SmsReceived, Message
  <2> QED BY <2>1, <2>2, <2>3 DEF NoSend
<1> QED BY <1>2, <1>3, FinishedEnds

\* Any other line goes to the handler of the command.
LEMMA ToHandler ==
  ASSUME TypeInv, NEW f \in Frame, simx_receive_msg(f), is_receive = 0, ~IsNotification(f)
  PROVE  /\ cmd \in Cmds
         /\ cmd \in RframeCmds  => simx_rcv_rframe(f)
         /\ cmd \in DframeCmds  => simx_rcv_dframe(f)
         /\ cmd \in WframeCmds  => simx_rcv_wframe(f)
         /\ cmd \in MframeCmds  => simx_rcv_mframe(f)
         /\ cmd \in IpframeCmds => simx_rcv_ipframe(f)
         /\ cmd \in SdframeCmds => simx_rcv_sdframe(f)
<1>1. cmd \in Cmds
  BY DEF TypeInv, IInv, InFlightIsServed, InFlight
<1>2. Answer(f)
  BY CallbackAssumption
     DEF simx_receive_msg, IpdHeader, simx_receive_frame, simx_check_message, IdleLine
<1>3. \/ cmd \in RframeCmds  /\ simx_rcv_rframe(f)
      \/ cmd \in DframeCmds  /\ simx_rcv_dframe(f)
      \/ cmd \in WframeCmds  /\ simx_rcv_wframe(f)
      \/ cmd \in MframeCmds  /\ simx_rcv_mframe(f)
      \/ cmd \in IpframeCmds /\ simx_rcv_ipframe(f)
      \/ cmd \in SdframeCmds /\ simx_rcv_sdframe(f)
  BY <1>2 DEF Answer
<1> QED BY <1>1, <1>3, Zenon
        DEF RframeCmds, DframeCmds, WframeCmds, MframeCmds, IpframeCmds, SdframeCmds

\* The state of the handler behind the empty line an answer begins with, s being
\* the one before it.
AfterFirst(s) ==
  IF s = "MSG" THEN IF cmd \in WframeCmds THEN "CMD" ELSE "MSG"
  ELSE IF cmd \in RframeCmds THEN "CMD"
  ELSE IF cmd \in DframeCmds \cup MframeCmds THEN "STATUS" ELSE "MSG"

LEMMA FirstRead ==
  ASSUME TypeInv, is_receive = 0, simx_receive_msg(Empty), NEW s, state = s,
         s = "RN" \/ (s = "MSG" /\ cmd \in PromptCmds)
  PROVE  StaysIn(AfterFirst(s)) /\ NoSend
<1>1. Empty \in Frame /\ Empty.text = "CRLF" /\ TwoBytes(Empty) /\ ~IsNotification(Empty)
  BY LineType, AnswerTexts DEF Empty, Line, TwoBytes, IsNotification, NotificationTexts
<1> HIDE DEF Empty
<1> DEFINE f == Empty
<1>2. cmd \in Cmds
  BY <1>1, ToHandler
<1>3. CASE cmd \in RframeCmds
  <2>1. simx_rcv_rframe(f) /\ s = "RN"
    BY <1>1, <1>3, ToHandler DEF RframeCmds, PromptCmds, WframeCmds, SdframeCmds
  <2>2. Goto("CMD") /\ upcalls' = {}
    BY <1>1, <2>1 DEF simx_rcv_rframe
  <2> QED BY <1>3, <2>1, <2>2, GotoStays DEF AfterFirst, NoSend
<1>4. CASE cmd \in DframeCmds
  <2>1. simx_rcv_dframe(f) /\ s = "RN" /\ cmd \notin RframeCmds
    BY <1>1, <1>4, ToHandler DEF RframeCmds, DframeCmds, PromptCmds, WframeCmds, SdframeCmds
  <2>2. Goto("STATUS") /\ upcalls' = {}
    BY <1>1, <2>1 DEF simx_rcv_dframe
  <2> QED BY <1>4, <2>1, <2>2, GotoStays DEF AfterFirst, NoSend
<1>5. CASE cmd \in WframeCmds
  <2>1. simx_rcv_wframe(f) /\ cmd \notin RframeCmds /\ cmd \notin DframeCmds \cup MframeCmds
    BY <1>1, <1>5, ToHandler DEF RframeCmds, DframeCmds, MframeCmds, WframeCmds
  <2>2. /\ s = "RN" => Goto("MSG")
        /\ s = "MSG" => Goto("CMD")
        /\ upcalls' = {}
    BY <1>1, <2>1 DEF simx_rcv_wframe
  <2> QED BY <1>5, <2>1, <2>2, GotoStays DEF AfterFirst, NoSend
<1>6. CASE cmd \in MframeCmds
  <2>1. simx_rcv_mframe(f) /\ s = "RN" /\ cmd \notin RframeCmds
    BY <1>1, <1>6, ToHandler DEF RframeCmds, MframeCmds, PromptCmds, WframeCmds, SdframeCmds
  <2>2. Goto("STATUS") /\ upcalls' = {}
    BY <1>1, <2>1 DEF simx_rcv_mframe
  <2> QED BY <1>6, <2>1, <2>2, GotoStays DEF AfterFirst, NoSend
<1>7. CASE cmd \in IpframeCmds
  <2>1. /\ simx_rcv_ipframe(f) /\ s = "RN"
        /\ cmd \notin RframeCmds /\ cmd \notin DframeCmds \cup MframeCmds
    BY <1>1, <1>7, ToHandler
       DEF RframeCmds, DframeCmds, MframeCmds, IpframeCmds, PromptCmds, WframeCmds, SdframeCmds
  <2>2. Goto("MSG") /\ upcalls' = {}
    BY <1>1, <2>1 DEF simx_rcv_ipframe
  <2> QED BY <1>7, <2>1, <2>2, GotoStays DEF AfterFirst, NoSend
<1>8. CASE cmd \in SdframeCmds
  <2>1. /\ simx_rcv_sdframe(f) /\ cmd \notin WframeCmds
        /\ cmd \notin RframeCmds /\ cmd \notin DframeCmds \cup MframeCmds
    BY <1>1, <1>8, ToHandler DEF RframeCmds, DframeCmds, MframeCmds, WframeCmds, SdframeCmds
  <2>2. Goto("MSG") /\ upcalls' = {}
    <3>1. ~SendAnswer(f, "SEND OK") /\ ~SendAnswer(f, "SEND FAIL")
      BY <1>1 DEF SendAnswer, MatchesBehindPrefix
    <3> QED BY <1>1, <2>1, <3>1 DEF simx_rcv_sdframe
  <2> QED BY <1>8, <2>1, <2>2, GotoStays DEF AfterFirst, NoSend
<1> QED BY <1>2, <1>3, <1>4, <1>5, <1>6, <1>7, <1>8 DEF Cmds

\* The lines only the answer to a granted command has, but for the text of an SMS.
AnswerOnly == {"OK", "SHUT OK", "SEND OK", "CLOSE OK", "CONNECT", "CRLF", "PROMPT", "INFO", "STATE",
               "CLIENT", "IP", "CHAR"}

LEMMA EventTexts == \A t \in Events : t \notin AnswerOnly /\ t \in FrameTexts
  BY EventsAssumption DEF AnswerOnly

\* Any other line, an event or a refusal, ends a command that waits for the second
\* line of its answer: no handler takes it for a part of that.
LEMMA OtherEnds ==
  ASSUME TypeInv, is_receive = 0, NEW f \in Frame, f.text \notin AnswerOnly, simx_receive_msg(f),
         NEW s, state = AfterFirst(s), s = "RN" \/ (s = "MSG" /\ cmd \in PromptCmds)
  PROVE  is_receive' = 1
<1>1. f.text \notin AnswerOnly
  OBVIOUS
<1>2. CASE IsNotification(f)
  BY <1>2, NotificationEnds DEF EndsWith
<1>3. CASE ~IsNotification(f)
  <2>1. cmd \in Cmds
    BY <1>3, ToHandler
  <2>2. ~TwoBytes(f) /\ ~EchoMatches(cmd, f)
    BY <1>1 DEF TwoBytes, EchoMatches, AnswerOnly
  <2>3. CASE cmd \in RframeCmds
    <3>1. simx_rcv_rframe(f) /\ state = "CMD"
      BY <1>3, <2>3, ToHandler DEF AfterFirst, RframeCmds, PromptCmds, WframeCmds, SdframeCmds
    <3> QED BY <2>2, <3>1 DEF simx_rcv_rframe, simx_finished
  <2>4. CASE cmd \in DframeCmds
    <3>1. simx_rcv_dframe(f) /\ state = "STATUS"
      BY <1>3, <2>4, ToHandler
         DEF AfterFirst, RframeCmds, DframeCmds, PromptCmds, WframeCmds, SdframeCmds
    <3> QED BY <1>1, <3>1 DEF AnswerOnly, simx_rcv_dframe, simx_finished
  <2>5. CASE cmd \in WframeCmds
    <3>1. simx_rcv_wframe(f) /\ state \in {"MSG", "CMD"}
      BY <1>3, <2>5, ToHandler DEF AfterFirst, RframeCmds, DframeCmds, MframeCmds, WframeCmds
    <3> QED BY <1>1, <2>2, <3>1 DEF AnswerOnly, simx_rcv_wframe, simx_finished
  <2>6. CASE cmd \in MframeCmds
    <3>1. simx_rcv_mframe(f) /\ state = "STATUS"
      BY <1>3, <2>6, ToHandler
         DEF AfterFirst, RframeCmds, MframeCmds, PromptCmds, WframeCmds, SdframeCmds
    <3> QED BY <1>1, <3>1 DEF AnswerOnly, simx_rcv_mframe, simx_finished
  <2>7. CASE cmd \in IpframeCmds
    <3>1. simx_rcv_ipframe(f) /\ state = "MSG"
      BY <1>3, <2>7, ToHandler
         DEF AfterFirst, RframeCmds, DframeCmds, MframeCmds, IpframeCmds, WframeCmds
    <3> QED BY <1>1, <3>1 DEF AnswerOnly, simx_rcv_ipframe, simx_finished
  <2>8. CASE cmd \in SdframeCmds
    <3>1. simx_rcv_sdframe(f) /\ state = "MSG"
      BY <1>3, <2>8, ToHandler
         DEF AfterFirst, RframeCmds, DframeCmds, MframeCmds, SdframeCmds, WframeCmds
    <3> QED BY <1>1, <2>2, <3>1 DEF AnswerOnly, simx_rcv_sdframe, simx_finished
  <2> QED BY <2>1, <2>3, <2>4, <2>5, <2>6, <2>7, <2>8 DEF Cmds
<1> QED BY <1>2, <1>3

\* The state of the handler once it has k lines of an answer of n, k > 0.
StateAfter(k, n) ==
  IF k = 1 THEN AfterFirst("RN")
  ELSE IF cmd \in RframeCmds /\ k = n - 1 THEN "STATUS" ELSE "MSG"

LEMMA ReportReads ==
  ASSUME TypeInv, is_receive = 0, NEW a, NEW v \in Nat, IsReport(a, cmd, v),
         NEW k \in 1..3, state = StateAfter(k, 4), simx_receive_msg(a[k + 1])
  PROVE  IF k = 3 THEN EndsWith("OK") ELSE StaysIn(StateAfter(k + 1, 4))
<1>1. /\ cmd \in RframeCmds /\ cmd \in Cmds
      /\ a[2] = Report(cmd, v) /\ a[3] = Empty /\ a[4] = Line("OK")
  BY DEF IsReport, Cmds
<1>2. /\ a[k + 1] \in Frame /\ ~IsNotification(a[k + 1])
      /\ k = 1 => a[k + 1].text = "INFO" /\ a[k + 1].of = cmd
      /\ k = 2 => a[k + 1].text = "CRLF"
      /\ k = 3 => a[k + 1].text = "OK"
  <2>1. Report(cmd, v) \in Frame /\ Empty \in Frame /\ Line("OK") \in Frame
    BY <1>1, LineType, AnswerTexts DEF Empty
  <2>2. Report(cmd, v).text = "INFO" /\ Report(cmd, v).of = cmd
    BY DEF Report, InfoLine
  <2>3. Empty.text = "CRLF" /\ Line("OK").text = "OK"
    BY DEF Empty, Line
  <2>4. /\ k = 1 => a[k + 1] = Report(cmd, v)
        /\ k = 2 => a[k + 1] = Empty
        /\ k = 3 => a[k + 1] = Line("OK")
    BY <1>1
  <2>5. k = 1 \/ k = 2 \/ k = 3
    OBVIOUS
  <2>6. a[k + 1].text \in {"INFO", "CRLF", "OK"}
    BY <2>2, <2>3, <2>4, <2>5
  <2> QED BY <2>1, <2>2, <2>3, <2>4, <2>5, <2>6 DEF IsNotification, NotificationTexts
<1>3. simx_rcv_rframe(a[k + 1])
  BY <1>1, <1>2, ToHandler
<1>4. /\ k = 1 => state = "CMD"
      /\ k = 2 => state = "MSG"
      /\ k = 3 => state = "STATUS"
  BY <1>1 DEF StateAfter, AfterFirst
<1>5. CASE k = 1
  <2>1. Goto("MSG")
    BY <1>2, <1>3, <1>4, <1>5 DEF simx_rcv_rframe, EchoMatches
  <2> QED BY <1>5, <2>1, GotoStays DEF StateAfter
<1>6. CASE k = 2
  <2>1. Goto("STATUS")
    BY <1>2, <1>3, <1>4, <1>6 DEF simx_rcv_rframe, TwoBytes
  <2> QED BY <1>1, <1>6, <2>1, GotoStays DEF StateAfter
<1>7. CASE k = 3
  <2>1. simx_finished("OK")
    BY <1>2, <1>3, <1>4, <1>7 DEF simx_rcv_rframe
  <2> QED BY <1>7, <2>1, FinishedEnds
<1> QED BY <1>5, <1>6, <1>7

LEMMA SmsReads ==
  ASSUME TypeInv, is_receive = 0, NEW a, NEW v \in Nat, IsSms(a, cmd, v),
         NEW k \in 1..4, state = StateAfter(k, 5), simx_receive_msg(a[k + 1])
  PROVE  IF k = 4 THEN EndsWith("OK") ELSE StaysIn(StateAfter(k + 1, 5))
<1>1. /\ cmd \in RframeCmds /\ cmd \in Cmds
      /\ a[2] = Report(cmd, v) /\ a[3] = Saying("TEXT", v) /\ a[4] = Empty /\ a[5] = Line("OK")
  BY DEF IsSms, RframeCmds, Cmds
<1>2. /\ a[k + 1] \in Frame /\ ~IsNotification(a[k + 1])
      /\ k = 1 => a[k + 1].text = "INFO" /\ a[k + 1].of = cmd
      /\ k = 2 => a[k + 1].text = "TEXT"
      /\ k = 3 => a[k + 1].text = "CRLF"
      /\ k = 4 => a[k + 1].text = "OK"
  <2>1. /\ Report(cmd, v) \in Frame /\ Saying("TEXT", v) \in Frame /\ Empty \in Frame
        /\ Line("OK") \in Frame
    BY <1>1, LineType, AnswerTexts DEF Empty
  <2>2. Report(cmd, v).text = "INFO" /\ Report(cmd, v).of = cmd
    BY DEF Report, InfoLine
  <2>3. Empty.text = "CRLF" /\ Line("OK").text = "OK" /\ Saying("TEXT", v).text = "TEXT"
    BY DEF Empty, Line, Saying
  <2>4. /\ k = 1 => a[k + 1] = Report(cmd, v)
        /\ k = 2 => a[k + 1] = Saying("TEXT", v)
        /\ k = 3 => a[k + 1] = Empty
        /\ k = 4 => a[k + 1] = Line("OK")
    BY <1>1
  <2>5. k = 1 \/ k = 2 \/ k = 3 \/ k = 4
    OBVIOUS
  <2>6. a[k + 1].text \in {"INFO", "TEXT", "CRLF", "OK"}
    BY <2>2, <2>3, <2>4, <2>5
  <2> QED BY <2>1, <2>2, <2>3, <2>4, <2>5, <2>6 DEF IsNotification, NotificationTexts
<1>3. simx_rcv_rframe(a[k + 1])
  BY <1>1, <1>2, ToHandler
<1>4. /\ k = 1 => state = "CMD"
      /\ k \in {2, 3} => state = "MSG"
      /\ k = 4 => state = "STATUS"
  BY <1>1 DEF StateAfter, AfterFirst
<1>5. CASE k = 1
  <2>1. Goto("MSG")
    BY <1>2, <1>3, <1>4, <1>5 DEF simx_rcv_rframe, EchoMatches
  <2> QED BY <1>5, <2>1, GotoStays DEF StateAfter
<1>6. CASE k = 2
  <2>1. Goto("MSG")
    BY <1>2, <1>3, <1>4, <1>6 DEF simx_rcv_rframe, TwoBytes
  <2> QED BY <1>1, <1>6, <2>1, GotoStays DEF StateAfter
<1>7. CASE k = 3
  <2>1. Goto("STATUS")
    BY <1>2, <1>3, <1>4, <1>7 DEF simx_rcv_rframe, TwoBytes
  <2> QED BY <1>1, <1>7, <2>1, GotoStays DEF StateAfter
<1>8. CASE k = 4
  <2>1. simx_finished("OK")
    BY <1>2, <1>3, <1>4, <1>8 DEF simx_rcv_rframe
  <2> QED BY <1>8, <2>1, FinishedEnds
<1> QED BY <1>5, <1>6, <1>7, <1>8

LEMMA VerdictReads ==
  ASSUME TypeInv, is_receive = 0, NEW a, IsVerdict(a, cmd),
         state = AfterFirst("RN"), simx_receive_msg(a[2])
  PROVE  is_receive' = 1 /\ (mux = modem_mux => status'[reply] \in Success)
<1>1. cmd \in DframeCmds /\ cmd \notin RframeCmds
  BY DEF IsVerdict, DframeCmds, RframeCmds
<1>2. \/ a[2] = Line("OK") \/ a[2] = Line("SHUT OK") \/ a[2] = Line("CONNECT")
      \/ a[2] = Linked("CLOSE OK")
  BY DEF IsVerdict
<1>3. a[2] \in Frame /\ ~IsNotification(a[2]) /\ a[2].text \in {"OK", "SHUT OK", "CONNECT", "CLOSE OK"}
  <2>1. /\ Line("OK") \in Frame /\ Line("SHUT OK") \in Frame /\ Line("CONNECT") \in Frame
        /\ Linked("CLOSE OK") \in Frame
    BY LineType, AnswerTexts
  <2>2. /\ Line("OK").text = "OK" /\ Line("SHUT OK").text = "SHUT OK" /\ Line("CONNECT").text = "CONNECT"
        /\ Linked("CLOSE OK").text = "CLOSE OK"
    BY DEF Line, Linked, LinkLine
  <2> QED BY <1>2, <2>1, <2>2 DEF IsNotification, NotificationTexts
<1>4. simx_rcv_dframe(a[2]) /\ state = "STATUS"
  BY <1>1, <1>3, ToHandler DEF AfterFirst
<1>5. \E v : simx_finished(v)
  BY <1>3, <1>4, Zenon DEF simx_rcv_dframe, TwoBytes, StatusTexts
<1>6. is_receive' = 1
  BY <1>5 DEF simx_finished
<1>7. ASSUME mux = modem_mux PROVE status'[reply] \in Success
  <2>1. a[2].link = NoLink \/ (a[2].text = "CLOSE OK" /\ a[2].link # NoLink /\ mux # 0)
    <3>1. /\ Line("OK").link = NoLink /\ Line("SHUT OK").link = NoLink /\ Line("CONNECT").link = NoLink
          /\ Line("CLOSE OK").link = NoLink
      BY DEF Line
    <3>2. LinkLine("CLOSE OK", 1).link # NoLink /\ LinkLine("CLOSE OK", 1).text = "CLOSE OK"
      BY DEF LinkLine, NoLink
    <3>3. Linked("CLOSE OK") = IF mux # 0 THEN LinkLine("CLOSE OK", 1) ELSE Line("CLOSE OK")
      BY <1>7 DEF Linked
    <3> QED BY <1>2, <3>1, <3>2, <3>3
  <2>2. simx_finished(a[2].text)
    <3>1. a[2].text \in StatusTexts
      BY <1>3 DEF StatusTexts
    <3>2. CASE a[2].link = NoLink
      BY <1>3, <1>4, <3>1, <3>2 DEF simx_rcv_dframe, MatchesBehindPrefix
    <3>3. CASE a[2].text = "CLOSE OK" /\ a[2].link # NoLink /\ mux # 0
      BY <1>4, <3>3 DEF simx_rcv_dframe, MatchesBehindPrefix
    <3> QED BY <2>1, <3>2, <3>3
  <2> QED BY <1>3, <2>2, FinishedEnds DEF EndsWith, Success
<1> QED BY <1>6, <1>7

LEMMA PromptReads ==
  ASSUME TypeInv, is_receive = 0, NEW a, IsPrompt(a), cmd \in PromptCmds,
         state = AfterFirst("RN"), simx_receive_msg(a[2])
  PROVE  StaysIn("MSG") /\ ~NoSend
<1>1. a[2].text = "PROMPT" /\ a[2] \in Frame /\ ~IsNotification(a[2]) /\ TwoBytes(a[2])
  <2>1. Line("PROMPT") \in Frame /\ Line("PROMPT").text = "PROMPT"
    BY LineType, AnswerTexts DEF Line
  <2> QED BY <2>1 DEF IsPrompt, IsNotification, NotificationTexts, TwoBytes
<1>2. state = "MSG"
  BY DEF AfterFirst, PromptCmds, RframeCmds, DframeCmds, MframeCmds, WframeCmds, SdframeCmds
<1>3. Sent("text", NoLink).fn = "send" /\ SentPayload(user_data[reply]).fn = "send"
  BY DEF Sent, SentPayload
<1>4. CASE cmd \in WframeCmds
  <2>1. simx_rcv_wframe(a[2])
    BY <1>1, <1>4, ToHandler
  <2>2. Goto("MSG") /\ upcalls' = {Sent("text", NoLink)}
    BY <1>1, <1>2, <2>1 DEF simx_rcv_wframe
  <2> QED BY <1>3, <2>2, GotoStays DEF NoSend
<1>5. CASE cmd \in SdframeCmds
  <2>1. simx_rcv_sdframe(a[2])
    BY <1>1, <1>5, ToHandler
  <2>2. ~SendAnswer(a[2], "SEND OK") /\ ~SendAnswer(a[2], "SEND FAIL")
    BY <1>1 DEF SendAnswer, MatchesBehindPrefix
  <2>3. Goto("MSG") /\ upcalls' = {SentPayload(user_data[reply])}
    BY <1>1, <1>2, <2>1, <2>2 DEF simx_rcv_sdframe
  <2> QED BY <1>3, <2>3, GotoStays DEF NoSend
<1> QED BY <1>4, <1>5 DEF PromptCmds

LEMMA AddressReads ==
  ASSUME TypeInv, is_receive = 0, NEW a, NEW v \in Nat, IsAddress(a, cmd, v),
         state = AfterFirst("RN"), simx_receive_msg(a[2])
  PROVE  EndsWith("OK")
<1>1. Saying("IP", v) \in Frame /\ Saying("IP", v).text = "IP"
  BY LineType, AnswerTexts DEF Saying, Line
<1>2. a[2].text = "IP" /\ a[2] \in Frame /\ ~IsNotification(a[2]) /\ cmd \in IpframeCmds
  BY <1>1 DEF IsAddress, IsNotification, NotificationTexts
<1>3. simx_rcv_ipframe(a[2]) /\ state = "MSG"
  BY <1>2, ToHandler DEF AfterFirst, RframeCmds, DframeCmds, MframeCmds, WframeCmds, IpframeCmds
<1>4. simx_finished("OK")
  BY <1>2, <1>3 DEF simx_rcv_ipframe
<1> QED BY <1>4, FinishedEnds

\* The table ends with the STATE line if the driver takes multi-IP for off, else
\* with its seventh line, if it has that many.
LEMMA TableReads ==
  ASSUME TypeInv, is_receive = 0, NEW a, NEW v \in Nat, IsTable(a, cmd, v),
         NEW k \in 1..(Len(a) - 1), state = StateAfter(k, Len(a)), mux = 0 => k <= 3,
         simx_receive_msg(a[k + 1])
  PROVE  IF (k = 3 /\ mux = 0) \/ k = 6 THEN EndsWith("OK") ELSE StaysIn("MSG")
<1>1. /\ cmd = "CIPSTATUS" /\ cmd \in MframeCmds /\ Len(a) \in {5, 7}
      /\ cmd \notin RframeCmds /\ cmd \notin DframeCmds
  BY DEF IsTable, MframeCmds, RframeCmds, DframeCmds
<1>2. k \in 1..6 /\ (k > 4 => Len(a) = 7)
  BY <1>1
<1>3. /\ k = 1 => a[k + 1] = Line("OK")
      /\ k = 2 => a[k + 1] = Empty
      /\ k = 3 => a[k + 1] = Saying("STATE", v)
      /\ k = 4 => a[k + 1] = Empty
      /\ k = 5 => a[k + 1] = Row(0, v)
      /\ k = 6 => a[k + 1] = Row(7, v)
  BY <1>2 DEF IsTable
<1>4. /\ Line("OK").text = "OK" /\ Empty.text = "CRLF" /\ Saying("STATE", v).text = "STATE"
      /\ Row(0, v).text = "CLIENT" /\ Row(0, v).link = 0
      /\ Row(7, v).text = "CLIENT" /\ Row(7, v).link = 7
  BY DEF Line, Empty, Saying, Row, LinkLine
<1>5. /\ Line("OK") \in Frame /\ Empty \in Frame /\ Saying("STATE", v) \in Frame
      /\ Row(0, v) \in Frame /\ Row(7, v) \in Frame
  <2>1. 0 \in Link /\ 7 \in Link
    BY DEF Link
  <2> QED BY <2>1, LineType, AnswerTexts DEF Empty
<1>6. k = 1 \/ k = 2 \/ k = 3 \/ k = 4 \/ k = 5 \/ k = 6
  BY <1>2
<1>7. a[k + 1] \in Frame /\ a[k + 1].text \in {"OK", "CRLF", "STATE", "CLIENT"}
  BY <1>3, <1>4, <1>5, <1>6
<1>8. ~IsNotification(a[k + 1])
  BY <1>7 DEF IsNotification, NotificationTexts
<1>9. simx_rcv_mframe(a[k + 1])
  BY <1>1, <1>7, <1>8, ToHandler
<1>10. IF k = 1 THEN state = "STATUS" ELSE state = "MSG"
  BY <1>1 DEF StateAfter, AfterFirst
<1>11. CASE k = 1
  <2>1. state' = "MSG" /\ UNCHANGED is_receive
    BY <1>3, <1>4, <1>9, <1>10, <1>11 DEF simx_rcv_mframe
  <2> QED BY <1>11, <2>1 DEF StaysIn
<1>12. ASSUME k # 1
       PROVE  IF (k = 3 /\ mux = 0) \/ k = 6 THEN EndOfTable ELSE Goto("MSG")
  <2>1. _simx_current_connection_status_resp(a[k + 1])
    BY <1>9, <1>10, <1>12 DEF simx_rcv_mframe
  <2>2. a[k + 1].text = "STATE" <=> k = 3
    BY <1>3, <1>4, <1>6, <1>12
  <2>3. (a[k + 1].text = "CLIENT" /\ a[k + 1].link = 7) <=> k = 6
    BY <1>3, <1>4, <1>6, <1>12
  <2> QED BY <2>1, <2>2, <2>3 DEF _simx_current_connection_status_resp
<1>13. ASSUME k # 1, EndOfTable PROVE EndsWith("OK")
  <2>1. state = "MSG"
    BY <1>10, <1>13
  <2>2. status[reply] \in {"OK", "BUSY"} /\ status[reply] # "BUSY"
    BY <1>1, <2>1 DEF TypeInv, IInv, WorkerWaits, NoEarlyVerdict, InFlight
  <2> QED BY <1>13, <2>2 DEF EndOfTable, EndsWith
<1> QED BY <1>11, <1>12, <1>13, GotoStays

\* The answer to a text that has been sent, k of its lines behind the driver.
StateAfterText(k) ==
  IF cmd \in WframeCmds THEN IF k = 3 THEN "STATUS" ELSE "CMD" ELSE "MSG"

LEMMA TextReads ==
  ASSUME TypeInv, is_receive = 0, NEW a, LastAnswer(a, cmd),
         NEW k \in 1..(Len(a) - 1), state = StateAfterText(k), simx_receive_msg(a[k + 1])
  PROVE  \/ StaysIn(StateAfterText(k + 1)) /\ k + 1 < Len(a)
         \/ /\ is_receive' = 1 /\ k + 1 = Len(a)
            /\ mux = modem_mux /\ a[k + 1].text \notin Refusals \cup {"SEND FAIL"} =>
                 status'[reply] \in Success
<1>1. CASE cmd \in WframeCmds /\ IsRefusal(a)
  <2>1. k = 1 /\ k + 1 = Len(a) /\ k + 1 = 2
    <3>1. Len(a) = 2
      BY <1>1 DEF IsRefusal
    <3> QED BY <3>1
  <2>2. a[k + 1] \in Frame /\ a[k + 1].text \in Refusals /\ a[k + 1].text \notin AnswerOnly
    BY <1>1, <2>1, RefusalLine DEF Refusals, AnswerOnly
  <2>3. state = AfterFirst("MSG") /\ cmd \in PromptCmds
    BY <1>1, <2>1 DEF StateAfterText, AfterFirst, PromptCmds
  <2>4. is_receive' = 1
    BY <2>1, <2>2, <2>3, OtherEnds
  <2> QED BY <2>1, <2>2, <2>4
<1>2. CASE /\ cmd \in WframeCmds /\ Len(a) = 4
           /\ a[2] = InfoLine(cmd) /\ a[3] = Empty /\ a[4] = Line("OK")
  <2>1. cmd \in Cmds
    BY <1>2 DEF Cmds
  <2>2. /\ k = 1 => a[k + 1] = InfoLine(cmd)
        /\ k = 2 => a[k + 1] = Empty
        /\ k = 3 => a[k + 1] = Line("OK")
    BY <1>2
  <2>3. /\ InfoLine(cmd).text = "INFO" /\ InfoLine(cmd).of = cmd
        /\ Empty.text = "CRLF" /\ Line("OK").text = "OK"
    BY DEF InfoLine, Empty, Line
  <2>4. k = 1 \/ k = 2 \/ k = 3
    BY <1>2
  <2>5. InfoLine(cmd) \in Frame /\ Empty \in Frame /\ Line("OK") \in Frame
    BY <2>1, LineType, AnswerTexts DEF Empty
  <2>6. a[k + 1] \in Frame /\ a[k + 1].text \in {"INFO", "CRLF", "OK"}
    BY <2>2, <2>3, <2>4, <2>5
  <2>7. simx_rcv_wframe(a[k + 1])
    BY <1>2, <2>6, ToHandler DEF IsNotification, NotificationTexts
  <2>8. state = IF k = 3 THEN "STATUS" ELSE "CMD"
    BY <1>2 DEF StateAfterText
  <2>9. CASE k = 1
    <3>1. EchoMatches(cmd, a[k + 1])
      BY <2>2, <2>3, <2>9 DEF EchoMatches
    <3>2. Goto("CMD")
      BY <2>2, <2>3, <2>7, <2>8, <2>9, <3>1 DEF simx_rcv_wframe
    <3> QED BY <1>2, <2>9, <3>2, GotoStays DEF StateAfterText
  <2>10. CASE k = 2
    <3>1. Goto("STATUS")
      BY <2>2, <2>3, <2>7, <2>8, <2>10 DEF simx_rcv_wframe, EchoMatches
    <3> QED BY <1>2, <2>10, <3>1, GotoStays DEF StateAfterText
  <2>11. CASE k = 3
    <3>1. simx_finished("OK")
      BY <2>2, <2>3, <2>7, <2>8, <2>11 DEF simx_rcv_wframe
    <3>2. EndsWith("OK") /\ k + 1 = Len(a)
      BY <1>2, <2>11, <3>1, FinishedEnds
    <3> QED BY <3>2 DEF EndsWith, Success
  <2> QED BY <2>4, <2>9, <2>10, <2>11
<1>3. CASE /\ cmd \in SdframeCmds /\ Len(a) = 2
           /\ a[2] \in {Linked("SEND OK"), Linked("SEND FAIL")}
  <2>1. k = 1 /\ k + 1 = 2 /\ k + 1 = Len(a)
    <3>1. Len(a) = 2
      BY <1>3
    <3> QED BY <3>1
  <2>2. /\ Linked("SEND OK").text = "SEND OK" /\ Linked("SEND FAIL").text = "SEND FAIL"
        /\ Linked("SEND OK") \in Frame /\ Linked("SEND FAIL") \in Frame
    BY LineType, AnswerTexts DEF Linked, LinkLine, Line
  <2>3. a[2] \in Frame /\ a[2].text \in {"SEND OK", "SEND FAIL"} /\ ~IsNotification(a[2])
    BY <1>3, <2>2 DEF IsNotification, NotificationTexts
  <2>4. simx_rcv_sdframe(a[2]) /\ state = "MSG"
    BY <1>3, <2>1, <2>3, ToHandler DEF StateAfterText, WframeCmds, SdframeCmds
  <2>5. \E v : simx_finished(v)
    BY <2>3, <2>4, Zenon DEF simx_rcv_sdframe, TwoBytes
  <2>6. is_receive' = 1
    BY <2>5 DEF simx_finished
  <2>7. ASSUME mux = modem_mux, a[2].text # "SEND FAIL" PROVE status'[reply] \in Success
    <3>1. a[2] = Linked("SEND OK") /\ a[2].text = "SEND OK"
      BY <1>3, <2>2, <2>7
    <3>2. IF mux = 0 THEN a[2].link = NoLink ELSE a[2].link # NoLink
      <4>1. Line("SEND OK").link = NoLink /\ LinkLine("SEND OK", 1).link # NoLink
        BY DEF Line, LinkLine, NoLink
      <4>2. a[2] = IF mux # 0 THEN LinkLine("SEND OK", 1) ELSE Line("SEND OK")
        BY <2>7, <3>1 DEF Linked
      <4> QED BY <4>1, <4>2
    <3>3. SendAnswer(a[2], "SEND OK")
      BY <3>1, <3>2 DEF SendAnswer, MatchesBehindPrefix
    <3>4. simx_finished("SEND OK")
      BY <2>3, <2>4, <3>1, <3>3 DEF simx_rcv_sdframe
    <3> QED BY <3>4, FinishedEnds DEF EndsWith, Success
  <2> QED BY <2>1, <2>6, <2>7
<1> QED BY <1>1, <1>2, <1>3, Zenon DEF LastAnswer

LEMMA RefusalReads ==
  ASSUME TypeInv, is_receive = 0, NEW a, IsRefusal(a),
         state = AfterFirst("RN"), simx_receive_msg(a[2])
  PROVE  is_receive' = 1 /\ a[2].text \in Refusals
<1>1. a[2] \in Frame /\ a[2].text \in Refusals /\ a[2].text \notin AnswerOnly
  BY RefusalLine DEF Refusals, AnswerOnly
<1> QED BY <1>1, OtherEnds

\* The next line of the first answer: the handler goes on to the state the line
\* behind it is for; or it has sent the text; or the command has ended with the
\* last line, and badly only if that is a refusal; or it is CIPSTATUS, which ends
\* with STATE if the driver takes multi-IP for off, and has no end if it takes it
\* for on and the modem does not.
LEMMA FirstReads ==
  ASSUME TypeInv, is_receive = 0, NEW a, NEW v \in Nat, FirstAnswer(a, cmd, v),
         NEW k \in 1..(Len(a) - 1), state = StateAfter(k, Len(a)),
         cmd = "CIPSTATUS" /\ mux = 0 => k <= 3, simx_receive_msg(a[k + 1])
  PROVE  \/ /\ StaysIn(StateAfter(k + 1, Len(a))) /\ k + 1 < Len(a)
            /\ cmd = "CIPSTATUS" /\ mux = 0 => k + 1 <= 3
         \/ StaysIn("MSG") /\ k + 1 = Len(a) /\ IsPrompt(a) /\ cmd \in PromptCmds /\ ~NoSend
         \/ StaysIn("MSG") /\ k + 1 = Len(a) /\ ~IsPrompt(a) /\ cmd = "CIPSTATUS" /\ mux # 0
         \/ /\ is_receive' = 1 /\ k + 1 = Len(a) /\ ~IsPrompt(a)
            /\ mux = modem_mux /\ a[k + 1].text \notin Refusals => status'[reply] \in Success
         \/ EndsWith("OK") /\ k = 3 /\ mux = 0 /\ IsTable(a, cmd, v) /\ ~IsPrompt(a)
<1>1. \A t \in {"ERROR", "NO CARRIER", "OK", "SHUT OK", "CONNECT"} : Line(t) # Line("PROMPT")
  BY DEF Line
<1>2. Linked("CLOSE OK") # Line("PROMPT") /\ Saying("IP", v) # Line("PROMPT")
  <2>1. Linked("CLOSE OK").text = "CLOSE OK" /\ Saying("IP", v).text = "IP" /\ Line("PROMPT").text = "PROMPT"
    BY DEF Linked, LinkLine, Line, Saying
  <2> QED BY <2>1
<1>3. ASSUME Len(a) = 2 PROVE k = 1 /\ k + 1 = 2 /\ k + 1 = Len(a) /\ state = AfterFirst("RN")
  BY <1>3 DEF StateAfter
<1>4. CASE IsRefusal(a)
  <2>1. k + 1 = 2 /\ k + 1 = Len(a) /\ state = AfterFirst("RN") /\ ~IsPrompt(a)
    BY <1>1, <1>3, <1>4 DEF IsRefusal, IsPrompt
  <2> QED BY <1>4, <2>1, RefusalReads
<1>5. CASE IsReport(a, cmd, v)
  <2>1. Len(a) = 4 /\ k \in 1..3 /\ cmd # "CIPSTATUS" /\ ~IsPrompt(a)
    BY <1>5 DEF IsReport, IsPrompt, RframeCmds
  <2>2. IF k = 3 THEN EndsWith("OK") ELSE StaysIn(StateAfter(k + 1, 4))
    BY <1>5, <2>1, ReportReads
  <2>3. CASE k = 3
    <3>1. is_receive' = 1 /\ status'[reply] \in Success
      BY <2>2, <2>3 DEF EndsWith, Success
    <3>2. k + 1 = Len(a)
      BY <2>1, <2>3
    <3> QED BY <2>1, <3>1, <3>2
  <2>4. CASE k # 3
    <3>1. StaysIn(StateAfter(k + 1, Len(a))) /\ k + 1 < Len(a)
      BY <2>1, <2>2, <2>4
    <3> QED BY <2>1, <3>1
  <2> QED BY <2>3, <2>4
<1>6. CASE IsSms(a, cmd, v)
  <2>1. Len(a) = 5 /\ k \in 1..4 /\ cmd # "CIPSTATUS" /\ ~IsPrompt(a)
    BY <1>6 DEF IsSms, IsPrompt
  <2>2. IF k = 4 THEN EndsWith("OK") ELSE StaysIn(StateAfter(k + 1, 5))
    BY <1>6, <2>1, SmsReads
  <2>3. CASE k = 4
    <3>1. is_receive' = 1 /\ status'[reply] \in Success
      BY <2>2, <2>3 DEF EndsWith, Success
    <3>2. k + 1 = Len(a)
      BY <2>1, <2>3
    <3> QED BY <2>1, <3>1, <3>2
  <2>4. CASE k # 4
    <3>1. StaysIn(StateAfter(k + 1, Len(a))) /\ k + 1 < Len(a)
      BY <2>1, <2>2, <2>4
    <3> QED BY <2>1, <3>1
  <2> QED BY <2>3, <2>4
<1>7. CASE IsVerdict(a, cmd)
  <2>1. k + 1 = 2 /\ k + 1 = Len(a) /\ state = AfterFirst("RN")
    BY <1>3, <1>7 DEF IsVerdict
  <2>2. ~IsPrompt(a)
    BY <1>1, <1>2, <1>7 DEF IsVerdict, IsPrompt
  <2> QED BY <1>7, <2>1, <2>2, VerdictReads
<1>8. CASE cmd \in PromptCmds /\ IsPrompt(a)
  <2>1. k + 1 = 2 /\ k + 1 = Len(a) /\ state = AfterFirst("RN")
    BY <1>3, <1>8 DEF IsPrompt
  <2> QED BY <1>8, <2>1, PromptReads
<1>9. CASE IsAddress(a, cmd, v)
  <2>1. k + 1 = 2 /\ k + 1 = Len(a) /\ state = AfterFirst("RN")
    BY <1>3, <1>9 DEF IsAddress
  <2>2. ~IsPrompt(a)
    BY <1>2, <1>9 DEF IsAddress, IsPrompt
  <2>3. EndsWith("OK")
    BY <1>9, <2>1, AddressReads
  <2> QED BY <2>1, <2>2, <2>3 DEF EndsWith, Success
<1>10. CASE IsTable(a, cmd, v)
  <2>1. Len(a) \in {5, 7} /\ cmd = "CIPSTATUS" /\ ~IsPrompt(a) /\ cmd \notin RframeCmds
    BY <1>10 DEF IsTable, IsPrompt, RframeCmds
  <2>2. IF (k = 3 /\ mux = 0) \/ k = 6 THEN EndsWith("OK") ELSE StaysIn("MSG")
    BY <1>10, <2>1, TableReads
  <2>3. StateAfter(k + 1, Len(a)) = "MSG"
    BY <2>1 DEF StateAfter
  <2>4. CASE k = 3 /\ mux = 0
    BY <1>10, <2>1, <2>2, <2>4
  <2>5. CASE k = 6
    <3>1. k + 1 = Len(a) /\ EndsWith("OK")
      BY <2>1, <2>2, <2>5
    <3> QED BY <2>1, <3>1 DEF EndsWith, Success
  <2>6. CASE ~(k = 3 /\ mux = 0) /\ k # 6
    <3>1. StaysIn("MSG")
      BY <2>2, <2>6
    <3>2. k + 1 < Len(a) \/ k + 1 = Len(a)
      BY <2>1
    <3>3. mux = 0 => k + 1 <= 3
      BY <2>1, <2>6
    <3>4. mux = 0 => k + 1 < Len(a)
      BY <2>1, <3>3
    <3> QED BY <2>1, <2>3, <3>1, <3>2, <3>3, <3>4
  <2> QED BY <2>4, <2>5, <2>6
<1> QED BY <1>4, <1>5, <1>6, <1>7, <1>8, <1>9, <1>10, Zenon DEF FirstAnswer

\* No line that is not the end of a granted command's answer ends one well.
LEMMA NoFalseSuccess ==
  ASSUME TypeInv, is_receive = 0, NEW f \in Frame, simx_receive_msg(f),
         f.text \notin Success \cup {"CHAR", "STATE", "IP"},
         f.text = "CLIENT" => ~(cmd = "CIPSTATUS" /\ state = "MSG"), is_receive' = 1
  PROVE  status'[reply] \notin Success
<1>1. CASE IsNotification(f)
  <2>1. EndsWith("ERROR")
    BY <1>1, NotificationEnds
  <2> QED BY <2>1 DEF EndsWith, Success
<1>2. CASE ~IsNotification(f)
  <2>0. cmd \in Cmds
    BY <1>2, ToHandler
  <2>1. SUFFICES \E v : simx_finished(v) /\ v \notin Success
    BY FinishedEnds DEF EndsWith
  <2>2. ~MatchesBehindPrefix(f, "CLOSE OK") /\ ~SendAnswer(f, "SEND OK")
    BY DEF MatchesBehindPrefix, SendAnswer, Success
  <2>3. f.text \notin Success /\ "ERRFRAME" \notin Success /\ "ERROR" \notin Success
        /\ "SEND FAIL" \notin Success
    BY DEF Success
  <2>4. \A s : ~Goto(s)
    BY DEF Goto
  <2>5. CASE cmd \in RframeCmds
    <3>1. simx_rcv_rframe(f)
      BY <1>2, <2>5, ToHandler
    <3>2. simx_finished("ERRFRAME") \/ (f.text \in {"OK", "ERROR"} /\ simx_finished(f.text))
      BY <2>4, <3>1, Zenon DEF simx_rcv_rframe
    <3> QED BY <2>3, <3>2
  <2>6. CASE cmd \in DframeCmds
    <3>1. simx_rcv_dframe(f)
      BY <1>2, <2>6, ToHandler
    <3>2. simx_finished("ERRFRAME") \/ simx_finished(f.text)
      BY <2>2, <2>4, <3>1, Zenon DEF simx_rcv_dframe
    <3> QED BY <2>3, <3>2
  <2>7. CASE cmd \in WframeCmds
    <3>1. simx_rcv_wframe(f)
      BY <1>2, <2>7, ToHandler
    <3>2. simx_finished("ERRFRAME") \/ simx_finished(f.text)
      BY <2>4, <3>1, Zenon DEF simx_rcv_wframe
    <3> QED BY <2>3, <3>2
  <2>8. CASE cmd \in MframeCmds
    <3>1. simx_rcv_mframe(f) /\ cmd = "CIPSTATUS"
      BY <1>2, <2>8, ToHandler DEF MframeCmds
    <3>2. state = "MSG" => ~_simx_current_connection_status_resp(f)
      BY <2>4, <3>1 DEF _simx_current_connection_status_resp
    <3>3. simx_finished("ERRFRAME") \/ simx_finished("ERROR") \/ f.text = "OK"
      BY <2>4, <3>1, <3>2, Zenon DEF simx_rcv_mframe
    <3> QED BY <2>3, <3>3 DEF Success
  <2>9. CASE cmd \in IpframeCmds
    <3>1. simx_rcv_ipframe(f)
      BY <1>2, <2>9, ToHandler
    <3>2. simx_finished("ERRFRAME") \/ f.text = "IP"
      BY <2>4, <3>1, Zenon DEF simx_rcv_ipframe
    <3> QED BY <2>3, <3>2
  <2>10. CASE cmd \in SdframeCmds
    <3>1. simx_rcv_sdframe(f)
      BY <1>2, <2>10, ToHandler
    <3>2. simx_finished("ERRFRAME") \/ simx_finished("SEND FAIL")
      BY <2>2, <2>4, <3>1, Zenon DEF simx_rcv_sdframe
    <3> QED BY <2>3, <3>2
  <2> QED BY <2>0, <2>5, <2>6, <2>7, <2>8, <2>9, <2>10 DEF Cmds
<1> QED BY <1>1, <1>2

\* CIPSTATUS waits for its table only behind an OK.
LEMMA TableBehindOk ==
  ASSUME TypeInv, is_receive = 0, NEW f \in Frame, simx_receive_msg(f),
         cmd = "CIPSTATUS", is_receive' = 0, state' = "MSG"
  PROVE  state = "MSG" \/ f.text = "OK"
<1>1. ~IsNotification(f)
  BY NotificationEnds DEF EndsWith
<1>2. simx_rcv_mframe(f)
  BY <1>1, ToHandler DEF MframeCmds
<1> QED BY <1>2 DEF simx_rcv_mframe, Goto, simx_finished

-----------------------------------------------------------------------------
(* Where the answer to the command in flight is.                           *)

OnlyEvents(w) == \A i \in 1..Len(w) : w[i].whose = "event"

\* An event is an empty line and the one that says what has happened.
EventPairs(w) ==
  /\ \A i \in 1..Len(w) : w[i].whose = "event" => w[i].f = Empty \/ w[i].f.text \in Events
  /\ \A i \in 1..Len(w) : w[i].whose = "event" /\ w[i].f = Empty =>
       i < Len(w) /\ w[i + 1].whose = "event" /\ w[i + 1].f.text \in Events
  /\ \A i \in 1..(Len(w) - 1) : w[i].whose # "event" /\ w[i + 1].whose = "event" => w[i + 1].f = Empty

\* Behind p lines of events w has answer a, but for its first k lines, and then
\* events only.
Behind(w, a, k, p) ==
  /\ k \in 0..Len(a) /\ p \in Nat /\ p + (Len(a) - k) <= Len(w)
  /\ \A i \in 1..Len(w) :
       IF p < i /\ i <= p + (Len(a) - k) THEN w[i] = [f |-> a[i - p + k], whose |-> "own"]
       ELSE w[i].whose = "event"

\* No event begins w, or all of one does.
Whole(w) == Len(w) > 0 /\ w[1].whose = "event" => w[1].f = Empty

\* The handler waits for the empty line an answer begins with, in state s; or it
\* has taken that of an event for it, and the rest of the event is next.
Fresh(s) ==
  \/ state = s /\ Whole(wire)
  \/ state = AfterFirst(s) /\ ~Whole(wire)

\* The command has not reached the modem.
Asked ==
  /\ Len(pending) = 1 /\ pending[1].whose = "own" /\ prompting = <<>>
  /\ OnlyEvents(wire) /\ Fresh("RN")

\* The modem has answered it, up to its prompt if it has one.
Answering(a, k, p) ==
  /\ FirstAnswer(a, cmd, said) /\ Behind(wire, a, k, p)
  /\ pending = <<>>
  /\ IF IsPrompt(a) THEN Len(prompting) = 1 /\ prompting[1].whose = "own" ELSE prompting = <<>>
  /\ \/ k = 0 /\ Fresh("RN")
     \/ /\ k > 0 /\ k < Len(a) /\ p = 0 /\ state = StateAfter(k, Len(a))
        /\ cmd = "CIPSTATUS" /\ mux = 0 => k <= 3
     \/ k = Len(a) /\ ~IsPrompt(a) /\ cmd = "CIPSTATUS" /\ mux # 0 /\ state = "MSG"

\* The modem has got the text it prompted for, and answered that.
Completing(a, k, p) ==
  /\ LastAnswer(a, cmd) /\ Behind(wire, a, k, p)
  /\ pending = <<>> /\ prompting = <<>>
  /\ \/ k = 0 /\ Fresh("MSG")
     \/ k > 0 /\ k < Len(a) /\ p = 0 /\ state = StateAfterText(k)

\* No command is in flight, and the last one has left at most what follows the
\* line CIPSTATUS ends with when multi-IP is off, or taken for off.
Resting ==
  /\ pending = <<>> /\ prompting = <<>>
  /\ \A i \in 1..Len(wire) :
       \/ wire[i].whose = "event"
       \/ /\ wire[i].whose = "own" /\ cmd = "CIPSTATUS"
          /\ wire[i].f = Empty \/ (doubt /\ wire[i].f.text = "CLIENT")

\* The command was sent behind what the last one has left: that comes first, and
\* nothing in it looks like the end of an answer.
Mixed ==
  /\ \A i \in 1..Len(pending) : pending[i].whose = "own"
  /\ \A i \in 1..Len(prompting) : prompting[i].whose = "own"
  /\ \A i \in 1..Len(wire) : wire[i].whose = "old" => wire[i].f.text \in {"CRLF", "CLIENT"}
  /\ \A i, j \in 1..Len(wire) : i < j /\ wire[i].whose = "own" => wire[j].whose # "old"
  /\ cmd = "CIPSTATUS" /\ state = "MSG" => \A i \in 1..Len(wire) : wire[i].whose # "old"

InStep ==
  IF ~InFlight THEN quiet /\ Resting
  ELSE IF ~quiet THEN Mixed
  ELSE \/ Asked
       \/ \E a, k, p : Answering(a, k, p)
       \/ \E a, k, p : Completing(a, k, p)

\* As long as every command since the line was last quiet has ended with its own
\* answer, the driver knows whose the lines are.
AnsInv == EventPairs(wire) /\ (~cut => InStep)

-----------------------------------------------------------------------------
(* Lines come and go.                                                      *)

Dropped(z, w) ==
  /\ Len(w) \in Nat /\ Len(w) >= 1 /\ Len(z) = Len(w) - 1
  /\ \A i \in 1..Len(z) : z[i] = w[i + 1]

\* Without its first line, an event.
LEMMA DropEvent ==
  ASSUME NEW z, NEW w, NEW a, NEW k, NEW p, Dropped(z, w), Behind(w, a, k, p), Len(a) \in Nat,
         w[1].whose = "event"
  PROVE  \E q \in Nat : Behind(z, a, k, q)
<1>1. /\ Len(w) \in Nat /\ Len(w) >= 1 /\ Len(z) = Len(w) - 1
      /\ \A i \in 1..Len(z) : z[i] = w[i + 1] /\ i + 1 \in 1..Len(w)
  BY DEF Dropped
<1>2. k \in 0..Len(a) /\ p \in Nat /\ p + (Len(a) - k) <= Len(w) /\ Len(a) - k \in Nat
  BY DEF Behind
<1>3. \A i \in 1..Len(w) :
        IF p < i /\ i <= p + (Len(a) - k) THEN w[i] = [f |-> a[i - p + k], whose |-> "own"]
        ELSE w[i].whose = "event"
  BY DEF Behind
<1>4. p > 0 \/ k = Len(a)
  <2>1. (1 \in 1..Len(w) /\ ~(0 < 1 /\ 1 <= 0 + (Len(a) - k))) \/ p # 0
    <3>1. ASSUME p = 0, 1 <= 0 + (Len(a) - k) PROVE FALSE
      <4>1. 1 \in 1..Len(w) /\ p < 1 /\ 1 <= p + (Len(a) - k)
        BY <1>1, <3>1
      <4>2. w[1] = [f |-> a[1 - p + k], whose |-> "own"]
        BY <1>3, <4>1
      <4> QED BY <4>2
    <3> QED BY <1>1, <3>1
  <2> QED BY <1>2, <2>1
<1>5. CASE p > 0
  <2> DEFINE q == p - 1
  <2>1. q \in Nat /\ q + (Len(a) - k) <= Len(z)
    BY <1>1, <1>2, <1>5
  <2>2. ASSUME NEW i \in 1..Len(z)
        PROVE  IF q < i /\ i <= q + (Len(a) - k) THEN z[i] = [f |-> a[i - q + k], whose |-> "own"]
               ELSE z[i].whose = "event"
    <3>1. /\ (q < i <=> p < i + 1) /\ (i <= q + (Len(a) - k) <=> i + 1 <= p + (Len(a) - k))
          /\ i - q + k = (i + 1) - p + k
      BY <1>1, <1>2
    <3> HIDE DEF q
    <3> QED BY <1>1, <1>3, <3>1
  <2> QED BY <1>2, <2>1, <2>2 DEF Behind
<1>6. CASE k = Len(a)
  <2>1. \A i \in 1..Len(w) : ~(p < i /\ i <= p + (Len(a) - k))
    BY <1>1, <1>2, <1>6
  <2>2. \A i \in 1..Len(z) : z[i].whose = "event"
    BY <1>1, <1>3, <2>1
  <2>3. \A i \in 1..Len(z) : ~(0 < i /\ i <= 0 + (Len(a) - k))
    BY <1>1, <1>6
  <2>4. 0 \in Nat /\ 0 + (Len(a) - k) <= Len(z)
    BY <1>1, <1>6
  <2> QED BY <1>2, <2>2, <2>3, <2>4 DEF Behind
<1> QED BY <1>4, <1>5, <1>6

\* Without its first line, none.
LEMMA DropOwn ==
  ASSUME NEW z, NEW w, NEW a, NEW k, NEW p, Dropped(z, w), Behind(w, a, k, p), Len(a) \in Nat,
         w[1].whose # "event"
  PROVE  /\ p = 0 /\ k \in Nat /\ k < Len(a) /\ w[1] = [f |-> a[k + 1], whose |-> "own"]
         /\ Behind(z, a, k + 1, 0)
<1>1. /\ Len(w) \in Nat /\ Len(w) >= 1 /\ Len(z) = Len(w) - 1 /\ 1 \in 1..Len(w)
      /\ \A i \in 1..Len(z) : z[i] = w[i + 1] /\ i + 1 \in 1..Len(w)
  BY DEF Dropped
<1>2. k \in 0..Len(a) /\ p \in Nat /\ p + (Len(a) - k) <= Len(w)
  BY DEF Behind
<1>3. \A i \in 1..Len(w) :
        IF p < i /\ i <= p + (Len(a) - k) THEN w[i] = [f |-> a[i - p + k], whose |-> "own"]
        ELSE w[i].whose = "event"
  BY DEF Behind
<1>4. p < 1 /\ 1 <= p + (Len(a) - k) /\ w[1] = [f |-> a[1 - p + k], whose |-> "own"]
  BY <1>1, <1>3
<1>5. p = 0 /\ k < Len(a) /\ k \in Nat /\ 1 - p + k = k + 1
  BY <1>2, <1>4
<1>6. k + 1 \in 0..Len(a) /\ 0 \in Nat /\ 0 + (Len(a) - (k + 1)) <= Len(z)
  BY <1>1, <1>2, <1>5
<1>7. ASSUME NEW i \in 1..Len(z)
      PROVE  IF 0 < i /\ i <= 0 + (Len(a) - (k + 1))
             THEN z[i] = [f |-> a[i - 0 + (k + 1)], whose |-> "own"] ELSE z[i].whose = "event"
  <2>1. /\ 0 < i /\ p < i + 1
        /\ (i <= 0 + (Len(a) - (k + 1)) <=> i + 1 <= p + (Len(a) - k))
        /\ i - 0 + (k + 1) = (i + 1) - p + k
    BY <1>1, <1>2, <1>5
  <2> QED BY <1>1, <1>3, <2>1
<1> QED BY <1>4, <1>5, <1>6, <1>7 DEF Behind

\* Events stay in pairs, and a line that is none of them is behind whole ones.
LEMMA DropPairs ==
  ASSUME NEW z, NEW w, Dropped(z, w), EventPairs(w)
  PROVE  /\ EventPairs(z)
         /\ w[1].whose # "event" => Whole(z)
         /\ w[1].whose = "event" /\ w[1].f = Empty => ~Whole(z)
         /\ w[1].whose = "event" => w[1].f = Empty \/ w[1].f.text \in Events
<1>1. /\ Len(w) \in Nat /\ Len(w) >= 1 /\ Len(z) = Len(w) - 1 /\ 1 \in 1..Len(w)
      /\ \A i \in 1..Len(z) : z[i] = w[i + 1] /\ i + 1 \in 1..Len(w)
  BY DEF Dropped
<1>2. EventPairs(z)
  <2>1. \A i \in 1..Len(z) : z[i].whose = "event" => z[i].f = Empty \/ z[i].f.text \in Events
    BY <1>1 DEF EventPairs
  <2>2. ASSUME NEW i \in 1..Len(z), z[i].whose = "event", z[i].f = Empty
        PROVE  i < Len(z) /\ z[i + 1].whose = "event" /\ z[i + 1].f.text \in Events
    <3>1. i + 1 < Len(w) /\ w[i + 1 + 1].whose = "event" /\ w[i + 1 + 1].f.text \in Events
      BY <1>1, <2>2 DEF EventPairs
    <3>2. i < Len(z) /\ i + 1 \in 1..Len(z)
      BY <1>1, <3>1
    <3> QED BY <1>1, <3>1, <3>2
  <2>3. ASSUME NEW i \in 1..(Len(z) - 1), z[i].whose # "event", z[i + 1].whose = "event"
        PROVE  z[i + 1].f = Empty
    <3>1. i \in 1..Len(z) /\ i + 1 \in 1..Len(z) /\ i + 1 \in 1..(Len(w) - 1)
      BY <1>1
    <3>2. z[i] = w[i + 1] /\ z[i + 1] = w[i + 1 + 1]
      BY <1>1, <3>1
    <3> QED BY <2>3, <3>1, <3>2 DEF EventPairs
  <2> QED BY <2>1, <2>2, <2>3 DEF EventPairs
<1>3. ASSUME w[1].whose # "event", Len(z) > 0, z[1].whose = "event" PROVE z[1].f = Empty
  <2>1. 1 \in 1..(Len(w) - 1) /\ 1 \in 1..Len(z) /\ 1 + 1 = 2
    BY <1>1, <1>3
  <2>2. z[1] = w[1 + 1]
    BY <1>1, <2>1
  <2> QED BY <1>3, <2>1, <2>2 DEF EventPairs
<1>4. ASSUME w[1].whose = "event", w[1].f = Empty PROVE ~Whole(z)
  <2>1. 1 < Len(w) /\ w[1 + 1].whose = "event" /\ w[1 + 1].f.text \in Events
    BY <1>1, <1>4 DEF EventPairs
  <2>2. 1 \in 1..Len(z) /\ Len(z) > 0
    BY <1>1, <2>1
  <2>3. z[1].whose = "event" /\ z[1].f.text \in Events
    BY <1>1, <2>1, <2>2
  <2>4. Empty.text \notin Events
    BY EventTexts DEF Empty, Line, AnswerOnly
  <2>5. z[1].f # Empty
    BY <2>3, <2>4
  <2> QED BY <2>2, <2>3, <2>5 DEF Whole
<1> QED BY <1>1, <1>2, <1>3, <1>4 DEF EventPairs, Whole

\* An answer is written behind events.
LEMMA WriteAnswer ==
  ASSUME NEW z, NEW w, NEW a, Written(z, w, a, "own"), OnlyEvents(w)
  PROVE  Behind(z, a, 0, Len(w))
<1>1. /\ Len(w) \in Nat /\ Len(a) \in Nat /\ Len(z) = Len(w) + Len(a)
      /\ \A i \in 1..Len(w) : z[i] = w[i]
      /\ \A i \in 1..Len(a) : z[Len(w) + i] = [f |-> a[i], whose |-> "own"]
  BY DEF Written
<1>2. 0 \in 0..Len(a) /\ Len(w) + (Len(a) - 0) <= Len(z)
  BY <1>1
<1>3. ASSUME NEW i \in 1..Len(z)
      PROVE  IF Len(w) < i /\ i <= Len(w) + (Len(a) - 0)
             THEN z[i] = [f |-> a[i - Len(w) + 0], whose |-> "own"] ELSE z[i].whose = "event"
  <2>1. CASE Len(w) < i
    <3>1. i - Len(w) \in 1..Len(a) /\ Len(w) + (i - Len(w)) = i /\ i - Len(w) + 0 = i - Len(w)
          /\ i <= Len(w) + (Len(a) - 0)
      BY <1>1, <2>1
    <3> QED BY <1>1, <2>1, <3>1
  <2>2. CASE ~(Len(w) < i)
    <3>1. i \in 1..Len(w)
      BY <1>1, <2>2
    <3> QED BY <1>1, <2>2, <3>1 DEF OnlyEvents
  <2> QED BY <2>1, <2>2
<1> QED BY <1>1, <1>2, <1>3 DEF Behind

\* What is written behind lines leaves the first of them what it is.
LEMMA WriteWhole ==
  ASSUME NEW z, NEW w, NEW a, NEW m, Written(z, w, a, m), m = "event" => Len(a) > 0 /\ a[1] = Empty
  PROVE  Whole(z) <=> Whole(w)
<1>1. /\ Len(w) \in Nat /\ Len(a) \in Nat /\ Len(z) = Len(w) + Len(a)
      /\ \A i \in 1..Len(w) : z[i] = w[i]
      /\ \A i \in 1..Len(a) : z[Len(w) + i] = [f |-> a[i], whose |-> m]
  BY DEF Written
<1>2. CASE Len(w) > 0
  <2>1. z[1] = w[1] /\ Len(z) > 0
    BY <1>1, <1>2
  <2> QED BY <1>2, <2>1 DEF Whole
<1>3. CASE Len(w) = 0
  <2>1. ASSUME Len(z) > 0 PROVE z[1] = [f |-> a[1], whose |-> m]
    <3>1. 1 \in 1..Len(a) /\ Len(w) + 1 = 1
      BY <1>1, <1>3, <2>1
    <3> QED BY <1>1, <3>1
  <2>2. ASSUME Len(z) > 0, m = "event" PROVE z[1].f = Empty
    BY <2>1, <2>2
  <2>3. Whole(z)
    BY <2>1, <2>2 DEF Whole
  <2>4. Whole(w)
    BY <1>3 DEF Whole
  <2> QED BY <2>3, <2>4
<1> QED BY <1>1, <1>2, <1>3

LEMMA WritePairs ==
  ASSUME NEW z, NEW w, NEW a, NEW m, Written(z, w, a, m), m # "event", EventPairs(w)
  PROVE  EventPairs(z)
<1>1. /\ Len(w) \in Nat /\ Len(a) \in Nat /\ Len(z) = Len(w) + Len(a)
      /\ \A i \in 1..Len(w) : z[i] = w[i]
      /\ \A i \in 1..Len(z) : i \in 1..Len(w) \/ z[i].whose = m
  BY DEF Written
<1>2. \A i \in 1..Len(z) : z[i].whose = "event" => i \in 1..Len(w) /\ z[i] = w[i]
  BY <1>1
<1>3. ASSUME NEW i \in 1..Len(z), z[i].whose = "event", z[i].f = Empty
      PROVE  i < Len(z) /\ z[i + 1].whose = "event" /\ z[i + 1].f.text \in Events
  <2>1. i < Len(w) /\ w[i + 1].whose = "event" /\ w[i + 1].f.text \in Events
    BY <1>2, <1>3 DEF EventPairs
  <2>2. i + 1 \in 1..Len(w) /\ i < Len(z)
    BY <1>1, <2>1
  <2> QED BY <1>1, <2>1, <2>2
<1>4. ASSUME NEW i \in 1..(Len(z) - 1), z[i].whose # "event", z[i + 1].whose = "event"
      PROVE  z[i + 1].f = Empty
  <2>1. i + 1 \in 1..Len(z)
    BY <1>1
  <2>2. i + 1 \in 1..Len(w) /\ z[i + 1] = w[i + 1]
    BY <1>2, <1>4, <2>1
  <2>3. i \in 1..(Len(w) - 1) /\ z[i] = w[i]
    BY <1>1, <2>2
  <2> QED BY <1>4, <2>2, <2>3 DEF EventPairs
<1> QED BY <1>2, <1>3, <1>4 DEF EventPairs

\* An event joins the lines under way, among which is no other.
LEMMA WriteEvent ==
  ASSUME NEW z, NEW w, NEW x, Written(z, w, x, "event"), Len(x) = 2, x[1] = Empty,
         x[2].text \in Events, EventPairs(w), \A i \in 1..Len(w) : w[i].whose # "event"
  PROVE  /\ EventPairs(z)
         /\ \A a, k, p : Behind(w, a, k, p) /\ Len(a) \in Nat => Behind(z, a, k, p)
         /\ OnlyEvents(w) => OnlyEvents(z)
<1>1. /\ Len(w) \in Nat /\ Len(z) = Len(w) + 2
      /\ \A i \in 1..Len(w) : z[i] = w[i]
      /\ z[Len(w) + 1] = [f |-> Empty, whose |-> "event"]
      /\ z[Len(w) + 2] = [f |-> x[2], whose |-> "event"]
      /\ \A i \in 1..Len(z) : i \in 1..Len(w) \/ z[i].whose = "event"
  BY DEF Written
<1>2. \A i \in 1..Len(z) : i \in 1..Len(w) \/ i = Len(w) + 1 \/ i = Len(w) + 2
  BY <1>1
<1>3. \A i \in 1..Len(z) : z[i].whose = "event" => i = Len(w) + 1 \/ i = Len(w) + 2
  BY <1>1, <1>2
<1>4. x[2] # Empty
  <2>1. Empty.text \notin Events
    BY EventTexts DEF Empty, Line, AnswerOnly
  <2> QED BY <2>1
<1>5. EventPairs(z)
  <2>1. \A i \in 1..Len(z) : z[i].whose = "event" => z[i].f = Empty \/ z[i].f.text \in Events
    BY <1>1, <1>3
  <2>2. ASSUME NEW i \in 1..Len(z), z[i].whose = "event", z[i].f = Empty
        PROVE  i < Len(z) /\ z[i + 1].whose = "event" /\ z[i + 1].f.text \in Events
    <3>1. i = Len(w) + 1
      BY <1>1, <1>3, <1>4, <2>2
    <3>2. i < Len(z) /\ i + 1 = Len(w) + 2
      BY <1>1, <3>1
    <3> QED BY <1>1, <3>2
  <2>3. ASSUME NEW i \in 1..(Len(z) - 1), z[i].whose # "event", z[i + 1].whose = "event"
        PROVE  z[i + 1].f = Empty
    <3>1. i + 1 \in 1..Len(z) /\ i \in 1..Len(z)
      BY <1>1
    <3>2. i + 1 = Len(w) + 1 \/ i + 1 = Len(w) + 2
      BY <1>3, <2>3, <3>1
    <3>3. i + 1 # Len(w) + 2
      <4>1. i + 1 = Len(w) + 2 => i = Len(w) + 1
        BY <1>1
      <4> QED BY <1>1, <2>3, <4>1
    <3> QED BY <1>1, <3>2, <3>3
  <2> QED BY <2>1, <2>2, <2>3 DEF EventPairs
<1>6. ASSUME NEW a, NEW k, NEW p, Behind(w, a, k, p), Len(a) \in Nat PROVE Behind(z, a, k, p)
  <2>1. k \in 0..Len(a) /\ p \in Nat /\ p + (Len(a) - k) <= Len(w)
    BY <1>6 DEF Behind
  <2>2. p + (Len(a) - k) <= Len(z)
    BY <1>1, <1>6, <2>1
  <2>3. ASSUME NEW i \in 1..Len(z)
        PROVE  IF p < i /\ i <= p + (Len(a) - k) THEN z[i] = [f |-> a[i - p + k], whose |-> "own"]
               ELSE z[i].whose = "event"
    <3>1. CASE i \in 1..Len(w)
      BY <1>1, <1>6, <3>1 DEF Behind
    <3>2. CASE i \notin 1..Len(w)
      <4>1. ~(i <= p + (Len(a) - k))
        BY <1>1, <1>6, <2>1, <3>2
      <4> QED BY <1>1, <3>2, <4>1
    <3> QED BY <3>1, <3>2
  <2> QED BY <2>1, <2>2, <2>3 DEF Behind
<1> QED BY <1>1, <1>5, <1>6 DEF OnlyEvents

-----------------------------------------------------------------------------
(* What may follow.                                                        *)

\* The answers are spelt by the command, what it says and the modem's mode only.
LEMMA SameAnswers ==
  ASSUME UNCHANGED <<cmd, said, modem_mux>>, NEW a
  PROVE  /\ FirstAnswer(a, cmd, said)' <=> FirstAnswer(a, cmd, said)
         /\ LastAnswer(a, cmd)' <=> LastAnswer(a, cmd)
<1>1. \A t : Linked(t)' = Linked(t)
  BY DEF Linked
<1>2. IsVerdict(a, cmd)' <=> IsVerdict(a, cmd)
  BY <1>1 DEF IsVerdict
<1>3. IsTable(a, cmd, said)' <=> IsTable(a, cmd, said)
  BY DEF IsTable
<1>4. IsReport(a, cmd, said)' <=> IsReport(a, cmd, said)
  BY DEF IsReport
<1>5. IsSms(a, cmd, said)' <=> IsSms(a, cmd, said)
  BY DEF IsSms
<1>6. IsAddress(a, cmd, said)' <=> IsAddress(a, cmd, said)
  BY DEF IsAddress
<1>7. FirstAnswer(a, cmd, said)' <=> FirstAnswer(a, cmd, said)
  BY <1>2, <1>3, <1>4, <1>5, <1>6 DEF FirstAnswer
<1>8. LastAnswer(a, cmd)' <=> LastAnswer(a, cmd)
  BY <1>1 DEF LastAnswer
<1> QED BY <1>7, <1>8

\* Only commands with a text are prompted.
LEMMA PromptedCommands ==
  ASSUME NEW a, NEW c, NEW v \in Nat, FirstAnswer(a, c, v), NEW i \in 1..Len(a), a[i].text = "PROMPT"
  PROVE  c \in PromptCmds
<1>1. /\ \A t : Line(t).text = t /\ Linked(t).text = t /\ Saying(t, v).text = t
      /\ Report(c, v).text = "INFO" /\ Row(0, v).text = "CLIENT" /\ Row(7, v).text = "CLIENT"
      /\ Empty.text = "CRLF"
  BY DEF Line, Linked, LinkLine, Saying, Report, InfoLine, Row, Empty
<1>2. a[1] = Empty /\ Len(a) \in Nat
  BY DEF FirstAnswer
<1>3. i \in Nat /\ i # 1
  BY <1>1, <1>2
<1>4. CASE Len(a) = 2
  <2>1. i = 2
    BY <1>3, <1>4
  <2>2. a[2].text = "PROMPT"
    BY <2>1
  <2>3. /\ Line("OK").text = "OK" /\ Line("SHUT OK").text = "SHUT OK" /\ Line("CONNECT").text = "CONNECT"
        /\ Linked("CLOSE OK").text = "CLOSE OK" /\ Saying("IP", v).text = "IP"
    BY DEF Line, Linked, LinkLine, Saying
  <2>5. ~IsRefusal(a)
    BY <2>2, RefusalLine DEF Refusals
  <2>6. ~IsVerdict(a, c)
    BY <2>2, <2>3 DEF IsVerdict
  <2>7. ~IsAddress(a, c, v)
    BY <2>2, <2>3 DEF IsAddress
  <2>4. ~IsReport(a, c, v) /\ ~IsSms(a, c, v) /\ ~IsTable(a, c, v)
    BY <1>4 DEF IsReport, IsSms, IsTable
  <2> QED BY <2>4, <2>5, <2>6, <2>7, Zenon DEF FirstAnswer
<1>5. CASE IsReport(a, c, v)
  <2>1. i = 2 \/ i = 3 \/ i = 4
    BY <1>3, <1>5 DEF IsReport
  <2> QED BY <1>1, <1>5, <2>1 DEF IsReport
<1>6. CASE IsSms(a, c, v)
  <2>1. i = 2 \/ i = 3 \/ i = 4 \/ i = 5
    BY <1>3, <1>6 DEF IsSms
  <2> QED BY <1>1, <1>6, <2>1 DEF IsSms
<1>7. CASE IsTable(a, c, v)
  <2>1. i = 2 \/ i = 3 \/ i = 4 \/ i = 5 \/ (Len(a) = 7 /\ (i = 6 \/ i = 7))
    BY <1>3, <1>7 DEF IsTable
  <2> QED BY <1>1, <1>7, <2>1 DEF IsTable
<1>8. Len(a) = 2 \/ IsReport(a, c, v) \/ IsSms(a, c, v) \/ IsTable(a, c, v)
  BY DEF FirstAnswer, IsRefusal, IsVerdict, IsPrompt, IsAddress
<1> QED BY <1>4, <1>5, <1>6, <1>7, <1>8

\* Events before the answer: the handler takes the empty line of one for that of
\* the answer, and then, if it stays at all, waits for the rest.
LEMMA FreshEvent ==
  ASSUME TypeInv, EventPairs(wire), is_receive = 0, NEW s, Fresh(s),
         s = "RN" \/ (s = "MSG" /\ cmd \in PromptCmds),
         wire[1].f \in Frame, simx_receive_msg(wire[1].f), wire[1].whose = "event",
         NEW z, Dropped(z, wire), is_receive' = 0
  PROVE  state' = AfterFirst(s) /\ ~Whole(z) /\ NoSend
<1>1. Len(wire) > 0
  BY DEF Dropped
<1>2. CASE wire[1].f = Empty
  <2>1. state = s
    BY <1>1, <1>2 DEF Fresh, Whole
  <2>2. StaysIn(AfterFirst(s)) /\ NoSend
    BY <1>2, <2>1, FirstRead
  <2> QED BY <1>2, <2>2, DropPairs DEF StaysIn
<1>3. CASE wire[1].f # Empty
  <2>1. wire[1].f.text \in Events
    BY <1>3, DropPairs
  <2>2. state = AfterFirst(s)
    BY <1>1, <1>3 DEF Fresh, Whole
  <2>3. wire[1].f.text \notin AnswerOnly
    BY <2>1, EventTexts
  <2>4. is_receive' = 1
    BY <2>2, <2>3, OtherEnds
  <2> QED BY <2>4
<1> QED BY <1>2, <1>3

LEMMA FreshOwn ==
  ASSUME NEW s, Fresh(s), wire[1].whose # "event"
  PROVE  state = s
  BY DEF Fresh, Whole

\* Once the driver has lines of an answer the next line is the answer's.
LEMMA AnswerGoesOn ==
  ASSUME NEW w, NEW a, NEW k, Behind(w, a, k, 0), Len(a) \in Nat, k < Len(a), Len(w) \in Nat
  PROVE  Len(w) >= 1 /\ w[1].whose = "own"
<1>1. k \in 0..Len(a) /\ 0 + (Len(a) - k) <= Len(w)
  BY DEF Behind
<1>2. 1 \in 1..Len(w) /\ 0 < 1 /\ 1 <= 0 + (Len(a) - k)
  BY <1>1
<1>3. w[1] = [f |-> a[1 - 0 + k], whose |-> "own"]
  BY <1>2 DEF Behind
<1> QED BY <1>2, <1>3

\* When all of the answer has been read only events are left.
LEMMA AnswerRead ==
  ASSUME NEW w, NEW a, NEW p, Behind(w, a, Len(a), p), Len(a) \in Nat
  PROVE  OnlyEvents(w)
<1>1. p \in Nat /\ \A i \in 1..Len(w) : ~(p < i /\ i <= p + (Len(a) - Len(a)))
  BY DEF Behind
<1> QED BY <1>1 DEF Behind, OnlyEvents

\* A CIPSTATUS that waits for its table goes on to do so, or ends.
LEMMA TableStays ==
  ASSUME TypeInv, is_receive = 0, NEW f \in Frame, simx_receive_msg(f),
         cmd = "CIPSTATUS", state = "MSG", is_receive' = 0
  PROVE  state' = "MSG"
<1>1. ~IsNotification(f)
  BY NotificationEnds DEF EndsWith
<1>2. simx_rcv_mframe(f)
  BY <1>1, ToHandler DEF MframeCmds
<1> QED BY <1>2 DEF simx_rcv_mframe, _simx_current_connection_status_resp, Goto, EndOfTable

\* What the driver gets, and what that makes of the line.
LEMMA DeliverGets ==
  ASSUME TypeInv, Deliver
  PROVE  /\ Dropped(Tail(wire), wire) /\ Head(wire) = wire[1] /\ wire[1].f \in Frame
         /\ simx_receive_msg(wire[1].f) /\ Record(wire[1].whose = "own")
         /\ UNCHANGED <<cmd, reply, pending, modem_mux, said, quiet>>
         /\ is_receive' = 0 => is_receive = 0 /\ mux' = mux
         /\ \/ /\ prompting # <<>> /\ ~NoSend /\ prompting' = <<>>
               /\ \E a \in Finished(prompting[1].cmd) :
                    Written(wire', Tail(wire), a, prompting[1].whose)
            \/ (prompting = <<>> \/ NoSend) /\ wire' = Tail(wire) /\ prompting' = prompting
<1>1. /\ Head(wire).f \in Frame /\ Head(wire) = wire[1]
      /\ Tail(wire) \in Seq(Packet) /\ Len(Tail(wire)) = Len(wire) - 1
      /\ \A i \in 1..Len(Tail(wire)) : Tail(wire)[i] = wire[i + 1]
      /\ Len(wire) \in Nat /\ Len(wire) >= 1
  BY HeadLine DEF TypeInv, Deliver
<1>2. simx_receive_msg(wire[1].f) /\ Record(wire[1].whose = "own") /\ UNCHANGED <<pending, modem_mux>>
  BY <1>1 DEF Deliver
<1>3. UNCHANGED <<cmd, reply, said, quiet>> /\ (is_receive' = 0 => is_receive = 0)
  BY <1>1, <1>2, LineKeepsCommand DEF TypeInv, Record
<1>4. is_receive' = 0 => mux' = mux
  BY <1>1, <1>2, ReceiveHook DEF TypeInv, Ran, simx_finished, HookStays, modes
<1>5. ASSUME prompting # <<>>, NEW a \in Finished(prompting[1].cmd),
             wire' = Tail(wire) \o Stamp(a, prompting[1].whose)
      PROVE  Written(wire', Tail(wire), a, prompting[1].whose)
  <2>1. prompting \in Seq(Posted) /\ Len(prompting) \in Nat \ {0}
    BY <1>5, EmptySeq DEF TypeInv, LineTyped
  <2>2. prompting[1] \in Posted
    BY <2>1, ElementOfSeq
  <2>3. prompting[1].cmd \in Cmds /\ prompting[1].whose \in {"own", "old", "event"}
    BY <2>2 DEF Posted
  <2> QED BY <1>1, <1>5, <2>3, FinishedSeq, WrittenLines
<1>6. \/ /\ prompting # <<>> /\ ~NoSend /\ prompting' = <<>>
         /\ \E a \in Finished(prompting[1].cmd) : Written(wire', Tail(wire), a, prompting[1].whose)
      \/ (prompting = <<>> \/ NoSend) /\ wire' = Tail(wire) /\ prompting' = prompting
  BY <1>5 DEF Deliver, NoSend
<1> QED BY <1>1, <1>2, <1>3, <1>4, <1>6 DEF Dropped

-----------------------------------------------------------------------------
(* The driver gets a line.                                                 *)

\* With nothing cut, only the next line of its answer ends a command, and that
\* one was sent on a quiet line.
LEMMA OnlyOwnEnds ==
  ASSUME TypeInv, NEW f \in Frame, simx_receive_msg(f), NEW byOwn \in BOOLEAN, Record(byOwn), ~cut'
  PROVE  /\ is_receive' \in {0, 1} /\ ~cut
         /\ is_receive = 0 /\ is_receive' = 1 => byOwn /\ quiet
         /\ ~(cmd = "CIPMUX" /\ is_receive = 0) => doubt' = doubt
<1>1. is_receive' \in {0, 1}
  BY ReceiveInv DEF TypeInv, IInv, TypeOK
<1> QED BY <1>1 DEF Record, Concluded

LEMMA AskedDeliver ==
  ASSUME TypeInv, EventPairs(wire), is_receive = 0, Asked, Deliver, ~cut'
  PROVE  is_receive' = 0 /\ Asked'
<1> DEFINE z == Tail(wire)
<1>1. /\ Dropped(z, wire) /\ wire[1].f \in Frame
      /\ simx_receive_msg(wire[1].f) /\ Record(wire[1].whose = "own")
      /\ UNCHANGED <<cmd, pending>>
      /\ \/ prompting # <<>>
         \/ wire' = z /\ prompting' = prompting
  BY DeliverGets
<1>2. wire[1].whose = "event"
  BY <1>1 DEF Asked, OnlyEvents, Dropped
<1>3. is_receive' = 0
  BY <1>1, <1>2, OnlyOwnEnds
<1>4. state' = AfterFirst("RN") /\ ~Whole(z)
  BY <1>1, <1>2, <1>3, FreshEvent DEF Asked
<1>5. OnlyEvents(z)
  BY <1>1 DEF Asked, OnlyEvents, Dropped
<1>6. wire' = z /\ prompting' = prompting
  BY <1>1 DEF Asked
<1>7. AfterFirst("RN")' = AfterFirst("RN")
  BY <1>1 DEF AfterFirst
<1> HIDE DEF z
<1> QED BY <1>1, <1>3, <1>4, <1>5, <1>6, <1>7 DEF Asked, Fresh

\* What the answers are spelt by does not change with a line.
LEMMA AnsweringNext ==
  ASSUME NEW a, NEW k, NEW q, FirstAnswer(a, cmd, said),
         UNCHANGED <<cmd, said, modem_mux, pending, prompting>>,
         Behind(wire', a, k, q), pending = <<>>,
         IF IsPrompt(a) THEN Len(prompting) = 1 /\ prompting[1].whose = "own" ELSE prompting = <<>>,
         \/ k = 0 /\ Fresh("RN")'
         \/ /\ k > 0 /\ k < Len(a) /\ q = 0 /\ state' = StateAfter(k, Len(a))
            /\ cmd = "CIPSTATUS" /\ mux' = 0 => k <= 3
         \/ k = Len(a) /\ ~IsPrompt(a) /\ cmd = "CIPSTATUS" /\ mux' # 0 /\ state' = "MSG"
  PROVE  Answering(a, k, q)'
<1>1. FirstAnswer(a, cmd, said)'
  BY SameAnswers
<1>2. StateAfter(k, Len(a))' = StateAfter(k, Len(a))
  BY DEF StateAfter, AfterFirst
<1> QED BY <1>1, <1>2, Zenon DEF Answering

\* An event comes while the answer is under way.
LEMMA AnsweringEvent ==
  ASSUME TypeInv, EventPairs(wire), is_receive = 0, NEW a, NEW k, NEW p, Answering(a, k, p),
         Deliver, wire[1].whose = "event", ~cut'
  PROVE  is_receive' = 0 /\ \E q : Answering(a, k, q)'
<1> DEFINE z == Tail(wire)
<1>1. /\ Dropped(z, wire) /\ wire[1].f \in Frame
      /\ simx_receive_msg(wire[1].f) /\ Record(wire[1].whose = "own")
      /\ UNCHANGED <<cmd, said, modem_mux, pending>>
      /\ is_receive' = 0 => mux' = mux
      /\ \/ prompting # <<>> /\ ~NoSend
         \/ wire' = z /\ prompting' = prompting
  BY DeliverGets
<1>2. is_receive' = 0
  BY <1>1, OnlyOwnEnds
<1>3. /\ FirstAnswer(a, cmd, said) /\ Behind(wire, a, k, p) /\ Len(a) \in Nat /\ pending = <<>>
      /\ IF IsPrompt(a) THEN Len(prompting) = 1 /\ prompting[1].whose = "own" ELSE prompting = <<>>
  BY DEF Answering, FirstAnswer
<1>4. PICK q \in Nat : Behind(z, a, k, q)
  BY <1>1, <1>3, DropEvent
<1> HIDE DEF z
<1>5. CASE k = 0 /\ Fresh("RN")
  <2>1. state' = AfterFirst("RN") /\ ~Whole(z) /\ NoSend
    BY <1>1, <1>2, <1>5, FreshEvent
  <2>2. wire' = z /\ prompting' = prompting
    BY <1>1, <2>1
  <2>3. Fresh("RN")'
    BY <1>1, <2>1, <2>2 DEF Fresh, AfterFirst
  <2> QED BY <1>1, <1>2, <1>3, <1>4, <1>5, <2>2, <2>3, AnsweringNext
<1>6. CASE k > 0 /\ k < Len(a) /\ p = 0
  <2>1. Len(wire) \in Nat
    BY <1>1 DEF Dropped
  <2> QED BY <1>3, <1>6, <2>1, AnswerGoesOn
<1>7. CASE k = Len(a) /\ ~IsPrompt(a) /\ cmd = "CIPSTATUS" /\ mux # 0 /\ state = "MSG"
  <2>1. state' = "MSG" /\ wire' = z /\ prompting' = prompting /\ mux' # 0
    BY <1>1, <1>2, <1>3, <1>7, TableStays
  <2>2. Behind(wire', a, k, q)
    BY <1>4, <2>1
  <2> QED BY <1>1, <1>2, <1>3, <1>7, <2>1, <2>2, AnsweringNext
<1> QED BY <1>5, <1>6, <1>7, Zenon DEF Answering

\* The empty line the answer begins with.
LEMMA AnsweringFirst ==
  ASSUME TypeInv, EventPairs(wire), is_receive = 0, NEW a, NEW p, Answering(a, 0, p),
         Deliver, wire[1].whose # "event"
  PROVE  is_receive' = 0 /\ Answering(a, 1, 0)'
<1> DEFINE z == Tail(wire)
<1>1. /\ Dropped(z, wire) /\ simx_receive_msg(wire[1].f)
      /\ UNCHANGED <<cmd, said, modem_mux, pending>>
      /\ \/ ~NoSend
         \/ wire' = z /\ prompting' = prompting
  BY DeliverGets
<1>2. /\ FirstAnswer(a, cmd, said) /\ Behind(wire, a, 0, p) /\ pending = <<>>
      /\ IF IsPrompt(a) THEN Len(prompting) = 1 /\ prompting[1].whose = "own" ELSE prompting = <<>>
  BY DEF Answering
<1>3. Len(a) \in Nat /\ Len(a) >= 2 /\ a[1] = Empty
  BY <1>2 DEF FirstAnswer
<1>4. wire[1].f = a[0 + 1] /\ Behind(z, a, 0 + 1, 0)
  <2>1. wire[1] = [f |-> a[0 + 1], whose |-> "own"] /\ Behind(z, a, 0 + 1, 0)
    BY <1>1, <1>2, <1>3, DropOwn
  <2> QED BY <2>1
<1>5. state = "RN"
  <2>1. Fresh("RN")
    BY <1>3 DEF Answering
  <2> QED BY <2>1, FreshOwn
<1>6. simx_receive_msg(Empty)
  BY <1>1, <1>3, <1>4
<1>7. StaysIn(AfterFirst("RN")) /\ NoSend
  BY <1>5, <1>6, FirstRead
<1> HIDE DEF z
<1>8. wire' = z /\ prompting' = prompting
  BY <1>1, <1>7
<1>9. is_receive' = 0 /\ state' = StateAfter(1, Len(a))
  BY <1>7 DEF StaysIn, StateAfter
<1>10. Behind(wire', a, 1, 0) /\ 1 > 0 /\ 1 < Len(a) /\ 1 <= 3
  BY <1>3, <1>4, <1>8
<1> QED BY <1>1, <1>2, <1>8, <1>9, <1>10, AnsweringNext

\* The prompt: the driver sends the text, and the modem answers that.
LEMMA AnsweringPrompt ==
  ASSUME TypeInv, ModeInv, EventPairs(wire), NEW a, NEW k, NEW p, Answering(a, k, p),
         Deliver, wire[1].whose # "event",
         StaysIn("MSG"), k + 1 = Len(a), IsPrompt(a), cmd \in PromptCmds, ~NoSend
  PROVE  \E lines, q : Completing(lines, 0, q)'
<1> DEFINE z == Tail(wire)
<1>1. /\ Dropped(z, wire)
      /\ UNCHANGED <<cmd, said, modem_mux, pending>>
      /\ \/ /\ prompting' = <<>>
            /\ \E lines \in Finished(prompting[1].cmd) : Written(wire', z, lines, prompting[1].whose)
         \/ prompting = <<>>
  BY DeliverGets
<1>2. /\ Behind(wire, a, k, p) /\ Len(a) \in Nat /\ pending = <<>>
      /\ Len(prompting) = 1 /\ prompting[1].whose = "own"
  BY DEF Answering, FirstAnswer
<1>3. prompting # <<>>
  BY <1>2, EmptySeq
<1>4. prompting[1].cmd = cmd
  BY <1>2, <1>3 DEF ModeInv, Marks
<1>5. PICK lines \in Finished(cmd) : Written(wire', z, lines, "own")
  BY <1>1, <1>2, <1>3, <1>4
<1>6. LastAnswer(lines, cmd)
  BY <1>5, LastLines
<1>7. Behind(z, a, k + 1, 0)
  BY <1>1, <1>2, DropOwn
<1>8. OnlyEvents(z)
  BY <1>2, <1>7, AnswerRead
<1>9. Whole(z)
  BY <1>1, DropPairs
<1> HIDE DEF z
<1>10. Behind(wire', lines, 0, Len(z))
  BY <1>5, <1>8, WriteAnswer
<1>11. Whole(wire')
  <2>1. "own" = "event" => Len(lines) > 0 /\ lines[1] = Empty
    OBVIOUS
  <2> QED BY <1>5, <1>9, <2>1, WriteWhole
<1>12. Fresh("MSG")'
  BY <1>11 DEF Fresh, StaysIn
<1>13. LastAnswer(lines, cmd)'
  BY <1>1, <1>6, SameAnswers
<1>14. prompting' = <<>> /\ pending' = <<>> /\ 0 = 0
  BY <1>1, <1>2, <1>3
<1> QED BY <1>10, <1>12, <1>13, <1>14, Zenon DEF Completing

\* CIPSTATUS ends with its STATE line, and leaves what is behind that.
LEMMA AnsweringTable ==
  ASSUME TypeInv, ModeInv, NEW a, Len(a) \in Nat, IsTable(a, cmd, said), mux = 0,
         cmd' = cmd, doubt' = doubt, pending = <<>>, pending' = <<>>, prompting' = <<>>,
         Behind(wire', a, 4, 0)
  PROVE  Resting'
<1>1. /\ cmd = "CIPSTATUS" /\ Len(a) \in {5, 7} /\ (Len(a) = 7 <=> modem_mux # 0) /\ a[5] = Empty
      /\ Len(a) = 7 => a[6] = Row(0, said) /\ a[7] = Row(7, said)
  BY DEF IsTable
<1>2. Row(0, said).text = "CLIENT" /\ Row(7, said).text = "CLIENT"
  BY DEF Row, LinkLine
<1>3. Len(a) = 7 => doubt
  BY <1>1 DEF ModeInv, MuxInv, Setting
<1>4. \A i \in 1..Len(wire') :
        IF 0 < i /\ i <= 0 + (Len(a) - 4) THEN wire'[i] = [f |-> a[i - 0 + 4], whose |-> "own"]
        ELSE wire'[i].whose = "event"
  BY DEF Behind
<1>5. ASSUME NEW i \in 1..Len(wire'), wire'[i].whose # "event"
      PROVE  wire'[i].whose = "own" /\ (wire'[i].f = Empty \/ (doubt /\ wire'[i].f.text = "CLIENT"))
  <2>0. 0 < i /\ i <= 0 + (Len(a) - 4) /\ wire'[i] = [f |-> a[i - 0 + 4], whose |-> "own"]
    BY <1>4, <1>5
  <2>3. Len(a) = 5 \/ Len(a) = 7
    BY <1>1
  <2>4. i \in 1..3 /\ i - 0 + 4 = i + 4 /\ i + 4 \in 5..Len(a)
    BY <2>0, <2>3
  <2>1. wire'[i] = [f |-> a[i + 4], whose |-> "own"] /\ i + 4 \in 5..Len(a)
    BY <2>0, <2>4
  <2>2. i + 4 = 5 \/ (Len(a) = 7 /\ (i + 4 = 6 \/ i + 4 = 7))
    BY <1>1, <2>1
  <2> QED BY <1>1, <1>2, <1>3, <2>1, <2>2
<1> QED BY <1>1, <1>5 DEF Resting

\* What the modem said is a number.
LEMMA SaidNumber == TypeInv => said \in Nat
  BY NumbersAssumption DEF TypeInv, LineTyped

\* A line of the answer behind its first.
LEMMA AnsweringRest ==
  ASSUME TypeInv, ModeInv, EventPairs(wire), is_receive = 0, quiet, NEW a, NEW k, NEW p,
         Answering(a, k, p), k # 0, Deliver, wire[1].whose # "event", ~cut'
  PROVE  InStep'
<1> DEFINE z == Tail(wire)
<1>1. /\ Dropped(z, wire) /\ wire[1].f \in Frame /\ simx_receive_msg(wire[1].f)
      /\ Record(wire[1].whose = "own")
      /\ UNCHANGED <<cmd, said, modem_mux, pending, quiet>>
      /\ is_receive' = 0 => mux' = mux
      /\ \/ prompting # <<>>
         \/ wire' = z /\ prompting' = prompting
  BY DeliverGets
<1>2. /\ FirstAnswer(a, cmd, said) /\ Behind(wire, a, k, p) /\ pending = <<>> /\ Len(a) \in Nat
      /\ IF IsPrompt(a) THEN Len(prompting) = 1 /\ prompting[1].whose = "own" ELSE prompting = <<>>
  BY DEF Answering, FirstAnswer
<1>3. wire[1] = [f |-> a[k + 1], whose |-> "own"] /\ Behind(z, a, k + 1, 0) /\ k \in Nat /\ k < Len(a)
  <2>1. Dropped(z, wire) /\ Behind(wire, a, k, p) /\ Len(a) \in Nat
    BY <1>1, <1>2
  <2> HIDE DEF z
  <2> QED BY <2>1, DropOwn
<1>4. k \in 1..(Len(a) - 1) /\ k # Len(a)
  BY <1>2, <1>3
<1>5. state = StateAfter(k, Len(a)) /\ (cmd = "CIPSTATUS" /\ mux = 0 => k <= 3)
  BY <1>4, Zenon DEF Answering
<1>6. simx_receive_msg(a[k + 1])
  BY <1>1, <1>3
<1>7. wire[1].whose = "own"
  BY <1>3
<1>8. prompting = <<>> => wire' = z /\ prompting' = prompting
  BY <1>1
<1> HIDE DEF z
<1>9. ~IsPrompt(a) => wire' = z /\ prompting' = prompting /\ prompting' = <<>>
  BY <1>2, <1>8
<1>10. k + 1 > 0 /\ k + 1 \in Nat
  BY <1>4
<1>11. ASSUME StaysIn(StateAfter(k + 1, Len(a))), k + 1 < Len(a),
              cmd = "CIPSTATUS" /\ mux = 0 => k + 1 <= 3
       PROVE  InStep'
  <2>1. ~IsPrompt(a)
    <3>1. Len(a) = 2 => ~(k + 1 < Len(a))
      BY <1>4
    <3> QED BY <1>11, <3>1 DEF IsPrompt
  <2>2. /\ wire' = z /\ prompting' = prompting /\ Behind(wire', a, k + 1, 0)
        /\ is_receive' = 0 /\ mux' = mux /\ state' = StateAfter(k + 1, Len(a))
    BY <1>1, <1>3, <1>9, <1>11, <2>1 DEF StaysIn
  <2>3. UNCHANGED <<cmd, said, modem_mux, pending, prompting>>
    BY <1>1, <2>2
  <2>4. cmd = "CIPSTATUS" /\ mux' = 0 => k + 1 <= 3
    BY <1>11, <2>2
  <2>5. Answering(a, k + 1, 0)'
    BY <1>2, <1>10, <1>11, <2>2, <2>3, <2>4, AnsweringNext
  <2> QED BY <1>1, <2>2, <2>5 DEF InStep, InFlight
<1>12. ASSUME StaysIn("MSG"), k + 1 = Len(a), IsPrompt(a), cmd \in PromptCmds, ~NoSend
       PROVE  InStep'
  <2>1. \E lines, q : Completing(lines, 0, q)'
    BY <1>12, AnsweringPrompt
  <2> QED BY <1>1, <1>12, <2>1 DEF InStep, InFlight, StaysIn
<1>13. ASSUME StaysIn("MSG"), k + 1 = Len(a), ~IsPrompt(a), cmd = "CIPSTATUS", mux # 0
       PROVE  InStep'
  <2>1. /\ wire' = z /\ prompting' = prompting /\ Behind(wire', a, k + 1, 0)
        /\ is_receive' = 0 /\ mux' = mux /\ state' = "MSG"
    BY <1>1, <1>3, <1>9, <1>13 DEF StaysIn
  <2>2. UNCHANGED <<cmd, said, modem_mux, pending, prompting>>
    BY <1>1, <2>1
  <2>3. mux' # 0
    BY <1>13, <2>1
  <2>4. Answering(a, k + 1, 0)'
    BY <1>2, <1>13, <2>1, <2>2, <2>3, AnsweringNext
  <2> QED BY <1>1, <2>1, <2>4 DEF InStep, InFlight
<1>14. ASSUME is_receive' = 1, k + 1 = Len(a), ~IsPrompt(a) PROVE InStep'
  <2>1. Behind(wire', a, Len(a), 0) /\ prompting' = <<>>
    BY <1>3, <1>9, <1>14
  <2>2. OnlyEvents(wire')
    BY <1>2, <2>1, AnswerRead
  <2>3. Resting'
    BY <1>1, <1>2, <2>1, <2>2 DEF Resting, OnlyEvents
  <2> QED BY <1>1, <1>14, <2>3 DEF InStep, InFlight
<1>15. ASSUME EndsWith("OK"), k = 3, mux = 0, IsTable(a, cmd, said), ~IsPrompt(a) PROVE InStep'
  <2>1. Behind(wire', a, 4, 0) /\ prompting' = <<>>
    BY <1>3, <1>9, <1>15
  <2>2. cmd = "CIPSTATUS"
    BY <1>15 DEF IsTable
  <2>3. doubt' = doubt
    BY <1>1, <1>7, <2>2, OnlyOwnEnds
  <2>4. Resting'
    BY <1>1, <1>2, <1>15, <2>1, <2>3, AnsweringTable
  <2> QED BY <1>1, <1>15, <2>4 DEF InStep, InFlight, EndsWith
<1>16. \/ /\ StaysIn(StateAfter(k + 1, Len(a))) /\ k + 1 < Len(a)
          /\ cmd = "CIPSTATUS" /\ mux = 0 => k + 1 <= 3
       \/ StaysIn("MSG") /\ k + 1 = Len(a) /\ IsPrompt(a) /\ cmd \in PromptCmds /\ ~NoSend
       \/ StaysIn("MSG") /\ k + 1 = Len(a) /\ ~IsPrompt(a) /\ cmd = "CIPSTATUS" /\ mux # 0
       \/ is_receive' = 1 /\ k + 1 = Len(a) /\ ~IsPrompt(a)
       \/ EndsWith("OK") /\ k = 3 /\ mux = 0 /\ IsTable(a, cmd, said) /\ ~IsPrompt(a)
  <2>1. said \in Nat
    BY SaidNumber
  <2> QED BY <1>2, <1>4, <1>5, <1>6, <2>1, FirstReads
<1> QED BY <1>11, <1>12, <1>13, <1>14, <1>15, <1>16

LEMMA AnsweringDeliver ==
  ASSUME TypeInv, ModeInv, EventPairs(wire), is_receive = 0, quiet, NEW a, NEW k, NEW p,
         Answering(a, k, p), Deliver, ~cut'
  PROVE  InStep'
<1>1. quiet' = quiet
  BY DeliverGets
<1>2. CASE wire[1].whose = "event"
  BY <1>1, <1>2, AnsweringEvent, Zenon DEF InStep, InFlight
<1>3. CASE wire[1].whose # "event" /\ k = 0
  BY <1>1, <1>3, AnsweringFirst, Zenon DEF InStep, InFlight
<1>4. CASE wire[1].whose # "event" /\ k # 0
  BY <1>4, AnsweringRest
<1> QED BY <1>2, <1>3, <1>4

\* The answer to the text.
LEMMA TextCommands == \A a, c : LastAnswer(a, c) => c \in PromptCmds
  BY DEF LastAnswer, PromptCmds

LEMMA CompletingNext ==
  ASSUME NEW a, NEW k, NEW q, LastAnswer(a, cmd), UNCHANGED <<cmd, said, modem_mux>>,
         pending' = <<>>, prompting' = <<>>, Behind(wire', a, k, q),
         \/ k = 0 /\ Fresh("MSG")'
         \/ k > 0 /\ k < Len(a) /\ q = 0 /\ state' = StateAfterText(k)
  PROVE  Completing(a, k, q)'
<1>1. LastAnswer(a, cmd)'
  BY SameAnswers
<1>2. StateAfterText(k)' = StateAfterText(k)
  BY DEF StateAfterText
<1> QED BY <1>1, <1>2, Zenon DEF Completing

LEMMA CompletingDeliver ==
  ASSUME TypeInv, EventPairs(wire), is_receive = 0, quiet, NEW a, NEW k, NEW p,
         Completing(a, k, p), Deliver, ~cut'
  PROVE  InStep'
<1> DEFINE z == Tail(wire)
<1>1. /\ Dropped(z, wire) /\ wire[1].f \in Frame /\ simx_receive_msg(wire[1].f)
      /\ Record(wire[1].whose = "own")
      /\ UNCHANGED <<cmd, said, modem_mux, pending, quiet>>
      /\ \/ prompting # <<>>
         \/ wire' = z /\ prompting' = prompting
  BY DeliverGets
<1>2. /\ LastAnswer(a, cmd) /\ Behind(wire, a, k, p) /\ Len(a) \in Nat /\ Len(a) >= 2 /\ a[1] = Empty
      /\ cmd \in PromptCmds
  BY TextCommands DEF Completing, LastAnswer
<1>3. pending' = <<>> /\ prompting' = <<>> /\ wire' = z
  BY <1>1 DEF Completing
<1> HIDE DEF z
<1>4. ASSUME NEW j, NEW q, Behind(wire', a, j, q), is_receive' = 0,
             \/ j = 0 /\ Fresh("MSG")'
             \/ j > 0 /\ j < Len(a) /\ q = 0 /\ state' = StateAfterText(j)
      PROVE  InStep'
  <2>1. Completing(a, j, q)'
    BY <1>1, <1>2, <1>3, <1>4, CompletingNext
  <2> QED BY <1>1, <1>4, <2>1 DEF InStep, InFlight
<1>5. CASE wire[1].whose = "event"
  <2>1. is_receive' = 0
    BY <1>1, <1>5, OnlyOwnEnds
  <2>2. PICK q \in Nat : Behind(z, a, k, q)
    BY <1>1, <1>2, <1>5, DropEvent
  <2>3. CASE k = 0 /\ Fresh("MSG")
    <3>1. state' = AfterFirst("MSG") /\ ~Whole(z)
      BY <1>1, <1>2, <1>5, <2>1, <2>3, FreshEvent
    <3>2. Fresh("MSG")'
      BY <1>1, <1>3, <3>1 DEF Fresh, AfterFirst
    <3>3. Behind(wire', a, k, q)
      BY <1>3, <2>2
    <3> QED BY <1>4, <2>1, <2>3, <3>2, <3>3
  <2>4. CASE k > 0 /\ k < Len(a) /\ p = 0
    <3>1. Len(wire) \in Nat
      BY <1>1 DEF Dropped
    <3> QED BY <1>2, <1>5, <2>4, <3>1, AnswerGoesOn
  <2> QED BY <2>3, <2>4, Zenon DEF Completing
<1>6. CASE wire[1].whose # "event"
  <2>1. wire[1] = [f |-> a[k + 1], whose |-> "own"] /\ Behind(z, a, k + 1, 0) /\ k \in Nat /\ k < Len(a)
    <3>1. Dropped(z, wire) /\ Behind(wire, a, k, p) /\ Len(a) \in Nat
      BY <1>1, <1>2
    <3> QED BY <1>6, <3>1, DropOwn
  <2>2. simx_receive_msg(a[k + 1])
    BY <1>1, <2>1
  <2>3. Behind(wire', a, k + 1, 0) /\ k + 1 > 0
    BY <1>3, <2>1
  <2>4. CASE k = 0
    <3>1. state = "MSG"
      <4>1. Fresh("MSG")
        BY <2>4 DEF Completing
      <4> QED BY <1>6, <4>1, FreshOwn
    <3>2. simx_receive_msg(Empty) /\ k + 1 = 1 /\ 1 < Len(a)
      BY <1>2, <2>2, <2>4
    <3>3. StaysIn(AfterFirst("MSG"))
      BY <1>2, <3>1, <3>2, FirstRead
    <3>4. AfterFirst("MSG") = StateAfterText(1)
      BY DEF AfterFirst, StateAfterText
    <3>5. is_receive' = 0 /\ state' = StateAfterText(k + 1) /\ k + 1 < Len(a)
      BY <3>2, <3>3, <3>4 DEF StaysIn
    <3> QED BY <1>4, <2>3, <3>5
  <2>5. CASE k # 0
    <3>1. k \in 1..(Len(a) - 1)
      BY <1>2, <2>1, <2>5
    <3>2. state = StateAfterText(k)
      BY <2>5 DEF Completing
    <3>3. \/ StaysIn(StateAfterText(k + 1)) /\ k + 1 < Len(a)
          \/ is_receive' = 1 /\ k + 1 = Len(a)
      BY <1>2, <2>2, <3>1, <3>2, TextReads
    <3>4. CASE StaysIn(StateAfterText(k + 1)) /\ k + 1 < Len(a)
      BY <1>4, <2>3, <3>4 DEF StaysIn
    <3>5. CASE is_receive' = 1 /\ k + 1 = Len(a)
      <4>1. Behind(wire', a, Len(a), 0)
        BY <2>3, <3>5
      <4>2. OnlyEvents(wire')
        BY <1>2, <4>1, AnswerRead
      <4>3. Resting'
        BY <1>3, <4>2 DEF Resting, OnlyEvents
      <4> QED BY <1>1, <3>5, <4>3 DEF InStep, InFlight
    <3> QED BY <3>3, <3>4, <3>5
  <2> QED BY <2>4, <2>5
<1> QED BY <1>5, <1>6

\* Nothing is in flight, and nothing of an answer comes.
LEMMA RestingDeliver ==
  ASSUME TypeInv, is_receive = 1, quiet, Resting, Deliver, ~cut'
  PROVE  InStep'
<1> DEFINE z == Tail(wire)
<1>1. /\ Dropped(z, wire) /\ wire[1].f \in Frame /\ simx_receive_msg(wire[1].f)
      /\ Record(wire[1].whose = "own")
      /\ UNCHANGED <<cmd, pending, quiet>>
      /\ is_receive' = 0 => is_receive = 0
      /\ \/ prompting # <<>>
         \/ wire' = z /\ prompting' = prompting
  BY DeliverGets
<1>2. is_receive' = 1 /\ doubt' = doubt
  <2>1. /\ is_receive' \in {0, 1}
        /\ ~(cmd = "CIPMUX" /\ is_receive = 0) => doubt' = doubt
    BY <1>1, OnlyOwnEnds
  <2> QED BY <1>1, <2>1
<1>3. wire' = z /\ prompting' = <<>> /\ pending' = <<>>
  BY <1>1 DEF Resting
<1>4. \A i \in 1..Len(z) : i + 1 \in 1..Len(wire) /\ z[i] = wire[i + 1]
  BY <1>1 DEF Dropped
<1> HIDE DEF z
<1>5. Resting'
  BY <1>1, <1>2, <1>3, <1>4 DEF Resting
<1> QED BY <1>1, <1>2, <1>5 DEF InStep, InFlight

\* A line is the last command's, an older one's or an event's.
LEMMA LineMarks ==
  ASSUME TypeInv, NEW i \in 1..Len(wire)
  PROVE  wire[i].whose \in {"own", "old", "event"} /\ wire[i].f \in Frame
<1>1. wire \in Seq(Packet)
  BY DEF TypeInv, LineTyped
<1>2. wire[i] \in Packet
  BY <1>1, ElementOfSeq
<1> QED BY <1>2 DEF Packet

\* Lines that are left over come before the answer.
LEMMA MixedDeliver ==
  ASSUME TypeInv, EventPairs(wire), is_receive = 0, ~quiet, Mixed, Deliver, ~cut'
  PROVE  InStep'
<1>1. /\ wire[1].f \in Frame /\ simx_receive_msg(wire[1].f)
      /\ Record(wire[1].whose = "own")
      /\ UNCHANGED <<cmd, pending, quiet>>
      /\ prompting' = <<>> \/ prompting' = prompting
  BY DeliverGets
<1>2. /\ Len(wire) \in Nat /\ Len(wire) >= 1 /\ Len(wire') \in Nat
      /\ Len(wire) - 1 <= Len(wire')
      /\ \A i \in 1..(Len(wire) - 1) : wire'[i] = wire[i + 1]
      /\ \A i \in 1..Len(wire') :
           i \in 1..(Len(wire) - 1) \/ (prompting # <<>> /\ wire'[i].whose = prompting[1].whose)
  BY PassedLines
<1>3. is_receive' = 0
  BY <1>1, OnlyOwnEnds
<1>4. prompting # <<>> => prompting[1].whose = "own"
  <2> SUFFICES ASSUME prompting # <<>> PROVE prompting[1].whose = "own"
    OBVIOUS
  <2>1. prompting \in Seq(Posted)
    BY DEF TypeInv, LineTyped
  <2>2. Len(prompting) \in Nat /\ Len(prompting) # 0
    BY <2>1, EmptySeq
  <2>3. 1 \in 1..Len(prompting)
    BY <2>2
  <2> QED BY <2>3 DEF Mixed
<1>5. \A i \in 1..Len(wire') : wire'[i].whose = "old" =>
        i + 1 \in 1..Len(wire) /\ wire'[i] = wire[i + 1]
  <2> SUFFICES ASSUME NEW i \in 1..Len(wire'), wire'[i].whose = "old"
      PROVE  i + 1 \in 1..Len(wire) /\ wire'[i] = wire[i + 1]
    OBVIOUS
  <2>1. i \in 1..(Len(wire) - 1)
    BY <1>2, <1>4
  <2> QED BY <1>2, <2>1
<1>6. \A i \in 1..Len(wire') : wire'[i].whose = "old" => wire'[i].f.text \in {"CRLF", "CLIENT"}
  BY <1>5 DEF Mixed
<1>7. ASSUME NEW i \in 1..Len(wire'), NEW j \in 1..Len(wire'), i < j, wire'[i].whose = "own",
             wire'[j].whose = "old"
      PROVE  FALSE
  <2>1. j + 1 \in 1..Len(wire) /\ wire'[j] = wire[j + 1] /\ wire[j + 1].whose = "old"
    BY <1>5, <1>7
  <2>2. i \in 1..(Len(wire) - 1) /\ i + 1 \in 1..Len(wire) /\ i + 1 < j + 1
    BY <1>2, <1>7, <2>1
  <2>3. wire[i + 1].whose = "own"
    BY <1>2, <1>7, <2>2
  <2> QED BY <2>1, <2>2, <2>3 DEF Mixed
<1>8. ASSUME cmd = "CIPSTATUS", state' = "MSG", NEW i \in 1..Len(wire'), wire'[i].whose = "old"
      PROVE  FALSE
  <2>1. i + 1 \in 1..Len(wire) /\ wire[i + 1].whose = "old"
    BY <1>5, <1>8
  <2>2. state # "MSG"
    BY <1>8, <2>1 DEF Mixed
  <2>3. wire[1].f.text = "OK"
    BY <1>1, <1>3, <1>8, <2>2, TableBehindOk
  <2>4. 1 \in 1..Len(wire) /\ 1 < i + 1
    BY <1>2, <2>1
  <2>5. wire[1].whose # "old"
    BY <2>3, <2>4 DEF Mixed
  <2>6. wire[1].whose # "event"
    <3>1. wire[1].whose = "event" => wire[1].f = Empty \/ wire[1].f.text \in Events
      BY <2>4 DEF EventPairs
    <3>2. Empty.text = "CRLF" /\ "OK" \notin Events
      BY EventTexts DEF Empty, Line, AnswerOnly
    <3> QED BY <2>3, <3>1, <3>2
  <2>7. wire[1].whose = "own"
    BY <2>4, <2>5, <2>6, LineMarks
  <2> QED BY <2>1, <2>4, <2>7 DEF Mixed
<1>9. /\ \A i \in 1..Len(pending') : pending'[i].whose = "own"
      /\ \A i \in 1..Len(prompting') : prompting'[i].whose = "own"
  <2>1. \A i \in 1..Len(<<>>) : FALSE
    BY EmptySeq
  <2> QED BY <1>1, <2>1 DEF Mixed
<1>10. Mixed'
  BY <1>1, <1>6, <1>7, <1>8, <1>9 DEF Mixed
<1> QED BY <1>1, <1>3, <1>10 DEF InStep, InFlight

LEMMA AnsDeliver ==
  ASSUME TypeInv, ModeInv, AnsInv, Deliver
  PROVE  AnsInv'
<1>1. EventPairs(wire)
  BY DEF AnsInv
<1>2. EventPairs(wire')
  <2> DEFINE z == Tail(wire)
  <2>1. /\ Dropped(z, wire)
        /\ \/ /\ prompting # <<>>
              /\ \E a \in Finished(prompting[1].cmd) : Written(wire', z, a, prompting[1].whose)
           \/ wire' = z
    BY DeliverGets
  <2>2. EventPairs(z)
    BY <1>1, <2>1, DropPairs
  <2>3. prompting # <<>> => prompting[1].whose # "event"
    <3> SUFFICES ASSUME prompting # <<>> PROVE prompting[1].whose # "event"
      OBVIOUS
    <3>1. prompting \in Seq(Posted)
      BY DEF TypeInv, LineTyped
    <3>2. 1 \in 1..Len(prompting)
      BY <3>1, EmptySeq
    <3>3. prompting[1] \in Posted
      BY <3>1, <3>2, ElementOfSeq
    <3> QED BY <3>3 DEF Posted
  <2> HIDE DEF z
  <2> QED BY <2>1, <2>2, <2>3, WritePairs
<1>3. ASSUME ~cut' PROVE InStep'
  <2>1. ~cut
    <3>1. wire[1].f \in Frame /\ simx_receive_msg(wire[1].f) /\ Record(wire[1].whose = "own")
      BY DeliverGets
    <3> QED BY <1>3, <3>1, OnlyOwnEnds
  <2>2. InStep /\ is_receive \in {0, 1}
    BY <2>1 DEF AnsInv, TypeInv, IInv, TypeOK
  <2>3. CASE is_receive = 1
    <3>1. quiet /\ Resting
      BY <2>2, <2>3 DEF InStep, InFlight
    <3> QED BY <1>3, <2>3, <3>1, RestingDeliver
  <2>4. CASE is_receive = 0 /\ ~quiet
    <3>1. Mixed
      BY <2>2, <2>4 DEF InStep, InFlight
    <3> QED BY <1>1, <1>3, <2>4, <3>1, MixedDeliver
  <2>5. CASE is_receive = 0 /\ quiet
    <3>1. Asked \/ (\E a, k, p : Answering(a, k, p)) \/ (\E a, k, p : Completing(a, k, p))
      BY <2>2, <2>5 DEF InStep, InFlight
    <3>2. CASE Asked
      <4>1. is_receive' = 0 /\ Asked' /\ quiet' = quiet
        BY <1>1, <1>3, <2>5, <3>2, AskedDeliver, DeliverGets
      <4> QED BY <2>5, <4>1 DEF InStep, InFlight
    <3>3. CASE \E a, k, p : Answering(a, k, p)
      BY <1>1, <1>3, <2>5, <3>3, AnsweringDeliver
    <3>4. CASE \E a, k, p : Completing(a, k, p)
      BY <1>1, <1>3, <2>5, <3>4, CompletingDeliver
    <3> QED BY <3>1, <3>2, <3>3, <3>4
  <2> QED BY <2>2, <2>3, <2>4, <2>5
<1> QED BY <1>2, <1>3 DEF AnsInv

\* A prompt nobody waits for takes the line behind it along.
LEMMA SpoiltGets ==
  ASSUME TypeInv, DeliverSpoilt
  PROVE  /\ Dropped(Tail(wire), wire) /\ Dropped(Tail(Tail(wire)), Tail(wire))
         /\ Head(wire) = wire[1] /\ wire[1].f.text = "PROMPT" /\ cmd \notin PromptCmds
         /\ simx_receive_msg(Line("TEXT")) /\ Record(FALSE)
         /\ UNCHANGED <<cmd, pending, prompting, quiet, said>> /\ wire' = Tail(Tail(wire))
<1>1. wire \in Seq(Packet) /\ Len(wire) > 1
  BY DEF TypeInv, LineTyped, DeliverSpoilt
<1>2. wire # <<>>
  BY <1>1, EmptySeq
<1>3. /\ Head(wire) = wire[1]
      /\ Tail(wire) \in Seq(Packet) /\ Len(Tail(wire)) = Len(wire) - 1
      /\ \A i \in 1..Len(Tail(wire)) : Tail(wire)[i] = wire[i + 1]
      /\ Len(wire) \in Nat
  BY <1>2, HeadLine DEF TypeInv
<1>4. Dropped(Tail(wire), wire)
  BY <1>1, <1>3 DEF Dropped
<1>5. Dropped(Tail(Tail(wire)), Tail(wire))
  <2> DEFINE z == Tail(wire)
  <2>1. z \in Seq(Packet) /\ Len(z) \in Nat /\ Len(z) >= 1
    BY <1>1, <1>3
  <2> HIDE DEF z
  <2>2. z # <<>>
    BY <2>1, EmptySeq
  <2>3. Len(Tail(z)) = Len(z) - 1 /\ \A i \in 1..Len(Tail(z)) : Tail(z)[i] = z[i + 1]
    <3> HIDE DEF Packet
    <3> QED BY <2>1, <2>2, HeadTailProperties
  <2>4. Dropped(Tail(z), z)
    BY <2>1, <2>3 DEF Dropped
  <2> QED BY <2>4 DEF z
<1>6. simx_receive_msg(Line("TEXT")) /\ Record(FALSE) /\ UNCHANGED <<pending, prompting>>
  BY DEF DeliverSpoilt, modem
<1>7. UNCHANGED <<cmd, quiet, said>>
  BY <1>6, LineKeepsCommand, TextLine DEF TypeInv, Record
<1> QED BY <1>3, <1>4, <1>5, <1>6, <1>7 DEF DeliverSpoilt, Spoilt

\* That happens only to commands sent on a line that was not quiet.
LEMMA NoPromptDue ==
  ASSUME TypeInv, EventPairs(wire), InStep, Len(wire) \in Nat, Len(wire) >= 1,
         wire[1].f.text = "PROMPT", cmd \notin PromptCmds
  PROVE  is_receive = 0 /\ ~quiet /\ Mixed
<1>1. 1 \in 1..Len(wire)
  OBVIOUS
<1>2. Empty.text = "CRLF" /\ "PROMPT" \notin Events
  BY EventTexts DEF Empty, Line, AnswerOnly
<1>3. wire[1].whose # "event"
  <2>1. wire[1].whose = "event" => wire[1].f = Empty \/ wire[1].f.text \in Events
    BY <1>1 DEF EventPairs
  <2> QED BY <1>2, <2>1
<1>4. ~Resting
  BY <1>1, <1>2, <1>3 DEF Resting
<1>5. ~Asked
  BY <1>1, <1>3 DEF Asked, OnlyEvents
<1>6. ASSUME NEW a, NEW k, NEW p, Answering(a, k, p) PROVE FALSE
  <2> DEFINE z == Tail(wire)
  <2>1. FirstAnswer(a, cmd, said) /\ Behind(wire, a, k, p) /\ Len(a) \in Nat
    BY <1>6 DEF Answering, FirstAnswer
  <2>2. k \in 0..Len(a) /\ p \in Nat /\ p + (Len(a) - k) <= Len(wire)
    BY <2>1 DEF Behind
  <2>3. p < 1 /\ 1 <= p + (Len(a) - k) /\ wire[1] = [f |-> a[1 - p + k], whose |-> "own"]
    BY <1>1, <1>3, <2>1 DEF Behind
  <2>4. 1 - p + k \in 1..Len(a)
    BY <2>1, <2>2, <2>3
  <2>5. a[1 - p + k].text = "PROMPT"
    BY <2>3
  <2>6. said \in Nat
    BY SaidNumber
  <2> QED BY <2>1, <2>4, <2>5, <2>6, PromptedCommands
<1>7. ASSUME NEW a, NEW k, NEW p, Completing(a, k, p) PROVE FALSE
  BY <1>7, TextCommands DEF Completing
<1>8. is_receive \in {0, 1}
  BY DEF TypeInv, IInv, TypeOK
<1> QED BY <1>4, <1>5, <1>6, <1>7, <1>8 DEF InStep, InFlight

LEMMA AnsSpoilt ==
  ASSUME TypeInv, AnsInv, DeliverSpoilt
  PROVE  AnsInv'
<1> DEFINE z == Tail(wire)
           y == Tail(Tail(wire))
<1>1. /\ Dropped(z, wire) /\ Dropped(y, z)
      /\ wire[1].f.text = "PROMPT" /\ cmd \notin PromptCmds
      /\ simx_receive_msg(Line("TEXT")) /\ Record(FALSE)
      /\ UNCHANGED <<cmd, pending, prompting, quiet>> /\ wire' = y
  BY SpoiltGets
<1> HIDE DEF z, y
<1>2. EventPairs(wire')
  BY <1>1, DropPairs DEF AnsInv
<1>3. ASSUME ~cut' PROVE InStep'
  <2>1. ~cut /\ (is_receive = 0 => is_receive' = 0)
    <3>1. FALSE \in BOOLEAN
      OBVIOUS
    <3>2. /\ is_receive' \in {0, 1} /\ ~cut
          /\ is_receive = 0 /\ is_receive' = 1 => FALSE /\ quiet
      BY <1>1, <1>3, <3>1, TextLine, OnlyOwnEnds
    <3> QED BY <3>2
  <2>2. InStep /\ EventPairs(wire)
    BY <2>1 DEF AnsInv
  <2>3. Len(wire) \in Nat /\ Len(wire) >= 1
    BY <1>1 DEF Dropped
  <2>4. is_receive = 0 /\ ~quiet /\ Mixed
    BY <1>1, <2>2, <2>3, NoPromptDue
  <2>5. \A i \in 1..Len(wire') : i + 2 \in 1..Len(wire) /\ wire'[i] = wire[i + 2]
    <3>1. \A i \in 1..Len(y) : i + 1 \in 1..Len(z) /\ i + 1 + 1 = i + 2 /\ i + 2 \in 1..Len(wire)
      BY <1>1 DEF Dropped
    <3>2. \A i \in 1..Len(y) : y[i] = z[i + 1] /\ z[i + 1] = wire[i + 1 + 1]
      BY <1>1, <3>1 DEF Dropped
    <3> QED BY <1>1, <3>1, <3>2
  <2>6. cmd = "CIPSTATUS" /\ state' = "MSG" => state = "MSG"
    <3>1. Line("TEXT").text = "TEXT"
      BY DEF Line
    <3> QED BY <1>1, <2>1, <2>4, <3>1, TextLine, TableBehindOk
  <2>7. \A i, j \in 1..Len(wire') : i < j /\ wire'[i].whose = "own" => wire'[j].whose # "old"
    <3> SUFFICES ASSUME NEW i \in 1..Len(wire'), NEW j \in 1..Len(wire'), i < j, wire'[i].whose = "own"
        PROVE  wire'[j].whose # "old"
      OBVIOUS
    <3>1. i + 2 < j + 2
      OBVIOUS
    <3> QED BY <2>4, <2>5, <3>1 DEF Mixed
  <2>8. Mixed'
    BY <1>1, <2>4, <2>5, <2>6, <2>7 DEF Mixed
  <2> QED BY <1>1, <2>1, <2>4, <2>8 DEF InStep, InFlight
<1> QED BY <1>2, <1>3 DEF AnsInv

-----------------------------------------------------------------------------
(* The other steps.                                                        *)

\* With the driver and the modem as they were, the lines may get more of events.
LEMMA InStepKept ==
  ASSUME UNCHANGED <<is_receive, quiet, state, cmd, mux, said, modem_mux, pending, prompting, doubt>>,
         Whole(wire') <=> Whole(wire),
         \A a, k, p : Behind(wire, a, k, p) /\ Len(a) \in Nat => Behind(wire', a, k, p),
         OnlyEvents(wire) => OnlyEvents(wire'),
         Resting => Resting', Mixed => Mixed', InStep
  PROVE  InStep'
<1>1. \A s : Fresh(s) => Fresh(s)'
  BY DEF Fresh, AfterFirst
<1>2. Asked => Asked'
  BY <1>1 DEF Asked
<1>3. ASSUME NEW a, NEW k, NEW p, Answering(a, k, p) PROVE Answering(a, k, p)'
  <2>1. /\ FirstAnswer(a, cmd, said) /\ Behind(wire, a, k, p) /\ pending = <<>> /\ Len(a) \in Nat
        /\ IF IsPrompt(a) THEN Len(prompting) = 1 /\ prompting[1].whose = "own" ELSE prompting = <<>>
    BY <1>3 DEF Answering, FirstAnswer
  <2>2. Behind(wire', a, k, p)
    BY <2>1
  <2>3. CASE k = 0 /\ Fresh("RN")
    BY <1>1, <2>1, <2>2, <2>3, AnsweringNext
  <2>4. CASE /\ k > 0 /\ k < Len(a) /\ p = 0 /\ state = StateAfter(k, Len(a))
             /\ cmd = "CIPSTATUS" /\ mux = 0 => k <= 3
    BY <2>1, <2>2, <2>4, AnsweringNext
  <2>5. CASE k = Len(a) /\ ~IsPrompt(a) /\ cmd = "CIPSTATUS" /\ mux # 0 /\ state = "MSG"
    BY <2>1, <2>2, <2>5, AnsweringNext
  <2> QED BY <1>3, <2>3, <2>4, <2>5, Zenon DEF Answering
<1>4. ASSUME NEW a, NEW k, NEW p, Completing(a, k, p) PROVE Completing(a, k, p)'
  <2>1. LastAnswer(a, cmd) /\ Behind(wire', a, k, p) /\ pending' = <<>> /\ prompting' = <<>>
    BY <1>4 DEF Completing, LastAnswer
  <2>2. CASE k = 0 /\ Fresh("MSG")
    BY <1>1, <2>1, <2>2, CompletingNext
  <2>3. CASE k > 0 /\ k < Len(a) /\ p = 0 /\ state = StateAfterText(k)
    BY <2>1, <2>3, CompletingNext
  <2> QED BY <1>4, <2>2, <2>3, Zenon DEF Completing
<1>5. CASE ~InFlight
  BY <1>5 DEF InStep, InFlight
<1>6. CASE InFlight /\ ~quiet
  BY <1>6 DEF InStep, InFlight
<1>7. CASE InFlight /\ quiet
  <2>1. Asked \/ (\E a, k, p : Answering(a, k, p)) \/ (\E a, k, p : Completing(a, k, p))
    BY <1>7 DEF InStep
  <2>2. Asked' \/ (\E a, k, p : Answering(a, k, p)') \/ (\E a, k, p : Completing(a, k, p)')
    BY <1>2, <1>3, <1>4, <2>1
  <2> QED BY <1>7, <2>2 DEF InStep, InFlight
<1> QED BY <1>5, <1>6, <1>7

LEMMA AnsSame ==
  ASSUME AnsInv,
         UNCHANGED <<is_receive, quiet, cut, state, cmd, mux, said, modem_mux, pending, prompting,
                     doubt, wire>>
  PROVE  AnsInv'
<1>1. EventPairs(wire')
  BY DEF AnsInv
<1>2. Resting => Resting'
  BY DEF Resting
<1>3. Mixed => Mixed'
  BY DEF Mixed
<1>4. ASSUME ~cut' PROVE InStep'
  BY <1>2, <1>3, <1>4, InStepKept DEF AnsInv
<1> QED BY <1>1, <1>4 DEF AnsInv

LEMMA AnsTimer ==
  ASSUME TypeInv, AnsInv, Timer
  PROVE  AnsInv'
<1>1. /\ UNCHANGED <<cmd, reply, user_data, modes, fcmd_finished, state>> /\ is_receive = 0
      /\ UNCHANGED <<pending, prompting, modem_mux, wire, quiet, said>>
  BY TimerKeepsCommand DEF Timer, modem, Record
<1>2. Record(FALSE) /\ is_receive' \in {0, 1}
  BY <1>1 DEF Timer, simx_tick_1ms, Tick
<1>3. CASE is_receive' = 1
  <2>1. cut' = TRUE
    BY <1>1, <1>2, <1>3 DEF Record, Concluded
  <2>2. EventPairs(wire')
    BY <1>1 DEF AnsInv
  <2> QED BY <2>1, <2>2 DEF AnsInv
<1>4. CASE is_receive' = 0
  <2>1. ~Concluded
    BY <1>4 DEF Concluded
  <2>2. cut' = (cut \/ FALSE) /\ doubt' = doubt
    BY <1>2, <2>1 DEF Record
  <2>3. cut' = cut
    <3>1. cut \in BOOLEAN
      BY DEF TypeInv, LineTyped
    <3> QED BY <2>2, <3>1
  <2>4. mux' = mux /\ is_receive' = is_receive
    BY <1>1, <1>4 DEF modes
  <2> QED BY <1>1, <2>2, <2>3, <2>4, AnsSame
<1> QED BY <1>2, <1>3, <1>4

\* An event is announced.
LEMMA AnsAnnounce ==
  ASSUME TypeInv, AnsInv, Announce
  PROVE  AnsInv'
<1>1. PICK t \in Events :
        wire' = wire \o Stamp(<<Line("CRLF"),
                  IF t \in LinkTexts THEN Linked(t)
                  ELSE IF t = "+CMTI" THEN LinkLine(t, 1) ELSE Line(t)>>, "event")
  BY DEF Announce
<1>2. PICK f \in Frame :
        /\ f.text = t
        /\ f = IF t \in LinkTexts THEN Linked(t)
               ELSE IF t = "+CMTI" THEN LinkLine(t, 1) ELSE Line(t)
        /\ <<Line("CRLF"), f>> \in Seq(Frame)
  BY EventSeq
<1> DEFINE x == <<Line("CRLF"), f>>
<1>3. Len(x) = 2 /\ x[1] = Empty /\ x[2] = f /\ x \in Seq(Frame)
  BY <1>2 DEF Empty
<1>4. wire' = wire \o Stamp(x, "event")
  BY <1>1, <1>2
<1> HIDE DEF x
<1>5. Written(wire', wire, x, "event")
  <2>1. wire \in Seq(Packet) /\ "event" \in {"own", "old", "event"}
    BY DEF TypeInv, LineTyped
  <2> QED BY <1>3, <1>4, <2>1, WrittenLines
<1>6. x[2].text \in Events /\ EventPairs(wire)
  BY <1>2, <1>3 DEF AnsInv
<1>7. \A i \in 1..Len(wire) : wire[i].whose # "event"
  <2>1. wire \in Seq(Packet)
    BY DEF TypeInv, LineTyped
  <2>2. DOMAIN wire = 1..Len(wire)
    BY <2>1, LenProperties
  <2> QED BY <2>2 DEF Announce
<1>8. /\ EventPairs(wire')
      /\ \A a, k, p : Behind(wire, a, k, p) /\ Len(a) \in Nat => Behind(wire', a, k, p)
      /\ OnlyEvents(wire) => OnlyEvents(wire')
  BY <1>3, <1>5, <1>6, <1>7, WriteEvent
<1>9. Whole(wire') <=> Whole(wire)
  <2>1. Len(x) > 0
    BY <1>3
  <2> QED BY <1>3, <1>5, <2>1, WriteWhole
<1>10. UNCHANGED <<is_receive, quiet, cut, state, cmd, mux, said, modem_mux, pending, prompting, doubt>>
  BY DEF Announce, vars, modes, modem, history
<1>11. /\ Len(wire) \in Nat /\ Len(wire') = Len(wire) + 2
       /\ \A i \in 1..Len(wire) : wire'[i] = wire[i]
       /\ \A i \in 1..Len(wire') : i \in 1..Len(wire) \/ wire'[i].whose = "event"
  BY <1>3, <1>5 DEF Written
<1>12. Resting => Resting'
  BY <1>10, <1>11 DEF Resting
<1>13. Mixed => Mixed'
  <2> SUFFICES ASSUME Mixed PROVE Mixed'
    OBVIOUS
  <2>1. \A i \in 1..Len(wire') : wire'[i].whose # "event" => i \in 1..Len(wire) /\ wire'[i] = wire[i]
    BY <1>11
  <2>2. \A i \in 1..Len(wire') : wire'[i].whose = "old" => wire'[i].f.text \in {"CRLF", "CLIENT"}
    BY <2>1 DEF Mixed
  <2>3. \A i, j \in 1..Len(wire') : i < j /\ wire'[i].whose = "own" => wire'[j].whose # "old"
    <3> SUFFICES ASSUME NEW i \in 1..Len(wire'), NEW j \in 1..Len(wire'), i < j,
                        wire'[i].whose = "own", wire'[j].whose = "old"
        PROVE  FALSE
      OBVIOUS
    <3>1. i \in 1..Len(wire) /\ wire[i].whose = "own" /\ j \in 1..Len(wire) /\ wire[j].whose = "old"
      BY <2>1
    <3> QED BY <3>1 DEF Mixed
  <2>4. cmd = "CIPSTATUS" /\ state = "MSG" => \A i \in 1..Len(wire') : wire'[i].whose # "old"
    BY <2>1 DEF Mixed
  <2> QED BY <1>10, <2>2, <2>3, <2>4 DEF Mixed
<1>14. ASSUME ~cut' PROVE InStep'
  BY <1>8, <1>9, <1>10, <1>12, <1>13, <1>14, InStepKept DEF AnsInv
<1> QED BY <1>8, <1>14 DEF AnsInv

\* Lines grow older.
LEMMA AgedPairs ==
  ASSUME NEW w \in Seq(Packet), EventPairs(w)
  PROVE  /\ EventPairs(Aged(w)) /\ Len(Aged(w)) = Len(w)
         /\ \A i \in 1..Len(w) :
              /\ Aged(w)[i].f = w[i].f /\ Aged(w)[i].whose \in {"event", "old"}
              /\ Aged(w)[i].whose = "event" <=> w[i].whose = "event"
<1> DEFINE z == Aged(w)
<1>1. /\ z \in Seq(Packet) /\ Len(z) = Len(w)
      /\ \A i \in 1..Len(w) : z[i] = [w[i] EXCEPT !.whose = IF @ = "own" THEN "old" ELSE @]
  BY AgedSeq
<1>2. \A i \in 1..Len(w) : w[i] \in Packet
  BY ElementOfSeq
<1> HIDE DEF z
<1>3. \A i \in 1..Len(w) : /\ z[i].f = w[i].f /\ z[i].whose \in {"event", "old"}
                           /\ z[i].whose = "event" <=> w[i].whose = "event"
  BY <1>1, <1>2 DEF Packet
<1>4. Len(w) \in Nat
  BY LenProperties
<1>5. EventPairs(z)
  <2>1. \A i \in 1..Len(z) : z[i].whose = "event" => z[i].f = Empty \/ z[i].f.text \in Events
    BY <1>1, <1>3 DEF EventPairs
  <2>2. ASSUME NEW i \in 1..Len(z), z[i].whose = "event", z[i].f = Empty
        PROVE  i < Len(z) /\ z[i + 1].whose = "event" /\ z[i + 1].f.text \in Events
    <3>1. i < Len(w) /\ w[i + 1].whose = "event" /\ w[i + 1].f.text \in Events
      BY <1>1, <1>3, <2>2 DEF EventPairs
    <3>2. i + 1 \in 1..Len(w)
      BY <1>1, <1>4, <3>1
    <3> QED BY <1>1, <1>3, <3>1, <3>2
  <2>3. ASSUME NEW i \in 1..(Len(z) - 1), z[i].whose # "event", z[i + 1].whose = "event"
        PROVE  z[i + 1].f = Empty
    <3>1. i \in 1..Len(w) /\ i + 1 \in 1..Len(w) /\ i \in 1..(Len(w) - 1)
      BY <1>1, <1>4
    <3>2. w[i].whose # "event" /\ w[i + 1].whose = "event" /\ z[i + 1].f = w[i + 1].f
      BY <1>3, <2>3, <3>1
    <3> QED BY <3>1, <3>2 DEF EventPairs
  <2> QED BY <2>1, <2>2, <2>3 DEF EventPairs
<1> QED BY <1>1, <1>3, <1>5 DEF z

\* The worker's next call.
LEMMA AnsCall ==
  ASSUME TypeInv, AnsInv, NEW r \in Replies, Call(r)
  PROVE  AnsInv'
<1>1. /\ is_receive = 1 /\ is_receive' = 0 /\ state' = "RN" /\ reply' = r
      /\ cmd' \in Cmds /\ FieldsTyped'
  BY CallStarts
<1>2. /\ prompting' = Aged(prompting) /\ wire' = Aged(wire)
      /\ quiet' = LineQuiet /\ cut' = (cut /\ ~LineQuiet)
      /\ prompting = <<>> =>
           pending' = Append(Aged(pending), [cmd |-> cmd', arg |-> user_data'[r], whose |-> "own"])
  BY DEF Call
<1>3. wire \in Seq(Packet) /\ pending \in Seq(Posted) /\ prompting \in Seq(Posted) /\ EventPairs(wire)
  BY DEF TypeInv, LineTyped, AnsInv
<1>4. /\ EventPairs(wire') /\ Len(wire') = Len(wire)
      /\ \A i \in 1..Len(wire) :
           /\ wire'[i].f = wire[i].f /\ wire'[i].whose \in {"event", "old"}
           /\ wire'[i].whose = "event" <=> wire[i].whose = "event"
  BY <1>2, <1>3, AgedPairs
<1>5. ASSUME pending = <<>>, prompting = <<>>
      PROVE  Len(pending') = 1 /\ pending'[1].whose = "own" /\ prompting' = <<>>
  <2> DEFINE n == [cmd |-> cmd', arg |-> user_data'[r], whose |-> "own"]
             g == Aged(pending)
  <2>1. /\ g \in Seq(Posted) /\ Len(g) = Len(pending)
        /\ Aged(prompting) \in Seq(Posted) /\ Len(Aged(prompting)) = Len(prompting)
    BY <1>3, AgedSeq
  <2>2. Len(g) = 0 /\ prompting' = <<>>
    BY <1>2, <1>5, <2>1, EmptySeq
  <2>3. n \in Posted
    BY <1>1 DEF Posted, FieldsTyped
  <2>4. pending' = Append(g, n) /\ n.whose = "own"
    BY <1>2, <1>5
  <2> HIDE DEF n, g
  <2>5. Len(pending') = 1 /\ pending'[1] = n
    BY <2>1, <2>2, <2>3, <2>4, AppendProperties
  <2> QED BY <2>2, <2>4, <2>5
<1>6. CASE LineQuiet
  <2>1. Len(wire') = 0 /\ quiet'
    BY <1>2, <1>4, <1>6, EmptySeq DEF LineQuiet
  <2>2. OnlyEvents(wire') /\ Whole(wire')
    BY <2>1 DEF OnlyEvents, Whole
  <2>3. Asked'
    BY <1>1, <1>5, <1>6, <2>2 DEF Asked, Fresh, LineQuiet
  <2> QED BY <1>1, <1>4, <2>1, <2>3 DEF AnsInv, InStep, InFlight
<1>7. CASE ~LineQuiet
  <2>1. ~quiet'
    BY <1>2, <1>7
  <2>2. ASSUME ~cut' PROVE InStep'
    <3>1. ~cut
      BY <1>2, <1>7, <2>2
    <3>2. Resting
      BY <1>1, <3>1 DEF AnsInv, InStep, InFlight
    <3>3. Len(pending') = 1 /\ pending'[1].whose = "own" /\ prompting' = <<>>
      BY <1>5, <3>2 DEF Resting
    <3>4. \A i \in 1..Len(pending') : pending'[i].whose = "own"
      BY <3>3
    <3>5. \A i \in 1..Len(<<>>) : FALSE
      BY EmptySeq
    <3>6. \A i \in 1..Len(wire') : wire'[i].whose # "own"
      BY <1>4
    <3>7. Empty.text = "CRLF"
      BY DEF Empty, Line
    <3>8. \A i \in 1..Len(wire') : wire'[i].whose = "old" => wire'[i].f.text \in {"CRLF", "CLIENT"}
      BY <1>4, <3>2, <3>7 DEF Resting
    <3>9. Mixed'
      BY <1>1, <3>3, <3>4, <3>5, <3>6, <3>8 DEF Mixed
    <3> QED BY <1>1, <2>1, <3>9 DEF InStep, InFlight
  <2> QED BY <1>4, <2>2 DEF AnsInv
<1> QED BY <1>6, <1>7

\* What the modem writes when it takes the last command is an answer to that, in
\* the mode it has then.
LEMMA AnswerSpelt ==
  ASSUME NEW a, NEW c, NEW v, FirstAnswer(a, c, v), cmd' = c, said' = v,
         modem_mux' = modem_mux \/ IsRefusal(a) \/ (c = "CIPMUX" /\ a[2] = Line("OK"))
  PROVE  FirstAnswer(a, cmd, said)'
<1>1. CASE modem_mux' = modem_mux
  <2>1. \A t : Linked(t)' = Linked(t)
    BY <1>1 DEF Linked
  <2>2. IsVerdict(a, c) => IsVerdict(a, cmd)'
    BY <2>1 DEF IsVerdict
  <2>3. IsTable(a, c, v) => IsTable(a, cmd, said)'
    BY <1>1 DEF IsTable
  <2>4. IsReport(a, c, v) => IsReport(a, cmd, said)'
    BY DEF IsReport
  <2>5. IsSms(a, c, v) => IsSms(a, cmd, said)'
    BY DEF IsSms
  <2>6. IsAddress(a, c, v) => IsAddress(a, cmd, said)'
    BY DEF IsAddress
  <2> QED BY <2>2, <2>3, <2>4, <2>5, <2>6 DEF FirstAnswer
<1>2. CASE IsRefusal(a)
  BY <1>2 DEF FirstAnswer
<1>3. CASE c = "CIPMUX" /\ a[2] = Line("OK")
  <2>1. Len(a) = 2
    BY <1>3 DEF FirstAnswer, IsRefusal, IsReport, IsSms, IsVerdict, IsPrompt, IsAddress, IsTable,
       RframeCmds, IpframeCmds
  <2>2. IsVerdict(a, cmd)'
    BY <1>3, <2>1 DEF IsVerdict, DframeCmds
  <2> QED BY <2>2 DEF FirstAnswer
<1> QED BY <1>1, <1>2, <1>3

LEMMA OwnAnswer ==
  ASSUME TypeInv, ModeInv, Work, Head(pending).whose = "own"
  PROVE  \E a : /\ Written(wire', wire, a, "own") /\ FirstAnswer(a, cmd, said)'
                /\ prompting' = IF IsPrompt(a) THEN <<Head(pending)>> ELSE <<>>
<1> DEFINE p == Head(pending)
<1>1. p \in Posted /\ p.whose = "own" /\ p.cmd = cmd /\ prompting = <<>> /\ wire \in Seq(Packet)
  BY TakenCommand DEF TypeInv, LineTyped
<1>2. cmd \in Cmds /\ cmd' = cmd /\ "own" \in {"own", "old", "event"}
  BY <1>1 DEF Posted, Work, vars
<1>3. \/ \E a \in Denied(p.cmd) : /\ wire' = wire \o Stamp(a, "own")
                                    /\ UNCHANGED <<prompting, modem_mux, said>>
      \/ \E v \in IF cmd \in Queries THEN Numbers ELSE {0} :
           /\ wire' = wire \o Stamp(Granted(cmd, v), "own")
           /\ prompting' = IF cmd \in PromptCmds THEN <<p>> ELSE <<>>
           /\ modem_mux' = IF cmd = "CIPMUX" THEN p.arg ELSE modem_mux
           /\ said' = v
  BY <1>1 DEF Work
<1> HIDE DEF p
<1>4. ASSUME NEW a \in Denied(p.cmd), wire' = wire \o Stamp(a, "own"),
             UNCHANGED <<prompting, modem_mux, said>>
      PROVE  \E b : /\ Written(wire', wire, b, "own") /\ FirstAnswer(b, cmd, said)'
                    /\ prompting' = IF IsPrompt(b) THEN <<p>> ELSE <<>>
  <2>2. a \in Seq(Frame)
    BY DeniedSeq
  <2>3. FirstAnswer(a, cmd, said) /\ IsRefusal(a)
    BY RefusalLines
  <2>4. FirstAnswer(a, cmd, said)'
    BY <1>2, <1>4, <2>3, AnswerSpelt
  <2>5. ~IsPrompt(a)
    <3>1. a[2].text # "PROMPT"
      BY <2>3, RefusalLine DEF Refusals
    <3> QED BY <3>1 DEF IsPrompt, Line
  <2>6. Written(wire', wire, a, "own")
    BY <1>1, <1>2, <1>4, <2>2, WrittenLines
  <2>7. prompting' = <<>>
    BY <1>1, <1>4
  <2> QED BY <2>4, <2>5, <2>6, <2>7
<1>5. ASSUME NEW v \in IF cmd \in Queries THEN Numbers ELSE {0},
             wire' = wire \o Stamp(Granted(cmd, v), "own"),
             prompting' = IF cmd \in PromptCmds THEN <<p>> ELSE <<>>,
             modem_mux' = IF cmd = "CIPMUX" THEN p.arg ELSE modem_mux,
             said' = v
      PROVE  \E a : /\ Written(wire', wire, a, "own") /\ FirstAnswer(a, cmd, said)'
                    /\ prompting' = IF IsPrompt(a) THEN <<p>> ELSE <<>>
  <2>0. PICK a : a = Granted(cmd, v)
    OBVIOUS
  <2>1. v \in Nat
    BY <1>5, NumbersAssumption
  <2>2. FirstAnswer(a, cmd, v) /\ (cmd \in PromptCmds => IsPrompt(a))
    BY <1>2, <2>0, <2>1, FirstLines
  <2>3. cmd = "CIPMUX" => a[2] = Line("OK")
    <3>1. "OK" \in FrameTexts
      BY AnswerTexts
    <3>2. cmd = "CIPMUX" => a = Verdict("OK")
      BY <2>0 DEF Granted, RframeCmds, PromptCmds, WframeCmds, SdframeCmds
    <3> QED BY <3>1, <3>2, VerdictLines
  <2>4. Written(wire', wire, a, "own")
    <3>1. a \in Seq(Frame)
      BY <2>2 DEF FirstAnswer
    <3> QED BY <1>1, <1>2, <1>5, <2>0, <3>1, WrittenLines
  <2>5. FirstAnswer(a, cmd, said)'
    <3>1. modem_mux' = modem_mux \/ (cmd = "CIPMUX" /\ a[2] = Line("OK"))
      BY <1>5, <2>3
    <3>2. PICK c : c = cmd
      OBVIOUS
    <3>3. cmd' = c /\ said' = v /\ FirstAnswer(a, c, v)
      BY <1>2, <1>5, <2>2, <3>2
    <3>4. modem_mux' = modem_mux \/ IsRefusal(a) \/ (c = "CIPMUX" /\ a[2] = Line("OK"))
      BY <3>1, <3>2
    <3> QED BY <3>3, <3>4, AnswerSpelt
  <2>6. IsPrompt(a) => cmd \in PromptCmds
    <3> SUFFICES ASSUME IsPrompt(a) PROVE cmd \in PromptCmds
      OBVIOUS
    <3>1. 2 \in 1..Len(a) /\ a[2].text = "PROMPT"
      BY DEF IsPrompt, Line
    <3> QED BY <2>0, <2>1, <2>2, <3>1, PromptedCommands
  <2>7. prompting' = IF IsPrompt(a) THEN <<p>> ELSE <<>>
    BY <1>5, <2>2, <2>6
  <2> QED BY <2>4, <2>5, <2>7
<1> QED BY <1>3, <1>4, <1>5 DEF p

\* The modem takes a command and writes its answer.
LEMMA AnsWork ==
  ASSUME TypeInv, ModeInv, AnsInv, Work
  PROVE  AnsInv'
<1> DEFINE p == Head(pending)
<1>1. /\ p = pending[1] /\ p \in Posted /\ 1 \in 1..Len(pending)
      /\ p.whose = "own" => pending' = <<>>
      /\ OnlyEvents(wire) /\ prompting = <<>> /\ wire \in Seq(Packet)
  BY TakenCommand DEF TypeInv, LineTyped, OnlyEvents
<1>2. UNCHANGED <<is_receive, state, cmd, mux, quiet, cut, doubt>>
  BY DEF Work, vars, modes
<1>3. \E a \in Seq(Frame) : wire' = wire \o Stamp(a, p.whose)
  <2>1. \A a \in Denied(p.cmd) : a \in Seq(Frame)
    BY DeniedSeq
  <2>2. p.cmd \in Cmds
    BY <1>1 DEF Posted
  <2>3. \A v \in IF p.cmd \in Queries THEN Numbers ELSE {0} : Granted(p.cmd, v) \in Seq(Frame)
    BY <2>2, GrantedSeq, NumbersAssumption
  <2>4. ASSUME NEW b \in Denied(p.cmd), wire' = wire \o Stamp(b, p.whose)
        PROVE  \E a \in Seq(Frame) : wire' = wire \o Stamp(a, p.whose)
    BY <2>1, <2>4
  <2>5. ASSUME NEW v \in IF p.cmd \in Queries THEN Numbers ELSE {0},
               wire' = wire \o Stamp(Granted(p.cmd, v), p.whose)
        PROVE  \E a \in Seq(Frame) : wire' = wire \o Stamp(a, p.whose)
    BY <2>3, <2>5
  <2> QED BY <2>4, <2>5 DEF Work
<1>4. p.whose \in {"own", "old", "event"} /\ p.whose # "event"
  BY <1>1 DEF Posted
<1> HIDE DEF p
<1>5. EventPairs(wire')
  <2>1. PICK a \in Seq(Frame) : wire' = wire \o Stamp(a, p.whose)
    BY <1>3
  <2>2. Written(wire', wire, a, p.whose)
    BY <1>1, <1>4, <2>1, WrittenLines
  <2> QED BY <1>4, <2>2, WritePairs DEF AnsInv
<1>6. ASSUME ~cut' PROVE InStep'
  <2>1. InStep /\ ~cut
    BY <1>2, <1>6 DEF AnsInv
  <2>2. InFlight
    <3>1. \A i \in 1..Len(<<>>) : FALSE
      BY EmptySeq
    <3>2. pending # <<>>
      BY <1>1, <3>1
    <3> QED BY <2>1, <3>2 DEF InStep, Resting
  <2>3. p.whose = "own"
    <3>1. ~quiet => p.whose = "own"
      BY <1>1, <2>1, <2>2 DEF InStep, Mixed
    <3>2. quiet => pending # <<>> /\ (pending = <<>> \/ Asked)
      <4>1. \A i \in 1..Len(<<>>) : FALSE
        BY EmptySeq
      <4> QED BY <1>1, <2>1, <2>2, <4>1 DEF InStep, Answering, Completing
    <3> QED BY <1>1, <3>1, <3>2 DEF Asked
  <2>4. PICK a : /\ Written(wire', wire, a, "own") /\ FirstAnswer(a, cmd, said)'
                 /\ prompting' = IF IsPrompt(a) THEN <<p>> ELSE <<>>
    BY <2>3, OwnAnswer DEF p
  <2>5. pending' = <<>> /\ (prompting' = <<>> \/ prompting' = <<p>>)
    BY <1>1, <2>3, <2>4
  <2>6. CASE quiet
    <3>1. Asked
      <4>1. pending # <<>>
        <5>1. \A i \in 1..Len(<<>>) : FALSE
          BY EmptySeq
        <5> QED BY <1>1, <5>1
      <4> QED BY <2>1, <2>2, <2>6, <4>1 DEF InStep, Answering, Completing
    <3>2. Behind(wire', a, 0, Len(wire))
      BY <1>1, <2>4, WriteAnswer
    <3>3. Whole(wire') <=> Whole(wire)
      BY <2>4, WriteWhole
    <3>4. Fresh("RN")'
      BY <1>2, <3>1, <3>3 DEF Asked, Fresh, AfterFirst
    <3>5. IF IsPrompt(a) THEN Len(prompting') = 1 /\ prompting'[1].whose = "own" ELSE prompting' = <<>>
      BY <2>3, <2>4
    <3>6. PICK q : q = Len(wire)
      OBVIOUS
    <3>7. Answering(a, 0, q)'
      <4>1. FirstAnswer(a, cmd, said)' /\ pending' = <<>> /\ 0 = 0
        BY <2>4, <2>5
      <4> QED BY <3>2, <3>4, <3>5, <3>6, <4>1 DEF Answering
    <3> QED BY <1>2, <2>2, <2>6, <3>7 DEF InStep, InFlight
  <2>7. CASE ~quiet
    <3>1. \A i \in 1..Len(wire') : wire'[i].whose # "old"
      <4>1. /\ \A i \in 1..Len(wire) : wire'[i] = wire[i]
            /\ \A i \in 1..Len(wire') : i \in 1..Len(wire) \/ wire'[i].whose = "own"
        BY <2>4 DEF Written
      <4> QED BY <1>1, <4>1 DEF OnlyEvents
    <3>2. \A i \in 1..Len(<<>>) : FALSE
      BY EmptySeq
    <3>3. \A i \in 1..Len(<<p>>) : <<p>>[i].whose = "own"
      BY <2>3
    <3>4. Mixed'
      BY <2>5, <3>1, <3>2, <3>3 DEF Mixed
    <3> QED BY <1>2, <2>2, <2>7, <3>4 DEF InStep, InFlight
  <2> QED BY <2>6, <2>7
<1> QED BY <1>5, <1>6 DEF AnsInv

LEMMA AnsInit == SystemInit => AnsInv
<1> SUFFICES ASSUME SystemInit PROVE AnsInv
  OBVIOUS
<1>1. /\ pending = <<>> /\ prompting = <<>> /\ wire = <<>> /\ quiet = TRUE /\ is_receive = 1
  BY DEF SystemInit, Init
<1>2. Len(wire) = 0
  BY <1>1, EmptySeq
<1>3. EventPairs(wire) /\ Resting
  BY <1>1, <1>2 DEF EventPairs, Resting
<1> QED BY <1>1, <1>3 DEF AnsInv, InStep, InFlight

LEMMA AnsNext ==
  ASSUME TypeInv, ModeInv, AnsInv, [SystemNext]_allVars
  PROVE  AnsInv'
<1>1. CASE StartScript \/ Return \/ UNCHANGED allVars
  <2>1. UNCHANGED <<is_receive, quiet, cut, state, cmd, mux, said, modem_mux, pending, prompting,
                    doubt, wire>>
    BY <1>1 DEF StartScript, Return, allVars, vars, modes, modem, history
  <2> QED BY <2>1, AnsSame
<1> QED
  BY <1>1, AnsCall, AnsWork, AnsAnnounce, AnsDeliver, AnsSpoilt, AnsTimer DEF SystemNext

LEMMA AlwaysAns == SystemSpec => [](TypeInv /\ ModeInv /\ AnsInv)
<1>1. SystemInit => AnsInv
  BY AnsInit
<1>2. TypeInv /\ ModeInv /\ AnsInv /\ [SystemNext]_allVars => AnsInv'
  BY AnsNext
<1> QED BY <1>1, <1>2, AlwaysMode, PTL DEF SystemSpec

-----------------------------------------------------------------------------
(* The theorems.                                                           *)

\* Only a line or the timer ends a command.
LEMMA WhoEnds ==
  ASSUME TypeInv, [SystemNext]_allVars, Concluded
  PROVE  Deliver \/ DeliverSpoilt \/ Timer
<1>1. ASSUME NEW r \in Replies, Call(r) PROVE FALSE
  <2>1. is_receive' = 0
    BY <1>1, CallStarts
  <2> QED BY <2>1 DEF Concluded
<1>2. CASE StartScript \/ Return \/ Work \/ Announce \/ UNCHANGED allVars
  <2>1. is_receive' = is_receive
    BY <1>2 DEF StartScript, Return, Work, Announce, allVars, vars
  <2> QED BY <2>1 DEF Concluded
<1> QED BY <1>1, <1>2 DEF SystemNext

\* An older line ends nothing well.
LEMMA OldLines ==
  ASSUME TypeInv, AnsInv, ~cut, is_receive = 0, Len(wire) \in Nat, Len(wire) >= 1,
         wire[1].whose = "old"
  PROVE  /\ wire[1].f.text \in {"CRLF", "CLIENT"}
         /\ ~(cmd = "CIPSTATUS" /\ state = "MSG")
<1>1. 1 \in 1..Len(wire)
  OBVIOUS
<1>2. InStep
  BY DEF AnsInv
<1>3. CASE quiet
  <2>1. ASSUME NEW a, NEW k, NEW p, Behind(wire, a, k, p) PROVE FALSE
    <3>1. wire[1] = [f |-> a[1 - p + k], whose |-> "own"] \/ wire[1].whose = "event"
      BY <1>1, <2>1 DEF Behind
    <3> QED BY <3>1
  <2>2. ~Asked
    BY <1>1 DEF Asked, OnlyEvents
  <2> QED BY <1>2, <1>3, <2>1, <2>2 DEF InStep, InFlight, Answering, Completing
<1>4. CASE ~quiet
  <2>1. Mixed
    BY <1>2, <1>4 DEF InStep, InFlight
  <2> QED BY <1>1, <2>1 DEF Mixed
<1> QED BY <1>3, <1>4

LEMMA DeliveredEnds ==
  ASSUME TypeInv, AnsInv, ~cut, Deliver, Concluded, status'[reply] \in Success
  PROVE  Head(wire).whose = "own"
<1>1. /\ Head(wire) = wire[1] /\ wire[1].f \in Frame /\ simx_receive_msg(wire[1].f)
      /\ Len(wire) \in Nat /\ Len(wire) >= 1
  BY DeliverGets DEF Dropped
<1>2. 1 \in 1..Len(wire) /\ is_receive = 0 /\ is_receive' = 1
  BY <1>1 DEF Concluded
<1>3. wire[1].whose \in {"own", "old", "event"}
  BY <1>2, LineMarks
<1>4. CASE wire[1].whose = "event"
  <2>1. wire[1].f = Empty \/ wire[1].f.text \in Events
    BY <1>2, <1>4 DEF AnsInv, EventPairs
  <2>2. wire[1].f.text \notin Success \cup {"CHAR", "STATE", "IP", "CLIENT"}
    <3>1. Empty.text = "CRLF"
      BY DEF Empty, Line
    <3> QED BY <2>1, <3>1, EventTexts DEF Success, AnswerOnly
  <2> QED BY <1>1, <1>2, <2>2, NoFalseSuccess
<1>5. CASE wire[1].whose = "old"
  <2>1. /\ wire[1].f.text \in {"CRLF", "CLIENT"}
        /\ ~(cmd = "CIPSTATUS" /\ state = "MSG")
    BY <1>1, <1>2, <1>5, OldLines
  <2>2. wire[1].f.text \notin Success \cup {"CHAR", "STATE", "IP"}
    BY <2>1 DEF Success
  <2> QED BY <1>1, <1>2, <2>1, <2>2, NoFalseSuccess
<1> QED BY <1>1, <1>3, <1>4, <1>5

LEMMA SuccessStep ==
  ASSUME TypeInv, AnsInv, [SystemNext]_allVars, Concluded, status'[reply] \in Success, ~cut
  PROVE  Head(wire).whose = "own"
<1>1. is_receive = 0 /\ is_receive' = 1
  BY DEF Concluded
<1>2. CASE Deliver
  BY <1>2, DeliveredEnds
<1>3. CASE DeliverSpoilt
  <2>1. simx_receive_msg(Line("TEXT"))
    BY <1>3, SpoiltGets
  <2>2. Line("TEXT") \in Frame /\ Line("TEXT").text = "TEXT"
    <3>1. "TEXT" \in FrameTexts
      BY DEF FrameTexts, OtherTexts
    <3> QED BY <3>1, LineType DEF Line
  <2>3. status'[reply] \notin Success
    BY <1>1, <2>1, <2>2, NoFalseSuccess DEF Success
  <2> QED BY <2>3
<1>4. CASE Timer
  <2>1. status' = [status EXCEPT ![reply] = "TIMEOUT"]
    BY <1>1, <1>4 DEF Timer, simx_tick_1ms, Tick
  <2>2. reply \in Replies /\ status \in [Replies -> Statuses]
    BY <1>1 DEF TypeInv, IInv, InFlightIsServed, InFlight, TypeOK
  <2>3. status'[reply] = "TIMEOUT"
    BY <2>1, <2>2
  <2> QED BY <2>3 DEF Success
<1> QED BY <1>2, <1>3, <1>4, WhoEnds

\* No command is reported done on the strength of another one's answer, as long
\* as every command since the line was last quiet has ended with its own.
THEOREM SuccessStaysOwn == SystemSpec => SuccessIsOwn
<1>1. TypeInv /\ AnsInv /\ [SystemNext]_allVars =>
        [Concluded /\ status'[reply] \in Success /\ ~cut => Head(wire).whose = "own"]_allVars
  BY SuccessStep
<1> QED BY <1>1, AlwaysAns, PTL DEF SystemSpec, SuccessIsOwn

\* A command that has ended with its own answer has taken all of it, the line
\* behind the single-IP CIPSTATUS excepted: neither the wire nor the modem has
\* anything of it left for the next command to trip over.
THEOREM NothingStaysOver == SystemSpec => []NothingLeftOver
<1>1. TypeInv /\ AnsInv => NothingLeftOver
  <2> SUFFICES ASSUME TypeInv, AnsInv, ~InFlight, quiet, ~cut, ~doubt
               PROVE  /\ \A i \in DOMAIN wire :
                           wire[i].whose = "own" => cmd = "CIPSTATUS" /\ TwoBytes(wire[i].f)
                      /\ \A i \in DOMAIN pending : pending[i].whose # "own"
                      /\ prompting = <<>> \/ prompting[1].whose # "own"
    BY DEF NothingLeftOver
  <2>1. Resting
    BY DEF AnsInv, InStep
  <2>2. TwoBytes(Empty)
    BY DEF TwoBytes, Empty, Line
  <2>3. wire \in Seq(Packet)
    BY DEF TypeInv, LineTyped
  <2> QED BY <2>1, <2>2, <2>3 DEF Resting
<1> QED BY <1>1, AlwaysAns, PTL

\* The verdict on AT+CIPMUX is spelt alike in both modes.
LEMMA SettingReads ==
  ASSUME TypeInv, is_receive = 0, cmd = "CIPMUX", NEW a, IsVerdict(a, cmd),
         state = AfterFirst("RN"), simx_receive_msg(a[2])
  PROVE  status'[reply] \in Success
<1>1. cmd \in DframeCmds /\ cmd \notin RframeCmds
  BY DEF DframeCmds, RframeCmds
<1>2. a[2] = Line("OK") \/ a[2] = Line("SHUT OK") \/ a[2] = Line("CONNECT")
  BY DEF IsVerdict
<1>3. /\ a[2] \in Frame /\ ~IsNotification(a[2]) /\ a[2].text \in {"OK", "SHUT OK", "CONNECT"}
      /\ a[2].link = NoLink
  <2>1. Line("OK") \in Frame /\ Line("SHUT OK") \in Frame /\ Line("CONNECT") \in Frame
    BY LineType, AnswerTexts
  <2>2. /\ Line("OK").text = "OK" /\ Line("SHUT OK").text = "SHUT OK" /\ Line("CONNECT").text = "CONNECT"
        /\ \A t : Line(t).link = NoLink
    BY DEF Line
  <2> QED BY <1>2, <2>1, <2>2 DEF IsNotification, NotificationTexts
<1>4. simx_rcv_dframe(a[2]) /\ state = "STATUS"
  BY <1>1, <1>3, ToHandler DEF AfterFirst
<1>5. simx_finished(a[2].text)
  <2>1. a[2].text \in StatusTexts
    BY <1>3 DEF StatusTexts
  <2> QED BY <1>3, <1>4, <2>1 DEF simx_rcv_dframe, MatchesBehindPrefix
<1> QED BY <1>3, <1>5, FinishedEnds DEF EndsWith, Success

\* The driver takes multi-IP for what the modem has, but while that is being set.
LEMMA ModesAgree == ModeInv /\ ~doubt /\ cmd # "CIPMUX" => mux = modem_mux
  BY DEF ModeInv, MuxInv, Setting

LEMMA EndsNotStays ==
  ASSUME is_receive' = 1
  PROVE  \A s : ~StaysIn(s)
  BY DEF StaysIn

LEMMA AnsweringFails ==
  ASSUME TypeInv, ModeInv, EventPairs(wire), is_receive = 0, ~doubt,
         NEW a, NEW k, NEW p, Answering(a, k, p), Deliver, wire[1].whose = "own",
         is_receive' = 1, status'[reply] \notin Success
  PROVE  wire[1].f.text \in Refusals
<1>1. Dropped(Tail(wire), wire) /\ simx_receive_msg(wire[1].f)
  BY DeliverGets
<1>2. /\ FirstAnswer(a, cmd, said) /\ Behind(wire, a, k, p) /\ Len(a) \in Nat
      /\ said \in Nat
  BY SaidNumber DEF Answering, FirstAnswer
<1>3. k \in Nat /\ k < Len(a) /\ wire[1] = [f |-> a[k + 1], whose |-> "own"]
  <2> DEFINE z == Tail(wire)
  <2>1. Dropped(z, wire) /\ Behind(wire, a, k, p) /\ Len(a) \in Nat /\ wire[1].whose # "event"
    BY <1>1, <1>2
  <2> HIDE DEF z
  <2> QED BY <2>1, DropOwn
<1>4. k # 0
  <2> SUFFICES ASSUME k = 0 PROVE FALSE
    OBVIOUS
  <2>1. Answering(a, 0, p) /\ wire[1].whose # "event"
    BY Zenon
  <2>2. is_receive' = 0
    BY <2>1, AnsweringFirst
  <2> QED BY <2>2
<1>5. k \in 1..(Len(a) - 1) /\ k # Len(a)
  BY <1>2, <1>3, <1>4
<1>6. state = StateAfter(k, Len(a)) /\ (cmd = "CIPSTATUS" /\ mux = 0 => k <= 3)
  BY <1>4, <1>5, Zenon DEF Answering
<1>7. simx_receive_msg(a[k + 1]) /\ wire[1].f = a[k + 1]
  BY <1>1, <1>3
<1>8. CASE cmd # "CIPMUX"
  <2>1. mux = modem_mux
    BY <1>8, ModesAgree
  <2>2. ~StaysIn(StateAfter(k + 1, Len(a))) /\ ~StaysIn("MSG") /\ ~EndsWith("OK")
    <3>1. \A s : ~StaysIn(s)
      BY EndsNotStays
    <3>2. ~EndsWith("OK")
      BY DEF EndsWith, Success
    <3> QED BY <3>1, <3>2, Zenon
  <2>3. mux = modem_mux /\ a[k + 1].text \notin Refusals => status'[reply] \in Success
    BY <1>2, <1>5, <1>6, <1>7, <2>2, FirstReads
  <2> QED BY <1>7, <2>1, <2>3
<1>9. CASE cmd = "CIPMUX"
  <2>1. IsRefusal(a) \/ IsVerdict(a, cmd)
    BY <1>2, <1>9 DEF FirstAnswer, IsReport, IsSms, IsAddress, IsTable, RframeCmds, IpframeCmds,
         PromptCmds, WframeCmds, SdframeCmds
  <2>2. Len(a) = 2
    BY <2>1 DEF IsRefusal, IsVerdict
  <2>3. k = 1
    BY <1>5, <2>2
  <2>4. state = AfterFirst("RN") /\ simx_receive_msg(a[2]) /\ wire[1].f = a[2]
    BY <1>6, <1>7, <2>3 DEF StateAfter
  <2>5. ~IsVerdict(a, cmd)
    BY <1>9, <2>4, SettingReads
  <2> QED BY <2>1, <2>4, <2>5, RefusalLine
<1> QED BY <1>8, <1>9

LEMMA CompletingFails ==
  ASSUME TypeInv, ModeInv, EventPairs(wire), is_receive = 0, ~doubt,
         NEW a, NEW k, NEW p, Completing(a, k, p), Deliver, wire[1].whose = "own",
         is_receive' = 1, status'[reply] \notin Success
  PROVE  wire[1].f.text \in Refusals \cup {"SEND FAIL"}
<1>1. Dropped(Tail(wire), wire) /\ simx_receive_msg(wire[1].f)
  BY DeliverGets
<1>2. /\ LastAnswer(a, cmd) /\ Behind(wire, a, k, p) /\ Len(a) \in Nat /\ Len(a) >= 2
      /\ a[1] = Empty /\ cmd \in PromptCmds
  BY TextCommands DEF Completing, LastAnswer
<1>3. k \in Nat /\ k < Len(a) /\ wire[1] = [f |-> a[k + 1], whose |-> "own"]
  <2> DEFINE z == Tail(wire)
  <2>1. Dropped(z, wire) /\ Behind(wire, a, k, p) /\ Len(a) \in Nat /\ wire[1].whose # "event"
    BY <1>1, <1>2
  <2> HIDE DEF z
  <2> QED BY <2>1, DropOwn
<1>4. simx_receive_msg(a[k + 1]) /\ wire[1].f = a[k + 1]
  BY <1>1, <1>3
<1>5. CASE k = 0
  <2>1. Fresh("MSG") /\ wire[1].whose # "event"
    <3>1. ~(k > 0)
      BY <1>5
    <3> QED BY <3>1, Zenon DEF Completing
  <2>2. state = "MSG"
    BY <2>1, FreshOwn
  <2>3. simx_receive_msg(Empty)
    BY <1>2, <1>4, <1>5
  <2>4. StaysIn(AfterFirst("MSG"))
    BY <1>2, <2>2, <2>3, FirstRead
  <2> QED BY <2>4, EndsNotStays
<1>6. CASE k # 0
  <2>1. k \in 1..(Len(a) - 1)
    BY <1>2, <1>3, <1>6
  <2>2. state = StateAfterText(k)
    BY <1>6, Zenon DEF Completing
  <2>3. cmd # "CIPMUX"
    BY <1>2 DEF PromptCmds, WframeCmds, SdframeCmds
  <2>4. mux = modem_mux
    BY <2>3, ModesAgree
  <2>5. ~StaysIn(StateAfterText(k + 1))
    BY EndsNotStays
  <2>6. mux = modem_mux /\ a[k + 1].text \notin Refusals \cup {"SEND FAIL"} => status'[reply] \in Success
    BY <1>2, <1>4, <2>1, <2>2, <2>5, TextReads
  <2> QED BY <1>4, <2>4, <2>6
<1> QED BY <1>5, <1>6

LEMMA FailureStep ==
  ASSUME TypeInv, ModeInv, AnsInv, [SystemNext]_allVars,
         Concluded, quiet, ~cut', ~doubt, status'[reply] \notin Success
  PROVE  Head(wire).f.text \in {"ERROR", "SEND FAIL", "NO CARRIER"}
<1>1. is_receive = 0 /\ is_receive' = 1 /\ quiet = TRUE
  <2>1. quiet \in BOOLEAN
    BY DEF TypeInv, LineTyped
  <2> QED BY <2>1 DEF Concluded
<1>2. CASE Deliver
  <2>1. /\ Head(wire) = wire[1] /\ wire[1].f \in Frame /\ simx_receive_msg(wire[1].f)
        /\ Record(wire[1].whose = "own") /\ Len(wire) \in Nat /\ Len(wire) >= 1
    BY <1>2, DeliverGets DEF Dropped
  <2>2. ~cut /\ wire[1].whose = "own"
    BY <1>1, <2>1, OnlyOwnEnds
  <2>3. InStep /\ EventPairs(wire)
    BY <2>2 DEF AnsInv
  <2>4. 1 \in 1..Len(wire)
    BY <2>1
  <2>5. ~Asked
    BY <2>2, <2>4 DEF Asked, OnlyEvents
  <2>6. (\E a, k, p : Answering(a, k, p)) \/ (\E a, k, p : Completing(a, k, p))
    BY <1>1, <2>3, <2>5 DEF InStep, InFlight
  <2>7. CASE \E a, k, p : Answering(a, k, p)
    <3>1. wire[1].f.text \in Refusals
      BY <1>1, <1>2, <2>2, <2>3, <2>7, AnsweringFails
    <3> QED BY <2>1, <3>1 DEF Refusals
  <2>8. CASE \E a, k, p : Completing(a, k, p)
    BY <1>1, <1>2, <2>1, <2>2, <2>3, <2>8, CompletingFails DEF Refusals
  <2> QED BY <2>6, <2>7, <2>8
<1>3. CASE DeliverSpoilt \/ Timer
  <2>1. Record(FALSE)
    BY <1>3 DEF DeliverSpoilt, Timer
  <2>2. cut'
    BY <2>1 DEF Record
  <2> QED BY <2>2
<1> QED BY <1>2, <1>3, WhoEnds

\* A command sent on a quiet line fails with its answer only if the modem refused
\* it: every handler takes the whole of the answer its modem gives, with multi-IP
\* off and on, and no event in between makes it lose its place.
THEOREM FailureStaysOwn == SystemSpec => FailureIsOwn
<1>1. TypeInv /\ ModeInv /\ AnsInv /\ [SystemNext]_allVars =>
        [Concluded /\ quiet /\ ~cut' /\ ~doubt /\ status'[reply] \notin Success
           => Head(wire).f.text \in {"ERROR", "SEND FAIL", "NO CARRIER"}]_allVars
  BY FailureStep
<1> QED BY <1>1, AlwaysAns, PTL DEF SystemSpec, FailureIsOwn
=============================================================================

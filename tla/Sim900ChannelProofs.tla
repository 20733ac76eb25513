-------------------------- MODULE Sim900ChannelProofs --------------------------
(***************************************************************************)
(* Proofs of what the driver's callers see: that it implements AtChannel,  *)
(* for a disciplined application whatever the modem says, and for the      *)
(* worker that waits for each of its calls; and that a command is given up *)
(* at its time.                                                            *)
(***************************************************************************)
EXTENDS Sim900Channel, Sim900Clock, Sim900SystemProofs

\* The reply in flight is not passed to another call, and neither "+++" nor
\* simx_tcp_head_enable is called while a command is in flight.
Disciplined == ~ReuseReply /\ BusyCalls \cap {"PPP", "CIPHEAD"} = {}

LEMMA OwnerInFlight ==
  ASSUME IInv
  PROVE  /\ InFlight <=> is_receive = 0
         /\ InFlight => reply \in Replies /\ reply # NoReply
         /\ ~InFlight <=> Channel!Free
  BY ReplyAssumption DEF IInv, InFlightIsServed, InFlight, Channel!Free

LEMMA ChannelInit == Init => Channel!Init
  BY DEF Init, Channel!Init, InFlight

\* A command sent, or a call refused, by a disciplined application.
LEMMA ChannelCall ==
  ASSUME Disciplined, IInv, NEW r \in Replies, NEW c \in Calls,
         MayCall(r, c), CallKind(r, c)
  PROVE  Channel!Next
<1>1. is_receive = 0 => c # "PPP" /\ c # "CIPHEAD" /\ r # reply
  BY DEF Disciplined, MayCall
<1>2. CASE Refused(r, reply)
  <2>1. is_receive = 0 /\ is_receive' = 0 /\ UNCHANGED <<reply, cmd, state>>
    BY <1>2 DEF Refused
  <2>2. Channel!Refuse(r)
    BY <1>1, <1>2, <2>1, OwnerInFlight DEF Refused, Channel!Refuse, Channel!Free, InFlight
  <2> QED
    BY <2>2 DEF Channel!Next
<1>3. CASE is_receive = 1 /\ (Started(r, c) \/ TakenOver(r))
  <2>1. /\ ~InFlight /\ InFlight' /\ reply' = r /\ state' = "RN"
        /\ status' = [status EXCEPT ![r] = "NULL"]
    BY <1>3 DEF Started, TakenOver, InFlight
  <2>2. Channel!Accept(r)
    BY <2>1 DEF Channel!Accept, Channel!Free
  <2> QED
    BY <2>2 DEF Channel!Next
<1> QED
  BY <1>1, <1>2, <1>3 DEF CallKind, Started, Refused, IInv, TypeOK

\* The command in flight ends with a verdict.
LEMMA ChannelConclude ==
  ASSUME IInv, InFlight, is_receive' = 1, reply' = reply,
         NEW v \in Statuses \ {"NULL"}, status' = [status EXCEPT ![reply] = v]
  PROVE  Channel!Next
<1>1. ~InFlight'
  BY DEF InFlight
<1>2. Channel!Conclude
  BY <1>1, OwnerInFlight DEF Channel!Conclude, Channel!Free
<1> QED
  BY <1>2 DEF Channel!Next

\* An answer ends the command, announces the CIPSTATUS table, or shows nothing.
LEMMA ChannelAnswer ==
  ASSUME IInv, Answered
  PROVE  [Channel!Next]_(Channel!vars)
<1>1. /\ InFlight /\ is_receive = 0 /\ cmd \in Cmds /\ reply \in Replies
      /\ UNCHANGED <<reply, cmd>> /\ status \in [Replies -> Statuses]
  BY DEF Answered, IInv, InFlightIsServed, InFlight, TypeOK
<1>2. VerdictsOf(cmd) \subseteq Statuses \ {"NULL"}
  BY DEF VerdictsOf, Statuses, StatusTexts
<1>3. CASE /\ is_receive' = 1
           /\ \E v \in VerdictsOf(cmd) : status' = [status EXCEPT ![reply] = v]
  BY <1>1, <1>2, <1>3, ChannelConclude
<1>4. CASE is_receive' = 1 /\ status' = status /\ cmd = "CIPSTATUS" /\ state = "MSG"
  <2>1. status[reply] \in {"OK", "BUSY"}
    BY <1>1, <1>4 DEF IInv, NoEarlyVerdict
  <2>2. status[reply] \in Statuses \ {"NULL"}
    BY <2>1 DEF Statuses, StatusTexts
  <2>3. status' = [status EXCEPT ![reply] = status[reply]]
    BY <1>1, <1>4
  <2> QED
    BY <1>1, <1>4, <2>2, <2>3, ChannelConclude
<1>5. CASE /\ is_receive' = 0 /\ status' = status
           /\ cmd = "CIPSTATUS" => (state' = "MSG" <=> state = "MSG")
  <2>1. InFlight' /\ (cmd' = "CIPSTATUS" /\ state' = "MSG") <=> (cmd = "CIPSTATUS" /\ state = "MSG")
    BY <1>1, <1>5 DEF InFlight
  <2>2. InFlight'
    BY <1>5 DEF InFlight
  <2> QED
    BY <1>1, <1>5, <2>1, <2>2 DEF Channel!vars
<1>6. CASE /\ is_receive' = 0 /\ state' = "MSG" /\ cmd = "CIPSTATUS" /\ state = "STATUS"
           /\ status' = [status EXCEPT ![reply] = "OK"]
  <2>1. InFlight' /\ cmd' = "CIPSTATUS" /\ state # "MSG"
    BY <1>1, <1>6 DEF InFlight
  <2>2. Channel!Announce
    BY <1>1, <1>6, <2>1, OwnerInFlight DEF Channel!Announce, Channel!Free
  <2> QED
    BY <2>2 DEF Channel!Next
<1> QED
  BY <1>3, <1>4, <1>5, <1>6 DEF Answered, Outcome

\* A line, a payload byte or the timer.
LEMMA ChannelLine ==
  ASSUME IInv, LineKind \/ Ended("TIMEOUT")
  PROVE  [Channel!Next]_(Channel!vars)
<1>1. CASE Stays
  BY <1>1 DEF Stays, Channel!vars, InFlight
<1>2. CASE Answered
  BY <1>2, ChannelAnswer
<1>3. CASE Ended("ERROR") \/ Ended("TIMEOUT")
  <2>1. {"ERROR", "TIMEOUT"} \subseteq Statuses \ {"NULL"}
    BY DEF Statuses, StatusTexts
  <2>2. InFlight
    BY <1>3 DEF Ended, InFlight
  <2> QED
    BY <1>3, <2>1, <2>2, ChannelConclude DEF Ended
<1>4. CASE \E r \in Replies : Bounced(r)
  <2>1. PICK r \in Replies : Bounced(r)
    BY <1>4
  <2>2. ~InFlight /\ ~InFlight' /\ status' = [status EXCEPT ![r] = "ERROR"]
    BY <2>1 DEF Bounced, InFlight
  <2>3. Channel!Bounce(r)
    BY <2>2 DEF Channel!Bounce, Channel!Free
  <2> QED
    BY <2>3 DEF Channel!Next
<1> QED
  BY <1>1, <1>2, <1>3, <1>4 DEF LineKind

LEMMA ChannelStep ==
  ASSUME Disciplined, IInv, [Next]_vars
  PROVE  [Channel!Next]_(Channel!vars)
<1>1. CASE \E r \in Replies, c \in Calls : MayCall(r, c) /\ CallKind(r, c)
  BY <1>1, ChannelCall
<1>2. CASE LineKind \/ Ended("TIMEOUT")
  BY <1>2, ChannelLine
<1> QED
  BY <1>1, <1>2, StepKinds

\* The driver as its callers see it is a channel that serves one request at a
\* time, refuses the others without harm, and gives each owner its verdict
\* exactly when the channel becomes free.
THEOREM DriverImplementsChannel ==
  ASSUME Disciplined
  PROVE  Spec => ImplementsChannel
<1>1. Init => Channel!Init
  BY ChannelInit
<1>2. IInv /\ [Next]_vars => [Channel!Next]_(Channel!vars)
  BY ChannelStep
<1> QED
  BY AlwaysInv, <1>1, <1>2, PTL DEF Spec, ImplementsChannel, Channel!Spec

\* The worker calls only when nothing is in flight, so each call is accepted.
LEMMA WorkerCall ==
  ASSUME TypeInv, NEW r \in Replies, Call(r)
  PROVE  Channel!Next
<1>1. /\ ~InFlight /\ InFlight' /\ reply' = r /\ state' = "RN"
      /\ status' = [status EXCEPT ![r] = "NULL"]
  BY CallStarts DEF InFlight
<1>2. Channel!Accept(r)
  BY <1>1 DEF Channel!Accept, Channel!Free
<1> QED BY <1>2 DEF Channel!Next

LEMMA SystemChannelStep ==
  ASSUME TypeInv, [SystemNext]_allVars
  PROVE  [Channel!Next]_(Channel!vars)
<1>1. IInv
  BY DEF TypeInv
<1>2. ASSUME NEW r \in Replies, Call(r) PROVE Channel!Next
  BY <1>2, WorkerCall
<1>3. CASE Deliver \/ DeliverSpoilt
  <2>1. PICK f \in Frame : simx_receive_msg(f)
    BY <1>3, HeadLine, TextLine DEF Deliver, DeliverSpoilt, TypeInv
  <2> QED BY <1>1, <2>1, ReceiveKinds, ChannelLine
<1>4. CASE Timer
  BY <1>1, <1>4, ChannelLine DEF Timer, simx_tick_1ms, Tick, LineKind, Stays, Ended
<1>5. CASE StartScript \/ Return \/ Work \/ Announce \/ UNCHANGED allVars
  BY <1>5 DEF StartScript, Return, Work, Announce, allVars, vars, Channel!vars, InFlight
<1> QED BY <1>2, <1>3, <1>4, <1>5 DEF SystemNext

\* A worker that waits for each of its calls, as worker.cpp does, needs no other
\* discipline: whatever it sends, in whatever order the lines come and whenever
\* the timer runs out, it deals with a channel that serves its requests one at a
\* time.
THEOREM SystemImplementsChannel == SystemSpec => ImplementsChannel
<1>1. SystemInit => Channel!Init
  BY ChannelInit DEF SystemInit
<1>2. TypeInv /\ [SystemNext]_allVars => [Channel!Next]_(Channel!vars)
  BY SystemChannelStep
<1> QED BY AlwaysTyped, <1>1, <1>2, PTL DEF SystemSpec, ImplementsChannel, Channel!Spec

-----------------------------------------------------------------------------
(* The time limit.                                                         *)

\* As long as a command is in flight its time is not over, and time_ms says how
\* long it has been; "+++" may have less left than time_ms would say.
ClockInv ==
  /\ waited \in Nat
  /\ InFlight => waited <= time_ms /\ waited <= Timeout
  /\ InFlight /\ cmd # "PPP" => waited = time_ms

\* The handlers never write TIMEOUT.
LEMMA AnswersInTime ==
  ASSUME IInv, NEW f \in Frame, Answer(f), is_receive' = 1
  PROVE  status'[reply] # "TIMEOUT"
<1>1. is_receive = 0 /\ reply \in Replies /\ cmd \in Cmds /\ status \in [Replies -> Statuses]
      /\ status[reply] \in {"NULL", "BUSY", "OK"}
  BY DEF Answer, IInv, InFlightIsServed, InFlight, TypeOK, NoEarlyVerdict
<1>2. \/ \E v \in StatusTexts \cup {"ERRFRAME"} : simx_finished(v)
      \/ \E s \in States : Goto(s)
      \/ EndOfTable
      \/ is_receive' = is_receive
  <2>1. {"OK", "ERROR", "SEND OK", "SEND FAIL", "CLOSE OK"} \subseteq StatusTexts
    BY DEF StatusTexts
  <2>2. {"CMD", "MSG", "STATUS"} \subseteq States
    BY DEF States
  <2>3. CASE simx_rcv_rframe(f)
    BY <2>1, <2>2, <2>3 DEF simx_rcv_rframe
  <2>4. CASE simx_rcv_dframe(f)
    BY <2>1, <2>2, <2>4 DEF simx_rcv_dframe
  <2>5. CASE simx_rcv_wframe(f)
    BY <2>1, <2>2, <2>5 DEF simx_rcv_wframe
  <2>6. CASE simx_rcv_mframe(f)
    BY <2>1, <2>2, <2>6 DEF simx_rcv_mframe, _simx_current_connection_status_resp
  <2>7. CASE simx_rcv_ipframe(f)
    BY <2>1, <2>2, <2>7 DEF simx_rcv_ipframe
  <2>8. CASE simx_rcv_sdframe(f)
    BY <2>1, <2>2, <2>8 DEF simx_rcv_sdframe
  <2> QED BY <2>3, <2>4, <2>5, <2>6, <2>7, <2>8 DEF Answer
<1>3. "TIMEOUT" \notin StatusTexts \cup {"ERRFRAME", "NULL", "BUSY", "OK"}
  BY DEF StatusTexts
<1> QED BY <1>1, <1>2, <1>3 DEF simx_finished, Goto, EndOfTable

\* A line ends a command with a verdict of its own, or with ERROR, or leaves it
\* and its time as they are.
LEMMA LineInTime ==
  ASSUME IInv, ReceiveLine
  PROVE  /\ InFlight' => InFlight /\ UNCHANGED <<cmd, time_ms>>
         /\ ~TimesOut
<1>1. PICK f \in Frame : simx_receive_msg(f)
  BY FrameAssumption DEF ReceiveLine
<1>2. CASE simx_check_message(f)
  <2>1. TimesOut => status' = [status EXCEPT ![reply] = "ERROR"] /\ reply \in Replies
    BY <1>2 DEF simx_check_message, simx_finished, TimesOut, InFlight, IInv, InFlightIsServed
  <2>2. ~TimesOut
    BY <2>1 DEF TimesOut, IInv, TypeOK
  <2> QED BY <1>2, <2>2 DEF simx_check_message, simx_finished, InFlight
<1>3. CASE Answer(f)
  BY <1>3, AnswersInTime DEF Answer, InFlight, TimesOut
<1>4. CASE ~simx_check_message(f) /\ ~Answer(f)
  BY <1>1, <1>4 DEF simx_receive_msg, simx_receive_frame, NestedCall, IdleLine, IpdHeader,
                    InFlight, TimesOut
<1> QED BY <1>1, <1>2, <1>3, <1>4

LEMMA CallInTime ==
  ASSUME IInv, ClockInv, ClockCall
  PROVE  ClockInv' /\ ~TimesOut
<1>1. PICK r \in Replies : AppCall(r)
  BY DEF ClockCall
<1>2. PICK c \in Calls, n \in Connections : CallEffect(r, c, n)
  BY <1>1, AppCallEffect DEF IInv
<1>3. time_ms \in Nat /\ Timeout \in Nat
  BY NumberAssumption DEF IInv, TypeOK
<1>4. \A held : Refuse(r, held) => ClockInv' /\ ~TimesOut
  BY DEF Refuse, ClockCall, ClockInv, InFlight, TimesOut
<1>5. Accept(r, c, n) => ClockInv' /\ ~TimesOut
  BY <1>3 DEF Accept, Launch, ClockCall, ClockInv, InFlight, TimesOut
<1>6. CommandMode(r) => ClockInv' /\ ~TimesOut
  BY <1>3 DEF CommandMode, Launch, ClockCall, ClockInv, InFlight, TimesOut
<1> QED BY <1>2, <1>4, <1>5, <1>6 DEF CallEffect

\* The tick and the waiting loop find the time over when it is.
LEMMA TickInTime ==
  ASSUME IInv, ClockInv, ClockTick
  PROVE  /\ ClockInv'
         /\ TimesOut => waited' <= Timeout + 1 /\ (cmd # "PPP" => waited' > Timeout)
<1>1. /\ time_ms \in Nat /\ Timeout \in Nat /\ InFlight /\ is_receive = 0
      /\ reply \in Replies /\ status[reply] # "TIMEOUT"
  BY NumberAssumption DEF IInv, TypeOK, ClockTick, simx_tick_1ms, Tick, InFlight,
                          InFlightIsServed, NoEarlyVerdict
<1>2. /\ time_ms' = time_ms + 1 /\ waited' = waited + 1 /\ UNCHANGED cmd
      /\ \/ time_ms + 1 > Timeout /\ is_receive' = 1
         \/ ~(time_ms + 1 > Timeout) /\ is_receive' = 0
  BY <1>1 DEF ClockTick, simx_tick_1ms, Tick
<1> QED BY <1>1, <1>2 DEF ClockInv, InFlight, TimesOut

LEMMA RestInTime ==
  ASSUME IInv, ClockInv, ClockRest
  PROVE  /\ ClockInv'
         /\ TimesOut => waited' <= Timeout + 1 /\ (cmd # "PPP" => waited' > Timeout)
<1>1. waited' = waited /\ Timeout \in Nat /\ time_ms \in Nat
  BY NumberAssumption DEF ClockRest, IInv, TypeOK
<1>2. CASE ReceiveLine
  BY <1>1, <1>2, LineInTime DEF ClockInv
<1>3. CASE simx_receive_tcp
  BY <1>1, <1>3 DEF simx_receive_tcp, PayloadByte, ClockInv, InFlight, TimesOut
<1>4. CASE simx_wait_reply
  <2>1. InFlight /\ ~InFlight' /\ time_ms > Timeout
    BY <1>4 DEF simx_wait_reply, InFlight
  <2>2. cmd = "PPP" /\ waited <= Timeout
    BY <1>1, <2>1 DEF ClockInv
  <2> QED BY <1>1, <2>1, <2>2 DEF ClockInv
<1> QED BY <1>2, <1>3, <1>4 DEF ClockRest

LEMMA ClockStep ==
  ASSUME IInv, ClockInv, [ClockNext]_clockVars
  PROVE  /\ IInv' /\ ClockInv'
         /\ [TimesOut => waited' <= Timeout + 1 /\ (cmd # "PPP" => waited' > Timeout)]_clockVars
<1>1. [Next]_vars
  BY DEF ClockNext, ClockCall, ClockTick, ClockRest, Next, clockVars
<1>2. IInv'
  BY <1>1, StepInv
<1>3. CASE ClockNext
  BY <1>2, <1>3, CallInTime, TickInTime, RestInTime DEF ClockNext
<1>4. CASE UNCHANGED clockVars
  BY <1>2, <1>4 DEF clockVars, vars, ClockInv, InFlight
<1> QED BY <1>3, <1>4

\* Of whatever an application sends, and whenever, only "+++" can be given up
\* before more than SIM900_TIMEOUT ticks have passed since it was sent, and
\* nothing is given up later than that (simx_tick_1ms, simx_wait_reply,
\* _simx_context_send_at_init, simx_switch_mode).
THEOREM TimeoutComesOnTime == ClockSpec => TimeoutOnTime
<1>1. ClockInit => IInv /\ ClockInv
  BY InitInv DEF ClockInit, ClockInv, Init, InFlight
<1>2. IInv /\ ClockInv /\ [ClockNext]_clockVars => IInv' /\ ClockInv'
  BY ClockStep
<1>3. /\ IInv /\ ClockInv /\ [ClockNext]_clockVars
      => [TimesOut => /\ waited' <= Timeout + 1
                      /\ cmd # "PPP" => waited' > Timeout]_clockVars
  BY ClockStep
<1> QED BY <1>1, <1>2, <1>3, PTL DEF ClockSpec, TimeoutOnTime
=============================================================================

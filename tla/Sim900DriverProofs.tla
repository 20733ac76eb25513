--------------------------- MODULE Sim900DriverProofs ---------------------------
(***************************************************************************)
(* Proofs of the driver's invariants for every value of the constants.     *)
(***************************************************************************)
EXTENDS Sim900Driver, TLAPS

-----------------------------------------------------------------------------
(* Facts about the constants.                                              *)

\* What is stored in a byte-wide field fits it.
LEMMA ByteRange == \A x \in Nat : x % ByteMod \in 0..(ByteMod - 1)
  BY NumberAssumption

\* receive_len fits its type.
LEMMA LengthRange == \A x \in Nat : Uint16(x) \in Nat
  BY DEF Uint16

\* No handler's command set meets another's, where the proofs need it.
LEMMA OneHandler ==
  /\ "CIPSTATUS" \in MframeCmds
  /\ \A c \in Cmds : c = "CIPSTATUS" <=> c \in MframeCmds
  BY DEF Cmds, RframeCmds, DframeCmds, WframeCmds, MframeCmds, IpframeCmds, SdframeCmds

\* The states of each handler, one by one.
LEMMA HandlerStates ==
  ASSUME NEW c \in Cmds
  PROVE  /\ "RN" \in StatesOf(c)
         /\ StatesOf(c) \subseteq States
         /\ c \in RframeCmds  => StatesOf(c) = {"RN", "CMD", "MSG", "STATUS"}
         /\ c \in WframeCmds  => StatesOf(c) = {"RN", "CMD", "MSG", "STATUS"}
         /\ c \in MframeCmds  => StatesOf(c) = {"RN", "MSG", "STATUS"}
         /\ c \in DframeCmds  => StatesOf(c) = {"RN", "STATUS"}
         /\ c \in IpframeCmds => StatesOf(c) = {"RN", "MSG"}
         /\ c \in SdframeCmds => StatesOf(c) = {"RN", "MSG"}
  BY DEF StatesOf, States, Cmds, RframeCmds, DframeCmds, WframeCmds, MframeCmds,
         IpframeCmds, SdframeCmds

-----------------------------------------------------------------------------
(* What a handler does to the command in flight.                           *)

\* The types of the fields a finishing hook writes.
ModesTyped ==
  /\ fcmd_finished \in {"none", "mux", "head", "te"}
  /\ mux \in 0..(ByteMod - 1)
  /\ ciphead \in 0..(ByteMod - 1)
  /\ te_chaster \in Nat

\* The callbacks of a step other than those of a notification.
OrdinaryUpcalls ==
  /\ upcalls \subseteq Upcall
  /\ \A u \in upcalls : u.fn \notin {"sms_received", "message"}

\* A frame handed to the handler ends the command with a verdict, ends the
\* CIPSTATUS table, moves the handler on, or announces the table.
Outcome ==
  \/ /\ is_receive' = 1 /\ state' = state
     /\ \E v \in VerdictsOf(cmd) : status' = [status EXCEPT ![reply] = v]
  \/ /\ is_receive' = 1 /\ state' = state /\ status' = status
     /\ cmd = "CIPSTATUS" /\ state = "MSG"
  \/ /\ is_receive' = 0 /\ status' = status
     /\ state' \in StatesOf(cmd)
     /\ cmd = "CIPSTATUS" => (state' = "MSG" <=> state = "MSG")
  \/ /\ is_receive' = 0 /\ state' = "MSG"
     /\ cmd = "CIPSTATUS" /\ state = "STATUS"
     /\ status' = [status EXCEPT ![reply] = "OK"]

HandlerEffect == Outcome /\ ModesTyped' /\ OrdinaryUpcalls'

LEMMA FinishTypes ==
  ASSUME TypeOK, reply \in Replies, NEW v, simx_finished(v)
  PROVE  /\ is_receive' = 1 /\ state' = state
         /\ status' = [status EXCEPT ![reply] = v]
         /\ ModesTyped'
<1>1. user_data[reply] \in Nat
  BY DEF TypeOK
<1>2. user_data[reply] % ByteMod \in 0..(ByteMod - 1)
  BY <1>1, ByteRange
<1> QED
  BY <1>1, <1>2 DEF TypeOK, simx_finished, RunHook, ModesTyped

LEMMA GotoTypes ==
  ASSUME TypeOK, is_receive = 0, NEW s, Goto(s)
  PROVE  /\ is_receive' = 0 /\ state' = s /\ status' = status
         /\ ModesTyped'
  BY DEF TypeOK, Goto, ModesTyped, modes

\* ERROR, ERRFRAME and TIMEOUT are verdicts of every command.
LEMMA CommonVerdicts ==
  \A c \in Cmds : {"ERROR", "ERRFRAME", "TIMEOUT"} \subseteq VerdictsOf(c)
  BY DEF VerdictsOf

LEMMA RframeEffect ==
  ASSUME NEW f, TypeOK, is_receive = 0, reply \in Replies,
         cmd \in RframeCmds, simx_rcv_rframe(f)
  PROVE  HandlerEffect
<1>1. cmd \in Cmds /\ cmd # "CIPSTATUS"
  BY DEF Cmds, RframeCmds
<1>2. StatesOf(cmd) = {"RN", "CMD", "MSG", "STATUS"}
  BY <1>1, HandlerStates
<1>3. {"OK", "ERROR", "ERRFRAME"} \subseteq VerdictsOf(cmd)
  BY DEF VerdictsOf, RframeCmds, DframeCmds, SdframeCmds
<1>4. OrdinaryUpcalls'
  BY DEF simx_rcv_rframe, OrdinaryUpcalls
<1>5. \/ \E v \in {"OK", "ERROR", "ERRFRAME"} : simx_finished(v)
      \/ \E s \in {"CMD", "MSG", "STATUS"} : Goto(s)
  BY DEF simx_rcv_rframe
<1>6. CASE \E v \in {"OK", "ERROR", "ERRFRAME"} : simx_finished(v)
  BY <1>3, <1>4, <1>6, FinishTypes DEF HandlerEffect, Outcome
<1>7. CASE \E s \in {"CMD", "MSG", "STATUS"} : Goto(s)
  BY <1>1, <1>2, <1>4, <1>7, GotoTypes DEF HandlerEffect, Outcome
<1> QED
  BY <1>5, <1>6, <1>7

LEMMA DframeEffect ==
  ASSUME NEW f \in Frame, TypeOK, is_receive = 0, reply \in Replies,
         cmd \in DframeCmds, simx_rcv_dframe(f)
  PROVE  HandlerEffect
<1>1. cmd \in Cmds /\ cmd # "CIPSTATUS"
  BY DEF Cmds, DframeCmds
<1>2. StatesOf(cmd) = {"RN", "STATUS"}
  BY <1>1, HandlerStates
<1>3. StatusTexts \cup {"ERRFRAME"} \subseteq VerdictsOf(cmd)
  BY DEF VerdictsOf
<1>4. OrdinaryUpcalls'
  <2>1. TcpMsg("CLOSED", f.link) \in Upcall
    BY DEF TcpMsg, Upcall, Frame, Link, NoLink, LinkTexts
  <2>2. TcpMsg("CLOSED", f.link).fn = "tcp_msg"
    BY DEF TcpMsg
  <2>3. upcalls' \subseteq {TcpMsg("CLOSED", f.link)}
    BY DEF simx_rcv_dframe
  <2> QED
    BY <2>1, <2>2, <2>3 DEF OrdinaryUpcalls
<1>5. \/ \E v \in StatusTexts \cup {"ERRFRAME"} : simx_finished(v)
      \/ Goto("STATUS")
  <2>1. "CLOSE OK" \in StatusTexts
    BY DEF StatusTexts
  <2> QED
    BY <2>1 DEF simx_rcv_dframe
<1>6. CASE \E v \in StatusTexts \cup {"ERRFRAME"} : simx_finished(v)
  BY <1>3, <1>4, <1>6, FinishTypes DEF HandlerEffect, Outcome
<1>7. CASE Goto("STATUS")
  BY <1>1, <1>2, <1>4, <1>7, GotoTypes DEF HandlerEffect, Outcome
<1> QED
  BY <1>5, <1>6, <1>7

LEMMA WframeEffect ==
  ASSUME NEW f \in Frame, TypeOK, is_receive = 0, reply \in Replies,
         cmd \in WframeCmds, simx_rcv_wframe(f)
  PROVE  HandlerEffect
<1>1. cmd \in Cmds /\ cmd # "CIPSTATUS"
  BY DEF Cmds, WframeCmds
<1>2. StatesOf(cmd) = {"RN", "CMD", "MSG", "STATUS"}
  BY <1>1, HandlerStates
<1>3. {"OK", "ERROR", "ERRFRAME"} \subseteq VerdictsOf(cmd)
  BY DEF VerdictsOf, WframeCmds, DframeCmds, SdframeCmds
<1>4. OrdinaryUpcalls'
  <2>1. Sent("text", NoLink) \in Upcall /\ Sent("text", NoLink).fn = "send"
    BY DEF Sent, Upcall, NoLink
  <2>2. upcalls' \subseteq {Sent("text", NoLink)}
    BY DEF simx_rcv_wframe
  <2> QED
    BY <2>1, <2>2 DEF OrdinaryUpcalls
<1>5. \/ \E v \in {"OK", "ERROR", "ERRFRAME"} : simx_finished(v)
      \/ \E s \in {"CMD", "MSG", "STATUS"} : Goto(s)
  BY DEF simx_rcv_wframe
<1>6. CASE \E v \in {"OK", "ERROR", "ERRFRAME"} : simx_finished(v)
  BY <1>3, <1>4, <1>6, FinishTypes DEF HandlerEffect, Outcome
<1>7. CASE \E s \in {"CMD", "MSG", "STATUS"} : Goto(s)
  BY <1>1, <1>2, <1>4, <1>7, GotoTypes DEF HandlerEffect, Outcome
<1> QED
  BY <1>5, <1>6, <1>7

LEMMA IpframeEffect ==
  ASSUME NEW f \in Frame, TypeOK, is_receive = 0, reply \in Replies,
         cmd \in IpframeCmds, simx_rcv_ipframe(f)
  PROVE  HandlerEffect
<1>1. cmd \in Cmds /\ cmd # "CIPSTATUS"
  BY DEF Cmds, IpframeCmds
<1>2. StatesOf(cmd) = {"RN", "MSG"}
  BY <1>1, HandlerStates
<1>3. {"OK", "ERRFRAME"} \subseteq VerdictsOf(cmd)
  BY DEF VerdictsOf, IpframeCmds, DframeCmds, SdframeCmds
<1>4. OrdinaryUpcalls'
  BY DEF simx_rcv_ipframe, OrdinaryUpcalls
<1>5. (\E v \in {"OK", "ERRFRAME"} : simx_finished(v)) \/ Goto("MSG")
  BY DEF simx_rcv_ipframe
<1>6. CASE \E v \in {"OK", "ERRFRAME"} : simx_finished(v)
  BY <1>3, <1>4, <1>6, FinishTypes DEF HandlerEffect, Outcome
<1>7. CASE Goto("MSG")
  BY <1>1, <1>2, <1>4, <1>7, GotoTypes DEF HandlerEffect, Outcome
<1> QED
  BY <1>5, <1>6, <1>7

LEMMA SdframeEffect ==
  ASSUME NEW f \in Frame, TypeOK, is_receive = 0, reply \in Replies,
         cmd \in SdframeCmds, simx_rcv_sdframe(f)
  PROVE  HandlerEffect
<1>1. cmd \in Cmds /\ cmd # "CIPSTATUS"
  BY DEF Cmds, SdframeCmds
<1>2. StatesOf(cmd) = {"RN", "MSG"}
  BY <1>1, HandlerStates
<1>3. {"SEND OK", "SEND FAIL", "ERRFRAME"} \subseteq VerdictsOf(cmd)
  BY DEF VerdictsOf, SdframeCmds, DframeCmds
<1>4. OrdinaryUpcalls'
  <2>1. user_data[reply] \in Nat
    BY DEF TypeOK
  <2>2. SentPayload(user_data[reply]) \in Upcall
    BY <2>1 DEF SentPayload, Upcall, NoLink
  <2>3. SentPayload(user_data[reply]).fn = "send"
    BY DEF SentPayload
  <2>4. upcalls' \subseteq {SentPayload(user_data[reply])}
    BY DEF simx_rcv_sdframe
  <2> QED
    BY <2>2, <2>3, <2>4 DEF OrdinaryUpcalls
<1>5. \/ \E v \in {"SEND OK", "SEND FAIL", "ERRFRAME"} : simx_finished(v)
      \/ Goto("MSG")
  BY DEF simx_rcv_sdframe
<1>6. CASE \E v \in {"SEND OK", "SEND FAIL", "ERRFRAME"} : simx_finished(v)
  BY <1>3, <1>4, <1>6, FinishTypes DEF HandlerEffect, Outcome
<1>7. CASE Goto("MSG")
  BY <1>1, <1>2, <1>4, <1>7, GotoTypes DEF HandlerEffect, Outcome
<1> QED
  BY <1>5, <1>6, <1>7

LEMMA MframeEffect ==
  ASSUME NEW f \in Frame, TypeOK, is_receive = 0, reply \in Replies,
         cmd \in MframeCmds, simx_rcv_mframe(f)
  PROVE  HandlerEffect
<1>1. cmd \in Cmds /\ cmd = "CIPSTATUS"
  BY DEF Cmds, MframeCmds
<1>2. StatesOf(cmd) = {"RN", "MSG", "STATUS"}
  BY <1>1, HandlerStates
<1>3. {"OK", "ERROR", "ERRFRAME"} \subseteq VerdictsOf(cmd)
  BY DEF VerdictsOf, MframeCmds, DframeCmds, SdframeCmds
<1>4. OrdinaryUpcalls'
  BY DEF simx_rcv_mframe, OrdinaryUpcalls
<1>5. \/ \E v \in {"OK", "ERROR", "ERRFRAME"} : simx_finished(v)
      \/ state = "RN" /\ Goto("STATUS")
      \/ state = "MSG" /\ Goto("MSG")
      \/ state = "MSG" /\ EndOfTable
      \/ /\ state = "STATUS" /\ state' = "MSG"
         /\ status' = [status EXCEPT ![reply] = "OK"]
         /\ UNCHANGED <<is_receive, fcmd_finished, modes>>
  BY DEF simx_rcv_mframe, _simx_current_connection_status_resp
<1>6. CASE \E v \in {"OK", "ERROR", "ERRFRAME"} : simx_finished(v)
  BY <1>3, <1>4, <1>6, FinishTypes DEF HandlerEffect, Outcome
<1>7. CASE state = "RN" /\ Goto("STATUS")
  BY <1>1, <1>2, <1>4, <1>7, GotoTypes DEF HandlerEffect, Outcome
<1>8. CASE state = "MSG" /\ Goto("MSG")
  BY <1>1, <1>2, <1>4, <1>8, GotoTypes DEF HandlerEffect, Outcome
<1>9. CASE state = "MSG" /\ EndOfTable
  BY <1>1, <1>4, <1>9 DEF HandlerEffect, Outcome, EndOfTable, TypeOK, ModesTyped, modes
<1>10. CASE /\ state = "STATUS" /\ state' = "MSG"
            /\ status' = [status EXCEPT ![reply] = "OK"]
            /\ UNCHANGED <<is_receive, fcmd_finished, modes>>
  BY <1>1, <1>4, <1>10 DEF HandlerEffect, Outcome, TypeOK, ModesTyped, modes
<1> QED
  BY <1>5, <1>6, <1>7, <1>8, <1>9, <1>10

\* The frame handed to the handler of the command in flight.
LEMMA AnswerEffect ==
  ASSUME NEW f \in Frame, TypeOK, InFlightIsServed, Answer(f)
  PROVE  /\ is_receive = 0
         /\ HandlerEffect
         /\ UNCHANGED <<reply, cmd, time_ms, receiver>>
<1>1. is_receive = 0 /\ reply \in Replies
  BY DEF Answer, InFlightIsServed, InFlight
<1>2. HandlerEffect
  BY <1>1, RframeEffect, DframeEffect, WframeEffect, MframeEffect, IpframeEffect,
     SdframeEffect DEF Answer
<1> QED
  BY <1>1, <1>2 DEF Answer

-----------------------------------------------------------------------------
(* What a call does.                                                       *)

\* The types of the fields an API function writes before it tries to send.
FieldsTyped ==
  /\ fcmd_finished \in {"none", "mux", "head", "te"}
  /\ user_data \in [Replies -> Nat]
  /\ user_pointer \in [Replies -> Cmds \cup {NO_AT}]
  /\ cmd_data \in Replies \cup {NoReply}

\* The hook of a command that sets a mode.
HookOf(c) ==
  IF c = "CIPMUX" THEN "mux" ELSE IF c = "CIPHEAD" THEN "head"
  ELSE IF c = "CSCS" THEN "te" ELSE "none"

\* Whose SMS text is kept, whose destination and whose mode are set, and which
\* hook is installed, refused or not.
CallFields(r, c) ==
  /\ cmd_data' = IF c = "CMGS" THEN r ELSE cmd_data
  /\ user_pointer' = IF c \in PointerCmds THEN [user_pointer EXCEPT ![r] = c]
                                          ELSE user_pointer
  /\ fcmd_finished' = IF HookOf(c) = "none" THEN fcmd_finished ELSE HookOf(c)
  /\ \A q \in Replies \ {r} : user_data'[q] = user_data[q]
  /\ c = "CIPMUX" => user_data'[r] \in 0..(ByteMod - 1)
  /\ c = "CIPHEAD" => user_data'[r] \in {0, 1}

\* Command c is sent for reply r, or the call is refused; CIPHEAD takes
\* context->reply even then, and "+++" is never refused.
CallEffect(r, c, n) ==
  /\ CallFields(r, c)
  /\ \/ c # "PPP" /\ (Accept(r, c, n) \/ Refuse(r, reply))
     \/ c = "CIPHEAD" /\ Refuse(r, r)
     \/ c = "PPP" /\ CommandMode(r)

Connections == Link \cup {NoLink}

LEMMA QueryCallEffect ==
  ASSUME NEW r \in Replies, TypeOK, QueryCall(r)
  PROVE  /\ \E c \in Calls, n \in Connections : MayCall(r, c) /\ CallEffect(r, c, n)
         /\ FieldsTyped'
<1> USE DEF CallEffect, CallFields, HookOf, PointerCmds, FieldsTyped, TypeOK, MayCall, sim300_send,
            Plain, Pointing, fields, Connections
<1>1. CASE MayCall(r, "AT_AT") /\ simx_test(r)
  BY <1>1 DEF simx_test
<1>2. CASE MayCall(r, "CPINR") /\ simx_pin_is_required(r)
  BY <1>2 DEF simx_pin_is_required
<1>3. CASE MayCall(r, "CREG") /\ simx_network_registration(r)
  BY <1>3 DEF simx_network_registration
<1>4. CASE MayCall(r, "CSMINS") /\ simx_sim_inserted_status(r)
  BY <1>4 DEF simx_sim_inserted_status
<1>5. CASE MayCall(r, "CSQ") /\ simx_signal_quality_report(r)
  BY <1>5, CallAssumption DEF simx_signal_quality_report
<1>6. CASE MayCall(r, "CSCS") /\ \E v \in UserData : simx_set_TE_character(r, v)
  BY <1>6, DataAssumption DEF simx_set_TE_character
<1> QED
  BY <1>1, <1>2, <1>3, <1>4, <1>5, <1>6 DEF QueryCall

LEMMA DialCallEffect ==
  ASSUME NEW r \in Replies, TypeOK, DialCall(r)
  PROVE  /\ \E c \in Calls, n \in Connections : MayCall(r, c) /\ CallEffect(r, c, n)
         /\ FieldsTyped'
<1> USE DEF CallEffect, CallFields, HookOf, PointerCmds, FieldsTyped, TypeOK, MayCall, sim300_send,
            Plain, fields, Connections
<1>1. CASE MayCall(r, "ATD") /\ simx_call_to_dial_number(r)
  BY <1>1 DEF simx_call_to_dial_number
<1>2. CASE MayCall(r, "ATO") /\ simx_switch_mode(r, "SIM_DATA_MODE")
  BY <1>2 DEF simx_switch_mode
<1>3. CASE MayCall(r, "PPP") /\ simx_switch_mode(r, "SIM_COMMAND_MODE")
  BY <1>3 DEF simx_switch_mode, CommandMode
<1> QED
  BY <1>1, <1>2, <1>3 DEF DialCall

LEMMA GprsCallEffect ==
  ASSUME NEW r \in Replies, TypeOK, GprsCall(r)
  PROVE  /\ \E c \in Calls, n \in Connections : MayCall(r, c) /\ CallEffect(r, c, n)
         /\ FieldsTyped'
<1> USE DEF CallEffect, CallFields, HookOf, PointerCmds, FieldsTyped, TypeOK, MayCall, sim300_send,
            Plain, Pointing, fields, Connections
<1>1. CASE MayCall(r, "CGATT") /\ simx_is_attach_to_GPRS(r)
  BY <1>1 DEF simx_is_attach_to_GPRS
<1>2. CASE MayCall(r, "CIPSHUT") /\ simx_deactivate_gprs_pdp(r)
  BY <1>2 DEF simx_deactivate_gprs_pdp
<1>3. CASE MayCall(r, "CSTT") /\ simx_set_gprs_config(r)
  BY <1>3 DEF simx_set_gprs_config
<1>4. CASE MayCall(r, "CIICR") /\ simx_bring_up_wireless_connection(r)
  BY <1>4 DEF simx_bring_up_wireless_connection
<1>5. CASE MayCall(r, "CIFSR") /\ simx_get_local_ip(r)
  BY <1>5, CallAssumption DEF simx_get_local_ip
<1>6. CASE MayCall(r, "CGDCONT") /\ simx_define_pdp_context(r)
  BY <1>6 DEF simx_define_pdp_context
<1>7. CASE MayCall(r, "CIPCSGP") /\ simx_set_connection_mode(r)
  BY <1>7 DEF simx_set_connection_mode
<1> QED
  BY <1>1, <1>2, <1>3, <1>4, <1>5, <1>6, <1>7 DEF GprsCall

LEMMA TcpCallEffect ==
  ASSUME NEW r \in Replies, TypeOK, TcpCall(r)
  PROVE  /\ \E c \in Calls, n \in Connections : MayCall(r, c) /\ CallEffect(r, c, n)
         /\ FieldsTyped'
<1> USE DEF CallEffect, CallFields, HookOf, PointerCmds, FieldsTyped, TypeOK, MayCall, sim300_send,
            Pointing, fields, Connections
<1>1. \A n \in {0, 1} : WithLink(n) \in Connections
  BY DEF WithLink, Link
<1>2. \A v \in UserData : v \in Nat /\ v % ByteMod \in Nat /\ v % ByteMod \in 0..(ByteMod - 1)
  BY DataAssumption, ByteRange, NumberAssumption
<1>3. CASE MayCall(r, "CIPSTATUS") /\ \E v \in UserData : simx_current_connection_status(r, v)
  BY <1>2, <1>3, CallAssumption DEF simx_current_connection_status
<1>4. CASE MayCall(r, "CIPMUX") /\ \E v \in UserData : simx_multiple_connection(r, v)
  BY <1>2, <1>4 DEF simx_multiple_connection
<1>5. CASE MayCall(r, "CIPSTART") /\ \E n \in {0, 1} : simx_tcp_connect(r, n)
  BY <1>1, <1>5 DEF simx_tcp_connect
<1>6. CASE MayCall(r, "CIPSEND") /\ \E v \in UserData, n \in {0, 1} : simx_tcp_send_data(r, v, n)
  BY <1>1, <1>2, <1>6, CallAssumption DEF simx_tcp_send_data
<1>7. CASE MayCall(r, "CIPCLOSE") /\ \E n \in {0, 1} : simx_tcp_close(r, n)
  BY <1>1, <1>7 DEF simx_tcp_close
<1>8. CASE MayCall(r, "CIPHEAD") /\ \E v \in UserData : simx_tcp_head_enable(r, v)
  BY <1>2, <1>8 DEF simx_tcp_head_enable
<1> QED
  BY <1>3, <1>4, <1>5, <1>6, <1>7, <1>8 DEF TcpCall

LEMMA SmsCallEffect ==
  ASSUME NEW r \in Replies, TypeOK, SmsCall(r)
  PROVE  /\ \E c \in Calls, n \in Connections : MayCall(r, c) /\ CallEffect(r, c, n)
         /\ FieldsTyped'
<1> USE DEF CallEffect, CallFields, HookOf, PointerCmds, FieldsTyped, TypeOK, MayCall, sim300_send,
            Plain, Pointing, fields, Connections
<1>1. CASE MayCall(r, "CMGF") /\ simx_sms_mode(r)
  BY <1>1 DEF simx_sms_mode
<1>2. CASE MayCall(r, "CMGS") /\ simx_send_sms(r)
  BY <1>2 DEF simx_send_sms
<1>3. CASE MayCall(r, "CMGR") /\ simx_read_sms(r)
  BY <1>3, CallAssumption DEF simx_read_sms
<1> QED
  BY <1>1, <1>2, <1>3 DEF SmsCall

LEMMA AppCallEffect ==
  ASSUME NEW r \in Replies, TypeOK, AppCall(r)
  PROVE  /\ \E c \in Calls, n \in Connections : MayCall(r, c) /\ CallEffect(r, c, n)
         /\ FieldsTyped'
  BY QueryCallEffect, DialCallEffect, GprsCallEffect, TcpCallEffect, SmsCallEffect DEF AppCall

-----------------------------------------------------------------------------
(* The inductive invariant.  TypeOK and InFlightIsServed carry each other:  *)
(* a handler leaves a state its command knows only if it was given one, and *)
(* the types hold only if the reply it writes to is one.  The rest rests on *)
(* those two.                                                               *)

IInv ==
  /\ TypeOK
  /\ InFlightIsServed
  /\ NoEarlyVerdict
  /\ TimeLimit
  /\ PayloadOnlyWhenIdle
  /\ CounterBelowLength
  /\ NotificationLeavesIdle

LEMMA InitInv == Init => IInv
<1> SUFFICES ASSUME Init PROVE IInv
  OBVIOUS
<1>1. 0 \in 0..(ByteMod - 1)
  BY NumberAssumption
<1>2. user_data \in [Replies -> Nat]
  <2>1. user_data \in [Replies -> UserData] /\ UserData \subseteq Nat
    BY DataAssumption DEF Init
  <2> QED
    BY <2>1
<1>3. status \in [Replies -> Statuses] /\ user_pointer \in [Replies -> Cmds \cup {NO_AT}]
  BY DEF Init, Statuses
<1>4. TypeOK
  BY <1>1, <1>2, <1>3 DEF Init, TypeOK, States, Link
<1> QED
  BY <1>4 DEF Init, IInv, InFlightIsServed, NoEarlyVerdict, TimeLimit, InFlight,
     PayloadOnlyWhenIdle, CounterBelowLength, NotificationLeavesIdle

LEMMA SentUpcall ==
  ASSUME NEW c \in Cmds, NEW n \in Connections
  PROVE  Sent(c, n) \in Upcall
<1>1. n \in Int
  BY DEF Connections, Link, NoLink
<1> QED
  BY <1>1 DEF Sent, Upcall

\* A command is started.
LEMMA LaunchInv ==
  ASSUME NEW r \in Replies, NEW c \in Calls, NEW n \in Connections, NEW t \in Nat,
         IInv, FieldsTyped', Launch(r, c, n, "RN", "NULL", t),
         c # "PPP" => t <= Timeout
  PROVE  IInv'
<1>1. c \in Cmds
  BY CallAssumption
<1>2. TypeOK'
  <2>1. 0 \in 0..(ByteMod - 1)
    BY NumberAssumption
  <2>2. Sent(c, n) \in Upcall
    BY <1>1, SentUpcall
  <2>3. upcalls' \subseteq Upcall
    BY <2>2 DEF Launch
  <2> QED
    BY <1>1, <2>1, <2>3 DEF IInv, TypeOK, Launch, FieldsTyped, modes, States, Statuses
<1>3. \A u \in upcalls' : u.fn = "send"
  BY DEF Launch, Sent
<1>4. status'[r] = "NULL"
  BY DEF Launch, IInv, TypeOK
<1> QED
  BY <1>1, <1>2, <1>3, <1>4, HandlerStates
  DEF IInv, Launch, InFlightIsServed, NoEarlyVerdict, TimeLimit, InFlight,
      PayloadOnlyWhenIdle, CounterBelowLength, NotificationLeavesIdle

\* A call is refused; context->reply may become the refused one.
LEMMA RefuseInv ==
  ASSUME NEW r \in Replies, IInv, FieldsTyped',
         Refuse(r, reply) \/ Refuse(r, r)
  PROVE  IInv'
<1>1. reply' \in Replies /\ (reply' = reply \/ reply' = r)
  BY DEF Refuse, IInv, InFlightIsServed, InFlight
<1>2. status' = [status EXCEPT ![r] = "BUSY"] /\ status' \in [Replies -> Statuses]
  BY DEF Refuse, IInv, TypeOK, Statuses, StatusTexts
<1>3. status'[reply'] = status[reply] \/ status'[reply'] = "BUSY"
  BY <1>1, <1>2 DEF IInv, TypeOK
<1>4. TypeOK'
  BY <1>1, <1>2 DEF IInv, TypeOK, Refuse, FieldsTyped, modes, receiver
<1> QED
  BY <1>1, <1>3, <1>4
  DEF IInv, Refuse, InFlightIsServed, NoEarlyVerdict, TimeLimit, InFlight, receiver,
      PayloadOnlyWhenIdle, CounterBelowLength, NotificationLeavesIdle

LEMMA AppCallInv ==
  ASSUME NEW r \in Replies, IInv, AppCall(r)
  PROVE  IInv'
<1>1. FieldsTyped'
  BY AppCallEffect DEF IInv
<1>2. PICK c \in Calls, n \in Connections : CallEffect(r, c, n)
  BY AppCallEffect DEF IInv
<1>3. CASE Refuse(r, reply) \/ Refuse(r, r)
  BY <1>1, <1>3, RefuseInv
<1>4. CASE c # "PPP" /\ Accept(r, c, n)
  <2>1. 0 \in Nat /\ 0 <= Timeout
    BY NumberAssumption
  <2> QED
    BY <1>1, <1>4, <2>1, LaunchInv DEF Accept
<1>5. CASE c = "PPP" /\ CommandMode(r)
  <2>1. Launch(r, c, NoLink, "RN", "NULL", time_ms)
    BY <1>5 DEF CommandMode
  <2>2. NoLink \in Connections /\ time_ms \in Nat
    BY DEF Connections, IInv, TypeOK
  <2> QED
    BY <1>1, <1>5, <2>1, <2>2, LaunchInv
<1> QED
  BY <1>2, <1>3, <1>4, <1>5 DEF CallEffect

\* What a line leaves of the byte receiver, in a state with no payload.
ReceiverTyped ==
  /\ fsimx_receive \in {"msg", "tcp"}
  /\ sim_cnt \in 0..(ByteMod - 1)
  /\ receive_len \in Nat
  /\ receive_ncon \in Link
  /\ CounterBelowLength

\* The callbacks of a notification are well formed.
LEMMA NotificationUpcallType ==
  ASSUME NEW f \in Frame, IsNotification(f)
  PROVE  NotificationUpcall(f) \subseteq Upcall
<1>1. f.link \in Int /\ f.text \in NotificationTexts
  BY DEF Frame, Link, NoLink, IsNotification
<1>2. SmsReceived(f.link) \in Upcall
  BY <1>1 DEF SmsReceived, Upcall
<1>3. Message(f.text) \in Upcall
  <2>1. NoLink \in Int
    BY DEF NoLink
  <2>2. f.text \in Cmds \cup LinkTexts \cup NotificationTexts \cup {"payload", "text", ""}
    BY <1>1
  <2> QED
    BY <2>1, <2>2 DEF Message, Upcall
<1> QED
  BY <1>2, <1>3 DEF NotificationUpcall

LEMMA LinkUpcallType ==
  ASSUME NEW f \in Frame
  PROVE  /\ LinkUpcall(f) \subseteq Upcall
         /\ \A u \in LinkUpcall(f) : u.fn = "tcp_msg"
<1>1. f.link \in Int /\ (IF mux # 0 THEN f.link ELSE 0) \in Int
  BY DEF Frame, Link, NoLink
<1>2. TcpMsg("CONNECT OK", f.link) \in Upcall
  BY <1>1 DEF TcpMsg, Upcall, LinkTexts
<1>3. ASSUME f.text \in LinkTexts
      PROVE  TcpMsg(LinkEvent(f.text), IF mux # 0 THEN f.link ELSE 0) \in Upcall
  BY <1>1, <1>3 DEF TcpMsg, Upcall, LinkTexts, LinkEvent
<1>4. \A e, n : TcpMsg(e, n).fn = "tcp_msg"
  BY DEF TcpMsg
<1> QED
  BY <1>2, <1>3, <1>4 DEF LinkUpcall

LEMMA NotificationReceiver ==
  ASSUME NEW f \in Frame, IInv, _simx_notification_receive(f)
  PROVE  ReceiverTyped'
<1>1. Uint16(f.len) \in Nat /\ (f.link # NoLink => f.link \in Link)
  BY LengthRange DEF Frame
<1>2. 0 \in 0..(ByteMod - 1)
  BY NumberAssumption
<1> QED
  BY <1>1, <1>2 DEF _simx_notification_receive, receiver, IInv, TypeOK, ReceiverTyped,
     CounterBelowLength

\* A notification, in flight or not, whose callback calls nothing.
LEMMA CheckMessageInv ==
  ASSUME NEW f \in Frame, IInv, simx_check_message(f), UNCHANGED fields
  PROVE  IInv'
<1>1. is_receive' = 1
  BY DEF simx_check_message, simx_finished
<1>2. ReceiverTyped'
  BY NotificationReceiver DEF simx_check_message
<1>3. upcalls' \subseteq Upcall
  BY NotificationUpcallType DEF simx_check_message
<1>4. ModesTyped' /\ state' = state /\ status' \in [Replies -> Statuses]
  <2>1. CASE is_receive = 0 /\ simx_finished("ERROR")
    <3>1. reply \in Replies
      BY <2>1 DEF IInv, InFlightIsServed, InFlight
    <3>2. "ERROR" \in Statuses
      BY DEF Statuses, StatusTexts
    <3> QED
      BY <2>1, <3>1, <3>2, FinishTypes DEF IInv, TypeOK
  <2>2. CASE is_receive = 1 /\ UNCHANGED <<is_receive, state, status, fcmd_finished, modes>>
    BY <2>2 DEF IInv, TypeOK, ModesTyped, modes
  <2> QED
    BY <2>1, <2>2 DEF simx_check_message
<1>5. TypeOK'
  BY <1>1, <1>2, <1>3, <1>4
  DEF IInv, TypeOK, ModesTyped, ReceiverTyped, simx_check_message, fields
<1> QED
  BY <1>1, <1>2, <1>5
  DEF IInv, InFlightIsServed, NoEarlyVerdict, TimeLimit, InFlight, ReceiverTyped,
      PayloadOnlyWhenIdle, NotificationLeavesIdle

\* A notification whose callback starts a command.
LEMMA NestedCallInv ==
  ASSUME NEW f \in Frame, NEW r \in Replies, NEW c \in NestedCalls,
         IInv, fsimx_receive = "msg", NestedCall(f, r, c), UNCHANGED fields
  PROVE  IInv'
<1>1. is_receive' = 1 /\ c \in Cmds
  BY CallAssumption DEF NestedCall
<1>2. upcalls' \subseteq Upcall
  <2>1. NoLink \in Connections
    BY DEF Connections
  <2> QED
    BY <1>1, <2>1, SentUpcall, NotificationUpcallType DEF NestedCall
<1>3. ModesTyped'
  <2>1. user_data[r] \in Nat /\ user_data[r] % ByteMod \in 0..(ByteMod - 1)
    BY ByteRange DEF IInv, TypeOK
  <2> QED
    BY <2>1 DEF NestedCall, RunHook, ModesTyped, IInv, TypeOK
<1>4. status' \in [Replies -> Statuses]
  <2>1. "ERROR" \in Statuses
    BY DEF Statuses, StatusTexts
  <2> QED
    BY <2>1 DEF NestedCall, IInv, TypeOK
<1>5. TypeOK'
  BY <1>1, <1>2, <1>3, <1>4
  DEF IInv, TypeOK, NestedCall, ModesTyped, fields, receiver, States
<1> QED
  BY <1>1, <1>5
  DEF IInv, InFlightIsServed, NoEarlyVerdict, TimeLimit, InFlight, NestedCall, receiver,
      PayloadOnlyWhenIdle, CounterBelowLength, NotificationLeavesIdle

LEMMA IdleLineInv ==
  ASSUME NEW f \in Frame, IInv, IdleLine(f), UNCHANGED fields
  PROVE  IInv'
<1>1. is_receive' = 1
  BY DEF IdleLine
<1>2. TypeOK'
  BY LinkUpcallType DEF IInv, TypeOK, IdleLine, modes, receiver, fields
<1> QED
  BY <1>1, <1>2
  DEF IInv, InFlightIsServed, NoEarlyVerdict, TimeLimit, InFlight, IdleLine, receiver,
      PayloadOnlyWhenIdle, CounterBelowLength, NotificationLeavesIdle

LEMMA AnswerInv ==
  ASSUME NEW f \in Frame, IInv, Answer(f), UNCHANGED fields
  PROVE  IInv'
<1>1. /\ is_receive = 0 /\ reply \in Replies /\ cmd \in Cmds /\ state \in StatesOf(cmd)
      /\ TypeOK /\ InFlightIsServed
  BY DEF Answer, IInv, InFlightIsServed, InFlight
<1>2. HandlerEffect /\ UNCHANGED <<reply, cmd, time_ms, receiver>>
  BY <1>1, AnswerEffect
<1>3. VerdictsOf(cmd) \subseteq Statuses
  BY DEF VerdictsOf, Statuses, StatusTexts
<1>4. status' \in [Replies -> Statuses]
  <2>1. "OK" \in Statuses
    BY DEF Statuses, StatusTexts
  <2> QED
    BY <1>1, <1>2, <1>3, <2>1 DEF HandlerEffect, Outcome, TypeOK
<1>5. is_receive' \in {0, 1} /\ state' \in States /\ (is_receive' = 0 => state' \in StatesOf(cmd))
  BY <1>1, <1>2, HandlerStates, OneHandler DEF HandlerEffect, Outcome, TypeOK
<1>6. TypeOK'
  BY <1>1, <1>2, <1>4, <1>5
  DEF HandlerEffect, TypeOK, ModesTyped, OrdinaryUpcalls, fields, receiver
<1>7. NoEarlyVerdict'
  BY <1>1, <1>2 DEF HandlerEffect, Outcome, IInv, NoEarlyVerdict, InFlight, TypeOK
<1> QED
  BY <1>1, <1>2, <1>5, <1>6, <1>7
  DEF IInv, InFlightIsServed, TimeLimit, InFlight, receiver, HandlerEffect, OrdinaryUpcalls,
      PayloadOnlyWhenIdle, CounterBelowLength, NotificationLeavesIdle

\* A +IPD header.
LEMMA IpdHeaderInv ==
  ASSUME NEW f \in Frame, IInv, simx_receive_msg(f), IpdHeader(f), f.text # "PROMPT",
         ~simx_receive_frame(f)
  PROVE  IInv'
<1>1. Uint16(f.len) \in Nat
  BY LengthRange DEF Frame
<1>2. 0 \in 0..(ByteMod - 1) /\ 0 \in Link
  BY NumberAssumption DEF Link
<1>3. is_receive = 1
  BY DEF IpdHeader
<1>4. TypeOK'
  BY <1>1, <1>2 DEF IInv, TypeOK, simx_receive_msg, modes, fields
<1> QED
  BY <1>1, <1>3, <1>4
  DEF IInv, InFlightIsServed, NoEarlyVerdict, TimeLimit, InFlight, simx_receive_msg,
      PayloadOnlyWhenIdle, CounterBelowLength, NotificationLeavesIdle

\* A line of any kind, sent by the modem or not.
LEMMA ReceiveInv ==
  ASSUME NEW f \in Frame, IInv, simx_receive_msg(f)
  PROVE  IInv'
<1>1. fsimx_receive = "msg" /\ UNCHANGED fields
  BY DEF simx_receive_msg
<1>2. CASE simx_check_message(f)
  BY <1>1, <1>2, CheckMessageInv
<1>3. CASE \E r \in Replies, c \in NestedCalls : NestedCall(f, r, c)
  BY <1>1, <1>3, NestedCallInv
<1>4. CASE IdleLine(f)
  BY <1>1, <1>4, IdleLineInv
<1>5. CASE Answer(f)
  BY <1>1, <1>5, AnswerInv
<1>6. CASE IpdHeader(f) /\ ~simx_receive_frame(f)
  <2>1. f.text # "PROMPT"
    BY <1>6 DEF IpdHeader
  <2> QED
    BY <1>6, <2>1, IpdHeaderInv
<1>7. simx_receive_frame(f) \/ (IpdHeader(f) /\ ~simx_receive_frame(f))
  BY DEF simx_receive_msg
<1> QED
  BY <1>2, <1>3, <1>4, <1>5, <1>6, <1>7 DEF simx_receive_frame

LEMMA LineInv ==
  ASSUME IInv, ReceiveLine
  PROVE  IInv'
<1>1. PICK f \in Frame : simx_receive_msg(f)
  BY FrameAssumption DEF ReceiveLine
<1> QED
  BY <1>1, ReceiveInv

\* One payload byte: below the length the count moves up without passing it.
LEMMA PayloadByteInv ==
  ASSUME IInv, simx_receive_tcp
  PROVE  IInv'
<1>1. Count \in 0..(ByteMod - 1)
  <2>1. sim_cnt + 1 \in Nat
    BY DEF IInv, TypeOK
  <2> QED
    BY <2>1, ByteRange DEF Count
<1>2. fsimx_receive = "tcp" /\ is_receive = 1
  BY DEF simx_receive_tcp, PayloadByte, IInv, PayloadOnlyWhenIdle, InFlight, TypeOK
<1>3. is_receive' = 1 /\ UNCHANGED <<modes, status, fields>>
  BY <1>2 DEF simx_receive_tcp, PayloadByte
<1>4. TcpData(receive_ncon, receive_len) \in Upcall
  <2>1. receive_ncon \in Int /\ receive_len \in Nat
    BY DEF IInv, TypeOK, Link
  <2> QED
    BY <2>1 DEF TcpData, Upcall
<1>5. 0 \in 0..(ByteMod - 1) /\ 0 \in Link
  BY NumberAssumption DEF Link
<1>6. TypeOK'
  BY <1>1, <1>3, <1>4, <1>5 DEF simx_receive_tcp, PayloadByte, IInv, TypeOK, modes, fields
<1>7. CounterBelowLength'
  <2>1. CASE fsimx_receive' = "tcp" /\ receive_len' \in 1..(ByteMod - 1)
    <3>1. /\ Count # receive_len /\ sim_cnt' = Count /\ receive_len' = receive_len
      BY <2>1 DEF simx_receive_tcp, PayloadByte
    <3>2. sim_cnt < receive_len /\ receive_len < ByteMod
      BY <1>2, <2>1, <3>1, NumberAssumption DEF IInv, CounterBelowLength
    <3>3. Count = sim_cnt + 1
      BY <3>2, NumberAssumption DEF Count, IInv, TypeOK
    <3> QED
      BY <3>1, <3>2, <3>3 DEF CounterBelowLength, IInv, TypeOK
  <2> QED
    BY <2>1 DEF CounterBelowLength
<1> QED
  BY <1>3, <1>6, <1>7
  DEF IInv, InFlightIsServed, NoEarlyVerdict, TimeLimit, InFlight,
      PayloadOnlyWhenIdle, NotificationLeavesIdle

LEMMA TickInv ==
  ASSUME IInv, simx_tick_1ms
  PROVE  IInv'
<1>1. reply \in Replies /\ is_receive = 0
  BY DEF simx_tick_1ms, Tick, IInv, InFlightIsServed, InFlight
<1>2. status' \in [Replies -> Statuses]
  BY <1>1 DEF simx_tick_1ms, Tick, IInv, TypeOK, Statuses
<1>3. upcalls' \subseteq Upcall /\ \A u \in upcalls' : u.fn = "timeout"
  <2>1. TimedOut \in Upcall /\ TimedOut.fn = "timeout"
    BY DEF TimedOut, Upcall, NoLink
  <2> QED
    BY <2>1 DEF simx_tick_1ms, Tick
<1>4. TypeOK'
  BY <1>2, <1>3 DEF simx_tick_1ms, Tick, IInv, TypeOK, modes, receiver, fields
<1>5. TimeLimit'
  BY NumberAssumption DEF simx_tick_1ms, Tick, IInv, TypeOK, TimeLimit, InFlight
<1> QED
  BY <1>1, <1>3, <1>4, <1>5
  DEF IInv, simx_tick_1ms, Tick, InFlightIsServed, NoEarlyVerdict, InFlight, receiver,
      PayloadOnlyWhenIdle, CounterBelowLength, NotificationLeavesIdle

LEMMA WaitInv ==
  ASSUME IInv, simx_wait_reply
  PROVE  IInv'
<1>1. status' \in [Replies -> Statuses]
  BY DEF simx_wait_reply, IInv, InFlightIsServed, InFlight, TypeOK, Statuses
<1>2. TypeOK'
  BY <1>1 DEF simx_wait_reply, IInv, TypeOK, modes, receiver, fields
<1> QED
  BY <1>2
  DEF IInv, simx_wait_reply, InFlightIsServed, NoEarlyVerdict, TimeLimit, InFlight, receiver,
      PayloadOnlyWhenIdle, CounterBelowLength, NotificationLeavesIdle

LEMMA StutterInv ==
  ASSUME IInv, UNCHANGED vars
  PROVE  IInv'
<1>1. UNCHANGED <<is_receive, state, reply, cmd, fcmd_finished, cmd_data, time_ms, modes,
                  receiver, status, user_data, user_pointer, upcalls>>
  BY DEF vars
<1>2. TypeOK'
  BY <1>1 DEF IInv, TypeOK, modes, receiver
<1> QED
  BY <1>1, <1>2
  DEF IInv, InFlightIsServed, NoEarlyVerdict, TimeLimit, InFlight, receiver,
      PayloadOnlyWhenIdle, CounterBelowLength, NotificationLeavesIdle

LEMMA StepInv == IInv /\ [Next]_vars => IInv'
<1> SUFFICES ASSUME IInv, [Next]_vars PROVE IInv'
  OBVIOUS
<1>1. CASE \E r \in Replies : AppCall(r)
  BY <1>1, AppCallInv
<1>2. CASE ReceiveLine
  BY <1>2, LineInv
<1>3. CASE simx_receive_tcp
  BY <1>3, PayloadByteInv
<1>4. CASE simx_tick_1ms
  BY <1>4, TickInv
<1>5. CASE simx_wait_reply
  BY <1>5, WaitInv
<1>6. CASE UNCHANGED vars
  BY <1>6, StutterInv
<1> QED
  BY <1>1, <1>2, <1>3, <1>4, <1>5, <1>6 DEF Next

LEMMA AlwaysInv == Spec => []IInv
<1>1. Init => IInv
  BY InitInv
<1>2. IInv /\ [Next]_vars => IInv'
  BY StepInv
<1> QED
  BY <1>1, <1>2, PTL DEF Spec

-----------------------------------------------------------------------------
(* What always holds.                                                      *)

\* The variables keep their types: in particular the verdict written on every
\* path of every handler is one of sim_status_t, and the byte-wide fields fit.
THEOREM TypeCorrect == Spec => []TypeOK
<1>1. IInv => TypeOK
  BY DEF IInv
<1> QED
  BY AlwaysInv, <1>1, PTL

\* A command in flight always has a reply to dereference, a row in the command
\* table and a state its handler has a case for (simx_receive_frame, whose
\* switches have no default), whatever lines and calls come.
THEOREM InFlightServed == Spec => []InFlightIsServed
<1>1. IInv => InFlightIsServed
  BY DEF IInv
<1> QED
  BY AlwaysInv, <1>1, PTL

\* Polling reply->status shows no verdict before the command has ended, but for
\* the early OK of CIPSTATUS and the BUSY of a call that passes the same reply.
THEOREM VerdictNotEarly == Spec => []NoEarlyVerdict
<1>1. IInv => NoEarlyVerdict
  BY DEF IInv
<1> QED
  BY AlwaysInv, <1>1, PTL

\* No command but "+++" is in flight beyond SIM900_TIMEOUT ticks
\* (simx_tick_1ms).
THEOREM TimeLimited == Spec => []TimeLimit
<1>1. IInv => TimeLimit
  BY DEF IInv
<1> QED
  BY AlwaysInv, <1>1, PTL

\* The byte receiver takes payload bytes only while no command waits for lines
\* (simx_receive_tcp, and the sends that reset fsimx_receive).
THEOREM PayloadWhenIdle == Spec => []PayloadOnlyWhenIdle
<1>1. IInv => PayloadOnlyWhenIdle
  BY DEF IInv
<1> QED
  BY AlwaysInv, <1>1, PTL

\* A payload whose length fits the 8-bit counter is counted without passing its
\* end (simx_receive_tcp).
THEOREM CounterStaysBelow == Spec => []CounterBelowLength
<1>1. IInv => CounterBelowLength
  BY DEF IInv
<1> QED
  BY AlwaysInv, <1>1, PTL

\* When a notification's callback has returned the driver is idle, even if the
\* callback started a command (simx_receive_frame).
THEOREM IdleAfterNotification == Spec => []NotificationLeavesIdle
<1>1. IInv => NotificationLeavesIdle
  BY DEF IInv
<1> QED
  BY AlwaysInv, <1>1, PTL

-----------------------------------------------------------------------------
(* What a step may do.                                                     *)

\* What each kind of step does to the command in flight.  The kinds are told
\* apart by who takes the step; a line is a notification or an answer.
Stays ==
  UNCHANGED <<is_receive, reply, cmd, status, state>>

Started(r, c) ==
  /\ is_receive = 1 /\ is_receive' = 0 /\ reply' = r /\ cmd' = c /\ state' = "RN"
  /\ status' = [status EXCEPT ![r] = "NULL"]
  /\ \E u \in upcalls' : u.fn = "send"
  /\ c # "PPP" => time_ms' = 0

Refused(r, held) ==
  /\ is_receive = 0 /\ is_receive' = 0 /\ reply' = held /\ UNCHANGED <<cmd, state>>
  /\ status' = [status EXCEPT ![r] = "BUSY"]

Answered ==
  /\ is_receive = 0 /\ Outcome /\ UNCHANGED <<reply, cmd>>

Ended(v) ==
  /\ is_receive = 0 /\ is_receive' = 1 /\ UNCHANGED <<reply, cmd, state>>
  /\ status' = [status EXCEPT ![reply] = v]

Bounced(r) ==
  /\ is_receive = 1 /\ is_receive' = 1 /\ reply' = r
  /\ status' = [status EXCEPT ![r] = "ERROR"]
  /\ \E u \in upcalls' : u.fn = "send"

\* "+++" taking over from the command in flight.
TakenOver(r) ==
  /\ is_receive' = 0 /\ reply' = r /\ cmd' = "PPP" /\ state' = "RN"
  /\ status' = [status EXCEPT ![r] = "NULL"]
  /\ \E u \in upcalls' : u.fn = "send"

CallKind(r, c) ==
  \/ c # "PPP" /\ Started(r, c)
  \/ Refused(r, reply)
  \/ c = "CIPHEAD" /\ Refused(r, r)
  \/ c = "PPP" /\ TakenOver(r)

LineKind ==
  \/ Stays
  \/ Answered
  \/ Ended("ERROR")
  \/ \E r \in Replies : Bounced(r)

LEMMA CallKinds ==
  ASSUME NEW r \in Replies, IInv, AppCall(r)
  PROVE  \E c \in Calls : MayCall(r, c) /\ CallKind(r, c)
<1>1. PICK c \in Calls, n \in Connections : MayCall(r, c) /\ CallEffect(r, c, n)
  BY AppCallEffect DEF IInv
<1>2. \A m : Sent(c, m).fn = "send"
  BY DEF Sent
<1>3. Accept(r, c, n) => Started(r, c)
  BY <1>2 DEF Accept, Launch, Started
<1>4. \A held : Refuse(r, held) => Refused(r, held)
  BY DEF Refuse, Refused
<1>5. c = "PPP" /\ CommandMode(r) => TakenOver(r)
  BY <1>2 DEF CommandMode, Launch, TakenOver
<1> QED
  BY <1>1, <1>3, <1>4, <1>5 DEF CallEffect, CallKind

LEMMA ReceiveKinds ==
  ASSUME NEW f \in Frame, IInv, simx_receive_msg(f)
  PROVE  LineKind
<1>1. CASE simx_check_message(f)
  BY <1>1 DEF simx_check_message, simx_finished, LineKind, Ended, Stays
<1>2. CASE \E r \in Replies, c \in NestedCalls : NestedCall(f, r, c)
  <2>1. PICK r \in Replies, c \in NestedCalls : NestedCall(f, r, c)
    BY <1>2
  <2>2. Sent(c, NoLink) \in upcalls' /\ Sent(c, NoLink).fn = "send"
    BY <2>1 DEF NestedCall, Sent
  <2> QED
    BY <2>1, <2>2 DEF NestedCall, LineKind, Bounced
<1>3. CASE IdleLine(f)
  BY <1>3 DEF IdleLine, LineKind, Stays
<1>4. CASE Answer(f)
  BY <1>4, AnswerEffect DEF IInv, HandlerEffect, LineKind, Answered
<1>5. CASE ~simx_receive_frame(f)
  BY <1>5 DEF simx_receive_msg, LineKind, Stays
<1> QED
  BY <1>1, <1>2, <1>3, <1>4, <1>5 DEF simx_receive_frame

LEMMA LineKinds ==
  ASSUME IInv, ReceiveLine
  PROVE  LineKind
  BY FrameAssumption, ReceiveKinds DEF ReceiveLine

\* Every step, by its effect on the command in flight.
LEMMA StepKinds ==
  ASSUME IInv, [Next]_vars
  PROVE  \/ \E r \in Replies, c \in Calls : MayCall(r, c) /\ CallKind(r, c)
         \/ LineKind
         \/ Ended("TIMEOUT")
<1>1. CASE \E r \in Replies : AppCall(r)
  BY <1>1, CallKinds
<1>2. CASE ReceiveLine
  BY <1>2, LineKinds
<1>3. CASE simx_receive_tcp
  BY <1>3 DEF simx_receive_tcp, PayloadByte, LineKind, Stays
<1>4. CASE simx_tick_1ms
  BY <1>4 DEF simx_tick_1ms, Tick, LineKind, Stays, Ended
<1>5. CASE simx_wait_reply
  BY <1>5 DEF simx_wait_reply, Ended
<1>6. CASE UNCHANGED vars
  BY <1>6 DEF vars, LineKind, Stays
<1> QED
  BY <1>1, <1>2, <1>3, <1>4, <1>5, <1>6 DEF Next

\* A command that ends leaves one of its own verdicts in the reply it answers
\* to, on every path through the handlers, the notification, the tick and
\* simx_wait_reply.
THEOREM CompletionHasVerdict == Spec => VerdictOnCompletion
<1>1. ASSUME IInv, [Next]_vars, InFlight, is_receive' = 1
      PROVE  status'[reply] \in VerdictsOf(cmd) \cup
               IF cmd = "CIPSTATUS" THEN {"BUSY"} ELSE {}
  <2>1. is_receive = 0 /\ reply \in Replies /\ cmd \in Cmds /\ status \in [Replies -> Statuses]
    BY <1>1 DEF IInv, InFlightIsServed, InFlight, TypeOK
  <2>2. "ERROR" \in VerdictsOf(cmd) /\ "TIMEOUT" \in VerdictsOf(cmd)
    BY <2>1, CommonVerdicts
  <2>3. CASE Ended("ERROR") \/ Ended("TIMEOUT")
    BY <2>1, <2>2, <2>3 DEF Ended
  <2>4. CASE Answered
    <3>1. CASE \E v \in VerdictsOf(cmd) : status' = [status EXCEPT ![reply] = v]
      BY <2>1, <3>1
    <3>2. CASE status' = status /\ cmd = "CIPSTATUS" /\ state = "MSG"
      <4>1. status[reply] \in {"OK", "BUSY"}
        BY <1>1, <3>2 DEF IInv, NoEarlyVerdict
      <4>2. "OK" \in VerdictsOf("CIPSTATUS")
        BY DEF VerdictsOf, DframeCmds, SdframeCmds
      <4> QED
        BY <3>2, <4>1, <4>2
    <3> QED
      BY <1>1, <2>4, <3>1, <3>2 DEF Answered, Outcome
  <2> QED
    BY <1>1, <2>1, <2>3, <2>4, StepKinds
    DEF CallKind, LineKind, Stays, Started, Refused, TakenOver, Bounced
<1>2. IInv /\ [Next]_vars =>
        [InFlight /\ is_receive' = 1 =>
           status'[reply] \in VerdictsOf(cmd) \cup
             IF cmd = "CIPSTATUS" THEN {"BUSY"} ELSE {}]_vars
  BY <1>1
<1> QED
  BY AlwaysInv, <1>2, PTL DEF Spec, VerdictOnCompletion

\* A step writes a reply only for the command in flight, to refuse the call that
\* passes it, or because its call was sent: answers that come after the verdict
\* or the timeout write nothing.
THEOREM RepliesLeftAlone == Spec => RepliesWrittenOnlyWhenAsked
<1>1. ASSUME IInv, [Next]_vars, NEW r \in Replies, status'[r] # status[r]
      PROVE  \/ InFlight /\ (r = reply \/ status'[r] = "BUSY")
             \/ r = reply' /\ \E u \in upcalls' : u.fn = "send"
  <2>1. status \in [Replies -> Statuses] /\ (is_receive = 0 => InFlight)
    BY <1>1 DEF IInv, TypeOK, InFlight
  <2>2. CASE \E q \in Replies, c \in Calls : CallKind(q, c)
    BY <1>1, <2>1, <2>2 DEF CallKind, Started, Refused, TakenOver
  <2>3. CASE LineKind
    BY <1>1, <2>1, <2>3 DEF LineKind, Stays, Answered, Outcome, Ended, Bounced
  <2>4. CASE Ended("TIMEOUT")
    BY <1>1, <2>1, <2>4 DEF Ended
  <2> QED
    BY <1>1, <2>2, <2>3, <2>4, StepKinds
<1>2. IInv /\ [Next]_vars =>
        [\A r \in Replies : status'[r] # status[r] =>
           \/ InFlight /\ (r = reply \/ status'[r] = "BUSY")
           \/ r = reply' /\ \E u \in upcalls' : u.fn = "send"]_vars
  BY <1>1
<1> QED
  BY AlwaysInv, <1>2, PTL DEF Spec, RepliesWrittenOnlyWhenAsked

\* An application that leaves "+++" and simx_tcp_head_enable alone while a
\* command is in flight never takes it away from its caller.  (A hypothesis of
\* both kinds is needed: simx_switch_mode does not look at is_receive and
\* simx_tcp_head_enable stores context->reply before sim300_send_at_cmd_vp does.)
THEOREM RefusalIsHarmless ==
  ASSUME BusyCalls \cap {"PPP", "CIPHEAD"} = {}
  PROVE  Spec => RefusalHarmless
<1>1. ASSUME IInv, [Next]_vars, InFlight, is_receive' = 0
      PROVE  UNCHANGED <<reply, cmd>>
  <2>1. is_receive = 0
    BY <1>1 DEF InFlight
  <2>2. CASE \E r \in Replies, c \in Calls : MayCall(r, c) /\ CallKind(r, c)
    <3>1. PICK r \in Replies, c \in Calls : MayCall(r, c) /\ CallKind(r, c)
      BY <2>2
    <3>2. c # "PPP" /\ c # "CIPHEAD"
      BY <2>1, <3>1 DEF MayCall
    <3> QED
      BY <2>1, <3>1, <3>2 DEF CallKind, Started, Refused
  <2>3. CASE LineKind
    BY <1>1, <2>1, <2>3 DEF LineKind, Stays, Answered, Ended, Bounced
  <2> QED
    BY <1>1, <2>2, <2>3, StepKinds DEF Ended
<1>2. IInv /\ [Next]_vars =>
        [InFlight /\ is_receive' = 0 => UNCHANGED <<reply, cmd>>]_vars
  BY <1>1
<1> QED
  BY AlwaysInv, <1>2, PTL DEF Spec, RefusalHarmless

\* When the application starts no command in the middle of a payload, every
\* payload that ends is handed over with the connection and the length its
\* header announced (simx_receive_tcp, _simx_notification_receive).
THEOREM PayloadIsDelivered ==
  ASSUME ~MidPayload
  PROVE  Spec => PayloadDelivered
<1>1. ASSUME IInv, [Next]_vars, fsimx_receive = "tcp", fsimx_receive' = "msg"
      PROVE  upcalls' = {TcpData(receive_ncon, receive_len)}
  <2>1. CASE \E r \in Replies : AppCall(r)
    BY <1>1, <2>1, CallKinds DEF MayCall
  <2>2. CASE ReceiveLine
    BY <1>1, <2>2 DEF ReceiveLine, simx_receive_msg
  <2>3. CASE simx_receive_tcp
    BY <1>1, <2>3 DEF simx_receive_tcp, PayloadByte
  <2>4. CASE simx_tick_1ms \/ simx_wait_reply \/ UNCHANGED vars
    BY <1>1, <2>4 DEF simx_tick_1ms, Tick, simx_wait_reply, receiver, vars
  <2> QED
    BY <1>1, <2>1, <2>2, <2>3, <2>4 DEF Next
<1>2. IInv /\ [Next]_vars =>
        [fsimx_receive = "tcp" /\ fsimx_receive' = "msg" =>
           upcalls' = {TcpData(receive_ncon, receive_len)}]_vars
  BY <1>1
<1> QED
  BY AlwaysInv, <1>2, PTL DEF Spec, PayloadDelivered

-----------------------------------------------------------------------------
(* What the answer goes through.                                           *)

\* A step that is not a call leaves the replies' fields alone and starts nothing.
LEMMA OtherSteps ==
  ASSUME IInv, [Next]_vars, ~\E r \in Replies : AppCall(r)
  PROVE  UNCHANGED user_pointer /\ (InFlight' => InFlight /\ UNCHANGED <<reply, cmd>>)
<1>1. UNCHANGED fields
  BY DEF Next, ReceiveLine, simx_receive_msg, simx_receive_tcp, PayloadByte,
         simx_tick_1ms, Tick, simx_wait_reply, vars, fields
<1>2. InFlight' => InFlight /\ UNCHANGED <<reply, cmd>>
  <2>1. CASE ReceiveLine
    BY <2>1, LineKinds DEF LineKind, Stays, Answered, Ended, Bounced, InFlight
  <2>2. CASE ~ReceiveLine
    BY <2>2 DEF Next, simx_receive_tcp, PayloadByte, simx_tick_1ms, Tick,
                simx_wait_reply, vars, InFlight
  <2> QED BY <2>1, <2>2
<1> QED BY <1>1, <1>2 DEF fields

\* What a call leaves in flight: its own command, or the one that was.
LEMMA CallLeaves ==
  ASSUME IInv, NEW r \in Replies, AppCall(r), "CIPHEAD" \notin BusyCalls
  PROVE  \E c \in Calls :
           /\ CallFields(r, c) /\ MayCall(r, c)
           /\ \/ reply' = r /\ cmd' = c /\ (is_receive = 1 \/ c = "PPP")
              \/ InFlight /\ UNCHANGED <<reply, cmd>>
<1>1. PICK c \in Calls, n \in Connections : MayCall(r, c) /\ CallEffect(r, c, n)
  BY AppCallEffect DEF IInv
<1>2. CASE Accept(r, c, n)
  BY <1>1, <1>2 DEF CallEffect, Accept, Launch
<1>3. CASE Refuse(r, reply)
  BY <1>1, <1>3 DEF CallEffect, Refuse, InFlight
<1>4. CASE c = "CIPHEAD" /\ Refuse(r, r)
  BY <1>1, <1>4 DEF Refuse, MayCall
<1>5. CASE c = "PPP" /\ CommandMode(r)
  BY <1>1, <1>5 DEF CallEffect, CommandMode, Launch
<1> QED BY <1>1, <1>2, <1>3, <1>4, <1>5 DEF CallEffect

\* An application that does not pass the reply in flight to a call that sets a
\* destination, nor enables heads meanwhile, gets the answer to a query where
\* that very query wants it (simx_signal_quality_report, simx_get_local_ip,
\* simx_current_connection_status, simx_tcp_send_data, simx_read_sms).
THEOREM DestinationIsItsOwn ==
  ASSUME "CIPHEAD" \notin BusyCalls, ~ReuseReply \/ BusyCalls \cap PointerCmds = {}
  PROVE  Spec => []DestinationBelongs
<1>1. Init => DestinationBelongs
  BY DEF Init, DestinationBelongs, InFlight
<1>2. ASSUME IInv, [Next]_vars, DestinationBelongs
      PROVE  DestinationBelongs'
  <2>1. ASSUME NEW r \in Replies, AppCall(r) PROVE DestinationBelongs'
    <3>1. PICK c \in Calls :
            /\ CallFields(r, c) /\ MayCall(r, c)
            /\ \/ reply' = r /\ cmd' = c /\ (is_receive = 1 \/ c = "PPP")
               \/ InFlight /\ UNCHANGED <<reply, cmd>>
      BY <1>2, <2>1, CallLeaves
    <3>2. user_pointer \in [Replies -> Cmds \cup {NO_AT}]
      BY <1>2 DEF IInv, TypeOK
    <3>3. CASE reply' = r /\ cmd' = c
      BY <3>1, <3>2, <3>3 DEF CallFields, DestinationBelongs
    <3>4. CASE InFlight /\ UNCHANGED <<reply, cmd>>
      <4>1. c \in PointerCmds => r # reply
        BY <3>1, <3>4 DEF MayCall, InFlight
      <4> QED BY <1>2, <3>1, <3>2, <3>4, <4>1 DEF CallFields, DestinationBelongs
    <3> QED BY <3>1, <3>3, <3>4
  <2>2. CASE ~\E r \in Replies : AppCall(r)
    BY <1>2, <2>2, OtherSteps DEF DestinationBelongs
  <2> QED BY <2>1, <2>2
<1> QED BY <1>1, <1>2, AlwaysInv, PTL DEF Spec

-----------------------------------------------------------------------------
(* The modes the driver remembers follow the modem's answers, for an       *)
(* application that keeps the finishing hooks apart.                       *)

\* No call made while a command is in flight installs a hook, takes the command
\* over or passes its reply; and no timer ends a command without its hook.
HooksApart ==
  /\ BusyCalls \cap {"CIPMUX", "CIPHEAD", "CSCS", "PPP"} = {}
  /\ ~ReuseReply /\ ~Ticking /\ ByteMod > 1

\* The hook installed is that of the command in flight, and its reply holds the
\* mode it asked for.
HookInv ==
  /\ fcmd_finished = IF InFlight THEN HookOf(cmd) ELSE "none"
  /\ InFlight /\ cmd \in {"CIPMUX", "CIPHEAD"} => user_data[reply] \in 0..(ByteMod - 1)
  /\ time_ms = 0

\* The ways a handler can leave the hook: run with a verdict, or as it is.
Ran(v) == is_receive = 0 /\ simx_finished(v) /\ UNCHANGED <<reply, cmd>>

HookStays == UNCHANGED <<fcmd_finished, modes, reply, cmd>>

LEMMA AnswerHook ==
  ASSUME NEW f, Answer(f)
  PROVE  \/ \E v : Ran(v)
         \/ HookStays /\ is_receive' = is_receive
         \/ HookStays /\ is_receive' = 1 /\ cmd \in MframeCmds
<1>1. is_receive = 0 /\ UNCHANGED <<reply, cmd>>
  BY DEF Answer
<1>2. \/ \E v : simx_finished(v)
      \/ \E s : Goto(s)
      \/ EndOfTable /\ cmd \in MframeCmds
      \/ UNCHANGED <<is_receive, fcmd_finished, modes>>
  <2>1. CASE simx_rcv_rframe(f)
    BY <2>1 DEF simx_rcv_rframe
  <2>2. CASE simx_rcv_dframe(f)
    BY <2>2 DEF simx_rcv_dframe
  <2>3. CASE simx_rcv_wframe(f)
    BY <2>3 DEF simx_rcv_wframe
  <2>4. CASE cmd \in MframeCmds /\ simx_rcv_mframe(f)
    BY <2>4 DEF simx_rcv_mframe, _simx_current_connection_status_resp
  <2>5. CASE simx_rcv_ipframe(f)
    BY <2>5 DEF simx_rcv_ipframe
  <2>6. CASE simx_rcv_sdframe(f)
    BY <2>6 DEF simx_rcv_sdframe
  <2> QED BY <2>1, <2>2, <2>3, <2>4, <2>5, <2>6 DEF Answer
<1>3. CASE \E v : simx_finished(v)
  BY <1>1, <1>3 DEF Ran
<1>4. CASE \/ \E s : Goto(s)
           \/ EndOfTable /\ cmd \in MframeCmds
           \/ UNCHANGED <<is_receive, fcmd_finished, modes>>
  BY <1>1, <1>4 DEF Goto, EndOfTable, HookStays
<1> QED BY <1>2, <1>3, <1>4

\* A line runs the hook of the command in flight, runs none because none is
\* installed, or leaves it alone.
LEMMA LineHook ==
  ASSUME IInv, HookInv, ReceiveLine
  PROVE  \/ \E v : Ran(v)
         \/ HookStays /\ is_receive' = is_receive
         \/ HookStays /\ is_receive' = 1 /\ cmd = "CIPSTATUS"
         \/ is_receive = 1 /\ is_receive' = 1 /\ UNCHANGED <<fcmd_finished, modes>>
<1>1. PICK f \in Frame : simx_receive_msg(f)
  BY FrameAssumption DEF ReceiveLine
<1>2. CASE simx_check_message(f)
  BY <1>2 DEF simx_check_message, Ran, HookStays
<1>3. CASE \E r \in Replies, c \in NestedCalls : NestedCall(f, r, c)
  <2>1. PICK r \in Replies, c \in NestedCalls : NestedCall(f, r, c)
    BY <1>3
  <2>2. is_receive = 1 /\ is_receive' = 1 /\ RunHook(r, "ERROR")
    BY <2>1 DEF NestedCall
  <2>3. fcmd_finished = "none"
    BY <2>2 DEF HookInv, InFlight
  <2> QED BY <2>2, <2>3 DEF RunHook, modes
<1>4. CASE IdleLine(f)
  BY <1>4 DEF IdleLine, HookStays
<1>5. CASE Answer(f)
  <2>1. \A c \in MframeCmds : c = "CIPSTATUS"
    BY DEF MframeCmds
  <2> QED BY <1>5, <2>1, AnswerHook
<1>6. CASE ~simx_receive_frame(f)
  BY <1>1, <1>6 DEF simx_receive_msg, HookStays
<1> QED BY <1>2, <1>3, <1>4, <1>5, <1>6 DEF simx_receive_frame

\* A call starts its own command with its own hook, or leaves the one in flight
\* as it is.
LEMMA CallHook ==
  ASSUME HooksApart, IInv, HookInv, NEW r \in Replies, AppCall(r)
  PROVE  /\ UNCHANGED modes /\ is_receive' = 0 /\ time_ms' = 0
         /\ \E c \in Calls :
              /\ CallFields(r, c)
              /\ \/ is_receive = 1 /\ cmd' = c /\ reply' = r
                 \/ /\ is_receive = 0 /\ UNCHANGED <<cmd, reply>>
                    /\ HookOf(c) = "none" /\ r # reply
<1>1. PICK c \in Calls, n \in Connections : MayCall(r, c) /\ CallEffect(r, c, n)
  BY AppCallEffect DEF IInv
<1>2. is_receive = 0 => c \notin {"CIPMUX", "CIPHEAD", "CSCS", "PPP"} /\ r # reply
  BY <1>1 DEF MayCall, HooksApart
<1>3. time_ms = 0
  BY DEF HookInv
<1>4. CASE Accept(r, c, n)
  BY <1>1, <1>4 DEF Accept, Launch, CallEffect
<1>5. CASE Refuse(r, reply)
  BY <1>1, <1>2, <1>3, <1>5 DEF Refuse, CallEffect, HookOf
<1>6. CASE c = "CIPHEAD" /\ Refuse(r, r)
  BY <1>2, <1>6 DEF Refuse
<1>7. CASE c = "PPP" /\ CommandMode(r)
  <2>1. is_receive = 1
    BY <1>2, <1>7 DEF IInv, TypeOK
  <2> QED BY <1>1, <1>3, <1>7, <2>1 DEF CommandMode, Launch, CallEffect
<1> QED BY <1>1, <1>4, <1>5, <1>6, <1>7 DEF CallEffect

\* No step but a call or a line disturbs the hook; the tick does not come and the
\* waiting loop does not give up.
LEMMA RestHook ==
  ASSUME HooksApart, IInv, HookInv, [Next]_vars,
         ~\E r \in Replies : AppCall(r), ~ReceiveLine
  PROVE  HookStays /\ UNCHANGED <<is_receive, user_data, time_ms>>
<1>1. ~(time_ms > Timeout)
  BY NumberAssumption DEF HookInv
<1>2. ~simx_wait_reply
  BY <1>1 DEF simx_wait_reply
<1>3. ~simx_tick_1ms
  BY DEF simx_tick_1ms, Tick, HooksApart
<1>4. CASE simx_receive_tcp
  BY <1>4 DEF simx_receive_tcp, PayloadByte, HookStays, fields
<1>5. CASE UNCHANGED vars
  BY <1>5 DEF vars, HookStays
<1> QED BY <1>2, <1>3, <1>4, <1>5 DEF Next

LEMMA LineKeeps ==
  ASSUME ReceiveLine, HookInv
  PROVE  user_data' = user_data /\ time_ms' = 0
<1>1. PICK f \in Frames : simx_receive_msg(f)
  BY DEF ReceiveLine
<1>2. time_ms = 0
  BY DEF HookInv
<1>3. user_data' = user_data
  BY <1>1 DEF simx_receive_msg, fields
<1>4. time_ms' = 0
  BY <1>1, <1>2 DEF simx_receive_msg, simx_receive_frame, simx_check_message, NestedCall,
                    IdleLine, Answer
<1> QED BY <1>3, <1>4

LEMMA HookInit == Init => HookInv
  BY DEF Init, HookInv, InFlight, HookOf

LEMMA HookNext ==
  ASSUME HooksApart, IInv, HookInv, [Next]_vars
  PROVE  HookInv'
<1>1. ASSUME NEW r \in Replies, AppCall(r) PROVE HookInv'
  <2>1. is_receive' = 0 /\ time_ms' = 0
    BY <1>1, CallHook
  <2>2. PICK c \in Calls :
          /\ CallFields(r, c)
          /\ \/ is_receive = 1 /\ cmd' = c /\ reply' = r
             \/ /\ is_receive = 0 /\ UNCHANGED <<cmd, reply>>
                /\ HookOf(c) = "none" /\ r # reply
    BY <1>1, CallHook
  <2>3. CASE is_receive = 1 /\ cmd' = c /\ reply' = r
    <3>1. fcmd_finished' = HookOf(c)
      BY <2>2, <2>3 DEF CallFields, HookInv, InFlight
    <3>2. c \in {"CIPMUX", "CIPHEAD"} => user_data'[r] \in 0..(ByteMod - 1)
      BY <2>2, NumberAssumption DEF CallFields, HooksApart
    <3> QED BY <2>1, <2>3, <3>1, <3>2 DEF HookInv, InFlight
  <2>4. CASE /\ is_receive = 0 /\ UNCHANGED <<cmd, reply>>
             /\ HookOf(c) = "none" /\ r # reply
    <3>1. reply \in Replies
      BY <2>4 DEF IInv, InFlightIsServed, InFlight
    <3>2. user_data'[reply] = user_data[reply]
      BY <2>2, <2>4, <3>1 DEF CallFields
    <3> QED BY <2>1, <2>2, <2>4, <3>2 DEF HookInv, InFlight, CallFields
  <2> QED BY <2>2, <2>3, <2>4
<1>2. CASE ReceiveLine
  <2>1. user_data' = user_data /\ time_ms' = 0
    BY <1>2, LineKeeps
  <2>2. CASE \E v : Ran(v)
    BY <2>1, <2>2 DEF Ran, simx_finished, RunHook, HookInv, InFlight
  <2>3. CASE HookStays /\ is_receive' = is_receive
    BY <2>1, <2>3 DEF HookStays, HookInv, InFlight
  <2>4. CASE HookStays /\ is_receive' = 1 /\ cmd = "CIPSTATUS"
    BY <2>1, <2>4 DEF HookStays, HookInv, InFlight, HookOf
  <2>5. CASE is_receive = 1 /\ is_receive' = 1 /\ UNCHANGED <<fcmd_finished, modes>>
    BY <2>1, <2>5 DEF HookInv, InFlight
  <2> QED BY <1>2, <2>2, <2>3, <2>4, <2>5, LineHook
<1>3. CASE ~ReceiveLine /\ ~\E r \in Replies : AppCall(r)
  BY <1>3, RestHook DEF HookStays, HookInv, InFlight
<1> QED BY <1>1, <1>2, <1>3

LEMMA AlwaysHook ==
  ASSUME HooksApart
  PROVE  Spec => [](IInv /\ HookInv)
<1>1. Init => HookInv
  BY HookInit
<1>2. IInv /\ HookInv /\ [Next]_vars => HookInv'
  BY HookNext
<1> QED BY <1>1, <1>2, AlwaysInv, PTL DEF Spec

\* The modes change only when a hook runs.
LEMMA ModesByHook ==
  ASSUME HooksApart, IInv, HookInv, [Next]_vars
  PROVE  \/ UNCHANGED modes /\ (InFlight /\ is_receive' = 1 => HookOf(cmd) = "none")
         \/ \E v : Ran(v)
<1>1. CASE \E r \in Replies : AppCall(r)
  <2>1. UNCHANGED modes /\ is_receive' = 0
    BY <1>1, CallHook
  <2> QED BY <2>1
<1>2. CASE ReceiveLine
  BY <1>2, LineHook DEF HookStays, InFlight, HookOf
<1>3. CASE ~ReceiveLine /\ ~\E r \in Replies : AppCall(r)
  BY <1>3, RestHook DEF HookStays, InFlight
<1> QED BY <1>1, <1>2, <1>3

LEMMA Adopted == \A x \in 0..(ByteMod - 1) : x % ByteMod = x
  BY NumberAssumption

\* For an application that keeps the hooks apart, an OK to AT+CIPMUX or AT+CIPHEAD
\* makes the driver adopt the mode that was asked for (simx_finished and the
\* hooks of simx_multiple_connection and simx_tcp_head_enable).
THEOREM ModesAreAdopted ==
  ASSUME HooksApart
  PROVE  Spec => ModesFollowAnswers
<1>1. ASSUME IInv, HookInv, [Next]_vars, InFlight, is_receive' = 1, status'[reply] = "OK"
      PROVE  /\ cmd = "CIPMUX" => mux' = user_data[reply]
             /\ cmd = "CIPHEAD" => ciphead' = user_data[reply]
  <2>1. CASE HookOf(cmd) = "none"
    BY <2>1 DEF HookOf
  <2>2. CASE \E v : Ran(v)
    <3>1. PICK v : Ran(v)
      BY <2>2
    <3>2. status'[reply] = v
      BY <1>1, <3>1 DEF Ran, simx_finished, IInv, TypeOK, InFlightIsServed
    <3>3. RunHook(reply, "OK")
      BY <1>1, <3>1, <3>2 DEF Ran, simx_finished
    <3> QED BY <1>1, <3>3, Adopted DEF HookInv, HookOf, RunHook
  <2> QED BY <1>1, <2>1, <2>2, ModesByHook
<1>2. IInv /\ HookInv /\ [Next]_vars =>
        [InFlight /\ is_receive' = 1 /\ status'[reply] = "OK" =>
           /\ cmd = "CIPMUX" => mux' = user_data[reply]
           /\ cmd = "CIPHEAD" => ciphead' = user_data[reply]]_vars
  BY <1>1
<1> QED BY AlwaysHook, <1>2, PTL DEF Spec, ModesFollowAnswers

\* And no mode ever changes otherwise.
THEOREM ModesChangeNotOtherwise ==
  ASSUME HooksApart
  PROVE  Spec => ModesChangeOnlyByAnswers
<1>1. ASSUME IInv, HookInv, [Next]_vars
      PROVE  /\ mux' # mux => cmd = "CIPMUX" /\ status'[reply] = "OK"
             /\ ciphead' # ciphead => cmd = "CIPHEAD" /\ status'[reply] = "OK"
             /\ te_chaster' # te_chaster => cmd = "CSCS"
  <2>1. CASE UNCHANGED modes
    BY <2>1 DEF modes
  <2>2. CASE \E v : Ran(v)
    <3>1. PICK v : Ran(v)
      BY <2>2
    <3>2. status'[reply] = v
      BY <1>1, <3>1 DEF Ran, simx_finished, IInv, TypeOK, InFlightIsServed, InFlight
    <3>3. RunHook(reply, v) /\ fcmd_finished = HookOf(cmd)
      BY <1>1, <3>1 DEF Ran, simx_finished, HookInv, InFlight
    <3> QED BY <3>2, <3>3 DEF HookOf, RunHook
  <2> QED BY <1>1, <2>1, <2>2, ModesByHook
<1>2. IInv /\ HookInv /\ [Next]_vars =>
        [/\ mux' # mux => cmd = "CIPMUX" /\ status'[reply] = "OK"
         /\ ciphead' # ciphead => cmd = "CIPHEAD" /\ status'[reply] = "OK"
         /\ te_chaster' # te_chaster => cmd = "CSCS"]_vars
  BY <1>1
<1> QED BY AlwaysHook, <1>2, PTL DEF Spec, ModesChangeOnlyByAnswers
=============================================================================

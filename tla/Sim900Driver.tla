------------------------------ MODULE Sim900Driver ------------------------------
(***************************************************************************)
(* The driver of sim900.c: one context, at most one AT command in flight.  *)
(* The application starts commands, the modem's lines come back through    *)
(* simx_receive, and a 1 ms tick bounds how long a command may take.       *)
(*                                                                         *)
(* The environment is open: in any state the modem may send any line of    *)
(* Frames and the application may call any function it is allowed to, so   *)
(* late, duplicated, reordered and unexpected lines are all included.  A   *)
(* line is one step; while a TCP payload is being received (fsimx_receive  *)
(* = "tcp") a byte is one step.                                            *)
(*                                                                         *)
(* Definitions named Bug_... are not used by the specification: each is    *)
(* the definition that follows it with a plausible bug in it, and shows    *)
(* which property would catch that bug.                                    *)
(***************************************************************************)
EXTENDS Sim900Types

CONSTANTS
  Replies,     \* the application's sim_reply_t objects
  NoReply,     \* the null pointer
  UserData,    \* values of reply->user_data: modes, sizes and lengths
  Frames,      \* the lines the modem may send
  Calls,       \* commands whose API function the application uses
  BusyCalls,   \* those it may also call while a command is in flight
  NestedCalls, \* those it may call from inside a notification callback
  ReuseReply,  \* may a call made meanwhile pass the reply in flight again?
  MidPayload,  \* may a command be started in the middle of a payload?
  Ticking,     \* is simx_tick_1ms wired to a timer?
  Timeout,     \* SIM900_TIMEOUT
  MaxTime,     \* bound on time_ms, which only a late "+++" lets grow further
  ByteMod      \* modulus of uint8_t

ASSUME ReplyAssumption   == NoReply \notin Replies
ASSUME DataAssumption    == UserData \subseteq Nat /\ UserData # {}
ASSUME FrameAssumption   == Frames \subseteq Frame
ASSUME CallAssumption    == /\ Calls \subseteq Cmds
                            /\ BusyCalls \subseteq Calls
                            /\ NestedCalls \subseteq Calls \ (PointerCmds \cup
                                 {"CMGS", "CSCS", "CIPMUX", "CIPHEAD", "PPP"})
ASSUME SwitchAssumption  == {ReuseReply, MidPayload, Ticking} \subseteq BOOLEAN
ASSUME NumberAssumption  == /\ Timeout \in Nat /\ MaxTime \in Nat /\ Timeout < MaxTime
                            /\ ByteMod \in Nat \ {0}

VARIABLES
  is_receive,    \* 1: idle, 0: a command is in flight
  state,         \* where the handler is in the answer
  reply,         \* context->reply, whose status the answer sets
  cmd,           \* context->cmd
  fcmd_finished, \* hook run when the command finishes
  cmd_data,      \* context->cmd_data, as the reply whose SMS text it is
  time_ms,
  mux, ciphead, te_chaster,                        \* modes the driver believes
  fsimx_receive, sim_cnt, receive_len, receive_ncon,  \* the byte receiver
  status,        \* reply->status
  user_data,     \* reply->user_data
  user_pointer,  \* reply->user_pointer, as the command whose call set it
  upcalls        \* the callbacks the last step made

modes    == <<mux, ciphead, te_chaster>>
receiver == <<fsimx_receive, sim_cnt, receive_len, receive_ncon>>
fields   == <<user_data, user_pointer, cmd_data>>
vars     == <<is_receive, state, reply, cmd, fcmd_finished, cmd_data, time_ms, modes,
              receiver, status, user_data, user_pointer, upcalls>>

Init ==
  /\ is_receive = 1
  /\ state = "RN"
  /\ reply = NoReply
  /\ cmd = NO_AT
  /\ fcmd_finished = "none"
  /\ cmd_data = NoReply
  /\ time_ms = 0
  /\ mux = 0 /\ ciphead = 0 /\ te_chaster = 0
  /\ fsimx_receive = "msg" /\ sim_cnt = 0 /\ receive_len = 0 /\ receive_ncon = 0
  /\ status = [r \in Replies |-> "NULL"]
  /\ user_data \in [Replies -> UserData]    \* replies are uninitialised locals
  /\ user_pointer = [r \in Replies |-> NO_AT]
  /\ upcalls = {}

-----------------------------------------------------------------------------
(* Finishing a command.                                                    *)

\* The hook is forgotten before it is run.
Bug_HookLost(r, verdict) ==
  /\ UNCHANGED modes
  /\ fcmd_finished' = "none"

\* The mode is adopted whatever the verdict.
Bug_ModeOnAnyVerdict(r, verdict) ==
  /\ mux' = IF fcmd_finished = "mux" THEN user_data[r] % ByteMod ELSE mux
  /\ UNCHANGED <<ciphead, te_chaster>>
  /\ fcmd_finished' = "none"

\* Finishing hooks: CIPMUX and CIPHEAD adopt the mode only on OK, CSCS always.
RunHook(r, verdict) ==
  /\ mux' = IF fcmd_finished = "mux" /\ verdict = "OK" THEN user_data[r] % ByteMod ELSE mux
  /\ ciphead' = IF fcmd_finished = "head" /\ verdict = "OK" THEN user_data[r] % ByteMod ELSE ciphead
  /\ te_chaster' = IF fcmd_finished = "te" THEN user_data[r] ELSE te_chaster
  /\ fcmd_finished' = "none"

\* The hook stays installed after it has run.
Bug_HookKept(verdict) ==
  /\ status' = [status EXCEPT ![reply] = verdict]
  /\ is_receive' = 1
  /\ mux' = IF fcmd_finished = "mux" /\ verdict = "OK" THEN user_data[reply] % ByteMod ELSE mux
  /\ UNCHANGED <<ciphead, te_chaster, fcmd_finished, state>>

simx_finished(verdict) ==
  /\ status' = [status EXCEPT ![reply] = verdict]
  /\ is_receive' = 1
  /\ RunHook(reply, verdict)
  /\ UNCHANGED state

\* The command stays in flight and its handler moves to s.
Goto(s) ==
  /\ state' = s
  /\ UNCHANGED <<is_receive, status, fcmd_finished, modes>>

\* CIPSTATUS ends from its parser, which only sets is_receive: no hook runs.
EndOfTable ==
  /\ is_receive' = 1
  /\ UNCHANGED <<state, status, fcmd_finished, modes>>

-----------------------------------------------------------------------------
(* Response handlers: one per answer format, each fed one frame.           *)

\* The query ends with its information line, not with the verdict behind it.
Bug_EndsAtReport(f) ==
  /\ \/ state = "RN" /\ Goto("CMD")
     \/ state = "CMD" /\ EchoMatches(cmd, f) /\ simx_finished("OK")
     \/ state = "CMD" /\ ~EchoMatches(cmd, f) /\ simx_finished("ERRFRAME")
  /\ upcalls' = {}

\* CR LF, "+XXX: ...", CR LF, OK
simx_rcv_rframe(f) ==
  /\ \/ state = "RN" /\ TwoBytes(f) /\ Goto("CMD")
     \/ state = "RN" /\ ~TwoBytes(f) /\ simx_finished("ERRFRAME")
     \/ state = "CMD" /\ EchoMatches(cmd, f) /\ Goto("MSG")
     \/ state = "CMD" /\ ~EchoMatches(cmd, f) /\ simx_finished("ERRFRAME")
     \/ state = "MSG" /\ TwoBytes(f) /\ Goto("STATUS")
     \/ state = "MSG" /\ ~TwoBytes(f) /\ Goto("MSG")
     \/ state = "STATUS" /\ f.text \in {"OK", "ERROR"} /\ simx_finished(f.text)
     \/ state = "STATUS" /\ f.text \notin {"OK", "ERROR"} /\ simx_finished("ERRFRAME")
  /\ upcalls' = {}

\* The prefix is not skipped.
Bug_PrefixKept(f, text) == mux # 0 /\ f.text = text /\ f.link = NoLink

\* With multi-IP on, three characters are skipped and the rest compared over
\* its own length: "1, CLOSE OK" matches, and so does a one-character line, of
\* which nothing is left.
MatchesBehindPrefix(f, text) ==
  /\ mux # 0
  /\ \/ f.text = text /\ f.link # NoLink
     \/ f.text = "CHAR"

\* CR LF, verdict
simx_rcv_dframe(f) ==
  \/ /\ \/ state = "RN" /\ TwoBytes(f) /\ Goto("STATUS")
        \/ state = "RN" /\ ~TwoBytes(f) /\ simx_finished("ERRFRAME")
        \/ state = "STATUS" /\ f.text = "CRLF" /\ Goto("STATUS")
        \/ /\ state = "STATUS" /\ f.text \in StatusTexts /\ f.link = NoLink
           /\ simx_finished(f.text)
        \/ /\ state = "STATUS" /\ f.text # "CRLF"
           /\ ~(f.text \in StatusTexts /\ f.link = NoLink)
           /\ ~MatchesBehindPrefix(f, "CLOSE OK")
           /\ simx_finished("ERRFRAME")
     /\ upcalls' = {}
  \/ /\ state = "STATUS" /\ MatchesBehindPrefix(f, "CLOSE OK")
     /\ simx_finished("CLOSE OK")
     /\ upcalls' = {TcpMsg("CLOSED", f.link)}

\* CR LF, "> ", the text, CR LF, +CMGS: n, CR LF, OK
simx_rcv_wframe(f) ==
  \/ /\ \/ state = "RN" /\ TwoBytes(f) /\ Goto("MSG")
        \/ state = "RN" /\ ~TwoBytes(f) /\ simx_finished("ERRFRAME")
        \/ state = "MSG" /\ f.text = "CRLF" /\ Goto("CMD")
        \/ state = "MSG" /\ ~TwoBytes(f) /\ simx_finished("ERRFRAME")
        \/ state = "CMD" /\ f.text = "CRLF" /\ Goto("STATUS")
        \/ state = "CMD" /\ EchoMatches(cmd, f) /\ Goto("CMD")
        \/ /\ state = "CMD" /\ f.text # "CRLF" /\ ~EchoMatches(cmd, f)
           /\ simx_finished("ERRFRAME")
        \/ state = "STATUS" /\ f.text \in {"OK", "ERROR"} /\ simx_finished(f.text)
        \/ state = "STATUS" /\ f.text \notin {"OK", "ERROR"} /\ simx_finished("ERRFRAME")
     /\ upcalls' = {}
  \/ /\ state = "MSG" /\ f.text = "PROMPT"
     /\ Goto("MSG")
     /\ upcalls' = {Sent("text", NoLink)}

\* The table is expected to end with its STATE line in both modes.
Bug_TableEndsAtState(f) ==
  \/ f.text = "STATE" /\ EndOfTable
  \/ f.text # "STATE" /\ Goto("MSG")

\* The row of client 7 is not known to be the last.
Bug_LastRowMissed(f) ==
  \/ f.text = "STATE" /\ mux = 0 /\ EndOfTable
  \/ ~(f.text = "STATE" /\ mux = 0) /\ Goto("MSG")

\* The CIPSTATUS table ends with its STATE line when multi-IP is off, and with
\* the row of client 7 whether it is on or off.
_simx_current_connection_status_resp(f) ==
  \/ f.text = "STATE" /\ mux = 0 /\ EndOfTable
  \/ f.text = "CLIENT" /\ f.link = 7 /\ EndOfTable
  \/ ~(f.text = "STATE" /\ mux = 0) /\ ~(f.text = "CLIENT" /\ f.link = 7) /\ Goto("MSG")

\* OK moves on to the table without being reported.
Bug_OkNotReported(f) ==
  /\ \/ state = "RN" /\ Goto("STATUS")
     \/ state = "STATUS" /\ f.text = "OK" /\ Goto("MSG")
     \/ state = "MSG" /\ _simx_current_connection_status_resp(f)
  /\ upcalls' = {}

\* CR LF, OK, then the table; OK is reported before the table is complete.
simx_rcv_mframe(f) ==
  /\ \/ state = "RN" /\ TwoBytes(f) /\ Goto("STATUS")
     \/ state = "RN" /\ ~TwoBytes(f) /\ simx_finished("ERRFRAME")
     \/ /\ state = "STATUS" /\ f.text = "OK"
        /\ status' = [status EXCEPT ![reply] = "OK"]
        /\ state' = "MSG"
        /\ UNCHANGED <<is_receive, fcmd_finished, modes>>
     \/ state = "STATUS" /\ f.text = "ERROR" /\ simx_finished("ERROR")
     \/ state = "STATUS" /\ f.text \notin {"OK", "ERROR"} /\ simx_finished("ERRFRAME")
     \/ state = "MSG" /\ _simx_current_connection_status_resp(f)
  /\ upcalls' = {}

\* CR LF, the address
simx_rcv_ipframe(f) ==
  /\ \/ state = "RN" /\ TwoBytes(f) /\ Goto("MSG")
     \/ state = "RN" /\ ~TwoBytes(f) /\ simx_finished("ERRFRAME")
     \/ state = "MSG" /\ f.text = "IP" /\ simx_finished("OK")
     \/ state = "MSG" /\ f.text # "IP" /\ simx_finished("ERRFRAME")
  /\ upcalls' = {}

\* Is f the answer text to AT+CIPSEND, prefixed exactly when multi-IP is on?
SendAnswer(f, text) ==
  \/ mux = 0 /\ f.text = text /\ f.link = NoLink
  \/ MatchesBehindPrefix(f, text)

\* anything, "> ", the payload, SEND OK or SEND FAIL
simx_rcv_sdframe(f) ==
  \/ /\ \/ state = "RN" /\ Goto("MSG")
        \/ state = "MSG" /\ f.text = "CRLF" /\ Goto("MSG")
        \/ state = "MSG" /\ SendAnswer(f, "SEND OK") /\ simx_finished("SEND OK")
        \/ /\ state = "MSG" /\ SendAnswer(f, "SEND FAIL") /\ ~SendAnswer(f, "SEND OK")
           /\ simx_finished("SEND FAIL")
        \/ /\ state = "MSG" /\ ~TwoBytes(f)
           /\ ~SendAnswer(f, "SEND OK") /\ ~SendAnswer(f, "SEND FAIL")
           /\ simx_finished("ERRFRAME")
     /\ upcalls' = {}
  \/ /\ state = "MSG" /\ f.text = "PROMPT"
     /\ Goto("MSG")
     /\ upcalls' = {SentPayload(user_data[reply])}

Answer(f) ==
  /\ is_receive = 0
  /\ \/ cmd \in RframeCmds  /\ simx_rcv_rframe(f)
     \/ cmd \in DframeCmds  /\ simx_rcv_dframe(f)
     \/ cmd \in WframeCmds  /\ simx_rcv_wframe(f)
     \/ cmd \in MframeCmds  /\ simx_rcv_mframe(f)
     \/ cmd \in IpframeCmds /\ simx_rcv_ipframe(f)
     \/ cmd \in SdframeCmds /\ simx_rcv_sdframe(f)
  /\ UNCHANGED <<reply, cmd, time_ms, receiver>>

-----------------------------------------------------------------------------
(* Lines that are not the answer to a command.                             *)

\* The callback a notification leads to; an unparsable one leads to none.
NotificationUpcall(f) ==
  IF f.text = "+CMTI" THEN IF f.link = NoLink THEN {} ELSE {SmsReceived(f.link)}
  ELSE IF f.text = "+RECEIVE" THEN {} ELSE {Message(f.text)}

\* The result of parsing the numbers is not looked at.
Bug_HeaderUnchecked(f) ==
  IF f.text = "+RECEIVE" /\ mux # 0
  THEN fsimx_receive' = "tcp" /\ receive_ncon' = f.link /\ receive_len' = Uint16(f.len)
       /\ sim_cnt' = 0
  ELSE UNCHANGED receiver

\* +RECEIVE,<n>,<len>: the bytes that follow are a payload.
_simx_notification_receive(f) ==
  IF f.text = "+RECEIVE" /\ f.link # NoLink /\ mux # 0
  THEN /\ fsimx_receive' = "tcp"
       /\ receive_ncon' = f.link
       /\ receive_len' = Uint16(f.len)
       /\ sim_cnt' = 0
  ELSE UNCHANGED receiver

\* The command in flight is not told that a notification has come.
Bug_NotificationIgnoresCommand(f) ==
  /\ IsNotification(f)
  /\ upcalls' = NotificationUpcall(f)
  /\ _simx_notification_receive(f)
  /\ UNCHANGED <<is_receive, state, status, fcmd_finished, modes, reply, cmd, time_ms>>

\* A notification, whose callback starts no command.  If a command is in
\* flight it is finished with ERROR.
simx_check_message(f) ==
  /\ IsNotification(f)
  /\ upcalls' = NotificationUpcall(f)
  /\ _simx_notification_receive(f)
  /\ \/ is_receive = 0 /\ simx_finished("ERROR")
     \/ is_receive = 1 /\ UNCHANGED <<is_receive, state, status, fcmd_finished, modes>>
  /\ UNCHANGED <<reply, cmd, time_ms>>

\* The callback of a notification that arrives while the driver is idle starts
\* command c, one without a pointer, hook or text: when the callback returns,
\* simx_receive_frame finds is_receive = 0 and finishes that command with ERROR.
NestedCall(f, r, c) ==
  /\ IsNotification(f) /\ is_receive = 1 /\ NotificationUpcall(f) # {}
  /\ status' = [status EXCEPT ![r] = "ERROR"]
  /\ RunHook(r, "ERROR")
  /\ reply' = r /\ cmd' = c /\ state' = "RN" /\ time_ms' = 0
  /\ upcalls' = NotificationUpcall(f) \cup {Sent(c, NoLink)}
  /\ UNCHANGED <<is_receive, receiver>>

\* An idle driver announces the fate of a connection: the connection is the
\* line's first character with multi-IP on and 0 with it off.
LinkUpcall(f) ==
  IF mux # 0 /\ f.text = "CHAR" THEN {TcpMsg("CONNECT OK", f.link)}
  ELSE IF f.text \in LinkTexts /\ (mux # 0 <=> f.link # NoLink)
       THEN {TcpMsg(LinkEvent(f.text), IF mux # 0 THEN f.link ELSE 0)}
       ELSE {}

IdleLine(f) ==
  /\ ~IsNotification(f) /\ is_receive = 1
  /\ upcalls' = LinkUpcall(f)
  /\ UNCHANGED <<is_receive, state, reply, cmd, fcmd_finished, time_ms, modes, receiver, status>>

simx_receive_frame(f) ==
  \/ simx_check_message(f)
  \/ \E r \in Replies, c \in NestedCalls : NestedCall(f, r, c)
  \/ IdleLine(f)
  \/ ~IsNotification(f) /\ Answer(f)

\* +IPD,<len>: is recognised at its colon, only when multi-IP is off, heads are
\* enabled and nothing is in flight; otherwise it starts an ordinary line.
IpdHeader(f) ==
  f.text = "+IPD" /\ mux = 0 /\ ciphead # 0 /\ is_receive = 1

simx_receive_msg(f) ==
  /\ fsimx_receive = "msg"
  /\ f.text = "PROMPT" => cmd \in PromptCmds
  /\ \/ ~IpdHeader(f) /\ simx_receive_frame(f)
     \/ /\ IpdHeader(f)
        /\ fsimx_receive' = "tcp" /\ receive_ncon' = 0 /\ receive_len' = Uint16(f.len)
        /\ sim_cnt' = 0
        /\ upcalls' = {}
        /\ UNCHANGED <<is_receive, state, reply, cmd, fcmd_finished, time_ms, modes, status>>
  /\ UNCHANGED fields

\* sim_cnt after one more byte: it is a uint8_t, receive_len a uint16_t.
Count == (sim_cnt + 1) % ByteMod

\* One payload byte, the last one if ended; ncon is the connection the callback
\* names.
PayloadByte(ended, ncon) ==
  /\ fsimx_receive = "tcp"
  /\ \/ /\ ~ended
        /\ sim_cnt' = Count
        /\ upcalls' = {}
        /\ UNCHANGED <<fsimx_receive, receive_len, receive_ncon>>
     \/ /\ ended
        /\ upcalls' = {TcpData(ncon, receive_len)}
        /\ fsimx_receive' = "msg" /\ sim_cnt' = 0 /\ receive_len' = 0 /\ receive_ncon' = 0
  /\ UNCHANGED <<is_receive, state, reply, cmd, fcmd_finished, time_ms, modes, status, fields>>

\* The counter is compared before it is incremented.
Bug_ComparedBeforeCounting == PayloadByte(sim_cnt = receive_len, receive_ncon)

\* The payload ends behind its last byte, not at it.
Bug_EndsBehindLastByte == PayloadByte(Count > receive_len, receive_ncon)

\* The connection is cleared before the payload is handed over.
Bug_ConnectionCleared == PayloadByte(Count = receive_len, 0)

simx_receive_tcp == PayloadByte(Count = receive_len, receive_ncon)

-----------------------------------------------------------------------------
(* Time.                                                                   *)

\* One millisecond of a command in flight; if late, its reply gets the verdict.
Tick(late, verdict) ==
  /\ Ticking /\ is_receive = 0
  /\ time_ms' = time_ms + 1
  /\ \/ /\ late
        /\ status' = [status EXCEPT ![reply] = verdict]
        /\ is_receive' = 1
        /\ upcalls' = {TimedOut}
     \/ /\ ~late
        /\ upcalls' = {}
        /\ UNCHANGED <<status, is_receive>>
  /\ UNCHANGED <<state, reply, cmd, fcmd_finished, modes, receiver, fields>>

\* The limit is exceeded by one tick too many.
Bug_LimitOffByOne == Tick(time_ms > Timeout, "TIMEOUT")

\* The timeout callback is made, the reply keeps what it has.
Bug_TimeoutNotReported == Tick(time_ms + 1 > Timeout, status[reply])

\* The timer counts only until the modem begins to answer.
Bug_TimerStopsAtAnswer == state = "RN" /\ Tick(time_ms + 1 > Timeout, "TIMEOUT")

simx_tick_1ms == Tick(time_ms + 1 > Timeout, "TIMEOUT")

\* The loop gives up without looking whether the command has finished.
Bug_WaitUnconditional ==
  /\ reply \in Replies /\ time_ms > Timeout
  /\ is_receive' = 1
  /\ status' = [status EXCEPT ![reply] = "TIMEOUT"]
  /\ upcalls' = {}
  /\ UNCHANGED <<state, reply, cmd, fcmd_finished, time_ms, modes, receiver, fields>>

\* The polling loop of simx_wait_reply gives up by itself when it finds the
\* time spent; everything else the function does leaves the state alone.
simx_wait_reply ==
  /\ is_receive = 0 /\ time_ms > Timeout
  /\ is_receive' = 1
  /\ status' = [status EXCEPT ![reply] = "TIMEOUT"]
  /\ upcalls' = {}
  /\ UNCHANGED <<state, reply, cmd, fcmd_finished, time_ms, modes, receiver, fields>>

-----------------------------------------------------------------------------
(* Sending a command.  The four sim300_send_* functions differ only in how *)
(* they format the text.                                                   *)

\* An idle driver starts command c, its handler in state st, the reply's status
\* being s and the time already spent t.
Launch(r, c, n, st, s, t) ==
  /\ is_receive' = 0
  /\ state' = st /\ reply' = r /\ cmd' = c
  /\ time_ms' = t
  /\ fsimx_receive' = "msg" /\ sim_cnt' = 0
  /\ status' = [status EXCEPT ![r] = s]
  /\ upcalls' = {Sent(c, n)}
  /\ UNCHANGED <<modes, receive_len, receive_ncon>>

\* The handler's state is not reset.
Bug_StateKept(r, c, n) == is_receive = 1 /\ Launch(r, c, n, state, "NULL", 0)

\* The previous verdict stays in the reply.
Bug_StatusKept(r, c, n) == is_receive = 1 /\ Launch(r, c, n, "RN", status[r], 0)

\* The timer is not reset.
Bug_TimeKept(r, c, n) == is_receive = 1 /\ Launch(r, c, n, "RN", "NULL", time_ms)

Accept(r, c, n) == is_receive = 1 /\ Launch(r, c, n, "RN", "NULL", 0)

\* A call made while a command is in flight; what it leaves in context->reply is
\* "held".
Refuse(r, held) ==
  /\ is_receive = 0
  /\ status' = [status EXCEPT ![r] = "BUSY"]
  /\ reply' = held
  /\ upcalls' = {}
  /\ UNCHANGED <<is_receive, time_ms, state, cmd, modes, receiver>>

\* The reply is taken before the driver knows whether it can send.
Bug_ReplyTakenFirst(r, c, n) == Accept(r, c, n) \/ Refuse(r, r)

sim300_send(r, c, n) == Accept(r, c, n) \/ Refuse(r, reply)

\* A command that stores nothing before it tries to send.
Plain(r, c) ==
  /\ sim300_send(r, c, NoLink)
  /\ UNCHANGED <<fcmd_finished, fields>>

simx_test(r)                            == Plain(r, "AT_AT")
simx_pin_is_required(r)                 == Plain(r, "CPINR")
simx_network_registration(r)            == Plain(r, "CREG")
simx_sim_inserted_status(r)             == Plain(r, "CSMINS")
simx_call_to_dial_number(r)             == Plain(r, "ATD")
simx_is_attach_to_GPRS(r)               == Plain(r, "CGATT")
simx_deactivate_gprs_pdp(r)             == Plain(r, "CIPSHUT")
simx_set_gprs_config(r)                 == Plain(r, "CSTT")
simx_bring_up_wireless_connection(r)    == Plain(r, "CIICR")
simx_define_pdp_context(r)              == Plain(r, "CGDCONT")
simx_set_connection_mode(r)             == Plain(r, "CIPCSGP")
simx_sms_mode(r)                        == Plain(r, "CMGF")

\* A command whose answer is stored through user_pointer, which is set before
\* the driver knows whether it can send.
Pointing(r, c, n) ==
  /\ user_pointer' = [user_pointer EXCEPT ![r] = c]
  /\ sim300_send(r, c, n)
  /\ UNCHANGED <<fcmd_finished, cmd_data>>

simx_signal_quality_report(r) == Pointing(r, "CSQ", NoLink) /\ UNCHANGED user_data
\* The destination is not stored.
Bug_DestinationForgotten(r) == Plain(r, "CIFSR")

simx_get_local_ip(r)          == Pointing(r, "CIFSR", NoLink) /\ UNCHANGED user_data
simx_read_sms(r)              == Pointing(r, "CMGR", NoLink) /\ UNCHANGED user_data

simx_current_connection_status(r, size) ==
  /\ user_data' = [user_data EXCEPT ![r] = size % ByteMod]
  /\ Pointing(r, "CIPSTATUS", NoLink)

\* The TCP commands carry the connection number only with multi-IP on.
WithLink(n) == IF mux # 0 THEN n ELSE NoLink

simx_tcp_connect(r, n) ==
  /\ sim300_send(r, "CIPSTART", WithLink(n))
  /\ UNCHANGED <<fcmd_finished, fields>>

simx_tcp_send_data(r, length, n) ==
  /\ user_data' = [user_data EXCEPT ![r] = length]
  /\ Pointing(r, "CIPSEND", WithLink(n))

simx_tcp_close(r, n) ==
  /\ sim300_send(r, "CIPCLOSE", WithLink(n))
  /\ UNCHANGED <<fcmd_finished, fields>>

\* Commands with a finishing hook install it, and the value it will adopt,
\* before the driver knows whether it can send.
simx_set_TE_character(r, chaster) ==
  /\ fcmd_finished' = "te"
  /\ user_data' = [user_data EXCEPT ![r] = chaster]
  /\ sim300_send(r, "CSCS", NoLink)
  /\ UNCHANGED <<user_pointer, cmd_data>>

simx_multiple_connection(r, mode) ==
  /\ fcmd_finished' = "mux"
  /\ user_data' = [user_data EXCEPT ![r] = mode % ByteMod]
  /\ sim300_send(r, "CIPMUX", NoLink)
  /\ UNCHANGED <<user_pointer, cmd_data>>

\* This one also takes context->reply before it tries.
simx_tcp_head_enable(r, is_enable) ==
  /\ fcmd_finished' = "head"
  /\ user_data' = [user_data EXCEPT ![r] = IF is_enable = 0 THEN 0 ELSE 1]
  /\ Accept(r, "CIPHEAD", NoLink) \/ Refuse(r, r)
  /\ UNCHANGED <<user_pointer, cmd_data>>

simx_send_sms(r) ==
  /\ cmd_data' = r
  /\ sim300_send(r, "CMGS", NoLink)
  /\ UNCHANGED <<fcmd_finished, user_data, user_pointer>>

\* "+++" leaves the byte receiver as it is.
Bug_ReceiverKept(r) ==
  /\ time_ms < MaxTime
  /\ is_receive' = 0 /\ state' = "RN" /\ reply' = r /\ cmd' = "PPP"
  /\ status' = [status EXCEPT ![r] = "NULL"]
  /\ upcalls' = {Sent("PPP", NoLink)}
  /\ UNCHANGED <<time_ms, modes, receiver, fcmd_finished, fields>>

\* "+++" is sent whatever is in flight, and the time already spent is kept.
CommandMode(r) ==
  /\ time_ms < MaxTime
  /\ Launch(r, "PPP", NoLink, "RN", "NULL", time_ms)
  /\ UNCHANGED <<fcmd_finished, fields>>

simx_switch_mode(r, mode) ==
  \/ mode = "SIM_DATA_MODE" /\ Plain(r, "ATO")
  \/ mode = "SIM_COMMAND_MODE" /\ CommandMode(r)

-----------------------------------------------------------------------------
(* The application calls what it is allowed to.                            *)

MayCall(r, c) ==
  /\ c \in Calls
  /\ is_receive = 1 \/ c \in BusyCalls
  /\ is_receive = 0 /\ r = reply => ReuseReply
  /\ fsimx_receive = "tcp" => MidPayload

QueryCall(r) ==
  \/ MayCall(r, "AT_AT")   /\ simx_test(r)
  \/ MayCall(r, "CPINR")   /\ simx_pin_is_required(r)
  \/ MayCall(r, "CREG")    /\ simx_network_registration(r)
  \/ MayCall(r, "CSMINS")  /\ simx_sim_inserted_status(r)
  \/ MayCall(r, "CSQ")     /\ simx_signal_quality_report(r)
  \/ MayCall(r, "CSCS")    /\ \E v \in UserData : simx_set_TE_character(r, v)

DialCall(r) ==
  \/ MayCall(r, "ATD")     /\ simx_call_to_dial_number(r)
  \/ MayCall(r, "ATO")     /\ simx_switch_mode(r, "SIM_DATA_MODE")
  \/ MayCall(r, "PPP")     /\ simx_switch_mode(r, "SIM_COMMAND_MODE")

GprsCall(r) ==
  \/ MayCall(r, "CGATT")   /\ simx_is_attach_to_GPRS(r)
  \/ MayCall(r, "CIPSHUT") /\ simx_deactivate_gprs_pdp(r)
  \/ MayCall(r, "CSTT")    /\ simx_set_gprs_config(r)
  \/ MayCall(r, "CIICR")   /\ simx_bring_up_wireless_connection(r)
  \/ MayCall(r, "CIFSR")   /\ simx_get_local_ip(r)
  \/ MayCall(r, "CGDCONT") /\ simx_define_pdp_context(r)
  \/ MayCall(r, "CIPCSGP") /\ simx_set_connection_mode(r)

TcpCall(r) ==
  \/ MayCall(r, "CIPSTATUS") /\ \E v \in UserData : simx_current_connection_status(r, v)
  \/ MayCall(r, "CIPMUX")    /\ \E v \in UserData : simx_multiple_connection(r, v)
  \/ MayCall(r, "CIPSTART")  /\ \E n \in {0, 1} : simx_tcp_connect(r, n)
  \/ MayCall(r, "CIPSEND")   /\ \E v \in UserData, n \in {0, 1} : simx_tcp_send_data(r, v, n)
  \/ MayCall(r, "CIPCLOSE")  /\ \E n \in {0, 1} : simx_tcp_close(r, n)
  \/ MayCall(r, "CIPHEAD")   /\ \E v \in UserData : simx_tcp_head_enable(r, v)

SmsCall(r) ==
  \/ MayCall(r, "CMGF")    /\ simx_sms_mode(r)
  \/ MayCall(r, "CMGS")    /\ simx_send_sms(r)
  \/ MayCall(r, "CMGR")    /\ simx_read_sms(r)

AppCall(r) == QueryCall(r) \/ DialCall(r) \/ GprsCall(r) \/ TcpCall(r) \/ SmsCall(r)

ReceiveLine == \E f \in Frames : simx_receive_msg(f)

Next ==
  \/ \E r \in Replies : AppCall(r)
  \/ ReceiveLine
  \/ simx_receive_tcp
  \/ simx_tick_1ms
  \/ simx_wait_reply

Spec == Init /\ [][Next]_vars

\* The timer interrupt keeps coming.
TickSpec == Spec /\ WF_vars(simx_tick_1ms)

\* The modem sends every byte of a payload it has announced.
PayloadSpec == Spec /\ WF_vars(simx_receive_tcp)

-----------------------------------------------------------------------------
(* Properties.                                                             *)

InFlight == is_receive = 0

TypeOK ==
  /\ is_receive \in {0, 1}
  /\ state \in States
  /\ reply \in Replies \cup {NoReply}
  /\ cmd \in Cmds \cup {NO_AT}
  /\ fcmd_finished \in {"none", "mux", "head", "te"}
  /\ cmd_data \in Replies \cup {NoReply}
  /\ time_ms \in Nat
  /\ mux \in 0..(ByteMod - 1) /\ ciphead \in 0..(ByteMod - 1) /\ te_chaster \in Nat
  /\ fsimx_receive \in {"msg", "tcp"}
  /\ sim_cnt \in 0..(ByteMod - 1)
  /\ receive_len \in Nat
  /\ receive_ncon \in Link
  /\ status \in [Replies -> Statuses]
  /\ user_data \in [Replies -> Nat]
  /\ user_pointer \in [Replies -> Cmds \cup {NO_AT}]
  /\ upcalls \subseteq Upcall

\* Whatever the modem sends and whatever the application calls meanwhile, a
\* command in flight has a reply to answer to (the handlers dereference
\* context->reply unchecked), a row in the command table (indexed unchecked by
\* simx_receive_msg) and a state its handler has a case for: no line is dropped
\* because a switch does not know the state.
InFlightIsServed ==
  InFlight => /\ reply \in Replies
              /\ cmd \in Cmds
              /\ state \in StatesOf(cmd)

\* An application that polls reply->status sees no verdict while the command is
\* still in flight.  Two exceptions are the code's: CIPSTATUS reports OK before
\* its table, and a refused call that passes the same reply writes BUSY there.
NoEarlyVerdict ==
  InFlight => status[reply] \in IF cmd = "CIPSTATUS" /\ state = "MSG"
                                THEN {"OK", "BUSY"} ELSE {"NULL", "BUSY"}

\* A command ends only with a verdict of its own kind in the reply it answers
\* to: no completion path forgets to write the status.  (CIPSTATUS whose reply
\* was passed to a refused call may end with that call's BUSY.)
VerdictOnCompletion ==
  [][InFlight /\ is_receive' = 1 =>
       status'[reply] \in VerdictsOf(cmd) \cup
         IF cmd = "CIPSTATUS" THEN {"BUSY"} ELSE {}]_vars

\* A reply object is written only while its owner waits for something: by the
\* command in flight, by a refusal, or by the call that passes it.  Lines that
\* come late, after the verdict or the timeout, leave every reply alone; replies
\* are locals of the caller and may be gone by then.
RepliesWrittenOnlyWhenAsked ==
  [][\A r \in Replies : status'[r] # status[r] =>
       \/ InFlight /\ (r = reply \/ status'[r] = "BUSY")
       \/ r = reply' /\ \E u \in upcalls' : u.fn = "send"]_vars

\* While a command is in flight nothing takes it over: a refused call and the
\* modem's lines leave context->reply and context->cmd as they are, so that the
\* verdict reaches the first caller.
RefusalHarmless ==
  [][InFlight /\ is_receive' = 0 => UNCHANGED <<reply, cmd>>]_vars

\* No command other than "+++" outlives the time limit.
TimeLimit == InFlight /\ cmd # "PPP" => time_ms <= Timeout

\* A notification callback returns to an idle driver: the command that was in
\* flight, or that the callback itself started, has been finished.
NotificationLeavesIdle ==
  (\E u \in upcalls : u.fn \in {"sms_received", "message"}) => ~InFlight

\* No command waits for an answer while the bytes that would carry it are being
\* taken for a TCP payload.
PayloadOnlyWhenIdle == fsimx_receive = "tcp" => ~InFlight

\* The byte counter never passes the length it is compared with for equality,
\* when that length fits the counter: the receiver cannot miss the end.
CounterBelowLength ==
  fsimx_receive = "tcp" /\ receive_len \in 1..(ByteMod - 1) => sim_cnt < receive_len

\* A payload the modem announced is delivered whole: the receiver goes back to
\* lines only with the callback that hands the payload over.
PayloadDelivered ==
  [][fsimx_receive = "tcp" /\ fsimx_receive' = "msg" =>
       upcalls' = {TcpData(receive_ncon, receive_len)}]_vars

\* A payload whose bytes all arrive comes to an end.
PayloadEnds == fsimx_receive = "tcp" ~> fsimx_receive = "msg"

\* The answer, or the payload sent, goes through a pointer of the right type:
\* user_pointer was set by the call of the very command in flight.
DestinationBelongs ==
  InFlight /\ cmd \in PointerCmds => user_pointer[reply] = cmd

\* When CIPMUX or CIPHEAD is answered OK the driver adopts the mode it asked for.
ModesFollowAnswers ==
  [][InFlight /\ is_receive' = 1 /\ status'[reply] = "OK" =>
       /\ cmd = "CIPMUX" => mux' = user_data[reply]
       /\ cmd = "CIPHEAD" => ciphead' = user_data[reply]]_vars

\* The driver changes its idea of a mode only when the command that sets the
\* mode finishes, and CIPMUX and CIPHEAD only on OK: no hook left behind by
\* another command runs on an unrelated answer.
ModesChangeOnlyByAnswers ==
  [][/\ mux' # mux => cmd = "CIPMUX" /\ status'[reply] = "OK"
     /\ ciphead' # ciphead => cmd = "CIPHEAD" /\ status'[reply] = "OK"
     /\ te_chaster' # te_chaster => cmd = "CSCS"]_vars

\* With the timer running, every command in flight ends, whatever the modem
\* does or fails to do.
CommandConcludes == InFlight ~> ~InFlight

\* With the timer running, every reply that has a command in flight gets a
\* verdict of some kind.
EveryCallAnswered ==
  \A r \in Replies : (InFlight /\ reply = r) ~> status[r] # "NULL"
=============================================================================

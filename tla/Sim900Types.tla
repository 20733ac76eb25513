------------------------------ MODULE Sim900Types ------------------------------
(***************************************************************************)
(* The constant-level vocabulary of the sim900 driver: the AT commands and *)
(* which response handler serves each of them, the verdicts a command can  *)
(* end with, the lines ("frames") the modem sends and the callbacks the    *)
(* driver makes.  Texts that the driver only compares are represented by   *)
(* the string they are compared with, without the trailing CR LF.          *)
(***************************************************************************)
EXTENDS Integers

-----------------------------------------------------------------------------
(* Commands, by the handler the command table gives them.                  *)

NO_AT == "NO_AT"                  \* context->cmd before the first command

RframeCmds  == {"CPINR", "CREG", "CSMINS", "CGATT", "CSQ", "CMGR"}
DframeCmds  == {"CMGF", "AT_AT", "CIPSHUT", "CIPMUX", "CSTT", "CIICR", "CIPSTART",
                "CIPCLOSE", "CIPHEAD", "CSCS", "CGDCONT", "ATD", "ATO", "PPP", "CIPCSGP"}
WframeCmds  == {"CMGS"}
MframeCmds  == {"CIPSTATUS"}
IpframeCmds == {"CIFSR"}
SdframeCmds == {"CIPSEND"}

Cmds == RframeCmds \cup DframeCmds \cup WframeCmds
          \cup MframeCmds \cup IpframeCmds \cup SdframeCmds

\* Commands after which the modem prompts with "> ": the line assembler
\* dispatches that prompt without waiting for CR LF.
PromptCmds == WframeCmds \cup SdframeCmds

\* Commands whose answer, or whose payload, goes through reply->user_pointer.
PointerCmds == {"CSQ", "CIFSR", "CIPSTATUS", "CIPSEND", "CMGR"}

States == {"RN", "CMD", "MSG", "STATUS"}

\* The states each handler has a case for; its switch ignores any other.
StatesOf(c) ==
  {"RN"}
    \cup (IF c \in RframeCmds \cup WframeCmds THEN {"CMD"} ELSE {})
    \cup (IF c \notin DframeCmds THEN {"MSG"} ELSE {})
    \cup (IF c \notin IpframeCmds \cup SdframeCmds THEN {"STATUS"} ELSE {})

-----------------------------------------------------------------------------
(* Verdicts: the values of reply->status.                                  *)

\* Answers the table sim_status_spec recognises.
StatusTexts == {"OK", "ERROR", "SHUT OK", "SEND OK", "SEND FAIL", "CLOSE OK",
                "NO DIALTONE", "BUSY", "NO CARRIER", "NO ANSWER", "CONNECT"}

Statuses == StatusTexts \cup {"NULL", "ERRFRAME", "TIMEOUT"}

\* The verdicts a command of each handler can end with.  ERROR is always one
\* of them, because a notification aborts whatever is in flight.
VerdictsOf(c) ==
  {"ERROR", "ERRFRAME", "TIMEOUT"} \cup
    (IF c \in DframeCmds THEN StatusTexts
     ELSE IF c \in SdframeCmds THEN {"SEND OK", "SEND FAIL"} ELSE {"OK"})

-----------------------------------------------------------------------------
(* Frames.  "link" is the connection number of a line that carries one     *)
(* ("1, CONNECT OK"), the SMS index of +CMTI, or the client number of a    *)
(* CIPSTATUS table row; NoLink where the line has none or none can be      *)
(* parsed.  "of" is the command an INFO line ("+CREG: 0,1") echoes, "len"  *)
(* the payload length +RECEIVE and +IPD announce, or the number a result   *)
(* line reports.                                                           *)

NoLink == -1
Link   == 0..7

LinkTexts         == {"CONNECT OK", "CLOSED", "CLOSE OK", "ALREADY CONNECT", "CONNECT FAIL"}
NotificationTexts == {"+RECEIVE", "+CMTI", "+PDP: DEACT", "+CPIN: NOT READY"}
OtherTexts        == {"CRLF",     \* an empty line, two bytes
                      "PROMPT",   \* "> ", two bytes
                      "INFO", "STATE", "CLIENT", "IP",
                      "+IPD",     \* header of a payload when multi-IP is off
                      "CHAR",     \* one character and CR LF, three bytes
                      "TEXT"}     \* any line none of the others describes

FrameTexts == StatusTexts \cup LinkTexts \cup NotificationTexts \cup OtherTexts

Frame == [text : FrameTexts, link : Link \cup {NoLink},
          of : Cmds \cup {NO_AT}, len : Nat]

Line(t)          == [text |-> t, link |-> NoLink, of |-> NO_AT, len |-> 0]
LinkLine(t, n)   == [text |-> t, link |-> n, of |-> NO_AT, len |-> 0]
InfoLine(c)      == [text |-> "INFO", link |-> NoLink, of |-> c, len |-> 0]
Header(t, n, l)  == [text |-> t, link |-> n, of |-> NO_AT, len |-> l]

IsNotification(f) == f.text \in NotificationTexts

\* A number of the line as receive_len, a uint16_t, keeps it.
Uint16(n) == n % 65536

TwoBytes(f) == f.text \in {"CRLF", "PROMPT"}

\* memcmp(buffer + 1, cmdstr, len - 1): the echo is compared without the last
\* character of the command string, so AT+CSQ compares "CS" only and takes a
\* "+CSMINS" line for its own.
EchoMatches(c, f) ==
  /\ f.text = "INFO"
  /\ \/ f.of = c
     \/ c = "CSQ" /\ f.of = "CSMINS"

-----------------------------------------------------------------------------
(* Callbacks into the application.                                         *)

Upcall == [fn : {"send", "tcp_msg", "tcp_data", "sms_received", "message", "timeout"},
           arg : Cmds \cup LinkTexts \cup NotificationTexts \cup {"payload", "text", ""},
           n : Int, len : Nat]

Sent(what, n)       == [fn |-> "send", arg |-> what, n |-> n, len |-> 0]
SentPayload(length) == [fn |-> "send", arg |-> "payload", n |-> NoLink, len |-> length]
TcpMsg(event, n)    == [fn |-> "tcp_msg", arg |-> event, n |-> n, len |-> 0]
TcpData(n, length)  == [fn |-> "tcp_data", arg |-> "payload", n |-> n, len |-> length]
SmsReceived(index)  == [fn |-> "sms_received", arg |-> "", n |-> index, len |-> 0]
Message(ntf)        == [fn |-> "message", arg |-> ntf, n |-> NoLink, len |-> 0]
TimedOut            == [fn |-> "timeout", arg |-> "", n |-> NoLink, len |-> 0]

\* Lines that announce the fate of a connection, and what is announced.
LinkEvent(t) == IF t = "CLOSE OK" THEN "CLOSED" ELSE t
=============================================================================

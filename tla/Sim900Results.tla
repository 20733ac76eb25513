----------------------------- MODULE Sim900Results -----------------------------
(***************************************************************************)
(* Where the contents of the answers go: the f_msg column of the command   *)
(* table, and the address simx_rcv_ipframe reads.  What a line says is the *)
(* number in its "len": the status of a query, the address, the sender of  *)
(* an SMS, how many characters its text has, or the place of a CIPSTATUS   *)
(* state in StateTexts.  An information line without a link is one sscanf  *)
(* cannot read.                                                            *)
(***************************************************************************)
EXTENDS Sim900Driver, Sequences

CONSTANT MsgLength   \* sms->msg_length, the size of the caller's buffer

ASSUME MsgLengthAssumption == MsgLength \in Nat

VARIABLES
  result,   \* per query, the field its parser fills, which a getter returns,
            \* or the object behind user_pointer; Unknown if there is none
  client,   \* the states in the caller's array of CIPSTATUS rows
  sms_text  \* how many characters of sms->msg precede the terminator

results == <<result, client, sms_text>>

Queries == {"CPINR", "CREG", "CSMINS", "CGATT", "CSQ", "CIFSR", "CMGR", "CIPSTATUS"}

Unknown == -1

\* The numbers the context has a meaning for.
Known == [CPINR |-> 0..6, CREG |-> 0..5, CSMINS |-> 0..1, CGATT |-> 0..1]

\* The texts of a STATE line, which says its place here, counted from 0.
StateTexts == <<"IP INITIAL", "IP START", "IP CONFIG", "IP GPRSACT", "IP STATUS",
  "TCP CONNECTING", "UDP CONNECTING", "SERVER LISTENING", "CONNECT OK",
  "TCP CLOSING", "UDP CLOSING", "TCP CLOSED", "UDP CLOSED", "PDP DEACT", "IP PROCESSING">>

Report(c, v)  == [InfoLine(c) EXCEPT !.link = 0, !.len = v]
Saying(t, v)  == [Line(t) EXCEPT !.len = v]
Row(n, v)     == [LinkLine("CLIENT", n) EXCEPT !.len = v]

\* The context starts with zeroes, but for the SIM's status.
FirstResult ==
  [q \in Queries |-> IF q \in {"CREG", "CSMINS", "CGATT", "CIPSTATUS"} THEN 0 ELSE Unknown]

InitResults ==
  /\ result = FirstResult
  /\ client = [n \in Link |-> Unknown]
  /\ sms_text = 0

-----------------------------------------------------------------------------
(* The parsers.                                                            *)

Reports(f) == f.text = "INFO" /\ f.of = cmd /\ f.link # NoLink

Store(v) == result' = [result EXCEPT ![cmd] = v]

\* A number without a meaning leaves the field as it was.
Bug_UnknownIgnored(f) ==
  /\ cmd \in DOMAIN Known
  /\ Store(IF Reports(f) /\ f.len \in Known[cmd] THEN f.len ELSE result[cmd])
  /\ UNCHANGED <<client, sms_text>>

\* CREG, CSMINS and CGATT look at a variable sscanf has not set when it cannot
\* read the line: any number may be found there.  CPIN compares texts.
Number(f) ==
  /\ cmd \in DOMAIN Known
  /\ \/ Reports(f) /\ Store(IF f.len \in Known[cmd] THEN f.len ELSE Unknown)
     \/ ~Reports(f) /\ cmd = "CPINR" /\ Store(Unknown)
     \/ ~Reports(f) /\ cmd # "CPINR" /\ \E v \in Known[cmd] \cup {Unknown} : Store(v)
  /\ UNCHANGED <<client, sms_text>>

\* The level is stored in a byte; a line without two numbers is passed over.
_simx_signal_quality_report_resp(f) ==
  /\ cmd = "CSQ"
  /\ Store(IF Reports(f) THEN f.len % ByteMod ELSE result[cmd])
  /\ UNCHANGED <<client, sms_text>>

Address(f) ==
  /\ cmd = "CIFSR"
  /\ Store(IF f.text = "IP" THEN f.len ELSE result[cmd])
  /\ UNCHANGED <<client, sms_text>>

\* The line's CR LF is counted as text.
Bug_LineEndKept(f) ==
  /\ cmd = "CMGR"
  /\ IF f.text = "INFO" /\ f.of = "CMGR"
     THEN Store(IF Reports(f) THEN f.len ELSE result[cmd]) /\ UNCHANGED sms_text
     ELSE sms_text' = f.len + 2 /\ UNCHANGED result
  /\ UNCHANGED client

\* The header line gives the sender; any other line is the text, cut to
\* msg_length when the line with its CR LF is not shorter.
_simx_sms_read_resp(f) ==
  /\ cmd = "CMGR"
  /\ IF f.text = "INFO" /\ f.of = "CMGR"
     THEN Store(IF Reports(f) THEN f.len ELSE result[cmd]) /\ UNCHANGED sms_text
     ELSE /\ sms_text' = IF MsgLength > f.len + 2 THEN f.len ELSE MsgLength
          /\ UNCHANGED result
  /\ UNCHANGED client

\* The place of the text in the table is taken for the state.
Bug_PlaceForState(k) == IF k \in 0..13 THEN k ELSE Unknown

_simx_mux0_cipstate(k) ==
  LET cip_state == <<0, 1, 2, 3, 4, 5, 5, 5, 6, 7, 7, 8, 8, 9>>
  IN  IF k \in 0..13 THEN cip_state[k + 1] ELSE Unknown

_simx_mux1_cipstate(k) ==
  IF k \in 0..4 THEN k
  ELSE IF k = 14 THEN 5 ELSE IF k = 13 THEN 9 ELSE Unknown

\* One row too many is stored.
Bug_RowBeyondArray(n) == user_data[reply] >= n

\* Is there a place for the row of client n in the caller's array?  The code
\* takes the digit's distance from '0'; a modem's client has a number from 0 on.
RowFits(n) == user_data[reply] > n

\* CCP_INITIAL to CCP_CLOSED; a row with another text keeps the state it had.
ClientStates == 1..6

_simx_connection_status(f) ==
  /\ cmd = "CIPSTATUS"
  /\ IF f.text = "STATE"
     THEN Store(IF mux = 0 THEN _simx_mux0_cipstate(f.len) ELSE _simx_mux1_cipstate(f.len))
     ELSE UNCHANGED result
  /\ client' = IF f.text = "CLIENT" /\ RowFits(f.link) /\ f.len \in ClientStates
               THEN [client EXCEPT ![f.link] = f.len] ELSE client
  /\ UNCHANGED sms_text

\* Does the handler give line f to the parser of the command in flight?
Parsed(f) ==
  /\ is_receive = 0 /\ ~IsNotification(f)
  /\ \/ cmd \in RframeCmds /\ state = "CMD" /\ EchoMatches(cmd, f)
     \/ cmd \in RframeCmds /\ state = "MSG" /\ ~TwoBytes(f)
     \/ cmd \in MframeCmds \cup IpframeCmds /\ state = "MSG"

Parse(f) ==
  \/ ~Parsed(f) /\ UNCHANGED results
  \/ /\ Parsed(f)
     /\ \/ Number(f)
        \/ _simx_signal_quality_report_resp(f)
        \/ Address(f)
        \/ _simx_sms_read_resp(f)
        \/ _simx_connection_status(f)
=============================================================================

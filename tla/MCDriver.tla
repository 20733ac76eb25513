------------------------------- MODULE MCDriver -------------------------------
(* Values of the driver's constants for model checking. *)
EXTENDS Sim900Driver

\* The commands that set a mode, and some that do not.
ModeCalls     == {"CIPMUX", "CIPHEAD", "CSCS", "AT_AT", "CIPSTATUS"}
HooklessCalls == {"AT_AT", "CIPSTATUS"}

\* The rest of the commands neither set a mode nor start a payload: they are
\* followed from a driver that has just started, until the next command.
OthersFirst ==
  /\ \A r \in Replies : user_pointer[r] \in ModeCalls \cup {NO_AT, cmd}
  /\ cmd_data \in Replies => cmd = "CMGS"
  /\ cmd \notin ModeCalls \cup {NO_AT} =>
       /\ fsimx_receive = "msg" /\ mux = 0 /\ ciphead = 0 /\ te_chaster = 0
       /\ \A r \in Replies : user_data[r] = 0 /\ user_pointer[r] \in {NO_AT, cmd}
       /\ \A r \in Replies : status[r] # "NULL" => r = reply

\* Payload headers of every length the scaled byte counter can reach, and 0.
PayloadHeaders ==
  {Header("+RECEIVE", n, l) : n \in {0, 1}, l \in 0..(ByteMod - 1)}
    \cup {Header("+IPD", NoLink, l) : l \in 0..(ByteMod - 1)}

\* Lines of both multi-IP modes, prefixed, unprefixed and too short to tell, and
\* the headers each mode knows.
ModeFrames ==
  {Line(t) : t \in {"CRLF", "OK", "ERROR", "CLOSE OK", "STATE", "+PDP: DEACT"}}
    \cup {LinkLine(t, 1) : t \in {"CLOSE OK", "CONNECT FAIL", "CHAR"}}
    \cup PayloadHeaders
=============================================================================

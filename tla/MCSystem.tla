------------------------------- MODULE MCSystem -------------------------------
(* The worker's scripts and the modem's bounds for model checking.            *)
EXTENDS Sim900System

Step(c, wanted) == [cmd |-> c, want |-> wanted]

\* The worker's functions in worker.cpp, without the steps another one with the
\* same handler stands for, and a TCP session in the multi-IP mode it asks for.
WorkerScripts ==
  { <<Step("CREG", "any")>>,
    <<Step("CMGS", "any")>>,
    <<Step("CIPSTATUS", "OK"), Step("CIFSR", "OK")>>,
    <<Step("CIPMUX", "any"), Step("CIPSEND", "SEND OK"), Step("CIPCLOSE", "CLOSE OK")>> }

WorkerCalls == UNION {{s[i].cmd : i \in DOMAIN s} : s \in WorkerScripts}

\* Every command, and CIPSTATUS in both multi-IP modes.
EveryScript ==
  {<<Step(c, "any")>> : c \in Cmds} \cup {<<Step("CIPMUX", "OK"), Step("CIPSTATUS", "any")>>}

\* Every number the tables know, and some that none of them does; SMS shorter
\* and longer than the buffer.
EveryNumber == 0..16

\* Commands store in fields of their own, so one command at a time is followed,
\* with AT+CIPMUX before and behind it; and the properties are about calls made
\* on a quiet line.
OneCommand ==
  /\ quiet
  /\ \E c \in Cmds :
       /\ cmd \in {NO_AT, "CIPMUX", c}
       /\ \A r \in Replies : user_pointer[r] \in {NO_AT, c}
       /\ \A q \in Queries \ {c} : result[q] = FirstResult[q]
       /\ c # "CMGR" => sms_text = 0
       /\ c # "CIPSTATUS" => \A n \in Link : client[n] = Unknown
       /\ c # "CIPHEAD" => ciphead = 0
       /\ c # "CSCS" => te_chaster = 0
=============================================================================

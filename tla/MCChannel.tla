------------------------------- MODULE MCChannel -------------------------------
(* Values of the constants for a disciplined application: what it calls while *)
(* a command is in flight does not take the command's reply.                  *)
EXTENDS Sim900Channel

\* One command of each handler, and "+++", which the waiting loop may find to be
\* over its time.
ChannelCalls == {"CPINR", "CMGS", "CIPMUX", "CIPSTATUS", "CIFSR", "CIPSEND", "PPP"}

\* A refused call may still write its own reply, its destination or a hook.
MeanwhileCalls == {"CPINR", "CIPMUX", "CIFSR", "CIPSEND"}

ChannelFrames ==
  {Line(t) : t \in {"CRLF", "PROMPT", "OK", "ERROR", "SEND OK", "STATE", "IP",
                    "+PDP: DEACT"}}
    \cup {InfoLine("CPINR"), InfoLine("CMGS"), LinkLine("CLIENT", 7)}
    \cup {Header("+RECEIVE", 1, 2)}
=============================================================================

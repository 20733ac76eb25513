-------------------------------- MODULE MCClock --------------------------------
(* Values of the constants for an application without discipline, with the    *)
(* history of time.                                                           *)
EXTENDS Sim900Clock

\* Two commands with an answer of several lines, one with a prompt, and those
\* that take liberties when called too early: the ones with a finishing hook,
\* the one that takes context->reply, and "+++".
LooseCalls == {"CPINR", "CMGS", "CIPSTATUS", "CIPMUX", "CIPHEAD", "PPP"}

LooseFrames ==
  {Line(t) : t \in {"CRLF", "PROMPT", "OK", "CLOSE OK", "STATE"}}
    \cup {LinkLine(t, 1) : t \in {"CLOSE OK", "+CMTI"}}
    \cup {InfoLine("CPINR"), InfoLine("CMGS"), LinkLine("CLIENT", 7)}
    \cup {Header("+RECEIVE", 1, 2), Line("+RECEIVE")}
=============================================================================

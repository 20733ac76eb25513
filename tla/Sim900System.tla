----------------------------- MODULE Sim900System ------------------------------
(***************************************************************************)
(* The driver between a worker and a modem.  The worker runs scripts, as   *)
(* the desktop example does: one call at a time, each waited for, the rest *)
(* given up when a verdict is not the wanted one.  The modem executes the  *)
(* commands it gets in order, one at a time, in the answer formats of      *)
(* tst_autotestsim900.h, and announces events when it likes; the serial    *)
(* line keeps the order.  Every line remembers whose it is: the answer to  *)
(* the last command, to an older one, or nobody's.                         *)
(***************************************************************************)
EXTENDS Sim900Results

CONSTANTS
  Scripts,   \* sequences of [cmd, want]; want = "any" if the verdict is ignored
  Events,    \* texts of the lines the modem sends unasked
  Numbers,   \* numbers its answers may carry
  Backlog    \* bound on the commands the modem has not answered

ASSUME BacklogAssumption == Backlog \in Nat \ {0}
ASSUME NumbersAssumption == Numbers \subseteq Nat

\* What the modem sends unasked is none of the lines only an answer consists of.
ASSUME EventsAssumption ==
  Events \subseteq FrameTexts \
    {"OK", "SHUT OK", "SEND OK", "CLOSE OK", "CONNECT", "CRLF", "PROMPT", "INFO", "STATE",
     "CLIENT", "IP", "CHAR"}

\* Only the worker sends commands; its callbacks start none.
ASSUME CallbackAssumption == NestedCalls = {}

VARIABLES
  todo,       \* the worker's calls, the one being waited for included
  waiting,    \* has the first of them been made?
  pending,    \* commands on their way to the modem
  prompting,  \* those whose text the modem is waiting for
  wire,       \* lines on their way to the driver
  modem_mux,  \* AT+CIPMUX as the modem has it
  quiet,      \* history: was nothing under way when the last call was made?
  cut,        \* history: since the line was last quiet, has a command ended
              \* without its answer, or been sent on a line that was not quiet?
  doubt,      \* history: may mux differ because of it?
  said        \* history: the number in the answer to the last command

worker  == <<todo, waiting>>
modem   == <<pending, prompting, modem_mux>>
history == <<quiet, cut, doubt, said>>
allVars == <<vars, results, worker, modem, wire, history>>

LineQuiet == pending = <<>> /\ prompting = <<>> /\ wire = <<>>

SystemInit ==
  /\ Init /\ InitResults
  /\ todo = <<>> /\ waiting = FALSE
  /\ pending = <<>> /\ prompting = <<>> /\ wire = <<>> /\ modem_mux = 0
  /\ quiet = TRUE /\ cut = FALSE /\ doubt = FALSE /\ said = 0

-----------------------------------------------------------------------------
(* The worker.                                                             *)

StartScript ==
  /\ todo = <<>>
  /\ todo' \in Scripts
  /\ UNCHANGED <<vars, results, waiting, modem, wire, history>>

Aged(s) == [i \in DOMAIN s |-> [s[i] EXCEPT !.whose = IF @ = "own" THEN "old" ELSE @]]

\* The next call.  What it sends to a modem that waits for a text is taken for
\* that text.
Call(r) ==
  /\ todo # <<>> /\ ~waiting /\ Len(pending) < Backlog
  /\ AppCall(r) /\ cmd' = Head(todo).cmd
  /\ waiting' = TRUE
  /\ pending' = IF prompting # <<>> THEN Aged(pending)
                ELSE Append(Aged(pending), [cmd |-> cmd', arg |-> user_data'[r], whose |-> "own"])
  /\ prompting' = Aged(prompting) /\ wire' = Aged(wire)
  /\ quiet' = LineQuiet /\ cut' = (cut /\ ~LineQuiet)
  /\ said' = 0
  /\ UNCHANGED <<results, todo, modem_mux, doubt>>

\* simx_wait_reply returns; the script goes on or is given up.
Return ==
  /\ waiting /\ is_receive = 1
  /\ waiting' = FALSE
  /\ todo' = IF Head(todo).want \in {"any", status[reply]} THEN Tail(todo) ELSE <<>>
  /\ UNCHANGED <<vars, results, modem, wire, history>>

-----------------------------------------------------------------------------
(* The modem.                                                              *)

Stamp(lines, w) == [i \in DOMAIN lines |-> [f |-> lines[i], whose |-> w]]

Verdict(t) == <<Line("CRLF"), Line(t)>>

Linked(t) == IF modem_mux # 0 THEN LinkLine(t, 1) ELSE Line(t)

Table(v) ==
  <<Line("CRLF"), Line("OK"), Line("CRLF"), Saying("STATE", v), Line("CRLF")>>
    \o IF modem_mux # 0 THEN <<Row(0, v), Row(7, v)>> ELSE <<>>

\* The answer to a command the modem carries out, up to its prompt if it has one.
Granted(c, v) ==
  IF c = "CIPSTATUS" THEN Table(v)
  ELSE IF c = "CIFSR" THEN <<Line("CRLF"), Saying("IP", v)>>
  ELSE IF c = "CMGR" THEN <<Line("CRLF"), Report(c, v), Saying("TEXT", v), Line("CRLF"), Line("OK")>>
  ELSE IF c \in RframeCmds THEN <<Line("CRLF"), Report(c, v), Line("CRLF"), Line("OK")>>
  ELSE IF c \in PromptCmds THEN <<Line("CRLF"), Line("PROMPT")>>
  ELSE IF c = "CIPCLOSE" THEN <<Line("CRLF"), Linked("CLOSE OK")>>
  ELSE Verdict(IF c = "CIPSHUT" THEN "SHUT OK" ELSE IF c \in {"ATD", "ATO"} THEN "CONNECT" ELSE "OK")

\* The answer to a command it does not carry out: ATO may have no call to go back to.
Denied(c) == {Verdict(t) : t \in IF c = "ATO" THEN {"ERROR", "NO CARRIER"} ELSE {"ERROR"}}

\* The rest of the answer, once the text has been sent.
Finished(c) ==
  IF c = "CIPSEND" THEN {<<Line("CRLF"), Linked(t)>> : t \in {"SEND OK", "SEND FAIL"}}
  ELSE {<<Line("CRLF"), InfoLine(c), Line("CRLF"), Line("OK")>>, Verdict("ERROR")}

\* The line keeps the order, so nothing is lost by letting the modem write the
\* next answer when the last one has arrived.
Work ==
  /\ pending # <<>> /\ prompting = <<>>
  /\ \A i \in DOMAIN wire : wire[i].whose = "event"
  /\ LET p == Head(pending) IN
       /\ \/ /\ \E lines \in Denied(p.cmd) : wire' = wire \o Stamp(lines, p.whose)
             /\ UNCHANGED <<prompting, modem_mux, said>>
          \/ \E v \in IF p.cmd \in Queries THEN Numbers ELSE {0} :
               /\ p.cmd = "CIPMUX" => p.arg \in {0, 1}
               /\ wire' = wire \o Stamp(Granted(p.cmd, v), p.whose)
               /\ prompting' = IF p.cmd \in PromptCmds THEN <<p>> ELSE <<>>
               /\ modem_mux' = IF p.cmd = "CIPMUX" THEN p.arg ELSE modem_mux
               /\ said' = IF p.whose = "own" THEN v ELSE said
       /\ pending' = Tail(pending)
  /\ UNCHANGED <<vars, results, worker, quiet, cut, doubt>>

\* At most one event is under way at a time.
Announce ==
  /\ \A i \in DOMAIN wire : wire[i].whose # "event"
  /\ \E t \in Events :
       wire' = wire \o Stamp(<<Line("CRLF"),
                 IF t \in LinkTexts THEN Linked(t)
                 ELSE IF t = "+CMTI" THEN LinkLine(t, 1) ELSE Line(t)>>, "event")
  /\ UNCHANGED <<vars, results, worker, modem, history>>

-----------------------------------------------------------------------------
(* The driver gets a line, or the time runs out.                           *)

Concluded == is_receive = 0 /\ is_receive' = 1

\* A command has ended: with a line of its own answer, if byOwn.
Record(byOwn) ==
  /\ cut' = (cut \/ (Concluded /\ ~(byOwn /\ quiet)))
  /\ doubt' = IF Concluded /\ cmd = "CIPMUX"
              THEN ~byOwn \/ (doubt /\ status'[reply] # "OK") ELSE doubt
  /\ UNCHANGED <<quiet, said>>

\* "> " completes a line only while a command that prompts was the last one;
\* else it stays in the buffer and spoils the next line.
Spoilt == Head(wire).f.text = "PROMPT" /\ cmd \notin PromptCmds

\* A text the driver sends completes the command the modem prompted for.
Deliver ==
  /\ wire # <<>> /\ ~Spoilt
  /\ simx_receive_msg(Head(wire).f) /\ Parse(Head(wire).f)
  /\ Record(Head(wire).whose = "own")
  /\ \/ /\ prompting # <<>> /\ \E u \in upcalls' : u.fn = "send"
        /\ \E lines \in Finished(prompting[1].cmd) :
             wire' = Tail(wire) \o Stamp(lines, prompting[1].whose)
        /\ prompting' = <<>>
     \/ /\ prompting = <<>> \/ \A u \in upcalls' : u.fn # "send"
        /\ wire' = Tail(wire) /\ UNCHANGED prompting
  /\ UNCHANGED <<worker, pending, modem_mux>>

DeliverSpoilt ==
  /\ Len(wire) > 1 /\ Spoilt
  /\ simx_receive_msg(Line("TEXT")) /\ Parse(Line("TEXT"))
  /\ Record(FALSE)
  /\ wire' = Tail(Tail(wire))
  /\ UNCHANGED <<worker, modem>>

Timer ==
  /\ simx_tick_1ms
  /\ Record(FALSE)
  /\ UNCHANGED <<results, worker, modem, wire>>

SystemNext ==
  \/ StartScript \/ \E r \in Replies : Call(r)
  \/ Return
  \/ Work \/ Announce
  \/ Deliver \/ DeliverSpoilt
  \/ Timer

\* The modem answers what it gets and the line delivers it; the worker, the
\* events and the timer may do as they like.
SystemSpec ==
  SystemInit /\ [][SystemNext]_allVars /\ WF_allVars(Work) /\ WF_allVars(Deliver)

-----------------------------------------------------------------------------
(* Properties.                                                             *)

\* Every record of the composition has its type, and what the getters return is
\* a value sim900.h names.  The text of an SMS is not longer than the buffer; for
\* its terminator see SmsTextFits.
SystemTypeOK ==
  /\ TypeOK
  /\ result \in [Queries -> Nat \cup {Unknown}]
  /\ \A q \in DOMAIN Known : result[q] \in Known[q] \cup {Unknown}
  /\ result["CIPSTATUS"] \in 0..9 \cup {Unknown}
  /\ client \in [Link -> ClientStates \cup {Unknown}] /\ sms_text \in 0..MsgLength
  /\ todo = <<>> => ~waiting
  /\ Len(pending) <= Backlog /\ Len(prompting) <= 1
  /\ modem_mux \in {0, 1} /\ {quiet, cut, doubt} \subseteq BOOLEAN /\ said \in Numbers \cup {0}

Success == {"OK", "SHUT OK", "SEND OK", "CLOSE OK", "CONNECT"}

\* No command is reported done on the strength of another one's answer, as long
\* as every command since the line was last quiet has ended with its own: the
\* lines carry no name, only their order tells whose they are.
SuccessIsOwn ==
  [][Concluded /\ status'[reply] \in Success /\ ~cut => Head(wire).whose = "own"]_allVars

\* A command sent on a quiet line fails with its answer only if the modem
\* refused it: every handler takes the whole of the answer its modem gives, in
\* both multi-IP modes.
FailureIsOwn ==
  [][Concluded /\ quiet /\ ~cut' /\ ~doubt /\ status'[reply] \notin Success
       => Head(wire).f.text \in {"ERROR", "SEND FAIL", "NO CARRIER"}]_allVars

\* A command that ends with its answer leaves no line of it for the next one,
\* but for the empty line behind the single-IP CIPSTATUS.
NothingLeftOver ==
  ~InFlight /\ quiet /\ ~cut /\ ~doubt =>
    /\ \A i \in DOMAIN wire : wire[i].whose = "own" => cmd = "CIPSTATUS" /\ TwoBytes(wire[i].f)
    /\ \A i \in DOMAIN pending : pending[i].whose # "own"
    /\ prompting = <<>> \/ prompting[1].whose # "own"

\* The driver's multi-IP mode is the modem's, whatever else has been cut short,
\* as long as no AT+CIPMUX has.
MuxAgrees == ~InFlight /\ ~doubt => mux = modem_mux

\* The meaning sim900.h gives the numbers an answer may carry, by the driver's
\* multi-IP mode.
Documented(c, v) ==
  LET cip == [n \in 0..9 |->
                IF n < 5 THEN {n}
                ELSE IF n = 5 THEN IF mux = 0 THEN {5, 6, 7} ELSE {14}
                ELSE IF n = 9 THEN {13}
                ELSE IF mux # 0 THEN {}
                ELSE IF n = 6 THEN {8} ELSE IF n = 7 THEN {9, 10} ELSE {11, 12}]
  IN  IF c = "CIPSTATUS"
      THEN IF \E n \in 0..9 : v \in cip[n] THEN CHOOSE n \in 0..9 : v \in cip[n] ELSE Unknown
      ELSE IF c \in DOMAIN Known /\ v \notin Known[c] THEN Unknown ELSE v

\* A query sent on a quiet line and answered OK has stored what the modem said,
\* in the field its getter returns or behind its pointer: the text of an SMS if
\* the buffer has room for its line, and the rows of CIPSTATUS that the caller's
\* array has room for, whose end no row passes.
ResultsFollowAnswer ==
  [][/\ Concluded /\ quiet /\ ~cut' /\ ~doubt /\ status'[reply] = "OK" /\ cmd \in Queries =>
          /\ result'[cmd] = Documented(cmd, said)
          /\ cmd = "CMGR" /\ said + 2 < MsgLength => sms_text' = said
          /\ cmd = "CIPSTATUS" /\ mux # 0 /\ said \in ClientStates =>
               \A n \in {0, 7} : n < user_data[reply] => client'[n] = said
     /\ \A n \in Link : client'[n] # client[n] => n < user_data[reply]]_allVars

\* Test SIM_AT_CMGR: of the line "test message" the caller gets just the text, and
\* msg_length is the size of its buffer ("char buffer[200]", "sms.msg_length =
\* 200").  A text for which it has room, its terminator included, is stored whole
\* and without any of the line's end.
SmsTextFits ==
  [][Concluded /\ quiet /\ ~cut' /\ ~doubt /\ status'[reply] = "OK" /\ cmd = "CMGR"
       => (said < MsgLength => sms_text' = said)]_allVars

\* A command sent on a quiet line to a modem that answers ends, with no timer
\* and whatever event comes between: no handler waits for a line its modem does
\* not send.
AnsweredByModem == InFlight /\ quiet /\ ~doubt ~> ~InFlight

\* README.md: simx_callback_tcp_msg is "called when receive a connection
\* notification".
EventsAnnounced ==
  [][Len(wire') < Len(wire) /\ Head(wire).whose = "event" /\ Head(wire).f.text \in LinkTexts
       => \E u \in upcalls' : u.fn = "tcp_msg"]_allVars
=============================================================================

------------------------------ MODULE SimxReceive ------------------------------
(***************************************************************************)
(* How bytes become lines: simx_receive, with rx_buffer as it is, old      *)
(* contents included.  Sim900Driver takes the result for granted and       *)
(* starts from whole lines.  A byte is one of the characters the receiver  *)
(* looks for, or another; "I" stands for the "IPD," of "+IPD,".            *)
(***************************************************************************)
EXTENDS Integers, Sequences

CONSTANTS
  Bytes,    \* a set with "CR", "LF", ">", "+", "I", ":" and others
  ByteMod,  \* modulus of uint8_t, the type of sim_cnt
  Lengths   \* the lengths a header may announce, as receive_len's uint16_t has them

ASSUME ByteModAssumption == ByteMod \in Nat /\ ByteMod > 3
ASSUME LengthsAssumption == Lengths \subseteq Nat

VARIABLES
  rx_buffer,      \* the cells sim_cnt can reach
  sim_cnt,
  fsimx_receive,  \* "msg" or "tcp"
  receive_len,
  prompts,        \* is the last command one of those that prompt?
  heads,          \* mux = 0 and ciphead # 0
  is_receive,
  frame,          \* what the last byte completed, a line or a payload, or <<>>
  since,          \* history: the bytes since the last line or payload ended,
  long            \* unless there were more than the counter can count

vars == <<rx_buffer, sim_cnt, fsimx_receive, receive_len, prompts, heads, is_receive,
          frame, since, long>>

Cells == 0..(ByteMod - 1)

Cleared == [i \in Cells |-> "0"]

\* Before the first command cmd is NO_AT, and what stands before the command
\* table decides about prompts.
Init ==
  /\ rx_buffer = Cleared /\ sim_cnt = 0
  /\ fsimx_receive = "msg" /\ receive_len = 0
  /\ prompts \in BOOLEAN /\ heads \in BOOLEAN /\ is_receive = 1
  /\ frame = <<>> /\ since = <<>> /\ long = FALSE

\* What has come of a line stays counted.
Bug_CountKept ==
  /\ is_receive = 1 /\ is_receive' = 0
  /\ rx_buffer' = Cleared
  /\ fsimx_receive' = "msg"
  /\ prompts' \in BOOLEAN
  /\ frame' = <<>> /\ since' = <<>> /\ long' = FALSE
  /\ UNCHANGED <<sim_cnt, receive_len, heads>>

\* _simx_context_send_at_init, for a command that prompts or one that does not;
\* it may come in the midst of a line or of a payload.
Send ==
  /\ is_receive = 1
  /\ rx_buffer' = Cleared /\ sim_cnt' = 0
  /\ fsimx_receive' = "msg" /\ is_receive' = 0
  /\ prompts' \in BOOLEAN
  /\ frame' = <<>> /\ since' = <<>> /\ long' = FALSE
  /\ UNCHANGED <<receive_len, heads>>

\* simx_switch_mode(SIM_COMMAND_MODE): "+++" is sent whatever is in flight, and
\* leaves the buffer as it is.
CommandMode ==
  /\ sim_cnt' = 0
  /\ fsimx_receive' = "msg" /\ is_receive' = 0
  /\ prompts' = FALSE
  /\ frame' = <<>> /\ since' = <<>> /\ long' = FALSE
  /\ UNCHANGED <<rx_buffer, receive_len, heads>>

\* The tick or the waiting loop gives the command up between two bytes.
TimeOut ==
  /\ is_receive = 0 /\ is_receive' = 1
  /\ UNCHANGED <<rx_buffer, sim_cnt, fsimx_receive, receive_len, prompts, heads, frame, since, long>>

\* The callback of a notification, a link event or a payload sends a command
\* itself, or "+++"; buf is the buffer it finds.
NestedSend(buf) ==
  \/ is_receive = 1 /\ rx_buffer' = Cleared /\ prompts' \in BOOLEAN
  \/ rx_buffer' = buf /\ prompts' = FALSE

Payload == fsimx_receive' = "tcp" /\ receive_len' \in Lengths

First(buf, n) == [i \in 1..n |-> buf[i - 1]]

\* simx_receive_frame gets the first n bytes, with a terminator, and may end the
\* command, set a mode or, with multi-IP on, find that a payload follows.  Of a
\* command started in a notification's callback it makes an error at once.
Dispatch(buf, n) ==
  /\ frame' = First(buf, n)
  /\ sim_cnt' = 0 /\ heads' \in BOOLEAN
  /\ \/ /\ rx_buffer' = [buf EXCEPT ![n] = "0"]
        /\ is_receive' \in {is_receive, 1} /\ UNCHANGED prompts
        /\ UNCHANGED <<fsimx_receive, receive_len>> \/ (~heads /\ Payload)
     \/ /\ NestedSend([buf EXCEPT ![n] = "0"]) /\ is_receive' \in {0, 1}
        /\ UNCHANGED <<fsimx_receive, receive_len>>

Keep(buf, n) ==
  /\ rx_buffer' = buf /\ frame' = <<>> /\ sim_cnt' = n
  /\ UNCHANGED <<fsimx_receive, receive_len, is_receive, heads, prompts>>

\* The byte before the buffer's first is receive_ncon, the one before that a
\* part of receive_len: no line end.
At(buf, i) == IF i \in Cells THEN buf[i] ELSE "0"

EndsLine(buf, n) == At(buf, n - 2) = "CR" /\ At(buf, n - 1) = "LF"

\* '>' and any byte behind it, at the start of a line.
IsPrompt(buf, n) == prompts /\ n = 2 /\ buf[0] = ">"

\* The comparison is left to sscanf.
Bug_AnyColon(buf, n) == heads /\ is_receive = 1 /\ At(buf, n - 1) = ":"

IsIpd(buf, n) ==
  /\ heads /\ is_receive = 1 /\ At(buf, n - 1) = ":"
  /\ buf[0] = "+" /\ buf[1] = "I"

\* The counter is wider than the code's.
Bug_WideCounter == sim_cnt + 1

Count == (sim_cnt + 1) % ByteMod

\* The history goes on, or begins anew when something is complete.
Note(b) ==
  IF frame' # <<>> \/ fsimx_receive' # fsimx_receive THEN since' = <<>> /\ long' = FALSE
  ELSE IF long \/ Len(since) = ByteMod - 1 THEN since' = <<>> /\ long' = TRUE
  ELSE since' = Append(since, b) /\ long' = FALSE

simx_receive_msg(b) ==
  /\ fsimx_receive = "msg"
  /\ LET buf == [rx_buffer EXCEPT ![sim_cnt] = b]
         n   == Count
     IN  \/ (IsPrompt(buf, n) \/ EndsLine(buf, n)) /\ Dispatch(buf, n)
         \/ /\ ~IsPrompt(buf, n) /\ ~EndsLine(buf, n) /\ IsIpd(buf, n)
            /\ Payload /\ sim_cnt' = 0 /\ rx_buffer' = buf
            /\ frame' = <<>> /\ UNCHANGED <<is_receive, heads, prompts>>
         \/ ~IsPrompt(buf, n) /\ ~EndsLine(buf, n) /\ ~IsIpd(buf, n) /\ Keep(buf, n)
  /\ Note(b)

\* The payload has ended if one byte more would.
Bug_OneByteMore == sim_cnt = receive_len

IsComplete == Count = receive_len

\* The payload goes to its callback with a terminator.  A length that the
\* counter cannot reach is never complete.
simx_receive_tcp(b) ==
  /\ fsimx_receive = "tcp"
  /\ LET buf == [rx_buffer EXCEPT ![sim_cnt] = b]
         n   == Count
     IN  \/ ~IsComplete /\ Keep(buf, n)
         \/ /\ IsComplete /\ frame' = First(buf, receive_len)
            /\ fsimx_receive' = "msg" /\ receive_len' = 0 /\ sim_cnt' = 0
            /\ UNCHANGED heads
            /\ \/ rx_buffer' = [buf EXCEPT ![n] = "0"] /\ UNCHANGED <<is_receive, prompts>>
               \/ NestedSend([buf EXCEPT ![n] = "0"]) /\ is_receive' = 0
  /\ Note(b)

Next ==
  \/ Send \/ CommandMode \/ TimeOut
  \/ \E b \in Bytes : simx_receive_msg(b) \/ simx_receive_tcp(b)

Spec == Init /\ [][Next]_vars

-----------------------------------------------------------------------------
(* Properties.                                                             *)

\* Every variable keeps its range; the counter stays within the cells.
TypeOK ==
  /\ rx_buffer \in [Cells -> Bytes \cup {"0"}] /\ sim_cnt \in Cells
  /\ fsimx_receive \in {"msg", "tcp"} /\ receive_len \in Lengths \cup {0}
  /\ prompts \in BOOLEAN /\ heads \in BOOLEAN /\ is_receive \in {0, 1}
  /\ frame \in Seq(Bytes \cup {"0"})
  /\ since \in Seq(Bytes) /\ Len(since) < ByteMod /\ long \in BOOLEAN

\* Sends and "+++" in the midst of a line or of a payload or from within callbacks,
\* and what older lines left in the buffer, never get between the bytes of what is
\* being received.
BufferHoldsLine ==
  ~long => sim_cnt = Len(since) /\ \A i \in 1..Len(since) : rx_buffer[i - 1] = since[i]

Ends(line) == Len(line) > 1 /\ line[Len(line) - 1] = "CR" /\ line[Len(line)] = "LF"

Prompted(line) == prompts /\ Len(line) = 2 /\ line[1] = ">"

Announces(line) ==
  /\ heads /\ is_receive = 1
  /\ Len(line) > 2 /\ line[1] = "+" /\ line[2] = "I" /\ line[Len(line)] = ":"

\* The handlers get every line shorter than the counter's range, each once and
\* with exactly the bytes that came since the one before, as soon as its CR LF
\* or its prompt is complete; and a payload is expected exactly behind a line
\* that begins with +IPD.
WholeLines ==
  [][\A b \in Bytes : LET line == Append(since, b) IN
       ~long /\ Len(line) < ByteMod /\ simx_receive_msg(b)
       => /\ frame' = IF Ends(line) \/ Prompted(line) THEN line ELSE <<>>
          /\ ~Ends(line) /\ ~Prompted(line) =>
               (fsimx_receive' = "tcp" <=> Announces(line))]_vars

\* A payload shorter than the counter's range goes to its callback exactly when
\* as many bytes as its header announced have come, and consists of these: it
\* neither swallows a byte of the line behind it nor leaves it one of its own.
WholePayloads ==
  [][\A b \in Bytes : LET payload == Append(since, b) IN
       ~long /\ Len(payload) < ByteMod /\ simx_receive_tcp(b)
       => /\ fsimx_receive' = "msg" <=> Len(payload) = receive_len
          /\ frame' = IF Len(payload) = receive_len THEN payload ELSE <<>>]_vars
=============================================================================

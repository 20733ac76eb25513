--------------------------- MODULE SimxReceiveProofs ---------------------------
(***************************************************************************)
(* The theorems about the assembly of lines, for every set of bytes and    *)
(* every range of the counter.                                             *)
(***************************************************************************)
EXTENDS SimxReceive, TLAPS

IInv == TypeOK /\ BufferHoldsLine

\* A line ends, a prompt is one and a payload is announced by what the buffer
\* holds behind its second byte.
LEMMA EndIsBehindTwo ==
  ASSUME TypeOK, NEW buf \in [Cells -> Bytes \cup {"0"}], NEW n \in Cells
  PROVE  /\ EndsLine(buf, n) => n >= 2
         /\ IsPrompt(buf, n) => n >= 2
         /\ IsIpd(buf, n) => n > 2
  BY ByteModAssumption DEF TypeOK, EndsLine, IsPrompt, IsIpd, At, Cells

LEMMA CountInCells ==
  ASSUME TypeOK
  PROVE  /\ Count \in Cells
         /\ sim_cnt + 1 < ByteMod => Count = sim_cnt + 1
  BY ByteModAssumption DEF TypeOK, Count, Cells

LEMMA ClearedIsTyped == Cleared \in [Cells -> Bytes \cup {"0"}]
  BY DEF Cleared

\* The buffer's first n bytes, as a line.
LEMMA FirstIsTyped ==
  ASSUME NEW buf \in [Cells -> Bytes \cup {"0"}], NEW n \in Cells
  PROVE  First(buf, n) \in Seq(Bytes \cup {"0"})
<1>1. n \in Nat /\ \A i \in 1..n : buf[i - 1] \in Bytes \cup {"0"}
  BY ByteModAssumption DEF Cells
<1> QED BY <1>1 DEF First

LEMMA InitInv == Init => IInv
<1> SUFFICES ASSUME Init PROVE IInv
  OBVIOUS
<1>1. TypeOK
  <2>1. rx_buffer \in [Cells -> Bytes \cup {"0"}] /\ 0 \in Cells
    BY ByteModAssumption, ClearedIsTyped DEF Init, Cells
  <2>2. <<>> \in Seq(Bytes) /\ <<>> \in Seq(Bytes \cup {"0"}) /\ Len(<<>>) < ByteMod
    BY ByteModAssumption
  <2> QED BY <2>1, <2>2 DEF Init, TypeOK
<1> QED BY <1>1 DEF Init, IInv, BufferHoldsLine

LEMMA SendInv ==
  ASSUME IInv, Send
  PROVE  IInv'
<1>1. /\ rx_buffer' \in [Cells -> Bytes \cup {"0"}] /\ sim_cnt' \in Cells
      /\ fsimx_receive' = "msg" /\ receive_len' \in Lengths \cup {0} /\ is_receive' \in {0, 1}
  BY ByteModAssumption, ClearedIsTyped DEF Send, IInv, TypeOK, Cells
<1>2. frame' = <<>> /\ since' = <<>> /\ Len(<<>>) < ByteMod /\ <<>> \in Seq(Bytes)
      /\ <<>> \in Seq(Bytes \cup {"0"})
  BY ByteModAssumption DEF Send
<1>3. prompts' \in BOOLEAN /\ heads' \in BOOLEAN /\ long' \in BOOLEAN
  BY DEF Send, IInv, TypeOK
<1> QED BY <1>1, <1>2, <1>3 DEF Send, IInv, TypeOK, BufferHoldsLine

\* "+++" does to the line what a command does.
LEMMA ModeInv ==
  ASSUME IInv, CommandMode
  PROVE  IInv'
<1>1. /\ rx_buffer' \in [Cells -> Bytes \cup {"0"}] /\ sim_cnt' \in Cells
      /\ fsimx_receive' = "msg" /\ receive_len' \in Lengths \cup {0} /\ is_receive' \in {0, 1}
  BY ByteModAssumption DEF CommandMode, IInv, TypeOK, Cells
<1>2. frame' = <<>> /\ since' = <<>> /\ Len(<<>>) < ByteMod /\ <<>> \in Seq(Bytes)
      /\ <<>> \in Seq(Bytes \cup {"0"})
  BY ByteModAssumption DEF CommandMode
<1>3. prompts' \in BOOLEAN /\ heads' \in BOOLEAN /\ long' \in BOOLEAN
  BY DEF CommandMode, IInv, TypeOK
<1> QED BY <1>1, <1>2, <1>3 DEF CommandMode, IInv, TypeOK, BufferHoldsLine

\* The line goes on behind a time-out.
LEMMA TimeOutInv ==
  ASSUME IInv, TimeOut
  PROVE  IInv'
  BY DEF TimeOut, IInv, TypeOK, BufferHoldsLine

\* What a byte does, by cases: a line is handled, a payload begins or is
\* delivered, or the byte is kept.
Afresh == sim_cnt' = 0 /\ since' = <<>> /\ long' = FALSE

Handled(buf, n) ==
  /\ n >= 2 /\ frame' = First(buf, n) /\ frame' # <<>> /\ Afresh
  /\ \/ UNCHANGED <<fsimx_receive, receive_len>>
     \/ fsimx_receive' = "tcp" /\ receive_len' \in Lengths

Begun == fsimx_receive' = "tcp" /\ receive_len' \in Lengths /\ frame' = <<>> /\ Afresh

Delivered(buf, n) ==
  fsimx_receive' = "msg" /\ receive_len' = 0 /\ frame' = First(buf, n) /\ Afresh

Kept(buf, b, n) ==
  /\ rx_buffer' = buf /\ sim_cnt' = n /\ frame' = <<>>
  /\ UNCHANGED <<fsimx_receive, receive_len>>
  /\ \/ long' = TRUE /\ since' = <<>>
     \/ /\ long' = FALSE /\ since' = Append(since, b)
        /\ ~long /\ Len(since) # ByteMod - 1

\* The variables no case says more about.
RestTyped ==
  /\ rx_buffer' \in [Cells -> Bytes \cup {"0"}]
  /\ is_receive' \in {0, 1} /\ heads' \in BOOLEAN /\ prompts' \in BOOLEAN

LEMMA KeepKeeps ==
  ASSUME TypeOK, NEW b \in Bytes, NEW n, NEW buf \in [Cells -> Bytes \cup {"0"}],
         Keep(buf, n), Note(b)
  PROVE  Kept(buf, b, n) /\ RestTyped
<1>1. /\ frame' = <<>> /\ UNCHANGED <<fsimx_receive, receive_len>>
      /\ sim_cnt' = n /\ rx_buffer' = buf
  BY DEF Keep
<1>2. \/ long' = TRUE /\ since' = <<>>
      \/ /\ long' = FALSE /\ since' = Append(since, b)
         /\ ~long /\ Len(since) # ByteMod - 1
  BY <1>1 DEF Note
<1>3. RestTyped
  BY <1>1 DEF Keep, RestTyped, TypeOK
<1> QED BY <1>1, <1>2, <1>3 DEF Kept

LEMMA DispatchHandles ==
  ASSUME TypeOK, NEW b \in Bytes, NEW n \in Cells, n >= 2,
         NEW buf \in [Cells -> Bytes \cup {"0"}], Dispatch(buf, n), Note(b)
  PROVE  Handled(buf, n) /\ RestTyped
<1>1. frame' = First(buf, n) /\ sim_cnt' = 0
  BY DEF Dispatch
<1>2. frame' # <<>>
  <2>1. 1 \in DOMAIN First(buf, n)
    BY ByteModAssumption DEF Cells, First
  <2> QED BY <1>1, <2>1
<1>3. since' = <<>> /\ long' = FALSE
  BY <1>2 DEF Note
<1>4. \/ UNCHANGED <<fsimx_receive, receive_len>>
      \/ fsimx_receive' = "tcp" /\ receive_len' \in Lengths
  BY DEF Dispatch, Payload
<1>5. RestTyped
  BY ClearedIsTyped DEF Dispatch, NestedSend, RestTyped, TypeOK
<1> QED BY <1>1, <1>2, <1>3, <1>4, <1>5 DEF Handled, Afresh

LEMMA ByteCases ==
  ASSUME TypeOK, NEW b \in Bytes, simx_receive_msg(b),
         NEW buf, buf = [rx_buffer EXCEPT ![sim_cnt] = b],
         NEW n, n = Count
  PROVE  /\ buf \in [Cells -> Bytes \cup {"0"}] /\ n \in Cells /\ RestTyped
         /\ \/ (IsPrompt(buf, n) \/ EndsLine(buf, n)) /\ Handled(buf, n)
            \/ /\ ~IsPrompt(buf, n) /\ ~EndsLine(buf, n) /\ IsIpd(buf, n) /\ Begun
            \/ /\ ~IsPrompt(buf, n) /\ ~EndsLine(buf, n) /\ ~IsIpd(buf, n)
               /\ Kept(buf, b, n)
<1>1. buf \in [Cells -> Bytes \cup {"0"}] /\ n \in Cells /\ Note(b) /\ fsimx_receive = "msg"
  BY CountInCells DEF simx_receive_msg, TypeOK
<1>2. CASE (IsPrompt(buf, n) \/ EndsLine(buf, n)) /\ Dispatch(buf, n)
  BY <1>1, <1>2, EndIsBehindTwo, DispatchHandles
<1>3. CASE /\ ~IsPrompt(buf, n) /\ ~EndsLine(buf, n) /\ IsIpd(buf, n)
           /\ Payload /\ sim_cnt' = 0 /\ rx_buffer' = buf
           /\ frame' = <<>> /\ UNCHANGED <<is_receive, heads, prompts>>
  <2>1. fsimx_receive' = "tcp" /\ receive_len' \in Lengths
    BY <1>3 DEF Payload
  <2>2. since' = <<>> /\ long' = FALSE
    BY <1>1, <2>1 DEF Note
  <2> QED BY <1>1, <1>3, <2>1, <2>2 DEF Begun, Afresh, RestTyped, TypeOK
<1>4. CASE /\ ~IsPrompt(buf, n) /\ ~EndsLine(buf, n) /\ ~IsIpd(buf, n) /\ Keep(buf, n)
  BY <1>1, <1>4, KeepKeeps
<1> QED BY <1>2, <1>3, <1>4 DEF simx_receive_msg

LEMMA PayloadCases ==
  ASSUME TypeOK, NEW b \in Bytes, simx_receive_tcp(b),
         NEW buf, buf = [rx_buffer EXCEPT ![sim_cnt] = b],
         NEW n, n = Count
  PROVE  /\ buf \in [Cells -> Bytes \cup {"0"}] /\ n \in Cells /\ RestTyped
         /\ \/ n # receive_len /\ Kept(buf, b, n)
            \/ n = receive_len /\ Delivered(buf, n)
<1>1. buf \in [Cells -> Bytes \cup {"0"}] /\ n \in Cells /\ Note(b) /\ fsimx_receive = "tcp"
  BY CountInCells DEF simx_receive_tcp, TypeOK
<1>2. CASE ~IsComplete /\ Keep(buf, n)
  BY <1>1, <1>2, KeepKeeps DEF IsComplete
<1>3. CASE IsComplete /\ ~Keep(buf, n)
  <2>1. /\ n = receive_len /\ frame' = First(buf, n)
        /\ fsimx_receive' = "msg" /\ receive_len' = 0 /\ sim_cnt' = 0
    BY <1>3 DEF simx_receive_tcp, IsComplete
  <2>2. since' = <<>> /\ long' = FALSE
    BY <1>1, <2>1 DEF Note
  <2>3. RestTyped
    BY <1>1, <1>3, ClearedIsTyped DEF simx_receive_tcp, NestedSend, RestTyped, TypeOK
  <2> QED BY <1>1, <2>1, <2>2, <2>3 DEF Delivered, Afresh
<1>4. CASE IsComplete /\ Keep(buf, n)
  <2>1. fsimx_receive' = "msg" /\ fsimx_receive' = fsimx_receive
    BY <1>4 DEF simx_receive_tcp, Keep
  <2> QED BY <1>1, <2>1
<1> QED BY <1>2, <1>3, <1>4 DEF simx_receive_tcp

\* What is kept is what came.
LEMMA KeptInv ==
  ASSUME IInv, NEW b \in Bytes, RestTyped,
         NEW buf, buf = [rx_buffer EXCEPT ![sim_cnt] = b],
         NEW n, n = Count, Kept(buf, b, n)
  PROVE  IInv'
<1>1. n \in Cells
  BY CountInCells DEF IInv
<1>2. TypeOK'
  <2>1. since' \in Seq(Bytes) /\ Len(since') < ByteMod /\ long' \in BOOLEAN
    <3>1. CASE since' = <<>> /\ long' = TRUE
      BY <3>1, ByteModAssumption
    <3>2. CASE since' = Append(since, b) /\ Len(since) # ByteMod - 1 /\ long' = FALSE
      <4>1. since \in Seq(Bytes) /\ Len(since) \in Nat /\ Len(since) < ByteMod
        BY DEF IInv, TypeOK
      <4>2. since' \in Seq(Bytes) /\ Len(since') = Len(since) + 1
        BY <3>2, <4>1
      <4>3. Len(since) < ByteMod - 1 /\ Len(since) + 1 < ByteMod
        BY <3>2, <4>1, ByteModAssumption
      <4>4. Len(since') < ByteMod
        BY <4>2, <4>3
      <4>5. long' \in BOOLEAN
        BY <3>2
      <4> QED BY <4>2, <4>4, <4>5
    <3> QED BY <3>1, <3>2 DEF Kept
  <2>2. <<>> \in Seq(Bytes \cup {"0"})
    OBVIOUS
  <2> QED BY <1>1, <2>1, <2>2 DEF Kept, RestTyped, IInv, TypeOK
<1>3. BufferHoldsLine'
  <2>1. CASE ~long'
    <3>1. /\ since' = Append(since, b) /\ ~long /\ Len(since) # ByteMod - 1
          /\ sim_cnt' = n /\ rx_buffer' = buf
      BY <2>1 DEF Kept
    <3>2. since \in Seq(Bytes) /\ Len(since) < ByteMod /\ Len(since) \in Nat
      BY DEF IInv, TypeOK
    <3>3. sim_cnt = Len(since) /\ \A i \in 1..Len(since) : rx_buffer[i - 1] = since[i]
      BY <3>1 DEF IInv, BufferHoldsLine
    <3>4. n = Len(since) + 1
      BY <3>1, <3>2, <3>3, CountInCells, ByteModAssumption DEF IInv
    <3>5. Len(since') = Len(since) + 1 /\ since'[Len(since) + 1] = b
          /\ \A i \in 1..Len(since) : since'[i] = since[i]
      BY <3>1, <3>2
    <3>6. buf[Len(since)] = b /\ \A i \in 1..Len(since) : buf[i - 1] = rx_buffer[i - 1]
      BY <3>2, <3>3 DEF IInv, TypeOK, Cells
    <3>7. \A i \in 1..Len(since') : rx_buffer'[i - 1] = since'[i]
      <4> SUFFICES ASSUME NEW i \in 1..Len(since') PROVE rx_buffer'[i - 1] = since'[i]
        OBVIOUS
      <4>1. CASE i = Len(since) + 1
        BY <3>1, <3>2, <3>5, <3>6, <4>1
      <4>2. CASE i \in 1..Len(since)
        BY <3>1, <3>3, <3>5, <3>6, <4>2
      <4> QED BY <3>2, <3>5, <4>1, <4>2
    <3> QED BY <3>1, <3>4, <3>5, <3>7 DEF BufferHoldsLine
  <2>2. CASE long'
    BY <2>2 DEF BufferHoldsLine
  <2> QED BY <2>1, <2>2
<1> QED BY <1>2, <1>3 DEF IInv

\* What is complete leaves nothing behind.
LEMMA AfreshInv ==
  ASSUME IInv, RestTyped, Afresh, fsimx_receive' \in {"msg", "tcp"},
         receive_len' \in Lengths \cup {0}, frame' \in Seq(Bytes \cup {"0"})
  PROVE  IInv'
<1>1. sim_cnt' \in Cells /\ since' \in Seq(Bytes) /\ Len(since') < ByteMod /\ Len(since') = 0
  BY ByteModAssumption DEF Afresh, Cells
<1>2. TypeOK'
  BY <1>1 DEF RestTyped, Afresh, TypeOK
<1>3. BufferHoldsLine'
  BY <1>1 DEF Afresh, BufferHoldsLine
<1> QED BY <1>2, <1>3 DEF IInv

LEMMA MsgInv ==
  ASSUME IInv, NEW b \in Bytes, simx_receive_msg(b)
  PROVE  IInv'
<1>1. PICK buf, n : buf = [rx_buffer EXCEPT ![sim_cnt] = b] /\ n = Count
  OBVIOUS
<1>2. TypeOK /\ RestTyped /\ buf \in [Cells -> Bytes \cup {"0"}] /\ n \in Cells
  BY <1>1, ByteCases DEF IInv
<1>3. Handled(buf, n) \/ Begun \/ Kept(buf, b, n)
  BY <1>1, <1>2, ByteCases
<1>4. CASE Kept(buf, b, n)
  BY <1>1, <1>2, <1>4, KeptInv
<1>5. CASE Handled(buf, n) \/ Begun
  <2>1. frame' \in Seq(Bytes \cup {"0"})
    <3>1. CASE frame' = <<>>
      BY <3>1
    <3>2. CASE frame' = First(buf, n)
      BY <1>2, <3>2, FirstIsTyped
    <3> QED BY <1>5, <3>1, <3>2 DEF Handled, Begun
  <2>2. fsimx_receive' \in {"msg", "tcp"} /\ receive_len' \in Lengths \cup {0} /\ Afresh
    BY <1>2, <1>5 DEF Handled, Begun, TypeOK
  <2> QED BY <1>2, <2>1, <2>2, AfreshInv
<1> QED BY <1>3, <1>4, <1>5

LEMMA TcpInv ==
  ASSUME IInv, NEW b \in Bytes, simx_receive_tcp(b)
  PROVE  IInv'
<1>1. PICK buf, n : buf = [rx_buffer EXCEPT ![sim_cnt] = b] /\ n = Count
  OBVIOUS
<1>2. TypeOK /\ RestTyped /\ buf \in [Cells -> Bytes \cup {"0"}] /\ n \in Cells
  BY <1>1, PayloadCases DEF IInv
<1>3. Delivered(buf, n) \/ Kept(buf, b, n)
  BY <1>1, <1>2, PayloadCases
<1>4. CASE Kept(buf, b, n)
  BY <1>1, <1>2, <1>4, KeptInv
<1>5. CASE Delivered(buf, n)
  <2>1. frame' \in Seq(Bytes \cup {"0"})
    BY <1>2, <1>5, FirstIsTyped DEF Delivered
  <2> QED BY <1>2, <1>5, <2>1, AfreshInv DEF Delivered
<1> QED BY <1>3, <1>4, <1>5

LEMMA NextInv == IInv /\ [Next]_vars => IInv'
<1> SUFFICES ASSUME IInv, [Next]_vars PROVE IInv'
  OBVIOUS
<1>1. CASE UNCHANGED vars
  BY <1>1 DEF vars, IInv, TypeOK, BufferHoldsLine
<1> QED BY <1>1, SendInv, ModeInv, TimeOutInv, MsgInv, TcpInv DEF Next

THEOREM AlwaysInv == Spec => []IInv
  BY InitInv, NextInv, PTL DEF Spec

\* The counter stays within the buffer and every variable within its range.
THEOREM TypeCorrect == Spec => []TypeOK
<1>1. IInv => TypeOK
  BY DEF IInv
<1> QED BY <1>1, AlwaysInv, PTL

\* Until a line is longer than the counter can count, the buffer holds its bytes
\* and nothing in between.
THEOREM BufferAlwaysHoldsLine == Spec => []BufferHoldsLine
<1>1. IInv => BufferHoldsLine
  BY DEF IInv
<1> QED BY <1>1, AlwaysInv, PTL

-----------------------------------------------------------------------------
(* What a byte may do.                                                     *)

\* The buffer's first n bytes are the line.
Holds(buf, n, line) == \A i \in 1..n : buf[i - 1] = line[i]

LEMMA LineBehindBuffer ==
  ASSUME IInv, NEW b \in Bytes, ~long,
         Len(since) + 1 < ByteMod,
         NEW buf, buf = [rx_buffer EXCEPT ![sim_cnt] = b],
         NEW n, n = Count,
         NEW line, line = Append(since, b)
  PROVE  /\ n = Len(line) /\ n \in Nat \ {0} /\ n \in Cells
         /\ line \in Seq(Bytes)
         /\ Holds(buf, n, line)
<1>1. since \in Seq(Bytes) /\ Len(since) \in Nat
  BY DEF IInv, TypeOK
<1>2. sim_cnt = Len(since) /\ \A i \in 1..Len(since) : rx_buffer[i - 1] = since[i]
  BY DEF IInv, BufferHoldsLine
<1>3. n = Len(since) + 1 /\ n \in Cells
  BY <1>1, <1>2, CountInCells DEF IInv
<1>4. /\ line \in Seq(Bytes) /\ Len(line) = Len(since) + 1
      /\ line[Len(since) + 1] = b
      /\ \A i \in 1..Len(since) : line[i] = since[i]
  BY <1>1
<1>5. buf[Len(since)] = b /\ \A i \in 1..Len(since) : buf[i - 1] = rx_buffer[i - 1]
  BY <1>1, <1>2 DEF IInv, TypeOK, Cells
<1>6. ASSUME NEW i \in 1..n PROVE buf[i - 1] = line[i]
  <2>1. CASE i = Len(since) + 1
    BY <1>1, <1>4, <1>5, <2>1
  <2>2. CASE i \in 1..Len(since)
    BY <1>2, <1>4, <1>5, <2>2
  <2> QED BY <1>1, <1>3, <2>1, <2>2
<1> QED BY <1>1, <1>3, <1>4, <1>6 DEF Holds

\* The receiver's tests on the buffer are tests on the line.
LEMMA TestsOnLine ==
  ASSUME TypeOK, NEW n \in Cells, n # 0, NEW buf, NEW line \in Seq(Bytes), n = Len(line),
         Holds(buf, n, line)
  PROVE  /\ EndsLine(buf, n) <=> Ends(line)
         /\ IsPrompt(buf, n) <=> Prompted(line)
         /\ IsIpd(buf, n) <=> Announces(line)
<1>1. /\ n \in Nat /\ n - 1 \in Cells
      /\ \A i \in 1..n : buf[i - 1] = line[i]
  BY ByteModAssumption DEF Cells, Holds
<1>2. At(buf, n - 1) = line[n]
  BY <1>1 DEF At
<1>3. EndsLine(buf, n) <=> Ends(line)
  <2>1. CASE n = 1
    <3>1. At(buf, n - 2) = "0"
      BY <2>1, ByteModAssumption DEF At, Cells
    <3> QED BY <2>1, <3>1 DEF EndsLine, Ends
  <2>2. CASE n > 1
    <3>1. At(buf, n - 2) = line[n - 1]
      BY <1>1, <2>2, ByteModAssumption DEF At, Cells
    <3> QED BY <1>2, <2>2, <3>1 DEF EndsLine, Ends
  <2> QED BY <1>1, <2>1, <2>2
<1>4. IsPrompt(buf, n) <=> Prompted(line)
  BY <1>1 DEF IsPrompt, Prompted
<1>5. IsIpd(buf, n) <=> Announces(line)
  <2>1. buf[0] = line[1]
    BY <1>1
  <2>2. CASE n = 1
    BY <1>2, <2>1, <2>2 DEF IsIpd, Announces
  <2>3. CASE n = 2
    <3>1. buf[1] = line[2]
      BY <1>1, <2>3
    <3> QED BY <1>2, <2>3, <3>1 DEF IsIpd, Announces
  <2>4. CASE n > 2
    <3>1. buf[1] = line[2]
      BY <1>1, <2>4
    <3> QED BY <1>2, <2>1, <2>4, <3>1 DEF IsIpd, Announces
  <2> QED BY <1>1, <2>2, <2>3, <2>4
<1> QED BY <1>3, <1>4, <1>5

\* What is handed over is the line the history tells of.
LEMMA FirstIsLine ==
  ASSUME NEW n, NEW buf, NEW line \in Seq(Bytes), n = Len(line), Holds(buf, n, line)
  PROVE  First(buf, n) = line
<1>1. line = [i \in 1..n |-> line[i]]
  OBVIOUS
<1> QED BY <1>1 DEF First, Holds

\* Every line shorter than the counter's range is handed over once, complete and
\* with exactly its bytes, whatever the application sends and whatever payloads
\* come in between (simx_receive_msg, _simx_context_send_at_init).
THEOREM LinesAreWhole == Spec => WholeLines
<1>1. ASSUME IInv, NEW b \in Bytes, NEW line, line = Append(since, b),
             ~long, Len(line) < ByteMod, simx_receive_msg(b)
      PROVE  /\ frame' = IF Ends(line) \/ Prompted(line) THEN line ELSE <<>>
             /\ ~Ends(line) /\ ~Prompted(line) =>
                  (fsimx_receive' = "tcp" <=> Announces(line))
  <2>1. PICK buf, n : buf = [rx_buffer EXCEPT ![sim_cnt] = b] /\ n = Count
    OBVIOUS
  <2>2. since \in Seq(Bytes) /\ TypeOK /\ fsimx_receive = "msg"
    BY <1>1 DEF IInv, TypeOK, simx_receive_msg
  <2>3. Len(since) + 1 < ByteMod
    BY <1>1, <2>2
  <2>4. /\ n = Len(line) /\ n # 0 /\ n \in Cells /\ line \in Seq(Bytes)
        /\ Holds(buf, n, line)
    BY <1>1, <2>1, <2>3, LineBehindBuffer
  <2>5. /\ EndsLine(buf, n) <=> Ends(line)
        /\ IsPrompt(buf, n) <=> Prompted(line)
        /\ IsIpd(buf, n) <=> Announces(line)
    BY <2>2, <2>4, TestsOnLine
  <2>6. \/ (IsPrompt(buf, n) \/ EndsLine(buf, n)) /\ Handled(buf, n)
        \/ /\ ~IsPrompt(buf, n) /\ ~EndsLine(buf, n) /\ IsIpd(buf, n) /\ Begun
        \/ /\ ~IsPrompt(buf, n) /\ ~EndsLine(buf, n) /\ ~IsIpd(buf, n)
           /\ Kept(buf, b, n)
    BY <1>1, <2>1, <2>2, ByteCases
  <2>7. Handled(buf, n) => frame' = line
    BY <2>4, FirstIsLine DEF Handled
  <2> QED BY <2>2, <2>5, <2>6, <2>7 DEF Begun, Kept
<1>2. IInv /\ [Next]_vars =>
        [\A b \in Bytes : LET line == Append(since, b) IN
           ~long /\ Len(line) < ByteMod /\ simx_receive_msg(b)
           => /\ frame' = IF Ends(line) \/ Prompted(line) THEN line ELSE <<>>
              /\ ~Ends(line) /\ ~Prompted(line) =>
                   (fsimx_receive' = "tcp" <=> Announces(line))]_vars
  BY <1>1
<1> QED BY AlwaysInv, <1>2, PTL DEF Spec, WholeLines

\* Every payload shorter than the counter's range reaches its callback with
\* exactly the bytes its header announced (simx_receive_tcp).
THEOREM PayloadsAreWhole == Spec => WholePayloads
<1>1. ASSUME IInv, NEW b \in Bytes, NEW payload, payload = Append(since, b),
             ~long, Len(payload) < ByteMod, simx_receive_tcp(b)
      PROVE  /\ fsimx_receive' = "msg" <=> Len(payload) = receive_len
             /\ frame' = IF Len(payload) = receive_len THEN payload ELSE <<>>
  <2>1. PICK buf, n : buf = [rx_buffer EXCEPT ![sim_cnt] = b] /\ n = Count
    OBVIOUS
  <2>2. since \in Seq(Bytes) /\ TypeOK /\ fsimx_receive = "tcp"
    BY <1>1 DEF IInv, TypeOK, simx_receive_tcp
  <2>3. Len(since) + 1 < ByteMod
    BY <1>1, <2>2
  <2>4. n = Len(payload) /\ payload \in Seq(Bytes) /\ Holds(buf, n, payload)
    BY <1>1, <2>1, <2>3, LineBehindBuffer
  <2>5. \/ n # receive_len /\ Kept(buf, b, n)
        \/ n = receive_len /\ Delivered(buf, n)
    BY <1>1, <2>1, <2>2, PayloadCases
  <2>6. Delivered(buf, n) => frame' = payload
    BY <2>4, FirstIsLine DEF Delivered
  <2> QED BY <2>2, <2>4, <2>5, <2>6 DEF Delivered, Kept
<1>2. IInv /\ [Next]_vars =>
        [\A b \in Bytes : LET payload == Append(since, b) IN
           ~long /\ Len(payload) < ByteMod /\ simx_receive_tcp(b)
           => /\ fsimx_receive' = "msg" <=> Len(payload) = receive_len
              /\ frame' = IF Len(payload) = receive_len THEN payload ELSE <<>>]_vars
  BY <1>1
<1> QED BY AlwaysInv, <1>2, PTL DEF Spec, WholePayloads
=============================================================================

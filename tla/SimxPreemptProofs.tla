--------------------------- MODULE SimxPreemptProofs ---------------------------
(***************************************************************************)
(* The theorems about the driver's statements interleaved, for any number  *)
(* of replies, any verdicts and any time limit.                            *)
(***************************************************************************)
EXTENDS SimxPreempt, TLAPS

Final == Answers \cup {"TIMEOUT"}

\* Whether or not a window was hit: a command in flight has time left, the loop
\* waits for some reply, and the tick makes its callback only when a command has
\* ended and none is being started.
Bounds ==
  /\ is_receive = 0 => time_ms <= Timeout
  /\ ticking => is_receive = 1 /\ ~Starting
  /\ pc \in {"wait", "time", "give", "late"} => reply \in Replies
  /\ Starting => mine \in Replies
  /\ pc = "status" => reply = mine

\* Unless one was: the loop gives up only on a command that has ended; a command
\* being started is in flight and no line is being handled; a line handled beside
\* the main program is one of a command in flight; such a command has a reply,
\* and one that has ended a verdict in it.
Quiet ==
  /\ pc \in {"give", "late"} => is_receive = 1
  /\ Starting => is_receive = 0 /\ handler = "idle"
  /\ threads /\ handler # "idle" => is_receive = 0
  /\ ~Starting /\ (is_receive = 0 \/ handler # "idle") => reply \in Replies
  /\ ~Starting /\ is_receive = 1 /\ reply # NoReply => status[reply] \in Final
  /\ handler = "flag" => status[reply] \in Final

IInv == TypeOK /\ Bounds /\ (intruded \/ Quiet)

LEMMA InitInv == Init => IInv
<1> SUFFICES ASSUME Init PROVE IInv
  OBVIOUS
<1>1. TypeOK
  <2>1. /\ is_receive \in {0, 1} /\ time_ms \in 0..Timeout + 1
        /\ reply \in Replies \cup {NoReply} /\ mine \in Replies \cup {NoReply}
        /\ status \in [Replies \cup {NoReply} -> Answers \cup {"NULL", "BUSY", "TIMEOUT"}]
    BY TimeoutAssumption DEF Init
  <2>2. threads \in BOOLEAN /\ intruded \in BOOLEAN /\ ticking \in BOOLEAN
    BY DEF Init
  <2>3. restarts \in 0..MaxRestarts
    BY RestartAssumption DEF Init
  <2> QED BY <2>1, <2>2, <2>3 DEF Init, TypeOK
<1>2. Bounds /\ Quiet
  BY ReplyAssumption, TimeoutAssumption DEF Init, Bounds, Quiet, Starting
<1> QED BY <1>1, <1>2 DEF IInv

LEMMA CallInv ==
  ASSUME IInv, NEW r \in Replies, Call(r)
  PROVE  IInv'
<1> USE ReplyAssumption, TimeoutAssumption DEF IInv, Call, MayRun, timer
<1>1. TypeOK'
  BY DEF TypeOK
<1>2. Bounds'
  BY DEF TypeOK, Bounds, Starting
<1>3. (intruded \/ Quiet)'
  BY DEF TypeOK, Quiet, Starting
<1> QED BY <1>1, <1>2, <1>3

LEMMA StartInv ==
  ASSUME IInv, Starts
  PROVE  IInv'
<1> USE ReplyAssumption, TimeoutAssumption
        DEF IInv, Starts, TakeReply, ClearStatus, MayRun, timer
<1>1. TypeOK'
  BY DEF TypeOK
<1>2. Bounds'
  BY DEF TypeOK, Bounds, Starting
<1>3. (intruded \/ Quiet)'
  BY DEF TypeOK, Quiet, Starting, Bounds
<1> QED BY <1>1, <1>2, <1>3

LEMMA WaitInv ==
  ASSUME IInv, simx_wait_reply \/ Waits
  PROVE  IInv'
<1> USE ReplyAssumption, TimeoutAssumption
        DEF IInv, simx_wait_reply, Waits, LookAtReceive, LookAtTime, GiveUp,
            ReportTimeout, MayRun, timer
<1>1. TypeOK'
  BY DEF TypeOK
<1>2. Bounds'
  BY DEF TypeOK, Bounds, Starting
<1>3. (intruded \/ Quiet)'
  BY DEF TypeOK, Quiet, Starting, Bounds, Final
<1> QED BY <1>1, <1>2, <1>3

LEMMA LineInv ==
  ASSUME IInv, Line
  PROVE  IInv'
  BY DEF IInv, Line, TypeOK, Bounds, Quiet, Starting, timer

LEMMA HandleInv ==
  ASSUME IInv, Handle
  PROVE  IInv'
<1> USE DEF IInv, Handle, timer
<1>1. TypeOK'
  BY DEF TypeOK
<1>2. Bounds'
  BY DEF TypeOK, Bounds, Starting
<1>3. (intruded \/ Quiet)'
  BY DEF TypeOK, Quiet, Starting, Bounds, Final
<1> QED BY <1>1, <1>2, <1>3

LEMMA TickInv ==
  ASSUME IInv, simx_tick_1ms
  PROVE  IInv'
<1> USE TimeoutAssumption DEF IInv, simx_tick_1ms
<1>1. TypeOK'
  <2>1. time_ms' \in 0..Timeout + 1 /\ is_receive' \in {0, 1}
    BY DEF TypeOK, Bounds
  <2>2. ticking' \in BOOLEAN /\ intruded' \in BOOLEAN /\ threads' \in BOOLEAN
    BY DEF TypeOK
  <2>3. status' \in [Replies \cup {NoReply} -> Answers \cup {"NULL", "BUSY", "TIMEOUT"}]
    BY DEF TypeOK
  <2> QED BY <2>1, <2>2, <2>3 DEF TypeOK
<1>2. Bounds'
  BY DEF TypeOK, Bounds, Starting
<1>3. (intruded \/ Quiet)'
  BY DEF TypeOK, Quiet, Starting, Bounds, Final
<1> QED BY <1>1, <1>2, <1>3

LEMMA CallbackInv ==
  ASSUME IInv, simx_callback_timeout
  PROVE  IInv'
<1> USE TimeoutAssumption, ReplyAssumption DEF IInv, simx_callback_timeout
<1>1. TypeOK'
  <2>1. restarts' \in 0..MaxRestarts
    BY RestartAssumption DEF TypeOK
  <2>2. ticking' \in BOOLEAN /\ intruded' \in BOOLEAN /\ threads' \in BOOLEAN
    BY DEF TypeOK
  <2>3. /\ status' \in [Replies \cup {NoReply} -> Answers \cup {"NULL", "BUSY", "TIMEOUT"}]
        /\ reply' \in Replies \cup {NoReply}
    BY DEF TypeOK
  <2>4. time_ms' \in 0..Timeout + 1 /\ is_receive' \in {0, 1}
    BY DEF TypeOK
  <2> QED BY <2>1, <2>2, <2>3, <2>4 DEF TypeOK
<1>2. Bounds'
  BY DEF TypeOK, Bounds, Starting
<1>3. (intruded \/ Quiet)'
  <2>1. CASE UNCHANGED <<is_receive, time_ms, reply, status, restarts, intruded>>
    BY <2>1 DEF Quiet, Starting
  <2>2. CASE is_receive' = 0 /\ intruded' = (intruded \/ Deciding)
    <3>1. SUFFICES ASSUME ~intruded, ~Deciding PROVE Quiet'
      BY <2>2
    <3>2. handler' = "idle" /\ pc' \notin {"time", "give", "late"} /\ ~Starting'
      BY <3>1 DEF Deciding, Bounds, Starting
    <3>3. reply' \in Replies \/ UNCHANGED <<is_receive, reply, status>>
      OBVIOUS
    <3>4. CASE reply' \in Replies
      BY <2>2, <3>2, <3>4 DEF Quiet
    <3>5. CASE UNCHANGED <<is_receive, reply, status>>
      BY <3>1, <3>5 DEF Quiet, Starting
    <3> QED BY <3>3, <3>4, <3>5
  <2> QED BY <2>1, <2>2
<1> QED BY <1>1, <1>2, <1>3

LEMMA NextInv == IInv /\ [Next]_vars => IInv'
<1> SUFFICES ASSUME IInv, [Next]_vars PROVE IInv'
  OBVIOUS
<1>1. CASE UNCHANGED vars
  BY <1>1 DEF vars, timer, IInv, TypeOK, Bounds, Quiet, Starting
<1> QED BY <1>1, CallInv, StartInv, WaitInv, LineInv, HandleInv, TickInv, CallbackInv DEF Next

LEMMA AlwaysInv == Spec => []IInv
  BY InitInv, NextInv, PTL DEF Spec

\* Every variable keeps its range; the tick stops counting one behind the time
\* limit.
THEOREM TypeCorrect == Spec => []TypeOK
<1>1. IInv => TypeOK
  BY DEF IInv
<1> QED BY <1>1, AlwaysInv, PTL

-----------------------------------------------------------------------------
(* The channel.                                                            *)

\* A command is outstanding, as the main program can see.
Outstanding ==
  ~Starting /\ \/ is_receive = 0
               \/ handler # "idle" /\ ~threads
               \/ pc \in {"time", "give", "late"}

LEMMA OwnerIs ==
  ASSUME IInv, ~intruded
  PROVE  /\ Outstanding => Owner = reply /\ reply \in Replies /\ reply # NoReply
         /\ ~Outstanding => Owner = NoReply
         /\ Outstanding <=> ~Channel!Free
  BY ReplyAssumption
  DEF Outstanding, Owner, Channel!Free, IInv, Bounds, Quiet, Starting

LEMMA OwnerNext ==
  /\ Outstanding' => Owner' = reply'
  /\ ~Outstanding' => Owner' = NoReply
  BY DEF Outstanding, Owner, Starting

\* Who is outstanding stays, and with it what the others read.
LEMMA Stutters ==
  ASSUME IInv, ~intruded, Owner' = Owner, \A r \in Replies : r = Owner \/ status'[r] = status[r]
  PROVE  UNCHANGED Channel!vars
  BY DEF Channel!vars

LEMMA Concludes ==
  ASSUME IInv, ~intruded, Outstanding, ~Outstanding', reply' = reply,
         status'[reply] \in Final, \A r \in Replies : r = reply \/ status'[r] = status[r]
  PROVE  Channel!Next
<1>1. Owner = reply /\ reply \in Replies /\ Owner' = NoReply /\ ~Channel!Free
  BY OwnerIs, OwnerNext
<1>2. Channel!Conclude
  BY <1>1, ReplyAssumption DEF Channel!Conclude, Final
<1> QED BY <1>2 DEF Channel!Next

LEMMA CallStep ==
  ASSUME IInv, ~intruded, NEW r \in Replies, Call(r)
  PROVE  [Channel!Next]_(Channel!vars)
<1>1. CASE is_receive = 1
  <2>1. ~Outstanding /\ ~Outstanding' /\ status' = status
    BY <1>1 DEF Call, MayRun, Outstanding, Starting
  <2> QED BY <2>1, OwnerIs, OwnerNext, Stutters
<1>2. CASE is_receive = 0
  <2>1. /\ Outstanding /\ Outstanding' /\ r # reply /\ reply' = reply
        /\ status' = [status EXCEPT ![r] = "BUSY"]
    BY <1>2 DEF Call, MayRun, Outstanding, Starting
  <2>2. Channel!Refuse(r)
    <3>1. /\ Owner = reply /\ Owner' = reply /\ ~Channel!Free /\ r # Owner
      BY <2>1, OwnerIs, OwnerNext
    <3>2. status'[r] = "BUSY" /\ \A q \in Replies : q = r \/ status'[q] = status[q]
      BY <2>1 DEF IInv, TypeOK
    <3>3. UNCHANGED <<Owner, FALSE>>
      BY <3>1
    <3>4. [q \in Replies |-> IF q = Owner THEN "NULL" ELSE status[q]]' =
            [[q \in Replies |-> IF q = Owner THEN "NULL" ELSE status[q]] EXCEPT ![r] = "BUSY"]
      BY <3>1, <3>2
    <3> QED BY <3>1, <3>3, <3>4 DEF Channel!Refuse
  <2> QED BY <2>2 DEF Channel!Next
<1> QED BY <1>1, <1>2 DEF Call

LEMMA StartStep ==
  ASSUME IInv, ~intruded, Starts
  PROVE  [Channel!Next]_(Channel!vars)
<1>1. CASE TakeReply
  <2>1. ~Outstanding /\ ~Outstanding' /\ status' = status
    BY <1>1 DEF TakeReply, MayRun, Outstanding, Starting
  <2> QED BY <2>1, OwnerIs, OwnerNext, Stutters
<1>2. CASE ClearStatus
  <2>1. mine \in Replies /\ reply = mine
    BY <1>2 DEF ClearStatus, MayRun, Starting, IInv, Bounds
  <2>2. PICK r \in Replies : r = mine
    BY <2>1
  <2>3. /\ ~Outstanding /\ Outstanding' /\ reply' = r
        /\ status' = [status EXCEPT ![r] = "NULL"]
    BY <1>2, <2>1, <2>2 DEF ClearStatus, MayRun, Outstanding, Starting, IInv, Quiet
  <2>4. Channel!Accept(r)
    <3>1. Owner = NoReply /\ Owner' = r /\ Channel!Free
      BY <2>3, OwnerIs, OwnerNext
    <3>2. status'[r] = "NULL" /\ \A q \in Replies : q = r \/ status'[q] = status[q]
      BY <2>3 DEF IInv, TypeOK
    <3> QED BY <3>1, <3>2, ReplyAssumption DEF Channel!Accept
  <2> QED BY <2>4 DEF Channel!Next
<1> QED BY <1>1, <1>2 DEF Starts

LEMMA WaitStep ==
  ASSUME IInv, ~intruded, simx_wait_reply \/ Waits
  PROVE  [Channel!Next]_(Channel!vars)
<1>1. CASE simx_wait_reply \/ LookAtReceive \/ GiveUp
  <2>1. (Outstanding' <=> Outstanding) /\ reply' = reply /\ status' = status
    BY <1>1 DEF simx_wait_reply, LookAtReceive, GiveUp, MayRun, Outstanding, Starting,
                IInv, TypeOK
  <2> QED BY <2>1, OwnerIs, OwnerNext, Stutters
<1>2. CASE LookAtTime
  <2>1. Outstanding /\ reply' = reply /\ status' = status
    BY <1>2 DEF LookAtTime, MayRun, Outstanding, Starting
  <2>2. CASE Outstanding'
    BY <2>1, <2>2, OwnerIs, OwnerNext, Stutters
  <2>3. CASE ~Outstanding'
    <3>1. is_receive = 1 /\ ~Starting /\ reply \in Replies
      BY <1>2, <2>3 DEF LookAtTime, MayRun, Outstanding, Starting, IInv, TypeOK, Bounds
    <3>2. status'[reply] \in Final
      BY <2>1, <3>1, ReplyAssumption DEF IInv, Quiet
    <3> QED BY <2>1, <2>3, <3>2, Concludes
  <2> QED BY <2>2, <2>3
<1>3. CASE ReportTimeout
  <2>1. /\ Outstanding /\ ~Outstanding' /\ reply' = reply
        /\ status' = [status EXCEPT ![reply] = "TIMEOUT"]
    BY <1>3 DEF ReportTimeout, MayRun, Outstanding, Starting, IInv, Bounds, Quiet
  <2>2. /\ status'[reply] \in Final
        /\ \A r \in Replies : r = reply \/ status'[r] = status[r]
    BY <2>1 DEF Final, IInv, TypeOK
  <2> QED BY <2>1, <2>2, Concludes
<1> QED BY <1>1, <1>2, <1>3 DEF Waits

LEMMA LineStep ==
  ASSUME IInv, ~intruded, Line
  PROVE  [Channel!Next]_(Channel!vars)
<1>1. (Outstanding' <=> Outstanding) /\ reply' = reply /\ status' = status
  BY DEF Line, Outstanding, Starting
<1> QED BY <1>1, OwnerIs, OwnerNext, Stutters

LEMMA HandleStep ==
  ASSUME IInv, ~intruded, Handle
  PROVE  [Channel!Next]_(Channel!vars)
<1>1. handler # "idle" /\ ~Starting /\ Outstanding /\ reply' = reply /\ reply \in Replies
  BY DEF Handle, Outstanding, Starting, IInv, TypeOK, Quiet
<1>2. CASE handler = "status"
  <2>1. /\ Outstanding'
        /\ \E v \in Answers : status' = [status EXCEPT ![reply] = v]
    BY <1>1, <1>2 DEF Handle, Outstanding, Starting
  <2> QED BY <1>1, <2>1, OwnerIs, OwnerNext, Stutters DEF IInv, TypeOK
<1>3. CASE handler = "flag"
  <2>1. status' = status /\ status[reply] \in Final
    BY <1>3 DEF Handle, IInv, Quiet
  <2>2. CASE Outstanding'
    BY <1>1, <2>1, <2>2, OwnerIs, OwnerNext, Stutters
  <2>3. CASE ~Outstanding'
    BY <1>1, <2>1, <2>3, Concludes
  <2> QED BY <2>2, <2>3
<1> QED BY <1>2, <1>3 DEF Handle

LEMMA TickStep ==
  ASSUME IInv, ~intruded, simx_tick_1ms
  PROVE  intruded' \/ [Channel!Next]_(Channel!vars)
<1>1. CASE time_ms' > Timeout
  <2>1. ~Starting /\ Outstanding /\ reply' = reply
        /\ status' = [status EXCEPT ![reply] = "TIMEOUT"]
    BY <1>1, TimeoutAssumption
    DEF simx_tick_1ms, Outstanding, IInv, TypeOK
  <2>2. /\ status'[reply] \in Final
        /\ \A r \in Replies : r = reply \/ status'[r] = status[r]
    BY <2>1 DEF Final, IInv, TypeOK
  <2>3. CASE Outstanding'
    BY <2>1, <2>2, <2>3, OwnerIs, OwnerNext, Stutters
  <2>4. CASE ~Outstanding'
    BY <2>1, <2>2, <2>4, Concludes
  <2> QED BY <2>3, <2>4
<1>2. CASE ~(time_ms' > Timeout)
  <2>1. (Outstanding' <=> Outstanding) /\ reply' = reply /\ status' = status
    BY <1>2 DEF simx_tick_1ms, Outstanding, Starting
  <2> QED BY <2>1, OwnerIs, OwnerNext, Stutters
<1> QED BY <1>1, <1>2

LEMMA CallbackStep ==
  ASSUME IInv, ~intruded, simx_callback_timeout
  PROVE  intruded' \/ [Channel!Next]_(Channel!vars)
<1>1. CASE UNCHANGED <<is_receive, time_ms, reply, status, restarts, intruded>>
  <2>1. (Outstanding' <=> Outstanding) /\ reply' = reply /\ status' = status
    BY <1>1 DEF simx_callback_timeout, Outstanding, Starting
  <2> QED BY <2>1, OwnerIs, OwnerNext, Stutters
<1>2. ASSUME NEW r \in Replies, is_receive = 1, is_receive' = 0, reply' = r, ~Deciding,
             status' = [status EXCEPT ![r] = "NULL"]
      PROVE  Channel!Accept(r)
  <2>1. ~Starting /\ UNCHANGED <<pc, handler>>
    BY DEF simx_callback_timeout, IInv, Bounds
  <2>2. ~Outstanding /\ Outstanding'
    BY <1>2, <2>1 DEF Outstanding, Starting, Deciding
  <2>3. Owner = NoReply /\ Owner' = r /\ Channel!Free
    BY <1>2, <2>2, OwnerIs, OwnerNext
  <2>4. status'[r] = "NULL" /\ \A q \in Replies : q = r \/ status'[q] = status[q]
    BY <1>2 DEF IInv, TypeOK
  <2> QED BY <2>3, <2>4, ReplyAssumption DEF Channel!Accept
<1>3. CASE is_receive = 1 /\ restarts' = restarts + 1 /\ is_receive' = 0
  <2>1. CASE Deciding /\ intruded'
    BY <2>1
  <2>2. CASE ~Deciding
    <3>1. PICK r \in Replies : reply' = r /\ status' = [status EXCEPT ![r] = "NULL"]
      BY <1>3 DEF simx_callback_timeout, IInv, TypeOK
    <3>2. Channel!Accept(r)
      BY <1>2, <1>3, <2>2, <3>1
    <3> QED BY <3>2 DEF Channel!Next
  <2>3. Deciding => intruded'
    <3>1. ~(UNCHANGED <<is_receive, time_ms, reply, status, restarts, intruded>>)
      BY <1>3
    <3>2. intruded' = (intruded \/ Deciding)
      BY <3>1, Zenon DEF simx_callback_timeout
    <3> QED BY <3>2, Zenon
  <2> QED BY <2>1, <2>2, <2>3
<1> QED BY <1>1, <1>3 DEF simx_callback_timeout

\* Between statements, too, the driver serves one request at a time and gives its
\* owner one verdict, until one of the three windows is hit (sim300_send_*,
\* simx_wait_reply, simx_receive_frame, simx_finished, simx_tick_1ms), even if
\* simx_callback_timeout starts commands of its own.
THEOREM NoOtherWindow == Spec => OnlyThreeWindows
<1>1. ASSUME IInv, [Next]_vars
      PROVE  [intruded' \/ Channel!Next]_(Channel!vars)
  <2>1. CASE UNCHANGED vars
    BY <2>1 DEF vars, Channel!vars, Owner, Starting
  <2>2. CASE intruded
    <3>1. intruded'
      BY <1>1, <2>2 DEF Next, Call, Starts, TakeReply, ClearStatus, simx_wait_reply, Waits,
         LookAtReceive, LookAtTime, GiveUp, ReportTimeout, Line, Handle, simx_tick_1ms,
         simx_callback_timeout, vars
    <3> QED BY <3>1
  <2>3. CASE ~intruded /\ Next
    BY <1>1, <2>3, CallStep, StartStep, WaitStep, LineStep, HandleStep, TickStep, CallbackStep DEF Next
  <2> QED BY <1>1, <2>1, <2>2, <2>3
<1>2. IInv /\ [Next]_vars => [intruded' \/ Channel!Next]_(Channel!vars)
  BY <1>1
<1> QED BY AlwaysInv, <1>2, PTL DEF Spec, OnlyThreeWindows
=============================================================================

------------------------------ MODULE SimxPreempt ------------------------------
(***************************************************************************)
(* The same driver statement by statement, as far as is_receive, time_ms,  *)
(* context->reply and the replies' statuses are concerned: the main        *)
(* program starts commands and waits for them, the modem's lines are       *)
(* handled by an interrupt or, as in worker.cpp, by another thread, and    *)
(* the tick interrupts both, and the callback it makes when the time has   *)
(* run out may start a command, too.  Nothing is locked.  Any line that    *)
(* ends a command may come at any time: an answer, a late one or a         *)
(* notification.  Left out are the hook, which simx_finished runs and      *)
(* clears behind is_receive = 1, and CIPSTATUS, which writes OK lines      *)
(* before its end.                                                         *)
(***************************************************************************)
EXTENDS Integers

CONSTANTS
  Replies, NoReply,
  Answers,      \* the verdicts a line can give
  Timeout,      \* SIM900_TIMEOUT
  MaxRestarts   \* bound on the commands simx_callback_timeout starts

ASSUME ReplyAssumption   == NoReply \notin Replies
ASSUME AnswerAssumption  == {"NULL", "BUSY"} \cap Answers = {} /\ Answers # {}
ASSUME TimeoutAssumption == Timeout \in Nat \ {0}
ASSUME RestartAssumption == MaxRestarts \in Nat

VARIABLES
  is_receive, time_ms, reply,
  status,    \* of each reply, and what a write through the null pointer hits
  pc,        \* the main program's next statement; idle: outside the driver
  mine,      \* the reply it has passed
  handler,   \* the line handler's next statement
  ticking,   \* is the tick in simx_callback_timeout?
  restarts,  \* the commands that has started
  threads,   \* does the main program run on while a line is being handled?
  intruded   \* history: has one met another in one of the three windows?

timer == <<ticking, restarts>>

vars == <<is_receive, time_ms, reply, status, pc, mine, handler, timer, threads, intruded>>

Init ==
  /\ is_receive = 1 /\ time_ms = 0 /\ reply = NoReply
  /\ status = [r \in Replies \cup {NoReply} |-> "NULL"]
  /\ pc = "idle" /\ mine = NoReply /\ handler = "idle"
  /\ ticking = FALSE /\ restarts = 0
  /\ threads \in BOOLEAN /\ intruded = FALSE

-----------------------------------------------------------------------------
(* The main program.                                                       *)

MayRun(at) == pc = at /\ ~ticking /\ (threads \/ handler = "idle")

\* sim300_send_*: the test and _simx_context_send_at_init.  Only the main
\* program makes is_receive 0, so nothing comes between the two.
Call(r) ==
  /\ MayRun("idle")
  /\ \/ /\ is_receive = 1
        /\ is_receive' = 0 /\ time_ms' = 0
        /\ mine' = r /\ pc' = "reply"
        /\ UNCHANGED status
     \/ /\ is_receive = 0 /\ r # reply
        /\ status' = [status EXCEPT ![r] = "BUSY"]
        /\ UNCHANGED <<is_receive, time_ms, mine, pc>>
  /\ UNCHANGED <<reply, handler, timer, threads, intruded>>

\* context->reply = reply.  (The state and the command, set next to it, decide
\* which line ends the command, which is left open here.)
TakeReply ==
  /\ MayRun("reply")
  /\ reply' = mine /\ pc' = "status"
  /\ UNCHANGED <<is_receive, time_ms, status, mine, handler, timer, threads, intruded>>

\* reply->status = SIM300_NULL, and the text goes out.
ClearStatus ==
  /\ MayRun("status")
  /\ status' = [status EXCEPT ![mine] = "NULL"] /\ pc' = "idle"
  /\ UNCHANGED <<is_receive, time_ms, reply, mine, handler, timer, threads, intruded>>

simx_wait_reply ==
  /\ MayRun("idle") /\ reply # NoReply
  /\ pc' = "wait"
  /\ UNCHANGED <<is_receive, time_ms, reply, status, mine, handler, timer, threads, intruded>>

\* The loop's condition.
LookAtReceive ==
  /\ MayRun("wait")
  /\ pc' = IF is_receive = 1 THEN "idle" ELSE "time"
  /\ UNCHANGED <<is_receive, time_ms, reply, status, mine, handler, timer, threads, intruded>>

LookAtTime ==
  /\ MayRun("time")
  /\ pc' = IF time_ms > Timeout THEN "give" ELSE "wait"
  /\ UNCHANGED <<is_receive, time_ms, reply, status, mine, handler, timer, threads, intruded>>

GiveUp ==
  /\ MayRun("give")
  /\ is_receive' = 1 /\ pc' = "late"
  /\ UNCHANGED <<time_ms, reply, status, mine, handler, timer, threads, intruded>>

ReportTimeout ==
  /\ MayRun("late")
  /\ status' = [status EXCEPT ![reply] = "TIMEOUT"] /\ pc' = "idle"
  /\ UNCHANGED <<is_receive, time_ms, reply, mine, handler, timer, threads, intruded>>

-----------------------------------------------------------------------------
(* The line handler and the tick.                                          *)

\* context->reply is still the last command's, or its status is yet to be
\* cleared.
Starting == pc \in {"reply", "status"}

\* simx_receive_frame finds a command in flight, and the line ends it.
Line ==
  /\ handler = "idle" /\ ~ticking /\ is_receive = 0
  /\ handler' = "status"
  /\ intruded' = (intruded \/ Starting)
  /\ UNCHANGED <<is_receive, time_ms, reply, status, pc, mine, timer, threads>>

\* The verdict is written behind the flag that says it is there.
Bug_FlagFirst ==
  /\ ~ticking
  /\ \/ handler = "status" /\ is_receive' = 1 /\ handler' = "flag" /\ UNCHANGED status
     \/ /\ handler = "flag" /\ handler' = "idle"
        /\ \E v \in Answers : status' = [status EXCEPT ![reply] = v]
        /\ UNCHANGED is_receive
  /\ UNCHANGED <<time_ms, reply, pc, mine, timer, threads, intruded>>

\* reply->status = ..., then simx_finished as far as is_receive.
Handle ==
  /\ ~ticking
  /\ \/ /\ handler = "status" /\ handler' = "flag"
        /\ \E v \in Answers : status' = [status EXCEPT ![reply] = v]
        /\ UNCHANGED is_receive
     \/ handler = "flag" /\ is_receive' = 1 /\ handler' = "idle" /\ UNCHANGED status
  /\ UNCHANGED <<time_ms, reply, pc, mine, timer, threads, intruded>>

\* The time is not counted.
Bug_TimeStands ==
  /\ is_receive = 0 /\ ~ticking /\ time_ms + 1 > Timeout
  /\ status' = [status EXCEPT ![reply] = "TIMEOUT"] /\ is_receive' = 1 /\ ticking' = TRUE
  /\ UNCHANGED <<time_ms, reply, pc, mine, handler, restarts, threads, intruded>>

\* It counts without a command, too.
Bug_CountsAlways ==
  /\ ~ticking /\ (Starting => time_ms < Timeout)
  /\ time_ms' = time_ms + 1
  /\ UNCHANGED <<is_receive, status, reply, pc, mine, handler, timer, threads, intruded>>

\* A command is started in less than the time limit.  The last conjunct but one
\* notes that the time ran out while a handler that had found is_receive = 0 had
\* still to write, with nothing to keep the main program from going on.
simx_tick_1ms ==
  /\ is_receive = 0 /\ ~ticking /\ (Starting => time_ms < Timeout)
  /\ time_ms' = time_ms + 1
  /\ IF time_ms' > Timeout
     THEN status' = [status EXCEPT ![reply] = "TIMEOUT"] /\ is_receive' = 1 /\ ticking' = TRUE
     ELSE UNCHANGED <<status, is_receive, ticking>>
  /\ intruded' = (intruded \/ (time_ms' > Timeout /\ threads /\ handler # "idle"))
  /\ UNCHANGED <<reply, pc, mine, handler, restarts, threads>>

\* The waiting loop has found a command in flight, or a handler has, and will
\* yet write what it makes of it.
Deciding == pc \in {"time", "give", "late"} \/ handler # "idle"

\* The callback may start a command, as Call, TakeReply and ClearStatus do, with
\* whatever the tick has interrupted still to go on.
simx_callback_timeout ==
  /\ ticking /\ ticking' = FALSE
  /\ \/ UNCHANGED <<is_receive, time_ms, reply, status, restarts, intruded>>
     \/ /\ is_receive = 1 /\ restarts < MaxRestarts
        /\ is_receive' = 0 /\ time_ms' = 0 /\ restarts' = restarts + 1
        /\ \E r \in Replies : reply' = r /\ status' = [status EXCEPT ![r] = "NULL"]
        /\ intruded' = (intruded \/ Deciding)
  /\ UNCHANGED <<pc, mine, handler, threads>>

Starts == TakeReply \/ ClearStatus
Waits  == LookAtReceive \/ LookAtTime \/ GiveUp \/ ReportTimeout

Next ==
  \/ \E r \in Replies : Call(r)
  \/ Starts \/ simx_wait_reply \/ Waits
  \/ Line \/ Handle
  \/ simx_tick_1ms \/ simx_callback_timeout

\* The processor runs what is ready, and the timer keeps ticking.
Spec ==
  /\ Init /\ [][Next]_vars
  /\ WF_vars(Starts) /\ WF_vars(Waits) /\ WF_vars(Handle)
  /\ WF_vars(simx_tick_1ms) /\ WF_vars(simx_callback_timeout)

-----------------------------------------------------------------------------
(* Properties.                                                             *)

TypeOK ==
  /\ is_receive \in {0, 1} /\ time_ms \in 0..Timeout + 1
  /\ reply \in Replies \cup {NoReply} /\ mine \in Replies \cup {NoReply}
  /\ status \in [Replies \cup {NoReply} -> Answers \cup {"NULL", "BUSY", "TIMEOUT"}]
  /\ pc \in {"idle", "reply", "status", "wait", "time", "give", "late"}
  /\ handler \in {"idle", "status", "flag"}
  /\ ticking \in BOOLEAN /\ restarts \in 0..MaxRestarts
  /\ threads \in BOOLEAN /\ intruded \in BOOLEAN

\* Whose command is under way, as the main program can know: it may look at
\* is_receive whenever it runs and is not in the midst of the waiting loop.
Owner ==
  IF ~Starting /\ \/ is_receive = 0
                  \/ handler # "idle" /\ ~threads
                  \/ pc \in {"time", "give", "late"}
  THEN reply ELSE NoReply

Channel == INSTANCE AtChannel WITH
  Callers   <- Replies,
  Nobody    <- NoReply,
  Verdicts  <- Answers \cup {"TIMEOUT"},
  owner     <- Owner,
  verdict   <- [r \in Replies |-> IF r = Owner THEN "NULL" ELSE status[r]],
  announced <- FALSE

\* Handler, tick, its callback and waiting loop all write the verdict and the
\* flag without a lock, and still every caller gets one verdict, in its own
\* reply, when it finds the flag set, and keeps it, unless a line is handled
\* between is_receive = 0 and the clearing of the status, the time runs out in
\* the midst of a handler on another thread, or the timeout's callback starts a
\* command while the waiting loop or a handler is deciding the one before: these
\* three windows are the only ones.
OnlyThreeWindows == [][intruded' \/ Channel!Next]_(Channel!vars)

\* Whatever meets whatever, no function of the driver keeps its caller, and no
\* command stays in flight, as long as the timeout's callback does not start
\* commands for ever.
CallsReturn == (pc # "idle" ~> pc = "idle") /\ (is_receive = 0 ~> is_receive = 1)
=============================================================================

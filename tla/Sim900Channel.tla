----------------------------- MODULE Sim900Channel -----------------------------
(***************************************************************************)
(* The driver implements AtChannel for an application that never passes    *)
(* the reply in flight to another call and, while a command is in flight,  *)
(* leaves simx_tcp_head_enable and the "+++" of simx_switch_mode alone.    *)
(***************************************************************************)
EXTENDS Sim900Driver

Channel == INSTANCE AtChannel WITH
  Callers   <- Replies,
  Nobody    <- NoReply,
  Verdicts  <- Statuses \ {"NULL"},
  owner     <- IF InFlight THEN reply ELSE NoReply,
  verdict   <- status,
  announced <- InFlight /\ cmd = "CIPSTATUS" /\ state = "MSG"

\* Every behaviour of the driver is one of the channel's: callers never see each
\* other's commands, only BUSY (sim300_send_*, simx_receive_frame, simx_tick_1ms).
ImplementsChannel == Channel!Spec

\* With the timer running the channel also keeps its promise to become free.
ImplementsFairChannel == Channel!FairSpec
=============================================================================

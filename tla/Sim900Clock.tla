------------------------------ MODULE Sim900Clock ------------------------------
(***************************************************************************)
(* The driver and, as a history, the time its command has really had:      *)
(* time_ms is set and counted in five places, and one context's time_ms    *)
(* serves every command.                                                   *)
(***************************************************************************)
EXTENDS Sim900Driver

VARIABLE waited   \* history: ticks since the last command was sent

clockVars == <<vars, waited>>

ClockInit == Init /\ waited = 0

\* A refused call sends nothing.
ClockCall ==
  /\ \E r \in Replies : AppCall(r)
  /\ waited' = IF upcalls' = {} THEN waited ELSE 0

ClockTick == simx_tick_1ms /\ waited' = waited + 1

ClockRest ==
  /\ ReceiveLine \/ simx_receive_tcp \/ simx_wait_reply
  /\ UNCHANGED waited

ClockNext == ClockCall \/ ClockTick \/ ClockRest

ClockSpec == ClockInit /\ [][ClockNext]_clockVars

\* simx_tick_1ms is called from a periodic timer.
ClockTickSpec == ClockSpec /\ WF_clockVars(ClockTick)

-----------------------------------------------------------------------------
(* Properties.                                                             *)

TimesOut == InFlight /\ is_receive' = 1 /\ status'[reply] = "TIMEOUT"

\* Whatever has been sent, refused, cut short or given up before, and by
\* whichever of the tick and the waiting loop it is ended: a command that times
\* out has had the whole limit and one tick more, and "+++", which inherits the
\* time of the command before it, no more than that.
TimeoutOnTime ==
  [][TimesOut => /\ waited' <= Timeout + 1
                 /\ cmd # "PPP" => waited' > Timeout]_clockVars
=============================================================================

----------------------------- MODULE Timetable -----------------------------
(***************************************************************************)
(* What ports/scheduler_port.py promises of one account, without times of  *)
(* day, rows, memory, threads or crashes' traces: a run begins only while  *)
(* one is wanted, never beside another, and never sooner after the last    *)
(* than interval and jitter allow.  Scheduler is shown to implement this.  *)
(***************************************************************************)
EXTENDS Naturals

CONSTANTS Interval, JitterWindow

VARIABLES
  wanted,    \* schedule_next_run() has been called, and no cancel() since
  running,   \* on_trigger(), and what follows it in _fire(), is under way
  since      \* time since the last run began, up to Interval

times == <<wanted, running, since>>

Init == wanted = FALSE /\ running = FALSE /\ since = Interval

Order    == wanted' = TRUE /\ UNCHANGED <<running, since>>
Withdraw == wanted' = FALSE /\ UNCHANGED <<running, since>>

Run ==
  /\ wanted /\ ~running /\ since >= Interval - JitterWindow
  /\ running' = TRUE /\ since' = 0
  /\ UNCHANGED wanted

End == running' = FALSE /\ UNCHANGED <<wanted, since>>

(* The process is gone, until it is started again. *)
Stop == wanted' = FALSE /\ running' = FALSE /\ UNCHANGED since

Wait == since < Interval /\ since' = since + 1 /\ UNCHANGED <<wanted, running>>

Next == Order \/ Withdraw \/ Run \/ End \/ Stop \/ Wait

Spec == Init /\ [][Next]_times
=============================================================================

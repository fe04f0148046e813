------------------------------- MODULE Timers -------------------------------
(***************************************************************************)
(* timers.cc: one list of real-time timers served by alarm() and SIGALRM,  *)
(* and one timer on the CPU time of the running task, served by setitimer  *)
(* and SIGVTALRM.  The operators map a record tm of the module's static    *)
(* variables and of what the kernel holds for it to the next one.          *)
(*                                                                         *)
(* Times are kept relative to the clock: left is when - time(0), never     *)
(* below 0, which is all the code compares.  A timer is named by its       *)
(* procedure, as no procedure here has two timers at once.  CPU time is in *)
(* half seconds, because stop_timers drops the fraction of a second.       *)
(***************************************************************************)
EXTENDS Integers, Sequences, SequencesExt

NoAlarm == -1

\* virtual is the timer's `when'; cpu is what is left in the kernel's itimer.
NoTimers ==
  [active |-> <<>>, alarm |-> NoAlarm, sigalrm |-> FALSE,
   virtual |-> NoAlarm, cpu |-> NoAlarm, sigvtalrm |-> FALSE]

\* No signal that was pending survives SIG_IGN.
stop_timers(tm) ==
  [tm EXCEPT !.alarm = NoAlarm, !.sigalrm = FALSE, !.sigvtalrm = FALSE,
             !.cpu = NoAlarm,
             !.virtual = IF @ = NoAlarm THEN @
                         ELSE IF tm.cpu = NoAlarm THEN 0
                         ELSE 2 * (tm.cpu \div 2)]

restart_timers(tm) ==
  LET real == IF tm.active = <<>> THEN tm
              ELSE IF Head(tm.active).left > 0
                   THEN [tm EXCEPT !.alarm = Head(tm.active).left]
                   ELSE [tm EXCEPT !.sigalrm = TRUE]
  IN  IF tm.virtual = NoAlarm THEN real
      ELSE IF tm.virtual > 0 THEN [real EXCEPT !.cpu = tm.virtual]
      ELSE [real EXCEPT !.sigvtalrm = TRUE]

\* The new timer goes behind those that are due no later.
set_timer(tm, seconds, proc) ==
  LET stopped == stop_timers(tm)
      before == Cardinality({i \in DOMAIN tm.active : tm.active[i].left <= seconds})
  IN  restart_timers([stopped EXCEPT
        !.active = InsertAt(@, before + 1, [proc |-> proc, left |-> seconds])])

\* The list is searched from its head and one entry taken out.
cancel_timer(tm, proc) ==
  LET stopped == stop_timers(tm)
      has == {i \in DOMAIN tm.active : tm.active[i].proc = proc}
  IN  restart_timers(IF has = {} THEN stopped
                     ELSE [stopped EXCEPT !.active = RemoveAt(@, CHOOSE i \in has : TRUE)])

\* The handler of SIGALRM takes the first timer off, and arms the rest without
\* having stopped them (the wrong version forgets to).  Its procedure runs
\* afterwards (see Connections).
wakeup_call_unarmed(tm) == [tm EXCEPT !.active = Tail(@), !.sigalrm = FALSE]
wakeup_call(tm) ==
  restart_timers([tm EXCEPT !.active = Tail(@), !.sigalrm = FALSE])

set_virtual_timer(tm, halves) ==
  restart_timers([stop_timers(tm) EXCEPT !.virtual = halves])
cancel_virtual_timer(tm) ==
  restart_timers([stop_timers(tm) EXCEPT !.virtual = NoAlarm])
-----------------------------------------------------------------------------
(* The kernel (external): time passes and signals become pending.          *)

SecondPasses(tm) ==
  [tm EXCEPT !.active = LET later(l) == IF l > 0 THEN l - 1 ELSE 0
                        IN  [i \in DOMAIN tm.active |->
                               [proc |-> tm.active[i].proc, left |-> later(tm.active[i].left)]],
             !.alarm = IF @ > 1 THEN @ - 1 ELSE NoAlarm,
             !.sigalrm = @ \/ tm.alarm = 1]

HalfSecondOfCpu(tm) ==
  [tm EXCEPT !.cpu = IF @ > 1 THEN @ - 1 ELSE NoAlarm,
             !.sigvtalrm = @ \/ tm.cpu = 1]

\* A timer in the list is never forgotten: the alarm is set for the first one,
\* or its signal is pending; and no signal is pending without a timer that is
\* due, as wakeup_call would look for one.  The task's timer likewise.
Armed(tm) ==
  /\ tm.active # <<>> =>
       \/ tm.sigalrm /\ Head(tm.active).left = 0
       \/ tm.alarm = Head(tm.active).left /\ tm.alarm > 0
  /\ tm.active = <<>> => ~tm.sigalrm
  /\ tm.virtual # NoAlarm => tm.cpu # NoAlarm \/ tm.sigvtalrm
  /\ tm.sigvtalrm => tm.virtual # NoAlarm
=============================================================================

------------------------------- MODULE Clock -------------------------------
(***************************************************************************)
(* Timers: the clock interrupt, the CLOCK task and the kernel calls that   *)
(* set timers (kernel/clock.c, do_setalarm.c, do_chdeadline.c, do_exit.c), *)
(* composed with PM, which keeps the alarms of all user processes behind   *)
(* its one kernel alarm (servers/pm/timers.c, alarm.c).                    *)
(*                                                                         *)
(* The tasks CLOCK and SYSTEM do not preempt each other (Sched). Clock     *)
(* interrupts come between any two steps, in particular between a change   *)
(* of the kernel's list and the assignment to next_timeout that follows.   *)
(***************************************************************************)
EXTENDS Timers

CONSTANTS
    User,       \* user processes; also their p_deadline timers
    EDF,        \* those of them that set deadlines
    Period,     \* ticks to the next call of balance_queues()
    DL_HZ,      \* ticks in the unit of a deadline: 60
    Alarms,     \* bound: what a user asks for: <<ticks, interval>>
    Deadlines,  \* bound: deadlines a process asks for
    MaxLost,    \* bound: ticks lost before an interrupt
    MaxTime     \* bound: realtime stops here, the interrupts go on

VARIABLES
    realtime, next_timeout,
    kt,     \* clock_timers
    task,   \* the kernel task that runs: "none", "clock" or "system"
    store,  \* next_timeout is still to be set
    job,    \* what SYSTEM still has to do
    clk,    \* CLOCK: note, a notification waits; now, its copy of realtime
    pt,     \* pm_timers
    pm,     \* PM: pc; arg, its locals; note, a notification waits
    alarm   \* ALARM_ON, mp_interval and when the alarm is asked for

ASSUME ClockAssumption ==
    /\ Period \in 1..LONG_MAX /\ DL_HZ \in Nat \ {0} /\ MaxLost \in Nat
    /\ MaxTime \in Nat /\ MaxTime < LONG_MAX
    /\ Alarms \in [User -> SUBSET (Nat \X Nat)] /\ Deadlines \subseteq Int
    /\ User \subseteq Nat \ {0} /\ EDF \subseteq User

(* A time a process asks for does not wrap. PM limits the ticks to         *)
(* LONG_MAX, and says that adding them to the time may overflow.           *)
ASSUME AlarmsFit ==
    \A u \in User : \A a \in Alarms[u] :
        a[1] + MaxTime <= LONG_MAX /\ a[2] + MaxTime <= LONG_MAX

Balance == -1                       \* queue_timer of balance_queues()
PMAlarm == 0                        \* s_alarm_timer of PM
KT == EDF \cup {Balance, PMAlarm}

vars == <<realtime, next_timeout, kt, task, store, job, clk, pt, pm, alarm>>
-----------------------------------------------------------------------------
(* Mutant: CLOCK is woken only on the very tick.                           *)
MutTick(n) ==
    /\ realtime' = IF realtime + n > MaxTime THEN MaxTime ELSE realtime + n
    /\ clk' = [clk EXCEPT !.note = @ \/ (next_timeout = realtime' /\ realtime < realtime')]
    /\ UNCHANGED <<next_timeout, kt, task, store, job, pt, pm, alarm>>

(* bsp_timer_int_handler().                                                *)
Tick(n) ==
    /\ realtime' = IF realtime + n > MaxTime THEN MaxTime ELSE realtime + n
    /\ clk' = [clk EXCEPT !.note = @ \/ next_timeout <= realtime']
    /\ UNCHANGED <<next_timeout, kt, task, store, job, pt, pm, alarm>>

(* The end of set_timer() and reset_timer(): next_timeout is set to the    *)
(* front of the list.                                                      *)
StoreNext ==
    /\ store
    /\ store' = FALSE
    /\ next_timeout' = Head0(kt, TMR_NEVER)
    /\ UNCHANGED <<realtime, kt, task, job, clk, pt, pm, alarm>>

-----------------------------------------------------------------------------
(* The CLOCK task receives a notification.                                 *)
ClockReceive ==
    /\ task = "none" /\ clk.note
    /\ task' = "clock"
    /\ clk' = [note |-> FALSE, now |-> realtime]
    /\ UNCHANGED <<realtime, next_timeout, kt, store, job, pt, pm, alarm>>

(* tmrs_exptimers() calls one watchdog: balance_queues() sets its timer    *)
(* again; cause_alarm() notifies PM, at once when it waits; reach_deadline *)
(* sends a signal.                                                         *)
ClockExpire ==
    /\ task = "clock" /\ ~store /\ Due(kt, clk.now)
    /\ LET tp == kt.q[1]
       IN  /\ kt' = IF tp = Balance
                    THEN tmrs_settimer(Expired(kt), tp, Long(realtime + Period))
                    ELSE Expired(kt)
           /\ store' = (tp = Balance)
           /\ pm' = IF tp # PMAlarm THEN pm
                    ELSE IF pm.pc = "idle"
                    THEN [pm EXCEPT !.pc = "expire", !.arg = <<realtime>>]
                    ELSE [pm EXCEPT !.note = TRUE]
    /\ UNCHANGED <<realtime, next_timeout, task, job, clk, pt, alarm>>

ClockDone ==
    /\ task = "clock" /\ ~store /\ ~Due(kt, clk.now)
    /\ next_timeout' = Head0(kt, TMR_NEVER)
    /\ task' = "none"
    /\ clk' = [clk EXCEPT !.now = 0]
    /\ UNCHANGED <<realtime, kt, store, job, pt, pm, alarm>>

-----------------------------------------------------------------------------
(* The calls of set_timer() and reset_timer() that SYSTEM makes.           *)
Reset(tp)     == [op |-> "reset", tp |-> tp, time |-> 0]
Set(tp, time) == [op |-> "set", tp |-> tp, time |-> time]     \* absolute
SetIn(tp, n)  == [op |-> "in", tp |-> tp, time |-> n]         \* from now on

Start(j) ==
    /\ task = "none" /\ task' = "system" /\ job' = j

(* sys_chdeadline(): seconds from now, 0 for none.                         *)
do_chdeadline(p, k) ==
    /\ Start((IF kt.exp[p] > 0 THEN <<Reset(p)>> ELSE <<>>)
                \o (IF k # 0 THEN <<SetIn(p, k * DL_HZ)>> ELSE <<>>))
    /\ UNCHANGED <<realtime, next_timeout, kt, store, clk, pt, pm, alarm>>

(* sys_exit(): clear_proc() turns the deadline off.                        *)
clear_proc(p) ==
    /\ Start(<<Reset(p)>>)
    /\ UNCHANGED <<realtime, next_timeout, kt, store, clk, pt, pm, alarm>>

(* do_chdeadline() reads the time, and stores it in the timer.             *)
SystemUptime ==
    /\ task = "system" /\ ~store /\ job # <<>> /\ job[1].op = "in"
    /\ LET tp   == job[1].tp
           time == Long(job[1].time + realtime)
       IN  /\ kt' = [kt EXCEPT !.exp[tp] = time]
           /\ job' = <<Set(tp, time)>> \o Tail(job)
    /\ UNCHANGED <<realtime, next_timeout, task, store, clk, pt, pm, alarm>>

(* set_timer() or reset_timer() changes the list.                          *)
SystemStep ==
    /\ task = "system" /\ ~store /\ job # <<>> /\ job[1].op # "in"
    /\ LET j == job[1]
           r == tmrs_clrtimer(kt, j.tp)
       IN  kt' = IF j.op = "set" THEN tmrs_settimer(kt, j.tp, j.time)
                 ELSE IF j.tp \in EDF THEN [r EXCEPT !.exp[j.tp] = 0] ELSE r
    /\ store' = TRUE
    /\ job' = Tail(job)
    /\ UNCHANGED <<realtime, next_timeout, task, clk, pt, pm, alarm>>

(* SYSTEM replies; PM goes on when it was PM that called.                  *)
SystemDone ==
    /\ task = "system" /\ ~store /\ job = <<>>
    /\ task' = "none"
    /\ pm' = [pm EXCEPT !.pc = IF @ = "called" THEN "idle" ELSE @]
    /\ UNCHANGED <<realtime, next_timeout, kt, store, job, clk, pt, alarm>>

-----------------------------------------------------------------------------
(* Mutant: PM takes a request although a notification waits.               *)
MutSetAlarm(u, k, iv) ==
    /\ pm.pc = "idle" /\ k > 0
    /\ pm' = [pm EXCEPT !.pc = "set", !.arg = <<realtime, u, k>>]
    /\ alarm' = [alarm EXCEPT ![u].iv = iv]
    /\ UNCHANGED <<realtime, next_timeout, kt, task, store, job, clk, pt>>

(* PM. A user asks for an alarm in k ticks, then every iv ticks. PM is in  *)
(* its main loop and prefers a notification to a request. set_alarm():     *)
(* PM first asks the kernel for the time.                                  *)
set_alarm(u, k, iv) ==
    /\ pm.pc = "idle" /\ ~pm.note /\ k > 0
    /\ pm' = [pm EXCEPT !.pc = "set", !.arg = <<realtime, u, k>>]
    /\ alarm' = [alarm EXCEPT ![u].iv = iv]
    /\ UNCHANGED <<realtime, next_timeout, kt, task, store, job, clk, pt>>

AlarmOff == [on |-> FALSE, iv |-> 0, due |-> 0]

(* The kernel alarm is for the front of the list; 0 turns it off.          *)
Arm(next) == [pm EXCEPT !.pc = "arm", !.arg = <<next>>]
Loop      == [pm EXCEPT !.pc = "idle", !.arg = <<>>]

(* Mutant: it is set for the first timer only.                             *)
MutSooner(prev, next) == prev = 0

(* Whether it has to be set again because a timer came, or went.           *)
Sooner(prev, next) == prev = 0 \/ prev > next
Later(prev, next)  == prev < next \/ next = 0

pm_set_timer ==
    /\ pm.pc = "set"
    /\ LET u    == pm.arg[2]
           time == pm.arg[1] + pm.arg[3]
           l    == tmrs_settimer(pt, u, Long(time))
           next == Head0(l, 0)
       IN  /\ pt' = l
           /\ pm' = IF Sooner(Head0(pt, 0), next) THEN Arm(next) ELSE Loop
           /\ alarm' = [alarm EXCEPT ![u].on = TRUE, ![u].due = time]
    /\ UNCHANGED <<realtime, next_timeout, kt, task, store, job, clk>>

(* set_alarm() with 0 ticks; also when the process exits.                  *)
pm_cancel_timer(u) ==
    /\ pm.pc = "idle" /\ ~pm.note /\ alarm[u].on
    /\ pt' = tmrs_clrtimer(pt, u)
    /\ LET next == Head0(pt', 0)
       IN  pm' = IF Later(Head0(pt, 0), next) THEN Arm(next) ELSE pm
    /\ alarm' = [alarm EXCEPT ![u] = AlarmOff]
    /\ UNCHANGED <<realtime, next_timeout, kt, task, store, job, clk>>

(* sys_setalarm(): do_setalarm() with an absolute time.                    *)
do_setalarm ==
    /\ pm.pc = "arm"
    /\ Start(<<IF pm.arg[1] = 0 THEN Reset(PMAlarm) ELSE Set(PMAlarm, pm.arg[1])>>)
    /\ pm' = [pm EXCEPT !.pc = "called", !.arg = <<>>]
    /\ UNCHANGED <<realtime, next_timeout, kt, store, clk, pt, alarm>>

(* PM takes a notification that waited for it.                             *)
PMReceive ==
    /\ pm.pc = "idle" /\ pm.note
    /\ pm' = [pm EXCEPT !.pc = "expire", !.note = FALSE, !.arg = <<realtime>>]
    /\ UNCHANGED <<realtime, next_timeout, kt, task, store, job, clk, pt, alarm>>

(* pm_expire_timers() calls cause_sigalrm(): a signal, and a new timer if  *)
(* there is an interval, without a look at the kernel alarm (pm_expiring). *)
cause_sigalrm ==
    /\ pm.pc = "expire" /\ Due(pt, pm.arg[1])
    /\ LET u  == pt.q[1]
           iv == alarm[u].iv
       IN  IF alarm[u].on /\ iv > 0
           THEN /\ pt' = tmrs_settimer(Expired(pt), u, Long(realtime + iv))
                /\ alarm' = [alarm EXCEPT ![u].due = realtime + iv]
           ELSE /\ pt' = Expired(pt)
                /\ alarm' = [alarm EXCEPT ![u] = AlarmOff]
    /\ UNCHANGED <<realtime, next_timeout, kt, task, store, job, clk, pm>>

(* The end of pm_expire_timers().                                          *)
pm_expire_timers ==
    /\ pm.pc = "expire" /\ ~Due(pt, pm.arg[1])
    /\ pm' = IF Head0(pt, 0) > 0 THEN Arm(Head0(pt, 0)) ELSE Loop
    /\ UNCHANGED <<realtime, next_timeout, kt, task, store, job, clk, pt, alarm>>

-----------------------------------------------------------------------------
(* init_clock() has set the first timer.                                   *)
Init ==
    /\ realtime = 0 /\ next_timeout = Period
    /\ kt = [q |-> <<Balance>>,
             exp |-> [t \in KT |-> IF t = Balance THEN Period
                                   ELSE IF t = PMAlarm THEN TMR_NEVER ELSE 0]]
    /\ task = "none" /\ store = FALSE /\ job = <<>>
    /\ clk = [note |-> FALSE, now |-> 0]
    /\ pt = [q |-> <<>>, exp |-> [u \in User |-> TMR_NEVER]]
    /\ pm = [pc |-> "idle", note |-> FALSE, arg |-> <<>>]
    /\ alarm = [u \in User |-> AlarmOff]

Clk == ClockReceive \/ ClockExpire \/ ClockDone
Sys == SystemUptime \/ SystemStep \/ SystemDone
PMs == PMReceive \/ pm_set_timer \/ do_setalarm \/ cause_sigalrm \/ pm_expire_timers

Request ==
    \E u \in User :
        \/ \E a \in Alarms[u] : set_alarm(u, a[1], a[2])
        \/ pm_cancel_timer(u)
        \/ u \in EDF /\ \E k \in Deadlines : do_chdeadline(u, k)
        \/ u \in EDF /\ clear_proc(u)

Next ==
    \/ \E n \in 1..(1 + MaxLost) : Tick(n)
    \/ StoreNext \/ Clk \/ Sys \/ PMs \/ Request

Spec == Init /\ [][Next]_vars

(* Interrupts do not stop; tasks, PM and their callers get their turn: the *)
(* queues of TASK_Q and of SYSTEM's callers are first in, first out.       *)
Fair ==
    /\ WF_vars(\E n \in 1..(1 + MaxLost) : Tick(n))
    /\ WF_vars(StoreNext) /\ WF_vars(Sys) /\ WF_vars(Clk) /\ WF_vars(PMs)
    /\ SF_vars(ClockReceive) /\ SF_vars(do_setalarm)

FairSpec == Spec /\ Fair

-----------------------------------------------------------------------------
Jobs == [op : {"reset", "set", "in"}, tp : KT, time : Int]

(* The shapes of the lists, the clock, SYSTEM's work and PM.               *)
TypeOK ==
    /\ realtime \in 0..MaxTime /\ next_timeout \in Time
    /\ kt \in List(KT) /\ pt \in List(User)
    /\ task \in {"none", "clock", "system"} /\ store \in BOOLEAN /\ job \in Seq(Jobs)
    /\ clk \in [note : BOOLEAN, now : 0..MaxTime]
    /\ pm \in [pc : {"idle", "set", "arm", "called", "expire"}, note : BOOLEAN,
               arg : Seq(Int)]
    /\ alarm \in [User -> [on : BOOLEAN, iv : Nat, due : Int]]

(* tmrs_exptimers() looks at the front only: both lists are in the order   *)
(* of expiry and hold no timer twice, also when a deadline has wrapped.    *)
(* do_chdeadline() stores the time in a timer before set_timer() takes it  *)
(* off the list: then the others are in order. PM's list holds the timers  *)
(* of the processes with ALARM_ON, which decides whether set_alarm()       *)
(* cancels.                                                                *)
Setting == task = "system" /\ job # <<>> /\ job[1].op = "set"

TimersOrdered ==
    /\ Ordered(IF Setting THEN tmrs_clrtimer(kt, job[1].tp) ELSE kt)
    /\ Ordered(pt)
    /\ \A u \in User : alarm[u].on <=> Linked(pt.q, u)

(* PM's one kernel alarm covers all its timers: in its main loop, its      *)
(* notification waits or the alarm is set for no later than the first      *)
(* timer. Otherwise that timer would be late, perhaps for ever.            *)
AlarmCovers ==
    pm.pc \in {"idle", "set"} /\ pt.q # <<>> =>
        \/ pm.note
        \/ Linked(kt.q, PMAlarm) /\ kt.exp[PMAlarm] <= pt.exp[pt.q[1]]

(* SIGALRM comes only to a process whose alarm is on, and not before the   *)
(* time it asked for, whatever the kernel alarm did meanwhile.             *)
AlarmNotEarly ==
    [][pm.pc = "expire" /\ pt' # pt =>
          alarm[pt.q[1]].on /\ realtime >= alarm[pt.q[1]].due]_vars

(* An alarm that is due goes off: CLOCK is woken, PM is notified, and      *)
(* cause_sigalrm() is called, unless the alarm is cancelled before.        *)
Overdue(u) == alarm[u].on /\ alarm[u].due <= realtime
AlarmGoesOff == \A u \in User : []<>~Overdue(u)

(* So does a deadline, also one that was over when it was set.             *)
DeadlineOver(u) == Linked(kt.q, u) /\ kt.exp[u] <= realtime
DeadlineGoesOff == \A u \in EDF : []<>~DeadlineOver(u)
=============================================================================

------------------------------- MODULE Sched -------------------------------
(***************************************************************************)
(* The process scheduler of the kernel: every kernel entry that moves a    *)
(* process on or off a run queue, quantum accounting and preemption.  The  *)
(* code is kernel/proc.c, kernel/clock.c and the kernel calls of           *)
(* kernel/system/ that touch scheduling state.                             *)
(*                                                                         *)
(* A trap or an interrupt runs with interrupts disabled up to and through  *)
(* schedcheck(), so each handler is one action that leaves mode "check".   *)
(* The tasks CLOCK and SYSTEM run with interrupts enabled: their handlers  *)
(* are cut where an interrupt can see them half done.  Messages and time   *)
(* are abstracted: a process waits in IPC (the flag RECEIVING stands for   *)
(* SENDING, too) until it is woken, and CLOCK may find a timer due at any  *)
(* notification.                                                           *)
(***************************************************************************)
EXTENDS RunQueues

CONSTANTS
    Server,           \* slots of system processes: not billable
    Booted,           \* user slots in use at the start
    BaseQ,            \* queue of each process in the boot image
    Deadlines,        \* the expiry times a process asks for
    NiceQueues,       \* the queues nice() maps to
    KernelCalls,      \* the kernel calls that are made
    Watchdogs         \* the timers that fall due

User == Slot \ Server

AllCalls == {"nice", "chdeadline", "fork", "exit", "stop", "resume",
             "getksig", "endksig", "vmctl", "vtimer"}

AllWatchdogs == {"balance", "alarm", "deadline"}

ASSUME SchedAssumption ==
    /\ Server \subseteq Slot /\ PM \in Server
    /\ VM \in Server \ {PM} \/ (VM = NR_PROCS /\ "vmctl" \notin KernelCalls)
    /\ Booted \subseteq User
    /\ BaseQ \in [Proc -> Queue]
    /\ \A p, c \in User : Quantum[p] = Quantum[c]  \* inherited by fork
    /\ Deadlines \subseteq 1..(TMR_NEVER - 1)
    /\ NiceQueues \subseteq Queue
    /\ KernelCalls \subseteq AllCalls /\ Watchdogs \subseteq AllWatchdogs

VARIABLES
    ps,         \* the flags, priorities, credits and queues (see RunQueues)
    maxpri,     \* p_max_priority
    armed,      \* processes whose deadline timer is on the clock's list
    vtimer,     \* processes whose profile timer (MF_PROF_TIMER) runs
    bill_ptr,   \* the process charged for system time
    mode,       \* what the CPU is doing (Modes)
    callers,    \* servers with an unanswered kernel call
    req,        \* the kernel call SYSTEM is handling
    sys_pc,     \* how far its handler is
    clk_due,    \* a notification from HARDWARE waits for CLOCK
    clk_pc,     \* how far CLOCK is
    bal         \* the slot balance_queues() looks at next

task_vars == <<callers, req, sys_pc, clk_due, clk_pc, bal>>
proc_vars == <<maxpri, deadline, armed, vtimer>>
vars == <<ps, proc_vars, proc_ptr, bill_ptr, mode, task_vars>>

(* run: proc_ptr executes, interrupts enabled.  halt: idle() waits for an  *)
(* interrupt.  check: in the kernel, schedcheck() comes next.  misc: the   *)
(* chosen process has MF_DELIVERMSG set.  balance: balance_queues() holds  *)
(* the interrupt lock.                                                     *)
Modes == {"run", "halt", "check", "misc", "balance"}
SysPcs == {"receive", "nice_set", "chdeadline_set", "chdeadline_unlock",
           "exit_wake", "reply"} \cup AllCalls
NoRequest == [from |-> PM, op |-> "stop", tgt |-> PM, arg |-> 0]

(* SRV_F, VM_F and RUSR_F of the reincarnation server.                     *)
Billable(p) == p \in User \cup {IDLE}
Isempty(p)  == ps.rts[p] = {"SLOT_FREE"}

(* mini_notify() to a server: one that waits for SYSTEM's answer to a      *)
(* kernel call is not willing to receive the notification.                 *)
notify(k, s) == IF s \in callers THEN k ELSE RTS_UNSET(k, s, {"RECEIVING"})

(* cause_sig(): PM hears of the first signal since it last asked.          *)
cause_sig(k, p) ==
    IF "SIGNALED" \in k.rts[p] THEN k
    ELSE notify(RTS_SET(k, p, {"SIGNALED", "SIG_PENDING"}), PM)

-----------------------------------------------------------------------------
(* Boot has finished: tasks, servers and user processes wait for messages. *)
Init ==
    /\ ps = [rts   |-> [p \in Proc |->
                         CASE p \in {IDLE, HARDWARE} -> {"PROC_STOP"}
                           [] p \in User \ Booted    -> {"SLOT_FREE"}
                           [] OTHER                  -> {"RECEIVING"}],
             pri   |-> BaseQ,
             ticks |-> Quantum,
             rdy   |-> [q \in Queue |-> <<>>]]
    /\ maxpri = BaseQ
    /\ deadline = [p \in Proc |-> 0]
    /\ armed = {}
    /\ vtimer = {}
    /\ proc_ptr = IDLE /\ bill_ptr = IDLE
    /\ mode = "check"
    /\ callers = {}
    /\ req = NoRequest
    /\ sys_pc = "receive"
    /\ clk_due = FALSE /\ clk_pc = "receive"
    /\ bal = 0

-----------------------------------------------------------------------------
(* schedcheck().                                                           *)

(* The chosen process runs, after its message is delivered if one waits.   *)
(* Delivery to a server is not seen apart: PM, VFS, RS and VM have no      *)
(* pages that VM manages.                                                  *)
Chosen(p) == IF p \in User /\ "vmctl" \in KernelCalls THEN {"run", "misc"}
                                                       ELSE {"run"}

StillRunnable ==
    /\ mode = "check" /\ Runnable(ps, proc_ptr)
    /\ mode' \in Chosen(proc_ptr)
    /\ UNCHANGED <<ps, proc_vars, proc_ptr, bill_ptr, task_vars>>

PickNew ==
    /\ mode = "check" /\ ~Runnable(ps, proc_ptr)
    /\ ps' = SetAside(ps)
    /\ \/ /\ proc_ptr' \in Picks(ps')
          /\ bill_ptr' = IF Billable(proc_ptr') THEN proc_ptr' ELSE bill_ptr
          /\ mode' \in Chosen(proc_ptr')
       \/ /\ Picks(ps') = {}
          /\ proc_ptr' = IDLE /\ bill_ptr' = IDLE
          /\ mode' = "halt"
    /\ UNCHANGED <<proc_vars, task_vars>>

DeliverMsg ==
    /\ mode = "misc"
    /\ mode' = "run"
    /\ UNCHANGED <<ps, proc_vars, proc_ptr, bill_ptr, task_vars>>

(* Mutant: the process is not looked at again after the delivery.          *)
MutDeliverNoRecheck ==
    /\ mode = "misc"
    /\ ps' = notify(RTS_SET(ps, proc_ptr, {"VMREQUEST"}), VM)
    /\ mode' = "run"
    /\ UNCHANGED <<proc_vars, proc_ptr, bill_ptr, task_vars>>

(* delivermsg() meets a page that VM has to bring in: VMSUSPEND.  VM is    *)
(* notified when no other request waits for it.                            *)
DeliverSuspend ==
    /\ mode = "misc"
    /\ LET s == RTS_SET(ps, proc_ptr, {"VMREQUEST"})
       IN  ps' \in {s, notify(s, VM)}
    /\ mode' = "check"
    /\ UNCHANGED <<proc_vars, proc_ptr, bill_ptr, task_vars>>

-----------------------------------------------------------------------------
(* Interrupts and traps.                                                   *)

Interruptible == mode \in {"run", "halt"}

(* One tick less of a signed char.                                         *)
Decrement(n) == IF n = -CHAR_MAX - 1 THEN CHAR_MAX ELSE n - 1

(* The tick is charged to the running process and, when it is not          *)
(* billable, to the billed one as well.  IDLE's credit is left out: it is  *)
(* never read, as IDLE never enters a queue.                               *)
Charge(k) ==
    LET own  == IF Preemptible(proc_ptr)
                THEN [k EXCEPT !.ticks[proc_ptr] = Decrement(@)] ELSE k
    IN  IF Billable(proc_ptr) \/ bill_ptr = IDLE THEN own
        ELSE [own EXCEPT !.ticks[bill_ptr] = Decrement(@)]

QuantumUsed(k) ==
    IF Runnable(k, proc_ptr) /\ k.ticks[proc_ptr] <= 0 /\ Preemptible(proc_ptr)
    THEN RTS_SET(k, proc_ptr, {"NO_QUANTUM"}) ELSE k

(* bsp_timer_int_handler().  exp: the profile timer of the billed process  *)
(* runs out; due: next_timeout has come, and CLOCK is notified.            *)
TimerInt(exp, due) ==
    /\ Interruptible
    /\ exp => bill_ptr \in vtimer
    /\ vtimer' = IF exp THEN vtimer \ {bill_ptr} ELSE vtimer
    /\ LET c == Charge(ps)
           v == IF exp THEN cause_sig(c, bill_ptr) ELSE c
           n == QuantumUsed(v)
       IN  ps' = IF due THEN RTS_UNSET(n, CLOCK, {"RECEIVING"}) ELSE n
    /\ clk_due' = (clk_due \/ due)
    /\ mode' = "check"
    /\ UNCHANGED <<maxpri, deadline, armed, proc_ptr, bill_ptr, callers, req,
                   sys_pc, clk_pc, bal>>

(* A process that waits for a message from whoever sends one.              *)
Wakeable(p) == p \in Slot \ callers /\ "RECEIVING" \in ps.rts[p]

(* A device interrupt notifies its driver.                                 *)
DeviceInt(p) ==
    /\ Interruptible /\ p \in Server /\ Wakeable(p)
    /\ ps' = RTS_UNSET(ps, p, {"RECEIVING"})
    /\ mode' = "check"
    /\ UNCHANGED <<proc_vars, proc_ptr, bill_ptr, task_vars>>

(* sys_call(): the caller may wake another process (SEND, NOTIFY), and may *)
(* block (a SEND that is not received, RECEIVE); SENDREC does both.        *)
SysCallWake(p) ==
    /\ mode = "run" /\ proc_ptr \in Slot /\ Wakeable(p)
    /\ ps' = RTS_UNSET(ps, p, {"RECEIVING"})
    /\ mode' = "check"
    /\ UNCHANGED <<proc_vars, proc_ptr, bill_ptr, task_vars>>

SysCallBlock ==
    /\ mode = "run" /\ proc_ptr \in Slot
    /\ ps' = RTS_SET(ps, proc_ptr, {"RECEIVING"})
    /\ mode' = "check"
    /\ UNCHANGED <<proc_vars, proc_ptr, bill_ptr, task_vars>>

SysCallSendrec(p) ==
    /\ mode = "run" /\ proc_ptr \in Slot /\ Wakeable(p)
    /\ ps' = RTS_SET(RTS_UNSET(ps, p, {"RECEIVING"}), proc_ptr, {"RECEIVING"})
    /\ mode' = "check"
    /\ UNCHANGED <<proc_vars, proc_ptr, bill_ptr, task_vars>>

(* The kernel calls a server makes: VM controls memory, PM processes.      *)
CallsOf(s) == KernelCalls \cap (IF s = VM THEN {"vmctl"} ELSE
                                IF s = PM THEN AllCalls \ {"vmctl"} ELSE {})

(* A server asks SYSTEM for a kernel call: SENDREC to a task.              *)
TaskCall ==
    /\ mode = "run" /\ proc_ptr \in Server /\ CallsOf(proc_ptr) # {}
    /\ ps' = RTS_SET(RTS_UNSET(ps, SYSTEM, {"RECEIVING"}), proc_ptr, {"RECEIVING"})
    /\ callers' = callers \cup {proc_ptr}
    /\ mode' = "check"
    /\ UNCHANGED <<proc_vars, proc_ptr, bill_ptr, req, sys_pc, clk_due, clk_pc, bal>>

-----------------------------------------------------------------------------
(* The SYSTEM task.  sys_task() takes a request, runs its handler and      *)
(* replies; between two steps of it interrupts may be served.              *)

InSystem(pc) == mode = "run" /\ proc_ptr = SYSTEM /\ sys_pc = pc

SysWait ==
    /\ InSystem("receive") /\ callers = {}
    /\ ps' = RTS_SET(ps, SYSTEM, {"RECEIVING"})
    /\ mode' = "check"
    /\ UNCHANGED <<proc_vars, proc_ptr, bill_ptr, task_vars>>

Args(op) == CASE op = "nice"       -> NiceQueues
              [] op = "chdeadline" -> Deadlines \cup {0}
              [] op = "fork"       -> User
              [] op \in {"vtimer", "vmctl"} -> {0, 1}
              [] OTHER             -> {0}

(* A call about a process that is gone fails with EINVAL.  do_chdeadline() *)
(* does not check, but PM makes it for a living process, its caller.       *)
SysReceive(r) ==
    /\ InSystem("receive") /\ r.from \in callers
    /\ r.op = "chdeadline" => ~Isempty(r.tgt)
    /\ req' = r
    /\ sys_pc' = IF Isempty(r.tgt) THEN "reply" ELSE r.op
    /\ UNCHANGED <<ps, proc_vars, proc_ptr, bill_ptr, mode, callers, clk_due,
                   clk_pc, bal>>

SysReply ==
    /\ InSystem("reply")
    /\ ps' = RTS_UNSET(ps, req.from, {"RECEIVING"})
    /\ callers' = callers \ {req.from}
    /\ req' = NoRequest /\ sys_pc' = "receive"
    /\ UNCHANGED <<proc_vars, proc_ptr, bill_ptr, mode, clk_due, clk_pc, bal>>

(* One step of a handler: ps becomes k and the handler goes on at pc.      *)
SysStep(k, pc) ==
    /\ ps' = k
    /\ sys_pc' = pc
    /\ UNCHANGED <<proc_ptr, bill_ptr, mode, callers, req, clk_due, clk_pc, bal>>

(* Mutant: the process stays on its queue.                                 *)
MutNoSysLock ==
    /\ InSystem("nice") \/ InSystem("chdeadline")
    /\ SysStep(ps, IF sys_pc = "nice" THEN "nice_set" ELSE "chdeadline_set")
    /\ UNCHANGED proc_vars

(* do_nice(), do_chdeadline(): the process is off its queue while they     *)
(* change what decides its queue.                                          *)
SysLock ==
    /\ InSystem("nice") \/ InSystem("chdeadline")
    /\ SysStep(RTS_SET(ps, req.tgt, {"SYS_LOCK"}),
               IF sys_pc = "nice" THEN "nice_set" ELSE "chdeadline_set")
    /\ UNCHANGED proc_vars

NiceSet ==
    /\ InSystem("nice_set")
    /\ maxpri' = [maxpri EXCEPT ![req.tgt] = req.arg]
    /\ SysStep(RTS_UNSET([ps EXCEPT !.pri[req.tgt] = req.arg], req.tgt,
                         {"SYS_LOCK"}), "reply")
    /\ UNCHANGED <<deadline, armed, vtimer>>

ChdeadlineSet ==
    /\ InSystem("chdeadline_set")
    /\ deadline' = [deadline EXCEPT ![req.tgt] =
                      IF req.arg # 0 THEN req.arg ELSE IF @ > 0 THEN 0 ELSE @]
    /\ armed' = IF req.arg # 0 THEN armed \cup {req.tgt}
                ELSE IF deadline[req.tgt] > 0 THEN armed \ {req.tgt} ELSE armed
    /\ SysStep(ps, "chdeadline_unlock")
    /\ UNCHANGED <<maxpri, vtimer>>

ChdeadlineUnlock ==
    /\ InSystem("chdeadline_unlock")
    /\ SysStep(RTS_UNSET(ps, req.tgt, {"SYS_LOCK"}), "reply")
    /\ UNCHANGED proc_vars

(* Integer division in C rounds towards zero.                              *)
Half(n) == IF n >= 0 THEN n \div 2 ELSE -((-n) \div 2)

(* Mutant: the child's flags are cleared without putting it on a queue.    *)
MutForkReady ==
    LET pa == req.tgt  ch == req.arg IN
    /\ InSystem("fork") /\ Isempty(ch)
    /\ SysStep([ps EXCEPT !.rts[ch] = {}, !.pri[ch] = ps.pri[pa]], "reply")
    /\ UNCHANGED proc_vars

(* do_fork(): the child is a copy of the parent, deadline included, and    *)
(* waits for VM to give it a page table.                                   *)
Fork ==
    LET pa == req.tgt  ch == req.arg IN
    /\ InSystem("fork")
    /\ \/ /\ ~Isempty(ch) \/ "RECEIVING" \notin ps.rts[pa]
          /\ SysStep(ps, "reply")
          /\ UNCHANGED proc_vars
       \/ /\ Isempty(ch) /\ "RECEIVING" \in ps.rts[pa]
          /\ SysStep([ps EXCEPT
                !.rts[ch] = (ps.rts[pa] \cup {"VMINHIBIT"})
                              \ {"SIGNALED", "SIG_PENDING"},
                !.pri[ch] = ps.pri[pa],
                !.ticks = [ps.ticks EXCEPT ![ch] = Half(ps.ticks[pa] + 1),
                                           ![pa] = Half(@)]], "reply")
          /\ maxpri' = [maxpri EXCEPT ![ch] = maxpri[pa]]
          /\ deadline' = [deadline EXCEPT ![ch] = deadline[pa]]
          /\ vtimer' = vtimer \ {ch}
          /\ UNCHANGED armed

(* do_exit(), clear_proc(), clear_endpoint(): the process loses its        *)
(* endpoint, whoever waited for it is woken, and the slot becomes free.    *)
Exit ==
    /\ InSystem("exit")
    /\ SysStep([RTS_SET(ps, req.tgt, {"NO_ENDPOINT"})
                  EXCEPT !.rts[req.tgt] = @ \ {"RECEIVING"}], "exit_wake")
    /\ UNCHANGED proc_vars

ExitWake(p) ==
    /\ InSystem("exit_wake") /\ Wakeable(p)
    /\ SysStep(RTS_UNSET(ps, p, {"RECEIVING"}), "exit_wake")
    /\ UNCHANGED proc_vars

ExitFree ==
    /\ InSystem("exit_wake")
    /\ deadline' = [deadline EXCEPT ![req.tgt] = 0]
    /\ armed' = armed \ {req.tgt}
    /\ SysStep(RTS_SETFLAGS(ps, req.tgt, {"SLOT_FREE"}), "reply")
    /\ UNCHANGED <<maxpri, vtimer>>

(* do_runctl() without RC_DELAY.                                           *)
Runctl ==
    /\ InSystem("stop") \/ InSystem("resume")
    /\ SysStep(IF sys_pc = "stop" THEN RTS_SET(ps, req.tgt, {"PROC_STOP"})
                                  ELSE RTS_UNSET(ps, req.tgt, {"PROC_STOP"}),
               "reply")
    /\ UNCHANGED proc_vars

(* do_getksig() finds the first signalled process.                         *)
Getksig ==
    /\ InSystem("getksig")
    /\ LET S == {p \in Slot : "SIGNALED" \in ps.rts[p]}
       IN  SysStep(IF S = {} THEN ps
                   ELSE RTS_UNSET(ps, CHOOSE p \in S : \A r \in S : p <= r,
                                  {"SIGNALED"}), "reply")
    /\ UNCHANGED proc_vars

Endksig ==
    /\ InSystem("endksig")
    /\ SysStep(IF "SIG_PENDING" \in ps.rts[req.tgt]
                  /\ "SIGNALED" \notin ps.rts[req.tgt]
               THEN RTS_UNSET(ps, req.tgt, {"SIG_PENDING"}) ELSE ps, "reply")
    /\ UNCHANGED proc_vars

(* VM has set the page table, or has brought in the page it was asked for. *)
Vmctl ==
    /\ InSystem("vmctl")
    /\ SysStep(RTS_UNSET(ps, req.tgt, IF req.arg = 0 THEN {"VMINHIBIT"}
                                                     ELSE {"VMREQUEST"}), "reply")
    /\ UNCHANGED proc_vars

Vtimer ==
    /\ InSystem("vtimer")
    /\ vtimer' = IF req.arg = 1 THEN vtimer \cup {req.tgt} ELSE vtimer \ {req.tgt}
    /\ SysStep(ps, "reply")
    /\ UNCHANGED <<maxpri, deadline, armed>>

-----------------------------------------------------------------------------
(* The CLOCK task: clock_task() runs the watchdogs of the timers that are  *)
(* due, then waits for the next notification.                              *)

InClock(pc) == mode = "run" /\ proc_ptr = CLOCK /\ clk_pc = pc

ClockReceive ==
    /\ InClock("receive")
    /\ \/ /\ clk_due
          /\ clk_due' = FALSE /\ clk_pc' = "expire"
          /\ UNCHANGED <<ps, mode>>
       \/ /\ ~clk_due
          /\ ps' = RTS_SET(ps, CLOCK, {"RECEIVING"})
          /\ mode' = "check"
          /\ UNCHANGED <<clk_due, clk_pc>>
    /\ UNCHANGED <<proc_vars, proc_ptr, bill_ptr, callers, req, sys_pc, bal>>

ClockDone ==
    /\ InClock("expire")
    /\ clk_pc' = "receive"
    /\ UNCHANGED <<ps, proc_vars, proc_ptr, bill_ptr, mode, callers, req, sys_pc,
                   clk_due, bal>>

(* The deadline of p passes: tmrs_exptimers() unlinks the timer and calls  *)
(* reach_deadline().                                                       *)
ReachDeadline(p) ==
    /\ InClock("expire") /\ "deadline" \in Watchdogs /\ p \in armed
    /\ \A r \in armed : deadline[p] <= deadline[r]
    /\ deadline' = [deadline EXCEPT ![p] = TMR_NEVER]
    /\ armed' = armed \ {p}
    /\ ps' = cause_sig(ps, p)
    /\ UNCHANGED <<maxpri, vtimer, proc_ptr, bill_ptr, mode, task_vars>>

(* cause_alarm(): the synchronous alarm of a server.                       *)
CauseAlarm(s) ==
    /\ InClock("expire") /\ "alarm" \in Watchdogs /\ s \in Server
    /\ ps' = notify(ps, s)
    /\ UNCHANGED <<proc_vars, proc_ptr, bill_ptr, mode, task_vars>>

(* balance_queues() goes through the process table with interrupts locked, *)
(* one slot a step.  For the tasks the loop body changes nothing: they     *)
(* stay in queue 0 and are never charged.                                  *)
BalanceQueues ==
    /\ InClock("expire") /\ "balance" \in Watchdogs
    /\ mode' = "balance" /\ bal' = 0
    /\ UNCHANGED <<ps, proc_vars, proc_ptr, bill_ptr, callers, req, sys_pc,
                   clk_due, clk_pc>>

(* Mutant: the priority changes while the process is on its queue.         *)
MutBalancedInPlace(k, p) ==
    IF k.pri[p] > maxpri[p] THEN [k EXCEPT !.pri[p] = @ - 1]
    ELSE [k EXCEPT !.ticks[p] = Quantum[p]]

(* A process below its best queue moves one up, the others get a new       *)
(* quantum.                                                                *)
Balanced(k, p) ==
    IF k.pri[p] > maxpri[p]
    THEN LET d == IF Runnable(k, p) THEN dequeue(k, p) ELSE k
             u == [d EXCEPT !.pri[p] = @ - 1]
         IN  IF Runnable(k, p) THEN enqueue(u, p) ELSE u
    ELSE [k EXCEPT !.ticks[p] = Quantum[p]]

BalanceSlot ==
    /\ mode = "balance" /\ bal < NR_PROCS
    /\ ps' = IF Isempty(bal) THEN ps ELSE Balanced(ps, bal)
    /\ bal' = bal + 1
    /\ UNCHANGED <<proc_vars, proc_ptr, bill_ptr, mode, callers, req, sys_pc,
                   clk_due, clk_pc>>

BalanceEnd ==
    /\ mode = "balance" /\ bal = NR_PROCS
    /\ mode' = "run" /\ bal' = 0
    /\ UNCHANGED <<ps, proc_vars, proc_ptr, bill_ptr, callers, req, sys_pc,
                   clk_due, clk_pc>>

-----------------------------------------------------------------------------
Schedcheck == StillRunnable \/ PickNew \/ DeliverMsg \/ DeliverSuspend

Requests == {r \in [from : Server, op : KernelCalls, tgt : User,
                    arg : UNION {Args(op) : op \in KernelCalls}] :
               r.op \in CallsOf(r.from) /\ r.arg \in Args(r.op)}

SystemTask ==
    \/ SysWait \/ SysReply \/ SysLock \/ NiceSet \/ ChdeadlineSet
    \/ ChdeadlineUnlock \/ Fork \/ Exit \/ ExitFree \/ Runctl \/ Getksig
    \/ Endksig \/ Vmctl \/ Vtimer
    \/ \E r \in Requests : SysReceive(r)
    \/ \E p \in Slot : ExitWake(p)

ClockTask ==
    \/ ClockReceive \/ ClockDone \/ BalanceQueues \/ BalanceSlot \/ BalanceEnd
    \/ \E p \in User : ReachDeadline(p)
    \/ \E s \in Server : CauseAlarm(s)

SysCall ==
    \/ SysCallBlock \/ TaskCall
    \/ \E p \in Slot : SysCallWake(p) \/ SysCallSendrec(p)

Next ==
    \/ Schedcheck \/ SystemTask \/ ClockTask \/ SysCall
    \/ \E exp, due \in BOOLEAN : TimerInt(exp, due)
    \/ \E p \in Server : DeviceInt(p)

Spec == Init /\ [][Next]_vars

-----------------------------------------------------------------------------
(* Every variable stays in its type; in particular a priority is always a  *)
(* valid index of rdy_head[] and p_ticks_left fits its char.               *)
TypeOK ==
    /\ ps \in PsType
    /\ maxpri \in [Proc -> Queue]
    /\ deadline \in [Proc -> 0..TMR_NEVER]
    /\ armed \subseteq User /\ vtimer \subseteq User
    /\ proc_ptr \in Proc /\ bill_ptr \in Proc
    /\ mode \in Modes
    /\ callers \subseteq Server
    /\ req \in [from : Server, op : AllCalls, tgt : Slot, arg : Int]
    /\ sys_pc \in SysPcs
    /\ clk_due \in BOOLEAN /\ clk_pc \in {"receive", "expire"}
    /\ bal \in 0..NR_PROCS

(* What check_runqueues() of debug.c tests: a process is on the queue of   *)
(* its priority exactly when no runtime flag is set, once, and on no other *)
(* queue, whatever handlers ran before.                                    *)
RunQueuesOK == OnQueues(ps)

(* The flags that set a process aside are only on the process that is      *)
(* being switched out, and schedcheck() removes them before another        *)
(* process runs: none is left behind to block a process for good.          *)
SetAsideOnlyCurrent ==
    \A p \in Proc : ps.rts[p] \cap {"PREEMPTED", "NO_QUANTUM"} # {} =>
                        p = proc_ptr /\ mode = "check"

(* The CPU only ever executes a runnable process, and a running billable   *)
(* process pays for itself: bill_ptr never charges a process for the user  *)
(* time of another.                                                        *)
CurrentRuns ==
    mode \in {"run", "misc", "balance"} =>
        /\ Runnable(ps, proc_ptr)
        /\ Billable(proc_ptr) => bill_ptr = proc_ptr

(* enqueue() preempts: while a preemptible process executes, no runnable   *)
(* process waits in a higher queue (under the lottery, in a higher queue   *)
(* of those that do not take part in it).                                  *)
PriorityRespected ==
    mode = "run" /\ Preemptible(proc_ptr) =>
        \A p \in Proc : Runnable(ps, p) /\ ps.pri[p] < ps.pri[proc_ptr] =>
                            SchedType = 1 /\ ps.pri[p] >= LOTTERY_Q

(* A runnable process with a deadline is in the deadline queue: nothing,   *)
(* not balance_queues(), nice() or a used up quantum, moves it out.        *)
DeadlineQueue ==
    \A p \in Proc : Runnable(ps, p) /\ deadline[p] > 0 => ps.pri[p] = DEADLINE_Q

(* CLOCK and SYSTEM keep the CPU until they wait for a message again: the  *)
(* handlers of one never see those of the other half done, which is why    *)
(* they share the timer list and the process table without locking.        *)
TasksRunToCompletion ==
    [][/\ proc_ptr = SYSTEM /\ proc_ptr' # SYSTEM => sys_pc = "receive" /\ callers = {}
       /\ proc_ptr = CLOCK  /\ proc_ptr' # CLOCK  => clk_pc = "receive"
    ]_vars

(* EDF: when schedcheck() picks a process below the system queues, no      *)
(* runnable process, in whatever queue, has an earlier deadline.           *)
EarliestDeadlinePicked ==
    [][mode = "check" /\ ~Runnable(ps, proc_ptr) /\ proc_ptr' # IDLE =>
         \/ SchedType # 2 \/ ps'.pri[proc_ptr'] < DEADLINE_Q
         \/ \A p \in Proc : Runnable(ps', p) /\ deadline[p] > 0 =>
                deadline[proc_ptr'] > 0 /\ deadline[proc_ptr'] <= deadline[p]
    ]_vars

-----------------------------------------------------------------------------
(* What the documentation and the assertions say and the code does not do. *)

(* README.md: the execution follows "the principle that earliest deadline  *)
(* first".  While a process with a deadline runs, no runnable process has  *)
(* an earlier one.                                                         *)
EarliestDeadlineRuns ==
    mode = "run" /\ proc_ptr \in User /\ deadline[proc_ptr] > 0 =>
        \A p \in Proc : Runnable(ps, p) /\ deadline[p] > 0 =>
                            deadline[proc_ptr] <= deadline[p]

(* README.md: a process that misses its deadline "will be killed".  For    *)
(* that a process with a deadline needs a timer on the clock's list.       *)
DeadlineHasTimer ==
    \A p \in User : deadline[p] > 0 /\ deadline[p] < TMR_NEVER => p \in armed

(* do_exit.c: clearing a slot "cancels outstanding timers", so that a free *)
(* slot carries no flag but SLOT_FREE and can be used by the next fork.    *)
FreeSlotIsEmpty ==
    \A p \in Slot : "SLOT_FREE" \in ps.rts[p] => ps.rts[p] = {"SLOT_FREE"}

-----------------------------------------------------------------------------
(* Fairness.  The kernel and the tasks make progress between interrupts,   *)
(* and CLOCK runs out of timers that are due.  A server returns to its     *)
(* receive.  Clock interrupts go on and are not in step with the           *)
(* processes: one that runs again and again is hit by a tick again and     *)
(* again.                                                                  *)
Fairness ==
    /\ WF_vars(Schedcheck)
    /\ SF_vars(SystemTask)
    /\ SF_vars(ClockReceive) /\ SF_vars(ClockReceive /\ ~clk_due)
    /\ SF_vars(ClockDone) /\ SF_vars(ClockDone /\ ~clk_due)
    /\ WF_vars(BalanceSlot \/ BalanceEnd)
    /\ \A s \in Server : SF_vars(SysCallBlock /\ proc_ptr = s)
    /\ \A u \in User : SF_vars(proc_ptr = u /\ \E exp, due \in BOOLEAN :
                                                    TimerInt(exp, due))

(* Ticks of system time are charged to bill_ptr.  So many of them between  *)
(* two ticks of its own that p_ticks_left comes to the low end of its char *)
(* would let the next tick wrap it to a full quantum.                      *)
BillingBounded ==
    \A p \in User : p # proc_ptr => ps'.ticks[p] # -CHAR_MAX - 1

(* The scheduler under these assumptions.                                  *)
FairSpec == Init /\ [][Next /\ BillingBounded]_vars /\ Fairness

(* Round robin does not starve: with the default scheduler and equal best  *)
(* queues, a runnable process runs, or stops being runnable.               *)
NoStarvation ==
    \A u \in User : [](Runnable(ps, u) => <>(proc_ptr = u \/ ~Runnable(ps, u)))
=============================================================================

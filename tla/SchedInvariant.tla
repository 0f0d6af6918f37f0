--------------------------- MODULE SchedInvariant ---------------------------
(***************************************************************************)
(* The inductive invariant of Sched, and that schedcheck(), interrupts,    *)
(* traps and SYSTEM's message loop preserve it.  The handlers are          *)
(* compositions of the run queue primitives, so most steps follow from     *)
(* RunQueueProofs.                                                         *)
(***************************************************************************)
EXTENDS Sched, RunQueueProofs

(* The constants of Sched.                                                 *)
LEMMA ConstantTypes ==
    /\ NR_PROCS \in Nat /\ NR_PROCS > 0 /\ NR_SCHED_QUEUES \in Nat /\ NR_SCHED_QUEUES > 0
    /\ CHAR_MAX \in Nat /\ CHAR_MAX > 0 /\ TMR_NEVER \in Nat
    /\ {IDLE, CLOCK, SYSTEM, HARDWARE, PM} \subseteq Proc
    /\ Slot \subseteq Proc /\ User \subseteq Slot /\ Server \subseteq Slot
    /\ PM \in Server
    /\ Proc \subseteq Int /\ Queue \subseteq Nat
    /\ LOTTERY_Q \in Queue /\ DEADLINE_Q \in Queue
    /\ BaseQ \in [Proc -> Queue] /\ Quantum \in [Proc -> 0..CHAR_MAX]
<1>1. PM \in Server /\ Server \subseteq Slot /\ User \subseteq Slot
      /\ BaseQ \in [Proc -> Queue]
  BY SchedAssumption DEF User
<1> QED BY <1>1, QueueConstants

(* notify() wakes a server that waits for anybody.                         *)
LEMMA NotifyGood ==
    ASSUME NEW k, Good(k, proc_ptr, deadline), ReadsOK, NEW s \in Server,
           s # proc_ptr \/ Runnable(k, s)
    PROVE  /\ Good(notify(k, s), proc_ptr, deadline)
           /\ TaskFlags(k, notify(k, s), {})
           /\ Keeps(k, notify(k, s), {"RECEIVING"})
<1>1. s \in Proc /\ s >= 0 /\ s \in Int
  BY ConstantTypes DEF Slot
<1>2. CASE s \in callers
  BY <1>2 DEF notify, TaskFlags, Keeps
<1>3. CASE s \notin callers
  <2>1. notify(k, s) = RTS_UNSET(k, s, {"RECEIVING"})
    BY <1>3 DEF notify
  <2> DEFINE e == RTS_UNSET(k, s, {"RECEIVING"})
  <2>2. /\ Good(e, proc_ptr, deadline) /\ TaskFlags(k, e, {s})
        /\ Keeps(k, e, {"RECEIVING"})
    BY <1>1, RtsUnsetGood
  <2> HIDE DEF e
  <2>3. \A r \in Proc : r < 0 => r # s
    BY <1>1
  <2>4. TaskFlags(k, e, {})
    BY <2>2, <2>3, Zenon DEF TaskFlags
  <2> QED BY <2>1, <2>2, <2>4 DEF e
<1> QED BY <1>2, <1>3

(* cause_sig() blocks the process and notifies PM.                         *)
LEMMA CauseSigGood ==
    ASSUME NEW k, Good(k, proc_ptr, deadline), ReadsOK, NEW p \in User,
           PM # proc_ptr \/ Runnable(k, PM)
    PROVE  /\ Good(cause_sig(k, p), proc_ptr, deadline)
           /\ TaskFlags(k, cause_sig(k, p), {})
           /\ Keeps(k, cause_sig(k, p), {"RECEIVING"})
           /\ "SIGNALED" \in cause_sig(k, p).rts[p]
<1>1. p \in Proc /\ p >= 0 /\ PM \in Server /\ PM # p /\ PM \in Proc
  BY ConstantTypes, QueueAssumption, SchedAssumption DEF Slot, User
<1>2. CASE "SIGNALED" \in k.rts[p]
  BY <1>2 DEF cause_sig, TaskFlags, Keeps
<1>3. CASE "SIGNALED" \notin k.rts[p]
  <2> DEFINE f == {"SIGNALED", "SIG_PENDING"}
             e == RTS_SET(k, p, f)
  <2>1. cause_sig(k, p) = notify(e, PM)
    BY <1>3 DEF cause_sig
  <2>2. f \in SUBSET RtsFlags /\ f # {} /\ f \cap {"PREEMPTED", "NO_QUANTUM"} = {}
    BY DEF RtsFlags
  <2> HIDE DEF f
  <2>3. Good(e, proc_ptr, deadline)
    BY <1>1, <2>2, RtsSetGood DEF ReadsOK
  <2>4. e.rts = [k.rts EXCEPT ![p] = @ \cup f] /\ k.rts \in [Proc -> SUBSET RtsFlags]
    <3>1. KInv(k)
      BY DEF Good
    <3>2. k.rts \in [Proc -> SUBSET RtsFlags]
      BY <3>1 DEF KInv, PsType
    <3>3. e.rts = [k.rts EXCEPT ![p] = @ \cup f]
      BY <1>1, <2>2, <3>1, RtsSet
    <3> QED BY <3>2, <3>3
  <2> HIDE DEF e
  <2>5. PM # proc_ptr \/ Runnable(e, PM)
    BY <1>1, <2>4 DEF Runnable
  <2>6. /\ Good(notify(e, PM), proc_ptr, deadline)
        /\ TaskFlags(e, notify(e, PM), {})
        /\ Keeps(e, notify(e, PM), {"RECEIVING"})
    BY <1>1, <2>3, <2>5, NotifyGood
  <2>7. TaskFlags(k, notify(e, PM), {})
    BY <1>1, <2>4, <2>6, ConstantTypes DEF TaskFlags
  <2>8. Keeps(k, notify(e, PM), {"RECEIVING"})
    BY <1>1, <2>4, <2>6 DEF Keeps
  <2>9. "SIGNALED" \in notify(e, PM).rts[p]
    <3>1. "SIGNALED" \in e.rts[p]
      BY <1>1, <2>4 DEF f
    <3> QED BY <1>1, <2>6, <3>1 DEF Keeps
  <2> QED BY <2>1, <2>6, <2>7, <2>8, <2>9
<1> QED BY <1>2, <1>3

(* The tick is charged to the credits.                                     *)
LEMMA ChargeGood ==
    ASSUME NEW k, NEW d, Good(k, proc_ptr, d), proc_ptr \in Proc, bill_ptr \in Proc
    PROVE  Good(Charge(k), proc_ptr, d) /\ Charge(k).rts = k.rts
<1>1. \A n \in Ticks : Decrement(n) \in Ticks
  BY QueueAssumption, SchedAssumption DEF Ticks, Decrement
<1> DEFINE dec(j, p) == [j EXCEPT !.ticks[p] = Decrement(@)]
<1>2. ASSUME NEW j, Good(j, proc_ptr, d), NEW p \in Proc
      PROVE  Good(dec(j, p), proc_ptr, d) /\ dec(j, p).rts = j.rts
  <2>1. j.ticks \in [Proc -> Ticks]
    BY <1>2 DEF Good, KInv, PsType
  <2> DEFINE t == [j.ticks EXCEPT ![p] = Decrement(j.ticks[p])]
  <2>2. t \in [Proc -> Ticks]
    BY <1>1, <2>1
  <2>3. dec(j, p) = [j EXCEPT !.ticks = t]
    OBVIOUS
  <2> HIDE DEF t, dec
  <2> QED BY <1>2, <2>2, <2>3, TicksGood
<1> DEFINE own == IF Preemptible(proc_ptr) THEN dec(k, proc_ptr) ELSE k
<1>3. Charge(k) = IF Billable(proc_ptr) \/ bill_ptr = IDLE THEN own ELSE dec(own, bill_ptr)
  BY DEF Charge
<1> HIDE DEF dec
<1>4. Good(own, proc_ptr, d) /\ own.rts = k.rts
  BY <1>2
<1> HIDE DEF own
<1> QED BY <1>2, <1>3, <1>4

(* A process that used up its quantum is set aside.                        *)
LEMMA QuantumUsedGood ==
    ASSUME NEW k, NEW d, Good(k, proc_ptr, d), proc_ptr \in Proc
    PROVE  /\ Good(QuantumUsed(k), proc_ptr, d)
           /\ TaskFlags(k, QuantumUsed(k), {})
           /\ Keeps(k, QuantumUsed(k), {})
<1> DEFINE f == {"NO_QUANTUM"}
           e == RTS_SET(k, proc_ptr, f)
<1>1. CASE Preemptible(proc_ptr)
  <2>1. f \in SUBSET RtsFlags /\ f # {}
    BY DEF RtsFlags
  <2>2. KInv(k) /\ k.rts \in [Proc -> SUBSET RtsFlags]
    BY DEF Good, KInv, PsType
  <2> HIDE DEF f
  <2>3. Good(e, proc_ptr, d) /\ e.rts = [k.rts EXCEPT ![proc_ptr] = @ \cup f]
    BY <1>1, <2>1, <2>2, RtsSetGood, RtsSet
  <2>4. QuantumUsed(k) \in {k, e}
    BY DEF QuantumUsed, f
  <2> HIDE DEF e
  <2>5. TaskFlags(k, e, {}) /\ TaskFlags(k, k, {})
    BY <1>1, <2>2, <2>3, ConstantTypes, TasksNotPreemptible DEF TaskFlags
  <2>6. Keeps(k, e, {}) /\ Keeps(k, k, {})
    BY <2>2, <2>3 DEF Keeps
  <2> QED BY <2>3, <2>4, <2>5, <2>6
<1>2. CASE ~Preemptible(proc_ptr)
  BY <1>2 DEF QuantumUsed, TaskFlags, Keeps
<1> QED BY <1>1, <1>2

(* balance_queues(): run by a task, which enqueue() does not preempt.      *)
LEMMA BalancedGood ==
    ASSUME NEW k, Good(k, proc_ptr, deadline), ReadsOK, ~Preemptible(proc_ptr),
           maxpri \in [Proc -> Queue], NEW p \in Proc
    PROVE  Good(Balanced(k, p), proc_ptr, deadline) /\ Balanced(k, p).rts = k.rts
<1>1. k \in PsType /\ k.rts \in [Proc -> SUBSET RtsFlags] /\ k.pri \in [Proc -> Queue]
      /\ k.ticks \in [Proc -> Ticks]
  BY DEF Good, KInv, PsType
<1>2. CASE ~(k.pri[p] > maxpri[p])
  <2> DEFINE t == [k.ticks EXCEPT ![p] = Quantum[p]]
  <2>1. Quantum[p] \in Ticks
    BY QueueAssumption, SchedAssumption DEF Ticks
  <2>2. t \in [Proc -> Ticks]
    BY <1>1, <2>1
  <2>3. Balanced(k, p) = [k EXCEPT !.ticks = t]
    BY <1>2 DEF Balanced
  <2> HIDE DEF t
  <2> QED BY <2>2, <2>3, TicksGood
<1>3. CASE k.pri[p] > maxpri[p]
  <2> DEFINE g == IF Runnable(k, p) THEN dequeue(k, p) ELSE k
             u == [g EXCEPT !.pri[p] = g.pri[p] - 1]
  <2>1. g \in PsType /\ Off(g, p) /\ g.rts = k.rts /\ g.pri = k.pri
        /\ (~Runnable(k, p) => g = k)
    BY <1>1, DequeueOff, BlockedOff DEF Good, KInv
  <2>2. Balanced(k, p) = IF Runnable(k, p) THEN enqueue(u, p) ELSE u
    BY <1>3 DEF Balanced
  <2> HIDE DEF g
  <2>3. k.pri[p] - 1 \in Queue
    BY <1>1, <1>3, ConstantTypes DEF Queue
  <2>4. u.rts = k.rts /\ u.rdy = g.rdy /\ u.pri = [k.pri EXCEPT ![p] = k.pri[p] - 1]
    BY <2>1 DEF PsType
  <2>5. u \in PsType
    BY <2>1, <2>3 DEF PsType
  <2> HIDE DEF u
  <2>6. \A r \in Proc \ {p} : u.rts[r] = k.rts[r] /\ u.pri[r] = k.pri[r]
    BY <1>1, <2>4
  <2>7. CASE Runnable(k, p)
    <3> DEFINE e == enqueue(u, p)
    <3>1. Off(u, p)
      <4>1. \A r \in Proc \ {p} : u.rts[r] = g.rts[r] /\ u.pri[r] = g.pri[r]
        BY <2>1, <2>6
      <4>2. g \in PsType /\ Off(g, p) /\ u.rdy = g.rdy
        BY <2>1, <2>4
      <4> QED BY <4>1, <4>2, <2>5, OffChange
    <3>2. Runnable(u, p)
      BY <2>4, <2>7 DEF Runnable
    <3>3. KInv(e) /\ Effect(u, e, p, proc_ptr) /\ (deadline[p] > 0 => e.pri[p] = DEADLINE_Q)
      BY <2>5, <3>1, <3>2, Enqueue
    <3>4. Balanced(k, p) = e
      BY <2>2, <2>7
    <3> HIDE DEF e
    <3>5. \A r \in Proc : e.rts[r] = k.rts[r]
      BY <2>4, <3>3 DEF Effect
    <3>6. e.rts = k.rts
      <4>1. e.rts \in [Proc -> SUBSET RtsFlags]
        BY <3>3 DEF KInv, PsType
      <4> QED BY <4>1, <1>1, <3>5
    <3>7. \A r \in Proc \ {p} : e.pri[r] = k.pri[r]
      BY <2>6, <3>3 DEF Effect
    <3>8. Aside(e, proc_ptr) /\ Prio(e, proc_ptr)
      BY <3>5 DEF Good, Aside, Prio
    <3>9. InDeadlineQ(e, deadline)
      BY <3>3, <3>5, <3>7 DEF Good, InDeadlineQ
    <3> QED BY <3>3, <3>4, <3>6, <3>8, <3>9 DEF Good
  <2>8. CASE ~Runnable(k, p)
    <3>1. u.rdy = k.rdy /\ u.rts[p] # {}
      BY <2>1, <2>4, <2>8 DEF Runnable
    <3>2. u.rts[p] \cap {"PREEMPTED", "NO_QUANTUM"} = {}
      BY <2>4 DEF Good, Aside
    <3>3. Good(u, proc_ptr, deadline)
      BY <2>5, <2>6, <2>8, <3>1, <3>2, BlockedUpdate DEF ReadsOK
    <3> QED BY <2>2, <2>4, <2>8, <3>3
  <2> QED BY <2>7, <2>8
<1> QED BY <1>2, <1>3

-----------------------------------------------------------------------------
(* The inductive invariant.  Besides Good: what the CPU is doing fits the  *)
(* process it does it for; a task that does not run waits for a message,   *)
(* with nothing half done; the arguments of a kernel call are valid, and   *)
(* its process is locked while its queue or deadline changes.              *)
CtlMode ==
    /\ mode \in {"run", "misc", "balance"} => Runnable(ps, proc_ptr)
    /\ mode = "misc" => proc_ptr \in User /\ "vmctl" \in KernelCalls
    /\ mode = "balance" => proc_ptr = CLOCK
    /\ mode = "halt" => proc_ptr = IDLE
    /\ Billable(proc_ptr) => bill_ptr = proc_ptr

CtlTasks ==
    /\ ps.rts[SYSTEM] = {} \/ (sys_pc = "receive" /\ callers = {}
                                /\ ps.rts[SYSTEM] = {"RECEIVING"})
    /\ ps.rts[CLOCK] = {} \/ (clk_pc = "receive" /\ ps.rts[CLOCK] = {"RECEIVING"})

CtlReq ==
    /\ sys_pc # "receive" => req.tgt \in User
    /\ sys_pc \in {"nice", "nice_set"} => req.arg \in Queue
    /\ sys_pc \in {"chdeadline", "chdeadline_set"} => req.arg \in 0..TMR_NEVER
    /\ sys_pc = "fork" => req.arg \in User
    /\ sys_pc \in {"nice_set", "chdeadline_set", "chdeadline_unlock"} =>
           "SYS_LOCK" \in ps.rts[req.tgt]

SchedInv ==
    /\ TypeOK /\ Good(ps, proc_ptr, deadline)
    /\ CtlMode /\ CtlTasks /\ CtlReq

(* The primitives on a process that is not a task.                         *)
LEMMA SlotSet ==
    ASSUME SchedInv, NEW k, Good(k, proc_ptr, deadline), NEW p \in Slot,
           NEW f \in SUBSET RtsFlags, f # {}, f \cap {"PREEMPTED", "NO_QUANTUM"} = {}
    PROVE  /\ Good(RTS_SET(k, p, f), proc_ptr, deadline)
           /\ TaskFlags(k, RTS_SET(k, p, f), {}) /\ Keeps(k, RTS_SET(k, p, f), {})
           /\ RTS_SET(k, p, f).rts[p] = k.rts[p] \cup f
<1> DEFINE e == RTS_SET(k, p, f)
<1>1. p \in Proc /\ p >= 0 /\ proc_ptr \in Proc /\ Proc \subseteq Int
  BY ConstantTypes DEF Slot, SchedInv, TypeOK
<1>2. KInv(k) /\ k.rts \in [Proc -> SUBSET RtsFlags]
  BY DEF Good, KInv, PsType
<1>3. Good(e, proc_ptr, deadline) /\ e.rts = [k.rts EXCEPT ![p] = @ \cup f]
  BY <1>1, <1>2, RtsSetGood, RtsSet
<1> HIDE DEF e
<1>4. \A r \in Proc : e.rts[r] = IF r = p THEN k.rts[p] \cup f ELSE k.rts[r]
  BY <1>2, <1>3
<1>5. TaskFlags(k, e, {}) /\ Keeps(k, e, {})
  BY <1>1, <1>4 DEF TaskFlags, Keeps
<1> QED BY <1>1, <1>3, <1>4, <1>5 DEF e

(* RTS_UNSET on a process that is not a task leaves tasks alone.           *)
LEMMA SlotUnset ==
    ASSUME SchedInv, NEW k, Good(k, proc_ptr, deadline), NEW p \in Slot, NEW f,
           p # proc_ptr \/ Runnable(k, p)
    PROVE  /\ Good(RTS_UNSET(k, p, f), proc_ptr, deadline)
           /\ TaskFlags(k, RTS_UNSET(k, p, f), {}) /\ Keeps(k, RTS_UNSET(k, p, f), f)
<1> DEFINE e == RTS_UNSET(k, p, f)
<1>1. p \in Proc /\ p >= 0 /\ Proc \subseteq Int /\ ReadsOK
  BY ConstantTypes DEF Slot, SchedInv, TypeOK, ReadsOK
<1>2. Good(e, proc_ptr, deadline) /\ TaskFlags(k, e, {p}) /\ Keeps(k, e, f)
  BY <1>1, RtsUnsetGood
<1> HIDE DEF e
<1>3. TaskFlags(k, e, {})
  <2>1. \A r \in Proc : r < 0 => r # p
    BY <1>1
  <2> QED BY <2>1, <1>2, Zenon DEF TaskFlags
<1> QED BY <1>2, <1>3 DEF e

(* A task runs, or is woken, or stays as it is.                            *)
TasksKept(k, e) == \A t \in {CLOCK, SYSTEM} : e.rts[t] = {} \/ e.rts[t] = k.rts[t]

(* A step that keeps the flags of the tasks keeps the tasks.               *)
LEMMA TasksKeptBy ==
    ASSUME NEW k, NEW e, TaskFlags(k, e, {})
    PROVE  TasksKept(k, e)
BY ConstantTypes DEF TaskFlags, TasksKept, CLOCK, SYSTEM

(* A step that is not SYSTEM's leaves the lock of its process alone.       *)
LEMMA ReqKept ==
    ASSUME SchedInv, UNCHANGED <<req, sys_pc>>, Keeps(ps, ps', {"RECEIVING"})
    PROVE  CtlReq'
<1>1. req.tgt \in Proc
  BY ConstantTypes DEF SchedInv, TypeOK
<1>2. "SYS_LOCK" \in ps.rts[req.tgt] => "SYS_LOCK" \in ps'.rts[req.tgt]
  BY <1>1 DEF Keeps
<1> QED BY <1>2 DEF SchedInv, CtlReq

(* Everything a step into the kernel leaves alone stays invariant: what    *)
(* remains to show of such a step is about ps.                             *)
LEMMA CheckStep ==
    ASSUME SchedInv, mode' = "check",
           Good(ps, proc_ptr, deadline)', TasksKept(ps, ps'),
           Keeps(ps, ps', {"RECEIVING"}),
           UNCHANGED <<maxpri, deadline, armed, proc_ptr, bill_ptr, req, sys_pc,
                       clk_pc, bal>>,
           vtimer' \subseteq vtimer, clk_due' \in BOOLEAN, callers' \subseteq Server,
           callers' = callers \/ ps'.rts[SYSTEM] = {}
    PROVE  SchedInv'
<1>1. ps' \in PsType
  BY DEF Good, KInv
<1>2. TypeOK'
  BY <1>1 DEF SchedInv, TypeOK, Modes
<1>3. CtlMode'
  BY DEF SchedInv, CtlMode, Billable
<1>4. CtlTasks'
  BY DEF SchedInv, CtlTasks, TasksKept
<1>5. CtlReq'
  BY ReqKept
<1> QED BY <1>2, <1>3, <1>4, <1>5 DEF SchedInv

(* The same for a step of a task, which keeps the CPU.                     *)
LEMMA TaskStep ==
    ASSUME SchedInv, proc_ptr \in {CLOCK, SYSTEM},
           Good(ps, proc_ptr, deadline)', TaskFlags(ps, ps', {}),
           UNCHANGED <<proc_ptr, bill_ptr>>, mode' \in Modes,
           mode \in {"run", "balance"}, mode' \in {"run", "balance"},
           mode' = "balance" => proc_ptr = CLOCK,
           maxpri' \in [Proc -> Queue], deadline' \in [Proc -> 0..TMR_NEVER],
           armed' \subseteq User, vtimer' \subseteq User, callers' \subseteq Server,
           req' \in [from : Server, op : AllCalls, tgt : Slot, arg : Int],
           sys_pc' \in SysPcs, clk_due' \in BOOLEAN, clk_pc' \in {"receive", "expire"},
           bal' \in 0..NR_PROCS,
           proc_ptr = SYSTEM \/ UNCHANGED <<sys_pc, callers>>,
           proc_ptr = CLOCK \/ UNCHANGED clk_pc,
           CtlReq'
    PROVE  SchedInv'
<1>1. ps' \in PsType /\ proc_ptr \in Proc /\ proc_ptr < 0 /\ CLOCK \in Proc /\ SYSTEM \in Proc
  BY ConstantTypes, TasksNotPreemptible DEF Good, KInv
<1>2. TypeOK'
  BY <1>1 DEF SchedInv, TypeOK
<1>3. ps.rts[proc_ptr] = {} /\ ps'.rts[proc_ptr] = {}
  BY <1>1 DEF SchedInv, CtlMode, Runnable, TaskFlags
<1>4. CtlMode'
  BY <1>3 DEF SchedInv, CtlMode, Billable, Runnable
<1>5. ps'.rts[CLOCK] = ps.rts[CLOCK] /\ ps'.rts[SYSTEM] = ps.rts[SYSTEM]
  BY <1>1, TasksNotPreemptible DEF TaskFlags
<1>6. CtlTasks'
  BY <1>3, <1>5 DEF SchedInv, CtlTasks
<1> QED BY <1>2, <1>4, <1>6 DEF SchedInv

-----------------------------------------------------------------------------
(* Each step of schedcheck(), of an interrupt and of a trap preserves the  *)
(* invariant.                                                              *)
LEMMA SchedcheckInv ==
    ASSUME SchedInv, Schedcheck
    PROVE  SchedInv'
<1>r. ReadsOK /\ proc_ptr \in Proc
  BY DEF SchedInv, TypeOK, ReadsOK
<1>1. CASE StillRunnable
  <2>1. mode' \in {"run", "misc"} /\ (mode' = "misc" => proc_ptr \in User /\ "vmctl" \in KernelCalls)
    BY <1>1 DEF StillRunnable, Chosen
  <2>2. CtlMode'
    BY <1>1, <2>1 DEF StillRunnable, SchedInv, CtlMode, Billable, Runnable
  <2>3. TypeOK'
    BY <1>1, <2>1 DEF StillRunnable, SchedInv, TypeOK, Modes, proc_vars, task_vars
  <2>4. Good(ps, proc_ptr, deadline)' /\ CtlTasks' /\ CtlReq'
    BY <1>1 DEF StillRunnable, SchedInv, CtlTasks, CtlReq, proc_vars, task_vars
  <2> QED BY <2>2, <2>3, <2>4 DEF SchedInv
<1>2. CASE PickNew
  <2>1. /\ KInv(ps') /\ InDeadlineQ(ps', deadline)
        /\ \A r \in Proc : ps'.rts[r] = ps.rts[r] \ {"PREEMPTED", "NO_QUANTUM"}
    BY <1>2, <1>r, SetAsideDone DEF PickNew, SchedInv
  <2>2. UNCHANGED <<maxpri, deadline, armed, vtimer, callers, req, sys_pc, clk_due,
                    clk_pc, bal>>
    BY <1>2 DEF PickNew, proc_vars, task_vars
  <2>3. /\ proc_ptr' \in Proc /\ bill_ptr' \in Proc
        /\ Prio(ps', proc_ptr')
        /\ CtlMode'
        /\ mode' \in Modes
    <3>1. CASE /\ proc_ptr' \in Picks(ps')
               /\ bill_ptr' = IF Billable(proc_ptr') THEN proc_ptr' ELSE bill_ptr
               /\ mode' \in Chosen(proc_ptr')
      <4>1. proc_ptr' \in Proc /\ Runnable(ps', proc_ptr')
            /\ \A r \in Proc : Above(ps', r, proc_ptr')
        <5>1. deadline \in [Proc -> 0..TMR_NEVER]
          BY DEF SchedInv, TypeOK
        <5> QED BY <2>1, <3>1, <5>1, PicksRun
      <4>2. mode' \in {"run", "misc"} /\ (mode' = "misc" => proc_ptr' \in User /\ "vmctl" \in KernelCalls)
        BY <3>1 DEF Chosen
      <4>3. Prio(ps', proc_ptr')
        BY <4>1 DEF Prio
      <4>4. CtlMode' /\ mode' \in Modes
        BY <3>1, <4>1, <4>2 DEF CtlMode, Billable, Modes, Runnable
      <4>5. bill_ptr' \in Proc
        BY <3>1, <4>1 DEF SchedInv, TypeOK
      <4> QED BY <4>1, <4>3, <4>4, <4>5
    <3>2. CASE proc_ptr' = IDLE /\ bill_ptr' = IDLE /\ mode' = "halt"
      <4>1. ~Preemptible(IDLE) /\ IDLE \in Proc
        BY ConstantTypes, TasksNotPreemptible
      <4>2. CtlMode'
        BY <3>2 DEF CtlMode
      <4> QED BY <3>2, <4>1, <4>2 DEF Prio, Modes
    <3> QED BY <1>2, <3>1, <3>2 DEF PickNew
  <2>4. Good(ps, proc_ptr, deadline)'
    <3>1. Aside(ps', proc_ptr')
      BY <2>1 DEF Aside
    <3> QED BY <2>1, <2>2, <2>3, <3>1 DEF Good
  <2>5. TypeOK'
    <3>1. ps' \in PsType
      BY <2>1 DEF KInv
    <3> QED BY <3>1, <2>2, <2>3 DEF SchedInv, TypeOK
  <2>6. CtlTasks'
    <3>1. CLOCK \in Proc /\ SYSTEM \in Proc
      BY ConstantTypes
    <3>2. ps'.rts[CLOCK] \in {{}, ps.rts[CLOCK]} /\ ps'.rts[SYSTEM] \in {{}, ps.rts[SYSTEM]}
      BY <2>1, <3>1 DEF SchedInv, CtlTasks
    <3> QED BY <2>2, <3>2 DEF SchedInv, CtlTasks
  <2>7. CtlReq'
    <3>1. req.tgt \in Proc
      BY ConstantTypes DEF SchedInv, TypeOK
    <3>2. "SYS_LOCK" \in ps.rts[req.tgt] => "SYS_LOCK" \in ps'.rts[req.tgt]
      BY <2>1, <3>1
    <3> QED BY <2>2, <3>2 DEF SchedInv, CtlReq
  <2> QED BY <2>3, <2>4, <2>5, <2>6, <2>7 DEF SchedInv
<1>3. CASE DeliverMsg
  <2>1. CtlMode'
    BY <1>3 DEF DeliverMsg, SchedInv, CtlMode, Billable, Runnable
  <2>2. TypeOK'
    BY <1>3 DEF DeliverMsg, SchedInv, TypeOK, Modes, proc_vars, task_vars
  <2>3. Good(ps, proc_ptr, deadline)' /\ CtlTasks' /\ CtlReq'
    BY <1>3 DEF DeliverMsg, SchedInv, CtlTasks, CtlReq, proc_vars, task_vars
  <2> QED BY <2>1, <2>2, <2>3 DEF SchedInv
<1>4. CASE DeliverSuspend
  <2> DEFINE f == {"VMREQUEST"}
             e == RTS_SET(ps, proc_ptr, f)
  <2>1. proc_ptr \in Slot /\ VM \in Server /\ proc_ptr # VM
    BY <1>4, QueueAssumption, SchedAssumption DEF DeliverSuspend, SchedInv, CtlMode, User
  <2>2. f \in SUBSET RtsFlags /\ f # {} /\ f \cap {"PREEMPTED", "NO_QUANTUM"} = {}
    BY DEF RtsFlags
  <2>3. ps' = e \/ ps' = notify(e, VM)
    BY <1>4 DEF DeliverSuspend
  <2> HIDE DEF f
  <2>4. Good(e, proc_ptr, deadline) /\ TaskFlags(ps, e, {}) /\ Keeps(ps, e, {})
    BY <2>1, <2>2, SlotSet DEF SchedInv
  <2> HIDE DEF e
  <2>5. Good(ps', proc_ptr, deadline) /\ TaskFlags(e, ps', {}) /\ Keeps(e, ps', {"RECEIVING"})
    <3>1. CASE ps' = e
      BY <3>1, <2>4 DEF TaskFlags, Keeps
    <3>2. CASE ps' = notify(e, VM)
      BY <1>r, <2>1, <2>4, <3>2, NotifyGood
    <3> QED BY <2>3, <3>1, <3>2
  <2>6. TaskFlags(ps, ps', {}) /\ Keeps(ps, ps', {"RECEIVING"})
    BY <2>4, <2>5 DEF TaskFlags, Keeps
  <2>7. mode' = "check" /\ UNCHANGED <<maxpri, deadline, armed, vtimer, proc_ptr,
                  bill_ptr, callers, req, sys_pc, clk_due, clk_pc, bal>>
    BY <1>4 DEF DeliverSuspend, proc_vars, task_vars
  <2>8. clk_due' \in BOOLEAN /\ callers' \subseteq Server
    BY <2>7 DEF SchedInv, TypeOK
  <2> QED BY <2>5, <2>6, <2>7, <2>8, TasksKeptBy, CheckStep
<1> QED BY <1>1, <1>2, <1>3, <1>4 DEF Schedcheck

(* A wake-up by an interrupt or a system call.                             *)
LEMMA WakeInv ==
    ASSUME SchedInv, NEW p \in Slot, Interruptible,
           ps' = RTS_UNSET(ps, p, {"RECEIVING"}), mode' = "check",
           UNCHANGED <<proc_vars, proc_ptr, bill_ptr, task_vars>>
    PROVE  SchedInv'
<1>1. p # proc_ptr \/ Runnable(ps, p)
  BY DEF Interruptible, SchedInv, CtlMode, Slot, IDLE
<1>2. Good(ps', proc_ptr, deadline) /\ TaskFlags(ps, ps', {})
      /\ Keeps(ps, ps', {"RECEIVING"})
  BY <1>1, SlotUnset DEF SchedInv
<1>3. UNCHANGED <<maxpri, deadline, armed, vtimer, proc_ptr, bill_ptr, callers, req,
                  sys_pc, clk_due, clk_pc, bal>>
  BY DEF proc_vars, task_vars
<1>4. clk_due' \in BOOLEAN /\ callers' \subseteq Server
  BY <1>3 DEF SchedInv, TypeOK
<1> QED BY <1>2, <1>3, <1>4, TasksKeptBy, CheckStep

(* The clock interrupt preserves the invariant.                            *)
LEMMA TimerIntInv ==
    ASSUME SchedInv, NEW exp \in BOOLEAN, NEW due \in BOOLEAN, TimerInt(exp, due)
    PROVE  SchedInv'
<1> DEFINE c == Charge(ps)
           v == IF exp THEN cause_sig(c, bill_ptr) ELSE c
           n == QuantumUsed(v)
           e == RTS_UNSET(n, CLOCK, {"RECEIVING"})
           F == {"RECEIVING"}
<1>1. ReadsOK /\ proc_ptr \in Proc /\ bill_ptr \in Proc /\ ps \in PsType
      /\ Good(ps, proc_ptr, deadline)
  BY DEF SchedInv, TypeOK, ReadsOK
<1>2. Good(c, proc_ptr, deadline) /\ c.rts = ps.rts
  BY <1>1, ChargeGood
<1>3. PM # proc_ptr \/ Runnable(c, PM)
  <2>1. mode = "run" \/ mode = "halt"
    BY DEF TimerInt, Interruptible
  <2>2. CASE mode = "run"
    <3>1. Runnable(ps, proc_ptr)
      BY <2>2 DEF SchedInv, CtlMode
    <3> QED BY <1>2, <3>1 DEF Runnable
  <2>3. CASE mode = "halt"
    <3>1. proc_ptr = IDLE
      BY <2>3 DEF SchedInv, CtlMode
    <3> QED BY <3>1 DEF PM, IDLE
  <2> QED BY <2>1, <2>2, <2>3
<1>4. exp => bill_ptr \in User
  BY DEF TimerInt, SchedInv, TypeOK
<1>5. ps' = IF due THEN e ELSE n
  BY DEF TimerInt
<1>6. /\ mode' = "check" /\ vtimer' \subseteq vtimer /\ callers' = callers
      /\ UNCHANGED <<maxpri, deadline, armed, proc_ptr, bill_ptr, req, sys_pc, clk_pc, bal>>
      /\ clk_due' \in BOOLEAN /\ callers' \subseteq Server
  BY DEF TimerInt, SchedInv, TypeOK
<1> HIDE DEF c
<1>7. Good(v, proc_ptr, deadline) /\ TaskFlags(c, v, {}) /\ Keeps(c, v, F)
  <2>1. CASE exp
    BY <1>1, <1>2, <1>3, <1>4, <2>1, CauseSigGood
  <2>2. CASE ~exp
    BY <1>2, <2>2 DEF TaskFlags, Keeps
  <2> QED BY <2>1, <2>2
<1> HIDE DEF v
<1>8. Good(n, proc_ptr, deadline) /\ TaskFlags(v, n, {}) /\ Keeps(v, n, {})
  BY <1>1, <1>7, QuantumUsedGood
<1> HIDE DEF n
<1>9. TaskFlags(ps, n, {}) /\ Keeps(ps, n, F)
  BY <1>2, <1>7, <1>8 DEF TaskFlags, Keeps
<1>10. CASE ~due
  <2>1. ps' = n
    BY <1>5, <1>10
  <2>2. Good(ps', proc_ptr, deadline) /\ TasksKept(ps, ps') /\ Keeps(ps, ps', F)
    BY <1>8, <1>9, <2>1, TasksKeptBy
  <2> QED BY <1>6, <2>2, CheckStep
<1>11. CASE due
  <2>1. ps' = e
    BY <1>5, <1>11
  <2>2. CLOCK \in Proc /\ ~Preemptible(CLOCK) /\ SYSTEM \in Proc /\ SYSTEM < 0 /\ SYSTEM # CLOCK
        /\ CLOCK < 0
    BY ConstantTypes, TasksNotPreemptible
  <2>3. /\ Good(e, proc_ptr, deadline) /\ e.rts[CLOCK] = n.rts[CLOCK] \ F
        /\ TaskFlags(n, e, {CLOCK}) /\ Keeps(n, e, F)
    BY <1>1, <1>8, <2>2, TaskUnset
  <2> HIDE DEF e
  <2>4. Keeps(ps, e, F)
    BY <1>9, <2>3 DEF Keeps
  <2>5. n.rts[CLOCK] = ps.rts[CLOCK] /\ e.rts[SYSTEM] = ps.rts[SYSTEM]
    BY <1>9, <2>2, <2>3 DEF TaskFlags
  <2>6. e.rts[CLOCK] = {}
    BY <2>3, <2>5 DEF SchedInv, CtlTasks
  <2>7. TasksKept(ps, e)
    BY <2>5, <2>6 DEF TasksKept
  <2> QED BY <1>6, <2>1, <2>3, <2>4, <2>7, CheckStep
<1> QED BY <1>10, <1>11

(* Traps: the caller wakes another process, waits, or both.                *)
LEMMA SysCallInv ==
    ASSUME SchedInv, SysCall
    PROVE  SchedInv'
<1> DEFINE f == {"RECEIVING"}
<1>1. f \in SUBSET RtsFlags /\ f # {} /\ f \cap {"PREEMPTED", "NO_QUANTUM"} = {}
  BY DEF RtsFlags
<1>2. ReadsOK /\ proc_ptr \in Proc /\ Good(ps, proc_ptr, deadline)
  BY DEF SchedInv, TypeOK, ReadsOK
<1>3. (UNCHANGED task_vars) => callers' = callers /\ UNCHANGED <<req, sys_pc, clk_due, clk_pc, bal>>
  BY DEF task_vars
<1>4. clk_due \in BOOLEAN /\ callers \subseteq Server
  BY DEF SchedInv, TypeOK
<1>5. CASE SysCallBlock
  <2>1. proc_ptr \in Slot /\ mode' = "check" /\ UNCHANGED <<maxpri, deadline, armed,
          vtimer, proc_ptr, bill_ptr, callers, req, sys_pc, clk_due, clk_pc, bal>>
        /\ ps' = RTS_SET(ps, proc_ptr, f)
    BY <1>5 DEF SysCallBlock, proc_vars, task_vars
  <2> HIDE DEF f
  <2>2. Good(ps', proc_ptr, deadline) /\ TaskFlags(ps, ps', {}) /\ Keeps(ps, ps', {})
    BY <1>1, <1>2, <2>1, SlotSet
  <2>3. Keeps(ps, ps', {"RECEIVING"})
    BY <2>2 DEF Keeps
  <2> QED BY <1>4, <2>1, <2>2, <2>3, TasksKeptBy, CheckStep
<1>6. ASSUME NEW p \in Slot, SysCallWake(p)
      PROVE  SchedInv'
  BY <1>6, WakeInv DEF SysCallWake, Interruptible
<1>7. ASSUME NEW p \in Slot, SysCallSendrec(p)
      PROVE  SchedInv'
  <2> DEFINE e == RTS_UNSET(ps, p, {"RECEIVING"})
  <2>1. proc_ptr \in Slot /\ mode' = "check" /\ UNCHANGED <<maxpri, deadline, armed,
          vtimer, proc_ptr, bill_ptr, callers, req, sys_pc, clk_due, clk_pc, bal>>
        /\ ps' = RTS_SET(e, proc_ptr, f)
    BY <1>7 DEF SysCallSendrec, proc_vars, task_vars
  <2>2. p # proc_ptr \/ Runnable(ps, p)
    BY <1>7 DEF SysCallSendrec, SchedInv, CtlMode
  <2>3. Good(e, proc_ptr, deadline) /\ TaskFlags(ps, e, {}) /\ Keeps(ps, e, {"RECEIVING"})
    BY <1>2, <2>2, SlotUnset
  <2> HIDE DEF e, f
  <2>4. Good(ps', proc_ptr, deadline) /\ TaskFlags(e, ps', {}) /\ Keeps(e, ps', {})
    BY <1>1, <2>1, <2>3, SlotSet
  <2>5. TaskFlags(ps, ps', {}) /\ Keeps(ps, ps', {"RECEIVING"})
    BY <2>3, <2>4 DEF TaskFlags, Keeps
  <2> QED BY <1>4, <2>1, <2>4, <2>5, TasksKeptBy, CheckStep
<1>8. CASE TaskCall
  <2> DEFINE e == RTS_UNSET(ps, SYSTEM, {"RECEIVING"})
  <2>1. proc_ptr \in Server /\ proc_ptr \in Slot /\ mode' = "check"
        /\ UNCHANGED <<maxpri, deadline, armed, vtimer, proc_ptr, bill_ptr, req, sys_pc,
                       clk_due, clk_pc, bal>>
        /\ ps' = RTS_SET(e, proc_ptr, f) /\ callers' = callers \cup {proc_ptr}
    BY <1>8, ConstantTypes DEF TaskCall, proc_vars
  <2>2. SYSTEM \in Proc /\ ~Preemptible(SYSTEM) /\ CLOCK \in Proc /\ CLOCK < 0 /\ SYSTEM < 0
        /\ CLOCK # SYSTEM
    <3>1. SYSTEM \in Proc /\ CLOCK \in Proc
      BY ConstantTypes
    <3> QED BY <3>1, TasksNotPreemptible
  <2>3. /\ Good(e, proc_ptr, deadline) /\ e.rts[SYSTEM] = ps.rts[SYSTEM] \ {"RECEIVING"}
        /\ TaskFlags(ps, e, {SYSTEM}) /\ Keeps(ps, e, {"RECEIVING"})
    BY <1>2, <2>2, TaskUnset
  <2> HIDE DEF e, f
  <2>4. Good(ps', proc_ptr, deadline) /\ TaskFlags(e, ps', {}) /\ Keeps(e, ps', {})
    BY <1>1, <2>1, <2>3, SlotSet
  <2>5. ps'.rts[SYSTEM] = {} /\ ps'.rts[CLOCK] = ps.rts[CLOCK]
    <3>1. e.rts[SYSTEM] = {}
      BY <2>3 DEF SchedInv, CtlTasks
    <3> QED BY <2>2, <2>3, <2>4, <3>1 DEF TaskFlags
  <2>6. TasksKept(ps, ps') /\ Keeps(ps, ps', {"RECEIVING"})
    BY <2>3, <2>4, <2>5 DEF TasksKept, Keeps
  <2>7. callers' \subseteq Server /\ clk_due' \in BOOLEAN
    BY <1>4, <2>1
  <2> QED BY <2>1, <2>4, <2>5, <2>6, <2>7, CheckStep
<1> QED BY <1>5, <1>6, <1>7, <1>8 DEF SysCall

-----------------------------------------------------------------------------
(* A user process is not a task.                                           *)
LEMMA UserProc ==
    ASSUME NEW p \in User
    PROVE  p \in Slot /\ p \in Proc /\ p >= 0 /\ p # SYSTEM /\ p # CLOCK
<1>1. p \in Slot /\ p \in Proc
  BY ConstantTypes
<1>2. p >= 0 /\ p # SYSTEM /\ p # CLOCK
  BY <1>1 DEF Slot, SYSTEM, CLOCK
<1> QED BY <1>1, <1>2

(* While a task runs no process is set aside.                              *)
LEMMA NoneAside ==
    ASSUME SchedInv, proc_ptr \in {CLOCK, SYSTEM}
    PROVE  \A p \in Proc : ps.rts[p] \cap {"PREEMPTED", "NO_QUANTUM"} = {}
BY TasksNotPreemptible DEF SchedInv, Good, Aside

(* A handler step that does not go on with a change of queue or deadline.  *)
LEMMA HandlerStep ==
    ASSUME SchedInv, NEW pc, pc \in {"reply", "exit_wake"}, NEW k, SysStep(k, pc),
           mode = "run", proc_ptr = SYSTEM, sys_pc # "receive",
           Good(k, proc_ptr, deadline'), TaskFlags(ps, k, {}),
           maxpri' \in [Proc -> Queue], deadline' \in [Proc -> 0..TMR_NEVER],
           armed' \subseteq User, vtimer' \subseteq User
    PROVE  SchedInv'
<1>1. ps' = k /\ sys_pc' = pc
      /\ UNCHANGED <<proc_ptr, bill_ptr, mode, callers, req, clk_due, clk_pc, bal>>
  BY DEF SysStep
<1>2. CtlReq'
  BY <1>1 DEF SchedInv, CtlReq
<1>3. /\ mode' \in Modes /\ callers' \subseteq Server
      /\ req' \in [from : Server, op : AllCalls, tgt : Slot, arg : Int]
      /\ clk_due' \in BOOLEAN /\ clk_pc' \in {"receive", "expire"}
      /\ bal' \in 0..NR_PROCS
  BY <1>1 DEF SchedInv, TypeOK
<1>4. sys_pc' \in SysPcs
  BY <1>1 DEF SysPcs
<1>5. Good(ps, proc_ptr, deadline)' /\ TaskFlags(ps, ps', {})
  BY <1>1
<1>6. mode' = "run" /\ UNCHANGED <<proc_ptr, bill_ptr, clk_pc>> /\ proc_ptr \in {CLOCK, SYSTEM}
  BY <1>1
<1> QED BY <1>2, <1>3, <1>4, <1>5, <1>6, TaskStep

(* Most handlers clear flags of one process.                               *)
LEMMA HandlerUnset ==
    ASSUME SchedInv, NEW pc, pc \in {"reply", "exit_wake"}, NEW p \in Slot, NEW f,
           SysStep(RTS_UNSET(ps, p, f), pc),
           mode = "run", proc_ptr = SYSTEM, sys_pc # "receive", UNCHANGED proc_vars
    PROVE  SchedInv'
<1>1. p # proc_ptr
  BY DEF Slot, SYSTEM
<1>2. Good(RTS_UNSET(ps, p, f), proc_ptr, deadline) /\ TaskFlags(ps, RTS_UNSET(ps, p, f), {})
  BY <1>1, SlotUnset DEF SchedInv
<1>3. /\ maxpri' \in [Proc -> Queue] /\ deadline' \in [Proc -> 0..TMR_NEVER]
      /\ armed' \subseteq User /\ vtimer' \subseteq User /\ deadline' = deadline
  BY DEF proc_vars, SchedInv, TypeOK
<1> QED BY <1>2, <1>3, HandlerStep

(* A step of a handler that leaves flags and queues alone.                 *)
LEMMA HandlerSame ==
    ASSUME SchedInv, NEW pc, pc \in {"reply", "exit_wake"}, SysStep(ps, pc),
           mode = "run", proc_ptr = SYSTEM, sys_pc # "receive",
           UNCHANGED <<maxpri, deadline, armed>>, vtimer' \subseteq User
    PROVE  SchedInv'
<1>1. Good(ps, proc_ptr, deadline) /\ TaskFlags(ps, ps, {})
  BY DEF SchedInv, TaskFlags
<1>2. /\ maxpri' \in [Proc -> Queue] /\ deadline' \in [Proc -> 0..TMR_NEVER]
      /\ armed' \subseteq User /\ deadline' = deadline
  BY DEF SchedInv, TypeOK
<1> QED BY <1>1, <1>2, HandlerStep

(* SYSTEM waits, takes a request, replies.                                 *)
LEMMA SysIpcInv ==
    ASSUME SchedInv, SysWait \/ SysReply \/ \E r \in Requests : SysReceive(r)
    PROVE  SchedInv'
<1>1. ReadsOK /\ proc_ptr \in Proc /\ Good(ps, proc_ptr, deadline)
  BY DEF SchedInv, TypeOK, ReadsOK
<1>2. SYSTEM \in Proc /\ CLOCK \in Proc /\ SYSTEM # CLOCK
  BY ConstantTypes DEF SYSTEM, CLOCK
<1>3. CASE SysWait
  <2> DEFINE f == {"RECEIVING"}
  <2>1. f \in SUBSET RtsFlags /\ f # {} /\ f \cap {"PREEMPTED", "NO_QUANTUM"} = {}
    BY DEF RtsFlags
  <2>2. KInv(ps) /\ ps.rts \in [Proc -> SUBSET RtsFlags]
    BY <1>1 DEF Good, KInv, PsType
  <2>3. proc_ptr = SYSTEM /\ ps.rts[SYSTEM] = {} /\ sys_pc = "receive" /\ callers = {}
        /\ ps' = RTS_SET(ps, SYSTEM, f)
    BY <1>3 DEF SysWait, InSystem, SchedInv, CtlMode, Runnable
  <2> HIDE DEF f
  <2>4. Good(ps', proc_ptr, deadline) /\ ps'.rts = [ps.rts EXCEPT ![SYSTEM] = @ \cup f]
    <3>1. Good(RTS_SET(ps, SYSTEM, f), proc_ptr, deadline)
      BY <1>1, <1>2, <2>1, RtsSetGood
    <3>2. RTS_SET(ps, SYSTEM, f).rts = [ps.rts EXCEPT ![SYSTEM] = @ \cup f]
      BY <1>2, <2>1, <2>2, RtsSet, SMTT(20)
    <3> QED BY <2>3, <3>1, <3>2
  <2>5. ps'.rts[SYSTEM] = f /\ ps'.rts[CLOCK] = ps.rts[CLOCK]
    BY <1>2, <2>2, <2>3, <2>4
  <2>6. mode' = "check" /\ UNCHANGED <<maxpri, deadline, armed, vtimer, proc_ptr,
                  bill_ptr, callers, req, sys_pc, clk_due, clk_pc, bal>>
    BY <1>3 DEF SysWait, proc_vars, task_vars
  <2>7. CtlTasks'
    BY <2>3, <2>5, <2>6 DEF SchedInv, CtlTasks, f
  <2>8. CtlMode'
    BY <2>6 DEF SchedInv, CtlMode, Billable
  <2>9. CtlReq'
    BY <2>3, <2>6 DEF CtlReq
  <2>10. TypeOK'
    <3>1. ps' \in PsType
      BY <2>4 DEF Good, KInv
    <3> QED BY <2>6, <3>1 DEF SchedInv, TypeOK, Modes
  <2> QED BY <2>4, <2>6, <2>7, <2>8, <2>9, <2>10 DEF SchedInv
<1>4. CASE SysReply
  <2>1. /\ proc_ptr = SYSTEM /\ mode = "run" /\ sys_pc' = "receive"
        /\ ps' = RTS_UNSET(ps, req.from, {"RECEIVING"})
        /\ callers' = callers \ {req.from} /\ req' = NoRequest
        /\ UNCHANGED <<maxpri, deadline, armed, vtimer, proc_ptr, bill_ptr, mode, clk_due,
                       clk_pc, bal>>
    BY <1>4 DEF SysReply, InSystem, proc_vars
  <2>2. req.from \in Slot /\ req.from # proc_ptr
    <3>1. req.from \in Server /\ Server \subseteq Slot
      BY ConstantTypes DEF SchedInv, TypeOK
    <3>2. \A p \in Slot : p # SYSTEM
      BY DEF Slot, SYSTEM
    <3> QED BY <2>1, <3>1, <3>2
  <2>3. Good(ps', proc_ptr, deadline) /\ TaskFlags(ps, ps', {})
    BY <1>1, <2>1, <2>2, SlotUnset
  <2>4. req' \in [from : Server, op : AllCalls, tgt : Slot, arg : Int] /\ sys_pc' \in SysPcs
    <3>1. PM \in Server /\ PM \in Slot
      BY ConstantTypes
    <3>2. req' \in [from : Server, op : AllCalls, tgt : Slot, arg : Int]
      <4>1. "stop" \in AllCalls /\ 0 \in Int
        BY DEF AllCalls
      <4>2. req' = [from |-> PM, op |-> "stop", tgt |-> PM, arg |-> 0]
        BY <2>1 DEF NoRequest
      <4> QED BY <3>1, <4>1, <4>2
    <3>3. sys_pc' \in SysPcs
      BY <2>1 DEF SysPcs
    <3> QED BY <3>2, <3>3
  <2>5. CtlReq'
    BY <2>1 DEF CtlReq
  <2>6. /\ mode' \in Modes /\ callers' \subseteq Server /\ clk_due' \in BOOLEAN
        /\ clk_pc' \in {"receive", "expire"} /\ bal' \in 0..NR_PROCS
        /\ maxpri' \in [Proc -> Queue] /\ deadline' \in [Proc -> 0..TMR_NEVER]
        /\ armed' \subseteq User /\ vtimer' \subseteq User
    BY <2>1 DEF SchedInv, TypeOK
  <2> QED BY <2>1, <2>3, <2>4, <2>5, <2>6, TaskStep
<1>5. ASSUME NEW r \in Requests, SysReceive(r)
      PROVE  SchedInv'
  <2>1. /\ proc_ptr = SYSTEM /\ mode = "run" /\ req' = r
        /\ sys_pc' \in {"reply", r.op}
        /\ UNCHANGED <<ps, maxpri, deadline, armed, vtimer, proc_ptr, bill_ptr, mode,
                       callers, clk_due, clk_pc, bal>>
    BY <1>5 DEF SysReceive, InSystem, proc_vars
  <2>2. r.from \in Server /\ r.op \in AllCalls /\ r.tgt \in User /\ r.arg \in Args(r.op)
        /\ r.tgt \in Slot
    BY QueueAssumption, SchedAssumption, ConstantTypes DEF Requests
  <2>3. /\ r.op = "nice" => r.arg \in Queue
        /\ r.op = "chdeadline" => r.arg \in 0..TMR_NEVER
        /\ r.op = "fork" => r.arg \in User
        /\ r.arg \in Int
    <3>1. r.op = "nice" => r.arg \in Queue
      BY <2>2, QueueAssumption, SchedAssumption DEF Args
    <3>2. r.op = "chdeadline" => r.arg \in 0..TMR_NEVER
      BY <2>2, QueueAssumption, SchedAssumption DEF Args
    <3>3. r.op = "fork" => r.arg \in User
      BY <2>2 DEF Args
    <3>4. r.op \notin {"nice", "chdeadline", "fork"} => r.arg \in {0, 1}
      BY <2>2, SMTT(20) DEF Args
    <3>5. Queue \subseteq Int /\ User \subseteq Int
      BY ConstantTypes
    <3>6. r.arg \in Int
      <4>1. CASE r.op = "nice"
        BY <3>1, <3>5, <4>1
      <4>2. CASE r.op = "chdeadline"
        BY <3>2, <4>2
      <4>3. CASE r.op = "fork"
        BY <3>3, <3>5, <4>3
      <4>4. CASE r.op \notin {"nice", "chdeadline", "fork"}
        BY <3>4, <4>4
      <4> QED BY <4>1, <4>2, <4>3, <4>4
    <3> QED BY <3>1, <3>2, <3>3, <3>6
  <2>4. r \in [from : Server, op : AllCalls, tgt : Slot, arg : Int]
    <3>1. r = [from |-> r.from, op |-> r.op, tgt |-> r.tgt, arg |-> r.arg]
      BY DEF Requests
    <3>2. r.arg \in Int
      BY <2>3
    <3>3. [from |-> r.from, op |-> r.op, tgt |-> r.tgt, arg |-> r.arg]
             \in [from : Server, op : AllCalls, tgt : Slot, arg : Int]
      BY <2>2, <3>2
    <3> QED BY <3>1, <3>3, Zenon
  <2>5. CtlReq'
    BY <2>1, <2>2, <2>3 DEF CtlReq, AllCalls
  <2>6. sys_pc' \in SysPcs
    BY <2>1, <2>2 DEF SysPcs
  <2>7. /\ mode' \in Modes /\ callers' \subseteq Server /\ clk_due' \in BOOLEAN
        /\ clk_pc' \in {"receive", "expire"} /\ bal' \in 0..NR_PROCS
        /\ maxpri' \in [Proc -> Queue] /\ deadline' \in [Proc -> 0..TMR_NEVER]
        /\ armed' \subseteq User /\ vtimer' \subseteq User
    BY <2>1 DEF SchedInv, TypeOK
  <2>8. Good(ps, proc_ptr, deadline)' /\ TaskFlags(ps, ps', {})
    BY <1>1, <2>1 DEF TaskFlags
  <2> QED BY <2>1, <2>4, <2>5, <2>6, <2>7, <2>8, TaskStep
<1> QED BY <1>3, <1>4, <1>5
=============================================================================

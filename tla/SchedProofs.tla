---------------------------- MODULE SchedProofs ----------------------------
(***************************************************************************)
(* The theorems about Sched, for every process table, number of queues,    *)
(* policy, quantum and set of kernel calls: first, that the kernel calls   *)
(* and the steps of CLOCK preserve the invariant.                          *)
(***************************************************************************)
EXTENDS SchedInvariant, TLAPS

(* do_nice() and do_chdeadline(): the process is off the queues while they *)
(* change its queue or its deadline.                                       *)
LEMMA LockedInv ==
    ASSUME SchedInv, SysLock \/ NiceSet \/ ChdeadlineSet \/ ChdeadlineUnlock
    PROVE  SchedInv'
<1> DEFINE p == req.tgt
<1>1. /\ proc_ptr = SYSTEM /\ mode = "run" /\ sys_pc # "receive"
      /\ sys_pc \in {"nice", "chdeadline", "nice_set", "chdeadline_set", "chdeadline_unlock"}
  BY DEF SysLock, NiceSet, ChdeadlineSet, ChdeadlineUnlock, InSystem
<1>2. p \in User /\ p \in Slot /\ p \in Proc /\ p # proc_ptr
  <2>1. p \in User
    BY <1>1 DEF SchedInv, CtlReq
  <2>2. p \in Slot /\ p \in Proc
    BY <2>1, ConstantTypes
  <2>3. \A x \in Slot : x # SYSTEM
    BY DEF Slot, SYSTEM
  <2> QED BY <1>1, <2>1, <2>2, <2>3
<1>3. ps \in PsType /\ Good(ps, proc_ptr, deadline) /\ proc_ptr \in Proc
  BY DEF SchedInv, TypeOK
<1>4. /\ maxpri \in [Proc -> Queue] /\ deadline \in [Proc -> 0..TMR_NEVER]
      /\ armed \subseteq User /\ vtimer \subseteq User
  BY DEF SchedInv, TypeOK
<1>5. ps.rts[p] \cap {"PREEMPTED", "NO_QUANTUM"} = {}
  BY <1>1, <1>2, NoneAside
<1>6. CASE SysLock
  <2> DEFINE f == {"SYS_LOCK"}
             e == RTS_SET(ps, p, f)
             pc == IF sys_pc = "nice" THEN "nice_set" ELSE "chdeadline_set"
  <2>1. f \in SUBSET RtsFlags /\ f # {} /\ f \cap {"PREEMPTED", "NO_QUANTUM"} = {}
    BY DEF RtsFlags
  <2>2. ps' = e /\ sys_pc' = pc
        /\ UNCHANGED <<maxpri, deadline, armed, vtimer, proc_ptr, bill_ptr, mode,
                       callers, req, clk_due, clk_pc, bal>>
    BY <1>6 DEF SysLock, SysStep, proc_vars
  <2> HIDE DEF f
  <2>3. /\ Good(e, proc_ptr, deadline) /\ TaskFlags(ps, e, {}) /\ e.rts[p] = ps.rts[p] \cup f
    BY <1>2, <1>3, <2>1, SlotSet
  <2> HIDE DEF e
  <2>4. CtlReq'
    <3>1. "SYS_LOCK" \in ps'.rts[p] /\ sys_pc' \in {"nice_set", "chdeadline_set"}
      BY <2>2, <2>3 DEF f
    <3>2. sys_pc \in {"nice", "chdeadline"}
      BY <1>6 DEF SysLock, InSystem
    <3> QED BY <1>2, <2>2, <3>1, <3>2 DEF SchedInv, CtlReq
  <2>5. sys_pc' \in SysPcs
    BY <2>2 DEF SysPcs
  <2>6. /\ mode' \in Modes /\ callers' \subseteq Server
        /\ req' \in [from : Server, op : AllCalls, tgt : Slot, arg : Int]
        /\ clk_due' \in BOOLEAN /\ clk_pc' \in {"receive", "expire"} /\ bal' \in 0..NR_PROCS
    BY <2>2 DEF SchedInv, TypeOK
  <2> HIDE DEF p, pc
  <2> QED BY <1>1, <1>4, <2>2, <2>3, <2>4, <2>5, <2>6, TaskStep
<1>7. CASE NiceSet
  <2> DEFINE j == [ps EXCEPT !.pri[p] = req.arg]
             e == RTS_UNSET(j, p, {"SYS_LOCK"})
  <2>1. req.arg \in Queue /\ "SYS_LOCK" \in ps.rts[p]
    BY <1>7 DEF NiceSet, InSystem, SchedInv, CtlReq
  <2>2. SysStep(e, "reply") /\ maxpri' = [maxpri EXCEPT ![p] = req.arg]
        /\ UNCHANGED <<deadline, armed, vtimer>>
    BY <1>7 DEF NiceSet
  <2> HIDE DEF p
  <2>3. j \in PsType /\ j.rts = ps.rts /\ j.rdy = ps.rdy
        /\ j.pri = [ps.pri EXCEPT ![p] = req.arg]
    <3>1. j \in PsType
      BY <1>3, <2>1 DEF PsType
    <3>2. j.rts = ps.rts /\ j.rdy = ps.rdy /\ j.pri = [ps.pri EXCEPT ![p] = req.arg]
      BY <1>3 DEF PsType
    <3> QED BY <3>1, <3>2
  <2> HIDE DEF j
  <2>4. \A r \in Proc \ {p} : j.rts[r] = ps.rts[r] /\ j.pri[r] = ps.pri[r]
    <3>1. ps.pri \in [Proc -> Queue]
      BY <1>3 DEF PsType
    <3> QED BY <2>3, <3>1
  <2>5. Good(j, proc_ptr, deadline)
    <3>1. ~Runnable(ps, p) /\ j.rts[p] # {} /\ j.rts[p] \cap {"PREEMPTED", "NO_QUANTUM"} = {}
      BY <1>5, <2>1, <2>3 DEF Runnable
    <3>2. j \in PsType /\ j.rdy = ps.rdy
      BY <2>3
    <3> QED BY <1>2, <1>3, <2>4, <3>1, <3>2, BlockedUpdate
  <2>6. Good(e, proc_ptr, deadline) /\ TaskFlags(j, e, {})
    BY <1>2, <2>5, SlotUnset
  <2> HIDE DEF e
  <2>7. TaskFlags(ps, e, {})
    BY <2>3, <2>6 DEF TaskFlags
  <2>8. maxpri' \in [Proc -> Queue] /\ deadline' = deadline /\ armed' = armed /\ vtimer' = vtimer
    BY <1>4, <2>1, <2>2
  <2> QED BY <1>1, <1>4, <2>2, <2>6, <2>7, <2>8, HandlerStep
<1>8. CASE ChdeadlineSet
  <2>1. req.arg \in 0..TMR_NEVER /\ "SYS_LOCK" \in ps.rts[p]
    BY <1>8 DEF ChdeadlineSet, InSystem, SchedInv, CtlReq
  <2>2. /\ ps' = ps /\ sys_pc' = "chdeadline_unlock"
        /\ UNCHANGED <<maxpri, vtimer, proc_ptr, bill_ptr, mode,
                       callers, req, clk_due, clk_pc, bal>>
        /\ armed' \subseteq armed \cup {p}
    BY <1>8 DEF ChdeadlineSet, SysStep
  <2>3. /\ deadline' \in [Proc -> 0..TMR_NEVER]
        /\ \A r \in Proc \ {p} : deadline'[r] = deadline[r]
    BY <1>2, <1>4, <1>8, <2>1, ConstantTypes DEF ChdeadlineSet
  <2> HIDE DEF p
  <2>4. Good(ps, proc_ptr, deadline')
    <3>1. ~Runnable(ps, p) /\ ps.rts[p] # {}
      BY <2>1 DEF Runnable
    <3>2. \A r \in Proc \ {p} : /\ ps.rts[r] = ps.rts[r] /\ ps.pri[r] = ps.pri[r]
                                /\ deadline'[r] = deadline[r]
      BY <2>3
    <3> QED BY <1>2, <1>3, <1>5, <3>1, <3>2, BlockedUpdate
  <2>5. Good(ps, proc_ptr, deadline)' /\ TaskFlags(ps, ps', {})
    BY <2>2, <2>4 DEF TaskFlags
  <2>6. CtlReq'
    BY <1>2, <2>1, <2>2 DEF CtlReq, p
  <2>7. armed' \subseteq User
    BY <1>2, <1>4, <2>2
  <2>8. sys_pc' \in SysPcs
    BY <2>2 DEF SysPcs
  <2>9. /\ mode' \in Modes /\ callers' \subseteq Server
        /\ req' \in [from : Server, op : AllCalls, tgt : Slot, arg : Int]
        /\ clk_due' \in BOOLEAN /\ clk_pc' \in {"receive", "expire"} /\ bal' \in 0..NR_PROCS
    BY <2>2 DEF SchedInv, TypeOK
  <2> QED BY <1>1, <1>4, <2>2, <2>3, <2>5, <2>6, <2>7, <2>8, <2>9, TaskStep
<1>9. CASE ChdeadlineUnlock
  BY <1>1, <1>2, <1>9, HandlerUnset DEF ChdeadlineUnlock
<1> QED BY <1>6, <1>7, <1>8, <1>9

(* do_fork(): the child's slot was free, and the child is not runnable.    *)
LEMMA ForkInv ==
    ASSUME SchedInv, Fork
    PROVE  SchedInv'
<1> DEFINE pa == req.tgt
           ch == req.arg
           flags == (ps.rts[pa] \cup {"VMINHIBIT"}) \ {"SIGNALED", "SIG_PENDING"}
           t == [ps.ticks EXCEPT ![ch] = Half(ps.ticks[pa] + 1), ![pa] = Half(@)]
           j == [ps EXCEPT !.rts[ch] = flags, !.pri[ch] = ps.pri[pa], !.ticks = t]
<1>1. proc_ptr = SYSTEM /\ mode = "run" /\ sys_pc = "fork"
  BY DEF Fork, InSystem
<1>2. pa \in User /\ ch \in User
  BY <1>1 DEF SchedInv, CtlReq
<1>3. pa \in Proc /\ ch \in Proc /\ ch >= 0 /\ Proc \subseteq Int
  BY <1>2, UserProc, ConstantTypes
<1>4. ps \in PsType /\ Good(ps, proc_ptr, deadline) /\ proc_ptr \in Proc
      /\ maxpri \in [Proc -> Queue] /\ deadline \in [Proc -> 0..TMR_NEVER]
      /\ armed \subseteq User /\ vtimer \subseteq User
  BY DEF SchedInv, TypeOK
<1>5. CASE SysStep(ps, "reply") /\ UNCHANGED proc_vars
  BY <1>1, <1>4, <1>5, HandlerSame DEF proc_vars
<1>6. CASE /\ Isempty(ch) /\ SysStep(j, "reply")
           /\ maxpri' = [maxpri EXCEPT ![ch] = maxpri[pa]]
           /\ deadline' = [deadline EXCEPT ![ch] = deadline[pa]]
           /\ vtimer' = vtimer \ {ch} /\ UNCHANGED armed
  <2>1. /\ ps.rts \in [Proc -> SUBSET RtsFlags] /\ ps.pri \in [Proc -> Queue]
        /\ ps.ticks \in [Proc -> Ticks] /\ ps.rdy \in [Queue -> Seq(Proc)]
    BY <1>4 DEF PsType
  <2>2. t \in [Proc -> Ticks]
    <3>1. \A n \in Ticks : Half(n) \in Ticks /\ Half(n + 1) \in Ticks
      BY ConstantTypes DEF Half, Ticks
    <3> HIDE DEF pa, ch
    <3> QED BY <1>3, <2>1, <3>1
  <2>3. flags \in SUBSET RtsFlags /\ "VMINHIBIT" \in flags
        /\ flags \cap {"PREEMPTED", "NO_QUANTUM"} = {}
    <3>1. ps.rts[pa] \cap {"PREEMPTED", "NO_QUANTUM"} = {}
      BY <1>1, <1>3, NoneAside
    <3> QED BY <1>3, <2>1, <3>1 DEF RtsFlags
  <2> HIDE DEF pa, ch, flags, t
  <2>4. j.rts = [ps.rts EXCEPT ![ch] = flags] /\ j.pri = [ps.pri EXCEPT ![ch] = ps.pri[pa]]
        /\ j.rdy = ps.rdy
    BY <1>4 DEF PsType
  <2>5. j \in PsType
    <3>1. [ps.rts EXCEPT ![ch] = flags] \in [Proc -> SUBSET RtsFlags]
      BY <2>1, <2>3
    <3>2. [ps.pri EXCEPT ![ch] = ps.pri[pa]] \in [Proc -> Queue]
      BY <1>3, <2>1
    <3> QED BY <1>4, <2>2, <3>1, <3>2 DEF PsType
  <2> HIDE DEF j
  <2>6. /\ deadline' \in [Proc -> 0..TMR_NEVER] /\ maxpri' \in [Proc -> Queue]
        /\ \A r \in Proc \ {ch} : deadline'[r] = deadline[r]
    BY <1>3, <1>4, <1>6
  <2>7. Good(j, proc_ptr, deadline')
    <3>1. ~Runnable(ps, ch)
      BY <1>6 DEF Isempty, Runnable
    <3>2. \A r \in Proc \ {ch} : /\ j.rts[r] = ps.rts[r] /\ j.pri[r] = ps.pri[r]
                                 /\ deadline'[r] = deadline[r]
      BY <1>3, <2>1, <2>4, <2>6
    <3>3. j.rts[ch] # {} /\ j.rts[ch] \cap {"PREEMPTED", "NO_QUANTUM"} = {} /\ j.rdy = ps.rdy
      BY <1>3, <2>1, <2>3, <2>4
    <3> QED BY <1>3, <1>4, <2>5, <3>1, <3>2, <3>3, BlockedUpdate
  <2>8. TaskFlags(ps, j, {})
    BY <1>3, <2>1, <2>4 DEF TaskFlags
  <2>9. armed' \subseteq User /\ vtimer' \subseteq User
    BY <1>4, <1>6
  <2> QED BY <1>1, <1>6, <2>6, <2>7, <2>8, <2>9, HandlerStep
<1>7. \/ SysStep(ps, "reply") /\ UNCHANGED proc_vars
      \/ /\ Isempty(ch) /\ SysStep(j, "reply")
         /\ maxpri' = [maxpri EXCEPT ![ch] = maxpri[pa]]
         /\ deadline' = [deadline EXCEPT ![ch] = deadline[pa]]
         /\ vtimer' = vtimer \ {ch} /\ UNCHANGED armed
  BY Zenon DEF Fork
<1> HIDE DEF j, ch, pa
<1> QED BY <1>5, <1>6, <1>7

(* do_exit(), in its three parts.                                          *)
LEMMA ExitInv ==
    ASSUME SchedInv, Exit \/ ExitFree \/ \E p \in Slot : ExitWake(p)
    PROVE  SchedInv'
<1> DEFINE p == req.tgt
<1>1. proc_ptr = SYSTEM /\ mode = "run" /\ sys_pc # "receive"
  BY DEF Exit, ExitFree, ExitWake, InSystem
<1>2. p \in User /\ p \in Slot /\ p \in Proc /\ p >= 0 /\ Proc \subseteq Int
  <2>1. p \in User
    BY <1>1 DEF SchedInv, CtlReq
  <2>2. Proc \subseteq Int
    BY ConstantTypes
  <2> QED BY <2>1, <2>2, UserProc
<1>3. ps \in PsType /\ Good(ps, proc_ptr, deadline) /\ proc_ptr \in Proc
      /\ maxpri \in [Proc -> Queue] /\ deadline \in [Proc -> 0..TMR_NEVER]
      /\ armed \subseteq User /\ vtimer \subseteq User
  BY DEF SchedInv, TypeOK
<1>4. CASE Exit
  <2> DEFINE f == {"NO_ENDPOINT"}
             e == RTS_SET(ps, p, f)
             j == [e EXCEPT !.rts[p] = e.rts[p] \ {"RECEIVING"}]
  <2>1. f \in SUBSET RtsFlags /\ f # {} /\ f \cap {"PREEMPTED", "NO_QUANTUM"} = {}
        /\ "RECEIVING" \notin f
    BY DEF RtsFlags
  <2>2. SysStep(j, "exit_wake") /\ UNCHANGED <<maxpri, deadline, armed, vtimer>>
    BY <1>4 DEF Exit, proc_vars
  <2> HIDE DEF p, f
  <2>3. Good(e, proc_ptr, deadline) /\ TaskFlags(ps, e, {}) /\ e.rts[p] = ps.rts[p] \cup f
    BY <1>2, <1>3, <2>1, SlotSet
  <2> HIDE DEF e
  <2>4. e \in PsType /\ e.rts \in [Proc -> SUBSET RtsFlags]
    BY <2>3 DEF Good, KInv, PsType
  <2>5. e.rts[p] \ {"RECEIVING"} \in SUBSET RtsFlags
    BY <1>2, <2>4
  <2>6. j \in PsType /\ j.rts = [e.rts EXCEPT ![p] = e.rts[p] \ {"RECEIVING"}]
        /\ j.rdy = e.rdy /\ j.pri = e.pri
    BY <1>2, <2>4, <2>5, SetFlags
  <2> HIDE DEF j
  <2>7. \A r \in Proc \ {p} : j.rts[r] = e.rts[r] /\ j.pri[r] = e.pri[r]
    BY <2>4, <2>6
  <2>8. j.rts[p] # {} /\ j.rts[p] \cap {"PREEMPTED", "NO_QUANTUM"} = {}
    <3>1. ps.rts[p] \cap {"PREEMPTED", "NO_QUANTUM"} = {}
      BY <1>1, <1>2, NoneAside
    <3> QED BY <1>2, <2>1, <2>3, <2>4, <2>6, <3>1
  <2>9. ~Runnable(e, p)
    BY <2>1, <2>3 DEF Runnable
  <2>10. Good(j, proc_ptr, deadline)
    <3>1. j \in PsType /\ j.rdy = e.rdy
      BY <2>6
    <3>2. p \in Proc /\ proc_ptr \in Proc /\ Good(e, proc_ptr, deadline)
      BY <1>2, <1>3, <2>3
    <3>3. \A r \in Proc \ {p} : /\ j.rts[r] = e.rts[r] /\ j.pri[r] = e.pri[r]
                                /\ deadline[r] = deadline[r]
      BY <2>7
    <3> QED BY <2>8, <2>9, <3>1, <3>2, <3>3, BlockedUpdate
  <2>11. TaskFlags(ps, j, {})
    <3>1. \A r \in Proc : r < 0 => r # p
      BY <1>2
    <3> QED BY <2>3, <2>7, <3>1, Zenon DEF TaskFlags
  <2> QED BY <1>1, <1>3, <2>2, <2>10, <2>11, HandlerStep
<1>5. CASE ExitFree
  <2> DEFINE e == RTS_SETFLAGS(ps, p, {"SLOT_FREE"})
  <2>1. SysStep(e, "reply") /\ deadline' = [deadline EXCEPT ![p] = 0]
        /\ armed' = armed \ {p} /\ maxpri' = maxpri /\ vtimer' = vtimer
    BY <1>5 DEF ExitFree
  <2> HIDE DEF p
  <2>2. deadline' \in [Proc -> 0..TMR_NEVER] /\ \A r \in Proc \ {p} : deadline'[r] = deadline[r]
    BY <1>2, <1>3, <2>1, ConstantTypes
  <2>3. Good(e, proc_ptr, deadline') /\ TaskFlags(ps, e, {p})
    <3>1. p \in Proc /\ proc_ptr \in Proc /\ Good(ps, proc_ptr, deadline)
      BY <1>2, <1>3
    <3>2. \A r \in Proc \ {p} : deadline'[r] = deadline[r]
      BY <2>2
    <3> QED BY <3>1, <3>2, RtsSetflagsGood
  <2> HIDE DEF e
  <2>4. TaskFlags(ps, e, {})
    <3>1. \A r \in Proc : r < 0 => r # p
      BY <1>2
    <3> QED BY <2>3, <3>1, Zenon DEF TaskFlags
  <2>5. maxpri' \in [Proc -> Queue] /\ armed' \subseteq User /\ vtimer' \subseteq User
    BY <1>3, <2>1
  <2> QED BY <1>1, <2>1, <2>2, <2>3, <2>4, <2>5, HandlerStep
<1>6. ASSUME NEW r \in Slot, ExitWake(r)
      PROVE  SchedInv'
  BY <1>1, <1>6, HandlerUnset DEF ExitWake
<1> QED BY <1>4, <1>5, <1>6

(* The handlers that stop, resume or signal a process.                     *)
LEMMA FlagHandlersInv ==
    ASSUME SchedInv, Runctl \/ Getksig \/ Endksig \/ Vmctl \/ Vtimer
    PROVE  SchedInv'
<1> DEFINE p == req.tgt
<1>1. proc_ptr = SYSTEM /\ mode = "run" /\ sys_pc # "receive"
  BY DEF Runctl, Getksig, Endksig, Vmctl, Vtimer, InSystem
<1>2. p \in User /\ p \in Slot
  <2>1. p \in User
    BY <1>1 DEF SchedInv, CtlReq
  <2> QED BY <2>1, ConstantTypes
<1>3. Good(ps, proc_ptr, deadline) /\ vtimer \subseteq User
      /\ maxpri \in [Proc -> Queue] /\ deadline \in [Proc -> 0..TMR_NEVER]
      /\ armed \subseteq User
  BY DEF SchedInv, TypeOK
<1>4. CASE Runctl
  <2> DEFINE f == {"PROC_STOP"}
             e == RTS_SET(ps, p, f)
  <2>1. CASE sys_pc # "stop"
    <3>1. SysStep(RTS_UNSET(ps, p, f), "reply") /\ UNCHANGED proc_vars
      BY <1>4, <2>1 DEF Runctl
    <3> QED BY <1>1, <1>2, <3>1, HandlerUnset
  <2>2. CASE sys_pc = "stop"
    <3>1. f \in SUBSET RtsFlags /\ f # {} /\ f \cap {"PREEMPTED", "NO_QUANTUM"} = {}
      BY DEF RtsFlags
    <3>2. SysStep(e, "reply") /\ UNCHANGED <<maxpri, deadline, armed, vtimer>>
      BY <1>4, <2>2 DEF Runctl, proc_vars
    <3> HIDE DEF f
    <3>3. Good(e, proc_ptr, deadline) /\ TaskFlags(ps, e, {})
      BY <1>2, <1>3, <3>1, SlotSet
    <3> HIDE DEF e
    <3> QED BY <1>1, <1>3, <3>2, <3>3, HandlerStep
  <2> QED BY <2>1, <2>2
<1>5. CASE Getksig
  <2> DEFINE S == {r \in Slot : "SIGNALED" \in ps.rts[r]}
             w == CHOOSE r \in S : \A u \in S : r <= u
  <2>1. CASE S = {}
    BY <1>1, <1>3, <1>5, <2>1, HandlerSame DEF Getksig, proc_vars
  <2>2. CASE S # {}
    <3>1. S \subseteq Nat
      BY QueueAssumption, SchedAssumption DEF Slot
    <3>2. PICK r \in S : \A u \in S : r <= u
      BY <2>2, <3>1, LeastNat
    <3>3. w \in S
      <4> HIDE DEF S
      <4> QED BY <3>2
    <3>4. w \in Slot
      BY <3>3
    <3>5. SysStep(RTS_UNSET(ps, w, {"SIGNALED"}), "reply") /\ UNCHANGED proc_vars
      BY <1>5, <2>2 DEF Getksig
    <3> HIDE DEF w
    <3> QED BY <1>1, <3>4, <3>5, HandlerUnset
  <2> QED BY <2>1, <2>2
<1>6. CASE Endksig
  <2> DEFINE e == RTS_UNSET(ps, p, {"SIG_PENDING"})
  <2>1. SysStep(e, "reply") \/ SysStep(ps, "reply")
    BY <1>6 DEF Endksig
  <2>2. UNCHANGED proc_vars /\ UNCHANGED <<maxpri, deadline, armed>> /\ vtimer' \subseteq User
    BY <1>3, <1>6 DEF Endksig, proc_vars
  <2> QED BY <1>1, <1>2, <2>1, <2>2, HandlerUnset, HandlerSame
<1>7. CASE Vmctl
  <2> DEFINE f == IF req.arg = 0 THEN {"VMINHIBIT"} ELSE {"VMREQUEST"}
  <2>1. SysStep(RTS_UNSET(ps, p, f), "reply") /\ UNCHANGED proc_vars
    BY <1>7 DEF Vmctl
  <2> HIDE DEF f
  <2> QED BY <1>1, <1>2, <2>1, HandlerUnset
<1>8. CASE Vtimer
  <2>1. vtimer' \subseteq User /\ UNCHANGED <<maxpri, deadline, armed>> /\ SysStep(ps, "reply")
    BY <1>2, <1>3, <1>8 DEF Vtimer
  <2> QED BY <1>1, <2>1, HandlerSame
<1> QED BY <1>4, <1>5, <1>6, <1>7, <1>8

-----------------------------------------------------------------------------
(* A step of CLOCK.                                                        *)
LEMMA ClockStep ==
    ASSUME SchedInv, proc_ptr = CLOCK, mode \in {"run", "balance"},
           mode' \in {"run", "balance"}, Good(ps, proc_ptr, deadline)',
           TaskFlags(ps, ps', {}), Keeps(ps, ps', {"RECEIVING"}),
           UNCHANGED <<maxpri, vtimer, proc_ptr, bill_ptr, callers, req, sys_pc>>,
           deadline' \in [Proc -> 0..TMR_NEVER], armed' \subseteq User,
           clk_due' \in BOOLEAN, clk_pc' \in {"receive", "expire"}, bal' \in 0..NR_PROCS
    PROVE  SchedInv'
<1>1. CtlReq'
  BY ReqKept
<1>2. /\ maxpri' \in [Proc -> Queue] /\ vtimer' \subseteq User /\ callers' \subseteq Server
      /\ req' \in [from : Server, op : AllCalls, tgt : Slot, arg : Int]
      /\ sys_pc' \in SysPcs
  BY DEF SchedInv, TypeOK
<1>3. mode' \in Modes
  BY DEF Modes
<1> QED BY <1>1, <1>2, <1>3, TaskStep

(* The steps of CLOCK, and of the watchdogs it runs.                       *)
LEMMA ClockTaskInv ==
    ASSUME SchedInv, ClockTask
    PROVE  SchedInv'
<1>1. ReadsOK /\ proc_ptr \in Proc /\ ps \in PsType /\ Good(ps, proc_ptr, deadline)
  BY DEF SchedInv, TypeOK, ReadsOK
<1>2. proc_ptr = CLOCK /\ mode \in {"run", "balance"}
  BY DEF ClockTask, ClockReceive, ClockDone, BalanceQueues, BalanceSlot, BalanceEnd,
         ReachDeadline, CauseAlarm, InClock, SchedInv, CtlMode
<1>3. TaskFlags(ps, ps, {}) /\ Keeps(ps, ps, {"RECEIVING"})
  BY DEF TaskFlags, Keeps
<1>4. /\ maxpri \in [Proc -> Queue] /\ deadline \in [Proc -> 0..TMR_NEVER]
      /\ armed \subseteq User /\ clk_due \in BOOLEAN /\ clk_pc \in {"receive", "expire"}
      /\ bal \in 0..NR_PROCS
  BY DEF SchedInv, TypeOK
<1>5. \A s \in Server : s # proc_ptr /\ PM # proc_ptr
  <2>1. Server \subseteq Slot /\ PM \in Slot /\ \A p \in Slot : p # CLOCK
    BY ConstantTypes DEF Slot, CLOCK
  <2> QED BY <1>2, <2>1
<1>6. CASE ClockReceive
  <2>1. CASE clk_due
    <3>1. /\ UNCHANGED <<ps, maxpri, deadline, armed, vtimer, proc_ptr, bill_ptr, mode,
                         callers, req, sys_pc, bal>>
          /\ clk_due' = FALSE /\ clk_pc' = "expire"
      BY <1>6, <2>1 DEF ClockReceive, proc_vars
    <3> QED BY <1>1, <1>2, <1>3, <1>4, <3>1, ClockStep
  <2>2. CASE ~clk_due
    <3> DEFINE f == {"RECEIVING"}
    <3>1. f \in SUBSET RtsFlags /\ f # {} /\ f \cap {"PREEMPTED", "NO_QUANTUM"} = {}
      BY DEF RtsFlags
    <3>2. /\ UNCHANGED <<maxpri, deadline, armed, vtimer, proc_ptr, bill_ptr,
                         callers, req, sys_pc, clk_due, clk_pc, bal>>
          /\ clk_pc = "receive" /\ mode' = "check" /\ ps' = RTS_SET(ps, CLOCK, f)
          /\ mode = "run"
      BY <1>6, <2>2 DEF ClockReceive, proc_vars, InClock
    <3>3. KInv(ps) /\ ps.rts \in [Proc -> SUBSET RtsFlags] /\ ps.rts[CLOCK] = {}
      BY <1>1, <1>2, <3>2 DEF Good, KInv, PsType, SchedInv, CtlMode, Runnable
    <3>4. CLOCK \in Proc /\ SYSTEM \in Proc /\ SYSTEM # CLOCK
      BY ConstantTypes DEF SYSTEM, CLOCK
    <3> HIDE DEF f
    <3>5. Good(ps', proc_ptr, deadline) /\ ps'.rts = [ps.rts EXCEPT ![CLOCK] = @ \cup f]
      <4>1. Good(RTS_SET(ps, CLOCK, f), proc_ptr, deadline)
        BY <1>1, <3>1, <3>4, RtsSetGood
      <4>2. RTS_SET(ps, CLOCK, f).rts = [ps.rts EXCEPT ![CLOCK] = @ \cup f]
        BY <3>1, <3>3, <3>4, RtsSet, SMTT(20)
      <4> QED BY <3>2, <4>1, <4>2
    <3>6. ps'.rts[CLOCK] = f /\ ps'.rts[SYSTEM] = ps.rts[SYSTEM]
      BY <3>3, <3>4, <3>5
    <3>7. CtlTasks'
      BY <3>2, <3>6 DEF SchedInv, CtlTasks, f
    <3>8. CtlMode'
      BY <3>2 DEF SchedInv, CtlMode, Billable
    <3>9. CtlReq'
      <4>1. Keeps(ps, ps', {"RECEIVING"})
        BY <3>3, <3>5 DEF Keeps
      <4> QED BY <3>2, <4>1, ReqKept
    <3>10. TypeOK'
      <4>1. ps' \in PsType
        BY <3>5 DEF Good, KInv
      <4> QED BY <3>2, <4>1 DEF SchedInv, TypeOK, Modes
    <3> QED BY <3>2, <3>5, <3>7, <3>8, <3>9, <3>10 DEF SchedInv
  <2> QED BY <2>1, <2>2
<1>7. CASE ClockDone
  <2>1. /\ UNCHANGED <<ps, maxpri, deadline, armed, vtimer, proc_ptr, bill_ptr, mode,
                       callers, req, sys_pc, clk_due, bal>>
        /\ clk_pc' = "receive"
    BY <1>7 DEF ClockDone, proc_vars
  <2> QED BY <1>1, <1>2, <1>3, <1>4, <2>1, ClockStep
<1>8. ASSUME NEW p \in User, ReachDeadline(p)
      PROVE  SchedInv'
  <2>1. /\ UNCHANGED <<maxpri, vtimer, proc_ptr, bill_ptr, mode, callers, req, sys_pc,
                       clk_due, clk_pc, bal>>
        /\ deadline' = [deadline EXCEPT ![p] = TMR_NEVER]
        /\ armed' = armed \ {p} /\ ps' = cause_sig(ps, p)
    BY <1>8 DEF ReachDeadline, task_vars
  <2>2. p \in Proc /\ TMR_NEVER \in 0..TMR_NEVER
    BY UserProc, QueueAssumption, SchedAssumption
  <2>3. /\ Good(ps', proc_ptr, deadline) /\ TaskFlags(ps, ps', {})
        /\ Keeps(ps, ps', {"RECEIVING"}) /\ "SIGNALED" \in ps'.rts[p]
    <3>1. PM # proc_ptr
      BY <1>5, ConstantTypes
    <3> QED BY <1>1, <2>1, <3>1, CauseSigGood
  <2>4. /\ deadline' \in [Proc -> 0..TMR_NEVER]
        /\ \A r \in Proc \ {p} : deadline'[r] = deadline[r]
    BY <1>4, <2>1, <2>2
  <2>5. Good(ps', proc_ptr, deadline')
    <3>1. ~Runnable(ps', p) /\ ps'.rts[p] # {} /\ ps' \in PsType
      BY <2>3 DEF Runnable, Good, KInv
    <3>2. ps'.rts[p] \cap {"PREEMPTED", "NO_QUANTUM"} = {}
      BY <1>2, <2>2, <2>3, TasksNotPreemptible DEF Good, Aside
    <3>3. \A r \in Proc \ {p} : /\ ps'.rts[r] = ps'.rts[r] /\ ps'.pri[r] = ps'.pri[r]
                                /\ deadline'[r] = deadline[r]
      BY <2>4
    <3> QED BY <1>1, <2>2, <2>3, <3>1, <3>2, <3>3, BlockedUpdate
  <2>6. armed' \subseteq User
    BY <1>4, <2>1
  <2> QED BY <1>2, <1>4, <2>1, <2>3, <2>4, <2>5, <2>6, ClockStep
<1>9. ASSUME NEW s \in Server, CauseAlarm(s)
      PROVE  SchedInv'
  <2>1. /\ UNCHANGED <<maxpri, deadline, armed, vtimer, proc_ptr, bill_ptr, mode, callers,
                       req, sys_pc, clk_due, clk_pc, bal>>
        /\ ps' = notify(ps, s)
    BY <1>9 DEF CauseAlarm, proc_vars, task_vars
  <2>2. Good(ps', proc_ptr, deadline) /\ TaskFlags(ps, ps', {}) /\ Keeps(ps, ps', {"RECEIVING"})
    BY <1>1, <1>5, <2>1, NotifyGood
  <2> QED BY <1>2, <1>4, <2>1, <2>2, ClockStep
<1>10. CASE BalanceQueues \/ BalanceEnd
  <2>1. /\ UNCHANGED <<ps, maxpri, deadline, armed, vtimer, proc_ptr, bill_ptr, callers,
                       req, sys_pc, clk_due, clk_pc>>
        /\ mode' \in {"run", "balance"} /\ bal' = 0
    BY <1>10 DEF BalanceQueues, BalanceEnd, proc_vars
  <2>2. bal' \in 0..NR_PROCS
    BY <2>1, QueueAssumption, SchedAssumption
  <2> QED BY <1>1, <1>2, <1>3, <1>4, <2>1, <2>2, ClockStep
<1>11. CASE BalanceSlot
  <2>1. /\ UNCHANGED <<maxpri, deadline, armed, vtimer, proc_ptr, bill_ptr, mode, callers,
                       req, sys_pc, clk_due, clk_pc>>
        /\ bal < NR_PROCS /\ bal' = bal + 1
        /\ ps' \in {ps, Balanced(ps, bal)}
    BY <1>11 DEF BalanceSlot, proc_vars
  <2>2. bal \in Proc /\ bal' \in 0..NR_PROCS
    <3>1. bal \in Slot /\ bal' \in 0..NR_PROCS
      BY <1>4, <2>1, QueueAssumption, SchedAssumption DEF Slot
    <3> QED BY <3>1, ConstantTypes
  <2>3. ~Preemptible(proc_ptr)
    BY <1>2, TasksNotPreemptible
  <2>4. Good(Balanced(ps, bal), proc_ptr, deadline) /\ Balanced(ps, bal).rts = ps.rts
    BY <1>1, <1>4, <2>2, <2>3, BalancedGood
  <2>5. Good(ps', proc_ptr, deadline) /\ ps'.rts = ps.rts
    BY <1>1, <2>1, <2>4
  <2>6. TaskFlags(ps, ps', {}) /\ Keeps(ps, ps', {"RECEIVING"})
    BY <2>5 DEF TaskFlags, Keeps
  <2> QED BY <1>2, <1>4, <2>1, <2>2, <2>5, <2>6, ClockStep
<1> QED BY <1>6, <1>7, <1>8, <1>9, <1>10, <1>11 DEF ClockTask

-----------------------------------------------------------------------------
(* After boot the queues are empty and every process waits.                *)
LEMMA InitInv == Init => SchedInv
<1> SUFFICES ASSUME Init
             PROVE  SchedInv
  OBVIOUS
<1> DEFINE W == [p \in Proc |-> CASE p \in {IDLE, HARDWARE} -> {"PROC_STOP"}
                                  [] p \in User \ Booted    -> {"SLOT_FREE"}
                                  [] OTHER                  -> {"RECEIVING"}]
           E == [q \in Queue |-> <<>>]
<1>1. \A p \in Proc : W[p] \in {{"PROC_STOP"}, {"SLOT_FREE"}, {"RECEIVING"}}
  OBVIOUS
<1>2. W \in [Proc -> SUBSET RtsFlags]
  BY <1>1 DEF RtsFlags
<1>3. CLOCK \in Proc /\ SYSTEM \in Proc /\ PM \in Server /\ PM \in Slot
  BY ConstantTypes
<1>4. W[CLOCK] = {"RECEIVING"} /\ W[SYSTEM] = {"RECEIVING"}
  <2>1. CLOCK \notin User /\ SYSTEM \notin User
    BY UserProc
  <2> QED BY <1>3, <2>1 DEF CLOCK, SYSTEM, IDLE, HARDWARE
<1>5. ps = [rts |-> W, pri |-> BaseQ, ticks |-> Quantum, rdy |-> E]
  BY DEF Init
<1> HIDE DEF W
<1>6. ps.rts = W /\ ps.pri = BaseQ /\ ps.rdy = E
  BY <1>5
<1>7. ps \in PsType
  <2>1. Quantum \in [Proc -> Ticks]
    BY QueueAssumption, SchedAssumption DEF Ticks
  <2>2. BaseQ \in [Proc -> Queue]
    BY QueueAssumption, SchedAssumption
  <2>3. E \in [Queue -> Seq(Proc)]
    BY EmptySeq
  <2> HIDE DEF E
  <2> QED BY <1>2, <1>5, <2>1, <2>2, <2>3 DEF PsType
<1>8. TypeOK
  <2>1. maxpri \in [Proc -> Queue] /\ deadline \in [Proc -> 0..TMR_NEVER]
    BY QueueAssumption, SchedAssumption DEF Init
  <2>2. proc_ptr \in Proc /\ bill_ptr \in Proc /\ bal \in 0..NR_PROCS
    BY ConstantTypes DEF Init
  <2>3. req \in [from : Server, op : AllCalls, tgt : Slot, arg : Int]
    BY <1>3 DEF Init, NoRequest, AllCalls
  <2>4. mode \in Modes /\ sys_pc \in SysPcs /\ clk_due \in BOOLEAN
        /\ clk_pc \in {"receive", "expire"} /\ callers \subseteq Server
        /\ armed \subseteq User /\ vtimer \subseteq User
    BY DEF Init, Modes, SysPcs
  <2> QED BY <1>7, <2>1, <2>2, <2>3, <2>4 DEF TypeOK
<1>9. OnQueues(ps)
  <2>1. \A q \in Queue : ps.rdy[q] = <<>>
    BY <1>6
  <2>2. \A x : ~Linked(<<>>, x)
    BY DEF Linked
  <2>3. IsInjective(<<>>)
    BY DEF IsInjective
  <2>4. \A p \in Proc : ~Runnable(ps, p)
    BY <1>1, <1>6 DEF Runnable
  <2> QED BY <2>1, <2>2, <2>3, <2>4 DEF OnQueues
<1>10. Aside(ps, proc_ptr) /\ Prio(ps, proc_ptr) /\ InDeadlineQ(ps, deadline)
  <2>1. \A p \in Proc : deadline[p] = 0
    BY DEF Init
  <2>2. \A p \in Proc : ps.rts[p] \cap {"PREEMPTED", "NO_QUANTUM"} = {}
    BY <1>1, <1>6
  <2>3. ~Preemptible(proc_ptr)
    <3>1. proc_ptr = IDLE
      BY DEF Init
    <3> QED BY <3>1, TasksNotPreemptible
  <2> QED BY <2>1, <2>2, <2>3 DEF Aside, Prio, InDeadlineQ
<1>11. CtlMode /\ CtlReq
  BY DEF Init, CtlMode, CtlReq
<1>12. CtlTasks
  BY <1>4, <1>6 DEF Init, CtlTasks
<1> QED BY <1>7, <1>8, <1>9, <1>10, <1>11, <1>12 DEF SchedInv, Good, KInv

(* Every step preserves the invariant.                                     *)
LEMMA NextInv == SchedInv /\ [Next]_vars => SchedInv'
<1> SUFFICES ASSUME SchedInv, [Next]_vars
             PROVE  SchedInv'
  OBVIOUS
<1>1. CASE Schedcheck
  BY <1>1, SchedcheckInv
<1>2. CASE SystemTask
  BY <1>2, SysIpcInv, LockedInv, ForkInv, ExitInv, FlagHandlersInv DEF SystemTask
<1>3. CASE ClockTask
  BY <1>3, ClockTaskInv
<1>4. CASE SysCall
  BY <1>4, SysCallInv
<1>5. CASE \E exp, due \in BOOLEAN : TimerInt(exp, due)
  BY <1>5, TimerIntInv
<1>6. CASE \E p \in Server : DeviceInt(p)
  <2>1. PICK p \in Server : DeviceInt(p)
    BY <1>6
  <2>2. p \in Slot
    BY ConstantTypes
  <2> QED BY <2>1, <2>2, WakeInv DEF DeviceInt
<1>7. CASE UNCHANGED vars
  <2>1. UNCHANGED <<ps, maxpri, deadline, armed, vtimer, proc_ptr, bill_ptr, mode,
                    callers, req, sys_pc, clk_due, clk_pc, bal>>
    BY <1>7 DEF vars, proc_vars, task_vars
  <2>2. TypeOK'
    BY <2>1 DEF SchedInv, TypeOK
  <2>3. CtlMode' /\ CtlTasks' /\ CtlReq'
    BY <2>1 DEF SchedInv, CtlMode, CtlTasks, CtlReq, Runnable, Billable
  <2> QED BY <2>1, <2>2, <2>3 DEF SchedInv
<1> QED BY <1>1, <1>2, <1>3, <1>4, <1>5, <1>6, <1>7 DEF Next

(* The invariant holds in every reachable state.                           *)
THEOREM Invariance == Spec => []SchedInv
BY InitInv, NextInv, PTL DEF Spec

(* What enqueue(), dequeue(), sched(), do_nice(), do_fork() and the others *)
(* store is in range for every number of processes, queues and ticks.      *)
THEOREM TypeCorrect == Spec => []TypeOK
<1>1. SchedInv => TypeOK
  BY DEF SchedInv
<1> QED BY <1>1, Invariance, PTL

(* check_runqueues() never finds a mistake: whatever handlers interleave,  *)
(* a process is on the queue of its priority, once, exactly when it is     *)
(* runnable.                                                               *)
THEOREM QueuesConsistent == Spec => []RunQueuesOK
<1>1. SchedInv => RunQueuesOK
  BY DEF SchedInv, Good, KInv, RunQueuesOK
<1> QED BY <1>1, Invariance, PTL

(* No process is left behind with PREEMPTED or NO_QUANTUM: schedcheck()    *)
(* removes them from the process it switches out.                          *)
THEOREM NoneLeftAside == Spec => []SetAsideOnlyCurrent
<1>1. SchedInv => SetAsideOnlyCurrent
  <2> SUFFICES ASSUME SchedInv, NEW p \in Proc,
                      ps.rts[p] \cap {"PREEMPTED", "NO_QUANTUM"} # {}
               PROVE  p = proc_ptr /\ mode = "check"
    BY DEF SetAsideOnlyCurrent
  <2>1. p = proc_ptr /\ Preemptible(p)
    BY DEF SchedInv, Good, Aside
  <2>2. proc_ptr # IDLE
    BY <2>1, TasksNotPreemptible
  <2>3. ~Runnable(ps, proc_ptr)
    BY <2>1 DEF Runnable
  <2>4. mode \in Modes
    BY DEF SchedInv, TypeOK
  <2> QED BY <2>1, <2>2, <2>3, <2>4 DEF SchedInv, CtlMode, Modes
<1> QED BY <1>1, Invariance, PTL

(* schedcheck() hands the CPU to runnable processes only, and charges the  *)
(* time of a user process to that process.                                 *)
THEOREM RunsRunnable == Spec => []CurrentRuns
<1>1. SchedInv => CurrentRuns
  BY DEF SchedInv, CtlMode, CurrentRuns
<1> QED BY <1>1, Invariance, PTL

(* enqueue() preempts what is below the process it adds, whichever handler *)
(* calls it.                                                               *)
THEOREM Preemption == Spec => []PriorityRespected
<1>1. SchedInv => PriorityRespected
  BY DEF SchedInv, CtlMode, Good, Prio, Above, PriorityRespected
<1> QED BY <1>1, Invariance, PTL

(* sched() keeps a process with a deadline in the deadline queue, against  *)
(* nice(), balance_queues() and used up quanta.                            *)
THEOREM DeadlineProcesses == Spec => []DeadlineQueue
<1>1. SchedInv => DeadlineQueue
  BY DEF SchedInv, Good, InDeadlineQ, DeadlineQueue, Runnable
<1> QED BY <1>1, Invariance, PTL

(* Only schedcheck() changes the process that executes.                    *)
LEMMA OnlyPickNew ==
    ASSUME SchedInv, [Next]_vars
    PROVE  PickNew \/ (UNCHANGED proc_ptr /\ (mode = "check" => UNCHANGED vars \/ StillRunnable))
<1>1. CASE Schedcheck
  BY <1>1 DEF Schedcheck, StillRunnable, DeliverMsg, DeliverSuspend
<1>2. CASE SystemTask
  BY <1>2 DEF SystemTask, SysWait, SysReply, SysLock, NiceSet, ChdeadlineSet,
       ChdeadlineUnlock, Fork, Exit, ExitFree, Runctl, Getksig, Endksig, Vmctl, Vtimer,
       SysReceive, ExitWake, SysStep, InSystem
<1>3. CASE ClockTask
  BY <1>3 DEF ClockTask, ClockReceive, ClockDone, BalanceQueues, BalanceSlot, BalanceEnd,
       ReachDeadline, CauseAlarm, InClock
<1>4. CASE SysCall
  BY <1>4 DEF SysCall, SysCallBlock, TaskCall, SysCallWake, SysCallSendrec
<1>5. CASE \E exp, due \in BOOLEAN : TimerInt(exp, due)
  BY <1>5 DEF TimerInt, Interruptible
<1>6. CASE \E p \in Server : DeviceInt(p)
  BY <1>6 DEF DeviceInt, Interruptible
<1>7. CASE UNCHANGED vars
  BY <1>7 DEF vars
<1> QED BY <1>1, <1>2, <1>3, <1>4, <1>5, <1>6, <1>7 DEF Next

(* A task gives the CPU up only at its receive(), with no request or       *)
(* notification half handled.                                              *)
THEOREM TasksComplete == Spec => TasksRunToCompletion
<1>1. SchedInv /\ [Next]_vars =>
        [/\ proc_ptr = SYSTEM /\ proc_ptr' # SYSTEM => sys_pc = "receive" /\ callers = {}
         /\ proc_ptr = CLOCK  /\ proc_ptr' # CLOCK  => clk_pc = "receive"]_vars
  <2> SUFFICES ASSUME SchedInv, [Next]_vars
               PROVE  /\ proc_ptr = SYSTEM /\ proc_ptr' # SYSTEM =>
                            sys_pc = "receive" /\ callers = {}
                      /\ proc_ptr = CLOCK /\ proc_ptr' # CLOCK => clk_pc = "receive"
    OBVIOUS
  <2>1. proc_ptr' # proc_ptr => ~Runnable(ps, proc_ptr)
    BY OnlyPickNew DEF PickNew
  <2> QED BY <2>1 DEF SchedInv, CtlTasks, Runnable
<1> QED BY <1>1, Invariance, PTL DEF Spec, TasksRunToCompletion

(* pick_proc() with EDF takes the earliest deadline of all runnable        *)
(* processes, when no system process is runnable.                          *)
THEOREM PicksEarliest == Spec => EarliestDeadlinePicked
<1>1. SchedInv /\ [Next]_vars =>
        [mode = "check" /\ ~Runnable(ps, proc_ptr) /\ proc_ptr' # IDLE =>
           \/ SchedType # 2 \/ ps'.pri[proc_ptr'] < DEADLINE_Q
           \/ \A p \in Proc : Runnable(ps', p) /\ deadline[p] > 0 =>
                  deadline[proc_ptr'] > 0 /\ deadline[proc_ptr'] <= deadline[p]]_vars
  <2> SUFFICES ASSUME SchedInv, [Next]_vars, vars' # vars, mode = "check",
                      ~Runnable(ps, proc_ptr), proc_ptr' # IDLE, SchedType = 2,
                      ~(ps'.pri[proc_ptr'] < DEADLINE_Q)
               PROVE  \A p \in Proc : Runnable(ps', p) /\ deadline[p] > 0 =>
                  deadline[proc_ptr'] > 0 /\ deadline[proc_ptr'] <= deadline[p]
    OBVIOUS
  <2>1. PickNew
    BY OnlyPickNew DEF StillRunnable
  <2>2. ps' = SetAside(ps) /\ proc_ptr' \in Picks(ps')
    BY <2>1 DEF PickNew
  <2>3. ReadsOK /\ deadline \in [Proc -> 0..TMR_NEVER] /\ Good(ps, proc_ptr, deadline)
    BY DEF SchedInv, TypeOK, ReadsOK
  <2>4. KInv(ps') /\ InDeadlineQ(ps', deadline)
    BY <2>2, <2>3, SetAsideDone
  <2> QED BY <2>2, <2>3, <2>4, PicksRun
<1> QED BY <1>1, Invariance, PTL DEF Spec, EarliestDeadlinePicked
=============================================================================

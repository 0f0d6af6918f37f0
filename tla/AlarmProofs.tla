---------------------------- MODULE AlarmProofs ----------------------------
(***************************************************************************)
(* Proofs about alarms: PM's one kernel alarm covers all the timers of its *)
(* users, and no alarm is early.                                           *)
(***************************************************************************)
EXTENDS ClockProofs

(* The invariant behind the alarms. No time that PM computes wraps, so the *)
(* timers in its list have the times the users asked for, and 0 stands for *)
(* the empty list only. SYSTEM touches PM's kernel alarm for PM only, and  *)
(* sets it for the front of PM's list, which cannot change before PM has   *)
(* the answer.                                                             *)
Fits(n) == n \in Nat /\ n + MaxTime <= LONG_MAX

TimesInv ==
    /\ pm.pc = "set" => Fits(pm.arg[3]) /\ pm.arg[3] > 0
    /\ \A u \in User : Fits(alarm[u].iv)
    /\ \A u \in User : Linked(pt.q, u) => pt.exp[u] = alarm[u].due /\ pt.exp[u] > 0

Answer == IF Head0(pt, 0) = 0 THEN Reset(PMAlarm) ELSE Set(PMAlarm, Head0(pt, 0))

CallInv ==
    /\ pm.pc = "called" => task = "system" /\ (job = <<>> \/ job = <<Answer>>)
    /\ pm.pc # "called" => \A i \in 1..Len(job) : job[i].tp # PMAlarm

Covered ==
    \/ pt.q = <<>> \/ pm.note
    \/ Linked(kt.q, PMAlarm) /\ kt.exp[PMAlarm] <= pt.exp[pt.q[1]]

Waits == pm.pc \in {"idle", "set"} \/ (pm.pc = "called" /\ job = <<>>)

CoverInv == OrderInv /\ TimesInv /\ CallInv /\ (Waits => Covered)

(* Initially PM has no timer.                                              *)
LEMMA InitCover == Init => CoverInv
<1> SUFFICES ASSUME Init PROVE CoverInv
  OBVIOUS
<1>1. OrderInv
  BY InitOrder
<1>2. job = <<>> /\ pm.pc = "idle" /\ pt.q = <<>>
  BY DEF Init
<1>3. \A u \in User : ~Linked(pt.q, u) /\ alarm[u] = AlarmOff
  BY <1>2 DEF Init, Linked
<1>4. Fits(0)
  BY ConstantFacts DEF Fits
<1>5. TimesInv
  BY <1>2, <1>3, <1>4 DEF TimesInv, AlarmOff
<1>6. CallInv /\ Covered
  BY <1>2 DEF CallInv, Covered
<1> QED BY <1>1, <1>5, <1>6 DEF CoverInv

(* What the steps that touch neither a user's alarm nor PM's list do to PM. *)
LEMMA PMSteps ==
    ASSUME TypeOK,
           \/ \E n \in 1..(1 + MaxLost) : Tick(n)
           \/ StoreNext \/ Clk \/ Sys
           \/ PMReceive \/ do_setalarm \/ pm_expire_timers
           \/ \E u \in EDF : clear_proc(u) \/ \E k \in Deadlines : do_chdeadline(u, k)
           \/ UNCHANGED vars
    PROVE  /\ UNCHANGED <<pt, alarm>>
           /\ pm'.pc = "set" => pm.pc = "set" /\ pm'.arg = pm.arg
<1>1. pm \in [pc : {"idle", "set", "arm", "called", "expire"}, note : BOOLEAN, arg : Seq(Int)]
  BY DEF TypeOK
<1>2. CASE UNCHANGED <<pm, pt, alarm>>
  BY <1>2
<1>3. CASE ClockExpire
  <2>1. \/ pm' = pm \/ pm' = [pm EXCEPT !.note = TRUE]
        \/ pm' = [pm EXCEPT !.pc = "expire", !.arg = <<realtime>>]
    BY <1>3 DEF ClockExpire
  <2>2. pm'.pc = "set" => pm.pc = "set" /\ pm'.arg = pm.arg
    BY ONLY <1>1, <2>1, Zenon
  <2> QED BY <1>3, <2>2 DEF ClockExpire
<1>4. CASE SystemDone
  <2>1. pm' = [pm EXCEPT !.pc = IF @ = "called" THEN "idle" ELSE @]
    BY <1>4 DEF SystemDone
  <2>2. pm'.pc = "set" => pm.pc = "set" /\ pm'.arg = pm.arg
    BY ONLY <1>1, <2>1
  <2> QED BY <1>4, <2>2 DEF SystemDone
<1>5. CASE PMReceive \/ do_setalarm \/ pm_expire_timers
  <2>1. UNCHANGED <<pt, alarm>>
    BY <1>5 DEF PMReceive, do_setalarm, pm_expire_timers
  <2>2. \/ pm' = [pm EXCEPT !.pc = "expire", !.note = FALSE, !.arg = <<realtime>>]
        \/ pm' = [pm EXCEPT !.pc = "called", !.arg = <<>>]
        \/ pm' = [pm EXCEPT !.pc = "arm", !.arg = <<Head0(pt, 0)>>]
        \/ pm' = [pm EXCEPT !.pc = "idle", !.arg = <<>>]
    BY <1>5 DEF PMReceive, do_setalarm, pm_expire_timers, Arm, Loop
  <2>3. pm'.pc # "set"
    BY ONLY <1>1, <2>2, Zenon
  <2> QED BY <2>1, <2>3
<1>6. CASE \E n \in 1..(1 + MaxLost) : Tick(n)
  BY <1>6, <1>2 DEF Tick
<1>7. CASE StoreNext \/ ClockReceive \/ ClockDone
  BY <1>7, <1>2 DEF StoreNext, ClockReceive, ClockDone
<1>8. CASE SystemUptime \/ SystemStep
  BY <1>8, <1>2 DEF SystemUptime, SystemStep
<1>9. CASE \E u \in EDF : clear_proc(u) \/ \E k \in Deadlines : do_chdeadline(u, k)
  BY <1>9, <1>2, Zenon DEF clear_proc, do_chdeadline
<1>10. CASE UNCHANGED vars
  BY <1>10, <1>2 DEF vars
<1> QED BY <1>3, <1>4, <1>5, <1>6, <1>7, <1>8, <1>9, <1>10 DEF Clk, Sys

(* set_alarm(): the ticks and the interval fit.                            *)
LEMMA CoverSetAlarm ==
    ASSUME CoverInv, OrderInv', NEW u \in User, NEW a \in Alarms[u], set_alarm(u, a[1], a[2])
    PROVE  CoverInv'
<1> USE DEF CoverInv, OrderInv
<1>1. Fits(a[1]) /\ Fits(a[2]) /\ a[1] > 0
  <2>1. a \in Nat \X Nat /\ a[1] > 0
    BY ClockAssumption DEF set_alarm
  <2> QED BY <2>1, AlarmsFit DEF Fits
<1>2. pm \in [pc : {"idle", "set", "arm", "called", "expire"}, note : BOOLEAN, arg : Seq(Int)]
      /\ pm' = [pm EXCEPT !.pc = "set", !.arg = <<realtime, u, a[1]>>] /\ pm.pc = "idle"
  BY DEF set_alarm, TypeOK
<1>3. pm'.pc = "set" /\ pm'.arg = <<realtime, u, a[1]>> /\ pm'.note = pm.note
  BY ONLY <1>2
<1>4. pm'.arg[3] = a[1]
  BY ONLY <1>3
<1>5. alarm \in [User -> [on : BOOLEAN, iv : Nat, due : Int]]
      /\ alarm' = [alarm EXCEPT ![u].iv = a[2]]
  BY DEF TypeOK, set_alarm
<1>6. \A v \in User : /\ alarm'[v].due = alarm[v].due
                      /\ alarm'[v].iv = IF v = u THEN a[2] ELSE alarm[v].iv
  BY ONLY <1>5, u \in User
<1>7. UNCHANGED <<pt, kt, task, job>>
  BY DEF set_alarm
<1>8. TimesInv'
  BY <1>1, <1>3, <1>4, <1>6, <1>7 DEF TimesInv
<1>9. CallInv'
  BY <1>2, <1>3, <1>7 DEF CallInv
<1>10. Covered'
  BY <1>2, <1>3, <1>7 DEF Covered, Waits
<1> QED BY <1>8, <1>9, <1>10

(* pm_set_timer(): the kernel alarm still covers the list, or is set.      *)
LEMMA CoverPMSet ==
    ASSUME CoverInv, OrderInv', pm_set_timer
    PROVE  CoverInv'
<1> USE DEF CoverInv, OrderInv
<1>1. PICK n \in 0..MaxTime, u \in User, k \in Nat : pm.arg = <<n, u, k>>
  BY DEF pm_set_timer, ArgsOK
<1>2. pm.arg[1] = n /\ pm.arg[2] = u /\ pm.arg[3] = k
  BY ONLY <1>1
<1>3. Fits(k) /\ k > 0
  BY <1>2 DEF TimesInv, pm_set_timer
<1>4. n + k \in Time /\ n + k > 0 /\ Long(n + k) = n + k
  <2>1. n + k \in Time /\ n + k > 0 /\ n + k \in Int
    BY <1>3, ConstantFacts DEF Fits, Time
  <2> QED BY <2>1, LongTime
<1> DEFINE l == tmrs_settimer(pt, u, n + k)
           next == Head0(l, 0)
<1>5. /\ pt' = l
      /\ pm' = IF Sooner(Head0(pt, 0), next) THEN Arm(next) ELSE Loop
      /\ alarm' = [alarm EXCEPT ![u].on = TRUE, ![u].due = n + k]
  BY <1>2, <1>4 DEF pm_set_timer
<1>6. pt \in List(User) /\ Ordered(pt) /\ IsInjective(pt.q)
  BY DEF PInv, Ordered
<1>7. Ordered(tmrs_clrtimer(pt, u))
  BY ONLY <1>6, u \in User, ClrFacts, Zenon
<1>8. /\ l \in List(User) /\ Ordered(l) /\ l.exp = [pt.exp EXCEPT ![u] = n + k]
      /\ \A x : Linked(l.q, x) <=> Linked(pt.q, x) \/ x = u
  BY ONLY <1>4, <1>6, <1>7, u \in User, SetFacts
<1> HIDE DEF l
<1>9. next \in Int
  BY <1>8, HeadType, ConstantFacts, Zenon
<1>10. pm'.pc \in {"arm", "idle"} /\ pm'.note = pm.note
       /\ (pm'.pc = "idle" => ~Sooner(Head0(pt, 0), next))
  BY <1>5, <1>9, ArmType
<1>11. alarm \in [User -> [on : BOOLEAN, iv : Nat, due : Int]]
  BY DEF TypeOK
<1>12. /\ alarm'[u].due = n + k
       /\ \A v \in User : alarm'[v].iv = alarm[v].iv /\ (v # u => alarm'[v].due = alarm[v].due)
  BY ONLY <1>5, <1>11, u \in User
<1>13. l.exp[u] = n + k /\ \A v \in User : v # u => l.exp[v] = pt.exp[v]
  BY ONLY <1>6, <1>8, u \in User DEF List
<1>14. TimesInv'
  BY <1>4, <1>5, <1>8, <1>10, <1>12, <1>13, Zenon DEF TimesInv
<1>15. CallInv'
  BY <1>10 DEF CallInv, pm_set_timer
<1>16. ASSUME pm'.pc = "idle" PROVE Covered'
  <2>1. pt.q # <<>> /\ Head0(pt, 0) = pt.exp[pt.q[1]] /\ ~(pt.exp[pt.q[1]] > next)
    BY <1>10, <1>16 DEF Sooner, Head0
  <2>2. l.q # <<>>
    BY <1>8 DEF Linked
  <2>3. next = l.exp[l.q[1]]
    BY <2>2 DEF Head0
  <2>4. pt.exp[pt.q[1]] \in Int /\ kt.exp[PMAlarm] \in Int
    <3>1. pt.exp[pt.q[1]] \in Time
      BY ONLY <1>6, <2>1, HeadFacts
    <3> QED BY <3>1, ConstantFacts, Zenon DEF TypeOK, List
  <2>5. pm.note \/ (Linked(kt.q, PMAlarm) /\ kt.exp[PMAlarm] <= pt.exp[pt.q[1]])
    <3>1. Covered
      BY DEF Waits, pm_set_timer
    <3> QED BY ONLY <2>1, <3>1 DEF Covered
  <2>6. pm.note \/ (Linked(kt.q, PMAlarm) /\ kt.exp[PMAlarm] <= l.exp[l.q[1]])
    BY <2>1, <2>3, <2>4, <2>5, <1>9
  <2>7. kt' = kt
    BY DEF pm_set_timer
  <2> QED BY <2>6, <2>7, <1>5, <1>10 DEF Covered
<1> QED BY <1>10, <1>14, <1>15, <1>16 DEF Waits

(* pm_cancel_timer(): the same.                                            *)
LEMMA CoverPMCancel ==
    ASSUME CoverInv, OrderInv', NEW u \in User, pm_cancel_timer(u)
    PROVE  CoverInv'
<1> USE DEF CoverInv, OrderInv
<1> DEFINE l == tmrs_clrtimer(pt, u)
           next == Head0(l, 0)
<1>1. /\ pt' = l /\ alarm' = [alarm EXCEPT ![u] = AlarmOff]
      /\ pm' = IF Later(Head0(pt, 0), next) THEN Arm(next) ELSE pm
      /\ pm.pc = "idle" /\ UNCHANGED <<kt, task, job>>
  BY DEF pm_cancel_timer
<1>2. pt \in List(User) /\ Ordered(pt) /\ IsInjective(pt.q)
  BY DEF PInv, Ordered
<1>3. /\ l \in List(User) /\ Ordered(l) /\ l.exp = [pt.exp EXCEPT ![u] = TMR_NEVER]
      /\ \A x : Linked(l.q, x) <=> Linked(pt.q, x) /\ x # u
  BY ONLY <1>2, u \in User, ClrFacts
<1> HIDE DEF l
<1>4. next \in Int
  BY <1>3, HeadType, ConstantFacts, Zenon
<1>5. /\ pm'.pc \in {"arm", "idle"} /\ pm'.note = pm.note
      /\ pm'.pc = "idle" => ~Later(Head0(pt, 0), next)
  BY <1>1, <1>4, ArmType
<1>6. alarm \in [User -> [on : BOOLEAN, iv : Nat, due : Int]]
  BY DEF TypeOK
<1>7. alarm'[u].iv = 0 /\ \A v \in User : v # u => alarm'[v] = alarm[v]
  BY ONLY <1>1, <1>6, u \in User DEF AlarmOff
<1>8. \A v \in User : v # u => l.exp[v] = pt.exp[v]
  BY ONLY <1>2, <1>3, u \in User DEF List
<1>9. Fits(0)
  BY ConstantFacts DEF Fits
<1>10. TimesInv'
  BY <1>1, <1>3, <1>5, <1>7, <1>8, <1>9, Zenon DEF TimesInv
<1>11. CallInv'
  BY <1>1, <1>5 DEF CallInv
<1>12. ASSUME pm'.pc = "idle" PROVE Covered'
  <2>1. l.q # <<>>
    <3>1. next # 0
      BY <1>5, <1>12 DEF Later
    <3> QED BY ONLY <3>1 DEF Head0
  <2>n. next = l.exp[l.q[1]]
    BY ONLY <2>1 DEF Head0
  <2>2. l.q[1] \in User /\ Linked(l.q, l.q[1])
    BY ONLY <2>1, <1>3, HeadFacts
  <2>3. Linked(pt.q, l.q[1]) /\ l.q[1] # u /\ pt.q # <<>>
    <3>1. Linked(pt.q, l.q[1]) /\ l.q[1] # u
      BY ONLY <2>2, <1>3
    <3> QED BY ONLY <3>1 DEF Linked
  <2>4. pt.exp[pt.q[1]] <= pt.exp[l.q[1]] /\ pt.exp[pt.q[1]] \in Time
    BY ONLY <2>3, <1>2, HeadFacts
  <2>5. next = pt.exp[l.q[1]]
    BY <2>n, <2>2, <2>3, <1>8
  <2>6. pt.exp[pt.q[1]] \in Int /\ kt.exp[PMAlarm] \in Int
    BY <2>4, ConstantFacts, Zenon DEF TypeOK, List
  <2>7. pm.note \/ (Linked(kt.q, PMAlarm) /\ kt.exp[PMAlarm] <= pt.exp[pt.q[1]])
    <3>1. Covered
      BY <1>1 DEF Waits
    <3> QED BY ONLY <2>3, <3>1 DEF Covered
  <2>8. pm.note \/ (Linked(kt.q, PMAlarm) /\ kt.exp[PMAlarm] <= l.exp[l.q[1]])
    BY ONLY <2>n, <2>4, <2>5, <2>6, <2>7, <1>4
  <2> QED BY <2>8, <1>1, <1>5 DEF Covered
<1> QED BY <1>5, <1>10, <1>11, <1>12 DEF Waits

(* cause_sigalrm(): a timer that is set again is for a time that fits.     *)
LEMMA CoverSigalrm ==
    ASSUME CoverInv, OrderInv', cause_sigalrm
    PROVE  CoverInv'
<1> USE DEF CoverInv, OrderInv
<1> DEFINE u == pt.q[1]
           x == Expired(pt)
           d == realtime + alarm[u].iv
           l == tmrs_settimer(x, u, d)
<1>1. pt \in List(User) /\ Ordered(pt) /\ pt.q # <<>>
  BY DEF PInv, cause_sigalrm, Due
<1>2. /\ x \in List(User) /\ Ordered(x) /\ IsInjective(x.q) /\ u \in User
      /\ x.exp = [pt.exp EXCEPT ![u] = TMR_NEVER]
      /\ \A v : Linked(x.q, v) <=> Linked(pt.q, v) /\ v # u
  <2>1. /\ x \in List(User) /\ Ordered(x) /\ u \in User
        /\ x.exp = [pt.exp EXCEPT ![u] = TMR_NEVER]
        /\ \A v : Linked(x.q, v) <=> Linked(pt.q, v) /\ v # u
    BY ONLY <1>1, ExpiredFacts, Zenon
  <2> QED BY <2>1 DEF Ordered
<1>3. alarm \in [User -> [on : BOOLEAN, iv : Nat, due : Int]] /\ realtime \in 0..MaxTime
  BY DEF TypeOK
<1>4. Fits(alarm[u].iv) /\ Fits(0)
  <2>1. Fits(alarm[u].iv)
    BY <1>2 DEF TimesInv
  <2>2. Fits(0)
    BY ConstantFacts DEF Fits
  <2> QED BY <2>1, <2>2
<1>5. Long(d) = d /\ d \in Time /\ (alarm[u].iv > 0 => d > 0)
  <2>1. d \in Time /\ d \in Int /\ (alarm[u].iv > 0 => d > 0)
    BY <1>3, <1>4, ConstantFacts DEF Fits, Time
  <2> HIDE DEF d
  <2> QED BY <2>1, LongTime
<1>6. \/ /\ alarm[u].iv > 0 /\ pt' = l /\ alarm' = [alarm EXCEPT ![u].due = d]
      \/ pt' = x /\ alarm' = [alarm EXCEPT ![u] = AlarmOff]
  BY <1>5 DEF cause_sigalrm
<1>7. UNCHANGED <<pm, kt, task, job>> /\ pm.pc = "expire"
  BY DEF cause_sigalrm
<1> HIDE DEF u, x, d
<1>8. Ordered(tmrs_clrtimer(x, u))
  BY ONLY <1>2, ClrFacts
<1>9. /\ l.exp = [x.exp EXCEPT ![u] = d]
      /\ \A v : Linked(l.q, v) <=> Linked(x.q, v) \/ v = u
  BY ONLY <1>2, <1>5, <1>8, SetFacts
<1> HIDE DEF l
<1>10. /\ l.exp[u] = d
       /\ \A v \in User : v # u => x.exp[v] = pt.exp[v] /\ l.exp[v] = pt.exp[v]
  BY ONLY <1>1, <1>2, <1>9 DEF List
<1>11. TimesInv'
  <2>1. CASE alarm[u].iv > 0 /\ pt' = l /\ alarm' = [alarm EXCEPT ![u].due = d]
    <3>1. /\ alarm'[u].due = d /\ \A v \in User : alarm'[v].iv = alarm[v].iv
          /\ \A v \in User : v # u => alarm'[v].due = alarm[v].due
      BY ONLY <1>2, <1>3, <2>1
    <3> QED BY <1>2, <1>5, <1>7, <1>9, <1>10, <2>1, <3>1 DEF TimesInv
  <2>2. CASE pt' = x /\ alarm' = [alarm EXCEPT ![u] = AlarmOff]
    <3>1. alarm'[u].iv = 0 /\ \A v \in User : v # u => alarm'[v] = alarm[v]
      BY ONLY <1>2, <1>3, <2>2 DEF AlarmOff
    <3> QED BY <1>2, <1>4, <1>7, <1>10, <2>2, <3>1, Zenon DEF TimesInv
  <2> QED BY <1>6, <2>1, <2>2
<1>12. CallInv' /\ ~Waits'
  BY <1>7 DEF CallInv, Waits
<1> QED BY <1>11, <1>12

(* The steps that leave PM's list alone keep its times.                    *)
LEMMA TimesFrame ==
    ASSUME TimesInv, UNCHANGED <<pt, alarm>>,
           pm'.pc = "set" => pm.pc = "set" /\ pm'.arg = pm.arg
    PROVE  TimesInv'
  BY DEF TimesInv

(* The kernel alarm covers PM's list as long as both stay as they are.     *)
LEMMA CoveredFrame ==
    ASSUME Covered, pt' = pt, pm.note => pm'.note,
           Linked(kt.q, PMAlarm) => /\ Linked(kt'.q, PMAlarm)
                                    /\ kt'.exp[PMAlarm] = kt.exp[PMAlarm]
    PROVE  Covered'
  BY DEF Covered

(* The clock interrupt and CLOCK, but for the watchdogs.                   *)
LEMMA CoverTick ==
    ASSUME CoverInv, OrderInv',
           StoreNext \/ ClockReceive \/ ClockDone \/ \E n \in 1..(1 + MaxLost) : Tick(n)
    PROVE  CoverInv'
<1> USE DEF CoverInv, OrderInv
<1>1. UNCHANGED <<kt, pt, pm, job, alarm>>
  BY DEF StoreNext, ClockReceive, ClockDone, Tick
<1>2. task' = task \/ task \in {"none", "clock"}
  BY DEF StoreNext, ClockReceive, ClockDone, Tick
<1>3. TimesInv' /\ (Waits' => Covered')
  BY <1>1 DEF TimesInv, Waits, Covered
<1>4. CallInv'
  BY <1>1, <1>2 DEF CallInv, Answer, Head0
<1> QED BY <1>3, <1>4

(* The watchdogs: PM's kernel alarm goes off with a notification, or stays. *)
LEMMA CoverClockExpire ==
    ASSUME CoverInv, OrderInv', ClockExpire
    PROVE  CoverInv'
<1> USE DEF CoverInv, OrderInv
<1> DEFINE tp == kt.q[1]
           x  == Expired(kt)
           t  == Long(realtime + Period)
<1>1. kt \in List(KT) /\ Ordered(kt) /\ kt.q # <<>>
  BY DEF ClockExpire, Setting, KInv, Due
<1>2. /\ x \in List(KT) /\ Ordered(x) /\ IsInjective(x.q) /\ tp \in KT
      /\ x.exp = [kt.exp EXCEPT ![tp] = TMR_NEVER]
      /\ \A v : Linked(x.q, v) <=> Linked(kt.q, v) /\ v # tp
  <2>1. /\ x \in List(KT) /\ Ordered(x) /\ tp \in KT
        /\ x.exp = [kt.exp EXCEPT ![tp] = TMR_NEVER]
        /\ \A v : Linked(x.q, v) <=> Linked(kt.q, v) /\ v # tp
    BY ONLY <1>1, ExpiredFacts, Zenon
  <2> QED BY <2>1, Zenon DEF Ordered
<1>3. t \in Time
  <2>1. realtime + Period \in Int
    BY ConstantFacts DEF TypeOK
  <2> QED BY <2>1, LongTime
<1>4. /\ kt' = IF tp = Balance THEN tmrs_settimer(x, tp, t) ELSE x
      /\ pm' = IF tp # PMAlarm THEN pm
               ELSE IF pm.pc = "idle"
               THEN [pm EXCEPT !.pc = "expire", !.arg = <<realtime>>]
               ELSE [pm EXCEPT !.note = TRUE]
      /\ UNCHANGED <<pt, alarm, job, task>> /\ task = "clock"
  BY DEF ClockExpire
<1> HIDE DEF tp, x, t
<1>5. Ordered(tmrs_clrtimer(x, tp))
  BY ONLY <1>2, ClrFacts
<1>6. /\ tmrs_settimer(x, tp, t).exp = [x.exp EXCEPT ![tp] = t]
      /\ \A v : Linked(tmrs_settimer(x, tp, t).q, v) <=> Linked(x.q, v) \/ v = tp
  BY ONLY <1>2, <1>3, <1>5, SetFacts
<1>7. pm.pc # "called"
  BY <1>4 DEF CallInv
<1>8. pm \in [pc : {"idle", "set", "arm", "called", "expire"}, note : BOOLEAN, arg : Seq(Int)]
  BY DEF TypeOK
<1>9. pm'.pc # "called" /\ (pm.note => pm'.note)
  BY ONLY <1>4, <1>7, <1>8
<1>10. CallInv'
  BY <1>4, <1>7, <1>9 DEF CallInv
<1>11. TimesInv'
  BY PMSteps, TimesFrame DEF Clk
<1>12. ASSUME Waits' PROVE Covered'
  <2>1. CASE tp = PMAlarm
    <3>1. pm'.note
      BY ONLY <1>4, <1>8, <1>9, <1>12, <2>1 DEF Waits
    <3> QED BY <3>1 DEF Covered
  <2>2. CASE tp # PMAlarm
    <3>1. x.exp[PMAlarm] = kt.exp[PMAlarm] /\ (Linked(kt.q, PMAlarm) => Linked(x.q, PMAlarm))
      BY ONLY <1>1, <1>2, <2>2, ConstantFacts DEF List
    <3>2. /\ tmrs_settimer(x, tp, t).exp[PMAlarm] = kt.exp[PMAlarm]
          /\ Linked(kt.q, PMAlarm) => Linked(tmrs_settimer(x, tp, t).q, PMAlarm)
      BY ONLY <1>2, <1>6, <2>2, <3>1, ConstantFacts DEF List
    <3>3. /\ kt'.exp[PMAlarm] = kt.exp[PMAlarm]
          /\ Linked(kt.q, PMAlarm) => Linked(kt'.q, PMAlarm)
      BY ONLY <1>4, <3>1, <3>2
    <3>4. Covered /\ pm' = pm /\ pt' = pt
      BY <1>4, <1>7, <1>12, <2>2 DEF Waits
    <3> QED BY <3>3, <3>4, CoveredFrame
  <2> QED BY <2>1, <2>2
<1> QED BY <1>10, <1>11, <1>12

(* A request for a deadline does not touch PM's kernel alarm.              *)
LEMMA CoverDeadline ==
    ASSUME CoverInv, OrderInv', NEW u \in EDF,
           clear_proc(u) \/ \E k \in Deadlines : do_chdeadline(u, k)
    PROVE  CoverInv'
<1> USE DEF CoverInv, OrderInv
<1>1. PICK j : Start(j) /\ \A i \in 1..Len(j) : j[i].tp = u
  <2>1. CASE clear_proc(u)
    <3>1. \A i \in 1..Len(<<Reset(u)>>) : <<Reset(u)>>[i].tp = u
      BY DEF Reset
    <3> QED BY <2>1, <3>1 DEF clear_proc
  <2>2. ASSUME NEW k \in Deadlines, do_chdeadline(u, k)
        PROVE  \E j : Start(j) /\ \A i \in 1..Len(j) : j[i].tp = u
    <3> DEFINE a == IF kt.exp[u] > 0 THEN <<Reset(u)>> ELSE <<>>
               b == IF k # 0 THEN <<SetIn(u, k * DL_HZ)>> ELSE <<>>
    <3>1. a \in Seq(Jobs) /\ \A i \in 1..Len(a) : a[i].tp = u
      <4>1. Reset(u) \in Jobs /\ Reset(u).tp = u
        BY ConstantFacts DEF Reset, Jobs
      <4> QED BY <4>1
    <3>2. b \in Seq(Jobs) /\ \A i \in 1..Len(b) : b[i].tp = u
      <4>1. k * DL_HZ \in Int
        BY ClockAssumption
      <4>2. SetIn(u, k * DL_HZ) \in Jobs /\ SetIn(u, k * DL_HZ).tp = u
        BY <4>1, ConstantFacts DEF SetIn, Jobs
      <4> QED BY <4>2
    <3>3. Start(a \o b)
      BY <2>2 DEF do_chdeadline
    <3> HIDE DEF a, b
    <3>4. \A i \in 1..Len(a \o b) : (a \o b)[i].tp = u
      BY ONLY <3>1, <3>2
    <3> QED BY <3>3, <3>4, Zenon
  <2> QED BY <2>1, <2>2
<1>2. UNCHANGED <<kt, pt, pm, alarm>> /\ task = "none" /\ job' = j
  BY <1>1, Zenon DEF clear_proc, do_chdeadline, Start
<1>3. pm.pc # "called" /\ u # PMAlarm
  BY <1>2, ConstantFacts DEF CallInv
<1>4. CallInv'
  BY <1>1, <1>2, <1>3 DEF CallInv
<1>5. TimesInv' /\ (Waits' => Covered')
  BY <1>2, <1>3, Zenon DEF TimesInv, Waits, Covered
<1> QED BY <1>4, <1>5

(* do_setalarm(): SYSTEM has the front of PM's list.                       *)
LEMMA CoverDoSetalarm ==
    ASSUME CoverInv, OrderInv', do_setalarm
    PROVE  CoverInv'
<1> USE DEF CoverInv, OrderInv
<1>1. pm.arg = <<Head0(pt, 0)>> /\ pt' = pt
  BY DEF do_setalarm, ArgsOK
<1>2. pm.arg[1] = Head0(pt, 0) /\ Head0(pt', 0) = Head0(pt, 0)
  BY ONLY <1>1 DEF Head0
<1>3. job' = <<Answer'>> /\ task' = "system"
  BY <1>2 DEF do_setalarm, Start, Answer
<1>4. pm \in [pc : {"idle", "set", "arm", "called", "expire"}, note : BOOLEAN, arg : Seq(Int)]
      /\ pm' = [pm EXCEPT !.pc = "called", !.arg = <<>>]
  BY DEF do_setalarm, TypeOK
<1>5. pm'.pc = "called"
  BY ONLY <1>4
<1>6. CallInv' /\ ~Waits'
  BY <1>3, <1>5 DEF CallInv, Waits
<1>7. TimesInv'
  BY PMSteps, TimesFrame
<1> QED BY <1>6, <1>7

(* PM's handler of the notification, at both ends.                         *)
LEMMA CoverPMExpire ==
    ASSUME CoverInv, OrderInv', PMReceive \/ pm_expire_timers
    PROVE  CoverInv'
<1> USE DEF CoverInv, OrderInv
<1>1. TimesInv'
  BY PMSteps, TimesFrame
<1>2. UNCHANGED <<task, job, pt>> /\ pm.pc # "called"
  BY DEF PMReceive, pm_expire_timers
<1>3. CASE PMReceive
  <2>1. pm \in [pc : {"idle", "set", "arm", "called", "expire"}, note : BOOLEAN, arg : Seq(Int)]
        /\ pm' = [pm EXCEPT !.pc = "expire", !.note = FALSE, !.arg = <<realtime>>]
    BY <1>3 DEF PMReceive, TypeOK
  <2>2. pm'.pc = "expire"
    BY ONLY <2>1
  <2> QED BY <1>1, <1>2, <2>2 DEF CallInv, Waits
<1>4. CASE pm_expire_timers
  <2>1. Head0(pt, 0) \in Int
    BY HeadType, ConstantFacts, Zenon DEF TypeOK
  <2>2. /\ pm' = IF Head0(pt, 0) > 0 THEN Arm(Head0(pt, 0)) ELSE Loop
    BY <1>4 DEF pm_expire_timers
  <2>3. /\ pm'.pc \in {"arm", "idle"}
        /\ pm'.pc = "idle" => ~(Head0(pt, 0) > 0)
    BY <2>1, <2>2, ArmType
  <2>4. pt.q # <<>> => Head0(pt, 0) > 0
    <3>1. ASSUME pt.q # <<>> PROVE Head0(pt, 0) > 0
      <4>1. pt.q[1] \in User /\ Linked(pt.q, pt.q[1])
        BY <3>1, HeadFacts DEF PInv
      <4> QED BY <3>1, <4>1 DEF TimesInv, Head0
    <3> QED BY <3>1
  <2>5. pm'.pc = "idle" => Covered'
    BY <1>2, <2>3, <2>4 DEF Covered
  <2> QED BY <1>1, <1>2, <2>3, <2>5 DEF CallInv, Waits
<1> QED BY <1>3, <1>4

(* SYSTEM works for another caller: PM's kernel alarm stays as it is.      *)
LEMMA CoverUptime ==
    ASSUME CoverInv, OrderInv', SystemUptime
    PROVE  CoverInv'
<1> USE DEF CoverInv, OrderInv
<1> DEFINE tp   == job[1].tp
           time == Long(job[1].time + realtime)
<1>1. job \in Seq(Jobs) /\ job # <<>> /\ job[1] \in Jobs /\ job[1].op = "in"
  BY DEF SystemUptime, TypeOK
<1>2. pm.pc # "called"
  <2>1. Answer.op # "in"
    BY DEF Answer, Reset, Set
  <2>2. job # <<Answer>>
    BY <1>1, <2>1
  <2> QED BY <1>1, <2>2 DEF CallInv
<1>3. /\ kt' = [kt EXCEPT !.exp[tp] = time] /\ job' = <<Set(tp, time)>> \o Tail(job)
      /\ UNCHANGED <<pt, pm, alarm>>
  BY DEF SystemUptime
<1>4. \A i \in 1..Len(job) : job[i].tp # PMAlarm
  BY <1>2 DEF CallInv
<1>5. tp \in KT /\ tp # PMAlarm /\ kt \in List(KT)
  BY <1>1, <1>4 DEF Jobs, TypeOK
<1>6. Set(tp, time).tp = tp
  BY DEF Set
<1>7. Set(tp, time) \in Jobs
  <2>1. job[1].time + realtime \in Int
    BY <1>1 DEF Jobs, TypeOK
  <2>2. time \in Int
    BY <2>1, LongTime, ConstantFacts, Zenon
  <2> QED BY <1>5, <2>2 DEF Set, Jobs
<1> HIDE DEF tp, time
<1>8. Len(job') = Len(job) /\ job'[1].tp = tp /\ \A i \in 2..Len(job) : job'[i] = job[i]
  BY ONLY <1>1, <1>3, <1>6, <1>7
<1>9. \A i \in 1..Len(job') : job'[i].tp # PMAlarm
  <2>1. ASSUME NEW i \in 1..Len(job') PROVE job'[i].tp # PMAlarm
    <3>1. CASE i = 1
      BY <3>1, <1>5, <1>8
    <3>2. CASE i # 1
      <4>1. i \in 2..Len(job) /\ i \in 1..Len(job)
        BY ONLY <1>1, <1>8, <3>2, i \in 1..Len(job')
      <4> QED BY <4>1, <1>4, <1>8
    <3> QED BY <3>1, <3>2
  <2> QED BY <2>1
<1>10. kt'.q = kt.q /\ kt'.exp[PMAlarm] = kt.exp[PMAlarm]
  BY ONLY <1>3, <1>5, ConstantFacts DEF List
<1>11. CallInv'
  BY <1>2, <1>3, <1>9 DEF CallInv
<1>12. TimesInv'
  BY PMSteps, TimesFrame DEF Sys
<1>13. Waits' => Covered'
  BY <1>2, <1>3, <1>10 DEF Waits, Covered
<1> QED BY <1>11, <1>12, <1>13

(* set_timer() for PM sets the alarm for the front of PM's list; for other *)
(* timers, it leaves PM's alarm alone.                                     *)
LEMMA CoverSystemStep ==
    ASSUME CoverInv, OrderInv', SystemStep
    PROVE  CoverInv'
<1> USE DEF CoverInv, OrderInv
<1> DEFINE tp   == job[1].tp
           time == job[1].time
           r    == tmrs_clrtimer(kt, tp)
           n    == tmrs_settimer(kt, tp, time)
           z    == [r EXCEPT !.exp[tp] = 0]
<1>1. job \in Seq(Jobs) /\ job # <<>> /\ job[1] \in Jobs
  BY DEF SystemStep, TypeOK
<1>2. tp \in KT
  BY <1>1 DEF Jobs
<1>3. kt \in List(KT) /\ IsInjective(kt.q) /\ Ordered(IF Setting THEN r ELSE kt)
  BY DEF KInv
<1>4. /\ kt' = IF job[1].op = "set" THEN n ELSE IF tp \in EDF THEN z ELSE r
      /\ job' = Tail(job) /\ UNCHANGED <<pt, pm, alarm, task>>
  BY DEF SystemStep
<1>5. job[1].op = "set" => time \in Time /\ Ordered(r)
  BY <1>1, <1>3 DEF Setting, SystemStep, JobsOK
<1> HIDE DEF tp, time
<1>6. job[1].op = "set" => /\ n.exp = [kt.exp EXCEPT ![tp] = time]
                           /\ \A x : Linked(n.q, x) <=> Linked(kt.q, x) \/ x = tp
  <2>1. ASSUME time \in Time, Ordered(r)
        PROVE  /\ n.exp = [kt.exp EXCEPT ![tp] = time]
               /\ \A x : Linked(n.q, x) <=> Linked(kt.q, x) \/ x = tp
    BY ONLY <1>2, <1>3, <2>1, SetFacts
  <2> QED BY <1>5, <2>1
<1>7. /\ r.exp = [kt.exp EXCEPT ![tp] = TMR_NEVER]
      /\ \A x : Linked(r.q, x) <=> Linked(kt.q, x) /\ x # tp
  BY ONLY <1>2, <1>3, ClrFacts
<1>8. z.q = r.q /\ z.exp = [r.exp EXCEPT ![tp] = 0]
  BY DEF tmrs_clrtimer
<1> HIDE DEF n, r, z
<1>9. TimesInv'
  BY PMSteps, TimesFrame DEF Sys
<1>10. CASE pm.pc = "called"
  <2>1. job = <<Answer>> /\ task = "system"
    BY <1>1, <1>10 DEF CallInv
  <2>2. job' = <<>> /\ job[1] = Answer
    BY ONLY <2>1, <1>4
  <2>3. CallInv'
    BY <1>4, <1>10, <2>1, <2>2 DEF CallInv
  <2>4. ASSUME pt.q # <<>> PROVE Covered'
    <3>1. pt.q[1] \in User /\ Linked(pt.q, pt.q[1])
      BY <2>4, HeadFacts DEF PInv
    <3>2. Head0(pt, 0) = pt.exp[pt.q[1]] /\ pt.exp[pt.q[1]] > 0 /\ pt.exp[pt.q[1]] \in Time
      BY <2>4, <3>1, Zenon DEF TimesInv, Head0, TypeOK, List
    <3>3. Answer = Set(PMAlarm, pt.exp[pt.q[1]])
      BY <3>2 DEF Answer
    <3>4. job[1].op = "set" /\ tp = PMAlarm /\ time = pt.exp[pt.q[1]]
      BY <2>2, <3>3 DEF Set, tp, time
    <3>5. Linked(n.q, PMAlarm) /\ n.exp[PMAlarm] = pt.exp[pt.q[1]] /\ kt' = n
      BY <1>2, <1>3, <1>4, <1>6, <3>4 DEF List
    <3>6. pt.exp[pt.q[1]] <= pt.exp[pt.q[1]]
      BY <3>2, ConstantFacts
    <3> QED BY <1>4, <3>5, <3>6 DEF Covered
  <2>5. pt.q = <<>> => Covered'
    BY <1>4 DEF Covered
  <2> QED BY <1>9, <2>3, <2>4, <2>5
<1>11. CASE pm.pc # "called"
  <2>1. \A i \in 1..Len(job) : job[i].tp # PMAlarm
    BY <1>11 DEF CallInv
  <2>2. tp # PMAlarm
    BY <1>1, <2>1 DEF tp
  <2>3. \A i \in 1..Len(job') : i + 1 \in 1..Len(job) /\ job'[i] = job[i + 1]
    BY ONLY <1>1, <1>4
  <2>4. CallInv'
    BY <1>4, <1>11, <2>1, <2>3 DEF CallInv
  <2>5. /\ kt'.exp[PMAlarm] = kt.exp[PMAlarm]
        /\ Linked(kt.q, PMAlarm) => Linked(kt'.q, PMAlarm)
    <3>1. r.exp[PMAlarm] = kt.exp[PMAlarm] /\ (Linked(kt.q, PMAlarm) => Linked(r.q, PMAlarm))
      BY ONLY <1>2, <1>3, <1>7, <2>2, ConstantFacts DEF List
    <3>2. z.exp[PMAlarm] = r.exp[PMAlarm] /\ z.q = r.q
      BY ONLY <1>2, <1>3, <1>7, <1>8, <2>2, ConstantFacts DEF List
    <3>3. job[1].op = "set" => /\ n.exp[PMAlarm] = kt.exp[PMAlarm]
                               /\ Linked(kt.q, PMAlarm) => Linked(n.q, PMAlarm)
      BY ONLY <1>2, <1>3, <1>6, <2>2, ConstantFacts DEF List
    <3> QED BY ONLY <1>4, <3>1, <3>2, <3>3
  <2>6. Waits' => Covered'
    BY <1>4, <1>11, <2>5, CoveredFrame DEF Waits
  <2> QED BY <1>9, <2>4, <2>6
<1> QED BY <1>10, <1>11

(* SYSTEM's answer returns PM to its main loop.                            *)
LEMMA CoverSystemDone ==
    ASSUME CoverInv, OrderInv', SystemDone
    PROVE  CoverInv'
<1> USE DEF CoverInv, OrderInv
<1>1. pm \in [pc : {"idle", "set", "arm", "called", "expire"}, note : BOOLEAN, arg : Seq(Int)]
      /\ pm' = [pm EXCEPT !.pc = IF @ = "called" THEN "idle" ELSE @]
  BY DEF SystemDone, TypeOK
<1>2. /\ pm'.pc = IF pm.pc = "called" THEN "idle" ELSE pm.pc
      /\ pm'.note = pm.note
  BY ONLY <1>1
<1>3. job = <<>> /\ UNCHANGED <<job, kt, pt>>
  BY DEF SystemDone
<1>4. CallInv'
  BY <1>2, <1>3 DEF CallInv
<1>5. TimesInv'
  BY PMSteps, TimesFrame DEF Sys
<1>6. Waits' => Covered'
  BY <1>2, <1>3 DEF Waits, Covered
<1> QED BY <1>4, <1>5, <1>6

(* Every step keeps the kernel alarm where it covers PM's list.            *)
LEMMA CoverStep == CoverInv /\ [Next]_vars => CoverInv'
<1> SUFFICES ASSUME CoverInv, [Next]_vars PROVE CoverInv'
  OBVIOUS
<1>1. OrderInv'
  BY OrderStep DEF CoverInv
<1>2. CASE UNCHANGED vars
  <2>1. Head0(pt', 0) = Head0(pt, 0) /\ UNCHANGED <<pt, pm, kt, alarm, task, job>>
    BY <1>2 DEF vars, Head0
  <2> QED BY <1>1, <2>1 DEF CoverInv, TimesInv, CallInv, Answer, Waits, Covered
<1>3. CASE (\E n \in 1..(1 + MaxLost) : Tick(n)) \/ StoreNext \/ Clk
  BY <1>1, <1>3, CoverTick, CoverClockExpire DEF Clk
<1>4. CASE Sys
  BY <1>1, <1>4, CoverUptime, CoverSystemStep, CoverSystemDone DEF Sys
<1>5. CASE PMs
  BY <1>1, <1>5, CoverPMSet, CoverDoSetalarm, CoverSigalrm, CoverPMExpire DEF PMs
<1>6. CASE Request
  BY <1>1, <1>6, CoverSetAlarm, CoverPMCancel, CoverDeadline, Zenon DEF Request
<1> QED BY <1>2, <1>3, <1>4, <1>5, <1>6 DEF Next

(* PM's one kernel alarm covers the alarms of all users, for any users and *)
(* any times that fit.                                                     *)
THEOREM AlarmCovered == Spec => []AlarmCovers
<1>1. CoverInv => AlarmCovers
  BY Zenon DEF CoverInv, Waits, Covered, AlarmCovers
<1> QED BY <1>1, InitCover, CoverStep, PTL DEF Spec

(* cause_sigalrm() is the only step that changes PM's list while PM        *)
(* handles a notification, and it takes a timer that is due.               *)
LEMMA SigalrmDue ==
    ASSUME CoverInv, Next, pm.pc = "expire", pt' # pt
    PROVE  alarm[pt.q[1]].on /\ realtime >= alarm[pt.q[1]].due
<1> USE DEF CoverInv, OrderInv
<1>1. cause_sigalrm
  <2>1. ~pm_set_timer
    BY DEF pm_set_timer
  <2>2. ASSUME NEW u \in User PROVE ~pm_cancel_timer(u)
    BY DEF pm_cancel_timer
  <2>3. ASSUME NEW u \in User, NEW a \in Alarms[u] PROVE ~set_alarm(u, a[1], a[2])
    BY DEF set_alarm
  <2> QED BY <2>1, <2>2, <2>3, PMSteps DEF Next, PMs, Request
<1>2. PICK n \in 0..realtime : pm.arg = <<n>>
  BY DEF ArgsOK
<1>3. pt.q # <<>> /\ pt.exp[pt.q[1]] <= pm.arg[1]
  BY <1>1 DEF cause_sigalrm, Due
<1>4. pt.q[1] \in User /\ Linked(pt.q, pt.q[1]) /\ pt.exp[pt.q[1]] \in Time
  BY <1>3, HeadFacts DEF PInv
<1>5. alarm[pt.q[1]].on /\ pt.exp[pt.q[1]] = alarm[pt.q[1]].due
  BY <1>4 DEF PInv, TimesInv
<1>6. pm.arg[1] = n
  BY ONLY <1>2
<1>7. pt.exp[pt.q[1]] <= n /\ n <= realtime /\ realtime \in Int /\ n \in Int
      /\ pt.exp[pt.q[1]] \in Int
  <2>1. realtime \in Int /\ pt.exp[pt.q[1]] \in Int
    BY <1>4, ConstantFacts, Zenon DEF TypeOK
  <2> QED BY ONLY <2>1, <1>3, <1>6, n \in 0..realtime
<1> QED BY ONLY <1>5, <1>7

(* No alarm goes off early, or for a process that has none.                *)
THEOREM NotEarly == Spec => AlarmNotEarly
<1>1. CoverInv /\ [Next]_vars =>
        [pm.pc = "expire" /\ pt' # pt =>
            alarm[pt.q[1]].on /\ realtime >= alarm[pt.q[1]].due]_vars
  BY SigalrmDue
<1> QED BY <1>1, InitCover, CoverStep, PTL DEF Spec, AlarmNotEarly
=============================================================================

--------------------------- MODULE RunQueueProofs ---------------------------
(***************************************************************************)
(* What the run queue primitives preserve, for every process table, number *)
(* of queues, policy and quantum.                                          *)
(*                                                                         *)
(* Each primitive preserves KInv (types and queues), also when it finds    *)
(* the process it works on off every queue (Off), as between dequeue() and *)
(* enqueue(), and then Good, the part of the scheduler's invariant that is *)
(* about the queues.                                                       *)
(***************************************************************************)
EXTENDS RunQueues, QueueFacts

KInv(k) == k \in PsType /\ OnQueues(k)

(* p is on no queue, the others are where they belong.                     *)
Off(k, p) ==
    \A q \in Queue :
        /\ IsInjective(k.rdy[q])
        /\ \A r \in Proc : Linked(k.rdy[q], r)
                              <=> (r # p /\ Runnable(k, r) /\ k.pri[r] = q)

(* The part of TypeOK that the primitives read.                            *)
ReadsOK == deadline \in [Proc -> 0..TMR_NEVER] /\ proc_ptr \in Proc

(* Process numbers and queue numbers are integers.                         *)
LEMMA QueueConstants ==
    /\ NR_PROCS \in Nat /\ NR_PROCS > 0 /\ NR_SCHED_QUEUES \in Nat /\ NR_SCHED_QUEUES > 0
    /\ CHAR_MAX \in Nat /\ CHAR_MAX > 0 /\ TMR_NEVER \in Nat
    /\ {IDLE, CLOCK, SYSTEM, HARDWARE, PM} \subseteq Proc
    /\ Slot \subseteq Proc /\ PM \in Slot
    /\ Proc \subseteq Int /\ Queue \subseteq Nat
    /\ LOTTERY_Q \in Queue /\ DEADLINE_Q \in Queue
    /\ Quantum \in [Proc -> 0..CHAR_MAX]
<1>1. CLOCK \in Proc \ {IDLE}
  BY QueueAssumption DEF Proc, CLOCK, IDLE
<1>2. Quantum[CLOCK] \in 0..CHAR_MAX /\ Quantum[CLOCK] > 0
  BY <1>1, QueueAssumption
<1>3. CHAR_MAX > 0 /\ CHAR_MAX \in Nat
  BY <1>2, QueueAssumption
<1>4. Slot \subseteq Proc /\ Proc \subseteq Int /\ Queue \subseteq Nat
  BY QueueAssumption DEF IDLE, Proc, Slot, Queue
<1>5. {IDLE, CLOCK, SYSTEM, HARDWARE} \subseteq Proc
  BY QueueAssumption DEF IDLE, CLOCK, SYSTEM, HARDWARE, Proc
<1>6. PM \in Slot
  BY QueueAssumption DEF PM, Slot
<1>7. NR_PROCS > 0 /\ NR_SCHED_QUEUES > 0
  BY QueueAssumption
<1> QED
  BY <1>3, <1>4, <1>5, <1>6, <1>7, QueueAssumption

(* TSK_F and IDL_F: the kernel tasks and IDLE are not preemptible.         *)
LEMMA TasksNotPreemptible ==
    /\ ~Preemptible(IDLE) /\ ~Preemptible(CLOCK) /\ ~Preemptible(SYSTEM)
    /\ \A p \in Proc : Preemptible(p) => p >= 0
    /\ CLOCK < 0 /\ SYSTEM < 0 /\ CLOCK # SYSTEM
BY QueueAssumption DEF Preemptible, Slot, IDLE, CLOCK, SYSTEM

-----------------------------------------------------------------------------
(* A process that is not runnable is off the queues.                       *)
LEMMA BlockedOff ==
    ASSUME NEW k, NEW p \in Proc, ~Runnable(k, p)
    PROVE  OnQueues(k) <=> Off(k, p)
BY DEF OnQueues, Off

(* dequeue() takes a runnable process off its queue.                       *)
LEMMA DequeueOff ==
    ASSUME NEW k, KInv(k), NEW p \in Proc, Runnable(k, p)
    PROVE  /\ dequeue(k, p) \in PsType /\ Off(dequeue(k, p), p)
           /\ dequeue(k, p).rts = k.rts /\ dequeue(k, p).pri = k.pri
           /\ dequeue(k, p).ticks = k.ticks
<1> DEFINE d == dequeue(k, p)
           q == k.pri[p]
           t == Unlink(k.rdy[q], p)
<1>1. k \in PsType /\ q \in Queue /\ k.rdy \in [Queue -> Seq(Proc)]
  BY DEF KInv, PsType
<1>2. d = [k EXCEPT !.rdy = [k.rdy EXCEPT ![q] = t]]
  BY DEF dequeue
<1>3. k.rdy[q] \in Seq(Proc) /\ Linked(k.rdy[q], p) /\ IsInjective(k.rdy[q])
  BY <1>1 DEF KInv, OnQueues
<1>4. t \in Seq(Proc) /\ IsInjective(t)
      /\ \A x : Linked(t, x) <=> Linked(k.rdy[q], x) /\ x # p
  BY <1>3, UnlinkFacts
<1> HIDE DEF t
<1>5. [k.rdy EXCEPT ![q] = t] \in [Queue -> Seq(Proc)]
  BY <1>1, <1>4
<1>6. d.rts = k.rts /\ d.pri = k.pri /\ d.ticks = k.ticks
      /\ d.rdy = [k.rdy EXCEPT ![q] = t] /\ d \in PsType
  BY <1>1, <1>2, <1>5 DEF PsType
<1> HIDE DEF d
<1>7. ASSUME NEW u \in Queue
      PROVE  /\ IsInjective(d.rdy[u])
             /\ \A r \in Proc : Linked(d.rdy[u], r)
                          <=> (r # p /\ Runnable(d, r) /\ d.pri[r] = u)
  <2>1. CASE u = q
    <3>1. d.rdy[u] = t
      BY <1>1, <1>6, <2>1
    <3> QED BY <3>1, <1>4, <1>6, <2>1 DEF KInv, OnQueues, Runnable
  <2>2. CASE u # q
    <3>1. d.rdy[u] = k.rdy[u]
      BY <1>1, <1>6, <2>2
    <3> QED BY <3>1, <1>6, <2>2 DEF KInv, OnQueues, Runnable
  <2> QED BY <2>1, <2>2
<1> QED BY <1>6, <1>7 DEF Off, d

(* While p is off the queues its flags, queue and credit may change.       *)
LEMMA OffChange ==
    ASSUME NEW k \in PsType, NEW j \in PsType, NEW p \in Proc, Off(k, p),
           j.rdy = k.rdy,
           \A r \in Proc \ {p} : j.rts[r] = k.rts[r] /\ j.pri[r] = k.pri[r]
    PROVE  Off(j, p)
BY DEF Off, Runnable

(* Assignment to the flags of a process.                                   *)
LEMMA SetFlags ==
    ASSUME NEW k \in PsType, NEW p \in Proc, NEW f \in SUBSET RtsFlags
    PROVE  /\ [k EXCEPT !.rts[p] = f] \in PsType
           /\ [k EXCEPT !.rts[p] = f].rts = [k.rts EXCEPT ![p] = f]
           /\ [k EXCEPT !.rts[p] = f].rdy = k.rdy
           /\ [k EXCEPT !.rts[p] = f].pri = k.pri
           /\ [k EXCEPT !.rts[p] = f].ticks = k.ticks
BY DEF PsType

(* RTS_SET: the process leaves its queue if it was on one.                 *)
LEMMA RtsSet ==
    ASSUME NEW k, KInv(k), NEW p \in Proc, NEW f \in SUBSET RtsFlags, f # {}
    PROVE  /\ KInv(RTS_SET(k, p, f))
           /\ RTS_SET(k, p, f).rts = [k.rts EXCEPT ![p] = @ \cup f]
           /\ RTS_SET(k, p, f).pri = k.pri
           /\ RTS_SET(k, p, f).ticks = k.ticks
<1> DEFINE d == IF Runnable(k, p) THEN dequeue(k, p) ELSE k
           j == [d EXCEPT !.rts[p] = @ \cup f]
<1>1. d \in PsType /\ Off(d, p) /\ d.rts = k.rts /\ d.pri = k.pri /\ d.ticks = k.ticks
  BY DequeueOff, BlockedOff DEF KInv
<1>2. RTS_SET(k, p, f) = j
  BY DEF RTS_SET
<1>3. j = [d EXCEPT !.rts[p] = d.rts[p] \cup f] /\ d.rts[p] \cup f \in SUBSET RtsFlags
  BY <1>1 DEF PsType
<1> HIDE DEF d
<1>4. j \in PsType /\ j.rts = [k.rts EXCEPT ![p] = @ \cup f] /\ j.rdy = d.rdy
      /\ j.pri = k.pri /\ j.ticks = k.ticks
  BY <1>1, <1>3, SetFlags
<1> HIDE DEF j
<1>5. k.rts \in [Proc -> SUBSET RtsFlags]
  BY DEF KInv, PsType
<1>6. Off(j, p)
  BY <1>1, <1>4, <1>5, OffChange
<1>7. ~Runnable(j, p)
  BY <1>4, <1>5 DEF Runnable
<1> QED BY <1>2, <1>4, <1>6, <1>7, BlockedOff DEF KInv

-----------------------------------------------------------------------------
(* What enqueueing p does: p's queue and credit may change, and cur may    *)
(* get the flag PREEMPTED, if it can be preempted.                         *)
Effect(c, e, p, cur) ==
    /\ \A r \in Proc :
          \/ e.rts[r] = c.rts[r]
          \/ /\ r = cur /\ r # p /\ Preemptible(r)
             /\ e.rts[r] = c.rts[r] \cup {"PREEMPTED"}
    /\ \A r \in Proc \ {p} : e.pri[r] = c.pri[r]

(* sched() chooses a valid queue and renews the credit.                    *)
LEMMA SchedType_ ==
    ASSUME NEW k \in PsType, NEW p \in Proc, ReadsOK
    PROVE  /\ sched(k, p) \in PsType
           /\ sched(k, p).rts = k.rts /\ sched(k, p).rdy = k.rdy
           /\ \A r \in Proc \ {p} : sched(k, p).pri[r] = k.pri[r]
           /\ deadline[p] > 0 => sched(k, p).pri[p] = DEADLINE_Q
<1> DEFINE left  == k.ticks[p] > 0
           lower == IF left \/ k.pri[p] >= NR_SCHED_QUEUES - 1
                    THEN k.pri[p] ELSE k.pri[p] + 1
           t == IF left THEN k.ticks[p] ELSE Quantum[p]
           u == IF deadline[p] > 0 THEN DEADLINE_Q ELSE lower
<1>1. k.pri \in [Proc -> Queue] /\ k.ticks \in [Proc -> Ticks] /\ k.pri[p] \in Queue
  BY DEF PsType
<1>2. lower \in Queue
  BY <1>1, QueueAssumption DEF Queue
<1>3. u \in Queue
  BY <1>2, QueueAssumption
<1>4. t \in Ticks
  BY <1>1, QueueAssumption DEF Ticks
<1>5. sched(k, p) = [k EXCEPT !.ticks = [k.ticks EXCEPT ![p] = t],
                              !.pri = [k.pri EXCEPT ![p] = u]]
  BY DEF sched
<1> HIDE DEF left, lower, t, u
<1>6. [k.ticks EXCEPT ![p] = t] \in [Proc -> Ticks]
      /\ [k.pri EXCEPT ![p] = u] \in [Proc -> Queue]
  BY <1>1, <1>3, <1>4
<1>7. sched(k, p) \in PsType /\ sched(k, p).rts = k.rts /\ sched(k, p).rdy = k.rdy
      /\ sched(k, p).pri = [k.pri EXCEPT ![p] = u]
  BY <1>5, <1>6 DEF PsType
<1> QED BY <1>1, <1>7 DEF u

(* p, off the queues and runnable, joins its queue, which becomes s.       *)
LEMMA Joins ==
    ASSUME NEW k \in PsType, NEW p \in Proc, Off(k, p), Runnable(k, p),
           NEW s \in Seq(Proc), IsInjective(s),
           \A x : Linked(s, x) <=> Linked(k.rdy[k.pri[p]], x) \/ x = p
    PROVE  /\ KInv([k EXCEPT !.rdy[k.pri[p]] = s])
           /\ [k EXCEPT !.rdy[k.pri[p]] = s].rts = k.rts
           /\ [k EXCEPT !.rdy[k.pri[p]] = s].pri = k.pri
<1> DEFINE q == k.pri[p]
           e == [k EXCEPT !.rdy[q] = s]
<1>1. q \in Queue /\ k.rdy \in [Queue -> Seq(Proc)]
  BY DEF PsType
<1>2. [k.rdy EXCEPT ![q] = s] \in [Queue -> Seq(Proc)]
  BY <1>1
<1>3. e.rts = k.rts /\ e.pri = k.pri /\ e.rdy = [k.rdy EXCEPT ![q] = s] /\ e \in PsType
  BY <1>1, <1>2 DEF PsType
<1> HIDE DEF e
<1>4. ASSUME NEW u \in Queue
      PROVE  /\ IsInjective(e.rdy[u])
             /\ \A r \in Proc : Linked(e.rdy[u], r)
                          <=> (Runnable(e, r) /\ e.pri[r] = u)
  <2>1. CASE u = q
    <3>1. e.rdy[u] = s
      BY <1>1, <1>3, <2>1
    <3> QED BY <3>1, <1>3, <2>1 DEF Off, Runnable
  <2>2. CASE u # q
    <3>1. e.rdy[u] = k.rdy[u]
      BY <1>1, <1>3, <2>2
    <3> QED BY <3>1, <1>3, <2>2 DEF Off, Runnable
  <2> QED BY <2>1, <2>2
<1> QED BY <1>3, <1>4 DEF KInv, OnQueues, e

(* At the front or at the back of it.                                      *)
LEMMA PutOn ==
    ASSUME NEW k \in PsType, NEW p \in Proc, Off(k, p), Runnable(k, p),
           NEW s, s = <<p>> \o k.rdy[k.pri[p]] \/ s = Append(k.rdy[k.pri[p]], p)
    PROVE  /\ KInv([k EXCEPT !.rdy[k.pri[p]] = s])
           /\ [k EXCEPT !.rdy[k.pri[p]] = s].rts = k.rts
           /\ [k EXCEPT !.rdy[k.pri[p]] = s].pri = k.pri
<1> DEFINE t == k.rdy[k.pri[p]]
<1>1. t \in Seq(Proc)
  BY DEF PsType
<1>2. ~Linked(t, p) /\ IsInjective(t)
  BY DEF Off, PsType
<1> HIDE DEF t
<1>3. s \in Seq(Proc) /\ IsInjective(s)
      /\ \A x : Linked(s, x) <=> Linked(t, x) \/ x = p
  <2>1. CASE s = <<p>> \o t
    BY <2>1, <1>1, <1>2, AddFront
  <2>2. CASE s = Append(t, p)
    BY <2>2, <1>1, <1>2, AddBack
  <2> QED BY <2>1, <2>2 DEF t
<1> QED BY <1>3, Joins DEF t

(* enqueue(): p is on its queue, in DEADLINE_Q if it has a deadline, and   *)
(* what still runs is not below it.                                        *)
LEMMA Enqueue ==
    ASSUME NEW k \in PsType, NEW p \in Proc, Off(k, p), Runnable(k, p), ReadsOK
    PROVE  /\ KInv(enqueue(k, p))
           /\ Effect(k, enqueue(k, p), p, proc_ptr)
           /\ deadline[p] > 0 => enqueue(k, p).pri[p] = DEADLINE_Q
           /\ Runnable(enqueue(k, p), proc_ptr) /\ Preemptible(proc_ptr) =>
                 enqueue(k, p).pri[proc_ptr] <= enqueue(k, p).pri[p]
<1> DEFINE s == sched(k, p)
           q == s.pri[p]
           n == IF k.ticks[p] > 0 THEN <<p>> \o s.rdy[q] ELSE Append(s.rdy[q], p)
           e == [s EXCEPT !.rdy[q] = n]
           f == RTS_SET(e, proc_ptr, {"PREEMPTED"})
<1>1. /\ s \in PsType /\ s.rts = k.rts /\ s.rdy = k.rdy
      /\ \A r \in Proc \ {p} : s.pri[r] = k.pri[r]
      /\ deadline[p] > 0 => q = DEADLINE_Q
  BY SchedType_
<1>2. Off(s, p) /\ Runnable(s, p)
  BY <1>1, OffChange DEF Runnable
<1>3. enqueue(k, p) = IF e.pri[proc_ptr] > q /\ Preemptible(proc_ptr) THEN f ELSE e
  <2>1. e = [s EXCEPT !.rdy[q] = IF k.ticks[p] > 0 THEN <<p>> \o @ ELSE Append(@, p)]
    OBVIOUS
  <2> QED BY <2>1 DEF enqueue
<1>a. n = <<p>> \o s.rdy[s.pri[p]] \/ n = Append(s.rdy[s.pri[p]], p)
  OBVIOUS
<1> HIDE DEF s, n
<1>4. KInv(e) /\ e.rts = k.rts /\ e.pri = s.pri
  BY <1>1, <1>2, <1>a, PutOn
<1> HIDE DEF e
<1>5. KInv(f) /\ f.rts = [e.rts EXCEPT ![proc_ptr] = @ \cup {"PREEMPTED"}]
      /\ f.pri = s.pri
  BY <1>4, RtsSet DEF ReadsOK, RtsFlags
<1> HIDE DEF f
<1>6. k.rts \in [Proc -> SUBSET RtsFlags] /\ s.pri \in [Proc -> Queue] /\ Queue \subseteq Int
  <2>1. s.pri \in [Proc -> Queue] /\ k.rts \in [Proc -> SUBSET RtsFlags]
    BY <1>1 DEF PsType
  <2>2. Queue \subseteq Int
    BY QueueConstants
  <2> QED BY <2>1, <2>2
<1>7. CASE e.pri[proc_ptr] > q /\ Preemptible(proc_ptr)
  <2>a. q \in Int
    BY <1>6
  <2>1. enqueue(k, p) = f /\ proc_ptr # p
    BY <2>a, <1>3, <1>4, <1>7
  <2>2. ~Runnable(f, proc_ptr)
    BY <1>4, <1>5, <1>6 DEF Runnable, ReadsOK
  <2>3. Effect(k, f, p, proc_ptr)
    BY <1>1, <1>4, <1>5, <1>6, <1>7, <2>1 DEF Effect, ReadsOK
  <2> QED BY <2>1, <2>2, <2>3, <1>1, <1>5
<1>8. CASE ~(e.pri[proc_ptr] > q /\ Preemptible(proc_ptr))
  <2>1. enqueue(k, p) = e
    BY <1>3, <1>8
  <2>2. Effect(k, e, p, proc_ptr)
    BY <1>1, <1>4 DEF Effect
  <2>a. e.pri[proc_ptr] \in Int /\ e.pri[p] \in Int /\ e.pri[p] = q
    BY <1>4, <1>6 DEF ReadsOK
  <2>3. Preemptible(proc_ptr) => e.pri[proc_ptr] <= e.pri[p]
    BY <2>a, <1>8 DEF Preemptible, Slot
  <2> QED BY <2>1, <2>2, <2>3, <1>1, <1>4
<1> QED BY <1>7, <1>8

-----------------------------------------------------------------------------
(* The invariant of ps, given the current process c and the deadlines d:   *)
(* besides KInv, only the current process is set aside; no process that    *)
(* runs is below a runnable one; a process with a deadline that is         *)
(* runnable, or would be but for its preemption, is in DEADLINE_Q.         *)
Aside(k, c) ==
    \A p \in Proc : k.rts[p] \cap {"PREEMPTED", "NO_QUANTUM"} # {} =>
                        p = c /\ Preemptible(p)
Above(k, p, c) ==
    Runnable(k, p) /\ k.pri[p] < k.pri[c] => SchedType = 1 /\ k.pri[p] >= LOTTERY_Q
Prio(k, c) ==
    Runnable(k, c) /\ Preemptible(c) => \A p \in Proc : Above(k, p, c)
InDeadlineQ(k, d) ==
    \A p \in Proc : k.rts[p] \subseteq {"PREEMPTED"} /\ d[p] > 0 =>
                        k.pri[p] = DEADLINE_Q
Good(k, c, d) == KInv(k) /\ Aside(k, c) /\ Prio(k, c) /\ InDeadlineQ(k, d)

(* RTS_SET preserves Good; only the current process is set aside.          *)
LEMMA RtsSetGood ==
    ASSUME NEW k, NEW d, Good(k, proc_ptr, d), NEW p \in Proc,
           NEW f \in SUBSET RtsFlags, f # {}, proc_ptr \in Proc,
           f \cap {"PREEMPTED", "NO_QUANTUM"} = {} \/ (p = proc_ptr /\ Preemptible(p))
    PROVE  Good(RTS_SET(k, p, f), proc_ptr, d)
<1> DEFINE e == RTS_SET(k, p, f)
<1>1. KInv(e) /\ e.rts = [k.rts EXCEPT ![p] = @ \cup f] /\ e.pri = k.pri
  BY RtsSet DEF Good
<1> HIDE DEF e
<1>2. k.rts \in [Proc -> SUBSET RtsFlags]
  BY DEF Good, KInv, PsType
<1>3. \A r \in Proc : e.rts[r] = IF r = p THEN k.rts[r] \cup f ELSE k.rts[r]
  BY <1>1, <1>2
<1>4. Aside(e, proc_ptr)
  BY <1>3 DEF Aside, Good
<1>5. Prio(e, proc_ptr)
  BY <1>1, <1>3 DEF Prio, Above, Runnable, Good
<1>6. InDeadlineQ(e, d)
  BY <1>1, <1>3 DEF InDeadlineQ, Good
<1> QED BY <1>1, <1>4, <1>5, <1>6 DEF Good, e

(* RTS_UNSET on a runnable process does nothing.                           *)
LEMMA UnsetRunnable ==
    ASSUME NEW k \in PsType, NEW p \in Proc, NEW f, Runnable(k, p)
    PROVE  RTS_UNSET(k, p, f) = k
<1>1. RTS_UNSET(k, p, f) = [k EXCEPT !.rts[p] = @ \ f]
  BY DEF RTS_UNSET
<1>2. k.rts[p] \ f = k.rts[p] /\ k.rts \in [Proc -> SUBSET RtsFlags]
  BY DEF Runnable, PsType
<1>3. [k.rts EXCEPT ![p] = @ \ f] = k.rts
  BY <1>2
<1>4. [k EXCEPT !.rts[p] = @ \ f] = [k EXCEPT !.rts = k.rts]
  BY <1>3
<1>5. [k EXCEPT !.rts = k.rts] = k
  BY DEF PsType
<1> QED BY <1>1, <1>4, <1>5

(* RTS_UNSET: if no flag is left the process is enqueued, and what runs    *)
(* may be preempted.                                                       *)
LEMMA RtsUnset ==
    ASSUME NEW k, KInv(k), ReadsOK, NEW p \in Proc, NEW f
    PROVE  /\ KInv(RTS_UNSET(k, p, f))
           /\ Effect([k EXCEPT !.rts[p] = @ \ f], RTS_UNSET(k, p, f), p, proc_ptr)
           /\ ~Runnable(k, p) /\ k.rts[p] \subseteq f =>
                 /\ deadline[p] > 0 => RTS_UNSET(k, p, f).pri[p] = DEADLINE_Q
                 /\ Runnable(RTS_UNSET(k, p, f), proc_ptr) /\ Preemptible(proc_ptr) =>
                       RTS_UNSET(k, p, f).pri[proc_ptr] <= RTS_UNSET(k, p, f).pri[p]
           /\ ~(~Runnable(k, p) /\ k.rts[p] \subseteq f) =>
                 RTS_UNSET(k, p, f).pri = k.pri
<1> DEFINE c == [k EXCEPT !.rts[p] = @ \ f]
           e == RTS_UNSET(k, p, f)
<1>1. k \in PsType /\ k.rts \in [Proc -> SUBSET RtsFlags]
  BY DEF KInv, PsType
<1>2. c = [k EXCEPT !.rts[p] = k.rts[p] \ f] /\ k.rts[p] \ f \in SUBSET RtsFlags
  BY <1>1
<1>3. c \in PsType /\ c.rts = [k.rts EXCEPT ![p] = k.rts[p] \ f] /\ c.rdy = k.rdy
      /\ c.pri = k.pri
  BY <1>1, <1>2, SetFlags
<1>4. e = IF ~Runnable(k, p) /\ Runnable(c, p) THEN enqueue(c, p) ELSE c
  BY DEF RTS_UNSET
<1>5. Runnable(c, p) <=> k.rts[p] \subseteq f
  BY <1>1, <1>3 DEF Runnable
<1> HIDE DEF c, e
<1>6. CASE Runnable(k, p)
  <2>1. e = k
    BY <1>1, <1>6, UnsetRunnable DEF e
  <2>2. e = c
    BY <1>4, <1>6
  <2>3. Effect(c, c, p, proc_ptr)
    BY DEF Effect
  <2> QED BY <2>1, <2>2, <2>3, <1>6 DEF c, e
<1>7. CASE ~Runnable(k, p) /\ ~Runnable(c, p)
  <2>1. e = c
    BY <1>4, <1>7
  <2>2. Off(k, p)
    BY <1>7, BlockedOff DEF KInv
  <2>3. Off(c, p)
    BY <2>2, <1>1, <1>3, OffChange
  <2>4. KInv(c)
    BY <2>3, <1>3, <1>7, BlockedOff DEF KInv
  <2>5. Effect(c, c, p, proc_ptr)
    BY DEF Effect
  <2> QED BY <2>1, <2>4, <2>5, <1>3, <1>5, <1>7 DEF c, e
<1>8. CASE ~Runnable(k, p) /\ Runnable(c, p)
  <2>1. e = enqueue(c, p)
    BY <1>4, <1>8
  <2>2. Off(k, p)
    BY <1>8, BlockedOff DEF KInv
  <2>3. Off(c, p)
    BY <2>2, <1>1, <1>3, OffChange
  <2> QED BY <2>1, <2>3, <1>3, <1>5, <1>8, Enqueue DEF c, e
<1> QED BY <1>6, <1>7, <1>8

(* The flags of the tasks outside P stay; no flag but those in f is        *)
(* cleared.                                                                *)
TaskFlags(k, e, P) == \A r \in Proc \ P : r < 0 => e.rts[r] = k.rts[r]
Keeps(k, e, f) == \A r \in Proc : k.rts[r] \ f \subseteq e.rts[r]

(* RTS_UNSET preserves Good, and takes the flags f from p only.            *)
LEMMA RtsUnsetGood ==
    ASSUME NEW k, Good(k, proc_ptr, deadline), ReadsOK, NEW p \in Proc, NEW f,
           p # proc_ptr \/ ~Preemptible(p) \/ Runnable(k, p)
    PROVE  /\ Good(RTS_UNSET(k, p, f), proc_ptr, deadline)
           /\ RTS_UNSET(k, p, f).rts[p] = k.rts[p] \ f
           /\ TaskFlags(k, RTS_UNSET(k, p, f), {p})
           /\ Keeps(k, RTS_UNSET(k, p, f), f)
<1> DEFINE e == RTS_UNSET(k, p, f)
           c == [k EXCEPT !.rts[p] = @ \ f]
<1>1. /\ KInv(e) /\ Effect(c, e, p, proc_ptr)
      /\ ~Runnable(k, p) /\ k.rts[p] \subseteq f =>
            /\ deadline[p] > 0 => e.pri[p] = DEADLINE_Q
            /\ Runnable(e, proc_ptr) /\ Preemptible(proc_ptr) =>
                  e.pri[proc_ptr] <= e.pri[p]
      /\ ~(~Runnable(k, p) /\ k.rts[p] \subseteq f) => e.pri = k.pri
  BY RtsUnset DEF Good
<1>2. k \in PsType /\ k.rts \in [Proc -> SUBSET RtsFlags] /\ k.pri \in [Proc -> Queue]
  BY DEF Good, KInv, PsType
<1>3. \A r \in Proc : c.rts[r] = IF r = p THEN k.rts[p] \ f ELSE k.rts[r]
  BY <1>2
<1>4. c.pri = k.pri
  BY <1>2 DEF PsType
<1>5. Runnable(k, p) => e = k
  BY <1>2, UnsetRunnable
<1>p. e.pri \in [Proc -> Queue] /\ Queue \subseteq Int /\ Proc \subseteq Int
  <2>1. e.pri \in [Proc -> Queue]
    BY <1>1 DEF KInv, PsType
  <2> QED BY <2>1, QueueConstants
<1> HIDE DEF e, c
<1>6. \A r \in Proc : r # p => \/ e.rts[r] = k.rts[r]
                               \/ /\ r = proc_ptr /\ Preemptible(r)
                                  /\ e.rts[r] = k.rts[r] \cup {"PREEMPTED"}
  BY <1>1, <1>3 DEF Effect
<1>7. e.rts[p] = k.rts[p] \ f
  BY <1>1, <1>3 DEF Effect
<1>8. \A r \in Proc : r # p => e.pri[r] = k.pri[r]
  BY <1>1, <1>4 DEF Effect
<1>9. Aside(e, proc_ptr)
  BY <1>6, <1>7 DEF Aside, Good
<1>10. Prio(e, proc_ptr)
  <2>1. SUFFICES ASSUME Runnable(e, proc_ptr), Preemptible(proc_ptr), NEW r \in Proc,
                        Runnable(e, r), e.pri[r] < e.pri[proc_ptr]
                 PROVE  SchedType = 1 /\ e.pri[r] >= LOTTERY_Q
    BY DEF Prio, Above
  <2>2. CASE Runnable(k, p)
    BY <2>1, <2>2, <1>5 DEF Prio, Above, Good
  <2>3. CASE ~Runnable(k, p)
    <3>1. p # proc_ptr
      BY <2>1, <2>3
    <3>2. Runnable(k, proc_ptr) /\ e.pri[proc_ptr] = k.pri[proc_ptr]
      BY <3>1, <2>1, <1>6, <1>8 DEF Runnable, ReadsOK
    <3>3. r # p
      <4>1. CASE r = p
        <5>1. k.rts[p] \subseteq f
          BY <4>1, <2>1, <1>7 DEF Runnable
        <5>2. e.pri[proc_ptr] <= e.pri[p]
          BY <5>1, <2>1, <2>3, <1>1
        <5>3. e.pri[proc_ptr] \in Int /\ e.pri[p] \in Int
          BY <1>p DEF ReadsOK
        <5> QED BY <5>2, <5>3, <4>1, <2>1
      <4> QED BY <4>1
    <3>4. Runnable(k, r) /\ e.pri[r] = k.pri[r]
      BY <3>3, <2>1, <1>6, <1>8 DEF Runnable
    <3> QED BY <3>2, <3>4, <2>1 DEF Prio, Above, Good
  <2> QED BY <2>2, <2>3
<1>11. InDeadlineQ(e, deadline)
  <2>1. SUFFICES ASSUME NEW r \in Proc, e.rts[r] \subseteq {"PREEMPTED"}, deadline[r] > 0
                 PROVE  e.pri[r] = DEADLINE_Q
    BY DEF InDeadlineQ
  <2>2. CASE r # p
    BY <2>1, <2>2, <1>6, <1>8 DEF InDeadlineQ, Good
  <2>3. CASE r = p /\ Runnable(k, p)
    BY <2>1, <2>3, <1>5 DEF InDeadlineQ, Good
  <2>4. CASE r = p /\ ~Runnable(k, p)
    <3>1. "PREEMPTED" \notin k.rts[p]
      BY <2>4 DEF Good, Aside
    <3>2. k.rts[p] \subseteq f
      BY <3>1, <2>1, <2>4, <1>7
    <3> QED BY <3>2, <2>1, <2>4, <1>1
  <2> QED BY <2>2, <2>3, <2>4
<1>12. TaskFlags(k, e, {p})
  BY <1>6, <1>p, TasksNotPreemptible DEF TaskFlags
<1>13. Keeps(k, e, f)
  BY <1>6, <1>7 DEF Keeps
<1> QED BY <1>1, <1>7, <1>9, <1>10, <1>11, <1>12, <1>13 DEF Good, e

(* In particular of a task that is woken.                                  *)
LEMMA TaskUnset ==
    ASSUME NEW k, Good(k, proc_ptr, deadline), ReadsOK, NEW t \in Proc, ~Preemptible(t)
    PROVE  /\ Good(RTS_UNSET(k, t, {"RECEIVING"}), proc_ptr, deadline)
           /\ RTS_UNSET(k, t, {"RECEIVING"}).rts[t] = k.rts[t] \ {"RECEIVING"}
           /\ TaskFlags(k, RTS_UNSET(k, t, {"RECEIVING"}), {t})
           /\ Keeps(k, RTS_UNSET(k, t, {"RECEIVING"}), {"RECEIVING"})
BY RtsUnsetGood

(* Assignment to the credits.                                              *)
LEMMA SetTicks ==
    ASSUME NEW k \in PsType, NEW t, t \in [Proc -> Ticks]
    PROVE  /\ [k EXCEPT !.ticks = t] \in PsType
           /\ [k EXCEPT !.ticks = t].rts = k.rts /\ [k EXCEPT !.ticks = t].pri = k.pri
           /\ [k EXCEPT !.ticks = t].rdy = k.rdy /\ [k EXCEPT !.ticks = t].ticks = t
<1>1. [k EXCEPT !.ticks = t] \in PsType
  BY Zenon DEF PsType
<1> QED BY <1>1 DEF PsType

(* Credit may change at any time.                                          *)
LEMMA TicksGood ==
    ASSUME NEW k, NEW c, NEW d, Good(k, c, d), NEW t, t \in [Proc -> Ticks]
    PROVE  /\ Good([k EXCEPT !.ticks = t], c, d)
           /\ [k EXCEPT !.ticks = t].rts = k.rts
<1> DEFINE j == [k EXCEPT !.ticks = t]
<1>1. k \in PsType
  BY DEF Good, KInv
<1>2. j \in PsType /\ j.rts = k.rts /\ j.pri = k.pri /\ j.rdy = k.rdy
  BY <1>1, SetTicks
<1> HIDE DEF j
<1>3. OnQueues(j)
  <2>1. OnQueues(k)
    BY DEF Good, KInv
  <2> QED BY <2>1, <1>2, Zenon DEF OnQueues, Runnable
<1>4. Aside(j, c) /\ Prio(j, c) /\ InDeadlineQ(j, d)
  BY <1>2 DEF Good, Aside, Prio, Above, InDeadlineQ, Runnable
<1> QED BY <1>2, <1>3, <1>4 DEF Good, KInv, j

(* A process that is blocked, and not just set aside, may get other flags, *)
(* another queue, credit and deadline, as long as it stays so.             *)
LEMMA BlockedUpdate ==
    ASSUME NEW k, NEW c \in Proc, NEW d, Good(k, c, d), NEW p \in Proc, ~Runnable(k, p),
           NEW j \in PsType, NEW b, j.rdy = k.rdy,
           \A r \in Proc \ {p} : /\ j.rts[r] = k.rts[r] /\ j.pri[r] = k.pri[r]
                                 /\ b[r] = d[r],
           j.rts[p] # {}, j.rts[p] \cap {"PREEMPTED", "NO_QUANTUM"} = {}
    PROVE  Good(j, c, b)
<1>1. k \in PsType /\ OnQueues(k)
  BY DEF Good, KInv
<1>2. Off(j, p)
  BY <1>1, BlockedOff, OffChange
<1>3. ~Runnable(j, p)
  BY DEF Runnable
<1>4. KInv(j)
  BY <1>2, <1>3, BlockedOff DEF KInv
<1>5. Aside(j, c)
  BY DEF Good, Aside
<1>6. Prio(j, c)
  BY <1>3 DEF Good, Prio, Above, Runnable
<1>7. InDeadlineQ(j, b)
  BY DEF Good, InDeadlineQ
<1> QED BY <1>4, <1>5, <1>6, <1>7 DEF Good

(* RTS_SETFLAGS, which clears the other flags.                             *)
LEMMA RtsSetflagsGood ==
    ASSUME NEW k, NEW d, NEW b, Good(k, proc_ptr, d), proc_ptr \in Proc, NEW p \in Proc,
           \A r \in Proc \ {p} : b[r] = d[r]
    PROVE  /\ Good(RTS_SETFLAGS(k, p, {"SLOT_FREE"}), proc_ptr, b)
           /\ TaskFlags(k, RTS_SETFLAGS(k, p, {"SLOT_FREE"}), {p})
<1> DEFINE f == {"SLOT_FREE"}
           g == IF Runnable(k, p) THEN dequeue(k, p) ELSE k
           e == RTS_SET(k, p, f)
           j == RTS_SETFLAGS(k, p, f)
<1>1. f \in SUBSET RtsFlags /\ f # {} /\ f \cap {"PREEMPTED", "NO_QUANTUM"} = {}
  BY DEF RtsFlags
<1> HIDE DEF f
<1>2. KInv(k) /\ Good(e, proc_ptr, d)
  BY <1>1, RtsSetGood DEF Good
<1>3. j = [g EXCEPT !.rts[p] = f] /\ e = [g EXCEPT !.rts[p] = g.rts[p] \cup f]
  BY <1>1 DEF RTS_SETFLAGS, RTS_SET
<1>4. g \in PsType /\ g.rts = k.rts
  BY <1>2, DequeueOff DEF KInv
<1> HIDE DEF g, e, j
<1>5. k.rts \in [Proc -> SUBSET RtsFlags] /\ g.rts[p] \cup f \in SUBSET RtsFlags
  BY <1>1, <1>4 DEF PsType
<1>6. j \in PsType /\ j.rts = [k.rts EXCEPT ![p] = f] /\ j.rdy = g.rdy /\ j.pri = g.pri
  BY <1>1, <1>3, <1>4, SetFlags
<1>7. e.rts = [k.rts EXCEPT ![p] = k.rts[p] \cup f] /\ e.rdy = g.rdy /\ e.pri = g.pri
  BY <1>3, <1>4, <1>5, SetFlags
<1>8. \A r \in Proc : /\ j.rts[r] = (IF r = p THEN f ELSE k.rts[r])
                      /\ e.rts[r] = (IF r = p THEN k.rts[p] \cup f ELSE k.rts[r])
  BY <1>5, <1>6, <1>7
<1>9. Good(j, proc_ptr, b)
  <2>1. \A r \in Proc \ {p} : j.rts[r] = e.rts[r] /\ j.pri[r] = e.pri[r] /\ b[r] = d[r]
    BY <1>6, <1>7, <1>8
  <2>2. j.rts[p] # {} /\ j.rts[p] \cap {"PREEMPTED", "NO_QUANTUM"} = {}
    BY <1>1, <1>8
  <2>3. ~Runnable(e, p)
    BY <1>1, <1>8 DEF Runnable
  <2>4. j \in PsType /\ j.rdy = e.rdy
    BY <1>6, <1>7
  <2> QED BY <2>1, <2>2, <2>3, <2>4, <1>2, BlockedUpdate
<1>10. TaskFlags(k, j, {p})
  BY <1>8 DEF TaskFlags
<1> QED BY <1>9, <1>10 DEF f, j

-----------------------------------------------------------------------------
(* schedcheck() puts the process that was set aside back: no process has   *)
(* a flag of that kind any more.                                           *)
LEMMA SetAsideDone ==
    ASSUME NEW k, Good(k, proc_ptr, deadline), ReadsOK, ~Runnable(k, proc_ptr)
    PROVE  /\ KInv(SetAside(k)) /\ InDeadlineQ(SetAside(k), deadline)
           /\ \A r \in Proc : SetAside(k).rts[r] = k.rts[r] \ {"PREEMPTED", "NO_QUANTUM"}
<1> DEFINE p == proc_ptr
           c == [k EXCEPT !.rts[p] = k.rts[p] \ {"PREEMPTED"}]
           h == IF "PREEMPTED" \in k.rts[p] /\ Runnable(c, p) THEN enqueue_head(c, p) ELSE c
           f == {"NO_QUANTUM"}
           e == RTS_UNSET(h, p, f)
<1>1. k \in PsType /\ k.rts \in [Proc -> SUBSET RtsFlags] /\ p \in Proc
      /\ k.rts[p] \ {"PREEMPTED"} \in SUBSET RtsFlags
  BY DEF Good, KInv, PsType, ReadsOK
<1>2. SetAside(k) = IF "NO_QUANTUM" \in h.rts[p] THEN e ELSE h
  BY DEF SetAside
<1>3. c \in PsType /\ c.rts = [k.rts EXCEPT ![p] = k.rts[p] \ {"PREEMPTED"}]
      /\ c.rdy = k.rdy /\ c.pri = k.pri
  BY <1>1, SetFlags
<1>4. enqueue_head(c, p) = [c EXCEPT !.rdy[c.pri[p]] = <<p>> \o c.rdy[c.pri[p]]]
  BY DEF enqueue_head
<1> HIDE DEF p, c
<1>5. Off(c, p)
  <2>1. Off(k, p)
    BY <1>1, BlockedOff DEF Good, KInv, p
  <2> QED BY <2>1, <1>1, <1>3, OffChange
<1>6. \A r \in Proc : /\ c.rts[r] = (IF r = p THEN k.rts[p] \ {"PREEMPTED"} ELSE k.rts[r])
                      /\ r # p => k.rts[r] \cap {"PREEMPTED", "NO_QUANTUM"} = {}
  BY <1>1, <1>3 DEF Good, Aside, p
<1>7. KInv(h) /\ h.rts = c.rts /\ h.pri = k.pri
  <2>1. CASE "PREEMPTED" \in k.rts[p] /\ Runnable(c, p)
    <3> DEFINE s == <<p>> \o c.rdy[c.pri[p]]
    <3>1. h = [c EXCEPT !.rdy[c.pri[p]] = s]
      BY <1>4, <2>1
    <3>2. s = <<p>> \o c.rdy[c.pri[p]] \/ s = Append(c.rdy[c.pri[p]], p)
      OBVIOUS
    <3> HIDE DEF s, h
    <3>3. c \in PsType /\ c.pri = k.pri
      BY <1>3
    <3>4. KInv(h) /\ h.rts = c.rts /\ h.pri = c.pri
      <4>1. p \in Proc /\ Off(c, p) /\ Runnable(c, p) /\ c \in PsType
        BY <1>1, <1>5, <2>1, <3>3
      <4> QED BY <3>1, <3>2, <4>1, PutOn
    <3> QED BY <3>3, <3>4
  <2>2. CASE ~("PREEMPTED" \in k.rts[p] /\ Runnable(c, p))
    <3>1. ~Runnable(c, p)
      BY <1>1, <1>6, <2>2 DEF Runnable, p
    <3> QED BY <1>1, <1>3, <1>5, <2>2, <3>1, BlockedOff DEF KInv
  <2> QED BY <2>1, <2>2
<1> HIDE DEF h
<1>8. InDeadlineQ(h, deadline)
  BY <1>6, <1>7 DEF Good, InDeadlineQ
<1>9. CASE "NO_QUANTUM" \notin h.rts[p]
  <2>1. SetAside(k) = h
    BY <1>2, <1>9
  <2>2. \A r \in Proc : h.rts[r] = k.rts[r] \ {"PREEMPTED", "NO_QUANTUM"}
    BY <1>6, <1>7, <1>9
  <2> QED BY <2>1, <2>2, <1>7, <1>8
<1>10. CASE "NO_QUANTUM" \in h.rts[p]
  <2> DEFINE g == [h EXCEPT !.rts[p] = @ \ f]
  <2>1. SetAside(k) = e
    BY <1>2, <1>10
  <2>2. ~Runnable(h, p)
    BY <1>10 DEF Runnable
  <2>3. /\ KInv(e) /\ Effect(g, e, p, proc_ptr)
        /\ h.rts[p] \subseteq f => (deadline[p] > 0 => e.pri[p] = DEADLINE_Q)
        /\ ~(h.rts[p] \subseteq f) => e.pri = h.pri
    BY <1>1, <1>7, <2>2, RtsUnset
  <2>4. h \in PsType /\ h.rts \in [Proc -> SUBSET RtsFlags]
    BY <1>7 DEF KInv, PsType
  <2>5. g.pri = h.pri /\ \A r \in Proc : g.rts[r] = IF r = p THEN h.rts[p] \ f ELSE h.rts[r]
    BY <2>4 DEF PsType
  <2> HIDE DEF e, g
  <2>6. \A r \in Proc : e.rts[r] = IF r = p THEN h.rts[p] \ f ELSE h.rts[r]
    BY <2>3, <2>5 DEF Effect, p
  <2>7. \A r \in Proc : e.rts[r] = k.rts[r] \ {"PREEMPTED", "NO_QUANTUM"}
    BY <1>6, <1>7, <2>6
  <2>8. InDeadlineQ(e, deadline)
    <3>1. SUFFICES ASSUME NEW r \in Proc, e.rts[r] \subseteq {"PREEMPTED"}, deadline[r] > 0
                   PROVE  e.pri[r] = DEADLINE_Q
      BY DEF InDeadlineQ
    <3>2. CASE r # p
      <4>1. e.pri[r] = h.pri[r] /\ e.rts[r] = h.rts[r]
        BY <2>3, <2>5, <2>6, <3>2 DEF Effect
      <4> QED BY <4>1, <3>1, <1>8 DEF InDeadlineQ
    <3>3. CASE r = p
      <4>1. h.rts[p] \subseteq f
        BY <2>7, <2>6, <3>1, <3>3
      <4> QED BY <4>1, <2>3, <3>1, <3>3
    <3> QED BY <3>2, <3>3
  <2> QED BY <2>1, <2>3, <2>7, <2>8
<1> QED BY <1>9, <1>10

(* The least nonempty queue exists.                                        *)
LEMMA FirstQueueLeast ==
    ASSUME NEW k, NEW Q, Q \subseteq Nat, Nonempty(k, Q)
    PROVE  /\ FirstQueue(k, Q) \in Q /\ k.rdy[FirstQueue(k, Q)] # <<>>
           /\ \A r \in Q : k.rdy[r] # <<>> => FirstQueue(k, Q) <= r
<1> DEFINE S == {q \in Q : k.rdy[q] # <<>>}
<1>1. S \subseteq Nat /\ S # {}
  BY DEF Nonempty
<1>2. PICK q \in S : \A r \in S : q <= r
  BY <1>1, LeastNat
<1>3. \E q1 \in Q : k.rdy[q1] # <<>> /\ \A r \in Q : k.rdy[r] # <<>> => q1 <= r
  BY <1>2
<1> QED BY <1>3, Zenon DEF FirstQueue

(* Earliest() returns an element of the queue that no element with a       *)
(* deadline precedes.                                                      *)
LEMMA EarliestLeast ==
    ASSUME NEW s \in Seq(Proc), s # <<>>, deadline \in [Proc -> 0..TMR_NEVER]
    PROVE  \E i \in 1..Len(s) :
              /\ Earliest(s) = s[i]
              /\ \A j \in 1..Len(s) : deadline[s[j]] > 0 =>
                    deadline[s[i]] > 0 /\ deadline[s[i]] <= deadline[s[j]]
<1> DEFINE Set == {i \in 1..Len(s) : deadline[s[i]] > 0}
           D == {deadline[s[i]] : i \in Set}
           Min_i == {i \in Set : \A j \in Set : deadline[s[i]] <= deadline[s[j]]}
<1>1. Len(s) \in Nat /\ 1 \in 1..Len(s) /\ \A i \in 1..Len(s) : s[i] \in Proc
  BY EmptySeq, LenProperties, ElementOfSeq
<1>2. Earliest(s) = IF Set = {} THEN s[1]
                    ELSE s[CHOOSE i \in Min_i : \A j \in Min_i : i <= j]
  BY DEF Earliest
<1>3. CASE Set = {}
  <2>1. \A j \in 1..Len(s) : ~(deadline[s[j]] > 0)
    BY <1>3
  <2> HIDE DEF Set, Min_i
  <2> QED BY <1>1, <1>2, <1>3, <2>1
<1>4. CASE Set # {}
  <2>1. D \subseteq Nat /\ D # {}
    <3>1. \A i \in Set : deadline[s[i]] \in Nat
      <4>1. \A p \in Proc : deadline[p] \in Nat
        BY QueueConstants
      <4> QED BY <1>1, <4>1
    <3> QED BY <1>4, <3>1
  <2>2. PICK m \in D : \A x \in D : m <= x
    BY <2>1, LeastNat
  <2>3. Min_i # {} /\ Min_i \subseteq Nat
    <3>1. PICK i \in Set : m = deadline[s[i]]
      BY <2>2
    <3>2. \A j \in Set : m <= deadline[s[j]]
      BY <2>2
    <3>3. i \in Min_i
      BY <3>1, <3>2
    <3>4. Min_i \subseteq Nat
      BY <1>1
    <3> QED BY <3>3, <3>4
  <2>4. PICK n \in Min_i : \A j \in Min_i : n <= j
    BY <2>3, LeastNat
  <2> DEFINE w == CHOOSE i \in Min_i : \A j \in Min_i : i <= j
  <2>5. w \in Min_i
    <3> HIDE DEF Min_i
    <3> QED BY <2>4
  <2>6. Earliest(s) = s[w]
    BY <1>2, <1>4
  <2> HIDE DEF w
  <2>7. w \in 1..Len(s) /\ deadline[s[w]] > 0
        /\ \A j \in 1..Len(s) : deadline[s[j]] > 0 => deadline[s[w]] <= deadline[s[j]]
    BY <2>5
  <2> HIDE DEF Set, Min_i, D
  <2> QED BY <2>6, <2>7
<1> QED BY <1>3, <1>4

(* pick_proc() returns a runnable process with no better one, and with EDF *)
(* one that no process with a deadline precedes.                           *)
LEMMA PicksRun ==
    ASSUME NEW k, KInv(k), deadline \in [Proc -> 0..TMR_NEVER], NEW p \in Picks(k)
    PROVE  /\ p \in Proc /\ Runnable(k, p)
           /\ \A r \in Proc : Above(k, r, p)
           /\ SchedType = 2 /\ InDeadlineQ(k, deadline) /\ ~(k.pri[p] < DEADLINE_Q) =>
                 \A r \in Proc : Runnable(k, r) /\ deadline[r] > 0 =>
                     deadline[p] > 0 /\ deadline[p] <= deadline[r]
<1> DEFINE strict == IF SchedType = 1 THEN 0..(LOTTERY_Q - 1) ELSE Queue
           q == FirstQueue(k, strict)
<1>1. /\ k.rdy \in [Queue -> Seq(Proc)] /\ k.pri \in [Proc -> Queue]
      /\ \A u \in Queue, r \in Proc :
            (\E i \in 1..Len(k.rdy[u]) : k.rdy[u][i] = r) <=> Runnable(k, r) /\ k.pri[r] = u
  BY DEF KInv, PsType, OnQueues, Linked
<1>2. strict \subseteq Queue /\ Queue \subseteq Nat /\ LOTTERY_Q \in Nat /\ DEADLINE_Q \in Queue
      /\ (SchedType # 1 => strict = Queue)
      /\ (\A u \in Queue \ strict : SchedType = 1 /\ u >= LOTTERY_Q)
  BY QueueConstants DEF Queue
<1>3. \A r \in Proc : Runnable(k, r) => k.rdy[k.pri[r]] # <<>> /\ k.pri[r] \in Queue
  BY <1>1
<1>4. Picks(k) = IF Nonempty(k, strict)
                 THEN {IF SchedType = 2 /\ q = DEADLINE_Q THEN Earliest(k.rdy[q])
                                                          ELSE k.rdy[q][1]}
                 ELSE {r \in Proc : \E u \in Queue \ strict : \E i \in 1..Len(k.rdy[u]) :
                                       k.rdy[u][i] = r /\ Runnable(k, r)}
  BY DEF Picks
<1> HIDE DEF strict
<1>5. CASE Nonempty(k, strict)
  <2>1. q \in Queue /\ k.rdy[q] # <<>> /\ \A r \in strict : k.rdy[r] # <<>> => q <= r
    BY <1>2, <1>5, FirstQueueLeast
  <2>a. q \in strict
    BY <1>2, <1>5, FirstQueueLeast
  <2>2. p = IF SchedType = 2 /\ q = DEADLINE_Q THEN Earliest(k.rdy[q]) ELSE k.rdy[q][1]
    BY <1>4, <1>5
  <2> HIDE DEF q
  <2>3. k.rdy[q] \in Seq(Proc)
    BY <1>1, <2>1
  <2>4. 1 \in 1..Len(k.rdy[q]) /\ \A i \in 1..Len(k.rdy[q]) : k.rdy[q][i] \in Proc
    BY <2>1, <2>3, EmptySeq, LenProperties, ElementOfSeq
  <2>5. PICK i \in 1..Len(k.rdy[q]) :
           /\ p = k.rdy[q][i]
           /\ SchedType = 2 /\ q = DEADLINE_Q =>
                \A j \in 1..Len(k.rdy[q]) : deadline[k.rdy[q][j]] > 0 =>
                    deadline[p] > 0 /\ deadline[p] <= deadline[k.rdy[q][j]]
    <3>1. CASE SchedType = 2 /\ q = DEADLINE_Q
      BY <2>1, <2>2, <2>3, <3>1, EarliestLeast
    <3>2. CASE ~(SchedType = 2 /\ q = DEADLINE_Q)
      BY <2>2, <2>4, <3>2
    <3> QED BY <3>1, <3>2
  <2>6. p \in Proc /\ Runnable(k, p) /\ k.pri[p] = q
    BY <1>1, <2>1, <2>4, <2>5
  <2>7. \A r \in Proc : Above(k, r, p)
    <3>1. SUFFICES ASSUME NEW r \in Proc, Runnable(k, r), k.pri[r] < q
                   PROVE  SchedType = 1 /\ k.pri[r] >= LOTTERY_Q
      BY <2>6 DEF Above
    <3>2. k.pri[r] \notin strict
      <4>1. k.rdy[k.pri[r]] # <<>> /\ k.pri[r] \in Queue
        BY <1>3, <3>1
      <4>2. k.pri[r] \in Int /\ q \in Int
        <5>1. \A u \in Queue : u \in Int
          BY DEF Queue
        <5> QED BY <4>1, <2>1, <5>1
      <4> QED BY <2>1, <3>1, <4>1, <4>2
    <3> QED BY <1>2, <1>3, <3>1, <3>2
  <2>8. ASSUME SchedType = 2, InDeadlineQ(k, deadline), ~(q < DEADLINE_Q),
               NEW r \in Proc, Runnable(k, r), deadline[r] > 0
        PROVE  deadline[p] > 0 /\ deadline[p] <= deadline[r]
    <3>1. k.pri[r] = DEADLINE_Q
      BY <2>8 DEF InDeadlineQ, Runnable
    <3>2. q = DEADLINE_Q
      <4>1. DEADLINE_Q \in strict /\ k.rdy[DEADLINE_Q] # <<>>
        BY <1>2, <1>3, <2>8, <3>1
      <4>2. q <= DEADLINE_Q /\ q \in Int /\ DEADLINE_Q \in Int
        BY <1>2, <2>1, <4>1
      <4> QED BY <2>8, <4>2
    <3>3. PICK j \in 1..Len(k.rdy[q]) : k.rdy[q][j] = r
      BY <1>1, <2>1, <2>8, <3>1, <3>2
    <3> QED BY <2>5, <2>8, <3>2, <3>3
  <2> QED BY <2>6, <2>7, <2>8
<1>6. CASE ~Nonempty(k, strict)
  <2>1. p \in Proc /\ \E u \in Queue \ strict : \E i \in 1..Len(k.rdy[u]) :
                                       k.rdy[u][i] = p /\ Runnable(k, p)
    BY <1>4, <1>6
  <2>2. SchedType = 1
    BY <1>2, <2>1
  <2>3. \A r \in Proc : Runnable(k, r) => k.pri[r] \in Queue \ strict
    BY <1>3, <1>6 DEF Nonempty
  <2>4. \A r \in Proc : Above(k, r, p)
    BY <1>2, <2>2, <2>3 DEF Above
  <2> QED BY <2>1, <2>2, <2>4
<1> QED BY <1>5, <1>6
=============================================================================

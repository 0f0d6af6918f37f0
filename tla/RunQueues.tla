----------------------------- MODULE RunQueues -----------------------------
(***************************************************************************)
(* The run queues of the kernel and the primitives on them (kernel/proc.c, *)
(* kernel/proc.h): the queues rdy_head[], the runtime flags, enqueueing    *)
(* with preemption, and the three policies of pick_proc().                 *)
(*                                                                         *)
(* What the primitives change is one record k:                             *)
(*   rts   p_rts_flags, a set          pri  p_priority                     *)
(*   ticks p_ticks_left                rdy  rdy_head[], a sequence each    *)
(* A primitive is a function from one such record to the next, so that a   *)
(* handler is a composition of them.                                       *)
(***************************************************************************)
EXTENDS Queues

CONSTANTS
    NR_PROCS,         \* process slots, numbered 0..NR_PROCS-1 (tasks are < 0)
    VM,               \* the server that handles page faults: not preemptible
                      \* (NR_PROCS in an instance without it)
    NR_SCHED_QUEUES,  \* 16 in proc.h
    LOTTERY_Q,        \* 6: the queues from here on take part in the lottery
    DEADLINE_Q,       \* 7: the queue of processes with a deadline
    SchedType,        \* 0 default, 1 lottery, 2 EDF: fixed at boot
    Quantum,          \* p_quantum_size
    CHAR_MAX,         \* p_ticks_left is a char: 127
    TMR_NEVER         \* the latest expiry time of a timer, LONG_MAX

VARIABLES
    deadline,   \* p_deadline.tmr_exp_time: 0 is none
    proc_ptr    \* the process the CPU executes

IDLE     == -4
CLOCK    == -3
SYSTEM   == -2
HARDWARE == -1
PM       == 0

Slot  == 0..(NR_PROCS - 1)
Proc  == IDLE..(NR_PROCS - 1)
Queue == 0..(NR_SCHED_QUEUES - 1)
Ticks == (-CHAR_MAX - 1)..CHAR_MAX

RtsFlags == {"SLOT_FREE", "PROC_STOP", "RECEIVING", "SIGNALED", "SIG_PENDING",
             "NO_ENDPOINT", "VMINHIBIT", "VMREQUEST", "SYS_LOCK",
             "PREEMPTED", "NO_QUANTUM"}

ASSUME QueueAssumption ==
    /\ NR_PROCS \in Nat \ {0}
    /\ NR_SCHED_QUEUES \in Nat \ {0}
    /\ LOTTERY_Q \in Queue /\ DEADLINE_Q \in Queue
    /\ SchedType \in {0, 1, 2}
    /\ CHAR_MAX \in Nat /\ TMR_NEVER \in Nat
    /\ Quantum \in [Proc -> 0..CHAR_MAX]
    /\ \A p \in Proc \ {IDLE} : Quantum[p] > 0

PsType ==
    [rts : [Proc -> SUBSET RtsFlags], pri : [Proc -> Queue],
     ticks : [Proc -> Ticks], rdy : [Queue -> Seq(Proc)]]

(* Mutant: the tasks can be preempted, too.                                *)
MutPreemptibleTasks(p) == p # IDLE

(* IDL_F and TSK_F of priv.h; VM_F of the reincarnation server.            *)
Preemptible(p) == p \in Slot \ {VM}
Runnable(k, p) == k.rts[p] = {}

-----------------------------------------------------------------------------
(* Mutant: the head is removed, not the process.                           *)
MutDequeueHead(k, p) == [k EXCEPT !.rdy[k.pri[p]] = IF @ = <<>> THEN @ ELSE Tail(@)]

dequeue(k, p) == [k EXCEPT !.rdy[k.pri[p]] = Unlink(@, p)]

RTS_SET(k, p, f) ==
    LET d == IF Runnable(k, p) THEN dequeue(k, p) ELSE k
    IN  [d EXCEPT !.rts[p] = @ \cup f]

(* Mutants: no lowest queue; the deadline is not looked at.                *)
MutSchedNoFloor(k, p) ==
    LET left == k.ticks[p] > 0
    IN  [k EXCEPT !.ticks[p] = IF left THEN @ ELSE Quantum[p],
                  !.pri[p] = IF deadline[p] > 0 THEN DEADLINE_Q
                             ELSE IF left THEN @ ELSE @ + 1]

MutSchedNoDeadline(k, p) ==
    LET left == k.ticks[p] > 0
    IN  [k EXCEPT !.ticks[p] = IF left THEN @ ELSE Quantum[p],
                  !.pri[p] = IF left \/ @ >= NR_SCHED_QUEUES - 1 THEN @ ELSE @ + 1]

(* A process that comes back without time left gets a new quantum one      *)
(* queue lower; a process with a deadline always goes to DEADLINE_Q.       *)
sched(k, p) ==
    LET left  == k.ticks[p] > 0
        lower == IF left \/ k.pri[p] >= NR_SCHED_QUEUES - 1
                 THEN k.pri[p] ELSE k.pri[p] + 1
    IN  [k EXCEPT !.ticks[p] = IF left THEN @ ELSE Quantum[p],
                  !.pri[p] = IF deadline[p] > 0 THEN DEADLINE_Q ELSE lower]

(* Mutants: the current process is not preempted; always at the front.     *)
MutEnqueueNoPreempt(k, p) ==
    LET s == sched(k, p)
    IN  [s EXCEPT !.rdy[s.pri[p]] = IF k.ticks[p] > 0 THEN <<p>> \o @
                                                      ELSE Append(@, p)]

MutEnqueueFront(k, p) ==
    LET s == sched(k, p)
        q == s.pri[p]
        e == [s EXCEPT !.rdy[q] = <<p>> \o @]
    IN  IF e.pri[proc_ptr] > q /\ Preemptible(proc_ptr)
        THEN RTS_SET(e, proc_ptr, {"PREEMPTED"})
        ELSE e

enqueue(k, p) ==
    LET s == sched(k, p)
        q == s.pri[p]
        e == [s EXCEPT !.rdy[q] = IF k.ticks[p] > 0 THEN <<p>> \o @
                                                    ELSE Append(@, p)]
    IN  IF e.pri[proc_ptr] > q /\ Preemptible(proc_ptr)
        THEN RTS_SET(e, proc_ptr, {"PREEMPTED"})
        ELSE e

enqueue_head(k, p) == [k EXCEPT !.rdy[k.pri[p]] = <<p>> \o @]

RTS_UNSET(k, p, f) ==
    LET c == [k EXCEPT !.rts[p] = @ \ f]
    IN  IF ~Runnable(k, p) /\ Runnable(c, p) THEN enqueue(c, p) ELSE c

RTS_SETFLAGS(k, p, f) ==
    LET d == IF Runnable(k, p) /\ f # {} THEN dequeue(k, p) ELSE k
    IN  [d EXCEPT !.rts[p] = f]

-----------------------------------------------------------------------------
(* pick_proc().                                                            *)

(* The head of the first nonempty queue.                                   *)
FirstQueue(k, Q) == CHOOSE q \in Q : k.rdy[q] # <<>> /\
                       \A r \in Q : k.rdy[r] # <<>> => q <= r
Nonempty(k, Q) == \E q \in Q : k.rdy[q] # <<>>

(* Mutant: processes without a deadline take part with expiry time 0.      *)
MutEarliestUnset(s) ==
    s[CHOOSE i \in 1..Len(s) : \A j \in 1..Len(s) :
         deadline[s[i]] < deadline[s[j]] \/ (deadline[s[i]] = deadline[s[j]] /\ i <= j)]

(* Sort DEADLINE_Q: the first of those with the least expiry time that is  *)
(* set, the head when none is set.                                         *)
Earliest(s) ==
    LET Set == {i \in 1..Len(s) : deadline[s[i]] > 0}
        Min_i == {i \in Set : \A j \in Set : deadline[s[i]] <= deadline[s[j]]}
    IN  IF Set = {} THEN s[1]
        ELSE s[CHOOSE i \in Min_i : \A j \in Min_i : i <= j]

(* The processes pick_proc() may return; the lottery may return any        *)
(* process with a ticket.                                                  *)
Picks(k) ==
    LET strict == IF SchedType = 1 THEN 0..(LOTTERY_Q - 1) ELSE Queue
        q      == FirstQueue(k, strict)
    IN  IF Nonempty(k, strict)
        THEN {IF SchedType = 2 /\ q = DEADLINE_Q THEN Earliest(k.rdy[q])
                                                 ELSE k.rdy[q][1]}
        ELSE {p \in Proc : \E r \in Queue \ strict : \E i \in 1..Len(k.rdy[r]) :
                              k.rdy[r][i] = p /\ Runnable(k, p)}

(* Mutant: a preempted process that also used up its quantum is forgotten. *)
MutSetAsideOne(k) ==
    LET c == [k EXCEPT !.rts[proc_ptr] = @ \ {"PREEMPTED"}]
    IN  IF "PREEMPTED" \in k.rts[proc_ptr]
        THEN IF Runnable(c, proc_ptr) THEN enqueue_head(c, proc_ptr) ELSE c
        ELSE IF "NO_QUANTUM" \in k.rts[proc_ptr]
             THEN RTS_UNSET(k, proc_ptr, {"NO_QUANTUM"}) ELSE k

(* A preempted process that can still run returns to the front of its      *)
(* queue; one that used up its quantum goes through enqueue() again.       *)
SetAside(k) ==
    LET c == [k EXCEPT !.rts[proc_ptr] = @ \ {"PREEMPTED"}]
        h == IF "PREEMPTED" \in k.rts[proc_ptr] /\ Runnable(c, proc_ptr)
             THEN enqueue_head(c, proc_ptr) ELSE c
    IN  IF "NO_QUANTUM" \in h.rts[proc_ptr]
        THEN RTS_UNSET(h, proc_ptr, {"NO_QUANTUM"}) ELSE h

-----------------------------------------------------------------------------
(* The queues and the flags agree.                                         *)
OnQueues(k) ==
    \A q \in Queue :
        /\ IsInjective(k.rdy[q])
        /\ \A p \in Proc : Linked(k.rdy[q], p)
                              <=> (Runnable(k, p) /\ k.pri[p] = q)
=============================================================================

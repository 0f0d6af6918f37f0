------------------------------- MODULE Timers -------------------------------
(***************************************************************************)
(* The library of watchdog timers (lib/timers): a list of timers in the    *)
(* order in which they expire. The kernel has one such list (clock.c), PM  *)
(* another (servers/pm/timers.c).                                          *)
(*                                                                         *)
(* A list is a record: q, the timers in the list, and exp, tmr_exp_time of *)
(* every timer, in the list or not.                                        *)
(***************************************************************************)
EXTENDS Queues

CONSTANT LONG_MAX

ASSUME TimersAssumption == LONG_MAX \in Nat \ {0}

(* Mutant: one more than a clock_t holds.                                  *)
MutNEVER == LONG_MAX + 1

TMR_NEVER == LONG_MAX

Time    == (-LONG_MAX - 1)..LONG_MAX
List(T) == [q : Seq(T), exp : [T -> Time]]

(* Arithmetic of clock_t, a long.                                          *)
Long(x) == ((x + LONG_MAX + 1) % (2 * LONG_MAX + 2)) - (LONG_MAX + 1)

Head0(l, none) == IF l.q = <<>> THEN none ELSE l.exp[l.q[1]]

tmrs_clrtimer(l, tp) ==
    [q |-> Unlink(l.q, tp), exp |-> [l.exp EXCEPT ![tp] = TMR_NEVER]]

(* Mutant: the search stops one timer late.                                *)
MutPlace(q, exp, time) ==
    Min({i \in 1..(Len(q) + 1) : i = Len(q) + 1 \/ (i > 1 /\ time < exp[q[i]])})

(* Where a timer for this time goes: before the first that expires later.  *)
Place(q, exp, time) ==
    Min({i \in 1..(Len(q) + 1) : i = Len(q) + 1 \/ time < exp[q[i]]})

Insert(q, i, tp) ==
    [j \in 1..(Len(q) + 1) |-> IF j < i THEN q[j] ELSE IF j = i THEN tp ELSE q[j - 1]]

tmrs_settimer(l, tp, time) ==
    LET c == tmrs_clrtimer(l, tp)
    IN  [q |-> Insert(c.q, Place(c.q, c.exp, time), tp),
         exp |-> [c.exp EXCEPT ![tp] = time]]

(* Mutant: timers expire a tick early.                                     *)
MutDue(l, now) == l.q # <<>> /\ l.exp[l.q[1]] <= now + 1

(* The loop of tmrs_exptimers(): whether it goes on, and what it does to   *)
(* the list before it calls the watchdog.                                  *)
Due(l, now) == l.q # <<>> /\ l.exp[l.q[1]] <= now

Expired(l) == [q |-> Tail(l.q), exp |-> [l.exp EXCEPT ![l.q[1]] = TMR_NEVER]]

(* In the order of expiry, each timer once.                                *)
Ordered(l) ==
    /\ IsInjective(l.q)
    /\ \A i, j \in 1..Len(l.q) : i < j => l.exp[l.q[i]] <= l.exp[l.q[j]]
=============================================================================

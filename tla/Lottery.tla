------------------------------ MODULE Lottery ------------------------------
(***************************************************************************)
(* The draw of the lottery scheduler: pick_proc() with sched_type 1 adds   *)
(* up the tickets of the runnable processes of the queues from LOTTERY_Q   *)
(* on, draws a number below the total and walks the queues again,          *)
(* subtracting tickets until the number is negative.  Sched abstracts the  *)
(* draw to "any of these processes"; here the walk is the code's.          *)
(***************************************************************************)
EXTENDS Sched, SequencesExt

(* The processes the two loops visit, with the queue they are found on.    *)
Visited(k) ==
    FlattenSeq([i \in 1..(NR_SCHED_QUEUES - LOTTERY_Q) |->
                  LET q == LOTTERY_Q + i - 1
                  IN  [j \in 1..Len(k.rdy[q]) |-> <<k.rdy[q][j], q>>]])

Tickets(k, v) == IF Runnable(k, v[1]) THEN NR_SCHED_QUEUES - v[2] ELSE 0

total_tickets(k) ==
    FoldLeft(LAMBDA total, v : total + Tickets(k, v), 0, Visited(k))

(* Mutant: the walk stops one ticket early.                                *)
MutWinner(k, r) ==
    LET step(a, v) == IF a.winner <= 0 /\ a.rp # IDLE THEN a
                      ELSE [winner |-> a.winner - Tickets(k, v), rp |-> v[1]]
    IN  FoldLeft(step, [winner |-> r, rp |-> IDLE], Visited(k)).rp

(* The process that owns ticket r; IDLE if none does (return NULL).        *)
winner(k, r) ==
    LET step(a, v) == IF a.winner < 0 THEN a
                      ELSE [winner |-> a.winner - Tickets(k, v), rp |-> v[1]]
        end == FoldLeft(step, [winner |-> r, rp |-> IDLE], Visited(k))
    IN  IF end.winner < 0 THEN end.rp ELSE IDLE

(* The lottery is proportional and complete: whatever is on the queues,    *)
(* out of all equally likely draws a process wins exactly as many as it    *)
(* has tickets, NR_SCHED_QUEUES minus its queue, no draw is without a      *)
(* winner, and the processes that can win are those Sched picks from.      *)
LotteryProportional ==
    mode = "check" /\ ~Runnable(ps, proc_ptr) =>
        LET k     == SetAside(ps)
            draws == 0..(total_tickets(k) - 1)
        IN  ~Nonempty(k, 0..(LOTTERY_Q - 1)) =>
              /\ {winner(k, r) : r \in draws} = Picks(k)
              /\ \A p \in Picks(k) :
                    Cardinality({r \in draws : winner(k, r) = p})
                        = NR_SCHED_QUEUES - k.pri[p]
=============================================================================

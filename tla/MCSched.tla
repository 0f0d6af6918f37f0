------------------------------ MODULE MCSched ------------------------------
(* Small instances of Sched: the server PM in slot 0, VM in slot 1 where   *)
(* there is one, user processes in the others, a tick of quantum each.     *)
EXTENDS Lottery

BaseQueues(s, u) == [p \in Proc |-> IF p < 0 THEN 0 ELSE IF p \in Server THEN s ELSE u]

(* Four queues: tasks, server, users, and one for demoted users.           *)
MCBaseQ == BaseQueues(1, 2)

(* Three queues: tasks and server, deadlines, users.                       *)
MCBaseQEdf == BaseQueues(0, 2)

MCQuantum == [p \in Proc |-> IF p = IDLE THEN 0 ELSE 1]
=============================================================================

----------------------------- MODULE Rendezvous -----------------------------
(***************************************************************************)
(* What message passing promises to processes, without queues, tables,     *)
(* bit maps and flags. A process runs or waits in one call, with one peer: *)
(*   send     until the peer takes the message                             *)
(*   call     the same, and then for the answer (SENDREC)                  *)
(*   await    for the answer, from the peer only                           *)
(*   receive  for a message from the peer, or from ANY                     *)
(* A message goes from a process that is alive to one that asks for it; a  *)
(* notification never ends a wait for an answer; a process that dies       *)
(* releases all who wait for it, and nobody else.                          *)
(***************************************************************************)
EXTENDS Integers

CONSTANTS Slot, ANY, None

VARIABLES
    op,     \* what each process does
    peer,   \* with whom it waits
    inc,    \* the incarnation of each slot
    box     \* the message a process got and has not seen yet

Ep(p)     == <<p, inc[p]>>
Alive(p)  == op[p] \notin {"free", "dead"}
Busy(p)   == op[p] = "run" /\ box[p] = None
Got(p, m) == box' = [box EXCEPT ![p] = m]
Wants(q, e) == op[q] \in {"receive", "await"} /\ peer[q] \in {ANY, e}

rvars == <<op, peer, inc, box>>

RInit ==
    /\ op \in [Slot -> {"run", "free"}]
    /\ peer = [p \in Slot |-> ANY]
    /\ inc = [p \in Slot |-> 0]
    /\ box = [p \in Slot |-> None]

(* p waits.                                                                *)
Wait(p, o, e) ==
    /\ Busy(p) /\ e # ANY => Alive(e[1]) /\ e = Ep(e[1])
    /\ op' = [op EXCEPT ![p] = o] /\ peer' = [peer EXCEPT ![p] = e]
    /\ UNCHANGED <<inc, box>>

(* p sends to q, who waits for it, and goes on or waits for the answer.    *)
Hand(p, q) ==
    /\ Busy(p) /\ Wants(q, Ep(p))
    /\ \/ /\ op' = [op EXCEPT ![q] = "run"] /\ peer' = [peer EXCEPT ![q] = ANY]
          /\ \/ Got(q, <<Ep(p), Ep(q)>>)
             \/ box' = [box EXCEPT ![q] = <<Ep(p), Ep(q)>>, ![p] = <<Ep(q), Ep(p)>>]
       \/ /\ op' = [op EXCEPT ![q] = "run", ![p] = "await"]
          /\ peer' = [peer EXCEPT ![q] = ANY, ![p] = Ep(q)]
          /\ Got(q, <<Ep(p), Ep(q)>>)
    /\ UNCHANGED inc

(* q receives from p, who waits to send to it.                             *)
Take(q, p) ==
    /\ Busy(q) /\ op[p] \in {"send", "call"} /\ peer[p] = Ep(q)
    /\ op' = [op EXCEPT ![p] = IF @ = "send" THEN "run" ELSE "await"]
    /\ peer' = [peer EXCEPT ![p] = IF op[p] = "send" THEN ANY ELSE @]
    /\ Got(q, <<Ep(p), Ep(q)>>)
    /\ UNCHANGED inc

(* q receives a notification, or an asynchronous message sent before.      *)
Pick(q, src) ==
    /\ Busy(q) /\ Got(q, <<src, Ep(q)>>)
    /\ UNCHANGED <<op, peer, inc>>

(* A notification for q, who waits for it, but not for an answer.          *)
Event(q, src) ==
    /\ op[q] = "receive" /\ Wants(q, src)
    /\ op' = [op EXCEPT ![q] = "run"] /\ peer' = [peer EXCEPT ![q] = ANY]
    /\ Got(q, <<src, Ep(q)>>)
    /\ UNCHANGED inc

(* Asynchronous messages from p for all of D, who wait for them.           *)
Scatter(p, D) ==
    /\ Busy(p) /\ \A q \in D : Wants(q, Ep(p))
    /\ op'   = [q \in Slot |-> IF q \in D THEN "run" ELSE op[q]]
    /\ peer' = [q \in Slot |-> IF q \in D THEN ANY ELSE peer[q]]
    /\ box'  = [q \in Slot |-> IF q \in D THEN <<Ep(p), Ep(q)>> ELSE box[q]]
    /\ UNCHANGED inc

See(p) ==
    /\ op[p] = "run" /\ Got(p, None)
    /\ UNCHANGED <<op, peer, inc>>

(* p dies, and leaves its slot or not.                                     *)
Die(p, o) ==
    /\ op[p] # "free"
    /\ LET free(q) == op[q] \notin {"free", "dead", "run"} /\ peer[q] = Ep(p)
       IN  /\ op'   = [q \in Slot |-> IF q = p THEN o
                                      ELSE IF free(q) THEN "run" ELSE op[q]]
           /\ peer' = [q \in Slot |-> IF q = p \/ free(q) THEN ANY ELSE peer[q]]
    /\ Got(p, None)
    /\ UNCHANGED inc

(* The child waits for the same answer as its parent.                      *)
Born(pp, c) ==
    /\ op[c] = "free" /\ op[pp] = "await"
    /\ op' = [op EXCEPT ![c] = "await"] /\ peer' = [peer EXCEPT ![c] = peer[pp]]
    /\ inc' = [inc EXCEPT ![c] = @ + 1]
    /\ UNCHANGED box

RNext ==
    /\ rvars' # rvars
    /\ \/ \E p \in Slot : \/ See(p) \/ Wait(p, "receive", ANY)
                          \/ \E o \in {"dead", "free"} : Die(p, o)
                          \/ Pick(p, <<-1, 0>>) \/ Event(p, <<-1, 0>>)
       \/ \E p, q \in Slot :
             \/ Hand(p, q) \/ Take(p, q) \/ Pick(p, Ep(q)) \/ Event(p, Ep(q))
             \/ \E o \in {"send", "call", "await", "receive"} : Wait(p, o, Ep(q))
             \/ Born(p, q)
       \/ \E p \in Slot, D \in SUBSET Slot : Scatter(p, D)

RSpec == RInit /\ [][RNext]_rvars
=============================================================================

------------------------------- MODULE Queues -------------------------------
(***************************************************************************)
(* The kernel's linked lists of process slots, as sequences.               *)
(***************************************************************************)
EXTENDS Integers, Sequences, Functions, FiniteSetsExt

Linked(s, p) == \E i \in 1..Len(s) : s[i] = p

(* The loop that looks for p and takes its first occurrence out.           *)
Unlink(s, p) ==
    LET i == Min({j \in 1..Len(s) : s[j] = p})
    IN  IF Linked(s, p)
        THEN [j \in 1..(Len(s) - 1) |-> IF j < i THEN s[j] ELSE s[j + 1]]
        ELSE s
=============================================================================

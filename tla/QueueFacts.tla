---------------------------- MODULE QueueFacts ----------------------------
(***************************************************************************)
(* What adding a process to a queue and removing it does to the processes  *)
(* that are on it: the facts the proofs about the run queues rest on.      *)
(***************************************************************************)
EXTENDS Queues, SequenceTheorems, WellFoundedInduction, TLAPS

(* A set of numbers that is not empty has a least one.                     *)
LEMMA LeastNat ==
    ASSUME NEW I, I \subseteq Nat, I # {}
    PROVE  \E x \in I : \A y \in I : x <= y
<1>1. PICK x \in I : \A y \in I : ~(<<y, x>> \in OpToRel(<, Nat))
  BY NatLessThanWellFounded, WFMin
<1>2. ASSUME NEW y \in I PROVE x <= y
  <2>1. y \in Nat /\ x \in Nat
    OBVIOUS
  <2>2. y < x => <<y, x>> \in OpToRel(<, Nat)
    BY <2>1, Zenon DEF OpToRel
  <2>3. ~(y < x)
    BY <1>1, <2>2
  <2> QED BY <2>1, <2>3
<1> QED BY <1>2

(* The elements behind the first occurrence of e move up by one.           *)
LEMMA UnlinkShifts ==
    ASSUME NEW S, NEW s \in Seq(S), NEW e, Linked(s, e)
    PROVE  \E i \in 1..Len(s) :
              /\ s[i] = e
              /\ Unlink(s, e) \in Seq(S)
              /\ Len(Unlink(s, e)) = Len(s) - 1
              /\ \A j \in 1..(Len(s) - 1) :
                    Unlink(s, e)[j] = IF j < i THEN s[j] ELSE s[j + 1]
<1> DEFINE I == {j \in 1..Len(s) : s[j] = e}
           i == Min(I)
           t == [j \in 1..(Len(s) - 1) |-> IF j < i THEN s[j] ELSE s[j + 1]]
<1>1. I # {} /\ I \subseteq Nat
  BY DEF Linked
<1>2. i \in I
  BY <1>1, LeastNat DEF Min
<1>3. Unlink(s, e) = t
  BY DEF Unlink
<1>4. Len(s) - 1 \in Nat
  BY <1>2
<1> HIDE DEF i
<1>5. \A j \in 1..(Len(s) - 1) : t[j] \in S
  BY <1>4
<1>6. t \in Seq(S) /\ Len(t) = Len(s) - 1
  BY <1>4, <1>5
<1> QED BY <1>2, <1>3, <1>6

(* Removing a process from a queue without duplicates removes just it.     *)
LEMMA UnlinkFacts ==
    ASSUME NEW S, NEW s \in Seq(S), NEW e, Linked(s, e), IsInjective(s)
    PROVE  /\ Unlink(s, e) \in Seq(S)
           /\ IsInjective(Unlink(s, e))
           /\ \A x : Linked(Unlink(s, e), x) <=> Linked(s, x) /\ x # e
<1> DEFINE t == Unlink(s, e)
<1>1. PICK i \in 1..Len(s) :
         /\ s[i] = e /\ t \in Seq(S) /\ Len(t) = Len(s) - 1
         /\ \A j \in 1..(Len(s) - 1) : t[j] = IF j < i THEN s[j] ELSE s[j + 1]
  BY UnlinkShifts
<1>2. /\ t \in Seq(S) /\ Len(t) = Len(s) - 1
      /\ \A j \in 1..(Len(s) - 1) : t[j] = IF j < i THEN s[j] ELSE s[j + 1]
  BY <1>1
<1>i. \A j, l \in 1..Len(s) : s[j] = s[l] => j = l
  BY DEF IsInjective
<1> HIDE DEF t
<1>3. IsInjective(t)
  BY <1>2, <1>i DEF IsInjective
<1>4. ASSUME NEW x PROVE Linked(t, x) <=> Linked(s, x) /\ x # e
  <2>1. ASSUME Linked(t, x) PROVE Linked(s, x) /\ x # e
    <3>1. PICK j \in 1..Len(t) : t[j] = x
      BY <2>1 DEF Linked
    <3>2. CASE j < i
      BY <3>1, <3>2, <1>1, <1>2, <1>i DEF Linked
    <3>3. CASE ~(j < i)
      BY <3>1, <3>3, <1>1, <1>2, <1>i DEF Linked
    <3> QED BY <3>2, <3>3
  <2>2. ASSUME Linked(s, x), x # e PROVE Linked(t, x)
    <3>1. PICK j \in 1..Len(s) : s[j] = x
      BY <2>2 DEF Linked
    <3>2. CASE j < i
      BY <3>1, <3>2, <1>1, <1>2 DEF Linked
    <3>3. CASE ~(j < i)
      <4>1. j - 1 \in 1..Len(t) /\ t[j - 1] = x
        BY <3>1, <3>3, <1>1, <1>2, <2>2
      <4> QED BY <4>1 DEF Linked
    <3> QED BY <3>2, <3>3
  <2> QED BY <2>1, <2>2
<1> QED BY <1>2, <1>3, <1>4 DEF t

(* Adding a process to the front.                                          *)
LEMMA AddFront ==
    ASSUME NEW S, NEW s \in Seq(S), NEW e \in S, ~Linked(s, e), IsInjective(s)
    PROVE  /\ <<e>> \o s \in Seq(S)
           /\ IsInjective(<<e>> \o s)
           /\ \A x : Linked(<<e>> \o s, x) <=> Linked(s, x) \/ x = e
<1> DEFINE t == <<e>> \o s
<1>1. t \in Seq(S) /\ Len(t) = Len(s) + 1 /\ t[1] = e
      /\ \A j \in 2..(Len(s) + 1) : t[j] = s[j - 1]
  OBVIOUS
<1>i. \A j, l \in 1..Len(s) : s[j] = s[l] => j = l
  BY DEF IsInjective
<1>c. \A j \in 1..Len(s) : s[j] # e
  BY DEF Linked
<1> HIDE DEF t
<1>2. IsInjective(t)
  <2>1. DOMAIN t = 1..(Len(s) + 1)
    BY <1>1
  <2>2. ASSUME NEW j \in 2..(Len(s) + 1) PROVE j - 1 \in 1..Len(s) /\ t[j] # t[1]
    BY <1>1, <1>c
  <2>3. ASSUME NEW j \in 2..(Len(s) + 1), NEW l \in 2..(Len(s) + 1), t[j] = t[l]
        PROVE  j = l
    <3>1. t[j] = s[j - 1] /\ t[l] = s[l - 1]
      BY <1>1
    <3>2. j - 1 \in 1..Len(s) /\ l - 1 \in 1..Len(s)
      BY <2>2
    <3>3. j - 1 = l - 1
      BY <3>1, <3>2, <2>3, <1>i
    <3> QED BY <3>3
  <2> QED BY <2>1, <2>2, <2>3 DEF IsInjective
<1>3. ASSUME NEW x PROVE Linked(t, x) <=> Linked(s, x) \/ x = e
  <2>1. ASSUME NEW j \in 1..Len(s), s[j] = x PROVE Linked(t, x)
    <3>1. j + 1 \in 1..Len(t) /\ t[j + 1] = x
      BY <1>1, <2>1
    <3> QED BY <3>1 DEF Linked
  <2>2. Linked(t, e)
    BY <1>1 DEF Linked
  <2>3. ASSUME NEW j \in 1..Len(t), t[j] = x PROVE Linked(s, x) \/ x = e
    BY <1>1, <2>3 DEF Linked
  <2> QED BY <2>1, <2>2, <2>3 DEF Linked
<1> QED BY <1>1, <1>2, <1>3 DEF t

(* Adding a process to the back.                                           *)
LEMMA AddBack ==
    ASSUME NEW S, NEW s \in Seq(S), NEW e \in S, ~Linked(s, e), IsInjective(s)
    PROVE  /\ Append(s, e) \in Seq(S)
           /\ IsInjective(Append(s, e))
           /\ \A x : Linked(Append(s, e), x) <=> Linked(s, x) \/ x = e
<1> DEFINE t == Append(s, e)
<1>1. t \in Seq(S) /\ Len(t) = Len(s) + 1 /\ t[Len(s) + 1] = e
      /\ \A j \in 1..Len(s) : t[j] = s[j]
  OBVIOUS
<1>i. \A j, l \in 1..Len(s) : s[j] = s[l] => j = l
  BY DEF IsInjective
<1>c. \A j \in 1..Len(s) : s[j] # e
  BY DEF Linked
<1> HIDE DEF t
<1>2. IsInjective(t)
  BY <1>1, <1>i, <1>c DEF IsInjective
<1>3. ASSUME NEW x PROVE Linked(t, x) <=> Linked(s, x) \/ x = e
  <2>1. ASSUME NEW j \in 1..Len(s), s[j] = x PROVE Linked(t, x)
    BY <1>1, <2>1 DEF Linked
  <2>2. Linked(t, e)
    BY <1>1 DEF Linked
  <2>3. ASSUME NEW j \in 1..Len(t), t[j] = x PROVE Linked(s, x) \/ x = e
    BY <1>1, <2>3 DEF Linked
  <2> QED BY <2>1, <2>2, <2>3 DEF Linked
<1> QED BY <1>1, <1>2, <1>3 DEF t
=============================================================================

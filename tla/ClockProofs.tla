---------------------------- MODULE ClockProofs ----------------------------
(***************************************************************************)
(* Proofs about timers: the lists of the kernel and of PM stay in order.   *)
(* First the facts about the operations of the library on one list.        *)
(***************************************************************************)
EXTENDS Clock, QueueFacts

(* Arithmetic of a long stays in its range, and wraps only outside of it.  *)
LEMMA LongTime ==
    ASSUME NEW x \in Int
    PROVE  Long(x) \in Time /\ (x \in Time => Long(x) = x)
<1> DEFINE m == 2 * LONG_MAX + 2
           y == x + LONG_MAX + 1
<1>1. LONG_MAX \in Nat /\ m \in Nat /\ m > 0 /\ y \in Int
  BY TimersAssumption
<1> HIDE DEF m, y
<1>2. y % m \in 0..(m - 1)
  BY <1>1
<1>3. y \in 0..(m - 1) => y % m = y
  BY <1>1
<1>4. Long(x) = (y % m) - (LONG_MAX + 1)
  BY DEF Long, y, m
<1> QED BY <1>1, <1>2, <1>3, <1>4 DEF Time, y, m

(* The timers that stay in a list stay in order.                           *)
LEMMA UnlinkOrdered ==
    ASSUME NEW T, NEW s \in Seq(T), NEW exp, NEW tp, Linked(s, tp),
           \A i, j \in 1..Len(s) : i < j => exp[s[i]] <= exp[s[j]]
    PROVE  \A i, j \in 1..Len(Unlink(s, tp)) :
              i < j => exp[Unlink(s, tp)[i]] <= exp[Unlink(s, tp)[j]]
<1> DEFINE t == Unlink(s, tp)
<1>1. PICK n \in 1..Len(s) :
         /\ s[n] = tp /\ t \in Seq(T) /\ Len(t) = Len(s) - 1
         /\ \A j \in 1..(Len(s) - 1) : t[j] = IF j < n THEN s[j] ELSE s[j + 1]
  BY UnlinkShifts
<1>2. /\ t \in Seq(T) /\ Len(t) = Len(s) - 1
      /\ \A j \in 1..(Len(s) - 1) : t[j] = IF j < n THEN s[j] ELSE s[j + 1]
  BY <1>1
<1> HIDE DEF t
<1>3. ASSUME NEW i \in 1..Len(t), NEW j \in 1..Len(t), i < j
      PROVE  exp[t[i]] <= exp[t[j]]
  <2> DEFINE f(k) == IF k < n THEN k ELSE k + 1
  <2>1. f(i) \in 1..Len(s) /\ f(j) \in 1..Len(s) /\ f(i) < f(j)
    BY <1>2, <1>3
  <2>2. t[i] = s[f(i)] /\ t[j] = s[f(j)]
    BY <1>2
  <2> HIDE DEF f
  <2> QED BY <2>1, <2>2
<1> QED BY <1>3 DEF t

(* Taking a timer off a list.                                              *)
LEMMA ClrFacts ==
    ASSUME NEW T, NEW l \in List(T), NEW tp \in T, IsInjective(l.q)
    PROVE  LET c == tmrs_clrtimer(l, tp)
           IN  /\ c \in List(T) /\ IsInjective(c.q)
               /\ c.exp = [l.exp EXCEPT ![tp] = TMR_NEVER]
               /\ \A x : Linked(c.q, x) <=> Linked(l.q, x) /\ x # tp
               /\ Ordered(l) => Ordered(c)
<1> DEFINE c == tmrs_clrtimer(l, tp)
<1>1. l.q \in Seq(T) /\ l.exp \in [T -> Time] /\ TMR_NEVER \in Time
  BY TimersAssumption DEF List, TMR_NEVER, Time
<1>2. c.q = Unlink(l.q, tp) /\ c.exp = [l.exp EXCEPT ![tp] = TMR_NEVER]
      /\ c = [q |-> c.q, exp |-> c.exp]
  BY DEF tmrs_clrtimer
<1>3. c.exp \in [T -> Time] /\ \A x \in T : x # tp => c.exp[x] = l.exp[x]
  BY <1>1, <1>2
<1> HIDE DEF c
<1>4. CASE ~Linked(l.q, tp)
  <2>1. c.q = l.q
    BY <1>2, <1>4 DEF Unlink
  <2>2. c \in List(T)
    BY <1>1, <1>2, <1>3, <2>1, Zenon DEF List
  <2>3. \A x : Linked(c.q, x) <=> Linked(l.q, x) /\ x # tp
    BY <1>4, <2>1
  <2>4. \A i \in 1..Len(l.q) : l.q[i] \in T /\ l.q[i] # tp
    BY <1>1, <1>4 DEF Linked
  <2>5. Ordered(l) => Ordered(c)
    BY <1>3, <2>1, <2>4 DEF Ordered
  <2> QED BY <1>2, <2>1, <2>2, <2>3, <2>5 DEF c
<1>5. CASE Linked(l.q, tp)
  <2>1. /\ c.q \in Seq(T) /\ IsInjective(c.q)
        /\ \A x : Linked(c.q, x) <=> Linked(l.q, x) /\ x # tp
    BY <1>1, <1>2, <1>5, UnlinkFacts
  <2>2. c \in List(T)
    BY <1>2, <1>3, <2>1 DEF List
  <2>3. ASSUME Ordered(l) PROVE Ordered(c)
    <3>1. ASSUME NEW j \in 1..Len(c.q) PROVE c.q[j] \in T /\ c.q[j] # tp
      <4>1. Linked(c.q, c.q[j])
        BY DEF Linked
      <4> QED BY <4>1, <2>1
    <3>2. \A i, j \in 1..Len(l.q) : i < j => l.exp[l.q[i]] <= l.exp[l.q[j]]
      BY <2>3 DEF Ordered
    <3>3. \A i, j \in 1..Len(c.q) : i < j => l.exp[c.q[i]] <= l.exp[c.q[j]]
      BY <1>1, <1>2, <1>5, <3>2, UnlinkOrdered
    <3> QED BY <3>1, <3>3, <2>1, <1>3 DEF Ordered
  <2> QED BY <1>2, <2>1, <2>2, <2>3 DEF c
<1> QED BY <1>4, <1>5

(* Where the search of tmrs_settimer() ends.                               *)
LEMMA PlaceFacts ==
    ASSUME NEW T, NEW l \in List(T), NEW time \in Time
    PROVE  LET n == Place(l.q, l.exp, time)
           IN  /\ n \in 1..(Len(l.q) + 1)
               /\ \A j \in 1..(n - 1) : l.exp[l.q[j]] <= time
               /\ n <= Len(l.q) => time < l.exp[l.q[n]]
<1> DEFINE I == {i \in 1..(Len(l.q) + 1) : i = Len(l.q) + 1 \/ time < l.exp[l.q[i]]}
           n == Min(I)
<1>1. l.q \in Seq(T) /\ l.exp \in [T -> Time] /\ LONG_MAX \in Nat
  BY TimersAssumption DEF List
<1>2. I # {} /\ I \subseteq Nat
  <2>1. Len(l.q) + 1 \in I
    BY <1>1
  <2> QED BY <2>1
<1>3. n \in I /\ \A i \in I : n <= i
  BY <1>2, LeastNat DEF Min
<1>4. Place(l.q, l.exp, time) = n
  BY DEF Place
<1> HIDE DEF n
<1>5. n \in 1..(Len(l.q) + 1) /\ (n <= Len(l.q) => time < l.exp[l.q[n]])
  BY <1>1, <1>3
<1>6. ASSUME NEW j \in 1..(n - 1) PROVE l.exp[l.q[j]] <= time
  <2>1. j \in 1..Len(l.q) /\ j < n /\ l.exp[l.q[j]] \in Time
    BY <1>1, <1>5
  <2>2. ~(time < l.exp[l.q[j]])
    BY <1>3, <2>1, <1>1
  <2> QED BY <2>1, <2>2, <1>1 DEF Time
<1> QED BY <1>4, <1>5, <1>6

(* Putting a timer into a list.                                            *)
LEMMA InsertFacts ==
    ASSUME NEW T, NEW s \in Seq(T), NEW n \in 1..(Len(s) + 1), NEW tp \in T,
           IsInjective(s), ~Linked(s, tp)
    PROVE  LET r == Insert(s, n, tp)
           IN  /\ r \in Seq(T) /\ Len(r) = Len(s) + 1 /\ IsInjective(r)
               /\ r[n] = tp
               /\ \A j \in 1..(n - 1) : r[j] = s[j]
               /\ \A j \in (n + 1)..Len(r) : r[j] = s[j - 1]
               /\ \A x : Linked(r, x) <=> Linked(s, x) \/ x = tp
<1> DEFINE r == Insert(s, n, tp)
<1>1. r = [j \in 1..(Len(s) + 1) |->
              IF j < n THEN s[j] ELSE IF j = n THEN tp ELSE s[j - 1]]
  BY DEF Insert
<1>2. \A j \in 1..(Len(s) + 1) : r[j] \in T
  BY <1>1
<1>3. r \in Seq(T) /\ Len(r) = Len(s) + 1
  BY <1>1, <1>2
<1>4. r[n] = tp /\ (\A j \in 1..(n - 1) : r[j] = s[j])
      /\ (\A j \in (n + 1)..Len(r) : r[j] = s[j - 1])
  BY <1>1, <1>3
<1>i. \A j, k \in 1..Len(s) : s[j] = s[k] => j = k
  BY DEF IsInjective
<1>c. \A j \in 1..Len(s) : s[j] # tp
  BY DEF Linked
<1> HIDE DEF r
<1>5. \A j \in 1..Len(r) : j = n \/ j \in 1..(n - 1) \/ j \in (n + 1)..Len(r)
  BY <1>3
<1>6. ASSUME NEW j \in 1..Len(r), NEW k \in 1..Len(r), r[j] = r[k] PROVE j = k
  <2> DEFINE g(i) == IF i < n THEN i ELSE i - 1
  <2>1. ASSUME NEW i \in 1..Len(r), i # n PROVE g(i) \in 1..Len(s) /\ r[i] = s[g(i)]
    BY <1>3, <1>4, <1>5, <2>1
  <2>2. CASE j = n \/ k = n
    BY <2>1, <2>2, <1>4, <1>c, <1>6
  <2>3. CASE j # n /\ k # n
    <3>1. g(j) = g(k)
      BY <2>1, <2>3, <1>i, <1>6
    <3> QED BY <3>1, <2>3
  <2> QED BY <2>2, <2>3
<1>7. IsInjective(r)
  BY <1>3, <1>6 DEF IsInjective
<1>8. ASSUME NEW x PROVE Linked(r, x) <=> Linked(s, x) \/ x = tp
  <2>1. Linked(r, tp)
    BY <1>3, <1>4 DEF Linked
  <2>2. ASSUME NEW j \in 1..Len(s), s[j] = x PROVE Linked(r, x)
    <3>1. CASE j < n
      BY <3>1, <2>2, <1>3, <1>4 DEF Linked
    <3>2. CASE ~(j < n)
      <4>1. j + 1 \in (n + 1)..Len(r) /\ r[j + 1] = x
        BY <3>2, <2>2, <1>3, <1>4
      <4> QED BY <4>1, <1>3 DEF Linked
    <3> QED BY <3>1, <3>2
  <2>3. ASSUME NEW j \in 1..Len(r), r[j] = x, x # tp PROVE Linked(s, x)
    <3>1. j # n
      BY <2>3, <1>4
    <3>2. CASE j < n
      BY <3>2, <2>3, <1>3, <1>4 DEF Linked
    <3>3. CASE j > n
      <4>1. j - 1 \in 1..Len(s) /\ s[j - 1] = x
        BY <3>3, <2>3, <1>3, <1>4
      <4> QED BY <4>1 DEF Linked
    <3> QED BY <3>1, <3>2, <3>3
  <2> QED BY <2>1, <2>2, <2>3 DEF Linked
<1> QED BY <1>3, <1>4, <1>7, <1>8 DEF r

(* tmrs_settimer() needs the order of the other timers only.               *)
LEMMA SetFacts ==
    ASSUME NEW T, NEW l \in List(T), NEW tp \in T, NEW time \in Time,
           IsInjective(l.q), Ordered(tmrs_clrtimer(l, tp))
    PROVE  /\ tmrs_settimer(l, tp, time) \in List(T)
           /\ Ordered(tmrs_settimer(l, tp, time))
           /\ tmrs_settimer(l, tp, time).exp = [l.exp EXCEPT ![tp] = time]
           /\ \A x : Linked(tmrs_settimer(l, tp, time).q, x) <=> Linked(l.q, x) \/ x = tp
<1> DEFINE c == tmrs_clrtimer(l, tp)
           n == Place(c.q, c.exp, time)
           q == Insert(c.q, n, tp)
           r == tmrs_settimer(l, tp, time)
<1>1. /\ c \in List(T) /\ IsInjective(c.q)
      /\ c.exp = [l.exp EXCEPT ![tp] = TMR_NEVER]
      /\ \A x : Linked(c.q, x) <=> Linked(l.q, x) /\ x # tp
      /\ Ordered(c)
  BY ClrFacts
<1>2. r = [q |-> q, exp |-> [c.exp EXCEPT ![tp] = time]]
  BY DEF tmrs_settimer
<1>3. l.exp \in [T -> Time] /\ c.q \in Seq(T) /\ c.exp \in [T -> Time]
  BY <1>1 DEF List
<1> HIDE DEF c
<1>4. r.q = q /\ r.exp = [c.exp EXCEPT ![tp] = time] /\ r = [q |-> r.q, exp |-> r.exp]
  BY <1>2
<1>5. /\ r.exp = [l.exp EXCEPT ![tp] = time] /\ r.exp \in [T -> Time]
      /\ r.exp[tp] = time
      /\ \A x \in T : x # tp => r.exp[x] = c.exp[x]
  BY <1>1, <1>3, <1>4
<1>6. /\ n \in 1..(Len(c.q) + 1)
      /\ \A j \in 1..(n - 1) : c.exp[c.q[j]] <= time
      /\ n <= Len(c.q) => time < c.exp[c.q[n]]
  BY <1>1, PlaceFacts, Zenon
<1>7. ~Linked(c.q, tp)
  BY <1>1
<1> HIDE DEF n
<1>8. /\ q \in Seq(T) /\ Len(q) = Len(c.q) + 1 /\ IsInjective(q)
      /\ q[n] = tp
      /\ \A j \in 1..(n - 1) : q[j] = c.q[j]
      /\ \A j \in (n + 1)..Len(q) : q[j] = c.q[j - 1]
      /\ \A x : Linked(q, x) <=> Linked(c.q, x) \/ x = tp
  BY <1>1, <1>3, <1>6, <1>7, InsertFacts
<1> HIDE DEF q, r
<1>9. r \in List(T)
  BY <1>4, <1>5, <1>8 DEF List
<1>10. \A x : Linked(r.q, x) <=> Linked(l.q, x) \/ x = tp
  BY <1>1, <1>4, <1>8
<1>11. /\ \A j, k \in 1..Len(c.q) : j < k => c.exp[c.q[j]] <= c.exp[c.q[k]]
       /\ \A j \in 1..Len(c.q) : c.q[j] \in T /\ c.q[j] # tp /\ c.exp[c.q[j]] \in Int
  BY <1>1, <1>3, <1>7 DEF Ordered, Linked, Time
<1>12. time \in Int /\ Len(c.q) \in Nat
  BY <1>3, TimersAssumption DEF Time
<1>13. ASSUME NEW j \in 1..Len(q), j # n
       PROVE  LET h == IF j < n THEN j ELSE j - 1
              IN  h \in 1..Len(c.q) /\ q[j] = c.q[h] /\ r.exp[q[j]] = c.exp[c.q[h]]
  <2> DEFINE h == IF j < n THEN j ELSE j - 1
  <2>1. h \in 1..Len(c.q) /\ q[j] = c.q[h]
    BY <1>6, <1>8, <1>12, <1>13
  <2> HIDE DEF h
  <2>2. r.exp[q[j]] = c.exp[c.q[h]]
    BY <2>1, <1>11, <1>5
  <2> QED BY <2>1, <2>2 DEF h
<1>14. ASSUME NEW j \in 1..Len(q), NEW k \in 1..Len(q), j < k
       PROVE  r.exp[q[j]] <= r.exp[q[k]]
  <2>1. CASE j # n /\ k # n
    <3> DEFINE g(i) == IF i < n THEN i ELSE i - 1
    <3>1. /\ g(j) \in 1..Len(c.q) /\ r.exp[q[j]] = c.exp[c.q[g(j)]]
          /\ g(k) \in 1..Len(c.q) /\ r.exp[q[k]] = c.exp[c.q[g(k)]]
      BY <1>13, <2>1
    <3>2. g(j) < g(k)
      BY <1>6, <1>12, <1>14, <2>1
    <3> HIDE DEF g
    <3> QED BY <3>1, <3>2, <1>11
  <2>2. CASE j = n
    <3>1. /\ k - 1 \in 1..Len(c.q) /\ r.exp[q[k]] = c.exp[c.q[k - 1]]
          /\ n \in 1..Len(c.q) /\ n <= k - 1
      <4>1. k # n /\ ~(k < n) /\ n \in 1..Len(c.q) /\ n <= k - 1
        BY <1>6, <1>8, <1>12, <1>14, <2>2
      <4>2. k - 1 \in 1..Len(c.q) /\ r.exp[q[k]] = c.exp[c.q[k - 1]]
        BY <4>1, <1>13
      <4> QED BY <4>1, <4>2
    <3>2. c.exp[c.q[n]] <= c.exp[c.q[k - 1]]
      <4>1. CASE n = k - 1
        BY <4>1, <3>1, <1>11
      <4>2. CASE n < k - 1
        BY <4>2, <3>1, <1>11
      <4> QED BY <4>1, <4>2, <3>1, <1>12
    <3>3. time < c.exp[c.q[n]]
      BY <3>1, <1>6, <1>12
    <3>4. c.exp[c.q[n]] \in Int /\ c.exp[c.q[k - 1]] \in Int
      BY <3>1, <1>11
    <3>5. time <= c.exp[c.q[k - 1]]
      BY <3>2, <3>3, <3>4, <1>12
    <3>6. r.exp[q[j]] = time
      BY <1>5, <1>8, <2>2
    <3> QED BY <3>1, <3>5, <3>6
  <2>3. CASE k = n
    <3>1. /\ j \in 1..(n - 1) /\ j \in 1..Len(c.q)
          /\ r.exp[q[j]] = c.exp[c.q[j]]
      BY <1>6, <1>8, <1>12, <1>13, <1>14, <2>3
    <3> QED BY <3>1, <1>5, <1>6, <1>8, <2>3
  <2> QED BY <2>1, <2>2, <2>3
<1>15. Ordered(r)
  BY <1>4, <1>8, <1>14 DEF Ordered
<1> QED BY <1>5, <1>9, <1>10, <1>15 DEF r

(* tmrs_exptimers() takes the first timer off.                             *)
LEMMA ExpiredFacts ==
    ASSUME NEW T, NEW l \in List(T), Ordered(l), l.q # <<>>
    PROVE  /\ Expired(l) \in List(T) /\ Ordered(Expired(l)) /\ l.q[1] \in T
           /\ Expired(l).exp = [l.exp EXCEPT ![l.q[1]] = TMR_NEVER]
           /\ \A x : Linked(Expired(l).q, x) <=> Linked(l.q, x) /\ x # l.q[1]
<1> DEFINE r == Expired(l)
           h == l.q[1]
<1>1. l.q \in Seq(T) /\ l.exp \in [T -> Time] /\ TMR_NEVER \in Time
  BY TimersAssumption DEF List, TMR_NEVER, Time
<1>2. r.q = Tail(l.q) /\ r.exp = [l.exp EXCEPT ![h] = TMR_NEVER]
      /\ r = [q |-> r.q, exp |-> r.exp]
  BY DEF Expired
<1>3. /\ h \in T /\ Len(l.q) \in Nat /\ Len(l.q) > 0
      /\ r.q \in Seq(T) /\ Len(r.q) = Len(l.q) - 1
      /\ \A j \in 1..Len(r.q) : j + 1 \in 1..Len(l.q) /\ r.q[j] = l.q[j + 1]
  BY <1>1, <1>2
<1>4. r.exp \in [T -> Time] /\ \A x \in T : x # h => r.exp[x] = l.exp[x]
  BY <1>1, <1>2, <1>3
<1>5. \A j, k \in 1..Len(l.q) : l.q[j] = l.q[k] => j = k
  BY DEF Ordered, IsInjective
<1>6. \A j, k \in 1..Len(l.q) : j < k => l.exp[l.q[j]] <= l.exp[l.q[k]]
  BY DEF Ordered
<1> HIDE DEF r, h
<1>7. \A j \in 1..Len(r.q) : r.q[j] \in T /\ r.q[j] # h
  BY <1>3, <1>5 DEF h
<1>8. IsInjective(r.q)
  BY <1>3, <1>5 DEF IsInjective
<1>9. \A j, k \in 1..Len(r.q) : j < k => r.exp[r.q[j]] <= r.exp[r.q[k]]
  <2>1. ASSUME NEW j \in 1..Len(r.q), NEW k \in 1..Len(r.q), j < k
        PROVE  r.exp[r.q[j]] <= r.exp[r.q[k]]
    <3>1. j + 1 < k + 1 /\ j + 1 \in 1..Len(l.q) /\ k + 1 \in 1..Len(l.q)
      BY <1>3, <2>1
    <3>2. l.exp[l.q[j + 1]] <= l.exp[l.q[k + 1]]
      BY <3>1, <1>6
    <3>3. r.exp[r.q[j]] = l.exp[r.q[j]] /\ r.exp[r.q[k]] = l.exp[r.q[k]]
      BY <1>4, <1>7
    <3> QED BY <3>2, <3>3, <1>3
  <2> QED BY <2>1
<1>10. ASSUME NEW x PROVE Linked(r.q, x) <=> Linked(l.q, x) /\ x # h
  <2>1. ASSUME Linked(r.q, x) PROVE Linked(l.q, x) /\ x # h
    BY <2>1, <1>3, <1>7 DEF Linked
  <2>2. ASSUME NEW j \in 1..Len(l.q), l.q[j] = x, x # h PROVE Linked(r.q, x)
    <3>1. j # 1
      BY <2>2 DEF h
    <3>2. j - 1 \in 1..Len(r.q) /\ r.q[j - 1] = x
      BY <2>2, <3>1, <1>3
    <3> QED BY <3>2 DEF Linked
  <2> QED BY <2>1, <2>2 DEF Linked
<1>11. r \in List(T)
  BY <1>2, <1>3, <1>4 DEF List
<1> QED BY <1>2, <1>3, <1>8, <1>9, <1>10, <1>11 DEF Ordered, r, h

(* The front of a list is its first timer to expire.                       *)
LEMMA HeadFacts ==
    ASSUME NEW T, NEW l \in List(T), Ordered(l), l.q # <<>>
    PROVE  /\ l.q[1] \in T /\ Linked(l.q, l.q[1]) /\ l.exp[l.q[1]] \in Time
           /\ \A x : Linked(l.q, x) => l.exp[l.q[1]] <= l.exp[x]
<1>1. l.q \in Seq(T) /\ l.exp \in [T -> Time] /\ LONG_MAX \in Nat
  BY TimersAssumption DEF List
<1>2. 1 \in 1..Len(l.q) /\ l.q[1] \in T /\ l.exp[l.q[1]] \in Time
  BY <1>1
<1>3. ASSUME NEW j \in 1..Len(l.q) PROVE l.exp[l.q[1]] <= l.exp[l.q[j]]
  <2>1. CASE j = 1
    BY <2>1, <1>1, <1>2 DEF Time
  <2>2. CASE j # 1
    BY <2>2, <1>1, <1>2 DEF Ordered
  <2> QED BY <2>1, <2>2
<1> QED BY <1>2, <1>3 DEF Linked

-----------------------------------------------------------------------------
(* The invariant behind the order of the lists: what SYSTEM and PM keep    *)
(* in their local variables fits the lists they are going to change.       *)
JobsOK == \A i \in 1..Len(job) : job[i].op = "set" => job[i].time \in Time

ArgsOK ==
    /\ pm.pc = "set" => \E n \in 0..MaxTime, u \in User, k \in Nat : pm.arg = <<n, u, k>>
    /\ pm.pc = "arm" => pm.arg = <<Head0(pt, 0)>>
    /\ pm.pc = "expire" => \E n \in 0..realtime : pm.arg = <<n>>

KInv == /\ kt \in List(KT) /\ IsInjective(kt.q)
        /\ Ordered(IF Setting THEN tmrs_clrtimer(kt, job[1].tp) ELSE kt)

PInv == /\ pt \in List(User) /\ Ordered(pt)
        /\ \A u \in User : alarm[u].on <=> Linked(pt.q, u)

OrderInv == TypeOK /\ JobsOK /\ ArgsOK /\ KInv /\ PInv

(* What the assumptions on the constants come to.                          *)
LEMMA ConstantFacts ==
    /\ LONG_MAX \in Nat /\ LONG_MAX > 0 /\ MaxTime \in Nat /\ MaxTime < LONG_MAX
    /\ Period \in Nat /\ DL_HZ \in Nat
    /\ 0 \in Time /\ TMR_NEVER \in Time /\ 0..MaxTime \subseteq Time /\ Time \subseteq Int
    /\ Balance \in KT /\ PMAlarm \in KT /\ EDF \subseteq KT /\ EDF \subseteq User
    /\ Balance # PMAlarm /\ Balance \notin EDF /\ PMAlarm \notin EDF
    /\ User \subseteq Nat
  BY TimersAssumption, ClockAssumption DEF Time, TMR_NEVER, KT, Balance, PMAlarm

(* The time of the front of a list is in range.                            *)
LEMMA HeadType ==
    ASSUME NEW T, NEW l \in List(T), NEW none \in Time
    PROVE  Head0(l, none) \in Time
<1>1. l.q \in Seq(T) /\ l.exp \in [T -> Time]
  BY DEF List
<1> QED BY <1>1 DEF Head0

(* An ordered list is fine, whatever SYSTEM is about to do.                *)
LEMMA SettingOrdered ==
    ASSUME NEW l \in List(KT), Ordered(l), NEW j \in Seq(Jobs), NEW t
    PROVE  Ordered(IF t = "system" /\ j # <<>> /\ j[1].op = "set"
                   THEN tmrs_clrtimer(l, j[1].tp) ELSE l)
<1>1. CASE j # <<>>
  <2>1. j[1] \in Jobs
    BY <1>1
  <2> DEFINE tp == j[1].tp
  <2>2. tp \in KT
    BY <2>1 DEF Jobs
  <2>3. IsInjective(l.q)
    BY DEF Ordered
  <2> HIDE DEF tp
  <2>4. Ordered(tmrs_clrtimer(l, tp))
    BY <2>2, <2>3, ClrFacts, Zenon
  <2> USE DEF tp
  <2> QED BY <2>4
<1>2. CASE j = <<>>
  BY <1>2
<1> QED BY <1>1, <1>2

(* Initially only the timer of balance_queues() is set.                    *)
LEMMA InitOrder == Init => OrderInv
<1> SUFFICES ASSUME Init PROVE OrderInv
  OBVIOUS
<1> USE ConstantFacts
<1> DEFINE e == [t \in KT |-> IF t = Balance THEN Period
                              ELSE IF t = PMAlarm THEN TMR_NEVER ELSE 0]
<1>1. kt.q = <<Balance>> /\ kt.exp = e /\ kt = [q |-> <<Balance>>, exp |-> e]
  BY DEF Init
<1>2. Period \in Time
  BY ClockAssumption DEF Time
<1>3. e \in [KT -> Time]
  BY <1>2
<1>4. <<Balance>> \in Seq(KT)
  OBVIOUS
<1>5. kt \in List(KT)
  BY <1>1, <1>3, <1>4 DEF List
<1>6. IsInjective(kt.q) /\ Ordered(kt)
  BY <1>1, <1>2, <1>3 DEF IsInjective, Ordered, Time
<1>7. ~Setting
  BY DEF Setting, Init
<1>8. KInv
  BY <1>5, <1>6, <1>7 DEF KInv
<1>9. pt = [q |-> <<>>, exp |-> [u \in User |-> TMR_NEVER]]
  BY DEF Init
<1>10. pt \in List(User) /\ Ordered(pt) /\ \A u : ~Linked(pt.q, u)
  BY <1>9 DEF List, Ordered, IsInjective, Linked
<1>11. \A u \in User : alarm[u] = AlarmOff
  BY DEF Init
<1>12. PInv
  BY <1>10, <1>11 DEF PInv, AlarmOff
<1>13. job = <<>> /\ JobsOK
  BY DEF JobsOK, Init
<1>14. pm = [pc |-> "idle", note |-> FALSE, arg |-> <<>>] /\ ArgsOK
  BY DEF ArgsOK, Init
<1>15. alarm \in [User -> [on : BOOLEAN, iv : Nat, due : Int]]
  BY DEF Init, AlarmOff
<1>16. TypeOK
  <2>1. realtime = 0 /\ next_timeout = Period /\ task = "none" /\ store = FALSE
        /\ clk = [note |-> FALSE, now |-> 0]
    BY DEF Init
  <2>2. job \in Seq(Jobs) /\ 0 \in 0..MaxTime
    BY <1>13
  <2>3. <<>> \in Seq(Int)
    OBVIOUS
  <2>4. pm \in [pc : {"idle", "set", "arm", "called", "expire"}, note : BOOLEAN,
                arg : Seq(Int)]
    BY <1>14, <2>3
  <2> QED BY <2>1, <2>2, <2>4, <1>2, <1>5, <1>10, <1>15, Zenon DEF TypeOK
<1> QED BY <1>8, <1>12, <1>13, <1>14, <1>16 DEF OrderInv

(* What a step leaves alone stays in order: the kernel's list.             *)
LEMMA KFrame == KInv /\ UNCHANGED <<kt, task, job>> => KInv'
  BY DEF KInv, Setting

(* PM's list.                                                              *)
LEMMA PFrame == PInv /\ UNCHANGED <<pt, alarm>> => PInv'
  BY DEF PInv

(* SYSTEM's work.                                                          *)
LEMMA JobsFrame == JobsOK /\ UNCHANGED job => JobsOK'
  BY DEF JobsOK

(* PM's local variables.                                                   *)
LEMMA ArgsFrame == ArgsOK /\ UNCHANGED <<pm, pt, realtime>> => ArgsOK'
  BY DEF ArgsOK, Head0

(* The clock interrupt, and next_timeout.                                  *)
LEMMA OrderTick ==
    ASSUME OrderInv,
           StoreNext \/ ClockReceive \/ ClockDone \/ \E n \in 1..(1 + MaxLost) : Tick(n)
    PROVE  OrderInv'
<1> USE ConstantFacts DEF OrderInv
<1>1. CASE StoreNext
  <2>1. next_timeout' \in Time
    BY <1>1, HeadType DEF StoreNext, TypeOK
  <2>2. TypeOK'
    BY <1>1, <2>1 DEF StoreNext, TypeOK
  <2> QED BY <1>1, <2>2, KFrame, PFrame, JobsFrame, ArgsFrame DEF StoreNext
<1>2. CASE ClockReceive
  <2>1. TypeOK'
    BY <1>2 DEF ClockReceive, TypeOK
  <2>2. ~Setting /\ ~Setting'
    BY <1>2 DEF ClockReceive, Setting
  <2>3. KInv'
    BY <1>2, <2>2 DEF ClockReceive, KInv
  <2> QED BY <1>2, <2>1, <2>3, PFrame, JobsFrame, ArgsFrame DEF ClockReceive
<1>3. CASE ClockDone
  <2>1. next_timeout' \in Time
    BY <1>3, HeadType DEF ClockDone, TypeOK
  <2>2. TypeOK'
    BY <1>3, <2>1 DEF ClockDone, TypeOK
  <2>3. ~Setting /\ ~Setting'
    BY <1>3 DEF ClockDone, Setting
  <2>4. KInv'
    BY <1>3, <2>3 DEF ClockDone, KInv
  <2> QED BY <1>3, <2>2, <2>4, PFrame, JobsFrame, ArgsFrame DEF ClockDone
<1>4. ASSUME NEW n \in 1..(1 + MaxLost), Tick(n) PROVE OrderInv'
  <2>1. realtime' \in 0..MaxTime /\ realtime <= realtime'
    BY <1>4, ClockAssumption DEF Tick, TypeOK
  <2>2. clk' \in [note : BOOLEAN, now : 0..MaxTime]
    BY <1>4, Zenon DEF Tick, TypeOK
  <2>3. TypeOK'
    BY <1>4, <2>1, <2>2 DEF Tick, TypeOK
  <2>4. 0..realtime \subseteq 0..realtime'
    BY <2>1 DEF TypeOK
  <2>5. ArgsOK'
    BY <1>4, <2>4 DEF Tick, ArgsOK, Head0
  <2> QED BY <1>4, <2>3, <2>5, KFrame, PFrame, JobsFrame DEF Tick
<1> QED BY <1>1, <1>2, <1>3, <1>4

(* The watchdogs that CLOCK calls.                                         *)
LEMMA OrderClockExpire ==
    ASSUME OrderInv, ClockExpire
    PROVE  OrderInv'
<1> USE ConstantFacts DEF OrderInv
<1> DEFINE tp == kt.q[1]
           x  == Expired(kt)
<1>1. ~Setting /\ ~Setting' /\ Ordered(kt) /\ kt \in List(KT) /\ kt.q # <<>>
  BY DEF ClockExpire, Setting, KInv, Due
<1>2. x \in List(KT) /\ Ordered(x) /\ tp \in KT
  BY <1>1, ExpiredFacts, Zenon
<1> DEFINE t == Long(realtime + Period)
<1>3. t \in Time
  BY LongTime DEF TypeOK
<1>4. kt' = IF tp = Balance THEN tmrs_settimer(x, tp, t) ELSE x
  BY DEF ClockExpire
<1> HIDE DEF tp, x, t
<1>5. IsInjective(x.q) /\ Ordered(tmrs_clrtimer(x, tp))
  <2>1. IsInjective(x.q)
    BY <1>2 DEF Ordered
  <2> QED BY <1>2, <2>1, ClrFacts, Zenon
<1>6. tmrs_settimer(x, tp, t) \in List(KT) /\ Ordered(tmrs_settimer(x, tp, t))
  BY ONLY <1>2, <1>3, <1>5, SetFacts, Zenon
<1>7. kt' \in List(KT) /\ Ordered(kt')
  BY <1>2, <1>4, <1>6
<1>8. KInv'
  BY <1>1, <1>7 DEF KInv, Ordered
<1>9. <<realtime>> \in Seq(Int) /\ realtime \in 0..realtime
  BY DEF TypeOK
<1>10. pm' \in [pc : {"idle", "set", "arm", "called", "expire"}, note : BOOLEAN, arg : Seq(Int)]
  <2>1. pm \in [pc : {"idle", "set", "arm", "called", "expire"}, note : BOOLEAN, arg : Seq(Int)]
    BY DEF TypeOK
  <2>2. \/ pm' = pm \/ pm' = [pm EXCEPT !.note = TRUE]
        \/ pm' = [pm EXCEPT !.pc = "expire", !.arg = <<realtime>>]
    BY DEF ClockExpire
  <2> QED BY <2>1, <2>2, <1>9, Zenon
<1>11. TypeOK'
  BY <1>7, <1>10 DEF ClockExpire, TypeOK
<1>12. ArgsOK'
  <2>1. CASE pm' = [pm EXCEPT !.pc = "expire", !.arg = <<realtime>>]
    BY <2>1, <1>9, Zenon DEF ArgsOK, TypeOK, ClockExpire
  <2>2. CASE pm'.pc = pm.pc /\ pm'.arg = pm.arg
    BY <2>2 DEF ArgsOK, ClockExpire, Head0
  <2>3. \/ pm' = [pm EXCEPT !.pc = "expire", !.arg = <<realtime>>]
        \/ pm'.pc = pm.pc /\ pm'.arg = pm.arg
    BY DEF ClockExpire, TypeOK
  <2> QED BY <2>1, <2>2, <2>3
<1> QED BY <1>8, <1>11, <1>12, PFrame, JobsFrame DEF ClockExpire

(* SYSTEM takes a request: any sequence of jobs whose times are in range.  *)
LEMMA OrderStart ==
    ASSUME OrderInv, NEW j \in Seq(Jobs), Start(j), kt' = kt,
           \A i \in 1..Len(j) : j[i].op = "set" => j[i].time \in Time
    PROVE  KInv' /\ JobsOK' /\ task' \in {"none", "clock", "system"} /\ job' \in Seq(Jobs)
<1>1. ~Setting /\ task' = "system" /\ job' = j
  BY DEF Start, Setting
<1>2. kt \in List(KT) /\ Ordered(kt)
  BY <1>1 DEF OrderInv, KInv
<1>3. Ordered(IF "system" = "system" /\ j # <<>> /\ j[1].op = "set"
              THEN tmrs_clrtimer(kt, j[1].tp) ELSE kt)
  BY ONLY <1>2, j \in Seq(Jobs), SettingOrdered
<1>4. KInv'
  BY <1>1, <1>2, <1>3, Zenon DEF KInv, Setting, Ordered
<1> QED BY <1>1, <1>4 DEF JobsOK

(* A request to SYSTEM: a deadline, an exit, or PM's kernel alarm.         *)
LEMMA OrderRequests ==
    ASSUME OrderInv,
           \/ do_setalarm
           \/ \E u \in EDF : clear_proc(u) \/ \E k \in Deadlines : do_chdeadline(u, k)
    PROVE  OrderInv'
<1> USE DEF OrderInv
<1>r. ASSUME NEW tp \in KT PROVE <<Reset(tp)>> \in Seq(Jobs) /\ Reset(tp).op = "reset"
  BY DEF Reset, Jobs
<1>s. ASSUME NEW tp \in KT, NEW time \in Int
      PROVE  /\ <<Set(tp, time)>> \in Seq(Jobs) /\ Set(tp, time).time = time
             /\ <<SetIn(tp, time)>> \in Seq(Jobs) /\ SetIn(tp, time).op = "in"
  BY DEF Set, SetIn, Jobs
<1>1. CASE do_setalarm
  <2> DEFINE j == <<IF pm.arg[1] = 0 THEN Reset(PMAlarm) ELSE Set(PMAlarm, pm.arg[1])>>
  <2>1. pm.arg[1] \in Time /\ pm.arg[1] \in Int
    <3>1. pm.arg = <<Head0(pt, 0)>> /\ pt \in List(User)
      BY <1>1 DEF do_setalarm, ArgsOK, TypeOK
    <3>2. Head0(pt, 0) \in Time
      BY <3>1, ConstantFacts, HeadType
    <3>3. pm.arg[1] = Head0(pt, 0)
      BY ONLY <3>1
    <3> QED BY ONLY <3>2, <3>3, ConstantFacts, Zenon
  <2>2. PMAlarm \in KT
    BY ConstantFacts
  <2>3. j \in Seq(Jobs)
    BY <2>1, <2>2, <1>r, <1>s
  <2>4. \A i \in 1..Len(j) : j[i].op = "set" => j[i].time \in Time
    BY <2>1, <2>2, <1>r, <1>s
  <2>5. Start(j) /\ kt' = kt
    BY <1>1 DEF do_setalarm
  <2> HIDE DEF j
  <2>6. KInv' /\ JobsOK' /\ task' \in {"none", "clock", "system"} /\ job' \in Seq(Jobs)
    BY <2>3, <2>4, <2>5, OrderStart
  <2>7. pm' \in [pc : {"idle", "set", "arm", "called", "expire"}, note : BOOLEAN, arg : Seq(Int)]
        /\ pm'.pc = "called"
    <3>1. pm' = [pm EXCEPT !.pc = "called", !.arg = <<>>] /\ <<>> \in Seq(Int)
      BY <1>1 DEF do_setalarm
    <3>2. pm \in [pc : {"idle", "set", "arm", "called", "expire"}, note : BOOLEAN, arg : Seq(Int)]
      BY DEF TypeOK
    <3> QED BY ONLY <3>1, <3>2, Zenon
  <2>8. TypeOK'
    BY <1>1, <2>6, <2>7 DEF do_setalarm, TypeOK
  <2>9. ArgsOK'
    BY <2>7 DEF ArgsOK
  <2> QED BY <1>1, <2>6, <2>8, <2>9, PFrame DEF do_setalarm
<1>2. ASSUME NEW j \in Seq(Jobs), Start(j), \A i \in 1..Len(j) : j[i].op # "set",
             UNCHANGED <<realtime, next_timeout, kt, store, clk, pt, pm, alarm>>
      PROVE  OrderInv'
  <2>1. KInv' /\ JobsOK' /\ task' \in {"none", "clock", "system"} /\ job' \in Seq(Jobs)
    BY <1>2, OrderStart
  <2>2. TypeOK'
    BY <1>2, <2>1 DEF TypeOK
  <2> QED BY <1>2, <2>1, <2>2, PFrame, ArgsFrame
<1>3. ASSUME NEW u \in EDF, clear_proc(u) PROVE OrderInv'
  <2>1. u \in KT
    BY ConstantFacts
  <2>2. <<Reset(u)>> \in Seq(Jobs) /\ \A i \in 1..Len(<<Reset(u)>>) : <<Reset(u)>>[i].op # "set"
    BY <2>1, <1>r
  <2> QED BY <1>2, <1>3, <2>2, Zenon DEF clear_proc
<1>4. ASSUME NEW u \in EDF, NEW k \in Deadlines, do_chdeadline(u, k) PROVE OrderInv'
  <2> DEFINE a == IF kt.exp[u] > 0 THEN <<Reset(u)>> ELSE <<>>
             b == IF k # 0 THEN <<SetIn(u, k * DL_HZ)>> ELSE <<>>
  <2>1. u \in KT /\ k * DL_HZ \in Int
    BY ConstantFacts, ClockAssumption
  <2>2. a \in Seq(Jobs) /\ \A i \in 1..Len(a) : a[i].op # "set"
    BY <2>1, <1>r
  <2>3. b \in Seq(Jobs) /\ \A i \in 1..Len(b) : b[i].op # "set"
    BY <2>1, <1>s
  <2>4. Start(a \o b)
    BY <1>4 DEF do_chdeadline
  <2> HIDE DEF a, b
  <2>5. a \o b \in Seq(Jobs) /\ \A i \in 1..Len(a \o b) : (a \o b)[i].op # "set"
    BY <2>2, <2>3
  <2> QED BY <1>2, <1>4, <2>4, <2>5, Zenon DEF do_chdeadline
<1> QED BY <1>1, <1>3, <1>4

(* do_chdeadline() stores the time in a timer that may be linked.          *)
LEMMA OrderUptime ==
    ASSUME OrderInv, SystemUptime
    PROVE  OrderInv'
<1> USE DEF OrderInv
<1> DEFINE tp   == job[1].tp
           time == Long(job[1].time + realtime)
<1>1. job \in Seq(Jobs) /\ job # <<>> /\ job[1] \in Jobs /\ realtime \in Int
  BY DEF SystemUptime, TypeOK
<1>2. tp \in KT /\ job[1].time + realtime \in Int
  BY <1>1 DEF Jobs
<1>3. time \in Time /\ time \in Int
  BY <1>2, LongTime, ConstantFacts, Zenon
<1>4. kt' = [kt EXCEPT !.exp[tp] = time] /\ job' = <<Set(tp, time)>> \o Tail(job)
  BY DEF SystemUptime
<1>5. ~Setting /\ kt \in List(KT) /\ IsInjective(kt.q) /\ Ordered(kt) /\ task' = "system"
  BY DEF SystemUptime, Setting, KInv
<1> HIDE DEF tp, time
<1>6. kt' \in List(KT) /\ kt'.q = kt.q /\ kt'.exp = [kt.exp EXCEPT ![tp] = time]
  BY ONLY <1>2, <1>3, <1>4, <1>5 DEF List
<1>7. Set(tp, time) \in Jobs /\ Set(tp, time).op = "set" /\ Set(tp, time).tp = tp
      /\ Set(tp, time).time = time
  BY ONLY <1>2, <1>3 DEF Set, Jobs
<1>8. /\ job' \in Seq(Jobs) /\ job' # <<>> /\ job'[1] = Set(tp, time) /\ Len(job') = Len(job)
      /\ \A i \in 2..Len(job) : job'[i] = job[i]
  BY ONLY <1>1, <1>4, <1>7
<1>9. JobsOK'
  <2>1. ASSUME NEW i \in 1..Len(job'), job'[i].op = "set" PROVE job'[i].time \in Time
    <3>1. CASE i = 1
      BY ONLY <3>1, <1>3, <1>7, <1>8
    <3>2. CASE i # 1
      <4>1. i \in 2..Len(job) /\ i \in 1..Len(job)
        BY ONLY <3>2, <1>1, <1>8, i \in 1..Len(job')
      <4> QED BY <4>1, <2>1, <1>8 DEF JobsOK
    <3> QED BY <3>1, <3>2
  <2> QED BY <2>1 DEF JobsOK
<1>10. [kt'.exp EXCEPT ![tp] = TMR_NEVER] = [kt.exp EXCEPT ![tp] = TMR_NEVER]
  BY ONLY <1>2, <1>5, <1>6 DEF List
<1>11. tmrs_clrtimer(kt', tp) = tmrs_clrtimer(kt, tp)
  BY ONLY <1>6, <1>10 DEF tmrs_clrtimer
<1>12. Ordered(tmrs_clrtimer(kt, tp))
  BY <1>2, <1>5, ClrFacts, Zenon
<1>13. Ordered(tmrs_clrtimer(kt', job'[1].tp))
  BY ONLY <1>7, <1>8, <1>11, <1>12
<1>14. Setting'
  BY <1>5, <1>7, <1>8 DEF Setting
<1>15. KInv'
  BY <1>5, <1>6, <1>13, <1>14 DEF KInv
<1>16. TypeOK'
  BY <1>6, <1>8 DEF SystemUptime, TypeOK
<1> QED BY <1>9, <1>15, <1>16, PFrame, ArgsFrame DEF SystemUptime

(* set_timer() and reset_timer().                                          *)
LEMMA OrderSystemStep ==
    ASSUME OrderInv, SystemStep
    PROVE  OrderInv'
<1> USE DEF OrderInv
<1> DEFINE tp   == job[1].tp
           time == job[1].time
           r    == tmrs_clrtimer(kt, tp)
<1>1. job \in Seq(Jobs) /\ job # <<>> /\ job[1] \in Jobs
  BY DEF SystemStep, TypeOK
<1>2. tp \in KT /\ job[1].op \in {"reset", "set", "in"} /\ job[1].op # "in"
  BY <1>1 DEF Jobs, SystemStep
<1>3. kt \in List(KT) /\ IsInjective(kt.q) /\ Ordered(IF Setting THEN r ELSE kt)
  BY DEF KInv
<1>4. kt' = IF job[1].op = "set" THEN tmrs_settimer(kt, tp, time)
            ELSE IF tp \in EDF THEN [r EXCEPT !.exp[tp] = 0] ELSE r
  BY DEF SystemStep
<1>5. Setting <=> job[1].op = "set"
  BY <1>1 DEF Setting, SystemStep
<1>6. job[1].op = "set" => time \in Time
  BY <1>1 DEF JobsOK
<1> HIDE DEF tp, time
<1>7. kt' \in List(KT) /\ Ordered(kt')
  <2>1. CASE job[1].op = "set"
    <3>1. time \in Time /\ Ordered(tmrs_clrtimer(kt, tp)) /\ kt' = tmrs_settimer(kt, tp, time)
      BY <2>1, <1>3, <1>4, <1>5, <1>6
    <3> HIDE DEF r
    <3> QED BY ONLY <3>1, <1>2, <1>3, SetFacts, Zenon
  <2>2. CASE job[1].op # "set"
    <3>1. Ordered(kt) /\ kt' = IF tp \in EDF THEN [r EXCEPT !.exp[tp] = 0] ELSE r
      BY <2>2, <1>3, <1>4, <1>5
    <3>2. /\ r \in List(KT) /\ IsInjective(r.q) /\ Ordered(r)
          /\ ~Linked(r.q, tp)
      BY ONLY <1>2, <1>3, <3>1, ClrFacts, Zenon
    <3> HIDE DEF r
    <3> DEFINE z == [r EXCEPT !.exp[tp] = 0]
    <3>3. z \in List(KT) /\ z.q = r.q /\ z.exp = [r.exp EXCEPT ![tp] = 0]
      BY ONLY <3>2, <1>2, ConstantFacts, Zenon DEF List
    <3> HIDE DEF z
    <3>4. \A i \in 1..Len(r.q) : r.q[i] # tp /\ r.q[i] \in KT
      BY ONLY <3>2 DEF Linked, List
    <3>5. \A i \in 1..Len(r.q) : z.exp[r.q[i]] = r.exp[r.q[i]]
      BY ONLY <3>2, <3>3, <3>4 DEF List
    <3>6. Ordered(z)
      BY ONLY <3>2, <3>3, <3>5 DEF Ordered
    <3> QED BY <3>1, <3>2, <3>3, <3>6 DEF z
  <2> QED BY <2>1, <2>2
<1>8. job' \in Seq(Jobs) /\ Len(job') = Len(job) - 1
      /\ \A i \in 1..Len(job') : i + 1 \in 1..Len(job) /\ job'[i] = job[i + 1]
  <2>1. job' = Tail(job)
    BY DEF SystemStep
  <2> QED BY ONLY <2>1, <1>1
<1>9. JobsOK'
  BY <1>8 DEF JobsOK
<1>10. KInv'
  <2>1. Ordered(IF task' = "system" /\ job' # <<>> /\ job'[1].op = "set"
                THEN tmrs_clrtimer(kt', job'[1].tp) ELSE kt')
    BY ONLY <1>7, <1>8, SettingOrdered
  <2> QED BY <2>1, <1>7, Zenon DEF KInv, Setting, Ordered
<1>11. TypeOK'
  BY <1>7, <1>8 DEF SystemStep, TypeOK
<1> QED BY <1>9, <1>10, <1>11, PFrame, ArgsFrame DEF SystemStep

(* SYSTEM replies.                                                         *)
LEMMA OrderSystemDone ==
    ASSUME OrderInv, SystemDone
    PROVE  OrderInv'
<1> USE DEF OrderInv
<1>1. ~Setting /\ ~Setting'
  BY DEF SystemDone, Setting
<1>2. KInv'
  BY <1>1 DEF SystemDone, KInv
<1>3. pm \in [pc : {"idle", "set", "arm", "called", "expire"}, note : BOOLEAN, arg : Seq(Int)]
      /\ pm' = [pm EXCEPT !.pc = IF @ = "called" THEN "idle" ELSE @]
  BY DEF SystemDone, TypeOK
<1>4. /\ pm' \in [pc : {"idle", "set", "arm", "called", "expire"}, note : BOOLEAN, arg : Seq(Int)]
      /\ pm'.pc = "idle" \/ pm' = pm
  BY ONLY <1>3
<1>5. TypeOK'
  BY <1>4 DEF SystemDone, TypeOK
<1>6. ArgsOK'
  <2>1. CASE pm' = pm
    BY <2>1, ArgsFrame DEF SystemDone
  <2>2. CASE pm'.pc = "idle"
    BY <2>2 DEF ArgsOK
  <2> QED BY <1>4, <2>1, <2>2
<1> QED BY <1>2, <1>5, <1>6, PFrame, JobsFrame DEF SystemDone

(* PM arms its kernel alarm for the front of its list, or does not.        *)
LEMMA ArmType ==
    ASSUME TypeOK, NEW x \in Int
    PROVE  /\ Arm(x) \in [pc : {"idle", "set", "arm", "called", "expire"}, note : BOOLEAN, arg : Seq(Int)]
           /\ Loop \in [pc : {"idle", "set", "arm", "called", "expire"}, note : BOOLEAN, arg : Seq(Int)]
           /\ Arm(x).pc = "arm" /\ Arm(x).arg = <<x>> /\ Arm(x).note = pm.note
           /\ Loop.pc = "idle" /\ Loop.note = pm.note
<1>1. pm \in [pc : {"idle", "set", "arm", "called", "expire"}, note : BOOLEAN, arg : Seq(Int)]
      /\ <<x>> \in Seq(Int) /\ <<>> \in Seq(Int)
  BY DEF TypeOK
<1> QED BY ONLY <1>1, Zenon DEF Arm, Loop

(* PM takes a request or a notification.                                   *)
LEMMA OrderPMReceive ==
    ASSUME OrderInv,
           PMReceive \/ \E u \in User : \E a \in Alarms[u] : set_alarm(u, a[1], a[2])
    PROVE  OrderInv'
<1> USE DEF OrderInv
<1>p. pm \in [pc : {"idle", "set", "arm", "called", "expire"}, note : BOOLEAN, arg : Seq(Int)]
      /\ realtime \in 0..MaxTime /\ realtime \in Int /\ realtime \in 0..realtime
  BY ConstantFacts DEF TypeOK
<1>1. CASE PMReceive
  <2>1. pm' = [pm EXCEPT !.pc = "expire", !.note = FALSE, !.arg = <<realtime>>]
        /\ <<realtime>> \in Seq(Int)
    BY <1>1, <1>p DEF PMReceive
  <2>2. pm' \in [pc : {"idle", "set", "arm", "called", "expire"}, note : BOOLEAN, arg : Seq(Int)]
        /\ pm'.pc = "expire" /\ pm'.arg = <<realtime>>
    BY ONLY <2>1, <1>p, Zenon
  <2>3. TypeOK'
    BY <1>1, <2>2 DEF PMReceive, TypeOK
  <2>4. ArgsOK'
    BY <1>1, <1>p, <2>2 DEF PMReceive, ArgsOK
  <2> QED BY <1>1, <2>3, <2>4, KFrame, PFrame, JobsFrame DEF PMReceive
<1>2. ASSUME NEW u \in User, NEW a \in Alarms[u], set_alarm(u, a[1], a[2])
      PROVE  OrderInv'
  <2>1. a[1] \in Nat /\ a[2] \in Nat /\ u \in Nat
    <3>1. a \in Nat \X Nat
      BY ClockAssumption
    <3> QED BY ONLY <3>1, u \in User, ConstantFacts
  <2>2. pm' = [pm EXCEPT !.pc = "set", !.arg = <<realtime, u, a[1]>>]
        /\ <<realtime, u, a[1]>> \in Seq(Int)
    <3>1. ASSUME NEW x \in Int, NEW y \in Int, NEW z \in Int PROVE <<x, y, z>> \in Seq(Int)
      OBVIOUS
    <3>2. <<realtime, u, a[1]>> \in Seq(Int)
      BY ONLY <3>1, <2>1, <1>p
    <3> QED BY <1>2, <3>2, Zenon DEF set_alarm
  <2>3. pm' \in [pc : {"idle", "set", "arm", "called", "expire"}, note : BOOLEAN, arg : Seq(Int)]
        /\ pm'.pc = "set" /\ pm'.arg = <<realtime, u, a[1]>>
    BY ONLY <2>2, <1>p
  <2>4. alarm \in [User -> [on : BOOLEAN, iv : Nat, due : Int]]
        /\ alarm' = [alarm EXCEPT ![u].iv = a[2]]
    BY <1>2, Zenon DEF TypeOK, set_alarm
  <2>5. alarm' \in [User -> [on : BOOLEAN, iv : Nat, due : Int]]
        /\ \A v \in User : alarm'[v].on = alarm[v].on
    BY ONLY <2>1, <2>4, u \in User
  <2>6. TypeOK'
    BY <1>2, <2>3, <2>5, Zenon DEF set_alarm, TypeOK
  <2>7. ArgsOK'
    BY <1>2, <1>p, <2>1, <2>3 DEF ArgsOK
  <2>8. PInv'
    BY <1>2, <2>5, Zenon DEF set_alarm, PInv
  <2> QED BY <1>2, <2>6, <2>7, <2>8, KFrame, JobsFrame, Zenon DEF set_alarm
<1> QED BY <1>1, <1>2

(* PM sets the timer of a user.                                            *)
LEMMA OrderPMSet ==
    ASSUME OrderInv, pm_set_timer
    PROVE  OrderInv'
<1> USE DEF OrderInv
<1>1. PICK n \in 0..MaxTime, u \in User, k \in Nat : pm.arg = <<n, u, k>>
  BY DEF pm_set_timer, ArgsOK
<1> DEFINE l == tmrs_settimer(pt, u, Long(n + k))
<1>2. /\ pt' = l
      /\ pm' = Arm(Head0(l, 0)) \/ pm' = Loop
      /\ alarm' = [alarm EXCEPT ![u].on = TRUE, ![u].due = n + k]
  <2>1. pm.arg[1] = n /\ pm.arg[2] = u /\ pm.arg[3] = k
    BY ONLY <1>1
  <2> QED BY <2>1 DEF pm_set_timer
<1>3. n + k \in Int /\ Long(n + k) \in Time
  <2>1. n + k \in Int
    BY ConstantFacts
  <2> QED BY <2>1, LongTime
<1>4. pt \in List(User) /\ Ordered(pt) /\ IsInjective(pt.q)
      /\ \A v \in User : alarm[v].on <=> Linked(pt.q, v)
  BY DEF PInv, Ordered
<1>5. Ordered(tmrs_clrtimer(pt, u))
  BY ONLY <1>4, u \in User, ClrFacts, Zenon
<1>6. l \in List(User) /\ Ordered(l) /\ \A x : Linked(l.q, x) <=> Linked(pt.q, x) \/ x = u
  BY ONLY <1>3, <1>4, <1>5, u \in User, SetFacts, Zenon
<1> HIDE DEF l
<1>7. alarm \in [User -> [on : BOOLEAN, iv : Nat, due : Int]]
  BY DEF TypeOK
<1>8. alarm' \in [User -> [on : BOOLEAN, iv : Nat, due : Int]]
      /\ alarm'[u].on = TRUE /\ \A v \in User : v # u => alarm'[v] = alarm[v]
  BY ONLY <1>2, <1>3, <1>7, u \in User, Zenon
<1>9. PInv'
  <2>1. \A v \in User : alarm'[v].on <=> Linked(l.q, v)
    BY ONLY <1>4, <1>6, <1>8
  <2> QED BY <2>1, <1>2, <1>6, Zenon DEF PInv
<1>10. Head0(l, 0) \in Int
  BY <1>6, HeadType, ConstantFacts, Zenon
<1>11. TypeOK'
  BY <1>2, <1>6, <1>8, <1>10, ArmType, Zenon DEF pm_set_timer, TypeOK
<1>12. ArgsOK'
  BY <1>2, <1>10, ArmType DEF ArgsOK
<1> QED BY <1>9, <1>11, <1>12, KFrame, JobsFrame DEF pm_set_timer

(* PM cancels the timer of a user.                                         *)
LEMMA OrderPMCancel ==
    ASSUME OrderInv, NEW u \in User, pm_cancel_timer(u)
    PROVE  OrderInv'
<1> USE DEF OrderInv
<1> DEFINE l == tmrs_clrtimer(pt, u)
<1>1. /\ pt' = l /\ alarm' = [alarm EXCEPT ![u] = AlarmOff]
      /\ pm' = Arm(Head0(l, 0)) \/ pm' = pm
      /\ pm.pc = "idle"
  BY DEF pm_cancel_timer
<1>2. pt \in List(User) /\ Ordered(pt) /\ IsInjective(pt.q)
      /\ \A v \in User : alarm[v].on <=> Linked(pt.q, v)
  BY DEF PInv, Ordered
<1>3. l \in List(User) /\ Ordered(l) /\ \A x : Linked(l.q, x) <=> Linked(pt.q, x) /\ x # u
  BY ONLY <1>2, u \in User, ClrFacts, Zenon
<1> HIDE DEF l
<1>4. alarm \in [User -> [on : BOOLEAN, iv : Nat, due : Int]]
  BY DEF TypeOK
<1>5. alarm' \in [User -> [on : BOOLEAN, iv : Nat, due : Int]]
      /\ alarm'[u].on = FALSE /\ \A v \in User : v # u => alarm'[v] = alarm[v]
  BY ONLY <1>1, <1>4, u \in User DEF AlarmOff
<1>6. PInv'
  <2>1. \A v \in User : alarm'[v].on <=> Linked(l.q, v)
    BY ONLY <1>2, <1>3, <1>5
  <2> QED BY <2>1, <1>1, <1>3 DEF PInv
<1>7. Head0(l, 0) \in Int
  BY <1>3, HeadType, ConstantFacts, Zenon
<1>8. TypeOK'
  BY <1>1, <1>3, <1>5, <1>7, ArmType, Zenon DEF pm_cancel_timer, TypeOK
<1>9. ArgsOK'
  BY <1>1, <1>7, ArmType DEF ArgsOK
<1> QED BY <1>6, <1>8, <1>9, KFrame, JobsFrame DEF pm_cancel_timer

(* The first timer of PM's list goes off, and may be set again.            *)
LEMMA OrderSigalrm ==
    ASSUME OrderInv, cause_sigalrm
    PROVE  OrderInv'
<1> USE DEF OrderInv
<1> DEFINE u == pt.q[1]
           x == Expired(pt)
           d == realtime + alarm[u].iv
           l == tmrs_settimer(x, u, Long(d))
<1>1. /\ \/ /\ pt' = l /\ alarm[u].on /\ alarm' = [alarm EXCEPT ![u].due = d]
         \/ pt' = x /\ alarm' = [alarm EXCEPT ![u] = AlarmOff]
      /\ pt.q # <<>>
  BY DEF cause_sigalrm, Due
<1>2. pt \in List(User) /\ Ordered(pt)
      /\ \A v \in User : alarm[v].on <=> Linked(pt.q, v)
  BY DEF PInv
<1>3. /\ x \in List(User) /\ Ordered(x) /\ IsInjective(x.q) /\ u \in User
      /\ \A v : Linked(x.q, v) <=> Linked(pt.q, v) /\ v # u
  <2>1. /\ x \in List(User) /\ Ordered(x) /\ u \in User
        /\ \A v : Linked(x.q, v) <=> Linked(pt.q, v) /\ v # u
    BY ONLY <1>1, <1>2, ExpiredFacts, Zenon
  <2> QED BY <2>1 DEF Ordered
<1>4. alarm \in [User -> [on : BOOLEAN, iv : Nat, due : Int]] /\ realtime \in 0..MaxTime
  BY DEF TypeOK
<1> HIDE DEF u, x
<1>5. d \in Int /\ Long(d) \in Time
  <2>1. d \in Int
    BY <1>3, <1>4, ConstantFacts
  <2> HIDE DEF d
  <2> QED BY <2>1, LongTime
<1> HIDE DEF d
<1>6. Ordered(tmrs_clrtimer(x, u))
  BY ONLY <1>3, ClrFacts, Zenon
<1>7. l \in List(User) /\ Ordered(l) /\ \A v : Linked(l.q, v) <=> Linked(x.q, v) \/ v = u
  BY ONLY <1>3, <1>5, <1>6, SetFacts, Zenon
<1> HIDE DEF l
<1>8. PInv' /\ TypeOK'
  <2>1. CASE pt' = l /\ alarm[u].on /\ alarm' = [alarm EXCEPT ![u].due = d]
    <3>1. alarm' \in [User -> [on : BOOLEAN, iv : Nat, due : Int]]
          /\ \A v \in User : alarm'[v].on = alarm[v].on
      BY ONLY <1>3, <1>4, <1>5, <2>1
    <3>2. \A v \in User : alarm'[v].on <=> Linked(l.q, v)
      BY ONLY <1>2, <1>3, <1>7, <2>1, <3>1
    <3>3. PInv'
      BY <2>1, <3>2, <1>7 DEF PInv
    <3> QED BY <2>1, <3>1, <3>3, <1>7 DEF cause_sigalrm, TypeOK
  <2>2. CASE pt' = x /\ alarm' = [alarm EXCEPT ![u] = AlarmOff]
    <3>1. alarm' \in [User -> [on : BOOLEAN, iv : Nat, due : Int]]
          /\ alarm'[u].on = FALSE /\ \A v \in User : v # u => alarm'[v] = alarm[v]
      BY ONLY <1>3, <1>4, <2>2 DEF AlarmOff
    <3>2. \A v \in User : alarm'[v].on <=> Linked(x.q, v)
      BY ONLY <1>2, <1>3, <3>1
    <3>3. PInv'
      BY <2>2, <3>2, <1>3 DEF PInv
    <3> QED BY <2>2, <3>1, <3>3, <1>3 DEF cause_sigalrm, TypeOK
  <2> QED BY <1>1, <2>1, <2>2
<1>9. ArgsOK'
  BY DEF cause_sigalrm, ArgsOK
<1> QED BY <1>8, <1>9, KFrame, JobsFrame DEF cause_sigalrm

(* The end of pm_expire_timers().                                          *)
LEMMA OrderPMExpire ==
    ASSUME OrderInv, pm_expire_timers
    PROVE  OrderInv'
<1> USE DEF OrderInv
<1>1. Head0(pt, 0) \in Int
  BY HeadType, ConstantFacts, Zenon DEF TypeOK
<1>2. pm' = Arm(Head0(pt, 0)) \/ pm' = Loop
  BY DEF pm_expire_timers
<1>3. TypeOK'
  BY <1>1, <1>2, ArmType, Zenon DEF pm_expire_timers, TypeOK
<1>4. ArgsOK'
  <2>1. Head0(pt', 0) = Head0(pt, 0)
    BY DEF pm_expire_timers, Head0
  <2> QED BY <1>1, <1>2, <2>1, ArmType DEF ArgsOK
<1> QED BY <1>3, <1>4, KFrame, PFrame, JobsFrame DEF pm_expire_timers

(* Every step keeps the lists in order.                                    *)
LEMMA OrderStep == OrderInv /\ [Next]_vars => OrderInv'
<1> SUFFICES ASSUME OrderInv, [Next]_vars PROVE OrderInv'
  OBVIOUS
<1>1. CASE UNCHANGED vars
  <2>1. TypeOK'
    BY <1>1 DEF OrderInv, TypeOK, vars
  <2> QED BY <1>1, <2>1, KFrame, PFrame, JobsFrame, ArgsFrame DEF OrderInv, vars
<1>2. CASE (\E n \in 1..(1 + MaxLost) : Tick(n)) \/ StoreNext \/ Clk
  BY <1>2, OrderTick, OrderClockExpire DEF Clk
<1>3. CASE Sys
  BY <1>3, OrderUptime, OrderSystemStep, OrderSystemDone DEF Sys
<1>4. CASE PMs
  BY <1>4, OrderPMReceive, OrderPMSet, OrderRequests, OrderSigalrm, OrderPMExpire DEF PMs
<1>5. CASE Request
  BY <1>5, OrderPMReceive, OrderPMCancel, OrderRequests DEF Request
<1> QED BY <1>1, <1>2, <1>3, <1>4, <1>5 DEF Next

(* Both lists stay in range, whatever wraps and whoever is interrupted.    *)
THEOREM TypeCorrect == Spec => []TypeOK
<1>1. OrderInv => TypeOK
  BY DEF OrderInv
<1> QED BY <1>1, InitOrder, OrderStep, PTL DEF Spec

(* The lists of the kernel and of PM are always in the order of expiry,    *)
(* except for the one timer that do_chdeadline() is about to set.          *)
THEOREM TimersSorted == Spec => []TimersOrdered
<1>1. OrderInv => TimersOrdered
  BY DEF OrderInv, KInv, PInv, TimersOrdered
<1> QED BY <1>1, InitOrder, OrderStep, PTL DEF Spec
=============================================================================

-------------------------- MODULE Notifier_proofs ---------------------------
(***************************************************************************)
(* The two intervals of the throttle, for any number of handlers and       *)
(* addresses.  The global gap needs no assumption.  The gap per address    *)
(* needs that pruneLocked never has to reset the map, which follows by a   *)
(* counting argument: pushes are MinGap apart, so at most MaxTracked of    *)
(* them fit into one IpInterval when MaxTracked * MinGap >= IpInterval.    *)
(***************************************************************************)
EXTENDS Notifier, FiniteSetTheorems, WellFoundedInduction, TLAPS

\* The latest push is the one lastGlobal records.
GlobalLatest == \A p \in pushes : p.time <= lastGlobal

\* The map records pushes that were decided.
LastPushed ==
  /\ IsFiniteSet(DOMAIN last)
  /\ \A ip \in DOMAIN last : [ip |-> ip, time |-> last[ip]] \in pushes

\* A push the map has forgotten is too old to matter to any later one.
Remembered ==
  \A p \in pushes :
    \/ p.ip \in DOMAIN last /\ p.time <= last[p.ip]
    \/ p.time + IpInterval <= lastGlobal

\* The pushes so far are MinGap apart (the distance under n.mu).
Spread ==
  \A p, q \in pushes : p # q => p.time - q.time >= MinGap \/ q.time - p.time >= MinGap

IInv == TypeOK /\ GlobalLatest /\ LastPushed /\ Spread

-----------------------------------------------------------------------------
(* Counting.                                                               *)

\* Division by MinGap, as far as it is needed.
LEMMA Quotient ==
  ASSUME NEW x \in Nat, NEW y \in Nat, NEW m \in Nat \ {0}, NEW k \in Nat
  PROVE  /\ x \div m \in Nat
         /\ x \div m = y \div m => x - y < m /\ y - x < m
         /\ x < k * m => x \div m < k
<1>1. x \div m \in Nat /\ m * (x \div m) <= x /\ x < m * (x \div m) + m
  OBVIOUS
<1>2. y \div m \in Nat /\ m * (y \div m) <= y /\ y < m * (y \div m) + m
  OBVIOUS
<1>3. ASSUME x \div m = y \div m PROVE x - y < m /\ y - x < m
  BY <1>1, <1>2, <1>3
<1>4. ASSUME x < k * m PROVE x \div m < k
  <2> DEFINE q == x \div m
  <2>1. q \in Nat /\ m * q <= x
    BY <1>1
  <2> HIDE DEF q
  <2>2. SUFFICES ASSUME q >= k PROVE FALSE
    BY <2>1 DEF q
  <2>3. q - k \in Nat /\ m * q = m * k + m * (q - k) /\ m * (q - k) >= 0
    BY <2>1, <2>2
  <2> QED BY <1>4, <2>1, <2>3
<1> QED BY <1>1, <1>3, <1>4

\* Times that are MinGap apart: at most MaxTracked of them are younger than
\* IpInterval (the test of pruneLocked before it resets the map).
LEMMA YoungBound ==
  ASSUME MapLargeEnough, NEW l, NEW now \in Nat, IsFiniteSet(DOMAIN l),
         \A i \in DOMAIN l : l[i] \in Nat /\ l[i] <= now,
         \A i, j \in DOMAIN l : i # j => l[i] - l[j] >= MinGap \/ l[j] - l[i] >= MinGap
  PROVE  Cardinality({i \in DOMAIN l : now - l[i] < IpInterval}) <= MaxTracked
<1> USE NotifierAssumption
<1> DEFINE Young == {i \in DOMAIN l : now - l[i] < IpInterval}
           Slots == 0 .. (MaxTracked - 1)
           f == [i \in Young |-> (now - l[i]) \div MinGap]
<1>1. IsFiniteSet(Young) /\ Cardinality(Young) \in Nat
  <2>1. Young \subseteq DOMAIN l
    OBVIOUS
  <2>2. IsFiniteSet(Young)
    BY <2>1, FS_Subset
  <2> QED BY <2>2, FS_CardinalityType
<1>2. IsFiniteSet(Slots) /\ Cardinality(Slots) = MaxTracked
  BY FS_Interval
<1>3. \A i \in Young : now - l[i] \in Nat /\ now - l[i] < MaxTracked * MinGap
  BY DEF MapLargeEnough
<1>4. f \in [Young -> Slots]
  <2> SUFFICES ASSUME NEW i \in Young PROVE (now - l[i]) \div MinGap \in Slots
    OBVIOUS
  <2>1. now - l[i] \in Nat /\ now - l[i] < MaxTracked * MinGap
    BY <1>3
  <2> DEFINE x == now - l[i]
  <2>2. x \div MinGap \in Nat /\ x \div MinGap < MaxTracked
    BY <2>1, Quotient
  <2> QED BY <2>2
<1>5. ASSUME NEW i \in Young, NEW j \in Young, i # j PROVE f[i] # f[j]
  <2> DEFINE x == now - l[i]
             y == now - l[j]
  <2>1. x \in Nat /\ y \in Nat
    BY <1>3
  <2>2. x \div MinGap = y \div MinGap => x - y < MinGap /\ y - x < MinGap
    BY <2>1, Quotient
  <2>3. x - y = l[j] - l[i] /\ y - x = l[i] - l[j]
    OBVIOUS
  <2>4. x \div MinGap # y \div MinGap
    BY <1>5, <2>2, <2>3
  <2> QED BY <2>4
<1>6. SUFFICES ASSUME Cardinality(Young) > MaxTracked PROVE FALSE
  BY <1>1
<1> HIDE DEF Young, Slots, f
<1>7. \E i, j \in Young : i # j /\ f[i] = f[j]
  BY <1>1, <1>2, <1>4, <1>6, FS_PigeonHole
<1> QED BY <1>5, <1>7

-----------------------------------------------------------------------------
\* Before the first push nothing is remembered.
LEMMA InitInv == ASSUME Init PROVE IInv /\ Remembered
<1>1. IsFiniteSet(DOMAIN last)
  BY FS_EmptySet DEF Init
<1> QED
  BY <1>1, NotifierAssumption
  DEF Init, IInv, TypeOK, Never, Call, GlobalLatest, LastPushed, Spread, Remembered

\* Steps that take no decision to push change nothing the intervals depend on.
LEMMA QuietInv ==
  ASSUME IInv, UNCHANGED <<last, lastGlobal, pushes>>, TypeOK'
  PROVE  IInv' /\ (Remembered => Remembered')
BY DEF IInv, GlobalLatest, LastPushed, Spread, Remembered

\* The types of all steps but a push.
LEMMA QuietType ==
  ASSUME TypeOK,
         \/ \E c \in Conns : (\E ip \in Ips : ReadClock(c, ip)) \/ Throttle(c)
         \/ \E s \in sending : Delivered(s) \/ Failed(s)
         \/ Tick
         \/ UNCHANGED vars
  PROVE  TypeOK' /\ UNCHANGED <<last, lastGlobal, pushes>>
<1>1. ASSUME NEW c \in Conns, NEW ip \in Ips, ReadClock(c, ip)
      PROVE  TypeOK' /\ UNCHANGED <<last, lastGlobal, pushes>>
  <2> DEFINE r == [at |-> "read", ip |-> ip, now |-> clock]
  <2>1. r \in Call
    BY DEF Call, TypeOK
  <2>2. call' \in [Conns -> Call]
    BY <1>1, <2>1 DEF ReadClock, TypeOK
  <2> QED BY <1>1, <2>2 DEF ReadClock, TypeOK
<1>2. ASSUME NEW c \in Conns, Throttle(c)
      PROVE  TypeOK' /\ UNCHANGED <<last, lastGlobal, pushes>>
  BY <1>2 DEF Throttle, TypeOK, Call
<1>3. ASSUME NEW s \in sending, Delivered(s) \/ Failed(s)
      PROVE  TypeOK' /\ UNCHANGED <<last, lastGlobal, pushes>>
  <2>1. s.merged \in Nat
    BY DEF TypeOK, Sending
  <2> QED BY <1>3, <2>1 DEF Delivered, Failed, TypeOK
<1>4. CASE Tick
  BY <1>4 DEF Tick, TypeOK
<1>5. CASE UNCHANGED vars
  BY <1>5 DEF vars, TypeOK
<1> QED BY <1>1, <1>2, <1>3, <1>4, <1>5

\* A restart forgets everything, the histories included.
LEMMA RestartInv == ASSUME TypeOK, Restart PROVE IInv' /\ Remembered'
<1>1. IsFiniteSet(DOMAIN last')
  BY FS_EmptySet DEF Restart
<1> QED
  BY <1>1, NotifierAssumption
  DEF Restart, IInv, TypeOK, Never, Call, GlobalLatest, LastPushed, Spread, Remembered

-----------------------------------------------------------------------------
(* The step that decides a push.                                           *)

\* What the decision knows of the call and does to the histories.
LEMMA PushFacts ==
  ASSUME TypeOK, NEW c \in Conns, Decide(c)
  PROVE  /\ call[c].ip \in Ips /\ call[c].now \in Nat
         /\ call[c].now >= lastGlobal + MinGap
         /\ call[c].ip \in DOMAIN last => call[c].now >= last[call[c].ip] + IpInterval
         /\ lastGlobal' = call[c].now
         /\ pushes' = pushes \cup {[ip |-> call[c].ip, time |-> call[c].now]}
         /\ last' = Pruned(Noted(call[c].ip, call[c].now), call[c].now)
<1>1. call[c] \in Call /\ call[c].at = "read" /\ ~Throttled(call[c].ip, call[c].now)
  BY DEF Decide, StartPush, TypeOK
<1>2. call[c].ip \in Ips /\ call[c].now \in Nat
  BY <1>1 DEF Call, Idle
<1>3. lastGlobal \in Int /\ MinGap \in Int /\ IpInterval \in Int
      /\ \A i \in DOMAIN last : last[i] \in Int
  BY NotifierAssumption DEF TypeOK, Never
<1>4. call[c].now >= lastGlobal + MinGap
  BY <1>1, <1>2, <1>3 DEF Throttled
<1>5. call[c].ip \in DOMAIN last => call[c].now >= last[call[c].ip] + IpInterval
  BY <1>1, <1>2, <1>3 DEF Throttled
<1>6. /\ lastGlobal' = call[c].now
      /\ pushes' = pushes \cup {[ip |-> call[c].ip, time |-> call[c].now]}
      /\ last' = Pruned(Noted(call[c].ip, call[c].now), call[c].now)
  BY DEF Decide, StartPush
<1> QED BY <1>2, <1>4, <1>5, <1>6

\* Pruning keeps a part of the map, entry by entry.
LEMMA PrunedPart ==
  ASSUME NEW l, NEW now
  PROVE  /\ DOMAIN Pruned(l, now) \subseteq DOMAIN l
         /\ \A i \in DOMAIN Pruned(l, now) : Pruned(l, now)[i] = l[i]
         /\ Pruned(l, now) = [i \in DOMAIN Pruned(l, now) |-> Pruned(l, now)[i]]
              \/ Pruned(l, now) = l
BY DEF Pruned

\* The decision keeps the global gap and the bookkeeping.
LEMMA DecideInv == ASSUME IInv, NEW c \in Conns, Decide(c) PROVE IInv'
<1> DEFINE ip == call[c].ip
           now == call[c].now
           push == [ip |-> ip, time |-> now]
           l == Noted(ip, now)
<1>0. TypeOK
  BY DEF IInv
<1>1. /\ ip \in Ips /\ now \in Nat /\ now >= lastGlobal + MinGap
      /\ lastGlobal' = now /\ pushes' = pushes \cup {push} /\ last' = Pruned(l, now)
  BY <1>0, PushFacts
<1>2. push \in Push /\ push.ip = ip /\ push.time = now
  BY <1>1 DEF Push
<1>3. /\ DOMAIN l = DOMAIN last \cup {ip} /\ l[ip] = now
      /\ \A i \in DOMAIN last : i # ip => l[i] = last[i]
  BY DEF Noted
<1>4. DOMAIN last' \subseteq DOMAIN l /\ \A i \in DOMAIN last' : last'[i] = l[i]
  BY <1>1, PrunedPart
<1>5. last' = [i \in DOMAIN last' |-> last'[i]]
  BY <1>1 DEF Pruned, Noted
<1>6. \A i \in DOMAIN l : l[i] \in Nat
  BY <1>0, <1>1, <1>3 DEF TypeOK
<1>7. TypeOK'
  <2>1. DOMAIN last' \subseteq Ips /\ last' \in [DOMAIN last' -> Nat]
    BY <1>0, <1>1, <1>3, <1>4, <1>5, <1>6 DEF TypeOK
  <2>2. call' \in [Conns -> Call]
    BY <1>0 DEF Decide, StartPush, TypeOK, Call
  <2>3. sending' \subseteq Sending
    <3>1. [push |-> push, merged |-> suppressed] \in Sending
      BY <1>0, <1>2 DEF TypeOK, Sending
    <3> QED BY <1>0, <3>1 DEF Decide, StartPush, TypeOK
  <2>4. pushes' \subseteq Push
    BY <1>0, <1>1, <1>2 DEF TypeOK
  <2> QED
    BY <1>0, <1>1, <2>1, <2>2, <2>3, <2>4 DEF Decide, StartPush, TypeOK
<1> HIDE DEF push
<1>8. MinGap \in Nat \ {0} /\ lastGlobal \in Int /\ \A p \in pushes : p.time \in Int
  BY <1>0, NotifierAssumption DEF TypeOK, Never, Push
<1>9. GlobalLatest'
  BY <1>1, <1>2, <1>8 DEF IInv, GlobalLatest
<1>10. Spread'
  BY <1>1, <1>2, <1>8 DEF IInv, GlobalLatest, Spread
<1>11. LastPushed'
  <2>1. IsFiniteSet(DOMAIN l)
    BY <1>3, FS_AddElement DEF IInv, LastPushed
  <2>2. IsFiniteSet(DOMAIN last')
    BY <1>4, <2>1, FS_Subset
  <2>3. \A i \in DOMAIN l : [ip |-> i, time |-> l[i]] \in pushes'
    BY <1>1, <1>3 DEF IInv, LastPushed, push
  <2> QED BY <1>4, <2>2, <2>3 DEF LastPushed
<1> QED BY <1>7, <1>9, <1>10, <1>11 DEF IInv

\* With a large enough map the decision forgets only what is too old.
LEMMA DecideRemembers ==
  ASSUME MapLargeEnough, IInv, Remembered, NEW c \in Conns, Decide(c)
  PROVE  /\ Remembered'
         /\ \A p \in pushes : p.ip = call[c].ip => call[c].now - p.time >= IpInterval
<1> DEFINE ip == call[c].ip
           now == call[c].now
           push == [ip |-> ip, time |-> now]
           l == Noted(ip, now)
<1>0. TypeOK
  BY DEF IInv
<1>1. /\ ip \in Ips /\ now \in Nat /\ now >= lastGlobal + MinGap
      /\ ip \in DOMAIN last => now >= last[ip] + IpInterval
      /\ lastGlobal' = now /\ pushes' = pushes \cup {push} /\ last' = Pruned(l, now)
  BY <1>0, PushFacts
<1>2. push.ip = ip /\ push.time = now
  OBVIOUS
<1>3. /\ DOMAIN l = DOMAIN last \cup {ip} /\ l[ip] = now
      /\ \A i \in DOMAIN last : i # ip => l[i] = last[i]
  BY DEF Noted
<1> HIDE DEF push, l
<1>4. /\ MinGap \in Nat \ {0} /\ IpInterval \in Nat \ {0} /\ lastGlobal \in Int
      /\ \A p \in pushes : p.time \in Int
      /\ \A i \in DOMAIN last : last[i] \in Nat
  BY <1>0, NotifierAssumption DEF TypeOK, Never, Push
<1>5. \A p \in pushes : p.ip = ip => now - p.time >= IpInterval
  BY <1>1, <1>4 DEF Remembered
<1>6. \A i \in DOMAIN l : now - l[i] < IpInterval => i \in DOMAIN last' /\ last'[i] = l[i]
  <2> DEFINE Young == {i \in DOMAIN l : now - l[i] < IpInterval}
  <2>1. IsFiniteSet(DOMAIN l)
    BY <1>3, FS_AddElement DEF IInv, LastPushed
  <2>2. \A i \in DOMAIN last : [ip |-> i, time |-> last[i]] \in pushes
    BY DEF IInv, LastPushed
  <2>3. \A i \in DOMAIN last : last[i] <= lastGlobal
    BY <2>2 DEF IInv, GlobalLatest
  <2>4. \A i, j \in DOMAIN last : i # j =>
          last[i] - last[j] >= MinGap \/ last[j] - last[i] >= MinGap
    <3> SUFFICES ASSUME NEW i \in DOMAIN last, NEW j \in DOMAIN last, i # j
                 PROVE  last[i] - last[j] >= MinGap \/ last[j] - last[i] >= MinGap
      OBVIOUS
    <3> DEFINE p == [ip |-> i, time |-> last[i]]
               q == [ip |-> j, time |-> last[j]]
    <3>1. p \in pushes /\ q \in pushes /\ p # q
      BY <2>2
    <3> QED BY <3>1 DEF IInv, Spread
  <2>5. \A i \in DOMAIN l : l[i] \in Nat /\ l[i] <= now
    BY <1>1, <1>3, <1>4, <2>3
  <2>6. \A i, j \in DOMAIN l : i # j => l[i] - l[j] >= MinGap \/ l[j] - l[i] >= MinGap
    BY <1>1, <1>3, <1>4, <2>3, <2>4
  <2>7. Cardinality(Young) <= MaxTracked
    BY <1>1, <2>1, <2>5, <2>6, YoungBound
  <2>8. last' = l \/ last' = [i \in Young |-> l[i]]
    BY <1>1, <2>7 DEF Pruned
  <2> QED BY <2>8
<1>7. Remembered'
  <2> SUFFICES ASSUME NEW p \in pushes'
               PROVE  \/ p.ip \in DOMAIN last' /\ p.time <= last'[p.ip]
                      \/ p.time + IpInterval <= now
    BY <1>1 DEF Remembered
  <2>1. \/ p.ip \in DOMAIN l /\ p.time <= l[p.ip]
        \/ p.time + IpInterval <= now
    BY <1>1, <1>2, <1>3, <1>4 DEF Remembered, IInv, GlobalLatest
  <2>2. p.time \in Int /\ \A i \in DOMAIN l : l[i] \in Int
    BY <1>1, <1>2, <1>3, <1>4
  <2> QED BY <1>1, <1>4, <1>6, <2>1, <2>2
<1> QED BY <1>5, <1>7

-----------------------------------------------------------------------------
(* The sum over the pushes under way.  Its fold is defined by recursion    *)
(* over sets: the function exists level by level (FoldsExist), and a set   *)
(* for which it is not as it should be has a smallest size, below which    *)
(* it is.                                                                  *)

Merged(S) == MapThenSumSet(LAMBDA s : s.merged, S)

Some(S) == CHOOSE x \in S : TRUE

\* The equation by which the fold is defined, for sets of up to k elements.
Folds(g, S, k) ==
  g = [s \in {t \in SUBSET S : Cardinality(t) <= k} |->
         IF s = {} THEN 0 ELSE Some(s).merged + g[s \ {Some(s)}]]

\* A property of numbers that is lost somewhere is lost at a first number.
LEMMA FirstOf ==
  ASSUME NEW S \in SUBSET Nat, S # {}
  PROVE  \E x \in S : \A y \in S : x <= y
<1>1. PICK x \in S : \A y \in S : ~ (<<y, x>> \in OpToRel(<, Nat))
  BY NatLessThanWellFounded, WFMin
<1>2. ASSUME NEW y \in S, ~(x <= y) PROVE FALSE
  <2>1. x \in Nat /\ y \in Nat /\ y < x
    BY <1>2
  <2> QED BY <1>1, <2>1 DEF OpToRel
<1> QED BY <1>2

\* There is a function that satisfies the equation: level by level.
LEMMA FoldsExist ==
  ASSUME NEW S, IsFiniteSet(S), NEW k \in Nat
  PROVE  \E g : Folds(g, S, k)
<1> DEFINE Lost == {n \in Nat : ~ \E g : Folds(g, S, n)}
<1> SUFFICES ASSUME Lost # {} PROVE FALSE
  OBVIOUS
<1>1. PICK n \in Lost : \A m \in Lost : n <= m
  BY FirstOf
<1>2. \A t \in SUBSET S : IsFiniteSet(t) /\ Cardinality(t) \in Nat /\ (Cardinality(t) = 0 <=> t = {})
  BY FS_Subset, FS_CardinalityType, FS_EmptySet
<1> DEFINE Level(m) == {t \in SUBSET S : Cardinality(t) <= m}
<1>3. CASE n = 0
  <2> DEFINE g == [s \in Level(0) |-> 0]
  <2>1. \A s \in Level(0) : s = {}
    BY <1>2
  <2>2. g = [s \in Level(0) |-> IF s = {} THEN 0 ELSE Some(s).merged + g[s \ {Some(s)}]]
    BY <2>1
  <2>3. Folds(g, S, 0)
    BY <2>2 DEF Folds
  <2> QED BY <1>1, <1>3, <2>3
<1>4. CASE n # 0
  <2>1. n - 1 \in Nat /\ n - 1 \notin Lost
    BY <1>1, <1>4
  <2>2. PICK g : Folds(g, S, n - 1)
    BY <2>1
  <2> DEFINE h == [s \in Level(n) |-> IF s \in Level(n - 1) THEN g[s] ELSE Some(s).merged + g[s \ {Some(s)}]]
  <2>3. \A s \in Level(n) : s # {} =>
           /\ s \ {Some(s)} \in Level(n - 1)
           /\ s \ {Some(s)} \in Level(n)
    <3> TAKE s \in Level(n)
    <3> HAVE s # {}
    <3>1. Some(s) \in s
      BY DEF Some
    <3>2. Cardinality(s \ {Some(s)}) = Cardinality(s) - 1
      BY <1>2, <3>1, FS_RemoveElement
    <3> QED BY <1>1, <1>2, <3>2
  <2>4. \A s \in Level(n - 1) : s \in Level(n) /\ g[s] = IF s = {} THEN 0 ELSE Some(s).merged + g[s \ {Some(s)}]
    <3>1. g = [s \in Level(n - 1) |-> IF s = {} THEN 0 ELSE Some(s).merged + g[s \ {Some(s)}]]
      BY <2>2 DEF Folds
    <3>2. \A s \in Level(n - 1) : s \in Level(n)
      BY <1>1, <1>2
    <3> HIDE DEF Level
    <3> QED BY <3>1, <3>2
  <2>5. {} \in Level(n - 1)
    BY <1>1, <1>2, <2>1
  <2>6. h = [s \in Level(n) |-> IF s = {} THEN 0 ELSE Some(s).merged + h[s \ {Some(s)}]]
    <3> HIDE DEF Level
    <3> SUFFICES ASSUME NEW s \in Level(n)
                 PROVE  h[s] = IF s = {} THEN 0 ELSE Some(s).merged + h[s \ {Some(s)}]
      OBVIOUS
    <3> QED BY <2>3, <2>4, <2>5
  <2>7. Folds(h, S, n)
    BY <2>6 DEF Folds
  <2> QED BY <1>1, <2>7
<1> QED BY <1>3, <1>4

LEMMA MergedIs == ASSUME NEW S, IsFiniteSet(S)
  PROVE \E g : Folds(g, S, Cardinality(S)) /\ Merged(S) = g[S]
<1> DEFINE P(iter) == iter = [s \in SUBSET S |-> IF s = {} THEN 0 ELSE LET x == CHOOSE x \in s : TRUE IN x.merged + iter[s \ {x}]]
           c == CHOOSE iter : P(iter)
<1>1. Merged(S) = c[S]
  BY DEF Merged, MapThenSumSet, MapThenFoldSet
<1>2. {t \in SUBSET S : Cardinality(t) <= Cardinality(S)} = SUBSET S
  BY FS_Subset
<1>3. \A g : Folds(g, S, Cardinality(S)) <=> P(g)
  BY <1>2 DEF Folds, Some
<1> HIDE DEF P
<1>4. \E g : P(g)
  <2>1. PICK g : Folds(g, S, Cardinality(S))
    BY FoldsExist, FS_CardinalityType
  <2> QED BY <1>3, <2>1
<1>5. P(c)
  BY <1>4
<1> HIDE DEF c
<1> QED BY <1>1, <1>3, <1>5

\* Two such functions agree where both are defined.
LEMMA FoldsAgree ==
  ASSUME NEW S, IsFiniteSet(S), NEW g, Folds(g, S, Cardinality(S)),
         NEW T \in SUBSET S, NEW h, Folds(h, T, Cardinality(T))
  PROVE  \A s \in SUBSET T : g[s] = h[s]
<1> DEFINE Odd == {s \in SUBSET T : g[s] # h[s]}
           Sizes == {Cardinality(s) : s \in Odd}
<1>1. IsFiniteSet(T) /\ \A s \in SUBSET T : IsFiniteSet(s) /\ Cardinality(s) \in Nat
  BY FS_Subset, FS_CardinalityType
<1> SUFFICES ASSUME Odd # {} PROVE FALSE
  OBVIOUS
<1>2. Sizes \in SUBSET Nat /\ Sizes # {}
  BY <1>1
<1>3. PICK s \in Odd : \A t \in Odd : Cardinality(s) <= Cardinality(t)
  <2> HIDE DEF Odd
  <2>1. PICK n \in Sizes : \A m \in Sizes : n <= m
    <3> HIDE DEF Sizes
    <3> QED BY <1>2, FirstOf
  <2> QED BY <2>1
<1>4. \A t \in SUBSET T : /\ g[t] = IF t = {} THEN 0 ELSE Some(t).merged + g[t \ {Some(t)}]
                          /\ h[t] = IF t = {} THEN 0 ELSE Some(t).merged + h[t \ {Some(t)}]
  <2>1. \A t \in SUBSET T : t \in SUBSET S /\ Cardinality(t) <= Cardinality(S) /\ Cardinality(t) <= Cardinality(T)
    BY <1>1, FS_Subset
  <2> QED BY <2>1 DEF Folds
<1>5. s # {} /\ s \in SUBSET T
  BY <1>4
<1>6. Some(s) \in s
  BY <1>5 DEF Some
<1>7. s \ {Some(s)} \in SUBSET T /\ Cardinality(s \ {Some(s)}) = Cardinality(s) - 1
  BY <1>1, <1>5, <1>6, FS_RemoveElement
<1>8. s \ {Some(s)} \notin Odd
  BY <1>1, <1>3, <1>5, <1>7
<1>9. g[s \ {Some(s)}] = h[s \ {Some(s)}]
  BY <1>7, <1>8
<1>10. g[s] = h[s]
  BY <1>4, <1>5, <1>9
<1> QED BY <1>3, <1>10

\* Which element is taken first makes no difference to the sum.
LEMMA FoldsAnyFirst ==
  ASSUME NEW S, IsFiniteSet(S), \A x \in S : x.merged \in Nat,
         NEW g, Folds(g, S, Cardinality(S))
  PROVE  \A s \in SUBSET S : g[s] \in Nat /\ \A x \in s : g[s] = x.merged + g[s \ {x}]
<1> DEFINE Fine(s) == g[s] \in Nat /\ \A x \in s : g[s] = x.merged + g[s \ {x}]
           Odd == {s \in SUBSET S : ~Fine(s)}
           Sizes == {Cardinality(s) : s \in Odd}
<1>1. \A s \in SUBSET S : IsFiniteSet(s) /\ Cardinality(s) \in Nat
  BY FS_Subset, FS_CardinalityType
<1> SUFFICES ASSUME Odd # {} PROVE FALSE
  OBVIOUS
<1>2. Sizes \in SUBSET Nat /\ Sizes # {}
  BY <1>1
<1>3. PICK s \in Odd : \A t \in Odd : Cardinality(s) <= Cardinality(t)
  <2> HIDE DEF Odd
  <2>1. PICK n \in Sizes : \A m \in Sizes : n <= m
    <3> HIDE DEF Sizes
    <3> QED BY <1>2, FirstOf
  <2> QED BY <2>1
<1>4. \A t \in SUBSET S : g[t] = IF t = {} THEN 0 ELSE Some(t).merged + g[t \ {Some(t)}]
  <2>1. \A t \in SUBSET S : Cardinality(t) <= Cardinality(S)
    BY FS_Subset
  <2> QED BY <2>1 DEF Folds
<1>5. s # {} /\ s \in SUBSET S
  <2>0. g[{}] = 0 /\ {} \in SUBSET S
    BY <1>4
  <2>1. Fine({})
    BY <2>0
  <2>2. {} \notin Odd
    BY <2>1
  <2> HIDE DEF Fine
  <2> QED BY <1>3, <2>2
<1>6. Some(s) \in s
  BY <1>5 DEF Some
<1>7. \A t \in SUBSET s : t # s => Fine(t)
  <2> TAKE t \in SUBSET s
  <2> HAVE t # s
  <2>1. Cardinality(t) < Cardinality(s)
    BY <1>1, <1>5, FS_Subset
  <2> HIDE DEF Fine
  <2> QED BY <1>1, <1>3, <1>5, <2>1
<1> DEFINE a == Some(s)
<1>8. g[s] = a.merged + g[s \ {a}] /\ Fine(s \ {a}) /\ a \in s /\ a.merged \in Nat
  <2> HIDE DEF Fine
  <2> QED BY <1>4, <1>5, <1>6, <1>7
<1> HIDE DEF a
<1>9. ASSUME NEW x \in s PROVE g[s] = x.merged + g[s \ {x}]
  <2>1. CASE x = a
    BY <1>8, <2>1
  <2>2. CASE x # a
    <3>1. g[s \ {a}] = x.merged + g[(s \ {a}) \ {x}]
      BY <1>8, <2>2
    <3>2. Fine(s \ {x}) /\ a \in s \ {x}
      <4> HIDE DEF Fine
      <4> QED BY <1>7, <1>8, <1>9, <2>2
    <3>3. (s \ {x}) \ {a} = (s \ {a}) \ {x}
      OBVIOUS
    <3>4. g[s \ {x}] = a.merged + g[(s \ {a}) \ {x}]
      BY <3>2, <3>3
    <3>5. Fine((s \ {a}) \ {x})
      <4> HIDE DEF Fine
      <4> QED BY <1>7, <1>9
    <3> DEFINE rest == g[(s \ {a}) \ {x}]
    <3>6. x.merged \in Nat /\ a.merged \in Nat /\ rest \in Nat
      BY <1>5, <1>8, <1>9, <3>5
    <3>7. g[s] = a.merged + (x.merged + rest) /\ g[s \ {x}] = a.merged + rest
      BY <1>8, <3>1, <3>4
    <3> HIDE DEF rest, Fine, Odd
    <3> QED BY <3>6, <3>7
  <2> QED BY <2>1, <2>2
<1>10. g[s] \in Nat
  BY <1>8
<1> QED BY <1>3, <1>9, <1>10

LEMMA MergedWithout ==
  ASSUME NEW S, IsFiniteSet(S), \A x \in S : x.merged \in Nat
  PROVE  /\ Merged(S) \in Nat
         /\ S = {} => Merged(S) = 0
         /\ \A x \in S : Merged(S) = x.merged + Merged(S \ {x})
<1>1. PICK g : Folds(g, S, Cardinality(S)) /\ Merged(S) = g[S]
  BY MergedIs
<1>2. g[S] \in Nat /\ \A x \in S : g[S] = x.merged + g[S \ {x}]
  BY <1>1, FoldsAnyFirst
<1>3. ASSUME NEW x \in S PROVE Merged(S) = x.merged + Merged(S \ {x})
  <2>1. IsFiniteSet(S \ {x})
    BY FS_Subset
  <2>2. PICK h : Folds(h, S \ {x}, Cardinality(S \ {x})) /\ Merged(S \ {x}) = h[S \ {x}]
    BY <2>1, MergedIs
  <2>3. g[S \ {x}] = h[S \ {x}]
    BY <1>1, <2>2, FoldsAgree
  <2> QED BY <1>1, <1>2, <2>2, <2>3
<1>4. S = {} => g[S] = 0
  BY <1>1, FS_EmptySet DEF Folds
<1> QED BY <1>1, <1>2, <1>3, <1>4

-----------------------------------------------------------------------------
(* The throttled registrations.                                            *)

\* The pushes under way were decided, so that a new one is not among them.
CountInv ==
  /\ IsFiniteSet(sending)
  /\ \A s \in sending : s.push \in pushes
  /\ throttled = suppressed + told + lost + Merged(sending)

LEMMA MergedKnown ==
  ASSUME TypeOK, CountInv
  PROVE  /\ Merged(sending) \in Nat /\ \A s \in sending : s.merged \in Nat
         /\ \A s \in sending : Merged(sending) = s.merged + Merged(sending \ {s})
         /\ \A s \in sending : IsFiniteSet(sending \ {s}) /\ Merged(sending \ {s}) \in Nat
<1>1. IsFiniteSet(sending) /\ \A s \in sending : s.merged \in Nat
  BY DEF TypeOK, Sending, CountInv
<1>2. \A s \in sending : IsFiniteSet(sending \ {s})
  BY <1>1, FS_RemoveElement
<1> QED BY <1>1, <1>2, MergedWithout

\* The step that takes the counter along with a push.
LEMMA DecideCounts ==
  ASSUME IInv, CountInv, NEW c \in Conns, Decide(c)
  PROVE  CountInv'
<1> DEFINE push == [ip |-> call[c].ip, time |-> call[c].now]
           s == [push |-> push, merged |-> suppressed]
<1>0. TypeOK
  BY DEF IInv
<1>1. /\ call[c].now \in Nat /\ call[c].now >= lastGlobal + MinGap
      /\ pushes' = pushes \cup {push}
  BY <1>0, PushFacts
<1>2. /\ sending' = sending \cup {s} /\ suppressed' = 0 /\ suppressed \in Nat
      /\ UNCHANGED <<throttled, told, lost>>
  BY <1>0 DEF Decide, StartPush, TypeOK
<1>3. push \notin pushes
  <2>1. \A p \in pushes : p.time \in Nat /\ p.time <= lastGlobal
    BY <1>0 DEF IInv, GlobalLatest, TypeOK, Push
  <2>2. lastGlobal \in Int /\ MinGap \in Nat \ {0}
    BY <1>0, NotifierAssumption DEF TypeOK, Never
  <2>3. push.time = call[c].now
    OBVIOUS
  <2> HIDE DEF push
  <2> QED BY <1>1, <2>1, <2>2, <2>3
<1>4. s \notin sending /\ s.push = push /\ s.merged = suppressed
  BY <1>3 DEF CountInv
<1> HIDE DEF s, push
<1>5. /\ IsFiniteSet(sending') /\ sending' \ {s} = sending /\ s \in sending'
      /\ \A x \in sending' : x.merged \in Nat
  BY <1>0, <1>2, <1>4, MergedKnown, FS_AddElement DEF CountInv
<1>6. Merged(sending') = suppressed + Merged(sending)
  BY <1>4, <1>5, MergedWithout
<1>7. throttled' = suppressed' + told' + lost' + Merged(sending')
  BY <1>0, <1>2, <1>6, MergedKnown DEF CountInv, TypeOK
<1>8. \A x \in sending' : x.push \in pushes'
  BY <1>1, <1>2, <1>4 DEF CountInv
<1> QED BY <1>5, <1>7, <1>8 DEF CountInv

LEMMA NextCounts ==
  ASSUME IInv, CountInv, [Next]_vars
  PROVE  CountInv'
<1>0. TypeOK
  BY DEF IInv
<1>1. ASSUME NEW c \in Conns, NEW ip \in Ips, ReadClock(c, ip) PROVE CountInv'
  BY <1>1 DEF ReadClock, CountInv
<1>2. ASSUME NEW c \in Conns, Throttle(c) PROVE CountInv'
  <2>1. /\ throttled' = throttled + 1 /\ suppressed' = suppressed + 1
        /\ UNCHANGED <<sending, pushes, told, lost>>
    BY <1>2 DEF Throttle
  <2> QED BY <1>0, <2>1, MergedKnown DEF CountInv, TypeOK
<1>3. ASSUME NEW c \in Conns, Decide(c) PROVE CountInv'
  BY <1>3, DecideCounts
<1>4. ASSUME NEW s \in sending, Delivered(s) \/ Failed(s) PROVE CountInv'
  <2>1. /\ sending' = sending \ {s} /\ UNCHANGED <<throttled, suppressed, pushes>>
        /\ \/ told' = told + s.merged /\ lost' = lost
           \/ lost' = lost + s.merged /\ told' = told
    BY <1>4 DEF Delivered, Failed
  <2>2. /\ Merged(sending) = s.merged + Merged(sending')
        /\ s.merged \in Nat /\ Merged(sending') \in Nat /\ IsFiniteSet(sending')
    BY <1>0, <2>1, MergedKnown
  <2>3. throttled' = suppressed' + told' + lost' + Merged(sending')
    BY <1>0, <2>1, <2>2 DEF CountInv, TypeOK
  <2> QED BY <2>1, <2>2, <2>3 DEF CountInv
<1>5. CASE Tick
  BY <1>5 DEF Tick, CountInv
<1>6. CASE Restart
  <2>1. sending' = {} /\ suppressed' = 0 /\ throttled' = 0 /\ told' = 0 /\ lost' = 0
    BY <1>6 DEF Restart
  <2>2. IsFiniteSet({}) /\ Merged({}) = 0
    BY FS_EmptySet, MergedWithout
  <2> QED BY <2>1, <2>2 DEF CountInv
<1>7. CASE UNCHANGED vars
  BY <1>7 DEF vars, CountInv
<1> QED BY <1>1, <1>2, <1>3, <1>4, <1>5, <1>6, <1>7 DEF Next

-----------------------------------------------------------------------------
\* Every step keeps the invariant.
LEMMA NextInv == ASSUME IInv, [Next]_vars PROVE IInv'
<1>0. TypeOK
  BY DEF IInv
<1>1. CASE Restart
  BY <1>0, <1>1, RestartInv
<1>2. ASSUME NEW c \in Conns, Decide(c) PROVE IInv'
  BY <1>2, DecideInv
<1>3. CASE ~ Restart /\ ~ \E c \in Conns : Decide(c)
  <2>1. TypeOK' /\ UNCHANGED <<last, lastGlobal, pushes>>
    BY <1>0, <1>3, QuietType DEF Next
  <2> QED BY <2>1, QuietInv
<1> QED BY <1>1, <1>2, <1>3

\* No step forgets a push too early when the map is large enough.
LEMMA NextRemembers ==
  ASSUME MapLargeEnough, IInv, Remembered, [Next]_vars
  PROVE  Remembered'
<1>0. TypeOK
  BY DEF IInv
<1>1. CASE Restart
  BY <1>0, <1>1, RestartInv
<1>2. ASSUME NEW c \in Conns, Decide(c) PROVE Remembered'
  BY <1>2, DecideRemembers
<1>3. CASE ~ Restart /\ ~ \E c \in Conns : Decide(c)
  <2>1. TypeOK' /\ UNCHANGED <<last, lastGlobal, pushes>>
    BY <1>0, <1>3, QuietType DEF Next
  <2> QED BY <2>1, QuietInv
<1> QED BY <1>1, <1>2, <1>3

\* The bookkeeping of NotifyRegistration holds throughout.
THEOREM Invariance == Spec => []IInv
<1>1. Init => IInv
  BY InitInv
<1>2. IInv /\ [Next]_vars => IInv'
  BY NextInv
<1> QED BY <1>1, <1>2, PTL DEF Spec

\* Type correctness of the throttle.
THEOREM TypeCorrect == Spec => []TypeOK
<1>1. IInv => TypeOK
  BY DEF IInv
<1> QED BY <1>1, Invariance, PTL

\* A push comes MinGap after every earlier one, map reset or not (notify.go:29,
\* 111).
THEOREM GlobalGapHolds == Spec => GlobalGap
<1> DEFINE Apart == \A c \in Conns : Decide(c) =>
                      \A p \in pushes : call[c].now - p.time >= MinGap
<1>1. IInv => Apart
  <2> SUFFICES ASSUME IInv, NEW c \in Conns, Decide(c), NEW p \in pushes
               PROVE  call[c].now - p.time >= MinGap
    OBVIOUS
  <2>1. call[c].now \in Nat /\ call[c].now >= lastGlobal + MinGap
    BY PushFacts DEF IInv
  <2>2. p.time \in Int /\ lastGlobal \in Int /\ p.time <= lastGlobal
    BY NotifierAssumption DEF IInv, TypeOK, Never, Push, GlobalLatest
  <2> QED BY <2>1, <2>2, NotifierAssumption
<1>2. IInv => [Apart]_vars
  BY <1>1
<1> QED BY <1>2, Invariance, PTL DEF GlobalGap

\* A push comes IpInterval after every earlier one for its address when
\* MaxTracked pushes span an interval, as they do with the constants of
\* notify.go (2000 * 30 >= 300).
THEOREM PerIpGapHolds == ASSUME MapLargeEnough PROVE Spec => PerIpGap
<1> DEFINE Apart == \A c \in Conns : Decide(c) => \A p \in pushes :
                      p.ip = call[c].ip => call[c].now - p.time >= IpInterval
<1>1. Init => IInv /\ Remembered
  BY InitInv
<1>2. IInv /\ Remembered /\ [Next]_vars => Remembered'
  BY NextRemembers
<1>3. IInv /\ Remembered => [Apart]_vars
  BY DecideRemembers
<1> QED BY <1>1, <1>2, <1>3, Invariance, PTL DEF Spec, PerIpGap

\* Every throttled registration is accounted for once, for any number of handlers
\* and of pushes under way: none is told twice and none forgotten between the
\* counter, the goroutines and their outcomes (NotifyRegistration, send).
THEOREM ThrottledAreCounted == Spec => []Accounted
<1>1. Init => CountInv
  <2>1. IsFiniteSet({}) /\ Merged({}) = 0
    BY FS_EmptySet, MergedWithout
  <2> QED BY <2>1 DEF Init, CountInv
<1>2. IInv /\ CountInv /\ [Next]_vars => CountInv'
  BY NextCounts
<1>3. CountInv => Accounted
  BY DEF CountInv, Accounted, Merged
<1> QED BY <1>1, <1>2, <1>3, Invariance, PTL DEF Spec
=============================================================================

---------------------------- MODULE Peers_proofs ----------------------------
(***************************************************************************)
(* Proofs about what MCPeers puts together: connections per minute         *)
(* (CpmLimiter), the files of the log (LogVolumes), the services that      *)
(* workers read while they are replaced (Entries) and, with                *)
(* HostLimit_proofs, the invocations per host, for any addresses, threads, *)
(* workers, readers, limits, periods and clocks.                           *)
(***************************************************************************)
EXTENDS MCPeers, FiniteSetTheorems, SequenceTheorems, TLAPS

-----------------------------------------------------------------------------
(* Division.                                                               *)

LEMMA RemainderOf ==
  ASSUME NEW d \in Nat \ {0}, NEW q \in Int, NEW r \in 0 .. d - 1
  PROVE  (q * d + r) % d = r
OBVIOUS

LEMMA Divides ==
  ASSUME NEW d \in Nat \ {0}, NEW t \in Nat
  PROVE  t \div d \in Nat /\ t % d \in 0 .. d - 1 /\ t = (t \div d) * d + (t % d)
OBVIOUS

-----------------------------------------------------------------------------
(* CpmLimiter: what counters add up to.                                    *)

LEMMA CountedFinite ==
  ASSUME NEW S, IsFiniteSet(S), NEW f \in [S -> Nat]
  PROVE  IsFiniteSet(Counted(f)) /\ Total(f) \in Nat
<1> DEFINE C == [x \in S |-> {x} \X (1 .. f[x])]
           T == {C[x] : x \in S}
<1>1. IsFiniteSet(T)
  <2>1. C \in Surjection(S, T)
    BY DEF Surjection
  <2> QED
    BY <2>1, FS_Surjection
<1>2. ASSUME NEW x \in S PROVE IsFiniteSet(C[x])
  <2>1. IsFiniteSet({x})
    BY FS_Singleton, Zenon
  <2>2. f[x] \in Nat /\ 1 \in Int
    OBVIOUS
  <2>3. IsFiniteSet(1 .. f[x])
    BY <2>2, FS_Interval
  <2>4. IsFiniteSet({x} \X (1 .. f[x]))
    BY <2>1, <2>3, FS_Product
  <2> QED
    BY <2>4
<1>3. Counted(f) = UNION T
  <2>1. DOMAIN f = S /\ \A x \in S : C[x] = {x} \X (1 .. f[x])
    OBVIOUS
  <2>2. \A p : p \in Counted(f) <=> \E x \in S : p \in C[x]
    BY <2>1, Zenon DEF Counted
  <2>3. \A p : p \in UNION T <=> \E x \in S : p \in C[x]
    <3> HIDE DEF C
    <3> QED
      BY Zenon
  <2> QED
    BY <2>2, <2>3, Zenon
<1>4. IsFiniteSet(Counted(f))
  <2> HIDE DEF T, C
  <2>1. \A U \in T : IsFiniteSet(U)
    BY <1>2 DEF T
  <2> QED
    BY <1>1, <1>3, <2>1, FS_UNION
<1> QED
  BY <1>4, FS_CardinalityType DEF Total

\* Counters that are not zero and each have one of their own that is as large add up to no
\* more than those do.
LEMMA TotalInto ==
  ASSUME NEW S, NEW T, IsFiniteSet(T), NEW f \in [S -> Nat], NEW g \in [T -> Nat],
         NEW m \in [S -> Nat],
         \A x \in S : f[x] > 0 => m[x] \in T /\ f[x] <= g[m[x]],
         \A x, y \in S : f[x] > 0 /\ f[y] > 0 /\ m[x] = m[y] => x = y
  PROVE  Total(f) <= Total(g)
<1> DEFINE F == [p \in Counted(f) |-> <<m[p[1]], p[2]>>]
<1>1. ASSUME NEW p \in Counted(f)
      PROVE  p[1] \in S /\ p[2] \in 1 .. f[p[1]] /\ p = <<p[1], p[2]>> /\ f[p[1]] > 0
  BY DEF Counted
<1>2. ASSUME NEW p \in Counted(f) PROVE F[p] \in Counted(g)
  <2>1. m[p[1]] \in T /\ p[2] \in 1 .. g[m[p[1]]]
    BY <1>1
  <2> QED
    BY <2>1 DEF Counted
<1>3. ASSUME NEW p \in Counted(f), NEW q \in Counted(f), F[p] = F[q] PROVE p = q
  <2>1. m[p[1]] = m[q[1]] /\ p[2] = q[2]
    BY <1>3
  <2>2. p[1] = q[1]
    BY <2>1, <1>1
  <2> QED
    BY <2>1, <2>2, <1>1
<1>4. F \in Injection(Counted(f), Counted(g))
  BY <1>2, <1>3 DEF Injection, IsInjective
<1>5. IsFiniteSet(Counted(g))
  BY CountedFinite
<1> QED
  BY <1>4, <1>5, FS_Injection DEF Total

-----------------------------------------------------------------------------
(* The time in ticks.                                                      *)

LEMMA LaterTick ==
  ASSUME NEW d \in Nat \ {0}, NEW s \in Nat, NEW t \in Nat, s <= t
  PROVE  s \div d <= t \div d
<1>1. /\ s \div d \in Nat /\ s % d \in 0 .. d - 1 /\ s = (s \div d) * d + (s % d)
      /\ t \div d \in Nat /\ t % d \in 0 .. d - 1 /\ t = (t \div d) * d + (t % d)
  BY Divides
<1> DEFINE a == s \div d
           b == t \div d
<1>2. SUFFICES ASSUME a >= b + 1 PROVE FALSE
  BY <1>1
<1>3. a * d >= (b + 1) * d
  <2> HIDE DEF a, b
  <2> QED
    BY <1>1, <1>2 DEF a, b
<1>4. (b + 1) * d = b * d + d /\ a * d \in Nat /\ b * d \in Nat
  <2> HIDE DEF a, b
  <2> QED
    BY <1>1 DEF a, b
<1> QED
  BY <1>1, <1>3, <1>4

LEMMA NextRound ==
  ASSUME NEW d \in Nat \ {0}, NEW j \in Nat
  PROVE  (j + d) % d = j % d
<1> DEFINE q == j \div d
           r == j % d
<1>1. q \in Nat /\ r \in 0 .. d - 1 /\ j = q * d + r
  BY Divides
<1> HIDE DEF q, r
<1>2. j + d = (q + 1) * d + r
  BY <1>1
<1>3. ((q + 1) * d + r) % d = r
  BY <1>1, RemainderOf
<1> QED
  BY <1>2, <1>3 DEF r

\* Ticks in the same slot of the ring that are less than a round apart are one.
LEMMA OneRound ==
  ASSUME NEW d \in Nat \ {0}, NEW i \in Nat, NEW j \in Nat, i <= j, j < i + d, i % d = j % d
  PROVE  i = j
<1>1. /\ i \div d \in Nat /\ i % d \in 0 .. d - 1 /\ i = (i \div d) * d + (i % d)
      /\ j \div d \in Nat /\ j % d \in 0 .. d - 1 /\ j = (j \div d) * d + (j % d)
  BY Divides
<1> DEFINE a == i \div d
           b == j \div d
<1>2. a <= b
  BY LaterTick
<1>3. CASE b >= a + 1
  <2>1. b * d >= (a + 1) * d /\ (a + 1) * d = a * d + d /\ a * d \in Nat /\ b * d \in Nat
    <3> HIDE DEF a, b
    <3> QED
      BY <1>1, <1>3 DEF a, b
  <2> QED
    BY <1>1, <2>1
<1>4. CASE b = a
  BY <1>1, <1>4
<1> QED
  BY <1>1, <1>2, <1>3, <1>4

-----------------------------------------------------------------------------
(* The list of hosts that have a node.                                     *)

LEMMA WithoutOne ==
  ASSUME NEW S, NEW s \in Seq(S), IsInjective(s), NEW i \in DOMAIN s
  PROVE  /\ RemoveAt(s, i) \in Seq(S) /\ IsInjective(RemoveAt(s, i))
         /\ ToSet(RemoveAt(s, i)) = ToSet(s) \ {s[i]}
<1> DEFINE r == RemoveAt(s, i)
           a == SubSeq(s, 1, i - 1)
           b == SubSeq(s, i + 1, Len(s))
<1>1. i \in 1 .. Len(s) /\ Len(s) \in Nat /\ DOMAIN s = 1 .. Len(s)
  OBVIOUS
<1>2. a \in Seq(S) /\ Len(a) = i - 1 /\ \A j \in 1 .. i - 1 : a[j] = s[j]
  BY <1>1
<1>3. b \in Seq(S) /\ Len(b) = Len(s) - i /\ \A j \in 1 .. Len(s) - i : b[j] = s[i + j]
  BY <1>1
<1>4. r = a \o b
  BY DEF RemoveAt
<1> HIDE DEF a, b, r
<1>5. r \in Seq(S) /\ Len(r) = Len(s) - 1
  <2>1. r \in Seq(S) /\ Len(r) = Len(a) + Len(b)
    BY <1>2, <1>3, <1>4, ConcatProperties
  <2> QED
    BY <1>1, <1>2, <1>3, <2>1
<1>6. \A j \in 1 .. Len(s) - 1 : r[j] = IF j < i THEN s[j] ELSE s[j + 1]
  <2> TAKE j \in 1 .. Len(s) - 1
  <2>1. CASE j < i
    BY <1>1, <1>2, <1>3, <1>4, <2>1
  <2>2. CASE j >= i
    <3>1. j - (i - 1) \in 1 .. Len(s) - i /\ r[j] = b[j - (i - 1)]
      BY <1>1, <1>2, <1>3, <1>4, <2>2, SMTT(30)
    <3>2. i + (j - (i - 1)) = j + 1
      BY <1>1
    <3> QED
      BY <1>1, <1>3, <2>2, <3>1, <3>2
  <2> QED
    BY <1>1, <2>1, <2>2
<1>7. IsInjective(r)
  <2> SUFFICES ASSUME NEW j \in 1 .. Len(s) - 1, NEW k \in 1 .. Len(s) - 1, r[j] = r[k]
               PROVE  j = k
    BY <1>5 DEF IsInjective
  <2> DEFINE J == IF j < i THEN j ELSE j + 1
             K == IF k < i THEN k ELSE k + 1
  <2>1. J \in DOMAIN s /\ K \in DOMAIN s /\ s[J] = s[K]
    BY <1>1, <1>6
  <2>2. J = K
    BY <2>1 DEF IsInjective
  <2> QED
    BY <1>1, <2>2
<1>8. ToSet(r) = ToSet(s) \ {s[i]}
  <2>1. ASSUME NEW j \in DOMAIN r PROVE r[j] \in ToSet(s) \ {s[i]}
    <3> DEFINE J == IF j < i THEN j ELSE j + 1
    <3>1. J \in DOMAIN s /\ J # i /\ r[j] = s[J]
      BY <1>1, <1>5, <1>6
    <3> QED
      BY <3>1 DEF IsInjective, ToSet
  <2>2. ASSUME NEW J \in DOMAIN s, s[J] # s[i] PROVE s[J] \in ToSet(r)
    <3> DEFINE j == IF J < i THEN J ELSE J - 1
    <3>1. J # i
      BY <2>2
    <3>2. j \in DOMAIN r /\ r[j] = s[J]
      BY <1>1, <1>5, <1>6, <3>1
    <3> QED
      BY <3>2 DEF ToSet
  <2> QED
    BY <2>1, <2>2 DEF ToSet
<1> QED
  BY <1>5, <1>7, <1>8 DEF r

LEMMA WithoutHead ==
  ASSUME NEW S, NEW s \in Seq(S), IsInjective(s), s # <<>>
  PROVE  /\ Tail(s) \in Seq(S) /\ IsInjective(Tail(s)) /\ Head(s) \in ToSet(s)
         /\ ToSet(Tail(s)) = ToSet(s) \ {Head(s)}
<1>1. /\ Len(s) \in Nat \ {0} /\ Tail(s) \in Seq(S) /\ DOMAIN Tail(s) = 1 .. Len(s) - 1
      /\ \A j \in 1 .. Len(s) - 1 : Tail(s)[j] = s[j + 1]
      /\ Head(s) = s[1] /\ DOMAIN s = 1 .. Len(s)
  OBVIOUS
<1>2. IsInjective(Tail(s))
  <2> SUFFICES ASSUME NEW j \in 1 .. Len(s) - 1, NEW k \in 1 .. Len(s) - 1,
                      Tail(s)[j] = Tail(s)[k]
               PROVE  j = k
    BY <1>1 DEF IsInjective
  <2>1. j + 1 \in DOMAIN s /\ k + 1 \in DOMAIN s /\ s[j + 1] = s[k + 1]
    BY <1>1
  <2> QED
    BY <2>1 DEF IsInjective
<1>3. ASSUME NEW j \in 1 .. Len(s) - 1 PROVE Tail(s)[j] \in ToSet(s) \ {s[1]}
  <2>1. j + 1 \in DOMAIN s /\ 1 \in DOMAIN s /\ j + 1 # 1
    BY <1>1
  <2> QED
    BY <1>1, <2>1 DEF IsInjective, ToSet
<1>4. ASSUME NEW j \in DOMAIN s, s[j] # s[1] PROVE s[j] \in ToSet(Tail(s))
  <2>1. j - 1 \in 1 .. Len(s) - 1 /\ Tail(s)[j - 1] = s[j]
    BY <1>1, <1>4
  <2> QED
    BY <1>1, <2>1 DEF ToSet
<1> QED
  BY <1>1, <1>2, <1>3, <1>4 DEF ToSet

LEMMA WithLast ==
  ASSUME NEW S, NEW s \in Seq(S), IsInjective(s), NEW x \in S, x \notin ToSet(s)
  PROVE  /\ Append(s, x) \in Seq(S) /\ IsInjective(Append(s, x))
         /\ ToSet(Append(s, x)) = ToSet(s) \cup {x}
<1>1. /\ Append(s, x) \in Seq(S) /\ DOMAIN Append(s, x) = 1 .. Len(s) + 1
      /\ \A j \in 1 .. Len(s) : Append(s, x)[j] = s[j]
      /\ Append(s, x)[Len(s) + 1] = x /\ DOMAIN s = 1 .. Len(s) /\ Len(s) \in Nat
  OBVIOUS
<1>2. \A j \in 1 .. Len(s) : s[j] # x
  BY <1>1 DEF ToSet
<1>3. IsInjective(Append(s, x))
  <2> SUFFICES ASSUME NEW j \in 1 .. Len(s) + 1, NEW k \in 1 .. Len(s) + 1,
                      Append(s, x)[j] = Append(s, x)[k]
               PROVE  j = k
    BY <1>1 DEF IsInjective
  <2> QED
    BY <1>1, <1>2 DEF IsInjective
<1>4. ToSet(Append(s, x)) = ToSet(s) \cup {x}
  <2>1. ASSUME NEW j \in 1 .. Len(s) + 1 PROVE Append(s, x)[j] \in ToSet(s) \cup {x}
    BY <1>1 DEF ToSet
  <2>2. ASSUME NEW j \in DOMAIN s PROVE s[j] \in ToSet(Append(s, x))
    <3>1. j \in DOMAIN Append(s, x) /\ Append(s, x)[j] = s[j]
      BY <1>1
    <3> QED
      BY <3>1 DEF ToSet
  <2>3. x \in ToSet(Append(s, x))
    <3>1. Len(s) + 1 \in DOMAIN Append(s, x)
      BY <1>1
    <3> QED
      BY <1>1, <3>1 DEF ToSet
  <2> QED
    BY <1>1, <2>1, <2>2, <2>3 DEF ToSet
<1> QED
  BY <1>1, <1>3, <1>4

-----------------------------------------------------------------------------
(* One call of check_limit().                                              *)

Rings == [0 .. Size - 1 -> [ticks : Ticks, count : Nat]]

LEMMA Positive ==
  Size \in Nat \ {0} /\ Gran \in Nat \ {0} /\ MaxCpm \in Nat \ {0} /\ CpmWait \in Nat /\ MaxTime \in Nat
BY CpmAssumption DEF CpmAssumption

LEMMA TicksOf == ASSUME NEW n \in 0 .. MaxTime PROVE n \div Gran \in Ticks
<1>1. MaxTime \in Nat /\ Gran \in Nat \ {0} /\ n \in Nat /\ n <= MaxTime
  BY Positive
<1>2. n \div Gran \in Nat /\ MaxTime \div Gran \in Nat
  BY <1>1, Divides
<1>3. n \div Gran <= MaxTime \div Gran
  BY <1>1, LaterTick
<1> QED
  BY <1>2, <1>3 DEF Ticks

LEMMA SlotOf ==
  ASSUME NEW k \in Ticks
  PROVE  k \in Nat /\ k % Size \in 0 .. Size - 1 /\ 0 % Size = 0 /\ 0 \in Ticks
<1>1. MaxTime \div Gran \in Nat
  BY Positive, Divides
<1>2. k \in Nat /\ 0 \in Ticks
  BY <1>1 DEF Ticks
<1> QED
  BY <1>2, Positive, Divides

LEMMA NoTimesIs == NoTimes \in Rings /\ \A i \in 0 .. Size - 1 : NoTimes[i] = [ticks |-> 0, count |-> 0]
<1>1. 0 \in Ticks
  BY Positive, Divides DEF Ticks
<1> QED
  BY <1>1 DEF NoTimes, Rings

\* The slot of the tick counts one more, or starts from one; the others stay.
LEMMA BumpIs ==
  ASSUME NEW ring \in Rings, NEW k \in Ticks
  PROVE  /\ Bump(ring, k) \in Rings
         /\ Bump(ring, k)[k % Size].ticks = k
         /\ Bump(ring, k)[k % Size].count =
              IF ring[k % Size].ticks = k THEN ring[k % Size].count + 1 ELSE 1
         /\ \A i \in 0 .. Size - 1 : i # k % Size => Bump(ring, k)[i] = ring[i]
<1>1. k % Size \in 0 .. Size - 1
  BY SlotOf
<1>2. ring[k % Size] \in [ticks : Ticks, count : Nat]
  BY <1>1 DEF Rings
<1> DEFINE b == [ticks |-> k, count |-> IF ring[k % Size].ticks = k
                                        THEN ring[k % Size].count + 1 ELSE 1]
<1>3. b \in [ticks : Ticks, count : Nat]
  BY <1>2
<1>4. Bump(ring, k) = [ring EXCEPT ![k % Size] = b]
  BY DEF Bump
<1>5. Bump(ring, k) \in Rings /\ Bump(ring, k)[k % Size] = b
      /\ \A i \in 0 .. Size - 1 : i # k % Size => Bump(ring, k)[i] = ring[i]
  <2> HIDE DEF b
  <2> QED
    BY <1>1, <1>3, <1>4 DEF Rings
<1> QED
  BY <1>5

\* The node a host gets: its own, or one with no connections, whose penalty is over.
LEMMA NodeIs ==
  ASSUME TypeOK, NEW h \in Hosts, NEW n \in Nat
  PROVE  LET g == GetNode(h, n)
         IN  /\ g.times \in Rings /\ g.dtime \in 0 .. MaxTime + CpmWait
             /\ g.rest \in Seq(Hosts) /\ IsInjective(g.rest) /\ h \notin ToSet(g.rest)
             /\ ToSet(g.rest) \subseteq ToSet(lru)
             /\ Known(h) => g.times = times[h] /\ g.dtime = dtime[h]
             /\ ~Known(h) => g.times = NoTimes /\ n >= g.dtime
<1>0. /\ lru \in Seq(Hosts) /\ IsInjective(lru) /\ times[h] \in Rings
      /\ dtime \in [Hosts -> 0 .. MaxTime + CpmWait]
  BY DEF TypeOK, Rings
<1>1. CASE Known(h)
  <2> DEFINE i == CHOOSE i \in DOMAIN lru : lru[i] = h
  <2>1. i \in DOMAIN lru /\ lru[i] = h
    BY <1>1 DEF Known, ToSet
  <2>2. GetNode(h, n) = [times |-> times[h], dtime |-> dtime[h], rest |-> RemoveAt(lru, i)]
    BY <1>1 DEF GetNode
  <2> HIDE DEF i
  <2>3. /\ RemoveAt(lru, i) \in Seq(Hosts) /\ IsInjective(RemoveAt(lru, i))
        /\ ToSet(RemoveAt(lru, i)) = ToSet(lru) \ {h}
    BY <1>0, <2>1, WithoutOne
  <2> QED
    BY <1>0, <1>1, <2>2, <2>3
<1>2. CASE ~Known(h) /\ Recyclable(n)
  <2>1. /\ Tail(lru) \in Seq(Hosts) /\ IsInjective(Tail(lru)) /\ Head(lru) \in ToSet(lru)
        /\ ToSet(Tail(lru)) = ToSet(lru) \ {Head(lru)} /\ n >= dtime[Head(lru)]
    BY <1>0, <1>2, WithoutHead DEF Recyclable
  <2>2. Head(lru) \in Hosts
    BY <1>0, <1>2 DEF Recyclable
  <2>3. GetNode(h, n) = [times |-> NoTimes, dtime |-> dtime[Head(lru)], rest |-> Tail(lru)]
    BY <1>2 DEF GetNode
  <2> QED
    BY <1>0, <1>2, <2>1, <2>2, <2>3, NoTimesIs DEF Known
<1>3. CASE ~Known(h) /\ ~Recyclable(n)
  <2>1. GetNode(h, n) = [times |-> NoTimes, dtime |-> 0, rest |-> lru]
    BY <1>3 DEF GetNode
  <2> QED
    BY <1>0, <1>3, <2>1, NoTimesIs, Positive DEF Known
<1> QED
  BY <1>1, <1>2, <1>3

\* What a call of host h that read the clock at n does, when its node has the penalty d and
\* the ring r before it is looked at.
Refuses(h, n, d, r) ==
  LET k == n \div Gran
      waiting == d # 0 /\ n < d /\ CpmWait > 0
      ring == IF waiting THEN r ELSE Bump(r, k)
      refused == ~waiting /\ Usage(ring, k) > MaxCpm
      since == IF Known(h) THEN kept ELSE [kept EXCEPT ![h] = Nothing[h]]
  IN  /\ times' = [times EXCEPT ![h] = ring]
      /\ ltime' = [ltime EXCEPT ![h] = n]
      /\ dtime' = [dtime EXCEPT ![h] = IF waiting THEN d
                                       ELSE IF refused /\ CpmWait > 0 THEN n + CpmWait
                                       ELSE 0]
      /\ asked' = Count(asked, h, k)
      /\ IF waiting \/ refused
         THEN kept' = since /\ UNCHANGED admitted
         ELSE kept' = Count(since, h, k) /\ admitted' = Count(admitted, h, k)
      /\ until' = [until EXCEPT ![h] = IF refused THEN n + CpmWait ELSE @]
      /\ UNCHANGED clock

CallOf(t, h, n, d, r) ==
  /\ calls[t] = <<h, n>> /\ calls[t] # <<>> /\ calls' = [calls EXCEPT ![t] = <<>>]
  /\ n \in 0 .. MaxTime /\ n \div Gran \in Ticks
  /\ lru' \in Seq(Hosts) /\ IsInjective(lru')
  /\ \A g \in Hosts : Known(g)' => g = h \/ Known(g)
  /\ Known(h) => r = times[h] /\ d = dtime[h]
  /\ ~Known(h) => r = NoTimes /\ n >= d
  /\ Refuses(h, n, d, r)

LEMMA CallIs ==
  ASSUME TypeOK, NEW t \in Threads, CheckLimit(t)
  PROVE  \E h \in Hosts, n \in 0 .. clock, d \in 0 .. MaxTime + CpmWait, r \in Rings :
           CallOf(t, h, n, d, r)
<1> DEFINE h == calls[t][1]
           n == calls[t][2]
           g == GetNode(h, n)
<1>1. calls[t] \in Hosts \X (0 .. clock) /\ calls[t] # <<>> /\ clock \in 0 .. MaxTime
  BY DEF TypeOK, CheckLimit
<1>2. h \in Hosts /\ n \in 0 .. clock /\ calls[t] = <<h, n>> /\ n \in 0 .. MaxTime /\ n \in Nat
  BY <1>1, Positive
<1>3. n \div Gran \in Ticks
  BY <1>2, TicksOf
<1>4. lru' = Append(g.rest, h) /\ calls' = [calls EXCEPT ![t] = <<>>]
  BY DEF CheckLimit
<1>5. Refuses(h, n, g.dtime, g.times)
  BY DEF CheckLimit, Refuses
<1> HIDE DEF h, n
<1>6. /\ g.times \in Rings /\ g.dtime \in 0 .. MaxTime + CpmWait
      /\ g.rest \in Seq(Hosts) /\ IsInjective(g.rest) /\ h \notin ToSet(g.rest)
      /\ ToSet(g.rest) \subseteq ToSet(lru)
      /\ Known(h) => g.times = times[h] /\ g.dtime = dtime[h]
      /\ ~Known(h) => g.times = NoTimes /\ n >= g.dtime
  BY <1>2, NodeIs
<1> HIDE DEF g
<1>7. lru' \in Seq(Hosts) /\ IsInjective(lru') /\ ToSet(lru') = ToSet(g.rest) \cup {h}
  BY <1>2, <1>4, <1>6, WithLast
<1>8. \A f \in Hosts : Known(f)' => f = h \/ Known(f)
  BY <1>6, <1>7 DEF Known
<1> QED
  BY <1>1, <1>2, <1>3, <1>4, <1>5, <1>6, <1>7, <1>8 DEF CallOf

LEMMA CountIs ==
  ASSUME NEW f \in Counts, NEW h \in Hosts, NEW k \in Ticks
  PROVE  /\ Count(f, h, k) \in Counts /\ Count(f, h, k)[h][k] = f[h][k] + 1
         /\ \A j \in Ticks : j # k => Count(f, h, k)[h][j] = f[h][j]
         /\ \A g \in Hosts : g # h => Count(f, h, k)[g] = f[g]
BY DEF Counts, Count

LEMMA NothingIs == Nothing \in Counts /\ \A h \in Hosts, k \in Ticks : Nothing[h][k] = 0
BY DEF Nothing, Counts

\* What is kept when the host may get a new node.
Since(h) == IF Known(h) THEN kept ELSE [kept EXCEPT ![h] = Nothing[h]]

LEMMA SinceIs ==
  ASSUME kept \in Counts, NEW h \in Hosts
  PROVE  /\ Since(h) \in Counts
         /\ Since(h)[h] = IF Known(h) THEN kept[h] ELSE Nothing[h]
         /\ \A g \in Hosts : g # h => Since(h)[g] = kept[g]
BY NothingIs DEF Counts, Since

LEMMA LimiterTypeInit == Init => TypeOK
<1> SUFFICES ASSUME Init PROVE TypeOK
  OBVIOUS
<1>1. clock \in 0 .. MaxTime /\ calls \in [Threads -> {<<>>} \cup (Hosts \X (0 .. clock))]
  BY Positive DEF Init
<1>2. lru \in Seq(Hosts) /\ IsInjective(lru)
  BY DEF Init, IsInjective
<1>3. times \in [Hosts -> [0 .. Size - 1 -> [ticks : Ticks, count : Nat]]]
  BY NoTimesIs DEF Init, Rings
<1>4. ltime \in [Hosts -> 0 .. MaxTime] /\ dtime \in [Hosts -> 0 .. MaxTime + CpmWait]
      /\ until \in [Hosts -> 0 .. MaxTime + CpmWait]
  BY Positive DEF Init
<1>5. {asked, admitted, kept} \subseteq Counts
  BY NothingIs DEF Init
<1> QED
  BY <1>1, <1>2, <1>3, <1>4, <1>5 DEF TypeOK

LEMMA LimiterTypeStep == ASSUME TypeOK, [Next]_vars PROVE TypeOK'
<1>0. /\ clock \in Nat /\ clock <= MaxTime /\ MaxTime \in Nat
      /\ calls \in [Threads -> {<<>>} \cup (Hosts \X (0 .. clock))]
  BY Positive DEF TypeOK
<1>1. CASE Tick
  <2>1. clock' \in 0 .. MaxTime /\ 0 .. clock \subseteq 0 .. clock' /\ calls' = calls
    BY <1>0, <1>1 DEF Tick
  <2>2. Hosts \X (0 .. clock) \subseteq Hosts \X (0 .. clock')
    BY <2>1
  <2>3. calls' \in [Threads -> {<<>>} \cup (Hosts \X (0 .. clock'))]
    BY <1>0, <2>1, <2>2
  <2> QED
    BY <1>1, <2>1, <2>3 DEF Tick, nodeVars, history, TypeOK
<1>2. ASSUME NEW t \in Threads, NEW h \in Hosts, ReadClock(t, h) PROVE TypeOK'
  <2>1. calls' \in [Threads -> {<<>>} \cup (Hosts \X (0 .. clock'))]
    BY <1>0, <1>2 DEF ReadClock
  <2> QED
    BY <1>2, <2>1 DEF ReadClock, nodeVars, history, TypeOK
<1>3. ASSUME NEW t \in Threads, CheckLimit(t) PROVE TypeOK'
  <2>1. PICK h \in Hosts, n \in 0 .. clock, d \in 0 .. MaxTime + CpmWait, r \in Rings :
           CallOf(t, h, n, d, r)
    BY <1>3, CallIs
  <2>2. /\ calls[t] = <<h, n>> /\ calls[t] # <<>> /\ calls' = [calls EXCEPT ![t] = <<>>]
        /\ n \in 0 .. MaxTime /\ n \div Gran \in Ticks
        /\ lru' \in Seq(Hosts) /\ IsInjective(lru') /\ Refuses(h, n, d, r)
    BY <2>1 DEF CallOf
  <2>3. /\ times \in [Hosts -> Rings] /\ ltime \in [Hosts -> 0 .. MaxTime]
        /\ dtime \in [Hosts -> 0 .. MaxTime + CpmWait] /\ until \in [Hosts -> 0 .. MaxTime + CpmWait]
        /\ asked \in Counts /\ admitted \in Counts /\ kept \in Counts
    BY DEF TypeOK, Rings
  <2>4. Bump(r, n \div Gran) \in Rings
    BY <2>2, BumpIs
  <2>5. times' \in [Hosts -> Rings] /\ ltime' \in [Hosts -> 0 .. MaxTime]
    BY <2>2, <2>3, <2>4 DEF Refuses
  <2>6. n + CpmWait \in 0 .. MaxTime + CpmWait /\ 0 \in 0 .. MaxTime + CpmWait
    BY <2>2, Positive
  <2>7. dtime' \in [Hosts -> 0 .. MaxTime + CpmWait]
    BY <2>2, <2>3, <2>6 DEF Refuses
  <2>8. until' \in [Hosts -> 0 .. MaxTime + CpmWait]
    BY <2>2, <2>3, <2>6 DEF Refuses
  <2>9. asked' \in Counts
    BY <2>2, <2>3, CountIs DEF Refuses
  <2>10. admitted' \in Counts /\ kept' \in Counts
    <3>1. \/ kept' = Since(h) /\ admitted' = admitted
          \/ kept' = Count(Since(h), h, n \div Gran) /\ admitted' = Count(admitted, h, n \div Gran)
      BY <2>2 DEF Refuses, Since
    <3> QED
      BY <2>2, <2>3, <3>1, CountIs, SinceIs
  <2>11. clock' \in 0 .. MaxTime /\ calls' \in [Threads -> {<<>>} \cup (Hosts \X (0 .. clock'))]
    <3>1. clock' = clock
      BY <2>2 DEF Refuses
    <3> QED
      BY <1>0, <2>2, <3>1
  <2> QED
    BY <2>2, <2>5, <2>7, <2>8, <2>9, <2>10, <2>11 DEF TypeOK, Rings
<1>4. CASE UNCHANGED vars
  BY <1>4 DEF vars, nodeVars, history, TypeOK
<1> QED
  BY <1>1, <1>2, <1>3, <1>4 DEF Next

-----------------------------------------------------------------------------
(* Who is refused.                                                         *)

\* A slot that is in use is that of its tick, and counts no more than the host has asked for
\* in that tick.
SlotsCount ==
  \A h \in Hosts, i \in 0 .. Size - 1 :
    LET c == times[h][i]
    IN  /\ c.count > 0 \/ c.ticks > 0 => c.ticks % Size = i
        /\ c.count <= asked[h][c.ticks]

\* The penalty of a host that has a node is the one it was given last.
OwnPenalty == \A h \in Hosts : Known(h) /\ dtime[h] # 0 => dtime[h] = until[h]

RefusalInv == TypeOK /\ SlotsCount /\ OwnPenalty

LEMMA RingCounts ==
  ASSUME NEW h \in Hosts, NEW k \in Ticks, NEW r \in Rings, NEW before \in Counts,
         \A i \in 0 .. Size - 1 :
            /\ r[i].count > 0 \/ r[i].ticks > 0 => r[i].ticks % Size = i
            /\ r[i].count <= before[h][r[i].ticks]
  PROVE  \A i \in 0 .. Size - 1 :
            LET c == Bump(r, k)[i]
            IN  /\ c.count > 0 \/ c.ticks > 0 => c.ticks % Size = i
                /\ c.count <= Count(before, h, k)[h][c.ticks]
<1> TAKE i \in 0 .. Size - 1
<1>1. r[i].ticks \in Ticks /\ r[i].count \in Nat
  BY DEF Rings
<1>2. \A j \in Ticks : before[h][j] \in Nat
  BY DEF Counts
<1>3. CASE i = k % Size
  BY <1>1, <1>2, <1>3, BumpIs, CountIs, SMTT(30)
<1>4. CASE i # k % Size
  <2>1. Bump(r, k)[i] = r[i]
    BY <1>4, BumpIs
  <2>2. before[h][r[i].ticks] <= Count(before, h, k)[h][r[i].ticks]
    BY <1>1, <1>2, CountIs
  <2>3. before[h][r[i].ticks] \in Nat /\ Count(before, h, k)[h][r[i].ticks] \in Nat
    BY <1>1, <1>2, CountIs DEF Counts
  <2> QED
    BY <1>1, <2>1, <2>2, <2>3
<1> QED
  BY <1>3, <1>4

LEMMA RefusalInit == Init => RefusalInv
<1> SUFFICES ASSUME Init PROVE RefusalInv
  OBVIOUS
<1>1. SlotsCount
  <2> SUFFICES ASSUME NEW h \in Hosts, NEW i \in 0 .. Size - 1
               PROVE  times[h][i].ticks = 0 /\ times[h][i].count = 0 /\ asked[h][0] = 0
    BY DEF SlotsCount
  <2> QED
    BY Positive, SlotOf, NothingIs, NoTimesIs DEF Init, Ticks
<1> QED
  BY <1>1, LimiterTypeInit DEF Init, OwnPenalty, RefusalInv

\* The node before it is looked at: what its slots count was asked for.
LEMMA NodeCounts ==
  ASSUME RefusalInv, NEW h \in Hosts, NEW r \in Rings,
         Known(h) => r = times[h], ~Known(h) => r = NoTimes
  PROVE  \A i \in 0 .. Size - 1 :
            /\ r[i].count > 0 \/ r[i].ticks > 0 => r[i].ticks % Size = i
            /\ r[i].count <= asked[h][r[i].ticks]
<1>1. CASE Known(h)
  BY <1>1 DEF RefusalInv, SlotsCount
<1>2. CASE ~Known(h)
  <2>1. asked \in Counts /\ 0 \in Ticks
    BY Positive, Divides DEF RefusalInv, TypeOK, Ticks
  <2>2. asked[h][0] \in Nat
    BY <2>1 DEF Counts
  <2> QED
    BY <1>2, <2>2, NoTimesIs
<1> QED
  BY <1>1, <1>2

LEMMA RefusalStep == ASSUME RefusalInv, [Next]_vars PROVE RefusalInv'
<1>0. TypeOK'
  BY LimiterTypeStep DEF RefusalInv
<1>1. ASSUME UNCHANGED <<lru, times, dtime, asked, until>> PROVE RefusalInv'
  BY <1>0, <1>1 DEF RefusalInv, SlotsCount, OwnPenalty, Known
<1>2. ASSUME NEW t \in Threads, CheckLimit(t) PROVE RefusalInv'
  <2>0. TypeOK
    BY DEF RefusalInv
  <2>1. PICK h \in Hosts, n \in 0 .. clock, d \in 0 .. MaxTime + CpmWait, r \in Rings :
           CallOf(t, h, n, d, r)
    BY <1>2, <2>0, CallIs
  <2> DEFINE k == n \div Gran
  <2>2. /\ k \in Ticks /\ Refuses(h, n, d, r)
        /\ \A g \in Hosts : Known(g)' => g = h \/ Known(g)
        /\ Known(h) => r = times[h] /\ d = dtime[h]
        /\ ~Known(h) => r = NoTimes /\ n >= d
    BY <2>1 DEF CallOf
  <2>3. asked \in Counts /\ times \in [Hosts -> Rings] /\ asked' = Count(asked, h, k)
        /\ dtime \in [Hosts -> 0 .. MaxTime + CpmWait] /\ until \in [Hosts -> 0 .. MaxTime + CpmWait]
    BY <2>0, <2>2 DEF TypeOK, Rings, Refuses
  <2>4. SlotsCount'
    <3> SUFFICES ASSUME NEW g \in Hosts, NEW i \in 0 .. Size - 1
                 PROVE  LET c == times'[g][i]
                        IN  /\ c.count > 0 \/ c.ticks > 0 => c.ticks % Size = i
                            /\ c.count <= asked'[g][c.ticks]
      BY DEF SlotsCount
    <3>1. CASE g # h
      <4>1. times'[g] = times[g] /\ asked'[g] = asked[g]
        BY <2>2, <2>3, <3>1, CountIs DEF Refuses
      <4> QED
        BY <4>1 DEF RefusalInv, SlotsCount
    <3>2. CASE g = h
      <4>1. \A j \in 0 .. Size - 1 :
               /\ r[j].count > 0 \/ r[j].ticks > 0 => r[j].ticks % Size = j
               /\ r[j].count <= asked[h][r[j].ticks]
        BY <2>2, NodeCounts
      <4>2. times'[h] = r \/ times'[h] = Bump(r, k)
        BY <2>2, <2>3 DEF Refuses
      <4>3. CASE times'[h] = Bump(r, k)
        BY <2>2, <2>3, <3>2, <4>1, <4>3, RingCounts
      <4>4. CASE times'[h] = r
        <5>1. r[i].ticks \in Ticks /\ r[i].count \in Nat
          BY DEF Rings
        <5>2. asked[h][r[i].ticks] <= asked'[h][r[i].ticks] /\ asked[h][r[i].ticks] \in Nat
              /\ asked'[h][r[i].ticks] \in Nat
          <6>1. asked' \in Counts
            BY <2>2, <2>3, CountIs
          <6>2. \A j \in Ticks : asked[h][j] \in Nat /\ asked'[h][j] \in Nat
            BY <2>3, <6>1 DEF Counts
          <6>3. \A j \in Ticks : asked'[h][j] = IF j = k THEN asked[h][j] + 1 ELSE asked[h][j]
            BY <2>2, <2>3, CountIs
          <6> QED
            BY <5>1, <6>2, <6>3
        <5> QED
          BY <3>2, <4>1, <4>4, <5>1, <5>2
      <4> QED
        BY <4>2, <4>3, <4>4
    <3> QED
      BY <3>1, <3>2
  <2>5. OwnPenalty'
    <3> SUFFICES ASSUME NEW g \in Hosts, Known(g)', dtime'[g] # 0 PROVE dtime'[g] = until'[g]
      BY DEF OwnPenalty
    <3>1. CASE g # h
      BY <2>2, <2>3, <3>1 DEF RefusalInv, OwnPenalty, Refuses
    <3>2. CASE g = h /\ d # 0 /\ n < d /\ CpmWait > 0
      <4>1. Known(h) /\ d = dtime[h]
        BY <2>2, <3>2
      <4>2. dtime'[h] = d /\ until'[h] = until[h]
        BY <2>2, <2>3, <3>2 DEF Refuses
      <4> QED
        BY <3>2, <4>1, <4>2 DEF RefusalInv, OwnPenalty
    <3>3. CASE g = h /\ ~(d # 0 /\ n < d /\ CpmWait > 0)
      BY <2>2, <2>3, <3>3 DEF Refuses
    <3> QED
      BY <3>1, <3>2, <3>3
  <2> QED
    BY <1>0, <2>4, <2>5 DEF RefusalInv
<1> QED
  BY <1>1, <1>2 DEF Next, Tick, ReadClock, vars, nodeVars, history

\* What the ring has of the last minute was asked for in it.
LEMMA UsageAsked ==
  ASSUME NEW h \in Hosts, NEW k \in Ticks, NEW ring \in Rings, NEW hist \in Counts,
         ring[k % Size].ticks = k,
         \A i \in 0 .. Size - 1 :
            /\ ring[i].count > 0 \/ ring[i].ticks > 0 => ring[i].ticks % Size = i
            /\ ring[i].count <= hist[h][ring[i].ticks]
  PROVE  Usage(ring, k) <= InMinute(hist, h, k) /\ Usage(ring, k) \in Nat
         /\ InMinute(hist, h, k) \in Nat
<1> DEFINE S == {i \in 0 .. Size - 1 : ring[i].ticks <= k /\ ring[i].ticks + Size >= k}
           T == Minute(k)
           f == [i \in S |-> ring[i].count]
           g == [j \in T |-> hist[h][j]]
           m == [i \in S |-> ring[i].ticks]
<1>1. IsFiniteSet(S) /\ IsFiniteSet(T)
  <2>1. IsFiniteSet(0 .. Size - 1) /\ IsFiniteSet(Ticks)
    BY Positive, Divides, FS_Interval DEF Ticks
  <2>2. S \in SUBSET (0 .. Size - 1) /\ T \in SUBSET Ticks
    BY DEF Minute
  <2> QED
    BY <2>1, <2>2, FS_Subset
<1>2. \A i \in 0 .. Size - 1 : ring[i].ticks \in Ticks /\ ring[i].ticks \in Nat /\ ring[i].count \in Nat
  BY SlotOf DEF Rings
<1>3. f \in [S -> Nat] /\ g \in [T -> Nat] /\ m \in [S -> Nat]
  BY <1>2 DEF Counts, Minute
<1>4. \A i \in S : f[i] > 0 => m[i] \in T /\ f[i] <= g[m[i]]
  <2> SUFFICES ASSUME NEW i \in S, f[i] > 0 PROVE m[i] \in T /\ f[i] <= g[m[i]]
    OBVIOUS
  <2> DEFINE j == ring[i].ticks
  <2>1. j \in Ticks /\ j \in Nat /\ j <= k /\ j + Size >= k /\ ring[i].count > 0
    BY <1>2
  <2>2. j % Size = i /\ ring[i].count <= hist[h][j]
    BY <2>1
  <2>3. j + Size # k
    <3> SUFFICES ASSUME k = j + Size PROVE FALSE
      OBVIOUS
    <3>1. k % Size = i
      BY <2>1, <2>2, Positive, NextRound
    <3> QED
      BY <3>1, Positive, SlotOf
  <2>4. j \in T
    BY <2>1, <2>3, SlotOf, Positive DEF Minute
  <2> QED
    BY <2>2, <2>4
<1>5. \A x, y \in S : f[x] > 0 /\ f[y] > 0 /\ m[x] = m[y] => x = y
  OBVIOUS
<1>6. Total(f) <= Total(g)
  <2> HIDE DEF S, T, f, g, m
  <2> QED
    BY <1>1, <1>3, <1>4, <1>5, TotalInto
<1>7. Total(f) \in Nat /\ Total(g) \in Nat
  <2> HIDE DEF S, T, f, g
  <2> QED
    BY <1>1, <1>3, CountedFinite
<1> QED
  BY <1>6, <1>7 DEF Usage, InMinute

LEMMA RefusedIsOver ==
  ASSUME RefusalInv, [Next]_vars, NEW h \in Hosts, NEW k \in Ticks,
         asked'[h][k] > asked[h][k], admitted'[h][k] = admitted[h][k]
  PROVE  InMinute(asked', h, k) > MaxCpm \/ ltime'[h] < until[h]
<1>0. TypeOK /\ asked \in Counts /\ admitted \in Counts /\ times \in [Hosts -> Rings]
      /\ ltime \in [Hosts -> 0 .. MaxTime]
  BY DEF RefusalInv, TypeOK, Rings
<1>1. asked[h][k] \in Nat /\ admitted[h][k] \in Nat
  BY <1>0 DEF Counts
<1>2. PICK t \in Threads : CheckLimit(t)
  BY <1>1 DEF Next, Tick, ReadClock, vars, nodeVars, history
<1>3. PICK g \in Hosts, n \in 0 .. clock, d \in 0 .. MaxTime + CpmWait, r \in Rings :
         CallOf(t, g, n, d, r)
  BY <1>0, <1>2, CallIs
<1>4. /\ n \div Gran \in Ticks /\ Refuses(g, n, d, r)
      /\ Known(g) => r = times[g] /\ d = dtime[g]
      /\ ~Known(g) => r = NoTimes /\ n >= d
  BY <1>3 DEF CallOf
<1>5. g = h /\ n \div Gran = k
  <2>1. asked' = Count(asked, g, n \div Gran)
    BY <1>4 DEF Refuses
  <2>2. n \div Gran \in Ticks
    BY <1>4
  <2> DEFINE j == n \div Gran
  <2> HIDE DEF j
  <2>3. asked' = Count(asked, g, j) /\ j \in Ticks
    BY <2>1, <2>2 DEF j
  <2>4. asked'[h][k] = IF h = g /\ k = j THEN asked[h][k] + 1 ELSE asked[h][k]
    BY <1>0, <2>3, CountIs, SMTT(30)
  <2>5. h = g /\ k = j
    BY <1>1, <2>4
  <2> QED
    BY <2>5 DEF j
<1>6. CASE d # 0 /\ n < d /\ CpmWait > 0
  <2>1. Known(h) /\ d = dtime[h]
    BY <1>4, <1>5, <1>6
  <2>2. ltime'[h] = n
    BY <1>0, <1>4, <1>5 DEF Refuses
  <2> QED
    BY <1>6, <2>1, <2>2 DEF RefusalInv, OwnPenalty
<1>7. CASE ~(d # 0 /\ n < d /\ CpmWait > 0)
  <2>1. Usage(Bump(r, k), k) > MaxCpm
    <3>1. admitted' # Count(admitted, h, k)
      BY <1>0, <1>1, CountIs
    <3> QED
      BY <1>4, <1>5, <1>7, <3>1 DEF Refuses
  <2>2. asked' = Count(asked, h, k) /\ asked' \in Counts
    BY <1>0, <1>4, <1>5, CountIs DEF Refuses
  <2>3. \A i \in 0 .. Size - 1 :
           LET c == Bump(r, k)[i]
           IN  /\ c.count > 0 \/ c.ticks > 0 => c.ticks % Size = i
               /\ c.count <= asked'[h][c.ticks]
    BY <1>0, <1>4, <1>5, <2>2, NodeCounts, RingCounts
  <2>4. Bump(r, k) \in Rings /\ Bump(r, k)[k % Size].ticks = k
    BY BumpIs
  <2>5. Usage(Bump(r, k), k) <= InMinute(asked', h, k) /\ Usage(Bump(r, k), k) \in Nat
        /\ InMinute(asked', h, k) \in Nat
    BY <2>2, <2>3, <2>4, UsageAsked
  <2> QED
    BY <2>1, <2>5, Positive
<1> QED
  BY <1>6, <1>7

LEMMA RefusalsHold == Spec => []RefusalInv
  BY RefusalInit, RefusalStep, PTL DEF Spec

\* However many threads call cpmip(), and whatever each read from the clock.
THEOREM RefusedWhenOver == Spec => RefusedOnlyOver
<1>1. RefusalInv /\ [Next]_vars =>
        [\A h \in Hosts, k \in Ticks :
           asked'[h][k] > asked[h][k] /\ admitted'[h][k] = admitted[h][k] =>
             InMinute(asked', h, k) > MaxCpm \/ ltime'[h] < until[h]]_vars
  BY RefusedIsOver
<1> QED
  BY <1>1, RefusalsHold, PTL DEF Spec, RefusedOnlyOver

-----------------------------------------------------------------------------
(* Who is let through.                                                     *)

\* cpmip() is called by one thread: that of the select() loop.
Alone == \A t, u \in Threads : t = u

\* No counter is of a later tick than the clock, or than the call that is to be decided.
NoneLater ==
  \A h \in Hosts, i \in 0 .. Size - 1 :
    /\ times[h][i].ticks <= clock \div Gran
    /\ \A t \in Threads : calls[t] # <<>> => times[h][i].ticks <= calls[t][2] \div Gran

\* What was let through since the host got its node is counted in its slot, unless the slot
\* is already used for a later tick.
KeptCounted ==
  \A h \in Hosts, j \in Ticks :
    Known(h) /\ kept[h][j] > 0 =>
      LET c == times[h][j % Size]
      IN  c.ticks >= j /\ (c.ticks = j => kept[h][j] <= c.count)

KeptInv == RefusalInv /\ NoneLater /\ KeptCounted /\ KeptWithinLimit

LEMMA MinuteFinite == ASSUME NEW k \in Ticks PROVE IsFiniteSet(Minute(k))
<1>1. IsFiniteSet(Ticks)
  BY Positive, Divides, FS_Interval DEF Ticks
<1>2. Minute(k) \in SUBSET Ticks
  BY DEF Minute
<1> QED
  BY <1>1, <1>2, FS_Subset

LEMMA InMinuteNat ==
  ASSUME NEW hist \in Counts, NEW h \in Hosts, NEW k \in Ticks
  PROVE  InMinute(hist, h, k) \in Nat
<1> DEFINE f == [j \in Minute(k) |-> hist[h][j]]
<1>1. f \in [Minute(k) -> Nat]
  BY DEF Counts, Minute
<1> HIDE DEF f
<1>2. Total(f) \in Nat
  BY <1>1, MinuteFinite, CountedFinite
<1> QED
  BY <1>2 DEF f, InMinute

LEMMA UsageNat == ASSUME NEW ring \in Rings, NEW k \in Ticks PROVE Usage(ring, k) \in Nat
<1> DEFINE T == {i \in 0 .. Size - 1 : ring[i].ticks <= k /\ ring[i].ticks + Size >= k}
           f == [i \in T |-> ring[i].count]
<1>1. IsFiniteSet(T)
  <2>1. IsFiniteSet(0 .. Size - 1)
    BY Positive, FS_Interval
  <2>2. T \in SUBSET (0 .. Size - 1)
    OBVIOUS
  <2> QED
    BY <2>1, <2>2, FS_Subset
<1>2. f \in [T -> Nat]
  BY DEF Rings
<1>3. Total(f) \in Nat
  <2> HIDE DEF T, f
  <2> QED
    BY <1>1, <1>2, CountedFinite
<1> QED
  BY <1>3 DEF Usage

\* Nothing after tick k, and up to there what it was: a minute that ends later holds no more.
LEMMA LaterMinute ==
  ASSUME NEW old \in Counts, NEW hist \in Counts, NEW h \in Hosts, NEW k \in Ticks, NEW l \in Ticks,
         \A j \in Minute(l) : hist[h][j] > 0 => j \in Minute(k) /\ hist[h][j] <= old[h][j]
  PROVE  InMinute(hist, h, l) <= InMinute(old, h, k)
<1> DEFINE f == [j \in Minute(l) |-> hist[h][j]]
           g == [j \in Minute(k) |-> old[h][j]]
           m == [j \in Minute(l) |-> j]
<1>1. f \in [Minute(l) -> Nat] /\ g \in [Minute(k) -> Nat] /\ m \in [Minute(l) -> Nat]
  BY SlotOf DEF Counts, Minute
<1>2. \A j \in Minute(l) : f[j] > 0 => m[j] \in Minute(k) /\ f[j] <= g[m[j]]
  OBVIOUS
<1>3. \A i, j \in Minute(l) : f[i] > 0 /\ f[j] > 0 /\ m[i] = m[j] => i = j
  OBVIOUS
<1>4. Total(f) <= Total(g)
  <2> HIDE DEF f, g, m
  <2> QED
    BY <1>1, <1>2, <1>3, MinuteFinite, TotalInto
<1> QED
  BY <1>4 DEF InMinute

\* What was let through in the last minute is counted in the ring.
LEMMA KeptInRing ==
  ASSUME NEW hist \in Counts, NEW h \in Hosts, NEW k \in Ticks, NEW ring \in Rings,
         \A i \in 0 .. Size - 1 :
            /\ ring[i].ticks <= k
            /\ ring[i].count > 0 \/ ring[i].ticks > 0 => ring[i].ticks % Size = i,
         \A j \in Ticks : hist[h][j] > 0 =>
            ring[j % Size].ticks >= j
            /\ (ring[j % Size].ticks = j => hist[h][j] <= ring[j % Size].count)
  PROVE  InMinute(hist, h, k) <= Usage(ring, k)
<1> DEFINE T == {i \in 0 .. Size - 1 : ring[i].ticks <= k /\ ring[i].ticks + Size >= k}
           S == Minute(k)
           f == [j \in S |-> hist[h][j]]
           g == [i \in T |-> ring[i].count]
           m == [j \in S |-> j % Size]
<1>1. IsFiniteSet(T)
  <2>1. IsFiniteSet(0 .. Size - 1)
    BY Positive, FS_Interval
  <2>2. T \in SUBSET (0 .. Size - 1)
    OBVIOUS
  <2> QED
    BY <2>1, <2>2, FS_Subset
<1>2. \A i \in 0 .. Size - 1 : ring[i].ticks \in Ticks /\ ring[i].ticks \in Nat /\ ring[i].count \in Nat
  BY SlotOf DEF Rings
<1>3. f \in [S -> Nat] /\ g \in [T -> Nat] /\ m \in [S -> Nat]
  <2>1. \A j \in S : j % Size \in Nat /\ j \in Ticks
    BY SlotOf DEF Minute
  <2> QED
    BY <1>2, <2>1 DEF Counts
<1>4. ASSUME NEW j \in S, f[j] > 0
      PROVE  ring[j % Size].ticks = j /\ j % Size \in T /\ f[j] <= g[j % Size]
  <2>1. j \in Ticks /\ j \in Nat /\ j <= k /\ k < j + Size /\ j % Size \in 0 .. Size - 1 /\ k \in Nat
    BY SlotOf DEF Minute
  <2> DEFINE i == j % Size
             c == ring[i].ticks
  <2>2. c \in Nat /\ c >= j /\ c <= k /\ (c = j => hist[h][j] <= ring[i].count)
    BY <1>2, <1>4, <2>1
  <2>3. c % Size = i
    <3>1. CASE c > 0
      BY <2>1, <3>1
    <3>2. CASE c = 0
      <4>1. j = 0
        BY <2>1, <2>2, <3>2
      <4> QED
        BY <3>2, <4>1
    <3> QED
      BY <2>2, <3>1, <3>2
  <2>4. c < j + Size
    BY <2>1, <2>2, Positive
  <2>5. c = j
    <3> HIDE DEF c
    <3> QED
      BY <2>1, <2>2, <2>3, <2>4, Positive, OneRound
  <2> QED
    BY <2>1, <2>2, <2>5, Positive
<1>5. \A j \in S : f[j] > 0 => m[j] \in T /\ f[j] <= g[m[j]]
  BY <1>4
<1>6. \A i, j \in S : f[i] > 0 /\ f[j] > 0 /\ m[i] = m[j] => i = j
  <2> SUFFICES ASSUME NEW i \in S, NEW j \in S, f[i] > 0, f[j] > 0, i % Size = j % Size PROVE i = j
    OBVIOUS
  <2>1. ring[i % Size].ticks = i /\ ring[j % Size].ticks = j
    BY <1>4
  <2> QED
    BY <2>1
<1>7. Total(f) <= Total(g)
  <2> HIDE DEF S, T, f, g, m
  <2> QED
    BY <1>1, <1>3, <1>5, <1>6, TotalInto
<1> QED
  BY <1>7 DEF Usage, InMinute

\* What is let through of host h is counted in this ring.
InRing(hist, h, ring) ==
  \A j \in Ticks : hist[h][j] > 0 =>
    ring[j % Size].ticks >= j
    /\ (ring[j % Size].ticks = j => hist[h][j] <= ring[j % Size].count)

\* And still is when one more is counted, whether it is let through or not.
LEMMA BumpCounts ==
  ASSUME NEW old \in Counts, NEW hist \in Counts, NEW h \in Hosts, NEW k \in Ticks, NEW r \in Rings,
         \A i \in 0 .. Size - 1 : r[i].ticks <= k,
         InRing(old, h, r),
         \A j \in Ticks : hist[h][j] <= old[h][j] + (IF j = k THEN 1 ELSE 0)
  PROVE  InRing(hist, h, Bump(r, k)) /\ \A i \in 0 .. Size - 1 : Bump(r, k)[i].ticks <= k
<1>1. \A i \in 0 .. Size - 1 : r[i].ticks \in Nat /\ r[i].count \in Nat
  BY SlotOf DEF Rings
<1>2. k \in Nat /\ k % Size \in 0 .. Size - 1
  BY SlotOf
<1>3. ASSUME NEW j \in Ticks, hist[h][j] > 0
      PROVE  /\ Bump(r, k)[j % Size].ticks >= j
             /\ Bump(r, k)[j % Size].ticks = j => hist[h][j] <= Bump(r, k)[j % Size].count
  <2>1. j \in Nat /\ j % Size \in 0 .. Size - 1 /\ hist[h][j] \in Nat /\ old[h][j] \in Nat
    BY SlotOf DEF Counts
  <2>2. CASE j = k
    <3>1. CASE old[h][j] = 0
      BY <1>1, <1>2, <1>3, <2>1, <2>2, <3>1, BumpIs
    <3>2. CASE old[h][j] > 0
      <4>1. r[k % Size].ticks >= k /\ (r[k % Size].ticks = k => old[h][k] <= r[k % Size].count)
        BY <2>2, <3>2 DEF InRing
      <4>2. r[k % Size].ticks = k
        BY <1>1, <1>2, <4>1
      <4> QED
        BY <1>1, <1>2, <2>1, <2>2, <4>1, <4>2, BumpIs
    <3> QED
      BY <2>1, <3>1, <3>2
  <2>3. CASE j # k
    <3>1. old[h][j] > 0 /\ hist[h][j] <= old[h][j]
      BY <1>3, <2>1, <2>3
    <3>2. r[j % Size].ticks >= j /\ (r[j % Size].ticks = j => old[h][j] <= r[j % Size].count)
      BY <3>1 DEF InRing
    <3>3. CASE j % Size = k % Size
      <4>1. Bump(r, k)[j % Size].ticks = k /\ r[j % Size].ticks <= k /\ r[j % Size].ticks \in Nat
        BY <1>1, <1>2, <3>3, BumpIs
      <4> QED
        BY <1>2, <2>1, <2>3, <3>2, <4>1
    <3>4. CASE j % Size # k % Size
      <4>1. Bump(r, k)[j % Size] = r[j % Size]
        BY <2>1, <3>4, BumpIs
      <4> QED
        BY <1>1, <2>1, <3>1, <3>2, <4>1
    <3> QED
      BY <3>3, <3>4
  <2> QED
    BY <2>2, <2>3
<1>4. \A i \in 0 .. Size - 1 : Bump(r, k)[i].ticks <= k
  BY <1>1, <1>2, BumpIs
<1> QED
  BY <1>3, <1>4 DEF InRing

LEMMA NothingCounted ==
  ASSUME NEW h \in Hosts, NEW k \in Ticks
  PROVE  InMinute(Nothing, h, k) = 0
<1> DEFINE f == [j \in Minute(k) |-> Nothing[h][j]]
<1>1. \A j \in DOMAIN f : f[j] = 0
  BY NothingIs DEF Minute
<1>2. Counted(f) = {}
  BY <1>1 DEF Counted
<1> QED
  BY <1>2, FS_EmptySet DEF Total, InMinute

LEMMA KeptInit == Init => KeptInv
<1> SUFFICES ASSUME Init PROVE KeptInv
  OBVIOUS
<1>1. NoneLater
  <2> SUFFICES ASSUME NEW h \in Hosts, NEW i \in 0 .. Size - 1
               PROVE  times[h][i].ticks <= clock \div Gran /\ \A t \in Threads : calls[t] = <<>>
    BY DEF NoneLater
  <2>1. times[h][i].ticks = 0 /\ clock \in Nat /\ \A t \in Threads : calls[t] = <<>>
    BY NoTimesIs DEF Init
  <2> QED
    BY <2>1, Positive, Divides
<1>2. KeptCounted
  BY DEF Init, KeptCounted, Known, ToSet
<1>3. KeptWithinLimit
  BY NothingCounted, Positive DEF Init, KeptWithinLimit
<1> QED
  BY <1>1, <1>2, <1>3, RefusalInit DEF KeptInv

\* The node before it is looked at.
LEMMA NodeKeeps ==
  ASSUME KeptInv, NEW h \in Hosts, NEW k \in Ticks, NEW r \in Rings,
         Known(h) => r = times[h] /\ \A i \in 0 .. Size - 1 : times[h][i].ticks <= k,
         ~Known(h) => r = NoTimes
  PROVE  InRing(Since(h), h, r) /\ \A i \in 0 .. Size - 1 : r[i].ticks <= k
<1>1. kept \in Counts /\ k \in Nat
  BY SlotOf DEF KeptInv, RefusalInv, TypeOK
<1>2. CASE Known(h)
  BY <1>1, <1>2, SinceIs DEF KeptInv, KeptCounted, InRing
<1>3. CASE ~Known(h)
  BY <1>1, <1>3, SinceIs, NothingIs, NoTimesIs DEF InRing
<1> QED
  BY <1>2, <1>3

\* One call, of the one thread.
LEMMA KeptCall ==
  ASSUME Alone, KeptInv, RefusalInv', NEW t \in Threads, CheckLimit(t)
  PROVE  NoneLater' /\ KeptCounted' /\ KeptWithinLimit'
<1>0. /\ TypeOK /\ kept \in Counts /\ kept' \in Counts /\ times \in [Hosts -> Rings]
      /\ calls \in [Threads -> {<<>>} \cup (Hosts \X (0 .. clock))] /\ clock \in Nat
  BY SMTT(30) DEF KeptInv, RefusalInv, TypeOK, Rings
<1>1. PICK h \in Hosts, n \in 0 .. clock, d \in 0 .. MaxTime + CpmWait, r \in Rings :
         CallOf(t, h, n, d, r)
  BY <1>0, CallIs
<1> DEFINE k == n \div Gran
<1>2. /\ calls[t] = <<h, n>> /\ calls[t] # <<>> /\ calls' = [calls EXCEPT ![t] = <<>>]
      /\ k \in Ticks /\ Refuses(h, n, d, r)
      /\ \A g \in Hosts : Known(g)' => g = h \/ Known(g)
      /\ Known(h) => r = times[h]
      /\ ~Known(h) => r = NoTimes
  BY <1>1 DEF CallOf
<1>3. k \in Nat /\ k <= clock \div Gran /\ clock \div Gran \in Nat
  <2>1. n \in Nat /\ n <= clock /\ Gran \in Nat \ {0}
    BY <1>0, Positive
  <2>2. n \div Gran <= clock \div Gran
    BY <1>0, <2>1, LaterTick
  <2> QED
    BY <1>0, <1>2, <2>1, <2>2, SlotOf, Divides
<1>4. \A i \in 0 .. Size - 1 : times[h][i].ticks <= k
  <2>1. calls[t][2] = n
    BY <1>2
  <2>2. \A i \in 0 .. Size - 1 : times[h][i].ticks <= calls[t][2] \div Gran
    BY <1>2 DEF KeptInv, NoneLater
  <2> QED
    BY <2>1, <2>2
<1>5. InRing(Since(h), h, r) /\ \A i \in 0 .. Size - 1 : r[i].ticks <= k
  BY <1>2, <1>4, NodeKeeps
<1>6. Since(h) \in Counts
  BY <1>0, SinceIs
<1> DEFINE ring == times'[h]
<1>7. /\ clock' = clock /\ \A g \in Hosts : g # h => times'[g] = times[g]
      /\ \/ ring = r /\ kept' = Since(h)
         \/ ring = Bump(r, k) /\ kept' = Since(h)
         \/ ring = Bump(r, k) /\ kept' = Count(Since(h), h, k) /\ ~(Usage(ring, k) > MaxCpm)
  BY <1>0, <1>2 DEF Refuses, Since
<1>8. ring \in Rings /\ InRing(kept', h, ring) /\ \A i \in 0 .. Size - 1 : ring[i].ticks <= k
  <2>1. CASE ring = r /\ kept' = Since(h)
    BY <1>5, <2>1
  <2>2. CASE ring = Bump(r, k)
    <3>1. \A j \in Ticks : Since(h)[h][j] \in Nat
      BY <1>6 DEF Counts
    <3>2. \A j \in Ticks : kept'[h][j] <= Since(h)[h][j] + (IF j = k THEN 1 ELSE 0)
      BY <1>2, <1>6, <1>7, <3>1, CountIs
    <3>3. InRing(kept', h, Bump(r, k)) /\ \A i \in 0 .. Size - 1 : Bump(r, k)[i].ticks <= k
      <4> DEFINE new == kept'
      <4>1. new \in Counts /\ \A j \in Ticks : new[h][j] <= Since(h)[h][j] + (IF j = k THEN 1 ELSE 0)
        BY <1>0, <3>2
      <4> HIDE DEF new, k
      <4>2. InRing(new, h, Bump(r, k)) /\ \A i \in 0 .. Size - 1 : Bump(r, k)[i].ticks <= k
        BY <1>2, <1>5, <1>6, <4>1, BumpCounts
      <4> QED
        BY <4>2 DEF new
    <3>4. Bump(r, k) \in Rings
      BY <1>2, BumpIs
    <3> QED
      BY <2>2, <3>3, <3>4
  <2> QED
    BY <1>7, <2>1, <2>2
<1>9. \A g \in Hosts : g # h => kept'[g] = kept[g]
  BY <1>0, <1>2, <1>6, <1>7, SinceIs, CountIs
<1>10. NoneLater'
  <2> SUFFICES ASSUME NEW g \in Hosts, NEW i \in 0 .. Size - 1
               PROVE  times'[g][i].ticks <= clock' \div Gran
                      /\ \A u \in Threads : calls'[u] = <<>>
    BY DEF NoneLater
  <2>1. \A u \in Threads : calls'[u] = <<>>
    BY <1>0, <1>2 DEF Alone
  <2>2. CASE g = h
    <3>1. ring[i].ticks \in Nat /\ ring[i].ticks <= k
      BY <1>8, SlotOf DEF Rings
    <3> QED
      BY <1>3, <1>7, <2>1, <2>2, <3>1
  <2>3. CASE g # h
    BY <1>7, <2>1, <2>3 DEF KeptInv, NoneLater
  <2> QED
    BY <2>2, <2>3
<1>11. KeptCounted'
  <2> SUFFICES ASSUME NEW g \in Hosts, NEW j \in Ticks, Known(g)', kept'[g][j] > 0
               PROVE  LET c == times'[g][j % Size]
                      IN  c.ticks >= j /\ (c.ticks = j => kept'[g][j] <= c.count)
    BY DEF KeptCounted
  <2>1. CASE g = h
    BY <1>8, <2>1 DEF InRing
  <2>2. CASE g # h
    BY <1>2, <1>7, <1>9, <2>2 DEF KeptInv, KeptCounted
  <2> QED
    BY <2>1, <2>2
<1>12. KeptWithinLimit'
  <2> SUFFICES ASSUME NEW g \in Hosts, NEW l \in Ticks PROVE InMinute(kept', g, l) <= MaxCpm
    BY DEF KeptWithinLimit
  <2>0. /\ InMinute(kept, g, l) <= MaxCpm /\ InMinute(kept, g, l) \in Nat
        /\ InMinute(kept', g, l) \in Nat /\ InMinute(kept', g, k) \in Nat
    BY <1>0, <1>2, InMinuteNat DEF KeptInv, KeptWithinLimit
  <2>1. CASE g # h
    BY <1>9, <2>0, <2>1 DEF InMinute
  <2>2. CASE g = h /\ (kept' = Since(h) \/ l < k)
    <3>1. \A j \in Minute(l) : kept'[h][j] > 0 => kept'[h][j] <= kept[h][j]
      <4> SUFFICES ASSUME NEW j \in Minute(l), kept'[h][j] > 0 PROVE kept'[h][j] <= kept[h][j]
        OBVIOUS
      <4>1. j \in Ticks /\ j <= l /\ j \in Nat /\ l \in Nat /\ kept[h][j] \in Nat
        BY <1>0, SlotOf DEF Minute, Counts
      <4>2. kept'[h][j] = Since(h)[h][j]
        BY <1>2, <1>3, <1>6, <1>7, <2>2, <4>1, CountIs
      <4>3. Known(h)
        BY <1>0, <4>1, <4>2, SinceIs, NothingIs
      <4> QED
        BY <1>0, <4>1, <4>2, <4>3, SinceIs
    <3>2. InMinute(kept', h, l) <= InMinute(kept, h, l)
      BY <1>0, <3>1, LaterMinute
    <3> QED
      BY <2>0, <2>2, <3>2, Positive
  <2>3. CASE g = h /\ kept' # Since(h) /\ l >= k
    <3>1. ring = Bump(r, k) /\ ~(Usage(ring, k) > MaxCpm)
      BY <1>7, <2>3
    <3>2. \A i \in 0 .. Size - 1 :
             /\ ring[i].ticks <= k
             /\ ring[i].count > 0 \/ ring[i].ticks > 0 => ring[i].ticks % Size = i
      BY <1>8 DEF RefusalInv, SlotsCount
    <3>3. InMinute(kept', h, k) <= Usage(ring, k)
      BY <1>0, <1>2, <1>8, <3>2, KeptInRing DEF InRing
    <3>4. \A j \in Minute(l) : kept'[h][j] > 0 => j \in Minute(k) /\ kept'[h][j] <= kept'[h][j]
      <4> SUFFICES ASSUME NEW j \in Minute(l), kept'[h][j] > 0
                   PROVE  j \in Minute(k) /\ kept'[h][j] <= kept'[h][j]
        OBVIOUS
      <4>1. j \in Ticks /\ j \in Nat /\ l < j + Size /\ j % Size \in 0 .. Size - 1
            /\ kept'[h][j] \in Nat /\ l \in Nat
        BY <1>0, SlotOf DEF Minute, Counts
      <4>2. ring[j % Size].ticks >= j /\ ring[j % Size].ticks <= k /\ ring[j % Size].ticks \in Nat
        BY <1>8, <4>1, SlotOf DEF InRing, Rings
      <4> QED
        BY <1>3, <2>3, <4>1, <4>2, Positive DEF Minute
    <3>5. InMinute(kept', h, l) <= InMinute(kept', h, k)
      BY <1>0, <1>2, <3>4, LaterMinute
    <3>6. Usage(ring, k) \in Nat
      BY <1>2, <1>8, UsageNat
    <3> QED
      BY <2>0, <2>3, <3>1, <3>3, <3>5, <3>6, Positive
  <2> QED
    BY <1>3, <2>1, <2>2, <2>3, SlotOf
<1> QED
  BY <1>10, <1>11, <1>12

LEMMA KeptStep == ASSUME Alone, KeptInv, [Next]_vars PROVE KeptInv'
<1>0. RefusalInv' /\ RefusalInv
  BY RefusalStep DEF KeptInv
<1>1. ASSUME UNCHANGED <<lru, times, kept>>, NoneLater' PROVE KeptInv'
  BY <1>0, <1>1 DEF KeptInv, KeptCounted, KeptWithinLimit, Known
<1>2. /\ clock \in Nat /\ \A h \in Hosts, i \in 0 .. Size - 1 : times[h][i].ticks \in Nat
      /\ calls \in [Threads -> {<<>>} \cup (Hosts \X (0 .. clock))]
  <2>1. times \in [Hosts -> Rings] /\ clock \in Nat
        /\ calls \in [Threads -> {<<>>} \cup (Hosts \X (0 .. clock))]
    BY <1>0 DEF RefusalInv, TypeOK, Rings
  <2> QED
    BY <2>1, SlotOf DEF Rings
<1>3. CASE Tick
  <2>1. clock \div Gran <= clock' \div Gran /\ clock \div Gran \in Nat /\ clock' \div Gran \in Nat
    BY <1>2, <1>3, Positive, LaterTick, Divides DEF Tick
  <2>2. NoneLater'
    BY <1>2, <1>3, <2>1 DEF Tick, nodeVars, KeptInv, NoneLater
  <2> QED
    BY <1>1, <1>3, <2>2 DEF Tick, nodeVars, history
<1>4. ASSUME NEW t \in Threads, NEW h \in Hosts, ReadClock(t, h) PROVE KeptInv'
  <2>1. calls' = [calls EXCEPT ![t] = <<h, clock>>] /\ clock' = clock /\ times' = times
    BY <1>4 DEF ReadClock, nodeVars
  <2>2. \A u \in Threads : calls'[u][2] = IF u = t THEN clock ELSE calls[u][2]
    BY <1>2, <2>1
  <2>3. \A u \in Threads : u # t => calls'[u] = calls[u]
    BY <1>2, <2>1
  <2>4. NoneLater'
    BY <2>1, <2>2, <2>3 DEF KeptInv, NoneLater
  <2> QED
    BY <1>1, <1>4, <2>4 DEF ReadClock, nodeVars, history
<1>5. ASSUME NEW t \in Threads, CheckLimit(t) PROVE KeptInv'
  BY <1>0, <1>5, KeptCall DEF KeptInv
<1>6. CASE UNCHANGED vars
  <2>1. NoneLater'
    BY <1>6 DEF vars, nodeVars, KeptInv, NoneLater
  <2> QED
    BY <1>1, <1>6, <2>1 DEF vars, nodeVars, history
<1> QED
  BY <1>3, <1>4, <1>5, <1>6 DEF Next

LEMMA KeptHolds == ASSUME Alone PROVE Spec => []KeptInv
  BY KeptInit, KeptStep, PTL DEF Spec

\* With one thread, that of the select() loop, a host that keeps its node is let through no
\* more than se_cpmmax times in any minute, wherever it starts.
THEOREM KeptIsWithin == ASSUME Alone PROVE Spec => []KeptWithinLimit
<1>1. KeptInv => KeptWithinLimit
  BY DEF KeptInv
<1> QED
  BY <1>1, KeptHolds, PTL

-----------------------------------------------------------------------------
(* LogVolumes: the files of the log.                                       *)

\* roll_time() is later than the time it is wanted for, and no later than midnight.
LEMMA RollTimeAhead ==
  ASSUME VolumesSound, NEW t \in Nat, NEW p \in Nat
  PROVE  LV!RollTime(t, p) \in Nat /\ t < LV!RollTime(t, p)
         /\ LV!RollTime(t, p) <= t - (t % Day) + Day
<1>1. t % Day \in 0 .. Day - 1
  BY DEF VolumesSound
<1>2. p > 0 => (t % Day) % p \in 0 .. p - 1
  BY <1>1
<1>3. t - (t % Day) + Day > t /\ t - (t % Day) + Day \in Int
  BY <1>1 DEF VolumesSound
<1>4. p > 0 => t + p - ((t % Day) % p) > t /\ t + p - ((t % Day) % p) \in Int
  BY <1>2
<1> QED
  BY <1>1, <1>3, <1>4 DEF LV!RollTime, VolumesSound

\* The part of the state that names files.
FileTypes ==
  /\ now \in Nat /\ period \in Nat
  /\ cur \in Nat /\ rollAt \in Nat /\ file \in Nat \cup {-1}

FilesInv == FileTypes /\ LV!Ordered

LEMMA FilesInit == ASSUME VolumesSound, LV!Init PROVE FilesInv
<1>1. now \in Nat /\ period \in Nat /\ cur = now /\ file \in {-1, cur}
  BY DEF VolumesSound, LV!Init
<1>2. rollAt = LV!RollTime(now, period)
  BY DEF LV!Init
<1>3. rollAt \in Nat /\ now < rollAt
  BY <1>1, <1>2, RollTimeAhead
<1> QED
  BY <1>1, <1>3 DEF FilesInv, FileTypes, LV!Ordered

LEMMA RollOrders ==
  ASSUME VolumesSound, FilesInv, LV!Roll, UNCHANGED <<now, period>>
  PROVE  FilesInv'
<1>1. cur' \in Nat /\ cur' <= now /\ cur' <= rollAt /\ cur <= cur'
  BY DEF FilesInv, FileTypes, LV!Ordered, LV!Roll, LV!Lesser
<1>2. rollAt' = LV!RollTime(cur', period)
  BY DEF LV!Roll
<1>3. rollAt' \in Nat /\ cur' < rollAt'
  BY <1>1, <1>2, RollTimeAhead DEF FilesInv, FileTypes
<1>4. file' \in {-1, cur', file}
  BY Zenon DEF LV!Roll
<1> QED
  BY <1>1, <1>3, <1>4 DEF FilesInv, FileTypes, LV!Ordered

LEMMA FilesStep == ASSUME VolumesSound, FilesInv, [LV!Next]_(LV!vars) PROVE FilesInv'
<1>1. CASE LV!Tick
  BY <1>1 DEF LV!Tick, FilesInv, FileTypes, LV!Ordered
<1>2. CASE LV!Sleep
  BY <1>2 DEF LV!Sleep, FilesInv, FileTypes, LV!Ordered, VolumesSound
<1>3. CASE LV!Check
  BY <1>3, RollOrders DEF LV!Check
<1>4. CASE LV!EndDrain
  <2>1. CASE LV!Roll
    BY <1>4, <2>1, RollOrders DEF LV!EndDrain
  <2>2. CASE UNCHANGED <<cur, rollAt, file>>
    BY <1>4, <2>2 DEF LV!EndDrain, FilesInv, FileTypes, LV!Ordered
  <2> QED
    BY <1>4, <2>1, <2>2 DEF LV!EndDrain
<1>5. CASE LV!Purge
  <2>1. file' \in {-1, file} /\ UNCHANGED <<now, period, cur, rollAt>>
    BY <1>5, Zenon DEF LV!Purge
  <2> QED
    BY <2>1 DEF FilesInv, FileTypes, LV!Ordered
<1>6. CASE LV!Line \/ UNCHANGED LV!vars
  BY <1>6 DEF LV!Line, LV!vars, FilesInv, FileTypes, LV!Ordered
<1> QED
  BY <1>1, <1>2, <1>3, <1>4, <1>5, <1>6 DEF LV!Next

\* The files of the log are named in the order in which they are written, and the next roll
\* lies ahead of the open one, for any day, period and purge period, and however long the
\* system sleeps.
THEOREM FilesOrdered == ASSUME VolumesSound PROVE LV!Spec => []LV!Ordered
<1>1. FilesInv => LV!Ordered
  BY DEF FilesInv
<1> QED
  BY <1>1, FilesInit, FilesStep, PTL DEF LV!Spec
-----------------------------------------------------------------------------
(* When files are rolled and purged.                                       *)

Boundary(t, p) == (t % Day) % p = 0

\* roll_time() is a multiple of the period in its day, or midnight.
LEMMA MultipleOf ==
  ASSUME NEW d \in Nat \ {0}, NEW q \in Int
  PROVE  (q * d + d) % d = 0 /\ 0 % d = 0
<1>1. ((q + 1) * d + 0) % d = 0 /\ (0 * d + 0) % d = 0
  BY RemainderOf
<1>2. (q + 1) * d + 0 = q * d + d /\ 0 * d + 0 = 0
  OBVIOUS
<1> QED
  BY <1>1, <1>2

LEMMA RollTimeBound ==
  ASSUME VolumesSound, NEW t \in Nat, NEW p \in Nat \ {0}
  PROVE  /\ LV!RollTime(t, p) <= t + p /\ LV!RollTime(t, p) <= t + Day
         /\ Boundary(LV!RollTime(t, p), p)
         /\ Boundary(t, p) => LV!RollTime(t, p) = t + p \/ LV!RollTime(t, p) % Day = 0
         /\ t % Day = 0 => LV!RollTime(t, p) = t + p \/ LV!RollTime(t, p) = t + Day
<1> DEFINE r == t % Day
           s == r % p
           next == t + p - s
           midnight == t - r
<1>1. PICK q \in Nat : t = q * Day + r
  <2>1. t \div Day \in Nat /\ t = (t \div Day) * Day + r
    BY Divides DEF VolumesSound
  <2> QED
    BY <2>1
<1>4. r \in 0 .. Day - 1 /\ Day \in Nat \ {0}
  BY Divides DEF VolumesSound
<1>2. PICK k \in Nat : r = k * p + s
  <2>1. r \in Nat
    BY <1>4
  <2>2. r \div p \in Nat /\ r = (r \div p) * p + s
    BY <2>1, Divides
  <2> QED
    BY <2>2
<1>12. s \in 0 .. p - 1
  BY <1>4, Divides
<1>3. LV!RollTime(t, p) = IF next < midnight + Day THEN next ELSE midnight + Day
  BY DEF LV!RollTime
<1>13. t % Day = r /\ r % p = s
  OBVIOUS
<1> HIDE DEF r, s
<1>5. k * p \in Nat /\ q * Day \in Nat
  BY <1>4
<1>6. next = q * Day + (k * p + p) /\ midnight + Day = q * Day + Day
  BY <1>1, <1>2, <1>4, <1>5, <1>12
<1>14. next \in Int /\ midnight \in Int
  BY <1>4, <1>12
<1> HIDE DEF next, midnight
<1>7. (midnight + Day) % Day = 0 /\ 0 % p = 0
  <2>1. (q * Day + Day) % Day = 0 /\ 0 % p = 0
    BY <1>4, MultipleOf
  <2> QED
    BY <1>6, <2>1
<1>8. next \in Int /\ midnight \in Int /\ (r = 0 => s = 0)
  BY <1>7, <1>13, <1>14
<1>9. (Boundary(t, p) <=> s = 0) /\ (t % Day = 0 <=> r = 0)
  BY <1>13 DEF Boundary
<1>10. CASE next < midnight + Day
  <2> DEFINE m == k * p + p
  <2>1. m \in 0 .. Day - 1
    BY <1>1, <1>4, <1>5, <1>6, <1>10, <1>14 DEF midnight
  <2>2. m % p = 0 /\ next = q * Day + m
    BY <1>6, MultipleOf
  <2> HIDE DEF m
  <2>3. (q * Day + m) % Day = m
    BY <1>4, <2>1, RemainderOf
  <2>6. Boundary(next, p)
    BY <2>2, <2>3 DEF Boundary
  <2>4. LV!RollTime(t, p) = next
    BY <1>3, <1>10
  <2>5. next <= t + p /\ next <= t + Day /\ (s = 0 => next = t + p)
    BY <1>4, <1>12, <1>8, <1>10 DEF next, midnight
  <2> QED
    BY <1>8, <1>9, <2>4, <2>5, <2>6
<1>11. CASE ~(next < midnight + Day)
  <2>1. LV!RollTime(t, p) = midnight + Day
    BY <1>3, <1>11
  <2>2. midnight + Day <= t + p /\ midnight + Day <= t + Day /\ (r = 0 => midnight + Day = t + Day)
    BY <1>4, <1>8, <1>11, <1>12 DEF next, midnight
  <2>3. Boundary(midnight + Day, p)
    BY <1>7 DEF Boundary
  <2> QED
    BY <1>7, <1>8, <1>9, <2>1, <2>2, <2>3
<1> QED
  BY <1>10, <1>11
\* Where the consumer's clock stands to the files: half a purge period; a file that is no
\* longer written to; and how old that one may be.
Half == purge \div 2
Closed == file \notin {-1, cur}
Recent(t, gap) == Closed => t < file + purge + gap

\* Types, and what a parameter's change leaves as it is: no line is newest in a file that is
\* gone or empty, and the next roll is always that of the open file.
VolumeTypes ==
  /\ last \in Nat /\ last <= now /\ (step = "purge" => last = now)
  /\ step \in {"drain", "purge"}
  /\ period \in Periods /\ purge \in Nat /\ purgeAt \in Nat
  /\ purge = 0 => purgeAt = 0
  /\ purge # 0 => purge >= 2 * period
  /\ newest \in Nat \cup {-1}
  /\ file = -1 \/ (file = cur /\ empty) => newest = -1
  /\ rollAt = LV!RollTime(cur, period)

\* The consumer is at most one roll behind, and that only at midnight, after a short period.
RollTimely ==
  ~slept =>
    /\ now - last <= MaxGap
    /\ last < rollAt \/ (last < cur + MaxGap /\ rollAt % Day = 0)
    /\ newest # -1 => newest <= file + period + MaxGap

\* And at most two purges: the first is not due at a multiple of the period, nor midnight.
PurgeTimely ==
  ~slept /\ purgeAt # 0 =>
    /\ purgeAt <= cur + purge + LV!Lesser(Day, Half)
    /\ Closed => purgeAt <= file + purge + LV!Lesser(Day, Half)
    /\ step = "drain" =>
         \/ last < purgeAt
         \/ last < purgeAt + MaxGap /\ Boundary(purgeAt, Half) /\ Recent(last, 2 * MaxGap)
         \/ last < purgeAt + 2 * MaxGap /\ purgeAt % Day = 0 /\ Recent(last, 2 * MaxGap)
    /\ step = "purge" =>
         \/ now < purgeAt + MaxGap
         \/ now < purgeAt + 2 * MaxGap /\ Boundary(purgeAt, Half) /\ Recent(now, 3 * MaxGap)
         \/ now < purgeAt + 3 * MaxGap /\ purgeAt % Day = 0 /\ Recent(now, 3 * MaxGap)

\* The inductive invariant of LogVolumes.
VolumeInv == FilesInv /\ VolumeTypes /\ RollTimely /\ PurgeTimely

LEMMA HalfIs ==
  ASSUME NEW n \in Nat
  PROVE  n \div 2 \in Nat /\ 2 * (n \div 2) <= n /\ n <= 2 * (n \div 2) + 1
OBVIOUS

LEMMA VolumeInit == ASSUME VolumesSound, Prompt, LV!Init PROVE VolumeInv
<1>1. PICK wanted \in Purges :
        /\ purge = IF wanted > 0 /\ wanted < 2 * period THEN 2 * period ELSE wanted
        /\ purgeAt = IF wanted > 0 THEN LV!RollTime(now, wanted \div 2) ELSE 0
  BY DEF LV!Init
<1>2. /\ now \in Nat /\ last = now /\ period \in Periods /\ period \in Nat \ {0}
      /\ rollAt = LV!RollTime(now, period) /\ cur = now /\ step = "drain"
      /\ file \in {-1, cur} /\ newest = -1
      /\ wanted \in Nat /\ wanted # 1 /\ MaxGap \in Nat
  BY DEF LV!Init, VolumesSound, Prompt
<1>3. now < rollAt /\ rollAt \in Nat
  BY <1>2, RollTimeAhead
<1>4. VolumeTypes /\ RollTimely
  <2>1. wanted > 0 => wanted \div 2 \in Nat
    BY <1>2, HalfIs
  <2>2. wanted > 0 => purgeAt \in Nat
    BY <1>1, <1>2, <2>1, RollTimeAhead
  <2> QED
    BY <1>1, <1>2, <1>3, <2>2 DEF VolumeTypes, RollTimely
<1>5. ASSUME purgeAt # 0 PROVE now < purgeAt /\ purgeAt <= now + Day /\ purgeAt <= now + Half
  <2>1. wanted > 1 /\ wanted <= purge /\ purge \in Nat
    BY <1>1, <1>2, <1>5
  <2>2. wanted \div 2 \in Nat \ {0} /\ wanted \div 2 <= Half
    BY <1>2, <2>1, HalfIs DEF Half
  <2>3. purgeAt = LV!RollTime(now, wanted \div 2)
    BY <1>1, <2>1
  <2>4. now < purgeAt
    BY <1>2, <2>2, <2>3, RollTimeAhead
  <2>5. purgeAt <= now + Day /\ purgeAt <= now + (wanted \div 2) /\ purgeAt \in Nat
    BY <1>2, <2>2, <2>3, RollTimeBound, RollTimeAhead
  <2>6. Half \in Nat
    BY <2>1, HalfIs DEF Half
  <2> HIDE DEF Half
  <2> QED
    BY <1>2, <2>2, <2>4, <2>5, <2>6
<1>6. PurgeTimely
  <2>1. purge \in Nat /\ purgeAt \in Nat /\ ~Closed /\ Day \in Nat
    BY <1>2, <1>4 DEF VolumeTypes, Closed, VolumesSound
  <2>2. Half \in Nat
    BY <2>1, HalfIs DEF Half
  <2> HIDE DEF Half
  <2>3. purgeAt # 0 => purgeAt <= cur + purge + LV!Lesser(Day, Half) /\ last < purgeAt
    BY <1>2, <1>5, <2>1, <2>2 DEF LV!Lesser
  <2> QED
    BY <1>2, <2>1, <2>3 DEF PurgeTimely
<1> QED
  BY <1>4, <1>6, FilesInit DEF VolumeInv

\* What the invariant says of the periods.
LEMMA VolumeFacts ==
  ASSUME VolumesSound, Prompt, VolumeInv
  PROVE  /\ period \in Nat \ {0} /\ 3 * MaxGap <= period /\ MaxGap \in Nat
         /\ cur < rollAt /\ rollAt <= cur + period
         /\ Half \in Nat
         /\ purgeAt # 0 => purge >= 2 * period /\ period <= Half /\ Half \in Nat \ {0}
<1>1. period \in Nat \ {0} /\ 3 * MaxGap <= period /\ MaxGap \in Nat
  BY DEF VolumesSound, Prompt, VolumeInv, VolumeTypes
<1>2. cur \in Nat /\ rollAt = LV!RollTime(cur, period)
  BY DEF VolumeInv, VolumeTypes, FilesInv, FileTypes
<1>3. cur < rollAt /\ rollAt <= cur + period
  BY <1>1, <1>2, RollTimeAhead, RollTimeBound
<1>4. purge \in Nat /\ (purgeAt # 0 => purge >= 2 * period)
  BY DEF VolumeInv, VolumeTypes
<1>5. Half \in Nat /\ purge <= 2 * Half + 1
  BY <1>4, HalfIs DEF Half
<1> HIDE DEF Half
<1> QED
  BY <1>1, <1>3, <1>4, <1>5

\* Where a file that is followed goes when one is rolled: it stays, or is a new one, or was
\* empty.
LEMMA RollFiles ==
  ASSUME VolumesSound, VolumeInv, LV!Roll, UNCHANGED <<now, period>>
  PROVE  /\ file' = -1 \/ (file' = cur' /\ empty') => newest' = -1
         /\ newest' = newest /\ cur <= cur' /\ cur' <= now
         /\ newest # -1 => file' = file
         /\ file' \notin {-1, cur'} => file' = file /\ file # -1
<1>1. cur' = LV!Lesser(now, rollAt) /\ empty' = (cur' = cur => empty) /\ newest' = newest
  BY DEF LV!Roll
<1>2. \/ file = -1 /\ cur' # cur /\ file' = cur'
      \/ file' = IF file = cur /\ empty /\ cur' # cur THEN -1 ELSE file
  BY DEF LV!Roll
<1>3. /\ cur \in Nat /\ now \in Nat /\ rollAt \in Nat /\ file \in Nat \cup {-1}
      /\ cur <= now /\ cur < rollAt /\ file <= cur
      /\ (file = -1 \/ (file = cur /\ empty)) => newest = -1
  BY DEF VolumeInv, VolumeTypes, FilesInv, FileTypes, LV!Ordered
<1>4. cur <= cur' /\ cur' <= now /\ cur' \in Nat
  BY <1>1, <1>3 DEF LV!Lesser
<1>5. CASE file = -1 /\ cur' # cur /\ file' = cur'
  BY <1>1, <1>3, <1>4, <1>5
<1>6. CASE file = cur /\ empty /\ cur' # cur /\ file' = -1
  BY <1>1, <1>3, <1>4, <1>6
<1>7. CASE ~(file = cur /\ empty /\ cur' # cur) /\ file' = file
  <2>1. file' = cur' => cur' = cur
    BY <1>3, <1>4, <1>7
  <2>2. file' = cur' /\ empty' => empty
    BY <1>1, <2>1
  <2> QED
    BY <1>1, <1>3, <1>4, <1>7, <2>1, <2>2
<1> QED
  BY <1>2, <1>5, <1>6, <1>7

\* A roll that is late by one leaves the consumer in time for the next, unless that is at
\* midnight.
LEMMA RollStaysTimely ==
  ASSUME VolumesSound, Prompt, VolumeInv, LV!Roll, UNCHANGED <<now, period>>, ~slept
  PROVE  now < rollAt' \/ (now < cur' + MaxGap /\ rollAt' % Day = 0)
<1>1. /\ cur \in Nat /\ now \in Nat /\ rollAt \in Nat /\ last \in Nat
      /\ now <= last + MaxGap
      /\ last < rollAt \/ (last < cur + MaxGap /\ rollAt % Day = 0)
  BY DEF VolumeInv, VolumeTypes, FilesInv, FileTypes, RollTimely, VolumesSound
<1>2. cur' = LV!Lesser(now, rollAt) /\ rollAt' = LV!RollTime(cur', period)
  BY DEF LV!Roll
<1>3. /\ period \in Nat \ {0} /\ 3 * MaxGap <= period /\ MaxGap \in Nat
      /\ cur < rollAt /\ 3 * MaxGap <= Day /\ Day \in Nat
  BY VolumeFacts DEF Prompt, VolumesSound
<1>4. CASE now < rollAt
  <2>1. cur' = now
    BY <1>1, <1>2, <1>4 DEF LV!Lesser
  <2> QED
    BY <1>1, <1>2, <1>3, <2>1, RollTimeAhead
<1>5. CASE ~(now < rollAt)
  <2>1. cur' = rollAt
    BY <1>1, <1>2, <1>5 DEF LV!Lesser
  <2>2. rollAt = LV!RollTime(cur, period)
    BY DEF VolumeInv, VolumeTypes
  <2>3. Boundary(rollAt, period)
    BY <1>1, <1>3, <2>2, RollTimeBound
  <2>4. rollAt' \in Nat /\ (rollAt' = rollAt + period \/ rollAt' % Day = 0)
    BY <1>1, <1>2, <1>3, <2>1, <2>3, RollTimeBound, RollTimeAhead
  <2>5. rollAt % Day = 0 => rollAt' = rollAt + period \/ rollAt' = rollAt + Day
    BY <1>1, <1>2, <1>3, <2>1, RollTimeBound
  <2>6. CASE last < rollAt
    <3>1. now < rollAt + MaxGap
      BY <1>1, <1>3, <2>6
    <3>2. rollAt' = rollAt + period => now < rollAt'
      BY <1>1, <1>3, <3>1
    <3> QED
      BY <2>1, <2>4, <3>1, <3>2
  <2>7. CASE last < cur + MaxGap /\ rollAt % Day = 0
    <3>1. now < rollAt + 2 * MaxGap
      BY <1>1, <1>3, <2>7
    <3>2. rollAt' = rollAt + period \/ rollAt' = rollAt + Day
      BY <2>5, <2>7
    <3> QED
      BY <1>1, <1>3, <3>1, <3>2
  <2> QED
    BY <1>1, <2>6, <2>7
<1> QED
  BY <1>4, <1>5

\* A roll keeps what is said of the state while the consumer is where it was, or has drained.
LEMMA RollKeeps ==
  ASSUME VolumesSound, Prompt, VolumeInv, step = "drain", LV!Roll,
         UNCHANGED <<now, period, purge, purgeAt, slept>>,
         \/ UNCHANGED <<last, step>>
         \/ last' = now /\ step' = "purge"
  PROVE  VolumeInv'
<1>1. FilesInv'
  BY RollOrders DEF VolumeInv
<1>2. /\ cur \in Nat /\ now \in Nat /\ rollAt \in Nat /\ last \in Nat /\ last <= now
      /\ file \in Nat \cup {-1} /\ newest \in Nat \cup {-1}
      /\ purge \in Nat /\ purgeAt \in Nat /\ period \in Periods
      /\ purge = 0 => purgeAt = 0
      /\ purge # 0 => purge >= 2 * period
      /\ (file = -1 \/ (file = cur /\ empty)) => newest = -1
  BY DEF VolumeInv, VolumeTypes, FilesInv, FileTypes
<1>3. /\ file' = -1 \/ (file' = cur' /\ empty') => newest' = -1
      /\ newest' = newest /\ cur <= cur' /\ cur' <= now
      /\ newest # -1 => file' = file
      /\ file' \notin {-1, cur'} => file' = file /\ file # -1
  BY RollFiles
<1>4. rollAt' = LV!RollTime(cur', period)
  BY DEF LV!Roll
<1>5. VolumeTypes'
  BY <1>2, <1>3, <1>4 DEF VolumeTypes
<1>6. /\ period \in Nat \ {0} /\ 3 * MaxGap <= period /\ MaxGap \in Nat /\ Day \in Nat
      /\ cur < rollAt /\ rollAt <= cur + period /\ Half \in Nat
      /\ purgeAt # 0 => purge >= 2 * period
  BY VolumeFacts DEF VolumesSound
<1>7. ~slept =>
        /\ now - last <= MaxGap
        /\ last < rollAt \/ last < cur + MaxGap
        /\ newest # -1 => newest <= file + period + MaxGap
  BY DEF VolumeInv, RollTimely
<1>8. RollTimely'
  <2> SUFFICES ASSUME ~slept PROVE
        /\ now - last' <= MaxGap
        /\ last' < rollAt' \/ (last' < cur' + MaxGap /\ rollAt' % Day = 0)
        /\ newest' # -1 => newest' <= file' + period + MaxGap
    BY DEF RollTimely
  <2>1. now < rollAt' \/ (now < cur' + MaxGap /\ rollAt' % Day = 0)
    BY RollStaysTimely
  <2>2. last' <= now /\ last' \in Nat /\ now - last' <= MaxGap
    BY <1>2, <1>6, <1>7
  <2>3. rollAt' \in Nat /\ cur' \in Nat
    BY <1>1 DEF FilesInv, FileTypes
  <2>4. newest' # -1 => newest' <= file' + period + MaxGap
    BY <1>3, <1>7
  <2>5. now < rollAt' => last' < rollAt'
    BY <1>2, <2>2, <2>3
  <2>7. now \in Nat /\ MaxGap \in Nat
    BY <1>2, <1>6
  <2>6. now < cur' + MaxGap => last' < cur' + MaxGap
    <3>1. PICK c \in Nat, l \in Nat : c = cur' /\ l = last'
      BY <2>2, <2>3
    <3>3. l <= now
      BY <2>2, <3>1
    <3>2. now < c + MaxGap => l < c + MaxGap
      BY <2>7, <3>3
    <3> QED
      BY <3>1, <3>2
  <2> QED
    BY <2>1, <2>2, <2>4, <2>5, <2>6
<1>9. PurgeTimely'
  <2> SUFFICES ASSUME ~slept, purgeAt # 0 PROVE PurgeTimely'
    BY DEF PurgeTimely
  <2>1. /\ purgeAt <= cur + purge + LV!Lesser(Day, Half)
        /\ Closed => purgeAt <= file + purge + LV!Lesser(Day, Half)
        /\ \/ last < purgeAt
           \/ last < purgeAt + MaxGap /\ Boundary(purgeAt, Half) /\ Recent(last, 2 * MaxGap)
           \/ last < purgeAt + 2 * MaxGap /\ purgeAt % Day = 0 /\ Recent(last, 2 * MaxGap)
    BY DEF VolumeInv, PurgeTimely
  <2>2. LV!Lesser(Day, Half) \in Nat /\ Half' = Half /\ LV!Lesser(Day, Half)' = LV!Lesser(Day, Half)
    BY <1>6 DEF LV!Lesser, Half
  <2>3. cur' \in Nat /\ purgeAt <= cur' + purge + LV!Lesser(Day, Half)
    BY <1>1, <1>2, <1>3, <2>1, <2>2 DEF FilesInv, FileTypes
  <2>4. last < cur + purge + 2 * MaxGap
    BY <1>2, <1>6, <1>7
  <2>5. ASSUME Closed' PROVE file' = file /\ file \in Nat /\ (Closed \/ file = cur)
    BY <1>2, <1>3, <2>5 DEF Closed
  <2>6. Closed' => purgeAt <= file' + purge + LV!Lesser(Day, Half)
    BY <2>1, <2>5
  <2>7. Recent(last, 2 * MaxGap) => (Closed' => last < file' + purge + 2 * MaxGap)
    BY <2>4, <2>5 DEF Recent
  <2>8. CASE UNCHANGED <<last, step>>
    <3>2. step' = "drain" /\ last' = last /\ purgeAt' = purgeAt /\ purge' = purge /\ Half' = Half
      BY <2>2, <2>8
    <3>1. Recent(last, 2 * MaxGap) => (Closed' => last' < file' + purge' + 2 * MaxGap)
      BY <2>7, <3>2
    <3>4. Recent(last, 2 * MaxGap) => (Recent(last, 2 * MaxGap))'
      BY <3>1 DEF Recent
    <3>3. Boundary(purgeAt, Half) => Boundary(purgeAt, Half)'
      BY <3>2 DEF Boundary
    <3>5. \/ last' < purgeAt'
          \/ last' < purgeAt' + MaxGap /\ Boundary(purgeAt, Half)' /\ Recent(last, 2 * MaxGap)'
          \/ last' < purgeAt' + 2 * MaxGap /\ purgeAt' % Day = 0 /\ Recent(last, 2 * MaxGap)'
      BY <2>1, <3>2, <3>3, <3>4
    <3> HIDE DEF Closed, Half, Recent, Boundary
    <3> QED
      BY <2>2, <2>3, <2>6, <3>2, <3>5 DEF PurgeTimely
  <2>9. CASE last' = now /\ step' = "purge"
    <3>3. now <= last + MaxGap /\ now \in Nat /\ last \in Nat /\ MaxGap \in Nat /\ purge \in Nat
      BY <1>2, <1>6, <1>7
    <3>4. ASSUME Recent(last, 2 * MaxGap), Closed' PROVE now < file' + purge + 3 * MaxGap
      <4>1. last < file' + purge + 2 * MaxGap /\ file' \in Nat
        BY <2>5, <2>7, <3>4
      <4>2. PICK f \in Nat : f = file'
        BY <4>1
      <4>4. last < f + purge + 2 * MaxGap
        BY <4>1, <4>2
      <4>3. now < f + purge + 3 * MaxGap
        BY <3>3, <4>4
      <4> QED
        BY <4>2, <4>3
    <3>1. Recent(last, 2 * MaxGap) => Recent(now, 3 * MaxGap)'
      BY <3>4 DEF Recent
    <3>2. /\ last < purgeAt => now < purgeAt + MaxGap
          /\ last < purgeAt + MaxGap => now < purgeAt + 2 * MaxGap
          /\ last < purgeAt + 2 * MaxGap => now < purgeAt + 3 * MaxGap
      BY <1>2, <1>6, <1>7, <3>3
    <3>5. /\ purgeAt' = purgeAt /\ purge' = purge /\ now' = now /\ Half' = Half
          /\ Boundary(purgeAt', Half') <=> Boundary(purgeAt, Half)
      BY <2>2
    <3> HIDE DEF Closed, Half, Recent, Boundary
    <3> QED
      BY <2>1, <2>2, <2>3, <2>6, <2>9, <3>1, <3>2 DEF PurgeTimely
  <2> QED
    BY <2>8, <2>9
<1> QED
  BY <1>1, <1>5, <1>8, <1>9 DEF VolumeInv

LEMMA PurgeKeepsTypes == ASSUME VolumesSound, VolumeInv, LV!Purge
                         PROVE FilesInv' /\ VolumeTypes' /\ RollTimely'
<1>1. FilesInv'
  BY FilesStep DEF VolumeInv, LV!Next
<1>2. /\ UNCHANGED <<now, last, period, purge, rollAt, cur, empty, slept>> /\ step' = "drain"
      /\ (file' = file /\ newest' = newest) \/ (file' = -1 /\ newest' = -1)
  BY Zenon DEF LV!Purge
<1>3. purgeAt' \in Nat /\ (purge = 0 => purgeAt' = 0)
  <2>1. purgeAt \in Nat /\ now \in Nat /\ purge \in Nat /\ (purge = 0 => purgeAt = 0)
    BY DEF VolumeInv, VolumeTypes, FilesInv, FileTypes
  <2>2. CASE purgeAt = 0 \/ now < purgeAt
    BY <2>1, <2>2 DEF LV!Purge
  <2>3. CASE ~(purgeAt = 0 \/ now < purgeAt)
    <3>1. purgeAt' = LV!RollTime(LV!Lesser(now, purgeAt), purge \div 2) /\ purge # 0
      BY <2>1, <2>3 DEF LV!Purge
    <3>2. LV!Lesser(now, purgeAt) \in Nat /\ purge \div 2 \in Nat
      BY <2>1, HalfIs DEF LV!Lesser
    <3> QED
      BY <3>1, <3>2, RollTimeAhead
  <2> QED
    BY <2>2, <2>3
<1>4. VolumeTypes /\ RollTimely
  BY DEF VolumeInv
<1>5. VolumeTypes'
  BY <1>2, <1>3, <1>4 DEF VolumeTypes
<1>6. RollTimely'
  <2>1. newest' # -1 => newest' = newest /\ file' = file
    BY <1>2
  <2> QED
    BY <1>2, <1>4, <2>1 DEF RollTimely
<1> QED
  BY <1>1, <1>5, <1>6

\* A purge that is late leaves the consumer less late for the next.
LEMMA PurgeStaysTimely == ASSUME VolumesSound, Prompt, VolumeInv, LV!Purge PROVE PurgeTimely'
<1> SUFFICES ASSUME ~slept, purgeAt' # 0 PROVE PurgeTimely'
  BY DEF PurgeTimely, LV!Purge
<1>1. /\ now \in Nat /\ purge \in Nat /\ purgeAt \in Nat /\ last = now /\ cur \in Nat
      /\ file \in Nat \cup {-1} /\ step = "purge"
      /\ last < rollAt \/ last < cur + MaxGap
  BY DEF VolumeInv, VolumeTypes, FilesInv, FileTypes, RollTimely, LV!Purge
<1>2. /\ period \in Nat \ {0} /\ 3 * MaxGap <= period /\ MaxGap \in Nat
      /\ 3 * MaxGap <= Day /\ Day \in Nat /\ rollAt <= cur + period /\ Half \in Nat
      /\ rollAt \in Nat
      /\ purgeAt # 0 => purge >= 2 * period /\ period <= Half /\ Half \in Nat \ {0}
  BY VolumeFacts DEF VolumesSound, Prompt, VolumeInv, FilesInv, FileTypes
<1>3. /\ UNCHANGED <<now, last, period, purge, rollAt, cur, empty, slept>> /\ step' = "drain"
      /\ Half' = Half
  BY DEF LV!Purge, Half
<1>4. LV!Lesser(Day, Half) \in Nat /\ LV!Lesser(Day, Half)' = LV!Lesser(Day, Half)
      /\ LV!Lesser(Day, Half) <= Day /\ LV!Lesser(Day, Half) <= Half
      /\ (LV!Lesser(Day, Half) = Day \/ LV!Lesser(Day, Half) = Half)
  BY <1>2, <1>3 DEF LV!Lesser
<1>5. purgeAt # 0
  BY DEF LV!Purge
<1>6. /\ purgeAt <= cur + purge + LV!Lesser(Day, Half)
      /\ Closed => purgeAt <= file + purge + LV!Lesser(Day, Half)
      /\ \/ now < purgeAt + MaxGap
         \/ now < purgeAt + 2 * MaxGap /\ Boundary(purgeAt, Half)
         \/ now < purgeAt + 3 * MaxGap /\ purgeAt % Day = 0
  BY <1>1, <1>5 DEF VolumeInv, PurgeTimely
<1>7. CASE now < purgeAt
  <2>1. UNCHANGED <<purgeAt, file>>
    BY <1>7 DEF LV!Purge
  <2>2. (Closed <=> Closed') /\ purgeAt' = purgeAt /\ last' < purgeAt'
    BY <1>1, <1>3, <1>7, <2>1 DEF Closed
  <2> HIDE DEF Closed, Half
  <2> QED
    BY <1>3, <1>4, <1>6, <2>1, <2>2 DEF PurgeTimely
<1>8. CASE ~(now < purgeAt)
  <2>1. /\ LV!Lesser(now, purgeAt) = purgeAt /\ purgeAt <= now
        /\ purgeAt' = LV!RollTime(LV!Lesser(now, purgeAt), Half)
        /\ file' = IF LV!Expired(LV!Lesser(now, purgeAt)) THEN -1 ELSE file
    BY <1>1, <1>5, <1>8 DEF LV!Purge, LV!Lesser, Half
  <2>2. PICK next \in Nat : next = LV!RollTime(purgeAt, Half)
    BY <1>1, <1>2, <1>5, RollTimeAhead
  <2>3. /\ purgeAt < next /\ next <= purgeAt + Half /\ next <= purgeAt + Day /\ Boundary(next, Half)
        /\ Boundary(purgeAt, Half) => next = purgeAt + Half \/ next % Day = 0
        /\ purgeAt % Day = 0 => next = purgeAt + Half \/ next = purgeAt + Day
    BY <1>1, <1>2, <1>5, <2>2, RollTimeAhead, RollTimeBound
  <2>4. purgeAt <= cur + purge
    BY <1>1, <1>2, <1>5, <2>1
  <2>5. purgeAt' = next
    BY <2>1, <2>2
  <2>6. ASSUME Closed' PROVE file' = file /\ file \in Nat /\ purgeAt <= file + purge
    <3>1. file' # -1 /\ file' # cur /\ file' = file /\ ~LV!Expired(purgeAt)
      BY <1>3, <2>1, <2>6 DEF Closed
    <3>2. file \in Nat /\ ~(file < purgeAt - purge)
      BY <1>1, <3>1 DEF LV!Expired
    <3> QED
      BY <1>1, <3>1, <3>2
  <2>7. next <= cur + purge + LV!Lesser(Day, Half)
    BY <1>1, <1>4, <2>3, <2>4
  <2>8. Closed' => next <= file' + purge + LV!Lesser(Day, Half)
    <3>1. ASSUME file \in Nat, purgeAt <= file + purge
          PROVE next <= file + purge + LV!Lesser(Day, Half)
      BY <1>1, <1>4, <2>3, <3>1
    <3> QED
      BY <2>6, <3>1
  <2>9. now < purgeAt + 2 * MaxGap => (Recent(now, 2 * MaxGap))'
    <3>1. ASSUME now < purgeAt + 2 * MaxGap, file \in Nat, purgeAt <= file + purge
          PROVE  now < file + purge + 2 * MaxGap
      BY <1>1, <1>2, <3>1
    <3> QED
      BY <1>3, <2>6, <3>1 DEF Recent
  <2>10. \/ now < next
         \/ now < next + MaxGap /\ Boundary(next, Half) /\ (Recent(now, 2 * MaxGap))'
         \/ now < next + 2 * MaxGap /\ next % Day = 0 /\ (Recent(now, 2 * MaxGap))'
    <3>1. CASE now < purgeAt + MaxGap
      <4>1. now < purgeAt + 2 * MaxGap /\ now < next + MaxGap
        BY <1>1, <1>2, <2>3, <3>1
      <4> QED
        BY <2>3, <2>9, <4>1
    <3>2. CASE now < purgeAt + 2 * MaxGap /\ Boundary(purgeAt, Half)
      <4>1. next = purgeAt + Half => now < next
        BY <1>1, <1>2, <1>5, <3>2
      <4>2. now < next + 2 * MaxGap
        BY <1>1, <1>2, <2>3, <3>2
      <4> QED
        BY <2>3, <2>9, <3>2, <4>1, <4>2
    <3>3. CASE now < purgeAt + 3 * MaxGap /\ purgeAt % Day = 0
      <4>1. next = purgeAt + Half => now < next
        BY <1>1, <1>2, <1>5, <3>3
      <4>2. next = purgeAt + Day => now < next
        BY <1>1, <1>2, <3>3
      <4> QED
        BY <2>3, <3>3, <4>1, <4>2
    <3> QED
      BY <1>6, <3>1, <3>2, <3>3
  <2>11. last' = now /\ now' = now
    BY <1>1, <1>3
  <2> HIDE DEF Closed, Half, Recent, Boundary
  <2>12. /\ Boundary(next, Half) => (Boundary(purgeAt, Half))'
         /\ (Recent(now, 2 * MaxGap))' => (Recent(last, 2 * MaxGap))'
    BY <1>3, <2>5, <2>11 DEF Boundary, Recent
  <2>13. \/ last' < purgeAt'
         \/ last' < purgeAt' + MaxGap /\ (Boundary(purgeAt, Half))' /\ (Recent(last, 2 * MaxGap))'
         \/ last' < purgeAt' + 2 * MaxGap /\ purgeAt' % Day = 0 /\ (Recent(last, 2 * MaxGap))'
    BY <2>5, <2>10, <2>11, <2>12
  <2> QED
    BY <1>3, <1>4, <2>5, <2>7, <2>8, <2>13 DEF PurgeTimely
<1> QED
  BY <1>7, <1>8

LEMMA VolumeStep == ASSUME VolumesSound, Prompt, VolumeInv, [LV!Next]_(LV!vars) PROVE VolumeInv'
<1>1. FilesInv'
  BY FilesStep DEF VolumeInv
<1>2. /\ cur \in Nat /\ now \in Nat /\ rollAt \in Nat /\ last \in Nat /\ last <= now
      /\ file \in Nat \cup {-1} /\ MaxGap \in Nat
  BY DEF VolumeInv, VolumeTypes, FilesInv, FileTypes, VolumesSound
<1>3. CASE LV!Tick
  <2>1. step = "drain" /\ now' = now + 1 /\ now' <= last + MaxGap
    BY <1>2, <1>3 DEF LV!Tick
  <2>2. UNCHANGED <<last, period, purge, rollAt, purgeAt, cur, empty, step, file, newest, slept>>
    BY <1>3 DEF LV!Tick
  <2>3. VolumeTypes'
    BY <1>2, <2>1, <2>2 DEF VolumeInv, VolumeTypes
  <2>4. RollTimely'
    BY <1>2, <2>1, <2>2 DEF VolumeInv, RollTimely
  <2>5. PurgeTimely'
    BY <2>1, <2>2 DEF VolumeInv, PurgeTimely, Closed, Half, Boundary, Recent
  <2> QED
    BY <1>1, <2>3, <2>4, <2>5 DEF VolumeInv
<1>4. CASE LV!Sleep
  <2>1. step = "drain" /\ slept' = TRUE /\ now <= now'
    BY <1>2, <1>4 DEF LV!Sleep, VolumesSound
  <2>2. UNCHANGED <<last, period, purge, rollAt, purgeAt, cur, empty, step, file, newest>>
    BY <1>4 DEF LV!Sleep
  <2>3. now' \in Nat
    BY <1>1 DEF FilesInv, FileTypes
  <2>4. VolumeTypes'
    BY <1>2, <2>1, <2>2, <2>3 DEF VolumeInv, VolumeTypes
  <2> QED
    BY <1>1, <2>1, <2>4 DEF VolumeInv, RollTimely, PurgeTimely
<1>5. CASE LV!Line
  <2>1. /\ UNCHANGED <<now, last, period, purge, rollAt, purgeAt, cur, step, file, slept>>
        /\ empty' = FALSE /\ newest' = IF file = cur THEN now ELSE newest
    BY <1>5 DEF LV!Line
  <2>2. newest' \in Nat \cup {-1} /\ (file' = -1 => newest' = -1)
    BY <1>2, <2>1 DEF VolumeInv, VolumeTypes
  <2>3. VolumeTypes'
    BY <2>1, <2>2 DEF VolumeInv, VolumeTypes
  <2>4. ~slept => now <= cur + period + MaxGap
    <3>1. period \in Nat /\ 3 * MaxGap <= period /\ rollAt <= cur + period
      BY VolumeFacts
    <3>2. ~slept => now <= last + MaxGap /\ (last < rollAt \/ last < cur + MaxGap)
      BY <1>2 DEF VolumeInv, RollTimely
    <3> QED
      BY <1>2, <3>1, <3>2
  <2>5. ~slept /\ newest' # -1 => newest' <= file + period + MaxGap
    BY <2>1, <2>4 DEF VolumeInv, RollTimely
  <2>6. RollTimely'
    BY <2>1, <2>5 DEF VolumeInv, RollTimely
  <2>7. PurgeTimely'
    BY <2>1 DEF VolumeInv, PurgeTimely, Closed, Half, Boundary, Recent
  <2> QED
    BY <1>1, <2>3, <2>6, <2>7 DEF VolumeInv
<1>6. CASE LV!Check
  BY <1>6, RollKeeps DEF LV!Check
<1>7. CASE LV!EndDrain
  <2>1. CASE LV!Roll
    BY <1>7, <2>1, RollKeeps DEF LV!EndDrain
  <2>2. CASE ~LV!Due /\ UNCHANGED <<cur, rollAt, empty, file, newest>>
    <3>1. step = "drain" /\ step' = "purge" /\ last' = now /\ now < rollAt
          /\ UNCHANGED <<now, period, purge, purgeAt, slept>>
      BY <1>2, <1>7, <2>2 DEF LV!EndDrain, LV!Due
    <3>2. VolumeTypes'
      BY <1>2, <2>2, <3>1 DEF VolumeInv, VolumeTypes
    <3>3. RollTimely'
      BY <1>2, <2>2, <3>1 DEF VolumeInv, RollTimely
    <3>4. PurgeTimely'
      <4> SUFFICES ASSUME ~slept, purgeAt # 0 PROVE PurgeTimely'
        BY <3>1 DEF PurgeTimely
      <4>1. purge \in Nat /\ purgeAt \in Nat /\ now <= last + MaxGap
        BY <1>2 DEF VolumeInv, VolumeTypes, RollTimely
      <4>2. /\ last < purgeAt => now < purgeAt + MaxGap
            /\ last < purgeAt + MaxGap => now < purgeAt + 2 * MaxGap
            /\ last < purgeAt + 2 * MaxGap => now < purgeAt + 3 * MaxGap
        BY <1>2, <4>1
      <4>3. Recent(last, 2 * MaxGap) => Recent(now, 3 * MaxGap)
        BY <1>2, <4>1 DEF Recent, Closed
      <4>4. /\ purgeAt <= cur + purge + LV!Lesser(Day, Half)
            /\ Closed => purgeAt <= file + purge + LV!Lesser(Day, Half)
            /\ \/ now < purgeAt + MaxGap
               \/ now < purgeAt + 2 * MaxGap /\ Boundary(purgeAt, Half) /\ Recent(now, 3 * MaxGap)
               \/ now < purgeAt + 3 * MaxGap /\ purgeAt % Day = 0 /\ Recent(now, 3 * MaxGap)
        BY <3>1, <4>2, <4>3 DEF VolumeInv, PurgeTimely
      <4> QED
        BY <2>2, <3>1, <4>4 DEF PurgeTimely, Closed, Half, Boundary, Recent
    <3> QED
      BY <1>1, <3>2, <3>3, <3>4 DEF VolumeInv
  <2> QED
    BY <1>7, <2>1, <2>2 DEF LV!EndDrain
<1>8. CASE LV!Purge
  BY <1>8, PurgeKeepsTypes, PurgeStaysTimely DEF VolumeInv
<1>9. CASE UNCHANGED LV!vars
  BY <1>1, <1>9 DEF LV!vars, VolumeInv, VolumeTypes, RollTimely, PurgeTimely, Closed, Half,
     Boundary, Recent
<1> QED
  BY <1>3, <1>4, <1>5, <1>6, <1>7, <1>8, <1>9 DEF LV!Next

\* An old file is gone in time, from the invariant.
LEMMA PurgedFromInv == ASSUME VolumesSound, Prompt, VolumeInv PROVE LV!PurgedInTime
<1> SUFFICES ASSUME purgeAt # 0, Closed, ~slept
             PROVE  now - file <= purge + LV!Lesser(Day, Half + 1) + MaxGap
  BY DEF LV!PurgedInTime, Closed, Half
<1>1. /\ now \in Nat /\ last \in Nat /\ purge \in Nat /\ purgeAt \in Nat /\ file \in Nat
      /\ now <= last + MaxGap /\ (step = "purge" => last = now) /\ step \in {"drain", "purge"}
  BY DEF VolumeInv, VolumeTypes, FilesInv, FileTypes, Closed, RollTimely, VolumesSound
<1>2. /\ MaxGap \in Nat /\ 3 * MaxGap <= Half /\ Half \in Nat /\ Day \in Nat /\ 3 * MaxGap <= Day
  BY VolumeFacts DEF VolumesSound, Prompt
<1> HIDE DEF Half
<1>3. /\ LV!Lesser(Day, Half + 1) \in Nat /\ LV!Lesser(Day, Half) \in Nat
      /\ LV!Lesser(Day, Half) <= LV!Lesser(Day, Half + 1) /\ 3 * MaxGap <= LV!Lesser(Day, Half + 1)
  BY <1>2 DEF LV!Lesser
<1>4. purgeAt <= file + purge + LV!Lesser(Day, Half)
  BY DEF VolumeInv, PurgeTimely
<1>5. \/ now < purgeAt + MaxGap \/ now <= purgeAt + MaxGap
      \/ now < file + purge + 3 * MaxGap
  <2>1. CASE step = "drain"
    <3>1. last < purgeAt \/ last < file + purge + 2 * MaxGap
      BY <2>1 DEF VolumeInv, PurgeTimely, Recent
    <3> QED
      BY <1>1, <1>2, <3>1
  <2>2. CASE step = "purge"
    BY <2>2 DEF VolumeInv, PurgeTimely, Recent
  <2> QED
    BY <1>1, <2>1, <2>2
<1> QED
  BY <1>1, <1>2, <1>3, <1>4, <1>5

\* A file goes when it was empty, or has expired.
LEMMA RemovedWhenOld ==
  ASSUME VolumesSound, Prompt, VolumeInv, LV!Next, file' = -1, newest # -1, ~slept
  PROVE  now - newest > purge - (period + MaxGap)
<1>1. file \in Nat /\ file # -1
  BY DEF VolumeInv, VolumeTypes, FilesInv, FileTypes
<1>2. ~LV!Roll \/ ~UNCHANGED <<now, period>>
  BY <1>1, RollFiles
<1>3. LV!Purge
  BY <1>1, <1>2 DEF LV!Next, LV!Tick, LV!Sleep, LV!Line, LV!Check, LV!EndDrain
<1>4. now \in Nat /\ purgeAt \in Nat /\ purge \in Nat /\ newest \in Nat /\ period \in Nat
      /\ MaxGap \in Nat
  BY DEF VolumeInv, VolumeTypes, FilesInv, FileTypes, VolumesSound
<1>5. LV!Lesser(now, purgeAt) <= now /\ LV!Lesser(now, purgeAt) \in Nat
  BY <1>4 DEF LV!Lesser
<1>6. file < LV!Lesser(now, purgeAt) - purge
  BY <1>1, <1>3 DEF LV!Purge, LV!Expired
<1>7. newest <= file + period + MaxGap
  BY DEF VolumeInv, RollTimely
<1> QED
  BY <1>1, <1>4, <1>5, <1>6, <1>7

\* The consumer is never more than one roll or two purges behind, as long as its turns are no
\* further apart than a third of the shortest period.
THEOREM VolumesHold == ASSUME VolumesSound, Prompt PROVE LV!Spec => []VolumeInv
  BY VolumeInit, VolumeStep, PTL DEF LV!Spec

\* While the consumer takes its turns, a line stays for the purge period, less the time its
\* file is written to and the gap between two turns: whatever rolls and purges fall together,
\* no file is removed early.
THEOREM LinesAreKept == ASSUME VolumesSound, Prompt PROVE LV!Spec => LV!LinesKept
<1>1. VolumeInv /\ [LV!Next]_(LV!vars) =>
        [(file' = -1 /\ newest # -1 /\ ~slept) =>
            now - newest > purge - (period + MaxGap)]_(LV!vars)
  BY RemovedWhenOld
<1> QED
  BY <1>1, VolumesHold, PTL DEF LV!Spec, LV!LinesKept

\* And an old file is gone half a purge period, or a day, after it may go.
THEOREM OldFilesGo == ASSUME VolumesSound, Prompt PROVE LV!Spec => []LV!PurgedInTime
  BY PurgedFromInv, VolumesHold, PTL

\* The clock, and what is told by it.
ClockTypes ==
  /\ now <= MaxNow /\ (newest = -1 \/ newest <= now)
  /\ empty \in BOOLEAN /\ slept \in BOOLEAN

LEMMA ClockInit == ASSUME VolumesSound, LV!Init PROVE ClockTypes
<1>1. now \in 1 .. Day /\ newest = -1 /\ empty = TRUE /\ slept = FALSE
  BY DEF LV!Init
<1>2. Day \in Nat /\ Day <= MaxNow /\ MaxNow \in Nat
  BY DEF VolumesSound
<1>3. empty \in BOOLEAN /\ slept \in BOOLEAN
  BY <1>1, Zenon
<1>4. now <= MaxNow /\ newest = -1
  BY <1>1, <1>2
<1> QED
  BY <1>3, <1>4, Zenon DEF ClockTypes

LEMMA ClockStep ==
  ASSUME VolumesSound, VolumeInv, ClockTypes, [LV!Next]_(LV!vars)
  PROVE  ClockTypes'
<1>1. /\ now \in Nat /\ last \in Nat /\ MaxNow \in Nat /\ MaxGap \in Nat /\ MaxSleep \in Nat
      /\ newest \in Nat \cup {-1} /\ now <= MaxNow /\ (newest = -1 \/ newest <= now)
      /\ empty \in BOOLEAN /\ slept \in BOOLEAN
  BY DEF VolumesSound, VolumeInv, FilesInv, FileTypes, VolumeTypes, ClockTypes
<1>2. CASE LV!Tick \/ LV!Sleep \/ LV!Line
  <2>1. CASE LV!Tick
    BY <1>1, <2>1 DEF LV!Tick, ClockTypes
  <2>2. CASE LV!Sleep
    <3>1. PICK n \in MaxGap + 1 .. MaxSleep : now + n <= MaxNow /\ now' = now + n
      BY <2>2 DEF LV!Sleep
    <3>2. newest' = newest
      BY <2>2 DEF LV!Sleep
    <3>3. slept' = TRUE /\ empty' = empty
      BY <2>2 DEF LV!Sleep
    <3>4. slept' \in BOOLEAN /\ empty' \in BOOLEAN
      BY <1>1, <3>3, Zenon
    <3>5. n \in Int /\ n > 0
      BY <1>1
    <3>6. now' <= MaxNow /\ (newest' = -1 \/ newest' <= now')
      BY <1>1, <3>1, <3>2, <3>5
    <3> QED
      BY <3>4, <3>6 DEF ClockTypes
  <2>3. CASE LV!Line
    <3>1. now' = now /\ newest' \in {now, newest}
      BY <2>3 DEF LV!Line
    <3>2. empty' = FALSE /\ slept' = slept
      BY <2>3 DEF LV!Line
    <3>3. slept' \in BOOLEAN /\ empty' \in BOOLEAN
      BY <1>1, <3>2, Zenon
    <3>4. now' <= MaxNow /\ (newest' = -1 \/ newest' <= now')
      BY <1>1, <3>1
    <3> QED
      BY <3>3, <3>4 DEF ClockTypes
  <2> QED
    BY <1>2, <2>1, <2>2, <2>3
<1>3. CASE LV!Check \/ LV!EndDrain
  BY <1>1, <1>3 DEF LV!Check, LV!EndDrain, LV!Roll, ClockTypes
<1>4. CASE LV!Purge
  BY <1>1, <1>4 DEF LV!Purge, ClockTypes
<1>5. CASE UNCHANGED LV!vars
  BY <1>1, <1>5 DEF LV!vars, ClockTypes
<1> QED
  BY <1>2, <1>3, <1>4, <1>5 DEF LV!Next

LEMMA VolumesTyped == ASSUME VolumesSound, VolumeInv, ClockTypes PROVE LV!TypeOK
BY DEF VolumesSound, VolumeInv, FilesInv, FileTypes, VolumeTypes, ClockTypes, LV!Ordered,
   LV!TypeOK, LV!Times

-----------------------------------------------------------------------------
(* Entries: what config() replaces while workers use it.                   *)

\* Argument vectors are numbered by the entries read, and their copies.
Used(v) == v \in 0 .. read \/ v \in MaxRead + 1 .. MaxRead + read
Mid == {"swap", "move", "delete", "null", "free"}

\* The reader of the file: what it adds is not there yet, what it replaces is.
MainTypes ==
  /\ copying \in {"own", "shared"} /\ reader \in Readers
  /\ mpc \in {"idle", "next", "add"} \cup Mid
  /\ entry = [svc |-> entry.svc, args |-> entry.args, own |-> entry.own, list |-> entry.list]
  /\ entry.svc \in Hosts \cup {Nil} /\ entry.args \in Nat /\ entry.own \in BOOLEAN
  /\ entry.list \in Nat
  /\ read \in 0 .. MaxRead
  /\ seen \subseteq present /\ present \subseteq Hosts
  /\ mpc = "add" => entry.svc \in Hosts \ present
  /\ mpc \in Mid => entry.svc \in present
\* Argument vectors.
ArgTypes ==
  /\ args \in [Hosts -> Nat] /\ own \in [Hosts -> BOOLEAN] /\ heap \subseteq Nat
  /\ Used(entry.args) /\ (\A v \in heap : Used(v)) /\ \A s \in Hosts : Used(args[s])
\* Rules: no two services share a table.
RuleTypes ==
  /\ list \in [Hosts -> Nat] /\ built \in Seq(Nat)
  /\ table \in [Hosts -> 0 .. Len(built)] /\ tables \subseteq 1 .. Len(built)
  /\ \A s, t \in Hosts : s # t /\ table[s] # 0 => table[s] # table[t]
\* Workers: a service one is at stays, and the builder of a table has the lock.
WorkTypes ==
  /\ wpc \in [Workers -> {"idle", "lock", "build", "table", "search", "fork", "copy"}]
  /\ wsvc \in [Workers -> Hosts \cup {Nil}] /\ wheld \in [Workers -> Nat]
  /\ quiet \in [Hosts -> BOOLEAN]
  /\ \A w \in Workers : /\ wpc[w] # "idle" => wsvc[w] \in present
                        /\ wpc[w] = "build" => lock = w
\* Arguments that are a service's own are allocated, and nobody else's, the entry in hand's
\* among them; with copies of their own every service has that.
ArgsKept ==
  /\ \A s \in present : own[s] /\ args[s] # 0 =>
       /\ args[s] \in heap /\ entry.args # args[s]
       /\ \A t \in present \ {s} : args[t] # args[s]
  /\ mpc \in {"add", "swap"} =>
       /\ entry.own
       /\ entry.args # 0 => entry.args \in heap /\ \A s \in present : args[s] # entry.args
       /\ entry.args # 0 => /\ entry.args + MaxRead \notin heap /\ entry.args <= MaxRead
                            /\ \A s \in present : args[s] # entry.args + MaxRead
  /\ copying = "own" =>
       /\ entry.own /\ \A s \in present : own[s]
       /\ entry.args # 0 => entry.args \in heap
\* While a service is quiet, that is not replaced under a worker's hands, what a worker holds is
\* still what the service has, and the service's table is of its list.
Undisturbed ==
  /\ mpc \in {"move", "delete", "null", "free"} /\ quiet[entry.svc] => ~EN!Busy(entry.svc)
  /\ \A w \in Workers : wpc[w] # "idle" /\ quiet[wsvc[w]] =>
       /\ wpc[w] = "build" => wheld[w] = list[wsvc[w]] /\ table[wsvc[w]] = 0
       /\ wpc[w] = "table" => table[wsvc[w]] # 0
       /\ wpc[w] = "search" => wheld[w] = table[wsvc[w]] /\ wheld[w] # 0
       /\ wpc[w] = "copy" => wheld[w] = args[wsvc[w]]
  /\ mpc = "free" /\ quiet[entry.svc] => table[entry.svc] = 0
  /\ \A s \in present : quiet[s] /\ ~EN!Replacing(s) /\ table[s] # 0 =>
       table[s] \in tables /\ built[table[s]] = list[s]
\* What goes wrong is blamed on shared arguments or on a reload under a worker's hands.
Blamed ==
  \/ bad = <<>>
  \/ \E s \in Hosts \cup {Nil} :
       \/ bad = <<"twice", s>> /\ copying = "shared"
       \/ s \in present /\ bad = <<"args", s>> /\ (~own[s] \/ ~quiet[s])
       \/ s \in present /\ bad \in {<<"list", s>>, <<"rules", s>>} /\ ~quiet[s]
\* The inductive invariant of Entries.
EntriesInv == MainTypes /\ ArgTypes /\ RuleTypes /\ WorkTypes /\ ArgsKept /\ Undisturbed /\ Blamed

LEMMA ConfigKeeps ==
  ASSUME EntriesSound, EntriesInv, bad = <<>>, UNCHANGED EN!fixedVars, EN!Config
  PROVE  EntriesInv'
<1> USE DEF EntriesSound, Used, Mid, EN!mainVars, EN!argVars, EN!ruleVars, EN!workVars,
   EN!fixedVars, EntriesInv
<1> USE DEF EN!Config, EN!Busy, EN!Replacing, EN!Freed, EN!Damage
<1> USE DEF MainTypes, ArgTypes, RuleTypes, WorkTypes, ArgsKept, Undisturbed, Blamed
<1>1. MainTypes'
  OBVIOUS
<1>2. ArgTypes'
  OBVIOUS
<1>3. RuleTypes'
  OBVIOUS
<1>4. WorkTypes'
  OBVIOUS
<1>5. ArgsKept'
  OBVIOUS
<1>6. Undisturbed'
  OBVIOUS
<1>7. Blamed'
  OBVIOUS
<1> HIDE DEF MainTypes, ArgTypes, RuleTypes, WorkTypes, ArgsKept, Undisturbed, Blamed
<1> QED
  BY <1>1, <1>2, <1>3, <1>4, <1>5, <1>6, <1>7

LEMMA NextEntryKeeps ==
  ASSUME EntriesSound, EntriesInv, bad = <<>>, UNCHANGED EN!fixedVars, EN!NextEntry
  PROVE  EntriesInv'
<1> USE DEF EntriesSound, Used, Mid, EN!mainVars, EN!argVars, EN!ruleVars, EN!workVars,
   EN!fixedVars, EntriesInv
<1>1. ArgTypes'
  <2>1. PICK argc \in {0, 1} :
          entry'.args = argc * (read + 1) /\
          heap' = EN!Freed(entry.args) \cup ({argc * (read + 1)} \ {0})
    BY DEF EN!NextEntry
  <2>2. PICK v \in Nat : v = argc * (read + 1) /\ v \in 0 .. read + 1
    BY <2>1 DEF MainTypes
  <2>3. /\ entry'.args = v /\ heap' \subseteq heap \cup {v} /\ read' = read + 1 /\ read \in Nat
        /\ UNCHANGED <<args, own>>
    BY <2>1, <2>2 DEF EN!NextEntry, EN!Freed, MainTypes
  <2>4. \A x \in Nat : Used(x) => Used(x)'
    BY <2>3 DEF Used
  <2>5. Used(v)'
    BY <2>2, <2>3 DEF Used
  <2>6. heap' \subseteq Nat /\ \A x \in heap' : Used(x)'
    BY <2>2, <2>3, <2>4, <2>5 DEF ArgTypes
  <2>7. \A t \in Hosts : Used(args[t])'
    BY <2>3, <2>4 DEF ArgTypes
  <2>8. Used(entry.args)'
    BY <2>3, <2>5 DEF Used
  <2> QED
    BY <2>3, <2>6, <2>7, <2>8 DEF ArgTypes
<1>2. ArgsKept'
  <2>1. PICK argc \in {0, 1} : /\ entry'.args = argc * (read + 1) /\ entry'.own = TRUE
                               /\ heap' = EN!Freed(entry.args) \cup ({argc * (read + 1)} \ {0})
    BY DEF EN!NextEntry
  <2>2. PICK v \in Nat : v = argc * (read + 1) /\ v \in {0, read + 1}
    BY <2>1 DEF MainTypes
  <2>3. /\ entry'.args = v /\ entry'.own = TRUE /\ heap' = (heap \ {entry.args}) \cup ({v} \ {0})
        /\ UNCHANGED <<args, own, present, copying>> /\ read \in 0 .. MaxRead - 1
    BY <2>1, <2>2 DEF EN!NextEntry, EN!Freed, MainTypes
  <2>4. v # 0 => ~Used(v) /\ ~Used(v + MaxRead) /\ v <= MaxRead /\ v + MaxRead # v
    BY <2>2, <2>3 DEF Used
  <2>5. \A t \in Hosts : v # 0 => args[t] # v /\ args[t] # v + MaxRead
    BY <2>4 DEF ArgTypes
  <2>6. v # 0 => v \in heap' /\ v + MaxRead \notin heap'
    BY <2>3, <2>4 DEF ArgTypes
  <2>7. ASSUME NEW t \in present, own[t], args[t] # 0
        PROVE  /\ args[t] \in heap' /\ v # args[t]
               /\ \A x \in present \ {t} : args[x] # args[t]
    <3>1. args[t] \in heap /\ args[t] # entry.args /\ \A x \in present \ {t} : args[x] # args[t]
      BY <2>7 DEF ArgsKept
    <3>2. v # args[t]
      BY <2>5, <2>7 DEF MainTypes
    <3> QED
      BY <2>3, <3>1, <3>2
  <2>8. copying = "own" => \A t \in present : own[t]
    BY DEF ArgsKept
  <2>9. \A t \in present : v # 0 => args[t] # v /\ args[t] # v + MaxRead
    BY <2>5 DEF MainTypes
  <2> QED
    BY <2>3, <2>4, <2>6, <2>7, <2>8, <2>9 DEF ArgsKept
<1>3. Blamed'
  <2>1. bad' = EN!Damage(entry.args) /\ UNCHANGED copying
    BY DEF EN!NextEntry
  <2>2. entry.svc \in Hosts \cup {Nil}
    BY DEF MainTypes
  <2>3. bad' = <<>> \/ (bad' = <<"twice", entry.svc>> /\ entry.args # 0 /\ entry.args \notin heap)
    BY <2>1 DEF EN!Damage
  <2>4. entry.args # 0 /\ entry.args \notin heap => copying = "shared"
    BY DEF ArgsKept, MainTypes
  <2> QED
    BY <2>1, <2>2, <2>3, <2>4 DEF Blamed
<1> USE DEF EN!NextEntry, EN!Busy, EN!Replacing, EN!Freed, EN!Damage
<1> USE DEF MainTypes, ArgTypes, RuleTypes, WorkTypes, ArgsKept, Undisturbed, Blamed
<1>4. MainTypes'
  OBVIOUS
<1>5. RuleTypes'
  OBVIOUS
<1>6. WorkTypes'
  OBVIOUS
<1>7. Undisturbed'
  OBVIOUS
<1> HIDE DEF MainTypes, ArgTypes, RuleTypes, WorkTypes, ArgsKept, Undisturbed, Blamed
<1> QED
  BY <1>1, <1>2, <1>3, <1>4, <1>5, <1>6, <1>7

LEMMA AddKeeps ==
  ASSUME EntriesSound, EntriesInv, bad = <<>>, UNCHANGED EN!fixedVars, EN!Add
  PROVE  EntriesInv'
<1> USE DEF EntriesSound, Used, Mid, EN!mainVars, EN!argVars, EN!ruleVars, EN!workVars,
   EN!fixedVars, EntriesInv
<1>1. ArgTypes'
  <2>1. PICK t \in Hosts : t = entry.svc
    BY DEF EN!Add, MainTypes
  <2>2. PICK v \in Nat : v = IF copying = "own" /\ entry.args # 0
                                 THEN entry.args + MaxRead ELSE entry.args
    BY DEF MainTypes
  <2>3. /\ args' = [args EXCEPT ![t] = v] /\ own' = [own EXCEPT ![t] = (v = 0 \/ copying = "own")]
        /\ heap' = heap \cup ({v} \ {0}) /\ UNCHANGED <<entry, read>>
    BY <2>1, <2>2 DEF EN!Add
  <2>4. Used(v)
    BY <2>2 DEF EN!Add, ArgTypes, ArgsKept, MainTypes
  <2>5. own' \in [Hosts -> BOOLEAN]
    BY <2>1, <2>3 DEF ArgTypes
  <2> QED
    BY <2>1, <2>3, <2>4, <2>5 DEF ArgTypes
<1>2. ArgsKept'
  <2>1. PICK t \in Hosts \ present : t = entry.svc
    BY DEF EN!Add, MainTypes
  <2>2. PICK v \in Nat : v = IF copying = "own" /\ entry.args # 0
                                 THEN entry.args + MaxRead ELSE entry.args
    BY DEF MainTypes
  <2>3. /\ args' = [args EXCEPT ![t] = v] /\ own' = [own EXCEPT ![t] = (v = 0 \/ copying = "own")]
        /\ heap' = heap \cup ({v} \ {0}) /\ present' = present \cup {t}
        /\ mpc' = "next" /\ UNCHANGED <<entry, copying>>
    BY <2>1, <2>2 DEF EN!Add
  <2>4. /\ args'[t] = v /\ (own'[t] <=> v = 0 \/ copying = "own")
        /\ \A x \in present : args'[x] = args[x] /\ own'[x] = own[x]
    BY <2>1, <2>3 DEF ArgTypes, MainTypes
  <2>5. v # 0 /\ own'[t] => /\ copying = "own" /\ v # entry.args
                            /\ \A x \in present : args[x] # v
    BY <2>2, <2>4 DEF EN!Add, ArgsKept, MainTypes
  <2>6. v # 0 => v \in heap' /\ \A x \in present : args[x] # v
    BY <2>2, <2>3 DEF EN!Add, ArgsKept, MainTypes
  <2>7. ASSUME NEW x \in present', own'[x], args'[x] # 0
        PROVE  /\ args'[x] \in heap' /\ entry.args # args'[x]
               /\ \A y \in present' \ {x} : args'[y] # args'[x]
    BY <2>1, <2>3, <2>4, <2>5, <2>6, <2>7 DEF ArgsKept
  <2>8. copying = "own" => /\ entry.own /\ \A x \in present' : own'[x]
                           /\ entry.args # 0 => entry.args \in heap'
    BY <2>3, <2>4 DEF ArgsKept
  <2> QED
    BY <2>3, <2>7, <2>8 DEF ArgsKept
<1>3. Undisturbed'
  <2>1. PICK t \in Hosts \ present : t = entry.svc
    BY DEF EN!Add, MainTypes
  <2>2. /\ mpc' = "next" /\ present' = present \cup {t}
        /\ \A x \in present : /\ args'[x] = args[x] /\ list'[x] = list[x]
                              /\ table'[x] = table[x] /\ quiet'[x] = quiet[x]
        /\ table'[t] = 0
        /\ UNCHANGED <<built, tables, wpc, wsvc, wheld, entry>>
    BY <2>1 DEF EN!Add, ArgTypes, RuleTypes, WorkTypes, MainTypes
  <2>3. \A w \in Workers : wpc[w] # "idle" => wsvc[w] \in present
    BY DEF WorkTypes
  <2>4. \A w \in Workers : wpc'[w] # "idle" /\ quiet'[wsvc'[w]] =>
       /\ wpc'[w] = "build" => wheld'[w] = list'[wsvc'[w]] /\ table'[wsvc'[w]] = 0
       /\ wpc'[w] = "table" => table'[wsvc'[w]] # 0
       /\ wpc'[w] = "search" => wheld'[w] = table'[wsvc'[w]] /\ wheld'[w] # 0
       /\ wpc'[w] = "copy" => wheld'[w] = args'[wsvc'[w]]
    BY <2>2, <2>3 DEF Undisturbed
  <2>5. \A x \in present' : quiet'[x] /\ table'[x] # 0 =>
          table'[x] \in tables' /\ built'[table'[x]] = list'[x]
    BY <2>1, <2>2 DEF EN!Add, Undisturbed, EN!Replacing
  <2> QED
    BY <2>2, <2>4, <2>5 DEF Undisturbed
<1> USE DEF EN!Add, EN!Busy, EN!Replacing, EN!Freed, EN!Damage
<1> USE DEF MainTypes, ArgTypes, RuleTypes, WorkTypes, ArgsKept, Undisturbed, Blamed
<1>4. MainTypes'
  OBVIOUS
<1>5. RuleTypes'
  OBVIOUS
<1>6. WorkTypes'
  OBVIOUS
<1>7. Blamed'
  OBVIOUS
<1> HIDE DEF MainTypes, ArgTypes, RuleTypes, WorkTypes, ArgsKept, Undisturbed, Blamed
<1> QED
  BY <1>1, <1>2, <1>3, <1>4, <1>5, <1>6, <1>7

LEMMA SwapKeeps ==
  ASSUME EntriesSound, EntriesInv, bad = <<>>, UNCHANGED EN!fixedVars, EN!Swap
  PROVE  EntriesInv'
<1> USE DEF EntriesSound, Used, Mid, EN!mainVars, EN!argVars, EN!ruleVars, EN!workVars,
   EN!fixedVars, EntriesInv
<1>1. Undisturbed'
  <2>1. PICK t \in present : t = entry.svc
    BY DEF EN!Swap, MainTypes
  <2>2. /\ args' = [args EXCEPT ![t] = entry.args] /\ quiet' = [quiet EXCEPT ![t] = ~EN!Busy(t)]
        /\ mpc = "swap" /\ mpc' = "move" /\ entry'.svc = t
        /\ UNCHANGED <<present, list, table, built, tables, wpc, wsvc, wheld>>
    BY <2>1 DEF EN!Swap, MainTypes
  <2>3. /\ \A x \in present \ {t} : args'[x] = args[x] /\ quiet'[x] = quiet[x]
        /\ quiet'[t] = ~EN!Busy(t)
    BY <2>1, <2>2 DEF ArgTypes, WorkTypes, MainTypes
  <2>4. \A w \in Workers : wpc[w] # "idle" => wsvc[w] \in present /\ (wsvc[w] = t => ~quiet'[t])
    BY <2>3 DEF WorkTypes, EN!Busy
  <2>5. \A w \in Workers : wpc'[w] # "idle" /\ quiet'[wsvc'[w]] =>
       /\ wpc'[w] = "build" => wheld'[w] = list'[wsvc'[w]] /\ table'[wsvc'[w]] = 0
       /\ wpc'[w] = "table" => table'[wsvc'[w]] # 0
       /\ wpc'[w] = "search" => wheld'[w] = table'[wsvc'[w]] /\ wheld'[w] # 0
       /\ wpc'[w] = "copy" => wheld'[w] = args'[wsvc'[w]]
    BY <2>2, <2>3, <2>4 DEF Undisturbed
  <2>6. \A x \in present' : quiet'[x] /\ ~EN!Replacing(x)' /\ table'[x] # 0 =>
          table'[x] \in tables' /\ built'[table'[x]] = list'[x]
    BY <2>2, <2>3 DEF Undisturbed, EN!Replacing
  <2>7. quiet'[t] => ~EN!Busy(t)'
    BY <2>2, <2>3 DEF EN!Busy
  <2> QED
    BY <2>2, <2>5, <2>6, <2>7 DEF Undisturbed, EN!Busy
<1> USE DEF EN!Swap, EN!Busy, EN!Replacing, EN!Freed, EN!Damage
<1> USE DEF MainTypes, ArgTypes, RuleTypes, WorkTypes, ArgsKept, Undisturbed, Blamed
<1>2. MainTypes'
  OBVIOUS
<1>3. ArgTypes'
  BY SMTT(30)
<1>4. RuleTypes'
  OBVIOUS
<1>5. WorkTypes'
  OBVIOUS
<1>6. ArgsKept'
  BY SMTT(30)
<1>7. Blamed'
  OBVIOUS
<1> HIDE DEF MainTypes, ArgTypes, RuleTypes, WorkTypes, ArgsKept, Undisturbed, Blamed
<1> QED
  BY <1>1, <1>2, <1>3, <1>4, <1>5, <1>6, <1>7

LEMMA MoveListKeeps ==
  ASSUME EntriesSound, EntriesInv, bad = <<>>, UNCHANGED EN!fixedVars, EN!MoveList
  PROVE  EntriesInv'
<1> USE DEF EntriesSound, Used, Mid, EN!mainVars, EN!argVars, EN!ruleVars, EN!workVars,
   EN!fixedVars, EntriesInv
<1> USE DEF EN!MoveList, EN!Busy, EN!Replacing, EN!Freed, EN!Damage
<1> USE DEF MainTypes, ArgTypes, RuleTypes, WorkTypes, ArgsKept, Undisturbed, Blamed
<1>1. MainTypes'
  OBVIOUS
<1>2. ArgTypes'
  OBVIOUS
<1>3. RuleTypes'
  OBVIOUS
<1>4. WorkTypes'
  OBVIOUS
<1>5. ArgsKept'
  OBVIOUS
<1>6. Undisturbed'
  BY SMTT(30)
<1>7. Blamed'
  OBVIOUS
<1> HIDE DEF MainTypes, ArgTypes, RuleTypes, WorkTypes, ArgsKept, Undisturbed, Blamed
<1> QED
  BY <1>1, <1>2, <1>3, <1>4, <1>5, <1>6, <1>7

LEMMA DeleteTableKeeps ==
  ASSUME EntriesSound, EntriesInv, bad = <<>>, UNCHANGED EN!fixedVars, EN!DeleteTable
  PROVE  EntriesInv'
<1> USE DEF EntriesSound, Used, Mid, EN!mainVars, EN!argVars, EN!ruleVars, EN!workVars,
   EN!fixedVars, EntriesInv
<1> USE DEF EN!DeleteTable, EN!Busy, EN!Replacing, EN!Freed, EN!Damage
<1> USE DEF MainTypes, ArgTypes, RuleTypes, WorkTypes, ArgsKept, Undisturbed, Blamed
<1>1. MainTypes'
  OBVIOUS
<1>2. ArgTypes'
  OBVIOUS
<1>3. RuleTypes'
  OBVIOUS
<1>4. WorkTypes'
  OBVIOUS
<1>5. ArgsKept'
  OBVIOUS
<1>6. Undisturbed'
  OBVIOUS
<1>7. Blamed'
  OBVIOUS
<1> HIDE DEF MainTypes, ArgTypes, RuleTypes, WorkTypes, ArgsKept, Undisturbed, Blamed
<1> QED
  BY <1>1, <1>2, <1>3, <1>4, <1>5, <1>6, <1>7

LEMMA NullTableKeeps ==
  ASSUME EntriesSound, EntriesInv, bad = <<>>, UNCHANGED EN!fixedVars, EN!NullTable
  PROVE  EntriesInv'
<1> USE DEF EntriesSound, Used, Mid, EN!mainVars, EN!argVars, EN!ruleVars, EN!workVars,
   EN!fixedVars, EntriesInv
<1> USE DEF EN!NullTable, EN!Busy, EN!Replacing, EN!Freed, EN!Damage
<1> USE DEF MainTypes, ArgTypes, RuleTypes, WorkTypes, ArgsKept, Undisturbed, Blamed
<1>1. MainTypes'
  OBVIOUS
<1>2. ArgTypes'
  OBVIOUS
<1>3. RuleTypes'
  OBVIOUS
<1>4. WorkTypes'
  OBVIOUS
<1>5. ArgsKept'
  OBVIOUS
<1>6. Undisturbed'
  OBVIOUS
<1>7. Blamed'
  OBVIOUS
<1> HIDE DEF MainTypes, ArgTypes, RuleTypes, WorkTypes, ArgsKept, Undisturbed, Blamed
<1> QED
  BY <1>1, <1>2, <1>3, <1>4, <1>5, <1>6, <1>7

LEMMA FreeEntryKeeps ==
  ASSUME EntriesSound, EntriesInv, bad = <<>>, UNCHANGED EN!fixedVars, EN!FreeEntry
  PROVE  EntriesInv'
<1> USE DEF EntriesSound, Used, Mid, EN!mainVars, EN!argVars, EN!ruleVars, EN!workVars,
   EN!fixedVars, EntriesInv
<1> USE DEF EN!FreeEntry, EN!Busy, EN!Replacing, EN!Freed, EN!Damage
<1> USE DEF MainTypes, ArgTypes, RuleTypes, WorkTypes, ArgsKept, Undisturbed, Blamed
<1>1. MainTypes'
  OBVIOUS
<1>2. ArgTypes'
  OBVIOUS
<1>3. RuleTypes'
  OBVIOUS
<1>4. WorkTypes'
  OBVIOUS
<1>5. ArgsKept'
  OBVIOUS
<1>6. Undisturbed'
  OBVIOUS
<1>7. Blamed'
  OBVIOUS
<1> HIDE DEF MainTypes, ArgTypes, RuleTypes, WorkTypes, ArgsKept, Undisturbed, Blamed
<1> QED
  BY <1>1, <1>2, <1>3, <1>4, <1>5, <1>6, <1>7

LEMMA FinishKeeps ==
  ASSUME EntriesSound, EntriesInv, bad = <<>>, UNCHANGED EN!fixedVars, EN!Finish
  PROVE  EntriesInv'
<1> USE DEF EntriesSound, Used, Mid, EN!mainVars, EN!argVars, EN!ruleVars, EN!workVars,
   EN!fixedVars, EntriesInv
<1>1. MainTypes'
  <2>1. \/ /\ heap' = EN!Freed(entry.args) /\ bad' = EN!Damage(entry.args)
           /\ entry' = [entry EXCEPT !.args = 0, !.own = TRUE]
        \/ UNCHANGED <<heap, bad, entry>>
    BY Zenon DEF EN!Finish
  <2>2. mpc' = "idle" /\ seen' = {} /\ present' = seen /\ UNCHANGED <<read, copying, reader>>
    BY DEF EN!Finish
  <2>3. CASE UNCHANGED entry
    BY <2>2, <2>3 DEF MainTypes
  <2>4. CASE entry' = [entry EXCEPT !.args = 0, !.own = TRUE]
    <3>1. entry' = [svc |-> entry.svc, args |-> 0, own |-> TRUE, list |-> entry.list]
      BY <2>4 DEF MainTypes
    <3> QED
      BY <2>2, <3>1 DEF MainTypes
  <2> QED
    BY <2>1, <2>3, <2>4
<1>2. ArgTypes'
  <2>1. \/ /\ heap' = EN!Freed(entry.args) /\ bad' = EN!Damage(entry.args)
           /\ entry' = [entry EXCEPT !.args = 0, !.own = TRUE]
        \/ UNCHANGED <<heap, bad, entry>>
    BY Zenon DEF EN!Finish
  <2>2. UNCHANGED <<read, args, own>>
    BY DEF EN!Finish
  <2>3. heap' \subseteq heap /\ (entry'.args = 0 \/ entry'.args = entry.args)
    BY <2>1 DEF MainTypes, EN!Freed
  <2>4. Used(entry'.args) /\ entry'.args \in Nat
    BY <2>3 DEF ArgTypes, MainTypes
  <2> QED
    BY <2>2, <2>3, <2>4 DEF ArgTypes
<1>3. ArgsKept'
  <2>1. \/ /\ heap' = EN!Freed(entry.args) /\ bad' = EN!Damage(entry.args)
           /\ entry' = [entry EXCEPT !.args = 0, !.own = TRUE]
        \/ UNCHANGED <<heap, bad, entry>>
    BY Zenon DEF EN!Finish
  <2>2. mpc' = "idle" /\ present' = seen /\ UNCHANGED <<args, own, copying>>
        /\ seen \subseteq present
    BY DEF EN!Finish, MainTypes
  <2> QED
    BY <2>1, <2>2 DEF ArgsKept, MainTypes, EN!Freed
<1>4. Blamed'
  <2>1. \/ /\ heap' = EN!Freed(entry.args) /\ bad' = EN!Damage(entry.args)
           /\ entry' = [entry EXCEPT !.args = 0, !.own = TRUE]
        \/ UNCHANGED <<heap, bad, entry>>
    BY Zenon DEF EN!Finish
  <2>2. bad' = <<>> \/ (bad' = <<"twice", entry.svc>> /\ entry.args # 0 /\ entry.args \notin heap)
    BY <2>1 DEF EN!Damage
  <2>3. entry.args # 0 /\ entry.args \notin heap => copying = "shared"
    BY DEF ArgsKept, MainTypes
  <2>4. entry.svc \in Hosts \cup {Nil}
    BY DEF MainTypes
  <2> QED
    BY <2>2, <2>3, <2>4 DEF Blamed
<1> USE DEF EN!Finish, EN!Busy, EN!Replacing, EN!Freed, EN!Damage
<1> USE DEF MainTypes, ArgTypes, RuleTypes, WorkTypes, ArgsKept, Undisturbed, Blamed
<1>5. RuleTypes'
  OBVIOUS
<1>6. WorkTypes'
  OBVIOUS
<1>7. Undisturbed'
  OBVIOUS
<1> HIDE DEF MainTypes, ArgTypes, RuleTypes, WorkTypes, ArgsKept, Undisturbed, Blamed
<1> QED
  BY <1>1, <1>2, <1>3, <1>4, <1>5, <1>6, <1>7

LEMMA AcceptKeeps ==
  ASSUME EntriesSound, EntriesInv, bad = <<>>, UNCHANGED EN!fixedVars,
         NEW w \in Workers, NEW s \in Hosts, EN!Accept(w, s),
         UNCHANGED <<EN!mainVars, EN!argVars>>
  PROVE  EntriesInv'
<1> USE DEF EntriesSound, Used, Mid, EN!mainVars, EN!argVars, EN!ruleVars, EN!workVars,
   EN!fixedVars, EntriesInv
<1>1. Undisturbed'
  <2>1. /\ wpc[w] = "idle" /\ s \in present /\ wsvc' = [wsvc EXCEPT ![w] = s]
        /\ wpc' = [wpc EXCEPT ![w] = IF table[s] = 0 THEN "lock" ELSE "table"]
        /\ UNCHANGED <<wheld, list, table, built, tables, args, mpc, entry, present>>
    BY DEF EN!Accept, EN!At, EN!Goes
  <2>2. quiet' = [quiet EXCEPT ![s] =
          quiet[s] /\ ~(mpc \in {"move", "delete", "null", "free"} /\ entry.svc = s)]
    BY DEF EN!Accept
  <2>3. /\ \A x \in Hosts : quiet'[x] => quiet[x]
        /\ mpc \in {"move", "delete", "null", "free"} /\ entry.svc = s => ~quiet'[s]
    BY <2>2 DEF WorkTypes
  <2>4. \A v \in Workers \ {w} : wpc'[v] = wpc[v] /\ wsvc'[v] = wsvc[v]
    BY <2>1 DEF WorkTypes
  <2>5. wsvc'[w] = s /\ (wpc'[w] = "lock" \/ (wpc'[w] = "table" /\ table[s] # 0))
    BY <2>1 DEF WorkTypes
  <2>6. \A x \in Hosts \ {s} : EN!Busy(x)' <=> EN!Busy(x)
    BY <2>1, <2>4, <2>5 DEF EN!Busy
  <2>7. \A v \in Workers : wpc[v] # "idle" => wsvc[v] \in Hosts
    BY DEF WorkTypes, MainTypes
  <2>8. mpc \in Mid => entry.svc \in Hosts
    BY DEF MainTypes
  <2>9. mpc' \in {"move", "delete", "null", "free"} /\ quiet'[entry'.svc] => ~EN!Busy(entry.svc)'
    BY <2>1, <2>3, <2>6, <2>8 DEF Undisturbed
  <2>10. \A v \in Workers : wpc'[v] # "idle" /\ quiet'[wsvc'[v]] =>
       /\ wpc'[v] = "build" => wheld'[v] = list'[wsvc'[v]] /\ table'[wsvc'[v]] = 0
       /\ wpc'[v] = "table" => table'[wsvc'[v]] # 0
       /\ wpc'[v] = "search" => wheld'[v] = table'[wsvc'[v]] /\ wheld'[v] # 0
       /\ wpc'[v] = "copy" => wheld'[v] = args'[wsvc'[v]]
    BY <2>1, <2>3, <2>4, <2>5, <2>7 DEF Undisturbed
  <2>11. mpc' = "free" /\ quiet'[entry'.svc] => table'[entry'.svc] = 0
    BY <2>1, <2>3, <2>8 DEF Undisturbed
  <2>12. \A x \in present' : quiet'[x] /\ ~EN!Replacing(x)' /\ table'[x] # 0 =>
           table'[x] \in tables' /\ built'[table'[x]] = list'[x]
    BY <2>1, <2>3 DEF Undisturbed, EN!Replacing, MainTypes
  <2> QED
    BY <2>9, <2>10, <2>11, <2>12, Zenon DEF Undisturbed
<1> USE DEF EN!Accept, EN!Busy, EN!Replacing, EN!Goes, EN!Holds, EN!At, EN!Leaves
<1> USE DEF MainTypes, ArgTypes, RuleTypes, WorkTypes, ArgsKept, Undisturbed, Blamed
<1>2. MainTypes'
  OBVIOUS
<1>3. ArgTypes'
  OBVIOUS
<1>4. RuleTypes'
  OBVIOUS
<1>5. WorkTypes'
  OBVIOUS
<1>6. ArgsKept'
  OBVIOUS
<1>7. Blamed'
  OBVIOUS
<1> HIDE DEF MainTypes, ArgTypes, RuleTypes, WorkTypes, ArgsKept, Undisturbed, Blamed
<1> QED
  BY <1>1, <1>2, <1>3, <1>4, <1>5, <1>6, <1>7

LEMMA LockKeeps ==
  ASSUME EntriesSound, EntriesInv, bad = <<>>, UNCHANGED EN!fixedVars,
         NEW w \in Workers, EN!Lock(w),
         UNCHANGED <<EN!mainVars, EN!argVars>>
  PROVE  EntriesInv'
<1> USE DEF EntriesSound, Used, Mid, EN!mainVars, EN!argVars, EN!ruleVars, EN!workVars,
   EN!fixedVars, EntriesInv
<1>1. WorkTypes'
  <2>1. \/ lock = Nil /\ lock' = w /\ wpc' = [wpc EXCEPT ![w] = "build"]
        \/ UNCHANGED lock /\ wpc' = [wpc EXCEPT ![w] = "table"]
    BY Zenon DEF EN!Lock, EN!Goes
  <2>2. lock = Nil /\ UNCHANGED <<wsvc, quiet, present>> /\ wpc[w] = "lock"
    BY DEF EN!Lock, EN!At
  <2>3. wheld' \in [Workers -> Nat]
    <3>1. list[wsvc[w]] \in Nat
      BY <2>2 DEF WorkTypes, RuleTypes, MainTypes
    <3>2. wheld' = wheld \/ wheld' = [wheld EXCEPT ![w] = list[wsvc[w]]]
      BY Zenon DEF EN!Lock, EN!Holds
    <3> QED
      BY <3>1, <3>2 DEF WorkTypes
  <2>4. \A v \in Workers : wpc[v] # "build"
    BY <2>2 DEF WorkTypes
  <2> QED
    BY <2>1, <2>2, <2>3, <2>4 DEF WorkTypes
<1>2. Undisturbed'
  <2>1. PICK t \in present : t = wsvc[w]
    BY DEF EN!Lock, EN!At, WorkTypes
  <2>2. \/ /\ table[t] = 0 /\ wpc' = [wpc EXCEPT ![w] = "build"]
           /\ wheld' = [wheld EXCEPT ![w] = list[t]]
        \/ table[t] # 0 /\ wpc' = [wpc EXCEPT ![w] = "table"] /\ UNCHANGED wheld
    BY <2>1 DEF EN!Lock, EN!Goes, EN!Holds
  <2>3. UNCHANGED <<wsvc, quiet, present, list, table, built, tables, args, mpc, entry>>
        /\ wpc[w] = "lock"
    BY DEF EN!Lock, EN!At
  <2>4. \A x : EN!Busy(x)' <=> EN!Busy(x)
    BY <2>2, <2>3 DEF EN!Busy, WorkTypes
  <2>5. \A v \in Workers \ {w} : wpc'[v] = wpc[v] /\ wheld'[v] = wheld[v]
    BY <2>2 DEF WorkTypes
  <2>6. \/ wpc'[w] = "build" /\ table[t] = 0 /\ wheld'[w] = list[t]
        \/ wpc'[w] = "table" /\ table[t] # 0
    BY <2>2 DEF WorkTypes
  <2> QED
    BY <2>1, <2>3, <2>4, <2>5, <2>6 DEF Undisturbed, EN!Replacing
<1> USE DEF EN!Lock, EN!Busy, EN!Replacing, EN!Goes, EN!Holds, EN!At, EN!Leaves
<1> USE DEF MainTypes, ArgTypes, RuleTypes, WorkTypes, ArgsKept, Undisturbed, Blamed
<1>3. MainTypes'
  OBVIOUS
<1>4. ArgTypes'
  OBVIOUS
<1>5. RuleTypes'
  OBVIOUS
<1>6. ArgsKept'
  OBVIOUS
<1>7. Blamed'
  OBVIOUS
<1> HIDE DEF MainTypes, ArgTypes, RuleTypes, WorkTypes, ArgsKept, Undisturbed, Blamed
<1> QED
  BY <1>1, <1>2, <1>3, <1>4, <1>5, <1>6, <1>7

LEMMA BuildKeeps ==
  ASSUME EntriesSound, EntriesInv, bad = <<>>, UNCHANGED EN!fixedVars,
         NEW w \in Workers, EN!Build(w),
         UNCHANGED <<EN!mainVars, EN!argVars>>
  PROVE  EntriesInv'
<1> USE DEF EntriesSound, Used, Mid, EN!mainVars, EN!argVars, EN!ruleVars, EN!workVars,
   EN!fixedVars, EntriesInv
<1>1. RuleTypes'
  <2>1. PICK t \in present : t = wsvc[w]
    BY DEF EN!Build, EN!At, WorkTypes
  <2>2. PICK n \in Nat : n = Len(built) + 1
    BY DEF RuleTypes
  <2>3. built' = Append(built, wheld[w]) /\ UNCHANGED list /\ wheld[w] \in Nat
    BY DEF EN!Build, WorkTypes
  <2>4. built' \in Seq(Nat) /\ Len(built') = n /\ Len(built) < n /\ n # 0
    BY <2>2, <2>3 DEF RuleTypes
  <2>5. tables' = tables \cup {n} /\ table' = [table EXCEPT ![t] = n]
    BY <2>1, <2>4 DEF EN!Build
  <2>6. t \in Hosts /\ \A x \in Hosts : table[x] \in 0 .. Len(built)
    BY DEF MainTypes, RuleTypes
  <2>7. table' \in [Hosts -> 0 .. n]
    BY <2>2, <2>5, <2>6 DEF RuleTypes
  <2>10. tables \subseteq 1 .. Len(built) /\ Len(built) \in Nat
    BY DEF RuleTypes
  <2>12. tables \subseteq 1 .. n /\ n \in 1 .. n
    BY <2>2, <2>10
  <2>8. tables' \subseteq 1 .. n
    BY <2>5, <2>12, Zenon
  <2>9. \A x, y \in Hosts : x # y /\ table'[x] # 0 => table'[x] # table'[y]
    BY <2>2, <2>5, <2>6 DEF RuleTypes
  <2>11. list' \in [Hosts -> Nat]
    BY <2>3 DEF RuleTypes
  <2> QED
    BY <2>4, <2>7, <2>8, <2>9, <2>11, Zenon DEF RuleTypes
<1>2. Undisturbed'
  <2>1. PICK t \in present : t = wsvc[w]
    BY DEF EN!Build, EN!At, WorkTypes
  <2>2. t \in Hosts /\ wpc[w] = "build"
    BY DEF MainTypes, EN!Build, EN!At
  <2>3. PICK n \in Nat : n = Len(built) + 1
    BY DEF RuleTypes
  <2>4. built' = Append(built, wheld[w]) /\ wheld[w] \in Nat /\ built \in Seq(Nat)
    BY DEF EN!Build, WorkTypes, RuleTypes
  <2>5. Len(built') = n /\ n # 0 /\ built'[n] = wheld[w]
        /\ \A i \in 1 .. Len(built) : built'[i] = built[i]
    BY <2>3, <2>4
  <2>6. /\ tables' = tables \cup {n} /\ table' = [table EXCEPT ![t] = n]
        /\ wpc' = [wpc EXCEPT ![w] = "table"] /\ wheld' = [wheld EXCEPT ![w] = 0]
        /\ UNCHANGED <<wsvc, list, quiet, mpc, entry, present, args>>
    BY <2>1, <2>5 DEF EN!Build, EN!Goes, EN!Holds
  <2>7. EN!Busy(t) /\ wpc'[w] = "table" /\ table'[t] = n
        /\ \A v \in Workers \ {w} : wpc'[v] = wpc[v] /\ wheld'[v] = wheld[v]
    BY <2>1, <2>2, <2>6 DEF WorkTypes, RuleTypes, EN!Busy
  <2>8. \A x \in Hosts \ {t} : table'[x] = table[x]
    BY <2>6 DEF RuleTypes
  <2>9. quiet[t] =>
          /\ table[t] = 0 /\ wheld[w] = list[t]
          /\ ~(mpc \in {"move", "delete", "null", "free"} /\ entry.svc = t)
    BY <2>1, <2>2, <2>7 DEF Undisturbed
  <2>10. \A v \in Workers \ {w} : wpc[v] # "build"
    BY <2>2 DEF WorkTypes
  <2>11. \A v \in Workers : wpc'[v] # "idle" /\ quiet'[wsvc'[v]] =>
       /\ wpc'[v] = "build" => wheld'[v] = list'[wsvc'[v]] /\ table'[wsvc'[v]] = 0
       /\ wpc'[v] = "table" => table'[wsvc'[v]] # 0
       /\ wpc'[v] = "search" => wheld'[v] = table'[wsvc'[v]] /\ wheld'[v] # 0
       /\ wpc'[v] = "copy" => wheld'[v] = args'[wsvc'[v]]
    <3> SUFFICES ASSUME NEW v \in Workers, wpc'[v] # "idle", quiet[wsvc[v]]
        PROVE  /\ wpc'[v] # "build"
               /\ wpc'[v] = "table" => table'[wsvc[v]] # 0
               /\ wpc'[v] = "search" => wheld'[v] = table'[wsvc[v]] /\ wheld'[v] # 0
               /\ wpc'[v] = "copy" => wheld'[v] = args[wsvc[v]]
      BY <2>6
    <3>1. CASE v = w
      BY <2>1, <2>5, <2>7, <3>1
    <3>2. CASE v # w
      <4>1. wpc'[v] = wpc[v] /\ wheld'[v] = wheld[v] /\ wpc[v] # "build" /\ wsvc[v] \in Hosts
        BY <2>7, <2>10, <3>2 DEF WorkTypes, MainTypes
      <4>2. CASE wsvc[v] = t
        BY <2>5, <2>7, <2>9, <4>1, <4>2 DEF Undisturbed
      <4>3. CASE wsvc[v] # t
        BY <2>8, <4>1, <4>3 DEF Undisturbed
      <4> QED
        BY <4>2, <4>3
    <3> QED
      BY <3>1, <3>2
  <2>12. \A x \in Hosts : EN!Busy(x)' <=> EN!Busy(x)
    BY <2>2, <2>6, <2>7 DEF EN!Busy, WorkTypes
  <2>13. ASSUME NEW x \in present, quiet[x], ~EN!Replacing(x), table'[x] # 0
         PROVE  table'[x] \in tables' /\ built'[table'[x]] = list[x]
    <3>1. CASE x = t
      BY <2>5, <2>6, <2>7, <2>9, <2>13, <3>1
    <3>2. CASE x # t
      <4>1. table'[x] = table[x] /\ table[x] \in tables /\ built[table[x]] = list[x]
            /\ table[x] \in 1 .. Len(built)
        BY <2>8, <2>13, <3>2 DEF Undisturbed, RuleTypes, MainTypes
      <4> QED
        BY <2>5, <2>6, <4>1
    <3> QED
      BY <3>1, <3>2
  <2>14. mpc \in Mid => entry.svc \in Hosts
    BY DEF MainTypes
  <2>15. mpc' \in {"move", "delete", "null", "free"} /\ quiet'[entry'.svc] => ~EN!Busy(entry.svc)'
    BY <2>6, <2>12, <2>14 DEF Undisturbed
  <2>16. mpc' = "free" /\ quiet'[entry'.svc] => table'[entry'.svc] = 0
    BY <2>6, <2>8, <2>9, <2>14 DEF Undisturbed
  <2> QED
    BY <2>6, <2>11, <2>13, <2>15, <2>16 DEF Undisturbed, EN!Replacing, EN!Busy
<1> USE DEF EN!Build, EN!Busy, EN!Replacing, EN!Goes, EN!Holds, EN!At, EN!Leaves
<1> USE DEF MainTypes, ArgTypes, RuleTypes, WorkTypes, ArgsKept, Undisturbed, Blamed
<1>3. MainTypes'
  OBVIOUS
<1>4. ArgTypes'
  OBVIOUS
<1>5. WorkTypes'
  OBVIOUS
<1>6. ArgsKept'
  OBVIOUS
<1>7. Blamed'
  OBVIOUS
<1> HIDE DEF MainTypes, ArgTypes, RuleTypes, WorkTypes, ArgsKept, Undisturbed, Blamed
<1> QED
  BY <1>1, <1>2, <1>3, <1>4, <1>5, <1>6, <1>7

LEMMA TableKeeps ==
  ASSUME EntriesSound, EntriesInv, bad = <<>>, UNCHANGED EN!fixedVars,
         NEW w \in Workers, EN!Table(w),
         UNCHANGED <<EN!mainVars, EN!argVars>>
  PROVE  EntriesInv'
<1> USE DEF EntriesSound, Used, Mid, EN!mainVars, EN!argVars, EN!ruleVars, EN!workVars,
   EN!fixedVars, EntriesInv
<1>1. WorkTypes'
  <2>1. /\ wpc' = [wpc EXCEPT ![w] = "search"] /\ wheld' = [wheld EXCEPT ![w] = table[wsvc[w]]]
        /\ wpc[w] = "table" /\ UNCHANGED <<lock, wsvc, quiet, present>>
    BY DEF EN!Table, EN!Goes, EN!Holds, EN!At
  <2>2. wsvc[w] \in Hosts /\ Len(built) \in Nat
    BY <2>1 DEF WorkTypes, MainTypes, RuleTypes
  <2>3. table[wsvc[w]] \in Nat
    BY <2>2 DEF RuleTypes
  <2> QED
    BY <2>1, <2>3 DEF WorkTypes
<1> USE DEF EN!Table, EN!Busy, EN!Replacing, EN!Goes, EN!Holds, EN!At, EN!Leaves
<1> USE DEF MainTypes, ArgTypes, RuleTypes, WorkTypes, ArgsKept, Undisturbed, Blamed
<1>2. MainTypes'
  OBVIOUS
<1>3. ArgTypes'
  OBVIOUS
<1>4. RuleTypes'
  OBVIOUS
<1>5. ArgsKept'
  OBVIOUS
<1>6. Undisturbed'
  BY SMTT(30)
<1>7. Blamed'
  OBVIOUS
<1> HIDE DEF MainTypes, ArgTypes, RuleTypes, WorkTypes, ArgsKept, Undisturbed, Blamed
<1> QED
  BY <1>1, <1>2, <1>3, <1>4, <1>5, <1>6, <1>7

LEMMA SearchKeeps ==
  ASSUME EntriesSound, EntriesInv, bad = <<>>, UNCHANGED EN!fixedVars,
         NEW w \in Workers, EN!Search(w),
         UNCHANGED <<EN!mainVars, EN!argVars>>
  PROVE  EntriesInv'
<1> USE DEF EntriesSound, Used, Mid, EN!mainVars, EN!argVars, EN!ruleVars, EN!workVars,
   EN!fixedVars, EntriesInv
<1>1. WorkTypes'
  <2>1. \/ wpc' = [wpc EXCEPT ![w] = "fork"] /\ UNCHANGED wsvc
        \/ wpc' = [wpc EXCEPT ![w] = "idle"] /\ wsvc' = [wsvc EXCEPT ![w] = Nil]
    BY Zenon DEF EN!Search, EN!Goes, EN!Leaves
  <2>2. UNCHANGED <<lock, quiet, present>> /\ wheld' = [wheld EXCEPT ![w] = 0]
    BY DEF EN!Search, EN!Holds
  <2>3. wpc' \in [Workers -> {"idle", "lock", "build", "table", "search", "fork", "copy"}]
        /\ wsvc' \in [Workers -> Hosts \cup {Nil}] /\ wheld' \in [Workers -> Nat]
    BY <2>1, <2>2 DEF WorkTypes
  <2>4. \A v \in Workers : /\ wpc'[v] # "idle" => wpc[v] # "idle" /\ wsvc'[v] = wsvc[v]
                           /\ wpc'[v] = "build" => wpc[v] = "build"
    BY <2>1 DEF EN!Search, EN!At, WorkTypes
  <2> QED
    BY <2>2, <2>3, <2>4 DEF WorkTypes
<1>2. Undisturbed'
  <2>1. \/ wpc' = [wpc EXCEPT ![w] = "fork"] /\ UNCHANGED wsvc
        \/ wpc' = [wpc EXCEPT ![w] = "idle"] /\ wsvc' = [wsvc EXCEPT ![w] = Nil]
    BY Zenon DEF EN!Search, EN!Goes, EN!Leaves
  <2>2. UNCHANGED <<lock, quiet, present, list, table, built, tables, args, mpc, entry>>
        /\ wheld' = [wheld EXCEPT ![w] = 0] /\ wpc[w] = "search"
    BY DEF EN!Search, EN!Holds, EN!At
  <2>3. ~EN!Busy(entry.svc) => ~EN!Busy(entry.svc)'
    BY <2>1, <2>2 DEF EN!Busy, WorkTypes
  <2>4. \A v \in Workers \ {w} : wpc'[v] = wpc[v] /\ wsvc'[v] = wsvc[v] /\ wheld'[v] = wheld[v]
    BY <2>1, <2>2 DEF WorkTypes
  <2>5. wpc'[w] \in {"idle", "fork"}
    BY <2>1, <2>2 DEF WorkTypes
  <2>6. \A v \in Workers : wpc'[v] # "idle" /\ quiet[wsvc'[v]] =>
       /\ wpc'[v] = "build" => wheld'[v] = list[wsvc'[v]] /\ table[wsvc'[v]] = 0
       /\ wpc'[v] = "table" => table[wsvc'[v]] # 0
       /\ wpc'[v] = "search" => wheld'[v] = table[wsvc'[v]] /\ wheld'[v] # 0
       /\ wpc'[v] = "copy" => wheld'[v] = args[wsvc'[v]]
    <3> SUFFICES ASSUME NEW v \in Workers, wpc'[v] \notin {"idle", "fork"}, quiet[wsvc'[v]]
        PROVE  /\ wpc'[v] = "build" => wheld'[v] = list[wsvc'[v]] /\ table[wsvc'[v]] = 0
               /\ wpc'[v] = "table" => table[wsvc'[v]] # 0
               /\ wpc'[v] = "search" => wheld'[v] = table[wsvc'[v]] /\ wheld'[v] # 0
               /\ wpc'[v] = "copy" => wheld'[v] = args[wsvc'[v]]
      OBVIOUS
    <3>1. v # w
      BY <2>5
    <3> QED
      BY <2>4, <3>1 DEF Undisturbed
  <2>7. \A x : EN!Replacing(x)' <=> EN!Replacing(x)
    BY <2>2 DEF EN!Replacing
  <2>8. mpc' \in {"move", "delete", "null", "free"} /\ quiet'[entry'.svc] => ~EN!Busy(entry.svc)'
    BY <2>2, <2>3 DEF Undisturbed
  <2> QED
    BY <2>2, <2>6, <2>7, <2>8 DEF Undisturbed
<1> USE DEF EN!Search, EN!Busy, EN!Replacing, EN!Goes, EN!Holds, EN!At, EN!Leaves
<1> USE DEF MainTypes, ArgTypes, RuleTypes, WorkTypes, ArgsKept, Undisturbed, Blamed
<1>3. MainTypes'
  OBVIOUS
<1>4. ArgTypes'
  OBVIOUS
<1>5. RuleTypes'
  OBVIOUS
<1>6. ArgsKept'
  OBVIOUS
<1>7. Blamed'
  BY ZenonT(40)
<1> HIDE DEF MainTypes, ArgTypes, RuleTypes, WorkTypes, ArgsKept, Undisturbed, Blamed
<1> QED
  BY <1>1, <1>2, <1>3, <1>4, <1>5, <1>6, <1>7

LEMMA ForkKeeps ==
  ASSUME EntriesSound, EntriesInv, bad = <<>>, UNCHANGED EN!fixedVars,
         NEW w \in Workers, EN!Fork(w),
         UNCHANGED <<EN!mainVars, EN!argVars>>
  PROVE  EntriesInv'
<1> USE DEF EntriesSound, Used, Mid, EN!mainVars, EN!argVars, EN!ruleVars, EN!workVars,
   EN!fixedVars, EntriesInv
<1> USE DEF EN!Fork, EN!Busy, EN!Replacing, EN!Goes, EN!Holds, EN!At, EN!Leaves
<1> USE DEF MainTypes, ArgTypes, RuleTypes, WorkTypes, ArgsKept, Undisturbed, Blamed
<1>1. MainTypes'
  OBVIOUS
<1>2. ArgTypes'
  OBVIOUS
<1>3. RuleTypes'
  OBVIOUS
<1>4. WorkTypes'
  OBVIOUS
<1>5. ArgsKept'
  OBVIOUS
<1>6. Undisturbed'
  OBVIOUS
<1>7. Blamed'
  OBVIOUS
<1> HIDE DEF MainTypes, ArgTypes, RuleTypes, WorkTypes, ArgsKept, Undisturbed, Blamed
<1> QED
  BY <1>1, <1>2, <1>3, <1>4, <1>5, <1>6, <1>7

LEMMA CopyKeeps ==
  ASSUME EntriesSound, EntriesInv, bad = <<>>, UNCHANGED EN!fixedVars,
         NEW w \in Workers, EN!Copy(w),
         UNCHANGED <<EN!mainVars, EN!argVars>>
  PROVE  EntriesInv'
<1> USE DEF EntriesSound, Used, Mid, EN!mainVars, EN!argVars, EN!ruleVars, EN!workVars,
   EN!fixedVars, EntriesInv
<1>1. Blamed'
  <2>1. PICK t \in present : t = wsvc[w]
    BY DEF EN!Copy, EN!At, WorkTypes
  <2>2. wheld[w] \in heap \cup {0} \/ ~own[t] \/ ~quiet[t]
    BY <2>1 DEF EN!Copy, EN!At, ArgsKept, Undisturbed, WorkTypes, ArgTypes, MainTypes
  <2>3. (bad' = <<>> \/ bad' = <<"args", t>>) /\ (wheld[w] \in heap \cup {0} => bad' = <<>>)
        /\ UNCHANGED <<own, present, quiet>>
    BY <2>1 DEF EN!Copy
  <2>4. t \in Hosts
    BY DEF MainTypes
  <2> QED
    BY <2>2, <2>3, <2>4 DEF Blamed
<1> USE DEF EN!Copy, EN!Busy, EN!Replacing, EN!Goes, EN!Holds, EN!At, EN!Leaves
<1> USE DEF MainTypes, ArgTypes, RuleTypes, WorkTypes, ArgsKept, Undisturbed, Blamed
<1>2. MainTypes'
  OBVIOUS
<1>3. ArgTypes'
  OBVIOUS
<1>4. RuleTypes'
  OBVIOUS
<1>5. WorkTypes'
  OBVIOUS
<1>6. ArgsKept'
  OBVIOUS
<1>7. Undisturbed'
  OBVIOUS
<1> HIDE DEF MainTypes, ArgTypes, RuleTypes, WorkTypes, ArgsKept, Undisturbed, Blamed
<1> QED
  BY <1>1, <1>2, <1>3, <1>4, <1>5, <1>6, <1>7


LEMMA EntriesInit == ASSUME EntriesSound, EN!Init PROVE EntriesInv
<1> USE DEF EntriesSound, EN!Init
<1>1. MainTypes
  BY DEF MainTypes, Mid
<1>2. ArgTypes
  BY DEF ArgTypes, Used
<1>3. RuleTypes
  BY DEF RuleTypes
<1>4. WorkTypes
  BY DEF WorkTypes
<1>5. ArgsKept /\ Blamed
  BY DEF ArgsKept, Blamed
<1>6. Undisturbed
  BY DEF Undisturbed
<1> QED
  BY <1>1, <1>2, <1>3, <1>4, <1>5, <1>6 DEF EntriesInv

LEMMA EntriesStep == ASSUME EntriesSound, EntriesInv, [EN!Next]_(EN!vars) PROVE EntriesInv'
<1>1. CASE EN!Next /\ EN!MainThread
  BY <1>1, ConfigKeeps, NextEntryKeeps, AddKeeps, SwapKeeps, MoveListKeeps, DeleteTableKeeps,
     NullTableKeeps, FreeEntryKeeps, FinishKeeps DEF EN!Next, EN!MainThread
<1>2. ASSUME EN!Next, NEW w \in Workers, EN!Worker(w), UNCHANGED <<EN!mainVars, EN!argVars>>
      PROVE EntriesInv'
  BY <1>2, AcceptKeeps, LockKeeps, BuildKeeps, TableKeeps, SearchKeeps, ForkKeeps, CopyKeeps
     DEF EN!Next, EN!Worker
<1>3. CASE UNCHANGED EN!vars
  BY <1>3 DEF EN!vars, EN!fixedVars, EN!mainVars, EN!argVars, EN!ruleVars, EN!workVars,
     EntriesInv, MainTypes, ArgTypes,
     RuleTypes, WorkTypes, ArgsKept, Undisturbed, Blamed, Used, Mid, EN!Busy, EN!Replacing
<1> QED
  BY <1>1, <1>2, <1>3 DEF EN!Next

LEMMA EntriesRead == ASSUME EntriesInv PROVE EN!ArgsOwned /\ EN!RulesCurrent
<1>1. EN!ArgsOwned
  <2>1. \A s \in present : own[s] /\ args[s] # 0 =>
          /\ args[s] \in heap /\ ~(entry.own /\ entry.args = args[s])
          /\ \A t \in present \ {s} : args[t] # args[s]
    BY DEF EntriesInv, ArgsKept
  <2>2. copying = "own" => entry.own /\ \A s \in present : own[s]
    BY DEF EntriesInv, ArgsKept
  <2>3. bad # <<>> => /\ bad[1] = "twice" => copying = "shared"
                      /\ bad[1] = "args" => ~own[bad[2]] \/ ~quiet[bad[2]]
    BY DEF EntriesInv, Blamed
  <2> QED
    BY <2>1, <2>2, <2>3 DEF EN!ArgsOwned
<1>2. EN!RulesCurrent
  BY DEF EntriesInv, Undisturbed, Blamed, EN!RulesCurrent
<1> QED
  BY <1>1, <1>2
\* The lists that are read, and the lists that tables are built from.
ListTypes ==
  /\ copying \in Copying /\ entry.list \in 0 .. MaxRead
  /\ list \in [Hosts -> 0 .. MaxRead] /\ built \in Seq(0 .. MaxRead)
  /\ lock \in Workers \cup {Nil}
  /\ \A w \in Workers : wpc[w] = "build" => wheld[w] \in 0 .. MaxRead

LEMMA ListTypesInit == ASSUME EntriesSound, EN!Init PROVE ListTypes
BY DEF ListTypes, EntriesSound, EN!Init

LEMMA ListTypesStep ==
  ASSUME EntriesSound, EntriesInv, ListTypes, [EN!Next]_(EN!vars)
  PROVE  ListTypes'
<1> DEFINE ReadLists == entry.list \in 0 .. MaxRead /\ list \in [Hosts -> 0 .. MaxRead]
           Builder   == /\ built \in Seq(0 .. MaxRead) /\ lock \in Workers \cup {Nil}
                        /\ \A w \in Workers : wpc[w] = "build" => wheld[w] \in 0 .. MaxRead
<1>0. ReadLists /\ Builder /\ copying \in Copying /\ WorkTypes /\ MainTypes
  BY DEF ListTypes, EntriesInv
<1>1. ASSUME UNCHANGED EN!vars PROVE ListTypes'
  BY <1>1, <1>0 DEF ListTypes, EN!vars, EN!fixedVars, EN!mainVars, EN!ruleVars, EN!workVars
<1>2. ASSUME EN!Next PROVE copying' \in Copying
  BY <1>2, <1>0 DEF EN!Next, EN!fixedVars
<1>3. ASSUME EN!MainThread PROVE ReadLists' /\ Builder'
  <2>1. UNCHANGED <<built, EN!workVars>>
    BY <1>3 DEF EN!MainThread, EN!Config, EN!NextEntry, EN!Add, EN!Swap, EN!MoveList,
       EN!DeleteTable, EN!NullTable, EN!FreeEntry, EN!Finish, EN!ruleVars
  <2>2. entry'.list \in 0 .. MaxRead
    <3>1. CASE EN!NextEntry
      BY <3>1, <1>0 DEF EN!NextEntry, EntriesSound, MainTypes
    <3>2. CASE EN!Swap \/ EN!FreeEntry \/ EN!Finish
      BY <3>2, <1>0 DEF EN!Swap, EN!FreeEntry, EN!Finish, MainTypes
    <3>3. CASE UNCHANGED entry
      BY <3>3, <1>0
    <3> QED
      BY <1>3, <3>1, <3>2, <3>3 DEF EN!MainThread, EN!Config, EN!Add, EN!MoveList,
         EN!DeleteTable, EN!NullTable
  <2>3. list' \in [Hosts -> 0 .. MaxRead]
    <3>1. CASE EN!Add \/ EN!MoveList
      BY <3>1, <1>0 DEF EN!Add, EN!MoveList
    <3>2. CASE UNCHANGED list
      BY <3>2, <1>0
    <3> QED
      BY <1>3, <3>1, <3>2 DEF EN!MainThread, EN!Config, EN!NextEntry, EN!Swap, EN!DeleteTable,
         EN!NullTable, EN!FreeEntry, EN!Finish, EN!ruleVars
  <2> QED
    BY <1>0, <2>1, <2>2, <2>3 DEF EN!workVars
<1>4. ASSUME NEW w \in Workers, EN!Worker(w), UNCHANGED <<EN!mainVars, EN!argVars>>
      PROVE  ReadLists' /\ Builder'
  <2>1. ReadLists'
    BY <1>0, <1>4 DEF EN!Worker, EN!Accept, EN!Lock, EN!Build, EN!Table, EN!Search, EN!Fork,
       EN!Copy, EN!ruleVars, EN!mainVars
  <2>2. CASE EN!Lock(w)
    <3>1. wpc[w] = "lock" /\ wsvc[w] \in Hosts
      BY <2>2, <1>0, <1>4 DEF EN!Lock, EN!At, WorkTypes, MainTypes
    <3>2. list[wsvc[w]] \in 0 .. MaxRead
      BY <3>1, <1>0
    <3> QED
      BY <2>1, <2>2, <1>0, <3>1, <3>2 DEF EN!Lock, EN!Goes, EN!Holds, EN!ruleVars, WorkTypes
  <2>3. CASE EN!Build(w)
    <3>1. wheld[w] \in 0 .. MaxRead
      BY <2>3, <1>0 DEF EN!Build, EN!At
    <3>2. built' = Append(built, wheld[w]) /\ lock' = Nil
      BY <2>3 DEF EN!Build
    <3>3. built' \in Seq(0 .. MaxRead)
      BY <3>1, <3>2, <1>0
    <3>4. \A u \in Workers : wpc'[u] = "build" => wheld'[u] \in 0 .. MaxRead
      BY <2>3, <1>0 DEF EN!Build, EN!Goes, EN!Holds, WorkTypes
    <3> QED
      BY <2>1, <3>2, <3>3, <3>4
  <2>4. CASE (\E s \in Hosts : EN!Accept(w, s)) \/ EN!Table(w) \/ EN!Search(w) \/ EN!Fork(w)
             \/ EN!Copy(w)
    <3>1. built' = built /\ lock' = lock
      BY <2>4 DEF EN!Accept, EN!Table, EN!Search, EN!Fork, EN!Copy, EN!ruleVars
    <3>2. \A u \in Workers : wpc'[u] = "build" => wpc[u] = "build" /\ wheld'[u] = wheld[u]
      BY <2>4, <1>0 DEF EN!Accept, EN!Table, EN!Search, EN!Fork, EN!Copy, EN!Goes, EN!Holds,
         EN!Leaves, WorkTypes
    <3> QED
      BY <2>1, <3>1, <3>2, <1>0
  <2> QED
    BY <1>4, <2>1, <2>2, <2>3, <2>4 DEF EN!Worker
<1> HIDE DEF ReadLists, Builder
<1>5. ASSUME EN!Next PROVE ReadLists' /\ Builder'
  BY <1>3, <1>4, <1>5 DEF EN!Next
<1>6. ASSUME EN!Next PROVE ListTypes'
  BY <1>2, <1>5, <1>6 DEF ReadLists, Builder, ListTypes
<1> QED
  BY <1>1, <1>6

LEMMA EntriesTyped == ASSUME EntriesSound, EntriesInv, ListTypes PROVE EN!TypeOK
<1>1. MaxRead \in Nat /\ read \in 0 .. MaxRead
  BY DEF EntriesSound, EntriesInv, MainTypes
<1>2. \A v : Used(v) => v \in EN!Vectors
  BY <1>1 DEF Used, EN!Vectors
<1>3. entry.args \in EN!Vectors /\ args \in [Hosts -> EN!Vectors] /\ heap \subseteq EN!Vectors
  BY <1>2 DEF EntriesInv, ArgTypes
<1>4. DOMAIN built = 1 .. Len(built)
  BY DEF EntriesInv, RuleTypes
<1>5. mpc \in {"idle", "next", "add", "swap", "move", "delete", "null", "free"}
  BY DEF EntriesInv, MainTypes, Mid
<1> QED
  BY <1>1, <1>3, <1>4, <1>5 DEF EN!TypeOK, ListTypes, EntriesInv, MainTypes, ArgTypes,
     RuleTypes, WorkTypes

-----------------------------------------------------------------------------
(* The six together.                                                       *)

\* And of the composition.
Parts == {"minute", "host", "rules", "sections", "entries", "volumes"}
PeersInv ==
  /\ part \in Parts
  /\ TypeOK /\ HL!LimitInv /\ HL!OwnInv /\ AR!IInv /\ XC!IInv
  /\ EntriesInv /\ ListTypes /\ VolumeInv /\ ClockTypes

LEMMA PartSteps ==
  ASSUME [PeersNext]_<<part, vars, hostVars, ruleVars, sectionVars, entryVars, volumeVars>>
  PROVE  /\ [Next]_vars /\ [HL!Next]_(HL!vars) /\ [AR!Next]_(AR!vars)
         /\ [XC!Next]_(XC!vars) /\ [EN!Next]_(EN!vars) /\ [LV!Next]_(LV!vars)
<1>1. UNCHANGED hostVars => UNCHANGED HL!vars
  BY DEF hostVars, HL!vars, HL!connVars, HL!procVars, HL!thread, HL!reload
<1>2. UNCHANGED entryVars => UNCHANGED EN!vars
  BY DEF entryVars, EN!vars, EN!fixedVars, EN!mainVars, EN!argVars, EN!ruleVars, EN!workVars
<1>3. UNCHANGED volumeVars => UNCHANGED LV!vars
  BY DEF volumeVars, LV!vars
<1>4. UNCHANGED hostVars \/ HL!Next
  BY Zenon DEF PeersNext
<1>5. UNCHANGED entryVars \/ EN!Next
  BY Zenon DEF PeersNext
<1>6. UNCHANGED volumeVars \/ LV!Next
  BY Zenon DEF PeersNext
<1>7. UNCHANGED ruleVars => UNCHANGED AR!vars
  BY DEF ruleVars, AR!vars
<1>8. UNCHANGED ruleVars \/ AR!Next
  BY Zenon DEF PeersNext
<1>9. UNCHANGED sectionVars => UNCHANGED XC!vars
  BY DEF sectionVars, XC!vars
<1>10. UNCHANGED sectionVars \/ XC!Next
  BY Zenon DEF PeersNext
<1>11. UNCHANGED vars \/ Next
  BY Zenon DEF PeersNext
<1> QED
  BY <1>1, <1>2, <1>3, <1>4, <1>5, <1>6, <1>7, <1>8, <1>9, <1>10, <1>11, Zenon

LEMMA PeersStart == ASSUME PeersInit PROVE PeersInv
<1>1. Init /\ HL!Init /\ AR!Init /\ XC!Init /\ EN!Init /\ LV!Init
  BY DEF PeersInit
<1>2. part \in Parts
  BY DEF PeersInit, Parts
<1> QED
  BY <1>1, <1>2, PeersAssumption, LimiterTypeInit, HL!LimitInit, HL!OwnInit, AR!RadixInit,
     XC!InitIInv,
     EntriesInit, ListTypesInit, VolumeInit, ClockInit DEF PeersInv

LEMMA PeersStep ==
  ASSUME PeersInv,
         [PeersNext]_<<part, vars, hostVars, ruleVars, sectionVars, entryVars, volumeVars>>
  PROVE  PeersInv'
<1>1. HL!LimitInv' /\ HL!OwnInv'
  <2>1. HL!ListInv /\ HL!Private /\ HL!Bounded /\ HL!OwnInv
    BY DEF PeersInv, HL!LimitInv
  <2>2. HL!ListInv' /\ HL!Private' /\ HL!Bounded'
    BY <2>1, PeersAssumption, PartSteps, HL!ListStep, HL!PrivateStep, HL!BoundedStep
  <2>3. HL!Own' /\ HL!Single' /\ HL!Apart'
    BY <2>1, PeersAssumption, PartSteps, HL!OwnStep, HL!SingleStep, HL!ApartStep
  <2> QED
    BY <2>2, <2>3 DEF HL!LimitInv, HL!OwnInv
<1>2. EntriesInv'
  BY PeersAssumption, PartSteps, EntriesStep DEF PeersInv
<1>3. VolumeInv'
  BY PeersAssumption, PartSteps, VolumeStep DEF PeersInv
<1>4. AR!IInv'
  BY PeersAssumption, PartSteps, AR!RadixStep DEF PeersInv
<1>5. XC!IInv'
  BY PeersAssumption, PartSteps, XC!NextIInv DEF PeersInv
<1>6. TypeOK'
  BY PartSteps, LimiterTypeStep DEF PeersInv
<1>7. ListTypes'
  BY PeersAssumption, PartSteps, ListTypesStep DEF PeersInv
<1>8. ClockTypes'
  BY PeersAssumption, PartSteps, ClockStep DEF PeersInv
<1>9. part' \in Parts
  BY DEF PeersInv, PeersNext
<1> QED
  BY <1>1, <1>2, <1>3, <1>4, <1>5, <1>6, <1>7, <1>8, <1>9 DEF PeersInv

LEMMA PeersHold == PeersSpec => []PeersInv
  BY PeersStart, PeersStep, PTL DEF PeersSpec

\* Whatever the six do, their variables keep their types: no counter below zero, nothing in a
\* list that was not put there, no index past the end of what it points into.
THEOREM PeersTyped == PeersSpec => []PeersTypesOK
<1>1. PeersInv => PeersTypesOK
  <2> SUFFICES ASSUME PeersInv PROVE PeersTypesOK
    OBVIOUS
  <2>1. TypeOK /\ HL!TypeOK
    BY DEF PeersInv, HL!LimitInv, HL!ListInv
  <2>2. AR!TypeOK /\ XC!TypeOK
    BY PeersAssumption, AR!InvTyped, XC!InvTyped DEF PeersInv
  <2>3. EN!TypeOK /\ LV!TypeOK
    BY PeersAssumption, EntriesTyped, VolumesTyped DEF PeersInv
  <2> QED
    BY <2>1, <2>2, <2>3 DEF PeersTypesOK, Of, PeersInv, Parts
<1> QED
  BY <1>1, PeersHold, PTL

\* The limit on one address: its lists agree whatever workers, exits and reloads do, it holds
\* as it is meant, and as compiled it refuses nobody and deletes nothing that is in use until
\* a reload has removed it.
THEOREM PerHostKept == PeersSpec => []PerHost
<1>1. PeersInv => PerHost
  <2> SUFFICES ASSUME PeersInv PROVE PerHost
    OBVIOUS
  <2>1. HL!ListInv /\ HL!LimitInv /\ HL!OwnInv
    BY DEF PeersInv, HL!LimitInv
  <2>2. HL!Linked
    BY <2>1 DEF HL!ListInv
  <2>3. HL!PerHostAsMeant
    BY <2>1, PeersAssumption, HL!LimitHolds
  <2>4. HL!PrivateAsCompiled
    BY <2>1, HL!OwnHolds
  <2> QED
    BY <2>2, <2>3, <2>4 DEF PerHost
<1> QED
  BY <1>1, PeersHold, PTL

\* The access list: in whatever order the rules of both families were inserted, the longest
\* that covers an address decides, and of equal ones the first; and the trie stays one, for
\* which the assertions of isc_radix_insert() and _clear_radix() hold.
THEOREM RulesStayRight == PeersSpec => []RulesRight
<1>1. PeersInv => RulesRight
  BY PeersAssumption, AR!InvBest, AR!InvTree DEF PeersInv, RulesRight
<1> QED
  BY <1>1, PeersHold, PTL

\* The sections of the file: an entry is that of its section and of no section before it,
\* and its list of addresses is what only_from and no_access say.
THEOREM EntriesStayRight == PeersSpec => []EntriesRight
<1>1. PeersInv => EntriesRight
  BY PeersAssumption, XC!InvAlone, XC!InvLists DEF PeersInv, EntriesRight
<1> QED
  BY <1>1, PeersHold, PTL

\* However a reload is interleaved with the workers of a service: arguments of its own are
\* freed once, when a reload has replaced them, and a worker that meets no reload at its
\* service is told by the rules in force, from a table that exists.
THEOREM ReadsAreCurrent == PeersSpec => []ReadsCurrent
<1>1. PeersInv => ReadsCurrent
  BY EntriesRead DEF PeersInv, ReadsCurrent
<1> QED
  BY <1>1, PeersHold, PTL

\* The files of the log are in order, and old ones are gone in time.
THEOREM VolumesStayRight == PeersSpec => []VolumesRight
<1>1. PeersInv => VolumesRight
  BY PeersAssumption, PurgedFromInv DEF PeersInv, VolumeInv, FilesInv, VolumesRight
<1> QED
  BY <1>1, PeersHold, PTL

\* No line goes before its time.
THEOREM LinesStay == PeersSpec => LinesKept
<1>1. PeersInv /\ [PeersNext]_<<part, vars, hostVars, ruleVars, sectionVars, entryVars,
                                volumeVars>> =>
        [(file' = -1 /\ newest # -1 /\ ~slept) =>
            now - newest > purge - (period + MaxGap)]_(LV!vars)
  BY PeersAssumption, PartSteps, RemovedWhenOld DEF PeersInv
<1> QED
  BY <1>1, PeersHold, PTL DEF PeersSpec, LinesKept, LV!LinesKept
=============================================================================

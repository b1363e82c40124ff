----------------------------- MODULE CpmLimiter -----------------------------
(***************************************************************************)
(* cmpip.cpp: the limit on connections per minute from one address.  Each  *)
(* host has a node with a ring of counters, one per CHTGRAN seconds; nodes *)
(* are kept in the order of their last use.  A thread reads the clock and  *)
(* then takes the lock.                                                    *)
(***************************************************************************)
EXTENDS Naturals, Sequences, SequencesExt, FiniteSetsExt

CONSTANTS
  Hosts,        \* <<service, address>> pairs
  Threads,      \* the threads that call cpmip()
  Size,         \* CHTSIZE
  Gran,         \* CHTGRAN; a minute is Size * Gran
  MaxCpm,       \* se_cpmmax
  CpmWait,      \* se_cpmwait; 0 is "no delay"
  MaxTime,      \* bound: the clock stops here
  MaxAsked      \* bound: connections of one host that are counted in one tick

ASSUME CpmAssumption ==
  /\ {Size, Gran, MaxCpm, MaxAsked} \subseteq Nat \ {0}
  /\ {CpmWait, MaxTime} \subseteq Nat

VARIABLES
  clock,        \* time(nullptr)
  calls,        \* what each thread has read before the lock: <<host, now>>, or <<>>
  lru,          \* list_: the hosts that have a node, least recently used first
  times,        \* ch_times
  ltime,        \* ch_ltime
  dtime,        \* ch_dtime
  asked,        \* history: connections, by host and tick
  admitted,     \* history: those let through
  kept,         \* history: those let through since the host was last given a node
  until         \* history: the end of the penalty the host was last given, 0 if none

nodeVars == <<lru, times, ltime, dtime>>
history  == <<asked, admitted, kept, until>>
vars == <<clock, calls, nodeVars, history>>

Ticks == 0 .. MaxTime \div Gran

Counts == [Hosts -> [Ticks -> Nat]]

TypeOK ==
  /\ clock \in 0 .. MaxTime
  /\ calls \in [Threads -> {<<>>} \cup (Hosts \X (0 .. clock))]
  /\ lru \in Seq(Hosts) /\ IsInjective(lru)
  /\ times \in [Hosts -> [0 .. Size - 1 -> [ticks : Ticks, count : Nat]]]
  /\ ltime \in [Hosts -> 0 .. MaxTime]
  /\ {dtime, until} \subseteq [Hosts -> 0 .. MaxTime + CpmWait]
  /\ {asked, admitted, kept} \subseteq Counts

NoTimes == [i \in 0 .. Size - 1 |-> [ticks |-> 0, count |-> 0]]
Nothing == [h \in Hosts |-> [k \in Ticks |-> 0]]

Init ==
  /\ clock = 0
  /\ calls = [t \in Threads |-> <<>>]
  /\ lru = <<>>
  /\ times = [h \in Hosts |-> NoTimes]
  /\ ltime = [h \in Hosts |-> 0]
  /\ dtime = [h \in Hosts |-> 0]
  /\ asked = Nothing /\ admitted = Nothing /\ kept = Nothing
  /\ until = [h \in Hosts |-> 0]

Tick ==
  /\ clock < MaxTime
  /\ clock' = clock + 1
  /\ UNCHANGED <<calls, nodeVars, history>>

\* check_limit(): the clock is read before the lock is taken.
ReadClock(t, h) ==
  /\ calls[t] = <<>> /\ asked[h][clock \div Gran] < MaxAsked
  /\ calls' = [calls EXCEPT ![t] = <<h, clock>>]
  /\ UNCHANGED <<clock, nodeVars, history>>

-----------------------------------------------------------------------------
(* get_node(rss, service, now): which node the host gets.                  *)

Known(h) == h \in ToSet(lru)

\* "expire an existing, re-cycle node": the least recently used one, unless it is under
\* penalty.  Its age is meant to be looked at.
Recyclable(now) ==
  /\ lru # <<>>
  /\ now + Size * Gran > ltime[Head(lru)] /\ now >= dtime[Head(lru)]

\* The node before the check: its counters, its penalty, and the hosts that remain.  The
\* copy constructor sets no ch_dtime: a new node has the 0 of ObjectPool's calloc().
GetNode(h, now) ==
  IF Known(h)
  THEN [times |-> times[h], dtime |-> dtime[h],
        rest |-> RemoveAt(lru, CHOOSE i \in DOMAIN lru : lru[i] = h)]
  ELSE IF Recyclable(now)
  THEN [times |-> NoTimes, dtime |-> dtime[Head(lru)], rest |-> Tail(lru)]
  ELSE [times |-> NoTimes, dtime |-> 0, rest |-> lru]

-----------------------------------------------------------------------------
(* check_limit() under the lock.                                           *)

\* What the counters add up to: the number of the connections they count.
Counted(count) == UNION {{x} \X (1 .. count[x]) : x \in DOMAIN count}
Total(count)   == Cardinality(Counted(count))

BumpNoReset(ring, k) ==  \* mutant: a counter of an earlier round is counted on
  [ring EXCEPT ![k % Size] = [ticks |-> k, count |-> @.count + 1]]

\* The counter of this tick, restarted when it is left over from an earlier round.
Bump(ring, k) ==
  [ring EXCEPT ![k % Size] =
     [ticks |-> k, count |-> IF @.ticks = k THEN @.count + 1 ELSE 1]]

UsageOfTick(ring, k) ==  \* mutant: only the current tick is added up
  ring[k % Size].count

\* The connections of the last minute.
Usage(ring, k) ==
  LET recent == {i \in 0 .. Size - 1 : ring[i].ticks <= k /\ ring[i].ticks + Size >= k}
  IN  Total([i \in recent |-> ring[i].count])

Count(hist, h, k) == [hist EXCEPT ![h][k] = @ + 1]

\* The connection is let through, refused for its count, or refused under penalty.
CheckLimit(t) ==
  /\ calls[t] # <<>>
  /\ LET h       == calls[t][1]
         now     == calls[t][2]
         k       == now \div Gran
         node    == GetNode(h, now)
         waiting == node.dtime # 0 /\ now < node.dtime /\ CpmWait > 0
         ring    == IF waiting THEN node.times ELSE Bump(node.times, k)
         refused == ~waiting /\ Usage(ring, k) > MaxCpm
         since   == IF Known(h) THEN kept ELSE [kept EXCEPT ![h] = Nothing[h]]
     IN  /\ lru' = Append(node.rest, h)
         /\ times' = [times EXCEPT ![h] = ring]
         /\ ltime' = [ltime EXCEPT ![h] = now]
         /\ dtime' = [dtime EXCEPT ![h] = IF waiting THEN node.dtime
                                          ELSE IF refused /\ CpmWait > 0 THEN now + CpmWait
                                          ELSE 0]
         /\ asked' = Count(asked, h, k)
         /\ IF waiting \/ refused
            THEN kept' = since /\ UNCHANGED admitted
            ELSE kept' = Count(since, h, k) /\ admitted' = Count(admitted, h, k)
         /\ until' = [until EXCEPT ![h] = IF refused THEN now + CpmWait ELSE @]
  /\ calls' = [calls EXCEPT ![t] = <<>>]
  /\ UNCHANGED clock

Next == Tick \/ \E t \in Threads : CheckLimit(t) \/ \E h \in Hosts : ReadClock(t, h)

Spec == Init /\ [][Next]_vars

-----------------------------------------------------------------------------
(* Properties.                                                             *)

\* The ticks of the minute that ends with tick k.
Minute(k) == {j \in Ticks : j <= k /\ k < j + Size}

InMinute(hist, h, k) == Total([j \in Minute(k) |-> hist[h][j]])

\* A host that keeps its node is never let through more than se_cpmmax times in a minute,
\* wherever the minute starts and whatever was left in the ring.
KeptWithinLimit == \A h \in Hosts, k \in Ticks : InMinute(kept, h, k) <= MaxCpm

\* A connection is refused only when its host has asked more than se_cpmmax times in the
\* last minute, or was refused for that within the last se_cpmwait seconds.
RefusedOnlyOver ==
  [][\A h \in Hosts, k \in Ticks :
       asked'[h][k] > asked[h][k] /\ admitted'[h][k] = admitted[h][k] =>
         InMinute(asked', h, k) > MaxCpm \/ ltime'[h] < until[h]]_vars

\* inetd.txt: "once the maximum is reached, further connections from this IP address will be
\* dropped until the end of the minute".
WithinLimit == \A h \in Hosts, k \in Ticks : InMinute(admitted, h, k) <= MaxCpm

=============================================================================

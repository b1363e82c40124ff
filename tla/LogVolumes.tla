----------------------------- MODULE LogVolumes -----------------------------
(***************************************************************************)
(* libService/Logger.cpp: the files of the log.  The consumer starts a new *)
(* one when roll_time_ has come or the current one is full, and after each *)
(* drain removes those whose names say that they are old.  The open file   *)
(* and any one other are followed: the files do not depend on each other.  *)
(***************************************************************************)
EXTENDS Integers

CONSTANTS
  Day,          \* 86400
  Periods,      \* values of logger_age
  Purges,       \* values of logger_purge; 0: nothing is removed
  MaxGap,       \* the longest time between two turns of the consumer (60 s and a drain)
  MaxSleep,     \* the longest time the system, and the consumer with it, sleeps
  MaxNow        \* bound: the clock

VARIABLES
  now,          \* the clock
  last,         \* the consumer's last turn
  period,       \* time_period_
  purge,        \* purge_period_
  rollAt,       \* roll_time_
  purgeAt,      \* purge_time_; 0: never
  cur,          \* the time in the name of the open file
  empty,        \* nothing is written to it
  step,         \* the consumer: "drain", "purge"
  file,         \* a file, by the time in its name; -1: none is followed
  newest,       \* history: the time of its newest line; -1: it has none
  slept         \* history: the system has slept for longer than MaxGap

vars == <<now, last, period, purge, rollAt, purgeAt, cur, empty, step, file, newest, slept>>

Times == 0 .. MaxNow

Lesser(a, b) == IF a < b THEN a ELSE b

\* roll_time(): the next multiple of the period in the day of t, or the next day.
RollTime(t, p) ==
  LET midnight == t - (t % Day)
      next     == t + p - ((t % Day) % p)
  IN IF p > 0 /\ next < midnight + Day THEN next ELSE midnight + Day

TypeOK ==
  /\ now \in Times /\ last \in Times
  /\ period \in Periods /\ purge \in Nat
  /\ rollAt \in Nat /\ purgeAt \in Nat
  /\ cur \in Times /\ empty \in BOOLEAN
  /\ step \in {"drain", "purge"}
  /\ file \in Times \cup {-1} /\ newest \in Times \cup {-1}
  /\ slept \in BOOLEAN

\* start(): a shorter purge period is raised to two roll periods.
Init ==
  /\ now \in 1 .. Day /\ last = now
  /\ period \in Periods
  /\ \E asked \in Purges :
       /\ purge = IF asked > 0 /\ asked < 2 * period THEN 2 * period ELSE asked
       /\ purgeAt = IF asked > 0 THEN RollTime(now, asked \div 2) ELSE 0
  /\ rollAt = RollTime(now, period)
  /\ cur = now /\ empty = TRUE
  /\ step = "drain"
  /\ file \in {-1, cur} /\ newest = -1
  /\ slept = FALSE

-----------------------------------------------------------------------------
Tick ==
  /\ step = "drain" /\ now < MaxNow /\ now - last < MaxGap
  /\ now' = now + 1
  /\ UNCHANGED <<last, period, purge, rollAt, purgeAt, cur, empty, step, file, newest, slept>>

Sleep ==
  /\ step = "drain"
  /\ \E n \in MaxGap + 1 .. MaxSleep : now + n <= MaxNow /\ now' = now + n
  /\ slept' = TRUE
  /\ UNCHANGED <<last, period, purge, rollAt, purgeAt, cur, empty, step, file, newest>>

\* FileStream::push().
Line ==
  /\ step = "drain"
  /\ empty' = FALSE
  /\ newest' = IF file = cur THEN now ELSE newest
  /\ UNCHANGED <<now, last, period, purge, rollAt, purgeAt, cur, step, file, slept>>

RollLate ==  \* mutant: the name is the time of the roll, whenever it was due
  /\ cur' = now
  /\ rollAt' = RollTime(rollAt, period)
  /\ empty' = (cur' = cur => empty)
  /\ \/ file = -1 /\ cur' # cur /\ file' = cur' /\ UNCHANGED newest
     \/ file' = (IF file = cur /\ empty /\ cur' # cur THEN -1 ELSE file) /\ UNCHANGED newest

\* consumer_roll(): the name is the time the roll was due.  close() removes an empty file,
\* one of the same name is appended to.
Roll ==
  /\ cur' = Lesser(now, rollAt)
  /\ rollAt' = RollTime(cur', period)
  /\ empty' = (cur' = cur => empty)
  /\ \/ file = -1 /\ cur' # cur /\ file' = cur'
     \/ file' = IF file = cur /\ empty /\ cur' # cur THEN -1 ELSE file
  /\ UNCHANGED newest

\* consumer_check(): roll_time_ has come, or the file may be full.
Due  == now >= rollAt
Full == ~empty

\* It is asked within a drain,
Check ==
  /\ step = "drain" /\ (Due \/ Full)
  /\ Roll
  /\ UNCHANGED <<now, last, period, purge, purgeAt, step, slept>>

\* and at its end.
EndDrain ==
  /\ step = "drain"
  /\ \/ (Due \/ Full) /\ Roll
     \/ ~Due /\ UNCHANGED <<cur, rollAt, empty, file, newest>>
  /\ step' = "purge" /\ last' = now
  /\ UNCHANGED <<now, period, purge, purgeAt, slept>>

PurgeUnadjusted(stamp) == file # -1 /\ file # cur /\ file < stamp - (purge \div 2)  \* mutant

PurgeLate(stamp) == file # -1 /\ file # cur /\ file < stamp - 2 * purge  \* mutant

\* consumer_purge(); the open file cannot be removed.
Expired(stamp) == file # -1 /\ file # cur /\ file < stamp - purge

Purge ==
  /\ step = "purge" /\ step' = "drain"
  /\ IF purgeAt = 0 \/ now < purgeAt
     THEN UNCHANGED <<purgeAt, file, newest>>
     ELSE LET stamp == Lesser(now, purgeAt) IN
            /\ purgeAt' = RollTime(stamp, purge \div 2)
            /\ file' = IF Expired(stamp) THEN -1 ELSE file
            /\ newest' = IF Expired(stamp) THEN -1 ELSE newest
  /\ UNCHANGED <<now, last, period, purge, rollAt, cur, empty, slept>>

Next == Tick \/ Sleep \/ Line \/ Check \/ EndDrain \/ Purge

Spec == Init /\ [][Next]_vars

-----------------------------------------------------------------------------
(* Properties.                                                             *)

\* The open file has the newest name, no later than now, and the next roll lies after it:
\* files are named in the order in which they were written.
Ordered == cur <= now /\ cur < rollAt /\ file <= cur

\* A line is kept for the purge period, less the time a file is written to.  This is so
\* while the consumer runs: after a sleep it works through the missed days with old names,
\* and purge_time_, which advances in longer steps than roll_time_, overtakes them.
LinesKept ==
  [][(file' = -1 /\ newest # -1 /\ ~slept) => now - newest > purge - (period + MaxGap)]_vars

\* What is to be purged is removed half a purge period after it may be, or a day, at the
\* latest.
PurgedInTime ==
  (purgeAt # 0 /\ file \notin {-1, cur} /\ ~slept) =>
    now - file <= purge + Lesser(Day, (purge \div 2) + 1) + MaxGap
=============================================================================

------------------------------- MODULE Logger -------------------------------
(***************************************************************************)
(* libService/Logger.cpp: any thread appends a line to a guarded queue and *)
(* wakes the consumer if the queue was empty; the consumer takes the whole *)
(* queue at a time and writes it to a file that it replaces now and then.  *)
(***************************************************************************)
EXTENDS Integers, Sequences

CONSTANTS
  Pushers,      \* threads that log
  MaxLines,     \* bound: lines pushed
  Period,       \* lines written between two checks of the file's limits (32)
  OpenFails     \* may the file of start() or of a roll fail to open?

VARIABLES
  impl,         \* start(): "none", "started", "nofile" (and no consumer), "stopped"
  queue,        \* queue_, numbered in the order of push_back()
  tail,         \* the number of the last line
  ppc,          \* pusher -> "idle", "signal": the queue was empty
  wake,         \* wake_event_, reset by the wait it ends
  stop,         \* stop_event_
  cpc,          \* the consumer: "none", "wait", "steal", "write", "check", "flush", "ended"
  term,         \* "no", "asked", "last": the drain after the loop
  slice,        \* consumer_drain(): the lines it took
  block,        \* and how many it has written
  opened,       \* the file is open
  log,          \* history: the lines handled, in order
  lost,         \* history: those there was no file for
  atStop        \* history: tail when stop() was called; -1: it was not

pushVars == <<queue, tail, ppc, wake>>
consVars == <<cpc, term, slice, block, opened, log, lost>>
vars == <<impl, pushVars, stop, consVars, atStop>>

TypeOK ==
  /\ impl \in {"none", "started", "nofile", "stopped"}
  /\ queue \in Seq(Nat) /\ tail \in 0 .. MaxLines
  /\ ppc \in [Pushers -> {"idle", "signal"}]
  /\ wake \in BOOLEAN /\ stop \in BOOLEAN
  /\ cpc \in {"none", "wait", "steal", "write", "check", "flush", "ended"} /\ term \in {"no", "asked", "last"}
  /\ slice \in Seq(Nat) /\ block \in Nat /\ opened \in BOOLEAN
  /\ log \in Seq(Nat) /\ lost \subseteq 1 .. MaxLines /\ atStop \in -1 .. MaxLines

Init ==
  /\ impl = "none"
  /\ queue = <<>> /\ tail = 0 /\ ppc = [p \in Pushers |-> "idle"] /\ wake = FALSE
  /\ stop = FALSE
  /\ cpc = "none" /\ term = "no" /\ slice = <<>> /\ block = 0 /\ opened = FALSE
  /\ log = <<>> /\ lost = {} /\ atStop = -1

-----------------------------------------------------------------------------
(* Logger::start(), stop(): one thread.                                    *)

\* What LoggerImpl::start() returns is not looked at: without a file there is a queue and
\* no consumer.
Start ==
  /\ impl = "none"
  /\ \/ impl' = "started" /\ cpc' = "wait" /\ opened' = TRUE
     \/ OpenFails /\ impl' = "nofile" /\ UNCHANGED <<cpc, opened>>
  /\ UNCHANGED <<pushVars, stop, term, slice, block, log, lost, atStop>>

\* SetEvent; the thread is then waited for without a limit.
Stop ==
  /\ impl = "started" /\ ~stop
  /\ stop' = TRUE /\ atStop' = tail
  /\ UNCHANGED <<impl, pushVars, consVars>>

\* Callers that are still about to push would use what is deleted here: they are expected
\* to have gone.
Stopped ==
  /\ impl = "started" /\ stop /\ cpc = "ended"
  /\ impl' = "stopped"
  /\ UNCHANGED <<pushVars, stop, consVars, atStop>>

-----------------------------------------------------------------------------
(* Logger::push(), LoggerImpl::push().                                     *)

\* push_back() under the lock of the queue; before start() the line goes to the console.
PushAfter(p) ==  \* mutant: whether the queue is empty is asked after the insertion
  /\ impl \in {"started", "nofile"} /\ ppc[p] = "idle" /\ tail < MaxLines
  /\ tail' = tail + 1
  /\ queue' = Append(queue, tail')
  /\ UNCHANGED <<impl, ppc, wake, stop, consVars, atStop>>

Push(p) ==
  /\ impl \in {"started", "nofile"} /\ ppc[p] = "idle" /\ tail < MaxLines
  /\ tail' = tail + 1
  /\ queue' = Append(queue, tail')
  /\ ppc' = [ppc EXCEPT ![p] = IF queue = <<>> THEN "signal" ELSE "idle"]
  /\ UNCHANGED <<impl, wake, stop, consVars, atStop>>

Signal(p) ==
  /\ ppc[p] = "signal"
  /\ wake' = TRUE /\ ppc' = [ppc EXCEPT ![p] = "idle"]
  /\ UNCHANGED <<impl, queue, tail, stop, consVars, atStop>>

-----------------------------------------------------------------------------
(* __consumer(), consumer_drain().  It also looks after 60 s: only Spec    *)
(* and the invariants allow for that, liveness does not need it.           *)

WokenLeaves ==  \* mutant: a stop ends the loop without another drain
  /\ cpc = "wait" /\ (stop \/ wake)
  /\ IF stop THEN cpc' = "ended" /\ UNCHANGED wake ELSE wake' = FALSE /\ cpc' = "steal"
  /\ UNCHANGED <<impl, queue, tail, ppc, stop, term, slice, block, opened, log, lost, atStop>>

Woken ==
  /\ cpc = "wait" /\ (stop \/ wake)
  /\ IF stop THEN term' = "asked" /\ UNCHANGED wake ELSE wake' = FALSE /\ UNCHANGED term
  /\ cpc' = "steal"
  /\ UNCHANGED <<impl, queue, tail, ppc, stop, slice, block, opened, log, lost, atStop>>

TimedOut ==
  /\ cpc = "wait" /\ ~stop /\ ~wake
  /\ cpc' = "steal"
  /\ UNCHANGED <<impl, pushVars, stop, term, slice, block, opened, log, lost, atStop>>

Steal ==
  /\ cpc = "steal"
  /\ slice' = queue /\ queue' = <<>> /\ block' = 0
  /\ cpc' = IF queue = <<>> THEN "flush" ELSE "write"
  /\ UNCHANGED <<impl, tail, ppc, wake, stop, term, opened, log, lost, atStop>>

\* FileStream::push() asserts that there is a file, and does nothing without one.
Write ==
  /\ cpc = "write"
  /\ log' = Append(log, Head(slice)) /\ slice' = Tail(slice)
  /\ lost' = IF opened THEN lost ELSE lost \cup {Head(slice)}
  /\ block' = (block + 1) % Period
  /\ cpc' = IF block' = 0 THEN "check" ELSE IF slice' = <<>> THEN "flush" ELSE "write"
  /\ UNCHANGED <<impl, pushVars, stop, term, opened, atStop>>

\* consumer_check(), consumer_roll(); whether it is time for another file is LogVolumes.
MayRoll == UNCHANGED opened \/ opened' = TRUE \/ (OpenFails /\ opened' = FALSE)

Check ==
  /\ cpc = "check"
  /\ MayRoll
  /\ cpc' = IF slice = <<>> THEN "flush" ELSE "write"
  /\ UNCHANGED <<impl, pushVars, stop, term, slice, block, log, lost, atStop>>

\* The end of consumer_drain(); after the last turn of the loop there is one more.
Flush ==
  /\ cpc = "flush"
  /\ MayRoll
  /\ cpc' = CASE term = "no" -> "wait" [] term = "asked" -> "steal" [] term = "last" -> "ended"
  /\ term' = IF term = "asked" THEN "last" ELSE term
  /\ UNCHANGED <<impl, pushVars, stop, slice, block, log, lost, atStop>>

-----------------------------------------------------------------------------
Consumer == Woken \/ Steal \/ Write \/ Check \/ Flush

Next == \/ Start \/ Stop \/ Stopped \/ Consumer \/ TimedOut
        \/ \E p \in Pushers : Push(p) \/ Signal(p)

Spec == Init /\ [][Next]_vars

FairSpec == Spec /\ WF_vars(Consumer) /\ \A p \in Pushers : WF_vars(Signal(p))

-----------------------------------------------------------------------------
(* Properties.                                                             *)

\* Lines that wait have a wakeup on its way, or a consumer that is not asleep: the first
\* pusher signals after it has let go of the queue, and the consumer may have taken the
\* queue, and others have filled it again, in between.
NoLostWakeup ==
  (impl = "started" /\ queue # <<>> /\ cpc = "wait") => wake \/ stop \/ \E p \in Pushers : ppc[p] = "signal"

\* With a consumer, Logger keeps what Log promises, and its 60 s are not needed for it.
\* (Without a file nothing is promised: start() reports success, and lines queue for ever.)
L == INSTANCE Log WITH
  pushed <- IF impl = "nofile" THEN 0 ELSE tail,
  due <- atStop,
  open <- cpc # "ended"

LogSpec == L!Spec
=============================================================================

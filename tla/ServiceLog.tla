----------------------------- MODULE ServiceLog -----------------------------
(***************************************************************************)
(* Service.cpp: what the server prints reaches the log.  stderr and stdout *)
(* are reopened on instances of a named pipe; the logger thread keeps one  *)
(* instance listening, reads the others and hands their lines to Logger.   *)
(* Text is a sequence of "x" and "n", a newline; each stream has one       *)
(* writer, and what matters of carriage returns and zero bytes is left out.*)
(***************************************************************************)
EXTENDS Naturals, Sequences, SequencesExt

CONSTANTS
  Size,         \* of an endpoint's buffer, and of the pipe's (8192 each)
  MaxText       \* bound: characters printed

Sound == Size \in Nat \ {0}

Streams == 1 .. 2              \* stderr, stdout
Instances == Streams \cup {3}  \* instance i takes the i-th client

VARIABLES
  opened,       \* streams reopened on the pipe
  opening,      \* Service::Initialise() is at it
  pipe,         \* stream -> text in the pipe
  ended,        \* the server has ended
  stop,         \* logger_stop_event_; "clean": it was set when the server had ended
  logging,      \* the logger thread runs,
  created,      \* has an instance that it is about to set up; 0: none,
  terminate,    \* and has seen the stop
  ep,           \* instance -> "none", "created", "connect", "reading"; "ready", "deaf": it had
                \* a client before it was set up, and ioevent was left set or not
  buf,          \* stream -> text in the endpoint's buffer, a line that goes on
  lines,        \* stream -> lines logged
  printed       \* history: stream -> text printed

initVars == <<opened, opening>>
endpoint == <<logging, created, terminate, ep>>
text     == <<buf, lines>>
vars == <<initVars, pipe, ended, stop, endpoint, text, printed>>

Text == Seq({"x", "n"})

TypeOK ==
  /\ opened \in 0 .. 2 /\ opening \in BOOLEAN
  /\ pipe \in [Streams -> Text] /\ buf \in [Streams -> Text] /\ printed \in [Streams -> Text]
  /\ lines \in [Streams -> Seq(Text)]
  /\ ended \in BOOLEAN /\ stop \in {"no", "late", "clean"} /\ terminate \in BOOLEAN
  /\ logging \in BOOLEAN /\ created \in {0} \cup Instances
  /\ ep \in [Instances -> {"none", "created", "connect", "reading", "ready", "deaf"}]
  /\ \A s \in Streams : Len(pipe[s]) <= Size /\ Len(buf[s]) < Size

Init ==
  /\ opened = 0 /\ opening = TRUE
  /\ pipe = [s \in Streams |-> <<>>] /\ buf = pipe /\ printed = pipe
  /\ lines = [s \in Streams |-> <<>>]
  /\ ended = FALSE /\ stop = "no"
  /\ logging = TRUE /\ created = 1 /\ terminate = FALSE
  /\ ep = [i \in Instances |-> IF i = 1 THEN "created" ELSE "none"]

-----------------------------------------------------------------------------
(* Service::Initialise(), the server, Shutdown().                          *)

\* freopen() takes the instance that was created last, listened to or not.
Open ==
  /\ opening /\ opened < 2 /\ ep[opened + 1] \in {"created", "connect"}
  /\ opened' = opened + 1 /\ opening' = (opened' < 2)
  /\ UNCHANGED <<pipe, ended, stop, endpoint, text, printed>>

\* After 30 s stdout stays what it is.
GiveUp ==
  /\ opening /\ opened = 1 /\ ep[2] = "none"
  /\ opening' = FALSE
  /\ UNCHANGED <<opened, pipe, ended, stop, endpoint, text, printed>>

\* The server runs when the streams are open; a full pipe makes it wait.
CanPut(s) == ~opening /\ ~ended /\ s <= opened /\ Len(pipe[s]) < Size

Put(s, c) ==
  /\ CanPut(s) /\ Len(printed[1]) + Len(printed[2]) < MaxText
  /\ pipe' = [pipe EXCEPT ![s] = Append(@, c)]
  /\ printed' = [printed EXCEPT ![s] = Append(@, c)]
  /\ UNCHANGED <<initVars, ended, stop, endpoint, text>>

\* It does not end while it waits.
End ==
  /\ \A s \in 1 .. opened : CanPut(s)
  /\ ended' = TRUE
  /\ UNCHANGED <<initVars, pipe, stop, endpoint, text, printed>>

\* Shutdown() waits for the server, at most 30 s.
Stop ==
  /\ ~opening /\ stop = "no"
  /\ stop' = IF ended THEN "clean" ELSE "late"
  /\ UNCHANGED <<initVars, pipe, ended, endpoint, text, printed>>

-----------------------------------------------------------------------------
(* logger_body().                                                          *)

\* CompletionSetup() of a new instance.  ConnectNamedPipe fails with ERROR_PIPE_CONNECTED
\* when there is a client already; no read is started then.
Setup ==
  /\ created # 0 /\ created' = 0
  /\ \E state \in IF opened < created THEN {"connect"} ELSE {"ready", "deaf"} :
       ep' = [ep EXCEPT ![created] = state]
  /\ UNCHANGED <<initVars, pipe, ended, stop, logging, terminate, text, printed>>

Polls == logging /\ created = 0

\* A client has come: its first read is started, and another instance created.
Connected(i) ==
  /\ Polls /\ i < 3 /\ ep[i] = "connect" /\ opened >= i
  /\ created' = i + 1
  /\ ep' = [ep EXCEPT ![i] = "reading", ![i + 1] = "created"]
  /\ UNCHANGED <<initVars, pipe, ended, stop, logging, terminate, text, printed>>

\* An endpoint that had its client too early and is polled all the same: an assertion of
\* the debug build; the loop then starts to read.  Another instance is not created.
Unexpected(i) ==
  /\ Polls /\ ep[i] = "ready"
  /\ ep' = [ep EXCEPT ![i] = "reading"]
  /\ UNCHANGED <<initVars, pipe, ended, stop, logging, created, terminate, text, printed>>

\* A line that is whole is logged, unless it is empty.
NoLines == [done |-> <<>>, rest |-> <<>>]
Closed(found) == IF found.rest = <<>> THEN found.done ELSE Append(found.done, found.rest)

Scan(found, c) ==
  IF c = "n" THEN [done |-> Closed(found), rest |-> <<>>]
  ELSE [done |-> found.done, rest |-> Append(found.rest, c)]

\* The lines of a text, each without its newline and none empty, and what is left over.
Lines(t) ==
  LET found[n \in 0 .. Len(t)] == IF n = 0 THEN NoLines ELSE Scan(found[n - 1], t[n])
  IN  found[Len(t)]

ReadForgets(s, n) ==  \* mutant: the first line starts where the chunk does
  /\ Polls /\ ep[s] = "reading" /\ n <= Len(pipe[s]) /\ Len(buf[s]) + n <= Size
  /\ LET chunk == SubSeq(pipe[s], 1, n)
         data  == buf[s] \o chunk
         found == IF Contains(chunk, "n") THEN Lines(chunk)
                  ELSE IF Len(data) = Size THEN [done |-> <<data>>, rest |-> <<>>]
                  ELSE [done |-> <<>>, rest |-> data]
     IN /\ lines' = [lines EXCEPT ![s] = @ \o found.done]
        /\ buf' = [buf EXCEPT ![s] = found.rest]
  /\ pipe' = [pipe EXCEPT ![s] = SubSeq(@, n + 1, Len(@))]
  /\ UNCHANGED <<initVars, ended, stop, endpoint, printed>>

ReadKeepsFull(s, n) ==  \* mutant: a full buffer without a newline is not logged
  /\ Polls /\ ep[s] = "reading" /\ n <= Len(pipe[s]) /\ Len(buf[s]) + n <= Size
  /\ LET chunk == SubSeq(pipe[s], 1, n)
         data  == buf[s] \o chunk
         found == IF Contains(chunk, "n") THEN Lines(data) ELSE [done |-> <<>>, rest |-> data]
     IN /\ lines' = [lines EXCEPT ![s] = @ \o found.done]
        /\ buf' = [buf EXCEPT ![s] = found.rest]
  /\ pipe' = [pipe EXCEPT ![s] = SubSeq(@, n + 1, Len(@))]
  /\ UNCHANGED <<initVars, ended, stop, endpoint, printed>>

\* A chunk of what is in the pipe, as much as the buffer takes.  Its lines are logged, the
\* first with what the buffer holds; without any, a full buffer is.  The next read is
\* started at once.
Read(s, n) ==
  /\ Polls /\ ep[s] = "reading" /\ n <= Len(pipe[s]) /\ Len(buf[s]) + n <= Size
  /\ LET chunk == SubSeq(pipe[s], 1, n)
         data  == buf[s] \o chunk
         found == IF Contains(chunk, "n") THEN Lines(data)
                  ELSE IF Len(data) = Size THEN [done |-> <<data>>, rest |-> <<>>]
                  ELSE [done |-> <<>>, rest |-> data]
     IN /\ lines' = [lines EXCEPT ![s] = @ \o found.done]
        /\ buf' = [buf EXCEPT ![s] = found.rest]
  /\ pipe' = [pipe EXCEPT ![s] = SubSeq(@, n + 1, Len(@))]
  /\ UNCHANGED <<initVars, ended, stop, endpoint, printed>>

\* Some endpoint has something to do.
Pending ==
  \/ \E i \in Streams : ep[i] = "connect" /\ opened >= i
  \/ \E s \in Streams : ep[s] = "reading" /\ pipe[s] # <<>>
  \/ \E i \in Streams : ep[i] = "ready"

StopSeen ==
  /\ Polls /\ stop # "no" /\ ~terminate
  /\ terminate' = TRUE
  /\ UNCHANGED <<initVars, pipe, ended, stop, logging, created, ep, text, printed>>

LeaveAtOnce ==  \* mutant: the streams are not drained
  /\ Polls /\ terminate
  /\ logging' = FALSE
  /\ UNCHANGED <<initVars, pipe, ended, stop, created, terminate, ep, text, printed>>

\* Nothing for 100 ms; the text in the buffers is not looked at again.
Leave ==
  /\ Polls /\ terminate /\ ~Pending
  /\ logging' = FALSE
  /\ UNCHANGED <<initVars, pipe, ended, stop, created, terminate, ep, text, printed>>

-----------------------------------------------------------------------------
ReadSome(s) == \E n \in 1 .. Size : Read(s, n)

Next ==
  \/ Open \/ GiveUp \/ End \/ Stop \/ (\E s \in Streams, c \in {"x", "n"} : Put(s, c))
  \/ Setup \/ StopSeen \/ Leave
  \/ \E i \in Streams : Connected(i) \/ Unexpected(i) \/ ReadSome(i)

Spec == Init /\ [][Next]_vars

\* The endpoints are polled in turns, so none waits behind the other for ever.
FairSpec ==
  /\ Spec /\ WF_vars(Setup)
  /\ \A i \in Streams : WF_vars(Connected(i) \/ Unexpected(i) \/ ReadSome(i))

-----------------------------------------------------------------------------
(* Properties.                                                             *)

\* The lines of a stream, cut where the buffer is full, one character after the other.
CutAt(found, c) ==
  LET more == Append(found.rest, c)
  IN  IF c = "n" /\ found.rest = <<>> THEN found
      ELSE IF c = "n" THEN [done |-> Append(found.done, found.rest), rest |-> <<>>]
      ELSE IF Len(more) = Size THEN [done |-> Append(found.done, more), rest |-> <<>>]
      ELSE [done |-> found.done, rest |-> more]

Cut(t) ==
  LET found[n \in 0 .. Len(t)] == IF n = 0 THEN NoLines ELSE CutAt(found[n - 1], t[n])
  IN  found[Len(t)]

\* The log has the lines that were printed, whatever the chunks in which they were read.
LinesWhole == \A s \in Streams :
  LET read == SubSeq(printed[s], 1, Len(printed[s]) - Len(pipe[s])) IN
    Cut(read) = [done |-> lines[s], rest |-> buf[s]]

\* A logger that is stopped after the server has ended leaves nothing in the pipe, of a
\* stream whose endpoint did not lose the race.
Drained == (~logging /\ stop = "clean") => \A s \in 1 .. opened : pipe[s] = <<>> \/ ep[s] = "deaf"

\* A server that waits for a full pipe goes on, unless that race was lost (it then waits
\* for ever) or the logger has been told to end.
GoesOn == \A s \in Streams : (s <= opened /\ Len(pipe[s]) = Size) ~> (Len(pipe[s]) < Size \/ ep[s] = "deaf" \/ terminate)
=============================================================================

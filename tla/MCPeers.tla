------------------------------- MODULE MCPeers -------------------------------
(***************************************************************************)
(* How the daemon decides about a client, as TLC checks it: connections    *)
(* per minute (CpmLimiter), simultaneous invocations (HostLimit), the      *)
(* access list (AccessIP), the sections of the file that all of them are   *)
(* read from (XConfig), and how what was read reaches a service that       *)
(* workers use (Entries); and the files its log is kept in (LogVolumes).   *)
(* They share no state here; a behaviour is one of the six.                *)
(***************************************************************************)
EXTENDS CpmLimiter
CONSTANTS h1, h2, t1, w1, w2, c1, c2, p1, p2, p3,
          Workers, Main, Conns, Procs, Limits, Copies, Garbled, Nil,   \* HostLimit
          V4, V6, MaxRules,                                            \* AccessIP
          Readers, Copying, MaxRead,                                   \* Entries
          Day, Periods, Purges, MaxGap, MaxSleep, MaxNow               \* LogVolumes
VARIABLES
  part,
  copied, limit, hooked, addr, max, procs, made, prconn, prhost, listed,
  tpc, tconn, tproc, thost, sweep, sweeping, swept, down,
  rules, node, head, added,
  meant, defaults, conf, section, prior,
  reader, copying, mpc, entry, seen, read, present, args, own, heap, list, table, built,
  tables, lock, wpc, wsvc, wheld, quiet, bad,
  now, last, period, purge, rollAt, purgeAt, cur, empty, step, file, newest, slept

-----------------------------------------------------------------------------
(* The rules of AccessIP and the files of XConfig.                         *)

Bits(n) == [1 .. n -> {0, 1}]
Short(n, bits) == {a \in Bits(bits) : \A k \in n + 1 .. bits : a[k] = 0}

\* With one rule that has a bit beyond its mask.
Rules == {[fam |-> "v4", len |-> n, addr |-> a] : n \in {1}, a \in Bits(V4)}
         \cup {[fam |-> "v4", len |-> V4, addr |-> a] : a \in Short(1, V4)}
         \cup UNION {{[fam |-> "v6", len |-> n, addr |-> a] : a \in Short(n, V6)} : n \in 0 .. V6 - 1}

Is(v) == <<[op |-> "=", values |-> v]>>
Then(v, o, w) == Is(v) \o <<[op |-> o, values |-> w]>>
Plain == ("wait" :> Is(<<"no">>)) @@ ("server" :> Is(<<"prog">>))
With(attr) == [name |-> "foo", attr |-> attr @@ Plain]

Values == [instances |-> {<<0>>, <<-2>>, <<1, 2>>}, per_source |-> {<<1>>, <<-2>>},
           cpm |-> {<<1>>, <<1, 2>>, <<1, 2, 3>>}, protocol |-> {<<{6}>>, <<{4, 6}>>, <<{5}>>},
           flags |-> {<<6>>, <<4, 6>>}, port |-> {<<7>>, <<-2>>}, wait |-> {<<"yes">>, <<"bad">>},
           only_from |-> {<<"bad">>}, enabled |-> {<<"foo">>, <<"echo">>}, disable |-> {<<"yes">>}]
Lists == {Is(<<"a">>), Is(<<"ALL">>), <<[op |-> "+", values |-> <<"a", "b">>]>>, Then(<<"a">>, "+", <<"b">>),
          Then(<<"a", "b">>, "-", <<"a">>), Then(<<"a">>, "=", <<"b">>), Then(<<"ALL">>, "+", <<"a">>)}
Refused == {Is(<<"a">>), Is(<<"ALL">>)}
Internal == ("type" :> Is(<<"internal">>)) @@ ("wait" :> Is(<<"yes">>))
Unlisted == ("type" :> Is(<<"unlisted">>)) @@ ("port" :> Is(<<7>>)) @@ Plain
FileSections ==
  {With("only_from" :> l) : l \in Lists} \cup {With("no_access" :> n) : n \in Refused}
  \cup {With(("only_from" :> l) @@ ("no_access" :> n)) : l \in Lists, n \in Refused}
  \cup UNION {{With(k :> Is(v)) : v \in Values[k]} : k \in DOMAIN Values}
  \cup {With("cpm" :> Then(<<1>>, "=", <<1>>))}
  \cup {[name |-> n, attr |-> attr] : n \in {"echo", "nosuch"}, attr \in {Internal, Unlisted}}
FileDefaults ==
  {<<>>, "no_access" :> Is(<<"ALL">>), "cpm" :> Is(<<-2>>),
   ("only_from" :> Is(<<"b">>)) @@ ("no_access" :> Then(<<"a">>, "+", <<"a">>)),
   ("only_from" :> Is(<<"a">>)) @@ ("per_source" :> Is(<<2>>)) @@ ("enabled" :> Is(<<"foo">>))}

\* HostLimit, AccessIP and XConfig with the lemmas about them, for the proofs about the six.
HL == INSTANCE HostLimit_proofs
AR == INSTANCE AccessIP_proofs
XC == INSTANCE XConfig_proofs WITH Sections <- FileSections, DefaultSets <- FileDefaults, Addrs <- {"a", "b"},
        NamesInFile <- {"foo", "echo"}, Builtins <- {"echo"}, BuiltinMax <- 0, V4ok <- TRUE, V6ok <- FALSE,
        MaxChild <- 5, MaxPerIp <- 0, MaxCpm <- 6, Meant <- BOOLEAN
EN == INSTANCE Entries WITH Services <- Hosts
LV == INSTANCE LogVolumes

EntriesSound == MaxRead \in Nat /\ Nil \notin Workers /\ Copying \subseteq {"own", "shared"}
VolumesSound ==
  /\ Day \in Nat \ {0} /\ Day <= MaxNow
  /\ Periods \subseteq Nat /\ Purges \subseteq Nat
  /\ MaxNow \in Nat /\ MaxGap \in Nat /\ MaxSleep \in Nat

\* The consumer takes its turn often enough: Logger.h has 5 minutes for the shortest period
\* and one minute for the wait.  A purge period of one second is first looked at at midnight.
Prompt ==
  /\ 3 * MaxGap <= Day /\ 1 \notin Purges
  /\ \A p \in Periods : 0 < p /\ 3 * MaxGap <= p

ASSUME PeersAssumption == HL!Sound /\ AR!Sound /\ XC!Sound /\ EntriesSound /\ VolumesSound /\ Prompt

-----------------------------------------------------------------------------
hostVars    == <<copied, limit, hooked, addr, max, procs, made, prconn, prhost, listed,
                 tpc, tconn, tproc, thost, sweep, sweeping, swept, down>>
ruleVars    == <<rules, node, head, added>>
sectionVars == <<meant, defaults, conf, section, prior>>
entryVars   == <<reader, copying, mpc, entry, seen, read, present, args, own, heap, list, table,
                 built, tables, lock, wpc, wsvc, wheld, quiet, bad>>
volumeVars  == <<now, last, period, purge, rollAt, purgeAt, cur, empty, step, file, newest, slept>>

\* Addresses and workers are interchangeable; in Entries the former stand for services.
Symmetry == Permutations(Hosts) \cup Permutations(Workers)

Of(name) == part = name

PeersInit ==
  /\ part \in {"minute", "host", "rules", "sections", "entries", "volumes"}
  /\ Init /\ HL!Init /\ AR!Init /\ XC!Init /\ EN!Init /\ LV!Init
  /\ Of("host") \/ copied = "address"
  /\ Of("volumes") \/ (now = 1 /\ (\A p \in Periods : period <= p) /\ purge = 0 /\ file = -1)
  /\ Of("sections") \/ (meant /\ defaults = <<>>)
  /\ IF Of("entries") THEN reader = "conf" <=> copying = "own" ELSE reader = "conf" /\ copying = "own"

PeersNext ==
  /\ \/ Of("minute") /\ Next /\ UNCHANGED <<hostVars, ruleVars, sectionVars, entryVars, volumeVars>>
     \/ Of("host") /\ HL!Next /\ UNCHANGED <<vars, ruleVars, sectionVars, entryVars, volumeVars>>
     \/ Of("rules") /\ AR!Next /\ UNCHANGED <<vars, hostVars, sectionVars, entryVars, volumeVars>>
     \/ Of("sections") /\ XC!Next /\ UNCHANGED <<vars, hostVars, ruleVars, entryVars, volumeVars>>
     \/ Of("entries") /\ EN!Next /\ UNCHANGED <<vars, hostVars, ruleVars, sectionVars, volumeVars>>
     \/ Of("volumes") /\ LV!Next /\ UNCHANGED <<vars, hostVars, ruleVars, sectionVars, entryVars>>
  /\ UNCHANGED part

PeersSpec == PeersInit /\ [][PeersNext]_<<part, vars, hostVars, ruleVars, sectionVars, entryVars,
                                        volumeVars>>

\* The states of the six have their types; the five that do not move are as they began.
PeersTypesOK ==
  CASE Of("minute") -> TypeOK [] Of("host") -> HL!TypeOK [] Of("rules") -> AR!TypeOK
    [] Of("sections") -> XC!TypeOK [] Of("entries") -> EN!TypeOK [] Of("volumes") -> LV!TypeOK

\* HostLimit: the lists agree, and the limit on one address does what it is meant to, or as
\* compiled nothing, but then without harm.
PerHost == HL!Linked /\ HL!PerHostAsMeant /\ HL!PrivateAsCompiled

\* AccessIP: the best rule decides, and the trie stays one.
RulesRight == Of("rules") => AR!BestMatch /\ AR!TreeSound

\* XConfig: an entry is that of its section and no other, with the addresses listed there.
EntriesRight == Of("sections") => XC!EntryAlone /\ XC!ListsRight

\* Entries: workers read arguments and rules that exist and are in force.
ReadsCurrent == Of("entries") => EN!ArgsOwned /\ EN!RulesCurrent

\* LogVolumes: the files are in order, lines are kept for as long as they should be, and
\* not much longer.
VolumesRight == LV!Ordered /\ LV!PurgedInTime
LinesKept == LV!LinesKept
=============================================================================

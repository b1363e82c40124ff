------------------------------- MODULE Entries -------------------------------
(***************************************************************************)
(* What config() hands over from the entry it has read to the service, and *)
(* what workers use of it at the same time: the argument vector (inetd.cpp,*)
(* servconf.cpp) and the access list with its table (netaddrs.cpp).  The   *)
(* two sides have no lock in common.                                       *)
(***************************************************************************)
EXTENDS Integers, Sequences

CONSTANTS
  Services,
  Workers,
  Readers,      \* of "conf" (config.cpp) and "xconf" (xinetd.cpp)
  Copying,      \* of "own" and "shared", see copying
  MaxRead,      \* bound: entries read
  Nil

VARIABLES
  reader,
  copying,      \* servtab(cfg): an argument vector of its own, or, as compiled, that of the entry
  mpc,          \* config(): "idle", "next", "add", "swap", "move", "delete", "null", "free"
  entry,        \* configent: [svc, args, own, list]
  seen,         \* t_services
  read,         \* entries so far; an entry's number names its arguments and its list
  present,      \* services_
  args,         \* se_argv, 0 without arguments
  own,          \* history: they are not those the entry frees
  heap,         \* argument vectors not yet freed
  list,         \* se_addresses.addresses_
  table,        \* se_addresses.table_, 0 for null
  built,        \* the list that each AccessIP was built from
  tables,       \* those not yet deleted
  lock,         \* who has netaddr_lock
  wpc,          \* worker: "idle", "lock", "build", "table", "search", "fork", "copy"
  wsvc, wheld,  \* its service, and what it holds: a list, a table or an argument vector
  quiet,        \* history: no worker was at the service while it was last replaced
  bad           \* undefined behaviour: <<>>, or what and of which service

mainVars  == <<mpc, entry, seen, read, present>>
argVars   == <<args, own, heap>>
ruleVars  == <<list, table, built, tables>>
workVars  == <<lock, wpc, wsvc, wheld>>
fixedVars == <<reader, copying>>
vars == <<fixedVars, mainVars, argVars, ruleVars, workVars, quiet, bad>>

Vectors == 0 .. 2 * MaxRead

TypeOK ==
  /\ reader \in Readers /\ copying \in Copying
  /\ mpc \in {"idle", "next", "add", "swap", "move", "delete", "null", "free"}
  /\ entry.svc \in Services \cup {Nil} /\ entry.args \in Vectors /\ entry.own \in BOOLEAN
  /\ entry.list \in 0 .. MaxRead /\ read \in 0 .. MaxRead
  /\ seen \subseteq Services /\ present \subseteq Services
  /\ args \in [Services -> Vectors] /\ own \in [Services -> BOOLEAN] /\ heap \subseteq Vectors
  /\ list \in [Services -> 0 .. MaxRead] /\ built \in Seq(0 .. MaxRead)
  /\ table \in [Services -> 0 .. Len(built)] /\ tables \subseteq DOMAIN built
  /\ lock \in Workers \cup {Nil}
  /\ wpc \in [Workers -> {"idle", "lock", "build", "table", "search", "fork", "copy"}]
  /\ wsvc \in [Workers -> Services \cup {Nil}] /\ wheld \in [Workers -> Nat]
  /\ quiet \in [Services -> BOOLEAN]

Init ==
  /\ reader \in Readers /\ copying \in Copying
  /\ mpc = "idle" /\ entry = [svc |-> Nil, args |-> 0, own |-> TRUE, list |-> 0]
  /\ seen = {} /\ read = 0 /\ present = {}
  /\ args = [s \in Services |-> 0] /\ own = [s \in Services |-> TRUE] /\ heap = {}
  /\ list = [s \in Services |-> 0] /\ table = [s \in Services |-> 0] /\ built = <<>> /\ tables = {}
  /\ lock = Nil /\ wpc = [w \in Workers |-> "idle"]
  /\ wsvc = [w \in Workers |-> Nil] /\ wheld = [w \in Workers |-> 0]
  /\ quiet = [s \in Services |-> TRUE] /\ bad = <<>>

-----------------------------------------------------------------------------
(* config(), on the main thread.                                           *)

Busy(s) == \E w \in Workers : wpc[w] # "idle" /\ wsvc[w] = s

\* freeconfig(): what is left of the heap, and the damage of what was freed before.
Freed(v) == heap \ {v}
Damage(v) == IF v # 0 /\ v \notin heap THEN <<"twice", entry.svc>> ELSE <<>>

Config == /\ mpc = "idle" /\ read < MaxRead
          /\ mpc' = "next"
          /\ UNCHANGED <<entry, seen, read, present, argVars, ruleVars, workVars, quiet, bad>>

\* The readers clear configent before they read the next entry into it.
NextEntry ==
  /\ mpc = "next" /\ read < MaxRead
  /\ \E s \in Services \ seen, argc \in {0, 1} :
       LET v == argc * (read + 1)
       IN  /\ entry' = [svc |-> s, args |-> v, own |-> TRUE, list |-> read + 1]
           /\ heap' = Freed(entry.args) \cup ({v} \ {0})
           /\ mpc' = IF s \in present THEN "swap" ELSE "add"
  /\ bad' = Damage(entry.args)
  /\ read' = read + 1
  /\ UNCHANGED <<seen, present, args, own, ruleVars, workVars, quiet>>

\* new servtab(*cfg): servconfig is copied member by member.
Add ==
  /\ mpc = "add"
  /\ LET s == entry.svc
         v == IF copying = "own" /\ entry.args # 0 THEN entry.args + MaxRead ELSE entry.args
     IN  /\ args' = [args EXCEPT ![s] = v]
         /\ own' = [own EXCEPT ![s] = v = 0 \/ copying = "own"]
         /\ heap' = heap \cup ({v} \ {0})
         /\ list' = [list EXCEPT ![s] = entry.list] /\ table' = [table EXCEPT ![s] = 0]
         /\ quiet' = [quiet EXCEPT ![s] = TRUE]
         /\ present' = present \cup {s} /\ seen' = seen \cup {s}
  /\ mpc' = "next"
  /\ UNCHANGED <<entry, read, built, tables, workVars, bad>>

\* mutant: the vector is copied, and stays with the entry
SwapCopies ==
  /\ mpc = "swap"
  /\ LET s == entry.svc
     IN  /\ args' = [args EXCEPT ![s] = entry.args]
         /\ own' = [own EXCEPT ![s] = TRUE]
         /\ quiet' = [quiet EXCEPT ![s] = ~Busy(s)]
  /\ mpc' = "move"
  /\ UNCHANGED <<entry, seen, read, present, heap, ruleVars, workVars, bad>>

\* SWAP of se_argv; then the members of se_addresses are replaced one by one.
Swap ==
  /\ mpc = "swap"
  /\ LET s == entry.svc
     IN  /\ args' = [args EXCEPT ![s] = entry.args]
         /\ own' = [own EXCEPT ![s] = TRUE]
         /\ entry' = [entry EXCEPT !.args = args[s], !.own = own[s]]
         /\ quiet' = [quiet EXCEPT ![s] = ~Busy(s)]
  /\ mpc' = "move"
  /\ UNCHANGED <<seen, read, present, heap, ruleVars, workVars, bad>>

MoveList == /\ mpc = "move" /\ list' = [list EXCEPT ![entry.svc] = entry.list] /\ mpc' = "delete"
            /\ UNCHANGED <<entry, seen, read, present, argVars, table, built, tables, workVars, quiet, bad>>

DeleteTable == /\ mpc = "delete" /\ tables' = tables \ {table[entry.svc]} /\ mpc' = "null"
               /\ UNCHANGED <<entry, seen, read, present, argVars, list, table, built, workVars, quiet, bad>>

\* mutant: the deleted table stays in place
NullTableForgotten == /\ mpc = "null" /\ table' = table /\ mpc' = "free"
                      /\ UNCHANGED <<entry, seen, read, present, argVars, list, built, tables, workVars, quiet, bad>>

NullTable == /\ mpc = "null" /\ table' = [table EXCEPT ![entry.svc] = 0] /\ mpc' = "free"
             /\ UNCHANGED <<entry, seen, read, present, argVars, list, built, tables, workVars, quiet, bad>>

\* freeconfig(cfg), with the arguments the service had.
FreeEntry ==
  /\ mpc = "free"
  /\ heap' = Freed(entry.args) /\ bad' = Damage(entry.args)
  /\ entry' = [entry EXCEPT !.args = 0, !.own = TRUE]
  /\ seen' = seen \cup {entry.svc}
  /\ mpc' = "next"
  /\ UNCHANGED <<read, present, args, own, ruleVars, workVars, quiet>>

\* The end of the file: next() of xinetd.cpp has cleared configent again.  Services that
\* were not listed go, with their access lists.
Finish ==
  /\ mpc = "next" /\ \A s \in present \ seen : ~Busy(s)
  /\ IF reader = "xconf"
       THEN /\ heap' = Freed(entry.args) /\ bad' = Damage(entry.args)
            /\ entry' = [entry EXCEPT !.args = 0, !.own = TRUE]
       ELSE UNCHANGED <<heap, bad, entry>>
  /\ present' = seen /\ tables' = tables \ {table[s] : s \in present \ seen}
  /\ mpc' = "idle" /\ seen' = {}
  /\ UNCHANGED <<read, args, own, list, table, built, workVars, quiet>>

MainThread == Config \/ NextEntry \/ Add \/ Swap \/ MoveList \/ DeleteTable \/ NullTable \/ FreeEntry \/ Finish

-----------------------------------------------------------------------------
(* netaddrs::allowed() and do_fork(), on a worker.                         *)

Goes(w, at) == wpc' = [wpc EXCEPT ![w] = at]
Holds(w, x) == wheld' = [wheld EXCEPT ![w] = x]
At(w, at) == wpc[w] = at
Leaves(w) == Goes(w, "idle") /\ wsvc' = [wsvc EXCEPT ![w] = Nil]

Accept(w, s) ==
  /\ At(w, "idle") /\ s \in present
  /\ wsvc' = [wsvc EXCEPT ![w] = s]
  /\ Goes(w, IF table[s] = 0 THEN "lock" ELSE "table")
  /\ quiet' = [quiet EXCEPT ![s] = @ /\ ~(mpc \in {"move", "delete", "null", "free"} /\ entry.svc = s)]
  /\ UNCHANGED <<lock, wheld, ruleVars, bad>>

\* Under the lock it looks again, and starts to read the list.
Lock(w) ==
  /\ At(w, "lock") /\ lock = Nil
  /\ IF table[wsvc[w]] = 0
       THEN lock' = w /\ Goes(w, "build") /\ Holds(w, list[wsvc[w]])
       ELSE Goes(w, "table") /\ UNCHANGED <<lock, wheld>>
  /\ UNCHANGED <<wsvc, ruleVars, quiet, bad>>

Build(w) ==
  /\ At(w, "build")
  /\ LET s == wsvc[w]
     IN  /\ built' = Append(built, wheld[w])
         /\ tables' = tables \cup {Len(built')} /\ table' = [table EXCEPT ![s] = Len(built')]
         /\ bad' = IF list[s] = wheld[w] THEN <<>> ELSE <<"list", s>>
  /\ lock' = Nil /\ Goes(w, "table") /\ Holds(w, 0)
  /\ UNCHANGED <<wsvc, list, quiet>>

\* table_->allowed(): the pointer is read once more.
Table(w) == /\ At(w, "table")
            /\ Holds(w, table[wsvc[w]])
            /\ bad' = IF table[wsvc[w]] = 0 THEN <<"rules", wsvc[w]>> ELSE <<>>
            /\ Goes(w, "search") /\ UNCHANGED <<lock, wsvc, ruleVars, quiet>>

Search(w) == /\ At(w, "search")
             /\ bad' = IF wheld[w] \in tables THEN <<>> ELSE <<"rules", wsvc[w]>>
             /\ \/ Goes(w, "fork") /\ UNCHANGED wsvc
                \/ Leaves(w)
             /\ Holds(w, 0)
             /\ UNCHANGED <<lock, ruleVars, quiet>>

\* do_fork() passes se_argv itself on; BuildArg() of the child library reads it.
Fork(w) == /\ At(w, "fork") /\ Holds(w, args[wsvc[w]]) /\ Goes(w, "copy")
           /\ UNCHANGED <<lock, wsvc, ruleVars, quiet, bad>>

Copy(w) == /\ At(w, "copy")
           /\ bad' = IF wheld[w] \in heap \cup {0} THEN <<>> ELSE <<"args", wsvc[w]>>
           /\ Leaves(w) /\ Holds(w, 0)
           /\ UNCHANGED <<lock, ruleVars, quiet>>

Worker(w) == (\E s \in Services : Accept(w, s)) \/ Lock(w) \/ Build(w) \/ Table(w) \/ Search(w)
             \/ Fork(w) \/ Copy(w)

Next == /\ bad = <<>> /\ UNCHANGED fixedVars
        /\ \/ MainThread
           \/ (\E w \in Workers : Worker(w)) /\ UNCHANGED <<mainVars, argVars>>

Spec == Init /\ [][Next]_vars

-----------------------------------------------------------------------------
(* Properties.                                                             *)

\* Arguments that are a service's own are not freed before a reload has replaced them, and
\* nobody else's; they are freed once, and a worker reads freed ones only if it was at the
\* service during the reload.  As meant this is so of all; as compiled, not of arguments
\* that a service got when it was added, which the next entry frees.
ArgsOwned ==
  /\ \A s \in present : own[s] /\ args[s] # 0 =>
       /\ args[s] \in heap
       /\ ~(entry.own /\ entry.args = args[s])
       /\ \A t \in present \ {s} : args[t] # args[s]
  /\ copying = "own" => entry.own /\ \A s \in present : own[s]
  /\ bad # <<>> => /\ bad[1] = "twice" => copying = "shared"
                   /\ bad[1] = "args" => ~own[bad[2]] \/ ~quiet[bad[2]]

\* A worker is told by the list that is in force, and by a table that exists, unless it, or
\* another at the service, was there while the list was last replaced: what goes wrong
\* then is put right by the next reload that meets no worker.
Replacing(s) == entry.svc = s /\ mpc \in {"move", "delete", "null"}
RulesCurrent ==
  /\ \A s \in present : quiet[s] /\ ~Replacing(s) /\ table[s] # 0 =>
       table[s] \in tables /\ built[table[s]] = list[s]
  /\ bad # <<>> /\ bad[1] \in {"list", "rules"} => ~quiet[bad[2]]
=============================================================================

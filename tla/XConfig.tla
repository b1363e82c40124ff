------------------------------- MODULE XConfig -------------------------------
(***************************************************************************)
(* xinetd.cpp: the sections of a file, one after the other, into one       *)
(* entry, configent, that is cleared in between.  A section takes from     *)
(* "defaults" the attributes it does not have.                             *)
(*                                                                         *)
(* Attributes without an effect on what is here are left out (user, group, *)
(* arguments, logs, buffers, environment, banners, access_times, rpc_...,  *)
(* redirect, geoip_..., bind); services are streams.                       *)
(***************************************************************************)
EXTENDS Integers, Sequences

CONSTANTS
  Sections,     \* [name, attr], attr a function from the keys that it has
  DefaultSets,  \* the same for "defaults"; empty without one
  Addrs,              \* addresses that may be listed
  NamesInFile,        \* services that getservbyname() knows
  Builtins,     \* the built-in services
  BuiltinMax,   \* their bi_maxchild
  V4ok, V6ok, MaxChild, MaxPerIp, MaxCpm,       \* configparams
  Meant         \* of TRUE and FALSE, see meant

VARIABLES
  meant,        \* match_default_ goes where the list goes; as compiled it only stays
  defaults,
  conf,         \* configent, with flag_family_ and the status of the last attribute
  section,      \* the last one read, Nothing before
  prior         \* history: match_default_ when it was begun

vars == <<meant, defaults, conf, section, prior>>

Nothing == <<>>
Bad == -2       \* a number that cannot be read, or is out of bounds

\* service_attributes, in the order in which they are looked for.
Keys == <<"type", "flags", "protocol", "wait", "server", "instances", "port", "only_from",
          "no_access", "per_source", "cpm", "enabled", "disable">>
Required == {"wait"}
Default  == {"instances", "only_from", "no_access", "per_source", "cpm", "enabled", "disable"}
Multiple == {"flags", "only_from", "no_access", "enabled"}
Modifier == {"only_from", "no_access"}
Upto(k)  == IF k = "cpm" THEN 2 ELSE 0

Signs == {"+", "-"}
Nowhere == [x \in Addrs |-> 0]

\* servconfig().  addresses has how often each address is listed under a sign; se_maxperip is
\* -1 or what the operating system's memory holds.
Cleared(name, maxperip, all) ==
  [name |-> name, type |-> "norm", flag |-> 0, family |-> 0, nomapped |-> FALSE, accept |-> FALSE,
   server |-> "", bi |-> FALSE, maxchild |-> 0, port |-> 0, maxperip |-> maxperip, cpmmax |-> 0,
   cpmwait |-> 0, addresses |-> [sign \in Signs |-> Nowhere], all |-> all, st |-> "Success"]

\* reset() and freeconfig(): se_maxperip stays, and netaddrs::clear() clears the list.
Reset(c, name) == Cleared(name, c.maxperip, IF meant THEN 0 ELSE c.all)

Ends(c, st) == [c EXCEPT !.st = st]
Failure(c) == Ends(c, "Failure")

-----------------------------------------------------------------------------
(* The handlers: a is an attribute [op, values], or Nothing.               *)

First(a) == a.values[1]

type(c, a) ==
  IF a = Nothing THEN [c EXCEPT !.type = "norm"]
  ELSE IF First(a) \in {"internal", "unlisted"} THEN [c EXCEPT !.type = First(a)] ELSE Failure(c)

\* IPv4 and IPv6 are mutually exclusive, 0 are the known flags that are ignored.
flags(c, a) ==
  LET wanted == {a.values[i] : i \in DOMAIN a.values} \ {0}
      given  == wanted \cup ({c.flag} \ {0})
  IN  IF a = Nothing \/ wanted = {} THEN c
      ELSE IF given = {4} THEN [c EXCEPT !.flag = 4]
      ELSE IF given = {6} THEN [c EXCEPT !.flag = 6]
      ELSE Failure(c)

\* The value stands for the set of digits after "tcp".
protocol(c, a) ==
  LET digits == IF a = Nothing THEN {} ELSE First(a)
      v4 == c.flag = 4 \/ 4 \in digits
      v6 == c.flag = 6 \/ 6 \in digits
      reverts == ~V6ok /\ v4 /\ V4ok
  IN  IF digits \ {4, 6} # {} THEN Failure(c)
      ELSE IF v6 /\ V6ok THEN [c EXCEPT !.family = 6, !.nomapped = ~v4 \/ ~V4ok]
      ELSE IF (v6 /\ ~reverts) \/ ~V4ok THEN Ends(c, "Disabled")
      ELSE [c EXCEPT !.family = 4]

wait(c, a) == IF First(a) \in {"yes", "no"} THEN [c EXCEPT !.accept = First(a) = "no"] ELSE Failure(c)

\* Built-in services are found by name, and may not name their server.
server(c, a) ==
  IF c.type = "internal"
    THEN IF (a # Nothing /\ First(a) = "internal") \/ c.name \notin Builtins THEN Failure(c)
         ELSE [c EXCEPT !.server = "internal", !.accept = TRUE, !.bi = TRUE]
    ELSE IF a = Nothing THEN Ends(c, "Expected") ELSE [c EXCEPT !.server = First(a)]

\* 0 is UNLIMITED.
instances(c, a) ==
  IF a = Nothing THEN [c EXCEPT !.maxchild = -1]
  ELSE IF First(a) = Bad THEN Failure(c) ELSE [c EXCEPT !.maxchild = First(a)]

port(c, a) ==
  IF c.name \notin NamesInFile /\ c.type # "unlisted" THEN Failure(c)
  ELSE IF a = Nothing THEN IF c.type = "unlisted" THEN Ends(c, "Expected") ELSE [c EXCEPT !.port = 1]
  ELSE IF First(a) = Bad THEN Failure(c) ELSE [c EXCEPT !.port = First(a)]

\* netaddrs::match_default(), push(), erase() and clear(op).
MatchDefault(c, all) == IF c.all \in {0, all} THEN [c EXCEPT !.all = all] ELSE Failure(c)
Push(c, addr, sign) ==
  IF \E e \in Signs : c.addresses[e][addr] > 0 THEN Failure(c)
  ELSE [c EXCEPT !.addresses[sign][addr] = @ + 1]
Erase(c, addr, sign) == [c EXCEPT !.addresses[sign][addr] = 0]
ClearSign(c, sign)   == [c EXCEPT !.addresses[sign] = Nowhere]

\* only_from ('+') and no_access ('-').  An address of the other family is refused; a FILE
\* stands for the addresses in it.
Listing(c, op, v, sign) ==
  IF v = "ALL" THEN MatchDefault(c, IF sign = "+" THEN 1 ELSE -1)
  ELSE IF v = "bad" THEN Failure(c)
  ELSE IF op = "-" THEN Erase(c, v, sign) ELSE Push(c, v, sign)
Listed(c, a, sign) ==
  LET upto[n \in 0 .. Len(a.values)] ==
        IF n = 0 THEN IF a.op = "=" THEN ClearSign(c, sign) ELSE c
        ELSE IF upto[n - 1].st = "Success" THEN Listing(upto[n - 1], a.op, a.values[n], sign)
        ELSE upto[n - 1]
  IN  IF a = Nothing \/ c.family = 0 THEN c ELSE upto[Len(a.values)]

\* mutant: the value of the section before stays
PerSourceStays(c, a) ==
  IF a = Nothing THEN c
  ELSE IF First(a) = Bad THEN Failure(c) ELSE [c EXCEPT !.maxperip = First(a)]

per_source(c, a) ==
  IF a = Nothing THEN [c EXCEPT !.maxperip = -1]
  ELSE IF First(a) = Bad THEN Failure(c) ELSE [c EXCEPT !.maxperip = First(a)]

cpm(c, a) ==
  IF a = Nothing THEN [c EXCEPT !.cpmmax = -1, !.cpmwait = -1]
  ELSE IF \E i \in DOMAIN a.values : a.values[i] = Bad THEN Failure(c)
  ELSE [c EXCEPT !.cpmmax = First(a), !.cpmwait = IF Len(a.values) = 2 THEN a.values[2] ELSE -1]

\* While "defaults" is read it is only checked.
enabled(c, a) ==
  IF a = Nothing \/ c.name = "defaults" \/ \E i \in DOMAIN a.values : a.values[i] = c.name THEN c
  ELSE Ends(c, "Disabled")

disable(c, a) ==
  IF a = Nothing \/ First(a) = "no" THEN c
  ELSE IF First(a) = "yes" THEN Ends(c, "Disabled") ELSE Failure(c)

Handle(k, c, a) ==
  CASE k = "type" -> type(c, a)           [] k = "flags" -> flags(c, a)
    [] k = "protocol" -> protocol(c, a)   [] k = "wait" -> wait(c, a)
    [] k = "server" -> server(c, a)       [] k = "instances" -> instances(c, a)
    [] k = "port" -> port(c, a)           [] k = "only_from" -> Listed(c, a, "+")
    [] k = "no_access" -> Listed(c, a, "-") [] k = "per_source" -> per_source(c, a)
    [] k = "cpm" -> cpm(c, a)             [] k = "enabled" -> enabled(c, a)
    [] k = "disable" -> disable(c, a)

-----------------------------------------------------------------------------
(* attribute(), process_section() and next().                              *)

Attribute(k, element, c, a) ==
  IF a = Nothing THEN IF k \in Required THEN Ends(c, "Expected") ELSE Handle(k, c, a)
  ELSE IF \/ element = 2 /\ k \notin Multiple
          \/ a.op # "=" /\ k \notin Modifier
          \/ Len(a.values) > 1 /\ k \notin Multiple /\ Len(a.values) > Upto(k)
    THEN Failure(c)
  ELSE Handle(k, c, a)

Elements(k, c, given) ==
  LET upto[n \in 0 .. Len(given)] ==
        IF n = 0 THEN c
        ELSE IF upto[n - 1].st = "Success" THEN Attribute(k, n, upto[n - 1], given[n])
        ELSE upto[n - 1]
  IN  upto[Len(given)]

\* All attributes, in their order.
Through(c, given) ==
  LET upto[n \in 0 .. Len(Keys)] ==
        IF n = 0 THEN c ELSE Elements(Keys[n], upto[n - 1], given[Keys[n]])
  IN  upto[Len(Keys)]
KeySet == {Keys[n] : n \in 1 .. Len(Keys)}

\* The attributes of the section, or else those of "defaults".
Given(k, s) ==
  IF k \in DOMAIN s.attr THEN s.attr[k]
  ELSE IF k \in Default /\ k \in DOMAIN defaults THEN defaults[k] ELSE <<Nothing>>

apply_defaults(c) ==
  [c EXCEPT
     !.maxperip = IF @ < 0 THEN MaxPerIp ELSE @,
     !.cpmmax = IF @ < 0 THEN MaxCpm ELSE @,
     !.maxchild = IF @ >= 0 THEN @
                  ELSE IF c.bi /\ BuiltinMax >= 0 THEN BuiltinMax
                  ELSE IF ~c.accept THEN 1
                  ELSE IF MaxChild > 0 THEN MaxChild ELSE 0]

\* process_section() of s into c: an entry if the status is Success.
process_section(c, s) ==
  LET done == Through(Reset(c, s.name), [k \in KeySet |-> Given(k, s)])
  IN  IF done.st = "Success" THEN apply_defaults(done) ELSE done

\* process_defaults(): what is wrong there is found before any section is read.  A "disable"
\* ends it and is no error.
process_defaults ==
  Through([Cleared("defaults", -1, 0) EXCEPT !.accept = TRUE],
          [k \in KeySet |-> IF k \in Default \cap DOMAIN defaults THEN defaults[k] ELSE <<>>])

Init ==
  /\ meant \in Meant /\ defaults \in DefaultSets
  /\ conf = process_defaults
  /\ section = Nothing /\ prior = 0

\* A file whose "defaults" are wrong is not read.
next ==
  /\ section # Nothing \/ conf.st # "Failure"
  /\ section' \in Sections
  /\ conf' = process_section(conf, section')
  /\ prior' = conf.all
  /\ UNCHANGED <<meant, defaults>>

Next == next
Spec == Init /\ [][Next]_vars

-----------------------------------------------------------------------------
(* Properties.                                                             *)

Numbers == {n \in Int : n >= -1}
TypeOK ==
  /\ meant \in BOOLEAN /\ prior \in {-1, 0, 1}
  /\ conf.st \in {"Success", "Failure", "Disabled", "Expected"}
  /\ {conf.maxchild, conf.maxperip, conf.cpmmax, conf.cpmwait, conf.port} \subseteq Numbers
  /\ conf.family \in {0, 4, 6} /\ conf.flag \in {0, 4, 6} /\ conf.all \in {-1, 0, 1}

\* An entry is what it would be if its section were the only one: nothing of the section
\* before, nor of "defaults" as such, is left in configent.  As compiled, with one
\* exception: ALL stays, and a section that says the opposite is then refused.
EntryAlone ==
  section # Nothing =>
    LET alone == process_section(Cleared("", -1, 0), section)
    IN  /\ meant \/ prior = 0 =>
             IF conf.st = "Success" THEN conf = alone ELSE alone.st # "Success"
        /\ conf.st = "Success" => conf = [alone EXCEPT !.all = conf.all]

\* The list of an entry has each address once, under the sign it was last given by the
\* section, or by "defaults" where the section is silent on that sign.
Sign(k) == IF k = "only_from" THEN "+" ELSE "-"
Lists(k, a) ==   \* address a is listed under key k
  LET given == Given(k, section)
      says(i) == given[i] # Nothing /\ \E j \in DOMAIN given[i].values : given[i].values[j] = a
      off(j) == given[j].op = "=" \/ (given[j].op = "-" /\ says(j))
  IN  \E i \in DOMAIN given : /\ says(i) /\ given[i].op # "-"
                              /\ \A j \in DOMAIN given : j > i => ~off(j)
ListsRight ==
  section # Nothing /\ conf.st = "Success" =>
    \A x \in Addrs :
      /\ conf.addresses["+"][x] + conf.addresses["-"][x] <= 1
      /\ \A k \in Modifier : conf.addresses[Sign(k)][x] > 0 <=> Lists(k, x)
=============================================================================

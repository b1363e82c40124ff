--------------------------- MODULE XConfig_proofs ---------------------------
(***************************************************************************)
(* Proofs about XConfig, for any sections and defaults.  The recursive     *)
(* functions of the model (the attributes of a section, the lines of an    *)
(* attribute, the values of a line) are runs: sequences of entries, each   *)
(* made of the one before.  Two runs from different entries are compared   *)
(* step by step for EntryAlone, one is followed for ListsRight.            *)
(***************************************************************************)
EXTENDS XConfig, SequenceTheorems, WellFoundedInduction, TLAPS

\* The names and the programs that there are.
Names    == {"", "defaults"} \cup {s.name : s \in Sections}
Serving  == {s \in Sections : "server" \in DOMAIN s.attr}
Servers  == UNION {{s.attr["server"][i] : i \in DOMAIN s.attr["server"]} : s \in Serving}
Programs == {"", "internal"} \cup {First(a) : a \in Servers}

\* What the reader of the file returns: a word, an attribute, and those of one key.
Number(k) == k \in {"instances", "port", "per_source", "cpm"}
Word(k, v) ==
  /\ Number(k) => v \in Numbers \cup {Bad}
  /\ k \in Modifier => v \in Addrs \cup {"ALL", "bad"}
IsAttr(k, a) ==
  /\ Len(a.values) \in Nat \ {0} /\ DOMAIN a.values = 1 .. Len(a.values)
  /\ \A j \in DOMAIN a.values : Word(k, a.values[j])
  /\ k = "server" => First(a) \in Programs
IsGiven(k, given) ==
  /\ Len(given) \in Nat /\ DOMAIN given = 1 .. Len(given)
  /\ \A i \in DOMAIN given : given[i] = Nothing \/ IsAttr(k, given[i])

\* The entries there may be.
Statuses == {"Success", "Failure", "Disabled", "Expected"}
Confs ==
  [name : Names, type : {"norm", "internal", "unlisted"}, flag : {0, 4, 6}, family : {0, 4, 6},
   nomapped : BOOLEAN, accept : BOOLEAN, server : Programs, bi : BOOLEAN, maxchild : Numbers,
   port : Numbers, maxperip : Numbers, cpmmax : Numbers, cpmwait : Numbers,
   addresses : [Signs -> [Addrs -> Nat]], all : {-1, 0, 1}, st : Statuses]

Has(k, a) == a = Nothing \/ IsAttr(k, a)

-----------------------------------------------------------------------------
(* Recursion over the numbers up to a last one.                            *)

\* Induction, for a set of numbers.
LEMMA AllNumbers ==
  ASSUME NEW S \in SUBSET Nat, 0 \in S, \A n \in S : n + 1 \in S
  PROVE  \A n \in Nat : n \in S
<1> SUFFICES ASSUME Nat \ S # {} PROVE FALSE
  OBVIOUS
<1>1. PICK m \in Nat \ S : \A n \in Nat \ S : <<n, m>> \notin OpToRel(<, Nat)
  BY WFMin, NatLessThanWellFounded, Zenon
<1>2. \A n \in Nat \ S : ~(n < m)
  BY <1>1, Zenon DEF OpToRel
<1>3. m # 0 /\ m - 1 \in Nat
  OBVIOUS
<1>4. m - 1 \in S
  BY <1>2, <1>3
<1>5. (m - 1) + 1 \in S
  BY <1>4
<1> QED
  BY <1>3, <1>5

\* A recursion over the numbers up to n defines a function.
LEMMA Recursion ==
  ASSUME NEW S, NEW base \in S, NEW l \in Nat, NEW F \in [1 .. l -> [S -> S]]
  PROVE  \E g \in [0 .. l -> S] : g[0] = base /\ \A n \in 1 .. l : g[n] = F[n][g[n - 1]]
<1> DEFINE Up(m) == \E g \in [0 .. m -> S] : g[0] = base /\ \A n \in 1 .. m : g[n] = F[n][g[n - 1]]
           M == {m \in Nat : m <= l => Up(m)}
<1>1. 0 \in M
  <2>1. [i \in 0 .. 0 |-> base] \in [0 .. 0 -> S] /\ [i \in 0 .. 0 |-> base][0] = base
    OBVIOUS
  <2>2. \A n \in 1 .. 0 : FALSE
    OBVIOUS
  <2>3. Up(0)
    <3> SUFFICES \E g \in [0 .. 0 -> S] : g[0] = base /\ \A n \in 1 .. 0 : g[n] = F[n][g[n - 1]]
      OBVIOUS
    <3> WITNESS [i \in 0 .. 0 |-> base] \in [0 .. 0 -> S]
    <3> QED
      BY <2>1, <2>2
  <2> QED
    BY <2>3
<1>2. ASSUME NEW m \in M PROVE m + 1 \in M
  <2> SUFFICES ASSUME m + 1 <= l PROVE Up(m + 1)
    OBVIOUS
  <2>1. m \in Nat /\ Up(m)
    OBVIOUS
  <2>2. PICK g \in [0 .. m -> S] : g[0] = base /\ \A n \in 1 .. m : g[n] = F[n][g[n - 1]]
    BY <2>1
  <2> DEFINE f == [i \in 0 .. m + 1 |-> IF i <= m THEN g[i] ELSE F[m + 1][g[m]]]
  <2>3. m + 1 \in 1 .. l /\ F[m + 1] \in [S -> S] /\ g[m] \in S
    BY <2>1
  <2>4. f \in [0 .. m + 1 -> S] /\ f[0] = base
    BY <2>1, <2>2, <2>3
  <2>5. \A n \in 1 .. m + 1 : f[n] = F[n][f[n - 1]]
    BY <2>1, <2>2
  <2> QED
    BY <2>4, <2>5
<1>3. \A m \in Nat : m \in M
  <2>1. M \in SUBSET Nat
    OBVIOUS
  <2> HIDE DEF M
  <2> QED
    BY <1>1, <1>2, <2>1, AllNumbers
<1> QED
  BY <1>3

\* g is base, and then what F makes of it, l times.
RunOf(g, S, base, l, F) ==
  g \in [0 .. l -> S] /\ g[0] = base /\ \A n \in 1 .. l : g[n] = F[n][g[n - 1]]

LEMMA RunIs ==
  ASSUME NEW S, NEW base, NEW l, NEW F, base \in S, l \in Nat, F \in [1 .. l -> [S -> S]]
  PROVE  \E g : RunOf(g, S, base, l, F)
BY Recursion DEF RunOf

\* Induction up to l.
LEMMA UpTo ==
  ASSUME NEW l \in Nat, NEW T, 0 \in T, \A n \in 1 .. l : n - 1 \in T => n \in T
  PROVE  \A n \in 0 .. l : n \in T
<1> DEFINE M == {n \in Nat : n <= l => n \in T}
<1>1. M \in SUBSET Nat /\ 0 \in M
  OBVIOUS
<1>2. ASSUME NEW n \in M PROVE n + 1 \in M
  OBVIOUS
<1>3. \A n \in Nat : n \in M
  <2> HIDE DEF M
  <2> QED
    BY <1>1, <1>2, AllNumbers
<1> QED
  BY <1>3

-----------------------------------------------------------------------------
(* The handlers keep the types.                                            *)

LEMMA EndsType == ASSUME NEW c \in Confs, NEW s \in Statuses PROVE Ends(c, s) \in Confs
BY DEF Ends, Confs

LEMMA FailureType == ASSUME NEW c \in Confs PROVE Failure(c) \in Confs
BY DEF Failure, Ends, Confs, Statuses

LEMMA TypeType == ASSUME NEW c \in Confs, NEW a PROVE type(c, a) \in Confs
<1>1. \A v \in {"norm", "internal", "unlisted"} : [c EXCEPT !.type = v] \in Confs
  BY DEF Confs
<1> QED
  BY <1>1, FailureType DEF type

LEMMA FlagsType == ASSUME NEW c \in Confs, NEW a PROVE flags(c, a) \in Confs
<1>1. [c EXCEPT !.flag = 4] \in Confs /\ [c EXCEPT !.flag = 6] \in Confs
  BY DEF Confs
<1> QED
  BY <1>1, FailureType, Zenon DEF flags

LEMMA ProtocolType == ASSUME NEW c \in Confs, NEW a PROVE protocol(c, a) \in Confs
<1>1. \A b \in BOOLEAN : [c EXCEPT !.family = 6, !.nomapped = b] \in Confs
  BY DEF Confs
<1>2. [c EXCEPT !.family = 4] \in Confs
  BY DEF Confs
<1>3. Ends(c, "Disabled") \in Confs /\ Failure(c) \in Confs
  BY EndsType, FailureType DEF Statuses
<1> DEFINE v4 == c.flag = 4 \/ 4 \in (IF a = Nothing THEN {} ELSE First(a))
<1>4. (~v4 \/ ~V4ok) \in BOOLEAN
  OBVIOUS
<1>5. protocol(c, a) \in {Failure(c), Ends(c, "Disabled"), [c EXCEPT !.family = 4],
                          [c EXCEPT !.family = 6, !.nomapped = ~v4 \/ ~V4ok]}
  BY DEF protocol
<1> HIDE DEF v4
<1> QED
  BY <1>1, <1>2, <1>3, <1>4, <1>5

LEMMA WaitType == ASSUME NEW c \in Confs, NEW a PROVE wait(c, a) \in Confs
BY FailureType, ZenonT(40) DEF wait, Confs

LEMMA ServerType == ASSUME NEW c \in Confs, NEW a, Has("server", a) PROVE server(c, a) \in Confs
<1>0. "internal" \in Programs
  BY DEF Programs
<1>1. [c EXCEPT !.server = "internal", !.accept = TRUE, !.bi = TRUE] \in Confs
  BY <1>0 DEF Confs
<1>2. ASSUME a # Nothing PROVE [c EXCEPT !.server = First(a)] \in Confs
  <2>1. First(a) \in Programs
    BY <1>2 DEF Has, IsAttr
  <2> HIDE DEF First
  <2> QED
    BY <2>1 DEF Confs
<1>3. Ends(c, "Expected") \in Confs /\ Failure(c) \in Confs
  BY EndsType, FailureType DEF Statuses
<1> QED
  BY <1>1, <1>2, <1>3 DEF server

LEMMA NumberIs ==
  ASSUME NEW k, Number(k), NEW a, Has(k, a), a # Nothing, NEW j \in DOMAIN a.values, a.values[j] # Bad
  PROVE  a.values[j] \in Numbers
BY DEF Has, IsAttr, Word

LEMMA FirstIs ==
  ASSUME NEW k, Number(k), NEW a, Has(k, a), a # Nothing, First(a) # Bad
  PROVE  First(a) \in Numbers
BY NumberIs DEF Has, IsAttr, First

LEMMA InstancesType == ASSUME NEW c \in Confs, NEW a, Has("instances", a) PROVE instances(c, a) \in Confs
<1>1. Number("instances") /\ -1 \in Numbers
  BY DEF Number, Numbers
<1>2. \A v \in Numbers : [c EXCEPT !.maxchild = v] \in Confs
  BY DEF Confs
<1> QED
  BY <1>1, <1>2, FirstIs, FailureType DEF instances

LEMMA PortType == ASSUME NEW c \in Confs, NEW a, Has("port", a) PROVE port(c, a) \in Confs
<1>1. Number("port") /\ 1 \in Numbers
  BY DEF Number, Numbers
<1>2. \A v \in Numbers : [c EXCEPT !.port = v] \in Confs
  BY DEF Confs
<1>3. Ends(c, "Expected") \in Confs
  BY EndsType DEF Statuses
<1> QED
  BY <1>1, <1>2, <1>3, FirstIs, FailureType DEF port

LEMMA PerSourceType == ASSUME NEW c \in Confs, NEW a, Has("per_source", a) PROVE per_source(c, a) \in Confs
<1>1. Number("per_source") /\ -1 \in Numbers
  BY DEF Number, Numbers
<1>2. \A v \in Numbers : [c EXCEPT !.maxperip = v] \in Confs
  BY DEF Confs
<1> QED
  BY <1>1, <1>2, FirstIs, FailureType DEF per_source

LEMMA CpmType == ASSUME NEW c \in Confs, NEW a, Has("cpm", a) PROVE cpm(c, a) \in Confs
<1>1. Number("cpm") /\ -1 \in Numbers
  BY DEF Number, Numbers
<1>2. \A v \in Numbers, w \in Numbers : [c EXCEPT !.cpmmax = v, !.cpmwait = w] \in Confs
  BY DEF Confs
<1>3. CASE a = Nothing
  BY <1>1, <1>2, <1>3 DEF cpm
<1>4. CASE a # Nothing /\ \E i \in DOMAIN a.values : a.values[i] = Bad
  BY <1>4, FailureType DEF cpm
<1>5. CASE a # Nothing /\ \A i \in DOMAIN a.values : a.values[i] # Bad
  <2>1. Len(a.values) \in Nat \ {0} /\ DOMAIN a.values = 1 .. Len(a.values)
    BY <1>5 DEF Has, IsAttr
  <2>2. First(a) \in Numbers
    BY <1>1, <1>5, <2>1, NumberIs DEF First
  <2>3. Len(a.values) = 2 => a.values[2] \in Numbers
    BY <1>1, <1>5, <2>1, NumberIs
  <2>4. (IF Len(a.values) = 2 THEN a.values[2] ELSE -1) \in Numbers
    BY <1>1, <2>3
  <2> QED
    BY <1>2, <1>5, <2>2, <2>4 DEF cpm
<1> QED
  BY <1>3, <1>4, <1>5

LEMMA EnabledType == ASSUME NEW c \in Confs, NEW a PROVE enabled(c, a) \in Confs
BY EndsType DEF enabled, Statuses

LEMMA DisableType == ASSUME NEW c \in Confs, NEW a PROVE disable(c, a) \in Confs
BY EndsType, FailureType DEF disable, Statuses

\* The lists.
LEMMA PushType == ASSUME NEW c \in Confs, NEW x \in Addrs, NEW sign \in Signs PROVE Push(c, x, sign) \in Confs
<1>1. [c.addresses EXCEPT ![sign][x] = @ + 1] \in [Signs -> [Addrs -> Nat]]
  BY DEF Confs
<1>2. [c EXCEPT !.addresses[sign][x] = @ + 1] \in Confs
  BY <1>1 DEF Confs
<1> QED
  BY <1>2, FailureType DEF Push

LEMMA EraseType == ASSUME NEW c \in Confs, NEW x \in Addrs, NEW sign \in Signs PROVE Erase(c, x, sign) \in Confs
<1>1. [c.addresses EXCEPT ![sign][x] = 0] \in [Signs -> [Addrs -> Nat]]
  BY DEF Confs
<1> QED
  BY <1>1 DEF Confs, Erase

LEMMA ClearType == ASSUME NEW c \in Confs, NEW sign \in Signs PROVE ClearSign(c, sign) \in Confs
<1>1. [c.addresses EXCEPT ![sign] = Nowhere] \in [Signs -> [Addrs -> Nat]]
  BY DEF Confs, Nowhere
<1> QED
  BY <1>1 DEF Confs, ClearSign

LEMMA MatchType == ASSUME NEW c \in Confs, NEW z \in {-1, 1} PROVE MatchDefault(c, z) \in Confs
<1>1. [c EXCEPT !.all = z] \in Confs
  BY DEF Confs
<1> QED
  BY <1>1, FailureType DEF MatchDefault

LEMMA ListingType ==
  ASSUME NEW c \in Confs, NEW op, NEW v \in Addrs \cup {"ALL", "bad"}, NEW sign \in Signs
  PROVE  Listing(c, op, v, sign) \in Confs
<1>1. (IF sign = "+" THEN 1 ELSE -1) \in {-1, 1}
  OBVIOUS
<1> QED
  BY <1>1, MatchType, FailureType, EraseType, PushType DEF Listing

\* Listed() takes the values in turn.
ListedBy(w, c, a, sign) ==
  /\ w[0] = IF a.op = "=" THEN ClearSign(c, sign) ELSE c
  /\ \A n \in 1 .. Len(a.values) :
       w[n] = IF w[n - 1].st = "Success" THEN Listing(w[n - 1], a.op, a.values[n], sign) ELSE w[n - 1]
  /\ \A n \in 0 .. Len(a.values) : w[n] \in Confs

LEMMA ListedRun ==
  ASSUME NEW k \in Modifier, NEW c \in Confs, NEW a, IsAttr(k, a), NEW sign \in Signs,
         a # Nothing, c.family # 0
  PROVE  \E w : ListedBy(w, c, a, sign) /\ Listed(c, a, sign) = w[Len(a.values)]
<1> DEFINE l == Len(a.values)
           base == IF a.op = "=" THEN ClearSign(c, sign) ELSE c
           One(n, x) == IF x.st = "Success" THEN Listing(x, a.op, a.values[n], sign) ELSE x
           F == [n \in 1 .. l |-> [x \in Confs |-> One(n, x)]]
           Walk(w) == [n \in 0 .. l |-> IF n = 0 THEN base ELSE One(n, w[n - 1])]
           chosen == CHOOSE w : w = Walk(w)
<1>1. l \in Nat /\ \A n \in 1 .. l : a.values[n] \in Addrs \cup {"ALL", "bad"}
  BY DEF IsAttr, Word
<1>0. l \in Nat
  BY <1>1
<1>2. \A n \in 1 .. l, x \in Confs : One(n, x) \in Confs
  BY <1>1, ListingType
<1>3. base \in Confs
  BY ClearType
<1>4. Listed(c, a, sign) = chosen[l]
  BY DEF Listed
<1>5. \E g : RunOf(g, Confs, base, l, F)
  <2>1. F \in [1 .. l -> [Confs -> Confs]]
    BY <1>2
  <2> HIDE DEF F, l, base
  <2> QED
    BY <1>0, <1>3, <2>1, RunIs
<1> HIDE DEF l, base, One
<1>6. PICK g \in [0 .. l -> Confs] : g[0] = base /\ \A n \in 1 .. l : g[n] = F[n][g[n - 1]]
  BY <1>5 DEF RunOf
<1>7. \A n \in 1 .. l : g[n] = One(n, g[n - 1])
  <2> SUFFICES ASSUME NEW n \in 1 .. l PROVE g[n] = One(n, g[n - 1])
    OBVIOUS
  <2>1. n - 1 \in 0 .. l
    BY <1>0
  <2>2. g[n - 1] \in Confs
    BY <1>6, <2>1
  <2> QED
    BY <1>6, <2>2
<1>8. g = Walk(g)
  BY <1>1, <1>6, <1>7
<1>9. chosen = Walk(chosen)
  BY <1>8
<1> HIDE DEF chosen
<1>10. chosen[0] = base /\ \A n \in 1 .. l : chosen[n] = One(n, chosen[n - 1])
  BY <1>1, <1>9
<1>11. \A n \in 0 .. l : chosen[n] \in Confs
  <2> DEFINE T == {n \in 0 .. l : chosen[n] \in Confs}
  <2>1. 0 \in T
    BY <1>1, <1>3, <1>10
  <2>2. \A n \in 1 .. l : n - 1 \in T => n \in T
    BY <1>1, <1>2, <1>10
  <2>3. \A n \in 0 .. l : n \in T
    <3> HIDE DEF T
    <3> QED
      BY <1>1, <2>1, <2>2, UpTo
  <2> QED
    BY <2>3
<1>12. ListedBy(chosen, c, a, sign)
  BY <1>10, <1>11 DEF ListedBy, l, base, One
<1> QED
  BY <1>4, <1>12 DEF l

LEMMA ListedType ==
  ASSUME NEW k \in Modifier, NEW c \in Confs, NEW a, Has(k, a), NEW sign \in Signs
  PROVE  Listed(c, a, sign) \in Confs
<1>1. CASE a = Nothing \/ c.family = 0
  BY <1>1 DEF Listed
<1>2. CASE a # Nothing /\ c.family # 0
  <2>1. IsAttr(k, a) /\ Len(a.values) \in 0 .. Len(a.values)
    BY <1>2 DEF Has, IsAttr
  <2> QED
    BY <1>2, <2>1, ListedRun DEF ListedBy
<1> QED
  BY <1>1, <1>2

LEMMA HandleType ==
  ASSUME NEW k \in KeySet, NEW c \in Confs, NEW a, Has(k, a), a = Nothing => k \notin Required
  PROVE  Handle(k, c, a) \in Confs
<1>1. k \in {"type", "flags", "protocol", "wait", "server", "instances", "port", "only_from",
             "no_access", "per_source", "cpm", "enabled", "disable"}
  BY DEF KeySet, Keys
<1>2. CASE k = "type"
  BY <1>2, TypeType DEF Handle
<1>3. CASE k = "flags"
  BY <1>3, FlagsType DEF Handle
<1>4. CASE k = "protocol"
  BY <1>4, ProtocolType DEF Handle
<1>5. CASE k = "wait"
  BY <1>5, WaitType DEF Handle
<1>6. CASE k = "server"
  BY <1>6, ServerType DEF Handle
<1>7. CASE k = "instances"
  BY <1>7, InstancesType DEF Handle
<1>8. CASE k = "port"
  BY <1>8, PortType DEF Handle
<1>9. CASE k = "only_from"
  BY <1>9, ListedType DEF Handle, Signs, Modifier
<1>10. CASE k = "no_access"
  BY <1>10, ListedType DEF Handle, Signs, Modifier
<1>11. CASE k = "per_source"
  BY <1>11, PerSourceType DEF Handle
<1>12. CASE k = "cpm"
  BY <1>12, CpmType DEF Handle
<1>13. CASE k = "enabled"
  BY <1>13, EnabledType DEF Handle
<1>14. CASE k = "disable"
  BY <1>14, DisableType DEF Handle
<1> QED
  BY <1>1, <1>2, <1>3, <1>4, <1>5, <1>6, <1>7, <1>8, <1>9, <1>10, <1>11, <1>12, <1>13, <1>14

LEMMA AttributeType ==
  ASSUME NEW k \in KeySet, NEW n, NEW c \in Confs, NEW a, Has(k, a)
  PROVE  Attribute(k, n, c, a) \in Confs
<1>1. Ends(c, "Expected") \in Confs
  BY EndsType DEF Statuses
<1> QED
  BY <1>1, FailureType, HandleType DEF Attribute

\* Elements() takes the attributes in turn.
ElementsBy(w, k, c, given) ==
  /\ w[0] = c
  /\ \A n \in 1 .. Len(given) :
       w[n] = IF w[n - 1].st = "Success" THEN Attribute(k, n, w[n - 1], given[n]) ELSE w[n - 1]
  /\ \A n \in 0 .. Len(given) : w[n] \in Confs

LEMMA ElementsRun ==
  ASSUME NEW k \in KeySet, NEW c \in Confs, NEW given, IsGiven(k, given)
  PROVE  \E w : ElementsBy(w, k, c, given) /\ Elements(k, c, given) = w[Len(given)]
<1> DEFINE l == Len(given)
           One(n, x) == IF x.st = "Success" THEN Attribute(k, n, x, given[n]) ELSE x
           F == [n \in 1 .. l |-> [x \in Confs |-> One(n, x)]]
           Walk(w) == [n \in 0 .. l |-> IF n = 0 THEN c ELSE One(n, w[n - 1])]
           chosen == CHOOSE w : w = Walk(w)
<1>0. l \in Nat /\ \A n \in 1 .. l : Has(k, given[n])
  BY DEF IsGiven, Has
<1>1. l \in Nat
  BY <1>0
<1>2. \A n \in 1 .. l, x \in Confs : One(n, x) \in Confs
  BY <1>0, AttributeType
<1>4. Elements(k, c, given) = chosen[l]
  BY DEF Elements
<1>5. \E g : RunOf(g, Confs, c, l, F)
  <2>1. F \in [1 .. l -> [Confs -> Confs]]
    BY <1>2
  <2> HIDE DEF F, l
  <2> QED
    BY <1>1, <2>1, RunIs
<1> HIDE DEF l, One
<1>6. PICK g \in [0 .. l -> Confs] : g[0] = c /\ \A n \in 1 .. l : g[n] = F[n][g[n - 1]]
  BY <1>5 DEF RunOf
<1>7. \A n \in 1 .. l : g[n] = One(n, g[n - 1])
  <2> SUFFICES ASSUME NEW n \in 1 .. l PROVE g[n] = One(n, g[n - 1])
    OBVIOUS
  <2>1. n - 1 \in 0 .. l
    BY <1>1
  <2>2. g[n - 1] \in Confs
    BY <1>6, <2>1
  <2> QED
    BY <1>6, <2>2
<1>8. g = Walk(g)
  BY <1>1, <1>6, <1>7
<1>9. chosen = Walk(chosen)
  BY <1>8
<1> HIDE DEF chosen
<1>10. chosen[0] = c /\ \A n \in 1 .. l : chosen[n] = One(n, chosen[n - 1])
  BY <1>1, <1>9
<1>11. \A n \in 0 .. l : chosen[n] \in Confs
  <2> DEFINE T == {n \in 0 .. l : chosen[n] \in Confs}
  <2>1. 0 \in T
    BY <1>1, <1>10
  <2>2. \A n \in 1 .. l : n - 1 \in T => n \in T
    BY <1>1, <1>2, <1>10
  <2>3. \A n \in 0 .. l : n \in T
    <3> HIDE DEF T
    <3> QED
      BY <1>1, <2>1, <2>2, UpTo
  <2> QED
    BY <2>3
<1>12. ElementsBy(chosen, k, c, given)
  BY <1>10, <1>11 DEF ElementsBy, l, One
<1> QED
  BY <1>4, <1>12 DEF l

LEMMA ElementsType ==
  ASSUME NEW k \in KeySet, NEW c \in Confs, NEW given, IsGiven(k, given)
  PROVE  Elements(k, c, given) \in Confs
<1>1. Len(given) \in 0 .. Len(given)
  BY DEF IsGiven
<1> QED
  BY <1>1, ElementsRun DEF ElementsBy

\* Through() takes the keys in turn.
AllGiven(given) == \A k \in KeySet : IsGiven(k, given[k])
ThroughBy(w, c, given) ==
  /\ w[0] = c
  /\ \A n \in 1 .. Len(Keys) : w[n] = Elements(Keys[n], w[n - 1], given[Keys[n]])
  /\ \A n \in 0 .. Len(Keys) : w[n] \in Confs

LEMMA ThroughRun ==
  ASSUME NEW c \in Confs, NEW given, AllGiven(given)
  PROVE  \E w : ThroughBy(w, c, given) /\ Through(c, given) = w[Len(Keys)]
<1> DEFINE l == Len(Keys)
           One(n, x) == Elements(Keys[n], x, given[Keys[n]])
           F == [n \in 1 .. l |-> [x \in Confs |-> One(n, x)]]
           Walk(w) == [n \in 0 .. l |-> IF n = 0 THEN c ELSE One(n, w[n - 1])]
           chosen == CHOOSE w : w = Walk(w)
<1>0. l \in Nat /\ \A n \in 1 .. l : Keys[n] \in KeySet /\ IsGiven(Keys[n], given[Keys[n]])
  BY DEF KeySet, AllGiven, Keys
<1>1. l \in Nat
  BY <1>0
<1>2. \A n \in 1 .. l, x \in Confs : One(n, x) \in Confs
  <2> HIDE DEF l
  <2> QED
    BY <1>0, ElementsType
<1>4. Through(c, given) = chosen[l]
  BY DEF Through
<1>5. \E g : RunOf(g, Confs, c, l, F)
  <2>1. F \in [1 .. l -> [Confs -> Confs]]
    <3> HIDE DEF l, One
    <3> QED
      BY <1>2
  <2> HIDE DEF F, l
  <2> QED
    BY <1>1, <2>1, RunIs
<1> HIDE DEF l, One
<1>6. PICK g \in [0 .. l -> Confs] : g[0] = c /\ \A n \in 1 .. l : g[n] = F[n][g[n - 1]]
  BY <1>5 DEF RunOf
<1>7. \A n \in 1 .. l : g[n] = One(n, g[n - 1])
  <2> SUFFICES ASSUME NEW n \in 1 .. l PROVE g[n] = One(n, g[n - 1])
    OBVIOUS
  <2>1. n - 1 \in 0 .. l
    BY <1>1
  <2>2. g[n - 1] \in Confs
    BY <1>6, <2>1
  <2> QED
    BY <1>6, <2>2
<1>8. g = Walk(g)
  BY <1>1, <1>6, <1>7
<1>9. chosen = Walk(chosen)
  BY <1>8
<1> HIDE DEF chosen
<1>10. chosen[0] = c /\ \A n \in 1 .. l : chosen[n] = One(n, chosen[n - 1])
  BY <1>1, <1>9
<1>11. \A n \in 0 .. l : chosen[n] \in Confs
  <2> DEFINE T == {n \in 0 .. l : chosen[n] \in Confs}
  <2>1. 0 \in T
    BY <1>1, <1>10
  <2>2. \A n \in 1 .. l : n - 1 \in T => n \in T
    BY <1>1, <1>2, <1>10
  <2>3. \A n \in 0 .. l : n \in T
    <3> HIDE DEF T
    <3> QED
      BY <1>1, <2>1, <2>2, UpTo
  <2> QED
    BY <2>3
<1>12. ThroughBy(chosen, c, given)
  BY <1>10, <1>11 DEF ThroughBy, l, One
<1> QED
  BY <1>4, <1>12 DEF l

LEMMA ThroughType ==
  ASSUME NEW c \in Confs, NEW given, AllGiven(given)
  PROVE  Through(c, given) \in Confs
<1>1. Len(Keys) \in 0 .. Len(Keys)
  BY DEF Keys
<1> QED
  BY <1>1, ThroughRun DEF ThroughBy

-----------------------------------------------------------------------------
(* Two of them.                                                            *)

\* Entries that are equal but for se_maxperip and match_default_.  Most handlers, applied to
\* two of those, leave them so, and touch neither these fields nor the addresses.
Alike(d, e) ==
  /\ d.name = e.name /\ d.type = e.type /\ d.flag = e.flag /\ d.family = e.family
  /\ d.nomapped = e.nomapped /\ d.accept = e.accept /\ d.server = e.server /\ d.bi = e.bi
  /\ d.maxchild = e.maxchild /\ d.port = e.port /\ d.cpmmax = e.cpmmax /\ d.cpmwait = e.cpmwait
  /\ d.addresses = e.addresses /\ d.st = e.st
Rest(c, d) == d.addresses = c.addresses /\ d.all = c.all /\ d.maxperip = c.maxperip
Both(d, e, x, y) == Alike(x, y) /\ Rest(d, x) /\ Rest(e, y)

LEMMA EndsBoth ==
  ASSUME NEW d \in Confs, NEW e \in Confs, Alike(d, e), NEW s
  PROVE  Both(d, e, Ends(d, s), Ends(e, s)) /\ Both(d, e, d, e) /\ Both(d, e, Failure(d), Failure(e))
BY DEF Both, Alike, Rest, Ends, Failure, Confs

LEMMA TypeBoth ==
  ASSUME NEW d \in Confs, NEW e \in Confs, Alike(d, e), NEW a
  PROVE  Both(d, e, type(d, a), type(e, a))
<1>1. \A v : Both(d, e, [d EXCEPT !.type = v], [e EXCEPT !.type = v])
  BY DEF Both, Alike, Rest, Confs
<1> QED
  BY <1>1, EndsBoth DEF type

LEMMA FlagsBoth ==
  ASSUME NEW d \in Confs, NEW e \in Confs, Alike(d, e), NEW a
  PROVE  Both(d, e, flags(d, a), flags(e, a))
<1>1. \A v : Both(d, e, [d EXCEPT !.flag = v], [e EXCEPT !.flag = v])
  BY DEF Both, Alike, Rest, Confs
<1>2. d.flag = e.flag
  BY DEF Alike
<1> QED
  BY <1>1, <1>2, EndsBoth DEF flags

LEMMA ProtocolBoth ==
  ASSUME NEW d \in Confs, NEW e \in Confs, Alike(d, e), NEW a
  PROVE  Both(d, e, protocol(d, a), protocol(e, a))
<1>1. \A v, w : Both(d, e, [d EXCEPT !.family = v, !.nomapped = w], [e EXCEPT !.family = v, !.nomapped = w])
  BY DEF Both, Alike, Rest, Confs
<1>2. \A v : Both(d, e, [d EXCEPT !.family = v], [e EXCEPT !.family = v])
  BY DEF Both, Alike, Rest, Confs
<1>3. d.flag = e.flag
  BY DEF Alike
<1> QED
  BY <1>1, <1>2, <1>3, EndsBoth DEF protocol

LEMMA WaitBoth ==
  ASSUME NEW d \in Confs, NEW e \in Confs, Alike(d, e), NEW a
  PROVE  Both(d, e, wait(d, a), wait(e, a))
<1>1. \A v : Both(d, e, [d EXCEPT !.accept = v], [e EXCEPT !.accept = v])
  BY DEF Both, Alike, Rest, Confs
<1> QED
  BY <1>1, EndsBoth DEF wait

LEMMA ServerBoth ==
  ASSUME NEW d \in Confs, NEW e \in Confs, Alike(d, e), NEW a
  PROVE  Both(d, e, server(d, a), server(e, a))
<1>1. \A v : Both(d, e, [d EXCEPT !.server = v], [e EXCEPT !.server = v])
  BY DEF Both, Alike, Rest, Confs
<1>2. Both(d, e, [d EXCEPT !.server = "internal", !.accept = TRUE, !.bi = TRUE],
                 [e EXCEPT !.server = "internal", !.accept = TRUE, !.bi = TRUE])
  BY DEF Both, Alike, Rest, Confs
<1>3. d.type = e.type /\ d.name = e.name
  BY DEF Alike
<1> QED
  BY <1>1, <1>2, <1>3, EndsBoth DEF server

LEMMA InstancesBoth ==
  ASSUME NEW d \in Confs, NEW e \in Confs, Alike(d, e), NEW a
  PROVE  Both(d, e, instances(d, a), instances(e, a))
<1>1. \A v : Both(d, e, [d EXCEPT !.maxchild = v], [e EXCEPT !.maxchild = v])
  BY DEF Both, Alike, Rest, Confs
<1> QED
  BY <1>1, EndsBoth DEF instances

LEMMA PortBoth ==
  ASSUME NEW d \in Confs, NEW e \in Confs, Alike(d, e), NEW a
  PROVE  Both(d, e, port(d, a), port(e, a))
<1>1. \A v : Both(d, e, [d EXCEPT !.port = v], [e EXCEPT !.port = v])
  BY DEF Both, Alike, Rest, Confs
<1>2. d.type = e.type /\ d.name = e.name
  BY DEF Alike
<1> QED
  BY <1>1, <1>2, EndsBoth DEF port

LEMMA CpmBoth ==
  ASSUME NEW d \in Confs, NEW e \in Confs, Alike(d, e), NEW a
  PROVE  Both(d, e, cpm(d, a), cpm(e, a))
<1>1. \A v, w : Both(d, e, [d EXCEPT !.cpmmax = v, !.cpmwait = w], [e EXCEPT !.cpmmax = v, !.cpmwait = w])
  BY DEF Both, Alike, Rest, Confs
<1> QED
  BY <1>1, EndsBoth DEF cpm

LEMMA EnabledBoth ==
  ASSUME NEW d \in Confs, NEW e \in Confs, Alike(d, e), NEW a
  PROVE  Both(d, e, enabled(d, a), enabled(e, a))
<1>1. d.name = e.name
  BY DEF Alike
<1> QED
  BY <1>1, EndsBoth DEF enabled

LEMMA DisableBoth ==
  ASSUME NEW d \in Confs, NEW e \in Confs, Alike(d, e), NEW a
  PROVE  Both(d, e, disable(d, a), disable(e, a))
BY EndsBoth DEF disable

-----------------------------------------------------------------------------
(* What the properties need of the constants, and the types.               *)

\* What the reader returns for one key, in a section or in "defaults".
Read(k, given) == IsGiven(k, given) /\ Len(given) # 0 /\ \A i \in DOMAIN given : given[i] # Nothing

\* The files are read into attributes with values of their kinds.
Sound ==
  /\ Meant \subseteq BOOLEAN
  /\ {MaxPerIp, MaxCpm} \subseteq Numbers /\ {MaxChild, BuiltinMax} \subseteq Int
  /\ \A s \in Sections : \A k \in KeySet \cap DOMAIN s.attr : Read(k, s.attr[k])
  /\ \A d \in DefaultSets : \A k \in Default \cap DOMAIN d : Read(k, d[k])
  /\ {"ALL", "bad"} \cap Addrs = {}

LEMMA ClearedType ==
  ASSUME NEW name \in Names, NEW m \in Numbers, NEW z \in {-1, 0, 1}
  PROVE  Cleared(name, m, z) \in Confs
<1>1. [sign \in Signs |-> Nowhere] \in [Signs -> [Addrs -> Nat]]
  BY DEF Nowhere
<1>2. "" \in Programs /\ 0 \in Numbers /\ "Success" \in Statuses
  BY DEF Programs, Numbers, Statuses
<1> QED
  BY <1>1, <1>2 DEF Cleared, Confs

LEMMA DefaultsType ==
  ASSUME Sound, defaults \in DefaultSets
  PROVE  process_defaults \in Confs
<1> DEFINE given == [k \in KeySet |-> IF k \in Default \cap DOMAIN defaults THEN defaults[k] ELSE <<>>]
           c == [Cleared("defaults", -1, 0) EXCEPT !.accept = TRUE]
<1>1. "defaults" \in Names /\ -1 \in Numbers
  BY DEF Names, Numbers
<1>2. Cleared("defaults", -1, 0) \in Confs
  BY <1>1, ClearedType
<1>3. c \in Confs
  <2> HIDE DEF Cleared
  <2> QED
    BY <1>2 DEF Confs
<1>4. AllGiven(given)
  <2> SUFFICES ASSUME NEW k \in KeySet PROVE IsGiven(k, given[k])
    BY DEF AllGiven
  <2>1. CASE k \in Default \cap DOMAIN defaults
    BY <2>1 DEF Sound, Read
  <2>2. CASE k \notin Default \cap DOMAIN defaults
    <3>1. given[k] = <<>>
      BY <2>2
    <3> HIDE DEF given
    <3> QED
      BY <3>1 DEF IsGiven
  <2> QED
    BY <2>1, <2>2
<1>5. process_defaults = Through(c, given)
  BY DEF process_defaults
<1> HIDE DEF given, c
<1> QED
  BY <1>3, <1>4, <1>5, ThroughType

\* The attributes of a section, those of "defaults" included.
GivenTo(s) == [k \in KeySet |-> Given(k, s)]

LEMMA GivenIs ==
  ASSUME Sound, defaults \in DefaultSets, NEW s \in Sections
  PROVE  /\ AllGiven(GivenTo(s))
         /\ \A k \in KeySet : GivenTo(s)[k] = <<Nothing>> \/ Read(k, GivenTo(s)[k])
<1>1. ASSUME NEW k \in KeySet
      PROVE  GivenTo(s)[k] = <<Nothing>> \/ Read(k, GivenTo(s)[k])
  BY DEF Sound, GivenTo, Given
<1>2. ASSUME NEW k \in KeySet PROVE IsGiven(k, <<Nothing>>)
  BY DEF IsGiven
<1>3. \A k \in KeySet : IsGiven(k, GivenTo(s)[k])
  BY <1>1, <1>2 DEF Read
<1> QED
  BY <1>1, <1>3 DEF AllGiven

LEMMA ApplyType == ASSUME Sound, NEW c \in Confs PROVE apply_defaults(c) \in Confs
<1> DEFINE m == IF c.maxperip < 0 THEN MaxPerIp ELSE c.maxperip
           p == IF c.cpmmax < 0 THEN MaxCpm ELSE c.cpmmax
           n == IF c.maxchild >= 0 THEN c.maxchild
                ELSE IF c.bi /\ BuiltinMax >= 0 THEN BuiltinMax
                ELSE IF ~c.accept THEN 1
                ELSE IF MaxChild > 0 THEN MaxChild ELSE 0
<1>1. apply_defaults(c) = [c EXCEPT !.maxperip = m, !.cpmmax = p, !.maxchild = n]
  BY DEF apply_defaults, Confs
<1>2. m \in Numbers /\ p \in Numbers /\ n \in Numbers
  BY DEF Sound, Confs, Numbers
<1> HIDE DEF m, p, n
<1> QED
  BY <1>1, <1>2 DEF Confs

LEMMA ResetType ==
  ASSUME NEW c \in Confs, NEW s \in Sections
  PROVE  Reset(c, s.name) \in Confs
<1>1. s.name \in Names /\ c.maxperip \in Numbers /\ (IF meant THEN 0 ELSE c.all) \in {-1, 0, 1}
  BY DEF Names, Confs
<1> QED
  BY <1>1, ClearedType DEF Reset

LEMMA SectionType ==
  ASSUME Sound, defaults \in DefaultSets, NEW c \in Confs, NEW s \in Sections
  PROVE  process_section(c, s) \in Confs
<1>1. Through(Reset(c, s.name), GivenTo(s)) \in Confs
  BY GivenIs, ResetType, ThroughType
<1> QED
  BY <1>1, ApplyType DEF process_section, GivenTo

-----------------------------------------------------------------------------
(* An entry is that of its section.                                        *)

\* e has no match_default_, or that of d; as long as d is good, for the first that refuses ALL
\* is d.
Near(d, e)    == Alike(d, e) /\ e.all \in {0, d.all}
Follows(d, e) == d.st = "Success" => Near(d, e)
Equal(d, e)   == Alike(d, e) /\ e.all = d.all
Tied(d, e)    == d.st = "Success" => e.maxperip = d.maxperip
Held(d, e, x, y) == x.maxperip = d.maxperip /\ y.maxperip = e.maxperip

LEMMA BothFollows ==
  ASSUME NEW d, NEW e, NEW x, NEW y, Near(d, e), Both(d, e, x, y)
  PROVE  Near(x, y) /\ Follows(x, y) /\ (Equal(d, e) => Equal(x, y)) /\ Held(d, e, x, y)
BY DEF Near, Both, Rest, Follows, Equal, Held

\* What a step of d and the same step of e lead to.
Steps(d, e, x, y) == Follows(x, y) /\ (Equal(d, e) => Equal(x, y)) /\ Held(d, e, x, y)

LEMMA ListingSteps ==
  ASSUME NEW d \in Confs, NEW e \in Confs, Near(d, e), NEW op, NEW v, NEW sign \in Signs
  PROVE  Steps(d, e, Listing(d, op, v, sign), Listing(e, op, v, sign))
<1>1. Both(d, e, Failure(d), Failure(e))
  BY EndsBoth DEF Near
<1>2. Steps(d, e, Failure(d), Failure(e))
  BY <1>1, BothFollows DEF Steps
<1>3. d.addresses = e.addresses
  BY DEF Near, Alike
<1>4. CASE v = "ALL"
  <2> DEFINE z == IF sign = "+" THEN 1 ELSE -1
  <2>1. z # 0
    OBVIOUS
  <2>8. Listing(d, op, v, sign) = MatchDefault(d, z) /\ Listing(e, op, v, sign) = MatchDefault(e, z)
    BY <1>4 DEF Listing
  <2> HIDE DEF z
  <2> SUFFICES Steps(d, e, MatchDefault(d, z), MatchDefault(e, z))
    BY <2>8
  <2>2. ASSUME d.all \in {0, z}
        PROVE  Steps(d, e, [d EXCEPT !.all = z], [e EXCEPT !.all = z])
    BY DEF Steps, Follows, Equal, Held, Near, Alike, Confs
  <2>3. e.all \in {0, d.all}
    BY DEF Near
  <2>4. CASE d.all \in {0, z}
    BY <2>2, <2>3, <2>4 DEF MatchDefault
  <2>5. CASE d.all \notin {0, z} /\ e.all \notin {0, z}
    BY <1>2, <2>5 DEF MatchDefault
  <2>6. CASE d.all \notin {0, z} /\ e.all \in {0, z}
    <3>1. e.all # d.all
      BY <2>6
    <3>2. Failure(d).st # "Success" /\ Failure(d).maxperip = d.maxperip
      BY DEF Failure, Ends, Confs
    <3>3. [e EXCEPT !.all = z].maxperip = e.maxperip
      BY DEF Confs
    <3>4. MatchDefault(d, z) = Failure(d) /\ MatchDefault(e, z) = [e EXCEPT !.all = z]
      BY <2>6 DEF MatchDefault
    <3> QED
      BY <3>1, <3>2, <3>3, <3>4 DEF Steps, Follows, Equal, Held
  <2> QED
    BY <2>4, <2>5, <2>6
<1>5. CASE v = "bad"
  BY <1>2, <1>5 DEF Listing
<1>6. CASE v \notin {"ALL", "bad"} /\ op = "-"
  <2>1. Steps(d, e, Erase(d, v, sign), Erase(e, v, sign))
    BY <1>3 DEF Erase, Steps, Follows, Equal, Held, Near, Alike, Confs
  <2> QED
    BY <1>6, <2>1 DEF Listing
<1>7. CASE v \notin {"ALL", "bad"} /\ op # "-"
  <2>1. Steps(d, e, [d EXCEPT !.addresses[sign][v] = @ + 1], [e EXCEPT !.addresses[sign][v] = @ + 1])
    BY <1>3 DEF Steps, Follows, Equal, Held, Near, Alike, Confs
  <2>2. Steps(d, e, Push(d, v, sign), Push(e, v, sign))
    BY <1>2, <1>3, <2>1 DEF Push
  <2> QED
    BY <1>7, <2>2 DEF Listing
<1> QED
  BY <1>4, <1>5, <1>6, <1>7

LEMMA ClearSteps ==
  ASSUME NEW d \in Confs, NEW e \in Confs, Near(d, e), NEW sign \in Signs
  PROVE  Steps(d, e, ClearSign(d, sign), ClearSign(e, sign)) /\ Steps(d, e, d, e)
<1>1. d.addresses = e.addresses
  BY DEF Near, Alike
<1> QED
  BY <1>1 DEF ClearSign, Steps, Follows, Equal, Held, Near, Alike, Confs

LEMMA StepsOn ==
  ASSUME NEW d, NEW e, NEW x, NEW y, NEW p, NEW q, Steps(d, e, x, y), Steps(x, y, p, q)
  PROVE  Steps(d, e, p, q)
BY DEF Steps, Held

LEMMA ListedSteps ==
  ASSUME NEW k \in Modifier, NEW d \in Confs, NEW e \in Confs, Near(d, e), NEW a, Has(k, a), NEW sign \in Signs
  PROVE  Steps(d, e, Listed(d, a, sign), Listed(e, a, sign))
<1>1. d.family = e.family
  BY DEF Near, Alike
<1>2. CASE a = Nothing \/ d.family = 0
  BY <1>1, <1>2, ClearSteps DEF Listed
<1>3. CASE a # Nothing /\ d.family # 0
  <2>1. IsAttr(k, a)
    BY <1>3 DEF Has
  <2>2. PICK w : ListedBy(w, d, a, sign) /\ Listed(d, a, sign) = w[Len(a.values)]
    BY <1>3, <2>1, ListedRun
  <2>3. PICK v : ListedBy(v, e, a, sign) /\ Listed(e, a, sign) = v[Len(a.values)]
    BY <1>1, <1>3, <2>1, ListedRun
  <2> DEFINE l == Len(a.values)
             T == {n \in 0 .. l : Steps(d, e, w[n], v[n])}
  <2>4. l \in Nat
    BY <2>1 DEF IsAttr
  <2>5. 0 \in T
    BY <2>2, <2>3, <2>4, ClearSteps DEF ListedBy
  <2>6. ASSUME NEW n \in 1 .. l, n - 1 \in T PROVE n \in T
    <3> DEFINE x == w[n - 1]
               y == v[n - 1]
    <3>1. x \in Confs /\ y \in Confs /\ Steps(d, e, x, y)
      BY <2>2, <2>3, <2>4, <2>6 DEF ListedBy
    <3>2. /\ w[n] = IF x.st = "Success" THEN Listing(x, a.op, a.values[n], sign) ELSE x
          /\ v[n] = IF y.st = "Success" THEN Listing(y, a.op, a.values[n], sign) ELSE y
      BY <2>2, <2>3 DEF ListedBy
    <3> HIDE DEF x, y
    <3>3. CASE x.st = "Success"
      <4>1. Near(x, y) /\ y.st = "Success"
        BY <3>1, <3>3 DEF Steps, Follows, Near, Alike
      <4>2. Steps(x, y, w[n], v[n])
        BY <3>1, <3>2, <3>3, <4>1, ListingSteps
      <4> QED
        BY <3>1, <4>2, StepsOn
    <3>4. CASE x.st # "Success" /\ y.st # "Success"
      BY <3>1, <3>2, <3>4
    <3>5. CASE x.st # "Success" /\ y.st = "Success"
      <4>1. ~Equal(d, e)
        BY <3>1, <3>5 DEF Steps, Equal, Alike
      <4>2. Listing(y, a.op, a.values[n], sign).maxperip = y.maxperip
        <5>1. Near(y, y)
          BY <3>1 DEF Near, Alike, Confs
        <5> QED
          BY <3>1, <5>1, ListingSteps DEF Steps, Held
      <4> QED
        BY <3>1, <3>2, <3>5, <4>1, <4>2 DEF Steps, Follows, Held
    <3> QED
      BY <3>3, <3>4, <3>5
  <2>7. \A n \in 0 .. l : n \in T
    <3> HIDE DEF T
    <3> QED
      BY <2>4, <2>5, <2>6, UpTo
  <2> QED
    BY <2>2, <2>3, <2>4, <2>7
<1> QED
  BY <1>2, <1>3

\* per_source is the one that sets se_maxperip.
Pairs(k, d, e, x, y) ==
  /\ Follows(x, y) /\ (Equal(d, e) => Equal(x, y))
  /\ IF k = "per_source" THEN Tied(x, y) ELSE Held(d, e, x, y)

LEMMA BothPairs ==
  ASSUME NEW k, k # "per_source", NEW d, NEW e, NEW x, NEW y, Near(d, e), Both(d, e, x, y)
  PROVE  Pairs(k, d, e, x, y)
BY BothFollows DEF Pairs

LEMMA PerSourcePairs ==
  ASSUME NEW d \in Confs, NEW e \in Confs, Near(d, e), NEW a
  PROVE  Pairs("per_source", d, e, per_source(d, a), per_source(e, a))
<1>1. \A v : Pairs("per_source", d, e, [d EXCEPT !.maxperip = v], [e EXCEPT !.maxperip = v])
  BY DEF Pairs, Follows, Equal, Tied, Near, Alike, Confs
<1>2. Pairs("per_source", d, e, Failure(d), Failure(e))
  BY DEF Pairs, Follows, Equal, Tied, Near, Alike, Confs, Failure, Ends
<1> QED
  BY <1>1, <1>2 DEF per_source

LEMMA HandlePairs ==
  ASSUME NEW k \in KeySet, NEW d \in Confs, NEW e \in Confs, Near(d, e), NEW a, Has(k, a)
  PROVE  Pairs(k, d, e, Handle(k, d, a), Handle(k, e, a))
<1>0. Alike(d, e)
  BY DEF Near
<1>1. k \in {"type", "flags", "protocol", "wait", "server", "instances", "port", "only_from",
             "no_access", "per_source", "cpm", "enabled", "disable"}
  BY DEF KeySet, Keys
<1>2. CASE k = "type"
  BY <1>0, <1>2, TypeBoth, BothPairs DEF Handle
<1>3. CASE k = "flags"
  BY <1>0, <1>3, FlagsBoth, BothPairs DEF Handle
<1>4. CASE k = "protocol"
  BY <1>0, <1>4, ProtocolBoth, BothPairs DEF Handle
<1>5. CASE k = "wait"
  BY <1>0, <1>5, WaitBoth, BothPairs DEF Handle
<1>6. CASE k = "server"
  BY <1>0, <1>6, ServerBoth, BothPairs DEF Handle
<1>7. CASE k = "instances"
  BY <1>0, <1>7, InstancesBoth, BothPairs DEF Handle
<1>8. CASE k = "port"
  BY <1>0, <1>8, PortBoth, BothPairs DEF Handle
<1>9. CASE k = "only_from"
  <2>1. Steps(d, e, Listed(d, a, "+"), Listed(e, a, "+"))
    BY <1>9, ListedSteps DEF Signs, Modifier
  <2> QED
    BY <1>9, <2>1 DEF Handle, Pairs, Steps
<1>10. CASE k = "no_access"
  <2>1. Steps(d, e, Listed(d, a, "-"), Listed(e, a, "-"))
    BY <1>10, ListedSteps DEF Signs, Modifier
  <2> QED
    BY <1>10, <2>1 DEF Handle, Pairs, Steps
<1>11. CASE k = "per_source"
  BY <1>11, PerSourcePairs DEF Handle
<1>12. CASE k = "cpm"
  BY <1>0, <1>12, CpmBoth, BothPairs DEF Handle
<1>13. CASE k = "enabled"
  BY <1>0, <1>13, EnabledBoth, BothPairs DEF Handle
<1>14. CASE k = "disable"
  BY <1>0, <1>14, DisableBoth, BothPairs DEF Handle
<1> QED
  BY <1>1, <1>2, <1>3, <1>4, <1>5, <1>6, <1>7, <1>8, <1>9, <1>10, <1>11, <1>12, <1>13, <1>14

LEMMA AttributePairs ==
  ASSUME NEW k \in KeySet, NEW n, NEW d \in Confs, NEW e \in Confs, Near(d, e), NEW a, Has(k, a)
  PROVE  Pairs(k, d, e, Attribute(k, n, d, a), Attribute(k, n, e, a))
<1>1. \A s : s # "Success" => Pairs(k, d, e, Ends(d, s), Ends(e, s))
  BY DEF Pairs, Follows, Equal, Tied, Held, Near, Alike, Confs, Ends
<1>2. Pairs(k, d, e, Ends(d, "Expected"), Ends(e, "Expected")) /\ Pairs(k, d, e, Failure(d), Failure(e))
  BY <1>1 DEF Failure
<1>3. Pairs(k, d, e, Handle(k, d, a), Handle(k, e, a))
  BY HandlePairs
<1> QED
  BY <1>2, <1>3 DEF Attribute

\* What one key leads to when it has been looked at n times.
Leads(k, n, d, e, x, y) ==
  /\ Follows(x, y) /\ (Equal(d, e) => Equal(x, y))
  /\ Tied(d, e) \/ (k = "per_source" /\ n > 0) => Tied(x, y)

LEMMA LeadsOn ==
  ASSUME NEW k, NEW n \in Nat \ {0}, NEW d, NEW e, NEW x, NEW y, NEW p, NEW q,
         x.st = "Success", Leads(k, n - 1, d, e, x, y), Pairs(k, x, y, p, q)
  PROVE  Leads(k, n, d, e, p, q)
<1>1. CASE k = "per_source"
  BY <1>1 DEF Leads, Pairs
<1>2. CASE k # "per_source"
  BY <1>2 DEF Leads, Pairs, Held, Tied
<1> QED
  BY <1>1, <1>2

LEMMA ElementsLead ==
  ASSUME NEW k \in KeySet, NEW d \in Confs, NEW e \in Confs, Follows(d, e),
         NEW given, IsGiven(k, given)
  PROVE  Leads(k, Len(given), d, e, Elements(k, d, given), Elements(k, e, given))
<1>2. PICK w : ElementsBy(w, k, d, given) /\ Elements(k, d, given) = w[Len(given)]
  BY ElementsRun
<1>3. PICK v : ElementsBy(v, k, e, given) /\ Elements(k, e, given) = v[Len(given)]
  BY ElementsRun
<1> DEFINE l == Len(given)
           T == {n \in 0 .. l : Leads(k, n, d, e, w[n], v[n])}
<1>4. l \in Nat /\ \A n \in 1 .. l : Has(k, given[n])
  BY DEF IsGiven, Has
<1>5. 0 \in T
  BY <1>2, <1>3, <1>4 DEF ElementsBy, Leads
<1>6. ASSUME NEW n \in 1 .. l, n - 1 \in T PROVE n \in T
  <2> DEFINE x == w[n - 1]
             y == v[n - 1]
  <2>1. x \in Confs /\ y \in Confs /\ Leads(k, n - 1, d, e, x, y)
    BY <1>2, <1>3, <1>4, <1>6 DEF ElementsBy
  <2>2. /\ w[n] = IF x.st = "Success" THEN Attribute(k, n, x, given[n]) ELSE x
        /\ v[n] = IF y.st = "Success" THEN Attribute(k, n, y, given[n]) ELSE y
    BY <1>2, <1>3 DEF ElementsBy
  <2>0. n \in Nat \ {0} /\ Has(k, given[n])
    BY <1>4
  <2> HIDE DEF x, y
  <2> SUFFICES Leads(k, n, d, e, w[n], v[n])
    OBVIOUS
  <2>3. CASE x.st = "Success"
    <3>1. Near(x, y) /\ y.st = "Success"
      BY <2>1, <2>3 DEF Leads, Follows, Near, Alike
    <3>2. Pairs(k, x, y, w[n], v[n])
      BY <2>0, <2>1, <2>2, <2>3, <3>1, AttributePairs
    <3> QED
      BY <2>0, <2>1, <2>3, <3>2, LeadsOn
  <2>4. CASE x.st # "Success" /\ y.st # "Success"
    BY <2>1, <2>2, <2>4 DEF Leads, Tied
  <2>5. CASE x.st # "Success" /\ y.st = "Success"
    <3>1. ~Equal(d, e)
      BY <2>1, <2>5 DEF Leads, Equal, Alike
    <3> QED
      BY <2>1, <2>2, <2>5, <3>1 DEF Leads, Follows, Tied
  <2> QED
    BY <2>3, <2>4, <2>5
<1>7. \A n \in 0 .. l : n \in T
  <2> HIDE DEF T
  <2> QED
    BY <1>4, <1>5, <1>6, UpTo
<1> QED
  BY <1>2, <1>3, <1>4, <1>7

\* per_source is the tenth key, and is looked at at least once.
Goes(n, d, e, x, y) ==
  /\ Follows(x, y) /\ (Equal(d, e) => Equal(x, y))
  /\ n >= 10 => Tied(x, y)

LEMMA ThroughGoes ==
  ASSUME NEW d \in Confs, NEW e \in Confs, Follows(d, e),
         NEW given, AllGiven(given), Len(given["per_source"]) > 0
  PROVE  Goes(13, d, e, Through(d, given), Through(e, given))
<1>1. Len(Keys) = 13 /\ Keys[10] = "per_source"
  BY DEF Keys
<1>2. PICK w : ThroughBy(w, d, given) /\ Through(d, given) = w[13]
  BY <1>1, ThroughRun
<1>3. PICK v : ThroughBy(v, e, given) /\ Through(e, given) = v[13]
  BY <1>1, ThroughRun
<1> DEFINE T == {n \in 0 .. 13 : Goes(n, d, e, w[n], v[n])}
<1>5. 0 \in T
  BY <1>2, <1>3 DEF ThroughBy, Goes
<1>6. ASSUME NEW n \in 1 .. 13, n - 1 \in T PROVE n \in T
  <2> DEFINE x == w[n - 1]
             y == v[n - 1]
             k == Keys[n]
  <2>1. x \in Confs /\ y \in Confs /\ Goes(n - 1, d, e, x, y)
    BY <1>1, <1>2, <1>3, <1>6 DEF ThroughBy
  <2>2. w[n] = Elements(k, x, given[k]) /\ v[n] = Elements(k, y, given[k])
    BY <1>1, <1>2, <1>3 DEF ThroughBy
  <2>3. k \in KeySet /\ IsGiven(k, given[k])
    BY <1>1 DEF KeySet, AllGiven
  <2>4. Leads(k, Len(given[k]), x, y, w[n], v[n])
    <3> HIDE DEF x, y, k
    <3> QED
      BY <2>1, <2>2, <2>3, ElementsLead DEF Goes
  <2>5. n = 10 => k = "per_source" /\ Len(given[k]) > 0
    BY <1>1
  <2>6. n > 10 => n - 1 >= 10
    OBVIOUS
  <2> HIDE DEF x, y, k
  <2>7. Goes(n, d, e, w[n], v[n])
    BY <2>1, <2>4, <2>5, <2>6 DEF Goes, Leads
  <2> QED
    BY <2>7
<1>7. \A n \in 0 .. 13 : n \in T
  <2> HIDE DEF T
  <2> QED
    BY <1>5, <1>6, UpTo
<1> QED
  BY <1>2, <1>3, <1>7

\* What is left to show of an entry.
AloneBody(before, s) ==
  LET c == process_section(before, s)
      alone == process_section(Cleared("", -1, 0), s)
  IN  /\ meant \/ before.all = 0 =>
           IF c.st = "Success" THEN c = alone ELSE alone.st # "Success"
      /\ c.st = "Success" => c = [alone EXCEPT !.all = c.all]

LEMMA SameConf ==
  ASSUME NEW d \in Confs, NEW e \in Confs, Alike(d, e), d.all = e.all, d.maxperip = e.maxperip
  PROVE  d = e
BY DEF Confs, Alike

LEMMA ApplyAll ==
  ASSUME NEW c \in Confs, NEW z \in {-1, 0, 1}
  PROVE  /\ apply_defaults([c EXCEPT !.all = z]) = [apply_defaults(c) EXCEPT !.all = z]
         /\ apply_defaults(c).all = c.all /\ apply_defaults(c).st = c.st
BY ZenonT(40) DEF apply_defaults, Confs

LEMMA AloneIs ==
  ASSUME Sound, defaults \in DefaultSets, NEW before \in Confs, NEW s \in Sections
  PROVE  AloneBody(before, s)
<1> DEFINE none == Cleared("", -1, 0)
           d == Reset(before, s.name)
           e == Reset(none, s.name)
           x == Through(d, GivenTo(s))
           y == Through(e, GivenTo(s))
<1>1. none \in Confs
  <2>1. "" \in Names /\ -1 \in Numbers
    BY DEF Names, Numbers
  <2> QED
    BY <2>1, ClearedType
<1>2. d \in Confs /\ e \in Confs
  BY <1>1, ResetType
<1>3. Near(d, e) /\ (meant \/ before.all = 0 => Equal(d, e)) /\ e.all = 0
  BY DEF Near, Alike, Equal, Reset, Cleared
<1>4. AllGiven(GivenTo(s)) /\ Len(GivenTo(s)["per_source"]) > 0
  <2>1. "per_source" \in KeySet
    BY DEF KeySet, Keys
  <2>2. GivenTo(s)["per_source"] = <<Nothing>> \/ Read("per_source", GivenTo(s)["per_source"])
    BY <2>1, GivenIs
  <2>3. Len(GivenTo(s)["per_source"]) > 0
    BY <2>2, SMTT(30) DEF Read, IsGiven
  <2> QED
    BY <2>3, GivenIs
<1>5. Goes(13, d, e, x, y)
  <2>1. Follows(d, e)
    BY <1>3 DEF Follows
  <2> HIDE DEF d, e
  <2> QED
    BY <1>2, <1>4, <2>1, ThroughGoes
<1>6. x \in Confs /\ y \in Confs
  BY <1>2, <1>4, ThroughType
<1>7. /\ process_section(before, s) = IF x.st = "Success" THEN apply_defaults(x) ELSE x
      /\ process_section(none, s) = IF y.st = "Success" THEN apply_defaults(y) ELSE y
  BY DEF process_section, GivenTo
<1> HIDE DEF d, e, x, y
<1>8. CASE x.st = "Success"
  <2>1. Near(x, y) /\ y.st = "Success" /\ x.maxperip = y.maxperip
    BY <1>5, <1>8 DEF Goes, Follows, Tied, Near, Alike
  <2>2. process_section(before, s) = apply_defaults(x) /\ process_section(none, s) = apply_defaults(y)
    BY <1>7, <1>8, <2>1
  <2>3. x = [y EXCEPT !.all = x.all]
    <3>1. [y EXCEPT !.all = x.all] \in Confs
      BY <1>6 DEF Confs
    <3>2. /\ Alike(x, [y EXCEPT !.all = x.all])
          /\ x.all = [y EXCEPT !.all = x.all].all /\ x.maxperip = [y EXCEPT !.all = x.all].maxperip
      BY <1>6, <2>1 DEF Near, Alike, Confs
    <3> QED
      BY <1>6, <3>1, <3>2, SameConf
  <2>4. Equal(d, e) => x = y
    <3>1. Equal(d, e) => Alike(x, y) /\ x.all = y.all
      BY <1>5 DEF Goes, Equal
    <3> QED
      BY <1>6, <2>1, <3>1, SameConf
  <2>5. x.all \in {-1, 0, 1}
    BY <1>6 DEF Confs
  <2>6. apply_defaults(x) = [apply_defaults(y) EXCEPT !.all = x.all] /\ apply_defaults(x).all = x.all
    BY <1>6, <2>3, <2>5, ApplyAll, ZenonT(40)
  <2>7. apply_defaults(x).st = "Success"
    BY <1>6, <1>8, ApplyAll
  <2> QED
    BY <1>3, <2>2, <2>4, <2>6, <2>7 DEF AloneBody
<1>9. CASE x.st # "Success"
  <2>1. process_section(before, s) = x
    BY <1>7, <1>9
  <2>2. Equal(d, e) => y.st # "Success"
    BY <1>5, <1>9 DEF Goes, Equal, Alike
  <2>3. y.st # "Success" => process_section(none, s) = y
    BY <1>7
  <2> QED
    BY <1>3, <1>9, <2>1, <2>2, <2>3 DEF AloneBody
<1> QED
  BY <1>8, <1>9

-----------------------------------------------------------------------------
(* Each address is under the sign it was last given by.                    *)

\* How often x is listed.
Count(c, sign, x) == c.addresses[sign][x]

\* A step that is about other things.
Aside(c, d) == d.addresses = c.addresses /\ d.family = c.family

LEMMA HandleAside ==
  ASSUME NEW k \in KeySet \ Modifier, NEW c \in Confs, NEW a
  PROVE  /\ Handle(k, c, a).addresses = c.addresses
         /\ k # "protocol" => Handle(k, c, a).family = c.family
<1>0. Alike(c, c)
  BY DEF Alike
<1>1. k \in {"type", "flags", "protocol", "wait", "server", "instances", "port",
             "per_source", "cpm", "enabled", "disable"}
  BY DEF KeySet, Keys, Modifier
<1>e. \A s : Aside(c, Ends(c, s)) /\ Aside(c, Failure(c)) /\ Aside(c, c)
  BY DEF Aside, Ends, Failure, Confs
<1>2. CASE k = "type"
  <2>1. \A v : Aside(c, [c EXCEPT !.type = v])
    BY DEF Aside, Confs
  <2>2. Aside(c, type(c, a))
    BY <1>e, <2>1 DEF type
  <2> QED
    BY <1>2, <2>2 DEF Handle, Aside
<1>3. CASE k = "flags"
  <2>1. \A v : Aside(c, [c EXCEPT !.flag = v])
    BY DEF Aside, Confs
  <2>2. Aside(c, flags(c, a))
    BY <1>e, <2>1 DEF flags
  <2> QED
    BY <1>3, <2>2 DEF Handle, Aside
<1>4. CASE k = "protocol"
  BY <1>0, <1>4, ProtocolBoth DEF Handle, Both, Rest
<1>5. CASE k = "wait"
  <2>1. \A v : Aside(c, [c EXCEPT !.accept = v])
    BY DEF Aside, Confs
  <2>2. Aside(c, wait(c, a))
    BY <1>e, <2>1 DEF wait
  <2> QED
    BY <1>5, <2>2 DEF Handle, Aside
<1>6. CASE k = "server"
  <2>1. \A v : Aside(c, [c EXCEPT !.server = v])
    BY DEF Aside, Confs
  <2>2. Aside(c, [c EXCEPT !.server = "internal", !.accept = TRUE, !.bi = TRUE])
    BY DEF Aside, Confs
  <2>3. Aside(c, server(c, a))
    BY <1>e, <2>1, <2>2 DEF server
  <2> QED
    BY <1>6, <2>3 DEF Handle, Aside
<1>7. CASE k = "instances"
  <2>1. \A v : Aside(c, [c EXCEPT !.maxchild = v])
    BY DEF Aside, Confs
  <2>2. Aside(c, instances(c, a))
    BY <1>e, <2>1 DEF instances
  <2> QED
    BY <1>7, <2>2 DEF Handle, Aside
<1>8. CASE k = "port"
  <2>1. \A v : Aside(c, [c EXCEPT !.port = v])
    BY DEF Aside, Confs
  <2>2. Aside(c, port(c, a))
    BY <1>e, <2>1 DEF port
  <2> QED
    BY <1>8, <2>2 DEF Handle, Aside
<1>11. CASE k = "per_source"
  <2>1. \A v : Aside(c, [c EXCEPT !.maxperip = v])
    BY DEF Aside, Confs
  <2>2. Aside(c, per_source(c, a))
    BY <1>e, <2>1 DEF per_source
  <2> QED
    BY <1>11, <2>2 DEF Handle, Aside
<1>12. CASE k = "cpm"
  <2>1. \A v, w : Aside(c, [c EXCEPT !.cpmmax = v, !.cpmwait = w])
    BY DEF Aside, Confs
  <2>2. Aside(c, cpm(c, a))
    BY <1>e, <2>1 DEF cpm
  <2> QED
    BY <1>12, <2>2 DEF Handle, Aside
<1>13. CASE k = "enabled"
  <2>1. Aside(c, enabled(c, a))
    BY <1>e DEF enabled
  <2> QED
    BY <1>13, <2>1 DEF Handle, Aside
<1>14. CASE k = "disable"
  <2>1. Aside(c, disable(c, a))
    BY <1>e DEF disable
  <2> QED
    BY <1>14, <2>1 DEF Handle, Aside
<1> QED
  BY <1>1, <1>2, <1>3, <1>4, <1>5, <1>6, <1>7, <1>8, <1>11, <1>12, <1>13, <1>14

LEMMA ProtocolFamily ==
  ASSUME NEW c \in Confs, NEW a, protocol(c, a).st = "Success"
  PROVE  protocol(c, a).family # 0
<1>1. \A v : [c EXCEPT !.family = 6, !.nomapped = v].family # 0 /\ [c EXCEPT !.family = 4].family # 0
  BY DEF Confs
<1>2. Failure(c).st # "Success" /\ Ends(c, "Disabled").st # "Success"
  BY DEF Failure, Ends, Confs
<1>3. protocol(c, a) \in {Failure(c), Ends(c, "Disabled"), [c EXCEPT !.family = 4]}
      \/ \E v : protocol(c, a) = [c EXCEPT !.family = 6, !.nomapped = v]
  BY Zenon DEF protocol
<1> QED
  BY <1>1, <1>2, <1>3

\* One key that is not about addresses.
LEMMA ElementsAside ==
  ASSUME NEW k \in KeySet \ Modifier, NEW c \in Confs, NEW given, IsGiven(k, given)
  PROVE  LET d == Elements(k, c, given) IN
         /\ d.addresses = c.addresses
         /\ k # "protocol" => d.family = c.family
         /\ k = "protocol" /\ d.st = "Success" /\ Len(given) > 0 => d.family # 0
         /\ d.st = "Success" => c.st = "Success"
<1>1. PICK w : ElementsBy(w, k, c, given) /\ Elements(k, c, given) = w[Len(given)]
  BY ElementsRun
<1> DEFINE l == Len(given)
           Good(n) == /\ w[n].addresses = c.addresses
                      /\ k # "protocol" => w[n].family = c.family
                      /\ k = "protocol" /\ w[n].st = "Success" /\ n > 0 => w[n].family # 0
                      /\ w[n].st = "Success" => c.st = "Success"
           T == {n \in 0 .. l : Good(n)}
<1>2. l \in Nat
  BY DEF IsGiven
<1>3. 0 \in T
  BY <1>1, <1>2 DEF ElementsBy
<1>4. ASSUME NEW n \in 1 .. l, n - 1 \in T PROVE n \in T
  <2> DEFINE x == w[n - 1]
             a == given[n]
  <2>1. x \in Confs /\ Good(n - 1)
    BY <1>1, <1>2, <1>4 DEF ElementsBy
  <2>2. w[n] = IF x.st = "Success" THEN Attribute(k, n, x, a) ELSE x
    BY <1>1 DEF ElementsBy
  <2>3. CASE x.st # "Success"
    <3>1. w[n] = w[n - 1]
      BY <2>2, <2>3
    <3> QED
      BY <2>1, <2>3, <3>1
  <2>4. CASE x.st = "Success"
    <3>1. w[n] = Ends(x, "Expected") \/ w[n] = Failure(x) \/ w[n] = Handle(k, x, a)
      BY <2>2, <2>4 DEF Attribute
    <3>2. CASE w[n] \in {Ends(x, "Expected"), Failure(x)}
      <4>1. w[n].addresses = x.addresses /\ w[n].family = x.family /\ w[n].st # "Success"
        BY <2>1, <3>2 DEF Ends, Failure, Confs
      <4> QED
        BY <2>1, <4>1
    <3>3. CASE w[n] = Handle(k, x, a)
      <4>1. w[n].addresses = x.addresses /\ (k # "protocol" => w[n].family = x.family)
        BY <2>1, <3>3, HandleAside
      <4>2. k = "protocol" /\ w[n].st = "Success" => w[n].family # 0
        BY <2>1, <3>3, ProtocolFamily DEF Handle
      <4> QED
        BY <2>1, <2>4, <4>1, <4>2
    <3> QED
      BY <3>1, <3>2, <3>3
  <2> QED
    BY <2>3, <2>4
<1>5. \A n \in 0 .. l : n \in T
  <2> HIDE DEF T
  <2> QED
    BY <1>2, <1>3, <1>4, UpTo
<1>6. Good(l)
  BY <1>2, <1>5
<1> QED
  BY <1>1, <1>2, <1>6

\* One value of a list, as address x sees it.
Other(sign) == IF sign = "+" THEN "-" ELSE "+"
Once(c, x)  == Count(c, "+", x) + Count(c, "-", x) <= 1
Turned(c, d, sign) == d.addresses[Other(sign)] = c.addresses[Other(sign)] /\ d.family = c.family

LEMMA CountIs ==
  ASSUME NEW c \in Confs, NEW sign \in Signs, NEW x \in Addrs
  PROVE  /\ Count(c, sign, x) \in Nat /\ Count(c, Other(sign), x) \in Nat
         /\ Once(c, x) <=> Count(c, sign, x) + Count(c, Other(sign), x) <= 1
         /\ Other(sign) \in Signs /\ Other(sign) # sign
<1>1. sign \in {"+", "-"}
  BY DEF Signs
<1>2. \A t \in Signs : c.addresses[t][x] \in Nat
  BY DEF Confs
<1>3. Other(sign) \in Signs /\ Other(sign) # sign
  BY <1>1 DEF Other, Signs
<1>4. Count(c, "+", x) \in Nat /\ Count(c, "-", x) \in Nat
  BY <1>2 DEF Count, Signs
<1>5. CASE sign = "+"
  BY <1>3, <1>4, <1>5 DEF Once, Other
<1>6. CASE sign = "-"
  BY <1>3, <1>4, <1>6 DEF Once, Other
<1> QED
  BY <1>1, <1>5, <1>6

\* What becomes of the addresses with v.
Sees(c, d, op, v, sign) ==
  /\ Turned(c, d, sign)
  /\ \A x \in Addrs :
       /\ Once(c, x) => Once(d, x)
       /\ Count(d, sign, x) > 0 <=>
            IF op = "-" THEN Count(c, sign, x) > 0 /\ x # v ELSE Count(c, sign, x) > 0 \/ x = v

LEMMA ListingSees ==
  ASSUME Sound, NEW c \in Confs, NEW op, NEW v \in Addrs \cup {"ALL", "bad"}, NEW sign \in Signs,
         Listing(c, op, v, sign).st = "Success"
  PROVE  Sees(c, Listing(c, op, v, sign), op, v, sign)
<1> USE DEF Sees
<1> DEFINE d == Listing(c, op, v, sign)
<1>0. d \in Confs
  BY ListingType
<1>1. Failure(c).st # "Success"
  BY DEF Failure, Ends, Confs
<1>2. \A x \in Addrs : x # "ALL" /\ x # "bad"
  BY DEF Sound
<1>3. Other(sign) # sign /\ Other(sign) \in Signs
  BY DEF Other, Signs
<1>4. CASE v = "ALL"
  <2>1. \A z : MatchDefault(c, z).addresses = c.addresses /\ MatchDefault(c, z).family = c.family
    BY DEF MatchDefault, Failure, Ends, Confs
  <2>2. d.addresses = c.addresses /\ d.family = c.family
    BY <1>4, <2>1 DEF Listing
  <2>3. \A x \in Addrs : x # v
    BY <1>2, <1>4
  <2> HIDE DEF d
  <2> QED
    BY <2>2, <2>3 DEF Turned, Once, Count, d
<1>5. CASE v = "bad"
  BY <1>1, <1>5 DEF Listing
<1>6. CASE v \notin {"ALL", "bad"} /\ op = "-"
  <2>1. d = [c EXCEPT !.addresses[sign][v] = 0]
    BY <1>6 DEF Listing, Erase
  <2>2. d.addresses = [c.addresses EXCEPT ![sign][v] = 0] /\ d.family = c.family
    BY <2>1 DEF Confs
  <2>3. c.addresses \in [Signs -> [Addrs -> Nat]] /\ v \in Addrs
    BY <1>6 DEF Confs
  <2>4. d.addresses[Other(sign)] = c.addresses[Other(sign)]
    BY <1>3, <2>2, <2>3
  <2>5. ASSUME NEW x \in Addrs
        PROVE  Count(d, sign, x) = IF x = v THEN 0 ELSE Count(c, sign, x)
    BY <2>2, <2>3 DEF Count
  <2>6. ASSUME NEW x \in Addrs, Once(c, x) PROVE Once(d, x)
    <3>1. Count(d, Other(sign), x) = Count(c, Other(sign), x)
      BY <2>4 DEF Count
    <3> HIDE DEF d
    <3> QED
      BY <1>0, <2>5, <2>6, <3>1, CountIs
  <2>7. \A x \in Addrs : Count(c, sign, x) \in Nat
    BY CountIs
  <2> QED
    BY <1>6, <2>2, <2>4, <2>5, <2>6, <2>7 DEF Turned
<1>7. CASE v \notin {"ALL", "bad"} /\ op # "-"
  <2>1. d = Push(c, v, sign)
    BY <1>7 DEF Listing
  <2>2. (\A t \in Signs : ~(c.addresses[t][v] > 0)) /\ d = [c EXCEPT !.addresses[sign][v] = @ + 1]
    BY <1>1, <2>1 DEF Push
  <2>3. c.addresses \in [Signs -> [Addrs -> Nat]] /\ v \in Addrs
    BY <1>7 DEF Confs
  <2>4. d.addresses = [c.addresses EXCEPT ![sign][v] = @ + 1] /\ d.family = c.family
    BY <2>2 DEF Confs
  <2>5. d.addresses[Other(sign)] = c.addresses[Other(sign)]
    BY <1>3, <2>3, <2>4
  <2>6. Count(c, sign, v) = 0 /\ Count(c, Other(sign), v) = 0
    BY <1>3, <2>2, <2>3 DEF Count
  <2>7. ASSUME NEW x \in Addrs
        PROVE  Count(d, sign, x) = IF x = v THEN 1 ELSE Count(c, sign, x)
    BY <2>3, <2>4, <2>6 DEF Count
  <2>8. ASSUME NEW x \in Addrs, Once(c, x) PROVE Once(d, x)
    <3>1. Count(d, Other(sign), x) = Count(c, Other(sign), x)
      BY <2>5 DEF Count
    <3> HIDE DEF d
    <3> QED
      BY <1>0, <2>6, <2>7, <2>8, <3>1, CountIs
  <2> QED
    BY <1>7, <2>4, <2>5, <2>7, <2>8 DEF Turned
<1> QED
  BY <1>4, <1>5, <1>6, <1>7

LEMMA ClearSees ==
  ASSUME NEW c \in Confs, NEW sign \in Signs
  PROVE  /\ Turned(c, ClearSign(c, sign), sign) /\ ClearSign(c, sign).st = c.st
         /\ \A x \in Addrs : /\ Once(c, x) => Once(ClearSign(c, sign), x)
                             /\ Count(ClearSign(c, sign), sign, x) = 0
<1> DEFINE d == ClearSign(c, sign)
<1>0. d \in Confs
  BY ClearType
<1>1. d.addresses = [c.addresses EXCEPT ![sign] = Nowhere] /\ d.family = c.family /\ d.st = c.st
  BY DEF ClearSign, Confs
<1>2. c.addresses \in [Signs -> [Addrs -> Nat]] /\ Other(sign) # sign /\ Other(sign) \in Signs
  BY DEF Confs, Other, Signs
<1>3. d.addresses[Other(sign)] = c.addresses[Other(sign)]
  BY <1>1, <1>2
<1>4. \A x \in Addrs : Count(d, sign, x) = 0
  BY <1>1, <1>2 DEF Count, Nowhere
<1>5. ASSUME NEW x \in Addrs, Once(c, x) PROVE Once(d, x)
  <2>1. Count(d, Other(sign), x) = Count(c, Other(sign), x)
    BY <1>3 DEF Count
  <2> HIDE DEF d
  <2> QED
    BY <1>0, <1>4, <1>5, <2>1, CountIs
<1> QED
  BY <1>1, <1>3, <1>4, <1>5 DEF Turned

\* A whole attribute.
Says(a, x) == \E j \in DOMAIN a.values : a.values[j] = x
LEMMA ListedSees ==
  ASSUME Sound, NEW k \in Modifier, NEW c \in Confs, NEW a, IsAttr(k, a), NEW sign \in Signs,
         a # Nothing, c.family # 0, Listed(c, a, sign).st = "Success"
  PROVE  /\ Turned(c, Listed(c, a, sign), sign)
         /\ \A x \in Addrs :
              /\ Once(c, x) => Once(Listed(c, a, sign), x)
              /\ Count(Listed(c, a, sign), sign, x) > 0 <=>
                   IF a.op = "-" THEN Count(c, sign, x) > 0 /\ ~Says(a, x)
                   ELSE (a.op # "=" /\ Count(c, sign, x) > 0) \/ Says(a, x)
<1>1. PICK w : ListedBy(w, c, a, sign) /\ Listed(c, a, sign) = w[Len(a.values)]
  BY ListedRun
<1> DEFINE l == Len(a.values)
           Upon(n, x) == \E j \in 1 .. n : a.values[j] = x
           Seen(n) == /\ Turned(c, w[n], sign)
                      /\ \A x \in Addrs :
                           /\ Once(c, x) => Once(w[n], x)
                           /\ Count(w[n], sign, x) > 0 <=>
                                IF a.op = "-" THEN Count(c, sign, x) > 0 /\ ~Upon(n, x)
                                ELSE (a.op # "=" /\ Count(c, sign, x) > 0) \/ Upon(n, x)
           T == {n \in 0 .. l : w[n].st = "Success" => Seen(n)}
<1>2. l \in Nat /\ DOMAIN a.values = 1 .. l /\ \A n \in 1 .. l : a.values[n] \in Addrs \cup {"ALL", "bad"}
  BY DEF IsAttr, Word
<1>3. \A n \in 0 .. l : w[n] \in Confs
  BY <1>1 DEF ListedBy
<1>4. 0 \in T
  <2>0. 0 \in 0 .. l /\ \A x : ~Upon(0, x)
    BY <1>2
  <2> HIDE DEF Upon
  <2>1. CASE a.op = "="
    <3>1. w[0] = ClearSign(c, sign)
      BY <1>1, <2>1 DEF ListedBy
    <3>2. \A x \in Addrs : ~(Count(w[0], sign, x) > 0)
      BY <3>1, ClearSees
    <3>3. Turned(c, w[0], sign) /\ \A x \in Addrs : Once(c, x) => Once(w[0], x)
      BY <3>1, ClearSees
    <3> QED
      BY <2>0, <2>1, <3>2, <3>3
  <2>2. CASE a.op # "="
    <3>1. w[0] = c
      BY <1>1, <2>2 DEF ListedBy
    <3> QED
      BY <2>0, <2>2, <3>1 DEF Turned
  <2> QED
    BY <2>1, <2>2
<1>5. ASSUME NEW n \in 1 .. l, n - 1 \in T PROVE n \in T
  <2> DEFINE x == w[n - 1]
             v == a.values[n]
  <2> SUFFICES ASSUME w[n].st = "Success" PROVE Seen(n)
    OBVIOUS
  <2>1. x \in Confs /\ v \in Addrs \cup {"ALL", "bad"} /\ n - 1 \in 0 .. l
    BY <1>2, <1>3
  <2>2. w[n] = IF x.st = "Success" THEN Listing(x, a.op, v, sign) ELSE x
    BY <1>1 DEF ListedBy
  <2>3. x.st = "Success" /\ w[n] = Listing(x, a.op, v, sign)
    BY <2>2
  <2>4. Seen(n - 1)
    BY <1>5, <2>3
  <2>5. \A y : Upon(n, y) <=> Upon(n - 1, y) \/ y = v
    <3>1. 1 .. n = (1 .. n - 1) \cup {n}
      BY <1>2
    <3> QED
      BY <3>1
  <2> HIDE DEF Upon, x, v
  <2>6. /\ Turned(x, w[n], sign)
        /\ \A y \in Addrs :
             /\ Once(x, y) => Once(w[n], y)
             /\ Count(w[n], sign, y) > 0 <=>
                  IF a.op = "-" THEN Count(x, sign, y) > 0 /\ y # v ELSE Count(x, sign, y) > 0 \/ y = v
    <3>1. Sees(x, w[n], a.op, v, sign)
      BY <2>1, <2>3, ListingSees
    <3> QED
      BY <3>1 DEF Sees
  <2>7. Turned(c, w[n], sign)
    BY <2>4, <2>6 DEF Turned, x
  <2>8. ASSUME NEW y \in Addrs
        PROVE  /\ Once(c, y) => Once(w[n], y)
               /\ Count(w[n], sign, y) > 0 <=>
                    IF a.op = "-" THEN Count(c, sign, y) > 0 /\ ~Upon(n, y)
                    ELSE (a.op # "=" /\ Count(c, sign, y) > 0) \/ Upon(n, y)
    <3>1. /\ Once(c, y) => Once(x, y)
          /\ Count(x, sign, y) > 0 <=>
               IF a.op = "-" THEN Count(c, sign, y) > 0 /\ ~Upon(n - 1, y)
               ELSE (a.op # "=" /\ Count(c, sign, y) > 0) \/ Upon(n - 1, y)
      BY <2>4 DEF x
    <3> QED
      BY <2>5, <2>6, <3>1
  <2> QED
    BY <2>7, <2>8
<1>6. \A n \in 0 .. l : n \in T
  <2> HIDE DEF T
  <2> QED
    BY <1>2, <1>4, <1>5, UpTo
<1>7. Seen(l)
  BY <1>1, <1>2, <1>6
<1>8. \A x : Upon(l, x) <=> Says(a, x)
  BY <1>2 DEF Says
<1> HIDE DEF Upon
<1> QED
  BY <1>1, <1>7, <1>8

\* All attributes of a key: Lists() of them, of the first n of them.
Off(a, x) == a.op = "=" \/ (a.op = "-" /\ Says(a, x))
ListsIn(given, n, x) ==
  \E i \in 1 .. n : /\ Says(given[i], x) /\ given[i].op # "-"
                   /\ \A j \in 1 .. n : j > i => ~Off(given[j], x)

LEMMA ListsStep ==
  ASSUME NEW given, NEW n \in Nat \ {0}, NEW x
  PROVE  ListsIn(given, n, x) <=>
           IF given[n].op = "-" THEN ListsIn(given, n - 1, x) /\ ~Says(given[n], x)
           ELSE (given[n].op # "=" /\ ListsIn(given, n - 1, x)) \/ Says(given[n], x)
<1> DEFINE Here(i, m) == /\ Says(given[i], x) /\ given[i].op # "-"
                         /\ \A j \in 1 .. m : j > i => ~Off(given[j], x)
<1>1. ListsIn(given, n, x) <=> \E i \in 1 .. n : Here(i, n)
  BY DEF ListsIn
<1>2. ListsIn(given, n - 1, x) <=> \E i \in 1 .. n - 1 : Here(i, n - 1)
  BY DEF ListsIn
<1>3. 1 .. n = (1 .. n - 1) \cup {n} /\ n \in 1 .. n
  OBVIOUS
<1>4. \A i \in 1 .. n - 1 : Here(i, n) <=> Here(i, n - 1) /\ ~Off(given[n], x)
  <2> SUFFICES ASSUME NEW i \in 1 .. n - 1 PROVE Here(i, n) <=> Here(i, n - 1) /\ ~Off(given[n], x)
    OBVIOUS
  <2>1. n > i
    OBVIOUS
  <2> QED
    BY <1>3, <2>1
<1>5. Here(n, n) <=> Says(given[n], x) /\ given[n].op # "-"
  OBVIOUS
<1> HIDE DEF Here
<1>6. ListsIn(given, n, x) <=> (ListsIn(given, n - 1, x) /\ ~Off(given[n], x))
                               \/ (Says(given[n], x) /\ given[n].op # "-")
  BY <1>1, <1>2, <1>3, <1>4, <1>5
<1> QED
  BY <1>6, Zenon DEF Off

LEMMA ElementsSees ==
  ASSUME Sound, NEW k \in Modifier, NEW c \in Confs, NEW given, Read(k, given), c.family # 0,
         \A x \in Addrs : Count(c, Sign(k), x) = 0, Elements(k, c, given).st = "Success"
  PROVE  /\ Turned(c, Elements(k, c, given), Sign(k))
         /\ \A x \in Addrs : /\ Once(c, x) => Once(Elements(k, c, given), x)
                             /\ Count(Elements(k, c, given), Sign(k), x) > 0 <=> ListsIn(given, Len(given), x)
<1>0. k \in KeySet /\ IsGiven(k, given)
  BY DEF KeySet, Keys, Modifier, Read
<1>1. PICK w : ElementsBy(w, k, c, given) /\ Elements(k, c, given) = w[Len(given)]
  BY <1>0, ElementsRun
<1> DEFINE l == Len(given)
           sign == Sign(k)
           Seen(n) == /\ Turned(c, w[n], sign)
                      /\ \A x \in Addrs : /\ Once(c, x) => Once(w[n], x)
                                          /\ Count(w[n], sign, x) > 0 <=> ListsIn(given, n, x)
           T == {n \in 0 .. l : w[n].st = "Success" => Seen(n)}
<1>2. l \in Nat /\ DOMAIN given = 1 .. l /\ \A n \in 1 .. l : IsAttr(k, given[n]) /\ given[n] # Nothing
  BY <1>0 DEF IsGiven, Read
<1>3. \A n \in 0 .. l : w[n] \in Confs
  BY <1>1 DEF ElementsBy
<1>4. sign \in Signs
  BY DEF Sign, Signs
<1>5. \A x \in Confs : \A a : Handle(k, x, a) = Listed(x, a, sign)
  <2>1. CASE k = "only_from"
    BY <2>1 DEF Handle, Sign
  <2>2. CASE k = "no_access"
    BY <2>2 DEF Handle, Sign
  <2> QED
    BY <2>1, <2>2 DEF Modifier
<1>6. \A x, n, a : a # Nothing => Attribute(k, n, x, a) = Handle(k, x, a)
  BY DEF Attribute, Modifier, Multiple
<1>7. 0 \in T
  <2>1. w[0] = c
    BY <1>1 DEF ElementsBy
  <2>2. \A x : ~ListsIn(given, 0, x)
    BY DEF ListsIn
  <2> QED
    BY <1>2, <2>1, <2>2 DEF Turned
<1> HIDE DEF sign
<1>8. ASSUME NEW n \in 1 .. l, n - 1 \in T PROVE n \in T
  <2> DEFINE x == w[n - 1]
             a == given[n]
  <2> SUFFICES ASSUME w[n].st = "Success" PROVE Seen(n)
    OBVIOUS
  <2>1. x \in Confs /\ IsAttr(k, a) /\ a # Nothing
    BY <1>2, <1>3
  <2>2. w[n] = IF x.st = "Success" THEN Attribute(k, n, x, a) ELSE x
    BY <1>1 DEF ElementsBy
  <2>3. x.st = "Success" /\ w[n] = Listed(x, a, sign)
    BY <1>5, <1>6, <2>1, <2>2
  <2>4. Seen(n - 1)
    BY <1>8, <2>3
  <2>5. x.family # 0
    BY <2>4 DEF Turned
  <2> HIDE DEF x, a
  <2>6. /\ Turned(x, w[n], sign)
        /\ \A y \in Addrs :
             /\ Once(x, y) => Once(w[n], y)
             /\ Count(w[n], sign, y) > 0 <=>
                  IF a.op = "-" THEN Count(x, sign, y) > 0 /\ ~Says(a, y)
                  ELSE (a.op # "=" /\ Count(x, sign, y) > 0) \/ Says(a, y)
    BY <1>4, <2>1, <2>3, <2>5, ListedSees
  <2>7. Turned(c, w[n], sign)
    BY <2>4, <2>6 DEF Turned, x
  <2>8. ASSUME NEW y \in Addrs
        PROVE  (Once(c, y) => Once(w[n], y)) /\ (Count(w[n], sign, y) > 0 <=> ListsIn(given, n, y))
    <3>1. (Once(c, y) => Once(x, y)) /\ (Count(x, sign, y) > 0 <=> ListsIn(given, n - 1, y))
      BY <2>4 DEF x
    <3>2. ListsIn(given, n, y) <=>
           IF a.op = "-" THEN ListsIn(given, n - 1, y) /\ ~Says(a, y)
           ELSE (a.op # "=" /\ ListsIn(given, n - 1, y)) \/ Says(a, y)
      BY ListsStep DEF a
    <3> QED
      BY <2>6, <3>1, <3>2
  <2> QED
    BY <2>7, <2>8
<1>9. \A n \in 0 .. l : n \in T
  <2> HIDE DEF T
  <2> QED
    BY <1>2, <1>7, <1>8, UpTo
<1>10. Seen(l)
  BY <1>1, <1>2, <1>9
<1> QED
  BY <1>1, <1>10 DEF sign

\* Without the key nothing changes.
LEMMA ElementsNone ==
  ASSUME NEW k \in Modifier, NEW c \in Confs
  PROVE  Elements(k, c, <<Nothing>>) = c
<1>0. k \in KeySet /\ IsGiven(k, <<Nothing>>)
  BY DEF KeySet, Keys, Modifier, IsGiven
<1>1. PICK w : ElementsBy(w, k, c, <<Nothing>>) /\ Elements(k, c, <<Nothing>>) = w[Len(<<Nothing>>)]
  BY <1>0, ElementsRun
<1>2. Len(<<Nothing>>) = 1 /\ 1 \in 1 .. 1 /\ 1 - 1 = 0 /\ <<Nothing>>[1] = Nothing
  OBVIOUS
<1>3. w[0] = c /\ w[1] = IF w[0].st = "Success" THEN Attribute(k, 1, w[0], Nothing) ELSE w[0]
  BY <1>1, <1>2 DEF ElementsBy
<1>4. Attribute(k, 1, c, Nothing) = Handle(k, c, Nothing)
  BY DEF Attribute, Modifier, Required
<1>5. Handle(k, c, Nothing) = c
  BY DEF Handle, Listed, Modifier
<1> QED
  BY <1>1, <1>2, <1>3, <1>4, <1>5

LEMMA ElementsStick ==
  ASSUME NEW k \in KeySet, NEW c \in Confs, NEW given, IsGiven(k, given), c.st # "Success"
  PROVE  Elements(k, c, given).st # "Success"
<1>1. PICK w : ElementsBy(w, k, c, given) /\ Elements(k, c, given) = w[Len(given)]
  BY ElementsRun
<1> DEFINE l == Len(given)
           T == {n \in 0 .. l : w[n].st # "Success"}
<1>2. l \in Nat
  BY DEF IsGiven
<1>3. 0 \in T /\ \A n \in 1 .. l : n - 1 \in T => n \in T
  BY <1>1, <1>2 DEF ElementsBy
<1>4. \A n \in 0 .. l : n \in T
  <2> HIDE DEF T
  <2> QED
    BY <1>2, <1>3, UpTo
<1> QED
  BY <1>1, <1>2, <1>4

\* The addresses when n keys have been looked at.
In(given, x) == given # <<Nothing>> /\ ListsIn(given, Len(given), x)
Placed(c, n, given) ==
  c.st = "Success" =>
    /\ n >= 3 => c.family # 0
    /\ \A x \in Addrs :
         /\ Once(c, x)
         /\ IF n >= 8 THEN Count(c, "+", x) > 0 <=> In(given["only_from"], x) ELSE Count(c, "+", x) = 0
         /\ IF n >= 9 THEN Count(c, "-", x) > 0 <=> In(given["no_access"], x) ELSE Count(c, "-", x) = 0

FullyGiven(given) ==
  AllGiven(given) /\ \A k \in KeySet : given[k] = <<Nothing>> \/ Read(k, given[k])

LEMMA ListsGoOn ==
  ASSUME Sound, NEW given, FullyGiven(given), NEW n \in 1 .. 13, NEW c \in Confs, Placed(c, n - 1, given)
  PROVE  Placed(Elements(Keys[n], c, given[Keys[n]]), n, given)
<1> DEFINE k == Keys[n]
           d == Elements(k, c, given[k])
<1>1. k \in KeySet /\ IsGiven(k, given[k]) /\ (given[k] = <<Nothing>> \/ Read(k, given[k]))
  <2>1. k \in KeySet
    BY DEF KeySet, Keys
  <2> HIDE DEF k
  <2> QED
    BY <2>1 DEF FullyGiven, AllGiven
<1>2. (n = 3 <=> k = "protocol") /\ (n = 8 <=> k = "only_from") /\ (n = 9 <=> k = "no_access")
  BY DEF Keys
<1> SUFFICES ASSUME d.st = "Success" PROVE Placed(d, n, given)
  BY DEF Placed
<1>3. c.st = "Success"
  <2> HIDE DEF k
  <2> QED
    BY <1>1, ElementsStick
<1>4. d \in Confs
  <2> HIDE DEF k
  <2> QED
    BY <1>1, ElementsType
<1>5. CASE n \notin {8, 9}
  <2>1. k \in KeySet \ Modifier
    BY <1>1, <1>2, <1>5 DEF Modifier
  <2>2. Len(given[k]) > 0
    <3>1. Len(<<Nothing>>) > 0
      OBVIOUS
    <3>2. Read(k, given[k]) => Len(given[k]) > 0
      BY DEF Read, IsGiven
    <3> HIDE DEF k
    <3> QED
      BY <1>1, <3>1, <3>2
  <2>3. /\ d.addresses = c.addresses
        /\ k # "protocol" => d.family = c.family
        /\ k = "protocol" => d.family # 0
    <3> HIDE DEF k
    <3> QED
      BY <1>1, <2>1, <2>2, ElementsAside
  <2>4. n >= 3 => d.family # 0
    BY <1>2, <1>3, <2>3 DEF Placed
  <2>5. (n >= 8 <=> n - 1 >= 8) /\ (n >= 9 <=> n - 1 >= 9)
    BY <1>5
  <2>6. \A x : Count(d, "+", x) = Count(c, "+", x) /\ Count(d, "-", x) = Count(c, "-", x) /\ (Once(c, x) => Once(d, x))
    BY <2>3 DEF Count, Once
  <2> HIDE DEF d
  <2> QED
    BY <1>3, <2>4, <2>5, <2>6 DEF Placed
<1>6. CASE n = 8
  <2>0. k = "only_from" /\ k \in Modifier /\ Sign(k) = "+" /\ Other("+") = "-"
    BY <1>2, <1>6 DEF Modifier, Sign, Other
  <2>1. c.family # 0 /\ \A x \in Addrs : Once(c, x) /\ Count(c, "+", x) = 0 /\ Count(c, "-", x) = 0
    BY <1>3, <1>6 DEF Placed
  <2>2. CASE given[k] = <<Nothing>>
    <3>1. d = c
      <4> HIDE DEF k
      <4> QED
        BY <2>0, <2>2, ElementsNone
    <3>2. \A x : ~In(given["only_from"], x)
      BY <2>0, <2>2 DEF In
    <3> HIDE DEF d
    <3> QED
      BY <1>6, <2>1, <3>1, <3>2 DEF Placed
  <2>3. CASE given[k] # <<Nothing>>
    <3>1. Read(k, given[k])
      BY <1>1, <2>3
    <3>2. /\ Turned(c, d, "+")
          /\ \A x \in Addrs : /\ Once(c, x) => Once(d, x)
                              /\ Count(d, "+", x) > 0 <=> ListsIn(given[k], Len(given[k]), x)
      <4> HIDE DEF k
      <4> QED
        BY <2>0, <2>1, <3>1, ElementsSees
    <3>3. d.family # 0 /\ \A x \in Addrs : Count(d, "-", x) = 0
      BY <2>0, <2>1, <3>2 DEF Turned, Count
    <3>4. \A x : In(given["only_from"], x) <=> ListsIn(given[k], Len(given[k]), x)
      BY <2>0, <2>3 DEF In
    <3> HIDE DEF d, k
    <3> QED
      BY <1>6, <2>1, <3>2, <3>3, <3>4 DEF Placed
  <2> QED
    BY <2>2, <2>3
<1>7. CASE n = 9
  <2>0. k = "no_access" /\ k \in Modifier /\ Sign(k) = "-" /\ Other("-") = "+"
    BY <1>2, <1>7 DEF Modifier, Sign, Other
  <2>1. c.family # 0 /\ \A x \in Addrs : /\ Once(c, x) /\ Count(c, "-", x) = 0
                                         /\ Count(c, "+", x) > 0 <=> In(given["only_from"], x)
    BY <1>3, <1>7 DEF Placed
  <2>2. CASE given[k] = <<Nothing>>
    <3>1. d = c
      <4> HIDE DEF k
      <4> QED
        BY <2>0, <2>2, ElementsNone
    <3>2. \A x : ~In(given["no_access"], x)
      BY <2>0, <2>2 DEF In
    <3> HIDE DEF d
    <3> QED
      BY <1>7, <2>1, <3>1, <3>2 DEF Placed
  <2>3. CASE given[k] # <<Nothing>>
    <3>1. Read(k, given[k])
      BY <1>1, <2>3
    <3>2. /\ Turned(c, d, "-")
          /\ \A x \in Addrs : /\ Once(c, x) => Once(d, x)
                              /\ Count(d, "-", x) > 0 <=> ListsIn(given[k], Len(given[k]), x)
      <4> HIDE DEF k
      <4> QED
        BY <2>0, <2>1, <3>1, ElementsSees
    <3>3. d.family # 0 /\ \A x \in Addrs : Count(d, "+", x) = Count(c, "+", x)
      BY <2>0, <2>1, <3>2 DEF Turned, Count
    <3>4. \A x : In(given["no_access"], x) <=> ListsIn(given[k], Len(given[k]), x)
      BY <2>0, <2>3 DEF In
    <3> HIDE DEF d, k
    <3> QED
      BY <1>7, <2>1, <3>2, <3>3, <3>4 DEF Placed
  <2> QED
    BY <2>2, <2>3
<1> QED
  BY <1>5, <1>6, <1>7

LEMMA ThroughLists ==
  ASSUME Sound, NEW given, FullyGiven(given), NEW c \in Confs, Placed(c, 0, given)
  PROVE  Placed(Through(c, given), 13, given)
<1>1. Len(Keys) = 13 /\ AllGiven(given)
  BY DEF Keys, FullyGiven
<1>2. PICK w : ThroughBy(w, c, given) /\ Through(c, given) = w[13]
  BY <1>1, ThroughRun
<1> DEFINE T == {n \in 0 .. 13 : Placed(w[n], n, given)}
<1>3. 0 \in T
  BY <1>2 DEF ThroughBy
<1>4. ASSUME NEW n \in 1 .. 13, n - 1 \in T PROVE n \in T
  <2> DEFINE x == w[n - 1]
  <2>1. x \in Confs /\ Placed(x, n - 1, given)
    BY <1>1, <1>2, <1>4 DEF ThroughBy
  <2>2. w[n] = Elements(Keys[n], x, given[Keys[n]])
    BY <1>1, <1>2 DEF ThroughBy
  <2> HIDE DEF x
  <2>3. Placed(w[n], n, given)
    BY <2>1, <2>2, ListsGoOn
  <2> QED
    BY <2>3
<1>5. \A n \in 0 .. 13 : n \in T
  <2> HIDE DEF T
  <2> QED
    BY <1>3, <1>4, UpTo
<1> QED
  BY <1>2, <1>5

-----------------------------------------------------------------------------
(* The invariant.                                                          *)

\* The entry is what process_section() has made of some entry, of which match_default_ is known.
IInv ==
  /\ meant \in BOOLEAN /\ defaults \in DefaultSets /\ prior \in {-1, 0, 1} /\ conf \in Confs
  /\ section # Nothing =>
       /\ section \in Sections
       /\ \E before \in Confs : before.all = prior /\ conf = process_section(before, section)

LEMMA InitIInv == ASSUME Sound, Init PROVE IInv
<1>1. process_defaults \in Confs
  BY DefaultsType DEF Init
<1> QED
  BY <1>1 DEF Init, IInv, Sound

LEMMA NextIInv == ASSUME Sound, IInv, [Next]_vars PROVE IInv'
<1>1. CASE next
  <2>1. section' \in Sections /\ conf' = process_section(conf, section') /\ prior' = conf.all
        /\ meant' = meant /\ defaults' = defaults
    BY <1>1 DEF next
  <2>2. conf \in Confs /\ conf.all \in {-1, 0, 1}
    BY DEF IInv, Confs
  <2>3. conf' \in Confs
    BY <2>1, <2>2, SectionType DEF IInv
  <2>4. \E before \in Confs : before.all = prior' /\ conf' = process_section(before, section)'
    <3>1. \A b \in Confs : process_section(b, section)' = process_section(b, section')
      BY <2>1 DEF process_section, Reset, Given
    <3> QED
      BY <2>1, <2>2, <3>1
  <2> QED
    BY <2>1, <2>2, <2>3, <2>4 DEF IInv
<1>2. CASE UNCHANGED vars
  BY <1>2 DEF vars, IInv, process_section, Reset, Given
<1> QED
  BY <1>1, <1>2 DEF Next

LEMMA InvTyped == ASSUME Sound, IInv PROVE TypeOK
BY DEF IInv, TypeOK, Confs, Statuses

LEMMA InvAlone == ASSUME Sound, IInv PROVE EntryAlone
<1> SUFFICES ASSUME section # Nothing PROVE EntryAlone
  BY DEF EntryAlone
<1>1. PICK before \in Confs : before.all = prior /\ conf = process_section(before, section)
  BY DEF IInv
<1>2. AloneBody(before, section)
  BY AloneIs DEF IInv
<1> QED
  BY <1>1, <1>2 DEF AloneBody, EntryAlone

\* The properties read the list as the lemmas do.
LEMMA ListsAre ==
  ASSUME Sound, IInv, section # Nothing, NEW k \in Modifier, NEW x \in Addrs
  PROVE  Lists(k, x) <=> In(GivenTo(section)[k], x)
<1> DEFINE given == Given(k, section)
           says(i) == given[i] # Nothing /\ \E j \in DOMAIN given[i].values : given[i].values[j] = x
           off(j) == given[j].op = "=" \/ (given[j].op = "-" /\ says(j))
           Any == \E i \in DOMAIN given : /\ says(i) /\ given[i].op # "-"
                                         /\ \A j \in DOMAIN given : j > i => ~off(j)
<1>1. GivenTo(section)[k] = given
  BY DEF GivenTo, KeySet, Keys, Modifier
<1>2. given = <<Nothing>> \/ Read(k, given)
  <2>1. k \in KeySet
    BY DEF KeySet, Keys, Modifier
  <2> HIDE DEF given
  <2> QED
    BY <1>1, <2>1, GivenIs DEF IInv
<1>3. Lists(k, x) <=> Any
  BY DEF Lists
<1> HIDE DEF given
<1>4. CASE given = <<Nothing>>
  <2>1. \A i \in DOMAIN given : ~says(i)
    BY <1>4
  <2>2. ~In(given, x)
    BY <1>4 DEF In
  <2> QED
    BY <1>1, <1>3, <2>1, <2>2
<1>5. CASE given # <<Nothing>>
  <2>1. Read(k, given)
    BY <1>2, <1>5
  <2>2. DOMAIN given = 1 .. Len(given) /\ \A i \in DOMAIN given : given[i] # Nothing
    BY <2>1 DEF Read, IsGiven
  <2>3. \A i \in DOMAIN given : says(i) <=> Says(given[i], x)
    BY <2>2 DEF Says
  <2> HIDE DEF says
  <2>4. \A j \in DOMAIN given : off(j) <=> Off(given[j], x)
    BY <2>3 DEF Off
  <2> HIDE DEF off
  <2>5. Any <=> ListsIn(given, Len(given), x)
    BY <2>2, <2>3, <2>4 DEF ListsIn
  <2>6. In(given, x) <=> ListsIn(given, Len(given), x)
    BY <1>5 DEF In
  <2> HIDE DEF Any
  <2> QED
    BY <1>1, <1>3, <2>5, <2>6
<1> QED
  BY <1>4, <1>5

LEMMA InvLists == ASSUME Sound, IInv PROVE ListsRight
<1> SUFFICES ASSUME section # Nothing, conf.st = "Success", NEW x \in Addrs
             PROVE  /\ conf.addresses["+"][x] + conf.addresses["-"][x] <= 1
                    /\ \A k \in Modifier : conf.addresses[Sign(k)][x] > 0 <=> Lists(k, x)
  BY DEF ListsRight
<1> DEFINE given == GivenTo(section)
<1>1. PICK before \in Confs : before.all = prior /\ conf = process_section(before, section)
  BY DEF IInv
<1> DEFINE c == Reset(before, section.name)
           d == Through(c, given)
<1>2. section \in Sections /\ defaults \in DefaultSets
  BY DEF IInv
<1>3. c \in Confs
  BY <1>2, ResetType
<1>4. FullyGiven(given)
  BY <1>2, GivenIs DEF FullyGiven
<1>5. Placed(c, 0, given)
  <2>1. \A y \in Addrs : Count(c, "+", y) = 0 /\ Count(c, "-", y) = 0
    BY DEF Count, Reset, Cleared, Signs, Nowhere
  <2> HIDE DEF c, given
  <2> QED
    BY <2>1 DEF Placed, Once
<1>6. Placed(d, 13, given)
  <2> HIDE DEF c, given
  <2> QED
    BY <1>3, <1>4, <1>5, ThroughLists
<1>7. d \in Confs
  <2> HIDE DEF c, given
  <2> QED
    BY <1>3, <1>4, ThroughType DEF FullyGiven
<1>8. conf = IF d.st = "Success" THEN apply_defaults(d) ELSE d
  BY <1>1 DEF process_section, GivenTo
<1> HIDE DEF d, c, given
<1>9. d.st = "Success" /\ conf.addresses = d.addresses
  BY <1>7, <1>8 DEF apply_defaults, Confs
<1>10. /\ Once(d, x)
       /\ Count(d, "+", x) > 0 <=> In(given["only_from"], x)
       /\ Count(d, "-", x) > 0 <=> In(given["no_access"], x)
  BY <1>6, <1>9 DEF Placed
<1>11. conf.addresses["+"][x] + conf.addresses["-"][x] <= 1
  BY <1>9, <1>10 DEF Once, Count
<1>12. conf.addresses["+"][x] > 0 <=> Lists("only_from", x)
  <2>1. Lists("only_from", x) <=> In(given["only_from"], x)
    BY ListsAre DEF Modifier, given
  <2> QED
    BY <1>9, <1>10, <2>1 DEF Count
<1>13. conf.addresses["-"][x] > 0 <=> Lists("no_access", x)
  <2>1. Lists("no_access", x) <=> In(given["no_access"], x)
    BY ListsAre DEF Modifier, given
  <2> QED
    BY <1>9, <1>10, <2>1 DEF Count
<1> QED
  BY <1>11, <1>12, <1>13 DEF Modifier, Sign

\* Whatever the sections, the reader's variables keep their types.
THEOREM TypeCorrect == ASSUME Sound PROVE Spec => []TypeOK
<1>1. Spec => []IInv
  BY InitIInv, NextIInv, PTL DEF Spec
<1>2. IInv => TypeOK
  BY InvTyped
<1> QED
  BY <1>1, <1>2, PTL

\* configent is cleared well enough (ParserImpl::reset, freeconfig): an entry does not
\* depend on the section that was read before it, except that one may be refused after ALL.
THEOREM EntriesAlone == ASSUME Sound PROVE Spec => []EntryAlone
<1>1. Spec => []IInv
  BY InitIInv, NextIInv, PTL DEF Spec
<1>2. IInv => EntryAlone
  BY InvAlone
<1> QED
  BY <1>1, <1>2, PTL

\* Whatever only_from and no_access say and how often: an address is on the list once, under
\* the sign that it was last given by.
THEOREM ListsStayRight == ASSUME Sound PROVE Spec => []ListsRight
<1>1. Spec => []IInv
  BY InitIInv, NextIInv, PTL DEF Spec
<1>2. IInv => ListsRight
  BY InvLists
<1> QED
  BY <1>1, <1>2, PTL
=============================================================================

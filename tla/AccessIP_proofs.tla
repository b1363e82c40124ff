--------------------------- MODULE AccessIP_proofs ---------------------------
(***************************************************************************)
(* Proofs about AccessIP: what each of the five ways to insert a rule does *)
(* to the trie, and what the search makes of it, for any rules and widths. *)
(***************************************************************************)
EXTENDS AccessIP, FiniteSetTheorems, SequenceTheorems, WellFoundedInduction, TLAPS

\* Rules are of one of the two families, no longer than its addresses.
Sound ==
  /\ V4 \in Nat /\ V6 \in Nat /\ V4 <= V6 /\ MaxRules \in Nat \ {0}
  /\ \A p \in Rules :
       /\ p.fam \in Families /\ p.len \in 0 .. Width(p.fam) /\ p.addr \in Addresses(p.fam)
       /\ p = [fam |-> p.fam, len |-> p.len, addr |-> p.addr]

-----------------------------------------------------------------------------
Texts == {<<>>} \cup Addresses("v4") \cup Addresses("v6")
Prefixes == {None} \cup {<<a>> : a \in Texts}
NodeSet == [bit : 0 .. MaxBits, prefix : Prefixes, parent : Nat, l : Nat, r : Nat,
            num : [Families -> Int], data : [Families -> Nat]]
Nodes == DOMAIN node

\* The types of the variables.
Shape ==
  /\ node \in Seq(NodeSet) /\ head \in 0 .. Len(node) /\ (head = 0 <=> node = <<>>)
  /\ rules \in Seq(Rules \cup {Any}) /\ Len(rules) <= MaxRules /\ added \in 0 .. Len(rules)

\* Parents and children agree, and bits grow downwards.
Linked ==
  \A n \in Nodes :
    /\ node[n].l \in 0 .. Len(node) /\ node[n].r \in 0 .. Len(node)
    /\ n = head => node[n].parent = 0
    /\ n # head => node[n].parent \in Nodes /\ n \in {node[node[n].parent].l, node[node[n].parent].r}
    /\ \A c \in {node[n].l, node[n].r} : c # 0 => node[c].parent = n /\ node[c].bit > node[n].bit
    /\ node[n].l # 0 => node[n].l # node[n].r

\* A node without a prefix has two children and decides nothing.
GlueRight ==
  \A n \in Nodes : node[n].prefix = None =>
    /\ node[n].l # 0 /\ node[n].r # 0
    /\ \A f \in Families : node[n].data[f] = 0

\* A node has a number for a family iff it has a decision for it.
Numbered ==
  \A n \in Nodes, f \in Families :
    /\ node[n].num[f] = -1 <=> node[n].data[f] = 0
    /\ node[n].num[f] \in {-1} \cup 1 .. added /\ node[n].data[f] \in 0 .. Len(rules)

\* Rule i is one for family f with the bits of a node.
Fits(i, f, n) ==
  /\ f \in Fams(rules[i]) /\ rules[i].len = node[n].bit
  /\ \A k \in 0 .. node[n].bit - 1 : Bit(rules[i].addr, k) = Bit(node[n].prefix[1], k)

\* A node decides by the first rule that fits it.
DataFirst ==
  \A n \in Nodes, f \in Families : node[n].data[f] # 0 =>
    /\ Fits(node[n].data[f], f, n)
    /\ \A j \in 1 .. node[n].data[f] - 1 : ~Fits(j, f, n)

\* Each rule that was inserted has a node.
Ruled ==
  \A i \in DOMAIN rules : \A f \in Fams(rules[i]) :
    \E n \in Nodes : node[n].prefix # None /\ node[n].data[f] # 0 /\ Fits(i, f, n)

-----------------------------------------------------------------------------
(* Recursion and induction along the nodes: down the tree bits grow, and   *)
(* up it they shrink, so that both end.                                    *)

LEMMA AllNumbers ==
  ASSUME NEW S \in SUBSET Nat, 0 \in S, \A n \in S : n + 1 \in S
  PROVE  \A n \in Nat : n \in S
<1> SUFFICES ASSUME Nat \ S # {} PROVE FALSE
  OBVIOUS
<1>1. PICK m \in Nat \ S : \A n \in Nat \ S : <<n, m>> \notin OpToRel(<, Nat)
  BY WFMin, NatLessThanWellFounded, Zenon
<1>2. \A n \in Nat \ S : ~(n < m)
  BY <1>1, Zenon DEF OpToRel
<1>3. m # 0 /\ m - 1 \in Nat
  OBVIOUS
<1>4. m - 1 \in S
  BY <1>2, <1>3
<1>5. (m - 1) + 1 \in S
  BY <1>4
<1> QED
  BY <1>3, <1>5

\* What holds of an element when it holds of those of a lower rank holds of all.
LEMMA ByRank ==
  ASSUME NEW D, NEW rank \in [D -> Nat], NEW P \in SUBSET D,
         \A m \in D : (\A x \in D : rank[x] < rank[m] => x \in P) => m \in P
  PROVE  \A m \in D : m \in P
<1> DEFINE M == {k \in Nat : \A m \in D : rank[m] <= k => m \in P}
<1>1. 0 \in M
  OBVIOUS
<1>2. ASSUME NEW k \in M PROVE k + 1 \in M
  <2> SUFFICES ASSUME NEW m \in D, rank[m] <= k + 1 PROVE m \in P
    OBVIOUS
  <2>1. ASSUME NEW x \in D, rank[x] < rank[m] PROVE x \in P
    <3>1. rank[x] <= k
      BY <2>1
    <3> QED
      BY <3>1
  <2> QED
    BY <2>1
<1>3. \A k \in Nat : k \in M
  <2>1. M \in SUBSET Nat
    OBVIOUS
  <2> HIDE DEF M
  <2> QED
    BY <1>1, <1>2, <2>1, AllNumbers
<1> QED
  BY <1>3

\* Steps to elements of a lower rank, of at most K.
Falls(D, rank, K, go, next) ==
  /\ rank \in [D -> Nat] /\ K \in Nat /\ \A m \in D : rank[m] <= K
  /\ go \in SUBSET D /\ next \in [go -> D] /\ \A m \in go : rank[next[m]] < rank[m]

\* What is found along them: stop where they end, and F of what is found next elsewhere.
Finds(g, D, S, go, next, stop, F) ==
  g \in [D -> S] /\ \A m \in D : g[m] = IF m \in go THEN F[m][g[next[m]]] ELSE stop[m]
Finders(D, S, stop, F) == stop \in [D -> S] /\ F \in [D -> [S -> S]]

\* A recursion along such steps defines a function.
LEMMA Recursion ==
  ASSUME NEW D, NEW S, NEW rank, NEW K, NEW go, NEW next, NEW stop, NEW F,
         Falls(D, rank, K, go, next), Finders(D, S, stop, F)
  PROVE  \E g : Finds(g, D, S, go, next, stop, F)
<1> USE DEF Falls, Finders
<1> DEFINE Value(g, m) == IF m \in go THEN F[m][g[next[m]]] ELSE stop[m]
           Upto(k) == \E g \in [D -> S] : \A m \in D : rank[m] <= k => g[m] = Value(g, m)
           M == {k \in Nat : Upto(k)}
<1>1. 0 \in M
  <2>1. \A m \in D : rank[m] <= 0 => m \notin go
    OBVIOUS
  <2>2. \A m \in D : rank[m] <= 0 => stop[m] = Value(stop, m)
    BY <2>1
  <2> QED
    BY <2>2
<1>2. ASSUME NEW k \in M PROVE k + 1 \in M
  <2>1. PICK g \in [D -> S] : \A m \in D : rank[m] <= k => g[m] = Value(g, m)
    OBVIOUS
  <2> DEFINE f == [m \in D |-> Value(g, m)]
  <2>2. f \in [D -> S]
    OBVIOUS
  <2>3. ASSUME NEW m \in D, rank[m] <= k + 1 PROVE f[m] = Value(f, m)
    <3>1. CASE m \in go
      <4>1. next[m] \in D /\ rank[next[m]] <= k
        BY <2>3, <3>1
      <4>2. f[next[m]] = g[next[m]]
        BY <2>1, <4>1
      <4> QED
        BY <3>1, <4>2
    <3>2. CASE m \notin go
      BY <3>2
    <3> QED
      BY <3>1, <3>2
  <2>4. Upto(k + 1)
    BY <2>2, <2>3
  <2> QED
    BY <2>4
<1>3. K \in M
  <2>1. M \in SUBSET Nat
    OBVIOUS
  <2> HIDE DEF M
  <2> QED
    BY <1>1, <1>2, <2>1, AllNumbers
<1>4. PICK g \in [D -> S] : \A m \in D : rank[m] <= K => g[m] = Value(g, m)
  BY <1>3
<1>5. Finds(g, D, S, go, next, stop, F)
  BY <1>4 DEF Finds
<1> QED
  BY <1>5

\* Of it, a walk that goes on until it stops.
LEMMA WalkEnds ==
  ASSUME NEW D, NEW rank, NEW K, NEW go, NEW next, Falls(D, rank, K, go, next)
  PROVE  \E g \in [D -> D] : \A m \in D : g[m] = IF m \in go THEN g[next[m]] ELSE m
<1> DEFINE stop == [m \in D |-> m]
           F == [m \in D |-> [x \in D |-> x]]
<1>1. Finders(D, D, stop, F)
  BY DEF Finders
<1>2. \E g : Finds(g, D, D, go, next, stop, F)
  <2> HIDE DEF stop, F
  <2> QED
    BY <1>1, Recursion
<1>3. PICK g \in [D -> D] :
        \A m \in D : g[m] = IF m \in go THEN F[m][g[next[m]]] ELSE stop[m]
  BY <1>2 DEF Finds
<1>4. \A m \in D : g[m] = IF m \in go THEN g[next[m]] ELSE m
  BY <1>3 DEF Falls
<1> QED
  BY <1>4

-----------------------------------------------------------------------------
(* Labels: the bits that lead to a node, of which those before its own bit *)
(* count.  Prefixes agree with them, and a child lies on the side of its   *)
(* label.                                                                  *)

Labels == [0 .. MaxBits - 1 -> {0, 1}]

\* A gives each node bits that its prefix, if it has one, starts with, and that its children go on
\* with: to the left with 0, to the right with 1.
Labelled(A) ==
  /\ A \in [Nodes -> Labels]
  /\ \A n \in Nodes : node[n].prefix # None =>
       \A k \in 0 .. node[n].bit - 1 : Bit(node[n].prefix[1], k) = A[n][k]
  /\ \A n, c \in Nodes : c \in {node[n].l, node[n].r} =>
       /\ \A k \in 0 .. node[n].bit - 1 : A[c][k] = A[n][k]
       /\ A[c][node[n].bit] = IF c = node[n].r THEN 1 ELSE 0

Agree(A, n, a) == \A k \in 0 .. node[n].bit - 1 : A[n][k] = Bit(a, k)

LEMMA BitIs == ASSUME Sound, NEW a \in Texts, NEW k \in Nat PROVE Bit(a, k) \in {0, 1}
<1>1. PICK w \in Nat : a \in [1 .. w -> {0, 1}]
  <2>1. CASE a = <<>>
    <3>1. a \in [1 .. 0 -> {0, 1}]
      BY <2>1
    <3> QED
      BY <3>1
  <2>2. CASE a # <<>>
    BY <2>2 DEF Texts, Addresses, Sound, Width
  <2> QED
    BY <2>1, <2>2
<1>2. Len(a) = w
  BY <1>1
<1> QED
  BY <1>1, <1>2 DEF Bit

LEMMA NodeIs ==
  ASSUME Sound, Shape, NEW n \in Nodes
  PROVE  /\ n \in 1 .. Len(node) /\ node[n] \in NodeSet
         /\ node[n].bit \in 0 .. MaxBits /\ node[n].bit \in Nat /\ MaxBits \in Nat
<1>1. n \in 1 .. Len(node) /\ node[n] \in NodeSet
  BY DEF Shape, Nodes
<1>2. MaxBits \in Nat
  BY DEF Sound, MaxBits
<1>3. node[n].bit \in 0 .. MaxBits
  BY <1>1 DEF NodeSet
<1> QED
  BY <1>1, <1>2, <1>3

\* The next node on the way of a.
LEMMA Kid ==
  ASSUME Sound, Shape, Linked, NEW n \in Nodes, NEW a
  PROVE  /\ Below(n, a) \in {node[n].l, node[n].r} /\ Below(n, a) \in 0 .. Len(node)
         /\ Below(n, a) # 0 => /\ Below(n, a) \in Nodes /\ node[Below(n, a)].parent = n
                               /\ node[Below(n, a)].bit > node[n].bit
<1>1. Below(n, a) \in {node[n].l, node[n].r}
  BY DEF Below
<1>2. Below(n, a) \in 0 .. Len(node)
  BY <1>1 DEF Linked
<1>3. Below(n, a) # 0 => Below(n, a) \in Nodes
  BY <1>2 DEF Shape, Nodes
<1> QED
  BY <1>1, <1>2, <1>3 DEF Linked

LEMMA KidLabel ==
  ASSUME Sound, Shape, Linked, NEW A, Labelled(A), NEW n \in Nodes, NEW a \in Texts,
         Below(n, a) # 0
  PROVE  /\ node[n].bit < MaxBits
         /\ \A k \in 0 .. node[n].bit - 1 : A[Below(n, a)][k] = A[n][k]
         /\ A[Below(n, a)][node[n].bit] = Bit(a, node[n].bit)
<1> DEFINE c == Below(n, a)
<1>1. c \in Nodes /\ c \in {node[n].l, node[n].r} /\ node[c].bit > node[n].bit
  BY Kid
<1>2. node[n].bit < MaxBits
  BY <1>1, NodeIs
<1>3. /\ \A k \in 0 .. node[n].bit - 1 : A[c][k] = A[n][k]
      /\ A[c][node[n].bit] = IF c = node[n].r THEN 1 ELSE 0
  BY <1>1 DEF Labelled
<1>4. Bit(a, node[n].bit) \in {0, 1}
  BY NodeIs, BitIs
<1>5. CASE Bit(a, node[n].bit) = 1
  BY <1>2, <1>3, <1>5 DEF Below
<1>6. CASE Bit(a, node[n].bit) = 0
  <2>1. c = node[n].l /\ node[n].l # 0
    BY <1>6 DEF Below
  <2>2. c # node[n].r
    BY <2>1 DEF Linked
  <2> QED
    BY <1>2, <1>3, <1>6, <2>2
<1> QED
  BY <1>4, <1>5, <1>6

\* The nodes on the way of a from h on.
OnWay(V, h, a, A) ==
  /\ h \in V
  /\ \A x \in V : x = h \/ node[x].bit > node[h].bit
  /\ \A x \in V : Below(x, a) = 0 \/ Below(x, a) \in V
  /\ \A x, y \in V : node[x].bit < node[y].bit =>
       Below(x, a) # 0 /\ node[Below(x, a)].bit <= node[y].bit
  /\ \A x, y \in V : node[x].bit = node[y].bit => x = y
  /\ \A x, y \in V : node[x].bit <= node[y].bit =>
       \A k \in 0 .. node[x].bit - 1 : A[x][k] = A[y][k]

Height == [m \in Nodes |-> MaxBits - node[m].bit]
Depth  == [m \in Nodes |-> node[m].bit]

LEMMA Ranks ==
  ASSUME Sound, Shape
  PROVE  /\ Height \in [Nodes -> Nat] /\ \A m \in Nodes : Height[m] <= MaxBits
         /\ Depth \in [Nodes -> Nat] /\ \A m \in Nodes : Depth[m] <= MaxBits
         /\ MaxBits \in Nat
         /\ \A m, n \in Nodes : Height[m] < Height[n] <=> node[n].bit < node[m].bit
BY NodeIs, SMTT(30) DEF Height, Depth, Sound, MaxBits

\* What holds of a node when it holds of those with more bits holds of all.
LEMMA ByHeight ==
  ASSUME Sound, Shape, NEW P,
         \A m \in Nodes : (\A x \in Nodes : Height[x] < Height[m] => x \in P) => m \in P
  PROVE  Nodes \subseteq P
<1> DEFINE Q == P \cap Nodes
<1>1. Q \in SUBSET Nodes
  OBVIOUS
<1>2. Height \in [Nodes -> Nat]
  BY Ranks
<1>3. \A m \in Nodes : (\A x \in Nodes : Height[x] < Height[m] => x \in Q) => m \in Q
  OBVIOUS
<1>4. \A m \in Nodes : m \in Q
  <2> HIDE DEF Q
  <2> QED
    BY <1>1, <1>2, <1>3, ByRank
<1> QED
  BY <1>4

LEMMA Way ==
  ASSUME Sound, Shape, Linked, NEW A, Labelled(A), NEW a \in Texts, NEW h \in Nodes
  PROVE  \E V \in SUBSET Nodes : OnWay(V, h, a, A)
<1> DEFINE P == {m \in Nodes : \E V \in SUBSET Nodes : OnWay(V, m, a, A)}
<1>1. ASSUME NEW m \in Nodes, \A x \in Nodes : Height[x] < Height[m] => x \in P
      PROVE  m \in P
  <2>1. CASE Below(m, a) = 0
    <3>1. OnWay({m}, m, a, A)
      BY <2>1, NodeIs DEF OnWay
    <3> QED
      BY <3>1
  <2>2. CASE Below(m, a) # 0
    <3> DEFINE c == Below(m, a)
    <3>1. c \in Nodes /\ node[c].bit > node[m].bit
      BY <2>2, Kid
    <3>2. PICK V \in SUBSET Nodes : OnWay(V, c, a, A)
      BY <1>1, <3>1, Ranks
    <3>3. \A x \in V : x \in Nodes /\ node[x].bit >= node[c].bit /\ node[x].bit > node[m].bit
      BY <3>1, <3>2, NodeIs DEF OnWay
    <3>4. \A k \in 0 .. node[m].bit - 1 : A[c][k] = A[m][k]
      BY <2>2, KidLabel
    <3>5. \A y \in V : \A k \in 0 .. node[m].bit - 1 : A[m][k] = A[y][k]
      <4> SUFFICES ASSUME NEW y \in V, NEW k \in 0 .. node[m].bit - 1 PROVE A[m][k] = A[y][k]
        OBVIOUS
      <4>1. k \in 0 .. node[c].bit - 1
        BY <3>1, NodeIs
      <4>2. A[c][k] = A[y][k]
        BY <3>1, <3>2, <3>3, <4>1 DEF OnWay
      <4> QED
        BY <3>4, <4>2
    <3> DEFINE U == V \cup {m}
    <3>6. m \in U /\ c \in U /\ c \in V
      BY <3>2 DEF OnWay
    <3>7. \A x \in U : x = m \/ node[x].bit > node[m].bit
      BY <3>3
    <3>8. \A x \in U : Below(x, a) = 0 \/ Below(x, a) \in U
      BY <3>2, <3>6 DEF OnWay
    <3>9. \A x, y \in U : node[x].bit < node[y].bit =>
            Below(x, a) # 0 /\ node[Below(x, a)].bit <= node[y].bit
      <4> SUFFICES ASSUME NEW x \in U, NEW y \in U, node[x].bit < node[y].bit
                   PROVE  Below(x, a) # 0 /\ node[Below(x, a)].bit <= node[y].bit
        OBVIOUS
      <4>1. CASE x = m
        <5>1. y \in V
          BY <4>1, NodeIs
        <5> QED
          BY <2>2, <3>3, <4>1, <5>1, <3>1, NodeIs
      <4>2. CASE x \in V /\ y = m
        BY <3>3, <4>2, NodeIs
      <4>3. CASE x \in V /\ y \in V
        BY <3>2, <4>3 DEF OnWay
      <4> QED
        BY <4>1, <4>2, <4>3
    <3>10. \A x, y \in U : node[x].bit = node[y].bit => x = y
      BY <3>2, <3>3, NodeIs DEF OnWay
    <3>11. \A x, y \in U : node[x].bit <= node[y].bit =>
             \A k \in 0 .. node[x].bit - 1 : A[x][k] = A[y][k]
      <4> SUFFICES ASSUME NEW x \in U, NEW y \in U, node[x].bit <= node[y].bit
                   PROVE  \A k \in 0 .. node[x].bit - 1 : A[x][k] = A[y][k]
        OBVIOUS
      <4>1. CASE x = m /\ y \in V
        BY <3>5, <4>1
      <4>2. CASE x = m /\ y = m
        BY <4>2
      <4>3. CASE x \in V /\ y = m
        BY <3>3, <4>3, NodeIs
      <4>4. CASE x \in V /\ y \in V
        BY <3>2, <4>4 DEF OnWay
      <4> QED
        BY <4>1, <4>2, <4>3, <4>4
    <3> HIDE DEF U, c
    <3>12. OnWay(U, m, a, A)
      BY <3>6, <3>7, <3>8, <3>9, <3>10, <3>11 DEF OnWay
    <3>13. U \in SUBSET Nodes
      BY DEF U
    <3> QED
      BY <3>12, <3>13
  <2> QED
    BY <2>1, <2>2
<1>2. P \in SUBSET Nodes
  OBVIOUS
<1> HIDE DEF P
<1>3. \A m \in Nodes : m \in P
  BY <1>1, <1>2, Ranks, ByRank
<1> QED
  BY <1>3 DEF P

\* A node whose label agrees with a is on the way of a.
LEMMA Reached ==
  ASSUME Sound, Shape, Linked, NEW A, Labelled(A), NEW a \in Texts,
         NEW V \in SUBSET Nodes, OnWay(V, head, a, A)
  PROVE  \A x \in Nodes : Agree(A, x, a) => x \in V
<1> DEFINE P == {x \in Nodes : Agree(A, x, a) => x \in V}
<1>1. ASSUME NEW x \in Nodes, \A y \in Nodes : Depth[y] < Depth[x] => y \in P
      PROVE  x \in P
  <2> SUFFICES ASSUME Agree(A, x, a), x # head PROVE x \in V
    BY DEF OnWay
  <2> DEFINE q == node[x].parent
  <2>1. q \in Nodes /\ x \in {node[q].l, node[q].r} /\ x # 0
    BY NodeIs DEF Linked
  <2>2. node[q].bit < node[x].bit
    BY <2>1 DEF Linked
  <2>3. /\ \A k \in 0 .. node[q].bit - 1 : A[x][k] = A[q][k]
        /\ A[x][node[q].bit] = IF x = node[q].r THEN 1 ELSE 0
    BY <2>1 DEF Labelled
  <2>4. Agree(A, q, a)
    BY <2>1, <2>2, <2>3, NodeIs, SMTT(30) DEF Agree
  <2>5. q \in V
    BY <1>1, <2>1, <2>2, <2>4 DEF Depth
  <2>6. Bit(a, node[q].bit) = A[x][node[q].bit] /\ node[q].bit < MaxBits
    BY <2>1, <2>2, NodeIs DEF Agree
  <2>7. Below(q, a) = x
    BY <2>1, <2>3, <2>6 DEF Below
  <2> QED
    BY <2>1, <2>5, <2>7 DEF OnWay
<1>2. P \in SUBSET Nodes
  OBVIOUS
<1> HIDE DEF P
<1>3. \A m \in Nodes : m \in P
  BY <1>1, <1>2, Ranks, ByRank
<1> QED
  BY <1>3 DEF P

-----------------------------------------------------------------------------
(* Where the walk down ends, and the walk up from there.                   *)

Goes(m, p) == (node[m].bit < p.len \/ node[m].prefix = None) /\ Below(m, p.addr) # 0

LEMMA DescendIs ==
  ASSUME Sound, Shape, Linked, NEW p
  PROVE  \E g \in [Nodes -> Nodes] : \A m \in Nodes :
           g[m] = Descend(m, p) /\ g[m] = IF Goes(m, p) THEN g[Below(m, p.addr)] ELSE m
<1> DEFINE go == {m \in Nodes : Goes(m, p)}
           next == [m \in go |-> Below(m, p.addr)]
<1>1. next \in [go -> Nodes] /\ \A m \in go : Height[next[m]] < Height[m]
  BY Kid, Ranks DEF Goes
<1>2. go \in SUBSET Nodes
  OBVIOUS
<1>3. /\ Height \in [Nodes -> Nat] /\ MaxBits \in Nat /\ \A m \in Nodes : Height[m] <= MaxBits
  BY Ranks
<1>4. \E g \in [Nodes -> Nodes] :
        \A m \in Nodes : g[m] = IF m \in go THEN g[next[m]] ELSE m
  <2> HIDE DEF go, next
  <2>1. Falls(Nodes, Height, MaxBits, go, next)
    BY <1>1, <1>2, <1>3 DEF Falls
  <2> QED
    BY <2>1, WalkEnds
<1>5. PICK g \in [Nodes -> Nodes] :
        \A m \in Nodes : g[m] = IF m \in go THEN g[next[m]] ELSE m
  BY <1>4
<1>6. ASSUME NEW m \in Nodes PROVE g[m] = IF Goes(m, p) THEN g[Below(m, p.addr)] ELSE m
  <2>1. Goes(m, p) => Below(m, p.addr) \in Nodes
    BY Kid DEF Goes
  <2> QED
    BY <1>5, <2>1
<1> DEFINE Walk(w) == [m \in DOMAIN node |->
                         IF (node[m].bit < p.len \/ node[m].prefix = None) /\ Below(m, p.addr) # 0
                         THEN w[Below(m, p.addr)] ELSE m]
<1> HIDE DEF go, next
<1>7. g = Walk(g)
  BY <1>6 DEF Goes, Nodes
<1> DEFINE walk == CHOOSE w : w = Walk(w)
<1>8. walk = Walk(walk)
  BY <1>7
<1>9. \A m \in Nodes : walk[m] = IF Goes(m, p) THEN walk[Below(m, p.addr)] ELSE m
  <2> HIDE DEF walk
  <2> QED
    BY <1>8 DEF Goes, Nodes
<1>10. \A m \in Nodes : Descend(m, p) = walk[m]
  BY DEF Descend
<1> HIDE DEF walk
<1> DEFINE P == {m \in Nodes : walk[m] = g[m]}
<1>11. ASSUME NEW m \in Nodes, \A x \in Nodes : Height[x] < Height[m] => x \in P
       PROVE  m \in P
  <2>1. CASE Goes(m, p)
    <3>1. Below(m, p.addr) \in Nodes /\ Height[Below(m, p.addr)] < Height[m]
      BY <2>1, Kid, Ranks DEF Goes
    <3> QED
      BY <1>6, <1>9, <1>11, <2>1, <3>1
  <2>2. CASE ~Goes(m, p)
    BY <1>6, <1>9, <2>2
  <2> QED
    BY <2>1, <2>2
<1>12. \A m \in Nodes : m \in P
  <2>1. P \in SUBSET Nodes
    OBVIOUS
  <2> HIDE DEF P
  <2> QED
    BY <1>3, <1>11, <2>1, ByRank
<1> QED
  BY <1>6, <1>10, <1>12

\* The nodes between m and the end of the walk down.
Down(W, m, end, p, A) ==
  /\ m \in W /\ end \in W
  /\ \A x \in W : x = m \/ (x # head /\ node[x].parent \in W)
  /\ \A x \in W : x = end \/ (node[x].bit < node[end].bit /\ A[end][node[x].bit] = Bit(p.addr, node[x].bit))
  /\ \A x \in W : \A k \in 0 .. node[x].bit - 1 : A[x][k] = A[end][k]
  /\ ~Goes(end, p)

LEMMA Descent ==
  ASSUME Sound, Shape, Linked, NEW A, Labelled(A), NEW p, p.addr \in Texts, NEW h \in Nodes
  PROVE  Descend(h, p) \in Nodes /\ \E W \in SUBSET Nodes : Down(W, h, Descend(h, p), p, A)
<1>1. PICK g \in [Nodes -> Nodes] : \A m \in Nodes :
        g[m] = Descend(m, p) /\ g[m] = IF Goes(m, p) THEN g[Below(m, p.addr)] ELSE m
  BY DescendIs
<1> DEFINE P == {m \in Nodes : \E W \in SUBSET Nodes : Down(W, m, g[m], p, A)}
<1>2. ASSUME NEW m \in Nodes, \A x \in Nodes : Height[x] < Height[m] => x \in P
      PROVE  m \in P
  <2>1. CASE ~Goes(m, p)
    <3>1. g[m] = m
      BY <1>1, <2>1
    <3>2. Down({m}, m, m, p, A)
      BY <2>1 DEF Down
    <3> QED
      BY <3>1, <3>2
  <2>2. CASE Goes(m, p)
    <3> DEFINE c == Below(m, p.addr)
               e == g[m]
    <3>1. c # 0 /\ c \in Nodes /\ node[c].parent = m /\ node[c].bit > node[m].bit /\ g[c] = e
      BY <1>1, <2>2, Kid DEF Goes
    <3>2. PICK W \in SUBSET Nodes : Down(W, c, e, p, A)
      BY <1>2, <3>1, Ranks
    <3>3. c # head
      BY <3>1, NodeIs DEF Linked
    <3>4. /\ \A k \in 0 .. node[m].bit - 1 : A[c][k] = A[m][k]
          /\ A[c][node[m].bit] = Bit(p.addr, node[m].bit)
      BY <3>1, KidLabel
    <3>5. e \in Nodes /\ node[c].bit <= node[e].bit /\ \A k \in 0 .. node[c].bit - 1 : A[c][k] = A[e][k]
      BY <3>1, <3>2, NodeIs, SMTT(30) DEF Down
    <3> DEFINE U == W \cup {m}
    <3>6. m \in U /\ e \in U
      BY <3>2 DEF Down
    <3>7. \A x \in U : x = m \/ (x # head /\ node[x].parent \in U)
      BY <3>1, <3>2, <3>3 DEF Down
    <3>8. node[m].bit < node[e].bit /\ A[e][node[m].bit] = Bit(p.addr, node[m].bit)
      BY <3>1, <3>4, <3>5, NodeIs, SMTT(30)
    <3>9. ASSUME NEW k \in 0 .. node[m].bit - 1 PROVE A[m][k] = A[e][k]
      <4>1. node[m].bit \in Int /\ node[c].bit \in Int /\ node[c].bit > node[m].bit
        BY <3>1, NodeIs
      <4> HIDE DEF e, c
      <4>2. k \in 0 .. node[c].bit - 1
        BY <4>1
      <4> QED
        BY <4>2, <3>4, <3>5
    <3> HIDE DEF e, c
    <3>10. Down(U, m, e, p, A)
      BY <3>2, <3>6, <3>7, <3>8, <3>9 DEF Down
    <3>11. U \in SUBSET Nodes
      OBVIOUS
    <3> QED
      BY <3>10, <3>11 DEF e
  <2> QED
    BY <2>1, <2>2
<1>3. P \in SUBSET Nodes
  OBVIOUS
<1> HIDE DEF P
<1>4. \A m \in Nodes : m \in P
  BY <1>2, <1>3, Ranks, ByRank
<1> QED
  BY <1>1, <1>4 DEF P

Ups(m, differ) == node[m].parent # 0 /\ node[node[m].parent].bit >= differ

LEMMA ClimbIs ==
  ASSUME Sound, Shape, Linked, NEW differ \in Nat
  PROVE  \E g \in [Nodes -> Nodes] : \A m \in Nodes :
           g[m] = Climb(m, differ) /\ g[m] = IF Ups(m, differ) THEN g[node[m].parent] ELSE m
<1>0. \A m \in Nodes : node[m].parent # 0 =>
        /\ m # head /\ node[m].parent \in Nodes /\ node[node[m].parent].bit < node[m].bit
  <2> SUFFICES ASSUME NEW m \in Nodes, node[m].parent # 0
               PROVE  /\ m # head /\ node[m].parent \in Nodes
                      /\ node[node[m].parent].bit < node[m].bit
    OBVIOUS
  <2>1. m # head /\ m # 0
    BY NodeIs DEF Linked
  <2>2. node[m].parent \in Nodes /\ m \in {node[node[m].parent].l, node[node[m].parent].r}
    BY <2>1 DEF Linked
  <2> QED
    BY <2>1, <2>2 DEF Linked
<1> DEFINE go == {m \in Nodes : Ups(m, differ)}
           next == [m \in go |-> node[m].parent]
<1>1. next \in [go -> Nodes] /\ \A m \in go : Depth[next[m]] < Depth[m]
  BY <1>0, Ranks DEF Ups, Depth
<1>2. go \in SUBSET Nodes
  OBVIOUS
<1>3. /\ Depth \in [Nodes -> Nat] /\ MaxBits \in Nat /\ \A m \in Nodes : Depth[m] <= MaxBits
  BY Ranks
<1>4. \E g \in [Nodes -> Nodes] :
        \A m \in Nodes : g[m] = IF m \in go THEN g[next[m]] ELSE m
  <2> HIDE DEF go, next
  <2>1. Falls(Nodes, Depth, MaxBits, go, next)
    BY <1>1, <1>2, <1>3 DEF Falls
  <2> QED
    BY <2>1, WalkEnds
<1>5. PICK g \in [Nodes -> Nodes] :
        \A m \in Nodes : g[m] = IF m \in go THEN g[next[m]] ELSE m
  BY <1>4
<1>6. ASSUME NEW m \in Nodes PROVE g[m] = IF Ups(m, differ) THEN g[node[m].parent] ELSE m
  <2>1. Ups(m, differ) => node[m].parent \in Nodes
    BY <1>0 DEF Ups
  <2> QED
    BY <1>5, <2>1
<1> HIDE DEF go, next
<1> DEFINE Walk(w) == [m \in DOMAIN node |->
                         LET parent == node[m].parent
                         IN  IF parent # 0 /\ node[parent].bit >= differ THEN w[parent] ELSE m]
<1>7. g = Walk(g)
  BY <1>6 DEF Ups, Nodes
<1> DEFINE walk == CHOOSE w : w = Walk(w)
<1>8. walk = Walk(walk)
  BY <1>7
<1>9. \A m \in Nodes : walk[m] = IF Ups(m, differ) THEN walk[node[m].parent] ELSE m
  <2> HIDE DEF walk
  <2> QED
    BY <1>8 DEF Ups, Nodes
<1>10. \A m \in Nodes : Climb(m, differ) = walk[m]
  BY DEF Climb
<1> HIDE DEF walk
<1> DEFINE P == {m \in Nodes : walk[m] = g[m]}
<1>11. ASSUME NEW m \in Nodes, \A x \in Nodes : Depth[x] < Depth[m] => x \in P
       PROVE  m \in P
  <2>1. CASE Ups(m, differ)
    <3>1. node[m].parent \in Nodes /\ Depth[node[m].parent] < Depth[m]
      BY <1>0, <2>1 DEF Ups, Depth
    <3> QED
      BY <1>6, <1>9, <1>11, <2>1, <3>1
  <2>2. CASE ~Ups(m, differ)
    BY <1>6, <1>9, <2>2
  <2> QED
    BY <2>1, <2>2
<1>12. \A m \in Nodes : m \in P
  <2>1. P \in SUBSET Nodes
    OBVIOUS
  <2> HIDE DEF P
  <2> QED
    BY <1>3, <1>11, <2>1, ByRank
<1> QED
  BY <1>6, <1>10, <1>12

\* Up to the highest node that shares the first bits, of those that the walk down passed.
LEMMA Ascent ==
  ASSUME Sound, Shape, Linked, NEW differ \in Nat, NEW W \in SUBSET Nodes, head \in W,
         \A x \in W : x = head \/ (x # head /\ node[x].parent \in W),
         NEW end \in W, node[end].bit >= differ
  PROVE  /\ Climb(end, differ) \in W /\ ~Ups(Climb(end, differ), differ)
         /\ node[Climb(end, differ)].bit >= differ
<1>1. PICK g \in [Nodes -> Nodes] : \A m \in Nodes :
        g[m] = Climb(m, differ) /\ g[m] = IF Ups(m, differ) THEN g[node[m].parent] ELSE m
  BY ClimbIs
<1> DEFINE P == {m \in Nodes : m \in W /\ node[m].bit >= differ =>
                   g[m] \in W /\ ~Ups(g[m], differ) /\ node[g[m]].bit >= differ}
<1>2. ASSUME NEW m \in Nodes, \A x \in Nodes : Depth[x] < Depth[m] => x \in P
      PROVE  m \in P
  <2> SUFFICES ASSUME m \in W, node[m].bit >= differ
               PROVE  g[m] \in W /\ ~Ups(g[m], differ) /\ node[g[m]].bit >= differ
    OBVIOUS
  <2>1. CASE Ups(m, differ)
    <3> DEFINE q == node[m].parent
    <3>1. m # head /\ m # 0
      BY <2>1, NodeIs DEF Ups, Linked
    <3>2. q \in W /\ q \in Nodes /\ node[q].bit < node[m].bit
      BY <3>1, SMTT(30) DEF Linked
    <3>3. Depth[q] < Depth[m]
      BY <3>2 DEF Depth
    <3>4. node[q].bit >= differ /\ g[m] = g[q]
      BY <1>1, <2>1 DEF Ups
    <3> QED
      BY <1>2, <3>2, <3>3, <3>4
  <2>2. CASE ~Ups(m, differ)
    BY <1>1, <2>2
  <2> QED
    BY <2>1, <2>2
<1>3. P \in SUBSET Nodes
  OBVIOUS
<1> HIDE DEF P
<1>4. \A m \in Nodes : m \in P
  BY <1>2, <1>3, Ranks, ByRank
<1> QED
  BY <1>1, <1>4 DEF P

LEMMA Least == ASSUME NEW S \in SUBSET Nat, S # {} PROVE \E m \in S : \A n \in S : m <= n
<1>1. PICK m \in S : \A n \in S : <<n, m>> \notin OpToRel(<, Nat)
  BY WFMin, NatLessThanWellFounded, Zenon
<1>2. \A n \in S : ~(n < m)
  BY <1>1, Zenon DEF OpToRel
<1> QED
  BY <1>2

LEMMA NotNone == \A a : <<a>> # None
BY DEF None

LEMMA RuleIs ==
  ASSUME Sound, NEW p \in Rules \cup {Any}
  PROVE  /\ p.addr \in Texts /\ p.len \in Nat /\ p.len <= MaxBits
         /\ Len(p.addr) \in Nat /\ p.len <= Len(p.addr) /\ Len(p.addr) <= MaxBits
         /\ Fams(p) \subseteq Families /\ Fams(p) # {}
<1>1. CASE p \in Rules
  <2>1. /\ p.fam \in Families /\ p.len \in 0 .. Width(p.fam) /\ p.addr \in [1 .. Width(p.fam) -> {0, 1}]
        /\ Width(p.fam) \in Nat /\ Width(p.fam) <= MaxBits
    BY <1>1 DEF Sound, Addresses, Families, Width, MaxBits
  <2>2. Len(p.addr) = Width(p.fam)
    BY <2>1
  <2>3. p.addr \in Texts
    BY <2>1 DEF Texts, Addresses, Families
  <2>4. Fams(p) = {p.fam}
    BY <2>1 DEF Fams, Families
  <2>5. p.len \in Nat /\ p.len <= Len(p.addr) /\ Len(p.addr) \in Nat /\ Len(p.addr) <= MaxBits
        /\ MaxBits \in Nat
    <3> DEFINE w == Width(p.fam)
    <3>1. p.len \in 0 .. w /\ w \in Nat /\ w <= MaxBits /\ MaxBits \in Nat
      BY <2>1 DEF Sound, MaxBits
    <3> HIDE DEF w
    <3>2. p.len \in Nat /\ p.len <= w
      BY <3>1
    <3> QED
      BY <2>2, <3>1, <3>2 DEF w
  <2>6. p.len <= MaxBits
    <3> HIDE DEF MaxBits
    <3> QED
      BY <2>5
  <2>7. Fams(p) \subseteq Families /\ Fams(p) # {}
    BY <2>1, <2>4
  <2> QED
    BY <2>3, <2>5, <2>6, <2>7
<1>2. CASE p = Any
  <2>1. p.addr = <<>> /\ p.len = 0 /\ Fams(p) = Families
    BY <1>2 DEF Any, Fams
  <2>2. MaxBits \in Nat /\ Len(<<>>) = 0
    BY DEF Sound, MaxBits
  <2> QED
    BY <2>1, <2>2 DEF Texts, Families
<1> QED
  BY <1>1, <1>2

LEMMA DifferIs ==
  ASSUME Sound, Shape, NEW n \in Nodes, NEW p \in Rules \cup {Any}
  PROVE  LET d == Differ(n, p)
         IN  /\ d \in Nat /\ d <= node[n].bit /\ d <= p.len
             /\ \A k \in 0 .. d - 1 : Bit(p.addr, k) = Bit(node[n].prefix[1], k)
             /\ d < node[n].bit /\ d < p.len => Bit(p.addr, d) # Bit(node[n].prefix[1], d)
<1> DEFINE check == IF node[n].bit < p.len THEN node[n].bit ELSE p.len
           other == {k \in 0 .. (check - 1) : Bit(p.addr, k) # Bit(node[n].prefix[1], k)}
<1>1. check \in Nat /\ check <= node[n].bit /\ check <= p.len /\ (check = node[n].bit \/ check = p.len)
  BY NodeIs, RuleIs
<1>2. Differ(n, p) = IF other = {} THEN check ELSE CHOOSE k \in other : \A j \in other : k <= j
  BY DEF Differ
<1>3. CASE other = {}
  <2>1. \A k \in 0 .. check - 1 : Bit(p.addr, k) = Bit(node[n].prefix[1], k)
    BY <1>3
  <2>2. Differ(n, p) = check
    BY <1>2, <1>3
  <2>3. ~(check < node[n].bit /\ check < p.len)
    BY <1>1, NodeIs, RuleIs
  <2> HIDE DEF check, other
  <2> QED
    BY <1>1, <2>1, <2>2, <2>3
<1>4. CASE other # {}
  <2> DEFINE d == CHOOSE k \in other : \A j \in other : k <= j
  <2>1. \E k \in other : \A j \in other : k <= j
    <3>1. other \in SUBSET Nat
      BY <1>1
    <3> HIDE DEF other
    <3> QED
      BY <1>4, <3>1, Least
  <2>2. d \in other /\ \A j \in other : d <= j
    <3> HIDE DEF other
    <3> QED
      BY <2>1
  <2>3. d \in 0 .. check - 1 /\ Bit(p.addr, d) # Bit(node[n].prefix[1], d)
    BY <2>2
  <2>4. \A k \in 0 .. d - 1 : Bit(p.addr, k) = Bit(node[n].prefix[1], k)
    <3> SUFFICES ASSUME NEW k \in 0 .. d - 1, k \in other PROVE FALSE
      BY <1>1, <2>3
    <3> QED
      BY <2>2, <2>3, SMTT(30)
  <2>5. Differ(n, p) = d
    BY <1>2, <1>4
  <2>6. node[n].bit \in Nat /\ p.len \in Nat
    BY NodeIs, RuleIs
  <2> HIDE DEF check, other, d
  <2>7. d \in Nat /\ d <= node[n].bit /\ d <= p.len
    BY <1>1, <2>3, <2>6
  <2> QED
    BY <2>3, <2>4, <2>5, <2>7
<1> QED
  BY <1>3, <1>4

\* Where p goes: at n or above it, at bit d, where the labels below n are that of the node
\* with address test.
Placed(n, d, test, p, A) ==
  /\ n \in Nodes /\ d \in Nat /\ d <= p.len /\ d <= node[n].bit
  /\ \A k \in 0 .. d - 1 : A[n][k] = Bit(p.addr, k)
  /\ d < node[n].bit => Bit(test, d) = A[n][d] /\ (d < p.len => A[n][d] # Bit(p.addr, d))
  /\ n = head \/ (n # head /\ node[n].parent \in Nodes /\ node[node[n].parent].bit < d)
  /\ node[n].bit = d /\ p.len # d => Below(n, p.addr) = 0

LEMMA Placement ==
  ASSUME Sound, Shape, Linked, GlueRight, NEW A, Labelled(A), head # 0,
         NEW p \in Rules \cup {Any}
  PROVE  LET end == Descend(head, p)
             d == Differ(end, p)
             n == Climb(end, d)
         IN  end \in Nodes /\ node[end].prefix # None /\ Placed(n, d, node[end].prefix[1], p, A)
<1> DEFINE e == Descend(head, p)
           d == Differ(e, p)
           n == Climb(e, d)
<1>1. head \in Nodes
  BY DEF Shape, Nodes
<1>2. p.addr \in Texts /\ p.len \in Nat
  BY RuleIs
<1>3. e \in Nodes /\ \E W \in SUBSET Nodes : Down(W, head, e, p, A)
  BY <1>1, <1>2, Descent
<1>4. PICK W \in SUBSET Nodes : Down(W, head, e, p, A)
  BY <1>3
<1> HIDE DEF e
<1>5. node[e].prefix # None
  <2> SUFFICES ASSUME node[e].prefix = None PROVE FALSE
    OBVIOUS
  <2>1. node[e].l # 0 /\ node[e].r # 0
    BY <1>3 DEF GlueRight
  <2>2. Below(e, p.addr) # 0
    BY <2>1 DEF Below
  <2> QED
    BY <1>4, <2>2 DEF Down, Goes
<1>6. /\ d \in Nat /\ d <= node[e].bit /\ d <= p.len
      /\ \A k \in 0 .. d - 1 : Bit(p.addr, k) = Bit(node[e].prefix[1], k)
      /\ d < node[e].bit /\ d < p.len => Bit(p.addr, d) # Bit(node[e].prefix[1], d)
  BY <1>3, DifferIs
<1> HIDE DEF d
<1>7. n \in W /\ ~Ups(n, d) /\ node[n].bit >= d
  <2>1. /\ head \in W /\ e \in W /\ \A x \in W : x = head \/ (x # head /\ node[x].parent \in W)
    BY <1>4 DEF Down
  <2> QED
    BY <1>3, <1>6, <2>1, NodeIs, Ascent
<1> HIDE DEF n
<1>8. /\ n \in Nodes /\ node[n].bit <= node[e].bit
      /\ \A k \in 0 .. node[n].bit - 1 : A[n][k] = A[e][k]
      /\ n = e \/ A[e][node[n].bit] = Bit(p.addr, node[n].bit)
      /\ n = e \/ node[n].bit < node[e].bit
  BY <1>3, <1>4, <1>7, NodeIs, SMTT(30) DEF Down
<1>9. \A k \in 0 .. node[e].bit - 1 : Bit(node[e].prefix[1], k) = A[e][k]
  BY <1>3, <1>5 DEF Labelled
<1>10. \A k \in 0 .. d - 1 : A[n][k] = Bit(p.addr, k)
  <2> SUFFICES ASSUME NEW k \in 0 .. d - 1 PROVE A[n][k] = Bit(p.addr, k)
    OBVIOUS
  <2>1. k \in 0 .. node[n].bit - 1 /\ k \in 0 .. node[e].bit - 1
    BY <1>3, <1>6, <1>7, <1>8, NodeIs
  <2> QED
    BY <1>6, <1>8, <1>9, <2>1
<1>11. d < node[n].bit =>
         /\ Bit(node[e].prefix[1], d) = A[n][d]
         /\ d < p.len => A[n][d] # Bit(p.addr, d)
  <2> SUFFICES ASSUME d < node[n].bit
               PROVE  /\ Bit(node[e].prefix[1], d) = A[n][d]
                      /\ d < p.len => A[n][d] # Bit(p.addr, d)
    OBVIOUS
  <2>1. d \in 0 .. node[n].bit - 1 /\ d \in 0 .. node[e].bit - 1 /\ d < node[e].bit
    BY <1>3, <1>6, <1>8, NodeIs
  <2> QED
    BY <1>6, <1>8, <1>9, <2>1
<1>12. n = head \/ (n # head /\ node[n].parent \in Nodes /\ node[node[n].parent].bit < d)
  <2> SUFFICES ASSUME n # head PROVE node[n].parent \in Nodes /\ node[node[n].parent].bit < d
    OBVIOUS
  <2>1. node[n].parent \in Nodes
    BY <1>8 DEF Linked
  <2>2. node[n].parent # 0
    BY <2>1, NodeIs
  <2> QED
    BY <1>6, <1>7, <2>1, <2>2, NodeIs DEF Ups
<1>13. node[n].bit = d /\ p.len # d => Below(n, p.addr) = 0
  <2> SUFFICES ASSUME node[n].bit = d, p.len # d PROVE Below(n, p.addr) = 0
    OBVIOUS
  <2>1. d < p.len
    BY <1>2, <1>6
  <2>2. n = e
    <3> SUFFICES ASSUME n # e PROVE FALSE
      OBVIOUS
    <3>1. d < node[e].bit /\ A[e][d] = Bit(p.addr, d)
      BY <1>8
    <3>2. d \in 0 .. node[e].bit - 1
      BY <1>3, <1>6, <3>1, NodeIs
    <3> QED
      BY <1>6, <1>9, <2>1, <3>1, <3>2
  <2> QED
    BY <1>4, <2>1, <2>2 DEF Down, Goes
<1>14. Placed(n, d, node[e].prefix[1], p, A)
  BY <1>6, <1>7, <1>8, <1>10, <1>11, <1>12, <1>13 DEF Placed
<1> QED
  BY <1>3, <1>5, <1>14 DEF e, d, n

-----------------------------------------------------------------------------
(* The nodes that agree with an address: one of each length.               *)

LEMMA OnlyOne ==
  ASSUME Sound, Shape, Linked, NEW A, Labelled(A), NEW a \in Texts,
         NEW x \in Nodes, NEW y \in Nodes, Agree(A, x, a), Agree(A, y, a), node[x].bit = node[y].bit
  PROVE  x = y
<1>1. head \in Nodes
  BY NodeIs DEF Shape, Nodes
<1>2. PICK V \in SUBSET Nodes : OnWay(V, head, a, A)
  BY <1>1, Way
<1>3. x \in V /\ y \in V
  BY <1>2, Reached
<1> QED
  BY <1>2, <1>3 DEF OnWay

\* Where p does not go to a node of its own length, there is none.
LEMMA Unlike ==
  ASSUME Sound, Shape, Linked, NEW A, Labelled(A), head # 0, NEW p \in Rules \cup {Any},
         NEW n, NEW d, NEW test, Placed(n, d, test, p, A), node[n].bit # d \/ p.len # d,
         NEW x \in Nodes, node[x].bit = p.len, Agree(A, x, p.addr)
  PROVE  FALSE
<1> DEFINE a == p.addr
           q == node[n].parent
<1>1. head \in Nodes /\ a \in Texts /\ p.len \in Nat
  BY RuleIs DEF Shape, Nodes
<1>2. PICK V \in SUBSET Nodes : OnWay(V, head, a, A)
  BY <1>1, Way
<1>3. x \in V /\ head \in V
  BY <1>1, <1>2, Reached DEF OnWay
<1>4. /\ n \in Nodes /\ d \in Nat /\ d <= p.len /\ d <= node[n].bit
      /\ \A k \in 0 .. d - 1 : A[n][k] = Bit(a, k)
      /\ d < node[n].bit /\ d < p.len => A[n][d] # Bit(a, d)
      /\ n = head \/ (n # head /\ q \in Nodes /\ node[q].bit < d)
      /\ node[n].bit = d /\ p.len # d => Below(n, a) = 0
  BY DEF Placed
<1>5. node[n].bit \in Nat /\ node[x].bit \in Nat /\ node[head].bit \in Nat
  BY <1>1, <1>4, NodeIs
<1>6. CASE node[n].bit = d
  <2>1. Agree(A, n, a)
    BY <1>4, <1>6 DEF Agree
  <2>2. n \in V
    BY <1>1, <1>2, <1>4, <2>1, Reached
  <2>3. node[n].bit < node[x].bit
    BY <1>1, <1>4, <1>5, <1>6
  <2>4. Below(n, a) # 0
    BY <1>2, <1>3, <2>2, <2>3 DEF OnWay
  <2> QED
    BY <1>4, <1>6, <2>4
<1>7. CASE d < node[n].bit
  <2>1. n \in V /\ node[n].bit <= node[x].bit
    <3>1. CASE n = head
      BY <1>2, <1>3, <1>5, <3>1 DEF OnWay
    <3>2. CASE n # head
      <4>1. q \in Nodes /\ node[q].bit < d /\ node[q].bit \in Nat /\ n \in {node[q].l, node[q].r}
        BY <1>4, <3>2, NodeIs DEF Linked
      <4>2. /\ \A k \in 0 .. node[q].bit - 1 : A[n][k] = A[q][k]
            /\ A[n][node[q].bit] = IF n = node[q].r THEN 1 ELSE 0
        BY <1>4, <4>1 DEF Labelled
      <4>3. Agree(A, q, a)
        BY <1>4, <4>1, <4>2 DEF Agree
      <4>4. q \in V
        BY <1>1, <1>2, <4>1, <4>3, Reached
      <4>5. A[n][node[q].bit] = Bit(a, node[q].bit) /\ node[q].bit < MaxBits
        BY <1>4, <4>1, NodeIs
      <4>6. Below(q, a) = n
        BY <4>1, <4>2, <4>5 DEF Below
      <4>7. n # 0 /\ node[q].bit < node[x].bit
        BY <1>4, <1>5, <4>1, NodeIs, SMTT(30)
      <4> QED
        BY <1>2, <1>3, <4>4, <4>6, <4>7 DEF OnWay
    <3> QED
      BY <3>1, <3>2
  <2>2. \A k \in 0 .. node[n].bit - 1 : A[n][k] = A[x][k]
    BY <1>2, <1>3, <2>1 DEF OnWay
  <2>3. d < p.len
    BY <1>4, <1>5, <1>7, <2>1
  <2>4. A[n][d] = A[x][d] /\ A[x][d] = Bit(a, d)
    BY <1>4, <1>5, <1>7, <2>2, <2>3 DEF Agree
  <2> QED
    BY <1>4, <1>7, <2>3, <2>4
<1> QED
  BY <1>4, <1>5, <1>6, <1>7

-----------------------------------------------------------------------------
(* What an insertion does to the nodes there were, and the nodes it adds.  *)

Alike(x) ==
  /\ node'[x].bit = node[x].bit /\ node'[x].prefix = node[x].prefix
  /\ node'[x].num = node[x].num /\ node'[x].data = node[x].data
Fresh(x, p) ==
  /\ node'[x].bit = p.len /\ node'[x].prefix = <<p.addr>>
  /\ \A f \in Families : /\ node'[x].num[f] = IF f \in Fams(p) THEN added + 1 ELSE -1
                         /\ node'[x].data[f] = IF f \in Fams(p) THEN Len(rules) + 1 ELSE 0
Empty(x) ==
  node'[x].prefix = None /\ \A f \in Families : node'[x].num[f] = -1 /\ node'[x].data[f] = 0

Grew(p, new, glue) ==
  /\ node' \in Seq(NodeSet) /\ Nodes' = Nodes \cup {new} \cup glue
  /\ new \notin Nodes /\ new \notin glue /\ glue \cap Nodes = {}
  /\ \A x \in Nodes : Alike(x)
  /\ Fresh(new, p) /\ \A x \in glue : Empty(x)
  /\ added' = added + 1

\* No node has the length of p and its bits.
NoneLike(p) ==
  \A x \in Nodes : node[x].prefix # None /\ node[x].bit = p.len =>
    \E k \in 0 .. p.len - 1 : Bit(node[x].prefix[1], k) # Bit(p.addr, k)

\* The rules there were keep their places.
LEMMA RulesKept ==
  ASSUME Sound, Shape, NEW p \in Rules \cup {Any}, rules' = Append(rules, p)
  PROVE  /\ Len(rules) \in Nat /\ Len(rules') = Len(rules) + 1 /\ rules' \in Seq(Rules \cup {Any})
         /\ DOMAIN rules = 1 .. Len(rules) /\ DOMAIN rules' = 1 .. Len(rules) + 1
         /\ rules'[Len(rules) + 1] = p
         /\ \A i \in 1 .. Len(rules) : rules'[i] = rules[i] /\ rules[i] \in Rules \cup {Any}
BY DEF Shape

\* For Numbered, DataFirst and Ruled what counts are these fields.
LEMMA GrewNumbered ==
  ASSUME Sound, Shape, Numbered, NEW p \in Rules \cup {Any}, rules' = Append(rules, p),
         NEW new, NEW glue, Grew(p, new, glue)
  PROVE  Numbered'
<1>1. Len(rules) \in Nat /\ Len(rules') = Len(rules) + 1
  BY RulesKept
<1>2. added \in Nat /\ added' = added + 1
  BY DEF Shape, Grew
<1> SUFFICES ASSUME NEW n \in Nodes', NEW f \in Families
             PROVE  /\ node'[n].num[f] = -1 <=> node'[n].data[f] = 0
                    /\ node'[n].num[f] \in {-1} \cup 1 .. added'
                    /\ node'[n].data[f] \in 0 .. Len(rules')
  BY DEF Numbered
<1>3. CASE n \in Nodes
  <2>1. /\ node[n].num[f] = -1 <=> node[n].data[f] = 0
        /\ node[n].num[f] \in {-1} \cup 1 .. added /\ node[n].data[f] \in 0 .. Len(rules)
    BY <1>3 DEF Numbered
  <2>2. node'[n].num[f] = node[n].num[f] /\ node'[n].data[f] = node[n].data[f]
    BY <1>3 DEF Grew, Alike
  <2> QED
    BY <1>1, <1>2, <2>1, <2>2
<1>4. CASE n = new
  <2>1. /\ node'[n].num[f] = IF f \in Fams(p) THEN added + 1 ELSE -1
        /\ node'[n].data[f] = IF f \in Fams(p) THEN Len(rules) + 1 ELSE 0
    BY <1>4 DEF Grew, Fresh
  <2> QED
    BY <1>1, <1>2, <2>1
<1>5. CASE n \in glue
  <2>1. node'[n].num[f] = -1 /\ node'[n].data[f] = 0
    BY <1>5 DEF Grew, Empty
  <2> QED
    BY <1>1, <1>2, <2>1
<1> QED
  BY <1>3, <1>4, <1>5 DEF Grew

FitsThen(i, f, n) ==
  /\ f \in Fams(rules'[i]) /\ rules'[i].len = node'[n].bit
  /\ \A k \in 0 .. node'[n].bit - 1 : Bit(rules'[i].addr, k) = Bit(node'[n].prefix[1], k)

LEMMA NextRules ==
  /\ (\A n \in Nodes', f \in Families : node'[n].data[f] # 0 =>
        /\ FitsThen(node'[n].data[f], f, n)
        /\ \A j \in 1 .. node'[n].data[f] - 1 : ~FitsThen(j, f, n)) => DataFirst'
  /\ (\A i \in DOMAIN rules' : \A f \in Fams(rules'[i]) :
        \E n \in Nodes' : node'[n].prefix # None /\ node'[n].data[f] # 0 /\ FitsThen(i, f, n))
      => Ruled'
<1>1. \A i, f, n : FitsThen(i, f, n) <=>
        /\ f \in Fams(rules'[i]) /\ rules'[i].len = node'[n].bit
        /\ \A k \in 0 .. node'[n].bit - 1 : Bit(rules'[i].addr, k) = Bit(node'[n].prefix[1], k)
  BY DEF FitsThen
<1> QED
  BY <1>1 DEF DataFirst, Ruled, Fits

LEMMA GrewDataFirst ==
  ASSUME Sound, Shape, Numbered, DataFirst, Ruled, NEW p \in Rules \cup {Any},
         rules' = Append(rules, p), NEW new, NEW glue, Grew(p, new, glue), NoneLike(p)
  PROVE  DataFirst' /\ Ruled'
<1>1. /\ Len(rules) \in Nat /\ DOMAIN rules = 1 .. Len(rules) /\ DOMAIN rules' = 1 .. Len(rules) + 1
      /\ rules'[Len(rules) + 1] = p /\ \A i \in 1 .. Len(rules) : rules'[i] = rules[i]
  BY RulesKept
<1>2. \A i \in 1 .. Len(rules) : \A f \in Families, x \in Nodes : FitsThen(i, f, x) <=> Fits(i, f, x)
  BY <1>1 DEF Fits, FitsThen, Grew, Alike
<1>3. \A i \in 1 .. Len(rules) : Fams(rules[i]) \subseteq Families
  BY RulesKept, RuleIs
<1>4. p.len \in Nat /\ Fams(p) \subseteq Families
  BY RuleIs
<1>5. \A f \in Fams(p) : FitsThen(Len(rules) + 1, f, new)
  BY <1>1, <1>4 DEF Fits, FitsThen, Grew, Fresh
<1>6. \A i \in 1 .. Len(rules), f \in Families : ~FitsThen(i, f, new)
  <2> SUFFICES ASSUME NEW i \in 1 .. Len(rules), NEW f \in Families, FitsThen(i, f, new)
               PROVE  FALSE
    OBVIOUS
  <2>1. /\ f \in Fams(rules[i]) /\ rules[i].len = p.len
        /\ \A k \in 0 .. p.len - 1 : Bit(rules[i].addr, k) = Bit(p.addr, k)
    BY <1>1 DEF Fits, FitsThen, Grew, Fresh
  <2>2. PICK y \in Nodes : node[y].prefix # None /\ node[y].data[f] # 0 /\ Fits(i, f, y)
    BY <1>1, <2>1 DEF Ruled
  <2>3. /\ node[y].bit = p.len
        /\ \A k \in 0 .. p.len - 1 : Bit(rules[i].addr, k) = Bit(node[y].prefix[1], k)
    BY <2>1, <2>2 DEF Fits
  <2> QED
    BY <2>1, <2>2, <2>3 DEF NoneLike
<1>7. DataFirst'
  <2> SUFFICES ASSUME NEW n \in Nodes', NEW f \in Families, node'[n].data[f] # 0
               PROVE  /\ FitsThen(node'[n].data[f], f, n)
                      /\ \A j \in 1 .. node'[n].data[f] - 1 : ~FitsThen(j, f, n)
    BY NextRules
  <2>1. CASE n \in Nodes
    <3>1. node'[n].data[f] = node[n].data[f]
      BY <2>1 DEF Grew, Alike
    <3>2. node[n].data[f] \in 1 .. Len(rules)
      BY <1>1, <2>1, <3>1 DEF Numbered
    <3>3. /\ Fits(node[n].data[f], f, n)
          /\ \A j \in 1 .. node[n].data[f] - 1 : ~Fits(j, f, n)
      BY <2>1, <3>1 DEF DataFirst
    <3>4. FitsThen(node[n].data[f], f, n)
      BY <1>2, <2>1, <3>2, <3>3 DEF Fits, FitsThen, Grew, Alike
    <3> QED
      BY <1>1, <1>2, <2>1, <3>1, <3>2, <3>3, <3>4
  <2>2. CASE n = new
    <3>1. f \in Fams(p) /\ node'[n].data[f] = Len(rules) + 1
      BY <2>2 DEF Grew, Fresh
    <3> QED
      BY <1>1, <1>5, <1>6, <2>2, <3>1
  <2>3. CASE n \in glue
    BY <2>3 DEF Grew, Empty
  <2> QED
    BY <2>1, <2>2, <2>3 DEF Grew
<1>8. Ruled'
  <2> SUFFICES ASSUME NEW i \in DOMAIN rules', NEW f \in Fams(rules'[i])
               PROVE  \E n \in Nodes' : /\ node'[n].prefix # None /\ node'[n].data[f] # 0
                                        /\ FitsThen(i, f, n)
    BY NextRules
  <2>1. CASE i \in 1 .. Len(rules)
    <3>1. f \in Fams(rules[i]) /\ f \in Families
      BY <1>1, <1>3, <2>1
    <3>2. PICK y \in Nodes : node[y].prefix # None /\ node[y].data[f] # 0 /\ Fits(i, f, y)
      BY <1>1, <2>1, <3>1 DEF Ruled
    <3>3. FitsThen(i, f, y)
      BY <1>2, <2>1, <3>1, <3>2
    <3>4. y \in Nodes' /\ node'[y].prefix # None /\ node'[y].data[f] # 0
      BY <3>2 DEF Grew, Alike
    <3> QED
      BY <3>3, <3>4
  <2>2. CASE i = Len(rules) + 1
    <3>1. f \in Fams(p) /\ f \in Families
      BY <1>1, <1>4, <2>2
    <3>2. new \in Nodes' /\ node'[new].prefix # None /\ node'[new].data[f] # 0
      BY <1>1, <3>1 DEF Grew, Fresh, None
    <3> QED
      BY <1>5, <2>2, <3>1, <3>2
  <2> QED
    BY <1>1, <2>1, <2>2
<1> QED
  BY <1>7, <1>8

\* p set at a node that has its length and, as far as it has bits, its bits.
Filled(p, n) ==
  /\ node' \in Seq(NodeSet) /\ Nodes' = Nodes /\ n \in Nodes /\ node[n].bit = p.len
  /\ \A x \in Nodes : x # n => Alike(x)
  /\ node'[n].bit = node[n].bit
  /\ node'[n].prefix = IF node[n].prefix = None THEN <<p.addr>> ELSE node[n].prefix
  /\ \A f \in Families :
       /\ node'[n].num[f] = IF f \in Fams(p) /\ node[n].num[f] = -1 THEN added + 1 ELSE node[n].num[f]
       /\ node'[n].data[f] = IF f \in Fams(p) /\ node[n].data[f] = 0 THEN Len(rules) + 1
                             ELSE node[n].data[f]
  /\ added' \in {added, added + 1}
  /\ added' = added => \A f \in Fams(p) : node[n].num[f] # -1

LEMMA FilledNumbered ==
  ASSUME Sound, Shape, Numbered, NEW p \in Rules \cup {Any}, rules' = Append(rules, p),
         NEW n, Filled(p, n)
  PROVE  Numbered'
<1>1. Len(rules) \in Nat /\ Len(rules') = Len(rules) + 1
  BY RulesKept
<1>2. added \in Nat /\ added' \in {added, added + 1}
  BY DEF Shape, Filled
<1> SUFFICES ASSUME NEW x \in Nodes', NEW f \in Families
             PROVE  /\ node'[x].num[f] = -1 <=> node'[x].data[f] = 0
                    /\ node'[x].num[f] \in {-1} \cup 1 .. added'
                    /\ node'[x].data[f] \in 0 .. Len(rules')
  BY DEF Numbered
<1>3. x \in Nodes
  BY DEF Filled
<1>4. /\ node[x].num[f] = -1 <=> node[x].data[f] = 0
      /\ node[x].num[f] \in {-1} \cup 1 .. added /\ node[x].data[f] \in 0 .. Len(rules)
  BY <1>3 DEF Numbered
<1>5. CASE x # n
  <2>1. node'[x].num[f] = node[x].num[f] /\ node'[x].data[f] = node[x].data[f]
    BY <1>3, <1>5 DEF Filled, Alike
  <2> QED
    BY <1>1, <1>2, <1>4, <2>1
<1>6. CASE x = n
  <2>1. /\ node'[x].num[f] = IF f \in Fams(p) /\ node[x].num[f] = -1 THEN added + 1 ELSE node[x].num[f]
        /\ node'[x].data[f] = IF f \in Fams(p) /\ node[x].data[f] = 0 THEN Len(rules) + 1
                              ELSE node[x].data[f]
        /\ added' = added => (f \in Fams(p) => node[x].num[f] # -1)
    BY <1>6 DEF Filled
  <2>2. CASE f \in Fams(p) /\ node[x].num[f] = -1
    <3>1. added' = added + 1 /\ node'[x].num[f] = added + 1 /\ node'[x].data[f] = Len(rules) + 1
      BY <1>2, <1>4, <2>1, <2>2
    <3> QED
      BY <1>1, <1>2, <3>1
  <2>3. CASE ~(f \in Fams(p) /\ node[x].num[f] = -1)
    <3>1. node'[x].num[f] = node[x].num[f] /\ node'[x].data[f] = node[x].data[f]
      BY <1>4, <2>1, <2>3
    <3> QED
      BY <1>1, <1>2, <1>4, <3>1
  <2> QED
    BY <2>2, <2>3
<1> QED
  BY <1>5, <1>6

LEMMA FilledDataFirst ==
  ASSUME Sound, Shape, Linked, GlueRight, Numbered, DataFirst, Ruled, NEW A, Labelled(A),
         NEW p \in Rules \cup {Any}, rules' = Append(rules, p),
         NEW n, Filled(p, n), Agree(A, n, p.addr)
  PROVE  DataFirst' /\ Ruled'
<1>1. /\ Len(rules) \in Nat /\ DOMAIN rules = 1 .. Len(rules) /\ DOMAIN rules' = 1 .. Len(rules) + 1
      /\ rules'[Len(rules) + 1] = p /\ \A i \in 1 .. Len(rules) : rules'[i] = rules[i]
  BY RulesKept
<1>2. /\ n \in Nodes /\ node[n].bit = p.len /\ node'[n].bit = p.len
      /\ node[n].prefix = None => node'[n].prefix = <<p.addr>>
      /\ node[n].prefix # None => node'[n].prefix = node[n].prefix
  BY DEF Filled
<1>3. \A i \in 1 .. Len(rules) : \A f, x : x \in Nodes /\ node[x].prefix # None =>
        (FitsThen(i, f, x) <=> Fits(i, f, x))
  <2> SUFFICES ASSUME NEW i \in 1 .. Len(rules), NEW f, NEW x \in Nodes, node[x].prefix # None
               PROVE  FitsThen(i, f, x) <=> Fits(i, f, x)
    OBVIOUS
  <2>1. rules'[i] = rules[i]
    BY <1>1
  <2>2. node'[x].prefix = node[x].prefix /\ node'[x].bit = node[x].bit
    BY <1>2 DEF Filled, Alike
  <2> QED
    BY <2>1, <2>2 DEF FitsThen, Fits
<1>4. /\ \A i \in 1 .. Len(rules) : Fams(rules[i]) \subseteq Families /\ rules[i].addr \in Texts
      /\ p.len \in Nat /\ Fams(p) \subseteq Families /\ p.addr \in Texts
  BY RulesKept, RuleIs
<1>5. \A k \in 0 .. p.len - 1 : Bit(node'[n].prefix[1], k) = Bit(p.addr, k)
  <2>1. CASE node[n].prefix = None
    BY <1>2, <2>1
  <2>2. CASE node[n].prefix # None
    <3>1. \A k \in 0 .. p.len - 1 : Bit(node[n].prefix[1], k) = A[n][k] /\ A[n][k] = Bit(p.addr, k)
      BY <1>2, <2>2 DEF Labelled, Agree
    <3> QED
      BY <1>2, <2>2, <3>1
  <2> QED
    BY <2>1, <2>2
<1>6. \A f \in Fams(p) : FitsThen(Len(rules) + 1, f, n)
  BY <1>1, <1>2, <1>5 DEF FitsThen
<1>7. ASSUME NEW i \in 1 .. Len(rules), NEW f \in Families, FitsThen(i, f, n)
      PROVE  node[n].data[f] # 0
  <2>1. /\ f \in Fams(rules[i]) /\ rules[i].len = p.len
        /\ \A k \in 0 .. p.len - 1 : Bit(rules[i].addr, k) = Bit(p.addr, k)
    BY <1>1, <1>2, <1>5, <1>7 DEF FitsThen
  <2>2. PICK y \in Nodes : node[y].prefix # None /\ node[y].data[f] # 0 /\ Fits(i, f, y)
    BY <1>1, <2>1 DEF Ruled
  <2>3. /\ node[y].bit = p.len
        /\ \A k \in 0 .. p.len - 1 : Bit(rules[i].addr, k) = Bit(node[y].prefix[1], k)
    BY <2>1, <2>2 DEF Fits
  <2>4. Agree(A, y, p.addr)
    BY <2>1, <2>2, <2>3 DEF Labelled, Agree
  <2>5. y = n
    BY <1>2, <1>4, <2>3, <2>4, OnlyOne
  <2> QED
    BY <2>2, <2>5
<1>8. DataFirst'
  <2> SUFFICES ASSUME NEW x \in Nodes', NEW f \in Families, node'[x].data[f] # 0
               PROVE  /\ FitsThen(node'[x].data[f], f, x)
                      /\ \A j \in 1 .. node'[x].data[f] - 1 : ~FitsThen(j, f, x)
    BY NextRules
  <2>1. x \in Nodes
    BY DEF Filled
  <2>2. CASE node[x].data[f] # 0
    <3>1. node'[x].data[f] = node[x].data[f]
      BY <2>1, <2>2 DEF Filled, Alike
    <3>2. node[x].data[f] \in 1 .. Len(rules) /\ node[x].prefix # None
      BY <1>1, <2>1, <2>2 DEF Numbered, GlueRight
    <3>3. /\ Fits(node[x].data[f], f, x)
          /\ \A j \in 1 .. node[x].data[f] - 1 : ~Fits(j, f, x)
      BY <2>1, <2>2 DEF DataFirst
    <3>4. FitsThen(node[x].data[f], f, x)
      BY <1>3, <2>1, <3>2, <3>3
    <3>5. \A j \in 1 .. node[x].data[f] - 1 : j \in 1 .. Len(rules) /\ ~FitsThen(j, f, x)
      BY <1>1, <1>3, <2>1, <3>2, <3>3
    <3> QED
      BY <3>1, <3>4, <3>5
  <2>3. CASE node[x].data[f] = 0
    <3>1. x = n
      BY <2>1, <2>3 DEF Filled, Alike
    <3>2. f \in Fams(p) /\ node'[n].data[f] = Len(rules) + 1
      BY <2>3, <3>1 DEF Filled
    <3>3. FitsThen(Len(rules) + 1, f, n) /\ \A j \in 1 .. Len(rules) : ~FitsThen(j, f, n)
      BY <1>6, <1>7, <2>3, <3>1, <3>2
    <3> QED
      BY <1>1, <3>1, <3>2, <3>3
  <2> QED
    BY <2>2, <2>3
<1>9. Ruled'
  <2> SUFFICES ASSUME NEW i \in DOMAIN rules', NEW f \in Fams(rules'[i])
               PROVE  \E x \in Nodes' : /\ node'[x].prefix # None /\ node'[x].data[f] # 0
                                        /\ FitsThen(i, f, x)
    BY NextRules
  <2>1. CASE i \in 1 .. Len(rules)
    <3>1. f \in Fams(rules[i]) /\ f \in Families
      BY <1>1, <1>4, <2>1
    <3>2. PICK y \in Nodes : node[y].prefix # None /\ node[y].data[f] # 0 /\ Fits(i, f, y)
      BY <1>1, <2>1, <3>1 DEF Ruled
    <3>3. FitsThen(i, f, y)
      BY <1>3, <2>1, <3>2
    <3>4. y \in Nodes' /\ node'[y].prefix # None /\ node'[y].data[f] # 0
      BY <3>1, <3>2 DEF Filled, Alike
    <3> QED
      BY <3>3, <3>4
  <2>2. CASE i = Len(rules) + 1
    <3>1. f \in Fams(p) /\ f \in Families
      BY <1>1, <1>4, <2>2
    <3>2. n \in Nodes' /\ node'[n].prefix # None
      BY <1>2 DEF Filled, None
    <3>3. node'[n].data[f] # 0
      BY <1>1, <3>1 DEF Filled
    <3> QED
      BY <1>6, <2>2, <3>1, <3>2, <3>3
  <2> QED
    BY <1>1, <2>1, <2>2
<1> QED
  BY <1>8, <1>9

-----------------------------------------------------------------------------
(* The links and the labels after an insertion.                            *)

\* Bits and prefixes of the nodes there were stay.
Stays == \A x \in Nodes : node'[x].bit = node[x].bit /\ node'[x].prefix = node[x].prefix

\* A leaf hung below n on side b, where nothing was.
Hung(n, leaf, b, p) ==
  /\ n \in Nodes /\ leaf \in Nat \ {0} /\ leaf \notin Nodes /\ Nodes' = Nodes \cup {leaf}
  /\ Len(node') = leaf /\ b \in {0, 1}
  /\ b = 1 => node[n].r = 0
  /\ b = 0 => node[n].l = 0
  /\ \A x \in Nodes :
       /\ node'[x].l = (IF x = n /\ b = 0 THEN leaf ELSE node[x].l)
       /\ node'[x].r = (IF x = n /\ b = 1 THEN leaf ELSE node[x].r)
       /\ node'[x].parent = node[x].parent
  /\ node'[leaf].bit = p.len /\ node'[leaf].prefix = <<p.addr>>
  /\ node'[leaf].l = 0 /\ node'[leaf].r = 0 /\ node'[leaf].parent = n
  /\ head' = head

LEMMA HungLinked ==
  ASSUME Sound, Shape, Linked, GlueRight, NEW p \in Rules \cup {Any},
         NEW n, NEW leaf, NEW b, Hung(n, leaf, b, p), Stays, node[n].bit < p.len
  PROVE  Linked'
<1>1. /\ n \in Nodes /\ leaf \notin Nodes /\ Nodes' = Nodes \cup {leaf} /\ leaf \in Nat \ {0}
      /\ b \in {0, 1} /\ 0 \notin Nodes /\ Len(node') = leaf
  BY NodeIs DEF Hung
<1>2. DOMAIN node = 1 .. Len(node) /\ Len(node) \in Nat /\ Nodes = 1 .. Len(node)
  BY DEF Shape, Nodes
<1>3. Len(node) < leaf
  BY <1>1, <1>2
<1> SUFFICES ASSUME NEW x \in Nodes'
             PROVE  /\ node'[x].l \in 0 .. Len(node') /\ node'[x].r \in 0 .. Len(node')
                    /\ x = head' => node'[x].parent = 0
                    /\ x # head' => /\ node'[x].parent \in Nodes'
                                    /\ x \in {node'[node'[x].parent].l, node'[node'[x].parent].r}
                    /\ \A c \in {node'[x].l, node'[x].r} :
                         c # 0 => node'[c].parent = x /\ node'[c].bit > node'[x].bit
                    /\ node'[x].l # 0 => node'[x].l # node'[x].r
  BY DEF Linked
<1>4. CASE x \in Nodes
  <2>1. /\ node[x].l \in 0 .. Len(node) /\ node[x].r \in 0 .. Len(node)
        /\ x = head => node[x].parent = 0
        /\ x # head => node[x].parent \in Nodes /\ x \in {node[node[x].parent].l, node[node[x].parent].r}
        /\ \A c \in {node[x].l, node[x].r} : c # 0 => node[c].parent = x /\ node[c].bit > node[x].bit
        /\ node[x].l # 0 => node[x].l # node[x].r
    BY <1>4 DEF Linked
  <2>2. /\ node'[x].l = IF x = n /\ b = 0 THEN leaf ELSE node[x].l
        /\ node'[x].r = IF x = n /\ b = 1 THEN leaf ELSE node[x].r
        /\ node'[x].parent = node[x].parent /\ head' = head
        /\ x = n => (b = 1 => node[x].r = 0) /\ (b = 0 => node[x].l = 0)
    BY <1>4 DEF Hung
  <2>3. node'[x].l \in 0 .. Len(node') /\ node'[x].r \in 0 .. Len(node')
    BY <1>1, <1>2, <1>3, <2>1, <2>2
  <2>4. node'[x].l # 0 => node'[x].l # node'[x].r
    BY <1>1, <1>2, <1>3, <2>1, <2>2
  <2>5. ASSUME x # head
        PROVE  x \in {node'[node'[x].parent].l, node'[node'[x].parent].r}
    <3> DEFINE q == node[x].parent
    <3>1. q \in Nodes /\ x \in {node[q].l, node[q].r} /\ x # 0
      BY <1>1, <1>4, <2>1, <2>5
    <3>2. /\ node'[q].l = IF q = n /\ b = 0 THEN leaf ELSE node[q].l
          /\ node'[q].r = IF q = n /\ b = 1 THEN leaf ELSE node[q].r
          /\ q = n => (b = 1 => node[q].r = 0) /\ (b = 0 => node[q].l = 0)
      BY <3>1 DEF Hung
    <3> QED
      BY <2>2, <3>1, <3>2
  <2>6. ASSUME NEW c \in {node'[x].l, node'[x].r}, c # 0
        PROVE  node'[c].parent = x /\ node'[c].bit > node'[x].bit
    <3>0. node'[x].bit = node[x].bit
      BY <1>4 DEF Stays
    <3>1. CASE c = leaf
      <4>1. x = n
        BY <1>2, <1>3, <2>1, <2>2, <2>6, <3>1
      <4> QED
        BY <3>0, <3>1, <4>1 DEF Hung
    <3>2. CASE c # leaf
      <4>1. c \in {node[x].l, node[x].r}
        BY <2>2, <2>6, <3>2
      <4>2. c \in Nodes
        BY <1>2, <2>1, <2>6, <4>1
      <4>3. node'[c].parent = node[c].parent /\ node'[c].bit = node[c].bit
        BY <4>2 DEF Hung, Stays
      <4> QED
        BY <2>1, <2>6, <3>0, <4>1, <4>3
    <3> QED
      BY <3>1, <3>2
  <2>7. x = head' => node'[x].parent = 0
    BY <2>1, <2>2
  <2>8. x # head' => node'[x].parent \in Nodes'
    BY <1>1, <2>1, <2>2
  <2> QED
    BY <2>2, <2>3, <2>4, <2>5, <2>6, <2>7, <2>8
<1>5. CASE x = leaf
  <2>1. /\ node'[x].l = 0 /\ node'[x].r = 0 /\ node'[x].parent = n /\ head' = head
        /\ n \in {node'[x].parent} /\ (b = 0 => node'[n].l = leaf) /\ (b = 1 => node'[n].r = leaf)
    BY <1>1, <1>5 DEF Hung
  <2>2. head # leaf
    BY <1>2, <1>3 DEF Shape
  <2> QED
    BY <1>1, <1>5, <2>1, <2>2
<1> QED
  BY <1>1, <1>4, <1>5

\* The bits of p as a label.
Route(p) == [k \in 0 .. MaxBits - 1 |-> Bit(p.addr, k)]

LEMMA RouteIs ==
  ASSUME Sound, NEW p \in Rules \cup {Any}
  PROVE  /\ Route(p) \in Labels /\ MaxBits \in Nat /\ p.len \in Nat /\ p.len <= MaxBits
         /\ \A k \in 0 .. p.len - 1 : Route(p)[k] = Bit(p.addr, k)
<1>1. p.addr \in Texts /\ MaxBits \in Nat /\ p.len \in Nat /\ p.len <= MaxBits
  BY RuleIs DEF Sound, MaxBits
<1>2. \A k \in 0 .. MaxBits - 1 : Bit(p.addr, k) \in {0, 1}
  BY <1>1, BitIs
<1>3. \A k \in 0 .. p.len - 1 : k \in 0 .. MaxBits - 1
  BY <1>1
<1> QED
  BY <1>1, <1>2, <1>3 DEF Route, Labels

LabelledThen(B) ==
  /\ B \in [Nodes' -> Labels]
  /\ \A n \in Nodes' : node'[n].prefix # None =>
       \A k \in 0 .. node'[n].bit - 1 : Bit(node'[n].prefix[1], k) = B[n][k]
  /\ \A n, c \in Nodes' : c \in {node'[n].l, node'[n].r} =>
       /\ \A k \in 0 .. node'[n].bit - 1 : B[c][k] = B[n][k]
       /\ B[c][node'[n].bit] = IF c = node'[n].r THEN 1 ELSE 0

LEMMA HungLabelled ==
  ASSUME Sound, Shape, Linked, NEW A, Labelled(A), NEW p \in Rules \cup {Any},
         NEW n, NEW leaf, NEW b, Hung(n, leaf, b, p), Stays, node[n].bit < p.len,
         Agree(A, n, p.addr), b = Bit(p.addr, node[n].bit)
  PROVE  \E B : LabelledThen(B)
<1> DEFINE B == [x \in Nodes' |-> IF x \in Nodes THEN A[x] ELSE Route(p)]
<1>1. /\ n \in Nodes /\ leaf \notin Nodes /\ Nodes' = Nodes \cup {leaf} /\ leaf \in Nat \ {0}
      /\ b \in {0, 1} /\ 0 \notin Nodes
  BY NodeIs DEF Hung
<1>2. Nodes = 1 .. Len(node) /\ Len(node) \in Nat
  BY DEF Shape, Nodes
<1>3. B \in [Nodes' -> Labels]
  BY RouteIs DEF Labelled
<1>4. (\A x \in Nodes : B[x] = A[x]) /\ B[leaf] = Route(p)
  BY <1>1
<1> HIDE DEF B
<1>5. ASSUME NEW x \in Nodes', node'[x].prefix # None, NEW k \in 0 .. node'[x].bit - 1
      PROVE  Bit(node'[x].prefix[1], k) = B[x][k]
  <2>1. CASE x \in Nodes
    BY <1>4, <1>5, <2>1 DEF Stays, Labelled
  <2>2. CASE x = leaf
    <3>1. node'[x].bit = p.len /\ node'[x].prefix = <<p.addr>>
      BY <2>2 DEF Hung
    <3> QED
      BY <1>4, <1>5, <2>2, <3>1, RouteIs
  <2> QED
    BY <1>1, <2>1, <2>2
<1>6. ASSUME NEW x \in Nodes', NEW c \in Nodes', c \in {node'[x].l, node'[x].r}
      PROVE  /\ \A k \in 0 .. node'[x].bit - 1 : B[c][k] = B[x][k]
             /\ B[c][node'[x].bit] = IF c = node'[x].r THEN 1 ELSE 0
  <2>1. x \in Nodes
    <3>1. x # leaf
      BY <1>1, <1>6 DEF Hung
    <3> QED
      BY <1>1, <3>1
  <2>2. /\ node'[x].l = IF x = n /\ b = 0 THEN leaf ELSE node[x].l
        /\ node'[x].r = IF x = n /\ b = 1 THEN leaf ELSE node[x].r
        /\ node'[x].bit = node[x].bit
    BY <2>1 DEF Hung, Stays
  <2>3. node[x].l \in 0 .. Len(node) /\ node[x].r \in 0 .. Len(node)
    BY <2>1 DEF Linked
  <2>4. leaf \notin 0 .. Len(node)
    BY <1>1, <1>2
  <2>5. CASE c = leaf
    <3>1. x = n /\ (c = node'[x].r <=> b = 1)
      BY <2>2, <2>3, <2>4, <1>6, <2>5, <1>1
    <3>2. \A k \in 0 .. node[n].bit - 1 : Route(p)[k] = A[n][k]
      BY <1>1, NodeIs, RouteIs DEF Agree
    <3>3. Route(p)[node[n].bit] = b
      BY <1>1, NodeIs, RouteIs, SMTT(30)
    <3> QED
      BY <1>1, <1>4, <2>2, <2>5, <3>1, <3>2, <3>3
  <2>6. CASE c # leaf
    <3>1. c \in Nodes /\ c \in {node[x].l, node[x].r}
      BY <1>1, <1>6, <2>2, <2>6
    <3>2. c = node'[x].r <=> c = node[x].r
      <4>1. CASE x = n /\ b = 1
        <5>1. node[x].r = 0
          BY <4>1 DEF Hung
        <5> QED
          BY <1>1, <2>2, <2>6, <3>1, <4>1, <5>1
      <4>2. CASE ~(x = n /\ b = 1)
        BY <2>2, <4>2
      <4> QED
        BY <4>1, <4>2
    <3>3. /\ \A k \in 0 .. node[x].bit - 1 : A[c][k] = A[x][k]
          /\ A[c][node[x].bit] = IF c = node[x].r THEN 1 ELSE 0
      BY <2>1, <3>1 DEF Labelled
    <3> QED
      BY <1>4, <2>1, <2>2, <3>1, <3>2, <3>3
  <2> QED
    BY <2>5, <2>6
<1>7. LabelledThen(B)
  BY <1>3, <1>5, <1>6 DEF LabelledThen
<1> QED
  BY <1>7

\* Node g put in the place of n, which hangs below it on side b, with a leaf on the other
\* side unless leaf is 0.
Grafted(n, g, leaf, d, b, p) ==
  /\ n \in Nodes /\ g \in Nat \ {0} /\ g \notin Nodes /\ leaf \in Nat /\ leaf \notin Nodes
  /\ leaf # g /\ Nodes' = Nodes \cup {g} \cup ({leaf} \ {0}) /\ Nodes' = 1 .. Len(node')
  /\ Len(node') \in Nat /\ b \in {0, 1}
  /\ \A x \in Nodes :
       /\ node'[x].l = (IF node[x].l = n THEN g ELSE node[x].l)
       /\ node'[x].r = (IF node[x].r = n THEN g ELSE node[x].r)
       /\ node'[x].parent = (IF x = n THEN g ELSE node[x].parent)
  /\ node'[g].bit = d /\ node'[g].parent = node[n].parent
  /\ node'[g].l = (IF b = 1 THEN leaf ELSE n) /\ node'[g].r = (IF b = 1 THEN n ELSE leaf)
  /\ leaf = 0 => node'[g].prefix = <<p.addr>> /\ d = p.len
  /\ leaf # 0 => /\ node'[g].prefix = None
                 /\ node'[leaf].bit = p.len /\ node'[leaf].prefix = <<p.addr>>
                 /\ node'[leaf].l = 0 /\ node'[leaf].r = 0 /\ node'[leaf].parent = g
  /\ head' = IF n = head THEN g ELSE head

LEMMA GraftedLinked ==
  ASSUME Sound, Shape, Linked, NEW p \in Rules \cup {Any},
         NEW n, NEW g, NEW leaf, NEW d \in Nat, NEW b, Grafted(n, g, leaf, d, b, p), Stays,
         d < node[n].bit, leaf # 0 => d < p.len, n # head => node[node[n].parent].bit < d
  PROVE  Linked'
<1>1. /\ n \in Nodes /\ g \in Nat \ {0} /\ g \notin Nodes /\ leaf \in Nat /\ leaf \notin Nodes
      /\ leaf # g /\ Nodes' = Nodes \cup {g} \cup ({leaf} \ {0}) /\ Nodes' = 1 .. Len(node')
      /\ Len(node') \in Nat /\ b \in {0, 1} /\ 0 \notin Nodes
  BY NodeIs DEF Grafted
<1>2. Nodes = 1 .. Len(node) /\ Len(node) \in Nat
  BY DEF Shape, Nodes
<1>3. /\ \A c \in 0 .. Len(node) : c = 0 \/ c \in Nodes
      /\ \A c \in Nodes' \cup {0} : c \in 0 .. Len(node')
  BY <1>1, <1>2
<1>4. head \in Nodes
  BY <1>1, <1>2 DEF Shape, Nodes
<1> SUFFICES ASSUME NEW x \in Nodes'
             PROVE  /\ node'[x].l \in 0 .. Len(node') /\ node'[x].r \in 0 .. Len(node')
                    /\ x = head' => node'[x].parent = 0
                    /\ x # head' => /\ node'[x].parent \in Nodes'
                                    /\ x \in {node'[node'[x].parent].l, node'[node'[x].parent].r}
                    /\ \A c \in {node'[x].l, node'[x].r} :
                         c # 0 => node'[c].parent = x /\ node'[c].bit > node'[x].bit
                    /\ node'[x].l # 0 => node'[x].l # node'[x].r
  BY DEF Linked
<1>5. CASE x \in Nodes
  <2>1. /\ node[x].l \in 0 .. Len(node) /\ node[x].r \in 0 .. Len(node)
        /\ x = head => node[x].parent = 0
        /\ x # head => node[x].parent \in Nodes /\ x \in {node[node[x].parent].l, node[node[x].parent].r}
        /\ \A c \in {node[x].l, node[x].r} : c # 0 => node[c].parent = x /\ node[c].bit > node[x].bit
        /\ node[x].l # 0 => node[x].l # node[x].r
    BY <1>5 DEF Linked
  <2>2. /\ node'[x].l = IF node[x].l = n THEN g ELSE node[x].l
        /\ node'[x].r = IF node[x].r = n THEN g ELSE node[x].r
        /\ node'[x].parent = IF x = n THEN g ELSE node[x].parent
        /\ head' = IF n = head THEN g ELSE head
    BY <1>5 DEF Grafted
  <2>3. /\ node[x].l = 0 \/ node[x].l \in Nodes
        /\ node[x].r = 0 \/ node[x].r \in Nodes
    BY <1>3, <2>1
  <2>4. node'[x].l \in Nodes' \cup {0} /\ node'[x].r \in Nodes' \cup {0}
    BY <1>1, <2>2, <2>3
  <2>5. node'[x].l # 0 => node'[x].l # node'[x].r
    BY <1>1, <2>1, <2>2, <2>3
  <2>6. x # head'
        => /\ node'[x].parent \in Nodes'
           /\ x \in {node'[node'[x].parent].l, node'[node'[x].parent].r}
    <3>1. CASE x = n
      <4>1. node'[g].l = n \/ node'[g].r = n
        BY <1>1 DEF Grafted
      <4> QED
        BY <1>1, <2>2, <3>1, <4>1
    <3>2. CASE x # n
      <4> SUFFICES ASSUME x # head'
                   PROVE  /\ node'[x].parent \in Nodes'
                          /\ x \in {node'[node'[x].parent].l, node'[node'[x].parent].r}
        OBVIOUS
      <4>1. x # head
        BY <2>2, <3>2
      <4> DEFINE q == node[x].parent
      <4>2. q \in Nodes /\ x \in {node[q].l, node[q].r} /\ node'[x].parent = q
        BY <2>1, <2>2, <3>2, <4>1
      <4>3. /\ node'[q].l = IF node[q].l = n THEN g ELSE node[q].l
            /\ node'[q].r = IF node[q].r = n THEN g ELSE node[q].r
        BY <4>2 DEF Grafted
      <4>4. x \in {node'[q].l, node'[q].r}
        BY <3>2, <4>2, <4>3
      <4> QED
        BY <1>1, <4>2, <4>4
    <3> QED
      BY <3>1, <3>2
  <2>7. ASSUME NEW c \in {node'[x].l, node'[x].r}, c # 0
        PROVE  node'[c].parent = x /\ node'[c].bit > node'[x].bit
    <3>0. node'[x].bit = node[x].bit
      BY <1>5 DEF Stays
    <3>1. CASE c = g
      <4>1. n \in {node[x].l, node[x].r}
        BY <1>1, <2>2, <2>3, <2>7, <3>1
      <4>2. node[n].parent = x /\ n # head
        BY <1>1, <1>5, <2>1, <4>1, SMTT(30) DEF Linked
      <4> QED
        BY <3>0, <3>1, <4>2 DEF Grafted
    <3>2. CASE c # g
      <4>1. c \in {node[x].l, node[x].r} /\ c # n
        BY <2>2, <2>7, <3>2
      <4>2. c \in Nodes
        BY <2>3, <2>7, <4>1
      <4>3. node'[c].parent = node[c].parent /\ node'[c].bit = node[c].bit
        BY <4>1, <4>2 DEF Grafted, Stays
      <4> QED
        BY <2>1, <2>7, <3>0, <4>1, <4>3
    <3> QED
      BY <3>1, <3>2
  <2>8. x = head' => node'[x].parent = 0
    BY <1>1, <1>5, <2>1, <2>2
  <2> QED
    BY <1>3, <2>4, <2>5, <2>6, <2>7, <2>8
<1>6. CASE x = g
  <2>1. /\ node'[g].bit = d /\ node'[g].parent = node[n].parent
        /\ node'[g].l = (IF b = 1 THEN leaf ELSE n) /\ node'[g].r = (IF b = 1 THEN n ELSE leaf)
        /\ node'[n].parent = g /\ node'[n].bit = node[n].bit
        /\ leaf # 0 => node'[leaf].bit = p.len /\ node'[leaf].parent = g
        /\ head' = IF n = head THEN g ELSE head
    BY DEF Grafted, Stays
  <2>2. node'[g].l \in Nodes' \cup {0} /\ node'[g].r \in Nodes' \cup {0} /\ node'[g].l # node'[g].r
    BY <1>1, <2>1
  <2>3. \A c \in {node'[g].l, node'[g].r} : c # 0 => node'[c].parent = g /\ node'[c].bit > d
    BY <1>1, <2>1
  <2>4. CASE n = head
    <3>1. node'[g].parent = 0 /\ head' = g
      BY <1>1, <2>1, <2>4 DEF Linked
    <3> QED
      BY <1>3, <1>6, <2>1, <2>2, <2>3, <3>1
  <2>5. CASE n # head
    <3> DEFINE q == node[n].parent
    <3>1. q \in Nodes /\ n \in {node[q].l, node[q].r} /\ node'[g].parent = q
      BY <1>1, <2>1, <2>5 DEF Linked
    <3>2. /\ node'[q].l = IF node[q].l = n THEN g ELSE node[q].l
          /\ node'[q].r = IF node[q].r = n THEN g ELSE node[q].r
      BY <3>1 DEF Grafted
    <3>3. g \in {node'[q].l, node'[q].r} /\ q \in Nodes'
      BY <1>1, <3>1, <3>2
    <3>4. g # head'
      BY <1>1, <1>4, <2>1, <2>5
    <3> HIDE DEF q
    <3> QED
      BY <1>3, <1>6, <2>1, <2>2, <2>3, <3>1, <3>3, <3>4
  <2> QED
    BY <2>4, <2>5
<1>7. CASE x = leaf /\ leaf # 0
  <2>1. /\ node'[x].l = 0 /\ node'[x].r = 0 /\ node'[x].parent = g
        /\ leaf \in {node'[g].l, node'[g].r}
    BY <1>1, <1>7 DEF Grafted
  <2>2. head' # leaf
    BY <1>1, <1>4 DEF Grafted
  <2> QED
    BY <1>1, <1>3, <1>7, <2>1, <2>2
<1> QED
  BY <1>1, <1>5, <1>6, <1>7

\* The label of n has the first d bits of p.
Shares(A, n, d, p) == \A k \in 0 .. d - 1 : A[n][k] = Bit(p.addr, k)

LEMMA GraftedLabelled ==
  ASSUME Sound, Shape, Linked, NEW A, Labelled(A), NEW p \in Rules \cup {Any},
         NEW n, NEW g, NEW leaf, NEW d \in Nat, NEW b, Grafted(n, g, leaf, d, b, p), Stays,
         d < node[n].bit, leaf # 0 => d < p.len /\ Bit(p.addr, d) # b,
         Shares(A, n, d, p), b = A[n][d]
  PROVE  \E B : LabelledThen(B)
<1> USE DEF Shares
<1> DEFINE B == [x \in Nodes' |-> IF x \in Nodes THEN A[x] ELSE IF x = g THEN A[n] ELSE Route(p)]
<1>1. /\ n \in Nodes /\ g \in Nat \ {0} /\ g \notin Nodes /\ leaf \in Nat /\ leaf \notin Nodes
      /\ leaf # g /\ Nodes' = Nodes \cup {g} \cup ({leaf} \ {0}) /\ Nodes' = 1 .. Len(node')
      /\ Len(node') \in Nat /\ b \in {0, 1} /\ 0 \notin Nodes
  BY NodeIs DEF Grafted
<1>2. Nodes = 1 .. Len(node) /\ Len(node) \in Nat
  BY DEF Shape, Nodes
<1>3. B \in [Nodes' -> Labels]
  BY <1>1, RouteIs DEF Labelled
<1>4. /\ \A x \in Nodes : B[x] = A[x]
      /\ B[g] = A[n] /\ (leaf # 0 => B[leaf] = Route(p))
  BY <1>1
<1> HIDE DEF B
<1>5. ASSUME NEW x \in Nodes', node'[x].prefix # None, NEW k \in 0 .. node'[x].bit - 1
      PROVE  Bit(node'[x].prefix[1], k) = B[x][k]
  <2>1. CASE x \in Nodes
    BY <1>4, <1>5, <2>1 DEF Stays, Labelled
  <2>2. CASE x = leaf /\ leaf # 0
    <3>1. node'[x].bit = p.len /\ node'[x].prefix = <<p.addr>>
      BY <2>2 DEF Grafted
    <3> QED
      BY <1>4, <1>5, <2>2, <3>1, RouteIs
  <2>3. CASE x = g
    <3>1. node'[x].bit = d /\ node'[x].prefix = <<p.addr>>
      BY <1>5, <2>3 DEF Grafted
    <3> QED
      BY <1>4, <1>5, <2>3, <3>1
  <2> QED
    BY <1>1, <2>1, <2>2, <2>3
<1>6. ASSUME NEW x \in Nodes', NEW c \in Nodes', c \in {node'[x].l, node'[x].r}
      PROVE  /\ \A k \in 0 .. node'[x].bit - 1 : B[c][k] = B[x][k]
             /\ B[c][node'[x].bit] = IF c = node'[x].r THEN 1 ELSE 0
  <2>1. CASE x \in Nodes
    <3>1. /\ node'[x].l = IF node[x].l = n THEN g ELSE node[x].l
          /\ node'[x].r = IF node[x].r = n THEN g ELSE node[x].r
          /\ node'[x].bit = node[x].bit
      BY <2>1 DEF Grafted, Stays
    <3>2. /\ node[x].l = 0 \/ node[x].l \in Nodes
          /\ node[x].r = 0 \/ node[x].r \in Nodes
      BY <1>2, <2>1 DEF Linked
    <3> DEFINE was == IF c = g THEN n ELSE c
    <3>3. was \in Nodes /\ was \in {node[x].l, node[x].r} /\ B[c] = A[was]
      BY <1>1, <1>4, <1>6, <3>1, <3>2
    <3>4. c = node'[x].r <=> was = node[x].r
      BY <1>1, <1>6, <3>1, <3>2
    <3> HIDE DEF was
    <3>5. /\ \A k \in 0 .. node[x].bit - 1 : A[was][k] = A[x][k]
          /\ A[was][node[x].bit] = IF was = node[x].r THEN 1 ELSE 0
      BY <2>1, <3>3 DEF Labelled
    <3> QED
      BY <1>4, <2>1, <3>1, <3>3, <3>4, <3>5
  <2>2. CASE x = g
    <3>1. /\ node'[g].bit = d
          /\ node'[g].l = (IF b = 1 THEN leaf ELSE n) /\ node'[g].r = (IF b = 1 THEN n ELSE leaf)
      BY DEF Grafted
    <3>2. CASE c = n
      <4>1. c = node'[g].r <=> b = 1
        BY <1>1, <3>1, <3>2
      <4> QED
        BY <1>1, <1>4, <2>2, <3>1, <3>2, <4>1
    <3>3. CASE c = leaf /\ leaf # 0
      <4>1. c = node'[g].r <=> b = 0
        BY <1>1, <3>1, <3>3
      <4>2. \A k \in 0 .. d - 1 : Route(p)[k] = A[n][k]
        BY <3>3, RouteIs
      <4>3. Route(p)[d] = Bit(p.addr, d) /\ Bit(p.addr, d) \in {0, 1} /\ Bit(p.addr, d) # b
        BY <3>3, RouteIs, RuleIs, BitIs
      <4> QED
        BY <1>1, <1>4, <2>2, <3>1, <3>3, <4>1, <4>2, <4>3
    <3> QED
      BY <1>1, <1>6, <2>2, <3>1, <3>2, <3>3
  <2>3. CASE x = leaf /\ leaf # 0
    BY <1>1, <1>6, <2>3 DEF Grafted
  <2> QED
    BY <1>1, <2>1, <2>2, <2>3
<1>7. LabelledThen(B)
  BY <1>3, <1>5, <1>6 DEF LabelledThen
<1> QED
  BY <1>7

-----------------------------------------------------------------------------
(* The operators that insertion is written with.                           *)

LEMMA FillIs ==
  ASSUME Sound, Shape, NEW p \in Rules \cup {Any}, NEW nd \in NodeSet
  PROVE  LET w == Fill(nd, p)
         IN  /\ w \in NodeSet /\ w.bit = nd.bit /\ w.prefix = nd.prefix
             /\ w.l = nd.l /\ w.r = nd.r /\ w.parent = nd.parent
             /\ \A f \in Families :
                  /\ w.num[f] = IF f \in Fams(p) /\ nd.num[f] = -1 THEN added + 1 ELSE nd.num[f]
                  /\ w.data[f] = IF f \in Fams(p) /\ nd.data[f] = 0 THEN Len(rules) + 1
                                 ELSE nd.data[f]
<1>1. added \in Int /\ Len(rules) + 1 \in Nat
  BY DEF Shape
<1> DEFINE num == [f \in Families |-> IF f \in Fams(p) /\ nd.num[f] = -1 THEN added + 1 ELSE nd.num[f]]
           data == [f \in Families |-> IF f \in Fams(p) /\ nd.data[f] = 0 THEN Len(rules) + 1
                                       ELSE nd.data[f]]
<1>2. /\ num \in [Families -> Int] /\ data \in [Families -> Nat]
  BY <1>1 DEF NodeSet
<1>3. Fill(nd, p) = [nd EXCEPT !.num = num, !.data = data]
  BY DEF Fill, NodeSet
<1>4. /\ \A f \in Families : /\ num[f] = IF f \in Fams(p) /\ nd.num[f] = -1 THEN added + 1 ELSE nd.num[f]
                             /\ data[f] = IF f \in Fams(p) /\ nd.data[f] = 0 THEN Len(rules) + 1
                                          ELSE nd.data[f]
  OBVIOUS
<1> HIDE DEF num, data
<1> QED
  BY <1>2, <1>3, <1>4 DEF NodeSet

LEMMA BlankIs ==
  ASSUME Sound, NEW bit \in 0 .. MaxBits, NEW prefix \in Prefixes, NEW parent \in Nat
  PROVE  LET w == Blank(bit, prefix, parent)
         IN  /\ w \in NodeSet /\ w.bit = bit /\ w.prefix = prefix /\ w.parent = parent
             /\ w.l = 0 /\ w.r = 0 /\ \A f \in Families : w.num[f] = -1 /\ w.data[f] = 0
BY DEF Blank, NodeSet

LEMMA NewIs ==
  ASSUME Sound, Shape, NEW p \in Rules \cup {Any}, NEW parent \in Nat
  PROVE  LET w == New(p, parent)
         IN  /\ w \in NodeSet /\ w.bit = p.len /\ w.prefix = <<p.addr>> /\ w.parent = parent
             /\ w.l = 0 /\ w.r = 0
             /\ \A f \in Families : /\ w.num[f] = IF f \in Fams(p) THEN added + 1 ELSE -1
                                    /\ w.data[f] = IF f \in Fams(p) THEN Len(rules) + 1 ELSE 0
<1> DEFINE nd == Blank(p.len, <<p.addr>>, parent)
<1>1. p.len \in 0 .. MaxBits /\ <<p.addr>> \in Prefixes
  BY RuleIs DEF Prefixes, Sound, MaxBits
<1>2. /\ nd \in NodeSet /\ nd.bit = p.len /\ nd.prefix = <<p.addr>> /\ nd.parent = parent
      /\ nd.l = 0 /\ nd.r = 0 /\ \A f \in Families : nd.num[f] = -1 /\ nd.data[f] = 0
  BY <1>1, BlankIs
<1>3. New(p, parent) = Fill(nd, p)
  BY DEF New
<1> HIDE DEF nd
<1> DEFINE w == Fill(nd, p)
<1>4. /\ w \in NodeSet /\ w.bit = nd.bit /\ w.prefix = nd.prefix
      /\ w.l = nd.l /\ w.r = nd.r /\ w.parent = nd.parent
      /\ \A f \in Families :
           /\ w.num[f] = IF f \in Fams(p) /\ nd.num[f] = -1 THEN added + 1 ELSE nd.num[f]
           /\ w.data[f] = IF f \in Fams(p) /\ nd.data[f] = 0 THEN Len(rules) + 1 ELSE nd.data[f]
  BY <1>2, FillIs
<1> HIDE DEF w
<1> QED
  BY <1>2, <1>3, <1>4 DEF w

\* All but the links of two nodes.
Like(v, w) == v.bit = w.bit /\ v.prefix = w.prefix /\ v.num = w.num /\ v.data = w.data

\* t is s with child hung below n on the side of b.
Hanged(t, s, n, b, child) ==
  /\ t \in Seq(NodeSet) /\ Len(t) = Len(s) /\ DOMAIN t = DOMAIN s
  /\ \A x \in DOMAIN s :
       /\ Like(t[x], s[x]) /\ t[x].parent = s[x].parent
       /\ t[x].l = IF x = n /\ b # 1 THEN child ELSE s[x].l
       /\ t[x].r = IF x = n /\ b = 1 THEN child ELSE s[x].r

\* t is the nodes with g in the place of n, which has g for its parent.
Replaced(t, n, g) ==
  /\ t \in Seq(NodeSet) /\ Len(t) = Len(node) /\ DOMAIN t = Nodes
  /\ \A x \in Nodes :
       /\ Like(t[x], node[x])
       /\ t[x].parent = IF x = n THEN g ELSE node[x].parent
       /\ t[x].l = IF node[x].l = n THEN g ELSE node[x].l
       /\ t[x].r = IF node[x].r = n THEN g ELSE node[x].r

LEMMA HangIs ==
  ASSUME NEW s \in Seq(NodeSet), NEW n \in DOMAIN s, NEW b, NEW child \in Nat
  PROVE  Hanged(Hang(s, n, b, child), s, n, b, child)
<1> USE DEF Hanged
<1>1. CASE b = 1
  <2> DEFINE t == [s EXCEPT ![n].r = child]
  <2>1. Hang(s, n, b, child) = t
    BY <1>1 DEF Hang
  <2>2. t \in Seq(NodeSet) /\ Len(t) = Len(s) /\ DOMAIN t = DOMAIN s
    <3>1. s[n] \in NodeSet
      OBVIOUS
    <3>2. [s[n] EXCEPT !.r = child] \in NodeSet
      BY <3>1 DEF NodeSet
    <3> QED
      BY <3>2
  <2>3. \A x \in DOMAIN s : /\ Like(t[x], s[x]) /\ t[x].parent = s[x].parent
                            /\ t[x].l = s[x].l /\ t[x].r = IF x = n THEN child ELSE s[x].r
    <3>1. \A x \in DOMAIN s : s[x] \in NodeSet
      OBVIOUS
    <3> QED
      BY <3>1 DEF NodeSet, Like
  <2> HIDE DEF t
  <2> QED
    BY <1>1, <2>1, <2>2, <2>3
<1>2. CASE b # 1
  <2> DEFINE t == [s EXCEPT ![n].l = child]
  <2>1. Hang(s, n, b, child) = t
    BY <1>2 DEF Hang
  <2>2. t \in Seq(NodeSet) /\ Len(t) = Len(s) /\ DOMAIN t = DOMAIN s
    <3>1. s[n] \in NodeSet
      OBVIOUS
    <3>2. [s[n] EXCEPT !.l = child] \in NodeSet
      BY <3>1 DEF NodeSet
    <3> QED
      BY <3>2
  <2>3. \A x \in DOMAIN s : /\ Like(t[x], s[x]) /\ t[x].parent = s[x].parent
                            /\ t[x].r = s[x].r /\ t[x].l = IF x = n THEN child ELSE s[x].l
    <3>1. \A x \in DOMAIN s : s[x] \in NodeSet
      OBVIOUS
    <3> QED
      BY <3>1 DEF NodeSet, Like
  <2> HIDE DEF t
  <2> QED
    BY <1>2, <2>1, <2>2, <2>3
<1> QED
  BY <1>1, <1>2

\* A node in the place of n, which becomes its child.
LEMMA TwoMore ==
  ASSUME NEW S, NEW t \in Seq(S), NEW w \in S, NEW v \in S
  PROVE  LET s == t \o <<w, v>>
         IN  /\ s \in Seq(S) /\ Len(s) = Len(t) + 2 /\ s[Len(t) + 1] = w /\ s[Len(t) + 2] = v
             /\ \A i \in 1 .. Len(t) : s[i] = t[i]
<1> DEFINE z == <<w, v>>
<1>1. z \in Seq(S) /\ Len(z) = 2 /\ z[1] = w /\ z[2] = v
  OBVIOUS
<1>2. Len(t) \in Nat
  OBVIOUS
<1> HIDE DEF z
<1>3. /\ t \o z \in Seq(S) /\ Len(t \o z) = Len(t) + Len(z)
      /\ \A i \in 1 .. Len(t) + Len(z) :
           (t \o z)[i] = IF i <= Len(t) THEN t[i] ELSE z[i - Len(t)]
  BY <1>1, ConcatProperties
<1> DEFINE s == t \o z
<1>4. \A i \in 1 .. Len(t) + 2 : s[i] = IF i <= Len(t) THEN t[i] ELSE z[i - Len(t)]
  BY <1>1, <1>3
<1> HIDE DEF s
<1>5. s[Len(t) + 1] = z[1] /\ s[Len(t) + 2] = z[2] /\ \A i \in 1 .. Len(t) : s[i] = t[i]
  BY <1>2, <1>4
<1> QED
  BY <1>1, <1>3, <1>5 DEF s, z

LEMMA OneBefore ==
  ASSUME NEW S, NEW m \in S, NEW t \in Seq(S)
  PROVE  LET s == <<m>> \o t
         IN  /\ s \in Seq(S) /\ Len(s) = Len(t) + 1 /\ s[1] = m /\ Len(t) \in Nat
             /\ \A i \in 1 .. Len(t) : s[i + 1] = t[i]
<1> DEFINE z == <<m>>
<1>1. z \in Seq(S) /\ Len(z) = 1 /\ z[1] = m
  OBVIOUS
<1> HIDE DEF z
<1>2. Len(t) \in Nat
  OBVIOUS
<1>3. /\ z \o t \in Seq(S) /\ Len(z \o t) = Len(z) + Len(t)
      /\ \A i \in 1 .. Len(z) + Len(t) :
           (z \o t)[i] = IF i <= Len(z) THEN z[i] ELSE t[i - Len(z)]
  BY <1>1, ConcatProperties
<1> DEFINE s == z \o t
<1>4. \A i \in 1 .. 1 + Len(t) : s[i] = IF i <= 1 THEN z[i] ELSE t[i - 1]
  BY <1>1, <1>3
<1> HIDE DEF s
<1>5. s[1] = m /\ \A i \in 1 .. Len(t) : s[i + 1] = t[i]
  BY <1>1, <1>2, <1>4
<1> QED
  BY <1>1, <1>2, <1>3, <1>5 DEF s, z

LEMMA ReplaceIs ==
  ASSUME Sound, Shape, Linked, NEW n \in Nodes, NEW g \in Nat \ {0}
  PROVE  Replaced(Replace([node EXCEPT ![n].parent = g], n, g), n, g)
<1> USE DEF Replaced
<1> DEFINE s == [node EXCEPT ![n].parent = g]
           q == node[n].parent
<1>1. node \in Seq(NodeSet) /\ DOMAIN node = Nodes /\ n # 0 /\ \A x \in Nodes : node[x] \in NodeSet
  BY NodeIs DEF Shape, Nodes
<1>2. s \in Seq(NodeSet) /\ Len(s) = Len(node) /\ DOMAIN s = Nodes
  <2>1. [node[n] EXCEPT !.parent = g] \in NodeSet
    BY <1>1 DEF NodeSet
  <2> QED
    BY <1>1, <2>1
<1>3. \A x \in Nodes : /\ Like(s[x], node[x]) /\ s[x].l = node[x].l /\ s[x].r = node[x].r
                       /\ s[x].parent = IF x = n THEN g ELSE node[x].parent
  BY <1>1 DEF NodeSet, Like
<1> HIDE DEF s
<1>4. \A x \in Nodes : n \in {node[x].l, node[x].r} => x = q
  BY <1>1 DEF Linked
<1>5. CASE q = 0
  <2>1. Replace(s, n, g) = s
    BY <1>5 DEF Replace
  <2>2. \A x \in Nodes : node[x].l # n /\ node[x].r # n
    BY <1>4, <1>5, NodeIs
  <2> QED
    BY <1>2, <1>3, <2>1, <2>2 DEF s
<1>6. CASE q # 0
  <2>1. q \in Nodes /\ n \in {node[q].l, node[q].r} /\ (node[q].l = n => node[q].r # n)
    <3>1. n # head
      BY <1>6 DEF Linked
    <3> QED
      BY <1>1, <3>1 DEF Linked
  <2> DEFINE b == IF node[q].r = n THEN 1 ELSE 0
             t == Hang(s, q, b, g)
  <2>2. Replace(s, n, g) = t
    BY <1>6 DEF Replace, Hang
  <2>3. Hanged(t, s, q, b, g)
    BY <1>2, <2>1, HangIs
  <2> USE DEF Hanged
  <2> HIDE DEF t
  <2>4. \A x \in Nodes : /\ Like(t[x], node[x])
                         /\ t[x].parent = IF x = n THEN g ELSE node[x].parent
    BY <1>2, <1>3, <2>3 DEF Like
  <2>5. \A x \in Nodes : /\ t[x].l = IF node[x].l = n THEN g ELSE node[x].l
                         /\ t[x].r = IF node[x].r = n THEN g ELSE node[x].r
    <3> SUFFICES ASSUME NEW x \in Nodes
                 PROVE  /\ t[x].l = IF node[x].l = n THEN g ELSE node[x].l
                        /\ t[x].r = IF node[x].r = n THEN g ELSE node[x].r
      OBVIOUS
    <3>1. s[x].l = node[x].l /\ s[x].r = node[x].r
      BY <1>3
    <3>2. CASE x = q
      BY <1>2, <2>1, <2>3, <3>1, <3>2
    <3>3. CASE x # q
      <4>1. node[x].l # n /\ node[x].r # n
        BY <1>4, <3>3
      <4> QED
        BY <1>2, <2>3, <3>1, <3>3, <4>1
    <3> QED
      BY <3>2, <3>3
  <2> QED
    BY <1>2, <2>2, <2>3, <2>4, <2>5 DEF s
<1> QED
  BY <1>5, <1>6

-----------------------------------------------------------------------------
(* The cases of an insertion.                                              *)

\* The invariant, with its labels, after a step of isc_radix_insert().
Base == Shape /\ Linked /\ GlueRight /\ Numbered /\ DataFirst /\ Ruled
Grows(p) ==
  /\ node' \in Seq(NodeSet) /\ head' \in 0 .. Len(node') /\ (head' = 0 <=> node' = <<>>)
  /\ added' \in 0 .. Len(rules) + 1
  /\ Linked' /\ GlueRight' /\ Numbered' /\ DataFirst' /\ Ruled' /\ \E B : LabelledThen(B)

LEMMA NextLinked ==
  ASSUME Linked, head' = head, Len(node') = Len(node), Nodes' = Nodes,
         \A x \in Nodes : /\ node'[x].bit = node[x].bit /\ node'[x].parent = node[x].parent
                          /\ node'[x].l = node[x].l /\ node'[x].r = node[x].r,
         0 \notin Nodes, Nodes = 1 .. Len(node), Len(node) \in Nat
  PROVE  Linked'
<1> SUFFICES ASSUME NEW x \in Nodes
             PROVE  /\ node'[x].l \in 0 .. Len(node') /\ node'[x].r \in 0 .. Len(node')
                    /\ x = head' => node'[x].parent = 0
                    /\ x # head' => /\ node'[x].parent \in Nodes'
                                    /\ x \in {node'[node'[x].parent].l, node'[node'[x].parent].r}
                    /\ \A c \in {node'[x].l, node'[x].r} :
                         c # 0 => node'[c].parent = x /\ node'[c].bit > node'[x].bit
                    /\ node'[x].l # 0 => node'[x].l # node'[x].r
  BY DEF Linked
<1>1. /\ node[x].l \in 0 .. Len(node) /\ node[x].r \in 0 .. Len(node)
      /\ x = head => node[x].parent = 0
      /\ x # head => node[x].parent \in Nodes /\ x \in {node[node[x].parent].l, node[node[x].parent].r}
      /\ \A c \in {node[x].l, node[x].r} : c # 0 => node[c].parent = x /\ node[c].bit > node[x].bit
      /\ node[x].l # 0 => node[x].l # node[x].r
  BY DEF Linked
<1>2. \A c \in {node[x].l, node[x].r} : c # 0 => c \in Nodes
  BY <1>1
<1> QED
  BY <1>1, <1>2

\* At a node that there is, of the length of p.
LEMMA Refill ==
  ASSUME Sound, Base, NEW A, Labelled(A), NEW p \in Rules \cup {Any}, rules' = Append(rules, p),
         NEW n, Filled(p, n), Agree(A, n, p.addr), head' = head, Len(node') = Len(node),
         \A x \in Nodes : /\ node'[x].parent = node[x].parent
                          /\ node'[x].l = node[x].l /\ node'[x].r = node[x].r
  PROVE  Grows(p)
<1> USE DEF Base
<1>1. Nodes = 1 .. Len(node) /\ Len(node) \in Nat /\ 0 \notin Nodes
  BY DEF Shape, Nodes
<1>2. /\ Nodes' = Nodes /\ node' \in Seq(NodeSet) /\ \A x \in Nodes : node'[x].bit = node[x].bit
  BY DEF Filled, Alike
<1>3. Linked'
  BY <1>1, <1>2, NextLinked
<1>4. Numbered' /\ DataFirst' /\ Ruled'
  BY FilledNumbered, FilledDataFirst
<1>5. GlueRight'
  <2> SUFFICES ASSUME NEW x \in Nodes, node'[x].prefix = None
               PROVE  /\ node'[x].l # 0 /\ node'[x].r # 0
                      /\ \A f \in Families : node'[x].data[f] = 0
    BY <1>2 DEF GlueRight
  <2>1. x # n
    <3> SUFFICES ASSUME x = n PROVE FALSE
      OBVIOUS
    <3>1. node'[n].prefix = None /\ node[n].prefix = None /\ node'[n].prefix = <<p.addr>>
      BY DEF Filled
    <3> QED
      BY <3>1, NotNone
  <2> QED
    BY <2>1 DEF Filled, Alike, GlueRight
<1>6. head' \in 0 .. Len(node') /\ (head' = 0 <=> node' = <<>>)
  BY <1>1, <1>2 DEF Shape
<1>7. added' \in 0 .. Len(rules) + 1
  BY DEF Filled, Shape
<1>8. LabelledThen(A)
  <2>1. A \in [Nodes' -> Labels]
    BY <1>2 DEF Labelled
  <2>2. ASSUME NEW x \in Nodes', node'[x].prefix # None, NEW k \in 0 .. node'[x].bit - 1
        PROVE  Bit(node'[x].prefix[1], k) = A[x][k]
    <3>1. CASE node[x].prefix = None
      <4>1. x = n /\ node'[x].prefix = <<p.addr>>
        BY <1>2, <2>2, <3>1 DEF Filled, Alike
      <4> QED
        BY <1>2, <2>2, <4>1 DEF Agree
    <3>2. CASE node[x].prefix # None
      <4>1. node'[x].prefix = node[x].prefix
        BY <1>2, <3>2 DEF Filled, Alike
      <4> QED
        BY <1>2, <2>2, <3>2, <4>1 DEF Labelled
    <3> QED
      BY <3>1, <3>2
  <2>3. ASSUME NEW x \in Nodes', NEW c \in Nodes', c \in {node'[x].l, node'[x].r}
        PROVE  /\ \A k \in 0 .. node'[x].bit - 1 : A[c][k] = A[x][k]
               /\ A[c][node'[x].bit] = IF c = node'[x].r THEN 1 ELSE 0
    BY <1>2, <2>3 DEF Labelled
  <2> QED
    BY <2>1, <2>2, <2>3 DEF LabelledThen
<1> QED
  BY <1>2, <1>3, <1>4, <1>5, <1>6, <1>7, <1>8 DEF Grows

\* With new nodes, and the links that the cases have.
LEMMA Regrow ==
  ASSUME Sound, Base, NEW p \in Rules \cup {Any}, rules' = Append(rules, p),
         NEW new, NEW glue, Grew(p, new, glue), NoneLike(p),
         Linked', head' \in Nodes',
         \A x \in Nodes : node[x].l # 0 /\ node[x].r # 0 => node'[x].l # 0 /\ node'[x].r # 0,
         \A x \in glue : node'[x].l # 0 /\ node'[x].r # 0,
         \E B : LabelledThen(B)
  PROVE  Grows(p)
<1> USE DEF Base
<1>1. Numbered' /\ DataFirst' /\ Ruled'
  BY GrewNumbered, GrewDataFirst
<1>2. GlueRight'
  <2> SUFFICES ASSUME NEW x \in Nodes', node'[x].prefix = None
               PROVE  /\ node'[x].l # 0 /\ node'[x].r # 0
                      /\ \A f \in Families : node'[x].data[f] = 0
    BY DEF GlueRight
  <2>1. CASE x \in Nodes
    <3>1. node[x].prefix = None /\ node'[x].data = node[x].data
      BY <2>1 DEF Grew, Alike
    <3> QED
      BY <2>1, <3>1 DEF GlueRight
  <2>2. CASE x = new
    <3>1. node'[x].prefix = <<p.addr>>
      BY <2>2 DEF Grew, Fresh
    <3> QED
      BY <3>1, NotNone
  <2>3. CASE x \in glue
    BY <2>3 DEF Grew, Empty
  <2> QED
    BY <2>1, <2>2, <2>3 DEF Grew
<1>3. node' \in Seq(NodeSet) /\ added' = added + 1 /\ Nodes' = 1 .. Len(node') /\ Len(node') \in Nat
  BY DEF Grew, Nodes
<1>4. head' \in 0 .. Len(node') /\ (head' = 0 <=> node' = <<>>)
  BY <1>3
<1>5. added' \in 0 .. Len(rules) + 1
  BY <1>3 DEF Shape
<1> QED
  BY <1>1, <1>2, <1>3, <1>4, <1>5 DEF Grows

LEMMA FirstGrows ==
  ASSUME Sound, Base, NEW p \in Rules \cup {Any}, rules' = Append(rules, p), First(p)
  PROVE  Grows(p)
<1> DEFINE w == New(p, 0)
<1>1. /\ w \in NodeSet /\ w.bit = p.len /\ w.prefix = <<p.addr>> /\ w.parent = 0
      /\ w.l = 0 /\ w.r = 0
      /\ \A f \in Families : /\ w.num[f] = IF f \in Fams(p) THEN added + 1 ELSE -1
                             /\ w.data[f] = IF f \in Fams(p) THEN Len(rules) + 1 ELSE 0
  BY NewIs DEF Base
<1> HIDE DEF w
<1>2. node' = <<w>> /\ head' = 1 /\ added' = added + 1 /\ node = <<>>
  BY DEF First, Base, Shape, w
<1>3. Nodes = {} /\ Nodes' = {1} /\ node'[1] = w /\ Len(node') = 1 /\ node' \in Seq(NodeSet)
  BY <1>1, <1>2 DEF Nodes
<1>4. Grew(p, 1, {})
  BY <1>1, <1>2, <1>3 DEF Grew, Fresh
<1>5. NoneLike(p)
  BY <1>3 DEF NoneLike
<1>6. Linked'
  BY <1>1, <1>2, <1>3 DEF Linked
<1>7. \E B : LabelledThen(B)
  <2> DEFINE B == [x \in {1} |-> Route(p)]
  <2>1. B \in [Nodes' -> Labels] /\ B[1] = Route(p)
    BY <1>3, RouteIs
  <2> HIDE DEF B
  <2>2. ASSUME NEW k \in 0 .. node'[1].bit - 1 PROVE Bit(node'[1].prefix[1], k) = B[1][k]
    BY <1>1, <1>3, <2>1, <2>2, RouteIs
  <2>3. LabelledThen(B)
    BY <1>1, <1>3, <2>1, <2>2 DEF LabelledThen
  <2> QED
    BY <2>3
<1> QED
  BY <1>2, <1>3, <1>4, <1>5, <1>6, <1>7, Regrow

LEMMA SameGrows ==
  ASSUME Sound, Base, NEW A, Labelled(A), NEW p \in Rules \cup {Any}, rules' = Append(rules, p),
         NEW n, NEW d, NEW test, Placed(n, d, test, p, A), Same(p, n, d) \/ Promote(p, n, d)
  PROVE  Grows(p)
<1>1. n \in Nodes /\ node[n].bit = p.len /\ Agree(A, n, p.addr) /\ Shape
  BY DEF Placed, Same, Promote, Agree, Base
<1>2. node[n] \in NodeSet /\ DOMAIN node = Nodes /\ node \in Seq(NodeSet) /\ <<p.addr>> \in Prefixes
  BY <1>1, NodeIs, RuleIs DEF Shape, Nodes, Prefixes
<1> DEFINE nd == [node[n] EXCEPT !.prefix = IF node[n].prefix = None THEN <<p.addr>> ELSE @]
           w == Fill(nd, p)
<1>3. /\ nd \in NodeSet /\ nd.bit = node[n].bit /\ nd.l = node[n].l /\ nd.r = node[n].r
      /\ nd.parent = node[n].parent /\ nd.num = node[n].num /\ nd.data = node[n].data
      /\ nd.prefix = IF node[n].prefix = None THEN <<p.addr>> ELSE node[n].prefix
      /\ node[n].prefix # None => nd = node[n]
      /\ node[n].prefix = None => nd = [node[n] EXCEPT !.prefix = <<p.addr>>]
  <2>1. CASE node[n].prefix = None
    BY <1>2, <2>1 DEF NodeSet
  <2>2. CASE node[n].prefix # None
    <3>1. nd = node[n]
      BY <1>2, <2>2 DEF NodeSet
    <3> HIDE DEF nd
    <3> QED
      BY <1>2, <2>2, <3>1
  <2> QED
    BY <2>1, <2>2
<1>4. node' = [node EXCEPT ![n] = w] /\ head' = head
  BY <1>3 DEF Same, Promote
<1> HIDE DEF nd
<1>5. /\ w \in NodeSet /\ w.bit = nd.bit /\ w.prefix = nd.prefix
      /\ w.l = nd.l /\ w.r = nd.r /\ w.parent = nd.parent
      /\ \A f \in Families :
           /\ w.num[f] = IF f \in Fams(p) /\ nd.num[f] = -1 THEN added + 1 ELSE nd.num[f]
           /\ w.data[f] = IF f \in Fams(p) /\ nd.data[f] = 0 THEN Len(rules) + 1 ELSE nd.data[f]
  BY <1>1, <1>3, FillIs
<1> HIDE DEF w
<1>6. /\ node' \in Seq(NodeSet) /\ Len(node') = Len(node) /\ Nodes' = Nodes /\ node'[n] = w
      /\ \A x \in Nodes : x # n => node'[x] = node[x]
  BY <1>1, <1>2, <1>4, <1>5 DEF Nodes
<1>7. /\ added' \in {added, added + 1}
      /\ added' = added => \A f \in Fams(p) : node[n].num[f] # -1
  <2>1. added \in Nat
    BY <1>1 DEF Shape
  <2>2. CASE Same(p, n, d)
    BY <2>1, <2>2 DEF Same
  <2>3. CASE Promote(p, n, d)
    BY <2>1, <2>3 DEF Promote
  <2> QED
    BY <2>2, <2>3
<1>8. Filled(p, n)
  BY <1>1, <1>3, <1>5, <1>6, <1>7 DEF Filled, Alike
<1>9. \A x \in Nodes : /\ node'[x].parent = node[x].parent
                       /\ node'[x].l = node[x].l /\ node'[x].r = node[x].r
  BY <1>3, <1>5, <1>6
<1> QED
  BY <1>1, <1>4, <1>6, <1>8, <1>9, Refill

\* A rule that goes to a node of its own is at none there was.
LEMMA NoneThere ==
  ASSUME Sound, Base, NEW A, Labelled(A), head # 0, NEW p \in Rules \cup {Any},
         NEW n, NEW d, NEW test, Placed(n, d, test, p, A), node[n].bit # d \/ p.len # d
  PROVE  NoneLike(p)
<1> SUFFICES ASSUME NEW x \in Nodes, node[x].prefix # None, node[x].bit = p.len,
                    \A k \in 0 .. p.len - 1 : Bit(node[x].prefix[1], k) = Bit(p.addr, k)
             PROVE  FALSE
  BY DEF NoneLike
<1>1. Agree(A, x, p.addr)
  BY DEF Agree, Labelled
<1> QED
  BY <1>1, Unlike DEF Base

LEMMA LeafGrows ==
  ASSUME Sound, Base, NEW A, Labelled(A), head # 0, NEW p \in Rules \cup {Any},
         rules' = Append(rules, p), NEW n, NEW d, NEW test, Placed(n, d, test, p, A), Leaf(p, n, d)
  PROVE  Grows(p)
<1>1. /\ n \in Nodes /\ node[n].bit = d /\ d < p.len /\ p.len <= MaxBits /\ Below(n, p.addr) = 0
      /\ Agree(A, n, p.addr) /\ Shape /\ Linked /\ d \in Nat
  <2>1. node[n].bit = d /\ p.len # d
    BY DEF Leaf
  <2>2. p.len \in Nat /\ p.len <= MaxBits
    BY RuleIs
  <2>3. Shape /\ Linked
    BY DEF Base
  <2>4. n \in Nodes /\ d \in Nat /\ d <= p.len /\ Below(n, p.addr) = 0
    BY <2>1 DEF Placed
  <2>5. Agree(A, n, p.addr)
    BY <2>1 DEF Placed, Agree
  <2> QED
    BY <2>1, <2>2, <2>3, <2>4, <2>5
<1>0. d < MaxBits
  BY <1>1, RuleIs DEF Sound, MaxBits
<1> DEFINE b == Bit(p.addr, d)
           s == Hang(node, n, b, Last)
           w == New(p, n)
<1>2. b \in {0, 1} /\ Last \in Nat \ {0} /\ Last \notin Nodes /\ node \in Seq(NodeSet)
      /\ Nodes = 1 .. Len(node) /\ DOMAIN node = Nodes /\ Len(node) \in Nat
  BY <1>1, RuleIs, BitIs DEF Last, Shape, Nodes
<1>3. (b = 1 => node[n].r = 0) /\ (b = 0 => node[n].l = 0)
  BY <1>0, <1>1 DEF Below
<1>4. node' = Append(s, w) /\ added' = added + 1 /\ head' = head
  BY <1>0, <1>1 DEF Leaf
<1> HIDE DEF b
<1>5. /\ s \in Seq(NodeSet) /\ Len(s) = Len(node) /\ DOMAIN s = DOMAIN node
      /\ \A x \in Nodes :
           /\ Like(s[x], node[x]) /\ s[x].parent = node[x].parent
           /\ s[x].l = IF x = n /\ b # 1 THEN Last ELSE node[x].l
           /\ s[x].r = IF x = n /\ b = 1 THEN Last ELSE node[x].r
  <2>1. Hanged(s, node, n, b, Last)
    BY <1>1, <1>2, HangIs
  <2> QED
    BY <1>2, <2>1 DEF Hanged
<1>6. /\ w \in NodeSet /\ w.bit = p.len /\ w.prefix = <<p.addr>> /\ w.parent = n
      /\ w.l = 0 /\ w.r = 0
      /\ \A f \in Families : /\ w.num[f] = IF f \in Fams(p) THEN added + 1 ELSE -1
                             /\ w.data[f] = IF f \in Fams(p) THEN Len(rules) + 1 ELSE 0
  BY <1>1, <1>2, NewIs, NodeIs
<1> HIDE DEF s, w
<1>7. /\ node' \in Seq(NodeSet) /\ Len(node') = Last /\ Nodes' = Nodes \cup {Last} /\ node'[Last] = w
      /\ \A x \in Nodes : node'[x] = s[x]
  BY <1>2, <1>4, <1>5, <1>6 DEF Nodes, Last
<1>8. Hung(n, Last, b, p)
  BY <1>1, <1>2, <1>3, <1>4, <1>5, <1>6, <1>7 DEF Hung
<1>9. Stays
  BY <1>5, <1>7 DEF Stays, Like
<1>10. Grew(p, Last, {})
  BY <1>2, <1>4, <1>5, <1>6, <1>7, SMTT(30) DEF Grew, Alike, Like, Fresh
<1>11. NoneLike(p)
  BY <1>1, NoneThere
<1>12. Linked' /\ \E B : LabelledThen(B)
  BY <1>1, <1>8, <1>9, HungLinked, HungLabelled DEF Base, b
<1>13. head' \in Nodes'
  BY <1>2, <1>4, <1>7 DEF Base, Shape
<1>14. \A x \in Nodes : node[x].l # 0 /\ node[x].r # 0 => node'[x].l # 0 /\ node'[x].r # 0
  BY <1>2, <1>5, <1>7
<1> QED
  BY <1>10, <1>11, <1>12, <1>13, <1>14, Regrow

LEMMA HeadIs ==
  ASSUME Sound, Base, head # 0, NEW n \in Nodes, NEW g, NewHead(n, g)
  PROVE  head' = IF n = head THEN g ELSE head
<1>1. n = head => node[n].parent = 0
  BY DEF Base, Linked
<1>2. n # head => node[n].parent # 0
  BY NodeIs DEF Base, Linked
<1> QED
  BY <1>1, <1>2 DEF NewHead

\* In the place of n.
LEMMA GraftGrows ==
  ASSUME Sound, Base, NEW A, Labelled(A), head # 0, NEW p \in Rules \cup {Any},
         rules' = Append(rules, p), NEW n, NEW d, NEW test, Placed(n, d, test, p, A),
         d < node[n].bit, NEW g, NEW leaf, NEW b, Grafted(n, g, leaf, d, b, p), b = A[n][d], Stays,
         leaf # 0 => d < p.len,
         NEW new, NEW glue, Grew(p, new, glue), glue = IF leaf = 0 THEN {} ELSE {g}
  PROVE  Grows(p)
<1>1. d \in Nat /\ Shape /\ Linked /\ (n # head => node[node[n].parent].bit < d)
  BY DEF Placed, Base
<1>2. leaf # 0 => d < p.len /\ Bit(p.addr, d) # b
  BY DEF Placed
<1>3. Shares(A, n, d, p)
  BY DEF Placed, Shares
<1>4. NoneLike(p)
  <2>1. node[n].bit # d
    BY <1>1, NodeIs DEF Placed
  <2> QED
    BY <2>1, NoneThere
<1>5. Linked'
  BY <1>1, GraftedLinked
<1>6. \E B : LabelledThen(B)
  BY <1>1, <1>2, <1>3, GraftedLabelled
<1>7. head' \in Nodes'
  BY <1>1 DEF Grafted, Shape, Nodes
<1>8. \A x \in Nodes : node[x].l # 0 /\ node[x].r # 0 => node'[x].l # 0 /\ node'[x].r # 0
  BY DEF Grafted
<1>9. \A x \in glue : node'[x].l # 0 /\ node'[x].r # 0
  BY <1>1, NodeIs DEF Grafted
<1> QED
  BY <1>4, <1>5, <1>6, <1>7, <1>8, <1>9, Regrow

LEMMA AboveGrows ==
  ASSUME Sound, Base, NEW A, Labelled(A), head # 0, NEW p \in Rules \cup {Any},
         rules' = Append(rules, p), NEW n, NEW d, NEW test, Placed(n, d, test, p, A),
         Above(p, n, d, test)
  PROVE  Grows(p)
<1>1. /\ n \in Nodes /\ node[n].bit # d /\ p.len = d /\ d <= node[n].bit /\ d \in Nat
      /\ (d < node[n].bit => Bit(test, d) = A[n][d]) /\ Shape /\ Linked
      /\ head' = IF n = head THEN Last ELSE head
  BY HeadIs DEF Placed, Above, Base
<1>2. d < node[n].bit /\ d < MaxBits /\ p.len < MaxBits
  BY <1>1, NodeIs
<1> DEFINE b == Bit(test, d)
           t == Replace([node EXCEPT ![n].parent = Last], n, Last)
           w == New(p, node[n].parent)
           s == Append(t, w)
<1>3. b = A[n][d] /\ b \in {0, 1}
  <2>1. d \in 0 .. MaxBits - 1
    BY <1>1, <1>2, NodeIs
  <2>2. A[n] \in [0 .. MaxBits - 1 -> {0, 1}]
    BY <1>1 DEF Labelled, Labels
  <2>3. A[n][d] \in {0, 1}
    BY <2>1, <2>2
  <2> QED
    BY <1>1, <1>2, <2>3
<1>4. /\ Last \in Nat \ {0} /\ Last \notin Nodes /\ node \in Seq(NodeSet) /\ Last = Len(node) + 1
      /\ Nodes = 1 .. Len(node) /\ DOMAIN node = Nodes /\ Len(node) \in Nat /\ 0 \notin Nodes
  BY <1>1 DEF Last, Shape, Nodes
<1>5. node' = Hang(s, Last, b, n) /\ added' = added + 1
  BY <1>1, <1>2 DEF Above
<1> HIDE DEF b
<1>6. /\ t \in Seq(NodeSet) /\ Len(t) = Len(node) /\ DOMAIN t = Nodes
      /\ \A x \in Nodes :
           /\ Like(t[x], node[x])
           /\ t[x].parent = IF x = n THEN Last ELSE node[x].parent
           /\ t[x].l = IF node[x].l = n THEN Last ELSE node[x].l
           /\ t[x].r = IF node[x].r = n THEN Last ELSE node[x].r
  <2>1. Replaced(t, n, Last)
    BY <1>1, <1>4, ReplaceIs
  <2> QED
    BY <2>1 DEF Replaced
<1>7. /\ w \in NodeSet /\ w.bit = p.len /\ w.prefix = <<p.addr>> /\ w.parent = node[n].parent
      /\ w.l = 0 /\ w.r = 0
      /\ \A f \in Families : /\ w.num[f] = IF f \in Fams(p) THEN added + 1 ELSE -1
                             /\ w.data[f] = IF f \in Fams(p) THEN Len(rules) + 1 ELSE 0
  <2>1. node[n].parent \in Nat
    BY <1>1, NodeIs DEF NodeSet
  <2> QED
    BY <1>1, <2>1, NewIs
<1> HIDE DEF t, w
<1>8. /\ s \in Seq(NodeSet) /\ Len(s) = Last /\ DOMAIN s = Nodes \cup {Last} /\ s[Last] = w
      /\ \A x \in Nodes : s[x] = t[x]
  BY <1>4, <1>6, <1>7
<1> HIDE DEF s
<1>9. /\ node' \in Seq(NodeSet) /\ Len(node') = Last /\ DOMAIN node' = DOMAIN s
      /\ \A x \in DOMAIN s :
           /\ Like(node'[x], s[x]) /\ node'[x].parent = s[x].parent
           /\ node'[x].l = IF x = Last /\ b # 1 THEN n ELSE s[x].l
           /\ node'[x].r = IF x = Last /\ b = 1 THEN n ELSE s[x].r
  <2>1. s \in Seq(NodeSet) /\ Last \in DOMAIN s /\ n \in Nat
    BY <1>1, <1>4, <1>8
  <2>2. Hanged(node', s, Last, b, n)
    BY <1>5, <2>1, HangIs
  <2> QED
    BY <1>8, <2>2 DEF Hanged
<1>10. /\ node' \in Seq(NodeSet) /\ Nodes' = Nodes \cup {Last} /\ Nodes' = 1 .. Len(node')
       /\ Len(node') \in Nat
  BY <1>4, <1>8, <1>9 DEF Nodes
<1>11. \A x \in Nodes :
         /\ Alike(x)
         /\ node'[x].parent = IF x = n THEN Last ELSE node[x].parent
         /\ node'[x].l = IF node[x].l = n THEN Last ELSE node[x].l
         /\ node'[x].r = IF node[x].r = n THEN Last ELSE node[x].r
  <2> SUFFICES ASSUME NEW x \in Nodes
               PROVE  /\ Alike(x)
                      /\ node'[x].parent = IF x = n THEN Last ELSE node[x].parent
                      /\ node'[x].l = IF node[x].l = n THEN Last ELSE node[x].l
                      /\ node'[x].r = IF node[x].r = n THEN Last ELSE node[x].r
    OBVIOUS
  <2>1. x # Last /\ x \in DOMAIN s /\ s[x] = t[x]
    BY <1>4, <1>8
  <2> QED
    BY <1>6, <1>9, <2>1 DEF Like, Alike
<1>12. /\ node'[Last].bit = d /\ node'[Last].parent = node[n].parent
       /\ node'[Last].prefix = <<p.addr>>
       /\ node'[Last].l = (IF b = 1 THEN 0 ELSE n) /\ node'[Last].r = (IF b = 1 THEN n ELSE 0)
       /\ Fresh(Last, p)
  BY <1>1, <1>7, <1>8, <1>9 DEF Like, Fresh
<1>13. Grafted(n, Last, 0, d, b, p)
  BY <1>1, <1>3, <1>4, <1>10, <1>11, <1>12 DEF Grafted
<1>14. Grew(p, Last, {})
  BY <1>4, <1>5, <1>10, <1>11, <1>12 DEF Grew
<1>15. Stays
  BY <1>11 DEF Stays, Alike
<1> QED
  BY <1>2, <1>3, <1>13, <1>14, <1>15, GraftGrows

LEMMA BesideGrows ==
  ASSUME Sound, Base, NEW A, Labelled(A), head # 0, NEW p \in Rules \cup {Any},
         rules' = Append(rules, p), NEW n, NEW d, NEW test, Placed(n, d, test, p, A),
         Beside(p, n, d)
  PROVE  Grows(p)
<1>1. /\ n \in Nodes /\ node[n].bit # d /\ p.len # d /\ d <= p.len /\ d <= node[n].bit /\ d \in Nat
      /\ (d < node[n].bit /\ d < p.len => A[n][d] # Bit(p.addr, d)) /\ Shape /\ Linked
      /\ head' = IF n = head THEN Last + 1 ELSE head
  BY HeadIs DEF Placed, Beside, Base
<1>2. d < node[n].bit /\ d < MaxBits /\ d < p.len /\ MaxBits \in Nat
  BY <1>1, NodeIs, RuleIs
<1> DEFINE side == Bit(p.addr, d)
           b == 1 - side
           g == Last + 1
           t == Replace([node EXCEPT ![n].parent = g], n, g)
           w == New(p, g)
           v == Blank(d, None, node[n].parent)
           s == t \o <<w, v>>
           u == Hang(s, g, side, Last)
<1>3. b = A[n][d] /\ b \in {0, 1} /\ side \in {0, 1} /\ (b = 1 <=> side # 1)
  <2>1. d \in 0 .. MaxBits - 1
    BY <1>1, <1>2
  <2>2. A[n][d] \in {0, 1}
    BY <1>1, <2>1 DEF Labelled, Labels
  <2>3. side \in {0, 1}
    BY <1>1, RuleIs, BitIs
  <2> QED
    BY <1>1, <1>2, <2>2, <2>3
<1>4. /\ Last \in Nat \ {0} /\ Last \notin Nodes /\ node \in Seq(NodeSet) /\ Last = Len(node) + 1
      /\ Nodes = 1 .. Len(node) /\ DOMAIN node = Nodes /\ Len(node) \in Nat /\ 0 \notin Nodes
      /\ g \in Nat \ {0} /\ g \notin Nodes /\ g # Last /\ g = Len(node) + 2
  BY <1>1 DEF Last, Shape, Nodes
<1>5. node' = Hang(u, g, b, n) /\ added' = added + 1
  BY <1>1, <1>2 DEF Beside
<1> HIDE DEF b, side, g
<1>6. /\ t \in Seq(NodeSet) /\ Len(t) = Len(node) /\ DOMAIN t = Nodes
      /\ \A x \in Nodes :
           /\ Like(t[x], node[x])
           /\ t[x].parent = IF x = n THEN g ELSE node[x].parent
           /\ t[x].l = IF node[x].l = n THEN g ELSE node[x].l
           /\ t[x].r = IF node[x].r = n THEN g ELSE node[x].r
  <2>1. Replaced(t, n, g)
    BY <1>1, <1>4, ReplaceIs
  <2> QED
    BY <2>1 DEF Replaced
<1>7. /\ w \in NodeSet /\ w.bit = p.len /\ w.prefix = <<p.addr>> /\ w.parent = g
      /\ w.l = 0 /\ w.r = 0
      /\ \A f \in Families : /\ w.num[f] = IF f \in Fams(p) THEN added + 1 ELSE -1
                             /\ w.data[f] = IF f \in Fams(p) THEN Len(rules) + 1 ELSE 0
  BY <1>1, <1>4, NewIs
<1>8. /\ v \in NodeSet /\ v.bit = d /\ v.prefix = None /\ v.parent = node[n].parent
      /\ v.l = 0 /\ v.r = 0 /\ \A f \in Families : v.num[f] = -1 /\ v.data[f] = 0
  <2>1. node[n].parent \in Nat /\ d \in 0 .. MaxBits /\ None \in Prefixes
    BY <1>1, <1>2, NodeIs DEF NodeSet, Prefixes
  <2> QED
    BY <2>1, BlankIs
<1> HIDE DEF t, w, v
<1>9. /\ s \in Seq(NodeSet) /\ Len(s) = g /\ DOMAIN s = Nodes \cup {Last, g}
      /\ s[Last] = w /\ s[g] = v /\ \A x \in Nodes : s[x] = t[x]
  <2>1. /\ s \in Seq(NodeSet) /\ Len(s) = Len(t) + 2 /\ s[Len(t) + 1] = w /\ s[Len(t) + 2] = v
        /\ \A i \in 1 .. Len(t) : s[i] = t[i]
    BY <1>6, <1>7, <1>8, TwoMore
  <2> HIDE DEF s
  <2>2. Len(t) = Len(node) /\ 1 .. g = Nodes \cup {Last, g}
    BY <1>4, <1>6
  <2> QED
    BY <1>4, <2>1, <2>2
<1> HIDE DEF s
<1>10. /\ u \in Seq(NodeSet) /\ Len(u) = g /\ DOMAIN u = DOMAIN s
       /\ \A x \in DOMAIN s :
            /\ Like(u[x], s[x]) /\ u[x].parent = s[x].parent
            /\ u[x].l = IF x = g /\ side # 1 THEN Last ELSE s[x].l
            /\ u[x].r = IF x = g /\ side = 1 THEN Last ELSE s[x].r
  <2>1. s \in Seq(NodeSet) /\ g \in DOMAIN s /\ Last \in Nat
    BY <1>4, <1>9
  <2>2. Hanged(u, s, g, side, Last)
    BY <2>1, HangIs
  <2> QED
    BY <1>9, <2>2 DEF Hanged
<1> HIDE DEF u
<1>11. /\ node' \in Seq(NodeSet) /\ Len(node') = g /\ DOMAIN node' = DOMAIN s
       /\ \A x \in DOMAIN s :
            /\ Like(node'[x], u[x]) /\ node'[x].parent = u[x].parent
            /\ node'[x].l = IF x = g /\ b # 1 THEN n ELSE u[x].l
            /\ node'[x].r = IF x = g /\ b = 1 THEN n ELSE u[x].r
  <2>1. u \in Seq(NodeSet) /\ g \in DOMAIN u /\ n \in Nat
    BY <1>1, <1>4, <1>9, <1>10
  <2>2. Hanged(node', u, g, b, n)
    BY <1>5, <2>1, HangIs
  <2> QED
    BY <1>10, <2>2 DEF Hanged
<1>12. /\ node' \in Seq(NodeSet) /\ Nodes' = Nodes \cup {Last, g} /\ Nodes' = 1 .. Len(node')
       /\ Len(node') \in Nat
  BY <1>4, <1>9, <1>11 DEF Nodes
<1>13. \A x \in Nodes :
         /\ Alike(x)
         /\ node'[x].parent = IF x = n THEN g ELSE node[x].parent
         /\ node'[x].l = IF node[x].l = n THEN g ELSE node[x].l
         /\ node'[x].r = IF node[x].r = n THEN g ELSE node[x].r
  <2> SUFFICES ASSUME NEW x \in Nodes
               PROVE  /\ Alike(x)
                      /\ node'[x].parent = IF x = n THEN g ELSE node[x].parent
                      /\ node'[x].l = IF node[x].l = n THEN g ELSE node[x].l
                      /\ node'[x].r = IF node[x].r = n THEN g ELSE node[x].r
    OBVIOUS
  <2>1. x # g /\ x \in DOMAIN s /\ s[x] = t[x]
    BY <1>4, <1>9
  <2>2. Like(u[x], t[x]) /\ u[x].parent = t[x].parent /\ u[x].l = t[x].l /\ u[x].r = t[x].r
    BY <1>10, <2>1
  <2>3. Like(node'[x], u[x]) /\ node'[x].parent = u[x].parent /\ node'[x].l = u[x].l /\ node'[x].r = u[x].r
    BY <1>11, <2>1
  <2> QED
    BY <1>6, <2>2, <2>3 DEF Like, Alike
<1>14. /\ node'[Last].bit = p.len /\ node'[Last].prefix = <<p.addr>>
       /\ node'[Last].l = 0 /\ node'[Last].r = 0 /\ node'[Last].parent = g /\ Fresh(Last, p)
  <2>1. Last \in DOMAIN s /\ Last # g /\ s[Last] = w
    BY <1>4, <1>9
  <2>2. Like(u[Last], w) /\ u[Last].parent = g /\ u[Last].l = 0 /\ u[Last].r = 0
    BY <1>7, <1>10, <2>1
  <2>3. /\ Like(node'[Last], u[Last]) /\ node'[Last].parent = u[Last].parent
        /\ node'[Last].l = u[Last].l /\ node'[Last].r = u[Last].r
    BY <1>11, <2>1
  <2> QED
    BY <1>7, <2>2, <2>3 DEF Like, Fresh
<1>15. /\ node'[g].bit = d /\ node'[g].parent = node[n].parent /\ node'[g].prefix = None
       /\ node'[g].l = (IF b = 1 THEN Last ELSE n) /\ node'[g].r = (IF b = 1 THEN n ELSE Last)
       /\ Empty(g)
  BY <1>3, <1>8, <1>9, <1>10, <1>11, SMTT(30) DEF Like, Empty
<1>16. head' = IF n = head THEN g ELSE head
  BY <1>1 DEF g
<1>17. Grafted(n, g, Last, d, b, p)
  BY <1>1, <1>3, <1>4, <1>12, <1>13, <1>14, <1>15, <1>16 DEF Grafted
<1>18. Grew(p, Last, {g})
  BY <1>4, <1>5, <1>12, <1>13, <1>14, <1>15 DEF Grew
<1>19. Stays
  BY <1>13 DEF Stays, Alike
<1> QED
  BY <1>2, <1>3, <1>4, <1>17, <1>18, <1>19, GraftGrows

LEMMA InsertGrows ==
  ASSUME Sound, Base, \E A : Labelled(A), NEW p \in Rules \cup {Any}, Insert(p)
  PROVE  Grows(p)
<1>1. rules' = Append(rules, p)
  BY DEF Insert
<1>2. PICK A : Labelled(A)
  OBVIOUS
<1>3. CASE First(p)
  BY <1>1, <1>3, FirstGrows
<1>4. CASE ~First(p)
  <2> DEFINE end == Descend(head, p)
             d == Differ(end, p)
             n == Climb(end, d)
             test == node[end].prefix[1]
  <2>1. /\ head # 0
        /\ \/ Same(p, n, d) \/ Promote(p, n, d) \/ Leaf(p, n, d)
           \/ Above(p, n, d, test) \/ Beside(p, n, d)
    BY <1>4 DEF Insert
  <2>2. Placed(n, d, test, p, A)
    BY <1>2, <2>1, Placement DEF Base
  <2> HIDE DEF n, d, test
  <2>3. CASE Same(p, n, d) \/ Promote(p, n, d)
    BY <1>1, <1>2, <2>2, <2>3, SameGrows
  <2>4. CASE Leaf(p, n, d)
    BY <1>1, <1>2, <2>1, <2>2, <2>4, LeafGrows
  <2>5. CASE Above(p, n, d, test)
    BY <1>1, <1>2, <2>1, <2>2, <2>5, AboveGrows
  <2>6. CASE Beside(p, n, d)
    BY <1>1, <1>2, <2>1, <2>2, <2>6, BesideGrows
  <2> QED
    BY <2>1, <2>3, <2>4, <2>5, <2>6
<1> QED
  BY <1>3, <1>4

\* The inductive invariant.
IInv == Base /\ \E A : Labelled(A)

LEMMA RadixInit == ASSUME Sound, Init PROVE IInv
<1>1. Nodes = {} /\ rules = <<>> /\ node = <<>> /\ head = 0 /\ added = 0
  BY DEF Init, Nodes
<1>2. Shape
  BY <1>1 DEF Shape, Sound
<1>3. Linked /\ GlueRight /\ Numbered /\ DataFirst /\ Ruled
  BY <1>1 DEF Linked, GlueRight, Numbered, DataFirst, Ruled
<1>4. Labelled([n \in {} |-> <<>>])
  BY <1>1 DEF Labelled
<1> QED
  BY <1>2, <1>3, <1>4 DEF IInv, Base

LEMMA RadixStep == ASSUME Sound, IInv, [Next]_vars PROVE IInv'
<1>1. ASSUME NEW p \in Rules \cup {Any}, Insert(p), Len(rules) < MaxRules PROVE IInv'
  <2>1. Grows(p) /\ rules' = Append(rules, p)
    BY <1>1, InsertGrows DEF IInv, Insert
  <2>2. Len(rules') = Len(rules) + 1 /\ rules' \in Seq(Rules \cup {Any}) /\ Len(rules) \in Nat
    BY <2>1, RulesKept DEF IInv, Base
  <2>3. Shape'
    BY <1>1, <2>1, <2>2 DEF Shape, Grows, Sound
  <2>4. Linked' /\ GlueRight' /\ Numbered' /\ DataFirst' /\ Ruled'
    BY <2>1 DEF Grows
  <2>5. (\E A : Labelled(A))'
    <3>1. PICK B : LabelledThen(B)
      BY <2>1 DEF Grows
    <3>2. Labelled(B)'
      BY <3>1 DEF LabelledThen, Labelled
    <3> QED
      BY <3>2
  <2> QED
    BY <2>3, <2>4, <2>5 DEF IInv, Base
<1>2. CASE InsertDefault
  <2>1. Len(rules) < MaxRules
    BY <1>2 DEF InsertDefault, Sound
  <2> QED
    BY <1>1, <1>2, <2>1 DEF InsertDefault
<1>3. ASSUME NEW p \in Rules, InsertRule(p) PROVE IInv'
  BY <1>1, <1>3 DEF InsertRule
<1>4. CASE UNCHANGED vars
  <2>1. rules' = rules /\ node' = node /\ head' = head /\ added' = added
    BY <1>4 DEF vars
  <2>2. Base'
    BY <2>1 DEF IInv, Base, Shape, Linked, GlueRight, Numbered, DataFirst, Ruled, Fits, Nodes
  <2>3. PICK A : Labelled(A)
    BY DEF IInv
  <2>4. Labelled(A)'
    BY <2>1, <2>3 DEF Labelled, Nodes
  <2> QED
    BY <2>2, <2>4 DEF IInv
<1> QED
  BY <1>2, <1>3, <1>4 DEF Next

-----------------------------------------------------------------------------
(* What the invariant says of the trie.                                    *)

LEMMA InvTyped == ASSUME Sound, IInv PROVE TypeOK
<1> USE DEF IInv, Base
<1>1. rules \in Seq(Rules \cup {Any}) /\ Len(rules) <= MaxRules /\ head \in 0 .. Len(node)
      /\ added \in 0 .. Len(rules)
  BY DEF Shape
<1>2. ASSUME NEW n \in Nodes
      PROVE  /\ node[n].bit \in 0 .. MaxBits
             /\ {node[n].l, node[n].r, node[n].parent} \subseteq 0 .. Len(node)
             /\ \A f \in Families : /\ node[n].num[f] \in {-1} \cup 1 .. added
                                    /\ node[n].data[f] \in 0 .. Len(rules)
  <2>1. node[n].bit \in 0 .. MaxBits
    BY NodeIs
  <2>2. node[n].l \in 0 .. Len(node) /\ node[n].r \in 0 .. Len(node)
    BY DEF Linked
  <2>3. node[n].parent \in 0 .. Len(node)
    <3>1. node[n].parent = 0 \/ node[n].parent \in Nodes
      BY DEF Linked
    <3> QED
      BY <3>1 DEF Shape, Nodes
  <2> QED
    BY <2>1, <2>2, <2>3 DEF Numbered
<1> QED
  BY <1>1, <1>2 DEF TypeOK, Nodes

LEMMA InvTree == ASSUME Sound, IInv PROVE TreeSound
<1> USE DEF IInv, Base
<1>1. ASSUME NEW n \in Nodes
      PROVE  /\ IF n = head THEN node[n].parent = 0
                ELSE node[n].parent # 0 /\ n \in Children(node[n].parent)
             /\ \A c \in Children(n) : node[c].parent = n /\ node[c].bit > node[n].bit
             /\ node[n].prefix = None => /\ Cardinality(Children(n)) = 2
                                         /\ \A f \in Families : node[n].data[f] = 0
             /\ \A f \in Families : node[n].num[f] = -1 <=> node[n].data[f] = 0
  <2>1. n # 0 /\ (n # head => node[n].parent \in Nodes /\ node[n].parent # 0)
    BY NodeIs DEF Linked
  <2>2. node[n].prefix = None => Cardinality(Children(n)) = 2
    <3> SUFFICES ASSUME node[n].prefix = None PROVE Cardinality(Children(n)) = 2
      OBVIOUS
    <3>1. node[n].l # 0 /\ node[n].r # 0 /\ node[n].l # node[n].r
      BY DEF GlueRight, Linked
    <3>2. Children(n) = {node[n].l} \cup {node[n].r} /\ node[n].r \notin {node[n].l}
      BY <3>1 DEF Children
    <3>3. IsFiniteSet({node[n].l}) /\ Cardinality({node[n].l}) = 1
      BY FS_Singleton, Zenon
    <3>4. Cardinality({node[n].l} \cup {node[n].r}) = 1 + 1
      BY <3>2, <3>3, FS_AddElement, Zenon
    <3> QED
      BY <3>2, <3>4
  <2> QED
    BY <2>1, <2>2 DEF Linked, GlueRight, Numbered, Children
<1>2. ASSUME head # 0, NEW p \in Rules
      PROVE  LET end == Descend(head, p)
                 differ == Differ(end, p)
                 n == Climb(end, differ)
             IN  /\ node[end].prefix # None
                 /\ (node[n].bit = differ /\ p.len # differ) => Below(n, p.addr) = 0
  <2>1. PICK A : Labelled(A)
    OBVIOUS
  <2>2. p \in Rules \cup {Any}
    OBVIOUS
  <2> QED
    BY <1>2, <2>1, <2>2, Placement DEF Placed
<1> QED
  BY <1>1, <1>2 DEF TreeSound, Nodes

-----------------------------------------------------------------------------
(* The search: what is on the stack, and which rule decides.               *)

Own(m) == IF node[m].prefix # None THEN <<m>> ELSE <<>>
Passes(m, a) == node[m].bit < Len(a) /\ Below(m, a) # 0

LEMMA AddressIs ==
  ASSUME Sound, NEW f \in Families, NEW a \in Addresses(f)
  PROVE  a \in Texts /\ Len(a) = Width(f) /\ Len(a) \in Nat /\ Len(a) <= MaxBits
<1>1. Width(f) \in Nat /\ Width(f) <= MaxBits
  BY DEF Sound, Width, MaxBits, Families
<1>2. a \in Texts
  BY DEF Texts, Families
<1> HIDE DEF MaxBits
<1>3. Len(a) = Width(f)
  BY <1>1 DEF Addresses
<1> QED
  BY <1>1, <1>2, <1>3

LEMMA StackIs ==
  ASSUME Sound, Shape, Linked, NEW a, Len(a) \in Nat, Len(a) <= MaxBits
  PROVE  /\ \E g \in [Nodes -> Seq(Nodes)] : \A m \in Nodes :
              g[m] = Stack(m, a) /\ g[m] = IF Passes(m, a) THEN Own(m) \o g[Below(m, a)] ELSE Own(m)
         /\ Stack(0, a) = <<>>
<1> DEFINE go == {m \in Nodes : Passes(m, a)}
           next == [m \in go |-> Below(m, a)]
           stop == [m \in Nodes |-> Own(m)]
           F == [m \in Nodes |-> [s \in Seq(Nodes) |-> Own(m) \o s]]
<1>1. next \in [go -> Nodes] /\ \A m \in go : Height[next[m]] < Height[m]
  BY Kid, Ranks DEF Passes
<1>2. go \in SUBSET Nodes
  OBVIOUS
<1>3. /\ Height \in [Nodes -> Nat] /\ MaxBits \in Nat /\ \A m \in Nodes : Height[m] <= MaxBits
  BY Ranks
<1>4. \A m \in Nodes : Own(m) \in Seq(Nodes)
  BY DEF Own
<1>5. Finders(Nodes, Seq(Nodes), stop, F)
  <2>1. ASSUME NEW m \in Nodes, NEW s \in Seq(Nodes) PROVE Own(m) \o s \in Seq(Nodes)
    BY <1>4, ConcatProperties
  <2> QED
    BY <1>4, <2>1 DEF Finders
<1>6. Falls(Nodes, Height, MaxBits, go, next)
  <2> HIDE DEF go, next
  <2> QED
    BY <1>1, <1>2, <1>3 DEF Falls
<1>7. \E g : Finds(g, Nodes, Seq(Nodes), go, next, stop, F)
  <2> HIDE DEF go, next, stop, F
  <2> QED
    BY <1>5, <1>6, Recursion
<1>8. PICK g \in [Nodes -> Seq(Nodes)] :
        \A m \in Nodes : g[m] = IF m \in go THEN F[m][g[next[m]]] ELSE stop[m]
  BY <1>7 DEF Finds
<1>9. ASSUME NEW m \in Nodes
      PROVE  g[m] = IF Passes(m, a) THEN Own(m) \o g[Below(m, a)] ELSE Own(m)
  <2>1. Passes(m, a) => Below(m, a) \in Nodes
    BY Kid DEF Passes
  <2> QED
    BY <1>8, <2>1
<1> HIDE DEF go, next, stop, F
<1> DEFINE Walk(w) == [m \in 0 .. Len(node) |->
                         IF m = 0 THEN <<>>
                         ELSE LET own  == IF node[m].prefix # None THEN <<m>> ELSE <<>>
                                  nxt == IF Bit(a, node[m].bit) = 1 THEN node[m].r ELSE node[m].l
                              IN  IF node[m].bit < Len(a) THEN own \o w[nxt] ELSE own]
           full == [m \in 0 .. Len(node) |-> IF m = 0 THEN <<>> ELSE g[m]]
<1>10. 0 .. Len(node) = {0} \cup Nodes /\ 0 \notin Nodes
  BY DEF Shape, Nodes
<1>11. \A m \in Nodes : node[m].bit < Len(a) =>
         (IF Bit(a, node[m].bit) = 1 THEN node[m].r ELSE node[m].l) = Below(m, a)
  <2>1. \A m \in Nodes : node[m].bit < Len(a) => node[m].bit < MaxBits
    BY NodeIs
  <2> QED
    BY <2>1 DEF Below
<1>12. \A m \in Nodes : Own(m) \o <<>> = Own(m)
  BY <1>4
<1>13. full = Walk(full)
  <2> SUFFICES ASSUME NEW m \in 0 .. Len(node) PROVE full[m] = Walk(full)[m]
    OBVIOUS
  <2>1. CASE m = 0
    BY <2>1
  <2>2. CASE m # 0
    <3>1. m \in Nodes /\ full[m] = g[m]
      BY <1>10, <2>2
    <3>2. CASE node[m].bit < Len(a)
      <4> DEFINE c == Below(m, a)
      <4>1. Walk(full)[m] = Own(m) \o full[c]
        BY <1>11, <2>2, <3>1, <3>2 DEF Own
      <4>2. c \in 0 .. Len(node)
        BY <3>1, Kid
      <4>3. full[c] = IF c = 0 THEN <<>> ELSE g[c]
        BY <4>2
      <4>4. g[m] = IF c # 0 THEN Own(m) \o g[c] ELSE Own(m)
        BY <1>9, <3>1, <3>2 DEF Passes
      <4>5. g[m] = Own(m) \o full[c]
        BY <1>12, <3>1, <4>3, <4>4
      <4> QED
        BY <3>1, <4>1, <4>5
    <3>3. CASE ~(node[m].bit < Len(a))
      <4>1. Walk(full)[m] = Own(m)
        BY <2>2, <3>3 DEF Own
      <4>2. g[m] = Own(m)
        BY <1>9, <3>1, <3>3 DEF Passes
      <4> QED
        BY <3>1, <4>1, <4>2
    <3> QED
      BY <3>2, <3>3
  <2> QED
    BY <2>1, <2>2
<1> DEFINE walk == CHOOSE w : w = Walk(w)
<1>14. walk = Walk(walk)
  <2> HIDE DEF full, Walk
  <2> QED
    BY <1>13
<1>15. \A m : Stack(m, a) = walk[m]
  BY DEF Stack
<1> HIDE DEF walk
<1>16. walk[0] = <<>>
  BY <1>10, <1>14
<1>17. ASSUME NEW m \in Nodes
       PROVE  walk[m] = IF Passes(m, a) THEN Own(m) \o walk[Below(m, a)] ELSE Own(m)
  <2>1. m \in 0 .. Len(node) /\ m # 0
    BY <1>10
  <2>2. walk[m] = IF node[m].bit < Len(a) THEN Own(m) \o walk[Below(m, a)] ELSE Own(m)
    <3>1. walk[m] = Walk(walk)[m]
      BY <1>14
    <3>2. Walk(walk)[m] = IF node[m].bit < Len(a) THEN Own(m) \o walk[Below(m, a)] ELSE Own(m)
      BY <1>11, <2>1 DEF Own
    <3> QED
      BY <3>1, <3>2
  <2> QED
    BY <1>12, <1>16, <2>2 DEF Passes
<1> HIDE DEF Walk, full
<1> DEFINE P == {m \in Nodes : walk[m] = g[m]}
<1>18. ASSUME NEW m \in Nodes, \A x \in Nodes : Height[x] < Height[m] => x \in P
       PROVE  m \in P
  <2>1. CASE Passes(m, a)
    <3>1. Below(m, a) \in Nodes /\ Height[Below(m, a)] < Height[m]
      BY <2>1, Kid, Ranks DEF Passes
    <3> QED
      BY <1>9, <1>17, <1>18, <2>1, <3>1
  <2>2. CASE ~Passes(m, a)
    BY <1>9, <1>17, <2>2
  <2> QED
    BY <2>1, <2>2
<1>19. \A m \in Nodes : m \in P
  <2>1. P \in SUBSET Nodes
    OBVIOUS
  <2> HIDE DEF P
  <2> QED
    BY <1>3, <1>18, <2>1, ByRank
<1>20. \A m \in Nodes : g[m] = Stack(m, a)
  BY <1>15, <1>19
<1> QED
  BY <1>9, <1>15, <1>16, <1>20

\* A stack from node m on: nodes with a prefix, ever longer, and of those on the way of a
\* all that are not longer than a.
Stacked(s, m, a, V) ==
  /\ s \in Seq(Nodes)
  /\ \A i \in DOMAIN s : node[s[i]].prefix # None /\ node[s[i]].bit >= node[m].bit
  /\ \A i, j \in DOMAIN s : i < j => node[s[i]].bit < node[s[j]].bit
  /\ \A x \in V : /\ node[x].prefix # None /\ node[x].bit <= Len(a)
                  /\ node[x].bit >= node[m].bit
                  => \E i \in DOMAIN s : s[i] = x

LEMMA StackWay ==
  ASSUME Sound, Shape, Linked, NEW A, Labelled(A), NEW a \in Texts, Len(a) \in Nat, Len(a) <= MaxBits,
         NEW V \in SUBSET Nodes, NEW h \in Nodes, OnWay(V, h, a, A)
  PROVE  Stacked(Stack(h, a), h, a, V)
<1>1. PICK g \in [Nodes -> Seq(Nodes)] : \A m \in Nodes :
        g[m] = Stack(m, a) /\ g[m] = IF Passes(m, a) THEN Own(m) \o g[Below(m, a)] ELSE Own(m)
  BY StackIs
<1> DEFINE P == {m \in Nodes : m \in V => Stacked(g[m], m, a, V)}
<1>2. ASSUME NEW m \in Nodes, \A x \in Nodes : Height[x] < Height[m] => x \in P
      PROVE  m \in P
  <2> SUFFICES ASSUME m \in V PROVE Stacked(g[m], m, a, V)
    OBVIOUS
  <2>0. \A x \in V : node[x].bit \in Nat /\ (node[x].bit = node[m].bit => x = m)
    BY NodeIs DEF OnWay
  <2>1. CASE ~Passes(m, a)
    <3>1. g[m] = Own(m)
      BY <1>1, <2>1
    <3>2. ASSUME NEW x \in V, node[x].bit <= Len(a), node[x].bit >= node[m].bit PROVE x = m
      <4> SUFFICES ASSUME x # m PROVE FALSE
        OBVIOUS
      <4>1. node[m].bit < node[x].bit
        BY <2>0, <3>2
      <4>2. Below(m, a) # 0
        BY <4>1 DEF OnWay
      <4>3. node[m].bit < Len(a)
        BY <2>0, <3>2, <4>1
      <4> QED
        BY <2>1, <4>2, <4>3 DEF Passes
    <3>3. CASE node[m].prefix = None
      <4>1. g[m] = <<>>
        BY <3>1, <3>3 DEF Own
      <4>2. ASSUME NEW x \in V, node[x].prefix # None, node[x].bit <= Len(a), node[x].bit >= node[m].bit
            PROVE  FALSE
        BY <3>2, <3>3, <4>2
      <4> QED
        BY <4>1, <4>2 DEF Stacked
    <3>4. CASE node[m].prefix # None
      <4>1. g[m] = <<m>>
        BY <3>1, <3>4 DEF Own
      <4>2. DOMAIN <<m>> = {1} /\ <<m>>[1] = m /\ <<m>> \in Seq(Nodes)
        OBVIOUS
      <4> QED
        BY <2>0, <3>2, <3>4, <4>1, <4>2 DEF Stacked
    <3> QED
      BY <3>3, <3>4
  <2>2. CASE Passes(m, a)
    <3> DEFINE c == Below(m, a)
               t == g[c]
    <3>1. c \in Nodes /\ node[c].bit > node[m].bit /\ c # 0
      BY <2>2, Kid DEF Passes
    <3>2. c \in V
      BY <3>1 DEF OnWay
    <3>3. Stacked(t, c, a, V)
      BY <1>2, <3>1, <3>2, Ranks
    <3>4. g[m] = Own(m) \o t
      BY <1>1, <2>2
    <3>5. node[c].bit \in Nat /\ node[m].bit \in Nat
      BY <3>1, NodeIs
    <3> HIDE DEF t
    <3>6. /\ t \in Seq(Nodes)
          /\ \A i \in DOMAIN t : node[t[i]].prefix # None /\ node[t[i]].bit > node[m].bit
                                 /\ node[t[i]].bit \in Nat
          /\ \A i, j \in DOMAIN t : i < j => node[t[i]].bit < node[t[j]].bit
      <4>1. \A i \in DOMAIN t : node[t[i]].bit \in Nat
        BY <3>3, NodeIs, SMTT(30) DEF Stacked
      <4> QED
        BY <3>1, <3>3, <3>5, <4>1, SMTT(30) DEF Stacked
    <3>7. ASSUME NEW x \in V, node[x].prefix # None, node[x].bit <= Len(a),
                 node[x].bit >= node[m].bit, x # m
          PROVE  \E i \in DOMAIN t : t[i] = x
      <4>1. node[m].bit < node[x].bit
        BY <2>0, <3>5, <3>7
      <4>2. node[c].bit <= node[x].bit
        BY <4>1 DEF OnWay
      <4> QED
        BY <2>0, <3>3, <3>5, <3>7, <4>2 DEF Stacked
    <3>8. CASE node[m].prefix = None
      <4>1. g[m] = t
        BY <3>4, <3>6, <3>8 DEF Own
      <4>2. ASSUME NEW x \in V, node[x].prefix # None, node[x].bit <= Len(a), node[x].bit >= node[m].bit
            PROVE  \E i \in DOMAIN t : t[i] = x
        BY <3>7, <3>8, <4>2
      <4> QED
        BY <3>5, <3>6, <4>1, <4>2 DEF Stacked
    <3>9. CASE node[m].prefix # None
      <4> DEFINE s == <<m>> \o t
      <4>1. g[m] = s
        BY <3>4, <3>9 DEF Own
      <4>2. /\ s \in Seq(Nodes) /\ Len(s) = Len(t) + 1 /\ s[1] = m /\ Len(t) \in Nat
            /\ \A i \in 1 .. Len(t) : s[i + 1] = t[i]
        BY <3>6, OneBefore
      <4> HIDE DEF s
      <4>3. DOMAIN s = 1 .. Len(t) + 1 /\ DOMAIN t = 1 .. Len(t)
        BY <3>6, <4>2
      <4>4. \A i \in DOMAIN s : i = 1 \/ (i - 1 \in DOMAIN t /\ s[i] = t[i - 1])
        <5> SUFFICES ASSUME NEW i \in DOMAIN s, i # 1
                     PROVE  i - 1 \in DOMAIN t /\ s[i] = t[i - 1]
          OBVIOUS
        <5>1. Len(t) \in Nat /\ i \in 1 .. Len(t) + 1
          BY <4>2, <4>3
        <5>2. i - 1 \in 1 .. Len(t) /\ (i - 1) + 1 = i
          BY <5>1
        <5>3. s[(i - 1) + 1] = t[i - 1]
          BY <4>2, <5>2
        <5> QED
          BY <4>3, <5>2, <5>3
      <4>5. \A i \in DOMAIN s : node[s[i]].prefix # None /\ node[s[i]].bit >= node[m].bit
        <5> SUFFICES ASSUME NEW i \in DOMAIN s
                     PROVE  node[s[i]].prefix # None /\ node[s[i]].bit >= node[m].bit
          OBVIOUS
        <5>1. CASE i = 1
          BY <3>5, <3>9, <4>2, <5>1
        <5>2. CASE i # 1
          <6>1. i - 1 \in DOMAIN t /\ s[i] = t[i - 1]
            BY <4>4, <5>2
          <6> QED
            BY <3>5, <3>6, <6>1, SMTT(30)
        <5> QED
          BY <5>1, <5>2
      <4>6. ASSUME NEW i \in DOMAIN s, NEW j \in DOMAIN s, i < j
            PROVE  node[s[i]].bit < node[s[j]].bit
        <5>1. j - 1 \in DOMAIN t /\ s[j] = t[j - 1]
          BY <4>3, <4>4, <4>6
        <5>2. CASE i = 1
          BY <3>6, <4>2, <5>1, <5>2
        <5>3. CASE i # 1
          <6>1. i - 1 \in DOMAIN t /\ s[i] = t[i - 1] /\ i - 1 < j - 1
            BY <4>3, <4>4, <4>6, <5>3
          <6> QED
            BY <3>6, <5>1, <6>1
        <5> QED
          BY <5>2, <5>3
      <4>7. ASSUME NEW x \in V, node[x].prefix # None, node[x].bit <= Len(a), node[x].bit >= node[m].bit
            PROVE  \E i \in DOMAIN s : s[i] = x
        <5>1. CASE x = m
          <6>1. 1 \in DOMAIN s /\ s[1] = x
            BY <4>2, <4>3, <5>1
          <6> QED
            BY <6>1
        <5>2. CASE x # m
          <6>1. PICK i \in DOMAIN t : t[i] = x
            BY <3>7, <4>7, <5>2
          <6>2. i + 1 \in DOMAIN s /\ s[i + 1] = x
            BY <4>2, <4>3, <6>1
          <6> QED
            BY <6>2
        <5> QED
          BY <5>1, <5>2
      <4> QED
        BY <4>1, <4>2, <4>5, <4>6, <4>7 DEF Stacked
    <3> QED
      BY <3>8, <3>9
  <2> QED
    BY <2>1, <2>2
<1>3. P \in SUBSET Nodes
  OBVIOUS
<1> HIDE DEF P
<1>4. \A m \in Nodes : m \in P
  <2>1. \A m \in Nodes : (\A x \in Nodes : Height[x] < Height[m] => x \in P) => m \in P
    BY <1>2
  <2>2. Nodes \subseteq P
    BY <2>1, ByHeight, Zenon
  <2> QED
    BY <2>2
<1>5. h \in V
  BY DEF OnWay
<1> QED
  BY <1>1, <1>4, <1>5 DEF P

\* A rule covers an address if it is of its family and has the first bits of it.
LEMMA CoverIs ==
  ASSUME Sound, NEW f \in Families, NEW a \in Addresses(f), NEW p \in Rules \cup {Any}
  PROVE  /\ Covers(p, f, a) <=> /\ f \in Fams(p)
                                /\ \A k \in 0 .. p.len - 1 : Bit(p.addr, k) = Bit(a, k)
         /\ f \in Fams(p) => p.len <= Len(a)
<1>1. p.len \in Nat /\ Len(a) = Width(f) /\ Len(a) \in Nat
  BY RuleIs, AddressIs
<1>2. CASE f \notin Fams(p)
  BY <1>2 DEF Covers
<1>3. CASE f \in Fams(p)
  <2>1. p.len <= Len(a) /\ p.len <= Len(p.addr) /\ Len(p.addr) \in Nat
    <3>1. CASE p \in Rules
      <4>1. p.fam = f /\ p.len <= Width(f)
        BY <1>3, <3>1 DEF Sound, Fams, Families, Width
      <4> QED
        BY <1>1, <4>1, RuleIs
    <3>2. CASE p = Any
      BY <1>1, <3>2, RuleIs DEF Any
    <3> QED
      BY <3>1, <3>2
  <2>2. \A k \in 0 .. p.len - 1 : Bit(p.addr, k) = p.addr[k + 1] /\ Bit(a, k) = a[k + 1]
    BY <1>1, <2>1 DEF Bit
  <2>3. (\A k \in 1 .. p.len : p.addr[k] = a[k])
          <=> \A k \in 0 .. p.len - 1 : p.addr[k + 1] = a[k + 1]
    <3>1. \A k \in 1 .. p.len : k - 1 \in 0 .. p.len - 1 /\ (k - 1) + 1 = k
      BY <1>1
    <3>2. \A k \in 0 .. p.len - 1 : k + 1 \in 1 .. p.len
      BY <1>1
    <3>3. ASSUME \A k \in 1 .. p.len : p.addr[k] = a[k], NEW k \in 0 .. p.len - 1
          PROVE  p.addr[k + 1] = a[k + 1]
      BY <3>2, <3>3
    <3>4. ASSUME \A k \in 0 .. p.len - 1 : p.addr[k + 1] = a[k + 1], NEW k \in 1 .. p.len
          PROVE  p.addr[k] = a[k]
      <4>1. p.addr[(k - 1) + 1] = a[(k - 1) + 1]
        BY <3>1, <3>4
      <4> QED
        BY <3>1, <4>1
    <3> QED
      BY <3>3, <3>4
  <2> QED
    BY <1>3, <2>1, <2>2, <2>3 DEF Covers
<1> QED
  BY <1>2, <1>3

LEMMA Greatest ==
  ASSUME NEW n \in Nat, NEW S \in SUBSET (1 .. n), S # {}
  PROVE  \E m \in S : \A j \in S : j <= m
<1> DEFINE R == {n - i : i \in S}
<1>1. R \in SUBSET Nat /\ R # {}
  OBVIOUS
<1>2. PICK r \in R : \A q \in R : r <= q
  <2> HIDE DEF R
  <2> QED
    BY <1>1, Least
<1>3. PICK m \in S : r = n - m
  OBVIOUS
<1>4. \A j \in S : j <= m
  <2> SUFFICES ASSUME NEW j \in S PROVE j <= m
    OBVIOUS
  <2>1. n - j \in R
    OBVIOUS
  <2>2. n - m <= n - j
    BY <1>2, <1>3, <2>1
  <2> QED
    BY <2>2
<1> QED
  BY <1>4

LEMMA InvBest == ASSUME Sound, IInv PROVE BestMatch
<1> USE DEF IInv, Base
<1> SUFFICES ASSUME NEW f \in Families, NEW a \in Addresses(f)
             PROVE  LET fits == {i \in DOMAIN rules : Covers(rules[i], f, a)}
                        best == {i \in fits : \A j \in fits : /\ rules[j].len <= rules[i].len
                                                              /\ rules[j].len = rules[i].len => i <= j}
                    IN  IF fits = {} THEN Match(f, a) = 0 ELSE Match(f, a) \in best
  BY DEF BestMatch
<1> DEFINE fits == {i \in DOMAIN rules : Covers(rules[i], f, a)}
           stack == Stack(head, a)
           found == {i \in DOMAIN stack : /\ node[stack[i]].bit <= Len(a) /\ Agrees(stack[i], a)
                                          /\ node[stack[i]].num[f] # -1}
<1>1. a \in Texts /\ Len(a) \in Nat /\ Len(a) <= MaxBits
  BY AddressIs
<1>2. PICK A : Labelled(A)
  OBVIOUS
<1>3. \A i \in DOMAIN rules : rules[i] \in Rules \cup {Any}
  BY DEF Shape
\* Each rule that covers the address has a node that agrees with it.
<1>4. ASSUME NEW i \in fits
      PROVE  \E x \in Nodes : /\ node[x].prefix # None /\ Fits(i, f, x) /\ node[x].num[f] # -1
                              /\ node[x].bit <= Len(a) /\ Agree(A, x, a)
  <2>1. /\ f \in Fams(rules[i]) /\ rules[i].len <= Len(a)
        /\ \A k \in 0 .. rules[i].len - 1 : Bit(rules[i].addr, k) = Bit(a, k)
    BY <1>3, <1>4, CoverIs
  <2>2. PICK x \in Nodes : node[x].prefix # None /\ node[x].data[f] # 0 /\ Fits(i, f, x)
    BY <2>1 DEF Ruled
  <2>3. node[x].bit = rules[i].len /\ node[x].num[f] # -1
    BY <2>2 DEF Fits, Numbered
  <2>4. Agree(A, x, a)
    BY <1>2, <2>1, <2>2, <2>3 DEF Agree, Fits, Labelled
  <2> QED
    BY <2>1, <2>2, <2>3, <2>4
\* A node that agrees with the address has a rule that covers it.
<1>5. ASSUME NEW x \in Nodes, node[x].prefix # None, Agrees(x, a), node[x].num[f] # -1
      PROVE  /\ node[x].data[f] \in fits /\ Fits(node[x].data[f], f, x) /\ Agree(A, x, a)
             /\ \A j \in DOMAIN rules : Fits(j, f, x) => node[x].data[f] <= j
  <2> DEFINE i == node[x].data[f]
  <2>1. i \in 1 .. Len(rules) /\ DOMAIN rules = 1 .. Len(rules) /\ Len(rules) \in Nat
    BY <1>5 DEF Numbered, Shape
  <2>2. Fits(i, f, x) /\ \A j \in 1 .. i - 1 : ~Fits(j, f, x)
    BY <2>1 DEF DataFirst
  <2>3. Agree(A, x, a)
    BY <1>2, <1>5 DEF Agrees, Agree, Labelled
  <2>4. \A k \in 0 .. rules[i].len - 1 : Bit(rules[i].addr, k) = Bit(a, k)
    BY <1>5, <2>2 DEF Fits, Agrees
  <2>5. Covers(rules[i], f, a)
    BY <1>3, <2>1, <2>2, <2>4, CoverIs DEF Fits
  <2>6. \A j \in DOMAIN rules : Fits(j, f, x) => i <= j
    BY <2>1, <2>2
  <2> QED
    BY <2>1, <2>2, <2>3, <2>5, <2>6
<1>6. CASE head = 0
  <2>1. Nodes = {}
    BY <1>6 DEF Shape, Nodes
  <2>2. fits = {}
    BY <1>4, <2>1
  <2>3. stack = <<>>
    BY <1>1, <1>6, StackIs
  <2>4. found = {}
    BY <2>3
  <2>5. Match(f, a) = 0
    BY <2>4 DEF Match
  <2> QED
    BY <2>2, <2>5
<1>7. CASE head # 0
  <2>1. head \in Nodes
    BY <1>7 DEF Shape, Nodes
  <2>2. PICK V \in SUBSET Nodes : OnWay(V, head, a, A)
    BY <1>1, <1>2, <2>1, Way
  <2>3. Stacked(stack, head, a, V)
    BY <1>1, <1>2, <2>1, <2>2, StackWay
  <2> HIDE DEF stack
  <2>4. /\ stack \in Seq(Nodes) /\ Len(stack) \in Nat /\ DOMAIN stack = 1 .. Len(stack)
        /\ \A i \in DOMAIN stack : stack[i] \in Nodes /\ node[stack[i]].prefix # None
    BY <2>3 DEF Stacked
  \* The node of a rule that covers the address is found.
  <2>5. ASSUME NEW i \in fits
        PROVE  \E k \in found : Fits(i, f, stack[k]) /\ Agree(A, stack[k], a)
    <3>1. PICK x \in Nodes : /\ node[x].prefix # None /\ Fits(i, f, x) /\ node[x].num[f] # -1
                             /\ node[x].bit <= Len(a) /\ Agree(A, x, a)
      BY <1>4
    <3>2. x \in V
      BY <1>1, <1>2, <2>2, <3>1, Reached
    <3>3. node[x].bit >= node[head].bit
      BY <2>1, <2>2, <3>2, NodeIs DEF OnWay
    <3>4. PICK k \in DOMAIN stack : stack[k] = x
      BY <2>3, <3>1, <3>2, <3>3 DEF Stacked
    <3>5. Agrees(x, a)
      BY <1>2, <3>1 DEF Agrees, Agree, Labelled
    <3>6. k \in found
      BY <3>1, <3>4, <3>5
    <3> QED
      BY <3>1, <3>4, <3>6
  <2>6. CASE found = {}
    <3>1. fits = {}
      BY <2>5, <2>6
    <3>2. Match(f, a) = 0
      BY <2>6 DEF Match, stack
    <3> QED
      BY <3>1, <3>2
  <2>7. CASE found # {}
    <3> DEFINE m == CHOOSE i \in found : \A j \in found : j <= i
               x == stack[m]
               d == node[x].data[f]
    <3>1. \E i \in found : \A j \in found : j <= i
      <4>1. found \in SUBSET (1 .. Len(stack))
        BY <2>4
      <4> HIDE DEF found
      <4> QED
        BY <2>4, <2>7, <4>1, Greatest
    <3>2. m \in found /\ \A j \in found : j <= m
      <4> HIDE DEF found
      <4> QED
        BY <3>1
    <3>3. Match(f, a) = d
      BY <2>7 DEF Match, stack
    <3> HIDE DEF m
    <3>4. /\ x \in Nodes /\ node[x].prefix # None /\ node[x].bit <= Len(a) /\ Agrees(x, a)
          /\ node[x].num[f] # -1 /\ m \in DOMAIN stack
      BY <2>4, <3>2
    <3>5. /\ d \in fits /\ Fits(d, f, x) /\ Agree(A, x, a)
          /\ \A j \in DOMAIN rules : Fits(j, f, x) => d <= j
      BY <1>5, <3>4
    <3> HIDE DEF x, d
    <3>6. rules[d].len = node[x].bit /\ node[x].bit \in Nat
      BY <3>4, <3>5, NodeIs DEF Fits
    <3>7. ASSUME NEW j \in fits
          PROVE  rules[j].len <= rules[d].len /\ (rules[j].len = rules[d].len => d <= j)
      <4>1. PICK k \in found : Fits(j, f, stack[k]) /\ Agree(A, stack[k], a)
        BY <2>5
      <4>2. k <= m /\ k \in DOMAIN stack /\ stack[k] \in Nodes /\ rules[j].len = node[stack[k]].bit
            /\ node[stack[k]].bit \in Nat
        BY <2>4, <3>2, <4>1, NodeIs DEF Fits
      <4>3. CASE k = m
        <5>1. stack[k] = x
          BY <4>3 DEF x
        <5>2. Fits(j, f, x) /\ j \in DOMAIN rules
          BY <4>1, <5>1
        <5> QED
          BY <3>5, <3>6, <4>2, <5>1, <5>2
      <4>4. CASE k # m
        <5>1. k < m
          BY <2>4, <3>4, <4>2, <4>4
        <5>2. node[stack[k]].bit < node[x].bit
          BY <2>3, <3>4, <4>2, <5>1 DEF Stacked, x
        <5> QED
          BY <3>6, <4>2, <5>2
      <4> QED
        BY <4>3, <4>4
    <3> QED
      BY <3>3, <3>5, <3>7
  <2> QED
    BY <2>6, <2>7
<1> QED
  BY <1>6, <1>7

-----------------------------------------------------------------------------
\* The nodes, the counters and the rules have their types: a child, a parent and the head
\* are nodes of the trie (isc_radix_insert(), isc_radix.c), and no more nodes are numbered
\* than rules were added.
THEOREM TypeCorrect == ASSUME Sound PROVE Spec => []TypeOK
<1>1. Init => IInv
  BY RadixInit
<1>2. IInv /\ [Next]_vars => IInv'
  BY RadixStep
<1>3. IInv => TypeOK
  BY InvTyped
<1> QED
  BY <1>1, <1>2, <1>3, PTL DEF Spec

\* The trie stays one whatever is inserted, and the assertions of isc_radix_insert() and
\* _clear_radix() hold.
THEOREM TreeStays == ASSUME Sound PROVE Spec => []TreeSound
<1>1. Init => IInv
  BY RadixInit
<1>2. IInv /\ [Next]_vars => IInv'
  BY RadixStep
<1>3. IInv => TreeSound
  BY InvTree
<1> QED
  BY <1>1, <1>2, <1>3, PTL DEF Spec

\* isc_radix_search_best() finds the longest rule that covers an address, and of equal
\* ones the first of the file, in whatever order the rules of both families came.
THEOREM BestDecides == ASSUME Sound PROVE Spec => []BestMatch
<1>1. Init => IInv
  BY RadixInit
<1>2. IInv /\ [Next]_vars => IInv'
  BY RadixStep
<1>3. IInv => BestMatch
  BY InvBest
<1> QED
  BY <1>1, <1>2, <1>3, PTL DEF Spec
=============================================================================

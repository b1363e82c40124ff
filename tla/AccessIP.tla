------------------------------ MODULE AccessIP ------------------------------
(***************************************************************************)
(* accessip.cpp and isc_radix.c: only_from and no_access as a Patricia     *)
(* trie.  The rules of a service are inserted one by one, IPv4 and IPv6    *)
(* into one trie, and an address is looked up among them.                  *)
(*                                                                         *)
(* Addresses are short sequences of bits, the most significant first.      *)
(***************************************************************************)
EXTENDS Integers, Sequences, FiniteSets

CONSTANTS
  V4, V6,     \* bits of an address
  Rules,      \* prefixes that may be listed, with or without bits beyond the mask
  MaxRules

Families == {"v4", "v6"}
Width(f) == IF f = "v4" THEN V4 ELSE V6
MaxBits  == V6
Addresses(f) == [1..Width(f) -> {0, 1}]

\* only_from or no_access = ALL: match_default, of no family.
Any == [fam |-> "any", len |-> 0, addr |-> <<>>]

\* Rules are [fam, len, addr]: family, length of the mask, and an address of that family.

VARIABLES
  rules,   \* netaddrs::addresses_, in order, after match_default
  node,    \* the nodes of the trie, in the order they were allocated
  head,    \* the root, 0 without one
  added    \* num_added_node

vars == <<rules, node, head, added>>

None == <<>>                  \* prefix of a glue node
Fams(p) == IF p.fam = "any" THEN Families ELSE {p.fam}

TypeOK ==
  /\ rules \in Seq(Rules \cup {Any}) /\ Len(rules) <= MaxRules
  /\ head \in 0..Len(node) /\ added \in 0..Len(rules)
  /\ \A n \in DOMAIN node :
       /\ node[n].bit \in 0..MaxBits
       /\ {node[n].l, node[n].r, node[n].parent} \subseteq 0..Len(node)
       /\ \A f \in Families : node[n].num[f] \in {-1} \cup 1..added /\ node[n].data[f] \in 0..Len(rules)

Init == rules = <<>> /\ node = <<>> /\ head = 0 /\ added = 0

-----------------------------------------------------------------------------
(* isc_radix_insert() and acl_add().                                       *)

\* An isc_prefix_t is cleared before the address is copied into it.
Bit(a, k) == IF k < Len(a) THEN a[k + 1] ELSE 0
Below(n, a) == IF node[n].bit < MaxBits /\ Bit(a, node[n].bit) = 1 THEN node[n].r ELSE node[n].l

\* The node where the walk down ends: as long as the prefix, or without a child to go on to.
Descend(n, p) ==
  LET walk[m \in DOMAIN node] ==
        IF (node[m].bit < p.len \/ node[m].prefix = None) /\ Below(m, p.addr) # 0
        THEN walk[Below(m, p.addr)]
        ELSE m
  IN  walk[n]

\* The first bit in which p differs from that node, the shorter of the two lengths if none.
Differ(n, p) ==
  LET check == IF node[n].bit < p.len THEN node[n].bit ELSE p.len
      other == {k \in 0..(check - 1) : Bit(p.addr, k) # Bit(node[n].prefix[1], k)}
  IN  IF other = {} THEN check ELSE CHOOSE k \in other : \A j \in other : k <= j

\* mutant: one node too few
ClimbOver(n, differ) ==
  LET climb[m \in DOMAIN node] ==
        LET parent == node[m].parent
        IN  IF parent # 0 /\ node[parent].bit > differ THEN climb[parent] ELSE m
  IN  climb[n]

\* Back up to the highest node that shares those bits.
Climb(n, differ) ==
  LET climb[m \in DOMAIN node] ==
        LET parent == node[m].parent
        IN  IF parent # 0 /\ node[parent].bit >= differ THEN climb[parent] ELSE m
  IN  climb[n]

\* node_num and data of a node that p is set at: only where they are not yet set.  What data
\* points to, allow or deny, is that of the rule.
Fill(nd, p) ==
  [nd EXCEPT !.num  = [f \in Families |-> IF f \in Fams(p) /\ @[f] = -1 THEN added + 1 ELSE @[f]],
             !.data = [f \in Families |-> IF f \in Fams(p) /\ @[f] = 0 THEN Len(rules) + 1 ELSE @[f]]]

Blank(bit, prefix, parent) ==
  [bit |-> bit, prefix |-> prefix, parent |-> parent, l |-> 0, r |-> 0,
   num |-> [f \in Families |-> -1], data |-> [f \in Families |-> 0]]
New(p, parent) == Fill(Blank(p.len, <<p.addr>>, parent), p)

\* nodes with child hung below n, on the side of bit b.
Hang(nodes, n, b, child) ==
  IF b = 1 THEN [nodes EXCEPT ![n].r = child] ELSE [nodes EXCEPT ![n].l = child]

\* nodes with new in the place of n, below the parent of n or at the head.
Replace(nodes, n, new) ==
  LET parent == node[n].parent
  IN  IF parent = 0 THEN nodes
      ELSE IF node[parent].r = n THEN [nodes EXCEPT ![parent].r = new]
      ELSE [nodes EXCEPT ![parent].l = new]

NewHead(n, new) == head' = IF node[n].parent = 0 THEN new ELSE head
Last == Len(node) + 1

First(p) ==
  /\ head = 0
  /\ node' = <<New(p, 0)>> /\ head' = 1 /\ added' = added + 1

\* The same bits and length: a node that the other family, or an equal rule, has made.
Same(p, n, differ) ==
  /\ node[n].bit = p.len /\ differ = p.len /\ node[n].prefix # None
  /\ node' = [node EXCEPT ![n] = Fill(@, p)]
  /\ added' = IF \E f \in Fams(p) : node[n].num[f] = -1 THEN added + 1 ELSE added
  /\ UNCHANGED head

\* A glue node gets a prefix.
Promote(p, n, differ) ==
  /\ node[n].bit = p.len /\ differ = p.len /\ node[n].prefix = None
  /\ node' = [node EXCEPT ![n] = Fill([@ EXCEPT !.prefix = <<p.addr>>], p)]
  /\ added' = added + 1
  /\ UNCHANGED head

\* A longer prefix, below the node.
Leaf(p, n, differ) ==
  /\ node[n].bit = differ /\ p.len # differ
  /\ LET side == IF node[n].bit < MaxBits THEN Bit(p.addr, node[n].bit) ELSE 0
     IN  node' = Append(Hang(node, n, side, Last), New(p, n))
  /\ added' = added + 1
  /\ UNCHANGED head

\* A shorter prefix, between the node and its parent; test is the address the walk ended at.
Above(p, n, differ, test) ==
  /\ node[n].bit # differ /\ p.len = differ
  /\ LET side == IF p.len < MaxBits THEN Bit(test, p.len) ELSE 0
         with == Append(Replace([node EXCEPT ![n].parent = Last], n, Last), New(p, node[n].parent))
     IN  node' = Hang(with, Last, side, n)
  /\ NewHead(n, Last) /\ added' = added + 1

\* Neither: a glue node above both.
Beside(p, n, differ) ==
  /\ node[n].bit # differ /\ p.len # differ
  /\ LET side == IF differ < MaxBits THEN Bit(p.addr, differ) ELSE 0
         glue == Last + 1
         with == Replace([node EXCEPT ![n].parent = glue], n, glue)
                   \o <<New(p, glue), Blank(differ, None, node[n].parent)>>
     IN  node' = Hang(Hang(with, glue, side, Last), glue, 1 - side, n)
  /\ NewHead(n, Last + 1) /\ added' = added + 1

Insert(p) ==
  /\ \/ First(p)
     \/ /\ head # 0
        /\ LET end == Descend(head, p)
               differ == Differ(end, p)
               n == Climb(end, differ)
               test == node[end].prefix[1]
           IN  \/ Same(p, n, differ) \/ Promote(p, n, differ) \/ Leaf(p, n, differ)
               \/ Above(p, n, differ, test) \/ Beside(p, n, differ)
  /\ rules' = Append(rules, p)

\* acl_create(): the default first, and then the list, in which push() has left no address
\* and mask twice.
InsertDefault == rules = <<>> /\ Insert(Any)
InsertRule(p) ==
  /\ Len(rules) < MaxRules /\ \A i \in DOMAIN rules : rules[i] # p
  /\ Insert(p)

Next == InsertDefault \/ \E p \in Rules : InsertRule(p)

Spec == Init /\ [][Next]_vars

-----------------------------------------------------------------------------
(* isc_radix_search_best() and acl_match().                                *)

\* The nodes with a prefix on the way down: the stack.
Stack(n, a) ==
  LET walk[m \in 0..Len(node)] ==
        IF m = 0 THEN <<>>
        ELSE LET own  == IF node[m].prefix # None THEN <<m>> ELSE <<>>
                 next == IF Bit(a, node[m].bit) = 1 THEN node[m].r ELSE node[m].l
             IN  IF node[m].bit < Len(a) THEN own \o walk[next] ELSE own
  IN  walk[n]

Agrees(n, a) == \A k \in 0..(node[n].bit - 1) : Bit(node[n].prefix[1], k) = Bit(a, k)

\* The rule that decides on an address, 0 for none: it is then allowed.
Match(f, a) ==
  LET stack == Stack(head, a)
      fits  == {i \in DOMAIN stack : /\ node[stack[i]].bit <= Len(a) /\ Agrees(stack[i], a)
                                     /\ node[stack[i]].num[f] # -1}
  IN  IF fits = {} THEN 0
      ELSE node[stack[CHOOSE i \in fits : \A j \in fits : j <= i]].data[f]

-----------------------------------------------------------------------------
(* Properties.                                                             *)

Covers(p, f, a) == f \in Fams(p) /\ \A k \in 1..p.len : p.addr[k] = a[k]

\* The decision is that of the longest rule that covers the address, and of the first of
\* several of that length: whatever the order in which rules were inserted, and whatever
\* rules of the other family share their nodes.
BestMatch ==
  \A f \in Families : \A a \in Addresses(f) :
    LET fits == {i \in DOMAIN rules : Covers(rules[i], f, a)}
        best == {i \in fits : \A j \in fits : /\ rules[j].len <= rules[i].len
                                              /\ rules[j].len = rules[i].len => i <= j}
    IN  IF fits = {} THEN Match(f, a) = 0 ELSE Match(f, a) \in best

\* The trie is one: parents and children agree and every node is reached once; glue nodes
\* have two children and no data; the assertions of isc_radix_insert() and _clear_radix()
\* hold for every rule that may come next.
Children(n) == {node[n].l, node[n].r} \ {0}
TreeSound ==
  /\ \A n \in DOMAIN node :
       /\ IF n = head THEN node[n].parent = 0 ELSE node[n].parent # 0 /\ n \in Children(node[n].parent)
       /\ \A c \in Children(n) : node[c].parent = n /\ node[c].bit > node[n].bit
       /\ node[n].prefix = None => /\ Cardinality(Children(n)) = 2
                                   /\ \A f \in Families : node[n].data[f] = 0
       /\ \A f \in Families : node[n].num[f] = -1 <=> node[n].data[f] = 0
  /\ head # 0 => \A p \in Rules :
       LET end == Descend(head, p)
           differ == Differ(end, p)
           n == Climb(end, differ)
       IN  /\ node[end].prefix # None
           /\ (node[n].bit = differ /\ p.len # differ) => Below(n, p.addr) = 0
=============================================================================

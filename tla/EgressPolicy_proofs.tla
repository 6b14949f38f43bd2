------------------------ MODULE EgressPolicy_proofs ------------------------
(***************************************************************************)
(* Theorems about EgressPolicy, for all sets of hosts, paths, names and    *)
(* lists of methods, and any number of calls, policies and changes.        *)
(***************************************************************************)
EXTENDS EgressPolicy, Integers, SequenceTheorems, TLAPS

-----------------------------------------------------------------------------
\* The sequence h is s with t behind it.
Joined(h, s, t) ==
    /\ Len(h) = Len(s) + Len(t) /\ DOMAIN h = 1..Len(h)
    /\ \A i \in 1..(Len(s) + Len(t)) : h[i] = IF i <= Len(s) THEN s[i] ELSE t[i - Len(s)]

\* A concatenation is one.
LEMMA Concat ==
    ASSUME NEW S, NEW s \in Seq(S), NEW t \in Seq(S)
    PROVE  s \o t \in Seq(S) /\ Joined(s \o t, s, t)
  BY ConcatProperties, LenProperties DEF Joined

\* The same with the lengths named.
LEMMA JoinedAt ==
    ASSUME NEW h, NEW s, NEW t, Joined(h, s, t), NEW a \in Nat, NEW b \in Nat,
           Len(s) = a, Len(t) = b
    PROVE  /\ Len(h) = a + b /\ DOMAIN h = 1..(a + b)
           /\ \A i \in 1..a : h[i] = s[i]
           /\ \A i \in 1..b : h[a + i] = t[i]
<1>1. Len(h) = a + b /\ DOMAIN h = 1..(a + b)
  BY DEF Joined
<1>2. \A i \in 1..a : h[i] = s[i]
  BY DEF Joined
<1>3. \A i \in 1..b : h[a + i] = t[i]
  BY DEF Joined
<1> QED  BY <1>1, <1>2, <1>3

\* A function on 1..n, and a sequence of one value more than another.
Over(n, f) == f = [j \in 1..n |-> f[j]]

\* The longer one is the shorter with its last value appended.
LEMMA OneMore ==
    ASSUME NEW f, NEW g, NEW m \in Nat, Over(m, f), NEW n \in Nat, Over(n, g),
           m < n, n <= m + 1, \A j \in 1..m : g[j] = f[j], NEW e, g[n] = e
    PROVE  g = Append(f, e)
<1> DEFINE S == {f[j] : j \in 1..m} \cup {e}
<1>1. f \in Seq(S) /\ Len(f) = m
  <2>1. [j \in 1..m |-> f[j]] \in Seq(S) /\ Len([j \in 1..m |-> f[j]]) = m
    OBVIOUS
  <2> QED  BY <2>1 DEF Over
<1>2. n = m + 1 /\ e \in S
  OBVIOUS
<1> HIDE DEF S
<1>3. /\ Append(f, e) \in Seq(S) /\ Len(Append(f, e)) = n
      /\ \A j \in 1..m : Append(f, e)[j] = f[j]
      /\ Append(f, e)[n] = e
  BY <1>1, <1>2, AppendProperties
<1>4. \A j \in 1..n : j \in 1..m \/ j = n
  BY <1>2
<1>5. \A j \in 1..n : g[j] = Append(f, e)[j]
  BY <1>3, <1>4
<1>6. Append(f, e) = [j \in 1..n |-> Append(f, e)[j]]
  BY ONLY <1>3, LenProperties
<1> QED  BY <1>5, <1>6 DEF Over

-----------------------------------------------------------------------------
(* Cells and references.                                                   *)

\* A cell refers to other cells only in these places.
LEMMA RefsOf ==
    ASSUME NEW c \in Cells
    PROVE  /\ c.kind = "policy" => Refs(c) = {c.hosts, c.rules} \ {None}
           /\ c.kind = "list" => Refs(c) = ToSet(c.items)
           /\ c.kind = "rule" => Refs(c) = {c.match, c.action}
           /\ c.kind = "match" => Refs(c) = {c.methods} \ {None}
           /\ c.kind \in {"strings", "host", "action"} => Refs(c) = {}
  BY DEF Refs

\* Which fields a cell has, and what they hold.
LEMMA CellFields ==
    ASSUME NEW c \in Cells
    PROVE  /\ c.kind \in {"policy", "list", "strings", "host", "action", "rule", "match"}
           /\ c.kind = "policy" => /\ c.default \in Actions
                                   /\ c.hosts \in Nat \cup {None}
                                   /\ c.rules \in Nat \cup {None}
           /\ c.kind = "list" => c.items \in Seq(Nat)
           /\ c.kind = "strings" => c.items \in Methods \cup {<<>>}
           /\ c.kind = "host" => c.pattern \in Patterns /\ c.action \in Actions
           /\ c.kind = "action" => c.type \in Actions
           /\ c.kind = "rule" => /\ c.match \in Nat /\ c.action \in Nat
                                 /\ c.name \in Names \cup {"changed"}
           /\ c.kind = "match" => /\ c.host \in Hosts /\ c.path \in Paths \cup {"changed"}
                                  /\ c.methods \in Nat \cup {None}
  BY DEF Cells

\* A list with other items.
LEMMA WithItems ==
    ASSUME NEW c \in Cells, c.kind = "list", NEW s
    PROVE  [c EXCEPT !.items = s] = List(s)
  BY DEF Cells, List

\* What a program's change of a cell leaves alone.
LEMMA SpoilCell ==
    ASSUME NEW c \in Cells
    PROVE  /\ Spoil(c) \in Cells /\ Spoil(c).kind = c.kind
           /\ c.kind = "policy" => Spoil(c).hosts = c.hosts /\ Spoil(c).rules = c.rules
           /\ c.kind = "list" => Spoil(c).items = <<>>
           /\ c.kind = "rule" => Spoil(c).match = c.match /\ Spoil(c).action = c.action
           /\ c.kind = "match" => Spoil(c).methods = c.methods
<1> USE DEF Cells, Spoil, Actions, Other
<1>1. CASE c.kind = "policy"   BY <1>1
<1>2. CASE c.kind = "list"
  <2>1. <<>> \in Seq(Nat)
    OBVIOUS
  <2>2. Spoil(c) = [kind |-> "list", items |-> <<>>]
    BY <1>2
  <2> HIDE DEF Spoil
  <2> QED  BY <1>2, <2>1, <2>2
<1>3. CASE c.kind = "strings"  BY <1>3
<1>4. CASE c.kind = "host"     BY <1>4
<1>5. CASE c.kind = "action"   BY <1>5
<1>6. CASE c.kind = "rule"     BY <1>6
<1>7. CASE c.kind = "match"    BY <1>7
<1> QED  BY <1>1, <1>2, <1>3, <1>4, <1>5, <1>6, <1>7, CellFields

-----------------------------------------------------------------------------
(* What is read through an address, and from which cells.                  *)

\* Host rules are read from their list and its items.
LEMMA HostsFrame ==
    ASSUME NEW h, NEW h2, NEW a \in Nat, h2[a] = h[a],
           \A j \in 1..Len(h[a].items) : h2[h[a].items[j]] = h[h[a].items[j]]
    PROVE  HostsAt(h2, a) = HostsAt(h, a)
<1>1. ItemsAt(h, a) = h[a].items /\ ItemsAt(h2, a) = h[a].items
  BY NoneAssumption DEF ItemsAt
<1>2. \A j \in 1..Len(h[a].items) :
         <<h2[h[a].items[j]].pattern, h2[h[a].items[j]].action>>
            = <<h[h[a].items[j]].pattern, h[h[a].items[j]].action>>
  OBVIOUS
<1> QED  BY <1>1, <1>2 DEF HostsAt

\* A per-request rule by value, as RulesAt has it.
RuleAt(h, b) ==
    [host |-> h[h[b].match].host, path |-> h[h[b].match].path, name |-> h[b].name,
     methods |-> IF h[h[b].match].methods = None THEN None ELSE h[h[h[b].match].methods].items,
     action |-> h[h[b].action].type]

\* The rules of a list, one by one.
LEMMA RulesByRule ==
    ASSUME NEW h, NEW a
    PROVE  RulesAt(h, a) = [j \in 1..Len(ItemsAt(h, a)) |-> RuleAt(h, ItemsAt(h, a)[j])]
  BY DEF RulesAt, RuleAt

\* A rule is read from its own cell, its match, its action and its methods.
SameRule(h, h2, b) ==
    /\ h2[b] = h[b] /\ h2[h[b].match] = h[h[b].match] /\ h2[h[b].action] = h[h[b].action]
    /\ h[h[b].match].methods # None => h2[h[h[b].match].methods] = h[h[h[b].match].methods]

\* A rule all of whose cells are the same is the same rule.
LEMMA RuleFrame ==
    ASSUME NEW h, NEW h2, NEW b, SameRule(h, h2, b)
    PROVE  RuleAt(h2, b) = RuleAt(h, b)
<1>1. CASE h[h[b].match].methods = None  BY <1>1 DEF SameRule, RuleAt
<1>2. CASE h[h[b].match].methods # None  BY <1>2 DEF SameRule, RuleAt
<1> QED  BY <1>1, <1>2

\* So are the rules of a list.
LEMMA RulesFrame ==
    ASSUME NEW h, NEW h2, NEW a \in Nat, h2[a] = h[a],
           \A j \in 1..Len(h[a].items) : SameRule(h, h2, h[a].items[j])
    PROVE  RulesAt(h2, a) = RulesAt(h, a)
<1>1. ItemsAt(h, a) = h[a].items /\ ItemsAt(h2, a) = h[a].items
  BY NoneAssumption DEF ItemsAt
<1>2. \A j \in 1..Len(h[a].items) : RuleAt(h2, h[a].items[j]) = RuleAt(h, h[a].items[j])
  BY RuleFrame
<1> QED  BY <1>1, <1>2, RulesByRule

-----------------------------------------------------------------------------
(* Owners.  Every cell belongs to the builder (0), to the k-th policy (k)   *)
(* or to the program (-1), and refers to cells of its owner only.           *)

Owning(h, own) ==
    /\ own \in [DOMAIN h -> Int]
    /\ \A a \in DOMAIN h : \A b \in Refs(h[a]) : own[b] = own[a]

Heaps == {h \in Seq(Cells) : \A a \in DOMAIN h : WellPlaced(h, h[a])}

\* What is in a heap is a cell, well placed.
LEMMA HeapCells ==
    ASSUME NEW h \in Heaps
    PROVE  /\ h \in Seq(Cells) /\ Len(h) \in Nat /\ DOMAIN h = 1..Len(h)
           /\ \A a \in DOMAIN h : a \in Nat /\ h[a] \in Cells /\ WellPlaced(h, h[a])
  BY LenProperties, ElementOfSeq DEF Heaps

\* The items of a list, and what a rule refers to, have the owner of the list.
LEMMA ListOwner ==
    ASSUME NEW h \in Heaps, NEW own, Owning(h, own), NEW k,
           NEW a, IsListOf(h, a, k)
    PROVE  /\ a \in Nat /\ h[a].items \in Seq(Nat)
           /\ \A j \in 1..Len(h[a].items) : /\ IsA(h, h[a].items[j], k)
                                            /\ own[h[a].items[j]] = own[a]
<1>1. a \in DOMAIN h /\ h[a] \in Cells /\ h[a].kind = "list" /\ a \in Nat
  BY HeapCells DEF IsListOf, IsA
<1>2. h[a].items \in Seq(Nat) /\ Refs(h[a]) = ToSet(h[a].items)
  BY <1>1, RefsOf, CellFields
<1>3. \A j \in 1..Len(h[a].items) : h[a].items[j] \in ToSet(h[a].items)
  BY <1>2, LenProperties DEF ToSet
<1> QED  BY <1>1, <1>2, <1>3 DEF IsListOf, Owning

\* So do the cells of a rule.
LEMMA RuleOwner ==
    ASSUME NEW h \in Heaps, NEW own, Owning(h, own), NEW b, IsA(h, b, "rule")
    PROVE  LET m == h[b].match
           IN  /\ IsA(h, m, "match") /\ own[m] = own[b]
               /\ IsA(h, h[b].action, "action") /\ own[h[b].action] = own[b]
               /\ h[m].methods # None =>
                     IsA(h, h[m].methods, "strings") /\ own[h[m].methods] = own[b]
<1>1. b \in DOMAIN h /\ h[b] \in Cells /\ WellPlaced(h, h[b]) /\ h[b].kind = "rule"
  BY HeapCells DEF IsA
<1>2. IsA(h, h[b].match, "match") /\ IsA(h, h[b].action, "action")
  BY <1>1 DEF WellPlaced
<1>3. own[h[b].match] = own[b] /\ own[h[b].action] = own[b]
  BY <1>1, RefsOf DEF Owning
<1>4. h[h[b].match] \in Cells /\ WellPlaced(h, h[h[b].match]) /\ h[h[b].match].kind = "match"
  BY <1>2, HeapCells DEF IsA
<1>5. h[h[b].match].methods # None =>
         IsA(h, h[h[b].match].methods, "strings") /\ own[h[h[b].match].methods] = own[h[b].match]
  BY <1>2, <1>4, RefsOf DEF Owning, WellPlaced, IsA
<1> QED  BY <1>2, <1>3, <1>5

\* A change that spares an owner's list a and its other cells that are no list
\* is not seen through a.
LEMMA OwnerFrame ==
    ASSUME NEW h \in Heaps, NEW own, Owning(h, own), NEW h2, NEW a, h2[a] = h[a],
           \A b \in DOMAIN h : own[b] = own[a] /\ h[b].kind # "list" => h2[b] = h[b]
    PROVE  /\ IsListOf(h, a, "host") => HostsAt(h2, a) = HostsAt(h, a)
           /\ IsListOf(h, a, "rule") => RulesAt(h2, a) = RulesAt(h, a)
<1>1. ASSUME IsListOf(h, a, "host")  PROVE  HostsAt(h2, a) = HostsAt(h, a)
  <2>1. \A j \in 1..Len(h[a].items) : h2[h[a].items[j]] = h[h[a].items[j]]
    BY <1>1, ListOwner DEF IsA
  <2> QED  BY <1>1, <2>1, ListOwner, HostsFrame
<1>2. ASSUME IsListOf(h, a, "rule")  PROVE  RulesAt(h2, a) = RulesAt(h, a)
  <2>1. ASSUME NEW j \in 1..Len(h[a].items)  PROVE  SameRule(h, h2, h[a].items[j])
    <3>1. IsA(h, h[a].items[j], "rule") /\ own[h[a].items[j]] = own[a]
      BY <1>2, <2>1, ListOwner
    <3> QED  BY <3>1, RuleOwner DEF SameRule, IsA
  <2> QED  BY <1>2, <2>1, ListOwner, RulesFrame
<1> QED  BY <1>1, <1>2

\* A policy is read from cells of its owner.
LEMMA PolicyFrame ==
    ASSUME NEW h \in Heaps, NEW own, Owning(h, own), NEW h2, NEW p, IsA(h, p, "policy"),
           \A b \in DOMAIN h : own[b] = own[p] => h2[b] = h[b]
    PROVE  PolicyAt(h2, p) = PolicyAt(h, p)
<1>1. p \in DOMAIN h /\ h[p] \in Cells /\ WellPlaced(h, h[p]) /\ h[p].kind = "policy" /\ h2[p] = h[p]
  BY HeapCells DEF IsA
<1>2. HostsAt(h2, h[p].hosts) = HostsAt(h, h[p].hosts)
  <2>1. CASE h[p].hosts = None  BY <2>1 DEF HostsAt, ItemsAt
  <2>2. CASE h[p].hosts # None
    <3>1. IsListOf(h, h[p].hosts, "host") /\ own[h[p].hosts] = own[p]
      BY <1>1, <2>2, RefsOf DEF WellPlaced, Owning
    <3>2. h2[h[p].hosts] = h[h[p].hosts]
      BY <3>1 DEF IsListOf, IsA
    <3> QED  BY <3>1, <3>2, OwnerFrame
  <2> QED  BY <2>1, <2>2
<1>3. RulesAt(h2, h[p].rules) = RulesAt(h, h[p].rules)
  <2>1. CASE h[p].rules = None  BY <2>1 DEF RulesAt, ItemsAt
  <2>2. CASE h[p].rules # None
    <3>1. IsListOf(h, h[p].rules, "rule") /\ own[h[p].rules] = own[p]
      BY <1>1, <2>2, RefsOf DEF WellPlaced, Owning
    <3>2. h2[h[p].rules] = h[h[p].rules]
      BY <3>1 DEF IsListOf, IsA
    <3> QED  BY <3>1, <3>2, OwnerFrame
  <2> QED  BY <2>1, <2>2
<1> QED  BY <1>1, <1>2, <1>3 DEF PolicyAt

\* What the program reaches from a cell has the cell's owner.
LEMMA ReachOwner ==
    ASSUME heap \in Heaps, NEW own, Owning(heap, own), NEW a \in DOMAIN heap
    PROVE  \A b \in Reach(a) : b \in DOMAIN heap /\ own[b] = own[a]
<1> DEFINE Of == {b \in DOMAIN heap : own[b] = own[a]}
<1>1. ASSUME NEW b \in DOMAIN heap  PROVE  Refs(heap[b]) \subseteq DOMAIN heap
  <2>1. heap[b] \in Cells /\ WellPlaced(heap, heap[b])
    BY HeapCells
  <2> QED  BY <2>1, RefsOf, CellFields DEF WellPlaced, IsListOf, IsA
<1>2. ASSUME NEW S \in SUBSET Of  PROVE  Follow(S) \in SUBSET Of
  BY <1>1, <1>2 DEF Follow, Owning
<1>3. {a} \in SUBSET Of
  OBVIOUS
<1> QED  BY <1>2, <1>3 DEF Reach

\* Cells keep their kind: whatever was well placed stays so, while the lists it
\* refers to do not grow.
SameKinds(h, h2) ==
    DOMAIN h \subseteq DOMAIN h2 /\ \A b \in DOMAIN h : h2[b].kind = h[b].kind

\* What was of a kind is of it, and what was well placed is well placed.
LEMMA PlacedLift ==
    ASSUME NEW h, NEW h2, SameKinds(h, h2)
    PROVE  /\ \A a, k : IsA(h, a, k) => IsA(h2, a, k)
           /\ \A a, k : IsListOf(h, a, k) /\ ToSet(h2[a].items) \subseteq ToSet(h[a].items)
                           => IsListOf(h2, a, k)
           /\ \A c : /\ WellPlaced(h, c)
                     /\ c.kind = "policy" => \A b \in {c.hosts, c.rules} \ {None} :
                           ToSet(h2[b].items) \subseteq ToSet(h[b].items)
                     => WellPlaced(h2, c)
<1>1. ASSUME NEW a, NEW k, IsA(h, a, k)  PROVE  IsA(h2, a, k)
  BY <1>1 DEF IsA, SameKinds
<1>2. ASSUME NEW a, NEW k, IsListOf(h, a, k), ToSet(h2[a].items) \subseteq ToSet(h[a].items)
      PROVE  IsListOf(h2, a, k)
  BY <1>1, <1>2 DEF IsListOf
<1>3. ASSUME NEW c, WellPlaced(h, c),
             c.kind = "policy" => \A b \in {c.hosts, c.rules} \ {None} :
                ToSet(h2[b].items) \subseteq ToSet(h[b].items)
      PROVE  WellPlaced(h2, c)
  <2>1. CASE c.kind = "policy"
    BY <1>2, <1>3, <2>1 DEF WellPlaced
  <2>2. CASE c.kind # "policy"
    BY <1>1, <1>3, <2>2 DEF WellPlaced, SameKinds
  <2> QED  BY <2>1, <2>2
<1> QED  BY <1>1, <1>2, <1>3

-----------------------------------------------------------------------------
(* The inductive invariant.                                                *)

Owned(own) ==
    /\ Owning(heap, own)
    /\ own[HostList] = 0 /\ own[RuleList] = 0
    /\ \A a \in DOMAIN heap : heap[a].kind = "policy" => own[a] > 0
    /\ \A k \in DOMAIN policies : own[policies[k]] = k
    /\ \A a \in args : own[a] = -1
    /\ sent.of # 0 /\ sent.ep.rules # None => own[sent.ep.rules] = sent.of

\* Nobody shares a cell with anybody else.
Separate == \E own : Owned(own)

\* What a create holds in its hands is what it was asked for.
Sending ==
    /\ sent = [of |-> sent.of, ep |-> sent.ep, asked |-> sent.asked,
               kept |-> sent.kept, waits |-> sent.waits]
    /\ sent.waits => sent.of # 0
    /\ sent.of # 0 =>
          /\ sent.ep.default = sent.asked.default /\ sent.ep.hosts = sent.asked.hosts
          /\ sent.ep.rules # None => IsListOf(heap, sent.ep.rules, "rule")
          /\ sent.kept /\ sent.waits => RulesAt(heap, sent.ep.rules) = sent.asked.rules

Structured == TypeOK /\ Separate /\ Sending
IInv == Structured /\ BuilderIntact /\ PoliciesApart /\ AppliedAsAsked

\* The heap of a state that is type correct, and the addresses it starts from.
LEMMA HeapTyped ==
    ASSUME TypeOK
    PROVE  /\ heap \in Heaps
           /\ HostList \in DOMAIN heap /\ RuleList \in DOMAIN heap
           /\ heap[HostList].kind = "list" /\ heap[RuleList].kind = "list"
           /\ \A k \in DOMAIN policies : policies[k] \in DOMAIN heap /\ k \in Nat /\ k > 0
  BY LenProperties DEF TypeOK, Heaps, IsListOf, IsA

\* A step that changes cells of the owner w only is not seen through others.
LEMMA OthersKeep ==
    ASSUME TypeOK, Sending, NEW own, Owned(own), NEW w \in Int,
           \A b \in DOMAIN heap : own[b] # w => heap'[b] = heap[b]
    PROVE  /\ \A k \in DOMAIN policies : k # w =>
                 PolicyAt(heap', policies[k]) = PolicyAt(heap, policies[k])
           /\ w # 0 => /\ HostsAt(heap', HostList) = HostsAt(heap, HostList)
                       /\ RulesAt(heap', RuleList) = RulesAt(heap, RuleList)
           /\ sent.of # 0 /\ sent.of # w =>
                 RulesAt(heap', sent.ep.rules) = RulesAt(heap, sent.ep.rules)
<1>1. heap \in Heaps /\ Owning(heap, own)
  BY HeapTyped DEF Owned
<1>2. ASSUME NEW k \in DOMAIN policies, k # w
      PROVE  PolicyAt(heap', policies[k]) = PolicyAt(heap, policies[k])
  <2>1. IsA(heap, policies[k], "policy") /\ own[policies[k]] = k
    BY DEF TypeOK, Owned
  <2> QED  BY <1>1, <1>2, <2>1, PolicyFrame
<1>3. ASSUME w # 0
      PROVE  /\ HostsAt(heap', HostList) = HostsAt(heap, HostList)
             /\ RulesAt(heap', RuleList) = RulesAt(heap, RuleList)
  <2>1. own[HostList] = 0 /\ own[RuleList] = 0
    BY DEF Owned
  <2>2. heap'[HostList] = heap[HostList] /\ heap'[RuleList] = heap[RuleList]
    BY <1>3, <2>1, HeapTyped
  <2> QED  BY <1>1, <1>3, <2>1, <2>2, OwnerFrame DEF TypeOK
<1>4. ASSUME sent.of # 0, sent.of # w
      PROVE  RulesAt(heap', sent.ep.rules) = RulesAt(heap, sent.ep.rules)
  <2>1. CASE sent.ep.rules = None  BY <2>1 DEF RulesAt, ItemsAt
  <2>2. CASE sent.ep.rules # None
    <3>1. IsListOf(heap, sent.ep.rules, "rule") /\ own[sent.ep.rules] = sent.of
      BY <1>4, <2>2 DEF Sending, Owned
    <3>2. heap'[sent.ep.rules] = heap[sent.ep.rules]
      BY <1>4, <3>1 DEF IsListOf, IsA
    <3> QED  BY <1>1, <1>4, <3>1, <3>2, OwnerFrame
  <2> QED  BY <2>1, <2>2
<1> QED  BY <1>2, <1>3, <1>4

-----------------------------------------------------------------------------
(* The first state.                                                        *)

\* The cells of a new builder, or one with the hosts pip needs.
LEMMA FirstHeap ==
    ASSUME NewBuilder \/ PipAllowlist
    PROVE  /\ heap \in Heaps
           /\ default \in Actions
           /\ HostList \in DOMAIN heap /\ RuleList \in DOMAIN heap
           /\ \A a \in DOMAIN heap : heap[a].kind \in {"list", "host"}
           /\ IsListOf(heap, HostList, "host") /\ IsListOf(heap, RuleList, "rule")
           /\ heap[RuleList].items = <<>>
<1>1. /\ List(<<>>) \in Cells /\ ToSet(<<>>) = {}
      /\ List(<<>>).kind = "list" /\ List(<<>>).items = <<>>
  BY DEF Cells, List, ToSet
<1>2. CASE NewBuilder
  <2>1. /\ heap \in Seq(Cells) /\ DOMAIN heap = 1..2 /\ default \in Actions
        /\ heap[1] = List(<<>>) /\ heap[2] = List(<<>>)
    BY <1>1, <1>2 DEF NewBuilder, Actions
  <2>2. \A a \in DOMAIN heap : heap[a].kind = "list" /\ heap[a].items = <<>>
    BY <1>1, <2>1
  <2>3. \A a \in DOMAIN heap : WellPlaced(heap, heap[a])
    BY <1>1, <2>2 DEF WellPlaced
  <2> QED  BY <1>1, <2>1, <2>2, <2>3 DEF Heaps, IsListOf, IsA, HostList, RuleList
<1>3. CASE PipAllowlist
  <2> DEFINE pip == [j \in 1..Len(PipHosts) |-> j + 2]
             first == <<List(pip), List(<<>>)>>
             rest == [j \in 1..Len(PipHosts) |-> Host(PipHosts[j], "Allow")]
  <2>1. Len(PipHosts) \in Nat /\ \A j \in 1..Len(PipHosts) : PipHosts[j] \in Patterns
    BY PipAssumption, LenProperties DEF Patterns, ToSet
  <2>2. pip \in Seq(Nat) /\ Len(pip) = Len(PipHosts)
    BY <2>1
  <2>3. first \in Seq(Cells) /\ Len(first) = 2
    BY <1>1, <2>2 DEF Cells, List
  <2>4. \A j \in 1..Len(PipHosts) : rest[j] \in Cells /\ rest[j].kind = "host"
    BY <2>1 DEF Cells, Host, Actions
  <2>5. rest \in Seq(Cells) /\ Len(rest) = Len(PipHosts)
    BY <2>1, <2>4
  <2>6. heap = first \o rest /\ default \in Actions
    BY <1>3 DEF PipAllowlist, Actions
  <2> HIDE DEF rest, first, pip
  <2>7. /\ heap \in Seq(Cells) /\ Len(heap) = 2 + Len(PipHosts)
        /\ DOMAIN heap = 1..(2 + Len(PipHosts))
        /\ heap[1] = first[1] /\ heap[2] = first[2]
        /\ \A j \in 1..Len(PipHosts) : heap[j + 2] = rest[j]
    <3>1. heap \in Seq(Cells) /\ Joined(heap, first, rest)
      BY <2>3, <2>5, <2>6, Concat
    <3>2. \A j \in 1..Len(PipHosts) : j + 2 - 2 = j /\ j + 2 \in 1..(2 + Len(PipHosts)) /\ ~ (j + 2 <= 2)
      BY <2>1
    <3> QED  BY ONLY <2>1, <2>3, <2>5, <3>1, <3>2 DEF Joined
  <2>8. heap[1] = List(pip) /\ heap[2] = List(<<>>)
    BY <2>7 DEF first
  <2>9. \A a \in DOMAIN heap : a > 2 => heap[a].kind = "host"
    <3> SUFFICES ASSUME NEW a \in DOMAIN heap, a > 2  PROVE  heap[a].kind = "host"
      OBVIOUS
    <3>1. a - 2 \in 1..Len(PipHosts) /\ (a - 2) + 2 = a
      BY <2>1, <2>7
    <3> QED  BY <2>4, <2>7, <3>1
  <2>10. ToSet(pip) = 3..(2 + Len(PipHosts))
    <3>1. \A j \in 1..Len(PipHosts) : pip[j] = j + 2
      BY DEF pip
    <3>2. \A b \in 3..(2 + Len(PipHosts)) : b - 2 \in 1..Len(PipHosts) /\ b = pip[b - 2]
      BY <2>1, <3>1
    <3>3. DOMAIN pip = 1..Len(PipHosts)
      BY DEF pip
    <3>4. ToSet(pip) = {pip[j] : j \in 1..Len(PipHosts)}
      BY <3>3 DEF ToSet
    <3>5. \A j \in 1..Len(PipHosts) : pip[j] \in 3..(2 + Len(PipHosts))
      BY <2>1, <3>1
    <3> QED  BY <3>2, <3>4, <3>5
  <2>11. heap[1].kind = "list" /\ heap[1].items = pip /\ heap[2].kind = "list" /\ heap[2].items = <<>>
    BY <1>1, <2>8 DEF List
  <2>12. IsListOf(heap, 1, "host") /\ IsListOf(heap, 2, "rule")
    BY <1>1, <2>1, <2>7, <2>9, <2>10, <2>11 DEF IsListOf, IsA
  <2>13. \A a \in DOMAIN heap : WellPlaced(heap, heap[a])
    <3>1. \A a \in DOMAIN heap : a = 1 \/ a = 2 \/ a > 2
      BY <2>1, <2>7
    <3>2. WellPlaced(heap, heap[1]) /\ WellPlaced(heap, heap[2])
      BY <1>1, <2>1, <2>7, <2>10, <2>11 DEF WellPlaced
    <3>3. \A a \in DOMAIN heap : a > 2 => WellPlaced(heap, heap[a])
      BY <2>9 DEF WellPlaced
    <3> QED  BY <3>1, <3>2, <3>3
  <2>14. \A a \in DOMAIN heap : heap[a].kind \in {"list", "host"}
    <3>1. \A a \in DOMAIN heap : a = 1 \/ a = 2 \/ a > 2
      BY <2>1, <2>7
    <3> QED  BY <2>9, <2>11, <3>1
  <2>15. heap \in Heaps
    BY <2>7, <2>13 DEF Heaps
  <2>16. 1 \in DOMAIN heap /\ 2 \in DOMAIN heap
    BY <2>12 DEF IsListOf, IsA
  <2> QED  BY <2>6, <2>11, <2>12, <2>14, <2>15, <2>16 DEF HostList, RuleList
<1> QED  BY <1>2, <1>3

\* The host rules of a list, by value.
LEMMA HostsTyped ==
    ASSUME NEW h \in Heaps, NEW a, IsListOf(h, a, "host")
    PROVE  /\ HostsAt(h, a) \in Seq(Patterns \X Actions)
           /\ HostsAt(h, a) = [j \in 1..Len(h[a].items) |->
                                  <<h[h[a].items[j]].pattern, h[h[a].items[j]].action>>]
<1>1. a \in Nat /\ h[a] \in Cells /\ h[a].kind = "list"
  BY HeapCells DEF IsListOf, IsA
<1>2. h[a].items \in Seq(Nat) /\ Len(h[a].items) \in Nat
  BY <1>1, CellFields, LenProperties
<1>3. \A j \in 1..Len(h[a].items) : IsA(h, h[a].items[j], "host")
  BY <1>2, LenProperties DEF IsListOf, ToSet
<1>4. \A j \in 1..Len(h[a].items) :
         /\ h[h[a].items[j]].pattern \in Patterns
         /\ h[h[a].items[j]].action \in Actions
  BY <1>3, HeapCells, CellFields DEF IsA
<1>5. ItemsAt(h, a) = h[a].items
  BY <1>1, NoneAssumption DEF ItemsAt
<1> QED  BY <1>2, <1>4, <1>5 DEF HostsAt

\* The invariant holds of a new builder.
LEMMA InitInv == Init => IInv
<1> SUFFICES ASSUME Init  PROVE  IInv
  OBVIOUS
<1>1. /\ NewBuilder \/ PipAllowlist
      /\ told = [default |-> default, hosts |-> HostsAt(heap, HostList), rules |-> <<>>]
      /\ policies = <<>> /\ meant = <<>> /\ args = {} /\ spoilt = {} /\ tampers = 0
      /\ sent = NoCreate /\ applied = None
  BY DEF Init
<1>2. /\ heap \in Heaps /\ default \in Actions
      /\ HostList \in DOMAIN heap /\ RuleList \in DOMAIN heap
      /\ \A a \in DOMAIN heap : heap[a].kind \in {"list", "host"}
      /\ IsListOf(heap, HostList, "host") /\ IsListOf(heap, RuleList, "rule")
      /\ heap[RuleList].items = <<>>
  BY <1>1, FirstHeap
<1>3. /\ told.default = default /\ told.hosts = HostsAt(heap, HostList) /\ told.rules = <<>>
      /\ told.hosts \in Seq(Patterns \X Actions) /\ told.rules \in Seq(Rules)
  BY <1>1, <1>2, HostsTyped
<1>4. told \in Policies
  BY <1>1, <1>2, <1>3 DEF Policies
<1>5. TypeOK
  BY <1>1, <1>2, <1>4, BoundAssumption DEF TypeOK, Heaps, NoCreate
<1>6. Separate
  <2> DEFINE own == [a \in DOMAIN heap |-> 0]
  <2>1. ASSUME NEW a \in DOMAIN heap, NEW b \in Refs(heap[a])  PROVE  b \in DOMAIN heap
    BY <1>2, <2>1, HeapCells, RefsOf DEF WellPlaced
  <2>2. Owning(heap, own)
    BY <2>1 DEF Owning
  <2>3. Owned(own)
    BY <1>1, <1>2, <2>2 DEF Owned, NoCreate
  <2> QED  BY <2>3 DEF Separate
<1>7. Sending
  BY <1>1 DEF Sending, NoCreate
<1>8. RulesAt(heap, RuleList) = <<>>
  <2>1. ItemsAt(heap, RuleList) = <<>>
    BY <1>2, NoneAssumption DEF ItemsAt, RuleList
  <2> QED  BY <2>1, RulesByRule
<1>9. BuilderIntact
  BY <1>1, <1>8 DEF BuilderIntact
<1>10. PoliciesApart /\ AppliedAsAsked
  BY <1>1 DEF PoliciesApart, AppliedAsAsked
<1> QED  BY <1>5, <1>6, <1>7, <1>9, <1>10 DEF IInv, Structured

-----------------------------------------------------------------------------
(* The builder's calls.                                                    *)

\* The builder's list a grows by the address b, and t goes behind the heap.
LEMMA Listed ==
    ASSUME TypeOK, NEW a \in {HostList, RuleList}, NEW b \in Nat, NEW t \in Seq(Cells),
           heap' = [heap EXCEPT ![a].items = Append(@, b)] \o t
    PROVE  /\ heap' \in Seq(Cells) /\ DOMAIN heap' = 1..(Len(heap) + Len(t))
           /\ heap'[a] = List(Append(heap[a].items, b))
           /\ \A c \in DOMAIN heap : c # a => heap'[c] = heap[c]
           /\ \A i \in 1..Len(t) : heap'[Len(heap) + i] = t[i]
           /\ SameKinds(heap, heap')
<1> DEFINE g == [heap EXCEPT ![a].items = Append(@, b)]
           l == List(Append(heap[a].items, b))
<1>1. heap \in Heaps /\ a \in DOMAIN heap /\ heap[a].kind = "list" /\ heap[a] \in Cells
  BY HeapTyped, HeapCells
<1>2. heap[a] \in [kind : {"list"}, items : Seq(Nat)]
  BY <1>1 DEF Cells
<1>3. [heap[a] EXCEPT !.items = Append(@, b)] = l
  BY <1>1, WithItems
<1>4. l \in Cells /\ l.kind = "list"
  BY <1>2 DEF List, Cells
<1>5. g = [heap EXCEPT ![a] = l]
  BY <1>3
<1> HIDE DEF l
<1>6. /\ g \in Seq(Cells) /\ Len(g) = Len(heap) /\ DOMAIN g = 1..Len(heap)
      /\ g[a] = l /\ \A c \in DOMAIN heap : c # a => g[c] = heap[c]
  <2>1. heap \in Seq(Cells) /\ DOMAIN heap = 1..Len(heap) /\ a \in 1..Len(heap)
    BY <1>1, HeapCells
  <2>2. [heap EXCEPT ![a] = l] \in Seq(Cells) /\ Len([heap EXCEPT ![a] = l]) = Len(heap)
    BY ONLY <1>4, <2>1, ExceptSeq
  <2>3. DOMAIN [heap EXCEPT ![a] = l] = DOMAIN heap
    OBVIOUS
  <2>4. [heap EXCEPT ![a] = l][a] = l
        /\ \A c \in DOMAIN heap : c # a => [heap EXCEPT ![a] = l][c] = heap[c]
    BY <2>1
  <2> HIDE DEF g
  <2> QED  BY <1>5, <2>1, <2>2, <2>3, <2>4
<1> HIDE DEF g
<1>7. heap' \in Seq(Cells) /\ Joined(heap', g, t)
  BY <1>6, Concat DEF g
<1>8. Len(heap) \in Nat /\ Len(t) \in Nat /\ DOMAIN heap = 1..Len(heap)
  BY <1>1, HeapCells, LenProperties
<1>9. DOMAIN heap' = 1..(Len(heap) + Len(t)) /\ \A c \in DOMAIN heap : heap'[c] = g[c]
  BY ONLY <1>6, <1>7, <1>8 DEF Joined
<1>10. \A i \in 1..Len(t) : heap'[Len(heap) + i] = t[i]
  BY ONLY <1>6, <1>7, <1>8 DEF Joined
<1>11. SameKinds(heap, heap')
  BY <1>1, <1>4, <1>6, <1>8, <1>9 DEF SameKinds
<1> QED  BY <1>1, <1>6, <1>7, <1>9, <1>10, <1>11 DEF l

\* Nobody's reading but the builder's changes with that, and nothing is
\* misplaced.
LEMMA Grown ==
    ASSUME Structured, NEW own, Owned(own),
           NEW a \in {HostList, RuleList}, NEW b \in Nat, NEW t \in Seq(Cells),
           heap' = [heap EXCEPT ![a].items = Append(@, b)] \o t,
           IsA(heap', b, IF a = HostList THEN "host" ELSE "rule"),
           \A i \in 1..Len(t) : WellPlaced(heap', t[i]),
           UNCHANGED <<policies, sent>>
    PROVE  /\ heap' \in Heaps
           /\ IsListOf(heap', HostList, "host") /\ IsListOf(heap', RuleList, "rule")
           /\ \A k \in DOMAIN policies : PolicyAt(heap', policies[k]) = PolicyAt(heap, policies[k])
           /\ \A k \in DOMAIN policies : IsA(heap', policies[k], "policy")
           /\ \A c, k : IsA(heap, c, k) => IsA(heap', c, k)
           /\ Sending'
<1> DEFINE kind == IF a = HostList THEN "host" ELSE "rule"
<1>1. TypeOK /\ Sending /\ heap \in Heaps /\ Owning(heap, own)
  BY HeapTyped DEF Structured, Owned
<1>2. /\ heap' \in Seq(Cells) /\ DOMAIN heap' = 1..(Len(heap) + Len(t))
      /\ heap'[a] = List(Append(heap[a].items, b))
      /\ \A c \in DOMAIN heap : c # a => heap'[c] = heap[c]
      /\ \A i \in 1..Len(t) : heap'[Len(heap) + i] = t[i]
      /\ SameKinds(heap, heap')
  BY ONLY <1>1, Listed, a \in {HostList, RuleList}, b \in Nat, t \in Seq(Cells),
          heap' = [heap EXCEPT ![a].items = Append(@, b)] \o t
<1>3. IsListOf(heap, a, kind) /\ IsA(heap', b, kind) /\ own[a] = 0 /\ HostList # RuleList
  BY <1>1 DEF TypeOK, Owned, HostList, RuleList
<1> HIDE DEF kind
<1>4. IsListOf(heap', a, kind)
  <2>1. /\ heap[a].items \in Seq(Nat) /\ IsA(heap', a, "list")
        /\ \A c \in ToSet(heap[a].items) : IsA(heap', c, kind)
    BY <1>1, <1>2, <1>3, PlacedLift, ListOwner DEF IsListOf
  <2>2. heap'[a].items = Append(heap[a].items, b)
    BY <1>2 DEF List
  <2>3. \A c \in ToSet(Append(heap[a].items, b)) : c = b \/ c \in ToSet(heap[a].items)
    BY <2>1 DEF ToSet
  <2> QED  BY <1>3, <2>1, <2>2, <2>3 DEF IsListOf
<1>5. \A c, k : IsListOf(heap, c, k) /\ c # a => IsListOf(heap', c, k)
  <2>1. \A c, k : IsListOf(heap, c, k) /\ c # a => heap'[c] = heap[c]
    BY <1>2 DEF IsListOf, IsA
  <2> QED  BY <1>2, <2>1, PlacedLift
<1>6. IsListOf(heap', HostList, "host") /\ IsListOf(heap', RuleList, "rule")
  <2>1. CASE a = HostList  BY <1>1, <1>3, <1>4, <1>5, <2>1 DEF TypeOK, kind
  <2>2. CASE a = RuleList  BY <1>1, <1>3, <1>4, <1>5, <2>2 DEF TypeOK, kind
  <2> QED  BY <2>1, <2>2
<1>7. \A c \in DOMAIN heap' : WellPlaced(heap', heap'[c])
  <2>1. ASSUME NEW c \in DOMAIN heap, c # a  PROVE  WellPlaced(heap', heap[c])
    <3>1. heap[c] \in Cells /\ WellPlaced(heap, heap[c])
      BY <1>1, HeapCells
    <3>2. ASSUME heap[c].kind = "policy", NEW d \in {heap[c].hosts, heap[c].rules} \ {None}
          PROVE  heap'[d] = heap[d]
      <4>1. own[d] = own[c] /\ own[c] > 0
        BY <2>1, <3>1, <3>2, RefsOf DEF Owned, Owning
      <4>2. d \in DOMAIN heap /\ d # a
        BY <1>3, <3>1, <3>2, <4>1 DEF WellPlaced, IsListOf, IsA
      <4> QED  BY <1>2, <4>2
    <3>3. heap[c].kind = "policy" => \A d \in {heap[c].hosts, heap[c].rules} \ {None} :
             ToSet(heap'[d].items) \subseteq ToSet(heap[d].items)
      BY <3>2
    <3> QED  BY ONLY <1>2, <3>1, <3>3, PlacedLift
  <2>2. WellPlaced(heap', heap'[a])
    BY <1>2, <1>4 DEF WellPlaced, IsListOf, IsA, List
  <2>3. ASSUME NEW c \in DOMAIN heap', c \notin DOMAIN heap  PROVE  WellPlaced(heap', heap'[c])
    <3>1. c - Len(heap) \in 1..Len(t) /\ Len(heap) + (c - Len(heap)) = c
      <4>1. Len(heap) \in Nat /\ DOMAIN heap = 1..Len(heap) /\ Len(t) \in Nat
        BY <1>1, HeapCells, LenProperties
      <4> QED  BY ONLY <1>2, <2>3, <4>1
    <3> QED  BY <1>2, <3>1
  <2> QED  BY <1>2, <2>1, <2>2, <2>3
<1>8. heap' \in Heaps
  BY <1>2, <1>7 DEF Heaps
<1>9. \A c \in DOMAIN heap : own[c] # 0 => heap'[c] = heap[c]
  BY <1>2, <1>3
<1>10. \A k \in DOMAIN policies : k # 0
  BY <1>1, HeapTyped
<1>11. /\ \A k \in DOMAIN policies : PolicyAt(heap', policies[k]) = PolicyAt(heap, policies[k])
       /\ sent.of # 0 => RulesAt(heap', sent.ep.rules) = RulesAt(heap, sent.ep.rules)
  BY ONLY <1>1, <1>9, <1>10, OthersKeep, 0 \in Int, Owned(own)
<1>12. Sending'
  <2>1. sent.of # 0 /\ sent.ep.rules # None => IsListOf(heap', sent.ep.rules, "rule")
    <3>1. CASE sent.of # 0 /\ sent.ep.rules # None
      <4>1. IsListOf(heap, sent.ep.rules, "rule") /\ own[sent.ep.rules] = sent.of /\ own[a] = 0
        BY <1>1, <1>3, <3>1 DEF Sending, Owned
      <4> QED  BY <1>5, <3>1, <4>1
    <3> QED  BY <3>1
  <2>2. sent' = sent
    OBVIOUS
  <2> QED  BY <1>1, <1>11, <2>1, <2>2 DEF Sending
<1>13. \A c, k : IsA(heap, c, k) => IsA(heap', c, k)
  BY <1>2, PlacedLift
<1>14. \A k \in DOMAIN policies : IsA(heap', policies[k], "policy")
  BY <1>1, <1>13 DEF TypeOK
<1> QED  BY <1>6, <1>8, <1>11, <1>12, <1>13, <1>14

\* The new cells have owners of their own; everybody else keeps his.
LEMMA GrownOwned ==
    ASSUME Structured, NEW own, Owned(own),
           NEW a \in {HostList, RuleList}, NEW b \in Nat, NEW t \in Seq(Cells),
           heap' = [heap EXCEPT ![a].items = Append(@, b)] \o t,
           NEW own2 \in [DOMAIN heap' -> Int],
           \A c \in DOMAIN heap : own2[c] = own[c],
           own2[b] = 0,
           \A i \in 1..Len(t) : /\ \A d \in Refs(t[i]) : own2[d] = own2[Len(heap) + i]
                                /\ t[i].kind # "policy",
           \A c \in args' : own2[c] = -1,
           UNCHANGED <<policies, sent>>
    PROVE  Owned(own2)'
<1>1. TypeOK /\ Sending /\ heap \in Heaps /\ Owning(heap, own)
  BY HeapTyped DEF Structured, Owned
<1>2. /\ heap' \in Seq(Cells) /\ DOMAIN heap' = 1..(Len(heap) + Len(t))
      /\ heap'[a] = List(Append(heap[a].items, b))
      /\ \A c \in DOMAIN heap : c # a => heap'[c] = heap[c]
      /\ \A i \in 1..Len(t) : heap'[Len(heap) + i] = t[i]
  BY ONLY <1>1, Listed, a \in {HostList, RuleList}, b \in Nat, t \in Seq(Cells),
          heap' = [heap EXCEPT ![a].items = Append(@, b)] \o t
<1>3. a \in DOMAIN heap /\ heap[a] \in Cells /\ heap[a].kind = "list" /\ own[a] = 0
  BY <1>1, HeapTyped, HeapCells DEF Owned
<1>4. \A c \in DOMAIN heap : \A d \in Refs(heap[c]) : d \in DOMAIN heap
  <2>1. \A c \in DOMAIN heap : heap[c] \in Cells /\ WellPlaced(heap, heap[c])
    BY <1>1, HeapCells
  <2> QED  BY <2>1, RefsOf, CellFields DEF WellPlaced, IsListOf, IsA
<1>5. \A c \in DOMAIN heap' : \A d \in Refs(heap'[c]) : own2[d] = own2[c]
  <2>1. ASSUME NEW c \in DOMAIN heap, c # a, NEW d \in Refs(heap'[c])  PROVE  own2[d] = own2[c]
    BY <1>1, <1>2, <1>4, <2>1 DEF Owning
  <2>2. ASSUME NEW d \in Refs(heap'[a])  PROVE  own2[d] = own2[a]
    <3>1. heap[a].items \in Seq(Nat) /\ Refs(heap[a]) = ToSet(heap[a].items)
      BY <1>3, RefsOf, CellFields
    <3>2. Refs(heap'[a]) = ToSet(Append(heap[a].items, b))
      BY <1>2 DEF Refs, List
    <3>3. \A e \in ToSet(Append(heap[a].items, b)) : e = b \/ e \in ToSet(heap[a].items)
      BY <3>1 DEF ToSet
    <3>4. d = b \/ d \in Refs(heap[a])
      BY <2>2, <3>1, <3>2, <3>3
    <3> QED  BY <1>1, <1>3, <1>4, <3>4 DEF Owning
  <2>3. ASSUME NEW c \in DOMAIN heap', c \notin DOMAIN heap, NEW d \in Refs(heap'[c])
        PROVE  own2[d] = own2[c]
    <3>1. c - Len(heap) \in 1..Len(t) /\ Len(heap) + (c - Len(heap)) = c
      <4>1. Len(heap) \in Nat /\ DOMAIN heap = 1..Len(heap) /\ Len(t) \in Nat
        BY <1>1, HeapCells, LenProperties
      <4> QED  BY ONLY <1>2, <2>3, <4>1
    <3> QED  BY <1>2, <2>3, <3>1
  <2> QED  BY <2>1, <2>2, <2>3
<1>6. \A c \in DOMAIN heap' : heap'[c].kind = "policy" => own2[c] > 0
  <2>1. ASSUME NEW c \in DOMAIN heap, c # a, heap'[c].kind = "policy"  PROVE  own2[c] > 0
    BY <1>2, <2>1 DEF Owned
  <2>2. heap'[a].kind # "policy"
    <3>1. \A s : List(s).kind = "list"
      BY DEF List
    <3> QED  BY <1>2, <3>1
  <2>3. ASSUME NEW c \in DOMAIN heap', c \notin DOMAIN heap  PROVE  heap'[c].kind # "policy"
    <3>1. c - Len(heap) \in 1..Len(t) /\ Len(heap) + (c - Len(heap)) = c
      <4>1. Len(heap) \in Nat /\ DOMAIN heap = 1..Len(heap) /\ Len(t) \in Nat
        BY <1>1, HeapCells, LenProperties
      <4> QED  BY ONLY <1>2, <2>3, <4>1
    <3> QED  BY <1>2, <2>3, <3>1
  <2> QED  BY <2>1, <2>2, <2>3
<1>7. own2[HostList] = 0 /\ own2[RuleList] = 0
  BY <1>1, HeapTyped DEF Owned
<1>8. \A k \in DOMAIN policies : own2[policies[k]] = k
  BY <1>1, HeapTyped DEF Owned
<1>9. sent.of # 0 /\ sent.ep.rules # None => own2[sent.ep.rules] = sent.of
  BY <1>1 DEF Owned, Sending, IsListOf, IsA
<1>10. Owning(heap', own2)
  BY <1>5 DEF Owning
<1> QED  BY <1>6, <1>7, <1>8, <1>9, <1>10 DEF Owned, HostList, RuleList

\* A step that leaves a policy's cells alone leaves PoliciesApart alone.
LEMMA ApartKept ==
    ASSUME PoliciesApart, UNCHANGED <<policies, meant, spoilt>>,
           \A k \in DOMAIN policies : PolicyAt(heap', policies[k]) = PolicyAt(heap, policies[k])
    PROVE  PoliciesApart'
  BY DEF PoliciesApart

\* allow_host() and deny_host() keep the invariant.
LEMMA InvAddHost ==
    ASSUME IInv, NEW p \in Hosts, NEW x \in Actions, AddHost(p, x)
    PROVE  IInv'
<1> DEFINE n == Len(heap)
           t == <<Host(p, x)>>
<1>1. TypeOK /\ Sending /\ Structured /\ BuilderIntact /\ PoliciesApart /\ AppliedAsAsked
      /\ heap \in Heaps
  BY HeapTyped DEF IInv, Structured
<1>2. PICK own : Owned(own)
  BY DEF IInv, Structured, Separate
<1>3. /\ heap' = [heap EXCEPT ![HostList].items = Append(@, n + 1)] \o t
      /\ told' = [told EXCEPT !.hosts = Append(@, <<p, x>>)]
      /\ UNCHANGED <<default, policies, args, sent, applied, meant, spoilt, tampers>>
  BY DEF AddHost
<1>4. /\ Host(p, x) \in Cells /\ t \in Seq(Cells) /\ Len(t) = 1 /\ t[1] = Host(p, x)
      /\ Host(p, x).kind = "host" /\ Host(p, x).pattern = p /\ Host(p, x).action = x
  BY DEF Cells, Host, Patterns
<1>5. n \in Nat /\ n + 1 \in Nat /\ HostList \in {HostList, RuleList} /\ DOMAIN heap = 1..n
  BY <1>1, HeapCells
<1> HIDE DEF t
<1>6. /\ heap' \in Seq(Cells) /\ DOMAIN heap' = 1..(n + 1)
      /\ heap'[HostList] = List(Append(heap[HostList].items, n + 1))
      /\ \A c \in DOMAIN heap : c # HostList => heap'[c] = heap[c]
      /\ heap'[n + 1] = Host(p, x)
  <2>1. /\ heap' \in Seq(Cells) /\ DOMAIN heap' = 1..(n + Len(t))
        /\ heap'[HostList] = List(Append(heap[HostList].items, n + 1))
        /\ \A c \in DOMAIN heap : c # HostList => heap'[c] = heap[c]
        /\ \A i \in 1..Len(t) : heap'[n + i] = t[i]
    BY <1>1, <1>3, <1>4, <1>5, Listed
  <2> QED  BY <1>4, <2>1
<1>7. IsA(heap', n + 1, "host")
  BY <1>4, <1>5, <1>6 DEF IsA
<1>8. \A i \in 1..Len(t) : i = 1 /\ t[i] = Host(p, x) /\ WellPlaced(heap', t[i])
  BY <1>4 DEF WellPlaced
<1>9. /\ heap' \in Heaps
      /\ IsListOf(heap', HostList, "host") /\ IsListOf(heap', RuleList, "rule")
      /\ \A k \in DOMAIN policies : PolicyAt(heap', policies[k]) = PolicyAt(heap, policies[k])
      /\ \A k \in DOMAIN policies : IsA(heap', policies[k], "policy")
      /\ \A c, k : IsA(heap, c, k) => IsA(heap', c, k)
      /\ Sending'
  BY <1>1, <1>2, <1>3, <1>4, <1>5, <1>7, <1>8, Grown
<1>10. Separate'
  <2>1. PICK own2 : own2 = [c \in DOMAIN heap' |-> IF c \in DOMAIN heap THEN own[c] ELSE 0]
    OBVIOUS
  <2>2. /\ own2 \in [DOMAIN heap' -> Int] /\ own2[n + 1] = 0
        /\ \A c \in DOMAIN heap : own2[c] = own[c]
    BY <1>2, <1>5, <1>6, <2>1 DEF Owned, Owning
  <2>3. \A i \in 1..Len(t) : /\ \A d \in Refs(t[i]) : own2[d] = own2[Len(heap) + i]
                             /\ t[i].kind # "policy"
    BY <1>4, <1>8, RefsOf
  <2>4. \A c \in args' : own2[c] = -1
    BY <1>1, <1>2, <1>3, <2>2 DEF Owned, TypeOK, IsA
  <2>5. Owned(own2)'
    BY <1>1, <1>2, <1>3, <1>4, <1>5, <2>2, <2>3, <2>4, GrownOwned
  <2> QED  BY <2>5 DEF Separate
<1>11. HostsAt(heap', HostList) = Append(HostsAt(heap, HostList), <<p, x>>)
  <2> DEFINE l == heap[HostList].items
  <2>1. l \in Seq(Nat) /\ \A j \in 1..Len(l) : IsA(heap, l[j], "host")
    BY <1>1, <1>2, ListOwner DEF TypeOK, Owned
  <2>2. heap[HostList].kind = "list" /\ heap'[HostList].items = Append(l, n + 1)
    BY <1>1, <1>6, HeapTyped DEF List
  <2>3. \A j \in 1..Len(l) : heap'[l[j]] = heap[l[j]]
    BY <1>6, <2>1, <2>2 DEF IsA
  <2> HIDE DEF l
  <2>4. /\ Len(Append(l, n + 1)) = Len(l) + 1 /\ Len(l) \in Nat
        /\ \A j \in 1..Len(l) : Append(l, n + 1)[j] = l[j]
        /\ Append(l, n + 1)[Len(l) + 1] = n + 1
    BY <1>5, <2>1
  <2> DEFINE at(h, b) == <<h[b].pattern, h[b].action>>
             vals == [j \in 1..Len(l) |-> at(heap, l[j])]
             more == [j \in 1..(Len(l) + 1) |-> at(heap', Append(l, n + 1)[j])]
  <2>5. HostsAt(heap, HostList) = vals /\ HostsAt(heap', HostList) = more
    <3>1. HostsAt(heap, HostList) = [j \in 1..Len(heap[HostList].items) |-> at(heap, heap[HostList].items[j])]
      BY <1>1, HostsTyped DEF TypeOK
    <3>2. HostsAt(heap', HostList)
             = [j \in 1..Len(heap'[HostList].items) |-> at(heap', heap'[HostList].items[j])]
      BY <1>9, HostsTyped
    <3> QED  BY <2>2, <2>4, <3>1, <3>2 DEF l
  <2>6. \A j \in 1..Len(l) : more[j] = vals[j]
    BY <2>3, <2>4
  <2>7. more[Len(l) + 1] = <<p, x>>
    BY <1>4, <1>6, <2>4
  <2>8. Over(Len(l), vals) /\ Over(Len(l) + 1, more)
    BY DEF Over
  <2> HIDE DEF vals, more
  <2>9. more = Append(vals, <<p, x>>)
    BY ONLY <2>4, <2>6, <2>7, <2>8, OneMore
  <2> QED  BY <2>5, <2>9
<1>12. RulesAt(heap', RuleList) = RulesAt(heap, RuleList)
  <2>1. heap'[RuleList] = heap[RuleList]
    BY <1>1, <1>6, HeapTyped DEF HostList, RuleList
  <2>2. \A b \in DOMAIN heap : heap[b].kind # "list" => heap'[b] = heap[b]
    BY <1>1, <1>6, HeapTyped
  <2> QED  BY <1>1, <1>2, <2>1, <2>2, OwnerFrame DEF Owned, TypeOK
<1>13. BuilderIntact'
  <2>1. told = [default |-> default, hosts |-> HostsAt(heap, HostList), rules |-> RulesAt(heap, RuleList)]
    BY <1>1 DEF BuilderIntact
  <2>2. told' = [default |-> default, hosts |-> Append(HostsAt(heap, HostList), <<p, x>>),
                 rules |-> RulesAt(heap, RuleList)]
    BY <1>3, <2>1
  <2> QED  BY <1>3, <1>11, <1>12, <2>2 DEF BuilderIntact, HostList, RuleList
<1>14. told' \in Policies
  <2>1. told'.default = told.default /\ told'.rules = told.rules /\ told'.hosts = Append(told.hosts, <<p, x>>)
        /\ told' = [default |-> told'.default, hosts |-> told'.hosts, rules |-> told'.rules]
    BY <1>1, <1>3 DEF TypeOK, Policies
  <2>2. told.hosts \in Seq(Patterns \X Actions) /\ <<p, x>> \in Patterns \X Actions
    BY <1>1 DEF TypeOK, Policies, Patterns
  <2>3. told'.hosts \in Seq(Patterns \X Actions)
    BY <2>1, <2>2
  <2>4. told.default \in Actions /\ told.rules \in Seq(Rules)
    BY <1>1 DEF TypeOK, Policies
  <2> QED  BY ONLY <2>1, <2>3, <2>4 DEF Policies
<1>15. TypeOK'
  BY <1>1, <1>3, <1>9, <1>14 DEF TypeOK, Heaps
<1>16. PoliciesApart' /\ AppliedAsAsked'
  BY <1>1, <1>3, <1>9, ApartKept DEF AppliedAsAsked
<1> QED  BY <1>9, <1>10, <1>13, <1>15, <1>16 DEF IInv, Structured

\* So do allow_rule() and deny_rule().
LEMMA InvAddRule ==
    ASSUME IInv, NEW r \in Rules, AddRule(r)
    PROVE  IInv'
<1> DEFINE n == Len(heap)
           given == r.methods # None
           list == Strings(IF given THEN r.methods ELSE <<>>)
           match == [kind |-> "match", host |-> r.host, path |-> r.path,
                     methods |-> IF given THEN n + 2 ELSE None]
           action == [kind |-> "action", type |-> r.action]
           rule == [kind |-> "rule", match |-> n + 3, action |-> n + 4, name |-> r.name]
           t == <<list, list, match, action, rule>>
<1>1. TypeOK /\ Sending /\ Structured /\ BuilderIntact /\ PoliciesApart /\ AppliedAsAsked
      /\ heap \in Heaps
  BY HeapTyped DEF IInv, Structured
<1>2. PICK own : Owned(own)
  BY DEF IInv, Structured, Separate
<1>3. /\ heap' = [heap EXCEPT ![RuleList].items = Append(@, n + 5)] \o t
      /\ told' = [told EXCEPT !.rules = Append(@, r)]
      /\ args' = IF given THEN args \cup {n + 1} ELSE args
      /\ UNCHANGED <<default, policies, sent, applied, meant, spoilt, tampers>>
  BY DEF AddRule, Told
<1>4. n \in Nat /\ n + 5 \in Nat /\ RuleList \in {HostList, RuleList} /\ DOMAIN heap = 1..n
  BY <1>1, HeapCells
<1>5. /\ r.host \in Hosts /\ r.path \in Paths /\ r.name \in Names /\ r.action \in Actions
      /\ given => r.methods \in Methods
      /\ r = [host |-> r.host, path |-> r.path, name |-> r.name, action |-> r.action,
              methods |-> r.methods]
  BY DEF Rules
<1>6. /\ list \in Cells /\ list.kind = "strings"
      /\ given => list.items = r.methods
  BY <1>5 DEF Cells, Strings
<1>7. /\ match \in Cells /\ match.kind = "match" /\ match.host = r.host /\ match.path = r.path
      /\ match.methods = IF given THEN n + 2 ELSE None
  BY <1>4, <1>5 DEF Cells
<1>8. action \in Cells /\ action.kind = "action" /\ action.type = r.action
  BY <1>5 DEF Cells
<1>9. /\ rule \in Cells /\ rule.kind = "rule" /\ rule.match = n + 3 /\ rule.action = n + 4
      /\ rule.name = r.name
  BY <1>4, <1>5 DEF Cells
<1> HIDE DEF list, match, action, rule
<1>10. /\ t \in Seq(Cells) /\ Len(t) = 5
       /\ t[1] = list /\ t[2] = list /\ t[3] = match /\ t[4] = action /\ t[5] = rule
  BY <1>6, <1>7, <1>8, <1>9
<1> HIDE DEF t
<1>11. /\ heap' \in Seq(Cells) /\ DOMAIN heap' = 1..(n + 5)
       /\ heap'[RuleList] = List(Append(heap[RuleList].items, n + 5))
       /\ \A c \in DOMAIN heap : c # RuleList => heap'[c] = heap[c]
       /\ heap'[n + 1] = list /\ heap'[n + 2] = list /\ heap'[n + 3] = match
       /\ heap'[n + 4] = action /\ heap'[n + 5] = rule
  <2>1. /\ heap' \in Seq(Cells) /\ DOMAIN heap' = 1..(n + Len(t))
        /\ heap'[RuleList] = List(Append(heap[RuleList].items, n + 5))
        /\ \A c \in DOMAIN heap : c # RuleList => heap'[c] = heap[c]
        /\ \A i \in 1..Len(t) : heap'[n + i] = t[i]
    BY <1>1, <1>3, <1>4, <1>10, Listed
  <2> QED  BY <1>10, <2>1
<1>12. /\ IsA(heap', n + 1, "strings") /\ IsA(heap', n + 2, "strings")
       /\ IsA(heap', n + 3, "match") /\ IsA(heap', n + 4, "action")
       /\ IsA(heap', n + 5, "rule")
  BY <1>4, <1>6, <1>7, <1>8, <1>9, <1>11 DEF IsA
<1>13. \A i \in 1..Len(t) : i \in {1, 2, 3, 4, 5}
  BY <1>10
<1>14. \A i \in 1..Len(t) : WellPlaced(heap', t[i])
  <2>1. WellPlaced(heap', list) /\ WellPlaced(heap', action)
    BY <1>6, <1>8 DEF WellPlaced
  <2>2. WellPlaced(heap', match)
    BY <1>7, <1>12 DEF WellPlaced
  <2>3. WellPlaced(heap', rule)
    BY <1>9, <1>12 DEF WellPlaced
  <2> QED  BY <1>10, <1>13, <2>1, <2>2, <2>3
<1>15. /\ heap' \in Heaps
       /\ IsListOf(heap', HostList, "host") /\ IsListOf(heap', RuleList, "rule")
       /\ \A k \in DOMAIN policies : PolicyAt(heap', policies[k]) = PolicyAt(heap, policies[k])
       /\ \A k \in DOMAIN policies : IsA(heap', policies[k], "policy")
       /\ \A c, k : IsA(heap, c, k) => IsA(heap', c, k)
       /\ Sending'
  <2>1. IsA(heap', n + 5, IF RuleList = HostList THEN "host" ELSE "rule")
    BY <1>12 DEF RuleList, HostList
  <2> QED  BY <1>1, <1>2, <1>3, <1>4, <1>10, <1>14, <2>1, Grown
<1>16. Separate'
  <2>1. PICK own2 : own2 = [c \in DOMAIN heap' |->
                              IF c \in DOMAIN heap THEN own[c] ELSE IF c = n + 1 THEN -1 ELSE 0]
    OBVIOUS
  <2>2. /\ own2 \in [DOMAIN heap' -> Int]
        /\ own2[n + 1] = -1 /\ own2[n + 2] = 0 /\ own2[n + 3] = 0
        /\ own2[n + 4] = 0 /\ own2[n + 5] = 0
        /\ \A c \in DOMAIN heap : own2[c] = own[c]
    BY <1>2, <1>4, <1>11, <2>1 DEF Owned, Owning
  <2>3. \A i \in 1..Len(t) : /\ \A d \in Refs(t[i]) : own2[d] = own2[Len(heap) + i]
                             /\ t[i].kind # "policy"
    <3>1. Refs(list) = {} /\ Refs(action) = {} /\ Refs(rule) = {n + 3, n + 4}
          /\ \A d \in Refs(match) : d = n + 2
      BY <1>6, <1>7, <1>8, <1>9, RefsOf
    <3> QED  BY <1>6, <1>7, <1>8, <1>9, <1>10, <1>13, <2>2, <3>1
  <2>4. \A c \in args' : own2[c] = -1
    BY <1>1, <1>2, <1>3, <2>2 DEF Owned, TypeOK, IsA
  <2>5. Owned(own2)'
    <3>1. t \in Seq(Cells) /\ own2[n + 5] = 0 /\ own2 \in [DOMAIN heap' -> Int]
      BY <1>10, <2>2
    <3>2. \A c \in DOMAIN heap : own2[c] = own[c]
      BY <2>2
    <3>3. UNCHANGED <<policies, sent>>
      BY <1>3
    <3>4. heap' = [heap EXCEPT ![RuleList].items = Append(@, n + 5)] \o t
      BY <1>3
    <3> QED  BY ONLY <1>1, <1>2, <1>4, <2>3, <2>4, <3>1, <3>2, <3>3, <3>4, GrownOwned
  <2> QED  BY <2>5 DEF Separate
<1>17. RuleAt(heap', n + 5) = r
  <2>1. heap'[heap'[n + 5].match] = match /\ heap'[heap'[n + 5].action] = action
        /\ heap'[n + 5].name = r.name
    BY <1>9, <1>11
  <2>2. match.methods # None <=> given
    BY <1>4, <1>7, NoneAssumption
  <2>3. given => heap'[match.methods].items = r.methods
    BY <1>6, <1>7, <1>11
  <2>4. (IF match.methods = None THEN None ELSE heap'[match.methods].items) = r.methods
    BY <2>2, <2>3
  <2> QED  BY <1>5, <1>7, <1>8, <2>1, <2>4 DEF RuleAt
<1>18. RulesAt(heap', RuleList) = Append(RulesAt(heap, RuleList), r)
  <2> DEFINE l == heap[RuleList].items
             vals == [j \in 1..Len(l) |-> RuleAt(heap, l[j])]
             more == [j \in 1..(Len(l) + 1) |-> RuleAt(heap', Append(l, n + 5)[j])]
  <2>1. l \in Seq(Nat) /\ \A j \in 1..Len(l) : IsA(heap, l[j], "rule")
    BY <1>1, <1>2, ListOwner DEF TypeOK, Owned
  <2>2. heap[RuleList].kind = "list" /\ heap'[RuleList].items = Append(l, n + 5)
    BY <1>1, <1>11, HeapTyped DEF List
  <2>3. \A j \in 1..Len(l) : RuleAt(heap', l[j]) = RuleAt(heap, l[j])
    <3>1. ASSUME NEW j \in 1..Len(l)  PROVE  SameRule(heap, heap', l[j])
      <4>1. IsA(heap, l[j], "rule") /\ Owning(heap, own)
        BY <1>2, <2>1, <3>1 DEF Owned
      <4> HIDE DEF l
      <4>2. \A c, k : IsA(heap, c, k) /\ k # "list" => heap'[c] = heap[c]
        BY <1>11, <2>2 DEF IsA
      <4> QED  BY <1>1, <4>1, <4>2, RuleOwner DEF SameRule
    <3> QED  BY <3>1, RuleFrame
  <2> HIDE DEF l
  <2>4. /\ Len(Append(l, n + 5)) = Len(l) + 1 /\ Len(l) \in Nat
        /\ \A j \in 1..Len(l) : Append(l, n + 5)[j] = l[j]
        /\ Append(l, n + 5)[Len(l) + 1] = n + 5
    BY <1>4, <2>1
  <2>5. RulesAt(heap, RuleList) = vals /\ RulesAt(heap', RuleList) = more
    <3>1. ItemsAt(heap, RuleList) = l /\ ItemsAt(heap', RuleList) = Append(l, n + 5)
      BY <2>2, NoneAssumption DEF ItemsAt, l, RuleList
    <3> QED  BY <2>4, <3>1, RulesByRule
  <2>6. \A j \in 1..Len(l) : more[j] = vals[j]
    BY <2>3, <2>4
  <2>7. more[Len(l) + 1] = r
    BY <1>17, <2>4
  <2>8. Over(Len(l), vals) /\ Over(Len(l) + 1, more)
    BY DEF Over
  <2> HIDE DEF vals, more
  <2>9. more = Append(vals, r)
    BY ONLY <2>4, <2>6, <2>7, <2>8, OneMore
  <2> QED  BY <2>5, <2>9
<1>19. HostsAt(heap', HostList) = HostsAt(heap, HostList)
  <2>1. heap'[HostList] = heap[HostList]
    BY <1>1, <1>11, HeapTyped DEF HostList, RuleList
  <2>2. \A b \in DOMAIN heap : heap[b].kind # "list" => heap'[b] = heap[b]
    BY <1>1, <1>11, HeapTyped
  <2> QED  BY <1>1, <1>2, <2>1, <2>2, OwnerFrame DEF Owned, TypeOK
<1>20. BuilderIntact'
  <2>1. told = [default |-> default, hosts |-> HostsAt(heap, HostList), rules |-> RulesAt(heap, RuleList)]
    BY <1>1 DEF BuilderIntact
  <2>2. told' = [default |-> default, hosts |-> HostsAt(heap, HostList),
                 rules |-> Append(RulesAt(heap, RuleList), r)]
    BY <1>3, <2>1
  <2> QED  BY <1>3, <1>18, <1>19, <2>2 DEF BuilderIntact, HostList, RuleList
<1>21. told' \in Policies
  <2>1. /\ told'.default = told.default /\ told'.hosts = told.hosts /\ told'.rules = Append(told.rules, r)
        /\ told' = [default |-> told'.default, hosts |-> told'.hosts, rules |-> told'.rules]
    BY <1>1, <1>3 DEF TypeOK, Policies
  <2>2. told.rules \in Seq(Rules)
    BY <1>1 DEF TypeOK, Policies
  <2>3. told'.rules \in Seq(Rules)
    BY <2>1, <2>2
  <2>4. told.default \in Actions /\ told.hosts \in Seq(Patterns \X Actions)
    BY <1>1 DEF TypeOK, Policies
  <2> QED  BY ONLY <2>1, <2>3, <2>4 DEF Policies
<1>22. \A c \in args' : IsA(heap', c, "strings")
  BY <1>1, <1>3, <1>12, <1>15 DEF TypeOK
<1>23. TypeOK'
  BY <1>1, <1>3, <1>15, <1>21, <1>22 DEF TypeOK, Heaps
<1>24. PoliciesApart' /\ AppliedAsAsked'
  BY <1>1, <1>3, <1>15, ApartKept DEF AppliedAsAsked
<1> QED  BY <1>15, <1>16, <1>20, <1>23, <1>24 DEF IInv, Structured

\* So do deny_by_default() and allow_by_default(), which leave the heap alone.
LEMMA InvByDefault ==
    ASSUME IInv, NEW x \in Actions, ByDefault(x)
    PROVE  IInv'
<1> USE DEF IInv, Structured
<1>1. /\ default' = x /\ told' = [told EXCEPT !.default = x]
      /\ UNCHANGED <<heap, policies, args, sent, applied, meant, spoilt, tampers>>
  BY DEF ByDefault
<1>2. told \in Policies
  BY DEF TypeOK
<1>3. told' = [default |-> x, hosts |-> told.hosts, rules |-> told.rules]
  BY <1>1, <1>2 DEF Policies
<1>4. told' \in Policies
  BY <1>2, <1>3 DEF Policies
<1>5. TypeOK'
  BY <1>1, <1>4 DEF TypeOK
<1>6. BuilderIntact'
  BY <1>1, <1>3 DEF BuilderIntact
<1>7. Separate'
  BY <1>1 DEF Separate, Owned
<1>8. Sending' /\ PoliciesApart' /\ AppliedAsAsked'
  BY <1>1 DEF Sending, PoliciesApart, AppliedAsAsked
<1> QED  BY <1>5, <1>6, <1>7, <1>8

-----------------------------------------------------------------------------
(* A policy on its way to a sandbox.                                       *)

\* The adapter keeps what it was given: by value, but for the list of rules.
LEMMA CoerceKeeps ==
    ASSUME TypeOK, NEW own, Owned(own), NEW k \in DOMAIN policies,
           NEW p, p = policies[k], NEW ep, ep = Coerce(heap, p)
    PROVE  /\ ep.default = PolicyAt(heap, p).default
           /\ ep.hosts = PolicyAt(heap, p).hosts
           /\ RulesAt(heap, ep.rules) = PolicyAt(heap, p).rules
           /\ ep.rules # None => IsListOf(heap, ep.rules, "rule") /\ own[ep.rules] = k
<1>1. /\ heap \in Heaps /\ Owning(heap, own) /\ own[p] = k /\ IsA(heap, p, "policy")
  BY HeapTyped DEF TypeOK, Owned
<1>2. /\ p \in DOMAIN heap /\ heap[p] \in Cells /\ WellPlaced(heap, heap[p])
      /\ heap[p].kind = "policy"
  BY <1>1, HeapCells DEF IsA
<1>3. /\ ep.default = heap[p].default /\ ep.hosts = HostsAt(heap, heap[p].hosts)
      /\ ep.rules = IF ItemsAt(heap, heap[p].rules) = <<>> THEN None ELSE heap[p].rules
  BY DEF Coerce
<1>4. ItemsAt(heap, ep.rules) = ItemsAt(heap, heap[p].rules)
  BY <1>3 DEF ItemsAt
<1>5. RulesAt(heap, ep.rules) = RulesAt(heap, heap[p].rules)
  BY <1>4, RulesByRule
<1>6. ep.rules # None => ep.rules = heap[p].rules
  BY <1>3
<1>7. heap[p].rules # None => IsListOf(heap, heap[p].rules, "rule") /\ own[heap[p].rules] = own[p]
  BY <1>1, <1>2, RefsOf DEF WellPlaced, Owning
<1> QED  BY <1>1, <1>3, <1>5, <1>6, <1>7 DEF PolicyAt

\* So does create_sandbox(), which reads the policy.
LEMMA InvCreate ==
    ASSUME IInv, NEW k \in DOMAIN policies, NEW b \in BOOLEAN, Create(k, b)
    PROVE  IInv'
<1> DEFINE p == policies[k]
           ep == Coerce(heap, p)
           asked == PolicyAt(heap, p)
<1>1. /\ sent' = [of |-> k, ep |-> ep, asked |-> asked, kept |-> TRUE, waits |-> b]
      /\ applied' = IF b THEN None ELSE Serialize(heap, ep)
      /\ UNCHANGED <<heap, builder, spoilt, tampers>>
  BY DEF Create
<1>2. PICK own : Owned(own)
  BY DEF IInv, Structured, Separate
<1>3. TypeOK /\ k \in Nat /\ k > 0
  BY HeapTyped DEF IInv, Structured
<1>4. /\ ep.default = asked.default /\ ep.hosts = asked.hosts
      /\ RulesAt(heap, ep.rules) = asked.rules
      /\ ep.rules # None => IsListOf(heap, ep.rules, "rule") /\ own[ep.rules] = k
  BY <1>2, <1>3, CoerceKeeps
<1> HIDE DEF ep, asked
<1>5. /\ sent'.of = k /\ sent'.ep = ep /\ sent'.asked = asked /\ sent'.kept = TRUE /\ sent'.waits = b
      /\ heap' = heap /\ policies' = policies /\ args' = args
  BY <1>1 DEF builder
<1>6. Sending'
  BY <1>1, <1>3, <1>4, <1>5 DEF Sending
<1>7. TypeOK'
  BY <1>1, <1>3, <1>5 DEF TypeOK, builder
<1>8. Separate'
  <2>1. Owned(own)'
    BY <1>2, <1>4, <1>5 DEF Owned
  <2> QED  BY <2>1 DEF Separate
<1>9. AppliedAsAsked'
  <2>1. CASE b  BY <1>1, <2>1 DEF AppliedAsAsked
  <2>2. CASE ~ b
    <3>1. applied' = [default |-> ep.default, hosts |-> ep.hosts, rules |-> RulesAt(heap, ep.rules)]
      BY <1>1, <2>2 DEF Serialize
    <3> QED  BY <1>4, <1>5, <3>1 DEF AppliedAsAsked
  <2> QED  BY <2>1, <2>2
<1>10. BuilderIntact' /\ PoliciesApart'
  BY <1>1 DEF IInv, BuilderIntact, PoliciesApart, builder
<1> QED  BY <1>6, <1>7, <1>8, <1>9, <1>10 DEF IInv, Structured

\* So does set_egress_policy(), which reads its rules once more.
LEMMA InvSetPolicy ==
    ASSUME IInv, SetPolicy
    PROVE  IInv'
<1>1. /\ sent.waits /\ sent' = [sent EXCEPT !.waits = FALSE]
      /\ applied' = Serialize(heap, sent.ep)
      /\ UNCHANGED <<heap, builder, spoilt, tampers>>
  BY DEF SetPolicy
<1>2. TypeOK /\ Sending
  BY DEF IInv, Structured
<1>3. sent' = [of |-> sent.of, ep |-> sent.ep, asked |-> sent.asked,
               kept |-> sent.kept, waits |-> FALSE]
  BY <1>1, <1>2 DEF Sending
<1>4. Sending'
  BY <1>1, <1>2, <1>3 DEF Sending
<1>5. TypeOK'
  BY <1>1, <1>2, <1>3 DEF TypeOK, builder
<1>6. Separate'
  BY <1>1, <1>3 DEF IInv, Structured, Separate, Owned, builder
<1>7. AppliedAsAsked'
  <2>1. applied' = [default |-> sent.ep.default, hosts |-> sent.ep.hosts,
                    rules |-> RulesAt(heap, sent.ep.rules)]
    BY <1>1 DEF Serialize
  <2> QED  BY <1>1, <1>2, <1>3, <2>1 DEF AppliedAsAsked, Sending
<1>8. BuilderIntact' /\ PoliciesApart'
  BY <1>1 DEF IInv, BuilderIntact, PoliciesApart, builder
<1> QED  BY <1>4, <1>5, <1>6, <1>7, <1>8 DEF IInv, Structured

-----------------------------------------------------------------------------
(* The program changes what it has.                                        *)

\* A changed cell stays in its place, and in its owner's hands.
LEMMA Changed ==
    ASSUME TypeOK, Sending, NEW own, Owned(own), NEW a \in DOMAIN heap, own[a] # 0,
           heap' = [heap EXCEPT ![a] = Spoil(@)]
    PROVE  /\ heap' \in Heaps /\ DOMAIN heap' = DOMAIN heap /\ Owning(heap', own)
           /\ \A c, k : IsA(heap, c, k) => IsA(heap', c, k)
           /\ \A c, k : IsListOf(heap, c, k) => IsListOf(heap', c, k)
           /\ \A c \in DOMAIN heap : heap'[c].kind = heap[c].kind
           /\ \A k \in DOMAIN policies : k # own[a] =>
                 PolicyAt(heap', policies[k]) = PolicyAt(heap, policies[k])
           /\ HostsAt(heap', HostList) = HostsAt(heap, HostList)
           /\ RulesAt(heap', RuleList) = RulesAt(heap, RuleList)
           /\ sent.of # 0 /\ sent.of # own[a] =>
                 RulesAt(heap', sent.ep.rules) = RulesAt(heap, sent.ep.rules)
<1>1. /\ heap \in Heaps /\ heap \in Seq(Cells) /\ DOMAIN heap = 1..Len(heap)
      /\ heap[a] \in Cells /\ WellPlaced(heap, heap[a]) /\ Owning(heap, own)
  BY HeapTyped, HeapCells DEF Owned
<1> DEFINE c0 == Spoil(heap[a])
<1>2. /\ c0 \in Cells /\ c0.kind = heap[a].kind
      /\ c0.kind = "policy" => c0.hosts = heap[a].hosts /\ c0.rules = heap[a].rules
      /\ c0.kind = "list" => c0.items = <<>>
      /\ c0.kind = "rule" => c0.match = heap[a].match /\ c0.action = heap[a].action
      /\ c0.kind = "match" => c0.methods = heap[a].methods
  BY <1>1, SpoilCell
<1>3. heap' = [heap EXCEPT ![a] = c0]
  OBVIOUS
<1> HIDE DEF c0
<1>4. heap' \in Seq(Cells)
  BY <1>1, <1>2, <1>3, ExceptSeq
<1>5. DOMAIN heap' = DOMAIN heap /\ heap'[a] = c0 /\ \A c \in DOMAIN heap : c # a => heap'[c] = heap[c]
  BY ONLY <1>1, <1>3, a \in DOMAIN heap
<1>6. SameKinds(heap, heap')
  BY ONLY <1>2, <1>5 DEF SameKinds
<1>7. \A c \in DOMAIN heap : heap[c].kind = "list" => ToSet(heap'[c].items) \subseteq ToSet(heap[c].items)
  BY ONLY <1>2, <1>5 DEF ToSet
<1>8. \A c, k : IsListOf(heap, c, k) => IsListOf(heap', c, k)
  BY ONLY <1>6, <1>7, PlacedLift DEF IsListOf, IsA
<1>9. \A c, k : IsA(heap, c, k) => IsA(heap', c, k)
  BY ONLY <1>6, PlacedLift
<1>10. \A c : WellPlaced(heap, c) => WellPlaced(heap', c)
  BY ONLY <1>5, <1>8, <1>9 DEF WellPlaced
<1>11. \A c \in DOMAIN heap : WellPlaced(heap', heap'[c])
  <2>1. WellPlaced(heap, c0)
    BY ONLY <1>1, <1>2 DEF WellPlaced, ToSet
  <2>2. \A c \in DOMAIN heap : WellPlaced(heap, heap[c])
    BY <1>1, HeapCells
  <2> QED  BY ONLY <1>5, <1>10, <2>1, <2>2
<1>12. heap' \in Heaps
  BY <1>4, <1>5, <1>11 DEF Heaps
<1>13. Owning(heap', own)
  <2>1. Refs(c0) \subseteq Refs(heap[a])
    BY ONLY <1>1, <1>2, RefsOf, CellFields DEF ToSet
  <2> QED  BY ONLY <1>1, <1>5, <2>1 DEF Owning
<1>14. \A c \in DOMAIN heap : own[c] # own[a] => heap'[c] = heap[c]
  BY <1>5
<1>15. own[a] \in Int
  BY <1>1 DEF Owning
<1>16. /\ \A k \in DOMAIN policies : k # own[a] =>
             PolicyAt(heap', policies[k]) = PolicyAt(heap, policies[k])
       /\ own[a] # 0 => /\ HostsAt(heap', HostList) = HostsAt(heap, HostList)
                        /\ RulesAt(heap', RuleList) = RulesAt(heap, RuleList)
       /\ sent.of # 0 /\ sent.of # own[a] =>
             RulesAt(heap', sent.ep.rules) = RulesAt(heap, sent.ep.rules)
  BY ONLY <1>14, <1>15, TypeOK, Sending, Owned(own), OthersKeep
<1> QED  BY <1>5, <1>6, <1>8, <1>9, <1>12, <1>13, <1>16 DEF SameKinds

\* So does whatever the program does with the cells it can reach.
LEMMA InvTamper ==
    ASSUME IInv, Tamper
    PROVE  IInv'
<1>1. PICK own : Owned(own)
  BY DEF IInv, Structured, Separate
<1>2. TypeOK /\ Sending /\ heap \in Heaps /\ Owning(heap, own)
      /\ BuilderIntact /\ PoliciesApart /\ AppliedAsAsked
  BY <1>1, HeapTyped DEF IInv, Structured, Owned
<1>3. /\ tampers < MaxTampers /\ tampers' = tampers + 1 /\ UNCHANGED <<builder, applied>>
  BY DEF Tamper
<1>4. tampers' \in 0..MaxTampers
  BY <1>2, <1>3, BoundAssumption DEF TypeOK
<1>5. PICK a \in DOMAIN heap :
         /\ heap' = [heap EXCEPT ![a] = Spoil(@)] /\ own[a] # 0
         /\ \/ own[a] = -1 /\ UNCHANGED <<spoilt, sent>>
            \/ /\ own[a] \in DOMAIN policies /\ spoilt' = spoilt \cup {own[a]}
               /\ sent' = [sent EXCEPT !.kept = @ /\ sent.of # own[a]]
  <2>1. CASE (\E a \in args : heap' = [heap EXCEPT ![a] = Spoil(@)]) /\ UNCHANGED <<spoilt, sent>>
    <3>1. PICK a \in args : heap' = [heap EXCEPT ![a] = Spoil(@)]
      BY <2>1
    <3>2. a \in DOMAIN heap /\ own[a] = -1 /\ own[a] # 0
      BY <1>1, <1>2 DEF Owned, TypeOK, IsA
    <3> QED  BY ONLY <2>1, <3>1, <3>2, Zenon
  <2>2. CASE \E k \in DOMAIN policies :
                /\ \E a \in Reach(policies[k]) : heap' = [heap EXCEPT ![a] = Spoil(@)]
                /\ spoilt' = spoilt \cup {k}
                /\ sent' = [sent EXCEPT !.kept = @ /\ sent.of # k]
    <3>1. PICK k \in DOMAIN policies :
             /\ \E a \in Reach(policies[k]) : heap' = [heap EXCEPT ![a] = Spoil(@)]
             /\ spoilt' = spoilt \cup {k}
             /\ sent' = [sent EXCEPT !.kept = @ /\ sent.of # k]
      BY <2>2
    <3>2. policies[k] \in DOMAIN heap /\ own[policies[k]] = k /\ k > 0 /\ k \in Nat
      BY <1>1, <1>2, HeapTyped DEF Owned
    <3>3. PICK a \in Reach(policies[k]) : heap' = [heap EXCEPT ![a] = Spoil(@)]
      BY <3>1
    <3>4. a \in DOMAIN heap /\ own[a] = k /\ own[a] # 0
      BY <1>2, <3>2, ReachOwner
    <3>5. /\ own[a] \in DOMAIN policies /\ spoilt' = spoilt \cup {own[a]}
          /\ sent' = [sent EXCEPT !.kept = @ /\ sent.of # own[a]]
      BY <3>1, <3>4
    <3> QED  BY ONLY <3>3, <3>4, <3>5, Zenon
  <2> QED  BY <2>1, <2>2 DEF Tamper
<1>6. /\ heap' \in Heaps /\ DOMAIN heap' = DOMAIN heap /\ Owning(heap', own)
      /\ \A c, k : IsA(heap, c, k) => IsA(heap', c, k)
      /\ \A c, k : IsListOf(heap, c, k) => IsListOf(heap', c, k)
      /\ \A c \in DOMAIN heap : heap'[c].kind = heap[c].kind
      /\ \A k \in DOMAIN policies : k # own[a] =>
            PolicyAt(heap', policies[k]) = PolicyAt(heap, policies[k])
      /\ HostsAt(heap', HostList) = HostsAt(heap, HostList)
      /\ RulesAt(heap', RuleList) = RulesAt(heap, RuleList)
      /\ sent.of # 0 /\ sent.of # own[a] =>
            RulesAt(heap', sent.ep.rules) = RulesAt(heap, sent.ep.rules)
  BY <1>1, <1>2, <1>5, Changed
<1>7. /\ sent'.of = sent.of /\ sent'.ep = sent.ep /\ sent'.asked = sent.asked
      /\ sent'.waits = sent.waits /\ sent'.kept \in BOOLEAN
      /\ sent'.kept => sent.kept /\ (sent.of # own[a] \/ own[a] = -1)
      /\ sent' = [of |-> sent'.of, ep |-> sent'.ep, asked |-> sent'.asked,
                  kept |-> sent'.kept, waits |-> sent'.waits]
  <2>1. CASE UNCHANGED sent /\ own[a] = -1
    BY <1>2, <2>1 DEF Sending, TypeOK
  <2>2. CASE sent' = [sent EXCEPT !.kept = @ /\ sent.of # own[a]]
    <3>1. sent' = [of |-> sent.of, ep |-> sent.ep, asked |-> sent.asked,
                   kept |-> sent.kept /\ sent.of # own[a], waits |-> sent.waits]
      BY <1>2, <2>2 DEF Sending
    <3> QED  BY <1>2, <3>1 DEF TypeOK
  <2> QED  BY <1>5, <2>1, <2>2
<1>8. /\ default' = default /\ policies' = policies /\ args' = args /\ told' = told /\ meant' = meant
      /\ applied' = applied
  BY <1>3 DEF builder
<1>9. spoilt' \subseteq DOMAIN policies
  BY <1>2, <1>5 DEF TypeOK
<1>10. TypeOK'
  BY ONLY <1>2, <1>4, <1>6, <1>7, <1>8, <1>9 DEF TypeOK, Heaps, HostList, RuleList
<1>11. Separate'
  <2>1. Owned(own)'
    BY ONLY <1>1, <1>6, <1>7, <1>8 DEF Owned, HostList, RuleList
  <2> QED  BY <2>1 DEF Separate
<1>12. Sending'
  <2>1. sent.of # 0 => sent.of # -1
    BY <1>2, HeapTyped DEF TypeOK
  <2>2. sent'.kept /\ sent.of # 0 => RulesAt(heap', sent.ep.rules) = RulesAt(heap, sent.ep.rules)
    BY <1>6, <1>7, <2>1
  <2> QED  BY ONLY <1>2, <1>6, <1>7, <2>2 DEF Sending
<1>13. BuilderIntact'
  BY ONLY <1>2, <1>6, <1>8 DEF BuilderIntact, HostList, RuleList
<1>14. PoliciesApart'
  <2>1. ASSUME NEW k \in DOMAIN policies \ spoilt'  PROVE  k # own[a] /\ k \notin spoilt
    BY <1>2, <1>5, <2>1, HeapTyped
  <2> QED  BY ONLY <1>2, <1>6, <1>8, <2>1 DEF PoliciesApart
<1>15. AppliedAsAsked'
  BY ONLY <1>2, <1>7, <1>8 DEF AppliedAsAsked
<1> QED  BY <1>10, <1>11, <1>12, <1>13, <1>14, <1>15 DEF IInv, Structured

-----------------------------------------------------------------------------
(* build().                                                                *)

\* The sequence g is p, q, s and t, one behind the other.
Joined4(g, p, q, s, t) ==
    LET a == Len(p)
        b == Len(q)
        c == Len(s)
        d == Len(t)
    IN  /\ Len(g) = a + b + c + d /\ DOMAIN g = 1..(a + b + c + d)
        /\ \A i \in 1..a : g[i] = p[i]
        /\ \A i \in 1..b : g[a + i] = q[i]
        /\ \A i \in 1..c : g[a + b + i] = s[i]
        /\ \A i \in 1..d : g[a + b + c + i] = t[i]

\* Four sequences behind each other.
LEMMA Concat4 ==
    ASSUME NEW S, NEW p \in Seq(S), NEW q \in Seq(S), NEW s \in Seq(S), NEW t \in Seq(S)
    PROVE  p \o q \o s \o t \in Seq(S) /\ Joined4(p \o q \o s \o t, p, q, s, t)
<1> DEFINE e == p \o q
           f == e \o s
           g == f \o t
<1>1. e \in Seq(S) /\ Joined(e, p, q)
  BY Concat
<1> HIDE DEF e
<1>2. f \in Seq(S) /\ Joined(f, e, s)
  BY <1>1, Concat
<1> HIDE DEF f
<1>3. g \in Seq(S) /\ Joined(g, f, t)
  BY <1>2, Concat
<1> HIDE DEF g
<1>4. Len(p) \in Nat /\ Len(q) \in Nat /\ Len(s) \in Nat /\ Len(t) \in Nat
  BY LenProperties
<1>5. Joined4(g, p, q, s, t)
  <2> DEFINE a == Len(p)
             b == Len(q)
             c == Len(s)
             d == Len(t)
  <2>1. /\ a \in Nat /\ b \in Nat /\ c \in Nat /\ d \in Nat
        /\ Len(p) = a /\ Len(q) = b /\ Len(s) = c /\ Len(t) = d
    BY <1>4
  <2> HIDE DEF a, b, c, d
  <2>2. /\ Len(e) = a + b
        /\ \A i \in 1..a : e[i] = p[i]
        /\ \A i \in 1..b : e[a + i] = q[i]
    BY ONLY <1>1, <2>1, JoinedAt
  <2>3. a + b \in Nat /\ a + b + c \in Nat
    BY ONLY <2>1
  <2>4. /\ Len(f) = a + b + c
        /\ \A i \in 1..(a + b) : f[i] = e[i]
        /\ \A i \in 1..c : f[a + b + i] = s[i]
    BY ONLY <1>2, <2>1, <2>2, <2>3, JoinedAt
  <2>5. /\ Len(g) = a + b + c + d /\ DOMAIN g = 1..(a + b + c + d)
        /\ \A i \in 1..(a + b + c) : g[i] = f[i]
        /\ \A i \in 1..d : g[a + b + c + i] = t[i]
    <3>1. PICK m \in Nat : m = a + b + c
      BY <2>3
    <3>2. Len(f) = m
      BY <2>4, <3>1
    <3>3. /\ Len(g) = m + d /\ DOMAIN g = 1..(m + d)
          /\ \A i \in 1..m : g[i] = f[i]
          /\ \A i \in 1..d : g[m + i] = t[i]
      BY ONLY <1>3, <2>1, <3>2, m \in Nat, JoinedAt
    <3> QED  BY <3>1, <3>3
  <2>6. \A i \in 1..a : g[i] = p[i]
    <3>1. \A i \in 1..a : i \in 1..(a + b) /\ i \in 1..(a + b + c)
      BY ONLY <2>1
    <3> QED  BY ONLY <2>2, <2>4, <2>5, <3>1
  <2>7. \A i \in 1..b : g[a + i] = q[i]
    <3>1. \A i \in 1..b : a + i \in 1..(a + b) /\ a + i \in 1..(a + b + c)
      BY ONLY <2>1
    <3> QED  BY ONLY <2>2, <2>4, <2>5, <3>1
  <2>8. \A i \in 1..c : g[a + b + i] = s[i]
    <3>1. \A i \in 1..c : a + b + i \in 1..(a + b + c)
      BY ONLY <2>1
    <3> QED  BY ONLY <2>4, <2>5, <3>1
  <2> QED  BY <2>5, <2>6, <2>7, <2>8 DEF Joined4, a, b, c, d
<1> QED  BY <1>3, <1>5 DEF e, f, g

\* The cells of the copied rules: those of rule j and what they refer to.
Copied(g, h, s, n, m) ==
    \A j \in 1..m :
       LET match == h[h[s[j]].match]
       IN  /\ g[j] = [kind |-> "match", host |-> match.host, path |-> match.path,
                      methods |-> IF match.methods = None THEN None ELSE n + 3 * m + j]
           /\ g[m + j] = h[h[s[j]].action]
           /\ g[2 * m + j] = [kind |-> "rule", match |-> n + j, action |-> n + m + j,
                              name |-> h[s[j]].name]
           /\ g[3 * m + j] = Strings(ItemsAt(h, match.methods))

\* CopyRules gives those cells.
LEMMA RulesCopied ==
    ASSUME NEW h \in Heaps, NEW s \in Seq(Nat), \A j \in 1..Len(s) : IsA(h, s[j], "rule"),
           NEW n \in Nat, NEW m, m = Len(s), NEW g, g = CopyRules(h, s, n)
    PROVE  g \in Seq(Cells) /\ Len(g) = 4 * m /\ Copied(g, h, s, n, m)
<1> DEFINE match(j) == h[h[s[j]].match]
           mt == [j \in 1..m |->
                    [match(j) EXCEPT !.methods = IF @ = None THEN None ELSE n + 3 * m + j]]
           ac == [j \in 1..m |-> h[h[s[j]].action]]
           ru == [j \in 1..m |-> [h[s[j]] EXCEPT !.match = n + j, !.action = n + m + j]]
           li == [j \in 1..m |-> Strings(ItemsAt(h, match(j).methods))]
<1>1. m \in Nat
  BY LenProperties
<1>2. ASSUME NEW j \in 1..m
      PROVE  /\ h[s[j]] \in Cells /\ h[s[j]].kind = "rule"
             /\ match(j) \in Cells /\ match(j).kind = "match"
             /\ h[h[s[j]].action] \in Cells
             /\ match(j).methods # None => IsA(h, match(j).methods, "strings")
  <2>1. s[j] \in DOMAIN h /\ h[s[j]].kind = "rule" /\ h[s[j]] \in Cells /\ WellPlaced(h, h[s[j]])
    BY <1>2, HeapCells DEF IsA
  <2>2. IsA(h, h[s[j]].match, "match") /\ IsA(h, h[s[j]].action, "action")
    BY <2>1 DEF WellPlaced
  <2>3. match(j) \in Cells /\ match(j).kind = "match" /\ WellPlaced(h, match(j))
        /\ h[h[s[j]].action] \in Cells
    BY <2>2, HeapCells DEF IsA
  <2> QED  BY <2>1, <2>3 DEF WellPlaced
<1>3. ASSUME NEW j \in 1..m
      PROVE  /\ mt[j] \in Cells
             /\ mt[j] = [kind |-> "match", host |-> match(j).host, path |-> match(j).path,
                         methods |-> IF match(j).methods = None THEN None ELSE n + 3 * m + j]
  <2>1. match(j) \in [kind : {"match"}, host : Hosts, path : Paths \cup {"changed"},
                      methods : Nat \cup {None}]
    BY <1>2, <1>3 DEF Cells
  <2>2. n + 3 * m + j \in Nat
    BY <1>1
  <2>3. mt[j] = [match(j) EXCEPT !.methods = IF match(j).methods = None THEN None ELSE n + 3 * m + j]
    OBVIOUS
  <2> HIDE DEF match, mt
  <2> QED  BY <2>1, <2>2, <2>3 DEF Cells
<1>4. ASSUME NEW j \in 1..m  PROVE  ac[j] \in Cells
  BY <1>2
<1>5. ASSUME NEW j \in 1..m
      PROVE  /\ ru[j] \in Cells
             /\ ru[j] = [kind |-> "rule", match |-> n + j, action |-> n + m + j,
                         name |-> h[s[j]].name]
  <2>1. h[s[j]] \in [kind : {"rule"}, match : Nat, action : Nat, name : Names \cup {"changed"}]
    BY <1>2, <1>5 DEF Cells
  <2>2. n + j \in Nat /\ n + m + j \in Nat
    BY <1>1
  <2>3. ru[j] = [h[s[j]] EXCEPT !.match = n + j, !.action = n + m + j]
    OBVIOUS
  <2> HIDE DEF ru
  <2> QED  BY <2>1, <2>2, <2>3 DEF Cells
<1>6. ASSUME NEW j \in 1..m  PROVE  li[j] \in Cells
  <2>1. ItemsAt(h, match(j).methods) \in Methods \cup {<<>>}
    <3>1. CASE match(j).methods = None  BY <3>1 DEF ItemsAt
    <3>2. CASE match(j).methods # None
      <4>1. IsA(h, match(j).methods, "strings")
        BY <1>2, <3>2
      <4>2. h[match(j).methods].items \in Methods \cup {<<>>}
        BY <4>1, HeapCells, CellFields DEF IsA
      <4> QED  BY <3>2, <4>2 DEF ItemsAt
    <3> QED  BY <3>1, <3>2
  <2> QED  BY <2>1 DEF Strings, Cells
<1>7. g = mt \o ac \o ru \o li
  BY DEF CopyRules
<1>8. /\ mt = [j \in 1..m |-> mt[j]] /\ ac = [j \in 1..m |-> ac[j]]
      /\ ru = [j \in 1..m |-> ru[j]] /\ li = [j \in 1..m |-> li[j]]
  OBVIOUS
<1>9. \A j \in 1..m : ac[j] = h[h[s[j]].action] /\ li[j] = Strings(ItemsAt(h, match(j).methods))
  OBVIOUS
<1> HIDE DEF mt, ac, ru, li
<1>10. /\ mt \in Seq(Cells) /\ Len(mt) = m /\ ac \in Seq(Cells) /\ Len(ac) = m
       /\ ru \in Seq(Cells) /\ Len(ru) = m /\ li \in Seq(Cells) /\ Len(li) = m
  <2>1. \A f : (f = [j \in 1..m |-> f[j]] /\ \A j \in 1..m : f[j] \in Cells)
                  => f \in Seq(Cells) /\ Len(f) = m
    BY ONLY <1>1
  <2> QED  BY <1>3, <1>4, <1>5, <1>6, <1>8, <2>1
<1>11. g \in Seq(Cells) /\ Joined4(g, mt, ac, ru, li)
  BY <1>7, <1>10, Concat4
<1>12. /\ Len(g) = m + m + m + m
       /\ \A j \in 1..m : /\ g[j] = mt[j] /\ g[m + j] = ac[j]
                          /\ g[m + m + j] = ru[j] /\ g[m + m + m + j] = li[j]
  BY ONLY <1>10, <1>11 DEF Joined4
<1>13. m + m + m + m = 4 * m /\ \A j \in 1..m : m + m + j = 2 * m + j /\ m + m + m + j = 3 * m + j
  BY <1>1
<1>14. \A j \in 1..m : g[2 * m + j] = ru[j] /\ g[3 * m + j] = li[j]
  BY <1>12, <1>13
<1>15. \A j \in 1..m :
          /\ g[j] = [kind |-> "match", host |-> match(j).host, path |-> match(j).path,
                     methods |-> IF match(j).methods = None THEN None ELSE n + 3 * m + j]
          /\ g[m + j] = h[h[s[j]].action]
          /\ g[2 * m + j] = [kind |-> "rule", match |-> n + j, action |-> n + m + j,
                             name |-> h[s[j]].name]
          /\ g[3 * m + j] = Strings(ItemsAt(h, match(j).methods))
  <2> SUFFICES ASSUME NEW j \in 1..m
               PROVE  /\ g[j] = [kind |-> "match", host |-> match(j).host, path |-> match(j).path,
                                 methods |-> IF match(j).methods = None THEN None
                                             ELSE n + 3 * m + j]
                      /\ g[m + j] = h[h[s[j]].action]
                      /\ g[2 * m + j] = [kind |-> "rule", match |-> n + j,
                                         action |-> n + m + j, name |-> h[s[j]].name]
                      /\ g[3 * m + j] = Strings(ItemsAt(h, match(j).methods))
    OBVIOUS
  <2>1. g[j] = mt[j] /\ g[m + j] = ac[j] /\ g[2 * m + j] = ru[j] /\ g[3 * m + j] = li[j]
    BY <1>12, <1>14
  <2>2. g[m + j] = h[h[s[j]].action] /\ g[3 * m + j] = Strings(ItemsAt(h, match(j).methods))
    BY <1>9, <2>1
  <2> HIDE DEF match
  <2> QED  BY <1>3, <1>5, <2>1, <2>2
<1> QED  BY <1>11, <1>12, <1>13, <1>15 DEF Copied

\* Where build() puts what: behind the heap the host rules, then the matches,
\* actions, rules and lists of methods, then the two lists and the policy.
Top == Len(heap)
HostRefs == heap[HostList].items
RuleRefs == heap[RuleList].items
NH == Len(HostRefs)
NR == Len(RuleRefs)
End == Top + NH + 4 * NR
HostOf(j) == Top + j
MatchOf(j) == Top + NH + j
ActionOf(j) == Top + NH + NR + j
RuleOf(j) == Top + NH + 2 * NR + j
MethodsOf(j) == Top + NH + 3 * NR + j

MatchFor(j) == heap[heap[RuleRefs[j]].match]

\* Every cell behind Top has one of these places.
LEMMA Places ==
    ASSUME Top \in Nat, NH \in Nat, NR \in Nat
    PROVE  /\ End \in Nat /\ End >= Top
           /\ \A c \in 1..(End + 3) :
                 \/ c \in 1..Top
                 \/ \E j \in 1..NH : c = HostOf(j)
                 \/ \E j \in 1..NR : c = MatchOf(j) \/ c = ActionOf(j) \/ c = RuleOf(j) \/ c = MethodsOf(j)
                 \/ c = End + 1 \/ c = End + 2 \/ c = End + 3
           /\ \A j \in 1..NH : HostOf(j) \in (Top + 1)..End
           /\ \A j \in 1..NR : /\ MatchOf(j) \in (Top + 1)..End /\ ActionOf(j) \in (Top + 1)..End
                               /\ RuleOf(j) \in (Top + 1)..End /\ MethodsOf(j) \in (Top + 1)..End
<1> USE DEF End
<1>1. ASSUME NEW c \in 1..(End + 3)
      PROVE  \/ c \in 1..Top
             \/ \E j \in 1..NH : c = HostOf(j)
             \/ \E j \in 1..NR : c = MatchOf(j) \/ c = ActionOf(j) \/ c = RuleOf(j) \/ c = MethodsOf(j)
             \/ c = End + 1 \/ c = End + 2 \/ c = End + 3
  <2>1. CASE c <= Top  BY <1>1, <2>1
  <2>2. CASE c > Top /\ c <= Top + NH
    <3>1. c - Top \in 1..NH /\ c = HostOf(c - Top)
      BY <1>1, <2>2 DEF HostOf
    <3> QED  BY <3>1
  <2>3. CASE c > Top + NH /\ c <= Top + NH + NR
    <3>1. c - (Top + NH) \in 1..NR /\ c = MatchOf(c - (Top + NH))
      BY <1>1, <2>3 DEF MatchOf
    <3> QED  BY <3>1
  <2>4. CASE c > Top + NH + NR /\ c <= Top + NH + 2 * NR
    <3>1. c - (Top + NH + NR) \in 1..NR /\ c = ActionOf(c - (Top + NH + NR))
      BY <1>1, <2>4 DEF ActionOf
    <3> QED  BY <3>1
  <2>5. CASE c > Top + NH + 2 * NR /\ c <= Top + NH + 3 * NR
    <3>1. c - (Top + NH + 2 * NR) \in 1..NR /\ c = RuleOf(c - (Top + NH + 2 * NR))
      BY <1>1, <2>5 DEF RuleOf
    <3> QED  BY <3>1
  <2>6. CASE c > Top + NH + 3 * NR /\ c <= End
    <3>1. c - (Top + NH + 3 * NR) \in 1..NR /\ c = MethodsOf(c - (Top + NH + 3 * NR))
      BY <1>1, <2>6 DEF MethodsOf
    <3> QED  BY <3>1
  <2>7. CASE c > End
    <3>1. c = End + 1 \/ c = End + 2 \/ c = End + 3
      BY <1>1, <2>7
    <3> QED  BY <3>1
  <2> QED  BY <1>1, <2>1, <2>2, <2>3, <2>4, <2>5, <2>6, <2>7
<1>2. End \in Nat /\ End >= Top
  OBVIOUS
<1>3. \A j \in 1..NH : HostOf(j) \in (Top + 1)..End
  BY DEF HostOf
<1>4. \A j \in 1..NR : /\ MatchOf(j) \in (Top + 1)..End /\ ActionOf(j) \in (Top + 1)..End
                           /\ RuleOf(j) \in (Top + 1)..End /\ MethodsOf(j) \in (Top + 1)..End
  BY DEF MatchOf, ActionOf, RuleOf, MethodsOf
<1> QED  BY <1>1, <1>2, <1>3, <1>4

\* The builder's rules, and how many there are.
LEMMA Refd ==
    ASSUME TypeOK
    PROVE  /\ heap \in Heaps /\ Top \in Nat /\ NH \in Nat /\ NR \in Nat /\ DOMAIN heap = 1..Top
           /\ HostRefs \in Seq(Nat) /\ RuleRefs \in Seq(Nat)
           /\ \A j \in 1..NH : IsA(heap, HostRefs[j], "host")
           /\ \A j \in 1..NR : IsA(heap, RuleRefs[j], "rule")
<1>1. heap \in Heaps /\ Top \in Nat /\ DOMAIN heap = 1..Top
  BY HeapTyped, HeapCells DEF Top
<1>2. /\ IsListOf(heap, HostList, "host") /\ HostRefs \in Seq(Nat)
      /\ IsListOf(heap, RuleList, "rule") /\ RuleRefs \in Seq(Nat)
  BY HeapTyped, HeapCells, CellFields DEF TypeOK, HostRefs, RuleRefs
<1>3. /\ NH \in Nat /\ \A j \in 1..NH : HostRefs[j] \in ToSet(HostRefs)
      /\ NR \in Nat /\ \A j \in 1..NR : RuleRefs[j] \in ToSet(RuleRefs)
  BY <1>2, LenProperties DEF ToSet, NH, NR
<1> QED  BY <1>1, <1>2, <1>3 DEF IsListOf, HostRefs, RuleRefs

\* What is there after build().
LEMMA Built ==
    ASSUME TypeOK, Build
    PROVE  /\ heap' \in Seq(Cells) /\ DOMAIN heap' = 1..(End + 3)
           /\ \A c \in 1..Top : heap'[c] = heap[c]
           /\ \A j \in 1..NH : heap'[HostOf(j)] = heap[HostRefs[j]]
           /\ \A j \in 1..NR :
                 /\ heap'[MatchOf(j)] =
                       [kind |-> "match", host |-> MatchFor(j).host, path |-> MatchFor(j).path,
                        methods |-> IF MatchFor(j).methods = None THEN None ELSE MethodsOf(j)]
                 /\ heap'[ActionOf(j)] = heap[heap[RuleRefs[j]].action]
                 /\ heap'[RuleOf(j)] =
                       [kind |-> "rule", match |-> MatchOf(j), action |-> ActionOf(j),
                        name |-> heap[RuleRefs[j]].name]
                 /\ heap'[MethodsOf(j)] = Strings(ItemsAt(heap, MatchFor(j).methods))
           /\ heap'[End + 1] = ListOf(NH, Top)
           /\ heap'[End + 2] = ListOf(NR, Top + NH + 2 * NR)
           /\ heap'[End + 3] = Policy(default, Key(NH, End + 1), Key(NR, End + 2))
<1> DEFINE hc == CopyHosts(heap, HostRefs)
           rc == CopyRules(heap, RuleRefs, Top + NH)
           l1 == ListOf(NH, Top)
           l2 == ListOf(NR, Top + NH + 2 * NR)
           pc == Policy(default, Key(NH, End + 1), Key(NR, End + 2))
           last == <<l1, l2, pc>>
<1>1. /\ heap \in Heaps /\ Top \in Nat /\ NH \in Nat /\ NR \in Nat /\ DOMAIN heap = 1..Top
      /\ HostRefs \in Seq(Nat) /\ RuleRefs \in Seq(Nat)
      /\ \A j \in 1..NH : IsA(heap, HostRefs[j], "host")
      /\ \A j \in 1..NR : IsA(heap, RuleRefs[j], "rule")
  BY Refd
<1>2. End \in Nat /\ default \in Actions
  BY <1>1, Places DEF TypeOK
<1>3. heap' = heap \o hc \o rc \o last
  BY DEF Build, Top, HostRefs, RuleRefs, NH, NR, End
<1>4. hc \in Seq(Cells) /\ Len(hc) = NH /\ \A j \in 1..NH : hc[j] = heap[HostRefs[j]]
  <2>1. \A j \in 1..NH : heap[HostRefs[j]] \in Cells
    BY <1>1, HeapCells DEF IsA
  <2> QED  BY <1>1, <2>1 DEF CopyHosts, NH
<1>5. /\ rc \in Seq(Cells) /\ Len(rc) = 4 * NR
      /\ \A j \in 1..NR :
            /\ rc[j] = [kind |-> "match", host |-> MatchFor(j).host, path |-> MatchFor(j).path,
                        methods |-> IF MatchFor(j).methods = None THEN None
                                    ELSE Top + NH + 3 * NR + j]
            /\ rc[NR + j] = heap[heap[RuleRefs[j]].action]
            /\ rc[2 * NR + j] = [kind |-> "rule", match |-> Top + NH + j,
                                 action |-> Top + NH + NR + j, name |-> heap[RuleRefs[j]].name]
            /\ rc[3 * NR + j] = Strings(ItemsAt(heap, MatchFor(j).methods))
  <2>1. Top + NH \in Nat /\ NR = Len(RuleRefs)
    BY <1>1 DEF NR
  <2>2. \A j \in 1..Len(RuleRefs) : IsA(heap, RuleRefs[j], "rule")
    BY <1>1, <2>1
  <2> HIDE DEF rc
  <2>3. rc = CopyRules(heap, RuleRefs, Top + NH)
    BY DEF rc
  <2>4. rc \in Seq(Cells) /\ Len(rc) = 4 * NR /\ Copied(rc, heap, RuleRefs, Top + NH, NR)
    <3>1. heap \in Heaps /\ RuleRefs \in Seq(Nat)
      BY <1>1
    <3>2. PICK n : n = Top + NH
      OBVIOUS
    <3>3. n \in Nat /\ rc = CopyRules(heap, RuleRefs, n)
      BY <2>1, <2>3, <3>2
    <3>4. rc \in Seq(Cells) /\ Len(rc) = 4 * NR /\ Copied(rc, heap, RuleRefs, n, NR)
      BY ONLY <3>1, <2>1, <2>2, <3>3, RulesCopied
    <3> QED  BY <3>2, <3>4
  <2> QED  BY <2>4 DEF MatchFor, Copied
<1>6. last \in Seq(Cells) /\ Len(last) = 3 /\ last[1] = l1 /\ last[2] = l2 /\ last[3] = pc
  <2>1. l1 \in Cells /\ l2 \in Cells
    BY <1>1 DEF ListOf, List, Cells
  <2>2. pc \in Cells
    BY <1>2 DEF Policy, Key, Cells
  <2> HIDE DEF l1, l2, pc
  <2> QED  BY <2>1, <2>2
<1> HIDE DEF hc, rc, last, l1, l2, pc
<1>7. heap' \in Seq(Cells) /\ Joined4(heap', heap, hc, rc, last)
  <2>1. heap \in Seq(Cells)
    BY <1>1, HeapCells
  <2> QED  BY <1>3, <1>4, <1>5, <1>6, <2>1, Concat4
<1>8. /\ DOMAIN heap' = 1..(Top + NH + 4 * NR + 3)
      /\ \A i \in 1..Top : heap'[i] = heap[i]
      /\ \A i \in 1..NH : heap'[Top + i] = hc[i]
      /\ \A i \in 1..(4 * NR) : heap'[Top + NH + i] = rc[i]
      /\ \A i \in 1..3 : heap'[Top + NH + 4 * NR + i] = last[i]
  BY ONLY <1>4, <1>5, <1>6, <1>7, Joined4(heap', heap, hc, rc, last) DEF Joined4, Top
<1>9. \A j \in 1..NR : /\ heap'[MatchOf(j)] = rc[j] /\ heap'[ActionOf(j)] = rc[NR + j]
                       /\ heap'[RuleOf(j)] = rc[2 * NR + j] /\ heap'[MethodsOf(j)] = rc[3 * NR + j]
  <2>1. \A j \in 1..NR : {j, NR + j, 2 * NR + j, 3 * NR + j} \subseteq 1..(4 * NR)
    BY <1>1
  <2>2. \A j \in 1..NR : /\ MatchOf(j) = Top + NH + j /\ ActionOf(j) = Top + NH + (NR + j)
                         /\ RuleOf(j) = Top + NH + (2 * NR + j)
                         /\ MethodsOf(j) = Top + NH + (3 * NR + j)
    BY <1>1 DEF MatchOf, ActionOf, RuleOf, MethodsOf
  <2> QED  BY ONLY <1>8, <2>1, <2>2
<1>10. heap'[End + 1] = l1 /\ heap'[End + 2] = l2 /\ heap'[End + 3] = pc
  BY <1>6, <1>8 DEF End
<1>11. \A j \in 1..NR : /\ MatchOf(j) = Top + NH + j /\ ActionOf(j) = Top + NH + NR + j
                        /\ MethodsOf(j) = Top + NH + 3 * NR + j
  BY DEF MatchOf, ActionOf, MethodsOf
<1>12. \A j \in 1..NR :
          /\ heap'[MatchOf(j)] =
                [kind |-> "match", host |-> MatchFor(j).host, path |-> MatchFor(j).path,
                 methods |-> IF MatchFor(j).methods = None THEN None ELSE MethodsOf(j)]
          /\ heap'[ActionOf(j)] = heap[heap[RuleRefs[j]].action]
          /\ heap'[RuleOf(j)] =
                [kind |-> "rule", match |-> MatchOf(j), action |-> ActionOf(j),
                 name |-> heap[RuleRefs[j]].name]
          /\ heap'[MethodsOf(j)] = Strings(ItemsAt(heap, MatchFor(j).methods))
  BY ONLY <1>5, <1>9, <1>11
<1>13. \A j \in 1..NH : heap'[HostOf(j)] = heap[HostRefs[j]]
  BY <1>4, <1>8 DEF HostOf
<1> QED  BY <1>7, <1>8, <1>10, <1>12, <1>13 DEF l1, l2, pc, End

\* The cells of one rule of the new policy.
LEMMA BuiltRule ==
    ASSUME TypeOK, Build, NEW j \in 1..NR
    PROVE  /\ heap'[MatchOf(j)] =
                 [kind |-> "match", host |-> MatchFor(j).host, path |-> MatchFor(j).path,
                  methods |-> IF MatchFor(j).methods = None THEN None ELSE MethodsOf(j)]
           /\ heap'[ActionOf(j)] = heap[heap[RuleRefs[j]].action]
           /\ heap'[RuleOf(j)] =
                 [kind |-> "rule", match |-> MatchOf(j), action |-> ActionOf(j),
                  name |-> heap[RuleRefs[j]].name]
           /\ heap'[MethodsOf(j)] = Strings(ItemsAt(heap, MatchFor(j).methods))
  BY Built

\* The copy of one rule: what its cells are and refer to.
LEMMA BuiltCells ==
    ASSUME TypeOK, Build, NEW j \in 1..NR
    PROVE  /\ IsA(heap', MatchOf(j), "match") /\ IsA(heap', ActionOf(j), "action")
           /\ IsA(heap', RuleOf(j), "rule") /\ IsA(heap', MethodsOf(j), "strings")
           /\ heap'[MatchOf(j)].methods \in {None, MethodsOf(j)}
           /\ heap'[RuleOf(j)].match = MatchOf(j) /\ heap'[RuleOf(j)].action = ActionOf(j)
<1>1. /\ heap'[MatchOf(j)] =
            [kind |-> "match", host |-> MatchFor(j).host, path |-> MatchFor(j).path,
             methods |-> IF MatchFor(j).methods = None THEN None ELSE MethodsOf(j)]
      /\ heap'[ActionOf(j)] = heap[heap[RuleRefs[j]].action]
      /\ heap'[RuleOf(j)] =
            [kind |-> "rule", match |-> MatchOf(j), action |-> ActionOf(j),
             name |-> heap[RuleRefs[j]].name]
      /\ heap'[MethodsOf(j)] = Strings(ItemsAt(heap, MatchFor(j).methods))
  BY BuiltRule
<1>2. heap \in Heaps /\ Top \in Nat /\ NH \in Nat /\ NR \in Nat /\ IsA(heap, RuleRefs[j], "rule")
  BY Refd
<1>3. IsA(heap, heap[RuleRefs[j]].action, "action")
  BY <1>2, HeapCells DEF IsA, WellPlaced
<1>4. MatchOf(j) \in 1..End /\ ActionOf(j) \in 1..End /\ RuleOf(j) \in 1..End
      /\ MethodsOf(j) \in 1..End /\ End \in Nat
  BY <1>2 DEF End, MatchOf, ActionOf, RuleOf, MethodsOf
<1>5. DOMAIN heap' = 1..(End + 3)
  BY Built
<1>6. MatchOf(j) \in DOMAIN heap' /\ ActionOf(j) \in DOMAIN heap'
      /\ RuleOf(j) \in DOMAIN heap' /\ MethodsOf(j) \in DOMAIN heap'
  BY <1>4, <1>5
<1>7. heap'[MatchOf(j)].kind = "match" /\ heap'[MatchOf(j)].methods \in {None, MethodsOf(j)}
  BY <1>1
<1>8. heap'[ActionOf(j)].kind = "action"
  BY <1>1, <1>3 DEF IsA
<1>9. /\ heap'[RuleOf(j)].kind = "rule"
      /\ heap'[RuleOf(j)].match = MatchOf(j) /\ heap'[RuleOf(j)].action = ActionOf(j)
  BY <1>1
<1>10. heap'[MethodsOf(j)].kind = "strings"
  BY <1>1 DEF Strings
<1> QED  BY <1>6, <1>7, <1>8, <1>9, <1>10 DEF IsA

\* The kinds of the new cells, and what they refer to.
LEMMA BuiltKinds ==
    ASSUME TypeOK, Build
    PROVE  /\ \A j \in 1..NH : IsA(heap', HostOf(j), "host")
           /\ \A j \in 1..NR : /\ IsA(heap', MatchOf(j), "match") /\ IsA(heap', ActionOf(j), "action")
                               /\ IsA(heap', RuleOf(j), "rule")
                               /\ IsA(heap', MethodsOf(j), "strings")
           /\ IsListOf(heap', End + 1, "host") /\ IsListOf(heap', End + 2, "rule")
           /\ IsA(heap', End + 3, "policy")
           /\ heap'[End + 1].items = [j \in 1..NH |-> HostOf(j)]
           /\ heap'[End + 2].items = [j \in 1..NR |-> RuleOf(j)]
           /\ heap'[End + 3].default = default
           /\ heap'[End + 3].hosts = IF NH = 0 THEN None ELSE End + 1
           /\ heap'[End + 3].rules = IF NR = 0 THEN None ELSE End + 2
<1>1. /\ heap \in Heaps /\ Top \in Nat /\ NH \in Nat /\ NR \in Nat /\ DOMAIN heap = 1..Top
      /\ HostRefs \in Seq(Nat) /\ RuleRefs \in Seq(Nat)
      /\ \A j \in 1..NH : IsA(heap, HostRefs[j], "host")
      /\ \A j \in 1..NR : IsA(heap, RuleRefs[j], "rule")
  BY Refd
<1>2. /\ End \in Nat /\ End >= Top /\ DOMAIN heap' = 1..(End + 3)
      /\ \A j \in 1..NH : HostOf(j) \in (Top + 1)..End
      /\ \A j \in 1..NR : /\ MatchOf(j) \in (Top + 1)..End /\ ActionOf(j) \in (Top + 1)..End
                          /\ RuleOf(j) \in (Top + 1)..End /\ MethodsOf(j) \in (Top + 1)..End
  BY <1>1, Places, Built
<1>3. \A c \in (Top + 1)..End : c \in DOMAIN heap'
  BY <1>1, <1>2
<1>4. \A j \in 1..NH : IsA(heap', HostOf(j), "host")
  <2> SUFFICES ASSUME NEW j \in 1..NH  PROVE  IsA(heap', HostOf(j), "host")
    OBVIOUS
  <2>1. heap'[HostOf(j)] = heap[HostRefs[j]] /\ HostOf(j) \in DOMAIN heap'
    BY <1>2, <1>3, Built
  <2> QED  BY <1>1, <2>1 DEF IsA
<1>5. \A j \in 1..NR : /\ IsA(heap', MatchOf(j), "match") /\ IsA(heap', ActionOf(j), "action")
                        /\ IsA(heap', RuleOf(j), "rule") /\ IsA(heap', MethodsOf(j), "strings")
  BY BuiltCells
<1>6. /\ heap'[End + 1].kind = "list" /\ heap'[End + 1].items = [j \in 1..NH |-> HostOf(j)]
      /\ heap'[End + 2].kind = "list" /\ heap'[End + 2].items = [j \in 1..NR |-> RuleOf(j)]
  <2>1. heap'[End + 1] = List([j \in 1..NH |-> Top + j])
        /\ heap'[End + 2] = List([j \in 1..NR |-> Top + NH + 2 * NR + j])
    BY Built DEF ListOf
  <2> QED  BY <2>1 DEF List, HostOf, RuleOf
<1>7. /\ heap'[End + 3].kind = "policy" /\ heap'[End + 3].default = default
      /\ heap'[End + 3].hosts = IF NH = 0 THEN None ELSE End + 1
      /\ heap'[End + 3].rules = IF NR = 0 THEN None ELSE End + 2
  BY Built DEF Policy, Key
<1>8. {End + 1, End + 2, End + 3} \subseteq DOMAIN heap'
  BY <1>2
<1>9. IsListOf(heap', End + 1, "host")
  BY <1>4, <1>6, <1>8 DEF IsListOf, IsA, ToSet
<1>10. IsListOf(heap', End + 2, "rule")
  BY <1>5, <1>6, <1>8 DEF IsListOf, IsA, ToSet
<1>11. IsA(heap', End + 3, "policy")
  BY <1>7, <1>8 DEF IsA
<1> QED  BY <1>4, <1>5, <1>6, <1>7, <1>9, <1>10, <1>11

\* The new cells are well placed, and refer to new cells only.
LEMMA BuiltPlaced ==
    ASSUME TypeOK, Build, NEW c \in DOMAIN heap', c > Top
    PROVE  /\ WellPlaced(heap', heap'[c])
           /\ Refs(heap'[c]) \subseteq (Top + 1)..(End + 2)
           /\ heap'[c].kind = "policy" => c = End + 3
<1>1. Top \in Nat /\ NH \in Nat /\ NR \in Nat /\ heap' \in Seq(Cells) /\ DOMAIN heap' = 1..(End + 3)
  BY Refd, Built
<1>2. /\ End \in Nat /\ End >= Top
      /\ \A j \in 1..NH : HostOf(j) \in (Top + 1)..End
      /\ \A j \in 1..NR : /\ MatchOf(j) \in (Top + 1)..End /\ ActionOf(j) \in (Top + 1)..End
                          /\ RuleOf(j) \in (Top + 1)..End /\ MethodsOf(j) \in (Top + 1)..End
  BY <1>1, Places
<1>9. \/ \E j \in 1..NH : c = HostOf(j)
      \/ \E j \in 1..NR : c = MatchOf(j) \/ c = ActionOf(j) \/ c = RuleOf(j) \/ c = MethodsOf(j)
      \/ c = End + 1 \/ c = End + 2 \/ c = End + 3
  <2>1. c \in 1..(End + 3) /\ c \notin 1..Top
    BY <1>1, <1>2
  <2> QED  BY <1>1, <2>1, Places
<1>3. heap'[c] \in Cells
  BY <1>1, ElementOfSeq, LenProperties
<1>4. (Top + 1)..End \subseteq (Top + 1)..(End + 2) /\ {End + 1, End + 2} \subseteq (Top + 1)..(End + 2)
      /\ (Top + 1)..(End + 2) \subseteq DOMAIN heap'
  BY <1>1, <1>2
<1>5. CASE \E j \in 1..NH : c = HostOf(j)
  <2>1. heap'[c].kind = "host"
    BY <1>5, BuiltKinds DEF IsA
  <2> QED  BY <1>3, <2>1, RefsOf DEF WellPlaced
<1>6. ASSUME NEW j \in 1..NR, c = MatchOf(j) \/ c = ActionOf(j) \/ c = RuleOf(j) \/ c = MethodsOf(j)
      PROVE  /\ WellPlaced(heap', heap'[c]) /\ Refs(heap'[c]) \subseteq (Top + 1)..(End + 2)
             /\ heap'[c].kind # "policy"
  <2>1. /\ IsA(heap', MatchOf(j), "match") /\ IsA(heap', ActionOf(j), "action")
        /\ IsA(heap', RuleOf(j), "rule") /\ IsA(heap', MethodsOf(j), "strings")
    BY <1>6, BuiltCells
  <2>2. CASE c = MatchOf(j)
    <3>1. heap'[MatchOf(j)].methods \in {None, MethodsOf(j)}
      BY <1>6, BuiltCells
    <3>2. heap'[c].kind = "match" /\ (heap'[c].methods = None \/ heap'[c].methods = MethodsOf(j))
      BY <2>1, <2>2, <3>1 DEF IsA
    <3> QED  BY <1>2, <1>3, <1>4, <2>1, <3>2, RefsOf DEF WellPlaced
  <2>3. CASE c = ActionOf(j) \/ c = MethodsOf(j)
    BY <1>3, <2>1, <2>3, RefsOf DEF WellPlaced, IsA
  <2>4. CASE c = RuleOf(j)
    <3>1. heap'[RuleOf(j)].match = MatchOf(j) /\ heap'[RuleOf(j)].action = ActionOf(j)
      BY <1>6, BuiltCells
    <3>2. heap'[c].kind = "rule" /\ heap'[c].match = MatchOf(j) /\ heap'[c].action = ActionOf(j)
      BY <2>1, <2>4, <3>1 DEF IsA
    <3> QED  BY <1>2, <1>3, <1>4, <2>1, <3>2, RefsOf DEF WellPlaced
  <2> QED  BY <1>6, <2>2, <2>3, <2>4
<1>7. CASE c = End + 1 \/ c = End + 2
  <2>1. heap'[c].kind = "list"
    BY <1>7, BuiltKinds DEF IsListOf, IsA
  <2>2. ToSet(heap'[c].items) \subseteq (Top + 1)..End
    <3>1. CASE c = End + 1
      <4>1. heap'[c].items = [j \in 1..NH |-> HostOf(j)]
        BY <3>1, BuiltKinds
      <4> QED  BY <1>2, <4>1 DEF ToSet
    <3>2. CASE c = End + 2
      <4>1. heap'[c].items = [j \in 1..NR |-> RuleOf(j)]
        BY <3>2, BuiltKinds
      <4> QED  BY <1>2, <4>1 DEF ToSet
    <3> QED  BY <1>7, <3>1, <3>2
  <2> QED  BY <1>3, <1>4, <2>1, <2>2, RefsOf DEF WellPlaced
<1>8. CASE c = End + 3
  <2>1. /\ heap'[c].kind = "policy"
        /\ heap'[c].hosts = None \/ heap'[c].hosts = End + 1
        /\ heap'[c].rules = None \/ heap'[c].rules = End + 2
    BY <1>8, BuiltKinds DEF IsA
  <2>2. IsListOf(heap', End + 1, "host") /\ IsListOf(heap', End + 2, "rule")
    BY BuiltKinds
  <2> QED  BY <1>3, <1>4, <1>8, <2>1, <2>2, RefsOf DEF WellPlaced
<1> QED  BY <1>5, <1>6, <1>7, <1>8, <1>9

\* After build() all that was there is there unchanged, and the heap is sound.
LEMMA BuiltHeap ==
    ASSUME TypeOK, Build
    PROVE  /\ heap' \in Heaps
           /\ \A c \in DOMAIN heap : c \in DOMAIN heap' /\ heap'[c] = heap[c]
           /\ \A c, k : IsA(heap, c, k) => IsA(heap', c, k)
           /\ \A c, k : IsListOf(heap, c, k) => IsListOf(heap', c, k)
<1>1. /\ heap \in Heaps /\ Top \in Nat /\ NH \in Nat /\ NR \in Nat /\ DOMAIN heap = 1..Top
  BY Refd
<1>2. heap' \in Seq(Cells) /\ DOMAIN heap' = 1..(End + 3) /\ \A c \in 1..Top : heap'[c] = heap[c]
  BY Built
<1>3. End \in Nat /\ End >= Top
  BY <1>1, Places
<1>4. \A c \in DOMAIN heap : c \in DOMAIN heap' /\ heap'[c] = heap[c]
  BY <1>1, <1>2, <1>3
<1>5. SameKinds(heap, heap')
  BY <1>4 DEF SameKinds
<1>6. \A c, k : IsA(heap, c, k) => IsA(heap', c, k)
  BY <1>5, PlacedLift
<1>7. \A c, k : IsListOf(heap, c, k) => IsListOf(heap', c, k)
  <2>1. \A c, k : IsListOf(heap, c, k) => heap'[c] = heap[c]
    BY <1>4 DEF IsListOf, IsA
  <2> QED  BY <1>5, <2>1, PlacedLift
<1>8. ASSUME NEW c \in DOMAIN heap'  PROVE  WellPlaced(heap', heap'[c])
  <2>1. CASE c \in DOMAIN heap
    <3>1. heap[c] \in Cells /\ WellPlaced(heap, heap[c]) /\ heap'[c] = heap[c]
      BY <1>1, <1>4, <2>1, HeapCells
    <3>2. heap[c].kind = "list" => ToSet(heap[c].items) \subseteq DOMAIN heap'
      BY <1>4, <3>1 DEF WellPlaced
    <3> QED  BY ONLY <1>6, <1>7, <3>1, <3>2 DEF WellPlaced
  <2>2. CASE c \notin DOMAIN heap
    <3>1. c > Top
      BY <1>1, <1>2, <1>3, <2>2
    <3> QED  BY <3>1, BuiltPlaced
  <2> QED  BY <2>1, <2>2
<1> QED  BY <1>2, <1>4, <1>6, <1>7, <1>8 DEF Heaps

\* The new cells are the new policy's.
LEMMA BuiltOwned ==
    ASSUME TypeOK, Sending, Build, NEW own, Owned(own)
    PROVE  Separate'
<1>1. /\ heap \in Heaps /\ Top \in Nat /\ NH \in Nat /\ NR \in Nat /\ DOMAIN heap = 1..Top
      /\ Len(policies) \in Nat /\ DOMAIN policies = 1..Len(policies) /\ policies \in Seq(Nat)
      /\ Owning(heap, own)
  BY Refd, LenProperties DEF TypeOK, Owned
<1>2. heap' \in Heaps /\ \A c \in DOMAIN heap : c \in DOMAIN heap' /\ heap'[c] = heap[c]
  BY BuiltHeap
<1>3. DOMAIN heap' = 1..(End + 3) /\ End \in Nat /\ End >= Top
  BY <1>1, Built, Places
<1>4. policies' = Append(policies, End + 3) /\ args' = args /\ sent' = sent
  BY DEF Build, Top, End, NH, NR, HostRefs, RuleRefs
<1>5. PICK new : new = Len(policies) + 1
  OBVIOUS
<1>6. PICK own2 : own2 = [c \in DOMAIN heap' |-> IF c \in DOMAIN heap THEN own[c] ELSE new]
  OBVIOUS
<1>7. /\ own2 \in [DOMAIN heap' -> Int] /\ new \in Nat /\ new > 0
      /\ \A c \in DOMAIN heap : own2[c] = own[c]
      /\ \A c \in DOMAIN heap' : c \notin DOMAIN heap => own2[c] = new
  BY <1>1, <1>2, <1>5, <1>6 DEF Owning
<1>8. ASSUME NEW c \in DOMAIN heap', NEW d \in Refs(heap'[c])  PROVE  own2[d] = own2[c]
  <2>1. CASE c \in DOMAIN heap
    <3>1. d \in Refs(heap[c]) /\ own[d] = own[c]
      BY <1>1, <1>2, <1>8, <2>1 DEF Owning
    <3>2. d \in DOMAIN heap
      <4>1. heap[c] \in Cells /\ WellPlaced(heap, heap[c])
        BY <1>1, <2>1, HeapCells
      <4> QED  BY <3>1, <4>1, RefsOf, CellFields DEF WellPlaced, IsListOf, IsA
    <3> QED  BY <1>7, <2>1, <3>1, <3>2
  <2>2. CASE c \notin DOMAIN heap
    <3>1. c > Top
      BY <1>1, <1>3, <2>2
    <3>2. Refs(heap'[c]) \subseteq (Top + 1)..(End + 2)
      BY <3>1, BuiltPlaced
    <3>3. d \in DOMAIN heap' /\ d \notin DOMAIN heap
      BY <1>1, <1>3, <1>8, <3>2
    <3> QED  BY <1>7, <2>2, <3>3
  <2> QED  BY <2>1, <2>2
<1>9. Owning(heap', own2)
  BY <1>7, <1>8 DEF Owning
<1>10. own2[HostList] = 0 /\ own2[RuleList] = 0
  BY <1>7, HeapTyped DEF Owned
<1>11. \A c \in DOMAIN heap' : heap'[c].kind = "policy" => own2[c] > 0
  BY <1>2, <1>7 DEF Owned
<1>12. \A k \in DOMAIN policies' : own2[policies'[k]] = k
  <2>1. ASSUME NEW k \in DOMAIN policies  PROVE  policies'[k] = policies[k] /\ own2[policies[k]] = k
    BY <1>1, <1>3, <1>4, <1>7, HeapTyped DEF Owned
  <2>2. policies'[new] = End + 3 /\ own2[End + 3] = new
    BY <1>1, <1>3, <1>4, <1>5, <1>7
  <2>3. \A k \in DOMAIN policies' : k \in DOMAIN policies \/ k = new
    BY <1>1, <1>3, <1>4, <1>5
  <2> QED  BY <2>1, <2>2, <2>3
<1>13. \A a \in args' : own2[a] = -1
  BY <1>4, <1>7 DEF Owned, TypeOK, IsA
<1>14. sent'.of # 0 /\ sent'.ep.rules # None => own2[sent'.ep.rules] = sent'.of
  BY <1>4, <1>7 DEF Owned, Sending, IsListOf, IsA
<1> QED  BY <1>9, <1>10, <1>11, <1>12, <1>13, <1>14 DEF Owned, Separate

\* One rule of the new policy is the builder's, by value.
LEMMA BuiltRuleAt ==
    ASSUME TypeOK, Build, NEW j \in 1..NR
    PROVE  RuleAt(heap', RuleOf(j)) = RuleAt(heap, RuleRefs[j])
<1> DEFINE m == MatchFor(j)
           match == [kind |-> "match", host |-> m.host, path |-> m.path,
                     methods |-> IF m.methods = None THEN None ELSE MethodsOf(j)]
           rule == [kind |-> "rule", match |-> MatchOf(j), action |-> ActionOf(j),
                    name |-> heap[RuleRefs[j]].name]
<1>1. /\ heap'[MatchOf(j)] = match /\ heap'[RuleOf(j)] = rule
      /\ heap'[ActionOf(j)] = heap[heap[RuleRefs[j]].action]
      /\ heap'[MethodsOf(j)] = Strings(ItemsAt(heap, m.methods))
  BY BuiltRule
<1>2. /\ rule.match = MatchOf(j) /\ rule.action = ActionOf(j) /\ rule.name = heap[RuleRefs[j]].name
      /\ match.host = m.host /\ match.path = m.path
      /\ match.methods = IF m.methods = None THEN None ELSE MethodsOf(j)
  OBVIOUS
<1>3. MethodsOf(j) # None
  <2>1. Top \in Nat /\ NH \in Nat /\ NR \in Nat
    BY Refd
  <2>2. MethodsOf(j) \in Nat
    BY <2>1 DEF MethodsOf
  <2> QED  BY <2>2, NoneAssumption
<1>4. m = heap[heap[RuleRefs[j]].match]
  BY DEF MatchFor
<1> HIDE DEF m, match, rule
<1>5. m.methods # None => heap'[MethodsOf(j)].items = heap[m.methods].items
  BY <1>1 DEF Strings, ItemsAt
<1>6. (IF match.methods = None THEN None ELSE heap'[match.methods].items)
         = (IF m.methods = None THEN None ELSE heap[m.methods].items)
  BY <1>2, <1>3, <1>5
<1>7. /\ heap'[RuleOf(j)].match = MatchOf(j) /\ heap'[RuleOf(j)].action = ActionOf(j)
      /\ heap'[RuleOf(j)].name = heap[RuleRefs[j]].name
  BY <1>1, <1>2
<1> QED  BY <1>1, <1>2, <1>4, <1>6, <1>7 DEF RuleAt

\* The new policy is what the builder holds, by value: a kind of rules of
\* which there are none is left out, and read as none.
LEMMA BuiltValue ==
    ASSUME TypeOK, Build
    PROVE  PolicyAt(heap', End + 3) = [default |-> default, hosts |-> HostsAt(heap, HostList),
                                       rules |-> RulesAt(heap, RuleList)]
<1>1. /\ heap \in Heaps /\ Top \in Nat /\ NH \in Nat /\ NR \in Nat
      /\ HostRefs \in Seq(Nat) /\ RuleRefs \in Seq(Nat) /\ End \in Nat
  BY Refd, Places
<1>2. /\ heap'[End + 1].items = [j \in 1..NH |-> HostOf(j)]
      /\ heap'[End + 2].items = [j \in 1..NR |-> RuleOf(j)]
      /\ heap'[End + 3].default = default
      /\ heap'[End + 3].hosts = IF NH = 0 THEN None ELSE End + 1
      /\ heap'[End + 3].rules = IF NR = 0 THEN None ELSE End + 2
  BY BuiltKinds
<1>3. End + 1 # None /\ End + 2 # None /\ HostList # None /\ RuleList # None
  BY <1>1, NoneAssumption DEF HostList, RuleList
<1>4. ItemsAt(heap, HostList) = HostRefs /\ ItemsAt(heap, RuleList) = RuleRefs
  BY <1>3 DEF ItemsAt, HostRefs, RuleRefs
<1>5. HostsAt(heap', heap'[End + 3].hosts) = HostsAt(heap, HostList)
  <2> DEFINE at(h, b) == <<h[b].pattern, h[b].action>>
             items == ItemsAt(heap', heap'[End + 3].hosts)
  <2>1. items = [j \in 1..NH |-> HostOf(j)]
    BY <1>1, <1>2, <1>3 DEF ItemsAt
  <2>2. Len(items) = NH /\ \A j \in 1..NH : items[j] = HostOf(j)
    BY <1>1, <2>1
  <2>3. \A j \in 1..NH : heap'[HostOf(j)] = heap[HostRefs[j]]
    BY Built
  <2>4. HostsAt(heap', heap'[End + 3].hosts) = [j \in 1..Len(items) |-> at(heap', items[j])]
    BY DEF HostsAt
  <2> HIDE DEF items
  <2>5. HostsAt(heap', heap'[End + 3].hosts) = [j \in 1..NH |-> at(heap, HostRefs[j])]
    BY <2>2, <2>3, <2>4
  <2>6. HostsAt(heap, HostList) = [j \in 1..NH |-> at(heap, HostRefs[j])]
    BY <1>4 DEF HostsAt, NH
  <2> QED  BY <2>5, <2>6
<1>6. RulesAt(heap', heap'[End + 3].rules) = RulesAt(heap, RuleList)
  <2> DEFINE items == ItemsAt(heap', heap'[End + 3].rules)
  <2>1. items = [j \in 1..NR |-> RuleOf(j)]
    BY <1>1, <1>2, <1>3 DEF ItemsAt
  <2>2. Len(items) = NR /\ \A j \in 1..NR : items[j] = RuleOf(j)
    BY <1>1, <2>1
  <2>3. \A j \in 1..NR : RuleAt(heap', RuleOf(j)) = RuleAt(heap, RuleRefs[j])
    BY BuiltRuleAt
  <2>4. RulesAt(heap', heap'[End + 3].rules) = [j \in 1..Len(items) |-> RuleAt(heap', items[j])]
    BY RulesByRule
  <2> HIDE DEF items
  <2>5. RulesAt(heap', heap'[End + 3].rules) = [j \in 1..NR |-> RuleAt(heap, RuleRefs[j])]
    BY <2>2, <2>3, <2>4
  <2>6. RulesAt(heap, RuleList) = [j \in 1..NR |-> RuleAt(heap, RuleRefs[j])]
    BY <1>4, RulesByRule DEF NR
  <2> QED  BY <2>5, <2>6
<1> QED  BY <1>2, <1>5, <1>6 DEF PolicyAt

\* build()
LEMMA InvBuild ==
    ASSUME IInv, Build
    PROVE  IInv'
<1>1. TypeOK /\ Sending /\ BuilderIntact /\ PoliciesApart /\ AppliedAsAsked
  BY DEF IInv, Structured
<1>2. PICK own : Owned(own)
  BY DEF IInv, Structured, Separate
<1>3. /\ policies' = Append(policies, End + 3) /\ meant' = Append(meant, told)
      /\ UNCHANGED <<default, args, sent, applied, told, spoilt, tampers>>
  BY DEF Build, Top, End, NH, NR, HostRefs, RuleRefs
<1>4. /\ heap' \in Heaps
      /\ \A c \in DOMAIN heap : c \in DOMAIN heap' /\ heap'[c] = heap[c]
      /\ \A c, k : IsA(heap, c, k) => IsA(heap', c, k)
      /\ \A c, k : IsListOf(heap, c, k) => IsListOf(heap', c, k)
  BY <1>1, BuiltHeap
<1>5. /\ \A k \in DOMAIN policies : PolicyAt(heap', policies[k]) = PolicyAt(heap, policies[k])
      /\ HostsAt(heap', HostList) = HostsAt(heap, HostList)
      /\ RulesAt(heap', RuleList) = RulesAt(heap, RuleList)
      /\ sent.of # 0 => RulesAt(heap', sent.ep.rules) = RulesAt(heap, sent.ep.rules)
  <2>1. PICK w \in Int : w = -1
    OBVIOUS
  <2>2. w # 0 /\ (sent.of # 0 => sent.of # w) /\ \A k \in DOMAIN policies : k # w
    BY <1>1, <2>1, HeapTyped DEF TypeOK
  <2>3. \A b \in DOMAIN heap : own[b] # w => heap'[b] = heap[b]
    BY <1>4
  <2>4. /\ \A k \in DOMAIN policies : k # w =>
              PolicyAt(heap', policies[k]) = PolicyAt(heap, policies[k])
        /\ w # 0 => /\ HostsAt(heap', HostList) = HostsAt(heap, HostList)
                    /\ RulesAt(heap', RuleList) = RulesAt(heap, RuleList)
        /\ sent.of # 0 /\ sent.of # w =>
              RulesAt(heap', sent.ep.rules) = RulesAt(heap, sent.ep.rules)
    BY ONLY <1>1, <1>2, <2>1, <2>3, OthersKeep
  <2> QED  BY <2>2, <2>4
<1>6. PolicyAt(heap', End + 3) = told
  BY <1>1, BuiltValue DEF BuilderIntact
<1>7. IsA(heap', End + 3, "policy") /\ End + 3 \in Nat
  BY <1>1, BuiltKinds, Refd, Places
<1>8. PICK n : n = Len(policies) + 1
  OBVIOUS
<1>9. /\ policies \in Seq(Nat) /\ policies' \in Seq(Nat) /\ Len(policies') = Len(policies) + 1
      /\ n \in Nat /\ DOMAIN policies' = DOMAIN policies \cup {n} /\ n \notin DOMAIN policies
      /\ policies'[n] = End + 3 /\ \A k \in DOMAIN policies : policies'[k] = policies[k]
  BY <1>1, <1>3, <1>7, <1>8 DEF TypeOK
<1>10. /\ meant' \in Seq(Policies) /\ Len(meant') = Len(policies')
       /\ meant'[n] = told /\ \A k \in DOMAIN policies : meant'[k] = meant[k]
  <2>1. /\ meant \in Seq(Policies) /\ told \in Policies /\ Len(meant) = Len(policies)
        /\ Len(policies) \in Nat /\ DOMAIN policies = 1..Len(policies)
    BY <1>1, <1>9 DEF TypeOK
  <2> QED  BY <1>3, <1>8, <1>9, <2>1
<1>11. TypeOK'
  <2>1. \A k \in DOMAIN policies' : IsA(heap', policies'[k], "policy")
    BY <1>1, <1>4, <1>7, <1>9 DEF TypeOK
  <2>2. \A a \in args' : IsA(heap', a, "strings")
    BY <1>1, <1>3, <1>4 DEF TypeOK
  <2>3. IsListOf(heap', HostList, "host") /\ IsListOf(heap', RuleList, "rule")
    BY <1>1, <1>4 DEF TypeOK
  <2>4. heap' \in Seq(Cells) /\ \A a \in DOMAIN heap' : WellPlaced(heap', heap'[a])
    BY <1>4 DEF Heaps
  <2>5. sent'.of \in {0} \cup DOMAIN policies' /\ spoilt' \subseteq DOMAIN policies'
    BY <1>1, <1>3, <1>9 DEF TypeOK
  <2> QED  BY <1>1, <1>3, <1>9, <1>10, <2>1, <2>2, <2>3, <2>4, <2>5 DEF TypeOK, HostList, RuleList
<1>12. Separate'
  BY <1>1, <1>2, BuiltOwned
<1>13. Sending'
  BY <1>1, <1>3, <1>4, <1>5 DEF Sending
<1>14. BuilderIntact'
  BY <1>1, <1>3, <1>5 DEF BuilderIntact, HostList, RuleList
<1>15. PoliciesApart'
  <2>1. ASSUME NEW k \in DOMAIN policies, k \notin spoilt
        PROVE  PolicyAt(heap', policies'[k]) = meant'[k]
    BY <1>1, <1>5, <1>9, <1>10, <2>1 DEF PoliciesApart
  <2>2. PolicyAt(heap', policies'[n]) = meant'[n]
    BY <1>6, <1>9, <1>10
  <2> QED  BY <1>3, <1>9, <2>1, <2>2 DEF PoliciesApart
<1>16. AppliedAsAsked'
  BY <1>1, <1>3 DEF AppliedAsAsked
<1> QED  BY <1>11, <1>12, <1>13, <1>14, <1>15, <1>16 DEF IInv, Structured

-----------------------------------------------------------------------------
(* The theorems.                                                           *)

\* Every step keeps the invariant.
LEMMA NextInv == IInv /\ [Next]_vars => IInv'
<1> SUFFICES ASSUME IInv, [Next]_vars  PROVE  IInv'
  OBVIOUS
<1>1. CASE \E a \in Actions : ByDefault(a)
  BY <1>1, InvByDefault
<1>2. CASE \E a \in Actions : \E p \in Hosts : AddHost(p, a)
  BY <1>2, InvAddHost
<1>3. CASE \E r \in Rules : AddRule(r)
  BY <1>3, InvAddRule
<1>4. CASE Build
  BY <1>4, InvBuild
<1>5. CASE Tamper
  BY <1>5, InvTamper
<1>6. CASE SetPolicy
  BY <1>6, InvSetPolicy
<1>7. CASE \E k \in DOMAIN policies, b \in BOOLEAN : Create(k, b)
  BY <1>7, InvCreate
<1>8. CASE UNCHANGED vars
  BY <1>8 DEF vars, IInv, Structured, TypeOK, Separate, Owned, Sending, BuilderIntact,
              PoliciesApart, AppliedAsAsked
<1> QED  BY <1>1, <1>2, <1>3, <1>4, <1>5, <1>6, <1>7, <1>8 DEF Next

\* It holds in every state.
LEMMA Invariant == Spec => []IInv
  BY InitInv, NextInv, PTL DEF Spec

\* Every cell and every reference between cells is of the kind its place calls
\* for, through all calls on the builder and changes by the program
\* (egress.py:42-62, 188-211).
THEOREM PolicyTypes == Spec => []TypeOK
<1>1. IInv => TypeOK
  BY DEF IInv, Structured
<1> QED  BY <1>1, Invariant, PTL

\* The builder holds what it was told, whatever the program does to the
\* policies build() returned and to the lists it passed (egress.py:196-210).
THEOREM BuilderUntouched == Spec => []BuilderIntact
<1>1. IInv => BuilderIntact
  BY DEF IInv
<1> QED  BY <1>1, Invariant, PTL

\* A policy stays what the builder had been told when build() returned it, until
\* the program changes that very policy (egress.py:188-201).
THEOREM PoliciesIndependent == Spec => []PoliciesApart
<1>1. IInv => PoliciesApart
  BY DEF IInv
<1> QED  BY <1>1, Invariant, PTL

\* A sandbox gets the policy its create was given, also when the policy is only
\* applied once the sandbox runs and the program has gone on meanwhile: its
\* default and host rules in any case, its rules if the program left it alone
\* (data_client.py, create_sandbox() and _coerce_egress_policy()).
THEOREM SandboxGetsPolicyAsked == Spec => []AppliedAsAsked
<1>1. IInv => AppliedAsAsked
  BY DEF IInv
<1> QED  BY <1>1, Invariant, PTL
=============================================================================

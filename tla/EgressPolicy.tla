--------------------------- MODULE EgressPolicy ---------------------------
(***************************************************************************)
(* acas_toolkit.egress.EgressPolicyBuilder and what becomes of a policy it *)
(* built on its way to a sandbox.  Dicts and lists are cells of a heap,    *)
(* because the question is who shares them: the builder, the policies it   *)
(* returned, and the lists the program passed in.  The program may change  *)
(* any cell it can reach (Tamper), also while a create is under way that   *)
(* was given the policy: one policy dict serves every session of a program.*)
(***************************************************************************)
EXTENDS Naturals, Sequences, SequencesExt

CONSTANTS
    Hosts, Paths, Names,  \* of rules; a path and a name may be None
    Methods,    \* the lists of methods a program passes
    PipHosts,   \* the patterns of pip_allowlist()
    None,
    MaxCalls,   \* bound on the calls on the builder that change it
    MaxBuilds,  \* bound on build()
    MaxTampers  \* bound on the program's changes

ASSUME NoneAssumption == None \notin Nat    \* it is not an address
ASSUME PipAssumption == PipHosts \in Seq(ToSet(PipHosts))
ASSUME BoundAssumption == {MaxCalls, MaxBuilds, MaxTampers} \subseteq Nat

VARIABLES
    heap,      \* the cells; an address is a position
    default,   \* EgressPolicyBuilder._default_action
    policies,  \* the dicts build() returned
    args,      \* the lists the program passed as methods
    sent,      \* the create under way, or the last one
    applied,   \* the policy the sandbox has
    told,      \* ghost: what the calls on the builder said
    meant,     \* ghost: what they had said when each policy was built
    spoilt,    \* ghost: the policies the program has changed
    tampers

vars == <<heap, default, policies, args, sent, applied, told, meant, spoilt, tampers>>
builder == <<default, policies, args, told, meant>>

Actions == {"Allow", "Deny"}
Other(a) == IF a = "Allow" THEN "Deny" ELSE "Allow"
Patterns == Hosts \cup ToSet(PipHosts)
Rules == [host : Hosts, path : Paths, name : Names, action : Actions,
          methods : Methods \cup {None}]

\* The builder's own lists, _host_rules and _rules.
HostList == 1
RuleList == 2

List(s) == [kind |-> "list", items |-> s]        \* of dicts
Strings(s) == [kind |-> "strings", items |-> s]
Host(p, a) == [kind |-> "host", pattern |-> p, action |-> a]

-----------------------------------------------------------------------------
(* What is in the heap h, by value.                                        *)

ItemsAt(h, a) == IF a = None THEN <<>> ELSE h[a].items

HostsAt(h, a) ==
    [j \in 1..Len(ItemsAt(h, a)) |->
        LET r == h[ItemsAt(h, a)[j]] IN <<r.pattern, r.action>>]

RulesAt(h, a) ==
    [j \in 1..Len(ItemsAt(h, a)) |->
        LET r == h[ItemsAt(h, a)[j]]
            m == h[r.match]
        IN  [host |-> m.host, path |-> m.path, name |-> r.name,
             methods |-> IF m.methods = None THEN None ELSE h[m.methods].items,
             action |-> h[r.action].type]]

PolicyAt(h, p) == [default |-> h[p].default, hosts |-> HostsAt(h, h[p].hosts),
                   rules |-> RulesAt(h, h[p].rules)]

\* The cells a cell refers to, and those reachable from an address.
Refs(c) ==
    CASE c.kind = "policy" -> {c.hosts, c.rules} \ {None}
      [] c.kind = "list" -> ToSet(c.items)
      [] c.kind = "rule" -> {c.match, c.action}
      [] c.kind = "match" -> {c.methods} \ {None}
      [] OTHER -> {}

Follow(S) == S \cup UNION {Refs(heap[a]) : a \in S}
Reach(a) == Follow(Follow(Follow(Follow({a}))))

NoCreate == [of |-> 0, ep |-> None, asked |-> None, kept |-> TRUE, waits |-> FALSE]

-----------------------------------------------------------------------------
\* EgressPolicyBuilder(), and pip_allowlist().
NewBuilder == heap = <<List(<<>>), List(<<>>)>> /\ default = "Allow"

PipAllowlist ==
    /\ heap = <<List([j \in 1..Len(PipHosts) |-> j + 2]), List(<<>>)>>
                 \o [j \in 1..Len(PipHosts) |-> Host(PipHosts[j], "Allow")]
    /\ default = "Deny"

Init ==
    /\ NewBuilder \/ PipAllowlist
    /\ told = [default |-> default, hosts |-> HostsAt(heap, HostList), rules |-> <<>>]
    /\ policies = <<>> /\ meant = <<>>
    /\ args = {} /\ spoilt = {} /\ tampers = 0
    /\ sent = NoCreate /\ applied = None

MayCall == Len(told.hosts) + Len(told.rules) < MaxCalls

\* deny_by_default() and allow_by_default()
ByDefault(a) ==
    /\ default # a
    /\ default' = a /\ told' = [told EXCEPT !.default = a]
    /\ UNCHANGED <<heap, policies, args, sent, applied, meant, spoilt, tampers>>

\* allow_host() and deny_host(); allow_hosts() and deny_hosts() call them.
AddHost(p, a) ==
    /\ MayCall
    /\ heap' = [heap EXCEPT ![HostList].items = Append(@, Len(heap) + 1)] \o <<Host(p, a)>>
    /\ told' = [told EXCEPT !.hosts = Append(@, <<p, a>>)]
    /\ UNCHANGED <<default, policies, args, sent, applied, meant, spoilt, tampers>>

Told(r) == told' = [told EXCEPT !.rules = Append(@, r)]

\* allow_rule() and deny_rule(): methods, if given, is copied from the list the
\* program passes (cell n + 1) into one of the rule's own.  Without methods the
\* two cells are there and nothing refers to them.
AddRule(r) ==
    /\ MayCall /\ Told(r)
    /\ LET n == Len(heap)
           given == r.methods # None
           list == Strings(IF given THEN r.methods ELSE <<>>)
       IN  /\ heap' = [heap EXCEPT ![RuleList].items = Append(@, n + 5)] \o
                 <<list, list,
                   [kind |-> "match", host |-> r.host, path |-> r.path,
                    methods |-> IF given THEN n + 2 ELSE None],
                   [kind |-> "action", type |-> r.action],
                   [kind |-> "rule", match |-> n + 3, action |-> n + 4, name |-> r.name]>>
           /\ args' = IF given THEN args \cup {n + 1} ELSE args
    /\ UNCHANGED <<default, policies, sent, applied, meant, spoilt, tampers>>

-----------------------------------------------------------------------------
(* build(): the copies are new cells, in the order they are listed here.   *)

CopyHosts(h, s) == [j \in 1..Len(s) |-> h[s[j]]]

\* Mutant: the copy of a rule refers to the rule's own list of methods.
CopyRulesShallow(h, s, n) ==
    LET m == Len(s)
        match(j) == h[h[s[j]].match]
    IN  [j \in 1..m |-> match(j)]
        \o [j \in 1..m |-> h[h[s[j]].action]]
        \o [j \in 1..m |-> [h[s[j]] EXCEPT !.match = n + j, !.action = n + m + j]]
        \o [j \in 1..m |-> Strings(ItemsAt(h, match(j).methods))]

\* The matches of the rules s, their actions, the rules themselves and their
\* lists of methods, behind cell n.  As above, nothing refers to the list of a
\* rule that has none.
CopyRules(h, s, n) ==
    LET m == Len(s)
        match(j) == h[h[s[j]].match]
    IN  [j \in 1..m |->
            [match(j) EXCEPT !.methods = IF @ = None THEN None ELSE n + 3 * m + j]]
        \o [j \in 1..m |-> h[h[s[j]].action]]
        \o [j \in 1..m |-> [h[s[j]] EXCEPT !.match = n + j, !.action = n + m + j]]
        \o [j \in 1..m |-> Strings(ItemsAt(h, match(j).methods))]

\* The list of the m cells behind cell n; a policy without rules of a kind has
\* no such key.
ListOf(m, n) == List([j \in 1..m |-> n + j])
Key(m, a) == IF m = 0 THEN None ELSE a

Policy(d, hosts, rules) == [kind |-> "policy", default |-> d, hosts |-> hosts, rules |-> rules]

\* Mutant: the policy has the builder's own list of host rules.
BuildShares ==
    /\ Len(policies) < MaxBuilds
    /\ LET rules == heap[RuleList].items
           n == Len(heap)
           m == n + 4 * Len(rules)
       IN  /\ heap' = heap \o CopyRules(heap, rules, n)
                        \o <<ListOf(Len(rules), n + 2 * Len(rules)),
                             Policy(default, HostList, Key(Len(rules), m + 1))>>
           /\ policies' = Append(policies, m + 2)
    /\ meant' = Append(meant, told)
    /\ UNCHANGED <<default, args, sent, applied, told, spoilt, tampers>>

\* Mutant: hostRules and rules are swapped.
BuildSwaps ==
    /\ Len(policies) < MaxBuilds
    /\ LET hosts == heap[HostList].items
           rules == heap[RuleList].items
           n == Len(heap) + Len(hosts)
           m == n + 4 * Len(rules)
       IN  /\ heap' = heap \o CopyHosts(heap, hosts) \o CopyRules(heap, rules, n)
                        \o <<ListOf(Len(hosts), Len(heap)), ListOf(Len(rules), n + 2 * Len(rules)),
                             Policy(default, Key(Len(rules), m + 2), Key(Len(hosts), m + 1))>>
           /\ policies' = Append(policies, m + 3)
    /\ meant' = Append(meant, told)
    /\ UNCHANGED <<default, args, sent, applied, told, spoilt, tampers>>

Build ==
    /\ Len(policies) < MaxBuilds
    /\ LET hosts == heap[HostList].items
           rules == heap[RuleList].items
           n == Len(heap) + Len(hosts)
           m == n + 4 * Len(rules)
       IN  /\ heap' = heap \o CopyHosts(heap, hosts) \o CopyRules(heap, rules, n)
                        \o <<ListOf(Len(hosts), Len(heap)), ListOf(Len(rules), n + 2 * Len(rules)),
                             Policy(default, Key(Len(hosts), m + 1), Key(Len(rules), m + 2))>>
           /\ policies' = Append(policies, m + 3)
    /\ meant' = Append(meant, told)
    /\ UNCHANGED <<default, args, sent, applied, told, spoilt, tampers>>

-----------------------------------------------------------------------------
(* The program changes a cell it has; create_sandbox() takes a policy.     *)

Spoil(c) ==
    CASE c.kind = "policy" -> [c EXCEPT !.default = Other(@)]
      [] c.kind \in {"list", "strings"} -> [c EXCEPT !.items = <<>>]
      [] c.kind = "host" -> [c EXCEPT !.action = Other(@)]
      [] c.kind = "action" -> [c EXCEPT !.type = Other(@)]
      [] c.kind = "rule" -> [c EXCEPT !.name = "changed"]
      [] c.kind = "match" -> [c EXCEPT !.path = "changed"]

Tamper ==
    /\ tampers < MaxTampers /\ tampers' = tampers + 1
    /\ \/ /\ \E a \in args : heap' = [heap EXCEPT ![a] = Spoil(@)]
          /\ UNCHANGED <<spoilt, sent>>
       \/ \E k \in DOMAIN policies :
             /\ \E a \in Reach(policies[k]) : heap' = [heap EXCEPT ![a] = Spoil(@)]
             /\ spoilt' = spoilt \cup {k}
             /\ sent' = [sent EXCEPT !.kept = @ /\ sent.of # k]
    /\ UNCHANGED <<builder, applied>>

\* Mutant: a policy without host rules is no policy.
CoerceDrops(h, p) ==
    IF h[p].hosts = None
    THEN [default |-> "Allow", hosts |-> <<>>, rules |-> None]
    ELSE [default |-> h[p].default, hosts |-> HostsAt(h, h[p].hosts), rules |-> h[p].rules]

\* _coerce_egress_policy(): the host rules by value, the list of rules itself.
Coerce(h, p) == [default |-> h[p].default, hosts |-> HostsAt(h, h[p].hosts),
                 rules |-> IF ItemsAt(h, h[p].rules) = <<>> THEN None ELSE h[p].rules]

\* The policy reaches the service: only now are the rules read.
Serialize(h, ep) == [default |-> ep.default, hosts |-> ep.hosts,
                     rules |-> RulesAt(h, ep.rules)]

\* A fresh create sends the policy along; one from a snapshot keeps it until
\* the sandbox runs.
Create(k, rehydrate) ==
    /\ ~ sent.waits
    /\ LET ep == Coerce(heap, policies[k])
       IN  /\ sent' = [of |-> k, ep |-> ep, asked |-> PolicyAt(heap, policies[k]),
                       kept |-> TRUE, waits |-> rehydrate]
           /\ applied' = IF rehydrate THEN None ELSE Serialize(heap, ep)
    /\ UNCHANGED <<heap, builder, spoilt, tampers>>

\* The sandbox runs; set_egress_policy().
SetPolicy ==
    /\ sent.waits
    /\ sent' = [sent EXCEPT !.waits = FALSE]
    /\ applied' = Serialize(heap, sent.ep)
    /\ UNCHANGED <<heap, builder, spoilt, tampers>>

-----------------------------------------------------------------------------
Next ==
    \/ \E a \in Actions : ByDefault(a) \/ \E p \in Hosts : AddHost(p, a)
    \/ \E r \in Rules : AddRule(r)
    \/ Build \/ Tamper \/ SetPolicy
    \/ \E k \in DOMAIN policies, b \in BOOLEAN : Create(k, b)

Spec == Init /\ [][Next]_vars

-----------------------------------------------------------------------------
(* Properties.                                                             *)

Cells ==
    [kind : {"policy"}, default : Actions, hosts : Nat \cup {None}, rules : Nat \cup {None}]
    \cup [kind : {"list"}, items : Seq(Nat)]
    \cup [kind : {"strings"}, items : Methods \cup {<<>>}]
    \cup [kind : {"host"}, pattern : Patterns, action : Actions]
    \cup [kind : {"action"}, type : Actions]
    \cup [kind : {"rule"}, match : Nat, action : Nat, name : Names \cup {"changed"}]
    \cup [kind : {"match"}, host : Hosts, path : Paths \cup {"changed"},
          methods : Nat \cup {None}]

Policies == [default : Actions, hosts : Seq(Patterns \X Actions), rules : Seq(Rules)]

\* The address a of the heap h is one of a cell of the kind k.
IsA(h, a, k) == a \in DOMAIN h /\ h[a].kind = k
IsListOf(h, a, k) == IsA(h, a, "list") /\ \A b \in ToSet(h[a].items) : IsA(h, b, k)

\* The references in the cell c lead to cells, of the kind their place calls for.
WellPlaced(h, c) ==
    /\ c.kind = "list" => ToSet(c.items) \subseteq DOMAIN h
    /\ c.kind = "policy" => /\ c.hosts # None => IsListOf(h, c.hosts, "host")
                            /\ c.rules # None => IsListOf(h, c.rules, "rule")
    /\ c.kind = "rule" => IsA(h, c.match, "match") /\ IsA(h, c.action, "action")
    /\ c.kind = "match" /\ c.methods # None => IsA(h, c.methods, "strings")

\* The builder and its policies are well formed (egress.py:42-62).
TypeOK ==
    /\ heap \in Seq(Cells) /\ \A a \in DOMAIN heap : WellPlaced(heap, heap[a])
    /\ default \in Actions
    /\ IsListOf(heap, HostList, "host") /\ IsListOf(heap, RuleList, "rule")
    /\ policies \in Seq(Nat) /\ \A k \in DOMAIN policies : IsA(heap, policies[k], "policy")
    /\ \A a \in args : IsA(heap, a, "strings")
    /\ told \in Policies /\ meant \in Seq(Policies) /\ Len(meant) = Len(policies)
    /\ sent.of \in {0} \cup DOMAIN policies /\ sent.kept \in BOOLEAN /\ sent.waits \in BOOLEAN
    /\ tampers \in 0..MaxTampers /\ spoilt \subseteq DOMAIN policies

\* The builder holds what it was told, in order, whatever the program does to
\* the policies it returned (egress.py:196) and to the lists it was given.
BuilderIntact ==
    told = [default |-> default, hosts |-> HostsAt(heap, HostList),
            rules |-> RulesAt(heap, RuleList)]

\* A policy is what the builder had been told when it was built, whatever it is
\* told later and whatever the program does to other policies.
PoliciesApart ==
    \A k \in DOMAIN policies \ spoilt : PolicyAt(heap, policies[k]) = meant[k]

\* The sandbox gets the policy as it was when create_sandbox() was called: its
\* default and its host rules in any case, its rules unless the program changes
\* the policy during the call, which a rehydrate leaves time for.
AppliedAsAsked ==
    applied # None =>
        /\ applied.default = sent.asked.default
        /\ applied.hosts = sent.asked.hosts
        /\ sent.kept => applied.rules = sent.asked.rules
=============================================================================
